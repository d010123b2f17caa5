------------------------- MODULE EventPipelineProofs -------------------------
(***************************************************************************)
(* Events are conserved, none is stranded, and Stop never makes a handler  *)
(* panic, for every number of handlers and queries and every capacity.     *)
(*                                                                         *)
(* The count of Conservation is inductive once fanOut is known to have an  *)
(* event in hand exactly while it offers one (OfferInHand).  That nothing  *)
(* is stranded needs the order in which the close travels down the         *)
(* pipeline (CloseOrder).  That a closed channel is not sent to needs what *)
(* each step of Stop has achieved (StopOrder), and that Stop found the     *)
(* listeners running: without this the code does panic, as the run with    *)
(* EarlyStop shows.                                                        *)
(***************************************************************************)
EXTENDS EventPipeline, FiniteSetTheorems, TLAPS

Busy == {h \in Handler : serves[h] # "idle"}

\* fanOut has an event in hand while it has channels to offer it to.
OfferInHand == fan = "offer" <=> offer # {}

\* The close travels from the event channel through fanOut to the consumers.
CloseOrder ==
  /\ outClosed # {} => inClosed /\ in = 0 /\ fan # "offer"
  /\ fan = "done" => outClosed = Out
  /\ \A o \in Out : consumer[o] = "done" => out[o] = 0 /\ o \in outClosed
  /\ main = "exit" => fan = "done" /\ \A o \in Out : consumer[o] # "run"

\* What Stop has achieved, if the listeners were running when it began.
StopOrder ==
  /\ inClosed => stop = "done"
  /\ start = "begin" => \A s \in Server : listener[s] = "new"
  /\ stop # "none" => /\ captured = Server
                      /\ \A s \in Server : listener[s] \in {"serving", "stopped"}
  /\ stop \notin {"none", "udp"} => listener["udp"] = "stopped"
  /\ stop \notin {"none", "udp", "udpWait", "tcp"} => listener["tcp"] = "stopped"
  /\ stop = "done" => \A h \in Handler : serves[h] = "idle"
  /\ ~panicked

IInv ==
  /\ TypeOK
  /\ IsFiniteSet(Busy) /\ Conservation
  /\ OfferInHand /\ CloseOrder
  /\ ~EarlyStop => StopOrder

\* The state in which main launches the components satisfies the invariant.
LEMMA InitIInv == Init => IInv
<1> SUFFICES ASSUME Init PROVE IInv
  OBVIOUS
<1> USE PipelineAssumption DEF Init
<1>1. TypeOK
  <2>1. 0 \in 0..InCap /\ 0 \in 0..OutCap /\ 0 \in 0..ErrCap
    OBVIOUS
  <2>2. {cancelled, listenErr, inClosed, panicked} \subseteq BOOLEAN
    OBVIOUS
  <2> QED
    BY <2>1, <2>2 DEF TypeOK
<1>2. Busy = {}
  BY DEF Busy
<1>3. IsFiniteSet(Busy) /\ Conservation
  BY <1>2, FS_EmptySet DEF Busy, Conservation, Out
<1>4. OfferInHand /\ CloseOrder
  BY DEF OfferInHand, CloseOrder
<1>5. StopOrder
  BY DEF StopOrder
<1> QED
  BY <1>1, <1>3, <1>4, <1>5 DEF IInv

\* Types are kept, and channels keep within their capacities.
LEMMA NextTypeOK == TypeOK /\ [Next]_vars => TypeOK'
<1> SUFFICES ASSUME TypeOK, [Next]_vars PROVE TypeOK'
  OBVIOUS
<1> USE PipelineAssumption DEF TypeOK, serverVars, procVars, eventVars, Out, Server
<1>1. CASE StartServers
  BY <1>1 DEF StartServers
<1>2. CASE StartSelect
  BY <1>2 DEF StartSelect
<1>3. CASE StartReturns
  BY <1>3 DEF StartReturns, ReportComponentErr
<1>4. CASE \E s \in Server : Listen(s)
  BY <1>4 DEF Listen
<1>5. CASE \E s \in Server : ListenFails(s)
  BY <1>5 DEF ListenFails
<1>6. CASE StopCaptures
  BY <1>6 DEF StopCaptures
<1>7. CASE StopShuts
  BY <1>7 DEF StopShuts, Shutdown, Quiet
<1>8. CASE StopCloses
  BY <1>8 DEF StopCloses
<1>9. CASE \E h \in Handler : Publish(h)
  <2>1. panicked' \in BOOLEAN
    BY <1>9 DEF Publish
  <2> QED
    BY <1>9, <2>1 DEF Publish
<1>10. CASE \E h \in Handler, s \in Server : Arrive(h, s)
  BY <1>10 DEF Arrive
<1>11. CASE FanReceive
  BY <1>11 DEF FanReceive
<1>12. CASE \E o \in Out : FanOffer(o)
  BY <1>12 DEF FanOffer
<1>13. CASE \E o \in Out : FanCloses(o)
  BY <1>13 DEF FanCloses
<1>14. CASE \E o \in Out : Consume(o)
  BY <1>14 DEF Consume
<1>15. CASE \E o \in Out : ConsumerReturns(o)
  BY <1>15 DEF ConsumerReturns
<1>16. CASE \E o \in Out : ConsumerDies(o)
  BY <1>16 DEF ConsumerDies, ReportComponentErr
<1>17. CASE MainSelect
  <2>1. cancelled' \in BOOLEAN
    BY <1>17 DEF MainSelect
  <2> QED
    BY <1>17, <2>1 DEF MainSelect
<1>18. CASE MainStopped
  BY <1>18 DEF MainStopped
<1>19. CASE MainExits
  BY <1>19 DEF MainExits
<1>20. CASE OthersEnd
  BY <1>20 DEF OthersEnd, ReportComponentErr
<1>21. CASE Signal
  BY <1>21 DEF Signal
<1>22. CASE UNCHANGED vars
  BY <1>22 DEF vars
<1> QED
  BY <1>1, <1>2, <1>3, <1>4, <1>5, <1>6, <1>7, <1>8, <1>9, <1>10, <1>11, <1>12,
     <1>13, <1>14, <1>15, <1>16, <1>17, <1>18, <1>19, <1>20, <1>21, <1>22
     DEF Next, AliveNext, ProxySteps, StopSteps, FanSteps, ConsumerSteps, MainSteps

\* A query that arrives makes one handler more busy ...
LEMMA ArriveCounts ==
  ASSUME TypeOK, IsFiniteSet(Busy), NEW h \in Handler, NEW s \in Server, Arrive(h, s)
  PROVE  IsFiniteSet(Busy') /\ Cardinality(Busy') = Cardinality(Busy) + 1
<1>1. Busy' = Busy \cup {h} /\ h \notin Busy
  BY DEF Arrive, TypeOK, Busy, Server
<1> QED
  BY <1>1, FS_AddElement

\* ... and a handler that publishes is one less.
LEMMA PublishCounts ==
  ASSUME TypeOK, IsFiniteSet(Busy), NEW h \in Handler, Publish(h)
  PROVE  /\ IsFiniteSet(Busy')
         /\ Cardinality(Busy') \in Nat /\ Cardinality(Busy) = Cardinality(Busy') + 1
<1>1. Busy' = Busy \ {h} /\ h \in Busy
  BY DEF Publish, TypeOK, Busy
<1>2. Cardinality(Busy) \in Nat
  BY FS_CardinalityType
<1>3. IsFiniteSet(Busy') /\ Cardinality(Busy') = Cardinality(Busy) - 1
  BY <1>1, FS_RemoveElement
<1>4. Cardinality(Busy') \in Nat
  BY <1>3, FS_CardinalityType
<1> QED
  BY <1>2, <1>3, <1>4

\* Every step keeps the count of events.
LEMMA NextConservation ==
  TypeOK /\ IsFiniteSet(Busy) /\ Conservation /\ OfferInHand /\ [Next]_vars
    => IsFiniteSet(Busy') /\ Conservation' /\ OfferInHand'
<1> SUFFICES ASSUME TypeOK, IsFiniteSet(Busy), Conservation, OfferInHand, [Next]_vars
             PROVE  IsFiniteSet(Busy') /\ Conservation' /\ OfferInHand'
  OBVIOUS
<1> DEFINE Waits(o) == IF o \in offer THEN 1 ELSE 0
           InFlow == /\ accepted = in + taken
                     /\ \A o \in Out : taken = Waits(o) + out[o] + received[o] + lost[o]
<1>a. Cardinality(Busy) \in Nat
  BY FS_CardinalityType
<1>b. InFlow /\ (~panicked => arrived = accepted + dropped + Cardinality(Busy))
  BY DEF Conservation, Busy
<1>c. SUFFICES /\ IsFiniteSet(Busy') /\ InFlow' /\ OfferInHand'
               /\ ~panicked' => arrived' = accepted' + dropped' + Cardinality(Busy')
  BY DEF Conservation, Busy
<1> HIDE DEF InFlow
<1> USE DEF TypeOK, serverVars, procVars, eventVars
<1>1. ASSUME UNCHANGED <<serves, arrived, accepted, dropped, panicked>>
      PROVE  /\ IsFiniteSet(Busy')
             /\ ~panicked' => arrived' = accepted' + dropped' + Cardinality(Busy')
  <2>1. Busy' = Busy
    BY <1>1 DEF Busy
  <2> QED
    BY <1>1, <1>b, <2>1
<1>2. ASSUME UNCHANGED <<in, fan, offer, out, accepted, taken, received, lost>>
      PROVE  InFlow' /\ OfferInHand'
  BY <1>2, <1>b DEF InFlow, OfferInHand
<1>3. CASE ProxySteps \/ StopSteps
  BY <1>1, <1>2, <1>3 DEF ProxySteps, StopSteps, StartServers, StartSelect,
     StartReturns, ReportComponentErr, Listen, ListenFails, StopCaptures, StopShuts,
     Shutdown, Quiet, StopCloses
<1>4. CASE \E h \in Handler : Publish(h)
  <2>1. PICK h \in Handler : Publish(h)
    BY <1>4
  <2>2. /\ IsFiniteSet(Busy')
        /\ Cardinality(Busy') \in Nat /\ Cardinality(Busy) = Cardinality(Busy') + 1
    BY <2>1, PublishCounts
  <2>3. InFlow' /\ OfferInHand'
    BY <1>b, <2>1 DEF Publish, InFlow, OfferInHand
  <2>4. ~panicked' => arrived' = accepted' + dropped' + Cardinality(Busy')
    BY <1>b, <2>1, <2>2 DEF Publish
  <2> QED
    BY <2>2, <2>3, <2>4
<1>5. CASE \E h \in Handler, s \in Server : Arrive(h, s)
  <2>1. PICK h \in Handler, s \in Server : Arrive(h, s)
    BY <1>5
  <2>2. IsFiniteSet(Busy') /\ Cardinality(Busy') = Cardinality(Busy) + 1
    BY <2>1, ArriveCounts
  <2>3. InFlow' /\ OfferInHand'
    BY <1>2, <2>1 DEF Arrive
  <2>4. ~panicked' => arrived' = accepted' + dropped' + Cardinality(Busy')
    BY <1>a, <1>b, <2>1, <2>2 DEF Arrive
  <2> QED
    BY <2>2, <2>3, <2>4
<1>6. CASE FanReceive
  BY <1>1, <1>b, <1>6 DEF FanReceive, InFlow, OfferInHand, Out
<1>7. CASE \E o \in Out : FanOffer(o)
  BY <1>1, <1>b, <1>7 DEF FanOffer, InFlow, OfferInHand
<1>8. CASE \E o \in Out : Consume(o)
  BY <1>1, <1>b, <1>8 DEF Consume, InFlow, OfferInHand
<1>9. CASE \E o \in Out : ConsumerDies(o)
  <2>1. InFlow' /\ OfferInHand'
    BY <1>b, <1>9 DEF ConsumerDies, InFlow, OfferInHand
  <2> QED
    BY <1>1, <1>9, <2>1 DEF ConsumerDies
<1>10. CASE \E o \in Out : FanCloses(o)
  BY <1>1, <1>b, <1>10 DEF FanCloses, InFlow, OfferInHand
<1>11. CASE \/ \E o \in Out : ConsumerReturns(o)
            \/ MainSteps \/ OthersEnd \/ Signal \/ UNCHANGED vars
  BY <1>1, <1>2, <1>11 DEF ConsumerReturns, MainSteps, MainSelect, MainStopped,
     MainExits, OthersEnd, ReportComponentErr, Signal, vars
<1> QED
  BY <1>1, <1>2, <1>3, <1>4, <1>5, <1>6, <1>7, <1>8, <1>9, <1>10, <1>11
     DEF Next, AliveNext, ProxySteps, StopSteps, FanSteps, ConsumerSteps, MainSteps

\* Every step keeps the order of the close.
LEMMA NextCloseOrder == TypeOK /\ OfferInHand /\ CloseOrder /\ [Next]_vars => CloseOrder'
<1> SUFFICES ASSUME TypeOK, OfferInHand, CloseOrder, [Next]_vars PROVE CloseOrder'
  OBVIOUS
<1> USE DEF TypeOK, serverVars, procVars, eventVars, OfferInHand, CloseOrder
<1>0. CASE UNCHANGED vars
  BY <1>0 DEF vars
<1>e. CASE main # "exit"
  <2>1. CASE ProxySteps \/ StopSteps \/ (\E h \in Handler, s \in Server : Arrive(h, s))
    BY <2>1 DEF ProxySteps, StopSteps, StartServers, StartSelect, StartReturns,
       ReportComponentErr, Listen, ListenFails, StopCaptures, StopShuts, Shutdown,
       Quiet, StopCloses, Arrive
  <2>2. CASE \E h \in Handler : Publish(h)
    BY <2>2 DEF Publish
  <2>3. CASE FanReceive \/ (\E o \in Out : FanOffer(o))
    BY <2>3 DEF FanReceive, FanOffer, Out
  <2>4. CASE \E o \in Out : FanCloses(o)
    BY <2>4 DEF FanCloses, Out
  <2>5. CASE \E o \in Out : ConsumerSteps(o) \/ ConsumerDies(o)
    BY <2>5 DEF ConsumerSteps, Consume, ConsumerReturns, ConsumerDies,
       ReportComponentErr
  <2>6. CASE MainSelect \/ MainStopped \/ OthersEnd \/ Signal
    BY <2>6 DEF MainSelect, MainStopped, OthersEnd, ReportComponentErr, Signal
  <2>7. CASE MainExits
    BY <2>7 DEF MainExits
  <2> QED
    BY <1>0, <1>e, <2>1, <2>2, <2>3, <2>4, <2>5, <2>6, <2>7
       DEF Next, AliveNext, ProxySteps, StopSteps, FanSteps, ConsumerSteps, MainSteps
<1> QED
  BY <1>0, <1>e DEF Next

\* Every step keeps what Stop has achieved.
LEMMA NextStopOrder == ~EarlyStop /\ TypeOK /\ StopOrder /\ [Next]_vars => StopOrder'
<1> SUFFICES ASSUME ~EarlyStop, TypeOK, StopOrder, [Next]_vars PROVE StopOrder'
  OBVIOUS
<1> USE DEF TypeOK, serverVars, procVars, eventVars, StopOrder, Server
<1>1. CASE StartServers \/ StartSelect \/ StartReturns
  BY <1>1 DEF StartServers, StartSelect, StartReturns, ReportComponentErr
<1>2. CASE (\E s \in Server : Listen(s)) \/ (\E s \in Server : ListenFails(s))
  BY <1>2 DEF Listen, ListenFails
<1>3. CASE StopCaptures
  BY <1>3 DEF StopCaptures
<1>4. CASE StopShuts
  BY <1>4 DEF StopShuts, Shutdown, Quiet
<1>5. CASE StopCloses
  BY <1>5 DEF StopCloses
<1>6. CASE \E h \in Handler : Publish(h)
  BY <1>6 DEF Publish
<1>7. CASE \E h \in Handler, s \in Server : Arrive(h, s)
  BY <1>7 DEF Arrive
<1>8. CASE \/ FanReceive
           \/ \E o \in Out : FanOffer(o) \/ FanCloses(o) \/ ConsumerSteps(o) \/ ConsumerDies(o)
  BY <1>8 DEF FanReceive, FanOffer, FanCloses, ConsumerSteps, Consume,
     ConsumerReturns, ConsumerDies, ReportComponentErr
<1>9. CASE MainSteps \/ OthersEnd \/ Signal \/ UNCHANGED vars
  BY <1>9 DEF MainSteps, MainSelect, MainStopped, MainExits, OthersEnd,
     ReportComponentErr, Signal, vars
<1> QED
  BY <1>1, <1>2, <1>3, <1>4, <1>5, <1>6, <1>7, <1>8, <1>9
     DEF Next, AliveNext, ProxySteps, StopSteps, FanSteps, ConsumerSteps, MainSteps

\* Every step keeps the invariant ...
LEMMA NextIInv == IInv /\ [Next]_vars => IInv'
BY NextTypeOK, NextConservation, NextCloseOrder, NextStopOrder DEF IInv

\* ... and it holds in every state.
LEMMA Invariance == Spec => []IInv
BY InitIInv, NextIInv, PTL DEF Spec

\* Types, and every channel within its capacity.
THEOREM TypeCorrect == Spec => []TypeOK
<1>1. IInv => TypeOK
  BY DEF IInv
<1> QED
  BY <1>1, Invariance, PTL

\* publishEvent, fanOut and the consumers lose no event silently and
\* duplicate none, also while Stop is under way.
THEOREM EventsConserved == Spec => []Conservation
<1>1. IInv => Conservation
  BY DEF IInv
<1> QED
  BY <1>1, Invariance, PTL

\* Proxy.Stop closes the event channel only when no handler will send to it,
\* provided it finds the listeners serving or failed.
THEOREM StopIsSafe == Spec => [](~EarlyStop => NoSendOnClosed)
<1>1. IInv => (~EarlyStop => NoSendOnClosed)
  BY DEF IInv, StopOrder, NoSendOnClosed
<1> QED
  BY <1>1, Invariance, PTL

\* When main has joined its components, every accepted event has reached each
\* consumer that lives, or was counted as dropped.
THEOREM NoneStranded == Spec => []NothingStranded
<1>1. IInv => NothingStranded
  BY DEF IInv, TypeOK, Conservation, OfferInHand, CloseOrder, NothingStranded
<1> QED
  BY <1>1, Invariance, PTL
=============================================================================
