---------------------------- MODULE EventPipeline ----------------------------
(***************************************************************************)
(* The way of a query event and the shutdown that ends it: the handlers    *)
(* publish into the proxy's event channel (pkg/proxy/proxy.go), fanOut     *)
(* copies every event to the channels of the metrics collector and of the  *)
(* query logger (cmd/agent/main.go), which consume them                    *)
(* (pkg/metrics/collector.go, pkg/logging/logger.go).  Every send is       *)
(* non-blocking and counts what it drops.  Shutdown runs through the same  *)
(* objects: Stop, called by main and by Start under one sync.Once, shuts   *)
(* the listeners down, waits for the handlers and closes the event         *)
(* channel; the close travels down the pipeline and main joins everybody.  *)
(*                                                                         *)
(* Events are counted, not named.  The listeners are miekg/dns servers: a  *)
(* Shutdown before ListenAndServe has begun fails, and a later one stops   *)
(* the reads and waits for the handlers the server has started.            *)
(***************************************************************************)
EXTENDS Naturals, FiniteSets

CONSTANTS
  Handler,      \* goroutines the listeners start, one per query
  InCap,        \* capacity of the proxy's event channel
  OutCap,       \* capacity of the channels behind fanOut
  ErrCap,       \* capacity of componentErrs
  MaxQueries,   \* bound on the queries that arrive
  EarlyStop     \* may Stop be called before the listeners run?

ASSUME PipelineAssumption ==
  /\ InCap \in Nat \ {0} /\ OutCap \in Nat \ {0} /\ ErrCap \in Nat \ {0}
  /\ MaxQueries \in Nat
  /\ EarlyStop \in BOOLEAN

VARIABLES
  cancelled,     \* the context shared by all components
  listener,      \* udp and tcp: "new", "created", "serving", "stopped"
  captured,      \* the servers Stop took out of the proxy
  serves,        \* the server a handler's query came from, or "idle"
  stop,          \* where the body of stopped.Do stands
  start,         \* the goroutine in proxy.Start
  listenErr,     \* Start's errCh holds an error
  main,          \* the main goroutine
  others,        \* the remaining components, taken together
  errs,          \* componentErrs: errors buffered
  in, inClosed,  \* the event channel
  fan, offer,    \* fanOut, and the channels its event has still to be offered to
  out, outClosed,\* the channels behind fanOut
  consumer,      \* the collector and the logger
  arrived, accepted, dropped, taken, received, lost,  \* counts of events
  panicked       \* a send on a closed channel

serverVars == <<listener, captured, serves, arrived>>
procVars == <<cancelled, stop, start, listenErr, main, others, errs>>
eventVars == <<in, inClosed, fan, offer, out, outClosed, consumer,
               accepted, dropped, taken, received, lost, panicked>>
vars == <<serverVars, procVars, eventVars>>

Server == {"udp", "tcp"}
Out == {"metrics", "logger"}
-----------------------------------------------------------------------------
Init ==
  /\ cancelled = FALSE
  /\ listener = [s \in Server |-> "new"] /\ captured = {}
  /\ serves = [h \in Handler |-> "idle"]
  /\ stop = "none" /\ start = "begin" /\ listenErr = FALSE
  /\ main = "select" /\ others = "run" /\ errs = 0
  /\ in = 0 /\ inClosed = FALSE
  /\ fan = "recv" /\ offer = {}
  /\ out = [o \in Out |-> 0] /\ outClosed = {}
  /\ consumer = [o \in Out |-> "run"]
  /\ arrived = 0 /\ accepted = 0 /\ dropped = 0 /\ taken = 0
  /\ received = [o \in Out |-> 0] /\ lost = [o \in Out |-> 0]
  /\ panicked = FALSE

(* reportComponentErr: dropped when the buffer is full. *)
ReportComponentErr == errs' = IF errs < ErrCap THEN errs + 1 ELSE errs
-----------------------------------------------------------------------------
(* proxy.Start and the two listeners *)

(* Start creates the servers and goes on to its select. *)
StartServers ==
  /\ start = "begin"
  /\ listener' = [s \in Server |-> "created"]
  /\ start' = "select"
  /\ UNCHANGED <<captured, serves, arrived, cancelled, stop, listenErr, main, others, errs>>
  /\ UNCHANGED eventVars

(* ListenAndServe binds and serves ... *)
Listen(s) ==
  /\ listener[s] = "created"
  /\ listener' = [listener EXCEPT ![s] = "serving"]
  /\ UNCHANGED <<captured, serves, arrived, procVars, eventVars>>

(* ... or fails, at once or after it has waited for its handlers. *)
ListenFails(s) ==
  /\ \/ listener[s] = "created"
     \/ listener[s] = "serving" /\ \A h \in Handler : serves[h] # s
  /\ listener' = [listener EXCEPT ![s] = "stopped"]
  /\ listenErr' = TRUE
  /\ UNCHANGED <<captured, serves, arrived, cancelled, stop, start, main, others, errs>>
  /\ UNCHANGED eventVars

(* Start leaves its select on cancellation or on a listener's error, calls *)
(* Stop, and returns once the Once is through.                             *)
StartSelect ==
  /\ start = "select"
  /\ cancelled \/ listenErr
  /\ start' = "stop"
  /\ UNCHANGED <<serverVars, cancelled, stop, listenErr, main, others, errs>>
  /\ UNCHANGED eventVars

StartReturns ==
  /\ start = "stop" /\ stop = "done"
  /\ start' = "done"
  /\ IF listenErr THEN ReportComponentErr ELSE UNCHANGED errs
  /\ UNCHANGED <<serverVars, cancelled, stop, listenErr, main, others>>
  /\ UNCHANGED eventVars
-----------------------------------------------------------------------------
(* handlers *)

(* A serving listener starts a handler. *)
Arrive(h, s) ==
  /\ serves[h] = "idle"
  /\ listener[s] = "serving"
  /\ arrived < MaxQueries
  /\ arrived' = arrived + 1
  /\ serves' = [serves EXCEPT ![h] = s]
  /\ UNCHANGED <<listener, captured>>
  /\ UNCHANGED <<procVars, eventVars>>

PublishUncounted(h) ==       \* mutant: a full channel loses the event silently
  /\ serves[h] # "idle"
  /\ IF inClosed THEN panicked' = TRUE /\ UNCHANGED <<in, accepted, dropped>>
     ELSE IF in < InCap
     THEN in' = in + 1 /\ accepted' = accepted + 1 /\ UNCHANGED <<dropped, panicked>>
     ELSE UNCHANGED <<in, accepted, dropped, panicked>>
  /\ serves' = [serves EXCEPT ![h] = "idle"]
  /\ UNCHANGED <<listener, captured, arrived, procVars>>
  /\ UNCHANGED <<inClosed, fan, offer, out, outClosed, consumer, taken, received, lost>>

(* publishEvent, the last thing handleQuery does: send or count a drop.    *)
(* On a closed channel the send panics.  Then inFlight.Done, and the       *)
(* server forgets the handler.                                             *)
Publish(h) ==
  /\ serves[h] # "idle"
  /\ IF inClosed THEN panicked' = TRUE /\ UNCHANGED <<in, accepted, dropped>>
     ELSE IF in < InCap
     THEN in' = in + 1 /\ accepted' = accepted + 1 /\ UNCHANGED <<dropped, panicked>>
     ELSE dropped' = dropped + 1 /\ UNCHANGED <<in, accepted, panicked>>
  /\ serves' = [serves EXCEPT ![h] = "idle"]
  /\ UNCHANGED <<listener, captured, arrived, procVars>>
  /\ UNCHANGED <<inClosed, fan, offer, out, outClosed, consumer, taken, received, lost>>
-----------------------------------------------------------------------------
(* Proxy.Stop: the body runs once, whoever calls first.  Without EarlyStop *)
(* it is called only when each listener is serving or has failed.          *)
StopCaptures ==
  /\ stop = "none"
  /\ main = "stop" \/ start = "stop"
  /\ EarlyStop \/ \A s \in Server : listener[s] \in {"serving", "stopped"}
  /\ captured' = {s \in Server : listener[s] # "new"}
  /\ stop' = "udp"
  /\ UNCHANGED <<listener, serves, arrived, cancelled, start, listenErr, main, others, errs>>
  /\ UNCHANGED eventVars

(* Shutdown of a server that serves; otherwise its error is ignored. *)
Shutdown(s) ==
  IF s \in captured /\ listener[s] = "serving"
  THEN listener' = [listener EXCEPT ![s] = "stopped"]
  ELSE UNCHANGED listener

\* Shutdown returns when the handlers the server started have left
Quiet(s) == s \in captured /\ listener[s] = "stopped" =>
              \A h \in Handler : serves[h] # s

StopShuts ==
  /\ \/ stop = "udp" /\ Shutdown("udp") /\ stop' = "udpWait"
     \/ stop = "udpWait" /\ Quiet("udp") /\ stop' = "tcp" /\ UNCHANGED listener
     \/ stop = "tcp" /\ Shutdown("tcp") /\ stop' = "tcpWait"
     \/ stop = "tcpWait" /\ Quiet("tcp") /\ stop' = "wait" /\ UNCHANGED listener
  /\ UNCHANGED <<captured, serves, arrived, cancelled, start, listenErr, main, others, errs>>
  /\ UNCHANGED eventVars

StopCloseEarly ==            \* mutant: the channel is closed before the handlers are out
  /\ stop \in {"tcpWait", "wait"}
  /\ inClosed' = TRUE
  /\ stop' = "done"
  /\ UNCHANGED <<serverVars, cancelled, start, listenErr, main, others, errs>>
  /\ UNCHANGED <<in, fan, offer, out, outClosed, consumer, accepted, dropped, taken,
                 received, lost, panicked>>

(* inFlight.Wait, then close(p.events). *)
StopCloses ==
  /\ stop = "wait"
  /\ \A h \in Handler : serves[h] = "idle"
  /\ inClosed' = TRUE
  /\ stop' = "done"
  /\ UNCHANGED <<serverVars, cancelled, start, listenErr, main, others, errs>>
  /\ UNCHANGED <<in, fan, offer, out, outClosed, consumer, accepted, dropped, taken,
                 received, lost, panicked>>
-----------------------------------------------------------------------------
(* fanOut *)

\* fanOut goes through its channels in the order main gives them
IsFirst(o, S) == o = "metrics" \/ "metrics" \notin S

FanReceive ==
  /\ fan = "recv" /\ in > 0
  /\ in' = in - 1 /\ taken' = taken + 1
  /\ fan' = "offer" /\ offer' = Out
  /\ UNCHANGED <<serverVars, procVars>>
  /\ UNCHANGED <<inClosed, out, outClosed, consumer, accepted, dropped, received, lost, panicked>>

FanOfferBlocks(o) ==         \* mutant: the send waits for room
  /\ fan = "offer" /\ o \in offer /\ IsFirst(o, offer)
  /\ out[o] < OutCap
  /\ out' = [out EXCEPT ![o] = @ + 1]
  /\ offer' = offer \ {o}
  /\ fan' = IF offer = {o} THEN "recv" ELSE "offer"
  /\ UNCHANGED <<serverVars, procVars>>
  /\ UNCHANGED <<in, inClosed, outClosed, consumer, accepted, dropped, taken, received, lost,
                 panicked>>

(* A non-blocking send to one channel, counted when it does not fit. *)
FanOffer(o) ==
  /\ fan = "offer" /\ o \in offer /\ IsFirst(o, offer)
  /\ IF out[o] < OutCap
     THEN out' = [out EXCEPT ![o] = @ + 1] /\ UNCHANGED lost
     ELSE lost' = [lost EXCEPT ![o] = @ + 1] /\ UNCHANGED out
  /\ offer' = offer \ {o}
  /\ fan' = IF offer = {o} THEN "recv" ELSE "offer"
  /\ UNCHANGED <<serverVars, procVars>>
  /\ UNCHANGED <<in, inClosed, outClosed, consumer, accepted, dropped, taken, received, panicked>>

(* The range loop ends when the channel is closed and empty. *)
FanCloses(o) ==
  /\ fan = "recv" /\ in = 0 /\ inClosed
  /\ o \notin outClosed /\ IsFirst(o, Out \ outClosed)
  /\ outClosed' = outClosed \cup {o}
  /\ fan' = IF outClosed' = Out THEN "done" ELSE "recv"
  /\ UNCHANGED <<serverVars, procVars>>
  /\ UNCHANGED <<in, inClosed, offer, out, consumer, accepted, dropped, taken, received, lost,
                 panicked>>
-----------------------------------------------------------------------------
(* Collector.Run and QueryLogger.Run.  Cancellation only moves them from   *)
(* the select to the range loop: both go on until fanOut has closed the    *)
(* channel and it is empty.                                                *)
Consume(o) ==
  /\ consumer[o] = "run" /\ out[o] > 0
  /\ out' = [out EXCEPT ![o] = @ - 1]
  /\ received' = [received EXCEPT ![o] = @ + 1]
  /\ UNCHANGED <<serverVars, procVars>>
  /\ UNCHANGED <<in, inClosed, fan, offer, outClosed, consumer, accepted, dropped, taken, lost,
                 panicked>>

ConsumerQuits(o) ==          \* mutant: cancellation ends the consumer at once
  /\ consumer[o] = "run" /\ (cancelled \/ (out[o] = 0 /\ o \in outClosed))
  /\ consumer' = [consumer EXCEPT ![o] = "done"]
  /\ UNCHANGED <<serverVars, procVars>>
  /\ UNCHANGED <<in, inClosed, fan, offer, out, outClosed, accepted, dropped, taken, received,
                 lost, panicked>>

ConsumerReturns(o) ==
  /\ consumer[o] = "run" /\ out[o] = 0 /\ o \in outClosed
  /\ consumer' = [consumer EXCEPT ![o] = "done"]
  /\ UNCHANGED <<serverVars, procVars>>
  /\ UNCHANGED <<in, inClosed, fan, offer, out, outClosed, accepted, dropped, taken, received,
                 lost, panicked>>

(* A consumer panics on an event; startComponent recovers and reports it. *)
ConsumerDies(o) ==
  /\ consumer[o] = "run" /\ out[o] > 0
  /\ out' = [out EXCEPT ![o] = @ - 1]
  /\ received' = [received EXCEPT ![o] = @ + 1]
  /\ consumer' = [consumer EXCEPT ![o] = "dead"]
  /\ ReportComponentErr
  /\ UNCHANGED <<serverVars, cancelled, stop, start, listenErr, main, others>>
  /\ UNCHANGED <<in, inClosed, fan, offer, outClosed, accepted, dropped, taken, lost, panicked>>
-----------------------------------------------------------------------------
(* main *)

(* A signal cancels the context. *)
Signal ==
  /\ ~cancelled
  /\ cancelled' = TRUE
  /\ UNCHANGED <<serverVars, stop, start, listenErr, main, others, errs>>
  /\ UNCHANGED eventVars

(* main's select: cancellation, or a component's error, which cancels. *)
MainSelect ==
  /\ main = "select"
  /\ \/ cancelled /\ UNCHANGED <<cancelled, errs>>
     \/ errs > 0 /\ errs' = errs - 1 /\ cancelled' = TRUE
  /\ main' = "stop"
  /\ UNCHANGED <<serverVars, stop, start, listenErr, others>>
  /\ UNCHANGED eventVars

(* Stop returns; the HTTP servers and the engine are stopped, each within  *)
(* its timeout, before main waits for the components.                      *)
MainStopped ==
  /\ main = "stop" /\ stop = "done"
  /\ main' = "join"
  /\ UNCHANGED <<serverVars, cancelled, stop, start, listenErr, others, errs>>
  /\ UNCHANGED eventVars

(* The other components fail at any time or return in the shutdown. *)
OthersEnd ==
  /\ others = "run"
  /\ others' = "done"
  /\ \/ ReportComponentErr
     \/ main = "join" /\ UNCHANGED errs
  /\ UNCHANGED <<serverVars, cancelled, stop, start, listenErr, main>>
  /\ UNCHANGED eventVars

(* wg.Wait and the end of the process. *)
MainExits ==
  /\ main = "join"
  /\ start = "done" /\ fan = "done" /\ others = "done"
  /\ \A o \in Out : consumer[o] \in {"done", "dead"}
  /\ main' = "exit"
  /\ UNCHANGED <<serverVars, cancelled, stop, start, listenErr, others, errs>>
  /\ UNCHANGED eventVars

ProxySteps == StartServers \/ StartSelect \/ StartReturns 
              \/ \E s \in Server : Listen(s) \/ ListenFails(s)
StopSteps == StopCaptures \/ StopShuts \/ StopCloses
FanSteps == FanReceive \/ \E o \in Out : FanOffer(o) \/ FanCloses(o)
ConsumerSteps(o) == Consume(o) \/ ConsumerReturns(o)
MainSteps == MainSelect \/ MainStopped \/ MainExits
OthersReturn == main = "join" /\ OthersEnd

AliveNext ==
  \/ ProxySteps
  \/ StopSteps
  \/ \E h \in Handler : Publish(h) \/ \E s \in Server : Arrive(h, s)
  \/ FanSteps
  \/ \E o \in Out : ConsumerSteps(o) \/ ConsumerDies(o)
  \/ MainSteps
  \/ OthersEnd
  \/ Signal

(* Nothing happens after the process has ended or crashed. *)
Next == main # "exit" /\ ~panicked /\ AliveNext

Spec == Init /\ [][Next]_vars

(* Goroutines that can run do run; the exchange of a handler has a         *)
(* timeout.  Signals, queries, panics and failures are never promised.     *)
Fairness ==
  /\ WF_vars(StartServers) /\ WF_vars(StartSelect) /\ WF_vars(StartReturns)
  /\ \A s \in Server : WF_vars(Listen(s))
  /\ WF_vars(StopSteps)
  /\ \A h \in Handler : WF_vars(Publish(h))
  /\ WF_vars(FanSteps)
  /\ \A o \in Out : WF_vars(ConsumerSteps(o))
  /\ WF_vars(MainSteps)
  /\ WF_vars(OthersReturn)

FairSpec == Spec /\ Fairness
-----------------------------------------------------------------------------
\* Types; channels within their capacities.
TypeOK ==
  /\ cancelled \in BOOLEAN
  /\ listener \in [Server -> {"new", "created", "serving", "stopped"}]
  /\ captured \subseteq Server
  /\ serves \in [Handler -> Server \cup {"idle"}]
  /\ stop \in {"none", "udp", "udpWait", "tcp", "tcpWait", "wait", "done"}
  /\ start \in {"begin", "select", "stop", "done"}
  /\ listenErr \in BOOLEAN
  /\ main \in {"select", "stop", "join", "exit"}
  /\ others \in {"run", "done"}
  /\ errs \in 0..ErrCap
  /\ in \in 0..InCap /\ inClosed \in BOOLEAN
  /\ fan \in {"recv", "offer", "done"} /\ offer \subseteq Out
  /\ out \in [Out -> 0..OutCap] /\ outClosed \subseteq Out
  /\ consumer \in [Out -> {"run", "done", "dead"}]
  /\ arrived \in Nat /\ accepted \in Nat /\ dropped \in Nat /\ taken \in Nat
  /\ received \in [Out -> Nat] /\ lost \in [Out -> Nat]
  /\ panicked \in BOOLEAN

\* No event is lost silently or duplicated between query and consumer: that of
\* every query is still to be published, counted as dropped or accepted; an
\* accepted one is in the channel, or was taken by fanOut and is then in hand,
\* in the consumer's channel, received, or counted as dropped.
Conservation ==
  /\ ~panicked =>
       arrived = accepted + dropped + Cardinality({h \in Handler : serves[h] # "idle"})
  /\ accepted = in + taken
  /\ \A o \in Out : taken = (IF o \in offer THEN 1 ELSE 0)
                            + out[o] + received[o] + lost[o]

\* The event channel is closed only when no handler can send any more: Stop
\* never makes a handler panic.
NoSendOnClosed == ~panicked

\* When the process ends nothing is stranded: each consumer that did not
\* panic has received every accepted event that was not counted as dropped.
NothingStranded ==
  main = "exit" => \A o \in Out : consumer[o] # "dead" =>
                     accepted = received[o] + lost[o]

\* Shutdown completes: after a signal or the failure of any component main
\* gets through Stop and the join, also when a consumer died and its channel
\* is full, when Start and main call Stop together, when queries keep coming.
ShutdownCompletes == cancelled \/ errs > 0 ~> main = "exit"
=============================================================================
