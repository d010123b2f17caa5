---------------------------- MODULE ConnPoolProofs ----------------------------
(***************************************************************************)
(* Safety of the connection pool for any number of handlers and            *)
(* connections and any limit.  OwnAnswer alone is not inductive: it needs  *)
(* that answers still to come belong to the holder (PendingOwned), which   *)
(* needs that nobody shares a connection, which needs that a connection    *)
(* being dialled is nobody's (NoLeak).                                     *)
(*                                                                         *)
(* The second part shows the pool to take only steps of OwnedPool.         *)
(***************************************************************************)
EXTENDS ConnPool, TLAPS

IInv ==
  /\ TypeOK
  /\ HoldsInExchange
  /\ NoSharing
  /\ NoLeak
  /\ RightNetwork
  /\ PendingOwned
  /\ OwnAnswer
  /\ ClosedEmpty

USE DEF Net, PC

\* The empty pool satisfies the invariant.
LEMMA InitIInv == Init => IInv
<1> SUFFICES ASSUME Init PROVE IInv
  OBVIOUS
<1> USE PoolAssumption DEF Init
<1>1. TypeOK /\ HoldsInExchange
  <2>1. <<>> \in Seq(Conn) /\ Len(<<>>) = 0
    OBVIOUS
  <2>2. conns \in [Net -> Seq(Conn)] /\ \A n \in Net : Len(conns[n]) <= MaxPerNetwork
    BY <2>1
  <2> QED
    BY <2>2 DEF TypeOK, HoldsInExchange
<1>2. \A n \in Net : Len(conns[n]) = 0
  OBVIOUS
<1>3. NoSharing /\ NoLeak /\ RightNetwork
  BY <1>2 DEF NoSharing, NoLeak, RightNetwork
<1>4. PendingOwned /\ OwnAnswer /\ ClosedEmpty
  BY DEF PendingOwned, OwnAnswer, ClosedEmpty
<1> QED
  BY <1>1, <1>3, <1>4 DEF IInv

\* Every step keeps the invariant.
LEMMA NextIInv == IInv /\ [Next]_vars => IInv'
<1> SUFFICES ASSUME IInv, [Next]_vars PROVE IInv'
  OBVIOUS
<1> USE PoolAssumption
<1>0. TypeOK
  BY DEF IInv
<1>1. ASSUME NEW h \in Handler, BorrowClosed(h) PROVE IInv'
  BY <1>0, <1>1 DEF BorrowClosed, IInv, TypeOK, HoldsInExchange, NoSharing, NoLeak,
     RightNetwork, PendingOwned, OwnAnswer, ClosedEmpty
<1>2. ASSUME NEW h \in Handler, NEW n \in Net, BorrowPooled(h, n) PROVE IInv'
  <2> DEFINE c == conns[n][Len(conns[n])]
             rest == SubSeq(conns[n], 1, Len(conns[n]) - 1)
  <2> USE <1>0, <1>2 DEF BorrowPooled
  <2>1. /\ Len(conns[n]) \in 1..MaxPerNetwork
        /\ c \in Conn /\ held[h] = NoConn
        /\ \A g \in Handler : held[g] # c
    BY DEF TypeOK, IInv, HoldsInExchange, NoSharing
  <2>2. /\ rest \in Seq(Conn) /\ Len(rest) = Len(conns[n]) - 1
        /\ \A i \in 1..Len(rest) : rest[i] = conns[n][i]
    BY <2>1 DEF TypeOK
  <2>3. conns'[n] = rest /\ \A m \in Net : m # n => conns'[m] = conns[m]
    BY DEF TypeOK
  <2>4. TypeOK'
    BY <2>1, <2>2, <2>3 DEF TypeOK
  <2>5. HoldsInExchange'
    BY <2>1 DEF IInv, HoldsInExchange, TypeOK
  <2>6. \A m \in Net : /\ Len(conns'[m]) \in Nat /\ Len(conns'[m]) <= Len(conns[m])
                       /\ \A i \in 1..Len(conns'[m]) : /\ i \in 1..Len(conns[m])
                                                       /\ conns'[m][i] = conns[m][i]
                                                       /\ conns'[m][i] # c
    BY <2>1, <2>2, <2>3 DEF IInv, NoSharing, TypeOK
  <2>7. NoSharing'
    <3>1. \A k, m \in Net : \A i \in 1..Len(conns'[k]), j \in 1..Len(conns'[m]) :
             conns'[k][i] = conns'[m][j] => k = m /\ i = j
      BY <2>6 DEF IInv, NoSharing
    <3>2. \A m \in Net : \A i \in 1..Len(conns'[m]) : \A g \in Handler : held'[g] # conns'[m][i]
      BY <2>6 DEF IInv, NoSharing, TypeOK
    <3>3. \A f, g \in Handler : f # g /\ held'[f] # NoConn => held'[f] # held'[g]
      BY <2>1 DEF IInv, NoSharing, TypeOK
    <3> QED
      BY <3>1, <3>2, <3>3 DEF NoSharing
  <2>10. NoLeak'
    <3> SUFFICES ASSUME NEW d \in Conn
                 PROVE  (state[d] # "free") <=>
                          (\/ \E m \in Net : \E i \in 1..Len(conns'[m]) : conns'[m][i] = d
                           \/ \E g \in Handler : held'[g] = d)
      BY DEF NoLeak
    <3>1. CASE d = c
      BY <2>1, <3>1 DEF IInv, NoLeak, TypeOK
    <3>2. CASE d # c
      <4>1. (\E g \in Handler : held'[g] = d) <=> (\E g \in Handler : held[g] = d)
        BY <2>1, <3>2 DEF TypeOK
      <4>2. ASSUME NEW m \in Net, NEW i \in 1..Len(conns[m]), conns[m][i] = d
            PROVE  i \in 1..Len(conns'[m]) /\ conns'[m][i] = d
        BY <2>1, <2>2, <2>3, <3>2, <4>2 DEF TypeOK
      <4> QED
        BY <2>6, <4>1, <4>2 DEF IInv, NoLeak
    <3> QED
      BY <3>1, <3>2
  <2>8. RightNetwork'
    BY <2>1, <2>2, <2>3 DEF IInv, RightNetwork, TypeOK
  <2>9. PendingOwned' /\ OwnAnswer' /\ ClosedEmpty'
    BY <2>1 DEF IInv, PendingOwned, OwnAnswer, ClosedEmpty, TypeOK
  <2> QED
    BY <2>4, <2>5, <2>7, <2>8, <2>9, <2>10 DEF IInv
<1>3. ASSUME NEW h \in Handler, NEW n \in Net, BorrowEmpty(h, n) PROVE IInv'
  <2> USE <1>0, <1>3 DEF BorrowEmpty
  <2>1. TypeOK' /\ HoldsInExchange'
    BY DEF IInv, TypeOK, HoldsInExchange
  <2>2. NoSharing' /\ NoLeak'
    BY DEF IInv, NoSharing, NoLeak
  <2>3. RightNetwork'
    BY DEF IInv, RightNetwork, HoldsInExchange, TypeOK
  <2>4. PendingOwned' /\ OwnAnswer' /\ ClosedEmpty'
    BY DEF IInv, PendingOwned, OwnAnswer, ClosedEmpty, TypeOK
  <2> QED
    BY <2>1, <2>2, <2>3, <2>4 DEF IInv
<1>4. ASSUME NEW h \in Handler, NEW c \in Conn, Dial(h, c) PROVE IInv'
  <2> USE <1>0, <1>4 DEF Dial
  <2>1. /\ held[h] = NoConn
        /\ \A g \in Handler : held[g] # c
        /\ \A n \in Net : \A i \in 1..Len(conns[n]) : conns[n][i] # c
    BY DEF IInv, HoldsInExchange, NoLeak, TypeOK
  <2>2. TypeOK' /\ HoldsInExchange'
    BY <2>1 DEF IInv, TypeOK, HoldsInExchange
  <2>3. NoSharing'
    BY <2>1 DEF IInv, NoSharing, TypeOK
  <2>4. NoLeak'
    <3> SUFFICES ASSUME NEW d \in Conn
                 PROVE  (state'[d] # "free") <=>
                          (\/ \E m \in Net : \E i \in 1..Len(conns[m]) : conns[m][i] = d
                           \/ \E g \in Handler : held'[g] = d)
      BY DEF NoLeak
    <3>1. CASE d = c
      BY <3>1 DEF TypeOK
    <3>2. CASE d # c
      <4>1. state'[d] = state[d]
        BY <3>2 DEF TypeOK
      <4>2. \A g \in Handler : held'[g] = d <=> held[g] = d
        BY <2>1, <3>2 DEF TypeOK
      <4> QED
        BY <4>1, <4>2 DEF IInv, NoLeak
    <3> QED
      BY <3>1, <3>2
  <2>5. RightNetwork'
    BY <2>1 DEF IInv, RightNetwork, TypeOK
  <2>6. PendingOwned' /\ OwnAnswer' /\ ClosedEmpty'
    BY DEF IInv, PendingOwned, OwnAnswer, ClosedEmpty, TypeOK
  <2> QED
    BY <2>2, <2>3, <2>4, <2>5, <2>6 DEF IInv
<1>5. ASSUME NEW h \in Handler, DialFails(h) PROVE IInv'
  <2> USE <1>0, <1>5 DEF DialFails
  <2>1. TypeOK' /\ HoldsInExchange'
    BY DEF IInv, TypeOK, HoldsInExchange
  <2>2. NoSharing' /\ NoLeak' /\ RightNetwork'
    BY DEF IInv, NoSharing, NoLeak, RightNetwork
  <2>3. PendingOwned' /\ OwnAnswer' /\ ClosedEmpty'
    BY DEF IInv, PendingOwned, OwnAnswer, ClosedEmpty, TypeOK
  <2> QED
    BY <2>1, <2>2, <2>3 DEF IInv
<1>6. ASSUME NEW h \in Handler, Send(h) PROVE IInv'
  <2> USE <1>0, <1>6 DEF Send
  <2>1. TypeOK' /\ HoldsInExchange'
    BY DEF IInv, TypeOK, HoldsInExchange
  <2>2. NoSharing' /\ NoLeak' /\ RightNetwork'
    BY DEF IInv, NoSharing, NoLeak, RightNetwork
  <2>3. PendingOwned' /\ OwnAnswer' /\ ClosedEmpty'
    BY DEF IInv, PendingOwned, OwnAnswer, ClosedEmpty, TypeOK
  <2> QED
    BY <2>1, <2>2, <2>3 DEF IInv
<1>7. ASSUME NEW h \in Handler, Receive(h) PROVE IInv'
  <2> USE <1>0, <1>7 DEF Receive
  <2>1. held[h] \in Conn /\ pending[held[h]] \subseteq {h}
    BY DEF IInv, TypeOK, HoldsInExchange, PendingOwned, NoSharing
  <2>2. TypeOK' /\ HoldsInExchange'
    BY <2>1 DEF IInv, TypeOK, HoldsInExchange
  <2>3. NoSharing' /\ NoLeak' /\ RightNetwork'
    BY DEF IInv, NoSharing, NoLeak, RightNetwork
  <2>4. PendingOwned'
    BY <2>1 DEF IInv, PendingOwned, TypeOK
  <2>5. OwnAnswer' /\ ClosedEmpty'
    BY <2>1 DEF IInv, OwnAnswer, ClosedEmpty, TypeOK
  <2> QED
    BY <2>2, <2>3, <2>4, <2>5 DEF IInv
<1>8. ASSUME NEW h \in Handler, ExchangeFails(h) PROVE IInv'
  <2> USE <1>0, <1>8 DEF ExchangeFails, CloseConns
  <2>1. /\ held[h] \in Conn
        /\ \A g \in Handler : g # h => held[g] # held[h]
        /\ \A n \in Net : \A i \in 1..Len(conns[n]) : conns[n][i] # held[h]
    BY DEF IInv, TypeOK, HoldsInExchange, NoSharing
  <2>2. TypeOK' /\ HoldsInExchange'
    BY <2>1 DEF IInv, TypeOK, HoldsInExchange
  <2>3. NoSharing'
    BY DEF IInv, NoSharing, TypeOK
  <2>4. NoLeak'
    <3> SUFFICES ASSUME NEW d \in Conn
                 PROVE  (state'[d] # "free") <=>
                          (\/ \E m \in Net : \E i \in 1..Len(conns[m]) : conns[m][i] = d
                           \/ \E g \in Handler : held'[g] = d)
      BY DEF NoLeak
    <3>1. CASE d = held[h]
      BY <2>1, <3>1 DEF TypeOK
    <3>2. CASE d # held[h]
      <4>1. state'[d] = state[d]
        BY <2>1, <3>2 DEF TypeOK
      <4>2. \A g \in Handler : held'[g] = d <=> held[g] = d
        BY <2>1, <3>2 DEF TypeOK
      <4> QED
        BY <4>1, <4>2 DEF IInv, NoLeak
    <3> QED
      BY <3>1, <3>2
  <2>5. RightNetwork'
    BY DEF IInv, RightNetwork, TypeOK
  <2>6. PendingOwned' /\ OwnAnswer' /\ ClosedEmpty'
    BY <2>1 DEF IInv, PendingOwned, OwnAnswer, ClosedEmpty, TypeOK
  <2> QED
    BY <2>2, <2>3, <2>4, <2>5, <2>6 DEF IInv
<1>9. ASSUME NEW h \in Handler, Release(h) PROVE IInv'
  <2> DEFINE n == network[h]
             c == held[h]
  <2> USE <1>0, <1>9 DEF Release, CloseConns
  <2>1. /\ c \in Conn /\ n \in Net /\ netOf[c] = n
        /\ \A g \in Handler : g # h => held[g] # c
        /\ \A m \in Net : \A i \in 1..Len(conns[m]) : conns[m][i] # c
        /\ \A q \in pending[c] : q = h
    BY DEF IInv, TypeOK, HoldsInExchange, NoSharing, RightNetwork, PendingOwned
  <2>2. pending[c] = {}
    BY <2>1 DEF IInv, TypeOK, PendingOwned
  <2>3. CASE closed \/ Len(conns[n]) >= MaxPerNetwork
    <3> USE <2>3
    <3>1. TypeOK' /\ HoldsInExchange'
      BY <2>1 DEF IInv, TypeOK, HoldsInExchange
    <3>2. NoSharing'
      BY DEF IInv, NoSharing, TypeOK
    <3>3. NoLeak'
      <4> SUFFICES ASSUME NEW d \in Conn
                   PROVE  (state'[d] # "free") <=>
                            (\/ \E m \in Net : \E i \in 1..Len(conns[m]) : conns[m][i] = d
                             \/ \E g \in Handler : held'[g] = d)
        BY DEF NoLeak
      <4>1. CASE d = held[h]
        BY <2>1, <4>1 DEF TypeOK
      <4>2. CASE d # held[h]
        <5>1. state'[d] = state[d]
          BY <2>1, <4>2 DEF TypeOK
        <5>2. \A g \in Handler : held'[g] = d <=> held[g] = d
          BY <2>1, <4>2 DEF TypeOK
        <5> QED
          BY <5>1, <5>2 DEF IInv, NoLeak
      <4> QED
        BY <4>1, <4>2
    <3>4. RightNetwork'
      BY DEF IInv, RightNetwork, TypeOK
    <3>5. PendingOwned' /\ OwnAnswer' /\ ClosedEmpty'
      BY <2>1 DEF IInv, PendingOwned, OwnAnswer, ClosedEmpty, TypeOK
    <3> QED
      BY <3>1, <3>2, <3>3, <3>4, <3>5 DEF IInv
  <2>4. CASE ~closed /\ ~(Len(conns[n]) >= MaxPerNetwork)
    <3> USE <2>4
    <3>1. /\ conns[n] \in Seq(Conn)
          /\ Len(conns[n]) \in Nat /\ Len(conns[n]) < MaxPerNetwork
          /\ conns' = [conns EXCEPT ![n] = Append(conns[n], c)]
          /\ UNCHANGED <<state, pending>>
      BY <2>1 DEF TypeOK
    <3>2. /\ Append(conns[n], c) \in Seq(Conn)
          /\ Len(Append(conns[n], c)) = Len(conns[n]) + 1
          /\ Append(conns[n], c)[Len(conns[n]) + 1] = c
          /\ \A i \in 1..Len(conns[n]) : Append(conns[n], c)[i] = conns[n][i]
      BY <2>1, <3>1
    <3> HIDE DEF n, c
    <3>3. /\ Len(conns'[n]) = Len(conns[n]) + 1
          /\ conns'[n][Len(conns[n]) + 1] = c
          /\ \A i \in 1..Len(conns[n]) : conns'[n][i] = conns[n][i]
          /\ \A m \in Net : m # n => conns'[m] = conns[m]
      BY <2>1, <3>1, <3>2 DEF TypeOK
    <3>4. \A m \in Net : \A i \in 1..Len(conns'[m]) :
             \/ i \in 1..Len(conns[m]) /\ conns'[m][i] = conns[m][i]
             \/ m = n /\ i = Len(conns[n]) + 1 /\ conns'[m][i] = c
      BY <2>1, <3>1, <3>3 DEF TypeOK
    <3>5. \A m \in Net : \A i \in 1..Len(conns[m]) :
             i \in 1..Len(conns'[m]) /\ conns'[m][i] = conns[m][i]
      BY <2>1, <3>1, <3>3 DEF TypeOK
    <3>6. TypeOK' /\ HoldsInExchange'
      BY <2>1, <3>1, <3>2, <3>3 DEF IInv, TypeOK, HoldsInExchange
    <3>8. NoSharing'
      <4>1. \A k, m \in Net : \A i \in 1..Len(conns'[k]), j \in 1..Len(conns'[m]) :
               conns'[k][i] = conns'[m][j] => k = m /\ i = j
        <5> SUFFICES ASSUME NEW k \in Net, NEW m \in Net,
                            NEW i \in 1..Len(conns'[k]), NEW j \in 1..Len(conns'[m]),
                            conns'[k][i] = conns'[m][j]
                     PROVE  k = m /\ i = j
          OBVIOUS
        <5>1. CASE i \in 1..Len(conns[k]) /\ conns'[k][i] = conns[k][i]
          <6>1. conns[k][i] # c
            BY <2>1, <5>1
          <6>2. j \in 1..Len(conns[m]) /\ conns'[m][j] = conns[m][j]
            BY <3>4, <5>1, <6>1
          <6>3. conns[k][i] = conns[m][j]
            BY <5>1, <6>2
          <6>4. NoSharing
            BY DEF IInv
          <6> HIDE <1>0, <1>9, <2>4
          <6> QED
            BY <5>1, <6>2, <6>3, <6>4 DEF NoSharing
        <5>2. CASE k = n /\ i = Len(conns[n]) + 1 /\ conns'[k][i] = c
          <6>1. ~(j \in 1..Len(conns[m]) /\ conns'[m][j] = conns[m][j])
            BY <2>1, <5>2
          <6> QED
            BY <3>4, <5>2, <6>1
        <5> QED
          BY <3>4, <5>1, <5>2
      <4>2. \A m \in Net : \A i \in 1..Len(conns'[m]) : \A g \in Handler : held'[g] # conns'[m][i]
        BY <2>1, <3>4 DEF IInv, NoSharing, TypeOK, c
      <4>3. \A f, g \in Handler : f # g /\ held'[f] # NoConn => held'[f] # held'[g]
        BY DEF IInv, NoSharing, TypeOK
      <4> QED
        BY <4>1, <4>2, <4>3 DEF NoSharing
    <3>9. NoLeak'
      <4> SUFFICES ASSUME NEW d \in Conn
                   PROVE  (state[d] # "free") <=>
                            (\/ \E m \in Net : \E i \in 1..Len(conns'[m]) : conns'[m][i] = d
                             \/ \E g \in Handler : held'[g] = d)
        BY <3>1 DEF NoLeak
      <4>1. CASE d = c
        <5>1. Len(conns[n]) + 1 \in 1..Len(conns'[n]) /\ conns'[n][Len(conns[n]) + 1] = d
          BY <3>1, <3>3, <4>1
        <5>2. state[d] # "free"
          BY <4>1 DEF IInv, NoLeak, c
        <5> QED
          BY <2>1, <5>1, <5>2
      <4>2. CASE d # c
        <5>1. \A g \in Handler : held'[g] = d <=> held[g] = d
          BY <4>2 DEF TypeOK, c
        <5>2. (\E m \in Net : \E i \in 1..Len(conns'[m]) : conns'[m][i] = d)
               <=> (\E m \in Net : \E i \in 1..Len(conns[m]) : conns[m][i] = d)
          BY <3>4, <3>5, <4>2
        <5> QED
          BY <5>1, <5>2 DEF IInv, NoLeak
      <4> QED
        BY <4>1, <4>2
    <3>10. RightNetwork'
      BY <2>1, <3>4 DEF IInv, RightNetwork, TypeOK
    <3>7. PendingOwned' /\ OwnAnswer' /\ ClosedEmpty'
      BY <2>1, <2>2, <3>1 DEF IInv, PendingOwned, OwnAnswer, ClosedEmpty, TypeOK
    <3> QED
      BY <3>6, <3>7, <3>8, <3>9, <3>10 DEF IInv
  <2> QED
    BY <2>3, <2>4
<1>10. CASE Close
  <2> USE <1>0, <1>10 DEF Close, CloseConns, Idle
  <2>1. TypeOK' /\ HoldsInExchange'
    BY DEF IInv, TypeOK, HoldsInExchange
  <2>2. NoSharing'
    BY DEF IInv, NoSharing, TypeOK
  <2>3. NoLeak'
    BY DEF IInv, NoLeak, NoSharing, TypeOK
  <2>4. RightNetwork'
    BY DEF IInv, RightNetwork, TypeOK
  <2>5. PendingOwned' /\ OwnAnswer' /\ ClosedEmpty'
    BY DEF IInv, PendingOwned, OwnAnswer, ClosedEmpty, TypeOK
  <2> QED
    BY <2>1, <2>2, <2>3, <2>4, <2>5 DEF IInv
<1>11. CASE EngineRestart
  <2> USE <1>0, <1>11 DEF EngineRestart
  <2>1. TypeOK' /\ HoldsInExchange'
    BY DEF IInv, TypeOK, HoldsInExchange
  <2>2. NoSharing' /\ RightNetwork'
    BY DEF IInv, NoSharing, RightNetwork
  <2>3. NoLeak'
    BY DEF IInv, NoLeak, TypeOK
  <2>4. PendingOwned' /\ OwnAnswer' /\ ClosedEmpty'
    BY DEF IInv, PendingOwned, OwnAnswer, ClosedEmpty
  <2> QED
    BY <2>1, <2>2, <2>3, <2>4 DEF IInv
<1>12. CASE UNCHANGED vars
  BY <1>12 DEF vars, IInv, TypeOK, HoldsInExchange, NoSharing, NoLeak,
     RightNetwork, PendingOwned, OwnAnswer, ClosedEmpty
<1> QED
  BY <1>1, <1>2, <1>3, <1>4, <1>5, <1>6, <1>7, <1>8, <1>9, <1>10, <1>11, <1>12
     DEF Next, Borrow, Progress

\* The inductive invariant holds in every behaviour of the pool.
THEOREM Invariance == Spec => []IInv
BY InitIInv, NextIInv, PTL DEF Spec

\* Types, and the limit on the idle connections of a network.
THEOREM TypeCorrect == Spec => []TypeOK
BY Invariance, PTL DEF IInv

\* No connection is ever shared between handlers or between handler and pool.
THEOREM ConnectionsExclusive == Spec => []NoSharing
BY Invariance, PTL DEF IInv

\* No connection leaks, and none that is closed is ever handed out.
THEOREM ConnectionsAccounted == Spec => []NoLeak
BY Invariance, PTL DEF IInv

\* No client receives the answer to another client's query.
THEOREM AnswersMatch == Spec => []OwnAnswer
BY Invariance, PTL DEF IInv
-----------------------------------------------------------------------------
(* The pool as an owner of connections: each step that moves a connection  *)
(* is a step of OwnedPool, all others change nothing there.                *)

\* what the refinement mapping shows of the connections
liveBar == {c \in Conn : state[c] # "free"}
idleBar == Idle("udp") \cup Idle("tcp")

\* A connection is idle if it is somewhere in a slice, before and after a step.
LEMMA IdleMeaning ==
  /\ \A c : c \in idleBar <=> \E n \in Net : \E i \in 1..Len(conns[n]) : conns[n][i] = c
  /\ \A c : c \in idleBar' <=> \E n \in Net : \E i \in 1..Len(conns'[n]) : conns'[n][i] = c
BY DEF idleBar, Idle

\* The empty pool owns nothing.
LEMMA InitOwnership == Init => Ownership!Init
<1> SUFFICES ASSUME Init PROVE Ownership!Init
  OBVIOUS
<1>1. Len(conns["udp"]) = 0 /\ Len(conns["tcp"]) = 0
  BY DEF Init
<1>2. Idle("udp") \cup Idle("tcp") = {}
  BY <1>1 DEF Idle
<1> QED
  BY <1>2 DEF Init, Ownership!Init

\* Every step is one of the owner's.
LEMMA NextOwnership ==
  IInv /\ IInv' /\ [Next]_vars => [Ownership!Next]_Ownership!vars
<1> SUFFICES ASSUME IInv, IInv', [Next]_vars
             PROVE  [Ownership!Next]_Ownership!vars
  OBVIOUS
<1> USE PoolAssumption
<1>0. TypeOK /\ TypeOK'
  BY DEF IInv
<1>1. ASSUME UNCHANGED <<closed, conns, liveBar, held>>
      PROVE  [Ownership!Next]_Ownership!vars
  BY <1>1 DEF Ownership!vars, liveBar, Idle
<1>2. ASSUME NEW h \in Handler,
             BorrowClosed(h) \/ (\E n \in Net : BorrowEmpty(h, n)) \/ DialFails(h)
               \/ Send(h) \/ Receive(h)
      PROVE  [Ownership!Next]_Ownership!vars
  BY <1>1, <1>2 DEF BorrowClosed, BorrowEmpty, DialFails, Send, Receive, liveBar
<1>3. ASSUME NEW h \in Handler, NEW n \in Net, BorrowPooled(h, n)
      PROVE  Ownership!Next
  <2> DEFINE c == conns[n][Len(conns[n])]
             rest == SubSeq(conns[n], 1, Len(conns[n]) - 1)
  <2>0. /\ Len(conns[n]) \in Nat \ {0} /\ conns[n] \in Seq(Conn)
        /\ c \in Conn /\ held[h] = NoConn
    BY <1>0, <1>3 DEF BorrowPooled, TypeOK, IInv, HoldsInExchange
  <2>1. c \in idleBar
    BY <2>0, IdleMeaning
  <2>2. idleBar' = idleBar \ {c}
    <3>1. /\ Len(rest) = Len(conns[n]) - 1
          /\ \A i \in 1..(Len(conns[n]) - 1) : rest[i] = conns[n][i]
      BY <2>0
    <3>2. conns'[n] = rest /\ \A m \in Net : m # n => conns'[m] = conns[m]
      BY <1>0, <1>3 DEF BorrowPooled, TypeOK
    <3>3. /\ Len(conns'[n]) = Len(conns[n]) - 1
          /\ \A i \in 1..(Len(conns[n]) - 1) : conns'[n][i] = conns[n][i]
      BY <3>1, <3>2
    <3>4. \A m \in Net : \A i \in 1..Len(conns[m]) :
             conns[m][i] = c <=> m = n /\ i = Len(conns[n])
      BY <2>0 DEF IInv, NoSharing
    <3> HIDE DEF c, rest
    <3>5. ASSUME NEW m \in Net, NEW i
          PROVE  i \in 1..Len(conns'[m]) <=> i \in 1..Len(conns[m]) /\ conns[m][i] # c
      <4>1. CASE m = n
        BY <2>0, <3>3, <3>4, <4>1
      <4>2. CASE m # n
        BY <3>2, <3>4, <4>2
      <4> QED
        BY <4>1, <4>2
    <3>6. ASSUME NEW m \in Net, NEW i \in 1..Len(conns'[m])
          PROVE  conns'[m][i] = conns[m][i]
      BY <3>2, <3>3
    <3>7. ASSUME NEW d PROVE d \in idleBar' <=> d \in idleBar /\ d # c
      <4>1. d \in idleBar' => d \in idleBar /\ d # c
        BY <3>5, <3>6, IdleMeaning
      <4>2. d \in idleBar /\ d # c => d \in idleBar'
        BY <3>5, <3>6, IdleMeaning
      <4> QED
        BY <4>1, <4>2
    <3> QED
      BY <3>7
  <2>3. Ownership!Take(h, c)
    BY <1>3, <2>0, <2>1, <2>2 DEF BorrowPooled, Ownership!Take, idleBar
  <2> QED
    BY <2>0, <2>3 DEF Ownership!Next
<1>4. ASSUME NEW h \in Handler, NEW c \in Conn, Dial(h, c)
      PROVE  Ownership!Next
  <2>1. held[h] = NoConn /\ c \notin liveBar
    BY <1>0, <1>4 DEF Dial, IInv, HoldsInExchange, TypeOK, liveBar
  <2>2. liveBar' = liveBar \cup {c}
    BY <1>0, <1>4 DEF Dial, TypeOK, liveBar
  <2>3. Ownership!Make(h, c)
    BY <1>4, <2>1, <2>2 DEF Dial, Ownership!Make, liveBar, Idle
  <2> QED
    BY <2>3 DEF Ownership!Next
<1>5. ASSUME NEW h \in Handler, held[h] \in Conn, CloseConns({held[h]}),
             held' = [held EXCEPT ![h] = NoConn], UNCHANGED <<closed, conns>>
      PROVE  Ownership!Next
  <2>1. liveBar' = liveBar \ {held[h]}
    BY <1>0, <1>5 DEF CloseConns, TypeOK, liveBar
  <2>2. Ownership!Destroy(h)
    BY <1>5, <2>1 DEF Ownership!Destroy, liveBar, Idle
  <2> QED
    BY <2>2 DEF Ownership!Next
<1>6. ASSUME NEW h \in Handler, ExchangeFails(h)
      PROVE  Ownership!Next
  BY <1>0, <1>5, <1>6 DEF ExchangeFails, IInv, HoldsInExchange, TypeOK
<1>7. ASSUME NEW h \in Handler, Release(h)
      PROVE  Ownership!Next
  <2> DEFINE n == network[h]
  <2>1. held[h] \in Conn /\ n \in Net /\ conns[n] \in Seq(Conn) /\ Len(conns[n]) \in Nat
    BY <1>0, <1>7 DEF Release, IInv, HoldsInExchange, TypeOK
  <2>2. CASE closed \/ Len(conns[n]) >= MaxPerNetwork
    BY <1>5, <1>7, <2>1, <2>2 DEF Release
  <2>3. CASE ~(closed \/ Len(conns[n]) >= MaxPerNetwork)
    <3>1. /\ conns' = [conns EXCEPT ![n] = Append(conns[n], held[h])]
          /\ held' = [held EXCEPT ![h] = NoConn] /\ ~closed
          /\ UNCHANGED <<closed, state>>
      BY <1>7, <2>3 DEF Release
    <3>2. /\ Len(Append(conns[n], held[h])) = Len(conns[n]) + 1
          /\ Append(conns[n], held[h])[Len(conns[n]) + 1] = held[h]
          /\ \A i \in 1..Len(conns[n]) : Append(conns[n], held[h])[i] = conns[n][i]
      BY <2>1
    <3>3. conns'[n] = Append(conns[n], held[h]) /\ \A m \in Net : m # n => conns'[m] = conns[m]
      BY <1>0, <2>1, <3>1 DEF TypeOK
    <3>4. idleBar' = idleBar \cup {held[h]}
      <4>0. /\ Len(conns'[n]) = Len(conns[n]) + 1
            /\ conns'[n][Len(conns[n]) + 1] = held[h]
            /\ \A i \in 1..Len(conns[n]) : conns'[n][i] = conns[n][i]
        BY <3>2, <3>3
      <4> HIDE DEF n
      <4>1. ASSUME NEW m \in Net, NEW i \in 1..Len(conns[m])
            PROVE  i \in 1..Len(conns'[m]) /\ conns'[m][i] = conns[m][i]
        BY <2>1, <3>3, <4>0
      <4>2. Len(conns[n]) + 1 \in 1..Len(conns'[n])
        BY <2>1, <4>0
      <4>3. ASSUME NEW m \in Net, NEW i \in 1..Len(conns'[m])
            PROVE  \/ i \in 1..Len(conns[m]) /\ conns'[m][i] = conns[m][i]
                   \/ conns'[m][i] = held[h]
        <5>1. CASE m # n
          BY <3>3, <5>1
        <5>2. CASE m = n
          <6>1. i \in 1..Len(conns[n]) \/ i = Len(conns[n]) + 1
            BY <2>1, <4>0, <5>2
          <6> QED
            BY <4>0, <5>2, <6>1
        <5> QED
          BY <5>1, <5>2
      <4>4. ASSUME NEW d PROVE d \in idleBar' <=> d \in idleBar \/ d = held[h]
        <5>1. d \in idleBar' => d \in idleBar \/ d = held[h]
          BY <4>3, IdleMeaning
        <5>2. d \in idleBar => d \in idleBar'
          BY <4>1, IdleMeaning
        <5>3. held[h] \in idleBar'
          BY <2>1, <4>0, <4>2, IdleMeaning
        <5> QED
          BY <5>1, <5>2, <5>3
      <4> QED
        BY <4>4
    <3>5. Ownership!GiveBack(h)
      BY <2>1, <3>1, <3>4 DEF Ownership!GiveBack, idleBar, liveBar
    <3> QED
      BY <3>5 DEF Ownership!Next
  <2> QED
    BY <2>2, <2>3
<1>8. CASE Close
  <2>1. idleBar' = {}
    <3>1. Len(conns'["udp"]) = 0 /\ Len(conns'["tcp"]) = 0
      BY <1>8 DEF Close
    <3> QED
      BY <3>1 DEF idleBar, Idle
  <2>2. liveBar' = liveBar \ idleBar
    BY <1>0, <1>8 DEF Close, CloseConns, TypeOK, liveBar, idleBar
  <2>3. Ownership!CloseAll
    BY <1>8, <2>1, <2>2 DEF Close, Ownership!CloseAll, liveBar, idleBar
  <2> QED
    BY <2>3 DEF Ownership!Next
<1>9. CASE EngineRestart
  <2>1. liveBar' = liveBar
    BY <1>0, <1>9 DEF EngineRestart, TypeOK, liveBar
  <2> QED
    BY <1>1, <1>9, <2>1 DEF EngineRestart
<1>10. CASE UNCHANGED vars
  BY <1>1, <1>10 DEF vars, liveBar
<1> QED
  BY <1>2, <1>3, <1>4, <1>6, <1>7, <1>8, <1>9, <1>10 DEF Next, Borrow, Progress

\* Connections of engineConnPool change hands only as OwnedPool allows,
\* whatever borrows, releases, failures, restarts and Close overlap.
THEOREM ConnectionsOwned == Spec => Ownership!Safety
BY InitOwnership, NextOwnership, Invariance, PTL DEF Spec, Ownership!Safety
=============================================================================
