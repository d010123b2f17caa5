------------------------- MODULE ConfigWatcherProofs -------------------------
(***************************************************************************)
(* No change of the configuration goes unnoticed, for every length of the  *)
(* kernel's queue and every number of changes.  The step from "begin" to   *)
(* the first select needs that only changes recorded in gap have happened  *)
(* by then (GapRecorded); that only valid configurations become current    *)
(* needs that none other gets past the load (AppliesValid).                *)
(***************************************************************************)
EXTENDS ConfigWatcher, TLAPS

\* Before the watch exists, the file has what main read or gap is set.
GapRecorded == run = "begin" /\ newConfig # file => gap

\* Only what has been validated reaches the engine.
AppliesValid == run = "apply" => newConfig \notin invalid

IInv ==
  /\ TypeOK
  /\ GapRecorded
  /\ AppliesValid
  /\ ChangeNoticed

\* The state main leaves satisfies the invariant.
LEMMA InitIInv == Init => IInv
<1> SUFFICES ASSUME Init PROVE IInv
  OBVIOUS
<1>1. invalid \subseteq 1..MaxChanges
  BY DEF Init
<1>2. invalid \subseteq Version /\ 0 \in Version \ invalid
  BY <1>1, WatcherAssumption DEF Version
<1>3. TypeOK
  <2>1. 0 \in 0..QueueCap
    BY WatcherAssumption
  <2>2. file \in Version /\ newConfig \in Version /\ currentConfig \in Version \ invalid
    BY <1>2 DEF Init
  <2> QED
    BY <1>2, <2>1, <2>2 DEF Init, TypeOK
<1>4. GapRecorded /\ AppliesValid /\ ChangeNoticed
  BY DEF Init, GapRecorded, AppliesValid, ChangeNoticed
<1> QED
  BY <1>3, <1>4 DEF IInv

\* An event that is posted while the watcher runs leaves the queue not
\* empty, also when it is dropped.
LEMMA PostFills ==
  ASSUME TypeOK, Post
  PROVE  /\ queue' \in 0..QueueCap /\ overflow' \in BOOLEAN
         /\ Watching => queue' > 0
         /\ queue > 0 => queue' > 0
BY WatcherAssumption DEF TypeOK, Post

\* Every step keeps the invariant.
LEMMA NextIInv == IInv /\ [Next]_vars => IInv'
<1> SUFFICES ASSUME IInv, [Next]_vars PROVE IInv'
  OBVIOUS
<1> USE WatcherAssumption DEF Version
<1>0. TypeOK /\ GapRecorded /\ AppliesValid /\ ChangeNoticed
  BY DEF IInv
<1>1. CASE Change
  <2>1. /\ queue' \in 0..QueueCap /\ overflow' \in BOOLEAN
        /\ Watching => queue' > 0
    BY <1>0, <1>1, PostFills DEF Change
  <2>2. TypeOK'
    BY <1>0, <1>1, <2>1 DEF Change, TypeOK, reload
  <2>3. GapRecorded' /\ AppliesValid' /\ ChangeNoticed'
    BY <1>0, <1>1, <2>1 DEF Change, reload, Watching,
       GapRecorded, AppliesValid, ChangeNoticed
  <2> QED
    BY <2>2, <2>3 DEF IInv
<1>2. CASE Touch
  <2>1. /\ queue' \in 0..QueueCap /\ overflow' \in BOOLEAN
        /\ queue > 0 => queue' > 0
    BY <1>0, <1>2, PostFills DEF Touch
  <2>2. TypeOK'
    BY <1>0, <1>2, <2>1 DEF Touch, TypeOK, reload
  <2>3. GapRecorded' /\ AppliesValid' /\ ChangeNoticed'
    BY <1>0, <1>2, <2>1 DEF Touch, reload, GapRecorded, AppliesValid, ChangeNoticed
  <2> QED
    BY <2>2, <2>3 DEF IInv
<1>3. CASE Cancel
  BY <1>0, <1>3 DEF Cancel, reload, IInv, TypeOK,
     GapRecorded, AppliesValid, ChangeNoticed
<1>4. CASE AddWatch \/ AddWatchFails
  BY <1>0, <1>4 DEF AddWatch, AddWatchFails, environment, reload, IInv, TypeOK,
     GapRecorded, AppliesValid, ChangeNoticed
<1>5. CASE OnDone \/ OnError
  BY <1>0, <1>5 DEF OnDone, OnError, environment, reload, IInv, TypeOK,
     GapRecorded, AppliesValid, ChangeNoticed
<1>6. CASE OnEvent
  BY <1>0, <1>6 DEF OnEvent, environment, reload, IInv, TypeOK,
     GapRecorded, AppliesValid, ChangeNoticed
<1>7. CASE Expire \/ OnTimer
  BY <1>0, <1>7 DEF Expire, OnTimer, environment, reload, IInv, TypeOK,
     GapRecorded, AppliesValid, ChangeNoticed
<1>8. CASE Load
  BY <1>0, <1>8 DEF Load, Validates, environment, IInv, TypeOK,
     GapRecorded, AppliesValid, ChangeNoticed
<1>9. CASE Apply \/ ApplyFails
  BY <1>0, <1>9 DEF Apply, ApplyFails, environment, IInv, TypeOK,
     GapRecorded, AppliesValid, ChangeNoticed
<1>10. CASE UNCHANGED vars
  BY <1>0, <1>10 DEF vars, environment, reload, IInv, TypeOK,
     GapRecorded, AppliesValid, ChangeNoticed
<1> QED
  BY <1>1, <1>2, <1>3, <1>4, <1>5, <1>6, <1>7, <1>8, <1>9, <1>10 DEF Next

\* The invariant holds in every state.
LEMMA Invariance == Spec => []IInv
BY InitIInv, NextIInv, PTL DEF Spec

\* Types, and no configuration that fails to load or validate becomes the
\* current one (reload callback).
THEOREM TypeCorrect == Spec => []TypeOK
<1>1. IInv => TypeOK
  BY DEF IInv
<1> QED
  BY <1>1, Invariance, PTL

\* While the watcher waits or reloads, a file that differs from what was
\* read last has an event or the timer pending (ConfigWatcher.Run).
THEOREM NoChangeMissed == Spec => []ChangeNoticed
<1>1. IInv => ChangeNoticed
  BY DEF IInv
<1> QED
  BY <1>1, Invariance, PTL
=============================================================================
