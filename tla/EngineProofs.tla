---------------------------- MODULE EngineProofs ----------------------------
(***************************************************************************)
(* Supervisor, reload callback and shutdown operate one engine between     *)
(* them without losing it, doubling it or leaving it with a configuration  *)
(* nobody chose, for every set of configurations and process slots; and    *)
(* the reload callback implements the steps of ReloadTransaction.          *)
(*                                                                         *)
(* The properties of the runs are not inductive.  What they lack is who    *)
(* has a process to wait for (VictimOwned), that the supervisor cannot be  *)
(* in the middle of a start once main's Stop is over (StoppedForGood), and *)
(* what file and engine may hold at each step of a reload, not only when   *)
(* none is under way (FileByPhase, EngineByPhase).                         *)
(*                                                                         *)
(* The last part is about the engine's output: LineWriter.                 *)
(***************************************************************************)
EXTENDS EngineLifecycle, LineWriter, Integers, TLAPS

\* A Stop waits for a process exactly while its goroutine holds the lock for it.
VictimOwned == victim # None <=> sup = "stopping" \/ main = "stopping"

\* Start finds no process known when it begins one.
SpawnsAlone == sup = "spawn" => cmd = None

\* Once main's Stop is over the supervisor can neither wait for a process nor
\* be past the check of its context.
StoppedForGood ==
  /\ main # "run" => cancelled
  /\ main \in {"join", "exit"} => cmd = None /\ sup \notin {"stopping", "spawn"}

\* What the configuration file holds at each step of the reload callback.
FileByPhase ==
  /\ rel \in {"reload", "reloading", "publish"} => disk = next
  /\ rel \in {"rbReload", "rbReloading"} => disk = current
  /\ rel \in {"idle", "configure", "done"} /\ ~suspect => disk = current
  /\ rel = "rbConfigure" /\ ~suspect => disk \in {current, next, Torn}

\* the engine the adapter knows has not exited
Alive == cmd # None /\ proc[cmd] \in {"up", "hung"}

\* What an engine that waits to be told has read at each step of the callback;
\* no engine lives on a torn file.
EngineByPhase ==
  /\ Alive => runs # Torn
  /\ Alive /\ adapter = "control" =>
       /\ rel = "publish" => runs = next
       /\ rel \in {"idle", "configure", "done"} /\ ~suspect => runs = current
       /\ ~suspect => runs \in {current, next}

IInv ==
  /\ TypeOK /\ LockHeld /\ OneEngine
  /\ VictimOwned /\ SpawnsAlone /\ StoppedForGood
  /\ FileByPhase /\ EngineByPhase

\* The slot a new process gets is free, if one is.
LEMMA FreeSlotIsFree ==
  ASSUME NEW procs, \E p \in Proc : procs[p] = "free"
  PROVE  FreeSlot(procs) \in Proc /\ procs[FreeSlot(procs)] = "free"
BY DEF FreeSlot

\* The state main leaves satisfies the invariant.
LEMMA InitIInv == Init => IInv
<1> SUFFICES ASSUME Init PROVE IInv
  OBVIOUS
<1>1. cmd \in Proc
  <2>1. \E p \in Proc : [q \in Proc |-> "free"][p] = "free"
    BY EngineAssumption
  <2> QED
    BY <2>1, FreeSlotIsFree DEF Init
<1>2. TypeOK
  BY <1>1 DEF Init, TypeOK
<1>3. LockHeld /\ VictimOwned /\ SpawnsAlone /\ StoppedForGood
  BY DEF Init, LockHeld, VictimOwned, SpawnsAlone, StoppedForGood
<1>4. OneEngine
  BY <1>1, EngineAssumption DEF Init, OneEngine
<1>5. FileByPhase /\ EngineByPhase
  BY EngineAssumption DEF Init, FileByPhase, EngineByPhase, Alive
<1> QED
  BY <1>2, <1>3, <1>4, <1>5 DEF IInv

\* Types are kept.
LEMMA NextTypeOK == TypeOK /\ [Next]_vars => TypeOK'
<1> SUFFICES ASSUME TypeOK, [Next]_vars PROVE TypeOK'
  OBVIOUS
<1> USE DEF TypeOK, goroutines, configs, processes
<1>1. CASE SupNotices
  <2>1. expired' \in BOOLEAN
    BY <1>1 DEF SupNotices
  <2> QED
    BY <1>1, <2>1 DEF SupNotices
<1>2. CASE SupMisjudges
  <2>1. expired' \in BOOLEAN
    BY <1>2 DEF SupMisjudges
  <2> QED
    BY <1>2, <2>1 DEF SupMisjudges
<1>3. CASE SupStart
  BY <1>3 DEF SupStart
<1>4. CASE SupSpawnFails
  BY <1>4 DEF SupSpawnFails
<1>5. CASE SupReturns
  BY <1>5 DEF SupReturns
<1>6. CASE SupStop
  BY <1>6 DEF SupStop, StopNothing, StopBegin
<1>7. CASE MainStop
  BY <1>7 DEF MainStop, StopNothing, StopBegin
<1>8. CASE SupStopped
  <2>1. expired' \in BOOLEAN
    BY <1>8 DEF SupStopped, Reap
  <2> QED
    BY <1>8, <2>1 DEF SupStopped, Reap
<1>9. CASE MainStopped
  <2>1. cancelled' \in BOOLEAN /\ expired' \in BOOLEAN /\ suspect' \in BOOLEAN
    BY <1>9 DEF MainStopped, Reap
  <2> QED
    BY <1>9, <2>1 DEF MainStopped, Reap
<1>10. CASE SupSpawn
  <2>1. cmd' \in Proc
    BY <1>10, FreeSlotIsFree DEF SupSpawn
  <2> QED
    BY <1>10, <2>1 DEF SupSpawn
<1>11. CASE \E c \in Config : RelBegin(c)
  BY <1>11 DEF RelBegin
<1>12. CASE RelConfigure
  BY <1>12 DEF RelConfigure
<1>13. CASE RelConfigureFails
  BY <1>13 DEF RelConfigureFails, WriteFails
<1>14. CASE RelReload
  BY <1>14 DEF RelReload
<1>15. CASE RelPublish
  <2>1. suspect' \in BOOLEAN
    BY <1>15 DEF RelPublish
  <2> QED
    BY <1>15, <2>1 DEF RelPublish
<1>16. CASE RbConfigure
  BY <1>16 DEF RbConfigure
<1>17. CASE RbConfigureFails
  BY <1>17 DEF RbConfigureFails, WriteFails
<1>18. CASE RelReturns
  BY <1>18 DEF RelReturns
<1>19. CASE RelReloaded
  BY <1>19 DEF RelReloaded, Reread
<1>20. CASE RelReloadFails
  BY <1>20 DEF RelReloadFails, Reread
<1>21. CASE RelReloadNoop
  <2>1. suspect' \in BOOLEAN
    BY <1>21 DEF RelReloadNoop
  <2> QED
    BY <1>21, <2>1 DEF RelReloadNoop
<1>22. CASE RbReloaded
  BY <1>22 DEF RbReloaded, Reread
<1>23. CASE RbReloadFails
  BY <1>23 DEF RbReloadFails, Reread
<1>24. CASE AutoReload
  BY <1>24 DEF AutoReload, Reread
<1>25. CASE MainExits
  BY <1>25 DEF MainExits
<1>26. CASE Cancel
  BY <1>26 DEF Cancel
<1>27. CASE HealthStatus
  BY <1>27 DEF HealthStatus
<1>28. CASE \E p \in Proc : Crash(p) \/ Hang(p)
  BY <1>28 DEF Crash, Hang
<1>29. CASE UNCHANGED vars
  BY <1>29 DEF vars
<1> QED
  BY <1>1, <1>2, <1>3, <1>4, <1>5, <1>6, <1>7, <1>8, <1>9, <1>10,
     <1>11, <1>12, <1>13, <1>14, <1>15, <1>16, <1>17, <1>18, <1>19, <1>20,
     <1>21, <1>22, <1>23, <1>24, <1>25, <1>26, <1>27, <1>28, <1>29
     DEF Next, SupSteps, RelSteps, MainSteps

\* the part of the invariant about lock and processes
ProcessInv ==
  LockHeld /\ OneEngine /\ VictimOwned /\ SpawnsAlone /\ StoppedForGood

\* Every step keeps lock and processes in order.
LEMMA NextProcessInv == TypeOK /\ ProcessInv /\ [Next]_vars => ProcessInv'
<1> SUFFICES ASSUME TypeOK, ProcessInv, [Next]_vars PROVE ProcessInv'
  OBVIOUS
<1> USE EngineAssumption
    DEF TypeOK, goroutines, configs, processes,
        ProcessInv, LockHeld, OneEngine, VictimOwned, SpawnsAlone, StoppedForGood
<1>1. CASE SupNotices \/ SupMisjudges \/ SupStart \/ SupSpawnFails \/ SupReturns
  BY <1>1 DEF SupNotices, SupMisjudges, SupStart, SupSpawnFails, SupReturns
<1>2. CASE SupStop
  BY <1>2 DEF SupStop, StopNothing, StopBegin
<1>3. CASE MainStop
  BY <1>3 DEF MainStop, StopNothing, StopBegin
<1>4. CASE SupStopped
  BY <1>4 DEF SupStopped, Reap
<1>5. CASE MainStopped
  BY <1>5 DEF MainStopped, Reap
<1>6. CASE SupSpawn
  <2>1. cmd' \in Proc /\ proc[cmd'] = "free"
    BY <1>6, FreeSlotIsFree DEF SupSpawn
  <2>2. OneEngine'
    BY <1>6, <2>1 DEF SupSpawn
  <2> QED
    BY <1>6, <2>1, <2>2 DEF SupSpawn
<1>7. CASE \E c \in Config : RelBegin(c)
  BY <1>7 DEF RelBegin
<1>8. CASE \/ RelConfigure \/ RelConfigureFails \/ RelReload \/ RelPublish
           \/ RbConfigure \/ RbConfigureFails \/ RelReturns
  BY <1>8 DEF RelConfigure, RelConfigureFails, RelReload, RelPublish,
     RbConfigure, RbConfigureFails, RelReturns
<1>9. CASE RelReloaded \/ RelReloadFails \/ RelReloadNoop \/ RbReloaded \/ RbReloadFails
  BY <1>9 DEF RelReloaded, RelReloadFails, RelReloadNoop, RbReloaded, RbReloadFails
<1>10. CASE AutoReload \/ MainExits \/ Cancel \/ HealthStatus
  BY <1>10 DEF AutoReload, MainExits, Cancel, HealthStatus
<1>11. CASE \E p \in Proc : Crash(p) \/ Hang(p)
  BY <1>11 DEF Crash, Hang
<1>12. CASE UNCHANGED vars
  BY <1>12 DEF vars
<1> QED
  BY <1>1, <1>2, <1>3, <1>4, <1>5, <1>6, <1>7, <1>8, <1>9, <1>10, <1>11, <1>12
     DEF Next, SupSteps, RelSteps, MainSteps

\* the part of the invariant about file and engine
ConfigInv == FileByPhase /\ EngineByPhase

\* Every step keeps file and engine as the phase of the reload says.
LEMMA NextConfigInv == TypeOK /\ ProcessInv /\ ConfigInv /\ [Next]_vars => ConfigInv'
<1> SUFFICES ASSUME TypeOK, ProcessInv, ConfigInv, [Next]_vars PROVE ConfigInv'
  OBVIOUS
<1> USE EngineAssumption
    DEF TypeOK, goroutines, configs, processes, ConfigInv, FileByPhase, EngineByPhase, Alive
<1>0. /\ cmd # None => victim = None
      /\ sup = "stopping" => cmd = None /\ victim \in Proc
      /\ main = "stopping" => cmd = None /\ victim \in Proc
      /\ sup = "spawn" => cmd = None /\ rel \notin {"reloading", "rbReloading"}
  BY DEF ProcessInv, LockHeld, OneEngine, VictimOwned, SpawnsAlone
<1>1. CASE SupNotices \/ SupMisjudges \/ SupStart \/ SupSpawnFails \/ SupReturns
  BY <1>1 DEF SupNotices, SupMisjudges, SupStart, SupSpawnFails, SupReturns
<1>2. CASE SupStop \/ MainStop
  BY <1>2 DEF SupStop, MainStop, StopNothing, StopBegin
<1>3. CASE SupStopped \/ MainStopped
  BY <1>0, <1>3 DEF SupStopped, MainStopped, Reap
<1>4. CASE SupSpawn
  <2>1. cmd' \in Proc /\ runs' = disk /\ (disk = Torn => proc'[cmd'] = "dead")
    BY <1>4, FreeSlotIsFree DEF SupSpawn
  <2>2. FileByPhase'
    BY <1>4 DEF SupSpawn
  <2>3. EngineByPhase'
    BY <1>0, <1>4, <2>1 DEF SupSpawn
  <2> QED
    BY <2>2, <2>3
<1>5. CASE \E c \in Config : RelBegin(c)
  BY <1>5 DEF RelBegin
<1>6. CASE RelConfigure \/ RelConfigureFails \/ RelReload
  BY <1>6 DEF RelConfigure, RelConfigureFails, RelReload, WriteFails
<1>7. CASE RelPublish \/ RelReturns
  BY <1>7 DEF RelPublish, RelReturns
<1>8. CASE RbConfigure \/ RbConfigureFails
  BY <1>8 DEF RbConfigure, RbConfigureFails, WriteFails
<1>9. CASE RelReloaded \/ RelReloadFails
  BY <1>9 DEF RelReloaded, RelReloadFails, Reread
<1>10. CASE RbReloaded \/ RbReloadFails
  BY <1>10 DEF RbReloaded, RbReloadFails, Reread
<1>11. CASE RelReloadNoop
  BY <1>11 DEF RelReloadNoop
<1>12. CASE AutoReload
  BY <1>12 DEF AutoReload, Reread
<1>13. CASE MainExits \/ Cancel \/ HealthStatus
  BY <1>13 DEF MainExits, Cancel, HealthStatus
<1>14. CASE \E p \in Proc : Crash(p) \/ Hang(p)
  BY <1>14 DEF Crash, Hang
<1>15. CASE UNCHANGED vars
  BY <1>15 DEF vars
<1> QED
  BY <1>1, <1>2, <1>3, <1>4, <1>5, <1>6, <1>7, <1>8, <1>9, <1>10, <1>11, <1>12, <1>13,
     <1>14, <1>15
     DEF Next, SupSteps, RelSteps, MainSteps

\* Every step keeps the invariant ...
LEMMA NextIInv == IInv /\ [Next]_vars => IInv'
BY NextTypeOK, NextProcessInv, NextConfigInv DEF IInv, ProcessInv, ConfigInv

\* ... and it holds in every state.
LEMMA Invariance == Spec => []IInv
BY InitIInv, NextIInv, PTL DEF Spec

\* The shared engine state and the goroutines keep their types.
THEOREM TypeCorrect == Spec => []TypeOK
<1>1. IInv => TypeOK
  BY DEF IInv
<1> QED
  BY <1>1, Invariance, PTL

\* Start, Stop and the restarts of superviseEngine never lose an engine or
\* start a second one beside it.
THEOREM EngineUnique == Spec => []OneEngine
<1>1. IInv => OneEngine
  BY DEF IInv
<1> QED
  BY <1>1, Invariance, PTL

\* No engine is left, and none is started, after the Stop of main's shutdown.
THEOREM StopIsFinal == Spec => []NoEngineAfterStop
<1>1. IInv => NoEngineAfterStop
  BY EngineAssumption
     DEF IInv, NoEngineAfterStop, Live, TypeOK, OneEngine, VictimOwned, StoppedForGood
<1> QED
  BY <1>1, Invariance, PTL

\* Between reloads file, agent and engine agree, unless a rollback has failed.
THEOREM ConfigurationsAgree == Spec => []ConfigAgreement
<1>1. IInv => ConfigAgreement
  BY EngineAssumption
     DEF IInv, ConfigAgreement, TypeOK, OneEngine, FileByPhase, EngineByPhase, Alive
<1> QED
  BY <1>1, Invariance, PTL
-----------------------------------------------------------------------------
(* The reload callback as a transaction: each of its steps, and each step  *)
(* of engine and supervisor, is a step of ReloadTransaction or changes     *)
(* nothing there.                                                          *)

\* what the refinement mapping of EngineLifecycle shows of the state
phaseBar == CASE rel = "idle" -> "idle" [] rel = "done" -> "ended" [] OTHER -> "busy"
proposedBar == IF rel \in {"idle", "done"} THEN current ELSE next
servingBar == IF adapter = "control" /\ cmd # None /\ proc[cmd] \in {"up", "hung"}
              THEN runs ELSE None
cleanBar == ~suspect

\* what the engine is known to serve is permitted
Served ==
  /\ servingBar \in Config \cup {None}
  /\ ~suspect => servingBar \in {current, proposedBar, None}
  /\ rel = "publish" => servingBar \in {next, None}

\* The invariant says so, before and after a step.
LEMMA ServesPermitted == (IInv => Served) /\ (IInv' => Served')
<1>1. IInv => Served
  BY EngineAssumption DEF IInv, TypeOK, EngineByPhase, Alive, Served, servingBar, proposedBar
<1> QED
  BY <1>1, PTL

\* The state main leaves is an initial state of the transaction.
LEMMA InitTransaction == Init => Transaction!Init
<1> SUFFICES ASSUME Init PROVE Transaction!Init
  OBVIOUS
<1>1. IInv
  BY InitIInv
<1> QED
  BY <1>1, ServesPermitted DEF Init, Transaction!Init, Served, servingBar, proposedBar

\* A step that leaves the callback where it is, its history too, is one of
\* the engine.
LEMMA EngineAlone ==
  ASSUME IInv', UNCHANGED <<phaseBar, proposedBar, current, suspect>>
  PROVE  Transaction!EngineStep
<1>1. Served'
  BY ServesPermitted
<1> QED
  BY <1>1 DEF Served, phaseBar, proposedBar, servingBar,
     Transaction!EngineStep, Transaction!Permitted

\* Every step is one of the transaction's.
LEMMA NextTransaction ==
  IInv /\ IInv' /\ [Next]_vars => [Transaction!Next]_Transaction!vars
<1> SUFFICES ASSUME IInv, IInv', [Next]_vars
             PROVE  [Transaction!Next]_Transaction!vars
  OBVIOUS
<1>0. TypeOK /\ Served /\ Served'
  BY ServesPermitted DEF IInv
<1>1. ASSUME UNCHANGED <<phaseBar, proposedBar, current, suspect>>
      PROVE  Transaction!Next
  BY <1>1, EngineAlone DEF Transaction!Next
<1> USE DEF phaseBar, proposedBar, servingBar, Served, goroutines, configs, processes
<1>2. CASE \/ SupNotices \/ SupMisjudges \/ SupStop \/ SupStopped \/ SupStart
           \/ SupSpawnFails \/ SupReturns
  BY <1>1, <1>2 DEF SupNotices, SupMisjudges, SupStop, SupStopped, SupStart,
     SupSpawnFails, SupReturns
<1>3. CASE SupSpawn
  <2>1. CASE rel = "idle" /\ disk = current
    BY <1>0, <1>3, <2>1 DEF SupSpawn, Transaction!Next, Transaction!EngineStep,
       Transaction!Permitted
  <2> QED
    BY <1>1, <1>3, <2>1 DEF SupSpawn
<1>4. CASE \E c \in Config : RelBegin(c)
  BY <1>4 DEF RelBegin, Transaction!Next, Transaction!Begin
<1>5. CASE RelConfigure \/ RelReload \/ RelReloaded \/ RbConfigure \/ AutoReload
  BY <1>1, <1>5 DEF RelConfigure, RelReload, RelReloaded, RbConfigure, AutoReload
<1>6. CASE RelConfigureFails
  BY <1>0, <1>1, <1>6 DEF RelConfigureFails, Transaction!Next, Transaction!Abort
<1>7. CASE RelReloadFails
  BY <1>0, <1>1, <1>7 DEF RelReloadFails, Transaction!Next, Transaction!Abort, TypeOK
<1>8. CASE RelReloadNoop
  BY <1>0, <1>1, <1>8 DEF RelReloadNoop, Transaction!Next, Transaction!Abort
<1>9. CASE RelPublish
  BY <1>0, <1>9 DEF RelPublish, Transaction!Next, Transaction!Commit
<1>10. CASE RbConfigureFails \/ RbReloaded \/ RbReloadFails
  BY <1>0, <1>10 DEF RbConfigureFails, RbReloaded, RbReloadFails,
     Transaction!Next, Transaction!Abort
<1>11. CASE RelReturns
  BY <1>11 DEF RelReturns, Transaction!Next, Transaction!End
<1>12. CASE MainSteps \/ Cancel \/ HealthStatus
  BY <1>1, <1>12 DEF MainSteps, MainStop, MainStopped, MainExits, Cancel, HealthStatus
<1>13. CASE \E p \in Proc : Crash(p) \/ Hang(p)
  BY <1>1, <1>13 DEF Crash, Hang
<1>14. CASE UNCHANGED vars
  BY <1>14 DEF vars, Transaction!vars
<1> QED
  BY <1>2, <1>3, <1>4, <1>5, <1>6, <1>7, <1>8, <1>9, <1>10, <1>11, <1>12, <1>13, <1>14
     DEF Next, SupSteps, RelSteps

\* Whatever engine, supervisor and shutdown do meanwhile, the reload callback
\* of main.go takes only steps a transaction may take: a configuration becomes
\* current only after it was proposed and taken by the engine, and the engine
\* is never known to serve a third one unless a rollback has failed.
THEOREM ReloadsAreTransactions == Spec => Transaction!Safety
BY InitTransaction, NextTransaction, Invariance, PTL DEF Spec, Transaction!Safety
-----------------------------------------------------------------------------
(***************************************************************************)
(* The engine's output (LineWriter).  The writer loses no byte and no      *)
(* suppressed line, and its log keeps to the rate, for every limit, window *)
(* and buffer size and every sequence of writes and restarts.              *)
(*                                                                         *)
(* The counts are inductive.  The rate is not: a stretch of time may lie   *)
(* across windows.  RateKept therefore bounds what was logged since an     *)
(* instant by what the current window has logged, if that began before     *)
(* the instant, and otherwise allows one more window and one more for each *)
(* restart; a rotation that is due finds all instants of the last          *)
(* windowDuration in the first case.                                       *)
(***************************************************************************)
Windows == [start : 0..now, emitted : 0..MaxLines, suppressed : Nat]

\* lines logged since an instant, in terms of a current window w
RateFor(w) ==
  \A t \in 0..now :
    /\ t > w.start => linesLogged - loggedBefore[t] <= w.emitted
    /\ t <= w.start /\ now - t < Window =>
         linesLogged - loggedBefore[t] <= w.emitted + MaxLines + MaxLines * restarts

RateKept == RateFor(window)

WriterInv == WriterTypeOK /\ BytesAccounted /\ SuppressionReported /\ RateKept

\* numbers of the constants
LEMMA Limits == MaxLines \in Nat \ {0} /\ Window \in Nat \ {0} /\ MaxBuffer \in Nat
                /\ MaxChunk \in Nat
BY LineWriterAssumption

\* The initial state satisfies the invariant.
LEMMA WriterInitInv == WriterInit => WriterInv
<1> SUFFICES ASSUME WriterInit PROVE WriterInv
  OBVIOUS
<1>1. WriterTypeOK
  <2>1. window \in [start : 0..now, emitted : 0..MaxLines, suppressed : Nat]
    BY Limits DEF WriterInit, NewWindow
  <2>2. loggedBefore \in [0..now -> 0..linesLogged]
    BY DEF WriterInit
  <2>3. writing \in BOOLEAN
    BY DEF WriterInit
  <2> QED
    BY <2>1, <2>2, <2>3 DEF WriterInit, WriterTypeOK
<1>2. BytesAccounted /\ SuppressionReported
  BY Limits DEF WriterInit, NewWindow, BytesAccounted, SuppressionReported
<1>3. MaxLines * restarts = 0
  BY Limits DEF WriterInit
<1>4. RateKept
  BY <1>3, Limits DEF WriterInit, NewWindow, RateKept, RateFor
<1> QED
  BY <1>1, <1>2, <1>4 DEF WriterInv

\* A rotation leaves a window, no suppressed line unreported, and the rate kept.
LEMMA RotationKeeps ==
  ASSUME WriterInv
  PROVE  /\ Rotated \in Windows /\ Summary \in Nat
         /\ Summary + Rotated.suppressed = window.suppressed
         /\ RateFor(Rotated)
<1>0. WriterTypeOK /\ RateFor(window) /\ window \in Windows
  BY DEF WriterInv, RateKept, WriterTypeOK, Windows
<1>1. Rotated \in Windows /\ Summary \in Nat /\ Summary + Rotated.suppressed = window.suppressed
  BY <1>0, Limits DEF Rotated, Summary, NewWindow, WriterTypeOK, Windows
<1>2. CASE RotationDue
  <2>1. MaxLines * restarts \in Nat
    BY <1>0, Limits DEF WriterTypeOK
  <2>2. Rotated.start = now /\ Rotated.emitted = 0
    BY <1>2 DEF Rotated, NewWindow
  <2>3. ASSUME NEW t \in 0..now, now - t < Window
        PROVE  linesLogged - loggedBefore[t] <= 0 + MaxLines + MaxLines * restarts
    <3>1. t > window.start
      BY <1>0, <1>2, <2>3, Limits DEF RotationDue, WriterTypeOK
    <3>2. linesLogged - loggedBefore[t] <= window.emitted
      BY <1>0, <3>1 DEF RateFor
    <3>3. window.emitted <= MaxLines /\ window.emitted \in Nat
      BY <1>0, Limits DEF WriterTypeOK
    <3>4. linesLogged - loggedBefore[t] \in Int
      BY <1>0 DEF WriterTypeOK
    <3> QED
      BY <2>1, <3>2, <3>3, <3>4, Limits
  <2>4. \A t \in 0..now : ~(t > Rotated.start)
    BY <1>0, <2>2 DEF WriterTypeOK
  <2> QED
    BY <1>1, <2>2, <2>3, <2>4 DEF RateFor
<1>3. CASE ~RotationDue
  BY <1>0, <1>1, <1>3 DEF Rotated
<1> QED
  BY <1>1, <1>2, <1>3

\* what a step may do to the window and to the counts of lines
Keeps(bytes) ==
  /\ window' \in [start : 0..now, emitted : 0..MaxLines, suppressed : Nat]
  /\ logged' \in Nat /\ dropped' \in Nat /\ suppressed' \in Nat /\ summed' \in Nat
  /\ linesLogged' \in Nat /\ loggedBefore' \in [0..now -> 0..linesLogged']
  /\ \/ logged' = logged + bytes /\ dropped' = dropped
     \/ logged' = logged /\ dropped' = dropped + bytes
  /\ suppressed' = summed' + window'.suppressed + lost.lines
  /\ RateKept'

\* A line is logged or counted, all its bytes with it, within the rate.
LEMMA EmitKeeps ==
  ASSUME WriterInv, NEW length \in Nat, Emit(length),
         UNCHANGED <<now, restarts, loggedBefore>>
  PROVE  Keeps(length)
<1>0. WriterTypeOK /\ SuppressionReported /\ RateFor(window)
  BY DEF WriterInv, RateKept
<1>n. /\ logged \in Nat /\ dropped \in Nat /\ suppressed \in Nat /\ summed \in Nat
      /\ lost.lines \in Nat /\ window.suppressed \in Nat
      /\ suppressed = summed + window.suppressed + lost.lines
  BY <1>0 DEF WriterTypeOK, SuppressionReported
<1>1. CASE length = 0
  <2>1. UNCHANGED <<window, logged, dropped, linesLogged, suppressed, summed>>
    BY <1>1 DEF Emit
  <2>2. RateKept'
    BY <1>0, <2>1 DEF RateKept, RateFor
  <2> QED
    BY <1>0, <1>1, <2>1, <2>2 DEF Keeps, WriterTypeOK, SuppressionReported
<1>2. CASE length # 0
  <2> DEFINE w == Rotated
  <2>1. /\ w \in Windows /\ Summary \in Nat
        /\ Summary + w.suppressed = window.suppressed /\ RateFor(w)
    BY RotationKeeps
  <2>2. summed' = summed + Summary
    BY <1>2 DEF Emit
  <2>3. MaxLines * restarts \in Nat
    BY <1>0, Limits DEF WriterTypeOK
  <2>4. CASE w.emitted < MaxLines
    <3>1. /\ window' = [w EXCEPT !.emitted = @ + 1]
          /\ logged' = logged + length /\ linesLogged' = linesLogged + 1
          /\ UNCHANGED <<dropped, suppressed>>
      BY <1>0, <1>2, <2>1, <2>4, Limits DEF Emit, Windows
    <3> HIDE DEF w
    <3>2. /\ window'.start = w.start /\ window'.emitted = w.emitted + 1
          /\ window'.suppressed = w.suppressed
          /\ window' \in [start : 0..now, emitted : 0..MaxLines, suppressed : Nat]
      BY <2>1, <2>4, <3>1, Limits DEF Windows
    <3>3. RateKept'
      <4>1. ASSUME NEW t \in 0..now
            PROVE  /\ t > w.start => (linesLogged + 1) - loggedBefore[t] <= w.emitted + 1
                   /\ t <= w.start /\ now - t < Window =>
                        (linesLogged + 1) - loggedBefore[t]
                          <= (w.emitted + 1) + MaxLines + MaxLines * restarts
        <5>1. linesLogged \in Nat /\ loggedBefore[t] \in Nat /\ w.emitted \in Nat
          BY <1>0, <2>1 DEF WriterTypeOK, Windows
        <5>2. /\ t > w.start => linesLogged - loggedBefore[t] <= w.emitted
              /\ t <= w.start /\ now - t < Window =>
                   linesLogged - loggedBefore[t]
                     <= w.emitted + MaxLines + MaxLines * restarts
          BY <2>1 DEF RateFor
        <5> QED
          BY <2>3, <5>1, <5>2, Limits
      <4> QED
        BY <3>1, <3>2, <4>1 DEF RateKept, RateFor
    <3>4. loggedBefore' \in [0..now -> 0..linesLogged'] /\ linesLogged' \in Nat
      <4>1. linesLogged \in Nat /\ loggedBefore \in [0..now -> 0..linesLogged]
        BY <1>0 DEF WriterTypeOK
      <4>2. 0..linesLogged \subseteq 0..(linesLogged + 1)
        BY <4>1
      <4>3. loggedBefore \in [0..now -> 0..(linesLogged + 1)]
        BY <4>1, <4>2
      <4> QED
        BY <3>1, <4>1, <4>3
    <3>5. w.suppressed \in Nat
      BY <2>1 DEF Windows
    <3>6. /\ logged' \in Nat /\ dropped' \in Nat /\ suppressed' \in Nat /\ summed' \in Nat
          /\ \/ logged' = logged + length /\ dropped' = dropped
             \/ logged' = logged /\ dropped' = dropped + length
          /\ suppressed' = summed' + window'.suppressed + lost.lines
      BY <1>n, <2>1, <2>2, <3>1, <3>2, <3>5
    <3> QED
      BY <3>2, <3>3, <3>4, <3>6 DEF Keeps
  <2>5. CASE ~(w.emitted < MaxLines)
    <3>1. /\ window' = [w EXCEPT !.suppressed = @ + 1]
          /\ dropped' = dropped + length /\ suppressed' = suppressed + 1
          /\ UNCHANGED <<logged, linesLogged>>
      BY <1>0, <1>2, <2>1, <2>5, Limits DEF Emit, Windows
    <3> HIDE DEF w
    <3>2. /\ window'.start = w.start /\ window'.emitted = w.emitted
          /\ window'.suppressed = w.suppressed + 1
          /\ window' \in [start : 0..now, emitted : 0..MaxLines, suppressed : Nat]
      BY <2>1, <3>1, Limits DEF Windows
    <3>3. RateKept'
      BY <2>1, <3>1, <3>2 DEF RateKept, RateFor
    <3>4. loggedBefore' \in [0..now -> 0..linesLogged'] /\ linesLogged' \in Nat
      BY <1>0, <3>1 DEF WriterTypeOK
    <3>5. w.suppressed \in Nat
      BY <2>1 DEF Windows
    <3>6. /\ logged' \in Nat /\ dropped' \in Nat /\ suppressed' \in Nat /\ summed' \in Nat
          /\ \/ logged' = logged + length /\ dropped' = dropped
             \/ logged' = logged /\ dropped' = dropped + length
          /\ suppressed' = summed' + window'.suppressed + lost.lines
      BY <1>n, <2>1, <2>2, <3>1, <3>2, <3>5
    <3> QED
      BY <3>2, <3>3, <3>4, <3>6 DEF Keeps
  <2> QED
    BY <2>4, <2>5
<1> QED
  BY <1>1, <1>2

\* Every step keeps the invariant.
LEMMA WriterNextInv == WriterInv /\ [WriterNext]_writerVars => WriterInv'
<1> SUFFICES ASSUME WriterInv, [WriterNext]_writerVars PROVE WriterInv'
  OBVIOUS
<1>0. WriterTypeOK /\ BytesAccounted /\ SuppressionReported /\ RateFor(window)
  BY DEF WriterInv, RateKept
<1>n. /\ now \in Nat /\ buffer \in Nat /\ chunk \in Nat /\ received \in Nat /\ logged \in Nat
      /\ dropped \in Nat /\ lost.bytes \in Nat /\ lost.lines \in Nat
      /\ window.suppressed \in Nat /\ summed \in Nat
      /\ received = logged + dropped + buffer + chunk + lost.bytes
  BY <1>0 DEF WriterTypeOK, BytesAccounted
<1>1. ASSUME NEW n \in 0..MaxChunk, WriteBegins(n) PROVE WriterInv'
  <2>1. /\ window' \in Windows /\ Summary \in Nat
        /\ Summary + window'.suppressed = window.suppressed /\ RateFor(window')
    BY <1>1, RotationKeeps DEF WriteBegins
  <2>2. WriterTypeOK'
    BY <1>0, <1>1, <2>1, Limits DEF WriteBegins, WriterTypeOK, Windows
  <2>3. BytesAccounted'
    BY <1>0, <1>1, Limits DEF WriteBegins, WriterTypeOK, BytesAccounted
  <2>4. SuppressionReported'
    BY <1>0, <1>1, <2>1 DEF WriteBegins, WriterTypeOK, SuppressionReported, Windows
  <2>5. RateKept'
    BY <1>1, <2>1 DEF WriteBegins, RateKept, RateFor
  <2> QED
    BY <2>2, <2>3, <2>4, <2>5 DEF WriterInv
<1>2. ASSUME NEW n \in 0..chunk, WriteLine(n) PROVE WriterInv'
  <2>0. n \in Nat /\ buffer + n \in Nat /\ chunk - n \in Nat
    BY <1>n
  <2>1. Keeps(buffer + n)
    BY <1>2, <2>0, EmitKeeps DEF WriteLine
  <2>2. WriterTypeOK' /\ RateKept'
    <3>1. /\ now' = now /\ writing' = writing /\ restarts' = restarts
          /\ received' = received /\ lost' = lost /\ buffer' \in Nat /\ chunk' \in Nat
      BY <1>2, <2>0 DEF WriteLine
    <3> QED
      BY <1>0, <2>1, <3>1 DEF Keeps, WriterTypeOK
  <2>3. BytesAccounted'
    <3>1. /\ buffer' = 0 /\ chunk' = chunk - n /\ received' = received
          /\ lost'.bytes = lost.bytes
          /\ writing'
      BY <1>2 DEF WriteLine
    <3>2. \/ logged' = logged + (buffer + n) /\ dropped' = dropped
          \/ logged' = logged /\ dropped' = dropped + (buffer + n)
      BY <2>1 DEF Keeps
    <3>3. received' = logged' + dropped' + buffer' + chunk' + lost'.bytes
      BY <1>n, <2>0, <3>1, <3>2
    <3> QED
      BY <3>1, <3>3 DEF BytesAccounted
  <2>4. SuppressionReported'
    BY <1>2, <2>1 DEF Keeps, WriteLine, SuppressionReported
  <2> QED
    BY <2>2, <2>3, <2>4 DEF WriterInv
<1>3. CASE WriteEnds
  <2>1. PICK n \in {0, buffer + chunk} :
          /\ Emit(n) /\ buffer' = buffer + chunk - n /\ buffer' <= MaxBuffer
          /\ buffer' \in Nat
    BY <1>0, <1>3, Limits DEF WriteEnds, WriterTypeOK
  <2>2. n \in Nat
    BY <1>0, <2>1 DEF WriterTypeOK
  <2>3. Keeps(n)
    BY <1>3, <2>1, <2>2, EmitKeeps DEF WriteEnds
  <2>4. writing' \in BOOLEAN
    BY <1>3 DEF WriteEnds
  <2>5. WriterTypeOK' /\ RateKept'
    BY <1>0, <1>3, <2>1, <2>3, <2>4 DEF Keeps, WriteEnds, WriterTypeOK
  <2>6. BytesAccounted'
    <3>1. chunk' = 0 /\ received' = received /\ lost'.bytes = lost.bytes
      BY <1>3 DEF WriteEnds
    <3>2. \/ logged' = logged + n /\ dropped' = dropped
          \/ logged' = logged /\ dropped' = dropped + n
      BY <2>3 DEF Keeps
    <3>3. received' = logged' + dropped' + buffer' + chunk' + lost'.bytes
      BY <1>n, <2>1, <2>2, <3>1, <3>2
    <3> QED
      BY <2>1, <3>1, <3>3 DEF BytesAccounted
  <2>7. SuppressionReported'
    BY <1>3, <2>3 DEF Keeps, WriteEnds, SuppressionReported
  <2> QED
    BY <2>5, <2>6, <2>7 DEF WriterInv
<1>4. CASE Restart
  <2>1. /\ window'.start = now /\ window'.emitted = 0 /\ window'.suppressed = 0
        /\ window' \in Windows
    BY <1>0, <1>4, Limits DEF Restart, NewWindow, WriterTypeOK, Windows
  <2>2. WriterTypeOK'
    BY <1>0, <1>4, <2>1 DEF Restart, WriterTypeOK, Windows
  <2>3. BytesAccounted' /\ SuppressionReported'
    <3>1. /\ lost'.bytes = lost.bytes + buffer
          /\ lost'.lines = lost.lines + window.suppressed
          /\ buffer' = 0 /\ ~writing
          /\ UNCHANGED <<writing, chunk, received, logged, dropped, suppressed, summed>>
      BY <1>4 DEF Restart
    <3>2. suppressed = summed + window.suppressed + lost.lines /\ chunk = 0
      BY <1>0, <3>1 DEF SuppressionReported, BytesAccounted
    <3> QED
      BY <1>n, <2>1, <3>1, <3>2, Limits DEF BytesAccounted, SuppressionReported
  <2>4. RateKept'
    <3>1. ASSUME NEW t \in 0..now, now - t < Window
          PROVE  linesLogged - loggedBefore[t] <= 0 + MaxLines + MaxLines * (restarts + 1)
      <4>1. /\ linesLogged \in Nat /\ loggedBefore[t] \in Nat /\ window.start \in Nat
            /\ window.emitted \in Nat /\ window.emitted <= MaxLines
            /\ MaxLines * restarts \in Nat
            /\ MaxLines * (restarts + 1) = MaxLines * restarts + MaxLines
        BY <1>0, Limits DEF WriterTypeOK
      <4>2. linesLogged - loggedBefore[t] <= window.emitted + MaxLines + MaxLines * restarts
        BY <1>0, <3>1, <4>1, Limits DEF RateFor
      <4> QED
        BY <4>1, <4>2, Limits
    <3> QED
      BY <1>0, <1>4, <2>1, <3>1 DEF Restart, RateKept, RateFor, WriterTypeOK
  <2> QED
    BY <2>2, <2>3, <2>4 DEF WriterInv
<1>5. CASE Tick
  <2>1. now' = now + 1 /\ now \in Nat /\ UNCHANGED <<window, linesLogged, restarts>>
    BY <1>0, <1>5 DEF Tick, WriterTypeOK
  <2>2. loggedBefore' \in [0..now' -> 0..linesLogged]
    BY <1>0, <1>5, <2>1 DEF Tick, WriterTypeOK
  <2>3. window' \in [start : 0..now', emitted : 0..MaxLines, suppressed : Nat]
    BY <1>0, <2>1 DEF WriterTypeOK
  <2>4. WriterTypeOK'
    BY <1>0, <1>5, <2>1, <2>2, <2>3 DEF Tick, WriterTypeOK, stream
  <2>5. BytesAccounted' /\ SuppressionReported'
    BY <1>0, <1>5 DEF Tick, stream, BytesAccounted, SuppressionReported
  <2>6. RateKept'
    <3>1. ASSUME NEW t \in 0..now, now' - t < Window PROVE now - t < Window
      BY <2>1, <3>1, Limits
    <3>2. \A t \in 0..now : loggedBefore'[t] = loggedBefore[t]
      BY <1>5, <2>1 DEF Tick
    <3>3. loggedBefore'[now'] = linesLogged
      BY <1>5, <2>1 DEF Tick
    <3>4. linesLogged - linesLogged <= window.emitted /\ ~(now' <= window.start)
      BY <1>0, <2>1, Limits DEF WriterTypeOK
    <3>5. 0..now' = (0..now) \cup {now'}
      BY <2>1
    <3> QED
      BY <1>0, <2>1, <3>1, <3>2, <3>3, <3>4, <3>5 DEF RateKept, RateFor
  <2> QED
    BY <2>4, <2>5, <2>6 DEF WriterInv
<1>6. CASE UNCHANGED writerVars
  BY <1>6 DEF writerVars, stream, history, WriterInv, WriterTypeOK, BytesAccounted,
     SuppressionReported, RateKept, RateFor
<1> QED
  BY <1>1, <1>2, <1>3, <1>4, <1>5, <1>6 DEF WriterNext

\* The invariant holds in every state.
LEMMA WriterInvariance == WriterSpec => []WriterInv
BY WriterInitInv, WriterNextInv, PTL DEF WriterSpec

\* The writer's state and its counts keep their types; linesEmitted never
\* passes the limit.
THEOREM WriterTypeCorrect == WriterSpec => []WriterTypeOK
<1>1. WriterInv => WriterTypeOK
  BY DEF WriterInv
<1> QED
  BY <1>1, WriterInvariance, PTL

\* Write loses and duplicates no byte, however the output is cut.
THEOREM NoByteLost == WriterSpec => []BytesAccounted
<1>1. WriterInv => BytesAccounted
  BY DEF WriterInv
<1> QED
  BY <1>1, WriterInvariance, PTL

\* emitLineLocked and rotateWindowIfNeededLocked report every suppressed line
\* once.
THEOREM SuppressionSummed == WriterSpec => []SuppressionReported
<1>1. WriterInv => SuppressionReported
  BY DEF WriterInv
<1> QED
  BY <1>1, WriterInvariance, PTL

\* However the windows of rotateWindowIfNeededLocked fall, no stretch of time
\* of their length sees more than twice the limit, and once more per restart.
THEOREM RateBounded == WriterSpec => []LogRateBounded
<1>1. WriterInv => LogRateBounded
  <2> SUFFICES ASSUME WriterInv, NEW t \in 0..now, now - t < Window
               PROVE  linesLogged - loggedBefore[t] <= 2 * MaxLines + MaxLines * restarts
    BY DEF LogRateBounded
  <2>1. WriterTypeOK /\ RateFor(window)
    BY DEF WriterInv, RateKept
  <2>2. /\ linesLogged \in Nat /\ loggedBefore[t] \in Nat /\ window.start \in Nat
        /\ window.emitted \in Nat /\ window.emitted <= MaxLines
        /\ MaxLines * restarts \in Nat
    BY <2>1, Limits DEF WriterTypeOK
  <2>3. linesLogged - loggedBefore[t] <= window.emitted + MaxLines + MaxLines * restarts
    BY <2>1, <2>2, Limits DEF RateFor
  <2> QED
    BY <2>2, <2>3, Limits
<1> QED
  BY <1>1, WriterInvariance, PTL
=============================================================================
