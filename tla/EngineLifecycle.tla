--------------------------- MODULE EngineLifecycle ---------------------------
(***************************************************************************)
(* The engine subprocess and the three goroutines that operate it:         *)
(* superviseEngine restarts an engine that does not answer, the watcher's  *)
(* callback reloads it with a new configuration and rolls back, and main   *)
(* stops it at shutdown (cmd/agent/main.go).  Each operation holds the     *)
(* lock of synchronizedEngine; between two operations of one goroutine     *)
(* the others may run theirs, and the process may die at any time.  The    *)
(* adapters of pkg/engine share their code but for Reload: those of        *)
(* unbound, bind and powerdns run the engine's control program; CoreDNS    *)
(* watches its file and re-reads it by itself, later.                      *)
(*                                                                         *)
(* A process is a slot; the operating system frees it when it is waited    *)
(* for.  SIGTERM to the agent's own child is assumed to be delivered.      *)
(***************************************************************************)
EXTENDS Naturals, FiniteSets

CONSTANTS
  Config,   \* engine configurations that load and validate
  Proc,     \* process slots
  None,     \* no process
  Torn      \* what a failed write may leave in the configuration file

ASSUME EngineAssumption ==
  /\ Config # {} /\ Proc # {}
  /\ None \notin Proc
  /\ Torn \notin Config

VARIABLES
  adapter,    \* how the engine learns of a new file: "control" or "watch"
  lock,       \* synchronizedEngine.mu: its holder, or "free"
  cmd,        \* e.cmd
  victim,     \* the process a Stop is waiting for
  proc,       \* state of each process
  runs,       \* the configuration the engine started last has read
  disk,       \* the rendered configuration file
  current,    \* currentConfig of main; health targets and filter follow it
  next,       \* newConfig of the reload under way
  sup, expired, \* the supervisor; its restart context has run out
  rel,        \* the reload callback
  main,       \* the main goroutine
  cancelled,  \* the agent's context
  suspect     \* history: a rollback failed and nothing has repaired it

goroutines == <<sup, expired, rel, main, next>>
configs == <<disk, current, suspect>>
processes == <<adapter, cmd, victim, proc, runs>>
vars == <<lock, cancelled, goroutines, configs, processes>>

\* the slot a new process gets; which of them does not matter
FreeSlot(procs) == CHOOSE p \in Proc : procs[p] = "free"

Up == cmd # None /\ proc[cmd] = "up"
Live == {p \in Proc : proc[p] \in {"up", "hung"}}
-----------------------------------------------------------------------------
(* main has configured and started the engine and launched the goroutines. *)
Init ==
  /\ adapter \in {"control", "watch"}
  /\ lock = "free" /\ cancelled = FALSE
  /\ current \in Config /\ disk = current /\ next = current
  /\ cmd = FreeSlot([p \in Proc |-> "free"]) /\ victim = None
  /\ proc = [p \in Proc |-> IF p = cmd THEN "up" ELSE "free"]
  /\ runs = current
  /\ sup = "idle" /\ expired = FALSE /\ rel = "idle" /\ main = "run"
  /\ suspect = FALSE
-----------------------------------------------------------------------------
(* Stop of the adapter: e.cmd is cleared, SIGTERM sent, and the process    *)
(* waited for with the lock held.                                          *)
StopBegin(who) ==
  /\ lock = "free"
  /\ lock' = who
  /\ victim' = cmd
  /\ cmd' = None
  /\ UNCHANGED <<adapter, proc, runs>>

StopNothing ==
  /\ lock = "free"
  /\ cmd = None
  /\ UNCHANGED <<lock, processes>>

ReapAbandons ==               \* mutant: on a timeout the process is not killed
  /\ lock' = "free"
  /\ victim' = None
  /\ proc' = [proc EXCEPT ![victim] = IF @ = "hung" THEN "hung" ELSE "free"]
  /\ UNCHANGED <<adapter, cmd, runs>>

\* waitForExit: the process has exited by itself or was killed
Reap ==
  /\ lock' = "free"
  /\ victim' = None
  /\ proc' = [proc EXCEPT ![victim] = "free"]
  /\ UNCHANGED <<adapter, cmd, runs>>
-----------------------------------------------------------------------------
(* superviseEngine *)

SupNoticesStale ==            \* mutant: one restart context for all attempts
  /\ sup = "idle" /\ ~Up
  /\ sup' = "stop" /\ UNCHANGED expired
  /\ UNCHANGED <<lock, cancelled, rel, main, next, configs, processes>>

(* The probe of a tick fails: the engine does not answer. *)
SupNotices ==
  /\ sup = "idle" /\ ~Up
  /\ sup' = "stop" /\ expired' = FALSE
  /\ UNCHANGED <<lock, cancelled, rel, main, next, configs, processes>>

(* The probe of a healthy engine fails: it is slow, or the context ended. *)
SupMisjudges ==
  /\ sup = "idle" /\ Up
  /\ sup' = "stop" /\ expired' = FALSE
  /\ UNCHANGED <<lock, cancelled, rel, main, next, configs, processes>>

SupStop ==
  /\ sup = "stop"
  /\ \/ StopNothing /\ sup' = "start"
     \/ cmd # None /\ StopBegin("sup") /\ sup' = "stopping"
  /\ UNCHANGED <<expired, cancelled, rel, main, next, configs>>

(* The wait uses the restart context: after a timeout nothing of it is     *)
(* left for Start.                                                         *)
SupStopped ==
  /\ sup = "stopping"
  /\ Reap
  /\ sup' = "start"
  /\ \/ proc[victim] # "hung" /\ UNCHANGED expired
     \/ expired' = TRUE
  /\ UNCHANGED <<cancelled, rel, main, next, configs>>

SupStartUnchecked ==          \* mutant: Start does not look at its context
  /\ sup = "start" /\ lock = "free"
  /\ IF cmd # None THEN sup' = "idle" /\ UNCHANGED lock
                   ELSE sup' = "spawn" /\ lock' = "sup"
  /\ UNCHANGED <<expired, cancelled, rel, main, next, configs, processes>>

(* Start: refused when a process is known or the context is over. *)
SupStart ==
  /\ sup = "start" /\ lock = "free"
  /\ IF cmd # None \/ expired \/ cancelled
     THEN sup' = "idle" /\ UNCHANGED lock
     ELSE sup' = "spawn" /\ lock' = "sup"
  /\ UNCHANGED <<expired, cancelled, rel, main, next, configs, processes>>

(* The new process reads the file; from a torn one it exits at once. *)
SupSpawn ==
  /\ sup = "spawn"
  /\ \E p \in Proc : proc[p] = "free"
  /\ cmd' = FreeSlot(proc)
  /\ proc' = [proc EXCEPT ![cmd'] = IF disk = Torn THEN "dead" ELSE "up"]
  /\ runs' = disk
  /\ suspect' = IF rel = "idle" /\ disk = current THEN FALSE ELSE suspect
  /\ lock' = "free" /\ sup' = "idle"
  /\ UNCHANGED <<adapter, victim, expired, cancelled, rel, main, next, disk, current>>

SupSpawnFailsLocked ==        \* mutant: the error path keeps the lock
  /\ sup = "spawn"
  /\ sup' = "idle"
  /\ UNCHANGED <<lock, expired, cancelled, rel, main, next, configs, processes>>

SupSpawnFails ==
  /\ sup = "spawn"
  /\ lock' = "free" /\ sup' = "idle"
  /\ UNCHANGED <<expired, cancelled, rel, main, next, configs, processes>>

SupReturns ==
  /\ sup = "idle" /\ cancelled
  /\ sup' = "done"
  /\ UNCHANGED <<lock, expired, cancelled, rel, main, next, configs, processes>>
-----------------------------------------------------------------------------
(* The reload callback.  A file that does not load or validate is refused  *)
(* before anything is touched, so a reload starts with a valid one.        *)
RelBegin(c) ==
  /\ rel = "idle"
  /\ rel' = "configure" /\ next' = c
  /\ UNCHANGED <<lock, cancelled, sup, expired, main, configs, processes>>

RelConfigureAdopts ==         \* mutant: the configuration is adopted before the engine has it
  /\ rel = "configure" /\ lock = "free" /\ ~cancelled
  /\ disk' = next /\ current' = next
  /\ rel' = "reload"
  /\ UNCHANGED <<lock, cancelled, sup, expired, main, next, suspect, processes>>

RelConfigureUnnoticed ==      \* mutant: the error of the write is not looked at
  /\ rel = "configure" /\ lock = "free" /\ ~cancelled
  /\ disk' \in {disk, next}
  /\ rel' = "reload"
  /\ UNCHANGED <<lock, cancelled, sup, expired, main, next, current, suspect, processes>>

RelConfigure ==
  /\ rel = "configure" /\ lock = "free" /\ ~cancelled
  /\ disk' = next
  /\ rel' = "reload"
  /\ UNCHANGED <<lock, cancelled, sup, expired, main, next, current, suspect, processes>>

\* Configure fails: rendering leaves the file alone, writing may not
WriteFails == disk' \in {disk, Torn}

RelConfigureFails ==
  /\ rel = "configure" /\ lock = "free"
  /\ IF cancelled THEN rel' = "idle" /\ UNCHANGED disk
                  ELSE rel' = "rbConfigure" /\ WriteFails
  /\ UNCHANGED <<lock, cancelled, sup, expired, main, next, current, suspect, processes>>

(* Reload runs the engine's control program with the lock held ... *)
RelReload ==
  /\ rel \in {"reload", "rbReload"} /\ lock = "free"
  /\ lock' = "rel"
  /\ rel' = IF rel = "reload" THEN "reloading" ELSE "rbReloading"
  /\ UNCHANGED <<cancelled, sup, expired, main, next, configs, processes>>

Reread == runs' = disk

(* ... which succeeds on an engine that is up ... *)
RelReloaded ==
  /\ rel = "reloading" /\ adapter = "control" /\ Up
  /\ Reread
  /\ lock' = "free"
  /\ rel' = "publish"
  /\ UNCHANGED <<cancelled, sup, expired, main, next, configs, adapter, cmd, victim, proc>>

RelReloadFailsKept ==         \* mutant: a failed reload is not rolled back
  /\ rel = "reloading" /\ adapter = "control"
  /\ UNCHANGED runs
  /\ lock' = "free"
  /\ rel' = "idle"
  /\ suspect' = (suspect \/ cancelled)
  /\ UNCHANGED <<cancelled, sup, expired, main, next, disk, current, adapter, cmd, victim, proc>>

(* ... or fails, when the engine may have read the file or not.  A         *)
(* cancelled reload is not rolled back.                                    *)
RelReloadFails ==
  /\ rel = "reloading" /\ adapter = "control"
  /\ UNCHANGED runs \/ (Up /\ Reread)
  /\ lock' = "free"
  /\ rel' = IF cancelled THEN "idle" ELSE "rbConfigure"
  /\ suspect' = (suspect \/ cancelled)
  /\ UNCHANGED <<cancelled, sup, expired, main, next, disk, current, adapter, cmd, victim, proc>>

(* CoreDNS's Reload does nothing and succeeds, also when the engine is     *)
(* down or the context over ...                                            *)
RelReloadNoop ==
  /\ adapter = "watch"
  /\ \/ rel = "reloading" /\ rel' = "publish" /\ UNCHANGED suspect
     \/ rel = "rbReloading" /\ rel' = "idle" /\ suspect' = FALSE
  /\ lock' = "free"
  /\ UNCHANGED <<cancelled, sup, expired, main, next, disk, current, processes>>

(* ... and the process follows its file some time after a change; one that *)
(* it cannot read leaves it as it is.                                      *)
AutoReload ==
  /\ adapter = "watch" /\ Up /\ disk \notin {Torn, runs}
  /\ Reread
  /\ UNCHANGED <<lock, cancelled, goroutines, configs, adapter, cmd, victim, proc>>

(* Health checker, filter and fallback list get the new configuration, and *)
(* it becomes the one to roll back to.                                     *)
RelPublish ==
  /\ rel = "publish"
  /\ current' = next
  /\ suspect' = FALSE
  /\ rel' = "idle"
  /\ UNCHANGED <<lock, cancelled, sup, expired, main, next, disk, processes>>

(* Rollback: Configure and Reload again, with the current configuration. *)
RbConfigure ==
  /\ rel = "rbConfigure" /\ lock = "free" /\ ~cancelled
  /\ disk' = current
  /\ rel' = "rbReload"
  /\ UNCHANGED <<lock, cancelled, sup, expired, main, next, current, suspect, processes>>

RbConfigureFails ==
  /\ rel = "rbConfigure" /\ lock = "free"
  /\ IF cancelled THEN UNCHANGED disk ELSE WriteFails
  /\ rel' = "idle" /\ suspect' = TRUE
  /\ UNCHANGED <<lock, cancelled, sup, expired, main, next, current, processes>>

RbReloaded ==
  /\ rel = "rbReloading" /\ adapter = "control" /\ Up
  /\ Reread
  /\ lock' = "free"
  /\ rel' = "idle" /\ suspect' = FALSE
  /\ UNCHANGED <<cancelled, sup, expired, main, next, disk, current, adapter, cmd, victim, proc>>

RbReloadFails ==
  /\ rel = "rbReloading" /\ adapter = "control"
  /\ UNCHANGED runs \/ (Up /\ Reread)
  /\ lock' = "free"
  /\ rel' = "idle" /\ suspect' = TRUE
  /\ UNCHANGED <<cancelled, sup, expired, main, next, disk, current, adapter, cmd, victim, proc>>

(* The watcher returns on cancellation. *)
RelReturns ==
  /\ rel = "idle" /\ cancelled
  /\ rel' = "done"
  /\ UNCHANGED <<lock, cancelled, sup, expired, main, next, configs, processes>>
-----------------------------------------------------------------------------
(* Shutdown: cancellation, eng.Stop, then the join of all components. *)
Cancel ==
  /\ ~cancelled
  /\ cancelled' = TRUE
  /\ UNCHANGED <<lock, goroutines, configs, processes>>

MainStop ==
  /\ main = "run" /\ cancelled
  /\ \/ StopNothing /\ main' = "join"
     \/ cmd # None /\ StopBegin("main") /\ main' = "stopping"
  /\ UNCHANGED <<cancelled, sup, expired, rel, next, configs>>

MainStopped ==
  /\ main = "stopping"
  /\ Reap
  /\ main' = "join"
  /\ UNCHANGED <<cancelled, sup, expired, rel, next, configs>>

MainExits ==
  /\ main = "join" /\ sup = "done" /\ rel = "done"
  /\ main' = "exit"
  /\ UNCHANGED <<lock, cancelled, sup, expired, rel, next, configs, processes>>

(* HealthStatus, called by /healthz, probes the engine with the lock held. *)
HealthStatus ==
  /\ main \in {"run", "stopping"}
  /\ \/ lock = "free" /\ lock' = "health"
     \/ lock = "health" /\ lock' = "free"
  /\ UNCHANGED <<cancelled, goroutines, configs, processes>>
-----------------------------------------------------------------------------
(* Environment: a process dies, or stops answering. *)
Crash(p) ==
  /\ proc[p] \in {"up", "hung"}
  /\ proc' = [proc EXCEPT ![p] = "dead"]
  /\ UNCHANGED <<lock, cancelled, goroutines, configs, adapter, cmd, victim, runs>>

Hang(p) ==
  /\ proc[p] = "up"
  /\ proc' = [proc EXCEPT ![p] = "hung"]
  /\ UNCHANGED <<lock, cancelled, goroutines, configs, adapter, cmd, victim, runs>>

SupSteps == SupStop \/ SupStopped \/ SupStart \/ SupSpawn \/ SupSpawnFails \/ SupReturns
RelSteps == \/ RelConfigure \/ RelConfigureFails \/ RelReload
            \/ RelReloaded \/ RelReloadFails \/ RelPublish
            \/ RbConfigure \/ RbConfigureFails \/ RbReloaded \/ RbReloadFails
            \/ RelReloadNoop \/ RelReturns
MainSteps == MainStop \/ MainStopped \/ MainExits

Next ==
  \/ SupNotices \/ SupMisjudges \/ SupSteps
  \/ \E c \in Config : RelBegin(c)
  \/ RelSteps \/ AutoReload
  \/ MainSteps
  \/ Cancel
  \/ HealthStatus
  \/ \E p \in Proc : Crash(p) \/ Hang(p)

Spec == Init /\ [][Next]_vars

(* The supervisor ticks; a goroutine that waits for the lock gets it (Go's *)
(* mutex does not starve a waiter); probes, waits and the control program  *)
(* end; exec does not fail for ever; a select that finds the cancelled     *)
(* context ready again and again takes it in the end; CoreDNS looks at its *)
(* file again and again.                                                   *)
Fairness ==
  /\ WF_vars(SupNotices) /\ SF_vars(SupSteps)
  /\ SF_vars(SupSpawn) /\ SF_vars(SupReturns)
  /\ SF_vars(RelSteps) /\ SF_vars(RelReturns)
  /\ SF_vars(MainSteps)
  /\ WF_vars(lock = "health" /\ HealthStatus)
  /\ WF_vars(AutoReload)

FairSpec == Spec /\ Fairness
-----------------------------------------------------------------------------
\* Types of the shared engine state and of the goroutines.
TypeOK ==
  /\ adapter \in {"control", "watch"}
  /\ lock \in {"free", "sup", "rel", "main", "health"}
  /\ cancelled \in BOOLEAN
  /\ cmd \in Proc \cup {None} /\ victim \in Proc \cup {None}
  /\ proc \in [Proc -> {"free", "up", "hung", "dead"}]
  /\ runs \in Config \cup {Torn}
  /\ disk \in Config \cup {Torn}
  /\ current \in Config /\ next \in Config
  /\ sup \in {"idle", "stop", "stopping", "start", "spawn", "done"}
  /\ expired \in BOOLEAN
  /\ rel \in {"idle", "configure", "reload", "reloading", "publish", "rbConfigure",
              "rbReload", "rbReloading", "done"}
  /\ main \in {"run", "stopping", "join", "exit"}
  /\ suspect \in BOOLEAN

\* The lock is held exactly by the goroutine whose operation is under way.
LockHeld ==
  /\ lock = "sup" <=> sup \in {"stopping", "spawn"}
  /\ lock = "rel" <=> rel \in {"reloading", "rbReloading"}
  /\ lock = "main" <=> main = "stopping"

\* At most one engine runs, and it is the one the adapter knows or the one
\* a Stop is waiting for: restart, reload and shutdown never lose a process
\* or start a second one beside it.
OneEngine ==
  /\ cmd = None \/ victim = None
  /\ \A p \in Proc : proc[p] # "free" <=> p \in {cmd, victim}

\* Once main's Stop has returned no engine runs and none is started again,
\* although the supervisor may be in the middle of a restart.
NoEngineAfterStop == main \in {"join", "exit"} => Live = {}

\* When no reload is under way and no rollback has failed since, file,
\* agent, proxy and running engine all have the same configuration, however
\* restarts fell between the Configure and the Reload of a reload.
ConfigAgreement ==
  rel = "idle" /\ ~cancelled /\ ~suspect =>
    /\ disk = current
    /\ adapter = "control" /\ cmd # None /\ proc[cmd] # "dead" => runs = current

\* An engine that died or hangs is replaced by one that runs, unless the
\* agent is stopping or the configuration file is torn.
EngineRecovers == ~Up ~> (Up \/ cancelled \/ disk = Torn)

\* The reload callback implements ReloadTransaction, whatever engine and
\* supervisor do: a configuration becomes current only after it was proposed
\* and taken by the engine, the engine runs no third one, a failed reload is
\* undone unless its rollback fails too, and every reload comes to an end.
Transaction ==
  INSTANCE ReloadTransaction WITH
    Unknown  <- None,
    phase    <- CASE rel = "idle" -> "idle" [] rel = "done" -> "ended" [] OTHER -> "busy",
    proposed <- IF rel \in {"idle", "done"} THEN current ELSE next,
    serving  <- IF adapter = "control" /\ cmd # None /\ proc[cmd] \in {"up", "hung"}
                THEN runs ELSE None,
    clean    <- ~suspect

ReloadIsTransaction == Transaction!Spec

\* Once reloads have ceased and left no failed rollback behind, an engine that
\* is up has read the current configuration, one that follows its file by
\* itself too, although nobody tells it and restarts fall in between.
EngineCatchesUp ==
  <>[](rel \in {"idle", "done"} /\ ~suspect) => <>[](Up => runs = current)

\* After cancellation main gets the lock, stops the engine and ends.
ShutdownCompletes == cancelled ~> main = "exit"
=============================================================================
