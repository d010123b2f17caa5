---------------------------- MODULE ConfigWatcher ----------------------------
(***************************************************************************)
(* How the agent follows its configuration file: the first load in main    *)
(* (cmd/agent/main.go), the directory watch with its debounce timer        *)
(* (pkg/watcher/watcher.go) and the load and outcome of the reload         *)
(* callback.  What a reload does to the engine, and that it commits as a   *)
(* whole or not at all, is EngineLifecycle's; here its outcome is one step *)
(* (Apply, ApplyFails).                                                    *)
(*                                                                         *)
(* A configuration is the number of the change that brought it.  File      *)
(* system events carry no content: the callback reads the file when it     *)
(* runs.  The kernel queues events and drops them when its queue is full,  *)
(* which fsnotify reports as an error.  All event kinds fsnotify has       *)
(* restart the timer, so an event is an event.                             *)
(***************************************************************************)
EXTENDS Naturals

CONSTANTS
  QueueCap,    \* events the kernel queues
  MaxChanges,  \* bound on the changes of the file
  MaxTouches   \* bound on the events that do not change the file

ASSUME WatcherAssumption ==
  /\ QueueCap \in Nat \ {0}
  /\ MaxChanges \in Nat /\ MaxTouches \in Nat

VARIABLES
  file,       \* the configuration in the file
  invalid,    \* the configurations that do not load or validate
  touches,    \* events so far that did not change the file
  queue, overflow,  \* events waiting for the watcher; some were dropped
  run,        \* ConfigWatcher.Run: where it stands
  timer,      \* debounceTimer: "off", "armed", or "fired" into debounceCh
  newConfig,  \* what was read last
  currentConfig,
  cancelled,  \* the agent's context
  gap,        \* history: the file changed between load and watch, not read since
  failed      \* history: the last reload failed

environment == <<file, invalid, touches, cancelled>>
reload == <<newConfig, currentConfig, failed>>
vars == <<environment, queue, overflow, run, timer, reload, gap>>

Version == 0..MaxChanges
-----------------------------------------------------------------------------
(* main has loaded a valid configuration; the watch is not set up yet. *)
Init ==
  /\ file = 0 /\ invalid \in SUBSET (1..MaxChanges) /\ touches = 0
  /\ queue = 0 /\ overflow = FALSE
  /\ run = "begin" /\ timer = "off"
  /\ newConfig = 0 /\ currentConfig = 0
  /\ cancelled = FALSE
  /\ gap = FALSE /\ failed = FALSE

Watching == run \in {"select", "load", "apply"}

\* an event in the directory: queued, or dropped, if anybody watches
Post ==
  /\ queue' = IF Watching /\ queue < QueueCap THEN queue + 1 ELSE queue
  /\ overflow' = (overflow \/ (Watching /\ queue = QueueCap))

(* The kubelet swaps the ..data link, or somebody writes the file ... *)
Change ==
  /\ file < MaxChanges
  /\ file' = file + 1
  /\ Post
  /\ gap' = (gap \/ run = "begin")
  /\ UNCHANGED <<invalid, touches, cancelled, run, timer, reload>>

(* ... and events before and after it do not change what is read. *)
Touch ==
  /\ touches < MaxTouches
  /\ touches' = touches + 1
  /\ Post
  /\ UNCHANGED <<file, invalid, cancelled, run, timer, reload, gap>>

Cancel ==
  /\ ~cancelled
  /\ cancelled' = TRUE
  /\ UNCHANGED <<file, invalid, touches, queue, overflow, run, timer, reload, gap>>
-----------------------------------------------------------------------------
(* Run sets up the watch, long after main has read the file ... *)
AddWatch ==
  /\ run = "begin"
  /\ run' = "select"
  /\ UNCHANGED <<environment, queue, overflow, timer, reload, gap>>

(* ... or returns an error. *)
AddWatchFails ==
  /\ run = "begin"
  /\ run' = "failed"
  /\ UNCHANGED <<environment, queue, overflow, timer, reload, gap>>

OnDoneTimer ==                \* mutant: the return is inside the test of the timer
  /\ run = "select" /\ cancelled /\ timer # "off"
  /\ run' = "done" /\ timer' = "off"
  /\ UNCHANGED <<environment, queue, overflow, reload, gap>>

(* The branches of the select.  Cancellation: *)
OnDone ==
  /\ run = "select" /\ cancelled
  /\ run' = "done" /\ timer' = "off"
  /\ UNCHANGED <<environment, queue, overflow, reload, gap>>

(* An event: the timer starts again.  One that had fired already is        *)
(* forgotten with its channel.                                             *)
OnEvent ==
  /\ run = "select" /\ queue > 0
  /\ queue' = queue - 1
  /\ timer' = "armed"
  /\ UNCHANGED <<environment, overflow, run, reload, gap>>

(* An error of fsnotify is only logged, a dropped event too. *)
OnError ==
  /\ run = "select" /\ overflow
  /\ overflow' = FALSE
  /\ UNCHANGED <<environment, queue, run, timer, reload, gap>>

Expire ==
  /\ timer = "armed"
  /\ timer' = "fired"
  /\ UNCHANGED <<environment, queue, overflow, run, reload, gap>>

(* The timer has fired: the callback is called. *)
OnTimer ==
  /\ run = "select" /\ timer = "fired"
  /\ timer' = "off"
  /\ run' = "load"
  /\ UNCHANGED <<environment, queue, overflow, reload, gap>>
-----------------------------------------------------------------------------
(* The reload callback, run by the watcher's goroutine. *)

LoadUnvalidated ==            \* mutant: the callback does not validate
  /\ run = "load"
  /\ newConfig' = file
  /\ gap' = FALSE
  /\ run' = "apply" /\ UNCHANGED failed
  /\ UNCHANGED <<environment, queue, overflow, timer, currentConfig>>

\* loadEngineConfig can parse it and validateEngineConfig accepts it
Validates(config) == config \notin invalid

(* loadEngineConfig and validateEngineConfig: what the file has now, the   *)
(* defaults (a configuration like any other) when there is no file.        *)
Load ==
  /\ run = "load"
  /\ newConfig' = file
  /\ gap' = FALSE
  /\ IF Validates(file) THEN run' = "apply" /\ UNCHANGED failed
                        ELSE run' = "select" /\ failed' = TRUE
  /\ UNCHANGED <<environment, queue, overflow, timer, currentConfig>>

ApplyDrains ==                \* mutant: events of the time of the reload are discarded
  /\ run = "apply"
  /\ currentConfig' = newConfig
  /\ failed' = FALSE
  /\ run' = "select"
  /\ queue' = 0
  /\ UNCHANGED <<environment, overflow, timer, newConfig, gap>>

ApplyForgets ==               \* mutant: currentConfig is not updated
  /\ run = "apply"
  /\ failed' = FALSE
  /\ run' = "select"
  /\ UNCHANGED <<environment, queue, overflow, timer, newConfig, currentConfig, gap>>

(* The engine takes the configuration ... *)
Apply ==
  /\ run = "apply"
  /\ currentConfig' = newConfig
  /\ failed' = FALSE
  /\ run' = "select"
  /\ UNCHANGED <<environment, queue, overflow, timer, newConfig, gap>>

(* ... or does not, and keeps the current one; nobody tries again. *)
ApplyFails ==
  /\ run = "apply"
  /\ failed' = TRUE
  /\ run' = "select"
  /\ UNCHANGED <<environment, queue, overflow, timer, newConfig, currentConfig, gap>>

Next ==
  \/ Change \/ Touch \/ Cancel
  \/ AddWatch \/ AddWatchFails
  \/ OnDone \/ OnEvent \/ OnError \/ Expire \/ OnTimer
  \/ Load \/ Apply \/ ApplyFails

Spec == Init /\ [][Next]_vars

(* The goroutine runs, a reload ends (EngineLifecycle), a timer fires, and *)
(* a select does not ignore a ready case for ever.  Changes, cancellation  *)
(* and the success of a reload are not promised.                           *)
Fairness ==
  /\ WF_vars(AddWatch \/ AddWatchFails)
  /\ SF_vars(OnDone) /\ SF_vars(OnEvent) /\ SF_vars(OnError) /\ SF_vars(OnTimer)
  /\ WF_vars(Expire)
  /\ WF_vars(Load) /\ WF_vars(Apply \/ ApplyFails)

FairSpec == Spec /\ Fairness
-----------------------------------------------------------------------------
\* Types; what the agent works with is a configuration that validates.
TypeOK ==
  /\ file \in Version /\ invalid \subseteq Version /\ touches \in Nat
  /\ queue \in 0..QueueCap /\ overflow \in BOOLEAN
  /\ run \in {"begin", "select", "load", "apply", "done", "failed"}
  /\ timer \in {"off", "armed", "fired"}
  /\ newConfig \in Version
  /\ currentConfig \in Version \ invalid
  /\ cancelled \in BOOLEAN /\ gap \in BOOLEAN /\ failed \in BOOLEAN

\* No change goes unnoticed once the watch is set up: while the file differs
\* from what was read last, an event is waiting or the timer is running,
\* although events carry no content, arrive during a reload, and are dropped
\* when the queue is full.  The exception is a change that fell between the
\* first load and the watch.
ChangeNoticed ==
  run \in {"select", "apply"} /\ newConfig # file =>
     queue > 0 \/ timer # "off" \/ gap

\* When changes stop the agent ends up with the configuration in the file,
\* unless exactly this configuration was refused, the watch has ended, or
\* the file changed before it began.
Converges ==
  <>[](\/ currentConfig = file
       \/ failed /\ newConfig = file
       \/ gap
       \/ run \in {"done", "failed"})

\* Cancellation ends the watcher, whether a reload is under way, the timer
\* is running, or events keep waiting.
WatcherStops == cancelled ~> run \in {"done", "failed"}
=============================================================================
