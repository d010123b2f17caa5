-------------------------- MODULE ReloadTransaction --------------------------
(***************************************************************************)
(* What a configuration reload promises to the rest of the agent, whatever *)
(* the engine process, its supervisor and the shutdown do meanwhile: it is *)
(* a transaction.  A proposed configuration is committed as a whole or not *)
(* at all, every proposal is decided, and the engine is never known to     *)
(* serve anything but the current configuration or, while the decision is  *)
(* open, the proposed one.  A rollback may fail; then nothing is promised  *)
(* about the engine until a later reload or restart has repaired it.       *)
(*                                                                         *)
(* EngineLifecycle implements this with the reload callback of main.go.    *)
(***************************************************************************)
CONSTANTS
  Config,   \* configurations
  Unknown   \* no engine runs, or nobody can tell what it has read

VARIABLES
  phase,    \* "idle", "busy" with a reload, "ended"
  current, proposed,
  serving,  \* the configuration the engine is known to serve
  clean     \* no rollback has failed and gone unrepaired

vars == <<phase, current, proposed, serving, clean>>

\* what the engine may be known to serve
Permitted == IF clean THEN {current, proposed, Unknown} ELSE Config \cup {Unknown}

Init ==
  /\ phase = "idle" /\ current \in Config /\ proposed = current
  /\ serving \in {current, Unknown} /\ clean = TRUE

(* The engine dies, is restarted, reads its file; a restart may repair it. *)
EngineStep ==
  /\ serving' \in Permitted
  /\ \/ UNCHANGED clean
     \/ phase = "idle" /\ serving' \in {current, Unknown} /\ clean' = TRUE
  /\ UNCHANGED <<phase, current, proposed>>

Begin(c) ==
  /\ phase = "idle"
  /\ phase' = "busy" /\ proposed' = c
  /\ UNCHANGED <<current, serving, clean>>

Commit ==
  /\ phase = "busy"
  /\ phase' = "idle" /\ current' = proposed
  /\ serving' \in {proposed, Unknown} /\ clean' = TRUE
  /\ UNCHANGED proposed

(* The proposal is given up and rolled back, or the rollback fails. *)
Abort ==
  /\ phase = "busy"
  /\ phase' = "idle" /\ proposed' = current
  /\ \/ clean' = TRUE /\ serving' \in {current, Unknown}
     \/ clean' = FALSE /\ serving' \in Config \cup {Unknown}
  /\ UNCHANGED current

End ==
  /\ phase = "idle"
  /\ phase' = "ended"
  /\ UNCHANGED <<current, proposed, serving, clean>>

Next == EngineStep \/ (\E c \in Config : Begin(c)) \/ Commit \/ Abort \/ End

\* what may happen
Safety == Init /\ [][Next]_vars

\* every proposal is decided
Decided == phase = "busy" ~> phase # "busy"

Spec == Safety /\ Decided
=============================================================================
