------------------------------ MODULE OwnedPool ------------------------------
(***************************************************************************)
(* What a pool promises about the resources it lends.  A live resource is  *)
(* idle in the pool or lent to one client, and moves only in four ways: a  *)
(* client takes an idle one or makes a new one, and gives it back or       *)
(* destroys it.  Only its client ever destroys a lent resource.  Closing   *)
(* the pool destroys what is idle; after that nothing comes back, and when *)
(* the clients are through nothing is left.                                *)
(*                                                                         *)
(* ConnPool implements this with engineConnPool; slices, networks, limits  *)
(* and the exchange itself are hidden.                                     *)
(***************************************************************************)
CONSTANTS
  Client,
  Resource,
  None      \* no resource

VARIABLES
  closed,
  live,     \* resources made and not destroyed
  idle,     \* those in the pool
  lent      \* the one each client has, or None

vars == <<closed, live, idle, lent>>

Init == closed = FALSE /\ live = {} /\ idle = {} /\ lent = [c \in Client |-> None]

(* A client has one resource at a time. *)
Take(c, r) ==
  /\ ~closed /\ r \in idle /\ lent[c] = None
  /\ idle' = idle \ {r}
  /\ lent' = [lent EXCEPT ![c] = r]
  /\ UNCHANGED <<closed, live>>

(* The pool may have been closed since the client asked it in vain. *)
Make(c, r) ==
  /\ r \notin live /\ lent[c] = None
  /\ live' = live \cup {r}
  /\ lent' = [lent EXCEPT ![c] = r]
  /\ UNCHANGED <<closed, idle>>

GiveBack(c) ==
  /\ ~closed /\ lent[c] # None
  /\ idle' = idle \cup {lent[c]}
  /\ lent' = [lent EXCEPT ![c] = None]
  /\ UNCHANGED <<closed, live>>

Destroy(c) ==
  /\ lent[c] # None
  /\ live' = live \ {lent[c]}
  /\ lent' = [lent EXCEPT ![c] = None]
  /\ UNCHANGED <<closed, idle>>

CloseAll ==
  /\ closed' = TRUE
  /\ live' = live \ idle
  /\ idle' = {}
  /\ UNCHANGED lent

Next ==
  \/ \E c \in Client :
       \/ \E r \in Resource : Take(c, r) \/ Make(c, r)
       \/ GiveBack(c)
       \/ Destroy(c)
  \/ CloseAll

\* what may happen
Safety == Init /\ [][Next]_vars

\* a closed pool is empty in the end, for good
Drains == closed ~> [](live = {})

Spec == Safety /\ Drains
=============================================================================
