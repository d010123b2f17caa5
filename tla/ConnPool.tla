------------------------------- MODULE ConnPool -------------------------------
(***************************************************************************)
(* The pool of connections to the engine, pkg/proxy/connpool.go, shared by *)
(* the query handlers.  The lock covers only borrow's and release's look   *)
(* at the slices; dialling, the exchange and the closing of a failed       *)
(* connection happen outside it, so Close may fall between any of them.    *)
(*                                                                         *)
(* An answer carries nothing the pool could check: the DNS id is the one   *)
(* the client chose, and two clients may choose the same.  So Receive      *)
(* takes whatever answer arrives on the connection, and only the pool's    *)
(* discipline can make it the right one.  A query is named by the handler  *)
(* that serves it.                                                         *)
(***************************************************************************)
EXTENDS Naturals, Sequences, FiniteSets

CONSTANTS
  Handler,        \* goroutines that serve a query each
  Conn,           \* connection identities; a closed one may be dialled again
  MaxPerNetwork,  \* maxPerNetwork
  NoConn          \* no connection

ASSUME PoolAssumption ==
  /\ MaxPerNetwork \in Nat \ {0}
  /\ NoConn \notin Conn

VARIABLES
  closed,    \* closed
  conns,     \* conns: network -> slice of idle connections
  state,     \* "free" (never dialled or closed), "open", "broken" (peer is gone)
  netOf,     \* the network a connection was dialled for
  pending,   \* queries sent on a connection whose answer nobody has read
  pc,        \* where each handler stands in Exchange
  network,   \* the network its query came in on
  held,      \* the connection it holds
  got        \* its result: "none", "error", or the query the answer answers

vars == <<closed, conns, state, netOf, pending, pc, network, held, got>>

Net == {"udp", "tcp"}
PC == {"idle", "dial", "send", "wait", "release"}

Idle(n) == {conns[n][i] : i \in 1..Len(conns[n])}
-----------------------------------------------------------------------------
(* newEngineConnPool: no connection yet. *)
Init ==
  /\ closed = FALSE
  /\ conns = [n \in Net |-> <<>>]
  /\ state = [c \in Conn |-> "free"]
  /\ netOf = [c \in Conn |-> "udp"]
  /\ pending = [c \in Conn |-> {}]
  /\ pc = [h \in Handler |-> "idle"]
  /\ network = [h \in Handler |-> "udp"]
  /\ held = [h \in Handler |-> NoConn]
  /\ got = [h \in Handler |-> "none"]

(* borrow finds the pool closed and Exchange returns its error. *)
BorrowClosed(h) ==
  /\ pc[h] = "idle"
  /\ closed
  /\ got' = [got EXCEPT ![h] = "error"]
  /\ UNCHANGED <<closed, conns, state, netOf, pending, pc, network, held>>

BorrowFirst(h, n) ==          \* mutant: the popped element stays in the slice
  /\ pc[h] = "idle"
  /\ ~closed
  /\ conns[n] # <<>>
  /\ held' = [held EXCEPT ![h] = conns[n][Len(conns[n])]]
  /\ network' = [network EXCEPT ![h] = n]
  /\ got' = [got EXCEPT ![h] = "none"]
  /\ pc' = [pc EXCEPT ![h] = "send"]
  /\ UNCHANGED <<closed, conns, state, netOf, pending>>

(* borrow pops the connection released last ... *)
BorrowPooled(h, n) ==
  /\ pc[h] = "idle"
  /\ ~closed
  /\ conns[n] # <<>>
  /\ held' = [held EXCEPT ![h] = conns[n][Len(conns[n])]]
  /\ conns' = [conns EXCEPT ![n] = SubSeq(@, 1, Len(@) - 1)]
  /\ network' = [network EXCEPT ![h] = n]
  /\ got' = [got EXCEPT ![h] = "none"]
  /\ pc' = [pc EXCEPT ![h] = "send"]
  /\ UNCHANGED <<closed, state, netOf, pending>>

(* ... or leaves the lock to dial. *)
BorrowEmpty(h, n) ==
  /\ pc[h] = "idle"
  /\ ~closed
  /\ conns[n] = <<>>
  /\ network' = [network EXCEPT ![h] = n]
  /\ got' = [got EXCEPT ![h] = "none"]
  /\ pc' = [pc EXCEPT ![h] = "dial"]
  /\ UNCHANGED <<closed, conns, state, netOf, pending, held>>

(* dial does not look at closed again. *)
Dial(h, c) ==
  /\ pc[h] = "dial"
  /\ state[c] = "free"
  /\ state' = [state EXCEPT ![c] = "open"]
  /\ netOf' = [netOf EXCEPT ![c] = network[h]]
  /\ held' = [held EXCEPT ![h] = c]
  /\ pc' = [pc EXCEPT ![h] = "send"]
  /\ UNCHANGED <<closed, conns, pending, network, got>>

DialFails(h) ==
  /\ pc[h] = "dial"
  /\ got' = [got EXCEPT ![h] = "error"]
  /\ pc' = [pc EXCEPT ![h] = "idle"]
  /\ UNCHANGED <<closed, conns, state, netOf, pending, network, held>>

(* ExchangeWithConnContext writes the query ... *)
Send(h) ==
  /\ pc[h] = "send"
  /\ state[held[h]] = "open"
  /\ pending' = [pending EXCEPT ![held[h]] = @ \cup {h}]
  /\ pc' = [pc EXCEPT ![h] = "wait"]
  /\ UNCHANGED <<closed, conns, state, netOf, network, held, got>>

(* ... and reads an answer that the engine sent on this connection. *)
Receive(h) ==
  /\ pc[h] = "wait"
  /\ state[held[h]] = "open"
  /\ \E q \in pending[held[h]] :
       /\ got' = [got EXCEPT ![h] = q]
       /\ pending' = [pending EXCEPT ![held[h]] = @ \ {q}]
  /\ pc' = [pc EXCEPT ![h] = "release"]
  /\ UNCHANGED <<closed, conns, state, netOf, network, held>>

\* conn.Close(): what was sent on the connection is never answered
CloseConns(C) ==
  /\ state' = [c \in Conn |-> IF c \in C THEN "free" ELSE state[c]]
  /\ pending' = [c \in Conn |-> IF c \in C THEN {} ELSE pending[c]]

ExchangeFailsReuse(h) ==      \* mutant: the failed connection goes back to the pool
  /\ pc[h] \in {"send", "wait"}
  /\ got' = [got EXCEPT ![h] = "error"]
  /\ pc' = [pc EXCEPT ![h] = "release"]
  /\ UNCHANGED <<closed, conns, state, netOf, pending, network, held>>

(* The exchange fails: the connection is broken or the deadline passes.    *)
(* The answer may still come, so the connection is closed, not released.   *)
ExchangeFails(h) ==
  /\ pc[h] \in {"send", "wait"}
  /\ CloseConns({held[h]})
  /\ got' = [got EXCEPT ![h] = "error"]
  /\ held' = [held EXCEPT ![h] = NoConn]
  /\ pc' = [pc EXCEPT ![h] = "idle"]
  /\ UNCHANGED <<closed, conns, netOf, network>>

ReleaseOverfull(h) ==         \* mutant: > for >= at the limit
  /\ pc[h] = "release"
  /\ IF closed \/ Len(conns[network[h]]) > MaxPerNetwork
     THEN CloseConns({held[h]}) /\ UNCHANGED conns
     ELSE /\ conns' = [conns EXCEPT ![network[h]] = Append(@, held[h])]
          /\ UNCHANGED <<state, pending>>
  /\ held' = [held EXCEPT ![h] = NoConn]
  /\ pc' = [pc EXCEPT ![h] = "idle"]
  /\ UNCHANGED <<closed, netOf, network, got>>

ReleaseAfterClose(h) ==       \* mutant: release does not look at closed
  /\ pc[h] = "release"
  /\ IF Len(conns[network[h]]) >= MaxPerNetwork
     THEN CloseConns({held[h]}) /\ UNCHANGED conns
     ELSE /\ conns' = [conns EXCEPT ![network[h]] = Append(@, held[h])]
          /\ UNCHANGED <<state, pending>>
  /\ held' = [held EXCEPT ![h] = NoConn]
  /\ pc' = [pc EXCEPT ![h] = "idle"]
  /\ UNCHANGED <<closed, netOf, network, got>>

(* release: back to the slice, unless the pool is closed or full. *)
Release(h) ==
  /\ pc[h] = "release"
  /\ IF closed \/ Len(conns[network[h]]) >= MaxPerNetwork
     THEN CloseConns({held[h]}) /\ UNCHANGED conns
     ELSE /\ conns' = [conns EXCEPT ![network[h]] = Append(@, held[h])]
          /\ UNCHANGED <<state, pending>>
  /\ held' = [held EXCEPT ![h] = NoConn]
  /\ pc' = [pc EXCEPT ![h] = "idle"]
  /\ UNCHANGED <<closed, netOf, network, got>>

CloseForgets ==               \* mutant: the slices are emptied, nothing is closed
  /\ closed' = TRUE
  /\ conns' = [n \in Net |-> <<>>]
  /\ UNCHANGED <<state, pending, netOf, pc, network, held, got>>

(* Close: under the lock, the idle connections are closed and forgotten. *)
Close ==
  /\ closed' = TRUE
  /\ CloseConns(Idle("udp") \cup Idle("tcp"))
  /\ conns' = [n \in Net |-> <<>>]
  /\ UNCHANGED <<netOf, pc, network, held, got>>

(* Environment: the engine restarts.  TCP peers are gone, and the answers  *)
(* it owed on UDP never come.                                              *)
EngineRestart ==
  /\ state' = [c \in Conn |-> IF state[c] = "open" /\ netOf[c] = "tcp"
                              THEN "broken" ELSE state[c]]
  /\ pending' = [c \in Conn |-> {}]
  /\ UNCHANGED <<closed, conns, netOf, pc, network, held, got>>

Borrow(h) ==
  \/ BorrowClosed(h)
  \/ \E n \in Net : BorrowPooled(h, n) \/ BorrowEmpty(h, n)

Progress(h) ==
  \/ \E c \in Conn : Dial(h, c)
  \/ DialFails(h)
  \/ Send(h)
  \/ Receive(h)
  \/ ExchangeFails(h)
  \/ Release(h)

Next ==
  \/ \E h \in Handler : Borrow(h) \/ Progress(h)
  \/ Close
  \/ EngineRestart

Spec == Init /\ [][Next]_vars

(* Dial and exchange have timeouts, so a handler that borrowed gets on.    *)
(* Nothing is assumed of the arrival of queries.                           *)
FairSpec == Spec /\ \A h \in Handler : WF_vars(Progress(h))
-----------------------------------------------------------------------------
\* Types; the slices never exceed their limit.
TypeOK ==
  /\ closed \in BOOLEAN
  /\ conns \in [Net -> Seq(Conn)]
  /\ \A n \in Net : Len(conns[n]) <= MaxPerNetwork
  /\ state \in [Conn -> {"free", "open", "broken"}]
  /\ netOf \in [Conn -> Net]
  /\ pending \in [Conn -> SUBSET Handler]
  /\ pc \in [Handler -> PC]
  /\ network \in [Handler -> Net]
  /\ held \in [Handler -> Conn \cup {NoConn}]
  /\ got \in [Handler -> Handler \cup {"none", "error"}]

\* A handler holds a connection exactly while it exchanges or releases.
HoldsInExchange ==
  \A h \in Handler : (held[h] # NoConn) <=> (pc[h] \in {"send", "wait", "release"})

\* Nobody shares: a connection is in one place of one slice or in the hands
\* of one handler, never both, whatever borrows, releases and Close overlap.
NoSharing ==
  /\ \A m, n \in Net : \A i \in 1..Len(conns[m]), j \in 1..Len(conns[n]) :
        conns[m][i] = conns[n][j] => m = n /\ i = j
  /\ \A n \in Net : \A i \in 1..Len(conns[n]) : \A h \in Handler : held[h] # conns[n][i]
  /\ \A g, h \in Handler : g # h /\ held[g] # NoConn => held[g] # held[h]

\* Nothing leaks and nothing closed is handed out: the connections that are
\* not closed are exactly those some slice or some handler has.
NoLeak ==
  \A c \in Conn :
     (state[c] # "free") <=>
        (\/ \E n \in Net : \E i \in 1..Len(conns[n]) : conns[n][i] = c
         \/ \E h \in Handler : held[h] = c)

\* A connection waits in the slice of the network it was dialled for.
RightNetwork ==
  /\ \A n \in Net : \A i \in 1..Len(conns[n]) : netOf[conns[n][i]] = n
  /\ \A h \in Handler : held[h] # NoConn => netOf[held[h]] = network[h]

\* An answer still to come belongs to the handler that holds the connection.
PendingOwned ==
  \A c \in Conn : \A q \in pending[c] : held[q] = c /\ pc[q] = "wait"

\* An exchange that ends without an error returns the answer to its own
\* query, even though answers arrive late and ids may coincide.
OwnAnswer == \A h \in Handler : got[h] \in {"none", "error", h}

\* After Close the slices stay empty.
ClosedEmpty == closed => \A n \in Net : conns[n] = <<>>

\* The pool implements OwnedPool: connections are handed over as a whole, only
\* their holder or Close closes them, nothing returns to a closed pool, and
\* after Close every connection is closed in the end, those dialled or
\* released after it included.
Ownership ==
  INSTANCE OwnedPool WITH
    Client   <- Handler,
    Resource <- Conn,
    None     <- NoConn,
    live     <- {c \in Conn : state[c] # "free"},
    idle     <- Idle("udp") \cup Idle("tcp"),
    lent     <- held

PoolOwnsConnections == Ownership!Spec
=============================================================================
