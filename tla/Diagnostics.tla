----------------------------- MODULE Diagnostics -----------------------------
(***************************************************************************)
(* The diagnostics runner (pkg/diagnostics/runner.go): rounds over the     *)
(* configured targets, each probed by DNS, TCP, TLS and HTTPS steps under  *)
(* one deadline of three timeouts, and the report of /diagnostics, which   *)
(* may be read between any two steps.                                      *)
(*                                                                         *)
(* Time is counted in units of which a Timeout has a few: a step that the  *)
(* other side answers takes less than a Timeout, one that it does not      *)
(* takes a whole one, and the agent's own work takes none.  Instants are   *)
(* kept as the time that has passed since, capped above every bound that   *)
(* is checked.  world is what the target is like, not part of the program: *)
(* its addresses are chosen when the probe begins, what times out and how  *)
(* the TLS and HTTPS steps end when they are taken.                        *)
(***************************************************************************)
EXTENDS Naturals, SequencesExt

CONSTANTS
  Targets,   \* number of targets, probed in the order 1..Targets
  Timeout,   \* cfg.Timeout
  Interval,  \* cfg.Interval
  A, AAAA    \* addresses a target may have, numbers in their sorted order

ASSUME DiagnosticsAssumption ==
  /\ Targets \in Nat
  /\ Timeout \in Nat \ {0} /\ Interval \in Nat \ {0}
  /\ A \subseteq Nat /\ AAAA \subseteq Nat

VARIABLES
  run,        \* Run: "begin", "round" (head of runOnce's loop), "probe", "select", "done"
  target,     \* runOnce: the target whose turn it is
  step, left, \* probeTarget: the step, and what is left of the deadline
  out,        \* probeOutcome
  results,    \* r.results: the targets that have a result
  diagnosis,  \* the Diagnosis of the newest result; older ones are not kept
  age,        \* time since the ObservedAt of each result
  phase, tick,  \* the ticker: time since it last fired, Interval before it is
              \* created; a tick waits in its channel
  cancelled,  \* the agent's context
  world, need \* history: what the probe's steps really met, and the time they wanted

probe == <<step, left, out, world, need, diagnosis>>
report == <<results, age>>
clocks == <<age, phase, tick>>
vars == <<run, target, probe, report, phase, tick, cancelled>>

Target == 1..Targets
\* the oldest a result may get, and the cap of all clocks
ProbeBudget == 3 * Timeout
MaxAge == Interval + ProbeBudget * (Targets + 1)
Capped(n) == Min({n, MaxAge + 1})

Diagnosis == {"dns_resolution_failed", "egress_blocked_or_network",
              "tls_handshake_failed", "tls_sni_required",
              "provider_block_suspected", "healthy"}

Address == A \cup AAAA
Handshake == {"ok", "refused", "certificate"}
Status == {"blocked", "other", "none"}

Nothing == [ips |-> {}, todo |-> {}, tcp |-> FALSE, sni |-> FALSE, nosni |-> FALSE,
            status |-> "none"]
Unasked == [a |-> {}, bad |-> FALSE, aaaa |-> {}, open |-> {}, sni |-> FALSE,
            nosni |-> "refused", status |-> "none"]
(* NewRunner: the targets are normalised, without duplicates, and sorted. *)
Init ==
  /\ run = "begin" /\ target = 1
  /\ step = "a" /\ left = 0 /\ out = Nothing /\ world = Unasked /\ need = 0
  /\ diagnosis = "none"
  /\ results = {} /\ age = [t \in Target |-> 0]
  /\ phase = Interval /\ tick = FALSE /\ cancelled = FALSE
-----------------------------------------------------------------------------
\* n units pass; a tick that finds another in the channel is dropped
Pass(n) ==
  /\ age' = [t \in Target |-> IF t \in results THEN Capped(age[t] + n) ELSE 0]
  /\ IF phase = Interval
     THEN UNCHANGED <<phase, tick>>
     ELSE phase' = (phase + n) % Interval /\ tick' = (tick \/ phase + n >= Interval)

(* Run: without targets it returns; otherwise the first round begins. *)
Begin ==
  /\ run = "begin"
  /\ run' = IF Targets = 0 THEN "done" ELSE "round"
  /\ UNCHANGED <<target, probe, report, phase, tick, cancelled>>

(* The select of Run: the context, or the tick that starts a round.        *)
SelectDoneReported ==         \* mutant: Run wants a result of every target first
  /\ run = "select" /\ cancelled /\ results = Target
  /\ run' = "done"
  /\ UNCHANGED <<target, probe, clocks, results, cancelled>>

SelectDone ==
  /\ run = "select" /\ cancelled
  /\ run' = "done"
  /\ UNCHANGED <<target, probe, clocks, results, cancelled>>

SelectTick ==
  /\ run = "select" /\ tick
  /\ tick' = FALSE
  /\ run' = "round" /\ target' = 1
  /\ UNCHANGED <<probe, report, phase, cancelled>>

\* nothing happens until the next tick
Wait ==
  /\ run = "select" /\ ~tick
  /\ Pass(Interval - phase)
  /\ UNCHANGED <<run, target, probe, results, cancelled>>

(* runOnce: after the last target, or when the context is over, Run goes   *)
(* on to its select.  The ticker is created after the first round.         *)
RoundEnds ==
  /\ run = "round" /\ (target > Targets \/ cancelled)
  /\ run' = "select"
  /\ phase' = phase % Interval
  /\ step' = "a" /\ left' = 0 /\ out' = Nothing /\ world' = Unasked /\ need' = 0
  /\ diagnosis' = "none"
  /\ UNCHANGED <<target, report, tick, cancelled>>

DeadlineNone == 9 * Timeout   \* mutant: every step has a timeout, the probe has none

\* context.WithTimeout(ctx, r.cfg.Timeout*3)
Deadline == 3 * Timeout

ProbeBegins ==
  /\ run = "round" /\ target \in Target /\ ~cancelled
  /\ run' = "probe"
  /\ step' = "a" /\ left' = Deadline
  /\ out' = Nothing /\ need' = 0 /\ diagnosis' = "none"
  \* the target has addresses, or a bad rcode for its A record; some accept
  /\ \E a \in SUBSET A, aaaa \in SUBSET AAAA, bad \in BOOLEAN :
       /\ bad => a = {}
       /\ \E open \in SUBSET (a \cup aaaa) :
            world' = [Unasked EXCEPT !.a = a, !.bad = bad, !.aaaa = aaaa, !.open = open]
  /\ UNCHANGED <<target, clocks, results, cancelled>>
-----------------------------------------------------------------------------
(* The steps of a probe.  The other side would answer after d units, or    *)
(* not at all (d = Timeout).  A step is over after a Timeout, at the       *)
(* deadline, or when the agent is cancelled; a DNS query that is already   *)
(* under way then runs to its own timeout, which no property depends on.   *)
Cut(d) == cancelled \/ d >= left \/ d >= Timeout

Spend(d) ==
  LET spent == IF cancelled THEN 0 ELSE Min({d, left})
  IN  /\ run = "probe"
      /\ Pass(spent)
      /\ left' = left - spent
      /\ need' = IF cancelled THEN need ELSE Min({need + d, ProbeBudget})
      /\ UNCHANGED <<run, target, results, diagnosis, cancelled>>

Met(d, real, failure) == IF cancelled \/ d >= Timeout THEN failure ELSE real
Got(d, real, failure) == IF Cut(d) THEN failure ELSE real

\* the addresses so far decide between the TCP probe and the end
Resolved(ips) ==
  /\ out' = [out EXCEPT !.ips = ips, !.todo = ips]
  /\ step' = IF ips = {} THEN "classify" ELSE "tcp"

ResolveAStrict(d) ==          \* mutant: without an address the A query ends the resolution
  /\ step = "a" /\ Spend(d)
  /\ world' = [world EXCEPT !.a = Met(d, @, {}), !.bad = Met(d, @, FALSE)]
  /\ IF Got(d, world.a, {}) = {}
     THEN Resolved({})
     ELSE step' = "aaaa" /\ out' = [out EXCEPT !.ips = Got(d, world.a, {})]

(* resolveTarget, the A query: a bad rcode ends the resolution; an error,  *)
(* which is remembered, and an answer without addresses do not ...         *)
ResolveA(d) ==
  /\ step = "a" /\ Spend(d)
  /\ world' = [world EXCEPT !.a = Met(d, @, {}), !.bad = Met(d, @, FALSE)]
  /\ IF Got(d, world.bad, FALSE)
     THEN Resolved({})
     ELSE step' = "aaaa" /\ out' = [out EXCEPT !.ips = Got(d, world.a, {})]

(* ... and the AAAA query, where a bad rcode is skipped as well: the       *)
(* addresses found count, and without any there is an error.               *)
ResolveAAAA(d) ==
  /\ step = "aaaa" /\ Spend(d)
  /\ world' = [world EXCEPT !.aaaa = Met(d, @, {})]
  /\ Resolved(out.ips \cup Got(d, world.aaaa, {}))

(* probeTCPReachability: the addresses in order, until one accepts. *)
ProbeTCP(d) ==
  LET ip == Min(out.todo)
      got == Got(d, ip \in world.open, FALSE)
      todo == out.todo \ {ip}
  IN
  /\ step = "tcp" /\ Spend(d)
  /\ world' = [world EXCEPT !.open = Met(d, @, @ \ {ip})]
  /\ out' = [out EXCEPT !.tcp = got, !.todo = todo]
  /\ step' = IF got THEN "tls" ELSE IF todo = {} THEN "classify" ELSE "tcp"

(* probeTLS with SNI; the dialer's timeout covers the handshake. *)
ProbeTLS(d, ok) ==
  /\ step = "tls" /\ Spend(d)
  /\ world' = [world EXCEPT !.sni = Met(d, ok, FALSE)]
  /\ out' = [out EXCEPT !.sni = Got(d, ok, FALSE)]
  /\ step' = "tlsNoSNI"

ProbeTLSNoSNILenient(d, answer) == \* mutant: the deadline is no fault of the handshake
  /\ step = "tlsNoSNI" /\ Spend(d)
  /\ world' = [world EXCEPT !.nosni = Met(d, answer, "refused")]
  /\ out' = [out EXCEPT !.nosni = (Got(d, answer, "refused") = "ok" \/ d >= left)]
  /\ step' = IF out.sni THEN "https" ELSE "classify"

(* probeTLS without: crypto/tls then verifies the certificate against the  *)
(* address, so that besides a server that insists on SNI ("refused") one   *)
(* whose certificate does not name its address ("certificate") fails too.  *)
ProbeTLSNoSNI(d, answer) ==
  /\ step = "tlsNoSNI" /\ Spend(d)
  /\ world' = [world EXCEPT !.nosni = Met(d, answer, "refused")]
  /\ out' = [out EXCEPT !.nosni = (Got(d, answer, "refused") = "ok")]
  /\ step' = IF out.sni THEN "https" ELSE "classify"

(* probeHTTPSStatus: 403, 429 and 451 count as blocked; "none" is an error. *)
ProbeHTTPS(d, status) ==
  /\ step = "https" /\ Spend(d)
  /\ world' = [world EXCEPT !.status = Met(d, status, "none")]
  /\ out' = [out EXCEPT !.status = Got(d, status, "none")]
  /\ step' = "classify"

Classify ==
  IF out.ips = {} THEN "dns_resolution_failed"
  ELSE IF ~out.tcp THEN "egress_blocked_or_network"
  ELSE IF ~out.sni THEN "tls_handshake_failed"
  ELSE IF ~out.nosni THEN "tls_sni_required"
  ELSE IF out.status = "blocked" THEN "provider_block_suspected"
  ELSE "healthy"

(* classifyOutcome and the update under r.mu; a probe that was cancelled   *)
(* is recorded like any other.                                             *)
Record ==
  /\ run = "probe" /\ step = "classify"
  /\ results' = results \cup {target} /\ diagnosis' = Classify
  /\ age' = [age EXCEPT ![target] = Deadline - left]
  /\ run' = "round" /\ target' = target + 1
  /\ step' = "recorded" /\ UNCHANGED <<left, out, world, need>>
  /\ UNCHANGED <<phase, tick, cancelled>>

\* from here on every step fails at once, whatever the target is like
Cancel ==
  /\ ~cancelled
  /\ cancelled' = TRUE
  /\ world' = Unasked /\ need' = 0
  /\ UNCHANGED <<run, target, step, left, out, diagnosis, clocks, results>>

ProbeSteps ==
  \E d \in 0..Timeout :
    \/ ResolveA(d) \/ ResolveAAAA(d) \/ ProbeTCP(d)
    \/ \E ok \in BOOLEAN : ProbeTLS(d, ok)
    \/ \E answer \in Handshake : ProbeTLSNoSNI(d, answer)
    \/ \E status \in Status : ProbeHTTPS(d, status)

RunSteps == \/ Begin \/ SelectDone \/ SelectTick \/ Wait
            \/ RoundEnds \/ ProbeBegins \/ ProbeSteps \/ Record

Next == RunSteps \/ Cancel

Spec == Init /\ [][Next]_vars

(* The goroutine runs, every step ends by its timeout, time passes, and a  *)
(* select does not ignore the cancelled context for ever.                  *)
Fairness == WF_vars(RunSteps) /\ SF_vars(SelectDone)

FairSpec == Spec /\ Fairness
-----------------------------------------------------------------------------
\* Types; the probe keeps within its deadline and the clocks below their cap.
TypeOK ==
  /\ run \in {"begin", "round", "probe", "select", "done"}
  /\ target \in 1..(Targets + 1)
  /\ step \in {"a", "aaaa", "tcp", "tls", "tlsNoSNI", "https", "classify", "recorded"}
  /\ left \in 0..Deadline /\ need \in 0..ProbeBudget
  /\ out \in [ips : SUBSET Address, todo : SUBSET Address, tcp : BOOLEAN, sni : BOOLEAN,
              nosni : BOOLEAN, status : Status]
  /\ world \in [a : SUBSET A, bad : BOOLEAN, aaaa : SUBSET AAAA, open : SUBSET Address,
                sni : BOOLEAN, nosni : Handshake, status : Status]
  /\ results \subseteq Target /\ diagnosis \in Diagnosis \cup {"none"}
  /\ age \in [Target -> 0..(MaxAge + 1)]
  /\ phase \in 0..Interval /\ tick \in BOOLEAN /\ cancelled \in BOOLEAN

\* What a target with this network behaviour suffers from: the first of the
\* layers DNS, TCP, TLS, SNI and HTTP at which nothing worked.
Addresses(w) == w.a \cup w.aaaa

Layers(w) == << <<"dns_resolution_failed", Addresses(w) # {}>>,
                <<"egress_blocked_or_network", w.open \cap Addresses(w) # {}>>,
                <<"tls_handshake_failed", w.sni>>,
                <<"tls_sni_required", w.nosni # "refused">>,
                <<"provider_block_suspected", w.status # "blocked">>,
                <<"https_failed", w.status # "none">>,
                <<"healthy", FALSE>> >>

Suffers(w) == Layers(w)[SelectInSeq(Layers(w), LAMBDA layer : ~layer[2])][1]

\* The diagnoses that are known to be off: a bad rcode for the A record is a
\* failed resolution although there may be AAAA records; a certificate that
\* does not name the address passes for a server that insists on SNI; and an
\* HTTPS request that gets no status at all is not held against the target.
Misjudged(w, d) ==
  \/ w.bad /\ d = "dns_resolution_failed"
  \/ /\ w.nosni = "certificate" /\ d = "tls_sni_required"
     /\ Suffers(w) \in {"provider_block_suspected", "https_failed", "healthy"}
  \/ Suffers(w) = "https_failed" /\ d = "healthy"

\* A recorded diagnosis names the layer that really failed, whichever steps
\* timed out or were slow, as long as together they want less time than the
\* three timeouts of the deadline and the agent is not stopping; Misjudged
\* lists the only exceptions.
Accurate ==
  run = "round" /\ step = "recorded" /\ need < ProbeBudget /\ ~cancelled =>
    diagnosis = Suffers(world) \/ Misjudged(world, diagnosis)

\* Out of time or not, a recorded diagnosis clears no layer that does not
\* work: of DNS, TCP, TLS and SNI, those before the one it blames do work, and
\* "healthy" speaks for all four.
PassedLayersWork ==
  run = "round" /\ step = "recorded" /\ ~cancelled =>
    \A i \in 1..4, j \in 1..Len(Layers(world)) :
      i < j /\ Layers(world)[j][1] = diagnosis => Layers(world)[i][2]

\* No result of the report is older than one interval and the probes of one
\* round more than once over, although probes run one after the other, a
\* round may outlast the interval, and the ticker drops ticks meanwhile.
ResultsFresh ==
  ~cancelled => \A t \in results : age[t] <= MaxAge

\* Cancellation ends Run, in the middle of a probe too.
RunStops == cancelled ~> run = "done"
=============================================================================
