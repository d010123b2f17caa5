---------------------------- MODULE HealthChecker ----------------------------
(***************************************************************************)
(* The upstream health checker, pkg/health/checker.go, driven as           *)
(* cmd/agent/main.go drives it: one pass at start-up, then a goroutine     *)
(* that runs a pass per tick and the reload callback that replaces the     *)
(* upstream set and runs a pass of its own.  A pass copies the upstream    *)
(* list under the lock, then probes with the lock released, so an          *)
(* UpdateUpstreams may fall between any two steps of a pass.               *)
(*                                                                         *)
(* An upstream is its label (upstreamLabel): address, port and transport.  *)
(* validateEngineConfig rejects an empty list and equal labels, so a list  *)
(* is a non-empty set; the order in which a pass visits it is left open.   *)
(***************************************************************************)
EXTENDS Naturals, FiniteSets

CONSTANTS
  Label,        \* upstream labels
  Transport,    \* Transport[l]: "dns", "dot" or "doh"
  Threshold,    \* CheckerConfig.FailureThreshold
  CountCap      \* failure counts saturate here; equal to the code from Threshold on

ASSUME HealthAssumption ==
  /\ IsFiniteSet(Label)
  /\ Transport \in [Label -> {"dns", "dot", "doh"}]
  /\ Threshold \in Nat \ {0}
  /\ CountCap \in Nat
  /\ CountCap >= Threshold

VARIABLES
  upstreams,      \* config.Upstreams
  failureCounts,  \* map label -> consecutive failures
  tracked,        \* the keys of the map healthy ...
  healthy,        \* ... and those that map to true
  gauge,          \* UpstreamHealthy gauge; a label never exported reads 0
  pc,             \* where each pass stands
  todo,           \* the copied upstreams a pass has still to visit
  cur,            \* the upstream a pass is probing
  answering,      \* environment: the <<label, network>> pairs that answer
  cancelled,      \* the context of the agent is cancelled
  exposed         \* history: labels a pass still held when they were removed

vars == <<upstreams, failureCounts, tracked, healthy, gauge, pc, todo, cur,
          answering, cancelled, exposed>>

\* ticker: main's CheckNow, then Run; reload: the callback of the watcher,
\* which main starts only after its own CheckNow has returned
Pass == {"ticker", "reload"}

PC == {"off", "idle", "begin", "loop", "probe", "retry", "good", "bad", "done"}

Configs == (SUBSET Label) \ {{}}

Probes == {q \in Label \X {"udp", "tcp"} :
              \/ Transport[q[1]] = "dns"
              \/ Transport[q[1]] = "dot" /\ q[2] = "tcp"}

HasHealthyUpstream == healthy # {}

\* what pass p has copied and not yet settled
Held(p) == todo[p] \cup
           (IF pc[p] \in {"probe", "retry", "good", "bad"} THEN {cur[p]} ELSE {})
-----------------------------------------------------------------------------
(* NewChecker: every upstream starts unhealthy, without a failure count. *)
NewChecker ==
  /\ upstreams \in Configs
  /\ failureCounts = [l \in {} |-> 0]
  /\ tracked = upstreams
  /\ healthy = {}
  /\ gauge = [l \in Label |-> 0]

Init ==
  /\ NewChecker
  /\ pc = [p \in Pass |-> IF p = "ticker" THEN "begin" ELSE "off"]
  /\ todo = [p \in Pass |-> {}]
  /\ cur = [p \in Pass |-> CHOOSE l \in upstreams : TRUE]
  /\ answering = Probes
  /\ cancelled = FALSE
  /\ exposed = {}

unchangedMaps == UNCHANGED <<upstreams, failureCounts, tracked, healthy, gauge, exposed>>

(* Run starts a pass, at once and then per tick, or returns when cancelled. *)
Tick ==
  /\ pc["ticker"] = "idle"
  /\ pc' = [pc EXCEPT !["ticker"] = IF cancelled THEN "done" ELSE "begin"]
  /\ unchangedMaps
  /\ UNCHANGED <<todo, cur, answering, cancelled>>

UpdatedDNSOnly(new) ==       \* mutant: only plain DNS targets survive the reload
  LET kept == {l \in new : Transport[l] = "dns"} IN
  /\ upstreams' = kept
  /\ failureCounts' = [l \in kept |-> 0]
  /\ tracked' = kept
  /\ healthy' = {}
  /\ gauge' = [l \in Label |-> 0]

UpdatedGaugeKept(new) ==     \* mutant: the gauge of a removed label is not zeroed
  /\ upstreams' = new
  /\ failureCounts' = [l \in new |-> IF l \in DOMAIN failureCounts
                                     THEN failureCounts[l] ELSE 0]
  /\ tracked' = new
  /\ healthy' = healthy \cap new
  /\ gauge' = [l \in Label |-> IF l \in new \ tracked THEN 0 ELSE gauge[l]]

UpdatedNoDelete(new) ==      \* mutant: removed labels stay in the maps
  /\ upstreams' = new
  /\ failureCounts' = [l \in new \cup DOMAIN failureCounts |->
                         IF l \in DOMAIN failureCounts THEN failureCounts[l] ELSE 0]
  /\ tracked' = new \cup tracked
  /\ UNCHANGED healthy
  /\ UNCHANGED gauge

(* The maps after UpdateUpstreams(new): removed labels are forgotten and   *)
(* their gauge is zeroed, kept ones untouched, added ones start unhealthy. *)
Updated(new) ==
  /\ upstreams' = new
  /\ failureCounts' = [l \in new |-> IF l \in DOMAIN failureCounts
                                     THEN failureCounts[l] ELSE 0]
  /\ tracked' = new
  /\ healthy' = healthy \cap new
  /\ gauge' = [l \in Label |->
                 IF l \in (tracked \ new) \cup (new \ tracked)
                 THEN 0 ELSE gauge[l]]

(* A successful reload replaces the upstreams, then calls CheckNow.        *)
UpdateUpstreams(new) ==
  /\ pc["reload"] = "idle"
  /\ Updated(new)
  /\ exposed' = (UNION {Held(p) : p \in Pass}) \ new
  /\ pc' = [pc EXCEPT !["reload"] = "begin"]
  /\ UNCHANGED <<todo, cur, answering, cancelled>>

(* currentUpstreams: the copy a pass works from. *)
CurrentUpstreams(p) ==
  /\ pc[p] = "begin"
  /\ todo' = [todo EXCEPT ![p] = upstreams]
  /\ pc' = [pc EXCEPT ![p] = "loop"]
  /\ unchangedMaps
  /\ UNCHANGED <<cur, answering, cancelled>>

(* checkAll's loop takes the next upstream of the copy ... *)
NextUpstream(p) ==
  /\ pc[p] = "loop"
  /\ ~cancelled
  /\ \E l \in todo[p] :
       /\ todo' = [todo EXCEPT ![p] = @ \ {l}]
       /\ cur' = [cur EXCEPT ![p] = l]
  /\ pc' = [pc EXCEPT ![p] = "probe"]
  /\ unchangedMaps
  /\ UNCHANGED <<answering, cancelled>>

(* ... or ends: the copy is exhausted or the context cancelled.  The end   *)
(* of the first pass lets main start the watcher.                          *)
EndPass(p) ==
  /\ pc[p] = "loop"
  /\ todo[p] = {} \/ cancelled
  /\ todo' = [todo EXCEPT ![p] = {}]
  /\ pc' = [q \in Pass |-> IF q = p \/ pc[q] = "off" THEN "idle" ELSE pc[q]]
  /\ unchangedMaps
  /\ UNCHANGED <<cur, answering, cancelled>>

\* an exchange may also fail because its context is cancelled
MayAnswer(l, n) == <<l, n>> \in answering
MayFail(l, n)   == <<l, n>> \notin answering \/ cancelled

FirstProbeOnly(p) ==         \* mutant: a failed UDP probe is final
  /\ pc[p] = "probe"
  /\ LET l == cur[p]
         n == IF Transport[l] = "dns" THEN "udp" ELSE "tcp" IN
     \/ /\ Transport[l] = "doh" \/ MayAnswer(l, n)
        /\ pc' = [pc EXCEPT ![p] = "good"]
     \/ /\ Transport[l] # "doh" /\ MayFail(l, n)
        /\ pc' = [pc EXCEPT ![p] = IF cancelled THEN "loop" ELSE "bad"]
  /\ unchangedMaps
  /\ UNCHANGED <<todo, cur, answering, cancelled>>

(* checkUpstream up to the first verdict: DoH is healthy unprobed, DoT has *)
(* one probe, DNS a second one over TCP.  A failure under a cancelled      *)
(* context is not recorded.                                                *)
FirstProbe(p) ==
  /\ pc[p] = "probe"
  /\ LET l == cur[p]
         n == IF Transport[l] = "dns" THEN "udp" ELSE "tcp" IN
     \/ /\ Transport[l] = "doh" \/ MayAnswer(l, n)
        /\ pc' = [pc EXCEPT ![p] = "good"]
     \/ /\ Transport[l] # "doh" /\ MayFail(l, n)
        /\ pc' = [pc EXCEPT ![p] = IF cancelled THEN "loop"
                                   ELSE IF Transport[l] = "dns" THEN "retry"
                                   ELSE "bad"]
  /\ unchangedMaps
  /\ UNCHANGED <<todo, cur, answering, cancelled>>

RetryOverTCP(p) ==
  /\ pc[p] = "retry"
  /\ \/ /\ MayAnswer(cur[p], "tcp")
        /\ pc' = [pc EXCEPT ![p] = "good"]
     \/ /\ MayFail(cur[p], "tcp")
        /\ pc' = [pc EXCEPT ![p] = IF cancelled THEN "loop" ELSE "bad"]
  /\ unchangedMaps
  /\ UNCHANGED <<todo, cur, answering, cancelled>>

(* recordHealthy writes both maps whatever the current upstreams are. *)
RecordHealthy(p) ==
  /\ pc[p] = "good"
  /\ LET l == cur[p] IN
     /\ failureCounts' = [k \in DOMAIN failureCounts \cup {l} |->
                            IF k = l THEN 0 ELSE failureCounts[k]]
     /\ tracked' = tracked \cup {l}
     /\ healthy' = healthy \cup {l}
     /\ gauge' = [gauge EXCEPT ![l] = 1]
  /\ pc' = [pc EXCEPT ![p] = "loop"]
  /\ UNCHANGED <<upstreams, todo, cur, answering, cancelled, exposed>>

FailuresForgotten(l) == 1    \* mutant: the count does not accumulate

Failures(l) == LET n == IF l \in DOMAIN failureCounts THEN failureCounts[l] ELSE 0
               IN  IF n < CountCap THEN n + 1 ELSE n

(* recordFailure: a missing count reads 0; at the threshold the label      *)
(* becomes unhealthy.                                                      *)
RecordFailure(p) ==
  /\ pc[p] = "bad"
  /\ LET l == cur[p] IN
     /\ failureCounts' = [k \in DOMAIN failureCounts \cup {l} |->
                            IF k = l THEN Failures(l) ELSE failureCounts[k]]
     /\ IF Failures(l) >= Threshold
        THEN /\ tracked' = tracked \cup {l}
             /\ healthy' = healthy \ {l}
             /\ gauge' = [gauge EXCEPT ![l] = 0]
        ELSE UNCHANGED <<tracked, healthy, gauge>>
  /\ pc' = [pc EXCEPT ![p] = "loop"]
  /\ UNCHANGED <<upstreams, todo, cur, answering, cancelled, exposed>>

(* Environment: a network path of an upstream starts or stops answering,   *)
(* and the agent is told to stop.                                          *)
Flip(probe) ==
  /\ answering' = IF probe \in answering THEN answering \ {probe}
                                         ELSE answering \cup {probe}
  /\ unchangedMaps
  /\ UNCHANGED <<pc, todo, cur, cancelled>>

Cancel ==
  /\ ~cancelled
  /\ cancelled' = TRUE
  /\ unchangedMaps
  /\ UNCHANGED <<pc, todo, cur, answering>>

PassStep(p) ==
  \/ CurrentUpstreams(p)
  \/ NextUpstream(p)
  \/ EndPass(p)
  \/ FirstProbe(p)
  \/ RetryOverTCP(p)
  \/ RecordHealthy(p)
  \/ RecordFailure(p)

Next ==
  \/ Tick
  \/ \E new \in Configs : UpdateUpstreams(new)
  \/ \E p \in Pass : PassStep(p)
  \/ \E probe \in Probes : Flip(probe)
  \/ Cancel

Spec == Init /\ [][Next]_vars

(* The ticker keeps ticking and every probe ends within its timeout, so    *)
(* the goroutines that run passes are never stuck.  Nothing is assumed of  *)
(* the network, of reloads or of shutdown.                                 *)
Fairness == WF_vars(Tick) /\ \A p \in Pass : WF_vars(PassStep(p))

FairSpec == Spec /\ Fairness
-----------------------------------------------------------------------------
\* Types of the checker's state and of the passes over it.
TypeOK ==
  /\ upstreams \in Configs
  /\ DOMAIN failureCounts \subseteq Label
  /\ failureCounts \in [DOMAIN failureCounts -> 0..CountCap]
  /\ healthy \subseteq tracked /\ tracked \subseteq Label
  /\ gauge \in [Label -> {0, 1}]
  /\ pc \in [Pass -> PC]
  /\ todo \in [Pass -> SUBSET Label]
  /\ cur \in [Pass -> Label]
  /\ answering \subseteq Probes
  /\ cancelled \in BOOLEAN
  /\ exposed \subseteq Label

\* No upstream is called healthy while its failures have reached the
\* threshold, whichever passes and updates interleave: recordHealthy and
\* recordFailure keep the two maps in step under one lock.
HealthyBelowThreshold ==
  \A l \in healthy : l \in DOMAIN failureCounts /\ failureCounts[l] < Threshold

\* The exported gauge and the map /readyz reads never disagree, not even for
\* labels that were removed by a reload.
GaugeAgrees == \A l \in Label : gauge[l] = 1 <=> l \in healthy

\* Failure count, verdict and exported gauge tell one story about every label.
VerdictsAgree == HealthyBelowThreshold /\ GaugeAgrees

\* Every configured upstream has a verdict, and a verdict on a label that is
\* not configured comes only from a pass that held the label while
\* UpdateUpstreams removed it.
VerdictsAccounted ==
  /\ upstreams \subseteq tracked
  /\ tracked \subseteq upstreams \cup exposed
  /\ DOMAIN failureCounts \subseteq upstreams \cup exposed

\* What a pass still holds is configured or was exposed by the last update.
HeldAccounted == \A p \in Pass : Held(p) \subseteq upstreams \cup exposed

\* HasHealthyUpstream as its comment states it: at least one upstream of the
\* current configuration is healthy.
ReadyMeansConfigured ==
  HasHealthyUpstream => healthy \cap upstreams # {}

Answers(l) == Transport[l] = "doh" \/ \E n \in {"udp", "tcp"} : <<l, n>> \in answering

\* An upstream that stays configured and keeps answering on some network is
\* in the end healthy for good, in spite of updates and passes that overlap.
SteadyUpstreamHealthy ==
  \A l \in Label, n \in {"udp", "tcp"} :
    <>[](l \in upstreams /\ ~cancelled /\ <<l, n>> \in answering)
       => <>[](l \in healthy)

\* An upstream that stays configured and answers no more is in the end
\* unhealthy for good: no late success of an overlapping pass revives it.
DeadUpstreamUnhealthy ==
  \A l \in Label :
    <>[](l \in upstreams /\ ~cancelled /\ ~Answers(l)) => <>[](l \notin healthy)
=============================================================================
