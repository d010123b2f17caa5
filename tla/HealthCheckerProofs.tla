------------------------- MODULE HealthCheckerProofs -------------------------
(***************************************************************************)
(* Safety of the health checker for any set of upstreams, any transports   *)
(* and any threshold.  The verdict invariants are not inductive alone:     *)
(* what a pass records depends on what it still holds, so HeldAccounted    *)
(* joins them.                                                             *)
(***************************************************************************)
EXTENDS HealthChecker, TLAPS

IInv ==
  /\ TypeOK
  /\ HealthyBelowThreshold
  /\ GaugeAgrees
  /\ VerdictsAccounted
  /\ HeldAccounted

USE DEF Configs, Pass, PC

\* NewChecker and the start-up state satisfy the invariant.
LEMMA InitIInv == Init => IInv
<1> SUFFICES ASSUME Init PROVE IInv
  OBVIOUS
<1>1. TypeOK
  <2>1. (CHOOSE l \in upstreams : TRUE) \in upstreams
    BY DEF Init, NewChecker
  <2> QED
    BY <2>1 DEF Init, NewChecker, TypeOK
<1>2. HealthyBelowThreshold /\ GaugeAgrees /\ VerdictsAccounted
  BY DEF Init, NewChecker, HealthyBelowThreshold, GaugeAgrees, VerdictsAccounted
<1>3. HeldAccounted
  BY DEF Init, NewChecker, HeldAccounted, Held
<1> QED
  BY <1>1, <1>2, <1>3 DEF IInv

\* Steps that leave the maps alone and whose pass holds nothing new.
LEMMA QuietStep ==
  ASSUME IInv, TypeOK', unchangedMaps,
         \A p \in Pass : Held(p)' \subseteq Held(p) \cup upstreams
  PROVE  IInv'
<1>1. HealthyBelowThreshold' /\ GaugeAgrees' /\ VerdictsAccounted'
  BY DEF IInv, unchangedMaps, HealthyBelowThreshold, GaugeAgrees, VerdictsAccounted
<1>2. HeldAccounted'
  BY DEF IInv, unchangedMaps, HeldAccounted
<1> QED
  BY <1>1, <1>2 DEF IInv

\* Every step of the checker and its environment keeps the invariant.
LEMMA NextIInv == IInv /\ [Next]_vars => IInv'
<1> SUFFICES ASSUME IInv, [Next]_vars PROVE IInv'
  OBVIOUS
<1> USE HealthAssumption
<1>0. TypeOK
  BY DEF IInv
<1>1. CASE Tick
  <2>1. TypeOK'
    BY <1>0, <1>1 DEF TypeOK, Tick, unchangedMaps
  <2>2. \A p \in Pass : Held(p)' \subseteq Held(p) \cup upstreams
    BY <1>0, <1>1 DEF TypeOK, Tick, Held
  <2> QED
    BY <1>1, <2>1, <2>2, QuietStep DEF Tick
<1>2. ASSUME NEW new \in Configs, UpdateUpstreams(new) PROVE IInv'
  <2> USE <1>0, <1>2 DEF UpdateUpstreams, Updated
  <2>1. \A p \in Pass : Held(p) \subseteq Label
    BY DEF TypeOK, Held
  <2>2. TypeOK'
    BY <2>1 DEF TypeOK
  <2>3. HealthyBelowThreshold'
    BY DEF IInv, HealthyBelowThreshold
  <2>4. GaugeAgrees'
    BY DEF IInv, GaugeAgrees, TypeOK
  <2>5. VerdictsAccounted'
    BY DEF VerdictsAccounted
  <2>6. \A p \in Pass : Held(p)' \subseteq Held(p)
    BY DEF TypeOK, Held
  <2>7. HeldAccounted'
    BY <2>6 DEF HeldAccounted
  <2> QED
    BY <2>2, <2>3, <2>4, <2>5, <2>7 DEF IInv
<1>3. ASSUME NEW p \in Pass, CurrentUpstreams(p) PROVE IInv'
  <2>1. TypeOK'
    BY <1>0, <1>3 DEF TypeOK, CurrentUpstreams, unchangedMaps
  <2>2. \A q \in Pass : Held(q)' \subseteq Held(q) \cup upstreams
    BY <1>0, <1>3 DEF TypeOK, CurrentUpstreams, Held
  <2> QED
    BY <1>3, <2>1, <2>2, QuietStep DEF CurrentUpstreams
<1>4. ASSUME NEW p \in Pass, NextUpstream(p) PROVE IInv'
  <2>1. TypeOK'
    BY <1>0, <1>4 DEF TypeOK, NextUpstream, unchangedMaps
  <2>2. \A q \in Pass : Held(q)' \subseteq Held(q) \cup upstreams
    BY <1>0, <1>4 DEF TypeOK, NextUpstream, Held
  <2> QED
    BY <1>4, <2>1, <2>2, QuietStep DEF NextUpstream
<1>5. ASSUME NEW p \in Pass, EndPass(p) PROVE IInv'
  <2>1. TypeOK'
    BY <1>0, <1>5 DEF TypeOK, EndPass, unchangedMaps
  <2>2. \A q \in Pass : Held(q)' \subseteq Held(q) \cup upstreams
    BY <1>0, <1>5 DEF TypeOK, EndPass, Held
  <2> QED
    BY <1>5, <2>1, <2>2, QuietStep DEF EndPass
<1>6. ASSUME NEW p \in Pass, FirstProbe(p) PROVE IInv'
  <2>1. TypeOK'
    BY <1>0, <1>6 DEF TypeOK, FirstProbe, unchangedMaps
  <2>2. \A q \in Pass : Held(q)' \subseteq Held(q) \cup upstreams
    BY <1>0, <1>6 DEF TypeOK, FirstProbe, Held
  <2> QED
    BY <1>6, <2>1, <2>2, QuietStep DEF FirstProbe
<1>7. ASSUME NEW p \in Pass, RetryOverTCP(p) PROVE IInv'
  <2>1. TypeOK'
    BY <1>0, <1>7 DEF TypeOK, RetryOverTCP, unchangedMaps
  <2>2. \A q \in Pass : Held(q)' \subseteq Held(q) \cup upstreams
    BY <1>0, <1>7 DEF TypeOK, RetryOverTCP, Held
  <2> QED
    BY <1>7, <2>1, <2>2, QuietStep DEF RetryOverTCP
<1>8. ASSUME NEW p \in Pass, RecordHealthy(p) PROVE IInv'
  <2> DEFINE l == cur[p]
  <2> USE <1>0, <1>8 DEF RecordHealthy
  <2>1. l \in Label /\ l \in upstreams \cup exposed
    BY DEF TypeOK, IInv, HeldAccounted, Held
  <2>2. TypeOK'
    BY <2>1 DEF TypeOK
  <2>3. HealthyBelowThreshold'
    BY DEF IInv, HealthyBelowThreshold
  <2>4. GaugeAgrees'
    BY <2>1 DEF IInv, GaugeAgrees, TypeOK
  <2>5. VerdictsAccounted'
    BY <2>1 DEF IInv, VerdictsAccounted
  <2>6. HeldAccounted'
    BY DEF IInv, HeldAccounted, Held, TypeOK
  <2> QED
    BY <2>2, <2>3, <2>4, <2>5, <2>6 DEF IInv
<1>9. ASSUME NEW p \in Pass, RecordFailure(p) PROVE IInv'
  <2> DEFINE l == cur[p]
  <2> USE <1>0, <1>9 DEF RecordFailure
  <2>1. l \in Label /\ l \in upstreams \cup exposed
    BY DEF TypeOK, IInv, HeldAccounted, Held
  <2>2. Failures(l) \in 0..CountCap
    BY DEF TypeOK, Failures
  <2>3. TypeOK'
    BY <2>1, <2>2 DEF TypeOK
  <2>4. HealthyBelowThreshold'
    BY <2>2 DEF IInv, HealthyBelowThreshold
  <2>5. GaugeAgrees'
    BY <2>1 DEF IInv, GaugeAgrees, TypeOK
  <2>6. VerdictsAccounted'
    BY <2>1 DEF IInv, VerdictsAccounted
  <2>7. HeldAccounted'
    BY DEF IInv, HeldAccounted, Held, TypeOK
  <2> QED
    BY <2>3, <2>4, <2>5, <2>6, <2>7 DEF IInv
<1>10. ASSUME NEW probe \in Probes, Flip(probe) PROVE IInv'
  <2>1. TypeOK'
    BY <1>0, <1>10 DEF TypeOK, Flip, unchangedMaps
  <2>2. \A q \in Pass : Held(q)' \subseteq Held(q) \cup upstreams
    BY <1>10 DEF Flip, Held
  <2> QED
    BY <1>10, <2>1, <2>2, QuietStep DEF Flip
<1>11. CASE Cancel
  <2>1. TypeOK'
    BY <1>0, <1>11 DEF TypeOK, Cancel, unchangedMaps
  <2>2. \A q \in Pass : Held(q)' \subseteq Held(q) \cup upstreams
    BY <1>11 DEF Cancel, Held
  <2> QED
    BY <1>11, <2>1, <2>2, QuietStep DEF Cancel
<1>12. CASE UNCHANGED vars
  <2>1. TypeOK'
    BY <1>0, <1>12 DEF TypeOK, vars
  <2>2. unchangedMaps /\ \A q \in Pass : Held(q)' \subseteq Held(q) \cup upstreams
    BY <1>12 DEF vars, unchangedMaps, Held
  <2> QED
    BY <2>1, <2>2, QuietStep
<1> QED
  BY <1>1, <1>2, <1>3, <1>4, <1>5, <1>6, <1>7, <1>8, <1>9, <1>10, <1>11, <1>12
     DEF Next, PassStep

\* The inductive invariant holds in every behaviour of the checker.
THEOREM Invariance == Spec => []IInv
BY InitIInv, NextIInv, PTL DEF Spec

\* Type correctness of the checker's maps, gauge and passes.
THEOREM TypeCorrect == Spec => []TypeOK
BY Invariance, PTL DEF IInv

\* No interleaving of passes and reloads calls an upstream healthy whose
\* consecutive failures have reached the threshold, or exports a gauge that
\* differs from the verdict behind /readyz.
THEOREM VerdictsInAgreement == Spec => []VerdictsAgree
BY Invariance, PTL DEF IInv, VerdictsAgree

\* Every configured upstream has a verdict, and a verdict on a removed one
\* can only come from a pass that held it when it was removed.
THEOREM VerdictsHaveOrigin == Spec => []VerdictsAccounted
BY Invariance, PTL DEF IInv
=============================================================================
