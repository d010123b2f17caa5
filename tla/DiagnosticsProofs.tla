------------------------- MODULE DiagnosticsProofs --------------------------
(***************************************************************************)
(* What a diagnosis says and how old it may be, for any number of targets, *)
(* any timeout and interval, and any endpoints.                            *)
(*                                                                         *)
(* None of the properties is inductive.  The age of a result is bounded by *)
(* ResultsDated: by the time of the round so far less the turn of its      *)
(* target in the round, and for a target whose turn has not come by a      *)
(* round and an interval more.  A diagnosis is accurate because of what    *)
(* the steps before have put into out: FoundSoFar relates it to the        *)
(* endpoint before each step, Faithful says when that may be relied on     *)
(* (as long as no step was cut short by the deadline); FoundReal is what   *)
(* holds of it in any case.                                                *)
(***************************************************************************)
EXTENDS Diagnostics, Integers, WellFoundedInduction, TLAPS

\* The time of the round so far, and the time a probe has used of its deadline.
InProbe == IF run = "probe" THEN Deadline - left ELSE 0
Elapsed == (target - 1) * Deadline + InProbe

\* How old a result may be.  The results of this round were taken when their
\* target's turn came; those of the round before when it came then, and at most
\* an interval lies between the rounds.
Dated(t) ==
  LET turn == (t - 1) * Deadline
      last == Targets * Deadline
  IN  /\ run \in {"round", "probe"} =>
           age[t] + turn <= IF t < target THEN Elapsed ELSE Elapsed + Interval + last
      /\ run = "select" => age[t] + turn <= last + (IF tick THEN Interval ELSE 0)

ResultsDated ==
  ~cancelled =>
    /\ run \in {"begin", "done"} => results = {}
    /\ \A t \in results : Dated(t)

\* There is a probe only for a target.
OwnTarget == run = "probe" => target \in Target

\* numbers of the constants
LEMMA Numbers ==
  /\ Targets \in Nat /\ Timeout \in Nat \ {0} /\ Interval \in Nat \ {0}
  /\ Deadline \in Nat \ {0} /\ ProbeBudget = Deadline /\ Timeout <= Deadline
  /\ A \subseteq Nat /\ AAAA \subseteq Nat
BY DiagnosticsAssumption DEF Deadline, ProbeBudget

\* The smaller of two numbers.
LEMMA MinOfTwo ==
  ASSUME NEW m \in Nat, NEW n \in Nat
  PROVE  Min({m, n}) = IF m <= n THEN m ELSE n
<1> DEFINE least == IF m <= n THEN m ELSE n
<1>1. least \in {m, n} /\ \A y \in {m, n} : least <= y
  OBVIOUS
<1>2. \A x \in {m, n} : (\A y \in {m, n} : x <= y) => x = least
  OBVIOUS
<1> QED
  BY <1>1, <1>2 DEF Min

\* A set of numbers that is not empty has its least in it.
LEMMA MinInSet ==
  ASSUME NEW S \in SUBSET Nat, S # {}
  PROVE  Min(S) \in S /\ \A y \in S : Min(S) <= y
<1> DEFINE R == OpToRel(<, Nat)
<1>1. IsWellFoundedOn(R, Nat)
  BY NatLessThanWellFounded
<1>2. PICK x \in S : \A y \in S : <<y, x>> \notin R
  <2> HIDE DEF R
  <2> QED
    BY <1>1, WFMin
<1>3. R = {ss \in Nat \X Nat : ss[1] < ss[2]}
  BY Zenon DEF OpToRel
<1> HIDE DEF R
<1>4. ASSUME NEW y \in S PROVE x <= y
  <2>1. <<y, x>> \in Nat \X Nat /\ <<y, x>>[1] = y /\ <<y, x>>[2] = x
    OBVIOUS
  <2>2. ~(y < x)
    BY <1>2, <1>3, <2>1
  <2> QED
    BY <2>2
<1> QED
  BY <1>4 DEF Min

\* Products with the deadline: one more turn, and later turns.
LEMMA Turns ==
  /\ \A m \in Int : m * Deadline \in Int
  /\ \A m \in Int : (m + 1) * Deadline = m * Deadline + Deadline
  /\ \A m, n \in Int : m <= n => m * Deadline <= n * Deadline
<1>0. Deadline \in Nat
  BY Numbers
<1> HIDE DEF Deadline
<1>1. \A m, n \in Int : m <= n => m * Deadline <= n * Deadline
  BY <1>0
<1> QED
  BY <1>0, <1>1

\* the largest age in terms of turns
LEMMA MaxAgeNumber == MaxAge \in Nat /\ MaxAge = Interval + Targets * Deadline + Deadline
<1>1. Deadline * (Targets + 1) = (Targets + 1) * Deadline
  BY Numbers
<1>2. Targets * Deadline \in Nat
  BY Numbers
<1> QED
  BY <1>1, <1>2, Numbers, Turns DEF MaxAge
-----------------------------------------------------------------------------
\* While n units pass no result ages by more, and a tick stays or is fired.
LEMMA PassKeeps ==
  ASSUME TypeOK, NEW n \in Nat, Pass(n)
  PROVE  /\ age' \in [Target -> 0..(MaxAge + 1)]
         /\ \A t \in results : age'[t] <= age[t] + n
         /\ phase' \in 0..Interval /\ tick' \in BOOLEAN
         /\ phase < Interval /\ phase + n >= Interval => tick'
<1> USE MaxAgeNumber
<1>1. \A t \in Target : age[t] \in Nat
  BY DEF TypeOK
<1>2. \A m \in Nat : Capped(m) \in 0..(MaxAge + 1) /\ Capped(m) <= m
  BY MinOfTwo DEF Capped
<1>3. age' = [t \in Target |-> IF t \in results THEN Capped(age[t] + n) ELSE 0]
  BY DEF Pass
<1>4. age' \in [Target -> 0..(MaxAge + 1)] /\ \A t \in results : age'[t] <= age[t] + n
  <2>1. \A t \in Target : age[t] + n \in Nat
    BY <1>1
  <2>2. \A t \in Target : /\ Capped(age[t] + n) \in 0..(MaxAge + 1)
                         /\ Capped(age[t] + n) <= age[t] + n
    BY <1>2, <2>1
  <2>3. 0 \in 0..(MaxAge + 1)
    OBVIOUS
  <2>4. results \subseteq Target
    BY DEF TypeOK
  <2> QED
    BY <1>3, <2>2, <2>3, <2>4
<1>5. phase \in 0..Interval /\ tick \in BOOLEAN
  BY DEF TypeOK
<1>6. CASE phase = Interval
  <2>1. phase' = phase /\ tick' = tick
    BY <1>6 DEF Pass
  <2> QED
    BY <1>4, <1>5, <1>6, <2>1, Numbers
<1>7. CASE phase # Interval
  <2>1. phase' = (phase + n) % Interval /\ tick' = (tick \/ phase + n >= Interval)
    BY <1>7 DEF Pass
  <2>2. phase' \in 0..Interval
    BY <1>5, <2>1, Numbers
  <2>3. tick' \in BOOLEAN /\ (phase + n >= Interval => tick')
    BY <1>5, <2>1
  <2> QED
    BY <1>4, <2>2, <2>3
<1> QED
  BY <1>6, <1>7

\* the time a step takes
Spent(d) == IF cancelled THEN 0 ELSE IF d <= left THEN d ELSE left

\* A step takes its time from the deadline and adds it to the ages; what it
\* wanted is counted in need.
LEMMA SpendKeeps ==
  ASSUME TypeOK, NEW d \in 0..Timeout, Spend(d)
  PROVE  /\ run = "probe" /\ Spent(d) \in 0..left
         /\ UNCHANGED <<run, target, results, diagnosis, cancelled>>
         /\ left' = left - Spent(d) /\ left' \in 0..Deadline
         /\ need' = IF cancelled THEN need
                    ELSE IF need + d <= Deadline THEN need + d ELSE Deadline
         /\ need' \in 0..ProbeBudget
         /\ age' \in [Target -> 0..(MaxAge + 1)]
         /\ \A t \in results : age'[t] <= age[t] + Spent(d)
         /\ phase' \in 0..Interval /\ tick' \in BOOLEAN
<1>0. left \in 0..Deadline /\ need \in 0..Deadline /\ d \in Nat
  BY Numbers DEF TypeOK
<1>1. Min({d, left}) = (IF d <= left THEN d ELSE left)
      /\ Min({need + d, ProbeBudget}) = IF need + d <= Deadline THEN need + d ELSE Deadline
  BY <1>0, MinOfTwo, Numbers
<1>2. Pass(Spent(d)) /\ left' = left - Spent(d)
  BY <1>1 DEF Spend, Spent
<1>3. Spent(d) \in 0..left /\ Spent(d) \in Nat
  BY <1>0, Numbers DEF Spent
<1>4. /\ age' \in [Target -> 0..(MaxAge + 1)]
      /\ \A t \in results : age'[t] <= age[t] + Spent(d)
      /\ phase' \in 0..Interval /\ tick' \in BOOLEAN
  BY <1>2, <1>3, PassKeeps
<1>5. need' = IF cancelled THEN need ELSE IF need + d <= Deadline THEN need + d ELSE Deadline
  BY <1>1 DEF Spend
<1>6. need' \in 0..ProbeBudget
  BY <1>0, <1>5, Numbers
<1>7. left' \in 0..Deadline
  BY <1>0, <1>2, <1>3, Numbers
<1>8. run = "probe" /\ UNCHANGED <<run, target, results, diagnosis, cancelled>>
  BY DEF Spend
<1> QED
  BY <1>2, <1>3, <1>4, <1>5, <1>6, <1>7, <1>8

\* types of what a probe finds and of what it meets
Outcomes == [ips : SUBSET Address, todo : SUBSET Address, tcp : BOOLEAN, sni : BOOLEAN,
             nosni : BOOLEAN, status : Status]
Worlds == [a : SUBSET A, bad : BOOLEAN, aaaa : SUBSET AAAA, open : SUBSET Address,
           sni : BOOLEAN, nosni : Handshake, status : Status]
Step == {"a", "aaaa", "tcp", "tls", "tlsNoSNI", "https", "classify", "recorded"}

\* Nothing and Unasked are of these types.
LEMMA FirstTypes == Nothing \in Outcomes /\ Unasked \in Worlds
BY DEF Nothing, Unasked, Outcomes, Worlds, Status, Handshake

\* What a step may meet and find is of the type of what it asks for.
LEMMA MetGot ==
  ASSUME NEW S, NEW real \in S, NEW failure \in S, NEW d
  PROVE  Met(d, real, failure) \in S /\ Got(d, real, failure) \in S
BY DEF Met, Got

\* A step of a probe keeps the types of outcome and world.
LEMMA StepTypes ==
  ASSUME TypeOK, ProbeSteps
  PROVE  /\ \E d \in 0..Timeout : Spend(d)
         /\ step' \in Step /\ out' \in Outcomes /\ world' \in Worlds
<1>0. out \in Outcomes /\ world \in Worlds
  BY DEF TypeOK, Outcomes, Worlds
<1>1. PICK d \in 0..Timeout :
        \/ ResolveA(d) \/ ResolveAAAA(d) \/ ProbeTCP(d)
        \/ \E ok \in BOOLEAN : ProbeTLS(d, ok)
        \/ \E answer \in Handshake : ProbeTLSNoSNI(d, answer)
        \/ \E status \in Status : ProbeHTTPS(d, status)
  BY DEF ProbeSteps
<1>2. Spend(d)
  BY <1>1 DEF ResolveA, ResolveAAAA, ProbeTCP, ProbeTLS, ProbeTLSNoSNI, ProbeHTTPS
<1>3. CASE ResolveA(d)
  <2>1. /\ Met(d, world.a, {}) \in SUBSET A /\ Met(d, world.bad, FALSE) \in BOOLEAN
        /\ Got(d, world.a, {}) \in SUBSET Address
    BY <1>0, MetGot DEF Worlds, Address
  <2>2. world' \in Worlds
    BY <1>0, <1>3, <2>1 DEF ResolveA, Worlds
  <2>3. step' \in Step /\ out' \in Outcomes
    BY <1>0, <1>3, <2>1 DEF ResolveA, Resolved, Outcomes, Step
  <2> QED
    BY <1>2, <2>2, <2>3
<1>4. CASE ResolveAAAA(d)
  <2>1. Met(d, world.aaaa, {}) \in SUBSET AAAA /\ Got(d, world.aaaa, {}) \in SUBSET Address
    BY <1>0, MetGot DEF Worlds, Address
  <2>2. world' \in Worlds
    BY <1>0, <1>4, <2>1 DEF ResolveAAAA, Worlds
  <2>3. step' \in Step /\ out' \in Outcomes
    BY <1>0, <1>4, <2>1 DEF ResolveAAAA, Resolved, Outcomes, Step
  <2> QED
    BY <1>2, <2>2, <2>3
<1>5. CASE ProbeTCP(d)
  <2> DEFINE ip == Min(out.todo)
             got == Got(d, ip \in world.open, FALSE)
  <2>0. world.open \in SUBSET Address /\ world.open \ {ip} \in SUBSET Address
    BY <1>0 DEF Worlds
  <2>1. Met(d, world.open, world.open \ {ip}) \in SUBSET Address
    BY <2>0, MetGot
  <2>g. got \in BOOLEAN
    <3> HIDE DEF ip
    <3>1. CASE Cut(d)
      BY <3>1 DEF Got
    <3>2. CASE ~Cut(d)
      BY <3>2 DEF Got
    <3> QED
      BY <3>1, <3>2
  <2>2. /\ world' = [world EXCEPT !.open = Met(d, @, @ \ {ip})]
        /\ out' = [out EXCEPT !.tcp = got, !.todo = out.todo \ {ip}]
        /\ step' = IF got THEN "tls" ELSE IF out.todo \ {ip} = {} THEN "classify" ELSE "tcp"
    BY <1>5 DEF ProbeTCP
  <2> HIDE DEF ip, got
  <2>3. world' \in Worlds
    BY <1>0, <2>1, <2>2 DEF Worlds
  <2>4. step' \in Step /\ out' \in Outcomes
    BY <1>0, <2>g, <2>2 DEF Outcomes, Step
  <2> QED
    BY <1>2, <2>3, <2>4
<1>6. CASE \E ok \in BOOLEAN : ProbeTLS(d, ok)
  <2>1. PICK ok \in BOOLEAN : ProbeTLS(d, ok)
    BY <1>6
  <2>2. Met(d, ok, FALSE) \in BOOLEAN /\ Got(d, ok, FALSE) \in BOOLEAN
    BY MetGot
  <2> QED
    BY <1>0, <2>1, <2>2 DEF ProbeTLS, Outcomes, Worlds, Step
<1>7. CASE \E answer \in Handshake : ProbeTLSNoSNI(d, answer)
  <2>1. PICK answer \in Handshake : ProbeTLSNoSNI(d, answer)
    BY <1>7
  <2>2. Met(d, answer, "refused") \in Handshake
    BY MetGot DEF Handshake
  <2> QED
    BY <1>0, <2>1, <2>2 DEF ProbeTLSNoSNI, Outcomes, Worlds, Step
<1>8. CASE \E status \in Status : ProbeHTTPS(d, status)
  <2>1. PICK status \in Status : ProbeHTTPS(d, status)
    BY <1>8
  <2>2. Met(d, status, "none") \in Status /\ Got(d, status, "none") \in Status
    BY MetGot DEF Status
  <2> QED
    BY <1>0, <2>1, <2>2 DEF ProbeHTTPS, Outcomes, Worlds, Step
<1> QED
  BY <1>1, <1>2, <1>3, <1>4, <1>5, <1>6, <1>7, <1>8

\* Every step keeps the types, and probes only targets.
LEMMA NextTypes == TypeOK /\ OwnTarget /\ [Next]_vars => TypeOK' /\ OwnTarget'
<1> SUFFICES ASSUME TypeOK, OwnTarget, [Next]_vars PROVE TypeOK' /\ OwnTarget'
  OBVIOUS
<1> USE DEF TypeOK, OwnTarget, probe, report, clocks
<1>0. /\ \A S : out \in S => (UNCHANGED out => out' \in S)
      /\ Deadline \in 0..Deadline /\ 0 \in 0..Deadline /\ 0 \in 0..ProbeBudget
      /\ 1 \in 1..(Targets + 1)
  BY Numbers
<1>1. CASE Begin
  BY <1>1 DEF Begin
<1>2. CASE SelectDone
  BY <1>2 DEF SelectDone
<1>3. CASE SelectTick
  <2>1. tick' \in BOOLEAN
    BY <1>3 DEF SelectTick
  <2> QED
    BY <1>0, <1>3, <2>1 DEF SelectTick
<1>4. CASE Wait
  <2>1. Interval - phase \in Nat
    BY Numbers
  <2>2. /\ age' \in [Target -> 0..(MaxAge + 1)] /\ phase' \in 0..Interval /\ tick' \in BOOLEAN
    BY <1>4, <2>1, PassKeeps DEF Wait
  <2> QED
    BY <1>4, <2>2 DEF Wait
<1>5. CASE RoundEnds
  <2>1. phase' \in 0..Interval
    BY <1>5, Numbers DEF RoundEnds
  <2>2. out' \in Outcomes /\ world' \in Worlds
    BY <1>5, FirstTypes DEF RoundEnds
  <2> QED
    BY <1>0, <1>5, <2>1, <2>2 DEF RoundEnds, Outcomes, Worlds
<1>6. CASE ProbeBegins
  <2>1. world' \in Worlds
    <3>1. PICK a \in SUBSET A, aaaa \in SUBSET AAAA, bad \in BOOLEAN,
               open \in SUBSET Address :
            world' = [Unasked EXCEPT !.a = a, !.bad = bad, !.aaaa = aaaa, !.open = open]
      BY <1>6 DEF ProbeBegins, Address
    <3> QED
      BY <3>1, FirstTypes DEF Worlds
  <2>2. out' \in Outcomes
    BY <1>6, FirstTypes DEF ProbeBegins
  <2> QED
    BY <1>0, <1>6, <2>1, <2>2 DEF ProbeBegins, Outcomes, Worlds
<1>7. CASE ProbeSteps
  <2>1. PICK d \in 0..Timeout : Spend(d)
    BY <1>7, StepTypes
  <2>2. step' \in Step /\ out' \in Outcomes /\ world' \in Worlds
    BY <1>7, StepTypes
  <2>3. /\ UNCHANGED <<run, target, results, diagnosis, cancelled>>
        /\ left' \in 0..Deadline /\ need' \in 0..ProbeBudget
        /\ age' \in [Target -> 0..(MaxAge + 1)]
        /\ phase' \in 0..Interval /\ tick' \in BOOLEAN
    BY <2>1, SpendKeeps
  <2> QED
    BY <2>2, <2>3 DEF Step, Outcomes, Worlds
<1>8. CASE Record
  <2>1. target \in Target /\ target + 1 \in 1..(Targets + 1)
    BY <1>8, Numbers DEF Record, Target
  <2>2. Deadline - left \in 0..(MaxAge + 1)
    BY MaxAgeNumber, Numbers, Turns
  <2>3. age' \in [Target -> 0..(MaxAge + 1)]
    BY <1>8, <2>1, <2>2 DEF Record
  <2>4. diagnosis' \in Diagnosis
    BY <1>8 DEF Record, Classify, Diagnosis
  <2> QED
    BY <1>8, <2>1, <2>3, <2>4 DEF Record
<1>9. CASE Cancel
  <2>1. world' \in Worlds /\ cancelled' \in BOOLEAN
    BY <1>9, FirstTypes DEF Cancel
  <2> QED
    BY <1>0, <1>9, <2>1 DEF Cancel, Worlds
<1>10. CASE UNCHANGED vars
  BY <1>10 DEF vars
<1> QED
  BY <1>1, <1>2, <1>3, <1>4, <1>5, <1>6, <1>7, <1>8, <1>9, <1>10 DEF Next, RunSteps
-----------------------------------------------------------------------------
\* Every step keeps the results dated.
LEMMA NextDated ==
  TypeOK /\ OwnTarget /\ ResultsDated /\ [Next]_vars => ResultsDated'
<1> SUFFICES ASSUME TypeOK, OwnTarget, ResultsDated, [Next]_vars, ~cancelled'
             PROVE  /\ run' \in {"begin", "done"} => results' = {}
                    /\ \A t \in results' : Dated(t)'
  BY DEF ResultsDated
<1> USE DEF probe, report, clocks
<1>0. /\ results \subseteq Target /\ target \in Int /\ left \in 0..Deadline
      /\ Targets \in Nat /\ Interval \in Nat \ {0} /\ Deadline \in Nat
  BY Numbers DEF TypeOK
<1>n. \A t \in Target : t \in Int /\ t >= 1 /\ (t - 1) * Deadline \in Int /\ age[t] \in Nat
  <2>1. \A t \in Target : t \in Int /\ t >= 1 /\ t - 1 \in Int
    BY Numbers DEF Target
  <2>2. \A t \in Target : age[t] \in Nat
    BY MaxAgeNumber DEF TypeOK
  <2> QED
    BY <2>1, <2>2, Turns
<1>m. (target - 1) * Deadline \in Int /\ Targets * Deadline \in Int
  BY <1>0, Turns
<1>1. ASSUME ~cancelled PROVE /\ run \in {"begin", "done"} => results = {}
                              /\ \A t \in results : Dated(t)
  BY <1>1 DEF ResultsDated
<1> HIDE DEF Deadline
<1>2. CASE Begin
  BY <1>1, <1>2 DEF Begin
<1>3. CASE SelectDone
  BY <1>3 DEF SelectDone
<1>4. CASE SelectTick
  <2>1. ~cancelled /\ results' = results /\ age' = age /\ run' = "round" /\ target' = 1
        /\ run = "select" /\ tick
    BY <1>4 DEF SelectTick
  <2>2. (1 - 1) * Deadline = 0
    BY <1>0
  <2>3. ASSUME NEW t \in results PROVE Dated(t)'
    <3>1. age[t] + (t - 1) * Deadline <= Targets * Deadline + Interval
      BY <1>1, <2>1 DEF Dated
    <3>2. ~(t < 1)
      BY <1>0, <1>n
    <3> QED
      BY <1>0, <1>n, <1>m, <2>1, <2>2, <3>1, <3>2 DEF Dated, Elapsed, InProbe
  <2> QED
    BY <2>1, <2>3
<1>5. CASE Wait
  <2>1. ~cancelled /\ results' = results /\ run' = "select" /\ run = "select" /\ ~tick
    BY <1>5 DEF Wait
  <2>2. phase \in 0..Interval /\ Interval - phase \in Nat
    BY <1>0 DEF TypeOK
  <2>3. /\ \A t \in results : age'[t] <= age[t] + (Interval - phase)
        /\ age' \in [Target -> 0..(MaxAge + 1)]
        /\ phase < Interval => tick'
    BY <1>0, <1>5, <2>2, PassKeeps DEF Wait
  <2>4. ASSUME NEW t \in results PROVE Dated(t)'
    <3>1. age[t] + (t - 1) * Deadline <= Targets * Deadline
      BY <1>0, <1>1, <1>m, <2>1 DEF Dated
    <3>2. age'[t] \in Nat /\ age'[t] <= age[t] + (Interval - phase)
      BY <1>0, <2>3, MaxAgeNumber
    <3>3. age'[t] + (t - 1) * Deadline
            <= Targets * Deadline + (IF phase < Interval THEN Interval ELSE 0)
      BY <1>0, <1>n, <1>m, <2>2, <3>1, <3>2
    <3>4. age'[t] + (t - 1) * Deadline <= Targets * Deadline + (IF tick' THEN Interval ELSE 0)
      BY <1>0, <1>n, <1>m, <2>2, <2>3, <3>2, <3>3
    <3> QED
      BY <2>1, <3>4 DEF Dated
  <2> QED
    BY <2>1, <2>4
<1>6. CASE RoundEnds
  <2>1. /\ ~cancelled /\ results' = results /\ age' = age /\ run' = "select" /\ run = "round"
        /\ target > Targets
    BY <1>6 DEF RoundEnds
  <2>2. target - 1 = Targets
    BY <1>0, <2>1 DEF TypeOK
  <2>3. ASSUME NEW t \in results PROVE Dated(t)'
    <3>1. t < target /\ Elapsed = Targets * Deadline
      BY <1>0, <1>m, <2>1, <2>2 DEF Target, Elapsed, InProbe
    <3>2. age[t] + (t - 1) * Deadline <= Targets * Deadline
      BY <1>1, <2>1, <3>1 DEF Dated
    <3> QED
      BY <1>0, <1>n, <1>m, <2>1, <3>2 DEF Dated
  <2> QED
    BY <2>1, <2>3
<1>7. CASE ProbeBegins
  <2>1. /\ ~cancelled /\ results' = results /\ age' = age /\ run' = "probe" /\ run = "round"
        /\ target' = target /\ left' = Deadline
    BY <1>7 DEF ProbeBegins
  <2>2. Elapsed' = Elapsed
    BY <1>0, <1>m, <2>1 DEF Elapsed, InProbe, Deadline
  <2> QED
    BY <1>1, <2>1, <2>2 DEF Dated
<1>8. CASE ProbeSteps
  <2>1. PICK d \in 0..Timeout : Spend(d)
    BY <1>8, StepTypes
  <2>2. /\ run = "probe" /\ Spent(d) \in 0..left
        /\ UNCHANGED <<run, target, results, diagnosis, cancelled>>
        /\ left' = left - Spent(d)
        /\ \A t \in results : age'[t] <= age[t] + Spent(d)
        /\ age' \in [Target -> 0..(MaxAge + 1)]
    BY <2>1, SpendKeeps
  <2>3. Elapsed' = Elapsed + Spent(d) /\ Elapsed \in Int
    BY <1>0, <1>m, <2>2 DEF Elapsed, InProbe, Deadline
  <2>4. ASSUME NEW t \in results PROVE Dated(t)'
    <3>1. age[t] + (t - 1) * Deadline
            <= IF t < target THEN Elapsed ELSE Elapsed + Interval + Targets * Deadline
      BY <1>1, <2>2 DEF Dated
    <3>2. age'[t] \in Nat /\ age'[t] <= age[t] + Spent(d) /\ age[t] \in Nat /\ Spent(d) \in Nat
      BY <1>0, <1>n, <2>2, MaxAgeNumber
    <3>3. age'[t] + (t - 1) * Deadline
            <= IF t < target THEN Elapsed' ELSE Elapsed' + Interval + Targets * Deadline
      BY <1>0, <1>n, <1>m, <2>3, <3>1, <3>2
    <3> QED
      BY <2>2, <3>3 DEF Dated
  <2> QED
    BY <2>2, <2>4
<1>9. CASE Record
  <2>1. /\ ~cancelled /\ results' = results \cup {target} /\ run = "probe" /\ run' = "round"
        /\ target' = target + 1 /\ age' = [age EXCEPT ![target] = Deadline - left]
        /\ target \in Target
    BY <1>9 DEF Record, OwnTarget
  <2>2. Elapsed = (target - 1) * Deadline + (Deadline - left)
    BY <2>1 DEF Elapsed, InProbe
  <2>3. Elapsed' = (target - 1) * Deadline + Deadline
    <3>1. Elapsed' = ((target + 1) - 1) * Deadline + 0
      BY <2>1 DEF Elapsed, InProbe, Deadline
    <3>2. (target + 1) - 1 = (target - 1) + 1
      BY <1>0
    <3> QED
      BY <1>0, <1>m, <3>1, <3>2, Turns
  <2>4. ASSUME NEW t \in results \cup {target} PROVE Dated(t)'
    <3>1. t \in Target /\ age'[t] = IF t = target THEN Deadline - left ELSE age[t]
      BY <1>0, <2>1 DEF TypeOK
    <3>2. CASE t = target
      BY <1>0, <1>n, <1>m, <2>1, <2>3, <3>1, <3>2 DEF Dated
    <3>3. CASE t # target
      <4>1. age[t] + (t - 1) * Deadline
              <= IF t < target THEN Elapsed ELSE Elapsed + Interval + Targets * Deadline
        BY <1>1, <2>1, <3>3 DEF Dated
      <4>2. t < target <=> t < target + 1
        BY <1>0, <1>n, <3>1, <3>3
      <4>3. Elapsed <= Elapsed' /\ Elapsed \in Int /\ Elapsed' \in Int
        BY <1>0, <1>m, <2>2, <2>3
      <4>4. age'[t] + (t - 1) * Deadline
              <= IF t < target' THEN Elapsed' ELSE Elapsed' + Interval + Targets * Deadline
        BY <1>0, <1>n, <1>m, <2>1, <3>1, <3>3, <4>1, <4>2, <4>3
      <4> QED
        BY <2>1, <4>4 DEF Dated
    <3> QED
      BY <3>2, <3>3
  <2> QED
    BY <2>1, <2>4
<1>10. CASE Cancel
  BY <1>10 DEF Cancel
<1>11. CASE UNCHANGED vars
  <2>1. ~cancelled /\ UNCHANGED <<run, target, left, results, age, tick>>
    BY <1>11 DEF vars
  <2> QED
    BY <1>1, <2>1 DEF Dated, Elapsed, InProbe, Deadline
<1> QED
  BY <1>2, <1>3, <1>4, <1>5, <1>6, <1>7, <1>8, <1>9, <1>10, <1>11 DEF Next, RunSteps
-----------------------------------------------------------------------------
\* Each layer was found working or not as it is, up to the first that was not.
\* The exception is the A record's bad rcode, which hides AAAA records.
Understood ==
  \/ world.bad /\ out.ips = {}
  \/ /\ out.ips = Addresses(world)
     /\ out.tcp <=> world.open \cap Addresses(world) # {}
     /\ out.tcp => (out.sni <=> world.sni)
     /\ out.tcp /\ out.sni => /\ out.nosni <=> world.nosni = "ok"
                              /\ out.status = world.status

\* What a probe that was not cut short has found out before each of its steps.
FoundSoFar ==
  /\ step = "a" => out = Nothing
  /\ step = "aaaa" => out = [Nothing EXCEPT !.ips = world.a] /\ ~world.bad
  /\ step \in {"tcp", "tls", "tlsNoSNI", "https"} => out.ips = Addresses(world)
  /\ step = "tcp" => /\ out.todo # {} /\ out.todo \subseteq out.ips
                     /\ world.open \cap out.ips \subseteq out.todo
  /\ step \in {"tls", "tlsNoSNI", "https"} =>
       out.tcp /\ world.open \cap Addresses(world) # {}
  /\ step = "tlsNoSNI" => (out.sni <=> world.sni)
  /\ step = "https" => out.sni /\ world.sni /\ (out.nosni <=> world.nosni = "ok")
  /\ step = "classify" => Understood

\* What is left of the deadline is what the steps have not wanted yet; while
\* something is left no step was cut short.
Faithful ==
  /\ run \in {"begin", "select"} => step = "a"
  /\ run = "probe" /\ ~cancelled => /\ need + left = Deadline
                                    /\ need < Deadline => FoundSoFar

\* The first layer, if any, at which the probe found nothing is the first at
\* which there was nothing.
LEMMA SuffersIf ==
  ASSUME NEW w \in Worlds
  PROVE  Suffers(w) = IF Addresses(w) = {} THEN "dns_resolution_failed"
                      ELSE IF w.open \cap Addresses(w) = {} THEN "egress_blocked_or_network"
                      ELSE IF ~w.sni THEN "tls_handshake_failed"
                      ELSE IF w.nosni = "refused" THEN "tls_sni_required"
                      ELSE IF w.status = "blocked" THEN "provider_block_suspected"
                      ELSE IF w.status = "none" THEN "https_failed"
                      ELSE "healthy"
<1> DEFINE L == Layers(w)
           I == {i \in 1..Len(L) : ~L[i][2]}
           k == IF Addresses(w) = {} THEN 1
                ELSE IF w.open \cap Addresses(w) = {} THEN 2
                ELSE IF ~w.sni THEN 3
                ELSE IF w.nosni = "refused" THEN 4
                ELSE IF w.status = "blocked" THEN 5
                ELSE IF w.status = "none" THEN 6
                ELSE 7
<1>1. /\ Len(L) = 7
      /\ L[1] = <<"dns_resolution_failed", Addresses(w) # {}>>
      /\ L[2] = <<"egress_blocked_or_network", w.open \cap Addresses(w) # {}>>
      /\ L[3] = <<"tls_handshake_failed", w.sni>>
      /\ L[4] = <<"tls_sni_required", w.nosni # "refused">>
      /\ L[5] = <<"provider_block_suspected", w.status # "blocked">>
      /\ L[6] = <<"https_failed", w.status # "none">>
      /\ L[7] = <<"healthy", FALSE>>
  BY DEF Layers
<1>2. SelectInSeq(L, LAMBDA layer : ~layer[2]) = IF I # {} THEN Min(I) ELSE 0
  BY DEF SelectInSeq
<1> HIDE DEF L
<1>3. /\ L[1][2] = (Addresses(w) # {}) /\ L[2][2] = (w.open \cap Addresses(w) # {})
      /\ L[3][2] = w.sni /\ L[4][2] = (w.nosni # "refused")
      /\ L[5][2] = (w.status # "blocked") /\ L[6][2] = (w.status # "none")
      /\ L[7][2] = FALSE
  BY <1>1
<1>4. k \in I /\ \A i \in I : k <= i
  <2>1. I \subseteq 1..7 /\ k \in 1..7
    BY <1>1
  <2>2. w.sni \in BOOLEAN
    BY DEF Worlds
  <2>3. /\ 1 \in I <=> Addresses(w) = {}
        /\ 2 \in I <=> w.open \cap Addresses(w) = {}
        /\ 3 \in I <=> ~w.sni
        /\ 4 \in I <=> w.nosni = "refused"
        /\ 5 \in I <=> w.status = "blocked"
        /\ 6 \in I <=> w.status = "none"
        /\ 7 \in I
    <3>1. \A i \in 1..7 : i \in I <=> ~L[i][2]
      BY <1>1
    <3>2. 1 \in 1..7 /\ 2 \in 1..7 /\ 3 \in 1..7 /\ 4 \in 1..7 /\ 5 \in 1..7 /\ 6 \in 1..7
          /\ 7 \in 1..7
      OBVIOUS
    <3> HIDE DEF I
    <3> QED
      BY <1>3, <3>1, <3>2, Zenon
  <2> HIDE DEF I
  <2> QED
    BY <2>1, <2>3
<1>5. Min(I) = k
  <2>1. I \in SUBSET Nat /\ k \in Nat
    BY <1>1
  <2> HIDE DEF I, k
  <2>2. Min(I) \in I /\ \A i \in I : Min(I) <= i
    BY <1>4, <2>1, MinInSet
  <2>3. Min(I) \in Nat /\ k <= Min(I) /\ Min(I) <= k
    BY <1>4, <2>1, <2>2
  <2> QED
    BY <2>1, <2>3
<1>6. Suffers(w) = L[k][1]
  <2>1. I # {}
    BY <1>4
  <2> HIDE DEF I, k
  <2> QED
    BY <1>2, <1>5, <2>1 DEF Suffers, L
<1> QED
  BY <1>1, <1>6

\* A probe that has understood every layer is classified accordingly.
LEMMA ClassifyAccurate ==
  ASSUME TypeOK, Understood
  PROVE  Classify = Suffers(world) \/ Misjudged(world, Classify)
<1>1. out \in Outcomes /\ world \in Worlds
  BY DEF TypeOK, Outcomes, Worlds
<1>2. /\ world.nosni \in {"ok", "refused", "certificate"}
      /\ world.status \in {"blocked", "other", "none"}
  BY <1>1 DEF Worlds, Handshake, Status
<1>3. CASE world.bad /\ out.ips = {}
  BY <1>3 DEF Classify, Misjudged
<1>4. CASE ~(world.bad /\ out.ips = {})
  BY <1>1, <1>2, <1>4, SuffersIf DEF Classify, Understood, Misjudged
<1> QED
  BY <1>3, <1>4

\* A step that the deadline does not cut finds what it meets.
LEMMA StepFaithful ==
  ASSUME TypeOK, Faithful, ProbeSteps, ~cancelled
  PROVE  need' + left' = Deadline /\ (need' < Deadline => FoundSoFar')
<1>0. /\ out \in Outcomes /\ world \in Worlds /\ left \in Nat /\ need \in Nat
      /\ Timeout \in Nat /\ Deadline \in Nat
  BY Numbers DEF TypeOK, Outcomes, Worlds
<1>1. PICK d \in 0..Timeout :
        \/ ResolveA(d) \/ ResolveAAAA(d) \/ ProbeTCP(d)
        \/ \E ok \in BOOLEAN : ProbeTLS(d, ok)
        \/ \E answer \in Handshake : ProbeTLSNoSNI(d, answer)
        \/ \E status \in Status : ProbeHTTPS(d, status)
  BY DEF ProbeSteps
<1>2. Spend(d)
  BY <1>1 DEF ResolveA, ResolveAAAA, ProbeTCP, ProbeTLS, ProbeTLSNoSNI, ProbeHTTPS
<1>3. /\ run = "probe" /\ left' = left - Spent(d)
      /\ need' = IF need + d <= Deadline THEN need + d ELSE Deadline
  BY <1>2, SpendKeeps
<1>4. need + left = Deadline /\ (need < Deadline => FoundSoFar)
  BY <1>3 DEF Faithful
<1>5. need' + left' = Deadline
  BY <1>0, <1>3, <1>4 DEF Spent
<1> SUFFICES ASSUME need' < Deadline PROVE FoundSoFar'
  BY <1>5
<1>6. FoundSoFar /\ d < left
  BY <1>0, <1>3, <1>4
<1>7. \A real, failure : /\ Met(d, real, failure) = IF d >= Timeout THEN failure ELSE real
                         /\ Got(d, real, failure) = IF d >= Timeout THEN failure ELSE real
  BY <1>0, <1>6 DEF Met, Got, Cut
<1>8. CASE ResolveA(d)
  <2>1. step = "a" /\ out = Nothing
    BY <1>6, <1>8 DEF ResolveA, FoundSoFar
  <2>2. CASE d >= Timeout
    <3>1. /\ world' = [world EXCEPT !.a = {}, !.bad = FALSE]
          /\ step' = "aaaa" /\ out' = [out EXCEPT !.ips = {}]
      <4>1. /\ Met(d, world.a, {}) = {} /\ Met(d, world.bad, FALSE) = FALSE
            /\ Got(d, world.a, {}) = {} /\ Got(d, world.bad, FALSE) = FALSE
        BY <1>7, <2>2
      <4> QED
        BY <1>8, <4>1 DEF ResolveA
    <3> QED
      BY <1>0, <2>1, <3>1 DEF FoundSoFar, Worlds
  <2>3. CASE ~(d >= Timeout) /\ world.bad
    <3>1. world' = world /\ step' = "classify" /\ out' = [out EXCEPT !.ips = {}, !.todo = {}]
      <4>1. /\ Met(d, world.a, {}) = world.a /\ Met(d, world.bad, FALSE) = world.bad
            /\ Got(d, world.bad, FALSE)
        BY <1>7, <2>3
      <4>2. world' = [world EXCEPT !.a = world.a, !.bad = world.bad]
        BY <1>8, <4>1 DEF ResolveA
      <4>3. step' = "classify" /\ out' = [out EXCEPT !.ips = {}, !.todo = {}]
        BY <1>8, <4>1 DEF ResolveA, Resolved
      <4> QED
        BY <1>0, <4>2, <4>3 DEF Worlds
    <3> QED
      BY <1>0, <2>1, <2>3, <3>1 DEF FoundSoFar, Understood, Addresses, Nothing
  <2>4. CASE ~(d >= Timeout) /\ ~world.bad
    <3>1. world' = world /\ step' = "aaaa" /\ out' = [out EXCEPT !.ips = world.a]
      <4>1. /\ Met(d, world.a, {}) = world.a /\ Met(d, world.bad, FALSE) = world.bad
            /\ Got(d, world.a, {}) = world.a /\ Got(d, world.bad, FALSE) = world.bad
        BY <1>7, <2>4
      <4>2. world' = [world EXCEPT !.a = world.a, !.bad = world.bad]
        BY <1>8, <4>1 DEF ResolveA
      <4>3. step' = "aaaa" /\ out' = [out EXCEPT !.ips = world.a]
        BY <1>8, <2>4, <4>1 DEF ResolveA
      <4> QED
        BY <1>0, <4>2, <4>3 DEF Worlds
    <3> QED
      BY <2>1, <2>4, <3>1 DEF FoundSoFar
  <2> QED
    BY <2>2, <2>3, <2>4
<1>9. CASE ResolveAAAA(d)
  <2> DEFINE aaaa == IF d >= Timeout THEN {} ELSE world.aaaa
             ips == world.a \cup aaaa
  <2>1. step = "aaaa" /\ out = [Nothing EXCEPT !.ips = world.a] /\ ~world.bad
    BY <1>6, <1>9 DEF ResolveAAAA, FoundSoFar
  <2>2. out.ips = world.a /\ out.tcp = FALSE
    BY <2>1 DEF Nothing
  <2>3. /\ world' = [world EXCEPT !.aaaa = aaaa]
        /\ out' = [out EXCEPT !.ips = ips, !.todo = ips]
        /\ step' = IF ips = {} THEN "classify" ELSE "tcp"
    <3>1. Met(d, world.aaaa, {}) = aaaa /\ Got(d, world.aaaa, {}) = aaaa
      BY <1>7
    <3>2. out.ips \cup aaaa = ips
      BY <2>2
    <3> HIDE DEF aaaa, ips
    <3> QED
      BY <1>9, <3>1, <3>2 DEF ResolveAAAA, Resolved
  <2>4. Addresses(world') = ips /\ out'.ips = ips /\ out'.todo = ips /\ out'.tcp = FALSE
    BY <1>0, <2>1, <2>2, <2>3 DEF Addresses, Worlds, Outcomes
  <2> HIDE DEF ips, aaaa
  <2> QED
    BY <2>3, <2>4 DEF FoundSoFar, Understood
<1>10. CASE ProbeTCP(d)
  <2> DEFINE ip == Min(out.todo)
             got == ~(d >= Timeout) /\ ip \in world.open
             todo == out.todo \ {ip}
  <2>1. /\ step = "tcp" /\ out.ips = Addresses(world)
        /\ out.todo # {} /\ out.todo \subseteq out.ips
        /\ world.open \cap out.ips \subseteq out.todo
    BY <1>6, <1>10 DEF ProbeTCP, FoundSoFar
  <2>2. ip \in out.todo
    <3>1. out.todo \in SUBSET Nat
      BY <1>0, Numbers DEF Outcomes, Address
    <3> QED
      BY <2>1, <3>1, MinInSet
  <2>3. /\ world' = [world EXCEPT !.open = IF d >= Timeout THEN @ \ {ip} ELSE @]
        /\ out' = [out EXCEPT !.tcp = got, !.todo = todo]
        /\ step' = IF got THEN "tls" ELSE IF todo = {} THEN "classify" ELSE "tcp"
    <3>1. Met(d, world.open, world.open \ {ip})
            = IF d >= Timeout THEN world.open \ {ip} ELSE world.open
      BY <1>7
    <3> HIDE DEF ip
    <3>2. Got(d, ip \in world.open, FALSE) = got
      <4>1. CASE d >= Timeout
        BY <1>7, <4>1
      <4>2. CASE ~(d >= Timeout)
        <5>1. Got(d, ip \in world.open, FALSE) = (ip \in world.open)
          BY <1>7, <4>2
        <5>2. got = (ip \in world.open)
          BY <4>2
        <5> HIDE DEF got
        <5> QED
          BY <5>1, <5>2
      <4> QED
        BY <4>1, <4>2
    <3> HIDE DEF got
    <3> QED
      BY <1>10, <3>1, <3>2 DEF ProbeTCP, ip
  <2> HIDE DEF ip
  <2>4. /\ Addresses(world') = Addresses(world) /\ out'.ips = out.ips /\ out'.todo = todo
        /\ out'.tcp = got
        /\ world'.open = IF d >= Timeout THEN world.open \ {ip} ELSE world.open
    BY <1>0, <2>3 DEF Addresses, Worlds, Outcomes
  <2>5. CASE got
    BY <2>1, <2>2, <2>3, <2>4, <2>5 DEF FoundSoFar
  <2>6. CASE ~got
    <3>1. world'.open \cap out.ips \subseteq todo
      BY <2>1, <2>4, <2>6
    <3> QED
      BY <2>1, <2>3, <2>4, <2>6, <3>1 DEF FoundSoFar, Understood
  <2> QED
    BY <2>5, <2>6
<1>11. CASE \E ok \in BOOLEAN : ProbeTLS(d, ok)
  <2>1. PICK ok \in BOOLEAN : ProbeTLS(d, ok)
    BY <1>11
  <2> DEFINE sni == IF d >= Timeout THEN FALSE ELSE ok
  <2>2. /\ step = "tls" /\ out.ips = Addresses(world)
        /\ out.tcp /\ world.open \cap Addresses(world) # {}
    BY <1>6, <2>1 DEF ProbeTLS, FoundSoFar
  <2>3. /\ world' = [world EXCEPT !.sni = sni] /\ out' = [out EXCEPT !.sni = sni]
        /\ step' = "tlsNoSNI"
    BY <1>7, <2>1 DEF ProbeTLS
  <2> HIDE DEF sni
  <2>4. /\ Addresses(world') = Addresses(world) /\ out'.ips = out.ips /\ out'.tcp = out.tcp
        /\ world'.open = world.open /\ world'.sni = sni /\ out'.sni = sni
    BY <1>0, <2>3 DEF Addresses, Worlds, Outcomes
  <2> QED
    BY <2>2, <2>3, <2>4 DEF FoundSoFar
<1>12. CASE \E answer \in Handshake : ProbeTLSNoSNI(d, answer)
  <2>1. PICK answer \in Handshake : ProbeTLSNoSNI(d, answer)
    BY <1>12
  <2> DEFINE nosni == IF d >= Timeout THEN "refused" ELSE answer
  <2>2. /\ step = "tlsNoSNI" /\ out.ips = Addresses(world) /\ (out.sni <=> world.sni)
        /\ out.tcp /\ world.open \cap Addresses(world) # {}
    BY <1>6, <2>1 DEF ProbeTLSNoSNI, FoundSoFar
  <2>3. /\ world' = [world EXCEPT !.nosni = nosni]
        /\ out' = [out EXCEPT !.nosni = (nosni = "ok")]
        /\ step' = IF out.sni THEN "https" ELSE "classify"
    BY <1>7, <2>1 DEF ProbeTLSNoSNI
  <2> HIDE DEF nosni
  <2>4. /\ Addresses(world') = Addresses(world) /\ out'.ips = out.ips /\ out'.tcp = out.tcp
        /\ world'.open = world.open /\ world'.sni = world.sni /\ out'.sni = out.sni
        /\ world'.nosni = nosni /\ out'.nosni = (nosni = "ok")
    BY <1>0, <2>3 DEF Addresses, Worlds, Outcomes
  <2> QED
    BY <2>2, <2>3, <2>4 DEF FoundSoFar, Understood
<1>13. CASE \E status \in Status : ProbeHTTPS(d, status)
  <2>1. PICK status \in Status : ProbeHTTPS(d, status)
    BY <1>13
  <2> DEFINE answer == IF d >= Timeout THEN "none" ELSE status
  <2>2. /\ step = "https" /\ out.ips = Addresses(world) /\ out.sni /\ world.sni
        /\ out.tcp /\ world.open \cap Addresses(world) # {}
        /\ out.nosni <=> world.nosni = "ok"
    BY <1>6, <2>1 DEF ProbeHTTPS, FoundSoFar
  <2>3. /\ world' = [world EXCEPT !.status = answer] /\ out' = [out EXCEPT !.status = answer]
        /\ step' = "classify"
    BY <1>7, <2>1 DEF ProbeHTTPS
  <2> HIDE DEF answer
  <2>4. /\ Addresses(world') = Addresses(world) /\ out'.ips = out.ips /\ out'.tcp = out.tcp
        /\ world'.open = world.open /\ world'.sni = world.sni /\ out'.sni = out.sni
        /\ world'.nosni = world.nosni /\ out'.nosni = out.nosni
        /\ world'.status = answer /\ out'.status = answer
    BY <1>0, <2>3 DEF Addresses, Worlds, Outcomes
  <2> QED
    BY <2>2, <2>3, <2>4 DEF FoundSoFar, Understood
<1> QED
  BY <1>1, <1>8, <1>9, <1>10, <1>11, <1>12, <1>13

\* Every step keeps what is known, and a diagnosis is made of it.
LEMMA NextFaithful ==
  TypeOK /\ Faithful /\ Accurate /\ [Next]_vars => Faithful' /\ Accurate'
<1> SUFFICES ASSUME TypeOK, Faithful, Accurate, [Next]_vars PROVE Faithful' /\ Accurate'
  OBVIOUS
<1> USE DEF probe, report, clocks
<1>1. CASE Begin \/ SelectDone \/ SelectTick \/ Wait
  BY <1>1 DEF Begin, SelectDone, SelectTick, Wait, Faithful, Accurate
<1>2. CASE RoundEnds
  BY <1>2 DEF RoundEnds, Faithful, Accurate
<1>3. CASE ProbeBegins
  <2>1. /\ run' = "probe" /\ step' = "a" /\ out' = Nothing
        /\ need' = 0 /\ left' = Deadline
    BY <1>3 DEF ProbeBegins
  <2>2. need' + left' = Deadline /\ FoundSoFar'
    BY <2>1, Numbers DEF FoundSoFar
  <2> QED
    BY <2>1, <2>2 DEF Faithful, Accurate, Deadline
<1>4. CASE ProbeSteps
  <2>1. run' = "probe" /\ run = "probe" /\ cancelled' = cancelled
    BY <1>4, StepTypes DEF Spend
  <2>2. ~cancelled => need' + left' = Deadline /\ (need' < Deadline => FoundSoFar')
    BY <1>4, StepFaithful
  <2> QED
    BY <2>1, <2>2 DEF Faithful, Accurate, Deadline
<1>5. CASE Record
  <2>1. /\ run = "probe" /\ step = "classify" /\ run' = "round" /\ step' = "recorded"
        /\ diagnosis' = Classify /\ UNCHANGED <<need, world, cancelled>>
    BY <1>5 DEF Record
  <2>2. ~cancelled /\ need < Deadline => Understood
    BY <2>1 DEF Faithful, FoundSoFar
  <2>3. Suffers(world') = Suffers(world)
    BY <2>1
  <2>4. Accurate'
    BY <2>1, <2>2, <2>3, ClassifyAccurate, Numbers DEF Accurate
  <2> QED
    BY <2>1, <2>4 DEF Faithful
<1>6. CASE Cancel
  BY <1>6 DEF Cancel, Faithful, Accurate
<1>7. CASE UNCHANGED vars
  <2>1. UNCHANGED <<run, step, left, out, world, need, diagnosis, cancelled>>
    BY <1>7 DEF vars
  <2>2. Accurate'
    BY <2>1 DEF Accurate
  <2>3. Faithful'
    BY <2>1 DEF Faithful, FoundSoFar, Understood, Addresses, Deadline
  <2> QED
    BY <2>2, <2>3 DEF Faithful
<1> QED
  BY <1>1, <1>2, <1>3, <1>4, <1>5, <1>6, <1>7 DEF Next, RunSteps
-----------------------------------------------------------------------------
\* What a probe has found working works, whether or not the deadline cut steps
\* short: they can only have missed something.
FoundReal ==
  run = "probe" /\ ~cancelled =>
    /\ out.ips \subseteq Addresses(world) /\ out.todo \subseteq out.ips
    /\ step \in {"a", "aaaa"} => out.ips \subseteq world.a /\ out.todo = {} /\ ~out.tcp
    /\ step = "tcp" => out.todo # {}
    /\ out.tcp => world.open \cap Addresses(world) # {}
    /\ out.sni => world.sni
    /\ out.nosni => world.nosni # "refused"

\* So a diagnosis made of it clears no layer that does not work.
LEMMA ClassifyReal ==
  ASSUME TypeOK, FoundReal, run = "probe", ~cancelled,
         NEW i \in 1..4, NEW j \in 1..Len(Layers(world)), i < j,
         Layers(world)[j][1] = Classify
  PROVE  Layers(world)[i][2]
<1> DEFINE L == Layers(world)
<1>1. world \in Worlds
  BY DEF TypeOK, Worlds
<1>2. /\ L[1][2] = (Addresses(world) # {})
      /\ L[2][2] = (world.open \cap Addresses(world) # {})
      /\ L[3][2] = world.sni /\ L[4][2] = (world.nosni # "refused")
  BY DEF Layers
<1>3. /\ Len(L) = 7
      /\ L[1][1] = "dns_resolution_failed" /\ L[2][1] = "egress_blocked_or_network"
      /\ L[3][1] = "tls_handshake_failed" /\ L[4][1] = "tls_sni_required"
      /\ L[5][1] = "provider_block_suspected" /\ L[6][1] = "https_failed"
      /\ L[7][1] = "healthy"
  BY DEF Layers
<1>4. /\ L[1][1] = Classify => out.ips = {}
      /\ L[2][1] = Classify => out.ips # {}
      /\ L[3][1] = Classify => out.ips # {} /\ out.tcp
      /\ L[4][1] = Classify => out.ips # {} /\ out.tcp /\ out.sni
      /\ Classify \notin {L[1][1], L[2][1], L[3][1], L[4][1]} =>
           out.ips # {} /\ out.tcp /\ out.sni /\ out.nosni
  BY <1>3 DEF Classify
<1> HIDE DEF L
<1>5. /\ out.ips # {} => Addresses(world) # {}
      /\ out.tcp => world.open \cap Addresses(world) # {}
      /\ out.sni => world.sni
      /\ out.nosni => world.nosni # "refused"
  BY DEF FoundReal
<1>6. L[j][1] = Classify /\ i \in 1..4 /\ i < j /\ j \in 1..7
  BY <1>3 DEF L
<1>7. L[i][2]
  <2>1. CASE Classify \notin {L[1][1], L[2][1], L[3][1], L[4][1]}
    <3>1. L[1][2] /\ L[2][2] /\ L[3][2] /\ L[4][2]
      BY <1>2, <1>4, <1>5, <2>1
    <3>2. i = 1 \/ i = 2 \/ i = 3 \/ i = 4
      BY <1>6
    <3> QED
      BY <3>1, <3>2
  <2>2. CASE Classify \in {L[1][1], L[2][1], L[3][1], L[4][1]}
    <3>1. \/ j \in {1, 5, 6, 7}
          \/ j = 2 /\ i = 1
          \/ j = 3 /\ i \in {1, 2}
          \/ j = 4 /\ i \in {1, 2, 3}
      BY <1>6
    <3>2. j \notin {1, 5, 6, 7}
      BY <1>3, <1>6, <2>2
    <3>3. CASE j = 2 /\ i = 1
      BY <1>2, <1>4, <1>5, <1>6, <3>3
    <3>4. CASE j = 3 /\ i \in {1, 2}
      BY <1>2, <1>4, <1>5, <1>6, <3>4
    <3>5. CASE j = 4 /\ i \in {1, 2, 3}
      BY <1>2, <1>4, <1>5, <1>6, <3>5
    <3> QED
      BY <3>1, <3>2, <3>3, <3>4, <3>5
  <2> QED
    BY <2>1, <2>2
<1> QED
  BY <1>7 DEF L

\* The steps of a probe keep it so: a step finds nothing or what it meets.
LEMMA StepReal ==
  ASSUME TypeOK, FoundReal, ProbeSteps, ~cancelled
  PROVE  FoundReal'
<1>0. out \in Outcomes /\ world \in Worlds
  BY DEF TypeOK, Outcomes, Worlds
<1>1. PICK d \in 0..Timeout :
        \/ ResolveA(d) \/ ResolveAAAA(d) \/ ProbeTCP(d)
        \/ \E ok \in BOOLEAN : ProbeTLS(d, ok)
        \/ \E answer \in Handshake : ProbeTLSNoSNI(d, answer)
        \/ \E status \in Status : ProbeHTTPS(d, status)
  BY DEF ProbeSteps
<1>2. run = "probe"
  BY <1>1 DEF ResolveA, ResolveAAAA, ProbeTCP, ProbeTLS, ProbeTLSNoSNI, ProbeHTTPS, Spend
<1>3. ASSUME NEW real, NEW failure
      PROVE  \/ Got(d, real, failure) = failure
             \/ Got(d, real, failure) = real /\ Met(d, real, failure) = real
  <2>1. CASE Cut(d)
    BY <2>1 DEF Got
  <2>2. CASE ~Cut(d)
    BY <2>2 DEF Got, Met, Cut
  <2> QED
    BY <2>1, <2>2
<1>4. CASE ResolveA(d)
  <2> DEFINE a == Met(d, world.a, {})
             bad == Met(d, world.bad, FALSE)
             found == Got(d, world.a, {})
  <2>1. found \subseteq a
    BY <1>3
  <2>2. /\ step = "a" /\ out.ips \subseteq world.a /\ out.todo = {} /\ ~out.tcp
        /\ out.sni => world.sni
        /\ out.nosni => world.nosni # "refused"
    BY <1>2, <1>4 DEF ResolveA, FoundReal
  <2>3. world' = [world EXCEPT !.a = a, !.bad = bad]
    BY <1>4 DEF ResolveA
  <2>4. \/ step' = "aaaa" /\ out' = [out EXCEPT !.ips = found]
        \/ step' = "classify" /\ out' = [out EXCEPT !.ips = {}, !.todo = {}]
    BY <1>4 DEF ResolveA, Resolved
  <2> HIDE DEF a, bad, found
  <2>5. /\ world'.a = a /\ world'.aaaa = world.aaaa
        /\ world'.sni = world.sni /\ world'.nosni = world.nosni
        /\ out'.tcp = out.tcp /\ out'.sni = out.sni /\ out'.nosni = out.nosni
        /\ out'.todo = {} /\ out'.ips \in {found, {}}
        /\ step' \in {"aaaa", "classify"}
    BY <1>0, <2>2, <2>3, <2>4 DEF Worlds, Outcomes
  <2> QED
    BY <2>1, <2>2, <2>5 DEF FoundReal, Addresses
<1>5. CASE ResolveAAAA(d)
  <2> DEFINE aaaa == Met(d, world.aaaa, {})
             found == Got(d, world.aaaa, {})
             ips == out.ips \cup found
  <2>1. found \subseteq aaaa
    BY <1>3
  <2>2. /\ step = "aaaa" /\ out.ips \subseteq world.a /\ ~out.tcp
        /\ out.sni => world.sni
        /\ out.nosni => world.nosni # "refused"
    BY <1>2, <1>5 DEF ResolveAAAA, FoundReal
  <2>3. /\ world' = [world EXCEPT !.aaaa = aaaa]
        /\ out' = [out EXCEPT !.ips = ips, !.todo = ips]
        /\ step' = IF ips = {} THEN "classify" ELSE "tcp"
    BY <1>5 DEF ResolveAAAA, Resolved
  <2>4. ips \subseteq world.a \cup aaaa
    BY <2>1, <2>2
  <2> HIDE DEF aaaa, found, ips
  <2>5. /\ world'.a = world.a /\ world'.aaaa = aaaa
        /\ world'.sni = world.sni /\ world'.nosni = world.nosni
        /\ out'.tcp = out.tcp /\ out'.sni = out.sni /\ out'.nosni = out.nosni
        /\ out'.todo = ips /\ out'.ips = ips
    BY <1>0, <2>3 DEF Worlds, Outcomes
  <2> QED
    BY <2>2, <2>3, <2>4, <2>5 DEF FoundReal, Addresses
<1>6. CASE ProbeTCP(d)
  <2> DEFINE ip == Min(out.todo)
             open == Met(d, world.open, world.open \ {ip})
             got == Got(d, ip \in world.open, FALSE)
             todo == out.todo \ {ip}
  <2>1. /\ step = "tcp" /\ out.todo # {} /\ out.todo \subseteq out.ips
        /\ out.ips \subseteq Addresses(world)
        /\ out.sni => world.sni
        /\ out.nosni => world.nosni # "refused"
    BY <1>2, <1>6 DEF ProbeTCP, FoundReal
  <2>2. ip \in out.todo
    <3>1. out.todo \in SUBSET Nat
      BY <1>0, Numbers DEF Outcomes, Address
    <3> QED
      BY <2>1, <3>1, MinInSet
  <2>3. /\ world' = [world EXCEPT !.open = open]
        /\ out' = [out EXCEPT !.tcp = got, !.todo = todo]
        /\ step' = IF got THEN "tls" ELSE IF todo = {} THEN "classify" ELSE "tcp"
    BY <1>6 DEF ProbeTCP
  <2>4. got => ip \in open
    <3> HIDE DEF ip
    <3>1. CASE Cut(d)
      BY <3>1 DEF Got
    <3>2. CASE ~Cut(d)
      BY <3>2 DEF Got, Met, Cut
    <3> QED
      BY <3>1, <3>2
  <2> HIDE DEF ip, open, got, todo
  <2>5. /\ Addresses(world') = Addresses(world) /\ world'.open = open /\ world'.a = world.a
        /\ world'.sni = world.sni /\ world'.nosni = world.nosni
        /\ out'.tcp = got /\ out'.sni = out.sni /\ out'.nosni = out.nosni
        /\ out'.todo = todo /\ out'.ips = out.ips
    BY <1>0, <2>3 DEF Worlds, Outcomes, Addresses
  <2>6. todo \subseteq out.ips /\ ip \in Addresses(world)
    BY <2>1, <2>2 DEF todo
  <2> QED
    BY <2>1, <2>3, <2>4, <2>5, <2>6 DEF FoundReal
<1>7. ASSUME step \in {"tls", "tlsNoSNI", "https"}, step' \in {"tlsNoSNI", "https", "classify"},
             out'.ips = out.ips, out'.todo = out.todo, out'.tcp = out.tcp,
             world'.a = world.a, world'.aaaa = world.aaaa, world'.open = world.open,
             out'.sni => world'.sni,
             out'.nosni => world'.nosni # "refused"
      PROVE  FoundReal'
  BY <1>2, <1>7 DEF FoundReal, Addresses
<1>8. CASE \E ok \in BOOLEAN : ProbeTLS(d, ok)
  <2>1. PICK ok \in BOOLEAN : ProbeTLS(d, ok)
    BY <1>8
  <2>2. /\ world' = [world EXCEPT !.sni = Met(d, ok, FALSE)]
        /\ out' = [out EXCEPT !.sni = Got(d, ok, FALSE)]
        /\ step = "tls" /\ step' = "tlsNoSNI"
    BY <2>1 DEF ProbeTLS
  <2>3. Got(d, ok, FALSE) => Met(d, ok, FALSE)
    BY <1>3
  <2>4. out.nosni => world.nosni # "refused"
    BY <1>2 DEF FoundReal
  <2> QED
    BY <1>0, <1>7, <2>2, <2>3, <2>4 DEF Worlds, Outcomes
<1>9. CASE \E answer \in Handshake : ProbeTLSNoSNI(d, answer)
  <2>1. PICK answer \in Handshake : ProbeTLSNoSNI(d, answer)
    BY <1>9
  <2>2. /\ world' = [world EXCEPT !.nosni = Met(d, answer, "refused")]
        /\ out' = [out EXCEPT !.nosni = (Got(d, answer, "refused") = "ok")]
        /\ step = "tlsNoSNI" /\ step' \in {"https", "classify"}
    BY <2>1 DEF ProbeTLSNoSNI
  <2>3. Got(d, answer, "refused") = "ok" => Met(d, answer, "refused") # "refused"
    BY <1>3
  <2>4. out.sni => world.sni
    BY <1>2 DEF FoundReal
  <2> QED
    BY <1>0, <1>7, <2>2, <2>3, <2>4 DEF Worlds, Outcomes
<1>10. CASE \E status \in Status : ProbeHTTPS(d, status)
  <2>1. PICK status \in Status : ProbeHTTPS(d, status)
    BY <1>10
  <2>2. /\ world' = [world EXCEPT !.status = Met(d, status, "none")]
        /\ out' = [out EXCEPT !.status = Got(d, status, "none")]
        /\ step = "https" /\ step' = "classify"
    BY <2>1 DEF ProbeHTTPS
  <2>3. /\ out.sni => world.sni
        /\ out.nosni => world.nosni # "refused"
    BY <1>2 DEF FoundReal
  <2> QED
    BY <1>0, <1>7, <2>2, <2>3 DEF Worlds, Outcomes
<1> QED
  BY <1>1, <1>4, <1>5, <1>6, <1>8, <1>9, <1>10

\* Every step keeps it so, and a diagnosis is made of it.
LEMMA NextReal ==
  TypeOK /\ FoundReal /\ PassedLayersWork /\ Faithful /\ [Next]_vars
    => FoundReal' /\ PassedLayersWork'
<1> SUFFICES ASSUME TypeOK, FoundReal, PassedLayersWork, Faithful, [Next]_vars
             PROVE  FoundReal' /\ PassedLayersWork'
  OBVIOUS
<1> USE DEF probe, report, clocks
<1>1. CASE Begin \/ SelectDone \/ SelectTick \/ Wait
  BY <1>1 DEF Begin, SelectDone, SelectTick, Wait, Faithful, FoundReal, PassedLayersWork
<1>2. CASE RoundEnds
  BY <1>2 DEF RoundEnds, FoundReal, PassedLayersWork
<1>3. CASE ProbeBegins
  <2>1. run' = "probe" /\ step' = "a" /\ out' = Nothing
    BY <1>3 DEF ProbeBegins
  <2>2. FoundReal'
    BY <2>1 DEF FoundReal, Nothing
  <2> QED
    BY <2>1, <2>2 DEF PassedLayersWork
<1>4. CASE ProbeSteps
  <2>1. run' = "probe" /\ cancelled' = cancelled
    BY <1>4, StepTypes DEF Spend
  <2>2. FoundReal'
    <3>1. CASE cancelled
      BY <2>1, <3>1 DEF FoundReal
    <3> QED
      BY <1>4, <3>1, StepReal
  <2> QED
    BY <2>1, <2>2 DEF PassedLayersWork
<1>5. CASE Record
  <2>1. /\ run = "probe" /\ run' = "round" /\ diagnosis' = Classify
        /\ UNCHANGED <<world, cancelled>>
    BY <1>5 DEF Record
  <2>2. Layers(world') = Layers(world)
    BY <2>1
  <2>3. PassedLayersWork'
    BY <2>1, <2>2, ClassifyReal DEF PassedLayersWork
  <2> QED
    BY <2>1, <2>3 DEF FoundReal
<1>6. CASE Cancel
  BY <1>6 DEF Cancel, FoundReal, PassedLayersWork
<1>7. CASE UNCHANGED vars
  <2>1. UNCHANGED <<run, step, out, world, diagnosis, cancelled>>
    BY <1>7 DEF vars
  <2>2. Layers(world') = Layers(world) /\ Addresses(world') = Addresses(world)
    BY <2>1
  <2> QED
    BY <2>1, <2>2 DEF FoundReal, PassedLayersWork
<1> QED
  BY <1>1, <1>2, <1>3, <1>4, <1>5, <1>6, <1>7 DEF Next, RunSteps
-----------------------------------------------------------------------------
IInv ==
  /\ TypeOK /\ OwnTarget /\ ResultsDated
  /\ Faithful /\ Accurate
  /\ FoundReal /\ PassedLayersWork

\* A new runner satisfies the invariant.
LEMMA InitIInv == Init => IInv
<1> SUFFICES ASSUME Init PROVE IInv
  OBVIOUS
<1>1. out \in Outcomes /\ world \in Worlds
  BY FirstTypes DEF Init
<1>2. age \in [Target -> 0..(MaxAge + 1)]
  BY MaxAgeNumber DEF Init
<1>3. TypeOK
  <2>1. tick \in BOOLEAN /\ cancelled \in BOOLEAN
    BY DEF Init
  <2> QED
    BY <1>1, <1>2, <2>1, Numbers DEF Init, TypeOK, Outcomes, Worlds
<1>4. OwnTarget /\ ResultsDated /\ Faithful /\ Accurate /\ FoundReal /\ PassedLayersWork
  BY DEF Init, OwnTarget, ResultsDated, Faithful, Accurate, FoundReal, PassedLayersWork
<1> QED
  BY <1>3, <1>4 DEF IInv

\* The invariant holds in every state.
LEMMA Invariance == Spec => []IInv
<1>1. IInv /\ [Next]_vars => IInv'
  BY NextTypes, NextDated, NextFaithful, NextReal DEF IInv
<1> QED
  BY <1>1, InitIInv, PTL DEF Spec

\* Types of the runner; a probe keeps within its deadline.
THEOREM TypeCorrect == Spec => []TypeOK
<1>1. IInv => TypeOK
  BY DEF IInv
<1> QED
  BY <1>1, Invariance, PTL

\* classifyOutcome names the layer that failed, whichever steps of probeTarget
\* timed out, unless their time together reaches the deadline or the target is
\* one that Misjudged lists.
THEOREM DiagnosesAccurate == Spec => []Accurate
<1>1. IInv => Accurate
  BY DEF IInv
<1> QED
  BY <1>1, Invariance, PTL

\* Also when the deadline of probeTarget cut steps short, classifyOutcome clears
\* none of DNS, TCP, TLS and SNI that does not work.
THEOREM NothingCleared == Spec => []PassedLayersWork
<1>1. IInv => PassedLayersWork
  BY DEF IInv
<1> QED
  BY <1>1, Invariance, PTL

\* However rounds and ticks of Run fall, no result gets older than an interval
\* and the probes of one round and one more.
THEOREM ResultsBounded == Spec => []ResultsFresh
<1>1. IInv => ResultsFresh
  <2> SUFFICES ASSUME IInv, ~cancelled, NEW t \in results PROVE age[t] <= MaxAge
    BY DEF ResultsFresh
  <2>0. /\ TypeOK /\ OwnTarget /\ Dated(t) /\ run \notin {"begin", "done"}
    BY DEF IInv, ResultsDated
  <2>1. /\ t \in Int /\ 1 <= t /\ t <= Targets /\ target \in Int /\ 1 <= target
        /\ target <= Targets + 1 /\ age[t] \in Nat /\ left \in 0..Deadline
        /\ Interval \in Nat /\ Deadline \in Nat /\ Targets \in Int
    BY <2>0, Numbers, MaxAgeNumber DEF TypeOK, Target
  <2>2. MaxAge = Interval + Targets * Deadline + Deadline
    BY MaxAgeNumber
  <2> HIDE DEF Deadline
  <2>3. /\ (t - 1) * Deadline \in Int /\ (target - 1) * Deadline \in Int
        /\ Targets * Deadline \in Int /\ 0 * Deadline = 0
        /\ 0 * Deadline <= (t - 1) * Deadline
        /\ (target - 1) * Deadline <= Targets * Deadline
        /\ target <= t => (target - 1) * Deadline <= (t - 1) * Deadline
    <3>1. t - 1 \in Int /\ target - 1 \in Int /\ 0 <= t - 1 /\ target - 1 <= Targets
          /\ (target <= t => target - 1 <= t - 1)
      BY <2>1
    <3> QED
      BY <2>1, <3>1, Turns
  <2>4. CASE run = "select"
    BY <2>0, <2>1, <2>2, <2>3, <2>4 DEF Dated
  <2>5. CASE run \in {"round", "probe"}
    <3>1. Elapsed <= (target - 1) * Deadline + Deadline /\ Elapsed \in Int
      BY <2>1, <2>3 DEF Elapsed, InProbe
    <3>2. age[t] + (t - 1) * Deadline
            <= IF t < target THEN Elapsed ELSE Elapsed + Interval + Targets * Deadline
      BY <2>0, <2>5 DEF Dated
    <3> QED
      BY <2>1, <2>2, <2>3, <3>1, <3>2
  <2> QED
    BY <2>0, <2>4, <2>5 DEF TypeOK
<1> QED
  BY <1>1, Invariance, PTL
=============================================================================
