-------------------------- MODULE RateLimiterProofs --------------------------
(***************************************************************************)
(* The limiter for any number of handlers, sources and buckets and any     *)
(* rates, bursts and limits.  What a bucket granted is bounded because its *)
(* books balance at every refill (Balance) and no time it has met is ahead *)
(* of the clock (TimesPast); that a bucket serves one source needs that    *)
(* only a handler between lookup and take holds one (HeldInTake).          *)
(***************************************************************************)
EXTENDS RateLimiter, FiniteSetTheorems, TLAPS

\* A handler holds a bucket exactly from lookupPerSourceBucket to Allow.
HeldInTake ==
  \A h \in Handler : /\ pc[h] = "source" => held[h] \in Bucket
                     /\ pc[h] # "source" => held[h] = NoBucket

IInv ==
  /\ TypeOK
  /\ TimesPast
  /\ Balance
  /\ HeldInTake
  /\ IsFiniteSet(DOMAIN perSource)
  /\ BucketsOwned

\* The part of the type invariant about the map.
MapOK ==
  /\ DOMAIN perSource \subseteq Source
  /\ perSource \in [DOMAIN perSource -> Fresh]
  /\ lastSeen \in [DOMAIN perSource -> Nat]
  /\ requestCount \in 0..(CleanupEvery - 1)

\* The part about the buckets, with their accounts.
BucketsOK ==
  /\ tokens \in [Bucket -> Nat]
  /\ \A b \in Bucket : tokens[b] <= Burst(b)
  /\ lastRefill \in [Bucket -> Nat] /\ born \in [Bucket -> Nat]
  /\ spent \in [Bucket -> Nat] /\ rewound \in [Bucket -> Nat]
  /\ \A b \in Bucket : lastRefill[b] <= clock
  /\ Balance

\* Costs and bursts are positive numbers, and a full bucket can grant.
LEMMA CostBurst ==
  \A b \in Bucket : /\ Cost(b) \in Nat \ {0} /\ Burst(b) \in Nat
                    /\ Cost(b) <= Burst(b)
BY LimiterAssumption DEF Cost, Burst, Bucket

\* tokenBucket.Allow keeps a bucket's books, whatever time it is called
\* with, early or late.
LEMMA TakeBucketsOK ==
  ASSUME BucketsOK, clock \in Nat, UNCHANGED clock,
         NEW b \in Bucket, NEW now \in Nat, now <= clock, Take(b, now)
  PROVE  BucketsOK'
<1> DEFINE r == Refilled(b, now)
           c == IF Grants(b, now) THEN Cost(b) ELSE 0
           back == IF now < lastRefill[b] THEN lastRefill[b] - now ELSE 0
<1>1. /\ Cost(b) \in Nat /\ Burst(b) \in Nat
      /\ tokens[b] \in Nat /\ tokens[b] <= Burst(b)
      /\ lastRefill[b] \in Nat /\ born[b] \in Nat
      /\ spent[b] \in Nat /\ rewound[b] \in Nat
      /\ tokens[b] + spent[b] <= Burst(b) + (lastRefill[b] - born[b]) + rewound[b]
  BY CostBurst DEF BucketsOK, Balance
<1>2. /\ r \in Nat /\ r <= Burst(b) /\ c \in Nat /\ c <= r /\ back \in Nat
      /\ r + spent[b] <= Burst(b) + (now - born[b]) + rewound[b] + back
  BY <1>1 DEF Refilled, Grants
<1>3. /\ tokens' = [tokens EXCEPT ![b] = r - c]
      /\ lastRefill' = [lastRefill EXCEPT ![b] = now]
      /\ spent' = [spent EXCEPT ![b] = spent[b] + c]
      /\ rewound' = [rewound EXCEPT ![b] = rewound[b] + back]
      /\ born' = born
  BY DEF Take
<1> HIDE DEF r, c, back
<1>4. /\ tokens' \in [Bucket -> Nat]
      /\ lastRefill' \in [Bucket -> Nat] /\ born' \in [Bucket -> Nat]
      /\ spent' \in [Bucket -> Nat] /\ rewound' \in [Bucket -> Nat]
  BY <1>1, <1>2, <1>3 DEF BucketsOK
<1>5. ASSUME NEW d \in Bucket
      PROVE  /\ tokens'[d] <= Burst(d) /\ lastRefill'[d] <= clock
             /\ tokens'[d] + spent'[d]
                  <= Burst(d) + (lastRefill'[d] - born'[d]) + rewound'[d]
  <2>1. CASE d = b
    BY <1>1, <1>2, <1>3, <2>1 DEF BucketsOK
  <2>2. CASE d # b
    BY <1>3, <2>2 DEF BucketsOK, Balance
  <2> QED
    BY <2>1, <2>2
<1> QED
  BY <1>4, <1>5 DEF BucketsOK, Balance, Burst

\* The new limiter satisfies the invariant.
LEMMA InitIInv == Init => IInv
<1> SUFFICES ASSUME Init PROVE IInv
  OBVIOUS
<1> USE LimiterAssumption DEF Init
<1>1. DOMAIN perSource = {} /\ DOMAIN lastSeen = {}
  OBVIOUS
<1>2. (CHOOSE s \in Source : TRUE) \in Source
  OBVIOUS
<1>3. TypeOK
  BY <1>1, <1>2, CostBurst DEF TypeOK
<1>4. TimesPast /\ Balance /\ HeldInTake
  BY CostBurst DEF TimesPast, Balance, HeldInTake
<1>5. IsFiniteSet(DOMAIN perSource) /\ BucketsOwned
  BY <1>1, FS_EmptySet DEF BucketsOwned
<1> QED
  BY <1>3, <1>4, <1>5 DEF IInv

\* Every step keeps the invariant.
LEMMA NextIInv == IInv /\ [Next]_vars => IInv'
<1> SUFFICES ASSUME IInv, [Next]_vars PROVE IInv'
  OBVIOUS
<1> USE LimiterAssumption
<1>0. TypeOK /\ BucketsOK /\ clock \in Nat
  BY DEF IInv, TypeOK, TimesPast, BucketsOK
<1>1. ASSUME Tick PROVE IInv'
  BY <1>0, <1>1 DEF Tick, buckets, map, IInv, TypeOK, TimesPast, Balance, HeldInTake,
     BucketsOwned, Burst
<1>2. ASSUME NEW h \in Handler, NEW s \in Source, Begin(h, s) PROVE IInv'
  <2> USE <1>2 DEF Begin, buckets, map
  <2>1. TypeOK' /\ TimesPast' /\ Balance'
    BY <1>0 DEF IInv, TypeOK, TimesPast, Balance, Burst
  <2>2. HeldInTake'
    BY <1>0 DEF IInv, TypeOK, HeldInTake
  <2>3. held[h] = NoBucket
    BY DEF IInv, HeldInTake
  <2>4. BucketsOwned'
    BY <1>0, <2>3 DEF IInv, TypeOK, BucketsOwned
  <2> QED
    BY <2>1, <2>2, <2>4 DEF IInv
<1>3. ASSUME NEW h \in Handler, AllowGlobal(h) PROVE IInv'
  <2> USE <1>3 DEF AllowGlobal, map, Forget
  <2>1. BucketsOK'
    BY <1>0, TakeBucketsOK DEF TypeOK, IInv, TimesPast, Bucket
  <2>2. TypeOK' /\ TimesPast'
    BY <1>0, <2>1 DEF IInv, TypeOK, TimesPast, BucketsOK
  <2>3. HeldInTake' /\ BucketsOwned'
    BY <1>0 DEF IInv, TypeOK, HeldInTake, BucketsOwned
  <2> QED
    BY <2>1, <2>2, <2>3 DEF IInv, BucketsOK
<1>4. ASSUME NEW h \in Handler, AllowSource(h) PROVE IInv'
  <2> USE <1>4 DEF AllowSource, map, Forget
  <2>1. BucketsOK'
    BY <1>0, TakeBucketsOK DEF TypeOK, IInv, TimesPast, HeldInTake
  <2>2. TypeOK' /\ TimesPast'
    BY <1>0, <2>1 DEF IInv, TypeOK, TimesPast, BucketsOK
  <2>3. HeldInTake' /\ BucketsOwned'
    BY <1>0 DEF IInv, TypeOK, HeldInTake, BucketsOwned
  <2> QED
    BY <2>1, <2>2, <2>3 DEF IInv, BucketsOK
<1>5. ASSUME NEW h \in Handler, Lookup(h) PROVE IInv'
  <2> DEFINE s == source[h]
             now == start[h]
             count == (requestCount + 1) % CleanupEvery
             kept == DOMAIN perSource \ (IF count = 0 THEN Expired(now) ELSE {})
             room == IF Full(kept) THEN kept \ Expired(now) ELSE kept
  <2>1. /\ s \in Source /\ now \in Nat /\ now <= clock /\ count \in 0..(CleanupEvery - 1)
        /\ pc[h] = "lookup" /\ held[h] = NoBucket
    BY <1>0, <1>5 DEF TypeOK, IInv, TimesPast, HeldInTake, Lookup
  <2>2. /\ kept \subseteq DOMAIN perSource /\ room \subseteq kept
        /\ DOMAIN perSource \subseteq Source
        /\ perSource \in [DOMAIN perSource -> Fresh]
        /\ lastSeen \in [DOMAIN perSource -> Nat]
    BY <1>0 DEF TypeOK
  <2>3. /\ IsFiniteSet(kept) /\ IsFiniteSet(room)
        /\ Cardinality(kept) <= MaxSources /\ Cardinality(room) <= MaxSources
        /\ Cardinality(room) \in Nat
    <3>1. /\ IsFiniteSet(DOMAIN perSource)
          /\ Cardinality(DOMAIN perSource) <= MaxSources
      BY DEF IInv, BucketsOwned
    <3> HIDE DEF kept, room
    <3>2. IsFiniteSet(kept) /\ Cardinality(kept) <= Cardinality(DOMAIN perSource)
      BY <2>2, <3>1, FS_Subset
    <3>3. IsFiniteSet(room) /\ Cardinality(room) <= Cardinality(kept)
      BY <2>2, <3>2, FS_Subset
    <3> QED
      BY <3>1, <3>2, <3>3, FS_CardinalityType
  <2>4. /\ clock' = clock /\ source' = source /\ start' = start
        /\ pc' = [pc EXCEPT ![h] = "source"] /\ requestCount' = count
    BY <1>5 DEF Lookup
  <2>5. CASE /\ s \in kept
             /\ held' = [held EXCEPT ![h] = perSource[s]]
             /\ perSource' = [k \in kept |-> perSource[k]]
             /\ lastSeen' = [k \in kept |-> IF k = s THEN now ELSE lastSeen[k]]
             /\ UNCHANGED buckets
    <3> HIDE DEF kept, room, count, now, s
    <3>1. perSource[s] \in Bucket
      BY <2>2, <2>5 DEF Bucket
    <3>2. DOMAIN perSource' = kept
      BY <2>5
    <3>3. MapOK'
      BY <2>1, <2>2, <2>4, <2>5, <3>2 DEF MapOK
    <3>4. TypeOK' /\ TimesPast' /\ Balance'
      BY <1>0, <2>4, <2>5, <3>1, <3>3
         DEF TypeOK, MapOK, IInv, TimesPast, Balance, buckets, Burst
    <3>5. HeldInTake'
      BY <1>0, <2>4, <2>5, <3>1 DEF IInv, TypeOK, HeldInTake
    <3>6. BucketsOwned'
      <4>1. ASSUME NEW a \in kept, NEW t \in kept, perSource'[a] = perSource'[t]
            PROVE  a = t
        BY <2>2, <2>5, <4>1 DEF IInv, BucketsOwned
      <4>2. ASSUME NEW g \in Handler, NEW a \in kept, held'[g] = perSource'[a]
            PROVE  source'[g] = a
        <5>1. CASE g = h
          BY <1>0, <2>2, <2>4, <2>5, <4>2, <5>1 DEF IInv, TypeOK, BucketsOwned, s
        <5>2. CASE g # h
          BY <1>0, <2>2, <2>4, <2>5, <4>2, <5>2 DEF IInv, TypeOK, BucketsOwned
        <5> QED
          BY <5>1, <5>2
      <4> QED
        BY <2>3, <3>2, <4>1, <4>2 DEF BucketsOwned
    <3> QED
      BY <2>3, <3>2, <3>4, <3>5, <3>6 DEF IInv
  <2>6. CASE /\ s \notin kept /\ Full(room)
             /\ held' = [held EXCEPT ![h] = "overflow"]
             /\ perSource' = [k \in room |-> perSource[k]]
             /\ lastSeen' = [k \in room |-> lastSeen[k]]
             /\ UNCHANGED buckets
    <3> HIDE DEF kept, room, count, now, s
    <3>2. DOMAIN perSource' = room
      BY <2>6
    <3>3. MapOK'
      BY <2>1, <2>2, <2>4, <2>6, <3>2 DEF MapOK
    <3>4. TypeOK' /\ TimesPast' /\ Balance'
      BY <1>0, <2>4, <2>6, <3>3
         DEF TypeOK, MapOK, IInv, TimesPast, Balance, buckets, Burst, Bucket
    <3>5. HeldInTake'
      BY <1>0, <2>4, <2>6 DEF IInv, TypeOK, HeldInTake, Bucket
    <3>6. BucketsOwned'
      <4>1. ASSUME NEW a \in room, NEW t \in room, perSource'[a] = perSource'[t]
            PROVE  a = t
        BY <2>2, <2>6, <4>1 DEF IInv, BucketsOwned
      <4>2. ASSUME NEW g \in Handler, NEW a \in room, held'[g] = perSource'[a]
            PROVE  source'[g] = a
        <5>1. CASE g = h
          <6>1. perSource'[a] \in Fresh /\ held'[g] = "overflow"
            BY <1>0, <2>2, <2>6, <5>1 DEF TypeOK
          <6> QED
            BY <4>2, <6>1
        <5>2. CASE g # h
          BY <1>0, <2>2, <2>4, <2>6, <4>2, <5>2 DEF IInv, TypeOK, BucketsOwned
        <5> QED
          BY <5>1, <5>2
      <4> QED
        BY <2>3, <3>2, <4>1, <4>2 DEF BucketsOwned
    <3> QED
      BY <2>3, <3>2, <3>4, <3>5, <3>6 DEF IInv
  <2>7. ASSUME NEW b \in Unused, s \notin kept, ~Full(room),
               held' = [held EXCEPT ![h] = b],
               perSource' = [k \in room \cup {s} |-> IF k = s THEN b ELSE perSource[k]],
               lastSeen' = [k \in room \cup {s} |-> IF k = s THEN now ELSE lastSeen[k]],
               tokens' = [tokens EXCEPT ![b] = SourceBurst],
               lastRefill' = [lastRefill EXCEPT ![b] = now],
               born' = [born EXCEPT ![b] = now],
               spent' = [spent EXCEPT ![b] = 0],
               rewound' = [rewound EXCEPT ![b] = 0]
        PROVE  IInv'
    <3> HIDE DEF kept, room, count, now, s
    <3>1. /\ b \in Fresh /\ b \in Bucket /\ b # "global"
          /\ \A k \in DOMAIN perSource : perSource[k] # b
          /\ \A g \in Handler : held[g] # b
      BY DEF Unused, Bucket
    <3>2. DOMAIN perSource' = room \cup {s}
      BY <2>7
    <3>3. MapOK'
      BY <2>1, <2>2, <2>4, <2>7, <3>1, <3>2 DEF MapOK
    <3>4. BucketsOK'
      <4>1. Burst(b) = SourceBurst /\ SourceBurst \in Nat
        BY <3>1 DEF Burst
      <4>2. /\ tokens' \in [Bucket -> Nat]
            /\ lastRefill' \in [Bucket -> Nat] /\ born' \in [Bucket -> Nat]
            /\ spent' \in [Bucket -> Nat] /\ rewound' \in [Bucket -> Nat]
        BY <1>0, <2>1, <2>7, <4>1 DEF BucketsOK
      <4>3. ASSUME NEW d \in Bucket
            PROVE  /\ tokens'[d] <= Burst(d) /\ lastRefill'[d] <= clock
                   /\ tokens'[d] + spent'[d]
                        <= Burst(d) + (lastRefill'[d] - born'[d]) + rewound'[d]
        <5>1. CASE d = b
          BY <1>0, <2>1, <2>7, <4>1, <5>1 DEF BucketsOK
        <5>2. CASE d # b
          BY <1>0, <2>7, <5>2 DEF BucketsOK, Balance
        <5> QED
          BY <5>1, <5>2
      <4> QED
        BY <2>4, <4>2, <4>3 DEF BucketsOK, Balance, Burst
    <3>5. TypeOK' /\ TimesPast'
      BY <1>0, <2>4, <2>7, <3>1, <3>3, <3>4
         DEF TypeOK, MapOK, BucketsOK, IInv, TimesPast
    <3>6. HeldInTake'
      BY <1>0, <2>4, <2>7, <3>1 DEF IInv, TypeOK, HeldInTake
    <3>7. s \notin room
      BY <2>2, <2>7
    <3>8. /\ IsFiniteSet(room \cup {s})
          /\ Cardinality(room \cup {s}) <= MaxSources
      <4>1. /\ IsFiniteSet(room \cup {s})
            /\ Cardinality(room \cup {s}) = Cardinality(room) + 1
        BY <2>3, <3>7, FS_AddElement
      <4> QED
        BY <2>3, <2>7, <4>1 DEF Full
    <3>9. BucketsOwned'
      <4>1. ASSUME NEW a \in room \cup {s}, NEW t \in room \cup {s},
                   perSource'[a] = perSource'[t]
            PROVE  a = t
        BY <2>2, <2>7, <3>1, <3>7, <4>1 DEF IInv, BucketsOwned
      <4>2. ASSUME NEW g \in Handler, NEW a \in room \cup {s}, held'[g] = perSource'[a]
            PROVE  source'[g] = a
        <5>1. CASE g = h
          BY <1>0, <2>2, <2>4, <2>7, <3>1, <3>7, <4>2, <5>1 DEF TypeOK, s
        <5>2. CASE g # h
          BY <1>0, <2>2, <2>4, <2>7, <3>1, <3>7, <4>2, <5>2 DEF IInv, TypeOK, BucketsOwned
        <5> QED
          BY <5>1, <5>2
      <4> QED
        BY <3>2, <3>8, <4>1, <4>2 DEF BucketsOwned
    <3> QED
      BY <3>2, <3>4, <3>5, <3>6, <3>8, <3>9 DEF IInv, BucketsOK
  <2> QED
    BY <1>5, <2>5, <2>6, <2>7 DEF Lookup
<1>6. CASE UNCHANGED vars
  BY <1>6 DEF vars, buckets, map, IInv, TypeOK, TimesPast, Balance, HeldInTake,
     BucketsOwned, Burst
<1> QED
  BY <1>1, <1>2, <1>3, <1>4, <1>5, <1>6 DEF Next

\* The invariant holds in every state the limiter reaches.
LEMMA Invariance == Spec => []IInv
BY InitIInv, NextIInv, PTL DEF Spec

\* Types are kept and no bucket exceeds its burst (tokenBucket.Allow).
THEOREM TypeCorrect == Spec => []TypeOK
<1>1. IInv => TypeOK
  BY DEF IInv
<1> QED
  BY <1>1, Invariance, PTL

\* What a bucket grants exceeds burst and rate at most by the time late
\* handlers set it back, for every schedule of the handlers.
THEOREM AdmissionBound == Spec => []OverAdmissionBounded
<1>1. IInv => OverAdmissionBounded
  <2> SUFFICES ASSUME IInv, NEW b \in Bucket
               PROVE  spent[b] <= Burst(b) + (clock - born[b]) + rewound[b]
    BY DEF OverAdmissionBounded
  <2>1. /\ tokens[b] \in Nat /\ spent[b] \in Nat /\ lastRefill[b] \in Nat
        /\ born[b] \in Nat /\ rewound[b] \in Nat /\ clock \in Nat /\ Burst(b) \in Nat
        /\ lastRefill[b] <= clock
        /\ tokens[b] + spent[b] <= Burst(b) + (lastRefill[b] - born[b]) + rewound[b]
    BY CostBurst DEF IInv, TypeOK, TimesPast, Balance
  <2> QED
    BY <2>1
<1> QED
  BY <1>1, Invariance, PTL

\* lookupPerSourceBucket keeps the map within maxSources and never gives
\* two sources one bucket.
THEOREM Ownership == Spec => []BucketsOwned
<1>1. IInv => BucketsOwned
  BY DEF IInv
<1> QED
  BY <1>1, Invariance, PTL

\* cleanupExpiredLocked never takes the bucket of a source seen within
\* stateTTL.
THEOREM ActiveKept == Spec => ActiveKeepsBucket
<1> DEFINE Keeps == \A s \in DOMAIN perSource : clock - lastSeen[s] <= StateTTL =>
                       s \in DOMAIN perSource' /\ perSource'[s] = perSource[s]
<1>1. IInv /\ [Next]_vars => [Keeps]_vars
  <2> SUFFICES ASSUME IInv, [Next]_vars, NEW s \in DOMAIN perSource,
                      clock - lastSeen[s] <= StateTTL
               PROVE  s \in DOMAIN perSource' /\ perSource'[s] = perSource[s]
    OBVIOUS
  <2>1. CASE UNCHANGED perSource
    BY <2>1
  <2>2. ASSUME NEW h \in Handler, Lookup(h)
        PROVE  s \in DOMAIN perSource' /\ perSource'[s] = perSource[s]
    <3>1. s \notin Expired(start[h])
      <4>1. /\ start[h] \in Nat /\ clock \in Nat /\ start[h] <= clock
            /\ lastSeen[s] \in Nat /\ StateTTL \in Nat
        BY LimiterAssumption DEF IInv, TypeOK, TimesPast
      <4> QED
        BY <4>1 DEF Expired
    <3> QED
      BY <2>2, <3>1 DEF Lookup
  <2> QED
    BY <2>1, <2>2 DEF Next, vars, map, Tick, Begin, AllowGlobal, AllowSource
<1> QED
  BY <1>1, Invariance, PTL DEF Spec, ActiveKeepsBucket
=============================================================================
