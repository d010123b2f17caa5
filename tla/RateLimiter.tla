----------------------------- MODULE RateLimiter -----------------------------
(***************************************************************************)
(* The request limiter of the proxy, pkg/proxy/proxy.go: a global token    *)
(* bucket, a token bucket per source, and one bucket that the sources      *)
(* share for which there is no room.  A handler reads the clock once, when *)
(* its query comes in, and uses that time in each of its three steps; the  *)
(* lock is released between them, so handlers overtake each other and a    *)
(* bucket meets times that go backwards.                                   *)
(*                                                                         *)
(* Tokens are counted in ticks of refill: a tick of the clock is worth one *)
(* unit, a query costs 1/rate ticks.  proxy.New replaces rates and limits  *)
(* that are not positive, so all buckets exist.                            *)
(***************************************************************************)
EXTENDS Integers, FiniteSets

CONSTANTS
  Handler,       \* goroutines that serve a query each
  Source,        \* client addresses
  Fresh,         \* identities of per-source buckets; a dropped one is reused
  NoBucket,      \* no bucket
  GlobalCost, GlobalBurst,  \* 1/rate and burst/rate of the global bucket
  SourceCost, SourceBurst,  \* those of the per-source and overflow buckets
  MaxSources,    \* maxSources
  StateTTL,      \* stateTTL
  CleanupEvery,  \* 256 in the code
  MaxTime        \* bound on the clock

ASSUME LimiterAssumption ==
  /\ Source # {}
  /\ GlobalCost \in Nat \ {0} /\ SourceCost \in Nat \ {0}
  /\ GlobalBurst \in Nat /\ GlobalBurst >= GlobalCost
  /\ SourceBurst \in Nat /\ SourceBurst >= SourceCost
  /\ MaxSources \in Nat \ {0}
  /\ StateTTL \in Nat \ {0}
  /\ CleanupEvery \in Nat \ {0}
  /\ MaxTime \in Nat
  /\ NoBucket \notin Fresh \cup {"global", "overflow"}
  /\ Fresh \cap {"global", "overflow"} = {}

VARIABLES
  clock,         \* the time
  tokens, lastRefill,  \* the fields of each tokenBucket
  perSource,     \* the map source -> bucket
  lastSeen,      \* the time of each entry of the map
  requestCount,  \* requestCount, modulo CleanupEvery
  pc, source, start, held,  \* a handler: its step, client, time and bucket
  born, spent, rewound      \* history of each bucket: the time it was made with,
                            \* what it granted, how far its time was set back

buckets == <<tokens, lastRefill, born, spent, rewound>>
map == <<perSource, lastSeen, requestCount>>
vars == <<clock, buckets, map, pc, source, start, held>>

Bucket == Fresh \cup {"global", "overflow"}
Cost(b) == IF b = "global" THEN GlobalCost ELSE SourceCost
Burst(b) == IF b = "global" THEN GlobalBurst ELSE SourceBurst
-----------------------------------------------------------------------------
(* newRequestLimiter: full buckets, no source known. *)
Init ==
  /\ clock = 0
  /\ tokens = [b \in Bucket |-> Burst(b)]
  /\ lastRefill = [b \in Bucket |-> 0]
  /\ perSource = [s \in {} |-> NoBucket]
  /\ lastSeen = [s \in {} |-> 0]
  /\ requestCount = 0
  /\ pc = [h \in Handler |-> "idle"]
  /\ source \in [Handler -> {CHOOSE s \in Source : TRUE}]
  /\ start = [h \in Handler |-> 0]
  /\ held = [h \in Handler |-> NoBucket]
  /\ born = [b \in Bucket |-> 0]
  /\ spent = [b \in Bucket |-> 0]
  /\ rewound = [b \in Bucket |-> 0]

Tick ==
  /\ clock < MaxTime
  /\ clock' = clock + 1
  /\ UNCHANGED <<buckets, map, pc, source, start, held>>

(* handleQuery reads the clock. *)
Begin(h, s) ==
  /\ pc[h] = "idle"
  /\ source' = [source EXCEPT ![h] = s]
  /\ start' = [start EXCEPT ![h] = clock]
  /\ pc' = [pc EXCEPT ![h] = "global"]
  /\ UNCHANGED <<clock, buckets, map, held>>

RefilledUncapped(b, now) ==   \* mutant: the burst does not limit the refill
  IF now > lastRefill[b] THEN tokens[b] + (now - lastRefill[b]) ELSE tokens[b]

\* what bucket b has at time now: nothing is added when time went backwards
Refilled(b, now) ==
  IF now > lastRefill[b]
  THEN IF tokens[b] + (now - lastRefill[b]) > Burst(b)
       THEN Burst(b) ELSE tokens[b] + (now - lastRefill[b])
  ELSE tokens[b]

Grants(b, now) == Refilled(b, now) >= Cost(b)

TakeKeepsTime(b, now) ==      \* mutant: lastRefill moves only when a token is taken
  /\ tokens' = [tokens EXCEPT ![b] = Refilled(b, now) - (IF Grants(b, now) THEN Cost(b) ELSE 0)]
  /\ lastRefill' = [lastRefill EXCEPT ![b] = IF Grants(b, now) THEN now ELSE @]
  /\ spent' = [spent EXCEPT ![b] = @ + (IF Grants(b, now) THEN Cost(b) ELSE 0)]
  /\ rewound' = [rewound EXCEPT ![b] =
                   @ + (IF now < lastRefill[b] THEN lastRefill[b] - now ELSE 0)]
  /\ UNCHANGED born

(* tokenBucket.Allow, under the bucket's lock: refill, then take a token   *)
(* if there is one.  lastRefill becomes now, also when that is earlier.    *)
Take(b, now) ==
  /\ tokens' = [tokens EXCEPT ![b] = Refilled(b, now) - (IF Grants(b, now) THEN Cost(b) ELSE 0)]
  /\ lastRefill' = [lastRefill EXCEPT ![b] = now]
  /\ spent' = [spent EXCEPT ![b] = @ + (IF Grants(b, now) THEN Cost(b) ELSE 0)]
  /\ rewound' = [rewound EXCEPT ![b] =
                   @ + (IF now < lastRefill[b] THEN lastRefill[b] - now ELSE 0)]
  /\ UNCHANGED born

\* a handler that returns has no time any more
Forget(h) == start' = [start EXCEPT ![h] = 0]

(* The global bucket comes first; what it grants is not given back when    *)
(* the source's bucket refuses.                                            *)
AllowGlobal(h) ==
  /\ pc[h] = "global"
  /\ Take("global", start[h])
  /\ pc' = [pc EXCEPT ![h] = IF Grants("global", start[h]) THEN "lookup" ELSE "idle"]
  /\ UNCHANGED <<clock, map, source, held>>
  /\ IF Grants("global", start[h]) THEN UNCHANGED start ELSE Forget(h)

ExpiredEarly(now) ==          \* mutant: the entry's age is compared without the TTL
  {s \in DOMAIN perSource : now - lastSeen[s] > 0}

\* the sources cleanupExpiredLocked deletes
Expired(now) == {s \in DOMAIN perSource : now - lastSeen[s] > StateTTL}

\* a bucket nothing refers to any more, or never did
Unused == {b \in Fresh : /\ \A s \in DOMAIN perSource : perSource[s] # b
                         /\ \A h \in Handler : held[h] # b}

FullOffByOne(S) == Cardinality(S) > MaxSources  \* mutant: > for >=

Full(S) == Cardinality(S) >= MaxSources

(* lookupPerSourceBucket, under the limiter's lock.  It cleans up on every *)
(* CleanupEvery-th request and when the map is full; a source without room *)
(* gets the overflow bucket, a new one a full bucket.                      *)
Lookup(h) ==
  LET s == source[h]
      now == start[h]
      count == (requestCount + 1) % CleanupEvery
      kept == DOMAIN perSource \ (IF count = 0 THEN Expired(now) ELSE {})
      room == IF Full(kept) THEN kept \ Expired(now) ELSE kept
  IN
  /\ pc[h] = "lookup"
  /\ pc' = [pc EXCEPT ![h] = "source"]
  /\ requestCount' = count
  /\ \/ /\ s \in kept
        /\ held' = [held EXCEPT ![h] = perSource[s]]
        /\ perSource' = [k \in kept |-> perSource[k]]
        /\ lastSeen' = [k \in kept |-> IF k = s THEN now ELSE lastSeen[k]]
        /\ UNCHANGED buckets
     \/ /\ s \notin kept /\ Full(room)
        /\ held' = [held EXCEPT ![h] = "overflow"]
        /\ perSource' = [k \in room |-> perSource[k]]
        /\ lastSeen' = [k \in room |-> lastSeen[k]]
        /\ UNCHANGED buckets
     \/ /\ s \notin kept /\ ~Full(room)
        /\ \E b \in Unused :
             /\ held' = [held EXCEPT ![h] = b]
             /\ perSource' = [k \in room \cup {s} |-> IF k = s THEN b ELSE perSource[k]]
             /\ lastSeen' = [k \in room \cup {s} |-> IF k = s THEN now ELSE lastSeen[k]]
             /\ tokens' = [tokens EXCEPT ![b] = SourceBurst]
             /\ lastRefill' = [lastRefill EXCEPT ![b] = now]
             /\ born' = [born EXCEPT ![b] = now]
             /\ spent' = [spent EXCEPT ![b] = 0]
             /\ rewound' = [rewound EXCEPT ![b] = 0]
  /\ UNCHANGED <<clock, source, start>>

(* The bucket that lookup returned may have left the map by now. *)
AllowSource(h) ==
  /\ pc[h] = "source"
  /\ Take(held[h], start[h])
  /\ held' = [held EXCEPT ![h] = NoBucket]
  /\ pc' = [pc EXCEPT ![h] = "idle"]
  /\ Forget(h)
  /\ UNCHANGED <<clock, map, source>>

Next ==
  \/ Tick
  \/ \E h \in Handler :
       \/ \E s \in Source : Begin(h, s)
       \/ AllowGlobal(h)
       \/ Lookup(h)
       \/ AllowSource(h)

Spec == Init /\ [][Next]_vars
-----------------------------------------------------------------------------
\* Types; a bucket never holds more than its burst.
TypeOK ==
  /\ clock \in Nat
  /\ tokens \in [Bucket -> Nat]
  /\ \A b \in Bucket : tokens[b] <= Burst(b)
  /\ lastRefill \in [Bucket -> Nat] /\ born \in [Bucket -> Nat]
  /\ spent \in [Bucket -> Nat] /\ rewound \in [Bucket -> Nat]
  /\ DOMAIN perSource \subseteq Source
  /\ perSource \in [DOMAIN perSource -> Fresh]
  /\ lastSeen \in [DOMAIN perSource -> Nat]
  /\ requestCount \in 0..(CleanupEvery - 1)
  /\ pc \in [Handler -> {"idle", "global", "lookup", "source"}]
  /\ source \in [Handler -> Source]
  /\ start \in [Handler -> Nat]
  /\ held \in [Handler -> Bucket \cup {NoBucket}]

\* No time in the limiter is ahead of the clock.
TimesPast ==
  /\ \A b \in Bucket : lastRefill[b] <= clock
  /\ \A h \in Handler : start[h] <= clock

\* The books of a bucket balance: what is left and what was granted is the
\* burst and the ticks refilled, where ticks that lie before a moment the
\* bucket was set back to count again.
Balance ==
  \A b \in Bucket :
     tokens[b] + spent[b] <= Burst(b) + (lastRefill[b] - born[b]) + rewound[b]

\* What a bucket grants exceeds its burst and its rate at most by the time
\* that late handlers have set it back, in whatever order handlers meet it
\* and also when it is dropped from the map while a handler holds it.
OverAdmissionBounded ==
  \A b \in Bucket : spent[b] <= Burst(b) + (clock - born[b]) + rewound[b]

\* Two sources never draw on one per-source bucket, and the map stays within
\* its limit although lookups for new sources race for the last place.
BucketsOwned ==
  /\ Cardinality(DOMAIN perSource) <= MaxSources
  /\ \A s, t \in DOMAIN perSource : perSource[s] = perSource[t] => s = t
  /\ \A h \in Handler : \A s \in DOMAIN perSource :
        held[h] = perSource[s] => source[h] = s

\* A source whose lastSeen is within StateTTL of the clock keeps its bucket: no
\* cleanup, whatever time the handler that runs it carries, lets an active
\* source start again with a full one.  (A late handler sets lastSeen back, so
\* the promise is about the recorded time.)
ActiveKeepsBucket ==
  [][\A s \in DOMAIN perSource : clock - lastSeen[s] <= StateTTL =>
        s \in DOMAIN perSource' /\ perSource'[s] = perSource[s]]_vars
=============================================================================
