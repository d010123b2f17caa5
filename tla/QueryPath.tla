------------------------------ MODULE QueryPath ------------------------------
(***************************************************************************)
(* The way of a query through the proxy, pkg/proxy/proxy.go handleQuery,   *)
(* and the response cache it uses, pkg/proxy/cache.go: limiter, filter,    *)
(* cache, engine, stale cache, fallback upstreams.  Many handlers run at   *)
(* once.  Each reads the clock when its query comes in and uses that time  *)
(* for all its cache operations, before and after the exchange; filter     *)
(* and fallback list are replaced by reloads in between.                   *)
(*                                                                         *)
(* A query is its cache key (lower-case name, type, class).  A response is *)
(* what the cache looks at: whether it may be cached (success, not         *)
(* truncated) and the smallest TTL of its records, 0 when no record has a  *)
(* positive one.  TTLs are whole seconds, as in the records; the clock is  *)
(* finer, Second ticks to the second, since cloneCachedResponse rounds.    *)
(* Limiter, pool and event channel have modules of their own: RateLimiter, *)
(* ConnPool, EventPipeline.                                                *)
(***************************************************************************)
EXTENDS Integers, FiniteSets, DomainFilter

CONSTANTS
  Handler,     \* goroutines that serve a query each
  Key, NoKey,  \* cache keys; the key of a handler without a query
  Name,        \* the domain name of each key
  Rules,       \* allow and deny lists of the configurations
  Upstream,    \* fallback upstreams
  Second,      \* ticks of the clock in a second
  RecordTTL,   \* TTLs in responses, in seconds
  MaxEntries, DefaultTTL, StaleTTL,   \* the fields of responseCache, times in ticks
  MaxTime      \* bound on the clock

ASSUME QueryAssumption ==
  /\ NoKey \notin Key
  /\ Name \in [Key -> Seq(Char)]
  /\ Rules \subseteq [allow : SUBSET Seq(Char), deny : SUBSET Seq(Char)]
  /\ Second \in Nat \ {0} /\ RecordTTL \subseteq Nat
  /\ MaxEntries \in Nat \ {0}
  /\ DefaultTTL \in Nat \ {0}
  /\ StaleTTL \in Nat \ {0}
  /\ MaxTime \in Nat

VARIABLES
  clock,      \* the time
  cache,      \* entries: key -> entry
  filter, rules,  \* the domain filter, and the lists it was made from
  fallback,   \* fallbackUpstreams
  pc, key, start,  \* a handler: its step, query and time
  response,   \* the response in its hands
  expired,    \* its exchange context has run out
  verdict,    \* history: what the rules meant for its name ever since the query
              \* came in, "none" if they changed or the filter has let it pass
  reply       \* the answer that the last step sent, if it sent one

proxyVars == <<cache, filter, rules, fallback>>
localVars == <<pc, key, start, response, expired, verdict>>
vars == <<clock, proxyVars, localVars, reply>>

Response == [cacheable : BOOLEAN, ttl : RecordTTL \cup {0}, fetched : Nat]
NoResponse == [cacheable |-> FALSE, ttl |-> 0, fetched |-> 0]

\* a cached response: its TTL, when it was fetched (history), storedAt, expiresAt
Entry == [cacheable : BOOLEAN, ttl : RecordTTL, fetched : Nat,
          storedAt : Nat, expiresAt : Nat]

Verdict == {"none", "passes", "denied"}

\* an answer: who gave it, with which TTL, from which cached response if any; and,
\* for the properties, the time of its query, how the rules treated that, and
\* the fallback upstreams that would have answered
By == {"none", "limiter", "filter", "cache", "stale", "engine", "fallback", "failure"}
Reply == [by : By, ttl : Nat, data : {NoResponse} \cup Response,
          start : Nat, verdict : Verdict, helpers : SUBSET Upstream]
NoReply == [by |-> "none", ttl |-> 0, data |-> NoResponse,
            start |-> 0, verdict |-> "none", helpers |-> {}]

PC == {"idle", "filter", "get", "exchange", "stale", "fallback", "store", "storeFallback"}
-----------------------------------------------------------------------------
Init ==
  /\ clock = 0
  /\ cache = [k \in {} |-> NoResponse]
  /\ rules \in Rules /\ filter = newDomainFilter(rules)
  /\ fallback \in SUBSET Upstream
  /\ pc = [h \in Handler |-> "idle"]
  /\ key = [h \in Handler |-> NoKey]
  /\ start = [h \in Handler |-> 0]
  /\ response = [h \in Handler |-> NoResponse]
  /\ expired = [h \in Handler |-> FALSE]
  /\ verdict = [h \in Handler |-> "none"]
  /\ reply = NoReply

\* what rules lists mean for a key, by the definition of DomainFilter
Meant(lists, k) == IF Passes(lists, Name[k]) THEN "passes" ELSE "denied"

\* handler h goes on to step p
Goto(h, p) ==
  /\ pc' = [pc EXCEPT ![h] = p]
  /\ reply' = NoReply

\* handler h writes its answer and ends
Answer(h, by, ttl, data, helpers) ==
  /\ reply' = [by |-> by, ttl |-> ttl, data |-> data,
               start |-> start[h], verdict |-> verdict[h], helpers |-> helpers]
  /\ pc' = [pc EXCEPT ![h] = "idle"]
  /\ key' = [key EXCEPT ![h] = NoKey]
  /\ start' = [start EXCEPT ![h] = 0]
  /\ response' = [response EXCEPT ![h] = NoResponse]
  /\ expired' = [expired EXCEPT ![h] = FALSE]
  /\ verdict' = [verdict EXCEPT ![h] = "none"]

(* handleQuery begins: the clock is read and the limiter lets it pass ...  *)
Receive(h, k) ==
  /\ pc[h] = "idle"
  /\ key' = [key EXCEPT ![h] = k]
  /\ start' = [start EXCEPT ![h] = clock]
  /\ verdict' = [verdict EXCEPT ![h] = Meant(rules, k)]
  /\ Goto(h, "filter")
  /\ UNCHANGED <<clock, proxyVars, response, expired>>

(* ... or refuses it. *)
Limited(h) ==
  /\ pc[h] = "idle"
  /\ Answer(h, "limiter", 0, NoResponse, {})
  /\ UNCHANGED <<clock, proxyVars>>

FilterSkipped(h) ==           \* mutant: what is cached is not filtered
  /\ pc[h] = "filter"
  /\ IF Allowed(filter, Name[key[h]]) \/ key[h] \in DOMAIN cache
     THEN /\ Goto(h, "get")
          /\ verdict' = [verdict EXCEPT ![h] = IF @ = "passes" THEN "none" ELSE @]
          /\ UNCHANGED <<key, start, response, expired>>
     ELSE Answer(h, "filter", 0, NoResponse, {})
  /\ UNCHANGED <<clock, proxyVars>>

(* The filter in force now decides. *)
Filter(h) ==
  /\ pc[h] = "filter"
  /\ IF Allowed(filter, Name[key[h]])
     THEN /\ Goto(h, "get")
          /\ verdict' = [verdict EXCEPT ![h] = IF @ = "passes" THEN "none" ELSE @]
          /\ UNCHANGED <<key, start, response, expired>>
     ELSE Answer(h, "filter", 0, NoResponse, {})
  /\ UNCHANGED <<clock, proxyVars>>
-----------------------------------------------------------------------------
(* cache *)

RemainingWhole(e, now) == {e.ttl}   \* mutant: the TTL is not reduced

\* cloneCachedResponse: the TTL less the whole seconds since storedAt; the
\* fraction is cut off.  A request that is older than the entry makes that
\* time negative; from a full second on its conversion to uint32 depends on
\* the platform and comes out as 0 or as a huge number.
Remaining(e, now) ==
  LET since == now - e.storedAt
      elapsed == IF since < 0 THEN 0 ELSE since \div Second
  IN  {IF elapsed >= e.ttl THEN 0 ELSE e.ttl - elapsed}
        \cup (IF since <= -Second THEN {0} ELSE {})

\* the response that an entry holds
Data(e) == [cacheable |-> e.cacheable, ttl |-> e.ttl, fetched |-> e.fetched]

(* Get: an entry that has not expired answers; otherwise the engine is     *)
(* asked.                                                                  *)
Get(h) ==
  LET now == start[h] IN
  /\ pc[h] = "get"
  /\ IF key[h] \in DOMAIN cache /\ cache[key[h]].expiresAt > now
     THEN LET e == cache[key[h]] IN
          \E ttl \in Remaining(e, now) : Answer(h, "cache", ttl, Data(e), {})
     ELSE Goto(h, "exchange") /\ UNCHANGED <<key, start, response, expired, verdict>>
  /\ UNCHANGED <<clock, proxyVars>>

StillUsableAlways(e, now) == TRUE   \* mutant: no stale window

StillUsable(e, now) == now - e.expiresAt <= StaleTTL

(* GetStale, after a failed exchange: an entry that another handler has    *)
(* refreshed meanwhile, as Get would, or one in the stale window, with     *)
(* TTL 1.                                                                  *)
GetStale(h) ==
  LET now == start[h] IN
  /\ pc[h] = "stale"
  /\ IF key[h] \in DOMAIN cache /\ StillUsable(cache[key[h]], now)
     THEN LET e == cache[key[h]] IN
          IF e.expiresAt > now
          THEN \E ttl \in Remaining(e, now) : Answer(h, "cache", ttl, Data(e), {})
          ELSE Answer(h, "stale", 1, Data(e), {})
     ELSE Goto(h, "fallback") /\ UNCHANGED <<key, start, response, expired, verdict>>
  /\ UNCHANGED <<clock, proxyVars>>

Lifetime(ttl) == IF ttl > 0 THEN ttl * Second ELSE DefaultTTL

\* the keys evictExpiredLocked leaves
Kept(now) == {k \in DOMAIN cache : now - cache[k].expiresAt <= StaleTTL}

IsCacheableResponse(r) == r.cacheable

StoredOverfull(k, r, now) ==  \* mutant: room is made only beyond the limit
  LET e == [cacheable |-> r.cacheable, ttl |-> r.ttl, fetched |-> r.fetched,
            storedAt |-> now, expiresAt |-> now + Lifetime(r.ttl)] IN
  IF ~IsCacheableResponse(r) THEN UNCHANGED cache
  ELSE \E K \in SUBSET Kept(now) :
         /\ IF Cardinality(Kept(now)) > MaxEntries
            THEN \E old \in Kept(now) :
                   /\ \A j \in Kept(now) : cache[old].expiresAt <= cache[j].expiresAt
                   /\ K = Kept(now) \ {old}
            ELSE K = Kept(now)
         /\ cache' = [j \in K \cup {k} |-> IF j = k THEN e ELSE cache[j]]

\* Store: what expired beyond the stale window goes, then, at the limit,
\* the entry that expires first (of several any, in map order), also when
\* the key is present already; the new entry replaces whatever is there.
Stored(k, r, now) ==
  LET e == [cacheable |-> r.cacheable, ttl |-> r.ttl, fetched |-> r.fetched,
            storedAt |-> now, expiresAt |-> now + Lifetime(r.ttl)] IN
  IF ~IsCacheableResponse(r) THEN UNCHANGED cache
  ELSE \E K \in SUBSET Kept(now) :
         /\ IF Cardinality(Kept(now)) >= MaxEntries
            THEN \E old \in Kept(now) :
                   /\ \A j \in Kept(now) : cache[old].expiresAt <= cache[j].expiresAt
                   /\ K = Kept(now) \ {old}
            ELSE K = Kept(now)
         /\ cache' = [j \in K \cup {k} |-> IF j = k THEN e ELSE cache[j]]
-----------------------------------------------------------------------------
\* a response that arrives now; nothing is told of one that may not be cached
Arriving == {[cacheable |-> TRUE, ttl |-> t, fetched |-> clock] : t \in RecordTTL}
              \cup {NoResponse}

(* pool.Exchange brings a response ... *)
ExchangeAnswers(h) ==
  /\ pc[h] = "exchange"
  /\ \E r \in Arriving : response' = [response EXCEPT ![h] = r]
  /\ Goto(h, "store")
  /\ UNCHANGED <<clock, proxyVars, key, start, expired, verdict>>

(* ... or fails: at once, or when the context runs out. *)
ExchangeFails(h) ==
  /\ pc[h] = "exchange"
  /\ \E late \in BOOLEAN : expired' = [expired EXCEPT ![h] = late]
  /\ Goto(h, "stale")
  /\ UNCHANGED <<clock, proxyVars, key, start, response, verdict>>

(* tryFallbackUpstreams copies the list under the lock and asks one after  *)
(* the other within the context of the exchange.  One of those that answer *)
(* is used ...                                                             *)
FallbackAnswers(h) ==
  /\ pc[h] = "fallback"
  /\ ~expired[h]
  /\ fallback # {}
  /\ \E r \in Arriving : response' = [response EXCEPT ![h] = r]
  /\ Goto(h, "storeFallback")
  /\ UNCHANGED <<clock, proxyVars, key, start, expired, verdict>>

(* ... unless there is none, or the context is over: it was when the loop  *)
(* began, or one that keeps silent has used it up.  The failure that the   *)
(* client gets then is offered to the cache too.                           *)
FallbackFails(h) ==
  /\ pc[h] = "fallback"
  /\ \E up \in SUBSET fallback :
       /\ expired[h] \/ up = {} \/ up # fallback
       /\ Answer(h, "failure", 0, NoResponse, up)
  /\ Stored(key[h], NoResponse, start[h])
  /\ UNCHANGED <<clock, filter, rules, fallback>>

(* Store, with the time the query came in, then the answer. *)
Store(h) ==
  /\ pc[h] \in {"store", "storeFallback"}
  /\ Stored(key[h], response[h], start[h])
  /\ Answer(h, IF pc[h] = "store" THEN "engine" ELSE "fallback",
            response[h].ttl, NoResponse, {})
  /\ UNCHANGED <<clock, filter, rules, fallback>>
-----------------------------------------------------------------------------
(* A reload replaces filter and fallback list; one that brings the same    *)
(* ones changes nothing.                                                   *)
UpdateFilter(lists) ==
  /\ rules' = lists /\ filter' = newDomainFilter(lists)
  /\ verdict' = [h \in Handler |-> IF verdict[h] = "none" \/ verdict[h] # Meant(lists, key[h])
                                  THEN "none" ELSE verdict[h]]
  /\ reply' = NoReply
  /\ UNCHANGED <<clock, cache, fallback, pc, key, start, response, expired>>

UpdateFallbackUpstreams(U) ==
  /\ fallback' = U
  /\ reply' = NoReply
  /\ UNCHANGED <<clock, cache, filter, rules, localVars>>

Tick ==
  /\ clock < MaxTime
  /\ clock' = clock + 1
  /\ reply' = NoReply
  /\ UNCHANGED <<proxyVars, localVars>>

Handle(h) ==
  \/ Limited(h) \/ Filter(h) \/ Get(h)
  \/ ExchangeAnswers(h) \/ ExchangeFails(h)
  \/ GetStale(h)
  \/ FallbackAnswers(h) \/ FallbackFails(h)
  \/ Store(h)

Next ==
  \/ \E h \in Handler : Handle(h) \/ \E k \in Key : Receive(h, k)
  \/ \E lists \in Rules \ {rules} : UpdateFilter(lists)
  \/ \E U \in (SUBSET Upstream) \ {fallback} : UpdateFallbackUpstreams(U)
  \/ Tick

Spec == Init /\ [][Next]_vars
-----------------------------------------------------------------------------
\* Types of the proxy's state and of the handlers; the cache stays within its
\* limit, however many handlers store at once.
TypeOK ==
  /\ clock \in Nat
  /\ DOMAIN cache \subseteq Key /\ cache \in [DOMAIN cache -> Entry]
  /\ Cardinality(DOMAIN cache) <= MaxEntries
  /\ rules \in Rules /\ filter = newDomainFilter(rules) /\ fallback \subseteq Upstream
  /\ pc \in [Handler -> PC]
  /\ key \in [Handler -> Key \cup {NoKey}]
  /\ start \in [Handler -> Nat]
  /\ response \in [Handler -> {NoResponse} \cup Response]
  /\ expired \in [Handler -> BOOLEAN]
  /\ verdict \in [Handler -> Verdict]
  /\ reply \in Reply

FromCache == reply.by \in {"cache", "stale"}

\* No client is told to keep a record a second or more beyond what its
\* upstream allowed: counted from the time of its query, the TTL of a fresh
\* answer from the cache ends less than a second after the one the record was
\* fetched with, also when entry and query overtook each other.  The part of
\* a second is what cloneCachedResponse cuts off.
TTLWithinSecond ==
  reply.by = "cache" /\ reply.ttl > 0 =>
     reply.start + reply.ttl * Second
       < reply.data.fetched + reply.data.ttl * Second + Second

\* What the cache serves is of bounded age: fresh answers are younger than
\* the lifetime the cache gave them, stale ones by no more than StaleTTL.
AgeBounded ==
  FromCache =>
     LET age == reply.start - reply.data.fetched
         life == Lifetime(reply.data.ttl)
     IN  IF reply.by = "cache" THEN age < life ELSE age <= life + StaleTTL

\* The rules are obeyed as they are meant, also while reloads replace them: a
\* query whose name they deny from its arrival to its end gets no data, neither
\* what another handler cached before nor from a fallback, and one whose name
\* passes them all the time is not turned away.
RulesObeyed ==
  /\ reply.verdict = "denied" => reply.by \in {"none", "limiter", "filter"}
  /\ reply.verdict = "passes" => reply.by # "filter"

\* The fallback as its comment announces it: a client gets a failure only
\* when no upstream of the fallback list would have answered.
FallbackUsed == reply.by = "failure" => reply.helpers = {}
=============================================================================
