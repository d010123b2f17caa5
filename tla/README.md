# Verification of astradns-agent in TLA+

The agent is a DNS proxy that runs on every node: it answers queries from a
cache or forwards them to a resolver engine (unbound, bind, powerdns or coredns)
that it runs as a subprocess, watches its configuration, probes the upstreams
and exports metrics and query logs. This directory holds TLA+ models of its
concurrent parts, TLC configurations that check them, and TLAPS proofs.
`PROJECT.json` maps every definition to the source lines it models.

## Inventory

| Component | State | Operations | Interacts with |
| --- | --- | --- | --- |
| Query handling (`pkg/proxy/proxy.go`, `cache.go`) | cache entries, filter, fallback list; per handler the time its query came in | `handleQuery`, `Get`, `GetStale`, `Store`, eviction, `UpdateFilter`, `UpdateFallbackUpstreams` | limiter, pool, event channel; reload replaces filter and fallback |
| Rate limiter (`proxy.go`) | global, per-source and overflow token buckets, map of sources | `Allow`, `lookupPerSourceBucket`, `cleanupExpiredLocked` | called first by every handler |
| Connection pool (`connpool.go`) | idle connections per network, closed flag | `Exchange`, `borrow`, `release`, `Close` | handlers; `Proxy.Stop` closes it; engine restarts break connections |
| Events and shutdown (`proxy.go`, `main.go`, `collector.go`, `logger.go`) | event channel, two output channels, drop counters, error buffer | `publishEvent`, `fanOut`, both `Run`s, `Start`, `Stop`, `startComponent`, the join in `main` | all components end through it |
| Engine life cycle (`main.go`, `pkg/engine/*/engine.go`) | subprocess, configuration file, current configuration, one lock | `superviseEngine`, reload callback with rollback, shutdown, `Configure/Start/Reload/Stop/HealthStatus` | watcher, health endpoints |
| Health checker (`pkg/health/checker.go`) | upstream list, failure counts, verdicts, gauge | `Run`, `CheckNow`, `UpdateUpstreams`, `HasHealthyUpstream` | reload callback, `/readyz` |
| Configuration watcher (`pkg/watcher/watcher.go`) | debounce timer, last configuration read | `Run`, reload callback | file system, reload callback |
| Domain filter (`domainfilter.go`) | patterns | `Allowed` | handlers |
| Load and validate (`main.go`) | none | `loadEngineConfig`, `validateEngineConfig` | start-up, reload |
| Diagnostics (`pkg/diagnostics/runner.go`) | result per target, ticker | `Run`, `runOnce`, `probeTarget`, `classifyOutcome`, `Snapshot` | network, `/diagnostics` |
| Process log (`pkg/engine/processlog/writer.go`) | line buffer, window with its counts | `Write`, `emitLineLocked`, `rotateWindowIfNeededLocked` | engine output; every start of an engine makes new ones |
| Query log sampling, rendering, tracing, HTTP | sample counter; none | `shouldLog`, templates, handlers | consumers, endpoints |

What is hard here: handlers overtake each other while they carry a time read
earlier; three goroutines operate one subprocess under a lock that is released
between the steps of each; probes run outside the checker's lock; dialling and
exchanging happen outside the pool's lock; shutdown has to get through full
channels, dead consumers and handlers that are still at work; the steps of a
diagnostic probe eat each other's time; the log's windows rotate in the middle of
a write.

What makes each component correct: the cache extends no TTL by a second, never
serves what is too old, stays bounded; a denied name gets nothing and an allowed
one is not turned away. A bucket grants no more than burst and rate. A pooled
connection has one owner and answers belong to their query. Every event is
delivered or counted; nothing is sent on a closed channel; shutdown completes.
There is one engine, none after shutdown, and all parties agree on its
configuration; dead engines are replaced. Verdict, failure count and gauge agree
and follow the upstreams. A diagnosis names the layer that failed, clears none
that does not work, and is of bounded age. No output of an engine is lost or
repeated without a trace.

## Modules

**QueryPath** – one action per step of `handleQuery` between two lock
acquisitions or waits: `Receive`/`Limited` (clock and limiter), `Filter`, `Get`,
`ExchangeAnswers`/`ExchangeFails` (the engine answers, fails at once, or the
context runs out), `GetStale`, `FallbackAnswers`/`FallbackFails`, `Store` (which
is also the write of the answer). A key stands for name, type and class; a
response for whether it is cacheable and its smallest TTL. `Remaining` models the
conversion of a negative age to `uint32` as the two results platforms give.
Which entry is evicted among those that expire first is left open, as in the
code's map iteration. `reply` is the answer the last step wrote and carries the
history the properties need. TTLs are in seconds and the clock is finer, `Second`
ticks to the second: `Remaining` cuts the elapsed time to whole seconds as
`cloneCachedResponse` does, so a record read half a second after it was stored
leaves with its full TTL. A fresh entry answers as "cache" whether `Get` or
`GetStale` found it, an expired one as "stale" with TTL 1. The filter in force
is the parsed form of the current `rules`, so that the module composes with
`DomainFilter`; `verdict` is history: what the rules meant for a handler's name
all the time since its query came in.

**DomainFilter** – `newDomainFilter`, `parsePatterns`, `matchesAny` and `Allowed`
as operators on names as sequences of characters, because what can go wrong is
where a suffix begins; and a reference definition (`InZone`, `Covers`, `Passes`)
of what the lists mean, stated without suffixes. `Char` is the alphabet; the dot
and the asterisk are in it.

**OwnedPool** – the abstract specification of a pool that lends what it owns: a live
resource is idle or lent to one client; it is taken or made, given back or
destroyed, and nothing else happens to it; a closed pool takes nothing back and is
empty in the end. `ConnPool` implements it under the mapping `Ownership`: live are
the connections that are not closed, idle those in a slice.

**RateLimiter** – `Begin` reads the clock, then `AllowGlobal`, `Lookup` and
`AllowSource` use that time. Tokens are counted in ticks of refill, so a bucket
gains one unit per tick and a query costs 1/rate; the code's floating-point
rounding is left out. A bucket is an identity, so one that cleanup dropped from
the map while a handler held it is still that handler's. History variables
record when a bucket was made, what it granted and how far it was set back.

**ConnPool** – `borrow` (closed, pooled, empty), `Dial` outside the lock,
`Send`, `Receive`, `ExchangeFails`, `release`, `Close`. An answer is whatever
arrives on the connection; only pool discipline makes it the right one.
`EngineRestart` breaks TCP connections and loses what was owed.

**EventPipeline** – handlers publish, `fanOut` copies, two consumers consume;
`Start`, `Stop` (once, by whoever is first), `startComponent` and `main`'s
shutdown run through the same objects. Events are counted. The listeners are
modelled from how the code uses miekg/dns: `Shutdown` of a server that does not
yet serve fails; otherwise it waits for the handlers the server started. The
components that only run and end are taken together as `others`. `EarlyStop`
says whether `Stop` may come before the listeners serve.

**EngineLifecycle** – the supervisor (`Sup…`), the reload callback (`Rel…`, with
rollback `Rb…`) and `main`, over the adapters. Each operation takes the lock;
between two operations the others run. A process crashes or hangs at any time; a
failed write may leave a torn file; a failed reload may or may not have reached
the engine. A new process reads its file when it is started. The adapters share
their code but for `Reload`: `adapter` is "control" for unbound, bind and
powerdns, which run a control program, and "watch" for coredns, whose `Reload`
does nothing (`RelReloadNoop`) and whose process follows the file by itself
(`AutoReload`). What a control program makes the engine read again (`Reread`) is
the whole file, as `unbound-control reload` and `rndc reload` do; PowerDNS's
`rec_control reload-zones` re-reads zones only, so for powerdns what is shown of a
reload holds of the zones, and other settings follow at the next start, which the
model does not tell apart. `suspect` is history: a rollback failed or a reload was
cancelled, and nothing has repaired it since.

**ReloadTransaction** – the abstract specification of a reload: a proposed
configuration is committed or aborted, every proposal is decided, and the engine
is never known to serve anything but the current or, meanwhile, the proposed
configuration, unless a rollback has failed. `EngineLifecycle` implements it under
the mapping `Transaction`, with supervisor, crashes and shutdown interleaved.
`ConfigWatcher` relies on it: there a reload has one outcome (`Apply` or
`ApplyFails`), and the fairness assumes only what is promised (`Decided`). For an
engine that follows its file by itself `serving` is unknown to the agent: its
promise is `EngineCatchesUp` instead.

**ConfigWatcher** – `main`'s first load, `AddWatch`, the branches of the select in
`Run` (`OnDone`, `OnEvent`, `OnError`, `OnTimer`) and the callback (`Load`, then
`Apply` or `ApplyFails`). A configuration is the number of the change that
brought it; events have no content and the kernel drops them from a full queue.
`gap` is history: the file changed after `main` read it and before the watch, and
nobody has read it since; the code does nothing about that. A reload that fails
is not tried again before the next event.

**HealthChecker** – a pass copies the upstreams (`CurrentUpstreams`), then probes
and records one after the other; ticker pass and reload pass interleave with
`UpdateUpstreams`. Failure counts saturate at `CountCap`, from which on the code
behaves the same. `exposed` is history: labels a pass held when they were removed.

**Diagnostics** – `Run` with its ticker, `runOnce`, one action per step of
`probeTarget` and `classifyOutcome`. A step takes d units; it fails when that is a
whole timeout, when the deadline of three timeouts is over, or on cancellation.
`world` is what the endpoint is like: its addresses, whether its A record has a
bad rcode, which addresses accept, how the handshakes and the HTTPS request end.
Instants are kept as ages, so the state space is finite without a bound on time.
A `Snapshot` is a copy under the lock; the invariants hold in every state, hence
in every copy.

**LineWriter** – `Write` as `WriteBegins`, one `WriteLine` per line and `WriteEnds`,
because the clock is read again for every line and may pass a rotation in
between. Output is lengths: a chunk has a length, and where its newlines are is
chosen when `WriteLine` looks for the next one. What was received, logged, dropped
and summed up is history, and so is `loggedBefore`, the lines logged before each
instant. `Restart` replaces the writer, as `Start` of every adapter does. What
`EngineLifecycle` defines too has a prefix (`WriterInit`, `WriterSpec`), so that
`EngineProofs` can extend both.

`MC…` modules give constants and symmetry; `…Proofs` modules hold the theorems.
A definition marked *mutant* is a plausible wrong version of the one after it; no
specification uses it.

## Runs

| Run | Shows |
| --- | --- |
| `query_path` | cache bounded, TTLs extended by less than a second, age of served answers bounded, allow and deny rules obeyed as they are meant through reloads |
| `conn_pool` | no sharing, no leak, own answers, refinement of `OwnedPool` (everything is closed after `Close` included) |
| `rate_limiter` | over-admission bounded by the time buckets were set back; sources own their buckets; active sources keep them |
| `event_pipeline` | events delivered or counted, no send on the closed channel, nothing stranded, shutdown completes |
| `engine_lifecycle` | one engine, none after shutdown, agreed configuration, recovery, refinement of `ReloadTransaction`, every engine ends with the current configuration, shutdown ends |
| `config_watcher` | no change unnoticed once the watch is set up, the agent ends with the file's configuration unless that was refused, cancellation ends the watcher |
| `health_checker` | verdict, count and gauge agree; verdicts have an origin; verdicts converge |
| `diagnostics` | a diagnosis names the layer that failed unless the probe ran out of time or is a listed misjudgement, and out of time or not it clears no layer that does not work; results of bounded age, cancellation ends `Run` |
| `line_writer` | bytes and suppressed lines accounted for, rate of the log bounded |
| `health_removed` (violation) | a verdict on a removed upstream makes `/readyz` report ready |
| `early_stop` (violation) | `Stop` before the listeners run ends in a send on a closed channel |
| `fallback_late` (violation) | after an exchange timeout the fallback is asked with an expired context |

Bounds. Two handlers are enough for one to overtake the other at every step;
capacities of one (cache entries, pooled connections, channels, sources) make
every limit reachable with them. `query_path` has the names `x.z` and `yz` and two
pairs of lists that deny one each, with a suffix without its dot, a trailing dot and
a blank among them. Its clock has two ticks to the second, so that whole and half
seconds pass between the store of a record with a TTL of two and its use; 4 ticks
(3 in `rate_limiter`) let an entry or source be
made, expire, leave its window and be met by an older handler. Two upstreams,
configurations and process slots suffice for a removed and a kept one, an old and
a new one, a dying and a starting one. Failure counts need no more than the
threshold. Deadlock checking is off only where the process may end
(`EventPipeline`, `EngineLifecycle`, `ConfigWatcher`, `Diagnostics`) or the bounds end
it (`LineWriter`). `ConfigWatcher` has a queue
of two events against three changes and three other events, so that it overflows
before, during and after a reload. `Diagnostics` has a timeout of two units (a step
is instant, slow or times out), an interval of three, shorter than a probe, and
two targets with an IPv4 and an IPv6 address each: rounds outlast several ticks
and `MaxAge` is reached exactly. `LineWriter` has two lines per window of three
ticks, chunks of up to four bytes, seven bytes in all and a restart: two windows
rotate, the buffer overflows, and the bound of `LogRateBounded` (twice the limit in
a stretch as long as a window, more with a restart) is
reached. With one place in its map
`rate_limiter` reaches every limit; that two sources in the map never share a bucket
is the theorem `Ownership`. Every run ends within three minutes on two cores.

Deviations from what comments promise are runs that expect a violation. That a
handler which is overtaken sets `lastRefill` back and the time in between is
refilled twice is not among them: `OverAdmissionBounded` states how much more than
burst and rate a bucket may grant for it.

`Accurate` compares a diagnosis with `Suffers`, the first layer at which the endpoint
offers nothing, which knows nothing of the order and the early returns of the
probe. It leaves out probes whose steps want all of the three timeouts (they may be
cut short and blamed on the step they were cut in) and probes that are cancelled
(recorded with whatever they have). `Misjudged` lists the diagnoses that differ from
`Suffers` otherwise, each a fact about the code: a bad rcode for the A query ends the
resolution although AAAA records may exist (`runner.go:267`); the handshake without
SNI verifies the certificate against the address, so an endpoint whose certificate
does not name its address is reported as `tls_sni_required`; and an HTTPS request
that fails outright leaves the target "healthy", whose summary speaks of DNS, TCP
and TLS only. `PassedLayersWork` has no such exceptions and holds of probes that ran
out of time too: what is wrong with a diagnosis is then at most that it blames too
early a layer.

The type invariants of `QueryPath`, `ConnPool`, `RateLimiter`, `ConfigWatcher` and
`HealthChecker` carry limits of caches and pools and are checked in their runs;
those of the other modules are proved, and not checked again in the runs.

Fairness. `HealthChecker`: the ticker ticks and probes end within their timeout;
nothing is assumed of network, reloads or shutdown. `ConnPool`: dial and exchange
have timeouts. `EventPipeline`: goroutines that can run do, exchanges have
timeouts; signals, arrivals, panics and failures are not promised.
`EngineLifecycle`: weak for the supervisor's notice of a dead engine, strong for
operations that wait for the lock, because Go's mutex does not starve a waiter
and a `select` does not ignore a ready case for ever; waits end because the
adapter kills, probes because they have timeouts. Two things are assumed that
the code does not enforce: `exec` does not fail for ever, and the engine's
control program ends (it runs without a timeout until cancellation).
`EngineLifecycle` also assumes that CoreDNS looks at its file again and again.
`ConfigWatcher`: its goroutine runs, timers fire, reloads end (`Decided` of
`ReloadTransaction`, which `EngineLifecycle` is shown to meet), a
`select` does not ignore a ready case for ever; changes stop (the debounce has no
upper limit). `Diagnostics`: its goroutine runs and steps end by their timeouts.
`EventPipeline` takes it that the components it does not model in detail end once
`main` joins them: `RunStops` and `WatcherStops` show it for diagnostics and
watcher. `RateLimiter`, `QueryPath` and `LineWriter` state safety only.

## Proofs

Every theorem holds for all values of the constants that satisfy the module's
`ASSUME`, which the runs evaluate on theirs. Each `…Proofs` module proves
`Spec => []IInv` for an inductive invariant `IInv` and derives the properties of the
run from it; each `IInv` was also model-checked with the constants of the run.

**HealthCheckerProofs** proves `TypeOK`, `VerdictsAgree` (`HealthyBelowThreshold`
and `GaugeAgrees`) and `VerdictsAccounted` for every finite set of labels, every
assignment of transports and every threshold. What a pass records depends on
labels copied earlier, so the inductive invariant adds `HeldAccounted`: whatever a
pass still holds is configured or was exposed by the last update.

**ConnPoolProofs** proves `TypeOK`, `NoSharing`, `NoLeak` and `OwnAnswer` for
every number of handlers and connections and every limit. The inductive
invariant adds `HoldsInExchange` (who holds a connection at which step),
`RightNetwork`, `PendingOwned` (an outstanding answer belongs to the holder) and
`ClosedEmpty`; without them a borrowed connection might bring an old answer.

It also proves that every step is one of `OwnedPool` or leaves it alone
(`ConnectionsOwned`: its `Safety`). The invariants say where connections are, the
refinement how they get there: a dial and a pop hand over a whole connection, only
its holder or `Close` closes one, and nothing returns to a closed pool. That what is
dialled is not live, and that a pop leaves no second copy in a slice, are facts
of the invariant.

**RateLimiterProofs** proves `TypeOK`, `OverAdmissionBounded`, `BucketsOwned` and
`ActiveKeepsBucket` for every number of handlers, sources and buckets, all rates,
bursts and limits (costs and bursts positive, a burst worth at least one query).
`OverAdmissionBounded` is not inductive: a take changes `spent` and the bucket's
time together. `Balance` relates them (what is left and what was granted against
what was refilled), and `TimesPast` (no time a bucket met, and no time a handler
carries, is ahead of the clock) turns the bucket's time into the clock.
`BucketsOwned` needs `HeldInTake` (a handler holds a bucket only between lookup
and take) and that the map is finite. `ActiveKeepsBucket` follows from
`TimesPast`: a cleanup with an old time finds entries younger than they are.

**ConfigWatcherProofs** proves `TypeOK` and `ChangeNoticed` for every capacity of
the event queue and every number of changes. A dropped event does no harm because
the queue it did not fit in holds one (`PostFills`), whose handling restarts the
timer; the invariant adds `GapRecorded` for the time before the watch and
`AppliesValid`.

**EngineProofs** has two parts. For `EngineLifecycle` it proves `TypeOK`,
`OneEngine`, `NoEngineAfterStop`, `ConfigAgreement` and, as
`ReloadsAreTransactions`, the safety of
`ReloadTransaction` for every set of configurations and process slots. The
properties speak of quiet moments; the invariant says what holds in between:
`LockHeld` (who has the adapter's lock at which step), `VictimOwned` (a process is
waited for exactly while its `Stop` holds the lock), `SpawnsAlone` and
`StoppedForGood` (after `main`'s `Stop` the supervisor is not in the middle of a
start), and `FileByPhase` and `EngineByPhase`, which say what file and engine may
hold at each step of the callback and its rollback. The refinement needs the last
two: a commit has to find the engine on the proposed configuration, or unknown.

For `LineWriter` it proves `WriterTypeOK`, `BytesAccounted`, `SuppressionReported` and
`LogRateBounded` for every limit, window and buffer size. The counts are
inductive; the rate is not, because a stretch of time may lie across windows.
`RateKept` bounds what was logged since an instant by what the window has logged if
that began before the instant, and allows a further window, and one for each
restart, otherwise. A rotation that is due finds the whole last `windowDuration`
in the first case, which is why two limits are enough.

**EventPipelineProofs** proves `TypeOK`, `Conservation`, `NothingStranded` and
`~EarlyStop => NoSendOnClosed` for every number of handlers and queries and every
capacity. The hypothesis of the last is the constant that tells the run
`event_pipeline` from `early_stop`: the code does panic without it. The invariant
adds `OfferInHand` (`fanOut` has an event in hand exactly while it offers it),
`CloseOrder` (the close travels from the event channel through `fanOut` to the
consumers, each of which drains first) and `StopOrder` (what each step of `Stop`
has achieved: a listener that `Shutdown` has waited for has no handlers left).
That the set of busy handlers is finite is part of the invariant, so `Handler`
need not be.

**QueryPathProofs** begins with the filter. `FilterMeaning` states that
`Allowed(newDomainFilter(lists), domain)` is `Passes(lists, domain)` for all names
and patterns of any length over any alphabet; the lemmas before it restate the
code's prefix, suffix and tail comparisons index by index and show them to be what
lying in a zone means. Then `TypeOK`, `TTLWithinSecond`, `AgeBounded` and
`RulesObeyed` are proved for every number of handlers and keys, every TTL, every
resolution of the clock and every sequence of reloads. An answer's TTL and age
depend on times that were read long before: `EntriesDated` (an entry bears the
time of a query no later than its response was fetched) and `HandlersInStep` (what
a handler brings along at each step) carry them; `VerdictsCurrent` ties the
verdict recorded for a query to the rules in force, and `FilterMeaning` to the
parsed filter. `RemainingBound` is what the truncation of elapsed time costs: less
than a second.

**DiagnosticsProofs** proves `TypeOK`, `Accurate`, `PassedLayersWork` and
`ResultsFresh` for every number of targets, all addresses, timeouts and intervals.
The age of a result depends on where in the round its target stands:
`ResultsDated` bounds it by the time of the round so far less the target's turn,
with a round and an interval more for a target whose turn is still to come, and by
a round and at most one interval while `Run` waits (the ticker drops a tick only
when another is in the channel, which `Run` then takes at once). What a diagnosis
means depends on all steps of the probe: `FoundSoFar` says before each step what
`out` tells of `world`, and `Faithful` that the time left and the time the steps
wanted make up the deadline, so a probe that wanted less was never cut short.
`ClassifyAccurate` is then a fact about `classifyOutcome` alone. `FoundReal` is
the half that a cut step keeps: what `out` has found working is so in `world`;
`ClassifyReal` derives `PassedLayersWork` from it.

Only model-checked, and why: the liveness properties, with `Decided` and `Drains`, the
liveness parts of the refinements: fairness and `ENABLED` are out of the prover's
reach. Every invariant of the passing runs is a theorem, and so are the action
property and the safety part of each refinement.

## Not modelled

Rendering of engine configuration and field-by-field defaults (text, no state);
tracing (set-up of a third-party exporter); HTTP handling and the metrics token;
the sampling of query logs and the update of counters for each event (no state
other parts read); latency and other measured values; floating-point rounding in
the buckets. The read of the configuration file by a freshly started engine is
taken to happen at its start, and CoreDNS is taken not to read the file while
`os.WriteFile` is in the middle of it. A SIGTERM to the agent's own child is taken
to be delivered: it fails only when the child has exited, which the code handles.

Open question: a response whose records all have TTL 0 is cached for the default
TTL (`cache.go`, `cacheEntryTTL`).

## Plan

1. Done: the modules above, their runs, and the proofs: every invariant of the runs,
   the action property `ActiveKeepsBucket`, the meaning of the filter, and the safety
   of the two refinements (`ReloadTransaction`, `OwnedPool`).
2. Worth adding when the code moves there: a module of the metrics processing, once
   other parts read what it keeps.
