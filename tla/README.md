# Verification of top-search

TLA+ models, TLC runs and TLAPS proofs about the search-trend service in
`src/`: a Go program that ingests search events from NATS JetStream, counts them
in per-minute Redis sorted sets, and serves the most frequent queries of the
last minutes over gRPC, filtered by stop words.

`PROJECT.json` lists components, runs, mutants, the map from definitions to
source lines, findings, hazards and theorems. This file explains them.

Contents: 1 inventory - 2 modules and how they correspond to the code - 3 runs,
bounds and fairness - 4 findings - 5 proofs - 6 what is not modelled - 7 plan.

## 1. Inventory

| Component | State | Operations | Interacts with |
|---|---|---|---|
| Event stream and durable consumer (`pkg/nats/jetstream.go`, the server is external) | per message: delivered how often, pending, acked | publish, deliver, ack, nak, ack deadline, give up after `MaxDeliver`, age out | all instances share one durable consumer |
| Subscription (`adapters/nats/consumer.go`, `pkg/nats/consumer.go`) | context, WaitGroup, prefetched messages | `Subscribe`, `Consume`, the callback, `Stop` | stream, `Ingest`, shutdown |
| Ingestion (`core/service/trend.go: Ingest`, `adapters/redis/trend.go: CheckDedup, IncrementBucket`) | Redis: dedup keys with TTL, minute buckets with TTL | normalise, stop-word test, INCR, EXPIRE, ZINCRBY, EXPIRE | Redis, shared by all instances |
| Aggregation (`aggregateLoop`, `refreshTop`, `AggregateTop`, repository `GetTop`) | Redis: `trend:top` with TTL; memory: `cachedTop` | ZUNIONSTORE, EXPIRE, ZREVRANGE, cache | buckets; the one key `trend:top` of all instances and requests |
| Serving (`GetTop`, `StreamTop`, its gRPC handler) | per stream a goroutine with a ticker, a bounded channel, a handler | answer from the cache, or refresh for itself on a miss; filter; limit | aggregation, stop words |
| Stop words (`AddStopWord`, `RemoveStopWord`, `LoadStopWords`) | Redis set; per-instance map | add, remove, load at start, match | ingestion and serving read the map |
| Lifecycle (`internal/app`, `cmd/server`) | provider's lazily created parts, error channels, goroutines | `Run`, `startComponents`, `gracefulShutdown` | everything |
| gRPC and metrics servers | listener, calls under way | `NewServer`, `Run`, `Shutdown` | lifecycle, streams |
| Producer (`cmd/producer`) | worker goroutines, one shared ticker, totals, a reporter | generate and publish batches until the deadline | stream |
| Text functions (`normalizeQuery`, tokenising, the producer's disguises) | none | pure | ingestion, stop words, producer |

Hard behaviours, and what would be right:

* **A handler is four Redis commands, not one.** Failures, the client's own
  retries, a cancelled context and crashes fall between them, while the message
  is redelivered, perhaps to another instance. Right: a count of one user and
  query at most once per window, no event lost, no key for ever.
* **Two deadlines race.** `AckWait` and the dedup window are both 30 s: a
  redelivery may come just before or just after the key of its first delivery
  goes. Right: keys never go early, and a redelivery within the window does
  not count again.
* **Everybody refreshes through one key.** A refresh is three commands on
  `trend:top`; others interleave, the key is replaced, loses its TTL or expires.
  Right: what is read is the exact sum of a recent window.
* **TTLs against a sliding window.** Buckets expire after ten minutes while five
  are summed, events may be created early and refreshes may stall. Right: no
  window misses a count.
* **Redis first, map second.** A stop word lives in two places that nothing
  locks together. Right: the two agree, and an acknowledged addition stays.
* **Lists wait after they were filtered.** A stream's channel buffers lists for
  its client. Right: a new stop word reaches the stream with a bounded delay.
* **Three parties to a stream.** Goroutine, channel and handler must all end
  when the client leaves, when a send fails or when the channel is full. Right:
  nothing is left behind.
* **Workers on one ticker.** Batches, shared ticks and a deadline that part of
  the waits ignore. Right: the rate is kept and the overrun is bounded.
* **Sequential shutdown of concurrent parts.** The order in which parts are
  stopped decides who can still call whom. Right: it ends, without a crash, and
  leaves nothing behind.

## 2. Modules

| Module | Models | Used by |
|---|---|---|
| `SearchStream` | stream and durable consumer | `TrendIngest` (EXTENDS) |
| `TrendIngest` | subscription, `Ingest`, Redis dedup and counting, stop/crash/restart | `MCTrendIngest` |
| `DedupThrottle` | abstract specification of deduplication | `TrendIngest` (INSTANCE, refinement) |
| `TrendTop` | buckets with TTL, `refreshTop`, `cachedTop`, cache misses | `MCTrendTop` |
| `StopWords` | stop words in Redis and in the maps | `Serving` (EXTENDS), `MCStopWords` |
| `Serving` | the filter and limit of `GetTop`, `StreamTop` with its handler, composed with `StopWords` | `MCServing` |
| `QueryText` | `normalizeQuery`, tokens, `matchesStopWord`, `generateQuery` over characters | `Producer` (EXTENDS) |
| `Producer` | the load producer's workers, ticker and deadline, and the texts it publishes | `MCProducer` |
| `Lifecycle` | one process from start to exit | run directly |
| `TrendIngestProofs`, `TrendTopProofs`, `StopWordsProofs`, `ServingProofs`, `ProducerProofs`, `LifecycleProofs` | theorems about the module of the name | |
| `UndisturbedProofs` | theorems about `TrendIngest` while part of its environment behaves | |
| `QueryTextProofs` | lemmas about `QueryText` for texts of any length | `ProducerProofs` (EXTENDS) |

Definitions named `...Short`, `...NoTTL`, `...Always` and so on, introduced by
"A variant", are wrong versions of the code. Nothing uses them; each is put in
the place of the right one to see that a property notices (`mutants` in
`PROJECT.json`).

### SearchStream and TrendIngest

`status`, `deliveries` and `ackTimer` are the consumer's per-message state under
the configuration of `EnsureConsumer` (explicit ack, `AckWait`, `MaxDeliver`,
`MaxAckPending`). The server is external; it is modelled from that
configuration. It may hand out ready messages in any order.

Per instance, `buffer` is what the pull subscription has prefetched and `pc`,
`cur`, `hits` are the callback in progress; `jetstream.Consume` calls it for one
message at a time. The actions follow the handler's Redis commands: `IncrDedup`
and `ExpireDedup` are `CheckDedup`, `IncrBucket` and `ExpireBucket` are
`IncrementBucket`, then `Ack` or `Nak`. The operator `Call` says what one
command may do: run or not, be acknowledged or not, run twice because go-redis
repeated it. A failed `CheckDedup` goes on to count (fail open), as in the code.

Stopping has the code's steps. `Stop` cancels the context: every later Redis
call fails, but messages still come and are called back for, so deliveries are
used up. `Unsubscribe` is `cc.Stop()`, which drops the prefetched messages. The
callback is not waited for: `Exit` may cut it off, and may come before
`Unsubscribe` when `Consume` returned early on a callback's error.

Identifiers are three functions on events, and `KeyOf` takes the first that is
not empty. The dedup counter is kept up to 2, since the code asks only whether
it exceeds 1. Whether a stop word matches is a set of possible answers per
event; the words themselves are in `StopWords`. An event's minute is a constant
of the event: what the code puts in place of a missing `created_at` is the time
of receipt, which is also just some minute.

`Tick` is one unit of the dedup window. Buckets live far longer than that: in a
tick any bucket that has a TTL may go (how long it must stay is `TrendTop`'s
matter), and `ExpireBucket` finds the key or not.

History variables, which the code does not have: `counted` (how often an event
was added to a score), `age` (ticks since a dedup key was created) and `backed`
(something was counted since the key was created; it ends with the key).

### TrendTop

Time is in minutes, since keys are. `IncrBucket` (ZINCRBY) and `ExpireBucket` are
the two commands of an instance's `IncrementBucket`, and `counting` is the bucket
between them; `CountFails` ends it there, which leaves a bucket with its old TTL
or with none. An event counts in any minute up to `Early` minutes ahead of the
clock. A refresh reads the clock (`Begin`), unites
its window (`AggregateUnion`), sets the TTL (`AggregateExpire`) and reads
(`CacheTop` for an aggregator, `AnswerMiss` for a request); `RefreshFails` ends
it at any command, executed or not. `trend:top` is one variable for all of them.
`Stall` bounds how many minute boundaries one refresh straddles: each of its
commands has a timeout of seconds. `total`, `union` and `unionOf` are history.

### StopWords

A call is `Invoke`, then `WriteRedis` or `WriteFails`, then `UpdateMap`; a load
is one action, since an instance serves nothing before it ends. Words are
results of `normalizeQuery`; `Tokens` gives a query's words with the query
itself. `alone`, `inForce` and `unsettled` are history and say which words are
still free of overlapping, failed or foreign calls.

### Serving

It EXTENDS `StopWords` and adds `cachedTop`, filled by `Aggregate`, and the
streams; it keeps the caches of the instances that have streams (`Home`). A stream's goroutine makes a list in two steps, as the code does under
two locks: `Take` copies the cached entries (or refreshes on a miss), `Filter`
applies the stop words and the limit. `Enqueue` and `Abandon` are the select of
the send, `Tick` and `Leave` that of the loop. The handler's `Receive`, `Send`,
`SendFails` and `RangeEnds` are the loop over the channel. The lists under way,
from the one the handler sends to the one the goroutine offers, are one sequence
`line`, and `InChannel` says how many of them the channel holds. `Words` takes a
step of `StopWords`; `ServerCrash` takes its `Crash` with the streams. `late` is
history: how many lists with a word were sent since the word is in force.

The commands of a refresh are in `TrendTop` and not repeated: here a refresh
yields a ranking, of which the first `MaxTopSize` entries are kept.

### QueryText and Producer

A text is a sequence over seven characters, one or two of each kind the code
tells apart: ASCII letters (known to the producer's own `upper` and `lower`),
letters only Unicode's tables fold, digits, symbols, spaces. `normalizeQuery` is
lower case, trim, drop symbols (`writeKept`, the builder's loop), trim. `generateQuery` is the set of everything
the producer may make of a text it picked.

In `Producer` a worker waits at the select of its loop (`select`), at the second
receive of a batch, which ignores the context (`extra`), in the publish call
(`publish`), or at the select inside a batch (`next`). The ticker's channel holds
one tick. Time is counted in units, `Second` of them a second; everything but a
publish call happens at once (`Urgent`), so the clock does not pass a worker that
could move; with `PublishWaits = FALSE` publishing takes no time either. With `Rate = 0` no tick ever comes, as from the nil channel. `picked`
is the text the last event was made from; the text properties are checked for
every text that the workers pick.

### Lifecycle

`main` is the main goroutine's place in `Run`, `startComponents` and
`gracefulShutdown`; the other variables are the goroutines it starts, the
servers and their error channels. The provider's lazy, unlocked
`GrpcServer()` is two steps, look and create, in whichever goroutine runs it
(`AskGrpc`/`CreateGrpc` and `GrpcAsks`/`GrpcCreates`). `log.Fatal`, a panic
nothing recovers and the watcher's panic all are `main = "crashed"`. A
subscription whose `Consume` fails, or takes an early callback's error for its
own (the unsynchronised `err`), returns by itself. A stream is a `StreamTop` call
with its goroutine in the service's WaitGroup. `trouble`, a history variable,
records the circumstances the code has no answer to. `Signal` is the one that
`NotifyContext` catches; a further one during the shutdown, when the deferred
`sigCancel` has run, is `Kill`, after which nothing of the process is left
(`main = "killed"`). Unary calls end at their
timeout and are left out.

## 3. Runs

TLC takes each `.cfg` as it is; two workers suffice. No passing run reports an
error, and all are exhaustive within their bounds.

| Run | Checks | Shows |
|---|---|---|
| `ingest_faults` | `TypeOK`, `KeyCover`, `AnonymousCounted`, `Throttled` | two instances, an event a stop word may match and an anonymous one, failing and half-executed commands, crashes, stalls: a key never goes early, anonymous events are not acknowledged uncounted, and ingestion refines `DedupThrottle` |
| `ingest_restarts` | `OneCountPerKey` | stops in all their steps, lost acks and a stream that ages out, with Redis up: a key lets one count through, in the tick it was created |
| `ingest_undisturbed` | `MarkBacked`, `EveryKeyExpires`, `AckedEventCounted`, `EventuallyCounted` | what holds while no handler is interrupted, however long it stalls: marks stand for counts, keys expire, every event that is to count does in the end or repeats one that did |
| `top_window` | `TypeOK`, `WindowIntact`, `ReadsAWindow`, `CachedCatchesUp` | an aggregator and a missing request on one key, events early and late, failures between any two commands; the cached list catches up with the counts of the window |
| `serving` | `ServingTypeOK`, `StaleBounded`, `AdditionsInForce`, `MapAgrees`, `ServedIsTrueTop`, `NoLeak` | two instances with two concurrent stop-word calls, failures and crashes, and a stream on one of them |
| `producer` | `TypeOK`, `WithinRate`, `OverrunBounded`, `DisguiseUndone`, `WordsSurviveReload`, `StopWordReach`, `RunEnds` | two workers on one ticker with a deadline, and short texts of every kind |
| `lifecycle` | `TypeOK`, `QuietExit`, `OrderlyShutdown`, `ShutdownCompletes` | a whole run of the process with two streams and one or two signals at any time |
| `suppressed_uncounted`, `key_without_ttl`, `refreshed_window`, `stopwords_race`, `rate_short` | one property each, violated | the findings of section 4 |

`AckedEventCounted` and `EveryKeyExpires` pass in `ingest_undisturbed` and fail in
the two violation runs, where a handler may be interrupted. This locates the
cause: the interruption, not an interleaving.

**Bounds.** Two instances and two events of one key are enough for every race
between two handlers of one key, of one event redelivered or of two. A third
event is added where a property is about a third (`refreshed_window`). In
`ingest_faults` and `ingest_undisturbed` one event has the stop word, which stands
also for empty and malformed messages: `ReceiveDropped` treats the three alike.
`MaxDeliver = 2` has a first, a repeated and a last delivery; `MaxAckPending = 2`
lets both events be out. The code has `AckWait` equal to the dedup window, and
so have the runs (both 1 in `ingest_restarts`, where handlers do not stall, and in
`ingest_undisturbed`, where they do and deadlines pass in the middle of a
callback), except `ingest_faults`: it takes `AckWait = 1` under `DedupWindow = 2`, which
redelivers earlier than the code and inside the window, and is the harder case
for a property about early expiry. Time is relative (countdowns), so no run is
bounded in time. `MaxExec`, how often one command may run, is 1 in the runs; the
theorems hold for any.

In `TrendTop` a window of 2 minutes with `BucketTTL = 4 = WindowMinutes + Early +
Stall` is the tightest margin the assumptions allow, while the code has 10
against 5; `Horizon = 4` lets a bucket be filled, leave the window and expire.
`CachedCatchesUp` asks what becomes of the list when counts and clock have
stopped, which these bounds make them do in every run.
The order and the cut of several queries are in `serving`, whose ranking has
three entries of which two are cached and one is asked for: a stop word blocks
the first and the third, so that the limit applied before the filter, or the
wrong cut, shows. Two calls are the least that overlap. `Capacity = 1` (4 in the
code) has a full, an empty and a partly emptied line; `StaleBounded` is proved
for every capacity. The stream is on one of the two instances, so that calls
come from its own and from elsewhere.

In `producer` `Rate = 3` over two workers and `Second = 2` makes an interval of
two units, a batch of three has all three kinds of waits, and the deadline after
six units falls into a batch. `Horizon = 16` lies beyond the largest overrun the
proof allows, so no run is cut off by it. `rate_short` has no deadline and a
JetStream that takes every event at once: `RateReached` allows the producer to be
a second and a batch of every worker behind, and in eight seconds it falls
further back. The shared ticker alone (two workers, no batches) and the batches
alone (one worker) break it too; one worker without batches keeps it. Texts have
up to two characters of any kind, or three out of a letter of each table, a
symbol and a space: three have a beginning, a middle and an end, which is where
trimming, title case and dropping symbols can interact. Stop words are built from
such texts too, some of a repeated word (`"1 1"`), which is one word to a set of
fields but two to a reader: `StopWordReach` speaks of words that are their own
only field, a premise the attempt to prove it made precise.

`Lifecycle` needs one stream that stays and one
that comes late.

**Symmetry** is used in `ingest_faults` only, of instances. `Throttled` is a step property over keys, of which there is
one there.

**Fairness.** `TrendIngest`: a callback that runs is scheduled; the clock moves;
the server keeps its ack deadlines; it serves waiting pull requests, strongly fair
because requests come and go with instances; a stopped process exits and is
started again (`restart: unless-stopped` in the compose file). Nobody must
publish or crash. `TrendTop`: the aggregator's goroutine runs, and Redis does
not fail each of its commands for ever (strong fairness on the commands). No
request and no event is owed. `Serving`: goroutines and handlers are scheduled;
`stream.Send` may wait for a slow client for ever, but returns once the context is
cancelled; a select that finds both the ticker and the context ready again and
again picks the context at last, since Go chooses at random (strong fairness of
`Leave`, nothing for `Tick`). `Producer`: the clock moves, goroutines run, and a
publish call returns, at the latest at the deadline. `Lifecycle`: goroutines run
and every call of `Run` returns, because dials, API requests and server shutdowns
have timeouts. `wg.Wait` has none; it is a guard, not a fair step that must
happen. No signal is owed, and clients may keep streams open.

**Deadlock** is checked everywhere except in `lifecycle`, where an ended process
takes no step.

## 4. Findings

Each is a run in which TLC finds a property violated that the repository's
README or a flag's text states; the quotations are in `PROJECT.json`.

1. `suppressed_uncounted`: the dedup mark is set before the event is counted, so
   an interruption between INCR and ZINCRBY makes the redelivered event its own
   duplicate. It is acknowledged and never counted.
2. `key_without_ttl`: INCR and EXPIRE are two commands; a crash between them
   leaves a key without a TTL. Buckets and `trend:top` have the same gap.
3. `refreshed_window`: EXPIRE also runs for duplicates, so a user who repeats a
   query within every window is counted once and never again.
4. `stopwords_race`: an addition and a removal of one word can cross between
   Redis and the map, which then disagree until a restart.
5. `rate_short`: `-rate` is documented as the total of all workers, but one
   ticker at one worker's share of it serves them all, and a batch takes a tick
   more than it has events: at most rate/workers * batch/(batch+1) comes out, 208
   events a second of the default 1000. With `-rate 0`, documented as unlimited,
   the workers wait on a nil channel and publish nothing (`NothingAtRateZero`).

More were met and are excepted in a property, or said by one, rather than shown
by a run of their own. An open stream makes `gracefulShutdown` wait in `svc.Stop`
before it reaches the gRPC server whose shutdown would end the stream; without
the last disjunct of `ShutdownCompletes` TLC shows the process waiting for ever.
A signal before the gRPC server serves can crash the shutdown, through a second
`Listen` or the watcher's panic (`trouble` "early" in `OrderlyShutdown`). A second signal kills the process
during its graceful shutdown (`Kill`). With many blocked leaders a top has fewer
entries than asked for (`ServedIsTrueTop` says when it has not).

## 5. Proofs

TLAPS proves, for all values of the constants that satisfy the named assumptions:

| Theorem | Says |
|---|---|
| `TypeCorrect`, `Typed`, `StopWordTypes`, `ServingTypes`, `TypesKept`, `LifecycleTypes` | types, with the structural facts in `TypeOK` and `ServingTypeOK` |
| `KeyCovered` | `Spec => []KeyCover` |
| `Throttling` | `Spec => Throttled`: ingestion implements `DedupThrottle` |
| `AnonymousAtLeastOnce` | `Spec => []AnonymousCounted` |
| `MarksAreBacked`, `KeysExpire`, `AckedAreCounted` | `[]MarkBacked`, `[]EveryKeyExpires`, `[]AckedEventCounted`, if `Faults` has no Redis errors, stops or crashes (`Undisturbed`) |
| `OneCountEach` | the action property `OneCountPerKey`, if `Faults` has no Redis errors or stalls (`Steady`): a count is made in the tick its key was created and is the key's only one. It does not say that an event counts once: a redelivery after the key has expired counts again |
| `WindowsIntact`, `ReadsWindows` | `[]WindowIntact`, `[]ReadsAWindow` |
| `AdditionsStay`, `MapsAgree` | `[]AdditionsInForce`, `[]MapAgrees` |
| `ServingImplementsStopWords` | `ServingSpec => Spec` of `StopWords` |
| `StaleListsBounded`, `ServedTrueTop` | `[]StaleBounded`, and the action property `ServedIsTrueTop` |
| `RateKept`, `OverrunKept` | `[]WithinRate`, `[]OverrunBounded` |
| `BatchesCost`, `NothingAtRateZero` | the size of finding 5: n events in batches cost n + 1 ticks of one worker's share; with rate 0 nobody publishes |
| `DisguiseKept`, `ReloadKept`, `ReachKept` | `[]DisguiseUndone`, `[]WordsSurviveReload`, `[]StopWordReach`, for texts and stop words of any length |
| `ExitIsQuiet`, `CrashesHaveReasons` | `[]QuietExit`, `[]OrderlyShutdown` |

Assumptions are those of the modules: `StreamAssumption`, `IngestAssumption`,
`TopAssumption`, `StopWordsAssumption`, `ServingAssumption`, `FlagsAssumption`,
`LifecycleAssumption`; in `TrendTop` also `MarginAssumption` (`BucketTTL >=
WindowMinutes + Early + Stall`) and `TopTTLAssumption` (`TopTTL > Stall`), and in
`Producer` `RateAssumption`. The two of `TrendTop` are what the code's constants
(10, 5 and 2 minutes) must satisfy; they say how far a clock may be off and how
long Redis may take before counts are lost. `RateAssumption` is what
`time.NewTicker` demands, which panics otherwise.

The arguments:

* **Ingestion.** `KeyCover` is inductive beside the types: a key's TTL is either
  unset or at least what is left of its window, since every EXPIRE sets the full
  window and the age advances as the TTL does. The refinement follows: `age`
  falls to 0 only when INCR creates the key, and by `KeyCover` a key is absent only
  when its age has reached the window. For `AnonymousCounted` the strengthening
  says that a handler past ZINCRBY, or an acknowledged event, has been counted:
  what the handler's place and the message's status tell about each other.
* **Ingestion, undisturbed.** The two hypotheses on `Faults` are what the runs
  `ingest_undisturbed` and `ingest_restarts` give; that `AckedEventCounted` and
  `EveryKeyExpires` fail without, `suppressed_uncounted` and `key_without_ttl` show.
  Stalls, lost acks, redelivery and expiry remain. If
  every command is answered once, a handler past INCR is the one that created
  the key exactly when its hit count is 1 (`InOrder`), so the count a key stands
  for is its creator's, made or still owed. For `AckedEventCounted` this is said
  of every handler that will acknowledge (`SettlesAccounted`), and of marks, which
  only counts make (`BackedCounted`). With stops and crashes in, but no stalls, a
  key owes at most one count, by one handler in the tick of its INCR, and none
  once it is counted (`OneClaim`); what keeps this true over a restart is that a process that is down
  or stopping handles nothing new (`DownIsQuiet`).
* **Aggregation.** `WindowIntact` speaks of refreshes about to unite; it is not
  inductive, since the loss would happen at the clock. `BucketsLast` says that a
  bucket which lost counts is too old for the window of any refresh the clock
  still allows, and that one which has not keeps a TTL that reaches that far;
  `RefreshBounded` ties the refreshes to the clock, and `CountingBounded` the
  buckets whose EXPIRE is still to come. `TopLasts` says that while
  some refresher is between its union and its read the key holds the last union
  and will outlast the read. Here what a sum returns is not needed: equal buckets
  have equal unions. The types do need it. They rest on `SumFunction`, which is
  recursive over sets: it is shown to be the number of units, one pair for each
  point of each bucket, so that a score added to a bucket is one unit more, and
  the cut to `MaxTopSize` is taken of finitely many scored queries (`FewScored`).
* **Stop words.** The strengthening for `AdditionsInForce` adds that no removal of
  a word in force is under way (`ForceInv`); for `MapAgrees`, that the only call
  on a settled word is one that has written Redis and will write the map the same
  way (`AgreeInv`).
* **Serving.** Every step of `Serving` is a step of `StopWords` or leaves its
  variables alone, so `ForceInv` holds here too. `LateInv` says where the lists
  with a word in force are: they are the first k of the line, because what is
  filtered after the addition is clean and the line is first in, first out; and
  k with the late ones is at most `Capacity + 2`, the length of a full line. A
  send moves one from k to `late`; an addition begins with k at the line's
  length and `late` at 0.
* **Producer.** `RateInv` counts ticks, not events: the attempts, the ticks
  workers hold and the one in the channel were all ticks of the past. For the
  overrun, once a tick has come after the deadline everybody still alive waits at
  the second receive of a batch, but for one that was just released, and every
  further tick releases one more (`OverrunInv`). For the cost of batches
  (`PaidInv`) a tick is worth `Batch` and an event costs `Batch + 1`: what a worker
  has received and not yet turned into events is a function of its place and its
  count, and no step makes more of it than a tick brings.
* **Texts.** The lemmas of `QueryTextProofs` describe the functions without their
  loops and indices: `writeKept` of a concatenation is the concatenation
  (`KeptConcat`), `TrimSpace` finds the one part that neither begins nor ends with
  a space (`TrimIs`, `SolidInside`), `Fields` of a text with a space in it are
  those of its two sides (`FieldsSplit`). Hence the first of the two trims in
  `normalizeQuery` is redundant (`NormalForm`), a normal form is solid, lower case
  and without symbols, which nothing changes (`NormalStays`), and the words of a
  normal form are the words of the text, cleaned, without those that were symbols
  only (`FieldsNormal`): this is what `StopWordReach` says of single words.
* **Lifecycle.** `Told` and `StreamsTold` state, for each place in
  `gracefulShutdown`, what has been stopped by then: `QuietExit` is their last line.
  That no stream is open after `DrainGrpc` needs that the server was stopped
  before. `Reasons` says that in an untroubled run the shutdown begins with the
  server serving, so that nobody creates another, and errors have reasons.

**Induction.** The provers cannot instantiate an induction theorem, whose
parameter is an operator. Where a recursive function must be understood
(`SumFunction`, `writeKept`, anything about texts of any length), the proof supposes
that something is bad and takes a smallest bad set, a least bad number or a
shortest bad text, which exist by the library's facts on well-founded orders
(`SmallestSubset`, `LeastNumber`, `ShortestByOne`).

**Only model-checked:** liveness (`EventuallyCounted`, `CachedCatchesUp`,
`NoLeak`, `RunEnds`, `ShutdownCompletes`), which is out of the prover's reach
together with ENABLED. Every invariant and action property that a passing run
checks is a theorem.

## 6. Not modelled

* Configuration and logging: read once, or written only; they hold no state the
  program reads back.
* Generated protobuf and gRPC code, about a quarter of the implementation's
  lines: encoding and stubs. What does not unmarshal is the set `Malformed`.
* Metrics counters and the interceptors' logging; the unary handlers' conversions.
* The producer's connection to NATS and its statistics' wording; only that the
  reporter's goroutine ends.
* Real time within one tick or minute: the bound of the Redis connect loop
  (`provider.go:84`) and other timeouts are "a call returns".
* Which identifiers coincide (`keys.go:12`): the models take keys as the code builds
  them, and leave it to an instance whose identifiers are equal.
* The data race on the provider's fields other than the gRPC server (a second
  metrics server would listen lazily and only log).

## 7. Plan

Done, in this order: `SearchStream`, `TrendIngest` with `DedupThrottle`,
`TrendTop`, `StopWords`, `Lifecycle`, `QueryText`, `Producer`, `Serving`, the steps
of a stop and of a failed subscription, and proofs of every invariant and action
property of the runs, those of `TrendIngest` that depend on `Faults` and those of
texts last.

Next: step invariants on which the liveness properties rest, such as that a
message in flight always has a handler, a redelivery or a restart ahead of it,
so that less of them is left to the bounds of the runs.
