# TLA+ model of the ride-matching engine

A formal model of the ride-matching engine, in four parts. The front door: API
keys, their rotation and revocation, the rate limit and the HTTP handler behind
them. The dispatch path: from that handler through the Redis stream and the
batchers to a match or a dead letter; and the lease manager that is meant to
keep two batchers from booking one driver. The ingest path: from a driver's
WebSocket through the window of the pipeline into the location store, with the
reaper beside it and the shutdown of the process. The engine: one SolveBatch
call, from the quadtree and the road graph to the assignment and its reasons.
The modules are translated from `infrastructure/` and `matching_engine/src`.

    tlasany M.tla                           parse
    tlc -workers 2 -config X.cfg MCDispatch model-check (see "Runs")
    tlapm DispatchProofs.tla                check the proofs (of any *Proofs module)

## 1. Inventory

| Component | State | Operations | Talks to |
|---|---|---|---|
| API, `internal/api`, `cmd/requestd` | requests under way | POST /v1/ride-requests, probes, start, shutdown | key store, then the queue; 202, 4xx or 503 |
| Queue, `internal/queue` | stream, consumer group (last delivered id, pending list with delivery counts and idle times), dead-letter stream | Publish, Republish, Consume, Reclaim, Ack, DeadLetter | Redis |
| Batcher, `internal/batcher`, `cmd/batcherd` | two goroutines, each with the batch it holds; the root context | Run, startReclaimer, processBatch | queue, location store, engine client |
| Engine client, `internal/engine` | a connection | SolveBatch, Health; error taxonomy | engine over gRPC |
| Leases, `internal/locks` | lock keys with token and TTL; leases in the hands of callers | Acquire(Many), Release(Many), Extend, Acquire/ReleasePartition | Redis |
| Location store, `internal/locations` | a geo set and a last-seen set per tenant | UpsertMany, Nearby(Many), RemoveDriver, Reap | Redis |
| Pipeline, `internal/pipeline` | latest ping per driver in the current window | Accept, flush, Run | location store |
| WebSocket ingest, `internal/ingest`, `cmd/ingestd` | connection count, draining flag, WaitGroup; three goroutines per connection | admit, serve, read and write pumps, Shutdown | pipeline |
| API keys, `internal/auth`, `cmd/keyadmin` | key records, the set of keys of a tenant, per-key rate windows | Create, Lookup, Revoke, Rotate, List, Allow | Redis; the middleware of requestd and ingestd |
| Engine service, `matching_service.cpp`, `cost_matrix.cpp` | none between calls | SolveBatch, Health | quadtree, router, solver |
| Quadtree, `quadtree.cpp` | a tree of boxes | insert, queryRange, kNearest, nearestNeighbor, remove | built per batch, and once per road graph |
| Road network, `road_graph.cpp`, `router.cpp`, registry and OSM loader | arcs indexed both ways | nearestNode, shortest-path sweep, point-to-point searches | loaded before serving |
| Assignment, `assignment.cpp`, `mcmf.cpp` | residual graph, potentials | solve with SPFA or Dijkstra | - |
| Operations: admin server, metrics, load test, mock drivers, health check | counters | - | - |

What is hard about it:

- **Non-atomic pairs of Redis commands.** Republish is publish then ack;
  DeadLetter is a pipeline of two; Reclaim is XPENDING then XCLAIM; the reaper
  and the upsert of the location store are pairs as well. Each may stop halfway
  and each interleaves with the same pair in another process.
- **Calls with three outcomes.** A Redis or gRPC call succeeds, fails without
  effect, or takes effect and loses its reply. The API, the batcher and the
  lease manager treat the last two alike.
- **Two goroutines, one procedure.** The run loop and the reclaimer both call
  `processBatch`; what one holds becomes idle and is claimed by the other, in
  the same process or in the next one.
- **Stale answers.** The delivery count comes from before the claim; a lease's
  `ExpiresAt` is computed after the reply.
- **Shutdown.** Go's `select` takes any ready case, so work may start under a
  context that is already cancelled; `Run` waits for the reclaimer.
- **Order of shutdown.** ingestd cancels one context that its pipeline and its
  reaper share, and only then closes the listener and the streams that feed the
  pipeline.
- **Read, think, write back.** Rotate reads a key record and saves it again
  three Redis calls later; a second Rotate or a Revoke fits in between. A
  request is judged by the clock it came with against a record read later.
- **Searches over a changing graph.** The solver's potentials are those of an
  earlier residual graph; its queue must not take a node back for a tie. The
  quadtree's search box has corners that are farther than points outside it.
- **Limits.** MAXLEN trims entries nobody has read; MaxDeliveries and
  MaxMatchAttempts are compared across processes.

Properties that make the parts correct: no accepted request is lost; acks only
after the work is done; the attempt counter is honest; no message in two hands
while everyone is on time; every accepted request is settled in the end; a
batcher told to stop stops; at most one holder is sure of a lease, and a lost
lease expires; a driver the store returns as fresh was heard of recently, and
one that fell silent is reaped; a clean shutdown leaves no stream, no slot and
no unanswered request behind, and comes to an end; a revoked key stays out (which
Rotate breaks, section 3), a rotated one lasts as long as promised, and no window admits more than its limit;
the engine answers every batch, with an assignment no other beats, from the true
nearest drivers, and with reasons that are true. `PROJECT.json` lists each hazard with its line.

## 2. Modules

| Module | What it models |
|---|---|
| `RequestQueue` | `internal/queue/redis_stream.go`: one operator per Redis command, over the log, the group's state and the dead-letter stream |
| `Dispatch` | EXTENDS RequestQueue: the API handler, both goroutines of every batcher, `processBatch` call by call, crash, SIGTERM, restart, and the passing of idle time; its properties |
| `RideService` | the abstract promise: requests are promised, open, matched, dead |
| `ProcessingProofs` | EXTENDS Dispatch: theorems about messages and the goroutines that hold them, for any MAXLEN |
| `DispatchProofs` | EXTENDS ProcessingProofs: theorems that need an untrimmed stream |
| `RideServiceProofs` | EXTENDS DispatchProofs: the refinements of RideService |
| `LeaseManager` | `internal/locks/lease.go`: calls under way, Redis, and the leases holders believe in |
| `LeaseManagerProofs` | theorems about LeaseManager |
| `LocationStore` | `internal/locations/redis.go`: the two sorted sets, UpsertMany and Reap command by command, pipelines that fail, are retried, or run late |
| `Pipeline` | EXTENDS LocationStore: `internal/pipeline/pipeline.go`, the window, the ticker's and the last flush, over the store ingestd gives it; its properties |
| `Ingest` | EXTENDS Pipeline: `internal/ingest/server.go` and `cmd/ingestd/main.go`, handlers, streams, main and its shutdown; its properties |
| `IngestProofs` | EXTENDS Ingest: theorems about Pipeline and Ingest |
| `ApiKeys` | `internal/auth/redis_store.go` and `cmd/keyadmin`: key records, and create, rotate and revoke call by call |
| `FrontDoor` | EXTENDS ApiKeys: the middleware, Verify and Allow, the handlers of `internal/api/server.go`, start and shutdown of `cmd/requestd`; its properties |
| `FrontDoorProofs` | theorems about ApiKeys and FrontDoor |
| `QuadTree` | `quadtree.cpp`: insert, queryRange, kNearest as operators on a tree |
| `Router` | `road_graph.cpp`, `router.cpp`: arcs in both directions, nearest node, the sweep from a rider, node by node |
| `MinCostFlow` | `mcmf.cpp`, `assignment.cpp`: both engines of `solve`, queue entry by queue entry |
| `MatchingService` | EXTENDS the last three: `matching_service.cpp`, `cost_matrix.cpp`, SolveBatch from its checks to its answer; its properties |
| `MinCostFlowProofs` | theorems about the solver: searches, paths, augmentations, potentials, sums of costs |
| `MatchingServiceProofs` | EXTENDS MatchingService and MinCostFlowProofs: theorems about the sweep, the quadtree and SolveBatch |
| `MCDispatch`, `MCLeaseManager`, `MCPipeline`, `MCIngest`, `MCFrontDoor`, `MCMatchingService` | instances for TLC |

### RequestQueue

`log` is every entry ever appended; an entry's id is its position. `first` is
the oldest entry MAXLEN has left, `last` the group's last-delivered id, `pel`,
`count` and `idle` the pending list with its delivery counts and the entries
whose idle time has reached ReclaimMinIdle, `dead` the dead-letter stream.
Consumer names are left out: no command of the code selects on them.

`XAdd` trims like `MAXLEN ~`: any amount, as long as MaxLen entries are left.
`XClaim` is XCLAIM with MinIdle and without FORCE: entries acked or claimed
since XPENDING are not handed over, trimmed ones leave the pending list.
`DeadLetter(i, reason, whole)` is the pipeline; `whole = FALSE` is the half
after which the connection breaks. So an entry may be dead-lettered and still
pending, which `queue.go` (119-120) says it cannot be and the comment in
`redis_stream.go` (342-347) accepts; no property takes a side. The dead-letter
stream is trimmed by the same MAXLEN in the code and keeps all its records here.
`decode` of an entry that `Publish` wrote
always succeeds, so the branch for malformed entries is left out.

### Dispatch

A goroutine is a pair of a batcher and a role. `pc` names the call it is about
to make:

    run loop:   collect -> lookup -> solve -> settle (<-> unpend) -> collect
                                         \-> reject -> collect
    reclaimer:  tick -> claim -> poison -> lookup -> ... -> tick
    both:       -> stopped, once the context is cancelled

`batch` is what `processBatch` was called with, `todo` what its current loop
has still to settle, in order, `won` the `ackIDs`. Every call to Redis or to
the engine is one step with the three outcomes `Succeeds`, `ReplyLost` and
`Fails`; under a cancelled context every call fails. `Drain` gives the last
batch a context of its own, as `Run` does. `unpend` lies between the two
commands of Republish. `booked` collects the drivers the engine has assigned;
the engine's answer is any partial matching of the batch without a driver used
twice, and a batch that names a RequestID twice is refused.

A client whose post was answered 503 may post again under the same
X-Request-ID, which is the RequestID (`withRequestID`).

`Timely` selects whether a goroutine may hold a message longer than
ReclaimMinIdle (60 s by default, against windows of 3 s and solves of half a
window). `PermanentErrors` lets the engine refuse well-formed batches (missing
graph, batch too large).

### RideService

Four sets. `Submit`, `Match`, `SetAside`, `Close`, `Reopen`; with
`ExactlyOnce`, a request is matched or set aside once and never reopened.
Dispatch implements it under the mapping promised = answered 202, open = an
entry undelivered or pending, matched = a driver booked, dead = a record in the
dead-letter stream.

### LeaseManager

A call is sent, runs at Redis in one step, and its reply arrives; the caller
may give up at any point before that, and a command given up may still run
(`late`). Time is counted in ticks: `ttl` of a key in Redis, `left` until the
`ExpiresAt` a holder computed when its reply arrived. MaxReply bounds how long
a reply travels (the client's ReadTimeout, 1 s against a TTL of 10 s). Tokens
are fresh: 128 random bits. `Extend` and `Release` always address the driver
key, as in the code, also for a partition lease.

### LocationStore, Pipeline

`geo` and `seen` are the two sorted sets. UpsertMany and Reap each send a
pipeline of two commands, which Redis does not run as a transaction: each
command is a step (`stage`, `reap`), so that the other's may fall between them.
An attempt fails without effect, halfway, or after both; `withRetry` repeats it
or gives up, and what it gave up may still run (`late`). A location carries the
time of its ping, which is what ZADD writes; `polar` marks the latitudes that
validation lets through and GEOADD does not take, for which UpsertMany refuses
the whole batch.

`buffer` is the window, `batch` what a flush has still to write, one tenant
after the other. There is one store for all tenants, as ingestd wires it: a
driver id used by two tenants is one member. `Signal` cancels the root context;
the ticker's flush and the reaper live with it, the last flush has a context of
its own (`FlushCtx`). `pinged` is a history variable.

### Ingest

A client's `conn` is where its request is: `arrived` (in the handler), `admitted`
(holds a token of the WaitGroup), `over` or `reserved` (holds a slot), `serving`
(upgraded), `gone`. A stream has a reader, a writer and a socket: the pumps end
for the reasons in the code, either end makes the closer close the socket, and
`serve` returns when all three are done. `main` is what main is waiting for:

    run -> http (httpSrv.Shutdown) -> drain (wsServer.Shutdown) -> flush -> exit

`expired` is the shutdown context's timeout, which cuts the waits short;
`drained` says that wsServer.Shutdown returned nil.

### ApiKeys, FrontDoor

`rec` is the hash of every key, `listed` the set of the tenant's keys. A
keyadmin command is a program counter and what it remembers: Rotate is
`mint -> link -> retire` after its Lookup, Revoke is `revoke` after its EXISTS.
Each call ends `done`, or fails having had its whole effect (`lost`), that of
the pipeline's first command (`half`) or none; a process killed between two
calls is one whose next call fails without effect. `Saved` is HSET, which keeps
the fields it is not given: save omits zero times, so saving an old copy cannot
clear a revocation, only move it. Secrets are left out: a client presents a key
it was shown, or nothing of use.

`held`, `killed` and `cut` record what operators were told and are
read by properties only, like `open` in FrontDoor, the requests that arrived
and were not answered.

A request is `lookup -> count -> handle`, each a Redis call or the handler.
`clock` is the time Verify was given, then the time Allow reads for its window.
Time is counted in ticks on one clock for all processes: skew between the
machines of keyadmin and requestd is left out. A call to the limiter
takes less than a tick: the counter outlives its window by ten seconds, and a
call by a timeout of at most five. `Reject` stands for every answer that depends
on the request alone. `server` is main: `starting -> up -> shutdown -> down`; a
key store or a queue that cannot be reached ends the process before it listens.

Behaviours of the code that the model has and the properties allow:

- Rotate sets `revoked_at` of the old key to the end of the overlap, whether or
  not the key was revoked, before or since its lookup. The key works again until
  then. RevokedStaysOut is the promise this breaks, and FrontDoorRevoked the run
  that shows it; RevocationLasts is what holds: no saved copy, of the old key or
  of its replacement, undoes a revocation for longer than an overlap.
- A second Revoke writes a later `revoked_at`: a request that came in between
  and is looked up after it is let through.
- Rotating an expired key computes a lifetime that is not positive, which Create
  takes for none: the new key never expires.
- A Rotate whose last save took effect and lost its reply retires the old key
  without showing the new one (`cut`).
- During an overlap `keyadmin list` shows the old key as revoked though it works.

### QuadTree, Router, MinCostFlow, MatchingService

The nodes of one depth of the quadtree tile its root, so a node is its depth,
column and row; a tree is its root box, the points with the node that keeps
each, and the nodes that are divided. `insert` puts a point at the first node on
the way down that is undivided and has room, or at the deepest one. Coordinates
are multiples of 2^MaxDepth (`UnitAssumption`, powers of two being `Pow2`) in a
unit small enough that all boxes have whole corners; they stand for the
projected plane, in which the engine computes.
kNearest is a loop of the service (`Search`, `Widen`), one box per step.

The router's sweep takes one node off the heap per step. A node that is not in
`secs` is unreachable. `Fastest` is the reference: the times of all pairs, by
repeated relaxation.

Capacities are 1, as in every call of the code, so the residual graph is a set
of arcs, and augmenting reverses those on the path. A step takes one entry off
the queue or heap: any entry of SPFA's queue, any of the cheapest of Dijkstra's
heap, so the results do not rest on the order of a container. `Solve` starts
either engine: `Auto` chooses by density, and a batch with forty edges per node
is out of TLC's reach.

`phase` is where `solveBatchImpl` is:

    idle -> received -> index -> shortlist <-> price -> built -> solving -> answered -> idle
                    \-> answered (refused, empty)          \-> answered (cancelled)

`index` is skipped when the cap on candidates caps nothing. Costs are rounded as
in `scaledDistance`, with the unit of the model in place of the millimetre.

## 3. Runs

Passing:

| Run | Instance | Checks |
|---|---|---|
| DispatchFaults | 1 request, 1 batcher, 6 entries, 1 fault, 1 stop, permanent errors, fair | TypeOK, NoAcceptedRequestLost, AckedMeansSettled, AttemptsEarned, ExhaustedHadAllAttempts, PoisonNotProcessed, ImplementsAtLeastOnce, AcceptedEventuallySettled, ShutdownCompletes |
| DispatchCalm | 2 requests, 2 batchers, 4 entries, no faults | ExclusiveProcessing, NoDuplicateInBatch, AckIsFinal, ImplementsExactlyOnce |
| Lease | 2 holders, 1 driver, 1 partition, 2 tokens, TTL 3, 1 late command, fair | TypeOK, SafeMargin, Fenced, ForgottenLeasesExpire |
| Pipeline | 1 driver id in 2 tenants, TTL 1, 3 ticks, 2 pings, 1 fault, 1 late write, fair | FreshMeansPinged, SweepSparesFresh, StaleReaped, RunReturns |
| Ingest | 2 clients for 1 connection, 1 ping, 1 fault, 1 late write, fair | TypeOK, CleanShutdown, SlotsCounted, ShutdownCompletes |
| FrontDoor | 3 keys, 2 operators, 2 clients, 4 commands and requests together, 3 ticks, window 2, limit 1, 1 fault | TypeOK, HeldListed, OverlapKept, RateBound, RevocationLasts, NobodyCutOff |
| MatchingService | about 800 batches of up to 3 riders and 3 drivers at 4 places, dense and capped, both metrics, with and without cutoff, refused and empty ones; fair | TypeOK, ShortlistExact, TimesExact, SettledIsFinal, Optimal, HonestReasons, Termination |

Violations, each a sentence of the repository's comments or documents that the
code does not keep:

| Run | What happens |
|---|---|
| DispatchNoDrivers | With no candidate drivers the batch is left pending, deliveries accumulate, and the rider is dead-lettered as poison, though nothing failed: what `queue.go` says MatchAttempts prevents |
| DispatchDoubleBooking | Two batchers book one driver for two riders: nothing calls the lease manager |
| IngestFinalFlush | The signal that starts the shutdown also makes the pipeline's Run do its last flush, while streams are still open; a ping accepted after it is in no flush, although main's comment says the drain comes before the last flush |
| FrontDoorRevoked | A key is created, revoked and then rotated, one command after the other: Rotate moves its `revoked_at` into the future and the key gets past the middleware for the overlap, although keyadmin said "it stops working immediately" |
| Hemisphere | A capped euclidean shortlist indexes drivers in a square that starts at the origin, so a driver with a negative coordinate is in no shortlist, although the comment says that the square certainly encloses every point |

Two further behaviours are in the models without a run of their own. A republish
without its ack leaves a duplicate; in one batch with its original it makes the
engine refuse the batch, and all its riders are dead-lettered (NoDuplicateInBatch
shows that it takes a failure). And Release on a partition lease addresses a
driver key and frees nothing; the partition waits for its TTL.

`PoisonNotProcessed` is a property of one batcher: with two, the delivery count
a reclaimer compares is stale when the other has claimed the entry in between,
and the entry may be processed once more.

Deadlock is not checked in the Dispatch runs: when every request is settled and
the bounds are spent, nothing is left to do; the same holds of FrontDoor. It is
checked in Lease, Pipeline, Ingest and MatchingService, whose only final states,
if any, are the ones after an orderly end. FrontDoor is checked up to the
permutation of keys, of operators and of clients: no definition tells them apart
and none of its properties is temporal.

**Bounds.** In DispatchCalm four entries are two requests and a republication of
each. DispatchFaults has six for its one request, its republications and their
duplicates, so that the bound never keeps a republish from happening, which would
look like a livelock.
MaxMatchAttempts = 2 has a last attempt and one before it; MaxDeliveries = 2 a
redelivery and a poison verdict; MaxBatchSize = 2 a full and a partial batch.
One fault and one stop reach every half-done pair of commands; the theorems below
cover any number. Both passing Dispatch runs are timely: that a goroutine still
processes what has become idle and been claimed by another is left to the
theorems, none of which assumes Timely unless its statement says so. In Pipeline,
three ticks against a TTL of one let a driver be written, become stale, be
scanned and be written again before it is deleted; two tenants with one id meet
in the store. In Ingest, two clients for one connection race for the slot, and
one ping is the one that arrives at the wrong moment. In FrontDoor, three keys are
a key and the replacements of two concurrent rotations, four pieces of work two
commands on one key and two requests, and three ticks reach past an overlap and
into a second window. In MatchingService, three riders and three drivers are the
smallest instance in which a later path reverses an earlier one and some node is
not reached by a search; the four places have a corner case of the search box
(B is farther from A than C, but in the smaller box), one-way streets, and a
place nobody leaves; Capacity 1 and MaxDepth 2 divide nodes and fill a deepest
one.

**Fairness.** Weak fairness of each goroutine's next step (the Go scheduler,
and timeouts on every call), of the restart of a stopped process (the
orchestrator), and of the aging of a pending entry (time). Posts, faults,
crashes and shutdowns are never forced. For leases: calls are answered or given
up (ReadTimeout), and time passes. For ingest: handlers, streams whose socket
is closed or whose server is closing, the pipeline's Run, the reaper and main
go on. Clients, signals, faults and the timeout of the shutdown are not forced,
so ShutdownCompletes does not rest on the timeout. For the engine: the handler
goes on, as it never waits for anybody; batches and cancellations are not forced.

## 4. Theorems

Every theorem holds for all values of the constants, under the named
assumptions of the modules that declare them; the hypotheses a theorem adds are
given with it. Every invariant, action property and refinement that a passing run
checks is proved; liveness is left to TLC.

### Messages and goroutines (`ProcessingProofs`)

For any sets of requests, drivers and batchers, any number of entries, faults
and stops, and any MaxLen, a stream that is trimmed while it is read included.

| Theorem | Statement |
|---|---|
| `TypeInvariant` | Spec => []TypeOK |
| `AcksAreFinal` | Spec => AckIsFinal |
| `EarnedAttempts` | Spec => []AttemptsEarned |
| `ExhaustedFairly` | Spec => []ExhaustedHadAllAttempts |
| `ExclusiveHands` | Timely: Spec => []ExclusiveProcessing |
| `LimitKept` | Timely, one batcher: Spec => []PoisonNotProcessed |

`BInv` says that variables have their types and that what is pending or held was
delivered. `NextKind` then sorts the steps by what they do to the queue: append,
read, list, claim, ack, bury, age, or nothing. Each later proof has one step per
kind in place of one per action of the model.

- *Attempts.* AttemptsEarned says of one entry that its predecessor was
  delivered; that a rider had all attempts needs the whole `Ladder` down to 0.
  The ladder speaks of delivered entries alone, so that a republication that has
  just been appended owes nothing yet.
- *Exclusive hands.* A message is claimed only when idle, and read only when
  undelivered. `HeldNotIdle` (nothing in a goroutine's hands is idle) makes a
  claim take what nobody holds. Timely is that assumption about time; without
  it two goroutines may hold a message, and the theorems that do not name Timely
  hold all the same.
- *Delivery limit.* The reclaimer decides by counts it read before its claim.
  `SeenTrue`: they are still true of entries that are still pending, because with
  one batcher only this reclaimer adds to them. With two batchers they may be
  stale (section 3), so the hypothesis is needed.

### Nothing lost (`DispatchProofs`)

| Theorem | Statement |
|---|---|
| `AckSafety` | MaxEntries <= MaxLen: Spec => []AckedMeansSettled |
| `NoLoss` | MaxEntries <= MaxLen: Spec => []NoAcceptedRequestLost |

The hypothesis says that the stream is not trimmed. It is needed: `MAXLEN ~`
trims entries whether or not anybody has read them, so with more entries than
MaxLen an accepted request can vanish from the stream.

The inductive invariant `IInv` has three parts. The queue's: BInv's, nothing
trimmed, and AckedMeansSettled. The goroutines': `won` holds matched requests
only, and between the halves of Republish the entry about to be acked is already
superseded. The clients': an accepted request has an entry. The last two are
what makes AckedMeansSettled inductive: an ack is a step of its own, taken after
other processes have moved, so the reason for it must survive in the state. A
lemma says that what justifies an ack is never undone (`MayAckStays`).
NoAcceptedRequestLost follows by looking at the last entry of the request, which
exists because the naturals are well founded (`WaitsOrSettled`).

### The service (`RideServiceProofs`)

| Theorem | Statement |
|---|---|
| `AtLeastOnceService` | MaxEntries <= MaxLen: Spec => ImplementsAtLeastOnce |
| `DistinctRiders` | Timely, no faults, no stops: Spec => []NoDuplicateInBatch |
| `ExactlyOnceService` | the same and MaxEntries <= MaxLen: Spec => ImplementsExactlyOnce |

The mapping is that of section 2: `Promised`, `Waiting`, `Served`, `Buried`. At
least once, every kind of step is one of the service's or leaves the four sets
alone; that an ack closes only what is settled is `NoEntryLost`, from IInv.

Exactly once needs to know that a request has one entry in play. `OneAlive`: two
entries of a request that wait or are pending are the two of a Republish that
has published and not yet acked (`Replaced`). `AliveOpen`: the request of an
entry in play has no outcome yet, but for a match whose ack comes at the end of
its batch (`Matches`). `HeldPending` and exclusive hands say that what a
goroutine settles is in play and in no other hand. The hypotheses on faults and
stops are those of the property: a lost reply after a publish, or a crash before
an ack, is where a second entry in play comes from.

### Leases (`LeaseManagerProofs`)

For any sets of holders, drivers, partitions and tokens,
any number of late commands, any TTL and any reply time shorter than it:

- `LeaseTypes`: Spec => []TypeOK
- `MutualExclusion`: Spec => []SafeMargin
- `Fencing`: Spec => Fenced

They rest on `LeaseAssumption` (MaxReply < TTL, as ReadTimeout 1 s against TTL
10 s) and on the freshness of tokens in `Fresh`. SafeMargin compares two
holders; what makes it inductive is what each has in Redis. `SureOwned`: a
lease with more than MaxReply left has its token in the key, and the key lives
for at least what is left less MaxReply. A lease comes into being by a reply,
so the same must be known while the reply travels: `GrantStands`, the key has
lost no more than the reply's age. Both are stable only if nobody else can
release the lock, which is `Apart`: a token belongs to one lease, no release
under way or late carries it, the token of an acquisition is nobody else's, a
renewal is for a lease its sender has, and a lease's token is in no other key.
There is one lemma per action; `EffectStep` says what a command does to a key
and is also the core of Fencing.

### Ingest path (`IngestProofs`)

For any tenants and drivers, any TTL, number of pings, ticks, faults and late
writes; in Ingest for any finite set of clients and any MaxConnections.

| Theorem | Statement |
|---|---|
| `PipelineTypeCorrect` | PipelineSpec => []PipelineTypeOK, with the bound of the window |
| `PipelineFresh`, `IngestFresh` | PipelineSpec, Spec => []FreshMeansPinged |
| `PipelineSweep` | PipelineSpec => SweepSparesFresh |
| `IngestTypeCorrect` | Spec => []TypeOK |
| `IngestSlots` | Spec => []SlotsCounted |
| `IngestCleanShutdown` | Spec => []CleanShutdown |

`PInv` follows a position to the store: `OnTheWay`, every copy of it (in the
window, in a flush, in the write under way, in a write that outlived its caller)
carries a time its driver did report; `StoredReported`, so does the store. A
late write may well put an older time over a newer one: the invariant says that
it is a reported one, and FreshMeansPinged that no more is needed. `SInv` is the
server's: the counter is the number of slots in use, and `RoomKept` separates
the slots taken for a moment (`over`) from those that are kept, of which there
are at most MaxConnections; `DrainedShut`, after a clean drain main is past the
point where admit closed and no handler has a token. Ingest takes every step of
Pipeline, so PInv is proved of those steps once and used in both modules.

### Front door (`FrontDoorProofs`)

For any finite sets of operators and clients, any keys, rate limit, window and
overlap, and any number of commands, requests and faults.

| Theorem | Statement |
|---|---|
| `FrontDoorTypeCorrect` | Spec => []TypeOK |
| `KeysListed`, `KeysOverlap` | Spec => []HeldListed, Spec => []OverlapKept |
| `RateLimited` | Spec => []RateBound |
| `RevocationKept` | Spec => []RevocationLasts |
| `NobodyDropped` | Spec => []NobodyCutOff |

`KInv` is about keys. `RotationsOwn` and `FreshDistinct` say what a rotation may
rely on while others run: its replacement is listed, is its own, is linked to
nothing before it says so and to its old key after. From that, `OverlapAhead`: a
key with an end that nobody forced on it has a successor that was shown at least
an overlap before that end; it is about the recorded end, and OverlapKept about
the moment the end is reached. `KilledRevoked`: a reported revocation stays in
the record, since no save clears it, and is never more than an overlap ahead; a
copy of a replacement that was revoked since it was minted carries no revocation,
and that of an old key is saved with the end of its overlap. `DInv` is about
requests. `AllAdmissible`: a request that is counted has a key and a clock at most
a tick old. `PassedCounted`: whoever is past the limiter was
counted in its window or had its call fail; it is stable because a counter that
is not zero expires after its window (`CountersLast`). `OpenCounted` ties the
requests in the server to those unanswered.

### Assignment solver (`MinCostFlowProofs`)

For any limits on a batch, any network `FlowGraph` can build and both engines.

| Theorem | Statement |
|---|---|
| `SolverKeepsInv` | SolverInv and a step of the solver imply SolverInv' |
| `SolverKeepsPaid` | with SolverInv, Paid and a step of the solver imply Paid' |
| `SolverSettles` | SolverInv => SettledIsFinal |

`SolverInv` says what the code takes for granted between two pops of its queue:

- *The graph.* `Residual`: every arc has its unit on one of its two directions.
  `Balanced`: a rider gets flow from the source exactly if it passes it on to one
  driver, a driver takes it from one rider exactly if it passes it on to the sink.
- *A search.* `SearchInv`: the nodes reached form a tree along prev (`Grounded`,
  stated of sets of nodes, so that no induction is needed to say that there is no
  cycle), and a node that is not queued has passed its cost on. So the walk from
  the sink along prev is a simple path of residual arcs whose weights add up to
  the sink's distance (`PathIsSimple`, `Distances`).
- *Potentials.* `Priced`: some potentials price every residual arc at zero or
  more. Dijkstra keeps potentials, but they are 0 for a node that has not been
  reached, so that arcs into and out of such nodes may be priced below zero; and
  SPFA keeps none. Hence the invariant says that good potentials exist,
  constructed at every augmentation from the distances just found, and
  separately that Dijkstra's own ones are right for the nodes a search reaches
  (`Guide`). `Ordered` is then Dijkstra's argument: what is settled is no farther
  than what is queued.
- *The end.* `Cut`: after a search that did not reach the sink, the nodes it
  reached are closed under residual arcs.

`Largest` maps every assignment one to one into the pairs that carry flow, along
the cut. `Cheapest` compares sums: with good potentials, what a pair of the
assignment costs splits into terms of its two nodes and a rest that is not
negative, and zero for pairs that carry flow (`Splits`). Sums over finite sets
are MapThenFoldSet's; `SumsExist` shows the fold's recursion to be well founded,
and the facts about it (`SumAdd`, `SumShift`, `SumExchange`) follow by induction
over subsets. `Paid`: the cost that is added up from the sinks' distances is
the sum over the pairs that carry flow.

### SolveBatch (`MatchingServiceProofs`)

For any road network, any limits, any capacity and depth of the quadtree, and any
batches of places in the unit of the model (`BatchesAssumption`,
`UnitAssumption`).

| Theorem | Statement |
|---|---|
| `EngineInvariant` | Spec => []EngineInv |
| `TypesHold` | Spec => []TypeOK |
| `TimesAreExact` | Spec => []TimesExact |
| `SettledStaysFinal` | Spec => []SettledIsFinal |
| `AnswersAreOptimal` | Spec => []Optimal |
| `DriversAreIndexed` | NorthEast: Spec => []EveryDriverIndexed |
| `ShortlistsAreExact` | NorthEast: Spec => []ShortlistExact |
| `ReasonsAreHonest` | NorthEast: Spec => []HonestReasons |

`NorthEast` says that no coordinate of a batch priced by distance is negative;
batches priced by travel time may be anywhere. It is needed: the square world of
`buildSparseEdges` starts at the origin, and the run Hemisphere has a driver to the
west of it that no shortlist can name.

`EngineInv` ties the phases together: which loop is at which rider (`Stages`),
that the router works only between a shortlist and its prices (`Sweeps`), the
shortlists (`Lists`), that the edges are those of the riders so far and cost what
the definition of driving times says (`Edged`), that the solver runs on the
network of the kept edges (`Solves`) and the answer is what it found (`Responds`).

- *Sweep.* `Sweeping`: what is closed is no farther than what is on the heap,
  every arc into a closed node has been looked at, and every time found is that of
  a trip with no more arcs than nodes are closed. When the heap is empty the times
  are the fastest (`SweepExact`), which `Times` defines by the trips of n arcs for
  growing n.
- *Answer.* The network's pairs and the kept edges correspond one to one
  (`KeptArcs`), with equal sums (`SameSum`), so Largest and Cheapest carry over.
- *Quadtree.* `KeptUnder`: the box of the node a point is kept at, and of every
  node above it, contains the point, ties on an edge (west, north, the last row)
  included. So queryRange, which prunes by boxes, finds all that is in its range
  (`CandidatesExact`). `Planted` says what the tree holds after n insertions, and
  `Encloses` that the world has everybody in it (`SquareEncloses`,
  `BoundingEncloses`). `FirstOfAll` is kNearest's stopping rule: once k candidates
  lie within the radius, the first k of the box are the first k of all; a box as
  wide as the last has everything in it (`WidestBox`).
- *Reasons.* If a rider left over has a kept edge, that edge lies on the source's
  side of the cut, so its driver carries flow: to another rider (`LeftOverPair`).

### Only model-checked

- Liveness (AcceptedEventuallySettled, ShutdownCompletes, ForgottenLeasesExpire,
  StaleReaped, RunReturns, Termination): the prover has no ENABLED and no
  fairness.
- What the four violation runs refute.

## 5. Not modelled

- Metrics, logging, `/stats`, admin endpoints; formats of keys and fields.
- go-redis' own retries, which could repeat an XADD; they look like a client
  that posts twice.
- Tenants in Dispatch, LeaseManager and FrontDoor: a message's tenant only
  travels with it. (requestd writes the riders of all tenants to one stream, and
  a batch takes the tenant of its first message.) Pipeline has them, for the
  flush goes tenant by tenant.
- In LocationStore: the search by radius (a read: `Matchable` is its freshness
  test), and UpsertDriver and RemoveDriver, which no process calls.
- In Ingest: pings that fail validation, which change nothing; key lookup,
  whose answer is any (`Refuse`, `Upgrade`) and which FrontDoor has in full.
- In FrontDoor: what makes a body invalid; `recoverPanics`; `--allow-anonymous`,
  which is for development and has no keys.
- In the engine: `remove`, `collapseIfPossible`, `size` and `clear` of the
  quadtree, which the service never calls (reading them shows that `remove` of a
  point kept by a divided node returns before the collapse); A*, point-to-point
  Dijkstra and `SourceDistanceCache`, which serve demos and tests; the largest
  strongly connected component, the registry and the OSM loader, which run
  before the service starts; rounding of floating-point coordinates.
- The numbering of partitions (Geohash).
- Demos, load test, mock drivers, generators, benchmarks, deployment files, test
  utilities.

## 6. Plan

The control of every part with state of its own is modelled, and its safety is
proved. What could be added, in this order:

1. Variants: that the box of kNearest and the searches of the solver can only
   take so many steps, the part of Termination that is safety.
2. The quadtree's `remove` and the router's point-to-point search, should the
   service come to call them.
3. Partition numbering (Geohash), should the API hand out partitions by it.
