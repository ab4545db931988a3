# NexusTS in TLA+

A verification project for NexusTS, a full-stack TypeScript framework for Bun
(`packages/*` of the repository). It models the parts of the framework whose
correctness depends on the order in which things happen: what callers,
microtasks, timers, handlers, lifecycle calls, requests, other processes and
remote stores do to shared state between two `await`s. The models are checked
with TLC on small instances, and every safety property they are checked for is
proved with TLAPS for every value of the constants.

JavaScript runs one piece of code at a time, from one `await` to the next. That
is the grain of every model here: an action is one such run (or one round of a
synchronous loop that calls foreign code), and the interleaving of actions is
the interleaving the event loop allows. Where the event loop allows less than
any order, because microtasks run before the next timer and synchronous loops
before anything else, the guards say so. A call of a Redis client and an SQL
statement are awaits like any other.

## 1. Inventory

Paths are below `packages/`. "Modelled" is what the status in `PROJECT.json` says.

| Component | State it keeps | Operations | Hard part | Correct when | Modelled |
|---|---|---|---|---|---|
| **Bulkhead** `resilience/src/bulkhead.ts` | count of calls in flight, queue of waiters | `execute`, `drain` | a waiter is woken in one turn and counts itself in a later one | limit, FIFO, no idle slot while somebody waits, nobody starves | yes |
| **Circuit breaker** `resilience/src/circuit-breaker.ts`, `stores/` | state, rolling window, probe count and quota; a snapshot in a shared store | `execute`, `metrics`, `forceOpen`/`forceClose`/`reset`, load and save | calls settle with the state they saw when they began; snapshots late or lost | the state machine of its header; never wedged; pods recover | modelled |
| **Retry** `resilience/src/retry.ts` | a timer, an abort signal | `retry` | timer against a late answer | nothing begins after the deadline; the caller gets an answer | yes |
| **Job queue** `queue/src/queue.service.ts`, `backends/memory.ts` | queue, running count, tick timer, workers | `add`, `process`, `drain`, `start`, `stop` | handlers add jobs while a tick sweeps; stop polls | no job lost or doubled; stop means quiet | yes |
| **Scheduler** `schedule/src/backends/memory.ts`, `schedule.service.ts` | tasks, name index, timers, tick | `addCron`/`Interval`/`Timeout`, `delete`, `pause`, `resume`, `start`, `stop` | handlers call the scheduler from inside its loops | index and timers fit the tasks; one run per match | partly |
| **Cron parser** `schedule/src/cron-parser.ts` | none | `next`, `matches`, parsing | a search that jumps | first match, none skipped, ends | partly |
| **Application lifecycle** `core/src/application.ts`, `lifecycle/` | `started`, signal handlers, server | `bootstrap`, `listen`, `shutdown`, signals | the flag is read before and written after the hooks | phases in order on every provider; served only when initialised | partly |
| **Dependency injection** `core/src/di/` | providers, singletons, tokens under resolution, request cells | `register`, `resolve`, module scan | scopes across parent and child containers | the right instance, one per scope; cycles reported | yes |
| **Request pipeline** `core/src/http`, `guards`, `interceptors`, `exception-filters` | one request's progress | guards, interceptors, validation, handler, filters, timeouts | a timeout answers while the handler goes on; errors take several ways out | who is refused never gets in; every answer has its reason | partly |
| **Event emitter** `events/src/emitter.ts` | listeners | `on`, `once`, `off`, `emit`, `emitSync` | emits overlap; `once` is removed after the dispatch | once means once | yes |
| **Rate limiter** `limiter/src/` | counter, log or tokens of each key | `consume`, `reset` | three strategies at the ends of their windows; the SQL storage reads, decides and writes in separate statements | at most so many in any window; `retryAfter` is honest; nobody is shut out | yes |
| **Cache** `cache/src/stores/` | entries, tag index | `get`, `set`, `wrap`, `delete`, `invalidateByTag`, `clear`, `gc` | a value computed before an invalidation and stored after it; an index apart from the entries | tags reach their entries; what is served is current | yes |
| **Sessions** `session/src/` | sessions, per-user index, expiry | `create`, `read`, `update`, `touch`, `rotate`, `destroy`, `destroyMany` | read-modify-write on a remote store; rotation in two steps | who signs out stays out; no patch is lost | partly |
| **WebSocket rooms** `ws/src/service.ts`, `client.ts`, `runtime/node.ts` | clients, rooms, kept twice | `register`, `unregister`, `joinRoom`, `leaveRoom`, broadcast | a client that leaves during a handler | a room reaches exactly its open members | partly |
| **Server-sent events** `sse/src/` | closed flag, pending writes, callbacks | `send`, `close`, `onClose`, abort | close waits for writes while the client disconnects | callbacks once; nothing torn down before it is written | yes |
| **gRPC streams** `grpc/src/service.ts` | a mailbox of messages, an end, an error, a wake-up | the streaming handlers and client methods | events arrive while the reader is asleep, awake or elsewhere | each side sees a beginning of what the other wrote, in order, and then why it ended | partly |
| **Summaries** `metrics/src/summary.ts` | a ring of buckets, the last rotation | `observe`, rendering, `reset` | rotation happens when somebody calls | an observation stays for the window, and no longer than twice that | yes |
| Drizzle `drizzle/src/` | connection | `open`, `transaction`, queries | concurrent lazy `open` | one connection; a transaction holds its statements | no |
| Queue and schedule adapters, Redis adapters | none of their own | translate calls | the service's | the service's | no |
| Health, other metrics, tracing, logger, auth, shield, crypto, mail, drive, upload, static, view, i18n, openapi, graphql, feature-flag, kysely, config, CLI, templates | little or none | I/O, formatting, wrappers of libraries | none a model checker reaches | tested | no |

Interactions: the **application** resolves every provider through the
**container** and calls their hooks; the queue and schedule services are started
and stopped by their modules' providers in those hooks. A **request** gets a
cell of the container and passes the **pipeline** to a handler, which uses the
**cache**, the **limiter** and **sessions**; those run over Redis and Drizzle,
at whose every call another request may run. The **queue**, the **scheduler**,
the **emitter**, the **gRPC** handlers and the WebSocket gateway call user code,
which calls back into them. `ResilienceService` composes **retry**, **circuit
breaker** and **bulkhead** around one operation; circuits of several processes
share a store. The **scheduler** asks the **cron parser** for the next match.

`PROJECT.json` lists every component with its status, and under `hazards` the
places in this code that are hard to test, with the properties that watch them.

## 2. The modules

| Module | What it is | Code |
|---|---|---|
| `FairSemaphore` | abstract: a counting semaphore with a bounded FIFO line | header of `bulkhead.ts` |
| `Bulkhead` | the bulkhead, implements `FairSemaphore` in calm programs | `bulkhead.ts` |
| `CircuitDiagram` | abstract: the state machine drawn in the header | `circuit-breaker.ts:15-31` |
| `CircuitBreaker` | the circuit of one process, implements `CircuitDiagram` under conditions | `circuit-breaker.ts` |
| `CircuitFleet` | the circuit of one name in several processes with a shared store | `circuit-breaker.ts`, `stores/` |
| `Retry` | one call of `retry()` against its overall timer | `retry.ts` |
| `MemoryQueue`, `QueueService` | queue backend, and the service that starts and stops it (EXTENDS it) | `backends/memory.ts`, `queue.service.ts` |
| `Schedule` | scheduler backend and service | `schedule/src/backends/memory.ts`, `schedule.service.ts` |
| `Cron` | the search of `CronExpression.next()` as a state machine | `cron-parser.ts` |
| `Application` | lifecycle calls as concurrent threads over the walk of providers | `core/src/application.ts` |
| `Container` | module scan, `resolve()` with its recursion as a stack, request cells | `core/src/di/` |
| `Pipeline` | one request on its way through a mounted route | `core/src/http/router.ts`, `guards`, `interceptors`, `exception-filters` |
| `Emitter` | overlapping emits, registrations and removals | `events/src/emitter.ts` |
| `Limiter` | one key under three strategies in two storages | `limiter/src/` |
| `Cache` | three stores under clients that fill and writers that invalidate | `cache/src/stores/` |
| `SessionLife` | abstract: what a login goes through, whichever records stand for it | `session.service.ts` |
| `Session` | the service over three storages, implements `SessionLife` for careful programs | `session/src/` |
| `GrpcStream` | one streaming call, both its ends | `grpc/src/service.ts` |
| `SseStream` | one stream of server-sent events and its handler | `sse/src/` |
| `Rooms` | the registry of clients and rooms | `ws/src/` |
| `Summary` | the ring of a summary, with one observation followed through it | `metrics/src/summary.ts` |
| `Resilience`, `Background`, `Core`, `Stores` | the parts of a run side by side, and what is promised of each | |
| `BulkheadConfig`, `ContainerGraphs`, `SessionIds` | constants that several modules share, with what is assumed of them | |
| `*Proofs` | theorems about the module they extend, or about its parts | |
| `MC*`, `SmallCalendar` | constants and specifications for TLC | |

Four configurations hold several parts at once: `MCResilience`, `MCBackground`,
`MCCore` and `MCStores` each have a variable `part` that names the one a
behaviour exercises, while the variables of the others rest. The parts, and the
properties by name, are in `Resilience`, `Background`, `Core` and `Stores`, which
the `MC` modules extend and the proof modules too. This is a way to share a run,
not a composition: parts that do interact (`QueueService` and
`MemoryQueue`, `Session` and its storages, `CircuitFleet` and the store) are
composed in their modules. In the same way choices that a program or a
configuration makes for good (`calm`, `serial`, `program`, `backend`,
`strategy`, ...) are variables that never change, so that one run covers all of
them and a property can say for which it holds.

Definitions named `...OffByOne`, `...Twice`, `...Lost` and so on, under a comment
that begins with *Mutant*, are plausible bugs. They belong to no specification;
each shows that a property fails when the definition beside it is replaced by
them.

### Bulkhead
`inFlight` and `queue` are the fields of the class. `woken` is what the class
does not have: the waiters whose promise `drain()` has resolved and whose
continuation, the code after `await token.acquire()`, has not run. `pc` is where
each caller stands. `EnterFast`, `Reject` and `Enqueue` are the three ways
through the first part of `execute()`, `Resume` the continuation, `Finish` the
`finally` block with `drain()`. In a `calm` program every call to `execute()`
begins a macrotask of its own (a request, a timer), so that no microtask is
pending. Behaviours of both kinds are checked.

### CircuitBreaker and CircuitFleet
The getter `currentState` changes the state it reads; `StateNow`, `QuotaNow`,
`InFlightNow` are what it returns and leaves behind, used by every action that
reads it. A caller is idle, refused, or in `fn()` with the state it saw when it
started. Time is abstracted to two questions the code asks: has `timeout` passed
since `openedAt` (`cooled`), and how many samples have left the rolling window
(`Windows` lets any number of the oldest go). `fresh` is history: the probes of
the present half-open period.

`CircuitFleet` keeps of each circuit its state and probes, and adds what a store
shared by several processes brings: `Transition` sends a snapshot that lands at
once, late (one at a time) or never; `Sync` reads the store and takes over what
it finds at once, `SyncLate` when other calls have gone on; snapshots bear the
clock of their pod, and clocks differ by `Behind`. Whether a failure opens a
circuit is a choice here. `ForceOpen`, `ForceClose` and `Reset`, which saves
nothing, are the operator of a pod; `Expire` is the lifetime of what Redis stores.

### Retry
`at` is where the call stands: in the loop, in `fn()`, asleep, or settled. The
overall timer (`Deadline`) may fire in `fn()` or during a sleep, and only a sleep
listens to the signal it aborts.

### MemoryQueue and QueueService
`sweep` is the part of the tick's list of due jobs the loop has not come to;
while it is not empty only the loop runs, and what the handlers it calls do.
`SweepStep` is one round: a job is dropped for want of a handler, put back to
the front because the queue is busy, or started, and a started handler may throw
within the loop (`StartThrows`) or settle later (`Finish`, `Throw`). Jobs become
due at any time (`Ripen`). `QueueService` adds `start()`, `stop()`, the polls of
`drain()` every 50 ms and the microtasks between the last poll and
`clearInterval`, during which other microtasks run and timers do not
(`TimersMayFire`). A call of `stop()` is named by the number of the `start()` it
takes back.

### Application
Each lifecycle call or signal `k` has its own place: the hook it is busy with
(`phase[k]`), the position in the walk, its `visited` set, whether it awaits a
hook. `Walk` is the sequence of instances `callLifecycleOnAll()` comes upon,
with repetitions, and `Broken` those that cannot be resolved, which the code
skips in silence. In a `serial` program calls are made one after the other.
`done` and `last` are history.

### Container
A module graph is data: for each module its providers (a scope, dependencies,
which of them are optional) and its exports. `scanned` and `exported` say how far
the scanner is; an export is a factory of the root container that forwards to the
module. `stack` holds a frame for each call of `resolve()` and `instantiate()`
that is under way, `todo` of a frame the dependencies still to be resolved, in
any order, since classes, factories and values list them in their own.
`resolving` is the set of the code that detects circles. `MaxDepth` is how many
frames fit the JavaScript stack. An instance is the
provider it is of and the requests it holds instances of, itself included
(`reach`), which is what `IsolatedUnlessHeld` asks about. `remade` is history.

### Pipeline
One request: guards in order, then the calls of the interceptors, one within the
other, then parameters, validation and the handler, whose errors go to the
filters. `call` has an entry per call; a timeout settles its own and leaves the
inner ones running, and what these do later is part of the model. `log` is
history: what has happened to the request. The answer, once given, is final.

### Emitter
An emit takes its listeners once, then awaits their guards and the listeners one
after the other; `on`, `off` and other emits come in between. The array of
listeners, which the code keeps sorted, is a set in the order of `Before`
(priority, then registration), and so is what an emit has still to work through.
`EmitSync` is one step. `fired` and `refired` are history.

### Limiter
Instants are distances from now, so that the model has no end of time: `due` is
what remains to the reset, and a log is a set of ages, each with its caller, who
calls at most once per unit of time, which tells entries apart. `InMemory` and
`InSql` compute what a call is answered and leaves behind for the three
strategies; the memory storage's `Consume` is one step, the SQL storage's `Select`
and `Insert` or `Update` two. `admitted`, the calls let in, is history, and so is
`told`, what a rejected client still has to wait.

### Cache
A value is the version of the datum it was computed from (`truth`). Memory
operations are one step; those of Redis and SQL are one step per call (`GET` and
`SET` of a tag's index, the statements of a `set()`, the rows found and deleted
by a `gc()`), with `op[c]` the operation in progress of client `c`. Programs are
`serial` (no operations overlap), `calm` (no fill overlaps a change and its
invalidation), or `any`; and they invalidate by pattern (`decorated`) or by tag.

### Session and SessionLife
An operation is a plan, the storage calls it has still to make; sessions lapse
between any two of them (`Lapse` stands for idle and absolute expiry, Redis TTL,
eviction, `gc()`). Programs are `serial`, `careful` (one operation of a login at a
time), or `any`. `SessionLife` says what users see: a login begins, gathers data,
ends, and does not begin again. The refinement maps a login to the records that
descend from it by rotations, and counts the record an operation has read and is
about to write back as alive.

### GrpcStream
`up` and `down` are the wire, `requests` and `responses` the mailboxes into which
`call.on("data" | "end" | "error")` put events, with the reader's wake-up; the
generator's loop is `MethodReads` and `ConsumerReads`. The program's source and
method are free to end, throw, stop reading and leave at any moment. grpc-js is
external, from how the code uses it: a wire keeps the order of its events, a
status that is not OK is an `error` followed by an `end`, and a connection that
breaks loses what is under way, tells the client and perhaps the server.

### SseStream
`sse()` runs a handler and closes the stream when it returns. `closing` follows
`close()`: `flushing` from the first line to the end of the await on pending
writes. Hono's stream is external: a write is pending until the client reads it
or is gone.

### Schedule
Tasks are numbered as `#allocateId` does. `cursor` is where the loop of the tick
stands, `removing` the timeout task whose handler has been called and which is
still to be removed: the two places where foreign code runs on the scheduler's
stack. A cron expression is the set of instants that match it (`Cron` is about
how that set is searched). In `calm` behaviours handlers settle before anything
else happens. `shared` and `lastRun` are history.

### Cron
An instant is a day, an hour and a minute. The calendar is data: the first day
of each month, the lengths of years, weeks, days and hours. One action is one
round of the loop: a match, the end of the span, a jump over months, days,
hours or minutes, or a round in which only the day of the week is wrong (60
rounds of the code, which steps by the second, are one here). `new Date(y, m, d)`
with a day the month lacks is the day that many days later, as in JavaScript.

### Rooms and Summary
`Rooms` keeps membership twice, as the code does: `joined` with the client and
`rooms` with the service; `tidy` programs change rooms through the service only
and do not join a client that is gone. `Summary` follows one observation through
the ring, in which observations do not touch one another, while others are made
and rendered around it.

## 3. The runs

Twelve runs, in `PROJECT.json`. "States" are distinct states.

| Run | Instance | What it shows |
|---|---|---|
| `resilience` | bulkhead: 5 callers, 2 slots, 2 places, calm and not; circuit: 3 calls, quota 2, window of 5, an operator; prompt circuit: quota 1, window of 3, calls shorter than the timeout; retry: up to 4 attempts; fleet: 2 pods, clocks 1 apart, 1 probe, 1 failure, 2 troubles (a snapshot that is late or expires, a call of an operator); 301 000 states | `ImplementsSemaphore`, `EveryWaiterRuns`; `ProbesAreRunning`, `FailuresAreJudged`, `NeverWedged` with stragglers of every period; `PromptDiagram`, the header's diagram for the default quota; `DeadlineStops`, `CallSettles`; `FleetRecovers` |
| `bulkhead_limit` | 4 callers, 1 slot | *violation* of `ConcurrencyLimit` |
| `circuit_reopened` | 2 calls, quota 2 | *violation* of `OpenIsNotClosed` |
| `background` | queue: 3 jobs of 2 names, 2 start/stop cycles, 3 runs of a job; cron: 378 expressions from 8 days, years of 3 months of 3, 2 and 3 days; gRPC: 2 requests, 2 responses, three kinds of streams; SSE: 2 callbacks, 2 pending writes; 208 000 states | `JobsAccounted`, `NothingRunsAfterStop`, `StopSettles`, `EveryJobSettles`, `StopReturns`; `FindsTheFirst`, `Ends`; `Faithful`, `EveryCallEnds`; `ClosesCleanly` |
| `queue_attempts` | the same, 4 runs of a job | *violation* of `AttemptsBounded` |
| `core` | lifecycle: 3 calls over 3 providers, one unresolvable, two found twice; container: 100-odd graphs of 2 modules and 3 tokens, 2 requests; emitter: 2 emits, 2 patterns, 2 listeners; pipeline: up to 2 guards, 3 interceptors, 2 filters; 927 000 states | `PhaseBarrier`, `SerialHooksInOrder`; `AnswersRight`, `OneInstance`, `IsolatedUnlessHeld`; `OnceFiresOnce`; `AnswerHasReason` |
| `request_scope` | the same | *violation* of `RequestIsolated` |
| `schedule` | 2 tasks, 2 names, 2 expressions, 4 instants, 2 overlapping runs of a task; 665 000 states | `NamesConsistent`, `TimersOwned`, `SteadyRunPerMatch`, `DueTasksRun` |
| `schedule_drift` | 1 task, matches 3 apart, drift 2, 8 instants | *violation* of `CronFollowsExpression` |
| `cron_monthly` | `0 0 1 * *` | *violation* of `FindsWhatIsMeant` |
| `sse_open` | the streams of `background` | *violation* of `OpenUntilAsked` |
| `stores` | limiter: 2 callers, 2 points in 3 units, 3 strategies, 2 storages; cache: 2 keys, 1 tag, memory for 1 entry, 2 versions, 2 clients; sessions: 2 ids, 1 field, 2 clients; rooms: 2 clients, 2 rooms; summary: 3 buckets of 3 units; 263 000 states | `WindowLimit`, `RetryAfterHonest`, `Persistent`; `TagIndexCovers`, `Fresh`, `StaleEnds`; `SignOutHolds`, `ImplementsLife`; `RoomsReach`; `WindowKept` |

Every action fires in some passing run. What the properties that carry most mean:

* `ImplementsSemaphore`, `PromptDiagram`, `ImplementsLife`: the bulkhead, the
  circuit and the sessions implement their abstract specifications, under the
  conditions named above.
* `FleetRecovers`: when failures have stopped every circuit of every pod closes
  and stays closed, whatever became of the snapshots.
* `StopSettles`: a `stop()` that has returned has settled every job added before
  it; `NothingRunsAfterStop` with it.
* `AnswersRight`: `resolve()` answers with an instance exactly when the graph has
  one to give, by a fixpoint over the graph that knows nothing of the stack, the
  caches or the order in which dependencies come.
* `WindowLimit`: in any window, wherever one starts to count, no more calls than
  the strategy admits: the limit for sliding windows, twice the limit less one
  where two fixed windows, or a full bucket and its refill, overlap.
* `Fresh` and `StaleEnds`: nothing stale is served while fills do not overlap an
  invalidation, and if they do it goes in the end.
* `Faithful`: each side of a stream takes a beginning of the other's messages,
  in order and none twice, and learns of the end after the last of them.
* `AnswerHasReason`: timeouts and late handlers neither change an answer nor
  bring forth one that nothing accounts for.

Why the bounds are enough:

* **Bulkhead.** A promise that is resolved and not yet kept, a newcomer on the
  fast path, a waiter behind it and two calls that finish in one turn need four
  callers and two slots; the fifth caller meets a full queue.
* **Circuit.** A straggler of one period, a probe of the next and a newcomer are
  three calls. `WindowBound` caps what one window holds, above `MinCalls * 4`,
  where successes truncate the window.
* **Fleet.** Two pods are the one that writes and the one that takes over; two
  troubles let a snapshot land after a newer one and a read be taken over after a
  transition, or one of these meet an operator or a snapshot that has expired.
  `MaxFailures` is where failures have stopped.
* **Queue.** One name with concurrency 1 and two jobs competes with a second
  name of concurrency 2 for the one count they share; one job is retried;
  `MaxRuns` only says that its third run does not throw. Two cycles are the
  least in which two `stop()` calls overlap.
* **Cron.** The numbers of most weekdays are numbers of months too, some months
  lack the last day, and a year has a wrap, as in the real calendar. The span
  covers more than one year from every start.
* **gRPC, SSE.** Two messages tell order; the end, an error and a break follow at
  any place among them. Two callbacks are one registered before and one during
  the close.
* **Application.** Two calls suffice to overlap; the third is a shutdown or
  signal after both. The walk has a provider found twice on either side of an
  unresolvable one.
* **Container.** The graphs have chains within and across modules, circles, every
  mix of scopes on a chain, optional dependencies, tokens provided twice and
  missing exports; the second request shows what the first has left behind.
  Twins are modules that provide one token and need one another's, which shares
  a cell of a request between them. `MaxDepth` is what the longest chain without
  a circle needs: a frame for each provider, and one of `parent.resolve()`
  between any two (`DepthAssumption`, which the proofs use as well).
* **Emitter, pipeline.** A listener registered for once, another emit, and a
  removal between them; a timeout around an interceptor around a timeout.
* **Schedule.** Two tasks are one that the loop stands at and one it has not come
  to, or two under one name; two names are needed for a name that leads to
  nobody; four instants hold two matches of the frequent expression and one of
  the rare one, which drifts.
* **Stores.** Two clients overlap in every pair of steps; one key evicts the
  other; a second version makes the first stale; a rotation needs a second id.
  Three units are the least window in which a sliding log has a middle. Rings of
  three buckets show a bucket that is neither the current nor the next.

`CHECK_DEADLOCK FALSE` stands where the model ends: all jobs added and settled,
all lifecycle calls made, the search over, the call and the request answered.
In `MCResilience` and `MCStores` a step `Rest` says where a part may rest.
`MCResilience` follows the wait of one caller of the bulkhead, `watched`, which is any
of them: one leads-to formula instead of one for each caller.

### Fairness
No liveness property assumes that anybody calls the component, but for those of
the fleet and the limiter, which speak of clients that do.

* Bulkhead: microtasks run; every `fn()` settles (`Finish`).
* Circuit: the clock advances; every call that was let in settles.
* Fleet: calls keep coming and settle; a store that was asked answers. Snapshots
  need not land.
* Retry: the loop runs on, timers fire, `fn()` settles. The overall timer may
  never fire.
* Queue: the interval ticks, the loop ends, jobs come due, polls fire, handlers
  settle. The settlement of a handler is a microtask that a sweep in progress
  delays: it is disabled while `sweep` is not empty and runs before the next
  timer, hence strong fairness.
* Cron: the loop runs on.
* gRPC: events are emitted, readers run, and a method that has read to its end
  returns. Neither source nor method need go on, and a connection may be silent.
* Schedule: the tick, the loop and the removal run; an expired timeout fires,
  strongly fair for the same reason as above. Handlers need not settle, unless
  `calm` says they do.
* Limiter: time passes, and a client goes on calling. Cache: an operation that
  has begun goes on, and every TTL ends.

## 4. The proofs

For every value of the constants that satisfies the named assumptions, which TLC
evaluates in the runs:

| Part | Assumptions |
|---|---|
| bulkhead, circuit, retry | `ConfigAssumption`, `CircuitAssumption`, `AttemptsAssumption`: counts are natural numbers, `attempts` and the window of samples at least 1 |
| queue, scheduler | `JobsAssumption`, `StartsAssumption`, `ScheduleAssumption`: finitely many jobs, a concurrency of at least 1, delays and clocks above 0, a name and an expression |
| cron | `CalendarAssumption`: months in order, times within days, expressions with a day; `SpanAssumption`: the calendar goes on for a month beyond every search |
| SSE | `WritesAssumption` |
| application | `WalkAssumption`, `CallsAssumption` |
| container | `GraphsAssumption`: modules provide, export and need tokens; `DepthAssumption`: the JavaScript stack holds a frame for each provider and one of the parent between any two, so that only a circle overflows it |
| cache, sessions, summary, limiter | `TagsAssumption`, `IdsAssumption`, `WindowAssumption`, `RuleAssumption` |

Pipeline, emitter, gRPC and rooms need none.

| Module | Theorems |
|---|---|
| `BulkheadProofs` | `TypeCorrect`, `NoWaiterLost`, `SlotsAccounted`, `AlwaysWorkConserving`, `AlwaysCalmLimit`, `CalmRefinement` |
| `ResilienceProofs` | circuit: `TypeCorrect`, `ProbeCountSound`, `QuotaAlwaysSet`, `FailuresAlwaysJudged`, `DefaultProbeLimit`, `PromptProbeLimit`, `DiagramRefinement`, `PromptDiagramHolds`; retry: `DeadlineAlwaysStops`, `NeverTooOften`; `BulkheadIsSemaphore` |
| `BackgroundProofs` | queue: `TypeCorrect`, `JobsAlwaysAccounted`, `InFlightAlwaysAccounted`, `ConcurrencyAlwaysRespected`, `RunAtMostOnce`, `QuietAfterStop`, `StopAlwaysSettles`; SSE: `StreamsCloseCleanly`; gRPC: `StreamInvariance`, `MessagesFaithful`; cron: `TheFirstIsFound` |
| `CoreProofs` | application: `TypeCorrect`, `BarrierHolds`, `ServesAfterInit`, `HooksAlwaysInOrder`; pipeline: `HandlerIsGuarded`, `AnswersHaveReasons`; emitter: `OnceMeansOnce`; container: `IsolationHolds`, `OneInstanceHolds`, `AnswersHold` |
| `ScheduleProofs` | `Invariance`, `TypeCorrect`, `NamesAlwaysConsistent`, `TimersAlwaysOwned`, `AlwaysRunsOnlyRunning`, `AlwaysRunsPerMatch` |
| `StoresProofs` | cache: `IndexCovers`, `AlwaysFresh`; rooms: `RoomsAlwaysReach`; summary: `WindowAlwaysKept`; limiter: `LimitNeverExceeded`, `RetryAlwaysHonest`; sessions: `SignOutAlwaysHolds`, `SessionsImplementLife` |
| `SessionProofs` | the two of the sessions, proved beside `Session` |
| `ContainerProofs` | `AlwaysIsolated`, `OneInstanceAlways`, `AnswersAlwaysRight` |

The bulkhead, the sessions and the container are proved in modules of their own.
The modules of the runs' parts take these over as the instance `Proven`, where the
theorems `BulkheadIsSemaphore`, `SignOutAlwaysHolds`, `SessionsImplementLife`,
`IsolationHolds`, `OneInstanceHolds` and `AnswersHold` say of the properties which
the runs check, by name, what the module beside the component has shown.

Each theorem rests on an inductive invariant, the conjunction of the type
invariant with what the property needs to be kept by a step:

* **Bulkhead.** Queue, wakes and caller status describe each waiter once
  (`NoLostWaiter`), so that `Finish` and `Resume` move one caller and the count
  stays the size of the running set. Work conservation is inductive with that:
  a finishing call that leaves the queue non-empty has woken somebody. In calm
  programs calls meet no pending wake, hence `inFlight + Len(woken)` never
  passes the limit; this is the refinement's invariant, in which a woken waiter
  already holds its slot.
* **Circuit.** The probe count can be too low, because resets zero it under
  running probes, and never too high: each decrement goes with a probe that
  ends. For the limit the invariant speaks of `fresh`, the probes of this
  period, and either of a quota of one or of calls that are over before the
  circuit cools. The refinement is for the default quota, prompt calls and no
  operator, as is its run: there a probe that settles was the only call under way.
* **Retry.** Where the loop stands says how often `fn()` was called (`RetryInv`).
  That nothing begins after the deadline is a fact of each step alone.
* **Queue.** The queue holds each waiting job once and `inFlight` counts the
  running ones; from `closing` on the service keeps the queue from starting
  anything, which gives quiet after the stop, and the jobs accepted before are
  settled when a poll finds the backend drained, whatever is added since.
* **Schedule.** The name index fits the tasks in both directions, timers belong
  to running timeouts and intervals, a task about to be removed is a timeout
  whose timer is spent (`RemovingSpent`), and an id not given out yet has no runs
  (`NotYetRun`). The one run per match follows from `CalmTasks`: in calm
  programs a running cron task has been started at most once by this tick, and
  then the loop has passed it; otherwise its `nextRunAt` is a match after its
  last run as long as its matches are near.
* **Cron.** What the search has passed is not in all five fields (`SearchInv`):
  each jump is `Clear`, it leaves out no instant of the expression. A jump over
  months needs the calendar to go on (`AheadCovered`), and that the month of a day
  exists, for which `LeastNat` gets the least number of a set from the
  well-foundedness of `<`, the library's induction being out of reach.
* **SSE.** A callback has run once, is registered once, or comes too late
  (`CallbackOnce`), and when a stream is over nobody waits for it (`OverIsClosed`).
* **gRPC.** What a side has taken, what waits in its mailbox and what is on the
  wire are the numbers from 1 to the last one written, in order (`Numbered`),
  followed by the events that end the call; a broken connection leaves a
  beginning of that and a failure (`Ups`, `Downs`).
* **Application.** A call that is past a position of the walk has seen its hook
  settle on every resolvable instance before it, or another call is still
  awaiting it as `visited` tells; `started` implies that some call has finished
  both init phases, so every phase that `started` lets in finds them done. For
  `HooksAlwaysInOrder` the invariant `SerialInv` is added: in a serial program
  calls are under way one at a time (`InTurn`), what a walk has passed it has
  visited, each instance of the walk has last had this hook if it was visited
  and else the one before it (`MidLife`), and between two walks all instances
  stand where `started` says (`BetweenLives`). A hook is called for an instance that
  is not visited, so that `MidLife` says which one it has had last.
* **Container.** `Base`: every frame but the first was called for by the one below
  it (`Linked`). *Isolation*: where nothing that lasts depends on what lives
  shorter, what is kept holds nothing of a request, and so does what is on its way
  to be kept (`Clean`). *One instance*: of a lasting provider that is not yet kept
  there is at most one frame that makes it, and no provider is made twice on one
  stack (`StackOpen`, `KeptOnce`). *Exact answers*: the
  marks of `resolving` are those of frames (`Marked`), each frame was called for by
  the one below and the first by what was asked (`Bound`), and a stack of `MaxDepth`
  frames has a provider twice (the pigeonhole lemma `Twice`), so that an overflow is
  a circle; everything kept, shared or handed
  on is of a provider that can be had (`Genuine`); and while an error is on its way
  out of frames that none of them catches, what was asked for cannot be had
  (`Lost`), since a frame met again on the stack has no instance to give
  (`DeadEnd`). What `AnswersRight`
  compares with is `Hopeless`, the largest set of providers that all need another of
  the set or a token nobody provides; the proofs give a set where it is claimed.
* **Pipeline.** What the log holds fits the stage (`SoFar`): behind the guards all
  have let the request pass, and a stage that was left for a failure has it in the
  log. `OnTheWayOut` says the same of what each call of an interceptor passes
  outward, so that the answer, which the outermost gives, has its reason.
* **Emitter.** Registrations bear numbers of their own (`Numbers`). In a program
  whose emits do not overlap, and where no error is thrown on, one emit is under way
  at a time (`Apart`), and a listener for once that was called waits in none and is
  registered only as long as the emit that called it is to remove it (`FiredIsOver`).
* **Cache.** `Placed` ties each operation in progress to its arguments, and
  `Steady` says that in a serial program (`Alone`) what it has read of the index is
  still so. `Covered` is the index's promise with the exception of the tags a fill
  has still to write; `Truthful` and `Current`, for `Fresh`, that a fill carries the
  present version, and that an entry is current or the writer that made it stale
  has still to undo it. Between two operations the exceptions are gone.
* **Limiter.** For calls that do not decide on the same bucket (`LimiterBase`).
  *Fixed windows* (`FixedInv`): the call that opened the window is still among the
  admitted ones, those since are counted, and of the window before at most the limit
  less one are left. *Sliding* (`SlidingInv`): the log has every admitted call, and
  the one a rejected caller was told to wait for. *Tokens* (`TokenInv`): what is in
  the bucket and what the calls of any span have taken came from the stock or has
  come back in that span, the budget from which the limit of each window follows.
* **Sessions.** An operation's plan fits the ids it has drawn or read (`OpFits`);
  ids of one login have its name (`LoginsNamed`); with one operation of a login at a
  time who is about to write a record back has what is there, of a login that has
  not ended (`Stands`), two records are one login only while it is rotated
  (`Twins`), and in a serial program the index of the user knows every session but
  the one that is being stored or removed (`Indexed`). For the refinement every
  record of a login, and everybody who holds one, has all the login has gathered
  (`OneData`), so that each step is one of `SessionLife` or none.
* **Rooms.** Who is registered has an open socket, and in a tidy program the two
  ways in which membership is kept agree (`RoomsInv`).
* **Summary.** The bucket of the followed observation is as many rotations back as
  its age allows, within a bucket (`MadeBuckets`), and it is emptied, if at all,
  when it is old enough (`SummaryInv`).

What proving has shown, beside the exceptions that TLC had found:

* `AnswersRight` holds of any graph only with the exception of two modules that
  provide one token to a request (`Clash`): they share its cell, so that a provider
  with no instance to give may be answered with the other's. The graphs with twins
  were added to the run, and the property excepts them.
* The container's model compared the stack with `MaxDepth` for equality, which says
  nothing of a stack beyond it, and `MaxDepth` was tied to no graph; it is now a
  lower bound, and `DepthAssumption` says what the stack has to hold.
* The SQL token bucket inserts a row with one token after it has let the first call
  in, so that with a limit of one a window may hold two calls though none overlap;
  `WindowLimit` says so.
* The search of `Cron` needs a month more of the calendar than it searches, which
  no assumption had said.

Checked by TLC only is liveness: `EveryWaiterRuns`, `NeverWedged`, `CallSettles`,
`FleetRecovers`, `EveryJobSettles`, `StopReturns`, `Ends`, `EveryCallEnds`,
`DueTasksRun`, `Persistent` and `StaleEnds`. It needs fairness, ENABLED and
progress by induction, which are out of the prover's reach. `CircuitFleet`, whose
only property is of that kind, has no theorem.

## 5. Where the code and its documentation part

Shown by a run (quoted in `PROJECT.json`):

* **Bulkhead**: a call that arrives between `drain()` and the woken waiter takes
  the slot the waiter was promised; both run, over `maxConcurrent`.
* **Circuit breaker**: with `halfOpenAfter >= 2` a circuit that one call has
  reopened is closed by the success of a probe that was still running.
* **Queue**: `attempts` is never counted; a job with more than one that keeps
  failing is retried for ever, and `stop()` waits for it for ever.
* **Container**: a singleton, and the factory an export becomes, keep the instance
  of a request-scoped provider made for the first request and hand it to others.
* **Scheduler**: a next match farther away than `maxDriftMs` becomes now + 60 s,
  so that an hourly task is run every minute from its first run on.
* **Cron parser**: with five fields the day of the week is looked up in the month
  field, so that `0 0 1 * *` is due at midnight of every day from Monday to Saturday.
* **SSE**: the stream is closed as soon as its handler has returned, timers it has
  set up or not.

Read in the code while modelling, where the model has it in its behaviour and a
property names it as an exception, or where it lies outside of the models:

* Bulkhead: `rejectOnFull` is read by no line; newcomers on the fast path
  overtake waiters outside of calm programs.
* Circuit: `isFailure` is stored and not asked (`docs/user-guide/resilience.md:136`);
  with a quota of two or more, probes of an earlier period let more than the
  quota run at once. A pod's own snapshot is newer than the last it applied and is
  applied to it again; `reset()` is not saved; a probe's success closes a circuit
  another pod's snapshot has just opened.
* Retry: the overall timer is not cleared after a success; an attempt that ignores
  its signal outlives the deadline. The circuit wraps the bulkhead, so that a full
  bulkhead counts as a failure of the circuit, and `retry` retries an open circuit.
* Queue: `{ status: 'retry' }` is reported as completed and `{ status: 'failed' }`
  is not retried (`docs/user-guide/queue.md:230-244`); `QueueService.process`
  does not hand its options on, so the concurrency is 1; one count serves all
  names; a due job without a handler is dropped; after a `stop()` nothing clears
  the way for ticks again; of two overlapping stops the second may wait for ever.
* Application: shutdown hooks run in the order of the init hooks, not in reverse
  (`application.ts:235`); the server is not stopped before `onModuleDestroy`
  (`lifecycle/index.ts:50-51`); a hook that rejects is ignored, and `started` is
  set; overlapping bootstraps run every hook twice, and one that ends after a
  shutdown sets `started` over destroyed providers; every bootstrap registers the
  signal handlers again.
* Container: circles of request-scoped providers are not detected and overflow the
  stack; a parent's "circular" error becomes "no provider"; two modules that
  provide one token per request share a cell; the first exporter wins without a
  word. Fields are injected after the constructor (`container.ts:273-276`):
  `HealthCheckService` registers its built-in indicators in its constructor from
  a field that is not there yet, so that none is ever registered.
* Pipeline: `@Validate` is ignored for methods without decorated parameters; errors
  of guards, interceptors and timeouts bypass the filters; a timeout does not abort
  its handler (`interceptors/index.ts:329`).
* Emitter: a listener for once is called twice when emits overlap or an error is
  thrown on, and is never removed when it returns a promise to `emitSync()`
  (`docs/user-guide/events.md:136`).
* Scheduler: a name given twice makes delete, pause and resume by name miss; a
  paused timeout does not come back; a handler longer than a tick is started again
  by each tick, which is why `SteadyRunPerMatch` is stated for calm programs; an
  expression that never matches runs every minute; `runOnInit` does not run on init
  (`types.ts:40`).
* Cron: 7 for Sunday never matches; a day of the month that a month lacks overflows
  into the next, and `{1, 30}` leaves out March 1st (the property is stated for
  days every month has).
* Limiter: the SQL storage is not atomic (`types.ts:65`, `WindowLimitOfAll` of the
  module), logs rejected calls as well, always lets the first call in, and starts a
  bucket with one token after that first call was let in (`backends/drizzle.ts:94`),
  so that with a limit of one the first two calls of a key pass together; the key of
  a storage is the client's alone.
* Cache: the service prefixes the tag it invalidates and not the tags it stores, so
  that invalidation by tag through it finds nothing (`docs/design/cache.md:170-175`);
  in SQL a `get()` that removes an expired row beside a `set()` takes the tags of
  the new entry; `clear()` of Redis ignores its pattern.
* Session: memory and SQL storages keep no user, so that `destroyMany({ userId })`
  matches nothing; a rotated session's user is set on the returned object only
  (`session.service.ts:211`); a sign-out beside a rotation leaves the new session;
  SQL replaces the data where others merge it, and reads past the expiry; a Redis
  update beside a destroy brings the session back; the middleware makes a new
  session for every request unless the cookie backend is used.
* gRPC: in a bidirectional call `if (ended) break` comes before
  `if (streamError) throw` (`service.ts:537`): an error whose `end` arrives before
  the reader runs is taken for a normal end (`docs/user-guide/grpc.md:238`); a
  client-streaming source that throws leaves the call open, and the server waits.
  `stop()` beside `start()` can leave `isRunning` true without a server.
* WebSocket: under Bun a client is looked up by `ws.__clientId`, which nothing sets
  (`ws/src/runtime/bun.ts:75`): messages reach no gateway and no client is ever
  unregistered (`service.ts:9`); `joinRoom()` after the client has gone leaves an id
  that nothing removes (`service.ts:13`); `client.joinRoom()` (`types.ts:73`) does
  not reach the service's rooms.
* Summaries: what is over of a round is dropped at a rotation, so that observations
  are reported for up to almost twice `maxAgeSeconds` (`summary.ts:148`).
* i18n: `formatCurrency()` and `formatNumber()` share a cache whose key has no
  style, so that with the same options one is given the other's formatter
  (`service.ts`, `numberFormatCache`).
* Drizzle: overlapping `open()` calls open and migrate twice, an `open()` beside a
  `close()` can leave `_opened` without a client, and raw statements in a
  transaction use the outer connection (`drizzle.service.ts:85`, `:152`).

## 6. What is next

The order has been that of what an application depends on most and a test
reaches least; the components that carry control are modelled. What would add
most from here:

1. `Drizzle`: `open`, `close` and transactions of overlapping callers, and with
   it the SQL stores over one connection; `Kysely` has the same shape.
2. Proofs: an invariant of the fleet between two snapshots, whose only property
   is of liveness; what the limiter promises programs whose calls do overlap, by how
   many of them do; the response time of `retry()`.
3. Unary gRPC calls with deadlines, `start()` and `stop()` of the server; the
   WebSocket adapter for Bun once it finds its clients.
4. `ResilienceService` as the composition of `Retry`, `CircuitBreaker` and
   `Bulkhead`, which are modelled apart.

The number of runs is kept at a dozen: components share runs as described in
section 2.

## 7. What is not modelled

Besides the components marked `not_modelled` in `PROJECT.json`, with their
reasons: in the circuit hooks that call the circuit; in the queue events,
priorities (no line of the memory backend reads them) and worker handles (whose flags no line reads); in the application
transient providers, the schedule scanner and the construction; in the container
tokens whose value is undefined; in the pipeline the mounting of routes and the
reading of parameters, and middleware, which is Hono's; in the scheduler events,
the Cloudflare backend and decorators; in the cron parser the parsing, the sixth
field and daylight saving; in the limiter more than one key, which do not touch,
and the middleware's headers; in sessions the cookie storage, which keeps nothing
on the server, the middleware, and `gc()` and `clear()` of Redis, which prefix
their keys twice and reach none, and who a session is of: all are of one user, so
that `update({ userId: null })` and what it takes from the index in Redis are left
out; of gRPC unary calls, the loading of proto files
and the server's start and stop; of WebSockets messages, listeners and the Bun
adapter. Data (payloads, names of events, error values) is abstracted to what
the control tells apart.
