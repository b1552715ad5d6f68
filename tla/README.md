# Distributed calculator: specifications

TLA+ specifications of the backend in `src/backend`: a service that accepts
arithmetic expressions, splits them into tasks, has a fleet of agents compute
the tasks, and folds the results back into one answer. Everything here is
translated from the Go code and the SQL it runs; line numbers are in
`PROJECT.json` under `map`.

```
 client --Submit--> orchestrator --tx--> Postgres (expressions, tasks, outbox)
                         |  relay (claim, publish, mark)   ^
                         v                                 | fan-in transaction
                   exchange "tasks" ---> agents ---> exchange "results"
                         |                                 |
                   retry queue / DLQ                 retry queue / DLQ
 audit rows of the outbox ---> exchange "audit" ---> audit service
```

## 1. Inventory

| Part | State it keeps | Operations | What is hard about it |
|---|---|---|---|
| Expression planning (`usecase/expression`) | none | parse, `Plan`, `Submit` | the plan must be a tree whose tasks wait for exactly their operands |
| Orchestrator database (`repo/persistent`) | rows of `expressions`, `tasks`, `outbox` | `CreateExpression`, `FinalizeImmediate`, `ApplyStarted`, `ApplyResult`, `ApplyFailure`, `RelayOutbox`, `PruneOutbox` | results that arrive late, twice or in any order; transactions of several replicas |
| Scheduler (`usecase/scheduler`) | the open relay transaction | `HandleResult`, `RunOutboxRelay`, `relayOnce` | a broker inside a database transaction: crashes between publish and commit |
| RabbitMQ client (`pkg/rabbitmq`) | connection, channels; the queues are the broker's | confirmed publish, `PublishRetry`, `PublishDLQ`, `dispatch`, `consumeOnce`, `RequeueDLQ`, `reconnectLoop` | lost confirms, channels that close under a running handler, the attempt counter travelling with the message |
| Agent (`controller/amqp/v1`, `usecase/worker`) | one task in hand per worker | announce, `Compute`, report | a report that may or may not have reached the broker; shutdown in mid-computation |
| Guarded publisher | – | `Publish` through breaker and retry | repeats what may already have been accepted |
| Circuit breaker (`pkg/circuitbreaker`) | atomics: state, failures, probes, openedAt | `State`, `Do`, `record`, `transition` | fields updated one at a time by many goroutines |
| Worker pool (`pkg/workerpool`) | queue, worker count, stop channel | `Submit`, `TrySubmit`, worker, `maybeGrow`, `Close` | select races, retirement against a minimum, drain at shutdown |
| Batcher (`pkg/batcher`) | two buffers | `Add`, loop, `swapAndFlush`, `Close` | double buffering; items added around the last flush |
| Audit ingestion (`usecase/audit/ingest.go`) | dedup keys, batch, waiters | `Ingest`, `flush` | a timeout racing a late flush; insert done but mark lost |
| Audit queries (`usecase/audit/query.go`) | cache, singleflight group | `Query`, `Stats` | stale pages, shared cancelled calls, keyset pages during inserts |
| Bulkhead, rate limiter (`pkg/…`) | slots; token buckets | `Do`, `DoWait`; `AllowN`, `sweep` | two-step counters; lazy refill against eviction |
| Event stream (`controller/http/v1/sse.go`, gRPC `WatchExpression`) | subscriber channels | broadcast, subscribe, poll | lossy fan-out |
| Parser and validator (`usecase/expression`, `pkg/validator`) | scanner position, operator and operand stacks | `ValidateExpression`, `tokenize`, `build` | precedence, association and negation; limits at their edge |
| Generated codecs (`gen/*/v1/*_vtproto.pb.go`) | – | `MarshalVT`, `SizeVT`, `UnmarshalVT` | two passes that must agree; fields a reader does not know; cut buffers |
| Transports, wiring, configuration, descriptors and stubs, frontend | – | – | no protocol of their own |

The parts interact in three ways: transactions on the shared database, messages
through RabbitMQ (at least once, unordered), and direct calls inside one
process. The first two carry the program's correctness. What clients see of it passes
through the parts at the edge: the limiter, the parser, the audit log's pages, the event stream.

**What makes the core correct**

* A client's expression is accepted once and settles at most once, on the one
  answer its arithmetic has; a failed one really divides by zero.
* Each argument column holds its literal or the result of its operand;
  `unmet_deps` counts exactly the operands that are not done.
* A task that may run is never forgotten, whatever crashes.
* The audit trail has an outcome's event exactly when it is the outcome.
* An accepted message is handled, or parked for an operator, or under way.
* Every accepted expression settles, or a dead letter says why not.

**What makes the rest correct**

* Audit: what is acknowledged is stored, once if it carries its time; a dedup key exists
  only for what is stored; nobody waits for a flush that has forgotten it.
* Audit pages: a walk misses only what arrived too late for the cache.
* Limiter: no window of time is granted more than the bucket promises.
* Event stream: a dashboard shows the current state in the end unless its last loss was followed by
  no event; a stuck one disturbs nobody; a watcher is told the end.
* Parser and planner: a text of the grammar has the tree the grammar gives it, the
  plan computes that tree, and is a tree of tasks itself, as everything downstream assumes.
* Codecs: what was sent is what is read, also through a peer with a newer schema.

`PROJECT.json` lists the hazards behind these, each at its line, with the
property that guards it or a note saying why none does.

## 2. Modules

| Module | Models | Composed of |
|---|---|---|
| `Plan` | the task plan, the agents' arithmetic, and what an expression means | – |
| `ExpressionLifecycle` | abstract: the promise made to clients | – |
| `ExpressionStore` | database, fan-in, outbox relay, with the weakest broker | `Plan`, instance of `ExpressionLifecycle` |
| `ExpressionStoreProofs` | theorems about `Plan` and `ExpressionStore`, each building on the one before: types, outbox, fan-in, answers | `ExpressionStore` |
| `FanInTransactions` | the fan-in transactions of concurrent consumers, statement by statement | `ExpressionStore` |
| `FanInProofs` | `FanInTransactions` implements `ExpressionStore` and has no deadlock | `FanInTransactions`, `ExpressionStoreProofs` |
| `Flow` | actions of one RabbitMQ flow: main, retry and dead-letter queue, `dispatch` | – |
| `AtLeastOnce` | `Flow` closed with a handler that is left open | `Flow` |
| `FlowFacts` | what every step of a flow preserves, proved once for the three flows | – |
| `Delivery` | the system end to end | `ExpressionStore`, two instances of `Flow` |
| `DeliveryProofs` | `Delivery` implements `ExpressionStore`; theorems about its flows | `Delivery`, `ExpressionStoreProofs`, `FlowFacts` |
| `CircuitBreaker` | the atomics of one breaker and the calls through it | – |
| `BreakerPolicy` | the three-state policy of the README, the comment on `Config` and the tests, stated over the atomics with the history it speaks of | `CircuitBreaker` |
| `CircuitBreakerProofs` | theorems about `CircuitBreaker` and `BreakerPolicy` | `BreakerPolicy` |
| `WorkerPool` | submitters, queue, workers, autoscaler and `Close` of one pool | – |
| `WorkerPoolProofs` | theorems about `WorkerPool` | `WorkerPool` |
| `Batcher` | the two buffers and the loop of one batcher | – |
| `AuditIngest` | the write path of the audit service, end to end: flow, consumers, gRPC writers, ingestor, PostgreSQL, Redis, the process | `AtLeastOnce`, `Batcher` |
| `AuditIngestProofs` | theorems about `AuditIngest` | `AuditIngest`, `FlowFacts` |
| `AuditQueries` | the read path: cached keyset pages | – |
| `RateLimiter` | the keyed token buckets and their eviction | – |
| `EdgeProofs` | theorems about `RateLimiter`, `AuditQueries` and `ExpressionParser`, which share nothing | `RateLimiter`, `AuditQueries`, `ExpressionParser` |
| `EventStream` | notifications, SSE hub, dashboards, `WatchExpression` | – |
| `ExpressionParser` | from the text of an expression to its plan | – |
| `ExpressionGrammar` | what a text means, as a set of trees, and what the parser and the planner have to do with it | `ExpressionParser` |
| `WireTables` | what each generated protobuf method writes, measures and reads | – |
| `WireCodec` | the generated codecs on bytes | `WireTables` |
| `MC…` | small instances for TLC; `MCStoreRace` is one of `FanInTransactions`, which contains `ExpressionStore`; `MCEdge`, `MCAlgorithms` and `MCProcess` put parts side by side that share no state, each behaviour moving one of them; `MCBreakerWindow` states the package comment of the breaker over `CircuitBreaker`, with a history of its own | – |

### State and actions against the code

`ExpressionStore`. `exprStatus`, `exprResult`, `status`, `unmet`, `arg1`,
`arg2`, `result` are the columns of the two tables; a row that does not exist
has status `absent`. `outbox` and `published` are the outbox table and its
`published_at`; `lastId` its bigserial. `claimed`, `todo`, `acked` are the local
variables of one `RelayOutbox` transaction. A transaction that commits is one
action; one that rolls back leaves nothing and is no action. `FanIn` is the
whole of `ApplyResult` from `CompleteTask` to the last audit row, the refusal of
a task with a NULL argument included.
The relay publishes inside its transaction and is therefore three actions,
`RelayClaim`, `RelayPublish` (once per row, three outcomes) and `RelayCommit`;
`RelayAbort` is a crash, a shutdown or a failed commit anywhere between them.
`dispatched` and `reported` remember every message body the broker has ever
accepted. In this module any of them may be handled at any time, again and
again, or never: what is shown here needs nothing more of the broker.

`FanInTransactions`. The variables of `ExpressionStore` are the committed rows. `work[h]` is the result message
consumer `h` is at, `stage[h]` the statement it executes next, `version[h]` and `exprVersion[h]` the rows its open transaction
has written or locked, which nobody else sees or writes before it ends. `Settle` is `CompleteTask` or `FailTask`, `Progress` is
`MarkExpressionInProgress`, `ScanFirst` and `ScanSecond` are the snapshots of the two `FillArg…` statements, `Fill` one of the
rows such a snapshot found (it waits for the row and asks the `WHERE` again, as READ COMMITTED does), `Unlock` is
`unlockReadyDependents`, whose rows are all locked by then, `Finalize` the end of the expression and the audit rows. `Commit`
makes all of it the committed state; `Abort` is an error, a crash or a lost connection anywhere before. A statement
that has to wait for a row is not enabled; who waits for whom is `WaitsFor`. Everything else is as in
`ExpressionStore`: its other actions are single statements, or are serialised by `SKIP LOCKED`.

`Flow`. A queue is a bag of copies `[body, attempt]`, because a redelivery
makes order meaningless. `hand[c]` is what a consumer goroutine does next with
its delivery: still in the handler, about to publish to the retry or the
dead-letter exchange, about to ack or nack. Its flag `owned` becomes false when
the channel closes: the broker requeues the copy, the goroutine runs on, and its
ack has no effect (`dispatch` does not look at the ack's error). `Route` is the
switch of `dispatch`. A confirmed publish has three outcomes: `confirmed`,
`unconfirmed` (the broker has it, the caller sees an error) and `refused`.

`Delivery`. Client, relays, agents and results consumers over two flows. An
agent's handler is `AgentTake`, `Announce`, `Answer`; the results consumer's is
`ResultTake`, `Apply` or `ApplyFails`, and both are followed by the policy steps
of `Flow`. `Apply` is the committed transaction together with the handler's
return; `ApplyFails` the transaction that fails, or that commits although the
caller is told otherwise. Reports are published with the attempt number of the
task they answer, as the code's headers do.

`CircuitBreaker`. One step is one atomic operation; `pc` is where each caller
stands in `Do`, `record` or `transition`, and any caller may be suspended between
two steps. Taking `b.mu` and the compare-and-swap are one step (`Transition`), because
the state changes under the mutex only; the stores that follow are steps of
their own, and the mutex is held as long as a caller is at one of them
(`Unlocked`). Loads and atomic additions outside the mutex do not wait for it. Time is one bit,
`cooled`: whether a cooldown has passed since the *stored* `openedAt`. In
`BreakerPolicy`, `elapsed` is the same of the moment the state became Open;
`streak` and `proved` count what the policy talks about. Which policy: `src/README.md:180`, the
comment on `Config` (`circuitbreaker.go:44`) and `TestSuccessResetsFailureStreak` say consecutive failures, as the code does; the
package comment (`circuitbreaker.go:3`) says a sliding window, and is refuted (`WindowTrips`, section 3).

`WorkerPool`. One step is one channel operation, one atomic operation or one locked
section. The cases of a `select` are alternatives, never a priority, as Go chooses
at random among those that are ready; only `default` in `TrySubmit` waits for the others
to be impossible. A worker that retires checks the count (`IdleOut`) and
decrements it later (`Exit`); the autoscaler spawns one worker per step and compares
with the ceiling each time. `closing` tells `close(p.stop)` from the return of
`wg.Wait`; `runs` and `before` are history.

`Batcher` and `AuditIngest`. `active` is `b.active`; `batch` what the loop has taken and
not flushed, first `MaxSize` items first. A flush is one `InsertBatch` per chunk (one SQL
statement: it commits, it does not, or it commits although the caller sees an error) and then
one `MarkSeen` per item, the dedup key and the answer on its channel. Each caller of
`Ingest` goes through `slot` (the bulkhead), `dedup`, `add`, `wait`; `GiveUp` is the flush
timeout or a cancelled context, after which an answer to it goes nowhere (`Disown`).
`log[e]` counts the rows of an event, because `ON CONFLICT` compares the time as well: an event
that arrives without `occurred_at` is stamped anew at each call and may have several.
`Cancel`, `ChannelCloses`, `CloseIngestor`, `Exit` are the shutdown of `runAudit` in
its order; `Exit` out of that order is a crash. `Take`, `Dispatch` and the rest of the
flow are those of `AtLeastOnce`, whose open handler this is.

`AuditQueries`. An event is the position of its key in the order of the log.
`Open`, then `Hit`, `Miss` or `Join`, then `ReadPage` and `Land` or `Abort` are `Query` and
`QueryEvents`; the cache entry lives `PageTTL` ticks. A page is at most `MaxRead` older than its entry.

`RateLimiter`. `Ask` is `time.Now()`, `AllowN` the critical section: between the two other calls and
the sweep may run, so readings reach a bucket in any order. `StartSweep`
fixes the cutoff, `SweepShard` runs under one shard's lock.

`EventStream`. One expression; `store.commits` counts its commits, the first being the submission. Of an event the
kind is kept (`expression.updated` or `task.updated`): `due[v]` (of commit `v`, not published yet), `pubsub[h]` and `channel[b]` are
sequences of kinds. The task events of one commit are one, because they repeat the same signal. A page opens (`OpenPage`), which starts
the first `refresh`, and connects (`Subscribe`); `Receive` is the callback of `page.tsx:52-59`: an event of the expression
always makes it fetch, one of a task only if the list on the screen has the expression (`Refetches`; `shown = 0` is a list without it).
`Fetch` and `Show` are the request and the response of `refresh`, which may overtake each other; `FetchFails` is its `catch`
branch, which leaves the screen as it is. `behind[b]` is history: the page lost a signal or a response (an event lost by Redis, missed
while unsubscribed or dropped with a connection; a task event ignored because the expression was not listed; a failed fetch; an older response
that arrived last) while no other fetch of it was still to be answered, and it has acted upon no event since.

`ExpressionParser`. `Validate`, `Scan` (one token), `Feed` and `Drain` (one push or one pop),
`MakePlan`. A literal is the position of its token; the planner's zero is position 0. The `Node` values the parser allocates
are `nodes`, a heap: pointers to them, in other nodes and on the operand stack, are addresses. Nothing in the types of the
Go code keeps two nodes from pointing to the same third one; that the AST is a tree all the same is a theorem. The planner's recursion is
`PostOrder`, the order in which it appends a task per operation, and `Tasks`, what it writes into them.

`WireTables` and `WireCodec`. The generator unrolls each message into straight-line code. A
table per generated method (`Zero…`, `Marshal…`, `Size…`, `Unmarshal…`, fifteen messages) says
field by field what that method does, in its order and with its own tag, size and wire type, so that a
disagreement between two methods is a disagreement between two tables; `WireCodec` is the code
around the fields, on bytes. No code outside `gen/` calls these methods today: gRPC uses
its default codec.

## 3. What TLC checks

| Run | Question | Properties |
|---|---|---|
| `store_tree` | `(1+2)*(3-1)`: two leaves finishing in either order, reported any number of times; a lone literal | `TypeOK`, `FanInConsistent`, `MessagesAgree`, `NeverForgotten`, `AnswersCorrect`, `SettledForever` |
| `store_race` | transactions that meet. Two consumers with their statements interleaved: `(1+1-1)*(2-0)`, where both arguments of the product are filled at once, and `1/0+(2-1)`, where a failure meets a success. Relays with all their faults: the same failure, an overflowing task and a lone literal under two relays | `AuditTrailFaithful`, `ClaimsExclusive`, `NoDeadlock`, `KeepsPromise`, `ImplementsAtomic` |
| `delivery` | `1+2` end to end under two faults anywhere; `(1+2)*3`, whose product cannot be encoded, under one | `DeadTasksEarned`, `StillDriven`, `ImplementsStore`, `EventuallySettled` |
| `delivery_transient` | a claim of the documentation that the code does not keep | `TransientFailuresRide` (violated) |
| `breaker` | callers interleaved at every atomic operation, up to three at once in a crowded half-open breaker; a dependency that answers again | `ThresholdTrips`, `ProbesNeverLeak`, `Recovers`, `CooldownRespected`, `ClosedByProbes`, `TripsOnStreak` |
| `breaker_cooldown` | overlapping calls: half-open without a cooldown | `CooldownAlways` (violated) |
| `breaker_window` | one caller, threshold 2: failure, success, failure | `WindowTrips` (violated) |
| `pool_drain` | a `Submit` that runs into `Close` | `NeverDropped` (violated) |
| `audit` | a good and a poisonous message and a writer, over one batcher, two faults | `AckMeansLogged`, `LoggedOnce`, `NobodyForgotten`, `AuditSettles`, `NothingLost`, `DeadLettersEarned` |
| `edge` | limiter, audit pages, event stream | `NeverOverGrants`, `RefusalsEarned`, `WalkComplete`, `DashboardConverges`, `WatchTellsTheEnd` |
| `process` | the parts inside one process. Pool: two tasks, a queue of one, up to two transient workers, `Close` at any moment. Parser: every short text. Codecs: every message type with typical and extreme fields | `RunsOnce`, `WithinLimits`, `DrainsEarlier`, `NothingHangs`, `ParsesTheGrammar`, `PlanComputesTheText`, `RoundTrips`, `NothingMisread` |
| `parser_grammar` | texts that are no expressions | `AcceptsOnlyTheGrammar` (violated) |

The refinements: `ExpressionStore` implements `ExpressionLifecycle`
(`KeepsPromise`), and `Delivery` implements `ExpressionStore`
(`ImplementsStore`), so everything shown of the store with its arbitrary broker
holds of the system with its real queues. `FanInTransactions` implements `ExpressionStore` with the identity as its
mapping (`ImplementsAtomic`): the single step `FanIn` is what its seven statements amount to.

**Findings.**

* `TransientFailuresRide` states what the top-level README says of the
  retry queue ("transient failures ride the loop") for the results flow. The error
  of a failed transaction leaves the repository as the driver gave it,
  `apperrors.CodeOf` makes that `INTERNAL`, and `dispatch` dead-letters the report
  at its first attempt. `EventuallySettled` therefore ends in a disjunction: the
  expression settles, or one of its messages waits for an operator.
* `CooldownAlways`. `transition` makes the state Open (`circuitbreaker.go:153`)
  before it stores `openedAt` (158). A caller that reads both in between (96–97) sees
  the old time and half-opens the breaker as soon as the mutex is free. The program's only
  breaker has one caller, the relay loop, which publishes its rows one after the other. Run
  `breaker` shows the policy (`CooldownRespected`, `ClosedByProbes`,
  `TripsOnStreak`) for as long as no two calls have overlapped, and what remains true of any
  use. After an overlap the counts are approximate as well, because a call may be
  recorded in another state than it was admitted in.
* `WindowTrips`. The package comment says "failures are counted in a sliding window" (`circuitbreaker.go:3`). The code counts
  consecutive failures: any success stores 0 (133). With a threshold of 2, failure, success, failure leaves the breaker
  closed, although two of its last three calls failed; a dependency that fails every other call never trips it. The two accounts agree
  only for a window no longer than the threshold. The comment on `FailureThreshold` (44), the test of the streak
  and the state diagram of the README describe what the code does, so it is line 3 that is wrong, and `TripsOnStreak` states the others.
* `NeverDropped`. `Submit` selects between the stop channel and room in the queue
  (`workerpool.go:98`). Both may be ready, so a task may be accepted after the last
  worker has found the queue empty and gone, although `drain` says that accepted work is
  never dropped by a graceful stop. What was accepted before `Close` was called
  does run (`DrainsEarlier`). In the agent such a task is an unacknowledged delivery, which
  the broker gives to another agent: late, not lost.
* `AcceptsOnlyTheGrammar`. The validator's comment calls the parser the authoritative grammar
  check. The parser takes operands from its stack wherever they stood in the text, so `1(-)` is
  accepted as `0-1` and `1()` as `1`. Every text that is an expression is parsed correctly
  (`ParsesTheGrammar`), and whatever is accepted is planned as it was parsed, each number and
  each operator used once (`PlanComputesTheText`).

### Bounds, and why they are enough

* *Plans* have one to four tasks. Three is the smallest plan with two leaves
  below one dependent, which is where fan-in races are; a deeper plan repeats
  that situation. Numbers are `0..Limit`, and what falls outside (a negative
  number included) stands for an infinity: only equality of values, zero and
  "cannot be encoded" matter to the properties.
* *One expression per behaviour* in `store_tree` and `delivery`, and nobody prunes the outbox while `(1+2)*3` is
  under way (`store_tree`, and `store_race` with relays at fault, prune throughout); in `store_race` an expression with a tree has the
  database to itself and one relay, the other two share it under two relays. Rows of different expressions
  meet only in the outbox and in the queues, which treat them alike.
* *`store_race`* has two kinds of behaviour (`mode` in `MCStoreRace`). With results taken apart, plans have four and three tasks: the race for one
  dependent is another one when the expression has been opened before (`t1` opens it, then `t2` and `t3` race); there is one expression per
  behaviour and two consumers, because a task has two arguments: no third consumer ever wants the same row, except the expression's,
  which everybody takes last. The relay works undisturbed there, and agents announce only the tasks of `e2`. Aborts are not bounded. With
  relays at fault, results are single steps, which the other half of the run and `TransactionsAreAtomic` justify.
* *Replicas* 1 or 2, *workers* 1 (two copies of a task still meet: a redelivery may find the
  first goroutine running): pairs race, and the code has no rule that counts further.
* `Batch` 2 or 4 (the code: `RelayBatch`, larger): 2 leaves rows behind for the next
  relay, 4 lets one relay take all rows of a small plan.
* `MaxAttempts` 2 (the code: 5 for tasks and results, 8 for audit): one retry and
  one last attempt. A middle attempt is treated by `Route` like the first.
* `MaxFaults` 1 or 2 bounds crashes, closed channels, lost or refused confirms,
  failed commits, cancellations, repeated publishes and redrives together.
  `ExpressionStore` has no such bound: there faults are unlimited.
* The clients' input is the constant plan, the reports in `reported` are sets:
  no counter besides `lastId` grows, and it is bounded by the plan.
* *Breaker*: limits of 2 (the defaults are 5 and 2) and three callers, the third of which comes in only when both probe
  slots are taken: two are enough for a race between a transition and one that still acts on the state before
  it, three for a probe that is refused. The counters need no bound: resets keep the reachable states finite.
* *Pool*: one permanent worker and three that the autoscaler may start, under a ceiling of
  3, so that the ceiling bites and two transient workers may retire together; two tasks and a queue of one, so that
  one task can be blocked behind the other.

* *Audit*: one slot and a chunk of one, so that consumers queue for the slot and a flush has several
  chunks. The messages do not meet each other, and the writer meets `m1` under one fault only (`Together` in
  `MCAuditIngest`); only publishing, writing and faults are barred by it, to none of which anybody is obliged.
* *Limiter*: rate 1, burst 2, TTL 4 and a lag of 1, the tightest TTL the assumption allows: an eviction
  one tick earlier would be seen. Time up to 6 is long enough for a sweep and a refill after it.
* *Pages*: three events, pages of two, one tick of cache, one tick of reading: a walk of two pages, with one event inserted
  during it at any place.
  A burst of 2 with a lag of 1 leaves `RefusalsEarned` little room; the theorem has it for all settings.
* *Event stream*: two tasks, the submission and two more commits, channels of one event, two faults; a second browser on the same hub
  that may be stuck. Beside a stuck browser there are no faults, nobody leaves, and one more commit than the submission is followed
  (`OneTrouble` in `MCEdge`): its three events overflow a channel of one. Nothing is barred that anybody is obliged to do. Two commits
  after the submission hold a settling with its two events and a late result, or a loss and the event that makes up for it.
* *Texts*: all of up to 7 characters over one digit, `-`, `*` and parentheses, all of up to 4 over a wider alphabet with dots,
  blanks and an illegal character, all chains of three operators, and texts around the limits, which are 7
  characters, depth 2 and three operations. Seven characters hold any two operators with one pair of parentheses.
* *Messages*: of each type the empty one, one with everything set, and one for each field and extreme value;
  three kinds of newer fields; each buffer cut at every place; sent on twice.

No symmetry is declared: liveness is checked in most runs.
The limits of breaker and pool are arbitrary in the proofs of section 4.

`CHECK_DEADLOCK FALSE` in `delivery`, `delivery_transient`, `audit` and `edge`: when everything is
handled and the fault budget or the clock is used up, nothing remains to be done; in `process`, `pool_drain` and `parser_grammar`, where a closed
pool with all tasks answered has stopped, and a text is parsed and a message
read once. The store and breaker runs keep the deadlock check: a replayed message, or the next call, is always possible there.

### Fairness

`Delivery` assumes weak fairness of each relay loop (a ticker, until shutdown),
each results consumer and each worker (loops that end only with their context;
handlers are bounded by the demo latencies and by contexts), and of the expiry of the
TTL. Nobody is obliged to submit, prune or redrive, and faults are never fair.
Each loop is one `WF`, so a process is obliged to do *something* it can do, never a
particular step.

`CircuitBreaker`: callers come back (the relay ticks for as long as it runs), the guarded
call returns (a publish waits for its confirm under a context), time passes.
`Recovers` has the health of the dependency as its premise, not as a fairness
assumption. `WorkerPool`: goroutines run and tasks return (the computation is bounded by the demo
latencies and by the worker's context); nobody has to call `Submit` or `Close`, and idle timers need not
fire. One fairness is strong: the autoscaler's `select` chooses at random between a ticker and
a stop channel that are both ready, so it does not ignore the stop for ever
(`SF` of `StopScaling`); without it `Close` may wait for ever while the autoscaler starts workers that retire.

`AuditIngest`: each consumer's loop, each writer's call, the batcher's loop and the retry TTL go on; once a shutdown
has begun, channels close, `CloseIngestor` and `Exit` follow, and the service is started again
(the compose file restarts it). A deadline passes for certain only when nobody flushes any more.
`EventStream`: the scheduler and the hubs run, the watcher's ticker ticks, and a *healthy* browser
keeps connecting, reading and fetching; of the other browsers nothing is assumed, and nothing
makes the expression move. `DashboardConverges` is therefore about a state that has come to rest, and `WatchTellsTheEnd` has the settling
as its premise.

`DashboardConverges` says of a page that is on the screen and not `behind` that it shows the last commit. The premise is what the
code cannot do without, no more: with any one of these losses left out of `behind` (an ignored task event, a failed fetch, a
response overtaken, an event missed or dropped with its connection) TLC finds a dashboard that is stale for good. It is lifted by
the next event the page acts upon, so what `page.tsx:45` says, that the stream keeps things fresh after a failed fetch, holds as long as
there is another event, and not after the last one of an expression. An event that finds the channel full is not among the
losses: a browser that reads has an earlier one in there, and what it fetches for that is as new.

## 4. What is proved

Each theorem holds for all values of the constants that satisfy the assumptions its modules name. TLC
evaluates them on every instance it runs:

* `ExpressionStore`: every plan, number of replicas, batch size and any arithmetic (`PlanAssumption` and
  `ArithAssumption` of `Plan`; `BatchAssumption`). What is assumed of a plan's shape is what `planner.go` returns: that of any set of tasks one waits for none of
  the others, and that every task but the root is an argument of another one, is proved of it (`PlansAreAsAssumed`). That such
  a plan has a meaning, and only one, is proved too (`MeaningIsUnique`).
* `FanInTransactions`: in addition any set of consumers, and that a task is an argument of one task only (`TreeAssumption`),
  which `PlansAreAsAssumed` proves of the planner as well.
* `ExpressionParser`: any texts and any limits (`ParserAssumption`).
* `Delivery`: in addition any set of workers, at least one attempt and any number of faults (`DeliveryAssumption`).
* `CircuitBreaker`, `BreakerPolicy`: any finite set of callers and positive limits (`BreakerAssumption`).
* `WorkerPool`: any tasks, at least one permanent worker, a ceiling no lower than their number and no
  higher than all workers together, a queue of any positive size (`PoolAssumption`).
* `AuditIngest`: any consumers and writers, positive numbers of slots and batch sizes, and writers' requests that are not empty:
  `WriteEvents` refuses an empty one (`auditv1/server.go:43`) before anything else happens (`AuditAssumption`).
* `AuditQueries`: any finite log, clients and replicas, positive page sizes and cache lifetimes, and a `NoCursor`
  above all keys, because the first page has no bound (`QueriesAssumption`).
* `RateLimiter`: any keys and calls in flight (`LimiterAssumption`, see 15 below).

| Theorem | Statement | Module |
|---|---|---|
| `TypeCorrect` | `Spec => []TypeOK` | `ExpressionStoreProofs` |
| `ClaimsAreExclusive` | `Spec => []ClaimsExclusive` | `ExpressionStoreProofs` |
| `FanInIsConsistent` | `Spec => []FanInConsistent` | `ExpressionStoreProofs` |
| `AllMessagesAgree` | `Spec => []MessagesAgree` | `ExpressionStoreProofs` |
| `NoTaskForgotten` | `Spec => []NeverForgotten` | `ExpressionStoreProofs` |
| `WhatSettlesStays` | `Spec => SettledForever` | `ExpressionStoreProofs` |
| `AnswersAreCorrect` | `Spec => []AnswersCorrect` | `ExpressionStoreProofs` |
| `MeaningIsUnique` | `\E v : Valuations = {v}` | `ExpressionStoreProofs` |
| `StoreKeepsPromise` | `Spec => KeepsPromise` (refinement of `ExpressionLifecycle`) | `ExpressionStoreProofs` |
| `AuditIsFaithful` | `Spec => []AuditTrailFaithful` | `ExpressionStoreProofs` |
| `TransactionsAreAtomic` | `TxSpec => ImplementsAtomic` (refinement of `ExpressionStore`) | `FanInProofs` |
| `ConsumersNeverDeadlock` | `TxSpec => []NoDeadlock` | `FanInProofs` |
| `AnswersCorrectSideBySide` | `TxSpec => []AnswersCorrect` | `FanInProofs` |
| `DeliveryImplementsStore` | `DeliverySpec => ImplementsStore` (refinement of `ExpressionStore`) | `DeliveryProofs` |
| `AnswersEndToEnd` | `DeliverySpec =>` the answers, their finality, the promise and the audit trail | `DeliveryProofs` |
| `DeadTasksAreEarned` | `DeliverySpec => []DeadTasksEarned` | `DeliveryProofs` |
| `RunnableTasksStayDriven` | `DeliverySpec => []StillDriven` | `DeliveryProofs` |
| `BreakerTypes` | `BreakerSpec => []BreakerTypeOK` | `CircuitBreakerProofs` |
| `ThresholdAlwaysTrips` | `BreakerSpec => []ThresholdTrips` | `CircuitBreakerProofs` |
| `NoProbeLeaks` | `BreakerSpec => []ProbesNeverLeak` | `CircuitBreakerProofs` |
| `CooldownIsRespected` | `Spec => CooldownRespected` | `CircuitBreakerProofs` |
| `ClosesByProbes` | `Spec => ClosedByProbes` | `CircuitBreakerProofs` |
| `TripsExactlyOnStreak` | `Spec => TripsOnStreak` | `CircuitBreakerProofs` |
| `PoolTypes` | `Spec => []TypeOK` | `WorkerPoolProofs` |
| `EveryTaskRunsOnce` | `Spec => []RunsOnce` | `WorkerPoolProofs` |
| `PoolWithinLimits` | `Spec => []WithinLimits` | `WorkerPoolProofs` |
| `CloseDrainsEarlier` | `Spec => []DrainsEarlier` | `WorkerPoolProofs` |
| `AcceptedEventsSurvive` | `AuditSpec => []NothingLost` | `AuditIngestProofs` |
| `DeadEventsAreEarned` | `AuditSpec => []DeadLettersEarned` | `AuditIngestProofs` |
| `AcknowledgedIsStored` | `AuditSpec => []AckMeansLogged` | `AuditIngestProofs` |
| `StampedEventsAreLoggedOnce` | `AuditSpec => []LoggedOnce` | `AuditIngestProofs` |
| `NobodyIsForgotten` | `AuditSpec => []NobodyForgotten` | `AuditIngestProofs` |
| `WalksAreComplete` | `QueriesSpec => []WalkComplete` | `EdgeProofs` |
| `NeverGrantsTooMuch` | `LimiterSpec => []NeverOverGrants` | `EdgeProofs` |
| `RefusalsAreEarned` | `LimiterSpec => RefusalsEarned` | `EdgeProofs` |
| `PlansAreTrees` | `ParserSpec => []PlanIsATree` | `EdgeProofs` |
| `PlansAreAsAssumed` | `ParserSpec => [](stage = "planned" => AsAssumed(plan))` | `EdgeProofs` |
| `PlansComputeTheirTree` | `ParserSpec => []PlanComputesTheTree` | `EdgeProofs` |

So every safety property of the passing runs is also a theorem, except those of parser and codecs in `process`, of which two conjuncts are
(`PlanIsATree` and `PlanComputesTheTree` of `PlanComputesTheText`). The argument, bottom up:

1. *Types.* `TypeOK` is inductive by itself. Its one conjunct at risk is the type
   of a queued task message, which holds two numbers only because `FanIn` refuses
   a task with a missing argument (`enqueueTask`). `InsertOutboxFacts` (a transaction's
   rows are new, numbered above `lastId`, one per body) is the lemma under everything
   that inserts.
2. *Outbox.* `ClaimsExclusive` is not inductive: a commit marks ids, and an id must
   stand for one row (`Numbered`); that a mark never precedes the message needs what
   each relay believes to be true (`MarksTrue`). `OutboxInv` is the conjunction.
3. *Fan-in.* `FanInConsistent` needs that a result is reported only of a launched task,
   which is `MessagesAgree`; that needs that launched tasks keep their
   arguments, which is `FanInConsistent` again. With `StoredTogether` (an
   expression and its tasks exist together) and `OutcomesRight` (a settled task
   settled on the outcome of its own arguments) the four are inductive: `FanInInv`.
4. *No task forgotten.* A task is launched in the transaction that inserts its message
   (`LaunchStep`), and an accounted message stays accounted (`RowsKept`).
5. *Answers.* Every done task has the value the plan's valuation gives it, by induction from the leaves up
   (`Bottomup`); a division by zero rises to the root and "root done" descends to all tasks, by induction from the root
   down (`Topdown`). Both principles are proved from the post-order: the first looks at the first task, in
   that order, of those that would refute it, the second at the last one. A finite set has a last one because a number
   of tasks has a least one (`LeastNat`, from the library's well-founded order on the naturals; `LastTask`). The
   valuation itself is built by extending partial valuations of operand-closed sets one task at a time: a
   largest one has no task left to add.
6. *Refinement and audit.* Each transaction maps to one step of the lifecycle or to
   none; the root always finds its expression open (`RootFindsOpen`), so no
   "expression.done" is ever audited of a failed expression.
7. *Transactions.* `ImplementsAtomic` asks of a commit that it do to the rows *as they are then* what `FanIn` would do, although
   the transaction read some of them long before. `TxInv` says at each statement what the transaction has written and why it is still
   right: `HandlerOK` compares its versions with the committed rows (its own task, locked since `Settle`; each dependent it has filled, with one
   argument and one decrement more than the committed row; the expression's row, if it holds it), and `left` with the
   dependents still to be filled; `Apart` says that no two transactions hold the same row. The dependents are what makes it work: a row not yet locked may be
   changed by the other argument's transaction, but then only by its commit, and `Fill` looks at the row again. A dependent cannot have left
   `pending` meanwhile, because `FanInConsistent` counts this transaction's own task as unmet until it commits; `TxInv` therefore rests
   on the invariants of the store, which `TransactionsAreAtomic` keeps available step by step. With the commit's row
   versions equal to those of `FanIn`, the outbox rows are the same set as well.
   *No deadlock.* Three facts about chains of two waits: who waits to fill a dependent waits for a sibling that waits for nobody
   (`FillEndsChain`: the sibling has only the expression left to lock, and of two siblings neither is the root); who waits to open the expression
   waits for the one that opens it, which waits for nobody (`ProgressEndsChain`: nobody else can have got far enough to hold
   a dependent); who waits to close it waits, if for a waiting one at all, for one that fills (`FinalizeMeetsFill`). A transaction at
   its first statement holds nothing. So no chain of waits is longer than two, and none closes.
8. *A flow.* The bags of `Flow` matter to no proof, only which copies are in them. `FlowFacts` therefore sees a
   flow as a record of three sets and the consumers' hands, and a step as one of a few relations between two such
   records (a copy arrives, is taken, is parked or buried, comes back from an owner who let go). A copy stays `Kept` while it is
   queued or in the hands of an owner who is not about to ack it; the hand is needed because the copy is in no
   queue then, and the ownership because a closed channel has already put it back.
9. *End to end.* Every step of `Delivery` is a step of the store or changes nothing of it: what a consumer handles is in
   `dispatched` or `reported`, which is why only such bodies may be in the queues (`FlowTypes`). Hence `AnswersEndToEnd` needs no
   proof of its own. `StillDriven` is not inductive: a task counts as driven while it is in
   somebody's hands, and its message may be on its way from one flow to the other. `SentDriven` says where it is then:
   kept in the tasks flow, or turned into a report that is kept in the results flow. A report is acked only after the
   transaction that settles its task. `DoomEarned` extends `DeadTasksEarned` to copies about to be buried.
10. *Breaker.* `ThresholdTrips` and `ProbesNeverLeak` are inductive together with the
   types, which say who owes a decrement. The counter may run *below* the number of callers it
   counts, after a reset under a running probe, and never above it.
11. *Breaker policy.* The three policy properties speak of steps, and of a history. `PolicyInv` says what the atomics, read at any
   place of the code, have to do with that history while no calls have overlapped: `Account` has one line for each place a caller may
   stand at between two atomic operations. It needs that the caller is alone, that a breaker between two calls is
   settled, and that the stored time is the opening's except where the store is still due (`ClockStored`). After an overlap it claims
   nothing, as the findings of section 3 say it must.
12. *Pool.* `DrainsEarlier` is not inductive: while a task accepted before `Close` is still queued,
   some permanent worker must be there to take it (`Owed`). `WithinLimits` needs that the counter equals the number of live
   workers (`Counted`), and that permanent workers leave only after `Close`
   (`Staffed`): that, not the check before retiring, is what holds the minimum
   when several transient workers retire together. `PoolInv` is the conjunction with the types and `RunsOnce`.
13. *Audit pipeline.* `FlowInv` is the flow's part, with verdicts: parked and dead copies have theirs. `PipeInv` follows an event
   through `Ingest`: a consumer in it handles a delivery (`Placed`); a caller that waits has exactly one of an answer and an
   entry of its own event in the pipeline, unless the loop is gone, and an answer of success means that the event is stored (`AllServed`);
   what is about to be marked is stored (`MarkedStored`), and so is every event of a request that the writer
   has passed (`PassedStored`). `AckMeansLogged` alone says nothing of an answer that was sent and not yet read.
   `LoggedOnce` needs only the types of the pipeline: the insert itself refuses a second row.
14. *Audit pages.* `WalkComplete` speaks of finished walks only. `QueriesInv` says of a walk under way that it has
   shown everything down to its cursor (`Walking`), and of each page, cached or in flight, that it holds
   all that was below its cursor at the tick it was read, or ends before it (`PageOK`). The page's age is what makes
   the two meet: a cached page is no older than its lifetime and the longest read (`EntryOK`), so it is recent enough for any walk
   that may find it; and who waits for a query waits for the page of its own cursor (`WaitersOK`).
15. *Limiter.* The bound on windows is not inductive: it says nothing of what the bucket still holds. `Balanced` does: for
   every instant, tokens in the bucket and grants since then together fit between it and the last access. A key without a bucket
   has only grants so old that its bucket would be full again (`Cold`), which is what makes eviction harmless. That needs fresh
   readings (`Readings`), an old cutoff (`CutoffOld`) and a TTL that outlasts a refill, the last conjunct of `LimiterAssumption`:
   the code does not enforce it, the deployed settings satisfy it by far.
   The converse, `RefusalsEarned`, needs that a bucket is no emptier than its grants explain (`Drained`): there is an
   instant at which it was full, and everything granted since accounts for what is missing. Because readings
   reach the lock out of order the window has to open up to one lag earlier, which is the lag in the property.
16. *Planner.* `HeapOK` is inductive: every node points to nodes allocated before it, no two operations share an operand, and what
   is on the operand stack is nobody's operand yet. All three ways the parser allocates (a literal, a binary fold, a negation with a zero of
   its own) are one lemma (`Reshaped`). `OrderOK` says what the planner's recursion appends for a node; it composes because the two
   operands of an operation have no operation in common (`OperandsApart`: the operation above the highest common one would be common
   too), and it holds of every node because the lowest node it fails for would have operands it holds for (`PostOrderOK`; that the
   recursion is defined at all, `PostOrderDef`, is an induction on the size of the heap). `TasksFormATree` reads the shape of the plan off
   the order; `TasksCompute` says that each task computes the tree of its node, the first one that did not would have arguments that do.

## 5. What is only model-checked

Liveness (`EventuallySettled`, `Recovers`, `NothingHangs`, `AuditSettles`, `DashboardConverges`, `WatchTellsTheEnd`) is out
of the prover's reach, and so is anything about ENABLED; `EventStream` has no other properties, so nothing is proved of it.
`ParsesTheGrammar`, `PlanComputesTheText`, `RoundTrips` and `NothingMisread` are about definitions that are
recursive over data, which the installed provers cannot do induction on: TLC checks them against the reference definitions
(a grammar as a set of trees; the message that was sent) on bounded inputs. Induction over numbers and finite sets is within
reach, by a least counterexample: that is how `Plan` is handled, and the heap of the parser, whose addresses are numbers. What a text
means by the grammar, and byte strings, are not: that the parser's tree is the grammar's, with the numbers of the text in
their order and as many operations as it has operators, is left to TLC.
A page of `AuditQueries` is any sequence with the properties `ORDER BY` and `LIMIT` give it, never the result of a sort: that such
a page exists is left to TLC.

## 6. What is not modelled

* *PostgreSQL itself.* Row locks, snapshots and the second look of READ COMMITTED are modelled as its documentation has
  them, from how the statements use them, and are marked external. An outbox row gets its id at its
  commit in `FanInTransactions` and at its `INSERT` in the database: gaps, and the order of ids among transactions that overlap, differ, and
  no property reads either. Consumers other than the fan-in's (`CreateExpression`, `MarkTaskRunning`) take at most one row that anybody else
  can see, and stay single steps.
* *The guarded publisher's attempts inside one publish* appear as repeated
  relays of the same row, which the broker cannot tell apart; the delays between them as nothing.
* *Order of messages in a queue*, priorities and prefetch: any order is allowed,
  which only adds behaviours.
* *Unroutable mandatory publishes, the reconnect loop, the quorum queues'
  delivery limit, `InspectDLQ`* (read-only apart from the redelivery flag).
* *Audit*: `Stats` and the ingestor's counters, the load shedding of `WriteEvents` (`Bulkhead.Do` refuses before anything
  happens), partition maintenance; filters other than the cursor, each of which is a log of its own.
* *Values*: floating-point arithmetic is the parameter `Arith`, whose one relevant effect, an infinity that JSON cannot
  encode, is kept; the parser names a number by its place, so the range errors of `ParseFloat` are left out; the limiter's refill is not rounded;
  the codecs' numbers are within 31 bits, and negative zero is the one value that does not survive the wire.
* *Codecs*: nil receivers, groups (proto3 has none), arbitrary bytes that no sender produced.
* Transports, configuration, logging, tracing, metrics, descriptors and gateway stubs, the frontend beyond its subscription: request
  mapping, presentation and settings, without a protocol of their own.

## 7. Plan

Done: the core down to its SQL statements, breaker and pool, the audit service, the edge and the algorithms. What would add most next:

1. `AmqpClient`: reconnection, channel reopening and unroutable publishes.
2. Proofs: that the literals of the tree are the numbers of the text in their order, an invariant of the two stacks; the pieces of a
   codec that are not recursive; the abstraction of the worker pool inside `Delivery`.
