# A TLA+ model of the event-driven notification service

The service accepts notifications over HTTP, stores them in Postgres, hands them
to workers through an asynq queue in Redis, calls an external provider for each,
and repairs what failures leave behind with a reconciler. Nothing spans Postgres,
Redis and the provider in one transaction. What keeps the service correct is a
protocol of small steps: two conditional UPDATEs, a deterministic task id and
four periodic sweeps. This directory models that protocol, checks it with TLC on
small instances and proves its safety with TLAPS for every instance. Around it
stand the parts with hazards of their own, each a module that is checked and proved
about in the same way: the HTTP chain, idempotency keys, rate limits, the circuit
breaker, retry timing, the live feed, templates, listing, and the start and end of
the processes.

- [The system](#the-system): inventory of components
- [The modules](#the-modules): which module models what, and how
- [The runs](#the-runs): what TLC checks, bounds, fairness
- [The proofs](#the-proofs): theorems, assumptions, the inductive invariants
- [Where code and documentation disagree](#where-code-and-documentation-disagree)
- [What is left out](#what-is-left-out) and [Plan](#plan)

To repeat the checks, in this directory:

    tlc -workers 2 -config race.cfg MCDelivery        # limited, batch, settles, stranded, aba, early
    tlc -workers 2 -config services.cfg Api
    tlc -workers 2 -config background.cfg Background
    tlc -workers 2 -config twice.cfg Idempotency
    tlc -workers 2 -config drain.cfg Process
    tlc -workers 2 -config overdue.cfg RetryTiming
    tlapm DeliveryProofs.tla        # HttpApiProofs, IdempotencyProofs, StatusFeedProofs, PaginationProofs,
                                    # ApiProofs, ProcessProofs, BackgroundProofs

## The system

### Components of the delivery pipeline

| Component | State it keeps | Operations | Correct when |
|---|---|---|---|
| Notification entity (`internal/domain`) | status, attempts, timestamps | `MarkQueued`, `MarkProcessing`, `MarkDelivered`, `MarkFailed`, `MarkRetrying`, `Cancel` | only edges of `validTransitions` are taken; a terminal status is final |
| Store (`adapters/postgres`) | `notifications`, `notification_logs`, `batches` | `Create`, `ClaimForProcessing`, `UpdateStatus` (guarded by the status that was read), `Append`, four `Find*` queries | a writer that lost a race is told so |
| Task queue (`adapters/asynq`) | asynq tasks under `notif:<id>` or under the client's key | `Enqueue`, `EnqueueScheduled`, `Cancel`; asynq's forwarder, retries, archive, leases, recoverer | one task per id; a task ends in completion, deletion or the archive |
| Intake (`create_notification.go`, `create_batch.go`) | the request's progress | INSERT, log, enqueue, UPDATE, log, per row | success means queued with a complete trail; a failure leaves something a sweep repairs |
| Cancellation (`cancel_notification.go`) | a copy of the row | read, guarded UPDATE, log, delete the task | nothing is sent after it; it never overwrites a claim |
| Worker (`process_notification.go`, `processor.go`) | the claimed row, the provider's answer | claim, record, rate limit, send, apply, record | one worker per row; at most one acknowledged send; bounded calls |
| Reconciler (`reconcile_stuck_notifications.go`) | copies of the rows of a sweep | orphaned pending, stuck processing, overdue retrying, stuck queued | every row is settled in the end; a sweep never undoes what an actor did |

They meet only in the store and the queue. A request enqueues its task *before*
its row leaves `pending`, so that a worker can find the task, miss the claim and
drop it (the dual-write race the stuck-queued sweep exists for). A worker that
dies after the provider call leaves a `processing` row which its redelivered task
cannot claim (the stuck-processing sweep fails it). A re-enqueue is refused while
any task has the same id. Every writer but the claim works on a copy of the row
and writes the copy's attempt count back.

### Components around it

| Component | State it keeps | Operations | Why it is hard | Correct when |
|---|---|---|---|---|
| HTTP surface (`cmd/api`, `adapters/http`) | a request's status in three writers, its correlation id | correlation id, metrics, limiter, idempotency, router, binding, decoding, sixteen handlers, error mapping | panics and errors after the first write; an id that three layers may fill in | what is counted and stored is what was sent; a refusal wrote nothing; every request is answered |
| Idempotency (`idempotency.go`, `idempotency_store.go`) | cached responses in Redis, a unique index in Postgres | look up, fingerprint, run, cache, expire | two requests with one key both miss; the store fails open | a key has one owner, and success under it names the owner's notification |
| Rate limiters (`adapters/redis`, `inbound_rate_limit.go`) | a counter and its time to live per key | the Lua script under two policies | windows back to back; denied calls count; Redis fails | at most twice the limit per window length; denials end; Retry-After is enough |
| Circuit breaker (`infrastructure/circuit`) | gobreaker's state, counts and generation | begin, end, tick | results arrive at a breaker that has moved on | only a burst opens it, only its probe closes it, and it closes after recovery |
| Retry timing (`process_notification.go`, `errors.go`, `cmd/worker`) | `next_retry_at` and asynq's delay | backoff, delay, jitter | two clocks set from two counters; an event that cannot be recorded swaps one delay for another | the overdue sweep does not overtake a task with retries left |
| Broadcaster and hub (`adapters/redis`, `adapters/websocket`) | Redis buffer, two subscription maps, connections | publish, consume, broadcast, subscribe, unsubscribe, disconnect | sends to a snapshot outside the lock | the maps agree; order is kept; a reader hears every update taken |
| Templates (`templates.go`, `template_repository.go`) | template rows, references to them | five verbs, templated creation | two-statement requests overlap | every stored body renders; a deleted row stays deleted |
| Listing (`list_notifications.go`) | none; the client's cursor | keyset query | the list changes during the walk | a row there throughout is listed once, in order |
| Reconciler backlog (`reconcile_stuck_notifications.go`) | which rows a pass has reached | four sweeps of 100 rows, the first error ends the pass | rows in front starve those behind; an archived task ends every pass | only an archived task keeps a row waiting |
| Processes (`cmd/api`, `cmd/worker`, `cmd/reconciler`, `config.go`) | resources held, work in progress, exit code | load, acquire, serve, drain, release | a signal at any moment, hung work, two shutdowns of one server | work ends before the pool closes; a signal ends the process |
| Read models, metrics, logging, tracing, migrations, documentation handlers, mocks | none that is read back | | | see [What is left out](#what-is-left-out) |

`PROJECT.json` lists the hazards of the code at their lines, with the properties
aimed at each.

## The modules

```
Status ── Store ── TaskQueue ─┬─ Intake ───────┐
   │                          ├─ Cancellation ─┤
   │                          ├─ Worker ───────┼─ Delivery ── DeliveryInvariant ─┬─ MCDelivery (TLC)
   │                          └─ Reconciler ───┘     ┊                           └─ DeliveryProofs
   └─ Lifecycle ┄┄┄┄┄┄┄┄┄┄┄┄┄┄┄┄┄┄┄┄┄┄┄┄┄┄┄┄┄┄┄┄┄ (INSTANCE)
```

* **Status** is the transition table of `status.go` and the statuses the claim's
  UPDATE accepts.
* **Lifecycle** is the abstract specification: what the pipeline promises about a
  row, seen from outside. A row is born pending, moves along the table, counts one
  attempt per claim, is acknowledged at most once, is delivered only after the
  acknowledgement and neither retried nor cancelled after it.
* **Store** holds the rows (`status`, `attempts`, `keyed`, `schedule`), the trail
  (`log`) and the failures so far. Each query is one step, as it is in Postgres.
  `ClaimForProcessing` is the UPDATE with `status IN ('queued','retrying')`;
  `UpdateStatus` writes the caller's attempt count under the caller's expected
  status; `ConcurrentUpdate` is its zero-rows case.
* **TaskQueue** is the asynq adapter over an external asynq. `EnqueueRefused` is
  `ErrTaskIDConflict`, `DeleteRefused` is asynq's refusal to delete an active task.
* **Intake** has one step per call of `CreateNotification` and `CreateBatch`. A
  batch is one INSERT of all members, then the calls of one member after another;
  an error leaves the rest of the batch pending.
* **Cancellation** has one step per call of `CancelNotification`.
* **Worker** has one step per call of `ProcessNotification` and what can happen to
  a worker: an error at any call (`HandlerFault`), the death of the process
  (`Crash`), a shutdown (`Shutdown`), a lost lease while the handler runs on
  (`LoseLease`). `acks` and `sends` are history variables: what the provider said
  it accepted, and how often it was called.
* **Reconciler** runs the four sweeps in order over copies of the rows its SELECT
  returned; the first error ends the pass.
* **Delivery** composes them, and states fairness and the properties.
  **DeliveryInvariant** is the inductive invariant. **MCDelivery** adds the symmetry
  and the claims of the documentation that the code does not keep.

The parts around the pipeline share no state with it beyond what its modules
already leave open (the limiter and the provider answer as they like in Worker), so
each is a module of its own:

```
HttpOperations ── HttpApi ── HttpApiProofs ─┐
OncePerKey ┄┄ Idempotency ── IdempotencyProofs ┤
StatusFeed ── StatusFeedProofs ─────────────┼─ Api ── ApiProofs
Templates ──────────────────────────────────┤
Pagination ── PaginationProofs ─────────────┘

RateLimiter ────────────┐
CircuitBreaker ─────────┤
RetryTiming ────────────┼─ Background ── BackgroundProofs
Sweeps ─────────────────┤
Process ── ProcessProofs ┘
```

* **HttpOperations** is a table of the sixteen operations: what each wrapper of
  `api.gen.go` binds, which errors its handler and use case return before and after
  their first write, and the error mapping. **HttpApi** takes requests through the
  chain of `cmd/api/main.go` and back out. The record of a request keeps the status
  as each wrapped writer saw it and the correlation id of header, context and row.
* **Idempotency** has one step per call of `serveIdempotent` and `runAndCache`, over
  Redis and the partial unique index. **OncePerKey** is the abstract promise; the
  refinement mapping takes the stored row as the owner of its key.
* **StatusFeed** is publisher, consumer and hub; each critical section of the hub is
  one step, each send another.
* **Templates** has one step per SQL statement. **Pagination** is the keyset query
  with `created_at` read before the commit, so that a row can appear anywhere.
* **RateLimiter** is the Lua script, used with `FailOpen` false (worker) and true
  (middleware). Time is relative: the key carries its rest, and the admissions are
  counted back from now (`admitted[a]` of them at most `a` instants ago).
* **CircuitBreaker** is gobreaker (external) with the settings of `breakerSettings`;
  a call in flight remembers whether its generation is still current.
* **RetryTiming** sets both clocks of one row and its task with the constants of the
  code, in seconds; a jitter draw is its least or its greatest. A task's UPDATE and
  its return come between `due` and `MaxWait` later (`RunTimes`): asynq's poll for due
  tasks, the wait for a free worker and the handler's own calls. A denial whose event
  cannot be recorded has the denial's `next_retry_at` and the other errors' delay.
* **Sweeps** handles a row in one step and keeps what Reconciler leaves out: order,
  page size and a backlog larger than the page. A task is live or archived, a backlog
  starts with any mixture of them, and a live task may fail, leave its row
  `processing` or be archived before it settles the row.
* **Process** is one binary from its environment to its exit code; a constant says
  which. The environment is four kinds of knob: a limit, the interval, the knobs whose
  range `Load` checks (breaker, mock provider), and the database URL, which
  `pgxpool.New` parses. A server that fails, at its start or while it serves, ends
  `run()` without a drain; a drain that is over leaves its handlers running.
* **Api** and **Background** put them together, with the constants of all; the cfg
  gives these their values. The variable `focus`
  names the one component that moves in a behaviour. Since components share no
  variables, every behaviour of an interleaving projects onto one of each, and the
  properties speak of one component: nothing is lost, and the state space is the sum
  of theirs, not the product.

### How code and model correspond

One step of the model is one call to Postgres, Redis or the provider, with the
code up to the next call. Between two calls of an actor any other actor may move.

* *Time.* The code compares timestamps with cutoffs. `stale` holds the rows whose
  timestamp has passed the cutoff of the sweep for their status; every UPDATE
  takes the row out, since the sweep for its new status compares a timestamp the
  UPDATE has just set (`updated_at`, `next_retry_at`); a re-enqueue writes nothing,
  so that the row stays in. `schedule` is `scheduled_at` against now:
  `none`, `future`, `due`, or `overdue` by the threshold. A pass computes `now` once;
  the model reads the clock at each SELECT, which is at most one pass later.
* *Failures.* `Fault` is a failing call or a dying process, at most `MaxFaults` per
  behaviour. A call that took effect and whose answer was lost is the call followed
  by a fault at the next step. A provider timeout is a transient answer.
* *Merged calls.* `ClaimForProcessing` reads the row only to tell "missing" from
  "claimed" after its UPDATE matched nothing; that read is part of the step.
  `recordEvent` appends and publishes in one step; `HandlerFault` covers a publish
  that failed after the append.
* *Data.* Content, recipients, priorities, channels and correlation ids do not
  influence control and are left out. The log is a set of events. The order in which
  a sweep handles its rows is free. Priority only selects asynq's queue.
* *asynq (external).* An id that exists in any state, archived included, refuses an
  enqueue; an archived task is kept longer than a behaviour lasts; `Unique` is
  subsumed by the task id; a recovered lease is charged as a failed attempt; a
  shutdown returns the task uncharged. A unique index on `idempotency_key` gives
  each keyed row a task id of its own. Members of a batch carry neither a key nor a
  schedule (`adapters/http/mapping.go`).

### Bounds

`Notifs`, `Workers`, `Cancels` and `Reconcilers` are sets of model values.
`MaxAttempts` is `defaultMaxAttempts` and `MaxRetry` asynq's option, small here.
`MaxFaults` and `MaxDenials` bound the failures and rate-limit denials of one
behaviour. `KeyChoices` and `ScheduleChoices` are what requests may carry. There is
no state constraint: everything else is finite by itself. In the other modules
`MaxFaults`, `MaxExpiries`, `MaxCalls`, `MaxPublished` and `MaxTime` bound failures,
expired entries, callers, updates and the clock of one behaviour; `Capacity` is the
buffer of the subscription. `MaxWait` bounds the time from a task's due to its
handler's return: 30 seconds in `background`, for asynq's poll (5), the provider's
timeout (5) and the rest for queueing and queries; 0 in `overdue`, where no wait is
needed to break the claim.

## The runs

| Run | Module | Instance | Properties | States |
|---|---|---|---|---|
| `race` | MCDelivery | 1 row with or without key, 2 workers, 1 cancellation, 1 reconciler, 2 attempts, 1 fault | `TypeOK`, `ExclusiveProcessing`, `NeverSentTwice`, `OutcomesTruthful`, `DeliveryInv`, `TerminalIsFinal`, `CancelledIsNeverSent` | 1519k |
| `limited` | MCDelivery | 1 row with or without key, 1 worker, 1 cancellation, 1 reconciler, 2 attempts, 1 denial, fair | `ProviderCallsBounded`, `DeliveredIsAcknowledged`, `ImplementsLifecycle`, `QueueDrains` | 205k |
| `batch` | MCDelivery | 2 rows singly (with a key, scheduled or not) or as a batch, no worker, 1 cancellation, 1 reconciler, 1 fault | `AcceptedIsQueued`, `NotBeforeSchedule` | 2433k |
| `settles` | MCDelivery | 1 row, scheduled or not, 1 worker, 1 reconciler, 2 attempts, 1 fault, fair | `NeverLockedOut`, `EventuallySettled` | 257k |
| `services` | Api | 2 requests through the chain; 1 request for any of 16 operations; 3 requests under 1 key; 2 connections and 3 updates; 3 template requests; 3 rows in pages of 1 or 2 | `TypeOK`, `SameStatus`, `ClientIdIsKept`, `RefusedWroteNothing`, `Answered`, `ImplementsOncePerKey`, `IndexesAgree`, `InOrder`, `AtMostOneLate`, `SubscriberHears`, `StoredBodiesRender`, `DeletedStaysDeleted`, `ListedOnce` | 134k |
| `background` | Background | limit 2 in a window of 3 under both policies; 3 callers of a breaker that opens on 2; 5 attempts and 5 retries; 3 rows in pages of 2; 3 binaries with 2 items of work | `TypeOK`, `TwiceTheLimit`, `WindowEnds`, `WaitOutlastsWindow`, `OpensOnTransientBurst`, `ProbeDecides`, `Recovers`, `SweepWaitsForTask`, `BacklogClears`, `DrainedBeforeClose`, `SignalExits` | 89k |

Deadlock is checked in the runs of MCDelivery, where a reconciler can always start
its next pass. In `services` and `background` it is not: requests end, a walk
reaches its last page, a row is settled and a process exits.

What they show, in words:

* `ExclusiveProcessing`: two workers are never in flight with one row, although
  asynq may run its task twice at once (lost lease) and a keyed row may own two
  tasks. The claim's UPDATE is the only lock.
* `NeverSentTwice`: once a worker has been told of success, the row is never queued,
  retried or cancelled; a sweep that gives up on it fails it. This is what makes
  failing, rather than retrying, a stuck `processing` row the right choice.
* `OutcomesTruthful`: a terminal event in the log or on the feed is the row's status
  for good, even when a sweep and a worker settle the row at the same time.
* `TerminalIsFinal`, `CancelledIsNeverSent`: no write leaves a terminal status; no
  provider call follows a committed cancellation, whatever tasks it left behind.
* `ProviderCallsBounded`: at most `MaxAttempts` provider calls, although denials add
  claims beyond that.
* `AcceptedIsQueued`: a success answer is true, whatever sweeps and cancellations
  did to the row during a slow request.
* `NeverLockedOut`: with one failure beyond the attempts, the most that the theorem
  `NoLockout` allows, no sweep is kept out of the queue by an archived task; a
  redelivery that loses the claim does not spend asynq's budget.
* `NotBeforeSchedule`: a row that its own request queued has no task ready before
  `scheduled_at`, under its own id or the client's key; the run has no worker, since
  a worker takes ready tasks only, and the theorem has any number.
* `EventuallySettled`, `QueueDrains`: every stored row is settled; its tasks then go.
* `ImplementsLifecycle`: every step of the pipeline is a step of `Lifecycle` or
  leaves its variables alone.

Of the parts around the pipeline:

* `SameStatus`, `Answered`: whatever panics or fails on the way out, the status the
  metrics count and the one stored for replay are the one the client was sent, and
  there is one.
* `RefusedWroteNothing`: no operation answers 400, 404, 413 or 429 after its row was
  written: what a use case returns after its INSERT maps to 409 or 500.
* `ClientIdIsKept`: a correlation id the client sends is on its row and its response.
* `ImplementsOncePerKey`: Redis and the unique index together give a key one owner,
  through concurrent misses, a store that fails, a handler that fails after its
  INSERT, and expiry.
* `IndexesAgree`, `InOrder`, `AtMostOneLate`, `SubscriberHears`: connections that
  subscribe, leave and fail during a broadcast neither corrupt the hub's maps nor
  cost others an update; a client may get one update after it unsubscribed, no more.
* `StoredBodiesRender`: creates and two-step replacements leave only bodies that parse,
  so that a templated create fails for what its client sent and for nothing else.
* `DeletedStaysDeleted`: the UPDATE by id holds against a DELETE between the two
  statements of a request.
* `ListedOnce`: a row in the list throughout a walk is listed once and in its place,
  whatever is inserted with equal or late timestamps.
* `TwiceTheLimit`, `WindowEnds`, `WaitOutlastsWindow`: the exact price of a fixed
  window, and that neither refused callers nor rounding keep a client out.
* `OpensOnTransientBurst`, `ProbeDecides`, `Recovers`: the breaker opens on the burst
  of its own window and on no other, late results neither open nor close it, and it
  closes once providers are well.
* `SweepWaitsForTask`: with the code's constants, in every order of failures, denials,
  failing claims and failing event writes, and with runs of up to `MaxWait`, a task
  that has a retry to spare is done before the overdue sweep reads its row. For the
  last retry this is false: see `overdue`.
* `BacklogClears`: a row that is not settled has, at or before it in the order of the
  sweeps, a row whose task asynq has archived (`Blocks`). Nothing else parks the safety
  net: rows that end passes, or fill the page, do so only until they have been handled.
  `stranded` shows how a single row comes to be archived.
* `DrainedBeforeClose`, `SignalExits`: in cmd/api and cmd/reconciler work ends before
  the pool is closed, unless the time for draining is over or the server has failed; a
  signal ends all three.

*Why these bounds.* One row suffices for properties that speak of one row, since
rows meet only in a batch, of which `batch` has two, and in a pass that one of them
aborts, which `background` has with three. Two workers are the least that can collide. Two attempts give a first, a last
and a retry between them. One fault can hit any step of any actor; with the recovery
of a lease, the redelivery and the sweep it causes, that reaches every recovery path.
The proofs remove the bounds for the safety properties they cover. Elsewhere: two
requests are the least that overlap in the chain, and the sixteen operations differ
only in their table entry, so that one request suffices for them; three requests
under a key are an owner, a competitor and a latecomer; three updates against a
buffer of two overflow it; three rows against pages of two leave one behind; a window
of three ticks with a second of two makes Retry-After round; two failures are the
least that are a burst. Retry timing needs no small numbers: it has the code's.

*Fairness.* Weak fairness of: the next call of a handler whose process lives, a free
worker taking a pending task, asynq's forwarder and recoverer, the reconciler's
ticker, the clock. These are loops of live goroutines or timers with nothing to
block them. A handler with several possible answers is fair as a whole: nothing is
assumed of what the limiter or the provider answers, nor of requests and failures.
The number of failures is bounded, as no retry budget survives unboundedly many.

In Api a request's next step and the consumer's and hub's goroutines are fair (the
write timeout ends a send to a peer that does not read). In Background the clock,
calls through the breaker and their return (the HTTP client has a timeout), the
reconciler's passes and the tasks, which asynq brings to an end or to the archive, and
each `main` with its
server's goroutines; a request or a task may hang, and it is the deadline of the
drain that is fair then. `Recovers` assumes that notifications keep coming, since an
idle breaker is probed by nobody.

Symmetry is used only in the runs without liveness (`race`, `batch`).

## The proofs

Every invariant and every action property that a run expects to hold is a theorem,
and so are both refinements. The theorems hold for any sets of rows, workers,
requests, connections and identifiers and any bounds that meet the assumptions below.

| Theorem | Module | Statement |
|---|---|---|
| `TypeCorrect` | DeliveryProofs | `Spec => []TypeOK` |
| `Invariance` | DeliveryProofs | `Spec => []DeliveryInv` |
| `Exclusion`, `AtMostOneAck`, `DeliveredHonest`, `CallsBounded`, `Truth` | DeliveryProofs | `Spec => []P` for `ExclusiveProcessing`, `NeverSentTwice`, `DeliveredIsAcknowledged`, `ProviderCallsBounded`, `OutcomesTruthful` |
| `AcceptedComplete`, `ScheduleKept` | DeliveryProofs | `Spec => []P` for `AcceptedIsQueued`, `NotBeforeSchedule` |
| `NoLockout` | DeliveryProofs | `Spec => []NeverLockedOut`, if `MaxFaults + MaxDenials + MaxAttempts <= MaxRetry + 1` |
| `Finality`, `CancelledSafe` | DeliveryProofs | `Spec => TerminalIsFinal`, `Spec => CancelledIsNeverSent` |
| `Refinement` | DeliveryProofs | `Spec => ImplementsLifecycle` |
| `ApiTypes` | ApiProofs | `Spec => []TypeOK` |
| `OneStatus`, `IdKept`, `RefusalsAreClean` | ApiProofs | `Spec => []P` for `SameStatus`, `ClientIdIsKept`, `RefusedWroteNothing` |
| `OneEffectPerKey` | ApiProofs | `Spec => ImplementsOncePerKey`, if `Guarded = Endpoints` |
| `HubAgrees`, `FeedOrdered`, `OneLateUpdate` | ApiProofs | `Spec => []P` for `IndexesAgree`, `InOrder`, `AtMostOneLate` |
| `TemplatesRender`, `NoResurrection` | ApiProofs | `Spec => []StoredBodiesRender`, `Spec => DeletedStaysDeleted` |
| `PagesComplete` | ApiProofs | `Spec => []ListedOnce` |
| `BackgroundTypes` | BackgroundProofs | `Spec => []TypeOK` |
| `AtMostTwice`, `WaitIsEnough` | BackgroundProofs | `Spec => []P` for `TwiceTheLimit`, `WaitOutlastsWindow` |
| `OpensOnBurst`, `ProbeEndsHalfOpen` | BackgroundProofs | `Spec => OpensOnTransientBurst`, `Spec => ProbeDecides` |
| `SweepsAfterTask` | BackgroundProofs | `Spec => []SweepWaitsForTask`, if `Lag(MaxRetry - 1) + MaxWait <= OverdueThreshold` |
| `DrainsFirst` | BackgroundProofs | `Spec => []DrainedBeforeClose` |

HttpApiProofs, IdempotencyProofs, StatusFeedProofs, PaginationProofs and ProcessProofs
each prove the same of one component by itself; ApiProofs and BackgroundProofs use
their lemmas through INSTANCE and prove the rest in place.

### Assumptions

The assumptions of the modules (`StoreAssumption` to `BackgroundAssumption`) say that
bounds are natural numbers, positive where the code has a positive constant, that a
value for "nothing" is not one of the others, that identifiers of rows that are
ordered are numbers, and that the reconciler's table is finite. `PowersOfTwo` states
the arithmetic of `2^n` for the exponents of the backoff, which the provers do not
know; TLC evaluates it with the code's values. Three theorems assume more:

* `NoLockout` needs faults, denials and attempts to fit into asynq's retries and one
  more. The code has five attempts against five retries, so that this covers a single
  fault or denial. The bound is exact: the run `settles` meets it with equality, and
  `stranded` shows what happens above it.
* `OneEffectPerKey` needs a unique index behind every endpoint. Creating a notification
  has one; creating a batch has none, and the run `twice` shows the consequence.
* `SweepsAfterTask` needs the overdue threshold to cover the lag of a task that has a
  retry to spare, and the run itself: `Lag(MaxRetry - 1) + MaxWait`, with
  `Lag(k) = BackoffBase * 2^(k-1) + k * (MaxRetryJitter - 1 + MaxWait) - RateLimitBackoff`.
  The first term is a denial that was not recorded followed by failing claims. With the
  constants of the code and a `MaxWait` of 30 that is 505 of 600 seconds. For the last
  retry, `Lag(5)` is 624 seconds even with a `MaxWait` of 0: the threshold does not
  cover it, and the run `overdue` is the behaviour that attains it.

### The invariant of the pipeline

No safety property is inductive alone. `DeliveryInv` adds what an actor relies on
between two of its steps:

* `ClaimHolds`: the row of a worker in flight is `processing` with the attempts the
  worker counts, or a sweep has failed it. This holds although the sweep's copy may
  be of an earlier cycle: nobody else leaves `processing`, and nobody returns to it
  while a worker is in flight, because the claim refuses a `processing` row.
* `AcksAgree`, `SendsAgree`: acknowledgements and calls against the row's status and
  the step and result of its worker. `sends < MaxAttempts` must be carried along
  explicitly, since `attempts` can exceed `MaxAttempts` through denials.
* `FreshRows`, `CancelCopies`, `SweepCopies`: a copy's attempt count is not above the
  row's while the row is open. A stale copy can therefore take the count back only
  when it settles the row.
* `OutcomeWritten`, `OutcomesTruthful`: an actor about to announce a terminal outcome
  has written it, and it stands.
* `TrailKept`: what a request has done so far, against the log and the status, member
  by member of a batch. `AcceptedIsQueued` is its last stage.
* `ScheduleHolds`: a row that is scheduled ahead and still in the hands of its request
  (`Withheld`) is out of everybody's reach: no ready task, no worker, and no sweep but
  the one for orphans, which has to find it pending (`OutOfReach`).
* `LeaseHeld`, `AttemptsWithin`, `ChargesCovered`: asynq charges a task for a fault or
  for an attempt that ended in `retrying`, so that its charges stay within the faults
  and the spent attempts of its row. A charge that is due (a lease that ran out, an
  error about to be returned) has to be counted before it is booked. With the bound of
  `NoLockout`, `ArchivedIsSettled` is inductive on top.

`DeliveryProofs` goes action by action, first for the types, then for each conjunct
that an action can disturb, and maps each action that changes `status`, `attempts` or
`acks` to its step of `Lifecycle`.

### The invariants around it

A step of `Api` or `Background` moves the component in focus and leaves the others
alone, so that `ApiInv` and `BackgroundInv` are conjunctions of one invariant per
component, each preserved by the component's own steps:

* `HttpInv`: for every request, the statuses in the three writers agree as far as the
  request has come (`WritersAgree`), nothing is sent or stored before the handler
  (`Untouched`), and a row has the client's id and no refusal (`Kept`). The last needs
  lemmas on the table of operations: which errors are returned after the write.
* `KeyedInv`: progress against the table (`Arrived`, `Committed`, `Unanswered`), one row
  per key (`OneRowPerKey`), and a cached entry names the row under its key
  (`EntryOfRow`). The owner in the refinement mapping is a CHOOSE, which `OneRowPerKey`
  determines.
* `FeedInv`: one broadcast at a time, and a line of sequence numbers: what a client has
  is older than the broadcast it still waits for, which is older than the buffer
  (`InboxBefore`, `CastBeforeBuffer`, `BufferOrdered`). `LateOnce`: after its one late
  update a client is on no list.
* `LibraryInv`: stored bodies parse (`BodiesParse`), and a request between its two
  statements holds the identifier of a template and a body that parses (`Midway`).
* `ListInv`: the cursor parts the listed rows from the steady ones still to come
  (`CursorParts`). That a full page ends at its least row and holds everything above
  it is an argument on cardinalities of finite sets, in lemmas of its own.
* `LimiterInv`: the counter bounds the admissions since the window began, and those
  before it, as far as they are still counted, are of one window (`Budget`);
  `WaitsForKey`: an announced wait outlasts the key.
* `BreakerInv`: the failures gobreaker counts are exactly the transient results of calls
  the current window began; in the half-open state the calls of the current generation
  are probes.
* `RetryInv`: an attempt costs a retry, and the task is behind `next_retry_at` by at
  most `Lag(retried)`.
* `BacklogInv`: a page fits the batch, since the greatest of its finitely many rows has
  fewer than `BatchSize` before it.
* `DrainInv`: resources are held in the order of `run()`; how far `run()` has come
  against the server (`StagesAgree`); a closed server has no work left unless `run()`
  gave up on it, its time being over or the server having failed (`WorkAgrees`).

### What is only model-checked

The liveness properties: `EventuallySettled`, `QueueDrains`, `Answered`,
`SubscriberHears`, `WindowEnds`, `Recovers`, `BacklogClears` and `SignalExits`. They
rest on weak fairness, and fairness and ENABLED are outside what TLAPS proves.

Proving changed the model of RateLimiter in two places. Its counter stops at the first
value over the limit, which for a limit of zero is 1: every refused call seemed to be
the first of its window and renewed the key, which the script does not do. And its
history keeps, for each age, the admissions up to that age instead of at it, so that
the bound speaks of one number and not of a sum.

## Where code and documentation disagree

Six runs are expected to fail; each states something the repository says and shows
the behaviour of the code that breaks it.

| Run | Claim | What the code does |
|---|---|---|
| `early` | a scheduled task is not dequeued before its time (`internal/ports/ports.go:128`) | a scheduled request that is slower than the orphan threshold, or stops before its UPDATE, has its row queued and enqueued for immediate delivery by the orphan sweep |
| `aba` | zero rows affected means that another writer changed the row (`notifications.sql:48`) | the guard compares the status alone; a sweep that read the row `processing` passes it a retry cycle later, fails the row under its new worker and writes the old count |
| `stranded` | recovery is automatic (`docs/adr/0013-reconciler-stuck-queued-sweep.md:80`) | denials spend asynq's retries but not the row's last attempt; the task is archived, its id refuses every re-enqueue, the sweep's pass ends with that error on every tick, and the row stays `retrying` |
| `twice` | repeated requests with one key return the cached response (`api/openapi.yaml:481`, `docs/API_EXAMPLES.md:16`) | lookup and store are separate calls, and a batch has no unique index on the key: two concurrent batches under one key are both created |
| `drain` | `srv.Shutdown` is the graceful drain (`cmd/worker/main.go:194`) | asynq's own signal handler may shut the server down first; the second `Shutdown` then returns at once, and a task that is still running makes its next call to a pool that `run` is closing |
| `overdue` | the threshold is far past any retry latency, and a row whose retry is pending stays invisible to the reconciler (`docs/adr/0015-asynq-native-retry.md:53`) | after a denial whose event could not be recorded (`process_notification.go:286`) the row is due in one second and the task by the exponential schedule; four failing claims later the last retry is 624 seconds behind `next_retry_at`, and the sweep competes with it |

`stranded` uses two denials against a budget of one retry and one attempt. With one
denial the row is settled. In production the budgets are larger and denials are
frequent when a channel is over its rate.

Other differences met while reading the code for the models, each plain from the
lines themselves and not the subject of a run:

* Sweeps run outside a transaction, so their row locks end with the SELECT
  (`notification_repository.go:261`; `README.md:550` says "disjoint rows"). The
  guarded UPDATE and the task id make the overlap harmless.
* `Queue.Cancel` passes on asynq's error for an active task (`queue.go:178`;
  `ports.go:132` says it returns nil).
* An event is recorded after its UPDATE and in no transaction with it: a failure in
  between leaves a settled row whose trail does not say so
  (`process_notification.go:214`; `docs/adr/0006-websocket-for-realtime-updates.md:48`).
* The idempotency cache is looked up by the key alone (`idempotency.go:104`;
  `openapi.yaml:84` scopes it to the endpoint), and after a failed cache write the
  retry meets the unique index (`idempotency.go:245`; the comment at line 73 says the
  cache is re-populated).
* Two windows back to back admit twice the limit (`outbound_rate_limiter.go:27`;
  `docs/adr/0003-redis-asynq-queue.md:12`).
* Permanent failures never open the breaker (`breaker.go:53`; `README.md:181` has them
  drive "the circuit-breaker path"). `OpensOnTransientBurst` follows the code.
* asynq passes the delay function the retries so far, 0 after the first failure
  (`cmd/worker/main.go:229`; the comment at line 226 says 1-indexed), so that the task
  runs before `next_retry_at`.
* Broadcast sends to one client after another: a slow client delays the others by
  up to the write timeout (`hub.go:159`; the comment at line 150), and the client gauge
  is published outside the lock (`hub.go:104`; `metrics.go:117`).
* Validation errors of the domain are answered 400 (`problem.go:137`); `openapi.yaml:96`
  and `openapi.yaml:246` document 422 for them, "Request validation failed at the domain
  level" (line 509). HttpOperations has the statuses of the code.
* The template foreign key is ON DELETE SET NULL, and deleting a template that
  notifications refer to is answered 204 (`openapi.yaml:370` promises 409); a templated
  create whose template goes between its read and its INSERT is answered 500;
  DELETE and PUT do not read the row count (`template_handlers.go:149`,
  `template_repository.go:107`); PUT does not store `updated_at` (`templates.go:152`);
  the list has no cursor (`template_handlers.go:187`).
* A limit above 100 gives a page of 20 (`list_notifications.go:17`; `openapi.yaml:131`),
  and an unreadable cursor is a 500 (`notification_repository.go:335`).
* A refused re-enqueue in front of a queued orphan ends the pass
  (`reconcile_stuck_notifications.go:189`), so that the six minutes of
  `docs/adr/0013-reconciler-stuck-queued-sweep.md:70` can be exceeded.
* An interval of zero passes `Load` and panics in the reconciler
  (`cmd/reconciler/main.go:103`; `config.go:4`).
* Middlewares answer with statuses the operations do not declare, the liveness probe
  included (`openapi.yaml:9`, `health_handlers.go:11`); a parameter that does not parse
  is answered in plain text (`openapi.yaml:15`); a request without the header has two
  ids (`openapi.yaml:18`); a request that a middleware answers is counted without its
  route (`metrics_middleware.go:18`); an empty body is a 500 (`error_handler.go:30`).

## What is left out

* The contents of bodies, projections of one row, one batch or one log (the read
  models), and validation, which refuses a request before there is any state.
* The base64 form of a cursor and the text of a template: readable or not,
  well-formed or not, with a variable or without.
* The log handler, the tracer and the collectors other than the request counter: they
  write what they are given and nothing reads it. The client gauge is among them.
* `schedule_notification.go` and `render_template.go`: no binary constructs them.
* `cmd/migrate`: a sequential tool around golang-migrate. The constraints it installs
  are part of Store, Idempotency and Templates.
* The handlers that serve the specification and the metrics: output without state.
* The mock provider and the end-to-end client: the provider answers as it likes in
  Worker and CircuitBreaker.
* The router's own 405 for a method no route has, and 501 for an operation that is not
  wired (`error_handler.go:39`): all sixteen are.
* That no notification refers to a deleted template: Templates has the steps, but the
  foreign key decides it, in Postgres and not in this code.
* The composition of Idempotency with Intake: a handler is one commit and one return
  there; Intake has its calls one by one, and the only thing they share is the unique
  index, which Intake takes as given for keyed rows.

## Plan

1. *(done)* Store, TaskQueue, Intake, Cancellation, Worker, Reconciler, their
   composition, the abstract Lifecycle, the safety proofs and the refinement.
2. *(done)* HttpOperations and HttpApi; Idempotency and its abstract specification;
   RateLimiter, CircuitBreaker, RetryTiming; StatusFeed; Templates and Pagination;
   Sweeps; Process.
3. *(done)* Proofs of every invariant and action property of the runs, of the
   refinement of `OncePerKey`, and the exact bounds of `NoLockout` and
   `SweepsAfterTask`.
4. Proofs about what is still left to TLC in part: abstract specifications of the
   limiter and the breaker, as OncePerKey is one of the middleware, and the safety part
   of the liveness arguments (what a sweep has in front of it only shrinks).
