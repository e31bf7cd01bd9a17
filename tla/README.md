# FastSQS in TLA+

FastSQS runs the records of one SQS batch inside one Lambda invocation: it
chooses a loop by queue type, validates and routes every record, wraps the
handler in middlewares, and answers SQS with the records that failed. This
directory models that core and what surrounds it (the queue over many
invocations, the event loops of a process, the middlewares that ship with the
library), model-checks it with TLC on small instances, and proves its safety
properties, some under a stated condition, with TLAPS for every value of the
constants.

Paths below are relative to the repository; `processing.py` and the others
without a directory are in `fastsqs/`.

## 1. The system

| Component | State it keeps | Operations | Talks to | What makes it correct |
|---|---|---|---|---|
| Batch engine, `processing.py` | per invocation: one asyncio task per record or per message group, the semaphore, the failures, the `halted` flag | `_handle_event`, `_handle_standard_event`, `_handle_fifo_event` and `process_group`, `_handle_fifo_halt_batch`, `_handle_record` | called by `app.handler`; runs the middleware stack per record; answers SQS | the reply names exactly the unprocessed records; FIFO order; groups independent; bounded concurrency; an answer in the end |
| SQS and Lambda (external) | per message: where it is, its receive count; per group: in flight or not | deliver, redeliver, delete, dead-letter, kill | acts on the engine's reply | order and at-least-once over several deliveries; a poison message holds back only what must follow it |
| Event loop entry, `app.py` | one kept loop per app and thread (`self._loops`, a `threading.local`); the thread's registered loop | `handler`, `async_handler`, `_thread_loop`, `_resolve_queue_type` | Lambda above, the engine below, other users of event loops beside | no loop shared by threads; a batch runs on an open loop; an open one is left behind |
| Middleware stack, `middleware/base.py` | per call: `entered`, `err` | `_run_middleware_stack`, nested: application stack around routing, router and route stack around the handler | the engine, the router, user hooks | balanced, nested, failure neither masked nor invented, `after` told the truth |
| Idempotency, `middleware/idempotency.py` | the store: key, state, `expires_at`; per record two names in `ctx.state` | `before`, `after`; `try_acquire`, `mark_complete`, `forget` | shared by all sandboxes | one holder per key; one run per dedup window, no skip outside one; a skip loses nothing; a dead worker's claim expires |
| Logging, timing, tracing, `middleware/` | names in `ctx.state` | `before`, `after` hooks | each other, and idempotency, through `ctx.state` | what one reads was written for this record, in this delivery |
| Context and State, `types.py` | one `State` per delivery, `route_path` | get, set | every middleware and handler | nothing survives a delivery |
| Routing, `routing/`, `events.py` | the registries of each router; per message `ctx.route_path` | `route`, `subrouter`, `default`, `include_router`, `dispatch` | recursion into subrouters, then the included routers | a registered handler is reachable but for known shadowing; a message with a route finds it; path and chain of the claimant |
| DI and handler call, `utils.py` | none | `maybe_inject`, `invoke_handler` | fast-depends | |
| Event models, exceptions | plain data | | | |
| Testing client, `testing.py` | none | builds events | | |

### What is hard here

* Group tasks and standard tasks interleave at every `await`; `gather` collects
  them with `return_exceptions=True`, so an exception is a value that a later
  loop has to recognise.
* Failures come in three kinds that different lines tell apart: `Exception`,
  `SkipMessage` (a success) and `CancelledError` (a `BaseException`, seen by no
  `except Exception`).
* Two nested cleanup stacks may fail while a failure is in flight.
* What one invocation answers decides what the next ones receive: a record that
  is reported too early, too late or not at all shows only deliveries later.
* The idempotency store is shared by sandboxes that die, time out and receive
  duplicates; nothing in an entry says who holds it.
* Middlewares communicate through names in one dictionary per record; two
  instances of one middleware use the same names.
* The loop of a thread is kept between invocations, in a process where other
  code closes and replaces event loops.
* Registration happens in import order, and a rejected registration may stay
  half done.

`PROJECT.json` lists each of these hazards at its line, with the properties that
would catch it going wrong.

## 2. Modules

| Module | What it is |
|---|---|
| `BatchContract` | abstract: what one invocation promises to SQS, whatever loop runs it |
| `BatchProcessing` | the three loops of the batch engine, one action per stretch of code between two awaits; implements `BatchContract` |
| `Consumer` | a queue drained by several invocations that keep the contract, over several deliveries |
| `MiddlewareStack` | one record inside `_handle_record`: the two nested runs of `_run_middleware_stack` |
| `Idempotency` | `IdempotencyMiddleware` over a shared store, with delivery, kills, leases and time |
| `RecordState`, `MCRecordState` | the bodies of the shipped middlewares over one `ctx.state`, several layers per record; the latter gives TLC the chains |
| `EventLoop` | `handler`, `async_handler` and the other users of event loops in a process with threads |
| `Routing`, `MCRouting` | registration and dispatch; the latter gives TLC the two event classes |
| `X_proofs` | the inductive invariant and the theorems of module `X`, for each of the seven detailed modules |
| `RecordValues_proofs` | a second invariant of `RecordState`: the durations |

How they fit:

```
 Consumer         many invocations of one queue; an invocation is its contract
    |             BatchContract: settle in order, reply exactly the unprocessed
 BatchProcessing  one invocation; a record is the way _handle_record ends
    |             HandlerOutcomes: returned, raised, cancelled
 MiddlewareStack  one record; a hook completes, raises, skips or is cancelled
    |                                 |
 Idempotency, RecordState          Routing
 what the hooks do                 the call_inner of the outer stack
```

`EventLoop` is beside: it says on which loop the engine runs, and takes a batch as
the time its loop runs.

Each level takes from the one below what that one is shown to keep. `Consumer` uses the
order and the exact reply that `ImplementsContract` shows of the engine.
`BatchProcessing` may take the handler's outcome for the record's because of
`FailureNotMasked`. `Idempotency` and `RecordState` decide by `error`, which
`AfterSeesFailure` is about, and unwind in reverse, which is `Nested`. Two of the links
are theorems: `EngineKeepsContract` (the engine implements the contract) and, from the
other side, `InvocationsKeepContract` (what `Consumer` lets an invocation do is what the
contract lets it do). The others are assumptions.

### BatchProcessing

`app` is what `FastSQS(...)` was built with; `batch` and `arnFifo` are the event. A
record has a shape (`kind`, `group`, `hasId`). `dict` is a record of a real queue,
`badbody` one whose body is not a JSON object, `nondict` an element that is no
object and `nullattrs` one whose `attributes` is null; the last two reach the
engine only from a list that an EventBridge pipe enriched. `task` is where each
record's `_handle_record` is, `group` where each `process_group` is (`list`: it
returned its failures), `cursor` and `pos` the loop variables, `sem` the free
slots, `response` what the caller has.

`HandleEvent`, `HandleEmptyEvent` and `HandleEventCrash` are `_handle_event` up to
its first await; `StandardStart/Finish/Reply`, `GroupStart/GroupStartFault/`
`GroupRecordOk/Fails/Cancelled/IsolateReply` and `HaltStart/RecordOk/Fails/`
`Cancelled/Reply` are the three loops. `_handle_record` raises before any hook for
a malformed record (`Rejected`); message ids that are missing share the sentinel
`UNKNOWN`, as in `_message_id`. `LogFaults` switches on debug logging
with a logger callable that may raise: each debug line outside a `try` may then end
the coroutine it is in.

`NoSilentAck` is the property one wants; it fails when handlers are cancelled or
loggers raise. `LossConfined` is what the code keeps then: a lost record was itself
cancelled, or is in the group whose task ended without its list.

### Consumer

Messages are numbered in sending order; `place` is the queue, a worker that has the
message in its batch, or gone (`deleted`, `dead`). `Receive` is the event source
mapping: on a FIFO queue the front of each group, and nothing of a group that is in
flight. Inside an invocation `Settle` runs a handler in the order of the failure mode
(`MustPrecede`), `Reply` is the batch response and what SQS does with it: it
deletes what `batchItemFailures` does not name; with `partial_batch_failure` off
any failure raises and the whole batch comes back. `Kill` is a timeout, a crash, a
raised `handler()` or a lost reply, at any moment; the messages come back at once,
since nobody else sees them until the visibility timeout is over. A message received
`MaxReceive` times is dead-lettered. That the visibility timeout exceeds the Lambda
timeout is the deployment's part and is assumed: without it a standard queue has two
invocations on one message, which is what `Idempotency` models.

### EventLoop

`own` is `self._loops.loop` per app and thread, `registered` what
`asyncio.get_event_loop()` finds, `running` the loop that runs and for whom.
`Handler` is `handler()` up to `run_until_complete`: the kept loop, a new one if
there is none or it was closed (`ThreadLoop`), registered in any case
(`Register`). `AsyncHandler` runs on a loop of somebody else.
`ForeignRun/ForeignRunEnds` are `asyncio.run`, `ForeignSet` and `ForeignClose`
whatever code replaces or closes the registered loop, even an app's own, and
`ConsumerRun` an adapter that uses it. Loops are numbers, new ones up to
`MaxLoops`.

### MiddlewareStack

`phase`, `entered`, `exc`, `err` are the locals of the two calls of
`_run_middleware_stack`; `hook`, `seen`, `first` and `ran` are history: no action
reads them. Each hook and the handler may complete, raise an error,
raise `SkipMessage` or be cancelled. A cancelled `after` hook leaves the loop of its
stack (phase `aborted`): the hooks still due do not run and the cancellation replaces
the failure in flight. The properties say how far that damage goes. What the hooks
do is abstract here.

### Idempotency

Copies of messages, each with a key or none; `entry` is the store with the ticks
each entry has left, so `expires_at > now` is `left > 0`. `Acquire`,
`SkipDuplicate`, `RunWithoutKey` are the branches of `before` after which the
delivery goes on; a duplicate in progress and, with `require_key`, a missing key
fail the record and leave every variable as it was, so they are stutters.
`HandlerOk/Fails/Cancelled` end the rest of the stack, `MarkComplete` and `Forget`
are `after`, `AcquireLost` and `AfterLost` are store calls that raise, `Kill` is a
sandbox that dies or a batch that fails as a whole, `Delete` is SQS acting on the
reply. `voided` remembers the copies whose handler was cancelled: `after` is called with
no error and completes the key although nothing was processed, and `NoLostMessage` counts
them as the one exception. The Lambda deadline starts with the claim. In the code
it starts earlier, so the model lets a delivery run longer than the code does.

### RecordState

A record carries a chain of layers with their arguments: the application's
middlewares and the route's, in order. `state` is `ctx.state`, a function from names to
values; `TimingBefore/After`, `LoggingBefore/After`, `TracingBefore`,
`IdempotencyKeyless`, `IdempotencyBefore/After` are the hooks, each reading and writing
the names the code does. `RecordEnds` is the verdict, `Redeliver` a new delivery with a
new `Context`. `began`, `took`, `logged` and `holder` are history. The store here is
three states per key: leases do not run out and workers do not die, because
`Idempotency` has that, and what is asked here is who settles whose claim.

`AllAgree` is the condition under which several idempotency layers are safe: those of
one record resolve the same key, or none. `ClaimsReleased` holds under it
(`ClaimsSettled`) and fails without (run `record_crossed`).

### Routing

A message is the value each router's discriminator finds in it; payload paths and
the `base_event_class` check, which change no state, are left out. `RouteModel`
includes the ValueError in the middle of the variant loop, which leaves a class registered
with part of its variants. A middleware list is the name of its router. A cycle
of subrouters is cut at the first router entered twice: there the code sees the
same message again and recurses until RecursionError.

## 3. Runs

The eight `pass` runs terminate without an error; each of the four `violation` runs
shows a disagreement between the code and what the repository says of it.

| Run | Question | Bounds | States |
|---|---|---|---|
| `batch` | all three loops, partial replies on and off: exact reply, order, isolation, a hanging group holds up no other, the contract | 4 records, 2 groups, ids present or missing, 2 slots | 328 thousand |
| `batch_faults` | cancellations, raising loggers, malformed elements: what is lost stays in its group, the semaphore bounds what is in flight, no leftover task, an answer | 3 records of all kinds, 2 groups | 391 thousand |
| `consumer` | order, at-least-once, dead-lettering and needless redelivery over several deliveries; the queue drains | 3 messages, 2 groups, 2 invocations, 2 deliveries, all loops, kills at any time | 1.3 million |
| `stack` | cleanup is balanced and nested, failures neither masked nor lost, `after` told the failure, the handler inside all middlewares | up to 3 + 3 middlewares, errors, skips and cancellations in every hook | 2.7 thousand |
| `idem` | exclusive claims, one run per window and no skip outside one, no skip loses a message, all is deleted once faults stop | 3 copies on one key or none, 2 faults, every outcome | 617 thousand |
| `record_state` | durations are the timer's and the delivery's own; claims are ended by their delivery and by no other | 2 records at once, 2 deliveries each, every sampled chain, clock to 2 | 2.2 million |
| `event_loop` | one thread per loop, batches on open loops, an open loop left behind | 2 apps, 2 threads, 4 loops | 76 thousand |
| `routing` | which handlers are shadowed, no dangling variant, no route missed, path and chain | 3 routers, one of which does not inherit, 3 values, 2 classes, every sequence of 3 registrations, every message | 2.6 million |
| `batch_cancelled` | violation: a cancelled handler is acknowledged | 2 records | |
| `batch_poison` | violation: one element that is no object fails the batch | 2 records | |
| `record_crossed` | violation: a claim is left behind by two layers with different keys | as `record_state` | |
| `routing_default` | violation: a default of the app shadows the included routers | as `routing` | |

Why these bounds are enough.

* A failure in a group needs a record before it, one after it and another group: four
  records and two groups. The semaphore bites with two slots and three records.
* Overtaking across deliveries needs a failed message, its tail and an invocation that
  could take the tail: three messages and two invocations. Two deliveries give a
  message that fails, comes back and is dead-lettered.
* Order across stacks needs two middlewares in one and one in the other.
* A stale claim that is expired, taken by a second delivery and then released by
  the first needs two copies; the third tells whether the second's claim was hurt.
  `InProgressTtl` is one tick above `RuntimeBound`: the tightest configuration the
  code's docstring allows.
* A layer that hurts a claim needs the holder and the record that was refused: two
  records, two keys, two stores. A duration that is someone else's needs a tick
  between two starts and one after: `MaxClock` is 2.
* A loop used by two needs two apps and two threads; a kept loop that was closed and
  replaced, four loops.
* A registration conflict takes two registrations on one router, a declining
  subrouter or included router two or three.

No state constraint is used. Every bound is a constant: `MaxBatch`, `N`, `MaxReceive`,
`MaxFaults`, `MaxLoops`, `MaxClock`, `MaxDeliveries`, `MaxRoutes`, `MaxSize` and the
finite sets. `MaxReceive` is not only a bound: it is the redrive policy. Deadlock is
checked everywhere but in `event_loop`, where a process with all `MaxLoops` loops
closed has no step left. `RecordState` is reduced by the symmetry of the two records;
it checks no liveness.

### Fairness

* `batch_faults` (`FairSpec`): the event loop runs every ready coroutine, and every
  handler ends, at the latest by the Lambda timeout. `Responds` needs both.
  `batch` assumes neither (`HangSpec`: only that `_handle_event` is entered):
  `GroupsDoNotWait` says that a group whose own steps are taken settles, whatever
  hangs elsewhere.
* `idem`: SQS redelivers what is not deleted, hooks and handlers end, clocks
  advance. No fairness on kills and store faults, whose number `MaxFaults` bounds:
  `EventuallyDeleted` is about what happens once failures stop.
* `consumer`: SQS goes on delivering and dead-lettering, invocations go on settling
  and answering (`WF(Progress)`, one condition on their disjunction). Kills are not
  part of it: they need not happen, and each uses up a delivery.
* `event_loop`, `record_state`, `routing`, `stack`: none, as they check safety only.

## 4. Proofs

TLAPS (SMT, Zenon, LS4) checks every step; there is no induction over data
and no recursive operator in these modules. Each `_proofs` module has an inductive
invariant `IInv`, a lemma per action that the action keeps it, and the theorems that
follow. The assumptions are the named `ASSUME`s of the modules, which TLC evaluates
in the runs.

`BatchProcessing_proofs`. The safety invariants are not inductive: order and the
exact reply depend on where each loop stands. `IInv` adds
`SemInv` (every slot is free or held by one running record), `IsolateInv` (in a group
everything before the cursor was processed, everything after it is untouched,
and the task ended as the record at the cursor did), `HaltInv` (the same for
`pos`), `FailuresInv` and `ReplyInv`. From it, for every batch size, set
of groups and configuration:

* `TypeCorrect`, `ConcurrencyIsBounded`, `NoOrphanTask`, `FifoOrder`,
  `ProcessedNotRedone`, `LossIsConfined`, cancelled handlers and raising loggers
  included;
* `NothingSilentlyAcked`, `IndependentGroups` and `EngineKeepsContract` (the engine
  implements `BatchContract`) under `Reliable`: handlers end by returning or by raising an
  Exception and the logger does not raise. Without `Reliable` the first is false,
  as the run `batch_cancelled` shows;
* `FailsAsAWhole`, under `Reliable`: with partial replies, `handler()` raises exactly on a
  batch with an element that is read before any record is guarded. Hence
  `RecordsFailAlone`: on batches of JSON objects no record fails the batch;
* `EveryStepWorks`: a step starts or ends a record, ends a group, enters the loop or
  answers, and undoes none of these. `NeverStuck`: until the answer there is a step to
  take, if `MaxConcurrent > 0`. Together they are what `Responds` needs besides the
  fairness;
* `GroupsGoOn`: a group that runs has a step of its own, whatever hangs elsewhere.
  `GroupsShareNothing`: nothing but that group's task moves its cursor and its records.
  Together they are what `GroupsDoNotWait` needs besides the fairness.

`Consumer_proofs`. What one batch shows of order becomes order across deliveries by
`FrontInv`: whatever an invocation holds of a FIFO group is the front of what is left
of it. `StaysInv` and `CauseInv` say where a processed message is and whom a message
that came back can blame. Hence `OrderAcrossDeliveries`, `DeletedWasProcessed`, and, for
partial replies, `ProcessedOnce` and `DeadLettersHaveCause`, for any number of messages,
groups, invocations and deliveries. `EveryStepWorks` and `NeverStuck` are the two halves of
`Drained` that need no fairness: a message takes at most three steps per delivery, kills
included, and while one is left SQS or an invocation can go on. The second is an argument
about the earliest message that is left (`EarliestExists`, from the well-foundedness of
`<`): nothing holds that one back.

`InvocationsKeepContract` reads each worker's batch as an instance of `BatchContract`
(`Engine(w)`): `Settle` is the contract's, `Reply` comes when the contract can reply and
SQS keeps exactly what the contract leaves unprocessed, a kill is its `Refuse`, and no
step of SQS or of another invocation shows. The model waits for a *failed* predecessor
where the contract waits for an unprocessed one; `InvocationsAnswerInTime` shows that the
two are the same, since the earliest record that holds another back has failed.

`Idempotency_proofs`. `LeaseInv`: whoever holds a key holds a lease that ends after
its own deadline. This is where `LeaseAssumption` (`InProgressTtl > RuntimeBound`,
the docstring's "must exceed the worst-case handler runtime") enters: a live
entry cannot be acquired, so claims are exclusive, and a `forget` or
`mark_complete` that comes late finds its own claim still there. `WindowInv`:
a completion is in the store for exactly its dedup window. `DoneInv`: behind a copy on
its way out, and behind a live completion, is a copy that was processed or cancelled. From
these, for any number of copies, keys, kills and lost store calls: `ClaimsAreExclusive`,
`HandledOncePerWindow`, `SkippedOnlyInWindow`, `SkippingLosesNothing`, and `ReliableHandlersLoseNothing` if no
handler is cancelled. For `EventuallyDeleted`: `EveryStepAdvances` (a step is a tick, one
of the faults, or brings one copy nearer to its deletion and moves no other) and
`AbandonedClaimsRunOut` (a claim that nobody holds any more only ages, by one with each
tick, until its key is free).

`RecordState_proofs`. Under `AllAgree`, claims in progress and layers that entered with
a key correspond one to one: `Claims` (such a layer's claim is there and is its
record's), `Distinct` (no two layers of a record have the same one) and `Backed` (every
claim in progress belongs to such a layer). `Flagged` covers the layer that enters without
a key and still finds the acquired flag. Hence `ClaimsEnd` and `OnlyHolderEnds` for any
chains, records and stores, and `RepeatedLayersRefuse`: a second layer on the store and
key of one before it is never entered, so such a record never reaches its handler.

`RecordValues_proofs` is about what layers read from each other. `NamesApart` is the
condition: nothing but a TimingMiddleware writes a start time or `duration_ms`, and no name
is both; every chain of the runs satisfies it. `StartKept` says whose start time is under a
name now, `DurationKept` whose duration, `Extent` which timers are running and which are
over. Hence `DurationsAreOwn` and `LogsNearestDuration`, over any number of deliveries.

`EventLoop_proofs`. `Created` and `Registration` (a thread's registered loop is the one its
batch runs on) make `ThreadsApart`, `BatchesOnOpenLoops` and `LoopLeftRegistered`
inductive, for any number of apps, threads and loops. Two action properties
follow: `ThreadsDoNotDisturb` (a step of one thread closes no loop of another and changes
nothing it may touch; since anybody may close what he finds registered, this rests on
`LoopPerThread`) and `LoopKeptUntilClosed` (an app's loop is replaced only by its own
`handler()` on that thread, only after it was closed, and by a loop nobody has).

`MiddlewareStack_proofs`. `Position` says how the two calls are nested, `Hooks` and
`Opened` which hooks have run, `Failure` where the first failure is held, `Heard` what
the after hooks were told. Hence every safety property of the module, for stacks of any
size: `CleanupBalanced`, `NestingKept`, `NeverMasked`, `ToldTheFailure`, `RunsInside`.
`EveryStepWorks` gives a variant, `Work`, that every step lowers from at most
`4 * MaxSize + 7`; `NeverStuck` says that until the record is done one can be taken. So a
record ends after a bounded number of steps if its hooks and its handler do.

`Routing_proofs`. `Registries` is inductive by itself; `Trail` ties `path` and `chain` to
the routers entered while a message is dispatched, and `chain` to the ones that inherit.
Hence `ShadowingIsConfined`, `LookupNeverFails`, `PathIsOwn`, `MiddlewaresAreOwn`, for any
routers, classes and values. `ShadowingIsConfined` says exactly which key-value handlers
lose their messages; the invariant behind it, `OneStylePerValue`, is what the ValueErrors of
`route()` keep, and covers primary types only.

Which routers claim a message is a least fixed point. `Claims` has it without recursion, as
the complement of the sets that decline together: no member has a route of its own, and
each passes the message on to nobody or to a member. So a proof that nothing was missed has
to exhibit such a set. `Search`, the invariant of the walk, keeps one: every top-level
router is still queued, being asked, or in one, and when a subrouter declines, the routers
of the walk above it join. Hence `NoRouteMissed`, in any graph of routers, and with
`InTurn` (the routers asked so far are a prefix of the main and the included ones)
`FirstClaimantHandles`.

Only model-checked are the liveness properties (`GroupsDoNotWait`, `Responds`,
`EventuallyDeleted`, `Drained`): reasoning with fairness and ENABLED is out of the prover's
reach. What is proved of each is its safety half, named above: that no
step undoes work and, for all but `EventuallyDeleted`, that there is always one to take.

## 5. Disagreements found

Shown by a run (`findings` in `PROJECT.json`):

* a cancelled handler is acknowledged (`processing.py:236`, `batch_cancelled`);
* an element that is not an object fails the batch (`app.py:131`, `batch_poison`; that
  nothing else does is `FailsAsAWhole`);
* two `IdempotencyMiddleware`s on a record that resolve different keys settle each other's
  claims (`middleware/idempotency.py:177`, `record_crossed`);
* the app's default handler runs before the included routers (`routing/router.py:343`,
  `routing_default`).

Met while modelling, and part of the models (the properties say how far they go):

* A logger that raises in the `except` block of `process_group` loses the group's
  list, and `_handle_fifo_event` drops it: the group is acknowledged. `LossConfined`
  shows that no other group is.
* A cancelled handler reaches `after(error=None)` (`base.py:106`), which makes
  `IdempotencyMiddleware` complete the key: duplicates are skipped though nothing was
  processed (`voided` in `Idempotency`).
* A cancelled `after` hook skips the remaining ones of its stack (`base.py:112-115`)
  and replaces the failure in flight (`aborted` in `MiddlewareStack`).
* Two idempotency layers on one store and one key: the inner one finds the outer one's
  claim and the record fails at every delivery (`RepeatedLayersRefuse`). The chain is
  among those `record_state` checks; the outer claim is released each time.
* The blocked tail of a poison message is received again each time without being tried
  and may be dead-lettered with it (`DeadLetterCause` allows it: the tail must follow a
  message that failed).
* `traceparent` and `tracestate` are looked up separately (`tracing.py:97`): one of an
  attribute can be paired with one of the payload (`TracingBefore`; no property excludes it,
  as no text of the repository does).
* `docs/concepts/routing.md:124` says that "a shadowed, unreachable handler cannot ship
  silently". Two kinds can. `route("OrderCreated")` on a router with a flexible class that
  has this variant is accepted in either order, as `router.py:106` and `147` compare primary
  types only, and `_find_pydantic_route` (204-206) then gives its messages to the class. And
  a key-value handler on a value that has a subrouter is accepted in either order and never
  asked, since 359 comes before 375. `ShadowingConfined` says that these two are all.

Met while reading:

* `docs/troubleshooting.md:86` says halt_batch re-reports records that already
  succeeded; the code, like `docs/guide/fifo-failure-modes.md:66`, reports the failed
  record and those after it (`NothingRedone` in `batch`).
* `docs/guide/fifo-failure-modes.md:66` and `docs/concepts/fifo-ordering.md:71` say no
  idempotency middleware ships.
* `docs/guide/routers-and-defaults.md:127` says a subrouter built with
  `inherit_middlewares=False` runs only its own middlewares; `router.py:360` reads
  the parent's flag (`DispatchNested`).
* A LoggingMiddleware on its default logger fails every FIFO record: the debug line
  of `_handle_record` hands a dataclass to `json.dumps` (`processing.py:113`).

## 6. Not modelled

* `max_concurrent_messages=0`, which stops a standard batch at once (`NeverStuck` shows that
  no other value does), and the growth of
  `InMemoryIdempotencyStore`, which keeps expired entries: both are plain, and no
  interleaving adds to them.
* Tasks that a handler leaves behind on the kept loop: user code.
  `NothingLeftRunning` shows that FastSQS leaves none.
* Leases and dead workers in `RecordState`; several layers per record in `Idempotency`.
  Each module has what the other leaves out.
* In `Consumer`, the ways an invocation can lose a record (`batch_cancelled`): it stands on
  the contract, which the engine keeps under `Reliable`.
* The text of logs, payload validation by pydantic, dependency injection
  (`utils.py`), the event envelopes, attribute access and pickling of `State`: no state
  and no control flow beyond raising, which the models have as a handler or a record
  that fails.
* The testing client and the examples: not part of a deployment.

## 7. Plan

1. `RecordState` with the leases and kills of `Idempotency`: whether `AllAgree` and the
   lease assumption together still give exclusive claims.
2. `Consumer` over an engine that loses records (`LossConfined` in place of the exact
   reply): what of order and of `NothingLost` remains.
3. Theorems about `BatchContract` itself, so that `Consumer` can stand on them: a reply never
   leaves out a record that something unprocessed precedes.
4. `Idempotency` as an implementation of an abstract leased claim: acquire, complete,
   release, expire.
