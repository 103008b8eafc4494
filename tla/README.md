# rboto: a verification development

rboto is an asynchronous AWS SDK for Python. Each service is a native extension
(Rust, PyO3, Tokio, the AWS SDK for Rust) rendered from templates and a small
pure-Python package. This directory holds TLA+ modules that model the parts of it
where threads, event loops, cancellation and failure meet, the TLC configurations
that check them on small instances, and theorems proved with TLAPS for every value
of the constants. Paths below are relative to the repository.

## 1. Inventory

### Components, their state and their operations

| Component | Code | State | Operations |
|---|---|---|---|
| Resource lifecycle | `crates/rboto-core/src/lifecycle.rs` | the mutex-protected pair (closed, active leases), a `Notify`, the slot `Option<T>`, the `access` mutex | `enter`, `close`, `wait_for`, `Lease::run`, `acquire`, `access`, `take`, `restore`, `start_close`, `aclose` |
| Native client | `crates/rboto-sagemaker-runtime-http2/src/{lib,generated}.rs`, `codegen/.../templates/{lib,generated}.rs.j2` | a `ManagedResource<Arc<ClientState>>`, a `OnceCell` with the SDK client | every service operation, `aclose`, entering a context |
| Response streams | the same crate, `crates/rboto-core/src/stream.rs` | a `ManagedResource` holding the native body or event receiver | `__anext__`, `read`, `aclose`, entering a context |
| Request streams | `crates/rboto-core/src/{async_iter,byte_stream,event_stream}.rs`, `packages/rboto/src/rboto/_streams.py` | the unfold's `done`, the declared length that remains, the drop guard, `_EventPoll._task` and `_cancelled` | polling, `receive`, `cancel`, dropping |
| Runtime policy | `packages/rboto/src/rboto/runtime.py`, `crates/rboto-core/src/runtime.rs` | `_configured`, `_frozen`; per extension `RUNTIME`, `REGISTERED` | `configure_runtime`, `_freeze_worker_threads`, `ensure_runtime` |
| Waiters | `packages/rboto/src/rboto/_waiters.py`, `waiters.py` | attempts, last attempt, deadline | `wait` |
| Paginators | `packages/rboto/src/rboto/_pagination.py` | the request, the previous tokens, the page the consumer holds | `paginate`: ask, answer, resume, end |
| Interceptor chain | `packages/rboto/src/rboto/interceptors.py` | per dispatch: its task, whether it is active, whether its continuation is used; the operation's metadata and native output | `invoke`, `dispatch`, the continuations |
| Operation observation | `crates/rboto-core/src/observation.rs` | the attempt record of one operation (count, start, response, bounded list), the dictionary it is published into | the SDK interceptor's hooks, publication |
| Logging, telemetry | `packages/rboto/src/rboto/{logging,_observability,_telemetry}.py`, `integrations/opentelemetry.py` | the process-wide observer; handler, levels and interceptor of logging; the trace in each task's context | `configure_logging`, `set_telemetry`, the two observers of an operation |
| Configuration, sessions | `crates/rboto-core/src/config.rs`, `config.py`, `session.py` | immutable settings | resolution |
| Errors, values | `crates/rboto-core/src/{error,input_error,document}.rs`, `exceptions.py`, `_conversion.py` | none | classification, conversion |
| Code generator | `codegen/` | none at run time | renders the crates and packages |

### How they interact

A Python call enters a generated operation: on the caller's thread it *acquires*
the client (a lease, then a clone of the state), converts its parameters, and
spawns a Tokio task whose future runs under `Lease::run`, a `select!` of closure
and work. The bridge (`pyo3-async-runtimes`) turns the task into an asyncio future;
cancelling that future reaches the task the next time its poll is pending. The
first operation of a client initializes the shared SDK client; the first of an
extension starts that extension's Tokio runtime with the policy all extensions
share. A response body becomes a stream, a second kind of managed resource, which
outlives its client. A request body goes the other way: a Tokio worker polls the
caller's async iterator through a task on the caller's loop. Waiters and
paginators are Python loops over operations. Around each operation lie, from the
outside in, telemetry, logging and the application's middleware; the native call
writes a record of its attempts that the innermost Python frame turns into metadata.

### What is hard, and what has to be right

- **Closing** (threads, polls and wake-ups interleave). `aclose()` must be
  answered without waiting for the network, exactly when no admitted work is left;
  no wake-up may be lost between testing a predicate and sleeping; the work must be
  dropped before the lease that covers it; nothing may be admitted, or put back
  into the slot, behind closure's back.
- **Cancellation** (at every suspension). A cancelled call frees its lease and its
  resource; a cancelled advance leaves its stream usable; a cancelled `read()` does
  not; a cancelled initializer hands its permit on.
- **Streams** (several consumers). One owner of the native body; no chunk twice; no
  premature end.
- **Request streams** (two schedulers). One advance of the caller's iterator at a
  time, never ahead of the consumer, never after a failure; a dropped poll is
  cancelled on its own loop even if it was dropped before it existed.
- **Runtime policy** (threads, failures). All pools agree; what was accepted is
  used; a failed initialization blocks nobody.
- **Waiters** (a deadline, a caller's cancel and an answer race). Who ends the wait.
- **Paginators** (objects shared with consumer and middleware). Pages in order, each
  once, and an end, whatever others do to the cursors they hold.
- **Middleware** (continuations are values that may be kept and shared). A native
  call is made once at most, inside all of its middleware, in the caller's task.
- **Observation** (a native side that outlives a cancelled call, a bounded record).
  Metadata never claims what did not happen, and says when it is incomplete.
- **Logging, telemetry** (settings change on other threads, contexts nest). The trace
  found is put back; one record and one count for each operation; an operation ends
  with the observer it began with.

`PROJECT.json` lists each hazard at its line with the properties that cover it.

## 2. Modules

```
ClosableResource                     what a closable resource promises
Lifecycle <- ManagedResource <- LeasedCall <- ClientOps  <- MCClientOps
                                    |      <- ByteStream <- MCByteStream
                                    '-- INSTANCE ClosableResource
PullStream <- INSTANCE - RequestStream        Listing <- INSTANCE - Paginator
RuntimePolicy     Waiter <- MCWaiter     Middleware     Observers <- MCObservers

LeasedCall_proofs <- ClientOps_proofs, ByteStream_proofs
Waiter, Paginator <- Loops_proofs
RequestStream_proofs  RuntimePolicy_proofs  Middleware_proofs  Observers_proofs
```

`A <- B` reads: B extends A. An MC module only gives values to constants.

**Lifecycle** models `Lifecycle`, `Lease` and the waiting on the `Notify`. `closed`
and `active` are the fields behind the mutex; `enrolled` and `woken` are the
`Notified` futures the `Notify` knows and those it has woken; `pc` is the position
of every task and closer. `enter`, dropping a lease and marking closed are one
critical section each; `notify_waiters` after marking is a step of its own, as in
the code. `wait_for` is four steps (enrol, test true, test false, go round again),
so anything can happen between enrolling and testing. Dropping a lease and notifying
is one step, because `Drop for Lease` notifies while it holds the state's mutex.

**ManagedResource** adds the slot and `aclose()`: mark, notify, take, drop, idle
test, wait. `aclose()` runs its native part with the interpreter released, so
several closers interleave at every step. `owners` is whoever holds the value.

**LeasedCall** is `Lease::run` inside the bridge: the polls of the closed half and of
the call's own future, suspension, wake-up, cancellation that is only seen after a
pending poll, and the drop order (work first, lease last). It has the lease
invariant and the refinement mapping to `ClosableResource`.

**ClientOps** is a generated operation on top of it: `acquire` in its two critical
sections, a conversion that may fail, and the future: the shared `OnceCell` with its
permit, then the request. What the service and configuration loading do is
`Answer`.

**ByteStream** is a response stream: calls queue on the FIFO `access` mutex, take the
native body, receive numbered chunks, and put the body back (`Restore`, which tests
closure under the slot lock, then `RestoreStore`). `read()` leaves the mutex as soon
as it has the body. A call begins its lease in the first poll of its task, later than
the Python call. Event receivers are the same code without `read()`.

**RequestStream** has the native side (unfold, wrappers, drop guard) and the event
loop, a FIFO queue of callbacks: create the poll's task, start it, resume it, cancel
it. A cancellation can therefore come before the task exists, before it starts,
while it waits, or after it has ended. A resumed task may await again (`ResumeWaits`),
also when cancelled: the iterator may await in its `finally`, or suppress the
cancellation; and if what it awaits is a task of its own, that one is cancelled in its
place. `told` records that the cancellation has reached the iterator. `TakeItem` keeps the saturating remaining
length. Items are counted, not represented. **PullStream** is what it promises: an
iterator that is asked when the consumer asks, once for each ask, and never after an
end or a failure. The refinement mapping reads the consumer's part from `body`, the
end from the replies, and an ask from the polls that have neither a reply nor been
dropped early.

**RuntimePolicy** has threads that call `configure_runtime` or an operation of one of
several extensions. The policy's functions are atomic (a lock); initializing a
runtime is exclusive per extension and releases the interpreter, so freezing,
building and registering are separate steps, and freezing or building may fail.

**Waiter** is the polling loop as one asyncio task: between two suspensions it runs
alone, but the clock moves at any time. The deadline's timer and the caller's cancel
both cancel the task; the way `asyncio.timeout_at` tells them apart (the count of
cancellation requests) is modelled. The awaited operation may answer, fail, raise a
timeout of its own, never yield, or suppress cancellation. Acceptors are evaluated in
order; a path expression is abstracted to the value of one field.

**Middleware** is `invoke()` for one operation and the attempt record behind it. A
middleware is the user's code: while it is the innermost frame of its task it may use
its continuation, hand it to another task, keep it, return what it likes, raise or be
cancelled. A dispatch pushes a frame, an end pops it, so nesting is something the
continuation's three tests must bring about. The native call is a process of its own:
attempts begin and end, may time out between the hooks, and go on after a
cancellation that has already ended the await. `Publish` and `NativeAwaitEnds` race.

**Paginator** is the pagination loop with a service behind it. The service is any
assignment of distinct tokens to pages and any way to mark the last page, chosen in
`Init`. An answer passes through middleware before the loop has it (`Answer`, then
`Yield`). From the answer on, middleware may change the cursors in the request, which
until `Yield` the loop's `following` shares; the consumer may change those of the page
it has. What middleware changes before the service has answered is another request,
and the application's own. **Listing** is what the consumer sees: ask, one page, ask, ..., the end.

**Observers** is the life of an operation between its two observers. Telemetry is one
assignment; logging is written part by part under a lock (`WritePart`) that
operations do not take, so an operation may read it half written. Operations nest in
a task, tasks are created inside operations and copy the context, exporters and
handlers may fail. `undisturbed` is history: the calls whose logging was not
reconfigured meanwhile.

Definitions whose comment begins with "Faulty" are not part of any specification:
each is a plausible defect that stands in for one real definition to show that a
property notices it. `PROJECT.json` pairs them and maps every other definition to its
lines.

## 3. Runs

| Run | Instance | Distinct states | What it shows |
|---|---|---|---|
| `ClientOps_safety` | 3 operations, 2 closers | 1 863 939 (symmetry) | the count is the number of leases; no wake-up is lost; an answered `aclose()` means released |
| `ClientOps_live` | 2 operations, 1 closer | 27 494 | types and the permit; closing and cancelling end without the network; the contract is implemented, fairness included; if the network answers, every operation ends |
| `ByteStream_safety` | 2 advances, 1 read, 1 closer, 2 chunks | 1 532 593 (symmetry) | one owner, no resurrection, no premature end, chunks handed out once, what cancellation leaves |
| `ByteStream_live` | 1 advance, 1 read, 1 closer, 2 chunks | 50 482 | closing and cancelling never wait for the body; the same contract; if the body progresses, every call ends |
| `ByteStream_read_race` | 1 read, 1 closer | violation | finding 1 |
| `ByteStream_double_close` | 1 read, 2 closers | violation | finding 2 |
| `RequestStream` | 5 polls, length 6, chunks of 0, 1, 4 | 1 036 | the pull stream is implemented; what an early drop leaves alone; a dropped poll is gone in the end, or its iterator has been given the cancellation |
| `RuntimePolicy` | 2 threads, 2 extensions, counts 2, 5; override unset, 3 or malformed | 8 140 | one policy, honoured; calls return although every initialization may fail |
| `Waiter` | 3 polls, delay 1, deadlines 1, 3, none, clock to 5 | 3 024 | who ends the wait; the deadline binds |
| `Middleware` | 3 middleware, 2 tasks, 4 attempts of which 2 are kept | 2 050 | the chain nests; at most one native call, inside it; honest metadata |
| `Paginator` | 2 token fields, 2 values, 3 pages, every service | 513 304 | the listing is implemented; a consumer that asks on reaches its end |
| `Observers` | 2 operations, 2 tasks, 2 threads, 2 configuration calls | 604 694 (symmetry) | contexts restored, one record, one count, no mixed settings |

**Findings.** (1) `docs/guides/lifecycle.md` says that a `read()` pending at closure
raises `StreamClosedError`. A `read()` called before `aclose()` whose task is first
polled after it, or that finds the slot emptied, returns an empty body instead.
(2) The guide says that closing more than once waits for the same cleanup. A second
`aclose()` from another thread may be answered while the first still drops the value
it took, since that drop is not covered by a lease. Both are divergences between
guide and code; nothing else in the runs depends on them. `AckMeansReleased` states
what does hold of an answer: no *operation* owns the resource any more.

### Bounds

The behaviour depends on relations between few actors. Two closers are enough for
one to overtake the other, and three operations for one that holds the permit, one
that waits for it and one at another stage. On a stream, two advances and one read
give every pair of consumers with a third behind them in the mutex queue, and two
chunks distinguish first, last and past the end. Five polls of a request stream
drive the declared length of 6 below zero and give every order of drop and callback
around one poll. Two threads and two extensions give contention on one cell and
agreement across two; three different sources of the worker count tell them apart.
Three polls of a waiter are a first, a middle and a last one; the clock's bound is
past the largest deadline, and the sleep's end is capped by it. Three middleware are a
first, a middle and a last one, and four attempts with two kept pass the record's
limit. Three pages of two tokens give a token that is set, dropped and set again. Two
operations, one whose service has a level of its own and one whose client has an
observer of its own, nest or run apart, and two configuration calls overlap once. The
bounds are constants (`MaxPolls`, `MaxAttempts`, `MaxTime`, `Length`, `N`, `Last`,
`MaxChanges`); the theorems below hold for all values of them.

Deadlock is checked in every run. A system may stop only where its `Finished`
disjunct says, when everything called has ended; threads of `RuntimePolicy` can
always make another call.

### Fairness

- Lifecycle, clients, streams: weak fairness of each task's own steps (a Tokio worker
  runs a polled task until it suspends), of waking a task whose waker was called
  (closure, cancellation, the mutex or the permit handed over), and of a closer's
  steps (a native call is finished by its thread). The answers of the network, the
  calls themselves and cancellation are not fair. `CallsEndIfAnswered` alone assumes,
  as the premise of the property, that a request which is polled again and again is
  answered: weak fairness of wake-ups and strong fairness of the answer, since a task
  leaves and re-enters its poll.
- RequestStream: weak fairness of the event loop, which runs its queue; nothing of
  the caller's iterator or the consumer. So `AbandonedPollIsCancelled` does not promise
  that an iterator lets a cancellation through, only that it gets it.
- RuntimePolicy: strong fairness of a thread inside a call, since waiting for the
  cell is interrupted by other threads that take it; locks are assumed to serve
  their waiters eventually.
- Waiter: weak fairness of the running task and of the clock, strong fairness of a
  due timer, since a call may suspend and resume without end. The operation's
  progress is not fair, nor is the end of a sleep.
- Paginator: none in the specification; `CompletesIfAsked` has as its premise that the
  consumer asks on and the service answers.
- Middleware, Observers: none. What they promise is safety; whether middleware ever
  returns is the application's affair.

## 4. Proofs

Assumptions are those of the modules: the processes are finite and tasks are not
closers (`ProcsAssumption`), `NoTask` is none of them (`NoTaskAssumption`), the calls
of a stream are its tasks (`CallsAssumption`), worker counts are positive
(`PolicyAssumption`), a waiter has at least one poll and non-zero deadlines
(`WaiterAssumption`), a chain has at least one middleware and the caller is a task
(`ChainAssumption`), a list has at least one page and a changed cursor is not a valid
one (`TokensAssumption`), numbers of polls and bytes are naturals
(`BoundsAssumption`), an operation has a service and a choice of observer
(`ObserversAssumption`), and the built-in logging setting and the absent thread are
none of the configured ones (`SettingsAssumption`). TLC evaluates them in the runs.

**Lifecycle, clients, streams.** `LeaseInv` is the invariant of the protocol: the
count is the number of holders, whoever has enrolled is enrolled or woken until it
forgets its `Notified`, a sleeper that is not woken waits for something that has not
happened, an `aclose()` that has begun has closed, an answered one leaves no lease.
`NoLostWakeup` alone is not inductive: it needs that a process between enrolling and
sleeping is still known to the `Notify`. `LeasedCall_proofs` proves that each kind of
move keeps `LeaseInv`, and that each is a step of `ClosableResource` or invisible.
`ClientOps_proofs` and `ByteStream_proofs` reuse these lemmas and add what ties
ownership to position:

- `WorkInv` (clients): a task owns the state exactly while it converts or has an
  undropped future, and has one only under its lease. From it come
  `AckMeansReleased` (`AcknowledgedMeansReleased`) and, with the permit's holder in
  the loading stage, `PermitIsLive`.
- `PlaceInv` and `StoreBeforeClose` (streams): a task owns the body exactly in the
  stages that need it, and while one is storing, no closer has got past the slot.
  The second is the reason why `restore` tests closure under the lock; without it
  `SlotStaysEmpty` is not inductive, and the mutant that drops the test violates it.

- `BodyInv` (streams) adds the content: between the mutex and the slot an
  `__anext__` is at the head of the queue; a spent stream is with no `__anext__`; the
  calls share out the chunks yielded so far. That a call which leaves keeps the order
  of the others is a fact about removing one position of a sequence, so the queue is
  written with `RemoveAt`, which the prover can reason about.

From the refinement alone follows what the contract means after closure: the resource
stays closed, leases only become fewer, and `aclose()` is answered only in a state
without any (`ClosedForGood`; the lemma is about the contract, and both components
inherit it). Theorems: `TypeCorrect`, `CountIsLeases`, `WakeupsArrive`,
`OwnersAreCounted`, `AcknowledgedMeansReleased`, `PermitNeverStranded`,
`ImplementsContractSafety`, `ClosingIsFinal` for clients; `OneOwner`,
`NothingIsResurrected`, `AcknowledgedMeansReleased`, `ImplementsContractSafety`,
`ClosingIsFinal`, `TypeCorrect`, `ReadsAreFinal`, `CancellationKeepsStream`,
`NoPrematureEnd`, `ReadGetsTheRest` for streams.

**RequestStream.** The invariant `Inv` lists what the event loop's queue can be: at
most two callbacks, all of the latest poll, in the few orders of `Shape`, while
every earlier poll has ended with an item (`Others`), and the items produced and not
delivered are the one in flight (`Counts`). Given that, each callback is one step of
`PullStream` or invisible. The same invariant bounds the read-ahead to one item and
the stream's share of the loop's queue to two callbacks (`NeverFarAhead`), and shows
that a poll that is left behind always has a callback in the queue, unless its
iterator has been given the cancellation and awaits on (`AbandonedPollIsServed`), the
safety core of `AbandonedPollIsCancelled`. Theorems:
`EarlyDrop`, `TypeCorrect`, `NeverFarAhead`, `AbandonedPollIsServed`, `Implements`.

**RuntimePolicy.** `PoolsAgree` and `AcceptedIsFrozen` are inductive once it is known
that a thread between freezing and building carries the frozen count
(`BuildsWhatIsFrozen`). Initialization has an invariant of its own (`CellInv`): a
thread is inside an extension's initialization exactly when the extension's cell
names it, and the pool is missing until that thread has built it. So a waiting call
always waits for one thread that is inside (`CallsWaitForWorkers`, the safety core of
`CallsReturn`), and no failure makes a second pool (`PoolsStartOnce`). Theorems:
`TypeCorrect`, `OnePolicy`, `AcceptedMeansUsed`, `PolicyStaysFrozen`,
`CallsWaitForWorkers`, `PoolsStartOnce`.

**Waiter.** `CancellationWins` needs that the task's count is exactly the number of
requests made, the timer's and the caller's (`CountIsRequests`), and that a caller's request is
on its way through a suspended or unwinding task (`CallerIsServed`); `DeadlineIsReal`
needs that a fired timer is past the deadline (`FiredIsReal`). A deadline that has fired is
on its way into the task, or has ended the wait, unless the call suppressed it
(`DeadlineIsServed`, the safety core of `DeadlineBinds`). Theorems: `WaitKeepsTypes`,
`NeverUnreachable`, `LateMeansTimeout`, `TimeoutIsReal`, `CallerWins`,
`FiredDeadlineIsServed`. They are in `Loops_proofs`, with those of the paginator.

**Middleware.** `Nested` is not inductive: it needs that the used continuations are
the first of the chain and that every running middleware is in the caller's task
(`ChainInv`). `MetadataIsHonest` needs that a call awaits the native side at most once
(`CallInv`) and that what is in the dictionary is final when it is there
(`RecordInv`). Theorems: `TypeCorrect`, `ChainNests`, `HonestMetadata`, `SentOnce`.

**Paginator.** Until a call is answered, its request has exactly the tokens of the
page after the one seen last, and `previous` keeps them until the loop has compared; while the consumer has a page, `following` has those of
the next one (`LoopInv`). The changeable objects do not occur in it. That an
iteration which ends has given every page is then proved of `Listing` and carried
over. Theorems: `PagesKeepTheirTypes`, `PagesAreListed`, `EndMeansAllPages`.

**Observers.** None of the four invariants is inductive alone; `IInv` joins them with:

- `LockInv` (logging): only the thread that holds the lock has parts left to write,
  what it has written comes from its one setting, and when nobody writes all parts
  agree. `SettingsAreOne` follows. A call counts as undisturbed only while nobody
  writes, so `LoggedInv` can say that the level it was chosen by is still in force,
  and `RecordedOnce` follows for the records to come.
- `StackInv`: a call is on one stack, once, exactly while it runs, and only the
  innermost call of a stack moves.
- `SpanInv` (contexts): `InForceOf` defines by the spans of a stack which trace is in
  force at a depth, the task's own context if no call below has one; every call with a
  current span has saved what was in force below it (`SavedBelow`), so leaving
  restores it. Entering and leaving only disturb the top of one stack, which the
  lemmas about `InForceOf` isolate. `TraceIsOwn` is the case of full depth, and
  `RecordInv` says that records were written under it.
- `ReportInv`: reports belong to calls that are over, hence a call that is ending has
  none yet.

Theorems: `ObserversKeepTheirTypes`, `TracesAreOwn`, `CompletionIsRecordedOnce`,
`OperationIsReportedOnce`, `SettingsNeverMix`.

**Only model-checked.** Liveness under fairness and all that needs `ENABLED`, which
the prover does not do: the liveness half of the closable resource's contract
(`ImplementsContract`), `CancelEndsWork`, `CallsEndIfAnswered`, `AbandonedPollIsCancelled`,
`CallsReturn`, `DeadlineBinds`, `CompletesIfAsked`. For most of them a theorem states
the safety they rest on: `WakeupsArrive` and `PermitNeverStranded`,
`AbandonedPollIsServed`, `CallsWaitForWorkers`, `FiredDeadlineIsServed`. Every safety
invariant, every action property and every safety refinement that a passing run
checks is proved.

## 5. What is not modelled, and what is abstracted

- tokio's `Notify`, `Mutex` and `OnceCell`, the bridge, `PyOnceLock` and
  `asyncio.timeout_at` are modelled from how this code uses them, not from their own
  code.
- A conversion that fails drops the client's state and the lease inside one native
  call that holds the interpreter lock; it is one step.
- Building a pool may fail; handing the built runtime to the bridge
  (`init_with_runtime`) is taken to succeed, since it fails only when code outside
  `ensure_runtime` has started the bridge's runtime before.
- Entering a closed context reads the flag and changes nothing.
- Bodies given as bytes have no behaviour between calls. A chunk on its way when an
  advance is cancelled may be lost, as documented; no property speaks of it. An event
  that does not convert counts as delivered.
- Generated services are one template rendered thirty-five times with other names and
  fields: the crate for SageMaker Runtime HTTP/2, which has operations, bodies and
  events, stands for all. They make up nearly all lines of the repository, so only a
  small share of its lines is mapped; another crate would repeat the same definitions.
- Evaluating a path expression over a page or an output (waiters, paginators) is
  abstracted to the tokens or the field it yields. A service whose tokens alternate
  for ever is paged for ever, and the guide promises nothing else; the services of
  `Paginator` have distinct tokens.
- Middleware awaits what it calls: it does not start its continuation in a task of
  its own and go on. Resolving a client's chain from settings is a pure function.
- An operation that runs while logging is being reconfigured may see the new default
  level and an old override; `RecordedOnce` speaks of the operations that nothing
  interfered with. The application's own trace provider, the content of records and
  spans, and handlers are left out, which is why logging and telemetry count as partly
  modelled.
- Configuration and errors: pure functions of immutable inputs, without steps to
  interleave.
- Value conversion, formatting, credentials, HTTP transport, the generator,
  benchmarks, examples and release scripts: data and I/O.

## 6. Plan

Done, in this order: `ClosableResource`, `Lifecycle`, `ManagedResource`,
`LeasedCall`, `ClientOps`, `ByteStream` with their proofs (the core), then
`RequestStream`, `RuntimePolicy`, `Waiter`, then `Middleware` with the attempt record,
`Listing` and `Paginator`, `PullStream`, `Observers`, the proofs of all of them, and
the safety cores of the liveness properties.

Left, most important first:

1. The safety core of `CompletesIfAsked` (how many answers are left until the last
   page), and a bound on the steps a cancelled operation has left, for
   `CancelEndsWork`.
2. Pure algorithms as operators against reference definitions: error classification
   (`error.rs`), resolution of configuration (`config.rs`), paths of input errors
   (`input_error.rs`).
3. An event receiver's metadata and conversion failures in `ByteStream`, if a property
   comes to depend on them.
