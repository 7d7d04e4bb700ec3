# A TLA+ model of TyloQuant's request and job scheduling

TyloQuant quantizes large language models and serves them. Its native runtime
(`cpp_runtime/`) executes requests on a device; a Python server (`mfq/server/`)
loads runtimes, queues HTTP requests in front of them and runs background jobs.
This project models the parts in which threads, failures, memory pressure and
back-pressure meet: the native scheduler with its request executor, the
continuous batch under it, the server's request gate, and the server's job
manager. TLC checks the models on small instances; TLAPS proves the main safety
properties of all of them for all instances. Paths below are relative to the
repository.

## 1. Inventory

| Component | State | Operations | What is hard about it | What makes it correct |
|---|---|---|---|---|
| `MfqScheduler` (`cpp_runtime/scheduler`) | mailbox, `stopping_`, active requests and their order, pending reload, health, duplex flag, snapshot; per request an outbox and a `pending` queue | submit, cancel by ID/session/all, control, session, status, reload, shutdown, snapshot; the loop: scan, admit, step, publish, recover, erase, rotate | client threads, the loop thread and consumers interleave; back-pressure; exceptions anywhere in an iteration; deadlines; reload and shutdown with requests in flight | every call answered, every request ends exactly once, nothing lost or reordered, bounded outboxes, no shared session, quiescent reload |
| `RequestExecutor`, `EngineInstance` (`cpp_runtime/engine`) | one coroutine per request, its flags, health, loaded model | admit, cancel, step, status, reload, shutdown | partial failure inside a step, teardown before the terminal event | requests that cannot be batched run alone; teardown first |
| Generation coroutines | prefill offset, output buffers, session cache use | one quantum per step | cancellation between quanta, the tail flushed at the end | usage and terminal come last |
| `ContinuousBatch`, `KvAdmission` | rows being prefilled, decoding, retracted; token-ratio estimate | step, admit, retract, replay, release, recover | memory pressure, failure isolation, progress | each row released once; someone progresses |
| `PagedKvPageAllocator` and bindings | free list, high-water mark, live count | allocate, release | rollback of a partial allocation | no page lost or owned twice |
| Session snapshot cache | snapshots per session, bytes | store, find, fork, close, trim | eviction while storing | budget kept, only true prefixes restored |
| `PagedPrefixCache` | blocks in memory and on disk, pins, writer thread | lookup, store, evict, recover | concurrency, crash between file and index | no corrupt or foreign block is ever restored |
| Transports | sessions, request table, writers | read, dispatch, stream, cancel | slow or vanished clients | every request answered |
| Server request gate (`runtime_pool.py`) | granted slots, ordered waiters | acquire, release, close | cancellation and timeouts at every `await` | slots conserved, priority then FIFO |
| `RuntimePool` | runtimes, leases, maintenance | load, unload, reload, stream | operations overlapping loads and unloads | no request on a retired runtime |
| `JobManager` | stored jobs, tasks, cancel events | submit, cancel, retry, close, start | restart, cancel racing completion | every job ends; none runs twice at once |
| Disk budgets | reserved and used bytes | reserve, evict, reclaim | several owners of one disk | budget kept |
| Metal generation job | a device-owning thread, a queue of four events | start, next, cancel, join | two threads, cancellation while the queue is full | joined before the terminal event |
| Device backends, models, speculative decoding, expert caches | tensors and measured times | numerical operations | numerics | outside this method |
| Quantization, calibration, formats, API, Studio, benchmarks | - | offline tools, conversion, UI | - | outside this method |

Client threads talk to the scheduler through the mailbox (a mutex, a condition
variable and one promise per command) and to a request through its outbox. The
scheduler calls the executor, always from its loop thread. The executor steps
coroutines, whose batched rows are driven by `ContinuousBatch`. The server owns
one gate and one native worker per loaded model.

`PROJECT.json` lists every component with its status, and the hazards with the
line at which each one bites.

## 2. Modules

| Module | Content |
|---|---|
| `RequestExecutor` | `RequestExecutor` and `EngineInstance`: admit, cancel, step, reload, shutdown; a coroutine step is a set of possible outcomes (`Quantum`) |
| `Scheduler` | `MfqScheduler` composed with the executor: client threads, consumers, the loop; the specification, the fairness conditions, the properties and the inductive invariant |
| `SchedulerSnapshot` | layer over `Scheduler`: `snapshot_` and each `refresh_snapshot()` |
| `SchedulerFifo` | `Scheduler` with the arrival order as a history variable, for one run |
| `ContinuousBatch` | rows of one device batch: admission, prefill, decode, retraction, replay, failure; the coroutines that drive them |
| `SlotPool` | what the request gate promises: a pool of slots, priority then arrival |
| `RequestSlotGate` | `_RequestSlotGate`, `_acquire_request_slot()` and the request around them, as asyncio tasks; implements `SlotPool` |
| `JobManager` | `JobManager` and the job rows of the store, one task per job, threads, shutdown, crash, restart |
| `Lists` | `Filter`, what erasing from a list leaves, as a recursive function |
| `MC...` | the small instances for TLC |
| `DataLemmas` | what `Filter` keeps and in which order; sums over finite sets; the induction they need |
| `RequestExecutorProofs`, `SchedulerProofs` | the scheduler with its executor: `IInv` and what follows from it |
| `SchedulerDeliveryProofs` | calls, order, priority, cancellation, and what a consumer reads |
| `SchedulerSnapshotProofs` | the snapshot layer |
| `ContinuousBatchProofs`, `RequestSlotGateProofs`, `JobManagerProofs` | the batch; the gate and its refinement of `SlotPool`; the job manager |

### The scheduler

A *stream* is one submitted request with its outbox. Two streams may carry one
request ID, because a client may reuse the ID of a request that ended; the code
finds requests by ID, so the model looks them up by `IdOf`.

Variables: `mailbox`, `stopping` (under the scheduler's mutex); `call[c]`, what
the client of call `c` knows (`sent` is a thread blocked on its promise);
`commands`, `stop`, `reload`, `healthy`, `duplex`, `eligible`, `blocked`, `todo`
and `pc` are locals of `loop()`; `live` and `order` are `requests_` and
`order_`; `req[r]` is `MfqScheduler::Request` with its `MfqScheduledRequest`;
`got[r]` is what the consumer of `r` has read. The executor's `running`
(`requests_`), `aborted` (`result.cancelled`), `flushed` (`finished_` of the
output), `emitted` (the events of a step) and `engine` (`healthy_`, `loaded_`)
follow `request_executor.h`.

One iteration of `loop()` (`scheduler.cpp:241-440`) is cut into steps where
another thread can get in: `Swap` (the mailbox), one action per command
(`Submit`, `CancelCommand`, `Control`, `Session`, `Status`, `ReloadCommand`),
`BeginScan`, then for each request in order of priority and position `Flush`
(one event at a time, the outbox mutex held: `Locked`) and one of
`ExamineEnding`, `ExamineOngoing`, `AdmitAccepted`, `AdmitDeferred`,
`AdmitRejected`, `AdmitThrows`; `EngineStep`, `PublishNext` per event,
`EndPublish`; the two handlers `Recover` and `RecoverUnknown`; `Erase` (with the
reload and the rotation) and `Exit`. Clients take `Enqueue` and `Shutdown`,
consumers `Wait`, and `Elapse` lets a deadline pass.

Abstractions:

- An event is its stream, its kind, a sequence number and a size. Whatever text
  a value carries, order, loss and size are what the scheduler can get wrong.
- A quantum waits, yields a value, flushes the tail (only requests that update a
  session cache, which are never batched), finishes, or fails, marking the
  engine unhealthy or not. `MaxQuanta` bounds how long a request runs.
- Time is the set of deadlines that have passed. The sleep at the end of an
  iteration is a stuttering step: it never lasts longer than 10 ms and is
  re-checked, so it can delay but not block.
- Failures are the elements of `Faults`: a request or its clean-up fails
  (`request`, `backend`), `ops.execute()` reports a backend failure (`device`),
  `step()` throws (`step`, `step_backend`), `admit()` throws (`admit`,
  `admit_backend`, `admit_unknown`), a control or session call throws
  (`control`, `control_backend`), a load fails (`reload`).
- `exclusive()` of the backends is true only while a duplex session runs, when
  the scheduler has no request; the executor model leaves it out. Reply values,
  `info_` and the length check of request IDs are left out too.
- In `SchedulerSnapshot` the metrics are reduced to the requests whose resources
  were in use when they were captured; a snapshot may be requested at any time, and
  the engine may refuse its metrics. `blind` is a history variable: it was refused,
  or requests were torn down with no event of that step published, since the last
  capture.

### The continuous batch

`ContinuousBatch` opens what `RequestExecutor` abstracts to a quantum of a
batched request. `work[r]` is the `Work` of a row with the fields of its
`BatchRequest` that control depends on; `at` is where `generate_sequence()` is
suspended; `held` is what the device caches for the row, counted in tokens. One
call of `RequestExecutor::step` goes through the stages `decode` or `pack`, then
`resume`: `BeginDecode`, `BeginPrefill` or `BeginNothing` (the choice at
`continuous_batch.h:252-281`, with the refusals `can_admit()` makes on the way),
`Retract`, `Decode`, `DecodeOutOfMemory`, `Pack`, `Prefill`, `PrefillThrows`,
`StepThrows`, then one of `Generate`, `ReportProgress`, `SchedulePrefill`,
`AcceptToken`, `Wait`, `Finish`, `FinishThrows` for every row that is resumed.
The scheduler is reduced to the list it passes: any order, and up to `MaxStalls`
times without a row whose outbox is full.

The device operations are those of `FlashNextBatchOperations`, the only ones
with admission. What a cache of `n` tokens occupies is a constant of the model,
`Room[n]`, of which only monotonicity is assumed: buffers that double
(`cuda_batch_admission.cpp:239-243`, `model.h:1007-1009`), whole preallocations
(225-229) and mapped pages (218-224) are instances. `Copies` says whether a cache
that grows needs the new buffer beside the old one. `Capacity` units exist, and a
decode may leave `Workspace` units behind (a captured graph) that come back only
when they are reclaimed. The new-token ratio is kept in units of `1/Scale`. Left
out: MTP decoding, prefix reuse, the fixed bytes of a request, several arenas
(`FlashNext` names one device, and `can_admit()` drops a budget at the first
refusal, so a partial commit could not be seen), and the operations that only the
Metal backend has.

Four things the model brings out, none ruled out by a document:

- `can_admit()` looks at `admitted` before `failure`, so a row that `recover()`
  stripped between two chunks is prefilled again, and only the device's position
  check (`cuda_batching.cpp:364, 389`) stops it: `Lost`.
- A stalled row that has not taken its sample cannot be retracted, so an eligible
  row may be failed instead.
- A row that was admitted and retracted can be refused when it comes back. Its
  buffer has doubled meanwhile, or it needs room for one token more than it had
  beside its peers; `RefusedOnlyIfTooLarge` says exactly when.
- `retract_one()` inside the handler of a failed decode (`continuous_batch.h:414`)
  is outside every `try`. If it throws after `discard_prefill()`, the row is still
  on the active list and has no cache (`Stripped`); if a later decode lists it,
  `decode_has_capacity()` (`cuda_batch_admission.cpp:272`) dereferences a null
  pointer (`DecodeDies`). An exception out of `can_admit()` before the `try`
  (`BeginThrows`) does no such harm.

### The request gate

Two asyncio tasks serve a request: its own (`task[r]`: where it is suspended) and
the one that runs `acquire()` (`acquire[r]`). An action is what a task does
between two awaits that suspend it; ready tasks run in any order, which covers
the order of asyncio's ready queue. `future[r]` is the future of `_SlotWaiter`;
`must` and `cancelled` are cancellations that a task has not yet seen. That
cancelling a suspended task cancels its future at once while the task itself
runs later is what makes this code hard, and it is modelled (`CancelAcquire`,
`AcquireWake`). The outside world cancels (`CancelTask`), lets time run out
(`Elapse`), changes the settings (`UpdateConcurrency`), reports a smaller batch
(`ApplyBatchCapacity`) or retires the runtime (`Close`).

`UpdateConcurrency` changes the time limits and the length of the queue;
`QueueLimits` are the lengths it may choose. `ApplyBatchCapacity` replaces the gate;
a slot that a lost request still counts goes with the old one.

`SlotPool` is the abstract specification: an owner set, a queue in order of
arrival, and a slot that comes back goes at once to the most urgent, longest
waiting client. Under the mapping, a request owns a slot from the moment its
future is granted, and those who wait are the pending futures in order of
arrival. So sorted insertion, lazy removal of cancelled waiters and the
hand-over of late grants are all invisible: that is `ImplementsPool`.

### The job manager

`status` and `cancel_requested` are columns of the job rows and survive crashes;
everything else is process state. A store call runs in a thread as one
transaction (`Commit`, `Read`), and the task sees its reply later. Cancelling a
task that awaits a call drops the call if no thread has taken it (`MayDrop`), or
leaves it behind to commit at any later time (`MayOutlive`, `late`). A task's
place is the call it awaits, `slot` or `handler`. `close()` is three steps
(`CloseWaits`, `CloseCancels`, `CloseEnds`), `start()` two; `Crash` ends the
process anywhere. `retry()` is modelled for downloads, which it requeues; for
other kinds it submits a new job.

Two history variables say what the code forgets: `abandoned[j]` is why nobody may
be left to record the end of `j` (a cancellation by the user or by `close()`
dropped the last write, a claim committed after its task was gone, a retry took
an old task for the new one), and `overtaken` are the jobs that a write of an
earlier task ended while a later one works. The properties of the job manager hold
for every way a cancellation can treat a store call, with the exceptions these
variables name.

## 3. Runs

Each run asks one question. "States" are distinct states.

| Run | Instance | Properties | States |
|---|---|---|---|
| `SchedulerFlow` | one request that cannot be batched, value sizes 1, 3, 5 with a budget of 4, outbox of 4 events, a deadline, cancel all, status, requests, steps and admissions that fail; fair loop, consumer free to stop | `TypeOK`, `OutboxBounded`, `NothingLost`, `CancelSticks`, `CancelOwnsEnd`, `ShutdownCompletes`, `CallsAnswered` | 410 000 |
| `SchedulerControl` | two requests with the same ID, one batchable, reload, duplex start, control failures, refused metrics, snapshots | `EndsOnce`, `DuplexExclusive`, `OrderMatchesRequests`, `NoCallerAbandoned`, `SnapshotSettled` | 5 250 000 |
| `SchedulerAdmission` | three requests, two batchable and of one session that is closed, the third urgent, two slots, backend failure, values that wait in `pending` | `IInv`, `RunsAlone`, `RunningDistinct`, `PriorityRespected` | 3 750 000 |
| `SchedulerLiveness` | two batchable requests, or one and a control call, reload, backend failure; fair loop, fair consumers | `ReloadQuiescent`, `TeardownFirst`, `RequestsEnd`, `ReloadAnswered` | 264 000 |
| `GateAdmission` | three requests, two slots that may shrink to one, one request that has a time limit and may disconnect, one urgent, one change of settings, retirement | `TypeOK`, `GrantsAccounted`, `CapacityRespected`, `NoSlotLost`, `NoIdleSlot`, `ImplementsPool`, `RequestsLeave` | 1 110 000 |
| `BatchMemory` | three rows whose buffers double and outgrow the device together, or two beside one too long for it; one stall, one fault, one cancellation | `TypeOK`, `HeldByOccupants`, `PositionsMatch`, `WaitersServed`, `RefusedOnlyIfTooLarge`, `RowsEnd` | 60 000 |
| `JobsLifecycle` | a download that is cancelled and retried beside another job, one lane of one, two shutdowns or crashes, calls dropped or late | `TypeOK`, `NotStranded`, `HandlerIsRecorded`, `CloseSettles`, `CancelSurvives`, `JobsEnd` | 342 000 |

`SchedulerFlow` has the case of `mfq_runtime_transport_test.cpp:436-439`: a value
that does not fit goes to `pending`, the terminal queues behind it, nobody reads,
and a shutdown comes. `cancel()` of the finished request (`scheduler.cpp:213-218`)
is then what lets the loop end.

The remaining runs end in a violation, each of a statement in the repository:

- `SchedulerFifo` (`FifoAdmission`). "without them admission stays plain FIFO"
  (`docs/runtime/concurrency.md:64`). The loop rotates `order_` after every
  iteration (`scheduler.cpp:425`), requests still waiting for admission included,
  so of three equal requests a later one can be admitted before an earlier one.
- `SchedulerCancel` (`CancelCompletes`). "Reserve one quantum and a separate terminal
  slot. No wait or consumer acknowledgement occurs on the execution thread"
  (`scheduler.cpp:367-368`), and "a paused consumer bounds native work without
  blocking health or cancellation controls" (`docs/runtime/transport.md:34-35`).
  Slots are reserved for a whole quantum but only half of the bytes
  (`scheduler.cpp:370`), and a cancelled request is run on whatever room there is.
  Its tail goes to `pending`, its terminal queues behind it, and the request stays
  active, holding its session and a reload back, until its consumer reads or it is
  cancelled again. (So the comment at `scheduler.h:68`, that a waiting quantum
  "prevents further execution", is not true of cancelled requests either.) With
  bytes to spare (a limit of 20) TLC finds no violation.
- `GateInterrupted` (`SlotsComeBack`). "hand it to the next waiter instead of losing
  it" (`runtime_pool.py:274`). A request that is cancelled again while
  `_acquire_request_slot()` reaps its `acquire()` leaves the `finally` block before
  `release()`: a slot granted meanwhile is never given back.
- `GateClosed` (`ReleaseMatched`). "request slot released without a matching
  acquire" (`runtime_pool.py:290`). A waiter rejected by `close()` and cancelled in
  the same tick takes the exception in its future for a grant and releases.
- `JobsStranded` (`AlwaysAttended`). `test_cancel_during_claim_cannot_leave_a_job_cancelling`
  (`tests/test_server_jobs.py:394`). A job is cancelled between the commit of its
  claim and the re-read; its task awaits `cancel_job()`, and then `cancel()` goes on
  and cancels the task once more. If every thread of the pool is busy the call is
  dropped and the job stays `CANCELLING` until the service restarts.

### Bounds

`EventLimit` is 4 (the least the constructor accepts), `ByteLimit` 5 of which 1 is
the terminal's reserve: with sizes 1, 3 and 5 values fit, wait for bytes, wait for
slots, and outgrow the outbox. One or two quanta already produce a value, a tail,
the usage and the terminal. Two streams suffice for a reused ID, a shared session
and a reload with requests in flight; admission needs a third. Each call of `Calls`
is made at most once, at any time; of the calls in `Alternatives` (empty but in
`SchedulerLiveness`) only one is made. `SchedulerControl` has no failure that tears
requests down; the exception of `SnapshotSettled` for it was also checked with two
batchable requests of different IDs and step and backend failures (979 000 states).

`BatchMemory`: buffers hold 2, 4 or 8 tokens and the device 7. Prompts of 2, 3 and 1
with limits 3, 4 and 3 outgrow it together, so rows wait, are retracted, replay in
two chunks; a row of 4 tokens that wants a fifth needs a buffer of 8 and is refused
when it comes back; a prompt of 6 can never be admitted. The whole run stays finite
because rows produce at most their limit; stalls and faults are bounded by 1 each,
which lets every fault meet every stage. Cancelled rows are never listed
(`scheduler.cpp:340`) and cost no stall. `CHECK_DEADLOCK FALSE`: the batch stops
when its rows are done.

`GateAdmission`: with two slots shrinking to one and three requests, two may wait
at once, so order and hand-over matter; a queue of 2 that is set to 0 also refuses.
Each request enters once. The request that has a time limit is the one that may be
cancelled, so both can meet: `NoSlotLost` allows the slot that `GateInterrupted` shows to
be lost, and nothing else. The same properties were checked with two cancellable
requests, one of them with a time limit (2.2 million states), and with two that are
cancelled twice (416 000).

`JobsLifecycle`: two jobs suffice for one to wait for the other's slot and for a
job left behind by a restart to meet a new one. Two stops let a recovery be
interrupted again. Any call may be dropped or outlive its task, and the download
may be cancelled before, while and after it is retried, so late writes meet new
handlers. `Slow` is empty, so the wait in `close()` protects every task it saw. The
properties, and `JobInv` of the proofs, were also checked with one job that is
cancelled three times and retried twice, with and without `Slow` (352 000 and
409 000 states), and with two cancellable jobs of which one is `Slow` (1.2 million).
`CHECK_DEADLOCK FALSE`: a service with no job to do may stand still once its bounds
are used up.

### Fairness

`LoopFairness` is weak fairness of the loop thread as a whole: its only wait is
bounded to 10 ms and engine calls return. `ConsumerFairness` is strong fairness of
`wait()`: the loop takes the outbox mutex in every iteration, so a consumer is
enabled again and again rather than continuously. A consumer may stop reading at
any time in the real system, so only `RequestsEnd` and `ReloadAnswered` assume it;
`ShutdownCompletes` and `CallsAnswered` (and `CancelCompletes`, which fails) do
without. No fairness
is assumed of clients, deadlines or failures.

`ContinuousBatch`: weak fairness of the scheduler's thread; it steps as long as
there is a request. `RequestSlotGate`: weak fairness of the two tasks of every
request, since asyncio runs what is ready; that a stream ends is the worker's
promise (it finishes, fails or hits its own deadline). `JobManager`: tasks,
threads and continuations of calls run when they can, handlers end, `close()`
proceeds and a stopped service is started again; nothing is assumed of the user
or of crashes.

### Mutants

Every property of a passing run has a mutant: a definition of the model changed
the way a slip in the code would change it (terminal bytes not reserved, a
request ID not checked, the cancellation flag not read, `stopping_` not looked
at, a promise left unset, one reserved slot fewer). The operators marked
"Mutant:" in the modules are these; TLC finds the property violated under each.

## 4. Proofs

`SchedulerProofs` proves, for every set of streams, every assignment of IDs,
sessions and priorities, every capacity and every outbox limit the constructor
accepts:

| Theorem | States |
|---|---|
| `Safety` | `NoOrphans /\ Spec => []IInv` |
| `TypeCorrect`, `OutboxStaysBounded`, `RequestEndsOnce`, `TeardownComesFirst`, `RunningStaysDistinct`, `DuplexIsExclusive`, `ReloadMeetsQuiescence` | the properties `TypeOK`, `OutboxBounded`, `EndsOnce`, `TeardownFirst`, `RunningDistinct`, `DuplexExclusive`, `ReloadQuiescent` |
| `RunsAloneAlways` | `Spec => []RunsAlone` |

Assumptions are `ExecutorAssumption` and `SchedulerAssumption`: the types of the
constants, at least four event slots (the constructor's check), a usage event
that fits the outbox and a terminal event that fits the reserve
(`scheduler.cpp:11`, 173-178).

`NoOrphans` says that no exception leaves `Engine::step()` and none but
`std::exception`s leave `admit()`. It is needed: after an ordinary exception out of
`step()` itself the handler gives each coroutine one more step
(`scheduler.cpp:397`); a request that updates its session cache may use it to
yield its tail, and stays in the executor as an orphan that the scheduler has
forgotten. With `"step"` in `Faults` and such a request TLC refutes
`TeardownFirst`, and `RequestsEnd` too: no later request is ever admitted. It takes
an exception from outside the executor's own handlers, such as the backend's
device guard. Only `RunsAloneAlways` holds without `NoOrphans`.

The argument. None of the properties is inductive. The bound on an outbox needs
to know that until a terminal is there one slot and the reserve are free, and
that a finished request without terminal in its outbox has it last in `pending`
(`OutboxInv`). That a terminal is published once needs the events of a step to
belong to requests that have not finished, with the terminal last, after the
coroutine is gone (`ExecutorInv`). That in turn must survive the recovery step,
whose events are dropped: it fails every request, so every coroutine must end in
that one step. A batched coroutine that was cancelled always does; one that is
not batched may need two steps, but such a request runs alone (`RunsAlone`), and
when recovery starts after an unhealthy step or a failed admission it has just
ended or was never admitted next to another (`RecoveryInv`). Distinct IDs and
sessions among active requests (`LiveDistinct`) then carry over to the executor.
`IInv` is the conjunction; `SchedulerAdmission` checks it with TLC.

The proof has a lemma for each operation on one request (`DeliverBox`,
`PublishEndKeeps`, `CancelKeeps`, `ExpireKeeps`, `PublishKeeps`, `FlushKeeps`),
the shape of a quantum and of a step (`QuantumShape`, `ConcludeResult`,
`StepKeeps`), and a step lemma per action; `NextIInv` combines them.

`SchedulerDeliveryProofs` goes on from there:

| Theorem | States |
|---|---|
| `OrderAlwaysMatches`, `NoCallerIsAbandoned` | `Spec => []OrderMatchesRequests`, `Spec => []NoCallerAbandoned`, whatever fails |
| `Delivery` | `NoOrphans /\ Spec => [](IInv /\ DeliveryInv)` |
| `NothingIsLost`, `CancelAlwaysSticks`, `CancelOwnsTheEnd`, `PriorityIsRespected` | under `NoOrphans`: `NothingLost`, `CancelSticks`, `CancelOwnsEnd`, `PriorityRespected` |

`OrderMatchesRequests` is inductive once the mailbox is typed: `Filter` keeps the
elements and the absence of repetitions, the rotation permutes. `NoCallerAbandoned`
needs `CallInv`: a call without an answer is in the mailbox, among the commands of
this iteration, or is the pending reload, and once the loop has seen `stopping_`
the mailbox stays empty. `NothingLost` needs `DeliveryInv`: what a consumer has
read, what is in its outbox, in `pending`, and what is left of the events of this
step are consecutive stretches of what the coroutine produced (`InOrder`,
`Gapless`); a cancelled request, which may drop `pending`, keeps the order only.
The same invariant says which terminal may be on its way (`EndInv`): a cancelled
request still running is one the executor is told to abort, so a `completed` that
its last quantum emits meets a recorded failure and is replaced. `CancelOwnsEnd` is
an action property in disguise: who owns the end is never taken back (`Onward`).
`PriorityRespected` needs `ScanInv`: a waiting request that the scan has passed
over is there only because nothing more is admitted in this scan.

`SchedulerSnapshotProofs` proves `SnapshotSpec => []SnapshotSettled`, whatever fails
(`NoOrphans` is not assumed). The property has one exception, `blind`. It is needed:
the refresh before the terminal event (`scheduler.cpp:376-382`) is not part of the
exception handler, so after a recovery step the snapshot still shows requests whose
clients have read their end, until a command or a stale reader asks for metrics
again; and a refused refresh leaves the old metrics. `HoldInv` says that an unloaded
engine holds nothing; `SnapInv` that an idle engine has been seen idle, or could not
be.

`ContinuousBatchProofs` proves, for every set of rows, prompts, limits, device size
and bound, without further hypotheses: `BatchInvariant` (`Spec => []BatchInv`), and
from it `TypeCorrect`, `MemoryHeldByOccupants`, `CachePositions`,
`EveryWaiterServed` and `RefusalsJustified` (`TypeOK`, `HeldByOccupants`,
`PositionsMatch`, `WaitersServed`, `RefusedOnlyIfTooLarge`). `BatchInv` reads off
the place of a row's coroutine which flags it has and how much of it is cached
(`RowInv`, one case per phase), that `state.active` lists the active rows once
(`ActiveInv`), and that a packed prefill asks for no more than is missing
(`ItemsInv`). Nothing is assumed of `Room` but that it is monotonic and that an empty
cache takes nothing. `RefusalsJustified` then rests on one observation: a row is
refused when no row is admitted, only admitted rows hold memory, so the whole device
is free, and the row's own cache is empty, so what it asks for is what it wants in
all, and one token.

`RequestSlotGateProofs` proves, from `GateAssumption`, for every set of requests,
capacity, queue length, priority and bound: `GateSound` (`Spec => []GateInv`), and
from it `GateTypes`, `SlotsAccounted`, `SlotsBounded`, `SlotsReturned` and `SlotsUsed`
(`TypeOK`, `GrantsAccounted`, `CapacityRespected`, `NoSlotLost`, `NoIdleSlot`), however
often requests are cancelled and run out of time. `GateInv` adds to the properties
how the two tasks of a request go together (`TasksAgree`), that whoever interrupts
the reaping of a task that got a slot is the second to interrupt it (`NotTorn`; the
slot is lost then, which is what `TwoReasons` in `NoSlotLost` stands for), that those
in line are exactly the pending and the freshly cancelled waiters, once each
(`LineAgrees`, `LineSound`), and that the counters are the sizes of the sets they
count (`CountsSound`), which the replacement of the gate depends on. The heart is the
lemma on `Release`: how far it pops, whom it grants, and that it stops only with
the gate full or the line empty.

The same module proves the refinement, `GateImplementsPool`:
`Spec => ImplementsPool`. It needs one more invariant, `LineOrder`
(`LineStaysSorted`): the line is sorted by priority and, among equals, by arrival.
Insertion from the end keeps it so, and everything else only shortens the line
(`OrderKept`). Then each action maps to one of the pool's or to a stutter:
`AcquireStart` to `Take` or `Wait`, `Settle` to `GiveUp` when it cancels a pending
future, each `release()` of an owner to `GiveBack`, `Close` to `Shut`,
`ApplyBatchCapacity` to `Replace`, after which nobody owns a slot. A `release()` meets a full gate whenever somebody
waits, so exactly one waiter is granted, and it is the first pending one of a
sorted line: the one `IsNext` asks for. The release of a waiter that `close()`
rejected (`GateClosed`) changes a count and nothing the pool shows.

`JobManagerProofs` proves, from `JobAssumption` alone, for every set of jobs, lanes
and bounds and for every choice of the calls a cancellation may drop or leave
behind: `JobsSound` (`Spec => []JobInv`), `JobTypes`, `NeverStranded`,
`HandlersRecorded`, `ShutdownSettles` and `CancelPersists` (`TypeOK`, `NotStranded`,
`HandlerIsRecorded`, `CloseSettles`, `CancelSurvives`). `JobInv` is a conjunction over
the jobs, so that a step of one job leaves the others alone (`Frame`): which calls
may be left behind by a task, and that until a retry no other task works beside them
(`LateIsPast`), which tasks exist in which phase of the service (`TaskInPhase`), who
will end a job that is recorded as running, or why nobody will (`RunningIsHeld`), what
a task may conclude from where it is (`TaskKnows`), and that `close()` cuts no task
short that it has waited for (`CutShort`).

Induction over data. What `Filter` and a sum over rows compute is a matter of
induction, and the library's induction theorems take an operator as a parameter,
which the installed provers cannot instantiate. `DataLemmas` goes around them: a
non-empty set of naturals (or of finite sets) has a minimal element (`WFMin`), so
the set of counterexamples, a set and not an operator, is empty. From this come
that a recursive function is what its equation says, that `Filter` keeps exactly
the elements of its set and their order (`FilterEmbeds`), how it meets `Append` and
another `Filter`, and that `SumFunction` is the size of a set of pairs, which
gives a sum its type and says when it is zero.

Model-checked only: the liveness properties (`ShutdownCompletes`, `CallsAnswered`,
`RequestsEnd`, `ReloadAnswered`, `RequestsLeave`, `RowsEnd`,
`JobsEnd`), which this prover does not do. Every other property of a passing run is
stated by a theorem; only the scheduler's have a hypothesis, `NoOrphans`.

## 5. Not modelled, and the plan

Outside this method: numerical code, kernels, model graphs, speculative decoding
policies, tokenizers, quantization tools, file formats, protocol conversion,
Studio, packaging and vendored code, which is nearly all of the repository by
lines. They have no protocol to get wrong or no concurrent state.

Within reach and not modelled: `PagedKvPageAllocator` and the page bindings, the
session snapshot cache, `PagedPrefixCache` with its writer thread and disk
budgets, the transports' request tables, the Metal generation job, the native
worker client, and of `RuntimePool` load, unload, restart, leases and memory
planning. The models touch them only where a modelled part calls them: a stream
that ends, a device that has memory or not, a consumer that reads or not.

Worth doing next, in this order:

1. The outbox and delivery theorems without `NoOrphans`. TLC finds `OutboxBounded`,
   `NothingLost`, `EndsOnce` and `CancelSticks` true with `"step"` in `Faults` on
   the one-stream instance of `SchedulerFlow`; whether they hold in general is
   open. `TeardownFirst` does not survive it.
2. The job manager when a user's two calls overlap a shutdown: which of the causes in
   `abandoned` a small change of the code would remove.
3. `PagedPrefixCache`: pins, the writer thread, crash between file and index.
4. `RuntimePool`: load, unload and restart against requests in flight, composed
   with `RequestSlotGate`.
