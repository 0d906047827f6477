# TLA+ models of coproto

coproto (`src/coproto`) is a C++ library for two-party protocols written as
resumable coroutines. This directory models how those protocols are
scheduled, written as native (`CP_AWAIT`) or C++20 coroutines, and how they
talk over the test sockets of `LocalEvaluator` in its interlace, blocking and
asyncThread modes. TLC checks
scaled-down versions of the library's own test protocols.

## The system's parts and how they interact

| Part | Source | What it does |
|---|---|---|
| Resumable | `Resumable.h` | The base of every task. It holds the upstream and downstream dependency lists (`mUpstream`, `mDwstream`) and the slot index (`mSlotIdx`). |
| Scheduler | `Scheduler.cpp/.h` | One per party. It keeps the ready queue `mReady`, the call stack `mStack`, the recvs registered by slot `mRecvBuffers` and the send queue `mSendBuffers`. `resume` pushes a task onto the stack; `run` drains the ready queue and calls `initRecv`/`initSend` when the queue is empty. `fulfillDep` completes a task and releases its dependents. `cancelRecvQueue`/`cancelSendQueue` fail every outstanding operation. |
| NativeProtoV | `NativeProto.h`, `Macros.h` | A protocol body written with `CP_AWAIT`, `CP_END_OF_ROUND` and so on, resumed at `_resume_idx_`. It awaits a child protocol, ends a round, or joins an `Async`. |
| Leaves | `Buffers.h` | The recv and send tasks. Each registers with the Scheduler and completes when its frame has been read or written. A frame is an 8-byte header (slot, length) followed by the body. |
| wrap() | `Result.h` (`WrapPromise`) | Runs a child protocol and absorbs its error into `mRes`, then completes with success. |
| async() | `Async.h` (`AsyncPromise`, `Controller`) | Spawns a child on a new slot (`mNextSlot++`) and returns a handle. The handle is joined later with `await(Async&)`, and `~Async` terminates if the handle is still in flight. |
| LocalEvaluator | `LocalEvaluator.cpp/.h` | Runs the two parties in one process. In *interlace* mode, each party's `evaluate` runs in turn, and `sendMsgs` then moves its outbound chunks to the peer (or cancels the peer after an error). `getError` injects an `ioError` at operation index `mErrorIdx`. In *asyncThread* mode, both Schedulers use an `AsyncSock` and run on one `ThreadExecutor` thread. A socket `Worker` thread pairs each posted send with the peer's posted recv and calls both continuations. The continuations `dispatch` jobs back to the executor. |
| ProtoPromise | `AwaitProto.h` | A C++20 coroutine protocol. `resume_` resumes the frame and fulfills its dependents once it is `done()`. `co_await` of a child (`ProtoAwaiter`) adds an edge and resumes the child inline; it continues when the child returned success. `co_await EndOfRound` requeues the frame if other tasks are ready. `co_await` of an `Async` handle (`AsyncAwaiter`) continues if the Controller is done, and otherwise adds an edge and suspends. |
| BlockingSock | `LocalEvaluator.cpp/.h` | Blocking mode: each party runs `evaluate` once on its own thread. `send` pushes to the peer's `BlockingQueue`, and `recv` waits in `mInbound.pop()`. |
| MvSendProto | `Buffers.h` | `send(std::move(c))`. It queues the moved buffer with no Resumable and completes with success at once. |

The parts interact in this order:
1. A protocol awaits a leaf.
2. The leaf calls `Scheduler::recv`/`send_`, which reads or writes frames on the `InterlaceSock`.
3. A completed leaf is resumed re-entrantly inside `initRecv`/`initSend`.
4. Its `fulfillDep` releases the protocol waiting on it.
5. When a socket call fails, the cancel functions fail every queued operation, which fails their dependents in turn.

On the asynchronous path, `recv`/`send_` start `initAsyncRecv`/`initAsyncSend` unless an operation is already active (`mActiveRecv`/`mActiveSend`). The header and body continuations run as executor jobs. Each job resumes or cancels tasks and then calls `run()`.

## Modules

- **`InterlaceSock.tla`** models `LocalEvaluator::InterlaceSock` and `BlockingSock`, and their helpers:
  - `recv`/`send` are pure operators `RecvCall`/`SendCall` over the socket state, with `getError` counted in `opIdx`. The constant `Blocking` selects BlockingSock's rules: a send goes to `outbound` and later to the peer's `mInbound`, and a recv of an empty queue waits.
  - `cancel` is `CancelSock`, and `sendMsgs` is `SendMsgs`.
  - A chunk is either a header (slot, length) or a body (length and the send task it came from). Byte contents are abstracted away.
- **`Scheduler.tla`** models one Scheduler per party and the tasks it runs. `Prog[t]` says what task `t` is: `proto` (native) or `coro` (C++20) with a body of steps, `send`, `mvsend`, `recv`, `wrap`, `async` or `ctrl`.
  - The C++ call stack of nested `resume` calls is `stack`, and `ret` carries a popped frame's return value to the frame below.
  - Each handler is one action. Native protocols use `ProtoAwait`, `ProtoJoin`, `ProtoJoinMv`, `ProtoEndOfRound`, `ProtoThrow` (the catch in `resume_`) and `ProtoReturnEc` (a body that returns the code a wrapped await captured). C++20 protocols use `CoroAwait`, `CoroReturned`, `CoroJoin` (AsyncAwaiter), `CoroEndOfRound`, `CoroEnd`, `CoroThrow` (`unhandled_exception`) and `CoroCanceled` (resume_ on a frame that is done). `ProtoCheck`, shared by both, is a body testing a wrapped await's code and throwing unless it is the expected one. The other tasks use `WrapStart`, `AsyncResume`, `RecvResume`, `MvSendResume` and so on.
  - `initRecv`, `initSend`, `fulfillDep` and the cancel functions are operators that those actions call. The effect of a nested leaf completion happens inside the step that triggers it, as in the code.
  - `fulfillDep` over several tasks (the cancel loops) is a fold (`Fulfilled`) over a record of the task state (`TaskState`).
  - `cancelRecvQueue`'s unordered_map iteration order is chosen nondeterministically.
  - The constant `AsyncMode` selects the asynchronous socket path. `recv`/`send_` then go through `InitAsyncRecv`/`QueueAsyncSend`, which post `SockOp` requests to the worker's queue `workQueue`.
  - `RootDone`, `EvalResult` and `ExecuteResult` (execute's result rule) are shared by the evaluators.
  - The constant `Roots` is a set of root assignments, one per test; `Init` picks one into the variable `root`, which no action changes. One run thereby checks several tests of the same shape.
  - `Chan` instantiates `Channel.tla` with the messages `initSend` finished writing (`wire`) and those `initRecv` handed to a recv task (`delivered`).
- **`Channel.tla`** is the abstract specification of the connection: per party, a FIFO sequence of sent messages, of which the peer has received a prefix.
- **`Interlace.tla`** models `LocalEvaluator::execute` in interlace mode.
  - A turn is `EvalBegin`, then the Scheduler's steps, then `EvalReturn`. `EvalReturn` models `run`'s `++mRoundIdx` and `sendMsgs`.
  - The constants `CleanResult` and `CleanRounds` give, per root, the code and round counts its test asserts of a run without a fault.
- **`Blocking.tla`** models `execute` in blocking mode. Each party's `evaluate` (`EvalBegin` … `EvalReturn`) runs once on its own thread. A Scheduler step is atomic with respect to the other thread, because the threads share only the mutex-guarded queues. `Transfer` moves a pushed chunk into the peer's `mInbound`, and `TransferLifo` is its mutant.
- **`AsyncEval.tla`** models `execute` in asyncThread mode as two threads.
  - `WorkerStep` is one `Worker::process` of the front of the work queue: `completeOp`, `cancel` and the fault test are operators.
  - The worker's continuations become jobs on the executor queue (`Continue`, `Invoke`). The header-send continuation runs on the worker thread and posts the body send directly, as in the code.
  - `ExecStep` is one iteration of `ThreadExecutor::run`. It takes a job (`RunJob`, `RecvHeaderJob`, `RecvBodyJob`, `SendBodyJob`, `SendHeaderFailJob`, `UnworkJob`) or lets the Scheduler take a step inside it.
  - `RunEnd` leaves `run()`; `JoinWorker` and `ExecuteReturns` end execute.
- **`TestProtocols.tla`** holds scaled-down protocol pairs from `NativeProto.cpp`, `AwaitProto.cpp` and `cpp20Tutorial.cpp`, the suites that combine several of them into one run (`CoSuite…`, `NestSuite…`), what each test asserts (`MCCleanResults`, `…Rounds`), and the constant values the cfgs use.
- **`MCInterlace.tla`**, **`MCBlocking.tla`** and **`MCAsyncEval.tla`** instantiate the three evaluators with those pairs.

## Runs

| Run | cfg | Scenario | Checks |
|---|---|---|---|
| cpp20_async | `MCCoAsync.cfg` | four C++20 tests: `coawait_asyncProtocol_Test` (a spawned echo on slot 1 beside an inline echo on slot 0, joined by `co_await`), `coawait_errorSocket_Test` with two spawned echoes on slots 1 and 2, `coawait_asyncProtocol_Throw_Test` (a spawned `throwServer(1)` that throws two levels down, joined by `co_await`), `coawait_throws_Test`, and the native `Native_asyncProtocol_Throw_Test` (a spawned echo client that throws, joined with `CP_AWAIT(f1)`); no fault and every fault index 0..33 | TypeOK, ReadyQueueSound, ResumedUnblocked, MatchedDelivery, FaultSurfaces, NoAsyncInFlight, Termination |
| nested | `MCNested.cfg` | ten tests of error codes and round counts: a nested native echo with `wrap()` around a throwing nested echo and a wrapped zero-length send, `Native_StrSendRecv_Test` (2 iterations), `Native_ZeroSendRecv_Test`, `Native_ZeroSend_ErrorCode_Test`, `Native_BadRecvSize_ErrorCode_Test`, and the C++20 `zeroSendRecv`, `zeroSendRecv_ErrorCode`, `badRecvSize`, `badRecvSize_ErrorCode` and `nestedProtocol_ErrorCode` tests; every fault index 0..33 | FulfilledUnblocked, ReadyQueueSound, MatchedDelivery, CleanRun, Termination |
| resize | `MCResize.cfg` | the C++20 tutorial's `resizeExample`: resizable recvs, then two move-sends, every fault index | ReadyQueueSound, ResumedUnblocked, MatchedDelivery, FaultSurfaces, Termination |
| blocking_eor | `MCBlockingEoR.cfg` | `coawait_endOfRound_Test` and `Native_endOfRound_Test` in blocking mode, every fault index | TypeOK, ReadyQueueSound, MatchedDelivery, BlockingFaultSurfaces, ChannelRefined, Termination |
| async_thread | `MCAsyncThread.cfg` | `AwaitPP` in asyncThread mode, with no fault and with the worker failing | TypeOK, ReadyQueueSound, OneOpPerSocket, NoStaleCallback, FaultSurfaces, Termination |
| wrapjoin | `MCWrapJoin.cfg` | a spawned `x.wrap()` of a throwing `x`, joined after it finished | FaultSurfaces (violated) |
| badsize | `MCBadSize.cfg` | `Native_BadRecvSize_Test`, with a second recv outstanding on a spawned task | BadSizeConfined (violated) |
| joinmv_late | `MCJoinMvLate.cfg` | a spawned task that throws, joined with `await(std::move(a))` after it finished | SpawnFailureSurfaces (violated) |
| cpp20_subjoin | `MCSubJoin.cfg` | the spawn-then-join pattern of the tutorial's `asyncServer`, inside a coroutine that its parent awaits with `co_await` | FulfilledUnblocked (violated) |
| blocking_spawn_eor | `MCBlockingSpawnEoR.cfg` | a party that spawns a receiving sub-protocol and ends its round before sending, in blocking mode | Termination (violated) |
| async_swap | `MCAsyncSwap.cfg` | both parties send 4 bytes before receiving, in asyncThread mode | Termination (violated) |
| async_index | `MCAsyncIndex.cfg` | `AwaitPP` in asyncThread mode with error index 1 or 2 | IndexedFaultSurfaces (violated) |

What the properties say:
- **ReadyQueueSound.** Every queued task is unfinished, waits on nothing, and is queued once. `resume` asserts the middle condition, and a done task resumed again is a use-after-complete.
- **ResumedUnblocked.** A frame that a nested resume returned to with anything but `suspend` waits on nothing. This is the `resume()` contract: a task that cannot finish reports `suspend`, so the protocol that awaited it (`CP_AWAIT` or `ProtoAwaiter`) stops instead of running on past it.
- **FulfilledUnblocked.** No finished task still waits on another one. This is the assert in `fulfillDep` (`Scheduler.cpp:567`). It holds in the `nested` suite, where a protocol that ran on past a suspended child (a `CP_AWAIT` testing `ec != suspend`) would break it, and it is violated in `cpp20_subjoin`.
- **MatchedDelivery.** Every body a recv gets is the message of the send the protocol pairs it with, and the socket is never asked for a chunk of the wrong kind (the assert in `InterlaceSock::recv`). This covers held headers, slot numbering of spawned tasks and header/body framing.
- **ChannelRefined.** The pair of schedulers over BlockingSock implements `Channel`'s `Spec` under the mapping `sent <- wire`, `got <- delivered`. Each party receives the peer's messages in send order, none lost in the middle and none twice, across held headers and the BlockingQueues.
- **FaultSurfaces.** When both protocols are done, execute returns what the test asserts (success, or `uncaughtException` for the throw tests) when no injected fault fired, and an error when one did: `ioError`, or the test's own error if the protocol got that far. This is `Native_errorSocket_Test` and `coawait_errorSocket_Test` over every index. **BlockingFaultSurfaces** is the same for blocking mode. There, a failed run ends when both threads return (`run()` never leaves while its root is unfinished).
- **SpawnFailureSurfaces.** When a spawned task failed, execute does not return success (spec 4.6: joining in any order gives the same aggregate result as running sequentially).
- **CleanRun.** Without a fault, execute returns the code the test asserts (success, `sendLengthZeroMsg`, `badBufferSize`), and each party counts the rounds the test states (6 per party for 5 iterations of StrSendRecv; 3 for the 2 modelled). It holds of tests whose wrapped checks turn a fault into a throw, where FaultSurfaces does not apply.
- **NoAsyncInFlight.** When execute returns, no `Controller` is in progress, so `~Async` would not terminate.
- **Termination.** The execute loop ends. In blocking mode both threads return; in asyncThread mode `ex.run()` returns and the worker is joined.
- **BadSizeConfined.** A recv ends with `badBufferSize` only if its own buffer does not fit its message.
- **OneOpPerSocket.** The worker never finds a second send or recv posted on one side (the asserts in `Worker::process`).
- **NoStaleCallback.** Every continuation job finds the queue entry it completes, and no completion reaches a finished Scheduler.
- **IndexedFaultSurfaces.** A fault injected at any index below the number of socket operations makes execute return `ioError` (spec 8).
- **TypeOK**, in each of Interlace, Blocking and AsyncEval, includes that a finished task never carries `suspend` as its code (spec 7; the asserts in `resume_` and `fulfillDep`).

Every property of a passing run has a mutant in `PROJECT.json`: an operator defined just before the one it replaces, modelling a plausible bug. TLC finds the property violated when the mutant is in place.

## Findings

1. **badsize (spec_code_divergence).** The synchronous `initRecv` calls `cancelRecvQueue(badBufferSize)` (`Scheduler.cpp:166`). Every other outstanding recv then also ends with `badBufferSize`. The spec (4.4, 8) says they end with `ioError`, and so does the asynchronous path (`Scheduler.cpp` 255-262).
2. **wrapjoin (code_bug).** `await(Async<T>&)` on a finished spawned task returns `getErrorCode()` (`NativeProto.h:110`). For `WrapPromise<void>` that is `mRes`, the absorbed error (`Result.h:345`). A join made before the wrap finishes succeeds, because `fulfillDep` passes `{}`. A join made after it finishes fails. So wrap's absorbing depends on timing.
3. **joinmv_late (code_bug).** `await(Async<T>&&)` on a spawned task that is already done returns `{}` (`NativeProto.h:96`), dropping the task's error. A join made earlier gets the error through `fulfillDep`. So whether a failed sub-protocol fails its parent depends on timing.
4. **cpp20_subjoin (code_bug).** The C++20 `AsyncAwaiter` suspends on an unfinished Controller without setting `mEc`, so `ProtoPromise::resume_` returns success (`AwaitProto.h:140`) for a frame that is not done. A parent that `co_await`s this coroutine continues as if it had finished. It can then finish while still waiting on the sub-protocol, which trips `fulfillDep`'s assert (`Scheduler.cpp:567`). In a release build, the sub-protocol later schedules the finished parent again. The native `await(Async&&)` returns `suspend` here (`NativeProto.h:101`), and root protocols are unaffected because `run` ignores resume's result. No test of the repository reaches this case: the tutorial's `asyncServer` spawns its recursion with `.async()`, so its join result is ignored in the same way; the run awaits the same body directly.
5. **blocking_spawn_eor (spec_code_divergence).** In blocking mode `Scheduler::recv` calls `initRecv` at once (`Scheduler.cpp:315`), and `BlockingSock::recv` waits in `mInbound.pop()`. So a spawned recv can block its thread while the task that would send is ready, and both threads wait forever. The spec says resume never blocks and that results do not depend on the execution model.
6. **async_swap (spec_code_divergence).** In asyncThread mode the worker completes a send only when the peer has posted its recv (`LocalEvaluator.cpp` 321-334). A scheduler posts its recv only after its own send finished. So when both parties send first, neither finishes and execute never returns. `InterlaceSock::send` only appends, so interlace mode cannot block this way. The spec (8) says results do not depend on the execution model.
7. **async_index (spec_gap).** `Worker::process` injects the fault when `mOpIdx == mErrorIdx` (`LocalEvaluator.cpp:305`), but nothing in the async modes increments `mOpIdx`. Only index 0 ever fires. The errorSocket test takes its number of indexes from `mOpIdx` after a clean run, which is 0, so it never notices.

## Bounds, and why they are enough

- **Parties.** There are two, as in LocalEvaluator.
- **Messages.** Each scenario uses the fewest messages that still exercise its mechanism:
  - an end-of-round that requeues;
  - a header arriving before its recv is registered (the spawned slot-1 task in `cpp20_async` and `badsize`);
  - a wrap absorbing a throw;
  - a zero-length send;
  - two move-sends in flight at once;
  - a join before and after the spawned task finished.

  The test protocols' repetition counts and echo depths are cut to one, the throw tests' nesting depth to 1 (one level above the one that throws) and errorSocket's five spawns to two. Each further repetition or spawn repeats the same slot and round pattern.
- **Fault indexes.** In interlace and blocking mode, `ErrorIdxs` covers no fault and every index below the number of socket operations of the scenario's clean run: 0..24 for most runs, and 0..33 for `cpp20_async` and `nested`, whose longest clean runs (`coawait_errorSocket_Test`, `coawait_nestedProtocol_ErrorCode_Test`) take 34 and 30 operations. So every socket operation is a fault point, as in the errorSocket tests. In asyncThread mode only indexes "none" and 0 can differ (`mOpIdx` stays 0), so the passing runs use those two; `async_index` shows what indexes 1 and 2 do.
- **`MaxRounds = 6`** caps `mRoundIdx`. The scenarios need at most 3 rounds, so a run that reaches the cap is a spin, and Termination reports it.
- **Lengths.** Message lengths are byte counts. Only equality and divisibility by the element size matter (`tryResize`).
- **Work count.** `work` is at most 2: one `Work` per Scheduler, released when it finishes.

## Fairness

`Interlace`'s `Spec` has weak fairness on `Next`. One thread runs everything, and `execute` keeps calling `evaluate` while either protocol is unfinished. So as long as a step is possible, one is taken. Within a step the code is deterministic. The only choices are the fault index and the `unordered_map` iteration order, and both are fixed before the step.

`Blocking`'s `Spec` has weak fairness on each party's thread (its Scheduler steps, `EvalBegin` and `EvalReturn`) and on each `Transfer`. A thread blocks only in `mInbound.pop()`, and a push notifies the condition variable. So a thread that can proceed eventually does; the OS scheduler is assumed fair.

`AsyncEval`'s `Spec` has weak fairness on each thread, `ExecStep` and `WorkerStep`. Each thread blocks only in `BlockingQueue::pop`, and every push notifies the condition variable. So a thread with work in its queue eventually runs; the OS scheduler is assumed fair between the two threads.

## Not modelled, and why

- **Inline async mode.** `LocalEvaluator::async` runs without a worker thread, so `enqueue` calls `process` re-entrantly inside the Scheduler, and the continuations run nested in it. It needs a model of that recursion on top of the scheduler's own call stack.
- **C++20 values.** `Name`, the logging hooks and `co_return` values are labels and data. A late C++20 join (`AsyncAwaiter` finding its Controller already done, `Async.h:226`) drops the spawned task's error just as `joinmv_late` shows for the native join; it has no run of its own.
- **Value-returning tests.** `Native_returnValue_Test`, `coawait_returnValue_Test`, `coawait_typedRecv_Test` and the string/Result tests check values, which the model abstracts to lengths.
- **Other leaves and values.** `MoveRecvProto` differs from `RefRecvProto` only in owning its container. Value returns and `Result<T>` are data handling.
- **Tutorial sockets.** `MyBlockingSocket` and `MyNonblockingSocket` in `SocketTutorial.cpp` are user-written examples of the Socket interface, with no fault injection and no use by the tests.
- **Utilities.** `InlineVector`, `InlinePoly`, `TypeTraits`, `Queue` (modelled as sequences; its FIFO order is what `ChannelRefined` checks), logging and `getDot` are data structures and formatting.

## Plan for later sittings

1. The inline async mode, with `process` nested inside the Scheduler's call stack.
2. `ChannelRefined` for interlace and asyncThread mode. It needs a mutant of those paths that reorders or repeats chunks, because sendMsgs' copy-instead-of-move and the held-header mutants are absorbed by the scenarios.
