# Formal models of WhiteEngine

TLA+ specifications of the concurrent parts of WhiteEngine, checked with TLC on
small instances and, where the argument is worth it, proved with TLAPS for
every value of the constants. The source is the reference: every definition is
translated from the lines that `PROJECT.json` names for it under `map`.

1. [The system](#1-the-system): components, state, interactions, what is hard
2. [The modules](#2-the-modules): which module models what
3. [The runs](#3-the-runs): what each one checks, its bounds, its fairness
4. [What the code does otherwise than it says](#4-what-the-code-does-otherwise-than-it-says)
5. [The proofs](#5-the-proofs)
6. [What is not modelled](#6-what-is-not-modelled)
7. [The plan](#7-the-plan)

To check a module and to check its proofs:

    tlc -config UploadHeap.cfg MCUploadHeap
    tlapm AsyncFilesProofs.tla

## 1. The system

WhiteEngine is a Windows game engine in C++20: a Direct3D 12 renderer
(`Engine/D3D12` below the interfaces of `Engine/RenderInterface`), a runtime
and asset pipeline (`Engine/Runtime`, `Engine/Asset`), coroutines and threads
(`Engine/Core`), a utility library (`WBase`), a framework (`WFramework`) and a
Scheme-like configuration language (`WScheme`). There are no unit tests of the
concurrent parts; `WTest` holds samples. What the code promises stands in its
comments, its flags' names and its assertions.

The parts with a protocol, that is with several threads, the GPU or the kernel
as actors, or with records that must agree over long sequences of calls:

| Component | State it keeps | Operations | Interacts with |
|---|---|---|---|
| Submission pipe (`D3D12/Submission.cpp`, `NodeQueue.h`, `FlushCommands`) | per hardware queue: FIFO of payloads to submit, FIFO of payloads awaiting completion, fence value, values awaited on other fences; resolved sync points; two auto-reset events | flush, submission pass, interrupt pass | engine threads call it, the GPU carries out its calls, the driver sets events |
| Task scheduler (`Core/Threading/TaskScheduler.cpp`) | a ring buffer per pool thread, a common list, sleep flags and events | schedule, pop, steal, sleep, wake | every `co_await schedule()` |
| Render command thread (`RenderInterface/CommandListExecutor.cpp`) | immediate command list, four task slots, two present fences, the thread's list | record, flush, end frame, present, execute | main thread, DirectStorage uploads |
| GPU memory allocators (`D3D12/Allocation.cpp`, `ResourceHolder.cpp`) | buddy allocators with lists per order, pools with free blocks, pages, what was given back and with which fence | allocate, give back, clean up, trim | main and command thread, frame fence, payloads that use the memory |
| GPU fences (`D3D12/Fence.cpp`, `Display.d3d12.cpp`) | the frame that is recorded, the last completed value | advance, signal, test | frame loop, allocators |
| I/O scheduler (`Core/Coroutine/IOScheduler.cpp`, `io_state.h`) | completion port, overflow list | schedule, process events, overlapped reads and writes | kernel, file streams |
| Coroutine primitives (`when_all_counter.h`, `SyncWait.h`, `Task.h`) | counter, continuations, event | start, await, notify | everything that awaits |
| File streams (`Core/Coroutine/AsyncStream.cpp`) | a buffer, its fill and offset, the file's offset | read, write, skip, close | I/O scheduler |
| Resource states (`D3D12/CommandList.d3d12.cpp`, `ResourceHolder.h`) | state per subresource, pending barriers | transition, resolve at submission | submission pipe |
| Asset loading (`Runtime/AssetResourceScheduler.h`) | cache of loaded assets under a shared mutex | load | coroutines |

What is hard, and what would make each part correct:

* **Submission pipe.** Three kinds of threads, the GPU's queues and the driver
  meet in FIFOs, events and fence values. A payload may wait on a sync point
  that nobody has submitted yet, and a fence may pass between being read and
  being watched. Correct means: the CPU learns of completion, and memory is
  recycled, only after the GPU is done; waits hold on the GPU; nobody sleeps on
  work; all that can complete does.
* **Task scheduler.** A work-stealing pool with speculative pops and steals,
  growing rings and a lock-free common list. Correct means: it behaves as a
  FIFO and a set of deques, every coroutine is resumed exactly once, no thread
  sleeps over work, and every sleep has one wake.
* **Render command thread.** The main thread owns the coroutines the command
  thread runs, in a fixed number of slots. Correct means: commands run in the
  order of recording, the main thread is at most one frame ahead, the slots
  suffice, and nobody waits for what was never flushed.
* **Allocators and the frame fence.** Memory is handed out by the main thread,
  given back by the command thread, used by the GPU through a third thread, and
  reused when a fence says so. Every allocator keeps one fact in two or three
  records. Correct means: one holder per byte, exact books, reuse only when the
  GPU is done, and an allocation that never fails.
* **I/O, coroutine primitives and file streams.** An operation may complete
  before the call that started it returns, at once, later or with an error, and
  whichever thread takes the completion runs the coroutine. Correct means:
  every continuation is resumed once and by one thread, nothing is touched
  after it is destroyed, the waiting thread returns, and the buffering does not
  show.

`PROJECT.json` lists all components, modelled or not, and under `hazards`
the places where these things could go wrong, line by line.

## 2. The modules

    Submission ── MCSubmission                     (instances)
        └─ SubmissionProofs                        (theorems)

    WorkPool  <── implemented by ──  TaskScheduler ── MCTaskScheduler
                                         └─ TaskSchedulerProofs

    RenderThread ── RenderThreadProofs             (run as it is)

    MemoryPool ── FastAllocator ──┐
    BuddyAllocator ───────────────┴─ UploadHeap ── MCUploadHeap
        └─ UploadAllocators (lemmas) ─── └─ UploadHeapProofs

    ByteStreams <── implemented by ── AsyncFiles ── MCAsyncFiles
                      FileStream ─────────┘ └─ AsyncFilesProofs ── AsyncFilesStreams

    ResourceStates ── MCResourceStates
        └─ ResourceStatesProofs

`MemoryPool`, `BuddyAllocator`, `FastAllocator` and `FileStream` are functions
on the records the classes consist of; `UploadHeap` and `AsyncFiles` put the
threads around them. `WorkPool` and `ByteStreams` are the abstract
specifications.

Where a property is checked against a deliberate fault, the faulty form of a
definition stands in the module next to it or in a section "Faults", with a
comment saying what it gets wrong; nothing in the specification uses it.

### Submission

| State | Code |
|---|---|
| `epc`, `nextPayload`, `batch`, `flushed` | an engine thread inside `ContextCommon::FlushCommands` and `SubmitPayloads` |
| `holder` | the payload whose `AllocatorsToRelease` got the context's allocator (`Finalize`) |
| `pendingSubmission`, `pendingInterrupt` | the two `PayloadQueue`s of each `NodeQueue` |
| `submissionEvent`, `interruptEvent` | the auto-reset `Event` of each `D3D12Thread` |
| `spc`, `squeue`, `toSubmit`, `handDown`, `sprocessed` | where the submission thread is in `ProcessSubmissionQueue`, `PayloadToSubmit`, `PayloadsToHandDown`, `Result.Status` |
| `waitIndex` | `SyncPointsToWait.Index` |
| `executed`, `completionValue`, `fenceValue` | `ResolvedFence`, `CompletionFenceValue`, `FenceValueAvailableAt` |
| `nextAwait`, `maxAwait`, `fencesToAwait` | `RemoteFenceStates`, `FencesToAwait` |
| `ipc`, `iqueue`, `iprocessed`, `interruptAwaited`, `timeoutArmed` | the interrupt thread in `ProcessInterruptQueue`, `bInterruptAwaited`, `WaitTimeout` |
| `complete`, `released` | completion events set, payloads deleted |
| `ops`, `gpuDone`, `completedValue`, `registered` | the GPU: calls made on each `ID3D12CommandQueue`, how many are carried out, fence values, `SetEventOnCompletion` |

An action is the code between two accesses that another thread may interleave
with: enqueueing one payload, taking one from a FIFO, accumulating one wait,
one `Signal` or `Wait` call, one reading of a fence. `FindIncomplete` and
`AwaitCompletion` are two actions because the fence may pass between
`GetCompletedValue` and `SetEventOnCompletion`. A payload's contents (queue,
waits, whether it has command lists, whether it needs barriers from the
graphics queue) are chosen once, from `Workloads`; its one sync point has its
name. The GPU is external: a queue carries out its calls in order, a wait
blocks it until the fence has the value, a signal sets the fence and the events
armed for it.

### WorkPool and TaskScheduler

`WorkPool` is what the pool promises, without code behind it: a FIFO inbox, a
deque per worker, a hand per worker, and each operation resumed once.

`TaskScheduler` is the code. Its variables have the code's names; `queue_head`
and `queue_tail` are `head` and `tail` for a ring, `ready` and `arrivals` for
the common list. `pc` says where a thread is:

| Stages of `pc` | Code |
|---|---|
| `pop claim confirm lock settle` | `try_local_pop`: first look, claim, second look, lock, decision |
| `remote` | `get_remote` |
| `steal look advance check take restore` | `try_steal`, for each index of both loops of `try_steal_from_other_thread` (`index`, `attempt`) |
| `resume run` | the coroutine, and what it schedules (`todo`) |
| `idle wait` | before and after `notify_intent_to_sleep` |
| `put full copy` | `try_local_enqueue`: room, no room, growing |
| `load push` | `remote_enqueue` |
| `wake` | `wake_one_thread` |

Each action is one access to an atomic that others may change, with the local
work up to the next. Memory is sequentially consistent: the accesses the
algorithm relies on are `seq_cst` in the code, and those that are `relaxed` are
by the only writer, under the lock, or may read a stale `queue_tail`, which is
what `EnqueueLook` and `EnqueuePut` as two actions allow. `get_remote` is one
action because its mutex excludes every other reader, and `try_wake_up` is one
because its exchange decides. Scheduling from threads outside the pool (main,
I/O, render thread) is `External`. Which operations a coroutine schedules when
it runs is the constant `Agenda`.

The refinement mapping (`Pool` in `TaskScheduler`) reads the deque off the ring
without the claims that may still be given back: a pop's claim counts from the
moment it is confirmed, a steal's from the moment its check succeeds.

### RenderThread

The main thread records a frame (`SubmitUpload`, `EndFrame`, `Present`), flushes
(`SlotTaken` per slot tried, `Flush`) and waits for the previous frame's fence
(`WaitPrevious`). The command thread takes tasks (`Pop`), executes one command
at a time (`Execute`) and finishes (`Finish`). Commands and tasks are numbers in
the order of their recording, so `executed` being `1..n` in order is the whole
of the correctness of the lists. `push` is one action: the main thread is the
only one that flushes, so its compare-and-swap can only fail against `pop`'s
exchange, after which it pushes onto the empty list all the same. The failed
assertion of `RenderTaskArray::assign` ends the model (`mpc = "out of tasks"`).

### MemoryPool, BuddyAllocator, FastAllocator and UploadHeap

| State of UploadHeap | Code |
|---|---|
| `small` | `SmallBlockAllocator.Allocators`: buddy allocators, each with its lists of free blocks, `DeferredDeletionQueue` (`retired`), `TotalSizeUsed`, `LastUsedFrameFence` |
| `pools`, `order`, `operations` | `BigBlockAllocator`: `Pools`, `PoolAllocationOrder`, `FrameFencedOperations` |
| `pages`, `page` | `FastConstantAllocator.Allocators`, and the page in use by `TransientConstantBufferAllocator` |
| `fast` | the command context's `FastAllocator` and its page pool |
| `location` | `Location` of each buffer |
| `frame`, `completed` | `FrameFence`: `GetCurrentFence()`, and its value on the GPU |
| `program` | the calls the engine still makes, per frame |
| `commands` | what the command thread has still to execute |
| `stage`, `visit`, `ended` | where the command thread is in the end of a frame |
| `used`, `submitted`, `queue` | what the open payload uses, the payloads on their way to the submission thread, the GPU's queue |

The main thread creates, maps, fills, loads and draws buffers and updates
constants; each call that needs memory takes it at once (`CreateBuffer`,
`MapBuffer`, `FillBuffer`, `UpdateConstants`) and sends a command along. The
command thread executes (`ExecuteRename`, `ExecuteDraw`, `ExecuteCopy`,
`ExecuteLoad`, `ExecuteUse`, `ExecuteSignal`, `ExecuteEnd`); at the end of a frame
it cleans up one allocator after the other (`FreeRetired`, `CleanUpSmall`,
`TrimSmall`; `FreeOperation`, `CleanUpBig`, `TrimBig`; `TrimPages`), flushes the
payload (`FlushCommands`) and cleans up the fast allocator (`CleanUpFast`). Each
thing freed is a step of its own, since each iteration reads the fence, which
the GPU may signal in between. Each cleaning holds that allocator's lock, so
the main thread's allocations come between (`Unlocked`). After an allocation
that fails, which is a failed assertion for a small one and leaves nothing to
write to for a big one, nothing goes on; `NeverRefused` says that none does.

Three things in these modules are as the code has them and may surprise:

* `FindFreeBlock` bisects by size a list that is ordered by offset. What
  `std::lower_bound` returns then is open; `Found` and `MayMiss` allow all that
  any bisection can end at.
* `DeallocateBlock` looks for the block it frees, and not for its buddy, in the
  list of free blocks (`Allocation.cpp:1113`). It is never there, so halves are
  never joined again. That costs room and is not wrong: `BuddiesExact` holds.
* `CreateNewPool` sizes a pool for the request without its padding.

### FileStream, ByteStreams and AsyncFiles

| State of AsyncFiles | Code |
|---|---|
| `program`, `mode`, `oldFile` | what each task does with its stream; they never change |
| `stream` | the members of `FileAsyncStream` |
| `frame` | the coroutine frame: the operation, where in it, what it awaits |
| `memory`, `last` | the caller's memory, what the last `Read` returned |
| `operation` | `error_code` and `bytes_transferred` of the awaited operation |
| `file`, `faulty`, `request`, `closeEvent` | the kernel: files, devices that failed, pending operations, the destructor's event |
| `port`, `overflow`, `posting`, `refusals`, `emptyWakeUps` | the completion port, `operations_head` and what a thread took from it, how often the port refused, how often nothing was resumed |
| `at` | where each thread is, and in which coroutine |
| `started`, `count`, `awaiter`, `event` | `when_all_ready_awaitable` and its counter, `sync_wait`'s event |

A thread that resumes a coroutine runs it until it suspends. `TryStart` is
`await_suspend` of a read or write: it completes at once, or is pending, and then
the kernel may complete it, and another thread resume the coroutine, while the
first one is still inside the call (`at[t].pc = "call"`). `Complete` is the
kernel; `TakeOverflow`, `PostAgain`, `RefusedAgain`, `OnOperationCompleted` and
`OnPosted` are `process_events`; `StartTask`, `RegisterAwaiter`, `TryAwait`,
`NotifyAwaitableCompleted`, `SetEvent` and `WaitReturns` are `WhenAllReady` and
`SyncWait`. A chain of `Task`s that await each other is one coroutine: control
passes between them on one thread. A failed operation throws, and the unwinding
destroys the stream (`Throw`).

`ByteStreams` is what the users of a stream may rely on: a position, a file,
reads that return what is there, and what was written being in the file when
the stream is closed. The refinement mapping computes the position from
`fileOffset`, the buffer and the call in progress.

Two things are modelled as the code has them, since the specification of the
rest would otherwise be about another program:

* `schedule()` is to carry a coroutine to an I/O thread, but `await_suspend`
  assigns its parameter to itself (`IOScheduler.cpp:240`), so the packet it posts
  leads nowhere. `ScheduledKept` shows that each packet is taken once;
  `SyncWaitReturns` excepts coroutines that wait for it.
* `Skip` adds to the offset in the file, which is ahead of the reader by what is
  left in the buffer (`AsyncStream.h:35`). `ByteStreams` promises only that `Skip`
  jumps at least as far as asked; with an exact `Skip`, `IsByteStreams` is
  violated.

### ResourceStates

| State | Code |
|---|---|
| `context` | the default context: whether a list is open, its `TrackedResourceState` and `PendingResourceBarriers`, what is recorded on it, and `ResourceBarrierBatcher` |
| `closed`, `submitted` | the closed lists of the payload, and those on their way to the submission thread |
| `onResource` | `GetResourceState_OnResource()` of each resource |
| `queue`, `actual` | what the graphics queue has still to execute, and the states it has brought the resources to |
| `ready`, `waiting`, `recorded` | the buffers whose initial data is recorded, `SwapBuffers` in its wait for `SubmissionEvent`, a counter that bounds the run |
| `asserts` | whether `wassume` evaluates its argument: `CheckAllSubresourceSame`, called there only, changes the state |

A state is the set of its flags. A command is the sequence of the
transitions its bindings request, each worked off by `TransitionView` or
`TransitionIndex` as the code does, the flushes between them, and the call,
which needs each subresource in the state asked for (`Use`). `Record` is any of
these; `InitializeBuffer` (which may split the list), `AddUAVBarrier`, `EndFrame`
and `SwapBuffers` are the other things done on the context.
`GenerateBarrierCommandListAndUpdateState` takes the next list; its barriers go
to the queue in front of it. The graphics queue is external, and so is the
rule which states allow which use (`Allows`).

The submission thread and the queue may be any number of lists behind, except
that `SwapBuffers` waits for the former. What a list starts from is known only
when the submission thread comes to it; until then the list's own record has TBD.

## 3. The runs

All instances are finite programs that end, with the threads asleep, so
deadlock is not reported (`CHECK_DEADLOCK FALSE`); that a system does not stop
too early is what the liveness properties and `NoLostInterrupt`,
`NoLostSubmission` and `NobodySleepsOverWork` are about. `UploadHeap` has a last
step of its own (`Finished`), and TLC reports any other state without a next one.

| Run (cfg) | Instance | Checks |
|---|---|---|
| `pipe` (SubmissionPipe) | 2 queues, 2 engine threads, 2 or 3 payloads, 8 workloads, fair | `TypeOK`, `ReleaseAfterWork`, `AllocatorAfterWork`, `WaitBeforeExecute`, `EarlierWaitsHonoured`, `NoLostInterrupt`, `NoLostSubmission`, `EventuallyComplete`, `EventuallyReleased`, `FlushesReturn` |
| `fork` (SchedulerFork) | 2 pool threads, 1 other, 5 operations, ring of 2 that may grow, fair | `TypeOK`, `ResumedOnce`, `OneWakePerSleep`, `IsWorkPool`, `AwakeThreadsDrain` |
| `frames` (RenderFrames) | 4 frames of two flushes, up to 2 uploads anywhere, 4 slots, fair | `TypeOK`, `CommandsInOrder`, `OneFrameAhead`, `SlotsSufficeForFrames`, `FramesPresented` |
| `heap` (UploadHeap) | 4 programs of 4 or 5 frames, 4 buffers | `TypeOK`, `NoOverlap`, `PoolsExact`, `BuddiesExact`, `NeededStay`, `NeverRefused`, `HeldUntilFence`, `FastUntilFence` |
| `files` (AsyncFiles) | 2 tasks, 2 I/O threads, 4 workloads, 1 failing device, 3 refusals of the port, fair | `TypeOK`, `OneThreadPerCoroutine`, `ResumedAfterTasks`, `FramesOutliveUse`, `ScheduledKept`, `SyncWaitReturns`, `IsByteStreams` |
| `states` (ResourceStates) | 4 resources, 4 commands of 8 kinds, with and without assertions | `TypeOK`, `BarriersMatch`, `UsesFindState`, `TrackingExact`, `BarriersLegal` |
| `barrier`, `flush`, `asleep`, `slots`, `overlap`, `early` | | one property each, violated: see section 4 |

**Bounds, and why they are enough.**

*Submission.* Two queues are the smallest number with waits between queues,
barrier work on another queue, and a scan that visits one queue while the other
changes. Two payloads make every wait, also in a circle; three add a wait
accumulated in two passes, a payload behind another in the same FIFO, one that
only waits, or waits and signals, a lower fence value awaited after a higher one, and a
flush of several payloads. The workloads are listed in `MCSubmission`, each with
the case it is for.

*TaskScheduler.* One ring slot is always kept free, so a ring of two is full
with one operation: growth, the failure to grow (the lock is taken, or the
allocation fails, which may happen at any time) and the fall-back to the common
list all happen with three operations from one coroutine. With two threads the thief
meets the owner at its ring; for two thieves at one ring, `MCTaskScheduler` keeps
a second instance (`ThreeOperations`, `PairAgenda`): with `MaxScheduler = 3` and
`Spec`, `ResumedOnce` and `OneWakePerSleep` hold in its 1,056,199 states. Ring
indices do not wrap within these bounds; in the code they are 64 bits wide.

*RenderThread.* `MaxFrame` and `MaxUpload` bound the run. Three frames are the
fewest in which the fence of the frame before last is replaced, four make
every slot be reused; the command thread may lag arbitrarily.

*UploadHeap.* The sizes are scaled and keep the relations of the code's:

| Constant | Model | Code |
|---|---|---|
| `MinBlockSize`, largest block | 4, 16 bytes of 32 | 256 bytes, half of an allocator of 4 MB |
| `SmallMax` | 6 | 64 KB |
| `PoolAlignment` | 4 | 256 |
| `DefaultPoolSize`, `MaxAllocationSize` | 24 (32 in `overlap`), 32 | 8 MB, 64 MB |
| `FrameLag` | 2 | 2 |
| `FastPageSize`, `MinPagesToRetain`, `FastFrameLag` | 8, 1, 2 | 64 KB, 5, 10 |
| `PageUpdates` | 2 | a page of 64 KB |

Each of the four programs is for one allocator (`MCUploadHeap`): two orders of
small blocks and a second allocator; a pool that is filled, freed in the middle
first and used again, next to a second pool; a pool of its own size, full
constant pages, and enough frames to trim both; pages of the fast allocator
that return, are taken again and deleted. How far the command thread, the
submission thread and the GPU lag is free, within the one frame that `Present`
allows the main thread to be ahead.

*AsyncFiles.* A buffer of three bytes (4096 in the code) is the smallest in which
a read can end inside the buffer and a write be kept in it, since both compare
with `<`; files of up to eleven bytes make reads and writes that cross several
buffers, end with one, and end short. Two tasks and two I/O threads let the
last task, the other task and the main thread meet at the counter and let one
thread take the completion the other one is still starting. One device may
fail, at any operation. Three refusals suffice for an operation to be refused,
and again while the other one is pushed.

*ResourceStates.* Four commands are enough for a write, a read by another role,
a second read that is merged and a fourth use in the next list, with list ends
anywhere between them. The resources are the four kinds that differ: one
subresource that is presented, two mips that are used together and apart, two
planes with depth states, and a buffer that is filled, written and read in
three roles. The commands write and read the mips and planes together and one
by one, so that a resource is tracked whole, by subresource, and joined again.

**Fairness.** `pipe`: weak fairness of the submission thread, the interrupt
thread, each GPU queue, and of an engine thread inside a flush; nobody need
start a flush. These are operating-system threads and hardware queues that run
as long as they are not blocked, and every blocking call is a guard of its
action. Payloads whose waits can never be met (`Stuck`: a circle, through
sync points or through the FIFO in front of a payload, or a sync point nobody
submits) are excepted by the properties, because the code cannot
execute them. `fork`: weak fairness of every pool thread, every external
thread and the publication of the scheduler. Locks need no strong fairness
there because the programs are finite: a spinning thread's lock is at last
left free. `frames`: weak fairness of both threads. `files`: weak fairness of
the main thread, of each I/O thread, and of the kernel for each pending
operation. `heap` and `states` have no
liveness property: nothing in the first waits for memory, and the second is
about the order of what is recorded.

**What `AwakeThreadsDrain` says and does not.** It says that no operation that
has been pushed is forgotten *while some thread is in its loop*. That the
pool always wakes up for it is false; see `asleep` below.

**What `SyncWaitReturns` excepts.** A coroutine that awaits `schedule()` is never
resumed. A destructor whose `WriteFile` fails at once waits for an event that
nothing sets (`AsyncStream.cpp:57`). Both are listed as hazards; in all other
cases `SyncWait` returns.

## 4. What the code does otherwise than it says

Each has a run that finds the shortest behaviour; `PROJECT.json` quotes the line
under `findings`.

* **`asleep`** (`TaskScheduler.cpp:318`). A pool thread finds every queue empty; a
  producer pushes, and `wake_one_thread` finds no `sleeping` flag set; then the
  pool thread sets its flag and sleeps. If all do so, the operation waits for
  the next `schedule()`. The queues would have to be looked at again after the
  flag is set. The start-up is a special case: a pool thread that runs before
  the global `task_scheduler` is set goes to sleep at once.
* **`slots`** (`CommandListExecutor.cpp:117`). Four task slots are exactly enough
  for two flushes per frame with the main thread one frame ahead (`frames`); one
  GPU upload a frame makes three, and the assertion "out of max render_tasks"
  can fail.
* **`barrier`** (`Submission.cpp:538`). `ExecutePayload` returns 0 instead of the
  value it signalled, so the "enqueued wait" for barrier work on the graphics
  queue is never issued.
* **`flush`** (`Submission.cpp:117`). `SyncPoint::Wait` waits only if the event is
  already set; `WaitForCompletion` does not wait.
* **`overlap`** (`ResourceHolder.cpp:22`). An alignment that does not divide the
  pool's moves a block's offset up, and the free block it is cut from loses the
  size without the padding: the end of the block is handed out again. Dynamic
  buffers ask for their stride as alignment. (`heap` checks `NoOverlap` with
  alignments that divide the pool's.)
* **`early`** (`Display.d3d12.cpp:247`). The fence of a frame is signalled on the
  GPU's queue by the command thread, while the frame's payload may still be on
  its way through the submission thread. The fence passes, and memory the
  payload uses is given to others. (`heap` shows that the allocators themselves
  keep memory until the fence.)

More are in the models as the code has them, listed as hazards and not kept as
runs:

* `TaskScheduler.cpp:164`: a thief has advanced `queue_tail` and will give it
  back, because the owner popped first. Before it does, the owner's coroutine
  schedules another operation; the owner then computes an empty ring from the
  advanced tail and sleeps with the operation in its own ring.
* `NodeQueue.h:161`: a payload without command lists signals no new value, so
  its sync point may count as reached before its own waits are.
* `IOScheduler.cpp:240`, `AsyncStream.h:35` and `AsyncStream.cpp:57`: `schedule()`
  that never resumes, `Skip` that jumps too far, the destructor that may hang.
* `CommandContext.d3d12.cpp:472`: the counter of an indirect draw is taken from the
  argument buffer instead of `CountBuffer`. `TransitionResource` returns whether a
  UAV barrier is required, and every caller drops the answer; the engine inserts
  UAV barriers by `ExecuteUAVBarrier`. A skipped transition from `DEPTH_WRITE` to
  `DEPTH_READ` (`CommandList.d3d12.cpp:138`) would leave the second one tracked;
  nothing asks for `DEPTH_READ` alone.
* `Allocation.cpp:1113` and `Allocation.cpp:165`: buddies that never merge, the
  search by size in a list ordered by offset.

## 5. The proofs

`tlapm` checks all of them with Z3, Zenon and LS4; nothing is assumed but the
`ASSUME`s of the modules on their constants, which TLC evaluates in every run.

| Theorem | Says | From |
|---|---|---|
| `TypeCorrect` (SubmissionProofs) | `Spec => []TypeOK` | `TypeInv` |
| `ReleaseSafe` (SubmissionProofs) | `Spec => []ReleaseAfterWork` | `SafeInv` |
| `AllocatorSafe` (SubmissionProofs) | `Spec => []AllocatorAfterWork` | `AllocInv` |
| `WaitsHonoured` (SubmissionProofs) | `Spec => []WaitBeforeExecute` | `WaitInv` |
| `EarlierWaitsSafe` (SubmissionProofs) | `Spec => []EarlierWaitsHonoured` | `CarryInv`, `AllocInv` |
| `InterruptSafe` (SubmissionProofs) | `Spec => []NoLostInterrupt` | `InterruptInv` |
| `SubmissionSafe` (SubmissionProofs) | `Spec => []NoLostSubmission` | `SubmissionInv` |
| `PoolTyped` (TaskSchedulerProofs) | `Spec => []TypeOK` | `WorkInv` |
| `PoolResumesOnce` (TaskSchedulerProofs) | `Spec => []ResumedOnce` | `WorkInv` |
| `PoolIsWorkPool` (TaskSchedulerProofs) | `Spec => IsWorkPool` | `WorkInv` |
| `WakeSafe` (TaskSchedulerProofs) | `Spec => []OneWakePerSleep` | `WakeInv` |
| `TypeCorrect` (RenderThreadProofs) | `Spec => []TypeOK` | `TypeInv` |
| `OrderCorrect` (RenderThreadProofs) | `Spec => []CommandsInOrder` | `OrderInv` |
| `AheadCorrect` (RenderThreadProofs) | `Spec => []OneFrameAhead` | `FenceInv` |
| `SlotsSufficient` (RenderThreadProofs) | `TaskSlots >= 4 => (Spec => []SlotsSufficeForFrames)` | `SlotInv` |
| `OneThread` (AsyncFilesProofs) | `Spec => []OneThreadPerCoroutine` | `TokenInv` |
| `ResumedOnceAllDone` (AsyncFilesProofs) | `Spec => []ResumedAfterTasks` | `AsyncInv` |
| `FramesSafe` (AsyncFilesProofs) | `Spec => []FramesOutliveUse` | `AsyncInv` |
| `NoScheduledLost` (AsyncFilesProofs) | `Spec => []ScheduledKept` | `ScheduleInv` |
| `StreamsTyped` (AsyncFilesStreams) | `Spec => []TypeOK` | `FilesInv` |
| `StreamsAreByteStreams` (AsyncFilesStreams) | `Spec => IsByteStreams` | `FilesInv` |
| `FastSafe` (UploadHeapProofs) | `Spec => []FastUntilFence` | `FastInv` |
| `HeldSafe` (UploadHeapProofs) | `Spec => []HeldUntilFence` | `UseInv` |
| `BuddiesSafe` (UploadHeapProofs) | `Spec => []BuddiesExact` | `SmallInv` |
| `HeapTyped` (UploadHeapProofs) | `AlignmentsDivide => (Spec => []TypeOK)` | `HeapInv` |
| `HoldersApart` (UploadHeapProofs) | `AlignmentsDivide => (Spec => []NoOverlap)` | `HeapInv` |
| `PoolsSafe` (UploadHeapProofs) | `AlignmentsDivide => (Spec => []PoolsExact)` | `HeapInv` |
| `HoldersStay` (UploadHeapProofs) | `AlignmentsDivide => (Spec => []NeededStay)` | `HeapInv` |
| `RequestsSafe` (UploadHeapProofs) | `AlignmentsDivide /\ RequestsFit => (Spec => []NeverRefused)` | `HeapInv` |
| `StatesExact` (ResourceStatesProofs) | `Spec => []Exact` | `Exact` |
| `StatesTyped` (ResourceStatesProofs) | `Spec => []TypeOK` | `Exact` |
| `TransitionsMatch` (ResourceStatesProofs) | `Spec => []BarriersMatch` | `Exact` |
| `TrackedIsActual` (ResourceStatesProofs) | `Spec => []TrackingExact` | `Exact` |
| `TransitionsLegal` (ResourceStatesProofs) | `Spec => []BarriersLegal` | `Exact` |
| `UsesAllowed` (ResourceStatesProofs) | `Agreed => (Spec => []UsesFindState)` | `Exact` |

**Submission: TypeInv** is `TypeOK` with what the submission thread's stage
implies about `toSubmit` (`SubmitInv`): in stage "await" the current queue has a
payload, in stage "barrier" the graphics queue has one too. Without it
`ExecutePayload` on `NoPayload` would be possible in a state of the right types,
and `TypeOK` alone would not be inductive.

**Submission: SafeInv.** That released payloads are finished does not follow from
any one step; the chain is: a payload is released when the fence of its queue
has reached its completion value; the fence only has a value that a signal in
the queue's log carries and that the GPU has carried out; the log has the signal
directly behind the payload's command lists; so those have been carried out
too. `LogInv` states the last two: every execution is followed by a signal its
completion value covers (`ExecutesSignal`), signals rise along the log and one
the fence has reached is carried out (`SignalsRise`), the fence is behind the
CPU's counter (`FenceBehind`). A later entry for the same payload would break
it, so `OnceInv` says that a payload is in the FIFOs, in `toSubmit` or executed
at most once, which in turn rests on the engine threads submitting their
programs in order (`BatchInv`). `HandedInv` connects what the interrupt thread
holds to what has been executed: between taking and executing, a payload is
already noted for hand-down.

**Submission: AllocInv.** A flush's command lists share an allocator that goes to
the last payload only. `HolderInv` says that a payload is never after its holder
(`NotAfter`): at each stage between the engine thread's batch and the executed
payloads, one that has the holder has the payload in front of it or further
on, and of two executed payloads the holder's completion value is not smaller.
`EarlierInv` says the same of any two payloads one thread records for one queue,
in the same flush or not, and `GoneInv` that none is lost on the way from a flush
to its queue; the batch of a flush keeps both. With `ValueInv` and `PassedInv`, what is released has been passed by the fence, so has all in
front of it.

**Submission: WaitInv.** A sync point becomes a wait in three steps, and the
invariant names the record each one leaves: the waits a payload has got through
are in `nextAwait` (`NotedInv`); what is in `nextAwait` and not in `maxAwait` is in
`FencesToAwait`, and what is in `maxAwait` stands in the queue's log (`AwaitedInv`);
so every call that executes a payload has a wait for each of its sync points in
front of it (`WaitsLogged`), which the GPU has passed if it carried out the call
(`WaitsPassed`). A value of 0 stands for a queue that has executed nothing with
command lists, which is why `WaitBeforeExecute` speaks of such payloads only.

**Submission: CarryInv.** A context puts its waits first and may flush them without
any command lists behind them (`GetPayload`, `CommandContext.h:143`), and a wait a
payload asks for may be skipped because an earlier one was issued. What a thread
records later for the queue relies on them all the same, and that is
`EarlierWaitsHonoured`. `CarryInv` says that the waits of an executed payload stay
noted (`NotedExecuted`) and that every execution in the log has the waits of its
earlier payloads in front of it (`EarlierLogged`). The step that needs both is
`ExecutePayload`: by `EarlierInv` the earlier payload has been executed, so its
waits are noted; `FencesToAwait` is empty, so by `AwaitedInv` what is noted stands
in the log, and the new execution comes behind it. Waits that are
forgotten when there is nothing to execute would break it, and no payload's own
waits (`WaitBeforeExecute`) would show it.

**Submission: InterruptInv, SubmissionInv.** Sleeping is the last of a pass over
the queues that found nothing. Both say of each queue with work that it is
blocked or watched, or still to be visited in this pass, or the pass has
already found something (and will be repeated), or the event is set or about to be.
A queue that was visited may become ready again only by a step that sets one of
these.

**TaskScheduler: WakeInv** is `OneWakePerSleep` with the types of the three
variables it is about. Each action either leaves flags and events alone and does
not move a thread into or out of its wait (`WakeMoves`), or wakes one thread on
its way (`WakeTries`), or is one of the two that enter and leave the sleep.

**TaskScheduler: PoolInv.** The lock of a ring is held by exactly the thread whose
stage says so (`LockInv`), and there is at most one. A pop lowers `queue_head` and a
steal raises `queue_tail` before they know whether they may; `Above` and `Below`
undo the claims that may be given back, `Base` also counts the slot a thief has
still to read, and `RingInv` says that between them the ring never holds more than
it has slots and every slot in it an operation. So each of the window's
positions has a slot of its own (`ModDistinct`), and what is written at the head
or copied to a larger ring leaves the others alone.

**TaskScheduler: WorkInv** adds that the common list, the deques, the hands and
what was resumed share no operation and have none twice (`OnePlace`), and that a
thread schedules each operation of a coroutine's agenda once (`TodoInv`; the agendas
are disjoint). The deques are read off the rings as the refinement mapping
does, and the proof that each step of the pool is one of `WorkPool` or none
(`PoolIsWorkPool`, one lemma per action) gives how they change, from which
`OnePlace` is inductive: an operation moves from one place to one other.

**RenderThread.** `FrameInv` adds to the types which fence each stage of the main
thread has in which place: of the two present fences the other one always
belongs to the previous frame. `OrderInv` says that the lists cut the recorded
commands into consecutive pieces (`Consecutive`), that the queue holds the
numbers of the lists after the last one popped, newest first where they arrive
(`QueueInv`), and that what is executed and what is left of the running task
make up the commands up to the end of that task (`ExecutedInv`). From these,
`FenceInv`: the fences of all frames but the last two are executed, since
`WaitPrevious` waits for one at a time. `SlotInv` counts, as long as nothing is
uploaded: a frame is two tasks, the second of which ends with the fence, so when
frame f is recorded, the tasks of frame f - 2 and before are done; each slot
holds a different task or none (`SwapInv`), `CommandTask` itself has no slot, and
`assign` only skips slots with unfinished tasks (`Skipped`). At most three tasks
can be unfinished and in a slot; with four slots one is left. With three the
statement is false.

**AsyncFiles: TokenInv** follows the right to run a coroutine. `Token(c)`: at
most one thread is in `c`, and none while its operation is pending or its one
completion is in the port, and not both. That alone is not inductive: a
completion must not find the coroutine done, or never started, and the
destructor must not write while an older operation is still to complete.
`Place(c)` says so: where the coroutine is, for each of the threads' stages in
it, and that it has no operation left once it is done. What a coroutine computes
plays no part; so `StepShapes` first shows that each of the 30 actions has one of
fifteen shapes, which say only how threads, port, requests and places change,
and one lemma per shape preserves the invariant.

**AsyncFiles: CountInv** gives the counter its meaning: it is the number of
tasks that have not notified it, and one more until the main thread waits. It
needs `TokenInv`, since a task that two threads could notify for would be counted
down twice. When it is zero every task is done and has notified
(`AtZero`), so the thread that goes on is the only one, and after the event is
set nobody is left in a coroutine; `Place` says the same of operations and
packets.

**AsyncFiles: ScheduleInv** counts. `ScheduledKept` is an equation between the
coroutines that wait for `schedule()` and the operations in the list, in a
thread's hands, in the port and taken. It needs that a coroutine which has
scheduled itself stays where it is (`Stuck`), so that no operation of it is counted
twice, and that a thread has taken a list exactly while it posts.

**AsyncFiles: DataInv and the refinement.** `Own(c)` says what the state of one
coroutine is wherever it may be suspended: where in its program it is, that the
buffer's indices stay in the buffer, that what the buffer holds is what the file
has there, or what it will have once it is flushed, and how far the call in
progress has come. `Hears(c)` says that what the kernel or the port has to tell
`c` is the outcome of the request `c` waits for. A step disturbs one coroutine
(`OneSteps`), and `TokenInv` makes sure that it is no other's. Each step is a step
of `ByteStreams` or none (`StreamsAreByteStreams`), one lemma per action: the
position that the mapping computes from `fileOffset`, the buffer and the call in
progress moves only when a call returns.

**UploadHeap: FrameInv** numbers the commands: a frame for each of those still to be
executed (`Numbered`), one more after each "end", from the frame the command
thread is in to the one being recorded. So the fences of the signals rise by
one from end to end, the GPU's value is behind, and a page in use by a recorded
command is not retired before the frame of that command. `HandInv` says who has
memory: a buffer in `location`, a command that carries it to a rename or a copy,
and that no buffer is created twice (`CreatedOnce`), so the next `CreateBuffer` of a
program finds none of its memory in use.

**UploadHeap: FastInv, UseInv.** What a payload uses must stay as long as its frame
is not complete (`FastUsed`, `KeptFor`): a page of the `FastAllocator` is the current
one or waits in the pool with a fence that is not smaller than the frame; memory
of the heap is owned, or was given back with a fence that is not smaller
(`UseFor`). Memory is given back by the command thread after the last command that
uses it, with the fence of the frame then being recorded, which by
`FrameInv` is not before the frame of any payload that is open or on its way.

**UploadHeap: SmallInv.** The memory of one heap is in one place: two buffers never
have the same, nor two commands, nor a buffer and a command (`Ledger`). In each
buddy allocator the blocks in use, the retired ones and the free lists tile the
whole (`AllocatorOK`, `BuddyOK`): each block is aligned to its size, no two of them
overlap, and each unit but the first is in one.

**UploadHeap: BigInv** says the same of the pools: the free blocks and the extents
of the blocks in use and of those in `operations` are disjoint and fill the pool
(`PoolsOK`), `freeSize` is the sum of the free ones, and `order` lists every pool once
(`OrderOK`). This is false in general, which the run `overlap` shows: an alignment that
does not divide the pool's own moves a block up, and the free block loses too
little. The theorems therefore say for
which requests the books are right: `AlignmentsDivide`, every alignment that is
asked for divides `PoolAlignment`, as 16, 256 and the sizes of vertices that are a
power of two do. `NeverRefused` also needs that requests are of a size the heap is
made for (`RequestsFit`): a small one fits a new buddy allocator, padding included, and
a big one a new pool. Both are statements about the constants only, and both are
true of the instance the run `heap` checks.

**ResourceStates: Exact.** Whether a barrier on the queue starts from the right state
was decided when it was recorded, by what the context tracked, and again when
the submission thread resolved what the list had left open. `Chain(q, S, T)` says
that the operations `q`, executed from the states `S`, each find what they name and
leave `T`. `Exact` says where chains lead: what is on the queue leads from the states
the resources are in to those tracked on them; and from any states that meet
what the open list expects (`Meets`), its commands and then its batch lead to those
states with the tracked ones in their place (`ContextOK`). The same holds of every closed
list, whose batch is empty (`ListOK`). So one lemma per operation of the context
suffices: a barrier is appended to, combined with or taken off the batch
(`BatchAdd`), a batch is moved into the list (`Flushed`), a first touch adds to
what is expected (`PendingAdded`). At submission `PendingChain` shows that the
resolved barriers lead from the tracked states to those the list expects; the
rest is concatenation (`ListSubmitted`).

The data of a new buffer is the exception: its copy and its transition name
`COPY_DEST` without asking, and nothing is pending for them. `LineOK` therefore
follows the buffers that a list fills: they are still in `COPY_DEST` in front of
that list, because until then nobody else touches them (`Fresh`, `Untouched`).

`UsesFindState` cannot hold for a command that asks for one subresource in two
states that exclude each other, or that executes with its transitions still in
the batch. `Agreed` says which commands are sound: whatever two requests of a command have
in common, they ask for in the same state or both to read, the latter not for
all subresources of several at once, which forces a state instead of merging it
(`CommandList.d3d12.cpp:220`), and the last request is the flush (`RequestsAgree`,
`RequestsFlushed`). It is a statement about the constants `Command` and `Requests`,
true of the commands of the run `states`. The other four theorems hold for any
commands.

**Assumptions.** Beyond the types of the constants: `None` is neither an operation
nor a thread of the pool, a coroutine is on at most one agenda; the programs of a
workload read streams that are opened for reading and write those opened for
writing (`WorkloadAssumption`); the payloads of a workload are on one program, once;
depth-stencil resources have two planes, buffers and the back buffer one
subresource, a buffer with initial data is created in `COPY_DEST`, and the states
commands request are those of the bindings (`CommandAssumption`).
They are the choice of names, or what the code's types and its callers say.

**Only model-checked:** liveness under fairness, which is out of the prover's reach.
Every invariant and every safety property of the passing runs has its theorem,
some of them under the conditions named above.
What a fold over a list computes is proved where an invariant rests on it, by
naming the intermediate results (`Passes`, `ListPasses` in `ResourceStatesProofs`)
and induction over positions (`UpTo`).

## 6. What is not modelled

In the modelled components:

* *Submission:* a removed device (fences at `UINT64_MAX`), the report of a hung
  GPU (its timed wait is kept: `timeoutArmed`), shutdown, builds without the
  submission or the interrupt thread, manual fences, tile mapping updates,
  queries, recording and splitting of payloads; how
  `GenerateBarrierCommandListAndUpdateState` finds the barriers is the subject of
  `ResourceStates`, here a payload says whether it needs some from the graphics
  queue. `bAlwaysSignal` is never set in
  the code.
* *TaskScheduler:* weak memory; `has_any_queued_work`, which only reads and has no
  caller; exceptions; threads outside the pool that never publish. The cap on a
  ring's size (`TaskScheduler.cpp:109`) compares with `queue_mask` and never
  applies; `EnqueueGrow` makes the same comparison, and how far a ring grows is
  bounded by the number of operations.
* *RenderThread:* what commands do; flushes from threads other than the main one;
  the build without a command thread, where a flush executes at once; what a
  release build does after the failed assertion (it destroys a coroutine that
  may be running).
* *Allocators:* the default buffer allocator (pools of the same kind, with
  unlocking of several lists and defragmentation), placed and standalone
  resources, textures, pending deletes. Of `Map`, the rename through a command is
  modelled, and the rename it does at once, when the command list is already
  executing or another access is asked for, is not; nor is memory given back by
  the destructor of a buffer on another thread. The `FastAllocator` of the model is the
  one buffers use; command contexts have others of the same kind.
* *Fences:* `Fence::Signal`, `WaitForFence` and `GpuWait`.
* *I/O:* `stop`, `reset` and `process_one_pending_event`, cancellation, and
  `read_only_file` and its relatives, none of which the engine calls;
  `MemoryAsyncReadStream`, an index into a buffer. The assertion in
  `Task<void>`'s `unhandled_exception` is taken as compiled out.

* *Resource states:* resources whose state is not tracked; aliasing resources for
  UAVs (`GetUAVAccessResource()` is always null) and compute or copy contexts (none
  is created), with the branches of `GenerateBarrierCommandListAndUpdateState`
  for them; which bindings the state cache finds unchanged and does not request
  again; texture maps and copies, which are executed past the tracking; what
  Direct3D promotes to and decays from by itself (the model asks for the explicit
  barriers); ray tracing.

Not modelled: descriptor heaps and caches, the asset cache (between lookup and insertion, `AssetResourceScheduler.h:28`, two
coroutines may load one asset twice), the render graph; see section 7. The
other components are listed in `PROJECT.json` with the reason. Vendored code
(sqlite, imgui, spdlog, folly, lz4, metis, SDKs), shaders, tools and samples are
outside the scope, and they are most of the repository's lines. Sequential code
over large data (meshes, images, the Scheme interpreter, character tables) has
little that a model checker would find before a test.

## 7. The plan

In the order of importance:

1. **Done:** the models of `Submission`, `TaskScheduler` with `WorkPool`, `RenderThread`,
   `UploadHeap` with its allocators, `AsyncFiles` with `ByteStreams`,
   `ResourceStates`.
2. **Done:** the proofs of their invariants and of the two refinements (section 5).
3. **Which bindings request a transition**: the dirty slots of the state cache in
   front of `ResourceStates`, and the texture copies beside it.
4. **An abstract submission pipe**: payloads complete in an order that respects
   queues and waits; `Submission` implements it.
5. **`Fence`**: concurrent `Signal`, `IsFenceComplete`, `WaitForFence` with its one
   event.
6. **The default buffer allocator**, with defragmentation, and
   **`AssetResourceScheduler`**'s cache.
