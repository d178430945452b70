----------------------------- MODULE Submission -----------------------------
(***************************************************************************)
(* The D3D12 submission pipe of Engine/D3D12 (Submission.cpp, NodeQueue.h, *)
(* FlushCommands of CommandContext.d3d12.cpp).                             *)
(*                                                                         *)
(* Engine threads flush their contexts: the recorded payloads go, one by   *)
(* one, into the PendingSubmission FIFO of their hardware queue and the    *)
(* submission thread is kicked.  The submission thread resolves the sync   *)
(* points each payload waits on, hands command lists, waits and fence      *)
(* signals to the GPU queue, and passes the payload on to PendingInterrupt.*)
(* The interrupt thread watches the fences and, when the GPU is done, sets *)
(* the completion events and releases what the payload held.               *)
(*                                                                         *)
(* Every payload signals one sync point, which carries the payload's name, *)
(* so SyncPointsToWait is a sequence of payloads.  A GPU queue is the log  *)
(* of the calls made on its ID3D12CommandQueue and the length of the       *)
(* prefix the GPU has carried out.                                         *)
(***************************************************************************)
EXTENDS Naturals, Sequences, FiniteSets, Functions

CONSTANTS
    Queue,          \* the NodeQueues of all devices
    QueueOrder,     \* the order in which ForEachQueue visits them
    GraphicsQueue,  \* the Direct queue of the device a queue belongs to
    Payload,        \* the payloads recorded by the engine's contexts
    EngineThread,   \* the threads that call FlushCommands
    Workloads,      \* what the threads record, in order, the contents of
                    \* these payloads, and the sets of D3DFlushFlags the
                    \* threads flush with
    NoPayload       \* the null PayloadToSubmit

Contents ==
    [queue : Queue, waits : Seq(Payload), lists : BOOLEAN, barrier : BOOLEAN]

(***************************************************************************)
(* Only command lists need barriers, and only those of another queue need  *)
(* any from the graphics queue.  (Barriers the payload's own queue can do  *)
(* are command lists of the payload.)                                      *)
(***************************************************************************)
WellFormed(c) ==
    c.barrier => c.lists /\ GraphicsQueue[c.queue] # c.queue

ASSUME QueueAssumption ==
    /\ QueueOrder \in Seq(Queue)
    /\ Queue = {QueueOrder[i] : i \in 1..Len(QueueOrder)}
    /\ Len(QueueOrder) > 0
    /\ GraphicsQueue \in [Queue -> Queue]

ASSUME WorkloadAssumption ==
    /\ NoPayload \notin Payload \X {"recorded", "barrier"}
    /\ Workloads \subseteq
            [program : [EngineThread -> Seq(Payload)],
             contents : [Payload -> Contents],
             flags : SUBSET SUBSET {"submission", "completion"}]
    /\ \A w \in Workloads : \A t, u \in EngineThread :
        \A i \in 1..Len(w.program[t]), j \in 1..Len(w.program[u]) :
            w.program[t][i] = w.program[u][j] => t = u /\ i = j
    /\ \A w \in Workloads, p \in Payload : WellFormed(w.contents[p])

-----------------------------------------------------------------------------

VARIABLES
    program,           \* the payloads each engine thread records
    work,              \* the contents of the payloads
    flushFlags,        \* the flags to flush with; all three never change
    epc,               \* where each engine thread is in FlushCommands
    nextPayload,       \* the next payload of its program
    batch,             \* the payloads Finalize returned, not yet enqueued
    flushed,           \* the last payload of the flush, and its flags
    holder,            \* the payload that releases the allocator of each one
    pendingSubmission, \* NodeQueue::PendingSubmission
    submissionEvent,   \* the auto-reset event of the submission thread
    spc,               \* where the submission thread is
    squeue,            \* the queue it visits (an index in QueueOrder)
    toSubmit,          \* NodeQueue::PayloadToSubmit
    handDown,          \* PayloadsToHandDown
    sprocessed,        \* Result.Status has Processed
    waitIndex,         \* SyncPointsToWait.Index of each payload
    executed,          \* ExecutePayload has run: ResolvedFence has a value
    completionValue,   \* Payload::CompletionFenceValue
    fenceValue,        \* Fence.FenceValueAvailableAt of each queue
    nextAwait,         \* RemoteFenceStates[..].NextValueToAwait
    maxAwait,          \* RemoteFenceStates[..].MaxValueAwaited
    fencesToAwait,     \* NodeQueue::FencesToAwait
    pendingInterrupt,  \* NodeQueue::PendingInterrupt
    interruptEvent,    \* the auto-reset event of the interrupt thread
    ipc,               \* where the interrupt thread is
    iqueue,            \* the queue it visits
    iprocessed,        \* its Result.Status has Processed
    interruptAwaited,  \* Fence.bInterruptAwaited
    timeoutArmed,      \* Result.WaitTimeout is finite
    complete,          \* sync points whose CompletionEvent is set
    released,          \* payloads the interrupt thread has deleted
    ops,               \* the calls made on each ID3D12CommandQueue
    gpuDone,           \* how many of them the GPU has carried out
    completedValue,    \* GetCompletedValue() of each queue's fence
    registered         \* values SetEventOnCompletion is armed for

workload == <<program, work, flushFlags>>
engineVars == <<workload, epc, nextPayload, batch, flushed, holder>>
submitVars == <<spc, squeue, toSubmit, handDown, sprocessed, waitIndex>>
resultVars == <<executed, completionValue, fenceValue>>
awaitVars == <<nextAwait, maxAwait, fencesToAwait>>
interruptVars == <<ipc, iqueue, iprocessed, interruptAwaited, timeoutArmed,
                   complete, released>>
gpuVars == <<gpuDone, completedValue, registered>>
vars == <<engineVars, pendingSubmission, submissionEvent, submitVars,
          resultVars, awaitVars, pendingInterrupt, interruptEvent,
          interruptVars, ops, gpuVars>>

-----------------------------------------------------------------------------
(* Payloads: what a context recorded, or the barrier work made for one.    *)

Recorded(p) == <<p, "recorded">>
Barrier(p) == <<p, "barrier">>
AnyPayload == Payload \X {"recorded", "barrier"}

QueueOf(x) ==
    IF x[2] = "barrier" THEN GraphicsQueue[work[x[1]].queue]
                        ELSE work[x[1]].queue

HasLists(x) == x[2] = "barrier" \/ work[x[1]].lists

Current == QueueOrder[squeue]
Visited == QueueOrder[iqueue]

Op == [kind : {"wait"}, queue : Queue, value : Nat]
      \union [kind : {"execute"}, payload : AnyPayload]
      \union [kind : {"signal"}, value : Nat]

WaitOp(q, v) == [kind |-> "wait", queue |-> q, value |-> v]
ExecuteOp(x) == [kind |-> "execute", payload |-> x]
SignalOp(v) == [kind |-> "signal", value |-> v]

\* Fault: the latest value awaited instead of the largest.
LatestOf(a, b) == b
MaxOf(a, b) == IF a > b THEN a ELSE b

Loaded ==
    \E w \in Workloads :
        program = w.program /\ work = w.contents /\ flushFlags = w.flags

Init ==
    /\ Loaded
    /\ epc = [t \in EngineThread |-> "record"]
    /\ nextPayload = [t \in EngineThread |-> 1]
    /\ batch = [t \in EngineThread |-> <<>>]
    /\ flushed = [t \in EngineThread |-> [last |-> NoPayload, flags |-> {}]]
    /\ holder = [p \in Payload |-> NoPayload]
    /\ pendingSubmission = [q \in Queue |-> <<>>]
    /\ submissionEvent = FALSE
    /\ spc = "visit"
    /\ squeue = 1
    /\ toSubmit = [q \in Queue |-> NoPayload]
    /\ handDown = <<>>
    /\ sprocessed = FALSE
    /\ waitIndex = [p \in Payload |-> 0]
    /\ executed = {}
    /\ completionValue = [x \in AnyPayload |-> 0]
    /\ fenceValue = [q \in Queue |-> 0]
    /\ nextAwait = [q \in Queue |-> [f \in Queue |-> 0]]
    /\ maxAwait = [q \in Queue |-> [f \in Queue |-> 0]]
    /\ fencesToAwait = [q \in Queue |-> <<>>]
    /\ pendingInterrupt = [q \in Queue |-> <<>>]
    /\ interruptEvent = FALSE
    /\ ipc = "visit"
    /\ iqueue = 1
    /\ iprocessed = FALSE
    /\ interruptAwaited = [q \in Queue |-> FALSE]
    /\ timeoutArmed = FALSE
    /\ complete = {}
    /\ released = {}
    /\ ops = [q \in Queue |-> <<>>]
    /\ gpuDone = [q \in Queue |-> 0]
    /\ completedValue = [q \in Queue |-> 0]
    /\ registered = [q \in Queue |-> {}]

-----------------------------------------------------------------------------
(* The engine threads: FlushCommands, SubmitPayloads.                      *)

(***************************************************************************)
(* Finalize attaches the allocator of the context's command lists to one   *)
(* of the payloads it returns: the last.                                   *)
(***************************************************************************)
\* Fault: the allocator attached to the first payload of a flush.
FirstOfBatch(b) == Recorded(b[1])
AllocatorHolder(b) == Recorded(b[Len(b)])

(***************************************************************************)
(* FlushCommands takes the payloads the context recorded since the last    *)
(* flush, all of the context's queue type.                                 *)
(***************************************************************************)
FlushCommands(t) ==
    /\ epc[t] = "record"
    /\ \E n \in nextPayload[t]..Len(program[t]), flags \in flushFlags :
        LET b == SubSeq(program[t], nextPayload[t], n) IN
        /\ \A i \in 1..Len(b) : work[b[i]].queue = work[b[1]].queue
        /\ batch' = [batch EXCEPT ![t] = b]
        /\ nextPayload' = [nextPayload EXCEPT ![t] = n + 1]
        /\ flushed' = [flushed EXCEPT ![t] =
                          [last |-> Recorded(program[t][n]), flags |-> flags]]
        /\ holder' = [p \in Payload |->
                         IF \E i \in 1..Len(b) : b[i] = p
                         THEN AllocatorHolder(b) ELSE holder[p]]
    /\ epc' = [epc EXCEPT ![t] = "submit"]
    /\ UNCHANGED <<workload, pendingSubmission, submissionEvent, submitVars,
                   resultVars, awaitVars, pendingInterrupt, interruptEvent,
                   interruptVars, ops, gpuVars>>

EnqueuePayload(t) ==
    /\ epc[t] = "submit"
    /\ batch[t] # <<>>
    /\ LET q == work[Head(batch[t])].queue IN
        pendingSubmission' = [pendingSubmission EXCEPT ![q] =
                                 Append(@, Head(batch[t]))]
    /\ batch' = [batch EXCEPT ![t] = Tail(@)]
    /\ UNCHANGED <<workload, epc, nextPayload, flushed, holder,
                   submissionEvent, submitVars, resultVars, awaitVars,
                   pendingInterrupt, interruptEvent, interruptVars, ops, gpuVars>>

KickSubmission(t) ==
    /\ epc[t] = "submit"
    /\ batch[t] = <<>>
    /\ submissionEvent' = TRUE
    /\ epc' = [epc EXCEPT ![t] = "wait"]
    /\ UNCHANGED <<workload, nextPayload, batch, flushed, holder,
                   pendingSubmission, submitVars, resultVars, awaitVars,
                   pendingInterrupt, interruptEvent, interruptVars, ops,
                   gpuVars>>

(***************************************************************************)
(* SyncPoint::Wait calls ProcessInterruptQueueUntil if the CompletionEvent *)
(* is ready; that function blocks until the event is ready, so as long as  *)
(* it is not.                                                              *)
(***************************************************************************)
EventReady(x) == x[1] \in complete

SyncPointBlocks(x) == EventReady(x) /\ ~EventReady(x)

FlushReturns(t) ==
    /\ epc[t] = "wait"
    /\ "completion" \in flushed[t].flags => ~ SyncPointBlocks(flushed[t].last)
    /\ "submission" \in flushed[t].flags => flushed[t].last \in executed
    /\ epc' = [epc EXCEPT ![t] = "record"]
    /\ UNCHANGED <<workload, nextPayload, batch, flushed, holder,
                   pendingSubmission, submissionEvent, submitVars,
                   resultVars, awaitVars, pendingInterrupt, interruptEvent,
                   interruptVars, ops, gpuVars>>

-----------------------------------------------------------------------------
(* The submission thread: one pass of ProcessSubmissionQueue over the      *)
(* queues, again as long as a pass processed something, then to sleep.     *)

(***************************************************************************)
(* The visit of a queue ends: on to the next one, or to the payloads to    *)
(* hand down.                                                              *)
(***************************************************************************)
\* Faults: ForEachQueue runs one index too far, or not far enough.
MoreQueuesOffByOne(i) == i <= Len(QueueOrder)
LastQueueLeftOut(i) == i + 1 < Len(QueueOrder)
MoreQueues(i) == i < Len(QueueOrder)

LeaveQueue ==
    IF MoreQueues(squeue)
    THEN squeue' = squeue + 1 /\ spc' = "visit"
    ELSE squeue' = 1 /\ spc' = "handdown"

AddUnique(s, f) == IF \E i \in 1..Len(s) : s[i] = f THEN s ELSE Append(s, f)

(***************************************************************************)
(* EnqueueFenceWait(f, v) of queue q.                                      *)
(***************************************************************************)
EnqueueFenceWait(q, f, v) ==
    /\ nextAwait' = [nextAwait EXCEPT ![q][f] = MaxOf(@, v)]
    /\ fencesToAwait' = [fencesToAwait EXCEPT ![q] = AddUnique(@, f)]

Front == Head(pendingSubmission[Current])

SkipEmpty ==
    /\ spc = "visit"
    /\ pendingSubmission[Current] = <<>>
    /\ LeaveQueue
    /\ UNCHANGED <<engineVars, pendingSubmission, submissionEvent, toSubmit,
                   handDown, sprocessed, waitIndex, resultVars, awaitVars,
                   pendingInterrupt, interruptEvent, interruptVars, ops,
                   gpuVars>>

(***************************************************************************)
(* The front payload waits on a sync point that is resolved: its fence and *)
(* value join what the queue must await.                                   *)
(***************************************************************************)
AccumulateWait ==
    /\ spc = "visit"
    /\ pendingSubmission[Current] # <<>>
    /\ waitIndex[Front] < Len(work[Front].waits)
    /\ LET s == Recorded(work[Front].waits[waitIndex[Front] + 1]) IN
        /\ s \in executed
        /\ EnqueueFenceWait(Current, QueueOf(s), completionValue[s])
    /\ waitIndex' = [waitIndex EXCEPT ![Front] = @ + 1]
    /\ UNCHANGED <<engineVars, pendingSubmission, submissionEvent, spc, squeue,
                   toSubmit, handDown, sprocessed, resultVars, maxAwait,
                   pendingInterrupt, interruptEvent, interruptVars, ops,
                   gpuVars>>

(***************************************************************************)
(* It waits on one that is not: the queue is left for a later pass.        *)
(***************************************************************************)
SkipUnresolved ==
    /\ spc = "visit"
    /\ pendingSubmission[Current] # <<>>
    /\ waitIndex[Front] < Len(work[Front].waits)
    /\ Recorded(work[Front].waits[waitIndex[Front] + 1]) \notin executed
    /\ LeaveQueue
    /\ UNCHANGED <<engineVars, pendingSubmission, submissionEvent, toSubmit,
                   handDown, sprocessed, waitIndex, resultVars, awaitVars,
                   pendingInterrupt, interruptEvent, interruptVars, ops,
                   gpuVars>>

(***************************************************************************)
(* All its waits are known: the payload is taken, its barrier command      *)
(* lists are generated, and the payloads concerned are noted for the       *)
(* interrupt thread.                                                       *)
(***************************************************************************)
TakePayload ==
    /\ spc = "visit"
    /\ pendingSubmission[Current] # <<>>
    /\ waitIndex[Front] = Len(work[Front].waits)
    /\ LET p == Front
           g == GraphicsQueue[Current]
           elsewhere == work[p].barrier IN
        /\ pendingSubmission' = [pendingSubmission EXCEPT ![Current] = Tail(@)]
        /\ toSubmit' = IF elsewhere
                       THEN [toSubmit EXCEPT ![Current] = Recorded(p),
                                             ![g] = Barrier(p)]
                       ELSE [toSubmit EXCEPT ![Current] = Recorded(p)]
        /\ handDown' = IF elsewhere
                       THEN Append(Append(handDown, Recorded(p)), Barrier(p))
                       ELSE Append(handDown, Recorded(p))
        /\ spc' = IF elsewhere THEN "barrier" ELSE "await"
    /\ sprocessed' = TRUE
    /\ UNCHANGED <<engineVars, submissionEvent, squeue, waitIndex, resultVars,
                   awaitVars, pendingInterrupt, interruptEvent, interruptVars,
                   ops, gpuVars>>

-----------------------------------------------------------------------------
ExecuteThenSignal(log, x, v) == Append(Append(log, ExecuteOp(x)), SignalOp(v))

(***************************************************************************)
(* ExecutePayload of queue q: the command lists, a fence signal if there   *)
(* were any (bAlwaysSignal is never set), the value into the payload and   *)
(* its sync point, the SubmissionEvent.                                    *)
(***************************************************************************)
ExecutePayload(q) ==
    LET x == toSubmit[q]
        v == IF HasLists(x) THEN fenceValue[q] + 1 ELSE fenceValue[q] IN
    /\ ops' = IF HasLists(x)
              THEN [ops EXCEPT ![q] = ExecuteThenSignal(@, x, v)]
              ELSE ops
    /\ fenceValue' = [fenceValue EXCEPT ![q] = v]
    /\ completionValue' = [completionValue EXCEPT ![x] = v]
    /\ executed' = executed \union {x}
    /\ toSubmit' = [toSubmit EXCEPT ![q] = NoPayload]

(***************************************************************************)
(* What ExecutePayload returns to the loop over the other queues.          *)
(***************************************************************************)
ExecuteReturnValue == 0

(***************************************************************************)
(* The barrier work goes to the graphics queue first; the current queue is *)
(* to await the value its execution returned.                              *)
(***************************************************************************)
ExecuteBarrier ==
    /\ spc = "barrier"
    /\ ExecutePayload(GraphicsQueue[Current])
    /\ EnqueueFenceWait(Current, GraphicsQueue[Current], ExecuteReturnValue)
    /\ spc' = "await"
    /\ UNCHANGED <<engineVars, pendingSubmission, submissionEvent, squeue,
                   handDown, sprocessed, waitIndex, maxAwait, pendingInterrupt,
                   interruptEvent, interruptVars, gpuVars>>

\* Fault: a payload without command lists has nothing to hold back.
AwaitForWork(q, f) == HasLists(toSubmit[q]) /\ nextAwait[q][f] > maxAwait[q][f]
MustAwait(q, f) == nextAwait[q][f] > maxAwait[q][f]

(***************************************************************************)
(* FlushFenceWaits, one fence at a time: a wait already issued for a value *)
(* as high is skipped.                                                     *)
(***************************************************************************)
FlushFenceWait ==
    /\ spc = "await"
    /\ fencesToAwait[Current] # <<>>
    /\ LET q == Current
           f == Head(fencesToAwait[q])
           v == nextAwait[q][f] IN
        /\ fencesToAwait' = [fencesToAwait EXCEPT ![q] = Tail(@)]
        /\ IF MustAwait(q, f)
           THEN /\ ops' = [ops EXCEPT ![q] = Append(@, WaitOp(f, v))]
                /\ maxAwait' = [maxAwait EXCEPT ![q][f] = v]
           ELSE UNCHANGED <<ops, maxAwait>>
    /\ UNCHANGED <<engineVars, pendingSubmission, submissionEvent, submitVars,
                   resultVars, nextAwait, pendingInterrupt, interruptEvent,
                   interruptVars, gpuVars>>

ExecuteCurrent ==
    /\ spc = "await"
    /\ fencesToAwait[Current] = <<>>
    /\ ExecutePayload(Current)
    /\ spc' = "visit"
    /\ UNCHANGED <<engineVars, pendingSubmission, submissionEvent, squeue,
                   handDown, sprocessed, waitIndex, awaitVars,
                   pendingInterrupt, interruptEvent, interruptVars, gpuVars>>

HandDown ==
    /\ spc = "handdown"
    /\ handDown # <<>>
    /\ LET q == QueueOf(Head(handDown)) IN
        pendingInterrupt' = [pendingInterrupt EXCEPT ![q] =
                                Append(@, Head(handDown))]
    /\ handDown' = Tail(handDown)
    /\ UNCHANGED <<engineVars, pendingSubmission, submissionEvent, spc, squeue,
                   toSubmit, sprocessed, waitIndex, resultVars, awaitVars,
                   interruptEvent, interruptVars, ops, gpuVars>>

\* Fault: the interrupt thread is not kicked after a pass.
NoKick == FALSE
KickInterrupt == sprocessed

\* Fault: the submission thread sleeps after every pass.
SleepAfterPass == "sleep"
AfterPass == IF sprocessed THEN "visit" ELSE "sleep"

(***************************************************************************)
(* The pass is over: if it processed anything the interrupt thread is      *)
(* kicked and another pass follows, otherwise the thread goes to sleep.    *)
(***************************************************************************)
EndPass ==
    /\ spc = "handdown"
    /\ handDown = <<>>
    /\ interruptEvent' = (interruptEvent \/ KickInterrupt)
    /\ spc' = AfterPass
    /\ sprocessed' = FALSE
    /\ UNCHANGED <<engineVars, pendingSubmission, submissionEvent, squeue,
                   toSubmit, handDown, waitIndex, resultVars, awaitVars,
                   pendingInterrupt, interruptVars, ops, gpuVars>>

WakeSubmission ==
    /\ spc = "sleep"
    /\ submissionEvent
    /\ submissionEvent' = FALSE
    /\ spc' = "visit"
    /\ UNCHANGED <<engineVars, pendingSubmission, squeue, toSubmit, handDown,
                   sprocessed, waitIndex, resultVars, awaitVars,
                   pendingInterrupt, interruptEvent, interruptVars, ops,
                   gpuVars>>

-----------------------------------------------------------------------------
(* The interrupt thread: ProcessInterruptQueue.                            *)

AwaitedPayload == Head(pendingInterrupt[Visited])

\* Fault: a payload complete one fence value too early.
PassedOneEarly(q, x) == completedValue[q] + 1 >= completionValue[x]
Passed(q, x) == completedValue[q] >= completionValue[x]

\* Fault: bInterruptAwaited stays set when the payload completes.
KeepAwaited(q) == interruptAwaited
ForgetAwaited(q) == [interruptAwaited EXCEPT ![q] = FALSE]

(***************************************************************************)
(* On to the next queue; after the last one another pass, or to sleep.     *)
(***************************************************************************)
LeaveVisited(processed, armed) ==
    IF MoreQueues(iqueue)
    THEN /\ iqueue' = iqueue + 1
         /\ ipc' = "visit"
         /\ iprocessed' = processed
         /\ timeoutArmed' = armed
    ELSE /\ iqueue' = 1
         /\ ipc' = IF processed THEN "visit" ELSE "sleep"
         /\ iprocessed' = FALSE
         /\ timeoutArmed' = (armed /\ ~ processed)

SkipIdle ==
    /\ ipc = "visit"
    /\ pendingInterrupt[Visited] = <<>>
    /\ LeaveVisited(iprocessed, timeoutArmed)
    /\ UNCHANGED <<engineVars, pendingSubmission, submissionEvent, submitVars,
                   resultVars, awaitVars, pendingInterrupt, interruptEvent,
                   interruptAwaited, complete, released, ops, gpuVars>>

(***************************************************************************)
(* The GPU has passed the payload's fence value: its sync points are       *)
(* completed and it is deleted, which resets the allocators it holds.      *)
(***************************************************************************)
CompletePayload ==
    /\ ipc = "visit"
    /\ pendingInterrupt[Visited] # <<>>
    /\ Passed(Visited, AwaitedPayload)
    /\ interruptAwaited' = ForgetAwaited(Visited)
    /\ pendingInterrupt' = [pendingInterrupt EXCEPT ![Visited] = Tail(@)]
    /\ iprocessed' = TRUE
    /\ complete' = IF AwaitedPayload[2] = "recorded"
                   THEN complete \union {AwaitedPayload[1]} ELSE complete
    /\ released' = released \union {AwaitedPayload}
    /\ UNCHANGED <<engineVars, pendingSubmission, submissionEvent, submitVars,
                   resultVars, awaitVars, interruptEvent, ipc, iqueue,
                   timeoutArmed, ops, gpuVars>>

(***************************************************************************)
(* The queue is left with its payload incomplete.  If the time since its   *)
(* submission allows (it has not been reported as hung yet), the thread's  *)
(* next wait is a timed one.                                               *)
(***************************************************************************)
LeaveIncomplete ==
    \E timed \in BOOLEAN : LeaveVisited(iprocessed, timeoutArmed \/ timed)

(***************************************************************************)
(* The driver is already asked to wake the thread.                         *)
(***************************************************************************)
AlreadyAwaited ==
    /\ ipc = "visit"
    /\ pendingInterrupt[Visited] # <<>>
    /\ ~ Passed(Visited, AwaitedPayload)
    /\ interruptAwaited[Visited]
    /\ LeaveIncomplete
    /\ UNCHANGED <<engineVars, pendingSubmission, submissionEvent, submitVars,
                   resultVars, awaitVars,
                   pendingInterrupt, interruptEvent, interruptAwaited,
                   complete, released, ops, gpuVars>>

(***************************************************************************)
(* It has not: the driver is to set the thread's event when it does, which *)
(* may have happened since the value was read.                             *)
(***************************************************************************)
FindIncomplete ==
    /\ ipc = "visit"
    /\ pendingInterrupt[Visited] # <<>>
    /\ ~ Passed(Visited, AwaitedPayload)
    /\ ~ interruptAwaited[Visited]
    /\ ipc' = "await"
    /\ UNCHANGED <<engineVars, pendingSubmission, submissionEvent, submitVars,
                   resultVars, awaitVars, pendingInterrupt, interruptEvent,
                   iqueue, iprocessed, interruptAwaited, timeoutArmed,
                   complete, released, ops, gpuVars>>

SetEventOnCompletion(q, v) ==
    IF completedValue[q] >= v
    THEN interruptEvent' = TRUE /\ registered' = registered
    ELSE /\ registered' = [registered EXCEPT ![q] = @ \union {v}]
         /\ interruptEvent' = interruptEvent

AwaitCompletion ==
    /\ ipc = "await"
    /\ SetEventOnCompletion(Visited, completionValue[AwaitedPayload])
    /\ interruptAwaited' = [interruptAwaited EXCEPT ![Visited] = TRUE]
    /\ LeaveIncomplete
    /\ UNCHANGED <<engineVars, pendingSubmission, submissionEvent, submitVars,
                   resultVars, awaitVars,
                   pendingInterrupt, complete, released, ops, gpuDone,
                   completedValue>>

WakeInterrupt ==
    /\ ipc = "sleep"
    /\ \/ interruptEvent /\ interruptEvent' = FALSE
       \/ timeoutArmed /\ interruptEvent' = interruptEvent
    /\ ipc' = "visit"
    /\ timeoutArmed' = FALSE
    /\ UNCHANGED <<engineVars, pendingSubmission, submissionEvent, submitVars,
                   resultVars, awaitVars, pendingInterrupt, iqueue, iprocessed,
                   interruptAwaited, complete, released, ops, gpuVars>>

-----------------------------------------------------------------------------
(* The GPU: each queue carries out its calls in order.                     *)

NextOp(q) == ops[q][gpuDone[q] + 1]

GpuReady(q, kind) == gpuDone[q] < Len(ops[q]) /\ NextOp(q).kind = kind

GpuWait(q) ==
    /\ GpuReady(q, "wait")
    /\ completedValue[NextOp(q).queue] >= NextOp(q).value
    /\ gpuDone' = [gpuDone EXCEPT ![q] = @ + 1]
    /\ UNCHANGED <<engineVars, pendingSubmission, submissionEvent, submitVars,
                   resultVars, awaitVars, pendingInterrupt, interruptEvent,
                   interruptVars, ops, completedValue, registered>>

GpuExecute(q) ==
    /\ GpuReady(q, "execute")
    /\ gpuDone' = [gpuDone EXCEPT ![q] = @ + 1]
    /\ UNCHANGED <<engineVars, pendingSubmission, submissionEvent, submitVars,
                   resultVars, awaitVars, pendingInterrupt, interruptEvent,
                   interruptVars, ops, completedValue, registered>>

(***************************************************************************)
(* A signal sets the fence and fires the events armed for its value.       *)
(***************************************************************************)
GpuSignal(q) ==
    /\ GpuReady(q, "signal")
    /\ LET v == NextOp(q).value IN
        /\ completedValue' = [completedValue EXCEPT ![q] = v]
        /\ registered' = [registered EXCEPT ![q] = {r \in @ : r > v}]
        /\ interruptEvent' = (interruptEvent
                              \/ \E r \in registered[q] : r <= v)
    /\ gpuDone' = [gpuDone EXCEPT ![q] = @ + 1]
    /\ UNCHANGED <<engineVars, pendingSubmission, submissionEvent, submitVars,
                   resultVars, awaitVars, pendingInterrupt, interruptVars,
                   ops>>

-----------------------------------------------------------------------------

Engine(t) == FlushCommands(t) \/ EnqueuePayload(t) \/ KickSubmission(t)
             \/ FlushReturns(t)

SubmissionThread ==
    \/ SkipEmpty \/ AccumulateWait \/ SkipUnresolved \/ TakePayload
    \/ ExecuteBarrier \/ FlushFenceWait \/ ExecuteCurrent
    \/ HandDown \/ EndPass \/ WakeSubmission

InterruptThread ==
    \/ SkipIdle \/ CompletePayload \/ AlreadyAwaited \/ FindIncomplete
    \/ AwaitCompletion \/ WakeInterrupt

Gpu(q) == GpuWait(q) \/ GpuExecute(q) \/ GpuSignal(q)

Next ==
    \/ \E t \in EngineThread : Engine(t)
    \/ SubmissionThread
    \/ InterruptThread
    \/ \E q \in Queue : Gpu(q)

Spec == Init /\ [][Next]_vars

(***************************************************************************)
(* The threads and the hardware queues run on; an engine thread finishes   *)
(* the flush it began, and need not record anything.                       *)
(***************************************************************************)
Fairness ==
    /\ WF_vars(SubmissionThread)
    /\ WF_vars(InterruptThread)
    /\ \A q \in Queue : WF_vars(Gpu(q))
    /\ \A t \in EngineThread :
        WF_vars(EnqueuePayload(t) \/ KickSubmission(t) \/ FlushReturns(t))

FairSpec == Spec /\ Fairness

-----------------------------------------------------------------------------
(* What the pipe promises.                                                 *)

(***************************************************************************)
(* The variables keep their types, and no queue carries out more calls     *)
(* than were made on it.                                                   *)
(***************************************************************************)
EngineTypeOK ==
    /\ Loaded
    /\ epc \in [EngineThread -> {"record", "submit", "wait"}]
    /\ nextPayload \in [EngineThread -> Nat \ {0}]
    /\ batch \in [EngineThread -> Seq(Payload)]
    /\ flushed \in [EngineThread ->
                       [last : AnyPayload \union {NoPayload},
                        flags : SUBSET {"submission", "completion"}]]
    /\ holder \in [Payload -> AnyPayload \union {NoPayload}]

PendingTypeOK ==
    /\ pendingSubmission \in [Queue -> Seq(Payload)]
    /\ submissionEvent \in BOOLEAN
    /\ pendingInterrupt \in [Queue -> Seq(AnyPayload)]
    /\ interruptEvent \in BOOLEAN

SubmitTypeOK ==
    /\ spc \in {"visit", "barrier", "await", "handdown", "sleep"}
    /\ squeue \in 1..Len(QueueOrder)
    /\ toSubmit \in [Queue -> AnyPayload \union {NoPayload}]
    /\ handDown \in Seq(AnyPayload)
    /\ sprocessed \in BOOLEAN
    /\ waitIndex \in [Payload -> Nat]

ResultTypeOK ==
    /\ executed \in SUBSET AnyPayload
    /\ completionValue \in [AnyPayload -> Nat]
    /\ fenceValue \in [Queue -> Nat]

AwaitTypeOK ==
    /\ nextAwait \in [Queue -> [Queue -> Nat]]
    /\ maxAwait \in [Queue -> [Queue -> Nat]]
    /\ fencesToAwait \in [Queue -> Seq(Queue)]

InterruptTypeOK ==
    /\ ipc \in {"visit", "await", "sleep"}
    /\ iqueue \in 1..Len(QueueOrder)
    /\ iprocessed \in BOOLEAN
    /\ interruptAwaited \in [Queue -> BOOLEAN]
    /\ timeoutArmed \in BOOLEAN
    /\ complete \in SUBSET Payload
    /\ released \in SUBSET AnyPayload

GpuTypeOK ==
    /\ ops \in [Queue -> Seq(Op)]
    /\ gpuDone \in [Queue -> Nat]
    /\ \A q \in Queue : gpuDone[q] <= Len(ops[q])
    /\ completedValue \in [Queue -> Nat]
    /\ registered \in [Queue -> SUBSET Nat]

TypeOK ==
    /\ EngineTypeOK
    /\ PendingTypeOK
    /\ SubmitTypeOK
    /\ ResultTypeOK
    /\ AwaitTypeOK
    /\ InterruptTypeOK
    /\ GpuTypeOK

(***************************************************************************)
(* The GPU has nothing left to do for payload x.                           *)
(***************************************************************************)
Finished(x) ==
    /\ x \in executed
    /\ \A q \in Queue : \A i \in 1..Len(ops[q]) :
        ops[q][i] = ExecuteOp(x) => i <= gpuDone[q]

(***************************************************************************)
(* A payload is deleted, and its allocators reset, only when the GPU no    *)
(* longer reads its command lists.                                         *)
(***************************************************************************)
ReleaseAfterWork == \A x \in released : Finished(x)

(***************************************************************************)
(* The allocator of a context's command lists is reset only when the GPU   *)
(* has carried out all the payloads of the flush it was used for.          *)
(***************************************************************************)
AllocatorAfterWork ==
    \A p \in Payload : holder[p] \in released => Finished(Recorded(p))

(***************************************************************************)
(* The GPU executes the command lists of a payload only after those of     *)
(* every payload whose sync point it waits on.                             *)
(***************************************************************************)
WaitBeforeExecute ==
    \A q \in Queue : \A i \in 1..gpuDone[q] :
        ops[q][i].kind = "execute" /\ ops[q][i].payload[2] = "recorded" =>
            LET p == ops[q][i].payload[1] IN
            \A j \in 1..Len(work[p].waits) :
                Finished(Recorded(work[p].waits[j]))

(***************************************************************************)
(* Payload x was recorded before p, by the same thread and for the same    *)
(* queue.                                                                  *)
(***************************************************************************)
Earlier(x, p) ==
    /\ work[x].queue = work[p].queue
    /\ \E t \in EngineThread : \E i, j \in 1..Len(program[t]) :
        i < j /\ program[t][i] = x /\ program[t][j] = p

(***************************************************************************)
(* A wait holds back everything its thread records after it for the same   *)
(* queue, the payloads of later flushes included: when the GPU executes    *)
(* the command lists of a payload, what the earlier ones wait on has been  *)
(* carried out.  An earlier payload need not have command lists itself (a  *)
(* context may wait, signal and only then record work), and its waits may  *)
(* have been skipped for those of another.                                 *)
(***************************************************************************)
EarlierWaitsHonoured ==
    \A q \in Queue : \A k \in 1..gpuDone[q] :
        ops[q][k].kind = "execute" /\ ops[q][k].payload[2] = "recorded" =>
            \A x \in Payload : Earlier(x, ops[q][k].payload[1]) =>
                \A j \in 1..Len(work[x].waits) :
                    Finished(Recorded(work[x].waits[j]))

(***************************************************************************)
(* The interrupt thread never sleeps through a completion: with its event  *)
(* clear and nobody about to set it, every queue it has a payload of is    *)
(* unfinished and the driver is asked to wake it for exactly that payload. *)
(***************************************************************************)
NoLostInterrupt ==
    ipc = "sleep" /\ ~ interruptEvent /\ spc # "handdown" =>
        \A q \in Queue : pendingInterrupt[q] # <<>> =>
            LET v == completionValue[Head(pendingInterrupt[q])] IN
            completedValue[q] < v /\ v \in registered[q]

(***************************************************************************)
(* The submission thread never sleeps on work it could do: with its event  *)
(* clear and no engine thread about to set it, the front payload of every  *)
(* queue waits on a sync point nothing has resolved.                       *)
(***************************************************************************)
NoLostSubmission ==
    /\ spc = "sleep"
    /\ ~ submissionEvent
    /\ \A t \in EngineThread : epc[t] # "submit"
    => \A q \in Queue : pendingSubmission[q] # <<>> =>
            LET p == Head(pendingSubmission[q]) IN
            /\ waitIndex[p] < Len(work[p].waits)
            /\ Recorded(work[p].waits[waitIndex[p] + 1]) \notin executed

(***************************************************************************)
(* What a payload is not to blame the pipe for: sync points that nobody    *)
(* submits, or waits that go round in a circle, through sync points or     *)
(* through the payloads in front of it in its queue.                       *)
(***************************************************************************)
Enqueued(p) == p \in UNION {Range(pendingSubmission[q]) : q \in Queue}

Unsubmitted(p) ==
    /\ Recorded(p) \notin executed
    /\ ~ Enqueued(p)
    /\ \A q \in Queue : toSubmit[q] # Recorded(p)

InFront(y, x) ==
    \E q \in Queue : \E i, j \in 1..Len(pendingSubmission[q]) :
        i < j /\ pendingSubmission[q][i] = y /\ pendingSubmission[q][j] = x

Stuck(p) ==
    \E S \in SUBSET Payload :
        /\ p \in S
        /\ \A x \in S :
            /\ Recorded(x) \notin executed
            /\ \/ Unsubmitted(x)
               \/ Enqueued(x) /\ \E y \in S :
                    y \in Range(work[x].waits) \/ InFront(y, x)

(***************************************************************************)
(* Every payload an engine thread submits is in the end reported complete  *)
(* to the CPU, unless it is stuck for good through no fault of the pipe.   *)
(***************************************************************************)
EventuallyComplete ==
    <>[](\A p \in Payload : ~ Unsubmitted(p) => p \in complete \/ Stuck(p))

(***************************************************************************)
(* Whatever was handed to the GPU, barrier work included, is released.     *)
(***************************************************************************)
EventuallyReleased == <>[](executed \subseteq released)

(***************************************************************************)
(* A flush that waits for submission returns, unless its last payload is   *)
(* stuck for good.                                                         *)
(***************************************************************************)
FlushesReturn ==
    <>[](\A t \in EngineThread :
            epc[t] = "wait" => Stuck(flushed[t].last[1]))

-----------------------------------------------------------------------------
(* What comments of the code promise and the code does not do.             *)

(***************************************************************************)
(* Barrier work sent to the graphics queue is carried out before the       *)
(* command lists that need it: Submission.cpp submits it "first, followed  *)
(* by a fence signal + enqueued wait".                                     *)
(***************************************************************************)
BarrierBeforeExecute ==
    \A q \in Queue : \A i \in 1..gpuDone[q] :
        ops[q][i].kind = "execute" /\ ops[q][i].payload[2] = "recorded" =>
            LET p == ops[q][i].payload[1] IN
            work[p].barrier => Finished(Barrier(p))

(***************************************************************************)
(* A flush with WaitForCompletion blocks "until the GPU has signaled       *)
(* completion of all dispatched work" (CommandContext.h).                  *)
(***************************************************************************)
CompletionFlushBlocks ==
    [][\A t \in EngineThread :
        /\ epc[t] = "wait"
        /\ epc'[t] = "record"
        /\ "completion" \in flushed[t].flags
        => flushed[t].last[1] \in complete]_vars

=============================================================================
