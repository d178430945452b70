----------------------------- MODULE RenderThread ---------------------------
(***************************************************************************)
(* The command thread of Engine/RenderInterface (CommandListExecutor.cpp,  *)
(* RenderTask of SyncPoint.h, EndFrame and Present of ICommandList.cpp).   *)
(*                                                                         *)
(* The main thread records commands into the immediate command list.  A    *)
(* flush moves what is recorded into a new list and starts a RenderTask    *)
(* for it, a coroutine that the command thread resumes.  The main thread   *)
(* owns the tasks: the latest one in CommandTask, the earlier ones in the  *)
(* slots of SwapTasks, where a finished one makes room for the next.       *)
(* Present inserts a fence command and then waits for the fence of the     *)
(* frame before.                                                           *)
(*                                                                         *)
(* A command is its number in the order of recording, a task its number in *)
(* the order of the flushes.                                               *)
(***************************************************************************)
EXTENDS Naturals, Sequences, SequencesExt

CONSTANTS
    MaxFrame,    \* how many frames the main thread renders (a bound)
    MaxUpload,   \* how many GPU uploads it submits at most (a bound)
    TaskSlots    \* the length of RenderTaskArray::tasks

ASSUME RenderAssumption ==
    /\ MaxFrame \in Nat \ {0}
    /\ MaxUpload \in Nat
    /\ TaskSlots \in Nat \ {0}

NoTask == 0
NoFence == 0

VARIABLES
    mpc,            \* where the main thread is
    frame,          \* the frame it records
    uploads,        \* the uploads it has submitted
    recorded,       \* how many commands it has recorded
    immediate,      \* the commands of the immediate list
    slot,           \* the loop index of RenderTaskArray::assign
    commandTask,    \* CommandTask
    swapTasks,      \* SwapTasks.tasks
    presentFences,  \* PresentFences: the frame each fence belongs to
    presentIndex,   \* PresentFenceIndex
    lists,          \* the command list of each task started so far
    fenceCommand,   \* the command that sets the fence of each frame
    arrivals,       \* queue_tail of the command thread, newest first
    ready,          \* queue_head of the command thread
    running,        \* the task the command thread executes
    remaining,      \* the commands of that task it has still to execute
    executed,       \* the commands it has executed, in order
    done            \* the tasks that have run to their end

mainVars == <<mpc, frame, uploads, recorded, immediate, slot, commandTask,
              swapTasks, presentFences, presentIndex, lists, fenceCommand>>

commandVars == <<arrivals, ready, running, remaining, executed, done>>

vars == <<mainVars, commandVars>>

Init ==
    /\ mpc = "record"
    /\ frame = 1
    /\ uploads = 0
    /\ recorded = 0
    /\ immediate = <<>>
    /\ slot = 1
    /\ commandTask = NoTask
    /\ swapTasks = [i \in 1..TaskSlots |-> NoTask]
    /\ presentFences = [i \in 0..1 |-> NoFence]
    /\ presentIndex = 0
    /\ lists = <<>>
    /\ fenceCommand = <<>>
    /\ arrivals = <<>>
    /\ ready = <<>>
    /\ running = NoTask
    /\ remaining = <<>>
    /\ executed = <<>>
    /\ done = {}

-----------------------------------------------------------------------------
(***************************************************************************)
(* Faults a change to the code could introduce, each in the place of a     *)
(* definition below: NotReversed of Reversed, LastSlotTooLate of LastSlot, *)
(* SetOnceRecorded and NeverWithoutFence of IsSet, ReadyLate of IsReady.   *)
(***************************************************************************)

\* The command thread takes the list in the order it finds it.
NotReversed(list) == list

\* RenderTaskArray::assign runs one index too far.
LastSlotTooLate(i) == i = TaskSlots + 1

\* Present counts a fence of an unfinished frame as set.
SetOnceRecorded(fence) == fence # NoFence => fenceCommand[fence] <= recorded

\* Present waits although there is no previous frame.
NeverWithoutFence(fence) ==
    fence # NoFence /\ fenceCommand[fence] \in ToSet(executed)

\* A task counts as finished only after the next one has finished.
ReadyLate(task) == task # NoTask => task + 1 \in done

-----------------------------------------------------------------------------
(***************************************************************************)
(* The main thread.  A frame submits uploads, ends and is presented; each  *)
(* of the three inserts a command and flushes.                             *)
(***************************************************************************)
Insert(n) ==
    /\ recorded' = recorded + n
    /\ immediate' = immediate \o [i \in 1..n |-> recorded + i]

SubmitUpload ==
    /\ mpc = "record"
    /\ uploads < MaxUpload
    /\ uploads' = uploads + 1
    /\ Insert(1)
    /\ mpc' = "flush upload"
    /\ UNCHANGED <<frame, slot, commandTask, swapTasks, presentFences,
                   presentIndex, lists, fenceCommand, commandVars>>

EndFrame ==
    /\ mpc = "record"
    /\ Insert(1)
    /\ mpc' = "flush end"
    /\ UNCHANGED <<frame, uploads, slot, commandTask, swapTasks,
                   presentFences, presentIndex, lists, fenceCommand,
                   commandVars>>

Present ==
    /\ mpc = "present"
    /\ Insert(2)
    /\ fenceCommand' = Append(fenceCommand, recorded + 2)
    /\ presentFences' = [presentFences EXCEPT ![presentIndex] = frame]
    /\ mpc' = "flush present"
    /\ UNCHANGED <<frame, uploads, slot, commandTask, swapTasks,
                   presentIndex, lists, commandVars>>

(***************************************************************************)
(* ExecuteInner: RenderTaskArray::assign looks for a slot whose task is    *)
(* done and moves CommandTask there; then the new coroutine is started,    *)
(* which pushes it to the command thread, and becomes CommandTask.  The    *)
(* assertion of assign ends the program.                                   *)
(***************************************************************************)
Flushing == mpc \in {"flush upload", "flush end", "flush present"}

AfterFlush ==
    CASE mpc = "flush upload" -> "record"
      [] mpc = "flush end" -> "present"
      [] mpc = "flush present" -> "wait"

IsReady(task) == task # NoTask => task \in done

LastSlot(i) == i = TaskSlots

SlotTaken ==
    /\ Flushing
    /\ ~IsReady(swapTasks[slot])
    /\ IF LastSlot(slot)
       THEN mpc' = "out of tasks" /\ UNCHANGED slot
       ELSE slot' = slot + 1 /\ UNCHANGED mpc
    /\ UNCHANGED <<frame, uploads, recorded, immediate, commandTask,
                   swapTasks, presentFences, presentIndex, lists,
                   fenceCommand, commandVars>>

Flush ==
    /\ Flushing
    /\ IsReady(swapTasks[slot])
    /\ swapTasks' = [swapTasks EXCEPT ![slot] = commandTask]
    /\ lists' = Append(lists, immediate)
    /\ immediate' = <<>>
    /\ commandTask' = Len(lists) + 1
    /\ arrivals' = <<Len(lists) + 1>> \o arrivals
    /\ slot' = 1
    /\ mpc' = AfterFlush
    /\ UNCHANGED <<frame, uploads, recorded, presentFences, presentIndex,
                   fenceCommand, ready, running, remaining, executed, done>>

AwaitedFence == presentFences[1 - presentIndex]

IsSet(fence) == fence # NoFence => fenceCommand[fence] \in ToSet(executed)

WaitPrevious ==
    /\ mpc = "wait"
    /\ IsSet(AwaitedFence)
    /\ presentFences' = [presentFences EXCEPT ![1 - presentIndex] = NoFence]
    /\ presentIndex' = 1 - presentIndex
    /\ frame' = frame + 1
    /\ mpc' = IF frame < MaxFrame THEN "record" ELSE "end"
    /\ UNCHANGED <<uploads, recorded, immediate, slot, commandTask,
                   swapTasks, lists, fenceCommand, commandVars>>

-----------------------------------------------------------------------------
(***************************************************************************)
(* The command thread: RenderThreadScheduler::run and the task's body.     *)
(***************************************************************************)
Reversed(list) == Reverse(list)

Pop ==
    LET list == IF ready = <<>> THEN Reversed(arrivals) ELSE ready
    IN  /\ running = NoTask
        /\ list # <<>>
        /\ running' = Head(list)
        /\ remaining' = lists[Head(list)]
        /\ ready' = Tail(list)
        /\ arrivals' = IF ready = <<>> THEN <<>> ELSE arrivals
        /\ UNCHANGED <<mainVars, executed, done>>

Execute ==
    /\ remaining # <<>>
    /\ executed' = Append(executed, Head(remaining))
    /\ remaining' = Tail(remaining)
    /\ UNCHANGED <<mainVars, arrivals, ready, running, done>>

Finish ==
    /\ running # NoTask
    /\ remaining = <<>>
    /\ done' = done \cup {running}
    /\ running' = NoTask
    /\ UNCHANGED <<mainVars, arrivals, ready, remaining, executed>>

-----------------------------------------------------------------------------

MainThread ==
    SubmitUpload \/ EndFrame \/ Present \/ SlotTaken \/ Flush \/ WaitPrevious

CommandThread == Pop \/ Execute \/ Finish

Next == MainThread \/ CommandThread

Spec == Init /\ [][Next]_vars

\* The operating system runs both threads.
FairSpec == Spec /\ WF_vars(MainThread) /\ WF_vars(CommandThread)

-----------------------------------------------------------------------------
(***************************************************************************)
(* Properties.                                                             *)
(***************************************************************************)
Commands == 1..recorded
Tasks == 1..Len(lists)

(***************************************************************************)
(* Every variable has its type; a slot index never leaves the array.       *)
(***************************************************************************)
TypeOK ==
    /\ mpc \in {"record", "flush upload", "flush end", "present",
               "flush present", "wait", "out of tasks", "end"}
    /\ frame \in 1..(MaxFrame + 1)
    /\ uploads \in 0..MaxUpload
    /\ recorded \in Nat
    /\ immediate \in Seq(Commands)
    /\ slot \in 1..TaskSlots
    /\ commandTask \in Tasks \cup {NoTask}
    /\ swapTasks \in [1..TaskSlots -> Tasks \cup {NoTask}]
    /\ presentFences \in [0..1 -> 1..Len(fenceCommand) \cup {NoFence}]
    /\ presentIndex \in 0..1
    /\ lists \in Seq(Seq(Commands))
    /\ fenceCommand \in Seq(Commands)
    /\ arrivals \in Seq(Tasks)
    /\ ready \in Seq(Tasks)
    /\ running \in Tasks \cup {NoTask}
    /\ remaining \in Seq(Commands)
    /\ executed \in Seq(Commands)
    /\ done \subseteq Tasks

(***************************************************************************)
(* Commands are executed in the order of their recording, each once, and   *)
(* none is lost: a recorded command is executed, left of the running task, *)
(* in the list of a queued task or in the immediate list.                  *)
(***************************************************************************)
Queued(c) == \E t \in ToSet(ready \o arrivals) : c \in ToSet(lists[t])

CommandsInOrder ==
    /\ executed = [i \in 1..Len(executed) |-> i]
    /\ \A c \in Commands :
        c \in ToSet(executed \o remaining \o immediate) \/ Queued(c)

(***************************************************************************)
(* While the main thread records a frame, every frame but the one before   *)
(* it has been presented: Present waits for the fence of the previous      *)
(* frame, with two fences taking turns.                                    *)
(***************************************************************************)
OneFrameAhead ==
    mpc = "record" =>
        \A f \in 1..(frame - 2) :
            \A c \in 1..fenceCommand[f] : c \in ToSet(executed)

(***************************************************************************)
(* The assertion "out of max render_tasks" of RenderTaskArray::assign      *)
(* holds: some slot is free whenever a list is flushed.                    *)
(***************************************************************************)
SlotsSuffice == mpc # "out of tasks"

(***************************************************************************)
(* It does as long as nothing is uploaded: two flushes a frame and one     *)
(* frame of delay just fit into four slots.                                *)
(***************************************************************************)
SlotsSufficeForFrames == uploads = 0 => SlotsSuffice

(***************************************************************************)
(* The main thread does not wait for ever: every frame is presented, or    *)
(* the assertion above ends the program.                                   *)
(***************************************************************************)
FramesPresented == <>(mpc \in {"end", "out of tasks"})

=============================================================================
