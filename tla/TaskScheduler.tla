---------------------------- MODULE TaskScheduler ---------------------------
(***************************************************************************)
(* The thread pool of Engine/Core/Threading/TaskScheduler.cpp.             *)
(*                                                                         *)
(* A thread that awaits TaskScheduler::schedule() hands its continuation,  *)
(* a schedule_operation, to the pool: a pool thread puts it into its own   *)
(* ring buffer, any other thread (or a pool thread whose ring has no room) *)
(* into the common list, and then wakes one sleeping pool thread.  A pool  *)
(* thread resumes what it pops from its own ring, else what the common     *)
(* list holds, else what it steals from the ring of another, and sleeps    *)
(* when there is nothing.                                                  *)
(*                                                                         *)
(* One action is one access to an atomic another thread may change at the  *)
(* same time, with the thread-local work up to the next one, under         *)
(* sequentially consistent memory.  get_remote is one action: its mutex    *)
(* excludes every other reader, and its exchange of queue_tail is the only *)
(* access that meets a concurrent remote_enqueue.  try_wake_up is one      *)
(* action too: its load decides nothing its exchange does not decide       *)
(* again, and the thread it wakes does nothing before the event is set.    *)
(***************************************************************************)
EXTENDS Integers, Sequences, SequencesExt, FiniteSetsExt

CONSTANTS
    MaxScheduler,      \* max_scheduler, the number of pool threads
    External,          \* the threads outside the pool that schedule
    Operation,         \* the schedule_operations of the program
    Agenda,            \* what each external thread schedules, and what each
                       \* operation schedules once it is resumed, in order
    InitialQueueSize,  \* initial_local_queue_size
    MaxQueueSize,      \* max_local_queue_size
    None               \* nullptr

Worker == 0..(MaxScheduler - 1)
Thread == Worker \cup External

ASSUME PoolAssumption ==
    /\ MaxScheduler \in Nat \ {0}
    /\ External \cap Worker = {}
    /\ None \notin Operation \cup Worker
    /\ InitialQueueSize \in Nat \ {0}
    /\ MaxQueueSize \in Nat \ {0}

(***************************************************************************)
(* An operation is a co_await expression: it is scheduled once, by the one *)
(* thread or coroutine that evaluates it.                                  *)
(***************************************************************************)
ASSUME AgendaAssumption ==
    /\ External \cap Operation = {}
    /\ Agenda \in [External \cup Operation -> Seq(Operation)]
    /\ \A x, y \in External \cup Operation :
        \A i \in 1..Len(Agenda[x]), j \in 1..Len(Agenda[y]) :
            Agenda[x][i] = Agenda[y][j] => x = y /\ i = j

-----------------------------------------------------------------------------

VARIABLES
    published,    \* the global task_scheduler has been set
    head,         \* queue_head of each pool thread's ring
    tail,         \* queue_tail of each pool thread's ring
    mask,         \* queue_mask: the number of slots less one
    ring,         \* the slots of each ring
    remoteMutex,  \* who holds remote_mutex of each pool thread
    arrivals,     \* the list queue_tail of the pool points to, newest first
    ready,        \* the list queue_head of the pool points to
    sleeping,     \* the sleeping flag of each pool thread
    wakeupEvent,  \* its auto-reset wakeup_event
    pc,           \* where each thread is
    todo,         \* what it, or the coroutine it runs, has still to schedule
    got,          \* the operation a pool thread is about to resume
    seen,         \* the value of queue_tail a thread last loaded
    index,        \* the loop index of a thread that steals or wakes
    attempt,      \* try: all locks were free so far; retry: one was not;
                  \* lock: the second, blocking loop
    resumed       \* how often each operation has been resumed

ringVars == <<head, tail, mask, ring, remoteMutex>>
listVars == <<arrivals, ready>>
sleepVars == <<sleeping, wakeupEvent>>
localVars == <<todo, got, seen, index, attempt, resumed>>
elsewhere == <<published, listVars, sleepVars>>
slots == <<mask, ring>>

vars == <<ringVars, elsewhere, pc, localVars>>

WorkerStage ==
    {"pop", "claim", "confirm", "lock", "settle", "remote", "steal", "look",
     "advance", "check", "take", "restore", "resume", "idle", "wait", "put",
     "full", "copy"}
ThreadStage == {"run", "load", "push", "wake"}

Init ==
    /\ published = FALSE
    /\ head = [w \in Worker |-> 0]
    /\ tail = [w \in Worker |-> 0]
    /\ mask = [w \in Worker |-> InitialQueueSize - 1]
    /\ ring = [w \in Worker |-> [i \in 0..(InitialQueueSize - 1) |-> None]]
    /\ remoteMutex = [w \in Worker |-> None]
    /\ arrivals = <<>>
    /\ ready = <<>>
    /\ sleeping = [w \in Worker |-> FALSE]
    /\ wakeupEvent = [w \in Worker |-> FALSE]
    /\ pc = [t \in Thread |-> IF t \in Worker THEN "pop" ELSE "load"]
    /\ todo = [t \in Thread |-> IF t \in Worker THEN <<>> ELSE Agenda[t]]
    /\ got = [w \in Worker |-> None]
    /\ seen = [t \in Thread |-> None]
    /\ index = [t \in Thread |-> 0]
    /\ attempt = [w \in Worker |-> "try"]
    /\ resumed = [o \in Operation |-> 0]

Goto(t, stage) == pc' = [pc EXCEPT ![t] = stage]

Step(t, from, to) == pc[t] = from /\ Goto(t, to)

Slot(w, position) == ring[w][position % (mask[w] + 1)]

(***************************************************************************)
(* The TaskScheduler constructor sets the global once it has started the   *)
(* pool threads; only then can another thread schedule.                    *)
(***************************************************************************)
Publish ==
    /\ ~published
    /\ published' = TRUE
    /\ UNCHANGED <<ringVars, listVars, sleepVars, pc, localVars>>

-----------------------------------------------------------------------------
(***************************************************************************)
(* Faults a change to the code could introduce, each in the place of a     *)
(* definition below: LastWorkerTooLate of LastWorker, NoSecondLook of      *)
(* StillThere, RoomForOneMore of HasRoom, NotReversed and OnlyTheOldest of *)
(* Reversed, WakeWithoutClearing of TryWakeUp.                             *)
(***************************************************************************)

\* The loop of wake_one_thread runs one index too far.
LastWorkerTooLate(i) == i = MaxScheduler

\* try_local_pop trusts its claim without reading queue_tail again.
NoSecondLook(w) == TRUE

\* try_local_enqueue uses the last slot too.
RoomForOneMore(w) == head[w] - tail[w] <= mask[w]

\* get_remote hands the list out in the order it finds it.
NotReversed(list) == list

\* try_wake_up reads the sleeping flag but does not clear it.
WakeWithoutClearing(w) ==
    /\ wakeupEvent' = [wakeupEvent EXCEPT ![w] = sleeping[w] \/ @]
    /\ UNCHANGED sleeping

\* get_remote forgets what the reversal put behind the first operation.
OnlyTheOldest(list) == IF list = <<>> THEN <<>> ELSE <<Last(list)>>

-----------------------------------------------------------------------------
(***************************************************************************)
(* try_local_pop.  Only the owner writes queue_head, only the holder of    *)
(* remote_mutex writes queue_tail.                                         *)
(***************************************************************************)
LooksEmpty(w) == head[w] - tail[w] <= 0

PopLook(w) ==
    /\ Step(w, "pop", IF LooksEmpty(w) THEN "remote" ELSE "claim")
    /\ UNCHANGED <<elsewhere, ringVars, localVars>>

PopClaim(w) ==
    /\ Step(w, "claim", "confirm")
    /\ head' = [head EXCEPT ![w] = @ - 1]
    /\ UNCHANGED <<elsewhere, tail, slots, remoteMutex, localVars>>

StillThere(w) == head[w] - tail[w] >= 0

PopTake(w) ==
    /\ Step(w, "confirm", "resume")
    /\ StillThere(w)
    /\ got' = [got EXCEPT ![w] = Slot(w, head[w])]
    /\ UNCHANGED <<elsewhere, ringVars, todo, seen, index, attempt, resumed>>

PopRace(w) ==
    /\ Step(w, "confirm", "lock")
    /\ ~StillThere(w)
    /\ UNCHANGED <<elsewhere, ringVars, localVars>>

PopLock(w) ==
    /\ Step(w, "lock", "settle")
    /\ remoteMutex[w] = None
    /\ remoteMutex' = [remoteMutex EXCEPT ![w] = w]
    /\ UNCHANGED <<elsewhere, head, tail, slots, localVars>>

PopWins(w) ==
    /\ Step(w, "settle", "resume")
    /\ head[w] - tail[w] >= 0
    /\ got' = [got EXCEPT ![w] = Slot(w, head[w])]
    /\ remoteMutex' = [remoteMutex EXCEPT ![w] = None]
    /\ UNCHANGED <<elsewhere, head, tail, slots, todo, seen, index, attempt,
                   resumed>>

PopLoses(w) ==
    /\ Step(w, "settle", "remote")
    /\ head[w] - tail[w] < 0
    /\ head' = [head EXCEPT ![w] = @ + 1]
    /\ remoteMutex' = [remoteMutex EXCEPT ![w] = None]
    /\ UNCHANGED <<elsewhere, tail, slots, localVars>>

-----------------------------------------------------------------------------
(***************************************************************************)
(* get_remote and try_steal_from_other_thread.  The first loop only tries  *)
(* the locks; if it found one taken, a second loop waits for each.         *)
(***************************************************************************)
OthersAfter(w, i) == {v \in Worker \ {w} : v > i}

Onward(w, i, how) ==
    IF OthersAfter(w, i) # {}
    THEN /\ index' = [index EXCEPT ![w] = Min(OthersAfter(w, i))]
         /\ attempt' = [attempt EXCEPT ![w] = how]
         /\ Goto(w, "steal")
    ELSE IF how = "retry"
    THEN /\ index' = [index EXCEPT ![w] = Min(OthersAfter(w, -1))]
         /\ attempt' = [attempt EXCEPT ![w] = "lock"]
         /\ Goto(w, "steal")
    ELSE /\ index' = [index EXCEPT ![w] = 0]
         /\ attempt' = [attempt EXCEPT ![w] = "try"]
         /\ Goto(w, "idle")

GetRemoteUnpublished(w) ==
    /\ Step(w, "remote", "idle")
    /\ ~published
    /\ UNCHANGED <<elsewhere, ringVars, localVars>>

GetRemoteNothing(w) ==
    /\ pc[w] = "remote"
    /\ published
    /\ ready = <<>>
    /\ arrivals = <<>>
    /\ Onward(w, -1, "try")
    /\ UNCHANGED <<elsewhere, ringVars, todo, got, seen, resumed>>

Reversed(list) == Reverse(list)

GetRemote(w) ==
    LET list == IF ready = <<>> THEN Reversed(arrivals) ELSE ready
    IN  /\ Step(w, "remote", "resume")
        /\ published
        /\ list # <<>>
        /\ got' = [got EXCEPT ![w] = Head(list)]
        /\ ready' = Tail(list)
        /\ arrivals' = IF ready = <<>> THEN <<>> ELSE arrivals
        /\ UNCHANGED <<published, ringVars, sleepVars, todo, seen, index,
                       attempt, resumed>>

StealLock(w) ==
    /\ Step(w, "steal", "look")
    /\ remoteMutex[index[w]] = None
    /\ remoteMutex' = [remoteMutex EXCEPT ![index[w]] = w]
    /\ UNCHANGED <<elsewhere, head, tail, slots, localVars>>

StealUnavailable(w) ==
    /\ pc[w] = "steal"
    /\ attempt[w] # "lock"
    /\ remoteMutex[index[w]] # None
    /\ Onward(w, index[w], "retry")
    /\ UNCHANGED <<elsewhere, ringVars, todo, got, seen, resumed>>

StealLook(w) ==
    /\ Step(w, "look", "advance")
    /\ ~LooksEmpty(index[w])
    /\ UNCHANGED <<elsewhere, ringVars, localVars>>

StealNothing(w) ==
    /\ pc[w] = "look"
    /\ LooksEmpty(index[w])
    /\ remoteMutex' = [remoteMutex EXCEPT ![index[w]] = None]
    /\ Onward(w, index[w], attempt[w])
    /\ UNCHANGED <<elsewhere, head, tail, slots, todo, got, seen, resumed>>

StealAdvance(w) ==
    /\ Step(w, "advance", "check")
    /\ tail' = [tail EXCEPT ![index[w]] = @ + 1]
    /\ UNCHANGED <<elsewhere, head, slots, remoteMutex, localVars>>

Secured(v) == head[v] - (tail[v] - 1) > 0

StealCheck(w) ==
    /\ Step(w, "check", IF Secured(index[w]) THEN "take" ELSE "restore")
    /\ UNCHANGED <<elsewhere, ringVars, localVars>>

StealTake(w) ==
    LET v == index[w]
    IN  /\ Step(w, "take", "resume")
        /\ got' = [got EXCEPT ![w] = Slot(v, tail[v] - 1)]
        /\ remoteMutex' = [remoteMutex EXCEPT ![v] = None]
        /\ index' = [index EXCEPT ![w] = 0]
        /\ attempt' = [attempt EXCEPT ![w] = "try"]
        /\ UNCHANGED <<elsewhere, head, tail, slots, todo, seen, resumed>>

StealRestore(w) ==
    LET v == index[w]
    IN  /\ pc[w] = "restore"
        /\ tail' = [tail EXCEPT ![v] = @ - 1]
        /\ remoteMutex' = [remoteMutex EXCEPT ![v] = None]
        /\ Onward(w, v, attempt[w])
        /\ UNCHANGED <<elsewhere, head, slots, todo, got, seen, resumed>>

-----------------------------------------------------------------------------
(***************************************************************************)
(* PoolThreadScheduler::run: resume what was found, or sleep.              *)
(***************************************************************************)
Resume(w) ==
    /\ Step(w, "resume", "run")
    /\ resumed' = [resumed EXCEPT ![got[w]] = @ + 1]
    /\ todo' = [todo EXCEPT ![w] = Agenda[got[w]]]
    /\ got' = [got EXCEPT ![w] = None]
    /\ UNCHANGED <<elsewhere, ringVars, seen, index, attempt>>

ResumeReturns(w) ==
    /\ Step(w, "run", "pop")
    /\ todo[w] = <<>>
    /\ UNCHANGED <<elsewhere, ringVars, localVars>>

NotifyIntentToSleep(w) ==
    /\ Step(w, "idle", "wait")
    /\ sleeping' = [sleeping EXCEPT ![w] = TRUE]
    /\ UNCHANGED <<published, ringVars, listVars, wakeupEvent, localVars>>

SleepUntilWoken(w) ==
    /\ Step(w, "wait", "pop")
    /\ wakeupEvent[w]
    /\ wakeupEvent' = [wakeupEvent EXCEPT ![w] = FALSE]
    /\ UNCHANGED <<published, ringVars, listVars, sleeping, localVars>>

-----------------------------------------------------------------------------
(***************************************************************************)
(* TaskScheduler::schedule_impl.  On a pool thread try_local_enqueue comes *)
(* first, followed by the thread's own wake_up; where it returns false,    *)
(* and on every other thread, remote_enqueue.                              *)
(***************************************************************************)
TryWakeUp(w) ==
    IF sleeping[w]
    THEN /\ sleeping' = [sleeping EXCEPT ![w] = FALSE]
         /\ wakeupEvent' = [wakeupEvent EXCEPT ![w] = TRUE]
    ELSE UNCHANGED sleepVars

HasRoom(w) == head[w] - tail[w] < mask[w]

EnqueueLook(w) ==
    /\ Step(w, "run", IF HasRoom(w) THEN "put" ELSE "full")
    /\ todo[w] # <<>>
    /\ UNCHANGED <<elsewhere, ringVars, localVars>>

EnqueuePut(w) ==
    /\ Step(w, "put", "wake")
    /\ ring' = [ring EXCEPT ![w][head[w] % (mask[w] + 1)] = Head(todo[w])]
    /\ head' = [head EXCEPT ![w] = @ + 1]
    /\ TryWakeUp(w)
    /\ UNCHANGED <<published, tail, mask, remoteMutex, listVars, localVars>>

(***************************************************************************)
(* A full ring grows, unless it has reached max_local_queue_size, the new  *)
(* slots cannot be allocated or its lock is taken; allocation may fail at  *)
(* any time.                                                               *)
(***************************************************************************)
EnqueueGrow(w) ==
    /\ Step(w, "full", "copy")
    /\ mask[w] # MaxQueueSize
    /\ remoteMutex[w] = None
    /\ remoteMutex' = [remoteMutex EXCEPT ![w] = w]
    /\ UNCHANGED <<elsewhere, head, tail, slots, localVars>>

EnqueueFails(w) ==
    /\ Step(w, "full", "load")
    /\ TryWakeUp(w)
    /\ UNCHANGED <<published, ringVars, listVars, localVars>>

Copied(w, size) ==
    [i \in 0..(size - 1) |->
        IF \E j \in tail[w]..(head[w] - 1) : j % size = i
        THEN Slot(w, CHOOSE j \in tail[w]..(head[w] - 1) : j % size = i)
        ELSE None]

EnqueueCopy(w) ==
    LET size == 2 * (mask[w] + 1)
    IN  /\ Step(w, "copy", "wake")
        /\ ring' = [ring EXCEPT ![w] = [Copied(w, size) EXCEPT
                                            ![head[w] % size] = Head(todo[w])]]
        /\ mask' = [mask EXCEPT ![w] = size - 1]
        /\ head' = [head EXCEPT ![w] = @ + 1]
        /\ remoteMutex' = [remoteMutex EXCEPT ![w] = None]
        /\ TryWakeUp(w)
        /\ UNCHANGED <<published, tail, listVars, localVars>>

Top(list) == IF list = <<>> THEN None ELSE Head(list)

RemoteLoad(t) ==
    /\ Step(t, "load", "push")
    /\ published
    /\ todo[t] # <<>>
    /\ seen' = [seen EXCEPT ![t] = Top(arrivals)]
    /\ UNCHANGED <<elsewhere, ringVars, todo, got, index, attempt, resumed>>

RemoteRetry(t) ==
    /\ pc[t] = "push"
    /\ seen[t] # Top(arrivals)
    /\ seen' = [seen EXCEPT ![t] = Top(arrivals)]
    /\ UNCHANGED <<elsewhere, ringVars, pc, todo, got, index, attempt,
                   resumed>>

RemotePush(t) ==
    /\ Step(t, "push", "wake")
    /\ seen[t] = Top(arrivals)
    /\ arrivals' = <<Head(todo[t])>> \o arrivals
    /\ seen' = [seen EXCEPT ![t] = None]
    /\ UNCHANGED <<published, ringVars, ready, sleepVars, todo, got, index,
                   attempt, resumed>>

(***************************************************************************)
(* wake_one_thread, the end of schedule_impl.                              *)
(***************************************************************************)
LastWorker(i) == i = MaxScheduler - 1

WakeSkip(t) ==
    /\ pc[t] = "wake"
    /\ ~sleeping[index[t]]
    /\ ~LastWorker(index[t])
    /\ index' = [index EXCEPT ![t] = @ + 1]
    /\ UNCHANGED <<elsewhere, ringVars, pc, todo, got, seen, attempt,
                   resumed>>

WakeOne(t) ==
    /\ Step(t, "wake", IF t \in Worker THEN "run" ELSE "load")
    /\ sleeping[index[t]] \/ LastWorker(index[t])
    /\ TryWakeUp(index[t])
    /\ index' = [index EXCEPT ![t] = 0]
    /\ todo' = [todo EXCEPT ![t] = Tail(@)]
    /\ UNCHANGED <<published, ringVars, listVars, got, seen, attempt,
                   resumed>>

-----------------------------------------------------------------------------

Pop(w) ==
    \/ PopLook(w)
    \/ PopClaim(w)
    \/ PopTake(w)
    \/ PopRace(w)
    \/ PopLock(w)
    \/ PopWins(w)
    \/ PopLoses(w)

TakeRemote(w) ==
    \/ GetRemoteUnpublished(w)
    \/ GetRemoteNothing(w)
    \/ GetRemote(w)

Steal(w) ==
    \/ StealLock(w)
    \/ StealUnavailable(w)
    \/ StealLook(w)
    \/ StealNothing(w)
    \/ StealAdvance(w)
    \/ StealCheck(w)
    \/ StealTake(w)
    \/ StealRestore(w)

Run(w) ==
    \/ Resume(w)
    \/ ResumeReturns(w)
    \/ NotifyIntentToSleep(w)
    \/ SleepUntilWoken(w)

LocalEnqueue(w) ==
    \/ EnqueueLook(w)
    \/ EnqueuePut(w)
    \/ EnqueueGrow(w)
    \/ EnqueueFails(w)
    \/ EnqueueCopy(w)

RemoteEnqueue(t) ==
    \/ RemoteLoad(t)
    \/ RemoteRetry(t)
    \/ RemotePush(t)
    \/ WakeSkip(t)
    \/ WakeOne(t)

WorkerStep(w) ==
    Pop(w) \/ TakeRemote(w) \/ Steal(w) \/ Run(w) \/ LocalEnqueue(w)
        \/ RemoteEnqueue(w)

Next ==
    \/ Publish
    \/ \E w \in Worker : WorkerStep(w)
    \/ \E t \in External : RemoteEnqueue(t)

Spec == Init /\ [][Next]_vars

(***************************************************************************)
(* The operating system runs every thread that is not blocked.             *)
(***************************************************************************)
FairSpec ==
    /\ Spec
    /\ WF_vars(Publish)
    /\ \A w \in Worker : WF_vars(WorkerStep(w))
    /\ \A t \in External : WF_vars(RemoteEnqueue(t))

-----------------------------------------------------------------------------
(***************************************************************************)
(* Properties.                                                             *)
(***************************************************************************)

(***************************************************************************)
(* Every variable has its type; in particular no loop index of             *)
(* wake_one_thread or try_steal_from_other_thread leaves the array of      *)
(* schedulers, and queue_head never falls below 0.                         *)
(***************************************************************************)
TypeOK ==
    /\ published \in BOOLEAN
    /\ head \in [Worker -> Nat]
    /\ tail \in [Worker -> Nat]
    /\ mask \in [Worker -> Nat]
    /\ \A w \in Worker : ring[w] \in [0..mask[w] -> Operation \cup {None}]
    /\ remoteMutex \in [Worker -> Worker \cup {None}]
    /\ arrivals \in Seq(Operation)
    /\ ready \in Seq(Operation)
    /\ sleeping \in [Worker -> BOOLEAN]
    /\ wakeupEvent \in [Worker -> BOOLEAN]
    /\ pc \in [Thread -> WorkerStage \cup ThreadStage]
    /\ todo \in [Thread -> Seq(Operation)]
    /\ got \in [Worker -> Operation \cup {None}]
    /\ seen \in [Thread -> Operation \cup {None}]
    /\ index \in [Thread -> Worker]
    /\ attempt \in [Worker -> {"try", "retry", "lock"}]
    /\ resumed \in [Operation -> Nat]

(***************************************************************************)
(* No coroutine is resumed twice: the owner that pops the last operation   *)
(* of its ring and the thread that steals it at the same time never both   *)
(* take it.                                                                *)
(***************************************************************************)
ResumedOnce == \A o \in Operation : resumed[o] <= 1

(***************************************************************************)
(* The operations between queue_tail and queue_head, without the claims a  *)
(* pop or a steal may still have to give back.                             *)
(***************************************************************************)
Claiming(w) == pc[w] \in {"confirm", "lock", "settle"}
StolenFrom(w) ==
    \E v \in Worker : pc[v] \in {"check", "restore"} /\ index[v] = w

RingContents(w) ==
    LET last == IF Claiming(w) THEN head[w] ELSE head[w] - 1
        first == IF StolenFrom(w) THEN tail[w] - 1 ELSE tail[w]
    IN  [i \in 1..(last - first + 1) |-> Slot(w, first + i - 1)]

Pool == INSTANCE WorkPool WITH
    inbox <- ready \o Reverse(arrivals),
    deque <- [w \in Worker |-> RingContents(w)],
    hand <- [w \in Worker |-> IF pc[w] = "take"
                              THEN Slot(index[w], tail[index[w]] - 1)
                              ELSE got[w]],
    resumed <- {o \in Operation : resumed[o] > 0}

(***************************************************************************)
(* The threads together behave like WorkPool: the common list is a FIFO,   *)
(* each ring a deque whose owner takes the latest operation and whose      *)
(* thieves take the oldest; growing the ring, the speculative steps of pop *)
(* and steal and their withdrawal change nothing, and no slot is           *)
(* overwritten while a thief has still to read it.                         *)
(***************************************************************************)
IsWorkPool == Pool!Spec

(***************************************************************************)
(* A thread that waits for its wakeup_event can be woken, or has been:     *)
(* either its sleeping flag is still set or its event is.  (With neither   *)
(* it would never run again, with both the event of this sleep would end   *)
(* the next one.)                                                          *)
(***************************************************************************)
OneWakePerSleep ==
    \A w \in Worker :
        IF pc[w] = "wait"
        THEN sleeping[w] # wakeupEvent[w]
        ELSE ~sleeping[w] /\ ~wakeupEvent[w]

Posted == UNION {ToSet(Agenda[x]) : x \in External}

(***************************************************************************)
(* While some pool thread is in its loop and has yet to look into the      *)
(* common list, whatever a thread outside the pool put there is resumed:   *)
(* the loop is not left before the list has been found empty.              *)
(***************************************************************************)
Shared(o) == o \in ToSet(arrivals) \cup ToSet(ready)

Draining(w) ==
    \/ pc[w] \in {"pop", "claim", "confirm", "lock", "settle", "remote",
                  "resume", "run"}
    \/ pc[w] = "wait" /\ wakeupEvent[w]

AwakeThreadsDrain ==
    \A o \in Posted :
        (Shared(o) /\ \E w \in Worker : Draining(w)) ~> resumed[o] > 0

(***************************************************************************)
(* The comment before notify_intent_to_sleep says there are "No more       *)
(* operations in the local queue or remote queue": the pool is never fast  *)
(* asleep, with no thread about to wake it, over a queued operation.       *)
(***************************************************************************)
AsleepOverWork ==
    /\ \A w \in Worker : pc[w] = "wait" /\ ~wakeupEvent[w]
    /\ \A t \in External : pc[t] = "load" /\ todo[t] = <<>>
    /\ \/ ready \o arrivals # <<>>
       \/ \E w \in Worker : RingContents(w) # <<>>

NobodySleepsOverWork == ~AsleepOverWork

=============================================================================
