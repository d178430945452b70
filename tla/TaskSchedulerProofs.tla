------------------------- MODULE TaskSchedulerProofs ------------------------
(***************************************************************************)
(* Proofs about TaskScheduler, for every number of pool threads, every     *)
(* agenda and every queue size.                                            *)
(*                                                                         *)
(* First part, WakeInv: every sleep is ended by exactly one wake.          *)
(*                                                                         *)
(* Second part, PoolInv: who holds which lock, what a stage says of its    *)
(* thread and, for each ring, which positions hold an operation whatever   *)
(* its owner and a thief have claimed and may give back.  Every step that  *)
(* touches a ring is reduced to one of a few effects (Same, Takes,         *)
(* Secures, Leaves, Adds), so the types follow.                            *)
(*                                                                         *)
(* Third part: the effects read as steps of WorkPool, on sequences.        *)
(* Fourth part, WorkInv: those steps keep every operation in one place,    *)
(* and what is still to be scheduled is in none, so no operation is        *)
(* resumed twice and the threads together implement WorkPool.              *)
(***************************************************************************)
EXTENDS TaskScheduler, TLAPS, SequenceTheorems

Stage == WorkerStage \cup ThreadStage

(***************************************************************************)
(* What a step needs to know of the threads to preserve OneWakePerSleep.   *)
(***************************************************************************)
WakeInv ==
    /\ pc \in [Thread -> Stage]
    /\ sleeping \in [Worker -> BOOLEAN]
    /\ wakeupEvent \in [Worker -> BOOLEAN]
    /\ OneWakePerSleep

-----------------------------------------------------------------------------
(***************************************************************************)
(* A thread that neither comes from its sleep nor goes to it, and leaves   *)
(* the flags and events alone.                                             *)
(***************************************************************************)
LEMMA WakeMoves ==
    ASSUME WakeInv, NEW t \in Thread, NEW stage \in Stage \ {"wait"},
           pc[t] # "wait", pc' = [pc EXCEPT ![t] = stage],
           UNCHANGED sleepVars
    PROVE  WakeInv'
<1>1. pc' \in [Thread -> Stage]
  BY DEF WakeInv
<1>2. Worker \subseteq Thread
  BY DEF Thread
<1>3. ASSUME NEW w \in Worker
      PROVE  (pc'[w] = "wait") <=> (pc[w] = "wait")
  BY <1>2 DEF WakeInv
<1>4. OneWakePerSleep'
  BY <1>3 DEF WakeInv, OneWakePerSleep, sleepVars
<1> QED
  BY <1>1, <1>4 DEF WakeInv, sleepVars

(***************************************************************************)
(* The same for a thread that wakes v on its way: only a thread in its     *)
(* wait has its flag set.                                                  *)
(***************************************************************************)
LEMMA WakeTries ==
    ASSUME WakeInv, NEW t \in Thread, NEW stage \in Stage \ {"wait"},
           NEW v,
           pc[t] # "wait", pc' = [pc EXCEPT ![t] = stage],
           TryWakeUp(v)
    PROVE  WakeInv'
<1>1. CASE ~ sleeping[v]
  BY <1>1, WakeMoves DEF TryWakeUp
<1>2. CASE sleeping[v]
  <2>1. /\ sleeping' = [sleeping EXCEPT ![v] = FALSE]
        /\ wakeupEvent' = [wakeupEvent EXCEPT ![v] = TRUE]
    BY <1>2 DEF TryWakeUp
  <2>2. /\ pc' \in [Thread -> Stage]
        /\ sleeping' \in [Worker -> BOOLEAN]
        /\ wakeupEvent' \in [Worker -> BOOLEAN]
    BY <2>1 DEF WakeInv
  <2>3. Worker \subseteq Thread
    BY DEF Thread
  <2>4. ASSUME NEW w \in Worker
        PROVE  IF pc'[w] = "wait"
               THEN sleeping'[w] # wakeupEvent'[w]
               ELSE ~sleeping'[w] /\ ~wakeupEvent'[w]
    <3>1. (pc'[w] = "wait") <=> (pc[w] = "wait")
      BY <2>3 DEF WakeInv
    <3>2. CASE w = v
      <4>1. sleeping'[w] = FALSE /\ wakeupEvent'[w] = TRUE
        BY <2>1, <3>2 DEF WakeInv
      <4>2. pc[w] = "wait"
        BY <1>2, <3>2 DEF WakeInv, OneWakePerSleep
      <4> QED
        BY <3>1, <4>1, <4>2
    <3>3. CASE w # v
      <4>1. sleeping'[w] = sleeping[w] /\ wakeupEvent'[w] = wakeupEvent[w]
        BY <2>1, <3>3 DEF WakeInv
      <4> QED
        BY <3>1, <4>1 DEF WakeInv, OneWakePerSleep
    <3> QED
      BY <3>2, <3>3
  <2> QED
    BY <2>2, <2>4 DEF WakeInv, OneWakePerSleep
<1> QED
  BY <1>1, <1>2

-----------------------------------------------------------------------------

LEMMA WakeInit == Init => WakeInv
<1> SUFFICES ASSUME Init PROVE WakeInv
  OBVIOUS
<1>1. pc \in [Thread -> Stage]
  BY DEF Init, Stage, WorkerStage, ThreadStage
<1>2. \A w \in Worker : pc[w] = "pop"
  BY DEF Init, Thread
<1> QED
  BY <1>1, <1>2 DEF Init, WakeInv, OneWakePerSleep

LEMMA WakePop ==
    ASSUME WakeInv, NEW w \in Worker, Pop(w)
    PROVE  WakeInv'
<1>1. PICK stage \in Stage \ {"wait"} :
        pc[w] # "wait" /\ pc' = [pc EXCEPT ![w] = stage]
        /\ UNCHANGED sleepVars
  BY DEF Pop, PopLook, PopClaim, PopTake, PopRace, PopLock, PopWins,
         PopLoses, Step, Goto, elsewhere, Stage, WorkerStage
<1> QED
  BY <1>1, WakeMoves DEF Thread

LEMMA WakeTakeRemote ==
    ASSUME WakeInv, NEW w \in Worker, TakeRemote(w)
    PROVE  WakeInv'
<1>1. PICK stage \in Stage \ {"wait"} :
        pc[w] # "wait" /\ pc' = [pc EXCEPT ![w] = stage]
        /\ UNCHANGED sleepVars
  BY DEF TakeRemote, GetRemoteUnpublished, GetRemoteNothing, GetRemote,
         Onward, Step, Goto, elsewhere, Stage, WorkerStage
<1> QED
  BY <1>1, WakeMoves DEF Thread

LEMMA WakeSteal ==
    ASSUME WakeInv, NEW w \in Worker, Steal(w)
    PROVE  WakeInv'
<1>1. PICK stage \in Stage \ {"wait"} :
        pc[w] # "wait" /\ pc' = [pc EXCEPT ![w] = stage]
        /\ UNCHANGED sleepVars
  <2>1. CASE StealLock(w) \/ StealLook(w) \/ StealAdvance(w)
             \/ StealCheck(w) \/ StealTake(w)
    BY <2>1 DEF StealLock, StealLook, StealAdvance, StealCheck, StealTake,
       Step, Goto, elsewhere, Stage, WorkerStage
  <2>2. CASE StealUnavailable(w) \/ StealNothing(w) \/ StealRestore(w)
    BY <2>2 DEF StealUnavailable, StealNothing, StealRestore, Onward, Goto,
       elsewhere, Stage, WorkerStage
  <2> QED
    BY <2>1, <2>2 DEF Steal
<1> QED
  BY <1>1, WakeMoves DEF Thread

LEMMA WakeRun ==
    ASSUME WakeInv, NEW w \in Worker, Run(w)
    PROVE  WakeInv'
<1>1. CASE Resume(w) \/ ResumeReturns(w)
  <2>1. PICK stage \in Stage \ {"wait"} :
          pc[w] # "wait" /\ pc' = [pc EXCEPT ![w] = stage]
          /\ UNCHANGED sleepVars
    BY <1>1 DEF Resume, ResumeReturns, Step, Goto, elsewhere, Stage,
       WorkerStage, ThreadStage
  <2> QED
    BY <2>1, WakeMoves DEF Thread
<1>2. CASE NotifyIntentToSleep(w)
  <2>1. /\ pc[w] = "idle" /\ pc' = [pc EXCEPT ![w] = "wait"]
        /\ sleeping' = [sleeping EXCEPT ![w] = TRUE]
        /\ wakeupEvent' = wakeupEvent
    BY <1>2 DEF NotifyIntentToSleep, Step, Goto
  <2>2. ~wakeupEvent[w]
    BY <2>1 DEF WakeInv, OneWakePerSleep
  <2> QED
    BY <2>1, <2>2 DEF WakeInv, OneWakePerSleep, Thread, Stage, WorkerStage
<1>3. CASE SleepUntilWoken(w)
  <2>1. /\ pc[w] = "wait" /\ pc' = [pc EXCEPT ![w] = "pop"]
        /\ wakeupEvent[w]
        /\ wakeupEvent' = [wakeupEvent EXCEPT ![w] = FALSE]
        /\ sleeping' = sleeping
    BY <1>3 DEF SleepUntilWoken, Step, Goto
  <2>2. ~sleeping[w]
    BY <2>1 DEF WakeInv, OneWakePerSleep
  <2> QED
    BY <2>1, <2>2 DEF WakeInv, OneWakePerSleep, Thread, Stage, WorkerStage
<1> QED
  BY <1>1, <1>2, <1>3 DEF Run

LEMMA WakeLocalEnqueue ==
    ASSUME WakeInv, NEW w \in Worker, LocalEnqueue(w)
    PROVE  WakeInv'
<1>1. CASE EnqueueLook(w) \/ EnqueueGrow(w)
  <2>1. PICK stage \in Stage \ {"wait"} :
          pc[w] # "wait" /\ pc' = [pc EXCEPT ![w] = stage]
          /\ UNCHANGED sleepVars
    BY <1>1 DEF EnqueueLook, EnqueueGrow, Step, Goto, elsewhere, Stage,
       WorkerStage
  <2> QED
    BY <2>1, WakeMoves DEF Thread
<1>2. CASE EnqueuePut(w) \/ EnqueueFails(w) \/ EnqueueCopy(w)
  <2>1. PICK stage \in Stage \ {"wait"} :
          pc[w] # "wait" /\ pc' = [pc EXCEPT ![w] = stage]
          /\ TryWakeUp(w)
    BY <1>2 DEF EnqueuePut, EnqueueFails, EnqueueCopy, Step, Goto, Stage,
       ThreadStage
  <2> QED
    BY <2>1, WakeTries DEF Thread
<1> QED
  BY <1>1, <1>2 DEF LocalEnqueue

LEMMA WakeRemoteEnqueue ==
    ASSUME WakeInv, NEW t \in Thread, RemoteEnqueue(t)
    PROVE  WakeInv'
<1>1. CASE RemoteLoad(t) \/ RemotePush(t)
  <2>1. PICK stage \in Stage \ {"wait"} :
          pc[t] # "wait" /\ pc' = [pc EXCEPT ![t] = stage]
          /\ UNCHANGED sleepVars
    BY <1>1 DEF RemoteLoad, RemotePush, Step, Goto, elsewhere, Stage,
       ThreadStage
  <2> QED
    BY <2>1, WakeMoves
<1>2. CASE RemoteRetry(t) \/ WakeSkip(t)
  BY <1>2 DEF RemoteRetry, WakeSkip, elsewhere, sleepVars, WakeInv,
     OneWakePerSleep
<1>3. CASE WakeOne(t)
  <2>1. PICK stage \in Stage \ {"wait"} :
          pc[t] # "wait" /\ pc' = [pc EXCEPT ![t] = stage]
          /\ TryWakeUp(index[t])
    BY <1>3 DEF WakeOne, Step, Goto, Stage, ThreadStage
  <2> QED
    BY <2>1, WakeTries
<1> QED
  BY <1>1, <1>2, <1>3 DEF RemoteEnqueue

LEMMA WakeNext ==
    ASSUME WakeInv, [Next]_vars
    PROVE  WakeInv'
<1>1. CASE Publish
  BY <1>1 DEF Publish, sleepVars, WakeInv, OneWakePerSleep
<1>2. ASSUME NEW w \in Worker, WorkerStep(w)
      PROVE  WakeInv'
  BY <1>2, WakePop, WakeTakeRemote, WakeSteal, WakeRun, WakeLocalEnqueue,
     WakeRemoteEnqueue DEF WorkerStep, Thread
<1>3. ASSUME NEW t \in External, RemoteEnqueue(t)
      PROVE  WakeInv'
  BY <1>3, WakeRemoteEnqueue DEF Thread
<1>4. CASE UNCHANGED vars
  BY <1>4 DEF vars, elsewhere, sleepVars, WakeInv, OneWakePerSleep
<1> QED
  BY <1>1, <1>2, <1>3, <1>4 DEF Next

(***************************************************************************)
(* Every sleep of a pool thread is ended by exactly one wake, and no wake  *)
(* outlives its sleep: try_wake_up sets wakeup_event only for a thread     *)
(* that has announced its sleep, and only once.                            *)
(***************************************************************************)
THEOREM WakeSafe == Spec => []OneWakePerSleep
<1>1. WakeInv => OneWakePerSleep
  BY DEF WakeInv
<1> QED
  BY <1>1, WakeInit, WakeNext, PTL DEF Spec

-----------------------------------------------------------------------------
(***************************************************************************)
(* The rings.  A pop that has lowered queue_head and a steal that has      *)
(* raised queue_tail may both give back what they claimed.  Above and      *)
(* Below bound the operations nobody has taken for good; down from Base    *)
(* a thief may still have to read its slot.                                *)
(***************************************************************************)
TakenFrom(w) == \E v \in Worker : pc[v] = "take" /\ index[v] = w
Above(w) == IF Claiming(w) THEN head[w] + 1 ELSE head[w]
Below(w) == IF StolenFrom(w) THEN tail[w] - 1 ELSE tail[w]
Base(w) == IF TakenFrom(w) THEN tail[w] - 1 ELSE Below(w)

RingOK(w) ==
    /\ Base(w) >= 0
    /\ Below(w) <= Above(w)
    /\ Above(w) - Base(w) <= mask[w] + 1
    /\ pc[w] = "put" => Above(w) - Base(w) <= mask[w]
    /\ pc[w] = "claim" => head[w] > 0
    /\ \A p \in Base(w)..(Above(w) - 1) : Slot(w, p) \in Operation

RingInv == \A w \in Worker : RingOK(w)

(***************************************************************************)
(* Who holds the lock of w: a thief between its lock and its unlock, or    *)
(* the owner where it settles a race or copies its ring.                   *)
(***************************************************************************)
ThiefHolds == {"look", "advance", "check", "take", "restore"}
OwnerHolds == {"settle", "copy"}

HoldsAt(stage, i, v, w) ==
    \/ stage \in ThiefHolds /\ i = w
    \/ stage \in OwnerHolds /\ v = w

Holds(v, w) == HoldsAt(pc[v], index[v], v, w)

LockInv == \A v, w \in Worker : remoteMutex[w] = v <=> Holds(v, w)

(***************************************************************************)
(* What a stage of a thread says of its local variables.                   *)
(***************************************************************************)
Stealing == ThiefHolds \cup {"steal"}
Enqueueing == {"put", "full", "copy", "push", "wake"}

StageInv ==
    /\ \A w \in Worker : pc[w] \in Stealing => index[w] # w
    /\ \A w \in Worker : pc[w] = "resume" <=> got[w] # None
    /\ \A t \in Thread : pc[t] \in Enqueueing => todo[t] # <<>>

Typed ==
    /\ TypeOK
    /\ ring = [w \in Worker |-> ring[w]]

PoolInv == Typed /\ LockInv /\ StageInv /\ RingInv

-----------------------------------------------------------------------------
(***************************************************************************)
(* Slots: positions less than a ring's size apart have different slots.    *)
(***************************************************************************)
LEMMA ModRange ==
    ASSUME NEW a \in Nat, NEW n \in Nat \ {0}
    PROVE  a % n \in 0..(n - 1)
OBVIOUS

LEMMA ModSum ==
    ASSUME NEW a \in Nat, NEW n \in Nat \ {0}
    PROVE  (a \div n) \in Nat /\ a = n * (a \div n) + (a % n)
OBVIOUS

LEMMA ModDistinct ==
    ASSUME NEW a \in Nat, NEW b \in Nat, NEW n \in Nat \ {0},
           a < b, b - a < n, a % n = b % n
    PROVE  FALSE
<1>1. (a \div n) \in Nat /\ a = n * (a \div n) + (a % n)
  BY ModSum
<1>2. (b \div n) \in Nat /\ b = n * (b \div n) + (b % n)
  BY ModSum
<1>3. PICK k \in Int : k = (b \div n) - (a \div n)
  BY <1>1, <1>2
<1>4. b - a = n * (b \div n) - n * (a \div n)
  BY <1>1, <1>2
<1>5. n * (b \div n) - n * (a \div n) = n * k
  BY <1>1, <1>2, <1>3, SMTT(30)
<1>6. n * k > 0 /\ n * k < n
  BY <1>4, <1>5
<1>7. CASE k <= 0
  <2>1. n * k <= 0
    BY <1>3, <1>7
  <2> QED
    BY <2>1, <1>6
<1>8. CASE k >= 1
  <2>1. n * k >= n
    BY <1>3, <1>8
  <2> QED
    BY <2>1, <1>6
<1> QED
  BY <1>3, <1>7, <1>8

(***************************************************************************)
(* The loops over the other threads.                                       *)
(***************************************************************************)
LEMMA LeastOther ==
    ASSUME NEW w \in Worker, NEW i \in Worker \cup {-1},
           OthersAfter(w, i) # {}
    PROVE  Min(OthersAfter(w, i)) \in Worker \ {w}
<1> USE PoolAssumption
<1>1. PICK v \in Worker \ {w} : v > i
  BY DEF OthersAfter
<1>2. PICK m \in Int : m = IF i + 1 = w THEN i + 2 ELSE i + 1
  BY DEF Worker
<1>3. m \in OthersAfter(w, i)
  BY <1>1, <1>2 DEF OthersAfter, Worker
<1>4. \A y \in OthersAfter(w, i) : m <= y
  BY <1>2 DEF OthersAfter, Worker
<1>5. Min(OthersAfter(w, i)) \in OthersAfter(w, i)
  BY <1>3, <1>4 DEF Min
<1> QED
  BY <1>5 DEF OthersAfter

LEMMA OnwardStep ==
    ASSUME Typed, NEW w \in Worker, NEW i \in Worker \cup {-1},
           NEW how \in {"try", "retry", "lock"}, Onward(w, i, how),
           how = "retry" => \E v \in Worker : v # w
    PROVE  \E stage \in {"steal", "idle"}, j \in Worker,
              a \in {"try", "retry", "lock"} :
              /\ pc' = [pc EXCEPT ![w] = stage]
              /\ index' = [index EXCEPT ![w] = j]
              /\ attempt' = [attempt EXCEPT ![w] = a]
              /\ stage = "steal" => j # w
<1>1. CASE OthersAfter(w, i) # {}
  <2>1. Min(OthersAfter(w, i)) \in Worker \ {w}
    BY <1>1, LeastOther
  <2> QED
    BY <1>1, <2>1 DEF Onward, Goto
<1>2. CASE OthersAfter(w, i) = {} /\ how = "retry"
  <2>1. OthersAfter(w, -1) # {}
    BY <1>2, PoolAssumption DEF OthersAfter, Worker
  <2>2. Min(OthersAfter(w, -1)) \in Worker \ {w}
    BY <2>1, LeastOther
  <2> QED
    BY <1>2, <2>2 DEF Onward, Goto
<1>3. CASE OthersAfter(w, i) = {} /\ how # "retry"
  <2>1. 0 \in Worker
    BY PoolAssumption DEF Worker
  <2> QED
    BY <1>3, <2>1 DEF Onward, Goto
<1> QED
  BY <1>1, <1>2, <1>3

-----------------------------------------------------------------------------
(***************************************************************************)
(* A step moves one thread t to a stage and an index j.                    *)
(***************************************************************************)
Moves(t, stage, j) ==
    /\ pc' = [pc EXCEPT ![t] = stage]
    /\ index' = [index EXCEPT ![t] = j]

LEMMA LockMoves ==
    ASSUME Typed, LockInv, NEW t \in Thread, NEW stage, NEW j \in Worker,
           Moves(t, stage, j),
           \A v, w \in Worker :
               IF v = t THEN remoteMutex'[w] = v <=> HoldsAt(stage, j, t, w)
                        ELSE remoteMutex'[w] = v <=> remoteMutex[w] = v
    PROVE  LockInv'
<1> SUFFICES ASSUME NEW v \in Worker, NEW w \in Worker
             PROVE  remoteMutex'[w] = v <=> HoldsAt(pc'[v], index'[v], v, w)
  BY DEF LockInv, Holds, HoldsAt
<1>1. v \in Thread
  BY DEF Thread
<1>2. CASE v = t
  BY <1>1, <1>2 DEF Typed, TypeOK, Moves
<1>3. CASE v # t
  <2>1. pc'[v] = pc[v] /\ index'[v] = index[v]
    BY <1>1, <1>3 DEF Typed, TypeOK, Moves
  <2>2. remoteMutex[w] = v <=> HoldsAt(pc[v], index[v], v, w)
    BY DEF LockInv, Holds
  <2> QED
    BY <1>3, <2>1, <2>2
<1> QED
  BY <1>2, <1>3

LEMMA LockQuiet ==
    ASSUME Typed, LockInv, NEW t \in Thread, NEW stage, NEW j \in Worker,
           Moves(t, stage, j), UNCHANGED remoteMutex,
           t \in Worker =>
              \A w \in Worker :
                 HoldsAt(stage, j, t, w) <=> HoldsAt(pc[t], index[t], t, w)
    PROVE  LockInv'
BY LockMoves DEF LockInv, Holds

LEMMA LockTake ==
    ASSUME Typed, LockInv, NEW t \in Worker, NEW stage, NEW j \in Worker,
           NEW w \in Worker,
           Moves(t, stage, j), remoteMutex[w] \notin Worker,
           \A u \in Worker :
               remoteMutex'[u] = IF u = w THEN t ELSE remoteMutex[u],
           \A u \in Worker : ~HoldsAt(pc[t], index[t], t, u),
           \A u \in Worker : HoldsAt(stage, j, t, u) <=> u = w
    PROVE  LockInv'
<1>1. ASSUME NEW v \in Worker, NEW u \in Worker
      PROVE  IF v = t THEN remoteMutex'[u] = v <=> HoldsAt(stage, j, t, u)
                      ELSE remoteMutex'[u] = v <=> remoteMutex[u] = v
  <2>1. remoteMutex'[u] = IF u = w THEN t ELSE remoteMutex[u]
    OBVIOUS
  <2>2. remoteMutex[u] = v <=> HoldsAt(pc[v], index[v], v, u)
    BY DEF LockInv, Holds
  <2>3. CASE v = t
    BY <2>1, <2>2, <2>3
  <2>4. CASE v # t
    BY <2>1, <2>4
  <2> QED
    BY <2>3, <2>4
<1> QED
  BY <1>1, LockMoves DEF Thread

LEMMA LockRelease ==
    ASSUME Typed, LockInv, NEW t \in Worker, NEW stage, NEW j \in Worker,
           NEW w \in Worker,
           Moves(t, stage, j),
           remoteMutex' = [remoteMutex EXCEPT ![w] = None],
           \A u \in Worker : HoldsAt(pc[t], index[t], t, u) <=> u = w,
           \A u \in Worker : ~HoldsAt(stage, j, t, u)
    PROVE  LockInv'
<1>1. None \notin Worker
  BY PoolAssumption
<1>2. ASSUME NEW v \in Worker, NEW u \in Worker
      PROVE  IF v = t THEN remoteMutex'[u] = v <=> HoldsAt(stage, j, t, u)
                      ELSE remoteMutex'[u] = v <=> remoteMutex[u] = v
  BY <1>1, SMTT(30) DEF LockInv, Holds, Typed, TypeOK
<1> QED
  BY <1>2, LockMoves DEF Thread

-----------------------------------------------------------------------------
(***************************************************************************)
(* Which thief a ring has, after a step of t.                              *)
(***************************************************************************)
LEMMA OtherThief ==
    ASSUME Typed, NEW t \in Thread, NEW stage, NEW j \in Worker,
           Moves(t, stage, j), NEW u \in Worker,
           t \in Worker => ~(pc[t] \in {"check", "restore"} /\ index[t] = u),
           t \in Worker => ~(pc[t] = "take" /\ index[t] = u),
           t \in Worker => ~(stage \in {"check", "restore", "take"} /\ j = u)
    PROVE  /\ StolenFrom(u)' <=> StolenFrom(u)
           /\ TakenFrom(u)' <=> TakenFrom(u)
<1>1. ASSUME NEW v \in Worker
      PROVE  IF v = t THEN pc'[v] = stage /\ index'[v] = j
                      ELSE pc'[v] = pc[v] /\ index'[v] = index[v]
  BY DEF Typed, TypeOK, Moves, Thread
<1> QED
  BY <1>1 DEF StolenFrom, TakenFrom

LEMMA HolderThief ==
    ASSUME Typed, LockInv, NEW t \in Worker, NEW stage, NEW j \in Worker,
           Moves(t, stage, j), NEW u \in Worker, Holds(t, u)
    PROVE  /\ StolenFrom(u) <=> pc[t] \in {"check", "restore"} /\ index[t] = u
           /\ TakenFrom(u) <=> pc[t] = "take" /\ index[t] = u
           /\ StolenFrom(u)' <=> stage \in {"check", "restore"} /\ j = u
           /\ TakenFrom(u)' <=> stage = "take" /\ j = u
<1>1. ASSUME NEW v \in Worker
      PROVE  IF v = t THEN pc'[v] = stage /\ index'[v] = j
                      ELSE pc'[v] = pc[v] /\ index'[v] = index[v]
  BY DEF Typed, TypeOK, Moves, Thread
<1>2. ASSUME NEW v \in Worker, pc[v] \in {"check", "restore", "take"},
             index[v] = u
      PROVE  v = t
  <2>1. Holds(v, u)
    BY <1>2 DEF Holds, HoldsAt, ThiefHolds
  <2> QED
    BY <2>1 DEF LockInv
<1>3. StolenFrom(u) <=> pc[t] \in {"check", "restore"} /\ index[t] = u
  BY <1>2 DEF StolenFrom
<1>4. TakenFrom(u) <=> pc[t] = "take" /\ index[t] = u
  BY <1>2 DEF TakenFrom
<1>5. StolenFrom(u)' <=> stage \in {"check", "restore"} /\ j = u
  BY <1>1, <1>2 DEF StolenFrom
<1>6. TakenFrom(u)' <=> stage = "take" /\ j = u
  BY <1>1, <1>2 DEF TakenFrom
<1> QED
  BY <1>3, <1>4, <1>5, <1>6

(***************************************************************************)
(* A ring that a step leaves as it is.                                     *)
(***************************************************************************)
Same(u) ==
    /\ Above(u)' = Above(u)
    /\ Below(u)' = Below(u)
    /\ Base(u)' = Base(u)
    /\ mask'[u] = mask[u]
    /\ ring'[u] = ring[u]

LEMMA SameAside ==
    ASSUME Typed, NEW t \in Thread, NEW stage, NEW j \in Worker,
           Moves(t, stage, j), NEW u \in Worker,
           t \in Worker => ~(pc[t] \in {"check", "restore"} /\ index[t] = u),
           t \in Worker => ~(pc[t] = "take" /\ index[t] = u),
           t \in Worker => ~(stage \in {"check", "restore", "take"} /\ j = u),
           u = t => (stage \in {"confirm", "lock", "settle"} <=> Claiming(t)),
           head'[u] = head[u], tail'[u] = tail[u], mask'[u] = mask[u],
           ring'[u] = ring[u]
    PROVE  Same(u)
<1>1. /\ StolenFrom(u)' <=> StolenFrom(u)
      /\ TakenFrom(u)' <=> TakenFrom(u)
  BY OtherThief
<1>2. Claiming(u)' <=> Claiming(u)
  <2>1. pc'[u] = IF u = t THEN stage ELSE pc[u]
    BY DEF Typed, TypeOK, Moves, Thread
  <2> QED
    BY <2>1 DEF Claiming
<1> QED
  BY <1>1, <1>2 DEF Same, Above, Below, Base

LEMMA SameOK ==
    ASSUME NEW u \in Worker, Same(u), RingOK(u),
           pc'[u] = "put" => Above(u) - Base(u) <= mask[u],
           pc'[u] = "claim" => head'[u] > 0
    PROVE  RingOK(u)'
BY DEF Same, RingOK, Slot

(***************************************************************************)
(* Above, Below and Base are numbers.                                      *)
(***************************************************************************)
LEMMA Bounds ==
    ASSUME Typed, NEW u \in Worker
    PROVE  /\ Above(u) \in Int /\ Below(u) \in Int /\ Base(u) \in Int
           /\ head[u] \in Nat /\ tail[u] \in Nat /\ mask[u] \in Nat
           /\ Base(u) <= Below(u)
           /\ Above(u) >= head[u]
           /\ tail[u] >= Below(u)
           /\ tail[u] - 1 <= Base(u)
BY DEF Typed, TypeOK, Above, Below, Base

-----------------------------------------------------------------------------
(***************************************************************************)
(* What each step that touches a ring does to it.                          *)
(***************************************************************************)
LEMMA ClaimEffect ==
    ASSUME Typed, NEW w \in Worker, PopClaim(w), NEW u \in Worker
    PROVE  Same(u)
<1>1. Moves(w, "confirm", index[w])
  BY DEF PopClaim, Step, Goto, Moves, localVars, Typed, TypeOK, Thread
<1>2. pc[w] = "claim"
  BY DEF PopClaim, Step
<1>3. w \in Thread /\ index[w] \in Worker
  BY DEF Thread, Typed, TypeOK
<1>4. tail' = tail /\ mask' = mask /\ ring' = ring
  BY DEF PopClaim, slots
<1>5. CASE u # w
  <2>1. head'[u] = head[u]
    BY <1>5 DEF PopClaim, Typed, TypeOK
  <2> QED
    BY <1>1, <1>2, <1>3, <1>4, <1>5, <2>1, SameAside
<1>6. CASE u = w
  <2>1. /\ StolenFrom(u)' <=> StolenFrom(u)
        /\ TakenFrom(u)' <=> TakenFrom(u)
    BY <1>1, <1>2, <1>3, OtherThief
  <2>2. ~Claiming(u) /\ Claiming(u)'
    BY <1>1, <1>2, <1>3, <1>6 DEF Claiming, Moves, Typed, TypeOK
  <2>3. head'[u] = head[u] - 1 /\ head[u] \in Nat
    BY <1>6 DEF PopClaim, Typed, TypeOK
  <2>4. Above(u)' = Above(u)
    BY <2>2, <2>3 DEF Above
  <2> QED
    BY <1>4, <2>1, <2>4 DEF Same, Below, Base
<1> QED
  BY <1>5, <1>6

(***************************************************************************)
(* The owner takes the operation on top.                                   *)
(***************************************************************************)
Takes(w) ==
    /\ Above(w)' = Above(w) - 1
    /\ Above(w) = head[w] + 1
    /\ Below(w)' = Below(w)
    /\ Base(w)' = Base(w)
    /\ mask' = mask
    /\ ring' = ring
    /\ head[w] >= Below(w)
    /\ got' = [got EXCEPT ![w] = Slot(w, head[w])]

LEMMA TakeEffect ==
    ASSUME Typed, NEW w \in Worker, PopTake(w) \/ PopWins(w)
    PROVE  /\ Takes(w)
           /\ \A u \in Worker \ {w} : Same(u)
<1>1. Moves(w, "resume", index[w])
  BY DEF PopTake, PopWins, Step, Goto, Moves, Typed, TypeOK, Thread
<1>2. pc[w] \in {"confirm", "settle"}
  BY DEF PopTake, PopWins, Step
<1>3. w \in Thread /\ index[w] \in Worker
  BY DEF Thread, Typed, TypeOK
<1>4. head' = head /\ tail' = tail /\ mask' = mask /\ ring' = ring
  BY DEF PopTake, PopWins, slots, ringVars
<1>5. ASSUME NEW u \in Worker \ {w}
      PROVE  Same(u)
  BY <1>1, <1>2, <1>3, <1>4, SameAside
<1>6. /\ StolenFrom(w)' <=> StolenFrom(w)
      /\ TakenFrom(w)' <=> TakenFrom(w)
  BY <1>1, <1>2, <1>3, OtherThief
<1>7. Claiming(w) /\ ~Claiming(w)'
  BY <1>1, <1>2, <1>3 DEF Claiming, Moves, Typed, TypeOK
<1>8. head[w] - tail[w] >= 0
  BY DEF PopTake, PopWins, StillThere
<1>9. head[w] >= Below(w)
  BY <1>8, Bounds
<1>10. Above(w)' = Above(w) - 1 /\ Above(w) = head[w] + 1
  BY <1>4, <1>7, Bounds DEF Above
<1>11. got' = [got EXCEPT ![w] = Slot(w, head[w])]
  BY DEF PopTake, PopWins
<1>12. Below(w)' = Below(w) /\ Base(w)' = Base(w)
  BY <1>4, <1>6 DEF Below, Base
<1> QED
  BY <1>4, <1>5, <1>9, <1>10, <1>11, <1>12 DEF Takes

LEMMA LoseEffect ==
    ASSUME Typed, NEW w \in Worker, PopLoses(w), NEW u \in Worker
    PROVE  Same(u)
<1>1. Moves(w, "remote", index[w])
  BY DEF PopLoses, Step, Goto, Moves, localVars, Typed, TypeOK, Thread
<1>2. pc[w] = "settle"
  BY DEF PopLoses, Step
<1>3. w \in Thread /\ index[w] \in Worker
  BY DEF Thread, Typed, TypeOK
<1>4. tail' = tail /\ mask' = mask /\ ring' = ring
  BY DEF PopLoses, slots
<1>5. CASE u # w
  <2>1. head'[u] = head[u]
    BY <1>5 DEF PopLoses, Typed, TypeOK
  <2> QED
    BY <1>1, <1>2, <1>3, <1>4, <1>5, <2>1, SameAside
<1>6. CASE u = w
  <2>1. /\ StolenFrom(u)' <=> StolenFrom(u)
        /\ TakenFrom(u)' <=> TakenFrom(u)
    BY <1>1, <1>2, <1>3, OtherThief
  <2>2. Claiming(u) /\ ~Claiming(u)'
    BY <1>1, <1>2, <1>3, <1>6 DEF Claiming, Moves, Typed, TypeOK
  <2>3. head'[u] = head[u] + 1 /\ head[u] \in Nat
    BY <1>6 DEF PopLoses, Typed, TypeOK
  <2>4. Above(u)' = Above(u)
    BY <2>2, <2>3 DEF Above
  <2> QED
    BY <1>4, <2>1, <2>4 DEF Same, Below, Base
<1> QED
  BY <1>5, <1>6

LEMMA AdvanceEffect ==
    ASSUME Typed, LockInv, NEW w \in Worker, StealAdvance(w), NEW u \in Worker
    PROVE  Same(u)
<1>1. Moves(w, "check", index[w])
  BY DEF StealAdvance, Step, Goto, Moves, localVars, Typed, TypeOK, Thread
<1>2. pc[w] = "advance"
  BY DEF StealAdvance, Step
<1>3. w \in Thread /\ index[w] \in Worker
  BY DEF Thread, Typed, TypeOK
<1>4. head' = head /\ mask' = mask /\ ring' = ring
  BY DEF StealAdvance, slots
<1>5. Claiming(u)' <=> Claiming(u)
  BY <1>1, <1>2, <1>3 DEF Claiming, Moves, Typed, TypeOK, Thread
<1>6. CASE u # index[w]
  <2>1. tail'[u] = tail[u]
    BY <1>6 DEF StealAdvance, Typed, TypeOK
  <2>2. /\ StolenFrom(u)' <=> StolenFrom(u)
        /\ TakenFrom(u)' <=> TakenFrom(u)
    BY <1>1, <1>2, <1>3, <1>6, OtherThief
  <2> QED
    BY <1>4, <1>5, <2>1, <2>2 DEF Same, Above, Below, Base
<1>7. CASE u = index[w]
  <2>1. tail'[u] = tail[u] + 1 /\ tail[u] \in Nat
    BY <1>7 DEF StealAdvance, Typed, TypeOK
  <2>2. Holds(w, u)
    BY <1>2, <1>7 DEF Holds, HoldsAt, ThiefHolds
  <2>3. ~StolenFrom(u) /\ ~TakenFrom(u) /\ StolenFrom(u)' /\ ~TakenFrom(u)'
    BY <1>1, <1>2, <1>3, <1>7, <2>2, HolderThief
  <2> QED
    BY <1>4, <1>5, <2>1, <2>3 DEF Same, Above, Below, Base
<1> QED
  BY <1>6, <1>7

(***************************************************************************)
(* A thief secures the oldest operation of v, which is the owner's no      *)
(* more, but has still to read its slot.                                   *)
(***************************************************************************)
Secures(v) ==
    /\ Above(v)' = Above(v)
    /\ Below(v)' = Below(v) + 1
    /\ Base(v)' = Base(v)
    /\ Base(v) = Below(v)
    /\ Below(v) < Above(v)
    /\ Below(v) = tail[v] - 1
    /\ mask' = mask
    /\ ring' = ring

LEMMA CheckEffect ==
    ASSUME Typed, LockInv, NEW w \in Worker, StealCheck(w)
    PROVE  IF Secured(index[w])
           THEN /\ Secures(index[w])
                /\ \A u \in Worker \ {index[w]} : Same(u)
           ELSE \A u \in Worker : Same(u)
<1>1. PICK stage \in {"take", "restore"} :
        /\ Moves(w, stage, index[w])
        /\ stage = IF Secured(index[w]) THEN "take" ELSE "restore"
  BY DEF StealCheck, Step, Goto, Moves, localVars, Typed, TypeOK, Thread
<1>2. pc[w] = "check"
  BY DEF StealCheck, Step
<1>3. w \in Thread /\ index[w] \in Worker
  BY DEF Thread, Typed, TypeOK
<1>4. head' = head /\ tail' = tail /\ mask' = mask /\ ring' = ring
  BY DEF StealCheck, slots, ringVars
<1>5. ASSUME NEW u \in Worker
      PROVE  Claiming(u)' <=> Claiming(u)
  BY <1>1, <1>2, <1>3 DEF Claiming, Moves, Typed, TypeOK, Thread
<1>6. ASSUME NEW u \in Worker \ {index[w]}
      PROVE  Same(u)
  <2>1. /\ StolenFrom(u)' <=> StolenFrom(u)
        /\ TakenFrom(u)' <=> TakenFrom(u)
    BY <1>1, <1>2, <1>3, OtherThief
  <2> QED
    BY <1>4, <1>5, <2>1 DEF Same, Above, Below, Base
<1>7. PICK v \in Worker : v = index[w]
  BY <1>3
<1>8. Holds(w, v)
  BY <1>2, <1>7 DEF Holds, HoldsAt, ThiefHolds
<1>9. Moves(w, stage, v)
  BY <1>1, <1>7
<1>10. tail[v] \in Nat /\ head[v] \in Nat
  BY DEF Typed, TypeOK
<1>11. /\ StolenFrom(v)
       /\ ~TakenFrom(v)
       /\ StolenFrom(v)' <=> stage = "restore"
       /\ TakenFrom(v)' <=> stage = "take"
  BY <1>1, <1>2, <1>7, <1>8, <1>9, HolderThief
<1>12. CASE Secured(v)
  <2>1. stage = "take"
    BY <1>1, <1>7, <1>12
  <2>2. head[v] - (tail[v] - 1) > 0
    BY <1>12 DEF Secured
  <2>3. Secures(v)
    BY <1>4, <1>5, <1>10, <1>11, <2>1, <2>2
       DEF Secures, Above, Below, Base
  <2> QED
    BY <1>6, <1>7, <1>12, <2>3
<1>13. CASE ~Secured(v)
  <2>1. stage = "restore"
    BY <1>1, <1>7, <1>13
  <2>2. Same(v)
    BY <1>4, <1>5, <1>11, <2>1 DEF Same, Above, Below, Base
  <2> QED
    BY <1>6, <1>7, <1>13, <2>2
<1> QED
  BY <1>12, <1>13

(***************************************************************************)
(* The thief has read the slot and leaves.                                 *)
(***************************************************************************)
Leaves(v) ==
    /\ Above(v)' = Above(v)
    /\ Below(v)' = Below(v)
    /\ Base(v)' = Base(v) + 1
    /\ Base(v) = Below(v) - 1
    /\ Base(v) = tail[v] - 1
    /\ mask' = mask
    /\ ring' = ring

LEMMA StealTakeEffect ==
    ASSUME Typed, LockInv, NEW w \in Worker, StealTake(w)
    PROVE  /\ Leaves(index[w])
           /\ \A u \in Worker \ {index[w]} : Same(u)
           /\ got' = [got EXCEPT ![w] = Slot(index[w], tail[index[w]] - 1)]
<1>1. Moves(w, "resume", 0) /\ 0 \in Worker
  BY PoolAssumption DEF StealTake, Step, Goto, Moves, Worker
<1>2. pc[w] = "take"
  BY DEF StealTake, Step
<1>3. w \in Thread /\ index[w] \in Worker
  BY DEF Thread, Typed, TypeOK
<1>4. head' = head /\ tail' = tail /\ mask' = mask /\ ring' = ring
  BY DEF StealTake, slots
<1>5. ASSUME NEW u \in Worker
      PROVE  Claiming(u)' <=> Claiming(u)
  BY <1>1, <1>2, <1>3 DEF Claiming, Moves, Typed, TypeOK, Thread
<1>6. ASSUME NEW u \in Worker \ {index[w]}
      PROVE  Same(u)
  <2>1. /\ StolenFrom(u)' <=> StolenFrom(u)
        /\ TakenFrom(u)' <=> TakenFrom(u)
    BY <1>1, <1>2, <1>3, OtherThief
  <2> QED
    BY <1>4, <1>5, <2>1 DEF Same, Above, Below, Base
<1>7. PICK v \in Worker : v = index[w]
  BY <1>3
<1>8. Holds(w, v)
  BY <1>2, <1>7 DEF Holds, HoldsAt, ThiefHolds
<1>9. ~StolenFrom(v) /\ TakenFrom(v) /\ ~StolenFrom(v)' /\ ~TakenFrom(v)'
  BY <1>1, <1>2, <1>3, <1>7, <1>8, HolderThief
<1>10. tail[v] \in Nat /\ head[v] \in Nat
  BY DEF Typed, TypeOK
<1>11. Leaves(v)
  BY <1>4, <1>5, <1>9, <1>10 DEF Leaves, Above, Below, Base
<1>12. got' = [got EXCEPT ![w] = Slot(index[w], tail[index[w]] - 1)]
  BY DEF StealTake
<1> QED
  BY <1>6, <1>7, <1>11, <1>12

LEMMA RestoreEffect ==
    ASSUME Typed, LockInv, NEW w \in Worker, StealRestore(w),
           NEW stage \in {"steal", "idle"}, NEW j \in Worker,
           Moves(w, stage, j), NEW u \in Worker
    PROVE  Same(u)
<1>2. pc[w] = "restore"
  BY DEF StealRestore
<1>3. w \in Thread /\ index[w] \in Worker
  BY DEF Thread, Typed, TypeOK
<1>4. head' = head /\ mask' = mask /\ ring' = ring
  BY DEF StealRestore, slots
<1>5. Claiming(u)' <=> Claiming(u)
  BY <1>2, <1>3 DEF Claiming, Moves, Typed, TypeOK, Thread
<1>6. CASE u # index[w]
  <2>1. tail'[u] = tail[u]
    BY <1>6 DEF StealRestore, Typed, TypeOK
  <2>2. /\ StolenFrom(u)' <=> StolenFrom(u)
        /\ TakenFrom(u)' <=> TakenFrom(u)
    BY <1>2, <1>3, <1>6, OtherThief
  <2> QED
    BY <1>4, <1>5, <2>1, <2>2 DEF Same, Above, Below, Base
<1>7. CASE u = index[w]
  <2>1. tail'[u] = tail[u] - 1 /\ tail[u] \in Nat
    BY <1>7 DEF StealRestore, Typed, TypeOK
  <2>2. Holds(w, u)
    BY <1>2, <1>7 DEF Holds, HoldsAt, ThiefHolds
  <2>3. StolenFrom(u) /\ ~TakenFrom(u) /\ ~StolenFrom(u)' /\ ~TakenFrom(u)'
    BY <1>2, <1>3, <1>7, <2>2, HolderThief
  <2> QED
    BY <1>4, <1>5, <2>1, <2>3 DEF Same, Above, Below, Base
<1> QED
  BY <1>6, <1>7

-----------------------------------------------------------------------------
(***************************************************************************)
(* The owner adds the operation it has to schedule next.                   *)
(***************************************************************************)
NewSlot(w, position) == ring'[w][position % (mask'[w] + 1)]

Adds(w) ==
    /\ Above(w)' = Above(w) + 1
    /\ Below(w)' = Below(w)
    /\ Base(w)' = Base(w)
    /\ Above(w) - Base(w) <= mask'[w]
    /\ NewSlot(w, Above(w)) = Head(todo[w])
    /\ \A p \in Base(w)..(Above(w) - 1) : NewSlot(w, p) = Slot(w, p)

LEMMA PutEffect ==
    ASSUME Typed, NEW w \in Worker, EnqueuePut(w), RingOK(w)
    PROVE  /\ Adds(w)
           /\ \A u \in Worker \ {w} : Same(u)
<1>1. Moves(w, "wake", index[w])
  BY DEF EnqueuePut, Step, Goto, Moves, localVars, Typed, TypeOK, Thread
<1>2. pc[w] = "put"
  BY DEF EnqueuePut, Step
<1>3. w \in Thread /\ index[w] \in Worker
  BY DEF Thread, Typed, TypeOK
<1>4. tail' = tail /\ mask' = mask
  BY DEF EnqueuePut
<1>5. ASSUME NEW u \in Worker
      PROVE  /\ StolenFrom(u)' <=> StolenFrom(u)
             /\ TakenFrom(u)' <=> TakenFrom(u)
             /\ Claiming(u)' <=> Claiming(u)
  <2>1. Claiming(u)' <=> Claiming(u)
    BY <1>1, <1>2, <1>3 DEF Claiming, Moves, Typed, TypeOK, Thread
  <2> QED
    BY <1>1, <1>2, <1>3, <2>1, OtherThief
<1>6. ASSUME NEW u \in Worker \ {w}
      PROVE  Same(u)
  <2>1. head'[u] = head[u] /\ ring'[u] = ring[u]
    BY DEF EnqueuePut, Typed, TypeOK
  <2> QED
    BY <1>4, <1>5, <2>1 DEF Same, Above, Below, Base
<1>7. ~Claiming(w)
  BY <1>2 DEF Claiming
<1>8. head'[w] = head[w] + 1
  BY DEF EnqueuePut, Typed, TypeOK
<1>9. PICK h \in Nat : h = head[w]
  BY Bounds
<1>10. PICK n \in Nat \ {0} : n = mask[w] + 1
  BY Bounds
<1>11. Above(w) = h /\ Above(w)' = h + 1
  BY <1>5, <1>7, <1>8, <1>9 DEF Above
<1>12. Below(w)' = Below(w) /\ Base(w)' = Base(w)
  BY <1>4, <1>5 DEF Below, Base
<1>13. h - Base(w) <= n - 1 /\ Base(w) >= 0 /\ Base(w) \in Int
  BY <1>2, <1>10, <1>11, Bounds DEF RingOK
<1>14. ring'[w] = [ring[w] EXCEPT ![h % n] = Head(todo[w])]
  <2>1. ring' = [ring EXCEPT ![w][h % n] = Head(todo[w])]
    BY <1>9, <1>10 DEF EnqueuePut
  <2>2. DOMAIN ring = Worker
    BY DEF Typed
  <2> QED
    BY <2>1, <2>2
<1>15. ring[w] \in [0..(n - 1) -> Operation \cup {None}]
  <2>1. mask[w] = n - 1
    BY <1>10, Bounds
  <2>2. ring[w] \in [0..mask[w] -> Operation \cup {None}]
    BY DEF Typed, TypeOK
  <2> QED
    BY <2>1, <2>2
<1>16. NewSlot(w, Above(w)) = Head(todo[w])
  BY <1>4, <1>10, <1>11, <1>14, <1>15, ModRange DEF NewSlot
<1>17. ASSUME NEW p \in Base(w)..(Above(w) - 1)
       PROVE  NewSlot(w, p) = Slot(w, p)
  <2>1. p \in Nat /\ p < h /\ h - p < n
    BY <1>11, <1>13
  <2>2. p % n # h % n
    BY <2>1, ModDistinct
  <2> QED
    BY <1>4, <1>10, <1>14, <1>15, <2>1, <2>2, ModRange DEF Slot, NewSlot
<1> QED
  BY <1>4, <1>6, <1>10, <1>11, <1>12, <1>13, <1>16, <1>17, Bounds DEF Adds

(***************************************************************************)
(* Growing: every position keeps its operation, in the slot it has under   *)
(* the new size.                                                           *)
(***************************************************************************)
LEMMA CopiedSlot ==
    ASSUME NEW w \in Worker, NEW size \in Nat \ {0},
           head[w] \in Nat, tail[w] \in Nat, head[w] - tail[w] <= size,
           NEW p \in tail[w]..(head[w] - 1)
    PROVE  Copied(w, size)[p % size] = Slot(w, p)
<1>1. p \in Nat
  OBVIOUS
<1>2. p % size \in 0..(size - 1)
  BY <1>1, ModRange
<1>3. ASSUME NEW j \in tail[w]..(head[w] - 1), j % size = p % size
      PROVE  j = p
  <2>1. j \in Nat /\ j - p < size /\ p - j < size
    OBVIOUS
  <2>2. ~(j < p)
    BY <1>1, <1>3, <2>1, ModDistinct
  <2>3. ~(p < j)
    BY <1>1, <1>3, <2>1, ModDistinct
  <2> QED
    BY <1>1, <2>1, <2>2, <2>3
<1>4. (CHOOSE j \in tail[w]..(head[w] - 1) : j % size = p % size) = p
  BY <1>3
<1>5. \E j \in tail[w]..(head[w] - 1) : j % size = p % size
  OBVIOUS
<1> QED
  BY <1>2, <1>4, <1>5 DEF Copied

LEMMA CopyEffect ==
    ASSUME Typed, LockInv, NEW w \in Worker, EnqueueCopy(w), RingOK(w)
    PROVE  /\ Adds(w)
           /\ mask'[w] >= mask[w]
           /\ \A u \in Worker \ {w} : Same(u)
<1>1. Moves(w, "wake", index[w])
  BY DEF EnqueueCopy, Step, Goto, Moves, localVars, Typed, TypeOK, Thread
<1>2. pc[w] = "copy"
  BY DEF EnqueueCopy, Step
<1>3. w \in Thread /\ index[w] \in Worker
  BY DEF Thread, Typed, TypeOK
<1>4. tail' = tail
  BY DEF EnqueueCopy
<1>5. ASSUME NEW u \in Worker
      PROVE  /\ StolenFrom(u)' <=> StolenFrom(u)
             /\ TakenFrom(u)' <=> TakenFrom(u)
             /\ Claiming(u)' <=> Claiming(u)
  <2>1. Claiming(u)' <=> Claiming(u)
    BY <1>1, <1>2, <1>3 DEF Claiming, Moves, Typed, TypeOK, Thread
  <2> QED
    BY <1>1, <1>2, <1>3, <2>1, OtherThief
<1>6. ASSUME NEW u \in Worker \ {w}
      PROVE  Same(u)
  <2>1. head'[u] = head[u] /\ ring'[u] = ring[u] /\ mask'[u] = mask[u]
    BY DEF EnqueueCopy, Typed, TypeOK
  <2> QED
    BY <1>4, <1>5, <2>1 DEF Same, Above, Below, Base
<1>7. Holds(w, w)
  BY <1>2 DEF Holds, HoldsAt, OwnerHolds
<1>8. ~Claiming(w) /\ ~StolenFrom(w) /\ ~TakenFrom(w)
  BY <1>1, <1>2, <1>3, <1>7, HolderThief DEF Claiming
<1>9. PICK h \in Nat : h = head[w]
  BY Bounds
<1>10. PICK n \in Nat \ {0} : n = 2 * (mask[w] + 1)
  BY Bounds
<1>11. PICK b \in Nat : b = tail[w]
  BY Bounds
<1>12. /\ Above(w) = h /\ Above(w)' = h + 1
       /\ Below(w) = b /\ Below(w)' = b
       /\ Base(w) = b /\ Base(w)' = b
  <2>1. head'[w] = h + 1 /\ tail'[w] = b
    BY <1>4, <1>9, <1>11 DEF EnqueueCopy, Typed, TypeOK
  <2> QED
    BY <1>5, <1>8, <1>9, <1>11, <2>1 DEF Above, Below, Base
<1>13. mask'[w] = n - 1
  BY <1>10 DEF EnqueueCopy, Typed, TypeOK
<1>14. h - b <= n - 1 /\ mask'[w] >= mask[w]
  <2>1. h - b <= mask[w] + 1
    BY <1>12 DEF RingOK
  <2> QED
    BY <2>1, <1>10, <1>13, Bounds
<1>15. ring'[w] = [Copied(w, n) EXCEPT ![h % n] = Head(todo[w])]
  <2>1. ring' = [ring EXCEPT ![w] = [Copied(w, n) EXCEPT
                                            ![h % n] = Head(todo[w])]]
    BY <1>9, <1>10 DEF EnqueueCopy
  <2>2. DOMAIN ring = Worker
    BY DEF Typed
  <2> QED
    BY <2>1, <2>2
<1>16. DOMAIN Copied(w, n) = 0..(n - 1)
  BY DEF Copied
<1>17. h % n \in 0..(n - 1)
  BY ModRange
<1>18. NewSlot(w, Above(w)) = Head(todo[w])
  <2>1. NewSlot(w, Above(w)) = ring'[w][h % n]
    BY <1>12, <1>13, <1>10 DEF NewSlot
  <2> QED
    BY <2>1, <1>15, <1>16, <1>17
<1>19. ASSUME NEW p \in Base(w)..(Above(w) - 1)
       PROVE  NewSlot(w, p) = Slot(w, p)
  <2>1. p \in Nat /\ p < h /\ h - p < n /\ p \in tail[w]..(head[w] - 1)
    BY <1>9, <1>11, <1>12, <1>14
  <2>2. p % n # h % n
    BY <2>1, ModDistinct
  <2>3. NewSlot(w, p) = ring'[w][p % n]
    BY <1>13, <1>10 DEF NewSlot
  <2>4. p % n \in 0..(n - 1)
    BY <2>1, ModRange
  <2>5. ring'[w][p % n] = Copied(w, n)[p % n]
    BY <1>15, <1>16, <2>2, <2>4
  <2>6. head[w] \in Nat /\ tail[w] \in Nat /\ head[w] - tail[w] <= n
    BY <1>9, <1>11, <1>14
  <2>7. Copied(w, n)[p % n] = Slot(w, p)
    BY <2>1, <2>6, CopiedSlot
  <2> QED
    BY <2>3, <2>5, <2>7
<1> QED
  BY <1>6, <1>12, <1>13, <1>14, <1>18, <1>19 DEF Adds

-----------------------------------------------------------------------------
(***************************************************************************)
(* Each effect preserves RingOK.                                           *)
(***************************************************************************)
LEMMA TakesOK ==
    ASSUME Typed, NEW w \in Worker, RingOK(w), Takes(w),
           pc'[w] = "resume"
    PROVE  RingOK(w)'
<1>1. /\ Base(w)' >= 0
      /\ Below(w)' <= Above(w)'
      /\ Above(w)' - Base(w)' <= mask'[w] + 1
  BY Bounds DEF Takes, RingOK
<1>2. ASSUME NEW p \in Base(w)..(Above(w) - 2)
      PROVE  Slot(w, p)' \in Operation
  <2>1. p \in Base(w)..(Above(w) - 1)
    BY Bounds
  <2>2. Slot(w, p) \in Operation
    BY <2>1 DEF RingOK
  <2> QED
    BY <2>2 DEF Takes, Slot
<1>3. (\A p \in Base(w)..(Above(w) - 1) : Slot(w, p) \in Operation)'
  <2>1. Base(w)' = Base(w) /\ Above(w)' - 1 = Above(w) - 2
    BY Bounds DEF Takes
  <2> QED
    BY <1>2, <2>1
<1> QED
  BY <1>1, <1>3 DEF RingOK

LEMMA SecuresOK ==
    ASSUME NEW w \in Worker, RingOK(w), Secures(w), Typed,
           pc'[w] = pc[w], head'[w] = head[w]
    PROVE  RingOK(w)'
<1>1. /\ Base(w)' >= 0
      /\ Below(w)' <= Above(w)'
      /\ Above(w)' - Base(w)' <= mask'[w] + 1
      /\ pc'[w] = "put" => Above(w)' - Base(w)' <= mask'[w]
      /\ pc'[w] = "claim" => head'[w] > 0
  BY Bounds DEF Secures, RingOK
<1>2. (\A p \in Base(w)..(Above(w) - 1) : Slot(w, p) \in Operation)'
  BY DEF Secures, RingOK, Slot
<1> QED
  BY <1>1, <1>2 DEF RingOK

LEMMA LeavesOK ==
    ASSUME NEW w \in Worker, RingOK(w), Leaves(w), Typed,
           pc'[w] = pc[w], head'[w] = head[w]
    PROVE  RingOK(w)'
<1>1. /\ Base(w)' >= 0
      /\ Below(w)' <= Above(w)'
      /\ Above(w)' - Base(w)' <= mask'[w] + 1
      /\ pc'[w] = "put" => Above(w)' - Base(w)' <= mask'[w]
      /\ pc'[w] = "claim" => head'[w] > 0
  BY Bounds DEF Leaves, RingOK
<1>2. (\A p \in Base(w)..(Above(w) - 1) : Slot(w, p) \in Operation)'
  <2>1. ASSUME NEW p \in (Base(w) + 1)..(Above(w) - 1)
        PROVE  Slot(w, p)' \in Operation
    <3>1. p \in Base(w)..(Above(w) - 1)
      BY Bounds
    <3>2. Slot(w, p) \in Operation
      BY <3>1 DEF RingOK
    <3> QED
      BY <3>2 DEF Leaves, Slot
  <2>2. Base(w)' = Base(w) + 1 /\ Above(w)' = Above(w)
    BY DEF Leaves
  <2> QED
    BY <2>1, <2>2
<1> QED
  BY <1>1, <1>2 DEF RingOK

LEMMA AddsOK ==
    ASSUME NEW w \in Worker, RingOK(w), Adds(w), Typed, mask'[w] \in Nat,
           Head(todo[w]) \in Operation, pc'[w] = "wake"
    PROVE  RingOK(w)'
<1>1. /\ Base(w)' >= 0
      /\ Below(w)' <= Above(w)'
      /\ Above(w)' - Base(w)' <= mask'[w] + 1
  BY Bounds DEF Adds, RingOK
<1>2. (\A p \in Base(w)..(Above(w) - 1) : Slot(w, p) \in Operation)'
  <2>1. ASSUME NEW p \in Base(w)..Above(w)
        PROVE  Slot(w, p)' \in Operation
    <3>1. Slot(w, p)' = NewSlot(w, p)
      BY DEF Slot, NewSlot
    <3>2. CASE p = Above(w)
      BY <3>1, <3>2 DEF Adds
    <3>3. CASE p # Above(w)
      <4>1. p \in Base(w)..(Above(w) - 1)
        BY <3>3, Bounds
      <4>2. Slot(w, p) \in Operation
        BY <4>1 DEF RingOK
      <4>3. NewSlot(w, p) = Slot(w, p)
        BY <4>1 DEF Adds
      <4> QED
        BY <3>1, <4>2, <4>3
    <3> QED
      BY <3>2, <3>3
  <2>2. Base(w)' = Base(w) /\ Above(w)' - 1 = Above(w)
    BY Bounds DEF Adds
  <2> QED
    BY <2>1, <2>2
<1> QED
  BY <1>1, <1>2 DEF RingOK

-----------------------------------------------------------------------------
(***************************************************************************)
(* Types.                                                                  *)
(***************************************************************************)
LEMMA TypedPop ==
    ASSUME PoolInv, NEW w \in Worker, Pop(w)
    PROVE  Typed'
<1> USE DEF PoolInv, Typed, Step, Goto, Thread, WorkerStage, ThreadStage
<1>1. CASE PopLook(w)
  BY <1>1 DEF PopLook, elsewhere, ringVars, localVars, listVars, sleepVars,
     TypeOK
<1>2. CASE PopClaim(w)
  <2>1. head[w] - 1 \in Nat
    BY <1>2 DEF PopClaim, RingInv, RingOK, TypeOK
  <2> QED
    BY <1>2, <2>1 DEF PopClaim, elsewhere, slots, localVars, listVars,
       sleepVars, TypeOK
<1>3. CASE PopTake(w) \/ PopWins(w)
  <2>1. Slot(w, head[w]) \in Operation
    <3>1. Takes(w)
      BY <1>3, TakeEffect
    <3>2. head[w] \in Base(w)..(Above(w) - 1)
      BY <3>1, Bounds DEF Takes
    <3> QED
      BY <3>2 DEF RingInv, RingOK
  <2>2. CASE PopTake(w)
    BY <2>1, <2>2 DEF PopTake, elsewhere, ringVars, listVars, sleepVars,
       TypeOK
  <2>3. CASE PopWins(w)
    BY <2>1, <2>3 DEF PopWins, elsewhere, slots, listVars, sleepVars, TypeOK
  <2> QED
    BY <1>3, <2>2, <2>3
<1>4. CASE PopRace(w)
  BY <1>4 DEF PopRace, elsewhere, ringVars, localVars, listVars, sleepVars,
     TypeOK
<1>5. CASE PopLock(w)
  BY <1>5 DEF PopLock, elsewhere, slots, localVars, listVars, sleepVars,
     TypeOK
<1>6. CASE PopLoses(w)
  BY <1>6 DEF PopLoses, elsewhere, slots, localVars, listVars, sleepVars,
     TypeOK
<1> QED
  BY <1>1, <1>2, <1>3, <1>4, <1>5, <1>6 DEF Pop

LEMMA RemoteList ==
    ASSUME Typed, NEW list,
           list = IF ready = <<>> THEN Reversed(arrivals) ELSE ready
    PROVE  list \in Seq(Operation)
<1>1. Reversed(arrivals) \in Seq(Operation)
  BY DEF Typed, TypeOK, Reversed, Reverse
<1> QED
  BY <1>1 DEF Typed, TypeOK

LEMMA TypedTakeRemote ==
    ASSUME PoolInv, NEW w \in Worker, TakeRemote(w)
    PROVE  Typed'
<1> USE DEF PoolInv, Typed, Step, Goto, Thread, WorkerStage, ThreadStage
<1>1. CASE GetRemoteUnpublished(w)
  BY <1>1 DEF GetRemoteUnpublished, elsewhere, ringVars, localVars, listVars,
     sleepVars, TypeOK
<1>2. CASE GetRemoteNothing(w)
  <2>1. PICK stage \in {"steal", "idle"}, j \in Worker,
             a \in {"try", "retry", "lock"} :
              /\ pc' = [pc EXCEPT ![w] = stage]
              /\ index' = [index EXCEPT ![w] = j]
              /\ attempt' = [attempt EXCEPT ![w] = a]
    BY <1>2, OnwardStep DEF GetRemoteNothing
  <2> QED
    BY <1>2, <2>1 DEF GetRemoteNothing, elsewhere, ringVars, listVars,
       sleepVars, TypeOK
<1>3. CASE GetRemote(w)
  <2>1. PICK list : list = IF ready = <<>> THEN Reversed(arrivals) ELSE ready
    OBVIOUS
  <2>2. list \in Seq(Operation)
    BY <2>1, RemoteList
  <2>3. /\ pc' = [pc EXCEPT ![w] = "resume"]
        /\ list # <<>>
        /\ got' = [got EXCEPT ![w] = Head(list)]
        /\ ready' = Tail(list)
        /\ arrivals' = IF ready = <<>> THEN <<>> ELSE arrivals
        /\ UNCHANGED <<published, ringVars, sleepVars, todo, seen, index,
                       attempt, resumed>>
    BY <1>3, <2>1 DEF GetRemote
  <2>4. /\ Head(list) \in Operation
        /\ ready' \in Seq(Operation)
        /\ arrivals' \in Seq(Operation)
    BY <2>2, <2>3 DEF TypeOK
  <2> QED
    BY <2>3, <2>4 DEF ringVars, sleepVars, TypeOK
<1> QED
  BY <1>1, <1>2, <1>3 DEF TakeRemote

LEMMA StealOnward ==
    ASSUME PoolInv, NEW w \in Worker, pc[w] \in Stealing,
           NEW how \in {"try", "retry", "lock"}, Onward(w, index[w], how)
    PROVE  \E stage \in {"steal", "idle"}, j \in Worker,
              a \in {"try", "retry", "lock"} :
              /\ pc' = [pc EXCEPT ![w] = stage]
              /\ index' = [index EXCEPT ![w] = j]
              /\ attempt' = [attempt EXCEPT ![w] = a]
              /\ stage = "steal" => j # w
<1>1. index[w] \in Worker /\ index[w] # w
  BY DEF PoolInv, Typed, TypeOK, StageInv, Thread
<1> QED
  BY <1>1, OnwardStep DEF PoolInv

LEMMA TypedSteal ==
    ASSUME PoolInv, NEW w \in Worker, Steal(w)
    PROVE  Typed'
<1> USE DEF PoolInv, Typed, Step, Goto, Thread, WorkerStage, ThreadStage
<1>1. index[w] \in Worker /\ 0 \in Worker
  BY PoolAssumption DEF TypeOK, Worker
<1>2. CASE StealLock(w)
  BY <1>1, <1>2 DEF StealLock, elsewhere, slots, localVars, listVars,
     sleepVars, TypeOK
<1>3. CASE StealUnavailable(w)
  <2>1. PICK stage \in {"steal", "idle"}, j \in Worker,
             a \in {"try", "retry", "lock"} :
              /\ pc' = [pc EXCEPT ![w] = stage]
              /\ index' = [index EXCEPT ![w] = j]
              /\ attempt' = [attempt EXCEPT ![w] = a]
    BY <1>3, StealOnward DEF StealUnavailable, Stealing
  <2> QED
    BY <1>3, <2>1 DEF StealUnavailable, elsewhere, ringVars, listVars,
       sleepVars, TypeOK
<1>4. CASE StealLook(w)
  BY <1>4 DEF StealLook, elsewhere, ringVars, localVars, listVars, sleepVars,
     TypeOK
<1>5. CASE StealNothing(w)
  <2>1. attempt[w] \in {"try", "retry", "lock"}
    BY DEF TypeOK
  <2>2. PICK stage \in {"steal", "idle"}, j \in Worker,
             a \in {"try", "retry", "lock"} :
              /\ pc' = [pc EXCEPT ![w] = stage]
              /\ index' = [index EXCEPT ![w] = j]
              /\ attempt' = [attempt EXCEPT ![w] = a]
    BY <1>5, <2>1, StealOnward DEF StealNothing, Stealing, ThiefHolds
  <2> QED
    BY <1>1, <1>5, <2>2 DEF StealNothing, elsewhere, slots, listVars,
       sleepVars, TypeOK
<1>6. CASE StealAdvance(w)
  <2>1. PICK v \in Worker : v = index[w]
    BY <1>1
  <2>2. tail' = [tail EXCEPT ![v] = @ + 1]
    BY <1>6, <2>1 DEF StealAdvance
  <2>3. tail' \in [Worker -> Nat]
    BY <2>2 DEF TypeOK
  <2> QED
    BY <1>6, <2>3 DEF StealAdvance, elsewhere, slots, localVars, listVars,
       sleepVars, TypeOK
<1>7. CASE StealCheck(w)
  BY <1>7 DEF StealCheck, elsewhere, ringVars, localVars, listVars,
     sleepVars, TypeOK
<1>8. CASE StealTake(w)
  <2>1. PICK v \in Worker : v = index[w]
    BY <1>1
  <2>2. Leaves(v)
    BY <1>8, <2>1, StealTakeEffect
  <2>3. tail[v] - 1 \in Base(v)..(Above(v) - 1)
    <3>1. RingOK(v)
      BY DEF RingInv
    <3> QED
      BY <2>2, <3>1, Bounds DEF Leaves, RingOK
  <2>4. Slot(v, tail[v] - 1) \in Operation
    BY <2>3 DEF RingInv, RingOK
  <2> QED
    BY <1>1, <1>8, <2>1, <2>4 DEF StealTake, elsewhere, slots, listVars,
       sleepVars, TypeOK
<1>9. CASE StealRestore(w)
  <2>1. attempt[w] \in {"try", "retry", "lock"}
    BY DEF TypeOK
  <2>2. PICK stage \in {"steal", "idle"}, j \in Worker,
             a \in {"try", "retry", "lock"} :
              /\ pc' = [pc EXCEPT ![w] = stage]
              /\ index' = [index EXCEPT ![w] = j]
              /\ attempt' = [attempt EXCEPT ![w] = a]
    BY <1>9, <2>1, StealOnward DEF StealRestore, Stealing, ThiefHolds
  <2>3. PICK v \in Worker : v = index[w]
    BY <1>1
  <2>4. tail[v] - 1 \in Nat
    <3>1. StolenFrom(v)
      BY <1>9, <2>3 DEF StealRestore, StolenFrom
    <3>2. Base(v) = tail[v] - 1
      BY <3>1 DEF Base, Below
    <3> QED
      BY <3>2, Bounds DEF RingInv, RingOK
  <2> QED
    BY <1>1, <1>9, <2>2, <2>3, <2>4 DEF StealRestore, elsewhere, slots,
       listVars, sleepVars, TypeOK
<1> QED
  BY <1>2, <1>3, <1>4, <1>5, <1>6, <1>7, <1>8, <1>9 DEF Steal

LEMMA TypedRun ==
    ASSUME PoolInv, NEW w \in Worker, Run(w)
    PROVE  Typed'
<1> USE DEF PoolInv, Typed, Step, Goto, Thread, WorkerStage, ThreadStage
<1>1. CASE Resume(w)
  <2>1. got[w] \in Operation
    BY <1>1 DEF Resume, StageInv, TypeOK
  <2>2. Agenda[got[w]] \in Seq(Operation)
    BY <2>1, AgendaAssumption
  <2> QED
    BY <1>1, <2>1, <2>2, SMTT(30)
       DEF Resume, elsewhere, ringVars, listVars,
       sleepVars, TypeOK
<1>2. CASE ResumeReturns(w)
  BY <1>2 DEF ResumeReturns, elsewhere, ringVars, localVars, listVars,
     sleepVars, TypeOK
<1>3. CASE NotifyIntentToSleep(w)
  BY <1>3 DEF NotifyIntentToSleep, ringVars, localVars, listVars, TypeOK
<1>4. CASE SleepUntilWoken(w)
  BY <1>4 DEF SleepUntilWoken, ringVars, localVars, listVars, TypeOK
<1> QED
  BY <1>1, <1>2, <1>3, <1>4 DEF Run


LEMMA TypedWakes ==
    ASSUME Typed, NEW v, TryWakeUp(v)
    PROVE  /\ sleeping' \in [Worker -> BOOLEAN]
           /\ wakeupEvent' \in [Worker -> BOOLEAN]
BY DEF Typed, TypeOK, TryWakeUp, sleepVars

LEMMA NextTodo ==
    ASSUME PoolInv, NEW t \in Thread, pc[t] \in Enqueueing
    PROVE  /\ todo[t] \in Seq(Operation)
           /\ todo[t] # <<>>
           /\ Head(todo[t]) \in Operation
           /\ Tail(todo[t]) \in Seq(Operation)
<1>1. todo[t] \in Seq(Operation) /\ todo[t] # <<>>
  BY DEF PoolInv, Typed, TypeOK, StageInv
<1> QED
  BY <1>1

LEMMA TypedLocalEnqueue ==
    ASSUME PoolInv, NEW w \in Worker, LocalEnqueue(w)
    PROVE  Typed'
<1> USE DEF PoolInv, Typed, Step, Goto, Thread, WorkerStage, ThreadStage
<1>1. CASE EnqueueLook(w)
  BY <1>1 DEF EnqueueLook, elsewhere, ringVars, localVars, listVars,
     sleepVars, TypeOK
<1>2. CASE EnqueuePut(w)
  <2>1. Head(todo[w]) \in Operation
    BY <1>2, NextTodo DEF EnqueuePut, Enqueueing
  <2>2. PICK i : i = head[w] % (mask[w] + 1)
    OBVIOUS
  <2>3. i \in 0..mask[w]
    BY <2>2, Bounds, ModRange
  <2>4. PICK r : r = [ring[w] EXCEPT ![i] = Head(todo[w])]
    OBVIOUS
  <2>5. ring' = [u \in Worker |-> IF u = w THEN r ELSE ring[u]]
    <3>1. ring' = [ring EXCEPT ![w] = r]
      BY <1>2, <2>2, <2>4 DEF EnqueuePut
    <3>2. DOMAIN ring = Worker
      OBVIOUS
    <3> QED
      BY <3>1, <3>2
  <2>6. /\ ring' = [u \in Worker |-> ring'[u]]
        /\ \A u \in Worker : ring'[u] \in [0..mask[u] -> Operation \cup {None}]
    <3>1. ring[w] \in [0..mask[w] -> Operation \cup {None}]
      BY DEF TypeOK
    <3>2. r \in [0..mask[w] -> Operation \cup {None}]
      BY <2>1, <2>3, <2>4, <3>1
    <3> QED
      BY <2>5, <3>2 DEF TypeOK
  <2>7. head' \in [Worker -> Nat]
    BY <1>2 DEF EnqueuePut, TypeOK
  <2>8. /\ sleeping' \in [Worker -> BOOLEAN]
        /\ wakeupEvent' \in [Worker -> BOOLEAN]
    BY <1>2, TypedWakes DEF EnqueuePut
  <2> QED
    BY <1>2, <2>5, <2>6, <2>7, <2>8 DEF EnqueuePut, localVars, listVars,
       TypeOK
<1>3. CASE EnqueueGrow(w)
  BY <1>3 DEF EnqueueGrow, elsewhere, slots, localVars, listVars, sleepVars,
     TypeOK
<1>4. CASE EnqueueFails(w)
  <2>1. /\ sleeping' \in [Worker -> BOOLEAN]
        /\ wakeupEvent' \in [Worker -> BOOLEAN]
    BY <1>4, TypedWakes DEF EnqueueFails
  <2> QED
    BY <1>4, <2>1 DEF EnqueueFails, ringVars, localVars, listVars, TypeOK
<1>5. CASE EnqueueCopy(w)
  <2>1. Head(todo[w]) \in Operation
    BY <1>5, NextTodo DEF EnqueueCopy, Enqueueing
  <2>2. PICK n \in Nat \ {0} : n = 2 * (mask[w] + 1)
    BY Bounds
  <2>3. PICK i : i = head[w] % n
    OBVIOUS
  <2>4. i \in 0..(n - 1)
    BY <2>3, Bounds, ModRange
  <2>5. Copied(w, n) \in [0..(n - 1) -> Operation \cup {None}]
    <3>1. ASSUME NEW j \in tail[w]..(head[w] - 1)
          PROVE  Slot(w, j) \in Operation
      <4>1. RingOK(w) /\ ~Claiming(w) /\ pc[w] = "copy"
        BY <1>5 DEF EnqueueCopy, RingInv, Claiming
      <4>2. Holds(w, w)
        BY <4>1 DEF Holds, HoldsAt, OwnerHolds
      <4>3. ~StolenFrom(w) /\ ~TakenFrom(w)
        <5>1. ASSUME NEW v \in Worker, pc[v] \in {"check", "restore", "take"},
                     index[v] = w
              PROVE  FALSE
          <6>1. Holds(v, w)
            BY <5>1 DEF Holds, HoldsAt, ThiefHolds
          <6>2. v = w
            BY <4>2, <6>1 DEF LockInv
          <6> QED
            BY <4>1, <5>1, <6>2
        <5> QED
          BY <5>1 DEF StolenFrom, TakenFrom
      <4>4. Base(w) = tail[w] /\ Above(w) = head[w]
        BY <4>1, <4>3 DEF Base, Below, Above
      <4> QED
        BY <4>1, <4>4 DEF RingOK
    <3> QED
      BY <3>1 DEF Copied
  <2>6. ring' = [ring EXCEPT ![w] = [Copied(w, n) EXCEPT
                                            ![i] = Head(todo[w])]]
    BY <1>5, <2>2, <2>3 DEF EnqueueCopy
  <2>7. /\ ring' = [u \in Worker |-> ring'[u]]
        /\ \A u \in Worker :
             ring'[u] = IF u = w
                        THEN [Copied(w, n) EXCEPT ![i] = Head(todo[w])]
                        ELSE ring[u]
    BY <2>6
  <2>8. mask' = [mask EXCEPT ![w] = n - 1] /\ n - 1 \in Nat
    BY <1>5, <2>2 DEF EnqueueCopy
  <2>9. mask' \in [Worker -> Nat]
    BY <2>8 DEF TypeOK
  <2>10. \A u \in Worker : ring'[u] \in [0..mask'[u] -> Operation \cup {None}]
    <3>1. ASSUME NEW u \in Worker
          PROVE  ring'[u] \in [0..mask'[u] -> Operation \cup {None}]
      <4>1. CASE u = w
        <5>1. mask'[u] = n - 1
          BY <2>8, <4>1 DEF TypeOK
        <5>2. [Copied(w, n) EXCEPT ![i] = Head(todo[w])]
                \in [0..(n - 1) -> Operation \cup {None}]
          BY <2>1, <2>4, <2>5
        <5> QED
          BY <2>7, <4>1, <5>1, <5>2
      <4>2. CASE u # w
        <5>1. mask'[u] = mask[u]
          BY <2>8, <4>2 DEF TypeOK
        <5> QED
          BY <2>7, <4>2, <5>1 DEF TypeOK
      <4> QED
        BY <4>1, <4>2
    <3> QED
      BY <3>1
  <2>11. head' \in [Worker -> Nat]
    BY <1>5 DEF EnqueueCopy, TypeOK
  <2>12. /\ sleeping' \in [Worker -> BOOLEAN]
         /\ wakeupEvent' \in [Worker -> BOOLEAN]
    BY <1>5, TypedWakes DEF EnqueueCopy
  <2> QED
    BY <1>5, <2>7, <2>9, <2>10, <2>11, <2>12 DEF EnqueueCopy, localVars,
       listVars, TypeOK
<1> QED
  BY <1>1, <1>2, <1>3, <1>4, <1>5 DEF LocalEnqueue

LEMMA TypedRemoteEnqueue ==
    ASSUME PoolInv, NEW t \in Thread, RemoteEnqueue(t)
    PROVE  Typed'
<1> USE DEF PoolInv, Typed, Step, Goto, WorkerStage, ThreadStage
<1>1. Top(arrivals) \in Operation \cup {None}
  BY DEF Top, TypeOK
<1>2. CASE RemoteLoad(t)
  BY <1>1, <1>2 DEF RemoteLoad, elsewhere, ringVars, listVars, sleepVars,
     TypeOK
<1>3. CASE RemoteRetry(t)
  BY <1>1, <1>3 DEF RemoteRetry, elsewhere, ringVars, listVars, sleepVars,
     TypeOK
<1>4. CASE RemotePush(t)
  <2>1. Head(todo[t]) \in Operation
    BY <1>4, NextTodo DEF RemotePush, Enqueueing
  <2>2. <<Head(todo[t])>> \o arrivals \in Seq(Operation)
    BY <2>1 DEF TypeOK
  <2> QED
    BY <1>4, <2>2 DEF RemotePush, ringVars, sleepVars, TypeOK
<1>5. CASE WakeSkip(t)
  <2>1. index[t] + 1 \in Worker
    BY <1>5, PoolAssumption DEF WakeSkip, LastWorker, Worker, TypeOK
  <2> QED
    BY <1>5, <2>1 DEF WakeSkip, elsewhere, ringVars, listVars, sleepVars,
       TypeOK
<1>6. CASE WakeOne(t)
  <2>1. Tail(todo[t]) \in Seq(Operation)
    BY <1>6, NextTodo DEF WakeOne, Enqueueing
  <2>2. /\ sleeping' \in [Worker -> BOOLEAN]
        /\ wakeupEvent' \in [Worker -> BOOLEAN]
    BY <1>6, TypedWakes DEF WakeOne
  <2>3. 0 \in Worker
    BY PoolAssumption DEF Worker
  <2> QED
    BY <1>6, <2>1, <2>2, <2>3 DEF WakeOne, ringVars, listVars, TypeOK
<1> QED
  BY <1>2, <1>3, <1>4, <1>5, <1>6 DEF RemoteEnqueue

-----------------------------------------------------------------------------
(***************************************************************************)
(* Locks and stages.                                                       *)
(***************************************************************************)
LEMMA LockPop ==
    ASSUME PoolInv, NEW w \in Worker, Pop(w)
    PROVE  LockInv'
<1>1. w \in Thread /\ index[w] \in Worker
  BY DEF Thread, PoolInv, Typed, TypeOK
<1>2. index' = [index EXCEPT ![w] = index[w]]
  BY DEF Pop, PopLook, PopClaim, PopTake, PopRace, PopLock, PopWins,
     PopLoses, localVars, PoolInv, Typed, TypeOK
<1>3. CASE PopLook(w) \/ PopClaim(w) \/ PopTake(w) \/ PopRace(w)
  <2>1. PICK stage :
          /\ pc[w] \in {"pop", "claim", "confirm"}
          /\ stage \in {"remote", "claim", "confirm", "resume", "lock"}
          /\ pc' = [pc EXCEPT ![w] = stage]
          /\ UNCHANGED remoteMutex
    BY <1>3 DEF PopLook, PopClaim, PopTake, PopRace, Step, Goto, ringVars
  <2>2. Moves(w, stage, index[w])
    BY <1>2, <2>1 DEF Moves
  <2>3. \A u \in Worker :
          /\ ~HoldsAt(stage, index[w], w, u)
          /\ ~HoldsAt(pc[w], index[w], w, u)
    BY <2>1 DEF HoldsAt, ThiefHolds, OwnerHolds
  <2> QED
    BY <1>1, <2>1, <2>2, <2>3, LockQuiet DEF PoolInv
<1>4. CASE PopLock(w)
  <2>1. Moves(w, "settle", index[w]) /\ pc[w] = "lock"
    BY <1>2, <1>4 DEF PopLock, Step, Goto, Moves
  <2>2. \A u \in Worker :
          /\ HoldsAt("settle", index[w], w, u) <=> u = w
          /\ ~HoldsAt(pc[w], index[w], w, u)
    BY <2>1 DEF HoldsAt, ThiefHolds, OwnerHolds
  <2>3. /\ remoteMutex[w] \notin Worker
        /\ \A u \in Worker :
             remoteMutex'[u] = IF u = w THEN w ELSE remoteMutex[u]
    BY <1>4, PoolAssumption DEF PopLock, PoolInv, Typed, TypeOK
  <2>4. Typed /\ LockInv
    BY DEF PoolInv
  <2>5. \A u \in Worker : ~HoldsAt(pc[w], index[w], w, u)
    BY <2>2
  <2>6. \A u \in Worker : HoldsAt("settle", index[w], w, u) <=> u = w
    BY <2>2
  <2> QED
    BY <1>1, <2>1, <2>3, <2>4, <2>5, <2>6, LockTake
<1>5. CASE PopWins(w) \/ PopLoses(w)
  <2>1. PICK stage \in {"resume", "remote"} :
          Moves(w, stage, index[w]) /\ pc[w] = "settle"
    BY <1>2, <1>5 DEF PopWins, PopLoses, Step, Goto, Moves
  <2>2. \A u \in Worker :
          /\ HoldsAt(pc[w], index[w], w, u) <=> u = w
          /\ ~HoldsAt(stage, index[w], w, u)
    BY <2>1 DEF HoldsAt, ThiefHolds, OwnerHolds
  <2>3. remoteMutex' = [remoteMutex EXCEPT ![w] = None]
    BY <1>5 DEF PopWins, PopLoses
  <2> QED
    BY <1>1, <2>1, <2>2, <2>3, LockRelease DEF PoolInv
<1> QED
  BY <1>3, <1>4, <1>5 DEF Pop

LEMMA LockTakeRemote ==
    ASSUME PoolInv, NEW w \in Worker, TakeRemote(w)
    PROVE  LockInv'
<1>1. w \in Thread /\ index[w] \in Worker
  BY DEF Thread, PoolInv, Typed, TypeOK
<1>2. PICK stage \in {"idle", "resume", "steal"}, j \in Worker :
        Moves(w, stage, j)
  <2>1. index \in [Thread -> Worker]
    BY DEF PoolInv, Typed, TypeOK
  <2>2. CASE GetRemoteUnpublished(w)
    <3>1. pc' = [pc EXCEPT ![w] = "idle"] /\ index' = index
      BY <2>2 DEF GetRemoteUnpublished, Step, Goto, localVars
    <3>2. index' = [index EXCEPT ![w] = index[w]]
      BY <1>1, <2>1, <3>1
    <3> QED
      BY <1>1, <3>1, <3>2 DEF Moves
  <2>3. CASE GetRemote(w)
    BY <1>1, <2>1, <2>3 DEF GetRemote, Step, Goto, Moves
  <2>4. CASE GetRemoteNothing(w)
    <3>1. Onward(w, -1, "try")
      BY <2>4 DEF GetRemoteNothing
    <3>2. PICK stage \in {"steal", "idle"}, j \in Worker,
               a \in {"try", "retry", "lock"} :
              /\ pc' = [pc EXCEPT ![w] = stage]
              /\ index' = [index EXCEPT ![w] = j]
              /\ attempt' = [attempt EXCEPT ![w] = a]
      BY <3>1, OnwardStep DEF PoolInv
    <3> QED
      BY <3>2 DEF Moves
  <2> QED
    BY <2>2, <2>3, <2>4 DEF TakeRemote
<1>3. pc[w] = "remote" /\ UNCHANGED remoteMutex
  BY DEF TakeRemote, GetRemoteUnpublished, GetRemote, GetRemoteNothing, Step,
     ringVars
<1>4. \A u \in Worker :
        ~HoldsAt(stage, j, w, u) /\ ~HoldsAt(pc[w], index[w], w, u)
  BY <1>2, <1>3 DEF HoldsAt, ThiefHolds, OwnerHolds
<1> QED
  BY <1>1, <1>2, <1>3, <1>4, LockQuiet DEF PoolInv

LEMMA LockSteal ==
    ASSUME PoolInv, NEW w \in Worker, Steal(w)
    PROVE  LockInv'
<1>1. w \in Thread /\ index[w] \in Worker /\ 0 \in Worker
  BY PoolAssumption DEF Thread, PoolInv, Typed, TypeOK, Worker
<1>2. attempt[w] \in {"try", "retry", "lock"}
  BY DEF PoolInv, Typed, TypeOK
<1>3. CASE StealLook(w) \/ StealAdvance(w) \/ StealCheck(w)
  <2>1. PICK stage \in ThiefHolds : Moves(w, stage, index[w])
    BY <1>3 DEF StealLook, StealAdvance, StealCheck, Step, Goto, Moves,
       localVars, ThiefHolds, PoolInv, Typed, TypeOK
  <2>2. pc[w] \in ThiefHolds /\ UNCHANGED remoteMutex
    BY <1>3 DEF StealLook, StealAdvance, StealCheck, Step, ringVars,
       ThiefHolds
  <2>3. \A u \in Worker : HoldsAt(stage, index[w], w, u)
                            <=> HoldsAt(pc[w], index[w], w, u)
    BY <2>1, <2>2 DEF HoldsAt, ThiefHolds, OwnerHolds
  <2> QED
    BY <1>1, <2>1, <2>2, <2>3, LockQuiet DEF PoolInv
<1>4. CASE StealLock(w)
  <2>1. Moves(w, "look", index[w]) /\ pc[w] = "steal"
    BY <1>4 DEF StealLock, Step, Goto, Moves, localVars, PoolInv, Typed,
       TypeOK
  <2>2. \A u \in Worker :
          /\ HoldsAt("look", index[w], w, u) <=> u = index[w]
          /\ ~HoldsAt(pc[w], index[w], w, u)
    BY <2>1 DEF HoldsAt, ThiefHolds, OwnerHolds
  <2>3. /\ remoteMutex[index[w]] \notin Worker
        /\ \A u \in Worker :
             remoteMutex'[u] = IF u = index[w] THEN w ELSE remoteMutex[u]
    BY <1>4, PoolAssumption DEF StealLock, PoolInv, Typed, TypeOK
  <2>4. Typed /\ LockInv
    BY DEF PoolInv
  <2>5. \A u \in Worker : ~HoldsAt(pc[w], index[w], w, u)
    BY <2>2
  <2>6. \A u \in Worker : HoldsAt("look", index[w], w, u) <=> u = index[w]
    BY <2>2
  <2> QED
    BY <1>1, <2>1, <2>3, <2>4, <2>5, <2>6, LockTake
<1>5. CASE StealUnavailable(w)
  <2>1. pc[w] = "steal" /\ UNCHANGED remoteMutex
    BY <1>5 DEF StealUnavailable, ringVars
  <2>2. PICK stage \in {"steal", "idle"}, j \in Worker : Moves(w, stage, j)
    BY <1>5, <2>1, StealOnward DEF StealUnavailable, Moves, Stealing
  <2>3. \A u \in Worker :
          ~HoldsAt(stage, j, w, u) /\ ~HoldsAt(pc[w], index[w], w, u)
    BY <2>1, <2>2 DEF HoldsAt, ThiefHolds, OwnerHolds
  <2> QED
    BY <1>1, <2>1, <2>2, <2>3, LockQuiet DEF PoolInv
<1>6. CASE StealNothing(w) \/ StealTake(w) \/ StealRestore(w)
  <2>1. pc[w] \in ThiefHolds
        /\ remoteMutex' = [remoteMutex EXCEPT ![index[w]] = None]
    BY <1>6 DEF StealNothing, StealTake, StealRestore, Step, ThiefHolds
  <2>2. PICK stage \in {"steal", "idle", "resume"}, j \in Worker :
          Moves(w, stage, j)
    <3>1. CASE StealTake(w)
      BY <1>1, <3>1 DEF StealTake, Step, Goto, Moves
    <3>2. CASE StealNothing(w)
      BY <1>2, <2>1, <3>2, StealOnward DEF StealNothing, Moves, Stealing
    <3>3. CASE StealRestore(w)
      BY <1>2, <2>1, <3>3, StealOnward DEF StealRestore, Moves, Stealing
    <3> QED
      BY <1>6, <3>1, <3>2, <3>3
  <2>3. \A u \in Worker :
          /\ HoldsAt(pc[w], index[w], w, u) <=> u = index[w]
          /\ ~HoldsAt(stage, j, w, u)
    BY <2>1, <2>2 DEF HoldsAt, ThiefHolds, OwnerHolds
  <2> QED
    BY <1>1, <2>1, <2>2, <2>3, LockRelease DEF PoolInv
<1> QED
  BY <1>3, <1>4, <1>5, <1>6 DEF Steal

LEMMA LockRun ==
    ASSUME PoolInv, NEW w \in Worker, Run(w)
    PROVE  LockInv'
<1>1. w \in Thread /\ index[w] \in Worker
  BY DEF Thread, PoolInv, Typed, TypeOK
<1>2. PICK stage \in {"run", "pop", "wait"} : Moves(w, stage, index[w])
  BY DEF Run, Resume, ResumeReturns, NotifyIntentToSleep, SleepUntilWoken,
     Step, Goto, Moves, localVars, PoolInv, Typed, TypeOK
<1>3. pc[w] \in {"resume", "run", "idle", "wait"} /\ UNCHANGED remoteMutex
  BY DEF Run, Resume, ResumeReturns, NotifyIntentToSleep, SleepUntilWoken,
     Step, ringVars
<1>4. \A u \in Worker : /\ ~HoldsAt(stage, index[w], w, u)
                        /\ ~HoldsAt(pc[w], index[w], w, u)
  BY <1>2, <1>3 DEF HoldsAt, ThiefHolds, OwnerHolds
<1> QED
  BY <1>1, <1>2, <1>3, <1>4, LockQuiet DEF PoolInv

LEMMA LockLocalEnqueue ==
    ASSUME PoolInv, NEW w \in Worker, LocalEnqueue(w)
    PROVE  LockInv'
<1>1. w \in Thread /\ index[w] \in Worker
  BY DEF Thread, PoolInv, Typed, TypeOK
<1>2. index' = [index EXCEPT ![w] = index[w]]
  BY DEF LocalEnqueue, EnqueueLook, EnqueuePut, EnqueueGrow, EnqueueFails,
     EnqueueCopy, localVars, PoolInv, Typed, TypeOK
<1>3. CASE EnqueueLook(w) \/ EnqueuePut(w) \/ EnqueueFails(w)
  <2>1. PICK stage \in {"put", "full", "wake", "load"} :
          Moves(w, stage, index[w])
    BY <1>2, <1>3 DEF EnqueueLook, EnqueuePut, EnqueueFails, Step, Goto,
       Moves
  <2>2. pc[w] \in {"run", "put", "full"} /\ UNCHANGED remoteMutex
    BY <1>3 DEF EnqueueLook, EnqueuePut, EnqueueFails, Step, ringVars
  <2>3. \A u \in Worker : /\ ~HoldsAt(stage, index[w], w, u)
                          /\ ~HoldsAt(pc[w], index[w], w, u)
    BY <2>1, <2>2 DEF HoldsAt, ThiefHolds, OwnerHolds
  <2> QED
    BY <1>1, <2>1, <2>2, <2>3, LockQuiet DEF PoolInv
<1>4. CASE EnqueueGrow(w)
  <2>1. Moves(w, "copy", index[w]) /\ pc[w] = "full"
    BY <1>2, <1>4 DEF EnqueueGrow, Step, Goto, Moves
  <2>2. \A u \in Worker : /\ HoldsAt("copy", index[w], w, u) <=> u = w
                          /\ ~HoldsAt(pc[w], index[w], w, u)
    BY <2>1 DEF HoldsAt, ThiefHolds, OwnerHolds
  <2>3. /\ remoteMutex[w] \notin Worker
        /\ \A u \in Worker :
             remoteMutex'[u] = IF u = w THEN w ELSE remoteMutex[u]
    BY <1>4, PoolAssumption DEF EnqueueGrow, PoolInv, Typed, TypeOK
  <2>4. Typed /\ LockInv
    BY DEF PoolInv
  <2>5. \A u \in Worker : ~HoldsAt(pc[w], index[w], w, u)
    BY <2>2
  <2>6. \A u \in Worker : HoldsAt("copy", index[w], w, u) <=> u = w
    BY <2>2
  <2> QED
    BY <1>1, <2>1, <2>3, <2>4, <2>5, <2>6, LockTake
<1>5. CASE EnqueueCopy(w)
  <2>1. Moves(w, "wake", index[w]) /\ pc[w] = "copy"
    BY <1>2, <1>5 DEF EnqueueCopy, Step, Goto, Moves
  <2>2. \A u \in Worker : /\ HoldsAt(pc[w], index[w], w, u) <=> u = w
                          /\ ~HoldsAt("wake", index[w], w, u)
    BY <2>1 DEF HoldsAt, ThiefHolds, OwnerHolds
  <2>3. remoteMutex' = [remoteMutex EXCEPT ![w] = None]
    BY <1>5 DEF EnqueueCopy
  <2> QED
    BY <1>1, <2>1, <2>2, <2>3, LockRelease DEF PoolInv
<1> QED
  BY <1>3, <1>4, <1>5 DEF LocalEnqueue

LEMMA RemoteEnqueueMoves ==
    ASSUME PoolInv, NEW t \in Thread, RemoteEnqueue(t)
    PROVE  /\ \E stage \in {"push", "wake", "run", "load"}, j \in Worker :
                 Moves(t, stage, j)
           /\ pc[t] \in {"load", "push", "wake"}
           /\ UNCHANGED ringVars
<1>1. index[t] \in Worker /\ 0 \in Worker
  BY PoolAssumption DEF PoolInv, Typed, TypeOK, Worker
<1>2. CASE RemoteLoad(t) \/ RemotePush(t)
  BY <1>1, <1>2 DEF RemoteLoad, RemotePush, Step, Goto, Moves, PoolInv, Typed,
     TypeOK
<1>3. CASE RemoteRetry(t)
  BY <1>1, <1>3 DEF RemoteRetry, Moves, PoolInv, Typed, TypeOK
<1>4. CASE WakeSkip(t)
  <2>1. index[t] + 1 \in Worker
    BY <1>4, PoolAssumption, SMTT(30)
       DEF WakeSkip, LastWorker, Worker, PoolInv, Typed, TypeOK
  <2>2. pc[t] = "wake" /\ pc' = pc /\ UNCHANGED ringVars
    BY <1>4 DEF WakeSkip
  <2>3. pc' = [pc EXCEPT ![t] = "wake"]
    BY <2>2 DEF PoolInv, Typed, TypeOK
  <2>4. index' = [index EXCEPT ![t] = index[t] + 1]
    BY <1>4 DEF WakeSkip
  <2>5. Moves(t, "wake", index[t] + 1)
    BY <2>3, <2>4 DEF Moves
  <2> QED
    BY <2>1, <2>2, <2>5
<1>5. CASE WakeOne(t)
  <2>1. Moves(t, IF t \in Worker THEN "run" ELSE "load", 0)
    BY <1>5 DEF WakeOne, Step, Goto, Moves
  <2> QED
    BY <1>1, <1>5, <2>1 DEF WakeOne, Step
<1> QED
  BY <1>2, <1>3, <1>4, <1>5 DEF RemoteEnqueue

LEMMA LockRemoteEnqueue ==
    ASSUME PoolInv, NEW t \in Thread, RemoteEnqueue(t)
    PROVE  LockInv'
<1>1. PICK stage \in {"push", "wake", "run", "load"}, j \in Worker :
        Moves(t, stage, j)
  BY RemoteEnqueueMoves
<1>2. pc[t] \in {"load", "push", "wake"} /\ UNCHANGED remoteMutex
  BY RemoteEnqueueMoves DEF ringVars
<1>3. \A u \in Worker : ~HoldsAt(stage, j, t, u)
                        /\ ~HoldsAt(pc[t], index[t], t, u)
  BY <1>1, <1>2 DEF HoldsAt, ThiefHolds, OwnerHolds
<1> QED
  BY <1>1, <1>2, <1>3, LockQuiet DEF PoolInv

-----------------------------------------------------------------------------

LEMMA StageMoves ==
    ASSUME PoolInv, NEW t \in Thread, NEW stage, NEW j \in Worker,
           Moves(t, stage, j),
           t \in Worker => (stage \in Stealing => j # t),
           t \in Worker => (stage = "resume" <=> got'[t] # None),
           \A w \in Worker \ {t} : got'[w] = got[w],
           stage \in Enqueueing => todo'[t] # <<>>,
           \A u \in Thread \ {t} : todo'[u] = todo[u]
    PROVE  StageInv'
<1>1. ASSUME NEW u \in Thread
      PROVE  IF u = t THEN pc'[u] = stage /\ index'[u] = j
                      ELSE pc'[u] = pc[u] /\ index'[u] = index[u]
  BY DEF PoolInv, Typed, TypeOK, Moves
<1>2. Worker \subseteq Thread
  BY DEF Thread
<1> QED
  BY <1>1, <1>2 DEF PoolInv, StageInv

LEMMA StagePop ==
    ASSUME PoolInv, NEW w \in Worker, Pop(w)
    PROVE  StageInv'
<1>1. w \in Thread /\ index[w] \in Worker
  BY DEF Thread, PoolInv, Typed, TypeOK
<1>2. /\ index' = [index EXCEPT ![w] = index[w]]
      /\ todo' = todo
  BY DEF Pop, PopLook, PopClaim, PopTake, PopRace, PopLock, PopWins,
     PopLoses, localVars, PoolInv, Typed, TypeOK
<1>3. pc[w] \in {"pop", "claim", "confirm", "lock", "settle"}
  BY DEF Pop, PopLook, PopClaim, PopTake, PopRace, PopLock, PopWins,
     PopLoses, Step
<1>4. CASE PopTake(w) \/ PopWins(w)
  <2>1. Moves(w, "resume", index[w])
    BY <1>2, <1>4 DEF PopTake, PopWins, Step, Goto, Moves
  <2>2. got' = [got EXCEPT ![w] = Slot(w, head[w])]
    BY <1>4 DEF PopTake, PopWins
  <2>3. Slot(w, head[w]) \in Operation
    <3>1. Takes(w) /\ RingOK(w)
      BY <1>4, TakeEffect DEF PoolInv, RingInv
    <3>2. head[w] \in Base(w)..(Above(w) - 1)
      BY <3>1, Bounds DEF Takes, PoolInv
    <3> QED
      BY <3>1, <3>2 DEF RingOK
  <2>4. got \in [Worker -> Operation \cup {None}]
    BY DEF PoolInv, Typed, TypeOK
  <2>5. got'[w] # None /\ \A u \in Worker \ {w} : got'[u] = got[u]
    BY <2>2, <2>3, <2>4, PoolAssumption
  <2> QED
    BY <1>1, <1>2, <2>1, <2>5, StageMoves DEF Stealing, ThiefHolds, Enqueueing
<1>5. CASE ~(PopTake(w) \/ PopWins(w))
  <2>1. PICK stage \in {"remote", "claim", "confirm", "lock", "settle"} :
          Moves(w, stage, index[w])
    BY <1>2, <1>5 DEF Pop, PopLook, PopClaim, PopRace, PopLock, PopLoses,
       Step, Goto, Moves
  <2>2. got' = got
    BY <1>5 DEF Pop, PopLook, PopClaim, PopRace, PopLock, PopLoses, localVars
  <2>3. got[w] = None
    BY <1>3 DEF PoolInv, StageInv
  <2> QED
    BY <1>1, <1>2, <2>1, <2>2, <2>3, StageMoves
       DEF Stealing, ThiefHolds, Enqueueing
<1> QED
  BY <1>4, <1>5

LEMMA StageTakeRemote ==
    ASSUME PoolInv, NEW w \in Worker, TakeRemote(w)
    PROVE  StageInv'
<1>1. w \in Thread /\ index[w] \in Worker
  BY DEF Thread, PoolInv, Typed, TypeOK
<1>2. pc[w] = "remote" /\ todo' = todo
  BY DEF TakeRemote, GetRemoteUnpublished, GetRemoteNothing, GetRemote, Step,
     localVars
<1>3. got[w] = None
  BY <1>2 DEF PoolInv, StageInv
<1>4. got \in [Worker -> Operation \cup {None}]
  BY DEF PoolInv, Typed, TypeOK
<1>5. index \in [Thread -> Worker]
  BY DEF PoolInv, Typed, TypeOK
<1>6. CASE GetRemoteUnpublished(w)
  <2>1. index' = [index EXCEPT ![w] = index[w]]
    BY <1>1, <1>5, <1>6 DEF GetRemoteUnpublished, localVars
  <2>2. Moves(w, "idle", index[w]) /\ got' = got
    BY <1>6, <2>1 DEF GetRemoteUnpublished, localVars, Step, Goto, Moves
  <2> QED
    BY <1>1, <1>2, <1>3, <2>2, StageMoves DEF Stealing, ThiefHolds, Enqueueing
<1>7. CASE GetRemoteNothing(w)
  <2>1. Onward(w, -1, "try") /\ got' = got
    BY <1>7 DEF GetRemoteNothing
  <2>2. PICK stage \in {"steal", "idle"}, j \in Worker,
             a \in {"try", "retry", "lock"} :
              /\ pc' = [pc EXCEPT ![w] = stage]
              /\ index' = [index EXCEPT ![w] = j]
              /\ attempt' = [attempt EXCEPT ![w] = a]
              /\ stage = "steal" => j # w
    BY <2>1, OnwardStep DEF PoolInv
  <2>3. Moves(w, stage, j)
    BY <2>2 DEF Moves
  <2>4. stage \in Stealing => j # w
    BY <2>2 DEF Stealing, ThiefHolds
  <2> QED
    BY <1>1, <1>2, <1>3, <2>1, <2>3, <2>4, StageMoves DEF Enqueueing
<1>8. CASE GetRemote(w)
  <2>1. PICK list : list = IF ready = <<>> THEN Reversed(arrivals) ELSE ready
    OBVIOUS
  <2>2. list \in Seq(Operation) /\ list # <<>>
    BY <1>8, <2>1, RemoteList DEF PoolInv, GetRemote
  <2>3. got' = [got EXCEPT ![w] = Head(list)] /\ Head(list) \in Operation
    BY <1>8, <2>1, <2>2 DEF GetRemote
  <2>4. got'[w] # None /\ \A u \in Worker \ {w} : got'[u] = got[u]
    BY <1>4, <2>3, PoolAssumption
  <2>5. index' = [index EXCEPT ![w] = index[w]]
    BY <1>1, <1>5, <1>8 DEF GetRemote
  <2>6. Moves(w, "resume", index[w])
    BY <1>8, <2>5 DEF GetRemote, Step, Goto, Moves
  <2> QED
    BY <1>1, <1>2, <2>4, <2>6, StageMoves DEF Stealing, ThiefHolds, Enqueueing
<1> QED
  BY <1>6, <1>7, <1>8 DEF TakeRemote

LEMMA StageSteal ==
    ASSUME PoolInv, NEW w \in Worker, Steal(w)
    PROVE  StageInv'
<1>1. w \in Thread /\ index[w] \in Worker /\ index[w] # w /\ 0 \in Worker
  <2>1. pc[w] \in Stealing
    BY DEF Steal, StealLock, StealUnavailable, StealLook, StealNothing,
       StealAdvance, StealCheck, StealTake, StealRestore, Step, Stealing,
       ThiefHolds
  <2> QED
    BY <2>1, PoolAssumption DEF Thread, PoolInv, Typed, TypeOK, StageInv,
       Worker
<1>2. pc[w] \in Stealing /\ pc[w] # "resume"
  BY DEF Steal, StealLock, StealUnavailable, StealLook, StealNothing,
     StealAdvance, StealCheck, StealTake, StealRestore, Step, Stealing,
     ThiefHolds
<1>3. got[w] = None
  BY <1>2 DEF PoolInv, StageInv
<1>4. todo' = todo
  BY DEF Steal, StealLock, StealUnavailable, StealLook, StealNothing,
     StealAdvance, StealCheck, StealTake, StealRestore, localVars
<1>5. attempt[w] \in {"try", "retry", "lock"}
  BY DEF PoolInv, Typed, TypeOK
<1>6. CASE StealLock(w) \/ StealLook(w) \/ StealAdvance(w) \/ StealCheck(w)
  <2>1. PICK stage \in ThiefHolds : Moves(w, stage, index[w])
    BY <1>6 DEF StealLock, StealLook, StealAdvance, StealCheck, Step, Goto,
       Moves, localVars, ThiefHolds, PoolInv, Typed, TypeOK
  <2>2. got' = got
    BY <1>6 DEF StealLock, StealLook, StealAdvance, StealCheck, localVars
  <2>3. stage # "resume" /\ stage \notin Enqueueing
    BY DEF ThiefHolds, Enqueueing
  <2> QED
    BY <1>1, <1>3, <1>4, <2>1, <2>2, <2>3, StageMoves
<1>7. CASE StealUnavailable(w) \/ StealNothing(w) \/ StealRestore(w)
  <2>1. PICK stage \in {"steal", "idle"}, j \in Worker,
             a \in {"try", "retry", "lock"} :
              /\ pc' = [pc EXCEPT ![w] = stage]
              /\ index' = [index EXCEPT ![w] = j]
              /\ attempt' = [attempt EXCEPT ![w] = a]
              /\ stage = "steal" => j # w
    <3>1. CASE StealUnavailable(w)
      BY <1>2, <3>1, StealOnward DEF StealUnavailable
    <3>2. CASE StealNothing(w)
      BY <1>2, <1>5, <3>2, StealOnward DEF StealNothing
    <3>3. CASE StealRestore(w)
      BY <1>2, <1>5, <3>3, StealOnward DEF StealRestore
    <3> QED
      BY <1>7, <3>1, <3>2, <3>3
  <2>2. Moves(w, stage, j) /\ got' = got
    BY <1>7, <2>1 DEF Moves, StealUnavailable, StealNothing, StealRestore
  <2>3. stage \in Stealing => j # w
    BY <2>1 DEF Stealing, ThiefHolds
  <2> QED
    BY <1>1, <1>3, <1>4, <2>2, <2>3, StageMoves DEF Enqueueing
<1>8. CASE StealTake(w)
  <2>1. PICK v \in Worker : v = index[w]
    BY <1>1
  <2>2. Leaves(v) /\ RingOK(v) /\ got' = [got EXCEPT ![w] = Slot(v, tail[v] - 1)]
    BY <1>8, <2>1, StealTakeEffect DEF PoolInv, RingInv
  <2>3. tail[v] - 1 \in Base(v)..(Above(v) - 1)
    BY <2>2, Bounds DEF Leaves, RingOK, PoolInv
  <2>4. Slot(v, tail[v] - 1) \in Operation
    BY <2>2, <2>3 DEF RingOK
  <2>5. got \in [Worker -> Operation \cup {None}]
    BY DEF PoolInv, Typed, TypeOK
  <2>6. got'[w] # None /\ \A u \in Worker \ {w} : got'[u] = got[u]
    BY <2>2, <2>4, <2>5, PoolAssumption
  <2>7. Moves(w, "resume", 0)
    BY <1>8 DEF StealTake, Step, Goto, Moves
  <2> QED
    BY <1>1, <1>4, <2>6, <2>7, StageMoves DEF Stealing, ThiefHolds, Enqueueing
<1> QED
  BY <1>6, <1>7, <1>8 DEF Steal

LEMMA StageRun ==
    ASSUME PoolInv, NEW w \in Worker, Run(w)
    PROVE  StageInv'
<1>1. w \in Thread /\ index[w] \in Worker
  BY DEF Thread, PoolInv, Typed, TypeOK
<1>2. PICK stage \in {"run", "pop", "wait"} : Moves(w, stage, index[w])
  BY DEF Run, Resume, ResumeReturns, NotifyIntentToSleep, SleepUntilWoken,
     Step, Goto, Moves, localVars, PoolInv, Typed, TypeOK
<1>3. got'[w] = None /\ \A u \in Worker \ {w} : got'[u] = got[u]
  <2>1. got \in [Worker -> Operation \cup {None}]
    BY DEF PoolInv, Typed, TypeOK
  <2>2. CASE Resume(w)
    BY <2>1, <2>2 DEF Resume
  <2>3. CASE ~Resume(w)
    <3>1. got' = got /\ pc[w] # "resume"
      BY <2>3 DEF Run, ResumeReturns, NotifyIntentToSleep, SleepUntilWoken,
         localVars, Step
    <3> QED
      BY <3>1 DEF PoolInv, StageInv
  <2> QED
    BY <2>2, <2>3
<1>4. \A u \in Thread \ {w} : todo'[u] = todo[u]
  BY DEF Run, Resume, ResumeReturns, NotifyIntentToSleep, SleepUntilWoken,
     localVars, PoolInv, Typed, TypeOK
<1> QED
  BY <1>1, <1>2, <1>3, <1>4, StageMoves DEF Stealing, ThiefHolds, Enqueueing

LEMMA StageLocalEnqueue ==
    ASSUME PoolInv, NEW w \in Worker, LocalEnqueue(w)
    PROVE  StageInv'
<1>1. w \in Thread /\ index[w] \in Worker
  BY DEF Thread, PoolInv, Typed, TypeOK
<1>2. PICK stage \in {"put", "full", "copy", "wake", "load"} :
        Moves(w, stage, index[w])
  BY DEF LocalEnqueue, EnqueueLook, EnqueuePut, EnqueueGrow, EnqueueFails,
     EnqueueCopy, Step, Goto, Moves, localVars, PoolInv, Typed, TypeOK
<1>3. todo' = todo /\ got' = got
  BY DEF LocalEnqueue, EnqueueLook, EnqueuePut, EnqueueGrow, EnqueueFails,
     EnqueueCopy, localVars
<1>4. todo[w] # <<>>
  BY DEF LocalEnqueue, EnqueueLook, EnqueuePut, EnqueueGrow, EnqueueFails,
     EnqueueCopy, Step, PoolInv, StageInv, Enqueueing, Thread
<1>5. got[w] = None
  BY DEF LocalEnqueue, EnqueueLook, EnqueuePut, EnqueueGrow, EnqueueFails,
     EnqueueCopy, Step, PoolInv, StageInv
<1> QED
  BY <1>1, <1>2, <1>3, <1>4, <1>5, StageMoves DEF Stealing, ThiefHolds

LEMMA StageRemoteEnqueue ==
    ASSUME PoolInv, NEW t \in Thread, RemoteEnqueue(t)
    PROVE  StageInv'
<1>1. pc[t] \in {"load", "push", "wake"}
  BY RemoteEnqueueMoves
<1>2. got' = got /\ (t \in Worker => got[t] = None)
  BY <1>1 DEF RemoteEnqueue, RemoteLoad, RemoteRetry, RemotePush, WakeSkip,
     WakeOne, PoolInv, StageInv
<1>3. CASE WakeOne(t)
  <2>1. Moves(t, IF t \in Worker THEN "run" ELSE "load", 0) /\ 0 \in Worker
    BY <1>3, PoolAssumption DEF WakeOne, Step, Goto, Moves, Worker
  <2>2. \A u \in Thread \ {t} : todo'[u] = todo[u]
    BY <1>3 DEF WakeOne, PoolInv, Typed, TypeOK
  <2>3. PICK stage \in {"run", "load"} :
          stage = IF t \in Worker THEN "run" ELSE "load"
    OBVIOUS
  <2>4. Moves(t, stage, 0)
    BY <2>1, <2>3
  <2> QED
    BY <1>2, <2>1, <2>2, <2>4, StageMoves DEF Stealing, ThiefHolds, Enqueueing
<1>4. CASE ~WakeOne(t)
  <2>1. todo' = todo
    BY <1>4 DEF RemoteEnqueue, RemoteLoad, RemoteRetry, RemotePush, WakeSkip
  <2>2. todo[t] # <<>>
    BY <1>4 DEF RemoteEnqueue, RemoteLoad, RemoteRetry, RemotePush, WakeSkip,
       Step, PoolInv, StageInv, Enqueueing
  <2>3. PICK stage \in {"push", "wake", "run", "load"}, j \in Worker :
          Moves(t, stage, j)
    BY RemoteEnqueueMoves
  <2> QED
    BY <1>2, <2>1, <2>2, <2>3, StageMoves DEF Stealing, ThiefHolds
<1> QED
  BY <1>3, <1>4

-----------------------------------------------------------------------------
(***************************************************************************)
(* Rings.  First the steps that leave every ring as it is.                 *)
(***************************************************************************)
LEMMA RingQuiet ==
    ASSUME PoolInv, NEW t \in Thread, NEW stage, NEW j \in Worker,
           Moves(t, stage, j),
           head' = head, tail' = tail, mask' = mask, ring' = ring,
           t \in Worker => pc[t] \notin {"check", "restore", "take"},
           t \in Worker => stage \notin {"check", "restore", "take"},
           t \in Worker => (stage \in {"confirm", "lock", "settle"}
                               <=> Claiming(t))
    PROVE  \A u \in Worker : Same(u)
BY SameAside DEF PoolInv

LEMMA RingSame ==
    ASSUME PoolInv, NEW t \in Thread, NEW stage, NEW j \in Worker,
           Moves(t, stage, j), \A u \in Worker : Same(u),
           t \in Worker /\ stage = "put" => Above(t) - Base(t) <= mask[t],
           t \in Worker /\ stage = "claim" => head'[t] > 0,
           \A u \in Worker : u # t => head'[u] = head[u]
    PROVE  RingInv'
<1> SUFFICES ASSUME NEW u \in Worker
             PROVE  RingOK(u)'
  BY DEF RingInv
<1>1. RingOK(u)
  BY DEF PoolInv, RingInv
<1>2. pc'[u] = IF u = t THEN stage ELSE pc[u]
  BY DEF Moves, PoolInv, Typed, TypeOK, Thread
<1>3. pc'[u] = "put" => Above(u) - Base(u) <= mask[u]
  BY <1>1, <1>2 DEF RingOK
<1>4. pc'[u] = "claim" => head'[u] > 0
  BY <1>1, <1>2 DEF RingOK
<1> QED
  BY <1>1, <1>3, <1>4, SameOK

LEMMA RingOther ==
    ASSUME PoolInv, NEW u \in Worker, Same(u), pc'[u] = pc[u],
           head'[u] = head[u]
    PROVE  RingOK(u)'
<1>1. RingOK(u)
  BY DEF PoolInv, RingInv
<1> QED
  BY <1>1, SameOK DEF RingOK

LEMMA RingPop ==
    ASSUME PoolInv, NEW w \in Worker, Pop(w)
    PROVE  RingInv'
<1>1. w \in Thread /\ index[w] \in Worker
  BY DEF Thread, PoolInv, Typed, TypeOK
<1>2. index' = [index EXCEPT ![w] = index[w]]
  BY DEF Pop, PopLook, PopClaim, PopTake, PopRace, PopLock, PopWins,
     PopLoses, localVars, PoolInv, Typed, TypeOK
<1>3. CASE PopLook(w) \/ PopRace(w) \/ PopLock(w)
  <2>1. PICK stage \in {"remote", "claim", "lock", "settle"} :
          /\ Moves(w, stage, index[w])
          /\ stage \in {"lock", "settle"} <=> Claiming(w)
          /\ stage = "claim" => ~LooksEmpty(w)
    BY <1>2, <1>3 DEF PopLook, PopRace, PopLock, Step, Goto, Moves, Claiming
  <2>2. head' = head /\ tail' = tail /\ mask' = mask /\ ring' = ring
    BY <1>3 DEF PopLook, PopRace, PopLock, ringVars, slots
  <2>3. pc[w] \notin {"check", "restore", "take"}
    BY <1>3 DEF PopLook, PopRace, PopLock, Step
  <2>4. \A u \in Worker : Same(u)
    BY <1>1, <2>1, <2>2, <2>3, RingQuiet
  <2>5. stage = "claim" => head'[w] > 0
    BY <2>1, <2>2, Bounds DEF LooksEmpty, PoolInv
  <2> QED
    BY <1>1, <2>1, <2>2, <2>4, <2>5, RingSame
<1>4. CASE PopClaim(w) \/ PopLoses(w)
  <2>1. PICK stage \in {"confirm", "remote"} : Moves(w, stage, index[w])
    BY <1>2, <1>4 DEF PopClaim, PopLoses, Step, Goto, Moves
  <2>2. \A u \in Worker : Same(u)
    BY <1>4, ClaimEffect, LoseEffect DEF PoolInv
  <2>3. \A u \in Worker : u # w => head'[u] = head[u]
    BY <1>4 DEF PopClaim, PopLoses, PoolInv, Typed, TypeOK
  <2> QED
    BY <1>1, <2>1, <2>2, <2>3, RingSame
<1>5. CASE PopTake(w) \/ PopWins(w)
  <2>1. Takes(w) /\ \A u \in Worker \ {w} : Same(u)
    BY <1>5, TakeEffect DEF PoolInv
  <2>2. Moves(w, "resume", index[w])
    BY <1>2, <1>5 DEF PopTake, PopWins, Step, Goto, Moves
  <2>3. ASSUME NEW u \in Worker \ {w}
        PROVE  RingOK(u)'
    <3>1. pc'[u] = pc[u]
      BY <2>2 DEF Moves, PoolInv, Typed, TypeOK, Thread
    <3>2. head'[u] = head[u]
      BY <1>5 DEF PopTake, PopWins, ringVars
    <3> QED
      BY <2>1, <3>1, <3>2, RingOther
  <2>4. RingOK(w)'
    <3>1. pc'[w] = "resume"
      BY <1>1, <2>2 DEF Moves, PoolInv, Typed, TypeOK
    <3> QED
      BY <2>1, <3>1, TakesOK DEF PoolInv, RingInv
  <2> QED
    BY <2>3, <2>4 DEF RingInv
<1> QED
  BY <1>3, <1>4, <1>5 DEF Pop

LEMMA TakeRemoteMoves ==
    ASSUME PoolInv, NEW w \in Worker, TakeRemote(w)
    PROVE  /\ \E stage \in {"idle", "resume", "steal"}, j \in Worker :
                 Moves(w, stage, j)
           /\ pc[w] = "remote"
           /\ UNCHANGED ringVars
<1>1. w \in Thread /\ index[w] \in Worker
  BY DEF Thread, PoolInv, Typed, TypeOK
<1>2. index \in [Thread -> Worker]
  BY DEF PoolInv, Typed, TypeOK
<1>3. CASE GetRemoteUnpublished(w)
  <2>1. index' = [index EXCEPT ![w] = index[w]]
    BY <1>1, <1>2, <1>3 DEF GetRemoteUnpublished, localVars
  <2> QED
    BY <1>1, <1>3, <2>1 DEF GetRemoteUnpublished, Step, Goto, Moves
<1>4. CASE GetRemote(w)
  <2>1. index' = [index EXCEPT ![w] = index[w]]
    BY <1>1, <1>2, <1>4 DEF GetRemote
  <2> QED
    BY <1>1, <1>4, <2>1 DEF GetRemote, Step, Goto, Moves
<1>5. CASE GetRemoteNothing(w)
  <2>1. Onward(w, -1, "try")
    BY <1>5 DEF GetRemoteNothing
  <2>2. PICK stage \in {"steal", "idle"}, j \in Worker,
             a \in {"try", "retry", "lock"} :
              /\ pc' = [pc EXCEPT ![w] = stage]
              /\ index' = [index EXCEPT ![w] = j]
              /\ attempt' = [attempt EXCEPT ![w] = a]
    BY <2>1, OnwardStep DEF PoolInv
  <2> QED
    BY <1>5, <2>2 DEF GetRemoteNothing, Moves
<1> QED
  BY <1>3, <1>4, <1>5 DEF TakeRemote

LEMMA RingTakeRemote ==
    ASSUME PoolInv, NEW w \in Worker, TakeRemote(w)
    PROVE  (\A u \in Worker : Same(u)) /\ RingInv'
<1>1. PICK stage \in {"idle", "resume", "steal"}, j \in Worker :
        Moves(w, stage, j)
  BY TakeRemoteMoves
<1>2. pc[w] = "remote" /\ UNCHANGED ringVars
  BY TakeRemoteMoves
<1>3. ~Claiming(w) /\ w \in Thread
  BY <1>2 DEF Claiming, Thread
<1>4. head' = head /\ tail' = tail /\ mask' = mask /\ ring' = ring
  BY <1>2 DEF ringVars
<1>5. \A u \in Worker : Same(u)
  BY <1>1, <1>2, <1>3, <1>4, RingQuiet
<1> QED
  BY <1>1, <1>3, <1>4, <1>5, RingSame

(***************************************************************************)
(* Of the steps of a thief only the one that secures an operation and the  *)
(* one that has read it change a ring.                                     *)
(***************************************************************************)
LEMMA RingSteal ==
    ASSUME PoolInv, NEW w \in Worker, Steal(w), ~StealCheck(w), ~StealTake(w)
    PROVE  (\A u \in Worker : Same(u)) /\ RingInv'
<1>1. w \in Thread /\ index[w] \in Worker /\ head' = head
  BY DEF Thread, PoolInv, Typed, TypeOK, Steal, StealLock, StealUnavailable,
     StealLook, StealNothing, StealAdvance, StealRestore, ringVars, slots
<1>2. attempt[w] \in {"try", "retry", "lock"}
  BY DEF PoolInv, Typed, TypeOK
<1>3. PICK stage \in {"steal", "idle", "look", "advance", "check"}, j \in Worker :
        /\ Moves(w, stage, j)
        /\ stage = "check" => StealAdvance(w)
  <2>1. CASE StealLock(w) \/ StealLook(w) \/ StealAdvance(w)
    <3>1. index' = [index EXCEPT ![w] = index[w]]
      BY <2>1 DEF StealLock, StealLook, StealAdvance, localVars, PoolInv,
         Typed, TypeOK
    <3> QED
      BY <1>1, <2>1, <3>1 DEF StealLock, StealLook, StealAdvance, Step, Goto,
         Moves
  <2>2. CASE StealUnavailable(w) \/ StealNothing(w) \/ StealRestore(w)
    <3>1. pc[w] \in Stealing
      BY <2>2 DEF StealUnavailable, StealNothing, StealRestore, Stealing,
         ThiefHolds
    <3>2. PICK how \in {"try", "retry", "lock"} : Onward(w, index[w], how)
      BY <1>2, <2>2 DEF StealUnavailable, StealNothing, StealRestore
    <3>3. PICK stage \in {"steal", "idle"}, j \in Worker,
               a \in {"try", "retry", "lock"} :
              /\ pc' = [pc EXCEPT ![w] = stage]
              /\ index' = [index EXCEPT ![w] = j]
              /\ attempt' = [attempt EXCEPT ![w] = a]
      BY <3>1, <3>2, StealOnward
    <3> QED
      BY <3>3 DEF Moves
  <2> QED
    BY <2>1, <2>2 DEF Steal
<1>4. CASE StealAdvance(w)
  <2>1. \A u \in Worker : Same(u)
    BY <1>4, AdvanceEffect DEF PoolInv
  <2> QED
    BY <1>1, <1>3, <2>1, RingSame
<1>5. CASE StealRestore(w)
  <2>1. PICK how \in {"try", "retry", "lock"} : Onward(w, index[w], how)
    BY <1>2, <1>5 DEF StealRestore
  <2>2. PICK s \in {"steal", "idle"}, i \in Worker,
             a \in {"try", "retry", "lock"} :
              /\ pc' = [pc EXCEPT ![w] = s]
              /\ index' = [index EXCEPT ![w] = i]
              /\ attempt' = [attempt EXCEPT ![w] = a]
    BY <1>5, <2>1, StealOnward DEF StealRestore, Stealing, ThiefHolds
  <2>3. Moves(w, s, i)
    BY <2>2 DEF Moves
  <2>4. \A u \in Worker : Same(u)
    BY <1>5, <2>3, RestoreEffect DEF PoolInv
  <2> QED
    BY <1>1, <1>3, <2>4, RingSame
<1>6. CASE ~StealAdvance(w) /\ ~StealRestore(w)
  <2>1. /\ pc[w] \in {"steal", "look"}
        /\ tail' = tail /\ mask' = mask /\ ring' = ring
    BY <1>6 DEF Steal, StealLock, StealUnavailable, StealLook, StealNothing,
       Step, ringVars, slots
  <2>2. \A u \in Worker : Same(u)
    BY <1>1, <1>3, <1>6, <2>1, RingQuiet DEF Claiming
  <2> QED
    BY <1>1, <1>3, <2>2, RingSame
<1> QED
  BY <1>4, <1>5, <1>6

LEMMA RingCheck ==
    ASSUME PoolInv, NEW w \in Worker, StealCheck(w) \/ StealTake(w)
    PROVE  RingInv'
<1>1. PICK v \in Worker : v = index[w] /\ v # w
  BY DEF PoolInv, Typed, TypeOK, Thread, StageInv, StealCheck, StealTake,
     Step, Stealing, ThiefHolds
<1>2. PICK stage \in {"take", "restore", "resume"}, j \in Worker :
        Moves(w, stage, j)
  <2>1. CASE StealCheck(w)
    <3>1. index' = [index EXCEPT ![w] = index[w]] /\ index[w] \in Worker
      BY <2>1 DEF StealCheck, localVars, PoolInv, Typed, TypeOK, Thread
    <3> QED
      BY <2>1, <3>1 DEF StealCheck, Step, Goto, Moves
  <2>2. CASE StealTake(w)
    <3>1. 0 \in Worker
      BY PoolAssumption DEF Worker
    <3> QED
      BY <2>2, <3>1 DEF StealTake, Step, Goto, Moves
  <2> QED
    BY <2>1, <2>2
<1>3. ASSUME NEW u \in Worker
      PROVE  pc'[u] = IF u = w THEN stage ELSE pc[u]
  BY <1>2 DEF Moves, PoolInv, Typed, TypeOK, Thread
<1>4. head' = head
  BY DEF StealCheck, StealTake, ringVars, slots
<1>5. RingOK(v)
  BY DEF PoolInv, RingInv
<1>6. ASSUME NEW u \in Worker, Same(u)
      PROVE  RingOK(u)'
  <2>1. RingOK(u)
    BY DEF PoolInv, RingInv
  <2>2. pc'[u] = "put" => Above(u) - Base(u) <= mask[u]
    BY <1>2, <1>3, <2>1 DEF RingOK
  <2>3. pc'[u] = "claim" => head'[u] > 0
    BY <1>2, <1>3, <1>4, <2>1 DEF RingOK
  <2> QED
    BY <1>6, <2>1, <2>2, <2>3, SameOK
<1>7. (\A u \in Worker \ {v} : Same(u)) /\ RingOK(v)'
  <2>1. pc'[v] = pc[v] /\ head'[v] = head[v]
    BY <1>1, <1>3, <1>4
  <2>2. CASE StealTake(w)
    BY <1>1, <1>5, <2>1, <2>2, StealTakeEffect, LeavesOK DEF PoolInv
  <2>3. CASE StealCheck(w) /\ Secured(v)
    BY <1>1, <1>5, <2>1, <2>3, CheckEffect, SecuresOK DEF PoolInv
  <2>4. CASE StealCheck(w) /\ ~Secured(v)
    BY <1>1, <1>6, <2>4, CheckEffect DEF PoolInv
  <2> QED
    BY <2>2, <2>3, <2>4
<1> QED
  BY <1>6, <1>7 DEF RingInv

LEMMA RingRun ==
    ASSUME PoolInv, NEW w \in Worker, Run(w)
    PROVE  (\A u \in Worker : Same(u)) /\ RingInv'
<1>1. w \in Thread /\ index[w] \in Worker
  BY DEF Thread, PoolInv, Typed, TypeOK
<1>2. PICK stage \in {"run", "pop", "wait"} : Moves(w, stage, index[w])
  BY DEF Run, Resume, ResumeReturns, NotifyIntentToSleep, SleepUntilWoken,
     Step, Goto, Moves, localVars, PoolInv, Typed, TypeOK
<1>3. head' = head /\ tail' = tail /\ mask' = mask /\ ring' = ring
  BY DEF Run, Resume, ResumeReturns, NotifyIntentToSleep, SleepUntilWoken,
     ringVars
<1>4. pc[w] \in {"resume", "run", "idle", "wait"}
  BY DEF Run, Resume, ResumeReturns, NotifyIntentToSleep, SleepUntilWoken,
     Step
<1>5. \A u \in Worker : Same(u)
  BY <1>1, <1>2, <1>3, <1>4, RingQuiet DEF Claiming
<1> QED
  BY <1>1, <1>2, <1>3, <1>5, RingSame

LEMMA RingLocalEnqueue ==
    ASSUME PoolInv, NEW w \in Worker,
           EnqueueLook(w) \/ EnqueueGrow(w) \/ EnqueueFails(w)
    PROVE  (\A u \in Worker : Same(u)) /\ RingInv'
<1>1. w \in Thread /\ index[w] \in Worker
  BY DEF Thread, PoolInv, Typed, TypeOK
<1>2. PICK stage \in {"put", "full", "copy", "load"} :
        Moves(w, stage, index[w]) /\ (stage = "put" => HasRoom(w))
  BY DEF EnqueueLook, EnqueueGrow, EnqueueFails, Step, Goto, Moves,
     localVars, PoolInv, Typed, TypeOK
<1>3. head' = head /\ tail' = tail /\ mask' = mask /\ ring' = ring
  BY DEF EnqueueLook, EnqueueGrow, EnqueueFails, ringVars, slots
<1>4. pc[w] \in {"run", "full"}
  BY DEF EnqueueLook, EnqueueGrow, EnqueueFails, Step
<1>5. \A u \in Worker : Same(u)
  BY <1>1, <1>2, <1>3, <1>4, RingQuiet DEF Claiming
<1>6. stage = "put" => Above(w) - Base(w) <= mask[w]
  <2>1. Above(w) = head[w]
    BY <1>4 DEF Above, Claiming
  <2> QED
    BY <1>2, <2>1, Bounds DEF HasRoom, PoolInv
<1> QED
  BY <1>1, <1>2, <1>3, <1>5, <1>6, RingSame

LEMMA RingAdd ==
    ASSUME PoolInv, NEW w \in Worker, EnqueuePut(w) \/ EnqueueCopy(w)
    PROVE  RingInv'
<1>1. w \in Thread /\ RingOK(w)
  BY DEF Thread, PoolInv, RingInv
<1>2. Adds(w) /\ \A u \in Worker \ {w} : Same(u)
  BY <1>1, PutEffect, CopyEffect DEF PoolInv
<1>3. pc' = [pc EXCEPT ![w] = "wake"]
  BY DEF EnqueuePut, EnqueueCopy, Step, Goto
<1>4. Typed'
  BY TypedLocalEnqueue DEF LocalEnqueue
<1>5. RingOK(w)'
  <2>1. Head(todo[w]) \in Operation
    BY <1>1, NextTodo DEF EnqueuePut, EnqueueCopy, Step, Enqueueing
  <2>2. pc'[w] = "wake"
    BY <1>1, <1>3 DEF PoolInv, Typed, TypeOK
  <2>3. mask'[w] \in Nat
    BY <1>4 DEF Typed, TypeOK
  <2> QED
    BY <1>1, <1>2, <2>1, <2>2, <2>3, AddsOK DEF PoolInv
<1>6. ASSUME NEW u \in Worker \ {w}
      PROVE  RingOK(u)'
  <2>1. pc'[u] = pc[u]
    BY <1>3 DEF PoolInv, Typed, TypeOK, Thread
  <2>2. head'[u] = head[u]
    BY DEF EnqueuePut, EnqueueCopy, PoolInv, Typed, TypeOK
  <2> QED
    BY <1>2, <2>1, <2>2, RingOther
<1> QED
  BY <1>5, <1>6 DEF RingInv

LEMMA RingRemoteEnqueue ==
    ASSUME PoolInv, NEW t \in Thread, RemoteEnqueue(t)
    PROVE  (\A u \in Worker : Same(u)) /\ RingInv'
<1>1. PICK stage \in {"push", "wake", "run", "load"}, j \in Worker :
        Moves(t, stage, j)
  BY RemoteEnqueueMoves
<1>2. pc[t] \in {"load", "push", "wake"} /\ UNCHANGED ringVars
  BY RemoteEnqueueMoves
<1>3. head' = head /\ tail' = tail /\ mask' = mask /\ ring' = ring
  BY <1>2 DEF ringVars
<1>4. \A u \in Worker : Same(u)
  BY <1>1, <1>2, <1>3, RingQuiet DEF Claiming
<1> QED
  BY <1>1, <1>3, <1>4, RingSame

-----------------------------------------------------------------------------

LEMMA PoolInit == Init => PoolInv
<1> SUFFICES ASSUME Init PROVE PoolInv
  OBVIOUS
<1>1. 0 \in Worker /\ None \notin Worker /\ InitialQueueSize - 1 \in Nat
  BY PoolAssumption DEF Worker
<1>2. Typed
  <2>1. \A w \in Worker :
          ring[w] \in [0..(InitialQueueSize - 1) -> Operation \cup {None}]
    BY DEF Init
  <2>2. \A w \in Worker : mask[w] = InitialQueueSize - 1
    BY DEF Init
  <2>3. todo \in [Thread -> Seq(Operation)]
    BY AgendaAssumption DEF Init, Thread
  <2>4. \A w \in Worker : ring[w] \in [0..mask[w] -> Operation \cup {None}]
    BY <2>1, <2>2
  <2>5. ring = [w \in Worker |-> ring[w]]
    BY DEF Init
  <2>6. /\ mask \in [Worker -> Nat]
        /\ head \in [Worker -> Nat]
        /\ tail \in [Worker -> Nat]
    BY <1>1 DEF Init
  <2>7. pc \in [Thread -> WorkerStage \cup ThreadStage]
    BY DEF Init, WorkerStage, ThreadStage
  <2>10. arrivals = <<>> /\ ready = <<>> /\ <<>> \in Seq(Operation)
    BY DEF Init
  <2>8. /\ published \in BOOLEAN
        /\ remoteMutex \in [Worker -> Worker \cup {None}]
        /\ sleeping \in [Worker -> BOOLEAN]
        /\ wakeupEvent \in [Worker -> BOOLEAN]
    BY DEF Init
  <2>9. /\ got \in [Worker -> Operation \cup {None}]
        /\ seen \in [Thread -> Operation \cup {None}]
        /\ index \in [Thread -> Worker]
        /\ attempt \in [Worker -> {"try", "retry", "lock"}]
        /\ resumed \in [Operation -> Nat]
    BY <1>1 DEF Init
  <2> QED
    BY <2>3, <2>4, <2>5, <2>6, <2>7, <2>8, <2>9, <2>10 DEF Typed, TypeOK
<1>3. \A w \in Worker : pc[w] = "pop" /\ got[w] = None /\ index[w] = 0
                        /\ head[w] = 0 /\ tail[w] = 0
                        /\ remoteMutex[w] = None
  BY DEF Init, Thread
<1>4. LockInv
  BY <1>1, <1>3 DEF LockInv, Holds, HoldsAt, ThiefHolds, OwnerHolds
<1>5. StageInv
  <2>1. \A t \in Thread : pc[t] \in {"pop", "load"}
    BY DEF Init
  <2> QED
    BY <1>3, <2>1 DEF StageInv, Stealing, ThiefHolds, Enqueueing
<1>6. RingInv
  <2> SUFFICES ASSUME NEW w \in Worker PROVE RingOK(w)
    BY DEF RingInv
  <2>1. Above(w) = 0 /\ Below(w) = 0 /\ Base(w) = 0
    BY <1>3 DEF Above, Below, Base, Claiming, StolenFrom, TakenFrom
  <2> QED
    BY <1>2, <1>3, <2>1, Bounds DEF RingOK
<1> QED
  BY <1>2, <1>4, <1>5, <1>6 DEF PoolInv

LEMMA PoolNext ==
    ASSUME PoolInv, [Next]_vars
    PROVE  PoolInv'
<1>1. CASE Publish \/ UNCHANGED vars
  <2>1. /\ published' \in BOOLEAN
        /\ UNCHANGED <<head, tail, mask, ring, remoteMutex, arrivals, ready,
                       sleeping, wakeupEvent, pc, todo, got, seen, index,
                       attempt, resumed>>
    BY <1>1 DEF Publish, vars, elsewhere, ringVars, listVars, sleepVars,
       localVars, PoolInv, Typed, TypeOK
  <2>2. Typed'
    BY <2>1 DEF PoolInv, Typed, TypeOK
  <2>3. LockInv' /\ StageInv'
    BY <2>1 DEF PoolInv, LockInv, Holds, HoldsAt, StageInv
  <2>4. ASSUME NEW u \in Worker
        PROVE  RingOK(u)'
    <3>1. RingOK(u)
      BY DEF PoolInv, RingInv
    <3>2. Same(u)
      BY <2>1 DEF Same, Above, Below, Base, Claiming, StolenFrom, TakenFrom
    <3> QED
      BY <2>1, <3>1, <3>2, SameOK DEF RingOK
  <2> QED
    BY <2>2, <2>3, <2>4 DEF PoolInv, RingInv
<1>2. ASSUME NEW t \in Thread, RemoteEnqueue(t)
      PROVE  PoolInv'
  BY <1>2, TypedRemoteEnqueue, LockRemoteEnqueue, StageRemoteEnqueue,
     RingRemoteEnqueue DEF PoolInv
<1>3. ASSUME NEW w \in Worker, Pop(w)
      PROVE  PoolInv'
  BY <1>3, TypedPop, LockPop, StagePop, RingPop DEF PoolInv
<1>4. ASSUME NEW w \in Worker, TakeRemote(w)
      PROVE  PoolInv'
  BY <1>4, TypedTakeRemote, LockTakeRemote, StageTakeRemote, RingTakeRemote
     DEF PoolInv
<1>5. ASSUME NEW w \in Worker, Steal(w)
      PROVE  PoolInv'
  <2>1. RingInv'
    BY <1>5, RingSteal, RingCheck
  <2> QED
    BY <1>5, <2>1, TypedSteal, LockSteal, StageSteal DEF PoolInv
<1>6. ASSUME NEW w \in Worker, Run(w)
      PROVE  PoolInv'
  BY <1>6, TypedRun, LockRun, StageRun, RingRun DEF PoolInv
<1>7. ASSUME NEW w \in Worker, LocalEnqueue(w)
      PROVE  PoolInv'
  <2>1. RingInv'
    BY <1>7, RingLocalEnqueue, RingAdd DEF LocalEnqueue
  <2> QED
    BY <1>7, <2>1, TypedLocalEnqueue, LockLocalEnqueue, StageLocalEnqueue
       DEF PoolInv
<1> QED
  BY <1>1, <1>2, <1>3, <1>4, <1>5, <1>6, <1>7 DEF Next, WorkerStep, Thread

(***************************************************************************)
(* Every variable keeps its type: no loop over the pool threads leaves     *)
(* their array, queue_head and queue_tail never fall below 0, and what a   *)
(* pop or a steal reads from a slot is an operation.                       *)
(***************************************************************************)
THEOREM PoolTyped == Spec => []TypeOK
<1>1. PoolInv => TypeOK
  BY DEF PoolInv, Typed
<1> QED
  BY <1>1, PoolInit, PoolNext, PTL DEF Spec

-----------------------------------------------------------------------------
(***************************************************************************)
(* Sequences.                                                              *)
(***************************************************************************)
Distinct(s) == \A i, j \in 1..Len(s) : s[i] = s[j] => i = j

LEMMA SetOf ==
    ASSUME NEW S, NEW s \in Seq(S), NEW x
    PROVE  x \in ToSet(s) <=> \E i \in 1..Len(s) : x = s[i]
BY DEF ToSet

LEMMA HeadOut ==
    ASSUME NEW S, NEW s \in Seq(S), s # <<>>, Distinct(s)
    PROVE  /\ Head(s) \in ToSet(s)
           /\ Distinct(Tail(s))
           /\ ToSet(Tail(s)) = ToSet(s) \ {Head(s)}
<1>1. /\ Head(s) = s[1] /\ Len(s) \in Nat /\ Len(s) > 0
      /\ Tail(s) \in Seq(S) /\ Len(Tail(s)) = Len(s) - 1
      /\ \A i \in 1..(Len(s) - 1) : Tail(s)[i] = s[i + 1]
  OBVIOUS
<1>2. Distinct(Tail(s))
  BY <1>1 DEF Distinct
<1>3. Head(s) \in ToSet(s)
  BY <1>1, SetOf
<1>4. ASSUME NEW x
      PROVE  x \in ToSet(Tail(s)) <=> x \in ToSet(s) /\ x # Head(s)
  <2>1. ASSUME x \in ToSet(Tail(s))
        PROVE  x \in ToSet(s) /\ x # Head(s)
    <3>1. PICK i \in 1..(Len(s) - 1) : x = s[i + 1]
      <4>1. PICK t \in Seq(S) : t = Tail(s)
        BY <1>1
      <4>2. PICK i \in 1..Len(t) : x = t[i]
        BY <2>1, <4>1, SetOf
      <4> QED
        BY <1>1, <4>1, <4>2
    <3>2. i + 1 \in 1..Len(s) /\ 1 \in 1..Len(s) /\ i + 1 # 1
      BY <1>1
    <3> QED
      BY <1>1, <3>1, <3>2, SetOf DEF Distinct
  <2>2. ASSUME x \in ToSet(s), x # Head(s)
        PROVE  x \in ToSet(Tail(s))
    <3>1. PICK i \in 1..Len(s) : x = s[i]
      BY <2>2, SetOf
    <3>2. i # 1
      BY <1>1, <2>2, <3>1
    <3>3. i - 1 \in 1..(Len(s) - 1) /\ (i - 1) + 1 = i
      BY <3>2, <1>1
    <3>4. x = Tail(s)[i - 1]
      BY <1>1, <3>1, <3>3
    <3> QED
      BY <1>1, <3>3, <3>4, SetOf
  <2> QED
    BY <2>1, <2>2
<1> QED
  BY <1>2, <1>3, <1>4

LEMMA FrontIs ==
    ASSUME NEW S, NEW s \in Seq(S), s # <<>>
    PROVE  /\ Front(s) \in Seq(S)
           /\ Len(s) \in Nat /\ Len(s) > 0
           /\ Len(Front(s)) = Len(s) - 1
           /\ \A i \in 1..(Len(s) - 1) : Front(s)[i] = s[i]
           /\ Last(s) = s[Len(s)]
<1>1. Len(s) \in Nat /\ Len(s) > 0
  OBVIOUS
<1>2. PICK n \in Nat : n = Len(s) - 1
  BY <1>1
<1>3. \A i \in 1..n : s[i] \in S
  BY <1>1, <1>2
<1>4. PICK f : f = SubSeq(s, 1, n)
  OBVIOUS
<1>5. /\ f \in Seq(S)
      /\ Len(f) = IF 1 <= n THEN n - 1 + 1 ELSE 0
      /\ \A i \in 1..(n - 1 + 1) : f[i] = s[1 + i - 1]
  BY <1>3, <1>4, SubSeqProperties
<1>6. Len(f) = n /\ \A i \in 1..n : f[i] = s[i]
  BY <1>2, <1>5
<1>7. Front(s) = f
  BY <1>2, <1>4 DEF Front
<1> QED
  BY <1>1, <1>2, <1>5, <1>6, <1>7 DEF Last

LEMMA LastOut ==
    ASSUME NEW S, NEW s \in Seq(S), s # <<>>, Distinct(s)
    PROVE  /\ Last(s) \in ToSet(s)
           /\ Distinct(Front(s))
           /\ ToSet(Front(s)) = ToSet(s) \ {Last(s)}
<1>1. /\ Front(s) \in Seq(S)
      /\ Len(s) \in Nat /\ Len(s) > 0
      /\ Len(Front(s)) = Len(s) - 1
      /\ \A i \in 1..(Len(s) - 1) : Front(s)[i] = s[i]
      /\ Last(s) = s[Len(s)]
  BY FrontIs
<1>2. Distinct(Front(s))
  BY <1>1 DEF Distinct
<1>3. Last(s) \in ToSet(s)
  BY <1>1, SetOf
<1>4. ASSUME NEW x
      PROVE  x \in ToSet(Front(s)) <=> x \in ToSet(s) /\ x # Last(s)
  <2>1. ASSUME x \in ToSet(Front(s))
        PROVE  x \in ToSet(s) /\ x # Last(s)
    <3>1. PICK i \in 1..(Len(s) - 1) : x = s[i]
      BY <1>1, <2>1, SetOf
    <3>2. i \in 1..Len(s) /\ Len(s) \in 1..Len(s) /\ i # Len(s)
      BY <1>1
    <3> QED
      BY <1>1, <3>1, <3>2, SetOf DEF Distinct
  <2>2. ASSUME x \in ToSet(s), x # Last(s)
        PROVE  x \in ToSet(Front(s))
    <3>1. PICK i \in 1..Len(s) : x = s[i]
      BY <2>2, SetOf
    <3>2. i \in 1..(Len(s) - 1)
      BY <1>1, <2>2, <3>1
    <3>3. x = Front(s)[i]
      BY <1>1, <3>1, <3>2
    <3> QED
      BY <1>1, <3>2, <3>3, SetOf
  <2> QED
    BY <2>1, <2>2
<1> QED
  BY <1>2, <1>3, <1>4

LEMMA OneMore ==
    ASSUME NEW S, NEW s \in Seq(S), NEW x \in S
    PROVE  /\ ToSet(Append(s, x)) = ToSet(s) \cup {x}
           /\ Distinct(s) /\ x \notin ToSet(s) => Distinct(Append(s, x))
<1>1. /\ Append(s, x) \in Seq(S) /\ Len(s) \in Nat
      /\ Len(Append(s, x)) = Len(s) + 1
      /\ Append(s, x)[Len(s) + 1] = x
      /\ \A i \in 1..Len(s) : Append(s, x)[i] = s[i]
  OBVIOUS
<1>2. ASSUME NEW y
      PROVE  y \in ToSet(Append(s, x)) <=> y \in ToSet(s) \/ y = x
  <2>1. ASSUME y \in ToSet(Append(s, x))
        PROVE  y \in ToSet(s) \/ y = x
    <3>1. PICK i \in 1..(Len(s) + 1) : y = Append(s, x)[i]
      <4>1. PICK t \in Seq(S) : t = Append(s, x)
        BY <1>1
      <4>2. PICK i \in 1..Len(t) : y = t[i]
        BY <2>1, <4>1, SetOf
      <4> QED
        BY <1>1, <4>1, <4>2
    <3>2. CASE i = Len(s) + 1
      BY <1>1, <3>1, <3>2
    <3>3. CASE i \in 1..Len(s)
      BY <1>1, <3>1, <3>3, SetOf
    <3> QED
      BY <1>1, <3>2, <3>3
  <2>2. ASSUME y \in ToSet(s)
        PROVE  y \in ToSet(Append(s, x))
    <3>1. PICK i \in 1..Len(s) : y = s[i]
      BY <2>2, SetOf
    <3>2. i \in 1..Len(Append(s, x)) /\ y = Append(s, x)[i]
      BY <1>1, <3>1
    <3> QED
      BY <1>1, <3>2, SetOf
  <2>3. x \in ToSet(Append(s, x))
    <3>1. Len(s) + 1 \in 1..Len(Append(s, x))
      BY <1>1
    <3> QED
      BY <1>1, <3>1, SetOf
  <2> QED
    BY <2>1, <2>2, <2>3
<1>3. ASSUME Distinct(s), x \notin ToSet(s)
      PROVE  Distinct(Append(s, x))
  <2>1. \A i \in 1..Len(s) : s[i] # x
    BY <1>3, SetOf
  <2> QED
    BY <1>1, <1>3, <2>1 DEF Distinct
<1> QED
  BY <1>2, <1>3

-----------------------------------------------------------------------------
(***************************************************************************)
(* The state of the pool as WorkPool sees it.                              *)
(***************************************************************************)
Inbox == ready \o Reverse(arrivals)
Deque == [w \in Worker |-> RingContents(w)]
HandOf(w) == IF pc[w] = "take" THEN Slot(index[w], tail[index[w]] - 1)
             ELSE got[w]
Hand == [w \in Worker |-> HandOf(w)]
Done == {o \in Operation : resumed[o] > 0}

Known ==
    ToSet(Inbox) \cup (UNION {ToSet(Deque[w]) : w \in Worker})
        \cup {Hand[w] : w \in Worker} \cup Done

PoolView == <<Inbox, Deque, Hand, Done>>

LEMMA PoolVars == UNCHANGED PoolView => UNCHANGED Pool!vars
BY DEF PoolView, Inbox, Deque, Hand, HandOf, Done, Pool!vars

LEMMA KnownToPool == Pool!Known = Known
BY DEF Pool!Known, Known, Pool!ToSet, ToSet, Inbox, Deque, Hand, HandOf, Done

(***************************************************************************)
(* The steps of WorkPool, without the condition that what is added is new. *)
(***************************************************************************)
Submitted(o) ==
    /\ Inbox' = Append(Inbox, o)
    /\ UNCHANGED <<Deque, Hand, Done>>

Kept(w, o) ==
    /\ Deque' = [Deque EXCEPT ![w] = Append(@, o)]
    /\ UNCHANGED <<Inbox, Hand, Done>>

OldestTaken(w) ==
    /\ Hand[w] = None
    /\ Inbox # <<>>
    /\ Hand' = [Hand EXCEPT ![w] = Head(Inbox)]
    /\ Inbox' = Tail(Inbox)
    /\ UNCHANGED <<Deque, Done>>

LatestTaken(w) ==
    /\ Hand[w] = None
    /\ Deque[w] # <<>>
    /\ Hand' = [Hand EXCEPT ![w] = Last(Deque[w])]
    /\ Deque' = [Deque EXCEPT ![w] = Front(@)]
    /\ UNCHANGED <<Inbox, Done>>

Stolen(w, v) ==
    /\ Hand[w] = None
    /\ Deque[v] # <<>>
    /\ Hand' = [Hand EXCEPT ![w] = Head(Deque[v])]
    /\ Deque' = [Deque EXCEPT ![v] = Tail(@)]
    /\ UNCHANGED <<Inbox, Done>>

Resumption(w) ==
    /\ Hand[w] # None
    /\ Done' = Done \cup {Hand[w]}
    /\ Hand' = [Hand EXCEPT ![w] = None]
    /\ UNCHANGED <<Inbox, Deque>>

LEMMA IsSubmit ==
    ASSUME NEW o, o \notin Known, Submitted(o)
    PROVE  Pool!Submit(o)
BY KnownToPool
   DEF Submitted, Pool!Submit, Inbox, Deque, Hand, HandOf, Done

LEMMA IsKeep ==
    ASSUME NEW o, NEW w, o \notin Known, Kept(w, o)
    PROVE  Pool!Keep(w, o)
BY KnownToPool DEF Kept, Pool!Keep, Inbox, Deque, Hand, HandOf, Done

LEMMA IsTakeOldest ==
    ASSUME NEW w, OldestTaken(w)
    PROVE  Pool!TakeOldest(w)
BY DEF OldestTaken, Pool!TakeOldest, Inbox, Deque, Hand, HandOf, Done

LEMMA IsTakeLatest ==
    ASSUME NEW w, LatestTaken(w)
    PROVE  Pool!TakeLatest(w)
BY DEF LatestTaken, Pool!TakeLatest, Pool!Last, Last, Pool!Front, Front,
   Inbox, Deque, Hand, HandOf, Done

LEMMA IsSteal ==
    ASSUME NEW w, NEW v, Stolen(w, v)
    PROVE  Pool!Steal(w, v)
BY DEF Stolen, Pool!Steal, Inbox, Deque, Hand, HandOf, Done

LEMMA IsResume ==
    ASSUME NEW w, Resumption(w)
    PROVE  Pool!Resume(w)
BY DEF Resumption, Pool!Resume, Inbox, Deque, Hand, HandOf, Done

-----------------------------------------------------------------------------
(***************************************************************************)
(* What a ring holds, before and after a step.                             *)
(***************************************************************************)
LEMMA Contents ==
    ASSUME PoolInv, NEW w \in Worker
    PROVE  /\ RingContents(w) \in Seq(Operation)
           /\ Len(RingContents(w)) = Above(w) - Below(w)
           /\ \A i \in 1..(Above(w) - Below(w)) :
                 RingContents(w)[i] = Slot(w, Below(w) + i - 1)
<1>1. RingOK(w) /\ Typed
  BY DEF PoolInv, RingInv
<1>2. PICK a \in Int, b \in Int : a = Above(w) /\ b = Below(w)
  BY <1>1, Bounds
<1>3. RingContents(w) = [i \in 1..(a - b) |-> Slot(w, b + i - 1)]
  <2>1. head[w] \in Nat /\ tail[w] \in Nat
    BY <1>1, Bounds
  <2>2. PICK last \in Int, first \in Int :
          /\ last = IF Claiming(w) THEN head[w] ELSE head[w] - 1
          /\ first = IF StolenFrom(w) THEN tail[w] - 1 ELSE tail[w]
    BY <2>1
  <2>3. last + 1 = a /\ first = b
    BY <1>2, <2>1, <2>2 DEF Above, Below
  <2>4. last - first + 1 = a - b
    BY <2>3
  <2> QED
    BY <2>2, <2>3, <2>4 DEF RingContents
<1>4. b <= a
  BY <1>1, <1>2 DEF RingOK
<1>5. \A i \in 1..(a - b) : Slot(w, b + i - 1) \in Operation
  <2> SUFFICES ASSUME NEW i \in 1..(a - b)
               PROVE  Slot(w, b + i - 1) \in Operation
    OBVIOUS
  <2>1. b + i - 1 \in Base(w)..(Above(w) - 1)
    BY <1>1, <1>2, Bounds
  <2> QED
    BY <1>1, <2>1 DEF RingOK
<1> QED
  BY <1>2, <1>3, <1>4, <1>5

LEMMA NextContents ==
    ASSUME PoolInv', NEW w \in Worker
    PROVE  /\ RingContents(w)' \in Seq(Operation)
           /\ Len(RingContents(w)') = Above(w)' - Below(w)'
           /\ \A i \in 1..(Above(w)' - Below(w)') :
                 RingContents(w)'[i] = NewSlot(w, Below(w)' + i - 1)
<1>1. RingOK(w)' /\ Typed'
  BY DEF PoolInv, RingInv
<1>2. /\ Above(w)' \in Int /\ Below(w)' \in Int /\ Base(w)' \in Int
      /\ head'[w] \in Nat /\ tail'[w] \in Nat
      /\ Base(w)' <= Below(w)'
  BY <1>1 DEF Typed, TypeOK, Above, Below, Base
<1>3. PICK a \in Int, b \in Int : a = Above(w)' /\ b = Below(w)'
  BY <1>2
<1>4. RingContents(w)' = [i \in 1..(a - b) |-> NewSlot(w, b + i - 1)]
  <2>1. PICK last \in Int, first \in Int :
          /\ last = IF Claiming(w)' THEN head'[w] ELSE head'[w] - 1
          /\ first = IF StolenFrom(w)' THEN tail'[w] - 1 ELSE tail'[w]
    BY <1>2
  <2>2. last + 1 = a /\ first = b
    BY <1>2, <1>3, <2>1 DEF Above, Below
  <2>3. last - first + 1 = a - b
    BY <2>2
  <2> QED
    BY <2>1, <2>2, <2>3 DEF RingContents, Slot, NewSlot
<1>5. b <= a
  BY <1>1, <1>3 DEF RingOK
<1>6. \A i \in 1..(a - b) : NewSlot(w, b + i - 1) \in Operation
  <2> SUFFICES ASSUME NEW i \in 1..(a - b)
               PROVE  NewSlot(w, b + i - 1) \in Operation
    OBVIOUS
  <2>1. PICK p \in Int : p = b + i - 1
    OBVIOUS
  <2>2. p \in Base(w)'..(Above(w)' - 1)
    BY <1>2, <1>3, <2>1
  <2>3. Slot(w, p)' \in Operation
    BY <1>1, <2>2 DEF RingOK
  <2> QED
    BY <2>1, <2>3 DEF Slot, NewSlot
<1> QED
  BY <1>3, <1>4, <1>5, <1>6

LEMMA SameContents ==
    ASSUME PoolInv, PoolInv', NEW w \in Worker, Same(w)
    PROVE  RingContents(w)' = RingContents(w)
<1>1. PICK c \in Seq(Operation), d \in Seq(Operation) :
        c = RingContents(w) /\ d = RingContents(w)'
  BY Contents, NextContents
<1>2. PICK n \in Int : n = Above(w) - Below(w)
  BY Bounds DEF PoolInv
<1>3. Len(c) = n /\ \A i \in 1..n : c[i] = Slot(w, Below(w) + i - 1)
  BY <1>1, <1>2, Contents
<1>4. Len(d) = n /\ \A i \in 1..n : d[i] = NewSlot(w, Below(w) + i - 1)
  BY <1>1, <1>2, NextContents DEF Same
<1>5. \A p : NewSlot(w, p) = Slot(w, p)
  BY DEF Same, Slot, NewSlot
<1>6. \A i \in 1..n : c[i] = d[i]
  BY <1>3, <1>4, <1>5
<1>7. c = d
  BY <1>3, <1>4, <1>6, SeqEqual
<1> QED
  BY <1>1, <1>7

LEMMA TakesContents ==
    ASSUME PoolInv, PoolInv', NEW w \in Worker, Takes(w)
    PROVE  /\ RingContents(w) # <<>>
           /\ Last(RingContents(w)) = Slot(w, head[w])
           /\ RingContents(w)' = Front(RingContents(w))
<1>1. PICK c \in Seq(Operation), d \in Seq(Operation) :
        c = RingContents(w) /\ d = RingContents(w)'
  BY Contents, NextContents
<1>2. PICK n \in Int, b \in Int : n = Above(w) - Below(w) /\ b = Below(w)
  BY Bounds DEF PoolInv
<1>3. Len(c) = n /\ \A i \in 1..n : c[i] = Slot(w, b + i - 1)
  BY <1>1, <1>2, Contents
<1>4. Above(w)' - Below(w)' = n - 1 /\ Below(w)' = b /\ n >= 1
      /\ b + n - 1 = head[w]
  BY <1>2, Bounds, SMTT(30) DEF Takes, PoolInv
<1>5. Len(d) = n - 1 /\ \A i \in 1..(n - 1) : d[i] = NewSlot(w, b + i - 1)
  BY <1>1, <1>4, NextContents
<1>6. \A p : NewSlot(w, p) = Slot(w, p)
  BY DEF Takes, Slot, NewSlot
<1>7. c # <<>>
  BY <1>3, <1>4
<1>8. PICK f \in Seq(Operation) : f = Front(c)
  BY <1>7, FrontIs
<1>9. Len(f) = n - 1 /\ \A i \in 1..(n - 1) : f[i] = c[i]
  BY <1>3, <1>7, <1>8, FrontIs
<1>10. ASSUME NEW i \in 1..(n - 1)
       PROVE  f[i] = d[i]
  <2>1. i \in 1..n
    BY <1>4
  <2> QED
    BY <1>3, <1>5, <1>6, <1>9, <2>1
<1>11. f = d
  BY <1>5, <1>9, <1>10, SeqEqual
<1>12. Last(c) = Slot(w, head[w])
  <2>1. Last(c) = c[n]
    BY <1>3, <1>7, FrontIs
  <2> QED
    BY <1>3, <1>4, <2>1
<1> QED
  BY <1>1, <1>7, <1>8, <1>11, <1>12

LEMMA SecuresContents ==
    ASSUME PoolInv, PoolInv', NEW v \in Worker, Secures(v)
    PROVE  /\ RingContents(v) # <<>>
           /\ Head(RingContents(v)) = Slot(v, tail[v] - 1)
           /\ RingContents(v)' = Tail(RingContents(v))
<1>1. PICK c \in Seq(Operation), d \in Seq(Operation) :
        c = RingContents(v) /\ d = RingContents(v)'
  BY Contents, NextContents
<1>2. PICK n \in Int, b \in Int : n = Above(v) - Below(v) /\ b = Below(v)
  BY Bounds DEF PoolInv
<1>3. Len(c) = n /\ \A i \in 1..n : c[i] = Slot(v, b + i - 1)
  BY <1>1, <1>2, Contents
<1>4. Above(v)' - Below(v)' = n - 1 /\ Below(v)' = b + 1 /\ n >= 1
      /\ b = tail[v] - 1
  BY <1>2, Bounds DEF Secures, PoolInv
<1>5. Len(d) = n - 1 /\ \A i \in 1..(n - 1) : d[i] = NewSlot(v, b + 1 + i - 1)
  BY <1>1, <1>4, NextContents
<1>6. \A p : NewSlot(v, p) = Slot(v, p)
  BY DEF Secures, Slot, NewSlot
<1>7. c # <<>>
  BY <1>3, <1>4
<1>8. PICK f \in Seq(Operation) : f = Tail(c)
  BY <1>7, HeadTailProperties
<1>9. Len(f) = n - 1 /\ \A i \in 1..(n - 1) : f[i] = c[i + 1]
  BY <1>3, <1>7, <1>8
<1>10. ASSUME NEW i \in 1..(n - 1)
       PROVE  f[i] = d[i]
  <2>1. i + 1 \in 1..n /\ b + 1 + i - 1 = b + (i + 1) - 1
    BY <1>4
  <2> QED
    BY <1>3, <1>5, <1>6, <1>9, <2>1
<1>11. f = d
  BY <1>5, <1>9, <1>10, SeqEqual
<1>12. Head(c) = Slot(v, tail[v] - 1)
  <2>1. Head(c) = c[1] /\ 1 \in 1..n /\ b + 1 - 1 = tail[v] - 1
    BY <1>3, <1>4, <1>7
  <2> QED
    BY <1>3, <2>1
<1> QED
  BY <1>1, <1>7, <1>8, <1>11, <1>12

LEMMA LeavesContents ==
    ASSUME PoolInv, PoolInv', NEW v \in Worker, Leaves(v)
    PROVE  RingContents(v)' = RingContents(v)
<1>1. PICK c \in Seq(Operation), d \in Seq(Operation) :
        c = RingContents(v) /\ d = RingContents(v)'
  BY Contents, NextContents
<1>2. PICK n \in Int : n = Above(v) - Below(v)
  BY Bounds DEF PoolInv
<1>3. Len(c) = n /\ \A i \in 1..n : c[i] = Slot(v, Below(v) + i - 1)
  BY <1>1, <1>2, Contents
<1>4. Len(d) = n /\ \A i \in 1..n : d[i] = NewSlot(v, Below(v) + i - 1)
  BY <1>1, <1>2, NextContents DEF Leaves
<1>5. \A p : NewSlot(v, p) = Slot(v, p)
  BY DEF Leaves, Slot, NewSlot
<1>6. \A i \in 1..n : c[i] = d[i]
  BY <1>3, <1>4, <1>5
<1>7. c = d
  BY <1>3, <1>4, <1>6, SeqEqual
<1> QED
  BY <1>1, <1>7

LEMMA AddsContents ==
    ASSUME PoolInv, PoolInv', NEW w \in Worker, Adds(w),
           Head(todo[w]) \in Operation
    PROVE  RingContents(w)' = Append(RingContents(w), Head(todo[w]))
<1>1. PICK c \in Seq(Operation), d \in Seq(Operation), o \in Operation :
        c = RingContents(w) /\ d = RingContents(w)' /\ o = Head(todo[w])
  BY Contents, NextContents
<1>2. PICK n \in Int, b \in Int : n = Above(w) - Below(w) /\ b = Below(w)
  BY Bounds DEF PoolInv
<1>3. Len(c) = n /\ \A i \in 1..n : c[i] = Slot(w, b + i - 1)
  BY <1>1, <1>2, Contents
<1>4. Above(w)' - Below(w)' = n + 1 /\ Below(w)' = b /\ n \in Nat
      /\ b + n = Above(w)
  BY <1>2, <1>3, Bounds DEF Adds, PoolInv
<1>5. Len(d) = n + 1 /\ \A i \in 1..(n + 1) : d[i] = NewSlot(w, b + i - 1)
  BY <1>1, <1>4, NextContents
<1>6. PICK e \in Seq(Operation) : e = Append(c, o)
  BY AppendProperties
<1>7. Len(e) = n + 1 /\ e[n + 1] = o /\ \A i \in 1..n : e[i] = c[i]
  <2>1. /\ Len(Append(c, o)) = Len(c) + 1
        /\ Append(c, o)[Len(c) + 1] = o
        /\ \A i \in 1..Len(c) : Append(c, o)[i] = c[i]
    BY AppendProperties
  <2> QED
    BY <1>3, <1>4, <1>6, <2>1
<1>8. ASSUME NEW i \in 1..(n + 1)
      PROVE  d[i] = e[i]
  <2>1. CASE i = n + 1
    <3>1. b + i - 1 = Above(w)
      BY <1>4, <2>1
    <3>2. d[i] = NewSlot(w, Above(w))
      BY <1>5, <3>1
    <3> QED
      BY <1>1, <1>7, <2>1, <3>2 DEF Adds
  <2>2. CASE i \in 1..n
    <3>1. b + i - 1 \in Base(w)..(Above(w) - 1)
      <4>1. Base(w) \in Int /\ Base(w) <= b
        BY <1>2, Bounds DEF PoolInv
      <4> QED
        BY <1>4, <2>2, <4>1
    <3>2. NewSlot(w, b + i - 1) = Slot(w, b + i - 1)
      BY <3>1 DEF Adds
    <3> QED
      BY <1>3, <1>5, <1>7, <2>2, <3>2
  <2> QED
    BY <1>4, <2>1, <2>2
<1>9. d = e
  BY <1>5, <1>7, <1>8, SeqEqual
<1> QED
  BY <1>1, <1>6, <1>9

-----------------------------------------------------------------------------
(***************************************************************************)
(* What a thief that has secured an operation holds, it holds until it has *)
(* read it.                                                                *)
(***************************************************************************)
LEMMA TakeAt ==
    ASSUME PoolInv, NEW v \in Worker, pc[v] = "take"
    PROVE  /\ index[v] \in Worker
           /\ TakenFrom(index[v])
           /\ Base(index[v]) = tail[index[v]] - 1
           /\ Base(index[v]) \in Base(index[v])..(Above(index[v]) - 1)
           /\ \A u \in Worker : pc[u] = "take" /\ index[u] = index[v] => u = v
<1>1. PICK x \in Worker : x = index[v]
  BY DEF PoolInv, Typed, TypeOK, Thread
<1>2. TakenFrom(x)
  BY <1>1 DEF TakenFrom
<1>3. ASSUME NEW u \in Worker, pc[u] \in {"take", "check", "restore"},
             index[u] = x
      PROVE  u = v
  <2>1. Holds(u, x) /\ Holds(v, x)
    BY <1>1, <1>3 DEF Holds, HoldsAt, ThiefHolds
  <2> QED
    BY <2>1 DEF PoolInv, LockInv
<1>4. ~StolenFrom(x)
  BY <1>3 DEF StolenFrom
<1>5. Base(x) = tail[x] - 1 /\ Below(x) = tail[x] /\ Below(x) <= Above(x)
  BY <1>2, <1>4 DEF Base, Below, PoolInv, RingInv, RingOK
<1>6. Base(x) \in Base(x)..(Above(x) - 1)
  BY <1>5, Bounds DEF PoolInv
<1> QED
  BY <1>1, <1>2, <1>3, <1>5, <1>6

SlotsKept(u) ==
    /\ Base(u)' = Base(u)
    /\ \A p \in Base(u)..(Above(u) - 1) : NewSlot(u, p) = Slot(u, p)

LEMMA SameSlots ==
    ASSUME NEW u, Same(u)
    PROVE  SlotsKept(u)
BY DEF Same, SlotsKept, Slot, NewSlot

LEMMA HandKept ==
    ASSUME PoolInv, PoolInv', NEW t \in Thread, NEW stage, NEW j \in Worker,
           Moves(t, stage, j),
           \A u \in Worker :
              SlotsKept(u) \/ (t \in Worker /\ pc[t] = "take" /\ index[t] = u),
           NEW v \in Worker, v # t, got'[v] = got[v]
    PROVE  HandOf(v)' = HandOf(v)
<1>1. pc'[v] = pc[v] /\ index'[v] = index[v]
  BY DEF PoolInv, Typed, TypeOK, Moves, Thread
<1>2. CASE pc[v] # "take"
  BY <1>1, <1>2 DEF HandOf
<1>3. CASE pc[v] = "take"
  <2>1. PICK x \in Worker : x = index[v]
    BY <1>3, TakeAt
  <2>2. /\ Base(x) = tail[x] - 1
        /\ Base(x) \in Base(x)..(Above(x) - 1)
        /\ ~(t \in Worker /\ pc[t] = "take" /\ index[t] = x)
    BY <1>3, <2>1, TakeAt
  <2>3. SlotsKept(x)
    BY <2>2
  <2>4. Base(x)' = tail'[x] - 1
    <3>1. TakenFrom(x)'
      BY <1>1, <1>3, <2>1 DEF TakenFrom
    <3> QED
      BY <3>1 DEF Base
  <2>5. HandOf(v) = Slot(x, tail[x] - 1)
    BY <1>3, <2>1 DEF HandOf
  <2>6. HandOf(v)' = NewSlot(x, tail'[x] - 1)
    BY <1>1, <1>3, <2>1 DEF HandOf, Slot, NewSlot
  <2>7. NewSlot(x, Base(x)) = Slot(x, Base(x))
    BY <2>2, <2>3 DEF SlotsKept
  <2>8. tail'[x] - 1 = Base(x)
    BY <2>3, <2>4 DEF SlotsKept
  <2> QED
    BY <2>2, <2>5, <2>6, <2>7, <2>8
<1> QED
  BY <1>2, <1>3

LEMMA SameDeque ==
    ASSUME PoolInv, PoolInv', \A u \in Worker : Same(u)
    PROVE  Deque' = Deque
BY SameContents DEF Deque

(***************************************************************************)
(* A step that leaves every ring as it is, and what the thread holds.      *)
(***************************************************************************)
LEMMA Stutter ==
    ASSUME PoolInv, PoolInv', NEW t \in Thread, NEW stage, NEW j \in Worker,
           Moves(t, stage, j), \A u \in Worker : Same(u),
           t \in Worker => stage # "take" /\ pc[t] # "take",
           got' = got, resumed' = resumed, ready' = ready,
           arrivals' = arrivals
    PROVE  UNCHANGED PoolView
<1>1. Deque' = Deque
  BY SameDeque
<1>2. ASSUME NEW v \in Worker
      PROVE  HandOf(v)' = HandOf(v)
  <2>1. CASE v = t
    <3>1. pc'[v] = stage
      BY <2>1 DEF Moves, PoolInv, Typed, TypeOK
    <3> QED
      BY <2>1, <3>1 DEF HandOf
  <2>2. CASE v # t
    BY <2>2, SameSlots, HandKept
  <2> QED
    BY <2>1, <2>2
<1>3. Hand' = Hand
  BY <1>2 DEF Hand
<1> QED
  BY <1>1, <1>3 DEF PoolView, Inbox, Done

(***************************************************************************)
(* A step that changes what its thread holds, and one ring at most.        *)
(***************************************************************************)
LEMMA HandTaken ==
    ASSUME PoolInv, PoolInv', NEW t \in Worker, NEW stage, NEW j \in Worker,
           Moves(t, stage, j),
           \A u \in Worker : SlotsKept(u),
           \A v \in Worker \ {t} : got'[v] = got[v]
    PROVE  Hand' = [Hand EXCEPT ![t] = HandOf(t)']
<1>1. ASSUME NEW v \in Worker \ {t}
      PROVE  HandOf(v)' = HandOf(v)
  BY HandKept DEF Thread
<1> QED
  BY <1>1 DEF Hand

LEMMA OneDeque ==
    ASSUME PoolInv, PoolInv', NEW v \in Worker,
           \A u \in Worker \ {v} : Same(u)
    PROVE  Deque' = [Deque EXCEPT ![v] = RingContents(v)']
<1>1. \A u \in Worker \ {v} : RingContents(u)' = RingContents(u)
  BY SameContents
<1> QED
  BY <1>1 DEF Deque

-----------------------------------------------------------------------------

LEMMA SimPop ==
    ASSUME PoolInv, PoolInv', NEW w \in Worker, Pop(w)
    PROVE  UNCHANGED PoolView \/ LatestTaken(w)
<1>1. w \in Thread /\ index[w] \in Worker
  BY DEF Thread, PoolInv, Typed, TypeOK
<1>2. index' = [index EXCEPT ![w] = index[w]]
  BY DEF Pop, PopLook, PopClaim, PopTake, PopRace, PopLock, PopWins,
     PopLoses, localVars, PoolInv, Typed, TypeOK
<1>3. /\ ready' = ready /\ arrivals' = arrivals /\ resumed' = resumed
      /\ pc[w] \notin {"take", "resume"}
  BY DEF Pop, PopLook, PopClaim, PopTake, PopRace, PopLock, PopWins,
     PopLoses, elsewhere, listVars, localVars, Step
<1>4. CASE ~(PopTake(w) \/ PopWins(w))
  <2>1. PICK stage \in {"remote", "claim", "confirm", "lock", "settle"} :
          /\ Moves(w, stage, index[w])
          /\ stage = "claim" => pc[w] = "pop"
          /\ stage \in {"lock", "settle"} => pc[w] \in {"confirm", "lock"}
          /\ ~PopClaim(w) /\ ~PopLoses(w) =>
                (stage \in {"confirm", "lock", "settle"} <=> Claiming(w))
    BY <1>2, <1>4 DEF Pop, PopLook, PopClaim, PopRace, PopLock, PopLoses,
       Step, Goto, Moves, Claiming
  <2>2. got' = got
    BY <1>4 DEF Pop, PopLook, PopClaim, PopRace, PopLock, PopLoses, localVars
  <2>3. \A u \in Worker : Same(u)
    <3>1. CASE PopClaim(w) \/ PopLoses(w)
      BY <3>1, ClaimEffect, LoseEffect DEF PoolInv
    <3>2. CASE ~PopClaim(w) /\ ~PopLoses(w)
      <4>1. head' = head /\ tail' = tail /\ mask' = mask /\ ring' = ring
        BY <1>4, <3>2 DEF Pop, PopLook, PopRace, PopLock, ringVars, slots
      <4>2. pc[w] \notin {"check", "restore", "take"}
        BY DEF Pop, PopLook, PopClaim, PopTake, PopRace, PopLock, PopWins,
           PopLoses, Step
      <4> QED
        BY <1>1, <2>1, <3>2, <4>1, <4>2, RingQuiet
    <3> QED
      BY <3>1, <3>2
  <2> QED
    BY <1>1, <1>3, <2>1, <2>2, <2>3, Stutter
<1>5. CASE PopTake(w) \/ PopWins(w)
  <2>1. Takes(w) /\ \A u \in Worker \ {w} : Same(u)
    BY <1>5, TakeEffect DEF PoolInv
  <2>2. Moves(w, "resume", index[w])
    BY <1>2, <1>5 DEF PopTake, PopWins, Step, Goto, Moves
  <2>3. got \in [Worker -> Operation \cup {None}]
    BY DEF PoolInv, Typed, TypeOK
  <2>4. SlotsKept(w)
    BY <2>1 DEF Takes, SlotsKept, Slot, NewSlot
  <2>5. \A v \in Worker \ {w} : got'[v] = got[v]
    BY <2>1, <2>3 DEF Takes
  <2>6. Hand' = [Hand EXCEPT ![w] = HandOf(w)']
    BY <1>1, <2>1, <2>2, <2>4, <2>5, SameSlots, HandTaken
  <2>7. HandOf(w)' = Slot(w, head[w])
    <3>1. pc'[w] = "resume"
      BY <1>1, <2>2 DEF Moves, PoolInv, Typed, TypeOK
    <3>2. got'[w] = Slot(w, head[w])
      BY <2>1, <2>3 DEF Takes
    <3> QED
      BY <3>1, <3>2 DEF HandOf
  <2>8. Hand[w] = None
    BY <1>3 DEF Hand, HandOf, PoolInv, StageInv
  <2>9. Deque' = [Deque EXCEPT ![w] = RingContents(w)']
    BY <2>1, OneDeque
  <2>10. /\ RingContents(w) # <<>>
         /\ Last(RingContents(w)) = Slot(w, head[w])
         /\ RingContents(w)' = Front(RingContents(w))
    BY <2>1, TakesContents
  <2>11. Deque[w] = RingContents(w)
    BY DEF Deque
  <2>12. UNCHANGED <<Inbox, Done>>
    BY <1>3 DEF Inbox, Done
  <2> QED
    BY <2>6, <2>7, <2>8, <2>9, <2>10, <2>11, <2>12 DEF LatestTaken
<1> QED
  BY <1>4, <1>5

-----------------------------------------------------------------------------
(***************************************************************************)
(* The common list is a queue: what is put in front of the list that       *)
(* queue_tail points to comes out last.                                    *)
(***************************************************************************)
LEMMA Reversal ==
    ASSUME NEW S, NEW s \in Seq(S)
    PROVE  /\ Reverse(s) \in Seq(S)
           /\ Len(Reverse(s)) = Len(s)
           /\ \A i \in 1..Len(s) : Reverse(s)[i] = s[Len(s) - i + 1]
BY DEF Reverse

LEMMA ConcatTail ==
    ASSUME NEW S, NEW r \in Seq(S), NEW q \in Seq(S), r # <<>>
    PROVE  /\ r \o q # <<>>
           /\ Head(r \o q) = Head(r)
           /\ Tail(r \o q) = Tail(r) \o q
<1>1. PICK c \in Seq(S), t \in Seq(S), m \in Nat, n \in Nat :
        c = r \o q /\ t = Tail(r) /\ m = Len(r) /\ n = Len(q)
  <2>1. r \o q \in Seq(S)
    BY ConcatProperties
  <2>2. Tail(r) \in Seq(S) /\ Len(r) \in Nat /\ Len(q) \in Nat
    BY HeadTailProperties, LenProperties
  <2> QED
    BY <2>1, <2>2
<1>2. /\ Len(c) = m + n
      /\ \A i \in 1..(m + n) : c[i] = IF i <= m THEN r[i] ELSE q[i - m]
      /\ m > 0
  BY <1>1, ConcatProperties
<1>3. /\ Len(t) = m - 1
      /\ \A i \in 1..(m - 1) : t[i] = r[i + 1]
  BY <1>1, HeadTailProperties
<1>4. c # <<>>
  BY <1>2
<1>5. PICK d \in Seq(S), e \in Seq(S) : d = Tail(c) /\ e = t \o q
  BY <1>1, <1>4, HeadTailProperties, ConcatProperties
<1>6. Len(d) = m + n - 1 /\ \A i \in 1..(m + n - 1) : d[i] = c[i + 1]
  <2>1. Len(d) = Len(c) - 1 /\ \A i \in 1..Len(d) : d[i] = c[i + 1]
    BY <1>4, <1>5, HeadTailProperties
  <2> QED
    BY <1>1, <1>2, <2>1
<1>7. /\ Len(e) = m - 1 + n
      /\ \A i \in 1..(m - 1 + n) :
            e[i] = IF i <= m - 1 THEN t[i] ELSE q[i - (m - 1)]
  <2>1. /\ Len(e) = Len(t) + Len(q)
        /\ \A i \in 1..(Len(t) + Len(q)) :
            e[i] = IF i <= Len(t) THEN t[i] ELSE q[i - Len(t)]
    BY <1>5, ConcatProperties
  <2> QED
    BY <1>1, <1>3, <2>1
<1>8. ASSUME NEW i \in 1..(m + n - 1)
      PROVE  d[i] = e[i]
  <2>1. i + 1 \in 1..(m + n) /\ i \in 1..(m - 1 + n)
    BY <1>2
  <2>2. CASE i <= m - 1
    <3>1. i \in 1..(m - 1) /\ i + 1 <= m
      BY <1>2, <2>2
    <3>2. d[i] = r[i + 1]
      BY <1>2, <1>6, <2>1, <3>1
    <3> QED
      BY <1>3, <1>7, <2>1, <3>1, <3>2
  <2>3. CASE i > m - 1
    <3>1. ~(i + 1 <= m) /\ ~(i <= m - 1) /\ i + 1 - m = i - (m - 1)
      BY <2>3
    <3>2. d[i] = q[i + 1 - m]
      BY <1>2, <1>6, <2>1, <3>1
    <3>3. e[i] = q[i - (m - 1)]
      BY <1>7, <2>1, <3>1
    <3> QED
      BY <3>1, <3>2, <3>3
  <2> QED
    BY <1>1, <2>2, <2>3
<1>9. d = e
  <2>1. Len(d) = Len(e) /\ \A i \in 1..Len(d) : d[i] = e[i]
    BY <1>6, <1>7, <1>8
  <2> QED
    BY <2>1, SeqEqual
<1>10. Head(c) = Head(r)
  <2>1. Head(c) = c[1] /\ Head(r) = r[1]
    BY <1>1, <1>4
  <2>2. 1 \in 1..(m + n) /\ 1 <= m
    BY <1>2
  <2> QED
    BY <1>2, <2>1, <2>2
<1> QED
  BY <1>1, <1>4, <1>5, <1>9, <1>10

LEMMA NewestLast ==
    ASSUME NEW S, NEW r \in Seq(S), NEW a \in Seq(S), NEW o \in S
    PROVE  r \o Reverse(<<o>> \o a) = Append(r \o Reverse(a), o)
<1>1. PICK b \in Seq(S), m \in Nat, n \in Nat :
        b = <<o>> \o a /\ m = Len(r) /\ n = Len(a)
  <2>1. <<o>> \in Seq(S) /\ Len(r) \in Nat /\ Len(a) \in Nat
    BY LenProperties
  <2>2. <<o>> \o a \in Seq(S)
    BY <2>1, ConcatProperties
  <2> QED
    BY <2>1, <2>2
<1>2. /\ Len(b) = n + 1 /\ b[1] = o
      /\ \A i \in 1..(n + 1) : b[i] = IF i <= 1 THEN o ELSE a[i - 1]
  <2>1. <<o>> \in Seq(S) /\ Len(<<o>>) = 1 /\ <<o>>[1] = o
    OBVIOUS
  <2>2. /\ Len(b) = 1 + n
        /\ \A i \in 1..(1 + n) : b[i] = IF i <= 1 THEN <<o>>[i] ELSE a[i - 1]
    BY <1>1, <2>1, ConcatProperties
  <2>3. \A i \in 1..(n + 1) : b[i] = IF i <= 1 THEN o ELSE a[i - 1]
    BY <2>1, <2>2
  <2> QED
    BY <2>2, <2>3
<1>3. PICK p \in Seq(S), q \in Seq(S) : p = Reverse(a) /\ q = Reverse(b)
  BY Reversal
<1>4. /\ Len(p) = n
      /\ \A i \in 1..n : p[i] = a[n - i + 1]
  BY <1>1, <1>3, Reversal
<1>5. /\ Len(q) = n + 1
      /\ \A i \in 1..(n + 1) : q[i] = b[n + 1 - i + 1]
  <2>1. /\ Len(q) = Len(b)
        /\ \A i \in 1..Len(b) : q[i] = b[Len(b) - i + 1]
    BY <1>3, Reversal
  <2> QED
    BY <1>2, <2>1
<1>6. /\ \A i \in 1..n : q[i] = p[i]
      /\ q[n + 1] = o
  <2>1. ASSUME NEW i \in 1..n
        PROVE  q[i] = p[i]
    <3>1. n + 1 - i + 1 \in 1..(n + 1) /\ ~(n + 1 - i + 1 <= 1)
          /\ n + 1 - i + 1 - 1 = n - i + 1 /\ i \in 1..(n + 1)
      OBVIOUS
    <3>2. q[i] = b[n + 1 - i + 1]
      BY <1>5, <3>1
    <3>3. b[n + 1 - i + 1] = a[n + 1 - i + 1 - 1]
      BY <1>2, <3>1
    <3> QED
      BY <1>4, <3>1, <3>2, <3>3
  <2>2. q[n + 1] = b[1]
    <3>1. n + 1 \in 1..(n + 1) /\ n + 1 - (n + 1) + 1 = 1
      OBVIOUS
    <3> QED
      BY <1>5, <3>1
  <2> QED
    BY <1>2, <2>1, <2>2
<1>7. PICK c \in Seq(S), d \in Seq(S) : c = r \o p /\ d = r \o q
  BY ConcatProperties
<1>8. /\ Len(c) = m + n
      /\ \A i \in 1..(m + n) : c[i] = IF i <= m THEN r[i] ELSE p[i - m]
  <2>1. /\ Len(c) = Len(r) + Len(p)
        /\ \A i \in 1..(Len(r) + Len(p)) :
              c[i] = IF i <= Len(r) THEN r[i] ELSE p[i - Len(r)]
    BY <1>7, ConcatProperties
  <2> QED
    BY <1>1, <1>4, <2>1
<1>9. /\ Len(d) = m + n + 1
      /\ \A i \in 1..(m + n + 1) : d[i] = IF i <= m THEN r[i] ELSE q[i - m]
  <2>1. /\ Len(d) = m + (n + 1)
        /\ \A i \in 1..(m + (n + 1)) : d[i] = IF i <= m THEN r[i] ELSE q[i - m]
    <3>1. /\ Len(d) = Len(r) + Len(q)
          /\ \A i \in 1..(Len(r) + Len(q)) :
                d[i] = IF i <= Len(r) THEN r[i] ELSE q[i - Len(r)]
      BY <1>7, ConcatProperties
    <3> QED
      BY <1>1, <1>5, <3>1
  <2>2. m + (n + 1) = m + n + 1
    OBVIOUS
  <2> QED
    BY <2>1, <2>2
<1>10. PICK e \in Seq(S) : e = Append(c, o)
  BY AppendProperties
<1>11. Len(e) = m + n + 1 /\ e[m + n + 1] = o /\ \A i \in 1..(m + n) : e[i] = c[i]
  <2>1. /\ Len(Append(c, o)) = Len(c) + 1
        /\ Append(c, o)[Len(c) + 1] = o
        /\ \A i \in 1..Len(c) : Append(c, o)[i] = c[i]
    BY AppendProperties
  <2> QED
    BY <1>8, <1>10, <2>1
<1>12. ASSUME NEW i \in 1..(m + n + 1)
       PROVE  d[i] = e[i]
  <2>1. CASE i = m + n + 1
    <3>1. ~(i <= m) /\ i - m = n + 1
      BY <2>1
    <3> QED
      BY <1>6, <1>9, <1>11, <2>1, <3>1
  <2>2. CASE i \in 1..(m + n) /\ i <= m
    BY <1>8, <1>9, <1>11, <2>2
  <2>3. CASE i \in 1..(m + n) /\ ~(i <= m)
    <3>1. i - m \in 1..n
      BY <2>3
    <3>2. d[i] = q[i - m] /\ c[i] = p[i - m]
      BY <1>8, <1>9, <2>3
    <3> QED
      BY <1>6, <1>11, <2>3, <3>1, <3>2
  <2> QED
    BY <2>1, <2>2, <2>3
<1>13. d = e
  BY <1>9, <1>11, <1>12, SeqEqual
<1> QED
  BY <1>1, <1>3, <1>7, <1>10, <1>13

LEMMA InboxType ==
    ASSUME Typed
    PROVE  Inbox \in Seq(Operation)
BY Reversal, ConcatProperties DEF Typed, TypeOK, Inbox

LEMMA FirstTaken ==
    ASSUME Typed, NEW list,
           list = IF ready = <<>> THEN Reverse(arrivals) ELSE ready,
           list # <<>>, ready' = Tail(list),
           arrivals' = IF ready = <<>> THEN <<>> ELSE arrivals
    PROVE  /\ Inbox # <<>>
           /\ Head(Inbox) = Head(list)
           /\ Inbox' = Tail(Inbox)
<1>1. /\ ready \in Seq(Operation) /\ arrivals \in Seq(Operation)
      /\ Reverse(arrivals) \in Seq(Operation)
  BY Reversal DEF Typed, TypeOK
<1>2. CASE ready = <<>>
  <2>1. list \in Seq(Operation) /\ Tail(list) \in Seq(Operation)
    BY <1>1, <1>2, HeadTailProperties
  <2>2. Inbox = list
    BY <1>1, <1>2, ConcatEmptySeq DEF Inbox
  <2>3. Reverse(arrivals') = <<>>
    BY <1>2 DEF Reverse
  <2>4. Inbox' = Tail(list)
    BY <2>1, <2>3, ConcatEmptySeq DEF Inbox
  <2> QED
    BY <2>2, <2>4
<1>3. CASE ready # <<>>
  BY <1>1, <1>3, ConcatTail DEF Inbox
<1> QED
  BY <1>2, <1>3

-----------------------------------------------------------------------------

LEMMA SimTakeRemote ==
    ASSUME PoolInv, PoolInv', NEW w \in Worker, TakeRemote(w)
    PROVE  UNCHANGED PoolView \/ OldestTaken(w)
<1>1. \A u \in Worker : Same(u)
  BY RingTakeRemote
<1>2. PICK stage \in {"idle", "resume", "steal"}, j \in Worker :
        Moves(w, stage, j)
  BY TakeRemoteMoves
<1>3. pc[w] = "remote" /\ w \in Thread
  BY TakeRemoteMoves DEF Thread
<1>4. CASE ~GetRemote(w)
  <2>1. /\ got' = got /\ resumed' = resumed
        /\ ready' = ready /\ arrivals' = arrivals
    BY <1>4 DEF TakeRemote, GetRemoteUnpublished, GetRemoteNothing,
       elsewhere, listVars, localVars
  <2> QED
    BY <1>1, <1>2, <1>3, <2>1, Stutter
<1>5. CASE GetRemote(w)
  <2>1. PICK list : list = IF ready = <<>> THEN Reverse(arrivals) ELSE ready
    OBVIOUS
  <2>2. /\ list # <<>>
        /\ got' = [got EXCEPT ![w] = Head(list)]
        /\ ready' = Tail(list)
        /\ arrivals' = IF ready = <<>> THEN <<>> ELSE arrivals
        /\ resumed' = resumed
        /\ pc' = [pc EXCEPT ![w] = "resume"]
    BY <1>5, <2>1 DEF GetRemote, Reversed, Step, Goto
  <2>3. /\ Inbox # <<>>
        /\ Head(Inbox) = Head(list)
        /\ Inbox' = Tail(Inbox)
    BY <2>1, <2>2, FirstTaken DEF PoolInv
  <2>4. got \in [Worker -> Operation \cup {None}]
    BY DEF PoolInv, Typed, TypeOK
  <2>5. \A v \in Worker \ {w} : got'[v] = got[v]
    BY <2>2, <2>4
  <2>6. Hand' = [Hand EXCEPT ![w] = HandOf(w)']
    BY <1>1, <1>2, <2>5, SameSlots, HandTaken
  <2>7. HandOf(w)' = Head(Inbox)
    <3>1. pc'[w] = "resume"
      BY <1>3, <2>2 DEF PoolInv, Typed, TypeOK
    <3>2. got'[w] = Head(list)
      BY <2>2, <2>4
    <3> QED
      BY <2>3, <3>1, <3>2 DEF HandOf
  <2>8. Hand[w] = None
    BY <1>3 DEF Hand, HandOf, PoolInv, StageInv
  <2>9. Deque' = Deque
    BY <1>1, SameDeque
  <2>10. Done' = Done
    BY <2>2 DEF Done
  <2> QED
    BY <2>3, <2>6, <2>7, <2>8, <2>9, <2>10 DEF OldestTaken
<1> QED
  BY <1>4, <1>5

-----------------------------------------------------------------------------
(***************************************************************************)
(* A thief takes its operation where queue_tail, which it has raised, is   *)
(* still below queue_head; until then and from then on nothing changes.    *)
(***************************************************************************)
LEMMA SimStealAside ==
    ASSUME PoolInv, PoolInv', NEW w \in Worker, Steal(w), ~StealCheck(w),
           ~StealTake(w)
    PROVE  UNCHANGED PoolView
<1>1. \A u \in Worker : Same(u)
  BY RingSteal
<1>2. attempt[w] \in {"try", "retry", "lock"} /\ w \in Thread
  BY DEF PoolInv, Typed, TypeOK, Thread
<1>3. PICK stage \in {"steal", "idle", "look", "advance", "check"}, j \in Worker :
        Moves(w, stage, j)
  <2>1. CASE StealLock(w) \/ StealLook(w) \/ StealAdvance(w)
    <3>1. index' = [index EXCEPT ![w] = index[w]] /\ index[w] \in Worker
      BY <1>2, <2>1 DEF StealLock, StealLook, StealAdvance, localVars, PoolInv,
         Typed, TypeOK
    <3> QED
      BY <2>1, <3>1 DEF StealLock, StealLook, StealAdvance, Step, Goto,
         Moves
  <2>2. CASE StealUnavailable(w) \/ StealNothing(w) \/ StealRestore(w)
    <3>1. pc[w] \in Stealing
      BY <2>2 DEF StealUnavailable, StealNothing, StealRestore, Stealing,
         ThiefHolds
    <3>2. PICK how \in {"try", "retry", "lock"} : Onward(w, index[w], how)
      BY <1>2, <2>2 DEF StealUnavailable, StealNothing, StealRestore
    <3>3. PICK stage \in {"steal", "idle"}, j \in Worker,
               a \in {"try", "retry", "lock"} :
              /\ pc' = [pc EXCEPT ![w] = stage]
              /\ index' = [index EXCEPT ![w] = j]
              /\ attempt' = [attempt EXCEPT ![w] = a]
      BY <3>1, <3>2, StealOnward
    <3> QED
      BY <3>3 DEF Moves
  <2> QED
    BY <2>1, <2>2 DEF Steal
<1>4. /\ got' = got /\ resumed' = resumed
      /\ ready' = ready /\ arrivals' = arrivals
      /\ pc[w] # "take"
  BY DEF Steal, StealLock, StealUnavailable, StealLook, StealNothing,
     StealAdvance, StealRestore, elsewhere, listVars, localVars, Step
<1> QED
  BY <1>1, <1>2, <1>3, <1>4, Stutter

LEMMA SimCheck ==
    ASSUME PoolInv, PoolInv', NEW w \in Worker, StealCheck(w)
    PROVE  UNCHANGED PoolView \/ \E v \in Worker \ {w} : Stolen(w, v)
<1>1. PICK v \in Worker : v = index[w] /\ v # w
  BY DEF PoolInv, Typed, TypeOK, Thread, StageInv, StealCheck,
     Step, Stealing, ThiefHolds
<1>2. PICK stage \in {"take", "restore"} :
        /\ Moves(w, stage, v)
        /\ stage = IF Secured(v) THEN "take" ELSE "restore"
  <2>1. index' = [index EXCEPT ![w] = v]
    BY <1>1 DEF StealCheck, localVars, PoolInv, Typed, TypeOK, Thread
  <2> QED
    BY <1>1, <2>1 DEF StealCheck, Step, Goto, Moves
<1>3. /\ got' = got /\ resumed' = resumed
      /\ ready' = ready /\ arrivals' = arrivals
      /\ pc[w] = "check" /\ w \in Thread
      /\ tail' = tail /\ mask' = mask /\ ring' = ring
  BY DEF StealCheck, elsewhere, listVars, localVars, ringVars, slots, Step,
     Thread
<1>4. CASE ~Secured(v)
  <2>1. \A u \in Worker : Same(u)
    BY <1>1, <1>4, CheckEffect DEF PoolInv
  <2> QED
    BY <1>2, <1>3, <1>4, <2>1, Stutter
<1>5. CASE Secured(v)
  <2>1. Secures(v) /\ \A u \in Worker \ {v} : Same(u)
    BY <1>1, <1>5, CheckEffect DEF PoolInv
  <2>2. SlotsKept(v)
    BY <2>1 DEF Secures, SlotsKept, Slot, NewSlot
  <2>3. Hand' = [Hand EXCEPT ![w] = HandOf(w)']
    BY <1>2, <1>3, <2>1, <2>2, SameSlots, HandTaken
  <2>4. HandOf(w)' = Slot(v, tail[v] - 1)
    <3>1. pc'[w] = "take" /\ index'[w] = v
      BY <1>2, <1>3, <1>5 DEF Moves, PoolInv, Typed, TypeOK
    <3> QED
      BY <1>3, <3>1 DEF HandOf, Slot
  <2>5. Hand[w] = None
    BY <1>3 DEF Hand, HandOf, PoolInv, StageInv
  <2>6. Deque' = [Deque EXCEPT ![v] = RingContents(v)']
    BY <2>1, OneDeque
  <2>7. /\ RingContents(v) # <<>>
        /\ Head(RingContents(v)) = Slot(v, tail[v] - 1)
        /\ RingContents(v)' = Tail(RingContents(v))
    BY <2>1, SecuresContents
  <2>8. Deque[v] = RingContents(v)
    BY DEF Deque
  <2>9. UNCHANGED <<Inbox, Done>>
    BY <1>3 DEF Inbox, Done
  <2>10. Stolen(w, v)
    BY <2>3, <2>4, <2>5, <2>6, <2>7, <2>8, <2>9 DEF Stolen
  <2> QED
    BY <1>1, <2>10
<1> QED
  BY <1>4, <1>5

LEMMA SimStealTake ==
    ASSUME PoolInv, PoolInv', NEW w \in Worker, StealTake(w)
    PROVE  UNCHANGED PoolView
<1>1. PICK v \in Worker : v = index[w] /\ v # w
  BY DEF PoolInv, Typed, TypeOK, Thread, StageInv, StealTake,
     Step, Stealing, ThiefHolds
<1>2. 0 \in Worker /\ w \in Thread
  BY PoolAssumption DEF Worker, Thread
<1>3. Moves(w, "resume", 0) /\ pc[w] = "take"
  BY DEF StealTake, Step, Goto, Moves
<1>4. /\ resumed' = resumed /\ ready' = ready /\ arrivals' = arrivals
  BY DEF StealTake, elsewhere, listVars
<1>5. /\ Leaves(v)
      /\ \A u \in Worker \ {v} : Same(u)
      /\ got' = [got EXCEPT ![w] = Slot(v, tail[v] - 1)]
  BY <1>1, StealTakeEffect DEF PoolInv
<1>6. got \in [Worker -> Operation \cup {None}]
  BY DEF PoolInv, Typed, TypeOK
<1>7. ASSUME NEW u \in Worker
      PROVE  HandOf(u)' = HandOf(u)
  <2>1. CASE u = w
    <3>1. pc'[w] = "resume"
      BY <1>2, <1>3 DEF Moves, PoolInv, Typed, TypeOK
    <3>2. got'[w] = Slot(v, tail[v] - 1)
      BY <1>5, <1>6
    <3> QED
      BY <1>1, <1>3, <2>1, <3>1, <3>2 DEF HandOf
  <2>2. CASE u # w
    <3>1. got'[u] = got[u]
      BY <1>5, <1>6, <2>2
    <3>2. \A x \in Worker :
            SlotsKept(x) \/ (pc[w] = "take" /\ index[w] = x)
      BY <1>1, <1>3, <1>5, SameSlots
    <3> QED
      BY <1>2, <1>3, <2>2, <3>1, <3>2, HandKept
  <2> QED
    BY <2>1, <2>2
<1>8. Hand' = Hand
  BY <1>7 DEF Hand
<1>9. Deque' = Deque
  BY <1>5, SameContents, LeavesContents DEF Deque
<1> QED
  BY <1>4, <1>8, <1>9 DEF PoolView, Inbox, Done

LEMMA SimSteal ==
    ASSUME PoolInv, PoolInv', NEW w \in Worker, Steal(w)
    PROVE  UNCHANGED PoolView \/ \E v \in Worker \ {w} : Stolen(w, v)
BY SimStealAside, SimCheck, SimStealTake

-----------------------------------------------------------------------------

LEMMA SimRun ==
    ASSUME PoolInv, PoolInv', NEW w \in Worker, Run(w)
    PROVE  UNCHANGED PoolView \/ Resumption(w)
<1>1. \A u \in Worker : Same(u)
  BY RingRun
<1>2. PICK stage \in {"run", "pop", "wait"} : Moves(w, stage, index[w])
  BY DEF Run, Resume, ResumeReturns, NotifyIntentToSleep, SleepUntilWoken,
     Step, Goto, Moves, localVars, PoolInv, Typed, TypeOK
<1>3. /\ ready' = ready /\ arrivals' = arrivals
      /\ pc[w] # "take" /\ w \in Thread /\ index[w] \in Worker
  BY DEF Run, Resume, ResumeReturns, NotifyIntentToSleep, SleepUntilWoken,
     Step, elsewhere, listVars, Thread, PoolInv, Typed, TypeOK
<1>4. CASE ~Resume(w)
  <2>1. got' = got /\ resumed' = resumed
    BY <1>4 DEF Run, ResumeReturns, NotifyIntentToSleep, SleepUntilWoken,
       localVars
  <2> QED
    BY <1>1, <1>2, <1>3, <2>1, Stutter
<1>5. CASE Resume(w)
  <2>1. /\ got' = [got EXCEPT ![w] = None]
        /\ resumed' = [resumed EXCEPT ![got[w]] = @ + 1]
        /\ pc[w] = "resume"
    BY <1>5 DEF Resume, Step
  <2>2. PICK o \in Operation : o = got[w] /\ o # None
    BY <2>1 DEF PoolInv, StageInv, Typed, TypeOK
  <2>3. /\ got \in [Worker -> Operation \cup {None}]
        /\ resumed \in [Operation -> Nat]
    BY DEF PoolInv, Typed, TypeOK
  <2>4. \A v \in Worker \ {w} : got'[v] = got[v]
    BY <2>1, <2>3
  <2>5. Hand' = [Hand EXCEPT ![w] = HandOf(w)']
    BY <1>1, <1>2, <1>3, <2>4, SameSlots, HandTaken
  <2>6. HandOf(w)' = None
    <3>1. pc'[w] = stage
      BY <1>2, <1>3 DEF Moves, PoolInv, Typed, TypeOK
    <3>2. got'[w] = None
      BY <2>1, <2>3
    <3> QED
      BY <3>1, <3>2 DEF HandOf
  <2>7. Hand[w] = o
    BY <2>1, <2>2 DEF Hand, HandOf
  <2>8. Deque' = Deque
    BY <1>1, SameDeque
  <2>9. Done' = Done \cup {o}
    <3>1. ASSUME NEW p \in Operation
          PROVE  resumed'[p] = IF p = o THEN resumed[p] + 1 ELSE resumed[p]
      BY <2>1, <2>2, <2>3
    <3>2. \A p \in Operation : resumed'[p] > 0 <=> resumed[p] > 0 \/ p = o
      BY <2>3, <3>1
    <3> QED
      BY <3>2 DEF Done
  <2>10. Inbox' = Inbox
    BY <1>3 DEF Inbox
  <2> QED
    BY <2>2, <2>5, <2>6, <2>7, <2>8, <2>9, <2>10 DEF Resumption
<1> QED
  BY <1>4, <1>5

LEMMA SimLocalEnqueue ==
    ASSUME PoolInv, PoolInv', NEW w \in Worker, LocalEnqueue(w)
    PROVE  \/ UNCHANGED PoolView
           \/ /\ EnqueuePut(w) \/ EnqueueCopy(w)
              /\ Kept(w, Head(todo[w]))
<1>1. w \in Thread /\ index[w] \in Worker
  BY DEF Thread, PoolInv, Typed, TypeOK
<1>2. /\ ready' = ready /\ arrivals' = arrivals /\ got' = got
      /\ resumed' = resumed /\ pc[w] \in {"run", "full", "put", "copy"}
  BY DEF LocalEnqueue, EnqueueLook, EnqueuePut, EnqueueGrow, EnqueueFails,
     EnqueueCopy, elsewhere, listVars, localVars, Step
<1>3. PICK stage \in {"put", "full", "copy", "load", "wake"} :
        Moves(w, stage, index[w])
  BY DEF LocalEnqueue, EnqueueLook, EnqueuePut, EnqueueGrow, EnqueueFails,
     EnqueueCopy, Step, Goto, Moves, localVars, PoolInv, Typed, TypeOK
<1>4. CASE ~(EnqueuePut(w) \/ EnqueueCopy(w))
  <2>1. \A u \in Worker : Same(u)
    BY <1>4, RingLocalEnqueue DEF LocalEnqueue
  <2> QED
    BY <1>1, <1>2, <1>3, <2>1, Stutter
<1>5. CASE EnqueuePut(w) \/ EnqueueCopy(w)
  <2>1. RingOK(w)
    BY DEF PoolInv, RingInv
  <2>2. Adds(w) /\ \A u \in Worker \ {w} : Same(u)
    BY <1>5, <2>1, PutEffect, CopyEffect DEF PoolInv
  <2>3. Head(todo[w]) \in Operation
    BY <1>1, <1>5, NextTodo DEF EnqueuePut, EnqueueCopy, Step, Enqueueing
  <2>4. SlotsKept(w)
    BY <2>2 DEF Adds, SlotsKept
  <2>5. Hand' = [Hand EXCEPT ![w] = HandOf(w)']
    BY <1>1, <1>2, <1>3, <2>2, <2>4, SameSlots, HandTaken
  <2>6. HandOf(w)' = HandOf(w)
    <3>1. pc'[w] = stage
      BY <1>1, <1>3 DEF Moves, PoolInv, Typed, TypeOK
    <3> QED
      BY <1>2, <3>1 DEF HandOf
  <2>7. Hand' = Hand
    BY <2>5, <2>6 DEF Hand
  <2>8. Deque' = [Deque EXCEPT ![w] = RingContents(w)']
    BY <2>2, OneDeque
  <2>9. RingContents(w)' = Append(RingContents(w), Head(todo[w]))
    BY <2>2, <2>3, AddsContents
  <2>10. Deque[w] = RingContents(w)
    BY DEF Deque
  <2>11. UNCHANGED <<Inbox, Done>>
    BY <1>2 DEF Inbox, Done
  <2>12. Kept(w, Head(todo[w]))
    BY <2>7, <2>8, <2>9, <2>10, <2>11 DEF Kept
  <2> QED
    BY <1>5, <2>12
<1> QED
  BY <1>4, <1>5

LEMMA SimRemoteEnqueue ==
    ASSUME PoolInv, PoolInv', NEW t \in Thread, RemoteEnqueue(t)
    PROVE  \/ UNCHANGED PoolView
           \/ RemotePush(t) /\ Submitted(Head(todo[t]))
<1>1. \A u \in Worker : Same(u)
  BY RingRemoteEnqueue
<1>2. PICK stage \in {"push", "wake", "run", "load"}, j \in Worker :
        Moves(t, stage, j)
  BY RemoteEnqueueMoves
<1>3. pc[t] \in {"load", "push", "wake"}
  BY RemoteEnqueueMoves
<1>4. /\ got' = got /\ resumed' = resumed /\ ready' = ready
  BY DEF RemoteEnqueue, RemoteLoad, RemoteRetry, RemotePush, WakeSkip,
     WakeOne, elsewhere, listVars
<1>5. CASE ~RemotePush(t)
  <2>1. arrivals' = arrivals
    BY <1>5 DEF RemoteEnqueue, RemoteLoad, RemoteRetry, WakeSkip, WakeOne,
       elsewhere, listVars
  <2> QED
    BY <1>1, <1>2, <1>3, <1>4, <2>1, Stutter
<1>6. CASE RemotePush(t)
  <2>1. PICK o \in Operation : o = Head(todo[t])
    BY <1>6, NextTodo DEF RemotePush, Step, Enqueueing
  <2>2. arrivals' = <<o>> \o arrivals
    BY <1>6, <2>1 DEF RemotePush
  <2>3. ready \in Seq(Operation) /\ arrivals \in Seq(Operation)
    BY DEF PoolInv, Typed, TypeOK
  <2>4. Inbox' = Append(Inbox, o)
    <3>1. ready \o Reverse(<<o>> \o arrivals)
            = Append(ready \o Reverse(arrivals), o)
      BY <2>3, NewestLast
    <3> QED
      BY <1>4, <2>2, <3>1 DEF Inbox
  <2>5. Deque' = Deque
    BY <1>1, SameDeque
  <2>6. ASSUME NEW v \in Worker
        PROVE  HandOf(v)' = HandOf(v)
    <3>1. CASE v = t
      <4>1. pc'[v] = stage
        BY <1>2, <3>1 DEF Moves, PoolInv, Typed, TypeOK
      <4> QED
        BY <1>3, <1>4, <3>1, <4>1 DEF HandOf
    <3>2. CASE v # t
      BY <1>1, <1>2, <1>4, <3>2, SameSlots, HandKept
    <3> QED
      BY <3>1, <3>2
  <2>7. Hand' = Hand
    BY <2>6 DEF Hand
  <2>8. Done' = Done
    BY <1>4 DEF Done
  <2>9. Submitted(Head(todo[t]))
    BY <2>1, <2>4, <2>5, <2>7, <2>8 DEF Submitted
  <2> QED
    BY <1>6, <2>9
<1> QED
  BY <1>5, <1>6

LEMMA SimAside ==
    ASSUME PoolInv, Publish \/ UNCHANGED vars
    PROVE  UNCHANGED PoolView
BY DEF Publish, vars, elsewhere, ringVars, listVars, sleepVars, localVars,
   PoolView, Inbox, Deque, Hand, HandOf, Done, RingContents, Claiming,
   StolenFrom, Slot

-----------------------------------------------------------------------------
(***************************************************************************)
(* An operation is in one place: in the common list, in one ring, in the   *)
(* hands of one thread or resumed, and nowhere twice.                      *)
(***************************************************************************)
Apart(I, D, H, R) ==
    /\ I \cap R = {}
    /\ \A w \in Worker : D[w] \cap I = {} /\ D[w] \cap R = {}
    /\ \A v, w \in Worker : v # w => D[v] \cap D[w] = {}
    /\ \A w \in Worker : H[w] # None => H[w] \notin I /\ H[w] \notin R
    /\ \A v, w \in Worker : H[w] # None => H[w] \notin D[v]
    /\ \A v, w \in Worker : H[w] # None /\ v # w => H[v] # H[w]

DequeSets == [w \in Worker |-> ToSet(Deque[w])]

OnePlace ==
    /\ Distinct(Inbox)
    /\ \A w \in Worker : Distinct(Deque[w])
    /\ Apart(ToSet(Inbox), DequeSets, Hand, Done)

ViewOK ==
    /\ Inbox \in Seq(Operation)
    /\ Deque \in [Worker -> Seq(Operation)]
    /\ Hand \in [Worker -> Operation \cup {None}]
    /\ Done \subseteq Operation

LEMMA ViewType ==
    ASSUME PoolInv
    PROVE  ViewOK
<1>1. Inbox \in Seq(Operation)
  BY InboxType DEF PoolInv
<1>2. Deque \in [Worker -> Seq(Operation)]
  BY Contents DEF Deque
<1>3. ASSUME NEW w \in Worker
      PROVE  HandOf(w) \in Operation \cup {None}
  <2>1. CASE pc[w] = "take"
    <3>1. PICK v \in Worker : v = index[w]
      BY <2>1, TakeAt
    <3>2. Base(v) = tail[v] - 1 /\ Base(v) \in Base(v)..(Above(v) - 1)
      BY <2>1, <3>1, TakeAt
    <3>3. Slot(v, Base(v)) \in Operation
      BY <3>2 DEF PoolInv, RingInv, RingOK
    <3> QED
      BY <2>1, <3>1, <3>2, <3>3 DEF HandOf
  <2>2. CASE pc[w] # "take"
    BY <2>2 DEF HandOf, PoolInv, Typed, TypeOK
  <2> QED
    BY <2>1, <2>2
<1>4. Hand \in [Worker -> Operation \cup {None}]
  BY <1>3 DEF Hand
<1>5. Done \subseteq Operation
  BY DEF Done
<1> QED
  BY <1>1, <1>2, <1>4, <1>5 DEF ViewOK

-----------------------------------------------------------------------------

LEMMA ApartTaken ==
    ASSUME NEW I, NEW D, NEW H, NEW R, Apart(I, D, H, R),
           NEW w \in Worker, NEW x \in I, NEW J, NEW G,
           J = I \ {x}, \A v \in Worker : G[v] = IF v = w THEN x ELSE H[v]
    PROVE  Apart(J, D, G, R)
BY DEF Apart

LEMMA ApartStolen ==
    ASSUME NEW I, NEW D, NEW H, NEW R, Apart(I, D, H, R),
           NEW w \in Worker, NEW v \in Worker, NEW x \in D[v],
           NEW E,
           \A u \in Worker :
              \A y : y \in E[u] <=> y \in D[u] /\ ~(u = v /\ y = x),
           NEW G, \A u \in Worker : G[u] = IF u = w THEN x ELSE H[u]
    PROVE  Apart(I, E, G, R)
BY DEF Apart

LEMMA ApartResumed ==
    ASSUME NEW I, NEW D, NEW H, NEW R, Apart(I, D, H, R),
           NEW w \in Worker, H[w] # None,
           NEW G, \A u \in Worker : G[u] = IF u = w THEN None ELSE H[u]
    PROVE  Apart(I, D, G, R \cup {H[w]})
BY DEF Apart

LEMMA ApartSubmitted ==
    ASSUME NEW I, NEW D, NEW H, NEW R, Apart(I, D, H, R),
           NEW x, x \notin R,
           \A v \in Worker : x \notin D[v] /\ H[v] # x
    PROVE  Apart(I \cup {x}, D, H, R)
BY DEF Apart

LEMMA ApartKept ==
    ASSUME NEW I, NEW D, NEW H, NEW R, Apart(I, D, H, R),
           NEW x, x \notin R, x \notin I,
           \A v \in Worker : x \notin D[v] /\ H[v] # x,
           NEW w \in Worker,
           NEW E, \A u \in Worker : E[u] = IF u = w THEN D[w] \cup {x} ELSE D[u]
    PROVE  Apart(I, E, H, R)
BY DEF Apart

-----------------------------------------------------------------------------
(***************************************************************************)
(* What is known, and the steps that add nothing to it.                    *)
(***************************************************************************)
LEMMA InKnown ==
    ASSUME NEW o
    PROVE  o \in Known <=> \/ o \in ToSet(Inbox)
                           \/ \E w \in Worker : o \in DequeSets[w]
                           \/ \E w \in Worker : o = Hand[w]
                           \/ o \in Done
<1>1. \A w \in Worker : DequeSets[w] = ToSet(Deque[w])
  BY DEF DequeSets
<1>2. o \in UNION {ToSet(Deque[w]) : w \in Worker}
        <=> \E w \in Worker : o \in DequeSets[w]
  BY <1>1
<1>3. o \in {Hand[w] : w \in Worker} <=> \E w \in Worker : o = Hand[w]
  OBVIOUS
<1>4. PICK A, B : /\ A = UNION {ToSet(Deque[w]) : w \in Worker}
                  /\ B = {Hand[w] : w \in Worker}
  OBVIOUS
<1>5. Known = ToSet(Inbox) \cup A \cup B \cup Done
  BY <1>4, Zenon DEF Known
<1>6. /\ o \in A <=> \E w \in Worker : o \in DequeSets[w]
      /\ o \in B <=> \E w \in Worker : o = Hand[w]
  BY <1>2, <1>3, <1>4, Zenon
<1> QED
  BY <1>5, <1>6

LEMMA InNextKnown ==
    ASSUME NEW o
    PROVE  o \in Known' <=> \/ o \in ToSet(Inbox')
                            \/ \E w \in Worker : o \in DequeSets'[w]
                            \/ \E w \in Worker : o = Hand'[w]
                            \/ o \in Done'
<1>1. \A w \in Worker : DequeSets'[w] = ToSet(Deque'[w])
  BY DEF DequeSets
<1>2. o \in UNION {ToSet(Deque'[w]) : w \in Worker}
        <=> \E w \in Worker : o \in DequeSets'[w]
  BY <1>1
<1>3. o \in {Hand'[w] : w \in Worker} <=> \E w \in Worker : o = Hand'[w]
  OBVIOUS
<1>4. PICK A, B : /\ A = UNION {ToSet(Deque'[w]) : w \in Worker}
                  /\ B = {Hand'[w] : w \in Worker}
  OBVIOUS
<1>5. Known' = ToSet(Inbox') \cup A \cup B \cup Done'
  BY <1>4, Zenon DEF Known
<1>6. /\ o \in A <=> \E w \in Worker : o \in DequeSets'[w]
      /\ o \in B <=> \E w \in Worker : o = Hand'[w]
  BY <1>2, <1>3, <1>4, Zenon
<1> QED
  BY <1>5, <1>6

LEMMA NextSets ==
    ASSUME NEW v \in Worker, NEW rest,
           \A u \in Worker : Deque'[u] = IF u = v THEN rest ELSE Deque[u],
           NEW u \in Worker
    PROVE  DequeSets'[u] = IF u = v THEN ToSet(rest) ELSE DequeSets[u]
BY DEF DequeSets

NothingNew == \A o \in Operation : o \in Known' => o \in Known

OneNew(x) == \A o \in Operation : o \in Known' => o \in Known \/ o = x

LEMMA PlaceSame ==
    ASSUME OnePlace, UNCHANGED PoolView
    PROVE  OnePlace' /\ NothingNew
BY DEF OnePlace, NothingNew, PoolView, DequeSets, Known

LEMMA PlaceOldest ==
    ASSUME OnePlace, ViewOK, NEW w \in Worker, OldestTaken(w)
    PROVE  OnePlace' /\ NothingNew
<1>1. /\ Inbox \in Seq(Operation) /\ Inbox # <<>> /\ Distinct(Inbox)
      /\ Inbox' = Tail(Inbox) /\ Deque' = Deque /\ Done' = Done
      /\ DequeSets' = DequeSets
  BY DEF OnePlace, ViewOK, OldestTaken, DequeSets
<1>2. PICK x \in ToSet(Inbox) : x = Head(Inbox)
  BY <1>1, HeadOut
<1>3. Distinct(Inbox') /\ ToSet(Inbox') = ToSet(Inbox) \ {x}
  BY <1>1, <1>2, HeadOut
<1>4. \A v \in Worker : Hand'[v] = IF v = w THEN x ELSE Hand[v]
  BY <1>2 DEF ViewOK, OldestTaken
<1>5. Apart(ToSet(Inbox'), DequeSets, Hand', Done)
  <2>1. Apart(ToSet(Inbox), DequeSets, Hand, Done)
    BY DEF OnePlace
  <2> QED
    BY <1>2, <1>3, <1>4, <2>1, ApartTaken
<1>6. OnePlace'
  BY <1>1, <1>3, <1>5 DEF OnePlace
<1>7. NothingNew
  BY <1>1, <1>2, <1>3, <1>4, InKnown, InNextKnown DEF NothingNew
<1> QED
  BY <1>6, <1>7

LEMMA PlaceOut ==
    ASSUME OnePlace, ViewOK, NEW w \in Worker, NEW v \in Worker,
           NEW x \in DequeSets[v], NEW rest \in Seq(Operation),
           Distinct(rest),
           \A y : y \in ToSet(rest) <=> y \in DequeSets[v] /\ y # x,
           \A u \in Worker : Hand'[u] = IF u = w THEN x ELSE Hand[u],
           \A u \in Worker : Deque'[u] = IF u = v THEN rest ELSE Deque[u],
           UNCHANGED <<Inbox, Done>>
    PROVE  OnePlace' /\ NothingNew
<1>1. \A u \in Worker :
        \A y : y \in DequeSets'[u]
                 <=> y \in DequeSets[u] /\ ~(u = v /\ y = x)
  BY NextSets
<1>2. Apart(ToSet(Inbox), DequeSets', Hand', Done)
  <2>1. Apart(ToSet(Inbox), DequeSets, Hand, Done)
    BY DEF OnePlace
  <2>2. PICK D, E, G : D = DequeSets /\ E = DequeSets' /\ G = Hand'
    OBVIOUS
  <2>3. /\ Apart(ToSet(Inbox), D, Hand, Done)
        /\ x \in D[v]
        /\ \A u \in Worker :
              \A y : y \in E[u] <=> y \in D[u] /\ ~(u = v /\ y = x)
        /\ \A u \in Worker : G[u] = IF u = w THEN x ELSE Hand[u]
    BY <1>1, <2>1, <2>2
  <2>4. Apart(ToSet(Inbox), E, G, Done)
    BY <2>3, ApartStolen
  <2> QED
    BY <2>2, <2>4
<1>3. OnePlace'
  BY <1>2 DEF OnePlace
<1>4. NothingNew
  BY <1>1, InKnown, InNextKnown DEF NothingNew
<1> QED
  BY <1>3, <1>4

LEMMA PlaceLatest ==
    ASSUME OnePlace, ViewOK, NEW w \in Worker, LatestTaken(w)
    PROVE  OnePlace' /\ NothingNew
<1>1. PICK d \in Seq(Operation) : d = Deque[w]
  BY DEF ViewOK
<1>2. d # <<>> /\ Distinct(d) /\ DequeSets[w] = ToSet(d)
  BY <1>1 DEF LatestTaken, OnePlace, DequeSets
<1>3. PICK x \in ToSet(d), rest \in Seq(Operation) :
        x = Last(d) /\ rest = Front(d)
  BY <1>2, LastOut, FrontIs
<1>4. /\ Distinct(rest)
      /\ \A y : y \in ToSet(rest) <=> y \in ToSet(d) /\ y # x
  BY <1>2, <1>3, LastOut
<1>5. /\ \A u \in Worker : Hand'[u] = IF u = w THEN x ELSE Hand[u]
      /\ \A u \in Worker : Deque'[u] = IF u = w THEN rest ELSE Deque[u]
      /\ UNCHANGED <<Inbox, Done>>
  BY <1>1, <1>3 DEF LatestTaken, ViewOK
<1> QED
  BY <1>2, <1>3, <1>4, <1>5, PlaceOut

LEMMA PlaceStolen ==
    ASSUME OnePlace, ViewOK, NEW w \in Worker, NEW v \in Worker, Stolen(w, v)
    PROVE  OnePlace' /\ NothingNew
<1>1. PICK d \in Seq(Operation) : d = Deque[v]
  BY DEF ViewOK
<1>2. d # <<>> /\ Distinct(d) /\ DequeSets[v] = ToSet(d)
  BY <1>1 DEF Stolen, OnePlace, DequeSets
<1>3. PICK x \in ToSet(d), rest \in Seq(Operation) :
        x = Head(d) /\ rest = Tail(d)
  BY <1>2, HeadOut, HeadTailProperties
<1>4. /\ Distinct(rest)
      /\ \A y : y \in ToSet(rest) <=> y \in ToSet(d) /\ y # x
  BY <1>2, <1>3, HeadOut
<1>5. /\ \A u \in Worker : Hand'[u] = IF u = w THEN x ELSE Hand[u]
      /\ \A u \in Worker : Deque'[u] = IF u = v THEN rest ELSE Deque[u]
      /\ UNCHANGED <<Inbox, Done>>
  <2>1. /\ Hand' = [Hand EXCEPT ![w] = x]
        /\ Deque' = [Deque EXCEPT ![v] = rest]
        /\ UNCHANGED <<Inbox, Done>>
    BY <1>1, <1>3 DEF Stolen
  <2> QED
    BY <2>1 DEF ViewOK
<1>6. /\ x \in DequeSets[v]
      /\ \A y : y \in ToSet(rest) <=> y \in DequeSets[v] /\ y # x
  BY <1>2, <1>4
<1> QED
  BY <1>4, <1>5, <1>6, PlaceOut

LEMMA PlaceResumed ==
    ASSUME OnePlace, ViewOK, NEW w \in Worker, Resumption(w)
    PROVE  OnePlace' /\ NothingNew
<1>1. \A u \in Worker : Hand'[u] = IF u = w THEN None ELSE Hand[u]
  BY DEF ViewOK, Resumption
<1>2. /\ Hand[w] # None /\ Done' = Done \cup {Hand[w]}
      /\ Inbox' = Inbox /\ Deque' = Deque /\ DequeSets' = DequeSets
  BY DEF Resumption, DequeSets
<1>3. Apart(ToSet(Inbox), DequeSets, Hand', Done')
  <2>1. Apart(ToSet(Inbox), DequeSets, Hand, Done)
    BY DEF OnePlace
  <2> QED
    BY <1>1, <1>2, <2>1, ApartResumed
<1>4. OnePlace'
  BY <1>2, <1>3 DEF OnePlace
<1>5. NothingNew
  BY <1>1, <1>2, InKnown, InNextKnown, PoolAssumption DEF NothingNew
<1> QED
  BY <1>4, <1>5

LEMMA PlaceSubmitted ==
    ASSUME OnePlace, ViewOK, NEW o \in Operation, o \notin Known, Submitted(o)
    PROVE  OnePlace' /\ OneNew(o)
<1>1. /\ Inbox \in Seq(Operation) /\ Distinct(Inbox)
      /\ Inbox' = Append(Inbox, o) /\ Deque' = Deque /\ Done' = Done
      /\ DequeSets' = DequeSets /\ Hand' = Hand
  BY DEF OnePlace, ViewOK, Submitted, DequeSets
<1>2. /\ o \notin ToSet(Inbox) /\ o \notin Done
      /\ \A v \in Worker : o \notin DequeSets[v] /\ Hand[v] # o
  BY InKnown
<1>3. Distinct(Inbox') /\ ToSet(Inbox') = ToSet(Inbox) \cup {o}
  BY <1>1, <1>2, OneMore
<1>4. Apart(ToSet(Inbox'), DequeSets, Hand, Done)
  <2>1. Apart(ToSet(Inbox), DequeSets, Hand, Done)
    BY DEF OnePlace
  <2> QED
    BY <1>2, <1>3, <2>1, ApartSubmitted
<1>5. OnePlace'
  BY <1>1, <1>3, <1>4 DEF OnePlace
<1>6. OneNew(o)
  BY <1>1, <1>3, InKnown, InNextKnown DEF OneNew
<1> QED
  BY <1>5, <1>6

LEMMA PlaceKept ==
    ASSUME OnePlace, ViewOK, NEW w \in Worker, NEW o \in Operation,
           o \notin Known, Kept(w, o)
    PROVE  OnePlace' /\ OneNew(o)
<1>1. PICK d \in Seq(Operation) : d = Deque[w]
  BY DEF ViewOK
<1>2. PICK e \in Seq(Operation) : e = Append(d, o)
  BY AppendProperties
<1>3. /\ o \notin ToSet(Inbox) /\ o \notin Done
      /\ \A v \in Worker : o \notin DequeSets[v] /\ Hand[v] # o
  BY InKnown
<1>4. DequeSets[w] = ToSet(d) /\ Distinct(d)
  BY <1>1 DEF OnePlace, DequeSets
<1>5. Distinct(e) /\ ToSet(e) = ToSet(d) \cup {o}
  BY <1>2, <1>3, <1>4, OneMore
<1>6. \A u \in Worker : Deque'[u] = IF u = w THEN e ELSE Deque[u]
  BY <1>1, <1>2 DEF ViewOK, Kept
<1>7. \A u \in Worker :
        DequeSets'[u] = IF u = w THEN DequeSets[w] \cup {o} ELSE DequeSets[u]
  BY <1>4, <1>5, <1>6, NextSets
<1>8. Inbox' = Inbox /\ Hand' = Hand /\ Done' = Done
  BY DEF Kept
<1>9. Apart(ToSet(Inbox), DequeSets', Hand, Done)
  <2>1. Apart(ToSet(Inbox), DequeSets, Hand, Done)
    BY DEF OnePlace
  <2> QED
    BY <1>3, <1>7, <2>1, ApartKept
<1>10. OnePlace'
  BY <1>5, <1>6, <1>8, <1>9 DEF OnePlace
<1>11. OneNew(o)
  BY <1>7, <1>8, InKnown, InNextKnown DEF OneNew
<1> QED
  BY <1>10, <1>11

-----------------------------------------------------------------------------
(***************************************************************************)
(* What is still to be scheduled is not known to the pool, the operation   *)
(* a thread has just scheduled and wakes another thread for aside; each    *)
(* operation is on one agenda only, and nobody has begun to work through   *)
(* the agenda of an operation that has not been resumed.                   *)
(***************************************************************************)
ToDoOnce ==
    \A t, u \in Thread : \A i \in 1..Len(todo[t]), j \in 1..Len(todo[u]) :
        todo[t][i] = todo[u][j] => t = u /\ i = j

ToDoUnknown ==
    \A t \in Thread : \A i \in 1..Len(todo[t]) :
        todo[t][i] \notin Known \/ (pc[t] = "wake" /\ i = 1)

Untouched(o) ==
    /\ o \notin Known
    /\ \A t \in Thread : \A i \in 1..Len(todo[t]) : todo[t][i] # o

AgendaUntouched ==
    \A p \in Operation : resumed[p] = 0 =>
        \A i \in 1..Len(Agenda[p]) : Untouched(Agenda[p][i])

TodoInv == ToDoOnce /\ ToDoUnknown /\ AgendaUntouched

TodoType ==
    /\ todo \in [Thread -> Seq(Operation)]
    /\ pc \in [Thread -> WorkerStage \cup ThreadStage]
    /\ resumed \in [Operation -> Nat]

LEMMA TodoTyped ==
    ASSUME PoolInv
    PROVE  TodoType
BY DEF PoolInv, Typed, TypeOK, TodoType

LEMMA TodoIn ==
    ASSUME TodoType, NEW t \in Thread
    PROVE  /\ Len(todo[t]) \in Nat
           /\ \A i \in 1..Len(todo[t]) : todo[t][i] \in Operation
BY DEF TodoType

LEMMA AgendaIn ==
    ASSUME NEW p \in External \cup Operation
    PROVE  /\ Agenda[p] \in Seq(Operation)
           /\ Len(Agenda[p]) \in Nat
           /\ \A i \in 1..Len(Agenda[p]) : Agenda[p][i] \in Operation
<1>1. Agenda[p] \in Seq(Operation)
  BY AgendaAssumption
<1> QED
  BY <1>1

LEMMA TodoQuiet ==
    ASSUME TodoType, TodoInv, todo' = todo, resumed' = resumed, NothingNew,
           \A t \in Thread : pc[t] = "wake" => pc'[t] = "wake"
    PROVE  TodoInv'
<1>1. ToDoOnce'
  BY DEF TodoInv, ToDoOnce
<1>2. ToDoUnknown'
  <2> SUFFICES ASSUME NEW t \in Thread, NEW i \in 1..Len(todo[t]),
                      todo[t][i] \in Known'
               PROVE  pc'[t] = "wake" /\ i = 1
    BY DEF ToDoUnknown
  <2>1. todo[t][i] \in Known
    BY TodoIn DEF NothingNew
  <2> QED
    BY <2>1 DEF TodoInv, ToDoUnknown
<1>3. AgendaUntouched'
  <2> SUFFICES ASSUME NEW p \in Operation, resumed[p] = 0,
                      NEW i \in 1..Len(Agenda[p])
               PROVE  Untouched(Agenda[p][i])'
    BY DEF AgendaUntouched, Untouched
  <2>1. Untouched(Agenda[p][i])
    BY DEF TodoInv, AgendaUntouched
  <2> QED
    BY <2>1, AgendaIn DEF Untouched, NothingNew
<1> QED
  BY <1>1, <1>2, <1>3 DEF TodoInv

LEMMA TodoAdded ==
    ASSUME TodoType, TodoInv, NEW t \in Thread, todo[t] # <<>>,
           OneNew(Head(todo[t])), todo' = todo, resumed' = resumed,
           pc'[t] = "wake",
           \A u \in Thread \ {t} : pc'[u] = pc[u]
    PROVE  TodoInv'
<1>1. ToDoOnce'
  BY DEF TodoInv, ToDoOnce
<1>2. PICK o \in Operation : o = Head(todo[t]) /\ o = todo[t][1]
  BY DEF TodoType
<1>3. 1 \in 1..Len(todo[t])
  BY DEF TodoType
<1>4. ToDoUnknown'
  <2> SUFFICES ASSUME NEW u \in Thread, NEW i \in 1..Len(todo[u]),
                      todo[u][i] \in Known'
               PROVE  pc'[u] = "wake" /\ i = 1
    BY DEF ToDoUnknown
  <2>1. todo[u][i] \in Known \/ todo[u][i] = o
    BY <1>2, TodoIn DEF OneNew
  <2>2. CASE todo[u][i] = o
    <3>1. u = t /\ i = 1
      BY <1>2, <1>3, <2>2 DEF TodoInv, ToDoOnce
    <3> QED
      BY <3>1
  <2>3. CASE todo[u][i] \in Known
    BY <2>3 DEF TodoInv, ToDoUnknown
  <2> QED
    BY <2>1, <2>2, <2>3
<1>5. AgendaUntouched'
  <2> SUFFICES ASSUME NEW p \in Operation, resumed[p] = 0,
                      NEW i \in 1..Len(Agenda[p])
               PROVE  Untouched(Agenda[p][i])'
    BY DEF AgendaUntouched, Untouched
  <2>1. Untouched(Agenda[p][i])
    BY DEF TodoInv, AgendaUntouched
  <2>2. Agenda[p][i] # o
    BY <1>2, <1>3, <2>1 DEF Untouched
  <2> QED
    BY <1>2, <2>1, <2>2, AgendaIn DEF Untouched, OneNew
<1> QED
  BY <1>1, <1>4, <1>5 DEF TodoInv

LEMMA TodoWoken ==
    ASSUME TodoType, TodoInv, NEW t \in Thread, todo[t] # <<>>,
           NothingNew, resumed' = resumed,
           todo' = [todo EXCEPT ![t] = Tail(@)],
           \A u \in Thread \ {t} : pc'[u] = pc[u]
    PROVE  TodoInv'
<1>1. PICK s \in Seq(Operation), r \in Seq(Operation) :
        s = todo[t] /\ r = Tail(s)
  BY HeadTailProperties DEF TodoType
<1>2. /\ Len(s) \in Nat
      /\ Len(r) = Len(s) - 1
      /\ \A i \in 1..Len(r) : i + 1 \in 1..Len(s) /\ r[i] = s[i + 1]
  <2>1. Len(r) = Len(s) - 1 /\ \A i \in 1..Len(r) : r[i] = s[i + 1]
    BY <1>1, HeadTailProperties
  <2> QED
    BY <2>1
<1>3. ASSUME NEW u \in Thread
      PROVE  todo'[u] = IF u = t THEN r ELSE todo[u]
  BY <1>1 DEF TodoType
<1>4. PICK shift \in [Thread -> {0, 1}] :
        \A u \in Thread : shift[u] = IF u = t THEN 1 ELSE 0
  <2>1. [u \in Thread |-> IF u = t THEN 1 ELSE 0] \in [Thread -> {0, 1}]
    OBVIOUS
  <2> QED
    BY <2>1
<1>5. ASSUME NEW u \in Thread, NEW i \in 1..Len(todo'[u])
      PROVE  /\ i + shift[u] \in 1..Len(todo[u])
             /\ todo'[u][i] = todo[u][i + shift[u]]
  <2>1. CASE u = t
    <3>1. shift[u] = 1 /\ todo'[u] = r /\ todo[u] = s
      BY <1>1, <1>3, <1>4, <2>1
    <3> QED
      BY <1>2, <1>5, <3>1
  <2>2. CASE u # t
    <3>1. shift[u] = 0 /\ todo'[u] = todo[u] /\ i \in 1..Len(todo[u])
      BY <1>3, <1>4, <1>5, <2>2
    <3>2. i + shift[u] = i
      BY <3>1
    <3> QED
      BY <3>1, <3>2
  <2> QED
    BY <2>1, <2>2
<1>6. ToDoOnce'
  <2> SUFFICES ASSUME NEW u \in Thread, NEW v \in Thread,
                      NEW i \in 1..Len(todo'[u]), NEW j \in 1..Len(todo'[v]),
                      todo'[u][i] = todo'[v][j]
               PROVE  u = v /\ i = j
    BY DEF ToDoOnce
  <2>1. u = v /\ i + shift[u] = j + shift[v]
    <3>1. /\ i + shift[u] \in 1..Len(todo[u])
          /\ j + shift[v] \in 1..Len(todo[v])
          /\ todo[u][i + shift[u]] = todo[v][j + shift[v]]
      BY <1>5
    <3> QED
      BY <3>1 DEF TodoInv, ToDoOnce
  <2> QED
    BY <1>4, <2>1
<1>7. ToDoUnknown'
  <2> SUFFICES ASSUME NEW u \in Thread, NEW i \in 1..Len(todo'[u]),
                      todo'[u][i] \in Known'
               PROVE  pc'[u] = "wake" /\ i = 1
    BY DEF ToDoUnknown
  <2>1. /\ i + shift[u] \in 1..Len(todo[u])
        /\ todo'[u][i] = todo[u][i + shift[u]]
    BY <1>5
  <2>2. todo[u][i + shift[u]] \in Known
    BY <2>1, TodoIn DEF NothingNew
  <2>3. pc[u] = "wake" /\ i + shift[u] = 1
    BY <2>1, <2>2 DEF TodoInv, ToDoUnknown
  <2>4. shift[u] = 0
    BY <1>4, <2>3
  <2> QED
    BY <1>4, <2>3, <2>4
<1>8. AgendaUntouched'
  <2> SUFFICES ASSUME NEW p \in Operation, resumed[p] = 0,
                      NEW i \in 1..Len(Agenda[p])
               PROVE  Untouched(Agenda[p][i])'
    BY DEF AgendaUntouched, Untouched
  <2>1. Untouched(Agenda[p][i])
    BY DEF TodoInv, AgendaUntouched
  <2> QED
    BY <1>5, <2>1, AgendaIn DEF Untouched, NothingNew
<1> QED
  BY <1>6, <1>7, <1>8 DEF TodoInv

LEMMA TodoResumed ==
    ASSUME TodoType, TodoInv, NEW w \in Thread, NEW q \in Operation,
           resumed[q] = 0, NothingNew,
           resumed' = [resumed EXCEPT ![q] = @ + 1],
           todo' = [todo EXCEPT ![w] = Agenda[q]],
           \A u \in Thread \ {w} : pc'[u] = pc[u]
    PROVE  TodoInv'
<1>1. ASSUME NEW u \in Thread
      PROVE  todo'[u] = IF u = w THEN Agenda[q] ELSE todo[u]
  BY DEF TodoType
<1>2. ASSUME NEW p \in Operation, resumed'[p] = 0
      PROVE  p # q /\ resumed[p] = 0
  BY <1>2 DEF TodoType
<1>3. \A i \in 1..Len(Agenda[q]) : Untouched(Agenda[q][i])
  BY DEF TodoInv, AgendaUntouched
<1>4. ASSUME NEW p \in Operation, NEW r \in Operation,
             NEW i \in 1..Len(Agenda[p]), NEW j \in 1..Len(Agenda[r]),
             Agenda[p][i] = Agenda[r][j]
      PROVE  p = r /\ i = j
  BY <1>4, AgendaAssumption
<1>5. ToDoOnce'
  <2> SUFFICES ASSUME NEW u \in Thread, NEW v \in Thread,
                      NEW i \in 1..Len(todo'[u]), NEW j \in 1..Len(todo'[v]),
                      todo'[u][i] = todo'[v][j]
               PROVE  u = v /\ i = j
    BY DEF ToDoOnce
  <2>1. CASE u = w /\ v = w
    BY <1>1, <1>4, <2>1
  <2>2. CASE u = w /\ v # w
    BY <1>1, <1>3, <2>2 DEF Untouched
  <2>3. CASE u # w /\ v = w
    BY <1>1, <1>3, <2>3 DEF Untouched
  <2>4. CASE u # w /\ v # w
    BY <1>1, <2>4 DEF TodoInv, ToDoOnce
  <2> QED
    BY <2>1, <2>2, <2>3, <2>4
<1>6. ToDoUnknown'
  <2> SUFFICES ASSUME NEW u \in Thread, NEW i \in 1..Len(todo'[u]),
                      todo'[u][i] \in Known'
               PROVE  pc'[u] = "wake" /\ i = 1
    BY DEF ToDoUnknown
  <2>1. CASE u = w
    <3>1. i \in 1..Len(Agenda[q]) /\ todo'[u][i] = Agenda[q][i]
      BY <1>1, <2>1
    <3>2. Agenda[q][i] \in Known
      BY <3>1, AgendaIn DEF NothingNew
    <3> QED
      BY <1>3, <3>1, <3>2 DEF Untouched
  <2>2. CASE u # w
    <3>1. i \in 1..Len(todo[u]) /\ todo'[u][i] = todo[u][i]
      BY <1>1, <2>2
    <3>2. todo[u][i] \in Known
      BY <3>1, TodoIn DEF NothingNew
    <3> QED
      BY <2>2, <3>1, <3>2 DEF TodoInv, ToDoUnknown
  <2> QED
    BY <2>1, <2>2
<1>7. AgendaUntouched'
  <2> SUFFICES ASSUME NEW p \in Operation, resumed'[p] = 0,
                      NEW i \in 1..Len(Agenda[p])
               PROVE  Untouched(Agenda[p][i])'
    BY DEF AgendaUntouched, Untouched
  <2>1. p # q /\ resumed[p] = 0
    BY <1>2
  <2>2. Untouched(Agenda[p][i])
    BY <2>1 DEF TodoInv, AgendaUntouched
  <2>3. Agenda[p][i] \notin Known'
    BY <2>2, AgendaIn DEF Untouched, NothingNew
  <2>4. ASSUME NEW u \in Thread, NEW j \in 1..Len(todo'[u])
        PROVE  todo'[u][j] # Agenda[p][i]
    <3>1. CASE u = w
      <4>1. j \in 1..Len(Agenda[q]) /\ todo'[u][j] = Agenda[q][j]
        BY <1>1, <3>1
      <4> QED
        BY <1>4, <2>1, <4>1
    <3>2. CASE u # w
      <4>1. j \in 1..Len(todo[u]) /\ todo'[u][j] = todo[u][j]
        BY <1>1, <3>2
      <4> QED
        BY <2>2, <4>1 DEF Untouched
    <3> QED
      BY <3>1, <3>2
  <2> QED
    BY <2>3, <2>4 DEF Untouched
<1> QED
  BY <1>5, <1>6, <1>7 DEF TodoInv

-----------------------------------------------------------------------------
WorkInv == PoolInv /\ OnePlace /\ TodoInv /\ ResumedOnce

LEMMA WorkInit == Init => WorkInv
<1> SUFFICES ASSUME Init PROVE WorkInv
  OBVIOUS
<1>1. PoolInv
  BY PoolInit
<1>2. Inbox = <<>>
  <2>1. ready = <<>> /\ Reverse(arrivals) = <<>>
    BY DEF Init, Reverse
  <2> QED
    BY <2>1 DEF Inbox
<1>3. ASSUME NEW w \in Worker
      PROVE  Deque[w] = <<>> /\ Hand[w] = None
  <2>1. pc[w] = "pop" /\ head[w] = 0 /\ tail[w] = 0 /\ got[w] = None
    BY DEF Init, Thread
  <2>2. ~StolenFrom(w) /\ ~Claiming(w)
    <3>1. \A v \in Worker : pc[v] = "pop"
      BY DEF Init, Thread
    <3> QED
      BY <3>1 DEF StolenFrom, Claiming
  <2>3. RingContents(w) \in Seq(Operation) /\ Len(RingContents(w)) = 0
    BY <1>1, <2>1, <2>2, Contents DEF Above, Below
  <2>4. RingContents(w) = <<>>
    BY <2>3, EmptySeq
  <2> QED
    BY <2>1, <2>4 DEF Deque, Hand, HandOf
<1>4. Done = {}
  BY DEF Done, Init
<1>5. ToSet(<<>>) = {} /\ Distinct(<<>>)
  BY DEF ToSet, Distinct
<1>6. OnePlace
  <2>1. \A w \in Worker : DequeSets[w] = {}
    BY <1>3, <1>5 DEF DequeSets
  <2> QED
    BY <1>2, <1>3, <1>4, <1>5, <2>1 DEF OnePlace, Apart
<1>7. ASSUME NEW o \in Operation
      PROVE  o \notin Known
  <2>1. \A w \in Worker : DequeSets[w] = {}
    BY <1>3, <1>5 DEF DequeSets
  <2> QED
    BY <1>2, <1>3, <1>4, <1>5, <2>1, InKnown, PoolAssumption
<1>8. ASSUME NEW t \in Thread, NEW i \in 1..Len(todo[t])
      PROVE  /\ t \in External
             /\ todo[t] = Agenda[t]
             /\ todo[t][i] \in Operation
  <2>1. todo[t] = IF t \in Worker THEN <<>> ELSE Agenda[t]
    BY DEF Init
  <2>2. t \notin Worker
    BY <1>8, <2>1
  <2> QED
    BY <1>1, <2>1, <2>2, TodoTyped, TodoIn DEF Thread
<1>9. ASSUME NEW x \in External \cup Operation,
             NEW y \in External \cup Operation,
             NEW i \in 1..Len(Agenda[x]), NEW j \in 1..Len(Agenda[y]),
             Agenda[x][i] = Agenda[y][j]
      PROVE  x = y /\ i = j
  BY <1>9, AgendaAssumption
<1>10. TodoInv
  <2>1. ToDoOnce
    BY <1>8, <1>9 DEF ToDoOnce
  <2>2. ToDoUnknown
    BY <1>7, <1>8 DEF ToDoUnknown
  <2>3. AgendaUntouched
    <3> SUFFICES ASSUME NEW p \in Operation, NEW i \in 1..Len(Agenda[p])
                 PROVE  Untouched(Agenda[p][i])
      BY DEF AgendaUntouched
    <3>1. Agenda[p][i] \notin Known
      BY <1>7, AgendaIn
    <3>2. ASSUME NEW t \in Thread, NEW j \in 1..Len(todo[t]),
                 todo[t][j] = Agenda[p][i]
          PROVE  FALSE
      <4>1. t \in External /\ todo[t] = Agenda[t]
        BY <1>8
      <4>2. t = p
        BY <1>9, <3>2, <4>1
      <4> QED
        BY <4>1, <4>2, AgendaAssumption
    <3> QED
      BY <3>1, <3>2 DEF Untouched
  <2> QED
    BY <2>1, <2>2, <2>3 DEF TodoInv
<1>11. ResumedOnce
  BY DEF ResumedOnce, Init
<1> QED
  BY <1>1, <1>6, <1>10, <1>11 DEF WorkInv

(***************************************************************************)
(* Who changes what, apart from the state WorkPool sees.                   *)
(***************************************************************************)
LEMMA OnlyWakes ==
    ASSUME PoolInv, NEW w \in Worker,
           Pop(w) \/ TakeRemote(w) \/ Steal(w) \/ (Run(w) /\ ~Resume(w))
             \/ (LocalEnqueue(w) /\ ~EnqueuePut(w) /\ ~EnqueueCopy(w))
    PROVE  /\ todo' = todo /\ resumed' = resumed
           /\ \A t \in Thread : pc[t] = "wake" => pc'[t] = "wake"
<1>1. todo' = todo /\ resumed' = resumed
  BY DEF Pop, PopLook, PopClaim, PopTake, PopRace, PopLock, PopWins,
     PopLoses, TakeRemote, GetRemoteUnpublished, GetRemoteNothing, GetRemote,
     Steal, StealLock, StealUnavailable, StealLook, StealNothing,
     StealAdvance, StealCheck, StealTake, StealRestore, Run, ResumeReturns,
     NotifyIntentToSleep, SleepUntilWoken, LocalEnqueue, EnqueueLook,
     EnqueueGrow, EnqueueFails, localVars
<1>2. pc[w] # "wake"
  BY DEF Pop, PopLook, PopClaim, PopTake, PopRace, PopLock, PopWins,
     PopLoses, TakeRemote, GetRemoteUnpublished, GetRemoteNothing, GetRemote,
     Steal, StealLock, StealUnavailable, StealLook, StealNothing,
     StealAdvance, StealCheck, StealTake, StealRestore, Run, ResumeReturns,
     NotifyIntentToSleep, SleepUntilWoken, LocalEnqueue, EnqueueLook,
     EnqueueGrow, EnqueueFails, Step
<1>3. \E stage : pc' = [pc EXCEPT ![w] = stage]
  BY DEF Pop, PopLook, PopClaim, PopTake, PopRace, PopLock, PopWins,
     PopLoses, TakeRemote, GetRemoteUnpublished, GetRemoteNothing, GetRemote,
     Steal, StealLock, StealUnavailable, StealLook, StealNothing,
     StealAdvance, StealCheck, StealTake, StealRestore, Run, ResumeReturns,
     NotifyIntentToSleep, SleepUntilWoken, LocalEnqueue, EnqueueLook,
     EnqueueGrow, EnqueueFails, Step, Goto, Onward
<1> QED
  BY <1>1, <1>2, <1>3 DEF PoolInv, Typed, TypeOK

LEMMA WorkQuiet ==
    ASSUME WorkInv, PoolInv', OnePlace', NothingNew,
           todo' = todo, resumed' = resumed,
           \A t \in Thread : pc[t] = "wake" => pc'[t] = "wake"
    PROVE  WorkInv'
<1>1. TodoInv'
  BY TodoTyped, TodoQuiet DEF WorkInv
<1> QED
  BY <1>1 DEF WorkInv, ResumedOnce

LEMMA WorkPop ==
    ASSUME WorkInv, PoolInv', NEW w \in Worker, Pop(w)
    PROVE  WorkInv'
<1>1. PoolInv /\ OnePlace /\ ViewOK
  BY ViewType DEF WorkInv
<1>2. OnePlace' /\ NothingNew
  BY <1>1, SimPop, PlaceSame, PlaceLatest
<1> QED
  BY <1>1, <1>2, OnlyWakes, WorkQuiet

LEMMA WorkTakeRemote ==
    ASSUME WorkInv, PoolInv', NEW w \in Worker, TakeRemote(w)
    PROVE  WorkInv'
<1>1. PoolInv /\ OnePlace /\ ViewOK
  BY ViewType DEF WorkInv
<1>2. OnePlace' /\ NothingNew
  BY <1>1, SimTakeRemote, PlaceSame, PlaceOldest
<1> QED
  BY <1>1, <1>2, OnlyWakes, WorkQuiet

LEMMA WorkSteal ==
    ASSUME WorkInv, PoolInv', NEW w \in Worker, Steal(w)
    PROVE  WorkInv'
<1>1. PoolInv /\ OnePlace /\ ViewOK
  BY ViewType DEF WorkInv
<1>2. OnePlace' /\ NothingNew
  BY <1>1, SimSteal, PlaceSame, PlaceStolen
<1> QED
  BY <1>1, <1>2, OnlyWakes, WorkQuiet

LEMMA WorkRun ==
    ASSUME WorkInv, PoolInv', NEW w \in Worker, Run(w)
    PROVE  WorkInv'
<1>1. PoolInv /\ OnePlace /\ ViewOK /\ TodoType
  BY ViewType, TodoTyped DEF WorkInv
<1>2. OnePlace' /\ NothingNew
  BY <1>1, SimRun, PlaceSame, PlaceResumed
<1>3. CASE ~Resume(w)
  BY <1>1, <1>2, <1>3, OnlyWakes, WorkQuiet
<1>4. CASE Resume(w)
  <2>1. /\ resumed' = [resumed EXCEPT ![got[w]] = @ + 1]
        /\ todo' = [todo EXCEPT ![w] = Agenda[got[w]]]
        /\ pc' = [pc EXCEPT ![w] = "run"]
        /\ pc[w] = "resume"
    BY <1>4 DEF Resume, Step, Goto
  <2>2. PICK q \in Operation : q = got[w] /\ q # None
    BY <1>1, <2>1 DEF PoolInv, StageInv, Typed, TypeOK
  <2>3. resumed[q] = 0
    <3>1. Hand[w] = q
      BY <2>1, <2>2 DEF Hand, HandOf
    <3>2. q \notin Done
      BY <1>1, <2>2, <3>1 DEF OnePlace, Apart
    <3>3. resumed[q] \in Nat /\ ~(resumed[q] > 0)
      BY <1>1, <3>2 DEF Done, TodoType
    <3> QED
      BY <3>3
  <2>4. w \in Thread /\ \A u \in Thread \ {w} : pc'[u] = pc[u]
    BY <1>1, <2>1 DEF TodoType, Thread
  <2>5. TodoInv'
    BY <1>1, <1>2, <2>1, <2>2, <2>3, <2>4, TodoResumed DEF WorkInv
  <2>6. ResumedOnce'
    <3>1. \A p \in Operation : resumed'[p] = IF p = q THEN 1 ELSE resumed[p]
      BY <1>1, <2>1, <2>2, <2>3 DEF TodoType
    <3> QED
      BY <3>1 DEF WorkInv, ResumedOnce
  <2> QED
    BY <1>2, <2>5, <2>6 DEF WorkInv
<1> QED
  BY <1>3, <1>4

(***************************************************************************)
(* What a thread adds, nobody knows yet.                                   *)
(***************************************************************************)
LEMMA AddsUnknown ==
    ASSUME WorkInv, NEW t \in Thread, pc[t] \in {"put", "copy", "push"}
    PROVE  /\ todo[t] # <<>>
           /\ Head(todo[t]) \in Operation
           /\ Head(todo[t]) \notin Known
<1>1. /\ todo[t] \in Seq(Operation) /\ todo[t] # <<>>
      /\ Head(todo[t]) \in Operation
  BY NextTodo DEF WorkInv, Enqueueing
<1>2. 1 \in 1..Len(todo[t]) /\ Head(todo[t]) = todo[t][1]
  BY <1>1
<1> QED
  BY <1>1, <1>2 DEF WorkInv, TodoInv, ToDoUnknown

LEMMA WorkAdded ==
    ASSUME WorkInv, PoolInv', OnePlace', NEW t \in Thread, todo[t] # <<>>,
           OneNew(Head(todo[t])), todo' = todo, resumed' = resumed,
           pc' = [pc EXCEPT ![t] = "wake"]
    PROVE  WorkInv'
<1>1. TodoType
  BY TodoTyped DEF WorkInv
<1>2. pc'[t] = "wake" /\ \A u \in Thread \ {t} : pc'[u] = pc[u]
  BY <1>1 DEF TodoType
<1>3. TodoInv'
  BY <1>1, <1>2, TodoAdded DEF WorkInv
<1> QED
  BY <1>3 DEF WorkInv, ResumedOnce

LEMMA WorkLocalEnqueue ==
    ASSUME WorkInv, PoolInv', NEW w \in Worker, LocalEnqueue(w)
    PROVE  WorkInv'
<1>1. PoolInv /\ OnePlace /\ ViewOK
  BY ViewType DEF WorkInv
<1>2. CASE UNCHANGED PoolView /\ ~(EnqueuePut(w) \/ EnqueueCopy(w))
  <2>1. OnePlace' /\ NothingNew
    BY <1>1, <1>2, PlaceSame
  <2> QED
    BY <1>1, <1>2, <2>1, OnlyWakes, WorkQuiet
<1>3. CASE EnqueuePut(w) \/ EnqueueCopy(w)
  <2>1. /\ pc[w] \in {"put", "copy"} /\ w \in Thread
        /\ pc' = [pc EXCEPT ![w] = "wake"]
        /\ todo' = todo /\ resumed' = resumed
    BY <1>3 DEF EnqueuePut, EnqueueCopy, Step, Goto, localVars, Thread
  <2>2. /\ todo[w] # <<>>
        /\ Head(todo[w]) \in Operation
        /\ Head(todo[w]) \notin Known
    BY <2>1, AddsUnknown
  <2>3. CASE UNCHANGED PoolView
    <3>1. OnePlace' /\ NothingNew
      BY <1>1, <2>3, PlaceSame
    <3>2. OneNew(Head(todo[w]))
      BY <3>1 DEF OneNew, NothingNew
    <3> QED
      BY <2>1, <2>2, <3>1, <3>2, WorkAdded
  <2>4. CASE Kept(w, Head(todo[w]))
    <3>1. OnePlace' /\ OneNew(Head(todo[w]))
      BY <1>1, <2>2, <2>4, PlaceKept
    <3> QED
      BY <2>1, <2>2, <3>1, WorkAdded
  <2> QED
    BY <1>1, <2>3, <2>4, SimLocalEnqueue
<1> QED
  BY <1>1, <1>2, <1>3, SimLocalEnqueue

LEMMA WorkRemoteEnqueue ==
    ASSUME WorkInv, PoolInv', NEW t \in Thread, RemoteEnqueue(t)
    PROVE  WorkInv'
<1>1. PoolInv /\ OnePlace /\ ViewOK /\ TodoType
  BY ViewType, TodoTyped DEF WorkInv
<1>2. UNCHANGED PoolView \/ (RemotePush(t) /\ Submitted(Head(todo[t])))
  BY <1>1, SimRemoteEnqueue
<1>3. CASE RemotePush(t)
  <2>1. /\ pc[t] = "push"
        /\ pc' = [pc EXCEPT ![t] = "wake"]
        /\ todo' = todo /\ resumed' = resumed
    BY <1>3 DEF RemotePush, Step, Goto
  <2>2. /\ todo[t] # <<>>
        /\ Head(todo[t]) \in Operation
        /\ Head(todo[t]) \notin Known
    BY <2>1, AddsUnknown
  <2>3. OnePlace' /\ OneNew(Head(todo[t]))
    <3>1. CASE UNCHANGED PoolView
      BY <1>1, <3>1, PlaceSame DEF OneNew, NothingNew
    <3>2. CASE Submitted(Head(todo[t]))
      BY <1>1, <2>2, <3>2, PlaceSubmitted
    <3> QED
      BY <1>2, <3>1, <3>2
  <2> QED
    BY <2>1, <2>2, <2>3, WorkAdded
<1>4. CASE ~RemotePush(t)
  <2>1. OnePlace' /\ NothingNew
    BY <1>1, <1>2, <1>4, PlaceSame
  <2>2. resumed' = resumed
    BY DEF RemoteEnqueue, RemoteLoad, RemoteRetry, RemotePush, WakeSkip,
       WakeOne
  <2>3. CASE WakeOne(t)
    <3>1. /\ todo' = [todo EXCEPT ![t] = Tail(@)]
          /\ pc[t] = "wake"
          /\ \A u \in Thread \ {t} : pc'[u] = pc[u]
      BY <1>1, <2>3 DEF WakeOne, Step, Goto, TodoType
    <3>2. todo[t] # <<>>
      BY <1>1, <3>1, NextTodo DEF Enqueueing
    <3>3. TodoInv'
      BY <1>1, <2>1, <2>2, <3>1, <3>2, TodoWoken DEF WorkInv
    <3> QED
      BY <2>1, <2>2, <3>3 DEF WorkInv, ResumedOnce
  <2>4. CASE ~WakeOne(t)
    <3>1. todo' = todo
      BY <1>4, <2>4 DEF RemoteEnqueue, RemoteLoad, RemoteRetry, WakeSkip
    <3>2. \A u \in Thread : pc[u] = "wake" => pc'[u] = "wake"
      BY <1>1, <1>4, <2>4 DEF RemoteEnqueue, RemoteLoad, RemoteRetry,
         WakeSkip, Step, Goto, TodoType
    <3> QED
      BY <2>1, <2>2, <3>1, <3>2, WorkQuiet
  <2> QED
    BY <2>3, <2>4
<1> QED
  BY <1>3, <1>4

LEMMA WorkNext ==
    ASSUME WorkInv, [Next]_vars
    PROVE  WorkInv'
<1>1. PoolInv'
  BY PoolNext DEF WorkInv
<1>2. CASE Publish \/ UNCHANGED vars
  <2>1. OnePlace' /\ NothingNew
    BY <1>2, SimAside, PlaceSame DEF WorkInv
  <2>2. todo' = todo /\ resumed' = resumed /\ pc' = pc
    BY <1>2 DEF Publish, vars, localVars
  <2> QED
    BY <1>1, <2>1, <2>2, WorkQuiet
<1>3. ASSUME NEW w \in Worker, WorkerStep(w)
      PROVE  WorkInv'
  <2>1. w \in Thread
    BY DEF Thread
  <2> QED
    BY <1>1, <1>3, <2>1, WorkPop, WorkTakeRemote, WorkSteal, WorkRun,
       WorkLocalEnqueue, WorkRemoteEnqueue DEF WorkerStep
<1>4. ASSUME NEW t \in External, RemoteEnqueue(t)
      PROVE  WorkInv'
  BY <1>1, <1>4, WorkRemoteEnqueue DEF Thread
<1> QED
  BY <1>2, <1>3, <1>4 DEF Next

(***************************************************************************)
(* No coroutine is resumed twice, whatever the owner of a ring and the     *)
(* threads that steal from it do at the same time.                         *)
(***************************************************************************)
THEOREM PoolResumesOnce == Spec => []ResumedOnce
<1>1. WorkInv => ResumedOnce
  BY DEF WorkInv
<1> QED
  BY <1>1, WorkInit, WorkNext, PTL DEF Spec

-----------------------------------------------------------------------------
(***************************************************************************)
(* The refinement, step by step.                                           *)
(***************************************************************************)
LEMMA PoolStart == Init => Pool!Init
<1> SUFFICES ASSUME Init PROVE Pool!Init
  OBVIOUS
<1>1. Inbox = <<>> /\ Done = {}
  <2>1. ready = <<>> /\ Reverse(arrivals) = <<>>
    BY DEF Init, Reverse
  <2> QED
    BY <2>1 DEF Inbox, Done, Init
<1>2. PoolInv
  BY PoolInit
<1>3. ASSUME NEW w \in Worker
      PROVE  RingContents(w) = <<>> /\ HandOf(w) = None
  <2>1. pc[w] = "pop" /\ head[w] = 0 /\ tail[w] = 0 /\ got[w] = None
    BY DEF Init, Thread
  <2>2. ~StolenFrom(w) /\ ~Claiming(w)
    <3>1. \A v \in Worker : pc[v] = "pop"
      BY DEF Init, Thread
    <3> QED
      BY <3>1 DEF StolenFrom, Claiming
  <2>3. RingContents(w) \in Seq(Operation) /\ Len(RingContents(w)) = 0
    BY <1>2, <2>1, <2>2, Contents DEF Above, Below
  <2>4. RingContents(w) = <<>>
    BY <2>3, EmptySeq
  <2> QED
    BY <2>1, <2>4 DEF HandOf
<1>4. /\ Deque = [w \in Worker |-> <<>>]
      /\ Hand = [w \in Worker |-> None]
  BY <1>3 DEF Deque, Hand
<1> QED
  BY <1>1, <1>4 DEF Pool!Init, Inbox, Deque, Hand, HandOf, Done

LEMMA PoolStep ==
    ASSUME WorkInv, [Next]_vars
    PROVE  [Pool!Next]_(Pool!vars)
<1>1. PoolInv /\ PoolInv'
  BY PoolNext DEF WorkInv
<1>2. CASE UNCHANGED PoolView
  BY <1>2, PoolVars
<1>3. ASSUME NEW t \in Thread, RemoteEnqueue(t), ~UNCHANGED PoolView
      PROVE  Pool!Next
  <2>1. RemotePush(t) /\ Submitted(Head(todo[t]))
    BY <1>1, <1>3, SimRemoteEnqueue
  <2>2. Head(todo[t]) \in Operation /\ Head(todo[t]) \notin Known
    BY <2>1, AddsUnknown DEF RemotePush, Step
  <2>3. Pool!Submit(Head(todo[t]))
    BY <2>1, <2>2, IsSubmit
  <2> QED
    BY <2>2, <2>3 DEF Pool!Next
<1>4. ASSUME NEW w \in Worker, Pop(w), ~UNCHANGED PoolView
      PROVE  Pool!Next
  <2>1. LatestTaken(w)
    BY <1>1, <1>4, SimPop
  <2>2. Pool!TakeLatest(w)
    BY <2>1, IsTakeLatest
  <2> QED
    BY <2>2 DEF Pool!Next
<1>5. ASSUME NEW w \in Worker, TakeRemote(w), ~UNCHANGED PoolView
      PROVE  Pool!Next
  <2>1. OldestTaken(w)
    BY <1>1, <1>5, SimTakeRemote
  <2>2. Pool!TakeOldest(w)
    BY <2>1, IsTakeOldest
  <2> QED
    BY <2>2 DEF Pool!Next
<1>6. ASSUME NEW w \in Worker, Steal(w), ~UNCHANGED PoolView
      PROVE  Pool!Next
  <2>1. PICK v \in Worker \ {w} : Stolen(w, v)
    BY <1>1, <1>6, SimSteal
  <2>2. Pool!Steal(w, v)
    BY <2>1, IsSteal
  <2> QED
    BY <2>2 DEF Pool!Next
<1>7. ASSUME NEW w \in Worker, Run(w), ~UNCHANGED PoolView
      PROVE  Pool!Next
  <2>1. Resumption(w)
    BY <1>1, <1>7, SimRun
  <2>2. Pool!Resume(w)
    BY <2>1, IsResume
  <2> QED
    BY <2>2 DEF Pool!Next
<1>8. ASSUME NEW w \in Worker, LocalEnqueue(w), ~UNCHANGED PoolView
      PROVE  Pool!Next
  <2>1. (EnqueuePut(w) \/ EnqueueCopy(w)) /\ Kept(w, Head(todo[w]))
    BY <1>1, <1>8, SimLocalEnqueue
  <2>2. Head(todo[w]) \in Operation /\ Head(todo[w]) \notin Known
    BY <2>1, AddsUnknown DEF EnqueuePut, EnqueueCopy, Step, Thread
  <2>3. Pool!Keep(w, Head(todo[w]))
    BY <2>1, <2>2, IsKeep
  <2> QED
    BY <2>2, <2>3 DEF Pool!Next
<1>9. CASE Publish \/ UNCHANGED vars
  BY <1>1, <1>2, <1>9, SimAside
<1> QED
  BY <1>2, <1>3, <1>4, <1>5, <1>6, <1>7, <1>8, <1>9
     DEF Next, WorkerStep, Thread

(***************************************************************************)
(* The threads together behave like WorkPool: every step of theirs is a    *)
(* step of it or changes nothing it can see.                               *)
(***************************************************************************)
THEOREM PoolIsWorkPool == Spec => IsWorkPool
<1>1. Spec => Pool!Init /\ [][Pool!Next]_(Pool!vars)
  BY PoolStart, WorkInit, WorkNext, PoolStep, PTL DEF Spec
<1> QED
  BY <1>1 DEF IsWorkPool, Pool!Spec

=============================================================================
