------------------------- MODULE RenderThreadProofs -------------------------
(***************************************************************************)
(* The command thread executes what the main thread records, in order and  *)
(* at most a frame behind, for any number of frames, uploads and slots;    *)
(* and four slots are enough for a program that uploads nothing.           *)
(***************************************************************************)
EXTENDS RenderThread, SequenceTheorems, TLAPS

LEMMA Renumbered ==
    ASSUME NEW n \in Nat, NEW k \in Nat
    PROVE  /\ [i \in 1..n |-> k + i] \in Seq(1..(k + n))
           /\ Len([i \in 1..n |-> k + i]) = n
<1> DEFINE s == [i \in 1..n |-> k + i]
<1>1. s \in [1..n -> 1..(k + n)]
  OBVIOUS
<1>2. s \in Seq(1..(k + n))
  BY <1>1, SeqDef
<1> QED
  BY <1>1, <1>2, LenProperties

LEMMA ReverseType ==
    ASSUME NEW S, NEW s \in Seq(S)
    PROVE  /\ Reverse(s) \in Seq(S)
           /\ Len(Reverse(s)) = Len(s)
           /\ \A i \in 1..Len(s) : Reverse(s)[i] = s[Len(s) - i + 1]
<1>1. Reverse(s) \in [1..Len(s) -> S]
  BY DEF Reverse
<1>2. Reverse(s) \in Seq(S)
  BY <1>1, SeqDef
<1>3. Len(Reverse(s)) = Len(s)
  BY <1>1, <1>2, LenProperties
<1> QED
  BY <1>2, <1>3 DEF Reverse

(***************************************************************************)
(* The frame the main thread is in, and the fences it has set up.          *)
(***************************************************************************)
FrameInv ==
    /\ mpc # "end" => frame <= MaxFrame
    /\ frame - 1 <= Len(fenceCommand)
    /\ mpc = "flush upload" => uploads > 0
    /\ mpc \in {"record", "flush upload", "flush end", "present"} =>
        /\ Len(fenceCommand) = frame - 1
        /\ presentFences[1 - presentIndex] = frame - 1
        /\ presentFences[presentIndex] = NoFence
    /\ mpc \in {"flush present", "wait"} =>
        /\ Len(fenceCommand) = frame
        /\ presentFences[1 - presentIndex] = frame - 1
        /\ presentFences[presentIndex] = frame

TypeInv == TypeOK /\ FrameInv

LEMMA TypeInit == Init => TypeInv
<1> SUFFICES ASSUME Init PROVE TypeInv
  OBVIOUS
<1>1. TypeOK
  BY RenderAssumption
     DEF Init, TypeOK, Commands, Tasks, NoTask, NoFence
<1>2. FrameInv
  BY RenderAssumption DEF Init, FrameInv, NoFence
<1> QED
  BY <1>1, <1>2 DEF TypeInv

LEMMA InsertType ==
    ASSUME TypeOK, NEW n \in Nat, Insert(n)
    PROVE  /\ recorded' = recorded + n
           /\ Commands \subseteq Commands'
           /\ immediate' \in Seq(Commands')
           /\ Len(immediate') = Len(immediate) + n
           /\ \A i \in 1..Len(immediate) : immediate'[i] = immediate[i]
           /\ \A i \in 1..n : immediate'[Len(immediate) + i] = recorded + i
<1> DEFINE new == [i \in 1..n |-> recorded + i]
<1>1. recorded \in Nat /\ recorded' = recorded + n
  BY DEF TypeOK, Insert
<1>2. new \in Seq(Commands') /\ Len(new) = n
  BY <1>1, Renumbered DEF Commands
<1>3. Commands \subseteq Commands'
  BY <1>1 DEF Commands
<1>4. immediate \in Seq(Commands')
  BY <1>3, SeqMonotonic DEF TypeOK
<1>5. immediate' = immediate \o new
  BY DEF Insert
<1>6. \A i \in 1..n : new[i] = recorded + i
  OBVIOUS
<1> HIDE DEF new
<1>7. /\ immediate' \in Seq(Commands')
      /\ Len(immediate') = Len(immediate) + n
      /\ \A i \in 1..(Len(immediate) + n) : immediate'[i] =
            IF i <= Len(immediate) THEN immediate[i]
                                   ELSE new[i - Len(immediate)]
  BY <1>2, <1>4, <1>5, ConcatProperties
<1>8. Len(immediate) \in Nat
  BY <1>4, LenProperties
<1>9. ASSUME NEW i \in 1..n
      PROVE  immediate'[Len(immediate) + i] = recorded + i
  BY <1>6, <1>7, <1>8
<1> QED
  BY <1>1, <1>3, <1>7, <1>8, <1>9

LEMMA CommandsGrow ==
    ASSUME NEW C, NEW D, C \subseteq D,
           NEW l \in Seq(Seq(C)), NEW f \in Seq(C), NEW r \in Seq(C),
           NEW e \in Seq(C)
    PROVE  l \in Seq(Seq(D)) /\ f \in Seq(D) /\ r \in Seq(D) /\ e \in Seq(D)
BY SeqMonotonic

LEMMA InsertTypeOK ==
    ASSUME TypeOK, NEW n \in Nat, Insert(n)
    PROVE  /\ Commands \subseteq Commands'
           /\ recorded' \in Nat
           /\ immediate' \in Seq(Commands')
           /\ lists \in Seq(Seq(Commands'))
           /\ fenceCommand \in Seq(Commands')
           /\ remaining \in Seq(Commands')
           /\ executed \in Seq(Commands')
<1>1. Commands \subseteq Commands' /\ immediate' \in Seq(Commands')
  BY InsertType, Zenon
<1>2. recorded' \in Nat
  <2>1. recorded \in Nat /\ recorded' = recorded + n
    BY InsertType DEF TypeOK
  <2> QED
    BY <2>1
<1>3. /\ lists \in Seq(Seq(Commands)) /\ fenceCommand \in Seq(Commands)
      /\ remaining \in Seq(Commands) /\ executed \in Seq(Commands)
  BY DEF TypeOK
<1> QED
  BY <1>1, <1>2, <1>3, CommandsGrow, Zenon

LEMMA SmallTypes ==
    ASSUME TypeInv
    PROVE  /\ frame \in Nat /\ frame >= 1 /\ frame <= MaxFrame + 1
           /\ uploads \in Nat /\ uploads <= MaxUpload
           /\ recorded \in Nat
           /\ presentIndex \in 0..1
           /\ presentFences \in [0..1 -> 1..Len(fenceCommand) \cup {NoFence}]
           /\ Len(fenceCommand) \in Nat
           /\ FrameInv
           /\ MaxFrame \in Nat \ {0} /\ MaxUpload \in Nat
           /\ TaskSlots \in Nat \ {0}
<1>1. /\ frame \in 1..(MaxFrame + 1) /\ uploads \in 0..MaxUpload
      /\ recorded \in Nat
  BY DEF TypeInv, TypeOK
<1>2. fenceCommand \in Seq(Commands)
  BY DEF TypeInv, TypeOK
<1>3. /\ presentIndex \in 0..1 /\ FrameInv
      /\ presentFences \in [0..1 -> 1..Len(fenceCommand) \cup {NoFence}]
  BY DEF TypeInv, TypeOK
<1> QED
  BY <1>1, <1>2, <1>3, RenderAssumption, LenProperties

LEMMA TypeSubmitUpload == TypeInv /\ SubmitUpload => TypeInv'
<1> SUFFICES ASSUME TypeInv, SubmitUpload PROVE TypeInv'
  OBVIOUS
<1>1. TypeOK'
  <2>1. Insert(1) /\ TypeOK /\ 1 \in Nat
    BY DEF SubmitUpload, TypeInv
  <2>2. /\ recorded' \in Nat
        /\ immediate' \in Seq(Commands')
        /\ lists \in Seq(Seq(Commands'))
        /\ fenceCommand \in Seq(Commands')
        /\ remaining \in Seq(Commands')
        /\ executed \in Seq(Commands')
    BY <2>1, InsertTypeOK
  <2>3. uploads' \in 0..MaxUpload
    <3>1. uploads < MaxUpload /\ uploads' = uploads + 1
      BY DEF SubmitUpload
    <3> QED
      BY <3>1, SmallTypes
  <2> QED
    BY <2>1, <2>2, <2>3 DEF TypeOK, SubmitUpload, Tasks, commandVars
<1>2. FrameInv'
  <2>1. uploads' = uploads + 1 /\ mpc = "record" /\ mpc' = "flush upload"
        /\ UNCHANGED <<frame, fenceCommand, presentFences, presentIndex>>
    BY DEF SubmitUpload
  <2>2. uploads' > 0
    <3>1. uploads \in Nat
      BY SmallTypes
    <3>2. uploads' = uploads + 1
      BY <2>1
    <3> QED
      BY <3>1, <3>2
  <2> QED
    BY <2>1, <2>2 DEF FrameInv, TypeInv
<1> QED
  BY <1>1, <1>2 DEF TypeInv

LEMMA TypeEndFrame == TypeInv /\ EndFrame => TypeInv'
<1> SUFFICES ASSUME TypeInv, EndFrame PROVE TypeInv'
  OBVIOUS
<1>1. TypeOK'
  <2>1. Insert(1) /\ TypeOK /\ 1 \in Nat
    BY DEF EndFrame, TypeInv
  <2>2. /\ recorded' \in Nat
        /\ immediate' \in Seq(Commands')
        /\ lists \in Seq(Seq(Commands'))
        /\ fenceCommand \in Seq(Commands')
        /\ remaining \in Seq(Commands')
        /\ executed \in Seq(Commands')
    BY <2>1, InsertTypeOK
  <2> QED
    BY <2>1, <2>2 DEF TypeOK, EndFrame, Tasks, commandVars
<1>2. FrameInv'
  BY SmallTypes DEF FrameInv, EndFrame
<1> QED
  BY <1>1, <1>2 DEF TypeInv

LEMMA TypePresent == TypeInv /\ Present => TypeInv'
<1> SUFFICES ASSUME TypeInv, Present PROVE TypeInv'
  OBVIOUS
<1>1. Insert(2) /\ TypeOK /\ 2 \in Nat
  BY DEF Present, TypeInv
<1>2. /\ recorded' \in Nat
      /\ immediate' \in Seq(Commands')
      /\ lists \in Seq(Seq(Commands'))
      /\ fenceCommand \in Seq(Commands')
      /\ remaining \in Seq(Commands')
      /\ executed \in Seq(Commands')
  BY <1>1, InsertTypeOK
<1>3. recorded + 2 \in Commands'
  <2>1. recorded \in Nat /\ recorded' = recorded + 2
    BY <1>1 DEF TypeOK, Insert
  <2> QED
    BY <2>1 DEF Commands
<1>4. frame \in 1..MaxFrame /\ Len(fenceCommand) = frame - 1
  <2>1. frame <= MaxFrame /\ Len(fenceCommand) = frame - 1
    BY DEF TypeInv, FrameInv, Present
  <2> QED
    BY <2>1, SmallTypes
<1>5. /\ fenceCommand' \in Seq(Commands')
      /\ Len(fenceCommand') = frame
  <2>1. fenceCommand' = Append(fenceCommand, recorded + 2)
    BY DEF Present
  <2> QED
    BY <1>2, <1>3, <1>4, <2>1, AppendProperties
<1>6. presentFences' \in [0..1 -> 1..frame \cup {NoFence}]
  <2>1. /\ presentFences \in [0..1 -> 1..(frame - 1) \cup {NoFence}]
        /\ presentFences' = [presentFences EXCEPT ![presentIndex] = frame]
    BY <1>4 DEF TypeInv, TypeOK, Present
  <2>2. 1..(frame - 1) \cup {NoFence} \subseteq 1..frame \cup {NoFence}
        /\ frame \in 1..frame
    BY <1>4
  <2>3. presentFences \in [0..1 -> 1..frame \cup {NoFence}]
    BY <2>1, <2>2
  <2> QED
    BY <2>1, <2>2, <2>3
<1>7. TypeOK'
  BY <1>1, <1>2, <1>5, <1>6 DEF TypeOK, Present, Tasks, commandVars
<1>8. FrameInv'
  <2>1. /\ mpc' = "flush present" /\ frame' = frame
        /\ presentIndex' = presentIndex
        /\ presentFences[1 - presentIndex] = frame - 1
        /\ presentFences' = [presentFences EXCEPT ![presentIndex] = frame]
    BY DEF TypeInv, FrameInv, Present
  <2>2. presentIndex \in 0..1 /\ DOMAIN presentFences = 0..1
    BY SmallTypes
  <2>3. /\ presentFences'[presentIndex] = frame
        /\ presentFences'[1 - presentIndex] = frame - 1
    <3>1. presentIndex = 0 \/ presentIndex = 1
      BY <2>2
    <3>2. /\ 1 - presentIndex \in 0..1
          /\ 1 - presentIndex # presentIndex
      BY <3>1
    <3> QED
      BY <2>1, <2>2, <3>2
  <2>4. frame <= MaxFrame /\ frame - 1 <= frame
    BY <1>4
  <2> QED
    BY <1>5, <2>1, <2>3, <2>4 DEF FrameInv
<1> QED
  BY <1>7, <1>8 DEF TypeInv

LEMMA TypeSlotTaken == TypeInv /\ SlotTaken => TypeInv'
<1> SUFFICES ASSUME TypeInv, SlotTaken PROVE TypeInv'
  OBVIOUS
<1>1. slot' \in 1..TaskSlots
  <2>1. slot \in 1..TaskSlots
    BY DEF TypeInv, TypeOK
  <2>2. slot' = slot \/ (slot # TaskSlots /\ slot' = slot + 1)
    BY DEF SlotTaken, LastSlot
  <2> QED
    BY <2>1, <2>2, RenderAssumption
<1>2. mpc' \in {"flush upload", "flush end", "flush present",
               "out of tasks"}
  BY DEF SlotTaken, Flushing
<1>3. TypeOK'
  BY <1>1, <1>2
     DEF TypeInv, TypeOK, SlotTaken, Commands, Tasks, commandVars
<1>4. FrameInv'
  BY DEF TypeInv, TypeOK, FrameInv, SlotTaken, Flushing
<1> QED
  BY <1>3, <1>4 DEF TypeInv

LEMMA TypeFlush == TypeInv /\ Flush => TypeInv'
<1> SUFFICES ASSUME TypeInv, Flush PROVE TypeInv'
  OBVIOUS
<1>1. /\ lists' \in Seq(Seq(Commands))
      /\ Len(lists') = Len(lists) + 1
      /\ Len(lists) \in Nat
  BY AppendProperties, LenProperties DEF TypeInv, TypeOK, Flush
<1>2. Commands' = Commands /\ Tasks \subseteq Tasks'
      /\ Len(lists) + 1 \in Tasks'
  BY <1>1 DEF Commands, Tasks, Flush
<1>3. /\ arrivals' \in Seq(Tasks') /\ ready' \in Seq(Tasks')
  <2>1. <<Len(lists) + 1>> \in Seq(Tasks')
    BY <1>2
  <2>2. arrivals \in Seq(Tasks') /\ ready \in Seq(Tasks')
    BY <1>2, SeqMonotonic DEF TypeInv, TypeOK
  <2> QED
    BY <2>1, <2>2, ConcatProperties DEF Flush
<1>4. /\ commandTask' \in Tasks'
      /\ swapTasks' \in [1..TaskSlots -> Tasks' \cup {NoTask}]
      /\ slot' \in 1..TaskSlots
      /\ immediate' \in Seq(Commands')
  <2>1. commandTask \in Tasks' \cup {NoTask}
    BY <1>2 DEF TypeInv, TypeOK
  <2>2. swapTasks \in [1..TaskSlots -> Tasks' \cup {NoTask}]
    <3>1. swapTasks \in [1..TaskSlots -> Tasks \cup {NoTask}]
      BY DEF TypeInv, TypeOK
    <3>2. Tasks \cup {NoTask} \subseteq Tasks' \cup {NoTask}
      BY <1>2
    <3> QED
      BY <3>1, <3>2
  <2>3. slot' = 1 /\ immediate' = <<>> /\ commandTask' = Len(lists) + 1
        /\ swapTasks' = [swapTasks EXCEPT ![slot] = commandTask]
    BY DEF Flush
  <2>4. 1 \in 1..TaskSlots
    BY SmallTypes
  <2>5. immediate' \in Seq(Commands')
    BY <2>3
  <2>6. swapTasks' \in [1..TaskSlots -> Tasks' \cup {NoTask}]
    BY <2>1, <2>2, <2>3
  <2> QED
    BY <1>2, <2>3, <2>4, <2>5, <2>6
<1>5. mpc' \in {"record", "present", "wait"}
  BY DEF Flush, Flushing, AfterFlush
<1>6. TypeOK'
  BY <1>1, <1>2, <1>3, <1>4, <1>5 DEF TypeInv, TypeOK, Flush
<1>7. FrameInv'
  BY DEF TypeInv, TypeOK, FrameInv, Flush, Flushing, AfterFlush
<1> QED
  BY <1>6, <1>7 DEF TypeInv

LEMMA TypeWaitPrevious == TypeInv /\ WaitPrevious => TypeInv'
<1> SUFFICES ASSUME TypeInv, WaitPrevious PROVE TypeInv'
  OBVIOUS
<1>1. presentIndex \in 0..1 /\ frame \in 1..MaxFrame
  BY DEF TypeInv, TypeOK, FrameInv, WaitPrevious
<1>2. TypeOK'
  BY <1>1, RenderAssumption
     DEF TypeInv, TypeOK, WaitPrevious, Commands, Tasks, commandVars
<1>3. FrameInv'
  BY <1>1, RenderAssumption DEF TypeInv, TypeOK, FrameInv, WaitPrevious
<1> QED
  BY <1>2, <1>3 DEF TypeInv

LEMMA TypePop == TypeInv /\ Pop => TypeInv'
<1> SUFFICES ASSUME TypeInv, Pop PROVE TypeInv'
  OBVIOUS
<1> DEFINE list == IF ready = <<>> THEN Reversed(arrivals) ELSE ready
<1>1. list \in Seq(Tasks)
  BY ReverseType DEF TypeInv, TypeOK, Reversed
<1>2. /\ list # <<>> /\ running' = Head(list)
      /\ remaining' = lists[Head(list)] /\ ready' = Tail(list)
      /\ arrivals' = IF ready = <<>> THEN <<>> ELSE arrivals
      /\ UNCHANGED <<mainVars, executed, done>>
  BY DEF Pop
<1> HIDE DEF list
<1>3. Head(list) \in Tasks /\ Tail(list) \in Seq(Tasks)
  BY <1>1, <1>2, HeadTailProperties
<1>4. lists[Head(list)] \in Seq(Commands)
  BY <1>3, ElementOfSeq DEF TypeInv, TypeOK, Tasks
<1>5. arrivals' \in Seq(Tasks)
  BY <1>2 DEF TypeInv, TypeOK
<1>6. Tasks' = Tasks /\ Commands' = Commands
  BY <1>2 DEF Tasks, Commands, mainVars
<1>7. TypeOK'
  BY <1>2, <1>3, <1>4, <1>5, <1>6 DEF TypeInv, TypeOK, mainVars
<1>8. FrameInv'
  BY <1>2 DEF TypeInv, FrameInv, mainVars
<1> QED
  BY <1>7, <1>8 DEF TypeInv

LEMMA TypeExecute == TypeInv /\ Execute => TypeInv'
<1> SUFFICES ASSUME TypeInv, Execute PROVE TypeInv'
  OBVIOUS
<1>1. Head(remaining) \in Commands /\ remaining' \in Seq(Commands)
  BY HeadTailProperties DEF TypeInv, TypeOK, Execute
<1>2. executed' \in Seq(Commands)
  BY <1>1, AppendProperties DEF TypeInv, TypeOK, Execute
<1>3. Tasks' = Tasks /\ Commands' = Commands
  BY DEF Execute, Tasks, Commands, mainVars
<1>4. TypeOK'
  BY <1>1, <1>2, <1>3 DEF TypeInv, TypeOK, Execute, mainVars
<1>5. FrameInv'
  BY DEF TypeInv, FrameInv, Execute, mainVars
<1> QED
  BY <1>4, <1>5 DEF TypeInv

LEMMA TypeFinish == TypeInv /\ Finish => TypeInv'
<1> SUFFICES ASSUME TypeInv, Finish PROVE TypeInv'
  OBVIOUS
<1>1. TypeOK'
  BY DEF TypeInv, TypeOK, Finish, mainVars, Tasks, Commands
<1>2. FrameInv'
  BY DEF TypeInv, FrameInv, Finish, mainVars
<1> QED
  BY <1>1, <1>2 DEF TypeInv

LEMMA TypeNext == TypeInv /\ [Next]_vars => TypeInv'
<1> SUFFICES ASSUME TypeInv, [Next]_vars PROVE TypeInv'
  OBVIOUS
<1>1. CASE UNCHANGED vars
  BY <1>1 DEF vars, mainVars, commandVars, TypeInv, TypeOK, FrameInv,
              Tasks, Commands
<1> QED
  BY <1>1, TypeSubmitUpload, TypeEndFrame, TypePresent, TypeSlotTaken,
     TypeFlush, TypeWaitPrevious, TypePop, TypeExecute, TypeFinish
     DEF Next, MainThread, CommandThread

(***************************************************************************)
(* Every variable keeps its type for any number of frames, uploads and     *)
(* slots; in particular assign never reads behind the last slot.           *)
(***************************************************************************)
THEOREM TypeCorrect == Spec => []TypeOK
<1>1. Spec => []TypeInv
  BY TypeInit, TypeNext, PTL DEF Spec
<1>2. TypeInv => TypeOK
  BY DEF TypeInv
<1> QED
  BY <1>1, <1>2, PTL

-----------------------------------------------------------------------------
(***************************************************************************)
(* The commands of the lists ls, the immediate list im and the number n of *)
(* recorded commands: each list continues where the one before it ends.    *)
(***************************************************************************)
EndIn(ls, t) == IF t = 0 THEN 0 ELSE ls[t][Len(ls[t])]

ListOK(ls, t) ==
    /\ EndIn(ls, t) \in Nat
    /\ Len(ls[t]) = EndIn(ls, t) - EndIn(ls, t - 1)
    /\ \A i \in 1..Len(ls[t]) : ls[t][i] = EndIn(ls, t - 1) + i

Rising(ls) ==
    \A t, u \in 0..Len(ls) : t < u => EndIn(ls, t) < EndIn(ls, u)

Covered(ls) ==
    \A c \in 1..EndIn(ls, Len(ls)) :
        \E t \in 1..Len(ls) : EndIn(ls, t - 1) < c /\ c <= EndIn(ls, t)

Consecutive(ls, im, n) ==
    /\ EndIn(ls, Len(ls)) \in Nat
    /\ n = EndIn(ls, Len(ls)) + Len(im)
    /\ \A i \in 1..Len(im) : im[i] = EndIn(ls, Len(ls)) + i
    /\ \A t \in 1..Len(ls) : ListOK(ls, t)
    /\ Rising(ls)
    /\ Covered(ls)

LEMMA ConsecutiveInsert ==
    ASSUME NEW ls, NEW im, NEW n \in Nat, NEW k \in Nat, NEW im2,
           Consecutive(ls, im, n), Len(im) \in Nat,
           Len(im2) = Len(im) + k,
           \A i \in 1..Len(im) : im2[i] = im[i],
           \A i \in 1..k : im2[Len(im) + i] = n + i
    PROVE  Consecutive(ls, im2, n + k)
<1> DEFINE e == EndIn(ls, Len(ls))
<1>1. e \in Nat /\ n = e + Len(im) /\ \A i \in 1..Len(im) : im[i] = e + i
  BY DEF Consecutive
<1>2. /\ \A t \in 1..Len(ls) : ListOK(ls, t)
      /\ Rising(ls) /\ Covered(ls)
  BY DEF Consecutive
<1> HIDE DEF e
<1>3. ASSUME NEW i \in 1..Len(im2) PROVE im2[i] = e + i
  <2>1. CASE i \in 1..Len(im)
    BY <1>1, <2>1
  <2>2. CASE i \notin 1..Len(im)
    <3> DEFINE j == i - Len(im)
    <3>1. j \in 1..k /\ i = Len(im) + j
      BY <2>2
    <3> HIDE DEF j
    <3>2. im2[i] = n + j
      BY <3>1
    <3> QED
      BY <1>1, <3>1, <3>2
  <2> QED
    BY <2>1, <2>2
<1>4. n + k = e + Len(im2)
  BY <1>1
<1> QED
  BY <1>1, <1>2, <1>3, <1>4 DEF Consecutive, e

LEMMA EndInAppend ==
    ASSUME NEW S, NEW ls \in Seq(S), NEW im \in S
    PROVE  /\ Len(Append(ls, im)) = Len(ls) + 1
           /\ Append(ls, im)[Len(ls) + 1] = im
           /\ \A t \in 1..Len(ls) : Append(ls, im)[t] = ls[t]
           /\ \A t \in 0..Len(ls) : EndIn(Append(ls, im), t) = EndIn(ls, t)
           /\ EndIn(Append(ls, im), Len(ls) + 1) = im[Len(im)]
<1>1. /\ Len(Append(ls, im)) = Len(ls) + 1
      /\ Append(ls, im)[Len(ls) + 1] = im
      /\ \A t \in 1..Len(ls) : Append(ls, im)[t] = ls[t]
      /\ Len(ls) \in Nat
  BY AppendProperties, LenProperties
<1> QED
  BY <1>1 DEF EndIn

LEMMA ConsecutiveFlush ==
    ASSUME NEW S, NEW ls \in Seq(S), NEW im \in S, NEW n \in Nat,
           Len(im) \in Nat, Len(im) > 0, Consecutive(ls, im, n)
    PROVE  Consecutive(Append(ls, im), <<>>, n)
<1> DEFINE ls2 == Append(ls, im)
           L == Len(ls)
           e == EndIn(ls, L)
<1>1. /\ Len(ls2) = L + 1 /\ ls2[L + 1] = im
      /\ \A t \in 1..L : ls2[t] = ls[t]
      /\ \A t \in 0..L : EndIn(ls2, t) = EndIn(ls, t)
      /\ EndIn(ls2, L + 1) = im[Len(im)]
  BY EndInAppend
<1>2. L \in Nat
  BY LenProperties
<1>3. /\ e \in Nat
      /\ n = e + Len(im)
      /\ \A i \in 1..Len(im) : im[i] = e + i
      /\ \A t \in 1..L : ListOK(ls, t)
      /\ Rising(ls)
      /\ Covered(ls)
  BY DEF Consecutive
<1>4. EndIn(ls2, L) = e
  BY <1>1, <1>2
<1> HIDE DEF ls2
<1>5. im[Len(im)] = n
  BY <1>3
<1>6. EndIn(ls2, L + 1) = n
  BY <1>1, <1>5
<1>7. ASSUME NEW t \in 1..Len(ls2) PROVE ListOK(ls2, t)
  <2>1. CASE t = L + 1
    <3>1. t - 1 = L /\ ls2[t] = im
      BY <1>1, <1>2, <2>1
    <3> QED
      BY <1>3, <1>4, <1>6, <2>1, <3>1 DEF ListOK
  <2>2. CASE t # L + 1
    <3>1. t \in 1..L /\ t \in 0..L /\ t - 1 \in 0..L
      BY <1>1, <1>2, <2>2
    <3>2. /\ EndIn(ls2, t) = EndIn(ls, t)
          /\ EndIn(ls2, t - 1) = EndIn(ls, t - 1)
          /\ ls2[t] = ls[t]
      BY <1>1, <3>1
    <3> QED
      BY <1>3, <3>1, <3>2 DEF ListOK
  <2> QED
    BY <2>1, <2>2
<1>8. Rising(ls2)
  <2> SUFFICES ASSUME NEW t \in 0..Len(ls2), NEW u \in 0..Len(ls2), t < u
               PROVE  EndIn(ls2, t) < EndIn(ls2, u)
    BY DEF Rising
  <2>1. t \in 0..L
    BY <1>1, <1>2
  <2>2. CASE u = L + 1
    <3>1. EndIn(ls2, u) = n /\ EndIn(ls2, t) = EndIn(ls, t)
      BY <1>1, <1>6, <2>1, <2>2
    <3>2. t = L \/ (t < L /\ L \in 0..L)
      BY <1>2, <2>1
    <3>3. t < L => EndIn(ls, t) < e
      BY <1>3, <2>1, <3>2 DEF Rising
    <3>4. e < n
      BY <1>3
    <3>5. CASE t = L
      BY <1>3, <3>1, <3>4, <3>5
    <3>6. CASE t < L
      <4>1. EndIn(ls, t) \in Nat
        <5>1. CASE t = 0
          BY <5>1 DEF EndIn
        <5>2. CASE t \in 1..L
          BY <1>3, <5>2 DEF ListOK
        <5> QED
          BY <2>1, <1>2, <5>1, <5>2
      <4>2. EndIn(ls, t) < e
        BY <3>3, <3>6
      <4> HIDE DEF e
      <4> QED
        BY <1>3, <3>1, <3>4, <4>1, <4>2
    <3> QED
      BY <3>2, <3>5, <3>6
  <2>3. CASE u # L + 1
    <3>1. u \in 0..L
      BY <1>1, <1>2, <2>3
    <3> QED
      BY <1>1, <1>3, <2>1, <3>1 DEF Rising
  <2> QED
    BY <2>2, <2>3
<1>9. Covered(ls2)
  <2> SUFFICES ASSUME NEW c \in 1..n
               PROVE  \E t \in 1..(L + 1) :
                        EndIn(ls2, t - 1) < c /\ c <= EndIn(ls2, t)
    BY <1>1, <1>6 DEF Covered
  <2>1. CASE c <= e
    <3>1. c \in 1..e
      BY <1>3, <2>1
    <3>2. PICK t \in 1..L : EndIn(ls, t - 1) < c /\ c <= EndIn(ls, t)
      BY <1>3, <3>1 DEF Covered
    <3>3. t \in 0..L /\ t - 1 \in 0..L /\ t \in 1..(L + 1)
      BY <1>2
    <3> QED
      BY <1>1, <3>2, <3>3
  <2>2. CASE e < c
    <3>1. L + 1 \in 1..(L + 1) /\ (L + 1) - 1 = L
      BY <1>2
    <3> QED
      BY <1>4, <1>6, <2>2, <3>1
  <2> QED
    BY <1>3, <2>1, <2>2
<1> QED
  <2>1. Len(<<>>) = 0
    OBVIOUS
  <2> QED
    BY <1>1, <1>6, <1>7, <1>8, <1>9, <2>1 DEF Consecutive, ls2

-----------------------------------------------------------------------------
(***************************************************************************)
(* The queue of the command thread holds the latest of the tasks started,  *)
(* in order; the ones before have run, but for the one that is running.    *)
(***************************************************************************)
Popped == Len(lists) - (Len(ready) + Len(arrivals))

QueueInv ==
    /\ Popped \in Nat
    /\ \A i \in 1..Len(ready) : ready[i] = Popped + i
    /\ \A i \in 1..Len(arrivals) : arrivals[i] = Len(lists) - i + 1
    /\ running # NoTask => running = Popped
    /\ done = (1..Popped) \ {running}

(***************************************************************************)
(* What has been executed, and what is left of the running task, are the   *)
(* commands up to the end of the last task popped.                         *)
(***************************************************************************)
ExecutedInv ==
    /\ \A i \in 1..Len(executed) : executed[i] = i
    /\ \A i \in 1..Len(remaining) : remaining[i] = Len(executed) + i
    /\ Len(executed) + Len(remaining) = EndIn(lists, Popped)
    /\ running = NoTask => remaining = <<>>

OrderInv ==
    /\ Consecutive(lists, immediate, recorded)
    /\ Flushing => Len(immediate) > 0
    /\ QueueInv
    /\ ExecutedInv

LEMMA OrderInit == Init => OrderInv
<1> SUFFICES ASSUME Init PROVE OrderInv
  OBVIOUS
<1>1. Consecutive(lists, immediate, recorded)
  <2>1. lists = <<>> /\ immediate = <<>> /\ recorded = 0
    BY DEF Init
  <2>2. Len(lists) = 0 /\ Len(immediate) = 0 /\ EndIn(lists, 0) = 0
    BY <2>1 DEF EndIn
  <2>3. 1..0 = {} /\ \A t, u \in 0..0 : ~ t < u
    OBVIOUS
  <2>4. Rising(lists)
    BY <2>2, <2>3 DEF Rising
  <2>5. Covered(lists)
    BY <2>2, <2>3 DEF Covered
  <2> QED
    BY <2>1, <2>2, <2>3, <2>4, <2>5 DEF Consecutive
<1>2. Popped = 0
  BY DEF Init, Popped
<1>3. QueueInv
  BY <1>2 DEF Init, QueueInv, NoTask
<1>4. ExecutedInv
  BY <1>2 DEF Init, ExecutedInv, EndIn
<1> QED
  BY <1>1, <1>3, <1>4 DEF Init, OrderInv, Flushing

LEMMA Lengths ==
    ASSUME TypeInv
    PROVE  /\ Len(lists) \in Nat /\ Len(immediate) \in Nat
           /\ Len(ready) \in Nat /\ Len(arrivals) \in Nat
           /\ Len(executed) \in Nat /\ Len(remaining) \in Nat
           /\ lists \in Seq(Seq(Commands)) /\ immediate \in Seq(Commands)
           /\ ready \in Seq(Tasks) /\ arrivals \in Seq(Tasks)
           /\ executed \in Seq(Commands) /\ remaining \in Seq(Commands)
<1>1. /\ lists \in Seq(Seq(Commands)) /\ immediate \in Seq(Commands)
      /\ ready \in Seq(Tasks) /\ arrivals \in Seq(Tasks)
      /\ executed \in Seq(Commands) /\ remaining \in Seq(Commands)
  BY DEF TypeInv, TypeOK
<1> QED
  BY <1>1, LenProperties

(***************************************************************************)
(* Steps that leave the command thread alone.                              *)
(***************************************************************************)
LEMMA QueueUnchanged ==
    ASSUME QueueInv, ExecutedInv, UNCHANGED <<lists, commandVars>>
    PROVE  QueueInv' /\ ExecutedInv'
<1>1. UNCHANGED <<lists, arrivals, ready, running, remaining, executed, done>>
  BY DEF commandVars
<1>2. Popped' = Popped
  BY <1>1 DEF Popped
<1> QED
  BY <1>1, <1>2 DEF QueueInv, ExecutedInv

LEMMA OrderInsert ==
    ASSUME TypeInv, OrderInv, NEW n \in Nat, n > 0, Insert(n),
           UNCHANGED <<lists, commandVars>>
    PROVE  OrderInv'
<1>1. TypeOK
  BY DEF TypeInv
<1>2. /\ Len(immediate') = Len(immediate) + n
      /\ recorded' = recorded + n
      /\ \A i \in 1..Len(immediate) : immediate'[i] = immediate[i]
      /\ \A i \in 1..n : immediate'[Len(immediate) + i] = recorded + i
  BY <1>1, InsertType
<1>3. Len(immediate) \in Nat /\ recorded \in Nat
  BY Lengths, SmallTypes
<1>4. Consecutive(lists, immediate, recorded)
  BY DEF OrderInv
<1>5. Consecutive(lists, immediate', recorded + n)
  BY <1>2, <1>3, <1>4, ConsecutiveInsert
<1>6. Len(immediate') > 0
  BY <1>2, <1>3
<1>7. QueueInv' /\ ExecutedInv'
  BY QueueUnchanged DEF OrderInv
<1> QED
  BY <1>2, <1>5, <1>6, <1>7 DEF OrderInv

LEMMA OrderMain ==
    TypeInv /\ OrderInv
        /\ (SubmitUpload \/ EndFrame \/ Present \/ SlotTaken \/ WaitPrevious)
    => OrderInv'
<1>1. ASSUME TypeInv, OrderInv, SubmitUpload \/ EndFrame PROVE OrderInv'
  <2>1. Insert(1) /\ UNCHANGED <<lists, commandVars>>
    BY <1>1 DEF SubmitUpload, EndFrame, commandVars
  <2>2. 1 \in Nat /\ 1 > 0
    OBVIOUS
  <2> QED
    BY <1>1, <2>1, <2>2, OrderInsert
<1>2. ASSUME TypeInv, OrderInv, Present PROVE OrderInv'
  <2>1. Insert(2) /\ UNCHANGED <<lists, commandVars>>
    BY <1>2 DEF Present, commandVars
  <2>2. 2 \in Nat /\ 2 > 0
    OBVIOUS
  <2> QED
    BY <1>2, <2>1, <2>2, OrderInsert
<1>3. ASSUME TypeInv, OrderInv, SlotTaken \/ WaitPrevious PROVE OrderInv'
  <2>1. UNCHANGED <<lists, immediate, recorded, commandVars>>
    BY <1>3 DEF SlotTaken, WaitPrevious
  <2>2. Flushing' => Flushing
    BY <1>3 DEF SlotTaken, WaitPrevious, Flushing
  <2>3. QueueInv' /\ ExecutedInv'
    BY <1>3, <2>1, QueueUnchanged DEF OrderInv
  <2> QED
    BY <1>3, <2>1, <2>2, <2>3 DEF OrderInv
<1> QED
  BY <1>1, <1>2, <1>3

LEMMA OrderFlush == TypeInv /\ OrderInv /\ Flush => OrderInv'
<1> SUFFICES ASSUME TypeInv, OrderInv, Flush PROVE OrderInv'
  OBVIOUS
<1>1. /\ Flushing
      /\ lists' = Append(lists, immediate) /\ immediate' = <<>>
      /\ arrivals' = <<Len(lists) + 1>> \o arrivals
      /\ mpc' = AfterFlush
      /\ UNCHANGED <<recorded, ready, running, remaining, executed, done>>
  BY DEF Flush
<1>2. Consecutive(lists', immediate', recorded')
  <2>1. Len(immediate) > 0 /\ Consecutive(lists, immediate, recorded)
    BY <1>1 DEF OrderInv
  <2> QED
    BY <1>1, <2>1, Lengths, SmallTypes, ConsecutiveFlush
<1>3. ~ Flushing'
  BY <1>1 DEF AfterFlush, Flushing
<1>4. /\ Len(lists') = Len(lists) + 1
      /\ \A t \in 0..Len(lists) : EndIn(lists', t) = EndIn(lists, t)
  BY <1>1, Lengths, EndInAppend
<1>5. /\ Len(arrivals') = Len(arrivals) + 1
      /\ \A i \in 1..(Len(arrivals) + 1) : arrivals'[i] =
            IF i = 1 THEN Len(lists) + 1 ELSE arrivals[i - 1]
  <2> DEFINE new == <<Len(lists) + 1>>
             S == Nat
  <2>1. new \in Seq(S) /\ Len(new) = 1 /\ new[1] = Len(lists) + 1
    BY Lengths
  <2>2. arrivals \in Seq(S)
    BY Lengths, SeqMonotonic DEF Tasks
  <2> HIDE DEF new, S
  <2>3. /\ Len(new \o arrivals) = Len(new) + Len(arrivals)
        /\ \A i \in 1..Len(new) + Len(arrivals) : (new \o arrivals)[i] =
              IF i <= Len(new) THEN new[i] ELSE arrivals[i - Len(new)]
    BY <2>1, <2>2, ConcatProperties
  <2> QED
    BY <1>1, <2>1, <2>3, Lengths DEF new
<1>6. Popped' = Popped /\ Popped \in 0..Len(lists)
  <2>1. Popped \in Nat
    BY DEF OrderInv, QueueInv
  <2> QED
    BY <1>1, <1>4, <1>5, <2>1, Lengths DEF Popped
<1>7. QueueInv'
  <2>1. \A i \in 1..Len(arrivals') : arrivals'[i] = Len(lists') - i + 1
    <3>1. ASSUME NEW i \in 1..Len(arrivals')
          PROVE  arrivals'[i] = Len(lists') - i + 1
      <4>1. \A j \in 1..Len(arrivals) : arrivals[j] = Len(lists) - j + 1
        BY DEF OrderInv, QueueInv
      <4>2. CASE i = 1
        BY <1>4, <1>5, <4>2, Lengths
      <4>3. CASE i # 1
        <5>1. i - 1 \in 1..Len(arrivals) /\ arrivals'[i] = arrivals[i - 1]
          BY <1>5, <4>3, Lengths
        <5> QED
          BY <1>4, <4>1, <5>1, Lengths
      <4> QED
        BY <4>2, <4>3
    <3> QED
      BY <3>1
  <2> QED
    BY <1>1, <1>6, <2>1 DEF OrderInv, QueueInv
<1>8. ExecutedInv'
  <2>1. EndIn(lists', Popped') = EndIn(lists, Popped)
    BY <1>4, <1>6
  <2> QED
    BY <1>1, <2>1 DEF OrderInv, ExecutedInv
<1> QED
  BY <1>2, <1>3, <1>7, <1>8 DEF OrderInv

(***************************************************************************)
(* The list that a pop takes the next task from, reversed or not.          *)
(***************************************************************************)
LEMMA NextTasks ==
    ASSUME TypeInv, OrderInv, Pop
    PROVE  \E list \in Seq(Tasks) :
            /\ list # <<>>
            /\ running' = Head(list)
            /\ remaining' = lists[Head(list)]
            /\ ready' = Tail(list)
            /\ Len(list) + Len(arrivals') = Len(ready) + Len(arrivals)
            /\ \A i \in 1..Len(list) : list[i] = Popped + i
            /\ \A i \in 1..Len(arrivals') : arrivals'[i] = Len(lists) - i + 1
<1>1. /\ \A i \in 1..Len(ready) : ready[i] = Popped + i
      /\ \A i \in 1..Len(arrivals) : arrivals[i] = Len(lists) - i + 1
  BY DEF OrderInv, QueueInv
<1>2. CASE ready # <<>>
  <2>1. /\ running' = Head(ready) /\ remaining' = lists[Head(ready)]
        /\ ready' = Tail(ready) /\ arrivals' = arrivals
    BY <1>2 DEF Pop
  <2> QED
    BY <1>1, <1>2, <2>1, Lengths
<1>3. CASE ready = <<>>
  <2> DEFINE list == Reverse(arrivals)
  <2>1. /\ list # <<>> /\ running' = Head(list)
        /\ remaining' = lists[Head(list)]
        /\ ready' = Tail(list) /\ arrivals' = <<>>
    BY <1>3 DEF Pop, Reversed
  <2>2. /\ list \in Seq(Tasks) /\ Len(list) = Len(arrivals)
        /\ \A i \in 1..Len(arrivals) :
              list[i] = arrivals[Len(arrivals) - i + 1]
    BY Lengths, ReverseType
  <2> HIDE DEF list
  <2>3. Popped = Len(lists) - Len(arrivals) /\ Len(ready) = 0
    BY <1>3, Lengths DEF Popped
  <2>4. ASSUME NEW i \in 1..Len(list) PROVE list[i] = Popped + i
    <3> DEFINE j == Len(arrivals) - i + 1
    <3>1. j \in 1..Len(arrivals) /\ list[i] = arrivals[j]
      BY <2>2, Lengths
    <3>2. arrivals[j] = Len(lists) - j + 1
      BY <1>1, <3>1
    <3> QED
      BY <2>2, <2>3, <3>1, <3>2, Lengths
  <2>5. Len(arrivals') = 0
    BY <2>1
  <2> QED
    BY <2>1, <2>2, <2>3, <2>4, <2>5, Lengths
<1> QED
  BY <1>2, <1>3

LEMMA OrderPop == TypeInv /\ OrderInv /\ Pop => OrderInv'
<1> SUFFICES ASSUME TypeInv, OrderInv, Pop PROVE OrderInv'
  OBVIOUS
<1>1. /\ running = NoTask
      /\ UNCHANGED <<mainVars, executed, done>>
  BY DEF Pop
<1>2. UNCHANGED <<mpc, recorded, immediate, lists, executed, done>>
  BY <1>1 DEF mainVars
<1>3. PICK list \in Seq(Tasks) :
            /\ list # <<>>
            /\ running' = Head(list)
            /\ remaining' = lists[Head(list)]
            /\ ready' = Tail(list)
            /\ Len(list) + Len(arrivals') = Len(ready) + Len(arrivals)
            /\ \A i \in 1..Len(list) : list[i] = Popped + i
            /\ \A i \in 1..Len(arrivals') : arrivals'[i] = Len(lists) - i + 1
  BY NextTasks
<1>4. /\ Len(list) \in Nat \ {0} /\ Head(list) = list[1]
      /\ Len(ready') = Len(list) - 1
      /\ \A i \in 1..Len(ready') : ready'[i] = list[i + 1]
  BY <1>3, HeadTailProperties, LenProperties, EmptySeq
<1>5. Popped \in Nat /\ done = 1..Popped /\ remaining = <<>>
      /\ Len(executed) + Len(remaining) = EndIn(lists, Popped)
  BY <1>1 DEF OrderInv, QueueInv, ExecutedInv, NoTask
<1>6. running' = Popped + 1 /\ Popped + 1 \in Tasks
  <2>1. list[1] = Popped + 1 /\ list[1] \in Tasks
    BY <1>3, <1>4, ElementOfSeq
  <2> QED
    BY <1>3, <1>4, <2>1
<1>7. Len(arrivals') \in Nat
  <2>1. arrivals' \in Seq(Tasks) \/ arrivals' = <<>>
    BY Lengths DEF Pop
  <2> QED
    BY <2>1, LenProperties
<1>8. Popped' = Popped + 1
  <2>1. Popped = Len(lists) - (Len(ready) + Len(arrivals))
    BY DEF Popped
  <2>2. Popped' = Len(lists) - (Len(ready') + Len(arrivals'))
    BY <1>2 DEF Popped
  <2>3. /\ Len(list) + Len(arrivals') = Len(ready) + Len(arrivals)
        /\ Len(ready') = Len(list) - 1
        /\ Len(list) \in Nat
    BY <1>3, <1>4
  <2>4. /\ Len(lists) \in Nat /\ Len(ready) \in Nat
        /\ Len(arrivals) \in Nat
    BY Lengths
  <2> QED
    BY <1>7, <2>1, <2>2, <2>3, <2>4
<1>9. QueueInv'
  <2>1. ASSUME NEW i \in 1..Len(ready') PROVE ready'[i] = Popped' + i
    <3>1. i + 1 \in 1..Len(list)
      BY <1>4
    <3>2. ready'[i] = Popped + (i + 1)
      BY <1>3, <1>4, <3>1
    <3> QED
      BY <1>5, <1>8, <3>2
  <2>2. done' = (1..Popped') \ {running'}
    <3>1. (1..(Popped + 1)) \ {Popped + 1} = 1..Popped
      BY <1>5
    <3> QED
      BY <1>2, <1>5, <1>6, <1>8, <3>1
  <2> QED
    BY <1>2, <1>3, <1>5, <1>6, <1>8, <2>1, <2>2 DEF QueueInv
<1>10. ExecutedInv'
  <2>1. ListOK(lists, Popped + 1)
    BY <1>6 DEF OrderInv, Consecutive, Tasks
  <2>2. remaining' = lists[Popped + 1]
    BY <1>3, <1>6
  <2>3. Len(executed) = EndIn(lists, Popped)
    BY <1>5, Lengths
  <2>4. (Popped + 1) - 1 = Popped
    BY <1>5
  <2>5. /\ EndIn(lists, Popped + 1) \in Nat
        /\ Len(remaining') = EndIn(lists, Popped + 1) - EndIn(lists, Popped)
        /\ \A i \in 1..Len(remaining') :
              remaining'[i] = EndIn(lists, Popped) + i
    BY <2>1, <2>2, <2>4 DEF ListOK
  <2>6. running' # NoTask
    BY <1>5, <1>6 DEF NoTask
  <2>7. Len(executed') + Len(remaining') = EndIn(lists', Popped')
    <3>1. Len(executed) \in Nat
      BY Lengths
    <3> QED
      BY <1>2, <1>8, <2>3, <2>5, <3>1
  <2> QED
    BY <1>2, <2>3, <2>5, <2>6, <2>7 DEF OrderInv, ExecutedInv
<1> QED
  BY <1>2, <1>9, <1>10 DEF OrderInv, Flushing

LEMMA OrderExecute == TypeInv /\ OrderInv /\ Execute => OrderInv'
<1> SUFFICES ASSUME TypeInv, OrderInv, Execute PROVE OrderInv'
  OBVIOUS
<1>1. /\ remaining # <<>>
      /\ executed' = Append(executed, Head(remaining))
      /\ remaining' = Tail(remaining)
      /\ UNCHANGED <<mpc, recorded, immediate, lists>>
      /\ UNCHANGED <<arrivals, ready, running, done>>
  BY DEF Execute, mainVars
<1>2. Popped' = Popped
  BY <1>1 DEF Popped
<1>3. /\ Len(executed') = Len(executed) + 1
      /\ executed'[Len(executed) + 1] = Head(remaining)
      /\ \A i \in 1..Len(executed) : executed'[i] = executed[i]
  <2>1. Head(remaining) \in Commands
    BY <1>1, Lengths, HeadTailProperties
  <2> QED
    BY <1>1, <2>1, Lengths, AppendProperties
<1>4. /\ Len(remaining) \in Nat \ {0}
      /\ Head(remaining) = remaining[1]
      /\ Len(remaining') = Len(remaining) - 1
      /\ \A i \in 1..Len(remaining') : remaining'[i] = remaining[i + 1]
  BY <1>1, Lengths, HeadTailProperties, LenProperties, EmptySeq
<1>5. /\ \A i \in 1..Len(executed) : executed[i] = i
      /\ \A i \in 1..Len(remaining) : remaining[i] = Len(executed) + i
      /\ Len(executed) + Len(remaining) = EndIn(lists, Popped)
      /\ running # NoTask
  BY <1>1 DEF OrderInv, ExecutedInv
<1>6. Len(executed) \in Nat
  BY Lengths
<1>7. ASSUME NEW i \in 1..Len(executed') PROVE executed'[i] = i
  <2>1. CASE i = Len(executed) + 1
    BY <1>3, <1>4, <1>5, <2>1
  <2>2. CASE i \in 1..Len(executed)
    BY <1>3, <1>5, <2>2
  <2> QED
    BY <1>3, <1>6, <2>1, <2>2
<1>8. ASSUME NEW i \in 1..Len(remaining')
      PROVE  remaining'[i] = Len(executed') + i
  <2>1. i + 1 \in 1..Len(remaining)
    BY <1>4
  <2>2. remaining'[i] = Len(executed) + (i + 1)
    BY <1>4, <1>5, <2>1
  <2> QED
    BY <1>3, <1>6, <2>2
<1>9. Len(executed') + Len(remaining') = EndIn(lists', Popped')
  <2>1. Len(executed') + Len(remaining') = Len(executed) + Len(remaining)
    BY <1>3, <1>4, <1>6
  <2> QED
    BY <1>1, <1>2, <1>5, <2>1
<1>10. ExecutedInv'
  BY <1>1, <1>5, <1>7, <1>8, <1>9 DEF ExecutedInv
<1>11. QueueInv'
  BY <1>1, <1>2 DEF OrderInv, QueueInv
<1> QED
  BY <1>1, <1>10, <1>11 DEF OrderInv, Flushing

LEMMA OrderFinish == TypeInv /\ OrderInv /\ Finish => OrderInv'
<1> SUFFICES ASSUME TypeInv, OrderInv, Finish PROVE OrderInv'
  OBVIOUS
<1>1. /\ running # NoTask /\ remaining = <<>>
      /\ done' = done \cup {running} /\ running' = NoTask
      /\ UNCHANGED <<mpc, recorded, immediate, lists>>
      /\ UNCHANGED <<arrivals, ready, remaining, executed>>
  BY DEF Finish, mainVars
<1>2. Popped' = Popped
  BY <1>1 DEF Popped
<1>3. running = Popped /\ done = (1..Popped) \ {running} /\ Popped \in Nat
  BY <1>1 DEF OrderInv, QueueInv
<1>4. done' = (1..Popped') \ {running'}
  <2>1. Popped > 0
    BY <1>1, <1>3 DEF NoTask
  <2>2. Popped \in 1..Popped /\ 0 \notin 1..Popped
    BY <1>3, <2>1
  <2> QED
    BY <1>1, <1>2, <1>3, <2>2 DEF NoTask
<1>5. QueueInv'
  BY <1>1, <1>2, <1>4 DEF OrderInv, QueueInv
<1>6. ExecutedInv'
  BY <1>1, <1>2 DEF OrderInv, ExecutedInv
<1> QED
  BY <1>1, <1>5, <1>6 DEF OrderInv, Flushing

LEMMA OrderNext == TypeInv /\ OrderInv /\ [Next]_vars => OrderInv'
<1> SUFFICES ASSUME TypeInv, OrderInv, [Next]_vars PROVE OrderInv'
  OBVIOUS
<1>1. CASE UNCHANGED vars
  <2>1. UNCHANGED <<mpc, recorded, immediate, lists, commandVars>>
    BY <1>1 DEF vars, mainVars
  <2>2. QueueInv' /\ ExecutedInv'
    BY <2>1, QueueUnchanged DEF OrderInv
  <2> QED
    BY <2>1, <2>2 DEF OrderInv, Flushing
<1> QED
  BY <1>1, OrderMain, OrderFlush, OrderPop, OrderExecute, OrderFinish
     DEF Next, MainThread, CommandThread

LEMMA OrderAlways == Spec => [](TypeInv /\ OrderInv)
<1>1. Init => TypeInv /\ OrderInv
  BY TypeInit, OrderInit
<1>2. TypeInv /\ OrderInv /\ [Next]_vars => (TypeInv /\ OrderInv)'
  BY TypeNext, OrderNext
<1> QED
  BY <1>1, <1>2, PTL DEF Spec

-----------------------------------------------------------------------------
(***************************************************************************)
(* Every command up to the end of list t is in one of the first t lists.   *)
(***************************************************************************)
LEMMA InSomeList ==
    ASSUME TypeInv, OrderInv, NEW c \in 1..EndIn(lists, Len(lists))
    PROVE  \E t \in Tasks : /\ c \in ToSet(lists[t])
                            /\ c <= EndIn(lists, t)
<1>1. PICK t \in Tasks : EndIn(lists, t - 1) < c /\ c <= EndIn(lists, t)
  BY DEF OrderInv, Consecutive, Covered, Tasks
<1>2. ListOK(lists, t)
  BY DEF OrderInv, Consecutive, Tasks
<1>3. EndIn(lists, t - 1) \in Nat
  <2>1. CASE t - 1 = 0
    BY <2>1 DEF EndIn
  <2>2. CASE t - 1 # 0
    <3>1. t - 1 \in Tasks
      BY <2>2, Lengths DEF Tasks
    <3> QED
      BY <3>1 DEF OrderInv, Consecutive, ListOK, Tasks
  <2> QED
    BY <2>1, <2>2
<1>4. EndIn(lists, t) \in Nat
  BY <1>2 DEF ListOK
<1> DEFINE i == c - EndIn(lists, t - 1)
<1>5. i \in 1..Len(lists[t])
  BY <1>1, <1>2, <1>3, <1>4 DEF ListOK
<1>6. lists[t][i] = c
  <2>1. lists[t][i] = EndIn(lists, t - 1) + i
    BY <1>2, <1>5 DEF ListOK
  <2> QED
    BY <1>3, <2>1
<1>7. lists[t] \in Seq(Commands)
  BY Lengths, ElementOfSeq DEF Tasks
<1>8. c \in ToSet(lists[t])
  BY <1>5, <1>6, <1>7 DEF ToSet
<1> QED
  BY <1>1, <1>8

LEMMA CommandKept ==
    ASSUME TypeInv, OrderInv, NEW c \in Commands
    PROVE  c \in ToSet(executed \o remaining \o immediate) \/ Queued(c)
<1> DEFINE E == EndIn(lists, Len(lists))
           front == executed \o remaining
           all == front \o immediate
<1>1. /\ E \in Nat /\ recorded = E + Len(immediate)
      /\ \A i \in 1..Len(immediate) : immediate[i] = E + i
      /\ Rising(lists)
  BY DEF OrderInv, Consecutive
<1>2. /\ front \in Seq(Commands)
      /\ Len(front) = Len(executed) + Len(remaining)
      /\ \A i \in 1..Len(executed) + Len(remaining) : front[i] =
            IF i <= Len(executed) THEN executed[i]
                                  ELSE remaining[i - Len(executed)]
  BY Lengths, ConcatProperties
<1> HIDE DEF front
<1>3. /\ all \in Seq(Commands)
      /\ Len(all) = Len(front) + Len(immediate)
      /\ \A i \in 1..Len(front) + Len(immediate) : all[i] =
            IF i <= Len(front) THEN front[i] ELSE immediate[i - Len(front)]
  <2>1. front \in Seq(Commands) /\ immediate \in Seq(Commands)
    BY <1>2, Lengths
  <2> QED
    BY <2>1, ConcatProperties
<1>4. Len(front) \in Nat /\ Len(all) \in Nat /\ DOMAIN all = 1..Len(all)
  BY <1>2, <1>3, LenProperties
<1> HIDE DEF all
<1>5. c \in Nat /\ c >= 1 /\ c <= recorded
  BY SmallTypes DEF Commands
<1>6. CASE c > E
  <2> DEFINE i == c - E
             j == Len(front) + i
  <2>1. i \in 1..Len(immediate)
    BY <1>1, <1>5, <1>6, Lengths
  <2>2. immediate[i] = c
    BY <1>1, <1>5, <2>1
  <2> HIDE DEF i
  <2>3. /\ j \in 1..Len(all) /\ ~(j <= Len(front))
        /\ j - Len(front) = i
    BY <1>3, <1>4, <2>1, Lengths
  <2>4. all[j] = c
    BY <1>3, <2>2, <2>3
  <2>5. c \in ToSet(all)
    BY <1>4, <2>3, <2>4 DEF ToSet
  <2> QED
    BY <2>5 DEF all, front
<1>7. CASE c <= E
  <2>1. c \in 1..E
    BY <1>1, <1>5, <1>7
  <2>2. PICK t \in Tasks : c \in ToSet(lists[t]) /\ c <= EndIn(lists, t)
    BY <2>1, InSomeList
  <2>3. t \in Nat /\ t >= 1 /\ t <= Len(lists) /\ Popped \in Nat
    BY Lengths DEF Tasks, OrderInv, QueueInv
  <2>4. CASE t > Popped
    <3> DEFINE queue == ready \o arrivals
    <3>1. /\ Len(queue) = Len(ready) + Len(arrivals)
          /\ \A i \in 1..Len(ready) + Len(arrivals) : queue[i] =
                IF i <= Len(ready) THEN ready[i] ELSE arrivals[i - Len(ready)]
          /\ queue \in Seq(Tasks)
      BY Lengths, ConcatProperties
    <3> HIDE DEF queue
    <3>2. /\ \A i \in 1..Len(ready) : ready[i] = Popped + i
          /\ \A i \in 1..Len(arrivals) : arrivals[i] = Len(lists) - i + 1
      BY DEF OrderInv, QueueInv
    <3>3. Len(lists) = Popped + (Len(ready) + Len(arrivals))
      BY <2>3, Lengths DEF Popped
    <3>4. \E i \in 1..Len(queue) : queue[i] = t
      <4>1. CASE t <= Popped + Len(ready)
        <5> DEFINE i == t - Popped
        <5>1. i \in 1..Len(ready) /\ i \in 1..Len(queue) /\ i <= Len(ready)
          BY <2>3, <2>4, <3>1, <4>1, Lengths
        <5>2. ready[i] = t
          BY <2>3, <3>2, <5>1
        <5>3. queue[i] = ready[i]
          BY <3>1, <5>1
        <5> QED
          BY <5>1, <5>2, <5>3
      <4>2. CASE ~ (t <= Popped + Len(ready))
        <5> DEFINE k == Len(lists) - t + 1
                   i == Len(ready) + k
        <5>1. k \in 1..Len(arrivals)
          BY <2>3, <3>3, <4>2, Lengths
        <5>2. arrivals[k] = t
          <6>1. arrivals[k] = Len(lists) - k + 1
            BY <3>2, <5>1
          <6> QED
            BY <2>3, <6>1, Lengths
        <5> HIDE DEF k
        <5>3. i \in 1..Len(queue) /\ ~ (i <= Len(ready))
              /\ i - Len(ready) = k
          BY <3>1, <5>1, Lengths
        <5>4. queue[i] = arrivals[k]
          BY <3>1, <5>3
        <5> QED
          BY <5>2, <5>3, <5>4
      <4> QED
        BY <4>1, <4>2
    <3>5. t \in ToSet(queue)
      BY <3>1, <3>4 DEF ToSet
    <3> QED
      BY <2>2, <3>5 DEF Queued, queue
  <2>5. CASE t <= Popped
    <3>1. EndIn(lists, Popped) = Len(front)
      BY <1>2 DEF OrderInv, ExecutedInv
    <3>2. Popped <= Len(lists)
      BY Lengths DEF Popped, OrderInv, QueueInv
    <3>3. EndIn(lists, t) <= EndIn(lists, Popped)
      <4>1. CASE t = Popped
        BY <1>4, <3>1, <4>1
      <4>2. CASE t < Popped
        <5>1. t \in 0..Len(lists) /\ Popped \in 0..Len(lists)
          BY <2>3, <3>2
        <5>2. EndIn(lists, t) < EndIn(lists, Popped)
          BY <1>1, <4>2, <5>1 DEF Rising
        <5>3. EndIn(lists, t) \in Nat
          BY <2>2 DEF OrderInv, Consecutive, ListOK, Tasks
        <5> QED
          BY <1>4, <3>1, <5>2, <5>3
      <4> QED
        BY <2>3, <2>5, <4>1, <4>2
    <3>4. EndIn(lists, t) \in Nat
      BY <2>2 DEF OrderInv, Consecutive, ListOK, Tasks
    <3>5. c \in 1..Len(front)
      BY <1>4, <1>5, <2>2, <3>1, <3>3, <3>4
    <3>6. front[c] = c
      <4>1. CASE c <= Len(executed)
        <5>1. c \in 1..Len(executed) /\ front[c] = executed[c]
          BY <1>2, <1>5, <3>5, <4>1, Lengths
        <5> QED
          BY <5>1 DEF OrderInv, ExecutedInv
      <4>2. CASE ~ (c <= Len(executed))
        <5> DEFINE k == c - Len(executed)
        <5>1. k \in 1..Len(remaining) /\ front[c] = remaining[k]
          BY <1>2, <1>5, <3>5, <4>2, Lengths
        <5>2. remaining[k] = Len(executed) + k
          BY <5>1 DEF OrderInv, ExecutedInv
        <5> QED
          BY <1>5, <5>1, <5>2, Lengths
      <4> QED
        BY <4>1, <4>2
    <3>7. c \in 1..Len(all) /\ all[c] = c
      BY <1>3, <1>4, <3>5, <3>6, Lengths
    <3>8. c \in ToSet(all)
      BY <1>4, <3>7 DEF ToSet
    <3> QED
      BY <3>8 DEF all, front
  <2> QED
    BY <2>3, <2>4, <2>5
<1> QED
  BY <1>1, <1>5, <1>6, <1>7

(***************************************************************************)
(* Whatever the interleaving of recording, flushing and executing, and     *)
(* however long either thread lags, commands are executed in the order of  *)
(* their recording, each once, and none is lost on the way.                *)
(***************************************************************************)
THEOREM OrderCorrect == Spec => []CommandsInOrder
<1>1. ASSUME TypeInv, OrderInv PROVE CommandsInOrder
  <2>1. \A c \in Commands :
            c \in ToSet(executed \o remaining \o immediate) \/ Queued(c)
    BY <1>1, CommandKept
  <2>2. executed = [i \in 1..Len(executed) |-> i]
    <3>1. \A i \in 1..Len(executed) : executed[i] = i
      BY <1>1 DEF OrderInv, ExecutedInv
    <3>2. executed \in [1..Len(executed) -> Commands]
      BY <1>1, Lengths, LenProperties
    <3> QED
      BY <3>1, <3>2
  <2> QED
    BY <2>1, <2>2 DEF CommandsInOrder
<1>2. TypeInv /\ OrderInv => CommandsInOrder
  BY <1>1
<1> QED
  BY <1>2, OrderAlways, PTL

-----------------------------------------------------------------------------
(***************************************************************************)
(* The fence of every frame before the previous one has been executed.     *)
(***************************************************************************)
FenceInv == \A f \in 1..(frame - 2) : fenceCommand[f] \in ToSet(executed)

LEMMA ExecutedGrows ==
    ASSUME TypeInv, [Next]_vars
    PROVE  ToSet(executed) \subseteq ToSet(executed')
<1>1. CASE Execute
  <2>1. executed' = Append(executed, Head(remaining))
        /\ Head(remaining) \in Commands
    BY <1>1, Lengths, HeadTailProperties DEF Execute
  <2>2. /\ executed' \in Seq(Commands)
        /\ Len(executed') = Len(executed) + 1
        /\ \A i \in 1..Len(executed) : executed'[i] = executed[i]
    BY <2>1, Lengths, AppendProperties
  <2>3. DOMAIN executed = 1..Len(executed)
        /\ DOMAIN executed' = 1..(Len(executed) + 1)
        /\ Len(executed) \in Nat
    BY <2>2, Lengths, LenProperties
  <2> QED
    BY <2>2, <2>3 DEF ToSet
<1>2. CASE ~ Execute
  <2>1. executed' = executed
    BY <1>2 DEF vars, commandVars, Next, MainThread, CommandThread,
                SubmitUpload, EndFrame, Present, SlotTaken, Flush,
                WaitPrevious, Pop, Finish
  <2> QED
    BY <2>1 DEF ToSet
<1> QED
  BY <1>1, <1>2

LEMMA FencesKept ==
    ASSUME TypeInv, [Next]_vars
    PROVE  \A f \in 1..Len(fenceCommand) : fenceCommand'[f] = fenceCommand[f]
<1>1. CASE Present
  <2>1. fenceCommand' = Append(fenceCommand, recorded + 2)
    BY <1>1 DEF Present
  <2>2. fenceCommand \in Seq(Nat) /\ recorded + 2 \in Nat
    <3>1. fenceCommand \in Seq(Commands)
      BY DEF TypeInv, TypeOK
    <3>2. recorded \in Nat
      BY SmallTypes
    <3>3. Commands \subseteq Nat /\ recorded + 2 \in Nat
      BY <3>2 DEF Commands
    <3>4. fenceCommand \in Seq(Nat)
      BY <3>1, <3>3, SeqMonotonic
    <3> QED
      BY <3>3, <3>4
  <2> QED
    BY <2>1, <2>2, AppendProperties
<1>2. CASE ~ Present
  <2>1. fenceCommand' = fenceCommand
    BY <1>2 DEF vars, mainVars, Next, MainThread, CommandThread,
                SubmitUpload, EndFrame, SlotTaken, Flush, WaitPrevious, Pop,
                Execute, Finish
  <2> QED
    BY <2>1
<1> QED
  BY <1>1, <1>2

LEMMA FenceInit == Init => FenceInv
<1> SUFFICES ASSUME Init PROVE FenceInv
  OBVIOUS
<1>1. frame = 1
  BY DEF Init
<1>2. 1..(frame - 2) = {}
  BY <1>1
<1> QED
  BY <1>2 DEF FenceInv

LEMMA FenceNext == TypeInv /\ FenceInv /\ [Next]_vars => FenceInv'
<1> SUFFICES ASSUME TypeInv, FenceInv, [Next]_vars,
                    NEW f \in 1..(frame' - 2)
             PROVE  fenceCommand'[f] \in ToSet(executed')
  BY DEF FenceInv
<1>1. ToSet(executed) \subseteq ToSet(executed')
      /\ \A g \in 1..Len(fenceCommand) : fenceCommand'[g] = fenceCommand[g]
  BY ExecutedGrows, FencesKept
<1>2. frame \in Nat /\ Len(fenceCommand) \in Nat
      /\ frame - 1 <= Len(fenceCommand)
  BY SmallTypes DEF FrameInv
<1>3. CASE WaitPrevious
  <2>1. frame' = frame + 1 /\ IsSet(presentFences[1 - presentIndex])
        /\ presentFences[1 - presentIndex] = frame - 1
    BY <1>3 DEF WaitPrevious, TypeInv, FrameInv, AwaitedFence
  <2>2. f \in 1..(frame - 1) /\ f \in 1..Len(fenceCommand)
    BY <1>2, <2>1
  <2>3. fenceCommand[f] \in ToSet(executed)
    <3>1. CASE f = frame - 1
      <4>1. presentFences[1 - presentIndex] # NoFence
        BY <1>2, <2>1, <2>2, <3>1 DEF NoFence
      <4> QED
        BY <2>1, <3>1, <4>1 DEF IsSet
    <3>2. CASE f # frame - 1
      <4>1. f \in 1..(frame - 2)
        BY <1>2, <2>2, <3>2
      <4> QED
        BY <4>1 DEF FenceInv
    <3> QED
      BY <3>1, <3>2
  <2> QED
    BY <1>1, <2>2, <2>3
<1>4. CASE ~ WaitPrevious
  <2>1. frame' = frame
    BY <1>4 DEF vars, mainVars, Next, MainThread, CommandThread,
                SubmitUpload, EndFrame, Present, SlotTaken, Flush, Pop,
                Execute, Finish
  <2>2. f \in 1..(frame - 2) /\ f \in 1..Len(fenceCommand)
    BY <1>2, <2>1
  <2> QED
    BY <1>1, <2>2 DEF FenceInv
<1> QED
  BY <1>3, <1>4

LEMMA FenceAlways == Spec => [](TypeInv /\ OrderInv /\ FenceInv)
<1>1. Init => TypeInv /\ OrderInv /\ FenceInv
  BY TypeInit, OrderInit, FenceInit
<1>2. TypeInv /\ OrderInv /\ FenceInv /\ [Next]_vars
      => (TypeInv /\ OrderInv /\ FenceInv)'
  BY TypeNext, OrderNext, FenceNext
<1> QED
  BY <1>1, <1>2, PTL DEF Spec

LEMMA ExecutedPrefix ==
    ASSUME TypeInv, OrderInv
    PROVE  ToSet(executed) = 1..Len(executed)
<1>1. \A i \in 1..Len(executed) : executed[i] = i
  BY DEF OrderInv, ExecutedInv
<1>2. DOMAIN executed = 1..Len(executed)
  BY Lengths, LenProperties
<1> QED
  BY <1>1, <1>2 DEF ToSet

(***************************************************************************)
(* However the two threads interleave, the main thread begins a frame only *)
(* when all commands of the frames but the previous one are executed.      *)
(***************************************************************************)
THEOREM AheadCorrect == Spec => []OneFrameAhead
<1>1. ASSUME TypeInv, OrderInv, FenceInv PROVE OneFrameAhead
  <2> SUFFICES ASSUME NEW f \in 1..(frame - 2), NEW c \in 1..fenceCommand[f]
               PROVE  c \in ToSet(executed)
    BY DEF OneFrameAhead
  <2>1. fenceCommand[f] \in 1..Len(executed)
    BY <1>1, ExecutedPrefix DEF FenceInv
  <2>2. Len(executed) \in Nat
    BY <1>1, Lengths
  <2>3. c \in 1..Len(executed)
    BY <2>1, <2>2
  <2> QED
    BY <1>1, <2>3, ExecutedPrefix
<1>2. TypeInv /\ OrderInv /\ FenceInv => OneFrameAhead
  BY <1>1
<1> QED
  BY <1>2, FenceAlways, PTL

-----------------------------------------------------------------------------
(***************************************************************************)
(* Each slot holds an earlier task than CommandTask, each another one.     *)
(***************************************************************************)
SwapInv ==
    /\ commandTask = Len(lists)
    /\ \A i \in 1..TaskSlots :
        swapTasks[i] # NoTask => swapTasks[i] < commandTask
    /\ \A i, j \in 1..TaskSlots :
        i # j /\ swapTasks[i] = swapTasks[j] => swapTasks[i] = NoTask

(***************************************************************************)
(* Without uploads a frame is two tasks, the second of which ends with the *)
(* frame's fence; assign only skips slots with tasks of the last two       *)
(* frames.                                                                 *)
(***************************************************************************)
Counted ==
    /\ mpc \notin {"flush upload", "out of tasks"}
    /\ mpc \in {"record", "flush end", "end"} => Len(lists) + 2 = 2 * frame
    /\ mpc \in {"present", "flush present"} => Len(lists) + 1 = 2 * frame
    /\ mpc = "wait" => Len(lists) = 2 * frame

FencesLast ==
    /\ \A f \in 1..Len(fenceCommand) :
        2 * f <= Len(lists) => fenceCommand[f] = EndIn(lists, 2 * f)
    /\ mpc = "flush present" => fenceCommand[frame] = recorded

Skipped ==
    /\ ~ Flushing => slot = 1
    /\ \A j \in 1..(slot - 1) :
        swapTasks[j] # NoTask /\ swapTasks[j] + 4 >= 2 * frame

SlotInv == SwapInv /\ (uploads = 0 => Counted /\ FencesLast /\ Skipped)

AllInv == TypeInv /\ OrderInv /\ FenceInv /\ SlotInv

LEMMA SlotTypes ==
    ASSUME TypeInv
    PROVE  /\ swapTasks \in [1..TaskSlots -> Nat]
           /\ commandTask \in Nat
           /\ slot \in 1..TaskSlots
           /\ Len(lists) \in Nat
           /\ TaskSlots \in Nat \ {0}
<1>1. /\ swapTasks \in [1..TaskSlots -> Tasks \cup {NoTask}]
      /\ commandTask \in Tasks \cup {NoTask}
      /\ slot \in 1..TaskSlots
  BY DEF TypeInv, TypeOK
<1>2. Len(lists) \in Nat /\ TaskSlots \in Nat \ {0}
  BY Lengths, SmallTypes
<1>3. Tasks \cup {NoTask} \subseteq Nat
  BY <1>2 DEF Tasks, NoTask
<1> QED
  BY <1>1, <1>2, <1>3

LEMMA SlotInit == Init => SlotInv
<1> SUFFICES ASSUME Init PROVE SlotInv
  OBVIOUS
<1>1. /\ mpc = "record" /\ frame = 1 /\ slot = 1 /\ commandTask = NoTask
      /\ swapTasks = [i \in 1..TaskSlots |-> NoTask] /\ lists = <<>>
      /\ fenceCommand = <<>>
  BY DEF Init
<1>2. Len(lists) = 0 /\ Len(fenceCommand) = 0
  BY <1>1
<1>3. SwapInv
  BY <1>1, <1>2 DEF SwapInv, NoTask
<1>4. Counted
  BY <1>1, <1>2 DEF Counted
<1>5. FencesLast
  BY <1>1, <1>2 DEF FencesLast
<1>6. Skipped
  BY <1>1 DEF Skipped
<1> QED
  BY <1>3, <1>4, <1>5, <1>6 DEF SlotInv

(***************************************************************************)
(* In a frame without uploads so far, the tasks of the frames before the   *)
(* last two have ended, all but perhaps the very last of them.             *)
(***************************************************************************)
LEMMA EarlierDone ==
    ASSUME AllInv, uploads = 0, mpc # "end",
           NEW t \in Nat, t >= 1, t + 4 < 2 * frame
    PROVE  t \in done
<1> DEFINE f == frame - 2
           L == Len(lists)
<1>1. frame \in Nat /\ L \in Nat /\ Popped \in Nat /\ Popped <= L
  <2>1. frame \in Nat /\ L \in Nat
    BY SmallTypes, Lengths DEF AllInv
  <2>2. Popped \in Nat /\ Len(ready) \in Nat /\ Len(arrivals) \in Nat
    BY Lengths DEF AllInv, OrderInv, QueueInv
  <2> QED
    BY <2>1, <2>2 DEF Popped
<1>2. f \in 1..(frame - 2) /\ f \in Nat /\ t < 2 * f
  BY <1>1
<1>3. Counted /\ FencesLast
  BY DEF AllInv, SlotInv
<1>4. 2 * f <= L
  <2>1. L + 2 = 2 * frame \/ L + 1 = 2 * frame \/ L = 2 * frame
    BY <1>3 DEF Counted, AllInv, TypeInv, TypeOK
  <2> QED
    BY <1>1, <2>1
<1>5. f \in 1..Len(fenceCommand)
  <2>1. frame - 1 <= Len(fenceCommand) /\ Len(fenceCommand) \in Nat
    BY SmallTypes DEF AllInv, FrameInv
  <2> QED
    BY <1>1, <1>2, <2>1
<1>6. fenceCommand[f] = EndIn(lists, 2 * f)
  BY <1>3, <1>4, <1>5 DEF FencesLast
<1>7. fenceCommand[f] \in 1..Len(executed)
  BY <1>2, ExecutedPrefix DEF AllInv, FenceInv
<1>8. 2 * f <= Popped
  <2> SUFFICES ASSUME Popped < 2 * f PROVE FALSE
    BY <1>1, <1>2
  <2>1. Popped \in 0..L /\ 2 * f \in 0..L
    BY <1>1, <1>2, <1>4
  <2>2. EndIn(lists, Popped) < EndIn(lists, 2 * f)
    BY <2>1 DEF AllInv, OrderInv, Consecutive, Rising
  <2>3. Len(executed) + Len(remaining) = EndIn(lists, Popped)
    BY DEF AllInv, OrderInv, ExecutedInv
  <2>4. Len(executed) \in Nat /\ Len(remaining) \in Nat
    BY Lengths DEF AllInv
  <2> QED
    BY <1>6, <1>7, <2>2, <2>3, <2>4
<1>9. /\ done = (1..Popped) \ {running}
      /\ running = 0 \/ running = Popped
  BY DEF AllInv, OrderInv, QueueInv, NoTask
<1>10. t \in 1..Popped /\ t # Popped /\ t # 0
  BY <1>1, <1>2, <1>8
<1> QED
  BY <1>9, <1>10

LEMMA SlotSlotTaken ==
    ASSUME TaskSlots >= 4, AllInv, SlotTaken
    PROVE  SlotInv'
<1>1. /\ Flushing /\ ~IsReady(swapTasks[slot])
      /\ UNCHANGED <<frame, uploads, recorded, commandTask, swapTasks, lists,
                     fenceCommand>>
  BY DEF SlotTaken
<1>2. SwapInv'
  BY <1>1 DEF AllInv, SlotInv, SwapInv
<1>3. ASSUME uploads = 0 PROVE Counted' /\ FencesLast' /\ Skipped'
  <2>1. Counted /\ FencesLast /\ Skipped /\ SwapInv
    BY <1>3 DEF AllInv, SlotInv
  <2>2. /\ swapTasks \in [1..TaskSlots -> Nat] /\ slot \in 1..TaskSlots
        /\ TaskSlots \in Nat /\ Len(lists) \in Nat /\ frame \in Nat
    BY SlotTypes, SmallTypes DEF AllInv
  <2>3. swapTasks[slot] # NoTask /\ swapTasks[slot] \notin done
    BY <1>1 DEF IsReady
  <2>4. swapTasks[slot] + 4 >= 2 * frame
    <3> SUFFICES ASSUME swapTasks[slot] + 4 < 2 * frame PROVE FALSE
      BY <2>2
    <3>1. swapTasks[slot] \in Nat /\ swapTasks[slot] >= 1
      BY <2>2, <2>3 DEF NoTask
    <3>2. mpc # "end"
      BY <1>1 DEF Flushing
    <3> QED
      BY <1>3, <2>3, <3>1, <3>2, EarlierDone
  <2>5. ~ LastSlot(slot)
    <3> SUFFICES ASSUME slot = TaskSlots PROVE FALSE
      BY DEF LastSlot
    <3> DEFINE a == swapTasks[1]
               b == swapTasks[2]
               c == swapTasks[3]
               d == swapTasks[slot]
    <3>1. /\ 1 \in 1..(slot - 1) /\ 2 \in 1..(slot - 1)
          /\ 3 \in 1..(slot - 1)
          /\ 1 \in 1..TaskSlots /\ 2 \in 1..TaskSlots /\ 3 \in 1..TaskSlots
          /\ slot # 1 /\ slot # 2 /\ slot # 3
      BY <2>2
    <3>2. /\ a # NoTask /\ a + 4 >= 2 * frame
          /\ b # NoTask /\ b + 4 >= 2 * frame
          /\ c # NoTask /\ c + 4 >= 2 * frame
      BY <2>1, <3>1 DEF Skipped
    <3>3. /\ a < Len(lists) /\ b < Len(lists) /\ c < Len(lists)
          /\ d < Len(lists)
      BY <2>1, <2>2, <2>3, <3>1, <3>2 DEF SwapInv
    <3>4. a # b /\ a # c /\ a # d /\ b # c /\ b # d /\ c # d
      BY <2>1, <2>2, <3>1, <3>2 DEF SwapInv
    <3>5. Len(lists) + 2 = 2 * frame \/ Len(lists) + 1 = 2 * frame
      BY <1>1, <2>1 DEF Flushing, Counted
    <3>6. a \in Nat /\ b \in Nat /\ c \in Nat /\ d \in Nat
      BY <2>2, <3>1
    <3> HIDE DEF a, b, c, d
    <3>7. d + 4 >= 2 * frame
      BY <2>4 DEF d
    <3> DEFINE last == 2 * frame - 2
    <3>8. /\ last \in Int /\ 2 * frame = last + 2 /\ Len(lists) <= last + 1
      BY <2>2, <3>5
    <3>9. ASSUME NEW n \in Nat, n + 4 >= 2 * frame, n < Len(lists)
          PROVE  n = last \/ n = last - 1 \/ n = last - 2
      <4> HIDE DEF last
      <4>1. n + 2 >= last /\ n <= last
        BY <2>2, <3>8, <3>9
      <4> QED
        BY <3>8, <4>1
    <3>10. \A n \in {a, b, c, d} : n = last \/ n = last - 1 \/ n = last - 2
      BY <3>2, <3>3, <3>6, <3>7, <3>9
    <3> HIDE DEF last
    <3> QED
      BY <3>4, <3>10
  <2>6. slot' = slot + 1 /\ mpc' = mpc
    BY <2>5 DEF SlotTaken
  <2>7. Counted' /\ FencesLast'
    BY <1>1, <2>1, <2>6 DEF Counted, FencesLast
  <2>8. Skipped'
    <3>1. ASSUME NEW j \in 1..(slot' - 1)
          PROVE  swapTasks[j] # NoTask /\ swapTasks[j] + 4 >= 2 * frame
      <4>1. j \in 1..(slot - 1) \/ j = slot
        BY <2>2, <2>6
      <4> QED
        BY <2>1, <2>3, <2>4, <4>1 DEF Skipped
    <3>2. Flushing'
      BY <1>1, <2>6 DEF Flushing
    <3> QED
      BY <1>1, <3>1, <3>2 DEF Skipped
  <2> QED
    BY <2>7, <2>8
<1> QED
  BY <1>1, <1>2, <1>3 DEF SlotInv

LEMMA SlotUnchanged ==
    ASSUME SlotInv, UNCHANGED mainVars
    PROVE  SlotInv'
BY DEF SlotInv, SwapInv, Counted, FencesLast, Skipped, Flushing, mainVars

LEMMA SlotSubmitUpload == AllInv /\ SubmitUpload => SlotInv'
<1> SUFFICES ASSUME AllInv, SubmitUpload PROVE SlotInv'
  OBVIOUS
<1>1. UNCHANGED <<commandTask, swapTasks, lists>> /\ uploads' = uploads + 1
  BY DEF SubmitUpload
<1>2. uploads \in Nat
  BY SmallTypes DEF AllInv
<1>3. uploads' # 0
  BY <1>1, <1>2
<1> QED
  BY <1>1, <1>3 DEF AllInv, SlotInv, SwapInv

LEMMA SlotEndFrame == AllInv /\ EndFrame => SlotInv'
<1> SUFFICES ASSUME AllInv, EndFrame PROVE SlotInv'
  OBVIOUS
<1>1. /\ mpc = "record" /\ mpc' = "flush end"
      /\ UNCHANGED <<frame, uploads, slot, commandTask, swapTasks, lists,
                     fenceCommand>>
  BY DEF EndFrame
<1>2. SwapInv'
  BY <1>1 DEF AllInv, SlotInv, SwapInv
<1>3. ASSUME uploads = 0 PROVE Counted' /\ FencesLast' /\ Skipped'
  <2>1. Counted /\ FencesLast /\ Skipped
    BY <1>3 DEF AllInv, SlotInv
  <2>2. Counted' /\ FencesLast'
    BY <1>1, <2>1 DEF Counted, FencesLast
  <2>3. slot = 1
    BY <1>1, <2>1 DEF Skipped, Flushing
  <2>4. 1..(slot - 1) = {}
    BY <2>3
  <2> QED
    BY <1>1, <2>2, <2>4 DEF Skipped, Flushing
<1> QED
  BY <1>1, <1>2, <1>3 DEF SlotInv

LEMMA SlotPresent == AllInv /\ Present => SlotInv'
<1> SUFFICES ASSUME AllInv, Present PROVE SlotInv'
  OBVIOUS
<1>1. /\ mpc = "present" /\ mpc' = "flush present"
      /\ fenceCommand' = Append(fenceCommand, recorded + 2)
      /\ recorded' = recorded + 2
      /\ UNCHANGED <<frame, uploads, slot, commandTask, swapTasks, lists>>
  BY DEF Present, Insert
<1>2. SwapInv'
  BY <1>1 DEF AllInv, SlotInv, SwapInv
<1>3. ASSUME uploads = 0 PROVE Counted' /\ FencesLast' /\ Skipped'
  <2>1. Counted /\ FencesLast /\ Skipped
    BY <1>3 DEF AllInv, SlotInv
  <2>2. /\ Len(fenceCommand) = frame - 1 /\ frame \in Nat /\ frame >= 1
        /\ recorded \in Nat /\ Len(lists) \in Nat
    <3>1. Len(fenceCommand) = frame - 1
      BY <1>1 DEF AllInv, TypeInv, FrameInv
    <3> QED
      BY <3>1, SmallTypes, Lengths DEF AllInv
  <2>3. /\ Len(fenceCommand') = frame /\ fenceCommand'[frame] = recorded'
        /\ \A f \in 1..(frame - 1) : fenceCommand'[f] = fenceCommand[f]
    <3>1. fenceCommand \in Seq(Nat) /\ recorded + 2 \in Nat
      <4>1. fenceCommand \in Seq(Commands)
        BY DEF AllInv, TypeInv, TypeOK
      <4>2. Commands \subseteq Nat /\ recorded + 2 \in Nat
        BY <2>2 DEF Commands
      <4> QED
        BY <4>1, <4>2, SeqMonotonic
    <3>2. /\ Len(fenceCommand') = Len(fenceCommand) + 1
          /\ \A f \in 1..Len(fenceCommand) : fenceCommand'[f] = fenceCommand[f]
          /\ fenceCommand'[Len(fenceCommand) + 1] = recorded + 2
      <4>1. fenceCommand' = Append(fenceCommand, recorded + 2)
        BY <1>1
      <4> QED
        BY <3>1, <4>1, AppendProperties
    <3>3. Len(fenceCommand) + 1 = frame
      BY <2>2
    <3> QED
      BY <1>1, <2>2, <3>2, <3>3
  <2>4. Counted'
    BY <1>1, <2>1 DEF Counted
  <2>5. ASSUME NEW f \in 1..Len(fenceCommand'), 2 * f <= Len(lists)
        PROVE  fenceCommand'[f] = EndIn(lists, 2 * f)
    <3>1. Len(lists) + 1 = 2 * frame
      BY <1>1, <2>1 DEF Counted
    <3>2. f \in 1..(frame - 1) /\ f \in 1..Len(fenceCommand)
      BY <2>2, <2>3, <2>5, <3>1
    <3> QED
      BY <2>1, <2>3, <2>5, <3>2 DEF FencesLast
  <2>6. FencesLast'
    BY <1>1, <2>3, <2>5 DEF FencesLast
  <2>7. slot = 1
    BY <1>1, <2>1 DEF Skipped, Flushing
  <2>8. 1..(slot - 1) = {}
    BY <2>7
  <2> QED
    BY <1>1, <2>4, <2>6, <2>8 DEF Skipped, Flushing
<1> QED
  BY <1>1, <1>2, <1>3 DEF SlotInv

LEMMA SlotWaitPrevious == AllInv /\ WaitPrevious => SlotInv'
<1> SUFFICES ASSUME AllInv, WaitPrevious PROVE SlotInv'
  OBVIOUS
<1>1. /\ mpc = "wait" /\ mpc' \in {"record", "end"} /\ frame' = frame + 1
      /\ UNCHANGED <<uploads, recorded, slot, commandTask, swapTasks, lists,
                     fenceCommand>>
  BY DEF WaitPrevious
<1>2. SwapInv'
  BY <1>1 DEF AllInv, SlotInv, SwapInv
<1>3. ASSUME uploads = 0 PROVE Counted' /\ FencesLast' /\ Skipped'
  <2>1. Counted /\ FencesLast /\ Skipped
    BY <1>3 DEF AllInv, SlotInv
  <2>2. Len(lists) + 2 = 2 * frame'
    <3>1. Len(lists) = 2 * frame
      BY <1>1, <2>1 DEF Counted
    <3>2. frame \in Nat /\ Len(lists) \in Nat /\ frame' = frame + 1
      BY <1>1, SmallTypes, Lengths DEF AllInv
    <3> QED
      BY <3>1, <3>2
  <2>3. Counted'
    BY <1>1, <2>2 DEF Counted
  <2>4. FencesLast'
    BY <1>1, <2>1 DEF FencesLast
  <2>5. slot = 1
    BY <1>1, <2>1 DEF Skipped, Flushing
  <2>6. 1..(slot - 1) = {}
    BY <2>5
  <2> QED
    BY <1>1, <2>3, <2>4, <2>5, <2>6 DEF Skipped
<1> QED
  BY <1>1, <1>2, <1>3 DEF SlotInv

LEMMA SlotFlush == AllInv /\ Flush => SlotInv'
<1> SUFFICES ASSUME AllInv, Flush PROVE SlotInv'
  OBVIOUS
<1>1. /\ Flushing
      /\ swapTasks' = [swapTasks EXCEPT ![slot] = commandTask]
      /\ lists' = Append(lists, immediate) /\ commandTask' = Len(lists) + 1
      /\ slot' = 1 /\ mpc' = AfterFlush
      /\ UNCHANGED <<frame, uploads, recorded, fenceCommand>>
  BY DEF Flush
<1>2. /\ swapTasks \in [1..TaskSlots -> Nat] /\ commandTask \in Nat
      /\ slot \in 1..TaskSlots /\ Len(lists) \in Nat
  BY SlotTypes DEF AllInv
<1>3. /\ Len(lists') = Len(lists) + 1
      /\ \A t \in 0..Len(lists) : EndIn(lists', t) = EndIn(lists, t)
      /\ EndIn(lists', Len(lists) + 1) = immediate[Len(immediate)]
  BY <1>1, Lengths, EndInAppend DEF AllInv
<1>4. SwapInv'
  <2>1. SwapInv
    BY DEF AllInv, SlotInv
  <2>2. ASSUME NEW i \in 1..TaskSlots, swapTasks'[i] # NoTask
        PROVE  swapTasks'[i] < commandTask'
    <3>1. CASE i = slot
      BY <1>1, <1>2, <2>1, <3>1 DEF SwapInv
    <3>2. CASE i # slot
      <4>1. swapTasks'[i] = swapTasks[i] /\ swapTasks[i] \in Nat
        BY <1>1, <1>2, <3>2
      <4>2. swapTasks[i] < commandTask
        BY <2>1, <2>2, <4>1 DEF SwapInv
      <4> QED
        BY <1>1, <1>2, <2>1, <4>1, <4>2 DEF SwapInv
    <3> QED
      BY <3>1, <3>2
  <2>3. ASSUME NEW i \in 1..TaskSlots, NEW j \in 1..TaskSlots, i # j,
               swapTasks'[i] = swapTasks'[j]
        PROVE  swapTasks'[i] = NoTask
    <3>1. CASE i # slot /\ j # slot
      BY <1>1, <1>2, <2>1, <2>3, <3>1 DEF SwapInv
    <3>2. ASSUME NEW k \in 1..TaskSlots, k # slot,
                 swapTasks[k] = commandTask
          PROVE  commandTask = NoTask
      BY <1>2, <2>1, <3>2 DEF SwapInv
    <3>3. CASE i = slot
      BY <1>1, <1>2, <2>3, <3>2, <3>3
    <3>4. CASE j = slot
      BY <1>1, <1>2, <2>3, <3>2, <3>4
    <3> QED
      BY <3>1, <3>3, <3>4
  <2> QED
    BY <1>1, <1>3, <2>2, <2>3 DEF SwapInv
<1>5. ASSUME uploads = 0 PROVE Counted' /\ FencesLast' /\ Skipped'
  <2>1. Counted /\ FencesLast
    BY <1>5 DEF AllInv, SlotInv
  <2>2. \/ /\ mpc = "flush end" /\ mpc' = "present"
           /\ Len(lists) + 2 = 2 * frame
        \/ /\ mpc = "flush present" /\ mpc' = "wait"
           /\ Len(lists) + 1 = 2 * frame
    BY <1>1, <2>1 DEF Counted, Flushing, AfterFlush
  <2>3. frame \in Nat
    BY SmallTypes DEF AllInv
  <2>4. \/ mpc' = "present" /\ Len(lists') + 1 = 2 * frame
        \/ mpc' = "wait" /\ Len(lists') = 2 * frame
    <3>1. /\ Len(lists') = Len(lists) + 1
          /\ Len(lists) \in Nat /\ 2 * frame \in Nat
      BY <1>2, <1>3, <2>3
    <3>2. /\ Len(lists) + 2 = 2 * frame => Len(lists') + 1 = 2 * frame
          /\ Len(lists) + 1 = 2 * frame => Len(lists') = 2 * frame
      BY <3>1
    <3> QED
      BY <2>2, <3>2
  <2>5. Counted'
    BY <1>1, <2>4 DEF Counted
  <2>6. immediate[Len(immediate)] = recorded
    <3>1. Len(immediate) > 0 /\ Consecutive(lists, immediate, recorded)
      BY <1>1 DEF AllInv, OrderInv
    <3>2. Len(immediate) \in Nat
      BY Lengths DEF AllInv
    <3> QED
      BY <3>1, <3>2 DEF Consecutive
  <2>7. ASSUME NEW f \in 1..Len(fenceCommand), 2 * f <= Len(lists')
        PROVE  fenceCommand[f] = EndIn(lists', 2 * f)
    <3>1. CASE 2 * f <= Len(lists)
      <4>1. 2 * f \in 0..Len(lists)
        BY <1>2, <3>1
      <4> QED
        BY <1>3, <2>1, <3>1, <4>1 DEF FencesLast
    <3>2. CASE ~ (2 * f <= Len(lists))
      <4>1. 2 * f = Len(lists) + 1
        <5>1. /\ Len(lists') = Len(lists) + 1 /\ Len(lists) \in Nat
              /\ f \in Nat
          BY <1>2, <1>3, Lengths DEF AllInv
        <5>2. 2 * f <= Len(lists')
          BY <2>7
        <5> QED
          BY <3>2, <5>1, <5>2
      <4>2. mpc = "flush present" /\ f = frame
        <5>1. Len(lists) \in Nat /\ f \in Nat /\ frame \in Nat
          BY <1>2, <2>3, Lengths DEF AllInv
        <5>2. Len(lists) + 1 = 2 * frame => f = frame
          BY <4>1, <5>1
        <5>3. Len(lists) + 2 # 2 * frame
          BY <4>1, <5>1
        <5> QED
          BY <2>2, <5>2, <5>3
      <4>3. fenceCommand[f] = recorded
        BY <2>1, <4>2 DEF FencesLast
      <4> QED
        BY <1>3, <2>6, <4>1, <4>3
    <3> QED
      BY <3>1, <3>2
  <2>8. FencesLast'
    BY <1>1, <2>4, <2>7 DEF FencesLast
  <2>9. 1..(slot' - 1) = {}
    BY <1>1
  <2> QED
    BY <1>1, <2>5, <2>8, <2>9 DEF Skipped
<1> QED
  BY <1>1, <1>4, <1>5 DEF SlotInv

LEMMA SlotNext == TaskSlots >= 4 /\ AllInv /\ [Next]_vars => SlotInv'
<1> SUFFICES ASSUME TaskSlots >= 4, AllInv, [Next]_vars PROVE SlotInv'
  OBVIOUS
<1>1. CASE CommandThread \/ UNCHANGED vars
  <2>1. UNCHANGED mainVars
    BY <1>1 DEF CommandThread, Pop, Execute, Finish, vars
  <2> QED
    BY <2>1, SlotUnchanged DEF AllInv
<1>2. CASE MainThread
  BY <1>2, SlotSubmitUpload, SlotEndFrame, SlotPresent, SlotSlotTaken,
     SlotFlush, SlotWaitPrevious DEF MainThread
<1> QED
  BY <1>1, <1>2 DEF Next

(***************************************************************************)
(* With four slots or more, whatever the number of frames, the assertion   *)
(* of RenderTaskArray::assign holds as long as nothing is uploaded.        *)
(***************************************************************************)
THEOREM SlotsSufficient ==
    ASSUME TaskSlots >= 4
    PROVE  Spec => []SlotsSufficeForFrames
<1>1. Init => AllInv
  BY TypeInit, OrderInit, FenceInit, SlotInit DEF AllInv
<1>2. AllInv /\ [Next]_vars => AllInv'
  BY TypeNext, OrderNext, FenceNext, SlotNext DEF AllInv
<1>3. AllInv => SlotsSufficeForFrames
  BY DEF AllInv, SlotInv, Counted, SlotsSufficeForFrames, SlotsSuffice
<1> QED
  BY <1>1, <1>2, <1>3, PTL DEF Spec

=============================================================================
