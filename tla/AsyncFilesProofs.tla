------------------------- MODULE AsyncFilesProofs -------------------------
(***************************************************************************)
(* AsyncFiles for any coroutines, I/O threads and workloads: a coroutine   *)
(* has one thread, it is resumed once for each operation, SyncWait's       *)
(* coroutine goes on once, when all tasks are done, and nothing reaches a  *)
(* frame after SyncWait returned.  No operation that was scheduled is      *)
(* lost.                                                                   *)
(*                                                                         *)
(* What a coroutine computes plays no part here (see AsyncFilesStreams).   *)
(* Every step has one of a few shapes (StepShapes), and each shape keeps   *)
(* the invariants.                                                         *)
(***************************************************************************)
EXTENDS AsyncFiles, FiniteSetTheorems, SequenceTheorems, TLAPS

-----------------------------------------------------------------------------
(***************************************************************************)
(* The completion port.                                                    *)
(***************************************************************************)
IsCompletion(packet, c) == packet.kind = "completion" /\ packet.coroutine = c

Has(packets, c) == \E i \in DOMAIN packets : IsCompletion(packets[i], c)

HasOne(packets, c) ==
    \A i, j \in DOMAIN packets :
        IsCompletion(packets[i], c) /\ IsCompletion(packets[j], c) => i = j

Addressed(packet) ==
    /\ packet.kind \in {"completion", "posted"}
    /\ packet.kind = "completion" => packet.coroutine \in Coroutine
    /\ packet.kind = "posted" => packet.coroutine = NoCoroutine

IsPort(packets) ==
    /\ \E S : packets \in Seq(S)
    /\ \A i \in DOMAIN packets : Addressed(packets[i])

(***************************************************************************)
(* A packet added to the port adds a completion for its coroutine, if it   *)
(* is one.                                                                 *)
(***************************************************************************)
LEMMA PortAppend ==
    ASSUME NEW packets, IsPort(packets), NEW packet, Addressed(packet)
    PROVE  /\ IsPort(Append(packets, packet))
           /\ \A c : Has(Append(packets, packet), c)
                        <=> Has(packets, c) \/ IsCompletion(packet, c)
           /\ \A c : HasOne(packets, c)
                     /\ ~ (Has(packets, c) /\ IsCompletion(packet, c))
                        => HasOne(Append(packets, packet), c)
<1>1. PICK S : packets \in Seq(S)  BY DEF IsPort
<1> DEFINE T == S \union {packet}
           longer == Append(packets, packet)
<1>2. packets \in Seq(T) /\ packet \in T  BY <1>1
<1>3. /\ longer \in Seq(T)
      /\ Len(longer) = Len(packets) + 1
      /\ \A i \in 1..Len(packets) : longer[i] = packets[i]
      /\ longer[Len(packets) + 1] = packet
  BY <1>2, AppendProperties
<1>4. /\ DOMAIN packets = 1..Len(packets) /\ Len(packets) \in Nat
      /\ DOMAIN longer = 1..(Len(packets) + 1)
  BY <1>2, <1>3
<1> HIDE DEF longer, T
<1>5. \A i \in DOMAIN longer : i \in DOMAIN packets \/ i = Len(packets) + 1
  BY <1>4
<1>6. DOMAIN packets \subseteq DOMAIN longer
      /\ Len(packets) + 1 \in DOMAIN longer
      /\ Len(packets) + 1 \notin DOMAIN packets
  BY <1>4
<1>7. IsPort(longer)
  <2>1. \A i \in DOMAIN longer : Addressed(longer[i])
    BY <1>3, <1>4, <1>5 DEF IsPort
  <2> QED  BY <1>3, <2>1 DEF IsPort
<1>8. \A c : Has(longer, c) <=> Has(packets, c) \/ IsCompletion(packet, c)
  BY <1>3, <1>4, <1>5, <1>6 DEF Has
<1>9. \A c : HasOne(packets, c) /\ ~ (Has(packets, c) /\ IsCompletion(packet, c))
                => HasOne(longer, c)
  BY <1>3, <1>4, <1>5, <1>6 DEF Has, HasOne
<1> QED  BY <1>7, <1>8, <1>9 DEF longer

(***************************************************************************)
(* The packet taken from the port is its coroutine's only completion.      *)
(***************************************************************************)
LEMMA PortTail ==
    ASSUME NEW packets, IsPort(packets), packets # <<>>
    PROVE  /\ IsPort(Tail(packets))
           /\ Addressed(Head(packets))
           /\ \A c : IsCompletion(Head(packets), c) => Has(packets, c)
           /\ \A c : HasOne(packets, c) =>
                /\ HasOne(Tail(packets), c)
                /\ Has(Tail(packets), c)
                    <=> Has(packets, c) /\ ~ IsCompletion(Head(packets), c)
<1>1. PICK S : packets \in Seq(S)  BY DEF IsPort
<1> DEFINE rest == Tail(packets)
<1>2. /\ rest \in Seq(S)
      /\ Len(rest) = Len(packets) - 1
      /\ \A i \in 1..Len(rest) : rest[i] = packets[i + 1]
      /\ Head(packets) = packets[1]
  BY <1>1, HeadTailProperties
<1>3. /\ DOMAIN packets = 1..Len(packets)
      /\ Len(packets) \in Nat \ {0}
      /\ DOMAIN rest = 1..(Len(packets) - 1)
  BY <1>1, <1>2, EmptySeq
<1> HIDE DEF rest
<1>4. 1 \in DOMAIN packets  BY <1>3
<1>5. \A i \in DOMAIN rest : i + 1 \in DOMAIN packets /\ i + 1 # 1
                             /\ rest[i] = packets[i + 1]
  BY <1>2, <1>3
<1>6. \A i \in DOMAIN packets : i = 1 \/ \E j \in DOMAIN rest : i = j + 1
  <2> SUFFICES ASSUME NEW i \in DOMAIN packets, i # 1
               PROVE  \E j \in DOMAIN rest : i = j + 1
    OBVIOUS
  <2>1. i - 1 \in DOMAIN rest /\ i = (i - 1) + 1  BY <1>3
  <2> QED  BY <2>1
<1>7. \A i, j \in DOMAIN rest : i + 1 = j + 1 => i = j  BY <1>3
<1>8. IsPort(rest)
  <2>1. \A i \in DOMAIN rest : Addressed(rest[i])  BY <1>5 DEF IsPort
  <2> QED  BY <1>2, <2>1 DEF IsPort
<1>9. Addressed(Head(packets))  BY <1>2, <1>4 DEF IsPort
<1>10. \A c : IsCompletion(Head(packets), c) => Has(packets, c)
  BY <1>2, <1>4 DEF Has
<1>11. ASSUME NEW c, HasOne(packets, c)
       PROVE  /\ HasOne(rest, c)
              /\ Has(rest, c)
                    <=> Has(packets, c) /\ ~ IsCompletion(Head(packets), c)
  <2>1. HasOne(rest, c)  BY <1>5, <1>7, <1>11 DEF HasOne
  <2>2. Has(rest, c) => Has(packets, c) /\ ~ IsCompletion(Head(packets), c)
    BY <1>2, <1>4, <1>5, <1>11 DEF Has, HasOne
  <2>3. Has(packets, c) /\ ~ IsCompletion(Head(packets), c) => Has(rest, c)
    BY <1>2, <1>5, <1>6 DEF Has
  <2> QED  BY <2>1, <2>2, <2>3
<1> QED  BY <1>8, <1>9, <1>10, <1>11 DEF rest

-----------------------------------------------------------------------------
(***************************************************************************)
(* Types, as far as the rest needs them.                                   *)
(***************************************************************************)
Stages == {"start", "await", "wait", "returned", "loop", "post", "get",
           "run", "call", "closing", "notify", "resume"}

InCoroutine == {"run", "call", "closing", "notify"}

FramesOK ==
    /\ frame = [c \in Coroutine |-> frame[c]]
    /\ \A c \in Coroutine :
        DOMAIN frame[c] = {"pc", "next", "awaits", "call", "failed"}

ThreadsOK ==
    /\ at \in [Thread -> [pc : Stages,
                          coroutine : Coroutine \union {NoCoroutine}]]
    /\ \A t \in Thread :
        at[t].pc \in InCoroutine => at[t].coroutine \in Coroutine

ControlOK ==
    /\ FramesOK
    /\ ThreadsOK
    /\ request = [c \in Coroutine |-> request[c]]
    /\ closeEvent \in [Coroutine -> BOOLEAN]
    /\ IsPort(port)
    /\ started \in 0..Len(TaskOrder)

(***************************************************************************)
(* Where a coroutine is: not started, done, in the hands of one thread, or *)
(* waiting for one operation, whose completion is pending or in the port.  *)
(***************************************************************************)
Active(c) == frame[c].pc \notin {"new", "done"}

Free(c) == request[c] = NoRequest /\ ~ Has(port, c)

Token(c) ==
    /\ \A t, u \in Thread : Holds(t, c) /\ Holds(u, c) => t = u
    /\ Pending(c) \/ Has(port, c) =>
            Active(c) /\ \A t \in Thread : ~ Holds(t, c)
    /\ ~ (Pending(c) /\ Has(port, c))
    /\ HasOne(port, c)

Place(c) ==
    /\ \A t \in Thread :
        /\ at[t] = At("run", c) => Active(c) /\ ~ closeEvent[c]
        /\ at[t] = At("closing", c) => frame[c].pc = "close"
        /\ at[t] = At("notify", c) => frame[c].pc = "done"
    /\ request[c].kind = "close" =>
        /\ frame[c].pc = "close" /\ ~ Has(port, c)
        /\ \A t \in Thread : at[t] # At("run", c)
    /\ closeEvent[c] => Free(c) /\ frame[c].pc # "new"
    /\ frame[c].pc = "new" => Free(c) /\ \A t \in Thread : ~ Holds(t, c)
    /\ frame[c].pc = "done" => Free(c)

NotStarted ==
    \A k \in (started + 1)..Len(TaskOrder) : frame[TaskOrder[k]].pc = "new"

TokenInv ==
    /\ ControlOK
    /\ NotStarted
    /\ \A c \in Coroutine : Token(c) /\ Place(c)

-----------------------------------------------------------------------------
(***************************************************************************)
(* The shapes of the steps.  Of a frame only the place where the coroutine *)
(* is matters: a thread that has the coroutine moves it to an active one.  *)
(***************************************************************************)
OthersStay(c) ==
    \A d \in Coroutine \ {c} : frame'[d].pc = frame[d].pc

Moves(c) == FramesOK' /\ Active(c)' /\ OthersStay(c)

Goes(t, c) ==
    /\ at[t] = Running(c) /\ at' = at
    /\ Moves(c)
    /\ UNCHANGED <<request, closeEvent, port, waitVars>>

Suspends(t, c) ==
    /\ at[t] = Running(c) /\ at' = [at EXCEPT ![t] = At("call", c)]
    /\ Moves(c)
    /\ \E r : /\ request' = [request EXCEPT ![c] = r]
              /\ r.kind \notin {"none", "close"}
    /\ UNCHANGED <<closeEvent, port, waitVars>>

LetsGo(t) ==
    /\ at[t].pc = "call" /\ at' = [at EXCEPT ![t] = Resumer(t)]
    /\ UNCHANGED <<frame, request, closeEvent, port, waitVars>>

EmptyPacketMoves ==
    \/ port' = port
    \/ port' = Append(port, Posted(NoCoroutine))
    \/ port # <<>> /\ Head(port).kind = "posted" /\ port' = Tail(port)

IsScheduled(t, c) ==
    /\ at[t] = Running(c) /\ at' = [at EXCEPT ![t] = Resumer(t)]
    /\ Moves(c)
    /\ EmptyPacketMoves
    /\ UNCHANGED <<request, closeEvent, waitVars>>

Circulates(t) ==
    /\ t \in IOThread /\ at[t].pc \in {"loop", "post", "get"}
    /\ \E pc \in {"loop", "post", "get"} : at' = [at EXCEPT ![t] = Idle(pc)]
    /\ EmptyPacketMoves
    /\ UNCHANGED <<frame, request, closeEvent, waitVars>>

IsCompleted(c) ==
    /\ request[c] # NoRequest
    /\ request' = [request EXCEPT ![c] = NoRequest]
    /\ \/ /\ request[c].kind = "close" /\ port' = port
          /\ closeEvent' = [closeEvent EXCEPT ![c] = TRUE]
       \/ /\ request[c].kind # "close" /\ closeEvent' = closeEvent
          /\ \E packet :
                /\ packet.kind = "completion" /\ packet.coroutine = c
                /\ port' = Append(port, packet)
    /\ UNCHANGED <<frame, at, waitVars>>

IsResumed(t, c) ==
    /\ t \in IOThread /\ at[t].pc = "get"
    /\ at' = [at EXCEPT ![t] = Running(c)]
    /\ port # <<>> /\ IsCompletion(Head(port), c) /\ port' = Tail(port)
    /\ UNCHANGED <<frame, request, closeEvent, waitVars>>

WritesRest(t, c) ==
    /\ at[t] = Running(c) /\ at' = [at EXCEPT ![t] = At("closing", c)]
    /\ FramesOK' /\ frame'[c].pc = "close" /\ OthersStay(c)
    /\ \/ /\ \E b \in BOOLEAN : closeEvent' = [closeEvent EXCEPT ![c] = b]
          /\ UNCHANGED request
       \/ /\ \E r : /\ request' = [request EXCEPT ![c] = r]
                    /\ r.kind = "close"
          /\ UNCHANGED closeEvent
    /\ UNCHANGED <<port, waitVars>>

EndsIn(t, c) ==
    /\ \/ at[t] = Running(c)
       \/ at[t] = At("closing", c) /\ closeEvent[c]
    /\ at' = [at EXCEPT ![t] = At("notify", c)]
    /\ FramesOK' /\ frame'[c].pc = "done" /\ OthersStay(c)
    /\ UNCHANGED <<request, closeEvent, port, waitVars>>

ShapeOf(t, c) ==
    \/ Goes(t, c) \/ Suspends(t, c) \/ IsScheduled(t, c) \/ IsResumed(t, c)
    \/ WritesRest(t, c) \/ EndsIn(t, c)

Shape ==
    \/ \E t \in Thread, c \in Coroutine : ShapeOf(t, c)
    \/ \E t \in Thread : LetsGo(t) \/ Circulates(t)
    \/ \E c \in Coroutine : IsCompleted(c)
    \/ StartTask \/ RegisterAwaiter \/ TryAwait \/ WaitReturns
    \/ \E t \in Thread : NotifyAwaitableCompleted(t) \/ SetEvent(t)
    \/ UNCHANGED vars

(***************************************************************************)
(* What a thread does in a coroutine has one of the shapes.                *)
(***************************************************************************)
LEMMA ReturnMoves ==
    ASSUME FramesOK, NEW c \in Coroutine, Return(c)
    PROVE  Moves(c)
BY DEF FramesOK, Return, Moves, Active, OthersStay

LEMMA ReachMoves ==
    ASSUME FramesOK, NEW c \in Coroutine, NEW pc, NEW call, Reach(c, pc, call),
           pc \notin {"new", "done"}
    PROVE  Moves(c)
BY DEF FramesOK, Reach, Moves, Active, OthersStay

LEMMA TryStartShape ==
    ASSUME TokenInv, NEW t \in Thread, NEW c \in Coroutine, at[t] = Running(c),
           NEW awaited, NEW r, r.kind \notin {"none", "close"},
           TryStart(t, c, awaited, r)
    PROVE  Goes(t, c) \/ Suspends(t, c)
<1>1. FramesOK /\ Active(c)
  BY DEF TokenInv, ControlOK, Place, Running, At
<1>2. Moves(c)
  BY <1>1 DEF TryStart, FramesOK, Moves, Active, OthersStay
<1>3. UNCHANGED <<closeEvent, port, waitVars>>
  BY DEF TryStart, portVars
<1>4. CASE UNCHANGED <<request, at>>
  BY <1>2, <1>3, <1>4 DEF Goes
<1>5. CASE /\ request' = [request EXCEPT ![c] = r]
           /\ at' = [at EXCEPT ![t] = At("call", c)]
  BY <1>2, <1>3, <1>5 DEF Suspends
<1> QED  BY <1>4, <1>5 DEF TryStart

LEMMA CompletedEnds ==
    ASSUME FramesOK, NEW t \in Thread, NEW c \in Coroutine, Completed(t, c),
           \/ at[t] = Running(c)
           \/ at[t] = At("closing", c) /\ closeEvent[c],
           UNCHANGED <<request, closeEvent, port, waitVars>>
    PROVE  EndsIn(t, c)
<1>1. FramesOK' /\ frame'[c].pc = "done" /\ OthersStay(c)
  BY DEF Completed, FramesOK, OthersStay
<1> QED  BY <1>1 DEF Completed, EndsIn

LEMMA RunShape ==
    ASSUME TokenInv, NEW t \in Thread, NEW c \in Coroutine, RunCoroutine(t, c)
    PROVE  ShapeOf(t, c)
<1>1. FramesOK /\ (at[t] = Running(c) => Active(c))
  BY DEF TokenInv, ControlOK, Place, Running, At
<1>2. CASE BeginSkip(t, c)
  <2>1. at[t] = Running(c) /\ Return(c)
    BY <1>2 DEF BeginSkip, Begins, Runs
  <2>2. UNCHANGED <<at, request, closeEvent, port, waitVars>>
    BY <1>2 DEF BeginSkip, kernelVars, portVars
  <2> QED  BY <1>1, <2>1, <2>2, ReturnMoves DEF Goes, ShapeOf
<1>3. CASE BeginRead(t, c)
  <2>1. at[t] = Running(c) /\ (Return(c) \/ \E call : Reach(c, "read", call))
    BY <1>3 DEF BeginRead, Begins, Runs, ReturnRead
  <2>2. UNCHANGED <<at, request, closeEvent, port, waitVars>>
    BY <1>3 DEF BeginRead, kernelVars, portVars
  <2>3. Moves(c)  BY <1>1, <2>1, ReturnMoves, ReachMoves
  <2> QED  BY <2>1, <2>2, <2>3 DEF Goes, ShapeOf
<1>4. CASE AwaitRead(t, c)
  <2> DEFINE into == IF Direct(frame[c].call) THEN "direct" ELSE "refill"
             r == ReadRequest(c, into)
  <2>1. at[t] = Running(c) /\ TryStart(t, c, into, r)
    BY <1>4 DEF AwaitRead, Runs
  <2>2. r.kind \notin {"none", "close"}  BY DEF ReadRequest
  <2> HIDE DEF r, into
  <2> QED  BY <2>1, <2>2, TryStartShape DEF ShapeOf
<1>5. CASE ResumeDirect(t, c)
  <2>1. at[t] = Running(c) /\ (Return(c) \/ \E call : Reach(c, "read", call))
    BY <1>5 DEF ResumeDirect, Resumes, ReturnRead
  <2>2. UNCHANGED <<at, request, closeEvent, port, waitVars>>
    BY <1>5 DEF ResumeDirect, kernelVars, portVars
  <2>3. Moves(c)  BY <1>1, <2>1, ReturnMoves, ReachMoves
  <2> QED  BY <2>1, <2>2, <2>3 DEF Goes, ShapeOf
<1>6. CASE ResumeRefill(t, c)
  <2>1. at[t] = Running(c) /\ Return(c)
    BY <1>6 DEF ResumeRefill, Resumes, ReturnRead
  <2>2. UNCHANGED <<at, request, closeEvent, port, waitVars>>
    BY <1>6 DEF ResumeRefill, kernelVars, portVars
  <2> QED  BY <1>1, <2>1, <2>2, ReturnMoves DEF Goes, ShapeOf
<1>7. CASE BeginWrite(t, c)
  <2>1. at[t] = Running(c) /\ (Return(c) \/ \E call : Reach(c, "flush", call))
    BY <1>7 DEF BeginWrite, Begins, Runs
  <2>2. UNCHANGED <<at, request, closeEvent, port, waitVars>>
    BY <1>7 DEF BeginWrite, kernelVars, portVars
  <2>3. Moves(c)  BY <1>1, <2>1, ReturnMoves, ReachMoves
  <2> QED  BY <2>1, <2>2, <2>3 DEF Goes, ShapeOf
<1>8. CASE AwaitWrite(t, c)
  <2>1. at[t] = Running(c)  BY <1>8 DEF AwaitWrite, Runs
  <2>2. PICK awaited, bytes :
            TryStart(t, c, awaited, WriteRequest(c, bytes, "write"))
    BY <1>8 DEF AwaitWrite
  <2>3. WriteRequest(c, bytes, "write").kind \notin {"none", "close"}
    BY DEF WriteRequest
  <2> QED  BY <2>1, <2>2, <2>3, TryStartShape DEF ShapeOf
<1>9. CASE ResumeWrite(t, c)
  <2>1. at[t] = Running(c) /\ \E call : Continue(c, call)
    BY <1>9 DEF ResumeWrite, Resumes
  <2>2. Return(c) \/ \E call : Reach(c, "write", call)
    BY <2>1 DEF Continue
  <2>3. UNCHANGED <<at, request, closeEvent, port, waitVars>>
    BY <1>9 DEF ResumeWrite, kernelVars, portVars
  <2>4. Moves(c)  BY <1>1, <2>2, ReturnMoves, ReachMoves
  <2> QED  BY <2>1, <2>3, <2>4 DEF Goes, ShapeOf
<1>10. CASE Schedule(t, c)
  <2>1. /\ at[t] = Running(c) /\ at' = [at EXCEPT ![t] = Resumer(t)]
        /\ frame' = [frame EXCEPT ![c].awaits = "schedule"]
    BY <1>10 DEF Schedule, Begins, Runs
  <2>2. Moves(c)
    BY <1>1, <2>1 DEF FramesOK, Moves, Active, OthersStay
  <2>3. EmptyPacketMoves
    BY <1>10 DEF Schedule, EmptyPacketMoves, Continuation
  <2>4. UNCHANGED <<request, closeEvent, waitVars>>
    BY <1>10 DEF Schedule, kernelVars
  <2> QED  BY <2>1, <2>2, <2>3, <2>4 DEF IsScheduled, ShapeOf
<1>11. CASE Throw(t, c)
  <2>1. /\ at[t] = Running(c)
        /\ frame' = [frame EXCEPT ![c].pc = "close", ![c].awaits = "nothing",
                                  ![c].failed = TRUE]
    BY <1>11 DEF Throw
  <2>2. Moves(c)
    BY <1>1, <2>1 DEF FramesOK, Moves, Active, OthersStay
  <2>3. UNCHANGED <<at, request, closeEvent, port, waitVars>>
    BY <1>11 DEF Throw, kernelVars, portVars
  <2> QED  BY <2>1, <2>2, <2>3 DEF Goes, ShapeOf
<1>12. CASE CloseReader(t, c)
  <2>1. Completed(t, c) /\ at[t] = Running(c)
    BY <1>12 DEF CloseReader, Ends, Runs
  <2>2. UNCHANGED <<request, closeEvent, port, waitVars>>
    BY <1>12 DEF CloseReader, kernelVars, portVars
  <2> QED  BY <1>1, <2>1, <2>2, CompletedEnds DEF ShapeOf
<1>13. CASE CloseReturns(t, c)
  <2>1. Completed(t, c) /\ at[t] = At("closing", c) /\ closeEvent[c]
    BY <1>13 DEF CloseReturns
  <2>2. UNCHANGED <<request, closeEvent, port, waitVars>>
    BY <1>13 DEF CloseReturns, kernelVars, portVars
  <2> QED  BY <1>1, <2>1, <2>2, CompletedEnds DEF ShapeOf
<1>14. CASE CloseWriter(t, c)
  <2>1. /\ at[t] = Running(c) /\ at' = [at EXCEPT ![t] = At("closing", c)]
        /\ frame' = [frame EXCEPT ![c].pc = "close"]
    BY <1>14 DEF CloseWriter, Ends, Runs
  <2>2. FramesOK' /\ frame'[c].pc = "close" /\ OthersStay(c)
    BY <1>1, <2>1 DEF FramesOK, OthersStay
  <2>3. UNCHANGED <<port, waitVars>>
    BY <1>14 DEF CloseWriter, portVars
  <2> DEFINE r == WriteRequest(c, Unwritten(stream[c]), "close")
  <2>4. r.kind = "close"  BY DEF WriteRequest
  <2>5. \/ /\ \E o : closeEvent' = [closeEvent EXCEPT ![c] = ~ o.error]
           /\ UNCHANGED request
        \/ request' = [request EXCEPT ![c] = r] /\ UNCHANGED closeEvent
    BY <1>14 DEF CloseWriter
  <2>6. \A o : (~ o.error) \in BOOLEAN  OBVIOUS
  <2> HIDE DEF r
  <2>7. CASE /\ \E o : closeEvent' = [closeEvent EXCEPT ![c] = ~ o.error]
             /\ UNCHANGED request
    BY <2>1, <2>2, <2>3, <2>6, <2>7 DEF WritesRest, ShapeOf
  <2>8. CASE request' = [request EXCEPT ![c] = r] /\ UNCHANGED closeEvent
    BY <2>1, <2>2, <2>3, <2>4, <2>8 DEF WritesRest, ShapeOf
  <2> QED  BY <2>5, <2>7, <2>8
<1> QED
  BY <1>2, <1>3, <1>4, <1>5, <1>6, <1>7, <1>8, <1>9, <1>10, <1>11, <1>12,
     <1>13, <1>14 DEF RunCoroutine

(***************************************************************************)
(* And so has what the event loop and the kernel do.                       *)
(***************************************************************************)
LEMMA EventLoopShape ==
    ASSUME TokenInv, NEW t \in IOThread, EventLoop(t)
    PROVE  Circulates(t) \/ \E c \in Coroutine : IsResumed(t, c)
<1> USE DEF portVars, kernelVars
<1>1. CASE TakeOverflow(t)
  <2>1. \E pc \in {"loop", "post", "get"} : at' = [at EXCEPT ![t] = Idle(pc)]
    BY <1>1 DEF TakeOverflow
  <2> QED
    BY <1>1, <2>1 DEF TakeOverflow, Circulates, EmptyPacketMoves
<1>2. CASE PostAgain(t)
  <2>1. \E pc \in {"loop", "post", "get"} : at' = [at EXCEPT ![t] = Idle(pc)]
    BY <1>2 DEF PostAgain
  <2>2. port' = Append(port, Posted(NoCoroutine))
    BY <1>2 DEF PostAgain, Continuation
  <2> QED
    BY <1>2, <2>1, <2>2 DEF PostAgain, Circulates, EmptyPacketMoves
<1>3. CASE RefusedAgain(t)
  <2>1. \E pc \in {"loop", "post", "get"} : at' = [at EXCEPT ![t] = Idle(pc)]
    BY <1>3 DEF RefusedAgain
  <2> QED
    BY <1>3, <2>1 DEF RefusedAgain, Circulates, EmptyPacketMoves
<1>4. CASE OnOperationCompleted(t)
  <2>1. Addressed(Head(port))
    BY <1>4, PortTail DEF OnOperationCompleted, TokenInv, ControlOK
  <2> DEFINE c == Head(port).coroutine
  <2>2. c \in Coroutine /\ IsCompletion(Head(port), c)
    BY <1>4, <2>1 DEF OnOperationCompleted, Addressed, IsCompletion
  <2>3. IsResumed(t, c)
    BY <1>4, <2>2 DEF OnOperationCompleted, IsResumed
  <2> QED  BY <2>2, <2>3
<1>5. CASE OnPosted(t)
  <2>1. Addressed(Head(port))
    BY <1>5, PortTail DEF OnPosted, TokenInv, ControlOK
  <2>2. Head(port).coroutine = NoCoroutine
    BY <1>5, <2>1 DEF OnPosted, Addressed
  <2>3. at' = [at EXCEPT ![t] = Idle("loop")] /\ frame' = frame
    BY <1>5, <2>2 DEF OnPosted
  <2>4. EmptyPacketMoves
    BY <1>5 DEF OnPosted, EmptyPacketMoves
  <2> QED
    BY <1>5, <2>3, <2>4 DEF OnPosted, Circulates
<1> QED  BY <1>1, <1>2, <1>3, <1>4, <1>5 DEF EventLoop

LEMMA CompleteShape ==
    ASSUME NEW c \in Coroutine, Complete(c)
    PROVE  IsCompleted(c)
<1>1. UNCHANGED <<frame, at, waitVars>>  BY DEF Complete
<1>2. PICK o :
        IF request[c].kind = "close"
        THEN closeEvent' = [closeEvent EXCEPT ![c] = TRUE] /\ port' = port
        ELSE port' = Append(port, Completion(c, o)) /\ closeEvent' = closeEvent
  BY DEF Complete
<1>3. Completion(c, o).kind = "completion" /\ Completion(c, o).coroutine = c
  BY DEF Completion
<1>4. /\ request[c] # NoRequest
      /\ request' = [request EXCEPT ![c] = NoRequest]
  BY DEF Complete
<1> QED  BY <1>1, <1>2, <1>3, <1>4 DEF IsCompleted

LEMMA StepShapes ==
    ASSUME TokenInv, [Next]_vars
    PROVE  Shape
<1>1. ASSUME NEW t \in Thread, AnyThread(t)
      PROVE  Shape
  <2>1. ASSUME NEW c \in Coroutine, RunCoroutine(t, c)
        PROVE  Shape
    BY <2>1, RunShape DEF Shape
  <2>2. CASE ReturnPending(t)
    BY <2>2 DEF ReturnPending, LetsGo, Shape, kernelVars, portVars
  <2> QED  BY <1>1, <2>1, <2>2 DEF AnyThread, Shape
<1>2. ASSUME NEW t \in IOThread, EventLoop(t)
      PROVE  Shape
  <2>1. t \in Thread  BY DEF Thread
  <2>2. Circulates(t) \/ \E c \in Coroutine : IsResumed(t, c)
    BY <1>2, EventLoopShape
  <2> QED  BY <2>1, <2>2 DEF ShapeOf, Shape
<1>3. ASSUME NEW c \in Coroutine, Complete(c)
      PROVE  Shape
  BY <1>3, CompleteShape DEF Shape
<1> QED  BY <1>1, <1>2, <1>3 DEF Next, MainThread, Shape

-----------------------------------------------------------------------------
(***************************************************************************)
(* Every shape preserves TokenInv.                                         *)
(***************************************************************************)
LEMMA ThreadMoves ==
    ASSUME ThreadsOK, NEW t \in Thread, NEW pc \in Stages,
           NEW c \in Coroutine \union {NoCoroutine},
           pc \in InCoroutine => c \in Coroutine,
           at' = [at EXCEPT ![t] = At(pc, c)]
    PROVE  /\ ThreadsOK'
           /\ at'[t].pc = pc /\ at'[t].coroutine = c
           /\ \A u \in Thread \ {t} : at'[u] = at[u]
<1>1. at'[t] = At(pc, c) /\ \A u \in Thread \ {t} : at'[u] = at[u]
  BY DEF ThreadsOK
<1>2. At(pc, c) \in [pc : Stages, coroutine : Coroutine \union {NoCoroutine}]
      /\ At(pc, c).pc = pc /\ At(pc, c).coroutine = c
  BY DEF At
<1> HIDE DEF At
<1>3. at' \in [Thread -> [pc : Stages,
                          coroutine : Coroutine \union {NoCoroutine}]]
  BY <1>2 DEF ThreadsOK
<1>4. \A u \in Thread : at'[u].pc \in InCoroutine
                            => at'[u].coroutine \in Coroutine
  BY <1>1, <1>2 DEF ThreadsOK
<1> QED  BY <1>1, <1>2, <1>3, <1>4 DEF ThreadsOK

LEMMA ThreadParks ==
    ASSUME ThreadsOK, NEW t \in Thread, NEW pc \in Stages, pc \notin InCoroutine,
           at' = [at EXCEPT ![t] = At(pc, NoCoroutine)]
    PROVE  /\ ThreadsOK'
           /\ at'[t].pc = pc /\ at'[t].coroutine = NoCoroutine
           /\ \A u \in Thread \ {t} : at'[u] = at[u]
<1>1. pc \in InCoroutine => NoCoroutine \in Coroutine  OBVIOUS
<1>2. NoCoroutine \in Coroutine \union {NoCoroutine}  OBVIOUS
<1> QED  BY <1>1, <1>2, ThreadMoves

LEMMA ThreadIs ==
    ASSUME ThreadsOK, NEW t \in Thread, NEW pc, NEW c
    PROVE  at[t] = At(pc, c) <=> at[t].pc = pc /\ at[t].coroutine = c
<1>1. at[t] \in [pc : Stages, coroutine : Coroutine \union {NoCoroutine}]
  BY DEF ThreadsOK
<1> QED  BY <1>1 DEF At

LEMMA ThreadResumes ==
    ASSUME ThreadsOK, NEW t \in Thread, at' = [at EXCEPT ![t] = Resumer(t)]
    PROVE  /\ ThreadsOK'
           /\ at'[t].pc \in {"start", "loop"} /\ at'[t].coroutine = NoCoroutine
           /\ \A u \in Thread \ {t} : at'[u] = at[u]
<1>1. PICK pc \in {"start", "loop"} : Resumer(t) = At(pc, NoCoroutine)
  BY DEF Resumer, Idle
<1>2. pc \in Stages /\ pc \notin InCoroutine
  BY DEF Stages, InCoroutine
<1>3. at' = [at EXCEPT ![t] = At(pc, NoCoroutine)]  BY <1>1
<1>4. /\ ThreadsOK'
      /\ at'[t].pc = pc /\ at'[t].coroutine = NoCoroutine
      /\ \A u \in Thread \ {t} : at'[u] = at[u]
  BY <1>2, <1>3, ThreadParks
<1> QED  BY <1>4

LEMMA EmptyPackets ==
    ASSUME IsPort(port), EmptyPacketMoves
    PROVE  /\ IsPort(port')
           /\ \A c : HasOne(port, c) =>
                HasOne(port', c) /\ (Has(port', c) <=> Has(port, c))
<1>1. CASE port' = port
  BY <1>1
<1>2. CASE port' = Append(port, Posted(NoCoroutine))
  <2>1. Addressed(Posted(NoCoroutine))
        /\ \A c : ~ IsCompletion(Posted(NoCoroutine), c)
    BY DEF Posted, Addressed, IsCompletion
  <2> QED  BY <1>2, <2>1, PortAppend
<1>3. CASE port # <<>> /\ Head(port).kind = "posted" /\ port' = Tail(port)
  <2>1. \A c : ~ IsCompletion(Head(port), c)  BY <1>3 DEF IsCompletion
  <2> QED  BY <1>3, <2>1, PortTail
<1> QED  BY <1>1, <1>2, <1>3 DEF EmptyPacketMoves

(***************************************************************************)
(* Token and Place of a coroutine depend on where it is, on the threads    *)
(* that are in it and on its operation alone.                              *)
(***************************************************************************)
SameThreads(c) ==
    \A t \in Thread : /\ Holds(t, c)' <=> Holds(t, c)
                      /\ Holds(t, c) => at'[t] = at[t]

Same(c) ==
    /\ SameThreads(c)
    /\ frame'[c].pc = frame[c].pc
    /\ request'[c] = request[c] /\ closeEvent'[c] = closeEvent[c]
    /\ HasOne(port', c) /\ (Has(port', c) <=> Has(port, c))

LEMMA SameKept ==
    ASSUME ThreadsOK, NEW c \in Coroutine, Token(c), Place(c), Same(c)
    PROVE  Token(c)' /\ Place(c)'
<1>1. Token(c)'
  BY DEF Token, Same, SameThreads, Pending, Active
<1>2. Free(c)' <=> Free(c)
  BY DEF Free, Same
<1>3. \A t \in Thread :
        /\ at'[t] = At("run", c) => Holds(t, c)'
        /\ at'[t] = At("closing", c) => Holds(t, c)'
        /\ at'[t] = At("notify", c) => Holds(t, c)'
  BY DEF Holds, At
<1>4. \A t \in Thread, pc \in {"run", "closing", "notify"} :
        at'[t] = At(pc, c) => at[t] = At(pc, c)
  BY <1>3 DEF Same, SameThreads
<1>5. Place(c)'
  BY <1>2, <1>4 DEF Place, Same, SameThreads, Active
<1> QED  BY <1>1, <1>5

LEMMA OthersSame ==
    ASSUME ThreadsOK, NEW t \in Thread, NEW c, NEW d \in Coroutine,
           at[t].coroutine = c \/ ~ Holds(t, d), c # d,
           at'[t].coroutine \in {c, NoCoroutine},
           \A u \in Thread \ {t} : at'[u] = at[u]
    PROVE  SameThreads(d)
<1>1. d # NoCoroutine  BY AsyncAssumption
<1>2. ~ Holds(t, d) /\ ~ Holds(t, d)'  BY <1>1 DEF Holds
<1> QED  BY <1>2 DEF SameThreads, Holds

(***************************************************************************)
(* Who has the coroutine that the thread t is in.                          *)
(***************************************************************************)
LEMMA Holder ==
    ASSUME TokenInv, NEW t \in Thread, NEW c \in Coroutine, Holds(t, c)
    PROVE  /\ \A u \in Thread \ {t} : ~ Holds(u, c)
           /\ ~ Pending(c) /\ ~ Has(port, c)
           /\ frame[c].pc # "new"
BY DEF TokenInv, Token, Place

(***************************************************************************)
(* No step takes a coroutine back to where it was before it started.       *)
(***************************************************************************)
LEMMA NotStartedKept ==
    ASSUME TokenInv, NEW c \in Coroutine, frame[c].pc # "new",
           OthersStay(c), started' = started
    PROVE  NotStarted'
<1>1. \A k \in (started + 1)..Len(TaskOrder) :
        TaskOrder[k] \in Coroutine \ {c}
  <2> SUFFICES ASSUME NEW k \in (started + 1)..Len(TaskOrder)
               PROVE  TaskOrder[k] \in Coroutine \ {c}
    OBVIOUS
  <2>1. started \in Nat /\ Len(TaskOrder) \in Nat
    BY AsyncAssumption DEF TokenInv, ControlOK
  <2>2. k \in 1..Len(TaskOrder)  BY <2>1
  <2>3. TaskOrder[k] \in Coroutine  BY <2>2, AsyncAssumption
  <2> QED  BY <2>3 DEF TokenInv, NotStarted
<1> QED  BY <1>1 DEF OthersStay, NotStarted, TokenInv

LEMMA GoesKeeps ==
    ASSUME TokenInv, NEW t \in Thread, NEW c \in Coroutine, Goes(t, c)
    PROVE  TokenInv'
<1>1. at[t].pc = "run" /\ at[t].coroutine = c /\ Holds(t, c)
  BY DEF Goes, Running, At, Holds
<1>2. ControlOK'
  BY DEF Goes, Moves, TokenInv, ControlOK, ThreadsOK, waitVars
<1>3. NotStarted'
  BY <1>1, Holder, NotStartedKept DEF Goes, Moves, waitVars
<1>4. ASSUME NEW d \in Coroutine, d # c
      PROVE  Token(d)' /\ Place(d)'
  <2>1. Same(d)
    BY <1>4 DEF Goes, Moves, OthersStay, Same, SameThreads, Holds, TokenInv,
                Token
  <2> QED  BY <2>1, SameKept DEF TokenInv, ControlOK
<1>5. Token(c)'
  BY <1>1, Holder DEF Goes, TokenInv, Token, Holds, Pending
<1>6. Active(c)' /\ ~ closeEvent[c] /\ request[c].kind # "close"
      /\ ~ Pending(c)
  BY <1>1, Holder DEF Goes, Moves, TokenInv, Place, Running
<1>7. \A u \in Thread : at[u] # At("closing", c) /\ at[u] # At("notify", c)
  <2>1. \A u \in Thread \ {t} : ~ Holds(u, c)  BY <1>1, Holder
  <2> QED  BY <1>1, <2>1 DEF Holds, At
<1>8. Place(c)'
  BY <1>6, <1>7 DEF Goes, Place, Active
<1> QED  BY <1>2, <1>3, <1>4, <1>5, <1>8 DEF TokenInv

LEMMA SuspendsKeeps ==
    ASSUME TokenInv, NEW t \in Thread, NEW c \in Coroutine, Suspends(t, c)
    PROVE  TokenInv'
<1>1. at[t].pc = "run" /\ at[t].coroutine = c /\ Holds(t, c)
      /\ at[t] = At("run", c)
  BY DEF Suspends, Running, At, Holds
<1>2. /\ ThreadsOK'
      /\ at'[t].pc = "call" /\ at'[t].coroutine = c
      /\ \A u \in Thread \ {t} : at'[u] = at[u]
  BY ThreadMoves
     DEF Suspends, TokenInv, ControlOK, Stages, InCoroutine
<1>3. PICK r : request' = [request EXCEPT ![c] = r]
               /\ r.kind \notin {"none", "close"}
  BY DEF Suspends
<1>4. /\ request' = [d \in Coroutine |-> request'[d]]
      /\ request'[c] = r
      /\ \A d \in Coroutine \ {c} : request'[d] = request[d]
  BY <1>3 DEF TokenInv, ControlOK
<1>5. ControlOK'
  BY <1>2, <1>4 DEF Suspends, Moves, TokenInv, ControlOK, waitVars
<1>6. NotStarted'
  BY <1>1, Holder, NotStartedKept DEF Suspends, Moves, waitVars
<1>7. ASSUME NEW d \in Coroutine, d # c
      PROVE  Token(d)' /\ Place(d)'
  <2>1. SameThreads(d)
    BY <1>1, <1>2, <1>7, OthersSame DEF TokenInv, ControlOK
  <2>2. Same(d)
    BY <1>4, <1>7, <2>1
       DEF Suspends, Moves, OthersStay, Same, TokenInv, Token
  <2> QED  BY <2>2, SameKept DEF TokenInv, ControlOK
<1>8. \A u \in Thread : ~ Holds(u, c)'
  <2>1. \A u \in Thread \ {t} : ~ Holds(u, c)  BY <1>1, Holder
  <2> QED  BY <1>2, <2>1 DEF Holds
<1>9. /\ Active(c)' /\ port' = port /\ closeEvent' = closeEvent
      /\ ~ closeEvent[c] /\ ~ Has(port, c)
  BY <1>1, Holder DEF Suspends, Moves, TokenInv, Place
<1>10. Token(c)'
  BY <1>4, <1>8, <1>9 DEF TokenInv, Token, Pending
<1>11. \A u \in Thread : /\ at'[u] # At("run", c) /\ at'[u] # At("closing", c)
                         /\ at'[u] # At("notify", c)
  BY <1>8 DEF Holds, At
<1>12. Place(c)'
  BY <1>3, <1>4, <1>9, <1>11 DEF Place, Active
<1> QED  BY <1>5, <1>6, <1>7, <1>10, <1>12 DEF TokenInv

(***************************************************************************)
(* A thread that is in no coroutine, or leaves one that is suspended or    *)
(* done, disturbs nobody.                                                  *)
(***************************************************************************)
LEMMA ThreadLeaves ==
    ASSUME TokenInv, NEW t \in Thread, at[t].pc \notin {"run", "closing"},
           ThreadsOK', at'[t].coroutine = NoCoroutine,
           \A u \in Thread \ {t} : at'[u] = at[u],
           UNCHANGED <<frame, request, closeEvent, port, started>>
    PROVE  TokenInv'
<1>1. ControlOK' /\ NotStarted'
  BY DEF TokenInv, ControlOK, FramesOK, NotStarted
<1>2. ASSUME NEW d \in Coroutine
      PROVE  Token(d)' /\ Place(d)'
  <2>1. d # NoCoroutine  BY AsyncAssumption
  <2>2. \A u \in Thread : Holds(u, d)' => Holds(u, d) /\ at'[u] = at[u]
    BY <2>1 DEF Holds
  <2>3. Token(d)'
    BY <2>2 DEF TokenInv, Token, Pending, Active
  <2>4. \A u \in Thread, pc \in {"run", "closing", "notify"} :
            at'[u] = At(pc, d) => at[u] = At(pc, d)
    BY <2>2 DEF Holds, At
  <2>5. Place(d)'
    BY <2>2, <2>4 DEF TokenInv, Place, Active, Free
  <2> QED  BY <2>3, <2>5
<1> QED  BY <1>1, <1>2 DEF TokenInv

LEMMA LetsGoKeeps ==
    ASSUME TokenInv, NEW t \in Thread, LetsGo(t)
    PROVE  TokenInv'
<1>1. /\ ThreadsOK' /\ at'[t].coroutine = NoCoroutine
      /\ \A u \in Thread \ {t} : at'[u] = at[u]
  BY ThreadResumes DEF LetsGo, TokenInv, ControlOK
<1> QED  BY <1>1, ThreadLeaves DEF LetsGo, waitVars

LEMMA IsScheduledKeeps ==
    ASSUME TokenInv, NEW t \in Thread, NEW c \in Coroutine, IsScheduled(t, c)
    PROVE  TokenInv'
<1>1. at[t].pc = "run" /\ at[t].coroutine = c /\ Holds(t, c)
      /\ at[t] = At("run", c)
  BY DEF IsScheduled, Running, At, Holds
<1>2. /\ ThreadsOK'
      /\ at'[t].pc \in {"start", "loop"} /\ at'[t].coroutine = NoCoroutine
      /\ \A u \in Thread \ {t} : at'[u] = at[u]
  BY ThreadResumes DEF IsScheduled, TokenInv, ControlOK
<1>3. /\ IsPort(port')
      /\ \A d \in Coroutine : HasOne(port', d) /\ (Has(port', d) <=> Has(port, d))
  BY EmptyPackets DEF IsScheduled, TokenInv, ControlOK, Token
<1>4. ControlOK'
  BY <1>2, <1>3 DEF IsScheduled, Moves, TokenInv, ControlOK, waitVars
<1>5. NotStarted'
  BY <1>1, Holder, NotStartedKept DEF IsScheduled, Moves, waitVars
<1>6. ASSUME NEW d \in Coroutine, d # c
      PROVE  Token(d)' /\ Place(d)'
  <2>1. SameThreads(d)
    BY <1>1, <1>2, <1>6, OthersSame DEF TokenInv, ControlOK
  <2>2. Same(d)
    BY <1>3, <1>6, <2>1 DEF IsScheduled, Moves, OthersStay, Same
  <2> QED  BY <2>2, SameKept DEF TokenInv, ControlOK
<1>7. \A u \in Thread : ~ Holds(u, c)'
  <2>1. \A u \in Thread \ {t} : ~ Holds(u, c)  BY <1>1, Holder
  <2> QED  BY <1>2, <2>1 DEF Holds
<1>8. /\ Active(c)' /\ request' = request /\ closeEvent' = closeEvent
      /\ ~ closeEvent[c] /\ ~ Has(port', c) /\ ~ Pending(c)
      /\ request[c].kind # "close"
  BY <1>1, <1>3, Holder DEF IsScheduled, Moves, TokenInv, Place
<1>9. Token(c)'
  BY <1>3, <1>7, <1>8 DEF Token, Pending
<1>10. \A u \in Thread : /\ at'[u] # At("run", c) /\ at'[u] # At("closing", c)
                         /\ at'[u] # At("notify", c)
  BY <1>7 DEF Holds, At
<1>11. Place(c)'
  BY <1>8, <1>10 DEF Place, Active
<1> QED  BY <1>4, <1>5, <1>6, <1>9, <1>11 DEF TokenInv

LEMMA CirculatesKeeps ==
    ASSUME TokenInv, NEW t \in Thread, Circulates(t)
    PROVE  TokenInv'
<1>1. PICK pc \in {"loop", "post", "get"} :
            at' = [at EXCEPT ![t] = At(pc, NoCoroutine)]
  BY DEF Circulates, Idle
<1>2. pc \in Stages /\ pc \notin InCoroutine
  BY DEF Stages, InCoroutine
<1>3. /\ ThreadsOK'
      /\ at'[t].pc = pc /\ at'[t].coroutine = NoCoroutine
      /\ \A u \in Thread \ {t} : at'[u] = at[u]
  BY <1>1, <1>2, ThreadParks DEF TokenInv, ControlOK
<1>4. /\ IsPort(port')
      /\ \A d \in Coroutine : HasOne(port', d) /\ (Has(port', d) <=> Has(port, d))
  BY EmptyPackets DEF Circulates, TokenInv, ControlOK, Token
<1>5. ControlOK' /\ NotStarted'
  BY <1>3, <1>4
     DEF Circulates, TokenInv, ControlOK, FramesOK, NotStarted, waitVars
<1>6. ASSUME NEW d \in Coroutine
      PROVE  Token(d)' /\ Place(d)'
  <2>1. ~ Holds(t, d) /\ ~ Holds(t, d)'
    BY <1>3 DEF Holds, Circulates
  <2>2. SameThreads(d)
    BY <1>3, <2>1 DEF SameThreads, Holds
  <2>3. Same(d)
    BY <1>4, <2>2 DEF Circulates, Same
  <2> QED  BY <2>3, SameKept DEF TokenInv, ControlOK
<1> QED  BY <1>5, <1>6 DEF TokenInv

LEMMA IsCompletedKeeps ==
    ASSUME TokenInv, NEW c \in Coroutine, IsCompleted(c)
    PROVE  TokenInv'
<1>1. /\ request' = [d \in Coroutine |-> request'[d]]
      /\ request'[c] = NoRequest
      /\ \A d \in Coroutine \ {c} : request'[d] = request[d]
  BY DEF IsCompleted, TokenInv, ControlOK
<1>2. UNCHANGED <<frame, at, started>>
  BY DEF IsCompleted, waitVars
<1>3. ThreadsOK' /\ FramesOK' /\ NotStarted'
  BY <1>2 DEF TokenInv, ControlOK, ThreadsOK, FramesOK, NotStarted
<1>4. \A d \in Coroutine : SameThreads(d)
  BY <1>2 DEF SameThreads, Holds
<1>5. NoRequest.kind = "none"  BY DEF NoRequest
<1>6. CASE /\ request[c].kind = "close" /\ port' = port
           /\ closeEvent' = [closeEvent EXCEPT ![c] = TRUE]
  <2>1. /\ closeEvent' \in [Coroutine -> BOOLEAN] /\ closeEvent'[c]
        /\ \A d \in Coroutine \ {c} : closeEvent'[d] = closeEvent[d]
    BY <1>6 DEF TokenInv, ControlOK
  <2>2. ControlOK'
    BY <1>1, <1>2, <1>3, <1>6, <2>1 DEF TokenInv, ControlOK
  <2>3. ASSUME NEW d \in Coroutine, d # c
        PROVE  Token(d)' /\ Place(d)'
    <3>1. Same(d)
      BY <1>1, <1>2, <1>4, <1>6, <2>1, <2>3 DEF Same, TokenInv, Token
    <3> QED  BY <3>1, SameKept DEF TokenInv, ControlOK
  <2>4. /\ frame[c].pc = "close" /\ ~ Has(port, c)
        /\ \A t \in Thread : at[t] # At("run", c)
    BY <1>6 DEF TokenInv, Place
  <2>5. Token(c)'
    BY <1>1, <1>2, <1>4, <1>5, <1>6, <2>4
       DEF TokenInv, Token, Pending, SameThreads
  <2>6. Place(c)'
    BY <1>1, <1>2, <1>5, <1>6, <2>4 DEF TokenInv, Place, Free
  <2> QED  BY <1>3, <2>2, <2>3, <2>5, <2>6 DEF TokenInv
<1>7. CASE /\ request[c].kind # "close" /\ closeEvent' = closeEvent
           /\ \E packet :
                /\ packet.kind = "completion" /\ packet.coroutine = c
                /\ port' = Append(port, packet)
  <2>1. PICK packet : /\ packet.kind = "completion" /\ packet.coroutine = c
                      /\ port' = Append(port, packet)
    BY <1>7
  <2>2. /\ Addressed(packet) /\ IsCompletion(packet, c)
        /\ \A d : d # c => ~ IsCompletion(packet, d)
    BY <2>1 DEF Addressed, IsCompletion
  <2>3. request[c] # NoRequest /\ Pending(c)
    BY <1>7 DEF IsCompleted, Pending
  <2>4. ~ Has(port, c) /\ Active(c) /\ \A t \in Thread : ~ Holds(t, c)
    BY <2>3 DEF TokenInv, Token
  <2>5. IsPort(port')
        /\ \A d : /\ Has(port', d) <=> Has(port, d) \/ IsCompletion(packet, d)
                  /\ HasOne(port, d) /\ ~ (Has(port, d)
                                           /\ IsCompletion(packet, d))
                        => HasOne(port', d)
    BY <2>1, <2>2, PortAppend DEF TokenInv, ControlOK
  <2>6. ControlOK'
    BY <1>1, <1>2, <1>3, <1>7, <2>5 DEF TokenInv, ControlOK
  <2>7. ASSUME NEW d \in Coroutine, d # c
        PROVE  Token(d)' /\ Place(d)'
    <3>1. HasOne(port', d) /\ (Has(port', d) <=> Has(port, d))
      BY <2>2, <2>5, <2>7 DEF TokenInv, Token
    <3>2. Same(d)
      BY <1>1, <1>2, <1>4, <1>7, <2>7, <3>1 DEF Same
    <3> QED  BY <3>2, SameKept DEF TokenInv, ControlOK
  <2>8. HasOne(port', c) /\ Has(port', c)
    BY <2>2, <2>4, <2>5 DEF TokenInv, Token
  <2>9. Token(c)'
    BY <1>1, <1>2, <1>4, <2>4, <2>8
       DEF Token, Pending, Active, SameThreads
  <2>10. \A t \in Thread : /\ at'[t] # At("run", c) /\ at'[t] # At("closing", c)
                           /\ at'[t] # At("notify", c)
    BY <1>2, <2>4 DEF Holds, At
  <2>11. ~ closeEvent[c]
    BY <2>3 DEF TokenInv, Place, Free
  <2>12. Place(c)'
    BY <1>1, <1>2, <1>5, <1>7, <2>4, <2>10, <2>11 DEF Place, Active
  <2> QED  BY <1>3, <2>6, <2>7, <2>9, <2>12 DEF TokenInv
<1> QED  BY <1>6, <1>7 DEF IsCompleted

LEMMA IsResumedKeeps ==
    ASSUME TokenInv, NEW t \in Thread, NEW c \in Coroutine, IsResumed(t, c)
    PROVE  TokenInv'
<1>1. /\ ThreadsOK'
      /\ at'[t].pc = "run" /\ at'[t].coroutine = c
      /\ \A u \in Thread \ {t} : at'[u] = at[u]
  BY ThreadMoves
     DEF IsResumed, Running, TokenInv, ControlOK, Stages, InCoroutine
<1>2. /\ port # <<>> /\ port' = Tail(port)
      /\ IsCompletion(Head(port), c)
      /\ \A d : d # c => ~ IsCompletion(Head(port), d)
  BY DEF IsResumed, IsCompletion
<1>3. /\ IsPort(port')
      /\ Has(port, c)
      /\ \A d : HasOne(port, d) =>
            /\ HasOne(port', d)
            /\ Has(port', d)
                    <=> Has(port, d) /\ ~ IsCompletion(Head(port), d)
  BY <1>2, PortTail DEF TokenInv, ControlOK
<1>4. UNCHANGED <<frame, request, closeEvent, started>>
  BY DEF IsResumed, waitVars
<1>5. ControlOK' /\ NotStarted'
  BY <1>1, <1>3, <1>4 DEF TokenInv, ControlOK, FramesOK, NotStarted
<1>6. ASSUME NEW d \in Coroutine, d # c
      PROVE  Token(d)' /\ Place(d)'
  <2>1. ~ Holds(t, d) /\ ~ Holds(t, d)'
    BY <1>1, <1>6 DEF Holds, IsResumed
  <2>2. SameThreads(d)
    BY <1>1, <2>1 DEF SameThreads, Holds
  <2>3. HasOne(port', d) /\ (Has(port', d) <=> Has(port, d))
    BY <1>2, <1>3, <1>6 DEF TokenInv, Token
  <2>4. Same(d)
    BY <1>4, <2>2, <2>3 DEF Same
  <2> QED  BY <2>4, SameKept DEF TokenInv, ControlOK
<1>7. /\ Active(c) /\ ~ Pending(c) /\ ~ closeEvent[c]
      /\ request[c].kind # "close"
      /\ \A u \in Thread : ~ Holds(u, c)
  BY <1>3 DEF TokenInv, Token, Place, Free
<1>8. HasOne(port', c) /\ ~ Has(port', c)
  BY <1>2, <1>3 DEF TokenInv, Token
<1>9. \A u \in Thread \ {t} : ~ Holds(u, c)'
  BY <1>1, <1>7 DEF Holds
<1>10. Token(c)'
  BY <1>4, <1>7, <1>8, <1>9 DEF Token, Pending
<1>11. \A u \in Thread : at'[u] # At("closing", c) /\ at'[u] # At("notify", c)
  BY <1>1, <1>9 DEF Holds, At
<1>12. Place(c)'
  BY <1>4, <1>7, <1>8, <1>11 DEF Place, Active
<1> QED  BY <1>5, <1>6, <1>10, <1>12 DEF TokenInv

LEMMA WritesRestKeeps ==
    ASSUME TokenInv, NEW t \in Thread, NEW c \in Coroutine, WritesRest(t, c)
    PROVE  TokenInv'
<1>1. at[t].pc = "run" /\ at[t].coroutine = c /\ Holds(t, c)
      /\ at[t] = At("run", c)
  BY DEF WritesRest, Running, At, Holds
<1>2. /\ ThreadsOK'
      /\ at'[t].pc = "closing" /\ at'[t].coroutine = c
      /\ \A u \in Thread \ {t} : at'[u] = at[u]
  BY ThreadMoves
     DEF WritesRest, TokenInv, ControlOK, Stages, InCoroutine
<1>3. /\ FramesOK' /\ frame'[c].pc = "close" /\ OthersStay(c)
      /\ port' = port /\ started' = started
  BY DEF WritesRest, waitVars
<1>4. /\ ~ Pending(c) /\ ~ Has(port, c) /\ ~ closeEvent[c]
      /\ request[c].kind # "close" /\ request[c] = NoRequest
      /\ \A u \in Thread \ {t} : ~ Holds(u, c)
  BY <1>1, Holder DEF TokenInv, Place, Pending
<1>5. NotStarted'
  BY <1>1, <1>3, Holder, NotStartedKept
<1>6. /\ request' = [d \in Coroutine |-> request'[d]]
      /\ closeEvent' \in [Coroutine -> BOOLEAN]
      /\ \A d \in Coroutine \ {c} : /\ request'[d] = request[d]
                                    /\ closeEvent'[d] = closeEvent[d]
      /\ \/ request'[c] = NoRequest
         \/ request'[c].kind = "close" /\ ~ closeEvent'[c]
  <2>1. CASE /\ \E b \in BOOLEAN : closeEvent' = [closeEvent EXCEPT ![c] = b]
             /\ UNCHANGED request
    BY <1>4, <2>1 DEF TokenInv, ControlOK
  <2>2. CASE /\ \E r : /\ request' = [request EXCEPT ![c] = r]
                       /\ r.kind = "close"
             /\ UNCHANGED closeEvent
    BY <1>4, <2>2 DEF TokenInv, ControlOK
  <2> QED  BY <2>1, <2>2 DEF WritesRest
<1>7. ControlOK'
  BY <1>2, <1>3, <1>6 DEF TokenInv, ControlOK
<1>8. ASSUME NEW d \in Coroutine, d # c
      PROVE  Token(d)' /\ Place(d)'
  <2>1. SameThreads(d)
    BY <1>1, <1>2, <1>8, OthersSame DEF TokenInv, ControlOK
  <2>2. Same(d)
    BY <1>3, <1>6, <1>8, <2>1 DEF OthersStay, Same, TokenInv, Token
  <2> QED  BY <2>2, SameKept DEF TokenInv, ControlOK
<1>9. \A u \in Thread \ {t} : ~ Holds(u, c)'
  BY <1>2, <1>4 DEF Holds
<1>10. ~ Pending(c)' /\ ~ Has(port', c) /\ HasOne(port', c)
  BY <1>3, <1>4, <1>6 DEF Pending, NoRequest, TokenInv, Token
<1>11. Token(c)'
  BY <1>9, <1>10 DEF Token
<1>12. \A u \in Thread : at'[u] # At("run", c) /\ at'[u] # At("notify", c)
  BY <1>2, <1>9 DEF Holds, At
<1>13. NoRequest.kind = "none"  BY DEF NoRequest
<1>14. Place(c)'
  BY <1>3, <1>6, <1>10, <1>12, <1>13 DEF Place, Free
<1> QED  BY <1>5, <1>7, <1>8, <1>11, <1>14 DEF TokenInv

LEMMA EndsInKeeps ==
    ASSUME TokenInv, NEW t \in Thread, NEW c \in Coroutine, EndsIn(t, c)
    PROVE  TokenInv'
<1>1. at[t].pc \in {"run", "closing"} /\ at[t].coroutine = c /\ Holds(t, c)
  BY DEF EndsIn, Running, At, Holds
<1>2. /\ ThreadsOK'
      /\ at'[t].pc = "notify" /\ at'[t].coroutine = c
      /\ \A u \in Thread \ {t} : at'[u] = at[u]
  BY ThreadMoves DEF EndsIn, TokenInv, ControlOK, Stages, InCoroutine
<1>3. /\ FramesOK' /\ frame'[c].pc = "done" /\ OthersStay(c)
      /\ UNCHANGED <<request, closeEvent, port, started>>
  BY DEF EndsIn, waitVars
<1>4. Free(c) /\ ~ Pending(c) /\ request[c].kind # "close"
  <2>1. ~ Pending(c) /\ ~ Has(port, c)  BY <1>1, Holder
  <2>2. NoRequest.kind = "none"  BY DEF NoRequest
  <2>3. CASE at[t] = Running(c)
    BY <2>1, <2>2, <2>3 DEF TokenInv, Place, Free, Pending, Running
  <2>4. CASE closeEvent[c]
    BY <2>1, <2>2, <2>4 DEF TokenInv, Place, Free, Pending
  <2> QED  BY <2>3, <2>4 DEF EndsIn
<1>5. NotStarted'
  BY <1>1, <1>3, Holder, NotStartedKept
<1>6. ControlOK'
  BY <1>2, <1>3 DEF TokenInv, ControlOK
<1>7. ASSUME NEW d \in Coroutine, d # c
      PROVE  Token(d)' /\ Place(d)'
  <2>1. SameThreads(d)
    BY <1>1, <1>2, <1>7, OthersSame DEF TokenInv, ControlOK
  <2>2. Same(d)
    BY <1>3, <1>7, <2>1 DEF OthersStay, Same, TokenInv, Token
  <2> QED  BY <2>2, SameKept DEF TokenInv, ControlOK
<1>8. \A u \in Thread \ {t} : ~ Holds(u, c)'
  <2>1. \A u \in Thread \ {t} : ~ Holds(u, c)  BY <1>1, Holder
  <2> QED  BY <1>2, <2>1 DEF Holds
<1>9. Token(c)'
  BY <1>3, <1>4, <1>8 DEF Token, Pending, Free, TokenInv
<1>10. \A u \in Thread : at'[u] # At("run", c) /\ at'[u] # At("closing", c)
  BY <1>2, <1>8 DEF Holds, At
<1>11. Place(c)'
  BY <1>3, <1>4, <1>10 DEF Place, Free
<1> QED  BY <1>5, <1>6, <1>7, <1>9, <1>11 DEF TokenInv

LEMMA StartedPlaces ==
    ASSUME TokenInv, NEW c \in Coroutine, frame[c].pc = "new",
           FramesOK', frame'[c].pc = "next", OthersStay(c),
           at[Main].pc = "start", at'[Main].pc = "run",
           at'[Main].coroutine = c,
           \A u \in Thread \ {Main} : at'[u] = at[u],
           UNCHANGED <<request, closeEvent, port>>
    PROVE  \A d \in Coroutine : Token(d)' /\ Place(d)'
<1>1. Main \in Thread  BY DEF Thread
<1>2. ASSUME NEW d \in Coroutine, d # c
      PROVE  Token(d)' /\ Place(d)'
  <2>1. ~ Holds(Main, d) /\ ~ Holds(Main, d)'  BY <1>2 DEF Holds
  <2>2. SameThreads(d)  BY <2>1 DEF SameThreads, Holds
  <2>3. Same(d)
    BY <1>2, <2>2 DEF OthersStay, Same, TokenInv, Token
  <2> QED  BY <1>2, <2>3, SameKept DEF TokenInv, ControlOK
<1>3. /\ Free(c) /\ ~ closeEvent[c] /\ HasOne(port, c)
      /\ \A u \in Thread : ~ Holds(u, c)
  BY DEF TokenInv, Place, Token
<1>4. Free(c)' /\ ~ closeEvent'[c] /\ HasOne(port, c)'
  BY <1>3 DEF Free
<1>5. NoRequest.kind = "none"  BY DEF NoRequest
<1>6. ~ Pending(c)' /\ ~ Has(port, c)' /\ request'[c].kind # "close"
  BY <1>4, <1>5 DEF Free, Pending
<1>7. Active(c)'  BY DEF Active
<1>8. \A u \in Thread \ {Main} : ~ Holds(u, c)'
  BY <1>3 DEF Holds
<1>9. Token(c)'
  <2>1. \A t, u \in Thread : Holds(t, c)' /\ Holds(u, c)' => t = u
    BY <1>8
  <2> QED  BY <1>4, <1>6, <2>1 DEF Token
<1>10. \A u \in Thread : at'[u] # At("closing", c) /\ at'[u] # At("notify", c)
  <2>1. ASSUME NEW u \in Thread, NEW pc \in {"closing", "notify"},
               at'[u] = At(pc, c)
        PROVE  FALSE
    <3>1. at'[u].pc = pc /\ at'[u].coroutine = c  BY <2>1 DEF At
    <3>2. Holds(u, c)' /\ u # Main  BY <3>1 DEF Holds
    <3> QED  BY <1>8, <3>2
  <2> QED  BY <2>1
<1>11. Place(c)'
  <2>1. frame'[c].pc # "new" /\ frame'[c].pc # "done"  OBVIOUS
  <2> QED  BY <1>4, <1>6, <1>7, <1>10, <2>1 DEF Place
<1> QED  BY <1>2, <1>9, <1>11

LEMMA StartTaskKeeps ==
    ASSUME TokenInv, StartTask
    PROVE  TokenInv'
<1> DEFINE c == TaskOrder[started + 1]
<1>1. /\ started \in Nat /\ Len(TaskOrder) \in Nat
      /\ started + 1 \in 1..Len(TaskOrder)
      /\ DOMAIN TaskOrder = 1..Len(TaskOrder)
  BY AsyncAssumption DEF StartTask, TokenInv, ControlOK
<1>2. c \in Coroutine /\ frame[c].pc = "new"
  <2>1. c \in Coroutine  BY <1>1, AsyncAssumption
  <2>2. started + 1 \in (started + 1)..Len(TaskOrder)  BY <1>1
  <2> QED  BY <2>1, <2>2 DEF TokenInv, NotStarted
<1>3. /\ at' = [at EXCEPT ![Main] = Running(c)]
      /\ frame' = [frame EXCEPT ![c].pc = "next"]
      /\ started' = started + 1
      /\ UNCHANGED <<request, closeEvent, port>>
      /\ at[Main].pc = "start"
  BY DEF StartTask, kernelVars, portVars
<1>4. \A k \in (started + 2)..Len(TaskOrder) :
        TaskOrder[k] \in Coroutine /\ TaskOrder[k] # c
  <2> SUFFICES ASSUME NEW k \in (started + 2)..Len(TaskOrder)
               PROVE  TaskOrder[k] \in Coroutine /\ TaskOrder[k] # c
    OBVIOUS
  <2>1. k \in 1..Len(TaskOrder) /\ k # started + 1  BY <1>1
  <2> QED  BY <1>1, <2>1, AsyncAssumption DEF IsInjective
<1> HIDE DEF c
<1>5. Main \in Thread  BY DEF Thread
<1>6. /\ ThreadsOK'
      /\ at'[Main].pc = "run" /\ at'[Main].coroutine = c
      /\ \A u \in Thread \ {Main} : at'[u] = at[u]
  BY <1>2, <1>3, <1>5, ThreadMoves
     DEF Running, TokenInv, ControlOK, Stages, InCoroutine
<1>7. FramesOK' /\ frame'[c].pc = "next" /\ OthersStay(c)
  BY <1>2, <1>3 DEF TokenInv, ControlOK, FramesOK, OthersStay
<1>8. started' \in 0..Len(TaskOrder)  BY <1>1, <1>3
<1>9. ControlOK'
  BY <1>3, <1>6, <1>7, <1>8 DEF TokenInv, ControlOK
<1>10. NotStarted'
  <2>1. \A k \in (started + 2)..Len(TaskOrder) : frame[TaskOrder[k]].pc = "new"
    <3>1. \A k \in (started + 2)..Len(TaskOrder) :
            k \in (started + 1)..Len(TaskOrder)
      BY <1>1
    <3> QED  BY <3>1 DEF TokenInv, NotStarted
  <2>2. \A k \in (started + 2)..Len(TaskOrder) :
            frame'[TaskOrder[k]].pc = "new"
    BY <1>4, <1>7, <2>1 DEF OthersStay
  <2>3. started' + 1 = started + 2  BY <1>1, <1>3
  <2> QED  BY <2>2, <2>3 DEF NotStarted
<1>11. \A d \in Coroutine : Token(d)' /\ Place(d)'
  BY <1>2, <1>3, <1>6, <1>7, StartedPlaces
<1> QED  BY <1>9, <1>10, <1>11 DEF TokenInv

(***************************************************************************)
(* The steps of SyncWait and of the counter move one thread.               *)
(***************************************************************************)
Leaves(t, stages) ==
    /\ \E pc \in stages : at' = [at EXCEPT ![t] = At(pc, NoCoroutine)]
    /\ UNCHANGED <<frame, request, closeEvent, port, started>>

LEMMA LeavesKeeps ==
    ASSUME TokenInv, NEW t \in Thread, at[t].pc \notin {"run", "closing"},
           Leaves(t, Stages \ InCoroutine)
    PROVE  TokenInv'
<1>1. PICK pc \in Stages \ InCoroutine :
            at' = [at EXCEPT ![t] = At(pc, NoCoroutine)]
  BY DEF Leaves
<1>2. /\ ThreadsOK' /\ at'[t].coroutine = NoCoroutine
      /\ \A u \in Thread \ {t} : at'[u] = at[u]
  BY <1>1, ThreadParks DEF TokenInv, ControlOK
<1> QED  BY <1>2, ThreadLeaves DEF Leaves

LEMMA WaitLeaves ==
    ASSUME RegisterAwaiter \/ TryAwait \/ WaitReturns
    PROVE  /\ at[Main].pc \in {"start", "await", "wait"}
           /\ Leaves(Main, {"await", "wait", "resume", "returned"})
<1> USE DEF kernelVars, portVars, waitVars, Leaves, Idle
<1>1. CASE RegisterAwaiter  BY <1>1 DEF RegisterAwaiter
<1>2. CASE TryAwait  BY <1>2 DEF TryAwait
<1>3. CASE WaitReturns  BY <1>3 DEF WaitReturns
<1> QED  BY <1>1, <1>2, <1>3

LEMMA CountLeaves ==
    ASSUME NEW t \in Thread, NotifyAwaitableCompleted(t) \/ SetEvent(t)
    PROVE  /\ at[t].pc \in {"notify", "resume"}
           /\ Leaves(t, {"start", "loop", "wait", "resume"})
<1> USE DEF kernelVars, portVars, Leaves, Idle
<1>1. CASE NotifyAwaitableCompleted(t)
  BY <1>1 DEF NotifyAwaitableCompleted, Resumer
<1>2. CASE SetEvent(t)
  BY <1>2 DEF SetEvent
<1> QED  BY <1>1, <1>2

LEMMA TokenStep ==
    ASSUME TokenInv, [Next]_vars
    PROVE  TokenInv'
<1>1. ASSUME NEW t \in Thread, NEW c \in Coroutine, ShapeOf(t, c)
      PROVE  TokenInv'
  BY <1>1, GoesKeeps, SuspendsKeeps, IsScheduledKeeps, IsResumedKeeps,
     WritesRestKeeps, EndsInKeeps DEF ShapeOf
<1>2. Main \in Thread  BY DEF Thread
<1>3. CASE RegisterAwaiter \/ TryAwait \/ WaitReturns
  <2>1. /\ at[Main].pc \in {"start", "await", "wait"}
        /\ Leaves(Main, {"await", "wait", "resume", "returned"})
    BY <1>3, WaitLeaves
  <2>2. Leaves(Main, Stages \ InCoroutine)
    BY <2>1 DEF Leaves, Stages, InCoroutine
  <2> QED  BY <1>2, <2>1, <2>2, LeavesKeeps
<1>4. ASSUME NEW t \in Thread, NotifyAwaitableCompleted(t) \/ SetEvent(t)
      PROVE  TokenInv'
  <2>1. /\ at[t].pc \in {"notify", "resume"}
        /\ Leaves(t, {"start", "loop", "wait", "resume"})
    BY <1>4, CountLeaves
  <2>2. Leaves(t, Stages \ InCoroutine)
    BY <2>1 DEF Leaves, Stages, InCoroutine
  <2> QED  BY <2>1, <2>2, LeavesKeeps
<1>5. CASE UNCHANGED vars
  BY <1>5 DEF vars, kernelVars, portVars, waitVars, TokenInv, ControlOK,
              FramesOK, ThreadsOK, NotStarted, Token, Place, Holds, Pending,
              Active, Free
<1> QED
  BY <1>1, <1>3, <1>4, <1>5, LetsGoKeeps, CirculatesKeeps, IsCompletedKeeps,
     StartTaskKeeps, StepShapes DEF Shape

LEMMA TokenInit ==
    ASSUME Init
    PROVE  TokenInv
<1>1. /\ FramesOK /\ \A c \in Coroutine : frame[c].pc = "new"
      /\ \A c \in Coroutine : request[c] = NoRequest /\ ~ closeEvent[c]
      /\ request = [c \in Coroutine |-> request[c]]
      /\ closeEvent \in [Coroutine -> BOOLEAN]
      /\ port = <<>> /\ started = 0
  BY DEF Init, FramesOK
<1>2. \A t \in Thread : at[t].pc \in {"start", "loop"}
                        /\ at[t].coroutine = NoCoroutine
  BY DEF Init, Resumer, Idle, At
<1>3. at \in [Thread -> [pc : Stages,
                         coroutine : Coroutine \union {NoCoroutine}]]
  BY DEF Init, Resumer, Idle, At, Stages
<1>4. ThreadsOK  BY <1>2, <1>3 DEF ThreadsOK, InCoroutine
<1>5. IsPort(port) /\ DOMAIN port = {}
  <2>1. port \in Seq({}) /\ DOMAIN port = {}  BY <1>1
  <2> QED  BY <2>1 DEF IsPort
<1>6. \A c : ~ Has(port, c) /\ HasOne(port, c)
  BY <1>5 DEF Has, HasOne
<1>7. started \in 0..Len(TaskOrder)
  BY <1>1, AsyncAssumption
<1>8. ControlOK  BY <1>1, <1>4, <1>5, <1>7 DEF ControlOK
<1>9. NotStarted
  <2>1. \A k \in 1..Len(TaskOrder) : TaskOrder[k] \in Coroutine
    BY AsyncAssumption
  <2>2. started + 1 = 1  BY <1>1
  <2> QED  BY <1>1, <2>1, <2>2 DEF NotStarted
<1>10. NoRequest.kind = "none"  BY DEF NoRequest
<1>11. ASSUME NEW c \in Coroutine
       PROVE  Token(c) /\ Place(c)
  <2>1. \A t \in Thread : ~ Holds(t, c)  BY <1>2 DEF Holds
  <2>2. \A t \in Thread : /\ at[t] # At("run", c) /\ at[t] # At("closing", c)
                          /\ at[t] # At("notify", c)
    BY <1>2 DEF At
  <2>3. Token(c)
    BY <1>1, <1>6, <2>1 DEF Token, Pending
  <2>4. Place(c)
    BY <1>1, <1>6, <1>10, <2>1, <2>2 DEF Place, Free
  <2> QED  BY <2>3, <2>4
<1> QED  BY <1>8, <1>9, <1>11 DEF TokenInv

(***************************************************************************)
(* A coroutine is run by one thread, and by none while its operation is    *)
(* pending or its completion on the way, for any number of coroutines and  *)
(* threads and whatever they read and write.                               *)
(***************************************************************************)
THEOREM OneThread == Spec => []OneThreadPerCoroutine
<1>1. TokenInv => OneThreadPerCoroutine
  BY DEF TokenInv, Token, OneThreadPerCoroutine, Completing, Has, IsCompletion
<1> QED  BY TokenInit, TokenStep, <1>1, PTL DEF Spec

-----------------------------------------------------------------------------
(***************************************************************************)
(* The counter counts the tasks that have not notified it, and the main    *)
(* thread until it waits.  A thread goes on to set the event at zero.      *)
(***************************************************************************)
Notifies(t, c) == at[t].pc = "notify" /\ at[t].coroutine = c

Unnotified ==
    {c \in Coroutine :
        frame[c].pc # "done" \/ \E t \in Thread : Notifies(t, c)}

Resuming(t) == at[t].pc = "resume"

MainWaits == at[Main].pc \in {"wait", "resume", "returned"}

CountInv ==
    /\ count = Cardinality(Unnotified) + (IF MainWaits THEN 0 ELSE 1)
    /\ at[Main].pc = "await" \/ MainWaits => awaiter
    /\ \A t \in Thread : Resuming(t) =>
        /\ count = 0 /\ ~ event
        /\ \A u \in Thread : Resuming(u) => u = t
    /\ event => count = 0
    /\ at[Main].pc = "returned" => event

LEMMA CoroutinesFinite ==
    IsFiniteSet(Coroutine) /\ Cardinality(Coroutine) = Len(TaskOrder)
<1>1. Len(TaskOrder) \in Nat /\ DOMAIN TaskOrder = 1..Len(TaskOrder)
  BY AsyncAssumption
<1>2. /\ TaskOrder \in [1..Len(TaskOrder) -> Coroutine]
      /\ \A c \in Coroutine : \E i \in 1..Len(TaskOrder) : TaskOrder[i] = c
  BY <1>1, AsyncAssumption DEF ToSet
<1>3. TaskOrder \in Bijection(1..Len(TaskOrder), Coroutine)
  BY <1>1, <1>2, AsyncAssumption
     DEF Bijection, Injection, Surjection, IsInjective
<1>4. ExistsBijection(1..Len(TaskOrder), Coroutine)
  BY <1>3 DEF ExistsBijection
<1>5. IsFiniteSet(1..Len(TaskOrder))
      /\ Cardinality(1..Len(TaskOrder)) = Len(TaskOrder)
  <2> DEFINE n == Len(TaskOrder)
  <2>1. n \in Nat /\ n \in Int /\ 1 \in Int  BY <1>1
  <2> HIDE DEF n
  <2>2. /\ IsFiniteSet(1..n)
        /\ Cardinality(1..n) = IF 1 > n THEN 0 ELSE n - 1 + 1
    BY <2>1, FS_Interval
  <2>3. Cardinality(1..n) = n  BY <2>1, <2>2
  <2> QED  BY <2>2, <2>3 DEF n
<1> QED  BY <1>4, <1>5, FS_Bijection

LEMMA UnnotifiedFinite ==
    IsFiniteSet(Unnotified) /\ Cardinality(Unnotified) \in Nat
<1>1. Unnotified \subseteq Coroutine  BY DEF Unnotified
<1>2. IsFiniteSet(Unnotified)  BY <1>1, CoroutinesFinite, FS_Subset
<1> QED  BY <1>2, FS_CardinalityType

(***************************************************************************)
(* At zero every task is done and has notified, and the main thread waits. *)
(***************************************************************************)
LEMMA AtZero ==
    ASSUME CountInv, count = 0
    PROVE  /\ MainWaits /\ awaiter
           /\ \A c \in Coroutine :
                frame[c].pc = "done" /\ \A t \in Thread : ~ Notifies(t, c)
<1>1. MainWaits /\ Cardinality(Unnotified) = 0
  <2> DEFINE n == Cardinality(Unnotified)
  <2>1. n \in Nat /\ count = n + (IF MainWaits THEN 0 ELSE 1)
    BY UnnotifiedFinite DEF CountInv
  <2> HIDE DEF n
  <2>2. MainWaits /\ n = 0  BY <2>1
  <2> QED  BY <2>2 DEF n
<1>2. Unnotified = {}  BY <1>1, UnnotifiedFinite, FS_EmptySet
<1> QED  BY <1>1, <1>2 DEF Unnotified, CountInv

(***************************************************************************)
(* A step of a thread that is neither notifying nor resuming, and leaves   *)
(* every task as unnotified as it was.                                     *)
(***************************************************************************)
Uncounted == {"start", "loop", "post", "get", "run", "call", "closing"}

LEMMA QuietStep ==
    ASSUME CountInv, NEW t \in Thread,
           at[t].pc \in Uncounted, at'[t].pc \in Uncounted \union {"notify"},
           \A u \in Thread \ {t} : at'[u] = at[u],
           Unnotified' = Unnotified,
           UNCHANGED <<count, awaiter, event>>
    PROVE  CountInv'
<1>1. \A u \in Thread : Resuming(u)' <=> Resuming(u)
  BY DEF Resuming, Uncounted
<1>2. Main \in Thread  BY DEF Thread
<1>3. /\ MainWaits' <=> MainWaits
      /\ at'[Main].pc = "await" <=> at[Main].pc = "await"
      /\ at'[Main].pc = "returned" <=> at[Main].pc = "returned"
  BY <1>2 DEF MainWaits, Uncounted
<1> QED  BY <1>1, <1>3 DEF CountInv

LEMMA SameTasks ==
    ASSUME NEW t \in Thread, at[t].pc \in Uncounted, at'[t].pc \in Uncounted,
           \A u \in Thread \ {t} : at'[u] = at[u],
           \A c \in Coroutine :
                frame'[c].pc = "done" <=> frame[c].pc = "done"
    PROVE  Unnotified' = Unnotified
<1>1. \A u \in Thread, c \in Coroutine : Notifies(u, c)' <=> Notifies(u, c)
  BY DEF Notifies, Uncounted
<1> QED  BY <1>1 DEF Unnotified

LEMMA QuietShapes ==
    ASSUME TokenInv, CountInv, NEW t \in Thread, NEW c \in Coroutine,
           ShapeOf(t, c)
    PROVE  CountInv'
<1> USE DEF Uncounted
<1>1. ASSUME at[t] = At("run", c), Moves(c)
      PROVE  \A d \in Coroutine :
                frame'[d].pc = "done" <=> frame[d].pc = "done"
  <2>1. Active(c)  BY <1>1 DEF TokenInv, Place
  <2> QED  BY <1>1, <2>1 DEF Moves, OthersStay, Active
<1>2. CASE Goes(t, c)
  <2>1. at[t].pc = "run" /\ at[t] = At("run", c) /\ at' = at /\ Moves(c)
        /\ UNCHANGED <<count, awaiter, event>>
    BY <1>2 DEF Goes, Running, At, waitVars
  <2> QED  BY <1>1, <2>1, SameTasks, QuietStep
<1>3. CASE Suspends(t, c)
  <2>1. at[t].pc = "run" /\ at[t] = At("run", c) /\ Moves(c)
        /\ at' = [at EXCEPT ![t] = At("call", c)]
        /\ UNCHANGED <<count, awaiter, event>>
    BY <1>3 DEF Suspends, Running, At, waitVars
  <2>2. at'[t].pc = "call" /\ \A u \in Thread \ {t} : at'[u] = at[u]
    BY <2>1, ThreadMoves DEF TokenInv, ControlOK, Stages, InCoroutine
  <2> QED  BY <1>1, <2>1, <2>2, SameTasks, QuietStep
<1>4. CASE IsScheduled(t, c)
  <2>1. at[t].pc = "run" /\ at[t] = At("run", c) /\ Moves(c)
        /\ at' = [at EXCEPT ![t] = Resumer(t)]
        /\ UNCHANGED <<count, awaiter, event>>
    BY <1>4 DEF IsScheduled, Running, At, waitVars
  <2>2. at'[t].pc \in {"start", "loop"}
        /\ \A u \in Thread \ {t} : at'[u] = at[u]
    BY <2>1, ThreadResumes DEF TokenInv, ControlOK
  <2> QED  BY <1>1, <2>1, <2>2, SameTasks, QuietStep
<1>5. CASE IsResumed(t, c)
  <2>1. at[t].pc = "get" /\ at' = [at EXCEPT ![t] = At("run", c)]
        /\ UNCHANGED <<frame, count, awaiter, event>>
    BY <1>5 DEF IsResumed, Running, waitVars
  <2>2. at'[t].pc = "run" /\ \A u \in Thread \ {t} : at'[u] = at[u]
    BY <2>1, ThreadMoves DEF TokenInv, ControlOK, Stages, InCoroutine
  <2> QED  BY <2>1, <2>2, SameTasks, QuietStep
<1>6. CASE WritesRest(t, c)
  <2>1. at[t].pc = "run" /\ at[t] = At("run", c)
        /\ frame'[c].pc = "close" /\ OthersStay(c)
        /\ at' = [at EXCEPT ![t] = At("closing", c)]
        /\ UNCHANGED <<count, awaiter, event>>
    BY <1>6 DEF WritesRest, Running, At, waitVars
  <2>2. at'[t].pc = "closing" /\ \A u \in Thread \ {t} : at'[u] = at[u]
    BY <2>1, ThreadMoves DEF TokenInv, ControlOK, Stages, InCoroutine
  <2>3. frame[c].pc # "done"  BY <2>1 DEF TokenInv, Place, Active
  <2>4. \A d \in Coroutine : frame'[d].pc = "done" <=> frame[d].pc = "done"
    BY <2>1, <2>3 DEF OthersStay
  <2> QED  BY <2>1, <2>2, <2>4, SameTasks, QuietStep
<1>7. CASE EndsIn(t, c)
  <2>1. /\ at[t] = At("run", c) \/ at[t] = At("closing", c)
        /\ at[t].pc \in {"run", "closing"}
        /\ at' = [at EXCEPT ![t] = At("notify", c)]
        /\ frame'[c].pc = "done" /\ OthersStay(c)
        /\ UNCHANGED <<count, awaiter, event>>
    BY <1>7 DEF EndsIn, Running, At, waitVars
  <2>2. /\ at'[t].pc = "notify" /\ at'[t].coroutine = c
        /\ \A u \in Thread \ {t} : at'[u] = at[u]
    BY <2>1, ThreadMoves DEF TokenInv, ControlOK, Stages, InCoroutine
  <2>3. frame[c].pc # "done"  BY <2>1 DEF TokenInv, Place, Active
  <2>4. \A u \in Thread, d \in Coroutine \ {c} :
            Notifies(u, d)' <=> Notifies(u, d)
    BY <2>1, <2>2 DEF Notifies
  <2>5. Notifies(t, c)'  BY <2>2 DEF Notifies
  <2>6. Unnotified' = Unnotified
    <3>1. c \in Unnotified /\ c \in Unnotified'
      BY <2>3, <2>5 DEF Unnotified
    <3>2. \A d \in Coroutine \ {c} : d \in Unnotified' <=> d \in Unnotified
      BY <2>1, <2>4 DEF Unnotified, OthersStay
    <3> QED  BY <3>1, <3>2 DEF Unnotified
  <2> QED  BY <2>1, <2>2, <2>6, QuietStep
<1> QED  BY <1>2, <1>3, <1>4, <1>5, <1>6, <1>7 DEF ShapeOf

LEMMA QuietThreads ==
    ASSUME TokenInv, CountInv, NEW t \in Thread, LetsGo(t) \/ Circulates(t)
    PROVE  CountInv'
<1> USE DEF Uncounted
<1>1. CASE LetsGo(t)
  <2>1. at[t].pc = "call" /\ at' = [at EXCEPT ![t] = Resumer(t)]
        /\ UNCHANGED <<frame, count, awaiter, event>>
    BY <1>1 DEF LetsGo, waitVars
  <2>2. at'[t].pc \in {"start", "loop"}
        /\ \A u \in Thread \ {t} : at'[u] = at[u]
    BY <2>1, ThreadResumes DEF TokenInv, ControlOK
  <2> QED  BY <2>1, <2>2, SameTasks, QuietStep
<1>2. CASE Circulates(t)
  <2>1. PICK pc \in {"loop", "post", "get"} :
                at' = [at EXCEPT ![t] = At(pc, NoCoroutine)]
    BY <1>2 DEF Circulates, Idle
  <2>2. at[t].pc \in {"loop", "post", "get"}
        /\ UNCHANGED <<frame, count, awaiter, event>>
    BY <1>2 DEF Circulates, waitVars
  <2>3. at'[t].pc = pc /\ \A u \in Thread \ {t} : at'[u] = at[u]
    BY <2>1, ThreadParks DEF TokenInv, ControlOK, Stages, InCoroutine
  <2> QED  BY <2>2, <2>3, SameTasks, QuietStep
<1> QED  BY <1>1, <1>2

LEMMA CountStart ==
    ASSUME TokenInv, CountInv, StartTask
    PROVE  CountInv'
<1> USE DEF Uncounted
<1>1. PICK c \in Coroutine :
            /\ frame[c].pc = "new"
            /\ at' = [at EXCEPT ![Main] = At("run", c)]
            /\ frame' = [frame EXCEPT ![c].pc = "next"]
  <2>1. started \in Nat /\ Len(TaskOrder) \in Nat
        /\ started + 1 \in 1..Len(TaskOrder)
    BY AsyncAssumption DEF StartTask, TokenInv, ControlOK
  <2>2. TaskOrder[started + 1] \in Coroutine  BY <2>1, AsyncAssumption
  <2>3. started + 1 \in (started + 1)..Len(TaskOrder)  BY <2>1
  <2> QED  BY <2>2, <2>3 DEF StartTask, Running, TokenInv, NotStarted
<1>2. Main \in Thread  BY DEF Thread
<1>3. at'[Main].pc = "run" /\ \A u \in Thread \ {Main} : at'[u] = at[u]
  BY <1>1, <1>2, ThreadMoves DEF TokenInv, ControlOK, Stages, InCoroutine
<1>4. at[Main].pc = "start" /\ UNCHANGED <<count, awaiter, event>>
  BY DEF StartTask
<1>5. \A d \in Coroutine : frame'[d].pc = "done" <=> frame[d].pc = "done"
  BY <1>1 DEF TokenInv, ControlOK, FramesOK
<1> QED  BY <1>2, <1>3, <1>4, <1>5, SameTasks, QuietStep

(***************************************************************************)
(* The steps that count, and those that wait for the count.                *)
(***************************************************************************)
LEMMA MainMoves ==
    ASSUME TokenInv, NEW pc \in {"await", "wait", "resume", "returned"},
           at' = [at EXCEPT ![Main] = Idle(pc)], UNCHANGED frame,
           at[Main].pc \in {"start", "await", "wait"}
    PROVE  /\ at'[Main].pc = pc
           /\ \A u \in Thread \ {Main} : at'[u] = at[u]
           /\ Unnotified' = Unnotified
<1>1. Main \in Thread  BY DEF Thread
<1>2. pc \in Stages /\ pc \notin InCoroutine  BY DEF Stages, InCoroutine
<1>3. /\ at'[Main].pc = pc
      /\ \A u \in Thread \ {Main} : at'[u] = at[u]
  BY <1>1, <1>2, ThreadParks DEF TokenInv, ControlOK, Idle
<1>4. \A u \in Thread, c \in Coroutine : Notifies(u, c)' <=> Notifies(u, c)
  BY <1>3 DEF Notifies
<1> QED  BY <1>3, <1>4 DEF Unnotified

LEMMA CountRegister ==
    ASSUME TokenInv, CountInv, RegisterAwaiter
    PROVE  CountInv'
<1>1. /\ at[Main].pc = "start" /\ at' = [at EXCEPT ![Main] = Idle("await")]
      /\ awaiter' /\ UNCHANGED <<frame, count, event>>
  BY DEF RegisterAwaiter
<1>2. /\ at'[Main].pc = "await"
      /\ \A u \in Thread \ {Main} : at'[u] = at[u]
      /\ Unnotified' = Unnotified
  BY <1>1, MainMoves
<1>3. \A u \in Thread : Resuming(u)' <=> Resuming(u)
  BY <1>1, <1>2 DEF Resuming
<1>4. ~ MainWaits /\ ~ MainWaits'  BY <1>1, <1>2 DEF MainWaits
<1> QED  BY <1>1, <1>2, <1>3, <1>4 DEF CountInv

LEMMA CountAwait ==
    ASSUME TokenInv, CountInv, TryAwait
    PROVE  CountInv'
<1> DEFINE n == Cardinality(Unnotified)
<1>1. n \in Nat  BY UnnotifiedFinite
<1>2. PICK pc \in {"wait", "resume"} :
            /\ at' = [at EXCEPT ![Main] = Idle(pc)]
            /\ pc = "resume" <=> ~ (count > 1)
  <2> DEFINE pc == IF count > 1 THEN "wait" ELSE "resume"
  <2>1. at' = [at EXCEPT ![Main] = Idle(pc)]  BY DEF TryAwait
  <2>2. pc \in {"wait", "resume"} /\ (pc = "resume" <=> ~ (count > 1))
    OBVIOUS
  <2> QED  BY <2>1, <2>2
<1>3. /\ at[Main].pc = "await" /\ count' = count - 1
      /\ UNCHANGED <<frame, awaiter, event>>
  BY DEF TryAwait
<1>4. /\ at'[Main].pc = pc
      /\ \A u \in Thread \ {Main} : at'[u] = at[u]
      /\ Unnotified' = Unnotified
  BY <1>2, <1>3, MainMoves
<1>5. ~ MainWaits /\ MainWaits' /\ at'[Main].pc # "returned"
  BY <1>3, <1>4 DEF MainWaits
<1>6. n' = n  BY <1>4
<1>7. count = n + 1
  BY <1>5 DEF CountInv
<1> HIDE DEF n
<1>8. count' = n /\ (pc = "resume" => count' = 0) /\ count # 0
  BY <1>1, <1>2, <1>3, <1>7
<1>9. ~ event' /\ \A u \in Thread : ~ Resuming(u)
  BY <1>3, <1>8 DEF CountInv
<1>10. \A u \in Thread : Resuming(u)' => u = Main /\ pc = "resume"
  BY <1>4, <1>9 DEF Resuming
<1>11. count' = n' + (IF MainWaits' THEN 0 ELSE 1)
  BY <1>1, <1>5, <1>6, <1>8
<1>12. awaiter'  BY <1>3 DEF CountInv
<1> QED
  BY <1>5, <1>8, <1>9, <1>10, <1>11, <1>12 DEF CountInv, n

LEMMA CountReturn ==
    ASSUME TokenInv, CountInv, WaitReturns
    PROVE  CountInv'
<1>1. /\ at[Main].pc = "wait" /\ event
      /\ at' = [at EXCEPT ![Main] = Idle("returned")]
      /\ UNCHANGED <<frame, count, awaiter, event>>
  BY DEF WaitReturns, waitVars
<1>2. /\ at'[Main].pc = "returned"
      /\ \A u \in Thread \ {Main} : at'[u] = at[u]
      /\ Unnotified' = Unnotified
  BY <1>1, MainMoves
<1>3. \A u \in Thread : Resuming(u)' <=> Resuming(u)
  BY <1>1, <1>2 DEF Resuming
<1>4. MainWaits /\ MainWaits'  BY <1>1, <1>2 DEF MainWaits
<1> QED  BY <1>1, <1>2, <1>3, <1>4 DEF CountInv

LEMMA CountEvent ==
    ASSUME TokenInv, CountInv, NEW t \in Thread, SetEvent(t)
    PROVE  CountInv'
<1>1. PICK pc \in {"wait", "loop"} :
            /\ at' = [at EXCEPT ![t] = At(pc, NoCoroutine)]
            /\ pc = "wait" <=> t = Main
  BY DEF SetEvent, Idle
<1>2. /\ at[t].pc = "resume" /\ event'
      /\ UNCHANGED <<frame, count, awaiter>>
  BY DEF SetEvent
<1>3. pc \in Stages /\ pc \notin InCoroutine  BY DEF Stages, InCoroutine
<1>4. at'[t].pc = pc /\ \A u \in Thread \ {t} : at'[u] = at[u]
  BY <1>1, <1>3, ThreadParks DEF TokenInv, ControlOK
<1>5. Unnotified' = Unnotified
  <2>1. \A u \in Thread, c \in Coroutine : Notifies(u, c)' <=> Notifies(u, c)
    BY <1>2, <1>4 DEF Notifies
  <2> QED  BY <1>2, <2>1 DEF Unnotified
<1>6. count = 0 /\ \A u \in Thread : Resuming(u) => u = t
  BY <1>2 DEF CountInv, Resuming
<1>7. \A u \in Thread : ~ Resuming(u)'
  BY <1>4, <1>6 DEF Resuming
<1>8. Main \in Thread  BY DEF Thread
<1>9. /\ MainWaits' <=> MainWaits
      /\ at'[Main].pc # "await" \/ t # Main
      /\ t # Main => at'[Main] = at[Main]
  BY <1>1, <1>2, <1>4, <1>8 DEF MainWaits
<1>10. MainWaits /\ awaiter  BY <1>6, AtZero
<1> QED
  BY <1>2, <1>5, <1>6, <1>7, <1>9, <1>10 DEF CountInv

LEMMA CountNotify ==
    ASSUME TokenInv, CountInv, NEW t \in Thread, NotifyAwaitableCompleted(t)
    PROVE  CountInv'
<1> DEFINE n == Cardinality(Unnotified)
<1>1. PICK c \in Coroutine :
            /\ Notifies(t, c) /\ Holds(t, c)
            /\ frame[c].pc = "done"
  <2> DEFINE c == at[t].coroutine
  <2>1. at[t].pc = "notify"  BY DEF NotifyAwaitableCompleted
  <2>2. c \in Coroutine
    BY <2>1 DEF TokenInv, ControlOK, ThreadsOK, InCoroutine
  <2>3. at[t] = At("notify", c)
    BY <2>1, ThreadIs DEF TokenInv, ControlOK
  <2>4. frame[c].pc = "done"  BY <2>2, <2>3 DEF TokenInv, Place
  <2> QED  BY <2>1, <2>2, <2>4 DEF Notifies, Holds
<1>2. PICK pc \in {"start", "loop", "resume"} :
            /\ at' = [at EXCEPT ![t] = At(pc, NoCoroutine)]
            /\ pc = "resume" <=> count = 1
            /\ t = Main => pc \in {"start", "resume"}
            /\ t # Main => pc \in {"loop", "resume"}
  BY DEF NotifyAwaitableCompleted, Resumer, Idle, IsLast
<1>3. count' = count - 1 /\ UNCHANGED <<frame, awaiter, event>>
  BY DEF NotifyAwaitableCompleted
<1>4. pc \in Stages /\ pc \notin InCoroutine  BY DEF Stages, InCoroutine
<1>5. /\ at'[t].pc = pc /\ at'[t].coroutine = NoCoroutine
      /\ \A u \in Thread \ {t} : at'[u] = at[u]
  BY <1>2, <1>4, ThreadParks DEF TokenInv, ControlOK
<1>6. Unnotified' = Unnotified \ {c}
  <2>1. \A u \in Thread \ {t} : ~ Notifies(u, c)
    <3>1. \A u \in Thread \ {t} : ~ Holds(u, c)  BY <1>1, Holder
    <3> QED  BY <3>1 DEF Holds, Notifies
  <2>2. \A u \in Thread : ~ Notifies(u, c)'
    BY <1>5, <2>1 DEF Notifies
  <2>3. \A u \in Thread, d \in Coroutine \ {c} :
            Notifies(u, d)' <=> Notifies(u, d)
    BY <1>1, <1>5 DEF Notifies
  <2>4. c \notin Unnotified'  BY <1>1, <1>3, <2>2 DEF Unnotified
  <2>5. \A d \in Coroutine \ {c} : d \in Unnotified' <=> d \in Unnotified
    BY <1>3, <2>3 DEF Unnotified
  <2> QED  BY <2>4, <2>5 DEF Unnotified
<1>7. c \in Unnotified  BY <1>1 DEF Unnotified
<1>8. n \in Nat /\ n' = n - 1 /\ n' \in Nat
  <2>1. Cardinality(Unnotified \ {c}) = Cardinality(Unnotified) - 1
    BY <1>7, UnnotifiedFinite, FS_RemoveElement
  <2>2. IsFiniteSet(Unnotified \ {c})
    BY UnnotifiedFinite, FS_RemoveElement
  <2>3. Cardinality(Unnotified \ {c}) \in Nat  BY <2>2, FS_CardinalityType
  <2> QED  BY <1>6, <2>1, <2>3, UnnotifiedFinite
<1>9. count = n + (IF MainWaits THEN 0 ELSE 1)  BY DEF CountInv
<1>10. t = Main => at[Main].pc = "notify"  BY <1>1 DEF Notifies
<1> HIDE DEF n
<1>11. count # 0 /\ count \in Nat
       /\ count' = n' + (IF MainWaits THEN 0 ELSE 1)
  BY <1>3, <1>8, <1>9
<1>12. ~ event /\ \A u \in Thread : ~ Resuming(u)
  BY <1>11 DEF CountInv
<1>13. t = Main => pc = "start"
  <2>1. t = Main => ~ MainWaits  BY <1>10 DEF MainWaits
  <2>2. t = Main => count # 1  BY <1>8, <1>9, <2>1
  <2> QED  BY <1>2, <2>2
<1>14. Main \in Thread  BY DEF Thread
<1>15. /\ MainWaits' <=> MainWaits
       /\ at'[Main].pc = "await" <=> at[Main].pc = "await"
       /\ at'[Main].pc = "returned" <=> at[Main].pc = "returned"
  BY <1>5, <1>10, <1>13, <1>14 DEF MainWaits
<1>16. \A u \in Thread : Resuming(u)' => u = t /\ count' = 0
  <2>1. \A u \in Thread : Resuming(u)' => u = t /\ pc = "resume"
    BY <1>5, <1>12 DEF Resuming
  <2>2. pc = "resume" => count' = 0  BY <1>2, <1>3
  <2> QED  BY <2>1, <2>2
<1>17. count' = n' + (IF MainWaits' THEN 0 ELSE 1)  BY <1>11, <1>15
<1> QED
  BY <1>3, <1>12, <1>15, <1>16, <1>17 DEF CountInv, n

LEMMA CountStep ==
    ASSUME TokenInv, CountInv, [Next]_vars
    PROVE  CountInv'
<1>1. CASE \E c \in Coroutine : IsCompleted(c)
  BY <1>1 DEF IsCompleted, waitVars, CountInv, MainWaits, Resuming,
              Unnotified, Notifies
<1>2. CASE UNCHANGED vars
  BY <1>2 DEF vars, waitVars, CountInv, MainWaits, Resuming, Unnotified,
              Notifies
<1> QED
  BY <1>1, <1>2, StepShapes, QuietShapes, QuietThreads, CountStart,
     CountRegister, CountAwait, CountReturn, CountEvent, CountNotify DEF Shape

LEMMA CountInit ==
    ASSUME Init
    PROVE  CountInv
<1>1. /\ \A c \in Coroutine : frame[c].pc = "new"
      /\ count = Len(TaskOrder) + 1 /\ ~ event
  BY DEF Init, InitialCount
<1>2. Main \in Thread  BY DEF Thread
<1>3. \A t \in Thread : at[t].pc \in {"start", "loop"}
  BY DEF Init, Resumer, Idle, At
<1>4. at[Main].pc = "start"
  BY <1>2 DEF Init, Resumer, Idle, At
<1>5. Unnotified = Coroutine  BY <1>1 DEF Unnotified
<1>6. count = Cardinality(Unnotified) + 1
  BY <1>1, <1>5, CoroutinesFinite
<1> QED  BY <1>1, <1>3, <1>4, <1>6 DEF CountInv, MainWaits, Resuming

AsyncInv == TokenInv /\ CountInv

LEMMA AsyncInvariant == Spec => []AsyncInv
<1>1. Init => AsyncInv  BY TokenInit, CountInit DEF AsyncInv
<1>2. AsyncInv /\ [Next]_vars => AsyncInv'
  BY TokenStep, CountStep DEF AsyncInv
<1> QED  BY <1>1, <1>2, PTL DEF Spec

(***************************************************************************)
(* The coroutine that SyncWait runs goes on in one thread, after it has    *)
(* registered itself, when all tasks are done, and once.                   *)
(***************************************************************************)
THEOREM ResumedOnceAllDone == Spec => []ResumedAfterTasks
<1>1. AsyncInv => ResumedAfterTasks
  BY AtZero DEF AsyncInv, CountInv, Resuming, ResumedAfterTasks
<1> QED  BY AsyncInvariant, <1>1, PTL

(***************************************************************************)
(* When SyncWait has returned, no thread is in a coroutine, the kernel     *)
(* writes to no buffer and no packet leads to a frame.                     *)
(***************************************************************************)
THEOREM FramesSafe == Spec => []FramesOutliveUse
<1>1. ASSUME AsyncInv, at[Main].pc = "returned"
      PROVE  /\ \A t \in Thread :
                    at[t].pc \notin {"run", "closing", "notify", "resume"}
             /\ \A c \in Coroutine : request[c] = NoRequest /\ ~ Completing(c)
  <2>1. event /\ count = 0
        /\ \A t \in Thread : at[t].pc # "resume"
    BY <1>1 DEF AsyncInv, CountInv, Resuming
  <2>2. \A c \in Coroutine :
            frame[c].pc = "done" /\ \A t \in Thread : ~ Notifies(t, c)
    BY <1>1, <2>1, AtZero DEF AsyncInv
  <2>3. \A c \in Coroutine : Free(c)
    BY <1>1, <2>2 DEF AsyncInv, TokenInv, Place
  <2>4. ASSUME NEW t \in Thread, at[t].pc \in {"run", "closing", "notify"}
        PROVE  FALSE
    <3> DEFINE c == at[t].coroutine
    <3>1. c \in Coroutine
      BY <1>1, <2>4 DEF AsyncInv, TokenInv, ControlOK, ThreadsOK, InCoroutine
    <3>2. at[t].pc # "notify"  BY <2>2, <3>1 DEF Notifies
    <3>3. at[t] = At("run", c) \/ at[t] = At("closing", c)
      BY <1>1, <2>4, <3>2, ThreadIs DEF AsyncInv, TokenInv, ControlOK
    <3>4. frame[c].pc # "done"
      BY <1>1, <3>1, <3>3 DEF AsyncInv, TokenInv, Place, Active
    <3> QED  BY <2>2, <3>1, <3>4
  <2> QED
    BY <2>1, <2>3, <2>4 DEF Free, Has, IsCompletion, Completing
<1>2. AsyncInv => FramesOutliveUse
  BY <1>1 DEF FramesOutliveUse
<1> QED  BY AsyncInvariant, <1>2, PTL

-----------------------------------------------------------------------------
(***************************************************************************)
(* What carries the operations of schedule(): packets in the port, the     *)
(* overflow list, and what the I/O threads have taken from it.             *)
(***************************************************************************)
PostedIn(packets) == {i \in DOMAIN packets : packets[i].kind = "posted"}

LEMMA PostedFinite ==
    ASSUME NEW packets, IsPort(packets)
    PROVE  /\ IsFiniteSet(PostedIn(packets))
           /\ Cardinality(PostedIn(packets)) \in Nat
<1>1. PICK n \in Nat : DOMAIN packets = 1..n
  <2>1. PICK S : packets \in Seq(S)  BY DEF IsPort
  <2> QED  BY <2>1
<1>2. IsFiniteSet(1..n)
  <2>1. n \in Int /\ 1 \in Int  OBVIOUS
  <2> QED  BY <2>1, FS_Interval
<1>3. PostedIn(packets) \in SUBSET (1..n)  BY <1>1 DEF PostedIn
<1> QED  BY <1>2, <1>3, FS_Subset, FS_CardinalityType

(***************************************************************************)
(* A packet added or taken counts if it was posted.                        *)
(***************************************************************************)
LEMMA PostedAppend ==
    ASSUME NEW packets, IsPort(packets), NEW packet
    PROVE  Cardinality(PostedIn(Append(packets, packet)))
            = Cardinality(PostedIn(packets))
              + (IF packet.kind = "posted" THEN 1 ELSE 0)
<1>1. PICK S : packets \in Seq(S)  BY DEF IsPort
<1> DEFINE T == S \union {packet}
           longer == Append(packets, packet)
           n == Len(packets) + 1
<1>2. packets \in Seq(T) /\ packet \in T  BY <1>1
<1>3. /\ longer \in Seq(T)
      /\ Len(longer) = n
      /\ \A i \in 1..Len(packets) : longer[i] = packets[i]
      /\ longer[n] = packet
  BY <1>2, AppendProperties
<1>4. /\ DOMAIN packets = 1..Len(packets) /\ Len(packets) \in Nat
      /\ DOMAIN longer = 1..n
  BY <1>2, <1>3
<1> HIDE DEF longer, T
<1>5. /\ \A i \in DOMAIN longer : i \in DOMAIN packets \/ i = n
      /\ \A i \in DOMAIN packets : i \in DOMAIN longer /\ i # n
      /\ n \in DOMAIN longer
  BY <1>4
<1> HIDE DEF n
<1>6. n \notin PostedIn(packets)  BY <1>5 DEF PostedIn
<1>7. CASE packet.kind = "posted"
  <2>1. PostedIn(longer) = PostedIn(packets) \union {n}
    BY <1>3, <1>4, <1>5, <1>7 DEF PostedIn
  <2> QED  BY <1>6, <1>7, <2>1, PostedFinite, FS_AddElement DEF longer
<1>8. CASE packet.kind # "posted"
  <2>1. PostedIn(longer) = PostedIn(packets)
    BY <1>3, <1>4, <1>5, <1>8 DEF PostedIn
  <2> QED  BY <1>8, <2>1, PostedFinite DEF longer
<1> QED  BY <1>7, <1>8

LEMMA PostedTail ==
    ASSUME NEW packets, IsPort(packets), packets # <<>>
    PROVE  Cardinality(PostedIn(packets))
            = Cardinality(PostedIn(Tail(packets)))
              + (IF Head(packets).kind = "posted" THEN 1 ELSE 0)
<1>1. PICK S : packets \in Seq(S)  BY DEF IsPort
<1> DEFINE rest == Tail(packets)
<1>2. /\ rest \in Seq(S)
      /\ Len(rest) = Len(packets) - 1
      /\ \A i \in 1..Len(rest) : rest[i] = packets[i + 1]
      /\ Head(packets) = packets[1]
  BY <1>1, HeadTailProperties
<1>3. /\ DOMAIN packets = 1..Len(packets)
      /\ Len(packets) \in Nat \ {0}
      /\ DOMAIN rest = 1..(Len(packets) - 1)
  BY <1>1, <1>2, EmptySeq
<1> HIDE DEF rest
<1>4. 1 \in DOMAIN packets  BY <1>3
<1>5. \A i \in DOMAIN rest : i + 1 \in DOMAIN packets /\ i + 1 # 1
                             /\ rest[i] = packets[i + 1]
  BY <1>2, <1>3
<1>6. \A i \in DOMAIN packets : i = 1 \/ \E j \in DOMAIN rest : i = j + 1
  <2> SUFFICES ASSUME NEW i \in DOMAIN packets, i # 1
               PROVE  \E j \in DOMAIN rest : i = j + 1
    OBVIOUS
  <2>1. i - 1 \in DOMAIN rest /\ i = (i - 1) + 1  BY <1>3
  <2> QED  BY <2>1
<1>7. \A i, j \in DOMAIN rest : i + 1 = j + 1 => i = j  BY <1>3
<1> DEFINE later == PostedIn(packets) \ {1}
           next1 == [i \in PostedIn(rest) |-> i + 1]
<1>8. next1 \in Bijection(PostedIn(rest), later)
  <2>1. \A i \in PostedIn(rest) : i + 1 \in later
    BY <1>5 DEF PostedIn
  <2>2. \A i, j \in PostedIn(rest) : i + 1 = j + 1 => i = j
    BY <1>7 DEF PostedIn
  <2>3. \A k \in later : \E i \in PostedIn(rest) : k = i + 1
    BY <1>5, <1>6 DEF PostedIn
  <2> HIDE DEF later
  <2>4. /\ next1 \in [PostedIn(rest) -> later]
        /\ \A i \in PostedIn(rest) : next1[i] = i + 1
    BY <2>1
  <2> HIDE DEF next1
  <2>5. next1 \in Injection(PostedIn(rest), later)
    BY <2>2, <2>4 DEF Injection, IsInjective
  <2>6. next1 \in Surjection(PostedIn(rest), later)
    BY <2>3, <2>4 DEF Surjection
  <2> QED  BY <2>5, <2>6 DEF Bijection
<1>9. IsFiniteSet(PostedIn(rest)) /\ Cardinality(later) = Cardinality(PostedIn(rest))
  <2>1. ExistsBijection(PostedIn(rest), later)
    BY <1>8 DEF ExistsBijection
  <2>2. IsFiniteSet(PostedIn(rest))
    BY PortTail, PostedFinite DEF rest
  <2> QED  BY <2>1, <2>2, FS_Bijection
<1> HIDE DEF next1
<1>10. Cardinality(later) = IF 1 \in PostedIn(packets)
                            THEN Cardinality(PostedIn(packets)) - 1
                            ELSE Cardinality(PostedIn(packets))
  BY PostedFinite, FS_RemoveElement
<1>11. 1 \in PostedIn(packets) <=> Head(packets).kind = "posted"
  BY <1>2, <1>4 DEF PostedIn
<1> QED  BY <1>9, <1>10, <1>11, PostedFinite DEF rest

(***************************************************************************)
(* What the threads have in hand grows and shrinks with what one of them   *)
(* has.                                                                    *)
(***************************************************************************)
HandedOut(hands) ==
    {p \in IOThread \X (1..Len(TaskOrder)) : p[2] \in DOMAIN hands[p[1]]}

HandsOK(hands) ==
    /\ hands \in [IOThread -> Seq(Coroutine)]
    /\ \A t \in IOThread : Len(hands[t]) <= Len(TaskOrder)
    /\ IsFiniteSet(HandedOut(hands))

InHand(t, n) == {t} \X (1..n)

LEMMA InHandFinite ==
    ASSUME NEW t, NEW n \in Nat
    PROVE  IsFiniteSet(InHand(t, n)) /\ Cardinality(InHand(t, n)) = n
<1>1. IsFiniteSet(1..n) /\ Cardinality(1..n) = n
  <2>1. n \in Int /\ 1 \in Int  OBVIOUS
  <2>2. /\ IsFiniteSet(1..n)
        /\ Cardinality(1..n) = IF 1 > n THEN 0 ELSE n - 1 + 1
    BY <2>1, FS_Interval
  <2> QED  BY <2>2
<1>2. IsFiniteSet({t}) /\ Cardinality({t}) = 1  BY FS_Singleton
<1>3. /\ IsFiniteSet({t} \X (1..n))
      /\ Cardinality({t} \X (1..n)) = 1 * n
  BY <1>1, <1>2, FS_Product, ZenonT(30)
<1> QED  BY <1>3 DEF InHand

LEMMA HandedSplit ==
    ASSUME NEW hands, HandsOK(hands), NEW t \in IOThread
    PROVE  LET others == {p \in HandedOut(hands) : p[1] # t}
           IN  /\ IsFiniteSet(others)
               /\ Len(hands[t]) \in Nat
               /\ HandedOut(hands) = others \union InHand(t, Len(hands[t]))
               /\ Cardinality(HandedOut(hands))
                    = Cardinality(others) + Len(hands[t])
<1> DEFINE others == {p \in HandedOut(hands) : p[1] # t}
           n == Len(hands[t])
<1>1. n \in Nat /\ DOMAIN hands[t] = 1..n /\ n <= Len(TaskOrder)
      /\ Len(TaskOrder) \in Nat
  BY AsyncAssumption DEF HandsOK
<1>2. others \in SUBSET HandedOut(hands) /\ IsFiniteSet(HandedOut(hands))
  BY DEF HandsOK
<1>3. IsFiniteSet(others) /\ Cardinality(others) \in Nat
  BY <1>2, FS_Subset, FS_CardinalityType
<1> HIDE DEF n
<1>4. HandedOut(hands) = others \union InHand(t, n)
  <2>1. ASSUME NEW p \in HandedOut(hands), p[1] = t
        PROVE  p \in InHand(t, n)
    BY <1>1, <2>1 DEF HandedOut, InHand
  <2>2. ASSUME NEW p \in InHand(t, n)
        PROVE  p \in HandedOut(hands)
    <3>1. \A k \in 1..n : k \in 1..Len(TaskOrder)  BY <1>1
    <3> QED  BY <1>1, <2>2, <3>1 DEF HandedOut, InHand
  <2> QED  BY <2>1, <2>2
<1>5. others \cap InHand(t, n) = {}
  BY DEF InHand
<1>6. IsFiniteSet(InHand(t, n)) /\ Cardinality(InHand(t, n)) = n
  BY <1>1, InHandFinite
<1> HIDE DEF others
<1>7. Cardinality(HandedOut(hands)) = Cardinality(others) + n - 0
  BY <1>3, <1>4, <1>5, <1>6, FS_Union, FS_EmptySet
<1> QED  BY <1>1, <1>3, <1>4, <1>7 DEF others, n

LEMMA HandedMoves ==
    ASSUME NEW hands, HandsOK(hands), NEW t \in IOThread,
           NEW s \in Seq(Coroutine), Len(s) <= Len(TaskOrder),
           NEW later \in [IOThread -> Seq(Coroutine)], later[t] = s,
           \A u \in IOThread \ {t} : later[u] = hands[u]
    PROVE  /\ HandsOK(later)
           /\ Cardinality(HandedOut(hands)) \in Nat /\ Len(hands[t]) \in Nat
           /\ Cardinality(HandedOut(later))
                = Cardinality(HandedOut(hands)) - Len(hands[t]) + Len(s)
<1> DEFINE others == {p \in HandedOut(hands) : p[1] # t}
<1>1. /\ IsFiniteSet(others)
      /\ Len(hands[t]) \in Nat
      /\ HandedOut(hands) = others \union InHand(t, Len(hands[t]))
      /\ Cardinality(HandedOut(hands)) = Cardinality(others) + Len(hands[t])
  BY HandedSplit
<1>2. /\ later[t] = s /\ later \in [IOThread -> Seq(Coroutine)]
      /\ \A u \in IOThread \ {t} : later[u] = hands[u]
  BY DEF HandsOK
<1>3. \A u \in IOThread : Len(later[u]) <= Len(TaskOrder)
  BY <1>2 DEF HandsOK
<1>4. others = {p \in HandedOut(later) : p[1] # t}
  BY <1>2 DEF HandedOut
<1> HIDE DEF others
<1>5. HandedOut(later) \subseteq others \union InHand(t, Len(s))
  <2>1. DOMAIN s = 1..Len(s)  OBVIOUS
  <2>2. ASSUME NEW p \in HandedOut(later), p[1] = t
        PROVE  p \in InHand(t, Len(s))
    BY <1>2, <2>1, <2>2 DEF HandedOut, InHand
  <2> QED  BY <1>4, <2>2
<1>6. IsFiniteSet(InHand(t, Len(s)))  BY InHandFinite
<1>7. IsFiniteSet(others \union InHand(t, Len(s)))
  BY <1>1, <1>6, FS_Union
<1>8. HandsOK(later)
  BY <1>2, <1>3, <1>5, <1>7, FS_Subset DEF HandsOK
<1>9. Cardinality(HandedOut(later)) = Cardinality(others) + Len(later[t])
  BY <1>4, <1>8, HandedSplit
<1>10. Cardinality(others) \in Nat /\ Len(s) \in Nat
  BY <1>1, FS_CardinalityType
<1> QED  BY <1>1, <1>2, <1>8, <1>9, <1>10

(***************************************************************************)
(* Where the scheduled operations are.  A coroutine that waits for         *)
(* schedule() is suspended for good.                                       *)
(***************************************************************************)
Scheduled == {c \in Coroutine : frame[c].awaits = "schedule"}

Stuck(c) ==
    /\ frame[c].pc # "new" /\ Free(c)
    /\ \A t \in Thread : ~ Holds(t, c)

ScheduleInv ==
    /\ overflow \in Seq(Coroutine)
    /\ HandsOK(posting)
    /\ emptyWakeUps \in Nat
    /\ \A t \in IOThread : at[t].pc = "post" <=> posting[t] # <<>>
    /\ \A c \in Scheduled : Stuck(c)
    /\ ScheduledKept

LEMMA Balance ==
    ScheduledKept <=>
        Cardinality(Scheduled)
            = Len(overflow) + Cardinality(HandedOut(posting))
              + Cardinality(PostedIn(port)) + emptyWakeUps
BY DEF ScheduledKept, Scheduled, HandedOut, PostedIn

(***************************************************************************)
(* A step that moves no scheduled operation.                               *)
(***************************************************************************)
LEMMA ScheduleQuiet ==
    ASSUME ScheduleInv, NEW t \in Thread,
           at'[t].pc = "post" <=> at[t].pc = "post",
           \A u \in Thread \ {t} : at'[u] = at[u],
           \A c \in Coroutine :
                frame'[c].awaits = "schedule" <=> frame[c].awaits = "schedule",
           \A c \in Scheduled : Stuck(c)',
           Cardinality(PostedIn(port')) = Cardinality(PostedIn(port)),
           UNCHANGED <<overflow, posting, emptyWakeUps>>
    PROVE  ScheduleInv'
<1>1. Scheduled' = Scheduled  BY DEF Scheduled
<1>2. \A u \in IOThread : at'[u].pc = "post" <=> at[u].pc = "post"
  BY DEF Thread
<1>3. ScheduledKept'
  <2>1. Cardinality(Scheduled')
            = Len(overflow') + Cardinality(HandedOut(posting'))
              + Cardinality(PostedIn(port')) + emptyWakeUps'
    BY <1>1, Balance DEF ScheduleInv
  <2> QED
    BY <2>1 DEF ScheduledKept, Scheduled, HandedOut, PostedIn
<1> QED  BY <1>1, <1>2, <1>3 DEF ScheduleInv

(***************************************************************************)
(* What a thread does in a coroutine leaves those alone that are stuck.    *)
(***************************************************************************)
LEMMA StuckAlone ==
    ASSUME TokenInv, ScheduleInv, NEW t \in Thread, NEW c \in Coroutine,
           Holds(t, c),
           \A u \in Thread \ {t} : at'[u] = at[u],
           at'[t].coroutine \in {c, NoCoroutine},
           \A d \in Coroutine \ {c} :
                frame'[d].pc = frame[d].pc /\ request'[d] = request[d],
           \A d \in Coroutine : Has(port', d) <=> Has(port, d),
           NEW d \in Scheduled
    PROVE  d # c /\ Stuck(d)'
<1>1. d \in Coroutine /\ Stuck(d)  BY DEF ScheduleInv, Scheduled
<1>2. d # c  BY <1>1 DEF Stuck
<1>3. d # NoCoroutine  BY <1>1, AsyncAssumption
<1>4. \A u \in Thread : ~ Holds(u, d)'
  BY <1>1, <1>2, <1>3 DEF Stuck, Holds
<1>5. Free(d)' /\ frame'[d].pc # "new"
  BY <1>1, <1>2 DEF Stuck, Free
<1> QED  BY <1>2, <1>4, <1>5 DEF Stuck

(***************************************************************************)
(* The steps of a coroutine other than schedule().                         *)
(***************************************************************************)
OwnFrame(c) ==
    /\ \A d \in Coroutine \ {c} : frame'[d] = frame[d]
    /\ frame'[c].awaits \in {"nothing", "direct", "refill", "flush", "write",
                             frame[c].awaits}

OwnStep(t, c) ==
    /\ at[t] \in {Running(c), At("closing", c)}
    /\ at'[t] \in {Running(c), At("call", c), At("closing", c),
                   At("notify", c)}
    /\ \A u \in Thread \ {t} : at'[u] = at[u]
    /\ OwnFrame(c)
    /\ \A d \in Coroutine \ {c} : request'[d] = request[d]
    /\ UNCHANGED portVars

LEMMA OwnTryStart ==
    ASSUME TokenInv, NEW t \in Thread, NEW c \in Coroutine, at[t] = Running(c),
           NEW awaited \in {"direct", "refill", "flush", "write"}, NEW r,
           TryStart(t, c, awaited, r)
    PROVE  OwnStep(t, c)
<1>1. OwnFrame(c)
  BY DEF TryStart, OwnFrame, TokenInv, ControlOK, FramesOK
<1>2. CASE UNCHANGED <<request, at>>
  BY <1>1, <1>2 DEF TryStart, OwnStep
<1>3. CASE /\ request' = [request EXCEPT ![c] = r]
           /\ at' = [at EXCEPT ![t] = At("call", c)]
  BY <1>1, <1>3 DEF TryStart, OwnStep, TokenInv, ControlOK, ThreadsOK
<1> QED  BY <1>2, <1>3 DEF TryStart

LEMMA OwnSteps ==
    ASSUME TokenInv, NEW t \in Thread, NEW c \in Coroutine,
           RunCoroutine(t, c), ~ Schedule(t, c)
    PROVE  OwnStep(t, c)
<1> USE DEF TokenInv, ControlOK, FramesOK, ThreadsOK
<1>1. ASSUME at[t] = Running(c), UNCHANGED <<at, request, portVars>>,
             \/ Return(c) \/ \E pc, call : Reach(c, pc, call)
      PROVE  OwnStep(t, c)
  <2>1. CASE Return(c)
    BY <1>1, <2>1 DEF OwnStep, OwnFrame, Return
  <2>2. ASSUME NEW pc, NEW call, Reach(c, pc, call)
        PROVE  OwnFrame(c)
    BY <2>2 DEF OwnFrame, Reach
  <2> QED  BY <1>1, <2>1, <2>2 DEF OwnStep
<1>2. CASE \/ BeginSkip(t, c) \/ BeginRead(t, c) \/ BeginWrite(t, c)
           \/ ResumeDirect(t, c) \/ ResumeRefill(t, c) \/ ResumeWrite(t, c)
  <2>1. at[t] = Running(c) /\ UNCHANGED <<at, request, portVars>>
    BY <1>2 DEF BeginSkip, BeginRead, BeginWrite, ResumeDirect, ResumeRefill,
                ResumeWrite, Begins, Runs, Resumes, kernelVars
  <2>2. Return(c) \/ \E pc, call : Reach(c, pc, call)
    BY <1>2 DEF BeginSkip, BeginRead, BeginWrite, ResumeDirect, ResumeRefill,
                ResumeWrite, ReturnRead, Continue
  <2> QED  BY <1>1, <2>1, <2>2
<1>3. CASE AwaitRead(t, c)
  <2> DEFINE into == IF Direct(frame[c].call) THEN "direct" ELSE "refill"
             r == ReadRequest(c, into)
  <2>1. at[t] = Running(c) /\ TryStart(t, c, into, r)
    BY <1>3 DEF AwaitRead, Runs
  <2>2. into \in {"direct", "refill", "flush", "write"}  OBVIOUS
  <2> HIDE DEF r, into
  <2> QED  BY <2>1, <2>2, OwnTryStart
<1>4. CASE AwaitWrite(t, c)
  <2>1. at[t] = Running(c)  BY <1>4 DEF AwaitWrite, Runs
  <2>2. PICK awaited, bytes :
            /\ awaited \in {"direct", "refill", "flush", "write"}
            /\ TryStart(t, c, awaited, WriteRequest(c, bytes, "write"))
    BY <1>4 DEF AwaitWrite
  <2> QED  BY <2>1, <2>2, OwnTryStart
<1>5. CASE Throw(t, c)
  BY <1>5 DEF Throw, OwnStep, OwnFrame, kernelVars
<1>6. CASE CloseReader(t, c) \/ CloseReturns(t, c)
  BY <1>6 DEF CloseReader, CloseReturns, Completed, Ends, Runs, OwnStep,
              OwnFrame, kernelVars
<1>7. CASE CloseWriter(t, c)
  <2>1. /\ at[t] = Running(c) /\ at' = [at EXCEPT ![t] = At("closing", c)]
        /\ frame' = [frame EXCEPT ![c].pc = "close"]
        /\ UNCHANGED portVars
    BY <1>7 DEF CloseWriter, Ends, Runs
  <2>2. \A d \in Coroutine \ {c} : request'[d] = request[d]
    BY <1>7 DEF CloseWriter
  <2> QED  BY <2>1, <2>2 DEF OwnStep, OwnFrame
<1> QED  BY <1>2, <1>3, <1>4, <1>5, <1>6, <1>7 DEF RunCoroutine

LEMMA ScheduleOwn ==
    ASSUME TokenInv, ScheduleInv, NEW t \in Thread, NEW c \in Coroutine,
           OwnStep(t, c)
    PROVE  ScheduleInv'
<1>1. Holds(t, c) /\ at[t].pc # "post"
  BY DEF OwnStep, Holds, Running, At
<1>2. at'[t].pc # "post" /\ at'[t].coroutine = c
  BY DEF OwnStep, Running, At
<1>3. ~ (frame[c].awaits = "schedule")
  BY <1>1 DEF ScheduleInv, Scheduled, Stuck
<1>4. \A d \in Coroutine :
        frame'[d].awaits = "schedule" <=> frame[d].awaits = "schedule"
  BY <1>3 DEF OwnStep, OwnFrame
<1>5. \A d \in Scheduled : Stuck(d)'
  BY <1>1, <1>2, StuckAlone DEF OwnStep, OwnFrame, portVars
<1> QED  BY <1>1, <1>2, <1>4, <1>5, ScheduleQuiet DEF OwnStep, portVars

(***************************************************************************)
(* A thread that is in no coroutine leaves them all as they are.           *)
(***************************************************************************)
LEMMA ScheduleApart ==
    ASSUME TokenInv, ScheduleInv, NEW t \in Thread,
           at[t].pc # "post", at'[t].pc # "post",
           at'[t].coroutine = NoCoroutine,
           \A u \in Thread \ {t} : at'[u] = at[u],
           UNCHANGED <<frame, request, portVars>>
    PROVE  ScheduleInv'
<1>1. \A c \in Scheduled : Stuck(c)'
  <2> SUFFICES ASSUME NEW c \in Scheduled  PROVE Stuck(c)'
    OBVIOUS
  <2>1. c \in Coroutine /\ Stuck(c)  BY DEF ScheduleInv, Scheduled
  <2>2. c # NoCoroutine  BY <2>1, AsyncAssumption
  <2>3. \A u \in Thread : ~ Holds(u, c)'  BY <2>1, <2>2 DEF Stuck, Holds
  <2> QED  BY <2>1, <2>3 DEF Stuck, Free, portVars
<1> QED  BY <1>1, ScheduleQuiet DEF portVars

(***************************************************************************)
(* What an I/O thread moves from one place to another is still one.        *)
(***************************************************************************)
Carried ==
    Len(overflow) + Cardinality(HandedOut(posting))
        + Cardinality(PostedIn(port)) + emptyWakeUps

LEMMA ScheduleMoved ==
    ASSUME TokenInv, ScheduleInv, NEW t \in IOThread,
           at'[t].coroutine = NoCoroutine,
           \A u \in Thread \ {t} : at'[u] = at[u],
           UNCHANGED <<frame, request>>,
           \A c \in Coroutine : Has(port', c) <=> Has(port, c),
           overflow' \in Seq(Coroutine), HandsOK(posting'),
           emptyWakeUps' \in Nat,
           at'[t].pc = "post" <=> posting'[t] # <<>>,
           \A u \in IOThread \ {t} : posting'[u] = posting[u],
           Carried' = Carried
    PROVE  ScheduleInv'
<1>1. Scheduled' = Scheduled  BY DEF Scheduled
<1>2. \A c \in Scheduled : Stuck(c)'
  <2> SUFFICES ASSUME NEW c \in Scheduled  PROVE Stuck(c)'
    OBVIOUS
  <2>1. c \in Coroutine /\ Stuck(c)  BY DEF ScheduleInv, Scheduled
  <2>2. c # NoCoroutine  BY <2>1, AsyncAssumption
  <2>3. \A u \in Thread : ~ Holds(u, c)'  BY <2>1, <2>2 DEF Stuck, Holds
  <2> QED  BY <2>1, <2>3 DEF Stuck, Free
<1>3. \A u \in IOThread : at'[u].pc = "post" <=> posting'[u] # <<>>
  BY DEF ScheduleInv, Thread
<1>4. ScheduledKept'
  <2>1. Cardinality(Scheduled) = Carried
    BY Balance DEF ScheduleInv, Carried
  <2>2. Cardinality(Scheduled') = Carried'
    BY <1>1, <2>1
  <2> QED
    BY <2>2
       DEF ScheduledKept, Scheduled, Carried, HandedOut, PostedIn
<1> QED  BY <1>1, <1>2, <1>3, <1>4 DEF ScheduleInv

(***************************************************************************)
(* No more operations are on their way than there are coroutines.          *)
(***************************************************************************)
LEMMA CarriedBound ==
    ASSUME TokenInv, ScheduleInv
    PROVE  /\ Len(overflow) \in Nat /\ Len(overflow) <= Len(TaskOrder)
           /\ Cardinality(HandedOut(posting)) \in Nat
           /\ Cardinality(PostedIn(port)) \in Nat
           /\ emptyWakeUps \in Nat
<1>1. Scheduled \in SUBSET Coroutine  BY DEF Scheduled
<1>2. /\ Cardinality(Scheduled) <= Len(TaskOrder)
      /\ Cardinality(Scheduled) \in Nat /\ Len(TaskOrder) \in Nat
  BY <1>1, CoroutinesFinite, FS_Subset, FS_CardinalityType, AsyncAssumption
<1>3. Cardinality(HandedOut(posting)) \in Nat
  BY FS_CardinalityType DEF ScheduleInv, HandsOK
<1>4. Cardinality(PostedIn(port)) \in Nat
  BY PostedFinite DEF TokenInv, ControlOK
<1>5. Len(overflow) \in Nat /\ emptyWakeUps \in Nat
  BY DEF ScheduleInv
<1>6. Cardinality(Scheduled) = Len(overflow) + Cardinality(HandedOut(posting))
                        + Cardinality(PostedIn(port)) + emptyWakeUps
  BY Balance DEF ScheduleInv
<1> QED  BY <1>2, <1>3, <1>4, <1>5, <1>6

LEMMA HandsMove ==
    ASSUME HandsOK(posting), NEW t \in IOThread, NEW s \in Seq(Coroutine),
           Len(s) <= Len(TaskOrder), posting' = [posting EXCEPT ![t] = s]
    PROVE  /\ HandsOK(posting') /\ posting'[t] = s
           /\ \A u \in IOThread \ {t} : posting'[u] = posting[u]
           /\ Len(posting[t]) \in Nat
           /\ Cardinality(HandedOut(posting'))
                = Cardinality(HandedOut(posting)) - Len(posting[t]) + Len(s)
<1>1. PICK hands, later : hands = posting /\ later = posting'
  OBVIOUS
<1>2. /\ HandsOK(hands) /\ later \in [IOThread -> Seq(Coroutine)]
      /\ later[t] = s /\ \A u \in IOThread \ {t} : later[u] = hands[u]
  BY <1>1 DEF HandsOK
<1>3. /\ HandsOK(later)
      /\ Len(hands[t]) \in Nat
      /\ Cardinality(HandedOut(later))
            = Cardinality(HandedOut(hands)) - Len(hands[t]) + Len(s)
  BY <1>2, HandedMoves
<1> QED  BY <1>1, <1>2, <1>3

LEMMA TakeOverflowKeeps ==
    ASSUME TokenInv, ScheduleInv, NEW t \in IOThread, TakeOverflow(t)
    PROVE  ScheduleInv'
<1> DEFINE pc == IF overflow = <<>> THEN "get" ELSE "post"
<1>1. /\ posting' = [posting EXCEPT ![t] = overflow] /\ overflow' = <<>>
      /\ at' = [at EXCEPT ![t] = At(pc, NoCoroutine)]
      /\ UNCHANGED <<frame, request, port, emptyWakeUps>>
  BY DEF TakeOverflow, Idle, kernelVars
<1>2. t \in Thread /\ pc \in Stages /\ pc \notin InCoroutine
  BY DEF Thread, Stages, InCoroutine
<1> HIDE DEF pc
<1>3. /\ at'[t].pc = pc /\ at'[t].coroutine = NoCoroutine
      /\ \A u \in Thread \ {t} : at'[u] = at[u]
  BY <1>1, <1>2, ThreadParks DEF TokenInv, ControlOK
<1>4. posting[t] = <<>>
  BY DEF TakeOverflow, ScheduleInv
<1>5. /\ HandsOK(posting') /\ posting'[t] = overflow
      /\ \A u \in IOThread \ {t} : posting'[u] = posting[u]
      /\ Cardinality(HandedOut(posting'))
            = Cardinality(HandedOut(posting)) - Len(posting[t]) + Len(overflow)
  <2>1. PICK s \in Seq(Coroutine) : s = overflow  BY DEF ScheduleInv
  <2>2. Len(s) <= Len(TaskOrder) /\ posting' = [posting EXCEPT ![t] = s]
    BY <1>1, <2>1, CarriedBound
  <2>3. HandsOK(posting)  BY DEF ScheduleInv
  <2> QED  BY <2>1, <2>2, <2>3, HandsMove
<1>6. Len(posting[t]) = 0 /\ Len(overflow') = 0  BY <1>1, <1>4
<1>7. Carried' = Carried
  BY <1>1, <1>5, <1>6, CarriedBound DEF Carried
<1>8. at'[t].pc = "post" <=> posting'[t] # <<>>
  BY <1>3, <1>5 DEF pc
<1>9. overflow' \in Seq(Coroutine) /\ emptyWakeUps' \in Nat
  BY <1>1 DEF ScheduleInv
<1> QED  BY <1>1, <1>3, <1>5, <1>7, <1>8, <1>9, ScheduleMoved

LEMMA PostAgainKeeps ==
    ASSUME TokenInv, ScheduleInv, NEW t \in IOThread, PostAgain(t)
    PROVE  ScheduleInv'
<1> DEFINE pc == IF posting'[t] = <<>> THEN "get" ELSE "post"
           packet == Posted(NoCoroutine)
<1>1. /\ posting' = [posting EXCEPT ![t] = Tail(posting[t])]
      /\ port' = Append(port, packet)
      /\ at' = [at EXCEPT ![t] = At(pc, NoCoroutine)]
      /\ UNCHANGED <<frame, request, overflow, emptyWakeUps>>
  BY DEF PostAgain, Idle, kernelVars, Continuation
<1>2. t \in Thread /\ pc \in Stages /\ pc \notin InCoroutine
  BY DEF Thread, Stages, InCoroutine
<1> HIDE DEF pc
<1>3. /\ at'[t].pc = pc /\ at'[t].coroutine = NoCoroutine
      /\ \A u \in Thread \ {t} : at'[u] = at[u]
  BY <1>1, <1>2, ThreadParks DEF TokenInv, ControlOK
<1>4. posting[t] \in Seq(Coroutine) /\ posting[t] # <<>>
      /\ Len(posting[t]) <= Len(TaskOrder)
  BY DEF PostAgain, ScheduleInv, HandsOK
<1>5. PICK s \in Seq(Coroutine) :
        s = Tail(posting[t]) /\ Len(s) = Len(posting[t]) - 1
        /\ Len(posting[t]) \in Nat
  <2>1. PICK q \in Seq(Coroutine) : q = posting[t] /\ q # <<>>  BY <1>4
  <2>2. Tail(q) \in Seq(Coroutine) /\ Len(Tail(q)) = Len(q) - 1
    BY <2>1, HeadTailProperties
  <2>3. Len(q) \in Nat  BY <2>1
  <2> QED  BY <2>1, <2>2, <2>3
<1>6. Len(s) <= Len(TaskOrder) /\ Len(TaskOrder) \in Nat
  BY <1>4, <1>5, AsyncAssumption
<1>7. /\ HandsOK(posting') /\ posting'[t] = s
      /\ \A u \in IOThread \ {t} : posting'[u] = posting[u]
      /\ Cardinality(HandedOut(posting'))
            = Cardinality(HandedOut(posting)) - Len(posting[t]) + Len(s)
  <2>1. HandsOK(posting) /\ posting' = [posting EXCEPT ![t] = s]
    BY <1>1, <1>5 DEF ScheduleInv
  <2> QED  BY <1>6, <2>1, HandsMove
<1>8. packet.kind = "posted"  BY DEF Posted
<1>9. Cardinality(PostedIn(port')) = Cardinality(PostedIn(port)) + 1
  BY <1>1, <1>8, PostedAppend DEF TokenInv, ControlOK
<1>10. EmptyPacketMoves  BY <1>1 DEF EmptyPacketMoves
<1>11. \A c \in Coroutine : Has(port', c) <=> Has(port, c)
  BY <1>10, EmptyPackets DEF TokenInv, ControlOK, Token
<1>12. Carried' = Carried
  <2>1. /\ Len(posting[t]) \in Nat /\ Len(s) = Len(posting[t]) - 1
        /\ Len(overflow') = Len(overflow) /\ emptyWakeUps' = emptyWakeUps
    BY <1>1, <1>5
  <2>2. PICK o \in Nat, h \in Nat, p \in Nat, e \in Nat, k \in Nat :
            /\ o = Len(overflow) /\ h = Cardinality(HandedOut(posting))
            /\ p = Cardinality(PostedIn(port)) /\ e = emptyWakeUps
            /\ k = Len(posting[t])
    BY <2>1, CarriedBound
  <2>3. Cardinality(HandedOut(posting')) = h - 1
    <3>1. Len(s) = k - 1 /\ k \in Nat /\ h \in Nat  BY <2>1, <2>2
    <3> QED  BY <1>7, <2>2, <3>1
  <2>4. Carried = o + h + p + e  BY <2>2 DEF Carried
  <2>5. Carried' = o + (h - 1) + (p + 1) + e
    BY <1>9, <2>1, <2>2, <2>3 DEF Carried
  <2> QED  BY <2>2, <2>4, <2>5
<1>13. at'[t].pc = "post" <=> posting'[t] # <<>>
  BY <1>3 DEF pc
<1>14. overflow' \in Seq(Coroutine) /\ emptyWakeUps' \in Nat
  BY <1>1 DEF ScheduleInv
<1> QED  BY <1>1, <1>3, <1>7, <1>11, <1>12, <1>13, <1>14, ScheduleMoved

LEMMA RefusedAgainKeeps ==
    ASSUME TokenInv, ScheduleInv, NEW t \in IOThread, RefusedAgain(t)
    PROVE  ScheduleInv'
<1>1. /\ posting' = [posting EXCEPT ![t] = <<>>]
      /\ overflow' = posting[t] \o overflow
      /\ at' = [at EXCEPT ![t] = At("get", NoCoroutine)]
      /\ UNCHANGED <<frame, request, port, emptyWakeUps>>
  BY DEF RefusedAgain, Idle, kernelVars, PutBack
<1>2. t \in Thread /\ "get" \in Stages /\ "get" \notin InCoroutine
  BY DEF Thread, Stages, InCoroutine
<1>3. /\ at'[t].pc = "get" /\ at'[t].coroutine = NoCoroutine
      /\ \A u \in Thread \ {t} : at'[u] = at[u]
  BY <1>1, <1>2, ThreadParks DEF TokenInv, ControlOK
<1>4. /\ posting[t] \in Seq(Coroutine) /\ overflow \in Seq(Coroutine)
      /\ <<>> \in Seq(Coroutine) /\ Len(<<>>) = 0
  BY DEF ScheduleInv, HandsOK
<1>5. /\ overflow' \in Seq(Coroutine)
      /\ Len(overflow') = Len(posting[t]) + Len(overflow)
  BY <1>1, <1>4, ConcatProperties
<1>6. Len(<<>>) <= Len(TaskOrder)
  BY <1>4, AsyncAssumption
<1>7. /\ HandsOK(posting') /\ posting'[t] = <<>>
      /\ \A u \in IOThread \ {t} : posting'[u] = posting[u]
      /\ Cardinality(HandedOut(posting'))
            = Cardinality(HandedOut(posting)) - Len(posting[t]) + Len(<<>>)
      /\ Len(posting[t]) \in Nat
  <2>1. HandsOK(posting)  BY DEF ScheduleInv
  <2> QED  BY <1>1, <1>4, <1>6, <2>1, HandsMove
<1>8. Carried' = Carried
  BY <1>1, <1>4, <1>5, <1>7, CarriedBound DEF Carried
<1>9. at'[t].pc = "post" <=> posting'[t] # <<>>
  BY <1>3, <1>7
<1> QED
  BY <1>1, <1>3, <1>5, <1>7, <1>8, <1>9, ScheduleMoved DEF ScheduleInv

LEMMA OnPostedKeeps ==
    ASSUME TokenInv, ScheduleInv, NEW t \in IOThread, OnPosted(t)
    PROVE  ScheduleInv'
<1>1. port # <<>> /\ Head(port).kind = "posted" /\ port' = Tail(port)
  BY DEF OnPosted
<1>2. Addressed(Head(port))
  BY <1>1, PortTail DEF TokenInv, ControlOK
<1>3. Head(port).coroutine = NoCoroutine
  BY <1>1, <1>2 DEF Addressed
<1>4. /\ at' = [at EXCEPT ![t] = At("loop", NoCoroutine)]
      /\ emptyWakeUps' = emptyWakeUps + 1
      /\ UNCHANGED <<frame, request, overflow, posting>>
  BY <1>3 DEF OnPosted, Idle, kernelVars
<1>5. t \in Thread /\ "loop" \in Stages /\ "loop" \notin InCoroutine
  BY DEF Thread, Stages, InCoroutine
<1>6. /\ at'[t].pc = "loop" /\ at'[t].coroutine = NoCoroutine
      /\ \A u \in Thread \ {t} : at'[u] = at[u]
  BY <1>4, <1>5, ThreadParks DEF TokenInv, ControlOK
<1>7. Cardinality(PostedIn(port)) = Cardinality(PostedIn(port')) + 1
      /\ Cardinality(PostedIn(port')) \in Nat
  <2>1. IsPort(port')  BY <1>1, PortTail DEF TokenInv, ControlOK
  <2> QED  BY <1>1, <2>1, PostedTail, PostedFinite DEF TokenInv, ControlOK
<1>8. EmptyPacketMoves  BY <1>1 DEF EmptyPacketMoves
<1>9. \A c \in Coroutine : Has(port', c) <=> Has(port, c)
  BY <1>8, EmptyPackets DEF TokenInv, ControlOK, Token
<1>10. Carried' = Carried
  BY <1>4, <1>7, CarriedBound DEF Carried
<1>11. at'[t].pc = "post" <=> posting'[t] # <<>>
  BY <1>4, <1>6 DEF OnPosted, ScheduleInv
<1>12. /\ overflow' \in Seq(Coroutine) /\ emptyWakeUps' \in Nat
       /\ HandsOK(posting') /\ posting' = posting
  BY <1>4 DEF ScheduleInv
<1> QED  BY <1>4, <1>6, <1>9, <1>10, <1>11, <1>12, ScheduleMoved

LEMMA OnCompletedKeeps ==
    ASSUME TokenInv, ScheduleInv, NEW t \in IOThread, OnOperationCompleted(t)
    PROVE  ScheduleInv'
<1> DEFINE c == Head(port).coroutine
<1>1. /\ port # <<>> /\ Head(port).kind = "completion" /\ port' = Tail(port)
      /\ at[t].pc = "get" /\ at' = [at EXCEPT ![t] = At("run", c)]
      /\ UNCHANGED <<frame, request, overflow, posting, emptyWakeUps>>
  BY DEF OnOperationCompleted, Running, kernelVars
<1>2. Addressed(Head(port))
  BY <1>1, PortTail DEF TokenInv, ControlOK
<1>3. c \in Coroutine /\ IsCompletion(Head(port), c)
  BY <1>1, <1>2 DEF Addressed, IsCompletion
<1> HIDE DEF c
<1>4. Has(port, c) /\ t \in Thread
  BY <1>1, <1>3, PortTail DEF TokenInv, ControlOK, Thread
<1>5. "run" \in Stages /\ c \in Coroutine \union {NoCoroutine}
  BY <1>3 DEF Stages
<1>6. /\ at'[t].pc = "run" /\ at'[t].coroutine = c
      /\ \A u \in Thread \ {t} : at'[u] = at[u]
  BY <1>1, <1>3, <1>4, <1>5, ThreadMoves DEF TokenInv, ControlOK
<1>7. \A d \in Scheduled : Stuck(d)'
  <2> SUFFICES ASSUME NEW d \in Scheduled  PROVE Stuck(d)'
    OBVIOUS
  <2>1. d \in Coroutine /\ Stuck(d)  BY DEF ScheduleInv, Scheduled
  <2>2. d # c  BY <1>4, <2>1 DEF Stuck, Free
  <2>3. \A u \in Thread : ~ Holds(u, d)'
    BY <1>6, <2>1, <2>2 DEF Stuck, Holds
  <2>4. ~ Has(port', d)
    BY <1>1, <2>1, PortTail DEF Stuck, Free, TokenInv, ControlOK, Token
  <2> QED  BY <1>1, <2>1, <2>3, <2>4 DEF Stuck, Free
<1>8. Cardinality(PostedIn(port')) = Cardinality(PostedIn(port))
  <2>1. IsPort(port')  BY <1>1, PortTail DEF TokenInv, ControlOK
  <2> QED  BY <1>1, <2>1, PostedTail, PostedFinite DEF TokenInv, ControlOK
<1> QED  BY <1>1, <1>4, <1>6, <1>7, <1>8, ScheduleQuiet

(***************************************************************************)
(* schedule(): the coroutine is suspended, and its operation is in the     *)
(* port or in the overflow list.                                           *)
(***************************************************************************)
LEMMA ScheduleKeeps ==
    ASSUME TokenInv, ScheduleInv, NEW t \in Thread, NEW c \in Coroutine,
           Schedule(t, c)
    PROVE  ScheduleInv'
<1>1. /\ at[t] = Running(c) /\ at' = [at EXCEPT ![t] = Resumer(t)]
      /\ frame' = [frame EXCEPT ![c].awaits = "schedule"]
      /\ frame[c].pc = "next"
      /\ UNCHANGED <<request, posting, emptyWakeUps>>
  BY DEF Schedule, Begins, Runs, kernelVars
<1>2. /\ at'[t].pc \in {"start", "loop"} /\ at'[t].coroutine = NoCoroutine
      /\ \A u \in Thread \ {t} : at'[u] = at[u]
  BY <1>1, ThreadResumes DEF TokenInv, ControlOK
<1>3. Holds(t, c) /\ at[t].pc = "run"  BY <1>1 DEF Holds, Running, At
<1>4. /\ \A d \in Coroutine \ {c} : frame'[d] = frame[d]
      /\ frame'[c].pc = "next" /\ frame'[c].awaits = "schedule"
  BY <1>1 DEF TokenInv, ControlOK, FramesOK
<1>5. c \notin Scheduled /\ Scheduled' = Scheduled \union {c}
  BY <1>3, <1>4 DEF ScheduleInv, Scheduled, Stuck
<1>6. EmptyPacketMoves
  BY DEF Schedule, EmptyPacketMoves, Continuation
<1>7. \A d \in Coroutine : Has(port', d) <=> Has(port, d)
  BY <1>6, EmptyPackets DEF TokenInv, ControlOK, Token
<1>8. Stuck(c)'
  <2>1. \A u \in Thread \ {t} : ~ Holds(u, c)
        /\ ~ Pending(c) /\ ~ Has(port, c)
    BY <1>3, Holder
  <2>2. request[c] = NoRequest
    <3>1. at[t] = At("run", c)  BY <1>1 DEF Running
    <3>2. request[c].kind # "close"
      BY <3>1 DEF TokenInv, Place
    <3> QED  BY <2>1, <3>2, <1>3, Holder DEF Pending
  <2>3. c # NoCoroutine  BY AsyncAssumption
  <2>4. \A u \in Thread : ~ Holds(u, c)'
    BY <1>2, <2>1, <2>3 DEF Holds
  <2>5. ~ Has(port', c)  BY <1>3, <1>7, Holder
  <2> QED  BY <1>1, <1>4, <2>2, <2>4, <2>5 DEF Stuck, Free
<1>9. \A d \in Scheduled : Stuck(d)'
  BY <1>1, <1>2, <1>3, <1>4, <1>7, StuckAlone
<1>10. \A u \in IOThread : at'[u].pc = "post" <=> posting'[u] # <<>>
  BY <1>1, <1>2, <1>3 DEF ScheduleInv, Thread
<1>11. Cardinality(Scheduled') = Cardinality(Scheduled) + 1
  <2>1. Scheduled \in SUBSET Coroutine  BY DEF Scheduled
  <2>2. IsFiniteSet(Scheduled)  BY <2>1, CoroutinesFinite, FS_Subset
  <2> QED  BY <1>5, <2>2, FS_AddElement
<1>12. overflow' \in Seq(Coroutine) /\ Carried' = Carried + 1
  <2>1. CASE port' = Append(port, Posted(NoCoroutine)) /\ overflow' = overflow
    <3>1. Posted(NoCoroutine).kind = "posted"  BY DEF Posted
    <3>2. Cardinality(PostedIn(port')) = Cardinality(PostedIn(port)) + 1
      BY <2>1, <3>1, PostedAppend DEF TokenInv, ControlOK
    <3> QED  BY <1>1, <2>1, <3>2, CarriedBound DEF Carried, ScheduleInv
  <2>2. CASE overflow' = <<c>> \o overflow /\ port' = port
    <3>1. <<c>> \in Seq(Coroutine) /\ Len(<<c>>) = 1  OBVIOUS
    <3>2. overflow \in Seq(Coroutine)  BY DEF ScheduleInv
    <3>3. overflow' \in Seq(Coroutine) /\ Len(overflow') = 1 + Len(overflow)
      BY <2>2, <3>1, <3>2, ConcatProperties
    <3> QED  BY <1>1, <2>2, <3>3, CarriedBound DEF Carried
  <2> QED  BY <2>1, <2>2 DEF Schedule, Continuation
<1>13. ScheduledKept'
  <2>1. Cardinality(Scheduled) = Carried
    BY Balance DEF ScheduleInv, Carried
  <2>2. Cardinality(Scheduled') = Carried'
    BY <1>11, <1>12, <2>1
  <2> QED
    BY <2>2
       DEF ScheduledKept, Scheduled, Carried, HandedOut, PostedIn
<1> QED
  BY <1>1, <1>5, <1>8, <1>9, <1>10, <1>12, <1>13 DEF ScheduleInv

(***************************************************************************)
(* The threads when they are in no coroutine, and the kernel.              *)
(***************************************************************************)
LEMMA ApartKeeps ==
    ASSUME TokenInv, ScheduleInv, NEW t \in Thread,
           \/ ReturnPending(t) \/ NotifyAwaitableCompleted(t) \/ SetEvent(t)
           \/ t = Main /\ (RegisterAwaiter \/ TryAwait \/ WaitReturns)
    PROVE  ScheduleInv'
<1>1. at[t].pc # "post" /\ UNCHANGED <<frame, request, portVars>>
  BY DEF ReturnPending, NotifyAwaitableCompleted, SetEvent, RegisterAwaiter,
         TryAwait, WaitReturns, kernelVars
<1>2. CASE at' = [at EXCEPT ![t] = Resumer(t)]
  <2>1. /\ at'[t].pc \in {"start", "loop"} /\ at'[t].coroutine = NoCoroutine
        /\ \A u \in Thread \ {t} : at'[u] = at[u]
    BY <1>2, ThreadResumes DEF TokenInv, ControlOK
  <2> QED  BY <1>1, <2>1, ScheduleApart
<1>3. ASSUME NEW pc \in {"await", "wait", "resume", "loop", "returned"},
             at' = [at EXCEPT ![t] = Idle(pc)]
      PROVE  ScheduleInv'
  <2>1. pc \in Stages /\ pc \notin InCoroutine /\ pc # "post"
    BY DEF Stages, InCoroutine
  <2>2. /\ at'[t].pc = pc /\ at'[t].coroutine = NoCoroutine
        /\ \A u \in Thread \ {t} : at'[u] = at[u]
    BY <1>3, <2>1, ThreadParks DEF TokenInv, ControlOK, Idle
  <2> QED  BY <1>1, <2>1, <2>2, ScheduleApart
<1>4. \/ at' = [at EXCEPT ![t] = Resumer(t)]
      \/ \E pc \in {"await", "wait", "resume", "loop", "returned"} :
            at' = [at EXCEPT ![t] = Idle(pc)]
  BY DEF ReturnPending, NotifyAwaitableCompleted, SetEvent, RegisterAwaiter,
         TryAwait, WaitReturns
<1> QED  BY <1>2, <1>3, <1>4

LEMMA StartTaskQuiet ==
    ASSUME TokenInv, ScheduleInv, StartTask
    PROVE  ScheduleInv'
<1> DEFINE c == TaskOrder[started + 1]
<1>1. /\ at[Main].pc = "start" /\ at' = [at EXCEPT ![Main] = At("run", c)]
      /\ frame' = [frame EXCEPT ![c].pc = "next"]
      /\ UNCHANGED <<request, portVars>>
  BY DEF StartTask, Running, kernelVars
<1>2. started + 1 \in (started + 1)..Len(TaskOrder)
      /\ started + 1 \in 1..Len(TaskOrder)
  BY AsyncAssumption DEF StartTask, TokenInv, ControlOK
<1>3. c \in Coroutine /\ frame[c].pc = "new"
  BY <1>2, AsyncAssumption DEF TokenInv, NotStarted
<1> HIDE DEF c
<1>4. Main \in Thread /\ "run" \in Stages /\ c \in Coroutine \union {NoCoroutine}
  BY <1>3 DEF Thread, Stages
<1>5. /\ at'[Main].pc = "run" /\ at'[Main].coroutine = c
      /\ \A u \in Thread \ {Main} : at'[u] = at[u]
  BY <1>1, <1>3, <1>4, ThreadMoves DEF TokenInv, ControlOK
<1>6. \A d \in Coroutine : frame'[d].awaits = frame[d].awaits
  BY <1>1, <1>3 DEF TokenInv, ControlOK, FramesOK
<1>7. \A d \in Coroutine \ {c} : frame'[d] = frame[d]
  BY <1>1, <1>3 DEF TokenInv, ControlOK, FramesOK
<1>8. \A d \in Scheduled : Stuck(d)'
  <2> SUFFICES ASSUME NEW d \in Scheduled  PROVE Stuck(d)'
    OBVIOUS
  <2>1. d \in Coroutine /\ Stuck(d)  BY DEF ScheduleInv, Scheduled
  <2>2. d # c  BY <1>3, <2>1 DEF Stuck
  <2>3. \A u \in Thread : ~ Holds(u, d)'
    BY <1>5, <2>1, <2>2 DEF Stuck, Holds
  <2> QED  BY <1>1, <1>7, <2>1, <2>2, <2>3 DEF Stuck, Free, portVars
<1> QED
  BY <1>1, <1>4, <1>5, <1>6, <1>8, ScheduleQuiet DEF portVars

LEMMA CompleteQuiet ==
    ASSUME TokenInv, ScheduleInv, NEW c \in Coroutine, Complete(c)
    PROVE  ScheduleInv'
<1>1. UNCHANGED <<frame, at, overflow, posting, emptyWakeUps>>
  BY DEF Complete
<1>2. IsCompleted(c)  BY CompleteShape
<1>3. \A d \in Coroutine \ {c} : request'[d] = request[d]
  BY <1>2 DEF IsCompleted, TokenInv, ControlOK
<1>4. /\ \A d \in Coroutine \ {c} : Has(port', d) <=> Has(port, d)
      /\ Cardinality(PostedIn(port')) = Cardinality(PostedIn(port))
  <2>1. CASE port' = port
    BY <2>1
  <2>2. ASSUME NEW packet, packet.kind = "completion", packet.coroutine = c,
               port' = Append(port, packet)
        PROVE  <1>4!1 /\ <1>4!2
    <3>1. Addressed(packet)
          /\ \A d \in Coroutine \ {c} : ~ IsCompletion(packet, d)
      BY <2>2 DEF Addressed, IsCompletion
    <3>2. Cardinality(PostedIn(port')) = Cardinality(PostedIn(port)) + 0
      BY <2>2, PostedAppend DEF TokenInv, ControlOK
    <3> QED
      BY <2>2, <3>1, <3>2, PortAppend, PostedFinite DEF TokenInv, ControlOK
  <2> QED  BY <1>2, <2>1, <2>2 DEF IsCompleted
<1>5. \A d \in Scheduled : Stuck(d)'
  <2> SUFFICES ASSUME NEW d \in Scheduled  PROVE Stuck(d)'
    OBVIOUS
  <2>1. d \in Coroutine /\ Stuck(d)  BY DEF ScheduleInv, Scheduled
  <2>2. d # c  BY <1>2, <2>1 DEF Stuck, Free, IsCompleted
  <2> QED  BY <1>1, <1>3, <1>4, <2>1, <2>2 DEF Stuck, Free, Holds
<1>6. Main \in Thread  BY DEF Thread
<1> QED  BY <1>1, <1>4, <1>5, <1>6, ScheduleQuiet

LEMMA ScheduleStep ==
    ASSUME TokenInv, ScheduleInv, [Next]_vars
    PROVE  ScheduleInv'
<1>1. ASSUME NEW t \in Thread, AnyThread(t)
      PROVE  ScheduleInv'
  <2>1. ASSUME NEW c \in Coroutine, RunCoroutine(t, c)
        PROVE  ScheduleInv'
    BY <2>1, OwnSteps, ScheduleOwn, ScheduleKeeps
  <2> QED  BY <1>1, <2>1, ApartKeeps DEF AnyThread
<1>2. ASSUME NEW t \in IOThread, EventLoop(t)
      PROVE  ScheduleInv'
  BY <1>2, TakeOverflowKeeps, PostAgainKeeps, RefusedAgainKeeps,
     OnPostedKeeps, OnCompletedKeeps DEF EventLoop
<1>3. CASE MainThread
  <2>1. Main \in Thread  BY DEF Thread
  <2> QED  BY <1>3, <2>1, ApartKeeps, StartTaskQuiet DEF MainThread
<1>4. CASE UNCHANGED vars
  <2>1. /\ UNCHANGED <<frame, at, request, portVars>> /\ Main \in Thread
    BY <1>4 DEF vars, kernelVars, Thread
  <2>2. \A c \in Scheduled : Stuck(c)'
    BY <2>1 DEF ScheduleInv, Stuck, Free, Holds, portVars
  <2> QED  BY <2>1, <2>2, ScheduleQuiet DEF portVars
<1> QED  BY <1>1, <1>2, <1>3, <1>4, CompleteQuiet DEF Next

LEMMA ScheduleInit ==
    ASSUME Init
    PROVE  ScheduleInv
<1>1. /\ overflow = <<>> /\ port = <<>> /\ emptyWakeUps = 0
      /\ posting = [t \in IOThread |-> <<>>]
      /\ \A t \in IOThread : at[t].pc # "post"
      /\ Scheduled = {}
  BY DEF Init, Resumer, Idle, At, Thread, Scheduled
<1>2. HandedOut(posting) = {} /\ PostedIn(port) = {}
  BY <1>1 DEF HandedOut, PostedIn
<1>3. HandsOK(posting)
  <2>1. Len(<<>>) = 0 /\ Len(TaskOrder) \in Nat  BY AsyncAssumption
  <2>2. \A t \in IOThread : posting[t] = <<>>  BY <1>1
  <2>3. IsFiniteSet(HandedOut(posting))  BY <1>2, FS_EmptySet
  <2> QED  BY <1>1, <2>1, <2>2, <2>3 DEF HandsOK
<1>4. ScheduledKept
  <2>1. Cardinality({}) = 0 /\ Len(<<>>) = 0  BY FS_EmptySet
  <2>2. /\ Cardinality(Scheduled) = 0 /\ Cardinality(PostedIn(port)) = 0
        /\ Cardinality(HandedOut(posting)) = 0
        /\ Len(overflow) = 0 /\ emptyWakeUps = 0
    BY <1>1, <1>2, <2>1
  <2> QED  BY <2>2, Balance
<1> QED  BY <1>1, <1>3, <1>4 DEF ScheduleInv

(***************************************************************************)
(* No scheduled operation is lost between the threads that share the       *)
(* overflow list, whatever the port refuses and when.                      *)
(***************************************************************************)
THEOREM NoScheduledLost == Spec => []ScheduledKept
<1>1. Init => TokenInv /\ ScheduleInv
  BY TokenInit, ScheduleInit
<1>2. TokenInv /\ ScheduleInv /\ [Next]_vars => (TokenInv /\ ScheduleInv)'
  BY TokenStep, ScheduleStep
<1>3. TokenInv /\ ScheduleInv => ScheduledKept
  BY DEF ScheduleInv
<1> QED  BY <1>1, <1>2, <1>3, PTL DEF Spec

=============================================================================
