-------------------------- MODULE SubmissionProofs --------------------------
(***************************************************************************)
(* Submission for any queues, threads and payloads: the types, and that    *)
(* payloads are released only after the GPU is done; then what rests on    *)
(* the order of a flush, what holds the GPU back at a wait and behind it,  *)
(* and what keeps the two threads from sleeping.                           *)
(***************************************************************************)
EXTENDS Submission, SequenceTheorems, TLAPS

(***************************************************************************)
(* Where the payload being submitted is, and what each thread's program    *)
(* counter says about it.  TypeOK alone is not inductive: ExecutePayload   *)
(* reads PayloadToSubmit, which must not be null then.                     *)
(***************************************************************************)
SubmitInv ==
    /\ \A q \in Queue : \A i \in 1..Len(pendingSubmission[q]) :
        work[pendingSubmission[q][i]].queue = q
    /\ spc \in {"barrier", "await"} =>
        \E p \in Payload :
            /\ toSubmit[Current] = Recorded(p)
            /\ work[p].queue = Current
            /\ spc = "barrier" =>
                /\ work[p].barrier
                /\ toSubmit[GraphicsQueue[Current]] = Barrier(p)
    /\ \A q \in Queue : toSubmit[q] # NoPayload =>
        \/ spc \in {"barrier", "await"} /\ q = Current
        \/ spc = "barrier" /\ q = GraphicsQueue[Current]
    /\ ipc = "await" => pendingInterrupt[Visited] # <<>>

TypeInv == TypeOK /\ SubmitInv

\* The workload never changes: its variables are one tuple in every step.
USE DEF workload

LEMMA QueueFacts ==
    /\ 1 \in 1..Len(QueueOrder)
    /\ \A i \in 1..Len(QueueOrder) : QueueOrder[i] \in Queue
    /\ \A q \in Queue : GraphicsQueue[q] \in Queue
BY QueueAssumption

LEMMA WorkFacts ==
    ASSUME EngineTypeOK, NEW p \in Payload
    PROVE  /\ work[p] \in Contents
           /\ WellFormed(work[p])
BY WorkloadAssumption DEF EngineTypeOK, Loaded, Loaded

LEMMA ProgramFacts ==
    ASSUME EngineTypeOK
    PROVE  /\ program \in [EngineThread -> Seq(Payload)]
           /\ flushFlags \subseteq SUBSET {"submission", "completion"}
           /\ \A t, u \in EngineThread :
                \A i \in 1..Len(program[t]), j \in 1..Len(program[u]) :
                    program[t][i] = program[u][j] => t = u /\ i = j
BY WorkloadAssumption DEF EngineTypeOK, Loaded, Loaded

LEMMA TypeInit == Init => TypeInv
<1> SUFFICES ASSUME Init PROVE TypeInv
  OBVIOUS
<1>1. EngineTypeOK
  <2>1. \A t \in EngineThread :
            [last |-> NoPayload, flags |-> {}]
            \in [last : AnyPayload \union {NoPayload},
                flags : SUBSET {"submission", "completion"}]
    OBVIOUS
  <2> QED
    BY <2>1 DEF Init, EngineTypeOK
<1>2. PendingTypeOK
  <2>1. <<>> \in Seq(Payload) /\ <<>> \in Seq(AnyPayload)
    OBVIOUS
  <2> QED
    BY <2>1 DEF Init, PendingTypeOK
<1>3. SubmitTypeOK
  <2>1. <<>> \in Seq(AnyPayload)
    OBVIOUS
  <2> QED
    BY <2>1, QueueFacts DEF Init, SubmitTypeOK
<1>4. ResultTypeOK
  BY DEF Init, ResultTypeOK
<1>5. AwaitTypeOK
  BY DEF Init, AwaitTypeOK
<1>6. InterruptTypeOK
  BY QueueFacts DEF Init, InterruptTypeOK
<1>7. GpuTypeOK
  BY DEF Init, GpuTypeOK
<1>8. SubmitInv
  BY DEF Init, SubmitInv
<1> QED
  BY <1>1, <1>2, <1>3, <1>4, <1>5, <1>6, <1>7, <1>8 DEF TypeInv, TypeOK

LEMMA CurrentFacts ==
    ASSUME SubmitTypeOK
    PROVE  Current \in Queue /\ GraphicsQueue[Current] \in Queue
BY QueueFacts DEF SubmitTypeOK, Current

LEMMA VisitedFacts ==
    ASSUME InterruptTypeOK
    PROVE  Visited \in Queue
BY QueueFacts DEF InterruptTypeOK, Visited

LEMMA PayloadFacts ==
    ASSUME EngineTypeOK
    PROVE  /\ \A p \in Payload :
                /\ Recorded(p) \in AnyPayload
                /\ Barrier(p) \in AnyPayload
           /\ \A x \in AnyPayload : x[1] \in Payload /\ QueueOf(x) \in Queue
BY WorkFacts, QueueFacts DEF Recorded, Barrier, AnyPayload, QueueOf, Contents

(***************************************************************************)
(* PayloadToSubmit is never null when ExecutePayload reads it.             *)
(***************************************************************************)
LEMMA ToSubmitFacts ==
    ASSUME TypeInv
    PROVE  /\ spc \in {"barrier", "await"} => toSubmit[Current] \in AnyPayload
           /\ spc = "barrier" =>
                toSubmit[GraphicsQueue[Current]] \in AnyPayload
BY PayloadFacts DEF TypeInv, TypeOK, SubmitInv

LEMMA FrontFacts ==
    ASSUME TypeInv, pendingSubmission[Current] # <<>>
    PROVE  /\ Front \in Payload
           /\ work[Front].queue = Current
           /\ Tail(pendingSubmission[Current]) \in Seq(Payload)
           /\ \A i \in 1..Len(Tail(pendingSubmission[Current])) :
                Tail(pendingSubmission[Current])[i]
                = pendingSubmission[Current][i + 1]
           /\ 1 \in 1..Len(pendingSubmission[Current])
           /\ Front = pendingSubmission[Current][1]
BY CurrentFacts DEF TypeInv, TypeOK, SubmitInv, PendingTypeOK, Front

LEMMA AwaitedFacts ==
    ASSUME TypeInv, pendingInterrupt[Visited] # <<>>
    PROVE  /\ AwaitedPayload \in AnyPayload
           /\ AwaitedPayload[1] \in Payload
           /\ Tail(pendingInterrupt[Visited]) \in Seq(AnyPayload)
BY VisitedFacts DEF TypeInv, TypeOK, PendingTypeOK, AwaitedPayload, AnyPayload

LEMMA LeaveQueueTypes ==
    ASSUME SubmitTypeOK, LeaveQueue
    PROVE  spc' \in {"visit", "handdown"} /\ squeue' \in 1..Len(QueueOrder)
BY QueueFacts DEF SubmitTypeOK, LeaveQueue, MoreQueues

LEMMA LeaveVisitedTypes ==
    ASSUME InterruptTypeOK, NEW a \in BOOLEAN, NEW b \in BOOLEAN,
           LeaveVisited(a, b)
    PROVE  /\ ipc' \in {"visit", "sleep"}
           /\ iqueue' \in 1..Len(QueueOrder)
           /\ iprocessed' \in BOOLEAN
           /\ timeoutArmed' \in BOOLEAN
<1>1. CASE MoreQueues(iqueue)
  BY <1>1 DEF InterruptTypeOK, LeaveVisited, MoreQueues
<1>2. CASE ~ MoreQueues(iqueue)
  BY <1>2, QueueFacts DEF InterruptTypeOK, LeaveVisited
<1> QED
  BY <1>1, <1>2

LEMMA LeaveIncompleteTypes ==
    ASSUME InterruptTypeOK, LeaveIncomplete
    PROVE  /\ ipc' \in {"visit", "sleep"}
           /\ iqueue' \in 1..Len(QueueOrder)
           /\ iprocessed' \in BOOLEAN
           /\ timeoutArmed' \in BOOLEAN
<1>1. PICK timed \in BOOLEAN : LeaveVisited(iprocessed, timeoutArmed \/ timed)
  BY DEF LeaveIncomplete
<1>2. iprocessed \in BOOLEAN /\ (timeoutArmed \/ timed) \in BOOLEAN
  BY DEF InterruptTypeOK
<1> QED
  BY <1>1, <1>2, LeaveVisitedTypes

LEMMA EnqueueFenceWaitTypes ==
    ASSUME AwaitTypeOK, NEW q \in Queue, NEW f \in Queue, NEW v \in Nat,
           EnqueueFenceWait(q, f, v)
    PROVE  /\ nextAwait' \in [Queue -> [Queue -> Nat]]
           /\ fencesToAwait' \in [Queue -> Seq(Queue)]
<1>1. \A a, b \in Nat : MaxOf(a, b) \in Nat
  BY DEF MaxOf
<1>2. \A w \in Seq(Queue) : AddUnique(w, f) \in Seq(Queue)
  BY DEF AddUnique
<1> QED
  BY <1>1, <1>2 DEF AwaitTypeOK, EnqueueFenceWait

LEMMA OpTypes ==
    /\ \A x \in AnyPayload : ExecuteOp(x) \in Op
    /\ \A v \in Nat : SignalOp(v) \in Op
    /\ \A q \in Queue, v \in Nat : WaitOp(q, v) \in Op
BY DEF ExecuteOp, SignalOp, WaitOp, Op

(***************************************************************************)
(* What ExecutePayload does to the log of its queue.                       *)
(***************************************************************************)
LEMMA ExecuteLog ==
    ASSUME TypeOK, NEW q \in Queue, toSubmit[q] \in AnyPayload,
           ExecutePayload(q)
    PROVE  /\ ResultTypeOK'
           /\ toSubmit' \in [Queue -> AnyPayload \union {NoPayload}]
           /\ ops' \in [Queue -> Seq(Op)]
           /\ HasLists(toSubmit[q]) =>
                /\ fenceValue' = [fenceValue EXCEPT ![q] = fenceValue[q] + 1]
                /\ completionValue' = [completionValue EXCEPT
                                          ![toSubmit[q]] = fenceValue[q] + 1]
                /\ Len(ops'[q]) = Len(ops[q]) + 2
                /\ ops'[q][Len(ops[q]) + 1] = ExecuteOp(toSubmit[q])
                /\ ops'[q][Len(ops[q]) + 2] = SignalOp(fenceValue[q] + 1)
           /\ ~ HasLists(toSubmit[q]) =>
                /\ fenceValue' = fenceValue
                /\ completionValue' = [completionValue EXCEPT
                                          ![toSubmit[q]] = fenceValue[q]]
                /\ ops' = ops
           /\ \A r \in Queue : r # q => ops'[r] = ops[r]
           /\ \A r \in Queue : Len(ops'[r]) >= Len(ops[r])
           /\ \A r \in Queue : \A i \in 1..Len(ops[r]) :
                ops'[r][i] = ops[r][i]
<1> DEFINE x == toSubmit[q]
           u == fenceValue[q] + 1
<1>1. /\ ops[q] \in Seq(Op) /\ fenceValue[q] \in Nat /\ u \in Nat
      /\ fenceValue \in [Queue -> Nat]
      /\ completionValue \in [AnyPayload -> Nat]
      /\ executed \in SUBSET AnyPayload
      /\ toSubmit \in [Queue -> AnyPayload \union {NoPayload}]
      /\ ops \in [Queue -> Seq(Op)]
  BY DEF TypeOK, GpuTypeOK, ResultTypeOK, SubmitTypeOK
<1>2. ExecuteOp(x) \in Op /\ SignalOp(u) \in Op
  BY <1>1, OpTypes
<1>3. toSubmit' \in [Queue -> AnyPayload \union {NoPayload}]
  BY <1>1 DEF ExecutePayload
<1>4. CASE HasLists(x)
  <2> DEFINE one == Append(ops[q], ExecuteOp(x))
             two == Append(one, SignalOp(u))
  <2>1. /\ one \in Seq(Op)
        /\ Len(one) = Len(ops[q]) + 1
        /\ \A i \in 1..Len(ops[q]) : one[i] = ops[q][i]
        /\ one[Len(ops[q]) + 1] = ExecuteOp(x)
    BY <1>1, <1>2, AppendProperties
  <2>2. ops' = [ops EXCEPT ![q] = two]
    BY <1>1, <1>4 DEF ExecutePayload, ExecuteThenSignal
  <2>3. /\ fenceValue' = [fenceValue EXCEPT ![q] = u]
        /\ completionValue' = [completionValue EXCEPT ![x] = u]
        /\ executed' = executed \union {x}
    BY <1>4 DEF ExecutePayload
  <2> HIDE DEF one, x, u
  <2>4. /\ two \in Seq(Op)
        /\ Len(two) = Len(ops[q]) + 2
        /\ \A i \in 1..Len(ops[q]) : two[i] = ops[q][i]
        /\ two[Len(ops[q]) + 1] = ExecuteOp(x)
        /\ two[Len(ops[q]) + 2] = SignalOp(u)
    BY <1>1, <1>2, <2>1, AppendProperties
  <2> HIDE DEF two
  <2>5. ResultTypeOK'
    BY <1>1, <2>3, x \in AnyPayload DEF ResultTypeOK, x
  <2>6. ops'[q] = two /\ \A r \in Queue : r # q => ops'[r] = ops[r]
    BY <1>1, <2>2
  <2>7. \A r \in Queue : Len(ops[r]) \in Nat
    BY <1>1
  <2>8. ops' \in [Queue -> Seq(Op)]
    BY <1>1, <2>2, <2>4
  <2>9. \A r \in Queue : /\ Len(ops'[r]) >= Len(ops[r])
                         /\ \A i \in 1..Len(ops[r]) : ops'[r][i] = ops[r][i]
    BY <2>4, <2>6, <2>7
  <2> QED
    BY <1>3, <1>4, <2>3, <2>4, <2>5, <2>6, <2>8, <2>9 DEF x, u
<1>5. CASE ~ HasLists(x)
  <2>1. /\ ops' = ops
        /\ fenceValue' = [fenceValue EXCEPT ![q] = fenceValue[q]]
        /\ completionValue' = [completionValue EXCEPT ![x] = fenceValue[q]]
        /\ executed' = executed \union {x}
    BY <1>5 DEF ExecutePayload
  <2>2. fenceValue' = fenceValue
    BY <1>1, <2>1
  <2>3. ResultTypeOK'
    BY <1>1, <2>1 DEF ResultTypeOK
  <2>4. \A r \in Queue : Len(ops[r]) \in Nat
    BY <1>1
  <2> HIDE DEF x
  <2> QED
    BY <1>1, <1>3, <1>5, <2>1, <2>2, <2>3, <2>4 DEF x
<1> QED
  BY <1>4, <1>5

LEMMA Slice ==
    ASSUME NEW s \in Seq(Payload), NEW m \in 1..Len(s), NEW n \in m..Len(s)
    PROVE  /\ SubSeq(s, m, n) \in Seq(Payload)
           /\ Len(SubSeq(s, m, n)) = n - m + 1
           /\ \A i \in 1..(n - m + 1) : SubSeq(s, m, n)[i] = s[m + i - 1]
           /\ SubSeq(s, m, n)[n - m + 1] = s[n]
<1>1. /\ m \in Int /\ n \in Int /\ m <= n
      /\ \A i \in m..n : s[i] \in Payload
  OBVIOUS
<1>2. /\ SubSeq(s, m, n) \in Seq(Payload)
      /\ Len(SubSeq(s, m, n)) = n - m + 1
      /\ \A i \in 1..(n - m + 1) : SubSeq(s, m, n)[i] = s[m + i - 1]
  BY <1>1, SubSeqProperties
<1>3. n - m + 1 \in 1..(n - m + 1) /\ m + (n - m + 1) - 1 = n
  BY <1>1
<1> QED
  BY <1>2, <1>3

LEMMA TypeFlushCommands ==
    ASSUME TypeInv, NEW t \in EngineThread, FlushCommands(t)
    PROVE  TypeInv'
<1> USE DEF TypeInv, TypeOK, FlushCommands
<1>1. EngineTypeOK'
  <2>1. PICK n \in nextPayload[t]..Len(program[t]), flags \in flushFlags :
            LET b == SubSeq(program[t], nextPayload[t], n) IN
            /\ batch' = [batch EXCEPT ![t] = b]
            /\ nextPayload' = [nextPayload EXCEPT ![t] = n + 1]
            /\ flushed' = [flushed EXCEPT ![t] =
                              [last |-> Recorded(program[t][n]),
                               flags |-> flags]]
            /\ holder' = [p \in Payload |->
                             IF \E i \in 1..Len(b) : b[i] = p
                             THEN AllocatorHolder(b) ELSE holder[p]]
    OBVIOUS
  <2> DEFINE b == SubSeq(program[t], nextPayload[t], n)
  <2>2. /\ program[t] \in Seq(Payload)
        /\ nextPayload[t] \in Nat \ {0}
        /\ n \in Nat \ {0}
        /\ n \in 1..Len(program[t])
        /\ flags \in SUBSET {"submission", "completion"}
    <3>1. program[t] \in Seq(Payload) /\ nextPayload[t] \in Nat \ {0}
      BY ProgramFacts DEF EngineTypeOK
    <3>2. flags \in SUBSET {"submission", "completion"}
      BY <2>1, ProgramFacts
    <3> QED
      BY <3>1, <3>2
  <2>3. b \in Seq(Payload) /\ b # <<>> /\ b[Len(b)] \in Payload
    <3>1. nextPayload[t] \in 1..Len(program[t])
      BY <2>2
    <3>2. /\ b \in Seq(Payload)
          /\ Len(b) = n - nextPayload[t] + 1
          /\ b[Len(b)] = program[t][n]
      <4>1. n \in nextPayload[t]..Len(program[t])
        OBVIOUS
      <4> HIDE DEF TypeInv, TypeOK, FlushCommands
      <4>2. /\ b \in Seq(Payload)
            /\ Len(b) = n - nextPayload[t] + 1
            /\ b[n - nextPayload[t] + 1] = program[t][n]
        <5>1. program[t] \in Seq(Payload)
          BY <2>2
        <5> QED
          BY <3>1, <4>1, <5>1, Slice
      <4> HIDE DEF b
      <4> QED
        BY <4>2
    <3>3. program[t][n] \in Payload /\ n - nextPayload[t] + 1 > 0
      BY <2>2
    <3> HIDE DEF b
    <3> QED
      BY <3>2, <3>3
  <2>4. program[t][n] \in Payload
    BY <2>2
  <2>5. AllocatorHolder(b) \in AnyPayload
    BY <2>3 DEF AllocatorHolder, Recorded, AnyPayload
  <2>6. [last |-> Recorded(program[t][n]), flags |-> flags]
        \in [last : AnyPayload \union {NoPayload},
            flags : SUBSET {"submission", "completion"}]
    BY <2>2, <2>4 DEF Recorded, AnyPayload
  <2> HIDE DEF b
  <2>7. batch' \in [EngineThread -> Seq(Payload)]
    BY <2>1, <2>3 DEF EngineTypeOK, Loaded, b
  <2>8. nextPayload' \in [EngineThread -> Nat \ {0}]
    BY <2>1, <2>2 DEF EngineTypeOK, Loaded, Loaded
  <2>9. flushed' \in [EngineThread ->
                       [last : AnyPayload \union {NoPayload},
                        flags : SUBSET {"submission", "completion"}]]
    BY <2>1, <2>6 DEF EngineTypeOK, Loaded, Loaded
  <2>10. holder' \in [Payload -> AnyPayload \union {NoPayload}]
    BY <2>1, <2>5 DEF EngineTypeOK, Loaded, b
  <2> QED
    BY <2>7, <2>8, <2>9, <2>10 DEF EngineTypeOK, Loaded, Loaded
<1>2. /\ PendingTypeOK' /\ SubmitTypeOK' /\ ResultTypeOK' /\ AwaitTypeOK'
      /\ InterruptTypeOK' /\ GpuTypeOK'
  BY DEF PendingTypeOK, SubmitTypeOK, ResultTypeOK, AwaitTypeOK,
     InterruptTypeOK, GpuTypeOK, submitVars, resultVars, awaitVars,
     interruptVars, gpuVars
<1>3. SubmitInv'
  BY DEF SubmitInv, submitVars, interruptVars, engineVars, Current, Visited
<1> QED
  BY <1>1, <1>2, <1>3

LEMMA AppendKeepsQueue ==
    ASSUME NEW q, NEW s \in Seq(Payload), NEW p \in Payload,
           \A i \in 1..Len(s) : work[s[i]].queue = q,
           work[p].queue = q,
           NEW i \in 1..Len(Append(s, p))
    PROVE  work[Append(s, p)[i]].queue = q
<1>1. /\ Len(Append(s, p)) = Len(s) + 1
      /\ \A j \in 1..Len(s) : Append(s, p)[j] = s[j]
      /\ Append(s, p)[Len(s) + 1] = p
  BY AppendProperties
<1>2. i \in 1..Len(s) \/ i = Len(s) + 1
  BY <1>1
<1> QED
  BY <1>1, <1>2

LEMMA TypeEnqueuePayload ==
    ASSUME TypeInv, NEW t \in EngineThread, EnqueuePayload(t)
    PROVE  TypeInv'
<1> USE DEF TypeInv, TypeOK, EnqueuePayload
<1>1. EngineTypeOK'
  BY DEF EngineTypeOK, Loaded, engineVars
<1>2. PendingTypeOK'
  BY WorkFacts DEF PendingTypeOK, Contents, EngineTypeOK
<1>3. /\ SubmitTypeOK' /\ ResultTypeOK' /\ AwaitTypeOK' /\ InterruptTypeOK'
      /\ GpuTypeOK'
  BY DEF SubmitTypeOK, ResultTypeOK, AwaitTypeOK, InterruptTypeOK, GpuTypeOK,
     submitVars, resultVars, awaitVars, interruptVars, gpuVars
<1>4. SubmitInv'
  <2> DEFINE p == Head(batch[t])
             r == work[p].queue
  <2>1. p \in Payload
    BY DEF EngineTypeOK, Loaded, Loaded
  <2>2. r \in Queue
    BY <2>1, WorkFacts DEF Contents
  <2>3. pendingSubmission' = [pendingSubmission EXCEPT ![r] = Append(@, p)]
    OBVIOUS
  <2>r. r = work[p].queue
    OBVIOUS
  <2> HIDE DEF p, r
  <2>4. ASSUME NEW q \in Queue, NEW i \in 1..Len(pendingSubmission'[q])
        PROVE  work[pendingSubmission'[q][i]].queue = q
    <3>1. CASE q = r
      <4>1. pendingSubmission[q] \in Seq(Payload)
        BY DEF PendingTypeOK
      <4>2. pendingSubmission'[q] = Append(pendingSubmission[q], p)
        BY <2>2, <2>3, <3>1 DEF PendingTypeOK
      <4>3. \A j \in 1..Len(pendingSubmission[q]) :
                work[pendingSubmission[q][j]].queue = q
        BY DEF SubmitInv
      <4>4. work[p].queue = q
        BY <2>r, <3>1
      <4> HIDE DEF TypeInv, TypeOK, EnqueuePayload
      <4>5. \A j \in 1..Len(Append(pendingSubmission[q], p)) :
                work[Append(pendingSubmission[q], p)[j]].queue = q
        BY <2>1, <4>1, <4>3, <4>4, AppendKeepsQueue
      <4>6. i \in 1..Len(Append(pendingSubmission[q], p))
        BY <4>2
      <4>7. work[Append(pendingSubmission[q], p)[i]].queue = q
        BY <4>5, <4>6
      <4>8. pendingSubmission'[q][i] = Append(pendingSubmission[q], p)[i]
        BY <4>2
      <4> QED
        BY <4>7, <4>8
    <3>2. CASE q # r
      <4>1. pendingSubmission'[q] = pendingSubmission[q]
        BY <2>2, <2>3, <3>2 DEF PendingTypeOK
      <4>2. \A j \in 1..Len(pendingSubmission[q]) :
                work[pendingSubmission[q][j]].queue = q
        BY DEF SubmitInv
      <4> QED
        BY <4>1, <4>2
    <3> QED
      BY <3>1, <3>2
  <2> QED
    BY <2>4 DEF SubmitInv, submitVars, interruptVars, Current, Visited
<1> QED
  BY <1>1, <1>2, <1>3, <1>4

LEMMA TypeKickSubmission ==
    ASSUME TypeInv, NEW t \in EngineThread, KickSubmission(t)
    PROVE  TypeInv'
<1> USE DEF TypeInv, TypeOK, KickSubmission
<1>1. EngineTypeOK'
  BY DEF EngineTypeOK, Loaded, engineVars
<1>2. PendingTypeOK'
  BY DEF PendingTypeOK
<1>3. /\ SubmitTypeOK' /\ ResultTypeOK' /\ AwaitTypeOK' /\ InterruptTypeOK'
      /\ GpuTypeOK'
  BY DEF SubmitTypeOK, ResultTypeOK, AwaitTypeOK, InterruptTypeOK, GpuTypeOK,
     submitVars, resultVars, awaitVars, interruptVars, gpuVars
<1>4. SubmitInv'
  BY DEF SubmitInv, submitVars, interruptVars, engineVars, Current, Visited
<1> QED
  BY <1>1, <1>2, <1>3, <1>4

LEMMA TypeFlushReturns ==
    ASSUME TypeInv, NEW t \in EngineThread, FlushReturns(t)
    PROVE  TypeInv'
<1> USE DEF TypeInv, TypeOK, FlushReturns
<1>1. EngineTypeOK'
  BY DEF EngineTypeOK, Loaded, engineVars
<1>2. /\ PendingTypeOK' /\ SubmitTypeOK' /\ ResultTypeOK' /\ AwaitTypeOK'
      /\ InterruptTypeOK' /\ GpuTypeOK'
  BY DEF PendingTypeOK, SubmitTypeOK, ResultTypeOK, AwaitTypeOK,
     InterruptTypeOK, GpuTypeOK, submitVars, resultVars, awaitVars,
     interruptVars, gpuVars
<1>3. SubmitInv'
  BY DEF SubmitInv, submitVars, interruptVars, engineVars, Current, Visited
<1> QED
  BY <1>1, <1>2, <1>3

LEMMA TypeSkipEmpty ==
    ASSUME TypeInv, SkipEmpty
    PROVE  TypeInv'
<1> USE DEF TypeInv, TypeOK, SkipEmpty
<1>1. SubmitTypeOK'
  BY QueueFacts DEF SubmitTypeOK, submitVars, LeaveQueue, MoreQueues
<1>2. /\ EngineTypeOK' /\ PendingTypeOK' /\ ResultTypeOK' /\ AwaitTypeOK'
      /\ InterruptTypeOK' /\ GpuTypeOK'
  BY DEF EngineTypeOK, Loaded, PendingTypeOK, ResultTypeOK, AwaitTypeOK,
     InterruptTypeOK, GpuTypeOK, engineVars, resultVars, awaitVars,
     interruptVars, gpuVars
<1>3. SubmitInv'
  BY DEF SubmitInv, submitVars, interruptVars, engineVars, Current, Visited,
     LeaveQueue
<1> QED
  BY <1>1, <1>2, <1>3

LEMMA TypeSkipUnresolved ==
    ASSUME TypeInv, SkipUnresolved
    PROVE  TypeInv'
<1> USE DEF TypeInv, TypeOK, SkipUnresolved
<1>1. SubmitTypeOK'
  BY QueueFacts DEF SubmitTypeOK, submitVars, LeaveQueue, MoreQueues
<1>2. /\ EngineTypeOK' /\ PendingTypeOK' /\ ResultTypeOK' /\ AwaitTypeOK'
      /\ InterruptTypeOK' /\ GpuTypeOK'
  BY DEF EngineTypeOK, Loaded, PendingTypeOK, ResultTypeOK, AwaitTypeOK,
     InterruptTypeOK, GpuTypeOK, engineVars, resultVars, awaitVars,
     interruptVars, gpuVars
<1>3. SubmitInv'
  BY DEF SubmitInv, submitVars, interruptVars, engineVars, Current, Visited,
     LeaveQueue
<1> QED
  BY <1>1, <1>2, <1>3

LEMMA TypeAccumulateWait ==
    ASSUME TypeInv, AccumulateWait
    PROVE  TypeInv'
<1> USE DEF TypeInv, TypeOK, AccumulateWait
<1>1. SubmitTypeOK'
  BY CurrentFacts, FrontFacts DEF SubmitTypeOK
<1>2. AwaitTypeOK'
  <2> DEFINE s == Recorded(work[Front].waits[waitIndex[Front] + 1])
  <2>1. s \in AnyPayload
    <3>1. Front \in Payload
      BY FrontFacts
    <3>2. work[Front].waits \in Seq(Payload) /\ waitIndex[Front] \in Nat
      BY <3>1, WorkFacts DEF SubmitTypeOK, Contents
    <3>3. work[Front].waits[waitIndex[Front] + 1] \in Payload
      BY <3>2
    <3> QED
      BY <3>3, PayloadFacts
  <2>2. /\ QueueOf(s) \in Queue
        /\ completionValue[s] \in Nat
        /\ Current \in Queue
    BY <2>1, PayloadFacts, CurrentFacts DEF ResultTypeOK
  <2>3. EnqueueFenceWait(Current, QueueOf(s), completionValue[s])
    OBVIOUS
  <2> HIDE DEF s
  <2> QED
    BY <2>2, <2>3, EnqueueFenceWaitTypes DEF AwaitTypeOK
<1>3. /\ EngineTypeOK' /\ PendingTypeOK' /\ ResultTypeOK'
      /\ InterruptTypeOK' /\ GpuTypeOK'
  BY DEF EngineTypeOK, Loaded, PendingTypeOK, ResultTypeOK, InterruptTypeOK,
     GpuTypeOK, engineVars, resultVars, interruptVars, gpuVars
<1>4. SubmitInv'
  BY DEF SubmitInv, submitVars, interruptVars, engineVars, Current, Visited
<1> QED
  BY <1>1, <1>2, <1>3, <1>4

LEMMA TypeTakePayload ==
    ASSUME TypeInv, TakePayload
    PROVE  TypeInv'
<1> USE DEF TypeInv, TypeOK
<1>1. PendingTypeOK'
  <2>1. /\ Current \in Queue
        /\ Tail(pendingSubmission[Current]) \in Seq(Payload)
    BY CurrentFacts, FrontFacts DEF TakePayload
  <2>2. /\ pendingSubmission' = [pendingSubmission EXCEPT ![Current] = Tail(@)]
        /\ pendingInterrupt' = pendingInterrupt
        /\ submissionEvent' = submissionEvent
        /\ interruptEvent' = interruptEvent
    BY DEF TakePayload
  <2> QED
    BY <2>1, <2>2 DEF PendingTypeOK
<1>2. SubmitTypeOK'
  <2>1. /\ Current \in Queue /\ GraphicsQueue[Current] \in Queue
        /\ Recorded(Front) \in AnyPayload /\ Barrier(Front) \in AnyPayload
    BY CurrentFacts, FrontFacts, PayloadFacts DEF TakePayload
  <2>2. toSubmit' \in [Queue -> AnyPayload \union {NoPayload}]
    BY <2>1 DEF TakePayload, SubmitTypeOK
  <2>3. /\ Append(handDown, Recorded(Front)) \in Seq(AnyPayload)
        /\ Append(Append(handDown, Recorded(Front)), Barrier(Front))
            \in Seq(AnyPayload)
    BY <2>1, AppendProperties DEF SubmitTypeOK
  <2>4. handDown' \in Seq(AnyPayload)
    BY <2>3 DEF TakePayload
  <2>5. /\ spc' \in {"barrier", "await"} /\ sprocessed' = TRUE
        /\ squeue' = squeue /\ waitIndex' = waitIndex
    BY DEF TakePayload
  <2> QED
    BY <2>2, <2>4, <2>5 DEF SubmitTypeOK
<1>3. /\ EngineTypeOK' /\ ResultTypeOK' /\ AwaitTypeOK' /\ InterruptTypeOK'
      /\ GpuTypeOK'
  BY DEF TakePayload, EngineTypeOK, Loaded, ResultTypeOK, AwaitTypeOK,
         InterruptTypeOK, GpuTypeOK, engineVars, resultVars, awaitVars,
         interruptVars, gpuVars
<1>4. SubmitInv'
  <2> DEFINE g == GraphicsQueue[Current]
  <2>1. /\ Front \in Payload /\ work[Front].queue = Current
        /\ Current \in Queue /\ g \in Queue
        /\ Current' = Current /\ Visited' = Visited
        /\ work' = work /\ ipc' = ipc /\ pendingInterrupt' = pendingInterrupt
    BY CurrentFacts, FrontFacts
       DEF TakePayload, Current, Visited, engineVars, interruptVars
  <2>2. work[Front].barrier => g # Current
    BY <2>1, WorkFacts DEF WellFormed
  <2>3. work[Front].barrier \in BOOLEAN
    BY <2>1, WorkFacts DEF Contents
  <2>4. \A q \in Queue : toSubmit[q] = NoPayload
    BY DEF TakePayload, SubmitInv
  <2>5. \A q \in Queue : \A i \in 1..Len(pendingSubmission'[q]) :
            work[pendingSubmission'[q][i]].queue = q
    <3> TAKE q \in Queue
    <3>1. CASE q = Current
      <4>1. pendingSubmission'[q] = Tail(pendingSubmission[q])
        BY <3>1 DEF TakePayload, PendingTypeOK
      <4>2. /\ pendingSubmission[q] \in Seq(Payload)
            /\ pendingSubmission[q] # <<>>
        BY <3>1 DEF TakePayload, PendingTypeOK
      <4>3. \A i \in 1..Len(pendingSubmission'[q]) :
                /\ pendingSubmission'[q][i] = pendingSubmission[q][i + 1]
                /\ i + 1 \in 1..Len(pendingSubmission[q])
        BY <4>1, <4>2, HeadTailProperties
      <4> QED
        BY <4>3 DEF SubmitInv
    <3>2. CASE q # Current
      BY <3>2, <2>1 DEF TakePayload, PendingTypeOK, SubmitInv
    <3> QED
      BY <3>1, <3>2
  <2>6. CASE work[Front].barrier
    <3>1. /\ toSubmit' = [toSubmit EXCEPT ![Current] = Recorded(Front),
                                          ![g] = Barrier(Front)]
          /\ spc' = "barrier"
      BY <2>6 DEF TakePayload
    <3>2. /\ toSubmit'[Current] = Recorded(Front)
          /\ toSubmit'[g] = Barrier(Front)
          /\ \A q \in Queue : q # Current /\ q # g => toSubmit'[q] = NoPayload
      <4>1. /\ toSubmit \in [Queue -> AnyPayload \union {NoPayload}]
            /\ Current \in Queue /\ g \in Queue
            /\ g # Current
            /\ \A q \in Queue : toSubmit[q] = NoPayload
        BY <2>1, <2>2, <2>4, <2>6, <3>1 DEF SubmitTypeOK
      <4> HIDE DEF TypeInv, TypeOK, TakePayload, g
      <4>2. /\ toSubmit'[g] = Barrier(Front)
            /\ toSubmit'[Current] = Recorded(Front)
        BY <3>1, <4>1
      <4>3. ASSUME NEW q \in Queue, q # Current, q # g
            PROVE  toSubmit'[q] = NoPayload
        BY <3>1, <4>1, <4>3
      <4> QED
        BY <4>2, <4>3
    <3>3. \A q \in Queue : toSubmit'[q] # NoPayload => q \in {Current, g}
      BY <3>2
    <3>4. ipc = "await" => pendingInterrupt[Visited] # <<>>
      BY DEF SubmitInv
    <3> HIDE DEF TypeInv, TypeOK, TakePayload
    <3> QED
      BY <2>1, <2>5, <2>6, <3>1, <3>2, <3>3, <3>4 DEF SubmitInv
  <2>7. CASE ~ work[Front].barrier
    <3>1. /\ toSubmit' = [toSubmit EXCEPT ![Current] = Recorded(Front)]
          /\ spc' = "await"
      BY <2>7 DEF TakePayload
    <3>2. /\ toSubmit'[Current] = Recorded(Front)
          /\ \A q \in Queue : q # Current => toSubmit'[q] = NoPayload
      BY <2>1, <2>4, <3>1 DEF SubmitTypeOK
    <3> QED
      BY <2>1, <2>5, <2>7, <3>1, <3>2 DEF SubmitInv
  <2> QED
    BY <2>6, <2>7
<1> QED
  BY <1>1, <1>2, <1>3, <1>4

LEMMA TypeExecuteBarrier ==
    ASSUME TypeInv, ExecuteBarrier
    PROVE  TypeInv'
<1> DEFINE g == GraphicsQueue[Current]
<1> USE DEF TypeInv, TypeOK
<1>1. /\ Current \in Queue /\ g \in Queue
      /\ toSubmit[g] \in AnyPayload
      /\ ExecutePayload(g)
      /\ EnqueueFenceWait(Current, g, 0)
  BY CurrentFacts, ToSubmitFacts DEF ExecuteBarrier, ExecuteReturnValue
<1>2. /\ ResultTypeOK'
      /\ toSubmit' \in [Queue -> AnyPayload \union {NoPayload}]
      /\ ops' \in [Queue -> Seq(Op)]
      /\ \A r \in Queue : Len(ops'[r]) >= Len(ops[r])
  <2> HIDE DEF g
  <2> QED
    BY <1>1, ExecuteLog
<1>3. AwaitTypeOK'
  BY <1>1, EnqueueFenceWaitTypes DEF AwaitTypeOK, ExecuteBarrier
<1>4. GpuTypeOK'
  BY <1>2 DEF GpuTypeOK, gpuVars, ExecuteBarrier
<1>5. SubmitTypeOK'
  BY <1>2 DEF SubmitTypeOK, ExecuteBarrier
<1>6. EngineTypeOK' /\ PendingTypeOK' /\ InterruptTypeOK'
  BY DEF ExecuteBarrier, EngineTypeOK, Loaded, PendingTypeOK, InterruptTypeOK,
         engineVars, interruptVars
<1>7. SubmitInv'
  <2>1. /\ spc = "barrier" /\ spc' = "await" /\ Current' = Current
        /\ Visited' = Visited /\ work' = work /\ ipc' = ipc
        /\ pendingInterrupt' = pendingInterrupt
        /\ pendingSubmission' = pendingSubmission
    BY DEF ExecuteBarrier, Current, Visited, engineVars, interruptVars
  <2>2. toSubmit' = [toSubmit EXCEPT ![g] = NoPayload]
    BY <1>1 DEF ExecutePayload
  <2>3. PICK p \in Payload : /\ toSubmit[Current] = Recorded(p)
                             /\ work[p].queue = Current
                             /\ work[p].barrier
    BY <2>1 DEF SubmitInv
  <2>4. g # Current
    BY <2>3, WorkFacts DEF WellFormed
  <2>5. /\ toSubmit'[Current] = Recorded(p)
        /\ \A q \in Queue : q # Current => toSubmit'[q] = NoPayload
    BY <1>1, <2>1, <2>2, <2>3, <2>4 DEF SubmitInv, SubmitTypeOK
  <2> QED
    BY <2>1, <2>3, <2>5 DEF SubmitInv
<1> QED
  BY <1>2, <1>3, <1>4, <1>5, <1>6, <1>7

LEMMA TypeFlushFenceWait ==
    ASSUME TypeInv, FlushFenceWait
    PROVE  TypeInv'
<1> DEFINE q == Current
           f == Head(fencesToAwait[q])
           v == nextAwait[q][f]
<1> USE DEF TypeInv, TypeOK
<1>1. /\ q \in Queue /\ f \in Queue /\ v \in Nat
      /\ Tail(fencesToAwait[q]) \in Seq(Queue)
  BY CurrentFacts, HeadTailProperties DEF AwaitTypeOK, FlushFenceWait
<1>2. /\ fencesToAwait' = [fencesToAwait EXCEPT ![q] = Tail(@)]
      /\ \/ /\ ops' = [ops EXCEPT ![q] = Append(@, WaitOp(f, v))]
            /\ maxAwait' = [maxAwait EXCEPT ![q][f] = v]
         \/ ops' = ops /\ maxAwait' = maxAwait
      /\ nextAwait' = nextAwait
  BY DEF FlushFenceWait
<1>3. WaitOp(f, v) \in Op
  BY <1>1, OpTypes
<1>4. UNCHANGED <<engineVars, pendingSubmission, submissionEvent, submitVars,
                  resultVars, pendingInterrupt, interruptEvent, interruptVars,
                  gpuVars>>
  BY DEF FlushFenceWait
<1> HIDE DEF q, f, v
<1>5. AwaitTypeOK'
  <2>1. fencesToAwait' \in [Queue -> Seq(Queue)]
    BY <1>1, <1>2 DEF AwaitTypeOK
  <2>2. [maxAwait EXCEPT ![q][f] = v] \in [Queue -> [Queue -> Nat]]
    BY <1>1 DEF AwaitTypeOK
  <2> QED
    BY <1>2, <2>1, <2>2 DEF AwaitTypeOK
<1>6. GpuTypeOK'
  <2>1. CASE ops' = ops
    BY <1>4, <2>1 DEF GpuTypeOK, gpuVars
  <2>2. CASE ops' = [ops EXCEPT ![q] = Append(@, WaitOp(f, v))]
    <3>1. /\ ops[q] \in Seq(Op) /\ Append(ops[q], WaitOp(f, v)) \in Seq(Op)
          /\ Len(Append(ops[q], WaitOp(f, v))) = Len(ops[q]) + 1
      BY <1>1, <1>3, AppendProperties DEF GpuTypeOK
    <3> QED
      <4>1. ops' \in [Queue -> Seq(Op)]
        BY <1>1, <2>2, <3>1 DEF GpuTypeOK
      <4>2. \A r \in Queue : Len(ops[r]) <= Len(ops'[r])
        BY <1>1, <2>2, <3>1 DEF GpuTypeOK
      <4>3. \A r \in Queue : gpuDone[r] \in Nat /\ gpuDone[r] <= Len(ops'[r])
        <5>1. ASSUME NEW r \in Queue
              PROVE  /\ Len(ops[r]) \in Nat /\ Len(ops'[r]) \in Nat
                     /\ gpuDone[r] \in Nat /\ gpuDone[r] <= Len(ops[r])
          BY <4>1 DEF GpuTypeOK
        <5> QED
          BY <4>2, <5>1
      <4> QED
        BY <1>4, <4>1, <4>3 DEF GpuTypeOK, gpuVars
  <2> QED
    BY <1>2, <2>1, <2>2
<1>7. EngineTypeOK' /\ PendingTypeOK' /\ SubmitTypeOK' /\ ResultTypeOK'
      /\ InterruptTypeOK'
  BY <1>4 DEF EngineTypeOK, Loaded, PendingTypeOK, SubmitTypeOK, ResultTypeOK,
     InterruptTypeOK, engineVars, submitVars, resultVars, interruptVars
<1>8. SubmitInv'
  BY <1>4 DEF SubmitInv, submitVars, interruptVars, engineVars, Current,
     Visited
<1> QED
  BY <1>5, <1>6, <1>7, <1>8

LEMMA TypeExecuteCurrent ==
    ASSUME TypeInv, ExecuteCurrent
    PROVE  TypeInv'
<1> USE DEF TypeInv, TypeOK
<1>1. Current \in Queue /\ toSubmit[Current] \in AnyPayload
  BY CurrentFacts, ToSubmitFacts DEF ExecuteCurrent
<1>2. /\ ResultTypeOK'
      /\ toSubmit' \in [Queue -> AnyPayload \union {NoPayload}]
      /\ ops' \in [Queue -> Seq(Op)]
      /\ \A r \in Queue : Len(ops'[r]) >= Len(ops[r])
  BY <1>1, ExecuteLog DEF ExecuteCurrent
<1>3. GpuTypeOK'
  BY <1>2 DEF GpuTypeOK, gpuVars, ExecuteCurrent
<1>4. SubmitTypeOK'
  BY <1>2 DEF SubmitTypeOK, ExecuteCurrent
<1>5. EngineTypeOK' /\ PendingTypeOK' /\ AwaitTypeOK' /\ InterruptTypeOK'
  BY DEF ExecuteCurrent, EngineTypeOK, Loaded, PendingTypeOK, AwaitTypeOK,
         InterruptTypeOK, engineVars, awaitVars, interruptVars
<1>6. SubmitInv'
  <2>1. /\ spc = "await" /\ spc' = "visit" /\ Current' = Current
        /\ Visited' = Visited /\ work' = work /\ ipc' = ipc
        /\ pendingInterrupt' = pendingInterrupt
        /\ pendingSubmission' = pendingSubmission
    BY DEF ExecuteCurrent, Current, Visited, engineVars, interruptVars
  <2>2. toSubmit' = [toSubmit EXCEPT ![Current] = NoPayload]
    BY DEF ExecuteCurrent, ExecutePayload
  <2>3. \A q \in Queue : toSubmit'[q] = NoPayload
    BY <1>1, <2>1, <2>2 DEF SubmitInv, SubmitTypeOK
  <2> QED
    BY <2>1, <2>3 DEF SubmitInv
<1> QED
  BY <1>2, <1>3, <1>4, <1>5, <1>6

LEMMA TypeHandDown ==
    ASSUME TypeInv, HandDown
    PROVE  TypeInv'
<1> USE DEF TypeInv, TypeOK, HandDown
<1>1. PendingTypeOK'
  <2>1. /\ Head(handDown) \in AnyPayload
        /\ QueueOf(Head(handDown)) \in Queue
    BY PayloadFacts, HeadTailProperties DEF SubmitTypeOK
  <2> QED
    BY <2>1 DEF PendingTypeOK
<1>2. SubmitTypeOK'
  BY DEF SubmitTypeOK, submitVars
<1>3. /\ EngineTypeOK' /\ ResultTypeOK' /\ AwaitTypeOK' /\ InterruptTypeOK'
      /\ GpuTypeOK'
  BY DEF EngineTypeOK, Loaded, ResultTypeOK, AwaitTypeOK, InterruptTypeOK,
     GpuTypeOK, engineVars, resultVars, awaitVars, interruptVars, gpuVars
<1>4. SubmitInv'
  BY DEF SubmitInv, submitVars, interruptVars, engineVars, Current, Visited
<1> QED
  BY <1>1, <1>2, <1>3, <1>4

LEMMA TypeEndPass ==
    ASSUME TypeInv, EndPass
    PROVE  TypeInv'
<1> USE DEF TypeInv, TypeOK, EndPass
<1>1. PendingTypeOK'
  BY DEF PendingTypeOK, KickInterrupt, SubmitTypeOK
<1>2. SubmitTypeOK'
  BY DEF SubmitTypeOK, submitVars, AfterPass
<1>3. /\ EngineTypeOK' /\ ResultTypeOK' /\ AwaitTypeOK' /\ InterruptTypeOK'
      /\ GpuTypeOK'
  BY DEF EngineTypeOK, Loaded, ResultTypeOK, AwaitTypeOK, InterruptTypeOK,
     GpuTypeOK, engineVars, resultVars, awaitVars, interruptVars, gpuVars
<1>4. SubmitInv'
  BY DEF SubmitInv, submitVars, interruptVars, engineVars, Current, Visited,
     AfterPass
<1> QED
  BY <1>1, <1>2, <1>3, <1>4

LEMMA TypeWakeSubmission ==
    ASSUME TypeInv, WakeSubmission
    PROVE  TypeInv'
<1> USE DEF TypeInv, TypeOK, WakeSubmission
<1>1. PendingTypeOK'
  BY DEF PendingTypeOK
<1>2. SubmitTypeOK'
  BY DEF SubmitTypeOK, submitVars
<1>3. /\ EngineTypeOK' /\ ResultTypeOK' /\ AwaitTypeOK' /\ InterruptTypeOK'
      /\ GpuTypeOK'
  BY DEF EngineTypeOK, Loaded, ResultTypeOK, AwaitTypeOK, InterruptTypeOK,
     GpuTypeOK, engineVars, resultVars, awaitVars, interruptVars, gpuVars
<1>4. SubmitInv'
  BY DEF SubmitInv, submitVars, interruptVars, engineVars, Current, Visited
<1> QED
  BY <1>1, <1>2, <1>3, <1>4

LEMMA TypeSkipIdle ==
    ASSUME TypeInv, SkipIdle
    PROVE  TypeInv'
<1> USE DEF TypeInv, TypeOK, SkipIdle
<1>1. InterruptTypeOK'
  <2>1. iprocessed \in BOOLEAN /\ timeoutArmed \in BOOLEAN
    BY DEF InterruptTypeOK
  <2> QED
    BY <2>1, LeaveVisitedTypes DEF InterruptTypeOK
<1>2. /\ EngineTypeOK' /\ PendingTypeOK' /\ SubmitTypeOK' /\ ResultTypeOK'
      /\ AwaitTypeOK' /\ GpuTypeOK'
  BY DEF EngineTypeOK, Loaded, PendingTypeOK, SubmitTypeOK, ResultTypeOK,
     AwaitTypeOK, GpuTypeOK, engineVars, submitVars, resultVars, awaitVars,
     gpuVars
<1>3. SubmitInv'
  BY DEF SubmitInv, submitVars, interruptVars, engineVars, Current, Visited,
     LeaveVisited, MoreQueues
<1> QED
  BY <1>1, <1>2, <1>3

LEMMA TypeCompletePayload ==
    ASSUME TypeInv, CompletePayload
    PROVE  TypeInv'
<1> USE DEF TypeInv, TypeOK
<1>1. /\ Visited \in Queue
      /\ AwaitedPayload \in AnyPayload
      /\ AwaitedPayload[1] \in Payload
      /\ Tail(pendingInterrupt[Visited]) \in Seq(AnyPayload)
  BY VisitedFacts, AwaitedFacts DEF CompletePayload
<1>2. PendingTypeOK'
  BY <1>1 DEF PendingTypeOK, CompletePayload
<1>3. InterruptTypeOK'
  BY <1>1 DEF InterruptTypeOK, CompletePayload, ForgetAwaited
<1>4. EngineTypeOK' /\ SubmitTypeOK' /\ ResultTypeOK' /\ AwaitTypeOK'
      /\ GpuTypeOK'
  BY DEF CompletePayload, EngineTypeOK, Loaded, SubmitTypeOK, ResultTypeOK,
         AwaitTypeOK, GpuTypeOK, engineVars, submitVars, resultVars,
         awaitVars, gpuVars
<1>5. SubmitInv'
  BY DEF CompletePayload, SubmitInv, submitVars, engineVars, Current
<1> QED
  BY <1>2, <1>3, <1>4, <1>5

LEMMA TypeAlreadyAwaited ==
    ASSUME TypeInv, AlreadyAwaited
    PROVE  TypeInv'
<1> USE DEF TypeInv, TypeOK, AlreadyAwaited
<1>1. InterruptTypeOK'
  BY LeaveIncompleteTypes DEF InterruptTypeOK
<1>2. /\ EngineTypeOK' /\ PendingTypeOK' /\ SubmitTypeOK' /\ ResultTypeOK'
      /\ AwaitTypeOK' /\ GpuTypeOK'
  BY DEF EngineTypeOK, Loaded, PendingTypeOK, SubmitTypeOK, ResultTypeOK,
     AwaitTypeOK, GpuTypeOK, engineVars, submitVars, resultVars, awaitVars,
     gpuVars
<1>3. SubmitInv'
  BY DEF SubmitInv, submitVars, interruptVars, engineVars, Current, Visited,
     LeaveIncomplete, LeaveVisited, MoreQueues
<1> QED
  BY <1>1, <1>2, <1>3

LEMMA TypeFindIncomplete ==
    ASSUME TypeInv, FindIncomplete
    PROVE  TypeInv'
<1> USE DEF TypeInv, TypeOK, FindIncomplete
<1>1. InterruptTypeOK'
  BY DEF InterruptTypeOK, interruptVars
<1>2. /\ EngineTypeOK' /\ PendingTypeOK' /\ SubmitTypeOK' /\ ResultTypeOK'
      /\ AwaitTypeOK' /\ GpuTypeOK'
  BY DEF EngineTypeOK, Loaded, PendingTypeOK, SubmitTypeOK, ResultTypeOK,
     AwaitTypeOK, GpuTypeOK, engineVars, submitVars, resultVars, awaitVars,
     gpuVars
<1>3. SubmitInv'
  BY DEF SubmitInv, submitVars, interruptVars, engineVars, Current, Visited
<1> QED
  BY <1>1, <1>2, <1>3

LEMMA TypeAwaitCompletion ==
    ASSUME TypeInv, AwaitCompletion
    PROVE  TypeInv'
<1> USE DEF TypeInv, TypeOK, AwaitCompletion
<1>1. PendingTypeOK'
  BY DEF PendingTypeOK, SetEventOnCompletion
<1>2. InterruptTypeOK'
  BY LeaveIncompleteTypes, VisitedFacts DEF InterruptTypeOK
<1>3. GpuTypeOK'
  <2>1. Visited \in Queue /\ AwaitedPayload \in AnyPayload
    BY VisitedFacts, AwaitedFacts DEF SubmitInv
  <2>2. completionValue[AwaitedPayload] \in Nat
    BY <2>1 DEF ResultTypeOK
  <2>3. /\ SetEventOnCompletion(Visited, completionValue[AwaitedPayload])
        /\ UNCHANGED <<ops, gpuDone, completedValue>>
    OBVIOUS
  <2> QED
    <3>1. GpuTypeOK
      OBVIOUS
    <3> HIDE DEF TypeInv, TypeOK, AwaitCompletion
    <3> DEFINE v == completionValue[AwaitedPayload]
    <3>r. registered \in [Queue -> SUBSET Nat]
      BY <3>1 DEF GpuTypeOK
    <3>2. registered' \in [Queue -> SUBSET Nat]
      <4>1. \/ registered' = registered
            \/ registered' = [registered EXCEPT ![Visited] = @ \union {v}]
        BY <2>3 DEF SetEventOnCompletion
      <4>2. registered[Visited] \union {v} \in SUBSET Nat
        BY <2>1, <2>2, <3>r
      <4> HIDE DEF v
      <4> QED
        BY <3>r, <4>1, <4>2
    <3> QED
      BY <2>3, <3>1, <3>2 DEF GpuTypeOK
<1>4. EngineTypeOK' /\ SubmitTypeOK' /\ ResultTypeOK' /\ AwaitTypeOK'
  BY DEF EngineTypeOK, Loaded, SubmitTypeOK, ResultTypeOK, AwaitTypeOK,
     engineVars, submitVars, resultVars, awaitVars
<1>5. SubmitInv'
  BY DEF SubmitInv, submitVars, interruptVars, engineVars, Current, Visited,
     LeaveIncomplete, LeaveVisited, MoreQueues
<1> QED
  BY <1>1, <1>2, <1>3, <1>4, <1>5

LEMMA TypeWakeInterrupt ==
    ASSUME TypeInv, WakeInterrupt
    PROVE  TypeInv'
<1> USE DEF TypeInv, TypeOK, WakeInterrupt
<1>1. PendingTypeOK'
  BY DEF PendingTypeOK
<1>2. InterruptTypeOK'
  BY DEF InterruptTypeOK, interruptVars
<1>3. /\ EngineTypeOK' /\ SubmitTypeOK' /\ ResultTypeOK' /\ AwaitTypeOK'
      /\ GpuTypeOK'
  BY DEF EngineTypeOK, Loaded, SubmitTypeOK, ResultTypeOK, AwaitTypeOK,
     GpuTypeOK, engineVars, submitVars, resultVars, awaitVars, gpuVars
<1>4. SubmitInv'
  BY DEF SubmitInv, submitVars, interruptVars, engineVars, Current, Visited
<1> QED
  BY <1>1, <1>2, <1>3, <1>4

LEMMA TypeGpuWait ==
    ASSUME TypeInv, NEW q \in Queue, GpuWait(q)
    PROVE  TypeInv'
<1> USE DEF TypeInv, TypeOK, GpuWait
<1>1. GpuTypeOK'
  <2>1. /\ gpuDone[q] \in Nat /\ gpuDone[q] + 1 \in Nat
        /\ gpuDone[q] + 1 <= Len(ops[q])
    BY DEF GpuTypeOK, GpuReady
  <2>2. /\ gpuDone' = [gpuDone EXCEPT ![q] = @ + 1]
        /\ UNCHANGED <<ops, completedValue, registered>>
        /\ GpuTypeOK
    OBVIOUS
  <2> HIDE DEF TypeInv, TypeOK, GpuWait
  <2>3. /\ gpuDone' \in [Queue -> Nat]
        /\ \A r \in Queue : gpuDone'[r] <= Len(ops[r])
    BY <2>1, <2>2 DEF GpuTypeOK
  <2> QED
    BY <2>2, <2>3 DEF GpuTypeOK
<1>2. /\ EngineTypeOK' /\ PendingTypeOK' /\ SubmitTypeOK' /\ ResultTypeOK'
      /\ AwaitTypeOK' /\ InterruptTypeOK'
  <2>1. EngineTypeOK' /\ PendingTypeOK'
    BY DEF EngineTypeOK, Loaded, PendingTypeOK, engineVars
  <2>2. SubmitTypeOK' /\ ResultTypeOK'
    BY DEF SubmitTypeOK, ResultTypeOK, submitVars, resultVars
  <2>3. AwaitTypeOK' /\ InterruptTypeOK'
    BY DEF AwaitTypeOK, InterruptTypeOK, awaitVars, interruptVars
  <2> QED
    BY <2>1, <2>2, <2>3
<1>3. SubmitInv'
  BY DEF SubmitInv, submitVars, interruptVars, engineVars, Current, Visited
<1> QED
  BY <1>1, <1>2, <1>3

LEMMA TypeGpuExecute ==
    ASSUME TypeInv, NEW q \in Queue, GpuExecute(q)
    PROVE  TypeInv'
<1> USE DEF TypeInv, TypeOK, GpuExecute
<1>1. GpuTypeOK'
  <2>1. /\ gpuDone[q] \in Nat /\ gpuDone[q] + 1 \in Nat
        /\ gpuDone[q] + 1 <= Len(ops[q])
    BY DEF GpuTypeOK, GpuReady
  <2>2. /\ gpuDone' = [gpuDone EXCEPT ![q] = @ + 1]
        /\ UNCHANGED <<ops, completedValue, registered>>
        /\ GpuTypeOK
    OBVIOUS
  <2> HIDE DEF TypeInv, TypeOK, GpuExecute
  <2>3. /\ gpuDone' \in [Queue -> Nat]
        /\ \A r \in Queue : gpuDone'[r] <= Len(ops[r])
    BY <2>1, <2>2 DEF GpuTypeOK
  <2> QED
    BY <2>2, <2>3 DEF GpuTypeOK
<1>2. /\ EngineTypeOK' /\ PendingTypeOK' /\ SubmitTypeOK' /\ ResultTypeOK'
      /\ AwaitTypeOK' /\ InterruptTypeOK'
  <2>1. EngineTypeOK' /\ PendingTypeOK'
    BY DEF EngineTypeOK, Loaded, PendingTypeOK, engineVars
  <2>2. SubmitTypeOK' /\ ResultTypeOK'
    BY DEF SubmitTypeOK, ResultTypeOK, submitVars, resultVars
  <2>3. AwaitTypeOK' /\ InterruptTypeOK'
    BY DEF AwaitTypeOK, InterruptTypeOK, awaitVars, interruptVars
  <2> QED
    BY <2>1, <2>2, <2>3
<1>3. SubmitInv'
  BY DEF SubmitInv, submitVars, interruptVars, engineVars, Current, Visited
<1> QED
  BY <1>1, <1>2, <1>3

LEMMA TypeGpuSignal ==
    ASSUME TypeInv, NEW q \in Queue, GpuSignal(q)
    PROVE  TypeInv'
<1> USE DEF TypeInv, TypeOK, GpuSignal
<1>1. PendingTypeOK'
  BY DEF PendingTypeOK, GpuReady
<1>2. GpuTypeOK'
  BY DEF GpuTypeOK, gpuVars, GpuReady, NextOp, Op
<1>3. /\ EngineTypeOK' /\ SubmitTypeOK' /\ ResultTypeOK' /\ AwaitTypeOK'
      /\ InterruptTypeOK'
  BY DEF EngineTypeOK, Loaded, SubmitTypeOK, ResultTypeOK, AwaitTypeOK,
     InterruptTypeOK, engineVars, submitVars, resultVars, awaitVars,
     interruptVars
<1>4. SubmitInv'
  BY DEF SubmitInv, submitVars, interruptVars, engineVars, Current, Visited
<1> QED
  BY <1>1, <1>2, <1>3, <1>4

LEMMA TypeNext == TypeInv /\ [Next]_vars => TypeInv'
<1> SUFFICES ASSUME TypeInv, [Next]_vars PROVE TypeInv'
  OBVIOUS
<1>1. ASSUME NEW t \in EngineThread, Engine(t) PROVE TypeInv'
  BY <1>1, TypeFlushCommands, TypeEnqueuePayload, TypeKickSubmission,
     TypeFlushReturns DEF Engine
<1>2. CASE SubmissionThread
  BY <1>2, TypeSkipEmpty, TypeAccumulateWait, TypeSkipUnresolved,
     TypeTakePayload, TypeExecuteBarrier, TypeFlushFenceWait,
     TypeExecuteCurrent, TypeHandDown, TypeEndPass, TypeWakeSubmission
     DEF SubmissionThread
<1>3. CASE InterruptThread
  BY <1>3, TypeSkipIdle, TypeCompletePayload, TypeAlreadyAwaited,
     TypeFindIncomplete, TypeAwaitCompletion, TypeWakeInterrupt
     DEF InterruptThread
<1>4. ASSUME NEW q \in Queue, Gpu(q) PROVE TypeInv'
  BY <1>4, TypeGpuWait, TypeGpuExecute, TypeGpuSignal DEF Gpu
<1>5. CASE UNCHANGED vars
  <2>1. /\ UNCHANGED engineVars /\ UNCHANGED submitVars
        /\ UNCHANGED resultVars /\ UNCHANGED awaitVars
        /\ UNCHANGED interruptVars /\ UNCHANGED gpuVars
        /\ UNCHANGED <<pendingSubmission, submissionEvent, pendingInterrupt,
                      interruptEvent, ops>>
    BY <1>5 DEF vars
  <2>2. TypeOK'
    <3>1. EngineTypeOK' /\ PendingTypeOK' /\ SubmitTypeOK'
      BY <2>1 DEF TypeInv, TypeOK, EngineTypeOK, Loaded, PendingTypeOK,
         SubmitTypeOK, engineVars, submitVars
    <3>2. ResultTypeOK' /\ AwaitTypeOK'
      BY <2>1 DEF TypeInv, TypeOK, ResultTypeOK, AwaitTypeOK, resultVars,
         awaitVars
    <3>3. InterruptTypeOK' /\ GpuTypeOK'
      BY <2>1 DEF TypeInv, TypeOK, InterruptTypeOK, GpuTypeOK, interruptVars,
         gpuVars
    <3> QED
      BY <3>1, <3>2, <3>3 DEF TypeOK
  <2>3. SubmitInv'
    BY <2>1 DEF TypeInv, SubmitInv, engineVars, submitVars, interruptVars,
       Current, Visited
  <2> QED
    BY <2>2, <2>3 DEF TypeInv
<1> QED
  BY <1>1, <1>2, <1>3, <1>4, <1>5 DEF Next

(***************************************************************************)
(* The variables of the submission pipe always have their types.           *)
(***************************************************************************)
THEOREM TypeCorrect == Spec => []TypeOK
<1>1. Spec => []TypeInv
  BY TypeInit, TypeNext, PTL DEF Spec
<1>2. TypeInv => TypeOK
  BY DEF TypeInv
<1> QED
  BY <1>1, <1>2, PTL

-----------------------------------------------------------------------------
(***************************************************************************)
(* The log of each queue: every ExecuteCommandLists is followed at once by *)
(* a signal the payload's completion value covers, the values signalled    *)
(* rise, and the fence has reached a value only if the GPU has carried out *)
(* the signal.                                                             *)
(***************************************************************************)
ExecutesSignal ==
    \A q \in Queue : \A i \in 1..Len(ops[q]) : ops[q][i].kind = "execute" =>
        /\ ops[q][i].payload \in executed
        /\ QueueOf(ops[q][i].payload) = q
        /\ i + 1 \in 1..Len(ops[q])
        /\ ops[q][i + 1].kind = "signal"
        /\ ops[q][i + 1].value <= completionValue[ops[q][i].payload]

SignalsRise ==
    \A q \in Queue : \A i \in 1..Len(ops[q]) : ops[q][i].kind = "signal" =>
        /\ ops[q][i].value <= fenceValue[q]
        /\ ops[q][i].value <= completedValue[q] => i <= gpuDone[q]
        /\ \A j \in 1..Len(ops[q]) :
            ops[q][j].kind = "signal" /\ i < j =>
                ops[q][i].value < ops[q][j].value

FenceBehind == \A q \in Queue : completedValue[q] <= fenceValue[q]

(***************************************************************************)
(* Each payload is submitted once, in the order of its thread's program.   *)
(***************************************************************************)
Flushed(t) == nextPayload[t] - Len(batch[t]) - 1

Submitted(p) ==
    \E t \in EngineThread : \E i \in 1..Flushed(t) :
        i <= Len(program[t]) /\ program[t][i] = p

BatchInv ==
    \A t \in EngineThread :
        /\ epc[t] # "submit" => batch[t] = <<>>
        /\ Len(batch[t]) < nextPayload[t]
        /\ nextPayload[t] <= Len(program[t]) + 1
        /\ \A i \in 1..Len(batch[t]) :
            batch[t][i] = program[t][Flushed(t) + i]

OnceInv ==
    /\ \A q \in Queue : \A i \in 1..Len(pendingSubmission[q]) :
        LET p == pendingSubmission[q][i] IN
        /\ Submitted(p)
        /\ Recorded(p) \notin executed
        /\ Barrier(p) \notin executed
        /\ \A r \in Queue : toSubmit[r] # NoPayload => toSubmit[r][1] # p
        /\ \A j \in 1..Len(pendingSubmission[q]) :
            pendingSubmission[q][j] = p => j = i
    /\ \A q \in Queue : toSubmit[q] # NoPayload =>
        Submitted(toSubmit[q][1]) /\ toSubmit[q] \notin executed
    /\ \A x \in executed : Submitted(x[1])

(***************************************************************************)
(* What is handed down has been executed, or is about to be.               *)
(***************************************************************************)
HandedInv ==
    /\ \A i \in 1..Len(handDown) :
        \/ handDown[i] \in executed
        \/ \E q \in Queue : toSubmit[q] = handDown[i]
    /\ \A q \in Queue : \A i \in 1..Len(pendingInterrupt[q]) :
        /\ pendingInterrupt[q][i] \in executed
        /\ QueueOf(pendingInterrupt[q][i]) = q

LogInv == ExecutesSignal /\ SignalsRise /\ FenceBehind
SafeInv == BatchInv /\ OnceInv /\ LogInv /\ HandedInv /\ ReleaseAfterWork

-----------------------------------------------------------------------------
LEMMA OpFacts ==
    ASSUME NEW o \in Op
    PROVE  /\ o.kind = "signal" => o.value \in Nat
           /\ o.kind = "execute" =>
                o.payload \in AnyPayload /\ o = ExecuteOp(o.payload)
BY DEF Op, ExecuteOp

LEMMA LogFacts ==
    ASSUME TypeInv, NEW q \in Queue
    PROVE  /\ ops[q] \in Seq(Op)
           /\ Len(ops[q]) \in Nat
           /\ \A i \in 1..Len(ops[q]) : ops[q][i] \in Op
           /\ gpuDone[q] \in 0..Len(ops[q])
           /\ fenceValue[q] \in Nat
           /\ completedValue[q] \in Nat
BY DEF TypeInv, TypeOK, GpuTypeOK, ResultTypeOK

LEMMA LogUnchanged ==
    ASSUME LogInv,
           UNCHANGED <<program, work, ops, executed, completionValue,
                       fenceValue, gpuDone, completedValue>>
    PROVE  LogInv'
<1>1. ExecutesSignal'
  <2>1. \A y : QueueOf(y)' = QueueOf(y)
    BY DEF QueueOf
  <2> QED
    BY <2>1 DEF LogInv, ExecutesSignal
<1>2. SignalsRise'
  BY DEF LogInv, SignalsRise
<1>3. FenceBehind'
  BY DEF LogInv, FenceBehind
<1> QED
  BY <1>1, <1>2, <1>3 DEF LogInv

LEMMA ReleaseUnchanged ==
    ASSUME ReleaseAfterWork, UNCHANGED <<ops, executed, released, gpuDone>>
    PROVE  ReleaseAfterWork'
BY DEF ReleaseAfterWork, Finished

(***************************************************************************)
(* ExecutePayload, whichever queue it runs for.                            *)
(***************************************************************************)
LEMMA ExecuteLogInv ==
    ASSUME TypeInv, LogInv, NEW q \in Queue, toSubmit[q] \in AnyPayload,
           toSubmit[q] \notin executed, QueueOf(toSubmit[q]) = q,
           ExecutePayload(q), UNCHANGED <<program, work, gpuDone,
                                          completedValue>>
    PROVE  LogInv'
<1> DEFINE x == toSubmit[q]
           u == fenceValue[q] + 1
<1>1. executed' = executed \union {x}
  BY DEF ExecutePayload
<1>2. \A y : QueueOf(y)' = QueueOf(y)
  BY DEF QueueOf
<1>3. completionValue \in [AnyPayload -> Nat] /\ fenceValue \in [Queue -> Nat]
  BY DEF TypeInv, TypeOK, ResultTypeOK
<1>4. CASE ~ HasLists(x)
  <2>1. ops' = ops /\ fenceValue' = fenceValue
        /\ \A y \in AnyPayload :
                y # x => completionValue'[y] = completionValue[y]
    BY <1>3, <1>4, ExecuteLog DEF TypeInv
  <2>2. ExecutesSignal'
    BY <1>1, <1>2, <2>1, LogFacts, OpFacts DEF LogInv, ExecutesSignal
  <2>3. SignalsRise' /\ FenceBehind'
    BY <2>1 DEF LogInv, SignalsRise, FenceBehind
  <2> QED
    BY <2>2, <2>3 DEF LogInv
<1>5. CASE HasLists(x)
  <2>1. /\ fenceValue' = [fenceValue EXCEPT ![q] = u]
        /\ completionValue' = [completionValue EXCEPT ![x] = u]
        /\ Len(ops'[q]) = Len(ops[q]) + 2
        /\ ops'[q][Len(ops[q]) + 1] = ExecuteOp(x)
        /\ ops'[q][Len(ops[q]) + 2] = SignalOp(u)
        /\ \A r \in Queue : r # q => ops'[r] = ops[r]
        /\ \A i \in 1..Len(ops[q]) : ops'[q][i] = ops[q][i]
    BY <1>5, ExecuteLog DEF TypeInv
  <2>2. u \in Nat /\ u > fenceValue[q] /\ Len(ops[q]) \in Nat
    BY LogFacts
  <2>3. \A r \in Queue : fenceValue'[r] = IF r = q THEN u ELSE fenceValue[r]
    BY <1>3, <2>1
  <2>4. \A y \in AnyPayload :
            completionValue'[y] = IF y = x THEN u ELSE completionValue[y]
    BY <1>3, <2>1
  <2>x. x \notin executed /\ QueueOf(x) = q
    OBVIOUS
  <2> HIDE DEF x, u
  <2>5. ExecutesSignal'
    <3>1. ASSUME NEW r \in Queue, NEW i \in 1..Len(ops'[r]),
                 ops'[r][i].kind = "execute"
          PROVE  /\ ops'[r][i].payload \in executed'
                 /\ QueueOf(ops[r][i].payload)' = r
                 /\ i + 1 \in 1..Len(ops'[r])
                 /\ ops'[r][i + 1].kind = "signal"
                 /\ ops'[r][i + 1].value
                        <= completionValue'[ops'[r][i].payload]
      <4>1. CASE i \in 1..Len(ops[r])
        <5>1. /\ ops[r][i] \in Op
              /\ ops'[r][i] = ops[r][i]
          BY <2>1, <4>1, LogFacts
        <5>2. /\ ops[r][i].payload \in AnyPayload
              /\ ops[r][i].payload \in executed
              /\ QueueOf(ops[r][i].payload) = r
              /\ i + 1 \in 1..Len(ops[r])
              /\ ops[r][i + 1].kind = "signal"
              /\ ops[r][i + 1].value <= completionValue[ops[r][i].payload]
          BY <3>1, <4>1, <5>1, OpFacts DEF LogInv, ExecutesSignal
        <5>3. completionValue'[ops[r][i].payload]
                = completionValue[ops[r][i].payload]
          BY <2>4, <2>x, <5>2
        <5>4. ops'[r][i + 1] = ops[r][i + 1] /\ i + 1 \in 1..Len(ops'[r])
          <6>1. CASE r = q
            BY <2>1, <2>2, <5>2, <6>1
          <6>2. CASE r # q
            BY <2>1, <5>2, <6>2
          <6> QED
            BY <6>1, <6>2
        <5>5. QueueOf(ops[r][i].payload)' = r
          BY <5>1, <5>2 DEF QueueOf
        <5> QED
          BY <1>1, <5>1, <5>2, <5>3, <5>4, <5>5
      <4>2. CASE i \notin 1..Len(ops[r])
        <5>1. r = q /\ i \in {Len(ops[q]) + 1, Len(ops[q]) + 2}
          BY <2>1, <2>2, <4>2
        <5>2. i # Len(ops[q]) + 2
          BY <2>1, <3>1, <5>1 DEF SignalOp
        <5>n. /\ i = Len(ops[q]) + 1 /\ i + 1 = Len(ops[q]) + 2
              /\ i + 1 \in 1..(Len(ops[q]) + 2)
          BY <2>2, <5>1, <5>2
        <5>3. ops'[r][i] = ExecuteOp(x) /\ ops'[r][i + 1] = SignalOp(u)
              /\ i + 1 \in 1..Len(ops'[r])
          BY <2>1, <5>1, <5>n
        <5>4. /\ ops'[r][i].payload = x
              /\ ops'[r][i + 1].kind = "signal"
              /\ ops'[r][i + 1].value = u
          BY <5>3 DEF ExecuteOp, SignalOp
        <5>5. completionValue'[x] = u
          BY <2>4 DEF x
        <5>6. QueueOf(ops[r][i].payload)' = r
          BY <2>x, <5>1, <5>4 DEF QueueOf
        <5> QED
          BY <1>1, <2>2, <5>3, <5>4, <5>5, <5>6
      <4> QED
        BY <4>1, <4>2
    <3> QED
      BY <3>1 DEF ExecutesSignal, QueueOf
  <2>6. FenceBehind'
    BY <2>2, <2>3, LogFacts DEF LogInv, FenceBehind
  <2>7. SignalsRise'
    <3>1. ASSUME NEW r \in Queue, NEW i \in 1..Len(ops'[r]),
                 ops'[r][i].kind = "signal"
          PROVE  /\ ops'[r][i].value <= fenceValue'[r]
                 /\ ops'[r][i].value <= completedValue[r] => i <= gpuDone[r]
                 /\ \A j \in 1..Len(ops'[r]) :
                        ops'[r][j].kind = "signal" /\ i < j =>
                            ops'[r][i].value < ops'[r][j].value
      <4>1. CASE r # q
        BY <2>1, <2>3, <3>1, <4>1 DEF LogInv, SignalsRise
      <4>2. CASE r = q /\ i \in 1..Len(ops[q])
        <5>1. ops'[q][i] = ops[q][i] /\ ops[q][i].value \in Nat
          BY <2>1, <3>1, <4>2, LogFacts, OpFacts
        <5>2. /\ ops[q][i].value <= fenceValue[q]
              /\ ops[q][i].value <= completedValue[q] => i <= gpuDone[q]
          BY <3>1, <4>2, <5>1 DEF LogInv, SignalsRise
        <5>3. ops[q][i].value < u
          BY <2>2, <5>1, <5>2, LogFacts
        <5>4. ASSUME NEW j \in 1..Len(ops'[q]),
                     ops'[q][j].kind = "signal", i < j
              PROVE  ops[q][i].value < ops'[q][j].value
          <6>1. CASE j \in 1..Len(ops[q])
            BY <2>1, <3>1, <4>2, <5>1, <5>4, <6>1 DEF LogInv, SignalsRise
          <6>2. CASE j \notin 1..Len(ops[q])
            <7>1. j \in {Len(ops[q]) + 1, Len(ops[q]) + 2}
              BY <2>1, <2>2, <6>2
            <7>2. j # Len(ops[q]) + 1
              BY <2>1, <5>4 DEF ExecuteOp
            <7>3. ops'[q][j].value = u
              BY <2>1, <7>1, <7>2 DEF SignalOp
            <7> QED
              BY <5>3, <7>3
          <6> QED
            BY <6>1, <6>2
        <5> QED
          BY <2>2, <2>3, <4>2, <5>1, <5>2, <5>3, <5>4, LogFacts
      <4>3. CASE r = q /\ i \notin 1..Len(ops[q])
        <5>1. i \in {Len(ops[q]) + 1, Len(ops[q]) + 2}
          BY <2>1, <2>2, <4>3
        <5>2. i = Len(ops[q]) + 2
          BY <2>1, <3>1, <4>3, <5>1 DEF ExecuteOp
        <5>3. ops'[q][i].value = u
          BY <2>1, <5>2 DEF SignalOp
        <5>4. u > completedValue[q]
          BY <2>2, LogFacts DEF LogInv, FenceBehind
        <5> QED
          BY <2>1, <2>2, <2>3, <4>3, <5>2, <5>3, <5>4, LogFacts
      <4> QED
        BY <4>1, <4>2, <4>3
    <3> QED
      BY <3>1 DEF SignalsRise
  <2> QED
    BY <2>5, <2>6, <2>7 DEF LogInv
<1> QED
  BY <1>4, <1>5

(***************************************************************************)
(* The other steps that touch the log or the GPU's progress in it.         *)
(***************************************************************************)
LEMMA LogFlushFenceWait ==
    ASSUME TypeInv, LogInv, ReleaseAfterWork, FlushFenceWait
    PROVE  LogInv' /\ ReleaseAfterWork'
<1> DEFINE q == Current
           o == WaitOp(Head(fencesToAwait[q]),
                       nextAwait[q][Head(fencesToAwait[q])])
<1>1. UNCHANGED <<program, work, executed, completionValue, fenceValue,
                  gpuDone, completedValue, released>>
  BY DEF FlushFenceWait, engineVars, resultVars, gpuVars, interruptVars
<1>2. CASE ops' = ops
  BY <1>1, <1>2, LogUnchanged, ReleaseUnchanged
<1>3. CASE ops' = [ops EXCEPT ![q] = Append(@, o)]
  <2>1. q \in Queue /\ o \in Op /\ o.kind = "wait"
    <3>1. q \in Queue /\ Head(fencesToAwait[q]) \in Queue
      BY CurrentFacts DEF TypeInv, TypeOK, AwaitTypeOK, FlushFenceWait
    <3>2. nextAwait[q][Head(fencesToAwait[q])] \in Nat
      BY <3>1 DEF TypeInv, TypeOK, AwaitTypeOK
    <3> QED
      BY <3>1, <3>2, OpTypes DEF WaitOp
  <2> HIDE DEF q, o
  <2>2. /\ ops' = [ops EXCEPT ![q] = Append(ops[q], o)]
        /\ \A r \in Queue : r # q => ops'[r] = ops[r]
        /\ ops'[q] = Append(ops[q], o)
    BY <1>3, <2>1 DEF TypeInv, TypeOK, GpuTypeOK
  <2>3. /\ Len(ops'[q]) = Len(ops[q]) + 1
        /\ \A i \in 1..Len(ops[q]) : ops'[q][i] = ops[q][i]
        /\ ops'[q][Len(ops[q]) + 1] = o
    BY <2>1, <2>2, LogFacts, AppendProperties
  <2>4. \A r \in Queue : \A i \in 1..Len(ops'[r]) :
            \/ i \in 1..Len(ops[r]) /\ ops'[r][i] = ops[r][i]
            \/ ops'[r][i] = o
    BY <2>1, <2>2, <2>3, LogFacts
  <2>5. \A r \in Queue : \A i \in 1..Len(ops[r]) :
            i \in 1..Len(ops'[r]) /\ ops'[r][i] = ops[r][i]
    BY <2>1, <2>2, <2>3, LogFacts
  <2>6. ExecutesSignal'
    <3>1. ASSUME NEW r \in Queue, NEW i \in 1..Len(ops'[r]),
                 ops'[r][i].kind = "execute"
          PROVE  /\ ops'[r][i].payload \in executed
                 /\ QueueOf(ops[r][i].payload)' = r
                 /\ i + 1 \in 1..Len(ops'[r])
                 /\ ops'[r][i + 1].kind = "signal"
                 /\ ops'[r][i + 1].value
                        <= completionValue[ops'[r][i].payload]
      <4>1. i \in 1..Len(ops[r]) /\ ops'[r][i] = ops[r][i]
        BY <2>1, <2>4, <3>1
      <4>2. /\ ops[r][i].payload \in executed
            /\ QueueOf(ops[r][i].payload) = r
            /\ i + 1 \in 1..Len(ops[r])
            /\ ops[r][i + 1].kind = "signal"
            /\ ops[r][i + 1].value <= completionValue[ops[r][i].payload]
        BY <3>1, <4>1 DEF LogInv, ExecutesSignal
      <4>3. i + 1 \in 1..Len(ops'[r]) /\ ops'[r][i + 1] = ops[r][i + 1]
        BY <2>5, <4>2
      <4>4. QueueOf(ops[r][i].payload)' = r
        BY <1>1, <4>1, <4>2 DEF QueueOf
      <4> QED
        BY <4>1, <4>2, <4>3, <4>4
    <3> QED
      BY <1>1, <3>1 DEF ExecutesSignal
  <2>7. SignalsRise' /\ FenceBehind'
    BY <1>1, <2>1, <2>4 DEF LogInv, SignalsRise, FenceBehind
  <2>8. ReleaseAfterWork'
    BY <1>1, <2>1, <2>4 DEF ReleaseAfterWork, Finished, ExecuteOp
  <2> QED
    BY <2>6, <2>7, <2>8 DEF LogInv
<1> QED
  BY <1>2, <1>3 DEF FlushFenceWait

LEMMA LogGpuWork ==
    ASSUME TypeInv, LogInv, ReleaseAfterWork, NEW q \in Queue,
           gpuDone' = [gpuDone EXCEPT ![q] = @ + 1],
           UNCHANGED <<program, work, ops, executed, completionValue,
                       fenceValue, completedValue, released>>
    PROVE  LogInv' /\ ReleaseAfterWork'
<1>1. \A r \in Queue : gpuDone[r] \in Nat /\ gpuDone'[r] >= gpuDone[r]
                       /\ gpuDone'[r] \in Nat
  BY DEF TypeInv, TypeOK, GpuTypeOK
<1>2. ExecutesSignal' /\ FenceBehind'
  <2>1. \A y : QueueOf(y)' = QueueOf(y)
    BY DEF QueueOf
  <2>2. ExecutesSignal'
    BY <2>1 DEF LogInv, ExecutesSignal
  <2>3. FenceBehind'
    BY DEF LogInv, FenceBehind
  <2> QED
    BY <2>2, <2>3
<1>3. SignalsRise'
  BY <1>1 DEF LogInv, SignalsRise
<1>4. ReleaseAfterWork'
  BY <1>1 DEF ReleaseAfterWork, Finished
<1> QED
  BY <1>2, <1>3, <1>4 DEF LogInv

LEMMA LogGpuSignal ==
    ASSUME TypeInv, LogInv, ReleaseAfterWork, NEW q \in Queue, GpuSignal(q)
    PROVE  LogInv' /\ ReleaseAfterWork'
<1> DEFINE n == gpuDone[q] + 1
           v == ops[q][n].value
<1>1. /\ n \in 1..Len(ops[q])
      /\ ops[q][n].kind = "signal"
      /\ v \in Nat /\ v <= fenceValue[q]
  BY LogFacts, OpFacts DEF GpuSignal, GpuReady, NextOp, LogInv, SignalsRise
<1>2. /\ gpuDone' = [gpuDone EXCEPT ![q] = n]
      /\ completedValue' = [completedValue EXCEPT ![q] = v]
      /\ UNCHANGED <<program, work, ops, executed, completionValue, fenceValue,
                     released>>
  BY DEF GpuSignal, NextOp, engineVars, resultVars, interruptVars
<1> HIDE DEF v
<1>3. \A r \in Queue :
        /\ gpuDone[r] \in Nat
        /\ gpuDone'[r] = IF r = q THEN n ELSE gpuDone[r]
        /\ completedValue'[r] = IF r = q THEN v ELSE completedValue[r]
  BY <1>2 DEF TypeInv, TypeOK, GpuTypeOK
<1>4. ExecutesSignal' /\ FenceBehind'
  <2>1. \A y : QueueOf(y)' = QueueOf(y)
    BY <1>2 DEF QueueOf
  <2>2. ExecutesSignal'
    BY <1>2, <2>1 DEF LogInv, ExecutesSignal
  <2>3. FenceBehind'
    BY <1>1, <1>2, <1>3 DEF LogInv, FenceBehind
  <2> QED
    BY <2>2, <2>3
<1>5. SignalsRise'
  <2>1. ASSUME NEW i \in 1..Len(ops[q]), ops[q][i].kind = "signal",
               ops[q][i].value <= v
        PROVE  i <= n
    <3>1. n < i => v < ops[q][i].value
      BY <1>1, <2>1 DEF LogInv, SignalsRise, v
    <3>2. ops[q][i].value \in Nat
      BY <2>1, LogFacts, OpFacts
    <3>3. ~ n < i
      BY <1>1, <2>1, <3>1, <3>2
    <3>4. i \in Nat /\ n \in Nat
      BY <1>1
    <3> QED
      BY <3>3, <3>4
  <2> QED
    BY <1>2, <1>3, <2>1 DEF LogInv, SignalsRise
<1>6. ReleaseAfterWork'
  BY <1>2, <1>3 DEF ReleaseAfterWork, Finished
<1> QED
  BY <1>4, <1>5, <1>6 DEF LogInv

(***************************************************************************)
(* What is executed now was not executed before, so it is not released.    *)
(***************************************************************************)
LEMMA ReleaseExecute ==
    ASSUME TypeInv, ReleaseAfterWork, NEW q \in Queue,
           toSubmit[q] \in AnyPayload, toSubmit[q] \notin executed,
           ExecutePayload(q), UNCHANGED <<gpuDone, released>>
    PROVE  ReleaseAfterWork'
<1> DEFINE x == toSubmit[q]
<1>1. executed' = executed \union {x}
  BY DEF ExecutePayload
<1>2. \A r \in Queue : \A i \in 1..Len(ops'[r]) :
        \/ i \in 1..Len(ops[r]) /\ ops'[r][i] = ops[r][i]
        \/ ops'[r][i] = ExecuteOp(x)
        \/ ops'[r][i] = SignalOp(fenceValue[q] + 1)
  <2>1. CASE ~ HasLists(x)
    BY <2>1, ExecuteLog DEF TypeInv
  <2>2. CASE HasLists(x)
    <3>1. /\ Len(ops'[q]) = Len(ops[q]) + 2
          /\ ops'[q][Len(ops[q]) + 1] = ExecuteOp(x)
          /\ ops'[q][Len(ops[q]) + 2] = SignalOp(fenceValue[q] + 1)
          /\ \A r \in Queue : r # q => ops'[r] = ops[r]
          /\ \A i \in 1..Len(ops[q]) : ops'[q][i] = ops[q][i]
      BY <2>2, ExecuteLog DEF TypeInv
    <3>2. Len(ops[q]) \in Nat
      BY LogFacts
    <3>3. ASSUME NEW i \in 1..Len(ops'[q])
          PROVE  \/ i \in 1..Len(ops[q])
                 \/ i = Len(ops[q]) + 1
                 \/ i = Len(ops[q]) + 2
      BY <3>1, <3>2
    <3> QED
      BY <3>1, <3>3
  <2> QED
    BY <2>1, <2>2
<1>3. \A y \in released : y \in executed /\ y # x
  BY DEF ReleaseAfterWork, Finished
<1> HIDE DEF x
<1> QED
  BY <1>1, <1>2, <1>3 DEF ReleaseAfterWork, Finished, ExecuteOp, SignalOp

-----------------------------------------------------------------------------
(* Each payload is submitted once.                                         *)

LEMMA BatchFacts ==
    ASSUME TypeInv, NEW t \in EngineThread
    PROVE  /\ program[t] \in Seq(Payload)
           /\ Len(program[t]) \in Nat
           /\ batch[t] \in Seq(Payload)
           /\ Len(batch[t]) \in Nat
           /\ nextPayload[t] \in Nat \ {0}
BY ProgramFacts DEF TypeInv, TypeOK, EngineTypeOK

LEMMA BatchUnchanged ==
    ASSUME BatchInv, UNCHANGED <<program, nextPayload, batch>>,
           \A t \in EngineThread :
            epc'[t] # "submit" => epc[t] # "submit" \/ batch[t] = <<>>
    PROVE  BatchInv'
BY DEF BatchInv, Flushed

LEMMA OnceUnchanged ==
    ASSUME OnceInv, UNCHANGED <<program, nextPayload, batch, pendingSubmission,
                                executed, toSubmit>>
    PROVE  OnceInv'
BY DEF OnceInv, Submitted, Flushed

LEMMA OnceFlushCommands ==
    ASSUME TypeInv, BatchInv, OnceInv, NEW t \in EngineThread,
           FlushCommands(t)
    PROVE  /\ BatchInv' /\ OnceInv'
           /\ \A p : Submitted(p) => Submitted(p)'
<1>1. PICK n \in nextPayload[t]..Len(program[t]) :
        /\ batch' = [batch EXCEPT ![t] =
                        SubSeq(program[t], nextPayload[t], n)]
        /\ nextPayload' = [nextPayload EXCEPT ![t] = n + 1]
  BY DEF FlushCommands
<1> DEFINE b == SubSeq(program[t], nextPayload[t], n)
<1>2. /\ n \in Nat /\ nextPayload[t] \in Nat \ {0} /\ nextPayload[t] <= n
      /\ n <= Len(program[t])
      /\ epc[t] = "record" /\ batch[t] = <<>>
      /\ epc' = [epc EXCEPT ![t] = "submit"]
      /\ UNCHANGED <<program, pendingSubmission, executed, toSubmit>>
  BY BatchFacts
     DEF FlushCommands, BatchInv, submitVars, resultVars
<1>3. /\ Len(b) = n - nextPayload[t] + 1
      /\ \A i \in 1..Len(b) : b[i] = program[t][nextPayload[t] + i - 1]
  <2>1. program[t] \in Seq(Payload)
    BY BatchFacts
  <2> QED
    BY <1>2, <2>1, SubSeqProperties
<1>4. /\ \A u \in EngineThread : u # t =>
            /\ batch'[u] = batch[u]
            /\ nextPayload'[u] = nextPayload[u]
            /\ epc'[u] = epc[u]
      /\ batch'[t] = b /\ nextPayload'[t] = n + 1 /\ epc'[t] = "submit"
  BY <1>1, <1>2 DEF TypeInv, TypeOK, EngineTypeOK
<1> HIDE DEF b
<1>5. \A u \in EngineThread : Flushed(u)' = Flushed(u)
  <2>1. Flushed(t)' = Flushed(t)
    BY <1>2, <1>3, <1>4 DEF Flushed
  <2>2. ASSUME NEW u \in EngineThread, u # t PROVE Flushed(u)' = Flushed(u)
    BY <1>4, <2>2 DEF Flushed
  <2> QED
    BY <2>1, <2>2
<1>6. BatchInv'
  <2>1. \A i \in 1..Len(b) : b[i] = program[t][Flushed(t) + i]
    <3>1. Flushed(t) = nextPayload[t] - 1
      BY <1>2 DEF Flushed
    <3>2. \A i \in 1..Len(b) :
            nextPayload[t] + i - 1 = nextPayload[t] - 1 + i
      BY <1>2, <1>3
    <3> QED
      BY <1>3, <3>1, <3>2
  <2>2. ASSUME NEW u \in EngineThread
        PROVE  /\ epc'[u] # "submit" => batch'[u] = <<>>
               /\ Len(batch'[u]) < nextPayload'[u]
               /\ nextPayload'[u] <= Len(program[u]) + 1
               /\ \A i \in 1..Len(batch'[u]) :
                    batch'[u][i] = program[u][Flushed(u)' + i]
    <3>1. CASE u = t
      <4>1. \A i \in 1..Len(b) : b[i] = program[t][Flushed(t)' + i]
        BY <1>5, <2>1
      <4>2. /\ epc'[t] = "submit"
            /\ Len(batch'[t]) < nextPayload'[t]
            /\ nextPayload'[t] <= Len(program[t]) + 1
        BY <1>2, <1>3, <1>4, BatchFacts
      <4> QED
        BY <1>4, <3>1, <4>1, <4>2
    <3>2. CASE u # t
      BY <1>4, <1>5, <3>2 DEF BatchInv
    <3> QED
      BY <3>1, <3>2
  <2> QED
    BY <1>2, <2>2 DEF BatchInv
<1>7. \A p : Submitted(p) => Submitted(p)'
  BY <1>2, <1>5 DEF Submitted
<1>8. OnceInv'
  BY <1>2, <1>7 DEF OnceInv
<1> QED
  BY <1>6, <1>7, <1>8

LEMMA OnceEnqueuePayload ==
    ASSUME TypeInv, BatchInv, OnceInv, NEW t \in EngineThread,
           EnqueuePayload(t)
    PROVE  /\ BatchInv' /\ OnceInv'
           /\ ~ Submitted(Head(batch[t]))
           /\ \A p : Submitted(p) => Submitted(p)'
<1> DEFINE b == batch[t]
<1>h. PICK h \in Payload : h = Head(b)
  BY DEF EnqueuePayload, TypeInv, TypeOK, EngineTypeOK
<1> DEFINE q == work[h].queue
<1>1. /\ epc[t] = "submit" /\ b # <<>>
      /\ pendingSubmission' = [pendingSubmission EXCEPT ![q] = Append(@, h)]
      /\ batch' = [batch EXCEPT ![t] = Tail(b)]
      /\ UNCHANGED <<program, epc, nextPayload, executed, toSubmit>>
  BY <1>h DEF EnqueuePayload, submitVars, resultVars, TypeInv, TypeOK,
     EngineTypeOK
<1>2. /\ b \in Seq(Payload) /\ Len(b) \in Nat /\ Len(b) > 0
      /\ h = b[1] /\ h \in Payload
      /\ Len(Tail(b)) = Len(b) - 1
      /\ \A i \in 1..Len(Tail(b)) : Tail(b)[i] = b[i + 1]
  BY <1>h, <1>1, BatchFacts, HeadTailProperties
<1>3. /\ Len(b) < nextPayload[t] /\ nextPayload[t] <= Len(program[t]) + 1
      /\ nextPayload[t] \in Nat /\ Len(program[t]) \in Nat
      /\ \A i \in 1..Len(b) : b[i] = program[t][Flushed(t) + i]
  BY BatchFacts DEF BatchInv
<1>4. /\ \A u \in EngineThread : u # t => batch'[u] = batch[u]
      /\ batch'[t] = Tail(b)
  BY <1>1 DEF TypeInv, TypeOK, EngineTypeOK
<1>5. q \in Queue
  BY <1>2, WorkFacts DEF Contents, TypeInv, TypeOK
<1> HIDE DEF b, q
<1>6. /\ Flushed(t) \in Nat /\ Flushed(t) + 1 \in 1..Len(program[t])
      /\ Flushed(t)' = Flushed(t) + 1
      /\ \A u \in EngineThread : u # t => Flushed(u)' = Flushed(u)
  <2>1. Flushed(t) = nextPayload[t] - Len(b) - 1
    BY DEF Flushed, b
  <2>2. Flushed(t)' = nextPayload[t] - Len(Tail(b)) - 1
    BY <1>1, <1>4 DEF Flushed
  <2>3. \A u \in EngineThread : u # t => Flushed(u)' = Flushed(u)
    BY <1>1, <1>4 DEF Flushed
  <2> QED
    <3>1. /\ Flushed(t) \in Nat
          /\ Flushed(t) + 1 \in 1..Len(program[t])
      <4>1. /\ Len(b) \in Nat \ {0} /\ nextPayload[t] \in Nat
            /\ Len(program[t]) \in Nat
            /\ Len(b) < nextPayload[t]
            /\ nextPayload[t] <= Len(program[t]) + 1
        BY <1>2, <1>3
      <4> QED
        BY <2>1, <4>1
    <3>2. Flushed(t)' = Flushed(t) + 1
      BY <1>2, <1>3, <2>1, <2>2
    <3> QED
      BY <2>3, <3>1, <3>2
<1>7. h = program[t][Flushed(t) + 1]
  BY <1>2, <1>3
<1>8. BatchInv'
  <2>1. ASSUME NEW u \in EngineThread
        PROVE  /\ epc'[u] # "submit" => batch'[u] = <<>>
               /\ Len(batch'[u]) < nextPayload'[u]
               /\ nextPayload'[u] <= Len(program[u]) + 1
               /\ \A i \in 1..Len(batch'[u]) :
                    batch'[u][i] = program[u][Flushed(u)' + i]
    <3>1. CASE u = t
      <4>1. ASSUME NEW i \in 1..Len(Tail(b))
            PROVE  Tail(b)[i] = program[t][Flushed(t) + 1 + i]
        <5>1. i + 1 \in 1..Len(b) /\ Flushed(t) + (i + 1) = Flushed(t) + 1 + i
          BY <1>2, <1>6
        <5> QED
          BY <1>2, <1>3, <5>1
      <4>2. batch'[t] = Tail(b) /\ Flushed(t)' = Flushed(t) + 1
            /\ Len(Tail(b)) < nextPayload'[t]
            /\ nextPayload'[t] <= Len(program[t]) + 1
            /\ epc'[t] = "submit"
        BY <1>1, <1>2, <1>3, <1>4, <1>6
      <4> QED
        BY <3>1, <4>1, <4>2
    <3>2. CASE u # t
      BY <1>1, <1>4, <1>6, <3>2 DEF BatchInv
    <3> QED
      BY <3>1, <3>2
  <2> QED
    BY <1>1, <2>1 DEF BatchInv
<1>9. ~ Submitted(h)
  <2>1. SUFFICES ASSUME NEW u \in EngineThread, NEW i \in 1..Flushed(u),
                        i <= Len(program[u]), program[u][i] = h
                 PROVE  FALSE
    BY DEF Submitted
  <2>2. i \in 1..Len(program[u])
    BY <2>1, BatchFacts
  <2>3. u = t /\ i = Flushed(t) + 1
    BY <1>6, <1>7, <2>1, <2>2, ProgramFacts
     DEF TypeInv, TypeOK
  <2> QED
    BY <1>6, <2>3
<1>10. /\ \A p : Submitted(p) => Submitted(p)'
       /\ Submitted(h)'
  <2>1. \A u \in EngineThread : \A i \in 1..Flushed(u) : i \in 1..Flushed(u)'
    <3>1. ASSUME NEW u \in EngineThread, NEW i \in 1..Flushed(u)
          PROVE  i \in 1..Flushed(u)'
      BY <1>6, <3>1
    <3> QED
      BY <3>1
  <2>2. /\ Flushed(t) + 1 \in 1..Flushed(t)'
        /\ Flushed(t) + 1 <= Len(program[t])
    BY <1>6, BatchFacts
  <2>3. \A p : Submitted(p) => Submitted(p)'
    BY <1>1, <2>1 DEF Submitted
  <2> QED
    BY <1>1, <1>6, <1>7, <2>1, <2>2, <2>3 DEF Submitted
<1>11. /\ Recorded(h) \notin executed
       /\ Barrier(h) \notin executed
       /\ \A r \in Queue : toSubmit[r] # NoPayload => toSubmit[r][1] # h
       /\ \A r \in Queue : \A i \in 1..Len(pendingSubmission[r]) :
            pendingSubmission[r][i] # h
  BY <1>9 DEF OnceInv, Recorded, Barrier
<1>12. /\ \A r \in Queue : r # q =>
            pendingSubmission'[r] = pendingSubmission[r]
       /\ Len(pendingSubmission[q]) \in Nat
       /\ Len(pendingSubmission'[q]) = Len(pendingSubmission[q]) + 1
       /\ \A i \in 1..Len(pendingSubmission[q]) :
            pendingSubmission'[q][i] = pendingSubmission[q][i]
       /\ pendingSubmission'[q][Len(pendingSubmission[q]) + 1] = h
  <2>1. /\ pendingSubmission \in [Queue -> Seq(Payload)]
        /\ pendingSubmission[q] \in Seq(Payload)
    BY <1>5 DEF TypeInv, TypeOK, PendingTypeOK
  <2>2. /\ pendingSubmission'[q] = Append(pendingSubmission[q], h)
        /\ \A r \in Queue : r # q =>
             pendingSubmission'[r] = pendingSubmission[r]
    BY <1>1, <1>5, <2>1
  <2> QED
    BY <1>2, <2>1, <2>2, AppendProperties
<1>13. OnceInv'
  <2>1. ASSUME NEW r \in Queue, NEW i \in 1..Len(pendingSubmission'[r])
        PROVE  /\ Submitted(pendingSubmission[r][i])'
               /\ Recorded(pendingSubmission'[r][i]) \notin executed
               /\ Barrier(pendingSubmission'[r][i]) \notin executed
               /\ \A s \in Queue : toSubmit[s] # NoPayload =>
                    toSubmit[s][1] # pendingSubmission'[r][i]
               /\ \A j \in 1..Len(pendingSubmission'[r]) :
                    pendingSubmission'[r][j] = pendingSubmission'[r][i]
                    => j = i
    <3>1. CASE r # q
      BY <1>10, <1>12, <3>1 DEF OnceInv
    <3>2. CASE r = q /\ i \in 1..Len(pendingSubmission[q])
      <4>1. \A j \in 1..Len(pendingSubmission'[q]) :
                \/ j \in 1..Len(pendingSubmission[q])
                \/ pendingSubmission'[q][j] = h
        BY <1>12
      <4> QED
        BY <1>10, <1>11, <1>12, <3>2, <4>1 DEF OnceInv
    <3>3. CASE r = q /\ i \notin 1..Len(pendingSubmission[q])
      <4>1. i = Len(pendingSubmission[q]) + 1 /\ pendingSubmission'[r][i] = h
        BY <1>12, <3>3
      <4>2. \A j \in 1..Len(pendingSubmission'[q]) :
                \/ j \in 1..Len(pendingSubmission[q])
                \/ j = Len(pendingSubmission[q]) + 1
        BY <1>12
      <4>3. Submitted(pendingSubmission[r][i])'
        BY <1>10, <4>1 DEF Submitted
      <4>4. \A j \in 1..Len(pendingSubmission'[q]) :
                pendingSubmission'[q][j] = h => j = i
        <5>1. \A j \in 1..Len(pendingSubmission[q]) :
                pendingSubmission'[q][j] # h
          BY <1>5, <1>11, <1>12
        <5> QED
          BY <4>1, <4>2, <5>1
      <4> QED
        BY <1>11, <3>3, <4>1, <4>3, <4>4
    <3> QED
      BY <3>1, <3>2, <3>3
  <2> QED
    BY <1>1, <1>10, <2>1 DEF OnceInv
<1> QED
  BY <1>h, <1>8, <1>9, <1>10, <1>13 DEF b

LEMMA OnceTakePayload ==
    ASSUME TypeInv, OnceInv, HandedInv, TakePayload
    PROVE  OnceInv' /\ HandedInv'
<1> DEFINE q == Current
           g == GraphicsQueue[q]
<1>1. PICK p \in Payload :
        /\ p = Front
        /\ work[p].queue = q
        /\ p = pendingSubmission[q][1]
        /\ 1 \in 1..Len(pendingSubmission[q])
        /\ \A i \in 1..Len(Tail(pendingSubmission[q])) :
            Tail(pendingSubmission[q])[i] = pendingSubmission[q][i + 1]
  BY FrontFacts DEF TakePayload
<1>2. /\ q \in Queue /\ g \in Queue
      /\ work[p].barrier => g # q
  BY <1>1, CurrentFacts, WorkFacts DEF TypeInv, TypeOK, WellFormed
<1>3. /\ spc = "visit"
      /\ pendingSubmission' = [pendingSubmission EXCEPT
                                  ![q] = Tail(pendingSubmission[q])]
      /\ toSubmit' = IF work[p].barrier
                     THEN [toSubmit EXCEPT ![q] = Recorded(p),
                                           ![g] = Barrier(p)]
                     ELSE [toSubmit EXCEPT ![q] = Recorded(p)]
      /\ handDown' = IF work[p].barrier
                     THEN Append(Append(handDown, Recorded(p)), Barrier(p))
                     ELSE Append(handDown, Recorded(p))
      /\ UNCHANGED <<program, work, nextPayload, batch, executed,
                     pendingInterrupt, released>>
  BY <1>1 DEF TakePayload, engineVars, resultVars, interruptVars
<1>4. /\ \A r \in Queue : toSubmit[r] = NoPayload
      /\ toSubmit \in [Queue -> AnyPayload \union {NoPayload}]
      /\ handDown \in Seq(AnyPayload)
      /\ pendingSubmission \in [Queue -> Seq(Payload)]
  BY <1>3 DEF TypeInv, TypeOK, SubmitInv, SubmitTypeOK, PendingTypeOK
<1>5. /\ Recorded(p) \in AnyPayload /\ Recorded(p)[1] = p
      /\ Barrier(p) \in AnyPayload /\ Barrier(p)[1] = p
  BY DEF Recorded, Barrier, AnyPayload
<1> HIDE DEF q, g
<1>6. /\ toSubmit'[q] = Recorded(p)
      /\ work[p].barrier => toSubmit'[g] = Barrier(p)
      /\ \A r \in Queue : \/ toSubmit'[r] = NoPayload
                          \/ toSubmit'[r] = Recorded(p)
                          \/ toSubmit'[r] = Barrier(p)
  <2>1. CASE work[p].barrier
    BY <1>2, <1>3, <1>4, <2>1
  <2>2. CASE ~ work[p].barrier
    BY <1>2, <1>3, <1>4, <2>2
  <2> QED
    BY <2>1, <2>2
<1>7. /\ Submitted(p)
      /\ Recorded(p) \notin executed
      /\ Barrier(p) \notin executed
  BY <1>1, <1>2 DEF OnceInv
<1>8. \A r : Submitted(r)' = Submitted(r)
  BY <1>3 DEF Submitted, Flushed
<1>9. \A r \in Queue : \A i \in 1..Len(pendingSubmission'[r]) :
        \E k \in 1..Len(pendingSubmission[r]) :
            /\ pendingSubmission'[r][i] = pendingSubmission[r][k]
            /\ r = q => k = i + 1
            /\ r # q => k = i
  <2>1. /\ pendingSubmission'[q] = Tail(pendingSubmission[q])
        /\ \A r \in Queue : r # q =>
             pendingSubmission'[r] = pendingSubmission[r]
    BY <1>2, <1>3, <1>4
  <2>2. Len(Tail(pendingSubmission[q])) = Len(pendingSubmission[q]) - 1
        /\ Len(pendingSubmission[q]) \in Nat
    BY <1>1, <1>2, <1>4, HeadTailProperties
  <2>3. \A i \in 1..Len(Tail(pendingSubmission[q])) :
            i + 1 \in 1..Len(pendingSubmission[q])
    BY <2>2
  <2>4. ASSUME NEW r \in Queue, NEW i \in 1..Len(pendingSubmission'[r])
        PROVE  \E k \in 1..Len(pendingSubmission[r]) :
                /\ pendingSubmission'[r][i] = pendingSubmission[r][k]
                /\ r = q => k = i + 1
                /\ r # q => k = i
    <3>1. CASE r = q
      <4>1. /\ i \in 1..Len(Tail(pendingSubmission[q]))
            /\ i + 1 \in 1..Len(pendingSubmission[q])
        BY <2>1, <2>3, <3>1
      <4>2. pendingSubmission'[r][i] = pendingSubmission[r][i + 1]
        BY <1>1, <2>1, <3>1, <4>1
      <4> QED
        BY <3>1, <4>1, <4>2
    <3>2. CASE r # q
      BY <2>1, <3>2
    <3> QED
      BY <3>1, <3>2
  <2> QED
    BY <2>4
<1>10. OnceInv'
  <2>1. ASSUME NEW r \in Queue, NEW i \in 1..Len(pendingSubmission'[r])
        PROVE  /\ Submitted(pendingSubmission[r][i])'
               /\ Recorded(pendingSubmission'[r][i]) \notin executed
               /\ Barrier(pendingSubmission'[r][i]) \notin executed
               /\ pendingSubmission'[r][i] # p
               /\ \A j \in 1..Len(pendingSubmission'[r]) :
                    pendingSubmission'[r][j] = pendingSubmission'[r][i]
                    => j = i
    <3>1. PICK k \in 1..Len(pendingSubmission[r]) :
            /\ pendingSubmission'[r][i] = pendingSubmission[r][k]
            /\ r = q => k = i + 1
            /\ r # q => k = i
      BY <1>9
    <3>2. /\ Submitted(pendingSubmission[r][k])
          /\ Recorded(pendingSubmission[r][k]) \notin executed
          /\ Barrier(pendingSubmission[r][k]) \notin executed
          /\ \A j \in 1..Len(pendingSubmission[r]) :
                pendingSubmission[r][j] = pendingSubmission[r][k] => j = k
      BY DEF OnceInv
    <3>3. pendingSubmission[r][k] # p
      <4>1. CASE r = q
        BY <1>1, <3>1, <3>2, <4>1
      <4>2. CASE r # q
        BY <1>1, <1>2, <4>2 DEF TypeInv, SubmitInv
      <4> QED
        BY <4>1, <4>2
    <3>4. ASSUME NEW j \in 1..Len(pendingSubmission'[r]),
                 pendingSubmission'[r][j] = pendingSubmission'[r][i]
          PROVE  j = i
      BY <1>9, <3>1, <3>2, <3>4
    <3>5. Submitted(pendingSubmission[r][i])'
      BY <1>3, <3>1, <3>2 DEF Submitted, Flushed
    <3> QED
      BY <3>1, <3>2, <3>3, <3>4, <3>5
  <2>2. ASSUME NEW r \in Queue, toSubmit'[r] # NoPayload
        PROVE  /\ toSubmit'[r][1] = p
               /\ toSubmit'[r] \notin executed
               /\ Submitted(toSubmit[r][1])'
    <3>1. toSubmit'[r][1] = p /\ toSubmit'[r] \notin executed
      BY <1>5, <1>6, <1>7, <2>2
    <3>2. Submitted(p)'
      BY <1>7, <1>8
    <3>3. Submitted(toSubmit[r][1])'
      BY <3>1, <3>2 DEF Submitted
    <3> QED
      BY <3>1, <3>3
  <2>3. \A x \in executed : Submitted(x[1])'
    BY <1>8 DEF OnceInv
  <2>4. executed' = executed
    BY <1>3
  <2>5. ASSUME NEW r \in Queue, NEW i \in 1..Len(pendingSubmission'[r]),
               NEW s \in Queue, toSubmit'[s] # NoPayload
        PROVE  toSubmit'[s][1] # pendingSubmission'[r][i]
    BY <2>1, <2>2, <2>5
  <2>6. ASSUME NEW r \in Queue, toSubmit'[r] # NoPayload
        PROVE  Submitted(toSubmit[r][1])' /\ toSubmit'[r] \notin executed'
    BY <2>2, <2>4, <2>6
  <2>7. \A x \in executed' : Submitted(x[1])'
    BY <2>3, <2>4
  <2> QED
    BY <2>1, <2>4, <2>5, <2>6, <2>7 DEF OnceInv
<1>11. HandedInv'
  <2>1. \A i \in 1..Len(handDown') :
            \/ i \in 1..Len(handDown) /\ handDown'[i] = handDown[i]
            \/ handDown'[i] = Recorded(p)
            \/ work[p].barrier /\ handDown'[i] = Barrier(p)
    <3>1. CASE ~ work[p].barrier
      BY <1>3, <1>4, <1>5, <3>1, AppendProperties
    <3>2. CASE work[p].barrier
      <4> DEFINE one == Append(handDown, Recorded(p))
      <4>1. /\ one \in Seq(AnyPayload)
            /\ \A i \in 1..Len(one) :
                \/ i \in 1..Len(handDown) /\ one[i] = handDown[i]
                \/ one[i] = Recorded(p)
        BY <1>4, <1>5, AppendProperties
      <4>2. handDown' = Append(one, Barrier(p))
        BY <1>3, <3>2
      <4> HIDE DEF one
      <4>3. \A i \in 1..Len(handDown') :
                \/ i \in 1..Len(one) /\ handDown'[i] = one[i]
                \/ handDown'[i] = Barrier(p)
        BY <1>5, <4>1, <4>2, AppendProperties
      <4> QED
        BY <3>2, <4>1, <4>3
    <3> QED
      BY <3>1, <3>2
  <2>2. \A i \in 1..Len(handDown) : handDown[i] \in executed
    <3>1. ASSUME NEW i \in 1..Len(handDown) PROVE handDown[i] # NoPayload
      BY <1>4, <3>1, WorkloadAssumption DEF AnyPayload
    <3> QED
      BY <1>4, <3>1 DEF HandedInv
  <2>3. \A i \in 1..Len(handDown') :
            \/ handDown'[i] \in executed
            \/ \E r \in Queue : toSubmit'[r] = handDown'[i]
    BY <1>2, <1>6, <2>1, <2>2
  <2>4. \A r \in Queue : \A i \in 1..Len(pendingInterrupt[r]) :
            /\ pendingInterrupt[r][i] \in executed
            /\ QueueOf(pendingInterrupt[r][i])' = r
    BY <1>3 DEF HandedInv, QueueOf
  <2> QED
    BY <1>3, <2>3, <2>4 DEF HandedInv
<1> QED
  BY <1>10, <1>11

LEMMA ExecuteSafe ==
    ASSUME TypeInv, BatchInv, OnceInv, LogInv, HandedInv, ReleaseAfterWork,
           NEW q \in Queue, toSubmit[q] \in AnyPayload,
           QueueOf(toSubmit[q]) = q, ExecutePayload(q),
           \A r \in Queue : toSubmit[r] = toSubmit[q] => r = q,
           UNCHANGED <<program, work, epc, nextPayload, batch,
                       pendingSubmission, handDown, pendingInterrupt,
                       released, gpuDone, completedValue>>
    PROVE  SafeInv'
<1> DEFINE x == toSubmit[q]
<1>1. /\ executed' = executed \union {x}
      /\ toSubmit' = [toSubmit EXCEPT ![q] = NoPayload]
      /\ toSubmit \in [Queue -> AnyPayload \union {NoPayload}]
  BY DEF ExecutePayload, TypeInv, TypeOK, SubmitTypeOK
<1>2. /\ x # NoPayload /\ x \notin executed
      /\ Submitted(x[1])
  BY WorkloadAssumption DEF AnyPayload, OnceInv
<1>3. BatchInv'
  BY BatchUnchanged
<1>4. LogInv'
  BY <1>2, ExecuteLogInv
<1>5. ReleaseAfterWork'
  BY <1>2, ReleaseExecute
<1>6. /\ toSubmit'[q] = NoPayload
      /\ \A r \in Queue : r # q => toSubmit'[r] = toSubmit[r]
  BY <1>1
<1>7. \A p : Submitted(p)' = Submitted(p)
  BY DEF Submitted, Flushed
<1>8. OnceInv'
  <2>1. ASSUME NEW r \in Queue, NEW i \in 1..Len(pendingSubmission[r])
        PROVE  /\ Submitted(pendingSubmission[r][i])'
               /\ Recorded(pendingSubmission[r][i]) \notin executed'
               /\ Barrier(pendingSubmission[r][i]) \notin executed'
               /\ \A s \in Queue : toSubmit'[s] # NoPayload =>
                    toSubmit'[s][1] # pendingSubmission[r][i]
               /\ \A j \in 1..Len(pendingSubmission[r]) :
                    pendingSubmission[r][j] = pendingSubmission[r][i] => j = i
    <3>1. x[1] # pendingSubmission[r][i]
      BY <1>2 DEF OnceInv
    <3>2. /\ Recorded(pendingSubmission[r][i]) # x
          /\ Barrier(pendingSubmission[r][i]) # x
      BY <3>1 DEF Recorded, Barrier
    <3>3. Submitted(pendingSubmission[r][i])
      BY DEF OnceInv
    <3>4. Submitted(pendingSubmission[r][i])'
      BY <3>3 DEF Submitted, Flushed
    <3> QED
      BY <1>1, <1>6, <3>2, <3>4 DEF OnceInv
  <2>2. ASSUME NEW r \in Queue, toSubmit'[r] # NoPayload
        PROVE  Submitted(toSubmit[r][1])' /\ toSubmit'[r] \notin executed'
    <3>1. r # q /\ toSubmit'[r] = toSubmit[r] /\ toSubmit[r] # x
      BY <1>6, <2>2
    <3>2. Submitted(toSubmit[r][1]) /\ toSubmit[r] \notin executed
      BY <2>2, <3>1 DEF OnceInv
    <3>3. Submitted(toSubmit[r][1])'
      BY <3>1, <3>2 DEF Submitted, Flushed
    <3> QED
      BY <1>1, <3>1, <3>2, <3>3
  <2>3. \A y \in executed' : Submitted(y[1])'
    <3>1. \A y \in executed \union {x} : Submitted(y[1])
      BY <1>2 DEF OnceInv
    <3> QED
      BY <1>1, <1>7, <3>1
  <2> QED
    BY <2>1, <2>2, <2>3 DEF OnceInv
<1>9. HandedInv'
  <2>1. \A i \in 1..Len(handDown) :
            \/ handDown[i] \in executed'
            \/ \E r \in Queue : toSubmit'[r] = handDown[i]
    BY <1>1, <1>6 DEF HandedInv
  <2> QED
    BY <1>1, <2>1 DEF HandedInv, QueueOf
<1> QED
  BY <1>3, <1>4, <1>5, <1>8, <1>9 DEF SafeInv

LEMMA HandedUnchanged ==
    ASSUME HandedInv, UNCHANGED <<program, work, handDown, executed, toSubmit,
                                  pendingInterrupt, released>>
    PROVE  HandedInv'
BY DEF HandedInv, QueueOf

LEMMA SafeHandDown ==
    ASSUME TypeInv, HandedInv, HandDown
    PROVE  HandedInv'
<1>1. /\ \A r \in Queue : toSubmit[r] = NoPayload
      /\ handDown \in Seq(AnyPayload) /\ handDown # <<>>
      /\ pendingInterrupt \in [Queue -> Seq(AnyPayload)]
  BY DEF HandDown, TypeInv, TypeOK, SubmitInv, SubmitTypeOK, PendingTypeOK
<1>2. PICK x \in AnyPayload : x = Head(handDown)
  BY <1>1
<1> DEFINE q == QueueOf(x)
<1>3. q \in Queue
  BY <1>2, PayloadFacts DEF TypeInv, TypeOK
<1>4. /\ pendingInterrupt' = [pendingInterrupt EXCEPT ![q] = Append(@, x)]
      /\ handDown' = Tail(handDown)
      /\ UNCHANGED <<program, work, executed, toSubmit, released>>
  BY <1>2 DEF HandDown, engineVars, resultVars, interruptVars
<1>5. \A i \in 1..Len(handDown) : handDown[i] \in executed
  <2>1. ASSUME NEW i \in 1..Len(handDown) PROVE handDown[i] # NoPayload
    BY <1>1, <2>1, WorkloadAssumption DEF AnyPayload
  <2> QED
    BY <1>1, <2>1 DEF HandedInv
<1>6. /\ x \in executed
      /\ \A i \in 1..Len(handDown') : handDown'[i] \in executed
  <2>1. x = handDown[1] /\ 1 \in 1..Len(handDown)
    BY <1>1, <1>2
  <2>2. /\ Len(Tail(handDown)) = Len(handDown) - 1 /\ Len(handDown) \in Nat
        /\ \A i \in 1..Len(Tail(handDown)) :
            Tail(handDown)[i] = handDown[i + 1]
    BY <1>1, HeadTailProperties
  <2>3. \A i \in 1..Len(Tail(handDown)) : i + 1 \in 1..Len(handDown)
    BY <2>2
  <2> QED
    BY <1>4, <1>5, <2>1, <2>2, <2>3
<1> HIDE DEF q
<1>7. ASSUME NEW r \in Queue, NEW i \in 1..Len(pendingInterrupt'[r])
      PROVE  /\ pendingInterrupt'[r][i] \in executed
             /\ QueueOf(pendingInterrupt[r][i])' = r
  <2>1. \/ /\ i \in 1..Len(pendingInterrupt[r])
           /\ pendingInterrupt'[r][i] = pendingInterrupt[r][i]
        \/ r = q /\ pendingInterrupt'[r][i] = x
    <3>1. CASE r # q
      BY <1>1, <1>4, <3>1
    <3>2. CASE r = q
      <4>1. pendingInterrupt'[q] = Append(pendingInterrupt[q], x)
        BY <1>1, <1>3, <1>4
      <4>2. pendingInterrupt[q] \in Seq(AnyPayload)
        BY <1>1, <1>3
      <4> QED
        BY <3>2, <4>1, <4>2, AppendProperties
    <3> QED
      BY <3>1, <3>2
  <2>2. CASE pendingInterrupt'[r][i] = pendingInterrupt[r][i]
             /\ i \in 1..Len(pendingInterrupt[r])
    BY <1>4, <2>2 DEF HandedInv, QueueOf
  <2>3. CASE r = q /\ pendingInterrupt'[r][i] = x
    <3>1. QueueOf(x) = r
      BY <2>3 DEF q
    <3>2. QueueOf(pendingInterrupt[r][i])' = r
      BY <1>4, <2>3, <3>1 DEF QueueOf
    <3> QED
      BY <1>6, <2>3, <3>2
  <2> QED
    BY <2>1, <2>2, <2>3
<1> QED
  BY <1>4, <1>6, <1>7 DEF HandedInv

(***************************************************************************)
(* Once the fence has passed a payload's completion value the GPU has      *)
(* carried out the signal after its command lists, and so those.           *)
(***************************************************************************)
LEMMA PassedFinished ==
    ASSUME TypeInv, LogInv, NEW x \in executed, NEW q \in Queue,
           QueueOf(x) = q, completionValue[x] <= completedValue[q]
    PROVE  Finished(x)
<1>1. x \in AnyPayload
  BY DEF TypeInv, TypeOK, ResultTypeOK
<1>2. ASSUME NEW r \in Queue, NEW i \in 1..Len(ops[r]),
             ops[r][i] = ExecuteOp(x)
      PROVE  i <= gpuDone[r]
  <2>1. /\ r = q
        /\ i + 1 \in 1..Len(ops[q])
        /\ ops[q][i + 1].kind = "signal"
        /\ ops[q][i + 1].value <= completionValue[x]
    BY <1>2 DEF LogInv, ExecutesSignal, ExecuteOp
  <2>2. ops[q][i + 1].value \in Nat /\ completionValue[x] \in Nat
        /\ completedValue[q] \in Nat
    BY <1>1, <2>1, LogFacts, OpFacts DEF TypeInv, TypeOK, ResultTypeOK
  <2>3. i + 1 <= gpuDone[q]
    BY <2>1, <2>2 DEF LogInv, SignalsRise
  <2> QED
    BY <2>1, <2>3, LogFacts
<1> QED
  BY <1>2 DEF Finished

LEMMA SafeCompletePayload ==
    ASSUME TypeInv, LogInv, HandedInv, ReleaseAfterWork, CompletePayload
    PROVE  HandedInv' /\ ReleaseAfterWork'
<1> DEFINE q == Visited
           x == AwaitedPayload
<1>1. /\ q \in Queue /\ pendingInterrupt[q] # <<>>
      /\ pendingInterrupt \in [Queue -> Seq(AnyPayload)]
      /\ x \in AnyPayload
      /\ completedValue[q] >= completionValue[x]
  BY VisitedFacts, AwaitedFacts
     DEF CompletePayload, Passed, TypeInv, TypeOK, PendingTypeOK
<1>2. /\ pendingInterrupt' = [pendingInterrupt EXCEPT ![q] = Tail(@)]
      /\ released' = released \union {x}
      /\ UNCHANGED <<program, work, handDown, executed, toSubmit, ops,
                     gpuDone>>
  BY DEF CompletePayload, engineVars, submitVars, resultVars, gpuVars
<1>3. /\ x = pendingInterrupt[q][1] /\ 1 \in 1..Len(pendingInterrupt[q])
      /\ Len(Tail(pendingInterrupt[q])) = Len(pendingInterrupt[q]) - 1
      /\ Len(pendingInterrupt[q]) \in Nat
      /\ \A i \in 1..Len(Tail(pendingInterrupt[q])) :
            Tail(pendingInterrupt[q])[i] = pendingInterrupt[q][i + 1]
  BY <1>1, HeadTailProperties DEF AwaitedPayload
<1>4. x \in executed /\ QueueOf(x) = q
  BY <1>1, <1>3 DEF HandedInv
<1> HIDE DEF q, x
<1>5. Finished(x)
  <2>1. completionValue[x] <= completedValue[q]
    BY <1>1, LogFacts DEF TypeInv, TypeOK, ResultTypeOK
  <2> QED
    BY <1>1, <1>4, <2>1, PassedFinished
<1>6. ReleaseAfterWork'
  BY <1>2, <1>5 DEF ReleaseAfterWork, Finished
<1>7. HandedInv'
  <2>1. ASSUME NEW r \in Queue, NEW i \in 1..Len(pendingInterrupt'[r])
        PROVE  /\ pendingInterrupt'[r][i] \in executed
               /\ QueueOf(pendingInterrupt[r][i])' = r
    <3>1. \E j \in 1..Len(pendingInterrupt[r]) :
            pendingInterrupt'[r][i] = pendingInterrupt[r][j]
      <4>1. CASE r # q
        BY <1>1, <1>2, <4>1
      <4>2. CASE r = q
        <5>1. pendingInterrupt'[q] = Tail(pendingInterrupt[q])
          BY <1>1, <1>2
        <5>2. i + 1 \in 1..Len(pendingInterrupt[q])
          BY <1>3, <4>2, <5>1
        <5>3. pendingInterrupt'[r][i] = pendingInterrupt[r][i + 1]
          BY <1>3, <4>2, <5>1
        <5> QED
          BY <4>2, <5>2, <5>3
      <4> QED
        BY <4>1, <4>2
    <3>2. \A j \in 1..Len(pendingInterrupt[r]) :
            /\ pendingInterrupt[r][j] \in executed
            /\ QueueOf(pendingInterrupt[r][j]) = r
      BY DEF HandedInv
    <3>3. executed' = executed /\ \A y : QueueOf(y)' = QueueOf(y)
      BY <1>2 DEF QueueOf
    <3>4. QueueOf(pendingInterrupt'[r][i]) = r
      BY <3>1, <3>2
    <3>5. QueueOf(pendingInterrupt[r][i])' = r
      BY <3>3, <3>4
    <3> QED
      BY <3>1, <3>2, <3>5
  <2> QED
    BY <1>2, <2>1 DEF HandedInv
<1> QED
  BY <1>6, <1>7

-----------------------------------------------------------------------------
(* The invariant as a whole.                                               *)

LEMMA SafeInit == Init => SafeInv
<1> SUFFICES ASSUME Init PROVE SafeInv
  OBVIOUS
<1>1. BatchInv
  BY ProgramFacts DEF Init, BatchInv
<1>2. OnceInv
  BY DEF Init, OnceInv
<1>3. LogInv
  BY DEF Init, LogInv, ExecutesSignal, SignalsRise, FenceBehind
<1>4. HandedInv /\ ReleaseAfterWork
  BY DEF Init, HandedInv, ReleaseAfterWork
<1> QED
  BY <1>1, <1>2, <1>3, <1>4 DEF SafeInv

LEMMA SafeUnchanged ==
    ASSUME SafeInv,
           UNCHANGED <<program, work, nextPayload, batch, pendingSubmission,
                       toSubmit, handDown, resultVars, pendingInterrupt,
                       released, ops, gpuDone, completedValue>>,
           \A t \in EngineThread :
            epc'[t] # "submit" => epc[t] # "submit" \/ batch[t] = <<>>
    PROVE  SafeInv'
BY BatchUnchanged, OnceUnchanged, LogUnchanged, HandedUnchanged,
   ReleaseUnchanged DEF SafeInv, resultVars

LEMMA SafeEngine ==
    ASSUME TypeInv, SafeInv, NEW t \in EngineThread, Engine(t)
    PROVE  SafeInv'
<1> USE DEF SafeInv
<1>1. CASE FlushCommands(t)
  <2>1. BatchInv' /\ OnceInv'
    BY <1>1, OnceFlushCommands
  <2>2. LogInv' /\ HandedInv' /\ ReleaseAfterWork'
    BY <1>1, LogUnchanged, HandedUnchanged, ReleaseUnchanged
       DEF FlushCommands, submitVars, resultVars, interruptVars, gpuVars
  <2> QED
    BY <2>1, <2>2
<1>2. CASE EnqueuePayload(t)
  <2>1. BatchInv' /\ OnceInv'
    BY <1>2, OnceEnqueuePayload
  <2>2. LogInv' /\ HandedInv' /\ ReleaseAfterWork'
    BY <1>2, LogUnchanged, HandedUnchanged, ReleaseUnchanged
       DEF EnqueuePayload, submitVars, resultVars, interruptVars, gpuVars
  <2> QED
    BY <2>1, <2>2
<1>3. CASE KickSubmission(t) \/ FlushReturns(t)
  <2>1. \A u \in EngineThread :
            epc'[u] # "submit" => epc[u] # "submit" \/ batch[u] = <<>>
    BY <1>3 DEF KickSubmission, FlushReturns, TypeInv, TypeOK, EngineTypeOK
  <2>2. UNCHANGED <<program, work, nextPayload, batch, pendingSubmission,
                    toSubmit, handDown, resultVars, pendingInterrupt,
                    released, ops, gpuDone, completedValue>>
    BY <1>3 DEF KickSubmission, FlushReturns, submitVars, interruptVars,
       gpuVars
  <2> HIDE DEF SafeInv
  <2> QED
    BY <2>1, <2>2, SafeUnchanged
<1> QED
  BY <1>1, <1>2, <1>3 DEF Engine

LEMMA SafeExecuteBarrier ==
    ASSUME TypeInv, SafeInv, ExecuteBarrier
    PROVE  SafeInv'
<1> DEFINE g == GraphicsQueue[Current]
<1>1. PICK p \in Payload :
        /\ toSubmit[Current] = Recorded(p)
        /\ work[p].queue = Current
        /\ work[p].barrier
        /\ toSubmit[g] = Barrier(p)
  BY DEF TypeInv, SubmitInv, ExecuteBarrier
<1>2. /\ Current \in Queue /\ g \in Queue /\ g # Current
      /\ toSubmit[g] \in AnyPayload
      /\ QueueOf(toSubmit[g]) = g
  BY <1>1, CurrentFacts, WorkFacts, PayloadFacts
     DEF TypeInv, TypeOK, WellFormed, QueueOf, Barrier
<1>3. \A r \in Queue : toSubmit[r] = toSubmit[g] => r = g
  <2>1. Recorded(p) # Barrier(p)
    BY DEF Recorded, Barrier
  <2>2. Barrier(p) # NoPayload
    BY WorkloadAssumption DEF Barrier
  <2> QED
    BY <1>1, <2>1, <2>2 DEF TypeInv, SubmitInv
<1>4. /\ ExecutePayload(g)
      /\ UNCHANGED <<program, work, epc, nextPayload, batch, pendingSubmission,
                     handDown, pendingInterrupt, released,
                     gpuDone, completedValue>>
  BY DEF ExecuteBarrier, engineVars, interruptVars, gpuVars
<1> HIDE DEF g
<1> QED
  BY <1>2, <1>3, <1>4, ExecuteSafe DEF SafeInv

LEMMA SafeExecuteCurrent ==
    ASSUME TypeInv, SafeInv, ExecuteCurrent
    PROVE  SafeInv'
<1>1. PICK p \in Payload :
        toSubmit[Current] = Recorded(p) /\ work[p].queue = Current
  BY DEF TypeInv, SubmitInv, ExecuteCurrent
<1>2. /\ Current \in Queue
      /\ toSubmit[Current] \in AnyPayload
      /\ QueueOf(toSubmit[Current]) = Current
  BY <1>1, CurrentFacts, PayloadFacts
     DEF TypeInv, TypeOK, QueueOf, Recorded
<1>3. \A r \in Queue : toSubmit[r] = toSubmit[Current] => r = Current
  <2>1. Recorded(p) # NoPayload
    BY WorkloadAssumption DEF Recorded
  <2> QED
    BY <1>1, <2>1 DEF TypeInv, SubmitInv, ExecuteCurrent
<1>4. /\ ExecutePayload(Current)
      /\ UNCHANGED <<program, work, epc, nextPayload, batch, pendingSubmission,
                     handDown, pendingInterrupt, released,
                     gpuDone, completedValue>>
  BY DEF ExecuteCurrent, engineVars, interruptVars, gpuVars
<1> QED
  BY <1>2, <1>3, <1>4, ExecuteSafe DEF SafeInv

LEMMA SafeSubmissionThread ==
    ASSUME TypeInv, SafeInv, SubmissionThread
    PROVE  SafeInv'
<1>1. CASE SkipEmpty \/ AccumulateWait \/ SkipUnresolved \/ EndPass
           \/ WakeSubmission
  <2>1. UNCHANGED <<engineVars, pendingSubmission, toSubmit, handDown,
                    resultVars, pendingInterrupt, interruptVars, ops,
                    gpuVars>>
    BY <1>1 DEF SkipEmpty, AccumulateWait, SkipUnresolved, EndPass,
       WakeSubmission
  <2> QED
    BY <2>1, SafeUnchanged DEF engineVars, interruptVars, gpuVars
<1>2. CASE TakePayload
  <2>1. OnceInv' /\ HandedInv'
    BY <1>2, OnceTakePayload DEF SafeInv
  <2>2. BatchInv' /\ LogInv' /\ ReleaseAfterWork'
    BY <1>2, BatchUnchanged, LogUnchanged, ReleaseUnchanged
       DEF SafeInv, TakePayload, engineVars, resultVars, interruptVars,
           gpuVars
  <2> QED
    BY <2>1, <2>2 DEF SafeInv
<1>3. CASE ExecuteBarrier
  BY <1>3, SafeExecuteBarrier
<1>4. CASE ExecuteCurrent
  BY <1>4, SafeExecuteCurrent
<1>5. CASE FlushFenceWait
  <2>1. LogInv' /\ ReleaseAfterWork'
    BY <1>5, LogFlushFenceWait DEF SafeInv
  <2>2. BatchInv' /\ OnceInv' /\ HandedInv'
    BY <1>5, BatchUnchanged, OnceUnchanged, HandedUnchanged
       DEF SafeInv, FlushFenceWait, engineVars, submitVars, resultVars,
           interruptVars
  <2> QED
    BY <2>1, <2>2 DEF SafeInv
<1>6. CASE HandDown
  <2>1. HandedInv'
    BY <1>6, SafeHandDown DEF SafeInv
  <2>2. BatchInv' /\ OnceInv' /\ LogInv' /\ ReleaseAfterWork'
    BY <1>6, BatchUnchanged, OnceUnchanged, LogUnchanged, ReleaseUnchanged
       DEF SafeInv, HandDown, engineVars, resultVars, interruptVars, gpuVars
  <2> QED
    BY <2>1, <2>2 DEF SafeInv
<1> QED
  BY <1>1, <1>2, <1>3, <1>4, <1>5, <1>6 DEF SubmissionThread

LEMMA SafeInterruptThread ==
    ASSUME TypeInv, SafeInv, InterruptThread
    PROVE  SafeInv'
<1>1. CASE SkipIdle \/ AlreadyAwaited \/ FindIncomplete \/ AwaitCompletion
           \/ WakeInterrupt
  <2>1. UNCHANGED <<engineVars, pendingSubmission, submitVars, resultVars,
                    pendingInterrupt, released, ops, gpuDone,
                    completedValue>>
    BY <1>1 DEF SkipIdle, AlreadyAwaited, FindIncomplete, AwaitCompletion,
       WakeInterrupt, gpuVars
  <2> QED
    BY <2>1, SafeUnchanged DEF engineVars, submitVars
<1>2. CASE CompletePayload
  <2>1. HandedInv' /\ ReleaseAfterWork'
    BY <1>2, SafeCompletePayload DEF SafeInv
  <2>2. BatchInv' /\ OnceInv' /\ LogInv'
    BY <1>2, BatchUnchanged, OnceUnchanged, LogUnchanged
       DEF SafeInv, CompletePayload, engineVars, submitVars, resultVars,
           gpuVars
  <2> QED
    BY <2>1, <2>2 DEF SafeInv
<1> QED
  BY <1>1, <1>2 DEF InterruptThread

LEMMA SafeGpu ==
    ASSUME TypeInv, SafeInv, NEW q \in Queue, Gpu(q)
    PROVE  SafeInv'
<1>1. LogInv' /\ ReleaseAfterWork'
  <2>1. CASE GpuSignal(q)
    BY <2>1, LogGpuSignal DEF SafeInv
  <2>2. CASE GpuWait(q) \/ GpuExecute(q)
    <3>1. /\ gpuDone' = [gpuDone EXCEPT ![q] = @ + 1]
          /\ UNCHANGED <<program, work, ops, executed, completionValue,
                         fenceValue, completedValue, released>>
      BY <2>2 DEF GpuWait, GpuExecute, engineVars, resultVars, interruptVars
    <3> QED
      BY <3>1, LogGpuWork DEF SafeInv
  <2> QED
    BY <2>1, <2>2 DEF Gpu
<1>2. UNCHANGED <<engineVars, pendingSubmission, submitVars, resultVars,
                  pendingInterrupt, interruptVars>>
  BY DEF Gpu, GpuWait, GpuExecute, GpuSignal
<1>3. BatchInv' /\ OnceInv' /\ HandedInv'
  BY <1>2, BatchUnchanged, OnceUnchanged, HandedUnchanged
     DEF SafeInv, engineVars, submitVars, resultVars, interruptVars
<1> QED
  BY <1>1, <1>3 DEF SafeInv

LEMMA SafeNext == TypeInv /\ SafeInv /\ [Next]_vars => SafeInv'
<1> SUFFICES ASSUME TypeInv, SafeInv, [Next]_vars PROVE SafeInv'
  OBVIOUS
<1>1. ASSUME NEW t \in EngineThread, Engine(t) PROVE SafeInv'
  BY <1>1, SafeEngine
<1>2. CASE SubmissionThread
  BY <1>2, SafeSubmissionThread
<1>3. CASE InterruptThread
  BY <1>3, SafeInterruptThread
<1>4. ASSUME NEW q \in Queue, Gpu(q) PROVE SafeInv'
  BY <1>4, SafeGpu
<1>5. CASE UNCHANGED vars
  BY <1>5, SafeUnchanged
     DEF vars, engineVars, submitVars, interruptVars, gpuVars
<1> QED
  BY <1>1, <1>2, <1>3, <1>4, <1>5 DEF Next

LEMMA SafeAlways == Spec => []SafeInv
<1>1. Spec => [](TypeInv /\ SafeInv)
  <2>1. Init => TypeInv /\ SafeInv
    BY TypeInit, SafeInit
  <2>2. (TypeInv /\ SafeInv) /\ [Next]_vars => (TypeInv /\ SafeInv)'
    BY TypeNext, SafeNext
  <2> QED
    BY <2>1, <2>2, PTL DEF Spec
<1> QED
  BY <1>1, PTL

(***************************************************************************)
(* The interrupt thread never deletes a payload, and so never resets a     *)
(* command allocator, whose command lists the GPU may still read: fence    *)
(* values are handed out, signalled and compared in the right order.       *)
(***************************************************************************)
THEOREM ReleaseSafe == Spec => []ReleaseAfterWork
<1>1. SafeInv => ReleaseAfterWork
  BY DEF SafeInv
<1> QED
  BY <1>1, SafeAlways, PTL

-----------------------------------------------------------------------------
(***************************************************************************)
(* What rests on the order of a flush being kept by every stage between    *)
(* FlushCommands and the fence.                                            *)
(*                                                                         *)
(* The allocator a context's command lists were recorded with is attached  *)
(* to one payload of the flush and reset with it, which is late enough for *)
(* its other payloads.  And the GPU executes a payload's command lists     *)
(* only after those of the payloads it waits on: each sync point the       *)
(* submission thread accumulates ends up as a fence wait in the log, in    *)
(* front of the command lists, unless the log already waits for as much.   *)
(*                                                                         *)
(* At the end, the two threads: a queue with work one of them could carry  *)
(* on with keeps it from sleeping.                                         *)
(***************************************************************************)

(***************************************************************************)
(* Payload p has left PendingSubmission, is in it, or was taken from its   *)
(* thread's program by some flush.                                         *)
(***************************************************************************)
Gone(p) ==
    \/ Recorded(p) \in executed
    \/ \E r \in Queue : toSubmit[r] = Recorded(p)

InQueue(p) ==
    \E r \in Queue : \E i \in 1..Len(pendingSubmission[r]) :
        pendingSubmission[r][i] = p

Gathered(p) ==
    \E t \in EngineThread : \E i \in 1..Len(program[t]) :
        i < nextPayload[t] /\ program[t][i] = p

(***************************************************************************)
(* Payload p is not after payload l anywhere on the way to the GPU, and    *)
(* once both were executed its fence value is not larger.                  *)
(***************************************************************************)
OrderExecuted(p, l) ==
    Recorded(l) \in executed =>
        /\ Recorded(p) \in executed
        /\ completionValue[Recorded(p)] <= completionValue[Recorded(l)]

OrderSubmit(p, l) ==
    \A r \in Queue : toSubmit[r] = Recorded(l) =>
        p = l \/ Recorded(p) \in executed

OrderPending(p, l) ==
    \A r \in Queue : \A j \in 1..Len(pendingSubmission[r]) :
        pendingSubmission[r][j] = l =>
            \/ Gone(p)
            \/ \E i \in 1..j : pendingSubmission[r][i] = p

OrderBatch(p, l) ==
    \A t \in EngineThread : \A j \in 1..Len(batch[t]) :
        batch[t][j] = l =>
            \/ Gone(p)
            \/ InQueue(p)
            \/ \E i \in 1..j : batch[t][i] = p

NotAfter(p, l) ==
    /\ work[p].queue = work[l].queue
    /\ Gathered(l)
    /\ OrderExecuted(p, l)
    /\ OrderSubmit(p, l)
    /\ OrderPending(p, l)
    /\ OrderBatch(p, l)

HolderInv ==
    \A p \in Payload : holder[p] # NoPayload =>
        \E l \in Payload : holder[p] = Recorded(l) /\ NotAfter(p, l)

(***************************************************************************)
(* Payloads for one queue keep the order of their thread's program, from   *)
(* one flush to the next, and none is lost on its way to the queue.        *)
(***************************************************************************)
EarlierInv ==
    \A x, p \in Payload : Earlier(x, p) /\ Gathered(p) => NotAfter(x, p)

GoneInv == \A p \in Payload : Submitted(p) => Gone(p) \/ InQueue(p)

OrderInv == HolderInv /\ EarlierInv /\ GoneInv

(***************************************************************************)
(* The fence of a queue was given every value a payload of it waits for,   *)
(* and has passed the values of what was released.                         *)
(***************************************************************************)
ValueInv ==
    \A x \in executed : completionValue[x] <= fenceValue[QueueOf(x)]

PassedInv ==
    \A x \in released :
        /\ x \in executed
        /\ completionValue[x] <= completedValue[QueueOf(x)]

AllocInv == OrderInv /\ ValueInv /\ PassedInv

\* The workload never changes: its variables are one tuple in every step.
USE DEF workload

-----------------------------------------------------------------------------
LEMMA OrderUnchanged ==
    ASSUME NEW p, NEW l, NotAfter(p, l),
           UNCHANGED <<program, work, nextPayload, batch, pendingSubmission,
                       toSubmit, executed, completionValue>>
    PROVE  NotAfter(p, l)'
<1>1. Gone(p)' = Gone(p) /\ InQueue(p)' = InQueue(p)
      /\ Gathered(l)' = Gathered(l)
  BY DEF Gone, InQueue, Gathered
<1>2. OrderExecuted(p, l)' /\ OrderSubmit(p, l)'
  BY DEF NotAfter, OrderExecuted, OrderSubmit
<1>3. OrderPending(p, l)' /\ OrderBatch(p, l)'
  BY <1>1 DEF NotAfter, OrderPending, OrderBatch
<1> QED
  BY <1>1, <1>2, <1>3 DEF NotAfter

LEMMA EarlierKept ==
    ASSUME EarlierInv, UNCHANGED <<program, work, nextPayload>>,
           \A p, l \in Payload : NotAfter(p, l) => NotAfter(p, l)'
    PROVE  EarlierInv'
<1>1. ASSUME NEW x \in Payload, NEW p \in Payload
      PROVE  Earlier(x, p)' = Earlier(x, p) /\ Gathered(p)' = Gathered(p)
  BY DEF Earlier, Gathered
<1> QED
  BY <1>1 DEF EarlierInv

(***************************************************************************)
(* Where no batch and no holder changes, it is enough that every pair      *)
(* keeps its order and that no payload is lost.                            *)
(***************************************************************************)
LEMMA OrderKept ==
    ASSUME OrderInv, UNCHANGED <<program, work, nextPayload, batch, holder>>,
           \A p, l \in Payload : NotAfter(p, l) => NotAfter(p, l)',
           \A p \in Payload :
                Gone(p) \/ InQueue(p) => Gone(p)' \/ InQueue(p)'
    PROVE  OrderInv'
<1>1. HolderInv'
  BY DEF OrderInv, HolderInv
<1>2. EarlierInv'
  BY EarlierKept DEF OrderInv
<1>3. \A p : Submitted(p)' = Submitted(p)
  BY DEF Submitted, Flushed
<1>4. GoneInv'
  BY <1>3 DEF OrderInv, GoneInv
<1> QED
  BY <1>1, <1>2, <1>4 DEF OrderInv

LEMMA OrderInvUnchanged ==
    ASSUME OrderInv,
           UNCHANGED <<program, work, nextPayload, batch, holder,
                       pendingSubmission, toSubmit, executed,
                       completionValue>>
    PROVE  OrderInv'
<1>1. \A p, l \in Payload : NotAfter(p, l) => NotAfter(p, l)'
  BY OrderUnchanged
<1>2. \A p \in Payload : Gone(p)' = Gone(p) /\ InQueue(p)' = InQueue(p)
  BY DEF Gone, InQueue
<1> QED
  BY <1>1, <1>2, OrderKept

LEMMA ValuesUnchanged ==
    ASSUME ValueInv, UNCHANGED <<work, executed, completionValue, fenceValue>>
    PROVE  ValueInv'
<1>1. \A y : QueueOf(y)' = QueueOf(y)
  BY DEF QueueOf
<1> QED
  BY <1>1 DEF ValueInv

LEMMA PassedUnchanged ==
    ASSUME PassedInv, UNCHANGED <<work, executed, completionValue, released,
                                  completedValue>>
    PROVE  PassedInv'
<1>1. \A y : QueueOf(y)' = QueueOf(y)
  BY DEF QueueOf
<1> QED
  BY <1>1 DEF PassedInv

LEMMA AllocUnchanged ==
    ASSUME AllocInv,
           UNCHANGED <<program, work, nextPayload, batch, holder,
                       pendingSubmission, toSubmit, resultVars, released,
                       completedValue>>
    PROVE  AllocInv'
<1>1. UNCHANGED <<executed, completionValue, fenceValue>>
  BY DEF resultVars
<1>2. OrderInv'
  BY <1>1, OrderInvUnchanged DEF AllocInv
<1>3. ValueInv' /\ PassedInv'
  BY <1>1, ValuesUnchanged, PassedUnchanged DEF AllocInv
<1> QED
  BY <1>2, <1>3 DEF AllocInv

(***************************************************************************)
(* A flush: the last payload of the batch releases the allocator of them   *)
(* all, and nothing of the batch is anywhere else yet.                     *)
(***************************************************************************)
LEMMA AllocFlushCommands ==
    ASSUME TypeInv, SafeInv, AllocInv, NEW t \in EngineThread,
           FlushCommands(t)
    PROVE  AllocInv'
<1>1. PICK n \in nextPayload[t]..Len(program[t]) :
        LET b == SubSeq(program[t], nextPayload[t], n) IN
        /\ \A i \in 1..Len(b) : work[b[i]].queue = work[b[1]].queue
        /\ batch' = [batch EXCEPT ![t] = b]
        /\ nextPayload' = [nextPayload EXCEPT ![t] = n + 1]
        /\ holder' = [p \in Payload |->
                         IF \E i \in 1..Len(b) : b[i] = p
                         THEN AllocatorHolder(b) ELSE holder[p]]
  BY DEF FlushCommands
<1> DEFINE m == nextPayload[t]
           b == SubSeq(program[t], m, n)
           last == program[t][n]
<1>2. /\ UNCHANGED <<program, work, pendingSubmission, toSubmit, executed,
                     completionValue, fenceValue, released, completedValue>>
      /\ batch[t] = <<>>
  BY DEF FlushCommands, submitVars, resultVars, interruptVars, gpuVars,
         SafeInv, BatchInv
<1>3. /\ program[t] \in Seq(Payload) /\ Len(program[t]) \in Nat
      /\ m \in 1..Len(program[t]) /\ n \in m..Len(program[t])
      /\ n \in 1..Len(program[t])
  BY BatchFacts
<1>4. /\ Len(b) = n - m + 1
      /\ \A i \in 1..Len(b) : b[i] = program[t][m + i - 1]
      /\ b[Len(b)] = last
  <2>1. /\ Len(b) = n - m + 1
        /\ \A i \in 1..(n - m + 1) : b[i] = program[t][m + i - 1]
        /\ b[n - m + 1] = program[t][n]
    BY <1>3, Slice
  <2> HIDE DEF b, m
  <2> QED
    BY <2>1
<1>5. last \in Payload
  BY <1>3
<1>6. /\ \A u \in EngineThread : u # t =>
            batch'[u] = batch[u] /\ nextPayload'[u] = nextPayload[u]
      /\ batch'[t] = b /\ nextPayload'[t] = n + 1
  BY <1>1 DEF TypeInv, TypeOK, EngineTypeOK
<1>7. /\ \A i \in 1..Len(b) : work[b[i]].queue = work[b[1]].queue
      /\ \A p \in Payload :
            holder'[p] = IF \E i \in 1..Len(b) : b[i] = p
                         THEN Recorded(b[Len(b)]) ELSE holder[p]
  BY <1>1 DEF AllocatorHolder
<1> HIDE DEF b, m, last
\* Where a payload of the program is in it says all about it.
<1>8. \A u \in EngineThread : \A i \in 1..Len(program[u]) :
        \A k \in 1..Len(b) : program[u][i] = b[k] => u = t /\ i = m + k - 1
  <2>1. ASSUME NEW k \in 1..Len(b)
        PROVE  m + k - 1 \in 1..Len(program[t])
    BY <1>3, <1>4, <2>1
  <2>2. ASSUME NEW u \in EngineThread, NEW i \in 1..Len(program[u]),
               NEW k \in 1..Len(b), program[u][i] = b[k]
        PROVE  u = t /\ i = m + k - 1
    <3>1. b[k] = program[t][m + k - 1] /\ m + k - 1 \in 1..Len(program[t])
      BY <1>4, <2>1
    <3>2. EngineTypeOK
      BY DEF TypeInv, TypeOK
    <3> QED
      BY <2>2, <3>1, <3>2, ProgramFacts
  <2> QED
    BY <2>2
<1>9. \A u \in EngineThread : nextPayload'[u] >= nextPayload[u]
  <2>1. \A u \in EngineThread : nextPayload[u] \in Nat
    BY BatchFacts
  <2> QED
    BY <1>3, <1>6, <2>1 DEF m
<1>10. \A y : Gone(y)' = Gone(y) /\ InQueue(y)' = InQueue(y)
  BY <1>2 DEF Gone, InQueue
<1>11. \A k \in 1..Len(b) : ~ Gathered(b[k]) /\ ~ Submitted(b[k])
  <2>1. ASSUME NEW k \in 1..Len(b), Gathered(b[k]) PROVE FALSE
    <3>1. PICK u \in EngineThread : \E i \in 1..Len(program[u]) :
            i < nextPayload[u] /\ program[u][i] = b[k]
      BY <2>1 DEF Gathered
    <3>i. PICK i \in 1..Len(program[u]) :
            i < nextPayload[u] /\ program[u][i] = b[k]
      BY <3>1
    <3>2. u = t /\ i = m + k - 1
      BY <1>8, <3>i
    <3> QED
      BY <1>3, <1>4, <3>i, <3>2 DEF m
  <2>2. ASSUME NEW k \in 1..Len(b), Submitted(b[k]) PROVE FALSE
    <3>1. PICK u \in EngineThread : \E i \in 1..Flushed(u) :
            i <= Len(program[u]) /\ program[u][i] = b[k]
      BY <2>2 DEF Submitted
    <3>i. PICK i \in 1..Flushed(u) :
            i <= Len(program[u]) /\ program[u][i] = b[k]
      BY <3>1
    <3>2. i \in 1..Len(program[u])
      BY <3>i, BatchFacts
    <3>3. u = t /\ i = m + k - 1
      BY <1>8, <3>i, <3>2
    <3>4. Flushed(t) = m - 1
      BY <1>2, <1>3 DEF Flushed, m
    <3> QED
      BY <1>3, <1>4, <3>i, <3>3, <3>4
  <2> QED
    BY <2>1, <2>2
<1>12. ASSUME NEW p \in Payload, NEW l \in Payload, NotAfter(p, l)
       PROVE  NotAfter(p, l)'
  <2>1. Gathered(l)' /\ \A k \in 1..Len(b) : b[k] # l
    <3>1. Gathered(l)
      BY <1>12 DEF NotAfter
    <3>2. Gathered(l)'
      <4>1. PICK u \in EngineThread : \E i \in 1..Len(program[u]) :
              i < nextPayload[u] /\ program[u][i] = l
        BY <3>1 DEF Gathered
      <4>i. PICK i \in 1..Len(program[u]) :
              i < nextPayload[u] /\ program[u][i] = l
        BY <4>1
      <4>2. i < nextPayload'[u]
        BY <1>3, <1>6, <1>9, <4>i, BatchFacts
      <4> QED
        BY <1>2, <4>i, <4>2 DEF Gathered
    <3> QED
      BY <1>11, <3>1, <3>2
  <2>2. OrderExecuted(p, l)' /\ OrderSubmit(p, l)' /\ OrderPending(p, l)'
    BY <1>2, <1>10, <1>12 DEF NotAfter, OrderExecuted, OrderSubmit,
       OrderPending
  <2>3. OrderBatch(p, l)'
    <3>1. \A u \in EngineThread : \A j \in 1..Len(batch'[u]) :
            batch'[u][j] = l => u # t
      BY <1>6, <2>1
    <3> QED
      BY <1>6, <1>10, <1>12, <3>1 DEF NotAfter, OrderBatch
  <2> QED
    BY <1>2, <1>12, <2>1, <2>2, <2>3 DEF NotAfter
\* A payload of the batch is behind what is ahead of it in the batch and
\* what is in its queue or gone.
<1>13. ASSUME NEW p \in Payload, NEW l \in Payload, NEW c \in 1..Len(b),
              b[c] = l, work[p].queue = work[l].queue,
              \/ Gone(p) \/ InQueue(p)
              \/ \E k \in 1..c : b[k] = p
       PROVE  NotAfter(p, l)'
  <2>1. work'[p].queue = work'[l].queue
    BY <1>2, <1>13
  <2>2. /\ m + c - 1 \in 1..Len(program[t])
        /\ m + c - 1 < n + 1
        /\ program[t][m + c - 1] = l
    <3>1. PICK k \in 1..(n - m + 1) : k = c
      BY <1>4, <1>13
    <3>2. PICK lp \in Nat : lp = Len(program[t])
      BY <1>3
    <3>3. /\ k \in Nat /\ m \in Nat /\ n \in Nat
          /\ 1 <= k /\ k <= n - m + 1 /\ 1 <= m /\ n <= lp
      BY <1>3, <3>1, <3>2
    <3>4. m + k - 1 \in 1..lp /\ m + k - 1 < n + 1
      BY <3>3
    <3>5. b[c] = program[t][m + c - 1]
      BY <1>4, <1>13
    <3> QED
      BY <1>13, <3>1, <3>2, <3>4, <3>5
  <2>3. Gathered(l)'
    BY <1>2, <1>6, <2>2 DEF Gathered
  <2>4. ~ Submitted(l)
    BY <1>11, <1>13
  <2>5. /\ OrderExecuted(p, l)'
        /\ OrderSubmit(p, l)'
        /\ OrderPending(p, l)'
    <3>1. Recorded(l) \notin executed
      BY <2>4 DEF SafeInv, OnceInv, Recorded
    <3>2. \A r \in Queue : toSubmit[r] # Recorded(l)
      <4>1. Recorded(l) # NoPayload /\ Recorded(l)[1] = l
        BY WorkloadAssumption DEF Recorded
      <4> QED
        BY <2>4, <4>1 DEF SafeInv, OnceInv
    <3>3. \A r \in Queue : \A j \in 1..Len(pendingSubmission[r]) :
            pendingSubmission[r][j] # l
      BY <2>4 DEF SafeInv, OnceInv
    <3> QED
      BY <1>2, <3>1, <3>2, <3>3
         DEF OrderExecuted, OrderSubmit, OrderPending
  <2>6. OrderBatch(p, l)'
    <3>1. ASSUME NEW u \in EngineThread, NEW j \in 1..Len(batch'[u]),
                 batch'[u][j] = l
          PROVE  \/ Gone(p) \/ InQueue(p)
                 \/ \E i \in 1..j : batch'[u][i] = p
      <4>1. CASE u = t
        <5>1. j \in 1..Len(b) /\ b[j] = l
          BY <1>6, <3>1, <4>1
        <5>2. m + c - 1 = m + j - 1
          BY <1>8, <2>2, <5>1
        <5>3. j = c
          BY <1>3, <1>4, <5>1, <5>2
        <5> QED
          BY <1>6, <1>13, <4>1, <5>3
      <4>2. CASE u # t
        <5>1. batch[u][j] = l /\ j \in 1..Len(batch[u])
          BY <1>6, <3>1, <4>2
        <5>2. batch[u][j] = program[u][Flushed(u) + j]
              /\ Flushed(u) + j \in 1..Len(program[u])
          <6>1. /\ Len(batch[u]) < nextPayload[u]
                /\ nextPayload[u] <= Len(program[u]) + 1
                /\ batch[u][j] = program[u][Flushed(u) + j]
            BY <5>1 DEF SafeInv, BatchInv
          <6>2. /\ Len(batch[u]) \in Nat /\ nextPayload[u] \in Nat
                /\ Len(program[u]) \in Nat /\ j \in Nat
                /\ 1 <= j /\ j <= Len(batch[u])
            BY <5>1, BatchFacts
          <6>3. Flushed(u) + j \in 1..Len(program[u])
            <7> DEFINE lb == Len(batch[u])
                       np == nextPayload[u]
                       lp == Len(program[u])
            <7>1. /\ lb \in Nat /\ np \in Nat /\ lp \in Nat /\ j \in Nat
                  /\ 1 <= j /\ j <= lb /\ lb < np /\ np <= lp + 1
              BY <6>1, <6>2
            <7> HIDE DEF lb, np, lp
            <7>2. np - lb - 1 + j \in 1..lp
              BY <7>1
            <7> QED
              BY <7>2 DEF lb, np, lp, Flushed
          <6> QED
            BY <6>1, <6>3
        <5> QED
          BY <1>8, <1>13, <4>2, <5>1, <5>2
      <4> QED
        BY <4>1, <4>2
    <3> QED
      BY <1>10, <3>1 DEF OrderBatch
  <2> QED
    BY <2>1, <2>3, <2>5, <2>6 DEF NotAfter
<1>14. HolderInv'
  <2>1. ASSUME NEW p \in Payload, holder'[p] # NoPayload
        PROVE  \E l \in Payload : holder'[p] = Recorded(l) /\ NotAfter(p, l)'
    <3>1. CASE \E k \in 1..Len(b) : b[k] = p
      <4>1. PICK l \in Payload : l = last
        BY <1>5
      <4>2. holder'[p] = Recorded(l)
        BY <1>4, <1>7, <3>1, <4>1
      <4>3. NotAfter(p, l)'
        <5>1. PICK k \in 1..Len(b) : b[k] = p
          BY <3>1
        <5>2. /\ Len(b) \in 1..Len(b) /\ k \in 1..Len(b)
              /\ 1 \in 1..Len(b)
          BY <1>3, <1>4
        <5>3. work[p].queue = work[l].queue
          BY <1>4, <1>7, <4>1, <5>1, <5>2
        <5> QED
          BY <1>4, <1>13, <4>1, <5>1, <5>2, <5>3
      <4> QED
        BY <4>2, <4>3
    <3>2. CASE ~ \E k \in 1..Len(b) : b[k] = p
      <4>1. holder'[p] = holder[p]
        BY <1>7, <3>2
      <4> QED
        BY <1>12, <2>1, <4>1 DEF AllocInv, OrderInv, HolderInv
    <3> QED
      BY <3>1, <3>2
  <2> QED
    BY <2>1 DEF HolderInv
<1>15. Flushed(t) = m - 1 /\ \A u \in EngineThread : Flushed(u)' = Flushed(u)
  <2>1. Flushed(t) = m - 1 /\ Flushed(t)' = m - 1
    <3>1. Flushed(t) = m - 1
      BY <1>2, <1>3 DEF Flushed, m
    <3>2. Flushed(t)' = (n + 1) - (n - m + 1) - 1
      BY <1>4, <1>6 DEF Flushed
    <3> QED
      BY <1>3, <3>1, <3>2
  <2>2. ASSUME NEW u \in EngineThread, u # t PROVE Flushed(u)' = Flushed(u)
    BY <1>6, <2>2 DEF Flushed
  <2> QED
    BY <2>1, <2>2
<1>16. EarlierInv'
  <2>1. ASSUME NEW x \in Payload, NEW p \in Payload, Earlier(x, p),
               Gathered(p)', ~ Gathered(p)
        PROVE  NotAfter(x, p)'
    <3>1. PICK u \in EngineThread : \E i \in 1..Len(program[u]) :
            i < nextPayload'[u] /\ program[u][i] = p
      BY <1>2, <2>1 DEF Gathered
    <3>2. PICK i \in 1..Len(program[u]) :
            i < nextPayload'[u] /\ program[u][i] = p
      BY <3>1
    <3>3. ~ i < nextPayload[u]
      BY <2>1, <3>2 DEF Gathered
    <3>4. u = t
      BY <1>6, <3>2, <3>3
    <3>5. m <= i /\ i <= n
      BY <1>3, <1>6, <3>2, <3>3, <3>4 DEF m
    <3>6. PICK c \in 1..Len(b) : c = i - m + 1
      BY <1>3, <1>4, <3>5
    <3>7. b[c] = p
      <4>1. m + c - 1 = i
        BY <1>3, <3>6
      <4> QED
        BY <1>4, <3>2, <3>4, <4>1
    <3>8. PICK v \in EngineThread : \E h, j \in 1..Len(program[v]) :
            h < j /\ program[v][h] = x /\ program[v][j] = p
      BY <2>1 DEF Earlier
    <3>9. PICK h \in 1..Len(program[v]), j \in 1..Len(program[v]) :
            h < j /\ program[v][h] = x /\ program[v][j] = p
      BY <3>8
    <3>10. v = t /\ j = i
      <4>1. v = t /\ j = m + c - 1
        BY <1>8, <3>7, <3>9
      <4> QED
        BY <1>3, <3>6, <4>1
    <3>11. \/ Gone(x) \/ InQueue(x)
           \/ \E k \in 1..c : b[k] = x
      <4>1. CASE h < m
        <5>1. h \in 1..Flushed(t)
          BY <1>3, <1>15, <3>9, <3>10, <4>1
        <5>2. Submitted(x)
          BY <3>9, <3>10, <5>1 DEF Submitted
        <5> QED
          BY <5>2 DEF AllocInv, OrderInv, GoneInv
      <4>2. CASE ~ h < m
        <5>1. /\ h - m + 1 \in 1..c /\ h - m + 1 \in 1..Len(b)
              /\ m + (h - m + 1) - 1 = h
          <6>1. /\ h \in Nat /\ m \in Nat /\ i \in Nat /\ n \in Nat
                /\ m <= h /\ h < i /\ i <= n
            BY <1>3, <3>2, <3>5, <3>9, <3>10, <4>2
          <6>2. c = i - m + 1 /\ Len(b) = n - m + 1
            BY <1>4, <3>6
          <6>3. h - m + 1 \in 1..(i - m + 1) /\ h - m + 1 \in 1..(n - m + 1)
            BY <6>1
          <6>4. m + (h - m + 1) - 1 = h
            BY <6>1
          <6> QED
            BY <6>2, <6>3, <6>4
        <5>2. b[h - m + 1] = x
          BY <1>4, <3>9, <3>10, <5>1
        <5> QED
          BY <5>1, <5>2
      <4> QED
        BY <4>1, <4>2
    <3>12. work[x].queue = work[p].queue
      BY <2>1 DEF Earlier
    <3> QED
      BY <1>13, <3>7, <3>11, <3>12
  <2>2. ASSUME NEW x \in Payload, NEW p \in Payload
        PROVE  Earlier(x, p)' = Earlier(x, p)
    BY <1>2 DEF Earlier
  <2> QED
    BY <1>12, <2>1, <2>2 DEF AllocInv, OrderInv, EarlierInv
<1>17. GoneInv'
  <2>1. \A y \in Payload : Submitted(y)' => Submitted(y)
    BY <1>2, <1>15 DEF Submitted
  <2> QED
    BY <1>10, <2>1 DEF AllocInv, OrderInv, GoneInv
<1>18. ValueInv' /\ PassedInv'
  BY <1>2, ValuesUnchanged, PassedUnchanged DEF AllocInv
<1> QED
  BY <1>14, <1>16, <1>17, <1>18 DEF AllocInv, OrderInv

(***************************************************************************)
(* A payload moves from the front of its batch to the back of its queue:   *)
(* what was not after it in the batch is in its queue or further.            *)
(***************************************************************************)
LEMMA AllocEnqueuePayload ==
    ASSUME TypeInv, SafeInv, AllocInv, NEW t \in EngineThread,
           EnqueuePayload(t)
    PROVE  AllocInv'
<1>h. PICK h \in Payload : h = Head(batch[t])
  BY DEF EnqueuePayload, TypeInv, TypeOK, EngineTypeOK
<1> DEFINE q == work[h].queue
<1>1. /\ batch[t] # <<>>
      /\ pendingSubmission' = [pendingSubmission EXCEPT ![q] = Append(@, h)]
      /\ batch' = [batch EXCEPT ![t] = Tail(batch[t])]
      /\ UNCHANGED <<program, work, nextPayload, holder, executed,
                     completionValue, fenceValue, toSubmit, released,
                     completedValue>>
  BY <1>h DEF EnqueuePayload, submitVars, resultVars, interruptVars, gpuVars,
     TypeInv, TypeOK, EngineTypeOK
<1>2. /\ batch[t] \in Seq(Payload) /\ Len(batch[t]) \in Nat
      /\ h = batch[t][1] /\ 1 \in 1..Len(batch[t])
      /\ Len(Tail(batch[t])) = Len(batch[t]) - 1
      /\ \A i \in 1..Len(Tail(batch[t])) :
            Tail(batch[t])[i] = batch[t][i + 1]
  BY <1>h, <1>1, BatchFacts, HeadTailProperties
<1>3. /\ \A u \in EngineThread : u # t => batch'[u] = batch[u]
      /\ Len(batch'[t]) = Len(batch[t]) - 1
      /\ \A i \in 1..Len(batch'[t]) :
            i + 1 \in 1..Len(batch[t]) /\ batch'[t][i] = batch[t][i + 1]
  <2>1. batch'[t] = Tail(batch[t])
        /\ \A u \in EngineThread : u # t => batch'[u] = batch[u]
    BY <1>1 DEF TypeInv, TypeOK, EngineTypeOK
  <2> QED
    BY <1>2, <2>1
<1>4. q \in Queue
  BY WorkFacts DEF Contents, TypeInv, TypeOK
<1>5. /\ \A r \in Queue : r # q =>
            pendingSubmission'[r] = pendingSubmission[r]
      /\ Len(pendingSubmission[q]) \in Nat
      /\ Len(pendingSubmission'[q]) = Len(pendingSubmission[q]) + 1
      /\ \A i \in 1..Len(pendingSubmission[q]) :
            pendingSubmission'[q][i] = pendingSubmission[q][i]
      /\ pendingSubmission'[q][Len(pendingSubmission[q]) + 1] = h
  <2>1. /\ pendingSubmission \in [Queue -> Seq(Payload)]
        /\ pendingSubmission[q] \in Seq(Payload)
    BY <1>4 DEF TypeInv, TypeOK, PendingTypeOK
  <2>2. /\ pendingSubmission'[q] = Append(pendingSubmission[q], h)
        /\ \A r \in Queue : r # q =>
             pendingSubmission'[r] = pendingSubmission[r]
    BY <1>1, <1>4, <2>1
  <2> QED
    BY <2>1, <2>2, AppendProperties
<1>6. \A y : Gone(y)' = Gone(y) /\ Gathered(y)' = Gathered(y)
  BY <1>1 DEF Gone, Gathered
<1>7. /\ \A y : InQueue(y) => InQueue(y)'
      /\ InQueue(h)'
  <2>1. \A r \in Queue : \A i \in 1..Len(pendingSubmission[r]) :
            /\ i \in 1..Len(pendingSubmission'[r])
            /\ pendingSubmission'[r][i] = pendingSubmission[r][i]
    BY <1>5
  <2>2. Len(pendingSubmission[q]) + 1 \in 1..Len(pendingSubmission'[q])
    BY <1>5
  <2> QED
    BY <1>4, <1>5, <2>1, <2>2 DEF InQueue
<1> HIDE DEF q
<1>8. ASSUME NEW p \in Payload, NEW l \in Payload, NotAfter(p, l)
      PROVE  NotAfter(p, l)'
  <2>1. Gathered(l)' /\ OrderExecuted(p, l)' /\ OrderSubmit(p, l)'
    BY <1>1, <1>6, <1>8 DEF NotAfter, OrderExecuted, OrderSubmit
  <2>2. OrderPending(p, l)'
    <3>1. ASSUME NEW r \in Queue, NEW j \in 1..Len(pendingSubmission'[r]),
                 pendingSubmission'[r][j] = l
          PROVE  \/ Gone(p)
                 \/ \E i \in 1..j : pendingSubmission'[r][i] = p
      <4>1. CASE r # q
        BY <1>5, <1>8, <3>1, <4>1 DEF NotAfter, OrderPending
      <4>2. CASE r = q /\ j \in 1..Len(pendingSubmission[q])
        <5>1. \/ Gone(p)
              \/ \E i \in 1..j : pendingSubmission[q][i] = p
          BY <1>4, <1>5, <1>8, <3>1, <4>2 DEF NotAfter, OrderPending
        <5>2. \A i \in 1..j : i \in 1..Len(pendingSubmission[q])
          BY <1>5, <4>2
        <5> QED
          BY <1>5, <4>2, <5>1, <5>2
      <4>3. CASE r = q /\ j \notin 1..Len(pendingSubmission[q])
        <5>1. j = Len(pendingSubmission[q]) + 1
          BY <1>4, <1>5, <4>3
        <5>2. l = h
          BY <1>5, <3>1, <4>3, <5>1
        <5>3. Gone(p) \/ InQueue(p) \/ p = h
          <6>1. \/ Gone(p) \/ InQueue(p)
                \/ \E i \in 1..1 : batch[t][i] = p
            BY <1>2, <1>8, <5>2 DEF NotAfter, OrderBatch
          <6> QED
            BY <1>2, <6>1
        <5>4. InQueue(p) =>
                \E i \in 1..Len(pendingSubmission[q]) :
                    pendingSubmission[q][i] = p
          <6>1. work[p].queue = q
            BY <1>8, <5>2 DEF NotAfter, q
          <6> QED
            BY <6>1 DEF InQueue, TypeInv, SubmitInv
        <5>5. \A i \in 1..Len(pendingSubmission[q]) : i \in 1..j
          BY <1>5, <5>1
        <5>6. j \in 1..j
          BY <1>5, <5>1
        <5> QED
          BY <1>5, <4>3, <5>1, <5>3, <5>4, <5>5, <5>6
      <4> QED
        BY <4>1, <4>2, <4>3
    <3> QED
      BY <1>6, <3>1 DEF OrderPending
  <2>3. OrderBatch(p, l)'
    <3>1. ASSUME NEW u \in EngineThread, NEW j \in 1..Len(batch'[u]),
                 batch'[u][j] = l
          PROVE  \/ Gone(p)
                 \/ InQueue(p)'
                 \/ \E i \in 1..j : batch'[u][i] = p
      <4>1. CASE u # t
        BY <1>3, <1>7, <1>8, <3>1, <4>1 DEF NotAfter, OrderBatch
      <4>2. CASE u = t
        <5>1. j + 1 \in 1..Len(batch[t]) /\ batch[t][j + 1] = l
          BY <1>3, <3>1, <4>2
        <5>2. \/ Gone(p) \/ InQueue(p)
              \/ \E i \in 1..(j + 1) : batch[t][i] = p
          BY <1>8, <5>1 DEF NotAfter, OrderBatch
        <5>3. ASSUME NEW i \in 1..(j + 1), batch[t][i] = p, i # 1
              PROVE  \E k \in 1..j : batch'[t][k] = p
          <6>1. i - 1 \in 1..j /\ (i - 1) + 1 = i
            BY <5>3
          <6>2. i - 1 \in 1..Len(batch'[t])
            BY <1>2, <1>3, <4>2, <6>1
          <6>3. batch'[t][i - 1] = p
            BY <1>3, <5>3, <6>1, <6>2
          <6> QED
            BY <6>1, <6>3
        <5> QED
          BY <1>2, <1>7, <4>2, <5>2, <5>3
      <4> QED
        BY <4>1, <4>2
    <3> QED
      BY <1>6, <3>1 DEF OrderBatch
  <2> QED
    BY <1>1, <1>8, <2>1, <2>2, <2>3 DEF NotAfter
<1>9. OrderInv'
  <2>1. HolderInv'
    BY <1>1, <1>8 DEF AllocInv, OrderInv, HolderInv
  <2>2. EarlierInv'
    BY <1>1, <1>8, EarlierKept DEF AllocInv, OrderInv
  <2>3. ASSUME NEW y \in Payload, Submitted(y)' PROVE Submitted(y) \/ y = h
    <3>1. PICK u \in EngineThread : \E i \in 1..Flushed(u)' :
            i <= Len(program[u]) /\ program[u][i] = y
      BY <1>1, <2>3 DEF Submitted
    <3>2. PICK i \in 1..Flushed(u)' :
            i <= Len(program[u]) /\ program[u][i] = y
      BY <3>1
    <3>3. CASE u # t
      BY <1>1, <1>3, <3>2, <3>3 DEF Submitted, Flushed
    <3>4. CASE u = t
      <4>1. Flushed(t)' = Flushed(t) + 1 /\ Flushed(t) \in Int
        <5>1. /\ nextPayload'[t] = nextPayload[t]
              /\ nextPayload[t] \in Nat
          BY <1>1, BatchFacts
        <5>2. Len(batch[t]) \in Nat /\ Len(batch'[t]) = Len(batch[t]) - 1
          BY <1>2, <1>3
        <5> QED
          BY <5>1, <5>2 DEF Flushed
      <4>2. program[t][Flushed(t) + 1] = h
        BY <1>2 DEF SafeInv, BatchInv
      <4>3. i \in 1..Flushed(t) \/ i = Flushed(t) + 1
        BY <3>2, <3>4, <4>1
      <4> QED
        BY <3>2, <3>4, <4>2, <4>3 DEF Submitted
    <3> QED
      BY <3>3, <3>4
  <2>4. GoneInv'
    BY <1>6, <1>7, <2>3 DEF AllocInv, OrderInv, GoneInv
  <2> QED
    BY <2>1, <2>2, <2>4 DEF OrderInv
<1>10. ValueInv' /\ PassedInv'
  BY <1>1, ValuesUnchanged, PassedUnchanged DEF AllocInv
<1> QED
  BY <1>9, <1>10 DEF AllocInv

(***************************************************************************)
(* A payload moves from the front of its queue to PayloadToSubmit, which   *)
(* was null on every queue: what was not after it has been executed.       *)
(***************************************************************************)
LEMMA AllocTakePayload ==
    ASSUME TypeInv, SafeInv, AllocInv, TakePayload
    PROVE  AllocInv'
<1> DEFINE q == Current
           g == GraphicsQueue[q]
<1>1. PICK f \in Payload :
        /\ f = Front
        /\ work[f].queue = q
        /\ f = pendingSubmission[q][1]
        /\ 1 \in 1..Len(pendingSubmission[q])
        /\ \A i \in 1..Len(Tail(pendingSubmission[q])) :
            Tail(pendingSubmission[q])[i] = pendingSubmission[q][i + 1]
  BY FrontFacts DEF TakePayload
<1>2. /\ q \in Queue /\ g \in Queue
      /\ work[f].barrier => g # q
  BY <1>1, CurrentFacts, WorkFacts DEF TypeInv, TypeOK, WellFormed
<1>3. /\ spc = "visit"
      /\ pendingSubmission' = [pendingSubmission EXCEPT
                                  ![q] = Tail(pendingSubmission[q])]
      /\ toSubmit' = IF work[f].barrier
                     THEN [toSubmit EXCEPT ![q] = Recorded(f),
                                           ![g] = Barrier(f)]
                     ELSE [toSubmit EXCEPT ![q] = Recorded(f)]
      /\ UNCHANGED <<program, work, nextPayload, batch, holder, executed,
                     completionValue, fenceValue, released, completedValue>>
  BY <1>1 DEF TakePayload, engineVars, resultVars, interruptVars, gpuVars
<1>4. /\ \A r \in Queue : toSubmit[r] = NoPayload
      /\ toSubmit \in [Queue -> AnyPayload \union {NoPayload}]
      /\ pendingSubmission \in [Queue -> Seq(Payload)]
  BY <1>3 DEF TypeInv, TypeOK, SubmitInv, SubmitTypeOK, PendingTypeOK
<1> HIDE DEF q, g
<1>5. /\ toSubmit'[q] = Recorded(f)
      /\ \A r \in Queue : \/ toSubmit'[r] = NoPayload
                          \/ toSubmit'[r] = Recorded(f)
                          \/ toSubmit'[r] = Barrier(f)
  <2>1. CASE work[f].barrier
    BY <1>2, <1>3, <1>4, <2>1
  <2>2. CASE ~ work[f].barrier
    BY <1>2, <1>3, <1>4, <2>2
  <2> QED
    BY <2>1, <2>2
<1>6. /\ \A r \in Queue : r # q =>
            pendingSubmission'[r] = pendingSubmission[r]
      /\ Len(pendingSubmission[q]) \in Nat
      /\ Len(pendingSubmission'[q]) = Len(pendingSubmission[q]) - 1
      /\ \A i \in 1..Len(pendingSubmission'[q]) :
            /\ i + 1 \in 1..Len(pendingSubmission[q])
            /\ pendingSubmission'[q][i] = pendingSubmission[q][i + 1]
  <2>1. /\ pendingSubmission'[q] = Tail(pendingSubmission[q])
        /\ \A r \in Queue : r # q =>
             pendingSubmission'[r] = pendingSubmission[r]
    BY <1>2, <1>3, <1>4
  <2>2. Len(Tail(pendingSubmission[q])) = Len(pendingSubmission[q]) - 1
        /\ Len(pendingSubmission[q]) \in Nat
    BY <1>1, <1>2, <1>4, HeadTailProperties
  <2> QED
    BY <1>1, <2>1, <2>2
<1>7. \A y \in Payload : Recorded(y) # NoPayload /\ Recorded(y) # Barrier(f)
  BY WorkloadAssumption DEF Recorded, Barrier
<1>8. \A y \in Payload : Gone(y) => Recorded(y) \in executed
  BY <1>4, <1>7 DEF Gone
<1>9. /\ \A y \in Payload : Gone(y) => Gone(y)'
      /\ Gone(f)'
      /\ \A y \in Payload : InQueue(y) => InQueue(y)' \/ y = f
  <2>1. Gone(f)'
    BY <1>2, <1>5 DEF Gone
  <2>2. \A y \in Payload : Gone(y) => Gone(y)'
    BY <1>3, <1>8 DEF Gone
  <2>3. ASSUME NEW y \in Payload, InQueue(y), y # f PROVE InQueue(y)'
    <3>1. PICK r \in Queue : \E i \in 1..Len(pendingSubmission[r]) :
            pendingSubmission[r][i] = y
      BY <2>3 DEF InQueue
    <3>2. PICK i \in 1..Len(pendingSubmission[r]) :
            pendingSubmission[r][i] = y
      BY <3>1
    <3>3. CASE r # q
      BY <1>6, <3>2, <3>3 DEF InQueue
    <3>4. CASE r = q
      <4>1. i # 1 /\ i - 1 \in 1..Len(pendingSubmission'[q])
            /\ (i - 1) + 1 = i
        BY <1>1, <1>6, <2>3, <3>2, <3>4
      <4>2. pendingSubmission'[q][i - 1] = y
        BY <1>6, <3>2, <3>4, <4>1
      <4> QED
        BY <1>2, <4>1, <4>2 DEF InQueue
    <3> QED
      BY <3>3, <3>4
  <2> QED
    BY <2>1, <2>2, <2>3
<1>10. ASSUME NEW p \in Payload, NEW l \in Payload, NotAfter(p, l)
       PROVE  NotAfter(p, l)'
  <2>1. Gathered(l)' /\ OrderExecuted(p, l)'
    BY <1>3, <1>10 DEF NotAfter, OrderExecuted, Gathered
  <2>2. OrderSubmit(p, l)'
    <3>1. ASSUME NEW r \in Queue, toSubmit'[r] = Recorded(l)
          PROVE  p = l \/ Recorded(p) \in executed
      <4>1. l = f
        BY <1>5, <1>7, <3>1 DEF Recorded
      <4>2. \/ Gone(p)
            \/ \E i \in 1..1 : pendingSubmission[q][i] = p
        BY <1>1, <1>2, <1>10, <4>1 DEF NotAfter, OrderPending
      <4> QED
        BY <1>1, <1>8, <4>1, <4>2
    <3> QED
      BY <1>3, <3>1 DEF OrderSubmit
  <2>3. OrderPending(p, l)'
    <3>1. ASSUME NEW r \in Queue, NEW j \in 1..Len(pendingSubmission'[r]),
                 pendingSubmission'[r][j] = l
          PROVE  \/ Gone(p)'
                 \/ \E i \in 1..j : pendingSubmission'[r][i] = p
      <4>1. CASE r # q
        BY <1>6, <1>9, <1>10, <3>1, <4>1 DEF NotAfter, OrderPending
      <4>2. CASE r = q
        <5>1. /\ j + 1 \in 1..Len(pendingSubmission[q])
              /\ pendingSubmission[q][j + 1] = l
          BY <1>6, <3>1, <4>2
        <5>2. \/ Gone(p)
              \/ \E i \in 1..(j + 1) : pendingSubmission[q][i] = p
          BY <1>2, <1>10, <5>1 DEF NotAfter, OrderPending
        <5>3. ASSUME NEW i \in 1..(j + 1), pendingSubmission[q][i] = p, i # 1
              PROVE  \E k \in 1..j : pendingSubmission'[q][k] = p
          <6>1. i - 1 \in 1..j /\ (i - 1) + 1 = i
            BY <5>3
          <6>2. i - 1 \in 1..Len(pendingSubmission'[q])
            BY <1>6, <5>1, <6>1
          <6>3. pendingSubmission'[q][i - 1] = p
            BY <1>6, <5>3, <6>1, <6>2
          <6> QED
            BY <6>1, <6>3
        <5> QED
          BY <1>1, <1>9, <4>2, <5>2, <5>3
      <4> QED
        BY <4>1, <4>2
    <3> QED
      BY <3>1 DEF OrderPending
  <2>4. OrderBatch(p, l)'
    BY <1>3, <1>9, <1>10 DEF NotAfter, OrderBatch
  <2> QED
    BY <1>3, <1>10, <2>1, <2>2, <2>3, <2>4 DEF NotAfter
<1>11. OrderInv'
  BY <1>3, <1>9, <1>10, OrderKept DEF AllocInv
<1>12. ValueInv' /\ PassedInv'
  BY <1>3, ValuesUnchanged, PassedUnchanged DEF AllocInv
<1> QED
  BY <1>11, <1>12 DEF AllocInv

(***************************************************************************)
(* ExecutePayload gives out a fence value no smaller than any before it,   *)
(* signal or not.                                                          *)
(***************************************************************************)
LEMMA AllocExecute ==
    ASSUME TypeInv, SafeInv, AllocInv, NEW q \in Queue,
           toSubmit[q] \in AnyPayload, QueueOf(toSubmit[q]) = q,
           ExecutePayload(q),
           UNCHANGED <<program, work, nextPayload, batch, holder,
                       pendingSubmission, released, completedValue>>
    PROVE  AllocInv'
<1> DEFINE x == toSubmit[q]
           v == IF HasLists(x) THEN fenceValue[q] + 1 ELSE fenceValue[q]
<1>1. /\ fenceValue' = [fenceValue EXCEPT ![q] = v]
      /\ completionValue' = [completionValue EXCEPT ![x] = v]
      /\ executed' = executed \union {x}
      /\ toSubmit' = [toSubmit EXCEPT ![q] = NoPayload]
  BY DEF ExecutePayload
<1>2. /\ fenceValue \in [Queue -> Nat]
      /\ completionValue \in [AnyPayload -> Nat]
      /\ toSubmit \in [Queue -> AnyPayload \union {NoPayload}]
      /\ executed \subseteq AnyPayload
  BY DEF TypeInv, TypeOK, ResultTypeOK, SubmitTypeOK
<1>3. v \in Nat /\ v >= fenceValue[q]
  BY <1>2
<1>4. x \in AnyPayload /\ x # NoPayload /\ x \notin executed
      /\ QueueOf(x) = q
  BY WorkloadAssumption DEF AnyPayload, SafeInv, OnceInv
<1>5. /\ completionValue'[x] = v
      /\ \A y \in executed : completionValue'[y] = completionValue[y]
      /\ fenceValue'[q] = v
      /\ \A r \in Queue : r # q => fenceValue'[r] = fenceValue[r]
      /\ toSubmit'[q] = NoPayload
      /\ \A r \in Queue : r # q => toSubmit'[r] = toSubmit[r]
  <2> HIDE DEF x, v
  <2> QED
    BY <1>1, <1>2, <1>4
<1>6. \A y : QueueOf(y)' = QueueOf(y)
  BY DEF QueueOf
<1>7. \A y \in executed : QueueOf(y) \in Queue /\ completionValue[y] \in Nat
  BY <1>2, PayloadFacts DEF TypeInv, TypeOK
<1> HIDE DEF x, v
<1>8. ValueInv'
  <2>1. ASSUME NEW y \in executed'
        PROVE  completionValue'[y] <= fenceValue'[QueueOf(y)]
    <3>1. CASE y = x
      BY <1>3, <1>4, <1>5, <3>1
    <3>2. CASE y \in executed
      <4>1. completionValue[y] <= fenceValue[QueueOf(y)]
        BY <3>2 DEF AllocInv, ValueInv
      <4>2. CASE QueueOf(y) = q
        BY <1>2, <1>3, <1>5, <1>7, <3>2, <4>1, <4>2
      <4>3. CASE QueueOf(y) # q
        BY <1>5, <1>7, <3>2, <4>1, <4>3
      <4> QED
        BY <4>2, <4>3
    <3> QED
      BY <1>1, <3>1, <3>2
  <2> QED
    BY <1>6, <2>1 DEF ValueInv
<1>9. PassedInv'
  <2>1. \A y \in released :
            /\ y \in executed'
            /\ completionValue'[y] <= completedValue[QueueOf(y)]
    BY <1>1, <1>5 DEF AllocInv, PassedInv
  <2> QED
    BY <1>6, <2>1 DEF PassedInv
<1>10. /\ \A y \in Payload : Gone(y) => Gone(y)'
       /\ \A y \in Payload : Gathered(y)' = Gathered(y)
       /\ \A y \in Payload : InQueue(y)' = InQueue(y)
  <2>1. ASSUME NEW y \in Payload, Gone(y) PROVE Gone(y)'
    <3>1. CASE Recorded(y) \in executed
      BY <1>1, <3>1 DEF Gone
    <3>2. CASE \E r \in Queue : toSubmit[r] = Recorded(y)
      <4>1. PICK r \in Queue : toSubmit[r] = Recorded(y)
        BY <3>2
      <4>2. CASE r = q
        BY <1>1, <4>1, <4>2 DEF Gone, x
      <4>3. CASE r # q
        BY <1>5, <4>1, <4>3 DEF Gone
      <4> QED
        BY <4>2, <4>3
    <3> QED
      BY <2>1, <3>1, <3>2 DEF Gone
  <2> QED
    BY <2>1 DEF Gathered, InQueue
<1>11. ASSUME NEW p \in Payload, NEW l \in Payload, NotAfter(p, l)
       PROVE  NotAfter(p, l)'
  <2>1. OrderExecuted(p, l)'
    <3>1. CASE Recorded(l) \in executed
      <4>1. /\ Recorded(p) \in executed
            /\ completionValue[Recorded(p)] <= completionValue[Recorded(l)]
        BY <1>11, <3>1 DEF NotAfter, OrderExecuted
      <4> QED
        BY <1>1, <1>5, <3>1, <4>1 DEF OrderExecuted
    <3>2. CASE Recorded(l) = x
      <4>1. p = l \/ Recorded(p) \in executed
        BY <1>11, <3>2 DEF NotAfter, OrderSubmit, x
      <4>2. CASE p = l
        BY <1>1, <1>3, <1>5, <3>2, <4>2 DEF OrderExecuted
      <4>3. CASE Recorded(p) \in executed
        <5>1. QueueOf(Recorded(p)) = q
          <6>1. QueueOf(Recorded(l)) = q
            BY <1>4, <3>2
          <6> QED
            BY <1>11, <6>1 DEF NotAfter, QueueOf, Recorded
        <5>2. completionValue[Recorded(p)] <= fenceValue[q]
          BY <4>3, <5>1 DEF AllocInv, ValueInv
        <5>3. completionValue'[Recorded(p)] <= v
          BY <1>2, <1>3, <1>5, <1>7, <4>3, <5>2
        <5> QED
          BY <1>1, <1>5, <3>2, <4>3, <5>3 DEF OrderExecuted
      <4> QED
        BY <4>1, <4>2, <4>3
    <3>3. CASE Recorded(l) \notin executed'
      BY <3>3 DEF OrderExecuted
    <3> QED
      BY <1>1, <3>1, <3>2, <3>3
  <2>2. OrderSubmit(p, l)'
    <3>1. ASSUME NEW r \in Queue, toSubmit'[r] = Recorded(l)
          PROVE  p = l \/ Recorded(p) \in executed'
      <4>1. Recorded(l) # NoPayload
        BY WorkloadAssumption DEF Recorded
      <4>2. toSubmit[r] = Recorded(l)
        BY <1>5, <3>1, <4>1
      <4> QED
        BY <1>1, <1>11, <4>2 DEF NotAfter, OrderSubmit
    <3> QED
      BY <3>1 DEF OrderSubmit
  <2>3. OrderPending(p, l)' /\ OrderBatch(p, l)'
    BY <1>10, <1>11 DEF NotAfter, OrderPending, OrderBatch
  <2> QED
    BY <1>10, <1>11, <2>1, <2>2, <2>3 DEF NotAfter
<1>12. OrderInv'
  BY <1>10, <1>11, OrderKept DEF AllocInv
<1> QED
  BY <1>8, <1>9, <1>12 DEF AllocInv

LEMMA AllocExecuteBarrier ==
    ASSUME TypeInv, SafeInv, AllocInv, ExecuteBarrier
    PROVE  AllocInv'
<1> DEFINE g == GraphicsQueue[Current]
<1>1. PICK p \in Payload :
        work[p].queue = Current /\ toSubmit[g] = Barrier(p)
  BY DEF TypeInv, SubmitInv, ExecuteBarrier
<1>2. /\ g \in Queue
      /\ toSubmit[g] \in AnyPayload
      /\ QueueOf(toSubmit[g]) = g
  BY <1>1, CurrentFacts, PayloadFacts DEF TypeInv, TypeOK, QueueOf, Barrier
<1>3. /\ ExecutePayload(g)
      /\ UNCHANGED <<program, work, nextPayload, batch, holder,
                     pendingSubmission, released, completedValue>>
  BY DEF ExecuteBarrier, engineVars, interruptVars, gpuVars
<1> HIDE DEF g
<1> QED
  BY <1>2, <1>3, AllocExecute

LEMMA AllocExecuteCurrent ==
    ASSUME TypeInv, SafeInv, AllocInv, ExecuteCurrent
    PROVE  AllocInv'
<1>1. PICK p \in Payload :
        toSubmit[Current] = Recorded(p) /\ work[p].queue = Current
  BY DEF TypeInv, SubmitInv, ExecuteCurrent
<1>2. /\ Current \in Queue
      /\ toSubmit[Current] \in AnyPayload
      /\ QueueOf(toSubmit[Current]) = Current
  BY <1>1, CurrentFacts, PayloadFacts DEF TypeInv, TypeOK, QueueOf, Recorded
<1>3. /\ ExecutePayload(Current)
      /\ UNCHANGED <<program, work, nextPayload, batch, holder,
                     pendingSubmission, released, completedValue>>
  BY DEF ExecuteCurrent, engineVars, interruptVars, gpuVars
<1> QED
  BY <1>2, <1>3, AllocExecute

LEMMA AllocCompletePayload ==
    ASSUME TypeInv, SafeInv, AllocInv, CompletePayload
    PROVE  AllocInv'
<1> DEFINE q == Visited
           x == AwaitedPayload
<1>1. /\ q \in Queue /\ pendingInterrupt[q] # <<>>
      /\ pendingInterrupt[q] \in Seq(AnyPayload)
      /\ completedValue[q] >= completionValue[x]
      /\ x \in AnyPayload
      /\ released' = released \union {x}
      /\ UNCHANGED <<program, work, nextPayload, batch, holder,
                     pendingSubmission, toSubmit, executed, completionValue,
                     fenceValue, completedValue>>
  BY VisitedFacts, AwaitedFacts
     DEF CompletePayload, Passed, TypeInv, TypeOK, PendingTypeOK, engineVars,
         submitVars, resultVars, gpuVars
<1>2. x \in executed /\ QueueOf(x) = q
  <2>1. x = pendingInterrupt[q][1] /\ 1 \in 1..Len(pendingInterrupt[q])
    BY <1>1, HeadTailProperties DEF AwaitedPayload
  <2> QED
    BY <1>1, <2>1 DEF SafeInv, HandedInv
<1>3. completionValue[x] \in Nat /\ completedValue[q] \in Nat
  BY <1>1, LogFacts DEF TypeInv, TypeOK, ResultTypeOK
<1> HIDE DEF q, x
<1>4. PassedInv'
  <2>1. \A y : QueueOf(y)' = QueueOf(y)
    BY <1>1 DEF QueueOf
  <2>2. \A y \in released' :
            y \in executed /\ completionValue[y] <= completedValue[QueueOf(y)]
    BY <1>1, <1>2, <1>3 DEF AllocInv, PassedInv
  <2> QED
    BY <1>1, <2>1, <2>2 DEF PassedInv
<1>5. OrderInv'
  BY <1>1, OrderInvUnchanged DEF AllocInv
<1>6. ValueInv'
  BY <1>1, ValuesUnchanged DEF AllocInv
<1> QED
  BY <1>4, <1>5, <1>6 DEF AllocInv

(***************************************************************************)
(* The values signalled rise, so the fence never goes back below what was  *)
(* released.                                                               *)
(***************************************************************************)
LEMMA AllocGpuSignal ==
    ASSUME TypeInv, SafeInv, AllocInv, NEW q \in Queue, GpuSignal(q)
    PROVE  AllocInv'
<1> DEFINE n == gpuDone[q] + 1
           v == ops[q][n].value
<1>1. /\ n \in 1..Len(ops[q])
      /\ ops[q][n].kind = "signal"
      /\ gpuDone[q] \in Nat
      /\ v \in Nat
  BY LogFacts, OpFacts DEF GpuSignal, GpuReady, NextOp
<1>2. /\ completedValue' = [completedValue EXCEPT ![q] = v]
      /\ UNCHANGED <<program, work, nextPayload, batch, holder,
                     pendingSubmission, toSubmit, executed, completionValue,
                     fenceValue, released>>
  BY DEF GpuSignal, NextOp, engineVars, submitVars, resultVars, interruptVars
<1>3. v > completedValue[q]
  <2>1. v <= completedValue[q] => n <= gpuDone[q]
    BY <1>1 DEF SafeInv, LogInv, SignalsRise
  <2>2. completedValue[q] \in Nat
    BY LogFacts
  <2> QED
    BY <1>1, <2>1, <2>2
<1> HIDE DEF n, v
<1>4. \A r \in Queue : /\ completedValue[r] \in Nat
                       /\ completedValue'[r] \in Nat
                       /\ completedValue'[r] >= completedValue[r]
  BY <1>1, <1>2, <1>3 DEF TypeInv, TypeOK, GpuTypeOK
<1>5. PassedInv'
  <2>1. \A y : QueueOf(y)' = QueueOf(y)
    BY <1>2 DEF QueueOf
  <2>2. ASSUME NEW y \in released
        PROVE  /\ y \in executed
               /\ completionValue[y] <= completedValue'[QueueOf(y)]
    <3>1. /\ y \in executed
          /\ completionValue[y] <= completedValue[QueueOf(y)]
      BY DEF AllocInv, PassedInv
    <3>2. QueueOf(y) \in Queue /\ completionValue[y] \in Nat
      BY <3>1, PayloadFacts DEF TypeInv, TypeOK, ResultTypeOK
    <3> QED
      BY <1>4, <3>1, <3>2
  <2> QED
    BY <1>2, <2>1, <2>2 DEF PassedInv
<1>6. OrderInv'
  BY <1>2, OrderInvUnchanged DEF AllocInv
<1>7. ValueInv'
  BY <1>2, ValuesUnchanged DEF AllocInv
<1> QED
  BY <1>5, <1>6, <1>7 DEF AllocInv

-----------------------------------------------------------------------------
(* The invariant as a whole.                                               *)

LEMMA AllocInit == Init => AllocInv
<1> SUFFICES ASSUME Init PROVE AllocInv
  OBVIOUS
<1>1. ~ \E p : Gathered(p) \/ Submitted(p)
  BY DEF Init, Gathered, Submitted, Flushed
<1> QED
  BY <1>1 DEF Init, AllocInv, OrderInv, HolderInv, EarlierInv, GoneInv,
     ValueInv, PassedInv

LEMMA AllocNext == TypeInv /\ SafeInv /\ AllocInv /\ [Next]_vars => AllocInv'
<1> SUFFICES ASSUME TypeInv, SafeInv, AllocInv, [Next]_vars PROVE AllocInv'
  OBVIOUS
<1>1. ASSUME NEW t \in EngineThread, Engine(t) PROVE AllocInv'
  <2>1. CASE KickSubmission(t) \/ FlushReturns(t)
    BY <2>1, AllocUnchanged
       DEF KickSubmission, FlushReturns, submitVars, interruptVars, gpuVars
  <2> QED
    BY <1>1, <2>1, AllocFlushCommands, AllocEnqueuePayload DEF Engine
<1>2. CASE SubmissionThread
  <2>1. CASE SkipEmpty \/ AccumulateWait \/ SkipUnresolved \/ FlushFenceWait
             \/ HandDown \/ EndPass \/ WakeSubmission
    <3>1. UNCHANGED <<engineVars, pendingSubmission, toSubmit, resultVars,
                      interruptVars, gpuVars>>
      BY <2>1 DEF SkipEmpty, AccumulateWait, SkipUnresolved, FlushFenceWait,
         HandDown, EndPass, WakeSubmission, submitVars
    <3> QED
      BY <3>1, AllocUnchanged DEF engineVars, interruptVars, gpuVars
  <2> QED
    BY <1>2, <2>1, AllocTakePayload, AllocExecuteBarrier, AllocExecuteCurrent
       DEF SubmissionThread
<1>3. CASE InterruptThread
  <2>1. CASE SkipIdle \/ AlreadyAwaited \/ FindIncomplete \/ AwaitCompletion
             \/ WakeInterrupt
    <3>1. UNCHANGED <<engineVars, pendingSubmission, submitVars, resultVars,
                      released, completedValue>>
      BY <2>1 DEF SkipIdle, AlreadyAwaited, FindIncomplete, AwaitCompletion,
         WakeInterrupt, gpuVars
    <3> QED
      BY <3>1, AllocUnchanged DEF engineVars, submitVars
  <2> QED
    BY <1>3, <2>1, AllocCompletePayload DEF InterruptThread
<1>4. ASSUME NEW q \in Queue, Gpu(q) PROVE AllocInv'
  <2>1. CASE GpuWait(q) \/ GpuExecute(q)
    <3>1. UNCHANGED <<engineVars, pendingSubmission, submitVars, resultVars,
                      interruptVars, completedValue>>
      BY <2>1 DEF GpuWait, GpuExecute
    <3> QED
      BY <3>1, AllocUnchanged DEF engineVars, submitVars, interruptVars
  <2> QED
    BY <1>4, <2>1, AllocGpuSignal DEF Gpu
<1>5. CASE UNCHANGED vars
  BY <1>5, AllocUnchanged
     DEF vars, engineVars, submitVars, interruptVars, gpuVars
<1> QED
  BY <1>1, <1>2, <1>3, <1>4, <1>5 DEF Next

(***************************************************************************)
(* The payload that releases the allocator has passed its fence value, so  *)
(* the payloads of its flush, whose values are no larger, have too.        *)
(***************************************************************************)
LEMMA AllocSafe ==
    ASSUME TypeInv, SafeInv, AllocInv
    PROVE  AllocatorAfterWork
<1>1. SUFFICES ASSUME NEW p \in Payload, holder[p] \in released
               PROVE  Finished(Recorded(p))
  BY DEF AllocatorAfterWork
<1>2. holder[p] # NoPayload
  BY <1>1, WorkloadAssumption
     DEF TypeInv, TypeOK, InterruptTypeOK, AnyPayload
<1>3. PICK l \in Payload : holder[p] = Recorded(l) /\ NotAfter(p, l)
  BY <1>2 DEF AllocInv, OrderInv, HolderInv
<1> DEFINE q == work[l].queue
           x == Recorded(p)
<1>4. QueueOf(Recorded(l)) = q /\ QueueOf(x) = q
  BY <1>3 DEF NotAfter, QueueOf, Recorded
<1>5. /\ x \in AnyPayload /\ Recorded(l) \in AnyPayload /\ q \in Queue
  BY PayloadFacts, <1>4 DEF TypeInv, TypeOK
<1> HIDE DEF q, x
<1>6. /\ x \in executed
      /\ completionValue[x] <= completedValue[q]
  <2>1. /\ Recorded(l) \in executed
        /\ completionValue[Recorded(l)] <= completedValue[q]
    BY <1>1, <1>3, <1>4 DEF AllocInv, PassedInv
  <2>2. x \in executed /\ completionValue[x] <= completionValue[Recorded(l)]
    BY <1>3, <2>1 DEF NotAfter, OrderExecuted, x
  <2>3. /\ completionValue[x] \in Nat
        /\ completionValue[Recorded(l)] \in Nat
        /\ completedValue[q] \in Nat
    BY <1>5, LogFacts DEF TypeInv, TypeOK, ResultTypeOK
  <2> QED
    BY <2>1, <2>2, <2>3
<1> QED
  BY <1>4, <1>5, <1>6, PassedFinished DEF SafeInv, x

(***************************************************************************)
(* The allocator of a context's command lists is reset only when the GPU   *)
(* has carried out every payload of the flush, although it is attached to  *)
(* the last one alone: the queue, the fence values and the interrupt       *)
(* thread all keep the order in which the flush submitted them.            *)
(***************************************************************************)
THEOREM AllocatorSafe == Spec => []AllocatorAfterWork
<1>1. Spec => [](TypeInv /\ SafeInv /\ AllocInv)
  <2>1. Init => TypeInv /\ SafeInv /\ AllocInv
    BY TypeInit, SafeInit, AllocInit
  <2>2. (TypeInv /\ SafeInv /\ AllocInv) /\ [Next]_vars
        => (TypeInv /\ SafeInv /\ AllocInv)'
    BY TypeNext, SafeNext, AllocNext
  <2> QED
    BY <2>1, <2>2, PTL DEF Spec
<1>2. TypeInv /\ SafeInv /\ AllocInv => AllocatorAfterWork
  BY AllocSafe
<1> QED
  BY <1>1, <1>2, PTL

-----------------------------------------------------------------------------
(***************************************************************************)
(* The call log of queue q waits for value v of fence f before its call n. *)
(***************************************************************************)
LogAwaits(q, n, f, v) ==
    \/ v = 0
    \/ \E k \in 1..Len(ops[q]) :
        /\ k < n
        /\ ops[q][k].kind = "wait"
        /\ ops[q][k].queue = f
        /\ v <= ops[q][k].value

(***************************************************************************)
(* MaxValueAwaited was really awaited, and what is still to be awaited is  *)
(* in FencesToAwait.                                                       *)
(***************************************************************************)
AwaitedInv ==
    \A q, f \in Queue :
        /\ LogAwaits(q, Len(ops[q]) + 1, f, maxAwait[q][f])
        /\ \/ nextAwait[q][f] <= maxAwait[q][f]
           \/ \E i \in 1..Len(fencesToAwait[q]) : fencesToAwait[q][i] = f

(***************************************************************************)
(* The waits a payload has got through were noted for its queue: those     *)
(* before its index while it is pending, all of them once it is taken.     *)
(***************************************************************************)
Noted(q, y) ==
    y \in executed /\ completionValue[y] <= nextAwait[q][QueueOf(y)]

WaitOf(p, j) == Recorded(work[p].waits[j])

NotedInv ==
    /\ \A p \in Payload : ~ Submitted(p) => waitIndex[p] = 0
    /\ \A q \in Queue : \A i \in 1..Len(pendingSubmission[q]) :
        LET p == pendingSubmission[q][i] IN
        \A j \in 1..Len(work[p].waits) : j <= waitIndex[p] =>
            Noted(q, WaitOf(p, j))
    /\ \A q \in Queue : \A p \in Payload : toSubmit[q] = Recorded(p) =>
        \A j \in 1..Len(work[p].waits) : Noted(q, WaitOf(p, j))

(***************************************************************************)
(* Every call that executes a payload comes after a wait for each of its   *)
(* sync points, and the fences have passed the waits carried out.          *)
(***************************************************************************)
WaitsLogged ==
    \A q \in Queue : \A i \in 1..Len(ops[q]) : \A p \in Payload :
        ops[q][i] = ExecuteOp(Recorded(p)) =>
            \A j \in 1..Len(work[p].waits) :
                LET y == WaitOf(p, j) IN
                /\ y \in executed
                /\ LogAwaits(q, i, QueueOf(y), completionValue[y])

WaitsPassed ==
    \A q \in Queue : \A k \in 1..gpuDone[q] : ops[q][k].kind = "wait" =>
        /\ ops[q][k].queue \in Queue
        /\ ops[q][k].value <= completedValue[ops[q][k].queue]

WaitInv == AwaitedInv /\ NotedInv /\ WaitsLogged /\ WaitsPassed

\* The workload never changes: its variables are one tuple in every step.
USE DEF workload

-----------------------------------------------------------------------------
LEMMA WaitOpFacts ==
    ASSUME NEW o \in Op, o.kind = "wait"
    PROVE  o.queue \in Queue /\ o.value \in Nat
BY DEF Op

LEMMA WaitFacts ==
    ASSUME EngineTypeOK, NEW p \in Payload, NEW j \in 1..Len(work[p].waits)
    PROVE  /\ work[p].waits[j] \in Payload
           /\ WaitOf(p, j) \in AnyPayload
           /\ QueueOf(WaitOf(p, j)) \in Queue
<1>1. work[p].waits \in Seq(Payload)
  BY WorkFacts DEF Contents
<1>2. work[p].waits[j] \in Payload
  BY <1>1
<1> QED
  BY <1>2, PayloadFacts DEF WaitOf

LEMMA AwaitTypes ==
    ASSUME TypeInv, NEW q \in Queue, NEW f \in Queue
    PROVE  /\ nextAwait[q][f] \in Nat
           /\ maxAwait[q][f] \in Nat
           /\ fencesToAwait[q] \in Seq(Queue)
BY DEF TypeInv, TypeOK, AwaitTypeOK

(***************************************************************************)
(* The log only grows, and a longer one waits for no less.                 *)
(***************************************************************************)
LogGrows ==
    \A q \in Queue :
        /\ Len(ops'[q]) >= Len(ops[q])
        /\ \A i \in 1..Len(ops[q]) : ops'[q][i] = ops[q][i]

LEMMA LogAwaitsGrows ==
    ASSUME TypeInv, LogGrows, NEW q \in Queue
    PROVE  /\ \A i \in 1..Len(ops[q]) : i \in 1..Len(ops'[q])
           /\ \A n, f, v : LogAwaits(q, n, f, v) => LogAwaits(q, n, f, v)'
<1>1. \A i \in 1..Len(ops[q]) :
        i \in 1..Len(ops'[q]) /\ ops'[q][i] = ops[q][i]
  <2>1. Len(ops[q]) \in Nat
    BY LogFacts
  <2>2. ASSUME NEW i \in 1..Len(ops[q])
        PROVE  i <= Len(ops'[q])
    <3>1. /\ i <= Len(ops[q]) /\ Len(ops[q]) <= Len(ops'[q])
      BY DEF LogGrows
    <3> QED
      BY <2>1, <3>1
  <2> QED
    BY <2>2 DEF LogGrows
<1> QED
  BY <1>1 DEF LogAwaits

LEMMA AwaitedUnchanged ==
    ASSUME AwaitedInv,
           UNCHANGED <<ops, nextAwait, maxAwait, fencesToAwait>>
    PROVE  AwaitedInv'
BY DEF AwaitedInv, LogAwaits

LEMMA NotedUnchanged ==
    ASSUME NotedInv, \A p : Submitted(p) => Submitted(p)',
           UNCHANGED <<work, pendingSubmission, toSubmit, waitIndex, executed,
                       completionValue, nextAwait>>
    PROVE  NotedInv'
<1>1. \A p \in Payload : ~ Submitted(p)' => waitIndex'[p] = 0
  BY DEF NotedInv
<1>2. ASSUME NEW q \in Queue, NEW p, NEW j, Noted(q, WaitOf(p, j))
      PROVE  Noted(q, WaitOf(p, j))'
  BY <1>2 DEF Noted, QueueOf, WaitOf
<1>3. (\A q \in Queue : \A i \in 1..Len(pendingSubmission[q]) :
        LET p == pendingSubmission[q][i] IN
        \A j \in 1..Len(work[p].waits) : j <= waitIndex[p] =>
            Noted(q, WaitOf(p, j)))'
  <2> SUFFICES ASSUME NEW q \in Queue, NEW i \in 1..Len(pendingSubmission[q]),
                      NEW p, p = pendingSubmission[q][i],
                      NEW j \in 1..Len(work[p].waits), j <= waitIndex[p]
               PROVE  Noted(q, WaitOf(p, j))'
    OBVIOUS
  <2>1. Noted(q, WaitOf(p, j))
    BY DEF NotedInv
  <2> QED
    BY <1>2, <2>1
<1>4. (\A q \in Queue : \A p \in Payload : toSubmit[q] = Recorded(p) =>
        \A j \in 1..Len(work[p].waits) : Noted(q, WaitOf(p, j)))'
  <2> SUFFICES ASSUME NEW q \in Queue, NEW p \in Payload,
                      toSubmit[q] = Recorded(p),
                      NEW j \in 1..Len(work[p].waits)
               PROVE  Noted(q, WaitOf(p, j))'
    OBVIOUS
  <2>1. Noted(q, WaitOf(p, j))
    BY DEF NotedInv
  <2> QED
    BY <1>2, <2>1
<1> QED
  BY <1>1, <1>3, <1>4 DEF NotedInv

LEMMA LoggedUnchanged ==
    ASSUME WaitsLogged, UNCHANGED <<work, ops, executed, completionValue>>
    PROVE  WaitsLogged'
BY DEF WaitsLogged, LogAwaits, QueueOf, WaitOf

LEMMA WaitsPassedUnchanged ==
    ASSUME TypeInv, WaitsPassed, LogGrows, UNCHANGED <<gpuDone, completedValue>>
    PROVE  WaitsPassed'
<1>1. \A q \in Queue : \A k \in 1..gpuDone[q] :
        k \in 1..Len(ops[q]) /\ ops'[q][k] = ops[q][k]
  BY LogFacts DEF LogGrows
<1> QED
  BY <1>1 DEF WaitsPassed

LEMMA WaitUnchanged ==
    ASSUME TypeInv, WaitInv,
           UNCHANGED <<program, work, nextPayload, batch, pendingSubmission,
                       toSubmit, waitIndex, resultVars, awaitVars, ops,
                       gpuDone, completedValue>>
    PROVE  WaitInv'
<1>1. UNCHANGED <<executed, completionValue, nextAwait, maxAwait,
                  fencesToAwait>>
  BY DEF resultVars, awaitVars
<1>2. \A p : Submitted(p) => Submitted(p)'
  BY DEF Submitted, Flushed
<1>3. LogGrows
  BY LogFacts DEF LogGrows
<1> QED
  BY <1>1, <1>2, <1>3, AwaitedUnchanged, NotedUnchanged, LoggedUnchanged,
     WaitsPassedUnchanged DEF WaitInv

-----------------------------------------------------------------------------
(* The engine threads.                                                     *)

LEMMA WaitFlushCommands ==
    ASSUME TypeInv, SafeInv, WaitInv, NEW t \in EngineThread,
           FlushCommands(t)
    PROVE  WaitInv'
<1>1. UNCHANGED <<program, work, pendingSubmission, toSubmit, waitIndex,
                  executed, completionValue, nextAwait, maxAwait,
                  fencesToAwait, ops, gpuDone, completedValue>>
  BY DEF FlushCommands, submitVars, resultVars, awaitVars, gpuVars
<1>2. \A p : Submitted(p) => Submitted(p)'
  BY OnceFlushCommands DEF SafeInv
<1>3. LogGrows
  BY <1>1, LogFacts DEF LogGrows
<1> QED
  BY <1>1, <1>2, <1>3, AwaitedUnchanged, NotedUnchanged, LoggedUnchanged,
     WaitsPassedUnchanged DEF WaitInv

(***************************************************************************)
(* A payload enters its queue with none of its waits processed.            *)
(***************************************************************************)
LEMMA WaitEnqueuePayload ==
    ASSUME TypeInv, SafeInv, WaitInv, NEW t \in EngineThread,
           EnqueuePayload(t)
    PROVE  WaitInv'
<1>h. PICK h \in Payload : h = Head(batch[t])
  BY DEF EnqueuePayload, TypeInv, TypeOK, EngineTypeOK
<1> DEFINE q == work[h].queue
<1>1. /\ pendingSubmission' = [pendingSubmission EXCEPT ![q] = Append(@, h)]
      /\ UNCHANGED <<work, toSubmit, waitIndex, executed, completionValue,
                     nextAwait, maxAwait, fencesToAwait, ops, gpuDone,
                     completedValue>>
  BY <1>h DEF EnqueuePayload, submitVars, resultVars, awaitVars, gpuVars
<1>2. waitIndex[h] = 0 /\ \A p : Submitted(p) => Submitted(p)'
  BY <1>h, OnceEnqueuePayload DEF SafeInv, WaitInv, NotedInv
<1>3. q \in Queue
  BY WorkFacts DEF Contents, TypeInv, TypeOK
<1>4. \A r \in Queue : \A i \in 1..Len(pendingSubmission'[r]) :
        \/ /\ i \in 1..Len(pendingSubmission[r])
           /\ pendingSubmission'[r][i] = pendingSubmission[r][i]
        \/ pendingSubmission'[r][i] = h
  <2>1. pendingSubmission \in [Queue -> Seq(Payload)]
    BY DEF TypeInv, TypeOK, PendingTypeOK
  <2>2. pendingSubmission'[q] = Append(pendingSubmission[q], h)
        /\ \A r \in Queue : r # q =>
             pendingSubmission'[r] = pendingSubmission[r]
    BY <1>1, <1>3, <2>1
  <2>3. pendingSubmission[q] \in Seq(Payload)
    BY <1>3, <2>1
  <2> HIDE DEF q
  <2> QED
    BY <2>2, <2>3, AppendProperties
<1> HIDE DEF q
<1>5. NotedInv'
  <2>1. \A r, p, j : Noted(r, WaitOf(p, j))' = Noted(r, WaitOf(p, j))
    BY <1>1 DEF Noted, QueueOf, WaitOf
  <2>2. ASSUME NEW r \in Queue, NEW i \in 1..Len(pendingSubmission'[r]),
               NEW p, p = pendingSubmission'[r][i],
               NEW j \in 1..Len(work[p].waits), j <= waitIndex[p]
        PROVE  Noted(r, WaitOf(p, j))
    <3>1. p # h
      BY <1>2, <2>2
    <3> QED
      BY <1>4, <2>2, <3>1 DEF WaitInv, NotedInv
  <2>3. \A r \in Queue : \A i \in 1..Len(pendingSubmission'[r]) :
            \A j \in 1..Len(work[pendingSubmission'[r][i]].waits) :
                j <= waitIndex[pendingSubmission'[r][i]] =>
                    Noted(r, WaitOf(pendingSubmission[r][i], j))'
    <3> SUFFICES ASSUME NEW r \in Queue,
                        NEW i \in 1..Len(pendingSubmission'[r]),
                        NEW j \in 1..Len(work[pendingSubmission'[r][i]].waits),
                        j <= waitIndex[pendingSubmission'[r][i]]
                 PROVE  Noted(r, WaitOf(pendingSubmission[r][i], j))'
      OBVIOUS
    <3>p. PICK p : p = pendingSubmission'[r][i]
      OBVIOUS
    <3>1. Noted(r, WaitOf(p, j))'
      <4>1. j \in 1..Len(work[p].waits) /\ j <= waitIndex[p]
        BY <3>p
      <4> QED
        BY <2>1, <2>2, <3>p, <4>1
    <3> QED
      BY <3>p, <3>1 DEF Noted, QueueOf, WaitOf
  <2>4. \A p \in Payload : ~ Submitted(p)' => waitIndex'[p] = 0
    BY <1>1, <1>2 DEF WaitInv, NotedInv
  <2>5. \A r \in Queue : \A p \in Payload : toSubmit'[r] = Recorded(p) =>
            \A j \in 1..Len(work[p].waits) : Noted(r, WaitOf(p, j))'
    BY <1>1, <2>1 DEF WaitInv, NotedInv
  <2> QED
    BY <1>1, <2>3, <2>4, <2>5 DEF NotedInv
<1>6. LogGrows
  BY <1>1, LogFacts DEF LogGrows
<1> QED
  BY <1>1, <1>5, <1>6, AwaitedUnchanged, LoggedUnchanged,
     WaitsPassedUnchanged DEF WaitInv

-----------------------------------------------------------------------------
(* The submission thread.                                                  *)

LEMMA EnqueueWaitFacts ==
    ASSUME TypeInv, NEW q \in Queue, NEW f \in Queue, NEW v \in Nat,
           EnqueueFenceWait(q, f, v)
    PROVE  /\ v <= nextAwait'[q][f]
           /\ \E i \in 1..Len(fencesToAwait'[q]) : fencesToAwait'[q][i] = f
           /\ \A r, e \in Queue :
                /\ nextAwait[r][e] <= nextAwait'[r][e]
                /\ r # q \/ e # f => nextAwait'[r][e] = nextAwait[r][e]
                /\ (\E i \in 1..Len(fencesToAwait[r]) :
                        fencesToAwait[r][i] = e)
                   => \E i \in 1..Len(fencesToAwait'[r]) :
                        fencesToAwait'[r][i] = e
<1>1. /\ nextAwait \in [Queue -> [Queue -> Nat]]
      /\ fencesToAwait \in [Queue -> Seq(Queue)]
  BY DEF TypeInv, TypeOK, AwaitTypeOK
<1>2. /\ nextAwait' = [nextAwait EXCEPT ![q][f] = MaxOf(@, v)]
      /\ fencesToAwait' = [fencesToAwait EXCEPT ![q] = AddUnique(@, f)]
  BY DEF EnqueueFenceWait
<1>3. /\ nextAwait'[q][f] = MaxOf(nextAwait[q][f], v)
      /\ \A r, e \in Queue :
            r # q \/ e # f => nextAwait'[r][e] = nextAwait[r][e]
      /\ \A r, e \in Queue : nextAwait[r][e] \in Nat
  BY <1>1, <1>2
<1>4. /\ v <= nextAwait'[q][f]
      /\ nextAwait[q][f] <= nextAwait'[q][f]
  BY <1>3 DEF MaxOf
<1>5. \A r, e \in Queue : nextAwait[r][e] <= nextAwait'[r][e]
  BY <1>3, <1>4
<1>6. /\ fencesToAwait'[q] = AddUnique(fencesToAwait[q], f)
      /\ \A r \in Queue : r # q => fencesToAwait'[r] = fencesToAwait[r]
  BY <1>1, <1>2
<1>7. /\ \E i \in 1..Len(fencesToAwait'[q]) : fencesToAwait'[q][i] = f
      /\ \A i \in 1..Len(fencesToAwait[q]) :
            /\ i \in 1..Len(fencesToAwait'[q])
            /\ fencesToAwait'[q][i] = fencesToAwait[q][i]
  <2>1. CASE \E i \in 1..Len(fencesToAwait[q]) : fencesToAwait[q][i] = f
    BY <1>6, <2>1 DEF AddUnique
  <2>2. CASE ~ \E i \in 1..Len(fencesToAwait[q]) : fencesToAwait[q][i] = f
    <3>1. fencesToAwait'[q] = Append(fencesToAwait[q], f)
      BY <1>6, <2>2 DEF AddUnique
    <3>2. fencesToAwait[q] \in Seq(Queue)
      BY <1>1
    <3>3. /\ Len(fencesToAwait'[q]) = Len(fencesToAwait[q]) + 1
          /\ Len(fencesToAwait[q]) \in Nat
          /\ \A i \in 1..Len(fencesToAwait[q]) :
                fencesToAwait'[q][i] = fencesToAwait[q][i]
          /\ fencesToAwait'[q][Len(fencesToAwait[q]) + 1] = f
      BY <3>1, <3>2, AppendProperties
    <3>4. Len(fencesToAwait[q]) + 1 \in 1..Len(fencesToAwait'[q])
      BY <3>3
    <3> QED
      BY <3>3, <3>4
  <2> QED
    BY <2>1, <2>2
<1> QED
  BY <1>3, <1>4, <1>5, <1>6, <1>7

(***************************************************************************)
(* The wait the front payload gets through is noted, whatever is taken     *)
(* for the same fence later.                                               *)
(***************************************************************************)
LEMMA WaitAccumulateWait ==
    ASSUME TypeInv, SafeInv, WaitInv, AccumulateWait
    PROVE  WaitInv'
<1>q. PICK q \in Queue : q = Current
  BY CurrentFacts DEF TypeInv, TypeOK
<1>1. PICK p \in Payload :
        /\ p = Front /\ work[p].queue = q
        /\ p = pendingSubmission[q][1]
        /\ 1 \in 1..Len(pendingSubmission[q])
  BY <1>q, FrontFacts DEF AccumulateWait
<1>w. /\ Len(work[p].waits) \in Nat /\ waitIndex[p] \in Nat
      /\ waitIndex[p] < Len(work[p].waits)
  <2>1. work[p].waits \in Seq(Payload)
    BY WorkFacts DEF Contents, TypeInv, TypeOK
  <2>2. Len(work[p].waits) \in Nat
    BY <2>1
  <2>3. waitIndex[p] \in Nat
    BY DEF TypeInv, TypeOK, SubmitTypeOK
  <2>4. waitIndex[p] < Len(work[p].waits)
    BY <1>1 DEF AccumulateWait
  <2> QED
    BY <2>2, <2>3, <2>4
<1>n. PICK n \in 1..Len(work[p].waits) : n = waitIndex[p] + 1
  BY <1>w
<1>s. PICK s \in AnyPayload :
        s = WaitOf(p, n) /\ s = Recorded(work[p].waits[n])
  BY WaitFacts DEF WaitOf, TypeInv, TypeOK
<1>f. PICK f \in Queue : f = QueueOf(s)
  BY <1>s, PayloadFacts DEF TypeInv, TypeOK
<1>v. PICK v \in Nat : v = completionValue[s]
  BY DEF TypeInv, TypeOK, ResultTypeOK
<1>2. /\ s \in executed
      /\ EnqueueFenceWait(q, f, v)
      /\ waitIndex' = [waitIndex EXCEPT ![p] = n]
      /\ UNCHANGED <<program, work, nextPayload, batch, pendingSubmission,
                     toSubmit, executed, completionValue, maxAwait, ops,
                     gpuDone, completedValue>>
  <2>1. /\ s = Recorded(work[Front].waits[waitIndex[Front] + 1])
        /\ n = waitIndex[Front] + 1
    BY <1>1, <1>n, <1>s
  <2>2. /\ s \in executed
        /\ EnqueueFenceWait(q, f, v)
    BY <1>q, <1>f, <1>v, <2>1 DEF AccumulateWait
  <2>3. waitIndex' = [waitIndex EXCEPT ![p] = n]
    BY <1>1, <1>n DEF AccumulateWait
  <2> QED
    BY <2>2, <2>3 DEF AccumulateWait, engineVars, resultVars, gpuVars
<1>4. /\ v <= nextAwait'[q][f]
      /\ \E i \in 1..Len(fencesToAwait'[q]) : fencesToAwait'[q][i] = f
      /\ \A r, e \in Queue :
            /\ nextAwait[r][e] <= nextAwait'[r][e]
            /\ r # q \/ e # f => nextAwait'[r][e] = nextAwait[r][e]
            /\ (\E i \in 1..Len(fencesToAwait[r]) :
                    fencesToAwait[r][i] = e)
               => \E i \in 1..Len(fencesToAwait'[r]) :
                    fencesToAwait'[r][i] = e
  BY <1>2, EnqueueWaitFacts
<1>5. AwaitedInv'
  <2> SUFFICES ASSUME NEW r \in Queue, NEW e \in Queue
               PROVE  /\ LogAwaits(r, Len(ops[r]) + 1, e, maxAwait[r][e])'
                      /\ \/ nextAwait'[r][e] <= maxAwait'[r][e]
                         \/ \E i \in 1..Len(fencesToAwait'[r]) :
                                fencesToAwait'[r][i] = e
    BY DEF AwaitedInv
  <2>1. LogAwaits(r, Len(ops[r]) + 1, e, maxAwait[r][e])'
    BY <1>2 DEF WaitInv, AwaitedInv, LogAwaits
  <2>2. \/ nextAwait[r][e] <= maxAwait[r][e]
        \/ \E i \in 1..Len(fencesToAwait[r]) : fencesToAwait[r][i] = e
    BY DEF WaitInv, AwaitedInv
  <2>3. maxAwait' = maxAwait
    BY <1>2
  <2>4. CASE r = q /\ e = f
    BY <1>4, <2>1, <2>4
  <2>5. CASE r # q \/ e # f
    BY <1>4, <2>1, <2>2, <2>3, <2>5
  <2> QED
    BY <2>4, <2>5
<1>6. ASSUME NEW r \in Queue, NEW y \in AnyPayload, Noted(r, y)
      PROVE  Noted(r, y)'
  <2>1. QueueOf(y) \in Queue /\ completionValue[y] \in Nat
    BY PayloadFacts DEF TypeInv, TypeOK, ResultTypeOK
  <2>2. QueueOf(y)' = QueueOf(y)
    BY <1>2 DEF QueueOf
  <2>3. /\ nextAwait[r][QueueOf(y)] <= nextAwait'[r][QueueOf(y)]
        /\ nextAwait[r][QueueOf(y)] \in Nat
        /\ nextAwait'[r][QueueOf(y)] \in Nat
    BY ZenonT(30), <1>4, <2>1, TypeAccumulateWait DEF TypeInv, TypeOK, AwaitTypeOK
  <2> QED
    BY <1>2, <1>6, <2>1, <2>2, <2>3 DEF Noted
<1>7. Noted(q, s)'
  <2>1. QueueOf(s)' = f /\ completionValue'[s] = v /\ s \in executed'
    BY <1>2, <1>f, <1>v DEF QueueOf
  <2> QED
    BY <1>4, <2>1 DEF Noted
<1>8. NotedInv'
  <2>1. \A x : Submitted(x)' = Submitted(x)
    BY <1>2 DEF Submitted, Flushed
  <2>2. Submitted(p)
    BY <1>1 DEF SafeInv, OnceInv
  <2>3. \A x \in Payload : x # p => waitIndex'[x] = waitIndex[x]
    BY <1>2 DEF TypeInv, TypeOK, SubmitTypeOK
  <2>4. \A x \in Payload : ~ Submitted(x)' => waitIndex'[x] = 0
    BY <2>1, <2>2, <2>3 DEF WaitInv, NotedInv
  <2>5. ASSUME NEW r \in Queue, NEW i \in 1..Len(pendingSubmission[r]),
               NEW x \in Payload, x = pendingSubmission[r][i],
               NEW j \in 1..Len(work[x].waits), j <= waitIndex'[x]
        PROVE  Noted(r, WaitOf(x, j))'
    <3>1. WaitOf(x, j) \in AnyPayload /\ WaitOf(x, j)' = WaitOf(x, j)
      BY <1>2, WaitFacts DEF TypeInv, TypeOK, WaitOf
    <3>2. CASE j <= waitIndex[x]
      <4>1. Noted(r, WaitOf(x, j))
        BY <2>5, <3>2 DEF WaitInv, NotedInv
      <4>2. PICK y \in AnyPayload : y = WaitOf(x, j)
        BY <3>1
      <4>3. Noted(r, y)'
        BY <1>6, <4>1, <4>2
      <4> QED
        BY <1>2, <4>2, <4>3 DEF Noted, QueueOf, WaitOf
    <3>3. CASE ~ j <= waitIndex[x]
      <4>1. x = p
        BY <2>3, <2>5, <3>3
      <4>2. r = q
        <5>1. work[x].queue = r
          BY <2>5 DEF TypeInv, SubmitInv
        <5> QED
          BY <1>1, <4>1, <5>1
      <4>3. j = n
        <5>1. waitIndex'[p] = n
          BY <1>2 DEF TypeInv, TypeOK, SubmitTypeOK
        <5> QED
          BY <1>w, <1>n, <2>5, <3>3, <4>1, <5>1
      <4> QED
        BY <1>s, <1>2, <1>7, <4>1, <4>2, <4>3 DEF Noted, QueueOf, WaitOf
    <3> QED
      BY <3>2, <3>3
  <2>6. ASSUME NEW r \in Queue, NEW x \in Payload, toSubmit'[r] = Recorded(x),
               NEW j \in 1..Len(work[x].waits)
        PROVE  Noted(r, WaitOf(x, j))'
    <3>1. Noted(r, WaitOf(x, j)) /\ WaitOf(x, j) \in AnyPayload
      BY <1>2, <2>6, WaitFacts DEF WaitInv, NotedInv, TypeInv, TypeOK
    <3>2. PICK y \in AnyPayload : y = WaitOf(x, j)
      BY <3>1
    <3>3. Noted(r, y)'
      BY <1>6, <3>1, <3>2
    <3> QED
      BY <1>2, <3>2, <3>3 DEF Noted, QueueOf, WaitOf
  <2>7. \A r \in Queue : \A i \in 1..Len(pendingSubmission'[r]) :
            \A j \in 1..Len(work'[pendingSubmission'[r][i]].waits) :
                j <= waitIndex'[pendingSubmission'[r][i]] =>
                    Noted(r, WaitOf(pendingSubmission[r][i], j))'
    <3> SUFFICES ASSUME NEW r \in Queue,
                        NEW i \in 1..Len(pendingSubmission[r]),
                        NEW j \in 1..Len(work[pendingSubmission[r][i]].waits),
                        j <= waitIndex'[pendingSubmission[r][i]]
                 PROVE  Noted(r, WaitOf(pendingSubmission[r][i], j))'
      BY <1>2
    <3>1. PICK x \in Payload : x = pendingSubmission[r][i]
      BY DEF TypeInv, TypeOK, PendingTypeOK
    <3>2. Noted(r, WaitOf(x, j))'
      BY <2>5, <3>1
    <3> QED
      BY <1>2, <3>1, <3>2 DEF Noted, QueueOf, WaitOf
  <2> QED
    BY <1>2, <2>4, <2>6, <2>7 DEF NotedInv
<1>9. LogGrows
  BY <1>2, LogFacts DEF LogGrows
<1> QED
  BY <1>2, <1>5, <1>8, <1>9, LoggedUnchanged, WaitsPassedUnchanged DEF WaitInv

(***************************************************************************)
(* A payload is taken when it has got through all its waits.               *)
(***************************************************************************)
LEMMA WaitTakePayload ==
    ASSUME TypeInv, SafeInv, WaitInv, TakePayload
    PROVE  WaitInv'
<1>q. PICK q \in Queue : q = Current
  BY CurrentFacts DEF TypeInv, TypeOK
<1>g. PICK g \in Queue : g = GraphicsQueue[q]
  BY QueueFacts
<1>1. PICK f \in Payload :
        /\ f = Front
        /\ work[f].queue = q
        /\ f = pendingSubmission[q][1]
        /\ 1 \in 1..Len(pendingSubmission[q])
        /\ \A i \in 1..Len(Tail(pendingSubmission[q])) :
            Tail(pendingSubmission[q])[i] = pendingSubmission[q][i + 1]
  BY <1>q, FrontFacts DEF TakePayload
<1>2. work[f].barrier => g # q
  BY <1>1, <1>g, WorkFacts DEF TypeInv, TypeOK, WellFormed
<1>3. /\ spc = "visit"
      /\ waitIndex[f] = Len(work[f].waits)
      /\ pendingSubmission' = [pendingSubmission EXCEPT
                                  ![q] = Tail(pendingSubmission[q])]
      /\ toSubmit' = IF work[f].barrier
                     THEN [toSubmit EXCEPT ![q] = Recorded(f),
                                           ![g] = Barrier(f)]
                     ELSE [toSubmit EXCEPT ![q] = Recorded(f)]
      /\ UNCHANGED <<program, work, nextPayload, batch, waitIndex, executed,
                     completionValue, nextAwait, maxAwait, fencesToAwait,
                     ops, gpuDone, completedValue>>
  BY <1>1, <1>q, <1>g
     DEF TakePayload, engineVars, resultVars, awaitVars, gpuVars
<1>4. /\ \A r \in Queue : toSubmit[r] = NoPayload
      /\ toSubmit \in [Queue -> AnyPayload \union {NoPayload}]
      /\ pendingSubmission \in [Queue -> Seq(Payload)]
  BY <1>3 DEF TypeInv, TypeOK, SubmitInv, SubmitTypeOK, PendingTypeOK
<1>5. \A r \in Queue, x \in Payload :
        toSubmit'[r] = Recorded(x) => r = q /\ x = f
  <2>1. \A x \in Payload : Recorded(x) # NoPayload /\ Recorded(x) # Barrier(f)
    BY WorkloadAssumption DEF Recorded, Barrier
  <2>2. \A r \in Queue :
            \/ toSubmit'[r] = NoPayload
            \/ toSubmit'[r] = Recorded(f) /\ r = q
            \/ toSubmit'[r] = Barrier(f)
    <3>1. CASE work[f].barrier
      BY <1>2, <1>3, <1>4, <3>1
    <3>2. CASE ~ work[f].barrier
      BY <1>2, <1>3, <1>4, <3>2
    <3> QED
      BY <3>1, <3>2
  <2> QED
    BY <2>1, <2>2 DEF Recorded
<1>6. /\ \A r \in Queue : r # q =>
            pendingSubmission'[r] = pendingSubmission[r]
      /\ \A i \in 1..Len(pendingSubmission'[q]) :
            /\ i + 1 \in 1..Len(pendingSubmission[q])
            /\ pendingSubmission'[q][i] = pendingSubmission[q][i + 1]
  <2>1. /\ pendingSubmission'[q] = Tail(pendingSubmission[q])
        /\ \A r \in Queue : r # q =>
             pendingSubmission'[r] = pendingSubmission[r]
    BY <1>3, <1>4
  <2>2. Len(Tail(pendingSubmission[q])) = Len(pendingSubmission[q]) - 1
        /\ Len(pendingSubmission[q]) \in Nat
    BY <1>1, <1>4, HeadTailProperties
  <2> QED
    BY <1>1, <2>1, <2>2
<1>7. \A r, p, j : Noted(r, WaitOf(p, j))' = Noted(r, WaitOf(p, j))
  BY <1>3 DEF Noted, QueueOf, WaitOf
<1>8. NotedInv'
  <2>1. \A p \in Payload : ~ Submitted(p)' => waitIndex'[p] = 0
    BY <1>3 DEF WaitInv, NotedInv, Submitted, Flushed
  <2>2. ASSUME NEW r \in Queue, NEW i \in 1..Len(pendingSubmission'[r]),
               NEW p, p = pendingSubmission'[r][i],
               NEW j \in 1..Len(work[p].waits), j <= waitIndex[p]
        PROVE  Noted(r, WaitOf(p, j))
    <3>1. PICK k \in 1..Len(pendingSubmission[r]) :
            p = pendingSubmission[r][k]
      BY <1>6, <2>2
    <3> QED
      BY <2>2, <3>1 DEF WaitInv, NotedInv
  <2>3. \A r \in Queue : \A i \in 1..Len(pendingSubmission'[r]) :
            \A j \in 1..Len(work[pendingSubmission'[r][i]].waits) :
                j <= waitIndex[pendingSubmission'[r][i]] =>
                    Noted(r, WaitOf(pendingSubmission[r][i], j))'
    <3> SUFFICES ASSUME NEW r \in Queue,
                        NEW i \in 1..Len(pendingSubmission'[r]),
                        NEW j \in 1..Len(work[pendingSubmission'[r][i]].waits),
                        j <= waitIndex[pendingSubmission'[r][i]]
                 PROVE  Noted(r, WaitOf(pendingSubmission[r][i], j))'
      OBVIOUS
    <3>p. PICK p : p = pendingSubmission'[r][i]
      OBVIOUS
    <3>1. Noted(r, WaitOf(p, j))'
      BY <1>7, <2>2, <3>p
    <3> QED
      BY <3>p, <3>1 DEF Noted, QueueOf, WaitOf
  <2>4. ASSUME NEW r \in Queue, NEW p \in Payload, toSubmit'[r] = Recorded(p),
               NEW j \in 1..Len(work[p].waits)
        PROVE  Noted(r, WaitOf(p, j))'
    <3>1. r = q /\ p = f
      BY <1>5, <2>4
    <3>2. j <= waitIndex[f]
      BY <1>3, <2>4, <3>1
    <3>3. Noted(q, WaitOf(f, j))
      BY <1>1, <2>4, <3>1, <3>2 DEF WaitInv, NotedInv
    <3> QED
      BY <1>7, <3>1, <3>3
  <2> QED
    BY <1>3, <2>1, <2>3, <2>4 DEF NotedInv
<1>9. LogGrows
  BY <1>3, LogFacts DEF LogGrows
<1> QED
  BY <1>3, <1>8, <1>9, AwaitedUnchanged, LoggedUnchanged,
     WaitsPassedUnchanged DEF WaitInv

(***************************************************************************)
(* The calls of ExecutePayload come after every wait that was noted: there *)
(* is nothing left to await.                                               *)
(***************************************************************************)
LEMMA LogAwaitsNoted ==
    ASSUME TypeInv, AwaitedInv, NEW q \in Queue, fencesToAwait[q] = <<>>,
           NEW y \in AnyPayload, Noted(q, y)
    PROVE  LogAwaits(q, Len(ops[q]) + 1, QueueOf(y), completionValue[y])
<1>f. PICK f \in Queue : f = QueueOf(y)
  BY PayloadFacts DEF TypeInv, TypeOK
<1>v. PICK v \in Nat : v = completionValue[y]
  BY DEF TypeInv, TypeOK, ResultTypeOK
<1>1. v <= nextAwait[q][f] /\ nextAwait[q][f] <= maxAwait[q][f]
      /\ nextAwait[q][f] \in Nat /\ maxAwait[q][f] \in Nat
  BY <1>f, <1>v, AwaitTypes DEF AwaitedInv, Noted
<1>2. LogAwaits(q, Len(ops[q]) + 1, f, maxAwait[q][f])
  BY DEF AwaitedInv
<1>3. LogAwaits(q, Len(ops[q]) + 1, f, v)
  <2>1. CASE maxAwait[q][f] = 0
    BY <1>1, <2>1 DEF LogAwaits
  <2>2. CASE maxAwait[q][f] # 0
    <3>1. PICK k \in 1..Len(ops[q]) :
            /\ k < Len(ops[q]) + 1
            /\ ops[q][k].kind = "wait"
            /\ ops[q][k].queue = f
            /\ maxAwait[q][f] <= ops[q][k].value
      BY <1>2, <2>2 DEF LogAwaits
    <3>2. ops[q][k].value \in Nat
      BY <3>1, LogFacts, WaitOpFacts
    <3>3. v <= ops[q][k].value
      BY <1>1, <3>1, <3>2
    <3> QED
      BY <3>1, <3>3 DEF LogAwaits
  <2> QED
    BY <2>1, <2>2
<1> QED
  BY <1>3, <1>f, <1>v

LEMMA LogAwaitsEnd ==
    ASSUME TypeInv, TypeInv', LogGrows, NEW q \in Queue, NEW f, NEW v,
           LogAwaits(q, Len(ops[q]) + 1, f, v)
    PROVE  LogAwaits(q, Len(ops[q]) + 1, f, v)'
<1>1. Len(ops[q]) \in Nat /\ Len(ops'[q]) \in Nat
      /\ Len(ops[q]) <= Len(ops'[q])
  <2>1. Len(ops[q]) \in Nat
    BY LogFacts
  <2>2. Len(ops'[q]) \in Nat
    BY DEF TypeInv, TypeOK, GpuTypeOK
  <2> QED
    BY <2>1, <2>2 DEF LogGrows
<1>2. CASE v = 0
  BY <1>2 DEF LogAwaits
<1>3. CASE v # 0
  <2>1. PICK k \in 1..Len(ops[q]) :
          /\ ops[q][k].kind = "wait"
          /\ ops[q][k].queue = f
          /\ v <= ops[q][k].value
    BY <1>3 DEF LogAwaits
  <2>2. k \in 1..Len(ops'[q]) /\ k < Len(ops'[q]) + 1
    BY <1>1
  <2>3. ops'[q][k] = ops[q][k]
    BY DEF LogGrows
  <2> QED
    BY <2>1, <2>2, <2>3 DEF LogAwaits
<1> QED
  BY <1>2, <1>3

LEMMA AwaitedKept ==
    ASSUME TypeInv, TypeInv', LogGrows, AwaitedInv, UNCHANGED maxAwait,
           \A r, e \in Queue :
                /\ nextAwait'[r][e] = nextAwait[r][e]
                /\ (\E i \in 1..Len(fencesToAwait[r]) :
                        fencesToAwait[r][i] = e)
                   => \E i \in 1..Len(fencesToAwait'[r]) :
                        fencesToAwait'[r][i] = e
    PROVE  AwaitedInv'
<1>1. ASSUME NEW q \in Queue, NEW f \in Queue
      PROVE  LogAwaits(q, Len(ops[q]) + 1, f, maxAwait[q][f])'
  <2>1. PICK v : v = maxAwait[q][f]
    OBVIOUS
  <2>2. LogAwaits(q, Len(ops[q]) + 1, f, v)'
    BY <2>1, LogAwaitsEnd DEF AwaitedInv
  <2> QED
    BY <2>1, <2>2 DEF LogAwaits
<1> QED
  BY <1>1 DEF AwaitedInv

(***************************************************************************)
(* ExecutePayload of queue q, which is no recorded payload or has nothing  *)
(* left to await.                                                          *)
(***************************************************************************)
LEMMA WaitExecute ==
    ASSUME TypeInv, TypeInv', SafeInv, WaitInv, NEW q \in Queue,
           toSubmit[q] \in AnyPayload, ExecutePayload(q),
           UNCHANGED <<program, work, nextPayload, batch, pendingSubmission,
                       waitIndex, maxAwait, gpuDone, completedValue>>,
           \A r, e \in Queue :
                /\ nextAwait'[r][e] = nextAwait[r][e]
                /\ (\E i \in 1..Len(fencesToAwait[r]) :
                        fencesToAwait[r][i] = e)
                   => \E i \in 1..Len(fencesToAwait'[r]) :
                        fencesToAwait'[r][i] = e,
           \A p \in Payload : toSubmit[q] = Recorded(p) =>
                fencesToAwait[q] = <<>>
    PROVE  WaitInv'
<1>x. PICK x \in AnyPayload : x = toSubmit[q]
  OBVIOUS
<1>1. /\ executed' = executed \union {x}
      /\ toSubmit' = [toSubmit EXCEPT ![q] = NoPayload]
      /\ x \notin executed
      /\ x # NoPayload
      /\ executed \subseteq AnyPayload
  BY <1>x, WorkloadAssumption DEF ExecutePayload, SafeInv, OnceInv,
     AnyPayload, TypeInv, TypeOK, ResultTypeOK
<1>2. /\ \A r \in Queue : r # q => ops'[r] = ops[r]
      /\ \A r \in Queue : Len(ops'[r]) >= Len(ops[r])
      /\ \A r \in Queue : \A i \in 1..Len(ops[r]) : ops'[r][i] = ops[r][i]
      /\ ~ HasLists(x) => ops' = ops
      /\ HasLists(x) =>
            /\ Len(ops'[q]) = Len(ops[q]) + 2
            /\ ops'[q][Len(ops[q]) + 1] = ExecuteOp(x)
            /\ ops'[q][Len(ops[q]) + 2] = SignalOp(fenceValue[q] + 1)
  BY <1>x, ExecuteLog DEF TypeInv
<1>3. LogGrows
  BY <1>2 DEF LogGrows
<1>4. \A y \in executed : completionValue'[y] = completionValue[y]
  <2>1. PICK v : completionValue' = [completionValue EXCEPT ![x] = v]
    BY <1>x DEF ExecutePayload
  <2>2. completionValue \in [AnyPayload -> Nat]
    BY DEF TypeInv, TypeOK, ResultTypeOK
  <2> QED
    BY <1>1, <2>1, <2>2
<1>5. \A y : QueueOf(y)' = QueueOf(y)
  BY DEF QueueOf
<1>6. ASSUME NEW r \in Queue, NEW y \in AnyPayload, Noted(r, y)
      PROVE  Noted(r, y)'
  <2>1. QueueOf(y) \in Queue
    BY PayloadFacts DEF TypeInv, TypeOK
  <2>2. nextAwait'[r][QueueOf(y)] = nextAwait[r][QueueOf(y)]
    BY <2>1
  <2>3. completionValue'[y] = completionValue[y] /\ y \in executed'
    BY <1>1, <1>4, <1>6 DEF Noted
  <2> QED
    BY <1>5, <1>6, <2>2, <2>3 DEF Noted
<1>7. ASSUME NEW r \in Queue, NEW p \in Payload,
             NEW j \in 1..Len(work[p].waits), Noted(r, WaitOf(p, j))
      PROVE  Noted(r, WaitOf(p, j))'
  <2>1. PICK y \in AnyPayload : y = WaitOf(p, j)
    BY WaitFacts DEF TypeInv, TypeOK
  <2>2. Noted(r, y)'
    BY <1>6, <1>7, <2>1
  <2> QED
    BY <2>1, <2>2 DEF Noted, QueueOf, WaitOf
<1>8. AwaitedInv'
  BY <1>3, AwaitedKept DEF WaitInv
<1>9. NotedInv'
  <2>1. \A p \in Payload : ~ Submitted(p)' => waitIndex'[p] = 0
    BY DEF WaitInv, NotedInv, Submitted, Flushed
  <2>2. \A r \in Queue : \A i \in 1..Len(pendingSubmission'[r]) :
            \A j \in 1..Len(work[pendingSubmission'[r][i]].waits) :
                j <= waitIndex[pendingSubmission'[r][i]] =>
                    Noted(r, WaitOf(pendingSubmission[r][i], j))'
    <3> SUFFICES ASSUME NEW r \in Queue,
                        NEW i \in 1..Len(pendingSubmission[r]),
                        NEW j \in 1..Len(work[pendingSubmission[r][i]].waits),
                        j <= waitIndex[pendingSubmission[r][i]]
                 PROVE  Noted(r, WaitOf(pendingSubmission[r][i], j))'
      OBVIOUS
    <3>p. PICK p \in Payload : p = pendingSubmission[r][i]
      BY DEF TypeInv, TypeOK, PendingTypeOK
    <3>1. Noted(r, WaitOf(p, j))'
      BY <1>7, <3>p DEF WaitInv, NotedInv
    <3> QED
      BY <3>p, <3>1 DEF Noted, QueueOf, WaitOf
  <2>3. ASSUME NEW r \in Queue, NEW p \in Payload, toSubmit'[r] = Recorded(p),
               NEW j \in 1..Len(work[p].waits)
        PROVE  Noted(r, WaitOf(p, j))'
    <3>1. toSubmit[r] = Recorded(p)
      <4>1. Recorded(p) # NoPayload
        BY WorkloadAssumption DEF Recorded
      <4> QED
        BY <1>1, <2>3, <4>1 DEF TypeInv, TypeOK, SubmitTypeOK
    <3> QED
      BY <1>7, <3>1 DEF WaitInv, NotedInv
  <2> QED
    BY <2>1, <2>2, <2>3 DEF NotedInv
<1>10. WaitsLogged'
  <2>1. ASSUME NEW r \in Queue, NEW i \in 1..Len(ops'[r]), NEW p \in Payload,
               ops'[r][i] = ExecuteOp(Recorded(p)),
               NEW j \in 1..Len(work[p].waits)
        PROVE  /\ WaitOf(p, j)' \in executed'
               /\ LogAwaits(r, i, QueueOf(WaitOf(p, j)),
                            completionValue[WaitOf(p, j)])'
    <3>y. PICK y \in AnyPayload : y = WaitOf(p, j)
      BY WaitFacts DEF TypeInv, TypeOK
    <3>f. PICK f : f = QueueOf(y)
      OBVIOUS
    <3>v. PICK v : v = completionValue[y]
      OBVIOUS
    <3>1. /\ y \in executed
          /\ LogAwaits(r, i, f, v)
      <4>1. CASE i \in 1..Len(ops[r])
        BY <1>2, <2>1, <3>y, <3>f, <3>v, <4>1 DEF WaitInv, WaitsLogged
      <4>2. CASE i \notin 1..Len(ops[r])
        <5>1. r = q /\ HasLists(x)
          BY <1>2, <4>2
        <5>2. Len(ops[q]) \in Nat
          BY LogFacts
        <5>3. i \in {Len(ops[q]) + 1, Len(ops[q]) + 2}
          BY <1>2, <4>2, <5>1, <5>2
        <5>4. i # Len(ops[q]) + 2
          BY <1>2, <2>1, <5>1 DEF ExecuteOp, SignalOp
        <5>5. i = Len(ops[q]) + 1 /\ x = Recorded(p)
          BY <1>2, <2>1, <5>1, <5>3, <5>4 DEF ExecuteOp
        <5>6. Noted(q, y)
          BY <1>x, <3>y, <5>5 DEF WaitInv, NotedInv
        <5>7. fencesToAwait[q] = <<>>
          BY <1>x, <5>5
        <5> QED
          BY <3>f, <3>v, <5>1, <5>5, <5>6, <5>7, LogAwaitsNoted
             DEF Noted, WaitInv
      <4> QED
        BY <4>1, <4>2
    <3>2. LogAwaits(r, i, f, v)'
      BY <1>3, <3>1, LogAwaitsGrows
    <3>3. y \in executed' /\ QueueOf(y)' = f /\ completionValue'[y] = v
      BY <1>1, <1>4, <1>5, <3>f, <3>v, <3>1
    <3>4. WaitOf(p, j)' = y
      BY <3>y DEF WaitOf
    <3> QED
      BY <3>2, <3>3, <3>4 DEF LogAwaits, QueueOf
  <2> QED
    BY <2>1 DEF WaitsLogged
<1>11. WaitsPassed'
  BY <1>3, WaitsPassedUnchanged DEF WaitInv
<1> QED
  BY <1>8, <1>9, <1>10, <1>11 DEF WaitInv

(***************************************************************************)
(* Barrier work is awaited with a value that adds nothing.                 *)
(***************************************************************************)
LEMMA WaitExecuteBarrier ==
    ASSUME TypeInv, TypeInv', SafeInv, WaitInv, ExecuteBarrier
    PROVE  WaitInv'
<1>c. PICK c \in Queue : c = Current
  BY CurrentFacts DEF TypeInv, TypeOK
<1>g. PICK g \in Queue : g = GraphicsQueue[c]
  BY QueueFacts
<1>1. PICK p \in Payload : toSubmit[g] = Barrier(p)
  BY <1>c, <1>g DEF TypeInv, SubmitInv, ExecuteBarrier
<1>2. /\ toSubmit[g] \in AnyPayload
      /\ \A x \in Payload : toSubmit[g] # Recorded(x)
  <2>1. Barrier(p) \in AnyPayload
    BY PayloadFacts DEF TypeInv, TypeOK
  <2>2. \A x \in Payload : Barrier(p) # Recorded(x)
    BY DEF Recorded, Barrier
  <2> QED
    BY <1>1, <2>1, <2>2
<1>3. /\ ExecutePayload(g)
      /\ EnqueueFenceWait(c, g, 0)
      /\ UNCHANGED <<program, work, nextPayload, batch, pendingSubmission,
                     waitIndex, maxAwait, gpuDone, completedValue>>
  BY <1>c, <1>g DEF ExecuteBarrier, ExecuteReturnValue, engineVars, gpuVars
<1>4. \A r, e \in Queue : nextAwait'[r][e] = nextAwait[r][e]
  <2>1. nextAwait' = [nextAwait EXCEPT ![c][g] = MaxOf(@, 0)]
    BY <1>3 DEF EnqueueFenceWait
  <2>2. nextAwait \in [Queue -> [Queue -> Nat]]
    BY DEF TypeInv, TypeOK, AwaitTypeOK
  <2>3. MaxOf(nextAwait[c][g], 0) = nextAwait[c][g]
    <3>1. nextAwait[c][g] \in Nat
      BY <2>2
    <3> QED
      BY <3>1 DEF MaxOf
  <2> QED
    BY <2>1, <2>2, <2>3
<1>5. \A r, e \in Queue :
        (\E i \in 1..Len(fencesToAwait[r]) : fencesToAwait[r][i] = e)
        => \E i \in 1..Len(fencesToAwait'[r]) : fencesToAwait'[r][i] = e
  <2>1. PICK z \in Nat : z = 0
    OBVIOUS
  <2>2. EnqueueFenceWait(c, g, z)
    BY <1>3, <2>1
  <2>3. \A r, e \in Queue :
            /\ nextAwait[r][e] <= nextAwait'[r][e]
            /\ r # c \/ e # g => nextAwait'[r][e] = nextAwait[r][e]
            /\ (\E i \in 1..Len(fencesToAwait[r]) :
                    fencesToAwait[r][i] = e)
               => \E i \in 1..Len(fencesToAwait'[r]) :
                    fencesToAwait'[r][i] = e
    BY SMTT(30), <2>2, EnqueueWaitFacts
  <2> QED
    BY <2>3
<1> QED
  BY <1>2, <1>3, <1>4, <1>5, WaitExecute

LEMMA WaitExecuteCurrent ==
    ASSUME TypeInv, TypeInv', SafeInv, WaitInv, ExecuteCurrent
    PROVE  WaitInv'
<1>c. PICK c \in Queue : c = Current
  BY CurrentFacts DEF TypeInv, TypeOK
<1>1. PICK p \in Payload : toSubmit[c] = Recorded(p)
  BY <1>c DEF TypeInv, SubmitInv, ExecuteCurrent
<1>2. /\ toSubmit[c] \in AnyPayload
      /\ fencesToAwait[c] = <<>>
      /\ ExecutePayload(c)
      /\ UNCHANGED <<program, work, nextPayload, batch, pendingSubmission,
                     waitIndex, nextAwait, maxAwait, fencesToAwait, gpuDone,
                     completedValue>>
  BY <1>c, <1>1, PayloadFacts
     DEF TypeInv, TypeOK, ExecuteCurrent, engineVars, awaitVars, gpuVars
<1> QED
  BY <1>2, WaitExecute

(***************************************************************************)
(* A fence leaves FencesToAwait when what was to be awaited of it is.      *)
(***************************************************************************)
LEMMA WaitFlushFenceWait ==
    ASSUME TypeInv, TypeInv', SafeInv, WaitInv, FlushFenceWait
    PROVE  WaitInv'
<1>q. PICK q \in Queue : q = Current
  BY CurrentFacts DEF TypeInv, TypeOK
<1>f. PICK f \in Queue : /\ f = Head(fencesToAwait[q])
                         /\ f = fencesToAwait[q][1]
  BY <1>q, AwaitTypes, HeadTailProperties DEF FlushFenceWait
<1>v. PICK v \in Nat : v = nextAwait[q][f]
  BY AwaitTypes
<1>1. /\ fencesToAwait[q] # <<>>
      /\ fencesToAwait' = [fencesToAwait EXCEPT ![q] = Tail(@)]
      /\ v > maxAwait[q][f] =>
            /\ ops' = [ops EXCEPT ![q] = Append(@, WaitOp(f, v))]
            /\ maxAwait' = [maxAwait EXCEPT ![q][f] = v]
      /\ ~ v > maxAwait[q][f] => UNCHANGED <<ops, maxAwait>>
      /\ UNCHANGED <<program, work, nextPayload, batch, pendingSubmission,
                     toSubmit, waitIndex, executed, completionValue,
                     nextAwait, gpuDone, completedValue>>
  BY <1>q, <1>f, <1>v
     DEF FlushFenceWait, MustAwait, engineVars, submitVars, resultVars, gpuVars
<1>2. \A r \in Queue : \A e \in Queue :
        (\E i \in 1..Len(fencesToAwait[r]) : fencesToAwait[r][i] = e)
        => \/ r = q /\ e = f
           \/ \E i \in 1..Len(fencesToAwait'[r]) : fencesToAwait'[r][i] = e
  <2>1. /\ fencesToAwait \in [Queue -> Seq(Queue)]
        /\ fencesToAwait[q] \in Seq(Queue)
    BY DEF TypeInv, TypeOK, AwaitTypeOK
  <2>2. /\ fencesToAwait'[q] = Tail(fencesToAwait[q])
        /\ \A r \in Queue : r # q => fencesToAwait'[r] = fencesToAwait[r]
    BY <1>1, <2>1
  <2>3. /\ Len(fencesToAwait[q]) \in Nat
        /\ Len(fencesToAwait'[q]) = Len(fencesToAwait[q]) - 1
        /\ \A i \in 1..Len(fencesToAwait'[q]) :
              fencesToAwait'[q][i] = fencesToAwait[q][i + 1]
    BY <1>1, <2>1, <2>2, HeadTailProperties
  <2>4. ASSUME NEW e \in Queue, NEW i \in 1..Len(fencesToAwait[q]),
               fencesToAwait[q][i] = e, e # f
        PROVE  \E k \in 1..Len(fencesToAwait'[q]) : fencesToAwait'[q][k] = e
    <3>1. i # 1
      BY <1>f, <2>4
    <3>2. i - 1 \in 1..Len(fencesToAwait'[q]) /\ (i - 1) + 1 = i
      BY <2>3, <3>1
    <3> QED
      BY <2>3, <2>4, <3>2
  <2> QED
    BY <2>2, <2>4
<1>3. LogGrows
  <2>1. CASE v > maxAwait[q][f]
    <3>1. ops[q] \in Seq(Op) /\ WaitOp(f, v) \in Op
      BY LogFacts DEF WaitOp, Op
    <3>2. /\ ops'[q] = Append(ops[q], WaitOp(f, v))
          /\ \A r \in Queue : r # q => ops'[r] = ops[r]
      BY <1>1, <2>1 DEF TypeInv, TypeOK, GpuTypeOK
    <3>3. /\ Len(ops'[q]) >= Len(ops[q])
          /\ \A i \in 1..Len(ops[q]) : ops'[q][i] = ops[q][i]
      <4>1. Len(ops'[q]) = Len(ops[q]) + 1 /\ Len(ops[q]) \in Nat
        BY <3>1, <3>2, AppendProperties
      <4>2. \A i \in 1..Len(ops[q]) : ops'[q][i] = ops[q][i]
        BY <3>1, <3>2, AppendProperties
      <4> QED
        BY <4>1, <4>2
    <3>4. ASSUME NEW r \in Queue, r # q
          PROVE  Len(ops'[r]) >= Len(ops[r])
      BY <3>2, <3>4, LogFacts
    <3> QED
      BY <3>2, <3>3, <3>4 DEF LogGrows
  <2>2. CASE ~ v > maxAwait[q][f]
    BY <1>1, <2>2, LogFacts DEF LogGrows
  <2> QED
    BY <2>1, <2>2
<1>4. AwaitedInv'
  <2>t. /\ maxAwait \in [Queue -> [Queue -> Nat]]
        /\ maxAwait[q][f] \in Nat
    BY DEF TypeInv, TypeOK, AwaitTypeOK
  <2>1. ASSUME NEW r \in Queue, NEW e \in Queue, r # q \/ e # f
        PROVE  /\ LogAwaits(r, Len(ops[r]) + 1, e, maxAwait[r][e])'
               /\ \/ nextAwait'[r][e] <= maxAwait'[r][e]
                  \/ \E i \in 1..Len(fencesToAwait'[r]) :
                        fencesToAwait'[r][i] = e
    <3>1. maxAwait'[r][e] = maxAwait[r][e]
      <4>1. CASE v > maxAwait[q][f]
        <5>1. maxAwait' = [maxAwait EXCEPT ![q] = [@ EXCEPT ![f] = v]]
          BY <1>1, <4>1
        <5>2. maxAwait \in [Queue -> [Queue -> Nat]]
          BY <2>t
        <5>3. CASE r # q
          BY <5>1, <5>2, <5>3
        <5>4. CASE r = q /\ e # f
          BY <5>1, <5>2, <5>4
        <5> QED
          BY <2>1, <5>3, <5>4
      <4>2. CASE ~ v > maxAwait[q][f]
        BY <1>1, <4>2
      <4> QED
        BY <4>1, <4>2
    <3>2. PICK m : m = maxAwait[r][e]
      OBVIOUS
    <3>3. LogAwaits(r, Len(ops[r]) + 1, e, m)'
      BY <1>3, <3>2, LogAwaitsEnd DEF WaitInv, AwaitedInv
    <3>4. LogAwaits(r, Len(ops[r]) + 1, e, maxAwait[r][e])'
      BY <3>1, <3>2, <3>3 DEF LogAwaits
    <3>5. \/ nextAwait[r][e] <= maxAwait[r][e]
          \/ \E i \in 1..Len(fencesToAwait[r]) : fencesToAwait[r][i] = e
      BY DEF WaitInv, AwaitedInv
    <3> QED
      BY <1>1, <1>2, <2>1, <3>1, <3>4, <3>5
  <2>2. /\ LogAwaits(q, Len(ops[q]) + 1, f, maxAwait[q][f])'
        /\ nextAwait'[q][f] <= maxAwait'[q][f]
    <3>1. CASE v > maxAwait[q][f]
      <4>1. maxAwait'[q][f] = v
        BY <1>1, <2>t, <3>1
      <4>2. ops[q] \in Seq(Op) /\ WaitOp(f, v) \in Op
        BY LogFacts DEF WaitOp, Op
      <4>3. ops'[q] = Append(ops[q], WaitOp(f, v))
        BY <1>1, <3>1 DEF TypeInv, TypeOK, GpuTypeOK
      <4>4. /\ Len(ops'[q]) = Len(ops[q]) + 1 /\ Len(ops[q]) \in Nat
            /\ ops'[q][Len(ops[q]) + 1] = WaitOp(f, v)
        BY <4>2, <4>3, AppendProperties
      <4>5. PICK k \in 1..Len(ops'[q]) :
                k < Len(ops'[q]) + 1 /\ ops'[q][k] = WaitOp(f, v)
        BY <4>4
      <4>6. /\ ops'[q][k].kind = "wait" /\ ops'[q][k].queue = f
            /\ v <= ops'[q][k].value
        BY <4>5 DEF WaitOp
      <4>7. nextAwait'[q][f] <= maxAwait'[q][f]
        BY <1>1, <1>v, <4>1
      <4> QED
        BY <4>1, <4>5, <4>6, <4>7 DEF LogAwaits
    <3>2. CASE ~ v > maxAwait[q][f]
      <4>1. PICK m : m = maxAwait[q][f]
        OBVIOUS
      <4>2. LogAwaits(q, Len(ops[q]) + 1, f, m)'
        BY <1>3, <4>1, LogAwaitsEnd DEF WaitInv, AwaitedInv
      <4>3. maxAwait'[q][f] = m
        BY <1>1, <3>2, <4>1
      <4>4. nextAwait'[q][f] <= maxAwait'[q][f]
        BY <1>1, <1>v, <2>t, <3>2
      <4> QED
        BY <4>2, <4>3, <4>4 DEF LogAwaits
    <3> QED
      BY <3>1, <3>2
  <2> QED
    BY <2>1, <2>2 DEF AwaitedInv
<1>5. NotedInv'
  <2>1. \A p : Submitted(p) => Submitted(p)'
    BY <1>1 DEF Submitted, Flushed
  <2> QED
    BY <1>1, <2>1, NotedUnchanged DEF WaitInv
<1>6. WaitsLogged'
  <2>1. ASSUME NEW r \in Queue, NEW i \in 1..Len(ops'[r]), NEW p \in Payload,
               ops'[r][i] = ExecuteOp(Recorded(p))
        PROVE  i \in 1..Len(ops[r]) /\ ops[r][i] = ExecuteOp(Recorded(p))
    <3>1. CASE v > maxAwait[q][f] /\ r = q
      <4>1. ops[q] \in Seq(Op) /\ WaitOp(f, v) \in Op
        BY LogFacts DEF WaitOp, Op
      <4>2. ops'[q] = Append(ops[q], WaitOp(f, v))
        BY <1>1, <3>1 DEF TypeInv, TypeOK, GpuTypeOK
      <4>3. /\ Len(ops'[q]) = Len(ops[q]) + 1 /\ Len(ops[q]) \in Nat
            /\ ops'[q][Len(ops[q]) + 1] = WaitOp(f, v)
        BY <4>1, <4>2, AppendProperties
      <4>4. i # Len(ops[q]) + 1
        BY <2>1, <3>1, <4>3 DEF WaitOp, ExecuteOp
      <4>5. i \in 1..Len(ops[q])
        BY <3>1, <4>3, <4>4
      <4> QED
        BY <1>3, <2>1, <3>1, <4>5 DEF LogGrows
    <3>2. CASE ~ (v > maxAwait[q][f] /\ r = q)
      <4>1. ops'[r] = ops[r]
        BY <1>1, <3>2 DEF TypeInv, TypeOK, GpuTypeOK
      <4> QED
        BY <2>1, <4>1
    <3> QED
      BY <3>1, <3>2
  <2>2. ASSUME NEW r \in Queue, NEW i \in 1..Len(ops[r]), NEW p \in Payload,
               ops[r][i] = ExecuteOp(Recorded(p)),
               NEW j \in 1..Len(work[p].waits)
        PROVE  /\ WaitOf(p, j)' \in executed'
               /\ LogAwaits(r, i, QueueOf(WaitOf(p, j)),
                            completionValue[WaitOf(p, j)])'
    <3>y. PICK y : y = WaitOf(p, j)
      OBVIOUS
    <3>f. PICK e : e = QueueOf(y)
      OBVIOUS
    <3>v. PICK u : u = completionValue[y]
      OBVIOUS
    <3>1. y \in executed /\ LogAwaits(r, i, e, u)
      BY <2>2, <3>y, <3>f, <3>v DEF WaitInv, WaitsLogged
    <3>2. LogAwaits(r, i, e, u)'
      BY <1>3, <3>1, LogAwaitsGrows
    <3>3. y \in executed' /\ QueueOf(y)' = e /\ completionValue'[y] = u
      BY <1>1, <3>f, <3>v, <3>1 DEF QueueOf
    <3>4. WaitOf(p, j)' = y
      BY <1>1, <3>y DEF WaitOf
    <3> QED
      BY <3>2, <3>3, <3>4 DEF LogAwaits, QueueOf
  <2> QED
    BY <1>1, <2>1, <2>2 DEF WaitsLogged
<1>7. WaitsPassed'
  BY <1>1, <1>3, WaitsPassedUnchanged DEF WaitInv
<1> QED
  BY <1>4, <1>5, <1>6, <1>7 DEF WaitInv

-----------------------------------------------------------------------------
(* The GPU.                                                                *)

(***************************************************************************)
(* A call is carried out: if it is a wait, the fence has passed it.        *)
(***************************************************************************)
LEMMA PassedStep ==
    ASSUME TypeInv, WaitsPassed, NEW q \in Queue, gpuDone[q] < Len(ops[q]),
           gpuDone' = [gpuDone EXCEPT ![q] = @ + 1], ops' = ops,
           \A r \in Queue : completedValue[r] <= completedValue'[r],
           \A r \in Queue : completedValue'[r] \in Nat,
           NextOp(q).kind = "wait" =>
                completedValue[NextOp(q).queue] >= NextOp(q).value
    PROVE  WaitsPassed'
<1>n. PICK n \in 1..Len(ops[q]) : n = gpuDone[q] + 1
  BY LogFacts
<1>1. /\ gpuDone'[q] = n
      /\ \A r \in Queue : r # q => gpuDone'[r] = gpuDone[r]
      /\ gpuDone[q] \in Nat
  BY <1>n DEF TypeInv, TypeOK, GpuTypeOK
<1>2. ASSUME NEW r \in Queue, NEW k \in 1..gpuDone'[r],
             ops[r][k].kind = "wait"
      PROVE  /\ ops[r][k].queue \in Queue
             /\ ops[r][k].value <= completedValue'[ops[r][k].queue]
  <2>1. k \in 1..Len(ops[r]) /\ (k \in 1..gpuDone[r] \/ (r = q /\ k = n))
    <3>1. CASE r = q
      BY <1>n, <1>1, <3>1, LogFacts
    <3>2. CASE r # q
      BY <1>1, <3>2, LogFacts
    <3> QED
      BY <3>1, <3>2
  <2>2. PICK e \in Queue : e = ops[r][k].queue
    BY <1>2, <2>1, LogFacts, WaitOpFacts
  <2>3. PICK v \in Nat : v = ops[r][k].value
    BY <1>2, <2>1, LogFacts, WaitOpFacts
  <2>4. v <= completedValue[e] /\ completedValue[e] \in Nat
    <3>1. CASE k \in 1..gpuDone[r]
      BY <1>2, <2>2, <2>3, <3>1, LogFacts DEF WaitsPassed
    <3>2. CASE r = q /\ k = n
      BY <1>2, <1>n, <2>2, <2>3, <3>2, LogFacts DEF NextOp
    <3> QED
      BY <2>1, <3>1, <3>2
  <2>5. completedValue[e] <= completedValue'[e] /\ completedValue'[e] \in Nat
    BY <2>2
  <2>6. v <= completedValue'[e]
    BY <2>4, <2>5
  <2> QED
    BY <2>2, <2>3, <2>6
<1> QED
  BY <1>2 DEF WaitsPassed

LEMMA WaitGpu ==
    ASSUME TypeInv, SafeInv, WaitInv, NEW q \in Queue, Gpu(q)
    PROVE  WaitInv'
<1>1. /\ UNCHANGED <<program, work, nextPayload, batch, pendingSubmission,
                     toSubmit, waitIndex, executed, completionValue,
                     nextAwait, maxAwait, fencesToAwait, ops>>
      /\ gpuDone[q] < Len(ops[q])
      /\ gpuDone' = [gpuDone EXCEPT ![q] = @ + 1]
  BY DEF Gpu, GpuWait, GpuExecute, GpuSignal, GpuReady, engineVars,
     submitVars, resultVars, awaitVars
<1>2. AwaitedInv'
  BY <1>1, AwaitedUnchanged DEF WaitInv
<1>3. NotedInv'
  <2>1. \A p : Submitted(p) => Submitted(p)'
    BY <1>1 DEF Submitted, Flushed
  <2> QED
    BY <1>1, <2>1, NotedUnchanged DEF WaitInv
<1>4. WaitsLogged'
  BY <1>1, LoggedUnchanged DEF WaitInv
<1>5. WaitsPassed'
  <2>1. CASE GpuWait(q) \/ GpuExecute(q)
    <3>1. /\ completedValue' = completedValue
          /\ NextOp(q).kind = "wait" =>
                completedValue[NextOp(q).queue] >= NextOp(q).value
      BY <2>1 DEF GpuWait, GpuExecute, GpuReady
    <3>2. \A r \in Queue : /\ completedValue'[r] \in Nat
                           /\ completedValue[r] <= completedValue'[r]
      BY <3>1, LogFacts
    <3> QED
      BY <1>1, <3>1, <3>2, PassedStep DEF WaitInv
  <2>2. CASE GpuSignal(q)
    <3>n. PICK n \in 1..Len(ops[q]) : n = gpuDone[q] + 1
      BY <1>1, LogFacts
    <3>v. PICK v \in Nat : v = ops[q][n].value
      BY <2>2, <3>n, LogFacts, OpFacts DEF GpuSignal, GpuReady, NextOp
    <3>1. /\ ops[q][n].kind = "signal"
          /\ NextOp(q).kind # "wait"
          /\ completedValue' = [completedValue EXCEPT ![q] = v]
      BY <2>2, <3>n, <3>v DEF GpuSignal, GpuReady, NextOp
    <3>2. v > completedValue[q] /\ completedValue[q] \in Nat
      <4>1. v <= completedValue[q] => n <= gpuDone[q]
        BY <3>1, <3>v DEF SafeInv, LogInv, SignalsRise
      <4>2. completedValue[q] \in Nat /\ gpuDone[q] \in Nat
        BY LogFacts
      <4> QED
        BY <3>n, <4>1, <4>2
    <3>3. \A r \in Queue : /\ completedValue'[r] \in Nat
                           /\ completedValue[r] <= completedValue'[r]
      BY <3>1, <3>2 DEF TypeInv, TypeOK, GpuTypeOK
    <3> QED
      BY <1>1, <3>1, <3>3, PassedStep DEF WaitInv
  <2> QED
    BY <2>1, <2>2 DEF Gpu
<1> QED
  BY <1>2, <1>3, <1>4, <1>5 DEF WaitInv

-----------------------------------------------------------------------------
(* The invariant as a whole.                                               *)

LEMMA WaitInit == Init => WaitInv
<1> SUFFICES ASSUME Init PROVE WaitInv
  OBVIOUS
<1>1. AwaitedInv
  BY DEF Init, AwaitedInv, LogAwaits
<1>2. NotedInv
  BY WorkloadAssumption DEF Init, NotedInv, Recorded
<1>3. WaitsLogged /\ WaitsPassed
  BY DEF Init, WaitsLogged, WaitsPassed
<1> QED
  BY <1>1, <1>2, <1>3 DEF WaitInv

LEMMA WaitNext == TypeInv /\ SafeInv /\ WaitInv /\ [Next]_vars => WaitInv'
<1> SUFFICES ASSUME TypeInv, SafeInv, WaitInv, [Next]_vars PROVE WaitInv'
  OBVIOUS
<1>t. TypeInv'
  BY TypeNext
<1>1. ASSUME NEW t \in EngineThread, Engine(t) PROVE WaitInv'
  <2>1. CASE KickSubmission(t) \/ FlushReturns(t)
    BY <2>1, WaitUnchanged
       DEF KickSubmission, FlushReturns, submitVars, gpuVars
  <2> QED
    BY <1>1, <2>1, WaitFlushCommands, WaitEnqueuePayload DEF Engine
<1>2. CASE SubmissionThread
  <2>1. CASE SkipEmpty \/ SkipUnresolved \/ HandDown \/ EndPass
             \/ WakeSubmission
    <3>1. UNCHANGED <<engineVars, pendingSubmission, toSubmit, waitIndex,
                      resultVars, awaitVars, ops, gpuVars>>
      BY <2>1 DEF SkipEmpty, SkipUnresolved, HandDown, EndPass,
         WakeSubmission
    <3> QED
      BY <3>1, WaitUnchanged DEF engineVars, gpuVars
  <2> QED
    BY <1>t, <1>2, <2>1, WaitAccumulateWait, WaitTakePayload,
       WaitExecuteBarrier, WaitFlushFenceWait, WaitExecuteCurrent
       DEF SubmissionThread
<1>3. CASE InterruptThread
  <2>1. UNCHANGED <<engineVars, pendingSubmission, submitVars, resultVars,
                    awaitVars, ops, gpuDone, completedValue>>
    BY <1>3 DEF InterruptThread, SkipIdle, CompletePayload, AlreadyAwaited,
       FindIncomplete, AwaitCompletion, WakeInterrupt, gpuVars
  <2> QED
    BY <2>1, WaitUnchanged DEF engineVars, submitVars
<1>4. ASSUME NEW q \in Queue, Gpu(q) PROVE WaitInv'
  BY <1>4, WaitGpu
<1>5. CASE UNCHANGED vars
  BY <1>5, WaitUnchanged DEF vars, engineVars, submitVars, gpuVars
<1> QED
  BY <1>1, <1>2, <1>3, <1>4, <1>5 DEF Next

(***************************************************************************)
(* What the log waits for in front of a call carried out, the fence has    *)
(* passed (a value of zero it always has).                                 *)
(***************************************************************************)
LEMMA LogAwaitsFinished ==
    ASSUME TypeInv, SafeInv, WaitInv, NEW q \in Queue,
           NEW i \in 1..gpuDone[q], NEW y \in AnyPayload, y \in executed,
           LogAwaits(q, i, QueueOf(y), completionValue[y])
    PROVE  Finished(y)
<1>f. PICK f \in Queue : f = QueueOf(y)
  BY PayloadFacts DEF TypeInv, TypeOK
<1>v. PICK v \in Nat : v = completionValue[y]
  BY DEF TypeInv, TypeOK, ResultTypeOK
<1>1. LogAwaits(q, i, f, v)
  BY <1>f, <1>v
<1>2. completedValue[f] \in Nat /\ gpuDone[q] \in Nat
  BY LogFacts
<1>3. v <= completedValue[f]
  <2>1. CASE v = 0
    BY <1>2, <2>1
  <2>2. CASE v # 0
    <3>1. PICK k \in 1..Len(ops[q]) :
            /\ k < i
            /\ ops[q][k].kind = "wait"
            /\ ops[q][k].queue = f
            /\ v <= ops[q][k].value
      BY <1>1, <2>2 DEF LogAwaits
    <3>2. k \in 1..gpuDone[q]
      BY <1>2, <3>1
    <3>3. ops[q][k].value <= completedValue[f]
      BY <3>1, <3>2 DEF WaitInv, WaitsPassed
    <3>4. ops[q][k].value \in Nat
      BY <3>1, LogFacts, WaitOpFacts
    <3> QED
      BY <1>2, <3>1, <3>3, <3>4
  <2> QED
    BY <2>1, <2>2
<1> QED
  BY <1>f, <1>v, <1>3, PassedFinished DEF SafeInv

LEMMA ExecutedOp ==
    ASSUME TypeInv, NEW q \in Queue, NEW i \in 1..gpuDone[q],
           ops[q][i].kind = "execute", ops[q][i].payload[2] = "recorded"
    PROVE  /\ i \in 1..Len(ops[q])
           /\ \E p \in Payload : /\ p = ops[q][i].payload[1]
                                 /\ ops[q][i] = ExecuteOp(Recorded(p))
<1>1. i \in 1..Len(ops[q])
  BY LogFacts
<1>2. /\ ops[q][i].payload \in AnyPayload
      /\ ops[q][i] = ExecuteOp(ops[q][i].payload)
  BY <1>1, LogFacts, OpFacts
<1> QED
  BY <1>1, <1>2 DEF AnyPayload, Recorded

(***************************************************************************)
(* A payload that runs has a wait in front of it for each payload it waits *)
(* on.                                                                     *)
(***************************************************************************)
LEMMA WaitSafe ==
    ASSUME TypeInv, SafeInv, WaitInv
    PROVE  WaitBeforeExecute
<1> SUFFICES ASSUME NEW q \in Queue, NEW i \in 1..gpuDone[q],
                    ops[q][i].kind = "execute",
                    ops[q][i].payload[2] = "recorded",
                    NEW j \in 1..Len(work[ops[q][i].payload[1]].waits)
             PROVE  Finished(Recorded(work[ops[q][i].payload[1]].waits[j]))
  BY DEF WaitBeforeExecute
<1>1. i \in 1..Len(ops[q])
  BY ExecutedOp
<1>2. PICK p \in Payload :
        p = ops[q][i].payload[1] /\ ops[q][i] = ExecuteOp(Recorded(p))
  BY ExecutedOp
<1>3. PICK y \in AnyPayload :
        y = WaitOf(p, j) /\ y = Recorded(work[ops[q][i].payload[1]].waits[j])
  BY <1>2, WaitFacts DEF WaitOf, TypeInv, TypeOK
<1>4. y \in executed /\ LogAwaits(q, i, QueueOf(y), completionValue[y])
  BY <1>1, <1>2, <1>3 DEF WaitInv, WaitsLogged
<1>5. Finished(y)
  BY <1>4, LogAwaitsFinished
<1> QED
  BY <1>3, <1>5

(***************************************************************************)
(* The GPU executes the command lists of a payload only after those of     *)
(* every payload whose sync point it waits on, although the submission     *)
(* thread keeps one value per fence to await and skips the waits a queue   *)
(* has already issued for a value as high.                                 *)
(***************************************************************************)
THEOREM WaitsHonoured == Spec => []WaitBeforeExecute
<1>1. Spec => [](TypeInv /\ SafeInv /\ WaitInv)
  <2>1. Init => TypeInv /\ SafeInv /\ WaitInv
    BY TypeInit, SafeInit, WaitInit
  <2>2. (TypeInv /\ SafeInv /\ WaitInv) /\ [Next]_vars
        => (TypeInv /\ SafeInv /\ WaitInv)'
    BY TypeNext, SafeNext, WaitNext
  <2> QED
    BY <2>1, <2>2, PTL DEF Spec
<1>2. TypeInv /\ SafeInv /\ WaitInv => WaitBeforeExecute
  BY WaitSafe
<1> QED
  BY <1>1, <1>2, PTL

-----------------------------------------------------------------------------
(***************************************************************************)
(* A payload's waits hold back what comes after it on its queue: they stay *)
(* noted once it was executed, and a later payload of its thread finds     *)
(* them in the log when its own command lists enter it.                    *)
(***************************************************************************)
NotedExecuted ==
    \A x \in Payload : Recorded(x) \in executed =>
        \A j \in 1..Len(work[x].waits) : Noted(work[x].queue, WaitOf(x, j))

EarlierLogged ==
    \A q \in Queue : \A i \in 1..Len(ops[q]) : \A x, p \in Payload :
        ops[q][i] = ExecuteOp(Recorded(p)) /\ Earlier(x, p) =>
            \A j \in 1..Len(work[x].waits) :
                LET y == WaitOf(x, j) IN
                /\ y \in executed
                /\ LogAwaits(q, i, QueueOf(y), completionValue[y])

CarryInv == NotedExecuted /\ EarlierLogged

(***************************************************************************)
(* What was executed keeps its values, and what is to be awaited grows.    *)
(***************************************************************************)
ResultsKept ==
    /\ executed \subseteq executed'
    /\ \A y \in executed : completionValue'[y] = completionValue[y]
    /\ \A r, f \in Queue : nextAwait[r][f] <= nextAwait'[r][f]

LEMMA NotedKept ==
    ASSUME TypeInv, TypeInv', ResultsKept, work' = work, NEW r \in Queue,
           NEW x \in Payload, NEW j \in 1..Len(work[x].waits),
           Noted(r, WaitOf(x, j))
    PROVE  Noted(r, WaitOf(x, j))'
<1>1. PICK y \in AnyPayload : y = WaitOf(x, j)
  BY WaitFacts DEF TypeInv, TypeOK
<1>2. PICK f \in Queue : f = QueueOf(y)
  BY PayloadFacts DEF TypeInv, TypeOK
<1>3. /\ completionValue[y] \in Nat
      /\ nextAwait[r][f] \in Nat /\ nextAwait'[r][f] \in Nat
  <2>1. completionValue[y] \in Nat /\ nextAwait[r][f] \in Nat
    BY AwaitTypes DEF TypeInv, TypeOK, ResultTypeOK
  <2>2. nextAwait'[r][f] \in Nat
    BY DEF TypeInv, TypeOK, AwaitTypeOK
  <2> QED
    BY <2>1, <2>2
<1>4. y \in executed /\ completionValue[y] <= nextAwait[r][f]
  BY <1>1, <1>2 DEF Noted
<1>5. /\ y \in executed' /\ completionValue'[y] = completionValue[y]
      /\ nextAwait[r][f] <= nextAwait'[r][f]
  BY <1>4 DEF ResultsKept
<1>6. completionValue'[y] <= nextAwait'[r][f]
  BY <1>3, <1>4, <1>5
<1>7. WaitOf(x, j)' = y /\ QueueOf(y)' = f
  BY <1>1, <1>2 DEF WaitOf, QueueOf
<1> QED
  BY <1>5, <1>6, <1>7 DEF Noted, QueueOf, WaitOf

(***************************************************************************)
(* A wait found in the log in front of a call stays in front of it.        *)
(***************************************************************************)
LEMMA LogAwaitsKept ==
    ASSUME TypeInv, LogGrows, ResultsKept, work' = work, NEW q \in Queue,
           NEW i, NEW y, y \in executed,
           LogAwaits(q, i, QueueOf(y), completionValue[y])
    PROVE  /\ y \in executed'
           /\ LogAwaits(q, i, QueueOf(y), completionValue[y])'
<1>1. PICK f : f = QueueOf(y)
  OBVIOUS
<1>2. PICK v : v = completionValue[y]
  OBVIOUS
<1>3. LogAwaits(q, i, f, v)'
  BY <1>1, <1>2, LogAwaitsGrows
<1>4. /\ y \in executed' /\ completionValue'[y] = v
      /\ QueueOf(y)' = f
  BY <1>1, <1>2 DEF ResultsKept, QueueOf
<1> QED
  BY <1>3, <1>4 DEF LogAwaits, QueueOf

LEMMA EarlierLoggedKept ==
    ASSUME TypeInv, LogGrows, ResultsKept, UNCHANGED <<program, work>>,
           EarlierLogged, NEW q \in Queue, NEW i \in 1..Len(ops[q]),
           NEW x \in Payload, NEW p \in Payload,
           ops'[q][i] = ExecuteOp(Recorded(p)), Earlier(x, p),
           NEW j \in 1..Len(work[x].waits)
    PROVE  /\ WaitOf(x, j) \in executed'
           /\ LogAwaits(q, i, QueueOf(WaitOf(x, j)),
                        completionValue[WaitOf(x, j)])'
<1>1. PICK y : y = WaitOf(x, j)
  OBVIOUS
<1>2. ops[q][i] = ExecuteOp(Recorded(p))
  BY DEF LogGrows
<1>3. y \in executed /\ LogAwaits(q, i, QueueOf(y), completionValue[y])
  BY <1>1, <1>2 DEF EarlierLogged
<1>4. /\ y \in executed'
      /\ LogAwaits(q, i, QueueOf(y), completionValue[y])'
  BY <1>3, LogAwaitsKept
<1>5. WaitOf(x, j)' = y
  BY <1>1 DEF WaitOf
<1> QED
  BY <1>1, <1>4, <1>5 DEF LogAwaits, QueueOf

(***************************************************************************)
(* Where nothing is executed and the log gets no command lists.            *)
(***************************************************************************)
LEMMA CarryKept ==
    ASSUME TypeInv, TypeInv', CarryInv, LogGrows,
           UNCHANGED <<program, work, executed, completionValue>>,
           \A r, f \in Queue : nextAwait[r][f] <= nextAwait'[r][f],
           \A q \in Queue : \A i \in 1..Len(ops'[q]) : \A p \in Payload :
                ops'[q][i] = ExecuteOp(Recorded(p)) => i \in 1..Len(ops[q])
    PROVE  CarryInv'
<1>1. ResultsKept
  BY DEF ResultsKept
<1>2. NotedExecuted'
  <2>1. ASSUME NEW x \in Payload, Recorded(x) \in executed,
               NEW j \in 1..Len(work[x].waits)
        PROVE  Noted(work[x].queue, WaitOf(x, j))'
    <3>1. PICK r \in Queue : r = work[x].queue
      BY WorkFacts DEF Contents, TypeInv, TypeOK
    <3>2. Noted(r, WaitOf(x, j))
      BY <2>1, <3>1 DEF CarryInv, NotedExecuted
    <3>3. Noted(r, WaitOf(x, j))'
      BY <1>1, <3>2, NotedKept
    <3> QED
      BY <3>1, <3>3 DEF Noted
  <2> QED
    BY <2>1 DEF NotedExecuted
<1>3. EarlierLogged'
  <2>1. \A x, p : Earlier(x, p)' = Earlier(x, p)
    BY DEF Earlier
  <2>2. \A x, j : WaitOf(x, j)' = WaitOf(x, j)
    BY DEF WaitOf
  <2>3. ASSUME NEW q \in Queue, NEW i \in 1..Len(ops'[q]),
               NEW x \in Payload, NEW p \in Payload,
               ops'[q][i] = ExecuteOp(Recorded(p)), Earlier(x, p),
               NEW j \in 1..Len(work[x].waits)
        PROVE  /\ WaitOf(x, j) \in executed'
               /\ LogAwaits(q, i, QueueOf(WaitOf(x, j)),
                            completionValue[WaitOf(x, j)])'
    BY <1>1, <2>3, EarlierLoggedKept DEF CarryInv
  <2> QED
    BY <2>1, <2>2, <2>3 DEF EarlierLogged
<1> QED
  BY <1>2, <1>3 DEF CarryInv

LEMMA SubmittedGathered ==
    ASSUME TypeInv, NEW p, Submitted(p)
    PROVE  Gathered(p)
<1>1. PICK t \in EngineThread : \E i \in 1..Flushed(t) :
        i <= Len(program[t]) /\ program[t][i] = p
  BY DEF Submitted
<1>2. PICK i \in 1..Flushed(t) :
        i <= Len(program[t]) /\ program[t][i] = p
  BY <1>1
<1>3. /\ nextPayload[t] \in Nat /\ Len(batch[t]) \in Nat
      /\ Len(program[t]) \in Nat
  BY BatchFacts
<1>4. i \in 1..Len(program[t]) /\ i < nextPayload[t]
  BY <1>2, <1>3 DEF Flushed
<1> QED
  BY <1>2, <1>4 DEF Gathered

(***************************************************************************)
(* ExecutePayload of queue q, with nothing left to await unless it is the  *)
(* barrier work of another queue: the earlier payloads of its thread were  *)
(* executed, and what they noted is in the log.                            *)
(***************************************************************************)
LEMMA CarryExecute ==
    ASSUME TypeInv, TypeInv', SafeInv, AllocInv, WaitInv, CarryInv,
           NEW q \in Queue, toSubmit[q] \in AnyPayload, ExecutePayload(q),
           UNCHANGED <<program, work>>,
           \A r, f \in Queue : nextAwait[r][f] <= nextAwait'[r][f],
           \A p \in Payload : toSubmit[q] = Recorded(p) =>
                work[p].queue = q /\ fencesToAwait[q] = <<>>
    PROVE  CarryInv'
<1>x. PICK x \in AnyPayload : x = toSubmit[q]
  OBVIOUS
<1>1. executed' = executed \union {x} /\ x \notin executed /\ x # NoPayload
  BY <1>x, WorkloadAssumption DEF ExecutePayload, SafeInv, OnceInv, AnyPayload
<1>2. /\ \A r \in Queue : r # q => ops'[r] = ops[r]
      /\ \A r \in Queue : Len(ops'[r]) >= Len(ops[r])
      /\ \A r \in Queue : \A i \in 1..Len(ops[r]) : ops'[r][i] = ops[r][i]
      /\ ~ HasLists(x) => ops' = ops
      /\ HasLists(x) =>
            /\ Len(ops'[q]) = Len(ops[q]) + 2
            /\ ops'[q][Len(ops[q]) + 1] = ExecuteOp(x)
            /\ ops'[q][Len(ops[q]) + 2] = SignalOp(fenceValue[q] + 1)
  BY <1>x, ExecuteLog DEF TypeInv
<1>3. LogGrows
  BY <1>2 DEF LogGrows
<1>4. ResultsKept
  <2>1. PICK v : completionValue' = [completionValue EXCEPT ![x] = v]
    BY <1>x DEF ExecutePayload
  <2>2. completionValue \in [AnyPayload -> Nat] /\ executed \subseteq AnyPayload
    BY DEF TypeInv, TypeOK, ResultTypeOK
  <2>3. \A y \in executed : completionValue'[y] = completionValue[y]
    BY <1>1, <2>1, <2>2
  <2> QED
    BY <1>1, <2>3 DEF ResultsKept
<1>5. NotedExecuted'
  <2>1. ASSUME NEW z \in Payload, Recorded(z) \in executed',
               NEW j \in 1..Len(work[z].waits)
        PROVE  Noted(work[z].queue, WaitOf(z, j))'
    <3>1. PICK r \in Queue : r = work[z].queue
      BY WorkFacts DEF Contents, TypeInv, TypeOK
    <3>2. Noted(r, WaitOf(z, j))
      <4>1. CASE Recorded(z) \in executed
        BY <3>1, <4>1 DEF CarryInv, NotedExecuted
      <4>2. CASE Recorded(z) = x
        <5>1. toSubmit[q] = Recorded(z) /\ r = q
          BY <1>x, <3>1, <4>2
        <5> QED
          BY <5>1 DEF WaitInv, NotedInv
      <4> QED
        BY <1>1, <2>1, <4>1, <4>2
    <3>3. Noted(r, WaitOf(z, j))'
      BY <1>4, <3>2, NotedKept
    <3> QED
      BY <3>1, <3>3 DEF Noted
  <2> QED
    BY <2>1 DEF NotedExecuted
<1>6. ASSUME NEW z \in Payload, NEW p \in Payload, x = Recorded(p),
             Earlier(z, p), NEW j \in 1..Len(work[z].waits)
      PROVE  Noted(q, WaitOf(z, j))
  <2>1. toSubmit[q] = Recorded(p) /\ work[p].queue = q
    BY <1>x, <1>6
  <2>2. Gathered(p)
    <3>1. toSubmit[q][1] = p /\ toSubmit[q] # NoPayload
      BY <1>x, <1>1, <2>1 DEF Recorded
    <3>2. Submitted(p)
      BY <3>1 DEF SafeInv, OnceInv
    <3> QED
      BY <3>2, SubmittedGathered
  <2>3. z = p \/ Recorded(z) \in executed
    BY <1>6, <2>1, <2>2
       DEF AllocInv, OrderInv, EarlierInv, NotAfter, OrderSubmit
  <2>4. z # p
    BY <1>6, ProgramFacts DEF Earlier, TypeInv, TypeOK
  <2>5. work[z].queue = q
    BY <1>6, <2>1 DEF Earlier
  <2> QED
    BY <2>3, <2>4, <2>5 DEF CarryInv, NotedExecuted
<1>7. EarlierLogged'
  <2>1. \A z, p : Earlier(z, p)' = Earlier(z, p)
    BY DEF Earlier
  <2>2. \A z, j : WaitOf(z, j)' = WaitOf(z, j)
    BY DEF WaitOf
  <2>3. ASSUME NEW r \in Queue, NEW i \in 1..Len(ops'[r]),
               NEW z \in Payload, NEW p \in Payload,
               ops'[r][i] = ExecuteOp(Recorded(p)), Earlier(z, p),
               NEW j \in 1..Len(work[z].waits)
        PROVE  /\ WaitOf(z, j) \in executed'
               /\ LogAwaits(r, i, QueueOf(WaitOf(z, j)),
                            completionValue[WaitOf(z, j)])'
    <3>1. CASE i \in 1..Len(ops[r])
      BY <1>3, <1>4, <2>3, <3>1, EarlierLoggedKept DEF CarryInv
    <3>2. CASE i \notin 1..Len(ops[r])
      <4>1. r = q /\ HasLists(x)
        BY <1>2, <3>2
      <4>2. Len(ops[q]) \in Nat
        BY LogFacts
      <4>3. i \in {Len(ops[q]) + 1, Len(ops[q]) + 2}
        BY <1>2, <3>2, <4>1, <4>2
      <4>4. i # Len(ops[q]) + 2
        BY <1>2, <2>3, <4>1 DEF ExecuteOp, SignalOp
      <4>5. i = Len(ops[q]) + 1 /\ x = Recorded(p)
        BY <1>2, <2>3, <4>1, <4>3, <4>4 DEF ExecuteOp
      <4>6. PICK y \in AnyPayload : y = WaitOf(z, j)
        BY WaitFacts DEF TypeInv, TypeOK
      <4>7. Noted(q, y)
        BY <1>6, <2>3, <4>5, <4>6
      <4>8. fencesToAwait[q] = <<>>
        BY <1>x, <4>5
      <4>9. y \in executed
            /\ LogAwaits(q, i, QueueOf(y), completionValue[y])
        BY <4>5, <4>7, <4>8, LogAwaitsNoted DEF Noted, WaitInv
      <4>10. y \in executed'
             /\ LogAwaits(q, i, QueueOf(y), completionValue[y])'
        BY <1>3, <1>4, <4>9, LogAwaitsKept
      <4> QED
        BY <2>2, <4>1, <4>6, <4>10 DEF LogAwaits, QueueOf
    <3> QED
      BY <3>1, <3>2
  <2> QED
    BY <2>1, <2>2, <2>3 DEF EarlierLogged
<1> QED
  BY <1>5, <1>7 DEF CarryInv

LEMMA CarryExecuteBarrier ==
    ASSUME TypeInv, TypeInv', SafeInv, AllocInv, WaitInv, CarryInv,
           ExecuteBarrier
    PROVE  CarryInv'
<1>c. PICK c \in Queue : c = Current
  BY CurrentFacts DEF TypeInv, TypeOK
<1>g. PICK g \in Queue : g = GraphicsQueue[c]
  BY QueueFacts
<1>1. PICK p \in Payload : toSubmit[g] = Barrier(p)
  BY <1>c, <1>g DEF TypeInv, SubmitInv, ExecuteBarrier
<1>2. /\ toSubmit[g] \in AnyPayload
      /\ \A x \in Payload : toSubmit[g] # Recorded(x)
  <2>1. Barrier(p) \in AnyPayload
    BY PayloadFacts DEF TypeInv, TypeOK
  <2>2. \A x \in Payload : Barrier(p) # Recorded(x)
    BY DEF Recorded, Barrier
  <2> QED
    BY <1>1, <2>1, <2>2
<1>z. PICK z \in Nat : z = 0
  OBVIOUS
<1>3. /\ ExecutePayload(g)
      /\ EnqueueFenceWait(c, g, z)
      /\ UNCHANGED <<program, work>>
  BY <1>c, <1>g, <1>z DEF ExecuteBarrier, ExecuteReturnValue, engineVars
<1>4. \A r, f \in Queue : nextAwait[r][f] <= nextAwait'[r][f]
  BY <1>3, EnqueueWaitFacts
<1> QED
  BY <1>2, <1>3, <1>4, CarryExecute

LEMMA CarryExecuteCurrent ==
    ASSUME TypeInv, TypeInv', SafeInv, AllocInv, WaitInv, CarryInv,
           ExecuteCurrent
    PROVE  CarryInv'
<1>c. PICK c \in Queue : c = Current
  BY CurrentFacts DEF TypeInv, TypeOK
<1>1. PICK p \in Payload :
        toSubmit[c] = Recorded(p) /\ work[p].queue = c
  BY <1>c DEF TypeInv, SubmitInv, ExecuteCurrent
<1>2. /\ toSubmit[c] \in AnyPayload
      /\ \A x \in Payload : toSubmit[c] = Recorded(x) => work[x].queue = c
  BY <1>1, PayloadFacts DEF TypeInv, TypeOK, Recorded
<1>3. /\ fencesToAwait[c] = <<>>
      /\ ExecutePayload(c)
      /\ UNCHANGED <<program, work, nextAwait>>
  BY <1>c DEF ExecuteCurrent, engineVars, awaitVars
<1>4. \A r, f \in Queue : nextAwait[r][f] <= nextAwait'[r][f]
  BY <1>3, AwaitTypes
<1> QED
  BY <1>2, <1>3, <1>4, CarryExecute

LEMMA CarryAccumulateWait ==
    ASSUME TypeInv, TypeInv', CarryInv, AccumulateWait
    PROVE  CarryInv'
<1>q. PICK q \in Queue : q = Current
  BY CurrentFacts DEF TypeInv, TypeOK
<1>1. PICK p \in Payload : p = Front
  BY FrontFacts DEF AccumulateWait
<1>2. waitIndex[p] + 1 \in 1..Len(work[p].waits)
  <2>1. work[p].waits \in Seq(Payload)
    BY WorkFacts DEF Contents, TypeInv, TypeOK
  <2>2. waitIndex[p] \in Nat /\ Len(work[p].waits) \in Nat
    BY <2>1 DEF TypeInv, TypeOK, SubmitTypeOK
  <2>3. waitIndex[p] < Len(work[p].waits)
    BY <1>1 DEF AccumulateWait
  <2> QED
    BY <2>2, <2>3
<1>3. PICK s \in AnyPayload : s = WaitOf(p, waitIndex[p] + 1)
  BY <1>2, WaitFacts DEF TypeInv, TypeOK
<1>f. PICK f \in Queue : f = QueueOf(s)
  BY PayloadFacts DEF TypeInv, TypeOK
<1>v. PICK v \in Nat : v = completionValue[s]
  BY DEF TypeInv, TypeOK, ResultTypeOK
<1>4. /\ EnqueueFenceWait(q, f, v)
      /\ UNCHANGED <<program, work, executed, completionValue, ops>>
  BY <1>q, <1>1, <1>3, <1>f, <1>v
     DEF AccumulateWait, WaitOf, engineVars, resultVars
<1>5. \A r, e \in Queue : nextAwait[r][e] <= nextAwait'[r][e]
  BY <1>4, EnqueueWaitFacts
<1>6. LogGrows
  BY <1>4, LogFacts DEF LogGrows
<1> QED
  BY <1>4, <1>5, <1>6, CarryKept

(***************************************************************************)
(* A wait enters the log: no command lists do.                             *)
(***************************************************************************)
LEMMA CarryFlushFenceWait ==
    ASSUME TypeInv, TypeInv', CarryInv, FlushFenceWait
    PROVE  CarryInv'
<1>q. PICK q \in Queue : q = Current
  BY CurrentFacts DEF TypeInv, TypeOK
<1>f. PICK f \in Queue : f = Head(fencesToAwait[q])
  BY <1>q, AwaitTypes, HeadTailProperties DEF FlushFenceWait
<1>v. PICK v \in Nat : v = nextAwait[q][f]
  BY AwaitTypes
<1>1. /\ \/ ops' = [ops EXCEPT ![q] = Append(@, WaitOp(f, v))]
         \/ ops' = ops
      /\ UNCHANGED <<program, work, executed, completionValue, nextAwait>>
  BY <1>q, <1>f, <1>v DEF FlushFenceWait, engineVars, resultVars
<1>2. ops \in [Queue -> Seq(Op)] /\ ops[q] \in Seq(Op) /\ WaitOp(f, v) \in Op
  BY DEF TypeInv, TypeOK, GpuTypeOK, WaitOp, Op
<1>3. \A r \in Queue :
        \/ ops'[r] = ops[r]
        \/ /\ r = q
           /\ Len(ops[r]) \in Nat
           /\ Len(ops'[r]) = Len(ops[r]) + 1
           /\ \A i \in 1..Len(ops[r]) : ops'[r][i] = ops[r][i]
           /\ ops'[r][Len(ops[r]) + 1] = WaitOp(f, v)
  <2>1. CASE ops' = ops
    BY <2>1
  <2>2. CASE ops' = [ops EXCEPT ![q] = Append(@, WaitOp(f, v))]
    <3>1. /\ ops'[q] = Append(ops[q], WaitOp(f, v))
          /\ \A r \in Queue : r # q => ops'[r] = ops[r]
      BY <1>2, <2>2
    <3>2. /\ Len(ops[q]) \in Nat
          /\ Len(ops'[q]) = Len(ops[q]) + 1
          /\ \A i \in 1..Len(ops[q]) : ops'[q][i] = ops[q][i]
          /\ ops'[q][Len(ops[q]) + 1] = WaitOp(f, v)
      BY <1>2, <3>1, AppendProperties
    <3> QED
      BY <3>1, <3>2
  <2> QED
    BY <1>1, <2>1, <2>2
<1>4. LogGrows
  <2>1. ASSUME NEW r \in Queue PROVE Len(ops'[r]) >= Len(ops[r])
    <3>1. Len(ops[r]) \in Nat
      BY LogFacts
    <3> QED
      BY <1>3, <3>1
  <2> QED
    BY <1>3, <2>1 DEF LogGrows
<1>5. ASSUME NEW r \in Queue, NEW i \in 1..Len(ops'[r]), NEW p \in Payload,
             ops'[r][i] = ExecuteOp(Recorded(p))
      PROVE  i \in 1..Len(ops[r])
  <2>1. ~ (ops'[r][i] = WaitOp(f, v))
    BY <1>5 DEF WaitOp, ExecuteOp
  <2>2. CASE ops'[r] = ops[r]
    BY <2>2
  <2>3. CASE /\ Len(ops[r]) \in Nat
             /\ Len(ops'[r]) = Len(ops[r]) + 1
             /\ ops'[r][Len(ops[r]) + 1] = WaitOp(f, v)
    BY <2>1, <2>3
  <2> QED
    BY <1>3, <2>2, <2>3
<1>6. \A r, e \in Queue : nextAwait[r][e] <= nextAwait'[r][e]
  BY <1>1, AwaitTypes
<1> QED
  BY <1>1, <1>4, <1>5, <1>6, CarryKept

LEMMA CarryUnchanged ==
    ASSUME TypeInv, TypeInv', CarryInv,
           UNCHANGED <<program, work, executed, completionValue, nextAwait,
                       ops>>
    PROVE  CarryInv'
<1>1. LogGrows
  BY LogFacts DEF LogGrows
<1>2. \A r, f \in Queue : nextAwait[r][f] <= nextAwait'[r][f]
  BY AwaitTypes
<1> QED
  BY <1>1, <1>2, CarryKept

LEMMA CarryInit == Init => CarryInv
BY DEF Init, CarryInv, NotedExecuted, EarlierLogged

LEMMA CarryNext ==
    TypeInv /\ SafeInv /\ AllocInv /\ WaitInv /\ CarryInv /\ [Next]_vars
    => CarryInv'
<1> SUFFICES ASSUME TypeInv, SafeInv, AllocInv, WaitInv, CarryInv,
                    [Next]_vars
             PROVE  CarryInv'
  OBVIOUS
<1>t. TypeInv'
  BY TypeNext
<1>1. ASSUME NEW t \in EngineThread, Engine(t) PROVE CarryInv'
  <2>1. UNCHANGED <<program, work, resultVars, awaitVars, ops>>
    BY <1>1 DEF Engine, FlushCommands, EnqueuePayload, KickSubmission,
       FlushReturns
  <2> QED
    BY <1>t, <2>1, CarryUnchanged DEF resultVars, awaitVars
<1>2. CASE SubmissionThread
  <2>1. CASE SkipEmpty \/ SkipUnresolved \/ TakePayload \/ HandDown
             \/ EndPass \/ WakeSubmission
    <3>1. UNCHANGED <<engineVars, resultVars, awaitVars, ops>>
      BY <2>1 DEF SkipEmpty, SkipUnresolved, TakePayload, HandDown, EndPass,
         WakeSubmission
    <3> QED
      BY <1>t, <3>1, CarryUnchanged DEF engineVars, resultVars, awaitVars
  <2> QED
    BY <1>t, <1>2, <2>1, CarryAccumulateWait, CarryExecuteBarrier,
       CarryFlushFenceWait, CarryExecuteCurrent DEF SubmissionThread
<1>3. CASE InterruptThread
  <2>1. UNCHANGED <<engineVars, resultVars, awaitVars, ops>>
    BY <1>3 DEF InterruptThread, SkipIdle, CompletePayload, AlreadyAwaited,
       FindIncomplete, AwaitCompletion, WakeInterrupt
  <2> QED
    BY <1>t, <2>1, CarryUnchanged DEF engineVars, resultVars, awaitVars
<1>4. ASSUME NEW q \in Queue, Gpu(q) PROVE CarryInv'
  <2>1. UNCHANGED <<engineVars, resultVars, awaitVars, ops>>
    BY <1>4 DEF Gpu, GpuWait, GpuExecute, GpuSignal
  <2> QED
    BY <1>t, <2>1, CarryUnchanged DEF engineVars, resultVars, awaitVars
<1>5. CASE UNCHANGED vars
  BY <1>t, <1>5, CarryUnchanged DEF vars, engineVars, resultVars, awaitVars
<1> QED
  BY <1>1, <1>2, <1>3, <1>4, <1>5 DEF Next

LEMMA CarrySafe ==
    ASSUME TypeInv, SafeInv, WaitInv, CarryInv
    PROVE  EarlierWaitsHonoured
<1> SUFFICES ASSUME NEW q \in Queue, NEW k \in 1..gpuDone[q],
                    ops[q][k].kind = "execute",
                    ops[q][k].payload[2] = "recorded",
                    NEW x \in Payload, Earlier(x, ops[q][k].payload[1]),
                    NEW j \in 1..Len(work[x].waits)
             PROVE  Finished(Recorded(work[x].waits[j]))
  BY DEF EarlierWaitsHonoured
<1>1. k \in 1..Len(ops[q])
  BY ExecutedOp
<1>2. PICK p \in Payload :
        p = ops[q][k].payload[1] /\ ops[q][k] = ExecuteOp(Recorded(p))
  BY ExecutedOp
<1>3. PICK y \in AnyPayload :
        y = WaitOf(x, j) /\ y = Recorded(work[x].waits[j])
  BY WaitFacts DEF WaitOf, TypeInv, TypeOK
<1>4. y \in executed /\ LogAwaits(q, k, QueueOf(y), completionValue[y])
  BY <1>1, <1>2, <1>3 DEF CarryInv, EarlierLogged
<1>5. Finished(y)
  BY <1>4, LogAwaitsFinished
<1> QED
  BY <1>3, <1>5

(***************************************************************************)
(* When the GPU executes the command lists of a payload, what its thread's *)
(* earlier payloads for the queue wait on has been carried out, whether    *)
(* these have command lists or not and in whichever flush they came.       *)
(***************************************************************************)
THEOREM EarlierWaitsSafe == Spec => []EarlierWaitsHonoured
<1>1. Spec => [](TypeInv /\ SafeInv /\ AllocInv /\ WaitInv /\ CarryInv)
  <2>1. Init => TypeInv /\ SafeInv /\ AllocInv /\ WaitInv /\ CarryInv
    BY TypeInit, SafeInit, AllocInit, WaitInit, CarryInit
  <2>2. (TypeInv /\ SafeInv /\ AllocInv /\ WaitInv /\ CarryInv)
        /\ [Next]_vars
        => (TypeInv /\ SafeInv /\ AllocInv /\ WaitInv /\ CarryInv)'
    BY TypeNext, SafeNext, AllocNext, WaitNext, CarryNext
  <2> QED
    BY <2>1, <2>2, PTL DEF Spec
<1>2. TypeInv /\ SafeInv /\ WaitInv /\ CarryInv => EarlierWaitsHonoured
  BY CarrySafe
<1> QED
  BY <1>1, <1>2, PTL

-----------------------------------------------------------------------------
(***************************************************************************)
(* Neither thread of the submission pipe sleeps through work it was woken  *)
(* for: a queue that is not blocked or watched is still to be visited, or  *)
(* somebody is about to wake the thread.                                   *)
(***************************************************************************)
ToVisit(q, i) == \E k \in 1..Len(QueueOrder) : i <= k /\ QueueOrder[k] = q

(***************************************************************************)
(* The driver is asked to wake the interrupt thread for the front payload. *)
(***************************************************************************)
Watched(q) ==
    LET v == completionValue[Head(pendingInterrupt[q])] IN
    completedValue[q] < v /\ v \in registered[q]

InterruptSeen(q) ==
    \/ Watched(q)
    \/ interruptEvent
    \/ iprocessed
    \/ ipc # "sleep" /\ ToVisit(q, iqueue)
    \/ spc = "handdown" /\ sprocessed

InterruptInv ==
    /\ handDown # <<>> => sprocessed
    /\ ipc = "sleep" => iqueue = 1 /\ ~ iprocessed
    /\ \A q \in Queue : interruptAwaited[q] =>
        LET v == completionValue[Head(pendingInterrupt[q])] IN
        /\ pendingInterrupt[q] # <<>>
        /\ completedValue[q] < v => v \in registered[q]
    /\ \A q \in Queue : pendingInterrupt[q] # <<>> => InterruptSeen(q)

(***************************************************************************)
(* The front payload waits on a sync point nothing has resolved.           *)
(***************************************************************************)
Blocked(q) ==
    LET p == Head(pendingSubmission[q]) IN
    /\ waitIndex[p] < Len(work[p].waits)
    /\ Recorded(work[p].waits[waitIndex[p] + 1]) \notin executed

SubmissionSeen(q) ==
    \/ Blocked(q)
    \/ submissionEvent
    \/ sprocessed
    \/ spc = "visit" /\ ToVisit(q, squeue)
    \/ \E t \in EngineThread : epc[t] = "submit"

SubmissionInv ==
    /\ spc \in {"barrier", "await"} => sprocessed
    /\ spc \in {"handdown", "sleep"} => squeue = 1
    /\ spc = "sleep" => ~ sprocessed
    /\ \A q \in Queue : pendingSubmission[q] # <<>> => SubmissionSeen(q)

-----------------------------------------------------------------------------
LEMMA VisitAll == \A q \in Queue : ToVisit(q, 1)
BY QueueAssumption DEF ToVisit

LEMMA VisitNext ==
    ASSUME NEW i \in 1..Len(QueueOrder), NEW q, ToVisit(q, i),
           q # QueueOrder[i]
    PROVE  MoreQueues(i) /\ ToVisit(q, i + 1)
<1>1. PICK k \in 1..Len(QueueOrder) : i <= k /\ QueueOrder[k] = q
  BY DEF ToVisit
<1>2. Len(QueueOrder) \in Nat
  BY QueueAssumption
<1>3. i < k /\ i + 1 <= k /\ i < Len(QueueOrder)
  BY <1>1, <1>2
<1> QED
  BY <1>1, <1>3 DEF MoreQueues, ToVisit

LEMMA VisitCurrent ==
    ASSUME NEW i \in 1..Len(QueueOrder)
    PROVE  ToVisit(QueueOrder[i], i)
BY QueueAssumption DEF ToVisit

-----------------------------------------------------------------------------
(* The interrupt thread.                                                   *)

LEMMA HeadExecuted ==
    ASSUME TypeInv, SafeInv, NEW q \in Queue, pendingInterrupt[q] # <<>>
    PROVE  /\ Head(pendingInterrupt[q]) \in executed
           /\ Head(pendingInterrupt[q]) \in AnyPayload
<1>1. pendingInterrupt[q] \in Seq(AnyPayload)
  BY DEF TypeInv, TypeOK, PendingTypeOK
<1>2. /\ 1 \in 1..Len(pendingInterrupt[q])
      /\ Head(pendingInterrupt[q]) = pendingInterrupt[q][1]
  BY <1>1, HeadTailProperties
<1> QED
  BY <1>1, <1>2 DEF SafeInv, HandedInv

(***************************************************************************)
(* What the other threads and the GPU do leaves every queue seen, as long  *)
(* as a pass that processed something ends by setting the event.           *)
(***************************************************************************)
LEMMA InterruptKept ==
    ASSUME TypeInv, SafeInv, InterruptInv,
           UNCHANGED <<pendingInterrupt, ipc, iqueue, iprocessed,
                       interruptAwaited, completedValue, registered>>,
           \A x \in executed : completionValue'[x] = completionValue[x],
           interruptEvent => interruptEvent',
           handDown' # <<>> => sprocessed',
           spc = "handdown" /\ sprocessed =>
                interruptEvent' \/ (spc' = "handdown" /\ sprocessed')
    PROVE  InterruptInv'
<1>1. \A q \in Queue : pendingInterrupt[q] # <<>> =>
        completionValue'[Head(pendingInterrupt[q])]
        = completionValue[Head(pendingInterrupt[q])]
  BY HeadExecuted
<1>2. \A q \in Queue : pendingInterrupt[q] # <<>> => InterruptSeen(q)'
  BY <1>1 DEF InterruptInv, InterruptSeen, Watched, ToVisit
<1> QED
  BY <1>1, <1>2 DEF InterruptInv

LEMMA ExecutedValues ==
    ASSUME TypeInv, SafeInv, NEW q \in Queue, toSubmit[q] \in AnyPayload,
           ExecutePayload(q)
    PROVE  \A x \in executed : completionValue'[x] = completionValue[x]
<1>1. PICK v : completionValue' = [completionValue EXCEPT ![toSubmit[q]] = v]
  BY DEF ExecutePayload
<1>2. toSubmit[q] \notin executed
  BY WorkloadAssumption DEF SafeInv, OnceInv, AnyPayload
<1> QED
  BY <1>1, <1>2 DEF TypeInv, TypeOK, ResultTypeOK

LEMMA InterruptHandDown ==
    ASSUME TypeInv, SafeInv, InterruptInv, HandDown
    PROVE  InterruptInv'
<1>x. PICK x \in AnyPayload : x = Head(handDown)
  BY HeadTailProperties DEF HandDown, TypeInv, TypeOK, SubmitTypeOK
<1>q. PICK q \in Queue : q = QueueOf(x)
  BY PayloadFacts DEF TypeInv, TypeOK
<1>1. /\ spc' = "handdown" /\ sprocessed' /\ sprocessed
      /\ pendingInterrupt' = [pendingInterrupt EXCEPT ![q] = Append(@, x)]
      /\ UNCHANGED <<ipc, iqueue, iprocessed, interruptAwaited,
                     completionValue, completedValue, registered>>
  BY <1>x, <1>q DEF HandDown, InterruptInv, resultVars, interruptVars, gpuVars
<1>2. \A r \in Queue : pendingInterrupt[r] # <<>> =>
        /\ pendingInterrupt'[r] # <<>>
        /\ Head(pendingInterrupt'[r]) = Head(pendingInterrupt[r])
  <2>1. /\ pendingInterrupt \in [Queue -> Seq(AnyPayload)]
        /\ pendingInterrupt[q] \in Seq(AnyPayload)
    BY DEF TypeInv, TypeOK, PendingTypeOK
  <2>2. /\ pendingInterrupt'[q] = Append(pendingInterrupt[q], x)
        /\ \A r \in Queue : r # q =>
             pendingInterrupt'[r] = pendingInterrupt[r]
    BY <1>1, <2>1
  <2>3. pendingInterrupt[q] # <<>> =>
            /\ Append(pendingInterrupt[q], x) # <<>>
            /\ Head(Append(pendingInterrupt[q], x))
               = Head(pendingInterrupt[q])
    BY <2>1, AppendProperties, HeadTailProperties
  <2> QED
    BY <2>2, <2>3
<1>3. \A r \in Queue : InterruptSeen(r)'
  BY <1>1 DEF InterruptSeen
<1>4. \A r \in Queue : interruptAwaited'[r] =>
        /\ pendingInterrupt'[r] # <<>>
        /\ completedValue'[r] < completionValue'[Head(pendingInterrupt'[r])]
           => completionValue'[Head(pendingInterrupt'[r])] \in registered'[r]
  BY <1>1, <1>2 DEF InterruptInv
<1> QED
  BY <1>1, <1>3, <1>4 DEF InterruptInv

(***************************************************************************)
(* The thread leaves a queue: what was to be visited still is, in this     *)
(* pass or in the next, except for the queue it leaves.                    *)
(***************************************************************************)
LEMMA LeaveVisitedSeen ==
    ASSUME InterruptTypeOK, NEW a, LeaveVisited(iprocessed, a)
    PROVE  /\ ipc' = "sleep" => iqueue' = 1 /\ ~ iprocessed'
           /\ \A q \in Queue :
                iprocessed \/ (q # Visited /\ ToVisit(q, iqueue)) =>
                    iprocessed' \/ (ipc' # "sleep" /\ ToVisit(q, iqueue)')
<1>1. CASE MoreQueues(iqueue)
  <2>1. iqueue' = iqueue + 1 /\ ipc' = "visit" /\ iprocessed' = iprocessed
    BY <1>1 DEF LeaveVisited
  <2>2. \A q : q # Visited /\ ToVisit(q, iqueue) => ToVisit(q, iqueue + 1)
    BY VisitNext DEF InterruptTypeOK, Visited
  <2>3. ipc' # "sleep" /\ (iprocessed => iprocessed')
    BY <2>1
  <2>4. \A q : q # Visited /\ ToVisit(q, iqueue) => ToVisit(q, iqueue')
    BY <2>1, <2>2
  <2>5. \A q : ToVisit(q, iqueue)' = ToVisit(q, iqueue')
    BY DEF ToVisit
  <2>6. ASSUME NEW q \in Queue,
               iprocessed \/ (q # Visited /\ ToVisit(q, iqueue))
        PROVE  iprocessed' \/ (ipc' # "sleep" /\ ToVisit(q, iqueue)')
    BY <2>3, <2>4, <2>5, <2>6
  <2> QED
    BY <2>3, <2>6
<1>2. CASE ~ MoreQueues(iqueue)
  <2>1. /\ iqueue' = 1 /\ ipc' = (IF iprocessed THEN "visit" ELSE "sleep")
        /\ iprocessed' = FALSE
    BY <1>2 DEF LeaveVisited
  <2>2. \A q : ~ (q # Visited /\ ToVisit(q, iqueue))
    BY <1>2, VisitNext DEF InterruptTypeOK, Visited
  <2>3. \A q \in Queue : ToVisit(q, 1)
    BY VisitAll
  <2> QED
    BY <2>1, <2>2, <2>3
<1> QED
  BY <1>1, <1>2

(***************************************************************************)
(* So after leaving a queue that is idle or watched every queue is seen.   *)
(***************************************************************************)
LEMMA InterruptLeave ==
    ASSUME TypeInv, InterruptInv, NEW c \in Queue, c = Visited,
           ipc # "sleep", NEW a, LeaveVisited(iprocessed, a),
           UNCHANGED <<pendingInterrupt, completionValue, completedValue,
                       handDown, sprocessed, spc>>,
           interruptEvent => interruptEvent',
           \A q \in Queue : q # c =>
                /\ interruptAwaited'[q] = interruptAwaited[q]
                /\ registered'[q] = registered[q],
           interruptAwaited'[c] => pendingInterrupt[c] # <<>>,
           pendingInterrupt[c] # <<>> => Watched(c)' \/ interruptEvent',
           LET v == completionValue[Head(pendingInterrupt[c])] IN
                interruptAwaited'[c] /\ completedValue[c] < v =>
                    v \in registered'[c]
    PROVE  InterruptInv'
<1>1. /\ ipc' = "sleep" => iqueue' = 1 /\ ~ iprocessed'
      /\ \A q \in Queue :
            iprocessed \/ (q # c /\ ToVisit(q, iqueue)) =>
                iprocessed' \/ (ipc' # "sleep" /\ ToVisit(q, iqueue)')
  BY LeaveVisitedSeen DEF TypeInv, TypeOK
<1>2. ASSUME NEW q \in Queue, pendingInterrupt[q] # <<>>
      PROVE  InterruptSeen(q)'
  <2>1. CASE q = c
    BY <1>2, <2>1 DEF InterruptSeen
  <2>2. CASE q # c
    <3>1. InterruptSeen(q)
      BY <1>2 DEF InterruptInv
    <3>2. Watched(q) => Watched(q)'
      BY <2>2 DEF Watched
    <3> QED
      BY <1>1, <2>2, <3>1, <3>2 DEF InterruptSeen
  <2> QED
    BY <2>1, <2>2
<1>3. \A q \in Queue : interruptAwaited'[q] =>
        /\ pendingInterrupt[q] # <<>>
        /\ completedValue[q] < completionValue[Head(pendingInterrupt[q])]
           => completionValue[Head(pendingInterrupt[q])] \in registered'[q]
  BY DEF InterruptInv
<1> QED
  BY <1>1, <1>2, <1>3 DEF InterruptInv

LEMMA InterruptSkip ==
    ASSUME TypeInv, InterruptInv, SkipIdle \/ AlreadyAwaited
    PROVE  InterruptInv'
<1>c. PICK c \in Queue : c = Visited
  BY VisitedFacts DEF TypeInv, TypeOK
<1>1. /\ ipc = "visit"
      /\ \E a : LeaveVisited(iprocessed, a)
      /\ UNCHANGED <<pendingInterrupt, completionValue, completedValue,
                     handDown, sprocessed, spc, interruptEvent,
                     interruptAwaited, registered>>
  BY DEF SkipIdle, AlreadyAwaited, LeaveIncomplete, submitVars, resultVars,
     gpuVars
<1>2. pendingInterrupt[c] # <<>> => Watched(c)'
  <2>1. CASE SkipIdle
    BY <1>c, <2>1 DEF SkipIdle
  <2>2. CASE AlreadyAwaited
    <3>1. /\ interruptAwaited[c]
          /\ ~ completedValue[c] >= completionValue[Head(pendingInterrupt[c])]
          /\ pendingInterrupt[c] # <<>>
      BY <1>c, <2>2 DEF AlreadyAwaited, Passed, AwaitedPayload
    <3>2. /\ completedValue[c] \in Nat
          /\ completionValue[Head(pendingInterrupt[c])] \in Nat
      BY <1>c, <3>1, LogFacts, AwaitedFacts
         DEF TypeInv, TypeOK, ResultTypeOK, AwaitedPayload
    <3>3. completedValue[c] < completionValue[Head(pendingInterrupt[c])]
      BY <3>1, <3>2
    <3> QED
      BY <1>1, <3>1, <3>3 DEF InterruptInv, Watched
  <2> QED
    BY <2>1, <2>2
<1>3. interruptAwaited[c] => pendingInterrupt[c] # <<>>
  BY DEF InterruptInv
<1>4. LET v == completionValue[Head(pendingInterrupt[c])] IN
      interruptAwaited[c] /\ completedValue[c] < v => v \in registered[c]
  BY DEF InterruptInv
<1>a. PICK a : LeaveVisited(iprocessed, a)
  BY <1>1
<1> QED
  BY <1>a, <1>c, <1>1, <1>2, <1>3, <1>4, InterruptLeave

LEMMA InterruptAwait ==
    ASSUME TypeInv, SafeInv, InterruptInv, AwaitCompletion
    PROVE  InterruptInv'
<1>c. PICK c \in Queue : c = Visited
  BY VisitedFacts DEF TypeInv, TypeOK
<1>1. /\ ipc = "await" /\ pendingInterrupt[c] # <<>>
      /\ \E a : LeaveVisited(iprocessed, a)
      /\ interruptAwaited' = [interruptAwaited EXCEPT ![c] = TRUE]
      /\ UNCHANGED <<pendingInterrupt, completionValue, completedValue,
                     handDown, sprocessed, spc>>
  BY <1>c DEF AwaitCompletion, LeaveIncomplete, submitVars, resultVars,
     TypeInv, SubmitInv
<1>v. PICK v \in Nat : v = completionValue[Head(pendingInterrupt[c])]
  BY <1>1, HeadExecuted DEF TypeInv, TypeOK, ResultTypeOK
<1>2. SetEventOnCompletion(c, v)
  BY <1>c, <1>v DEF AwaitCompletion, AwaitedPayload
<1>3. /\ interruptEvent => interruptEvent'
      /\ \A q \in Queue : q # c =>
            /\ interruptAwaited'[q] = interruptAwaited[q]
            /\ registered'[q] = registered[q]
      /\ completedValue[c] < v => v \in registered'[c]
      /\ completedValue[c] < v \/ interruptEvent'
  <2>1. CASE completedValue[c] >= v
    BY <1>1, <1>2, <2>1, LogFacts
       DEF SetEventOnCompletion, TypeInv, TypeOK, InterruptTypeOK
  <2>2. CASE ~ completedValue[c] >= v
    BY <1>1, <1>2, <2>2, LogFacts
       DEF SetEventOnCompletion, TypeInv, TypeOK, InterruptTypeOK, GpuTypeOK
  <2> QED
    BY <2>1, <2>2
<1>4. Watched(c)' \/ interruptEvent'
  BY <1>1, <1>v, <1>3 DEF Watched
<1>5. LET w == completionValue[Head(pendingInterrupt[c])] IN
      interruptAwaited'[c] /\ completedValue[c] < w => w \in registered'[c]
  BY <1>v, <1>3
<1>a. PICK a : LeaveVisited(iprocessed, a)
  BY <1>1
<1> QED
  BY <1>a, <1>c, <1>1, <1>3, <1>4, <1>5, InterruptLeave

LEMMA InterruptComplete ==
    ASSUME TypeInv, InterruptInv, CompletePayload
    PROVE  InterruptInv'
<1>c. PICK c \in Queue : c = Visited
  BY VisitedFacts DEF TypeInv, TypeOK
<1>1. /\ ipc' = "visit" /\ iprocessed'
      /\ interruptAwaited' = [interruptAwaited EXCEPT ![c] = FALSE]
      /\ pendingInterrupt' = [pendingInterrupt EXCEPT ![c] = Tail(@)]
      /\ UNCHANGED <<handDown, sprocessed, completionValue, completedValue,
                     registered>>
  BY <1>c DEF CompletePayload, ForgetAwaited, submitVars, resultVars, gpuVars
<1>2. /\ interruptAwaited'[c] = FALSE
      /\ \A q \in Queue : q # c =>
            /\ interruptAwaited'[q] = interruptAwaited[q]
            /\ pendingInterrupt'[q] = pendingInterrupt[q]
  BY <1>1 DEF TypeInv, TypeOK, InterruptTypeOK, PendingTypeOK
<1>3. \A q \in Queue : InterruptSeen(q)'
  BY <1>1 DEF InterruptSeen
<1>4. \A q \in Queue : interruptAwaited'[q] =>
        /\ pendingInterrupt'[q] # <<>>
        /\ completedValue'[q] < completionValue'[Head(pendingInterrupt'[q])]
           => completionValue'[Head(pendingInterrupt'[q])] \in registered'[q]
  BY <1>1, <1>2 DEF InterruptInv
<1> QED
  BY <1>1, <1>3, <1>4 DEF InterruptInv

LEMMA InterruptFindWake ==
    ASSUME TypeInv, InterruptInv, FindIncomplete \/ WakeInterrupt
    PROVE  InterruptInv'
<1>1. /\ ipc' # "sleep"
      /\ UNCHANGED <<handDown, sprocessed, spc, pendingInterrupt, iqueue,
                     iprocessed, interruptAwaited, completionValue,
                     completedValue, registered>>
  BY DEF FindIncomplete, WakeInterrupt, submitVars, resultVars, gpuVars
<1>2. \A q \in Queue : InterruptSeen(q) => InterruptSeen(q)'
  <2>1. CASE FindIncomplete
    BY <1>1, <2>1 DEF FindIncomplete, InterruptSeen, Watched, ToVisit
  <2>2. CASE WakeInterrupt
    <3>1. iqueue' = 1
      BY <1>1, <2>2 DEF WakeInterrupt, InterruptInv
    <3>2. \A q \in Queue : ToVisit(q, iqueue)'
      BY <3>1, VisitAll DEF ToVisit
    <3> QED
      BY <1>1, <3>2 DEF InterruptSeen
  <2> QED
    BY <2>1, <2>2
<1> QED
  BY <1>1, <1>2 DEF InterruptInv

(***************************************************************************)
(* A signal that takes the fence past a payload the driver watches sets    *)
(* the event.                                                              *)
(***************************************************************************)
LEMMA InterruptGpuSignal ==
    ASSUME TypeInv, SafeInv, InterruptInv, NEW q \in Queue, GpuSignal(q)
    PROVE  InterruptInv'
<1>v. PICK v \in Nat : v = NextOp(q).value
  BY LogFacts, OpFacts DEF GpuSignal, GpuReady, NextOp
<1>1. /\ completedValue' = [completedValue EXCEPT ![q] = v]
      /\ registered' = [registered EXCEPT ![q] = {r \in @ : r > v}]
      /\ interruptEvent' = (interruptEvent \/ \E r \in registered[q] : r <= v)
      /\ UNCHANGED <<handDown, sprocessed, spc, pendingInterrupt, ipc, iqueue,
                     iprocessed, interruptAwaited, completionValue>>
  BY <1>v DEF GpuSignal, submitVars, resultVars, interruptVars
<1>2. /\ completedValue'[q] = v
      /\ registered'[q] = {r \in registered[q] : r > v}
      /\ \A c \in Queue : c # q => /\ completedValue'[c] = completedValue[c]
                                  /\ registered'[c] = registered[c]
  BY <1>1 DEF TypeInv, TypeOK, GpuTypeOK
<1>3. v > completedValue[q] /\ completedValue[q] \in Nat
  <2>n. PICK n \in 1..Len(ops[q]) : n = gpuDone[q] + 1
    BY LogFacts DEF GpuSignal, GpuReady
  <2>1. ops[q][n].kind = "signal" /\ ops[q][n].value = v
    BY <1>v, <2>n DEF GpuSignal, GpuReady, NextOp
  <2>2. v <= completedValue[q] => n <= gpuDone[q]
    BY <2>1 DEF SafeInv, LogInv, SignalsRise
  <2>3. completedValue[q] \in Nat /\ gpuDone[q] \in Nat
    BY LogFacts
  <2> QED
    BY <2>n, <2>2, <2>3
<1>4. ASSUME NEW c \in Queue, pendingInterrupt[c] # <<>>
      PROVE  /\ Watched(c) => Watched(c)' \/ interruptEvent'
             /\ LET u == completionValue[Head(pendingInterrupt[c])] IN
                interruptAwaited[c] /\ completedValue'[c] < u =>
                    u \in registered'[c]
  <2>u. PICK u \in Nat : u = completionValue[Head(pendingInterrupt[c])]
    BY <1>4, HeadExecuted DEF TypeInv, TypeOK, ResultTypeOK
  <2>1. interruptAwaited[c] /\ completedValue[c] < u => u \in registered[c]
    BY <2>u DEF InterruptInv
  <2>2. CASE c = q
    <3>1. u <= v \/ u > v
      OBVIOUS
    <3>2. v < u => completedValue[q] < u
      BY <1>3
    <3> QED
      BY <1>1, <1>2, <2>u, <2>1, <2>2, <3>1, <3>2 DEF Watched
  <2>3. CASE c # q
    BY <1>1, <1>2, <2>u, <2>1, <2>3 DEF Watched
  <2> QED
    BY <2>2, <2>3
<1>5. \A c \in Queue : pendingInterrupt[c] # <<>> => InterruptSeen(c)'
  <2> SUFFICES ASSUME NEW c \in Queue, pendingInterrupt[c] # <<>>
               PROVE  InterruptSeen(c)'
    OBVIOUS
  <2>1. InterruptSeen(c)
    BY DEF InterruptInv
  <2>2. ToVisit(c, iqueue)' = ToVisit(c, iqueue)
    BY <1>1 DEF ToVisit
  <2> QED
    BY <1>1, <1>4, <2>1, <2>2 DEF InterruptSeen
<1>6. \A c \in Queue : interruptAwaited[c] =>
        /\ pendingInterrupt[c] # <<>>
        /\ completedValue'[c] < completionValue[Head(pendingInterrupt[c])]
           => completionValue[Head(pendingInterrupt[c])] \in registered'[c]
  BY <1>4 DEF InterruptInv
<1> QED
  BY <1>1, <1>5, <1>6 DEF InterruptInv

LEMMA InterruptInit == Init => InterruptInv
BY DEF Init, InterruptInv

LEMMA InterruptNext ==
    TypeInv /\ SafeInv /\ InterruptInv /\ [Next]_vars => InterruptInv'
<1> SUFFICES ASSUME TypeInv, SafeInv, InterruptInv, [Next]_vars
             PROVE  InterruptInv'
  OBVIOUS
<1>1. CASE (\E t \in EngineThread : Engine(t))
           \/ SkipEmpty \/ AccumulateWait \/ SkipUnresolved \/ FlushFenceWait
           \/ WakeSubmission \/ (\E q \in Queue : GpuWait(q) \/ GpuExecute(q))
           \/ UNCHANGED vars
  <2>1. /\ UNCHANGED <<pendingInterrupt, interruptVars, completedValue,
                       registered, interruptEvent, resultVars, handDown,
                       sprocessed>>
        /\ spc = "handdown" => spc' = "handdown"
    BY <1>1 DEF Engine, FlushCommands, EnqueuePayload, KickSubmission,
       FlushReturns, SkipEmpty, AccumulateWait, SkipUnresolved,
       FlushFenceWait, WakeSubmission, GpuWait, GpuExecute, vars, submitVars,
       gpuVars
  <2>2. handDown' # <<>> => sprocessed'
    BY <2>1 DEF InterruptInv
  <2> QED
    BY <2>1, <2>2, InterruptKept DEF interruptVars, resultVars
<1>2. CASE TakePayload \/ EndPass
  <2>1. /\ UNCHANGED <<pendingInterrupt, interruptVars, completedValue,
                       registered, resultVars>>
        /\ interruptEvent => interruptEvent'
        /\ handDown' # <<>> => sprocessed'
        /\ spc = "handdown" /\ sprocessed => interruptEvent'
    <3>1. CASE TakePayload
      BY <3>1 DEF TakePayload, gpuVars
    <3>2. CASE EndPass
      BY <3>2 DEF EndPass, KickInterrupt, gpuVars
    <3> QED
      BY <1>2, <3>1, <3>2
  <2> QED
    BY <2>1, InterruptKept DEF interruptVars, resultVars
<1>3. CASE ExecuteBarrier \/ ExecuteCurrent
  <2>1. /\ UNCHANGED <<pendingInterrupt, interruptVars, completedValue,
                       registered, interruptEvent, handDown, sprocessed>>
        /\ spc # "handdown"
    BY <1>3 DEF ExecuteBarrier, ExecuteCurrent, gpuVars
  <2>2. \A x \in executed : completionValue'[x] = completionValue[x]
    BY <1>3, ExecutedValues, ToSubmitFacts, CurrentFacts
       DEF ExecuteBarrier, ExecuteCurrent, TypeInv, TypeOK
  <2>3. handDown' # <<>> => sprocessed'
    BY <2>1 DEF InterruptInv
  <2> QED
    BY <2>1, <2>2, <2>3, InterruptKept DEF interruptVars
<1>4. CASE HandDown
  BY <1>4, InterruptHandDown
<1>5. CASE InterruptThread
  BY <1>5, InterruptSkip, InterruptAwait, InterruptComplete,
     InterruptFindWake DEF InterruptThread
<1>6. CASE \E q \in Queue : GpuSignal(q)
  BY <1>6, InterruptGpuSignal
<1> QED
  BY <1>1, <1>2, <1>3, <1>4, <1>5, <1>6
     DEF Next, SubmissionThread, Gpu

(***************************************************************************)
(* The interrupt thread never sleeps through a completion: every queue it  *)
(* has a payload of is watched by the driver.                              *)
(***************************************************************************)
THEOREM InterruptSafe == Spec => []NoLostInterrupt
<1>1. Spec => [](TypeInv /\ SafeInv /\ InterruptInv)
  <2>1. Init => TypeInv /\ SafeInv /\ InterruptInv
    BY TypeInit, SafeInit, InterruptInit
  <2>2. (TypeInv /\ SafeInv /\ InterruptInv) /\ [Next]_vars
        => (TypeInv /\ SafeInv /\ InterruptInv)'
    BY TypeNext, SafeNext, InterruptNext
  <2> QED
    BY <2>1, <2>2, PTL DEF Spec
<1>2. InterruptInv => NoLostInterrupt
  BY DEF InterruptInv, InterruptSeen, Watched, NoLostInterrupt
<1> QED
  BY <1>1, <1>2, PTL

-----------------------------------------------------------------------------
(* The submission thread.                                                  *)

(***************************************************************************)
(* A flush that has not kicked the thread yet will, and then the event is  *)
(* set.                                                                    *)
(***************************************************************************)
LEMMA SubmissionKept ==
    ASSUME SubmissionInv,
           UNCHANGED <<work, pendingSubmission, waitIndex, spc, squeue,
                       sprocessed, executed>>,
           submissionEvent => submissionEvent',
           \A t \in EngineThread : epc[t] = "submit" =>
                epc'[t] = "submit" \/ submissionEvent'
    PROVE  SubmissionInv'
<1>1. \A q \in Queue : SubmissionSeen(q) => SubmissionSeen(q)'
  <2>1. \A q : /\ Blocked(q)' = Blocked(q)
               /\ ToVisit(q, squeue)' = ToVisit(q, squeue)
    BY DEF Blocked, ToVisit
  <2> QED
    BY <2>1 DEF SubmissionSeen
<1> QED
  BY <1>1 DEF SubmissionInv

LEMMA SubmissionEnqueue ==
    ASSUME SubmissionInv, NEW t \in EngineThread, EnqueuePayload(t)
    PROVE  SubmissionInv'
<1>1. /\ epc'[t] = "submit"
      /\ UNCHANGED <<spc, squeue, sprocessed>>
  BY DEF EnqueuePayload, submitVars
<1> QED
  BY <1>1 DEF SubmissionInv, SubmissionSeen

(***************************************************************************)
(* Whatever is executed may unblock any queue, but then another pass       *)
(* follows.                                                                *)
(***************************************************************************)
LEMMA SubmissionProcess ==
    ASSUME SubmissionInv,
           TakePayload \/ ExecuteBarrier \/ FlushFenceWait \/ ExecuteCurrent
    PROVE  SubmissionInv'
<1>1. sprocessed' = TRUE \/ (spc \in {"barrier", "await"}
                             /\ sprocessed' = sprocessed)
  BY DEF TakePayload, ExecuteBarrier, FlushFenceWait, ExecuteCurrent,
     submitVars
<1>2. spc' \in {"visit", "barrier", "await"}
  BY DEF TakePayload, ExecuteBarrier, FlushFenceWait, ExecuteCurrent,
     submitVars
<1>3. sprocessed'
  BY <1>1 DEF SubmissionInv
<1> QED
  BY <1>2, <1>3 DEF SubmissionInv, SubmissionSeen

LEMMA SubmissionSkip ==
    ASSUME TypeInv, SubmissionInv, SkipEmpty \/ SkipUnresolved
    PROVE  SubmissionInv'
<1>c. PICK c \in Queue : c = Current
  BY CurrentFacts DEF TypeInv, TypeOK
<1>1. /\ spc = "visit"
      /\ LeaveQueue
      /\ pendingSubmission[c] # <<>> => Blocked(c)
      /\ UNCHANGED <<work, epc, pendingSubmission, submissionEvent,
                     sprocessed, waitIndex, executed>>
  BY <1>c DEF SkipEmpty, SkipUnresolved, Blocked, Front, engineVars,
     resultVars
<1>2. \A q : Blocked(q) => Blocked(q)'
  BY <1>1 DEF Blocked
<1>3. spc' \in {"visit", "handdown"} /\ (spc' = "handdown" => squeue' = 1)
  BY <1>1 DEF LeaveQueue
<1>4. ASSUME NEW q \in Queue, q # c, ToVisit(q, squeue)
      PROVE  spc' = "visit" /\ ToVisit(q, squeue)'
  <2>1. squeue \in 1..Len(QueueOrder) /\ q # QueueOrder[squeue]
    BY <1>c, <1>4 DEF TypeInv, TypeOK, SubmitTypeOK, Current
  <2>2. MoreQueues(squeue) /\ ToVisit(q, squeue + 1)
    BY <1>4, <2>1, VisitNext
  <2>3. squeue' = squeue + 1 /\ spc' = "visit"
    BY <1>1, <2>2 DEF LeaveQueue
  <2>4. ToVisit(q, squeue')
    BY <2>2, <2>3
  <2> QED
    BY <2>3, <2>4 DEF ToVisit
<1>5. ASSUME NEW q \in Queue, pendingSubmission[q] # <<>>
      PROVE  SubmissionSeen(q)'
  <2>1. SubmissionSeen(q)
    BY <1>5 DEF SubmissionInv
  <2>2. CASE q = c
    BY <1>1, <1>2, <1>5, <2>2 DEF SubmissionSeen
  <2>3. CASE q # c
    BY <1>1, <1>2, <1>4, <2>1, <2>3 DEF SubmissionSeen
  <2> QED
    BY <2>2, <2>3
<1> QED
  BY <1>1, <1>3, <1>5 DEF SubmissionInv

LEMMA SubmissionAccumulate ==
    ASSUME TypeInv, SubmissionInv, AccumulateWait
    PROVE  SubmissionInv'
<1>c. PICK c \in Queue : c = Current
  BY CurrentFacts DEF TypeInv, TypeOK
<1>f. PICK f \in Payload : f = Front /\ work[f].queue = c
  BY <1>c, FrontFacts DEF AccumulateWait
<1>1. /\ spc = "visit"
      /\ waitIndex' = [waitIndex EXCEPT ![f] = waitIndex[f] + 1]
      /\ UNCHANGED <<work, epc, pendingSubmission, submissionEvent, spc,
                     squeue, sprocessed, executed>>
  BY <1>f DEF AccumulateWait, engineVars, resultVars
<1>2. ASSUME NEW q \in Queue, pendingSubmission[q] # <<>>
      PROVE  SubmissionSeen(q)'
  <2>1. CASE q = c
    <3>1. ToVisit(c, squeue)
      BY <1>c, VisitCurrent
         DEF TypeInv, TypeOK, SubmitTypeOK, Current
    <3>2. ToVisit(c, squeue)'
      BY <1>1, <3>1 DEF ToVisit
    <3> QED
      BY <1>1, <2>1, <3>2 DEF SubmissionSeen
  <2>2. CASE q # c
    <3>1. PICK p \in Payload :
            p = Head(pendingSubmission[q]) /\ work[p].queue = q
      <4>1. pendingSubmission[q] \in Seq(Payload)
        BY DEF TypeInv, TypeOK, PendingTypeOK
      <4>2. /\ 1 \in 1..Len(pendingSubmission[q])
            /\ Head(pendingSubmission[q]) = pendingSubmission[q][1]
        BY <1>2, <4>1, HeadTailProperties
      <4> QED
        BY <4>1, <4>2 DEF TypeInv, SubmitInv
    <3>2. waitIndex'[p] = waitIndex[p]
      BY <1>f, <1>1, <2>2, <3>1 DEF TypeInv, TypeOK, SubmitTypeOK
    <3>3. Blocked(q)' = Blocked(q)
      BY <1>1, <3>1, <3>2 DEF Blocked
    <3>4. ToVisit(q, squeue)' = ToVisit(q, squeue)
      BY <1>1 DEF ToVisit
    <3> QED
      BY <1>1, <1>2, <3>3, <3>4 DEF SubmissionInv, SubmissionSeen
  <2> QED
    BY <2>1, <2>2
<1> QED
  BY <1>1, <1>2 DEF SubmissionInv

LEMMA SubmissionPass ==
    ASSUME SubmissionInv, EndPass \/ WakeSubmission
    PROVE  SubmissionInv'
<1>1. UNCHANGED <<work, epc, pendingSubmission, squeue, waitIndex, executed>>
  BY DEF EndPass, WakeSubmission, engineVars, resultVars
<1>2. squeue' = 1 /\ \A q \in Queue : ToVisit(q, squeue)'
  <2>1. squeue' = 1
    BY <1>1 DEF SubmissionInv, EndPass, WakeSubmission
  <2>2. \A q \in Queue : ToVisit(q, squeue')
    BY <2>1, VisitAll
  <2> QED
    BY <2>1, <2>2 DEF ToVisit
<1>3. \A q : Blocked(q) => Blocked(q)'
  BY <1>1 DEF Blocked
<1>4. CASE EndPass /\ ~ sprocessed
  <2>1. spc = "handdown" /\ spc' = "sleep" /\ ~ sprocessed'
        /\ submissionEvent' = submissionEvent
    BY <1>4 DEF EndPass, AfterPass
  <2> QED
    BY <1>1, <1>2, <1>3, <1>4, <2>1 DEF SubmissionInv, SubmissionSeen
<1>5. CASE WakeSubmission \/ (EndPass /\ sprocessed)
  <2>1. spc' = "visit"
    BY <1>5 DEF EndPass, WakeSubmission, AfterPass
  <2> QED
    BY <1>1, <1>2, <2>1 DEF SubmissionInv, SubmissionSeen
<1> QED
  BY <1>4, <1>5

LEMMA SubmissionInit == Init => SubmissionInv
BY DEF Init, SubmissionInv

LEMMA SubmissionNext ==
    TypeInv /\ SubmissionInv /\ [Next]_vars => SubmissionInv'
<1> SUFFICES ASSUME TypeInv, SubmissionInv, [Next]_vars
             PROVE  SubmissionInv'
  OBVIOUS
<1>1. ASSUME NEW t \in EngineThread, Engine(t) PROVE SubmissionInv'
  <2>1. CASE FlushCommands(t) \/ KickSubmission(t) \/ FlushReturns(t)
    <3>1. /\ UNCHANGED <<work, pendingSubmission, submitVars, resultVars>>
          /\ submissionEvent => submissionEvent'
          /\ \A u \in EngineThread : epc[u] = "submit" =>
                epc'[u] = "submit" \/ submissionEvent'
      BY <2>1 DEF FlushCommands, KickSubmission, FlushReturns, TypeInv,
         TypeOK, EngineTypeOK
    <3> QED
      BY <3>1, SubmissionKept DEF submitVars, resultVars
  <2> QED
    BY <1>1, <2>1, SubmissionEnqueue DEF Engine
<1>2. CASE HandDown
  BY <1>2, SubmissionKept DEF HandDown, engineVars, resultVars
<1>3. CASE InterruptThread
  <2>1. UNCHANGED <<engineVars, pendingSubmission, submissionEvent,
                    submitVars, resultVars>>
    BY <1>3 DEF InterruptThread, SkipIdle, CompletePayload, AlreadyAwaited,
       FindIncomplete, AwaitCompletion, WakeInterrupt
  <2> QED
    BY <2>1, SubmissionKept DEF engineVars, submitVars, resultVars
<1>4. CASE (\E q \in Queue : Gpu(q)) \/ UNCHANGED vars
  <2>1. UNCHANGED <<engineVars, pendingSubmission, submissionEvent,
                    submitVars, resultVars>>
    BY <1>4 DEF Gpu, GpuWait, GpuExecute, GpuSignal, vars
  <2> QED
    BY <2>1, SubmissionKept DEF engineVars, submitVars, resultVars
<1> QED
  BY <1>1, <1>2, <1>3, <1>4, SubmissionProcess, SubmissionSkip,
     SubmissionAccumulate, SubmissionPass DEF Next, SubmissionThread

(***************************************************************************)
(* The submission thread never sleeps on work it could do: unless it is    *)
(* about to be woken, the front payload of every queue waits on a sync     *)
(* point nothing has resolved.                                             *)
(***************************************************************************)
THEOREM SubmissionSafe == Spec => []NoLostSubmission
<1>1. Spec => [](TypeInv /\ SubmissionInv)
  <2>1. Init => TypeInv /\ SubmissionInv
    BY TypeInit, SubmissionInit
  <2>2. (TypeInv /\ SubmissionInv) /\ [Next]_vars
        => (TypeInv /\ SubmissionInv)'
    BY TypeNext, SubmissionNext
  <2> QED
    BY <2>1, <2>2, PTL DEF Spec
<1>2. SubmissionInv => NoLostSubmission
  BY DEF SubmissionInv, SubmissionSeen, Blocked, NoLostSubmission
<1> QED
  BY <1>1, <1>2, PTL

=============================================================================
