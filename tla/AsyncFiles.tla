----------------------------- MODULE AsyncFiles -----------------------------
(***************************************************************************)
(* Coroutines that read and write files (Engine/Core/Coroutine): the main  *)
(* thread SyncWaits for WhenAllReady of some tasks, as CompileShaderMap    *)
(* does, each task drives a FileAsyncStream of its own, and the two I/O    *)
(* threads of the task scheduler take completions from IOScheduler's port  *)
(* and resume the coroutines that await them.                              *)
(*                                                                         *)
(* A thread that resumes a coroutine runs it until it suspends, and then   *)
(* goes on where it resumed it.  Of ReadFile and WriteFile the model keeps *)
(* that they complete at once, and then post nothing, or later, and then   *)
(* post one packet; the call itself may return after that packet was       *)
(* taken.  The operation the destructor of a stream starts sets an event.  *)
(***************************************************************************)
EXTENDS FileStream, FiniteSets, SequencesExt

CONSTANTS
    Coroutine,      \* the tasks the main thread waits for
    TaskOrder,      \* the order in which they are started
    IOThread,       \* the threads that run process_events
    Main,           \* the thread that calls SyncWait
    Workloads,      \* what the coroutines do, with which files
    NoCoroutine,    \* the null coroutine handle
    MaxFaults,      \* how many files' devices may fail
    MaxRefusals     \* how often PostQueuedCompletionStatus may fail

Thread == IOThread \union {Main}

ASSUME AsyncAssumption ==
    /\ TaskOrder \in Seq(Coroutine)
    /\ Coroutine = ToSet(TaskOrder) /\ IsInjective(TaskOrder)
    /\ Main \notin IOThread /\ NoCoroutine \notin Coroutine
    /\ MaxFaults \in Nat /\ MaxRefusals \in Nat

(***************************************************************************)
(* What a coroutine may do with a stream it reads from or writes to.       *)
(***************************************************************************)
Operations(access) ==
    IF access = "read"
    THEN [op : {"read"}, count : Nat]
         \union [op : {"skip", "skipTo"}, offset : Nat]
         \union [op : {"schedule"}]
    ELSE [op : {"write"}, bytes : Seq(Nat)] \union [op : {"schedule"}]

ASSUME WorkloadAssumption ==
    \A w \in Workloads :
        /\ w.mode \in [Coroutine -> {"read", "write"}]
        /\ w.files \in [Coroutine -> Seq(Nat)]
        /\ DOMAIN w.program = Coroutine
        /\ \A c \in Coroutine : w.program[c] \in Seq(Operations(w.mode[c]))

VARIABLES
    program,        \* the operations of each coroutine on its stream
    mode,           \* how it opened the stream, "read" or "write"
    oldFile,        \* the file as it was opened; all three never change
    file,           \* the file
    faulty,         \* the coroutines whose device has failed
    stream,         \* the FileAsyncStream
    frame,          \* where the coroutine is
    memory,         \* what it reads into, or writes
    last,           \* what its last Read returned
    operation,      \* error_code and bytes_transferred of its operation
    request,        \* the operation the kernel still has to carry out
    closeEvent,     \* whether the destructor's event is set
    port,           \* the packets in the completion port
    overflow,       \* operations_head: what the port refused
    refusals,       \* how often it has
    posting,        \* what each I/O thread has taken from that list
    emptyWakeUps,   \* the packets taken without anything to resume
    at,             \* where each thread is
    started,        \* how many tasks the main thread has started
    count,          \* when_all_counter::count
    awaiter,        \* whether the counter knows what to resume
    event           \* the event SyncWait waits for

workload == <<program, mode, oldFile>>
fileVars == <<file, faulty, stream, memory>>
kernelVars == <<request, closeEvent>>
portVars == <<port, overflow, refusals, posting, emptyWakeUps>>
waitVars == <<started, count, awaiter, event>>
vars == <<workload, fileVars, frame, last, operation, kernelVars, portVars,
          at, waitVars>>

-----------------------------------------------------------------------------

NoRequest == [kind |-> "none"]
At(pc, c) == [pc |-> pc, coroutine |-> c]
Idle(pc) == At(pc, NoCoroutine)
Running(c) == At("run", c)

(***************************************************************************)
(* Where a thread goes on when the coroutine it resumed has suspended.     *)
(***************************************************************************)
Resumer(t) == IF t = Main THEN Idle("start") ELSE Idle("loop")

\* Fault: the counter starts at the number of tasks.
TasksOnly == Len(TaskOrder)
InitialCount == Len(TaskOrder) + 1

Init ==
    /\ \E w \in Workloads :
        program = w.program /\ mode = w.mode /\ oldFile = w.files
    /\ file = oldFile /\ faulty = {}
    /\ stream = [c \in Coroutine |-> NewStream]
    /\ frame = [c \in Coroutine |->
                    [pc |-> "new", next |-> 1, awaits |-> "nothing",
                     call |-> [left |-> 0, moved |-> 0], failed |-> FALSE]]
    /\ memory = [c \in Coroutine |-> <<>>]
    /\ last = [c \in Coroutine |-> <<>>]
    /\ operation = [c \in Coroutine |-> [error |-> FALSE, transferred |-> 0]]
    /\ request = [c \in Coroutine |-> NoRequest]
    /\ closeEvent = [c \in Coroutine |-> FALSE]
    /\ port = <<>> /\ overflow = <<>> /\ refusals = 0 /\ emptyWakeUps = 0
    /\ posting = [t \in IOThread |-> <<>>]
    /\ at = [t \in Thread |-> Resumer(t)]
    /\ started = 0 /\ count = InitialCount /\ awaiter = FALSE /\ event = FALSE

-----------------------------------------------------------------------------
(***************************************************************************)
(* The kernel.  An operation succeeds, or fails where a reader's file has  *)
(* ended, or because the device has failed.  What it transfers is in the   *)
(* buffer, the caller's memory or the file before anybody hears of it.     *)
(***************************************************************************)
ReadRequest(c, into) ==
    [kind |-> into, offset |-> stream[c].fileOffset]

WriteRequest(c, bytes, notify) ==
    [kind |-> notify, offset |-> stream[c].fileOffset, bytes |-> bytes]

IsRead(r) == r.kind \in {"direct", "refill"}

Expected(c, r) ==
    IF IsRead(r)
    THEN LET bytes == FileRead(file[c], r.offset, BufferSize)
         IN  [error |-> bytes = <<>>, bytes |-> bytes, fault |-> FALSE]
    ELSE [error |-> FALSE, bytes |-> r.bytes, fault |-> FALSE]

Outcomes(c, r) ==
    {Expected(c, r)} \union
    {o \in {[error |-> TRUE, bytes |-> <<>>, fault |-> TRUE]} :
        Cardinality(faulty \union {c}) <= MaxFaults}

Transfer(c, r, o) ==
    /\ file' = IF IsRead(r) \/ o.error THEN file
               ELSE [file EXCEPT ![c] = FileWritten(@, r.offset, o.bytes)]
    /\ stream' = IF r.kind = "refill"
                 THEN [stream EXCEPT ![c].buffer = Copied(@, 0, o.bytes)]
                 ELSE stream
    /\ memory' = IF r.kind = "direct"
                 THEN [memory EXCEPT ![c] =
                        SubSeq(@, 1, frame[c].call.moved) \o o.bytes]
                 ELSE memory
    /\ faulty' = IF o.fault THEN faulty \union {c} ELSE faulty

Completion(c, o) ==
    [kind |-> "completion", coroutine |-> c, error |-> o.error,
     transferred |-> Len(o.bytes)]

Posted(c) == [kind |-> "posted", coroutine |-> c]

Complete(c) ==
    /\ request[c] # NoRequest
    /\ \E o \in Outcomes(c, request[c]) :
        /\ Transfer(c, request[c], o)
        /\ IF request[c].kind = "close"
           THEN closeEvent' = [closeEvent EXCEPT ![c] = TRUE] /\ port' = port
           ELSE port' = Append(port, Completion(c, o))
                /\ closeEvent' = closeEvent
    /\ request' = [request EXCEPT ![c] = NoRequest]
    /\ UNCHANGED <<workload, frame, last, operation, overflow, refusals,
                   posting, emptyWakeUps, at, waitVars>>

-----------------------------------------------------------------------------
(***************************************************************************)
(* A thread runs a coroutine: the operations of FileAsyncStream.           *)
(***************************************************************************)
Runs(t, c, pc) ==
    at[t] = Running(c) /\ frame[c].awaits = "nothing" /\ frame[c].pc = pc

Resumes(t, c, awaited) ==
    at[t] = Running(c) /\ frame[c].awaits = awaited /\ ~ operation[c].error

Begins(t, c, op) ==
    /\ Runs(t, c, "next") /\ frame[c].next <= Len(program[c])
    /\ program[c][frame[c].next].op = op

Current(c) == program[c][frame[c].next]

Reach(c, pc, call) ==
    frame' = [frame EXCEPT ![c].pc = pc, ![c].awaits = "nothing",
                           ![c].call = call]

Return(c) ==
    frame' = [frame EXCEPT ![c].pc = "next", ![c].awaits = "nothing",
                           ![c].next = @ + 1]

ReturnRead(c, bytes) == Return(c) /\ last' = [last EXCEPT ![c] = bytes]

(***************************************************************************)
(* await_suspend of an operation: ReadFile or WriteFile completes at once, *)
(* and the coroutine runs on, or it is pending, and the thread still has   *)
(* to return from the call and from the coroutine.                         *)
(***************************************************************************)
TryStart(t, c, awaited, r) ==
    /\ frame' = [frame EXCEPT ![c].awaits = awaited]
    /\ \/ /\ \E o \in Outcomes(c, r) :
                /\ Transfer(c, r, o)
                /\ operation' = [operation EXCEPT ![c] =
                        [error |-> o.error, transferred |-> Len(o.bytes)]]
          /\ UNCHANGED <<request, at>>
       \/ /\ request' = [request EXCEPT ![c] = r]
          /\ at' = [at EXCEPT ![t] = At("call", c)]
          /\ UNCHANGED <<fileVars, operation>>
    /\ UNCHANGED <<workload, last, closeEvent, portVars, waitVars>>

\* Fault: try_start returns false although the operation is pending.
IgnorePending(t) ==
    /\ at[t].pc = "call"
    /\ at' = [at EXCEPT ![t].pc = "run"]
    /\ operation' = [operation EXCEPT ![at[t].coroutine] =
                        [error |-> FALSE, transferred |-> 0]]
    /\ UNCHANGED <<workload, fileVars, frame, last, kernelVars, portVars,
                   waitVars>>

ReturnPending(t) ==
    /\ at[t].pc = "call"
    /\ at' = [at EXCEPT ![t] = Resumer(t)]
    /\ UNCHANGED <<workload, fileVars, frame, last, operation, kernelVars,
                   portVars, waitVars>>

(***************************************************************************)
(* An operation that failed throws, and the coroutine unwinds.             *)
(***************************************************************************)
Throw(t, c) ==
    /\ at[t] = Running(c) /\ frame[c].awaits # "nothing" /\ operation[c].error
    /\ frame' = [frame EXCEPT ![c].pc = "close", ![c].awaits = "nothing",
                              ![c].failed = TRUE]
    /\ UNCHANGED <<workload, fileVars, last, operation, kernelVars, portVars,
                   at, waitVars>>

BeginSkip(t, c) ==
    /\ \/ /\ Begins(t, c, "skipTo")
          /\ stream' = [stream EXCEPT ![c] = SkippedTo(@, Current(c).offset)]
       \/ /\ Begins(t, c, "skip")
          /\ stream' = [stream EXCEPT ![c] = Skipped(@, Current(c).offset)]
    /\ Return(c)
    /\ UNCHANGED <<workload, file, faulty, memory, last, operation,
                   kernelVars, portVars, at, waitVars>>

BeginRead(t, c) ==
    /\ Begins(t, c, "read")
    /\ LET s == stream[c]
           wanted == Current(c).count
           call == ReadCall(s, wanted)
       IN  IF InBuffer(s, wanted)
           THEN /\ memory' = [memory EXCEPT ![c] = FromBuffer(s, wanted)]
                /\ stream' = [stream EXCEPT ![c] = Advanced(@, wanted)]
                /\ ReturnRead(c, memory'[c])
           ELSE /\ memory' = [memory EXCEPT ![c] = Remainder(s)]
                /\ stream' = [stream EXCEPT ![c] = Emptied(@)]
                /\ IF call.left = 0 THEN ReturnRead(c, memory'[c])
                   ELSE Reach(c, "read", call) /\ last' = last
    /\ UNCHANGED <<workload, file, faulty, operation, kernelVars, portVars,
                   at, waitVars>>

AwaitRead(t, c) ==
    /\ Runs(t, c, "read")
    /\ LET into == IF Direct(frame[c].call) THEN "direct" ELSE "refill"
       IN  TryStart(t, c, into, ReadRequest(c, into))

ResumeDirect(t, c) ==
    /\ Resumes(t, c, "direct")
    /\ LET transferred == operation[c].transferred
           call == CallAfter(frame[c].call, transferred)
       IN  /\ stream' = [stream EXCEPT ![c] = AfterDirect(@, transferred)]
           /\ IF ShortRead(transferred) \/ call.left = 0
              THEN ReturnRead(c, SubSeq(memory[c], 1, call.moved))
              ELSE Reach(c, "read", call) /\ last' = last
    /\ UNCHANGED <<workload, file, faulty, memory, operation, kernelVars,
                   portVars, at, waitVars>>

ResumeRefill(t, c) ==
    /\ Resumes(t, c, "refill")
    /\ LET call == frame[c].call
           transferred == operation[c].transferred
       IN  /\ stream' = [stream EXCEPT ![c] =
                            AfterRefill(@, call, transferred)]
           /\ memory' = [memory EXCEPT ![c] =
                SubSeq(@, 1, call.moved) \o
                SubSeq(stream[c].buffer, 1, Smaller(transferred, call.left))]
    /\ ReturnRead(c, memory'[c])
    /\ UNCHANGED <<workload, file, faulty, operation, kernelVars, portVars,
                   at, waitVars>>

BeginWrite(t, c) ==
    /\ Begins(t, c, "write")
    /\ LET s == stream[c]
           bytes == Current(c).bytes
       IN  IF FitsBuffer(s, bytes)
           THEN /\ stream' = [stream EXCEPT ![c] = Kept(@, bytes)]
                /\ Return(c)
           ELSE /\ stream' = [stream EXCEPT ![c] = Filled(@, bytes)]
                /\ Reach(c, "flush", WriteCall(s, bytes))
    /\ UNCHANGED <<workload, file, faulty, memory, last, operation,
                   kernelVars, portVars, at, waitVars>>

AwaitWrite(t, c) ==
    \/ /\ Runs(t, c, "flush")
       /\ TryStart(t, c, "flush",
                   WriteRequest(c, stream[c].buffer, "write"))
    \/ /\ Runs(t, c, "write")
       /\ LET moved == frame[c].call.moved
              bytes == SubSeq(Current(c).bytes, moved + 1, moved + BufferSize)
          IN  TryStart(t, c, "write", WriteRequest(c, bytes, "write"))

(***************************************************************************)
(* After a write to the file: another one, or the rest goes to the buffer. *)
(***************************************************************************)
Continue(c, call) ==
    IF Direct(call)
    THEN /\ Reach(c, "write", call)
         /\ stream' = [stream EXCEPT ![c] = AfterWrite(@)]
    ELSE /\ Return(c)
         /\ stream' = [stream EXCEPT ![c] =
                        Kept(AfterWrite(@), Rest(call, Current(c).bytes))]

ResumeWrite(t, c) ==
    /\ \/ Resumes(t, c, "flush") /\ Continue(c, frame[c].call)
       \/ /\ Resumes(t, c, "write")
          /\ Continue(c, CallAfterWrite(frame[c].call,
                                        operation[c].transferred))
    /\ UNCHANGED <<workload, file, faulty, memory, last, operation,
                   kernelVars, portVars, at, waitVars>>

(***************************************************************************)
(* The end of the coroutine, or of its unwinding.  The stream is           *)
(* destroyed: a writer writes what is left in the buffer and blocks until  *)
(* the event is set.  WriteFile does not set it if it fails at once.       *)
(***************************************************************************)
Ends(t, c) ==
    \/ Runs(t, c, "close")
    \/ Runs(t, c, "next") /\ frame[c].next > Len(program[c])

Completed(t, c) ==
    /\ frame' = [frame EXCEPT ![c].pc = "done"]
    /\ at' = [at EXCEPT ![t] = At("notify", c)]

CloseReader(t, c) ==
    /\ Ends(t, c) /\ mode[c] = "read"
    /\ Completed(t, c)
    /\ UNCHANGED <<workload, fileVars, last, operation, kernelVars, portVars,
                   waitVars>>

CloseWriter(t, c) ==
    /\ Ends(t, c) /\ mode[c] = "write"
    /\ LET r == WriteRequest(c, Unwritten(stream[c]), "close")
       IN  \/ /\ \E o \in Outcomes(c, r) :
                    /\ Transfer(c, r, o)
                    /\ closeEvent' = [closeEvent EXCEPT ![c] = ~ o.error]
              /\ UNCHANGED request
           \/ /\ request' = [request EXCEPT ![c] = r]
              /\ UNCHANGED <<fileVars, closeEvent>>
    /\ frame' = [frame EXCEPT ![c].pc = "close"]
    /\ at' = [at EXCEPT ![t] = At("closing", c)]
    /\ UNCHANGED <<workload, last, operation, portVars, waitVars>>

CloseReturns(t, c) ==
    /\ at[t] = At("closing", c) /\ closeEvent[c]
    /\ Completed(t, c)
    /\ UNCHANGED <<workload, fileVars, last, operation, kernelVars, portVars,
                   waitVars>>

-----------------------------------------------------------------------------
(***************************************************************************)
(* schedule().  The operation is to carry the coroutine to an I/O thread,  *)
(* but await_suspend assigns its parameter to itself, and the operation's  *)
(* continuation stays null.  What the port refuses goes to the front of    *)
(* the overflow list.                                                      *)
(***************************************************************************)
Continuation(c) == NoCoroutine

Refused == refusals < MaxRefusals /\ refusals' = refusals + 1

Schedule(t, c) ==
    /\ Begins(t, c, "schedule")
    /\ frame' = [frame EXCEPT ![c].awaits = "schedule"]
    /\ at' = [at EXCEPT ![t] = Resumer(t)]
    /\ \/ /\ port' = Append(port, Posted(Continuation(c)))
          /\ UNCHANGED <<overflow, refusals>>
       \/ /\ Refused
          /\ overflow' = <<c>> \o overflow
          /\ UNCHANGED port
    /\ UNCHANGED <<workload, fileVars, last, operation, kernelVars, posting,
                   emptyWakeUps, waitVars>>

(***************************************************************************)
(* The event loop of an I/O thread: post what the port had refused, then   *)
(* wait for a packet.                                                      *)
(***************************************************************************)
TakeOverflow(t) ==
    /\ at[t].pc = "loop"
    /\ posting' = [posting EXCEPT ![t] = overflow]
    /\ overflow' = <<>>
    /\ at' = [at EXCEPT ![t] = Idle(IF overflow = <<>> THEN "get" ELSE "post")]
    /\ UNCHANGED <<workload, fileVars, frame, last, operation, kernelVars,
                   port, refusals, emptyWakeUps, waitVars>>

PostAgain(t) ==
    /\ at[t].pc = "post"
    /\ port' = Append(port, Posted(Continuation(Head(posting[t]))))
    /\ posting' = [posting EXCEPT ![t] = Tail(@)]
    /\ at' = [at EXCEPT ![t] =
                Idle(IF posting'[t] = <<>> THEN "get" ELSE "post")]
    /\ UNCHANGED <<workload, fileVars, frame, last, operation, kernelVars,
                   overflow, refusals, emptyWakeUps, waitVars>>

\* Fault: the rest of the refused operations is forgotten.
PutBackOne(operations, list) == <<Head(operations)>> \o list
PutBack(operations, list) == operations \o list

RefusedAgain(t) ==
    /\ at[t].pc = "post" /\ Refused
    /\ overflow' = PutBack(posting[t], overflow)
    /\ posting' = [posting EXCEPT ![t] = <<>>]
    /\ at' = [at EXCEPT ![t] = Idle("get")]
    /\ UNCHANGED <<workload, fileVars, frame, last, operation, kernelVars,
                   port, emptyWakeUps, waitVars>>

OnOperationCompleted(t) ==
    /\ at[t].pc = "get" /\ port # <<>> /\ Head(port).kind = "completion"
    /\ LET c == Head(port).coroutine
       IN  /\ operation' = [operation EXCEPT ![c] =
                    [error |-> Head(port).error,
                     transferred |-> Head(port).transferred]]
           /\ at' = [at EXCEPT ![t] = Running(c)]
    /\ port' = Tail(port)
    /\ UNCHANGED <<workload, fileVars, frame, last, kernelVars, overflow,
                   refusals, posting, emptyWakeUps, waitVars>>

OnPosted(t) ==
    /\ at[t].pc = "get" /\ port # <<>> /\ Head(port).kind = "posted"
    /\ port' = Tail(port)
    /\ LET c == Head(port).coroutine
       IN  IF c = NoCoroutine
           THEN /\ at' = [at EXCEPT ![t] = Idle("loop")]
                /\ emptyWakeUps' = emptyWakeUps + 1
                /\ UNCHANGED frame
           ELSE /\ at' = [at EXCEPT ![t] = Running(c)]
                /\ Return(c)
                /\ UNCHANGED emptyWakeUps
    /\ UNCHANGED <<workload, fileVars, last, operation, kernelVars, overflow,
                   refusals, posting, waitVars>>

-----------------------------------------------------------------------------
(***************************************************************************)
(* SyncWait and WhenAllReady.  The main thread runs each task until it     *)
(* first suspends, registers the waiting coroutine, and counts itself      *)
(* down as each task does when it is done; the last one resumes the        *)
(* waiting coroutine, whose end sets the event.                            *)
(***************************************************************************)
StartTask ==
    /\ at[Main].pc = "start" /\ started < Len(TaskOrder)
    /\ LET c == TaskOrder[started + 1]
       IN  /\ at' = [at EXCEPT ![Main] = Running(c)]
           /\ frame' = [frame EXCEPT ![c].pc = "next"]
    /\ started' = started + 1
    /\ UNCHANGED <<workload, fileVars, last, operation, kernelVars, portVars,
                   count, awaiter, event>>

RegisterAwaiter ==
    /\ at[Main].pc = "start" /\ started = Len(TaskOrder)
    /\ awaiter' = TRUE
    /\ at' = [at EXCEPT ![Main] = Idle("await")]
    /\ UNCHANGED <<workload, fileVars, frame, last, operation, kernelVars,
                   portVars, started, count, event>>

TryAwait ==
    /\ at[Main].pc = "await"
    /\ count' = count - 1
    /\ at' = [at EXCEPT ![Main] = Idle(IF count > 1 THEN "wait" ELSE "resume")]
    /\ UNCHANGED <<workload, fileVars, frame, last, operation, kernelVars,
                   portVars, started, awaiter, event>>

\* Faults: an old value of two is taken for the last one, or only zero is.
IsLastButOne(n) == n <= 2
IsBelowLast(n) == n = 0
IsLast(n) == n = 1

NotifyAwaitableCompleted(t) ==
    /\ at[t].pc = "notify"
    /\ count' = count - 1
    /\ at' = [at EXCEPT ![t] =
                IF IsLast(count) THEN Idle("resume") ELSE Resumer(t)]
    /\ UNCHANGED <<workload, fileVars, frame, last, operation, kernelVars,
                   portVars, started, awaiter, event>>

SetEvent(t) ==
    /\ at[t].pc = "resume"
    /\ event' = TRUE
    /\ at' = [at EXCEPT ![t] = Idle(IF t = Main THEN "wait" ELSE "loop")]
    /\ UNCHANGED <<workload, fileVars, frame, last, operation, kernelVars,
                   portVars, started, count, awaiter>>

WaitReturns ==
    /\ at[Main].pc = "wait" /\ event
    /\ at' = [at EXCEPT ![Main] = Idle("returned")]
    /\ UNCHANGED <<workload, fileVars, frame, last, operation, kernelVars,
                   portVars, waitVars>>

-----------------------------------------------------------------------------

RunCoroutine(t, c) ==
    \/ BeginSkip(t, c)
    \/ BeginRead(t, c) \/ AwaitRead(t, c)
    \/ ResumeDirect(t, c) \/ ResumeRefill(t, c)
    \/ BeginWrite(t, c) \/ AwaitWrite(t, c) \/ ResumeWrite(t, c)
    \/ Schedule(t, c) \/ Throw(t, c)
    \/ CloseReader(t, c) \/ CloseWriter(t, c) \/ CloseReturns(t, c)

AnyThread(t) ==
    \/ \E c \in Coroutine : RunCoroutine(t, c)
    \/ ReturnPending(t) \/ NotifyAwaitableCompleted(t) \/ SetEvent(t)

MainThread == StartTask \/ RegisterAwaiter \/ TryAwait \/ WaitReturns

EventLoop(t) ==
    \/ TakeOverflow(t) \/ PostAgain(t) \/ RefusedAgain(t)
    \/ OnOperationCompleted(t) \/ OnPosted(t)

Next ==
    \/ \E t \in Thread : AnyThread(t)
    \/ MainThread
    \/ \E t \in IOThread : EventLoop(t)
    \/ \E c \in Coroutine : Complete(c)

Spec == Init /\ [][Next]_vars

(***************************************************************************)
(* Threads run on and the kernel carries out what is pending.              *)
(***************************************************************************)
Fairness ==
    /\ WF_vars(AnyThread(Main) \/ MainThread)
    /\ \A t \in IOThread : WF_vars(AnyThread(t) \/ EventLoop(t))
    /\ \A c \in Coroutine : WF_vars(Complete(c))

FairSpec == Spec /\ Fairness

-----------------------------------------------------------------------------
(***************************************************************************)
(* Every variable keeps its type: indices stay inside the buffer, and the  *)
(* counter never falls below zero.                                         *)
(***************************************************************************)
Packet ==
    [kind : {"completion"}, coroutine : Coroutine, error : BOOLEAN,
     transferred : 0..BufferSize]
    \union [kind : {"posted"}, coroutine : Coroutine \union {NoCoroutine}]

TypeOK ==
    /\ \A c \in Coroutine :
        /\ stream[c].bufferOffset \in 0..BufferSize
        /\ stream[c].bufferCount \in 0..BufferSize
        /\ Len(stream[c].buffer) = BufferSize
        /\ stream[c].fileOffset \in Nat
        /\ frame[c].next \in 1..(Len(program[c]) + 1)
        /\ frame[c].call.left \in Nat /\ frame[c].call.moved \in Nat
    /\ operation \in
            [Coroutine -> [error : BOOLEAN, transferred : 0..BufferSize]]
    /\ closeEvent \in [Coroutine -> BOOLEAN]
    /\ port \in Seq(Packet)
    /\ overflow \in Seq(Coroutine)
    /\ posting \in [IOThread -> Seq(Coroutine)]
    /\ at \in [Thread -> [pc : {"start", "await", "wait", "returned", "loop",
                                "post", "get", "run", "call", "closing",
                                "notify", "resume"},
                          coroutine : Coroutine \union {NoCoroutine}]]
    /\ count \in 0..InitialCount
    /\ awaiter \in BOOLEAN /\ event \in BOOLEAN

(***************************************************************************)
(* A coroutine is run by one thread, and by none while an operation of its *)
(* own is pending or its completion is on the way: a thread that got       *)
(* ERROR_IO_PENDING in try_start lets go of the frame at once, since an    *)
(* I/O thread may already have it.                                         *)
(***************************************************************************)
Holds(t, c) ==
    at[t].coroutine = c /\ at[t].pc \in {"run", "closing", "notify"}

Pending(c) == request[c] # NoRequest /\ request[c].kind # "close"

Completing(c) ==
    \E i \in DOMAIN port :
        port[i].kind = "completion" /\ port[i].coroutine = c

OneThreadPerCoroutine ==
    \A c \in Coroutine :
        /\ \A t, u \in Thread : Holds(t, c) /\ Holds(u, c) => t = u
        /\ Pending(c) \/ Completing(c) => \A t \in Thread : ~ Holds(t, c)
        /\ ~ (Pending(c) /\ Completing(c))

(***************************************************************************)
(* The coroutine that awaits the tasks goes on once, when every task is    *)
(* done, whichever of the tasks and the main thread counts down last.      *)
(***************************************************************************)
ResumedAfterTasks ==
    /\ \A t \in Thread : at[t].pc = "resume" =>
            /\ awaiter /\ ~ event
            /\ \A u \in Thread : at[u].pc = "resume" => u = t
            /\ \A c \in Coroutine : frame[c].pc = "done"
    /\ event => \A c \in Coroutine : frame[c].pc = "done"

(***************************************************************************)
(* When SyncWait returns, and the frames with the streams and the counter  *)
(* in them are destroyed, no thread is in a coroutine any more, the kernel *)
(* writes to no buffer, and no packet leads to a frame.                    *)
(***************************************************************************)
FramesOutliveUse ==
    at[Main].pc = "returned" =>
        /\ \A t \in Thread :
            at[t].pc \notin {"run", "closing", "notify", "resume"}
        /\ \A c \in Coroutine : request[c] = NoRequest /\ ~ Completing(c)

(***************************************************************************)
(* No scheduled operation is lost between the threads that share the       *)
(* overflow list: each is in the list, in a thread's hands, in the port or *)
(* was taken from it, once.                                                *)
(***************************************************************************)
ScheduledKept ==
    Cardinality({c \in Coroutine : frame[c].awaits = "schedule"})
        = Len(overflow)
          + Cardinality({p \in IOThread \X (1..Len(TaskOrder)) :
                            p[2] \in DOMAIN posting[p[1]]})
          + Cardinality({i \in DOMAIN port : port[i].kind = "posted"})
          + emptyWakeUps

(***************************************************************************)
(* SyncWait returns, whatever completes at once or later and whatever      *)
(* fails, except where a coroutine waits for schedule(), which never       *)
(* resumes it, or a destructor for the event of a write that failed at     *)
(* once.                                                                   *)
(***************************************************************************)
Hangs(c) ==
    \/ frame[c].awaits = "schedule"
    \/ /\ \E t \in Thread : at[t] = At("closing", c)
       /\ c \in faulty /\ ~ closeEvent[c] /\ request[c] = NoRequest

SyncWaitReturns ==
    <>(at[Main].pc = "returned" \/ \E c \in Coroutine : Hangs(c))

(***************************************************************************)
(* The streams are byte streams: buffering, positions, the asynchronous    *)
(* operations and the threads that resume them do not show.                *)
(***************************************************************************)
Position(c) ==
    IF mode[c] = "write" THEN 0
    ELSE IF frame[c].pc = "read" \/ frame[c].failed
         THEN stream[c].fileOffset - frame[c].call.moved
         ELSE stream[c].fileOffset
              - (stream[c].bufferCount - stream[c].bufferOffset)

Status(c) ==
    IF frame[c].failed THEN "failed"
    ELSE IF frame[c].pc = "done" THEN "closed" ELSE "open"

Streams ==
    INSTANCE ByteStreams WITH
        next <- [c \in Coroutine |-> frame[c].next],
        position <- [c \in Coroutine |-> Position(c)],
        status <- [c \in Coroutine |-> Status(c)],
        file <- [c \in Coroutine |->
                    IF Status(c) = "closed" /\ c \notin faulty
                    THEN file[c] ELSE oldFile[c]]

IsByteStreams == Streams!Spec

=============================================================================
