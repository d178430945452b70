---------------------------- MODULE ByteStreams -----------------------------
(***************************************************************************)
(* What the asynchronous file streams promise their users: each coroutine  *)
(* has a file of its own, and its reads and writes happen one after the    *)
(* other, at a position that advances by what was read, as if the file     *)
(* were a sequence of bytes with nothing buffered.  What was written is in *)
(* the file when the stream is closed.  An operation fails only where the  *)
(* file ends, or where the device fails, which nothing is promised after.  *)
(***************************************************************************)
EXTENDS Naturals, Sequences

CONSTANT Coroutine

VARIABLES
    program,    \* what each coroutine does with its stream
    mode,       \* whether it reads or writes
    next,       \* its next operation
    position,   \* of a reader
    last,       \* what its last read returned
    file,       \* the bytes of its file, as it was opened and when closed
    status,     \* "open", "closed" or "failed"
    faulty      \* the coroutines whose file's device failed

vars == <<program, mode, next, position, last, file, status, faulty>>

-----------------------------------------------------------------------------

Operation(c) == program[c][next[c]]
Unfinished(c) == status[c] = "open" /\ next[c] <= Len(program[c])

AtEnd(c, count) == position[c] + count > Len(file[c])

BytesRead(c, count) ==
    SubSeq(file[c], position[c] + 1,
           IF AtEnd(c, count) THEN Len(file[c]) ELSE position[c] + count)

(***************************************************************************)
(* All the bytes of the writes before operation n.                         *)
(***************************************************************************)
BytesWritten(c) ==
    LET written[n \in 0..Len(program[c])] ==
            IF n = 0 THEN <<>>
            ELSE written[n - 1]
                 \o IF program[c][n].op = "write" THEN program[c][n].bytes
                                                  ELSE <<>>
    IN  written[next[c] - 1]

Read(c) ==
    /\ Unfinished(c) /\ Operation(c).op = "read"
    /\ last' = [last EXCEPT ![c] = BytesRead(c, Operation(c).count)]
    /\ position' = [position EXCEPT ![c] = @ + Len(last'[c])]
    /\ next' = [next EXCEPT ![c] = @ + 1]
    /\ UNCHANGED <<program, mode, file, status, faulty>>

SkipTo(c) ==
    /\ Unfinished(c) /\ Operation(c).op = "skipTo"
    /\ position' = [position EXCEPT ![c] = Operation(c).offset]
    /\ next' = [next EXCEPT ![c] = @ + 1]
    /\ UNCHANGED <<program, mode, last, file, status, faulty>>

(***************************************************************************)
(* Skip promises less than its name: it jumps over the offset and over     *)
(* some bytes more, which depend on what happens to be buffered.           *)
(***************************************************************************)
Skip(c) ==
    /\ Unfinished(c) /\ Operation(c).op = "skip"
    /\ \E more \in {0} \union 0..(Len(file[c]) - position[c]) :
        /\ Operation(c).offset = 0 => more = 0
        /\ position' = [position EXCEPT ![c] = @ + Operation(c).offset + more]
    /\ next' = [next EXCEPT ![c] = @ + 1]
    /\ UNCHANGED <<program, mode, last, file, status, faulty>>

Write(c) ==
    /\ Unfinished(c) /\ Operation(c).op = "write"
    /\ next' = [next EXCEPT ![c] = @ + 1]
    /\ UNCHANGED <<program, mode, position, last, file, status, faulty>>

Close(c) ==
    /\ status[c] = "open" /\ next[c] = Len(program[c]) + 1
    /\ status' = [status EXCEPT ![c] = "closed"]
    /\ file' = IF mode[c] = "read" \/ c \in faulty THEN file
               ELSE LET written == BytesWritten(c)
                    IN  [file EXCEPT ![c] =
                            written \o SubSeq(@, Len(written) + 1, Len(@))]
    /\ UNCHANGED <<program, mode, next, position, last, faulty>>

Fail(c) ==
    /\ Unfinished(c)
    /\ \/ c \in faulty
       \/ Operation(c).op = "read" /\ AtEnd(c, Operation(c).count)
    /\ status' = [status EXCEPT ![c] = "failed"]
    /\ UNCHANGED <<program, mode, next, position, last, file, faulty>>

Fault(c) ==
    /\ status[c] = "open"
    /\ faulty' = faulty \union {c}
    /\ UNCHANGED <<program, mode, next, position, last, file, status>>

Init ==
    /\ next = [c \in Coroutine |-> 1]
    /\ position = [c \in Coroutine |-> 0]
    /\ last = [c \in Coroutine |-> <<>>]
    /\ status = [c \in Coroutine |-> "open"]
    /\ faulty = {}

Next ==
    \E c \in Coroutine :
        \/ Read(c) \/ SkipTo(c) \/ Skip(c) \/ Write(c)
        \/ Close(c) \/ Fail(c) \/ Fault(c)

Spec == Init /\ [][Next]_vars

=============================================================================
