---------------------------- MODULE MCAsyncFiles ----------------------------
(***************************************************************************)
(* Two tasks and two I/O threads, buffers of three bytes.  A byte is a     *)
(* small number; those of a file are all different.                        *)
(***************************************************************************)
EXTENDS AsyncFiles

CONSTANTS c1, c2

TwoTasks == <<c1, c2>>

Read(n) == [op |-> "read", count |-> n]
Skip(n) == [op |-> "skip", offset |-> n]
SkipTo(n) == [op |-> "skipTo", offset |-> n]
Write(bytes) == [op |-> "write", bytes |-> bytes]
ScheduleOp == [op |-> "schedule"]

Reader(operations, bytes) == <<operations, "read", bytes>>
Writer(operations, bytes) == <<operations, "write", bytes>>

Together(a, b) ==
    LET w == c1 :> a @@ c2 :> b
    IN  [program |-> [c \in Coroutine |-> w[c][1]],
         mode |-> [c \in Coroutine |-> w[c][2]],
         files |-> [c \in Coroutine |-> w[c][3]]]

(***************************************************************************)
(* Reads up to and across the end of the buffer, straight into memory, and *)
(* after jumps; short at the end of the file, and past it.                *)
(***************************************************************************)
Boundaries ==
    Reader(<<Read(1), Read(1), Read(1), Read(7)>>,
           <<1, 2, 3, 4, 5, 6, 7, 8, 9, 10>>)
Jumps ==
    Reader(<<Read(1), Skip(1), Read(1), SkipTo(1), Read(4)>>,
           <<1, 2, 3, 4, 5>>)
PastTheEnd == Reader(<<Read(1), Read(5), Read(1)>>, <<1, 2, 3, 4>>)

(***************************************************************************)
(* Writes that fit, fill and overflow the buffer, to a new file and over   *)
(* an older, longer one.                                                   *)
(***************************************************************************)
Sizes ==
    Writer(<<Write(<<1>>), Write(<<2, 3, 4, 5, 6, 7, 8, 9, 10, 11>>),
             Write(<<12>>)>>, <<>>)
Overwrites ==
    Writer(<<Write(<<11>>), Write(<<12, 13>>)>>, <<1, 2, 3, 4, 5>>)

Schedules == Reader(<<ScheduleOp>>, <<>>)

AllWorkloads ==
    {Together(Boundaries, Overwrites), Together(Jumps, PastTheEnd),
     Together(Sizes, PastTheEnd), Together(Schedules, Schedules)}

=============================================================================
