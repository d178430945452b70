----------------------------- MODULE FileStream -----------------------------
(***************************************************************************)
(* FileAsyncStream of Engine/Core/Coroutine/AsyncStream.cpp as functions   *)
(* on its members, and a file as a sequence of bytes.  Read and Write are  *)
(* coroutines: what they do before, between and after the operations they  *)
(* await is one operator each; AsyncFiles awaits.                          *)
(*                                                                         *)
(* A call is [left, moved]: byteCount as it is counted down, and how many  *)
(* bytes were read or written so far (readCount, dstoffset).  The caller's *)
(* memory holds the bytes read so far, or all the bytes to write.          *)
(***************************************************************************)
EXTENDS Naturals, Sequences

CONSTANT BufferSize     \* FileAsyncStream::bufferSize

ASSUME BufferAssumption == BufferSize \in Nat \ {0}

Smaller(m, n) == IF m < n THEN m ELSE n
Larger(m, n) == IF m < n THEN n ELSE m

(***************************************************************************)
(* What memcpy leaves of some memory, and WriteFile of a file, which grows *)
(* as far as it has to.                                                    *)
(***************************************************************************)
Copied(memory, at, bytes) ==
    [i \in DOMAIN memory |->
        IF i \in (at + 1)..(at + Len(bytes)) THEN bytes[i - at] ELSE memory[i]]

FileWritten(file, offset, bytes) ==
    LET grown == Larger(Len(file), offset + Len(bytes))
    IN  Copied([i \in 1..grown |-> IF i <= Len(file) THEN file[i] ELSE 0],
               offset, bytes)

FileRead(file, offset, count) ==
    SubSeq(file, offset + 1, Smaller(offset + count, Len(file)))

NewStream ==
    [buffer |-> [i \in 1..BufferSize |-> 0], bufferCount |-> 0,
     bufferOffset |-> 0, fileOffset |-> 0]

SkippedTo(s, offset) ==
    [s EXCEPT !.fileOffset = offset, !.bufferOffset = 0, !.bufferCount = 0]

(***************************************************************************)
(* Skip counts from the end of what was read from the file, not from the   *)
(* end of what the reader got.                                             *)
(***************************************************************************)
Skipped(s, offset) ==
    IF offset = 0 THEN s ELSE SkippedTo(s, s.fileOffset + offset)

-----------------------------------------------------------------------------
(***************************************************************************)
(* Read.  Enough in the buffer, or all that is left of it and then the     *)
(* file: whole buffers straight into the caller's memory, the rest by way  *)
(* of the buffer.                                                          *)
(***************************************************************************)
InBuffer(s, count) == s.bufferOffset + count < s.bufferCount

FromBuffer(s, count) ==
    SubSeq(s.buffer, s.bufferOffset + 1, s.bufferOffset + count)

Advanced(s, count) == [s EXCEPT !.bufferOffset = @ + count]

\* Fault: bufferCount keeps its value when the buffer was used up.
OffsetReset(s) == [s EXCEPT !.bufferOffset = 0]
Emptied(s) == [s EXCEPT !.bufferOffset = 0, !.bufferCount = 0]

Remainder(s) == SubSeq(s.buffer, s.bufferOffset + 1, s.bufferCount)

ReadCall(s, count) ==
    [left |-> count - Len(Remainder(s)), moved |-> Len(Remainder(s))]

Direct(call) == call.left >= BufferSize

ShortRead(count) == count # BufferSize

AfterDirect(s, count) == [s EXCEPT !.fileOffset = @ + count]

AfterRefill(s, call, count) ==
    [s EXCEPT !.bufferCount = count, !.fileOffset = @ + count,
              !.bufferOffset = Smaller(count, call.left)]

CallAfter(call, count) ==
    [call EXCEPT !.left = @ - count, !.moved = @ + count]

-----------------------------------------------------------------------------
(***************************************************************************)
(* Write.  Into the buffer while it does not fill it; else the buffer is   *)
(* filled and written, whole buffers follow straight from the caller's     *)
(* memory, and the rest stays in the buffer.                               *)
(***************************************************************************)
FitsBuffer(s, bytes) == s.bufferOffset + Len(bytes) < BufferSize

Kept(s, bytes) ==
    [s EXCEPT !.buffer = Copied(@, s.bufferOffset, bytes),
              !.bufferOffset = @ + Len(bytes)]

Room(s) == BufferSize - s.bufferOffset

Filled(s, bytes) ==
    [s EXCEPT !.buffer = Copied(@, s.bufferOffset, SubSeq(bytes, 1, Room(s))),
              !.bufferOffset = 0]

WriteCall(s, bytes) ==
    [left |-> Len(bytes) - Room(s), moved |-> Room(s)]

AfterWrite(s) == [s EXCEPT !.fileOffset = @ + BufferSize]

CallAfterWrite(call, count) ==
    [call EXCEPT !.left = @ - BufferSize, !.moved = @ + count]

Rest(call, bytes) == SubSeq(bytes, call.moved + 1, call.moved + call.left)

(***************************************************************************)
(* What the destructor writes.                                             *)
(***************************************************************************)
Unwritten(s) == SubSeq(s.buffer, 1, s.bufferOffset)

=============================================================================
