------------------------- MODULE AsyncFilesStreams -------------------------
(***************************************************************************)
(* The file streams of AsyncFiles are byte streams, for any programs, any  *)
(* size of the buffer and any schedule of the coroutines, the I/O threads  *)
(* and the kernel; and all indices stay inside the buffer.                 *)
(*                                                                         *)
(* First what memcpy, ReadFile, WriteFile and the members of a stream do,  *)
(* element by element.  Then Own and Told: what one coroutine has, and     *)
(* what it may be told of the operation it awaits, with a lemma for each   *)
(* way it can go on, all without the state of the system.  DataInv says    *)
(* that every coroutine has that, and StepOf what a step of one of them    *)
(* leaves to the others and what its users see of it.  Every step is one   *)
(* of those or touches nobody (OneSteps), which gives the invariant and    *)
(* the refinement.                                                         *)
(***************************************************************************)
EXTENDS AsyncFilesProofs, WellFoundedInduction

-----------------------------------------------------------------------------
(***************************************************************************)
(* What memcpy, WriteFile and ReadFile do, element by element.             *)
(***************************************************************************)
LEMMA SliceIs ==
    ASSUME NEW s \in Seq(Nat), NEW m \in Nat \ {0}, NEW n \in Nat,
           n <= Len(s)
    PROVE  /\ SubSeq(s, m, n) \in Seq(Nat)
           /\ Len(SubSeq(s, m, n)) = IF m <= n THEN n - m + 1 ELSE 0
           /\ Len(SubSeq(s, m, n)) \in Nat
           /\ \A i \in 1..Len(SubSeq(s, m, n)) :
                /\ m + i - 1 \in 1..Len(s)
                /\ SubSeq(s, m, n)[i] = s[m + i - 1]
<1>1. /\ SubSeq(s, m, n) \in Seq(Nat)
      /\ Len(SubSeq(s, m, n)) = IF m <= n THEN n - m + 1 ELSE 0
      /\ \A i \in 1..(n - m + 1) : SubSeq(s, m, n)[i] = s[m + i - 1]
  OBVIOUS
<1>2. PICK q : q = SubSeq(s, m, n)  OBVIOUS
<1>3. /\ q \in Seq(Nat) /\ Len(q) = IF m <= n THEN n - m + 1 ELSE 0
      /\ \A i \in 1..(n - m + 1) : q[i] = s[m + i - 1]
  BY <1>1, <1>2
<1> HIDE <1>2
<1>4. Len(q) \in Nat
  BY <1>3
<1>5. \A i \in 1..Len(q) : i \in 1..(n - m + 1) /\ m + i - 1 \in 1..Len(s)
  BY <1>3
<1>6. /\ q \in Seq(Nat)
      /\ Len(q) = IF m <= n THEN n - m + 1 ELSE 0
      /\ Len(q) \in Nat
      /\ \A i \in 1..Len(q) : m + i - 1 \in 1..Len(s) /\ q[i] = s[m + i - 1]
  BY <1>3, <1>4, <1>5
<1> QED  BY <1>2, <1>6

IsCopy(copy, n, old, k, bytes) ==
    /\ copy \in [1..n -> Nat]
    /\ \A i \in 1..n :
        copy[i] = IF i \in (k + 1)..(k + Len(bytes)) THEN bytes[i - k]
                  ELSE old[i]

LEMMA CopiedIs ==
    ASSUME NEW n \in Nat, NEW memory_ \in [1..n -> Nat], NEW k \in Nat,
           NEW bytes \in Seq(Nat)
    PROVE  IsCopy(Copied(memory_, k, bytes), n, memory_, k, bytes)
<1>1. \A i \in (k + 1)..(k + Len(bytes)) : bytes[i - k] \in Nat
  <2> SUFFICES ASSUME NEW i \in (k + 1)..(k + Len(bytes))
               PROVE  bytes[i - k] \in Nat
    OBVIOUS
  <2>1. i - k \in 1..Len(bytes)  OBVIOUS
  <2> QED  BY <2>1
<1>2. DOMAIN memory_ = 1..n /\ \A i \in 1..n : memory_[i] \in Nat
  OBVIOUS
<1> QED  BY <1>1, <1>2 DEF Copied, IsCopy

IsGrown(new, old, offset, bytes) ==
    /\ new \in Seq(Nat)
    /\ Len(new) = Larger(Len(old), offset + Len(bytes))
    /\ \A i \in 1..Len(new) :
        new[i] = IF i \in (offset + 1)..(offset + Len(bytes))
                 THEN bytes[i - offset]
                 ELSE IF i <= Len(old) THEN old[i] ELSE 0

LEMMA FunctionSeq ==
    ASSUME NEW n \in Nat, NEW w \in [1..n -> Nat]
    PROVE  w \in Seq(Nat) /\ Len(w) = n
OBVIOUS

LEMMA FileWrittenIs ==
    ASSUME NEW f \in Seq(Nat), NEW offset \in Nat, NEW bytes \in Seq(Nat)
    PROVE  IsGrown(FileWritten(f, offset, bytes), f, offset, bytes)
<1>0. PICK size \in Nat, more \in Nat :
        size = Len(f) /\ more = offset + Len(bytes)
  OBVIOUS
<1>1. PICK grown \in Nat : grown = Larger(size, more)
  BY <1>0 DEF Larger
<1>2. PICK g : g = [i \in 1..grown |-> IF i <= Len(f) THEN f[i] ELSE 0]
  OBVIOUS
<1>3. /\ g \in [1..grown -> Nat]
      /\ \A i \in 1..grown : g[i] = IF i <= Len(f) THEN f[i] ELSE 0
  <2>1. \A i \in 1..grown : i <= Len(f) => i \in 1..Len(f)
    BY <1>1
  <2> QED  BY <1>2, <2>1
<1>4. PICK w : w = Copied(g, offset, bytes)  OBVIOUS
<1>5. FileWritten(f, offset, bytes) = w
  BY <1>0, <1>1, <1>2, <1>4 DEF FileWritten
<1>6. IsCopy(w, grown, g, offset, bytes)
  BY <1>1, <1>3, <1>4, CopiedIs
<1>7. w \in Seq(Nat) /\ Len(w) = grown
  <2>1. w \in [1..grown -> Nat]  BY <1>6 DEF IsCopy
  <2> QED  BY <1>1, <2>1, FunctionSeq
<1>8. \A i \in 1..grown :
        w[i] = IF i \in (offset + 1)..(offset + Len(bytes))
               THEN bytes[i - offset]
               ELSE IF i <= Len(f) THEN f[i] ELSE 0
  BY <1>3, <1>6 DEF IsCopy
<1>9. Len(w) = Larger(Len(f), offset + Len(bytes))
  BY <1>0, <1>1, <1>7
<1>10. IsGrown(w, f, offset, bytes)
  BY <1>7, <1>8, <1>9 DEF IsGrown
<1> QED  BY <1>5, <1>10

LEMMA FileReadIs ==
    ASSUME NEW f \in Seq(Nat), NEW offset \in Nat, NEW n \in Nat
    PROVE  /\ FileRead(f, offset, n) \in Seq(Nat)
           /\ Len(FileRead(f, offset, n)) =
                IF offset < Len(f) THEN Smaller(n, Len(f) - offset) ELSE 0
           /\ Len(FileRead(f, offset, n)) \in 0..n
           /\ \A i \in 1..Len(FileRead(f, offset, n)) :
                /\ offset + i \in 1..Len(f)
                /\ FileRead(f, offset, n)[i] = f[offset + i]
<1> DEFINE last_ == Smaller(offset + n, Len(f))
<1>1. /\ last_ \in Nat /\ last_ <= Len(f) /\ offset + 1 \in Nat \ {0}
      /\ Len(f) \in Nat
      /\ last_ = IF offset + n < Len(f) THEN offset + n ELSE Len(f)
  BY DEF Smaller
<1> HIDE DEF last_
<1>2. PICK m \in Nat \ {0} : m = offset + 1
  BY <1>1
<1>20. /\ SubSeq(f, m, last_) \in Seq(Nat)
       /\ Len(SubSeq(f, m, last_)) = IF m <= last_ THEN last_ - m + 1 ELSE 0
       /\ \A i \in 1..Len(SubSeq(f, m, last_)) :
            /\ m + i - 1 \in 1..Len(f)
            /\ SubSeq(f, m, last_)[i] = f[m + i - 1]
  BY <1>1, SliceIs
<1>21. PICK q : q = SubSeq(f, m, last_)  OBVIOUS
<1>22. /\ q \in Seq(Nat) /\ Len(q) = IF m <= last_ THEN last_ - m + 1 ELSE 0
       /\ \A i \in 1..Len(q) : m + i - 1 \in 1..Len(f) /\ q[i] = f[m + i - 1]
  BY <1>20, <1>21
<1>3. q = FileRead(f, offset, n)
  BY <1>2, <1>21 DEF FileRead, last_
<1> HIDE <1>21
<1>4. \A i \in 1..Len(q) : m + i - 1 = offset + i
  BY <1>2, <1>22
<1>5. /\ Len(q) = IF offset < Len(f) THEN Smaller(n, Len(f) - offset) ELSE 0
      /\ Len(q) \in 0..n
  <2>0. q \in Seq(Nat)  BY <1>22
  <2>1. PICK size \in Nat, k \in Nat : size = Len(f) /\ k = Len(q)
    BY <2>0
  <2>2. k = IF offset + 1 <= last_ THEN last_ - (offset + 1) + 1 ELSE 0
    BY <1>2, <1>22, <2>1
  <2>3. last_ = IF offset + n < size THEN offset + n ELSE size
    BY <1>1, <2>1
  <2>4. k = IF offset < size THEN Smaller(n, size - offset) ELSE 0
    BY <2>2, <2>3 DEF Smaller
  <2>5. k \in 0..n
    BY <2>1, <2>2, <2>3
  <2> QED  BY <2>1, <2>4, <2>5
<1>6. \A i \in 1..Len(q) : offset + i \in 1..Len(f) /\ q[i] = f[offset + i]
  BY <1>4, <1>22
<1>7. /\ q \in Seq(Nat)
      /\ Len(q) = IF offset < Len(f) THEN Smaller(n, Len(f) - offset) ELSE 0
      /\ Len(q) \in 0..n
      /\ \A i \in 1..Len(q) : offset + i \in 1..Len(f) /\ q[i] = f[offset + i]
  <2>0. q \in Seq(Nat)  BY <1>22
  <2> QED  BY <2>0, <1>5, <1>6
<1> QED  BY <1>3, <1>7

(***************************************************************************)
(* A set of numbers that is not empty has a least element.                 *)
(***************************************************************************)
LEMMA Least ==
    ASSUME NEW T, T \subseteq Nat, T # {}
    PROVE  \E x \in T : \A y \in T : x <= y
<1>1. PICK x \in T : \A y \in T : ~ (<<y, x>> \in OpToRel(<, Nat))
  <2>1. T \subseteq Nat /\ T # {}  OBVIOUS
  <2> QED  BY <2>1, NatLessThanWellFounded, WFMin, Zenon
<1>2. \A y \in T : ~ (y < x)
  <2> SUFFICES ASSUME NEW y \in T, y < x  PROVE FALSE
    OBVIOUS
  <2>1. <<y, x>> \in Nat \X Nat /\ <<y, x>>[1] < <<y, x>>[2]  OBVIOUS
  <2>2. <<y, x>> \in OpToRel(<, Nat)  BY <2>1 DEF OpToRel
  <2> QED  BY <1>1, <2>2
<1> QED  BY <1>2

(***************************************************************************)
(* What the writes of a program write: the bytes of the first n            *)
(* operations.                                                             *)
(***************************************************************************)
Added(operation_) ==
    IF operation_.op = "write" THEN operation_.bytes ELSE <<>>

Written(p) ==
    LET written[n \in 0..Len(p)] ==
            IF n = 0 THEN <<>>
            ELSE written[n - 1]
                 \o IF p[n].op = "write" THEN p[n].bytes ELSE <<>>
    IN  written

AddsUp(g, p, k) ==
    g = [n \in 0..k |-> IF n = 0 THEN <<>> ELSE g[n - 1] \o Added(p[n])]

LEMMA AddsOne ==
    ASSUME NEW p, NEW k \in Nat, NEW g, AddsUp(g, p, k)
    PROVE  \E h : AddsUp(h, p, k + 1)
<1> DEFINE h == [n \in 0..(k + 1) |->
                    IF n = k + 1 THEN g[k] \o Added(p[k + 1]) ELSE g[n]]
<1>1. \A n \in 0..(k + 1) :
        h[n] = IF n = k + 1 THEN g[k] \o Added(p[k + 1]) ELSE g[n]
  OBVIOUS
<1>2. \A n \in 0..k : g[n] = IF n = 0 THEN <<>> ELSE g[n - 1] \o Added(p[n])
  BY DEF AddsUp
<1>3. DOMAIN h = 0..(k + 1) /\ h = [n \in 0..(k + 1) |-> h[n]]  OBVIOUS
<1> HIDE DEF h
<1>4. ASSUME NEW n \in 0..(k + 1)
      PROVE  h[n] = IF n = 0 THEN <<>> ELSE h[n - 1] \o Added(p[n])
  <2>1. CASE n = k + 1
    <3>1. n - 1 = k /\ k \in 0..(k + 1) /\ k # k + 1 /\ n # 0  BY <2>1
    <3>2. h[n - 1] = g[k]  BY <1>1, <3>1
    <3> QED  BY <1>1, <2>1, <3>1, <3>2
  <2>2. CASE n # k + 1 /\ n # 0
    <3>1. n \in 0..k /\ n - 1 \in 0..(k + 1) /\ n - 1 # k + 1  BY <2>2
    <3>2. h[n] = g[n] /\ h[n - 1] = g[n - 1]  BY <1>1, <2>2, <3>1
    <3>3. g[n] = g[n - 1] \o Added(p[n])  BY <1>2, <2>2, <3>1
    <3> QED  BY <2>2, <3>2, <3>3
  <2>3. CASE n = 0
    <3>1. 0 \in 0..k /\ 0 # k + 1  OBVIOUS
    <3> QED  BY <1>1, <1>2, <2>3, <3>1
  <2> QED  BY <2>1, <2>2, <2>3
<1>5. AddsUp(h, p, k + 1)
  BY <1>3, <1>4, Zenon DEF AddsUp
<1> QED  BY <1>5

LEMMA AddsUpExists ==
    ASSUME NEW p, NEW k \in Nat
    PROVE  \E g : AddsUp(g, p, k)
<1> DEFINE T == {n \in Nat : ~ \E g : AddsUp(g, p, n)}
<1>1. 0 \notin T
  <2> DEFINE g == [n \in 0..0 |-> <<>>]
  <2>1. g = [n \in 0..0 |-> IF n = 0 THEN <<>> ELSE g[n - 1] \o Added(p[n])]
    OBVIOUS
  <2> HIDE DEF g
  <2>2. AddsUp(g, p, 0)  BY <2>1 DEF AddsUp
  <2> QED  BY <2>2
<1>2. \A n \in Nat : n \notin T => n + 1 \notin T
  BY AddsOne
<1>3. T = {}
  <2> SUFFICES ASSUME T # {}  PROVE FALSE
    OBVIOUS
  <2>1. PICK n \in T : \A y \in T : n <= y
    BY Least
  <2> HIDE DEF T
  <2>2. n \in Nat /\ n # 0  BY <1>1, <2>1 DEF T
  <2>3. n - 1 \in Nat /\ n - 1 \notin T /\ (n - 1) + 1 = n  BY <2>1, <2>2
  <2>4. (n - 1) + 1 \notin T  BY <1>2, <2>3
  <2> QED  BY <2>3, <2>4
<1> QED  BY <1>3

LEMMA WrittenAddsUp ==
    ASSUME NEW p
    PROVE  Len(p) \in Nat => AddsUp(Written(p), p, Len(p))
<1>1. ASSUME \E g : AddsUp(g, p, Len(p))
      PROVE  AddsUp(Written(p), p, Len(p))
  BY <1>1 DEF AddsUp, Written, Added
<1> QED  BY <1>1, AddsUpExists

LEMMA AddedTyped ==
    ASSUME NEW access, NEW operation_ \in Operations(access)
    PROVE  Added(operation_) \in Seq(Nat)
BY DEF Operations, Added

LEMMA WrittenIs ==
    ASSUME NEW access, NEW p \in Seq(Operations(access))
    PROVE  /\ Written(p)[0] = <<>>
           /\ \A n \in 0..Len(p) : Written(p)[n] \in Seq(Nat)
           /\ \A n \in 1..Len(p) :
                Written(p)[n] = Written(p)[n - 1] \o Added(p[n])
<1>0. Len(p) \in Nat  OBVIOUS
<1>1. \A n \in 0..Len(p) :
        Written(p)[n] = IF n = 0 THEN <<>>
                        ELSE Written(p)[n - 1] \o Added(p[n])
  BY <1>0, WrittenAddsUp DEF AddsUp
<1>2. PICK w : w = Written(p)  OBVIOUS
<1>3. \A n \in 0..Len(p) :
        w[n] = IF n = 0 THEN <<>> ELSE w[n - 1] \o Added(p[n])
  BY <1>1, <1>2
<1>4. \A n \in 1..Len(p) : Added(p[n]) \in Seq(Nat)
  <2> SUFFICES ASSUME NEW n \in 1..Len(p)  PROVE Added(p[n]) \in Seq(Nat)
    OBVIOUS
  <2>1. p[n] \in Operations(access)  OBVIOUS
  <2> QED  BY <2>1, AddedTyped
<1> DEFINE T == {n \in 0..Len(p) : w[n] \notin Seq(Nat)}
<1>5. T = {}
  <2> SUFFICES ASSUME T # {}  PROVE FALSE
    OBVIOUS
  <2>0. T \subseteq Nat  BY <1>0
  <2> HIDE DEF T
  <2>1. PICK n \in T : \A y \in T : n <= y
    BY <2>0, Least
  <2>2. n \in 0..Len(p) /\ w[n] \notin Seq(Nat)  BY <2>1 DEF T
  <2>3. n # 0
    <3>1. 0 \in 0..Len(p) /\ <<>> \in Seq(Nat)  BY <1>0
    <3> QED  BY <1>3, <2>2, <3>1
  <2>4. n - 1 \in 0..Len(p) /\ n \in 1..Len(p) /\ ~ (n <= n - 1)
    BY <1>0, <2>2, <2>3
  <2>5. w[n - 1] \in Seq(Nat)  BY <2>1, <2>4 DEF T
  <2>6. w[n] = w[n - 1] \o Added(p[n])  BY <1>3, <2>2, <2>3
  <2> QED  BY <1>4, <2>2, <2>4, <2>5, <2>6
<1>6. 0 \in 0..Len(p) /\ \A n \in 1..Len(p) : n \in 0..Len(p) /\ n # 0
  BY <1>0
<1>7. w[0] = <<>> /\ \A n \in 1..Len(p) : w[n] = w[n - 1] \o Added(p[n])
  BY <1>3, <1>6
<1>8. \A n \in 0..Len(p) : w[n] \in Seq(Nat)
  BY <1>5
<1> QED  BY <1>2, <1>7, <1>8

(***************************************************************************)
(* The types of what a coroutine computes with.                            *)
(***************************************************************************)
StreamType ==
    [buffer : [1..BufferSize -> Nat], bufferCount : 0..BufferSize,
     bufferOffset : 0..BufferSize, fileOffset : Nat]

Call == [left : Nat, moved : Nat]

FrameType ==
    [pc : {"new", "next", "read", "flush", "write", "close", "done"},
     next : Nat \ {0},
     awaits : {"nothing", "direct", "refill", "flush", "write", "schedule"},
     call : Call, failed : BOOLEAN]

(***************************************************************************)
(* A reader's file x and its stream s: the buffer holds the bytes before   *)
(* fileOffset.  In a call, the memory m starts with them.                  *)
(***************************************************************************)
Buffered(x, s) ==
    /\ s.bufferOffset <= s.bufferCount /\ s.bufferCount <= s.fileOffset
    /\ s.bufferCount > 0 => s.fileOffset <= Len(x)
    /\ \A i \in 1..s.bufferCount :
        s.buffer[i] = x[s.fileOffset - s.bufferCount + i]

Fetched(x, s, call, m) ==
    /\ call.moved <= s.fileOffset
    /\ call.moved > 0 => s.fileOffset <= Len(x)
    /\ call.moved <= Len(m)
    /\ \A i \in 1..call.moved : m[i] = x[s.fileOffset - call.moved + i]

ReaderOK(x, s, f, m) ==
    Buffered(x, s) /\ (f.pc = "read" => Fetched(x, s, f.call, m))

ReadAnswer(x, s, awaits, call, m, r) ==
    LET bytes == FileRead(x, s.fileOffset, BufferSize)
    IN  /\ r.error <=> Len(bytes) = 0
        /\ r.transferred = Len(bytes)
        /\ awaits = "direct" =>
            /\ Len(m) = call.moved + Len(bytes)
            /\ \A i \in 1..Len(bytes) : m[call.moved + i] = bytes[i]
        /\ awaits = "refill" =>
            \A i \in 1..Len(bytes) : s.buffer[i] = bytes[i]

(***************************************************************************)
(* Where a reader of a byte stream is, and what it gets.                   *)
(***************************************************************************)
ReadAt(s) == s.fileOffset - (s.bufferCount - s.bufferOffset)
CallAt(s, call) == s.fileOffset - call.moved
Wanted(call) == call.moved + call.left

Slice(x, pos, n) ==
    SubSeq(x, pos + 1, IF pos + n > Len(x) THEN Len(x) ELSE pos + n)

StreamOf(b, k, o, fo) ==
    [buffer |-> b, bufferCount |-> k, bufferOffset |-> o, fileOffset |-> fo]

LEMMA StreamIs ==
    ASSUME NEW s \in StreamType
    PROVE  /\ s.buffer \in [1..BufferSize -> Nat]
           /\ s.buffer \in Seq(Nat) /\ Len(s.buffer) = BufferSize
           /\ s.bufferCount \in Nat /\ s.bufferCount <= BufferSize
           /\ s.bufferOffset \in Nat /\ s.bufferOffset <= BufferSize
           /\ s.fileOffset \in Nat
           /\ s = StreamOf(s.buffer, s.bufferCount, s.bufferOffset,
                           s.fileOffset)
<1>1. /\ s.buffer \in [1..BufferSize -> Nat]
      /\ s.bufferCount \in 0..BufferSize /\ s.bufferOffset \in 0..BufferSize
      /\ s.fileOffset \in Nat
      /\ s = StreamOf(s.buffer, s.bufferCount, s.bufferOffset, s.fileOffset)
  BY DEF StreamType, StreamOf
<1>2. BufferSize \in Nat  BY BufferAssumption
<1>3. PICK b : b = s.buffer  OBVIOUS
<1>4. b \in [1..BufferSize -> Nat]  BY <1>1, <1>3
<1>5. b \in Seq(Nat) /\ Len(b) = BufferSize  BY <1>2, <1>4
<1> QED  BY <1>1, <1>2, <1>3, <1>5

LEMMA StreamMade ==
    ASSUME NEW b \in [1..BufferSize -> Nat], NEW k \in Nat, NEW o \in Nat,
           NEW fo \in Nat, k <= BufferSize, o <= BufferSize
    PROVE  /\ StreamOf(b, k, o, fo) \in StreamType
           /\ StreamOf(b, k, o, fo).buffer = b
           /\ StreamOf(b, k, o, fo).bufferCount = k
           /\ StreamOf(b, k, o, fo).bufferOffset = o
           /\ StreamOf(b, k, o, fo).fileOffset = fo
<1>1. k \in 0..BufferSize /\ o \in 0..BufferSize  BY BufferAssumption
<1> QED  BY <1>1 DEF StreamType, StreamOf

LEMMA SameSeq ==
    ASSUME NEW a \in Seq(Nat), NEW b \in Seq(Nat), Len(a) = Len(b),
           \A i \in 1..Len(a) : a[i] = b[i]
    PROVE  a = b
OBVIOUS

LEMMA SameSlice ==
    ASSUME NEW x \in Seq(Nat), NEW pos \in Nat, NEW to \in Nat, to <= Len(x),
           NEW q \in Seq(Nat),
           Len(q) = IF pos < to THEN to - pos ELSE 0,
           \A i \in 1..Len(q) : q[i] = x[pos + i]
    PROVE  q = SubSeq(x, pos + 1, to)
<1>2. PICK m \in Nat \ {0} : m = pos + 1  OBVIOUS
<1>3. PICK b : b = SubSeq(x, m, to)  OBVIOUS
<1>4. /\ SubSeq(x, m, to) \in Seq(Nat)
      /\ Len(SubSeq(x, m, to)) = IF m <= to THEN to - m + 1 ELSE 0
      /\ \A i \in 1..Len(SubSeq(x, m, to)) :
            /\ m + i - 1 \in 1..Len(x)
            /\ SubSeq(x, m, to)[i] = x[m + i - 1]
  BY SliceIs, Zenon
<1>4a. /\ b \in Seq(Nat) /\ Len(b) = IF m <= to THEN to - m + 1 ELSE 0
       /\ \A i \in 1..Len(b) : m + i - 1 \in 1..Len(x) /\ b[i] = x[m + i - 1]
  BY <1>3, <1>4, Zenon
<1>5. Len(b) = Len(q)  BY <1>2, <1>4a
<1>6. \A i \in 1..Len(q) : b[i] = q[i]
  <2> SUFFICES ASSUME NEW i \in 1..Len(q)  PROVE b[i] = q[i]
    OBVIOUS
  <2>1. m + i - 1 = pos + i /\ i \in 1..Len(b)  BY <1>2, <1>5
  <2> QED  BY <1>4a, <2>1
<1>7. b = q  BY <1>4a, <1>5, <1>6, SameSeq
<1> QED  BY <1>2, <1>3, <1>7

GotAll(x, pos, n, size) ==
    \/ size = n /\ pos + n <= Len(x)
    \/ size <= n /\ pos + n > Len(x) /\ pos + size = Len(x)
    \/ size = 0 /\ n = 0
    \/ size = 0 /\ pos + n > Len(x) /\ pos >= Len(x)

LEMMA SameBytes ==
    ASSUME NEW x \in Seq(Nat), NEW pos \in Nat, NEW n \in Nat,
           NEW q \in Seq(Nat), GotAll(x, pos, n, Len(q)),
           \A i \in 1..Len(q) : q[i] = x[pos + i]
    PROVE  q = Slice(x, pos, n)
<1> DEFINE to == IF pos + n > Len(x) THEN Len(x) ELSE pos + n
<1>1. /\ to \in Nat /\ to <= Len(x)
      /\ Len(q) = IF pos < to THEN to - pos ELSE 0
  BY DEF GotAll
<1> HIDE DEF to
<1>2. q = SubSeq(x, pos + 1, to)  BY <1>1, SameSlice
<1> QED  BY <1>2 DEF to, Slice

(***************************************************************************)
(* What the operations of the stream change.                               *)
(***************************************************************************)
LEMMA SkippedReset ==
    ASSUME NEW b, NEW k, NEW o, NEW fo, NEW offset, NEW s,
           s = StreamOf(b, k, o, fo)
    PROVE  SkippedTo(s, offset) = StreamOf(b, 0, 0, offset)
<1>1. PICK t : t = [s EXCEPT !.fileOffset = offset]  OBVIOUS
<1>2. PICK u : u = [t EXCEPT !.bufferOffset = 0]  OBVIOUS
<1>3. SkippedTo(s, offset) = [u EXCEPT !.bufferCount = 0]
  BY <1>1, <1>2 DEF SkippedTo
<1>4. t = StreamOf(b, k, o, offset)
  BY <1>1 DEF StreamOf
<1>5. u = StreamOf(b, k, 0, offset)
  BY <1>2, <1>4 DEF StreamOf
<1> QED  BY <1>3, <1>5 DEF StreamOf

LEMMA EmptiedReset ==
    ASSUME NEW b, NEW k, NEW o, NEW fo, NEW s, s = StreamOf(b, k, o, fo)
    PROVE  Emptied(s) = StreamOf(b, 0, 0, fo)
<1>1. PICK u : u = [s EXCEPT !.bufferOffset = 0]  OBVIOUS
<1>2. Emptied(s) = [u EXCEPT !.bufferCount = 0]  BY <1>1 DEF Emptied
<1>3. u = StreamOf(b, k, 0, fo)
  BY <1>1 DEF StreamOf
<1> QED  BY <1>2, <1>3 DEF StreamOf

LEMMA AdvancedSets ==
    ASSUME NEW b, NEW k, NEW o, NEW fo, NEW s, s = StreamOf(b, k, o, fo),
           NEW n
    PROVE  Advanced(s, n) = StreamOf(b, k, o + n, fo)
BY DEF Advanced, StreamOf

LEMMA DirectSets ==
    ASSUME NEW b, NEW k, NEW o, NEW fo, NEW s, s = StreamOf(b, k, o, fo),
           NEW n
    PROVE  AfterDirect(s, n) = StreamOf(b, k, o, fo + n)
BY DEF AfterDirect, StreamOf

LEMMA WriteSets ==
    ASSUME NEW b, NEW k, NEW o, NEW fo, NEW s, s = StreamOf(b, k, o, fo)
    PROVE  AfterWrite(s) = StreamOf(b, k, o, fo + BufferSize)
BY DEF AfterWrite, StreamOf

LEMMA RefillSets ==
    ASSUME NEW b, NEW k, NEW o, NEW fo, NEW s, s = StreamOf(b, k, o, fo),
           NEW call, NEW n
    PROVE  AfterRefill(s, call, n)
                = StreamOf(b, n, Smaller(n, call.left), fo + n)
<1>1. PICK t : t = [s EXCEPT !.bufferCount = n]  OBVIOUS
<1>2. PICK u : u = [t EXCEPT !.fileOffset = @ + n]  OBVIOUS
<1>3. AfterRefill(s, call, n)
        = [u EXCEPT !.bufferOffset = Smaller(n, call.left)]
  BY <1>1, <1>2 DEF AfterRefill
<1>4. t = StreamOf(b, n, o, fo)
  BY <1>1 DEF StreamOf
<1>5. u = StreamOf(b, n, o, fo + n)
  BY <1>2, <1>4 DEF StreamOf
<1> QED  BY <1>3, <1>5 DEF StreamOf

LEMMA KeptSets ==
    ASSUME NEW b, NEW k, NEW o, NEW fo, NEW s, s = StreamOf(b, k, o, fo),
           NEW bytes
    PROVE  Kept(s, bytes)
                = StreamOf(Copied(b, o, bytes), k, o + Len(bytes), fo)
<1>1. PICK u : u = [s EXCEPT !.buffer = Copied(b, o, bytes)]  OBVIOUS
<1>2. Kept(s, bytes) = [u EXCEPT !.bufferOffset = @ + Len(bytes)]
  BY <1>1 DEF Kept, StreamOf
<1>3. u = StreamOf(Copied(b, o, bytes), k, o, fo)
  BY <1>1 DEF StreamOf
<1> QED  BY <1>2, <1>3 DEF StreamOf

LEMMA FilledSets ==
    ASSUME NEW b, NEW k, NEW o, NEW fo, NEW s, s = StreamOf(b, k, o, fo),
           NEW bytes
    PROVE  Filled(s, bytes)
                = StreamOf(Copied(b, o, SubSeq(bytes, 1, Room(s))), k, 0, fo)
<1>0. PICK c : c = Copied(b, o, SubSeq(bytes, 1, Room(s)))  OBVIOUS
<1>1. PICK u : u = [s EXCEPT !.buffer = c]  OBVIOUS
<1>2. Filled(s, bytes) = [u EXCEPT !.bufferOffset = 0]
  BY <1>0, <1>1 DEF Filled, StreamOf
<1>3. u = StreamOf(c, k, o, fo)
  BY <1>1 DEF StreamOf
<1> QED  BY <1>0, <1>2, <1>3 DEF StreamOf

LEMMA SkippedIs ==
    ASSUME NEW s \in StreamType, NEW offset \in Nat, NEW x
    PROVE  /\ SkippedTo(s, offset) \in StreamType
           /\ Buffered(x, SkippedTo(s, offset))
           /\ ReadAt(SkippedTo(s, offset)) = offset
<1>1. /\ SkippedTo(s, offset) \in StreamType
      /\ SkippedTo(s, offset).fileOffset = offset
      /\ SkippedTo(s, offset).bufferOffset = 0
      /\ SkippedTo(s, offset).bufferCount = 0
  <2>1. 0 <= BufferSize  BY BufferAssumption
  <2>2. SkippedTo(s, offset)
            = StreamOf(s.buffer, 0, 0, offset)
    BY StreamIs, SkippedReset
  <2>3. s.buffer \in [1..BufferSize -> Nat]  BY StreamIs
  <2> QED  BY <2>1, <2>2, <2>3, StreamMade
<1>2. ASSUME NEW t, t.fileOffset = offset, t.bufferOffset = 0,
             t.bufferCount = 0
      PROVE  Buffered(x, t) /\ ReadAt(t) = offset
  BY <1>2 DEF Buffered, ReadAt
<1> HIDE DEF SkippedTo
<1> QED  BY <1>1, <1>2

(***************************************************************************)
(* Enough in the buffer.                                                   *)
(***************************************************************************)
LEMMA FromBufferIs ==
    ASSUME NEW x \in Seq(Nat), NEW s \in StreamType, Buffered(x, s),
           NEW n \in Nat, InBuffer(s, n)
    PROVE  /\ Advanced(s, n) \in StreamType
           /\ Buffered(x, Advanced(s, n))
           /\ FromBuffer(s, n) \in Seq(Nat) /\ Len(FromBuffer(s, n)) = n
           /\ ReadAt(s) \in Nat
           /\ ReadAt(Advanced(s, n)) = ReadAt(s) + n
           /\ FromBuffer(s, n) = Slice(x, ReadAt(s), n)
<1>0. PICK buffer : buffer = s.buffer  OBVIOUS
<1>00. PICK k \in Nat, o \in Nat, fo \in Nat :
        /\ k = s.bufferCount /\ o = s.bufferOffset
        /\ fo = s.fileOffset
  BY StreamIs
<1>1. /\ buffer = s.buffer /\ k = s.bufferCount /\ o = s.bufferOffset
      /\ fo = s.fileOffset /\ k \in Nat /\ o \in Nat /\ fo \in Nat
  BY <1>0, <1>00
<1>2. /\ buffer \in [1..BufferSize -> Nat] /\ k <= BufferSize
      /\ o + n < k /\ k <= fo /\ fo <= Len(x)
      /\ \A i \in 1..k : buffer[i] = x[fo - k + i]
  BY <1>1, StreamIs DEF Buffered, InBuffer
<1>20. k <= BufferSize /\ o + n < k /\ k <= fo  BY <1>2
<1>3. PICK t : t = Advanced(s, n)  OBVIOUS
<1>4. /\ t \in StreamType /\ t.bufferOffset = o + n /\ t.buffer = buffer
      /\ t.bufferCount = k /\ t.fileOffset = fo
  <2>1. o + n \in Nat /\ o + n <= BufferSize  BY <1>20, BufferAssumption
  <2>2. t = StreamOf(buffer, k, o + n, fo)
    <3>1. s = StreamOf(buffer, k, o, fo)  BY <1>1, StreamIs
    <3> QED  BY <1>3, <3>1, AdvancedSets
  <2>3. PICK to \in Nat : to = o + n  BY <2>1
  <2>4. t \in StreamType  BY <1>1, <1>2, <2>1, <2>2, <2>3, StreamMade
  <2> QED  BY <2>2, <2>4 DEF StreamOf
<1>5. Buffered(x, t)
  BY <1>2, <1>4 DEF Buffered
<1>6. /\ ReadAt(s) = fo - (k - o) /\ ReadAt(s) \in Nat
      /\ ReadAt(t) = ReadAt(s) + n
  <2>1. ReadAt(s) = fo - (k - o) /\ ReadAt(t) = fo - (k - (o + n))
    BY <1>1, <1>4 DEF ReadAt
  <2>2. fo - (k - o) \in Nat /\ fo - (k - (o + n)) = (fo - (k - o)) + n
    BY <1>20
  <2> QED  BY <2>1, <2>2
<1>7. PICK q : q = FromBuffer(s, n)  OBVIOUS
<1>8. q = SubSeq(buffer, o + 1, o + n)  BY <1>1, <1>7 DEF FromBuffer
<1>9. /\ buffer \in Seq(Nat) /\ Len(buffer) = BufferSize
  BY SMTT(30), <1>2, BufferAssumption
<1>10. PICK m \in Nat \ {0}, e \in Nat : m = o + 1 /\ e = o + n
  <2>1. o + n \in Nat /\ o + 1 \in Nat \ {0}  OBVIOUS
  <2> QED  BY <2>1
<1>11. /\ q \in Seq(Nat) /\ Len(q) = IF m <= e THEN e - m + 1 ELSE 0
       /\ \A i \in 1..Len(q) : q[i] = buffer[m + i - 1]
  <2>1. q = SubSeq(buffer, m, e) /\ e <= Len(buffer)
    BY <1>2, <1>8, <1>9, <1>10, BufferAssumption
  <2> QED  BY <1>9, <2>1, SliceIs
<1>12. Len(q) = n  BY <1>10, <1>11
<1>13. \A i \in 1..n : q[i] = x[(fo - (k - o)) + i]
  <2> SUFFICES ASSUME NEW i \in 1..n  PROVE q[i] = x[(fo - (k - o)) + i]
    OBVIOUS
  <2>1. q[i] = buffer[m + i - 1]  BY <1>11, <1>12
  <2>2. m + i - 1 \in 1..k /\ fo - k + (m + i - 1) = (fo - (k - o)) + i
    BY <1>2, <1>10
  <2> QED  BY <1>2, <2>1, <2>2
<1>14. PICK pos \in Nat : pos = ReadAt(s) /\ pos = fo - (k - o)  BY <1>6
<1>15. GotAll(x, pos, n, Len(q))  BY <1>2, <1>12, <1>14 DEF GotAll
<1>16. q = Slice(x, pos, n)
  <2>1. \A i \in 1..Len(q) : q[i] = x[pos + i]  BY <1>12, <1>13, <1>14
  <2> QED  BY <1>11, <1>12, <1>14, <1>15, <2>1, SameBytes
<1> QED  BY <1>3, <1>4, <1>5, <1>6, <1>7, <1>11, <1>12, <1>14, <1>16

(***************************************************************************)
(* What is left of the buffer, and then the file.                          *)
(***************************************************************************)
LEMMA EmptiedIs ==
    ASSUME NEW x \in Seq(Nat), NEW s \in StreamType, Buffered(x, s),
           NEW n \in Nat, ~ InBuffer(s, n)
    PROVE  /\ Emptied(s) \in StreamType
           /\ Emptied(s).bufferCount = 0
           /\ Buffered(x, Emptied(s))
           /\ Remainder(s) \in Seq(Nat)
           /\ ReadCall(s, n) \in Call
           /\ Wanted(ReadCall(s, n)) = n
           /\ ReadAt(s) \in Nat
           /\ CallAt(Emptied(s), ReadCall(s, n)) = ReadAt(s)
           /\ Fetched(x, Emptied(s), ReadCall(s, n), Remainder(s))
           /\ ReadAt(Emptied(s)) = ReadAt(s) + Len(Remainder(s))
           /\ ReadCall(s, n).left = 0 =>
                Remainder(s) = Slice(x, ReadAt(s), n)
<1>0. PICK buffer : buffer = s.buffer  OBVIOUS
<1>00. PICK k \in Nat, o \in Nat, fo \in Nat :
        /\ k = s.bufferCount /\ o = s.bufferOffset
        /\ fo = s.fileOffset
  BY StreamIs
<1>1. /\ buffer = s.buffer /\ k = s.bufferCount /\ o = s.bufferOffset
      /\ fo = s.fileOffset /\ k \in Nat /\ o \in Nat /\ fo \in Nat
  BY <1>0, <1>00
<1>2. /\ buffer \in [1..BufferSize -> Nat] /\ k <= BufferSize
      /\ o + n >= k /\ o <= k /\ k <= fo /\ (k > 0 => fo <= Len(x))
      /\ \A i \in 1..k : buffer[i] = x[fo - k + i]
  BY SMTT(30), <1>1, StreamIs DEF Buffered, InBuffer
<1>3. PICK t : t = Emptied(s)  OBVIOUS
<1>4. /\ t \in StreamType /\ t.bufferOffset = 0 /\ t.bufferCount = 0
      /\ t.fileOffset = fo
  <2>1. 0 <= BufferSize  BY BufferAssumption
  <2>2. t = StreamOf(buffer, 0, 0, fo)
    <3>1. s = StreamOf(buffer, k, o, fo)
      BY <1>1, StreamIs
    <3> QED  BY <1>3, <3>1, EmptiedReset
  <2>3. t \in StreamType  BY <1>1, <1>2, <2>1, <2>2, StreamMade
  <2> QED  BY <2>2, <2>3 DEF StreamOf
<1>5. Buffered(x, t)
  BY <1>4 DEF Buffered
<1>7. PICK q : q = Remainder(s)  OBVIOUS
<1>8. q = SubSeq(buffer, o + 1, k)  BY <1>1, <1>7 DEF Remainder
<1>9. /\ buffer \in Seq(Nat) /\ Len(buffer) = BufferSize
  BY <1>2, BufferAssumption
<1>10. PICK m \in Nat \ {0} : m = o + 1
  <2>1. o + 1 \in Nat \ {0}  OBVIOUS
  <2> QED  BY <2>1
<1>11. /\ q \in Seq(Nat) /\ Len(q) = IF m <= k THEN k - m + 1 ELSE 0
       /\ \A i \in 1..Len(q) : q[i] = buffer[m + i - 1]
  <2>1. q = SubSeq(buffer, m, k) /\ k <= Len(buffer)
    BY <1>2, <1>8, <1>9, <1>10, BufferAssumption
  <2> QED  BY <1>9, <2>1, SliceIs
<1>12. Len(q) = k - o /\ k - o \in Nat  BY <1>2, <1>10, <1>11
<1>13. PICK call : call = ReadCall(s, n)  OBVIOUS
<1>14. call = [left |-> n - (k - o), moved |-> k - o]
  BY <1>7, <1>12, <1>13 DEF ReadCall
<1>15. /\ call \in Call /\ call.moved + call.left = n /\ call.moved = k - o
       /\ call.left = n - (k - o)
  BY <1>2, <1>12, <1>14 DEF Call
<1>16. PICK pos \in Nat : pos = fo - (k - o)  BY <1>2
<1>17. /\ ReadAt(s) = pos /\ ReadAt(t) = pos + Len(q)
       /\ t.fileOffset - call.moved = pos
  <2>1. ReadAt(s) = fo - (k - o) /\ ReadAt(t) = fo - (0 - 0)
    BY <1>1, <1>4 DEF ReadAt
  <2> QED  BY <1>1, <1>2, <1>4, <1>12, <1>15, <1>16, <2>1
<1>18. \A i \in 1..(k - o) : q[i] = x[pos + i]
  <2> SUFFICES ASSUME NEW i \in 1..(k - o)  PROVE q[i] = x[pos + i]
    OBVIOUS
  <2>1. q[i] = buffer[m + i - 1]  BY <1>11, <1>12
  <2>2. m + i - 1 \in 1..k /\ fo - k + (m + i - 1) = pos + i
    BY <1>2, <1>10, <1>16
  <2> QED  BY <1>2, <2>1, <2>2
<1>19. Fetched(x, t, call, q)
  <2>1. call.moved <= t.fileOffset /\ call.moved <= Len(q)
    BY <1>2, <1>4, <1>12, <1>15
  <2>2. call.moved > 0 => t.fileOffset <= Len(x)
    BY <1>2, <1>4, <1>15
  <2>3. \A i \in 1..call.moved : q[i] = x[t.fileOffset - call.moved + i]
    BY <1>15, <1>17, <1>18
  <2> QED  BY <2>1, <2>2, <2>3 DEF Fetched
<1>20. ASSUME call.left = 0
       PROVE  q = Slice(x, pos, n)
  <2>1. n = k - o /\ Len(q) = n  BY <1>12, <1>15, <1>20
  <2>2. GotAll(x, pos, n, Len(q))  BY <1>2, <1>16, <2>1 DEF GotAll
  <2>3. \A i \in 1..Len(q) : q[i] = x[pos + i]  BY <1>12, <1>18
  <2> QED  BY <1>11, <1>16, <2>2, <2>3, SameBytes
<1>21. Wanted(call) = n /\ CallAt(t, call) = pos
  BY <1>15, <1>17 DEF Wanted, CallAt
<1> QED
  BY <1>3, <1>4, <1>5, <1>7, <1>11, <1>13, <1>15, <1>16, <1>17, <1>19, <1>20,
     <1>21

(***************************************************************************)
(* What ReadFile transfers: behind the bytes in the caller's memory, or    *)
(* into the buffer.                                                        *)
(***************************************************************************)
LEMMA JoinedIs ==
    ASSUME NEW m \in Seq(Nat), NEW k \in Nat, k <= Len(m), NEW b \in Seq(Nat)
    PROVE  /\ SubSeq(m, 1, k) \o b \in Seq(Nat)
           /\ Len(SubSeq(m, 1, k) \o b) = k + Len(b)
           /\ \A i \in 1..k : (SubSeq(m, 1, k) \o b)[i] = m[i]
           /\ \A i \in 1..Len(b) : (SubSeq(m, 1, k) \o b)[k + i] = b[i]
<1>1. PICK a : a = SubSeq(m, 1, k)  OBVIOUS
<1>2. /\ a \in Seq(Nat) /\ Len(a) = k
      /\ \A i \in 1..k : a[i] = m[i]
  BY <1>1
<1>3. PICK j : j = a \o b  OBVIOUS
<1>4. /\ j \in Seq(Nat) /\ Len(j) = k + Len(b)
      /\ \A i \in 1..Len(j) : j[i] = IF i <= k THEN a[i] ELSE b[i - k]
  <2>1. /\ a \o b \in Seq(Nat) /\ Len(a \o b) = Len(a) + Len(b)
        /\ \A i \in 1..(Len(a) + Len(b)) :
            (a \o b)[i] = IF i <= Len(a) THEN a[i] ELSE b[i - Len(a)]
    BY <1>2, ConcatProperties
  <2> QED  BY <1>2, <1>3, <2>1
<1>5. \A i \in 1..k : j[i] = m[i]
  BY SMTT(30), <1>2, <1>4
<1>6. \A i \in 1..Len(b) : j[k + i] = b[i]
  <2> SUFFICES ASSUME NEW i \in 1..Len(b)  PROVE j[k + i] = b[i]
    OBVIOUS
  <2>1. k + i \in 1..Len(j) /\ ~ (k + i <= k) /\ (k + i) - k = i
    BY <1>4
  <2> QED  BY <1>4, <2>1
<1> QED  BY <1>1, <1>3, <1>4, <1>5, <1>6

LEMMA FetchedJoined ==
    ASSUME NEW x, NEW s, NEW call \in Call, NEW m \in Seq(Nat),
           NEW b \in Seq(Nat), Fetched(x, s, call, m)
    PROVE  /\ SubSeq(m, 1, call.moved) \o b \in Seq(Nat)
           /\ Len(SubSeq(m, 1, call.moved) \o b) = call.moved + Len(b)
           /\ \A i \in 1..Len(b) :
                (SubSeq(m, 1, call.moved) \o b)[call.moved + i] = b[i]
           /\ Fetched(x, s, call, SubSeq(m, 1, call.moved) \o b)
<1>1. PICK k \in Nat : k = call.moved  BY DEF Call
<1>2. k <= Len(m)  BY <1>1 DEF Fetched
<1>3. PICK j : j = SubSeq(m, 1, k) \o b  OBVIOUS
<1>4. /\ j \in Seq(Nat) /\ Len(j) = k + Len(b)
      /\ \A i \in 1..k : j[i] = m[i]
      /\ \A i \in 1..Len(b) : j[k + i] = b[i]
  <2>1. /\ SubSeq(m, 1, k) \o b \in Seq(Nat)
        /\ Len(SubSeq(m, 1, k) \o b) = k + Len(b)
        /\ \A i \in 1..k : (SubSeq(m, 1, k) \o b)[i] = m[i]
        /\ \A i \in 1..Len(b) : (SubSeq(m, 1, k) \o b)[k + i] = b[i]
    BY <1>1, <1>2, JoinedIs, Zenon
  <2> QED  BY <1>3, <2>1, Zenon
<1>5. k <= Len(j)
  <2>1. Len(b) \in Nat  OBVIOUS
  <2> QED  BY <1>1, <1>4, <2>1
<1>6. Fetched(x, s, call, j)
  BY <1>1, <1>4, <1>5 DEF Fetched
<1> QED  BY <1>1, <1>3, <1>4, <1>6

LEMMA CopiedFront ==
    ASSUME NEW n \in Nat, NEW old \in [1..n -> Nat], NEW b \in Seq(Nat),
           Len(b) <= n
    PROVE  /\ Copied(old, 0, b) \in [1..n -> Nat]
           /\ \A i \in 1..Len(b) : Copied(old, 0, b)[i] = b[i]
<1>1. PICK z \in Nat : z = 0  OBVIOUS
<1>2. PICK c : c = Copied(old, z, b)  OBVIOUS
<1>3. IsCopy(c, n, old, z, b)  BY <1>1, <1>2, CopiedIs
<1>4. ASSUME NEW i \in 1..Len(b)  PROVE c[i] = b[i]
  <2>1. i \in 1..n /\ i \in (z + 1)..(z + Len(b)) /\ i - z = i
    BY <1>1
  <2> QED  BY <1>3, <2>1 DEF IsCopy
<1> QED  BY <1>1, <1>2, <1>3, <1>4 DEF IsCopy

RefilledOf(s, b) == [s EXCEPT !.buffer = Copied(s.buffer, 0, b)]

LEMMA RefilledIs ==
    ASSUME NEW s \in StreamType, NEW b \in Seq(Nat), Len(b) <= BufferSize,
           NEW t, t = RefilledOf(s, b)
    PROVE  /\ t \in StreamType
           /\ t.bufferCount = s.bufferCount /\ t.bufferOffset = s.bufferOffset
           /\ t.fileOffset = s.fileOffset
           /\ \A i \in 1..Len(b) : t.buffer[i] = b[i]
<1>1. BufferSize \in Nat  BY BufferAssumption
<1>2. PICK c : c = Copied(s.buffer, 0, b)  OBVIOUS
<1>3. PICK old : old = s.buffer  OBVIOUS
<1>4. old \in [1..BufferSize -> Nat]  BY <1>3, StreamIs
<1>5. /\ c \in [1..BufferSize -> Nat]
      /\ \A i \in 1..Len(b) : c[i] = b[i]
  BY <1>1, <1>2, <1>3, <1>4, CopiedFront
<1>7. t = StreamOf(c, s.bufferCount, s.bufferOffset, s.fileOffset)
  <2>1. s = StreamOf(s.buffer, s.bufferCount, s.bufferOffset, s.fileOffset)
    BY StreamIs
  <2> QED  BY <1>2, <2>1 DEF StreamOf, RefilledOf
<1>8. /\ t \in StreamType /\ t.buffer = c
      /\ t.bufferCount = s.bufferCount /\ t.bufferOffset = s.bufferOffset
      /\ t.fileOffset = s.fileOffset
  <2>1. /\ s.bufferCount \in Nat /\ s.bufferCount <= BufferSize
        /\ s.bufferOffset \in Nat /\ s.bufferOffset <= BufferSize
        /\ s.fileOffset \in Nat
    BY StreamIs
  <2>2. t \in StreamType  BY <1>5, <1>7, <2>1, StreamMade
  <2> QED  BY <1>7, <2>2 DEF StreamOf
<1> QED  BY <1>5, <1>8

LEMMA ReadReaches ==
    ASSUME NEW n \in Nat, NEW fo \in Nat, NEW size \in Nat, NEW k \in Nat,
           fo < size, k = Smaller(n, size - fo)
    PROVE  fo + k <= size /\ (k # n => fo + k = size)
BY DEF Smaller

LEMMA AllReached ==
    ASSUME NEW moved \in Nat, NEW left \in Nat, NEW n \in Nat, NEW k \in Nat,
           NEW at_ \in Nat, NEW fo \in Nat, NEW size \in Nat,
           n = moved + left, at_ + moved = fo, fo + k = size, k < left
    PROVE  moved + k <= n /\ at_ + n > size /\ at_ + (moved + k) = size
OBVIOUS

(***************************************************************************)
(* A completed read of a whole buffer, straight into memory.               *)
(***************************************************************************)
LEMMA AfterDirectIs ==
    ASSUME NEW x \in Seq(Nat), NEW s \in StreamType, Buffered(x, s),
           s.bufferCount = 0, NEW old \in Call, Direct(old),
           NEW m \in Seq(Nat), Fetched(x, s, old, m),
           NEW r, ReadAnswer(x, s, "direct", old, m, r), ~ r.error,
           NEW call, call = CallAfter(old, r.transferred),
           NEW t, t = AfterDirect(s, r.transferred)
    PROVE  /\ t \in StreamType /\ t.bufferCount = 0 /\ Buffered(x, t)
           /\ call \in Call /\ Wanted(call) = Wanted(old)
           /\ Fetched(x, t, call, m)
           /\ CallAt(s, old) \in Nat /\ Wanted(old) \in Nat
           /\ CallAt(t, call) = CallAt(s, old)
           /\ ShortRead(r.transferred) \/ call.left = 0 =>
                /\ SubSeq(m, 1, call.moved) \in Seq(Nat)
                /\ SubSeq(m, 1, call.moved)
                    = Slice(x, CallAt(s, old), Wanted(old))
                /\ ReadAt(t)
                    = CallAt(s, old) + Len(SubSeq(m, 1, call.moved))
<1>1. PICK left \in Nat, moved \in Nat, fo \in Nat :
        left = old.left /\ moved = old.moved /\ fo = s.fileOffset
  BY StreamIs DEF Call
<1>2. PICK b : b = FileRead(x, fo, BufferSize)  OBVIOUS
<1>3. PICK k \in Nat : k = Len(b)
  BY <1>1, <1>2, FileReadIs, BufferAssumption
<1>4. /\ b \in Seq(Nat) /\ k <= BufferSize
      /\ k = IF fo < Len(x) THEN Smaller(BufferSize, Len(x) - fo) ELSE 0
      /\ \A i \in 1..k : b[i] = x[fo + i]
  <2>1. fo \in Nat /\ BufferSize \in Nat  BY <1>1, BufferAssumption
  <2>2. /\ b \in Seq(Nat)
        /\ Len(b) = IF fo < Len(x) THEN Smaller(BufferSize, Len(x) - fo) ELSE 0
        /\ Len(b) \in 0..BufferSize
        /\ \A i \in 1..Len(b) : fo + i \in 1..Len(x) /\ b[i] = x[fo + i]
    BY <1>2, <2>1, FileReadIs, ZenonT(30)
  <2> QED  BY <1>3, <2>1, <2>2
<1>5. /\ r.transferred = k /\ k # 0 /\ Len(m) = moved + k
      /\ \A i \in 1..k : m[moved + i] = b[i]
  BY <1>1, <1>2, <1>3 DEF ReadAnswer
<1>6. /\ moved <= fo /\ left >= BufferSize
      /\ \A i \in 1..moved : m[i] = x[fo - moved + i]
  BY <1>1 DEF Fetched, Direct
<1>7. PICK size \in Nat : size = Len(x)  OBVIOUS
<1>70. left \in Nat /\ moved \in Nat /\ fo \in Nat /\ k \in Nat /\ size \in Nat
  BY <1>1, <1>3, <1>7
<1>8. /\ fo + k <= size /\ (k # BufferSize => fo + k = size)
      /\ BufferSize \in Nat /\ k <= left
  <2>1. BufferSize \in Nat  BY BufferAssumption
  <2>2. k = IF fo < size THEN Smaller(BufferSize, size - fo) ELSE 0
    BY <1>4, <1>7
  <2>3. fo < size /\ k = Smaller(BufferSize, size - fo)  BY <1>5, <2>2
  <2>4. fo + k <= size /\ (k # BufferSize => fo + k = size)
    BY ZenonT(30), <1>70, <2>1, <2>3, ReadReaches
  <2>5. k <= left  BY <1>1, <1>3, <1>4, <1>6, <2>1
  <2> QED  BY <2>1, <2>4, <2>5
<1>9. call = [left |-> left - k, moved |-> moved + k]
  <2>1. old = [left |-> left, moved |-> moved]
    BY <1>1 DEF Call
  <2> QED  BY <1>5, <2>1 DEF CallAfter
<1>91. PICK n \in Nat : n = moved + left  BY <1>1
<1>10. /\ call \in Call /\ call.left = left - k /\ call.moved = moved + k
       /\ Wanted(call) = n /\ Wanted(old) = n
  <2>1. left - k \in Nat /\ moved + k \in Nat
        /\ (moved + k) + (left - k) = moved + left
    BY SMTT(30), <1>1, <1>3, <1>8
  <2>2. Wanted(old) = moved + left  BY <1>1 DEF Wanted
  <2>3. Wanted(call) = (moved + k) + (left - k)  BY <1>9 DEF Wanted
  <2> QED  BY <1>9, <1>91, <2>1, <2>2, <2>3 DEF Call
<1>12. t \in StreamType /\ t.bufferCount = 0 /\ t.fileOffset = fo + k
       /\ t.bufferOffset = 0
  <2>1. fo + k \in Nat  BY <1>70
  <2>2. s.bufferOffset = 0  BY StreamIs DEF Buffered
  <2>3. s = StreamOf(s.buffer, 0, 0, fo)  BY <1>1, <2>2, StreamIs
  <2>4. t = StreamOf(s.buffer, 0, 0, fo + k)  BY <1>5, <2>3, DirectSets
  <2>5. s.buffer \in [1..BufferSize -> Nat] /\ 0 <= BufferSize
    BY StreamIs, BufferAssumption
  <2>6. PICK next_ \in Nat, zero \in Nat : next_ = fo + k /\ zero = 0
    BY <2>1
  <2>7. PICK buffer : buffer = s.buffer  OBVIOUS
  <2>70. t = StreamOf(buffer, zero, zero, next_)  BY <2>4, <2>6, <2>7
  <2>71. buffer \in [1..BufferSize -> Nat]  BY <2>5, <2>7
  <2>72. zero \in Nat /\ next_ \in Nat /\ zero <= BufferSize  BY <2>5, <2>6
  <2>8. StreamOf(buffer, zero, zero, next_) \in StreamType
    BY <2>71, <2>72, StreamMade
  <2> QED  BY <2>4, <2>70, <2>8 DEF StreamOf
<1>13. Buffered(x, t)
  BY <1>1, <1>3, <1>12 DEF Buffered
<1>14. PICK to \in Nat : to = moved + k  BY <1>1, <1>3
<1>15. PICK at_ \in Nat : at_ = fo - moved  BY <1>1, <1>6
<1>16. /\ CallAt(s, old) = at_ /\ CallAt(t, call) = at_
       /\ t.fileOffset - call.moved = at_
  BY <1>1, <1>3, <1>10, <1>12, <1>15 DEF CallAt
<1>17. \A i \in 1..to : m[i] = x[at_ + i]
  <2> SUFFICES ASSUME NEW i \in 1..to  PROVE m[i] = x[at_ + i]
    OBVIOUS
  <2>1. CASE i <= moved
    <3>1. i \in 1..moved /\ fo - moved + i = at_ + i  BY <1>1, <1>15, <2>1
    <3> QED  BY <1>6, <3>1
  <2>2. CASE i > moved
    <3>1. PICK j \in 1..k : i = moved + j
      <4>1. i - moved \in 1..k /\ i = moved + (i - moved)
        BY SMTT(30), <1>1, <1>3, <1>14, <2>2
      <4> QED  BY <4>1
    <3>2. fo + j = at_ + i  BY <1>15, <1>70, <3>1
    <3>3. m[i] = b[j] /\ b[j] = x[fo + j]  BY <1>4, <1>5, <3>1
    <3> QED  BY <3>2, <3>3
  <2> QED  BY <1>1, <2>1, <2>2
<1>18. /\ Len(m) = to /\ call.moved = to
       /\ to <= t.fileOffset /\ t.fileOffset <= Len(x)
  <2>1. moved <= fo /\ fo + k <= size  BY <1>6, <1>8
  <2>2. to = moved + k /\ moved + k <= fo + k  BY <1>14, <1>70, <2>1
  <2>3. Len(m) = to /\ call.moved = to  BY <1>5, <1>10, <2>2
  <2>4. t.fileOffset = fo + k /\ size = Len(x)  BY <1>7, <1>12
  <2> QED  BY <2>1, <2>2, <2>3, <2>4
<1>19. Fetched(x, t, call, m)
  <2>1. \A i \in 1..call.moved : m[i] = x[t.fileOffset - call.moved + i]
    BY <1>16, <1>17, <1>18
  <2> QED  BY <1>14, <1>18, <2>1 DEF Fetched
<1>20. ASSUME ShortRead(r.transferred) \/ call.left = 0
       PROVE  /\ SubSeq(m, 1, call.moved) \in Seq(Nat)
              /\ SubSeq(m, 1, call.moved) = Slice(x, at_, n)
              /\ ReadAt(t) = at_ + Len(SubSeq(m, 1, call.moved))
  <2>1. SubSeq(m, 1, call.moved) = m
    <3>1. PICK q : q = SubSeq(m, 1, to)  OBVIOUS
    <3>2. /\ q \in Seq(Nat) /\ Len(q) = to /\ \A i \in 1..to : q[i] = m[i]
      BY <1>18, <3>1
    <3>3. q = m  BY <1>18, <3>2, SameSeq
    <3> QED  BY <1>18, <3>1, <3>3
  <2>2. GotAll(x, at_, n, Len(m))
    <3>1. Len(m) = moved + k /\ Len(x) = size  BY <1>5, <1>7
    <3>2. CASE k # BufferSize
      <4>1. fo + k = size /\ k < left
        <5>1. fo + k = size /\ k < BufferSize /\ BufferSize <= left
              /\ BufferSize \in Nat
          BY <1>3, <1>4, <1>6, <1>8, <3>2
        <5> QED  BY <1>1, <1>3, <5>1
      <4>2. /\ moved + k <= n /\ at_ + n > size /\ at_ + (moved + k) = size
        <5>1. at_ + moved = fo  BY <1>1, <1>6, <1>15
        <5>2. n \in Nat /\ at_ \in Nat /\ n = moved + left  BY <1>91, <1>15
        <5> QED  BY <1>70, <4>1, <5>1, <5>2, AllReached
      <4> QED  BY <3>1, <4>2 DEF GotAll
    <3>3. CASE k = BufferSize
      <4>1. call.left = 0  BY <1>5, <1>20, <3>3 DEF ShortRead
      <4>2. left = k /\ fo + k <= size
        BY <1>1, <1>3, <1>8, <1>10, <4>1
      <4>3. moved + k = n /\ at_ + n <= size
        BY <1>1, <1>3, <1>7, <1>91, <1>15, <4>2
      <4> QED  BY <3>1, <4>3 DEF GotAll
    <3> QED  BY <3>2, <3>3
  <2>3. \A i \in 1..Len(m) : m[i] = x[at_ + i]  BY <1>17, <1>18
  <2>4. m = Slice(x, at_, n)
    BY <1>91, <1>15, <2>2, <2>3, SameBytes
  <2>5. ReadAt(t) = at_ + to
    <3>1. ReadAt(t) = (fo + k) - (0 - 0)  BY <1>12 DEF ReadAt
    <3> QED  BY SMTT(30), <1>1, <1>3, <1>6, <1>14, <1>15, <3>1
  <2> QED  BY <1>16, <1>18, <2>1, <2>4, <2>5
<1> QED
  BY <1>10, <1>91, <1>12, <1>13, <1>15, <1>16, <1>19, <1>20

(***************************************************************************)
(* A completed read by way of the buffer, the last one of a Read.          *)
(***************************************************************************)
LEMMA RefillReached ==
    ASSUME NEW moved \in Nat, NEW left \in Nat, NEW n \in Nat, NEW k \in Nat,
           NEW at_ \in Nat, NEW fo \in Nat, NEW x \in Seq(Nat),
           NEW part \in Nat,
           n = moved + left, at_ + moved = fo, part = Smaller(k, left),
           left < BufferSize, fo + k <= Len(x),
           k # BufferSize => fo + k = Len(x)
    PROVE  GotAll(x, at_, n, moved + part)
<1>1. PICK size \in Nat : size = Len(x)  OBVIOUS
<1>2. BufferSize \in Nat  BY BufferAssumption
<1>3. CASE k < left
  <2>1. part = k /\ fo + k = size  BY <1>1, <1>2, <1>3 DEF Smaller
  <2>2. moved + k <= n /\ at_ + n > size /\ at_ + (moved + k) = size
    BY <1>3, <2>1, AllReached
  <2> QED  BY <1>1, <2>1, <2>2 DEF GotAll
<1>4. CASE ~ (k < left)
  <2>1. part = left /\ fo + left <= size  BY <1>1, <1>4 DEF Smaller
  <2>2. moved + left = n /\ at_ + n <= size  BY <1>1, <2>1
  <2> QED  BY <1>1, <2>1, <2>2 DEF GotAll
<1> QED  BY <1>3, <1>4

(***************************************************************************)
(* A completed read of a part, by way of the buffer.                       *)
(***************************************************************************)
Gathered(s, m, call, transferred) ==
    SubSeq(m, 1, call.moved)
        \o SubSeq(s.buffer, 1, Smaller(transferred, call.left))

LEMMA AfterRefillIs ==
    ASSUME NEW x \in Seq(Nat), NEW s \in StreamType, Buffered(x, s),
           s.bufferCount = 0, NEW old \in Call, ~ Direct(old),
           NEW m \in Seq(Nat), Fetched(x, s, old, m),
           NEW r, ReadAnswer(x, s, "refill", old, m, r), ~ r.error,
           NEW t, t = AfterRefill(s, old, r.transferred),
           NEW q, q = Gathered(s, m, old, r.transferred)
    PROVE  /\ t \in StreamType /\ Buffered(x, t)
           /\ q \in Seq(Nat)
           /\ CallAt(s, old) \in Nat /\ Wanted(old) \in Nat
           /\ q = Slice(x, CallAt(s, old), Wanted(old))
           /\ ReadAt(t) = CallAt(s, old) + Len(q)
<1>1. PICK left \in Nat, moved \in Nat, fo \in Nat :
        left = old.left /\ moved = old.moved /\ fo = s.fileOffset
  BY StreamIs DEF Call
<1>10. PICK buffer : buffer = s.buffer  OBVIOUS
<1>2. PICK b : b = FileRead(x, fo, BufferSize)  OBVIOUS
<1>3. PICK k \in Nat : k = Len(b)
  BY <1>1, <1>2, FileReadIs, BufferAssumption
<1>4. /\ b \in Seq(Nat) /\ k <= BufferSize
      /\ k = IF fo < Len(x) THEN Smaller(BufferSize, Len(x) - fo) ELSE 0
      /\ \A i \in 1..k : b[i] = x[fo + i]
  <2>1. fo \in Nat /\ BufferSize \in Nat  BY <1>1, BufferAssumption
  <2>2. /\ b \in Seq(Nat)
        /\ Len(b) = IF fo < Len(x) THEN Smaller(BufferSize, Len(x) - fo) ELSE 0
        /\ Len(b) \in 0..BufferSize
        /\ \A i \in 1..Len(b) : fo + i \in 1..Len(x) /\ b[i] = x[fo + i]
    BY <1>2, <2>1, FileReadIs, ZenonT(30)
  <2> QED  BY <1>3, <2>1, <2>2
<1>5. /\ r.transferred = k /\ k # 0
      /\ \A i \in 1..k : buffer[i] = b[i]
  BY <1>1, <1>10, <1>2, <1>3 DEF ReadAnswer
<1>6. /\ moved <= fo /\ left < BufferSize /\ moved <= Len(m)
      /\ \A i \in 1..moved : m[i] = x[fo - moved + i]
  <2>1. BufferSize \in Nat  BY BufferAssumption
  <2> QED  BY <1>1, <2>1 DEF Fetched, Direct
<1>61. BufferSize \in Nat  BY BufferAssumption
<1>7. PICK size \in Nat : size = Len(x)  OBVIOUS
<1>70. left \in Nat /\ moved \in Nat /\ fo \in Nat /\ k \in Nat /\ size \in Nat
  BY <1>1, <1>3, <1>7
<1>8. fo + k <= size /\ (k # BufferSize => fo + k = size)
  <2>2. k = IF fo < size THEN Smaller(BufferSize, size - fo) ELSE 0
    BY <1>4, <1>7
  <2>3. fo < size /\ k = Smaller(BufferSize, size - fo)  BY <1>5, <2>2
  <2> QED  BY ZenonT(30), <1>61, <1>70, <2>3, ReadReaches
<1>9. PICK part \in Nat : part = Smaller(k, left)  BY <1>70 DEF Smaller
<1>11. part <= k /\ part <= left  BY <1>70, <1>9 DEF Smaller
<1>12. PICK to \in Nat, n \in Nat : to = fo + k /\ n = moved + left
  <2>1. fo + k \in Nat /\ moved + left \in Nat  BY <1>70
  <2> QED  BY <2>1
<1>13. PICK at_ \in Nat : at_ = fo - moved  BY <1>6, <1>70
<1>14. /\ buffer \in [1..BufferSize -> Nat] /\ buffer \in Seq(Nat)
       /\ Len(buffer) = BufferSize
  BY <1>10, StreamIs
<1>15. /\ t \in StreamType /\ t.buffer = buffer /\ t.bufferCount = k
       /\ t.bufferOffset = part /\ t.fileOffset = to
  <2>1. PICK o : s = StreamOf(buffer, 0, o, fo)
    BY <1>1, <1>10, StreamIs
  <2>2. t = StreamOf(buffer, k, part, to)
    BY <1>1, <1>5, <1>9, <1>12, <2>1, RefillSets
  <2>3. k \in Nat /\ part <= BufferSize /\ k <= BufferSize
    BY <1>4, <1>11, <1>61, <1>70
  <2>4. StreamOf(buffer, k, part, to) \in StreamType
    BY <1>14, <2>3, StreamMade
  <2> QED  BY <2>2, <2>4 DEF StreamOf
<1>16. Buffered(x, t)
  <2>1. part <= k /\ k <= to /\ to <= Len(x)
    BY <1>7, <1>8, <1>11, <1>12, <1>70
  <2>2. \A i \in 1..k : buffer[i] = x[to - k + i]
    <3> SUFFICES ASSUME NEW i \in 1..k  PROVE buffer[i] = x[to - k + i]
      OBVIOUS
    <3>1. to - k + i = fo + i  BY <1>12, <1>70
    <3> QED  BY <1>4, <1>5, <3>1
  <2> QED  BY <1>15, <2>1, <2>2 DEF Buffered
<1>17. /\ CallAt(s, old) = at_ /\ Wanted(old) = n
  BY <1>1, <1>12, <1>13 DEF CallAt, Wanted
<1>18. PICK rest : rest = SubSeq(buffer, 1, part)  OBVIOUS
<1>19. /\ rest \in Seq(Nat) /\ Len(rest) = part
       /\ \A i \in 1..part : rest[i] = x[fo + i]
  <2>1. part <= Len(buffer)  BY <1>4, <1>11, <1>14, <1>61, <1>70
  <2>2. /\ rest \in Seq(Nat) /\ Len(rest) = part
        /\ \A i \in 1..part : rest[i] = buffer[i]
    BY <1>14, <1>18, <2>1
  <2>3. \A i \in 1..part : i \in 1..k  BY <1>11, <1>70
  <2> QED  BY <1>4, <1>5, <2>2, <2>3
<1>20. q = SubSeq(m, 1, moved) \o rest
  BY <1>1, <1>5, <1>9, <1>10, <1>18 DEF Gathered
<1>21. /\ q \in Seq(Nat) /\ Len(q) = moved + part
       /\ \A i \in 1..moved : q[i] = m[i]
       /\ \A i \in 1..part : q[moved + i] = rest[i]
  <2>1. /\ SubSeq(m, 1, moved) \o rest \in Seq(Nat)
        /\ Len(SubSeq(m, 1, moved) \o rest) = moved + Len(rest)
        /\ \A i \in 1..moved : (SubSeq(m, 1, moved) \o rest)[i] = m[i]
        /\ \A i \in 1..Len(rest) :
             (SubSeq(m, 1, moved) \o rest)[moved + i] = rest[i]
    <3>1. moved \in Nat /\ moved <= Len(m) /\ rest \in Seq(Nat)
      BY <1>6, <1>19, <1>70
    <3> QED  BY <3>1, JoinedIs, ZenonT(30)
  <2> QED  BY <1>19, <1>20, <2>1, Zenon
<1>22. \A i \in 1..Len(q) : q[i] = x[at_ + i]
  <2> SUFFICES ASSUME NEW i \in 1..Len(q)  PROVE q[i] = x[at_ + i]
    OBVIOUS
  <2>1. CASE i <= moved
    <3>1. i \in 1..moved /\ fo - moved + i = at_ + i
      BY <1>13, <1>70, <2>1
    <3> QED  BY <1>6, <1>21, <3>1
  <2>2. CASE i > moved
    <3>1. PICK j \in 1..part : i = moved + j
      <4>1. i - moved \in 1..part /\ i = moved + (i - moved)
        BY <1>21, <1>70, <2>2
      <4> QED  BY <4>1
    <3>2. fo + j = at_ + i  BY <1>13, <1>70, <3>1
    <3>3. q[i] = rest[j] /\ rest[j] = x[fo + j]  BY <1>19, <1>21, <3>1
    <3> QED  BY <3>2, <3>3
  <2>3. i <= moved \/ i > moved  BY <1>21, <1>70
  <2> QED  BY <2>1, <2>2, <2>3
<1>23. GotAll(x, at_, n, Len(q))
  <2>1. at_ + moved = fo  BY <1>6, <1>13, <1>70
  <2>2. fo + k <= Len(x) /\ (k # BufferSize => fo + k = Len(x))
    BY <1>7, <1>8
  <2>3. GotAll(x, at_, n, moved + part)
    BY <1>6, <1>9, <1>12, <1>13, <1>70, <2>1, <2>2, RefillReached
  <2> QED  BY <1>21, <2>3
<1>24. q = Slice(x, at_, n)
  <2>1. at_ \in Nat /\ n \in Nat /\ q \in Seq(Nat)
    BY <1>12, <1>13, <1>21
  <2>2. PICK w : w = q  OBVIOUS
  <2>3. /\ GotAll(x, at_, n, Len(w)) /\ w \in Seq(Nat)
        /\ \A i \in 1..Len(w) : w[i] = x[at_ + i]
    BY <1>21, <1>22, <1>23, <2>2
  <2>4. w = Slice(x, at_, n)  BY <2>1, <2>3, SameBytes
  <2> QED  BY <2>2, <2>4
<1>25. ReadAt(t) = at_ + Len(q)
  <2>1. ReadAt(t) = to - (k - part)  BY <1>15 DEF ReadAt
  <2>2. to - (k - part) = at_ + (moved + part)
    BY <1>6, <1>11, <1>12, <1>13, <1>70
  <2> QED  BY <1>21, <2>1, <2>2
<1> QED  BY <1>12, <1>13, <1>15, <1>16, <1>17, <1>21, <1>24, <1>25

(***************************************************************************)
(* A writer's file x: the first n of all the bytes that were written, and  *)
(* behind them what was in the file.                                       *)
(***************************************************************************)
FileHolds(all, old, x, n) ==
    /\ n <= Len(all)
    /\ x \in Seq(Nat)
    /\ Len(x) = Larger(Len(old), n)
    /\ \A i \in 1..Len(x) : x[i] = IF i <= n THEN all[i] ELSE old[i]

LEMMA ConcatIs ==
    ASSUME NEW a \in Seq(Nat), NEW b \in Seq(Nat), NEW j, j = a \o b
    PROVE  /\ j \in Seq(Nat) /\ Len(j) = Len(a) + Len(b)
           /\ \A i \in 1..Len(a) : j[i] = a[i]
           /\ \A i \in 1..Len(b) : j[Len(a) + i] = b[i]
<1>1. PICK w : w = j  OBVIOUS
<1>2. PICK k \in Nat, n \in Nat : k = Len(a) /\ n = Len(b)  OBVIOUS
<1>3. /\ w \in Seq(Nat) /\ Len(w) = k + n
      /\ \A i \in 1..(k + n) : w[i] = IF i <= k THEN a[i] ELSE b[i - k]
  <2>1. /\ a \o b \in Seq(Nat) /\ Len(a \o b) = Len(a) + Len(b)
        /\ \A i \in 1..(Len(a) + Len(b)) :
            (a \o b)[i] = IF i <= Len(a) THEN a[i] ELSE b[i - Len(a)]
    BY ConcatProperties
  <2> QED  BY <1>1, <1>2, <2>1
<1>4. \A i \in 1..k : w[i] = a[i]
  BY <1>2, <1>3
<1>5. \A i \in 1..n : w[k + i] = b[i]
  <2> SUFFICES ASSUME NEW i \in 1..n  PROVE w[k + i] = b[i]
    OBVIOUS
  <2>1. k + i \in 1..(k + n) /\ ~ (k + i <= k) /\ (k + i) - k = i
    BY <1>2
  <2> QED  BY <1>3, <2>1
<1> QED  BY <1>1, <1>2, <1>3, <1>4, <1>5

LEMMA HoldsNothing ==
    ASSUME NEW old \in Seq(Nat)
    PROVE  FileHolds(<<>>, old, old, 0)
<1>1. Larger(Len(old), 0) = Len(old)  BY DEF Larger
<1>2. <<>> \in Seq(Nat) /\ Len(<<>>) = 0  OBVIOUS
<1> QED  BY <1>1, <1>2 DEF FileHolds

LEMMA HoldsMore ==
    ASSUME NEW a \in Seq(Nat), NEW b \in Seq(Nat), NEW old, NEW x,
           NEW n \in Nat, FileHolds(a, old, x, n)
    PROVE  FileHolds(a \o b, old, x, n)
<1>1. PICK j : j = a \o b  OBVIOUS
<1>2. /\ j \in Seq(Nat) /\ Len(j) = Len(a) + Len(b)
      /\ \A i \in 1..Len(a) : j[i] = a[i]
  BY <1>1, ConcatIs
<1>3. n <= Len(a) /\ x \in Seq(Nat) /\ Len(x) = Larger(Len(old), n)
      /\ \A i \in 1..Len(x) : x[i] = IF i <= n THEN a[i] ELSE old[i]
  BY DEF FileHolds
<1>4. \A i \in 1..Len(x) : i <= n => i \in 1..Len(a)
  BY <1>3
<1>5. \A i \in 1..Len(x) : x[i] = IF i <= n THEN j[i] ELSE old[i]
  BY <1>2, <1>3, <1>4
<1>6. n <= Len(j)
  <2>1. Len(a) \in Nat /\ Len(b) \in Nat  OBVIOUS
  <2> QED  BY <1>2, <1>3, <2>1
<1> QED  BY <1>1, <1>3, <1>5, <1>6 DEF FileHolds

LEMMA HoldsWritten ==
    ASSUME NEW a \in Seq(Nat), NEW old \in Seq(Nat), NEW x, NEW n \in Nat,
           FileHolds(a, old, x, n), NEW b \in Seq(Nat), n + Len(b) <= Len(a),
           \A i \in 1..Len(b) : b[i] = a[n + i]
    PROVE  FileHolds(a, old, FileWritten(x, n, b), n + Len(b))
<1>1. n <= Len(a) /\ x \in Seq(Nat) /\ Len(x) = Larger(Len(old), n)
      /\ \A i \in 1..Len(x) : x[i] = IF i <= n THEN a[i] ELSE old[i]
  BY DEF FileHolds
<1>2. PICK w : w = FileWritten(x, n, b)  OBVIOUS
<1>3. IsGrown(w, x, n, b)  BY <1>1, <1>2, FileWrittenIs
<1>4. PICK size \in Nat, k \in Nat, m \in Nat, before \in Nat :
        size = Len(old) /\ k = Len(b) /\ m = n + k /\ before = Len(x)
  <2>1. n + Len(b) \in Nat /\ Len(old) \in Nat /\ Len(b) \in Nat
        /\ Len(x) \in Nat
    BY <1>1
  <2> QED  BY <2>1
<1>40. size \in Nat /\ k \in Nat /\ m \in Nat /\ before \in Nat
       /\ m = n + k /\ before = Larger(size, n)
  BY <1>1, <1>4
<1>5. /\ w \in Seq(Nat) /\ Len(w) = Larger(before, m)
      /\ \A i \in 1..Len(w) :
            w[i] = IF i \in (n + 1)..m THEN b[i - n]
                   ELSE IF i <= before THEN x[i] ELSE 0
  BY <1>3, <1>4 DEF IsGrown
<1>6. Larger(before, m) = Larger(size, m)
  BY <1>40 DEF Larger
<1>60. PICK all \in Nat : all = Len(w)  BY <1>5
<1>61. all = Larger(size, m)  BY <1>5, <1>6, <1>60
<1>7. \A i \in 1..all : w[i] = IF i <= m THEN a[i] ELSE old[i]
  <2> SUFFICES ASSUME NEW i \in 1..all
               PROVE  w[i] = IF i <= m THEN a[i] ELSE old[i]
    OBVIOUS
  <2>1. CASE i \in (n + 1)..m
    <3>1. i - n \in 1..k /\ n + (i - n) = i  BY <1>40, <2>1
    <3>2. w[i] = b[i - n]  BY <1>5, <1>60, <2>1
    <3>3. b[i - n] = a[i]  BY <1>4, <3>1
    <3> QED  BY <1>40, <2>1, <3>2, <3>3
  <2>2. CASE i \notin (n + 1)..m
    <3>1. i <= n \/ i > m  BY <1>40, <2>2
    <3>2. i <= before
      BY <1>40, <1>61, <3>1 DEF Larger
    <3>3. w[i] = x[i]  BY <1>5, <1>60, <2>2, <3>2
    <3>4. x[i] = IF i <= n THEN a[i] ELSE old[i]
      <4>1. i \in 1..before  BY <1>40, <3>2
      <4> QED  BY <1>1, <1>4, <4>1
    <3> QED  BY <1>40, <3>1, <3>3, <3>4
  <2> QED  BY <2>1, <2>2
<1>8. FileHolds(a, old, w, m)
  BY <1>4, <1>5, <1>6, <1>60, <1>7 DEF FileHolds
<1> QED  BY <1>2, <1>4, <1>8

LEMMA HoldsAll ==
    ASSUME NEW a \in Seq(Nat), NEW old \in Seq(Nat), NEW x,
           FileHolds(a, old, x, Len(a))
    PROVE  x = a \o SubSeq(old, Len(a) + 1, Len(old))
<1>1. PICK n \in Nat, size \in Nat : n = Len(a) /\ size = Len(old)  OBVIOUS
<1>2. x \in Seq(Nat) /\ Len(x) = Larger(size, n)
      /\ \A i \in 1..Len(x) : x[i] = IF i <= n THEN a[i] ELSE old[i]
  BY <1>1 DEF FileHolds
<1>3. PICK m \in Nat \ {0} : m = n + 1
  <2>1. n + 1 \in Nat \ {0}  BY <1>1
  <2> QED  BY <2>1
<1>4. PICK rest : rest = SubSeq(old, m, size)  OBVIOUS
<1>5. /\ rest \in Seq(Nat) /\ Len(rest) \in Nat
      /\ Len(rest) = IF m <= size THEN size - m + 1 ELSE 0
      /\ \A i \in 1..Len(rest) : rest[i] = old[m + i - 1]
  <2>1. size <= Len(old) /\ size \in Nat  BY <1>1
  <2>2. /\ SubSeq(old, m, size) \in Seq(Nat)
        /\ Len(SubSeq(old, m, size)) \in Nat
        /\ Len(SubSeq(old, m, size)) = IF m <= size THEN size - m + 1 ELSE 0
        /\ \A i \in 1..Len(SubSeq(old, m, size)) :
            /\ m + i - 1 \in 1..Len(old)
            /\ SubSeq(old, m, size)[i] = old[m + i - 1]
    BY <2>1, SliceIs, Zenon
  <2> QED  BY <1>4, <2>2
<1>6. PICK j : j = a \o rest  OBVIOUS
<1>7. /\ j \in Seq(Nat) /\ Len(j) = n + Len(rest)
      /\ \A i \in 1..n : j[i] = a[i]
      /\ \A i \in 1..Len(rest) : j[n + i] = rest[i]
  <2>1. /\ j \in Seq(Nat) /\ Len(j) = Len(a) + Len(rest)
        /\ \A i \in 1..Len(a) : j[i] = a[i]
        /\ \A i \in 1..Len(rest) : j[Len(a) + i] = rest[i]
    <3>1. rest \in Seq(Nat)  BY <1>5
    <3> QED  BY <3>1, <1>6, ConcatIs
  <2> QED  BY <1>1, <2>1
<1>8. Len(x) = Len(j)
  <2>1. PICK k \in Nat : k = Len(rest)  BY <1>5
  <2>2. n \in Nat /\ size \in Nat /\ m = n + 1  BY <1>1, <1>3
  <2>3. k = IF m <= size THEN size - m + 1 ELSE 0  BY <1>5, <2>1
  <2>4. n + k = Larger(size, n)  BY <2>1, <2>2, <2>3 DEF Larger
  <2> QED  BY <1>2, <1>7, <2>1, <2>4
<1>9. \A i \in 1..Len(x) : x[i] = j[i]
  <2> SUFFICES ASSUME NEW i \in 1..Len(x)  PROVE x[i] = j[i]
    OBVIOUS
  <2>1. CASE i <= n
    <3>1. i \in 1..n  BY <2>1
    <3> QED  BY <1>2, <1>7, <2>1, <3>1
  <2>2. CASE ~ (i <= n)
    <3>1. PICK k \in 1..Len(rest) : i = n + k
      <4>1. PICK r \in Nat : r = Len(rest)  BY <1>5
      <4>2. i \in 1..(n + r)  BY <1>7, <1>8, <4>1
      <4>3. i - n \in 1..r /\ i = n + (i - n)  BY <1>1, <2>2, <4>1, <4>2
      <4> QED  BY <4>1, <4>3
    <3>2. m + k - 1 = i  BY <1>1, <1>3, <3>1
    <3>3. j[i] = rest[k] /\ rest[k] = old[i]  BY <1>5, <1>7, <3>1, <3>2
    <3> QED  BY <1>2, <2>2, <3>3
  <2> QED  BY <2>1, <2>2
<1>10. x = j  BY <1>2, <1>7, <1>8, <1>9, SameSeq
<1> QED  BY <1>1, <1>3, <1>4, <1>6, <1>10

(***************************************************************************)
(* A writer's stream: what of all the bytes is not in the file is in the   *)
(* buffer, or the full buffer is on its way to the file.                   *)
(***************************************************************************)
InTail(all, s) ==
    /\ Len(all) = s.fileOffset + s.bufferOffset
    /\ \A i \in 1..s.bufferOffset : s.buffer[i] = all[s.fileOffset + i]

InFlush(all, s) ==
    \A i \in 1..BufferSize : s.buffer[i] = all[s.fileOffset + i]

IsSlice(q, s, m, n) ==
    /\ q \in Seq(Nat) /\ Len(q) = IF m <= n THEN n - m + 1 ELSE 0
    /\ \A i \in 1..Len(q) : q[i] = s[m + i - 1]

LEMMA SliceFound ==
    ASSUME NEW s \in Seq(Nat), NEW m \in Nat \ {0}, NEW n \in Nat,
           n <= Len(s)
    PROVE  IsSlice(SubSeq(s, m, n), s, m, n)
<1>1. PICK q : q = SubSeq(s, m, n)  OBVIOUS
<1>2. /\ q \in Seq(Nat) /\ Len(q) = IF m <= n THEN n - m + 1 ELSE 0
      /\ \A i \in 1..Len(q) : q[i] = s[m + i - 1]
  <2>1. /\ SubSeq(s, m, n) \in Seq(Nat)
        /\ Len(SubSeq(s, m, n)) = IF m <= n THEN n - m + 1 ELSE 0
        /\ Len(SubSeq(s, m, n)) \in Nat
        /\ \A i \in 1..Len(SubSeq(s, m, n)) :
            /\ m + i - 1 \in 1..Len(s)
            /\ SubSeq(s, m, n)[i] = s[m + i - 1]
    BY SliceIs, Zenon
  <2> QED  BY <1>1, <2>1
<1> QED  BY <1>1, <1>2 DEF IsSlice

LEMMA KeptIs ==
    ASSUME NEW s \in StreamType, NEW b \in Seq(Nat), NEW o \in Nat,
           o = s.bufferOffset, o + Len(b) <= BufferSize,
           NEW t, t = Kept(s, b)
    PROVE  /\ t \in StreamType /\ t.fileOffset = s.fileOffset
           /\ t.bufferOffset = o + Len(b)
           /\ t.bufferCount = s.bufferCount
           /\ IsCopy(t.buffer, BufferSize, s.buffer, o, b)
<1>1. PICK k \in Nat, fo \in Nat :
        k = s.bufferCount /\ fo = s.fileOffset /\ k <= BufferSize
  BY StreamIs
<1>2. PICK buffer : buffer = s.buffer  OBVIOUS
<1>3. buffer \in [1..BufferSize -> Nat]  BY <1>2, StreamIs
<1>4. BufferSize \in Nat  BY BufferAssumption
<1>5. PICK c : c = Copied(buffer, o, b)  OBVIOUS
<1>6. IsCopy(c, BufferSize, buffer, o, b)  BY <1>3, <1>4, <1>5, CopiedIs
<1>7. c \in [1..BufferSize -> Nat]  BY <1>6 DEF IsCopy
<1>8. PICK n \in Nat : n = o + Len(b)
  <2>1. o + Len(b) \in Nat  OBVIOUS
  <2> QED  BY <2>1
<1>9. t = StreamOf(c, k, n, fo)
  <2>1. s = StreamOf(buffer, k, o, fo)  BY <1>1, <1>2, StreamIs
  <2>2. Kept(s, b) = StreamOf(Copied(buffer, o, b), k, o + Len(b), fo)
    BY <2>1, KeptSets
  <2> QED  BY <1>5, <1>8, <2>2
<1>10. StreamOf(c, k, n, fo) \in StreamType
  <2>1. n <= BufferSize /\ k <= BufferSize  BY <1>1, <1>8
  <2> QED  BY <1>1, <1>7, <1>8, <2>1, StreamMade
<1>11. /\ t \in StreamType /\ t.buffer = c /\ t.bufferCount = k
       /\ t.bufferOffset = n /\ t.fileOffset = fo
  BY <1>9, <1>10 DEF StreamOf
<1> QED  BY <1>1, <1>2, <1>6, <1>8, <1>11

LEMMA KeptTail ==
    ASSUME NEW s \in StreamType, NEW b \in Seq(Nat),
           s.bufferOffset + Len(b) <= BufferSize,
           NEW a \in Seq(Nat), InTail(a, s),
           NEW t, t = Kept(s, b)
    PROVE  InTail(a \o b, t) /\ t.fileOffset = s.fileOffset
<1>1. PICK o \in Nat, fo \in Nat : o = s.bufferOffset /\ fo = s.fileOffset
  BY StreamIs
<1>10. PICK old, buffer : old = s.buffer /\ buffer = t.buffer  OBVIOUS
<1>2. PICK k \in Nat : k = Len(b)  OBVIOUS
<1>3. PICK n \in Nat : n = Len(a)  OBVIOUS
<1>4. /\ t \in StreamType /\ t.fileOffset = fo
      /\ t.bufferOffset = o + k
      /\ IsCopy(buffer, BufferSize, old, o, b)
  BY SMTT(30), <1>1, <1>10, <1>2, KeptIs
<1>5. /\ n = fo + o /\ o + k <= BufferSize /\ BufferSize \in Nat
      /\ \A i \in 1..o : old[i] = a[fo + i]
  BY <1>1, <1>10, <1>2, <1>3, BufferAssumption DEF InTail
<1>6. \A i \in 1..BufferSize :
        buffer[i] = IF i \in (o + 1)..(o + k) THEN b[i - o] ELSE old[i]
  BY <1>2, <1>4 DEF IsCopy
<1>7. PICK j : j = a \o b  OBVIOUS
<1>8. /\ j \in Seq(Nat) /\ Len(j) = n + k
      /\ \A i \in 1..n : j[i] = a[i]
      /\ \A i \in 1..k : j[n + i] = b[i]
  <2>1. /\ j \in Seq(Nat) /\ Len(j) = Len(a) + Len(b)
        /\ \A i \in 1..Len(a) : j[i] = a[i]
        /\ \A i \in 1..Len(b) : j[Len(a) + i] = b[i]
    BY <1>7, ConcatIs
  <2> QED  BY <1>2, <1>3, <2>1
<1>80. o \in Nat /\ fo \in Nat /\ k \in Nat /\ n \in Nat
  BY <1>1, <1>2, <1>3
<1>9. \A i \in 1..(o + k) : buffer[i] = j[fo + i]
  <2> SUFFICES ASSUME NEW i \in 1..(o + k)  PROVE buffer[i] = j[fo + i]
    OBVIOUS
  <2>0. i \in 1..BufferSize  BY <1>5, <1>80
  <2>1. CASE i <= o
    <3>1. /\ i \in 1..o /\ i \notin (o + 1)..(o + k) /\ fo + i \in 1..n
      BY <1>5, <1>80, <2>1
    <3> QED  BY <1>5, <1>6, <1>8, <2>0, <3>1
  <2>2. CASE i > o
    <3>1. PICK e \in 1..k : e = i - o
      <4>1. i - o \in 1..k  BY <1>80, <2>2
      <4> QED  BY <4>1
    <3>2. i \in (o + 1)..(o + k) /\ fo + i = n + e
      BY <1>5, <1>80, <2>2, <3>1
    <3>3. buffer[i] = b[e] /\ j[n + e] = b[e]
      BY <1>6, <1>8, <2>0, <3>1, <3>2
    <3> QED  BY <3>2, <3>3
  <2> QED  BY <1>80, <2>1, <2>2
<1>11. Len(j) = fo + (o + k)  BY <1>5, <1>8, <1>80
<1> QED  BY <1>1, <1>10, <1>4, <1>7, <1>9, <1>11 DEF InTail

(***************************************************************************)
(* The buffer is filled up and has to be written.                          *)
(***************************************************************************)
LEMMA FilledIs ==
    ASSUME NEW s \in StreamType, NEW b \in Seq(Nat), ~ FitsBuffer(s, b),
           NEW t, t = Filled(s, b), NEW call, call = WriteCall(s, b)
    PROVE  /\ t \in StreamType /\ t.fileOffset = s.fileOffset
           /\ t.bufferOffset = 0
           /\ call \in Call /\ Wanted(call) = Len(b)
           /\ s.bufferOffset + call.moved = BufferSize
           /\ call.moved <= Len(b)
           /\ \A a : a \in Seq(Nat) /\ InTail(a, s) => InFlush(a \o b, t)
<1>1. PICK k \in Nat, o \in Nat, fo \in Nat :
        /\ k = s.bufferCount /\ o = s.bufferOffset /\ fo = s.fileOffset
        /\ k <= BufferSize /\ o <= BufferSize
  BY StreamIs
<1>2. PICK old : old = s.buffer  OBVIOUS
<1>3. old \in [1..BufferSize -> Nat]  BY <1>2, StreamIs
<1>4. BufferSize \in Nat  BY BufferAssumption
<1>5. PICK n \in Nat : n = Len(b)  OBVIOUS
<1>6. PICK room \in Nat : room = BufferSize - o
  <2>1. BufferSize - o \in Nat  BY <1>1, <1>4
  <2> QED  BY <2>1
<1>60. o \in Nat /\ fo \in Nat /\ n \in Nat /\ room \in Nat
       /\ o + room = BufferSize
  BY <1>1, <1>4, <1>5, <1>6
<1>7. Room(s) = room /\ room <= n
  <2>1. ~ (o + n < BufferSize)  BY <1>1, <1>5 DEF FitsBuffer
  <2>2. Room(s) = BufferSize - o  BY <1>1 DEF Room
  <2>3. room <= n  BY <1>4, <1>60, <2>1
  <2> QED  BY <1>6, <2>2, <2>3
<1>8. PICK part : part = SubSeq(b, 1, room)  OBVIOUS
<1>9. /\ part \in Seq(Nat) /\ Len(part) = room
      /\ \A i \in 1..room : part[i] = b[i]
  BY <1>5, <1>60, <1>7, <1>8
<1>10. PICK c : c = Copied(old, o, part)  OBVIOUS
<1>11. IsCopy(c, BufferSize, old, o, part)
  BY <1>3, <1>4, <1>60, <1>9, <1>10, CopiedIs
<1>12. /\ c \in [1..BufferSize -> Nat]
       /\ \A i \in 1..BufferSize :
            c[i] = IF i \in (o + 1)..(o + room) THEN part[i - o] ELSE old[i]
  BY <1>9, <1>11 DEF IsCopy
<1>13. t = StreamOf(c, k, 0, fo)
  <2>1. s = StreamOf(old, k, o, fo)  BY <1>1, <1>2, StreamIs
  <2>2. part = SubSeq(b, 1, Room(s))  BY <1>7, <1>8
  <2>3. Filled(s, b) = StreamOf(Copied(old, o, part), k, 0, fo)
    BY <2>1, <2>2, FilledSets
  <2> QED  BY <1>10, <2>3
<1>14. StreamOf(c, k, 0, fo) \in StreamType
  <2>1. PICK zero \in Nat : zero = 0  OBVIOUS
  <2>2. zero <= BufferSize /\ k \in Nat /\ k <= BufferSize
    BY <1>1, <1>4, <2>1
  <2>3. StreamOf(c, k, zero, fo) \in StreamType
    BY <1>12, <1>60, <2>2, StreamMade
  <2> QED  BY <2>1, <2>3
<1>15. /\ t \in StreamType /\ t.buffer = c /\ t.bufferOffset = 0
       /\ t.fileOffset = fo
  BY <1>13, <1>14 DEF StreamOf
<1>16. call = [left |-> n - room, moved |-> room]
  BY <1>5, <1>7 DEF WriteCall
<1>17. /\ call \in Call /\ Wanted(call) = n
       /\ o + call.moved = BufferSize /\ call.moved <= n
  <2>1. n - room \in Nat /\ room + (n - room) = n  BY <1>60, <1>7
  <2> QED  BY <1>16, <1>60, <1>7, <2>1 DEF Call, Wanted
<1>18. ASSUME NEW a \in Seq(Nat), InTail(a, s)
       PROVE  InFlush(a \o b, t)
  <2>1. PICK j : j = a \o b  OBVIOUS
  <2>2. PICK m \in Nat : m = Len(a)  OBVIOUS
  <2>3. /\ \A i \in 1..m : j[i] = a[i]
        /\ \A i \in 1..n : j[m + i] = b[i]
    <3>1. /\ j \in Seq(Nat) /\ Len(j) = Len(a) + Len(b)
          /\ \A i \in 1..Len(a) : j[i] = a[i]
          /\ \A i \in 1..Len(b) : j[Len(a) + i] = b[i]
      BY <2>1, ConcatIs
    <3> QED  BY <1>5, <2>2, <3>1
  <2>4. /\ m = fo + o /\ m \in Nat
        /\ \A i \in 1..o : old[i] = a[fo + i]
    BY <1>1, <1>2, <1>18, <2>2 DEF InTail
  <2>5. \A i \in 1..BufferSize : c[i] = j[fo + i]
    <3> SUFFICES ASSUME NEW i \in 1..BufferSize  PROVE c[i] = j[fo + i]
      OBVIOUS
    <3>1. CASE i <= o
      <4>1. /\ i \in 1..o /\ i \notin (o + 1)..(o + room) /\ fo + i \in 1..m
        BY <1>4, <1>60, <2>4, <3>1
      <4> QED  BY <1>12, <2>3, <2>4, <4>1
    <3>2. CASE i > o
      <4>1. PICK e \in 1..room : e = i - o
        <5>1. i - o \in 1..room  BY <1>4, <1>60, <3>2
        <5> QED  BY <5>1
      <4>2. /\ i \in (o + 1)..(o + room) /\ fo + i = m + e /\ e \in 1..n
        BY <1>4, <1>60, <1>7, <2>4, <3>2, <4>1
      <4>3. c[i] = part[e] /\ part[e] = b[e] /\ j[m + e] = b[e]
        BY <1>12, <1>9, <2>3, <4>1, <4>2
      <4> QED  BY <4>2, <4>3
    <3> QED  BY <1>4, <1>60, <3>1, <3>2
  <2> QED  BY <1>15, <2>1, <2>5 DEF InFlush
<1> QED  BY <1>1, <1>5, <1>15, <1>17, <1>18

(***************************************************************************)
(* After a write of a whole buffer: the next one, or the rest is kept.     *)
(***************************************************************************)
LEMMA AfterWriteIs ==
    ASSUME NEW s \in StreamType, NEW t, t = AfterWrite(s)
    PROVE  /\ t \in StreamType /\ t.buffer = s.buffer
           /\ t.bufferOffset = s.bufferOffset
           /\ t.fileOffset = s.fileOffset + BufferSize
<1>1. PICK k \in Nat, o \in Nat, fo \in Nat :
        /\ k = s.bufferCount /\ o = s.bufferOffset /\ fo = s.fileOffset
        /\ k <= BufferSize /\ o <= BufferSize
  BY StreamIs
<1>2. PICK old : old = s.buffer  OBVIOUS
<1>3. old \in [1..BufferSize -> Nat]  BY <1>2, StreamIs
<1>4. PICK to \in Nat : to = fo + BufferSize
  <2>1. fo + BufferSize \in Nat  BY <1>1, BufferAssumption
  <2> QED  BY <2>1
<1>5. t = StreamOf(old, k, o, to)
  <2>1. s = StreamOf(old, k, o, fo)  BY <1>1, <1>2, StreamIs
  <2> QED  BY <1>4, <2>1, WriteSets
<1>6. StreamOf(old, k, o, to) \in StreamType
  BY <1>1, <1>3, <1>4, StreamMade
<1>7. /\ t \in StreamType /\ t.buffer = old /\ t.bufferOffset = o
      /\ t.fileOffset = to
  BY <1>5, <1>6 DEF StreamOf
<1> QED  BY <1>1, <1>2, <1>4, <1>7

LEMMA RestKept ==
    ASSUME NEW s \in StreamType, s.bufferOffset = 0, NEW call \in Call,
           ~ Direct(call), NEW b \in Seq(Nat), Wanted(call) = Len(b),
           NEW t, t = Kept(AfterWrite(s), Rest(call, b))
    PROVE  /\ t \in StreamType /\ t.fileOffset = s.fileOffset + BufferSize
           /\ \A a : a \in Seq(Nat)
                    /\ s.fileOffset + BufferSize = Len(a) + call.moved
                    => InTail(a \o b, t)
<1>1. PICK u : u = AfterWrite(s)  OBVIOUS
<1>2. /\ u \in StreamType /\ u.bufferOffset = 0
      /\ u.fileOffset = s.fileOffset + BufferSize
  BY <1>1, AfterWriteIs
<1>3. PICK left \in Nat, moved \in Nat, n \in Nat :
        left = call.left /\ moved = call.moved /\ n = Len(b)
  BY DEF Call
<1>4. n = moved + left /\ left < BufferSize /\ BufferSize \in Nat
  BY <1>3, BufferAssumption DEF Wanted, Direct
<1>40. left \in Nat /\ moved \in Nat /\ n \in Nat  BY <1>3
<1>5. PICK rest : rest = Rest(call, b)  OBVIOUS
<1>6. PICK m \in Nat \ {0} : m = moved + 1
  <2>1. moved + 1 \in Nat \ {0}  BY <1>40
  <2> QED  BY <2>1
<1>7. /\ rest \in Seq(Nat) /\ Len(rest) = left
      /\ \A i \in 1..left : rest[i] = b[moved + i]
  <2>1. rest = SubSeq(b, m, n)
    BY <1>3, <1>4, <1>5, <1>6 DEF Rest
  <2>2. n <= Len(b) /\ n \in Nat  BY <1>3
  <2>3. IsSlice(SubSeq(b, m, n), b, m, n)  BY <2>2, SliceFound
  <2>4. (IF m <= n THEN n - m + 1 ELSE 0) = left  BY <1>4, <1>40, <1>6
  <2>5. \A i \in 1..left : m + i - 1 = moved + i  BY <1>40, <1>6
  <2> QED  BY <2>1, <2>3, <2>4, <2>5 DEF IsSlice
<1>8. PICK zero \in Nat : zero = 0  OBVIOUS
<1>9. PICK old, buffer : old = u.buffer /\ buffer = t.buffer  OBVIOUS
<1>10. /\ t \in StreamType /\ t.fileOffset = u.fileOffset
       /\ t.bufferOffset = left
       /\ IsCopy(buffer, BufferSize, old, zero, rest)
  <2>1. zero = u.bufferOffset /\ zero + Len(rest) <= BufferSize
    BY <1>2, <1>4, <1>40, <1>7, <1>8
  <2>2. t = Kept(u, rest)  BY <1>1, <1>5
  <2>3. /\ t \in StreamType /\ t.fileOffset = u.fileOffset
        /\ t.bufferOffset = zero + Len(rest)
        /\ IsCopy(t.buffer, BufferSize, u.buffer, zero, rest)
    BY <1>2, <1>7, <2>1, <2>2, KeptIs
  <2> QED  BY <1>40, <1>7, <1>8, <1>9, <2>3
<1>11. ASSUME NEW a \in Seq(Nat),
              s.fileOffset + BufferSize = Len(a) + call.moved
       PROVE  InTail(a \o b, t)
  <2>1. PICK j : j = a \o b  OBVIOUS
  <2>2. PICK k \in Nat, fo \in Nat : k = Len(a) /\ fo = t.fileOffset
    <3>1. t.fileOffset \in Nat  BY <1>10, StreamIs
    <3> QED  BY <3>1
  <2>3. /\ Len(j) = k + n
        /\ \A i \in 1..n : j[k + i] = b[i]
    <3>1. /\ j \in Seq(Nat) /\ Len(j) = Len(a) + Len(b)
          /\ \A i \in 1..Len(a) : j[i] = a[i]
          /\ \A i \in 1..Len(b) : j[Len(a) + i] = b[i]
      BY <2>1, ConcatIs
    <3> QED  BY <1>3, <2>2, <3>1
  <2>4. fo = k + moved  BY <1>2, <1>3, <1>10, <1>11, <2>2
  <2>5. k \in Nat /\ fo \in Nat  BY <2>2
  <2>6. \A i \in 1..left : buffer[i] = j[fo + i]
    <3> SUFFICES ASSUME NEW i \in 1..left  PROVE buffer[i] = j[fo + i]
      OBVIOUS
    <3>1. i \in 1..BufferSize /\ i \in (zero + 1)..(zero + left)
          /\ i - zero = i
      BY <1>4, <1>40, <1>8
    <3>2. buffer[i] = rest[i]  BY <1>7, <1>10, <3>1 DEF IsCopy
    <3>3. PICK e \in 1..n : e = moved + i
      <4>1. moved + i \in 1..n  BY <1>4, <1>40
      <4> QED  BY <4>1
    <3>4. rest[i] = b[e] /\ j[k + e] = b[e]  BY <1>7, <2>3, <3>3
    <3>5. k + e = fo + i  BY <1>40, <2>4, <2>5, <3>3
    <3> QED  BY <3>2, <3>4, <3>5
  <2>7. Len(j) = fo + left  BY <1>4, <1>40, <2>3, <2>4, <2>5
  <2> QED  BY <1>9, <1>10, <2>1, <2>2, <2>6, <2>7 DEF InTail
<1> QED  BY <1>2, <1>10, <1>11

(***************************************************************************)
(* What a writer writes to the file next, and the invariant of its stream  *)
(* and file.  "landed" says that the operation at hand has been carried    *)
(* out, before its coroutine knows.                                        *)
(***************************************************************************)
BytesOf(p, s, f) ==
    IF f.pc = "flush" THEN s.buffer
    ELSE IF f.pc = "write"
         THEN SubSeq(p[f.next].bytes, f.call.moved + 1,
                     f.call.moved + BufferSize)
         ELSE Unwritten(s)

InWrite(f) == f.pc \in {"flush", "write"}

Before(p, f) == Written(p)[f.next - 1]
All(p, f) == IF InWrite(f) THEN Written(p)[f.next] ELSE Before(p, f)

WriterOK(p, old, x, s, f, landed) ==
    /\ ~ f.failed
    /\ FileHolds(All(p, f), old, x,
                 IF f.pc = "done" THEN Len(All(p, f))
                 ELSE s.fileOffset
                      + (IF landed THEN Len(BytesOf(p, s, f)) ELSE 0))
    /\ f.pc \in {"new", "next", "close"} => InTail(All(p, f), s)
    /\ f.pc = "flush" =>
        /\ InFlush(All(p, f), s)
        /\ s.fileOffset + BufferSize = Len(Before(p, f)) + f.call.moved
    /\ f.pc = "write" => s.fileOffset = Len(Before(p, f)) + f.call.moved

(***************************************************************************)
(* What a frame may be, apart from the bytes.                              *)
(***************************************************************************)
FrameFits(p, access, s, f) ==
    /\ f \in FrameType
    /\ f.next <= Len(p) + 1
    /\ f.pc = "read" =>
        /\ access = "read" /\ f.next <= Len(p) /\ p[f.next].op = "read"
        /\ f.call.left > 0 /\ Wanted(f.call) = p[f.next].count
        /\ s.bufferCount = 0
    /\ InWrite(f) =>
        /\ access = "write" /\ f.next <= Len(p) /\ p[f.next].op = "write"
        /\ Wanted(f.call) = Len(p[f.next].bytes)
        /\ s.bufferOffset = 0
    /\ f.pc = "write" => Direct(f.call)
    /\ f.awaits = "direct" => f.pc = "read" /\ Direct(f.call)
    /\ f.awaits = "refill" => f.pc = "read" /\ ~ Direct(f.call)
    /\ f.awaits \in {"flush", "write"} => f.pc = f.awaits
    /\ f.awaits = "schedule" => f.pc = "next"
    /\ f.failed => f.pc \in {"close", "done"}
    /\ f.pc \in {"close", "done"} => f.failed \/ f.next = Len(p) + 1

LEMMA OperationTyped ==
    ASSUME NEW access, NEW p \in Seq(Operations(access)), NEW n \in Nat \ {0},
           n <= Len(p)
    PROVE  /\ p[n] \in Operations(access)
           /\ p[n].op = "write" => access # "read" /\ p[n].bytes \in Seq(Nat)
           /\ p[n].op = "read" => access = "read" /\ p[n].count \in Nat
           /\ p[n].op \in {"skip", "skipTo"} =>
                access = "read" /\ p[n].offset \in Nat
           /\ p[n].op \in {"read", "skip", "skipTo", "write", "schedule"}
<1>1. n \in 1..Len(p)  OBVIOUS
<1>2. p[n] \in Operations(access)  BY <1>1
<1>3. PICK o : o = p[n]  OBVIOUS
<1>4. o \in Operations(access)  BY <1>2, <1>3
<1>5. /\ o.op = "write" => access # "read" /\ o.bytes \in Seq(Nat)
      /\ o.op = "read" => access = "read" /\ o.count \in Nat
      /\ o.op \in {"skip", "skipTo"} => access = "read" /\ o.offset \in Nat
      /\ o.op \in {"read", "skip", "skipTo", "write", "schedule"}
  <2>1. CASE access = "read"
    <3>1. \/ o \in [op : {"read"}, count : Nat]
          \/ o \in [op : {"skip", "skipTo"}, offset : Nat]
          \/ o \in [op : {"schedule"}]
      BY <1>4, <2>1 DEF Operations
    <3> QED  BY <2>1, <3>1
  <2>2. CASE access # "read"
    <3>1. \/ o \in [op : {"write"}, bytes : Seq(Nat)]
          \/ o \in [op : {"schedule"}]
      BY <1>4, <2>2 DEF Operations
    <3> QED  BY <2>2, <3>1
  <2> QED  BY <2>1, <2>2
<1> QED  BY <1>2, <1>3, <1>5

(***************************************************************************)
(* All that is written before and with an operation.                       *)
(***************************************************************************)
LEMMA WrittenTo ==
    ASSUME NEW access, NEW p \in Seq(Operations(access)), NEW n \in Nat \ {0},
           n <= Len(p) + 1
    PROVE  /\ Written(p)[n - 1] \in Seq(Nat)
           /\ n <= Len(p) =>
                /\ Written(p)[n] = Written(p)[n - 1] \o Added(p[n])
                /\ Written(p)[n] \in Seq(Nat)
           /\ (n + 1) - 1 = n
<1>1. Len(p) \in Nat  OBVIOUS
<1>2. n - 1 \in 0..Len(p)  BY <1>1
<1>3. n <= Len(p) => n \in 1..Len(p) /\ n \in 0..Len(p)  BY <1>1
<1>4. /\ \A k \in 0..Len(p) : Written(p)[k] \in Seq(Nat)
      /\ \A k \in 1..Len(p) :
            Written(p)[k] = Written(p)[k - 1] \o Added(p[k])
  BY WrittenIs
<1>5. Written(p)[n - 1] \in Seq(Nat)  BY <1>2, <1>4
<1>6. (n + 1) - 1 = n  OBVIOUS
<1>7. ASSUME n <= Len(p)
      PROVE  /\ Written(p)[n] = Written(p)[n - 1] \o Added(p[n])
             /\ Written(p)[n] \in Seq(Nat)
  BY <1>3, <1>4, <1>7
<1> QED  BY <1>5, <1>6, <1>7

(***************************************************************************)
(* What goes to the file is the next piece of all the bytes.               *)
(***************************************************************************)
IsPiece(b, all, n) ==
    /\ b \in Seq(Nat) /\ n + Len(b) <= Len(all)
    /\ \A i \in 1..Len(b) : b[i] = all[n + i]

LEMMA FlushPiece ==
    ASSUME NEW s \in StreamType, NEW a \in Seq(Nat), NEW b \in Seq(Nat),
           NEW moved \in Nat, moved <= Len(b), InFlush(a \o b, s),
           s.fileOffset + BufferSize = Len(a) + moved
    PROVE  IsPiece(s.buffer, a \o b, s.fileOffset) /\ Len(s.buffer) = BufferSize
<1>1. PICK j : j = a \o b  OBVIOUS
<1>2. Len(j) = Len(a) + Len(b)  BY <1>1, ConcatIs
<1>30. PICK old : old = s.buffer  OBVIOUS
<1>31. PICK fo \in Nat : fo = s.fileOffset
  <2>1. s.fileOffset \in Nat  BY StreamIs
  <2> QED  BY <2>1
<1>3. old = s.buffer /\ fo = s.fileOffset  BY <1>30, <1>31
<1>4. old \in Seq(Nat) /\ Len(old) = BufferSize  BY <1>3, StreamIs
<1>5. fo + BufferSize <= Len(j)
  <2>1. Len(a) \in Nat /\ Len(b) \in Nat  OBVIOUS
  <2>2. fo + BufferSize = Len(a) + moved  BY <1>3
  <2> QED  BY <1>2, <2>1, <2>2
<1>6. \A i \in 1..BufferSize : old[i] = j[fo + i]
  BY <1>1, <1>3 DEF InFlush
<1>7. IsPiece(old, j, fo)  BY <1>4, <1>5, <1>6 DEF IsPiece
<1> QED  BY <1>1, <1>3, <1>4, <1>7

LEMMA WritePiece ==
    ASSUME NEW fo \in Nat, NEW a \in Seq(Nat), NEW b \in Seq(Nat),
           NEW call \in Call, Direct(call), Wanted(call) = Len(b),
           fo = Len(a) + call.moved,
           NEW q, q = SubSeq(b, call.moved + 1, call.moved + BufferSize)
    PROVE  IsPiece(q, a \o b, fo) /\ Len(q) = BufferSize
<1>1. PICK j : j = a \o b  OBVIOUS
<1>2. PICK left \in Nat, moved \in Nat, n \in Nat, k \in Nat :
        left = call.left /\ moved = call.moved /\ n = Len(b) /\ k = Len(a)
  BY DEF Call
<1>3. /\ Len(j) = k + n
      /\ \A i \in 1..n : j[k + i] = b[i]
  <2>1. /\ j \in Seq(Nat) /\ Len(j) = Len(a) + Len(b)
        /\ \A i \in 1..Len(a) : j[i] = a[i]
        /\ \A i \in 1..Len(b) : j[Len(a) + i] = b[i]
    BY <1>1, ConcatIs
  <2> QED  BY <1>2, <2>1
<1>4. /\ left \in Nat /\ moved \in Nat /\ n \in Nat /\ k \in Nat
      /\ BufferSize \in Nat /\ n = moved + left /\ left >= BufferSize
      /\ fo = k + moved
  BY <1>2, BufferAssumption DEF Wanted, Direct
<1>5. PICK m \in Nat \ {0}, to \in Nat :
        m = moved + 1 /\ to = moved + BufferSize
  <2>1. moved + 1 \in Nat \ {0} /\ moved + BufferSize \in Nat  BY <1>4
  <2> QED  BY <2>1
<1>6. PICK w : w = q  OBVIOUS
<1>7. IsSlice(w, b, m, to)
  <2>1. to <= Len(b)
    <3>1. Len(b) = n  BY <1>2
    <3>2. to <= n  BY <1>4, <1>5
    <3> QED  BY <3>1, <3>2
  <2>2. IsSlice(SubSeq(b, m, to), b, m, to)  BY <2>1, SliceFound
  <2>3. w = SubSeq(b, m, to)  BY <1>2, <1>5, <1>6
  <2> QED  BY <2>2, <2>3
<1>8. /\ w \in Seq(Nat) /\ Len(w) = BufferSize
      /\ \A i \in 1..BufferSize : w[i] = b[m + i - 1]
  <2>1. (IF m <= to THEN to - m + 1 ELSE 0) = BufferSize  BY <1>4, <1>5
  <2> QED  BY <1>7, <2>1 DEF IsSlice
<1>9. \A i \in 1..BufferSize : w[i] = j[fo + i]
  <2> SUFFICES ASSUME NEW i \in 1..BufferSize  PROVE w[i] = j[fo + i]
    OBVIOUS
  <2>1. PICK e \in 1..n : e = moved + i
    <3>1. moved + i \in 1..n  BY <1>4
    <3> QED  BY <3>1
  <2>2. m + i - 1 = e /\ k + e = fo + i  BY <1>4, <1>5, <2>1
  <2>3. w[i] = b[e] /\ j[k + e] = b[e]  BY <1>3, <1>8, <2>1, <2>2
  <2> QED  BY <2>2, <2>3
<1>10. fo + BufferSize <= Len(j)  BY <1>3, <1>4
<1>11. IsPiece(w, j, fo)  BY <1>8, <1>9, <1>10 DEF IsPiece
<1> QED  BY <1>1, <1>6, <1>8, <1>11

LEMMA ClosePiece ==
    ASSUME NEW s \in StreamType, NEW a \in Seq(Nat), InTail(a, s)
    PROVE  /\ IsPiece(Unwritten(s), a, s.fileOffset)
           /\ s.fileOffset + Len(Unwritten(s)) = Len(a)
<1>1. PICK o \in Nat, fo \in Nat :
        o = s.bufferOffset /\ fo = s.fileOffset /\ o <= BufferSize
  BY StreamIs
<1>2. PICK old : old = s.buffer  OBVIOUS
<1>3. old \in Seq(Nat) /\ Len(old) = BufferSize  BY <1>2, StreamIs
<1>4. Len(a) = fo + o /\ \A i \in 1..o : old[i] = a[fo + i]
  BY <1>1, <1>2 DEF InTail
<1>5. PICK q : q = SubSeq(old, 1, o)  OBVIOUS
<1>6. q \in Seq(Nat) /\ Len(q) = o /\ \A i \in 1..o : q[i] = old[i]
  <2>1. o <= Len(old)  BY <1>1, <1>3
  <2> QED  BY <1>1, <1>3, <1>5, <2>1
<1>7. IsPiece(q, a, fo)  BY <1>1, <1>4, <1>6 DEF IsPiece
<1>8. Unwritten(s) = q  BY <1>1, <1>2, <1>5 DEF Unwritten
<1> QED  BY <1>1, <1>4, <1>6, <1>7, <1>8

LEMMA FrameIs ==
    ASSUME NEW f \in FrameType
    PROVE  /\ f.next \in Nat \ {0} /\ f.call \in Call
           /\ f.call.left \in Nat /\ f.call.moved \in Nat
           /\ f.failed \in BOOLEAN
           /\ f.pc \in {"new", "next", "read", "flush", "write", "close",
                        "done"}
           /\ f.awaits \in {"nothing", "direct", "refill", "flush", "write",
                            "schedule"}
BY DEF FrameType, Call

(***************************************************************************)
(* What a writer has written before and with its operation, by name.       *)
(***************************************************************************)
LEMMA WriterBytes ==
    ASSUME NEW p \in Seq(Operations("write")), NEW s, NEW f,
           FrameFits(p, "write", s, f)
    PROVE  /\ Before(p, f) \in Seq(Nat) /\ All(p, f) \in Seq(Nat)
           /\ InWrite(f) => /\ p[f.next].bytes \in Seq(Nat)
                            /\ All(p, f) = Before(p, f) \o p[f.next].bytes
           /\ ~ InWrite(f) => All(p, f) = Before(p, f)
<1>1. /\ f.next \in Nat \ {0} /\ f.next <= Len(p) + 1
      /\ InWrite(f) => f.next <= Len(p) /\ p[f.next].op = "write"
  BY FrameIs DEF FrameFits
<1>2. PICK n \in Nat \ {0} : n = f.next  BY <1>1
<1>3. n <= Len(p) + 1 /\ (InWrite(f) => n <= Len(p) /\ p[n].op = "write")
  BY <1>1, <1>2
<1>4. /\ Written(p)[n - 1] \in Seq(Nat)
      /\ n <= Len(p) =>
            /\ Written(p)[n] = Written(p)[n - 1] \o Added(p[n])
            /\ Written(p)[n] \in Seq(Nat)
  BY <1>3, WrittenTo
<1>5. InWrite(f) => Added(p[n]) = p[n].bytes  BY <1>3 DEF Added
<1>6. InWrite(f) => p[n].bytes \in Seq(Nat)  BY <1>3, OperationTyped
<1> QED  BY <1>2, <1>3, <1>4, <1>5, <1>6 DEF Before, All

(***************************************************************************)
(* The write is carried out.                                               *)
(***************************************************************************)
LEMMA WriterPiece ==
    ASSUME NEW p \in Seq(Operations("write")), NEW s \in StreamType, NEW f,
           FrameFits(p, "write", s, f), f.pc \in {"flush", "write", "close"},
           NEW old, NEW x, NEW landed,
           WriterOK(p, old, x, s, f, landed)
    PROVE  /\ IsPiece(BytesOf(p, s, f), All(p, f), s.fileOffset)
           /\ f.pc # "close" => Len(BytesOf(p, s, f)) = BufferSize
           /\ f.pc = "close" =>
                s.fileOffset + Len(BytesOf(p, s, f)) = Len(All(p, f))
<1>1. PICK a, all, b, fo :
        /\ a = Before(p, f) /\ all = All(p, f) /\ b = p[f.next].bytes
        /\ fo = s.fileOffset
  OBVIOUS
<1>2. /\ a \in Seq(Nat) /\ all \in Seq(Nat) /\ fo \in Nat
      /\ InWrite(f) => b \in Seq(Nat) /\ all = a \o b
      /\ ~ InWrite(f) => all = a
  BY <1>1, WriterBytes, StreamIs
<1>3. PICK call : call = f.call  OBVIOUS
<1>4. call \in Call /\ call.moved \in Nat /\ call.left \in Nat
  BY <1>3, FrameIs DEF FrameFits
<1>5. CASE f.pc = "flush"
  <2>1. InFlush(all, s) /\ fo + BufferSize = Len(a) + call.moved
    BY <1>1, <1>3, <1>5 DEF WriterOK
  <2>2. b \in Seq(Nat) /\ all = a \o b  BY <1>2, <1>5 DEF InWrite
  <2>3. call.moved <= Len(b)
    <3>1. Wanted(call) = Len(b)
      BY <1>1, <1>3, <1>5 DEF FrameFits, InWrite
    <3> QED  BY <1>4, <3>1 DEF Wanted
  <2>4. IsPiece(s.buffer, a \o b, s.fileOffset) /\ Len(s.buffer) = BufferSize
    <3>1. InFlush(a \o b, s)  BY <2>1, <2>2
    <3>2. PICK moved \in Nat : moved = call.moved  BY <1>4
    <3>3. moved <= Len(b) /\ s.fileOffset + BufferSize = Len(a) + moved
      BY <1>1, <2>1, <2>3, <3>2
    <3> QED  BY <1>2, <2>2, <3>1, <3>3, FlushPiece
  <2>5. BytesOf(p, s, f) = s.buffer  BY <1>5 DEF BytesOf
  <2> QED  BY <1>1, <1>5, <2>2, <2>4, <2>5
<1>6. CASE f.pc = "write"
  <2>1. b \in Seq(Nat) /\ all = a \o b  BY <1>2, <1>6 DEF InWrite
  <2>2. fo = Len(a) + call.moved /\ Direct(call) /\ Wanted(call) = Len(b)
    BY <1>1, <1>3, <1>6 DEF WriterOK, FrameFits, InWrite
  <2>3. PICK q : q = SubSeq(b, call.moved + 1, call.moved + BufferSize)
    OBVIOUS
  <2>4. IsPiece(q, a \o b, fo) /\ Len(q) = BufferSize
    <3>1. IsPiece(SubSeq(b, call.moved + 1, call.moved + BufferSize), a \o b,
                  fo)
          /\ Len(SubSeq(b, call.moved + 1, call.moved + BufferSize))
                = BufferSize
      <4>1. fo \in Nat /\ a \in Seq(Nat) /\ b \in Seq(Nat) /\ call \in Call
        BY <1>2, <1>4, <2>1
      <4> QED  BY <2>2, <4>1, WritePiece, ZenonT(30)
    <3> QED  BY <2>3, <3>1
  <2>5. BytesOf(p, s, f) = q  BY <1>1, <1>3, <1>6, <2>3 DEF BytesOf
  <2> QED  BY <1>1, <1>6, <2>1, <2>4, <2>5
<1>7. CASE f.pc = "close"
  <2>1. InTail(all, s)  BY <1>1, <1>7 DEF WriterOK
  <2>2. BytesOf(p, s, f) = Unwritten(s)  BY <1>7 DEF BytesOf
  <2>3. /\ IsPiece(Unwritten(s), all, s.fileOffset)
        /\ s.fileOffset + Len(Unwritten(s)) = Len(all)
    BY <1>2, <2>1, ClosePiece
  <2> QED  BY <1>1, <1>7, <2>2, <2>3
<1> QED  BY <1>5, <1>6, <1>7

LEMMA WriterLands ==
    ASSUME NEW p \in Seq(Operations("write")), NEW s \in StreamType, NEW f,
           FrameFits(p, "write", s, f), f.pc \in {"flush", "write", "close"},
           NEW old \in Seq(Nat), NEW x,
           NEW yet, ~ yet, NEW landed, landed,
           WriterOK(p, old, x, s, f, yet)
    PROVE  WriterOK(p, old, FileWritten(x, s.fileOffset, BytesOf(p, s, f)),
                    s, f, landed)
<1>2. PICK piece : piece = BytesOf(p, s, f)  OBVIOUS
<1>3. PICK every : every = All(p, f)  OBVIOUS
<1>4. PICK n \in Nat : n = s.fileOffset
  <2>1. s.fileOffset \in Nat  BY StreamIs
  <2> QED  BY <2>1
<1>5. IsPiece(piece, every, n)  BY <1>2, <1>3, <1>4, WriterPiece
<1>6. every \in Seq(Nat)  BY <1>3, WriterBytes
<1>7. FileHolds(every, old, x, n)
  <2>1. FileHolds(every, old, x, n + 0)
    BY <1>3, <1>4 DEF WriterOK
  <2>2. n + 0 = n  BY <1>4
  <2> QED  BY <2>1, <2>2
<1>8. FileHolds(every, old, FileWritten(x, n, piece), n + Len(piece))
  <2>1. /\ piece \in Seq(Nat) /\ n + Len(piece) <= Len(every)
        /\ \A i \in 1..Len(piece) : piece[i] = every[n + i]
    BY <1>5 DEF IsPiece
  <2>2. n \in Nat  BY <1>4
  <2> QED  BY <1>6, <1>7, <2>1, <2>2, HoldsWritten
<1> QED
  BY <1>2, <1>3, <1>4, <1>8 DEF WriterOK

(***************************************************************************)
(* Frames that differ only in what the bytes do not depend on.             *)
(***************************************************************************)
LEMMA WriterAwaits ==
    ASSUME NEW p, NEW old, NEW x, NEW s, NEW f, NEW g, NEW landed,
           g.pc = f.pc, g.next = f.next, g.call = f.call, g.failed = f.failed,
           WriterOK(p, old, x, s, f, landed)
    PROVE  WriterOK(p, old, x, s, g, landed)
<1>1. /\ BytesOf(p, s, g) = BytesOf(p, s, f)
      /\ All(p, g) = All(p, f) /\ Before(p, g) = Before(p, f)
  BY DEF BytesOf, All, Before, InWrite
<1> QED  BY <1>1 DEF WriterOK

LEMMA WriterMoves ==
    ASSUME NEW p, NEW old, NEW x, NEW s, NEW f, NEW g, NEW landed,
           f.pc \in {"new", "next", "close"}, g.pc \in {"new", "next", "close"},
           g.next = f.next, g.failed = f.failed,
           WriterOK(p, old, x, s, f, landed)
    PROVE  WriterOK(p, old, x, s, g, landed)
<1>1. All(p, g) = All(p, f)
  BY DEF All, Before, InWrite
<1>2. BytesOf(p, s, g) = BytesOf(p, s, f)
  BY DEF BytesOf
<1> QED  BY <1>1, <1>2 DEF WriterOK

LEMMA WriterDone ==
    ASSUME NEW p \in Seq(Operations("write")), NEW s \in StreamType, NEW f,
           FrameFits(p, "write", s, f), f.pc = "close",
           NEW old, NEW x, NEW landed, landed, NEW yet, ~ yet,
           WriterOK(p, old, x, s, f, landed),
           NEW g, g.pc = "done", g.next = f.next, g.failed = f.failed
    PROVE  WriterOK(p, old, x, s, g, yet)
<1>1. All(p, g) = All(p, f)
  BY DEF All, Before, InWrite
<1>2. s.fileOffset + Len(BytesOf(p, s, f)) = Len(All(p, f))
  BY WriterPiece
<1>3. FileHolds(All(p, g), old, x, Len(All(p, g)))
  BY <1>1, <1>2 DEF WriterOK
<1> QED  BY <1>3 DEF WriterOK

(***************************************************************************)
(* The end of a Write, and its steps.                                      *)
(***************************************************************************)
LEMMA WriterKeeps ==
    ASSUME NEW p \in Seq(Operations("write")), NEW s \in StreamType, NEW f,
           FrameFits(p, "write", s, f), f.pc = "next", f.next <= Len(p),
           p[f.next].op = "write", NEW bytes, bytes = p[f.next].bytes,
           FitsBuffer(s, bytes),
           NEW old, NEW x, NEW yet, ~ yet, WriterOK(p, old, x, s, f, yet),
           NEW g, g.pc = "next", g.next = f.next + 1, g.failed = f.failed,
           NEW t, t = Kept(s, bytes)
    PROVE  WriterOK(p, old, x, t, g, yet)
<1>1. PICK n \in Nat \ {0}, fo \in Nat, o \in Nat :
        n = f.next /\ fo = s.fileOffset /\ o = s.bufferOffset
  BY StreamIs, FrameIs DEF FrameFits
<1>2. PICK a, all : a = Written(p)[n - 1] /\ all = Written(p)[n]
  OBVIOUS
<1>3. bytes \in Seq(Nat) /\ Added(p[n]) = bytes
  <2>1. n <= Len(p) /\ p[n].op = "write" /\ bytes = p[n].bytes  BY <1>1
  <2>2. p[n].bytes \in Seq(Nat)  BY <2>1, OperationTyped
  <2> QED  BY <2>1, <2>2 DEF Added
<1>4. a \in Seq(Nat) /\ all = a \o bytes
  <2>1. n <= Len(p) /\ n <= Len(p) + 1  BY <1>1
  <2>2. /\ Written(p)[n - 1] \in Seq(Nat)
        /\ Written(p)[n] = Written(p)[n - 1] \o Added(p[n])
    BY <2>1, WrittenTo
  <2> QED  BY <1>2, <1>3, <2>2
<1>5. All(p, f) = a  BY <1>1, <1>2 DEF All, Before, InWrite
<1>6. All(p, g) = all
  <2>1. g.next - 1 = n  BY <1>1
  <2> QED  BY <1>2, <2>1 DEF All, Before, InWrite
<1>7. InTail(a, s) /\ FileHolds(a, old, x, fo)
  <2>1. InTail(a, s) /\ FileHolds(a, old, x, s.fileOffset + 0)
    BY <1>5 DEF WriterOK
  <2>2. s.fileOffset + 0 = fo  BY <1>1
  <2> QED  BY <2>1, <2>2
<1>8. InTail(all, t) /\ t.fileOffset = fo
  <2>1. s.bufferOffset + Len(bytes) <= BufferSize
    <3>1. BufferSize \in Nat /\ Len(bytes) \in Nat  BY <1>3, BufferAssumption
    <3>2. o + Len(bytes) < BufferSize  BY <1>1 DEF FitsBuffer
    <3> QED  BY <1>1, <3>1, <3>2
  <2>2. InTail(a \o bytes, t) /\ t.fileOffset = s.fileOffset
    BY <1>3, <1>4, <1>7, <2>1, KeptTail
  <2> QED  BY <1>1, <1>4, <2>2
<1>9. FileHolds(all, old, x, fo)
  BY <1>1, <1>3, <1>4, <1>7, HoldsMore
<1>10. FileHolds(All(p, g), old, x, t.fileOffset + 0)
  <2>1. t.fileOffset + 0 = fo  BY <1>1, <1>8
  <2> QED  BY <1>6, <1>9, <2>1
<1>11. ~ f.failed  BY DEF WriterOK
<1> QED  BY <1>6, <1>8, <1>10, <1>11 DEF WriterOK

LEMMA WriterFills ==
    ASSUME NEW p \in Seq(Operations("write")), NEW s \in StreamType, NEW f,
           FrameFits(p, "write", s, f), f.pc = "next", f.next <= Len(p),
           p[f.next].op = "write", NEW bytes, bytes = p[f.next].bytes,
           ~ FitsBuffer(s, bytes),
           NEW old, NEW x, NEW yet, ~ yet, WriterOK(p, old, x, s, f, yet),
           NEW call, call = WriteCall(s, bytes),
           NEW g, g.pc = "flush", g.next = f.next, g.failed = f.failed,
           g.call = call,
           NEW t, t = Filled(s, bytes)
    PROVE  WriterOK(p, old, x, t, g, yet)
<1>1. PICK n \in Nat \ {0}, fo \in Nat, o \in Nat :
        n = f.next /\ fo = s.fileOffset /\ o = s.bufferOffset
  BY StreamIs, FrameIs DEF FrameFits
<1>2. PICK a, all : a = Written(p)[n - 1] /\ all = Written(p)[n]
  OBVIOUS
<1>3. bytes \in Seq(Nat) /\ Added(p[n]) = bytes
  <2>1. n <= Len(p) /\ p[n].op = "write" /\ bytes = p[n].bytes  BY <1>1
  <2>2. p[n].bytes \in Seq(Nat)  BY <2>1, OperationTyped
  <2> QED  BY <2>1, <2>2 DEF Added
<1>4. a \in Seq(Nat) /\ all = a \o bytes
  <2>1. n <= Len(p) /\ n <= Len(p) + 1  BY <1>1
  <2>2. /\ Written(p)[n - 1] \in Seq(Nat)
        /\ Written(p)[n] = Written(p)[n - 1] \o Added(p[n])
    BY <2>1, WrittenTo
  <2> QED  BY <1>2, <1>3, <2>2
<1>5. All(p, f) = a  BY <1>1, <1>2 DEF All, Before, InWrite
<1>6. All(p, g) = all /\ Before(p, g) = a
  BY <1>1, <1>2 DEF All, Before, InWrite
<1>7. InTail(a, s) /\ FileHolds(a, old, x, fo)
  <2>1. InTail(a, s) /\ FileHolds(a, old, x, s.fileOffset + 0)
    BY <1>5 DEF WriterOK
  <2>2. s.fileOffset + 0 = fo  BY <1>1
  <2> QED  BY <2>1, <2>2
<1>8. /\ t \in StreamType /\ t.fileOffset = s.fileOffset
      /\ call \in Call /\ s.bufferOffset + call.moved = BufferSize
      /\ InFlush(a \o bytes, t)
  BY <1>3, <1>4, <1>7, FilledIs
<1>9. InFlush(all, t) /\ t.fileOffset = fo  BY <1>1, <1>4, <1>8
<1>10. fo + BufferSize = Len(a) + call.moved
  <2>1. PICK moved \in Nat : moved = call.moved  BY <1>8 DEF Call
  <2>2. o + moved = BufferSize  BY <1>1, <1>8, <2>1
  <2>3. Len(a) = fo + o  BY <1>1, <1>7 DEF InTail
  <2>4. fo + (o + moved) = (fo + o) + moved
    <3>1. fo \in Nat /\ o \in Nat /\ moved \in Nat  BY <1>1, <2>1
    <3> QED  BY <3>1
  <2> QED  BY <2>1, <2>2, <2>3, <2>4
<1>11. FileHolds(all, old, x, fo)
  BY <1>1, <1>3, <1>4, <1>7, HoldsMore
<1>12. FileHolds(All(p, g), old, x, t.fileOffset + 0)
  <2>1. t.fileOffset + 0 = fo  BY <1>1, <1>9
  <2> QED  BY <1>6, <1>11, <2>1
<1>13. ~ f.failed  BY DEF WriterOK
<1> QED  BY <1>6, <1>9, <1>10, <1>12, <1>13 DEF WriterOK

CallNow(f) ==
    IF f.pc = "flush" THEN f.call ELSE CallAfterWrite(f.call, BufferSize)

LEMMA CallContinues ==
    ASSUME NEW p, NEW access, NEW s, NEW f, FrameFits(p, access, s, f),
           f.pc \in {"flush", "write"}
    PROVE  /\ CallNow(f) \in Call
           /\ Wanted(CallNow(f)) = Len(p[f.next].bytes)
           /\ f.pc = "write" => CallNow(f).moved = f.call.moved + BufferSize
<1>1. PICK left \in Nat, moved \in Nat :
        left = f.call.left /\ moved = f.call.moved
  BY FrameIs DEF FrameFits
<1>10. PICK call : call = f.call  OBVIOUS
<1>2. call \in Call /\ Wanted(call) = Len(p[f.next].bytes)
  BY <1>10, FrameIs DEF FrameFits, InWrite
<1>3. CASE f.pc = "flush"
  BY <1>2, <1>3, <1>10 DEF CallNow
<1>4. CASE f.pc = "write"
  <2>1. left >= BufferSize /\ BufferSize \in Nat
    BY <1>1, <1>4, BufferAssumption DEF FrameFits, Direct
  <2>2. call = [left |-> left, moved |-> moved]
    BY <1>1, <1>2, <1>10 DEF Call
  <2>3. PICK t : t = [call EXCEPT !.left = @ - BufferSize]  OBVIOUS
  <2>4. t = [left |-> left - BufferSize, moved |-> moved]  BY <2>2, <2>3
  <2>5. CallAfterWrite(call, BufferSize) = [t EXCEPT !.moved = @ + BufferSize]
    BY <2>3 DEF CallAfterWrite
  <2>6. CallAfterWrite(call, BufferSize)
            = [left |-> left - BufferSize, moved |-> moved + BufferSize]
    BY <2>4, <2>5
  <2>7. CallNow(f) = [left |-> left - BufferSize, moved |-> moved + BufferSize]
    BY <1>4, <1>10, <2>6 DEF CallNow
  <2>8. /\ left - BufferSize \in Nat /\ moved + BufferSize \in Nat
        /\ (moved + BufferSize) + (left - BufferSize) = moved + left
    BY <1>1, <2>1
  <2>9. Wanted(call) = moved + left  BY <2>2 DEF Wanted
  <2>10. Wanted(CallNow(f)) = (moved + BufferSize) + (left - BufferSize)
    BY <2>7 DEF Wanted
  <2> QED  BY <1>1, <1>2, <2>7, <2>8, <2>9, <2>10 DEF Call
<1> QED  BY <1>3, <1>4

LEMMA WriterContinues ==
    ASSUME NEW p \in Seq(Operations("write")), NEW s \in StreamType, NEW f,
           FrameFits(p, "write", s, f), f.pc \in {"flush", "write"},
           NEW old, NEW x, NEW landed, landed, NEW yet, ~ yet,
           WriterOK(p, old, x, s, f, landed),
           NEW call, call = CallNow(f),
           NEW bytes, bytes = p[f.next].bytes,
           NEW g, g.failed = f.failed, NEW t,
           \/ /\ Direct(call) /\ g.pc = "write" /\ g.next = f.next
              /\ g.call = call /\ t = AfterWrite(s)
           \/ /\ ~ Direct(call) /\ g.pc = "next" /\ g.next = f.next + 1
              /\ t = Kept(AfterWrite(s), Rest(call, bytes))
    PROVE  WriterOK(p, old, x, t, g, yet)
<1>1. PICK n \in Nat \ {0}, fo \in Nat :
        n = f.next /\ fo = s.fileOffset
  BY StreamIs, FrameIs DEF FrameFits
<1>2. PICK a, all : a = Before(p, f) /\ all = All(p, f)
  OBVIOUS
<1>3. bytes \in Seq(Nat) /\ a \in Seq(Nat) /\ all = a \o bytes
  BY <1>2, WriterBytes DEF InWrite
<1>4. FileHolds(all, old, x, fo + BufferSize)
  <2>1. Len(BytesOf(p, s, f)) = BufferSize  BY WriterPiece
  <2>2. FileHolds(all, old, x, s.fileOffset + Len(BytesOf(p, s, f)))
    BY <1>2 DEF WriterOK
  <2> QED  BY <1>1, <2>1, <2>2
<1>5. fo + BufferSize = Len(a) + call.moved
  <2>1. CASE f.pc = "flush"
    BY <1>1, <1>2, <2>1 DEF WriterOK, CallNow
  <2>2. CASE f.pc = "write"
    <3>1. call.moved = f.call.moved + BufferSize  BY <2>2, CallContinues
    <3>2. fo = Len(a) + f.call.moved  BY <1>1, <1>2, <2>2 DEF WriterOK
    <3>3. f.call.moved \in Nat /\ Len(a) \in Nat /\ BufferSize \in Nat
      BY <1>3, FrameIs, BufferAssumption DEF FrameFits
    <3>4. PICK moved \in Nat, k \in Nat : moved = f.call.moved /\ k = Len(a)
      BY <3>3
    <3>5. (k + moved) + BufferSize = k + (moved + BufferSize)
      BY <3>3, <3>4
    <3> QED  BY <3>1, <3>2, <3>4, <3>5
  <2> QED  BY <2>1, <2>2
<1>6. PICK to \in Nat : to = fo + BufferSize
  <2>1. fo + BufferSize \in Nat  BY <1>1, BufferAssumption
  <2> QED  BY <2>1
<1>7. ~ g.failed  BY DEF WriterOK
<1>8. CASE /\ Direct(call) /\ g.pc = "write" /\ g.next = f.next
           /\ g.call = call /\ t = AfterWrite(s)
  <2>1. t.fileOffset = to  BY <1>1, <1>6, <1>8, AfterWriteIs
  <2>2. All(p, g) = all /\ Before(p, g) = a
    BY <1>2, <1>8 DEF All, Before, InWrite
  <2>3. FileHolds(All(p, g), old, x, t.fileOffset + 0)
    <3>1. t.fileOffset + 0 = fo + BufferSize  BY <1>6, <2>1
    <3> QED  BY <1>4, <2>2, <3>1
  <2>4. t.fileOffset = Len(a) + g.call.moved  BY <1>5, <1>6, <1>8, <2>1
  <2> QED  BY <1>7, <1>8, <2>2, <2>3, <2>4 DEF WriterOK
<1>9. CASE /\ ~ Direct(call) /\ g.pc = "next" /\ g.next = f.next + 1
           /\ t = Kept(AfterWrite(s), Rest(call, bytes))
  <2>1. call \in Call /\ Wanted(call) = Len(bytes)  BY CallContinues
  <2>2. s.bufferOffset = 0  BY DEF FrameFits, InWrite
  <2>3. /\ t.fileOffset = s.fileOffset + BufferSize
        /\ InTail(a \o bytes, t)
    <3>1. /\ t.fileOffset = s.fileOffset + BufferSize
          /\ \A b : b \in Seq(Nat)
                /\ s.fileOffset + BufferSize = Len(b) + call.moved
                => InTail(b \o bytes, t)
      BY <1>3, <1>9, <2>1, <2>2, RestKept
    <3> QED  BY <1>1, <1>3, <1>5, <3>1
  <2>4. All(p, g) = all
    <3>1. g.next - 1 = f.next  BY <1>1, <1>9
    <3> QED  BY <1>2, <1>9, <3>1 DEF All, Before, InWrite
  <2>5. FileHolds(All(p, g), old, x, t.fileOffset + 0)
    <3>1. t.fileOffset + 0 = fo + BufferSize  BY <1>1, <1>6, <2>3
    <3> QED  BY <1>4, <2>4, <3>1
  <2> QED  BY <1>3, <1>7, <1>9, <2>3, <2>4, <2>5 DEF WriterOK
<1> QED  BY <1>8, <1>9

(***************************************************************************)
(* The frame of a coroutine, by its members.                               *)
(***************************************************************************)
FrameOf(pc, n, awaited, call, failed) ==
    [pc |-> pc, next |-> n, awaits |-> awaited, call |-> call,
     failed |-> failed]

IsFrame(g, pc, n, awaited, call, failed) ==
    /\ g \in FrameType
    /\ g.pc = pc /\ g.next = n /\ g.awaits = awaited /\ g.call = call
    /\ g.failed = failed

LEMMA FrameMade ==
    ASSUME NEW pc \in {"new", "next", "read", "flush", "write", "close",
                       "done"},
           NEW n \in Nat \ {0},
           NEW awaited \in {"nothing", "direct", "refill", "flush", "write",
                            "schedule"},
           NEW call \in Call, NEW failed \in BOOLEAN
    PROVE  IsFrame(FrameOf(pc, n, awaited, call, failed),
                   pc, n, awaited, call, failed)
BY DEF IsFrame, FrameOf, FrameType

LEMMA FrameFound ==
    ASSUME NEW f \in FrameType
    PROVE  f = FrameOf(f.pc, f.next, f.awaits, f.call, f.failed)
BY DEF FrameOf, FrameType

LEMMA FrameAwaits ==
    ASSUME NEW f \in FrameType,
           NEW awaited \in {"nothing", "direct", "refill", "flush", "write",
                            "schedule"},
           NEW g, g = [f EXCEPT !.awaits = awaited]
    PROVE  IsFrame(g, f.pc, f.next, awaited, f.call, f.failed)
BY DEF IsFrame, FrameType

LEMMA FramePlaced ==
    ASSUME NEW f \in FrameType,
           NEW pc \in {"new", "next", "read", "flush", "write", "close",
                       "done"},
           NEW g, g = [f EXCEPT !.pc = pc]
    PROVE  IsFrame(g, pc, f.next, f.awaits, f.call, f.failed)
BY DEF IsFrame, FrameType

LEMMA FrameReaches ==
    ASSUME NEW f \in FrameType,
           NEW pc \in {"new", "next", "read", "flush", "write", "close",
                       "done"},
           NEW call \in Call,
           NEW g, g = [f EXCEPT !.pc = pc, !.awaits = "nothing", !.call = call]
    PROVE  IsFrame(g, pc, f.next, "nothing", call, f.failed)
<1>1. PICK u : u = [f EXCEPT !.pc = pc]  OBVIOUS
<1>2. PICK v : v = [u EXCEPT !.awaits = "nothing"]  OBVIOUS
<1>3. g = [v EXCEPT !.call = call]  BY <1>1, <1>2
<1>4. u \in FrameType /\ IsFrame(u, pc, f.next, f.awaits, f.call, f.failed)
  BY <1>1, FramePlaced DEF IsFrame
<1>5. v \in FrameType /\ IsFrame(v, pc, f.next, "nothing", f.call, f.failed)
  <2>1. v \in FrameType
        /\ IsFrame(v, u.pc, u.next, "nothing", u.call, u.failed)
    BY <1>2, <1>4, FrameAwaits DEF IsFrame
  <2> QED  BY <1>4, <2>1 DEF IsFrame
<1>6. IsFrame(g, v.pc, v.next, v.awaits, call, v.failed)
  BY <1>3, <1>5 DEF IsFrame, FrameType
<1> QED  BY <1>5, <1>6 DEF IsFrame

LEMMA FrameReturns ==
    ASSUME NEW f \in FrameType,
           NEW g, g = [f EXCEPT !.pc = "next", !.awaits = "nothing",
                                !.next = @ + 1]
    PROVE  IsFrame(g, "next", f.next + 1, "nothing", f.call, f.failed)
<1>1. PICK u : u = [f EXCEPT !.pc = "next"]  OBVIOUS
<1>2. PICK v : v = [u EXCEPT !.awaits = "nothing"]  OBVIOUS
<1>3. g = [v EXCEPT !.next = @ + 1]  BY <1>1, <1>2
<1>4. u \in FrameType /\ IsFrame(u, "next", f.next, f.awaits, f.call, f.failed)
  BY <1>1, FramePlaced DEF IsFrame
<1>5. v \in FrameType
      /\ IsFrame(v, "next", f.next, "nothing", f.call, f.failed)
  <2>1. v \in FrameType
        /\ IsFrame(v, u.pc, u.next, "nothing", u.call, u.failed)
    BY <1>2, <1>4, FrameAwaits DEF IsFrame
  <2> QED  BY <1>4, <2>1 DEF IsFrame
<1>6. IsFrame(g, v.pc, v.next + 1, v.awaits, v.call, v.failed)
  BY <1>3, <1>5 DEF IsFrame, FrameType
<1> QED  BY <1>5, <1>6 DEF IsFrame

LEMMA FrameFails ==
    ASSUME NEW f \in FrameType,
           NEW g, g = [f EXCEPT !.pc = "close", !.awaits = "nothing",
                                !.failed = TRUE]
    PROVE  IsFrame(g, "close", f.next, "nothing", f.call, TRUE)
<1>1. PICK u : u = [f EXCEPT !.pc = "close"]  OBVIOUS
<1>2. PICK v : v = [u EXCEPT !.awaits = "nothing"]  OBVIOUS
<1>3. g = [v EXCEPT !.failed = TRUE]  BY <1>1, <1>2
<1>4. u \in FrameType
      /\ IsFrame(u, "close", f.next, f.awaits, f.call, f.failed)
  BY <1>1, FramePlaced DEF IsFrame
<1>5. v \in FrameType
      /\ IsFrame(v, "close", f.next, "nothing", f.call, f.failed)
  <2>1. v \in FrameType
        /\ IsFrame(v, u.pc, u.next, "nothing", u.call, u.failed)
    BY <1>2, <1>4, FrameAwaits DEF IsFrame
  <2> QED  BY <1>4, <2>1 DEF IsFrame
<1>6. IsFrame(g, v.pc, v.next, v.awaits, v.call, TRUE)
  BY <1>3, <1>5 DEF IsFrame, FrameType
<1> QED  BY <1>5, <1>6 DEF IsFrame

-----------------------------------------------------------------------------
(***************************************************************************)
(* What one coroutine has: its program p and access, the file as it was    *)
(* opened and as it is (old, x), whether its device has failed, the        *)
(* stream, the frame, the memory and the operation the kernel has.         *)
(***************************************************************************)
Landed(f, req) ==
    req = NoRequest /\ (f.pc = "close" \/ f.awaits \in {"flush", "write"})

Asking(access, f) ==
    \/ f.pc = "close" /\ access = "write"
    \/ f.pc = "read" /\ f.awaits \in {"direct", "refill"}
    \/ InWrite(f) /\ f.awaits = f.pc

RequestOf(p, s, f) ==
    IF f.pc = "read" THEN [kind |-> f.awaits, offset |-> s.fileOffset]
    ELSE [kind |-> IF f.pc = "close" THEN "close" ELSE "write",
          offset |-> s.fileOffset, bytes |-> BytesOf(p, s, f)]

Own(p, access, old, bad, x, s, f, m, req) ==
    /\ FrameFits(p, access, s, f)
    /\ s \in StreamType /\ m \in Seq(Nat) /\ x \in Seq(Nat)
    /\ req # NoRequest => Asking(access, f) /\ req = RequestOf(p, s, f)
    /\ access = "read" => x = old /\ ReaderOK(x, s, f, m)
    /\ access = "write" /\ ~ bad =>
            WriterOK(p, old, x, s, f, Landed(f, req))
    /\ access = "write" /\ f.failed => bad

(***************************************************************************)
(* What it is told of the operation it awaits: r is one of its completion, *)
(* or what its thread has taken from that.                                 *)
(***************************************************************************)
Told(x, s, f, m, bad, r) ==
    \/ r.error /\ bad
    \/ /\ f.awaits \in {"direct", "refill"} =>
            ReadAnswer(x, s, f.awaits, f.call, m, r)
       /\ f.awaits \in {"flush", "write"} =>
            ~ r.error /\ r.transferred = BufferSize

Settled(p, access) ==
    access \in {"read", "write"} /\ p \in Seq(Operations(access))

(***************************************************************************)
(* The coroutine asks for an operation, or the destructor of its stream.   *)
(***************************************************************************)
LEMMA OwnAwaits ==
    ASSUME NEW access, NEW p, NEW old, NEW bad, NEW x,
           NEW s, NEW f, NEW m, Own(p, access, old, bad, x, s, f, m, NoRequest),
           f.awaits = "nothing",
           NEW awaited, NEW g,
           IsFrame(g, f.pc, f.next, awaited, f.call, f.failed),
           \/ /\ f.pc = "read"
              /\ awaited = IF Direct(f.call) THEN "direct" ELSE "refill"
           \/ f.pc \in {"flush", "write"} /\ awaited = f.pc,
           NEW req, req = RequestOf(p, s, g)
    PROVE  Own(p, access, old, bad, x, s, g, m, req) /\ req # NoRequest
<1>1. req # NoRequest
  <2>1. req.kind # "none"
    BY DEF RequestOf, IsFrame
  <2> QED  BY <2>1 DEF NoRequest
<1>2. FrameFits(p, access, s, g) /\ Asking(access, g)
  BY DEF Own, FrameFits, IsFrame, Asking, InWrite
<1>3. access = "read" => ReaderOK(x, s, g, m)
  BY DEF Own, ReaderOK, IsFrame
<1>4. ASSUME access = "write" /\ ~ bad
      PROVE  WriterOK(p, old, x, s, g, Landed(g, req))
  <2>1. ~ Landed(f, NoRequest) /\ ~ Landed(g, req)
    BY <1>1 DEF Landed
  <2>2. WriterOK(p, old, x, s, f, Landed(f, NoRequest))
    BY <1>4 DEF Own
  <2>3. Landed(f, NoRequest) = Landed(g, req)
    BY <2>1 DEF Landed
  <2>4. WriterOK(p, old, x, s, f, Landed(g, req))
    BY <2>2, <2>3
  <2> QED  BY <2>4, WriterAwaits DEF IsFrame
<1> QED  BY <1>1, <1>2, <1>3, <1>4 DEF Own, IsFrame

LEMMA OwnCloses ==
    ASSUME NEW p, NEW old, NEW bad, NEW x,
           NEW s, NEW f, NEW m,
           Own(p, "write", old, bad, x, s, f, m, NoRequest),
           f.awaits = "nothing",
           \/ f.pc = "next" /\ f.next > Len(p)
           \/ f.pc = "close" /\ f.failed,
           NEW g, IsFrame(g, "close", f.next, "nothing", f.call, f.failed),
           NEW req, req = RequestOf(p, s, g)
    PROVE  Own(p, "write", old, bad, x, s, g, m, req) /\ req # NoRequest
<1>1. req # NoRequest
  <2>1. req.kind = "close"
    BY DEF RequestOf, IsFrame
  <2> QED  BY <2>1 DEF NoRequest
<1>2. FrameFits(p, "write", s, g) /\ Asking("write", g)
  <2>1. f.failed \/ f.next = Len(p) + 1
    BY DEF Own, FrameFits, FrameType
  <2> QED  BY <2>1 DEF Own, FrameFits, IsFrame, Asking, InWrite
<1>4. ASSUME ~ bad
      PROVE  WriterOK(p, old, x, s, g, Landed(g, req))
  <2>0. f.pc = "next"  BY <1>4 DEF Own
  <2>1. Landed(f, NoRequest) = Landed(g, req)
    BY <1>1, <2>0 DEF Landed
  <2>2. WriterOK(p, old, x, s, f, Landed(g, req))
    BY <1>4, <2>1 DEF Own
  <2>3. WriterOK(p, old, x, s, g, Landed(g, req))
    <3>1. /\ f.pc \in {"new", "next", "close"}
          /\ g.pc \in {"new", "next", "close"}
          /\ g.next = f.next /\ g.failed = f.failed
      BY <2>0 DEF IsFrame
    <3> QED  BY <2>2, <3>1, WriterMoves
  <2> QED  BY <2>3
<1> QED  BY <1>1, <1>2, <1>4 DEF Own, IsFrame

(***************************************************************************)
(* What a writer asks for has the length of the buffer, or of what is in   *)
(* it, whether its device has failed or not.                               *)
(***************************************************************************)
LEMMA BytesTyped ==
    ASSUME NEW p \in Seq(Operations("write")), NEW s \in StreamType, NEW f,
           FrameFits(p, "write", s, f), f.pc \in {"flush", "write", "close"}
    PROVE  /\ BytesOf(p, s, f) \in Seq(Nat)
           /\ Len(BytesOf(p, s, f)) \in 0..BufferSize
           /\ f.pc # "close" => Len(BytesOf(p, s, f)) = BufferSize
<1>0. BufferSize \in Nat  BY BufferAssumption
<1>10. PICK b : b = s.buffer  OBVIOUS
<1>11. PICK o \in Nat : o = s.bufferOffset
  <2>1. s.bufferOffset \in Nat  BY StreamIs
  <2> QED  BY <2>1
<1>1. b = s.buffer /\ o = s.bufferOffset  BY <1>10, <1>11
<1>2. b \in Seq(Nat) /\ Len(b) = BufferSize /\ o \in Nat /\ o <= BufferSize
  BY <1>1, <1>11, StreamIs
<1>3. CASE f.pc = "flush"
  BY <1>0, <1>1, <1>2, <1>3 DEF BytesOf
<1>4. CASE f.pc = "close"
  <2>1. BytesOf(p, s, f) = SubSeq(b, 1, o)
    BY <1>1, <1>4 DEF BytesOf, Unwritten
  <2>2. SubSeq(b, 1, o) \in Seq(Nat) /\ Len(SubSeq(b, 1, o)) = o
    BY <1>0, <1>2
  <2> QED  BY <1>0, <1>2, <1>4, <2>1, <2>2
<1>5. CASE f.pc = "write"
  <2>12. PICK n \in Nat \ {0} : n = f.next
    BY FrameIs DEF FrameFits
  <2>13. PICK w : w = p[n].bytes  OBVIOUS
  <2>1. w = p[n].bytes /\ n = f.next  BY <2>12, <2>13
  <2>2. n <= Len(p) /\ p[n].op = "write"
    BY <1>5, <2>1 DEF FrameFits, InWrite
  <2>3. w \in Seq(Nat)  BY <2>1, <2>2, OperationTyped
  <2>4. PICK left \in Nat, moved \in Nat, size \in Nat :
            left = f.call.left /\ moved = f.call.moved /\ size = Len(w)
    <3>1. f.call.left \in Nat /\ f.call.moved \in Nat /\ Len(w) \in Nat
      BY <2>3, FrameIs DEF FrameFits
    <3> QED  BY <3>1
  <2>5. size = moved + left /\ left >= BufferSize
    BY <1>5, <2>1, <2>4 DEF FrameFits, InWrite, Wanted, Direct
  <2>6. PICK m \in Nat \ {0}, to \in Nat :
            m = moved + 1 /\ to = moved + BufferSize
    <3>1. moved + 1 \in Nat \ {0} /\ moved + BufferSize \in Nat
      BY <1>0, <2>4
    <3> QED  BY <3>1
  <2>7. to <= size /\ (IF m <= to THEN to - m + 1 ELSE 0) = BufferSize
    <3>1. left \in Nat /\ moved \in Nat /\ size \in Nat  BY <2>4
    <3> QED  BY <1>0, <2>5, <2>6, <3>1
  <2>8. to <= Len(w)  BY <2>4, <2>7
  <2>9. IsSlice(SubSeq(w, m, to), w, m, to)
    BY <2>3, <2>6, <2>8, SliceFound
  <2>10. BytesOf(p, s, f) = SubSeq(w, m, to)
    BY <1>5, <2>1, <2>4, <2>6 DEF BytesOf
  <2>11. BytesOf(p, s, f) \in Seq(Nat) /\ Len(BytesOf(p, s, f)) = BufferSize
    BY <2>7, <2>9, <2>10 DEF IsSlice
  <2> QED  BY <1>0, <2>11
<1> QED  BY <1>3, <1>4, <1>5

(***************************************************************************)
(* The bytes of a file that arrive in a reader's memory or buffer.         *)
(***************************************************************************)
Arrived(s, f, m, b, t, n) ==
    /\ t = (IF f.awaits = "refill" THEN RefilledOf(s, b) ELSE s)
    /\ n = (IF f.awaits = "direct" THEN SubSeq(m, 1, f.call.moved) \o b ELSE m)

HasArrived(p, access, x, s, f, b, t, n) ==
    /\ t \in StreamType /\ n \in Seq(Nat)
    /\ FrameFits(p, access, t, f) /\ ReaderOK(x, t, f, n)
    /\ t.fileOffset = s.fileOffset
    /\ f.awaits = "direct" =>
        /\ Len(n) = f.call.moved + Len(b)
        /\ \A i \in 1..Len(b) : n[f.call.moved + i] = b[i]
    /\ f.awaits = "refill" => \A i \in 1..Len(b) : t.buffer[i] = b[i]

LEMMA ReadArrives ==
    ASSUME NEW access, NEW p, NEW x \in Seq(Nat), NEW s \in StreamType, NEW f,
           NEW m \in Seq(Nat), FrameFits(p, access, s, f), ReaderOK(x, s, f, m),
           f.pc = "read", f.awaits \in {"direct", "refill"},
           NEW b \in Seq(Nat), Len(b) <= BufferSize,
           NEW t, NEW n, Arrived(s, f, m, b, t, n)
    PROVE  HasArrived(p, access, x, s, f, b, t, n)
<1>1. PICK call \in Call : call = f.call
  BY FrameIs DEF FrameFits
<1>2. Buffered(x, s) /\ Fetched(x, s, call, m) /\ s.bufferCount = 0
  BY <1>1 DEF ReaderOK, FrameFits
<1>3. CASE f.awaits = "direct"
  <2>1. t = s  BY <1>3 DEF Arrived
  <2>2. n = SubSeq(m, 1, call.moved) \o b  BY <1>1, <1>3 DEF Arrived
  <2>3. /\ n \in Seq(Nat) /\ Len(n) = call.moved + Len(b)
        /\ \A i \in 1..Len(b) : n[call.moved + i] = b[i]
        /\ Fetched(x, s, call, n)
    <3>1. /\ SubSeq(m, 1, call.moved) \o b \in Seq(Nat)
          /\ Len(SubSeq(m, 1, call.moved) \o b) = call.moved + Len(b)
          /\ \A i \in 1..Len(b) :
                (SubSeq(m, 1, call.moved) \o b)[call.moved + i] = b[i]
          /\ Fetched(x, s, call, SubSeq(m, 1, call.moved) \o b)
      BY <1>2, FetchedJoined
    <3> QED  BY <2>2, <3>1
  <2>4. ReaderOK(x, t, f, n)  BY <1>1, <1>2, <2>1, <2>3 DEF ReaderOK
  <2> QED  BY <1>1, <1>3, <2>1, <2>3, <2>4 DEF HasArrived
<1>4. CASE f.awaits = "refill"
  <2>0. PICK u : u = RefilledOf(s, b)  OBVIOUS
  <2>1. n = m /\ t = u  BY <1>4, <2>0 DEF Arrived
  <2>2. /\ t \in StreamType
        /\ t.bufferCount = s.bufferCount /\ t.bufferOffset = s.bufferOffset
        /\ t.fileOffset = s.fileOffset
        /\ \A i \in 1..Len(b) : t.buffer[i] = b[i]
    <3>1. /\ u \in StreamType
          /\ u.bufferCount = s.bufferCount /\ u.bufferOffset = s.bufferOffset
          /\ u.fileOffset = s.fileOffset
          /\ \A i \in 1..Len(b) : u.buffer[i] = b[i]
      BY <2>0, RefilledIs
    <3> QED  BY <2>1, <3>1
  <2>3. s.bufferOffset \in Nat /\ s.fileOffset \in Nat  BY StreamIs
  <2>4. Buffered(x, t)
    BY <1>2, <2>2, <2>3 DEF Buffered
  <2>5. Fetched(x, t, call, m)
    BY <1>2, <2>2 DEF Fetched
  <2>6. ReaderOK(x, t, f, n)  BY <1>1, <2>1, <2>4, <2>5 DEF ReaderOK
  <2>7. FrameFits(p, access, t, f)  BY <2>2 DEF FrameFits
  <2> QED  BY <1>4, <2>1, <2>2, <2>6, <2>7 DEF HasArrived
<1> QED  BY <1>3, <1>4

(***************************************************************************)
(* The kernel carries an operation out.                                    *)
(***************************************************************************)
IsOutcome(x, req, o) ==
    \/ o.fault /\ o.error /\ o.bytes = <<>>
    \/ /\ ~ o.fault
       /\ IF IsRead(req)
          THEN /\ o.bytes = FileRead(x, req.offset, BufferSize)
               /\ o.error <=> Len(o.bytes) = 0
          ELSE ~ o.error /\ o.bytes = req.bytes

FileAfter(x, req, o) ==
    IF IsRead(req) \/ o.error THEN x
    ELSE FileWritten(x, req.offset, o.bytes)

StreamAfter(s, req, o) ==
    IF req.kind = "refill" THEN RefilledOf(s, o.bytes) ELSE s

MemoryAfter(m, f, req, o) ==
    IF req.kind = "direct" THEN SubSeq(m, 1, f.call.moved) \o o.bytes ELSE m

CarriedOut(p, access, old, bad, x, s, f, m, req, o, worse, y, t, n) ==
    /\ Own(p, access, old, worse, y, t, f, n, NoRequest)
    /\ o.bytes \in Seq(Nat) /\ Len(o.bytes) \in 0..BufferSize
    /\ \A r : r.error = o.error /\ r.transferred = Len(o.bytes)
                => Told(y, t, f, n, worse, r)

LEMMA ReadCarried ==
    ASSUME NEW access, NEW p, Settled(p, access), NEW old, NEW bad, NEW x,
           NEW s, NEW f, NEW m, NEW req, req # NoRequest,
           Own(p, access, old, bad, x, s, f, m, req), f.pc = "read",
           NEW o, IsOutcome(x, req, o),
           NEW worse, worse <=> bad \/ o.fault,
           NEW y, y = FileAfter(x, req, o),
           NEW t, t = StreamAfter(s, req, o),
           NEW n, n = MemoryAfter(m, f, req, o)
    PROVE  CarriedOut(p, access, old, bad, x, s, f, m, req, o, worse, y, t, n)
<1>0. BufferSize \in Nat  BY BufferAssumption
<1>1. /\ f.awaits \in {"direct", "refill"} /\ access = "read" /\ x = old
      /\ req.kind = f.awaits /\ req.offset = s.fileOffset
      /\ ReaderOK(x, s, f, m) /\ FrameFits(p, access, s, f)
      /\ s \in StreamType /\ m \in Seq(Nat) /\ x \in Seq(Nat)
  BY DEF Own, Asking, InWrite, RequestOf, FrameFits
<1>2. IsRead(req) /\ y = x  BY <1>1 DEF IsRead, FileAfter
<1>3. PICK b : b = o.bytes  OBVIOUS
<1>4. PICK fo \in Nat : fo = s.fileOffset
  <2>1. s.fileOffset \in Nat  BY <1>1, StreamIs
  <2> QED  BY <2>1
<1>5. b \in Seq(Nat) /\ Len(b) <= BufferSize /\ Len(b) \in 0..BufferSize
  <2>1. CASE b = <<>>
    BY <1>0, <2>1
  <2>2. CASE b = FileRead(x, fo, BufferSize)
    <3>1. /\ FileRead(x, fo, BufferSize) \in Seq(Nat)
          /\ Len(FileRead(x, fo, BufferSize)) \in 0..BufferSize
      BY <1>0, <1>1, <1>4, FileReadIs
    <3>2. b \in Seq(Nat) /\ Len(b) \in 0..BufferSize  BY <2>2, <3>1
    <3> QED  BY <1>0, <3>2
  <2> QED  BY <1>1, <1>2, <1>3, <1>4, <2>1, <2>2 DEF IsOutcome
<1>6. /\ t = IF f.awaits = "refill" THEN RefilledOf(s, b) ELSE s
      /\ n = IF f.awaits = "direct" THEN SubSeq(m, 1, f.call.moved) \o b
             ELSE m
  BY <1>1, <1>3 DEF StreamAfter, MemoryAfter
<1>7. /\ t \in StreamType /\ n \in Seq(Nat)
      /\ FrameFits(p, access, t, f) /\ ReaderOK(x, t, f, n)
      /\ t.fileOffset = s.fileOffset
      /\ f.awaits = "direct" =>
            /\ Len(n) = f.call.moved + Len(b)
            /\ \A i \in 1..Len(b) : n[f.call.moved + i] = b[i]
      /\ f.awaits = "refill" => \A i \in 1..Len(b) : t.buffer[i] = b[i]
  <2>1. Arrived(s, f, m, b, t, n)  BY <1>6 DEF Arrived
  <2>2. f.pc = "read" /\ x \in Seq(Nat) /\ s \in StreamType
        /\ m \in Seq(Nat) /\ f.awaits \in {"direct", "refill"}
        /\ FrameFits(p, access, s, f) /\ ReaderOK(x, s, f, m)
    BY <1>1
  <2>3. HasArrived(p, access, x, s, f, b, t, n)
    BY <1>5, <2>1, <2>2, ReadArrives
  <2> QED  BY <2>3 DEF HasArrived
<1>8. Own(p, access, old, worse, y, t, f, n, NoRequest)
  BY <1>1, <1>2, <1>7 DEF Own
<1>9. ASSUME NEW r, r.error = o.error, r.transferred = Len(b)
      PROVE  Told(y, t, f, n, worse, r)
  <2>1. CASE o.fault /\ o.error
    BY <1>9, <2>1 DEF Told
  <2>2. CASE ~ o.fault
    <3>1. b = FileRead(x, t.fileOffset, BufferSize) /\ (o.error <=> Len(b) = 0)
      BY <1>1, <1>2, <1>3, <1>7, <2>2 DEF IsOutcome
    <3>2. PICK call : call = f.call  OBVIOUS
    <3>3. ReadAnswer(x, t, f.awaits, call, n, r)
      BY <1>7, <1>9, <3>1, <3>2 DEF ReadAnswer
    <3> QED  BY <1>1, <1>2, <3>2, <3>3 DEF Told
  <2> QED  BY <2>1, <2>2 DEF IsOutcome
<1> QED  BY <1>3, <1>5, <1>8, <1>9 DEF CarriedOut

LEMMA WriteCarried ==
    ASSUME NEW access, NEW p, Settled(p, access), NEW old \in Seq(Nat),
           NEW bad, NEW x,
           NEW s, NEW f, NEW m, NEW req, req # NoRequest,
           Own(p, access, old, bad, x, s, f, m, req), f.pc # "read",
           NEW o, IsOutcome(x, req, o),
           NEW worse, worse <=> bad \/ o.fault,
           NEW y, y = FileAfter(x, req, o),
           NEW t, t = StreamAfter(s, req, o),
           NEW n, n = MemoryAfter(m, f, req, o)
    PROVE  CarriedOut(p, access, old, bad, x, s, f, m, req, o, worse, y, t, n)
<1>0. BufferSize \in Nat  BY BufferAssumption
<1>10. PICK piece : piece = BytesOf(p, s, f)  OBVIOUS
<1>1. /\ f.pc \in {"flush", "write", "close"}
      /\ f.pc # "close" => f.awaits \in {"flush", "write"}
      /\ access = "write"
      /\ req.kind \in {"write", "close"} /\ req.offset = s.fileOffset
      /\ req.bytes = piece /\ FrameFits(p, access, s, f)
      /\ s \in StreamType /\ m \in Seq(Nat) /\ x \in Seq(Nat)
  BY <1>10 DEF Own, Asking, InWrite, RequestOf, FrameFits
<1>2. ~ IsRead(req) /\ t = s /\ n = m
  BY <1>1 DEF IsRead, StreamAfter, MemoryAfter
<1>3. p \in Seq(Operations("write"))  BY <1>1 DEF Settled
<1>4. /\ piece \in Seq(Nat) /\ Len(piece) \in 0..BufferSize
      /\ f.pc # "close" => Len(piece) = BufferSize
  BY <1>1, <1>3, <1>10, BytesTyped
<1>40. PICK fo \in Nat : fo = s.fileOffset
  <2>1. s.fileOffset \in Nat  BY <1>1, StreamIs
  <2> QED  BY <2>1
<1>5. PICK b : b = o.bytes  OBVIOUS
<1>6. CASE o.fault /\ o.error /\ b = <<>>
  <2>1. y = x /\ worse  BY <1>6 DEF FileAfter
  <2>2. b \in Seq(Nat) /\ Len(b) \in 0..BufferSize  BY <1>0, <1>6
  <2>3. Own(p, access, old, worse, y, t, f, n, NoRequest)
    BY <1>1, <1>2, <2>1 DEF Own
  <2>4. \A r : r.error = o.error => Told(y, t, f, n, worse, r)
    BY <1>6, <2>1 DEF Told
  <2> QED  BY <1>5, <2>2, <2>3, <2>4 DEF CarriedOut
<1>7. CASE ~ o.fault /\ ~ o.error /\ b = piece
  <2>1. y = FileWritten(x, fo, piece)
    BY <1>1, <1>2, <1>5, <1>7, <1>40 DEF FileAfter
  <2>2. y \in Seq(Nat)
    <3>1. IsGrown(FileWritten(x, fo, piece), x, fo, piece)
      BY <1>1, <1>4, FileWrittenIs
    <3> QED  BY <2>1, <3>1 DEF IsGrown
  <2>3. ASSUME ~ worse
        PROVE  WriterOK(p, old, y, s, f, Landed(f, NoRequest))
    <3>1. Landed(f, NoRequest) /\ ~ Landed(f, req)
      BY <1>1 DEF Landed
    <3>2. WriterOK(p, old, x, s, f, Landed(f, req))
      BY <1>1, <1>7, <2>3 DEF Own
    <3>3. PICK yet, landed :
            yet = Landed(f, req) /\ landed = Landed(f, NoRequest)
      OBVIOUS
    <3>4. ~ yet /\ landed /\ WriterOK(p, old, x, s, f, yet)
      BY <3>1, <3>2, <3>3
    <3>5. WriterOK(p, old, FileWritten(x, s.fileOffset, BytesOf(p, s, f)),
                   s, f, landed)
      BY <1>1, <1>3, <3>4, WriterLands
    <3> QED  BY <1>10, <1>40, <2>1, <3>3, <3>5
  <2>4. Own(p, access, old, worse, y, t, f, n, NoRequest)
    BY <1>1, <1>2, <1>7, <2>2, <2>3 DEF Own
  <2>5. ASSUME NEW r, r.error = o.error, r.transferred = Len(piece)
        PROVE  Told(y, t, f, n, worse, r)
    <3>1. f.awaits \in {"direct", "refill"} => FALSE
      BY <1>1 DEF FrameFits
    <3>2. f.awaits \in {"flush", "write"} =>
            ~ r.error /\ r.transferred = BufferSize
      BY <1>1, <1>4, <1>7, <2>5 DEF FrameFits
    <3> QED  BY <3>1, <3>2 DEF Told
  <2> QED  BY <1>4, <1>5, <1>7, <2>4, <2>5 DEF CarriedOut
<1> QED  BY <1>1, <1>2, <1>5, <1>6, <1>7 DEF IsOutcome

(***************************************************************************)
(* What the users of a stream see of a step: its position, the next        *)
(* operation and whether it is open.                                       *)
(***************************************************************************)
PositionOf(access, s, f) ==
    IF access = "write" THEN 0
    ELSE IF f.pc = "read" \/ f.failed THEN CallAt(s, f.call) ELSE ReadAt(s)

StatusOf(f) ==
    IF f.failed THEN "failed"
    ELSE IF f.pc = "done" THEN "closed" ELSE "open"

Unseen(access, s, f, t, g) ==
    /\ PositionOf(access, t, g) = PositionOf(access, s, f)
    /\ g.next = f.next /\ StatusOf(g) = StatusOf(f)

Open(p, f) ==
    StatusOf(f) = "open" /\ f.next <= Len(p) /\ f.next \in Nat \ {0}

Finishes(p, f, g) == Open(p, f) /\ StatusOf(g) = "open" /\ g.next = f.next + 1

ReadSeen(p, access, x, s, f, t, g, q) ==
    /\ Finishes(p, f, g) /\ p[f.next].op = "read" /\ q \in Seq(Nat)
    /\ q = Slice(x, PositionOf(access, s, f), p[f.next].count)
    /\ PositionOf(access, t, g) = PositionOf(access, s, f) + Len(q)

SkipSeen(p, access, x, s, f, t, g) ==
    /\ Finishes(p, f, g)
    /\ \/ /\ p[f.next].op = "skipTo"
          /\ PositionOf(access, t, g) = p[f.next].offset
       \/ /\ p[f.next].op = "skip"
          /\ \E more \in {0} \union 0..(Len(x) - PositionOf(access, s, f)) :
                /\ p[f.next].offset = 0 => more = 0
                /\ PositionOf(access, t, g)
                    = PositionOf(access, s, f) + p[f.next].offset + more

FailureSeen(p, access, bad, x, s, f, g) ==
    /\ Open(p, f) /\ StatusOf(g) = "failed" /\ g.next = f.next
    /\ PositionOf(access, s, g) = PositionOf(access, s, f)
    /\ \/ bad
       \/ /\ p[f.next].op = "read"
          /\ PositionOf(access, s, f) + p[f.next].count > Len(x)

(***************************************************************************)
(* Which step of a frame is part of which operation.                       *)
(***************************************************************************)
BeginsOp(p, f, op) ==
    /\ f.pc = "next" /\ f.awaits = "nothing"
    /\ f.next <= Len(p) /\ p[f.next].op = op

LEMMA BeginsReader ==
    ASSUME NEW access, NEW p, Settled(p, access), NEW old, NEW bad, NEW x,
           NEW s, NEW f, NEW m, Own(p, access, old, bad, x, s, f, m, NoRequest),
           NEW op \in {"read", "skip", "skipTo"}, BeginsOp(p, f, op)
    PROVE  /\ access = "read" /\ Open(p, f)
           /\ op = "read" => p[f.next].count \in Nat
           /\ op # "read" => p[f.next].offset \in Nat
           /\ Buffered(x, s) /\ x = old /\ x \in Seq(Nat)
           /\ s \in StreamType /\ m \in Seq(Nat)
           /\ PositionOf(access, s, f) = ReadAt(s)
           /\ f \in FrameType /\ ~ f.failed
<1>1. PICK n \in Nat \ {0} : n = f.next
  BY FrameIs DEF Own, FrameFits
<1>2. n <= Len(p) /\ p[n].op = op /\ p \in Seq(Operations(access))
  BY <1>1 DEF BeginsOp, Settled
<1>3. /\ op = "read" => access = "read" /\ p[n].count \in Nat
      /\ op # "read" => access = "read" /\ p[n].offset \in Nat
  BY <1>2, OperationTyped
<1>4. f.failed = FALSE
  BY DEF Own, FrameFits, BeginsOp, FrameType
<1>5. PositionOf(access, s, f) = ReadAt(s)
  BY <1>3, <1>4 DEF PositionOf, BeginsOp
<1>6. Open(p, f)
  BY <1>1, <1>2, <1>4 DEF Open, StatusOf, BeginsOp
<1> QED
  BY <1>1, <1>3, <1>4, <1>5, <1>6 DEF Own, ReaderOK, FrameFits

(***************************************************************************)
(* A frame that goes on with its next operation.                           *)
(***************************************************************************)
LEMMA FrameGoesOn ==
    ASSUME NEW access, NEW p, NEW s, NEW t, NEW f, FrameFits(p, access, s, f),
           f.next <= Len(p), ~ f.failed, NEW g,
           IsFrame(g, "next", f.next + 1, "nothing", f.call, f.failed)
    PROVE  FrameFits(p, access, t, g) /\ StatusOf(g) = "open"
<1>1. PICK n \in Nat \ {0} : n = f.next
  BY FrameIs DEF FrameFits
<1>2. g.next = n + 1 /\ n <= Len(p)  BY <1>1 DEF IsFrame
<1>3. g.next <= Len(p) + 1
  <2>1. PICK k \in Nat : k = n + 1
    <3>1. n + 1 \in Nat  OBVIOUS
    <3> QED  BY <3>1
  <2> QED  BY <1>1, <1>2
<1>4. g \in FrameType /\ g.pc = "next" /\ g.awaits = "nothing" /\ ~ g.failed
  BY DEF IsFrame
<1> QED  BY <1>3, <1>4 DEF FrameFits, InWrite, StatusOf

LEMMA OwnSkips ==
    ASSUME NEW access, NEW p, Settled(p, access), NEW old, NEW bad, NEW x,
           NEW s, NEW f, NEW m, Own(p, access, old, bad, x, s, f, m, NoRequest),
           NEW t,
           \/ BeginsOp(p, f, "skipTo") /\ t = SkippedTo(s, p[f.next].offset)
           \/ BeginsOp(p, f, "skip") /\ t = Skipped(s, p[f.next].offset),
           NEW g, IsFrame(g, "next", f.next + 1, "nothing", f.call, f.failed)
    PROVE  /\ Own(p, access, old, bad, x, t, g, m, NoRequest)
           /\ SkipSeen(p, access, x, s, f, t, g)
<1>1. /\ access = "read" /\ Open(p, f) /\ p[f.next].offset \in Nat
      /\ Buffered(x, s) /\ x = old /\ x \in Seq(Nat)
      /\ s \in StreamType /\ m \in Seq(Nat)
      /\ PositionOf(access, s, f) = ReadAt(s)
      /\ f \in FrameType /\ ~ f.failed
  BY BeginsReader
<1>2. PICK offset \in Nat : offset = p[f.next].offset  BY <1>1
<1>3. FrameFits(p, access, t, g) /\ StatusOf(g) = "open"
  <2>1. f.next <= Len(p) /\ FrameFits(p, access, s, f)
    BY <1>1 DEF Own, Open
  <2> QED  BY <1>1, <2>1, FrameGoesOn
<1>4. PICK fo \in Nat, k \in Nat, o \in Nat :
        /\ fo = s.fileOffset /\ k = s.bufferCount /\ o = s.bufferOffset
  <2>1. s.fileOffset \in Nat /\ s.bufferCount \in Nat /\ s.bufferOffset \in Nat
    BY <1>1, StreamIs
  <2> QED  BY <2>1
<1>5. o <= k /\ k <= fo /\ (k > 0 => fo <= Len(x))
  BY <1>1, <1>4 DEF Buffered
<1>6. ReadAt(s) = fo - (k - o)  BY <1>4 DEF ReadAt
<1>7. Finishes(p, f, g)  BY <1>1, <1>3 DEF Finishes, IsFrame
<1>8. PositionOf(access, t, g) = ReadAt(t)
  BY <1>1 DEF PositionOf, IsFrame
<1>9. t \in StreamType /\ Buffered(x, t) /\ SkipSeen(p, access, x, s, f, t, g)
  <2>1. CASE BeginsOp(p, f, "skipTo") /\ t = SkippedTo(s, offset)
    <3>1. t \in StreamType /\ Buffered(x, t) /\ ReadAt(t) = offset
      BY <1>1, <2>1, SkippedIs
    <3> QED
      BY <1>2, <1>7, <1>8, <2>1, <3>1 DEF SkipSeen, BeginsOp
  <2>2. CASE BeginsOp(p, f, "skip") /\ t = Skipped(s, offset)
    <3>0. p[f.next].op = "skip"  BY <2>2 DEF BeginsOp
    <3>1. CASE offset = 0
      <4>1. t = s  BY <2>2, <3>1 DEF Skipped
      <4>2. PICK pos \in Nat : pos = ReadAt(s)
        <5>1. fo - (k - o) \in Nat  BY <1>5
        <5> QED  BY <1>6, <5>1
      <4>3. pos = pos + offset + 0  BY <3>1
      <4> QED
        BY <1>1, <1>2, <1>7, <1>8, <3>0, <3>1, <4>1, <4>2, <4>3 DEF SkipSeen
    <3>2. CASE offset # 0
      <4>1. PICK to \in Nat : to = fo + offset
        <5>1. fo + offset \in Nat  OBVIOUS
        <5> QED  BY <5>1
      <4>2. t = SkippedTo(s, to)  BY <1>4, <2>2, <3>2, <4>1 DEF Skipped
      <4>3. t \in StreamType /\ Buffered(x, t) /\ ReadAt(t) = to
        BY <1>1, <4>2, SkippedIs
      <4>4. PICK more \in Nat : more = k - o
        <5>1. k - o \in Nat  BY <1>5
        <5> QED  BY <5>1
      <4>5. PICK pos \in Nat : pos = ReadAt(s) /\ pos = fo - (k - o)
        <5>1. fo - (k - o) \in Nat  BY <1>5
        <5> QED  BY <1>6, <5>1
      <4>6. to = pos + offset + more  BY <4>1, <4>4, <4>5
      <4>7. more \in {0} \union 0..(Len(x) - pos)
        <5>1. Len(x) \in Nat  BY <1>1
        <5> QED  BY <1>5, <4>4, <4>5, <5>1
      <4>8. \E n \in {0} \union 0..(Len(x) - pos) :
                /\ offset = 0 => n = 0
                /\ to = pos + offset + n
        BY <3>2, <4>6, <4>7
      <4> QED
        BY <1>1, <1>2, <1>7, <1>8, <3>0, <4>3, <4>5, <4>8 DEF SkipSeen
    <3> QED  BY <3>1, <3>2
  <2> QED  BY <1>2, <2>1, <2>2
<1>10. ReaderOK(x, t, g, m)
  BY <1>9 DEF ReaderOK, IsFrame
<1> QED  BY <1>1, <1>3, <1>9, <1>10 DEF Own

(***************************************************************************)
(* Read: from the buffer, with what is left of it, and after a transfer.   *)
(***************************************************************************)
LEMMA OwnReadsBuffer ==
    ASSUME NEW access, NEW p, Settled(p, access), NEW old, NEW bad, NEW x,
           NEW s, NEW f, NEW m, Own(p, access, old, bad, x, s, f, m, NoRequest),
           BeginsOp(p, f, "read"), NEW n, n = p[f.next].count, InBuffer(s, n),
           NEW t, t = Advanced(s, n), NEW q, q = FromBuffer(s, n),
           NEW g, IsFrame(g, "next", f.next + 1, "nothing", f.call, f.failed)
    PROVE  /\ Own(p, access, old, bad, x, t, g, q, NoRequest)
           /\ ReadSeen(p, access, x, s, f, t, g, q)
<1>1. /\ access = "read" /\ Open(p, f) /\ n \in Nat
      /\ Buffered(x, s) /\ x = old /\ x \in Seq(Nat)
      /\ s \in StreamType /\ m \in Seq(Nat)
      /\ PositionOf(access, s, f) = ReadAt(s)
      /\ f \in FrameType /\ ~ f.failed
  BY BeginsReader
<1>2. /\ t \in StreamType /\ Buffered(x, t)
      /\ q \in Seq(Nat) /\ Len(q) = n
      /\ ReadAt(t) = ReadAt(s) + n /\ q = Slice(x, ReadAt(s), n)
  BY <1>1, FromBufferIs
<1>3. FrameFits(p, access, t, g) /\ StatusOf(g) = "open"
  <2>1. f.next <= Len(p) /\ FrameFits(p, access, s, f)
    BY <1>1 DEF Own, Open
  <2> QED  BY <1>1, <2>1, FrameGoesOn
<1>4. PositionOf(access, t, g) = ReadAt(t)
  BY <1>1 DEF PositionOf, IsFrame
<1>5. Finishes(p, f, g)  BY <1>1, <1>3 DEF Finishes, IsFrame
<1>6. ReadSeen(p, access, x, s, f, t, g, q)
  BY <1>1, <1>2, <1>4, <1>5 DEF ReadSeen, BeginsOp
<1>7. ReaderOK(x, t, g, q)
  BY <1>2 DEF ReaderOK, IsFrame
<1> QED  BY <1>1, <1>2, <1>3, <1>6, <1>7 DEF Own

LEMMA OwnReadsRest ==
    ASSUME NEW access, NEW p, Settled(p, access), NEW old, NEW bad, NEW x,
           NEW s, NEW f, NEW m, Own(p, access, old, bad, x, s, f, m, NoRequest),
           BeginsOp(p, f, "read"), NEW n, n = p[f.next].count, ~ InBuffer(s, n),
           NEW call, call = ReadCall(s, n),
           NEW t, t = Emptied(s), NEW q, q = Remainder(s), NEW g
    PROVE  /\ /\ call.left = 0
              /\ IsFrame(g, "next", f.next + 1, "nothing", f.call, f.failed)
              => /\ Own(p, access, old, bad, x, t, g, q, NoRequest)
                 /\ ReadSeen(p, access, x, s, f, t, g, q)
           /\ /\ call.left # 0
              /\ IsFrame(g, "read", f.next, "nothing", call, f.failed)
              => /\ Own(p, access, old, bad, x, t, g, q, NoRequest)
                 /\ Unseen(access, s, f, t, g)
           /\ call \in Call
<1>1. /\ access = "read" /\ Open(p, f) /\ n \in Nat
      /\ Buffered(x, s) /\ x = old /\ x \in Seq(Nat)
      /\ s \in StreamType /\ m \in Seq(Nat)
      /\ PositionOf(access, s, f) = ReadAt(s)
      /\ f \in FrameType /\ ~ f.failed
  BY BeginsReader
<1>2. /\ t \in StreamType /\ t.bufferCount = 0 /\ Buffered(x, t)
      /\ q \in Seq(Nat) /\ call \in Call /\ Wanted(call) = n
      /\ CallAt(t, call) = ReadAt(s) /\ Fetched(x, t, call, q)
      /\ ReadAt(t) = ReadAt(s) + Len(q)
      /\ call.left = 0 => q = Slice(x, ReadAt(s), n)
  BY <1>1, EmptiedIs
<1>3. ASSUME call.left = 0,
             IsFrame(g, "next", f.next + 1, "nothing", f.call, f.failed)
      PROVE  /\ Own(p, access, old, bad, x, t, g, q, NoRequest)
             /\ ReadSeen(p, access, x, s, f, t, g, q)
  <2>3. FrameFits(p, access, t, g) /\ StatusOf(g) = "open"
    <3>1. f.next <= Len(p) /\ FrameFits(p, access, s, f)
      BY <1>1 DEF Own, Open
    <3> QED  BY <1>1, <1>3, <3>1, FrameGoesOn
  <2>4. PositionOf(access, t, g) = ReadAt(t)
    BY <1>1, <1>3 DEF PositionOf, IsFrame
  <2>5. Finishes(p, f, g)  BY <1>1, <1>3, <2>3 DEF Finishes, IsFrame
  <2>6. ReadSeen(p, access, x, s, f, t, g, q)
    BY <1>1, <1>2, <1>3, <2>4, <2>5 DEF ReadSeen, BeginsOp
  <2>7. ReaderOK(x, t, g, q)
    BY <1>2, <1>3 DEF ReaderOK, IsFrame
  <2> QED  BY <1>1, <1>2, <2>3, <2>6, <2>7 DEF Own
<1>4. ASSUME call.left # 0,
             IsFrame(g, "read", f.next, "nothing", call, f.failed)
      PROVE  /\ Own(p, access, old, bad, x, t, g, q, NoRequest)
             /\ Unseen(access, s, f, t, g)
  <2>1. f.next <= Len(p) /\ f.next <= Len(p) + 1
    BY <1>1 DEF Own, FrameFits, Open
  <2>2. call.left > 0  BY <1>2, <1>4 DEF Call
  <2>3. FrameFits(p, access, t, g)
    BY <1>1, <1>2, <1>4, <2>1, <2>2 DEF FrameFits, IsFrame, InWrite, BeginsOp
  <2>4. PositionOf(access, t, g) = CallAt(t, call)
    BY <1>1, <1>4 DEF PositionOf, IsFrame
  <2>5. StatusOf(g) = StatusOf(f) /\ g.next = f.next
    BY <1>4 DEF StatusOf, IsFrame, BeginsOp
  <2>6. ReaderOK(x, t, g, q)
    BY <1>2, <1>4 DEF ReaderOK, IsFrame
  <2> QED  BY <1>1, <1>2, <2>3, <2>4, <2>5, <2>6 DEF Own, Unseen
<1> QED  BY <1>2, <1>3, <1>4

(***************************************************************************)
(* In a Read that awaits.                                                  *)
(***************************************************************************)
LEMMA InReadIs ==
    ASSUME NEW access, NEW p, Settled(p, access), NEW old, NEW bad, NEW x,
           NEW s, NEW f, NEW m, Own(p, access, old, bad, x, s, f, m, NoRequest),
           f.pc = "read"
    PROVE  /\ access = "read" /\ Open(p, f) /\ p[f.next].op = "read"
           /\ Buffered(x, s) /\ x = old /\ x \in Seq(Nat)
           /\ Fetched(x, s, f.call, m)
           /\ s \in StreamType /\ m \in Seq(Nat) /\ s.bufferCount = 0
           /\ PositionOf(access, s, f) = CallAt(s, f.call)
           /\ f \in FrameType /\ ~ f.failed /\ FrameFits(p, access, s, f)
           /\ f.call \in Call /\ f.call.left > 0
           /\ Wanted(f.call) = p[f.next].count
<1>1. /\ FrameFits(p, access, s, f) /\ access = "read" /\ f \in FrameType
      /\ f.next <= Len(p) /\ p[f.next].op = "read" /\ ~ f.failed
      /\ f.call.left > 0 /\ Wanted(f.call) = p[f.next].count
      /\ s.bufferCount = 0 /\ s \in StreamType /\ m \in Seq(Nat)
      /\ x \in Seq(Nat) /\ x = old /\ ReaderOK(x, s, f, m)
  BY DEF Own, FrameFits
<1>2. Open(p, f)
  BY <1>1, FrameIs DEF Open, StatusOf
<1>3. PositionOf(access, s, f) = CallAt(s, f.call)
  BY <1>1 DEF PositionOf
<1> QED  BY <1>1, <1>2, <1>3, FrameIs DEF ReaderOK

LEMMA OwnResumesDirect ==
    ASSUME NEW access, NEW p, Settled(p, access), NEW old, NEW bad, NEW x,
           NEW s, NEW f, NEW m, Own(p, access, old, bad, x, s, f, m, NoRequest),
           f.awaits = "direct", NEW r, Told(x, s, f, m, bad, r), ~ r.error,
           r.transferred \in Nat,
           NEW call, call = CallAfter(f.call, r.transferred),
           NEW t, t = AfterDirect(s, r.transferred), NEW g
    PROVE  /\ /\ ShortRead(r.transferred) \/ call.left = 0
              /\ IsFrame(g, "next", f.next + 1, "nothing", f.call, f.failed)
              => /\ Own(p, access, old, bad, x, t, g, m, NoRequest)
                 /\ ReadSeen(p, access, x, s, f, t, g,
                             SubSeq(m, 1, call.moved))
           /\ /\ ~ (ShortRead(r.transferred) \/ call.left = 0)
              /\ IsFrame(g, "read", f.next, "nothing", call, f.failed)
              => /\ Own(p, access, old, bad, x, t, g, m, NoRequest)
                 /\ Unseen(access, s, f, t, g)
           /\ call \in Call
<1>0. f.pc = "read" /\ Direct(f.call)  BY DEF Own, FrameFits
<1>1. /\ access = "read" /\ Open(p, f) /\ p[f.next].op = "read"
      /\ Buffered(x, s) /\ x = old /\ x \in Seq(Nat)
      /\ Fetched(x, s, f.call, m)
      /\ s \in StreamType /\ m \in Seq(Nat) /\ s.bufferCount = 0
      /\ PositionOf(access, s, f) = CallAt(s, f.call)
      /\ f \in FrameType /\ ~ f.failed /\ FrameFits(p, access, s, f)
      /\ f.call \in Call /\ f.call.left > 0
      /\ Wanted(f.call) = p[f.next].count
  BY <1>0, InReadIs
<1>2. ReadAnswer(x, s, "direct", f.call, m, r)
  BY DEF Told
<1>20. PICK was \in Call : was = f.call  BY <1>1
<1>3. /\ t \in StreamType /\ t.bufferCount = 0 /\ Buffered(x, t)
      /\ call \in Call /\ Wanted(call) = Wanted(was)
      /\ Fetched(x, t, call, m)
      /\ CallAt(t, call) = CallAt(s, was)
      /\ ShortRead(r.transferred) \/ call.left = 0 =>
            /\ SubSeq(m, 1, call.moved) \in Seq(Nat)
            /\ SubSeq(m, 1, call.moved) = Slice(x, CallAt(s, was), Wanted(was))
            /\ ReadAt(t) = CallAt(s, was) + Len(SubSeq(m, 1, call.moved))
  <2>1. /\ Direct(was) /\ Fetched(x, s, was, m)
        /\ ReadAnswer(x, s, "direct", was, m, r)
        /\ call = CallAfter(was, r.transferred)
    BY <1>0, <1>1, <1>2, <1>20
  <2> QED  BY <1>1, <2>1, AfterDirectIs
<1>4. ASSUME ShortRead(r.transferred) \/ call.left = 0,
             IsFrame(g, "next", f.next + 1, "nothing", f.call, f.failed)
      PROVE  /\ Own(p, access, old, bad, x, t, g, m, NoRequest)
             /\ ReadSeen(p, access, x, s, f, t, g, SubSeq(m, 1, call.moved))
  <2>0. PICK q : q = SubSeq(m, 1, call.moved)  OBVIOUS
  <2>1. /\ q \in Seq(Nat) /\ q = Slice(x, CallAt(s, was), Wanted(was))
        /\ ReadAt(t) = CallAt(s, was) + Len(q)
    BY <1>3, <1>4, <2>0
  <2>3. FrameFits(p, access, t, g) /\ StatusOf(g) = "open"
    <3>1. f.next <= Len(p)  BY <1>1 DEF Open
    <3> QED  BY <1>1, <1>4, <3>1, FrameGoesOn
  <2>4. PositionOf(access, t, g) = ReadAt(t)
    BY <1>1, <1>4 DEF PositionOf, IsFrame
  <2>5. Finishes(p, f, g)  BY <1>1, <1>4, <2>3 DEF Finishes, IsFrame
  <2>6. ReadSeen(p, access, x, s, f, t, g, q)
    BY <1>1, <1>20, <2>1, <2>4, <2>5 DEF ReadSeen
  <2>7. ReaderOK(x, t, g, m)
    BY <1>3, <1>4 DEF ReaderOK, IsFrame
  <2> QED  BY <1>1, <1>3, <2>0, <2>3, <2>6, <2>7 DEF Own
<1>5. ASSUME ~ (ShortRead(r.transferred) \/ call.left = 0),
             IsFrame(g, "read", f.next, "nothing", call, f.failed)
      PROVE  /\ Own(p, access, old, bad, x, t, g, m, NoRequest)
             /\ Unseen(access, s, f, t, g)
  <2>1. f.next <= Len(p) /\ f.next <= Len(p) + 1
    BY <1>1 DEF FrameFits, Open
  <2>2. call.left > 0  BY <1>3, <1>5 DEF Call
  <2>3. FrameFits(p, access, t, g)
    BY <1>1, <1>3, <1>5, <1>20, <2>1, <2>2 DEF FrameFits, IsFrame, InWrite
  <2>4. PositionOf(access, t, g) = CallAt(t, call)
    BY <1>1, <1>5 DEF PositionOf, IsFrame
  <2>5. StatusOf(g) = StatusOf(f) /\ g.next = f.next
    BY <1>0, <1>5 DEF StatusOf, IsFrame
  <2>6. ReaderOK(x, t, g, m)
    BY <1>3, <1>5 DEF ReaderOK, IsFrame
  <2> QED  BY <1>1, <1>3, <1>20, <2>3, <2>4, <2>5, <2>6 DEF Own, Unseen
<1> QED  BY <1>3, <1>4, <1>5

LEMMA OwnResumesRefill ==
    ASSUME NEW access, NEW p, Settled(p, access), NEW old, NEW bad, NEW x,
           NEW s, NEW f, NEW m, Own(p, access, old, bad, x, s, f, m, NoRequest),
           f.awaits = "refill", NEW r, Told(x, s, f, m, bad, r), ~ r.error,
           NEW t, t = AfterRefill(s, f.call, r.transferred),
           NEW q, q = Gathered(s, m, f.call, r.transferred),
           NEW g, IsFrame(g, "next", f.next + 1, "nothing", f.call, f.failed)
    PROVE  /\ Own(p, access, old, bad, x, t, g, q, NoRequest)
           /\ ReadSeen(p, access, x, s, f, t, g, q)
<1>0. f.pc = "read" /\ ~ Direct(f.call)  BY DEF Own, FrameFits
<1>1. /\ access = "read" /\ Open(p, f) /\ p[f.next].op = "read"
      /\ Buffered(x, s) /\ x = old /\ x \in Seq(Nat)
      /\ Fetched(x, s, f.call, m)
      /\ s \in StreamType /\ m \in Seq(Nat) /\ s.bufferCount = 0
      /\ PositionOf(access, s, f) = CallAt(s, f.call)
      /\ f \in FrameType /\ ~ f.failed /\ FrameFits(p, access, s, f)
      /\ f.call \in Call /\ f.call.left > 0
      /\ Wanted(f.call) = p[f.next].count
  BY <1>0, InReadIs
<1>2. ReadAnswer(x, s, "refill", f.call, m, r)
  BY DEF Told
<1>20. PICK was \in Call : was = f.call  BY <1>1
<1>3. /\ t \in StreamType /\ Buffered(x, t) /\ q \in Seq(Nat)
      /\ q = Slice(x, CallAt(s, was), Wanted(was))
      /\ ReadAt(t) = CallAt(s, was) + Len(q)
  <2>1. /\ ~ Direct(was) /\ Fetched(x, s, was, m)
        /\ ReadAnswer(x, s, "refill", was, m, r)
        /\ t = AfterRefill(s, was, r.transferred)
        /\ q = Gathered(s, m, was, r.transferred)
    BY <1>0, <1>1, <1>2, <1>20
  <2> QED  BY <1>1, <2>1, AfterRefillIs
<1>4. FrameFits(p, access, t, g) /\ StatusOf(g) = "open"
  <2>1. f.next <= Len(p)  BY <1>1 DEF Open
  <2> QED  BY SMTT(30), <1>1, <2>1, FrameGoesOn
<1>5. PositionOf(access, t, g) = ReadAt(t)
  BY <1>1 DEF PositionOf, IsFrame
<1>6. Finishes(p, f, g)  BY <1>1, <1>4 DEF Finishes, IsFrame
<1>7. ReadSeen(p, access, x, s, f, t, g, q)
  BY <1>1, <1>3, <1>5, <1>6, <1>20 DEF ReadSeen
<1>8. ReaderOK(x, t, g, q)
  BY <1>3 DEF ReaderOK, IsFrame
<1> QED  BY <1>1, <1>3, <1>4, <1>7, <1>8 DEF Own

(***************************************************************************)
(* An operation that failed.                                               *)
(***************************************************************************)
LEMMA PastTheEnd ==
    ASSUME NEW x \in Seq(Nat), NEW s \in StreamType, NEW call \in Call,
           call.moved <= s.fileOffset, call.left > 0,
           Len(FileRead(x, s.fileOffset, BufferSize)) = 0
    PROVE  CallAt(s, call) + Wanted(call) > Len(x)
<1>1. BufferSize \in Nat \ {0}  BY BufferAssumption
<1>2. PICK left \in Nat, moved \in Nat, fo \in Nat, size \in Nat :
        /\ left = call.left /\ moved = call.moved /\ fo = s.fileOffset
        /\ size = Len(x)
  <2>1. /\ call.left \in Nat /\ call.moved \in Nat /\ s.fileOffset \in Nat
        /\ Len(x) \in Nat
    BY StreamIs DEF Call
  <2> QED  BY <2>1
<1>3. left \in Nat /\ moved \in Nat /\ fo \in Nat /\ size \in Nat  BY <1>2
<1>4. Len(FileRead(x, fo, BufferSize))
        = IF fo < Len(x) THEN Smaller(BufferSize, Len(x) - fo) ELSE 0
  BY <1>1, <1>3, FileReadIs
<1>5. ~ (fo < size)
  BY <1>1, <1>2, <1>4 DEF Smaller
<1>6. moved <= fo /\ left > 0  BY <1>2
<1>7. (fo - moved) + (moved + left) > size  BY <1>3, <1>5, <1>6
<1> QED  BY <1>2, <1>7 DEF CallAt, Wanted

LEMMA OwnThrows ==
    ASSUME NEW access, NEW p, Settled(p, access), NEW old, NEW bad, NEW x,
           NEW s, NEW f, NEW m, Own(p, access, old, bad, x, s, f, m, NoRequest),
           f.awaits \notin {"nothing", "schedule"},
           NEW r, Told(x, s, f, m, bad, r), r.error,
           NEW g, IsFrame(g, "close", f.next, "nothing", f.call, TRUE)
    PROVE  /\ Own(p, access, old, bad, x, s, g, m, NoRequest)
           /\ FailureSeen(p, access, bad, x, s, f, g)
<1>1. /\ f \in FrameType /\ f.awaits \in {"direct", "refill", "flush", "write"}
      /\ f.pc \in {"read", "flush", "write"} /\ FrameFits(p, access, s, f)
      /\ f.awaits \in {"direct", "refill"} => f.pc = "read"
      /\ f.awaits \in {"flush", "write"} => f.pc \in {"flush", "write"}
      /\ f.next <= Len(p) /\ f.next <= Len(p) + 1 /\ ~ f.failed
  BY DEF Own, FrameFits, FrameType, InWrite
<1>2. FrameFits(p, access, s, g)
  BY <1>1 DEF FrameFits, IsFrame, InWrite
<1>3. Open(p, f)
  BY <1>1, FrameIs DEF Open, StatusOf
<1>4. bad \/ f.awaits \in {"direct", "refill"}
  BY <1>1 DEF Told
<1>5. access = "write" => bad
  BY <1>1, <1>4 DEF FrameFits
<1>6. access = "read" => ReaderOK(x, s, g, m)
  BY DEF Own, ReaderOK, IsFrame
<1>7. Own(p, access, old, bad, x, s, g, m, NoRequest)
  BY <1>2, <1>5, <1>6 DEF Own
<1>8. PositionOf(access, s, g) = PositionOf(access, s, f)
  <2>1. access # "write" => f.pc = "read"
    BY <1>1 DEF FrameFits, InWrite
  <2> QED  BY <2>1 DEF PositionOf, IsFrame
<1>9. StatusOf(g) = "failed" /\ g.next = f.next
  BY DEF StatusOf, IsFrame
<1>10. ASSUME ~ bad
       PROVE  /\ p[f.next].op = "read"
              /\ PositionOf(access, s, f) + p[f.next].count > Len(x)
  <2>1. f.pc = "read"  BY <1>1, <1>4, <1>10
  <2>2. /\ access = "read" /\ p[f.next].op = "read" /\ x \in Seq(Nat)
        /\ Fetched(x, s, f.call, m) /\ s \in StreamType
        /\ PositionOf(access, s, f) = CallAt(s, f.call)
        /\ f.call \in Call /\ f.call.left > 0
        /\ Wanted(f.call) = p[f.next].count
    BY <2>1, InReadIs
  <2>3. ReadAnswer(x, s, f.awaits, f.call, m, r)
    BY <1>4, <1>10 DEF Told
  <2>4. Len(FileRead(x, s.fileOffset, BufferSize)) = 0
    BY <2>3 DEF ReadAnswer
  <2>5. f.call.moved <= s.fileOffset  BY <2>2 DEF Fetched
  <2>6. PICK call \in Call : call = f.call  BY <2>2
  <2>7. CallAt(s, call) + Wanted(call) > Len(x)
    BY <2>2, <2>4, <2>5, <2>6, PastTheEnd
  <2> QED  BY <2>2, <2>6, <2>7
<1> QED  BY <1>3, <1>7, <1>8, <1>9, <1>10 DEF FailureSeen

(***************************************************************************)
(* Write: into the buffer, or the buffer is filled; and after a transfer.  *)
(***************************************************************************)
LEMMA BeginsWriter ==
    ASSUME NEW access, NEW p, Settled(p, access), NEW old, NEW bad, NEW x,
           NEW s, NEW f, NEW m, Own(p, access, old, bad, x, s, f, m, NoRequest),
           BeginsOp(p, f, "write")
    PROVE  /\ access = "write" /\ p \in Seq(Operations("write")) /\ Open(p, f)
           /\ p[f.next].bytes \in Seq(Nat)
           /\ x \in Seq(Nat) /\ s \in StreamType /\ m \in Seq(Nat)
           /\ f \in FrameType /\ ~ f.failed /\ FrameFits(p, access, s, f)
           /\ ~ Landed(f, NoRequest)
<1>1. PICK n \in Nat \ {0} : n = f.next
  BY FrameIs DEF Own, FrameFits
<1>2. n <= Len(p) /\ p[n].op = "write" /\ p \in Seq(Operations(access))
  BY <1>1 DEF BeginsOp, Settled
<1>3. access # "read" /\ p[n].bytes \in Seq(Nat)
  BY <1>2, OperationTyped
<1>4. f.failed = FALSE
  BY DEF Own, FrameFits, BeginsOp, FrameType
<1>5. Open(p, f)
  BY <1>1, <1>2, <1>4 DEF Open, StatusOf, BeginsOp
<1>6. ~ Landed(f, NoRequest)  BY DEF Landed, BeginsOp
<1> QED
  BY <1>1, <1>2, <1>3, <1>4, <1>5, <1>6 DEF Own, FrameFits, Settled

WriteSeen(p, access, s, f, t, g) ==
    /\ Finishes(p, f, g) /\ p[f.next].op = "write"
    /\ PositionOf(access, t, g) = PositionOf(access, s, f)

LEMMA OwnKeeps ==
    ASSUME NEW access, NEW p, Settled(p, access), NEW old, NEW bad, NEW x,
           NEW s, NEW f, NEW m, Own(p, access, old, bad, x, s, f, m, NoRequest),
           BeginsOp(p, f, "write"), NEW bytes, bytes = p[f.next].bytes,
           FitsBuffer(s, bytes), NEW t, t = Kept(s, bytes),
           NEW g, IsFrame(g, "next", f.next + 1, "nothing", f.call, f.failed)
    PROVE  /\ Own(p, access, old, bad, x, t, g, m, NoRequest)
           /\ WriteSeen(p, access, s, f, t, g)
<1>1. /\ access = "write" /\ p \in Seq(Operations("write")) /\ Open(p, f)
      /\ bytes \in Seq(Nat)
      /\ x \in Seq(Nat) /\ s \in StreamType /\ m \in Seq(Nat)
      /\ f \in FrameType /\ ~ f.failed /\ FrameFits(p, access, s, f)
      /\ ~ Landed(f, NoRequest)
  BY BeginsWriter
<1>2. t \in StreamType
  <2>1. PICK o \in Nat : o = s.bufferOffset
    <3>1. s.bufferOffset \in Nat  BY <1>1, StreamIs
    <3> QED  BY <3>1
  <2>2. o + Len(bytes) <= BufferSize
    <3>1. Len(bytes) \in Nat /\ BufferSize \in Nat  BY <1>1, BufferAssumption
    <3>2. o + Len(bytes) < BufferSize  BY <2>1 DEF FitsBuffer
    <3> QED  BY <2>1, <3>1, <3>2
  <2> QED  BY <1>1, <2>1, <2>2, KeptIs
<1>3. FrameFits(p, access, t, g) /\ StatusOf(g) = "open"
  <2>1. f.next <= Len(p)  BY <1>1 DEF Open
  <2> QED  BY <1>1, <2>1, FrameGoesOn
<1>4. ASSUME ~ bad
      PROVE  WriterOK(p, old, x, t, g, Landed(g, NoRequest))
  <2>1. PICK yet, now : yet = Landed(f, NoRequest) /\ now = Landed(g, NoRequest)
    OBVIOUS
  <2>2. yet = now
    BY <1>1, <2>1 DEF Landed, IsFrame
  <2>3. ~ yet /\ WriterOK(p, old, x, s, f, yet)
    BY <1>1, <1>4, <2>1 DEF Own
  <2>4. /\ f.pc = "next" /\ f.next <= Len(p) /\ p[f.next].op = "write"
        /\ g.pc = "next" /\ g.next = f.next + 1 /\ g.failed = f.failed
    BY DEF BeginsOp, IsFrame
  <2>5. FrameFits(p, "write", s, f)  BY <1>1
  <2>6. WriterOK(p, old, x, t, g, yet)
    BY <1>1, <2>3, <2>4, <2>5, WriterKeeps
  <2> QED  BY <2>1, <2>2, <2>6
<1>5. WriteSeen(p, access, s, f, t, g)
  BY <1>1, <1>3 DEF WriteSeen, Finishes, PositionOf, IsFrame, BeginsOp
<1>6. ~ g.failed  BY <1>1 DEF IsFrame
<1> QED  BY <1>1, <1>2, <1>3, <1>4, <1>5, <1>6 DEF Own

LEMMA OwnFills ==
    ASSUME NEW access, NEW p, Settled(p, access), NEW old, NEW bad, NEW x,
           NEW s, NEW f, NEW m, Own(p, access, old, bad, x, s, f, m, NoRequest),
           BeginsOp(p, f, "write"), NEW bytes, bytes = p[f.next].bytes,
           ~ FitsBuffer(s, bytes), NEW t, t = Filled(s, bytes),
           NEW call, call = WriteCall(s, bytes), NEW g
    PROVE  /\ call \in Call
           /\ IsFrame(g, "flush", f.next, "nothing", call, f.failed)
              => /\ Own(p, access, old, bad, x, t, g, m, NoRequest)
                 /\ Unseen(access, s, f, t, g)
<1>1. /\ access = "write" /\ p \in Seq(Operations("write")) /\ Open(p, f)
      /\ bytes \in Seq(Nat)
      /\ x \in Seq(Nat) /\ s \in StreamType /\ m \in Seq(Nat)
      /\ f \in FrameType /\ ~ f.failed /\ FrameFits(p, access, s, f)
      /\ ~ Landed(f, NoRequest)
  BY BeginsWriter
<1>2. /\ t \in StreamType /\ t.bufferOffset = 0
      /\ call \in Call /\ Wanted(call) = Len(bytes)
  BY <1>1, FilledIs
<1>3. ASSUME IsFrame(g, "flush", f.next, "nothing", call, f.failed)
      PROVE  /\ Own(p, access, old, bad, x, t, g, m, NoRequest)
             /\ Unseen(access, s, f, t, g)
  <2>0. f.next <= Len(p) /\ f.next <= Len(p) + 1
    BY <1>1 DEF FrameFits, Open
  <2>1. FrameFits(p, access, t, g)
    BY <1>1, <1>2, <1>3, <2>0 DEF FrameFits, IsFrame, InWrite, BeginsOp
  <2>2. ASSUME ~ bad
        PROVE  WriterOK(p, old, x, t, g, Landed(g, NoRequest))
    <3>1. PICK yet, now :
            yet = Landed(f, NoRequest) /\ now = Landed(g, NoRequest)
      OBVIOUS
    <3>2. yet = now
      BY <1>1, <1>3, <3>1 DEF Landed, IsFrame
    <3>3. ~ yet /\ WriterOK(p, old, x, s, f, yet)
      BY <1>1, <2>2, <3>1 DEF Own
    <3>4. /\ f.pc = "next" /\ f.next <= Len(p) /\ p[f.next].op = "write"
          /\ g.pc = "flush" /\ g.next = f.next /\ g.failed = f.failed
          /\ g.call = call
      BY <1>3 DEF BeginsOp, IsFrame
    <3>5. FrameFits(p, "write", s, f)  BY <1>1
    <3>6. WriterOK(p, old, x, t, g, yet)
      BY <1>1, <3>3, <3>4, <3>5, WriterFills
    <3> QED  BY <3>1, <3>2, <3>6
  <2>3. Unseen(access, s, f, t, g)
    BY <1>1, <1>3 DEF Unseen, PositionOf, StatusOf, IsFrame, BeginsOp
  <2>4. ~ g.failed  BY <1>1, <1>3 DEF IsFrame
  <2> QED  BY <1>1, <1>2, <2>1, <2>2, <2>3, <2>4 DEF Own
<1> QED  BY <1>2, <1>3

(***************************************************************************)
(* After a write to the file.                                              *)
(***************************************************************************)
LEMMA OwnContinues ==
    ASSUME NEW access, NEW p, Settled(p, access), NEW old, NEW bad, NEW x,
           NEW s, NEW f, NEW m, Own(p, access, old, bad, x, s, f, m, NoRequest),
           f.awaits \in {"flush", "write"},
           NEW call, call = CallNow(f), NEW bytes, bytes = p[f.next].bytes,
           NEW t, NEW g
    PROVE  /\ /\ Direct(call) /\ t = AfterWrite(s)
              /\ IsFrame(g, "write", f.next, "nothing", call, f.failed)
              => /\ Own(p, access, old, bad, x, t, g, m, NoRequest)
                 /\ Unseen(access, s, f, t, g)
           /\ /\ ~ Direct(call) /\ t = Kept(AfterWrite(s), Rest(call, bytes))
              /\ IsFrame(g, "next", f.next + 1, "nothing", f.call, f.failed)
              => /\ Own(p, access, old, bad, x, t, g, m, NoRequest)
                 /\ WriteSeen(p, access, s, f, t, g)
           /\ call \in Call
<1>1. /\ f \in FrameType /\ f.pc \in {"flush", "write"}
      /\ FrameFits(p, access, s, f) /\ access = "write"
      /\ f.next <= Len(p) /\ f.next <= Len(p) + 1 /\ ~ f.failed
      /\ p[f.next].op = "write" /\ s.bufferOffset = 0
      /\ s \in StreamType /\ m \in Seq(Nat) /\ x \in Seq(Nat)
      /\ Landed(f, NoRequest)
  BY DEF Own, FrameFits, FrameType, InWrite, Landed
<1>2. p \in Seq(Operations("write"))  BY <1>1 DEF Settled
<1>3. PICK n \in Nat \ {0} : n = f.next  BY <1>1, FrameIs
<1>4. bytes \in Seq(Nat)
  <2>1. n <= Len(p) /\ p[n].op = "write" /\ bytes = p[n].bytes
    BY <1>1, <1>3
  <2>2. p[n].bytes \in Seq(Nat)  BY <1>2, <2>1, OperationTyped
  <2> QED  BY <2>1, <2>2
<1>5. call \in Call /\ Wanted(call) = Len(bytes)
  BY <1>1, CallContinues
<1>6. Open(p, f)
  BY <1>1, <1>3 DEF Open, StatusOf
<1>7. ASSUME ~ bad, g.failed = f.failed, ~ Landed(g, NoRequest),
             \/ /\ Direct(call) /\ g.pc = "write" /\ g.next = f.next
                /\ g.call = call /\ t = AfterWrite(s)
             \/ /\ ~ Direct(call) /\ g.pc = "next" /\ g.next = f.next + 1
                /\ t = Kept(AfterWrite(s), Rest(call, bytes))
      PROVE  WriterOK(p, old, x, t, g, Landed(g, NoRequest))
  <2>1. PICK landed, yet :
            landed = Landed(f, NoRequest) /\ yet = Landed(g, NoRequest)
    OBVIOUS
  <2>2. landed /\ ~ yet /\ WriterOK(p, old, x, s, f, landed)
    BY <1>1, <1>7, <2>1 DEF Own
  <2>3. FrameFits(p, "write", s, f)  BY <1>1
  <2>4. WriterOK(p, old, x, t, g, yet)
    BY <1>1, <1>2, <1>7, <2>2, <2>3, WriterContinues
  <2> QED  BY <2>1, <2>4
<1>8. ASSUME Direct(call), t = AfterWrite(s),
             IsFrame(g, "write", f.next, "nothing", call, f.failed)
      PROVE  /\ Own(p, access, old, bad, x, t, g, m, NoRequest)
             /\ Unseen(access, s, f, t, g)
  <2>1. t \in StreamType /\ t.bufferOffset = 0
    BY <1>1, <1>8, AfterWriteIs
  <2>2. FrameFits(p, access, t, g)
    BY <1>1, <1>5, <1>8, <2>1 DEF FrameFits, IsFrame, InWrite
  <2>3. /\ g.pc = "write" /\ g.next = f.next /\ g.call = call
        /\ g.failed = f.failed /\ ~ Landed(g, NoRequest)
    BY <1>8 DEF IsFrame, Landed
  <2>4. ~ bad => WriterOK(p, old, x, t, g, Landed(g, NoRequest))
    BY <1>7, <1>8, <2>3
  <2>5. Unseen(access, s, f, t, g)
    BY <1>1, <2>3 DEF Unseen, PositionOf, StatusOf
  <2>6. ~ g.failed  BY <1>1, <2>3
  <2> QED  BY <1>1, <2>1, <2>2, <2>4, <2>5, <2>6 DEF Own
<1>9. ASSUME ~ Direct(call), t = Kept(AfterWrite(s), Rest(call, bytes)),
             IsFrame(g, "next", f.next + 1, "nothing", f.call, f.failed)
      PROVE  /\ Own(p, access, old, bad, x, t, g, m, NoRequest)
             /\ WriteSeen(p, access, s, f, t, g)
  <2>1. t \in StreamType
    <3>1. /\ t \in StreamType /\ t.fileOffset = s.fileOffset + BufferSize
          /\ \A a : a \in Seq(Nat)
                /\ s.fileOffset + BufferSize = Len(a) + call.moved
                => InTail(a \o bytes, t)
      BY <1>1, <1>4, <1>5, <1>9, RestKept
    <3> QED  BY <3>1
  <2>2. FrameFits(p, access, t, g) /\ StatusOf(g) = "open"
    BY <1>1, <1>9, FrameGoesOn
  <2>3. /\ g.pc = "next" /\ g.next = f.next + 1
        /\ g.failed = f.failed /\ ~ Landed(g, NoRequest)
    BY <1>9 DEF IsFrame, Landed
  <2>4. ~ bad => WriterOK(p, old, x, t, g, Landed(g, NoRequest))
    BY <1>7, <1>9, <2>3
  <2>5. WriteSeen(p, access, s, f, t, g)
    BY <1>1, <1>6, <2>2, <2>3 DEF WriteSeen, PositionOf, Finishes
  <2>6. ~ g.failed  BY <1>1, <2>3
  <2> QED  BY <1>1, <2>1, <2>2, <2>4, <2>5, <2>6 DEF Own
<1> QED  BY <1>5, <1>8, <1>9

(***************************************************************************)
(* Steps that leave the stream and the file alone.                         *)
(***************************************************************************)
LEMMA OwnSchedules ==
    ASSUME NEW access, NEW p, NEW old, NEW bad, NEW x,
           NEW s, NEW f, NEW m, Own(p, access, old, bad, x, s, f, m, NoRequest),
           f.pc = "next",
           NEW g, IsFrame(g, "next", f.next, "schedule", f.call, f.failed)
    PROVE  /\ Own(p, access, old, bad, x, s, g, m, NoRequest)
           /\ Unseen(access, s, f, s, g)
<1>1. FrameFits(p, access, s, g)
  BY DEF Own, FrameFits, IsFrame, InWrite
<1>2. access = "read" => ReaderOK(x, s, g, m)
  BY DEF Own, ReaderOK, IsFrame
<1>3. ASSUME access = "write" /\ ~ bad
      PROVE  WriterOK(p, old, x, s, g, Landed(g, NoRequest))
  <2>1. PICK landed : landed = Landed(g, NoRequest)  OBVIOUS
  <2>2. Landed(f, NoRequest) = landed
    BY <2>1 DEF Landed, IsFrame, Own, FrameFits
  <2>3. WriterOK(p, old, x, s, f, landed)  BY <1>3, <2>2 DEF Own
  <2>4. g.pc = f.pc /\ g.next = f.next /\ g.call = f.call /\ g.failed = f.failed
    BY DEF IsFrame
  <2> QED  BY <2>1, <2>3, <2>4, WriterAwaits
<1>4. Unseen(access, s, f, s, g)
  BY DEF Unseen, PositionOf, StatusOf, IsFrame
<1> QED  BY <1>1, <1>2, <1>3, <1>4 DEF Own, IsFrame

LEMMA OwnStarts ==
    ASSUME NEW access, NEW p, NEW old, NEW bad, NEW x,
           NEW s, NEW f, NEW m, Own(p, access, old, bad, x, s, f, m, NoRequest),
           f.pc = "new",
           NEW g, IsFrame(g, "next", f.next, f.awaits, f.call, f.failed)
    PROVE  /\ Own(p, access, old, bad, x, s, g, m, NoRequest)
           /\ Unseen(access, s, f, s, g)
<1>0. f.awaits = "nothing" /\ ~ f.failed
  BY DEF Own, FrameFits, FrameType
<1>1. FrameFits(p, access, s, g)
  BY <1>0 DEF Own, FrameFits, IsFrame, InWrite
<1>2. access = "read" => ReaderOK(x, s, g, m)
  BY DEF Own, ReaderOK, IsFrame
<1>3. ASSUME access = "write" /\ ~ bad
      PROVE  WriterOK(p, old, x, s, g, Landed(g, NoRequest))
  <2>1. PICK landed : landed = Landed(g, NoRequest)  OBVIOUS
  <2>2. Landed(f, NoRequest) = landed
    BY <1>0, <2>1 DEF Landed, IsFrame
  <2>3. WriterOK(p, old, x, s, f, landed)  BY <1>3, <2>2 DEF Own
  <2>4. /\ f.pc \in {"new", "next", "close"}
        /\ g.pc \in {"new", "next", "close"}
        /\ g.next = f.next /\ g.failed = f.failed
    BY DEF IsFrame
  <2> QED  BY <2>1, <2>3, <2>4, WriterMoves
<1>4. Unseen(access, s, f, s, g)
  BY DEF Unseen, PositionOf, StatusOf, IsFrame
<1> QED  BY <1>0, <1>1, <1>2, <1>3, <1>4 DEF Own, IsFrame

(***************************************************************************)
(* The stream is closed.                                                   *)
(***************************************************************************)
CloseSeen(p, access, old, bad, x, s, f, g) ==
    /\ StatusOf(f) = "open" /\ f.next = Len(p) + 1
    /\ StatusOf(g) = "closed" /\ g.next = f.next
    /\ PositionOf(access, s, g) = PositionOf(access, s, f)
    /\ access = "read" => x = old
    /\ access = "write" /\ ~ bad =>
        LET all == Written(p)[f.next - 1]
        IN  x = all \o SubSeq(old, Len(all) + 1, Len(old))

LEMMA OwnEndsReading ==
    ASSUME NEW p, NEW old, NEW bad, NEW x,
           NEW s, NEW f, NEW m, Own(p, "read", old, bad, x, s, f, m, NoRequest),
           f.awaits = "nothing",
           \/ f.pc = "next" /\ f.next > Len(p)
           \/ f.pc = "close" /\ f.failed,
           NEW g, IsFrame(g, "done", f.next, f.awaits, f.call, f.failed)
    PROVE  /\ Own(p, "read", old, bad, x, s, g, m, NoRequest)
           /\ \/ CloseSeen(p, "read", old, bad, x, s, f, g)
              \/ Unseen("read", s, f, s, g)
<1>1. f.failed \/ f.next = Len(p) + 1
  BY DEF Own, FrameFits, FrameType
<1>2. FrameFits(p, "read", s, g)
  BY <1>1 DEF Own, FrameFits, IsFrame, InWrite
<1>3. ReaderOK(x, s, g, m)
  BY DEF Own, ReaderOK, IsFrame
<1>4. Own(p, "read", old, bad, x, s, g, m, NoRequest)
  BY <1>2, <1>3 DEF Own
<1>5. CASE f.failed
  BY <1>4, <1>5 DEF Unseen, PositionOf, StatusOf, IsFrame
<1>6. CASE ~ f.failed
  <2>1. f.pc = "next" /\ f.next = Len(p) + 1  BY <1>1, <1>6
  <2>2. x = old  BY DEF Own, ReaderOK
  <2>3. /\ StatusOf(f) = "open" /\ StatusOf(g) = "closed"
        /\ g.next = f.next
        /\ PositionOf("read", s, g) = PositionOf("read", s, f)
    BY <1>6, <2>1 DEF PositionOf, StatusOf, IsFrame
  <2> QED
    BY <1>4, <2>1, <2>2, <2>3 DEF CloseSeen
<1> QED  BY <1>4, <1>5, <1>6

LEMMA OwnEndsWriting ==
    ASSUME NEW p \in Seq(Operations("write")), NEW old \in Seq(Nat), NEW bad,
           NEW x,
           NEW s, NEW f, NEW m,
           Own(p, "write", old, bad, x, s, f, m, NoRequest),
           f.pc = "close",
           NEW g, IsFrame(g, "done", f.next, f.awaits, f.call, f.failed)
    PROVE  /\ Own(p, "write", old, bad, x, s, g, m, NoRequest)
           /\ \/ CloseSeen(p, "write", old, bad, x, s, f, g)
              \/ Unseen("write", s, f, s, g)
<1>0. /\ f.awaits = "nothing" /\ FrameFits(p, "write", s, f)
      /\ s \in StreamType
  BY DEF Own, FrameFits, FrameType
<1>1. f.failed \/ f.next = Len(p) + 1
  BY DEF Own, FrameFits, FrameType
<1>2. FrameFits(p, "write", s, g)
  BY <1>1 DEF Own, FrameFits, IsFrame, InWrite
<1>3. ASSUME ~ bad
      PROVE  WriterOK(p, old, x, s, g, Landed(g, NoRequest))
  <2>1. PICK landed, yet :
            landed = Landed(f, NoRequest) /\ yet = Landed(g, NoRequest)
    OBVIOUS
  <2>2. landed /\ ~ yet
    BY <1>0, <2>1 DEF Landed, IsFrame
  <2>3. WriterOK(p, old, x, s, f, landed)  BY <1>3, <2>1 DEF Own
  <2>4. g.pc = "done" /\ g.next = f.next /\ g.failed = f.failed
    BY DEF IsFrame
  <2>5. WriterOK(p, old, x, s, g, yet)
    BY <1>0, <2>2, <2>3, <2>4, WriterDone
  <2> QED  BY <2>1, <2>5
<1>4. Own(p, "write", old, bad, x, s, g, m, NoRequest)
  BY <1>2, <1>3 DEF Own, IsFrame
<1>5. CASE f.failed
  BY <1>4, <1>5 DEF Unseen, PositionOf, StatusOf, IsFrame
<1>6. CASE ~ f.failed
  <2>1. f.next = Len(p) + 1  BY <1>1, <1>6
  <2>2. ASSUME ~ bad
        PROVE  LET all == Written(p)[f.next - 1]
               IN  x = all \o SubSeq(old, Len(all) + 1, Len(old))
    <3>1. PICK all : all = Written(p)[f.next - 1]  OBVIOUS
    <3>2. All(p, g) = all
      BY <3>1 DEF All, Before, InWrite, IsFrame
    <3>3. all \in Seq(Nat)
      <4>1. All(p, g) \in Seq(Nat)  BY <1>2, WriterBytes
      <4> QED  BY <3>2, <4>1
    <3>4. FileHolds(all, old, x, Len(all))
      BY <1>3, <2>2, <3>2 DEF WriterOK, IsFrame
    <3>5. x = all \o SubSeq(old, Len(all) + 1, Len(old))
      BY <3>3, <3>4, HoldsAll
    <3> QED  BY <3>1, <3>5
  <2>3. CloseSeen(p, "write", old, bad, x, s, f, g)
    BY <1>0, <1>6, <2>1, <2>2 DEF CloseSeen, PositionOf, StatusOf, IsFrame
  <2> QED  BY <1>4, <2>3
<1> QED  BY <1>5, <1>6

(***************************************************************************)
(* What the kernel does is not seen, but a fault happens to an open stream.*)
(***************************************************************************)
LEMMA CarriedUnseen ==
    ASSUME NEW access, NEW p, Settled(p, access), NEW old, NEW bad, NEW x,
           NEW s, NEW f, NEW m, NEW req, req # NoRequest,
           Own(p, access, old, bad, x, s, f, m, req),
           NEW o, o.bytes \in Seq(Nat), Len(o.bytes) \in 0..BufferSize,
           NEW t, t = StreamAfter(s, req, o)
    PROVE  /\ Unseen(access, s, f, t, f)
           /\ bad \/ StatusOf(f) = "open"
<1>1. FrameFits(p, access, s, f) /\ s \in StreamType /\ Asking(access, f)
      /\ req = RequestOf(p, s, f) /\ (access = "write" /\ f.failed => bad)
  BY DEF Own
<1>2. bad \/ StatusOf(f) = "open"
  BY <1>1 DEF StatusOf, FrameFits, Asking, InWrite
<1>3. CASE req.kind = "refill"
  <2>1. f.pc = "read"
    BY <1>1, <1>3 DEF RequestOf
  <2>2. PICK b : b = o.bytes  OBVIOUS
  <2>3. b \in Seq(Nat) /\ Len(b) <= BufferSize
    BY <2>2, BufferAssumption
  <2>4. t = RefilledOf(s, b)  BY <1>3, <2>2 DEF StreamAfter
  <2>5. t.fileOffset = s.fileOffset  BY <1>1, <2>3, <2>4, RefilledIs
  <2> QED  BY <1>2, <2>1, <2>5 DEF Unseen, PositionOf, CallAt
<1>4. CASE req.kind # "refill"
  BY <1>2, <1>4 DEF Unseen, StreamAfter
<1> QED  BY <1>3, <1>4

LEMMA AskUnseen ==
    ASSUME NEW access, NEW s, NEW f, NEW awaited, NEW g,
           IsFrame(g, f.pc, f.next, awaited, f.call, f.failed)
    PROVE  Unseen(access, s, f, s, g)
BY DEF Unseen, PositionOf, StatusOf, IsFrame

LEMMA CloseUnseen ==
    ASSUME NEW s, NEW f, NEW awaited, NEW g, f.pc \in {"next", "close"},
           IsFrame(g, "close", f.next, awaited, f.call, f.failed)
    PROVE  Unseen("write", s, f, s, g)
BY DEF Unseen, PositionOf, StatusOf, IsFrame

-----------------------------------------------------------------------------
(***************************************************************************)
(* What each coroutine has and is told, and that they have it apart.       *)
(***************************************************************************)
IsFunction(f) == f = [c \in Coroutine |-> f[c]]

FunctionsOK ==
    /\ IsFunction(file)
    /\ IsFunction(stream)
    /\ IsFunction(frame)
    /\ IsFunction(memory)
    /\ IsFunction(last)
    /\ IsFunction(operation)
    /\ IsFunction(request)
    /\ faulty \subseteq Coroutine

OperationType == [error : BOOLEAN, transferred : 0..BufferSize]

SettledIn(c) == Settled(program[c], mode[c]) /\ oldFile[c] \in Seq(Nat)

Faulty(c) == c \in faulty

OwnIn(c) ==
    Own(program[c], mode[c], oldFile[c], Faulty(c), file[c], stream[c],
        frame[c], memory[c], request[c])

ToldIn(c, r) ==
    Told(file[c], stream[c], frame[c], memory[c], Faulty(c), r)

Hears(c) ==
    /\ operation[c] \in OperationType
    /\ \A t \in Thread :
        at[t] = Running(c) =>
            /\ ToldIn(c, operation[c])
            /\ frame[c].pc = "close" => frame[c].failed
    /\ \A t \in Thread : at[t] = At("closing", c) => mode[c] = "write"
    /\ \A i \in DOMAIN port :
        IsCompletion(port[i], c) =>
            ToldIn(c, port[i]) /\ frame[c].pc # "close"

DataInv ==
    /\ FunctionsOK
    /\ port \in Seq(Packet)
    /\ \A c \in Coroutine : SettledIn(c) /\ OwnIn(c) /\ Hears(c)

(***************************************************************************)
(* A step leaves alone all that a coroutine has.                           *)
(***************************************************************************)
NoNewThread(d) ==
    \A t \in Thread : \A v \in {Running(d), At("closing", d)} :
        at'[t] = v => at[t] = v

NoNewPacket(d) ==
    \A i \in DOMAIN port' : IsCompletion(port'[i], d) =>
        \E j \in DOMAIN port : port[j] = port'[i]

Keeps(d) ==
    /\ file'[d] = file[d] /\ (d \in faulty' <=> d \in faulty)
    /\ stream'[d] = stream[d] /\ frame'[d] = frame[d]
    /\ memory'[d] = memory[d] /\ last'[d] = last[d]
    /\ request'[d] = request[d]

KeepsOutside(c) ==
    /\ UNCHANGED workload /\ FunctionsOK'
    /\ \A d \in Coroutine \ {c} :
        /\ Keeps(d) /\ operation'[d] = operation[d]
        /\ NoNewThread(d) /\ NoNewPacket(d)

LEMMA KeepsOwn ==
    ASSUME NEW d \in Coroutine, OwnIn(d), Keeps(d), UNCHANGED workload
    PROVE  OwnIn(d)' /\ \A r : ToldIn(d, r) => ToldIn(d, r)'
<1>1. /\ program' = program /\ mode' = mode /\ oldFile' = oldFile
      /\ file'[d] = file[d] /\ stream'[d] = stream[d]
      /\ frame'[d] = frame[d] /\ memory'[d] = memory[d]
      /\ request'[d] = request[d]
  BY DEF Keeps, workload
<1>2. Faulty(d)' = Faulty(d)  BY DEF Keeps, Faulty
<1> QED  BY <1>1, <1>2 DEF OwnIn, ToldIn

LEMMA KeepsHears ==
    ASSUME NEW d \in Coroutine, OwnIn(d), Hears(d), Keeps(d),
           UNCHANGED workload, operation'[d] = operation[d],
           NoNewThread(d), NoNewPacket(d)
    PROVE  Hears(d)'
<1>1. \A r : ToldIn(d, r) => ToldIn(d, r)'  BY KeepsOwn
<1>2. ASSUME NEW t \in Thread, at'[t] = Running(d)
      PROVE  /\ ToldIn(d, operation[d])'
             /\ frame'[d].pc = "close" => frame'[d].failed
  <2>1. at[t] = Running(d)  BY <1>2 DEF NoNewThread
  <2> QED  BY <1>1, <2>1 DEF Hears, Keeps
<1>4. ASSUME NEW t \in Thread, at'[t] = At("closing", d)
      PROVE  mode'[d] = "write"
  BY <1>4 DEF Hears, NoNewThread, workload
<1>3. ASSUME NEW i \in DOMAIN port', IsCompletion(port'[i], d)
      PROVE  ToldIn(d, port[i])' /\ frame'[d].pc # "close"
  <2>1. PICK j \in DOMAIN port : port[j] = port'[i]
    BY <1>3 DEF NoNewPacket
  <2>2. ToldIn(d, port[j]) /\ frame[d].pc # "close"
    BY <1>3, <2>1 DEF Hears
  <2> QED  BY <1>1, <2>1, <2>2 DEF Keeps
<1> QED  BY <1>2, <1>3, <1>4 DEF Hears, Running, At

(***************************************************************************)
(* What the users of a stream see of a step of its coroutine.              *)
(***************************************************************************)
SameFault(c) == c \in faulty' <=> c \in faulty

IsUnseen(c) ==
    Unseen(mode[c], stream[c], frame[c], stream'[c], frame'[c])

NotSeen(c) ==
    /\ IsUnseen(c)
    /\ last'[c] = last[c]
    /\ c \in faulty => c \in faulty'
    /\ c \in faulty \/ StatusOf(frame[c]) = "open"
       \/ (SameFault(c) /\ file'[c] = file[c])

OperationSeen(c) ==
    /\ SameFault(c) /\ file'[c] = file[c]
    /\ \/ ReadSeen(program[c], mode[c], file[c], stream[c], frame[c],
                   stream'[c], frame'[c], last'[c])
       \/ /\ last'[c] = last[c]
          /\ \/ SkipSeen(program[c], mode[c], file[c], stream[c], frame[c],
                         stream'[c], frame'[c])
             \/ WriteSeen(program[c], mode[c], stream[c], frame[c],
                          stream'[c], frame'[c])

EndSeen(c) ==
    /\ SameFault(c) /\ file'[c] = file[c] /\ last'[c] = last[c]
    /\ stream'[c] = stream[c]
    /\ \/ FailureSeen(program[c], mode[c], Faulty(c), file[c], stream[c],
                      frame[c], frame'[c])
       \/ CloseSeen(program[c], mode[c], oldFile[c], Faulty(c), file[c],
                    stream[c], frame[c], frame'[c])

StepOf(c) ==
    /\ KeepsOutside(c)
    /\ OwnIn(c)' /\ Hears(c)'
    /\ NotSeen(c) \/ OperationSeen(c) \/ EndSeen(c)

NoStep == UNCHANGED workload /\ FunctionsOK' /\
    \A d \in Coroutine :
        /\ Keeps(d) /\ operation'[d] = operation[d]
        /\ NoNewThread(d) /\ NoNewPacket(d)

(***************************************************************************)
(* The frame of a coroutine in its steps.                                  *)
(***************************************************************************)
NewFrame(c, pc, n, awaited, call, failed) ==
    /\ IsFrame(frame'[c], pc, n, awaited, call, failed)
    /\ IsFunction(frame')
    /\ \A d \in Coroutine \ {c} : frame'[d] = frame[d]

OneChanges(old, new, c) ==
    /\ IsFunction(new)
    /\ \A d \in Coroutine \ {c} : new[d] = old[d]

LEMMA OneIsSet ==
    ASSUME NEW c \in Coroutine, NEW old, IsFunction(old),
           NEW v, NEW new, new = [old EXCEPT ![c] = v]
    PROVE  OneChanges(old, new, c) /\ new[c] = v
BY DEF OneChanges, IsFunction

LEMMA FrameTyped ==
    ASSUME FunctionsOK, NEW c \in Coroutine, OwnIn(c)
    PROVE  frame[c] \in FrameType /\ IsFunction(frame)
<1>1. FrameFits(program[c], mode[c], stream[c], frame[c])
  BY DEF OwnIn, Own
<1>2. frame[c] \in FrameType  BY <1>1 DEF FrameFits
<1>3. IsFunction(frame)  BY DEF FunctionsOK
<1> QED  BY <1>2, <1>3

LEMMA ReturnFrame ==
    ASSUME FunctionsOK, NEW c \in Coroutine, OwnIn(c), Return(c)
    PROVE  NewFrame(c, "next", frame[c].next + 1, "nothing", frame[c].call,
                    frame[c].failed)
<1>1. frame[c] \in FrameType /\ IsFunction(frame)
  BY FrameTyped
<1>2. frame'[c] = [frame[c] EXCEPT !.pc = "next", !.awaits = "nothing",
                                   !.next = @ + 1]
  BY <1>1 DEF IsFunction, Return
<1>3. /\ IsFunction(frame')
      /\ \A d \in Coroutine \ {c} : frame'[d] = frame[d]
  BY <1>1 DEF IsFunction, Return
<1>4. IsFrame(frame'[c], "next", frame[c].next + 1, "nothing", frame[c].call,
              frame[c].failed)
  BY <1>1, <1>2, FrameReturns
<1> QED  BY <1>3, <1>4 DEF IsFunction, NewFrame

LEMMA ReachFrame ==
    ASSUME FunctionsOK, NEW c \in Coroutine, OwnIn(c),
           NEW pc \in {"read", "flush", "write"}, NEW call \in Call,
           Reach(c, pc, call)
    PROVE  NewFrame(c, pc, frame[c].next, "nothing", call, frame[c].failed)
<1>1. frame[c] \in FrameType /\ IsFunction(frame)
  BY FrameTyped
<1>2. frame'[c] = [frame[c] EXCEPT !.pc = pc, !.awaits = "nothing",
                                   !.call = call]
  BY <1>1 DEF IsFunction, Reach
<1>3. /\ IsFunction(frame')
      /\ \A d \in Coroutine \ {c} : frame'[d] = frame[d]
  BY <1>1 DEF IsFunction, Reach
<1>4. IsFrame(frame'[c], pc, frame[c].next, "nothing", call, frame[c].failed)
  <2>1. pc \in {"new", "next", "read", "flush", "write", "close", "done"}
    OBVIOUS
  <2> QED  BY <1>1, <1>2, <2>1, FrameReaches
<1> QED  BY <1>3, <1>4 DEF IsFunction, NewFrame

LEMMA ThrowFrame ==
    ASSUME FunctionsOK, NEW c \in Coroutine, OwnIn(c),
           NEW t \in Thread, Throw(t, c)
    PROVE  NewFrame(c, "close", frame[c].next, "nothing", frame[c].call, TRUE)
<1>1. frame[c] \in FrameType /\ IsFunction(frame)
  BY FrameTyped
<1>2. frame'[c] = [frame[c] EXCEPT !.pc = "close", !.awaits = "nothing",
                                   !.failed = TRUE]
  BY <1>1 DEF IsFunction, Throw
<1>3. /\ IsFunction(frame')
      /\ \A d \in Coroutine \ {c} : frame'[d] = frame[d]
  BY <1>1 DEF IsFunction, Throw
<1>4. IsFrame(frame'[c], "close", frame[c].next, "nothing", frame[c].call, TRUE)
  BY <1>1, <1>2, FrameFails
<1> QED  BY <1>3, <1>4 DEF IsFunction, NewFrame

LEMMA AwaitFrame ==
    ASSUME FunctionsOK, NEW c \in Coroutine, OwnIn(c),
           NEW awaited \in {"direct", "refill", "flush", "write", "schedule"},
           frame' = [frame EXCEPT ![c].awaits = awaited]
    PROVE  NewFrame(c, frame[c].pc, frame[c].next, awaited, frame[c].call,
                    frame[c].failed)
<1>1. frame[c] \in FrameType /\ IsFunction(frame)
  BY FrameTyped
<1>2. frame'[c] = [frame[c] EXCEPT !.awaits = awaited]
  BY <1>1 DEF IsFunction
<1>4. IsFrame(frame'[c], frame[c].pc, frame[c].next, awaited, frame[c].call,
              frame[c].failed)
  BY <1>1, <1>2, FrameAwaits
<1> QED  BY <1>1, <1>4 DEF IsFunction, NewFrame

LEMMA PlaceFrame ==
    ASSUME FunctionsOK, NEW c \in Coroutine, OwnIn(c),
           NEW pc \in {"next", "close", "done"},
           frame' = [frame EXCEPT ![c].pc = pc]
    PROVE  NewFrame(c, pc, frame[c].next, frame[c].awaits, frame[c].call,
                    frame[c].failed)
<1>1. frame[c] \in FrameType /\ IsFunction(frame)
  BY FrameTyped
<1>2. frame'[c] = [frame[c] EXCEPT !.pc = pc]
  BY <1>1 DEF IsFunction
<1>4. IsFrame(frame'[c], pc, frame[c].next, frame[c].awaits, frame[c].call,
              frame[c].failed)
  BY <1>1, <1>2, FramePlaced
<1> QED  BY <1>1, <1>4 DEF IsFunction, NewFrame

(***************************************************************************)
(* A thread in its coroutine changes what no other coroutine has.          *)
(***************************************************************************)
Confined(old, new, c) == new = old \/ \E v : new = [old EXCEPT ![c] = v]

LEMMA ConfinedIs ==
    ASSUME NEW c \in Coroutine, NEW old, IsFunction(old),
           NEW new, Confined(old, new, c)
    PROVE  OneChanges(old, new, c)
<1>1. CASE new = old
  BY <1>1 DEF OneChanges
<1>2. ASSUME NEW v, new = [old EXCEPT ![c] = v]
      PROVE  OneChanges(old, new, c)
  BY <1>2 DEF OneChanges, IsFunction
<1> QED  BY <1>1, <1>2 DEF Confined

DataConfined(c) ==
    /\ Confined(file, file', c) /\ Confined(stream, stream', c)
    /\ Confined(memory, memory', c) /\ Confined(last, last', c)
    /\ Confined(operation, operation', c) /\ Confined(request, request', c)
    /\ faulty' = faulty \/ faulty' = faulty \union {c}
    /\ UNCHANGED workload

LEMMA ConfinedKeeps ==
    ASSUME FunctionsOK, NEW c \in Coroutine, DataConfined(c),
           OneChanges(frame, frame', c),
           \A d \in Coroutine \ {c} : NoNewThread(d) /\ NoNewPacket(d)
    PROVE  KeepsOutside(c)
<1>1. /\ OneChanges(file, file', c) /\ OneChanges(stream, stream', c)
      /\ OneChanges(memory, memory', c) /\ OneChanges(last, last', c)
      /\ OneChanges(operation, operation', c)
      /\ OneChanges(request, request', c)
  BY ConfinedIs DEF FunctionsOK, DataConfined
<1>2. FunctionsOK'
  BY <1>1 DEF OneChanges, FunctionsOK, DataConfined
<1>3. ASSUME NEW d \in Coroutine \ {c}
      PROVE  Keeps(d) /\ operation'[d] = operation[d]
  BY <1>1 DEF OneChanges, Keeps, DataConfined
<1> QED  BY <1>2, <1>3 DEF KeepsOutside, DataConfined

LEMMA OwnStepKeeps ==
    ASSUME FunctionsOK, NEW t \in Thread, NEW c \in Coroutine, OwnStep(t, c),
           DataConfined(c), IsFunction(frame')
    PROVE  KeepsOutside(c)
<1>1. OneChanges(frame, frame', c)
  BY DEF OwnStep, OwnFrame, OneChanges
<1>2. ASSUME NEW d \in Coroutine \ {c}
      PROVE  NoNewThread(d) /\ NoNewPacket(d)
  <2>1. NoNewThread(d)
    BY DEF OwnStep, NoNewThread, Running, At
  <2>2. NoNewPacket(d)  BY DEF OwnStep, portVars, NoNewPacket
  <2> QED  BY <2>1, <2>2
<1> QED  BY <1>1, <1>2, ConfinedKeeps

(***************************************************************************)
(* A coroutine that does not await a transfer is told nothing of one.      *)
(***************************************************************************)
LEMMA ToldNothing ==
    ASSUME NEW x, NEW s, NEW f, NEW m, NEW bad, NEW r,
           f.awaits \in {"nothing", "schedule"}
    PROVE  Told(x, s, f, m, bad, r)
BY DEF Told

LEMMA SilentHears ==
    ASSUME NEW c \in Coroutine, operation'[c] \in OperationType,
           frame'[c].awaits \in {"nothing", "schedule"},
           \A t \in Thread : at'[t] = At("closing", c) => mode'[c] = "write",
           frame'[c].pc = "close" =>
                /\ ~ Has(port', c)
                /\ \A t \in Thread :
                    at'[t] = Running(c) => frame'[c].failed
    PROVE  Hears(c)'
<1>1. \A r : ToldIn(c, r)'
  <2> TAKE r
  <2>1. frame'[c].awaits \in {"nothing", "schedule"}  OBVIOUS
  <2>2. \A x, s, f, m, bad : f.awaits \in {"nothing", "schedule"}
                                => Told(x, s, f, m, bad, r)
    BY ToldNothing
  <2> QED  BY <2>1, <2>2 DEF ToldIn
<1>2. ASSUME NEW i \in DOMAIN port', IsCompletion(port'[i], c)
      PROVE  frame'[c].pc # "close"
  BY <1>2 DEF Has
<1> QED  BY <1>1, <1>2 DEF Hears, Running, At

(***************************************************************************)
(* A coroutine that a thread runs has no operation under way.              *)
(***************************************************************************)
OwnNow(c) ==
    Own(program[c], mode[c], oldFile[c], Faulty(c), file[c], stream[c],
        frame[c], memory[c], NoRequest)

LEMMA Runner ==
    ASSUME TokenInv, DataInv, NEW t \in Thread, NEW c \in Coroutine,
           at[t] = Running(c)
    PROVE  /\ request[c] = NoRequest /\ ~ Has(port, c)
           /\ SettledIn(c) /\ OwnIn(c) /\ OwnNow(c) /\ FunctionsOK
           /\ Hears(c) /\ operation[c] \in OperationType
           /\ ToldIn(c, operation[c])
           /\ \A u \in Thread \ {t} : at[u] # Running(c)
           /\ frame[c].pc = "close" => frame[c].failed
<1>1. Holds(t, c) /\ at[t] = At("run", c)  BY DEF Holds, Running, At
<1>2. Token(c) /\ Place(c)  BY DEF TokenInv
<1>3. ~ Pending(c) /\ ~ Has(port, c)  BY <1>1, <1>2 DEF Token
<1>4. request[c] = NoRequest  BY <1>1, <1>2, <1>3 DEF Place, Pending
<1>5. \A u \in Thread \ {t} : at[u] # Running(c)
  BY <1>1, <1>2 DEF Token, Holds, Running, At
<1>6. SettledIn(c) /\ OwnIn(c) /\ FunctionsOK /\ Hears(c)  BY DEF DataInv
<1>7. OwnNow(c)  BY <1>4, <1>6 DEF OwnIn, OwnNow
<1> QED  BY <1>3, <1>4, <1>5, <1>6, <1>7 DEF Hears

LEMMA ThreadStep ==
    ASSUME FunctionsOK, NEW t \in Thread, NEW c \in Coroutine, OwnStep(t, c),
           Hears(c), request[c] = NoRequest,
           at' = at \/ at'[t] = At("notify", c),
           ~ Has(port, c),
           UNCHANGED <<workload, file, faulty, operation, request>>,
           Confined(stream, stream', c), Confined(memory, memory', c),
           Confined(last, last', c), IsFunction(frame'),
           frame'[c].awaits = "nothing",
           frame'[c].pc = "close" => frame'[c].failed,
           Own(program[c], mode[c], oldFile[c], Faulty(c), file[c],
               stream'[c], frame'[c], memory'[c], NoRequest),
           NotSeen(c) \/ OperationSeen(c) \/ EndSeen(c)
    PROVE  StepOf(c)
<1>1. DataConfined(c)  BY DEF DataConfined, Confined
<1>2. KeepsOutside(c)  BY <1>1, OwnStepKeeps
<1>3. Hears(c)'
  <2>1. operation'[c] \in OperationType /\ ~ Has(port', c)
    BY DEF OwnStep, portVars, Hears
  <2>2. \A u \in Thread : at'[u] = At("closing", c) => mode'[c] = "write"
    BY DEF OwnStep, Hears, At, workload
  <2> QED  BY <2>1, <2>2, SilentHears
<1>4. OwnIn(c)'
  <2>1. /\ program' = program /\ mode' = mode /\ oldFile' = oldFile
        /\ file' = file /\ request'[c] = NoRequest
    BY DEF workload
  <2>2. Faulty(c)' = Faulty(c)  BY DEF Faulty
  <2> QED  BY <2>1, <2>2 DEF OwnIn
<1> QED  BY <1>2, <1>3, <1>4 DEF StepOf

(***************************************************************************)
(* The steps of a thread in a coroutine, one after the other.              *)
(***************************************************************************)
LEMMA BeginSkipStep ==
    ASSUME TokenInv, DataInv, NEW t \in Thread, NEW c \in Coroutine,
           BeginSkip(t, c)
    PROVE  StepOf(c)
<1>1. at[t] = Running(c) /\ Return(c)
      /\ UNCHANGED <<workload, file, faulty, memory, last, operation, request,
                   at>>
  BY DEF BeginSkip, Begins, Runs, kernelVars
<1>2. /\ request[c] = NoRequest /\ ~ Has(port, c) /\ FunctionsOK
      /\ SettledIn(c) /\ OwnIn(c) /\ OwnNow(c) /\ Hears(c)
  BY <1>1, Runner
<1>3. OwnStep(t, c)
  BY OwnSteps DEF RunCoroutine, Schedule, BeginSkip, Begins
<1>4. NewFrame(c, "next", frame[c].next + 1, "nothing", frame[c].call,
               frame[c].failed)
  BY <1>1, <1>2, ReturnFrame
<1>5. IsFrame(frame'[c], "next", frame[c].next + 1, "nothing", frame[c].call,
              frame[c].failed) /\ IsFunction(frame')
  BY <1>4 DEF NewFrame
<1>6. \/ /\ BeginsOp(program[c], frame[c], "skipTo")
         /\ stream'[c] = SkippedTo(stream[c], program[c][frame[c].next].offset)
      \/ /\ BeginsOp(program[c], frame[c], "skip")
         /\ stream'[c] = Skipped(stream[c], program[c][frame[c].next].offset)
  BY <1>2 DEF BeginSkip, Begins, Runs, BeginsOp, Current, FunctionsOK,
              IsFunction
<1>7. Confined(stream, stream', c)  BY DEF BeginSkip, Confined
<1>8. /\ Own(program[c], mode[c], oldFile[c], Faulty(c), file[c],
             stream'[c], frame'[c], memory[c], NoRequest)
      /\ SkipSeen(program[c], mode[c], file[c], stream[c], frame[c],
                  stream'[c], frame'[c])
  BY <1>2, <1>5, <1>6, OwnSkips DEF SettledIn, OwnNow
<1>9. OperationSeen(c)  BY <1>1, <1>8 DEF OperationSeen, SameFault
<1>10. Confined(memory, memory', c) /\ Confined(last, last', c)
  BY <1>1 DEF Confined
<1>11. frame'[c].awaits = "nothing" /\ frame'[c].pc # "close"
  BY <1>5 DEF IsFrame
<1> QED
  BY <1>1, <1>2, <1>3, <1>5, <1>7, <1>8, <1>9, <1>10, <1>11, ThreadStep

LEMMA BeginReadStep ==
    ASSUME TokenInv, DataInv, NEW t \in Thread, NEW c \in Coroutine,
           BeginRead(t, c)
    PROVE  StepOf(c)
<1> DEFINE n == program[c][frame[c].next].count
           call == ReadCall(stream[c], n)
<1>1. at[t] = Running(c)
      /\ UNCHANGED <<workload, file, faulty, operation, request, at>>
  BY DEF BeginRead, Begins, Runs, kernelVars
<1>2. /\ request[c] = NoRequest /\ ~ Has(port, c) /\ FunctionsOK
      /\ SettledIn(c) /\ OwnIn(c) /\ OwnNow(c) /\ Hears(c)
  BY <1>1, Runner
<1>3. OwnStep(t, c)
  BY OwnSteps DEF RunCoroutine, Schedule, BeginRead, Begins
<1>4. BeginsOp(program[c], frame[c], "read")
  BY DEF BeginRead, Begins, Runs, BeginsOp
<1>5. CASE InBuffer(stream[c], n)
  <2>1. /\ memory' = [memory EXCEPT ![c] = FromBuffer(stream[c], n)]
        /\ stream' = [stream EXCEPT ![c] = Advanced(stream[c], n)]
        /\ last' = [last EXCEPT ![c] = memory'[c]]
        /\ Return(c)
    BY <1>2, <1>5 DEF BeginRead, Current, ReturnRead, FunctionsOK, IsFunction
  <2>2. /\ memory'[c] = FromBuffer(stream[c], n)
        /\ stream'[c] = Advanced(stream[c], n)
        /\ last'[c] = memory'[c]
        /\ Confined(stream, stream', c) /\ Confined(memory, memory', c)
        /\ Confined(last, last', c)
    BY <1>2, <2>1 DEF Confined, FunctionsOK, IsFunction
  <2>3. IsFrame(frame'[c], "next", frame[c].next + 1, "nothing",
                frame[c].call, frame[c].failed) /\ IsFunction(frame')
    BY <1>2, <2>1, ReturnFrame DEF NewFrame
  <2>4. /\ Own(program[c], mode[c], oldFile[c], Faulty(c), file[c],
               stream'[c], frame'[c], memory'[c], NoRequest)
        /\ ReadSeen(program[c], mode[c], file[c], stream[c], frame[c],
                    stream'[c], frame'[c], memory'[c])
    BY <1>2, <1>4, <1>5, <2>2, <2>3, OwnReadsBuffer DEF SettledIn, OwnNow
  <2>5. OperationSeen(c)
    BY <1>1, <2>2, <2>4 DEF OperationSeen, SameFault
  <2>6. frame'[c].awaits = "nothing" /\ frame'[c].pc # "close"
    BY <2>3 DEF IsFrame
  <2> QED
    BY <1>1, <1>2, <1>3, <2>2, <2>3, <2>4, <2>5, <2>6, ThreadStep
<1>6. CASE ~ InBuffer(stream[c], n)
  <2>1. /\ memory' = [memory EXCEPT ![c] = Remainder(stream[c])]
        /\ stream' = [stream EXCEPT ![c] = Emptied(stream[c])]
        /\ \/ /\ call.left = 0 /\ Return(c)
              /\ last' = [last EXCEPT ![c] = memory'[c]]
           \/ call.left # 0 /\ Reach(c, "read", call) /\ last' = last
    BY <1>2, <1>6 DEF BeginRead, Current, ReturnRead, FunctionsOK, IsFunction
  <2>2. /\ memory'[c] = Remainder(stream[c])
        /\ stream'[c] = Emptied(stream[c])
        /\ Confined(stream, stream', c) /\ Confined(memory, memory', c)
        /\ Confined(last, last', c)
    BY <1>2, <2>1 DEF Confined, FunctionsOK, IsFunction
  <2>3. PICK k : k = call  OBVIOUS
  <2>4. \A g :
          /\ k \in Call
          /\ /\ k.left = 0
             /\ IsFrame(g, "next", frame[c].next + 1, "nothing",
                        frame[c].call, frame[c].failed)
             => /\ Own(program[c], mode[c], oldFile[c], Faulty(c), file[c],
                       stream'[c], g, memory'[c], NoRequest)
                /\ ReadSeen(program[c], mode[c], file[c], stream[c],
                            frame[c], stream'[c], g, memory'[c])
          /\ /\ k.left # 0
             /\ IsFrame(g, "read", frame[c].next, "nothing", k,
                        frame[c].failed)
             => /\ Own(program[c], mode[c], oldFile[c], Faulty(c), file[c],
                       stream'[c], g, memory'[c], NoRequest)
                /\ Unseen(mode[c], stream[c], frame[c], stream'[c], g)
    BY <1>2, <1>4, <1>6, <2>2, <2>3, OwnReadsRest DEF SettledIn, OwnNow
  <2>5. CASE k.left = 0
    <3>1. Return(c) /\ last'[c] = memory'[c]
      BY <1>2, <2>1, <2>3, <2>5 DEF FunctionsOK, IsFunction
    <3>2. IsFrame(frame'[c], "next", frame[c].next + 1, "nothing",
                  frame[c].call, frame[c].failed) /\ IsFunction(frame')
      BY <1>2, <3>1, ReturnFrame DEF NewFrame
    <3>3. /\ Own(program[c], mode[c], oldFile[c], Faulty(c), file[c],
                 stream'[c], frame'[c], memory'[c], NoRequest)
          /\ ReadSeen(program[c], mode[c], file[c], stream[c], frame[c],
                      stream'[c], frame'[c], memory'[c])
      BY <2>4, <2>5, <3>2
    <3>4. OperationSeen(c)
      BY <1>1, <3>1, <3>3 DEF OperationSeen, SameFault
    <3>5. frame'[c].awaits = "nothing" /\ frame'[c].pc # "close"
      BY <3>2 DEF IsFrame
    <3> QED
      BY <1>1, <1>2, <1>3, <2>2, <3>2, <3>3, <3>4, <3>5, ThreadStep
  <2>6. CASE k.left # 0
    <3>1. Reach(c, "read", k) /\ last' = last
      BY <2>1, <2>3, <2>6
    <3>2. IsFrame(frame'[c], "read", frame[c].next, "nothing", k,
                  frame[c].failed) /\ IsFunction(frame')
      <4>1. k \in Call  BY <2>4
      <4> QED  BY <1>2, <3>1, <4>1, ReachFrame DEF NewFrame
    <3>3. /\ Own(program[c], mode[c], oldFile[c], Faulty(c), file[c],
                 stream'[c], frame'[c], memory'[c], NoRequest)
          /\ Unseen(mode[c], stream[c], frame[c], stream'[c], frame'[c])
      BY <2>4, <2>6, <3>2
    <3>4. NotSeen(c)
      BY <1>1, <3>1, <3>3 DEF NotSeen, IsUnseen, SameFault
    <3>5. frame'[c].awaits = "nothing" /\ frame'[c].pc # "close"
      BY <3>2 DEF IsFrame
    <3> QED
      BY <1>1, <1>2, <1>3, <2>2, <3>2, <3>3, <3>4, <3>5, ThreadStep
  <2> QED  BY <2>5, <2>6
<1> QED  BY <1>5, <1>6

LEMMA ResumeDirectStep ==
    ASSUME TokenInv, DataInv, NEW t \in Thread, NEW c \in Coroutine,
           ResumeDirect(t, c)
    PROVE  StepOf(c)
<1>1. at[t] = Running(c) /\ frame[c].awaits = "direct" /\ ~ operation[c].error
      /\ UNCHANGED <<workload, file, faulty, memory, operation, request, at>>
  BY DEF ResumeDirect, Resumes, kernelVars
<1>2. /\ request[c] = NoRequest /\ ~ Has(port, c) /\ FunctionsOK
      /\ SettledIn(c) /\ OwnIn(c) /\ OwnNow(c) /\ Hears(c)
      /\ ToldIn(c, operation[c])
  BY <1>1, Runner
<1>3. OwnStep(t, c)
  <2>1. ~ Schedule(t, c)  BY <1>1 DEF Schedule, Begins, Runs
  <2> QED  BY <2>1, OwnSteps DEF RunCoroutine
<1>4. PICK r : r = operation[c]  OBVIOUS
<1>5. PICK k : k = CallAfter(frame[c].call, r.transferred)  OBVIOUS
<1>6. /\ stream' = [stream EXCEPT ![c] = AfterDirect(stream[c], r.transferred)]
      /\ \/ /\ ShortRead(r.transferred) \/ k.left = 0
            /\ Return(c)
            /\ last' = [last EXCEPT ![c] = SubSeq(memory[c], 1, k.moved)]
         \/ /\ ~ (ShortRead(r.transferred) \/ k.left = 0)
            /\ Reach(c, "read", k) /\ last' = last
  BY <1>2, <1>4, <1>5 DEF ResumeDirect, ReturnRead, FunctionsOK, IsFunction
<1>7. /\ stream'[c] = AfterDirect(stream[c], r.transferred)
      /\ Confined(stream, stream', c) /\ Confined(memory, memory', c)
      /\ Confined(last, last', c)
  BY <1>1, <1>2, <1>6 DEF Confined, FunctionsOK, IsFunction
<1>8. \A g :
        /\ k \in Call
        /\ /\ ShortRead(r.transferred) \/ k.left = 0
           /\ IsFrame(g, "next", frame[c].next + 1, "nothing",
                      frame[c].call, frame[c].failed)
           => /\ Own(program[c], mode[c], oldFile[c], Faulty(c), file[c],
                     stream'[c], g, memory[c], NoRequest)
              /\ ReadSeen(program[c], mode[c], file[c], stream[c],
                          frame[c], stream'[c], g,
                          SubSeq(memory[c], 1, k.moved))
        /\ /\ ~ (ShortRead(r.transferred) \/ k.left = 0)
           /\ IsFrame(g, "read", frame[c].next, "nothing", k, frame[c].failed)
           => /\ Own(program[c], mode[c], oldFile[c], Faulty(c), file[c],
                     stream'[c], g, memory[c], NoRequest)
              /\ Unseen(mode[c], stream[c], frame[c], stream'[c], g)
  <2>1. r.transferred \in Nat /\ ~ r.error
    BY <1>1, <1>2, <1>4, BufferAssumption DEF Hears, OperationType
  <2>2. Told(file[c], stream[c], frame[c], memory[c], Faulty(c), r)
    BY <1>2, <1>4 DEF ToldIn
  <2> QED
    <3>1. /\ Settled(program[c], mode[c])
          /\ Own(program[c], mode[c], oldFile[c], Faulty(c), file[c],
                 stream[c], frame[c], memory[c], NoRequest)
      BY <1>2 DEF SettledIn, OwnNow
    <3>2. frame[c].awaits = "direct"  BY <1>1
    <3>3. stream'[c] = AfterDirect(stream[c], r.transferred)  BY <1>7
    <3> QED
      BY <1>5, <2>1, <2>2, <3>1, <3>2, <3>3, OwnResumesDirect
<1>9. CASE ShortRead(r.transferred) \/ k.left = 0
  <2>1. Return(c) /\ last'[c] = SubSeq(memory[c], 1, k.moved)
    BY <1>2, <1>6, <1>9 DEF FunctionsOK, IsFunction
  <2>2. IsFrame(frame'[c], "next", frame[c].next + 1, "nothing",
                frame[c].call, frame[c].failed) /\ IsFunction(frame')
    BY <1>2, <2>1, ReturnFrame DEF NewFrame
  <2>3. /\ Own(program[c], mode[c], oldFile[c], Faulty(c), file[c],
               stream'[c], frame'[c], memory'[c], NoRequest)
        /\ ReadSeen(program[c], mode[c], file[c], stream[c], frame[c],
                    stream'[c], frame'[c], last'[c])
    BY <1>1, <1>8, <1>9, <2>1, <2>2
  <2>4. OperationSeen(c)
    BY <1>1, <2>3 DEF OperationSeen, SameFault
  <2>5. frame'[c].awaits = "nothing" /\ frame'[c].pc # "close"
    BY <2>2 DEF IsFrame
  <2> QED
    BY <1>1, <1>2, <1>3, <1>7, <2>2, <2>3, <2>4, <2>5, ThreadStep
<1>10. CASE ~ (ShortRead(r.transferred) \/ k.left = 0)
  <2>1. Reach(c, "read", k) /\ last' = last
    BY <1>6, <1>10
  <2>2. IsFrame(frame'[c], "read", frame[c].next, "nothing", k,
                frame[c].failed) /\ IsFunction(frame')
    <3>1. k \in Call  BY <1>8
    <3> QED  BY <1>2, <2>1, <3>1, ReachFrame DEF NewFrame
  <2>3. /\ Own(program[c], mode[c], oldFile[c], Faulty(c), file[c],
               stream'[c], frame'[c], memory'[c], NoRequest)
        /\ Unseen(mode[c], stream[c], frame[c], stream'[c], frame'[c])
    BY <1>1, <1>8, <1>10, <2>2
  <2>4. NotSeen(c)
    BY <1>1, <2>1, <2>3 DEF NotSeen, IsUnseen, SameFault
  <2>5. frame'[c].awaits = "nothing" /\ frame'[c].pc # "close"
    BY <2>2 DEF IsFrame
  <2> QED
    BY <1>1, <1>2, <1>3, <1>7, <2>2, <2>3, <2>4, <2>5, ThreadStep
<1> QED  BY <1>9, <1>10

LEMMA ResumeRefillStep ==
    ASSUME TokenInv, DataInv, NEW t \in Thread, NEW c \in Coroutine,
           ResumeRefill(t, c)
    PROVE  StepOf(c)
<1>1. at[t] = Running(c) /\ frame[c].awaits = "refill" /\ ~ operation[c].error
      /\ UNCHANGED <<workload, file, faulty, operation, request, at>>
  BY DEF ResumeRefill, Resumes, kernelVars
<1>2. /\ request[c] = NoRequest /\ ~ Has(port, c) /\ FunctionsOK
      /\ SettledIn(c) /\ OwnIn(c) /\ OwnNow(c) /\ Hears(c)
      /\ ToldIn(c, operation[c])
  BY <1>1, Runner
<1>3. OwnStep(t, c)
  <2>1. ~ Schedule(t, c)  BY <1>1 DEF Schedule, Begins, Runs
  <2> QED  BY <2>1, OwnSteps DEF RunCoroutine
<1>4. PICK r : r = operation[c]  OBVIOUS
<1>5. PICK q : q = Gathered(stream[c], memory[c], frame[c].call, r.transferred)
  OBVIOUS
<1>6. /\ stream' = [stream EXCEPT ![c] =
                        AfterRefill(stream[c], frame[c].call, r.transferred)]
      /\ memory' = [memory EXCEPT ![c] = q]
      /\ Return(c) /\ last' = [last EXCEPT ![c] = memory'[c]]
  BY <1>2, <1>4, <1>5
  DEF ResumeRefill, ReturnRead, Gathered, FunctionsOK, IsFunction
<1>7. /\ stream'[c] = AfterRefill(stream[c], frame[c].call, r.transferred)
      /\ memory'[c] = q /\ last'[c] = q
      /\ Confined(stream, stream', c) /\ Confined(memory, memory', c)
      /\ Confined(last, last', c)
  BY <1>2, <1>6 DEF Confined, FunctionsOK, IsFunction
<1>8. IsFrame(frame'[c], "next", frame[c].next + 1, "nothing",
              frame[c].call, frame[c].failed) /\ IsFunction(frame')
  BY <1>2, <1>6, ReturnFrame DEF NewFrame
<1>9. /\ Own(program[c], mode[c], oldFile[c], Faulty(c), file[c],
             stream'[c], frame'[c], q, NoRequest)
      /\ ReadSeen(program[c], mode[c], file[c], stream[c], frame[c],
                  stream'[c], frame'[c], q)
  <2>1. Told(file[c], stream[c], frame[c], memory[c], Faulty(c), r)
    BY <1>2, <1>4 DEF ToldIn
  <2> QED
    BY <1>1, <1>2, <1>4, <1>5, <1>7, <1>8, <2>1, OwnResumesRefill
    DEF SettledIn, OwnNow
<1>10. OperationSeen(c)
  BY <1>1, <1>7, <1>9 DEF OperationSeen, SameFault
<1>11. frame'[c].awaits = "nothing" /\ frame'[c].pc # "close"
  BY <1>8 DEF IsFrame
<1> QED
  BY <1>1, <1>2, <1>3, <1>7, <1>8, <1>9, <1>10, <1>11, ThreadStep

LEMMA BeginWriteStep ==
    ASSUME TokenInv, DataInv, NEW t \in Thread, NEW c \in Coroutine,
           BeginWrite(t, c)
    PROVE  StepOf(c)
<1> DEFINE bytes == program[c][frame[c].next].bytes
<1>1. at[t] = Running(c)
      /\ UNCHANGED <<workload, file, faulty, memory, last, operation, request,
                     at>>
  BY DEF BeginWrite, Begins, Runs, kernelVars
<1>2. /\ request[c] = NoRequest /\ ~ Has(port, c) /\ FunctionsOK
      /\ SettledIn(c) /\ OwnIn(c) /\ OwnNow(c) /\ Hears(c)
  BY <1>1, Runner
<1>3. OwnStep(t, c)
  BY OwnSteps DEF RunCoroutine, Schedule, BeginWrite, Begins
<1>4. BeginsOp(program[c], frame[c], "write")
  BY DEF BeginWrite, Begins, Runs, BeginsOp
<1>5. Confined(memory, memory', c) /\ Confined(last, last', c)
  BY <1>1 DEF Confined
<1>6. CASE FitsBuffer(stream[c], bytes)
  <2>1. /\ stream' = [stream EXCEPT ![c] = Kept(stream[c], bytes)]
        /\ Return(c)
    BY <1>2, <1>6 DEF BeginWrite, Current, FunctionsOK, IsFunction
  <2>2. stream'[c] = Kept(stream[c], bytes) /\ Confined(stream, stream', c)
    BY <1>2, <2>1 DEF Confined, FunctionsOK, IsFunction
  <2>3. IsFrame(frame'[c], "next", frame[c].next + 1, "nothing",
                frame[c].call, frame[c].failed) /\ IsFunction(frame')
    BY <1>2, <2>1, ReturnFrame DEF NewFrame
  <2>4. /\ Own(program[c], mode[c], oldFile[c], Faulty(c), file[c],
               stream'[c], frame'[c], memory[c], NoRequest)
        /\ WriteSeen(program[c], mode[c], stream[c], frame[c],
                     stream'[c], frame'[c])
    BY <1>2, <1>4, <1>6, <2>2, <2>3, OwnKeeps DEF SettledIn, OwnNow
  <2>5. OperationSeen(c)
    BY <1>1, <2>4 DEF OperationSeen, SameFault
  <2>6. frame'[c].awaits = "nothing" /\ frame'[c].pc # "close"
    BY <2>3 DEF IsFrame
  <2> QED
    BY <1>1, <1>2, <1>3, <1>5, <2>2, <2>3, <2>4, <2>5, <2>6, ThreadStep
<1>7. CASE ~ FitsBuffer(stream[c], bytes)
  <2>1. /\ stream' = [stream EXCEPT ![c] = Filled(stream[c], bytes)]
        /\ Reach(c, "flush", WriteCall(stream[c], bytes))
    BY <1>2, <1>7 DEF BeginWrite, Current, FunctionsOK, IsFunction
  <2>2. stream'[c] = Filled(stream[c], bytes) /\ Confined(stream, stream', c)
    BY <1>2, <2>1 DEF Confined, FunctionsOK, IsFunction
  <2>3. PICK k : k = WriteCall(stream[c], bytes)  OBVIOUS
  <2>4. \A g :
          /\ k \in Call
          /\ IsFrame(g, "flush", frame[c].next, "nothing", k, frame[c].failed)
             => /\ Own(program[c], mode[c], oldFile[c], Faulty(c), file[c],
                       stream'[c], g, memory[c], NoRequest)
                /\ Unseen(mode[c], stream[c], frame[c], stream'[c], g)
    BY <1>2, <1>4, <1>7, <2>2, <2>3, OwnFills DEF SettledIn, OwnNow
  <2>5. IsFrame(frame'[c], "flush", frame[c].next, "nothing", k,
                frame[c].failed) /\ IsFunction(frame')
    <3>1. k \in Call /\ Reach(c, "flush", k)  BY <2>1, <2>3, <2>4
    <3> QED  BY <1>2, <3>1, ReachFrame DEF NewFrame
  <2>6. /\ Own(program[c], mode[c], oldFile[c], Faulty(c), file[c],
               stream'[c], frame'[c], memory[c], NoRequest)
        /\ Unseen(mode[c], stream[c], frame[c], stream'[c], frame'[c])
    BY <2>4, <2>5
  <2>7. NotSeen(c)
    BY <1>1, <2>6 DEF NotSeen, IsUnseen, SameFault
  <2>8. frame'[c].awaits = "nothing" /\ frame'[c].pc # "close"
    BY <2>5 DEF IsFrame
  <2> QED
    BY <1>1, <1>2, <1>3, <1>5, <2>2, <2>5, <2>6, <2>7, <2>8, ThreadStep
<1> QED  BY <1>6, <1>7

LEMMA ResumeWriteStep ==
    ASSUME TokenInv, DataInv, NEW t \in Thread, NEW c \in Coroutine,
           ResumeWrite(t, c)
    PROVE  StepOf(c)
<1> DEFINE bytes == program[c][frame[c].next].bytes
<1>1. at[t] = Running(c) /\ frame[c].awaits \in {"flush", "write"}
      /\ ~ operation[c].error
      /\ UNCHANGED <<workload, file, faulty, memory, last, operation, request,
                     at>>
  BY DEF ResumeWrite, Resumes, kernelVars
<1>2. /\ request[c] = NoRequest /\ ~ Has(port, c) /\ FunctionsOK
      /\ SettledIn(c) /\ OwnIn(c) /\ OwnNow(c) /\ Hears(c)
      /\ ToldIn(c, operation[c])
  BY <1>1, Runner
<1>3. OwnStep(t, c)
  <2>1. ~ Schedule(t, c)  BY <1>1 DEF Schedule, Begins, Runs
  <2> QED  BY <2>1, OwnSteps DEF RunCoroutine
<1>4. PICK k : k = CallNow(frame[c])  OBVIOUS
<1>5. Continue(c, k)
  <2>1. frame[c].pc = frame[c].awaits
    BY <1>1, <1>2 DEF OwnNow, Own, FrameFits
  <2>2. frame[c].awaits = "write" => operation[c].transferred = BufferSize
    <3>1. Told(file[c], stream[c], frame[c], memory[c], Faulty(c),
               operation[c])
      BY <1>2 DEF ToldIn
    <3> QED  BY <1>1, <3>1 DEF Told
  <2> QED
    BY <1>1, <1>4, <2>1, <2>2 DEF ResumeWrite, Resumes, CallNow
<1>6. \A u, g :
        /\ k \in Call
        /\ /\ Direct(k) /\ u = AfterWrite(stream[c])
           /\ IsFrame(g, "write", frame[c].next, "nothing", k, frame[c].failed)
           => /\ Own(program[c], mode[c], oldFile[c], Faulty(c), file[c],
                     u, g, memory[c], NoRequest)
              /\ Unseen(mode[c], stream[c], frame[c], u, g)
        /\ /\ ~ Direct(k)
           /\ u = Kept(AfterWrite(stream[c]), Rest(k, bytes))
           /\ IsFrame(g, "next", frame[c].next + 1, "nothing",
                      frame[c].call, frame[c].failed)
           => /\ Own(program[c], mode[c], oldFile[c], Faulty(c), file[c],
                     u, g, memory[c], NoRequest)
              /\ WriteSeen(program[c], mode[c], stream[c], frame[c], u, g)
  <2>1. /\ Settled(program[c], mode[c])
        /\ Own(program[c], mode[c], oldFile[c], Faulty(c), file[c],
               stream[c], frame[c], memory[c], NoRequest)
    BY <1>2 DEF SettledIn, OwnNow
  <2>2. frame[c].awaits \in {"flush", "write"}  BY <1>1
  <2> QED  BY <1>4, <2>1, <2>2, OwnContinues
<1>7. Confined(memory, memory', c) /\ Confined(last, last', c)
  BY <1>1 DEF Confined
<1>8. CASE Direct(k)
  <2>1. /\ stream' = [stream EXCEPT ![c] = AfterWrite(stream[c])]
        /\ Reach(c, "write", k)
    BY <1>2, <1>5, <1>8 DEF Continue, FunctionsOK, IsFunction
  <2>2. stream'[c] = AfterWrite(stream[c]) /\ Confined(stream, stream', c)
    BY <1>2, <2>1 DEF Confined, FunctionsOK, IsFunction
  <2>3. IsFrame(frame'[c], "write", frame[c].next, "nothing", k,
                frame[c].failed) /\ IsFunction(frame')
    <3>1. k \in Call  BY <1>6
    <3> QED  BY <1>2, <2>1, <3>1, ReachFrame DEF NewFrame
  <2>4. /\ Own(program[c], mode[c], oldFile[c], Faulty(c), file[c],
               stream'[c], frame'[c], memory[c], NoRequest)
        /\ Unseen(mode[c], stream[c], frame[c], stream'[c], frame'[c])
    BY <1>6, <1>8, <2>2, <2>3
  <2>5. NotSeen(c)
    BY <1>1, <2>4 DEF NotSeen, IsUnseen, SameFault
  <2>6. frame'[c].awaits = "nothing" /\ frame'[c].pc # "close"
    BY <2>3 DEF IsFrame
  <2> QED
    BY <1>1, <1>2, <1>3, <1>7, <2>2, <2>3, <2>4, <2>5, <2>6, ThreadStep
<1>9. CASE ~ Direct(k)
  <2>1. /\ stream' = [stream EXCEPT ![c] =
                        Kept(AfterWrite(stream[c]), Rest(k, bytes))]
        /\ Return(c)
    BY <1>2, <1>5, <1>9 DEF Continue, Current, FunctionsOK, IsFunction
  <2>2. /\ stream'[c] = Kept(AfterWrite(stream[c]), Rest(k, bytes))
        /\ Confined(stream, stream', c)
    BY <1>2, <2>1 DEF Confined, FunctionsOK, IsFunction
  <2>3. IsFrame(frame'[c], "next", frame[c].next + 1, "nothing",
                frame[c].call, frame[c].failed) /\ IsFunction(frame')
    BY <1>2, <2>1, ReturnFrame DEF NewFrame
  <2>4. /\ Own(program[c], mode[c], oldFile[c], Faulty(c), file[c],
               stream'[c], frame'[c], memory[c], NoRequest)
        /\ WriteSeen(program[c], mode[c], stream[c], frame[c],
                     stream'[c], frame'[c])
    BY <1>6, <1>9, <2>2, <2>3
  <2>5. OperationSeen(c)
    BY <1>1, <2>4 DEF OperationSeen, SameFault
  <2>6. frame'[c].awaits = "nothing" /\ frame'[c].pc # "close"
    BY <2>3 DEF IsFrame
  <2> QED
    BY <1>1, <1>2, <1>3, <1>7, <2>2, <2>3, <2>4, <2>5, <2>6, ThreadStep
<1> QED  BY <1>8, <1>9

LEMMA ThrowStep ==
    ASSUME TokenInv, ScheduleInv, DataInv,
           NEW t \in Thread, NEW c \in Coroutine, Throw(t, c)
    PROVE  StepOf(c)
<1>1. at[t] = Running(c) /\ frame[c].awaits # "nothing" /\ operation[c].error
      /\ UNCHANGED <<workload, file, faulty, stream, memory, last, operation,
                     request, at>>
  BY DEF Throw, fileVars, kernelVars
<1>2. /\ request[c] = NoRequest /\ ~ Has(port, c) /\ FunctionsOK
      /\ SettledIn(c) /\ OwnIn(c) /\ OwnNow(c) /\ Hears(c)
      /\ ToldIn(c, operation[c])
  BY <1>1, Runner
<1>3. OwnStep(t, c)
  <2>1. ~ Schedule(t, c)  BY <1>1 DEF Schedule, Begins, Runs
  <2> QED  BY <2>1, OwnSteps DEF RunCoroutine
<1>4. frame[c].awaits # "schedule"
  <2>1. Holds(t, c)  BY <1>1 DEF Holds, Running, At
  <2> QED  BY <2>1 DEF ScheduleInv, Scheduled, Stuck
<1>5. IsFrame(frame'[c], "close", frame[c].next, "nothing", frame[c].call,
              TRUE) /\ IsFunction(frame')
  BY <1>2, ThrowFrame DEF NewFrame
<1>6. /\ Own(program[c], mode[c], oldFile[c], Faulty(c), file[c],
             stream[c], frame'[c], memory[c], NoRequest)
      /\ FailureSeen(program[c], mode[c], Faulty(c), file[c], stream[c],
                     frame[c], frame'[c])
  <2>1. Told(file[c], stream[c], frame[c], memory[c], Faulty(c), operation[c])
    BY <1>2 DEF ToldIn
  <2> QED
    BY <1>1, <1>2, <1>4, <1>5, <2>1, OwnThrows DEF SettledIn, OwnNow
<1>7. EndSeen(c)  BY <1>1, <1>6 DEF EndSeen, SameFault
<1>8. /\ Confined(stream, stream', c) /\ Confined(memory, memory', c)
      /\ Confined(last, last', c)
  BY <1>1 DEF Confined
<1>9. frame'[c].awaits = "nothing" /\ frame'[c].failed
  BY <1>5 DEF IsFrame
<1> QED
  BY <1>1, <1>2, <1>3, <1>5, <1>6, <1>7, <1>8, <1>9, ThreadStep

LEMMA CloseReaderStep ==
    ASSUME TokenInv, DataInv, NEW t \in Thread, NEW c \in Coroutine,
           CloseReader(t, c)
    PROVE  StepOf(c)
<1>1. /\ at[t] = Running(c) /\ frame[c].awaits = "nothing"
      /\ \/ frame[c].pc = "close"
         \/ frame[c].pc = "next" /\ frame[c].next > Len(program[c])
      /\ mode[c] = "read" /\ frame' = [frame EXCEPT ![c].pc = "done"]
      /\ at' = [at EXCEPT ![t] = At("notify", c)]
      /\ UNCHANGED <<workload, file, faulty, stream, memory, last, operation,
                     request>>
  BY DEF CloseReader, Ends, Runs, Completed, fileVars, kernelVars
<1>2. /\ request[c] = NoRequest /\ ~ Has(port, c) /\ FunctionsOK
      /\ SettledIn(c) /\ OwnIn(c) /\ OwnNow(c) /\ Hears(c)
      /\ frame[c].pc = "close" => frame[c].failed
  BY <1>1, Runner
<1>3. OwnStep(t, c)
  <2>1. ~ Schedule(t, c)
    BY <1>2 DEF Schedule, Begins, Runs, CloseReader, Ends, OwnNow, Own,
                FrameFits, FrameType
  <2> QED  BY <2>1, OwnSteps DEF RunCoroutine
<1>4. IsFrame(frame'[c], "done", frame[c].next, frame[c].awaits,
              frame[c].call, frame[c].failed) /\ IsFunction(frame')
  BY <1>1, <1>2, PlaceFrame DEF NewFrame
<1>5. /\ Own(program[c], mode[c], oldFile[c], Faulty(c), file[c],
             stream[c], frame'[c], memory[c], NoRequest)
      /\ \/ CloseSeen(program[c], mode[c], oldFile[c], Faulty(c), file[c],
                      stream[c], frame[c], frame'[c])
         \/ Unseen(mode[c], stream[c], frame[c], stream[c], frame'[c])
  BY <1>1, <1>2, <1>4, OwnEndsReading DEF OwnNow
<1>6. NotSeen(c) \/ EndSeen(c)
  BY <1>1, <1>5 DEF EndSeen, NotSeen, IsUnseen, SameFault
<1>7. /\ Confined(stream, stream', c) /\ Confined(memory, memory', c)
      /\ Confined(last, last', c)
  BY <1>1 DEF Confined
<1>8. frame'[c].awaits = "nothing" /\ frame'[c].pc # "close"
  BY <1>1, <1>4 DEF IsFrame
<1>9. at'[t] = At("notify", c)
  BY <1>1 DEF TokenInv, ControlOK, ThreadsOK
<1> QED
  BY <1>1, <1>2, <1>3, <1>4, <1>5, <1>6, <1>7, <1>8, <1>9, ThreadStep

LEMMA CloseReturnsStep ==
    ASSUME TokenInv, DataInv, NEW t \in Thread, NEW c \in Coroutine,
           CloseReturns(t, c)
    PROVE  StepOf(c)
<1>1. /\ at[t] = At("closing", c) /\ closeEvent[c]
      /\ frame' = [frame EXCEPT ![c].pc = "done"]
      /\ at' = [at EXCEPT ![t] = At("notify", c)]
      /\ UNCHANGED <<workload, file, faulty, stream, memory, last, operation,
                     request>>
  BY DEF CloseReturns, Completed, fileVars, kernelVars
<1>2. /\ request[c] = NoRequest /\ ~ Has(port, c) /\ frame[c].pc = "close"
  BY <1>1 DEF TokenInv, Place, Free
<1>3. /\ FunctionsOK /\ SettledIn(c) /\ OwnIn(c) /\ OwnNow(c) /\ Hears(c)
      /\ mode[c] = "write"
  BY <1>1, <1>2 DEF DataInv, OwnIn, OwnNow, Hears
<1>4. OwnStep(t, c)
  <2>1. ~ Schedule(t, c)
    BY <1>1 DEF Schedule, Begins, Runs, Running, At
  <2> QED  BY <2>1, OwnSteps DEF RunCoroutine
<1>5. IsFrame(frame'[c], "done", frame[c].next, frame[c].awaits,
              frame[c].call, frame[c].failed) /\ IsFunction(frame')
  BY <1>1, <1>3, PlaceFrame DEF NewFrame
<1>6. /\ Own(program[c], mode[c], oldFile[c], Faulty(c), file[c],
             stream[c], frame'[c], memory[c], NoRequest)
      /\ \/ CloseSeen(program[c], mode[c], oldFile[c], Faulty(c), file[c],
                      stream[c], frame[c], frame'[c])
         \/ Unseen(mode[c], stream[c], frame[c], stream[c], frame'[c])
  BY <1>2, <1>3, <1>5, OwnEndsWriting DEF OwnNow, SettledIn, Settled
<1>7. NotSeen(c) \/ EndSeen(c)
  BY <1>1, <1>6 DEF EndSeen, NotSeen, IsUnseen, SameFault
<1>8. /\ Confined(stream, stream', c) /\ Confined(memory, memory', c)
      /\ Confined(last, last', c)
  BY <1>1 DEF Confined
<1>9. frame'[c].awaits = "nothing" /\ frame'[c].pc # "close"
  BY <1>2, <1>3, <1>5 DEF IsFrame, OwnNow, Own, FrameFits, FrameType
<1>10. at'[t] = At("notify", c)
  BY <1>1 DEF TokenInv, ControlOK, ThreadsOK
<1> QED
  BY <1>1, <1>2, <1>3, <1>4, <1>5, <1>6, <1>7, <1>8, <1>9, <1>10, ThreadStep

(***************************************************************************)
(* The kernel and the operation of a coroutine.                            *)
(***************************************************************************)
LEMMA OutcomeIs ==
    ASSUME NEW c \in Coroutine, file[c] \in Seq(Nat), NEW r,
           IsRead(r) => r.offset \in Nat,
           NEW o \in Outcomes(c, r)
    PROVE  IsOutcome(file[c], r, o) /\ o.fault \in BOOLEAN
<1>1. CASE o = Expected(c, r) /\ IsRead(r)
  <2>1. PICK bytes : bytes = FileRead(file[c], r.offset, BufferSize)
    OBVIOUS
  <2>2. bytes \in Seq(Nat)
    <3>1. FileRead(file[c], r.offset, BufferSize) \in Seq(Nat)
      BY <1>1, BufferAssumption, FileReadIs
    <3> QED  BY <2>1, <3>1
  <2>3. /\ o.error <=> bytes = <<>>
        /\ o.bytes = bytes /\ o.fault = FALSE
    BY <1>1, <2>1 DEF Expected
  <2>4. bytes = <<>> <=> Len(bytes) = 0  BY <2>2, EmptySeq
  <2> QED  BY <1>1, <2>1, <2>3, <2>4 DEF IsOutcome
<1>2. CASE o = Expected(c, r) /\ ~ IsRead(r)
  BY <1>2 DEF Expected, IsOutcome
<1>3. CASE o = [error |-> TRUE, bytes |-> <<>>, fault |-> TRUE]
  BY <1>3 DEF IsOutcome
<1> QED  BY <1>1, <1>2, <1>3 DEF Outcomes

LEMMA TransferIs ==
    ASSUME FunctionsOK, NEW c \in Coroutine, NEW r, NEW o, o.fault \in BOOLEAN,
           Transfer(c, r, o), NEW g, g.call = frame[c].call
    PROVE  /\ file'[c] = FileAfter(file[c], r, o)
           /\ stream'[c] = StreamAfter(stream[c], r, o)
           /\ memory'[c] = MemoryAfter(memory[c], g, r, o)
           /\ Confined(file, file', c) /\ Confined(stream, stream', c)
           /\ Confined(memory, memory', c)
           /\ faulty' = faulty \/ faulty' = faulty \union {c}
           /\ c \in faulty' <=> c \in faulty \/ o.fault
<1>1. file'[c] = FileAfter(file[c], r, o) /\ Confined(file, file', c)
  BY DEF FunctionsOK, IsFunction, Transfer, FileAfter, Confined
<1>2. stream'[c] = StreamAfter(stream[c], r, o)
      /\ Confined(stream, stream', c)
  <2>1. CASE r.kind = "refill"
    <3>1. stream' = [stream EXCEPT ![c] = RefilledOf(stream[c], o.bytes)]
      BY <2>1 DEF FunctionsOK, IsFunction, Transfer, RefilledOf
    <3> QED
      BY <2>1, <3>1 DEF FunctionsOK, IsFunction, StreamAfter, Confined
  <2>2. CASE r.kind # "refill"
    BY <2>2 DEF Transfer, StreamAfter, Confined
  <2> QED  BY <2>1, <2>2
<1>3. memory'[c] = MemoryAfter(memory[c], g, r, o)
      /\ Confined(memory, memory', c)
  BY DEF FunctionsOK, IsFunction, Transfer, MemoryAfter, Confined
<1>4. /\ faulty' = faulty \/ faulty' = faulty \union {c}
      /\ c \in faulty' <=> c \in faulty \/ o.fault
  BY DEF Transfer
<1> QED  BY <1>1, <1>2, <1>3, <1>4

LEMMA RequestPlace ==
    ASSUME NEW p, NEW access, NEW old, NEW bad, NEW x, NEW s, NEW f, NEW m,
           NEW r, Own(p, access, old, bad, x, s, f, m, r), r # NoRequest
    PROVE  /\ x \in Seq(Nat)
           /\ IsRead(r) => r.offset \in Nat
           /\ f.pc = "close" <=> r.kind = "close"
           /\ f.pc \in {"read", "flush", "write", "close"}
<1>1. /\ s \in StreamType /\ Asking(access, f) /\ r = RequestOf(p, s, f)
      /\ FrameFits(p, access, s, f) /\ x \in Seq(Nat)
  BY DEF Own
<1>2. s.fileOffset \in Nat  BY <1>1, StreamIs
<1> QED
  BY <1>1, <1>2 DEF Asking, RequestOf, FrameFits, InWrite

LEMMA Carries ==
    ASSUME FunctionsOK, NEW c \in Coroutine, SettledIn(c),
           NEW g, g.call = frame[c].call, NEW r, r # NoRequest,
           Own(program[c], mode[c], oldFile[c], Faulty(c), file[c],
               stream[c], g, memory[c], r),
           NEW o \in Outcomes(c, r), Transfer(c, r, o),
           NEW worse, worse = Faulty(c)'
    PROVE  /\ CarriedOut(program[c], mode[c], oldFile[c], Faulty(c), file[c],
                         stream[c], g, memory[c], r, o,
                         worse, file'[c], stream'[c], memory'[c])
           /\ Unseen(mode[c], stream[c], g, stream'[c], g)
           /\ Faulty(c) \/ StatusOf(g) = "open"
           /\ c \in faulty => c \in faulty'
           /\ Confined(file, file', c) /\ Confined(stream, stream', c)
           /\ Confined(memory, memory', c)
           /\ faulty' = faulty \/ faulty' = faulty \union {c}
<1>1. IsOutcome(file[c], r, o) /\ o.fault \in BOOLEAN
  <2>1. file[c] \in Seq(Nat) /\ (IsRead(r) => r.offset \in Nat)
    BY RequestPlace
  <2> QED  BY <2>1, OutcomeIs
<1>2. /\ file'[c] = FileAfter(file[c], r, o)
      /\ stream'[c] = StreamAfter(stream[c], r, o)
      /\ memory'[c] = MemoryAfter(memory[c], g, r, o)
      /\ Confined(file, file', c) /\ Confined(stream, stream', c)
      /\ Confined(memory, memory', c)
      /\ faulty' = faulty \/ faulty' = faulty \union {c}
      /\ c \in faulty' <=> c \in faulty \/ o.fault
  BY <1>1, TransferIs
<1>3. worse <=> Faulty(c) \/ o.fault  BY <1>2 DEF Faulty
<1>4. PICK y, t, n : y = file'[c] /\ t = stream'[c] /\ n = memory'[c]
  OBVIOUS
<1>5. /\ Settled(program[c], mode[c]) /\ oldFile[c] \in Seq(Nat)
      /\ y = FileAfter(file[c], r, o) /\ t = StreamAfter(stream[c], r, o)
      /\ n = MemoryAfter(memory[c], g, r, o)
  BY <1>2, <1>4 DEF SettledIn
<1>6. CarriedOut(program[c], mode[c], oldFile[c], Faulty(c), file[c],
                 stream[c], g, memory[c], r, o, worse, y, t, n)
  <2>1. CASE g.pc = "read"
    BY <1>1, <1>3, <1>5, <2>1, ReadCarried
  <2>2. CASE g.pc # "read"
    BY <1>1, <1>3, <1>5, <2>2, WriteCarried
  <2> QED  BY <2>1, <2>2
<1>7. /\ Unseen(mode[c], stream[c], g, t, g)
      /\ Faulty(c) \/ StatusOf(g) = "open"
  <2>1. o.bytes \in Seq(Nat) /\ Len(o.bytes) \in 0..BufferSize
    BY <1>6 DEF CarriedOut
  <2> QED  BY <1>5, <2>1, CarriedUnseen
<1> QED  BY <1>2, <1>4, <1>6, <1>7

(***************************************************************************)
(* The coroutine asks for an operation: it completes at once, or the       *)
(* kernel has it.                                                          *)
(***************************************************************************)
LEMMA TryStartStep ==
    ASSUME TokenInv, DataInv, NEW t \in Thread, NEW c \in Coroutine,
           at[t] = Running(c), frame[c].awaits = "nothing",
           NEW awaited,
           \/ /\ frame[c].pc = "read"
              /\ awaited = IF Direct(frame[c].call) THEN "direct" ELSE "refill"
           \/ frame[c].pc \in {"flush", "write"} /\ awaited = frame[c].pc,
           NEW r, TryStart(t, c, awaited, r),
           r = RequestOf(program[c], stream[c], frame'[c])
    PROVE  StepOf(c)
<1>1. frame' = [frame EXCEPT ![c].awaits = awaited]
      /\ UNCHANGED <<workload, last, port>>
  BY DEF TryStart, portVars
<1>2. /\ request[c] = NoRequest /\ ~ Has(port, c) /\ FunctionsOK
      /\ SettledIn(c) /\ OwnIn(c) /\ OwnNow(c) /\ Hears(c)
      /\ \A u \in Thread \ {t} : at[u] # Running(c)
  BY Runner
<1>3. awaited \in {"direct", "refill", "flush", "write"}  OBVIOUS
<1>4. OwnStep(t, c)  BY <1>3, OwnTryStart
<1>5. IsFrame(frame'[c], frame[c].pc, frame[c].next, awaited, frame[c].call,
              frame[c].failed) /\ IsFunction(frame')
  <2>1. awaited \in {"direct", "refill", "flush", "write", "schedule"}
    BY <1>3
  <2> QED  BY <1>1, <1>2, <2>1, AwaitFrame DEF NewFrame
<1>6. PICK g : g = frame'[c]  OBVIOUS
<1>7. /\ Own(program[c], mode[c], oldFile[c], Faulty(c), file[c],
             stream[c], g, memory[c], r)
      /\ r # NoRequest /\ g.call = frame[c].call /\ g.awaits = awaited
      /\ g.pc = frame[c].pc
      /\ Unseen(mode[c], stream[c], frame[c], stream[c], g)
  <2>1. IsFrame(g, frame[c].pc, frame[c].next, awaited, frame[c].call,
                frame[c].failed)
    BY <1>5, <1>6
  <2>2. Own(program[c], mode[c], oldFile[c], Faulty(c), file[c],
            stream[c], g, memory[c], r) /\ r # NoRequest
    BY <1>2, <1>6, <2>1, OwnAwaits DEF OwnNow
  <2>3. Unseen(mode[c], stream[c], frame[c], stream[c], g)
    BY <2>1, AskUnseen
  <2> QED  BY <2>1, <2>2, <2>3 DEF IsFrame
<1>8. Confined(last, last', c)  BY <1>1 DEF Confined
<1>9. g.pc # "close"  BY <1>7
<1>10. \A u \in Thread : at'[u] = At("closing", c) => mode'[c] = "write"
  <2>1. ASSUME NEW u \in Thread, at'[u] = At("closing", c)
        PROVE  at[u] = At("closing", c)
    <3>1. CASE u = t
      BY <2>1, <3>1 DEF TryStart, TokenInv, ControlOK, ThreadsOK, Running, At
    <3>2. CASE u # t
      BY <1>4, <2>1, <3>2 DEF OwnStep
    <3> QED  BY <3>1, <3>2
  <2> QED  BY <1>1, <1>2, <2>1 DEF Hears, workload
<1>11. ASSUME NEW o \in Outcomes(c, r), Transfer(c, r, o),
              operation' = [operation EXCEPT ![c] =
                    [error |-> o.error, transferred |-> Len(o.bytes)]],
              o.error \in BOOLEAN,
              UNCHANGED <<request, at>>
       PROVE  StepOf(c)
  <2>1. PICK worse : worse = Faulty(c)'  OBVIOUS
  <2>2. /\ CarriedOut(program[c], mode[c], oldFile[c], Faulty(c), file[c],
                      stream[c], g, memory[c], r, o,
                      worse, file'[c], stream'[c], memory'[c])
        /\ Unseen(mode[c], stream[c], g, stream'[c], g)
        /\ Faulty(c) \/ StatusOf(g) = "open"
        /\ c \in faulty => c \in faulty'
        /\ Confined(file, file', c) /\ Confined(stream, stream', c)
        /\ Confined(memory, memory', c)
        /\ faulty' = faulty \/ faulty' = faulty \union {c}
    BY <1>2, <1>7, <1>11, <2>1, Carries
  <2>3. KeepsOutside(c)
    <3>1. Confined(operation, operation', c) /\ Confined(request, request', c)
      BY <1>11 DEF Confined
    <3> QED
      BY <1>1, <1>2, <1>4, <1>5, <1>8, <2>2, <3>1, OwnStepKeeps DEF DataConfined
  <2>4. OwnIn(c)'
    <3>1. /\ program' = program /\ mode' = mode /\ oldFile' = oldFile
          /\ request'[c] = NoRequest
      BY <1>1, <1>2, <1>11 DEF workload
    <3> QED  BY <1>6, <2>1, <2>2, <3>1 DEF CarriedOut, OwnIn
  <2>5. operation'[c] \in OperationType /\ ToldIn(c, operation[c])'
    <3>1. PICK q : q = operation'[c]  OBVIOUS
    <3>2. q.error = o.error /\ q.transferred = Len(o.bytes)
      BY <1>2, <1>11, <3>1 DEF FunctionsOK, IsFunction
    <3>3. Told(file'[c], stream'[c], g, memory'[c], worse, q)
      BY <2>2, <3>2 DEF CarriedOut
    <3>4. ToldIn(c, operation[c])'  BY <1>6, <2>1, <3>1, <3>3 DEF ToldIn
    <3>5. operation'[c] \in OperationType
      BY <1>2, <1>11, <2>2
      DEF FunctionsOK, IsFunction, OperationType, CarriedOut
    <3> QED  BY <3>4, <3>5
  <2>6. Hears(c)'
    <3>1. ~ Has(port', c)  BY <1>1, <1>2
    <3> QED
      BY <1>6, <1>9, <1>10, <2>5, <3>1 DEF Hears, Has, Running, At
  <2>7. NotSeen(c)
    BY <1>1, <1>6, <1>7, <2>2 DEF NotSeen, IsUnseen, Unseen, Faulty
  <2> QED  BY <2>3, <2>4, <2>6, <2>7 DEF StepOf
<1>12. ASSUME request' = [request EXCEPT ![c] = r],
              at' = [at EXCEPT ![t] = At("call", c)],
              UNCHANGED <<fileVars, operation>>
       PROVE  StepOf(c)
  <2>1. KeepsOutside(c)
    BY <1>1, <1>2, <1>4, <1>5, <1>8, <1>12, OwnStepKeeps
    DEF DataConfined, Confined, fileVars
  <2>2. OwnIn(c)'
    <3>1. /\ program' = program /\ mode' = mode /\ oldFile' = oldFile
          /\ file' = file /\ stream' = stream /\ memory' = memory
          /\ request'[c] = r
      BY <1>1, <1>2, <1>12 DEF workload, fileVars, FunctionsOK, IsFunction
    <3>2. Faulty(c)' = Faulty(c)  BY <1>12 DEF Faulty, fileVars
    <3> QED  BY <1>6, <1>7, <3>1, <3>2 DEF OwnIn
  <2>3. Hears(c)'
    <3>1. ~ Has(port', c) /\ operation'[c] \in OperationType
      BY <1>1, <1>2, <1>12 DEF Hears
    <3>2. \A u \in Thread : at'[u] # Running(c)
      BY <1>2, <1>12 DEF TokenInv, ControlOK, ThreadsOK, Running, At
    <3> QED
      BY <1>10, <3>1, <3>2 DEF Hears, Has, Running, At
  <2>4. NotSeen(c)
    BY <1>1, <1>6, <1>7, <1>12
    DEF NotSeen, IsUnseen, SameFault, fileVars
  <2> QED  BY <2>1, <2>2, <2>3, <2>4 DEF StepOf
<1>13. \A o \in Outcomes(c, r) : o.error \in BOOLEAN
  <2>1. Expected(c, r).error \in BOOLEAN  BY DEF Expected
  <2>2. [error |-> TRUE, bytes |-> <<>>, fault |-> TRUE].error \in BOOLEAN
    OBVIOUS
  <2> QED  BY <2>1, <2>2 DEF Outcomes
<1> QED  BY <1>11, <1>12, <1>13 DEF TryStart

LEMMA AwaitReadStep ==
    ASSUME TokenInv, DataInv, NEW t \in Thread, NEW c \in Coroutine,
           AwaitRead(t, c)
    PROVE  StepOf(c)
<1>1. PICK awaited : awaited = IF Direct(frame[c].call)
                               THEN "direct" ELSE "refill"
  OBVIOUS
<1>2. PICK r : r = ReadRequest(c, awaited)  OBVIOUS
<1>3. /\ at[t] = Running(c) /\ frame[c].awaits = "nothing"
      /\ frame[c].pc = "read" /\ TryStart(t, c, awaited, r)
  BY <1>1, <1>2 DEF AwaitRead, Runs
<1>4. FunctionsOK /\ OwnIn(c)  BY DEF DataInv
<1>5. IsFrame(frame'[c], frame[c].pc, frame[c].next, awaited, frame[c].call,
              frame[c].failed)
  <2>1. awaited \in {"direct", "refill", "flush", "write", "schedule"}
    BY <1>1
  <2>2. frame' = [frame EXCEPT ![c].awaits = awaited]  BY <1>3 DEF TryStart
  <2> QED  BY <1>4, <2>1, <2>2, AwaitFrame DEF NewFrame
<1>6. r = RequestOf(program[c], stream[c], frame'[c])
  BY <1>2, <1>3, <1>5 DEF RequestOf, ReadRequest, IsFrame
<1> QED  BY <1>1, <1>3, <1>6, TryStartStep

LEMMA AwaitWriteStep ==
    ASSUME TokenInv, DataInv, NEW t \in Thread, NEW c \in Coroutine,
           AwaitWrite(t, c)
    PROVE  StepOf(c)
<1>1. PICK awaited \in {"flush", "write"} :
        /\ at[t] = Running(c) /\ frame[c].awaits = "nothing"
        /\ frame[c].pc = awaited
        /\ TryStart(t, c, awaited,
                    WriteRequest(c, IF awaited = "flush" THEN stream[c].buffer
                                    ELSE SubSeq(Current(c).bytes,
                                                frame[c].call.moved + 1,
                                                frame[c].call.moved
                                                    + BufferSize),
                                 "write"))
  BY DEF AwaitWrite, Runs
<1>2. PICK bytes : bytes = IF awaited = "flush" THEN stream[c].buffer
                           ELSE SubSeq(Current(c).bytes,
                                       frame[c].call.moved + 1,
                                       frame[c].call.moved + BufferSize)
  OBVIOUS
<1>3. PICK r : r = WriteRequest(c, bytes, "write")  OBVIOUS
<1>4. TryStart(t, c, awaited, r)  BY <1>1, <1>2, <1>3
<1>5. FunctionsOK /\ OwnIn(c)  BY DEF DataInv
<1>6. IsFrame(frame'[c], frame[c].pc, frame[c].next, awaited, frame[c].call,
              frame[c].failed)
  <2>1. awaited \in {"direct", "refill", "flush", "write", "schedule"}
    BY <1>1
  <2>2. frame' = [frame EXCEPT ![c].awaits = awaited]  BY <1>4 DEF TryStart
  <2> QED  BY <1>5, <2>1, <2>2, AwaitFrame DEF NewFrame
<1>7. r = RequestOf(program[c], stream[c], frame'[c])
  <2>1. bytes = BytesOf(program[c], stream[c], frame'[c])
    BY <1>1, <1>2, <1>6 DEF BytesOf, Current, IsFrame
  <2> QED
    BY <1>1, <1>3, <1>6, <2>1 DEF RequestOf, WriteRequest, IsFrame
<1>8. frame[c].pc \in {"flush", "write"} /\ awaited = frame[c].pc  BY <1>1
<1> QED  BY <1>1, <1>4, <1>7, <1>8, TryStartStep

(***************************************************************************)
(* A writer's stream is destroyed.                                         *)
(***************************************************************************)
LEMMA CloseWriterStep ==
    ASSUME TokenInv, DataInv, NEW t \in Thread, NEW c \in Coroutine,
           CloseWriter(t, c)
    PROVE  StepOf(c)
<1>0. PICK r : r = WriteRequest(c, Unwritten(stream[c]), "close")  OBVIOUS
<1>1. /\ at[t] = Running(c) /\ frame[c].awaits = "nothing"
      /\ \/ frame[c].pc = "close"
         \/ frame[c].pc = "next" /\ frame[c].next > Len(program[c])
      /\ mode[c] = "write" /\ frame' = [frame EXCEPT ![c].pc = "close"]
      /\ at' = [at EXCEPT ![t] = At("closing", c)]
      /\ UNCHANGED <<workload, last, operation, port>>
      /\ \/ /\ \E o \in Outcomes(c, r) : Transfer(c, r, o)
            /\ UNCHANGED request
         \/ /\ request' = [request EXCEPT ![c] = r]
            /\ UNCHANGED fileVars
  BY <1>0 DEF CloseWriter, Ends, Runs, portVars
<1>2. /\ request[c] = NoRequest /\ ~ Has(port, c) /\ FunctionsOK
      /\ SettledIn(c) /\ OwnIn(c) /\ OwnNow(c) /\ Hears(c)
      /\ frame[c].pc = "close" => frame[c].failed
      /\ \A u \in Thread \ {t} : at[u] # Running(c)
  BY <1>1, Runner
<1>3. OwnStep(t, c)
  <2>1. ~ Schedule(t, c)
    BY <1>2 DEF Schedule, Begins, Runs, CloseWriter, Ends, OwnNow, Own,
                FrameFits, FrameType
  <2> QED  BY <2>1, OwnSteps DEF RunCoroutine
<1>4. PICK g : g = frame'[c]  OBVIOUS
<1>5. IsFrame(g, "close", frame[c].next, "nothing", frame[c].call,
              frame[c].failed) /\ IsFunction(frame')
  <2>1. NewFrame(c, "close", frame[c].next, frame[c].awaits, frame[c].call,
                 frame[c].failed)
    BY <1>1, <1>2, PlaceFrame
  <2> QED  BY <1>1, <1>4, <2>1 DEF NewFrame
<1>6. r = RequestOf(program[c], stream[c], g)
  BY <1>0, <1>5 DEF RequestOf, WriteRequest, BytesOf, IsFrame
<1>7. /\ Own(program[c], mode[c], oldFile[c], Faulty(c), file[c],
             stream[c], g, memory[c], r)
      /\ r # NoRequest /\ g.call = frame[c].call
  <2>1. Own(program[c], "write", oldFile[c], Faulty(c), file[c],
            stream[c], frame[c], memory[c], NoRequest)
    BY <1>1, <1>2 DEF OwnNow
  <2>2. /\ Own(program[c], "write", oldFile[c], Faulty(c), file[c],
               stream[c], g, memory[c], r)
        /\ r # NoRequest
    BY <1>1, <1>2, <1>5, <1>6, <2>1, OwnCloses
  <2> QED  BY <1>1, <1>5, <2>2 DEF IsFrame
<1>8. Unseen(mode[c], stream[c], frame[c], stream[c], g)
  <2>1. frame[c].pc \in {"next", "close"}  BY <1>1
  <2>2. Unseen("write", stream[c], frame[c], stream[c], g)
    BY <1>5, <2>1, CloseUnseen
  <2> QED  BY <1>1, <2>2
<1>9. Confined(last, last', c) /\ Confined(operation, operation', c)
  BY <1>1 DEF Confined
<1>10. Hears(c)'
  <2>1. operation'[c] \in OperationType /\ ~ Has(port', c)
    BY <1>1, <1>2 DEF Hears
  <2>2. \A u \in Thread : at'[u] # Running(c)
    BY <1>1, <1>2 DEF TokenInv, ControlOK, ThreadsOK, Running, At
  <2>3. frame'[c].awaits = "nothing"  BY <1>4, <1>5 DEF IsFrame
  <2>4. mode'[c] = "write"  BY <1>1 DEF workload
  <2> QED  BY <2>1, <2>2, <2>3, <2>4, SilentHears
<1>11. /\ program' = program /\ mode' = mode /\ oldFile' = oldFile
  BY <1>1 DEF workload
<1>12. ASSUME NEW o \in Outcomes(c, r), Transfer(c, r, o), UNCHANGED request
       PROVE  StepOf(c)
  <2>1. PICK worse : worse = Faulty(c)'  OBVIOUS
  <2>2. /\ CarriedOut(program[c], mode[c], oldFile[c], Faulty(c), file[c],
                      stream[c], g, memory[c], r, o,
                      worse, file'[c], stream'[c], memory'[c])
        /\ Unseen(mode[c], stream[c], g, stream'[c], g)
        /\ Faulty(c) \/ StatusOf(g) = "open"
        /\ c \in faulty => c \in faulty'
        /\ Confined(file, file', c) /\ Confined(stream, stream', c)
        /\ Confined(memory, memory', c)
        /\ faulty' = faulty \/ faulty' = faulty \union {c}
    BY <1>2, <1>7, <1>12, <2>1, Carries
  <2>3. KeepsOutside(c)
    <3>1. Confined(request, request', c)  BY <1>12 DEF Confined
    <3> QED
      BY <1>1, <1>2, <1>3, <1>5, <1>9, <2>2, <3>1, OwnStepKeeps
      DEF DataConfined
  <2>4. OwnIn(c)'
    <3>1. request'[c] = NoRequest  BY <1>2, <1>12
    <3> QED  BY <1>4, <1>11, <2>1, <2>2, <3>1 DEF CarriedOut, OwnIn
  <2>5. NotSeen(c)
    BY <1>1, <1>4, <1>8, <2>2 DEF NotSeen, IsUnseen, Unseen, Faulty
  <2> QED  BY <1>10, <2>3, <2>4, <2>5 DEF StepOf
<1>13. ASSUME request' = [request EXCEPT ![c] = r], UNCHANGED fileVars
       PROVE  StepOf(c)
  <2>1. KeepsOutside(c)
    BY <1>1, <1>2, <1>3, <1>5, <1>9, <1>13, OwnStepKeeps
    DEF DataConfined, Confined, fileVars
  <2>2. OwnIn(c)'
    <3>1. /\ file' = file /\ stream' = stream /\ memory' = memory
          /\ request'[c] = r
      BY <1>2, <1>13 DEF fileVars, FunctionsOK, IsFunction
    <3>2. Faulty(c)' = Faulty(c)  BY <1>13 DEF Faulty, fileVars
    <3> QED  BY <1>4, <1>7, <1>11, <3>1, <3>2 DEF OwnIn
  <2>3. NotSeen(c)
    BY <1>1, <1>4, <1>8, <1>13
    DEF NotSeen, IsUnseen, SameFault, fileVars
  <2> QED  BY <1>10, <2>1, <2>2, <2>3 DEF StepOf
<1> QED  BY <1>1, <1>12, <1>13

(***************************************************************************)
(* The kernel carries an operation out later.                              *)
(***************************************************************************)
LEMMA PortTyped ==
    ASSUME NEW packets \in Seq(Packet), NEW packet \in Packet
    PROVE  /\ Append(packets, packet) \in Seq(Packet)
           /\ \A i \in DOMAIN Append(packets, packet) :
                \/ Append(packets, packet)[i] = packet
                \/ \E j \in DOMAIN packets :
                        packets[j] = Append(packets, packet)[i]
<1> DEFINE longer == Append(packets, packet)
<1>1. /\ longer \in Seq(Packet) /\ Len(longer) = Len(packets) + 1
      /\ \A i \in 1..Len(packets) : longer[i] = packets[i]
      /\ longer[Len(packets) + 1] = packet
  BY AppendProperties
<1>2. /\ DOMAIN packets = 1..Len(packets) /\ Len(packets) \in Nat
      /\ DOMAIN longer = 1..(Len(packets) + 1)
  BY <1>1
<1> HIDE DEF longer
<1>3. \A i \in DOMAIN longer : i \in DOMAIN packets \/ i = Len(packets) + 1
  BY <1>2
<1>4. \A i \in DOMAIN longer :
        longer[i] = packet \/ \E j \in DOMAIN packets : packets[j] = longer[i]
  BY <1>1, <1>2, <1>3
<1> QED  BY <1>1, <1>4 DEF longer

LEMMA TailTyped ==
    ASSUME NEW packets \in Seq(Packet), packets # <<>>
    PROVE  /\ Tail(packets) \in Seq(Packet)
           /\ 1 \in DOMAIN packets /\ Head(packets) = packets[1]
           /\ \A i \in DOMAIN Tail(packets) :
                \E j \in DOMAIN packets : packets[j] = Tail(packets)[i]
<1> DEFINE rest == Tail(packets)
<1>1. /\ rest \in Seq(Packet) /\ Len(rest) = Len(packets) - 1
      /\ \A i \in 1..Len(rest) : rest[i] = packets[i + 1]
      /\ Head(packets) = packets[1]
  BY HeadTailProperties
<1>2. /\ DOMAIN packets = 1..Len(packets) /\ Len(packets) \in Nat \ {0}
      /\ DOMAIN rest = 1..(Len(packets) - 1)
  BY <1>1, EmptySeq
<1> HIDE DEF rest
<1>3. \A i \in DOMAIN rest : i + 1 \in DOMAIN packets  BY <1>2
<1>4. \A i \in DOMAIN rest : \E j \in DOMAIN packets : packets[j] = rest[i]
  BY <1>1, <1>2, <1>3
<1>5. 1 \in DOMAIN packets  BY <1>2
<1> QED  BY <1>1, <1>4, <1>5 DEF rest

LEMMA EmptyPacketTyped ==
    /\ Posted(NoCoroutine) \in Packet
    /\ \A c : ~ IsCompletion(Posted(NoCoroutine), c)
BY DEF Posted, Packet, IsCompletion

LEMMA PostsNothing ==
    ASSUME port \in Seq(Packet),
           port' = port \/ port' = Append(port, Posted(NoCoroutine))
                        \/ (port # <<>> /\ port' = Tail(port))
    PROVE  port' \in Seq(Packet) /\ \A d : NoNewPacket(d)
<1>1. CASE port' = port
  BY <1>1 DEF NoNewPacket
<1>2. CASE port' = Append(port, Posted(NoCoroutine))
  <2>1. PICK packet : packet = Posted(NoCoroutine)  OBVIOUS
  <2>2. packet \in Packet /\ \A d : ~ IsCompletion(packet, d)
    BY <2>1, EmptyPacketTyped
  <2>3. PICK longer : longer = Append(port, packet)  OBVIOUS
  <2>4. /\ longer \in Seq(Packet)
        /\ \A i \in DOMAIN longer :
            longer[i] = packet \/ \E j \in DOMAIN port : port[j] = longer[i]
    BY <2>2, <2>3, PortTyped
  <2>5. port' = longer  BY <1>2, <2>1, <2>3
  <2> QED  BY <2>2, <2>4, <2>5 DEF NoNewPacket
<1>3. CASE port # <<>> /\ port' = Tail(port)
  <2>1. PICK rest : rest = Tail(port)  OBVIOUS
  <2>2. /\ rest \in Seq(Packet)
        /\ \A i \in DOMAIN rest : \E j \in DOMAIN port : port[j] = rest[i]
    BY <1>3, <2>1, TailTyped
  <2>3. port' = rest  BY <1>3, <2>1
  <2> QED  BY <2>2, <2>3 DEF NoNewPacket
<1> QED  BY <1>1, <1>2, <1>3

LEMMA ScheduleStarts ==
    ASSUME TokenInv, DataInv, NEW t \in Thread, NEW c \in Coroutine,
           Schedule(t, c)
    PROVE  StepOf(c) /\ port' \in Seq(Packet)
<1>1. /\ at[t] = Running(c) /\ frame[c].awaits = "nothing"
      /\ frame[c].pc = "next"
      /\ frame' = [frame EXCEPT ![c].awaits = "schedule"]
      /\ at' = [at EXCEPT ![t] = Resumer(t)]
      /\ UNCHANGED <<workload, file, faulty, stream, memory, last, operation,
                     request>>
      /\ port' = port \/ port' = Append(port, Posted(NoCoroutine))
  BY DEF Schedule, Begins, Runs, Continuation, fileVars, kernelVars
<1>2. /\ request[c] = NoRequest /\ ~ Has(port, c) /\ FunctionsOK
      /\ SettledIn(c) /\ OwnIn(c) /\ OwnNow(c) /\ Hears(c)
      /\ \A u \in Thread \ {t} : at[u] # Running(c)
  BY <1>1, Runner
<1>3. port' \in Seq(Packet) /\ \A d : NoNewPacket(d)
  BY <1>1, PostsNothing DEF DataInv
<1>4. PICK g : g = frame'[c]  OBVIOUS
<1>5. /\ IsFrame(g, "next", frame[c].next, "schedule", frame[c].call,
                 frame[c].failed)
      /\ OneChanges(frame, frame', c)
  <2>1. NewFrame(c, frame[c].pc, frame[c].next, "schedule", frame[c].call,
                 frame[c].failed)
    BY <1>1, <1>2, AwaitFrame
  <2> QED  BY <1>1, <1>4, <2>1 DEF NewFrame, OneChanges
<1>6. /\ Own(program[c], mode[c], oldFile[c], Faulty(c), file[c],
             stream[c], g, memory[c], NoRequest)
      /\ Unseen(mode[c], stream[c], frame[c], stream[c], g)
  BY <1>1, <1>2, <1>5, OwnSchedules DEF OwnNow
<1>7. \A d \in Coroutine : NoNewThread(d)
  BY <1>1 DEF NoNewThread, TokenInv, ControlOK, ThreadsOK, Resumer, Idle,
              Running, At
<1>8. KeepsOutside(c)
  <2>1. DataConfined(c)  BY <1>1 DEF DataConfined, Confined
  <2> QED  BY <1>2, <1>3, <1>5, <1>7, <2>1, ConfinedKeeps
<1>9. OwnIn(c)'
  <2>1. /\ program' = program /\ mode' = mode /\ oldFile' = oldFile
        /\ request'[c] = NoRequest
    BY <1>1, <1>2 DEF workload
  <2>2. Faulty(c)' = Faulty(c)  BY <1>1 DEF Faulty
  <2> QED  BY <1>1, <1>4, <1>6, <2>1, <2>2 DEF OwnIn
<1>10. Hears(c)'
  <2>1. operation'[c] \in OperationType  BY <1>1, <1>2 DEF Hears
  <2>2. frame'[c].awaits = "schedule" /\ frame'[c].pc # "close"
    BY <1>4, <1>5 DEF IsFrame
  <2>3. \A u \in Thread : at'[u] = At("closing", c) => mode'[c] = "write"
    BY <1>1, <1>2, <1>7 DEF NoNewThread, Hears, workload
  <2> QED  BY <2>1, <2>2, <2>3, SilentHears
<1>11. NotSeen(c)
  BY <1>1, <1>4, <1>6 DEF NotSeen, IsUnseen, SameFault
<1> QED  BY <1>3, <1>8, <1>9, <1>10, <1>11 DEF StepOf

(***************************************************************************)
(* The kernel carries an operation out that was pending.                   *)
(***************************************************************************)
LEMMA Awaited ==
    ASSUME TokenInv, DataInv, NEW c \in Coroutine, request[c] # NoRequest
    PROVE  /\ \A t \in Thread : at[t] # Running(c)
           /\ ~ Has(port, c)
           /\ frame[c].pc = "close" <=> request[c].kind = "close"
<1>1. Token(c) /\ Place(c)  BY DEF TokenInv
<1>2. frame[c].pc = "close" <=> request[c].kind = "close"
  BY RequestPlace DEF DataInv, OwnIn
<1>3. CASE request[c].kind = "close"
  BY <1>1, <1>2, <1>3 DEF Place, Running, At
<1>4. CASE request[c].kind # "close"
  <2>1. Pending(c)  BY <1>4 DEF Pending
  <2>2. ~ Has(port, c) /\ \A t \in Thread : ~ Holds(t, c)
    BY <1>1, <2>1 DEF Token
  <2> QED  BY <1>2, <2>2 DEF Holds, Running, At
<1> QED  BY <1>3, <1>4

LEMMA CompleteStep ==
    ASSUME TokenInv, DataInv, NEW c \in Coroutine, Complete(c)
    PROVE  StepOf(c) /\ port' \in Seq(Packet)
<1>1. PICK r : r = request[c]  OBVIOUS
<1>2. PICK o \in Outcomes(c, r) :
        /\ Transfer(c, r, o)
        /\ \/ /\ r.kind = "close" /\ port' = port
              /\ closeEvent' = [closeEvent EXCEPT ![c] = TRUE]
           \/ /\ r.kind # "close" /\ port' = Append(port, Completion(c, o))
              /\ closeEvent' = closeEvent
  BY <1>1 DEF Complete
<1>3. /\ r # NoRequest /\ request' = [request EXCEPT ![c] = NoRequest]
      /\ UNCHANGED <<workload, frame, last, operation, at>>
  BY <1>1 DEF Complete
<1>4. /\ \A t \in Thread : at[t] # Running(c)
      /\ ~ Has(port, c)
      /\ frame[c].pc = "close" <=> r.kind = "close"
  BY <1>1, <1>3, Awaited
<1>5. FunctionsOK /\ SettledIn(c) /\ OwnIn(c) /\ Hears(c)
  BY DEF DataInv
<1>6. PICK g, worse : g = frame[c] /\ worse = Faulty(c)'  OBVIOUS
<1>7. /\ CarriedOut(program[c], mode[c], oldFile[c], Faulty(c), file[c],
                    stream[c], g, memory[c], r, o,
                    worse, file'[c], stream'[c], memory'[c])
      /\ Unseen(mode[c], stream[c], g, stream'[c], g)
      /\ Faulty(c) \/ StatusOf(g) = "open"
      /\ c \in faulty => c \in faulty'
      /\ Confined(file, file', c) /\ Confined(stream, stream', c)
      /\ Confined(memory, memory', c)
      /\ faulty' = faulty \/ faulty' = faulty \union {c}
  <2>1. Own(program[c], mode[c], oldFile[c], Faulty(c), file[c],
            stream[c], g, memory[c], r)
    BY <1>1, <1>5, <1>6 DEF OwnIn
  <2> QED  BY <1>2, <1>3, <1>5, <1>6, <2>1, Carries
<1>8. PICK packet : packet = Completion(c, o)  OBVIOUS
<1>9. /\ packet \in Packet
      /\ \A d : IsCompletion(packet, d) => d = c
      /\ packet.error = o.error /\ packet.transferred = Len(o.bytes)
  <2>1. o.error \in BOOLEAN
    <3>1. Expected(c, r).error \in BOOLEAN  BY DEF Expected
    <3>2. [error |-> TRUE, bytes |-> <<>>, fault |-> TRUE].error \in BOOLEAN
      OBVIOUS
    <3> QED  BY <3>1, <3>2 DEF Outcomes
  <2>2. Len(o.bytes) \in 0..BufferSize  BY <1>7 DEF CarriedOut
  <2> QED  BY <1>8, <2>1, <2>2 DEF Completion, Packet, IsCompletion
<1>10. PICK longer : longer = Append(port, packet)  OBVIOUS
<1>11. /\ longer \in Seq(Packet)
       /\ \A i \in DOMAIN longer :
            longer[i] = packet \/ \E j \in DOMAIN port : port[j] = longer[i]
  BY <1>9, <1>10, PortTyped DEF DataInv
<1>12. port' = port \/ (r.kind # "close" /\ port' = longer)
  BY <1>2, <1>8, <1>10
<1>13. port' \in Seq(Packet)  BY <1>11, <1>12 DEF DataInv
<1>14. KeepsOutside(c)
  <2>1. \A d \in Coroutine \ {c} : NoNewPacket(d)
    BY <1>9, <1>11, <1>12 DEF NoNewPacket
  <2>2. \A d \in Coroutine : NoNewThread(d)  BY <1>3 DEF NoNewThread
  <2>3. OneChanges(frame, frame', c)
    BY <1>3, <1>5 DEF OneChanges, FunctionsOK
  <2>4. DataConfined(c)
    BY <1>3, <1>7 DEF DataConfined, Confined
  <2> QED  BY <1>5, <2>1, <2>2, <2>3, <2>4, ConfinedKeeps
<1>15. OwnIn(c)'
  <2>1. /\ program' = program /\ mode' = mode /\ oldFile' = oldFile
        /\ request'[c] = NoRequest /\ frame'[c] = g
    BY <1>3, <1>5, <1>6 DEF workload, FunctionsOK, IsFunction
  <2> QED  BY <1>6, <1>7, <2>1 DEF CarriedOut, OwnIn
<1>16. Hears(c)'
  <2>1. Told(file'[c], stream'[c], g, memory'[c], worse, packet)
    BY <1>7, <1>9 DEF CarriedOut
  <2>2. ToldIn(c, packet)'
    <3>1. frame'[c] = g  BY <1>3, <1>6
    <3> QED  BY <1>6, <2>1, <3>1 DEF ToldIn
  <2>3. ASSUME NEW i \in DOMAIN port', IsCompletion(port'[i], c)
        PROVE  ToldIn(c, port[i])' /\ frame'[c].pc # "close"
    <3>1. \A j \in DOMAIN port : ~ IsCompletion(port[j], c)
      BY <1>4 DEF Has
    <3>2. r.kind # "close" /\ port'[i] = packet
      BY <1>11, <1>12, <2>3, <3>1
    <3>3. ToldIn(c, port[i])'
      <4>1. frame'[c] = g  BY <1>3, <1>6
      <4> QED  BY <1>6, <2>1, <3>2, <4>1 DEF ToldIn
    <3> QED  BY <1>3, <1>4, <3>2, <3>3
  <2>4. \A t \in Thread : at'[t] # Running(c)  BY <1>3, <1>4
  <2>5. \A t \in Thread : at'[t] = At("closing", c) => mode'[c] = "write"
    BY <1>3, <1>5 DEF Hears, workload
  <2>6. operation'[c] \in OperationType  BY <1>3, <1>5 DEF Hears
  <2> QED  BY <2>3, <2>4, <2>5, <2>6 DEF Hears, Running, At
<1>17. NotSeen(c)
  <2>1. frame'[c] = g /\ last' = last  BY <1>3, <1>6
  <2> QED
    BY <1>6, <1>7, <2>1 DEF NotSeen, IsUnseen, Faulty
<1> QED  BY <1>13, <1>14, <1>15, <1>16, <1>17 DEF StepOf

LEMMA ResumesStep ==
    ASSUME TokenInv, DataInv, NEW t \in IOThread, OnOperationCompleted(t)
    PROVE  /\ port' \in Seq(Packet)
           /\ \E c \in Coroutine : StepOf(c)
<1>1. /\ port # <<>> /\ Head(port).kind = "completion" /\ port' = Tail(port)
      /\ UNCHANGED <<workload, file, faulty, stream, memory, frame, last,
                     request>>
  BY DEF OnOperationCompleted, fileVars, kernelVars
<1>2. PICK packet : packet = Head(port)  OBVIOUS
<1>3. PICK c : c = packet.coroutine  OBVIOUS
<1>4. /\ port' \in Seq(Packet) /\ \A d : NoNewPacket(d)
      /\ 1 \in DOMAIN port /\ packet = port[1]
  BY <1>1, <1>2, PostsNothing, TailTyped DEF DataInv
<1>5. /\ packet \in Packet /\ packet.kind = "completion" /\ c \in Coroutine
      /\ packet.error \in BOOLEAN /\ packet.transferred \in 0..BufferSize
      /\ IsCompletion(packet, c)
  <2>1. packet \in Packet
    <3>1. port \in Seq(Packet)  BY DEF DataInv
    <3>2. \A i \in DOMAIN port : port[i] \in Packet  BY <3>1
    <3> QED  BY <1>4, <3>2
  <2> QED  BY <1>1, <1>2, <1>3, <2>1 DEF Packet, IsCompletion
<1>6. /\ operation' = [operation EXCEPT ![c] =
                [error |-> packet.error, transferred |-> packet.transferred]]
      /\ at' = [at EXCEPT ![t] = Running(c)]
  BY <1>2, <1>3 DEF OnOperationCompleted
<1>7. /\ FunctionsOK /\ SettledIn(c) /\ OwnIn(c) /\ Hears(c)
      /\ Token(c)
  BY <1>5 DEF DataInv, TokenInv
<1>8. t \in Thread  BY DEF Thread
<1>9. ToldIn(c, packet) /\ frame[c].pc # "close"
  BY <1>4, <1>5, <1>7 DEF Hears
<1>10. KeepsOutside(c)
  <2>1. \A d \in Coroutine \ {c} : NoNewThread(d)
    BY <1>6, <1>8 DEF NoNewThread, TokenInv, ControlOK, ThreadsOK, Running, At
  <2>2. DataConfined(c)
    BY <1>1, <1>6 DEF DataConfined, Confined
  <2>3. OneChanges(frame, frame', c)
    BY <1>1, <1>7 DEF OneChanges, FunctionsOK
  <2> QED  BY <1>4, <1>5, <1>7, <2>1, <2>2, <2>3, ConfinedKeeps
<1>11. /\ program' = program /\ mode' = mode /\ oldFile' = oldFile
       /\ file' = file /\ stream' = stream /\ memory' = memory
       /\ frame' = frame /\ request' = request
  BY <1>1 DEF workload
<1>12. Faulty(c)' = Faulty(c)  BY <1>1 DEF Faulty
<1>13. OwnIn(c)'  BY <1>7, <1>11, <1>12 DEF OwnIn
<1>14. PICK q : q = operation'[c]  OBVIOUS
<1>15. /\ q \in OperationType
       /\ q.error = packet.error /\ q.transferred = packet.transferred
  BY <1>5, <1>6, <1>7, <1>14 DEF FunctionsOK, IsFunction, OperationType
<1>16. ToldIn(c, operation[c])'
  <2>1. PICK x, s, f, m, bad :
            /\ x = file[c] /\ s = stream[c] /\ f = frame[c] /\ m = memory[c]
            /\ bad = Faulty(c)
    OBVIOUS
  <2>2. Told(x, s, f, m, bad, packet)  BY <1>9, <2>1 DEF ToldIn
  <2>3. Told(x, s, f, m, bad, q)
    BY <1>15, <2>2 DEF Told, ReadAnswer
  <2> QED  BY <1>11, <1>12, <1>14, <2>1, <2>3 DEF ToldIn
<1>17. Hears(c)'
  <2>1. ASSUME NEW i \in DOMAIN port', IsCompletion(port'[i], c)
        PROVE  ToldIn(c, port[i])' /\ frame'[c].pc # "close"
    <3>1. PICK j \in DOMAIN port : port[j] = port'[i]
      BY <1>4, <2>1 DEF NoNewPacket
    <3>2. ToldIn(c, port[j])  BY <1>7, <2>1, <3>1 DEF Hears
    <3> QED  BY <1>9, <1>11, <1>12, <3>1, <3>2 DEF ToldIn
  <2>2. \A u \in Thread : at'[u] = At("closing", c) => mode'[c] = "write"
    BY <1>6, <1>7, <1>8, <1>11
    DEF Hears, TokenInv, ControlOK, ThreadsOK, Running, At
  <2>3. operation'[c] \in OperationType  BY <1>14, <1>15
  <2>4. frame'[c].pc # "close"  BY <1>9, <1>11
  <2> QED  BY <1>16, <2>1, <2>2, <2>3, <2>4 DEF Hears, Running, At
<1>18. NotSeen(c)
  BY <1>1 DEF NotSeen, IsUnseen, Unseen, SameFault
<1> QED  BY <1>4, <1>5, <1>10, <1>13, <1>17, <1>18 DEF StepOf

(***************************************************************************)
(* The main thread starts a task.                                          *)
(***************************************************************************)
LEMMA StartTaskStep ==
    ASSUME TokenInv, DataInv, StartTask
    PROVE  /\ port' = port
           /\ \E c \in Coroutine : StepOf(c)
<1>1. PICK c : c = TaskOrder[started + 1]  OBVIOUS
<1>2. /\ at[Main].pc = "start" /\ started < Len(TaskOrder)
      /\ at' = [at EXCEPT ![Main] = Running(c)]
      /\ frame' = [frame EXCEPT ![c].pc = "next"]
      /\ UNCHANGED <<workload, file, faulty, stream, memory, last, operation,
                     request, port>>
  BY <1>1 DEF StartTask, fileVars, kernelVars, portVars
<1>3. c \in Coroutine /\ frame[c].pc = "new"
  <2>1. TaskOrder \in Seq(Coroutine) /\ started \in 0..Len(TaskOrder)
    BY AsyncAssumption DEF TokenInv, ControlOK
  <2>2. started + 1 \in 1..Len(TaskOrder)
        /\ started + 1 \in (started + 1)..Len(TaskOrder)
    BY <1>2, <2>1
  <2> QED  BY <1>1, <2>1, <2>2 DEF TokenInv, NotStarted
<1>4. /\ FunctionsOK /\ SettledIn(c) /\ OwnIn(c) /\ Hears(c)
      /\ request[c] = NoRequest /\ ~ Has(port, c) /\ OwnNow(c)
  <2>1. FunctionsOK /\ SettledIn(c) /\ OwnIn(c) /\ Hears(c)
    BY <1>3 DEF DataInv
  <2>2. request[c] = NoRequest /\ ~ Has(port, c)
    BY <1>3 DEF TokenInv, Place, Free
  <2> QED  BY <2>1, <2>2 DEF OwnIn, OwnNow
<1>5. PICK g : g = frame'[c]  OBVIOUS
<1>6. /\ IsFrame(g, "next", frame[c].next, frame[c].awaits, frame[c].call,
                 frame[c].failed)
      /\ OneChanges(frame, frame', c)
  <2>1. NewFrame(c, "next", frame[c].next, frame[c].awaits, frame[c].call,
                 frame[c].failed)
    BY <1>2, <1>3, <1>4, PlaceFrame
  <2> QED  BY <1>5, <2>1 DEF NewFrame, OneChanges
<1>7. /\ Own(program[c], mode[c], oldFile[c], Faulty(c), file[c],
             stream[c], g, memory[c], NoRequest)
      /\ Unseen(mode[c], stream[c], frame[c], stream[c], g)
  BY <1>3, <1>4, <1>6, OwnStarts DEF OwnNow
<1>8. Main \in Thread  BY DEF Thread
<1>9. KeepsOutside(c)
  <2>1. \A d \in Coroutine \ {c} : NoNewThread(d)
    BY <1>2, <1>8 DEF NoNewThread, TokenInv, ControlOK, ThreadsOK, Running, At
  <2>2. \A d \in Coroutine : NoNewPacket(d)  BY <1>2 DEF NoNewPacket
  <2>3. DataConfined(c)  BY <1>2 DEF DataConfined, Confined
  <2> QED  BY <1>3, <1>4, <1>6, <2>1, <2>2, <2>3, ConfinedKeeps
<1>10. OwnIn(c)'
  <2>1. /\ program' = program /\ mode' = mode /\ oldFile' = oldFile
        /\ request'[c] = NoRequest
    BY <1>2, <1>4 DEF workload
  <2>2. Faulty(c)' = Faulty(c)  BY <1>2 DEF Faulty
  <2> QED  BY <1>2, <1>5, <1>7, <2>1, <2>2 DEF OwnIn
<1>11. Hears(c)'
  <2>1. operation'[c] \in OperationType  BY <1>2, <1>4 DEF Hears
  <2>2. frame'[c].awaits = "nothing" /\ frame'[c].pc # "close"
    BY <1>3, <1>4, <1>5, <1>6 DEF IsFrame, OwnNow, Own, FrameFits, FrameType
  <2>3. \A u \in Thread : at'[u] = At("closing", c) => mode'[c] = "write"
    BY <1>2, <1>4, <1>8
    DEF Hears, workload, TokenInv, ControlOK, ThreadsOK, Running, At
  <2> QED  BY <1>3, <2>1, <2>2, <2>3, SilentHears
<1>12. NotSeen(c)
  BY <1>2, <1>5, <1>7 DEF NotSeen, IsUnseen, SameFault
<1> QED  BY <1>2, <1>3, <1>9, <1>10, <1>11, <1>12 DEF StepOf

(***************************************************************************)
(* Steps that leave alone all that the coroutines have.                    *)
(***************************************************************************)
LEMMA ApartIs ==
    ASSUME DataInv, \A d \in Coroutine : NoNewThread(d),
           UNCHANGED <<workload, fileVars, frame, last, operation, request>>,
           port' = port \/ port' = Append(port, Posted(NoCoroutine))
                        \/ (port # <<>> /\ port' = Tail(port))
    PROVE  NoStep /\ port' \in Seq(Packet)
<1>1. port' \in Seq(Packet) /\ \A d : NoNewPacket(d)
  BY PostsNothing DEF DataInv
<1>2. FunctionsOK'
  BY DEF DataInv, FunctionsOK, fileVars, IsFunction
<1>3. \A d \in Coroutine : Keeps(d)
  BY DEF Keeps, fileVars
<1> QED  BY <1>1, <1>2, <1>3 DEF NoStep

LEMMA NobodyEnters ==
    ASSUME TokenInv, NEW t \in Thread, NEW v,
           v.pc \notin {"run", "closing"}, at' = [at EXCEPT ![t] = v]
    PROVE  \A d \in Coroutine : NoNewThread(d)
BY DEF NoNewThread, TokenInv, ControlOK, ThreadsOK, Running, At

LEMMA ApartStep ==
    ASSUME TokenInv, DataInv, NEW t \in Thread,
           \/ ReturnPending(t) \/ NotifyAwaitableCompleted(t) \/ SetEvent(t)
           \/ t = Main /\ (RegisterAwaiter \/ TryAwait \/ WaitReturns)
           \/ TakeOverflow(t) \/ PostAgain(t) \/ RefusedAgain(t)
           \/ OnPosted(t)
    PROVE  NoStep /\ port' \in Seq(Packet)
<1>1. Resumer(t).pc \notin {"run", "closing"}
      /\ \A pc : Idle(pc).pc = pc
  BY DEF Resumer, Idle, At
<1>2. ASSUME \/ ReturnPending(t) \/ NotifyAwaitableCompleted(t) \/ SetEvent(t)
             \/ t = Main /\ (RegisterAwaiter \/ TryAwait \/ WaitReturns)
             \/ TakeOverflow(t) \/ RefusedAgain(t)
      PROVE  NoStep /\ port' \in Seq(Packet)
  <2>1. /\ UNCHANGED <<workload, fileVars, frame, last, operation, request>>
        /\ port' = port
    BY <1>2 DEF ReturnPending, NotifyAwaitableCompleted, SetEvent,
                RegisterAwaiter, TryAwait, WaitReturns, TakeOverflow,
                RefusedAgain, kernelVars, portVars
  <2>2. \/ at' = [at EXCEPT ![t] = Resumer(t)]
        \/ \E pc \in {"await", "wait", "resume", "loop", "returned", "get",
                      "post"} :
              at' = [at EXCEPT ![t] = Idle(pc)]
    BY <1>2 DEF ReturnPending, NotifyAwaitableCompleted, SetEvent,
                RegisterAwaiter, TryAwait, WaitReturns, TakeOverflow,
                RefusedAgain
  <2>3. PICK v : v.pc \notin {"run", "closing"} /\ at' = [at EXCEPT ![t] = v]
    <3>1. CASE at' = [at EXCEPT ![t] = Resumer(t)]
      BY <1>1, <3>1
    <3>2. ASSUME NEW pc \in {"await", "wait", "resume", "loop", "returned",
                             "get", "post"},
                 at' = [at EXCEPT ![t] = Idle(pc)]
          PROVE  \E v : /\ v.pc \notin {"run", "closing"}
                        /\ at' = [at EXCEPT ![t] = v]
      <4>1. Idle(pc).pc \notin {"run", "closing"}  BY <1>1, <3>2
      <4> QED  BY <3>2, <4>1
    <3> QED  BY <2>2, <3>1, <3>2
  <2>4. \A d \in Coroutine : NoNewThread(d)  BY <2>3, NobodyEnters
  <2> QED  BY <2>1, <2>4, ApartIs
<1>3. CASE PostAgain(t)
  <2>1. /\ UNCHANGED <<workload, fileVars, frame, last, operation, request>>
        /\ port' = Append(port, Posted(NoCoroutine))
    BY <1>3 DEF PostAgain, kernelVars, Continuation
  <2>2. PICK pc \in {"get", "post"} : at' = [at EXCEPT ![t] = Idle(pc)]
    BY <1>3 DEF PostAgain
  <2>3. PICK v : v = Idle(pc)  OBVIOUS
  <2>4. v.pc \notin {"run", "closing"} /\ at' = [at EXCEPT ![t] = v]
    BY <1>1, <2>2, <2>3
  <2>5. \A d \in Coroutine : NoNewThread(d)  BY <2>4, NobodyEnters
  <2> QED  BY <2>1, <2>5, ApartIs
<1>4. CASE OnPosted(t)
  <2>1. /\ port # <<>> /\ Head(port).kind = "posted" /\ port' = Tail(port)
        /\ UNCHANGED <<workload, fileVars, last, operation, request>>
    BY <1>4 DEF OnPosted, kernelVars
  <2>2. Head(port).coroutine = NoCoroutine
    <3>1. 1 \in DOMAIN port /\ Head(port) = port[1]
      BY <2>1 DEF DataInv
    <3>2. Addressed(port[1])  BY <3>1 DEF TokenInv, ControlOK, IsPort
    <3> QED  BY <2>1, <3>1, <3>2 DEF Addressed
  <2>3. at' = [at EXCEPT ![t] = Idle("loop")] /\ frame' = frame
    BY <1>4, <2>2 DEF OnPosted
  <2>4. PICK v : v = Idle("loop")  OBVIOUS
  <2>5. v.pc \notin {"run", "closing"} /\ at' = [at EXCEPT ![t] = v]
    BY <1>1, <2>3, <2>4
  <2>6. \A d \in Coroutine : NoNewThread(d)  BY <2>5, NobodyEnters
  <2> QED  BY <2>1, <2>3, <2>6, ApartIs
<1> QED  BY <1>2, <1>3, <1>4

(***************************************************************************)
(* Every step is one of one coroutine, or leaves all of them alone.        *)
(***************************************************************************)
LEMMA RunStep ==
    ASSUME TokenInv, ScheduleInv, DataInv, NEW t \in Thread,
           NEW c \in Coroutine, RunCoroutine(t, c)
    PROVE  StepOf(c) /\ port' \in Seq(Packet)
<1>1. CASE Schedule(t, c)
  BY <1>1, ScheduleStarts
<1>2. CASE ~ Schedule(t, c)
  <2>1. StepOf(c)
    BY <1>2, BeginSkipStep, BeginReadStep, ResumeDirectStep, ResumeRefillStep,
       BeginWriteStep, ResumeWriteStep, ThrowStep, CloseReaderStep,
       CloseReturnsStep, AwaitReadStep, AwaitWriteStep, CloseWriterStep
    DEF RunCoroutine
  <2>2. OwnStep(t, c)  BY <1>2, OwnSteps
  <2>3. port' = port  BY <2>2 DEF OwnStep, portVars
  <2> QED  BY <2>1, <2>3 DEF DataInv
<1> QED  BY <1>1, <1>2

LEMMA OneSteps ==
    ASSUME TokenInv, ScheduleInv, DataInv, [Next]_vars
    PROVE  /\ port' \in Seq(Packet)
           /\ NoStep \/ \E c \in Coroutine : StepOf(c)
<1> DEFINE Goal == /\ port' \in Seq(Packet)
                   /\ NoStep \/ \E c \in Coroutine : StepOf(c)
<1>1. ASSUME NEW t \in Thread, AnyThread(t)
      PROVE  Goal
  BY <1>1, RunStep, ApartStep DEF AnyThread
<1>2. ASSUME NEW t \in IOThread, EventLoop(t)
      PROVE  Goal
  <2>1. t \in Thread  BY DEF Thread
  <2> QED  BY <1>2, <2>1, ApartStep, ResumesStep DEF EventLoop
<1>3. CASE MainThread
  <2>1. Main \in Thread  BY DEF Thread
  <2>2. CASE StartTask
    BY <2>2, StartTaskStep DEF DataInv
  <2> QED  BY <1>3, <2>1, <2>2, ApartStep DEF MainThread
<1>4. CASE UNCHANGED vars
  <2>1. /\ UNCHANGED <<workload, fileVars, frame, last, operation, request>>
        /\ port' = port /\ at' = at
    BY <1>4 DEF vars, kernelVars, portVars
  <2>2. \A d \in Coroutine : NoNewThread(d)  BY <2>1 DEF NoNewThread
  <2> QED  BY <2>1, <2>2, ApartIs
<1> QED  BY <1>1, <1>2, <1>3, <1>4, CompleteStep DEF Next

LEMMA DataStep ==
    ASSUME TokenInv, ScheduleInv, DataInv, [Next]_vars
    PROVE  DataInv'
<1>1. port' \in Seq(Packet) /\ (NoStep \/ \E c \in Coroutine : StepOf(c))
  BY OneSteps
<1>2. ASSUME UNCHANGED workload
      PROVE  \A d \in Coroutine : SettledIn(d)'
  BY <1>2 DEF DataInv, SettledIn, workload
<1>3. CASE NoStep
  <2>1. \A d \in Coroutine : OwnIn(d)' /\ Hears(d)'
    BY <1>3, KeepsOwn, KeepsHears DEF NoStep, DataInv
  <2> QED  BY <1>1, <1>2, <1>3, <2>1 DEF NoStep, DataInv
<1>4. ASSUME NEW c \in Coroutine, StepOf(c)
      PROVE  DataInv'
  <2>1. UNCHANGED workload /\ FunctionsOK' /\ OwnIn(c)' /\ Hears(c)'
    BY <1>4 DEF StepOf, KeepsOutside
  <2>2. ASSUME NEW d \in Coroutine \ {c}
        PROVE  OwnIn(d)' /\ Hears(d)'
    BY <1>4, KeepsOwn, KeepsHears DEF StepOf, KeepsOutside, DataInv
  <2>3. \A d \in Coroutine : OwnIn(d)' /\ Hears(d)'
    BY <2>1, <2>2
  <2> QED  BY <1>1, <1>2, <2>1, <2>3 DEF DataInv
<1> QED  BY <1>1, <1>3, <1>4

(***************************************************************************)
(* A stream that was just opened.                                          *)
(***************************************************************************)
NewFrameValue == FrameOf("new", 1, "nothing", [left |-> 0, moved |-> 0], FALSE)

LEMMA NewStreamIs ==
    /\ NewStream \in StreamType
    /\ NewStream.bufferCount = 0 /\ NewStream.bufferOffset = 0
    /\ NewStream.fileOffset = 0
<1>1. PICK b : b = [i \in 1..BufferSize |-> 0]  OBVIOUS
<1>2. b \in [1..BufferSize -> Nat]  BY <1>1
<1>3. NewStream = StreamOf(b, 0, 0, 0)
  BY <1>1 DEF NewStream, StreamOf
<1>4. 0 \in Nat /\ 0 <= BufferSize  BY BufferAssumption
<1> QED  BY <1>2, <1>3, <1>4, StreamMade

LEMMA OwnNew ==
    ASSUME NEW access, NEW p, Settled(p, access), NEW x \in Seq(Nat),
           NEW bad, NEW s, s = NewStream, NEW f, f = NewFrameValue
    PROVE  Own(p, access, x, bad, x, s, f, <<>>, NoRequest)
<1>1. /\ s \in StreamType
      /\ s.bufferCount = 0 /\ s.bufferOffset = 0 /\ s.fileOffset = 0
  BY NewStreamIs
<1>2. IsFrame(f, "new", 1, "nothing", [left |-> 0, moved |-> 0], FALSE)
  <2>1. PICK call : call = [left |-> 0, moved |-> 0]  OBVIOUS
  <2>2. call \in Call  BY <2>1 DEF Call
  <2> QED  BY <2>1, <2>2 DEF NewFrameValue, IsFrame, FrameOf, FrameType
<1>3. /\ f \in FrameType /\ f.pc = "new" /\ f.next = 1 /\ f.awaits = "nothing"
      /\ f.failed = FALSE
  BY <1>2 DEF IsFrame
<1>4. Len(p) \in Nat /\ p \in Seq(Operations(access))  BY DEF Settled
<1>5. FrameFits(p, access, s, f)
  BY <1>3, <1>4 DEF FrameFits, InWrite
<1>6. ReaderOK(x, s, f, <<>>)
  <2>1. \A i \in 1..0 : FALSE  OBVIOUS
  <2> QED  BY <1>1, <1>3, <2>1 DEF ReaderOK, Buffered
<1>7. WriterOK(p, x, x, s, f, Landed(f, NoRequest))
  <2>1. PICK landed : landed = Landed(f, NoRequest)  OBVIOUS
  <2>2. ~ landed  BY <1>3, <2>1 DEF Landed
  <2>3. All(p, f) = <<>>
    <3>1. Written(p)[0] = <<>>  BY <1>4, WrittenIs
    <3>2. f.next - 1 = 0  BY <1>3
    <3> QED  BY <1>3, <3>1, <3>2 DEF All, Before, InWrite
  <2>4. InTail(<<>>, s)
    <3>1. Len(<<>>) = 0 /\ \A i \in 1..0 : FALSE  OBVIOUS
    <3> QED  BY <1>1, <3>1 DEF InTail
  <2>5. FileHolds(<<>>, x, x, 0)  BY HoldsNothing
  <2>6. s.fileOffset + 0 = 0  BY <1>1
  <2>7. WriterOK(p, x, x, s, f, landed)
    BY <1>3, <2>2, <2>3, <2>4, <2>5, <2>6 DEF WriterOK
  <2> QED  BY <2>1, <2>7
<1>8. <<>> \in Seq(Nat)  OBVIOUS
<1> QED  BY <1>1, <1>3, <1>5, <1>6, <1>7, <1>8 DEF Own

LEMMA DataInit ==
    ASSUME Init
    PROVE  DataInv
<1>1. PICK w \in Workloads :
        program = w.program /\ mode = w.mode /\ oldFile = w.files
  BY DEF Init
<1>2. /\ mode \in [Coroutine -> {"read", "write"}]
      /\ oldFile \in [Coroutine -> Seq(Nat)]
      /\ \A c \in Coroutine : program[c] \in Seq(Operations(mode[c]))
  BY <1>1, WorkloadAssumption
<1>3. /\ file = oldFile /\ faulty = {} /\ port = <<>>
      /\ stream = [c \in Coroutine |-> NewStream]
      /\ frame = [c \in Coroutine |-> NewFrameValue]
      /\ memory = [c \in Coroutine |-> <<>>]
      /\ last = [c \in Coroutine |-> <<>>]
      /\ operation = [c \in Coroutine |-> [error |-> FALSE, transferred |-> 0]]
      /\ request = [c \in Coroutine |-> NoRequest]
      /\ at = [t \in Thread |-> Resumer(t)]
  BY DEF Init, NewFrameValue, FrameOf
<1>4. FunctionsOK  BY <1>2, <1>3 DEF FunctionsOK, IsFunction
<1>5. port \in Seq(Packet) /\ DOMAIN port = {}  BY <1>3
<1>6. ASSUME NEW c \in Coroutine
      PROVE  SettledIn(c) /\ OwnIn(c) /\ Hears(c)
  <2>1. SettledIn(c)  BY <1>2 DEF SettledIn, Settled
  <2>2. /\ oldFile[c] \in Seq(Nat) /\ file[c] = oldFile[c]
        /\ stream[c] = NewStream /\ frame[c] = NewFrameValue
        /\ memory[c] = <<>> /\ request[c] = NoRequest
    BY <1>2, <1>3
  <2>3. OwnIn(c)  BY <2>1, <2>2, OwnNew DEF OwnIn, SettledIn
  <2>4. operation[c] \in OperationType
    BY <1>3, BufferAssumption DEF OperationType
  <2>5. \A t \in Thread : at[t] # Running(c) /\ at[t] # At("closing", c)
    BY <1>3 DEF Resumer, Running, Idle, At
  <2>6. Hears(c)  BY <1>5, <2>4, <2>5 DEF Hears
  <2> QED  BY <2>1, <2>3, <2>6
<1> QED  BY <1>4, <1>5, <1>6 DEF DataInv

-----------------------------------------------------------------------------
(***************************************************************************)
(* The invariants of both modules together give every variable its type.   *)
(***************************************************************************)
LEMMA CountTyped ==
    ASSUME TokenInv, CountInv
    PROVE  count \in 0..InitialCount
<1>1. PICK n : n = Cardinality(Unnotified)  OBVIOUS
<1>2. n \in Nat /\ n <= Len(TaskOrder)
  <2>1. Unnotified \subseteq Coroutine  BY DEF Unnotified
  <2> QED  BY <1>1, <2>1, CoroutinesFinite, FS_Subset, FS_CardinalityType
<1>3. Len(TaskOrder) \in Nat  BY AsyncAssumption
<1>4. count = n + (IF MainWaits THEN 0 ELSE 1)  BY <1>1 DEF CountInv
<1> QED  BY <1>2, <1>3, <1>4 DEF InitialCount

FlagsOK == awaiter \in BOOLEAN /\ event \in BOOLEAN

LEMMA FlagsStep ==
    ASSUME FlagsOK, [Next]_vars
    PROVE  FlagsOK'
<1>1. ASSUME NEW t \in Thread, NEW c \in Coroutine, RunCoroutine(t, c)
      PROVE  UNCHANGED <<awaiter, event>>
  BY <1>1
  DEF RunCoroutine, BeginSkip, BeginRead, AwaitRead, ResumeDirect,
      ResumeRefill, BeginWrite, AwaitWrite, ResumeWrite, Schedule, Throw,
      CloseReader, CloseWriter, CloseReturns, TryStart, waitVars
<1>2. ASSUME NEW t \in Thread, AnyThread(t)
      PROVE  FlagsOK'
  BY <1>1, <1>2 DEF AnyThread, ReturnPending, NotifyAwaitableCompleted,
                    SetEvent, waitVars, FlagsOK
<1>3. ASSUME NEW t \in IOThread, EventLoop(t)
      PROVE  FlagsOK'
  BY <1>3 DEF EventLoop, TakeOverflow, PostAgain, RefusedAgain,
              OnOperationCompleted, OnPosted, waitVars, FlagsOK
<1>4. ASSUME MainThread \/ UNCHANGED vars
             \/ \E c \in Coroutine : Complete(c)
      PROVE  FlagsOK'
  BY <1>4 DEF MainThread, StartTask, RegisterAwaiter, TryAwait, WaitReturns,
              Complete, vars, waitVars, FlagsOK
<1> QED  BY <1>2, <1>3, <1>4 DEF Next

LEMMA AllTyped ==
    ASSUME TokenInv, CountInv, ScheduleInv, DataInv, FlagsOK
    PROVE  TypeOK
<1>1. ASSUME NEW c \in Coroutine
      PROVE  /\ stream[c].bufferOffset \in 0..BufferSize
             /\ stream[c].bufferCount \in 0..BufferSize
             /\ Len(stream[c].buffer) = BufferSize
             /\ stream[c].fileOffset \in Nat
             /\ frame[c].next \in 1..(Len(program[c]) + 1)
             /\ frame[c].call.left \in Nat /\ frame[c].call.moved \in Nat
             /\ operation[c] \in OperationType
  <2>1. PICK s, f, p : s = stream[c] /\ f = frame[c] /\ p = program[c]
    OBVIOUS
  <2>2. SettledIn(c) /\ OwnIn(c) /\ Hears(c)  BY DEF DataInv
  <2>3. s \in StreamType /\ FrameFits(p, mode[c], s, f) /\ Len(p) \in Nat
    BY <2>1, <2>2 DEF OwnIn, Own, SettledIn, Settled
  <2>4. /\ s.bufferOffset \in 0..BufferSize /\ s.bufferCount \in 0..BufferSize
        /\ s.fileOffset \in Nat
    BY <2>3 DEF StreamType
  <2>5. Len(s.buffer) = BufferSize  BY <2>3, StreamIs
  <2>6. f \in FrameType /\ f.next <= Len(p) + 1  BY <2>3 DEF FrameFits
  <2>7. f.next \in Nat \ {0} /\ f.call.left \in Nat /\ f.call.moved \in Nat
    BY <2>6 DEF FrameType, Call
  <2>8. f.next \in 1..(Len(p) + 1)  BY <2>3, <2>6, <2>7
  <2> QED  BY <2>1, <2>2, <2>4, <2>5, <2>7, <2>8 DEF Hears
<1>2. operation \in
        [Coroutine -> [error : BOOLEAN, transferred : 0..BufferSize]]
  BY <1>1 DEF DataInv, FunctionsOK, IsFunction, OperationType
<1>3. closeEvent \in [Coroutine -> BOOLEAN]  BY DEF TokenInv, ControlOK
<1>4. port \in Seq(Packet)  BY DEF DataInv
<1>5. overflow \in Seq(Coroutine) /\ posting \in [IOThread -> Seq(Coroutine)]
  BY DEF ScheduleInv, HandsOK
<1>6. at \in [Thread -> [pc : {"start", "await", "wait", "returned", "loop",
                               "post", "get", "run", "call", "closing",
                               "notify", "resume"},
                         coroutine : Coroutine \union {NoCoroutine}]]
  BY DEF TokenInv, ControlOK, ThreadsOK, Stages
<1>7. count \in 0..InitialCount  BY CountTyped
<1> QED
  BY <1>1, <1>2, <1>3, <1>4, <1>5, <1>6, <1>7 DEF TypeOK, FlagsOK

FilesInv == TokenInv /\ CountInv /\ ScheduleInv /\ DataInv /\ FlagsOK

LEMMA FilesInvariant == Spec => []FilesInv
<1>1. Init => FlagsOK  BY DEF Init, FlagsOK
<1>2. Init => FilesInv
  BY <1>1, TokenInit, CountInit, ScheduleInit, DataInit DEF FilesInv
<1>3. FilesInv /\ [Next]_vars => FilesInv'
  BY TokenStep, CountStep, ScheduleStep, DataStep, FlagsStep DEF FilesInv
<1> QED  BY <1>2, <1>3, PTL DEF Spec

(***************************************************************************)
(* Every variable keeps its type: a stream's indices stay inside its       *)
(* buffer, what is transferred does too, the next operation of a coroutine *)
(* is one of its program or its end, and the counter of SyncWait never     *)
(* falls below zero.                                                       *)
(***************************************************************************)
THEOREM StreamsTyped == Spec => []TypeOK
<1>1. FilesInv => TypeOK  BY AllTyped DEF FilesInv
<1> QED  BY <1>1, FilesInvariant, PTL

-----------------------------------------------------------------------------
(***************************************************************************)
(* The state of the streams as ByteStreams sees it.                        *)
(***************************************************************************)
Nexts == [c \in Coroutine |-> frame[c].next]
Positions == [c \in Coroutine |-> Position(c)]
Statuses == [c \in Coroutine |-> Status(c)]
FileOf(c) ==
    IF Status(c) = "closed" /\ c \notin faulty THEN file[c] ELSE oldFile[c]
Files == [c \in Coroutine |-> FileOf(c)]

StreamsView ==
    <<program, mode, Nexts, Positions, last, Files, Statuses, faulty>>

LEMMA StreamsVars == UNCHANGED StreamsView => UNCHANGED Streams!vars
BY DEF StreamsView, Nexts, Positions, Files, FileOf, Statuses, Streams!vars

(***************************************************************************)
(* The steps of ByteStreams, of what is seen of one stream.                *)
(***************************************************************************)
NextIs(c) == Nexts' = [Nexts EXCEPT ![c] = Nexts[c] + 1]

Reads(c) ==
    /\ Statuses[c] = "open" /\ Nexts[c] <= Len(program[c])
    /\ program[c][Nexts[c]].op = "read"
    /\ last' = [last EXCEPT ![c] =
                    Slice(Files[c], Positions[c], program[c][Nexts[c]].count)]
    /\ Positions' = [Positions EXCEPT ![c] = Positions[c] + Len(last'[c])]
    /\ NextIs(c)
    /\ UNCHANGED <<program, mode, Files, Statuses, faulty>>

SkipsTo(c) ==
    /\ Statuses[c] = "open" /\ Nexts[c] <= Len(program[c])
    /\ program[c][Nexts[c]].op = "skipTo"
    /\ Positions' = [Positions EXCEPT ![c] = program[c][Nexts[c]].offset]
    /\ NextIs(c)
    /\ UNCHANGED <<program, mode, last, Files, Statuses, faulty>>

Skips(c) ==
    /\ Statuses[c] = "open" /\ Nexts[c] <= Len(program[c])
    /\ program[c][Nexts[c]].op = "skip"
    /\ \E more \in {0} \union 0..(Len(Files[c]) - Positions[c]) :
        /\ program[c][Nexts[c]].offset = 0 => more = 0
        /\ Positions' = [Positions EXCEPT ![c] =
                            Positions[c] + program[c][Nexts[c]].offset + more]
    /\ NextIs(c)
    /\ UNCHANGED <<program, mode, last, Files, Statuses, faulty>>

Writes(c) ==
    /\ Statuses[c] = "open" /\ Nexts[c] <= Len(program[c])
    /\ program[c][Nexts[c]].op = "write"
    /\ NextIs(c)
    /\ UNCHANGED <<program, mode, Positions, last, Files, Statuses, faulty>>

Closes(c) ==
    /\ Statuses[c] = "open" /\ Nexts[c] = Len(program[c]) + 1
    /\ Statuses' = [Statuses EXCEPT ![c] = "closed"]
    /\ mode[c] = "read" \/ c \in faulty => Files' = Files
    /\ ~ (mode[c] = "read" \/ c \in faulty) =>
        LET all == Written(program[c])[Nexts[c] - 1]
        IN  Files' = [Files EXCEPT ![c] =
                        all \o SubSeq(Files[c], Len(all) + 1, Len(Files[c]))]
    /\ UNCHANGED <<program, mode, Nexts, Positions, last, faulty>>

Fails(c) ==
    /\ Statuses[c] = "open" /\ Nexts[c] <= Len(program[c])
    /\ \/ c \in faulty
       \/ /\ program[c][Nexts[c]].op = "read"
          /\ Positions[c] + program[c][Nexts[c]].count > Len(Files[c])
    /\ Statuses' = [Statuses EXCEPT ![c] = "failed"]
    /\ UNCHANGED <<program, mode, Nexts, Positions, last, Files, faulty>>

Faults(c) ==
    /\ Statuses[c] = "open"
    /\ faulty' = faulty \union {c}
    /\ UNCHANGED <<program, mode, Nexts, Positions, last, Files, Statuses>>

LEMMA IsReads ==
    ASSUME NEW c, Reads(c)
    PROVE  Streams!Read(c)
BY DEF Reads, NextIs, Slice, Streams!Read, Streams!Unfinished,
       Streams!Operation, Streams!BytesRead, Streams!AtEnd,
       Nexts, Positions, Statuses, Files, FileOf

LEMMA IsSkipTo ==
    ASSUME NEW c, SkipsTo(c)
    PROVE  Streams!SkipTo(c)
BY DEF SkipsTo, NextIs, Streams!SkipTo, Streams!Unfinished, Streams!Operation,
       Nexts, Positions, Statuses, Files, FileOf

LEMMA IsSkip ==
    ASSUME NEW c, Skips(c)
    PROVE  Streams!Skip(c)
BY DEF Skips, NextIs, Streams!Skip, Streams!Unfinished, Streams!Operation,
       Nexts, Positions, Statuses, Files, FileOf

LEMMA IsWrite ==
    ASSUME NEW c, Writes(c)
    PROVE  Streams!Write(c)
BY DEF Writes, NextIs, Streams!Write, Streams!Unfinished, Streams!Operation,
       Nexts, Positions, Statuses, Files, FileOf

LEMMA IsFail ==
    ASSUME NEW c, Fails(c)
    PROVE  Streams!Fail(c)
BY DEF Fails, Streams!Fail, Streams!Unfinished, Streams!Operation,
       Streams!AtEnd, Nexts, Positions, Statuses, Files, FileOf

LEMMA IsFault ==
    ASSUME NEW c, Faults(c)
    PROVE  Streams!Fault(c)
BY DEF Faults, Streams!Fault, Nexts, Positions, Statuses, Files, FileOf

LEMMA BytesWrittenIs ==
    ASSUME NEW c
    PROVE  Streams!BytesWritten(c) = Written(program[c])[Nexts[c] - 1]
BY DEF Streams!BytesWritten, Written, Nexts

LEMMA IsClose ==
    ASSUME NEW c, Closes(c)
    PROVE  Streams!Close(c)
BY BytesWrittenIs
   DEF Closes, Streams!Close, Nexts, Positions, Statuses, Files, FileOf

LEMMA Seen ==
    ASSUME NEW c \in Coroutine
    PROVE  /\ Nexts[c] = frame[c].next
           /\ Positions[c] = PositionOf(mode[c], stream[c], frame[c])
           /\ Statuses[c] = StatusOf(frame[c])
           /\ Files[c] = FileOf(c)
           /\ FileOf(c) = IF StatusOf(frame[c]) = "closed" /\ c \notin faulty
                          THEN file[c] ELSE oldFile[c]
BY DEF Nexts, Positions, Statuses, Files, FileOf, Position, Status,
       PositionOf, StatusOf, CallAt, ReadAt

Changes(old, new, c, v) == new = [old EXCEPT ![c] = v]

LEMMA Changed ==
    ASSUME NEW c, NEW v, NEW old, NEW new,
           old = [d \in Coroutine |-> old[d]],
           new = [d \in Coroutine |-> new[d]],
           \A d \in Coroutine \ {c} : new[d] = old[d],
           c \in Coroutine => new[c] = v
    PROVE  Changes(old, new, c, v)
BY DEF Changes

LEMMA SeenAfter ==
    ASSUME NEW c \in Coroutine, KeepsOutside(c)
    PROVE  /\ UNCHANGED <<program, mode>>
           /\ Changes(Nexts, Nexts', c, frame'[c].next)
           /\ Changes(Positions, Positions', c,
                      PositionOf(mode[c], stream'[c], frame'[c]))
           /\ Changes(Statuses, Statuses', c, StatusOf(frame'[c]))
           /\ Changes(Files, Files', c,
                      IF StatusOf(frame'[c]) = "closed" /\ c \notin faulty'
                      THEN file'[c] ELSE oldFile[c])
<1>1. UNCHANGED workload
      /\ \A d \in Coroutine \ {c} : Keeps(d)
  BY DEF KeepsOutside
<1>2. ASSUME NEW d \in Coroutine
      PROVE  /\ Nexts'[d] = frame'[d].next
             /\ Positions'[d] = PositionOf(mode[d], stream'[d], frame'[d])
             /\ Statuses'[d] = StatusOf(frame'[d])
             /\ Files'[d] =
                    IF StatusOf(frame'[d]) = "closed" /\ d \notin faulty'
                    THEN file'[d] ELSE oldFile[d]
  BY <1>1
  DEF workload, Nexts, Positions, Statuses, Files, FileOf, Position, Status,
      PositionOf, StatusOf, CallAt, ReadAt
<1>3. ASSUME NEW d \in Coroutine \ {c}
      PROVE  /\ Nexts'[d] = Nexts[d] /\ Positions'[d] = Positions[d]
             /\ Statuses'[d] = Statuses[d] /\ Files'[d] = Files[d]
  <2>1. /\ frame'[d] = frame[d] /\ stream'[d] = stream[d]
        /\ file'[d] = file[d] /\ (d \in faulty' <=> d \in faulty)
    BY <1>1 DEF Keeps
  <2> QED  BY <1>2, <2>1, Seen
<1>4. /\ Nexts = [d \in Coroutine |-> Nexts[d]]
      /\ Positions = [d \in Coroutine |-> Positions[d]]
      /\ Statuses = [d \in Coroutine |-> Statuses[d]]
      /\ Files = [d \in Coroutine |-> Files[d]]
  BY DEF Nexts, Positions, Statuses, Files
<1>5. /\ Nexts' = [d \in Coroutine |-> Nexts'[d]]
      /\ Positions' = [d \in Coroutine |-> Positions'[d]]
      /\ Statuses' = [d \in Coroutine |-> Statuses'[d]]
      /\ Files' = [d \in Coroutine |-> Files'[d]]
  BY DEF Nexts, Positions, Statuses, Files
<1> HIDE DEF Nexts, Positions, Statuses, Files
<1> QED  BY <1>1, <1>2, <1>3, <1>4, <1>5, Changed DEF workload

(***************************************************************************)
(* What a step of ByteStreams leaves as it was.                            *)
(***************************************************************************)
LEMMA ViewFunctions ==
    /\ Nexts = [d \in Coroutine |-> Nexts[d]]
    /\ Positions = [d \in Coroutine |-> Positions[d]]
    /\ Statuses = [d \in Coroutine |-> Statuses[d]]
    /\ Files = [d \in Coroutine |-> Files[d]]
BY DEF Nexts, Positions, Statuses, Files

LEMMA NoChange ==
    ASSUME NEW c, NEW old, NEW new, NEW v, Changes(old, new, c, v),
           old = [d \in Coroutine |-> old[d]], v = old[c]
    PROVE  new = old
BY DEF Changes

LEMMA LastAfter ==
    ASSUME NEW c \in Coroutine, DataInv, KeepsOutside(c)
    PROVE  /\ last' = [last EXCEPT ![c] = last'[c]]
           /\ last'[c] = last[c] => last' = last
<1>1. /\ last = [d \in Coroutine |-> last[d]]
      /\ last' = [d \in Coroutine |-> last'[d]]
      /\ \A d \in Coroutine \ {c} : last'[d] = last[d]
  BY DEF KeepsOutside, Keeps, DataInv, FunctionsOK, IsFunction
<1>2. Changes(last, last', c, last'[c])  BY <1>1, Changed
<1> QED  BY <1>1, <1>2 DEF Changes

LEMMA FaultAfter ==
    ASSUME NEW c \in Coroutine, DataInv, KeepsOutside(c)
    PROVE  /\ SameFault(c) => faulty' = faulty
           /\ c \in faulty' => faulty' = faulty \union {c}
  BY DEF KeepsOutside, Keeps, DataInv, FunctionsOK, SameFault

(***************************************************************************)
(* What is seen of a step is a step of ByteStreams.                        *)
(***************************************************************************)
LEMMA UnseenStep ==
    ASSUME DataInv, NEW c \in Coroutine, KeepsOutside(c), NotSeen(c)
    PROVE  Faults(c) \/ UNCHANGED StreamsView
<1>1. /\ UNCHANGED <<program, mode>>
      /\ Changes(Nexts, Nexts', c, frame'[c].next)
      /\ Changes(Positions, Positions', c,
                 PositionOf(mode[c], stream'[c], frame'[c]))
      /\ Changes(Statuses, Statuses', c, StatusOf(frame'[c]))
      /\ Changes(Files, Files', c,
                 IF StatusOf(frame'[c]) = "closed" /\ c \notin faulty'
                 THEN file'[c] ELSE oldFile[c])
  BY SeenAfter
<1>2. /\ frame'[c].next = frame[c].next
      /\ PositionOf(mode[c], stream'[c], frame'[c])
            = PositionOf(mode[c], stream[c], frame[c])
      /\ StatusOf(frame'[c]) = StatusOf(frame[c])
  BY DEF NotSeen, IsUnseen, Unseen
<1>3. Nexts' = Nexts /\ Positions' = Positions /\ Statuses' = Statuses
  BY <1>1, <1>2, Seen, NoChange, ViewFunctions
<1>4. last' = last  BY LastAfter DEF NotSeen
<1>5. CASE SameFault(c)
  <2>1. faulty' = faulty  BY <1>5, FaultAfter
  <2>2. (IF StatusOf(frame'[c]) = "closed" /\ c \notin faulty'
         THEN file'[c] ELSE oldFile[c]) = Files[c]
    <3>1. \/ c \in faulty \/ StatusOf(frame[c]) = "open"
          \/ file'[c] = file[c]
      BY DEF NotSeen
    <3>2. StatusOf(frame[c]) = "open" => StatusOf(frame[c]) # "closed"
      OBVIOUS
    <3> QED  BY <1>2, <2>1, <3>1, <3>2, Seen
  <2>3. Files' = Files  BY <1>1, <2>2, NoChange, ViewFunctions
  <2> QED  BY <1>1, <1>3, <1>4, <2>1, <2>3 DEF StreamsView
<1>6. CASE ~ SameFault(c)
  <2>1. c \in faulty' /\ c \notin faulty /\ StatusOf(frame[c]) = "open"
    BY <1>6 DEF NotSeen, SameFault
  <2>2. faulty' = faulty \union {c}  BY <2>1, FaultAfter
  <2>3. Files[c] = oldFile[c]  BY <2>1, Seen
  <2>4. Files' = Files
    BY <1>1, <1>2, <2>1, <2>3, NoChange, ViewFunctions
  <2>5. Statuses[c] = "open"  BY <2>1, Seen
  <2> QED  BY <1>1, <1>3, <1>4, <2>2, <2>4, <2>5 DEF Faults
<1> QED  BY <1>5, <1>6

LEMMA OperationStep ==
    ASSUME DataInv, NEW c \in Coroutine, KeepsOutside(c), OperationSeen(c)
    PROVE  Reads(c) \/ SkipsTo(c) \/ Skips(c) \/ Writes(c)
<1>1. /\ UNCHANGED <<program, mode>>
      /\ Changes(Nexts, Nexts', c, frame'[c].next)
      /\ Changes(Positions, Positions', c,
                 PositionOf(mode[c], stream'[c], frame'[c]))
      /\ Changes(Statuses, Statuses', c, StatusOf(frame'[c]))
      /\ Changes(Files, Files', c,
                 IF StatusOf(frame'[c]) = "closed" /\ c \notin faulty'
                 THEN file'[c] ELSE oldFile[c])
  BY SeenAfter
<1>2. Finishes(program[c], frame[c], frame'[c])
  BY DEF OperationSeen, ReadSeen, SkipSeen, WriteSeen
<1>3. /\ StatusOf(frame[c]) = "open" /\ StatusOf(frame'[c]) = "open"
      /\ frame'[c].next = frame[c].next + 1
      /\ frame[c].next <= Len(program[c]) /\ frame[c].next \in Nat \ {0}
  BY <1>2 DEF Finishes, Open
<1>4. /\ Statuses[c] = "open" /\ Nexts[c] = frame[c].next
      /\ Positions[c] = PositionOf(mode[c], stream[c], frame[c])
      /\ Files[c] = oldFile[c]
  BY <1>3, Seen
<1>5. Statuses' = Statuses /\ Files' = Files
  BY <1>1, <1>3, <1>4, NoChange, ViewFunctions
<1>6. faulty' = faulty  BY FaultAfter DEF OperationSeen
<1>7. NextIs(c)  BY <1>1, <1>3, <1>4 DEF NextIs, Changes
<1>8. /\ last' = [last EXCEPT ![c] = last'[c]]
      /\ last'[c] = last[c] => last' = last
  BY LastAfter
<1>9. PICK o : o = program[c][frame[c].next]  OBVIOUS
<1>10. o.op \in {"read", "skip", "skipTo"} => Files[c] = file[c]
  <2>1. SettledIn(c) /\ OwnIn(c)  BY DEF DataInv
  <2>2. program[c] \in Seq(Operations(mode[c])) /\ mode[c] \in {"read", "write"}
    BY <2>1 DEF SettledIn, Settled
  <2>3. /\ o.op = "read" => mode[c] = "read"
        /\ o.op \in {"skip", "skipTo"} => mode[c] = "read"
    BY <1>3, <1>9, <2>2, OperationTyped
  <2>4. mode[c] = "read" => file[c] = oldFile[c]
    BY <2>1 DEF OwnIn, Own
  <2> QED  BY <1>4, <2>3, <2>4
<1>11. CASE ReadSeen(program[c], mode[c], file[c], stream[c], frame[c],
                     stream'[c], frame'[c], last'[c])
  <2>1. /\ o.op = "read"
        /\ last'[c] = Slice(file[c], Positions[c], o.count)
        /\ PositionOf(mode[c], stream'[c], frame'[c])
            = Positions[c] + Len(last'[c])
    BY <1>4, <1>9, <1>11 DEF ReadSeen
  <2>2. Files[c] = file[c]  BY <1>10, <2>1
  <2> QED
    BY <1>1, <1>3, <1>4, <1>5, <1>6, <1>7, <1>8, <1>9, <2>1, <2>2
    DEF Reads, Changes
<1>12. CASE /\ last'[c] = last[c]
            /\ SkipSeen(program[c], mode[c], file[c], stream[c], frame[c],
                        stream'[c], frame'[c])
  <2>1. CASE /\ o.op = "skipTo"
             /\ PositionOf(mode[c], stream'[c], frame'[c]) = o.offset
    BY <1>1, <1>3, <1>4, <1>5, <1>6, <1>7, <1>8, <1>9, <1>12, <2>1
    DEF SkipsTo, Changes
  <2>2. CASE /\ o.op = "skip"
             /\ \E more \in {0} \union 0..(Len(file[c]) - Positions[c]) :
                    /\ o.offset = 0 => more = 0
                    /\ PositionOf(mode[c], stream'[c], frame'[c])
                        = Positions[c] + o.offset + more
    <3>1. Files[c] = file[c]  BY <1>10, <2>2
    <3>2. PICK more \in {0} \union 0..(Len(Files[c]) - Positions[c]) :
            /\ o.offset = 0 => more = 0
            /\ PositionOf(mode[c], stream'[c], frame'[c])
                = Positions[c] + o.offset + more
      BY <2>2, <3>1
    <3>3. Positions' = [Positions EXCEPT ![c] = Positions[c] + o.offset + more]
      BY <1>1, <3>2 DEF Changes
    <3> QED
      BY <1>1, <1>3, <1>4, <1>5, <1>6, <1>7, <1>8, <1>9, <1>12, <2>2, <3>2,
         <3>3
      DEF Skips
  <2> QED  BY <1>4, <1>9, <1>12, <2>1, <2>2 DEF SkipSeen
<1>13. CASE /\ last'[c] = last[c]
            /\ WriteSeen(program[c], mode[c], stream[c], frame[c],
                         stream'[c], frame'[c])
  <2>1. /\ o.op = "write"
        /\ PositionOf(mode[c], stream'[c], frame'[c]) = Positions[c]
    BY <1>4, <1>9, <1>13 DEF WriteSeen
  <2>2. Positions' = Positions  BY <1>1, <2>1, NoChange, ViewFunctions
  <2> QED
    BY <1>1, <1>3, <1>4, <1>5, <1>6, <1>7, <1>8, <1>9, <1>13, <2>1, <2>2
    DEF Writes
<1> QED  BY <1>11, <1>12, <1>13 DEF OperationSeen

LEMMA EndStep ==
    ASSUME DataInv, NEW c \in Coroutine, KeepsOutside(c), EndSeen(c)
    PROVE  Fails(c) \/ Closes(c)
<1>1. /\ UNCHANGED <<program, mode>>
      /\ Changes(Nexts, Nexts', c, frame'[c].next)
      /\ Changes(Positions, Positions', c,
                 PositionOf(mode[c], stream'[c], frame'[c]))
      /\ Changes(Statuses, Statuses', c, StatusOf(frame'[c]))
      /\ Changes(Files, Files', c,
                 IF StatusOf(frame'[c]) = "closed" /\ c \notin faulty'
                 THEN file'[c] ELSE oldFile[c])
  BY SeenAfter
<1>2. /\ frame'[c].next = frame[c].next
      /\ PositionOf(mode[c], stream'[c], frame'[c])
            = PositionOf(mode[c], stream[c], frame[c])
      /\ StatusOf(frame[c]) = "open"
  BY DEF EndSeen, FailureSeen, CloseSeen, Open
<1>3. Nexts' = Nexts /\ Positions' = Positions
  BY <1>1, <1>2, Seen, NoChange, ViewFunctions
<1>4. faulty' = faulty /\ last' = last /\ file'[c] = file[c]
  BY FaultAfter, LastAfter DEF EndSeen
<1>5. /\ Statuses[c] = "open" /\ Nexts[c] = frame[c].next
      /\ Positions[c] = PositionOf(mode[c], stream[c], frame[c])
      /\ Files[c] = oldFile[c]
  BY <1>2, Seen
<1>6. OwnIn(c)  BY DEF DataInv
<1>7. CASE FailureSeen(program[c], mode[c], Faulty(c), file[c], stream[c],
                       frame[c], frame'[c])
  <2>1. StatusOf(frame'[c]) = "failed" /\ frame[c].next <= Len(program[c])
        /\ frame[c].next \in Nat \ {0}
    BY <1>7 DEF FailureSeen, Open
  <2>2. Files' = Files
    BY <1>1, <1>5, <2>1, NoChange, ViewFunctions
  <2>3. \/ c \in faulty
        \/ /\ program[c][Nexts[c]].op = "read"
           /\ Positions[c] + program[c][Nexts[c]].count > Len(Files[c])
    <3>1. PICK o : o = program[c][frame[c].next]  OBVIOUS
    <3>2. o.op = "read" => Files[c] = file[c]
      <4>1. SettledIn(c)  BY DEF DataInv
      <4>2. program[c] \in Seq(Operations(mode[c]))
        BY <4>1 DEF SettledIn, Settled
      <4>3. o.op = "read" => mode[c] = "read"
        BY <2>1, <3>1, <4>2, OperationTyped
      <4>4. mode[c] = "read" => file[c] = oldFile[c]
        BY <1>6 DEF OwnIn, Own
      <4> QED  BY <1>5, <4>3, <4>4
    <3> QED  BY <1>5, <1>7, <3>1, <3>2 DEF FailureSeen, Faulty
  <2> QED
    BY <1>1, <1>3, <1>4, <1>5, <2>1, <2>2, <2>3 DEF Fails, Changes
<1>8. CASE CloseSeen(program[c], mode[c], oldFile[c], Faulty(c), file[c],
                     stream[c], frame[c], frame'[c])
  <2>1. StatusOf(frame'[c]) = "closed" /\ frame[c].next = Len(program[c]) + 1
    BY <1>8 DEF CloseSeen
  <2>2. Changes(Files, Files', c,
                IF c \notin faulty THEN file[c] ELSE oldFile[c])
    BY <1>1, <1>4, <2>1
  <2>3. mode[c] = "read" \/ c \in faulty => Files' = Files
    <3>1. mode[c] = "read" => file[c] = oldFile[c]
      BY <1>8 DEF CloseSeen
    <3> QED  BY <1>5, <2>2, <3>1, NoChange, ViewFunctions
  <2>4. ASSUME ~ (mode[c] = "read" \/ c \in faulty)
        PROVE  LET all == Written(program[c])[Nexts[c] - 1]
               IN  Files' = [Files EXCEPT ![c] =
                        all \o SubSeq(Files[c], Len(all) + 1, Len(Files[c]))]
    <3>1. PICK all : all = Written(program[c])[frame[c].next - 1]  OBVIOUS
    <3>2. mode[c] = "write"
      <4>1. SettledIn(c)  BY DEF DataInv
      <4> QED  BY <2>4, <4>1 DEF SettledIn, Settled
    <3>3. file[c] = all \o SubSeq(oldFile[c], Len(all) + 1, Len(oldFile[c]))
      BY <1>8, <2>4, <3>1, <3>2 DEF CloseSeen, Faulty
    <3>4. Files' = [Files EXCEPT ![c] = file[c]]
      BY <2>2, <2>4 DEF Changes
    <3> QED  BY <1>5, <3>1, <3>3, <3>4
  <2> QED
    BY <1>1, <1>3, <1>4, <1>5, <2>1, <2>3, <2>4 DEF Closes, Changes
<1> QED  BY <1>7, <1>8 DEF EndSeen

LEMMA StreamsStep ==
    ASSUME TokenInv, ScheduleInv, DataInv, [Next]_vars
    PROVE  [Streams!Next]_(Streams!vars)
<1>1. NoStep \/ \E c \in Coroutine : StepOf(c)
  BY OneSteps
<1>2. CASE NoStep
  <2>1. CASE Coroutine = {}
    <3>1. /\ Nexts' = Nexts /\ Positions' = Positions
          /\ Statuses' = Statuses /\ Files' = Files
      BY <2>1 DEF Nexts, Positions, Statuses, Files
    <3>2. program' = program /\ mode' = mode /\ last' = last
          /\ faulty' = faulty
      BY <1>2, <2>1 DEF NoStep, DataInv, FunctionsOK, IsFunction, workload
    <3> QED  BY <3>1, <3>2, StreamsVars DEF StreamsView
  <2>2. ASSUME NEW c \in Coroutine
        PROVE  UNCHANGED StreamsView
    <3>1. KeepsOutside(c)  BY <1>2 DEF NoStep, KeepsOutside
    <3>2. /\ frame'[c] = frame[c] /\ stream'[c] = stream[c]
          /\ file'[c] = file[c] /\ last'[c] = last[c] /\ SameFault(c)
      BY <1>2 DEF NoStep, Keeps, SameFault
    <3>3. NotSeen(c)
      BY <3>2 DEF NotSeen, IsUnseen, Unseen, SameFault
    <3>4. Faults(c) \/ UNCHANGED StreamsView
      BY <3>1, <3>3, UnseenStep
    <3>5. ASSUME Faults(c)  PROVE UNCHANGED StreamsView
      BY <3>1, <3>2, <3>5, FaultAfter DEF Faults, StreamsView
    <3> QED  BY <3>4, <3>5
  <2> QED  BY <2>1, <2>2, StreamsVars
<1>3. ASSUME NEW c \in Coroutine, StepOf(c)
      PROVE  [Streams!Next]_(Streams!vars)
  <2>1. KeepsOutside(c) /\ (NotSeen(c) \/ OperationSeen(c) \/ EndSeen(c))
    BY <1>3 DEF StepOf
  <2>2. \/ Faults(c) \/ UNCHANGED StreamsView
        \/ Reads(c) \/ SkipsTo(c) \/ Skips(c) \/ Writes(c)
        \/ Fails(c) \/ Closes(c)
    BY <2>1, UnseenStep, OperationStep, EndStep
  <2>3. \/ Streams!Fault(c) \/ UNCHANGED Streams!vars
        \/ Streams!Read(c) \/ Streams!SkipTo(c) \/ Streams!Skip(c)
        \/ Streams!Write(c) \/ Streams!Fail(c) \/ Streams!Close(c)
    BY <2>2, IsReads, IsSkipTo, IsSkip, IsWrite, IsFail, IsClose, IsFault,
       StreamsVars
  <2> QED  BY <2>3 DEF Streams!Next
<1> QED  BY <1>1, <1>2, <1>3

LEMMA StreamsStart ==
    ASSUME Init
    PROVE  Streams!Init
<1>1. /\ stream = [c \in Coroutine |-> NewStream]
      /\ frame = [c \in Coroutine |-> NewFrameValue]
      /\ last = [c \in Coroutine |-> <<>>] /\ faulty = {}
  BY DEF Init, NewFrameValue, FrameOf
<1>2. /\ NewStream.bufferCount = 0 /\ NewStream.bufferOffset = 0
      /\ NewStream.fileOffset = 0
  BY NewStreamIs
<1>3. /\ NewFrameValue.pc = "new" /\ NewFrameValue.next = 1
      /\ NewFrameValue.failed = FALSE
  BY DEF NewFrameValue, FrameOf
<1>4. ASSUME NEW c \in Coroutine
      PROVE  frame[c].next = 1 /\ Position(c) = 0 /\ Status(c) = "open"
  BY <1>1, <1>2, <1>3 DEF Position, Status
<1> QED  BY <1>1, <1>4 DEF Streams!Init

(***************************************************************************)
(* AsyncFiles implements ByteStreams: reads return the bytes of the file   *)
(* at a position that advances by what was read, what was written is in    *)
(* the file when the stream is closed, and an operation fails only where   *)
(* the file ends or the device fails, however the asynchronous operations  *)
(* complete and whichever thread resumes whom.                             *)
(***************************************************************************)
THEOREM StreamsAreByteStreams == Spec => IsByteStreams
<1>1. Init => Streams!Init
  BY StreamsStart
<1>2. FilesInv /\ [Next]_vars => [Streams!Next]_(Streams!vars)
  BY StreamsStep DEF FilesInv
<1> QED
  BY <1>1, <1>2, FilesInvariant, PTL DEF Spec, IsByteStreams, Streams!Spec

=============================================================================
