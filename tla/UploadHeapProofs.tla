-------------------------- MODULE UploadHeapProofs --------------------------
(***************************************************************************)
(* Why memory of the upload heap is not reused too early: the fence values *)
(* of the frames, who holds memory, what the payloads use and the records  *)
(* of the allocators, each with the invariant that says so.                *)
(***************************************************************************)
EXTENDS UploadHeap, UploadAllocators, TLAPS

-----------------------------------------------------------------------------
(***************************************************************************)
(* The frames of the commands that are still to be executed: the first one *)
(* is of frame a, an "end" separates each frame from the next, and the     *)
(* next command to be recorded is of frame z.  A signal is that of the     *)
(* frame before, and a page used in a frame is not retired before it.      *)
(***************************************************************************)
PageFor(ps, memory, f) ==
    \E p \in ps : /\ memory = PageMemory(p.id)
                  /\ p.retire = NotRetired \/ (p.retire \in Nat /\ f <= p.retire)

Numbered(c, ps, a, z, L) ==
    /\ L \in [1..(Len(c) + 1) -> Nat]
    /\ L[1] = a
    /\ L[Len(c) + 1] = z
    /\ \A i \in 1..Len(c) : L[i + 1] = IF c[i].op = "end" THEN L[i] + 1 ELSE L[i]
    /\ \A i, j \in 1..(Len(c) + 1) : i <= j => L[i] <= L[j]
    /\ \A i \in 1..Len(c) :
        c[i].op = "signal" => c[i].fence \in Nat /\ c[i].fence + 1 = L[i]
    /\ \A i \in 1..Len(c) : c[i].op = "use" => PageFor(ps, c[i].memory, L[i])

InFrames(c, ps, a, z) == \E L : Numbered(c, ps, a, z, L)

LEMMA FramesAppend ==
    ASSUME NEW c, IsList(c), NEW ps, NEW a, NEW z, InFrames(c, ps, a, z),
           NEW e, e.op \notin {"end", "signal"},
           e.op = "use" => PageFor(ps, e.memory, z)
    PROVE  InFrames(Append(c, e), ps, a, z)
<1>1. PICK L : Numbered(c, ps, a, z, L)
  BY DEF InFrames
<1>2. PICK n \in Nat : n = Len(c)
  BY ListIs
<1>3. PICK d : d = Append(c, e)  OBVIOUS
<1>4. /\ Len(d) = n + 1 /\ d[n + 1] = e
      /\ \A i \in 1..n : d[i] = c[i]
  BY <1>2, <1>3, ListAppend
<1>5. PICK M : M = [i \in 1..(n + 2) |-> IF i = n + 2 THEN z ELSE L[i]]
  OBVIOUS
<1>6. /\ L \in [1..(n + 1) -> Nat] /\ L[1] = a /\ L[n + 1] = z
      /\ \A i \in 1..n : L[i + 1] = IF c[i].op = "end" THEN L[i] + 1 ELSE L[i]
      /\ \A i, j \in 1..(n + 1) : i <= j => L[i] <= L[j]
      /\ \A i \in 1..n :
          c[i].op = "signal" => c[i].fence \in Nat /\ c[i].fence + 1 = L[i]
      /\ \A i \in 1..n : c[i].op = "use" => PageFor(ps, c[i].memory, L[i])
  BY <1>1, <1>2 DEF Numbered
<1>7. /\ M \in [1..(n + 2) -> Nat] /\ M[n + 2] = z
      /\ \A i \in 1..(n + 1) : M[i] = L[i]
  BY <1>5, <1>6
<1>8. M[1] = a
  BY <1>6, <1>7
<1>9. \A i \in 1..(n + 1) : M[i + 1] = IF d[i].op = "end" THEN M[i] + 1 ELSE M[i]
  <2> SUFFICES ASSUME NEW i \in 1..(n + 1)
               PROVE  M[i + 1] = IF d[i].op = "end" THEN M[i] + 1 ELSE M[i]
    OBVIOUS
  <2>1. CASE i = n + 1
    BY <1>4, <1>6, <1>7, <2>1
  <2>2. CASE i # n + 1
    <3>1. i \in 1..n /\ i + 1 \in 1..(n + 1)  BY <2>2
    <3> QED  BY <1>4, <1>6, <1>7, <3>1
  <2> QED  BY <2>1, <2>2
<1>10. \A i, j \in 1..(n + 2) : i <= j => M[i] <= M[j]
  <2> SUFFICES ASSUME NEW i \in 1..(n + 2), NEW j \in 1..(n + 2), i <= j
               PROVE  M[i] <= M[j]
    OBVIOUS
  <2>1. CASE j = n + 2
    <3>1. CASE i = n + 2
      BY <1>7, <2>1, <3>1
    <3>2. CASE i # n + 2
      <4>1. i \in 1..(n + 1) /\ n + 1 \in 1..(n + 1) /\ i <= n + 1  BY <3>2
      <4> QED  BY <1>6, <1>7, <2>1, <4>1
    <3> QED  BY <3>1, <3>2
  <2>2. CASE j # n + 2
    <3>1. i \in 1..(n + 1) /\ j \in 1..(n + 1)  BY <2>2
    <3> QED  BY <1>6, <1>7, <3>1
  <2> QED  BY <2>1, <2>2
<1>11. ASSUME NEW i \in 1..(n + 1)
       PROVE  /\ d[i].op = "signal" => d[i].fence \in Nat /\ d[i].fence + 1 = M[i]
              /\ d[i].op = "use" => PageFor(ps, d[i].memory, M[i])
  <2>1. CASE i = n + 1
    BY <1>4, <1>6, <1>7, <2>1
  <2>2. CASE i # n + 1
    <3>1. i \in 1..n  BY <2>2
    <3> QED  BY <1>4, <1>6, <1>7, <3>1
  <2> QED  BY <2>1, <2>2
<1>12. Numbered(d, ps, a, z, M)
  BY <1>4, <1>7, <1>8, <1>9, <1>10, <1>11 DEF Numbered
<1> QED  BY <1>3, <1>12 DEF InFrames

(***************************************************************************)
(* The end of a frame and the signal that follows it.                      *)
(***************************************************************************)
LEMMA FramesEnd ==
    ASSUME NEW c, IsList(c), NEW ps, NEW a, NEW z \in Nat, InFrames(c, ps, a, z)
    PROVE  InFrames(c \o <<[op |-> "end"], [op |-> "signal", fence |-> z]>>,
                    ps, a, z + 1)
<1>1. PICK L : Numbered(c, ps, a, z, L)
  BY DEF InFrames
<1>2. PICK n \in Nat : n = Len(c)
  BY ListIs
<1>3. PICK x : x = [op |-> "end"]  OBVIOUS
<1>4. PICK y : y = [op |-> "signal", fence |-> z]  OBVIOUS
<1>5. PICK b : b = Append(c, x)  OBVIOUS
<1>6. PICK d : d = Append(b, y)  OBVIOUS
<1>7. /\ IsList(b) /\ Len(b) = n + 1 /\ b[n + 1] = x
      /\ \A i \in 1..n : b[i] = c[i]
  BY <1>2, <1>5, ListAppend
<1>8. /\ Len(d) = n + 2 /\ d[n + 2] = y
      /\ \A i \in 1..(n + 1) : d[i] = b[i]
  BY <1>6, <1>7, ListAppend
<1>9. d[n + 1] = x /\ \A i \in 1..n : d[i] = c[i]
  BY <1>7, <1>8
<1>10. PICK M : M = [i \in 1..(n + 3) |-> IF i \in 1..(n + 1) THEN L[i] ELSE z + 1]
  OBVIOUS
<1>11. /\ L \in [1..(n + 1) -> Nat] /\ L[1] = a /\ L[n + 1] = z
       /\ \A i \in 1..n : L[i + 1] = IF c[i].op = "end" THEN L[i] + 1 ELSE L[i]
       /\ \A i, j \in 1..(n + 1) : i <= j => L[i] <= L[j]
       /\ \A i \in 1..n :
           c[i].op = "signal" => c[i].fence \in Nat /\ c[i].fence + 1 = L[i]
       /\ \A i \in 1..n : c[i].op = "use" => PageFor(ps, c[i].memory, L[i])
  BY <1>1, <1>2 DEF Numbered
<1>12. /\ M \in [1..(n + 3) -> Nat] /\ M[n + 2] = z + 1 /\ M[n + 3] = z + 1
       /\ \A i \in 1..(n + 1) : M[i] = L[i]
  BY <1>10, <1>11
<1>13. M[1] = a /\ M[n + 1] = z
  BY <1>11, <1>12
<1>14. x.op = "end" /\ y.op = "signal" /\ y.fence = z
  BY <1>3, <1>4
<1>15. \A i \in 1..(n + 2) : M[i + 1] = IF d[i].op = "end" THEN M[i] + 1 ELSE M[i]
  <2> SUFFICES ASSUME NEW i \in 1..(n + 2)
               PROVE  M[i + 1] = IF d[i].op = "end" THEN M[i] + 1 ELSE M[i]
    OBVIOUS
  <2>1. CASE i = n + 2
    BY <1>8, <1>12, <1>14, <2>1
  <2>2. CASE i = n + 1
    BY <1>9, <1>12, <1>13, <1>14, <2>2
  <2>3. CASE i \in 1..n
    <3>1. i \in 1..(n + 1) /\ i + 1 \in 1..(n + 1)  BY <2>3
    <3> QED  BY <1>9, <1>11, <1>12, <2>3, <3>1
  <2> QED  BY <2>1, <2>2, <2>3
<1>16. \A i, j \in 1..(n + 3) : i <= j => M[i] <= M[j]
  <2> SUFFICES ASSUME NEW i \in 1..(n + 3), NEW j \in 1..(n + 3), i <= j
               PROVE  M[i] <= M[j]
    OBVIOUS
  <2>1. CASE j \in 1..(n + 1)
    <3>1. i \in 1..(n + 1)  BY <2>1
    <3> QED  BY <1>11, <1>12, <2>1, <3>1
  <2>2. CASE j \notin 1..(n + 1)
    <3>1. M[j] = z + 1  BY <1>10, <2>2
    <3>2. CASE i \in 1..(n + 1)
      <4>1. n + 1 \in 1..(n + 1) /\ i <= n + 1  BY <3>2
      <4>2. L[i] <= z /\ L[i] \in Nat  BY <1>11, <3>2, <4>1
      <4> QED  BY <1>12, <3>1, <3>2, <4>2
    <3>3. CASE i \notin 1..(n + 1)
      BY <1>10, <3>1, <3>3
    <3> QED  BY <3>2, <3>3
  <2> QED  BY <2>1, <2>2
<1>17. ASSUME NEW i \in 1..(n + 2)
       PROVE  /\ d[i].op = "signal" => d[i].fence \in Nat /\ d[i].fence + 1 = M[i]
              /\ d[i].op = "use" => PageFor(ps, d[i].memory, M[i])
  <2>1. CASE i = n + 2
    BY <1>8, <1>12, <1>14, <2>1
  <2>2. CASE i = n + 1
    BY <1>9, <1>14, <2>2
  <2>3. CASE i \in 1..n
    <3>1. i \in 1..(n + 1)  BY <2>3
    <3> QED  BY <1>9, <1>11, <1>12, <2>3, <3>1
  <2> QED  BY <2>1, <2>2, <2>3
<1>18. z + 1 \in Nat /\ M[(n + 2) + 1] = z + 1 /\ (n + 2) + 1 = n + 3
  BY <1>12
<1>19. Numbered(d, ps, a, z + 1, M)
  BY <1>8, <1>12, <1>13, <1>15, <1>16, <1>17, <1>18 DEF Numbered
<1>20. d = c \o <<x, y>>
  BY <1>5, <1>6, ListConcat
<1> QED  BY <1>3, <1>4, <1>19, <1>20 DEF InFrames

LEMMA FramesTail ==
    ASSUME NEW c, IsList(c), c # <<>>, NEW ps, NEW a, NEW z, InFrames(c, ps, a, z)
    PROVE  /\ a \in Nat /\ z \in Nat /\ a <= z
           /\ Head(c).op # "end" => InFrames(Tail(c), ps, a, z)
           /\ Head(c).op = "end" => InFrames(Tail(c), ps, a + 1, z) /\ a + 1 <= z
           /\ Head(c).op = "signal" => Head(c).fence \in Nat /\ Head(c).fence + 1 = a
           /\ Head(c).op = "use" => PageFor(ps, Head(c).memory, a)
<1>1. PICK L : Numbered(c, ps, a, z, L)
  BY DEF InFrames
<1>2. PICK n \in Nat : n + 1 = Len(c)
  <2>1. Len(c) \in Nat \ {0}  BY ListTail
  <2>2. Len(c) - 1 \in Nat /\ (Len(c) - 1) + 1 = Len(c)  BY <2>1
  <2> QED  BY <2>2
<1>3. PICK d : d = Tail(c)  OBVIOUS
<1>4. /\ Len(d) = n /\ Head(c) = c[1]
      /\ \A i \in 1..n : d[i] = c[i + 1]
  <2>1. Len(c) - 1 = n  BY <1>2
  <2> QED  BY <1>3, <2>1, ListTail
<1>5. PICK M : M = [i \in 1..(n + 1) |-> L[i + 1]]
  OBVIOUS
<1>6. /\ L \in [1..(n + 2) -> Nat] /\ L[1] = a /\ L[n + 2] = z
      /\ \A i \in 1..(n + 1) :
            L[i + 1] = IF c[i].op = "end" THEN L[i] + 1 ELSE L[i]
      /\ \A i, j \in 1..(n + 2) : i <= j => L[i] <= L[j]
      /\ \A i \in 1..(n + 1) :
          c[i].op = "signal" => c[i].fence \in Nat /\ c[i].fence + 1 = L[i]
      /\ \A i \in 1..(n + 1) : c[i].op = "use" => PageFor(ps, c[i].memory, L[i])
  <2>1. (n + 1) + 1 = n + 2  OBVIOUS
  <2> QED  BY <1>1, <1>2, <2>1 DEF Numbered
<1>7. 1 \in 1..(n + 1) /\ 1 \in 1..(n + 2) /\ 2 \in 1..(n + 2) /\ n + 2 \in 1..(n + 2)
  OBVIOUS
<1>8. a \in Nat /\ z \in Nat /\ a <= z
  BY <1>6, <1>7
<1>9. M \in [1..(n + 1) -> Nat] /\ M[1] = L[2] /\ M[n + 1] = z
  <2>1. \A i \in 1..(n + 1) : i + 1 \in 1..(n + 2)  OBVIOUS
  <2>2. (n + 1) + 1 = n + 2 /\ 1 + 1 = 2  OBVIOUS
  <2> QED  BY <1>5, <1>6, <2>1, <2>2
<1>10. L[2] = IF Head(c).op = "end" THEN a + 1 ELSE a
  BY <1>4, <1>6, <1>7
<1>11. L[2] <= z
  BY <1>6, <1>7
<1>12. \A i \in 1..n : M[i + 1] = IF d[i].op = "end" THEN M[i] + 1 ELSE M[i]
  <2> SUFFICES ASSUME NEW i \in 1..n
               PROVE  M[i + 1] = IF d[i].op = "end" THEN M[i] + 1 ELSE M[i]
    OBVIOUS
  <2>1. i + 1 \in 1..(n + 1) /\ i \in 1..(n + 1)  OBVIOUS
  <2> QED  BY <1>4, <1>5, <1>6, <2>1
<1>13. \A i, j \in 1..(n + 1) : i <= j => M[i] <= M[j]
  <2> SUFFICES ASSUME NEW i \in 1..(n + 1), NEW j \in 1..(n + 1), i <= j
               PROVE  M[i] <= M[j]
    OBVIOUS
  <2>1. i + 1 \in 1..(n + 2) /\ j + 1 \in 1..(n + 2) /\ i + 1 <= j + 1
    OBVIOUS
  <2> QED  BY <1>5, <1>6, <2>1
<1>14. ASSUME NEW i \in 1..n
       PROVE  /\ d[i].op = "signal" => d[i].fence \in Nat /\ d[i].fence + 1 = M[i]
              /\ d[i].op = "use" => PageFor(ps, d[i].memory, M[i])
  <2>1. i + 1 \in 1..(n + 1) /\ i \in 1..(n + 1)  OBVIOUS
  <2> QED  BY <1>4, <1>5, <1>6, <2>1
<1>15. Numbered(d, ps, L[2], z, M)
  BY <1>4, <1>9, <1>12, <1>13, <1>14 DEF Numbered
<1>16. InFrames(Tail(c), ps, L[2], z)
  BY <1>3, <1>15 DEF InFrames
<1>17. /\ Head(c).op = "signal" => Head(c).fence \in Nat /\ Head(c).fence + 1 = a
       /\ Head(c).op = "use" => PageFor(ps, Head(c).memory, a)
  BY <1>4, <1>6, <1>7
<1>18. CASE Head(c).op = "end"
  BY <1>8, <1>10, <1>11, <1>16, <1>17, <1>18
<1>19. CASE Head(c).op # "end"
  BY <1>8, <1>10, <1>16, <1>17, <1>19
<1> QED  BY <1>18, <1>19

LEMMA FramesBounds ==
    ASSUME NEW c, IsList(c), NEW ps, NEW a, NEW z, InFrames(c, ps, a, z)
    PROVE  /\ a \in Nat /\ z \in Nat /\ a <= z
           /\ \A i \in 1..Len(c) : c[i].op = "signal" =>
                c[i].fence \in Nat /\ c[i].fence < z
<1>1. PICK L : Numbered(c, ps, a, z, L)
  BY DEF InFrames
<1>2. PICK n \in Nat : n = Len(c)
  BY ListIs
<1>3. /\ L \in [1..(n + 1) -> Nat] /\ L[1] = a /\ L[n + 1] = z
      /\ \A i, j \in 1..(n + 1) : i <= j => L[i] <= L[j]
      /\ \A i \in 1..n :
          c[i].op = "signal" => c[i].fence \in Nat /\ c[i].fence + 1 = L[i]
  BY <1>1, <1>2 DEF Numbered
<1>4. 1 \in 1..(n + 1) /\ n + 1 \in 1..(n + 1) /\ 1 <= n + 1
  OBVIOUS
<1>5. a \in Nat /\ z \in Nat /\ a <= z
  BY <1>3, <1>4
<1>6. ASSUME NEW i \in 1..n, c[i].op = "signal"
      PROVE  c[i].fence \in Nat /\ c[i].fence < z
  <2>1. i \in 1..(n + 1) /\ i <= n + 1  OBVIOUS
  <2>2. L[i] <= z /\ L[i] \in Nat  BY <1>3, <1>4, <2>1
  <2>3. c[i].fence \in Nat /\ c[i].fence + 1 = L[i]  BY <1>3, <1>6
  <2> QED  BY <1>5, <2>2, <2>3
<1> QED  BY <1>2, <1>5, <1>6

(***************************************************************************)
(* Other pages keep the commands in their frames if they are as good as    *)
(* these for every frame from a to z.                                      *)
(***************************************************************************)
PagesKept(ps, qs, a, z) ==
    \A memory : \A f \in a..z : PageFor(ps, memory, f) => PageFor(qs, memory, f)

LEMMA FramesPages ==
    ASSUME NEW c, IsList(c), NEW ps, NEW qs, NEW a, NEW z,
           InFrames(c, ps, a, z), PagesKept(ps, qs, a, z)
    PROVE  InFrames(c, qs, a, z)
<1>1. PICK L : Numbered(c, ps, a, z, L)
  BY DEF InFrames
<1>2. PICK n \in Nat : n = Len(c)
  BY ListIs
<1>3. /\ L \in [1..(n + 1) -> Nat] /\ L[1] = a /\ L[n + 1] = z
      /\ \A i, j \in 1..(n + 1) : i <= j => L[i] <= L[j]
      /\ \A i \in 1..n : c[i].op = "use" => PageFor(ps, c[i].memory, L[i])
  BY <1>1, <1>2 DEF Numbered
<1>4. ASSUME NEW i \in 1..n, c[i].op = "use"
      PROVE  PageFor(qs, c[i].memory, L[i])
  <2>1. i \in 1..(n + 1) /\ 1 \in 1..(n + 1) /\ n + 1 \in 1..(n + 1) /\ 1 <= i /\ i <= n + 1
    OBVIOUS
  <2>2. a <= L[i] /\ L[i] <= z /\ L[i] \in Nat /\ a \in Nat /\ z \in Nat
    BY <1>3, <2>1
  <2>3. L[i] \in a..z
    BY <2>2
  <2>4. PageFor(ps, c[i].memory, L[i])
    BY <1>3, <1>4
  <2> QED  BY <2>3, <2>4 DEF PagesKept
<1>5. Numbered(c, qs, a, z, L)
  BY <1>1, <1>2, <1>4 DEF Numbered
<1> QED  BY <1>5 DEF InFrames

-----------------------------------------------------------------------------
(***************************************************************************)
(* The values of the fence rise: from the one completed, through those the *)
(* queue of the GPU will signal, to those of the commands.                 *)
(***************************************************************************)
IsSignal(q) == q.op = "signal"

SignalsRise(c, q, done, last) ==
    /\ \A i \in 1..Len(c) : IsSignal(c[i]) =>
        /\ c[i].fence \in Nat /\ done < c[i].fence
        /\ \A k \in 1..Len(q) : IsSignal(q[k]) => q[k].fence < c[i].fence
    /\ \A i, j \in 1..Len(c) :
        i < j /\ IsSignal(c[i]) /\ IsSignal(c[j]) => c[i].fence < c[j].fence
    /\ \A k \in 1..Len(q) : IsSignal(q[k]) =>
        q[k].fence \in Nat /\ done < q[k].fence /\ q[k].fence <= last
    /\ \A k, l \in 1..Len(q) :
        k < l /\ IsSignal(q[k]) /\ IsSignal(q[l]) => q[k].fence < q[l].fence

LEMMA RiseAppend ==
    ASSUME NEW c, IsList(c), NEW q, NEW done, NEW last, SignalsRise(c, q, done, last),
           NEW e, ~ IsSignal(e)
    PROVE  SignalsRise(Append(c, e), q, done, last)
<1>1. PICK n \in Nat : n = Len(c)
  BY ListIs
<1>2. PICK d : d = Append(c, e)  OBVIOUS
<1>3. /\ Len(d) = n + 1 /\ d[n + 1] = e
      /\ \A i \in 1..n : d[i] = c[i]
  BY <1>1, <1>2, ListAppend
<1>4. \A i \in 1..(n + 1) : IsSignal(d[i]) => i \in 1..n
  BY <1>3
<1>5. ASSUME NEW i \in 1..n, IsSignal(c[i])
      PROVE  /\ c[i].fence \in Nat /\ done < c[i].fence
             /\ \A k \in 1..Len(q) : IsSignal(q[k]) => q[k].fence < c[i].fence
  BY <1>1, <1>5 DEF SignalsRise
<1>6. ASSUME NEW i \in 1..n, NEW j \in 1..n, i < j, IsSignal(c[i]), IsSignal(c[j])
      PROVE  c[i].fence < c[j].fence
  BY <1>1, <1>6 DEF SignalsRise
<1>7. /\ \A i \in 1..Len(d) : IsSignal(d[i]) =>
          /\ d[i].fence \in Nat /\ done < d[i].fence
          /\ \A k \in 1..Len(q) : IsSignal(q[k]) => q[k].fence < d[i].fence
      /\ \A i, j \in 1..Len(d) :
          i < j /\ IsSignal(d[i]) /\ IsSignal(d[j]) => d[i].fence < d[j].fence
  BY <1>3, <1>4, <1>5, <1>6
<1> QED  BY <1>2, <1>7 DEF SignalsRise

LEMMA RiseAppendSignal ==
    ASSUME NEW c, IsList(c), NEW q, NEW done, NEW last, SignalsRise(c, q, done, last),
           NEW e, e.fence \in Nat, done < e.fence, last < e.fence,
           done \in Nat, last \in Nat,
           \A i \in 1..Len(c) : IsSignal(c[i]) => c[i].fence < e.fence
    PROVE  SignalsRise(Append(c, e), q, done, last)
<1>1. PICK n \in Nat : n = Len(c)
  BY ListIs
<1>2. PICK d : d = Append(c, e)  OBVIOUS
<1>3. /\ Len(d) = n + 1 /\ d[n + 1] = e
      /\ \A i \in 1..n : d[i] = c[i]
  BY <1>1, <1>2, ListAppend
<1>4. \A i \in 1..(n + 1) : i \in 1..n \/ i = n + 1
  OBVIOUS
<1>5. ASSUME NEW k \in 1..Len(q), IsSignal(q[k])  PROVE q[k].fence < e.fence
  <2>1. q[k].fence \in Nat /\ q[k].fence <= last  BY <1>5 DEF SignalsRise
  <2> QED  BY <2>1
<1>6. ASSUME NEW i \in 1..Len(d), IsSignal(d[i])
      PROVE  /\ d[i].fence \in Nat /\ done < d[i].fence
             /\ \A k \in 1..Len(q) : IsSignal(q[k]) => q[k].fence < d[i].fence
  <2>1. CASE i = n + 1
    BY <1>3, <1>5, <2>1
  <2>2. CASE i \in 1..n
    <3>1. d[i] = c[i] /\ IsSignal(c[i]) /\ i \in 1..Len(c)  BY <1>1, <1>3, <1>6, <2>2
    <3> QED  BY <3>1 DEF SignalsRise
  <2> QED  BY <1>3, <1>4, <2>1, <2>2
<1>7. ASSUME NEW i \in 1..Len(d), NEW j \in 1..Len(d), i < j, IsSignal(d[i]), IsSignal(d[j])
      PROVE  d[i].fence < d[j].fence
  <2>1. i \in 1..n /\ d[i] = c[i] /\ i \in 1..Len(c)  BY <1>1, <1>3, <1>7
  <2>2. CASE j = n + 1
    BY <1>3, <1>7, <2>1, <2>2
  <2>3. CASE j \in 1..n
    <3>1. d[j] = c[j] /\ j \in 1..Len(c)  BY <1>1, <1>3, <2>3
    <3> QED  BY <1>7, <2>1, <3>1 DEF SignalsRise
  <2> QED  BY <1>3, <1>4, <2>2, <2>3
<1> QED  BY <1>2, <1>6, <1>7 DEF SignalsRise

LEMMA RiseTail ==
    ASSUME NEW c, IsList(c), c # <<>>, NEW q, NEW done, NEW last,
           SignalsRise(c, q, done, last)
    PROVE  SignalsRise(Tail(c), q, done, last)
<1>1. PICK n \in Nat : n + 1 = Len(c)
  <2>1. Len(c) \in Nat \ {0}  BY ListTail
  <2>2. Len(c) - 1 \in Nat /\ (Len(c) - 1) + 1 = Len(c)  BY <2>1
  <2> QED  BY <2>2
<1>2. PICK d : d = Tail(c)  OBVIOUS
<1>3. Len(d) = n /\ \A i \in 1..n : d[i] = c[i + 1]
  <2>1. Len(c) - 1 = n  BY <1>1
  <2> QED  BY <1>2, <2>1, ListTail
<1>4. ASSUME NEW i \in 1..n, IsSignal(d[i])
      PROVE  /\ d[i].fence \in Nat /\ done < d[i].fence
             /\ \A k \in 1..Len(q) : IsSignal(q[k]) => q[k].fence < d[i].fence
  <2>1. i + 1 \in 1..Len(c) /\ d[i] = c[i + 1]  BY <1>1, <1>3
  <2> QED  BY <1>4, <2>1 DEF SignalsRise
<1>5. ASSUME NEW i \in 1..n, NEW j \in 1..n, i < j, IsSignal(d[i]), IsSignal(d[j])
      PROVE  d[i].fence < d[j].fence
  <2>1. /\ i + 1 \in 1..Len(c) /\ d[i] = c[i + 1]
        /\ j + 1 \in 1..Len(c) /\ d[j] = c[j + 1] /\ i + 1 < j + 1
    BY <1>1, <1>3, <1>5
  <2> QED  BY <1>5, <2>1 DEF SignalsRise
<1>6. SignalsRise(d, q, done, last)
  BY <1>3, <1>4, <1>5 DEF SignalsRise
<1> QED  BY <1>2, <1>6

(***************************************************************************)
(* The first command, a signal, goes to the queue.                         *)
(***************************************************************************)
LEMMA RiseSignal ==
    ASSUME NEW c, IsList(c), c # <<>>, NEW q, IsList(q), NEW done, NEW last,
           SignalsRise(c, q, done, last), Head(c).op = "signal",
           Head(c).fence <= last
    PROVE  SignalsRise(Tail(c), Append(q, [op |-> "signal", fence |-> Head(c).fence]),
                       done, last)
<1>1. PICK n \in Nat : n + 1 = Len(c)
  <2>1. Len(c) \in Nat \ {0}  BY ListTail
  <2>2. Len(c) - 1 \in Nat /\ (Len(c) - 1) + 1 = Len(c)  BY <2>1
  <2> QED  BY <2>2
<1>2. PICK d : d = Tail(c)  OBVIOUS
<1>3. Len(d) = n /\ Head(c) = c[1] /\ \A i \in 1..n : d[i] = c[i + 1]
  <2>1. Len(c) - 1 = n  BY <1>1
  <2> QED  BY <1>2, <2>1, ListTail
<1>4. PICK f : f = Head(c).fence  OBVIOUS
<1>5. PICK e : e = [op |-> "signal", fence |-> f]  OBVIOUS
<1>6. PICK r : r = Append(q, e)  OBVIOUS
<1>7. PICK m \in Nat : m = Len(q)
  BY ListIs
<1>8. Len(r) = m + 1 /\ r[m + 1] = e /\ \A k \in 1..m : r[k] = q[k]
  BY <1>6, <1>7, ListAppend
<1>9. e.fence = f
  BY <1>5
<1>10. 1 \in 1..Len(c) /\ IsSignal(c[1]) /\ c[1].fence = f
  BY <1>1, <1>3, <1>4 DEF IsSignal
<1>11. /\ f \in Nat /\ done < f /\ f <= last
       /\ \A k \in 1..m : IsSignal(q[k]) => q[k].fence < f
  BY <1>4, <1>7, <1>10 DEF SignalsRise
<1>12. SignalsRise(d, q, done, last)
  BY <1>2, RiseTail
<1>13. ASSUME NEW i \in 1..n, IsSignal(d[i])  PROVE f < d[i].fence
  <2>1. /\ i + 1 \in 1..Len(c) /\ d[i] = c[i + 1] /\ 1 < i + 1
    BY <1>1, <1>3
  <2> QED  BY <1>10, <1>13, <2>1 DEF SignalsRise
<1>14. ASSUME NEW i \in 1..Len(d), IsSignal(d[i])
       PROVE  /\ d[i].fence \in Nat /\ done < d[i].fence
              /\ \A k \in 1..Len(r) : IsSignal(r[k]) => r[k].fence < d[i].fence
  <2>1. /\ d[i].fence \in Nat /\ done < d[i].fence
        /\ \A k \in 1..m : IsSignal(q[k]) => q[k].fence < d[i].fence
    BY <1>7, <1>12, <1>14 DEF SignalsRise
  <2>2. ASSUME NEW k \in 1..Len(r), IsSignal(r[k])  PROVE r[k].fence < d[i].fence
    <3>1. CASE k = m + 1
      BY <1>3, <1>8, <1>9, <1>13, <1>14, <3>1
    <3>2. CASE k \in 1..m
      BY <1>8, <2>1, <2>2, <3>2
    <3> QED  BY <1>8, <3>1, <3>2
  <2> QED  BY <2>1, <2>2
<1>15. ASSUME NEW i \in 1..Len(d), NEW j \in 1..Len(d), i < j, IsSignal(d[i]), IsSignal(d[j])
       PROVE  d[i].fence < d[j].fence
  BY <1>12, <1>15 DEF SignalsRise
<1>16. ASSUME NEW k \in 1..Len(r), IsSignal(r[k])
       PROVE  r[k].fence \in Nat /\ done < r[k].fence /\ r[k].fence <= last
  <2>1. CASE k = m + 1
    BY <1>8, <1>9, <1>11, <2>1
  <2>2. CASE k \in 1..m
    BY <1>7, <1>8, <1>16, <2>2 DEF SignalsRise
  <2> QED  BY <1>8, <2>1, <2>2
<1>17. ASSUME NEW k \in 1..Len(r), NEW l \in 1..Len(r), k < l, IsSignal(r[k]), IsSignal(r[l])
       PROVE  r[k].fence < r[l].fence
  <2>1. k \in 1..m /\ r[k] = q[k]  BY <1>8, <1>17
  <2>2. CASE l = m + 1
    BY <1>8, <1>9, <1>11, <1>17, <2>1, <2>2
  <2>3. CASE l \in 1..m
    BY <1>7, <1>8, <1>17, <2>1, <2>3 DEF SignalsRise
  <2> QED  BY <1>8, <2>2, <2>3
<1>18. SignalsRise(d, r, done, last)
  BY <1>14, <1>15, <1>16, <1>17 DEF SignalsRise
<1> QED  BY <1>2, <1>4, <1>5, <1>6, <1>18

(***************************************************************************)
(* A payload is appended to the queue, or the first of the queue is done.  *)
(***************************************************************************)
LEMMA RiseQueue ==
    ASSUME NEW c, NEW q, IsList(q), NEW done, NEW last, SignalsRise(c, q, done, last),
           NEW e, ~ IsSignal(e)
    PROVE  SignalsRise(c, Append(q, e), done, last)
<1>1. PICK n \in Nat : n = Len(q)
  BY ListIs
<1>2. PICK d : d = Append(q, e)  OBVIOUS
<1>3. /\ Len(d) = n + 1 /\ d[n + 1] = e
      /\ \A i \in 1..n : d[i] = q[i]
  BY <1>1, <1>2, ListAppend
<1>4. ASSUME NEW k \in 1..Len(d), IsSignal(d[k])
      PROVE  k \in 1..Len(q) /\ d[k] = q[k] /\ IsSignal(q[k])
  BY <1>1, <1>3, <1>4
<1>5. SignalsRise(c, d, done, last)
  BY <1>4 DEF SignalsRise
<1> QED  BY <1>2, <1>5

LEMMA RiseDone ==
    ASSUME NEW c, NEW q, IsList(q), q # <<>>, NEW done \in Nat, NEW last,
           SignalsRise(c, q, done, last)
    PROVE  /\ SignalsRise(c, Tail(q), done, last)
           /\ Head(q).op = "signal" =>
                /\ Head(q).fence \in Nat /\ done < Head(q).fence
                /\ Head(q).fence <= last
                /\ SignalsRise(c, Tail(q), Head(q).fence, last)
<1>1. PICK n \in Nat : n + 1 = Len(q)
  <2>1. Len(q) \in Nat \ {0}  BY ListTail
  <2>2. Len(q) - 1 \in Nat /\ (Len(q) - 1) + 1 = Len(q)  BY <2>1
  <2> QED  BY <2>2
<1>2. PICK d : d = Tail(q)  OBVIOUS
<1>3. Len(d) = n /\ Head(q) = q[1] /\ \A i \in 1..n : d[i] = q[i + 1]
  <2>1. Len(q) - 1 = n  BY <1>1
  <2> QED  BY <1>2, <2>1, ListTail
<1>4. ASSUME NEW i \in 1..n  PROVE i + 1 \in 1..Len(q) /\ d[i] = q[i + 1] /\ 1 < i + 1
  BY <1>1, <1>3
<1>5. ASSUME NEW k \in 1..n, NEW l \in 1..n, k < l, IsSignal(d[k]), IsSignal(d[l])
      PROVE  d[k].fence < d[l].fence
  <2>1. k + 1 \in 1..Len(q) /\ l + 1 \in 1..Len(q) /\ k + 1 < l + 1
    BY <1>4, <1>5
  <2> QED  BY <1>4, <1>5, <2>1 DEF SignalsRise
<1>6. SignalsRise(c, d, done, last)
  <2>1. ASSUME NEW k \in 1..n, IsSignal(d[k])
        PROVE  d[k].fence \in Nat /\ done < d[k].fence /\ d[k].fence <= last
    BY <1>4, <2>1 DEF SignalsRise
  <2>2. ASSUME NEW i \in 1..Len(c), IsSignal(c[i])
        PROVE  /\ c[i].fence \in Nat /\ done < c[i].fence
               /\ \A k \in 1..n : IsSignal(d[k]) => d[k].fence < c[i].fence
    BY <1>4, <2>2 DEF SignalsRise
  <2>3. ASSUME NEW i \in 1..Len(c), NEW j \in 1..Len(c), i < j, IsSignal(c[i]), IsSignal(c[j])
        PROVE  c[i].fence < c[j].fence
    BY <2>3 DEF SignalsRise
  <2> QED  BY <1>3, <1>5, <2>1, <2>2, <2>3 DEF SignalsRise
<1>7. ASSUME Head(q).op = "signal"
      PROVE  /\ Head(q).fence \in Nat /\ done < Head(q).fence
             /\ Head(q).fence <= last
             /\ SignalsRise(c, Tail(q), Head(q).fence, last)
  <2>1. 1 \in 1..Len(q) /\ IsSignal(q[1])  BY <1>1, <1>3, <1>7 DEF IsSignal
  <2>2. PICK f : f = Head(q).fence  OBVIOUS
  <2>3. f \in Nat /\ done < f /\ f <= last /\ q[1].fence = f
    BY <1>3, <2>1, <2>2 DEF SignalsRise
  <2>4. ASSUME NEW k \in 1..n, IsSignal(d[k])
        PROVE  d[k].fence \in Nat /\ f < d[k].fence /\ d[k].fence <= last
    BY <1>4, <2>1, <2>3, <2>4 DEF SignalsRise
  <2>5. ASSUME NEW i \in 1..Len(c), IsSignal(c[i])
        PROVE  /\ c[i].fence \in Nat /\ f < c[i].fence
               /\ \A k \in 1..n : IsSignal(d[k]) => d[k].fence < c[i].fence
    BY <1>4, <2>1, <2>3, <2>5 DEF SignalsRise
  <2>6. ASSUME NEW i \in 1..Len(c), NEW j \in 1..Len(c), i < j, IsSignal(c[i]), IsSignal(c[j])
        PROVE  c[i].fence < c[j].fence
    BY <2>6 DEF SignalsRise
  <2>7. SignalsRise(c, d, f, last)
    BY <1>3, <1>5, <2>4, <2>5, <2>6 DEF SignalsRise
  <2> QED  BY <1>2, <2>2, <2>3, <2>7
<1> QED  BY <1>2, <1>6, <1>7

LEMMA RiseLast ==
    ASSUME NEW c, NEW q, NEW done, NEW last \in Nat, SignalsRise(c, q, done, last)
    PROVE  SignalsRise(c, q, done, last + 1)
<1>1. \A k \in 1..Len(q) : IsSignal(q[k]) => q[k].fence <= last + 1
  BY DEF SignalsRise
<1> QED  BY <1>1 DEF SignalsRise

-----------------------------------------------------------------------------
(***************************************************************************)
(* The frames, the signals and the pages of constants.                     *)
(***************************************************************************)
Stage == {"commands", "small", "big", "trim pools", "pages", "flush", "fast"}

FirstFrame == IF stage \in {"commands", "fast"} THEN ended + 1 ELSE ended + 2

PageRecord == [id : Nat, retire : Nat \cup {NotRetired}]

IsPayload(w) ==
    w.frame \in Nat /\ w = [op |-> "payload", frame |-> w.frame, used |-> w.used]

FrameTypes ==
    /\ program \in Seq(Seq(Operation))
    /\ frame \in Nat /\ ended \in Nat /\ completed \in Nat /\ completed <= ended
    /\ stage \in Stage
    /\ IsList(commands) /\ IsList(queue) /\ IsList(submitted)

PayloadTypes ==
    /\ \A w \in ToSet(submitted) : IsPayload(w)
    /\ \A q \in ToSet(queue) : q.op = "payload" => IsPayload(q)

PageTypes ==
    /\ page \in [id : Nat, updates : Nat]
    /\ pages \subseteq PageRecord /\ IsFiniteSet(pages)
    /\ PageHasRoom => \E p \in pages : p.id = page.id /\ p.retire = NotRetired

FrameOrder ==
    /\ InFrames(commands, pages, FirstFrame, frame)
    /\ SignalsRise(commands, queue, completed, ended)

FrameInv == FrameTypes /\ PayloadTypes /\ PageTypes /\ FrameOrder

frameVars ==
    <<program, frame, ended, completed, stage, commands, queue, submitted, page,
      pages>>

LEMMA FrameSame ==
    ASSUME FrameInv, UNCHANGED frameVars
    PROVE  FrameInv'
BY DEF FrameInv, FrameTypes, PayloadTypes, PageTypes, FrameOrder, frameVars,
       FirstFrame, PageHasRoom

LEMMA FrameInit ==
    ASSUME Init
    PROVE  FrameInv
<1> USE DEF Init
<1>1. FrameTypes
  BY ProgramAssumption, EmptyList DEF FrameTypes, Stage
<1>2. PayloadTypes
  BY EmptyList DEF PayloadTypes
<1>3. PageTypes
  <2>1. PageUpdates \in Nat  BY UploadAssumption
  <2> QED  BY <2>1, FS_EmptySet DEF PageTypes, PageHasRoom
<1>4. InFrames(commands, pages, FirstFrame, frame)
  <2>1. PICK L : L = [i \in 1..1 |-> 1]  OBVIOUS
  <2>2. commands = <<>> /\ Len(commands) = 0 /\ FirstFrame = 1 /\ frame = 1
    BY DEF FirstFrame
  <2>3. Numbered(commands, pages, 1, 1, L)
    BY <2>1, <2>2 DEF Numbered
  <2> QED  BY <2>2, <2>3 DEF InFrames
<1>5. SignalsRise(commands, queue, completed, ended)
  BY DEF SignalsRise
<1> QED  BY <1>1, <1>2, <1>3, <1>4, <1>5 DEF FrameInv, FrameOrder

LEMMA ProgramStep ==
    ASSUME NEW p \in Seq(Seq(Operation)), p # <<>>
    PROVE  /\ Head(p) \in Seq(Operation)
           /\ Tail(p) \in Seq(Seq(Operation))
           /\ Head(p) # <<>> =>
                /\ Head(Head(p)) \in Operation
                /\ <<Tail(Head(p))>> \o Tail(p) \in Seq(Seq(Operation))
<1>1. Head(p) \in Seq(Operation) /\ Tail(p) \in Seq(Seq(Operation))
  OBVIOUS
<1>2. ASSUME Head(p) # <<>>
      PROVE  /\ Head(Head(p)) \in Operation
             /\ <<Tail(Head(p))>> \o Tail(p) \in Seq(Seq(Operation))
  <2>1. PICK h \in Seq(Operation) : h = Head(p)  BY <1>1
  <2>2. Head(h) \in Operation /\ Tail(h) \in Seq(Operation)
    BY <1>2, <2>1
  <2>3. <<Tail(h)>> \in Seq(Seq(Operation))
    BY <2>2
  <2>4. <<Tail(h)>> \o Tail(p) \in Seq(Seq(Operation))
    BY <1>1, <2>3
  <2> QED  BY <2>1, <2>2, <2>4
<1> QED  BY <1>1, <1>2

\* What the main thread records is an operation of the program.
LEMMA RecordsFacts ==
    ASSUME FrameTypes, NEW o, Records(o)
    PROVE  /\ Head(Head(program)) \in Operation
           /\ Head(Head(program)).op = o
           /\ o # "constants" => Buffer \in Buffers
           /\ program' \in Seq(Seq(Operation))
<1>1. Head(Head(program)) \in Operation /\ program' \in Seq(Seq(Operation))
  BY ProgramStep DEF FrameTypes, Records
<1> QED  BY <1>1 DEF Records, Operation, Buffer

(***************************************************************************)
(* Operations that are recorded.                                           *)
(***************************************************************************)
LEMMA FrameRecord ==
    ASSUME FrameInv, NEW o, Records(o), UNCHANGED <<commands, frame>>,
           UNCHANGED <<ended, completed, stage, queue, submitted, page, pages>>
    PROVE  FrameInv'
<1>1. program' \in Seq(Seq(Operation))
  BY RecordsFacts DEF FrameInv
<1> QED
  BY <1>1 DEF FrameInv, FrameTypes, PayloadTypes, PageTypes, FrameOrder,
              FirstFrame, PageHasRoom

LEMMA FrameEnqueue ==
    ASSUME FrameInv, NEW o, Records(o), UNCHANGED frame,
           UNCHANGED <<ended, completed, stage, queue, submitted, page, pages>>,
           NEW e, Enqueue(e), e.op \notin {"end", "signal", "use"}
    PROVE  FrameInv'
<1>1. program' \in Seq(Seq(Operation))
  BY RecordsFacts DEF FrameInv
<1>2. commands' = Append(commands, e) /\ IsList(commands)
  BY DEF Enqueue, FrameInv, FrameTypes
<1>3. IsList(commands')
  BY <1>2, ListAppend
<1>4. InFrames(commands', pages, FirstFrame, frame)
  BY <1>2, FramesAppend DEF FrameInv, FrameOrder
<1>5. SignalsRise(commands', queue, completed, ended)
  BY <1>2, RiseAppend DEF FrameInv, FrameOrder, IsSignal
<1>6. FrameTypes'
  BY <1>1, <1>3 DEF FrameInv, FrameTypes
<1>7. PayloadTypes' /\ PageTypes'
  BY DEF FrameInv, PayloadTypes, PageTypes, PageHasRoom
<1>8. FrameOrder'
  BY <1>4, <1>5 DEF FrameOrder, FirstFrame
<1> QED  BY <1>6, <1>7, <1>8 DEF FrameInv

LEMMA FrameCreate == ASSUME FrameInv, CreateBuffer PROVE FrameInv'
BY FrameRecord DEF CreateBuffer, endVars, gpuVars, pageVars

LEMMA FrameMap == ASSUME FrameInv, MapBuffer PROVE FrameInv'
<1>1. PICK a \in Allocations(Size[Buffer], Alignment[Buffer]) :
            Enqueue([op |-> "rename", buffer |-> Buffer, memory |-> a.memory])
  BY DEF MapBuffer
<1>2. PICK e : e = [op |-> "rename", buffer |-> Buffer, memory |-> a.memory]
  OBVIOUS
<1>3. e.op = "rename" /\ Enqueue(e)  BY <1>1, <1>2
<1> QED  BY <1>3, FrameEnqueue DEF MapBuffer, endVars, gpuVars, pageVars

LEMMA FrameFill == ASSUME FrameInv, FillBuffer PROVE FrameInv'
<1>1. PICK a \in Allocations(Size[Buffer], CopyAlignment) :
            Enqueue([op |-> "copy", memory |-> a.memory])
  BY DEF FillBuffer
<1>2. PICK e : e = [op |-> "copy", memory |-> a.memory]
  OBVIOUS
<1>3. e.op = "copy" /\ Enqueue(e)  BY <1>1, <1>2
<1> QED  BY <1>3, FrameEnqueue DEF FillBuffer, endVars, gpuVars, pageVars

LEMMA FrameLoad == ASSUME FrameInv, LoadBuffer PROVE FrameInv'
<1>2. PICK e : e = [op |-> "load", buffer |-> Buffer]
  OBVIOUS
<1>3. e.op = "load" /\ Enqueue(e)  BY <1>2 DEF LoadBuffer
<1> QED  BY <1>3, FrameEnqueue DEF LoadBuffer, endVars, gpuVars, pageVars

LEMMA FrameDraw == ASSUME FrameInv, Draw PROVE FrameInv'
<1>2. PICK e : e = [op |-> "draw", buffer |-> Buffer]
  OBVIOUS
<1>3. e.op = "draw" /\ Enqueue(e)  BY <1>2 DEF Draw
<1> QED  BY <1>3, FrameEnqueue DEF Draw, endVars, gpuVars, pageVars

LEMMA FrameEndFrame == ASSUME FrameInv, EndFrame PROVE FrameInv'
<1>1. program' \in Seq(Seq(Operation))
  BY ProgramStep DEF FrameInv, FrameTypes, EndFrame
<1>2. /\ commands' = commands \o <<[op |-> "end"], [op |-> "signal", fence |-> frame]>>
      /\ frame' = frame + 1 /\ frame \in Nat /\ IsList(commands)
      /\ ended \in Nat /\ completed \in Nat /\ completed <= ended
  BY DEF EndFrame, FrameInv, FrameTypes
<1>3. InFrames(commands', pages, FirstFrame, frame')
  BY <1>2, FramesEnd DEF FrameInv, FrameOrder
<1>4. PICK x : x = [op |-> "end"]  OBVIOUS
<1>5. PICK y : y = [op |-> "signal", fence |-> frame]  OBVIOUS
<1>6. PICK b : b = Append(commands, x)  OBVIOUS
<1>7. commands' = Append(b, y)
  BY <1>2, <1>4, <1>5, <1>6, ListConcat
<1>8. IsList(b) /\ IsList(commands')
  <2>1. IsList(b)  BY <1>2, <1>6, ListAppend
  <2>2. IsList(Append(b, y))  BY <2>1, ListAppend
  <2> QED  BY <1>7, <2>1, <2>2
<1>9. /\ FirstFrame \in Nat /\ FirstFrame <= frame
      /\ \A i \in 1..Len(commands) : commands[i].op = "signal" =>
            commands[i].fence \in Nat /\ commands[i].fence < frame
  BY <1>2, FramesBounds DEF FrameInv, FrameOrder
<1>10. ended < frame
  BY <1>2, <1>9 DEF FirstFrame
<1>11. SignalsRise(b, queue, completed, ended)
  BY <1>2, <1>4, <1>6, RiseAppend DEF FrameInv, FrameOrder, IsSignal
<1>12. \A i \in 1..Len(b) : IsSignal(b[i]) => b[i].fence < frame
  <2>1. PICK n \in Nat : n = Len(commands)  BY <1>2, ListIs
  <2>2. Len(b) = n + 1 /\ b[n + 1] = x /\ \A i \in 1..n : b[i] = commands[i]
    BY <1>2, <1>6, <2>1, ListAppend
  <2>3. ~ IsSignal(x)  BY <1>4 DEF IsSignal
  <2>4. ASSUME NEW i \in 1..(n + 1), IsSignal(b[i])
        PROVE  i \in 1..Len(commands) /\ b[i] = commands[i] /\ commands[i].op = "signal"
    BY <2>1, <2>2, <2>3, <2>4 DEF IsSignal
  <2> QED  BY <1>9, <2>2, <2>4
<1>13. y.fence = frame /\ IsSignal(y)
  BY <1>5 DEF IsSignal
<1>14. SignalsRise(commands', queue, completed, ended)
  <2>1. completed < frame  BY <1>2, <1>10
  <2>2. SignalsRise(Append(b, y), queue, completed, ended)
    BY <1>2, <1>8, <1>10, <1>11, <1>12, <1>13, <2>1, RiseAppendSignal
  <2> QED  BY <1>7, <2>2
<1>15. FrameTypes'
  <2>1. frame' \in Nat  BY <1>2
  <2> QED  BY <1>1, <1>8, <2>1 DEF FrameInv, FrameTypes, EndFrame, endVars, gpuVars
<1>16. PayloadTypes' /\ PageTypes'
  BY DEF FrameInv, PayloadTypes, PageTypes, PageHasRoom, EndFrame, gpuVars, pageVars
<1>17. FrameOrder'
  BY <1>3, <1>14 DEF FrameOrder, FirstFrame, EndFrame, endVars, gpuVars, pageVars
<1> QED  BY <1>15, <1>16, <1>17 DEF FrameInv

LEMMA UnusedIs ==
    ASSUME NEW things, IsFiniteSet(things)
    PROVE  /\ UnusedNumber(things) \in Nat \ {0}
           /\ \A t \in things : t.id # UnusedNumber(things)
<1>1. PICK c \in Nat : c = Cardinality(things)
  BY FS_CardinalityType
<1> DEFINE S == 1..(c + 1)
<1>2. IsFiniteSet(S) /\ Cardinality(S) = c + 1
  <2>1. 1 \in Int /\ c + 1 \in Int  OBVIOUS
  <2>2. /\ IsFiniteSet(1..(c + 1))
        /\ Cardinality(1..(c + 1)) = IF 1 > c + 1 THEN 0 ELSE (c + 1) - 1 + 1
    BY <2>1, FS_Interval
  <2> QED  BY <2>2
<1>3. \E n \in S : \A t \in things : t.id # n
  <2> SUFFICES ASSUME \A n \in S : \E t \in things : t.id = n
               PROVE  FALSE
    OBVIOUS
  <2>1. PICK f : f = [n \in S |-> CHOOSE t \in things : t.id = n]
    OBVIOUS
  <2>2. f \in [S -> things] /\ \A n \in S : f[n].id = n
    BY <2>1
  <2>3. Cardinality(things) < Cardinality(S)
    BY <1>1, <1>2
  <2> HIDE DEF S
  <2>4. \E x, y \in S : x # y /\ f[x] = f[y]
    BY <1>2, <2>2, <2>3, FS_PigeonHole
  <2> QED  BY <2>2, <2>4
<1>4. UnusedNumber(things) = CHOOSE n \in S : \A t \in things : t.id # n
  BY <1>1 DEF UnusedNumber
<1>5. UnusedNumber(things) \in S /\ \A t \in things : t.id # UnusedNumber(things)
  BY <1>3, <1>4
<1> QED  BY <1>1, <1>5

LEMMA FrameConstants == ASSUME FrameInv, UpdateConstants PROVE FrameInv'
<1>1. /\ program' \in Seq(Seq(Operation))
      /\ UNCHANGED <<frame, stage, ended, completed, queue, submitted>>
  BY RecordsFacts DEF UpdateConstants, FrameInv, endVars, gpuVars
<1>2. /\ frame \in Nat /\ IsList(commands) /\ IsFiniteSet(pages)
      /\ pages \subseteq PageRecord /\ page \in [id : Nat, updates : Nat]
  BY DEF FrameInv, FrameTypes, PageTypes
<1>3. PICK e : e = [op |-> "use", memory |-> PageMemory(page'.id)]  OBVIOUS
<1>4. commands' = Append(commands, e) /\ e.op = "use" /\ e.memory = PageMemory(page'.id)
  BY <1>3 DEF UpdateConstants, Enqueue
<1>5. /\ PagesKept(pages, pages', FirstFrame, frame)
      /\ page' \in [id : Nat, updates : Nat]
      /\ pages' \subseteq PageRecord /\ IsFiniteSet(pages')
      /\ \E p \in pages' : p.id = page'.id /\ p.retire = NotRetired
  <2>1. CASE PageHasRoom
    <3>1. page' = [page EXCEPT !.updates = @ + 1] /\ pages' = pages
      BY <2>1 DEF UpdateConstants
    <3>2. PICK p \in pages : p.id = page.id /\ p.retire = NotRetired
      BY <2>1 DEF FrameInv, PageTypes
    <3>3. page' \in [id : Nat, updates : Nat] /\ page'.id = page.id
      BY <1>2, <3>1
    <3>4. PagesKept(pages, pages', FirstFrame, frame)
      BY <3>1 DEF PagesKept
    <3> QED  BY <1>2, <3>1, <3>2, <3>3, <3>4
  <2>2. CASE ~ PageHasRoom
    <3>1. PICK n : n = UnusedNumber(pages)  OBVIOUS
    <3>2. n \in Nat
      BY <1>2, <3>1, UnusedIs
    <3>3. PICK new : new = [id |-> n, retire |-> NotRetired]  OBVIOUS
    <3>4. page' = [id |-> n, updates |-> 1]
      BY <2>2, <3>1 DEF UpdateConstants
    <3>5. page' \in [id : Nat, updates : Nat] /\ page'.id = n
      BY <3>2, <3>4
    <3>6. pages' = Retired(page.id) \cup {new}
      BY <2>2, <3>3, <3>5 DEF UpdateConstants
    <3>7. new \in PageRecord /\ new.id = n /\ new.retire = NotRetired
      BY <3>2, <3>3 DEF PageRecord
    <3> DEFINE R(p) == IF p.id = page.id THEN [p EXCEPT !.retire = frame] ELSE p
    <3>8. Retired(page.id) = {R(p) : p \in pages}
      BY DEF Retired, RetireFence
    <3>9. ASSUME NEW p \in pages
          PROVE  R(p) \in PageRecord /\ R(p).id = p.id /\ R(p).retire \in {p.retire, frame}
      BY <1>2 DEF PageRecord
    <3>10. PICK f : f = [p \in pages |-> R(p)]  OBVIOUS
    <3>11. f \in Surjection(pages, Retired(page.id))
      BY <3>8, <3>10 DEF Surjection
    <3>12. IsFiniteSet(Retired(page.id))
      BY <1>2, <3>11, FS_Surjection
    <3>13. IsFiniteSet(pages')
      BY <3>6, <3>12, FS_AddElement
    <3>14. pages' \subseteq PageRecord
      BY <3>6, <3>7, <3>8, <3>9
    <3>15. PagesKept(pages, pages', FirstFrame, frame)
      <4> SUFFICES ASSUME NEW m, NEW g \in FirstFrame..frame, PageFor(pages, m, g)
                   PROVE  PageFor(pages', m, g)
        BY DEF PagesKept
      <4>1. PICK p \in pages :
              /\ m = PageMemory(p.id)
              /\ p.retire = NotRetired \/ (p.retire \in Nat /\ g <= p.retire)
        BY DEF PageFor
      <4>2. PICK r \in pages' : r.id = p.id /\ r.retire \in {p.retire, frame}
        BY <3>6, <3>8, <3>9
      <4>3. g <= frame
        <5>1. FirstFrame \in Nat
          BY DEF FrameInv, FrameTypes, FirstFrame
        <5> QED  BY <1>2, <5>1
      <4> QED  BY <1>2, <4>1, <4>2, <4>3 DEF PageFor
    <3> QED  BY <3>5, <3>6, <3>7, <3>13, <3>14, <3>15
  <2> QED  BY <2>1, <2>2
<1>6. PageFor(pages', e.memory, frame)
  BY <1>4, <1>5 DEF PageFor
<1>7. InFrames(commands, pages', FirstFrame, frame)
  BY <1>2, <1>5, FramesPages DEF FrameInv, FrameOrder
<1>8. InFrames(Append(commands, e), pages', FirstFrame, frame)
  BY <1>2, <1>4, <1>6, <1>7, FramesAppend
<1>9. SignalsRise(Append(commands, e), queue, completed, ended)
  BY <1>2, <1>4, RiseAppend DEF FrameInv, FrameOrder, IsSignal
<1>10. IsList(Append(commands, e))
  BY <1>2, ListAppend
<1>11. FrameOrder'
  BY <1>1, <1>4, <1>8, <1>9 DEF FrameOrder, FirstFrame
<1>12. FrameTypes'
  BY <1>1, <1>4, <1>10 DEF FrameInv, FrameTypes
<1>13. PayloadTypes'
  BY <1>1 DEF FrameInv, PayloadTypes
<1>14. PageTypes'
  BY <1>5 DEF PageTypes
<1> QED  BY <1>11, <1>12, <1>13, <1>14 DEF FrameInv

(***************************************************************************)
(* Commands that are executed.                                             *)
(***************************************************************************)
LEMMA FrameExecute ==
    ASSUME FrameInv, NEW o, Executes(o), o \notin {"end", "signal"},
           UNCHANGED <<program, frame, ended, completed, stage, queue, submitted,
                       page, pages>>
    PROVE  FrameInv'
<1>1. /\ IsList(commands) /\ commands # <<>> /\ commands' = Tail(commands)
      /\ Head(commands).op \notin {"end", "signal"}
  BY DEF FrameInv, FrameTypes, Executes
<1>2. IsList(commands')
  BY <1>1, ListTail
<1>3. InFrames(commands', pages, FirstFrame, frame)
  BY <1>1, FramesTail DEF FrameInv, FrameOrder
<1>4. SignalsRise(commands', queue, completed, ended)
  BY <1>1, RiseTail DEF FrameInv, FrameOrder
<1>5. FrameTypes'
  BY <1>2 DEF FrameInv, FrameTypes
<1>6. PayloadTypes' /\ PageTypes'
  BY DEF FrameInv, PayloadTypes, PageTypes, PageHasRoom
<1>7. FrameOrder'
  BY <1>3, <1>4 DEF FrameOrder, FirstFrame
<1> QED  BY <1>5, <1>6, <1>7 DEF FrameInv

LEMMA FrameExecutes ==
    ASSUME FrameInv,
           \/ ExecuteRename \/ ExecuteDraw \/ ExecuteCopy \/ ExecuteLoad
           \/ ExecuteUse
    PROVE  FrameInv'
<1>1. CASE ExecuteRename
  BY <1>1, FrameExecute DEF ExecuteRename, mainVars, endVars, gpuVars, pageVars
<1>2. CASE ExecuteDraw
  BY <1>2, FrameExecute DEF ExecuteDraw, mainVars, endVars, gpuVars, pageVars
<1>3. CASE ExecuteCopy
  BY <1>3, FrameExecute DEF ExecuteCopy, mainVars, endVars, gpuVars, pageVars
<1>4. CASE ExecuteLoad
  BY <1>4, FrameExecute DEF ExecuteLoad, mainVars, endVars, gpuVars
<1>5. CASE ExecuteUse
  BY <1>5, FrameExecute DEF ExecuteUse, mainVars, endVars, gpuVars, pageVars
<1> QED  BY <1>1, <1>2, <1>3, <1>4, <1>5

LEMMA FrameSignal == ASSUME FrameInv, ExecuteSignal PROVE FrameInv'
<1>1. /\ IsList(commands) /\ commands # <<>> /\ commands' = Tail(commands)
      /\ IsList(queue) /\ Head(commands).op = "signal"
      /\ queue' = Append(queue, [op |-> "signal", fence |-> Head(commands).fence])
      /\ stage = "commands" /\ ended \in Nat
      /\ UNCHANGED <<program, frame, ended, completed, stage, submitted, page, pages>>
  BY DEF FrameInv, FrameTypes, ExecuteSignal, Executes, mainVars, endVars, pageVars
<1>2. PICK e : e = [op |-> "signal", fence |-> Head(commands).fence]  OBVIOUS
<1>3. queue' = Append(queue, e) /\ e.op = "signal"
  BY <1>1, <1>2
<1>4. IsList(commands') /\ IsList(queue') /\ ToSet(queue') = ToSet(queue) \cup {e}
  <2>1. IsList(commands')  BY <1>1, ListTail
  <2>2. IsList(Append(queue, e)) /\ ToSet(Append(queue, e)) = ToSet(queue) \cup {e}
    BY <1>1, ListAppend
  <2> QED  BY <1>3, <2>1, <2>2
<1>5. /\ InFrames(commands', pages, FirstFrame, frame)
      /\ Head(commands).fence \in Nat /\ Head(commands).fence + 1 = FirstFrame
  BY <1>1, FramesTail DEF FrameInv, FrameOrder
<1>6. Head(commands).fence <= ended
  BY <1>1, <1>5 DEF FirstFrame
<1>7. SignalsRise(commands', queue', completed, ended)
  BY <1>1, <1>6, RiseSignal DEF FrameInv, FrameOrder
<1>8. FrameTypes'
  BY <1>1, <1>4 DEF FrameInv, FrameTypes
<1>9. PayloadTypes'
  BY <1>1, <1>3, <1>4 DEF FrameInv, PayloadTypes
<1>10. PageTypes'
  BY <1>1 DEF FrameInv, PageTypes, PageHasRoom
<1>11. FrameOrder'
  BY <1>1, <1>5, <1>7 DEF FrameOrder, FirstFrame
<1> QED  BY <1>8, <1>9, <1>10, <1>11 DEF FrameInv

LEMMA FrameEnd == ASSUME FrameInv, ExecuteEnd PROVE FrameInv'
<1>1. /\ IsList(commands) /\ commands # <<>> /\ commands' = Tail(commands)
      /\ Head(commands).op = "end"
      /\ stage = "commands" /\ stage' = "small" /\ ended \in Nat
      /\ UNCHANGED <<program, frame, ended, completed, queue, submitted, page, pages>>
  BY DEF FrameInv, FrameTypes, ExecuteEnd, Executes, mainVars, gpuVars, pageVars
<1>2. IsList(commands')
  BY <1>1, ListTail
<1>3. InFrames(commands', pages, FirstFrame + 1, frame)
  BY <1>1, FramesTail DEF FrameInv, FrameOrder
<1>4. FirstFrame' = FirstFrame + 1
  BY <1>1 DEF FirstFrame
<1>5. SignalsRise(commands', queue, completed, ended)
  BY <1>1, RiseTail DEF FrameInv, FrameOrder
<1>6. FrameTypes'
  BY <1>1, <1>2 DEF FrameInv, FrameTypes, Stage
<1>7. PayloadTypes' /\ PageTypes'
  BY <1>1 DEF FrameInv, PayloadTypes, PageTypes, PageHasRoom
<1>8. FrameOrder'
  BY <1>1, <1>3, <1>4, <1>5 DEF FrameOrder
<1> QED  BY <1>6, <1>7, <1>8 DEF FrameInv

(***************************************************************************)
(* The end of a frame, whose stages do not change the number of the first  *)
(* frame among the commands.                                               *)
(***************************************************************************)
LEMMA FrameStage ==
    ASSUME FrameInv, UNCHANGED <<program, frame, ended, completed, commands, queue,
                                 submitted, page, pages>>,
           stage' \in Stage,
           stage' \in {"commands", "fast"} <=> stage \in {"commands", "fast"}
    PROVE  FrameInv'
<1>1. FirstFrame' = FirstFrame
  BY DEF FirstFrame
<1> QED
  BY <1>1 DEF FrameInv, FrameTypes, PayloadTypes, PageTypes, FrameOrder, PageHasRoom

LEMMA FrameCleanUp ==
    ASSUME FrameInv,
           \/ FreeRetired \/ CleanUpSmall \/ TrimSmall \/ FreeOperation
           \/ CleanUpBig \/ TrimBig \/ CleanUpFast
    PROVE  FrameInv'
<1> USE DEF mainVars, endVars, gpuVars, heapVars, pageVars, Stage
<1>1. CASE FreeRetired
  BY <1>1, FrameSame DEF FreeRetired, frameVars
<1>2. CASE CleanUpSmall
  BY <1>2, FrameSame DEF CleanUpSmall, frameVars
<1>3. CASE TrimSmall
  BY <1>3, FrameStage DEF TrimSmall
<1>4. CASE FreeOperation
  BY <1>4, FrameSame DEF FreeOperation, frameVars
<1>5. CASE CleanUpBig
  BY <1>5, FrameStage DEF CleanUpBig
<1>6. CASE TrimBig
  BY <1>6, FrameStage DEF TrimBig
<1>7. CASE CleanUpFast
  BY <1>7, FrameStage DEF CleanUpFast
<1> QED  BY <1>1, <1>2, <1>3, <1>4, <1>5, <1>6, <1>7

LEMMA FrameTrimPages == ASSUME FrameInv, TrimPages PROVE FrameInv'
<1>1. /\ pages' = {p \in pages : PageStays(p)}
      /\ stage = "pages" /\ stage' = "flush" /\ ended \in Nat /\ completed \in Nat
      /\ completed <= ended /\ frame \in Nat
      /\ UNCHANGED <<program, frame, ended, completed, commands, queue, submitted, page>>
      /\ IsList(commands)
  BY DEF TrimPages, FrameInv, FrameTypes, mainVars, gpuVars
<1>2. FirstFrame' = FirstFrame /\ FirstFrame = ended + 2
  BY <1>1 DEF FirstFrame
<1>3. \A p \in pages : p.retire = NotRetired => p \in pages'
  BY <1>1 DEF PageStays
<1>4. PagesKept(pages, pages', FirstFrame, frame)
  <2> SUFFICES ASSUME NEW m, NEW g \in FirstFrame..frame, PageFor(pages, m, g)
               PROVE  PageFor(pages', m, g)
    BY DEF PagesKept
  <2>1. PICK p \in pages :
          /\ m = PageMemory(p.id)
          /\ p.retire = NotRetired \/ (p.retire \in Nat /\ g <= p.retire)
    BY DEF PageFor
  <2>2. g \in Nat /\ completed < g
    BY <1>1, <1>2
  <2>3. p.retire \in Nat /\ g <= p.retire => ~ Lagging(p.retire)
    <3>1. FrameLag \in Nat  BY UploadAssumption
    <3> QED  BY <1>1, <2>2, <3>1 DEF Lagging
  <2>4. p \in pages'
    BY <1>1, <2>1, <2>3 DEF PageStays
  <2> QED  BY <2>1, <2>4 DEF PageFor
<1>5. InFrames(commands, pages', FirstFrame, frame)
  BY <1>1, <1>4, FramesPages DEF FrameInv, FrameOrder
<1>6. FrameTypes'
  BY <1>1 DEF FrameInv, FrameTypes, Stage
<1>7. PayloadTypes'
  BY <1>1 DEF FrameInv, PayloadTypes
<1>8. IsFiniteSet(pages')
  <2>1. pages' \in SUBSET pages  BY <1>1
  <2> QED  BY <2>1, FS_Subset DEF FrameInv, PageTypes
<1>9. PageTypes'
  BY <1>1, <1>3, <1>8 DEF FrameInv, PageTypes, PageHasRoom
<1>10. FrameOrder'
  BY <1>1, <1>2, <1>5 DEF FrameInv, FrameOrder
<1> QED  BY <1>6, <1>7, <1>9, <1>10 DEF FrameInv

LEMMA FrameFlush == ASSUME FrameInv, FlushCommands PROVE FrameInv'
<1>1. PICK w : w = [op |-> "payload", frame |-> ended + 1, used |-> used]
  OBVIOUS
<1>2. /\ submitted' = Append(submitted, w) /\ ended' = ended + 1
      /\ stage = "flush" /\ stage' = "fast" /\ ended \in Nat /\ completed \in Nat
      /\ completed <= ended
      /\ UNCHANGED <<program, frame, completed, commands, queue, page, pages>>
      /\ IsList(submitted)
  BY <1>1 DEF FlushCommands, FrameInv, FrameTypes, mainVars, heapVars, pageVars
<1>3. FirstFrame' = FirstFrame
  <2>1. FirstFrame = ended + 2  BY <1>2 DEF FirstFrame
  <2>2. FirstFrame' = (ended + 1) + 1  BY <1>2 DEF FirstFrame
  <2> QED  BY <1>2, <2>1, <2>2
<1>4. IsList(submitted') /\ ToSet(submitted') = ToSet(submitted) \cup {w}
  <2>1. IsList(Append(submitted, w)) /\ ToSet(Append(submitted, w)) = ToSet(submitted) \cup {w}
    BY <1>2, ListAppend
  <2> QED  BY <1>2, <2>1
<1>5. IsPayload(w)
  BY <1>1, <1>2 DEF IsPayload
<1>6. SignalsRise(commands, queue, completed, ended + 1)
  BY <1>2, RiseLast DEF FrameInv, FrameOrder
<1>7. FrameTypes'
  BY <1>2, <1>4 DEF FrameInv, FrameTypes, Stage
<1>8. PayloadTypes'
  BY <1>2, <1>4, <1>5 DEF FrameInv, PayloadTypes
<1>9. PageTypes'
  BY <1>2 DEF FrameInv, PageTypes, PageHasRoom
<1>10. FrameOrder'
  BY <1>2, <1>3, <1>6 DEF FrameInv, FrameOrder
<1> QED  BY <1>7, <1>8, <1>9, <1>10 DEF FrameInv

(***************************************************************************)
(* The submission thread and the GPU.                                      *)
(***************************************************************************)
LEMMA FramePayload == ASSUME FrameInv, ExecutePayload PROVE FrameInv'
<1>1. PICK w : w = Head(submitted)  OBVIOUS
<1>2. /\ submitted # <<>> /\ submitted' = Tail(submitted) /\ IsList(submitted)
      /\ queue' = Append(queue, w) /\ IsList(queue)
      /\ UNCHANGED <<program, frame, ended, completed, stage, commands, page, pages>>
  BY <1>1 DEF ExecutePayload, FrameInv, FrameTypes, mainVars, endVars, pageVars
<1>3. /\ IsList(submitted') /\ ToSet(submitted) = ToSet(submitted') \cup {w}
  BY <1>1, <1>2, ListTail
<1>4. IsPayload(w) /\ w.op = "payload"
  <2>1. IsPayload(w)  BY <1>3 DEF FrameInv, PayloadTypes
  <2> QED  BY <2>1 DEF IsPayload
<1>5. IsList(queue') /\ ToSet(queue') = ToSet(queue) \cup {w}
  BY <1>2, ListAppend
<1>6. SignalsRise(commands, queue', completed, ended)
  BY <1>2, <1>4, RiseQueue DEF FrameInv, FrameOrder, IsSignal
<1>7. FrameTypes'
  BY <1>2, <1>3, <1>5 DEF FrameInv, FrameTypes
<1>8. PayloadTypes'
  BY <1>2, <1>3, <1>4, <1>5 DEF FrameInv, PayloadTypes
<1>9. PageTypes'
  BY <1>2 DEF FrameInv, PageTypes, PageHasRoom
<1>10. FrameOrder'
  BY <1>2, <1>6 DEF FrameInv, FrameOrder, FirstFrame
<1> QED  BY <1>7, <1>8, <1>9, <1>10 DEF FrameInv

LEMMA FrameGpu == ASSUME FrameInv, Gpu PROVE FrameInv' /\ completed <= completed'
<1>1. /\ queue # <<>> /\ queue' = Tail(queue) /\ IsList(queue)
      /\ completed \in Nat /\ ended \in Nat /\ completed <= ended
      /\ UNCHANGED <<program, frame, ended, stage, commands, submitted, page, pages>>
  BY DEF Gpu, GpuPayload, GpuSignal, FrameInv, FrameTypes, mainVars, endVars, pageVars
<1>2. IsList(queue') /\ ToSet(queue') \subseteq ToSet(queue)
  BY <1>1, ListTail
<1>3. /\ completed' \in Nat /\ completed <= completed' /\ completed' <= ended
      /\ SignalsRise(commands, queue', completed', ended)
  <2>1. /\ SignalsRise(commands, Tail(queue), completed, ended)
        /\ Head(queue).op = "signal" =>
            /\ Head(queue).fence \in Nat /\ completed < Head(queue).fence
            /\ Head(queue).fence <= ended
            /\ SignalsRise(commands, Tail(queue), Head(queue).fence, ended)
    BY <1>1, RiseDone DEF FrameInv, FrameOrder
  <2>2. CASE GpuPayload
    BY <1>1, <2>1, <2>2 DEF GpuPayload
  <2>3. CASE GpuSignal
    BY <1>1, <2>1, <2>3 DEF GpuSignal
  <2> QED  BY <2>2, <2>3 DEF Gpu
<1>4. FrameTypes'
  BY <1>1, <1>2, <1>3 DEF FrameInv, FrameTypes
<1>5. PayloadTypes'
  BY <1>1, <1>2 DEF FrameInv, PayloadTypes
<1>6. PageTypes'
  BY <1>1 DEF FrameInv, PageTypes, PageHasRoom
<1>7. FrameOrder'
  BY <1>1, <1>3 DEF FrameInv, FrameOrder, FirstFrame
<1> QED  BY <1>3, <1>4, <1>5, <1>6, <1>7 DEF FrameInv

LEMMA FrameNext ==
    ASSUME FrameInv, [Next]_vars
    PROVE  FrameInv'
<1>1. CASE UNCHANGED vars
  BY <1>1, FrameSame DEF vars, frameVars, mainVars, endVars, gpuVars, heapVars, pageVars
<1>2. CASE MainThread
  BY <1>2, FrameCreate, FrameMap, FrameFill, FrameLoad, FrameDraw, FrameConstants,
     FrameEndFrame DEF MainThread
<1>3. CASE CommandThread
  BY <1>3, FrameExecutes, FrameSignal, FrameEnd, FrameCleanUp, FrameTrimPages, FrameFlush
     DEF CommandThread
<1>4. CASE ExecutePayload
  BY <1>4, FramePayload
<1>5. CASE Gpu
  BY <1>5, FrameGpu
<1>6. CASE Finished
  BY <1>1, <1>6 DEF Finished
<1> QED  BY <1>1, <1>2, <1>3, <1>4, <1>5, <1>6 DEF Next

-----------------------------------------------------------------------------
(***************************************************************************)
(* A program that creates each buffer once, before it is mapped or drawn,  *)
(* goes on like that.                                                      *)
(***************************************************************************)
Rest(p) == <<Tail(Head(p))>> \o Tail(p)

LEMMA SeqParts ==
    ASSUME NEW S, NEW p \in Seq(S), p # <<>>
    PROVE  /\ Len(p) \in Nat \ {0} /\ Len(p) - 1 \in Nat /\ (Len(p) - 1) + 1 = Len(p)
           /\ Head(p) \in S /\ Head(p) = p[1]
           /\ Tail(p) \in Seq(S) /\ Len(Tail(p)) = Len(p) - 1
           /\ \A i \in 1..(Len(p) - 1) : Tail(p)[i] = p[i + 1]
<1>1. PICK t : t = Tail(p)  OBVIOUS
<1>2. /\ Len(p) \in Nat \ {0} /\ Head(p) \in S /\ Head(p) = p[1]
      /\ t \in Seq(S) /\ Len(t) = Len(p) - 1
      /\ \A i \in 1..(Len(p) - 1) : t[i] = p[i + 1]
  BY <1>1
<1>3. Len(p) - 1 \in Nat /\ (Len(p) - 1) + 1 = Len(p)  BY <1>2
<1> QED  BY <1>1, <1>2, <1>3

LEMMA RestIs ==
    ASSUME NEW p \in Seq(Seq(Operation)), p # <<>>, Head(p) # <<>>
    PROVE  /\ Len(p) \in Nat \ {0} /\ Len(Rest(p)) = Len(p)
           /\ Len(p[1]) \in Nat \ {0} /\ Len(Rest(p)[1]) = Len(p[1]) - 1
           /\ Head(Head(p)) = p[1][1]
           /\ \A i \in 1..(Len(p[1]) - 1) : Rest(p)[1][i] = p[1][i + 1]
           /\ \A f \in 2..Len(p) : Rest(p)[f] = p[f]
           /\ \A f \in 1..Len(p) : Len(p[f]) \in Nat
<1>1. PICK h \in Seq(Operation) : h = Head(p)  BY SeqParts
<1>2. PICK u \in Seq(Operation) : u = Tail(h)  BY <1>1, SeqParts
<1>3. /\ Len(h) \in Nat \ {0} /\ Len(u) = Len(h) - 1 /\ Head(h) = h[1]
      /\ \A i \in 1..(Len(h) - 1) : u[i] = h[i + 1]
  BY <1>1, <1>2, SeqParts
<1>4. PICK n \in Nat : n + 1 = Len(p)
  <2>1. Len(p) - 1 \in Nat /\ (Len(p) - 1) + 1 = Len(p)  BY SeqParts
  <2> QED  BY <2>1
<1>5. PICK t \in Seq(Seq(Operation)) : t = Tail(p)  BY SeqParts
<1>6. Len(t) = n /\ \A i \in 1..n : t[i] = p[i + 1]
  <2>1. Len(p) - 1 = n  BY <1>4
  <2> QED  BY <1>5, <2>1, SeqParts
<1>7. PICK q : q = <<u>> \o t  OBVIOUS
<1>8. <<u>> \in Seq(Seq(Operation)) /\ Len(<<u>>) = 1 /\ <<u>>[1] = u
  OBVIOUS
<1>9. /\ Len(q) = n + 1 /\ q[1] = u
      /\ \A f \in 2..(n + 1) : q[f] = t[f - 1]
  BY <1>6, <1>7, <1>8
<1>10. \A f \in 2..(n + 1) : q[f] = p[f]
  <2> SUFFICES ASSUME NEW f \in 2..(n + 1)  PROVE q[f] = p[f]
    OBVIOUS
  <2>1. f - 1 \in 1..n /\ (f - 1) + 1 = f  OBVIOUS
  <2> QED  BY <1>6, <1>9, <2>1
<1>11. p[1] = h /\ q = Rest(p)
  BY <1>1, <1>2, <1>5, <1>7 DEF Rest
<1>12. \A f \in 1..Len(p) : Len(p[f]) \in Nat
  <2>1. \A f \in 1..Len(p) : p[f] \in Seq(Operation)  OBVIOUS
  <2> QED  BY <2>1
<1> QED  BY <1>1, <1>3, <1>4, <1>9, <1>10, <1>11, <1>12

Created(b) == [op |-> "create", buffer |-> b]

\* Whether b is known before the i-th operation of frame f.
Known(p, X, b, f, i) == b \in X \/ Creates(p, b, f, i)

InProgram(p, f, i) == f \in 1..Len(p) /\ i \in 1..Len(p[f])

LEMMA CreatedOnceIs ==
    ASSUME NEW p, NEW X
    PROVE  CreatedOnce(p, X) <=>
             \A f, i : InProgram(p, f, i) => \A b \in Buffers :
                /\ p[f][i] = Created(b) => ~ Known(p, X, b, f, i)
                /\ p[f][i] = [op |-> "map", buffer |-> b] => Known(p, X, b, f, i)
                /\ p[f][i] = [op |-> "draw", buffer |-> b] => Known(p, X, b, f, i)
BY DEF CreatedOnce, Created, Known, InProgram

LEMMA CreatesIs ==
    ASSUME NEW p, NEW b, NEW f, NEW i
    PROVE  Creates(p, b, f, i) <=>
             \E g, j : /\ InProgram(p, g, j)
                       /\ g < f \/ (g = f /\ j < i)
                       /\ p[g][j] = Created(b)
BY DEF Creates, Created, InProgram

\* The place in p of the i-th operation of frame f of what is left of it.
Place(f, i) == IF f = 1 THEN i + 1 ELSE i

LEMMA PlaceIs ==
    ASSUME NEW p \in Seq(Seq(Operation)), p # <<>>, Head(p) # <<>>,
           NEW f, NEW i, InProgram(Rest(p), f, i)
    PROVE  /\ InProgram(p, f, Place(f, i)) /\ Rest(p)[f][i] = p[f][Place(f, i)]
           /\ f \in Nat /\ i \in Nat
           /\ f # 1 \/ Place(f, i) # 1
<1>1. PICK q : q = Rest(p)  OBVIOUS
<1>2. PICK n \in Nat \ {0} : n = Len(p)  BY RestIs
<1>3. PICK l \in Nat \ {0} : l = Len(p[1])  BY RestIs
<1>4. /\ Len(q) = n /\ Len(q[1]) = l - 1
      /\ \A j \in 1..(l - 1) : q[1][j] = p[1][j + 1]
      /\ \A g \in 2..n : q[g] = p[g]
      /\ \A g \in 1..n : Len(p[g]) \in Nat
  BY <1>1, <1>2, <1>3, RestIs
<1>5. f \in 1..n /\ i \in 1..Len(q[f])
  BY <1>1, <1>4 DEF InProgram
<1>6. CASE f = 1
  <2>1. i \in 1..(l - 1) /\ i + 1 \in 1..l /\ i + 1 # 1  BY <1>4, <1>5, <1>6
  <2>2. q[f][i] = p[f][i + 1]  BY <1>4, <1>6, <2>1
  <2> QED  BY <1>1, <1>2, <1>3, <1>5, <1>6, <2>1, <2>2 DEF InProgram, Place
<1>7. CASE f # 1
  <2>1. f \in 2..n  BY <1>5, <1>7
  <2>2. q[f] = p[f] /\ Len(p[f]) \in Nat  BY <1>4, <1>5, <2>1
  <2>3. i \in Nat  BY <1>5, <2>2
  <2> QED  BY <1>1, <1>2, <1>5, <1>7, <2>2, <2>3 DEF InProgram, Place
<1> QED  BY <1>6, <1>7

LEMMA PlaceOf ==
    ASSUME NEW p \in Seq(Seq(Operation)), p # <<>>, Head(p) # <<>>,
           NEW f, NEW k, InProgram(p, f, k), f # 1 \/ k # 1
    PROVE  \E i : InProgram(Rest(p), f, i) /\ k = Place(f, i)
<1>1. PICK q : q = Rest(p)  OBVIOUS
<1>2. PICK n \in Nat \ {0} : n = Len(p)  BY RestIs
<1>3. PICK l \in Nat \ {0} : l = Len(p[1])  BY RestIs
<1>4. /\ Len(q) = n /\ Len(q[1]) = l - 1
      /\ \A g \in 2..n : q[g] = p[g]
  BY <1>1, <1>2, <1>3, RestIs
<1>5. f \in 1..n /\ k \in 1..Len(p[f])
  BY <1>2 DEF InProgram
<1>6. CASE f = 1
  <2>1. k \in 1..l /\ k # 1  BY <1>3, <1>5, <1>6
  <2>2. k - 1 \in 1..(l - 1) /\ (k - 1) + 1 = k  BY <2>1
  <2>3. InProgram(q, f, k - 1) /\ k = Place(f, k - 1)
    BY <1>4, <1>5, <1>6, <2>2 DEF InProgram, Place
  <2> QED  BY <1>1, <2>3
<1>7. CASE f # 1
  <2>1. f \in 2..n  BY <1>5, <1>7
  <2>2. q[f] = p[f]  BY <1>4, <2>1
  <2>3. InProgram(q, f, k) /\ k = Place(f, k)
    BY <1>4, <1>5, <1>7, <2>2 DEF InProgram, Place
  <2> QED  BY <1>1, <2>3
<1> QED  BY <1>6, <1>7

LEMMA CreatesRest ==
    ASSUME NEW p \in Seq(Seq(Operation)), p # <<>>, Head(p) # <<>>,
           NEW b, NEW f, NEW i, InProgram(Rest(p), f, i)
    PROVE  Creates(p, b, f, Place(f, i)) <=>
             Head(Head(p)) = Created(b) \/ Creates(Rest(p), b, f, i)
<1>1. PICK q : q = Rest(p)  OBVIOUS
<1>2. f \in Nat /\ i \in Nat /\ f \in 1..Len(p)
  BY PlaceIs DEF InProgram
<1>3. ASSUME Creates(p, b, f, Place(f, i))
      PROVE  Head(Head(p)) = Created(b) \/ Creates(q, b, f, i)
  <2>1. PICK g, k : /\ InProgram(p, g, k)
                    /\ g < f \/ (g = f /\ k < Place(f, i))
                    /\ p[g][k] = Created(b)
    BY <1>3, CreatesIs
  <2>2. CASE g = 1 /\ k = 1
    BY <2>1, <2>2, RestIs
  <2>3. CASE ~ (g = 1 /\ k = 1)
    <3>1. PICK j : InProgram(q, g, j) /\ k = Place(g, j)
      BY <1>1, <2>1, <2>3, PlaceOf
    <3>2. q[g][j] = p[g][k] /\ g \in Nat /\ j \in Nat
      BY <1>1, <3>1, PlaceIs
    <3>3. g < f \/ (g = f /\ j < i)
      BY <1>2, <2>1, <3>1, <3>2 DEF Place
    <3> QED  BY <2>1, <3>1, <3>2, <3>3, CreatesIs
  <2> QED  BY <2>2, <2>3
<1>4. ASSUME Creates(q, b, f, i)
      PROVE  Creates(p, b, f, Place(f, i))
  <2>1. PICK g, j : /\ InProgram(q, g, j)
                    /\ g < f \/ (g = f /\ j < i)
                    /\ q[g][j] = Created(b)
    BY <1>4, CreatesIs
  <2>2. InProgram(p, g, Place(g, j)) /\ q[g][j] = p[g][Place(g, j)] /\ g \in Nat /\ j \in Nat
    BY <1>1, <2>1, PlaceIs
  <2>3. g < f \/ (g = f /\ Place(g, j) < Place(f, i))
    BY <1>2, <2>1, <2>2 DEF Place
  <2> QED  BY <2>1, <2>2, <2>3, CreatesIs
<1>5. ASSUME Head(Head(p)) = Created(b)
      PROVE  Creates(p, b, f, Place(f, i))
  <2>1. Len(p) \in Nat \ {0} /\ Len(p[1]) \in Nat \ {0} /\ p[1][1] = Created(b)
    BY <1>5, RestIs
  <2>2. InProgram(p, 1, 1)
    BY <2>1 DEF InProgram
  <2>3. 1 < f \/ (1 = f /\ 1 < Place(f, i))
    <3>1. f >= 1  BY <1>2, <2>1
    <3>2. i >= 1
      <4>1. InProgram(p, f, Place(f, i))  BY PlaceIs
      <4>2. f = 1 => Place(f, i) # 1  BY PlaceIs
      <4> QED
        BY <1>1, RestIs DEF InProgram
    <3> QED  BY <1>2, <3>1, <3>2 DEF Place
  <2> QED  BY <2>1, <2>2, <2>3, CreatesIs
<1> QED  BY <1>1, <1>3, <1>4, <1>5

LEMMA CreatedRest ==
    ASSUME NEW p \in Seq(Seq(Operation)), p # <<>>, Head(p) # <<>>,
           NEW X, CreatedOnce(p, X), NEW Y,
           \A b \in Buffers : b \in Y <=> b \in X \/ Head(Head(p)) = Created(b)
    PROVE  CreatedOnce(Rest(p), Y)
<1>1. ASSUME NEW f, NEW i, InProgram(Rest(p), f, i), NEW b \in Buffers
      PROVE  /\ InProgram(p, f, Place(f, i))
             /\ Rest(p)[f][i] = p[f][Place(f, i)]
             /\ Known(Rest(p), Y, b, f, i) <=> Known(p, X, b, f, Place(f, i))
  BY <1>1, PlaceIs, CreatesRest DEF Known
<1>2. ASSUME NEW f, NEW i, InProgram(Rest(p), f, i), NEW b \in Buffers
      PROVE  /\ Rest(p)[f][i] = Created(b) => ~ Known(Rest(p), Y, b, f, i)
             /\ Rest(p)[f][i] = [op |-> "map", buffer |-> b] => Known(Rest(p), Y, b, f, i)
             /\ Rest(p)[f][i] = [op |-> "draw", buffer |-> b] => Known(Rest(p), Y, b, f, i)
  BY SMTT(30), <1>1, <1>2, CreatedOnceIs
<1> QED  BY <1>2, CreatedOnceIs

LEMMA CreatedFirst ==
    ASSUME NEW p \in Seq(Seq(Operation)), p # <<>>, Head(p) # <<>>,
           NEW X, CreatedOnce(p, X), NEW b \in Buffers
    PROVE  /\ Head(Head(p)) = Created(b) => b \notin X
           /\ Head(Head(p)) = [op |-> "map", buffer |-> b] => b \in X
           /\ Head(Head(p)) = [op |-> "draw", buffer |-> b] => b \in X
<1>1. Len(p) \in Nat \ {0} /\ Len(p[1]) \in Nat \ {0} /\ p[1][1] = Head(Head(p))
  BY RestIs
<1>2. InProgram(p, 1, 1)
  BY <1>1 DEF InProgram
<1>3. ~ Creates(p, b, 1, 1)
  BY <1>1 DEF Creates
<1> QED  BY <1>1, <1>2, <1>3, CreatedOnceIs DEF Known

LEMMA CreatedNextFrame ==
    ASSUME NEW p \in Seq(Seq(Operation)), p # <<>>, Head(p) = <<>>,
           NEW X, CreatedOnce(p, X)
    PROVE  CreatedOnce(Tail(p), X)
<1>1. PICK n \in Nat : n + 1 = Len(p)
  <2>1. Len(p) - 1 \in Nat /\ (Len(p) - 1) + 1 = Len(p)  BY SeqParts
  <2> QED  BY <2>1
<1>2. PICK q \in Seq(Seq(Operation)) : q = Tail(p)  BY SeqParts
<1>3. Len(q) = n /\ p[1] = <<>> /\ \A f \in 1..n : q[f] = p[f + 1]
  <2>1. Len(p) - 1 = n  BY <1>1
  <2> QED  BY <1>2, <2>1, SeqParts
<1>4. ASSUME NEW f, NEW i, InProgram(q, f, i)
      PROVE  f \in Nat /\ InProgram(p, f + 1, i) /\ q[f][i] = p[f + 1][i]
  <2>1. f \in 1..n /\ i \in 1..Len(q[f])  BY <1>3, <1>4 DEF InProgram
  <2>2. f + 1 \in 1..(n + 1) /\ q[f] = p[f + 1]  BY <1>3, <2>1
  <2> QED  BY <1>1, <2>1, <2>2 DEF InProgram
<1>5. ASSUME NEW g, NEW j, InProgram(p, g, j)
      PROVE  g - 1 \in Nat /\ (g - 1) + 1 = g /\ InProgram(q, g - 1, j)
  <2>1. g # 1  BY <1>3, <1>5 DEF InProgram
  <2>2. g \in 1..(n + 1)  BY <1>1, <1>5 DEF InProgram
  <2>3. g - 1 \in 1..n /\ (g - 1) + 1 = g  BY <2>1, <2>2
  <2> QED  BY <1>3, <1>5, <2>3 DEF InProgram
<1>6. ASSUME NEW f, NEW i, InProgram(q, f, i), NEW b
      PROVE  Creates(q, b, f, i) <=> Creates(p, b, f + 1, i)
  <2>1. ASSUME Creates(q, b, f, i)  PROVE Creates(p, b, f + 1, i)
    <3>1. PICK g, j : /\ InProgram(q, g, j)
                      /\ g < f \/ (g = f /\ j < i)
                      /\ q[g][j] = Created(b)
      BY <2>1, CreatesIs
    <3>2. /\ g \in Nat /\ InProgram(p, g + 1, j) /\ q[g][j] = p[g + 1][j] /\ f \in Nat
      BY <1>4, <1>6, <3>1
    <3>3. g + 1 < f + 1 \/ (g + 1 = f + 1 /\ j < i)
      BY SMTT(30), <3>1, <3>2
    <3> QED  BY <3>1, <3>2, <3>3, CreatesIs
  <2>2. ASSUME Creates(p, b, f + 1, i)  PROVE Creates(q, b, f, i)
    <3>1. PICK g, j : /\ InProgram(p, g, j)
                      /\ g < f + 1 \/ (g = f + 1 /\ j < i)
                      /\ p[g][j] = Created(b)
      BY <2>2, CreatesIs
    <3>2. PICK k : k = g - 1  OBVIOUS
    <3>3. k \in Nat /\ k + 1 = g /\ InProgram(q, k, j) /\ f \in Nat
      BY <1>4, <1>5, <1>6, <3>1, <3>2
    <3>4. q[k][j] = p[g][j]
      BY <1>4, <3>3
    <3>5. k < f \/ (k = f /\ j < i)
      BY <3>1, <3>3
    <3> QED  BY <3>1, <3>3, <3>4, <3>5, CreatesIs
  <2> QED  BY <2>1, <2>2
<1>7. ASSUME NEW f, NEW i, InProgram(q, f, i), NEW b \in Buffers
      PROVE  /\ q[f][i] = Created(b) => ~ Known(q, X, b, f, i)
             /\ q[f][i] = [op |-> "map", buffer |-> b] => Known(q, X, b, f, i)
             /\ q[f][i] = [op |-> "draw", buffer |-> b] => Known(q, X, b, f, i)
  <2>1. Known(q, X, b, f, i) <=> Known(p, X, b, f + 1, i)
    BY <1>6, <1>7 DEF Known
  <2>2. InProgram(p, f + 1, i) /\ q[f][i] = p[f + 1][i]
    BY <1>4, <1>7
  <2> QED  BY <2>1, <2>2, CreatedOnceIs
<1> QED  BY <1>2, <1>7, CreatedOnceIs

-----------------------------------------------------------------------------
(***************************************************************************)
(* What is in the hands of buffers and commands: a command never refers to *)
(* a buffer without memory, and it carries memory of the heap.             *)
(***************************************************************************)
InHeap(m) == m.heap \in {"small", "big"}

CommandOK(c, loc) ==
    /\ c.op \in {"rename", "draw"} => c.buffer \in Buffers /\ InHeap(loc[c.buffer])
    /\ c.op \in {"rename", "copy"} => InHeap(c.memory)
    /\ c.op = "load" => c.buffer \in Buffers

LocationOK(loc) ==
    /\ loc = [b \in Buffers |-> loc[b]]
    /\ \A b \in Buffers : loc[b] = NoBlock \/ InHeap(loc[b])

WithMemory(loc) == {b \in Buffers : InHeap(loc[b])}

HandInv ==
    /\ LocationOK(location)
    /\ \A c \in ToSet(commands) : CommandOK(c, location)
    /\ CreatedOnce(program, WithMemory(location))

LEMMA NoBlockOut == ~ InHeap(NoBlock)
BY DEF InHeap, NoBlock

LEMMA AllocationHeap ==
    ASSUME NEW size, NEW align, NEW a \in Allocations(size, align)
    PROVE  /\ a.memory.heap = IF Fits(size) THEN "small" ELSE "big"
           /\ InHeap(a.memory)
<1>1. CASE Fits(size)
  <2>1. \E list, i : a = [small |-> [list EXCEPT ![i] = AllocateBlock(list[i], size, align)],
                          pools |-> pools, order |-> order,
                          memory |-> SmallMemory(list[i], size, align)]
    BY <1>1 DEF Allocations, SmallAllocations
  <2>2. a.memory.heap = "small"
    BY <2>1 DEF SmallMemory
  <2> QED  BY <1>1, <2>2 DEF InHeap
<1>2. CASE ~ Fits(size)
  <2>1. a \in FromExistingPools(size, align) \/ a \in FromNewPool(size, align)
    BY <1>2 DEF Allocations, BigAllocations
  <2>2. \E list, newOrder, i : a \in FromPool(list, newOrder, i, size, align)
    <3>1. CASE a \in FromExistingPools(size, align)
      BY <3>1 DEF FromExistingPools
    <3>2. CASE a \in FromNewPool(size, align)
      BY <3>2 DEF FromNewPool
    <3> QED  BY <2>1, <3>1, <3>2
  <2>3. PICK list, newOrder, i : a \in FromPool(list, newOrder, i, size, align)
    BY <2>2
  <2>4. \E f : a.memory = BigMemory(i, Allocated(f, size, align))
    BY <2>3 DEF FromPool
  <2>5. a.memory.heap = "big"
    BY <2>4 DEF BigMemory
  <2> QED  BY <1>2, <2>5 DEF InHeap
<1> QED  BY <1>1, <1>2

LEMMA HandInit ==
    ASSUME Init
    PROVE  HandInv
<1>1. location = [b \in Buffers |-> NoBlock] /\ commands = <<>> /\ program \in Programs
  BY DEF Init
<1>2. LocationOK(location) /\ WithMemory(location) = {}
  BY <1>1, NoBlockOut DEF LocationOK, WithMemory
<1>3. CreatedOnce(program, {})
  BY <1>1, ProgramAssumption
<1> QED  BY <1>1, <1>2, <1>3, EmptyList DEF HandInv

\* The program goes on when a buffer gets memory as it is created, and only then.
LEMMA HandProgram ==
    ASSUME FrameTypes, HandInv, NEW o, Records(o)
    PROVE  /\ o \notin {"create", "constants"} => CreatedOnce(program', WithMemory(location))
           /\ o = "constants" => CreatedOnce(program', WithMemory(location))
           /\ o = "create" =>
                /\ Buffer \notin WithMemory(location)
                /\ CreatedOnce(program', WithMemory(location) \cup {Buffer})
           /\ o \in {"map", "draw"} => Buffer \in WithMemory(location)
<1>1. /\ program \in Seq(Seq(Operation)) /\ program # <<>> /\ Head(program) # <<>>
      /\ program' = Rest(program) /\ CreatedOnce(program, WithMemory(location))
  BY DEF FrameTypes, HandInv, Records, Rest
<1>2. PICK h : h = Head(Head(program))  OBVIOUS
<1>3. /\ h \in Operation /\ h.op = o
      /\ o # "constants" => h.buffer = Buffer /\ Buffer \in Buffers
  BY <1>2, RecordsFacts DEF Buffer
<1>4. h.op # "constants" => h = [op |-> h.op, buffer |-> h.buffer]
  BY <1>3 DEF Operation
<1>5. CASE o # "create"
  <2>1. \A b : h # Created(b)  BY <1>3, <1>5 DEF Created
  <2>2. CreatedOnce(program', WithMemory(location))
    BY <1>1, <1>2, <2>1, CreatedRest
  <2>3. ASSUME o = "map"  PROVE Buffer \in WithMemory(location)
    <3>1. h = [op |-> "map", buffer |-> Buffer] /\ Buffer \in Buffers  BY <1>3, <1>4, <2>3
    <3> QED  BY <1>1, <1>2, <3>1, CreatedFirst
  <2>4. ASSUME o = "draw"  PROVE Buffer \in WithMemory(location)
    <3>1. h = [op |-> "draw", buffer |-> Buffer] /\ Buffer \in Buffers  BY <1>3, <1>4, <2>4
    <3> QED  BY <1>1, <1>2, <3>1, CreatedFirst
  <2> QED  BY <1>5, <2>2, <2>3, <2>4
<1>6. CASE o = "create"
  <2>1. h = Created(Buffer) /\ Buffer \in Buffers  BY <1>3, <1>4, <1>6 DEF Created
  <2>2. Buffer \notin WithMemory(location)
    BY <1>1, <1>2, <2>1, CreatedFirst
  <2>3. \A b \in Buffers : h = Created(b) <=> b = Buffer
    BY <2>1 DEF Created
  <2>4. PICK Y : Y = WithMemory(location) \cup {Buffer}  OBVIOUS
  <2>5. \A b \in Buffers : b \in Y <=> b \in WithMemory(location) \/ h = Created(b)
    BY <2>3, <2>4
  <2>6. CreatedOnce(program', Y)
    BY <1>1, <1>2, <2>5, CreatedRest
  <2> QED  BY <1>6, <2>2, <2>4, <2>6
<1> QED  BY <1>5, <1>6

LEMMA HandSame ==
    ASSUME HandInv, UNCHANGED <<program, commands, location>>
    PROVE  HandInv'
BY DEF HandInv, LocationOK, WithMemory, CommandOK, InHeap

LEMMA HandEnqueue ==
    ASSUME FrameInv, HandInv, NEW o, o # "create", Records(o), UNCHANGED location,
           NEW e, Enqueue(e), CommandOK(e, location)
    PROVE  HandInv'
<1>1. CreatedOnce(program', WithMemory(location))
  BY HandProgram DEF FrameInv
<1>2. commands' = Append(commands, e) /\ IsList(commands)
  BY DEF Enqueue, FrameInv, FrameTypes
<1>3. ToSet(commands') = ToSet(commands) \cup {e}
  BY <1>2, ListAppend
<1>4. \A c \in ToSet(commands') : CommandOK(c, location)
  BY <1>3 DEF HandInv
<1>5. LocationOK(location)
  BY DEF HandInv
<1>6. HandInv' <=> /\ LocationOK(location)
                   /\ \A c \in ToSet(commands') : CommandOK(c, location)
                   /\ CreatedOnce(program', WithMemory(location))
  BY DEF HandInv
<1> QED  BY <1>1, <1>4, <1>5, <1>6

\* A buffer that gets memory keeps what is known of the others.
LEMMA HandLocation ==
    ASSUME NEW loc, LocationOK(loc), NEW b \in Buffers, NEW m, InHeap(m)
    PROVE  LET new == [loc EXCEPT ![b] = m]
           IN  /\ LocationOK(new)
               /\ WithMemory(new) = WithMemory(loc) \cup {b}
               /\ \A c : CommandOK(c, loc) => CommandOK(c, new)
               /\ new[b] = m
               /\ \A a \in Buffers : a # b => new[a] = loc[a]
<1>1. PICK new : new = [loc EXCEPT ![b] = m]  OBVIOUS
<1>2. /\ new = [a \in Buffers |-> new[a]] /\ new[b] = m
      /\ \A a \in Buffers : a # b => new[a] = loc[a]
  BY <1>1 DEF LocationOK
<1>3. LocationOK(new)
  BY <1>2 DEF LocationOK
<1>4. WithMemory(new) = WithMemory(loc) \cup {b}
  BY <1>2 DEF WithMemory
<1>5. \A c : CommandOK(c, loc) => CommandOK(c, new)
  BY <1>2 DEF CommandOK
<1> QED  BY <1>1, <1>2, <1>3, <1>4, <1>5

LEMMA HandMain ==
    ASSUME FrameInv, HandInv, MainThread
    PROVE  HandInv'
<1>1. CASE CreateBuffer
  <2>1. PICK a \in Allocations(Size[Buffer], Alignment[Buffer]) :
            location' = [location EXCEPT ![Buffer] = a.memory]
    BY <1>1 DEF CreateBuffer
  <2>2. Records("create") /\ commands' = commands
    BY <1>1 DEF CreateBuffer
  <2>3. Buffer \in Buffers /\ InHeap(a.memory) /\ LocationOK(location)
    BY <2>2, RecordsFacts, AllocationHeap DEF FrameInv, HandInv
  <2>4. /\ LocationOK(location') /\ WithMemory(location') = WithMemory(location) \cup {Buffer}
        /\ \A c : CommandOK(c, location) => CommandOK(c, location')
    BY <2>1, <2>3, HandLocation
  <2>5. CreatedOnce(program', WithMemory(location'))
    BY <2>2, <2>4, HandProgram DEF FrameInv
  <2>6. \A c \in ToSet(commands') : CommandOK(c, location')
    BY <2>2, <2>4 DEF HandInv
  <2> QED  BY <2>4, <2>5, <2>6 DEF HandInv
<1>2. CASE MapBuffer
  <2>1. PICK a \in Allocations(Size[Buffer], Alignment[Buffer]) :
            Enqueue([op |-> "rename", buffer |-> Buffer, memory |-> a.memory])
    BY <1>2 DEF MapBuffer
  <2>2. Records("map") /\ location' = location
    BY <1>2 DEF MapBuffer
  <2>3. InHeap(a.memory) /\ Buffer \in Buffers /\ InHeap(location[Buffer])
    BY <2>2, AllocationHeap, RecordsFacts, HandProgram DEF FrameInv, WithMemory
  <2>4. PICK e : e = [op |-> "rename", buffer |-> Buffer, memory |-> a.memory]  OBVIOUS
  <2>5. CommandOK(e, location) /\ Enqueue(e)
    BY <2>1, <2>3, <2>4 DEF CommandOK
  <2> QED  BY <2>2, <2>5, HandEnqueue
<1>3. CASE FillBuffer
  <2>1. PICK a \in Allocations(Size[Buffer], CopyAlignment) :
            Enqueue([op |-> "copy", memory |-> a.memory])
    BY <1>3 DEF FillBuffer
  <2>2. Records("fill") /\ location' = location
    BY <1>3 DEF FillBuffer
  <2>3. InHeap(a.memory)
    BY <2>2, AllocationHeap
  <2>4. PICK e : e = [op |-> "copy", memory |-> a.memory]  OBVIOUS
  <2>5. CommandOK(e, location) /\ Enqueue(e)
    BY <2>1, <2>3, <2>4 DEF CommandOK
  <2> QED  BY <2>2, <2>5, HandEnqueue
<1>4. CASE LoadBuffer
  <2>1. Records("load") /\ location' = location
    BY <1>4 DEF LoadBuffer
  <2>2. Buffer \in Buffers
    BY <2>1, RecordsFacts DEF FrameInv
  <2>3. PICK e : e = [op |-> "load", buffer |-> Buffer]  OBVIOUS
  <2>4. CommandOK(e, location) /\ Enqueue(e)
    BY <1>4, <2>2, <2>3 DEF CommandOK, LoadBuffer
  <2> QED  BY <2>1, <2>4, HandEnqueue
<1>5. CASE Draw
  <2>1. Records("draw") /\ location' = location
    BY <1>5 DEF Draw
  <2>2. Buffer \in Buffers /\ InHeap(location[Buffer])
    BY <2>1, RecordsFacts, HandProgram DEF FrameInv, WithMemory
  <2>3. PICK e : e = [op |-> "draw", buffer |-> Buffer]  OBVIOUS
  <2>4. CommandOK(e, location) /\ Enqueue(e)
    BY <1>5, <2>2, <2>3 DEF CommandOK, Draw
  <2> QED  BY <2>1, <2>4, HandEnqueue
<1>6. CASE UpdateConstants
  <2>1. PICK e : e = [op |-> "use", memory |-> PageMemory(page'.id)]  OBVIOUS
  <2>2. Records("constants") /\ location' = location /\ Enqueue(e)
    BY <1>6, <2>1 DEF UpdateConstants
  <2>3. CommandOK(e, location)
    BY <2>1 DEF CommandOK
  <2> QED  BY <2>2, <2>3, HandEnqueue
<1>7. CASE EndFrame
  <2>1. PICK x, y : x = [op |-> "end"] /\ y = [op |-> "signal", fence |-> frame]  OBVIOUS
  <2>2. /\ commands' = commands \o <<x, y>> /\ IsList(commands) /\ location' = location
        /\ program \in Seq(Seq(Operation)) /\ program # <<>> /\ Head(program) = <<>>
        /\ program' = Tail(program)
    BY <1>7, <2>1 DEF EndFrame, FrameInv, FrameTypes
  <2>3. CreatedOnce(program', WithMemory(location))
    BY <2>2, CreatedNextFrame DEF HandInv
  <2>4. commands' = Append(Append(commands, x), y)
    BY SMTT(30), <2>2, ListConcat
  <2>5. ToSet(commands') = ToSet(commands) \cup {x, y}
    <3>1. PICK d : d = Append(commands, x)  OBVIOUS
    <3>2. IsList(d) /\ ToSet(d) = ToSet(commands) \cup {x}
      BY <2>2, <3>1, ListAppend
    <3>3. ToSet(Append(d, y)) = ToSet(d) \cup {y}
      BY <3>2, ListAppend
    <3> QED  BY <2>4, <3>1, <3>2, <3>3
  <2>6. CommandOK(x, location) /\ CommandOK(y, location)
    BY <2>1 DEF CommandOK
  <2>7. \A c \in ToSet(commands') : CommandOK(c, location)
    BY <2>5, <2>6 DEF HandInv
  <2>8. LocationOK(location)
    BY DEF HandInv
  <2> QED  BY <2>2, <2>3, <2>7, <2>8 DEF HandInv
<1> QED  BY <1>1, <1>2, <1>3, <1>4, <1>5, <1>6, <1>7 DEF MainThread

LEMMA HandExecute ==
    ASSUME FrameInv, HandInv, NEW o, Executes(o), UNCHANGED <<program, location>>
    PROVE  HandInv'
<1>1. /\ IsList(commands) /\ commands # <<>> /\ commands' = Tail(commands)
  BY DEF FrameInv, FrameTypes, Executes
<1>2. ToSet(commands') \subseteq ToSet(commands)
  BY <1>1, ListTail
<1> QED  BY <1>2 DEF HandInv, LocationOK, WithMemory, CommandOK, InHeap

\* The command at hand is one of those that are known to be in order.
LEMMA HandHead ==
    ASSUME FrameInv, HandInv, NEW o, Executes(o)
    PROVE  /\ CommandOK(Head(commands), location)
           /\ Head(commands).op = o
           /\ IsList(commands) /\ commands # <<>> /\ commands' = Tail(commands)
           /\ ToSet(commands) = ToSet(commands') \cup {Head(commands)}
<1>1. /\ IsList(commands) /\ commands # <<>> /\ commands' = Tail(commands)
      /\ Head(commands).op = o
  BY DEF FrameInv, FrameTypes, Executes
<1>2. ToSet(commands) = ToSet(commands') \cup {Head(commands)}
  BY <1>1, ListTail
<1> QED  BY <1>1, <1>2 DEF HandInv

LEMMA HandRename ==
    ASSUME FrameInv, HandInv, ExecuteRename
    PROVE  HandInv'
<1>1. PICK c : c = Head(commands)  OBVIOUS
<1>2. /\ CommandOK(c, location) /\ c.op = "rename"
      /\ ToSet(commands') \subseteq ToSet(commands)
  BY <1>1, HandHead DEF ExecuteRename
<1>3. c.buffer \in Buffers /\ InHeap(location[c.buffer]) /\ InHeap(c.memory)
  BY <1>2 DEF CommandOK
<1>4. /\ location' = [location EXCEPT ![c.buffer] = c.memory]
      /\ program' = program /\ LocationOK(location)
  BY <1>1 DEF ExecuteRename, HandInv, mainVars
<1>5. /\ LocationOK(location')
      /\ WithMemory(location') = WithMemory(location) \cup {c.buffer}
      /\ \A d : CommandOK(d, location) => CommandOK(d, location')
  <2>1. PICK b \in Buffers : b = c.buffer  BY <1>3
  <2>2. PICK m : m = c.memory  OBVIOUS
  <2>3. location' = [location EXCEPT ![b] = m] /\ InHeap(m)
    BY <1>3, <1>4, <2>1, <2>2
  <2>4. PICK new : new = [location EXCEPT ![b] = m]  OBVIOUS
  <2>5. /\ LocationOK(new) /\ WithMemory(new) = WithMemory(location) \cup {b}
        /\ \A d : CommandOK(d, location) => CommandOK(d, new)
    BY <1>4, <2>3, <2>4, HandLocation
  <2>6. location' = new  BY <2>3, <2>4
  <2> QED  BY <2>1, <2>5, <2>6
<1>6. WithMemory(location') = WithMemory(location)
  BY <1>3, <1>5 DEF WithMemory
<1>7. CreatedOnce(program', WithMemory(location'))
  BY <1>4, <1>6 DEF HandInv
<1>8. \A d \in ToSet(commands') : CommandOK(d, location')
  BY <1>2, <1>5 DEF HandInv
<1> QED  BY <1>5, <1>7, <1>8 DEF HandInv

LEMMA HandNext ==
    ASSUME FrameInv, HandInv, [Next]_vars
    PROVE  HandInv'
<1> USE DEF mainVars, endVars, gpuVars, heapVars, pageVars
<1>1. CASE UNCHANGED vars
  BY <1>1, HandSame DEF vars
<1>2. CASE MainThread
  BY <1>2, HandMain
<1>3. CASE CommandThread
  <2>1. CASE ExecuteRename
    BY <2>1, HandRename
  <2>2. CASE ExecuteDraw \/ ExecuteCopy \/ ExecuteLoad \/ ExecuteUse
    BY <2>2, HandExecute DEF ExecuteDraw, ExecuteCopy, ExecuteLoad, ExecuteUse
  <2>3. CASE ExecuteSignal \/ ExecuteEnd
    BY <2>3, HandExecute DEF ExecuteSignal, ExecuteEnd
  <2>4. CASE FreeRetired \/ CleanUpSmall \/ TrimSmall
    BY <2>4, HandSame DEF FreeRetired, CleanUpSmall, TrimSmall
  <2>5. CASE FreeOperation \/ CleanUpBig \/ TrimBig
    BY <2>5, HandSame DEF FreeOperation, CleanUpBig, TrimBig
  <2>6. CASE TrimPages \/ FlushCommands \/ CleanUpFast
    BY <2>6, HandSame DEF TrimPages, FlushCommands, CleanUpFast
  <2> QED  BY <1>3, <2>1, <2>2, <2>3, <2>4, <2>5, <2>6 DEF CommandThread
<1>4. CASE ExecutePayload \/ Gpu
  BY <1>4, HandSame DEF ExecutePayload, Gpu, GpuPayload, GpuSignal
<1>5. CASE Finished
  BY <1>1, <1>5 DEF Finished
<1> QED  BY <1>1, <1>2, <1>3, <1>4, <1>5 DEF Next

-----------------------------------------------------------------------------
(***************************************************************************)
(* The payloads: only the command thread makes one use more memory, the    *)
(* open one, and no payload is of a frame later than the open one.         *)
(***************************************************************************)
OpenPayload == [op |-> "payload", frame |-> ended + 1, used |-> used]

Payloads == ToSet(submitted) \cup {q \in ToSet(queue) : q.op = "payload"}

PayloadInv == \A w \in Payloads : w.frame \in Nat /\ w.frame <= ended

LEMMA UnexecutedIs == Unexecuted = Payloads \cup {OpenPayload}
BY DEF Unexecuted, Payloads, OpenPayload

LEMMA PayloadFlush ==
    ASSUME FrameInv, FlushCommands
    PROVE  /\ Payloads' = Payloads \cup {OpenPayload}
           /\ used' = {} /\ ended' = ended + 1 /\ completed' = completed
<1>1. /\ submitted' = Append(submitted, OpenPayload) /\ IsList(submitted)
      /\ used' = {} /\ ended' = ended + 1 /\ UNCHANGED <<queue, completed>>
  BY DEF FlushCommands, OpenPayload, FrameInv, FrameTypes
<1>2. ToSet(Append(submitted, OpenPayload)) = ToSet(submitted) \cup {OpenPayload}
  BY <1>1, ListAppend
<1> QED  BY <1>1, <1>2 DEF Payloads

LEMMA PayloadMove ==
    ASSUME FrameInv, ExecutePayload
    PROVE  Payloads' = Payloads /\ UNCHANGED <<used, ended, completed>>
<1>1. PICK w : w = Head(submitted)  OBVIOUS
<1>2. /\ submitted # <<>> /\ submitted' = Tail(submitted) /\ IsList(submitted)
      /\ queue' = Append(queue, w) /\ IsList(queue)
      /\ UNCHANGED <<used, ended, completed>>
  BY <1>1 DEF ExecutePayload, FrameInv, FrameTypes, endVars
<1>3. ToSet(submitted) = ToSet(submitted') \cup {w}
  BY <1>1, <1>2, ListTail
<1>4. w.op = "payload"
  <2>1. IsPayload(w)  BY <1>3 DEF FrameInv, PayloadTypes
  <2> QED  BY <2>1 DEF IsPayload
<1>5. ToSet(queue') = ToSet(queue) \cup {w}
  BY <1>2, ListAppend
<1> QED  BY <1>2, <1>3, <1>4, <1>5 DEF Payloads

LEMMA PayloadGpu ==
    ASSUME FrameInv, Gpu
    PROVE  /\ Payloads' \subseteq Payloads /\ UNCHANGED <<used, ended>>
           /\ completed <= completed'
<1>1. /\ queue # <<>> /\ queue' = Tail(queue) /\ IsList(queue)
      /\ UNCHANGED <<submitted, used, ended>>
  BY DEF Gpu, GpuPayload, GpuSignal, FrameInv, FrameTypes, endVars
<1>2. ToSet(queue') \subseteq ToSet(queue)
  BY <1>1, ListTail
<1> QED  BY <1>1, <1>2, FrameGpu DEF Payloads

LEMMA PayloadSignal ==
    ASSUME FrameInv, ExecuteSignal
    PROVE  Payloads' = Payloads /\ UNCHANGED <<used, ended, completed>>
<1>1. PICK e : e = [op |-> "signal", fence |-> Head(commands).fence]  OBVIOUS
<1>2. /\ queue' = Append(queue, e) /\ e.op = "signal" /\ IsList(queue)
      /\ UNCHANGED <<submitted, used, ended, completed>>
  BY <1>1 DEF ExecuteSignal, FrameInv, FrameTypes, endVars
<1>3. ToSet(Append(queue, e)) = ToSet(queue) \cup {e}
  BY <1>2, ListAppend
<1> QED  BY <1>2, <1>3 DEF Payloads

Quiet == UNCHANGED <<submitted, queue, used, ended, completed>>

LEMMA PayloadQuiet ==
    ASSUME [Next]_vars
    PROVE  \/ Quiet
           \/ ExecuteDraw \/ ExecuteCopy \/ ExecuteLoad \/ ExecuteUse
           \/ ExecuteSignal \/ FlushCommands \/ ExecutePayload \/ Gpu
<1> USE DEF mainVars, endVars, gpuVars, heapVars, pageVars
<1>1. CASE UNCHANGED vars
  BY <1>1 DEF vars, Quiet
<1>2. CASE MainThread
  BY <1>2 DEF MainThread, CreateBuffer, MapBuffer, FillBuffer, LoadBuffer, Draw,
              UpdateConstants, EndFrame, Quiet
<1>3. CASE ExecuteRename \/ ExecuteEnd
  BY <1>3 DEF ExecuteRename, ExecuteEnd, Quiet
<1>4. CASE FreeRetired \/ CleanUpSmall \/ TrimSmall
  BY <1>4 DEF FreeRetired, CleanUpSmall, TrimSmall, Quiet
<1>5. CASE FreeOperation \/ CleanUpBig \/ TrimBig
  BY <1>5 DEF FreeOperation, CleanUpBig, TrimBig, Quiet
<1>6. CASE TrimPages \/ CleanUpFast
  BY <1>6 DEF TrimPages, CleanUpFast, Quiet
<1>7. CASE Finished
  BY <1>1, <1>7 DEF Finished
<1> QED
  BY <1>1, <1>2, <1>3, <1>4, <1>5, <1>6, <1>7 DEF Next, CommandThread

\* A command that is executed adds to what the open payload uses.
UsesMore ==
    /\ ExecuteDraw \/ ExecuteCopy \/ ExecuteLoad \/ ExecuteUse
    /\ Payloads' = Payloads /\ UNCHANGED <<ended, completed>>

LEMMA PayloadNext ==
    ASSUME FrameInv, [Next]_vars
    PROVE  /\ completed <= completed'
           /\ \/ Payloads' \subseteq Payloads /\ UNCHANGED <<used, ended>>
              \/ UsesMore
              \/ /\ FlushCommands /\ Payloads' = Payloads \cup {OpenPayload}
                 /\ used' = {} /\ ended' = ended + 1
<1>1. completed \in Nat
  BY DEF FrameInv, FrameTypes
<1>2. CASE Quiet
  BY <1>1, <1>2 DEF Quiet, Payloads
<1>3. CASE ExecuteDraw \/ ExecuteCopy \/ ExecuteLoad \/ ExecuteUse
  BY <1>1, <1>3 DEF ExecuteDraw, ExecuteCopy, ExecuteLoad, ExecuteUse, UsesMore,
                    Payloads, endVars, gpuVars
<1>4. CASE ExecuteSignal
  BY <1>1, <1>4, PayloadSignal
<1>5. CASE FlushCommands
  BY <1>1, <1>5, PayloadFlush
<1>6. CASE ExecutePayload
  BY <1>1, <1>6, PayloadMove
<1>7. CASE Gpu
  BY <1>1, <1>7, PayloadGpu
<1> QED  BY <1>2, <1>3, <1>4, <1>5, <1>6, <1>7, PayloadQuiet

LEMMA PayloadInit ==
    ASSUME Init
    PROVE  PayloadInv
BY EmptyList DEF Init, PayloadInv, Payloads

LEMMA PayloadKept ==
    ASSUME FrameInv, PayloadInv, [Next]_vars
    PROVE  PayloadInv'
<1>1. ended \in Nat
  BY DEF FrameInv, FrameTypes
<1>2. OpenPayload.frame = ended + 1
  BY DEF OpenPayload
<1>3. ended' \in Nat /\ ended <= ended' /\ \A w \in Payloads' :
        w \in Payloads \/ (w = OpenPayload /\ ended' = ended + 1)
  BY <1>1, PayloadNext DEF UsesMore
<1> QED  BY <1>1, <1>2, <1>3 DEF PayloadInv

(***************************************************************************)
(* Of any property P that goes with a payload and what it uses.            *)
(***************************************************************************)
LEMMA UnexecutedNext ==
    ASSUME FrameInv, PayloadInv, [Next]_vars, NEW w \in Unexecuted'
    PROVE  /\ w.frame \in Nat /\ completed <= completed'
           /\ \/ w \in Unexecuted /\ w.frame <= ended + 1
              \/ w.used = {}
              \/ UsesMore /\ w.frame = ended + 1 /\ w.used = used'
<1>1. ended \in Nat /\ completed <= completed'
  BY PayloadNext DEF FrameInv, FrameTypes
<1>2. \A v \in Unexecuted : v.frame \in Nat /\ v.frame <= ended + 1
  BY <1>1, UnexecutedIs DEF PayloadInv, OpenPayload
<1>3. Unexecuted' = Payloads' \cup {OpenPayload'}
  BY DEF Unexecuted, Payloads, OpenPayload
<1>4. /\ OpenPayload'.frame = ended' + 1 /\ OpenPayload'.used = used'
      /\ OpenPayload' = [op |-> "payload", frame |-> ended' + 1, used |-> used']
  BY DEF OpenPayload
<1>5. CASE Payloads' \subseteq Payloads /\ UNCHANGED <<used, ended>>
  <2>1. OpenPayload' = OpenPayload  BY <1>5 DEF OpenPayload
  <2> QED  BY <1>1, <1>2, <1>3, <1>5, <2>1, UnexecutedIs
<1>6. CASE UsesMore
  <2>1. w \in Unexecuted \/ w = OpenPayload'
    BY <1>3, <1>6, UnexecutedIs DEF UsesMore
  <2>2. ended' = ended  BY <1>6 DEF UsesMore
  <2> QED  BY <1>1, <1>2, <1>4, <1>6, <2>1, <2>2
<1>7. CASE /\ FlushCommands /\ Payloads' = Payloads \cup {OpenPayload}
           /\ used' = {} /\ ended' = ended + 1
  <2>1. w \in Unexecuted \/ w = OpenPayload'
    BY <1>3, <1>7, UnexecutedIs
  <2> QED  BY <1>1, <1>2, <1>4, <1>7, <2>1
<1> QED  BY <1>5, <1>6, <1>7, PayloadNext

-----------------------------------------------------------------------------
(***************************************************************************)
(* The fast allocator: a page with a fence that is not complete stays what *)
(* it is, whatever the allocator does.                                     *)
(***************************************************************************)
FastOK(fa) ==
    /\ fa = [current |-> fa.current, pool |-> fa.pool, pages |-> fa.pages]
    /\ fa.current \in FastPage \cup {NoPage}
    /\ fa.pool \in Seq(FastPage)
    /\ fa.pages \in Nat

\* The page of block in fa is used until fence f.
FastHolds(fa, block, f) ==
    \E p \in FastPages(fa) :
        p.id = block.id /\ p.turn = block.turn /\ f <= p.fence

\* What holds for a fence that is not complete in fa holds in fb.
FastStays(fa, fb, done) ==
    \A block : \A f \in Nat :
        done < f /\ FastHolds(fa, block, f) => FastHolds(fb, block, f)

LEMMA PageInFast ==
    ASSUME NEW fa, FastOK(fa), NEW p
    PROVE  /\ p \in FastPages(fa) <=> p \in ToSet(fa.pool) \/ (p # NoPage /\ p = fa.current)
           /\ FastPages(fa) \subseteq FastPage
<1>1. ToSet(fa.pool) \subseteq FastPage
  BY ListOf DEF FastOK
<1>2. NoPage \notin FastPage
  BY NoPageAssumption
<1> QED  BY <1>1, <1>2 DEF FastPages, FastOK

LEMMA FastFence ==
    ASSUME NEW p \in FastPage, NEW fence \in Nat
    PROVE  /\ UpdateFence(p, fence) \in FastPage
           /\ UpdateFence(p, fence).id = p.id /\ UpdateFence(p, fence).turn = p.turn
           /\ p.fence <= UpdateFence(p, fence).fence
           /\ fence <= UpdateFence(p, fence).fence
<1>1. p.fence \in Nat /\ p.id \in Nat /\ p.turn \in Nat /\ p.offset \in Nat
  BY DEF FastPage
<1>2. Latest(p.fence, fence) \in Nat /\ p.fence <= Latest(p.fence, fence)
      /\ fence <= Latest(p.fence, fence)
  BY <1>1 DEF Latest
<1> QED  BY <1>2 DEF UpdateFence, FastPage

LEMMA FastReturn ==
    ASSUME NEW fa, FastOK(fa), NEW fence \in Nat, NEW done \in Nat
    PROVE  /\ FastOK(ReturnPage(fa, fence))
           /\ FastStays(fa, ReturnPage(fa, fence), done)
<1>1. CASE fa.current = NoPage
  BY <1>1 DEF ReturnPage, FastStays
<1>2. CASE fa.current # NoPage
  <2>1. PICK c \in FastPage : c = fa.current  BY <1>2 DEF FastOK
  <2>2. PICK u \in FastPage : u = UpdateFence(c, fence)  BY FastFence
  <2>3. u.id = c.id /\ u.turn = c.turn /\ c.fence <= u.fence
    BY <2>2, FastFence
  <2>4. PICK q : q = Append(fa.pool, u)  OBVIOUS
  <2>5. q \in Seq(FastPage) /\ ToSet(q) = ToSet(fa.pool) \cup {u}
    <3>1. fa.pool \in Seq(FastPage)  BY DEF FastOK
    <3>2. IsList(fa.pool)  BY <3>1, ListOf
    <3>3. q \in Seq(FastPage)  BY <2>2, <2>4, <3>1
    <3> QED  BY <2>4, <3>2, <3>3, ListAppend
  <2>6. PICK fb : fb = ReturnPage(fa, fence)  OBVIOUS
  <2>7. fb = [current |-> fa.current, pool |-> q, pages |-> fa.pages]
    <3>1. fb = [fa EXCEPT !.pool = Append(@, UpdateFence(fa.current, fence))]
      BY <1>2, <2>6 DEF ReturnPage
    <3>2. fb = [fa EXCEPT !.pool = q]
      BY <2>1, <2>2, <2>4, <3>1
    <3> QED  BY <3>2 DEF FastOK
  <2>8. FastOK(fb)
    BY <2>5, <2>7 DEF FastOK
  <2>9. ASSUME NEW p \in FastPages(fa)
        PROVE  \E r \in FastPages(fb) : r.id = p.id /\ r.turn = p.turn /\ p.fence <= r.fence
    <3>1. p \in FastPage /\ p.fence \in Nat  BY <2>9, PageInFast DEF FastPage
    <3>2. CASE p \in ToSet(fa.pool)
      <4>1. p \in FastPages(fb)
        BY <2>5, <2>7, <2>8, <3>2, PageInFast
      <4> QED  BY <3>1, <4>1
    <3>3. CASE p \notin ToSet(fa.pool)
      <4>1. p = c  BY <2>1, <2>9, <3>3, PageInFast
      <4>2. u \in FastPages(fb)
        BY <2>5, <2>7, <2>8, PageInFast
      <4> QED  BY <2>3, <4>1, <4>2
    <3> QED  BY <3>2, <3>3
  <2>10. FastStays(fa, fb, done)
    <3> SUFFICES ASSUME NEW block, NEW f \in Nat, FastHolds(fa, block, f)
                 PROVE  FastHolds(fb, block, f)
      BY DEF FastStays
    <3>1. PICK p \in FastPages(fa) : p.id = block.id /\ p.turn = block.turn /\ f <= p.fence
      BY DEF FastHolds
    <3>2. PICK r \in FastPages(fb) : r.id = p.id /\ r.turn = p.turn /\ p.fence <= r.fence
      BY <2>9
    <3>3. p.fence \in Nat /\ r.fence \in Nat
      <4>1. p \in FastPage /\ r \in FastPage  BY <2>8, PageInFast
      <4> QED  BY <4>1 DEF FastPage
    <3> QED  BY <3>1, <3>2, <3>3 DEF FastHolds
  <2> QED  BY <2>6, <2>8, <2>10
<1> QED  BY <1>1, <1>2

\* The page in use is in the pool as well, with its last fence.
Backed(fa) ==
    fa.current = NoPage
    \/ \E u \in ToSet(fa.pool) : /\ u.id = fa.current.id /\ u.turn = fa.current.turn
                                  /\ fa.current.fence <= u.fence

LEMMA FastBacked ==
    ASSUME NEW fa, FastOK(fa), NEW fence \in Nat
    PROVE  Backed(ReturnPage(fa, fence))
<1>1. CASE fa.current = NoPage
  BY <1>1 DEF ReturnPage, Backed
<1>2. CASE fa.current # NoPage
  <2>1. PICK c \in FastPage : c = fa.current  BY <1>2 DEF FastOK
  <2>2. PICK u \in FastPage : u = UpdateFence(c, fence)  BY FastFence
  <2>3. u.id = c.id /\ u.turn = c.turn /\ c.fence <= u.fence
    BY <2>2, FastFence
  <2>4. PICK q : q = Append(fa.pool, u)  OBVIOUS
  <2>5. ToSet(q) = ToSet(fa.pool) \cup {u}
    <3>1. fa.pool \in Seq(FastPage)  BY DEF FastOK
    <3>2. IsList(fa.pool)  BY <3>1, ListOf
    <3> QED  BY <2>4, <3>2, ListAppend
  <2>6. PICK fb : fb = ReturnPage(fa, fence)  OBVIOUS
  <2>7. fb = [current |-> c, pool |-> q, pages |-> fa.pages]
    <3>1. fb = [fa EXCEPT !.pool = Append(@, UpdateFence(fa.current, fence))]
      BY <1>2, <2>6 DEF ReturnPage
    <3>2. fb = [fa EXCEPT !.pool = q]
      BY <2>1, <2>2, <2>4, <3>1
    <3> QED  BY <2>1, <3>2 DEF FastOK
  <2>8. fb.current = c /\ fb.pool = q  BY <2>7
  <2> QED  BY <2>3, <2>5, <2>6, <2>8 DEF Backed
<1> QED  BY <1>1, <1>2

\* A page that goes from the pool has a fence that is complete.
LEMMA FastRemove ==
    ASSUME NEW fa, FastOK(fa), NEW done \in Nat,
           NEW i \in DOMAIN fa.pool, fa.pool[i].fence <= done,
           NEW fb, FastOK(fb), fb.pool = RemoveAt(fa.pool, i),
           fb.current = fa.current \/ Backed(fa)
    PROVE  FastStays(fa, fb, done)
<1>2. fa.pool \in Seq(FastPage) /\ i \in 1..Len(fa.pool)
  BY DEF FastOK
<1>3. \A x \in ToSet(fa.pool) : x # fa.pool[i] => x \in ToSet(fb.pool)
  BY <1>2, RemoveAtIs
<1>4. ASSUME NEW p \in ToSet(fa.pool), done < p.fence
      PROVE  p \in FastPages(fb)
  <2>1. p \in FastPages(fa)  BY PageInFast
  <2>2. p \in FastPage /\ fa.pool[i] \in FastPage  BY <1>2, <2>1, PageInFast
  <2>3. p.fence \in Nat /\ fa.pool[i].fence \in Nat
    BY <2>2 DEF FastPage
  <2>4. p # fa.pool[i]
    BY <1>4, <2>3
  <2> QED  BY <1>3, <2>4, PageInFast
<1>5. SUFFICES ASSUME NEW block, NEW f \in Nat, done < f, FastHolds(fa, block, f)
               PROVE  FastHolds(fb, block, f)
  BY DEF FastStays
<1>6. PICK p \in FastPages(fa) : p.id = block.id /\ p.turn = block.turn /\ f <= p.fence
  BY <1>5 DEF FastHolds
<1>7. p \in FastPage /\ p.fence \in Nat
  <2>1. p \in FastPage  BY PageInFast
  <2> QED  BY <2>1 DEF FastPage
<1>8. CASE p \in ToSet(fa.pool)
  <2>1. p \in FastPages(fb)
    BY <1>4, <1>5, <1>6, <1>7, <1>8
  <2> QED  BY <1>6, <2>1 DEF FastHolds
<1>9. CASE p \notin ToSet(fa.pool)
  <2>1. p # NoPage /\ p = fa.current  BY <1>9, PageInFast
  <2>2. CASE fb.current = fa.current
    <3>1. p \in FastPages(fb)  BY <2>1, <2>2, PageInFast
    <3> QED  BY <1>6, <3>1 DEF FastHolds
  <2>3. CASE Backed(fa)
    <3>1. PICK u \in ToSet(fa.pool) : u.id = p.id /\ u.turn = p.turn /\ p.fence <= u.fence
      BY <2>1, <2>3 DEF Backed
    <3>2. u.fence \in Nat
      <4>1. u \in FastPage  BY PageInFast
      <4> QED  BY <4>1 DEF FastPage
    <3>3. u \in FastPages(fb)
      BY <1>4, <1>5, <1>6, <1>7, <3>1, <3>2
    <3> QED  BY <1>6, <1>7, <3>1, <3>2, <3>3 DEF FastHolds
  <2> QED  BY <2>2, <2>3
<1> QED  BY <1>8, <1>9

LEMMA FastRequest ==
    ASSUME NEW fa, FastOK(fa), Backed(fa), NEW done \in Nat
    PROVE  /\ FastOK(RequestPage(fa, done))
           /\ RequestPage(fa, done).current # NoPage
           /\ FastStays(fa, RequestPage(fa, done), done)
<1>1. PICK fb : fb = RequestPage(fa, done)  OBVIOUS
<1> DEFINE usable == Reusable(fa.pool, done)
           i == CHOOSE i \in usable : \A j \in usable : i <= j
<1>2. fa.pool \in Seq(FastPage) /\ fa.pages \in Nat /\ NoPage \notin FastPage
  BY NoPageAssumption DEF FastOK
<1>3. CASE usable = {}
  <2>1. PICK c : c = [id |-> fa.pages + 1, turn |-> 0, offset |-> 0, fence |-> 0]
    OBVIOUS
  <2>2. c \in FastPage  BY <1>2, <2>1 DEF FastPage
  <2>3. fb = [current |-> c, pool |-> fa.pool, pages |-> fa.pages + 1]
    BY <1>1, <1>3, <2>1 DEF RequestPage
  <2>4. fb.current = c /\ fb.pool = fa.pool /\ fb.pages = fa.pages + 1  BY <2>3
  <2>5. FastOK(fb)
    BY <1>2, <2>2, <2>3, <2>4 DEF FastOK
  <2>6. FastStays(fa, fb, done)
    <3> SUFFICES ASSUME NEW block, NEW f \in Nat, FastHolds(fa, block, f)
                 PROVE  FastHolds(fb, block, f)
      BY DEF FastStays
    <3>1. PICK p \in FastPages(fa) : p.id = block.id /\ p.turn = block.turn /\ f <= p.fence
      BY DEF FastHolds
    <3>2. PICK u \in ToSet(fa.pool) : u.id = p.id /\ u.turn = p.turn /\ p.fence <= u.fence
      <4>1. p \in FastPage  BY PageInFast
      <4>2. p.fence <= p.fence  BY <4>1 DEF FastPage
      <4> QED  BY <4>2, PageInFast DEF Backed
    <3>3. p.fence \in Nat /\ u.fence \in Nat
      <4>1. p \in FastPage /\ u \in FastPage  BY PageInFast
      <4> QED  BY <4>1 DEF FastPage
    <3>4. u \in FastPages(fb)  BY <2>4, <2>5, PageInFast
    <3> QED  BY <3>1, <3>2, <3>3, <3>4 DEF FastHolds
  <2> QED  BY <1>1, <1>2, <2>2, <2>4, <2>5, <2>6
<1>4. CASE usable # {}
  <2>1. usable \subseteq Nat
    BY <1>2 DEF Reusable
  <2>2. i \in usable
    BY <1>4, <2>1, Least
  <2> HIDE DEF i
  <2>3. i \in DOMAIN fa.pool /\ fa.pool[i].fence <= done /\ i \in 1..Len(fa.pool)
    BY <1>2, <2>2 DEF Reusable, PageDone
  <2>4. PICK o \in FastPage : o = fa.pool[i]
    BY <1>2, <2>3
  <2>5. PICK c : c = Reset(o)  OBVIOUS
  <2>6. c \in FastPage
    <3>1. o.turn + 1 \in Nat /\ o \in [id : Nat, turn : Nat, offset : Nat, fence : Nat]
      BY <2>4 DEF FastPage
    <3>2. c = [[[o EXCEPT !.turn = o.turn + 1] EXCEPT !.offset = 0] EXCEPT !.fence = 0]
      BY <2>5, <3>1 DEF Reset
    <3>3. c = [id |-> o.id, turn |-> o.turn + 1, offset |-> 0, fence |-> 0]
      BY <3>1, <3>2
    <3> QED  BY <3>1, <3>3 DEF FastPage
  <2>7. PICK q : q = RemoveAt(fa.pool, i)  OBVIOUS
  <2>8. q \in Seq(FastPage)
    BY <1>2, <2>3, <2>7, RemoveAtIs
  <2>9. fb = [current |-> c, pool |-> q, pages |-> fa.pages]
    <3>1. fb = [fa EXCEPT !.current = Reset(fa.pool[i]), !.pool = RemoveAt(@, i)]
      BY <1>1, <1>4 DEF RequestPage, i
    <3>2. fb = [[fa EXCEPT !.current = c] EXCEPT !.pool = q]
      BY <2>4, <2>5, <2>7, <3>1 DEF FastOK
    <3> QED  BY <3>2 DEF FastOK
  <2>10. fb.current = c /\ fb.pool = q /\ fb.pages = fa.pages  BY <2>9
  <2>11. FastOK(fb)
    BY <1>2, <2>6, <2>8, <2>9, <2>10 DEF FastOK
  <2>12. FastStays(fa, fb, done)
    BY <2>3, <2>7, <2>10, <2>11, FastRemove
  <2> QED  BY <1>1, <1>2, <2>6, <2>10, <2>11, <2>12
<1> QED  BY <1>3, <1>4

LEMMA FastServing ==
    ASSUME NEW fa, FastOK(fa), NEW size, NEW align, NEW fence \in Nat, NEW done \in Nat
    PROVE  LET served == Serving(fa, size, align, fence, done)
           IN  /\ FastOK(served) /\ served.current \in FastPage
               /\ FastStays(fa, served, done)
<1>1. PICK served : served = Serving(fa, size, align, fence, done)  OBVIOUS
<1>2. CASE PageFits(fa, size, align)
  <2>1. served = fa /\ fa.current # NoPage
    BY <1>1, <1>2 DEF Serving, PageFits
  <2> QED  BY <1>1, <2>1 DEF FastOK, FastStays
<1>3. CASE ~ PageFits(fa, size, align)
  <2>1. PICK fb : fb = ReturnPage(fa, fence)  OBVIOUS
  <2>2. FastOK(fb) /\ FastStays(fa, fb, done) /\ Backed(fb)
    BY <2>1, FastReturn, FastBacked
  <2>3. served = RequestPage(fb, done)
    BY <1>1, <1>3, <2>1 DEF Serving
  <2>4. FastOK(served) /\ served.current # NoPage /\ FastStays(fb, served, done)
    BY <2>2, <2>3, FastRequest
  <2>5. FastStays(fa, served, done)
    BY <2>2, <2>4 DEF FastStays
  <2> QED  BY <1>1, <2>4, <2>5 DEF FastOK
<1> QED  BY <1>2, <1>3

LEMMA AlignedIs ==
    ASSUME NEW n \in Nat, NEW a \in Nat \ {0}
    PROVE  AlignArbitrary(n, a) \in Nat
<1>1. n + a - 1 \in Nat  OBVIOUS
<1>2. (n + a - 1) \div a \in Nat  BY <1>1
<1> QED  BY <1>2 DEF AlignArbitrary

LEMMA FastAllocateIs ==
    ASSUME NEW fa, FastOK(fa), fa.current \in FastPage, NEW size \in Nat,
           NEW align \in Nat \ {0}, NEW fence \in Nat, NEW done \in Nat
    PROVE  LET fb == FastAllocate(fa, size, align, fence)
           IN  /\ FastOK(fb) /\ FastStays(fa, fb, done)
               /\ FastHolds(fb, FastBlock(fa, size, align), fence)
<1>1. PICK c \in FastPage : c = fa.current  OBVIOUS
<1>2. PICK n \in Nat : n = AlignArbitrary(c.offset, align) + size
  <2>1. c.offset \in Nat  BY DEF FastPage
  <2>2. AlignArbitrary(c.offset, align) \in Nat  BY <2>1, AlignedIs
  <2> QED  BY <2>2
<1>3. PICK d : d = [c EXCEPT !.offset = n]  OBVIOUS
<1>4. d \in FastPage /\ d.id = c.id /\ d.turn = c.turn /\ d.fence = c.fence
  BY <1>3 DEF FastPage
<1>5. PICK u \in FastPage : u = UpdateFence(d, fence)
  BY <1>4, FastFence
<1>6. u.id = c.id /\ u.turn = c.turn /\ c.fence <= u.fence /\ fence <= u.fence
  BY <1>4, <1>5, FastFence
<1>7. PICK fb : fb = FastAllocate(fa, size, align, fence)  OBVIOUS
<1>8. fb = [current |-> u, pool |-> fa.pool, pages |-> fa.pages]
  <2>1. d = Advanced(c, size, align)
    BY <1>2, <1>3 DEF Advanced
  <2>2. fb = [fa EXCEPT !.current = u]
    BY <1>1, <1>5, <1>7, <2>1 DEF FastAllocate, FastOK
  <2> QED  BY <2>2 DEF FastOK
<1>9. fb.current = u /\ fb.pool = fa.pool /\ fb.pages = fa.pages  BY <1>8
<1>10. FastOK(fb)
  BY <1>8, <1>9 DEF FastOK
<1>11. u \in FastPages(fb)
  BY <1>9, <1>10, PageInFast, NoPageAssumption
<1>12. FastStays(fa, fb, done)
  <2> SUFFICES ASSUME NEW block, NEW f \in Nat, FastHolds(fa, block, f)
               PROVE  FastHolds(fb, block, f)
    BY DEF FastStays
  <2>1. PICK p \in FastPages(fa) : p.id = block.id /\ p.turn = block.turn /\ f <= p.fence
    BY DEF FastHolds
  <2>2. CASE p \in ToSet(fa.pool)
    <3>1. p \in FastPages(fb)  BY <1>9, <1>10, <2>2, PageInFast
    <3> QED  BY <2>1, <3>1 DEF FastHolds
  <2>3. CASE p \notin ToSet(fa.pool)
    <3>1. p = c  BY <1>1, <2>3, PageInFast
    <3>2. c.fence \in Nat /\ u.fence \in Nat  BY DEF FastPage
    <3>3. f <= u.fence  BY <1>6, <2>1, <3>1, <3>2
    <3> QED  BY <1>6, <1>11, <2>1, <3>1, <3>3 DEF FastHolds
  <2> QED  BY <2>2, <2>3
<1>13. FastHolds(fb, FastBlock(fa, size, align), fence)
  <2>1. PICK b : b = FastBlock(fa, size, align)  OBVIOUS
  <2>2. b.id = c.id /\ b.turn = c.turn
    BY <1>1, <2>1 DEF FastBlock
  <2> QED  BY <1>6, <1>11, <2>1, <2>2 DEF FastHolds
<1> QED  BY <1>7, <1>10, <1>12, <1>13

LEMMA FastCleanup ==
    ASSUME NEW fa, FastOK(fa), NEW done \in Nat
    PROVE  /\ FastOK(CleanupPages(fa, done))
           /\ FastStays(fa, CleanupPages(fa, done), done)
<1>1. PICK fb : fb = CleanupPages(fa, done)  OBVIOUS
<1> DEFINE old == {i \in DOMAIN fa.pool : fa.pool[i].fence + FastFrameLag <= done}
           i == CHOOSE i \in old : \A j \in old : i <= j
<1>2. fa.pool \in Seq(FastPage) /\ FastFrameLag \in Nat
  BY FastAssumption DEF FastOK
<1>3. CASE Len(fa.pool) <= MinPagesToRetain \/ old = {}
  <2>1. fb = fa  BY <1>1, <1>3 DEF CleanupPages
  <2> QED  BY <1>1, <2>1 DEF FastStays
<1>4. CASE ~ (Len(fa.pool) <= MinPagesToRetain \/ old = {})
  <2>1. old \subseteq Nat /\ old # {}
    BY <1>2, <1>4
  <2>2. i \in old
    BY <2>1, Least
  <2>3. fb = [fa EXCEPT !.pool = RemoveAt(fa.pool, i)]
    BY <1>1, <1>4 DEF CleanupPages, FastOK
  <2> HIDE DEF i
  <2>4. i \in DOMAIN fa.pool /\ i \in 1..Len(fa.pool) /\ fa.pool[i].fence <= done
    <3>1. i \in 1..Len(fa.pool) /\ fa.pool[i].fence + FastFrameLag <= done
      BY <1>2, <2>2
    <3>2. fa.pool[i] \in FastPage  BY <1>2, <3>1
    <3>3. fa.pool[i].fence \in Nat  BY <3>2 DEF FastPage
    <3> QED  BY <1>2, <3>1, <3>3
  <2>5. PICK q : q = RemoveAt(fa.pool, i)  OBVIOUS
  <2>6. q \in Seq(FastPage)
    BY <1>2, <2>4, <2>5, RemoveAtIs
  <2>7. fb = [current |-> fa.current, pool |-> q, pages |-> fa.pages]
    BY <2>3, <2>5 DEF FastOK
  <2>8. fb.current = fa.current /\ fb.pool = q /\ fb.pages = fa.pages  BY <2>7
  <2>9. FastOK(fb)
    BY <2>6, <2>7, <2>8 DEF FastOK
  <2>10. FastStays(fa, fb, done)
    BY <2>4, <2>5, <2>8, <2>9, FastRemove
  <2> QED  BY <1>1, <2>9, <2>10
<1> QED  BY <1>3, <1>4

FastUsed(w) ==
    \A m \in w.used : m.heap = "fast" => FastHolds(fast, m.block, w.frame)

FastInv ==
    /\ FastOK(fast)
    /\ \A w \in Unexecuted : completed < w.frame => FastUsed(w)

LEMMA FastInit ==
    ASSUME Init
    PROVE  FastInv
<1>1. FastOK(fast)
  <2>1. fast = [current |-> NoPage, pool |-> <<>>, pages |-> 0]
    BY DEF Init, NewFastAllocator
  <2> QED  BY <2>1 DEF FastOK
<1>2. Unexecuted = {OpenPayload} /\ OpenPayload.used = {}
  BY EmptyList DEF Init, Unexecuted, OpenPayload
<1> QED  BY <1>1, <1>2 DEF FastInv, FastUsed

\* The open payload is of a frame that is still recorded, or of the one before.
LEMMA OpenFrame ==
    ASSUME FrameInv, stage = "commands"
    PROVE  ended \in Nat /\ frame \in Nat /\ ended + 1 <= frame
<1>1. ended \in Nat /\ IsList(commands)
  BY DEF FrameInv, FrameTypes
<1>2. FirstFrame = ended + 1
  BY DEF FirstFrame
<1>3. FirstFrame <= frame /\ frame \in Nat
  BY <1>1, FramesBounds DEF FrameInv, FrameOrder
<1> QED  BY <1>1, <1>2, <1>3

\* The pages of constants that a command uses.
LEMMA UsePage ==
    ASSUME FrameInv, ExecuteUse
    PROVE  PageFor(pages, Head(commands).memory, ended + 1)
<1>1. /\ IsList(commands) /\ commands # <<>> /\ Head(commands).op = "use"
      /\ stage = "commands"
  BY DEF FrameInv, FrameTypes, ExecuteUse, Executes
<1>2. PageFor(pages, Head(commands).memory, FirstFrame)
  BY <1>1, FramesTail DEF FrameInv, FrameOrder
<1> QED  BY <1>1, <1>2 DEF FirstFrame

\* What executing a command adds to the open payload.
Addition(m) ==
    \/ ExecuteDraw /\ InHeap(m) /\ Head(commands).buffer \in Buffers
         /\ m = location[Head(commands).buffer]
    \/ ExecuteCopy /\ InHeap(m) /\ m = Head(commands).memory
    \/ ExecuteLoad /\ m.heap = "fast" /\ FastHolds(fast', m.block, frame)
    \/ ExecuteUse /\ PageFor(pages, m, ended + 1)

LEMMA LoadIs ==
    ASSUME FrameInv, HandInv, FastOK(fast), ExecuteLoad
    PROVE  /\ FastOK(fast') /\ FastStays(fast, fast', completed)
           /\ \E m : used' = used \cup {m} /\ Addition(m)
<1>1. PICK b \in Buffers : b = Head(commands).buffer
  BY HandHead DEF ExecuteLoad, CommandOK
<1>2. Size[b] \in Nat /\ CopyAlignment \in Nat \ {0} /\ frame \in Nat /\ completed \in Nat
  BY UploadAssumption DEF CopyAlignment, FrameInv, FrameTypes
<1>3. PICK served : served = Serving(fast, Size[b], CopyAlignment, frame, completed)
  OBVIOUS
<1>4. FastOK(served) /\ served.current \in FastPage /\ FastStays(fast, served, completed)
  BY <1>2, <1>3, FastServing
<1>5. PICK m : m = FastMemory(FastBlock(served, Size[b], CopyAlignment))  OBVIOUS
<1>6. /\ fast' = FastAllocate(served, Size[b], CopyAlignment, frame)
      /\ used' = used \cup {m}
  BY <1>1, <1>3, <1>5 DEF ExecuteLoad, RetireFence
<1>7. /\ FastOK(fast') /\ FastStays(served, fast', completed)
      /\ FastHolds(fast', FastBlock(served, Size[b], CopyAlignment), frame)
  BY <1>2, <1>4, <1>6, FastAllocateIs
<1>8. m.heap = "fast" /\ m.block = FastBlock(served, Size[b], CopyAlignment)
  BY <1>5 DEF FastMemory
<1>9. FastStays(fast, fast', completed)
  BY <1>4, <1>7 DEF FastStays
<1> QED  BY <1>6, <1>7, <1>8, <1>9 DEF Addition

LEMMA AdditionIs ==
    ASSUME FrameInv, HandInv, FastOK(fast), UsesMore
    PROVE  \E m : used' = used \cup {m} /\ Addition(m)
<1>1. CASE ExecuteDraw
  <2>1. PICK b : b = Head(commands).buffer  OBVIOUS
  <2>2. b \in Buffers /\ InHeap(location[b])
    BY <1>1, <2>1, HandHead DEF ExecuteDraw, CommandOK
  <2>3. used' = used \cup {location[b]}
    BY <1>1, <2>1 DEF ExecuteDraw
  <2> QED  BY <1>1, <2>1, <2>2, <2>3 DEF Addition
<1>2. CASE ExecuteCopy
  <2>1. PICK m : m = Head(commands).memory  OBVIOUS
  <2>2. InHeap(m)
    BY <1>2, <2>1, HandHead DEF ExecuteCopy, CommandOK
  <2>3. used' = used \cup {m}
    BY <1>2, <2>1 DEF ExecuteCopy
  <2> QED  BY <1>2, <2>1, <2>2, <2>3 DEF Addition
<1>3. CASE ExecuteLoad
  BY <1>3, LoadIs
<1>4. CASE ExecuteUse
  <2>1. PICK m : m = Head(commands).memory  OBVIOUS
  <2>2. used' = used \cup {m} /\ PageFor(pages, m, ended + 1)
    BY <1>4, <2>1, UsePage DEF ExecuteUse
  <2> QED  BY <1>4, <2>2 DEF Addition
<1> QED  BY <1>1, <1>2, <1>3, <1>4 DEF UsesMore

LEMMA FastChanges ==
    ASSUME FrameInv, HandInv, FastOK(fast), [Next]_vars
    PROVE  FastOK(fast') /\ FastStays(fast, fast', completed)
<1> USE DEF mainVars, endVars, gpuVars, heapVars, pageVars
<1>1. CASE fast' = fast
  BY <1>1 DEF FastStays
<1>2. CASE ExecuteLoad
  BY <1>2, LoadIs
<1>3. CASE CleanUpFast
  <2>1. fast' = CleanupPages(fast, completed) /\ completed \in Nat
    BY <1>3 DEF CleanUpFast, FrameInv, FrameTypes
  <2> QED  BY <2>1, FastCleanup
<1>4. CASE UNCHANGED vars
  BY <1>1, <1>4 DEF vars
<1>5. CASE MainThread
  BY <1>1, <1>5 DEF MainThread, CreateBuffer, MapBuffer, FillBuffer, LoadBuffer, Draw,
                    UpdateConstants, EndFrame
<1>6. CASE \/ ExecuteRename \/ ExecuteDraw \/ ExecuteCopy \/ ExecuteUse
           \/ ExecuteSignal \/ ExecuteEnd
  BY <1>1, <1>6 DEF ExecuteRename, ExecuteDraw, ExecuteCopy, ExecuteUse, ExecuteSignal,
                    ExecuteEnd
<1>7. CASE \/ FreeRetired \/ CleanUpSmall \/ TrimSmall
           \/ FreeOperation \/ CleanUpBig \/ TrimBig \/ TrimPages \/ FlushCommands
  BY <1>1, <1>7 DEF FreeRetired, CleanUpSmall, TrimSmall, FreeOperation, CleanUpBig,
                    TrimBig, TrimPages, FlushCommands
<1>8. CASE ExecutePayload \/ Gpu
  BY <1>1, <1>8 DEF ExecutePayload, Gpu, GpuPayload, GpuSignal
<1>9. CASE Finished
  BY <1>4, <1>9 DEF Finished
<1> QED
  BY <1>2, <1>3, <1>4, <1>5, <1>6, <1>7, <1>8, <1>9 DEF Next, CommandThread

LEMMA FastNext ==
    ASSUME FrameInv, HandInv, PayloadInv, FastInv, [Next]_vars
    PROVE  FastInv'
<1>1. FastOK(fast') /\ FastStays(fast, fast', completed)
  BY FastChanges DEF FastInv
<1>2. completed \in Nat /\ completed' \in Nat
  BY FrameNext DEF FrameInv, FrameTypes
<1>3. ASSUME NEW w \in Unexecuted', completed' < w.frame,
             NEW m \in w.used, m.heap = "fast"
      PROVE  FastHolds(fast', m.block, w.frame)
  <2>1. /\ w.frame \in Nat /\ completed <= completed'
        /\ \/ w \in Unexecuted /\ w.frame <= ended + 1
           \/ w.used = {}
           \/ UsesMore /\ w.frame = ended + 1 /\ w.used = used'
    BY <1>3, UnexecutedNext
  <2>2. completed < w.frame  BY <1>2, <1>3, <2>1
  <2>3. CASE w \in Unexecuted
    <3>1. FastHolds(fast, m.block, w.frame)
      BY <1>3, <2>2, <2>3 DEF FastInv, FastUsed
    <3> QED  BY <1>1, <2>1, <2>2, <3>1 DEF FastStays
  <2>4. CASE UsesMore /\ w.frame = ended + 1 /\ w.used = used'
    <3>1. PICK n : used' = used \cup {n} /\ Addition(n)
      BY <2>4, AdditionIs DEF FastInv
    <3>2. CASE m \in used
      <4>1. /\ OpenPayload \in Unexecuted /\ OpenPayload.used = used
            /\ OpenPayload.frame = ended + 1
        BY UnexecutedIs DEF OpenPayload
      <4>2. FastHolds(fast, m.block, w.frame)
        BY <1>3, <2>2, <2>4, <3>2, <4>1 DEF FastInv, FastUsed
      <4> QED  BY <1>1, <2>1, <2>2, <4>2 DEF FastStays
    <3>3. CASE m = n
      <4>1. ExecuteLoad /\ FastHolds(fast', m.block, frame)
        BY <1>3, <3>1, <3>3 DEF Addition, InHeap, PageFor, PageMemory
      <4>2. ended \in Nat /\ frame \in Nat /\ ended + 1 <= frame
        BY <4>1, OpenFrame DEF ExecuteLoad, Executes
      <4>3. PICK p \in FastPages(fast') : p.id = m.block.id /\ p.turn = m.block.turn
                                          /\ frame <= p.fence
        BY <4>1 DEF FastHolds
      <4>4. p.fence \in Nat
        <5>1. p \in FastPage  BY <1>1, PageInFast
        <5> QED  BY <5>1 DEF FastPage
      <4>5. w.frame <= p.fence  BY <2>4, <4>2, <4>3, <4>4
      <4> QED  BY <4>3, <4>5 DEF FastHolds
    <3> QED  BY <1>3, <2>4, <3>1, <3>2, <3>3
  <2> QED  BY <1>3, <2>1, <2>3, <2>4
<1>4. FastInv' <=> /\ FastOK(fast')
                   /\ \A w \in Unexecuted' : completed' < w.frame =>
                        \A m \in w.used : m.heap = "fast" =>
                            FastHolds(fast', m.block, w.frame)
  BY DEF FastInv, FastUsed
<1> QED  BY <1>1, <1>3, <1>4

LEMMA FastKeeps ==
    ASSUME FrameInv, PayloadInv, FastInv
    PROVE  FastUntilFence
<1> SUFFICES ASSUME NEW w \in Unexecuted, w.frame > completed, NEW m \in w.used,
                    m.heap = "fast"
             PROVE  Keeps(fast, m.block)
  BY DEF FastUntilFence
<1>1. completed \in Nat /\ w.frame \in Nat
  BY UnexecutedIs DEF FrameInv, FrameTypes, PayloadInv, OpenPayload
<1>2. FastHolds(fast, m.block, w.frame)
  BY <1>1 DEF FastInv, FastUsed
<1> QED  BY <1>2 DEF FastHolds, Keeps

(***************************************************************************)
(* A page of the fast allocator is neither reset nor deleted before the    *)
(* fence of the last frame that uses it has been passed                    *)
(* (RequestFastAllocatorPage, UpdateFence and CleanupPages).               *)
(***************************************************************************)
THEOREM FastSafe == Spec => []FastUntilFence
<1> DEFINE I == FrameInv /\ HandInv /\ PayloadInv /\ FastInv
<1>1. Init => I
  BY FrameInit, HandInit, PayloadInit, FastInit
<1>2. I /\ [Next]_vars => I'
  BY FrameNext, HandNext, PayloadKept, FastNext
<1>3. I => FastUntilFence
  BY FastKeeps
<1> QED  BY <1>1, <1>2, <1>3, PTL DEF Spec

-----------------------------------------------------------------------------
(***************************************************************************)
(* One buddy allocator, the memory O of it that buffers and commands own,  *)
(* and what was given back: each memory has a block of its own, and these  *)
(* are the blocks in use.                                                  *)
(***************************************************************************)
Freed(a) == {r.memory : r \in ToSet(a.retired)}

Blocks(M) == {m.block : m \in M}

InBlock(m) ==
    /\ m.bytes.offset \in Nat /\ m.bytes.size \in Nat
    /\ m.block.offset * MinBlockSize <= m.bytes.offset
    /\ m.bytes.offset + m.bytes.size <= Stop(m.block) * MinBlockSize

IsSmall(m, id) == m.heap = "small" /\ m.at = id /\ InBlock(m)

RetiredOK(a) ==
    /\ IsList(a.retired)
    /\ \A i \in 1..Len(a.retired) : a.retired[i].fence \in Nat
    /\ \A i, j \in 1..Len(a.retired) :
        a.retired[i].memory = a.retired[j].memory => i = j

BlockEach(M) == \A m, n \in M : m.block = n.block => m = n

AllocatorOK(a, O) ==
    /\ AllocatorIs(a)
    /\ RetiredOK(a)
    /\ O \cap Freed(a) = {}
    /\ \A m \in O \cup Freed(a) : IsSmall(m, a.id)
    /\ BlockEach(O \cup Freed(a))
    /\ BuddyOK(a, Blocks(O \cup Freed(a)))

LEMMA AllocatorNew ==
    ASSUME NEW id
    PROVE  AllocatorOK(NewAllocator(id), {}) /\ NewAllocator(id).id = id
           /\ NewAllocator(id).retired = <<>>
<1>1. PICK a : a = NewAllocator(id)  OBVIOUS
<1>2. a.id = id /\ a.retired = <<>>  BY <1>1 DEF NewAllocator
<1>3. Freed(a) = {}  BY <1>2, EmptyList DEF Freed
<1>4. RetiredOK(a)  BY <1>2, EmptyList DEF RetiredOK
<1>5. Blocks({} \cup Freed(a)) = {}  BY <1>3 DEF Blocks
<1>6. AllocatorIs(a) /\ BuddyOK(a, {})  BY <1>1, BuddyNew
<1> QED  BY <1>1, <1>2, <1>3, <1>4, <1>5, <1>6 DEF AllocatorOK, BlockEach

LEMMA SmallMemoryIs ==
    ASSUME NEW a, NEW size \in Nat, NEW align \in Nat \ {0},
           NEW b, b = BlockFor(a, size, align), b \in BuddyBlock,
           SizeToAllocate(size, align) <= OrderToUnitSize(b.order) * MinBlockSize,
           NEW m, m = SmallMemory(a, size, align)
    PROVE  IsSmall(m, a.id) /\ m.block = b /\ m.bytes.size = size
<1>1. /\ m.heap = "small" /\ m.at = a.id /\ m.block = b /\ m.bytes.size = size
      /\ m.bytes.offset = AlignArbitrary(b.offset * MinBlockSize, align)
  BY DEF SmallMemory
<1>2. PICK o \in Nat, u \in Nat, n \in Nat \ {0} :
        o = b.offset /\ u = OrderToUnitSize(b.order) /\ n = MinBlockSize
  BY BlockTypes, BuddyAssumption
<1>3. PICK x \in Nat : x = o * n  BY <1>2
<1> DEFINE y == AlignArbitrary(x, align)
<1>4. y \in Nat /\ x <= y /\ y <= x + align - 1 /\ (Multiple(x, align) => y = x)
  BY AlignIs
<1> HIDE DEF y
<1>5. CASE n % align = 0
  <2>1. Multiple(n, align)  BY <1>5, ModMultiple
  <2>2. Multiple(x, n)  BY <1>2, <1>3 DEF Multiple
  <2>3. Multiple(x, align)  BY <1>2, <2>1, <2>2, MultipleOf
  <2>4. size <= u * n  BY <1>2, <1>5 DEF SizeToAllocate
  <2>5. y + size <= (o + u) * n  BY <1>2, <1>3, <1>4, <2>3, <2>4
  <2> QED  BY <1>1, <1>2, <1>3, <1>4, <2>5 DEF IsSmall, InBlock, Stop, y
<1>6. CASE n % align # 0
  <2>1. size + align <= u * n  BY <1>2, <1>6 DEF SizeToAllocate
  <2>2. u * n \in Nat /\ (o + u) * n = x + u * n  BY <1>2, <1>3
  <2>3. y + size <= (o + u) * n  BY <1>3, <1>4, <2>1, <2>2
  <2> QED  BY <1>1, <1>2, <1>3, <1>4, <2>3 DEF IsSmall, InBlock, Stop, y
<1> QED  BY <1>5, <1>6

LEMMA AllocatorTake ==
    ASSUME NEW a, NEW O, AllocatorOK(a, O), NEW size \in Nat, NEW align \in Nat \ {0},
           CanAllocate(a, size, align), NEW m, m = SmallMemory(a, size, align),
           NEW new, new = AllocateBlock(a, size, align)
    PROVE  /\ AllocatorOK(new, O \cup {m}) /\ new.id = a.id /\ new.retired = a.retired
           /\ m \notin O /\ m.heap = "small" /\ m.at = a.id
<1>1. PICK b : b = BlockFor(a, size, align)  OBVIOUS
<1>2. PICK H : H = Blocks(O \cup Freed(a))  OBVIOUS
<1>3. SizeToAllocate(size, align) \in Nat  BY DEF SizeToAllocate
<1>4. /\ AllocatorIs(new) /\ BuddyOK(new, H \cup {b})
      /\ new.id = a.id /\ new.retired = a.retired
      /\ Placed(b, OrderToUnitSize(MaxOrder)) /\ \A h \in H : Apart(h, b)
      /\ SizeToAllocate(size, align) <= OrderToUnitSize(b.order) * MinBlockSize
  BY <1>1, <1>2, <1>3, BuddyAllocate DEF AllocatorOK
<1>5. b \in BuddyBlock  BY <1>4 DEF Placed
<1>6. IsSmall(m, a.id) /\ m.block = b  BY <1>1, <1>4, <1>5, SmallMemoryIs
<1>7. b \notin H
  <2>1. ~ Apart(b, b)  BY <1>5, BlockTypes DEF Apart
  <2> QED  BY <1>4, <2>1
<1>8. \A n \in O \cup Freed(a) : n.block # b  BY <1>2, <1>7 DEF Blocks
<1>9. m \notin O \cup Freed(a)  BY <1>6, <1>8
<1>10. Freed(new) = Freed(a) /\ RetiredOK(new)
  BY <1>4 DEF Freed, RetiredOK, AllocatorOK
<1>11. Blocks((O \cup {m}) \cup Freed(new)) = H \cup {b}
  BY <1>2, <1>6, <1>10 DEF Blocks
<1>12. BlockEach((O \cup {m}) \cup Freed(new))
  BY <1>6, <1>8, <1>10 DEF AllocatorOK, BlockEach
<1>13. \A n \in (O \cup {m}) \cup Freed(new) : IsSmall(n, new.id)
  BY <1>4, <1>6, <1>10 DEF AllocatorOK
<1>14. (O \cup {m}) \cap Freed(new) = {}  BY <1>9, <1>10 DEF AllocatorOK
<1>15. AllocatorOK(new, O \cup {m})
  BY <1>4, <1>10, <1>11, <1>12, <1>13, <1>14 DEF AllocatorOK
<1> QED  BY <1>4, <1>6, <1>9, <1>15 DEF IsSmall

Entry(fence, m) == [fence |-> fence, memory |-> m]

Given(a, r, last) == [a EXCEPT !.retired = Append(@, r), !.last = last]

LEMMA AllocatorRetire ==
    ASSUME NEW a, NEW O, AllocatorOK(a, O), NEW m \in O, NEW fence \in Nat, NEW last
    PROVE  LET new == Given(a, Entry(fence, m), last)
           IN  /\ AllocatorOK(new, O \ {m}) /\ new.id = a.id
               /\ ToSet(new.retired) = ToSet(a.retired) \cup {Entry(fence, m)}
<1> PICK r : r = Entry(fence, m)  OBVIOUS
<1> PICK new : new = Given(a, r, last)  OBVIOUS
<1>1. PICK i, u, t, l, f :
        a = [id |-> i, used |-> u, retired |-> t, last |-> l, free |-> f]
  BY DEF AllocatorOK, AllocatorIs
<1>2. new = [id |-> i, used |-> u, retired |-> Append(t, r), last |-> last, free |-> f]
  BY <1>1 DEF Given
<1>3. /\ new.id = a.id /\ new.used = a.used /\ new.free = a.free
      /\ new.retired = Append(t, r) /\ a.retired = t /\ AllocatorIs(new)
  BY <1>1, <1>2 DEF AllocatorIs
<1>4. IsList(t)  BY <1>3 DEF AllocatorOK, RetiredOK
<1>5. PICK n \in Nat : n = Len(t)  BY <1>4, ListIs
<1>6. PICK s : s = Append(t, r)  OBVIOUS
<1>7. /\ IsList(s) /\ Len(s) = n + 1 /\ s[n + 1] = r
      /\ \A k \in 1..n : s[k] = t[k]
      /\ ToSet(s) = ToSet(t) \cup {r}
  BY <1>4, <1>5, <1>6, ListAppend
<1>8. r.memory = m /\ r.fence = fence  BY DEF Entry
<1>9. Freed(new) = Freed(a) \cup {m}  BY <1>3, <1>6, <1>7, <1>8 DEF Freed
<1>10. \A k \in 1..n : t[k].memory # m
  <2>1. TAKE k \in 1..n
  <2>2. t[k] \in ToSet(a.retired)  BY <1>3, <1>4, <1>5, ListIs
  <2>3. t[k].memory \in Freed(a)  BY <2>2 DEF Freed
  <2> QED  BY <2>3 DEF AllocatorOK
<1>11. RetiredOK(new)
  <2>1. /\ \A k \in 1..n : t[k].fence \in Nat
        /\ \A j, k \in 1..n : t[j].memory = t[k].memory => j = k
    BY <1>3, <1>5 DEF AllocatorOK, RetiredOK
  <2>2. ASSUME NEW k \in 1..(n + 1)  PROVE s[k].fence \in Nat
    <3>1. k \in 1..n \/ k = n + 1  BY <1>5
    <3> QED  BY <1>7, <1>8, <2>1, <3>1
  <2>3. ASSUME NEW j \in 1..(n + 1), NEW k \in 1..(n + 1), s[j].memory = s[k].memory
        PROVE  j = k
    <3>1. (j \in 1..n \/ j = n + 1) /\ (k \in 1..n \/ k = n + 1)  BY <1>5
    <3> QED  BY <1>7, <1>8, <1>10, <2>1, <2>3, <3>1
  <2> QED  BY <1>3, <1>6, <1>7, <2>2, <2>3 DEF RetiredOK
<1>12. (O \ {m}) \cup Freed(new) = O \cup Freed(a)  BY <1>9
<1>13. (O \ {m}) \cap Freed(new) = {}  BY <1>9 DEF AllocatorOK
<1>14. BuddyOK(new, Blocks(O \cup Freed(a)))
  BY <1>3 DEF AllocatorOK, BuddyOK
<1>15. AllocatorOK(new, O \ {m})
  BY <1>3, <1>11, <1>12, <1>13, <1>14 DEF AllocatorOK
<1> QED  BY <1>3, <1>6, <1>7, <1>15

LEMMA AllocatorFree ==
    ASSUME NEW a, NEW O, AllocatorOK(a, O), a.retired # <<>>,
           NEW new, new = DeallocateRetired(a)
    PROVE  /\ AllocatorOK(new, O) /\ new.id = a.id
           /\ ToSet(a.retired) = ToSet(new.retired) \cup {Head(a.retired)}
<1>1. PICK i, u, t, l, f :
        a = [id |-> i, used |-> u, retired |-> t, last |-> l, free |-> f]
  BY DEF AllocatorOK, AllocatorIs
<1>2. PICK s, h, m : s = Tail(t) /\ h = Head(t) /\ m = h.memory  OBVIOUS
<1>3. PICK c : c = [a EXCEPT !.retired = Remaining(@)]  OBVIOUS
<1>4. c = [id |-> i, used |-> u, retired |-> s, last |-> l, free |-> f]
  BY <1>1, <1>2, <1>3 DEF Remaining
<1>5. /\ AllocatorIs(c) /\ c.id = a.id /\ c.used = a.used /\ c.free = a.free
      /\ c.retired = s /\ a.retired = t
  BY <1>1, <1>4 DEF AllocatorIs
<1>6. IsList(t) /\ t # <<>>  BY <1>5 DEF AllocatorOK, RetiredOK
<1>7. PICK n \in Nat : n + 1 = Len(t)
  <2>1. PICK k \in Nat \ {0} : k = Len(t)  BY <1>6, ListTail
  <2>2. PICK n \in Nat : n + 1 = k  BY <2>1
  <2> QED  BY <2>1, <2>2
<1>8. /\ IsList(s) /\ Len(s) = n /\ h = t[1] /\ \A k \in 1..n : s[k] = t[k + 1]
      /\ ToSet(t) = ToSet(s) \cup {h}
  BY <1>2, <1>6, <1>7, ListTail
<1>9. /\ \A k \in 1..(n + 1) : t[k].fence \in Nat
      /\ \A j, k \in 1..(n + 1) : t[j].memory = t[k].memory => j = k
  BY <1>5, <1>7 DEF AllocatorOK, RetiredOK
<1>10. \A k \in 1..n : k + 1 \in 1..(n + 1) /\ k + 1 # 1 /\ 1 \in 1..(n + 1)
  BY <1>7
<1>11. PICK H : H = Blocks(O \cup Freed(a))  OBVIOUS
<1>12. m \in Freed(a) /\ Freed(a) = Freed(c) \cup {m}
  BY <1>2, <1>5, <1>8 DEF Freed
<1>13. m \notin Freed(c)
  <2>1. ASSUME NEW e \in ToSet(s), e.memory = m  PROVE FALSE
    <3>1. PICK k \in 1..n : e = s[k]  BY <1>8, ListIs
    <3>2. t[k + 1].memory = t[1].memory  BY <1>2, <1>8, <2>1, <3>1
    <3> QED  BY <1>9, <1>10, <3>2
  <2> QED  BY <1>5, <2>1 DEF Freed
<1>14. m \notin O  BY <1>12 DEF AllocatorOK
<1>15. m.block \in H  BY <1>11, <1>12 DEF Blocks
<1>16. BuddyOK(c, H)  BY <1>5, <1>11 DEF AllocatorOK, BuddyOK
<1>17. new = DeallocateBlock(c, m.block)
  BY <1>2, <1>3, <1>5 DEF DeallocateRetired
<1>18. /\ AllocatorIs(new) /\ BuddyOK(new, H \ {m.block})
       /\ new.id = a.id /\ new.retired = s
  <2>1. PICK b : b = m.block  OBVIOUS
  <2>2. b \in H /\ new = DeallocateBlock(c, b) /\ AllocatorIs(c)  BY <1>5, <1>15, <1>17, <2>1
  <2>3. /\ AllocatorIs(new) /\ BuddyOK(new, H \ {b})
        /\ new.id = c.id /\ new.retired = c.retired
    BY <1>16, <2>2, BuddyFree
  <2> QED  BY <1>5, <2>1, <2>3
<1>19. Freed(new) = Freed(c)  BY <1>5, <1>18 DEF Freed
<1>20. Blocks(O \cup Freed(new)) = H \ {m.block}
  <2>1. \A x \in O \cup Freed(c) : x.block # m.block
    BY <1>12, <1>13, <1>14 DEF AllocatorOK, BlockEach
  <2> QED  BY <1>11, <1>12, <1>19, <2>1 DEF Blocks
<1>21. RetiredOK(new)
  <2>1. \A k \in 1..n : s[k].fence \in Nat  BY <1>8, <1>9, <1>10
  <2>2. ASSUME NEW j \in 1..n, NEW k \in 1..n, s[j].memory = s[k].memory
        PROVE  j = k
    <3>1. t[j + 1].memory = t[k + 1].memory  BY <1>8, <2>2
    <3>2. j + 1 = k + 1  BY <1>9, <1>10, <3>1
    <3> QED  BY <3>2
  <2> QED  BY <1>8, <1>18, <2>1, <2>2 DEF RetiredOK
<1>22. AllocatorOK(new, O)
  <2>1. O \cap Freed(new) = {} /\ O \cup Freed(new) \subseteq O \cup Freed(a)
    BY <1>12, <1>19 DEF AllocatorOK
  <2>2. /\ \A x \in O \cup Freed(new) : IsSmall(x, new.id)
        /\ BlockEach(O \cup Freed(new))
    BY <1>18, <2>1 DEF AllocatorOK, BlockEach
  <2> QED  BY <1>18, <1>20, <1>21, <2>1, <2>2 DEF AllocatorOK
<1> QED  BY <1>2, <1>5, <1>8, <1>18, <1>22

\* An allocator that counts nothing as used is nobody's.
LEMMA AllocatorIdle ==
    ASSUME NEW a, NEW O, AllocatorOK(a, O), NothingUsed(a)
    PROVE  O = {} /\ a.retired = <<>>
<1>1. Blocks(O \cup Freed(a)) = {}  BY BuddyUsed DEF AllocatorOK
<1>2. O \cup Freed(a) = {}  BY <1>1 DEF Blocks
<1>3. ToSet(a.retired) = {}  BY <1>2 DEF Freed
<1>4. IsList(a.retired)  BY DEF AllocatorOK, RetiredOK
<1>5. CASE a.retired # <<>>
  <2>1. Head(a.retired) \in ToSet(a.retired)  BY <1>4, <1>5, ListTail
  <2> QED  BY <1>3, <2>1
<1> QED  BY <1>2, <1>5

-----------------------------------------------------------------------------
(***************************************************************************)
(* The list of buddy allocators, and the memory O of the small heap that   *)
(* is owned.                                                               *)
(***************************************************************************)
OwnedOf(id, O) == {m \in O : m.at = id}

SmallOK(list, O) ==
    /\ IsList(list)
    /\ \A i, j \in 1..Len(list) : list[i].id = list[j].id => i = j
    /\ \A i \in 1..Len(list) : AllocatorOK(list[i], OwnedOf(list[i].id, O))
    /\ \A m \in O : m.heap = "small" /\ \E i \in 1..Len(list) : list[i].id = m.at

\* Memory m was given back with a fence of f or later.
RetiredIn(list, m, f) ==
    \E i \in 1..Len(list) : \E r \in ToSet(list[i].retired) :
        r.memory = m /\ f <= r.fence

LEMMA ListMake ==
    ASSUME NEW n \in Nat, NEW s, s = [i \in 1..n |-> s[i]]
    PROVE  IsList(s) /\ Len(s) = n /\ DOMAIN s = 1..n
<1>1. DOMAIN s = 1..n  OBVIOUS
<1>2. s \in [1..n -> ToSet(s)]  BY <1>1 DEF ToSet
<1>3. s \in Seq(ToSet(s))  BY <1>2
<1>4. Len(s) = n  BY <1>1, <1>3
<1> QED  BY <1>1, <1>3, <1>4 DEF IsList

LEMMA ListFinite ==
    ASSUME NEW s, IsList(s)
    PROVE  IsFiniteSet(ToSet(s))
<1>1. Len(s) \in Nat /\ DOMAIN s = 1..Len(s) /\ s \in [1..Len(s) -> ToSet(s)]
  BY ListIs
<1>2. IsFiniteSet(1..Len(s))  BY <1>1, FS_Interval
<1>3. s \in Surjection(1..Len(s), ToSet(s))
  BY <1>1, ListIs DEF Surjection
<1> QED  BY <1>2, <1>3, FS_Surjection

\* One allocator of the list is replaced, the memory of the others is left alone.
LEMMA SmallReplace ==
    ASSUME NEW list, NEW O, SmallOK(list, O), NEW i \in 1..Len(list),
           NEW new, new.id = list[i].id, NEW P, AllocatorOK(new, OwnedOf(new.id, P)),
           \A m \in P : m.heap = "small",
           \A m : m.at # new.id => (m \in P <=> m \in O),
           NEW t, t = [j \in 1..Len(list) |-> IF j = i THEN new ELSE list[j]]
    PROVE  SmallOK(t, P)
<1>1. PICK n \in Nat : n = Len(list)  BY ListIs DEF SmallOK
<1>2. IsList(t) /\ Len(t) = n
  <2>1. t = [j \in 1..n |-> t[j]]  BY <1>1
  <2> QED  BY <1>1, <2>1, ListMake
<1>3. t[i] = new /\ \A j \in 1..n : j # i => t[j] = list[j]  BY <1>1
<1>4. \A j \in 1..n : t[j].id = list[j].id  BY <1>3
<1>5. \A j, k \in 1..n : list[j].id = list[k].id => j = k  BY <1>1 DEF SmallOK
<1>6. ASSUME NEW j \in 1..n
      PROVE  AllocatorOK(t[j], OwnedOf(t[j].id, P))
  <2>1. CASE j = i  BY <1>3, <2>1
  <2>2. CASE j # i
    <3>1. t[j].id # new.id  BY <1>1, <1>3, <1>5, <2>2
    <3>2. OwnedOf(t[j].id, P) = OwnedOf(t[j].id, O)  BY <3>1 DEF OwnedOf
    <3> QED  BY <1>1, <1>3, <2>2, <3>2 DEF SmallOK
  <2> QED  BY <2>1, <2>2
<1>7. ASSUME NEW m \in P  PROVE \E j \in 1..n : t[j].id = m.at
  <2>1. CASE m.at = new.id  BY <1>1, <1>3, <2>1
  <2>2. CASE m.at # new.id
    <3>1. m \in O  BY <2>2
    <3>2. PICK j \in 1..n : list[j].id = m.at  BY <1>1, <3>1 DEF SmallOK
    <3> QED  BY <1>4, <3>2
  <2> QED  BY <2>1, <2>2
<1>8. \A j, k \in 1..n : t[j].id = t[k].id => j = k  BY <1>4, <1>5
<1>9. \A m \in P : m.heap = "small" /\ \E j \in 1..n : t[j].id = m.at  BY <1>7
<1> QED  BY <1>2, <1>6, <1>8, <1>9 DEF SmallOK

LEMMA SmallAppend ==
    ASSUME NEW list, NEW O, SmallOK(list, O)
    PROVE  LET new == NewAllocator(UnusedNumber(ToSet(list)))
           IN  /\ SmallOK(Append(list, new), O)
               /\ \A m, f : RetiredIn(list, m, f) => RetiredIn(Append(list, new), m, f)
<1>1. PICK id : id = UnusedNumber(ToSet(list))  OBVIOUS
<1>2. PICK new : new = NewAllocator(id)  OBVIOUS
<1>3. IsList(list)  BY DEF SmallOK
<1>4. PICK n \in Nat : n = Len(list)  BY <1>3, ListIs
<1>5. \A a \in ToSet(list) : a.id # id  BY <1>1, <1>3, ListFinite, UnusedIs
<1>6. \A i \in 1..n : list[i].id # id  BY <1>3, <1>4, <1>5, ListIs
<1>7. AllocatorOK(new, {}) /\ new.id = id  BY <1>2, AllocatorNew
<1>8. PICK t : t = Append(list, new)  OBVIOUS
<1>9. /\ IsList(t) /\ Len(t) = n + 1 /\ t[n + 1] = new
      /\ \A i \in 1..n : t[i] = list[i]
  BY <1>3, <1>4, <1>8, ListAppend
<1>10. \A i \in 1..(n + 1) : i \in 1..n \/ i = n + 1  BY <1>4
<1>11. \A i, j \in 1..(n + 1) : t[i].id = t[j].id => i = j
  <2>1. \A i, j \in 1..n : list[i].id = list[j].id => i = j  BY <1>4 DEF SmallOK
  <2> QED  BY <1>6, <1>7, <1>9, <1>10, <2>1
<1>12. ASSUME NEW m \in O
       PROVE  m.heap = "small" /\ \E i \in 1..n : list[i].id = m.at
  BY <1>4 DEF SmallOK
<1>13. OwnedOf(id, O) = {}  BY <1>6, <1>12 DEF OwnedOf
<1>14. \A i \in 1..n : i \in 1..(n + 1)  BY <1>4
<1>15. \A i \in 1..(n + 1) : AllocatorOK(t[i], OwnedOf(t[i].id, O))
  <2>1. \A i \in 1..n : AllocatorOK(list[i], OwnedOf(list[i].id, O))
    BY <1>4 DEF SmallOK
  <2> QED  BY <1>7, <1>9, <1>10, <1>13, <2>1
<1>16. SmallOK(t, O)
  <2>1. \A m \in O : m.heap = "small" /\ \E i \in 1..(n + 1) : t[i].id = m.at
    BY <1>9, <1>12, <1>14
  <2> QED  BY <1>9, <1>11, <1>15, <2>1 DEF SmallOK
<1>17. ASSUME NEW m, NEW f, RetiredIn(list, m, f)  PROVE RetiredIn(t, m, f)
  <2>1. PICK i \in 1..n : \E r \in ToSet(list[i].retired) : r.memory = m /\ f <= r.fence
    BY <1>4, <1>17 DEF RetiredIn
  <2> QED  BY <1>9, <1>14, <2>1 DEF RetiredIn
<1> QED  BY <1>1, <1>2, <1>8, <1>16, <1>17

LEMMA SmallAllocate ==
    ASSUME NEW O, SmallOK(small, O), NEW size \in Nat, NEW align \in Nat \ {0},
           NEW a \in SmallAllocations(size, align)
    PROVE  /\ SmallOK(a.small, O \cup {a.memory})
           /\ a.memory \notin O /\ a.memory.heap = "small"
           /\ \A m, f : RetiredIn(small, m, f) => RetiredIn(a.small, m, f)
<1>1. PICK list : list = WithRoom(size, align)  OBVIOUS
<1>2. SmallOK(list, O) /\ \A m, f : RetiredIn(small, m, f) => RetiredIn(list, m, f)
  BY <1>1, SmallAppend DEF WithRoom
<1>3. PICK n \in Nat : n = Len(list) /\ DOMAIN list = 1..n  BY <1>2, ListIs DEF SmallOK
<1>4. PICK i \in FirstRoom(list, size, align) :
        /\ a.small = [list EXCEPT ![i] = AllocateBlock(@, size, align)]
        /\ a.memory = SmallMemory(list[i], size, align)
  <2>1. PICK i \in FirstRoom(list, size, align) :
          a = [small |-> [list EXCEPT ![i] = AllocateBlock(@, size, align)],
               pools |-> pools, order |-> order,
               memory |-> SmallMemory(list[i], size, align)]
    BY <1>1 DEF SmallAllocations
  <2> QED  BY <2>1
<1>5. i \in 1..n /\ CanAllocate(list[i], size, align)
  BY <1>3, <1>4 DEF FirstRoom, RoomFor
<1>6. PICK b, m, new : b = list[i] /\ m = SmallMemory(b, size, align)
                       /\ new = AllocateBlock(b, size, align)
  OBVIOUS
<1>7. PICK Q : Q = OwnedOf(b.id, O)  OBVIOUS
<1>8. AllocatorOK(b, Q)  BY <1>2, <1>3, <1>5, <1>6, <1>7 DEF SmallOK
<1>9. /\ AllocatorOK(new, Q \cup {m}) /\ new.id = b.id /\ new.retired = b.retired
      /\ m \notin Q /\ m.heap = "small" /\ m.at = b.id
  BY <1>5, <1>6, <1>8, AllocatorTake
<1>10. m \notin O  BY <1>7, <1>9 DEF OwnedOf
<1>11. PICK t : t = [j \in 1..n |-> IF j = i THEN new ELSE list[j]]  OBVIOUS
<1>12. a.small = t
  <2>1. IsList(list)  BY <1>2 DEF SmallOK
  <2>2. list \in [1..n -> ToSet(list)]  BY <1>3, <2>1, ListIs
  <2> QED  BY <1>4, <1>5, <1>6, <1>11, <2>2
<1>13. OwnedOf(new.id, O \cup {m}) = Q \cup {m}  BY <1>7, <1>9 DEF OwnedOf
<1>14. \A x \in O \cup {m} : x.heap = "small"  BY <1>2, <1>9 DEF SmallOK
<1>15. \A x : x.at # new.id => (x \in O \cup {m} <=> x \in O)  BY <1>9
<1>16. AllocatorOK(new, OwnedOf(new.id, O \cup {m}))  BY <1>9, <1>13
<1>17. SmallOK(t, O \cup {m})
  <2>1. new.id = list[i].id /\ i \in 1..Len(list)  BY <1>3, <1>5, <1>6, <1>9
  <2>2. t = [j \in 1..Len(list) |-> IF j = i THEN new ELSE list[j]]  BY <1>3, <1>11
  <2>3. PICK P : P = O \cup {m}  OBVIOUS
  <2> QED  BY <1>2, <1>14, <1>15, <1>16, <2>1, <2>2, <2>3, SmallReplace
<1>18. ASSUME NEW x, NEW f, RetiredIn(list, x, f)  PROVE RetiredIn(t, x, f)
  <2>1. PICK j \in 1..n : \E r \in ToSet(list[j].retired) : r.memory = x /\ f <= r.fence
    BY <1>3, <1>18 DEF RetiredIn
  <2>2. t[j].retired = list[j].retired  BY <1>6, <1>9, <1>11
  <2>3. Len(t) = n
    <3>1. t = [j_1 \in 1..n |-> t[j_1]]  BY <1>11
    <3> QED  BY <3>1, ListMake
  <2> QED  BY <2>1, <2>2, <2>3 DEF RetiredIn
<1>19. a.memory = m  BY <1>4, <1>6
<1>20. a.memory = m /\ a.small = t  BY <1>12, <1>19
<1>21. /\ SmallOK(t, O \cup {m}) /\ m \notin O /\ m.heap = "small"
       /\ \A x, f : RetiredIn(small, x, f) => RetiredIn(t, x, f)
  BY <1>2, <1>9, <1>10, <1>17, <1>18
<1> QED  BY <1>20, <1>21

LEMMA SmallRetire ==
    ASSUME NEW O, SmallOK(small, O), frame \in Nat, NEW m \in O, GiveBackSmall(m)
    PROVE  /\ SmallOK(small', O \ {m})
           /\ RetiredIn(small', m, frame)
           /\ \A x, f : RetiredIn(small, x, f) => RetiredIn(small', x, f)
<1>1. IsList(small)  BY DEF SmallOK
<1>2. PICK n \in Nat : n = Len(small) /\ DOMAIN small = 1..n  BY <1>1, ListIs
<1>3. PICK i \in 1..n : small[i].id = m.at  BY <1>2 DEF SmallOK
<1>4. \A j \in 1..n : small[j].id = m.at => j = i  BY <1>2, <1>3 DEF SmallOK
<1>5. PICK a, r, l : /\ a = small[i] /\ r = Entry(frame, m)
                     /\ l = Latest(a.last, frame)
  OBVIOUS
<1>6. PICK new : new = Given(a, r, l)  OBVIOUS
<1>7. PICK t : t = [j \in 1..n |-> IF j = i THEN new ELSE small[j]]  OBVIOUS
<1>8. small' = t
  <2>1. small' = [j \in 1..n |-> IF small[j].id # m.at THEN small[j]
                    ELSE [small[j] EXCEPT
                            !.retired = Append(@, [fence |-> frame, memory |-> m]),
                            !.last = Latest(@, frame)]]
    BY <1>2 DEF GiveBackSmall, RetireFence
  <2>2. new = [small[i] EXCEPT
                 !.retired = Append(@, [fence |-> frame, memory |-> m]),
                 !.last = Latest(@, frame)]
    BY <1>5, <1>6 DEF Given, Entry
  <2> QED  BY <1>3, <1>4, <1>7, <2>1, <2>2
<1>9. PICK Q : Q = OwnedOf(a.id, O)  OBVIOUS
<1>10. AllocatorOK(a, Q)  BY <1>2, <1>5, <1>9 DEF SmallOK
<1>11. m \in Q  BY <1>3, <1>5, <1>9 DEF OwnedOf
<1>12. /\ AllocatorOK(new, Q \ {m}) /\ new.id = a.id
       /\ ToSet(new.retired) = ToSet(a.retired) \cup {r}
  <2>1. PICK g \in Nat : g = frame  OBVIOUS
  <2>2. new = Given(a, Entry(g, m), l) /\ r = Entry(g, m)  BY <1>5, <1>6, <2>1
  <2> QED  BY <1>10, <1>11, <2>2, AllocatorRetire
<1>13. PICK P : P = O \ {m}  OBVIOUS
<1>14. OwnedOf(new.id, P) = Q \ {m}  BY <1>9, <1>12, <1>13 DEF OwnedOf
<1>15. \A x \in P : x.heap = "small"  BY <1>13 DEF SmallOK
<1>16. \A x : x.at # new.id => (x \in P <=> x \in O)  BY <1>3, <1>5, <1>12, <1>13
<1>17. SmallOK(t, P)
  <2>1. new.id = small[i].id /\ i \in 1..Len(small)  BY <1>2, <1>5, <1>12
  <2>2. t = [j \in 1..Len(small) |-> IF j = i THEN new ELSE small[j]]  BY <1>2, <1>7
  <2>3. AllocatorOK(new, OwnedOf(new.id, P))  BY <1>12, <1>14
  <2> QED  BY <1>15, <1>16, <2>1, <2>2, <2>3, SmallReplace
<1>18. Len(t) = n
  <2>1. t = [j \in 1..n |-> t[j]]  BY <1>7
  <2> QED  BY <2>1, ListMake
<1>19. RetiredIn(t, m, frame)
  <2>1. r.memory = m /\ frame <= r.fence /\ r \in ToSet(t[i].retired)
    BY <1>5, <1>7, <1>12 DEF Entry
  <2> QED  BY <1>18, <2>1 DEF RetiredIn
<1>20. ASSUME NEW x, NEW f, RetiredIn(small, x, f)  PROVE RetiredIn(t, x, f)
  <2>1. PICK j \in 1..n : \E e \in ToSet(small[j].retired) : e.memory = x /\ f <= e.fence
    BY <1>2, <1>20 DEF RetiredIn
  <2>2. ToSet(small[j].retired) \subseteq ToSet(t[j].retired)
    BY <1>5, <1>7, <1>12
  <2> QED  BY <1>18, <2>1, <2>2 DEF RetiredIn
<1> QED  BY <1>8, <1>13, <1>17, <1>19, <1>20

LEMMA SmallFree ==
    ASSUME NEW O, SmallOK(small, O), completed \in Nat, FreeRetired
    PROVE  /\ SmallOK(small', O)
           /\ \A x : \A f \in Nat :
                completed < f /\ RetiredIn(small, x, f) => RetiredIn(small', x, f)
<1>1. IsList(small)  BY DEF SmallOK
<1>2. PICK n \in Nat : n = Len(small) /\ DOMAIN small = 1..n  BY <1>1, ListIs
<1>3. /\ small' = [small EXCEPT ![visit] = DeallocateRetired(@)]
      /\ MayFree(small[visit].retired)
  BY DEF FreeRetired
<1>4. small = [j \in 1..n |-> small[j]]
  <2>1. small \in [1..n -> ToSet(small)]  BY <1>1, <1>2, ListIs
  <2> QED  BY <2>1
<1>5. CASE visit \notin 1..n
  <2>1. small' = small  BY <1>3, <1>4, <1>5
  <2> QED  BY <2>1
<1>6. CASE visit \in 1..n
  <2>1. PICK a, new : a = small[visit] /\ new = DeallocateRetired(a)  OBVIOUS
  <2>2. PICK t : t = [j \in 1..n |-> IF j = visit THEN new ELSE small[j]]  OBVIOUS
  <2>3. small' = t  BY <1>3, <1>4, <1>6, <2>1, <2>2
  <2>4. PICK Q : Q = OwnedOf(a.id, O)  OBVIOUS
  <2>5. AllocatorOK(a, Q)  BY <1>2, <1>6, <2>1, <2>4 DEF SmallOK
  <2>6. a.retired # <<>> /\ Head(a.retired).fence <= completed
    BY <1>3, <2>1 DEF MayFree, IsFenceComplete
  <2>7. /\ AllocatorOK(new, Q) /\ new.id = a.id
        /\ ToSet(a.retired) = ToSet(new.retired) \cup {Head(a.retired)}
    BY <2>1, <2>5, <2>6, AllocatorFree
  <2>8. SmallOK(t, O)
    <3>1. new.id = small[visit].id /\ visit \in 1..Len(small)
      BY <1>2, <1>6, <2>1, <2>7
    <3>2. t = [j \in 1..Len(small) |-> IF j = visit THEN new ELSE small[j]]
      BY <1>2, <2>2
    <3>3. AllocatorOK(new, OwnedOf(new.id, O))  BY <2>4, <2>7
    <3>4. \A x \in O : x.heap = "small"  BY DEF SmallOK
    <3> QED  BY <3>1, <3>2, <3>3, <3>4, SmallReplace
  <2>9. Len(t) = n
    <3>1. t = [j \in 1..n |-> t[j]]  BY <2>2
    <3> QED  BY <3>1, ListMake
  <2>10. ASSUME NEW x, NEW f \in Nat, completed < f, RetiredIn(small, x, f)
         PROVE  RetiredIn(t, x, f)
    <3> PICK j \in 1..n : \E r \in ToSet(small[j].retired) :
                                r.memory = x /\ f <= r.fence
      BY <1>2, <2>10 DEF RetiredIn
    <3>1. PICK r \in ToSet(small[j].retired) : r.memory = x /\ f <= r.fence
      OBVIOUS
    <3>2. r \in ToSet(t[j].retired)
      <4>1. CASE j # visit  BY <2>2, <3>1, <4>1
      <4>2. CASE j = visit
        <5>1. r \in ToSet(new.retired) \/ r = Head(a.retired)
          BY <2>1, <2>7, <3>1, <4>2
        <5>2. r # Head(a.retired)
          <6>1. r.fence \in Nat
            <7>1. r \in ToSet(a.retired) /\ IsList(a.retired)
              BY <2>1, <2>5, <3>1, <4>2 DEF AllocatorOK, RetiredOK
            <7>2. PICK k \in 1..Len(a.retired) : r = a.retired[k]  BY <7>1, ListIs
            <7> QED  BY <2>5, <7>2 DEF AllocatorOK, RetiredOK
          <6> QED  BY <2>6, <2>10, <3>1, <6>1
        <5> QED  BY <2>2, <4>2, <5>1, <5>2
      <4> QED  BY <4>1, <4>2
    <3> QED  BY <2>9, <3>1, <3>2 DEF RetiredIn
  <2> QED  BY <2>3, <2>8, <2>10
<1> QED  BY <1>5, <1>6

\* What stays of a list, in its order.
PutInOrder(f, c, I) ==
    /\ f \in [1..c -> I]
    /\ \A j, k \in 1..c : f[j] = f[k] => j = k
    /\ \A i \in I : \E k \in 1..c : f[k] = i

LEMMA InOrderIs ==
    ASSUME NEW n \in Nat, NEW I, I \subseteq 1..n, NEW f \in InOrder(I)
    PROVE  Cardinality(I) \in Nat /\ PutInOrder(f, Cardinality(I), I)
<1>1. IsFiniteSet(1..n)  BY FS_Interval
<1>2. IsFiniteSet(I)  BY <1>1, FS_Subset
<1>3. PICK c \in Nat : c = Cardinality(I)  BY <1>2, FS_CardinalityType
<1>4. /\ f \in [1..c -> I]
      /\ \A j, k \in 1..c : j < k => f[j] < f[k]
  BY <1>3 DEF InOrder
<1>5. \A j, k \in 1..c : f[j] = f[k] => j = k
  <2> SUFFICES ASSUME NEW j \in 1..c, NEW k \in 1..c, f[j] = f[k], j # k
               PROVE  FALSE
    OBVIOUS
  <2>1. f[j] \in 1..n /\ f[k] \in 1..n  BY <1>4
  <2>2. j < k \/ k < j  OBVIOUS
  <2> QED  BY <1>4, <2>1, <2>2
<1>6. f \in Injection(1..c, I)  BY <1>4, <1>5 DEF Injection, IsInjective
<1>7. 1 \in Int /\ c \in Int  OBVIOUS
<1>8. IsFiniteSet(1..c) /\ Cardinality(1..c) = IF 1 > c THEN 0 ELSE c - 1 + 1
  BY <1>7, FS_Interval
<1>9. Cardinality(1..c) = c  BY <1>8
<1>10. f \in Surjection(1..c, I)  BY <1>2, <1>3, <1>6, <1>9, FS_Injection
<1>11. \A i \in I : \E k \in 1..c : f[k] = i  BY <1>10 DEF Surjection
<1> QED  BY <1>3, <1>4, <1>5, <1>11 DEF PutInOrder

LEMMA SmallTrim ==
    ASSUME NEW O, SmallOK(small, O), TrimSmall
    PROVE  /\ SmallOK(small', O)
           /\ \A x, f : RetiredIn(small, x, f) => RetiredIn(small', x, f)
<1>1. IsList(small)  BY DEF SmallOK
<1>2. PICK n \in Nat : n = Len(small) /\ DOMAIN small = 1..n  BY <1>1, ListIs
<1>3. PICK I : I = {i \in 1..n : SmallStays(small[i])}  OBVIOUS
<1> PICK f \in InOrder(I) : small' = [k \in DOMAIN f |-> small[f[k]]]
  BY <1>2, <1>3 DEF TrimSmall
<1> I \subseteq 1..n  BY <1>3
<1>4. small' = [k \in DOMAIN f |-> small[f[k]]]  OBVIOUS
<1>5. PICK c \in Nat : c = Cardinality(I)  BY InOrderIs
<1>6. /\ f \in [1..c -> I]
      /\ \A j, k \in 1..c : f[j] = f[k] => j = k
      /\ \A i \in I : \E k \in 1..c : f[k] = i
  <2>1. PutInOrder(f, c, I)  BY <1>5, InOrderIs
  <2> QED  BY <2>1 DEF PutInOrder
<1>7. PICK t : t = [k \in 1..c |-> small[f[k]]]  OBVIOUS
<1>8. small' = t  BY <1>4, <1>6, <1>7
<1>9. IsList(t) /\ Len(t) = c
  <2>1. t = [k \in 1..c |-> t[k]]  BY <1>7
  <2> QED  BY <2>1, ListMake
<1>10. \A k \in 1..c : f[k] \in 1..n /\ t[k] = small[f[k]]  BY <1>3, <1>6, <1>7
<1>11. \A j, k \in 1..c : t[j].id = t[k].id => j = k
  <2>1. \A i, j \in 1..n : small[i].id = small[j].id => i = j  BY <1>2 DEF SmallOK
  <2> QED  BY <1>6, <1>10, <2>1
<1>12. \A k \in 1..c : AllocatorOK(t[k], OwnedOf(t[k].id, O))
  BY <1>2, <1>10 DEF SmallOK
\* What is owned or was given back keeps its allocator in the list.
<1>13. ASSUME NEW i \in 1..n,
              OwnedOf(small[i].id, O) # {} \/ small[i].retired # <<>>
       PROVE  \E k \in 1..c : t[k] = small[i]
  <2>1. AllocatorOK(small[i], OwnedOf(small[i].id, O))  BY <1>2 DEF SmallOK
  <2>2. ~ NothingUsed(small[i])  BY <1>13, <2>1, AllocatorIdle
  <2>3. i \in I  BY <1>3, <2>2 DEF SmallStays
  <2> QED  BY <1>6, <1>10, <2>3
<1>14. \A m \in O : m.heap = "small" /\ \E k \in 1..c : t[k].id = m.at
  <2>1. TAKE m \in O
  <2>2. PICK i \in 1..n : small[i].id = m.at  BY <1>2 DEF SmallOK
  <2>3. m \in OwnedOf(small[i].id, O)  BY <2>2 DEF OwnedOf
  <2>4. PICK k \in 1..c : t[k] = small[i]  BY <1>13, <2>3
  <2>5. m.heap = "small"  BY DEF SmallOK
  <2> QED  BY <2>2, <2>4, <2>5
<1>15. SmallOK(t, O)  BY <1>9, <1>11, <1>12, <1>14 DEF SmallOK
<1>16. ASSUME NEW x, NEW g, RetiredIn(small, x, g)  PROVE RetiredIn(t, x, g)
  <2> PICK i \in 1..n : \E r \in ToSet(small[i].retired) :
                            r.memory = x /\ g <= r.fence
    BY <1>2, <1>16 DEF RetiredIn
  <2>1. PICK r \in ToSet(small[i].retired) : r.memory = x /\ g <= r.fence
    OBVIOUS
  <2>2. small[i].retired # <<>>  BY <2>1, EmptyList
  <2>3. PICK k \in 1..c : t[k] = small[i]  BY <1>13, <2>2
  <2> QED  BY <1>9, <2>1, <2>3 DEF RetiredIn
<1> QED  BY <1>8, <1>15, <1>16

-----------------------------------------------------------------------------
(***************************************************************************)
(* Who owns memory of a heap: the locations of the buffers and the         *)
(* commands that carry memory with them, each memory in one place only.    *)
(***************************************************************************)
Heaps == {"small", "big"}

Carries(e, h) == e.op \in {"rename", "copy"} /\ e.memory.heap = h

\* The memory of a command, when it carries some; of a heap, when it is of it.
Brought(e, h) == {x \in {e.memory} : Carries(e, h)}

Only(m, h) == {x \in {m} : m.heap = h}

CarriedOf(c, h) == {c[i].memory : i \in {i \in 1..Len(c) : Carries(c[i], h)}}

LocatedOf(loc, h) == {loc[b] : b \in {b \in Buffers : loc[b].heap = h}}

OwnBy(loc, c, h) == LocatedOf(loc, h) \cup CarriedOf(c, h)

Own(h) == {m \in Owned : m.heap = h}

Ledger(loc, c, h) ==
    /\ \A a, b \in Buffers : loc[a].heap = h /\ loc[a] = loc[b] => a = b
    /\ \A i, j \in 1..Len(c) :
        Carries(c[i], h) /\ Carries(c[j], h) /\ c[i].memory = c[j].memory => i = j
    /\ LocatedOf(loc, h) \cap CarriedOf(c, h) = {}

LEMMA OwnIs ==
    ASSUME IsList(commands), NEW h \in Heaps
    PROVE  Own(h) = OwnBy(location, commands, h)
<1>1. DOMAIN commands = 1..Len(commands)  BY ListIs
<1>2. {m \in Carried : m.heap = h} = CarriedOf(commands, h)
  <2>1. Carried = {c.memory : c \in {c \in ToSet(commands) : c.op \in {"rename", "copy"}}}
    BY DEF Carried
  <2>2. ToSet(commands) = {commands[i] : i \in 1..Len(commands)}  BY <1>1 DEF ToSet
  <2> QED  BY <2>1, <2>2 DEF CarriedOf, Carries
<1>3. \A m : m.heap = h => m # NoBlock  BY DEF NoBlock, Heaps
<1>4. {m \in {location[b] : b \in Buffers} : m.heap = h} = LocatedOf(location, h)
  BY DEF LocatedOf
<1> QED  BY <1>2, <1>3, <1>4 DEF Own, Owned, OwnBy

LEMMA CarryAppend ==
    ASSUME NEW c, IsList(c), NEW e, NEW h
    PROVE  CarriedOf(Append(c, e), h) =
             CarriedOf(c, h) \cup Brought(e, h)
<1>1. PICK n \in Nat : n = Len(c)  BY ListIs
<1>2. PICK d : d = Append(c, e)  OBVIOUS
<1>3. Len(d) = n + 1 /\ d[n + 1] = e /\ \A i \in 1..n : d[i] = c[i]
  BY <1>1, <1>2, ListAppend
<1>4. \A i : i \in 1..(n + 1) <=> i \in 1..n \/ i = n + 1  OBVIOUS
<1>5. CarriedOf(d, h) = {d[i].memory : i \in {i \in 1..(n + 1) : Carries(d[i], h)}}
  BY <1>3 DEF CarriedOf
<1>6. CarriedOf(c, h) = {c[i].memory : i \in {i \in 1..n : Carries(c[i], h)}}
  BY <1>1 DEF CarriedOf
<1>7. ASSUME NEW m \in CarriedOf(d, h)
      PROVE  m \in CarriedOf(c, h) \cup Brought(e, h)
  <2>1. PICK i \in 1..(n + 1) : Carries(d[i], h) /\ m = d[i].memory  BY <1>5
  <2> QED  BY <1>3, <1>4, <1>6, <2>1 DEF Brought
<1>8. ASSUME NEW m \in CarriedOf(c, h)  PROVE m \in CarriedOf(d, h)
  <2>1. PICK i \in 1..n : Carries(c[i], h) /\ m = c[i].memory  BY <1>6
  <2>2. i \in 1..(n + 1) /\ d[i] = c[i]  BY <1>3
  <2> QED  BY <1>5, <2>1, <2>2
<1>9. ASSUME Carries(e, h)  PROVE e.memory \in CarriedOf(d, h)
  <2>1. n + 1 \in 1..(n + 1)  OBVIOUS
  <2> QED  BY <1>3, <1>5, <1>9, <2>1
<1> QED  BY <1>2, <1>7, <1>8, <1>9 DEF Brought

LEMMA LedgerAppend ==
    ASSUME NEW loc, NEW c, IsList(c), NEW e, NEW h, Ledger(loc, c, h),
           Carries(e, h) => e.memory \notin OwnBy(loc, c, h)
    PROVE  Ledger(loc, Append(c, e), h)
<1>1. PICK n \in Nat : n = Len(c)  BY ListIs
<1>2. PICK d : d = Append(c, e)  OBVIOUS
<1>3. Len(d) = n + 1 /\ d[n + 1] = e /\ \A i \in 1..n : d[i] = c[i]
  BY <1>1, <1>2, ListAppend
<1>4. \A i \in 1..(n + 1) : i \in 1..n \/ i = n + 1  OBVIOUS
<1>5. \A i \in 1..n : Carries(c[i], h) => c[i].memory \in CarriedOf(c, h)
  BY <1>1 DEF CarriedOf
<1>6. \A i, j \in 1..n :
        Carries(c[i], h) /\ Carries(c[j], h) /\ c[i].memory = c[j].memory => i = j
  BY <1>1 DEF Ledger
<1>7. \A i \in 1..n : Carries(e, h) /\ Carries(c[i], h) => c[i].memory # e.memory
  BY <1>5 DEF OwnBy
<1>8. \A i, j \in 1..(n + 1) :
        Carries(d[i], h) /\ Carries(d[j], h) /\ d[i].memory = d[j].memory => i = j
  BY <1>3, <1>4, <1>6, <1>7
<1>9. LocatedOf(loc, h) \cap CarriedOf(d, h) = {}
  BY <1>2, CarryAppend DEF Ledger, OwnBy, Brought
<1> QED  BY <1>2, <1>3, <1>8, <1>9 DEF Ledger

LEMMA LedgerTail ==
    ASSUME NEW loc, NEW c, IsList(c), c # <<>>, NEW h
    PROVE  /\ CarriedOf(c, h) =
                CarriedOf(Tail(c), h) \cup Brought(Head(c), h)
           /\ Ledger(loc, c, h) =>
                /\ Ledger(loc, Tail(c), h)
                /\ Carries(Head(c), h) => Head(c).memory \notin OwnBy(loc, Tail(c), h)
<1>1. PICK n \in Nat \ {0} : n = Len(c)  BY ListTail
<1>2. PICK d, e : d = Tail(c) /\ e = Head(c)  OBVIOUS
<1>3. /\ Len(d) = n - 1 /\ e = c[1]
      /\ \A i \in 1..(n - 1) : d[i] = c[i + 1]
  BY <1>1, <1>2, ListTail
<1>4. \A i \in 1..n : i = 1 \/ (i - 1 \in 1..(n - 1) /\ (i - 1) + 1 = i)  OBVIOUS
<1>5. \A i \in 1..(n - 1) : i + 1 \in 1..n /\ i + 1 # 1  OBVIOUS
<1>6. 1 \in 1..n  OBVIOUS
<1>7. CarriedOf(d, h) = {d[i].memory : i \in {i \in 1..(n - 1) : Carries(d[i], h)}}
  BY <1>3 DEF CarriedOf
<1>8. CarriedOf(c, h) = {c[i].memory : i \in {i \in 1..n : Carries(c[i], h)}}
  BY <1>1 DEF CarriedOf
<1>9. ASSUME NEW m \in CarriedOf(c, h)
      PROVE  m \in CarriedOf(d, h) \cup Brought(e, h)
  <2>1. PICK i \in 1..n : Carries(c[i], h) /\ m = c[i].memory  BY <1>8
  <2>2. CASE i = 1  BY <1>3, <2>1, <2>2 DEF Brought
  <2>3. CASE i # 1
    <3>1. PICK k \in 1..(n - 1) : k + 1 = i  BY <1>4, <2>3
    <3>2. d[k] = c[i]  BY <1>3, <3>1
    <3> QED  BY <1>7, <2>1, <3>2
  <2> QED  BY <2>2, <2>3
<1>10. ASSUME NEW m \in CarriedOf(d, h)
       PROVE  \E i \in 1..n : i # 1 /\ Carries(c[i], h) /\ m = c[i].memory
  <2>1. PICK k \in 1..(n - 1) : Carries(d[k], h) /\ m = d[k].memory  BY <1>7
  <2>2. d[k] = c[k + 1]  BY <1>3
  <2> QED  BY <1>5, <2>1, <2>2
<1>11. CarriedOf(d, h) \subseteq CarriedOf(c, h)  BY <1>8, <1>10
<1>12. Carries(e, h) => e.memory \in CarriedOf(c, h)  BY <1>3, <1>6, <1>8
<1>13. CarriedOf(c, h) = CarriedOf(d, h) \cup Brought(e, h)
  BY <1>9, <1>11, <1>12 DEF Brought
<1>14. ASSUME Ledger(loc, c, h)
       PROVE  /\ Ledger(loc, d, h)
              /\ Carries(e, h) => e.memory \notin OwnBy(loc, d, h)
  <2>1. \A i, j \in 1..n :
          Carries(c[i], h) /\ Carries(c[j], h) /\ c[i].memory = c[j].memory => i = j
    BY <1>1, <1>14 DEF Ledger
  <2>2. \A i, j \in 1..(n - 1) :
          Carries(d[i], h) /\ Carries(d[j], h) /\ d[i].memory = d[j].memory => i = j
    <3>1. SUFFICES ASSUME NEW i \in 1..(n - 1), NEW j \in 1..(n - 1),
                          Carries(d[i], h), Carries(d[j], h), d[i].memory = d[j].memory
                   PROVE  i = j
      OBVIOUS
    <3>2. d[i] = c[i + 1] /\ d[j] = c[j + 1]  BY <1>3
    <3>3. i + 1 \in 1..n /\ j + 1 \in 1..n  BY <1>5
    <3>4. i + 1 = j + 1  BY <2>1, <3>1, <3>2, <3>3
    <3> QED  BY <3>4
  <2>3. LocatedOf(loc, h) \cap CarriedOf(d, h) = {}  BY <1>11, <1>14 DEF Ledger
  <2>4. Ledger(loc, d, h)  BY <1>3, <1>14, <2>2, <2>3 DEF Ledger
  <2>5. Carries(e, h) => e.memory \notin LocatedOf(loc, h)  BY <1>12, <1>14 DEF Ledger
  <2>6. Carries(e, h) => e.memory \notin CarriedOf(d, h)  BY <1>3, <1>6, <1>10, <2>1
  <2> QED  BY <2>4, <2>5, <2>6 DEF OwnBy
<1> QED  BY <1>2, <1>13, <1>14


Moved(loc, b, m) == [loc EXCEPT ![b] = m]

LEMMA LedgerPlace ==
    ASSUME NEW loc, LocationOK(loc), NEW b \in Buffers, NEW m, NEW c, NEW h \in Heaps,
           Ledger(loc, c, h), m.heap = h => m \notin OwnBy(loc, c, h),
           NEW new, new = Moved(loc, b, m)
    PROVE  /\ Ledger(new, c, h)
           /\ OwnBy(new, c, h) =
                (OwnBy(loc, c, h) \ Only(loc[b], h))
                \cup Only(m, h)
<1>1. new[b] = m /\ \A a \in Buffers : a # b => new[a] = loc[a]
  BY DEF LocationOK, Moved
<1>2. PICK L, C : L = LocatedOf(loc, h) /\ C = CarriedOf(c, h)  OBVIOUS
<1>3. L \cap C = {} /\ (m.heap = h => m \notin L /\ m \notin C)
  BY <1>2 DEF Ledger, OwnBy
<1>4. \A a \in Buffers : loc[a].heap = h => loc[a] \in L  BY <1>2 DEF LocatedOf
<1>5. \A a \in Buffers : loc[a].heap = h /\ loc[a] = loc[b] => a = b  BY DEF Ledger
<1>6. LocatedOf(new, h) =
        (L \ Only(loc[b], h)) \cup Only(m, h)
  <2>1. ASSUME NEW x \in LocatedOf(new, h)
        PROVE  x \in (L \ Only(loc[b], h)) \cup Only(m, h)
    <3>1. PICK a \in Buffers : new[a].heap = h /\ x = new[a]  BY <2>1 DEF LocatedOf
    <3>2. CASE a = b  BY <1>1, <3>1, <3>2 DEF Only
    <3>3. CASE a # b
      <4>1. x = loc[a] /\ loc[a].heap = h /\ x \in L  BY <1>1, <1>4, <3>1, <3>3
      <4>2. loc[a] # loc[b]  BY <1>5, <3>3, <4>1
      <4> QED  BY <4>1, <4>2 DEF Only
    <3> QED  BY <3>2, <3>3
  <2>2. ASSUME NEW x \in L, ~ (x = loc[b] /\ loc[b].heap = h)
        PROVE  x \in LocatedOf(new, h)
    <3>1. PICK a \in Buffers : loc[a].heap = h /\ x = loc[a]  BY <1>2 DEF LocatedOf
    <3>2. a # b  BY <2>2, <3>1
    <3>3. new[a] = x /\ new[a].heap = h  BY <1>1, <3>1, <3>2
    <3> QED  BY <3>3 DEF LocatedOf
  <2>3. m.heap = h => m \in LocatedOf(new, h)  BY <1>1 DEF LocatedOf
  <2> QED  BY <2>1, <2>2, <2>3 DEF Only
<1>7. LocatedOf(new, h) \cap C = {}  BY <1>3, <1>6 DEF Only
<1>8. OwnBy(new, c, h) =
        (OwnBy(loc, c, h) \ Only(loc[b], h))
        \cup Only(m, h)
  <2>1. loc[b].heap = h => loc[b] \notin C  BY <1>3, <1>4
  <2> QED  BY <1>2, <1>6, <2>1 DEF OwnBy, Only
<1>9. ASSUME NEW a \in Buffers, NEW d \in Buffers, new[a].heap = h, new[a] = new[d]
      PROVE  a = d
  <2>1. \A x \in Buffers : x # b /\ loc[x].heap = h => loc[x] # m  BY <1>3, <1>4
  <2>2. CASE a = b /\ d = b  BY <2>2
  <2>3. CASE a = b /\ d # b  BY <1>1, <1>9, <2>1, <2>3
  <2>4. CASE a # b /\ d = b  BY <1>1, <1>9, <2>1, <2>4
  <2>5. CASE a # b /\ d # b
    <3>1. loc[a].heap = h /\ loc[a] = loc[d]  BY <1>1, <1>9, <2>5
    <3> QED  BY <3>1 DEF Ledger
  <2> QED  BY <2>2, <2>3, <2>4, <2>5
<1> QED  BY <1>2, <1>7, <1>8, <1>9 DEF Ledger

\* What a location had is all that is lost when it is moved.
LEMMA OwnMoved ==
    ASSUME NEW loc, LocationOK(loc), NEW b, NEW m, NEW c, NEW h
    PROVE  OwnBy(loc, c, h) \ {loc[b]} \subseteq OwnBy(Moved(loc, b, m), c, h)
<1>1. PICK new : new = Moved(loc, b, m)  OBVIOUS
<1>2. \A a \in Buffers : a # b => new[a] = loc[a]
  BY <1>1 DEF LocationOK, Moved
<1>3. LocatedOf(loc, h) \ {loc[b]} \subseteq LocatedOf(new, h)
  <2> SUFFICES ASSUME NEW x \in LocatedOf(loc, h), x # loc[b]
               PROVE  x \in LocatedOf(new, h)
    OBVIOUS
  <2>1. PICK a \in Buffers : loc[a].heap = h /\ x = loc[a]  BY DEF LocatedOf
  <2>2. new[a] = x /\ new[a].heap = h  BY <1>2, <2>1
  <2> QED  BY <2>2 DEF LocatedOf
<1> QED  BY <1>1, <1>3 DEF OwnBy

\* What a step may do to who owns what.
OwnNow(h) == OwnBy(location, commands, h)

LedgerNow(h) == Ledger(location, commands, h)

KeepsOwn ==
    \A h \in Heaps :
        /\ OwnNow(h) \subseteq OwnNow(h)'
        /\ LedgerNow(h) => LedgerNow(h)' /\ OwnNow(h)' = OwnNow(h)

AddsOwn(m) ==
    \A h \in Heaps :
        /\ OwnNow(h) \subseteq OwnNow(h)'
        /\ LedgerNow(h) /\ (m.heap = h => m \notin OwnNow(h)) =>
             LedgerNow(h)' /\ OwnNow(h)' = OwnNow(h) \cup Only(m, h)

RemovesOwn(m) ==
    \A h \in Heaps :
        /\ OwnNow(h) \ {m} \subseteq OwnNow(h)'
        /\ LedgerNow(h) =>
            /\ m.heap = h => m \in OwnNow(h)
            /\ LedgerNow(h)' /\ OwnNow(h)' = OwnNow(h) \ {m}

LEMMA OwnHeap ==
    ASSUME NEW loc, NEW c, NEW h, NEW m \in OwnBy(loc, c, h)
    PROVE  m.heap = h
BY DEF OwnBy, LocatedOf, CarriedOf, Carries

LEMMA OwnEnqueue ==
    ASSUME IsList(commands), UNCHANGED location, NEW e, Enqueue(e)
    PROVE  /\ e.op \notin {"rename", "copy"} => KeepsOwn
           /\ e.op \in {"rename", "copy"} => AddsOwn(e.memory)
<1>1. PICK loc, c, d : loc = location /\ c = commands /\ d = Append(c, e)  OBVIOUS
<1>2. location' = loc /\ commands' = d /\ IsList(c)  BY <1>1 DEF Enqueue
<1>3. \A h : /\ OwnNow(h) = OwnBy(loc, c, h) /\ OwnNow(h)' = OwnBy(loc, d, h)
             /\ LedgerNow(h) <=> Ledger(loc, c, h)
             /\ LedgerNow(h)' <=> Ledger(loc, d, h)
  BY <1>1, <1>2 DEF OwnNow, LedgerNow
<1>4. \A h : OwnBy(loc, d, h) = OwnBy(loc, c, h) \cup Brought(e, h)
  BY <1>1, <1>2, CarryAppend DEF OwnBy
<1>5. \A h : Ledger(loc, c, h) /\ (Carries(e, h) => e.memory \notin OwnBy(loc, c, h))
             => Ledger(loc, d, h)
  BY <1>1, <1>2, LedgerAppend
<1>6. ASSUME e.op \notin {"rename", "copy"}  PROVE KeepsOwn
  <2>1. \A h : ~ Carries(e, h)  BY <1>6 DEF Carries
  <2> QED  BY <1>3, <1>4, <1>5, <2>1 DEF KeepsOwn, Brought
<1>7. ASSUME e.op \in {"rename", "copy"}  PROVE AddsOwn(e.memory)
  <2>1. \A h : Carries(e, h) <=> e.memory.heap = h  BY <1>7 DEF Carries
  <2> QED  BY <1>3, <1>4, <1>5, <2>1 DEF AddsOwn, Brought, Only
<1> QED  BY <1>6, <1>7

LEMMA OwnSame ==
    ASSUME UNCHANGED <<location, commands>>
    PROVE  KeepsOwn
<1>1. PICK loc, c : loc = location /\ c = commands  OBVIOUS
<1>2. location' = loc /\ commands' = c  BY <1>1
<1> QED  BY <1>1, <1>2 DEF KeepsOwn, OwnNow, LedgerNow

LEMMA OwnTail ==
    ASSUME FrameInv, UNCHANGED location, NEW o, Executes(o)
    PROVE  /\ o \notin {"rename", "copy"} => KeepsOwn
           /\ o = "copy" => RemovesOwn(Head(commands).memory)
<1>1. PICK loc, c, d, e : loc = location /\ c = commands /\ d = Tail(c) /\ e = Head(c)
  OBVIOUS
<1>2. location' = loc /\ commands' = d /\ IsList(c) /\ c # <<>> /\ e.op = o
  BY <1>1 DEF Executes, FrameInv, FrameTypes
<1>3. \A h : /\ OwnNow(h) = OwnBy(loc, c, h) /\ OwnNow(h)' = OwnBy(loc, d, h)
             /\ LedgerNow(h) <=> Ledger(loc, c, h)
             /\ LedgerNow(h)' <=> Ledger(loc, d, h)
  BY <1>1, <1>2 DEF OwnNow, LedgerNow
<1>4. \A h : OwnBy(loc, c, h) = OwnBy(loc, d, h) \cup Brought(e, h)
  <2>1. \A h : CarriedOf(c, h) =
                  CarriedOf(d, h) \cup Brought(e, h)
    BY <1>1, <1>2, LedgerTail
  <2> QED  BY <2>1 DEF OwnBy
<1>5. \A h : Ledger(loc, c, h) =>
        /\ Ledger(loc, d, h)
        /\ Carries(e, h) => e.memory \notin OwnBy(loc, d, h)
  BY <1>1, <1>2, LedgerTail
<1>6. ASSUME o \notin {"rename", "copy"}  PROVE KeepsOwn
  <2>1. \A h : ~ Carries(e, h)  BY <1>2, <1>6 DEF Carries
  <2> QED  BY <1>3, <1>4, <1>5, <2>1 DEF KeepsOwn, Brought
<1>7. ASSUME o = "copy"  PROVE RemovesOwn(e.memory)
  <2>1. \A h : Carries(e, h) <=> e.memory.heap = h  BY <1>2, <1>7 DEF Carries
  <2>2. \A h : e.memory.heap # h => e.memory \notin OwnBy(loc, d, h)  BY OwnHeap
  <2> QED  BY <1>3, <1>4, <1>5, <2>1, <2>2 DEF RemovesOwn, Brought
<1> QED  BY <1>1, <1>6, <1>7

LEMMA OwnRename ==
    ASSUME FrameInv, HandInv, ExecuteRename
    PROVE  /\ RemovesOwn(location[Head(commands).buffer])
           /\ InHeap(location[Head(commands).buffer])
<1>1. PICK loc, c, d, e : loc = location /\ c = commands /\ d = Tail(c) /\ e = Head(c)
  OBVIOUS
<1>2. /\ commands' = d /\ IsList(c) /\ c # <<>> /\ e.op = "rename"
      /\ CommandOK(e, loc) /\ LocationOK(loc)
      /\ location' = [loc EXCEPT ![e.buffer] = e.memory]
  BY <1>1, HandHead DEF ExecuteRename, HandInv
<1>3. PICK b \in Buffers : b = e.buffer /\ InHeap(loc[b]) /\ InHeap(e.memory)
  BY <1>2 DEF CommandOK
<1>4. PICK g, m, new : g = loc[b] /\ m = e.memory /\ new = Moved(loc, b, m)
  OBVIOUS
<1>5. location' = new  BY <1>2, <1>3, <1>4 DEF Moved
<1>6. \A h : /\ OwnNow(h) = OwnBy(loc, c, h) /\ OwnNow(h)' = OwnBy(new, d, h)
             /\ LedgerNow(h) <=> Ledger(loc, c, h)
             /\ LedgerNow(h)' <=> Ledger(new, d, h)
  BY <1>1, <1>2, <1>5 DEF OwnNow, LedgerNow
<1>7. ASSUME NEW h \in Heaps, Ledger(loc, c, h)
      PROVE  /\ g.heap = h => g \in OwnBy(loc, c, h)
             /\ Ledger(new, d, h) /\ OwnBy(new, d, h) = OwnBy(loc, c, h) \ {g}
  <2>1. Carries(e, h) <=> m.heap = h  BY <1>2, <1>4 DEF Carries
  <2>2. OwnBy(loc, c, h) = OwnBy(loc, d, h) \cup Only(m, h)
    <3>1. CarriedOf(c, h) = CarriedOf(d, h) \cup Brought(e, h)
      BY <1>1, <1>2, LedgerTail
    <3> QED  BY <1>4, <2>1, <3>1 DEF OwnBy, Brought, Only
  <2>3. Ledger(loc, d, h) /\ (m.heap = h => m \notin OwnBy(loc, d, h))
    BY <1>1, <1>2, <1>4, <1>7, <2>1, LedgerTail
  <2>4. /\ Ledger(new, d, h)
        /\ OwnBy(new, d, h) = (OwnBy(loc, d, h) \ Only(g, h))
                              \cup Only(m, h)
    <3>1. LocationOK(loc) /\ new = Moved(loc, b, m)  BY <1>2, <1>4
    <3>2. /\ Ledger(new, d, h)
          /\ OwnBy(new, d, h) = (OwnBy(loc, d, h) \ Only(loc[b], h))
                                \cup Only(m, h)
      BY <2>3, <3>1, LedgerPlace
    <3> QED  BY <1>4, <3>2
  <2>5. g.heap = h => g \in OwnBy(loc, d, h)
    BY <1>3, <1>4 DEF OwnBy, LocatedOf
  <2>6. g.heap # h => g \notin OwnBy(loc, c, h)  BY OwnHeap
  <2> QED  BY <2>2, <2>3, <2>4, <2>5, <2>6 DEF Only
<1>8. \A h \in Heaps : OwnBy(loc, c, h) \ {g} \subseteq OwnBy(new, d, h)
  <2> TAKE h \in Heaps
  <2>1. CarriedOf(c, h) = CarriedOf(d, h) \cup Brought(e, h)
    BY <1>1, <1>2, LedgerTail
  <2>2. OwnBy(loc, d, h) \ {g} \subseteq OwnBy(new, d, h)  BY <1>2, <1>4, OwnMoved
  <2>3. Carries(e, h) => e.memory \in LocatedOf(new, h)
    <3>1. new[b] = m  BY <1>2, <1>4 DEF Moved, LocationOK
    <3> QED  BY <1>4, <3>1 DEF LocatedOf, Carries
  <2> QED  BY <2>1, <2>2, <2>3 DEF OwnBy, Brought
<1>9. RemovesOwn(g)  BY <1>6, <1>7, <1>8 DEF RemovesOwn
<1> QED  BY <1>1, <1>3, <1>4, <1>9

LEMMA OwnCreate ==
    ASSUME FrameInv, HandInv, Records("create"), UNCHANGED commands, NEW m, InHeap(m),
           location' = [location EXCEPT ![Buffer] = m]
    PROVE  AddsOwn(m)
<1>1. PICK b \in Buffers : b = Buffer  BY RecordsFacts DEF FrameInv
<1>2. b \notin WithMemory(location)  BY <1>1, HandProgram DEF FrameInv
<1>3. LocationOK(location)  BY DEF HandInv
<1>4. location[b] = NoBlock  BY <1>2, <1>3 DEF WithMemory, LocationOK
<1>5. PICK loc, c, new : loc = location /\ c = commands /\ new = Moved(loc, b, m)
  OBVIOUS
<1>6. location' = new /\ commands' = c  BY <1>1, <1>5 DEF Moved
<1>7. \A h : /\ OwnNow(h) = OwnBy(loc, c, h) /\ OwnNow(h)' = OwnBy(new, c, h)
             /\ LedgerNow(h) <=> Ledger(loc, c, h)
             /\ LedgerNow(h)' <=> Ledger(new, c, h)
  BY <1>5, <1>6 DEF OwnNow, LedgerNow
<1>8. \A h \in Heaps : Only(loc[b], h) = {}  BY <1>4, <1>5 DEF Only, NoBlock, Heaps
<1>9. ASSUME NEW h \in Heaps, Ledger(loc, c, h), m.heap = h => m \notin OwnBy(loc, c, h)
      PROVE  Ledger(new, c, h) /\ OwnBy(new, c, h) = OwnBy(loc, c, h) \cup Only(m, h)
  <2>1. /\ Ledger(new, c, h)
        /\ OwnBy(new, c, h) = (OwnBy(loc, c, h) \ Only(loc[b], h)) \cup Only(m, h)
    BY <1>3, <1>5, <1>9, LedgerPlace
  <2> QED  BY <1>8, <2>1
<1>10. \A h \in Heaps : OwnBy(loc, c, h) \subseteq OwnBy(new, c, h)
  <2> TAKE h \in Heaps
  <2>1. OwnBy(loc, c, h) \ {loc[b]} \subseteq OwnBy(new, c, h)  BY <1>3, <1>5, OwnMoved
  <2>2. loc[b].heap # h  BY <1>4, <1>5 DEF NoBlock, Heaps
  <2>3. loc[b] \notin OwnBy(loc, c, h)  BY <2>2, OwnHeap
  <2> QED  BY <2>1, <2>3
<1> QED  BY <1>7, <1>9, <1>10 DEF AddsOwn

\* The alignments that are asked for.
Alignments == {Alignment[b] : b \in Buffers} \cup {CopyAlignment}

\* The three kinds of steps: memory is taken, given back, or stays where it is.
Took(size, align, a) ==
    /\ size \in Nat \ {0} /\ align \in Nat \ {0} /\ align \in Alignments
    /\ a \in Allocations(size, align)
    /\ Takes(a)
    /\ UNCHANGED operations
    /\ AddsOwn(a.memory)

TakeStep == \E size, align, a : Took(size, align, a)

GiveStep ==
    /\ stage = "commands"
    /\ \E m : InHeap(m) /\ GiveBack(m) /\ UNCHANGED order /\ RemovesOwn(m)

KeepStep ==
    /\ KeepsOwn
    /\ UNCHANGED heapVars \/ FreeRetired \/ TrimSmall \/ FreeOperation \/ TrimBig

LEMMA OwnMain ==
    ASSUME FrameInv, HandInv, MainThread
    PROVE  TakeStep \/ KeepStep
<1> USE DEF heapVars
<1>1. IsList(commands)  BY DEF FrameInv, FrameTypes
<1>2. \A b \in Buffers : Size[b] \in Nat \ {0} /\ Alignment[b] \in Nat \ {0}
  BY UploadAssumption, PoolAlignmentAssumption
<1>3. CopyAlignment \in Nat \ {0}  BY DEF CopyAlignment
<1>4. CASE CreateBuffer
  <2>1. PICK a \in Allocations(Size[Buffer], Alignment[Buffer]) :
            Takes(a) /\ location' = [location EXCEPT ![Buffer] = a.memory]
    BY <1>4 DEF CreateBuffer
  <2>2. Records("create") /\ UNCHANGED <<commands, operations>>
    BY <1>4 DEF CreateBuffer
  <2>3. Buffer \in Buffers /\ InHeap(a.memory)
    BY <2>2, RecordsFacts, AllocationHeap DEF FrameInv
  <2>4. AddsOwn(a.memory)  BY <2>1, <2>2, <2>3, OwnCreate
  <2>5. Took(Size[Buffer], Alignment[Buffer], a)
    BY <1>2, <2>1, <2>2, <2>3, <2>4 DEF Took, Alignments
  <2> QED  BY <2>5 DEF TakeStep
<1>5. CASE MapBuffer
  <2>1. PICK a \in Allocations(Size[Buffer], Alignment[Buffer]) :
            Takes(a) /\ Enqueue([op |-> "rename", buffer |-> Buffer, memory |-> a.memory])
    BY <1>5 DEF MapBuffer
  <2>2. Records("map") /\ UNCHANGED <<location, operations>>
    BY <1>5 DEF MapBuffer
  <2>3. Buffer \in Buffers  BY <2>2, RecordsFacts DEF FrameInv
  <2>4. PICK e : e = [op |-> "rename", buffer |-> Buffer, memory |-> a.memory]  OBVIOUS
  <2>5. Enqueue(e) /\ e.op \in {"rename", "copy"} /\ e.memory = a.memory  BY <2>1, <2>4
  <2>6. AddsOwn(a.memory)  BY <1>1, <2>2, <2>5, OwnEnqueue
  <2>7. Took(Size[Buffer], Alignment[Buffer], a)
    BY <1>2, <2>1, <2>2, <2>3, <2>6 DEF Took, Alignments
  <2> QED  BY <2>7 DEF TakeStep
<1>6. CASE FillBuffer
  <2>1. PICK a \in Allocations(Size[Buffer], CopyAlignment) :
            Takes(a) /\ Enqueue([op |-> "copy", memory |-> a.memory])
    BY <1>6 DEF FillBuffer
  <2>2. Records("fill") /\ UNCHANGED <<location, operations>>
    BY <1>6 DEF FillBuffer
  <2>3. Buffer \in Buffers  BY <2>2, RecordsFacts DEF FrameInv
  <2>4. PICK e : e = [op |-> "copy", memory |-> a.memory]  OBVIOUS
  <2>5. Enqueue(e) /\ e.op \in {"rename", "copy"} /\ e.memory = a.memory  BY <2>1, <2>4
  <2>6. AddsOwn(a.memory)  BY <1>1, <2>2, <2>5, OwnEnqueue
  <2>7. Took(Size[Buffer], CopyAlignment, a)
    BY <1>2, <1>3, <2>1, <2>2, <2>3, <2>6 DEF Took, Alignments
  <2> QED  BY <2>7 DEF TakeStep
<1>7. CASE LoadBuffer
  <2>1. PICK e : e = [op |-> "load", buffer |-> Buffer]  OBVIOUS
  <2>2. Enqueue(e) /\ e.op \notin {"rename", "copy"} /\ UNCHANGED <<location, heapVars>>
    BY <1>7, <2>1 DEF LoadBuffer
  <2> QED  BY <1>1, <2>2, OwnEnqueue DEF KeepStep
<1>8. CASE Draw
  <2>1. PICK e : e = [op |-> "draw", buffer |-> Buffer]  OBVIOUS
  <2>2. Enqueue(e) /\ e.op \notin {"rename", "copy"} /\ UNCHANGED <<location, heapVars>>
    BY <1>8, <2>1 DEF Draw
  <2> QED  BY <1>1, <2>2, OwnEnqueue DEF KeepStep
<1>9. CASE UpdateConstants
  <2>1. PICK e : e = [op |-> "use", memory |-> PageMemory(page'.id)]  OBVIOUS
  <2>2. Enqueue(e) /\ e.op \notin {"rename", "copy"} /\ UNCHANGED <<location, heapVars>>
    BY <1>9, <2>1 DEF UpdateConstants
  <2> QED  BY <1>1, <2>2, OwnEnqueue DEF KeepStep
<1>10. CASE EndFrame
  <2>1. PICK x, y : x = [op |-> "end"] /\ y = [op |-> "signal", fence |-> frame]  OBVIOUS
  <2>2. /\ commands' = Append(Append(commands, x), y) /\ UNCHANGED <<location, heapVars>>
    BY <1>1, <1>10, <2>1, ListConcat DEF EndFrame
  <2>3. PICK loc, c, d, e : /\ loc = location /\ c = commands
                            /\ d = Append(c, x) /\ e = Append(d, y)
    OBVIOUS
  <2>4. IsList(c) /\ IsList(d)  BY <1>1, <2>3, ListAppend
  <2>5. \A h : /\ OwnNow(h) = OwnBy(loc, c, h) /\ OwnNow(h)' = OwnBy(loc, e, h)
               /\ LedgerNow(h) <=> Ledger(loc, c, h)
               /\ LedgerNow(h)' <=> Ledger(loc, e, h)
    BY <2>2, <2>3 DEF OwnNow, LedgerNow
  <2>6. \A h : ~ Carries(x, h) /\ ~ Carries(y, h)  BY <2>1 DEF Carries
  <2>7. \A h : CarriedOf(d, h) = CarriedOf(c, h) \cup Brought(x, h)
    BY <2>3, <2>4, CarryAppend
  <2>8. \A h : CarriedOf(e, h) = CarriedOf(d, h) \cup Brought(y, h)
    BY <2>3, <2>4, CarryAppend
  <2>9. \A h : OwnBy(loc, e, h) = OwnBy(loc, c, h)
    BY <2>6, <2>7, <2>8 DEF OwnBy, Brought
  <2>10. \A h : Ledger(loc, c, h) => Ledger(loc, d, h)
    BY <2>3, <2>4, <2>6, LedgerAppend
  <2>11. \A h : Ledger(loc, d, h) => Ledger(loc, e, h)
    BY <2>3, <2>4, <2>6, LedgerAppend
  <2>12. KeepsOwn  BY <2>5, <2>9, <2>10, <2>11 DEF KeepsOwn
  <2> QED  BY <2>2, <2>12 DEF KeepStep
<1> QED  BY <1>4, <1>5, <1>6, <1>7, <1>8, <1>9, <1>10 DEF MainThread

LEMMA OwnCommand ==
    ASSUME FrameInv, HandInv, CommandThread
    PROVE  GiveStep \/ KeepStep
<1> USE DEF heapVars, mainVars, endVars, pageVars, gpuVars
<1>1. CASE ExecuteRename
  <2>1. PICK g : g = location[Head(commands).buffer]  OBVIOUS
  <2>2. InHeap(g) /\ RemovesOwn(g)  BY <1>1, <2>1, OwnRename
  <2>3. GiveBack(g) /\ UNCHANGED order /\ stage = "commands"
    BY <1>1, <2>1 DEF ExecuteRename, Executes
  <2> QED  BY <2>2, <2>3 DEF GiveStep
<1>2. CASE ExecuteCopy
  <2>1. PICK g : g = Head(commands).memory  OBVIOUS
  <2>2. Executes("copy") /\ UNCHANGED <<location, order>> /\ GiveBack(g)
    BY <1>2, <2>1 DEF ExecuteCopy
  <2>3. InHeap(g)  BY <2>1, <2>2, HandHead DEF CommandOK
  <2>4. RemovesOwn(g)  BY <2>1, <2>2, OwnTail
  <2>5. stage = "commands"  BY <2>2 DEF Executes
  <2> QED  BY <2>2, <2>3, <2>4, <2>5 DEF GiveStep
<1>3. CASE ExecuteDraw
  <2>1. Executes("draw") /\ UNCHANGED <<location, heapVars>>  BY <1>3 DEF ExecuteDraw
  <2> QED  BY <2>1, OwnTail DEF KeepStep
<1>4. CASE ExecuteLoad
  <2>1. Executes("load") /\ UNCHANGED <<location, heapVars>>  BY <1>4 DEF ExecuteLoad
  <2> QED  BY <2>1, OwnTail DEF KeepStep
<1>5. CASE ExecuteUse
  <2>1. Executes("use") /\ UNCHANGED <<location, heapVars>>  BY <1>5 DEF ExecuteUse
  <2> QED  BY <2>1, OwnTail DEF KeepStep
<1>6. CASE ExecuteSignal
  <2>1. Executes("signal") /\ UNCHANGED <<location, heapVars>>  BY <1>6 DEF ExecuteSignal
  <2> QED  BY <2>1, OwnTail DEF KeepStep
<1>7. CASE ExecuteEnd
  <2>1. Executes("end") /\ UNCHANGED <<location, heapVars>>  BY <1>7 DEF ExecuteEnd
  <2> QED  BY <2>1, OwnTail DEF KeepStep
<1>8. CASE FreeRetired \/ TrimSmall \/ FreeOperation \/ TrimBig
  <2>1. UNCHANGED <<location, commands>>
    BY <1>8 DEF FreeRetired, TrimSmall, FreeOperation, TrimBig
  <2> QED  BY <1>8, <2>1, OwnSame DEF KeepStep
<1>9. CASE CleanUpSmall \/ CleanUpBig \/ TrimPages \/ FlushCommands \/ CleanUpFast
  <2>1. UNCHANGED <<location, commands, heapVars>>
    BY <1>9 DEF CleanUpSmall, CleanUpBig, TrimPages, FlushCommands, CleanUpFast
  <2> QED  BY <2>1, OwnSame DEF KeepStep
<1> QED  BY <1>1, <1>2, <1>3, <1>4, <1>5, <1>6, <1>7, <1>8, <1>9 DEF CommandThread

LEMMA OwnNext ==
    ASSUME FrameInv, HandInv, [Next]_vars
    PROVE  TakeStep \/ GiveStep \/ KeepStep
<1>1. CASE ExecutePayload \/ Gpu \/ Finished \/ UNCHANGED vars
  <2>1. UNCHANGED <<location, commands, heapVars>>
    BY <1>1 DEF ExecutePayload, Gpu, GpuPayload, GpuSignal, Finished, vars
  <2> QED  BY <2>1, OwnSame DEF KeepStep
<1> QED  BY <1>1, OwnMain, OwnCommand DEF Next

-----------------------------------------------------------------------------
(***************************************************************************)
(* The buddy allocators of the heap: whatever is owned, or was given back  *)
(* and is not free yet, is a block of one of them, and their free blocks   *)
(* make up the rest.                                                       *)
(***************************************************************************)
SmallInv == LedgerNow("small") /\ SmallOK(small, OwnNow("small"))

LEMMA BigLeavesSmall ==
    ASSUME NEW size, NEW align, NEW a \in BigAllocations(size, align)
    PROVE  a.small = small /\ a.memory.heap = "big"
<1>1. \A list, newOrder, i : \A b \in FromPool(list, newOrder, i, size, align) :
        b.small = small /\ b.memory.heap = "big"
  BY DEF FromPool, BigMemory
<1>2. CASE a \in FromExistingPools(size, align)
  BY <1>1, <1>2 DEF FromExistingPools
<1>3. CASE a \in FromNewPool(size, align)
  <2>1. PICK i, new : i = FirstFreeIndex /\ new = NewPool(NewPoolSize(size))  OBVIOUS
  <2>2. \/ a \in FromPool([pools EXCEPT ![i] = new], order, i, size, align)
        \/ a \in FromPool(Append(pools, new), Append(order, i), i, size, align)
    BY <1>3, <2>1 DEF FromNewPool
  <2> QED  BY <1>1, <2>2
<1> QED  BY <1>2, <1>3 DEF BigAllocations

LEMMA SmallInit ==
    ASSUME Init
    PROVE  SmallInv
<1>1. /\ location = [b \in Buffers |-> NoBlock] /\ commands = <<>> /\ small = <<>>
  BY DEF Init
<1>2. Len(<<>>) = 0 /\ IsList(<<>>)  BY EmptyList
<1>3. \A i : i \notin 1..0  OBVIOUS
<1>4. LocatedOf(location, "small") = {}  BY <1>1 DEF LocatedOf, NoBlock
<1>5. CarriedOf(commands, "small") = {}  BY <1>1, <1>2, <1>3 DEF CarriedOf
<1>6. OwnNow("small") = {}  BY <1>4, <1>5 DEF OwnNow, OwnBy
<1>7. LedgerNow("small")
  <2>1. \A b \in Buffers : location[b].heap # "small"  BY <1>1 DEF NoBlock
  <2> QED  BY <1>1, <1>2, <1>3, <1>4, <2>1 DEF LedgerNow, Ledger
<1>8. SmallOK(<<>>, {})  BY <1>2, <1>3 DEF SmallOK
<1> QED  BY <1>1, <1>6, <1>7, <1>8 DEF SmallInv

LEMMA SmallNext ==
    ASSUME FrameInv, HandInv, SmallInv, [Next]_vars
    PROVE  SmallInv'
<1> DEFINE O == OwnNow("small")
<1>1. LedgerNow("small") /\ SmallOK(small, O) /\ "small" \in Heaps
  BY DEF SmallInv, Heaps
<1>2. completed \in Nat /\ frame \in Nat  BY DEF FrameInv, FrameTypes
<1> HIDE DEF O
<1>3. CASE TakeStep
  <2>1. PICK size, align, a : Took(size, align, a)  BY <1>3 DEF TakeStep
  <2>2. /\ size \in Nat \ {0} /\ align \in Nat \ {0} /\ a \in Allocations(size, align)
        /\ small' = a.small /\ AddsOwn(a.memory)
    BY <2>1 DEF Took, Takes
  <2>3. CASE Fits(size)
    <3>1. a \in SmallAllocations(size, align)  BY <2>2, <2>3 DEF Allocations
    <3>2. /\ SmallOK(a.small, O \cup {a.memory})
          /\ a.memory \notin O /\ a.memory.heap = "small"
      BY <1>1, <2>2, <3>1, SmallAllocate
    <3>3. LedgerNow("small")' /\ OwnNow("small")' = O \cup {a.memory}
      BY <1>1, <2>2, <3>2 DEF AddsOwn, Only, O
    <3> QED  BY <2>2, <3>2, <3>3 DEF SmallInv
  <2>4. CASE ~ Fits(size)
    <3>1. a \in BigAllocations(size, align)  BY <2>2, <2>4 DEF Allocations
    <3>2. a.small = small /\ a.memory.heap = "big"  BY <3>1, BigLeavesSmall
    <3>3. LedgerNow("small")' /\ OwnNow("small")' = O
      BY <1>1, <2>2, <3>2 DEF AddsOwn, Only, O
    <3> QED  BY <1>1, <2>2, <3>2, <3>3 DEF SmallInv
  <2> QED  BY <2>3, <2>4
<1>4. CASE GiveStep
  <2>1. PICK m : InHeap(m) /\ GiveBack(m) /\ RemovesOwn(m)  BY <1>4 DEF GiveStep
  <2>2. LedgerNow("small")' /\ OwnNow("small")' = O \ {m} /\ (m.heap = "small" => m \in O)
    BY <1>1, <2>1 DEF RemovesOwn, O
  <2>3. CASE m.heap = "small"
    <3>1. GiveBackSmall(m) /\ m \in O  BY <2>1, <2>2, <2>3 DEF GiveBack
    <3>2. SmallOK(small', O \ {m})  BY <1>1, <1>2, <3>1, SmallRetire
    <3> QED  BY <2>2, <3>2 DEF SmallInv
  <2>4. CASE m.heap # "small"
    <3>1. GiveBackBig(m)  BY <2>1, <2>4 DEF GiveBack, InHeap
    <3>2. small' = small  BY <3>1 DEF GiveBackBig
    <3>3. m \notin O  BY <2>4, OwnHeap DEF O, OwnNow
    <3>4. O \ {m} = O  BY <3>3
    <3> QED  BY <1>1, <2>2, <3>2, <3>4 DEF SmallInv
  <2> QED  BY <2>3, <2>4
<1>5. CASE KeepStep
  <2>1. LedgerNow("small")' /\ OwnNow("small")' = O
    BY <1>1, <1>5 DEF KeepStep, KeepsOwn, O
  <2>2. SmallOK(small', O)
    <3>1. CASE FreeRetired  BY <1>1, <1>2, <3>1, SmallFree
    <3>2. CASE TrimSmall  BY <1>1, <3>2, SmallTrim
    <3>3. CASE UNCHANGED heapVars \/ FreeOperation \/ TrimBig
      <4>1. small' = small  BY <3>3 DEF heapVars, FreeOperation, TrimBig
      <4> QED  BY <1>1, <4>1
    <3> QED  BY <1>5, <3>1, <3>2, <3>3 DEF KeepStep
  <2> QED  BY <2>1, <2>2 DEF SmallInv
<1> QED  BY <1>3, <1>4, <1>5, OwnNext

-----------------------------------------------------------------------------
(***************************************************************************)
(* Memory that a payload uses has an owner, or was given back with a fence *)
(* that is not before the frame of the payload.                            *)
(***************************************************************************)
GivenBackFor(m, f) == \E o \in ToSet(operations) : o.memory = m /\ f <= o.fence

UseFor(m, f) ==
    \/ \E h \in Heaps : m \in OwnNow(h)
    \/ RetiredIn(small, m, f)
    \/ GivenBackFor(m, f)
    \/ PageFor(pages, m, f)

OperationsOK ==
    /\ IsList(operations)
    /\ \A o \in ToSet(operations) : o.fence \in Nat /\ o.memory.heap = "big"

KeptFor(w) == \A m \in w.used : m.heap # "fast" => UseFor(m, w.frame)

UseInv ==
    /\ OperationsOK
    /\ \A w \in Unexecuted : completed < w.frame => KeptFor(w)

LEMMA OpenBefore ==
    ASSUME FrameInv
    PROVE  ended \in Nat /\ frame \in Nat /\ completed \in Nat /\ ended + 1 <= frame
<1>1. ended \in Nat /\ frame \in Nat /\ completed \in Nat
  BY DEF FrameInv, FrameTypes
<1>2. FirstFrame <= frame /\ FirstFrame \in Nat
  BY FramesBounds DEF FrameInv, FrameTypes, FrameOrder
<1>3. ended + 1 <= FirstFrame  BY <1>1 DEF FirstFrame
<1> QED  BY <1>1, <1>2, <1>3

LEMMA PagesStep ==
    ASSUME [Next]_vars
    PROVE  UNCHANGED pages \/ UpdateConstants \/ TrimPages
<1> USE DEF pageVars
<1>1. CASE MainThread
  BY <1>1 DEF MainThread, CreateBuffer, MapBuffer, FillBuffer, LoadBuffer, Draw, EndFrame
<1>2. CASE CommandThread
  BY <1>2 DEF CommandThread, ExecuteRename, ExecuteDraw, ExecuteCopy, ExecuteLoad,
       ExecuteUse, ExecuteSignal, ExecuteEnd, FreeRetired, CleanUpSmall, TrimSmall,
       FreeOperation, CleanUpBig, TrimBig, FlushCommands, CleanUpFast
<1>3. CASE ExecutePayload \/ Gpu \/ Finished \/ UNCHANGED vars
  BY <1>3 DEF ExecutePayload, Gpu, GpuPayload, GpuSignal, Finished, vars
<1> QED  BY <1>1, <1>2, <1>3 DEF Next

LEMMA PageForNext ==
    ASSUME FrameInv, [Next]_vars, NEW f \in Nat, completed < f, f <= ended + 1,
           NEW m, PageFor(pages, m, f)
    PROVE  PageFor(pages', m, f)
<1>1. /\ ended \in Nat /\ frame \in Nat /\ completed \in Nat /\ f <= frame
      /\ pages \subseteq PageRecord /\ FrameLag \in Nat
  BY OpenBefore, UploadAssumption DEF FrameInv, PageTypes
<1>2. PICK p \in pages :
        /\ m = PageMemory(p.id)
        /\ p.retire = NotRetired \/ (p.retire \in Nat /\ f <= p.retire)
  BY DEF PageFor
<1>3. CASE UNCHANGED pages  BY <1>3
<1>4. CASE UpdateConstants
  <2>1. CASE pages' = pages  BY <2>1
  <2>2. CASE pages' # pages
    <3>1. Retired(page.id) \subseteq pages'
      BY <1>4, <2>2 DEF UpdateConstants
    <3>2. PICK r : r = IF p.id = page.id THEN [p EXCEPT !.retire = frame] ELSE p
      OBVIOUS
    <3>3. r \in pages'  BY <3>1, <3>2 DEF Retired, RetireFence
    <3>4. r.id = p.id /\ r.retire \in {p.retire, frame}
      BY <1>1, <3>2 DEF PageRecord
    <3> QED  BY <1>1, <1>2, <3>3, <3>4 DEF PageFor
  <2> QED  BY <2>1, <2>2
<1>5. CASE TrimPages
  <2>1. pages' = {q \in pages : PageStays(q)}  BY <1>5 DEF TrimPages
  <2>2. PageStays(p)
    <3>1. CASE p.retire = NotRetired  BY <3>1 DEF PageStays
    <3>2. CASE p.retire \in Nat /\ f <= p.retire
      <4>1. ~ (p.retire + FrameLag <= completed)  BY <1>1, <3>2
      <4> QED  BY <4>1 DEF PageStays, Lagging
    <3> QED  BY <1>2, <3>1, <3>2
  <2>3. p \in pages'  BY <2>1, <2>2
  <2> QED  BY <1>2, <2>3 DEF PageFor
<1> QED  BY <1>3, <1>4, <1>5, PagesStep

LEMMA OperationsTail ==
    ASSUME OperationsOK, FreeOperation
    PROVE  /\ OperationsOK'
           /\ \A m : \A f \in Nat :
                completed \in Nat /\ completed < f /\ GivenBackFor(m, f)
                => GivenBackFor(m, f)'
<1>1. /\ operations # <<>> /\ Head(operations).fence <= completed
      /\ operations' = Tail(operations)
  BY DEF FreeOperation, MayFree, IsFenceComplete, Remaining
<1>2. /\ IsList(operations') /\ ToSet(operations) = ToSet(operations') \cup {Head(operations)}
  BY <1>1, ListTail DEF OperationsOK
<1>3. OperationsOK'  BY <1>2 DEF OperationsOK
<1>4. ASSUME NEW m, NEW f \in Nat, completed \in Nat, completed < f, GivenBackFor(m, f)
      PROVE  GivenBackFor(m, f)'
  <2>1. PICK o \in ToSet(operations) : o.memory = m /\ f <= o.fence
    BY <1>4 DEF GivenBackFor
  <2>2. o.fence \in Nat  BY DEF OperationsOK
  <2>3. o # Head(operations)  BY <1>1, <1>4, <2>1, <2>2
  <2> QED  BY <1>2, <2>1, <2>3 DEF GivenBackFor
<1> QED  BY <1>3, <1>4

LEMMA OperationsGive ==
    ASSUME OperationsOK, FrameInv, NEW m, m.heap = "big", GiveBackBig(m)
    PROVE  /\ OperationsOK'
           /\ \A x, f : GivenBackFor(x, f) => GivenBackFor(x, f)'
           /\ \A f : f <= frame => GivenBackFor(m, f)'
<1>1. PICK e : e = [fence |-> frame, memory |-> m]  OBVIOUS
<1>2. operations' = Append(operations, e)  BY <1>1 DEF GiveBackBig, RetireFence
<1>3. IsList(operations') /\ ToSet(operations') = ToSet(operations) \cup {e}
  BY <1>2, ListAppend DEF OperationsOK
<1>4. e.memory = m /\ e.fence = frame /\ e.fence \in Nat /\ e.memory.heap = "big"
  BY <1>1 DEF FrameInv, FrameTypes
<1>5. OperationsOK'  BY <1>3, <1>4 DEF OperationsOK
<1>6. \A x, f : GivenBackFor(x, f) => GivenBackFor(x, f)'  BY <1>3 DEF GivenBackFor
<1>7. \A f : f <= frame => GivenBackFor(m, f)'  BY <1>3, <1>4 DEF GivenBackFor
<1> QED  BY <1>5, <1>6, <1>7

LEMMA OperationsNext ==
    ASSUME OperationsOK, FrameInv, HandInv, [Next]_vars
    PROVE  OperationsOK'
<1>1. CASE TakeStep
  BY <1>1 DEF TakeStep, Took, OperationsOK
<1>2. CASE GiveStep
  <2>1. PICK m : InHeap(m) /\ GiveBack(m)  BY <1>2 DEF GiveStep
  <2>2. CASE m.heap = "big"  BY <2>1, <2>2, OperationsGive DEF GiveBack
  <2>3. CASE m.heap = "small"
    BY <2>1, <2>3 DEF GiveBack, GiveBackSmall, OperationsOK
  <2> QED  BY <2>1, <2>2, <2>3 DEF InHeap
<1>3. CASE KeepStep
  <2>1. CASE FreeOperation  BY <2>1, OperationsTail
  <2>2. CASE ~ FreeOperation
    <3>1. operations' = operations
      BY <1>3, <2>2 DEF KeepStep, heapVars, FreeRetired, TrimSmall, TrimBig
    <3> QED  BY <3>1 DEF OperationsOK
  <2> QED  BY <2>1, <2>2
<1> QED  BY <1>1, <1>2, <1>3, OwnNext

LEMMA UseStays ==
    ASSUME FrameInv, HandInv, SmallInv, OperationsOK, [Next]_vars,
           NEW f \in Nat, completed < f, f <= ended + 1, NEW m, UseFor(m, f)
    PROVE  UseFor(m, f)'
<1>1. completed \in Nat /\ frame \in Nat /\ f <= frame /\ "small" \in Heaps
  BY OpenBefore DEF Heaps
<1>2. SmallOK(small, OwnNow("small"))  BY DEF SmallInv
<1>3. CASE PageFor(pages, m, f)
  BY <1>3, PageForNext DEF UseFor
<1>4. CASE TakeStep
  <2>1. PICK size, align, a : Took(size, align, a)  BY <1>4 DEF TakeStep
  <2>2. /\ size \in Nat \ {0} /\ align \in Nat \ {0} /\ a \in Allocations(size, align)
        /\ small' = a.small /\ AddsOwn(a.memory) /\ operations' = operations
    BY <2>1 DEF Took, Takes
  <2>3. \A h \in Heaps : OwnNow(h) \subseteq OwnNow(h)'  BY <2>2 DEF AddsOwn
  <2>4. RetiredIn(small, m, f) => RetiredIn(small', m, f)
    <3>1. CASE Fits(size)
      <4>1. a \in SmallAllocations(size, align)  BY <2>2, <3>1 DEF Allocations
      <4> QED  BY <1>2, <2>2, <4>1, SmallAllocate
    <3>2. CASE ~ Fits(size)
      <4>1. a \in BigAllocations(size, align)  BY <2>2, <3>2 DEF Allocations
      <4> QED  BY <2>2, <4>1, BigLeavesSmall
    <3> QED  BY <3>1, <3>2
  <2>5. GivenBackFor(m, f) => GivenBackFor(m, f)'  BY <2>2 DEF GivenBackFor
  <2> QED  BY <1>3, <2>3, <2>4, <2>5 DEF UseFor
<1>5. CASE GiveStep
  <2>1. PICK g : InHeap(g) /\ GiveBack(g) /\ RemovesOwn(g)  BY <1>5 DEF GiveStep
  <2>2. \A h \in Heaps : m # g /\ m \in OwnNow(h) => m \in OwnNow(h)'
    BY <2>1 DEF RemovesOwn
  <2>3. CASE g.heap = "small"
    <3>1. GiveBackSmall(g) /\ operations' = operations
      BY <2>1, <2>3 DEF GiveBack, GiveBackSmall
    <3>2. g \in OwnNow("small")  BY <1>1, <2>1, <2>3 DEF RemovesOwn, SmallInv
    <3>3. /\ RetiredIn(small', g, frame)
          /\ RetiredIn(small, m, f) => RetiredIn(small', m, f)
      BY <1>1, <1>2, <3>1, <3>2, SmallRetire
    <3>4. RetiredIn(small', g, f)
      <4>1. PICK i \in 1..Len(small') : \E r \in ToSet(small'[i].retired) :
                    r.memory = g /\ frame <= r.fence
        BY <3>3 DEF RetiredIn
      <4>2. PICK r \in ToSet(small'[i].retired) : r.memory = g /\ frame <= r.fence
        BY <4>1
      <4>3. r.fence \in Nat
        <5>1. SmallOK(small', OwnNow("small") \ {g})
          BY <1>1, <1>2, <3>1, <3>2, SmallRetire
        <5>2. RetiredOK(small'[i])  BY <5>1 DEF SmallOK, AllocatorOK
        <5>3. PICK k \in 1..Len(small'[i].retired) : r = small'[i].retired[k]
          BY <5>2, ListIs DEF RetiredOK
        <5> QED  BY <5>2, <5>3 DEF RetiredOK
      <4>4. f <= r.fence  BY <1>1, <4>2, <4>3
      <4> QED  BY <4>2, <4>4 DEF RetiredIn
    <3>5. GivenBackFor(m, f) => GivenBackFor(m, f)'  BY <3>1 DEF GivenBackFor
    <3> QED  BY <1>3, <2>2, <3>3, <3>4, <3>5 DEF UseFor
  <2>4. CASE g.heap = "big"
    <3>1. GiveBackBig(g) /\ small' = small  BY <2>1, <2>4 DEF GiveBack, GiveBackBig
    <3>2. /\ GivenBackFor(m, f) => GivenBackFor(m, f)'
          /\ GivenBackFor(g, f)'
      BY <1>1, <2>4, <3>1, OperationsGive
    <3> QED  BY <1>3, <2>2, <3>1, <3>2 DEF UseFor
  <2> QED  BY <2>1, <2>3, <2>4 DEF InHeap
<1>6. CASE KeepStep
  <2>1. \A h \in Heaps : OwnNow(h) \subseteq OwnNow(h)'  BY <1>6 DEF KeepStep, KeepsOwn
  <2>2. RetiredIn(small, m, f) => RetiredIn(small', m, f)
    <3>1. CASE FreeRetired  BY <1>1, <1>2, <3>1, SmallFree
    <3>2. CASE TrimSmall  BY <1>2, <3>2, SmallTrim
    <3>3. CASE UNCHANGED heapVars \/ FreeOperation \/ TrimBig
      BY <3>3 DEF heapVars, FreeOperation, TrimBig
    <3> QED  BY <1>6, <3>1, <3>2, <3>3 DEF KeepStep
  <2>3. GivenBackFor(m, f) => GivenBackFor(m, f)'
    <3>1. CASE FreeOperation  BY <1>1, <3>1, OperationsTail
    <3>2. CASE ~ FreeOperation
      <4>1. operations' = operations
        BY <1>6, <3>2 DEF KeepStep, heapVars, FreeRetired, TrimSmall, TrimBig
      <4> QED  BY <4>1 DEF GivenBackFor
    <3> QED  BY <3>1, <3>2
  <2> QED  BY <1>3, <2>1, <2>2, <2>3 DEF UseFor
<1> QED  BY <1>4, <1>5, <1>6, OwnNext

LEMMA AdditionFor ==
    ASSUME FrameInv, HandInv, NEW m, Addition(m), m.heap # "fast"
    PROVE  UseFor(m, ended + 1)
<1>1. CASE ExecuteDraw /\ InHeap(m) /\ Head(commands).buffer \in Buffers
           /\ m = location[Head(commands).buffer]
  <2>1. m \in LocatedOf(location, m.heap) /\ m.heap \in Heaps
    BY <1>1 DEF LocatedOf, InHeap, Heaps
  <2> QED  BY <2>1 DEF UseFor, OwnNow, OwnBy
<1>2. CASE ExecuteCopy /\ InHeap(m) /\ m = Head(commands).memory
  <2>1. /\ IsList(commands) /\ commands # <<>> /\ Head(commands).op = "copy"
    BY <1>2, HandHead DEF ExecuteCopy
  <2>2. Len(commands) \in Nat \ {0} /\ Head(commands) = commands[1]
    BY <2>1, ListTail
  <2>3. 1 \in 1..Len(commands)  BY <2>2
  <2>4. Carries(commands[1], m.heap)  BY <1>2, <2>1, <2>2 DEF Carries
  <2>5. m \in CarriedOf(commands, m.heap) /\ m.heap \in Heaps
    BY <1>2, <2>2, <2>3, <2>4 DEF CarriedOf, InHeap, Heaps
  <2> QED  BY <2>5 DEF UseFor, OwnNow, OwnBy
<1>3. CASE ExecuteUse /\ PageFor(pages, m, ended + 1)
  BY <1>3 DEF UseFor
<1> QED  BY <1>1, <1>2, <1>3 DEF Addition

LEMMA UseInit ==
    ASSUME Init
    PROVE  UseInv
<1>1. operations = <<>> /\ submitted = <<>> /\ queue = <<>> /\ used = {}
  BY DEF Init
<1>2. ToSet(<<>>) = {} /\ IsList(<<>>)  BY EmptyList
<1>3. Payloads = {}  BY <1>1, <1>2 DEF Payloads
<1>4. Unexecuted = {OpenPayload}  BY <1>3, UnexecutedIs
<1>5. OpenPayload.used = {}  BY <1>1 DEF OpenPayload
<1> QED  BY <1>1, <1>2, <1>4, <1>5 DEF UseInv, OperationsOK, KeptFor

LEMMA UseNext ==
    ASSUME FrameInv, HandInv, PayloadInv, FastInv, SmallInv, UseInv, [Next]_vars
    PROVE  UseInv'
<1>1. OperationsOK /\ FastOK(fast)  BY DEF UseInv, FastInv
<1>2. ASSUME NEW w \in Unexecuted', completed' < w.frame,
             NEW m \in w.used, m.heap # "fast"
      PROVE  UseFor(m, w.frame)'
  <2>1. /\ w.frame \in Nat /\ completed <= completed'
        /\ \/ w \in Unexecuted /\ w.frame <= ended + 1
           \/ w.used = {}
           \/ UsesMore /\ w.frame = ended + 1 /\ w.used = used'
    BY UnexecutedNext
  <2>2. completed \in Nat /\ completed' \in Nat /\ ended \in Nat
    BY FrameNext DEF FrameInv, FrameTypes
  <2>3. completed < w.frame  BY <1>2, <2>1, <2>2
  <2>4. w.frame <= ended + 1  BY <1>2, <2>1, <2>2
  <2>5. UseFor(m, w.frame)
    <3>1. CASE w \in Unexecuted
      BY <1>2, <2>3, <3>1 DEF UseInv, KeptFor
    <3>2. CASE UsesMore /\ w.frame = ended + 1 /\ w.used = used'
      <4>1. PICK x : used' = used \cup {x} /\ Addition(x)
        BY <1>1, <3>2, AdditionIs
      <4>2. CASE m = x  BY <1>2, <3>2, <4>1, <4>2, AdditionFor
      <4>3. CASE m \in used
        <5>1. OpenPayload \in Unexecuted  BY UnexecutedIs
        <5>2. OpenPayload.used = used /\ OpenPayload.frame = ended + 1
          BY DEF OpenPayload
        <5> QED  BY <1>2, <2>3, <3>2, <4>3, <5>1, <5>2 DEF UseInv, KeptFor
      <4> QED  BY <1>2, <3>2, <4>1, <4>2, <4>3
    <3> QED  BY <1>2, <2>1, <3>1, <3>2
  <2> QED  BY <1>1, <2>1, <2>3, <2>4, <2>5, UseStays
<1>3. OperationsOK'  BY <1>1, OperationsNext
<1>4. \A w \in Unexecuted' : completed' < w.frame => KeptFor(w)'
  BY <1>2 DEF KeptFor
<1> QED  BY <1>3, <1>4 DEF UseInv

LEMMA UseHeld ==
    ASSUME FrameInv, PayloadInv, SmallInv, UseInv
    PROVE  HeldUntilFence
<1>1. ASSUME NEW m, NEW f, UseFor(m, f)  PROVE m \in Held
  <2>1. CASE \E h \in Heaps : m \in OwnNow(h)
    <3>1. PICK h \in Heaps : m \in OwnNow(h)  BY <2>1
    <3>2. IsList(commands)  BY DEF FrameInv, FrameTypes
    <3>3. m \in Own(h)  BY <3>1, <3>2, OwnIs DEF OwnNow
    <3> QED  BY <3>3 DEF Own, Held
  <2>2. CASE RetiredIn(small, m, f)
    <3>1. PICK i \in 1..Len(small) : \E r \in ToSet(small[i].retired) :
                    r.memory = m /\ f <= r.fence
      BY <2>2 DEF RetiredIn
    <3>2. small[i] \in ToSet(small)  BY ListIs DEF SmallInv, SmallOK
    <3> QED  BY <3>1, <3>2 DEF RetiredSmall, Held
  <2>3. CASE GivenBackFor(m, f)  BY <2>3 DEF GivenBackFor, RetiredBig, Held
  <2>4. CASE PageFor(pages, m, f)  BY <2>4 DEF PageFor, Held
  <2> QED  BY <1>1, <2>1, <2>2, <2>3, <2>4 DEF UseFor
<1>2. ASSUME NEW w \in Unexecuted, w.frame > completed, NEW m \in w.used, m.heap # "fast"
      PROVE  m \in Held
  <2>1. completed \in Nat /\ ended \in Nat  BY DEF FrameInv, FrameTypes
  <2>2. w.frame \in Nat
    <3>1. w \in Payloads \/ w = OpenPayload  BY UnexecutedIs
    <3> QED  BY <2>1, <3>1 DEF PayloadInv, OpenPayload
  <2>3. completed < w.frame  BY <1>2, <2>1, <2>2
  <2> QED  BY <1>1, <1>2, <2>3 DEF UseInv, KeptFor
<1> QED  BY <1>2 DEF HeldUntilFence

(***************************************************************************)
(* Memory of the upload heap, other than that of the fast allocator, is    *)
(* not free before the fence of the last frame whose commands use it has   *)
(* been passed: for any buffers, programs, sizes, alignments and FrameLag. *)
(***************************************************************************)
THEOREM HeldSafe == Spec => []HeldUntilFence
<1> DEFINE Inv == FrameInv /\ HandInv /\ PayloadInv /\ FastInv /\ SmallInv /\ UseInv
<1>1. Init => Inv
  BY FrameInit, HandInit, PayloadInit, FastInit, SmallInit, UseInit
<1>2. Inv /\ [Next]_vars => Inv'
  BY FrameNext, HandNext, PayloadKept, FastNext, SmallNext, UseNext
<1>3. Inv => HeldUntilFence
  BY UseHeld
<1> QED  BY <1>1, <1>2, <1>3, PTL DEF Spec

-----------------------------------------------------------------------------
(***************************************************************************)
(* The units of the free blocks and of the blocks in use.                  *)
(***************************************************************************)
UnitsFor(b) == Units(b.offset, b.order)

UnitsOfBlocks(B) == {UnitsFor(b) : b \in B}

LEMMA UnitsForIs ==
    ASSUME NEW b \in BuddyBlock
    PROVE  /\ UnitsFor(b).offset = b.offset
           /\ End(UnitsFor(b)) = Stop(b)
           /\ b.offset \in Nat /\ Stop(b) \in Nat /\ b.offset < Stop(b)
BY BlockTypes DEF UnitsFor, Units, End, Stop

LEMMA UnitsApart ==
    ASSUME NEW b \in BuddyBlock, NEW c \in BuddyBlock, Apart(b, c)
    PROVE  ~ Overlap(UnitsFor(b), UnitsFor(c)) /\ UnitsFor(b) # UnitsFor(c)
<1>1. /\ UnitsFor(b).offset = b.offset /\ End(UnitsFor(b)) = Stop(b)
      /\ b.offset \in Nat /\ Stop(b) \in Nat /\ b.offset < Stop(b)
  BY UnitsForIs
<1>2. /\ UnitsFor(c).offset = c.offset /\ End(UnitsFor(c)) = Stop(c)
      /\ c.offset \in Nat /\ Stop(c) \in Nat /\ c.offset < Stop(c)
  BY UnitsForIs
<1>3. ~ Overlap(UnitsFor(b), UnitsFor(c))  BY <1>1, <1>2 DEF Apart, Overlap
<1>4. Overlap(UnitsFor(b), UnitsFor(b))  BY <1>1 DEF Overlap
<1> QED  BY <1>3, <1>4

LEMMA UnitsBytes ==
    ASSUME NEW B, \A b \in B : Placed(b, OrderToUnitSize(MaxOrder))
    PROVE  Bytes(UnitsOfBlocks(B)) = Covered(B)
<1>1. PICK z \in Nat : z = OrderToUnitSize(MaxOrder)  BY UnitsType, BuddyAssumption
<1>2. Bytes(UnitsOfBlocks(B)) =
        UNION {UnitsFor(b).offset..(End(UnitsFor(b)) - 1) : b \in B}
  BY DEF Bytes, UnitsOfBlocks
<1>3. \A b \in B : /\ UnitsFor(b).offset = b.offset /\ End(UnitsFor(b)) = Stop(b)
                   /\ b.offset \in Nat /\ Stop(b) \in Nat
                   /\ 1 <= b.offset /\ Stop(b) <= z
  BY <1>1, UnitsForIs DEF Placed
<1>4. ASSUME NEW b \in B, NEW u \in b.offset..(Stop(b) - 1)
      PROVE  u \in 1..(z - 1) /\ Holding(b, u)
  <2>1. /\ b.offset \in Nat /\ Stop(b) \in Nat /\ 1 <= b.offset /\ Stop(b) <= z
        /\ u \in Int /\ b.offset <= u /\ u <= Stop(b) - 1
    BY <1>3
  <2> QED  BY <2>1 DEF Holding
<1>5. ASSUME NEW b \in B, NEW u \in 1..(z - 1), Holding(b, u)
      PROVE  u \in b.offset..(Stop(b) - 1)
  <2>1. b.offset \in Nat /\ Stop(b) \in Nat /\ b.offset <= u /\ u < Stop(b)
    BY <1>3, <1>5 DEF Holding
  <2> QED  BY <2>1
<1>6. Covered(B) = {u \in 1..(z - 1) : \E b \in B : Holding(b, u)}
  BY <1>1 DEF Covered, LastUnit
<1>7. Bytes(UnitsOfBlocks(B)) = UNION {b.offset..(Stop(b) - 1) : b \in B}
  BY <1>2, <1>3
<1> QED  BY <1>4, <1>5, <1>6, <1>7

LEMMA UnitsExact ==
    ASSUME NEW a, NEW H, BuddyOK(a, H), NEW F, F = FreeBlocks(a.free)
    PROVE  /\ Disjoint(UnitsOfBlocks(F) \cup UnitsOfBlocks(H) \cup {Units(0, 0)})
           /\ UnitsOfBlocks(F) \cap UnitsOfBlocks(H) = {}
           /\ Bytes(UnitsOfBlocks(F) \cup UnitsOfBlocks(H)) = 1..(2 ^ MaxOrder - 1)
           /\ \A k \in Order : IsInjective(a.free[k])
           /\ a.used = (TotalSize(UnitsOfBlocks(H)) + 1) * MinBlockSize
<1>1. PICK z \in Nat : z = OrderToUnitSize(MaxOrder)  BY UnitsType, BuddyAssumption
<1>2. PICK T : T = F \cup H  OBVIOUS
<1>3. /\ \A b \in T : Placed(b, z)
      /\ \A b, c \in T : b # c => Apart(b, c)
      /\ \A u \in 1..(z - 1) : \E b \in T : Holding(b, u)
      /\ F \cap H = {}
      /\ \A k \in Order : IsInjective(a.free[k])
  BY <1>1, <1>2 DEF BuddyOK, BlocksOK, ListsOK, Tiled
<1>4. \A b \in T : b \in BuddyBlock  BY <1>3 DEF Placed
<1>5. UnitsOfBlocks(F) \cup UnitsOfBlocks(H) = UnitsOfBlocks(T)
  BY <1>2 DEF UnitsOfBlocks
<1>6. Disjoint(UnitsOfBlocks(T) \cup {Units(0, 0)})
  <2>1. \A x \in UnitsOfBlocks(T) : x.offset \in Nat /\ 1 <= x.offset
    <3> SUFFICES ASSUME NEW b \in T
                 PROVE  UnitsFor(b).offset \in Nat /\ 1 <= UnitsFor(b).offset
      BY DEF UnitsOfBlocks
    <3> QED  BY <1>3, <1>4, UnitsForIs DEF Placed
  <2>2. Units(0, 0).offset = 0 /\ End(Units(0, 0)) = 1
    BY UnitsZero DEF Units, End
  <2>3. \A x \in UnitsOfBlocks(T) :
          ~ Overlap(x, Units(0, 0)) /\ ~ Overlap(Units(0, 0), x)
    <3> TAKE x \in UnitsOfBlocks(T)
    <3>1. ~ (x.offset < 1)  BY <2>1
    <3> QED  BY <2>2, <3>1 DEF Overlap
  <2>4. \A x, y \in UnitsOfBlocks(T) : x # y => ~ Overlap(x, y)
    <3> SUFFICES ASSUME NEW b \in T, NEW c \in T, UnitsFor(b) # UnitsFor(c)
                 PROVE  ~ Overlap(UnitsFor(b), UnitsFor(c))
      BY DEF UnitsOfBlocks
    <3>1. Apart(b, c)  BY <1>3
    <3> QED  BY <1>4, <3>1, UnitsApart
  <2> QED  BY <2>3, <2>4 DEF Disjoint
<1>7. UnitsOfBlocks(F) \cap UnitsOfBlocks(H) = {}
  <2> SUFFICES ASSUME NEW b \in F, NEW c \in H, UnitsFor(b) = UnitsFor(c)  PROVE FALSE
    BY DEF UnitsOfBlocks
  <2>1. Apart(b, c)  BY <1>2, <1>3
  <2> QED  BY <1>2, <1>4, <2>1, UnitsApart
<1>8. Bytes(UnitsOfBlocks(T)) = 1..(z - 1)
  <2>1. Bytes(UnitsOfBlocks(T)) = Covered(T)  BY <1>1, <1>3, UnitsBytes
  <2>2. Covered(T) = 1..(z - 1)  BY <1>1, <1>3 DEF Covered, LastUnit
  <2> QED  BY <2>1, <2>2
<1>9. z = 2 ^ MaxOrder  BY <1>1 DEF OrderToUnitSize
<1>10. a.used = (TotalSize(UnitsOfBlocks(H)) + 1) * MinBlockSize
  <2>1. Bytes(UnitsOfBlocks(H)) = Covered(H)  BY <1>1, <1>2, <1>3, UnitsBytes
  <2> QED  BY <2>1 DEF BuddyOK, UsedFor, TotalSize
<1> QED  BY <1>3, <1>5, <1>6, <1>7, <1>8, <1>9, <1>10

LEMMA FreeUnitsAre ==
    ASSUME NEW a, ListsOK(a.free)
    PROVE  FreeUnits(a) = UnitsOfBlocks(FreeBlocks(a.free))
<1>1. ASSUME NEW x \in FreeUnits(a)  PROVE x \in UnitsOfBlocks(FreeBlocks(a.free))
  <2>1. PICK k \in Order : \E o \in ToSet(a.free[k]) : x = Units(o, k)
    BY DEF FreeUnits
  <2>2. PICK o \in ToSet(a.free[k]) : x = Units(o, k)  BY <2>1
  <2>3. o \in Nat
    <3>1. a.free[k] \in Seq(Nat)  BY DEF ListsOK
    <3> QED  BY <3>1, <2>2, ListOf
  <2>4. PICK b : b = [offset |-> o, order |-> k]  OBVIOUS
  <2>5. b \in FreeBlocks(a.free) /\ x = UnitsFor(b)
    BY <2>2, <2>3, <2>4 DEF FreeBlocks, BuddyBlock, UnitsFor
  <2> QED  BY <2>5 DEF UnitsOfBlocks
<1>2. ASSUME NEW b \in FreeBlocks(a.free)  PROVE UnitsFor(b) \in FreeUnits(a)
  BY DEF FreeBlocks, BuddyBlock, FreeUnits, UnitsFor
<1> QED  BY <1>1, <1>2 DEF UnitsOfBlocks

\* What is held of an allocator is what is owned of it and what was given back.
LEMMA HeldFromSmall ==
    ASSUME FrameInv, SmallInv, OperationsOK, NEW i \in 1..Len(small)
    PROVE  HeldFrom("small", small[i].id) =
             OwnedOf(small[i].id, OwnNow("small")) \cup Freed(small[i])
<1>1. PICK n, a, O : n = Len(small) /\ a = small[i] /\ O = OwnNow("small")  OBVIOUS
<1>2. /\ IsList(small) /\ DOMAIN small = 1..n
      /\ \A j \in 1..n : small[j].id = a.id => j = i
      /\ \A j \in 1..n : AllocatorOK(small[j], OwnedOf(small[j].id, O))
  BY <1>1, ListIs DEF SmallInv, SmallOK
<1>3. IsList(commands)  BY DEF FrameInv, FrameTypes
<1>4. "small" \in Heaps  BY DEF Heaps
<1>5. Own("small") = O  BY <1>1, <1>3, <1>4, OwnIs DEF OwnNow
<1>6. \A j \in 1..n : \A m \in Freed(small[j]) : m.heap = "small" /\ m.at = small[j].id
  BY <1>2 DEF AllocatorOK, IsSmall
<1>7. RetiredSmall = UNION {Freed(small[j]) : j \in 1..n}
  BY <1>2 DEF RetiredSmall, Freed, ToSet
<1>8. \A m \in RetiredBig : m.heap # "small"  BY DEF RetiredBig, OperationsOK
<1>9. \A p : PageMemory(p).heap # "small"  BY DEF PageMemory
<1>10. ASSUME NEW m, m.heap = "small", m.at = a.id
       PROVE  m \in Held <=> m \in O \/ m \in Freed(a)
  <2>1. m \in Held <=> m \in Owned \/ m \in RetiredSmall
    BY <1>8, <1>9, <1>10 DEF Held
  <2>2. m \in Owned <=> m \in O  BY <1>5, <1>10 DEF Own
  <2>3. m \in RetiredSmall <=> m \in Freed(a)
    <3>1. ASSUME m \in RetiredSmall  PROVE m \in Freed(a)
      <4>1. PICK j \in 1..n : m \in Freed(small[j])  BY <1>7, <3>1
      <4>2. j = i  BY <1>2, <1>6, <1>10, <4>1
      <4> QED  BY <1>1, <4>1, <4>2
    <3>2. ASSUME m \in Freed(a)  PROVE m \in RetiredSmall
      BY <1>1, <1>7, <3>2
    <3> QED  BY <3>1, <3>2
  <2> QED  BY <2>1, <2>2, <2>3
<1>11. \A m \in Freed(a) : m.heap = "small" /\ m.at = a.id  BY <1>1, <1>6
<1>12. \A m \in O : m.heap = "small"  BY <1>1, OwnHeap DEF OwnNow
<1> QED  BY <1>1, <1>10, <1>11, <1>12 DEF HeldFrom, OwnedOf

LEMMA BuddiesHold ==
    ASSUME FrameInv, SmallInv, OperationsOK
    PROVE  BuddiesExact
<1>1. IsList(small)  BY DEF SmallInv, SmallOK
<1>2. ASSUME NEW i \in 1..Len(small)  PROVE BuddyExact(small[i])
  <2>1. PICK a, M, H, F :
          /\ a = small[i]
          /\ M = OwnedOf(a.id, OwnNow("small")) \cup Freed(a)
          /\ H = Blocks(M) /\ F = FreeBlocks(a.free)
    OBVIOUS
  <2>2. BuddyOK(a, H)
    BY <2>1 DEF SmallInv, SmallOK, AllocatorOK
  <2>3. HeldFrom("small", a.id) = M  BY <2>1, HeldFromSmall
  <2>4. UsedUnits(a) = UnitsOfBlocks(H)
    BY <2>1, <2>3 DEF UsedUnits, UnitsOfBlocks, UnitsFor, Blocks
  <2>5. FreeUnits(a) = UnitsOfBlocks(F)
    BY <2>1, <2>2, FreeUnitsAre DEF BuddyOK, BlocksOK
  <2>6. /\ Disjoint(UnitsOfBlocks(F) \cup UnitsOfBlocks(H) \cup {Units(0, 0)})
        /\ UnitsOfBlocks(F) \cap UnitsOfBlocks(H) = {}
        /\ Bytes(UnitsOfBlocks(F) \cup UnitsOfBlocks(H)) = 1..(2 ^ MaxOrder - 1)
        /\ \A k \in Order : IsInjective(a.free[k])
        /\ a.used = (TotalSize(UnitsOfBlocks(H)) + 1) * MinBlockSize
    BY <2>1, <2>2, UnitsExact
  <2> QED  BY <2>1, <2>4, <2>5, <2>6 DEF BuddyExact
<1>3. ASSUME NEW a \in ToSet(small)  PROVE BuddyExact(a)
  <2>1. PICK i \in 1..Len(small) : a = small[i]  BY <1>1, ListIs
  <2> QED  BY <1>2, <2>1
<1> QED  BY <1>3 DEF BuddiesExact

(***************************************************************************)
(* The free lists of a buddy allocator and the blocks in use make up its   *)
(* units, without overlap, and TotalSizeUsed counts those in use: through  *)
(* any splits and joins, for any sizes and alignments.                     *)
(***************************************************************************)
THEOREM BuddiesSafe == Spec => []BuddiesExact
<1> DEFINE Inv == FrameInv /\ HandInv /\ SmallInv /\ OperationsOK
<1>1. Init => Inv
  BY FrameInit, HandInit, SmallInit, UseInit DEF UseInv
<1>2. Inv /\ [Next]_vars => Inv'
  BY FrameNext, HandNext, SmallNext, OperationsNext
<1>3. Inv => BuddiesExact
  BY BuddiesHold
<1> QED  BY <1>1, <1>2, <1>3, PTL DEF Spec

-----------------------------------------------------------------------------
(***************************************************************************)
(* The pools, when every alignment that is asked for divides theirs: the   *)
(* memory M of them that is owned, or was given back and is not free yet,  *)
(* takes the blocks in use, each memory a block of its own.                *)
(***************************************************************************)
AlignmentsDivide == \A align \in Alignments : ~ Padded(align)

IsBig(m) ==
    /\ m = BigMemory(m.at, m.block)
    /\ m.block.offset \in Nat /\ m.block.size \in Nat \ {0}
    /\ Multiple(m.block.offset, PoolAlignment)

InPool(m, i) == m.at = i

UsedOf(i, M) == {Taken(m.block) : m \in {m \in M : InPool(m, i)}}

PoolOK(p, U) == PoolAt(p, U) /\ p.last \in Nat

PoolsOK(list, M) ==
    /\ IsList(list)
    /\ \A m \in M : IsBig(m) /\ m.at \in 1..Len(list) /\ list[m.at] # NoPool
    /\ \A m, n \in M : m.at = n.at /\ Taken(m.block) = Taken(n.block) => m = n
    /\ \A i \in 1..Len(list) : list[i] # NoPool => PoolOK(list[i], UsedOf(i, M))

LEMMA BigIs ==
    ASSUME NEW m, IsBig(m)
    PROVE  m.heap = "big" /\ m.bytes = m.block
BY DEF IsBig, BigMemory

LEMMA PoolIsThere ==
    ASSUME NEW p, NEW U, PoolOK(p, U)
    PROVE  p # NoPool
<1>1. PICK z \in Nat : z = p.size  BY DEF PoolOK, PoolAt
<1>2. PICK F : F = p.free  OBVIOUS
<1>3. \A f \in F : Within(f, z)
  BY <1>1, <1>2 DEF PoolOK, PoolAt, FreeAround, Filled
<1>4. F \in SUBSET Extent
  <2>1. \A f \in F : f \in PoolBlock  BY <1>3 DEF Within
  <2> QED  BY <2>1 DEF PoolBlock, Extent
<1>5. p.freeSize \in Nat
  <2>1. TotalSize(F) \in Nat  BY <1>3, BytesIs
  <2> QED  BY <1>2, <2>1 DEF PoolOK, PoolAt
<1>6. p.last \in Nat /\ p = [size |-> p.size, freeSize |-> p.freeSize, last |-> p.last,
                             free |-> p.free]
  BY DEF PoolOK, PoolAt, PoolIs
<1>7. PICK c \in Nat, d \in Nat : c = p.freeSize /\ d = p.last  BY <1>5, <1>6
<1>8. p = [size |-> z, freeSize |-> c, last |-> d, free |-> F]
  BY <1>1, <1>2, <1>6, <1>7
<1>9. p \in Pool  BY <1>4, <1>8 DEF Pool
<1> QED  BY <1>9, NoneAssumption

\* One pool of the list is replaced, the memory of the others is left alone.
LEMMA PoolsReplace ==
    ASSUME NEW list, NEW M, PoolsOK(list, M), NEW i \in 1..Len(list),
           NEW P, \A m : m.at # i => (m \in P <=> m \in M),
           \A m \in P : IsBig(m),
           \A m, n \in P : m.at = i /\ n.at = i /\ Taken(m.block) = Taken(n.block) => m = n,
           NEW new, PoolOK(new, UsedOf(i, P)),
           NEW t, t = Moved(list, i, new)
    PROVE  PoolsOK(t, P) /\ Len(t) = Len(list)
<1>1. PICK n \in Nat : n = Len(list)  BY ListIs DEF PoolsOK
<1>2. list \in [1..n -> ToSet(list)]  BY <1>1, ListIs DEF PoolsOK
<1>3. t = [j \in 1..n |-> IF j = i THEN new ELSE list[j]]  BY <1>1, <1>2 DEF Moved
<1>4. IsList(t) /\ Len(t) = n
  <2>1. t = [j \in 1..n |-> t[j]]  BY <1>3
  <2> QED  BY <1>1, <2>1, ListMake
<1>5. t[i] = new /\ \A j \in 1..n : j # i => t[j] = list[j]  BY <1>1, <1>3
<1>6. new # NoPool  BY PoolIsThere
<1>7. ASSUME NEW m \in P  PROVE m.at \in 1..n /\ t[m.at] # NoPool
  <2>1. CASE m.at = i  BY <1>1, <1>5, <1>6, <2>1
  <2>2. CASE m.at # i
    <3>1. m \in M  BY <2>2
    <3>2. m.at \in 1..n /\ list[m.at] # NoPool  BY <1>1, <3>1 DEF PoolsOK
    <3> QED  BY <1>5, <2>2, <3>2
  <2> QED  BY <2>1, <2>2
<1>8. ASSUME NEW m \in P, NEW k \in P, m.at = k.at, Taken(m.block) = Taken(k.block)
      PROVE  m = k
  <2>1. CASE m.at = i  BY <1>8, <2>1
  <2>2. CASE m.at # i
    <3>1. m \in M /\ k \in M  BY <1>8, <2>2
    <3> QED  BY <1>8, <3>1 DEF PoolsOK
  <2> QED  BY <2>1, <2>2
<1>9. ASSUME NEW j \in 1..n, t[j] # NoPool  PROVE PoolOK(t[j], UsedOf(j, P))
  <2>1. CASE j = i  BY <1>5, <2>1
  <2>2. CASE j # i
    <3>1. \A m : InPool(m, j) => (m \in P <=> m \in M)  BY <2>2 DEF InPool
    <3>2. UsedOf(j, P) = UsedOf(j, M)  BY <3>1 DEF UsedOf
    <3>3. t[j] = list[j] /\ list[j] # NoPool  BY <1>5, <1>9, <2>2
    <3> QED  BY <1>1, <3>2, <3>3 DEF PoolsOK
  <2> QED  BY <2>1, <2>2
<1>10. \A m \in P : IsBig(m) /\ m.at \in 1..Len(t) /\ t[m.at] # NoPool
  BY <1>4, <1>7
<1>11. \A j \in 1..Len(t) : t[j] # NoPool => PoolOK(t[j], UsedOf(j, P))
  BY <1>4, <1>9
<1> QED  BY <1>1, <1>4, <1>8, <1>10, <1>11 DEF PoolsOK

\* A block is found in a pool.
Serves(a, list, M, o) ==
    /\ PoolsOK(a.pools, M \cup {a.memory}) /\ Len(a.pools) = Len(list)
    /\ a.memory \notin M /\ a.memory.heap = "big" /\ a.order = o

LEMMA PoolsTake ==
    ASSUME NEW list, NEW M, PoolsOK(list, M), NEW i \in 1..Len(list), list[i] # NoPool,
           NEW size \in Nat \ {0}, NEW align, ~ Padded(align),
           NEW newOrder, NEW a \in FromPool(list, newOrder, i, size, align)
    PROVE  Serves(a, list, M, newOrder)
<1>1. PICK f \in Found(list[i], GetAlignedSize(size, align)) :
        a = [small |-> small,
             pools |-> [list EXCEPT ![i] = TryAllocate(@, f, size, align)],
             order |-> newOrder,
             memory |-> BigMemory(i, Allocated(f, size, align))]
  BY DEF FromPool
<1>2. PICK p, U, b, m, new, t :
        /\ p = list[i] /\ U = UsedOf(i, M) /\ b = Allocated(f, size, align)
        /\ m = BigMemory(i, b) /\ new = TryAllocate(p, f, size, align)
        /\ t = Moved(list, i, new)
  OBVIOUS
<1>3. a.pools = t /\ a.order = newOrder /\ a.memory = m
  BY <1>1, <1>2 DEF Moved
<1>4. PoolOK(p, U)  BY <1>2 DEF PoolsOK
<1>5. f \in p.free /\ AlignArbitrary(size, PoolAlignment) <= f.size
  <2>1. GetAlignedSize(size, align) = AlignArbitrary(size, PoolAlignment)
    BY UnpaddedIs
  <2>2. AlignArbitrary(size, PoolAlignment) \in Nat  BY UnpaddedIs
  <2>3. f \in p.free /\ f.size >= AlignArbitrary(size, PoolAlignment)
    BY <1>2, <2>1 DEF Found, LargeEnough
  <2>4. f.size \in Nat
    <3>1. Within(f, p.size)  BY <1>4, <2>3 DEF PoolOK, PoolAt, FreeAround, Filled
    <3> QED  BY <3>1, ExtentIs DEF Within
  <2> QED  BY <2>2, <2>3, <2>4
<1>6. /\ PoolAt(new, U \cup {Taken(b)}) /\ new.last = p.last
      /\ Taken(b) \notin U /\ b.offset = f.offset /\ b.size = size
      /\ Multiple(b.offset, PoolAlignment) /\ b.offset \in Nat
  <2>1. PoolAt(p, U)  BY <1>4 DEF PoolOK
  <2>2. HandedOut(p, U, f, b, size, new)  BY <1>2, <1>5, <2>1, PoolTake
  <2> QED  BY <2>2 DEF HandedOut
<1>7. m.at = i /\ m.block = b /\ m.heap = "big" /\ m = BigMemory(m.at, m.block)
  BY <1>2 DEF BigMemory
<1>8. IsBig(m)  BY <1>6, <1>7 DEF IsBig
<1>9. m \notin M
  <2>1. m \in M => Taken(b) \in U  BY <1>2, <1>7 DEF UsedOf, InPool
  <2> QED  BY <1>6, <2>1
<1>10. PICK P : P = M \cup {m}  OBVIOUS
<1>11. UsedOf(i, P) = U \cup {Taken(b)}  BY <1>2, <1>7, <1>10 DEF UsedOf, InPool
<1>12. PoolOK(new, UsedOf(i, P))  BY <1>4, <1>6, <1>11 DEF PoolOK
<1>13. \A x : x.at # i => (x \in P <=> x \in M)  BY <1>7, <1>10
<1>14. \A x \in P : IsBig(x)  BY <1>8, <1>10 DEF PoolsOK
<1>15. ASSUME NEW x \in P, NEW y \in P, x.at = i, y.at = i, Taken(x.block) = Taken(y.block)
       PROVE  x = y
  <2>1. \A z \in M : z.at = i => Taken(z.block) # Taken(b)
    BY <1>2, <1>6 DEF UsedOf, InPool
  <2>2. x \in M /\ y \in M => x = y  BY <1>15 DEF PoolsOK
  <2>3. Taken(m.block) = Taken(b)  BY <1>7
  <2>4. CASE x \in M /\ y \in M  BY <2>2, <2>4
  <2>5. CASE x = m /\ y \in M  BY <1>15, <2>1, <2>3, <2>5
  <2>6. CASE x \in M /\ y = m  BY <1>15, <2>1, <2>3, <2>6
  <2>7. CASE x = m /\ y = m  BY <2>7
  <2> QED  BY <1>10, <2>4, <2>5, <2>6, <2>7
<1>16. PoolsOK(t, P) /\ Len(t) = Len(list)
  BY <1>2, <1>12, <1>13, <1>14, <1>15, PoolsReplace
<1> QED  BY <1>3, <1>7, <1>9, <1>10, <1>16 DEF Serves

\* A pool is made in a place without one, or behind the others.
LEMMA PoolsMake ==
    ASSUME NEW list, NEW M, PoolsOK(list, M), NEW i \in 1..Len(list), list[i] = NoPool,
           NEW size \in Nat \ {0}, NEW t, t = Moved(list, i, NewPool(size))
    PROVE  PoolsOK(t, M) /\ Len(t) = Len(list) /\ t[i] # NoPool
<1>1. \A m \in M : m.at # i  BY DEF PoolsOK
<1>2. UsedOf(i, M) = {}  BY <1>1 DEF UsedOf, InPool
<1>3. PICK new : new = NewPool(size)  OBVIOUS
<1>4. PoolOK(new, UsedOf(i, M))
  <2>1. new.last = 0  BY <1>3 DEF NewPool
  <2> QED  BY <1>2, <1>3, <2>1, PoolNew DEF PoolOK
<1>5. PoolsOK(t, M) /\ Len(t) = Len(list)
  <2>1. \A m \in M : IsBig(m)  BY DEF PoolsOK
  <2>2. \A m, n \in M : m.at = i /\ n.at = i /\ Taken(m.block) = Taken(n.block) => m = n
    BY DEF PoolsOK
  <2>3. t = Moved(list, i, new)  BY <1>3
  <2>4. PICK P : P = M  OBVIOUS
  <2>5. /\ \A m : m.at # i => (m \in P <=> m \in M)
        /\ \A m \in P : IsBig(m)
        /\ \A m, n \in P : m.at = i /\ n.at = i /\ Taken(m.block) = Taken(n.block) => m = n
        /\ PoolOK(new, UsedOf(i, P))
    BY <1>4, <2>1, <2>2, <2>4
  <2>6. PoolsOK(t, P) /\ Len(t) = Len(list)  BY <2>3, <2>5, PoolsReplace
  <2> QED  BY <2>4, <2>6
<1>6. t[i] = new
  <2>1. IsList(list)  BY DEF PoolsOK
  <2>2. i \in DOMAIN list  BY <2>1, ListIs
  <2> QED  BY <1>3, <2>2 DEF Moved
<1> QED  BY <1>4, <1>5, <1>6, PoolIsThere

LEMMA PoolsAppend ==
    ASSUME NEW list, NEW M, PoolsOK(list, M), NEW size \in Nat \ {0},
           NEW t, t = Append(list, NewPool(size))
    PROVE  PoolsOK(t, M) /\ Len(t) = Len(list) + 1 /\ t[Len(list) + 1] # NoPool
<1>1. PICK new : new = NewPool(size)  OBVIOUS
<1>2. IsList(list)  BY DEF PoolsOK
<1>3. PICK n \in Nat : n = Len(list)  BY <1>2, ListIs
<1>4. /\ IsList(t) /\ Len(t) = n + 1 /\ t[n + 1] = new
      /\ \A i \in 1..n : t[i] = list[i]
  BY <1>1, <1>2, <1>3, ListAppend
<1>5. \A i : i \in 1..(n + 1) <=> i \in 1..n \/ i = n + 1  BY <1>3
<1>6. ASSUME NEW m \in M  PROVE IsBig(m) /\ m.at \in 1..n /\ list[m.at] # NoPool
  BY <1>3 DEF PoolsOK
<1>7. UsedOf(n + 1, M) = {}
  <2>1. \A k \in 1..n : k # n + 1  BY <1>3
  <2>2. \A m \in M : ~ InPool(m, n + 1)  BY <1>6, <2>1 DEF InPool
  <2> QED  BY <2>2 DEF UsedOf
<1>8. PoolOK(new, {})
  <2>1. new.last = 0  BY <1>1 DEF NewPool
  <2> QED  BY <1>1, <2>1, PoolNew DEF PoolOK
<1>9. \A i \in 1..(n + 1) : t[i] # NoPool => PoolOK(t[i], UsedOf(i, M))
  <2>1. \A i \in 1..n : list[i] # NoPool => PoolOK(list[i], UsedOf(i, M))
    BY <1>3 DEF PoolsOK
  <2> QED  BY <1>4, <1>5, <1>7, <1>8, <2>1
<1>10. \A m \in M : IsBig(m) /\ m.at \in 1..(n + 1) /\ t[m.at] # NoPool
  BY <1>4, <1>5, <1>6
<1>11. \A x, y \in M : x.at = y.at /\ Taken(x.block) = Taken(y.block) => x = y
  BY DEF PoolsOK
<1>12. PoolsOK(t, M)  BY <1>4, <1>9, <1>10, <1>11 DEF PoolsOK
<1> QED  BY <1>3, <1>4, <1>8, <1>12, PoolIsThere

\* A block that is given back stays in use, and its pool is marked.
Marked(p, last) == [p EXCEPT !.last = last]

LEMMA MarkedIs ==
    ASSUME NEW p, NEW U, PoolOK(p, U), NEW last \in Nat
    PROVE  PoolOK(Marked(p, last), U)
<1>1. PICK z, c, d, F : /\ p = [size |-> z, freeSize |-> c, last |-> d, free |-> F]
                        /\ z = p.size /\ c = p.freeSize /\ F = p.free
  BY DEF PoolOK, PoolAt, PoolIs
<1>2. PICK q : q = Marked(p, last)  OBVIOUS
<1>3. q = [size |-> z, freeSize |-> c, last |-> last, free |-> F]
  BY <1>1, <1>2 DEF Marked
<1>4. q.size = z /\ q.freeSize = c /\ q.last = last /\ q.free = F /\ PoolIs(q)
  BY <1>3 DEF PoolIs
<1>5. z \in Nat /\ FreeAround(F, U, z) /\ c = TotalSize(F)
  BY <1>1 DEF PoolOK, PoolAt
<1>6. PoolAt(q, U)  BY <1>4, <1>5 DEF PoolAt
<1> QED  BY <1>2, <1>4, <1>6 DEF PoolOK

MarkAt(list, i, f) == [list EXCEPT ![i].last = Latest(@, f)]

LEMMA PoolsMark ==
    ASSUME NEW list, NEW M, PoolsOK(list, M), NEW m \in M, NEW f \in Nat,
           NEW t, t = MarkAt(list, m.at, f)
    PROVE  PoolsOK(t, M) /\ Len(t) = Len(list)
<1>1. PICK i : i = m.at  OBVIOUS
<1>2. i \in 1..Len(list) /\ list[i] # NoPool  BY <1>1 DEF PoolsOK
<1>3. PICK U : U = UsedOf(i, M)  OBVIOUS
<1>4. PoolOK(list[i], U)  BY <1>2, <1>3 DEF PoolsOK
<1>5. PICK last \in Nat : last = Latest(list[i].last, f)
  BY <1>4 DEF PoolOK, Latest
<1>6. PICK new : new = Marked(list[i], last)  OBVIOUS
<1>7. PoolOK(new, U)  BY <1>4, <1>6, MarkedIs
<1>8. t = Moved(list, i, new)
  <2>1. t = [list EXCEPT ![i] = [list[i] EXCEPT !.last = last]]
    BY <1>1, <1>5 DEF MarkAt
  <2> QED  BY <1>6, <2>1 DEF Moved, Marked
<1>9. \A x \in M : IsBig(x)  BY DEF PoolsOK
<1>10. \A x, y \in M : x.at = i /\ y.at = i /\ Taken(x.block) = Taken(y.block) => x = y
  BY DEF PoolsOK
<1>11. PICK P : P = M  OBVIOUS
<1>12. /\ \A x : x.at # i => (x \in P <=> x \in M)
       /\ \A x \in P : IsBig(x)
       /\ \A x, y \in P : x.at = i /\ y.at = i /\ Taken(x.block) = Taken(y.block) => x = y
       /\ PoolOK(new, UsedOf(i, P))
  BY <1>3, <1>7, <1>9, <1>10, <1>11
<1>13. PoolsOK(t, P) /\ Len(t) = Len(list)  BY <1>2, <1>8, <1>12, PoolsReplace
<1> QED  BY <1>11, <1>13

\* A block goes back into its pool.
FreeAt(list, m) == [list EXCEPT ![m.at] = Deallocate(@, m.block)]

LEMMA PoolsFree ==
    ASSUME NEW list, NEW M, PoolsOK(list, M), NEW m \in M,
           NEW t, t = FreeAt(list, m)
    PROVE  PoolsOK(t, M \ {m}) /\ Len(t) = Len(list)
<1>1. PICK i, b : i = m.at /\ b = m.block  OBVIOUS
<1>2. i \in 1..Len(list) /\ list[i] # NoPool  BY <1>1 DEF PoolsOK
<1>3. PICK p, U, P : p = list[i] /\ U = UsedOf(i, M) /\ P = M \ {m}  OBVIOUS
<1>4. PoolOK(p, U)  BY <1>2, <1>3 DEF PoolsOK
<1>5. Taken(b) \in U  BY <1>1, <1>3 DEF UsedOf, InPool
<1>6. PICK new : new = Deallocate(p, b)  OBVIOUS
<1>7. PoolAt(new, U \ {Taken(b)}) /\ new.last = p.last
  BY <1>4, <1>5, <1>6, PoolGive DEF PoolOK
<1>8. UsedOf(i, P) = U \ {Taken(b)}
  <2>1. \A x \in M : x.at = i /\ x # m => Taken(x.block) # Taken(b)
    BY <1>1 DEF PoolsOK
  <2>2. UsedOf(i, P) = {Taken(x.block) : x \in {x \in M : x # m /\ x.at = i}}
    BY <1>3 DEF UsedOf, InPool
  <2>3. U = {Taken(x.block) : x \in {x \in M : x.at = i}}
    BY <1>3 DEF UsedOf, InPool
  <2>4. ASSUME NEW e \in UsedOf(i, P)  PROVE e \in U \ {Taken(b)}
    <3>1. PICK x \in M : x # m /\ x.at = i /\ e = Taken(x.block)  BY <2>2, <2>4
    <3> QED  BY <2>1, <2>3, <3>1
  <2>5. ASSUME NEW e \in U \ {Taken(b)}  PROVE e \in UsedOf(i, P)
    <3>1. PICK x \in M : x.at = i /\ e = Taken(x.block)  BY <2>3, <2>5
    <3>2. x # m  BY <1>1, <2>5, <3>1
    <3> QED  BY <2>2, <3>1, <3>2
  <2> QED  BY <2>4, <2>5
<1>9. PoolOK(new, UsedOf(i, P))  BY <1>4, <1>7, <1>8 DEF PoolOK
<1>10. t = Moved(list, i, new)
  <2>1. t = [list EXCEPT ![i] = Deallocate(p, b)]  BY <1>1, <1>3 DEF FreeAt
  <2> QED  BY <1>6, <2>1 DEF Moved
<1>11. /\ \A x : x.at # i => (x \in P <=> x \in M)
       /\ \A x \in P : IsBig(x)
  BY <1>1, <1>3 DEF PoolsOK
<1>12. \A x, y \in P : x.at = i /\ y.at = i /\ Taken(x.block) = Taken(y.block) => x = y
  BY <1>3 DEF PoolsOK
<1>13. PoolsOK(t, P) /\ Len(t) = Len(list)
  BY <1>2, <1>9, <1>10, <1>11, <1>12, PoolsReplace
<1> QED  BY <1>3, <1>13

\* Only pools that nobody has memory of are trimmed.
LEMMA PoolsTrim ==
    ASSUME NEW list, NEW M, PoolsOK(list, M),
           NEW t, t = [i \in DOMAIN list |->
                         IF list[i] # NoPool /\ PoolStays(list[i]) THEN list[i] ELSE NoPool]
    PROVE  PoolsOK(t, M) /\ Len(t) = Len(list)
<1>1. PICK n \in Nat : n = Len(list) /\ DOMAIN list = 1..n  BY ListIs DEF PoolsOK
<1>2. t = [i \in 1..n |-> t[i]]  BY <1>1
<1>3. IsList(t) /\ Len(t) = n  BY <1>2, ListMake
<1>4. \A i \in 1..n : t[i] # NoPool => t[i] = list[i]  BY <1>1
<1>5. ASSUME NEW m \in M  PROVE t[m.at] # NoPool
  <2>1. PICK i \in 1..n : i = m.at  BY <1>1 DEF PoolsOK
  <2>2. list[i] # NoPool  BY <2>1 DEF PoolsOK
  <2>3. PoolOK(list[i], UsedOf(i, M))  BY <1>1, <2>2 DEF PoolsOK
  <2>4. Taken(m.block) \in UsedOf(i, M)  BY <2>1 DEF UsedOf, InPool
  <2>5. ~ IsEmpty(list[i])
    <3>1. UsedOf(i, M) # {}  BY <2>4
    <3> QED  BY <2>3, <3>1, PoolIdle DEF PoolOK
  <2>6. PoolStays(list[i])  BY <2>5 DEF PoolStays
  <2> QED  BY <1>1, <2>1, <2>2, <2>6
<1>6. \A m \in M : IsBig(m) /\ m.at \in 1..n  BY <1>1 DEF PoolsOK
<1>7. \A m, k \in M : m.at = k.at /\ Taken(m.block) = Taken(k.block) => m = k
  BY DEF PoolsOK
<1>8. \A i \in 1..n : t[i] # NoPool => PoolOK(t[i], UsedOf(i, M))
  <2>1. \A i \in 1..n : list[i] # NoPool => PoolOK(list[i], UsedOf(i, M))
    BY <1>1 DEF PoolsOK
  <2> QED  BY <1>4, <2>1
<1>9. PoolsOK(t, M)  BY <1>3, <1>5, <1>6, <1>7, <1>8 DEF PoolsOK
<1> QED  BY <1>1, <1>3, <1>9

OrderOK(o, list) == IsList(o) /\ Len(o) = Len(list) /\ ToSet(o) = 1..Len(list)

LEMMA BitCeilIs ==
    ASSUME NEW n \in Nat \ {0}
    PROVE  BitCeil(n) \in Nat
<1> DEFINE T == {k \in Nat : n <= OrderToUnitSize(k)}
<1>1. n \in T
  <2>1. n + 1 <= OrderToUnitSize(n) /\ OrderToUnitSize(n) \in Nat
    BY UnitsAbove, UnitsType
  <2> QED  BY <2>1
<1>2. PICK k \in T : \A y \in T : k <= y
  <2>1. T \subseteq Nat /\ T # {}  BY <1>1
  <2> HIDE DEF T
  <2> QED  BY <2>1, Least
<1>3. PICK c \in Nat : c = OrderToUnitSize(k)  BY <1>2, UnitsType
<1>4. k \in 0..n /\ n <= c  BY <1>1, <1>2, <1>3
<1>5. c \in n..(2 * n) /\ (k > 0 => OrderToUnitSize(k - 1) < n)
  <2>1. CASE k = 0
    <3>1. c = 1  BY <1>3, <2>1, UnitsZero
    <3> QED  BY <1>4, <2>1, <3>1
  <2>2. CASE k # 0
    <3>1. PICK j \in Nat : j + 1 = k
      <4>1. k - 1 \in Nat /\ (k - 1) + 1 = k  BY <1>4, <2>2
      <4> QED  BY <4>1
    <3>2. PICK d \in Nat : d = OrderToUnitSize(j)  BY UnitsType
    <3>3. c = 2 * d  BY <1>3, <3>1, <3>2, UnitsNext
    <3>4. j \notin T  BY <1>2, <3>1
    <3>5. d < n  BY <3>2, <3>4
    <3>6. k - 1 = j  BY <3>1
    <3> QED  BY <1>4, <3>2, <3>3, <3>5, <3>6
  <2> QED  BY <2>1, <2>2
<1>6. c = 2 ^ k /\ (k > 0 => 2 ^ (k - 1) < n)
  BY <1>3, <1>5 DEF OrderToUnitSize
<1>7. \E b \in n..(2 * n) : \E j \in 0..n : b = 2 ^ j /\ (j > 0 => 2 ^ (j - 1) < n)
  BY <1>4, <1>5, <1>6
<1>8. BitCeil(n) \in n..(2 * n)  BY <1>7 DEF BitCeil
<1> QED  BY <1>8

LEMMA FirstFreeIs ==
    ASSUME IsList(pools)
    PROVE  /\ FirstFreeIndex \in 1..(Len(pools) + 1)
           /\ FirstFreeIndex <= Len(pools) => pools[FirstFreeIndex] = NoPool
<1>1. PICK n \in Nat : n = Len(pools)  BY ListIs
<1> DEFINE T == {i \in 1..(n + 1) : i <= n => pools[i] = NoPool}
<1>2. n + 1 \in T  OBVIOUS
<1>3. PICK i \in T : \A y \in T : i <= y
  <2>1. 1..(n + 1) \subseteq Nat  OBVIOUS
  <2>2. T \subseteq 1..(n + 1) /\ T # {}  BY <1>2
  <2> HIDE DEF T
  <2> QED  BY <2>1, <2>2, Least
<1>4. \A j \in 1..(i - 1) : pools[j] # NoPool
  <2> SUFFICES ASSUME NEW j \in 1..(i - 1), pools[j] = NoPool  PROVE FALSE
    OBVIOUS
  <2>1. j \in 1..(n + 1) /\ ~ (i <= j)  BY <1>3
  <2>2. j \in T  BY <2>1
  <2> QED  BY <1>3, <2>1, <2>2
<1>5. \E j \in 1..(Len(pools) + 1) :
        /\ j <= Len(pools) => pools[j] = NoPool
        /\ \A k \in 1..(j - 1) : pools[k] # NoPool
  BY <1>1, <1>3, <1>4
<1> QED  BY <1>5 DEF FirstFreeIndex

LEMMA NewSizeIs ==
    ASSUME NEW size \in Nat \ {0}
    PROVE  NewPoolSize(size) \in Nat
BY BitCeilIs, UploadAssumption DEF NewPoolSize

\* A pool that serves a request has a size.
LEMMA FromNewIs ==
    ASSUME NEW size \in Nat \ {0}, NEW align, ~ Padded(align),
           NEW list, NEW o, NEW i, NEW z \in Nat, list[i] = NewPool(z),
           NEW a \in FromPool(list, o, i, size, align)
    PROVE  z \in Nat \ {0}
<1>1. PICK t : t = GetAlignedSize(size, align)  OBVIOUS
<1>2. t \in Nat \ {0}  BY <1>1, UnpaddedIs
<1>3. PICK f : f \in Found(list[i], t)  BY <1>1 DEF FromPool
<1>4. NewPool(z).freeSize >= t  BY <1>3 DEF Found
<1>5. NewPool(z).freeSize = z  BY DEF NewPool
<1> QED  BY <1>2, <1>4, <1>5

LEMMA BigAllocate ==
    ASSUME NEW M, PoolsOK(pools, M), OrderOK(order, pools),
           NEW size \in Nat \ {0}, NEW align, ~ Padded(align),
           NEW a \in BigAllocations(size, align)
    PROVE  /\ PoolsOK(a.pools, M \cup {a.memory}) /\ OrderOK(a.order, a.pools)
           /\ a.memory \notin M /\ a.memory.heap = "big"
<1>1. IsList(pools)  BY DEF PoolsOK
<1>2. PICK n \in Nat : n = Len(pools)  BY <1>1, ListIs
<1>3. CASE a \in FromExistingPools(size, align)
  <2>1. PICK k \in DOMAIN order :
          pools[order[k]] # NoPool /\ a \in FromPool(pools, order, order[k], size, align)
    BY <1>3 DEF FromExistingPools
  <2>2. PICK i : i = order[k]  OBVIOUS
  <2>3. i \in 1..Len(pools)  BY <2>1, <2>2, ListIs DEF OrderOK
  <2>4. /\ PoolsOK(a.pools, M \cup {a.memory}) /\ Len(a.pools) = Len(pools)
        /\ a.memory \notin M /\ a.memory.heap = "big" /\ a.order = order
    <3>1. a \in FromPool(pools, order, i, size, align) /\ pools[i] # NoPool
      BY <2>1, <2>2
    <3>2. Serves(a, pools, M, order)  BY <2>3, <3>1, PoolsTake
    <3> QED  BY <3>2 DEF Serves
  <2> QED  BY <2>4 DEF OrderOK
<1>4. CASE a \in FromNewPool(size, align)
  <2>1. PICK i : i = FirstFreeIndex  OBVIOUS
  <2>2. PICK z \in Nat : z = NewPoolSize(size)  BY NewSizeIs
  <2>3. i \in 1..(n + 1) /\ (i <= n => pools[i] = NoPool)
    BY <1>1, <1>2, <2>1, FirstFreeIs
  <2>4. IF i <= n
        THEN a \in FromPool(Moved(pools, i, NewPool(z)), order, i, size, align)
        ELSE a \in FromPool(Append(pools, NewPool(z)), Append(order, i), i, size, align)
    BY <1>2, <1>4, <2>1, <2>2 DEF FromNewPool, Moved
  <2>5. CASE i <= n
    <3>1. PICK t : t = Moved(pools, i, NewPool(z))  OBVIOUS
    <3>2. i \in 1..Len(pools) /\ pools[i] = NoPool  BY <1>2, <2>3, <2>5
    <3>3. a \in FromPool(t, order, i, size, align)  BY <2>4, <2>5, <3>1
    <3>4. t[i] = NewPool(z)
      <4>1. i \in DOMAIN pools  BY <1>1, <3>2, ListIs
      <4> QED  BY <3>1, <4>1 DEF Moved
    <3>5. z \in Nat \ {0}  BY <3>3, <3>4, FromNewIs
    <3>6. PoolsOK(t, M) /\ Len(t) = Len(pools) /\ t[i] # NoPool
      BY <3>1, <3>2, <3>5, PoolsMake
    <3>7. /\ PoolsOK(a.pools, M \cup {a.memory}) /\ Len(a.pools) = Len(t)
          /\ a.memory \notin M /\ a.memory.heap = "big" /\ a.order = order
      <4>1. i \in 1..Len(t)  BY <3>2, <3>6
      <4>2. Serves(a, t, M, order)  BY <3>3, <3>6, <4>1, PoolsTake
      <4> QED  BY <4>2 DEF Serves
    <3> QED  BY <3>6, <3>7 DEF OrderOK
  <2>6. CASE ~ (i <= n)
    <3>1. i = n + 1  BY <2>3, <2>6
    <3>2. PICK t, o : t = Append(pools, NewPool(z)) /\ o = Append(order, i)  OBVIOUS
    <3>3. a \in FromPool(t, o, i, size, align)  BY <2>4, <2>6, <3>2
    <3>4. t[i] = NewPool(z)  BY <1>1, <1>2, <3>1, <3>2, ListAppend
    <3>5. z \in Nat \ {0}  BY <3>3, <3>4, FromNewIs
    <3>6. PoolsOK(t, M) /\ Len(t) = n + 1 /\ t[i] # NoPool
      BY <1>2, <3>1, <3>2, <3>5, PoolsAppend
    <3>7. /\ PoolsOK(a.pools, M \cup {a.memory}) /\ Len(a.pools) = Len(t)
          /\ a.memory \notin M /\ a.memory.heap = "big" /\ a.order = o
      <4>1. i \in 1..Len(t)  BY <3>1, <3>6
      <4>2. Serves(a, t, M, o)  BY <3>3, <3>6, <4>1, PoolsTake
      <4> QED  BY <4>2 DEF Serves
    <3>8. OrderOK(o, t)
      <4>1. IsList(order) /\ Len(order) = n /\ ToSet(order) = 1..n
        BY <1>2 DEF OrderOK
      <4>2. IsList(o) /\ Len(o) = n + 1 /\ ToSet(o) = (1..n) \cup {i}
        BY <3>2, <4>1, ListAppend
      <4>3. (1..n) \cup {n + 1} = 1..(n + 1)  OBVIOUS
      <4> QED  BY <3>1, <3>6, <4>2, <4>3 DEF OrderOK
    <3> QED  BY <3>7, <3>8 DEF OrderOK
  <2> QED  BY <2>5, <2>6
<1> QED  BY <1>3, <1>4 DEF BigAllocations

-----------------------------------------------------------------------------
(***************************************************************************)
(* What is owned of the pools, and what was given back and is not free     *)
(* yet: each memory is in one place.                                       *)
(***************************************************************************)
GivenIn(list) == {o.memory : o \in ToSet(list)}

GivenEach(list) ==
    \A i, j \in 1..Len(list) : list[i].memory = list[j].memory => i = j

BigHeld == OwnNow("big") \cup GivenIn(operations)

BigInv ==
    /\ LedgerNow("big")
    /\ GivenEach(operations)
    /\ OwnNow("big") \cap GivenIn(operations) = {}
    /\ PoolsOK(pools, BigHeld)
    /\ OrderOK(order, pools)

GivenMore(t, s, e) == GivenEach(t) /\ GivenIn(t) = GivenIn(s) \cup {e.memory}

LEMMA GivenAppend ==
    ASSUME NEW s, IsList(s), GivenEach(s), NEW e, e.memory \notin GivenIn(s),
           NEW t, t = Append(s, e)
    PROVE  GivenMore(t, s, e)
<1>1. PICK n \in Nat : n = Len(s)  BY ListIs
<1>2. /\ Len(t) = n + 1 /\ t[n + 1] = e /\ \A i \in 1..n : t[i] = s[i]
      /\ ToSet(t) = ToSet(s) \cup {e}
  BY <1>1, ListAppend
<1>3. \A i \in 1..n : s[i] \in ToSet(s)  BY <1>1, ListIs
<1>4. \A i \in 1..n : s[i].memory # e.memory  BY <1>3 DEF GivenIn
<1>5. ASSUME NEW i \in 1..(n + 1), NEW j \in 1..(n + 1), t[i].memory = t[j].memory
      PROVE  i = j
  <2>1. (i \in 1..n \/ i = n + 1) /\ (j \in 1..n \/ j = n + 1)  BY <1>1
  <2>2. i \in 1..n /\ j \in 1..n => i = j  BY <1>1, <1>2, <1>5 DEF GivenEach
  <2> QED  BY <1>2, <1>4, <1>5, <2>1, <2>2
<1>6. GivenEach(t)  BY <1>2, <1>5 DEF GivenEach
<1>7. GivenIn(t) = GivenIn(s) \cup {e.memory}  BY <1>2 DEF GivenIn
<1> QED  BY <1>6, <1>7 DEF GivenMore

GivenLess(t, s, m) == GivenEach(t) /\ GivenIn(t) = GivenIn(s) \ {m} /\ m \in GivenIn(s)

LEMMA GivenTail ==
    ASSUME NEW s, IsList(s), GivenEach(s), s # <<>>, NEW t, t = Tail(s),
           NEW m, m = Head(s).memory
    PROVE  GivenLess(t, s, m)
<1>1. PICK n \in Nat : n + 1 = Len(s)
  <2>1. Len(s) \in Nat \ {0}  BY ListTail
  <2>2. Len(s) - 1 \in Nat /\ (Len(s) - 1) + 1 = Len(s)  BY <2>1
  <2> QED  BY <2>2
<1>2. /\ IsList(t) /\ Len(t) = n /\ s[1].memory = m
      /\ \A i \in 1..n : t[i] = s[i + 1]
      /\ ToSet(s) = ToSet(t) \cup {Head(s)}
  BY <1>1, ListTail
<1>3. \A i \in 1..n : i + 1 \in 1..(n + 1) /\ i + 1 # 1  BY <1>1
<1>4. 1 \in 1..(n + 1)  BY <1>1
<1>5. \A i, j \in 1..(n + 1) : s[i].memory = s[j].memory => i = j
  BY <1>1 DEF GivenEach
<1>6. GivenEach(t)
  <2>1. ASSUME NEW i \in 1..n, NEW j \in 1..n, t[i].memory = t[j].memory  PROVE i = j
    <3>1. i + 1 = j + 1  BY <1>2, <1>3, <1>5, <2>1
    <3> QED  BY <3>1
  <2> QED  BY <1>2, <2>1 DEF GivenEach
<1>7. \A i \in 1..n : t[i].memory # m  BY <1>2, <1>3, <1>4, <1>5
<1>8. m \notin GivenIn(t)
  <2>1. \A o \in ToSet(t) : \E i \in 1..n : o = t[i]  BY <1>2, ListIs
  <2> QED  BY <1>7, <2>1 DEF GivenIn
<1>9. GivenIn(s) = GivenIn(t) \cup {m}  BY <1>2 DEF GivenIn
<1> QED  BY <1>6, <1>8, <1>9 DEF GivenLess

LEMMA BigInit ==
    ASSUME Init
    PROVE  BigInv
<1>1. /\ location = [b \in Buffers |-> NoBlock] /\ commands = <<>> /\ pools = <<>>
      /\ operations = <<>> /\ order = <<>>
  BY DEF Init
<1>2. Len(<<>>) = 0 /\ IsList(<<>>) /\ ToSet(<<>>) = {}  BY EmptyList
<1>3. \A i : i \notin 1..0  OBVIOUS
<1>4. LocatedOf(location, "big") = {}  BY <1>1 DEF LocatedOf, NoBlock
<1>5. CarriedOf(commands, "big") = {}  BY <1>1, <1>2, <1>3 DEF CarriedOf
<1>6. OwnNow("big") = {}  BY <1>4, <1>5 DEF OwnNow, OwnBy
<1>7. LedgerNow("big")
  <2>1. \A b \in Buffers : location[b].heap # "big"  BY <1>1 DEF NoBlock
  <2> QED  BY <1>1, <1>2, <1>3, <1>4, <2>1 DEF LedgerNow, Ledger
<1>8. GivenIn(operations) = {}  BY <1>1, <1>2 DEF GivenIn
<1>9. GivenEach(operations)  BY <1>1, <1>2, <1>3 DEF GivenEach
<1>10. BigHeld = {}  BY <1>6, <1>8 DEF BigHeld
<1>11. PoolsOK(pools, {})  BY <1>1, <1>2, <1>3 DEF PoolsOK
<1>12. OrderOK(order, pools)
  <2>1. 1..0 = {}  BY <1>3
  <2> QED  BY <1>1, <1>2, <2>1 DEF OrderOK
<1> QED  BY <1>6, <1>7, <1>9, <1>10, <1>11, <1>12 DEF BigInv

LEMMA SmallLeavesBig ==
    ASSUME NEW size, NEW align, NEW a \in SmallAllocations(size, align)
    PROVE  a.pools = pools /\ a.order = order /\ a.memory.heap = "small"
<1>1. PICK list, i : a = [small |-> [list EXCEPT ![i] = AllocateBlock(list[i], size, align)],
                          pools |-> pools, order |-> order,
                          memory |-> SmallMemory(list[i], size, align)]
  BY DEF SmallAllocations
<1> QED  BY <1>1 DEF SmallMemory

\* A request of the program is served by an allocator or by a pool.
LEMMA BigTakeStep ==
    ASSUME AlignmentsDivide, BigInv, TakeStep
    PROVE  BigInv'
<1>1. PICK size, align, a : Took(size, align, a)  BY DEF TakeStep
<1>2. /\ size \in Nat \ {0} /\ a \in Allocations(size, align) /\ ~ Padded(align)
      /\ pools' = a.pools /\ order' = a.order /\ operations' = operations
      /\ AddsOwn(a.memory)
  BY <1>1 DEF Took, Takes, AlignmentsDivide
<1>3. PICK O, G, M, m : /\ O = OwnNow("big") /\ G = GivenIn(operations)
                        /\ M = BigHeld /\ m = a.memory
  OBVIOUS
<1>4. /\ LedgerNow("big") /\ GivenEach(operations) /\ O \cap G = {} /\ M = O \cup G
      /\ PoolsOK(pools, M) /\ OrderOK(order, pools) /\ "big" \in Heaps
  BY <1>3 DEF BigInv, BigHeld, Heaps
<1>5. GivenIn(operations)' = G /\ GivenEach(operations)'
  BY <1>2, <1>3, <1>4 DEF GivenIn, GivenEach
<1>6. CASE Fits(size)
  <2>1. a \in SmallAllocations(size, align)  BY <1>2, <1>6 DEF Allocations
  <2>2. pools' = pools /\ order' = order /\ m.heap = "small"
    BY <1>2, <1>3, <2>1, SmallLeavesBig
  <2>3. LedgerNow("big")' /\ OwnNow("big")' = O \cup Only(m, "big")
    BY <1>2, <1>3, <1>4, <2>2 DEF AddsOwn
  <2>4. Only(m, "big") = {}  BY <2>2 DEF Only
  <2>5. OwnNow("big")' = O  BY <2>3, <2>4
  <2>6. BigHeld' = M  BY <1>4, <1>5, <2>5 DEF BigHeld
  <2> QED  BY <1>4, <1>5, <2>2, <2>3, <2>5, <2>6 DEF BigInv
<1>7. CASE ~ Fits(size)
  <2>1. a \in BigAllocations(size, align)  BY <1>2, <1>7 DEF Allocations
  <2>2. /\ PoolsOK(pools', M \cup {m}) /\ OrderOK(order', pools')
        /\ m \notin M /\ m.heap = "big"
    BY <1>2, <1>3, <1>4, <2>1, BigAllocate
  <2>3. LedgerNow("big")' /\ OwnNow("big")' = O \cup Only(m, "big")
    BY <1>2, <1>3, <1>4, <2>2 DEF AddsOwn
  <2>4. Only(m, "big") = {m}  BY <2>2 DEF Only
  <2>5. OwnNow("big")' = O \cup {m}  BY <2>3, <2>4
  <2>6. BigHeld' = M \cup {m}  BY <1>4, <1>5, <2>5 DEF BigHeld
  <2>7. OwnNow("big")' \cap G = {}  BY <1>4, <2>2, <2>5
  <2> QED  BY <1>5, <2>2, <2>3, <2>6, <2>7 DEF BigInv
<1> QED  BY <1>6, <1>7

LEMMA BigGiveStep ==
    ASSUME FrameInv, OperationsOK, BigInv, GiveStep
    PROVE  BigInv'
<1>1. PICK m : InHeap(m) /\ GiveBack(m) /\ UNCHANGED order /\ RemovesOwn(m)
  BY DEF GiveStep
<1>2. PICK O, G, M : O = OwnNow("big") /\ G = GivenIn(operations) /\ M = BigHeld
  OBVIOUS
<1>3. /\ LedgerNow("big") /\ GivenEach(operations) /\ O \cap G = {} /\ M = O \cup G
      /\ PoolsOK(pools, M) /\ OrderOK(order, pools) /\ "big" \in Heaps
      /\ IsList(operations) /\ frame \in Nat
  BY <1>2 DEF BigInv, BigHeld, Heaps, OperationsOK, FrameInv, FrameTypes
<1>4. /\ LedgerNow("big")' /\ OwnNow("big")' = O \ {m}
      /\ m.heap = "big" => m \in O
  BY <1>1, <1>2, <1>3 DEF RemovesOwn
<1>5. CASE m.heap = "small"
  <2>1. pools' = pools /\ operations' = operations
    BY <1>1, <1>5 DEF GiveBack, GiveBackSmall
  <2>2. GivenIn(operations)' = G /\ GivenEach(operations)'
    BY <1>2, <1>3, <2>1 DEF GivenIn, GivenEach
  <2>3. m \notin O  BY <1>2, <1>5, OwnHeap DEF OwnNow
  <2>4. OwnNow("big")' = O  BY <1>4, <2>3
  <2>5. BigHeld' = M  BY <1>3, <2>2, <2>4 DEF BigHeld
  <2> QED  BY <1>1, <1>3, <1>4, <2>1, <2>2, <2>4, <2>5 DEF BigInv
<1>6. CASE m.heap = "big"
  <2>1. PICK e : e = Entry(frame, m)  OBVIOUS
  <2>2. e.memory = m /\ operations' = Append(operations, e)
    BY <1>1, <1>6, <2>1 DEF Entry, GiveBack, GiveBackBig, RetireFence
  <2>3. pools' = MarkAt(pools, m.at, frame)
    BY <1>1, <1>6 DEF GiveBack, GiveBackBig, RetireFence, MarkAt
  <2>4. m \in O /\ m \in M /\ m \notin G  BY <1>3, <1>4, <1>6
  <2>5. PICK t : t = operations'  OBVIOUS
  <2>6. GivenMore(t, operations, e)
    BY <1>2, <1>3, <2>2, <2>4, <2>5, GivenAppend
  <2>7. GivenIn(operations)' = G \cup {m} /\ GivenEach(operations)'
    BY <1>2, <2>2, <2>5, <2>6 DEF GivenMore, GivenIn, GivenEach
  <2>8. BigHeld' = M  BY <1>3, <1>4, <2>4, <2>7 DEF BigHeld
  <2>9. OwnNow("big")' \cap GivenIn(operations)' = {}  BY <1>3, <1>4, <2>7
  <2>10. PICK l : l = pools'  OBVIOUS
  <2>11. PoolsOK(l, M) /\ Len(l) = Len(pools)
    BY <1>3, <2>3, <2>4, <2>10, PoolsMark
  <2>12. OrderOK(order', l)  BY <1>1, <1>3, <2>11 DEF OrderOK
  <2> QED  BY <1>4, <2>7, <2>8, <2>9, <2>10, <2>11, <2>12 DEF BigInv
<1> QED  BY <1>1, <1>5, <1>6 DEF InHeap

LEMMA BigKeepStep ==
    ASSUME OperationsOK, BigInv, KeepStep
    PROVE  BigInv'
<1>1. PICK O, G, M : O = OwnNow("big") /\ G = GivenIn(operations) /\ M = BigHeld
  OBVIOUS
<1>2. /\ LedgerNow("big") /\ GivenEach(operations) /\ O \cap G = {} /\ M = O \cup G
      /\ PoolsOK(pools, M) /\ OrderOK(order, pools) /\ "big" \in Heaps
      /\ IsList(operations)
  BY <1>1 DEF BigInv, BigHeld, Heaps, OperationsOK
<1>3. LedgerNow("big")' /\ OwnNow("big")' = O
  BY <1>1, <1>2 DEF KeepStep, KeepsOwn
<1>4. CASE UNCHANGED heapVars \/ FreeRetired \/ TrimSmall
  <2>1. UNCHANGED <<pools, order, operations>>
    BY <1>4 DEF heapVars, FreeRetired, TrimSmall
  <2>2. GivenIn(operations)' = G /\ GivenEach(operations)'
    BY <1>1, <1>2, <2>1 DEF GivenIn, GivenEach
  <2>3. BigHeld' = M  BY <1>2, <1>3, <2>2 DEF BigHeld
  <2> QED  BY <1>2, <1>3, <2>1, <2>2, <2>3 DEF BigInv
<1>5. CASE FreeOperation
  <2>1. PICK m, t, l : m = Head(operations).memory /\ t = operations' /\ l = pools'
    OBVIOUS
  <2>2. operations # <<>> /\ t = Tail(operations) /\ order' = order
    BY <1>5, <2>1 DEF FreeOperation, MayFree, Remaining
  <2>3. l = FreeAt(pools, m)
    BY <1>5, <2>1 DEF FreeOperation, FreeAt
  <2>4. GivenLess(t, operations, m)  BY <1>2, <2>1, <2>2, GivenTail
  <2>5. GivenIn(operations)' = G \ {m} /\ GivenEach(operations)' /\ m \in G
    BY <1>1, <2>1, <2>4 DEF GivenLess, GivenIn, GivenEach
  <2>6. m \in M /\ m \notin O  BY <1>2, <2>5
  <2>7. PoolsOK(l, M \ {m}) /\ Len(l) = Len(pools)
    BY <1>2, <2>3, <2>6, PoolsFree
  <2>8. BigHeld' = M \ {m}  BY <1>2, <1>3, <2>5, <2>6 DEF BigHeld
  <2>9. OwnNow("big")' \cap GivenIn(operations)' = {}  BY <1>2, <1>3, <2>5
  <2>10. OrderOK(order', l)  BY <1>2, <2>2, <2>7 DEF OrderOK
  <2> QED  BY <1>3, <2>1, <2>5, <2>7, <2>8, <2>9, <2>10 DEF BigInv
<1>6. CASE TrimBig
  <2>1. PICK l : l = pools'  OBVIOUS
  <2>2. /\ operations' = operations
        /\ l = [i \in DOMAIN pools |->
                  IF pools[i] # NoPool /\ PoolStays(pools[i]) THEN pools[i] ELSE NoPool]
    BY <1>6, <2>1 DEF TrimBig
  <2>3. order' \in [DOMAIN order -> ToSet(order)] /\ ToSet(order') = ToSet(order)
    BY <1>6 DEF TrimBig
  <2>4. GivenIn(operations)' = G /\ GivenEach(operations)'
    BY <1>1, <1>2, <2>2 DEF GivenIn, GivenEach
  <2>5. BigHeld' = M  BY <1>2, <1>3, <2>4 DEF BigHeld
  <2>6. PoolsOK(l, M) /\ Len(l) = Len(pools)  BY <1>2, <2>2, PoolsTrim
  <2>7. OrderOK(order', l)
    <3>1. PICK n \in Nat : n = Len(order) /\ DOMAIN order = 1..n
      BY <1>2, ListIs DEF OrderOK
    <3>2. PICK o : o = order'  OBVIOUS
    <3>3. o = [i \in 1..n |-> o[i]]  BY <2>3, <3>1, <3>2
    <3>4. IsList(o) /\ Len(o) = n  BY <3>1, <3>3, ListMake
    <3> QED  BY <1>2, <2>3, <2>6, <3>1, <3>2, <3>4 DEF OrderOK
  <2> QED  BY <1>2, <1>3, <2>1, <2>4, <2>5, <2>6, <2>7 DEF BigInv
<1> QED  BY <1>4, <1>5, <1>6 DEF KeepStep

LEMMA BigNext ==
    ASSUME AlignmentsDivide, FrameInv, HandInv, OperationsOK, BigInv, [Next]_vars
    PROVE  BigInv'
BY OwnNext, BigTakeStep, BigGiveStep, BigKeepStep

-----------------------------------------------------------------------------
(***************************************************************************)
(* What is held, by the kind of its allocator.                             *)
(***************************************************************************)
LEMMA HeldKinds ==
    ASSUME FrameInv, HandInv, SmallInv, OperationsOK, NEW m \in Held
    PROVE  \/ m.heap = "small" /\ \E i \in 1..Len(small) : m.at = small[i].id
           \/ m.heap = "big"
           \/ m.heap = "page" /\ \E p \in pages : m = PageMemory(p.id)
<1>1. IsList(commands) /\ IsList(small)
  BY DEF FrameInv, FrameTypes, SmallInv, SmallOK
<1>2. CASE m \in Owned
  <2>1. InHeap(m)
    <3>1. \A b \in Buffers : location[b] = NoBlock \/ InHeap(location[b])
      BY DEF HandInv, LocationOK
    <3>2. \A c \in ToSet(commands) : c.op \in {"rename", "copy"} => InHeap(c.memory)
      BY DEF HandInv, CommandOK
    <3> QED  BY <1>2, <3>1, <3>2 DEF Owned, Carried
  <2>2. CASE m.heap = "small"
    <3>1. "small" \in Heaps  BY DEF Heaps
    <3>2. m \in OwnNow("small")  BY <1>1, <1>2, <2>2, <3>1, OwnIs DEF Own, OwnNow
    <3> QED  BY <2>2, <3>2 DEF SmallInv, SmallOK
  <2> QED  BY <2>1, <2>2 DEF InHeap
<1>3. CASE m \in RetiredSmall
  <2>1. PICK a \in ToSet(small) : m \in Freed(a)  BY <1>3 DEF RetiredSmall, Freed
  <2>2. PICK i \in 1..Len(small) : a = small[i]  BY <1>1, <2>1, ListIs
  <2>3. IsSmall(m, a.id)  BY <2>1, <2>2 DEF SmallInv, SmallOK, AllocatorOK
  <2> QED  BY <2>2, <2>3 DEF IsSmall
<1>4. CASE m \in RetiredBig  BY <1>4 DEF RetiredBig, OperationsOK
<1>5. CASE \E p \in pages : m = PageMemory(p.id)  BY <1>5 DEF PageMemory
<1> QED  BY <1>2, <1>3, <1>4, <1>5 DEF Held

LEMMA HeldBig ==
    ASSUME FrameInv, SmallInv, BigInv, NEW m
    PROVE  m \in Held /\ m.heap = "big" <=> m \in BigHeld
<1>1. IsList(commands) /\ IsList(small) /\ "big" \in Heaps
  BY DEF FrameInv, FrameTypes, SmallInv, SmallOK, Heaps
<1>2. GivenIn(operations) = RetiredBig  BY DEF GivenIn, RetiredBig
<1>3. m \in OwnNow("big") <=> m \in Owned /\ m.heap = "big"
  BY <1>1, OwnIs DEF Own, OwnNow
<1>4. m \in BigHeld => m.heap = "big"  BY BigIs DEF BigInv, PoolsOK
<1>5. m \in RetiredSmall => m.heap # "big"
  <2> SUFFICES ASSUME m \in RetiredSmall  PROVE m.heap # "big"
    OBVIOUS
  <2>1. PICK a \in ToSet(small) : m \in Freed(a)  BY DEF RetiredSmall, Freed
  <2>2. PICK i \in 1..Len(small) : a = small[i]  BY <1>1, <2>1, ListIs
  <2>3. IsSmall(m, a.id)  BY <2>1, <2>2 DEF SmallInv, SmallOK, AllocatorOK
  <2> QED  BY <2>3 DEF IsSmall
<1>6. \A p : m = PageMemory(p) => m.heap # "big"  BY DEF PageMemory
<1> QED  BY <1>2, <1>3, <1>4, <1>5, <1>6 DEF BigHeld, Held

\* The bytes of two memories of an allocator are those of two of its blocks.
LEMMA ApartSmall ==
    ASSUME NEW a, NEW O, AllocatorOK(a, O),
           NEW m \in O \cup Freed(a), NEW n \in O \cup Freed(a), m # n
    PROVE  ~ Overlap(m.bytes, n.bytes)
<1>1. PICK T, H : T = O \cup Freed(a) /\ H = Blocks(T)  OBVIOUS
<1>2. /\ BuddyOK(a, H) /\ InBlock(m) /\ InBlock(n)
      /\ \A x, y \in T : x.block = y.block => x = y
  BY <1>1 DEF AllocatorOK, BlockEach, IsSmall
<1>3. m.block \in H /\ n.block \in H /\ m.block # n.block
  BY <1>1, <1>2 DEF Blocks
<1>4. Apart(m.block, n.block) /\ m.block \in BuddyBlock /\ n.block \in BuddyBlock
  BY <1>2, <1>3 DEF BuddyOK, BlocksOK, Tiled, Placed
<1>5. PICK x \in Nat, y \in Nat, v \in Nat, w \in Nat :
        /\ x = m.block.offset /\ y = Stop(m.block)
        /\ v = n.block.offset /\ w = Stop(n.block)
  BY <1>4, BlockTypes DEF Stop
<1>6. PICK o \in Nat, s \in Nat, q \in Nat, r \in Nat :
        /\ o = m.bytes.offset /\ s = m.bytes.size
        /\ q = n.bytes.offset /\ r = n.bytes.size
  BY <1>2 DEF InBlock
<1>7. PICK u \in Nat \ {0} : u = MinBlockSize  BY BuddyAssumption
<1>8. o + s <= y * u /\ x * u <= o /\ q + r <= w * u /\ v * u <= q
  BY <1>2, <1>5, <1>6, <1>7 DEF InBlock
<1>9. y <= v \/ w <= x  BY <1>4, <1>5 DEF Apart
<1>10. y <= v => y * u <= v * u
  BY <1>5, <1>7
<1>11. w <= x => w * u <= x * u
  BY <1>5, <1>7
<1>12. o + s <= q \/ q + r <= o
  <2>1. PICK b1 \in Nat, b2 \in Nat, b3 \in Nat, b4 \in Nat :
          b1 = y * u /\ b2 = v * u /\ b3 = w * u /\ b4 = x * u
    BY <1>5, <1>7
  <2> QED  BY <1>6, <1>8, <1>9, <1>10, <1>11, <2>1
<1> QED  BY <1>6, <1>12 DEF Overlap, End

\* The bytes of two memories of a pool are those of two of its blocks.
LEMMA ApartBig ==
    ASSUME NEW list, NEW M, PoolsOK(list, M), NEW m \in M, NEW n \in M,
           m.at = n.at, m # n
    PROVE  ~ Overlap(m.bytes, n.bytes)
<1>1. PICK i : i = m.at /\ i = n.at /\ i \in 1..Len(list) /\ list[i] # NoPool
  BY DEF PoolsOK
<1>2. PICK x, y : x = Taken(m.block) /\ y = Taken(n.block)  OBVIOUS
<1>3. x \in UsedOf(i, M) /\ y \in UsedOf(i, M) /\ x # y
  BY <1>1, <1>2 DEF UsedOf, InPool, PoolsOK
<1>4. PoolOK(list[i], UsedOf(i, M))  BY <1>1 DEF PoolsOK
<1>5. Beside(x, y)  BY <1>3, <1>4 DEF PoolOK, PoolAt, FreeAround, Filled
<1>6. IsBig(m) /\ IsBig(n)  BY DEF PoolsOK
<1>7. \A k \in M : IsBig(k) =>
        /\ k.bytes.offset \in Nat /\ k.bytes.size \in Nat \ {0}
        /\ Taken(k.block).offset = k.bytes.offset
        /\ k.bytes.size <= Taken(k.block).size /\ Taken(k.block).size \in Nat
  <2> SUFFICES ASSUME NEW k \in M, IsBig(k)
               PROVE  /\ k.bytes.offset \in Nat /\ k.bytes.size \in Nat \ {0}
                      /\ Taken(k.block).offset = k.bytes.offset
                      /\ k.bytes.size <= Taken(k.block).size /\ Taken(k.block).size \in Nat
    OBVIOUS
  <2>1. PICK o \in Nat, s \in Nat \ {0} : o = k.block.offset /\ s = k.block.size
    BY DEF IsBig
  <2>2. Multiple(o, PoolAlignment)  BY <2>1 DEF IsBig
  <2>3. k.bytes = k.block  BY BigIs
  <2>4. Taken(k.block).offset = o /\ Taken(k.block).size = AlignArbitrary(s, PoolAlignment)
    BY <2>1, <2>2, TakenIs
  <2>5. AlignArbitrary(s, PoolAlignment) \in Nat /\ s <= AlignArbitrary(s, PoolAlignment)
    BY <2>1, AlignIs, PoolAlignmentAssumption
  <2> QED  BY <2>1, <2>3, <2>4, <2>5
<1>8. PICK o \in Nat, s \in Nat, q \in Nat, r \in Nat :
        /\ o = m.bytes.offset /\ s = m.bytes.size
        /\ q = n.bytes.offset /\ r = n.bytes.size
  BY <1>6, <1>7
<1>9. PICK c \in Nat, d \in Nat : c = x.size /\ d = y.size /\ s <= c /\ r <= d
  BY <1>2, <1>6, <1>7, <1>8
<1>10. x.offset = o /\ y.offset = q  BY <1>2, <1>6, <1>7, <1>8
<1>11. o + c <= q \/ q + d <= o  BY <1>5, <1>9, <1>10 DEF Beside, End
<1>12. o + s <= q \/ q + r <= o  BY <1>8, <1>9, <1>11
<1> QED  BY <1>8, <1>12 DEF Overlap, End

HeapInv == FrameInv /\ HandInv /\ SmallInv /\ OperationsOK /\ BigInv

LEMMA HeapInit ==
    ASSUME Init
    PROVE  HeapInv
BY FrameInit, HandInit, SmallInit, UseInit, BigInit DEF UseInv, HeapInv

LEMMA HeapNext ==
    ASSUME AlignmentsDivide, HeapInv, [Next]_vars
    PROVE  HeapInv'
BY FrameNext, HandNext, SmallNext, OperationsNext, BigNext DEF HeapInv

LEMMA HeldOfSmall ==
    ASSUME HeapInv, NEW m \in Held, m.heap = "small"
    PROVE  \E i \in 1..Len(small) :
             /\ m.at = small[i].id /\ small[i] \in ToSet(small)
             /\ m \in OwnedOf(small[i].id, OwnNow("small")) \cup Freed(small[i])
<1>1. PICK i \in 1..Len(small) : m.at = small[i].id  BY HeldKinds DEF HeapInv
<1>2. m \in HeldFrom("small", small[i].id)  BY <1>1 DEF HeldFrom
<1>3. small[i] \in ToSet(small)  BY ListIs DEF HeapInv, SmallInv, SmallOK
<1> QED  BY <1>1, <1>2, <1>3, HeldFromSmall DEF HeapInv

LEMMA HeldApart ==
    ASSUME HeapInv
    PROVE  NoOverlap
<1>1. ASSUME NEW m \in Held, NEW n \in Held, m # n, m.heap = n.heap, m.at = n.at
      PROVE  ~ Overlap(m.bytes, n.bytes)
  <2>1. CASE m.heap = "small"
    <3>1. PICK i \in 1..Len(small) :
            /\ m.at = small[i].id
            /\ m \in OwnedOf(small[i].id, OwnNow("small")) \cup Freed(small[i])
      BY <2>1, HeldOfSmall
    <3>2. PICK j \in 1..Len(small) :
            /\ n.at = small[j].id
            /\ n \in OwnedOf(small[j].id, OwnNow("small")) \cup Freed(small[j])
      BY <1>1, <2>1, HeldOfSmall
    <3>3. j = i  BY <1>1, <3>1, <3>2 DEF HeapInv, SmallInv, SmallOK
    <3>4. AllocatorOK(small[i], OwnedOf(small[i].id, OwnNow("small")))
      BY DEF HeapInv, SmallInv, SmallOK
    <3> QED  BY <1>1, <3>1, <3>2, <3>3, <3>4, ApartSmall
  <2>2. CASE m.heap = "big"
    <3>1. m \in BigHeld /\ n \in BigHeld  BY <1>1, <2>2, HeldBig DEF HeapInv
    <3>2. PoolsOK(pools, BigHeld)  BY DEF HeapInv, BigInv
    <3> QED  BY <1>1, <3>1, <3>2, ApartBig
  <2>3. CASE m.heap = "page"
    <3>1. (\E p \in pages : m = PageMemory(p.id)) /\ (\E p \in pages : n = PageMemory(p.id))
      BY <1>1, <2>3, HeldKinds DEF HeapInv
    <3>2. m = n  BY <1>1, <3>1 DEF PageMemory
    <3> QED  BY <1>1, <3>2
  <2> QED  BY <2>1, <2>2, <2>3, HeldKinds DEF HeapInv
<1> QED  BY <1>1 DEF NoOverlap

LEMMA HeldExists ==
    ASSUME HeapInv
    PROVE  NeededStay
<1>1. ASSUME NEW m \in Held  PROVE Existing(m)
  <2>1. CASE m.heap = "small"
    <3>1. \E a \in ToSet(small) : a.id = m.at  BY <2>1, HeldOfSmall
    <3> QED  BY <2>1, <3>1 DEF Existing
  <2>2. CASE m.heap = "big"
    <3>1. m \in BigHeld  BY <2>2, HeldBig DEF HeapInv
    <3>2. m.at \in 1..Len(pools) /\ pools[m.at] # NoPool /\ DOMAIN pools = 1..Len(pools)
      BY <3>1, ListIs DEF HeapInv, BigInv, PoolsOK
    <3> QED  BY <2>2, <3>2 DEF Existing
  <2>3. CASE m.heap = "page" /\ \E p \in pages : m = PageMemory(p.id)
    BY <2>3 DEF Existing, PageMemory
  <2> QED  BY <2>1, <2>2, <2>3, HeldKinds DEF HeapInv
<1> QED  BY <1>1 DEF NeededStay

LEMMA PoolHolds ==
    ASSUME HeapInv, NEW i \in 1..Len(pools), pools[i] # NoPool
    PROVE  /\ InUse(i) = UsedOf(i, BigHeld)
           /\ PoolOK(pools[i], UsedOf(i, BigHeld))
<1>1. \A m : m \in HeldFrom("big", i) <=> m \in BigHeld /\ InPool(m, i)
  BY HeldBig DEF HeapInv, HeldFrom, InPool
<1>2. InUse(i) = UsedOf(i, BigHeld)  BY <1>1 DEF InUse, UsedOf
<1> QED  BY <1>2 DEF HeapInv, BigInv, PoolsOK

LEMMA FreeIsExact ==
    ASSUME NEW p, NEW U, PoolAt(p, U)
    PROVE  /\ Disjoint(p.free \cup U)
           /\ p.free \cap U = {}
           /\ Bytes(p.free \cup U) = 0..(p.size - 1)
           /\ p.freeSize = TotalSize(p.free) /\ p.freeSize \in 0..p.size
           /\ \A f, g \in p.free : End(f) # g.offset
<1>1. p.size \in Nat  BY DEF PoolAt
<1>2. PICK T, F, z : T = p.free \cup U /\ z = p.size /\ F = p.free  OBVIOUS
<1>3. z \in Nat  BY <1>1, <1>2
<1>4. Filled(T, z)  BY <1>2, <1>3 DEF PoolAt, FreeAround
<1>5. \A b \in T : Within(b, z)  BY <1>4 DEF Filled
<1>6. \A b \in T : b.offset \in Nat /\ End(b) \in Nat /\ b.offset < End(b)
  BY <1>5, ExtentIs DEF Within
<1>7. \A b, c \in T : b # c => Beside(b, c)  BY <1>4 DEF Filled
<1>8. Disjoint(T)
  <2>1. ASSUME NEW b \in T, NEW c \in T, b # c  PROVE ~ Overlap(b, c)
    <3>1. Beside(b, c)  BY <1>7, <2>1
    <3>2. /\ b.offset \in Nat /\ End(b) \in Nat /\ b.offset < End(b)
          /\ c.offset \in Nat /\ End(c) \in Nat /\ c.offset < End(c)
      BY <1>6
    <3> QED  BY <3>1, <3>2 DEF Beside, Overlap
  <2> QED  BY <2>1 DEF Disjoint
<1>9. Bytes(T) = 0..(z - 1)
  <2>1. Bytes(T) = {u \in 0..(z - 1) : \E b \in T : HasByte(b, u)}
    BY <1>3, <1>5, BytesIs
  <2> QED  BY <1>4, <2>1 DEF Filled
<1>10. TotalSize(F) \in Nat /\ TotalSize(F) <= z
  <2>1. \A b \in F : Within(b, z)  BY <1>2, <1>3, <1>5
  <2> QED  BY <1>3, <2>1, BytesIs
<1>11. p.freeSize = TotalSize(F)  BY <1>2, <1>3 DEF PoolAt
<1>12. TotalSize(F) \in 0..z  BY <1>10
<1> QED  BY <1>2, <1>3, <1>8, <1>9, <1>11, <1>12 DEF PoolAt, FreeAround

LEMMA PoolsHold ==
    ASSUME HeapInv
    PROVE  PoolsExact
<1>1. DOMAIN pools = 1..Len(pools)  BY ListIs DEF HeapInv, BigInv, PoolsOK
<1>2. ASSUME NEW i \in 1..Len(pools), pools[i] # NoPool  PROVE FreeListExact(i)
  <2>1. PoolAt(pools[i], InUse(i))  BY <1>2, PoolHolds DEF PoolOK
  <2>2. /\ Disjoint(pools[i].free \cup InUse(i))
        /\ pools[i].free \cap InUse(i) = {}
        /\ Bytes(pools[i].free \cup InUse(i)) = 0..(pools[i].size - 1)
        /\ pools[i].freeSize = TotalSize(pools[i].free)
        /\ \A f, g \in pools[i].free : End(f) # g.offset
    BY <2>1, FreeIsExact
  <2> QED  BY <2>2 DEF FreeListExact
<1> QED  BY <1>1, <1>2 DEF PoolsExact

LEMMA UsedBounds ==
    ASSUME NEW a, NEW H, BuddyOK(a, H)
    PROVE  a.used \in 0..MaxBlockSize
<1>1. PICK n \in Nat, l \in Nat, s \in Nat \ {0} :
        n = Cardinality(Covered(H)) /\ l = LastUnit /\ s = MinBlockSize
  BY CoveredFinite, BuddyAssumption
<1>2. n <= l
  <2>1. IsFiniteSet(1..l) /\ Cardinality(1..l) = l
    <3>1. IsFiniteSet(1..l) /\ Cardinality(1..l) = IF 1 > l THEN 0 ELSE l - 1 + 1
      BY FS_Interval
    <3> QED  BY <3>1
  <2>2. PICK C : C = Covered(H)  OBVIOUS
  <2>3. C \in SUBSET (1..l)  BY <1>1, <2>2 DEF Covered
  <2>4. Cardinality(C) <= Cardinality(1..l)  BY <2>1, <2>3, FS_Subset
  <2> QED  BY <1>1, <2>1, <2>2, <2>4
<1>3. MaxBlockSize = (l + 1) * s
  <2>1. OrderToUnitSize(MaxOrder) = l + 1
    BY <1>1, UnitsType, BuddyAssumption DEF LastUnit
  <2> QED  BY <1>1, <2>1 DEF MaxBlockSize, OrderToUnitSize
<1>4. a.used = (n + 1) * s  BY <1>1 DEF BuddyOK, UsedFor
<1>5. (n + 1) * s \in Nat /\ (l + 1) * s \in Nat /\ (n + 1) * s <= (l + 1) * s
  BY <1>1, <1>2
<1> QED  BY <1>3, <1>4, <1>5

LEMMA TypesHold ==
    ASSUME HeapInv
    PROVE  TypeOK
<1>1. /\ frame \in Nat \ {0}
      /\ stage \in {"commands", "small", "big", "trim pools", "pages", "flush", "fast"}
      /\ completed <= ended /\ ended < frame
  <2>1. ended \in Nat /\ frame \in Nat /\ ended + 1 <= frame
    BY OpenBefore DEF HeapInv
  <2>2. frame \in Nat \ {0} /\ ended < frame  BY <2>1
  <2> QED  BY <2>2 DEF HeapInv, FrameInv, FrameTypes, Stage
<1>2. ASSUME NEW a \in ToSet(small)  PROVE a.used \in 0..MaxBlockSize
  <2>1. IsList(small)  BY DEF HeapInv, SmallInv, SmallOK
  <2>2. PICK i \in 1..Len(small) : a = small[i]  BY <2>1, ListIs
  <2> QED  BY <2>2, UsedBounds DEF HeapInv, SmallInv, SmallOK, AllocatorOK
<1>3. DOMAIN pools = 1..Len(pools)  BY ListIs DEF HeapInv, BigInv, PoolsOK
<1>4. ASSUME NEW i \in 1..Len(pools), pools[i] # NoPool
      PROVE  pools[i].freeSize \in 0..pools[i].size
  <2>1. PoolAt(pools[i], InUse(i))  BY <1>4, PoolHolds DEF PoolOK
  <2> QED  BY <2>1, FreeIsExact
<1>5. ToSet(order) = DOMAIN pools /\ Len(order) = Len(pools)
  BY <1>3 DEF HeapInv, BigInv, OrderOK
<1> QED  BY <1>1, <1>2, <1>3, <1>4, <1>5 DEF TypeOK

(***************************************************************************)
(* The types of the upload heap, the bounds of its counters and the order  *)
(* of its pools, when every alignment that is asked for divides that of    *)
(* the pools.                                                              *)
(***************************************************************************)
THEOREM HeapTyped ==
    ASSUME AlignmentsDivide
    PROVE  Spec => []TypeOK
<1>1. Init => HeapInv  BY HeapInit
<1>2. HeapInv /\ [Next]_vars => HeapInv'  BY HeapNext
<1>3. HeapInv => TypeOK  BY TypesHold
<1> QED  BY <1>1, <1>2, <1>3, PTL DEF Spec

(***************************************************************************)
(* No byte of the upload heap has two holders, whatever is created, mapped *)
(* and drawn, and however far behind the GPU is.                           *)
(***************************************************************************)
THEOREM HoldersApart ==
    ASSUME AlignmentsDivide
    PROVE  Spec => []NoOverlap
<1>1. Init => HeapInv  BY HeapInit
<1>2. HeapInv /\ [Next]_vars => HeapInv'  BY HeapNext
<1>3. HeapInv => NoOverlap  BY HeldApart
<1> QED  BY <1>1, <1>2, <1>3, PTL DEF Spec

(***************************************************************************)
(* The free blocks of a pool are what its blocks in use leave, joined as   *)
(* far as they can be, and FreeSize is their sum.                          *)
(***************************************************************************)
THEOREM PoolsSafe ==
    ASSUME AlignmentsDivide
    PROVE  Spec => []PoolsExact
<1>1. Init => HeapInv  BY HeapInit
<1>2. HeapInv /\ [Next]_vars => HeapInv'  BY HeapNext
<1>3. HeapInv => PoolsExact  BY PoolsHold
<1> QED  BY <1>1, <1>2, <1>3, PTL DEF Spec

(***************************************************************************)
(* What somebody holds memory of is not trimmed.                           *)
(***************************************************************************)
THEOREM HoldersStay ==
    ASSUME AlignmentsDivide
    PROVE  Spec => []NeededStay
<1>1. Init => HeapInv  BY HeapInit
<1>2. HeapInv /\ [Next]_vars => HeapInv'  BY HeapNext
<1>3. HeapInv => NeededStay  BY HeldExists
<1> QED  BY <1>1, <1>2, <1>3, PTL DEF Spec


-----------------------------------------------------------------------------
(***************************************************************************)
(* A request that the largest block of a new allocator, or a new pool,     *)
(* can serve is served, whatever is in use.                                *)
(***************************************************************************)
LargestBlock == OrderToUnitSize(MaxOrder - 1) * MinBlockSize

RequestsFit ==
    \A r \in Requests :
        IF Fits(r[1]) THEN SizeToAllocate(r[1], r[2]) <= LargestBlock
        ELSE GetAlignedSize(r[1], r[2]) <= NewPoolSize(r[1])

LEMMA NewHasRoom ==
    ASSUME NEW id, NEW size \in Nat, NEW align \in Nat \ {0},
           SizeToAllocate(size, align) <= LargestBlock
    PROVE  CanAllocate(NewAllocator(id), size, align)
<1>1. PICK k \in Nat : k + 1 = MaxOrder /\ k = MaxOrder - 1
  <2>1. MaxOrder - 1 \in Nat /\ (MaxOrder - 1) + 1 = MaxOrder  BY BuddyAssumption
  <2> QED  BY <2>1
<1>2. k \in Order  BY <1>1 DEF Order
<1>3. PICK a : a = NewAllocator(id)  OBVIOUS
<1>4. a.used = MinBlockSize /\ a.free = [j \in Order |-> <<OrderToUnitSize(j)>>]
  BY <1>3 DEF NewAllocator
<1>5. HasFree(a, k)  BY <1>2, <1>4 DEF HasFree
<1>6. OrderToUnitSize(k) * MinBlockSize >= SizeToAllocate(size, align)
  <2>1. PICK s, l : s = SizeToAllocate(size, align) /\ l = OrderToUnitSize(k) * MinBlockSize
    OBVIOUS
  <2>2. s \in Nat  BY <2>1 DEF SizeToAllocate
  <2>3. l \in Nat  BY <2>1, UnitsType, BuddyAssumption
  <2>4. s <= l  BY <1>1, <2>1 DEF LargestBlock
  <2>5. l >= s  BY <2>2, <2>3, <2>4
  <2> QED  BY <2>1, <2>5
<1>7. MinBlockSize # MaxBlockSize
  <2>1. PICK u \in Nat \ {0}, n \in Nat \ {0} : u = OrderToUnitSize(k) /\ n = MinBlockSize
    BY UnitsType, BuddyAssumption
  <2>2. OrderToUnitSize(MaxOrder) = 2 * u  BY <1>1, <2>1, UnitsNext
  <2>3. MaxBlockSize = (2 * u) * n  BY <2>1, <2>2 DEF MaxBlockSize, OrderToUnitSize
  <2>4. PICK p \in Nat \ {0} : p = u * n  BY <2>1
  <2>5. (2 * u) * n = 2 * p /\ p >= n  BY <2>1, <2>4
  <2> QED  BY <2>1, <2>3, <2>4, <2>5
<1> QED  BY <1>2, <1>3, <1>4, <1>5, <1>6, <1>7 DEF CanAllocate

LEMMA SmallServes ==
    ASSUME NEW O, SmallOK(small, O), NEW size \in Nat, NEW align \in Nat \ {0},
           SizeToAllocate(size, align) <= LargestBlock
    PROVE  SmallAllocations(size, align) # {}
<1>1. PICK list : list = WithRoom(size, align)  OBVIOUS
<1>2. SmallOK(list, O)  BY <1>1, SmallAppend DEF WithRoom
<1>3. PICK n \in Nat : n = Len(list) /\ DOMAIN list = 1..n  BY <1>2, ListIs DEF SmallOK
<1>4. RoomFor(list, size, align) # {}
  <2>1. CASE RoomFor(small, size, align) # {}  BY <1>1, <2>1 DEF WithRoom
  <2>2. CASE RoomFor(small, size, align) = {}
    <3>1. PICK new : new = NewAllocator(UnusedNumber(ToSet(small)))  OBVIOUS
    <3>2. list = Append(small, new)  BY <1>1, <2>2, <3>1 DEF WithRoom
    <3>3. IsList(small) /\ Len(small) \in Nat  BY ListIs DEF SmallOK
    <3>4. n = Len(small) + 1 /\ list[n] = new  BY <1>3, <3>2, <3>3, ListAppend
    <3>5. n \in DOMAIN list  BY <1>3, <3>3, <3>4
    <3>6. CanAllocate(list[n], size, align)  BY <3>1, <3>4, NewHasRoom
    <3> QED  BY <3>5, <3>6 DEF RoomFor
  <2> QED  BY <2>1, <2>2
<1>5. PICK T : T = RoomFor(list, size, align)  OBVIOUS
<1>6. T \subseteq Nat  BY <1>3, <1>5 DEF RoomFor
<1>7. PICK i \in T : \A j \in T : i <= j  BY <1>4, <1>5, <1>6, Least
<1>8. i \in FirstRoom(list, size, align)  BY <1>5, <1>7 DEF FirstRoom
<1> QED  BY <1>1, <1>8 DEF SmallAllocations

LEMMA FoundThere ==
    ASSUME NEW p, NEW U, PoolAt(p, U), NEW size \in Nat, ~ MayMiss(p, size)
    PROVE  Found(p, size) # {}
<1>1. PICK F : F = p.free  OBVIOUS
<1>2. \A f \in F : f.offset \in Nat /\ f.size \in Nat
  <2>1. \A f \in F : Within(f, p.size)  BY <1>1 DEF PoolAt, FreeAround, Filled
  <2> QED  BY <2>1, ExtentIs DEF Within
<1>3. p.freeSize \in Nat /\ p.freeSize >= size
  <2>1. p.freeSize \in 0..p.size /\ p.size \in Nat  BY FreeIsExact DEF PoolAt
  <2>2. p.freeSize \in Nat  BY <2>1
  <2>3. ~ (p.freeSize < size)  BY DEF MayMiss
  <2> QED  BY <2>2, <2>3
<1>4. PICK g \in F : LargeEnough(g, size)  BY <1>1 DEF MayMiss
<1>5. PICK L, T : L = {f \in F : LargeEnough(f, size)} /\ T = {f.offset : f \in L}
  OBVIOUS
<1>6. T \subseteq Nat /\ T # {}  BY <1>2, <1>4, <1>5
<1>7. PICK x \in T : \A y \in T : x <= y  BY <1>6, Least
<1>8. PICK f \in L : f.offset = x  BY <1>5, <1>7
<1>9. ASSUME NEW a \in F, a.offset < f.offset  PROVE ~ LargeEnough(a, size)
  <2>1. a.offset \in Nat /\ f.offset \in Nat  BY <1>2, <1>5
  <2>2. a.offset \notin T  BY <1>7, <1>8, <1>9, <2>1
  <2> QED  BY <1>5, <2>2
<1>10. f \in F /\ LargeEnough(f, size)  BY <1>5
<1> QED  BY <1>1, <1>3, <1>9, <1>10 DEF Found, Before

LEMMA FoundInNew ==
    ASSUME NEW z \in Nat, NEW size \in Nat, size <= z
    PROVE  Found(NewPool(z), size) # {}
<1>1. PICK p, f : p = NewPool(z) /\ f = [offset |-> 0, size |-> z]  OBVIOUS
<1>2. p.freeSize = z /\ p.free = {f} /\ f.size = z  BY <1>1 DEF NewPool
<1>3. z >= size  OBVIOUS
<1>4. \A a \in p.free : ~ Before(p, a, f)
  <2>1. f.offset = 0  BY <1>1
  <2> QED  BY <1>2, <2>1 DEF Before
<1>5. f \in Found(p, size)  BY <1>2, <1>3, <1>4 DEF Found, LargeEnough
<1> QED  BY <1>1, <1>5

LEMMA BigServes ==
    ASSUME NEW M, PoolsOK(pools, M), OrderOK(order, pools),
           NEW size \in Nat \ {0}, NEW align, ~ Padded(align),
           GetAlignedSize(size, align) <= NewPoolSize(size)
    PROVE  BigAllocations(size, align) # {}
<1>1. PICK s \in Nat : s = GetAlignedSize(size, align)  BY UnpaddedIs
<1>2. IsList(pools) /\ IsList(order) /\ ToSet(order) = 1..Len(pools)
  BY DEF PoolsOK, OrderOK
<1>3. PICK n \in Nat : n = Len(pools) /\ DOMAIN pools = 1..n  BY <1>2, ListIs
<1>4. PICK l \in Nat : l = Len(order) /\ DOMAIN order = 1..l  BY <1>2, ListIs
<1>5. PICK T : T = {k \in 1..l : ~ MayPassOver(order[k], size, align)}  OBVIOUS
<1>6. CASE T # {}
  <2>1. T \subseteq Nat  BY <1>5
  <2>2. PICK k \in T : \A j \in T : k <= j  BY <1>6, <2>1, Least
  <2>3. PICK i : i = order[k]  OBVIOUS
  <2>4. i \in 1..n  BY <1>2, <1>3, <1>4, <1>5, <2>3, ListIs
  <2>5. pools[i] # NoPool /\ ~ MayMiss(pools[i], s)
    BY <1>1, <1>5, <2>3 DEF MayPassOver
  <2>6. PoolAt(pools[i], UsedOf(i, M))  BY <1>3, <2>4, <2>5 DEF PoolsOK, PoolOK
  <2>7. PICK f : f \in Found(pools[i], s)  BY <2>5, <2>6, FoundThere
  <2>8. PICK a : a \in FromPool(pools, order, i, size, align)
    BY <1>1, <2>7 DEF FromPool
  <2>9. \A m \in 1..(k - 1) : MayPassOver(order[m], size, align)
    <3> TAKE m \in 1..(k - 1)
    <3>1. m \in 1..l /\ ~ (k <= m)  BY <1>5
    <3>2. m \notin T  BY <2>2, <3>1
    <3> QED  BY <1>5, <3>1, <3>2
  <2>10. a \in FromExistingPools(size, align)
    <3>1. k \in {m \in DOMAIN order :
                    /\ pools[order[m]] # NoPool
                    /\ \A j \in 1..(m - 1) : MayPassOver(order[j], size, align)}
      BY <1>4, <1>5, <2>3, <2>5, <2>9
    <3> QED  BY <2>3, <2>8, <3>1 DEF FromExistingPools
  <2> QED  BY <2>10 DEF BigAllocations
<1>7. CASE T = {}
  <2>1. \A j \in DOMAIN pools : MayPassOver(j, size, align)
    <3> TAKE j \in DOMAIN pools
    <3>1. PICK k \in 1..l : j = order[k]  BY <1>2, <1>3, <1>4, ListIs
    <3> QED  BY <1>5, <1>7, <3>1
  <2>2. PICK i, z : i = FirstFreeIndex /\ z = NewPoolSize(size)  OBVIOUS
  <2>3. z \in Nat /\ s <= z  BY <1>1, <2>2, NewSizeIs
  <2>4. i \in 1..(n + 1)  BY <1>2, <1>3, <2>2, FirstFreeIs
  <2>5. PICK f : f \in Found(NewPool(z), s)  BY <2>3, FoundInNew
  <2>6. CASE i <= n
    <3>1. PICK t : t = [pools EXCEPT ![i] = NewPool(z)]  OBVIOUS
    <3>2. i \in DOMAIN pools  BY <1>3, <2>4, <2>6
    <3>3. t[i] = NewPool(z)  BY <3>1, <3>2
    <3>4. PICK a : a \in FromPool(t, order, i, size, align)
      BY <1>1, <2>5, <3>3 DEF FromPool
    <3>5. a \in FromNewPool(size, align)
      BY <1>3, <2>1, <2>2, <2>6, <3>1, <3>4 DEF FromNewPool
    <3> QED  BY <3>5 DEF BigAllocations
  <2>7. CASE ~ (i <= n)
    <3>1. i = n + 1  BY <2>4, <2>7
    <3>2. PICK t, o : t = Append(pools, NewPool(z)) /\ o = Append(order, i)  OBVIOUS
    <3>3. t[i] = NewPool(z)  BY <1>2, <1>3, <3>1, <3>2, ListAppend
    <3>4. PICK a : a \in FromPool(t, o, i, size, align)
      BY <1>1, <2>5, <3>3 DEF FromPool
    <3>5. a \in FromNewPool(size, align)
      BY <1>3, <2>1, <2>2, <2>7, <3>2, <3>4 DEF FromNewPool
    <3> QED  BY <3>5 DEF BigAllocations
  <2> QED  BY <2>6, <2>7
<1> QED  BY <1>6, <1>7

LEMMA RequestsServed ==
    ASSUME AlignmentsDivide, RequestsFit, HeapInv
    PROVE  NeverRefused
<1>1. ASSUME NEW r \in Requests
      PROVE  /\ r[1] \in Nat \ {0} /\ r[2] \in Nat \ {0} /\ ~ Padded(r[2])
  <2>1. \E b \in Buffers : r = <<Size[b], Alignment[b]>> \/ r = <<Size[b], CopyAlignment>>
    BY DEF Requests
  <2>2. PICK b \in Buffers : r = <<Size[b], Alignment[b]>> \/ r = <<Size[b], CopyAlignment>>
    BY <2>1
  <2>3. r[1] = Size[b] /\ r[2] \in {Alignment[b], CopyAlignment}  BY <2>2
  <2>4. r[2] \in Alignments  BY <2>3 DEF Alignments
  <2>5. Size[b] \in Nat \ {0} /\ Alignment[b] \in Nat \ {0} /\ CopyAlignment \in Nat \ {0}
    BY UploadAssumption, PoolAlignmentAssumption DEF CopyAlignment
  <2> QED  BY <2>3, <2>4, <2>5 DEF AlignmentsDivide
<1>2. ASSUME NEW r \in Requests  PROVE Allocations(r[1], r[2]) # {}
  <2>1. PICK size, align : size = r[1] /\ align = r[2]  OBVIOUS
  <2>2. size \in Nat \ {0} /\ align \in Nat \ {0} /\ ~ Padded(align)
    BY <1>1, <2>1
  <2>3. CASE Fits(size)
    <3>1. SizeToAllocate(size, align) <= LargestBlock  BY <2>1, <2>3 DEF RequestsFit
    <3>2. SmallOK(small, OwnNow("small"))  BY DEF HeapInv, SmallInv
    <3>3. SmallAllocations(size, align) # {}  BY <2>2, <3>1, <3>2, SmallServes
    <3> QED  BY <2>1, <2>3, <3>3 DEF Allocations
  <2>4. CASE ~ Fits(size)
    <3>1. GetAlignedSize(size, align) <= NewPoolSize(size)  BY <2>1, <2>4 DEF RequestsFit
    <3>2. PoolsOK(pools, BigHeld) /\ OrderOK(order, pools)  BY DEF HeapInv, BigInv
    <3>3. BigAllocations(size, align) # {}  BY <2>2, <3>1, <3>2, BigServes
    <3> QED  BY <2>1, <2>4, <3>3 DEF Allocations
  <2> QED  BY <2>3, <2>4
<1> QED  BY <1>2 DEF NeverRefused

(***************************************************************************)
(* No allocation fails for want of room: of the requests that a new        *)
(* allocator or a new pool could serve, none is ever refused.              *)
(***************************************************************************)
THEOREM RequestsSafe ==
    ASSUME AlignmentsDivide, RequestsFit
    PROVE  Spec => []NeverRefused
<1>1. Init => HeapInv  BY HeapInit
<1>2. HeapInv /\ [Next]_vars => HeapInv'  BY HeapNext
<1>3. HeapInv => NeverRefused  BY RequestsServed
<1> QED  BY <1>1, <1>2, <1>3, PTL DEF Spec

=============================================================================
