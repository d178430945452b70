-------------------------- MODULE UploadAllocators --------------------------
(***************************************************************************)
(* What the functions of BuddyAllocator and MemoryPool do to the record of *)
(* an allocator, for any sizes and alignments: lemmas for                  *)
(* UploadHeapProofs, with those on lists, powers of two and alignment that *)
(* they rest on.                                                           *)
(***************************************************************************)
EXTENDS BuddyAllocator, MemoryPool, FiniteSetTheorems, SequenceTheorems,
        WellFoundedInduction, TLAPS

-----------------------------------------------------------------------------
(***************************************************************************)
(* Sequences whose elements have no type that matters.                     *)
(***************************************************************************)
IsList(s) == s \in Seq(ToSet(s))

LEMMA ListIs ==
    ASSUME NEW s, IsList(s)
    PROVE  /\ Len(s) \in Nat
           /\ DOMAIN s = 1..Len(s)
           /\ s \in [1..Len(s) -> ToSet(s)]
           /\ \A i \in 1..Len(s) : s[i] \in ToSet(s)
           /\ \A x \in ToSet(s) : \E i \in 1..Len(s) : x = s[i]
BY DEF IsList, ToSet

LEMMA ListOf ==
    ASSUME NEW S, NEW s \in Seq(S)
    PROVE  IsList(s) /\ ToSet(s) \subseteq S
<1>1. s \in [1..Len(s) -> S] /\ Len(s) \in Nat /\ DOMAIN s = 1..Len(s)
  OBVIOUS
<1>2. s \in [1..Len(s) -> ToSet(s)]
  BY <1>1 DEF ToSet
<1>3. s \in Seq(ToSet(s))
  BY <1>1, <1>2
<1>4. ToSet(s) \subseteq S
  BY <1>1 DEF ToSet
<1> QED  BY <1>3, <1>4 DEF IsList

LEMMA EmptyList == IsList(<<>>) /\ ToSet(<<>>) = {} /\ Len(<<>>) = 0
BY DEF IsList, ToSet

LEMMA ListAppend ==
    ASSUME NEW s, IsList(s), NEW e
    PROVE  /\ IsList(Append(s, e))
           /\ Len(Append(s, e)) = Len(s) + 1
           /\ \A i \in 1..Len(s) : Append(s, e)[i] = s[i]
           /\ Append(s, e)[Len(s) + 1] = e
           /\ ToSet(Append(s, e)) = ToSet(s) \cup {e}
<1> DEFINE S == ToSet(s) \cup {e}
<1>1. s \in Seq(S)
  BY DEF IsList
<1>2. PICK t : t = Append(s, e)  OBVIOUS
<1>3. /\ t \in Seq(S) /\ Len(t) = Len(s) + 1 /\ Len(s) \in Nat
      /\ \A i \in 1..Len(s) : t[i] = s[i]
      /\ t[Len(s) + 1] = e
  BY <1>1, <1>2
<1>4. DOMAIN s = 1..Len(s) /\ DOMAIN t = 1..(Len(s) + 1)
  BY <1>1, <1>3
<1>5. ToSet(t) = S
  BY <1>3, <1>4 DEF ToSet
<1>6. IsList(t)
  BY <1>3, <1>5 DEF IsList
<1> QED  BY <1>2, <1>3, <1>5, <1>6

LEMMA ListTail ==
    ASSUME NEW s, IsList(s), s # <<>>
    PROVE  /\ Len(s) \in Nat \ {0}
           /\ IsList(Tail(s))
           /\ Len(Tail(s)) = Len(s) - 1
           /\ Head(s) = s[1]
           /\ \A i \in 1..(Len(s) - 1) : Tail(s)[i] = s[i + 1]
           /\ ToSet(s) = ToSet(Tail(s)) \cup {Head(s)}
<1> DEFINE S == ToSet(s)
<1>1. s \in Seq(S)
  BY DEF IsList
<1>2. PICK t : t = Tail(s)  OBVIOUS
<1>3. /\ t \in Seq(S) /\ Len(s) \in Nat \ {0} /\ Len(t) = Len(s) - 1
      /\ Head(s) = s[1]
      /\ \A i \in 1..(Len(s) - 1) : t[i] = s[i + 1]
  BY <1>1, <1>2
<1>4. DOMAIN s = 1..Len(s) /\ DOMAIN t = 1..(Len(s) - 1)
  BY <1>1, <1>3
<1>5. ToSet(s) = ToSet(t) \cup {Head(s)}
  <2>1. ASSUME NEW x \in ToSet(s)  PROVE x \in ToSet(t) \cup {Head(s)}
    <3>1. PICK i \in 1..Len(s) : x = s[i]
      BY <1>4 DEF ToSet
    <3>2. CASE i = 1
      BY <1>3, <3>1, <3>2
    <3>3. CASE i # 1
      <4>1. i - 1 \in 1..(Len(s) - 1) /\ (i - 1) + 1 = i
        BY <1>3, <3>3
      <4>2. t[i - 1] = x
        BY <1>3, <3>1, <4>1
      <4> QED  BY <1>4, <4>1, <4>2 DEF ToSet
    <3> QED  BY <3>2, <3>3
  <2>2. ASSUME NEW x \in ToSet(t) \cup {Head(s)}  PROVE x \in ToSet(s)
    <3>1. CASE x = Head(s)
      BY <1>3, <1>4, <3>1 DEF ToSet
    <3>2. CASE x \in ToSet(t)
      <4>1. PICK i \in 1..(Len(s) - 1) : x = t[i]
        BY <1>4, <3>2 DEF ToSet
      <4>2. i + 1 \in 1..Len(s) /\ x = s[i + 1]
        BY <1>3, <4>1
      <4> QED  BY <1>4, <4>2 DEF ToSet
    <3> QED  BY <2>2, <3>1, <3>2
  <2> QED  BY <2>1, <2>2
<1>6. IsList(t)
  BY <1>3, ListOf
<1> QED  BY <1>2, <1>3, <1>5, <1>6

LEMMA ListConcat ==
    ASSUME NEW s, IsList(s), NEW x, NEW y
    PROVE  s \o <<x, y>> = Append(Append(s, x), y)
<1> DEFINE S == ToSet(s) \cup {x, y}
<1>1. s \in Seq(S)  BY DEF IsList
<1>2. x \in S /\ y \in S  OBVIOUS
<1> HIDE DEF S
<1>3. <<x, y>> \in Seq(S) /\ Len(<<x, y>>) = 2
  BY <1>2
<1>4. /\ s \o <<x, y>> \in Seq(S) /\ Len(s \o <<x, y>>) = Len(s) + 2
      /\ \A i \in 1..Len(s) : (s \o <<x, y>>)[i] = s[i]
      /\ (s \o <<x, y>>)[Len(s) + 1] = x
      /\ (s \o <<x, y>>)[Len(s) + 2] = y
  BY <1>1, <1>3
<1>5. PICK t : t = Append(s, x)  OBVIOUS
<1>6. /\ t \in Seq(S) /\ Len(t) = Len(s) + 1 /\ t[Len(s) + 1] = x
      /\ \A i \in 1..Len(s) : t[i] = s[i]
  BY <1>1, <1>2, <1>5
<1>7. PICK u : u = Append(t, y)  OBVIOUS
<1>8. /\ u \in Seq(S) /\ Len(u) = Len(s) + 2 /\ u[Len(s) + 2] = y
      /\ u[Len(s) + 1] = x
      /\ \A i \in 1..Len(s) : u[i] = s[i]
  BY <1>1, <1>2, <1>6, <1>7
<1>9. PICK v : v = s \o <<x, y>>  OBVIOUS
<1>10. v \in Seq(S) /\ Len(v) = Len(u) /\ \A i \in 1..Len(u) : v[i] = u[i]
  BY <1>1, <1>4, <1>8, <1>9
<1>11. v = u  BY <1>8, <1>10
<1> QED  BY <1>5, <1>7, <1>9, <1>11

LEMMA Least ==
    ASSUME NEW T, T \subseteq Nat, T # {}
    PROVE  \E x \in T : \A y \in T : x <= y
<1>1. PICK x \in T : \A y \in T : ~ (<<y, x>> \in OpToRel(<, Nat))
  <2>1. T \subseteq Nat /\ T # {}  OBVIOUS
  <2> QED  BY <2>1, NatLessThanWellFounded, WFMin, Zenon
<1>2. \A y \in T : ~ (y < x)
  <2> SUFFICES ASSUME NEW y \in T, y < x  PROVE FALSE
    OBVIOUS
  <2>1. <<y, x>> \in Nat \X Nat /\ <<y, x>>[1] < <<y, x>>[2]  OBVIOUS
  <2>2. <<y, x>> \in OpToRel(<, Nat)  BY <2>1 DEF OpToRel
  <2> QED  BY <1>1, <2>2
<1> QED  BY <1>2

LEMMA RemoveAtIs ==
    ASSUME NEW S, NEW s \in Seq(S), NEW i \in 1..Len(s)
    PROVE  /\ RemoveAt(s, i) \in Seq(S)
           /\ Len(RemoveAt(s, i)) = Len(s) - 1
           /\ \A j \in 1..(i - 1) : RemoveAt(s, i)[j] = s[j]
           /\ \A j \in i..(Len(s) - 1) : RemoveAt(s, i)[j] = s[j + 1]
           /\ ToSet(RemoveAt(s, i)) \subseteq ToSet(s)
           /\ \A x \in ToSet(s) : x # s[i] => x \in ToSet(RemoveAt(s, i))
<1>1. PICK n \in Nat : n = Len(s)  OBVIOUS
<1>2. PICK u : u = SubSeq(s, 1, i - 1)  OBVIOUS
<1>3. PICK v : v = SubSeq(s, i + 1, n)  OBVIOUS
<1>4. /\ u \in Seq(S) /\ Len(u) = i - 1
      /\ \A j \in 1..(i - 1) : u[j] = s[j]
  BY <1>1, <1>2
<1>5. /\ v \in Seq(S) /\ Len(v) = n - i
      /\ \A j \in 1..(n - i) : v[j] = s[j + i]
  BY <1>1, <1>3
<1>6. PICK r : r = u \o v  OBVIOUS
<1>7. /\ r \in Seq(S) /\ Len(r) = n - 1
      /\ \A j \in 1..(n - 1) : r[j] = IF j <= i - 1 THEN u[j] ELSE v[j - (i - 1)]
  <2>1. \A j \in 1..(Len(u) + Len(v)) :
            r[j] = IF j <= Len(u) THEN u[j] ELSE v[j - Len(u)]
    <3>1. u \in Seq(S) /\ v \in Seq(S)  BY <1>4, <1>5
    <3> QED  BY <3>1, <1>6, ConcatProperties
  <2>2. r \in Seq(S) /\ Len(r) = Len(u) + Len(v)
    <3>1. u \in Seq(S) /\ v \in Seq(S)  BY <1>4, <1>5
    <3> QED  BY <3>1, <1>6, ConcatProperties
  <2>3. Len(u) = i - 1 /\ Len(v) = n - i /\ (i - 1) + (n - i) = n - 1
    BY <1>1, <1>4, <1>5
  <2>4. r \in Seq(S) /\ Len(r) = n - 1  BY <2>2, <2>3
  <2>5. \A j \in 1..(n - 1) : r[j] = IF j <= i - 1 THEN u[j] ELSE v[j - (i - 1)]
    <3> SUFFICES ASSUME NEW j \in 1..(n - 1)
                 PROVE  r[j] = IF j <= i - 1 THEN u[j] ELSE v[j - (i - 1)]
      OBVIOUS
    <3>1. j \in 1..(Len(u) + Len(v))  BY <2>3
    <3>2. r[j] = IF j <= Len(u) THEN u[j] ELSE v[j - Len(u)]  BY <2>1, <3>1
    <3> QED  BY <2>3, <3>2
  <2> QED  BY <2>4, <2>5
<1>8. r = RemoveAt(s, i)
  BY <1>1, <1>2, <1>3, <1>6 DEF RemoveAt
<1>9. \A j \in 1..(i - 1) : r[j] = s[j]
  <2> SUFFICES ASSUME NEW j \in 1..(i - 1)  PROVE r[j] = s[j]
    OBVIOUS
  <2>1. j \in 1..(n - 1) /\ j <= i - 1
    BY <1>1
  <2>2. r[j] = u[j]  BY <1>7, <2>1
  <2> QED  BY <1>4, <2>2
<1>10. \A j \in i..(n - 1) : r[j] = s[j + 1]
  <2> SUFFICES ASSUME NEW j \in i..(n - 1)  PROVE r[j] = s[j + 1]
    OBVIOUS
  <2>1. j - (i - 1) \in 1..(n - i) /\ (j - (i - 1)) + i = j + 1 /\ ~ (j <= i - 1)
        /\ j \in 1..(n - 1)
    BY <1>1
  <2> QED  BY <1>5, <1>7, <2>1
<1>11. DOMAIN s = 1..n /\ DOMAIN r = 1..(n - 1)
  BY <1>1, <1>7
<1>12. ASSUME NEW x \in ToSet(r)  PROVE x \in ToSet(s)
  <2>1. PICK j \in 1..(n - 1) : x = r[j]  BY <1>11, <1>12 DEF ToSet
  <2>2. CASE j <= i - 1
    <3>1. j \in 1..(i - 1) /\ j \in 1..n  BY <1>1, <2>2
    <3> QED  BY <1>9, <1>11, <2>1, <3>1 DEF ToSet
  <2>3. CASE ~ (j <= i - 1)
    <3>1. j \in i..(n - 1) /\ j + 1 \in 1..n  BY <1>1, <2>3
    <3> QED  BY <1>10, <1>11, <2>1, <3>1 DEF ToSet
  <2> QED  BY <2>2, <2>3
<1>13. ASSUME NEW x \in ToSet(s), x # s[i]  PROVE x \in ToSet(r)
  <2>1. PICK j \in 1..n : x = s[j]  BY <1>11, <1>13 DEF ToSet
  <2>2. j # i  BY <1>13, <2>1
  <2>3. CASE j < i
    <3>1. j \in 1..(i - 1) /\ j \in 1..(n - 1)  BY <1>1, <2>3
    <3> QED  BY <1>9, <1>11, <2>1, <3>1 DEF ToSet
  <2>4. CASE j > i
    <3>1. j - 1 \in i..(n - 1) /\ j - 1 \in 1..(n - 1) /\ (j - 1) + 1 = j
      BY <1>1, <2>4
    <3>2. r[j - 1] = s[j]  BY <1>10, <3>1
    <3> QED  BY <1>11, <2>1, <3>1, <3>2 DEF ToSet
  <2> QED  BY <1>1, <2>2, <2>3, <2>4
<1> QED  BY <1>1, <1>7, <1>8, <1>9, <1>10, <1>12, <1>13

-----------------------------------------------------------------------------
(***************************************************************************)
(* The sizes of buddy blocks, the powers of two.                           *)
(***************************************************************************)
LEMMA UnitsType ==
    ASSUME NEW k \in Nat
    PROVE  OrderToUnitSize(k) \in Nat \ {0}
<1>1. PICK S : S = 1..k  OBVIOUS
<1>2. IsFiniteSet(S) /\ Cardinality(S) = k
  <2>1. 1 \in Int /\ k \in Int  OBVIOUS
  <2>2. IsFiniteSet(1..k) /\ Cardinality(1..k) = IF 1 > k THEN 0 ELSE k - 1 + 1
    BY <2>1, FS_Interval
  <2> QED  BY <1>1, <2>2
<1>3. IsFiniteSet(SUBSET S) /\ Cardinality(SUBSET S) = OrderToUnitSize(k)
  BY <1>2, FS_SUBSET DEF OrderToUnitSize
<1>4. PICK T : T = SUBSET S  OBVIOUS
<1>5. T # {} /\ IsFiniteSet(T) /\ Cardinality(T) = OrderToUnitSize(k)
  BY <1>3, <1>4
<1>6. Cardinality(T) \in Nat /\ Cardinality(T) # 0
  BY <1>5, FS_CardinalityType, FS_EmptySet
<1> QED  BY <1>5, <1>6

LEMMA UnitsZero == OrderToUnitSize(0) = 1
BY DEF OrderToUnitSize

LEMMA UnitsNext ==
    ASSUME NEW k \in Nat
    PROVE  OrderToUnitSize(k + 1) = 2 * OrderToUnitSize(k)
<1>1. PICK S : S = 1..k  OBVIOUS
<1>2. PICK T : T = 1..(k + 1)  OBVIOUS
<1>3. IsFiniteSet(S) /\ Cardinality(S) = k /\ IsFiniteSet(T) /\ Cardinality(T) = k + 1
  <2>1. 1 \in Int /\ k \in Int /\ k + 1 \in Int  OBVIOUS
  <2>2. IsFiniteSet(1..k) /\ Cardinality(1..k) = IF 1 > k THEN 0 ELSE k - 1 + 1
    BY <2>1, FS_Interval
  <2>3. /\ IsFiniteSet(1..(k + 1))
        /\ Cardinality(1..(k + 1)) = IF 1 > k + 1 THEN 0 ELSE (k + 1) - 1 + 1
    BY <2>1, FS_Interval
  <2> QED  BY <1>1, <1>2, <2>2, <2>3
<1>4. T = S \cup {k + 1} /\ k + 1 \notin S
  BY <1>1, <1>2
<1>5. PICK A : A = SUBSET S  OBVIOUS
<1>6. PICK B : B = {s \cup {k + 1} : s \in A}  OBVIOUS
<1>7. IsFiniteSet(A) /\ Cardinality(A) = OrderToUnitSize(k)
  BY <1>3, <1>5, FS_SUBSET DEF OrderToUnitSize
<1>8. PICK f : f = [s \in A |-> s \cup {k + 1}]  OBVIOUS
<1>9. f \in Bijection(A, B)
  <2>1. f \in Surjection(A, B)
    BY <1>6, <1>8 DEF Surjection
  <2>2. ASSUME NEW s \in A, NEW t \in A, f[s] = f[t]  PROVE s = t
    <3>1. s \cup {k + 1} = t \cup {k + 1}  BY <1>8, <2>2
    <3>2. k + 1 \notin s /\ k + 1 \notin t  BY <1>4, <1>5
    <3> QED  BY <3>1, <3>2
  <2>3. f \in Injection(A, B)
    <3>1. f \in [A -> B] /\ DOMAIN f = A  BY <1>6, <1>8
    <3> QED  BY <2>2, <3>1 DEF Injection, IsInjective
  <2> QED  BY <2>1, <2>3 DEF Bijection
<1>10. IsFiniteSet(B) /\ Cardinality(B) = Cardinality(A)
  BY <1>7, <1>9, FS_Bijection DEF ExistsBijection
<1>11. A \cap B = {}
  BY <1>4, <1>5, <1>6
<1>12. SUBSET T = A \cup B
  <2>1. ASSUME NEW s \in SUBSET T, k + 1 \in s  PROVE s \in B
    <3>1. s \ {k + 1} \in A  BY <1>4, <1>5
    <3>2. s = (s \ {k + 1}) \cup {k + 1}  BY <2>1
    <3> QED  BY <1>6, <3>1, <3>2
  <2>2. ASSUME NEW s \in SUBSET T, k + 1 \notin s  PROVE s \in A
    BY <1>4, <1>5, <2>2
  <2>3. A \subseteq SUBSET T /\ B \subseteq SUBSET T
    BY <1>4, <1>5, <1>6
  <2> QED  BY <2>1, <2>2, <2>3
<1>13. Cardinality(SUBSET T) = OrderToUnitSize(k + 1)
  BY <1>3, FS_SUBSET DEF OrderToUnitSize
<1>14. Cardinality(A \cup B) = Cardinality(A) + Cardinality(B) - Cardinality(A \cap B)
  BY <1>7, <1>10, FS_Union
<1>15. Cardinality(A \cap B) = 0
  BY <1>11, FS_EmptySet
<1>16. OrderToUnitSize(k) \in Nat  BY UnitsType
<1>17. Cardinality(A \cup B) = OrderToUnitSize(k) + OrderToUnitSize(k)
  BY <1>7, <1>10, <1>14, <1>15, <1>16
<1>18. OrderToUnitSize(k + 1) = OrderToUnitSize(k) + OrderToUnitSize(k)
  BY <1>12, <1>13, <1>17
<1> QED  BY <1>16, <1>18

LEMMA UnitsAbove ==
    ASSUME NEW n \in Nat
    PROVE  n + 1 <= OrderToUnitSize(n)
<1> DEFINE T == {m \in Nat : ~ (m + 1 <= OrderToUnitSize(m))}
<1>1. SUFFICES ASSUME n \in T  PROVE FALSE
  OBVIOUS
<1>2. PICK m \in T : \A y \in T : m <= y
  <2>1. T \subseteq Nat /\ T # {}  BY <1>1
  <2> HIDE DEF T
  <2> QED  BY <2>1, Least
<1>3. m # 0
  BY <1>2, UnitsZero
<1>4. PICK k \in Nat : k + 1 = m
  <2>1. m - 1 \in Nat /\ (m - 1) + 1 = m  BY <1>2, <1>3
  <2> QED  BY <2>1
<1>5. k + 1 <= OrderToUnitSize(k)
  <2>1. k \notin T  BY <1>2, <1>4
  <2> QED  BY <2>1
<1>6. OrderToUnitSize(m) = 2 * OrderToUnitSize(k)
  BY <1>4, UnitsNext
<1>7. OrderToUnitSize(k) \in Nat  BY UnitsType
<1>8. m + 1 <= OrderToUnitSize(m)  BY <1>4, <1>5, <1>6, <1>7
<1> QED  BY <1>2, <1>8

\* x is a multiple of p.
Multiple(x, p) == \E q \in Nat : x = q * p

LEMMA MultipleSum ==
    ASSUME NEW p \in Nat, NEW x, NEW y, Multiple(x, p), Multiple(y, p)
    PROVE  Multiple(x + y, p)
<1>1. PICK q \in Nat : x = q * p  BY DEF Multiple
<1>2. PICK r \in Nat : y = r * p  BY DEF Multiple
<1>3. x + y = (q + r) * p /\ q + r \in Nat  BY <1>1, <1>2
<1> QED  BY <1>3 DEF Multiple

LEMMA MultipleOf ==
    ASSUME NEW p \in Nat, NEW x, NEW y, Multiple(x, p), Multiple(p, y), y \in Nat
    PROVE  Multiple(x, y)
<1>1. PICK q \in Nat : x = q * p  BY DEF Multiple
<1>2. PICK r \in Nat : p = r * y  BY DEF Multiple
<1>3. x = (q * r) * y /\ q * r \in Nat  BY <1>1, <1>2
<1> QED  BY <1>3 DEF Multiple

LEMMA MultipleSelf ==
    ASSUME NEW p \in Nat
    PROVE  Multiple(p, p) /\ Multiple(0, p)
<1>1. p = 1 * p /\ 0 = 0 * p  OBVIOUS
<1> QED  BY <1>1 DEF Multiple

LEMMA MultipleDiv ==
    ASSUME NEW p \in Nat \ {0}, NEW x, Multiple(x, p)
    PROVE  (x \div p) * p = x
<1>1. PICK q \in Nat : x = q * p  BY DEF Multiple
<1>2. (q * p) \div p = q  OBVIOUS
<1> QED  BY <1>1, <1>2

LEMMA UnitsGrow ==
    ASSUME NEW j \in Nat, NEW k \in Nat, j <= k
    PROVE  /\ OrderToUnitSize(j) <= OrderToUnitSize(k)
           /\ Multiple(OrderToUnitSize(k), OrderToUnitSize(j))
<1> DEFINE P(m) == /\ OrderToUnitSize(j) <= OrderToUnitSize(m)
                   /\ Multiple(OrderToUnitSize(m), OrderToUnitSize(j))
           T == {m \in Nat : j <= m /\ ~ P(m)}
<1>1. SUFFICES ASSUME k \in T  PROVE FALSE
  OBVIOUS
<1>2. PICK m \in T : \A y \in T : m <= y
  <2>1. T \subseteq Nat /\ T # {}  BY <1>1
  <2> HIDE DEF T
  <2> QED  BY <2>1, Least
<1>3. OrderToUnitSize(j) \in Nat  BY UnitsType
<1>4. m # j
  <2>1. P(j)  BY <1>3, MultipleSelf
  <2> QED  BY <1>2, <2>1
<1>5. PICK i \in Nat : i + 1 = m /\ j <= i
  <2>1. m - 1 \in Nat /\ (m - 1) + 1 = m /\ j <= m - 1  BY <1>2, <1>4
  <2> QED  BY <2>1
<1>6. P(i)
  <2>1. i \notin T  BY <1>2, <1>5
  <2> QED  BY <1>5, <2>1
<1>7. OrderToUnitSize(m) = 2 * OrderToUnitSize(i) /\ OrderToUnitSize(i) \in Nat
  BY <1>5, UnitsNext, UnitsType
<1>8. Multiple(OrderToUnitSize(m), OrderToUnitSize(i))
  BY <1>7 DEF Multiple
<1>9. P(m)
  BY <1>3, <1>6, <1>7, <1>8, MultipleOf
<1> QED  BY <1>2, <1>9

LEMMA UnitsStrict ==
    ASSUME NEW j \in Nat, NEW k \in Nat, j < k
    PROVE  2 * OrderToUnitSize(j) <= OrderToUnitSize(k)
<1>1. OrderToUnitSize(j + 1) = 2 * OrderToUnitSize(j)  BY UnitsNext
<1>2. OrderToUnitSize(j + 1) <= OrderToUnitSize(k)  BY UnitsGrow
<1> QED  BY <1>1, <1>2

-----------------------------------------------------------------------------
(***************************************************************************)
(* Alignment.                                                              *)
(***************************************************************************)
LEMMA DivMod ==
    ASSUME NEW n \in Nat, NEW a \in Nat \ {0}
    PROVE  /\ n \div a \in Nat /\ n % a \in 0..(a - 1)
           /\ n = (n \div a) * a + (n % a)
<1>1. n \div a \in Nat  OBVIOUS
<1>2. n % a \in 0..(a - 1)  OBVIOUS
<1>3. n = a * (n \div a) + (n % a)  OBVIOUS
<1> QED  BY <1>1, <1>2, <1>3

LEMMA ModMultiple ==
    ASSUME NEW n \in Nat, NEW a \in Nat \ {0}, n % a = 0
    PROVE  Multiple(n, a)
<1>1. n \div a \in Nat /\ n = (n \div a) * a + 0  BY DivMod
<1>2. n = (n \div a) * a  BY <1>1
<1> QED  BY <1>1, <1>2 DEF Multiple

LEMMA AlignIs ==
    ASSUME NEW n \in Nat, NEW a \in Nat \ {0}
    PROVE  /\ AlignArbitrary(n, a) \in Nat
           /\ Multiple(AlignArbitrary(n, a), a)
           /\ n <= AlignArbitrary(n, a)
           /\ AlignArbitrary(n, a) <= n + a - 1
           /\ Multiple(n, a) => AlignArbitrary(n, a) = n
<1>1. PICK m \in Nat : m = n + a - 1  OBVIOUS
<1>2. PICK q \in Nat : q = m \div a  BY DivMod
<1>3. PICK r \in 0..(a - 1) : r = m % a  BY DivMod
<1>4. m = q * a + r  BY <1>2, <1>3, DivMod
<1>5. PICK p \in Nat : p = q * a  OBVIOUS
<1>6. AlignArbitrary(n, a) = p
  BY <1>1, <1>2, <1>5 DEF AlignArbitrary
<1>7. n <= p /\ p <= n + a - 1
  BY <1>1, <1>3, <1>4, <1>5
<1>8. Multiple(p, a)  BY <1>5 DEF Multiple
<1>9. ASSUME Multiple(n, a)  PROVE p = n
  <2>1. PICK i \in Nat : n = i * a  BY <1>9 DEF Multiple
  <2>2. i <= q
    <3>1. i * a <= q * a  BY <1>5, <1>7, <2>1
    <3>2. ASSUME q < i  PROVE FALSE
      <4>1. q + 1 <= i  BY <3>2
      <4>2. (q + 1) * a <= i * a  BY <4>1
      <4>3. (q + 1) * a = q * a + a  OBVIOUS
      <4> QED  BY <3>1, <4>2, <4>3
    <3> QED  BY <3>2
  <2>3. q <= i
    <3>1. ASSUME i < q  PROVE FALSE
      <4>1. i + 1 <= q  BY <3>1
      <4>2. (i + 1) * a <= q * a  BY <4>1
      <4>3. (i + 1) * a = i * a + a  OBVIOUS
      <4> QED  BY <1>5, <1>7, <2>1, <4>2, <4>3
    <3> QED  BY <3>1
  <2>4. i = q  BY <2>2, <2>3
  <2> QED  BY <1>5, <2>1, <2>4
<1> QED  BY <1>6, <1>7, <1>8, <1>9

-----------------------------------------------------------------------------
(***************************************************************************)
(* Buddy blocks that tile the units from 1 to z - 1.                       *)
(***************************************************************************)
BuddyBlock == [offset : Nat, order : Order]

Stop(b) == b.offset + OrderToUnitSize(b.order)

Apart(b, c) == Stop(b) <= c.offset \/ Stop(c) <= b.offset

Placed(b, z) ==
    /\ b \in BuddyBlock
    /\ Multiple(b.offset, OrderToUnitSize(b.order))
    /\ 1 <= b.offset /\ Stop(b) <= z

Holding(b, u) == b.offset <= u /\ u < Stop(b)

Tiled(B, z) ==
    /\ \A b \in B : Placed(b, z)
    /\ \A b, c \in B : b # c => Apart(b, c)
    /\ \A u \in 1..(z - 1) : \E b \in B : Holding(b, u)

LEMMA BlockTypes ==
    ASSUME NEW b \in BuddyBlock
    PROVE  /\ b.offset \in Nat /\ b.order \in Nat /\ b.order \in Order
           /\ OrderToUnitSize(b.order) \in Nat \ {0}
           /\ Stop(b) \in Nat /\ b.offset < Stop(b)
           /\ b = [offset |-> b.offset, order |-> b.order]
<1>1. MaxOrder \in Nat \ {0}  BY BuddyAssumption
<1>2. b.offset \in Nat /\ b.order \in Nat /\ b.order \in Order
  BY <1>1 DEF BuddyBlock, Order
<1>3. OrderToUnitSize(b.order) \in Nat \ {0}  BY <1>2, UnitsType
<1>4. b = [offset |-> b.offset, order |-> b.order]  BY DEF BuddyBlock
<1> QED  BY <1>2, <1>3, <1>4 DEF Stop

LEMMA OrderIs ==
    ASSUME NEW k
    PROVE  k \in Order <=> k \in Nat /\ k < MaxOrder
<1>1. MaxOrder \in Nat \ {0}  BY BuddyAssumption
<1> QED  BY <1>1 DEF Order

(***************************************************************************)
(* What a block of order s is split into, to hand out one of order k.      *)
(***************************************************************************)
Block(o, k) == [offset |-> o, order |-> k]

Halves(o, k, s) == {Block(RightHalf(o, j), j) : j \in k..(s - 1)}

Pieces(o, k, s) == {Block(o, k)} \cup Halves(o, k, s)

LEMMA HalfIs ==
    ASSUME NEW o \in Nat, NEW j \in Nat
    PROVE  /\ Block(RightHalf(o, j), j).offset = o + OrderToUnitSize(j)
           /\ Block(RightHalf(o, j), j).order = j
           /\ Stop(Block(RightHalf(o, j), j)) = o + OrderToUnitSize(j + 1)
<1>1. OrderToUnitSize(j) \in Nat /\ OrderToUnitSize(j + 1) = 2 * OrderToUnitSize(j)
  BY UnitsType, UnitsNext
<1> QED  BY <1>1 DEF Block, RightHalf, Stop

LEMMA PiecePlaced ==
    ASSUME NEW b \in BuddyBlock, Multiple(b.offset, OrderToUnitSize(b.order)),
           NEW k \in Nat, k <= b.order, NEW p \in Pieces(b.offset, k, b.order)
    PROVE  /\ p \in BuddyBlock /\ Multiple(p.offset, OrderToUnitSize(p.order))
           /\ b.offset <= p.offset /\ Stop(p) <= Stop(b)
<1>1. b.offset \in Nat /\ b.order \in Nat /\ b.order < MaxOrder
  BY BlockTypes, OrderIs
<1>2. CASE p = Block(b.offset, k)
  <2>1. p.offset = b.offset /\ p.order = k  BY <1>2 DEF Block
  <2>2. k \in Order  BY <1>1, OrderIs, BuddyAssumption
  <2>3. p \in BuddyBlock  BY <1>1, <1>2, <2>2 DEF Block, BuddyBlock
  <2>4. /\ OrderToUnitSize(k) <= OrderToUnitSize(b.order)
        /\ Multiple(OrderToUnitSize(b.order), OrderToUnitSize(k))
    BY <1>1, UnitsGrow
  <2>5. OrderToUnitSize(k) \in Nat /\ OrderToUnitSize(b.order) \in Nat
    BY <1>1, UnitsType
  <2>6. Multiple(b.offset, OrderToUnitSize(k))
    BY <2>4, <2>5, MultipleOf
  <2> QED  BY <1>1, <2>1, <2>3, <2>4, <2>5, <2>6 DEF Stop
<1>3. CASE p \in Halves(b.offset, k, b.order)
  <2>1. PICK j \in k..(b.order - 1) : p = Block(RightHalf(b.offset, j), j)
    BY <1>3 DEF Halves
  <2>2. j \in Nat /\ j + 1 \in Nat /\ j <= b.order /\ j + 1 <= b.order /\ j < MaxOrder
    BY <1>1, BuddyAssumption
  <2>3. /\ p.offset = b.offset + OrderToUnitSize(j) /\ p.order = j
        /\ Stop(p) = b.offset + OrderToUnitSize(j + 1)
    BY <1>1, <2>1, <2>2, HalfIs
  <2>4. /\ OrderToUnitSize(j + 1) <= OrderToUnitSize(b.order)
        /\ Multiple(OrderToUnitSize(b.order), OrderToUnitSize(j))
    BY <1>1, <2>2, UnitsGrow
  <2>5. /\ OrderToUnitSize(j) \in Nat /\ OrderToUnitSize(j + 1) \in Nat
        /\ OrderToUnitSize(b.order) \in Nat
    BY <1>1, <2>2, UnitsType
  <2>6. Multiple(b.offset, OrderToUnitSize(j)) /\ Multiple(OrderToUnitSize(j), OrderToUnitSize(j))
    BY <2>4, <2>5, MultipleOf, MultipleSelf
  <2>7. Multiple(p.offset, OrderToUnitSize(j))
    BY <2>3, <2>5, <2>6, MultipleSum
  <2>8. j \in Order  BY <2>2, OrderIs
  <2>9. p \in BuddyBlock
    <3>1. RightHalf(b.offset, j) \in Nat  BY <1>1, <2>5 DEF RightHalf
    <3> QED  BY <2>1, <2>8, <3>1 DEF Block, BuddyBlock
  <2> QED  BY <1>1, <2>3, <2>4, <2>5, <2>7, <2>9 DEF Stop
<1> QED  BY <1>2, <1>3 DEF Pieces

LEMMA PiecesApart ==
    ASSUME NEW o \in Nat, NEW k \in Nat, NEW s \in Nat, k <= s,
           NEW p \in Pieces(o, k, s), NEW q \in Pieces(o, k, s), p # q
    PROVE  Apart(p, q)
<1>1. ASSUME NEW j \in k..(s - 1)
      PROVE  Stop(Block(o, k)) <= Block(RightHalf(o, j), j).offset
  <2>1. j \in Nat /\ k <= j  OBVIOUS
  <2>2. OrderToUnitSize(k) <= OrderToUnitSize(j) /\ OrderToUnitSize(k) \in Nat
        /\ OrderToUnitSize(j) \in Nat
    BY <2>1, UnitsGrow, UnitsType
  <2> QED  BY <2>1, <2>2, HalfIs DEF Stop, Block
<1>2. ASSUME NEW i \in k..(s - 1), NEW j \in k..(s - 1), i < j
      PROVE  Stop(Block(RightHalf(o, i), i)) <= Block(RightHalf(o, j), j).offset
  <2>1. i \in Nat /\ j \in Nat /\ i + 1 \in Nat /\ i + 1 <= j  BY <1>2
  <2>2. OrderToUnitSize(i + 1) <= OrderToUnitSize(j) /\ OrderToUnitSize(i + 1) \in Nat
        /\ OrderToUnitSize(j) \in Nat
    BY <2>1, UnitsGrow, UnitsType
  <2>3. Stop(Block(RightHalf(o, i), i)) = o + OrderToUnitSize(i + 1)
    BY <2>1, HalfIs
  <2>4. Block(RightHalf(o, j), j).offset = o + OrderToUnitSize(j)
    BY <2>1, HalfIs
  <2> QED  BY <2>2, <2>3, <2>4
<1>3. CASE p = Block(o, k)
  <2>1. PICK j \in k..(s - 1) : q = Block(RightHalf(o, j), j)
    BY <1>3 DEF Pieces, Halves
  <2> QED  BY <1>1, <1>3, <2>1 DEF Apart
<1>4. CASE q = Block(o, k)
  <2>1. PICK j \in k..(s - 1) : p = Block(RightHalf(o, j), j)
    BY <1>4 DEF Pieces, Halves
  <2> QED  BY <1>1, <1>4, <2>1 DEF Apart
<1>5. CASE p # Block(o, k) /\ q # Block(o, k)
  <2>1. PICK i \in k..(s - 1) : p = Block(RightHalf(o, i), i)
    BY <1>5 DEF Pieces, Halves
  <2>2. PICK j \in k..(s - 1) : q = Block(RightHalf(o, j), j)
    BY <1>5 DEF Pieces, Halves
  <2>3. i < j \/ j < i
    <3>1. i # j  BY <2>1, <2>2
    <3> QED  BY <3>1
  <2>4. CASE i < j  BY <1>2, <2>1, <2>2, <2>4 DEF Apart
  <2>5. CASE j < i  BY <1>2, <2>1, <2>2, <2>5 DEF Apart
  <2> QED  BY <2>3, <2>4, <2>5
<1> QED  BY <1>3, <1>4, <1>5

LEMMA PiecesHold ==
    ASSUME NEW o \in Nat, NEW k \in Nat, NEW s \in Nat, k <= s, NEW u \in Nat,
           o <= u, u < o + OrderToUnitSize(s)
    PROVE  \E p \in Pieces(o, k, s) : Holding(p, u)
<1> DEFINE T == {j \in Nat : u < o + OrderToUnitSize(j)}
<1>1. CASE u < o + OrderToUnitSize(k)
  <2>1. Holding(Block(o, k), u)  BY <1>1 DEF Holding, Block, Stop
  <2> QED  BY <2>1 DEF Pieces
<1>2. CASE ~ (u < o + OrderToUnitSize(k))
  <2>1. PICK j \in T : \A y \in T : j <= y
    <3>1. T \subseteq Nat /\ T # {}  OBVIOUS
    <3> HIDE DEF T
    <3> QED  BY <3>1, Least
  <2>2. k < j
    <3>1. ASSUME j <= k  PROVE FALSE
      <4>1. OrderToUnitSize(j) <= OrderToUnitSize(k) /\ OrderToUnitSize(j) \in Nat
            /\ OrderToUnitSize(k) \in Nat
        BY <3>1, UnitsGrow, UnitsType
      <4> QED  BY <1>2, <4>1
    <3> QED  BY <3>1
  <2>3. PICK i \in Nat : i + 1 = j /\ k <= i /\ i < s /\ i \in k..(s - 1)
    <3>1. j <= s  BY <2>1
    <3>2. j - 1 \in Nat /\ (j - 1) + 1 = j /\ k <= j - 1 /\ j - 1 < s
          /\ j - 1 \in k..(s - 1)
      BY <2>2, <3>1
    <3> QED  BY <3>2
  <2>4. o + OrderToUnitSize(i) <= u
    <3>1. i \notin T
      <4>1. i < j  BY <2>3
      <4> HIDE DEF T
      <4> QED  BY <2>1, <2>3, <4>1
    <3>2. OrderToUnitSize(i) \in Nat  BY UnitsType
    <3> QED  BY <3>1, <3>2
  <2>5. u < o + OrderToUnitSize(i + 1)  BY <2>1, <2>3
  <2>6. Holding(Block(RightHalf(o, i), i), u)
    <3>1. Block(RightHalf(o, i), i).offset = o + OrderToUnitSize(i)  BY HalfIs
    <3>2. Stop(Block(RightHalf(o, i), i)) = o + OrderToUnitSize(i + 1)  BY HalfIs
    <3> QED  BY <2>4, <2>5, <3>1, <3>2 DEF Holding
  <2>7. Block(RightHalf(o, i), i) \in Pieces(o, k, s)
    BY <2>3 DEF Pieces, Halves
  <2> QED  BY <2>6, <2>7
<1> QED  BY <1>1, <1>2

LEMMA SplitTiles ==
    ASSUME NEW z \in Nat, NEW B, Tiled(B, z), NEW b \in B, NEW k \in Nat, k <= b.order
    PROVE  Tiled((B \ {b}) \cup Pieces(b.offset, k, b.order), z)
<1>1. PICK P : P = Pieces(b.offset, k, b.order)  OBVIOUS
<1>2. Placed(b, z)  BY DEF Tiled
<1>3. /\ b \in BuddyBlock /\ b.offset \in Nat /\ b.order \in Nat /\ Stop(b) \in Nat
      /\ Multiple(b.offset, OrderToUnitSize(b.order)) /\ 1 <= b.offset /\ Stop(b) <= z
  BY <1>2, BlockTypes DEF Placed
<1>4. ASSUME NEW p \in P
      PROVE  /\ p \in BuddyBlock /\ Multiple(p.offset, OrderToUnitSize(p.order))
             /\ b.offset <= p.offset /\ Stop(p) <= Stop(b)
             /\ p.offset \in Nat /\ Stop(p) \in Nat
  <2>1. /\ p \in BuddyBlock /\ Multiple(p.offset, OrderToUnitSize(p.order))
        /\ b.offset <= p.offset /\ Stop(p) <= Stop(b)
    BY <1>1, <1>3, PiecePlaced
  <2> QED  BY <2>1, BlockTypes
<1>5. ASSUME NEW p \in P  PROVE Placed(p, z)
  BY <1>3, <1>4 DEF Placed
<1>6. ASSUME NEW p \in P, NEW c \in B, c # b  PROVE Apart(p, c) /\ Apart(c, p)
  <2>1. Apart(b, c)  BY <1>6 DEF Tiled
  <2>2. c.offset \in Nat /\ Stop(c) \in Nat
    <3>1. c \in BuddyBlock  BY DEF Tiled, Placed
    <3> QED  BY <3>1, BlockTypes
  <2> QED  BY <1>3, <1>4, <2>1, <2>2 DEF Apart
<1>7. ASSUME NEW p \in P, NEW q \in P, p # q  PROVE Apart(p, q)
  BY <1>1, <1>3, <1>7, PiecesApart
<1>8. ASSUME NEW u \in 1..(z - 1)  PROVE \E c \in (B \ {b}) \cup P : Holding(c, u)
  <2>1. PICK c \in B : Holding(c, u)  BY DEF Tiled
  <2>2. CASE c = b
    <3>1. u \in Nat /\ b.offset <= u /\ u < b.offset + OrderToUnitSize(b.order)
      BY <2>1, <2>2 DEF Holding, Stop
    <3>2. \E p \in P : Holding(p, u)  BY <1>1, <1>3, <3>1, PiecesHold
    <3> QED  BY <3>2
  <2>3. CASE c # b  BY <2>1, <2>3
  <2> QED  BY <2>2, <2>3
<1>9. \A c \in B : Placed(c, z)  BY DEF Tiled
<1>10. \A c, d \in B : c # d => Apart(c, d)  BY DEF Tiled
<1>11. Tiled((B \ {b}) \cup P, z)
  BY <1>5, <1>6, <1>7, <1>8, <1>9, <1>10 DEF Tiled
<1> QED  BY <1>1, <1>11

-----------------------------------------------------------------------------
(***************************************************************************)
(* Lists in which nothing is twice.                                        *)
(***************************************************************************)
LEMMA InjectiveIs ==
    ASSUME NEW S, NEW s \in Seq(S)
    PROVE  IsInjective(s) <=> \A i, j \in 1..Len(s) : s[i] = s[j] => i = j
<1>1. DOMAIN s = 1..Len(s)  OBVIOUS
<1> QED  BY <1>1 DEF IsInjective

LEMMA InjectiveTail ==
    ASSUME NEW S, NEW s \in Seq(S), s # <<>>, IsInjective(s)
    PROVE  /\ Tail(s) \in Seq(S) /\ IsInjective(Tail(s))
           /\ Head(s) \in ToSet(s) /\ Head(s) \in S
           /\ ToSet(Tail(s)) = ToSet(s) \ {Head(s)}
<1>1. PICK t : t = Tail(s)  OBVIOUS
<1>2. PICK n \in Nat : n + 1 = Len(s)
  <2>1. Len(s) \in Nat \ {0}  OBVIOUS
  <2>2. Len(s) - 1 \in Nat /\ (Len(s) - 1) + 1 = Len(s)  BY <2>1
  <2> QED  BY <2>2
<1>3. /\ t \in Seq(S) /\ Len(t) = n /\ Head(s) = s[1] /\ Head(s) \in S
      /\ \A i \in 1..n : t[i] = s[i + 1]
  <2>1. t \in Seq(S) /\ Len(t) = Len(s) - 1 /\ Head(s) = s[1] /\ Head(s) \in S
        /\ \A i \in 1..(Len(s) - 1) : t[i] = s[i + 1]
    BY <1>1
  <2>2. Len(s) - 1 = n  BY <1>2
  <2> QED  BY <2>1, <2>2
<1>4. \A i, j \in 1..(n + 1) : s[i] = s[j] => i = j
  BY <1>2, InjectiveIs
<1>5. IsInjective(t)
  <2>1. ASSUME NEW i \in 1..n, NEW j \in 1..n, t[i] = t[j]  PROVE i = j
    <3>1. i + 1 \in 1..(n + 1) /\ j + 1 \in 1..(n + 1) /\ s[i + 1] = s[j + 1]
      BY <1>3, <2>1
    <3>2. i + 1 = j + 1  BY <1>4, <3>1
    <3> QED  BY <3>2
  <2> QED  BY <1>3, <2>1, InjectiveIs
<1>6. IsList(s) /\ IsList(t)
  BY <1>3, ListOf
<1>7. ToSet(s) = ToSet(t) \cup {Head(s)}
  BY <1>1, <1>6, ListTail
<1>8. Head(s) \notin ToSet(t)
  <2>1. ASSUME Head(s) \in ToSet(t)  PROVE FALSE
    <3>1. PICK i \in 1..n : t[i] = s[1]
      BY <1>3, <1>6, <2>1, ListIs
    <3>2. i + 1 \in 1..(n + 1) /\ 1 \in 1..(n + 1) /\ s[i + 1] = s[1]
      BY <1>3, <3>1
    <3>3. i + 1 = 1  BY <1>4, <3>2
    <3> QED  BY <3>3
  <2> QED  BY <2>1
<1> QED  BY <1>1, <1>3, <1>5, <1>7, <1>8

LEMMA InjectivePrepend ==
    ASSUME NEW S, NEW s \in Seq(S), IsInjective(s), NEW x \in S, x \notin ToSet(s)
    PROVE  /\ <<x>> \o s \in Seq(S) /\ IsInjective(<<x>> \o s)
           /\ ToSet(<<x>> \o s) = ToSet(s) \cup {x}
<1>1. PICK n \in Nat : n = Len(s)  OBVIOUS
<1>2. PICK t : t = <<x>> \o s  OBVIOUS
<1>3. <<x>> \in Seq(S) /\ Len(<<x>>) = 1 /\ <<x>>[1] = x  OBVIOUS
<1>4. /\ t \in Seq(S) /\ Len(t) = n + 1 /\ t[1] = x
      /\ \A i \in 1..n : t[i + 1] = s[i]
  <2>1. t \in Seq(S) /\ Len(t) = 1 + n
        /\ \A i \in 1..(1 + n) : t[i] = IF i <= 1 THEN <<x>>[i] ELSE s[i - 1]
    BY <1>1, <1>2, <1>3, ConcatProperties
  <2>2. t[1] = x  BY <1>3, <2>1
  <2>3. ASSUME NEW i \in 1..n  PROVE t[i + 1] = s[i]
    <3>1. i + 1 \in 1..(1 + n) /\ ~ (i + 1 <= 1) /\ (i + 1) - 1 = i  OBVIOUS
    <3> QED  BY <2>1, <3>1
  <2> QED  BY <2>1, <2>2, <2>3
<1>5. t # <<>>  BY <1>4
<1>6. IsList(s) /\ DOMAIN t = 1..(n + 1) /\ DOMAIN s = 1..n
  BY <1>1, <1>4, ListOf
<1>7. ASSUME NEW i \in 1..(n + 1)
      PROVE  (i = 1 /\ t[i] = x) \/ \E k \in 1..n : i = k + 1 /\ t[i] = s[k] /\ s[k] \in ToSet(s)
  <2>1. CASE i = 1  BY <1>4, <2>1
  <2>2. CASE i # 1
    <3>1. i - 1 \in 1..n /\ (i - 1) + 1 = i  BY <2>2
    <3>2. t[i] = s[i - 1]  BY <1>4, <3>1
    <3>3. s[i - 1] \in ToSet(s)  BY <1>6, <3>1 DEF ToSet
    <3> QED  BY <3>1, <3>2, <3>3
  <2> QED  BY <2>1, <2>2
<1>8. ToSet(t) = ToSet(s) \cup {x}
  <2>1. ASSUME NEW y \in ToSet(t)  PROVE y \in ToSet(s) \cup {x}
    <3>1. PICK i \in 1..(n + 1) : y = t[i]  BY <1>6, <2>1 DEF ToSet
    <3> QED  BY <1>7, <3>1
  <2>2. ASSUME NEW y \in ToSet(s)  PROVE y \in ToSet(t)
    <3>1. PICK i \in 1..n : y = s[i]  BY <1>6, <2>2 DEF ToSet
    <3>2. i + 1 \in 1..(n + 1) /\ t[i + 1] = y  BY <1>4, <3>1
    <3> QED  BY <1>6, <3>2 DEF ToSet
  <2>3. x \in ToSet(t)
    <3>1. 1 \in 1..(n + 1)  OBVIOUS
    <3> QED  BY <1>4, <1>6, <3>1 DEF ToSet
  <2> QED  BY <2>1, <2>2, <2>3
<1>9. IsInjective(t)
  <2>1. \A i, j \in 1..n : s[i] = s[j] => i = j
    BY <1>1, InjectiveIs
  <2>2. ASSUME NEW i \in 1..(n + 1), NEW j \in 1..(n + 1), t[i] = t[j]  PROVE i = j
    <3>1. CASE i = 1
      BY <1>4, <1>7, <2>2, <3>1
    <3>2. CASE j = 1
      BY <1>4, <1>7, <2>2, <3>2
    <3>3. CASE i # 1 /\ j # 1
      <4>1. PICK k \in 1..n : i = k + 1 /\ t[i] = s[k]  BY <1>7, <3>3
      <4>2. PICK l \in 1..n : j = l + 1 /\ t[j] = s[l]  BY <1>7, <3>3
      <4>3. k = l  BY <2>1, <2>2, <4>1, <4>2
      <4> QED  BY <4>1, <4>2, <4>3
    <3> QED  BY <3>1, <3>2, <3>3
  <2> QED  BY <1>4, <2>2, InjectiveIs
<1> QED  BY <1>2, <1>4, <1>8, <1>9

-----------------------------------------------------------------------------
(***************************************************************************)
(* The free blocks of the lists, and the blocks in use: together they tile *)
(* all but the first unit.                                                 *)
(***************************************************************************)
ListsOK(free) ==
    /\ free \in [Order -> Seq(Nat)]
    /\ \A k \in Order : IsInjective(free[k])

FreeBlocks(free) == {b \in BuddyBlock : b.offset \in ToSet(free[b.order])}

BlocksOK(free, H) ==
    /\ ListsOK(free)
    /\ FreeBlocks(free) \cap H = {}
    /\ Tiled(FreeBlocks(free) \cup H, OrderToUnitSize(MaxOrder))

\* Order s is the smallest from k on that has a free block.
Smallest(free, k, s) ==
    /\ k \in Order /\ s \in Order /\ k <= s
    /\ free[s] # <<>>
    /\ \A j \in k..(s - 1) : free[j] = <<>>

SplitFree(free, k, s, left) ==
    [j \in Order |-> IF j = s THEN Tail(free[j])
                     ELSE IF j \in k..(s - 1) THEN <<RightHalf(left, j)>>
                     ELSE free[j]]

LEMMA SplitLists ==
    ASSUME NEW free, ListsOK(free), NEW k, NEW s, Smallest(free, k, s),
           NEW left, left = Head(free[s]), NEW new, new = SplitFree(free, k, s, left)
    PROVE  /\ ListsOK(new) /\ left \in Nat
           /\ Block(left, s) \in FreeBlocks(free)
           /\ FreeBlocks(new) = (FreeBlocks(free) \ {Block(left, s)})
                                \cup Halves(left, k, s)
<1>1. /\ k \in Nat /\ s \in Nat /\ s < MaxOrder /\ MaxOrder \in Nat
      /\ k \in Order /\ s \in Order /\ k <= s /\ free[s] # <<>>
      /\ \A j \in k..(s - 1) : j \in Order /\ j \in Nat /\ j # s
      /\ \A j \in k..(s - 1) : free[j] = <<>>
  <2>0. k \in Order /\ s \in Order /\ k <= s /\ free[s] # <<>>
        /\ \A j \in k..(s - 1) : free[j] = <<>>
    BY DEF Smallest
  <2>1. k \in Nat /\ s \in Nat /\ s < MaxOrder /\ MaxOrder \in Nat
    BY <2>0, OrderIs, BuddyAssumption
  <2>2. ASSUME NEW j \in k..(s - 1)  PROVE j \in Order /\ j \in Nat /\ j # s
    <3>1. j \in Nat /\ j < MaxOrder /\ j # s  BY <2>1
    <3> QED  BY <3>1, OrderIs
  <2> QED  BY <2>0, <2>1, <2>2
<1>2. free[s] \in Seq(Nat) /\ IsInjective(free[s])
  BY <1>1 DEF ListsOK
<1>3. /\ Tail(free[s]) \in Seq(Nat) /\ IsInjective(Tail(free[s]))
      /\ left \in ToSet(free[s]) /\ left \in Nat
      /\ ToSet(Tail(free[s])) = ToSet(free[s]) \ {left}
  BY <1>1, <1>2, InjectiveTail
<1>4. ASSUME NEW j \in Nat
      PROVE  /\ <<RightHalf(left, j)>> \in Seq(Nat)
             /\ IsInjective(<<RightHalf(left, j)>>)
             /\ ToSet(<<RightHalf(left, j)>>) = {RightHalf(left, j)}
             /\ RightHalf(left, j) \in Nat
  <2>1. PICK x \in Nat : x = RightHalf(left, j)
    <3>1. OrderToUnitSize(j) \in Nat  BY UnitsType
    <3>2. left + OrderToUnitSize(j) \in Nat  BY <1>3, <3>1
    <3> QED  BY <3>2 DEF RightHalf
  <2>2. <<x>> \in Seq(Nat) /\ DOMAIN <<x>> = {1} /\ <<x>>[1] = x
    OBVIOUS
  <2> QED  BY <2>1, <2>2 DEF IsInjective, ToSet
<1>5. /\ new[s] = Tail(free[s])
      /\ \A j \in k..(s - 1) : new[j] = <<RightHalf(left, j)>>
      /\ \A j \in Order : j # s /\ j \notin k..(s - 1) => new[j] = free[j]
  BY <1>1 DEF SplitFree
<1>6. ASSUME NEW j \in Order  PROVE new[j] \in Seq(Nat) /\ IsInjective(new[j])
  <2>1. CASE j = s  BY <1>3, <1>5, <2>1
  <2>2. CASE j \in k..(s - 1)  BY <1>1, <1>4, <1>5, <2>2
  <2>3. CASE j # s /\ j \notin k..(s - 1)  BY <1>5, <2>3 DEF ListsOK
  <2> QED  BY <2>1, <2>2, <2>3
<1>7. ListsOK(new)
  <2>1. new \in [Order -> Seq(Nat)]  BY <1>6 DEF SplitFree
  <2> QED  BY <1>6, <2>1 DEF ListsOK
<1>8. Block(left, s) \in FreeBlocks(free)
  BY <1>1, <1>3 DEF FreeBlocks, Block, BuddyBlock
<1>9. ASSUME NEW b \in FreeBlocks(new)
      PROVE  b \in (FreeBlocks(free) \ {Block(left, s)}) \cup Halves(left, k, s)
  <2>1. b \in BuddyBlock /\ b.offset \in ToSet(new[b.order]) /\ b.order \in Order
        /\ b = Block(b.offset, b.order)
    BY BlockTypes DEF FreeBlocks, Block
  <2>2. CASE b.order = s
    <3>1. b.offset \in ToSet(free[s]) /\ b.offset # left
      BY <1>3, <1>5, <2>1, <2>2
    <3>2. b # Block(left, s)  BY <3>1 DEF Block
    <3> QED  BY <2>1, <2>2, <3>1, <3>2 DEF FreeBlocks
  <2>3. CASE b.order \in k..(s - 1)
    <3>1. b.offset = RightHalf(left, b.order)
      BY ZenonT(30), <1>1, <1>4, <1>5, <2>1, <2>3
    <3>2. b = Block(RightHalf(left, b.order), b.order)  BY <2>1, <3>1
    <3> QED  BY <2>3, <3>2 DEF Halves
  <2>4. CASE b.order # s /\ b.order \notin k..(s - 1)
    <3>1. b.offset \in ToSet(free[b.order])  BY <1>5, <2>1, <2>4
    <3>2. b # Block(left, s)  BY <2>4 DEF Block
    <3> QED  BY <2>1, <3>1, <3>2 DEF FreeBlocks
  <2> QED  BY <2>2, <2>3, <2>4
<1>10. ASSUME NEW b \in FreeBlocks(free), b # Block(left, s)
       PROVE  b \in FreeBlocks(new)
  <2>1. b \in BuddyBlock /\ b.offset \in ToSet(free[b.order]) /\ b.order \in Order
        /\ b = Block(b.offset, b.order)
    BY BlockTypes DEF FreeBlocks, Block
  <2>2. CASE b.order = s
    <3>1. b.offset # left  BY <1>10, <2>1, <2>2
    <3>2. b.offset \in ToSet(new[b.order])  BY <1>3, <1>5, <2>1, <2>2, <3>1
    <3> QED  BY <2>1, <3>2 DEF FreeBlocks
  <2>3. CASE b.order \in k..(s - 1)
    <3>1. ToSet(free[b.order]) = {}  BY <1>1, <2>3, EmptyList
    <3> QED  BY <2>1, <3>1
  <2>4. CASE b.order # s /\ b.order \notin k..(s - 1)
    <3>1. b.offset \in ToSet(new[b.order])  BY <1>5, <2>1, <2>4
    <3> QED  BY <2>1, <3>1 DEF FreeBlocks
  <2> QED  BY <2>2, <2>3, <2>4
<1>11. ASSUME NEW j \in k..(s - 1)
       PROVE  Block(RightHalf(left, j), j) \in FreeBlocks(new)
  <2>1. PICK b : b = Block(RightHalf(left, j), j)  OBVIOUS
  <2>2. b.offset = RightHalf(left, j) /\ b.order = j  BY <2>1 DEF Block
  <2>3. b \in BuddyBlock
    BY <1>1, <1>4, <2>1 DEF Block, BuddyBlock
  <2>4. b.offset \in ToSet(new[b.order])
    BY <1>1, <1>4, <1>5, <2>2
  <2> QED  BY <2>1, <2>3, <2>4 DEF FreeBlocks
<1> QED  BY <1>3, <1>7, <1>8, <1>9, <1>10, <1>11 DEF Halves

\* Blocks that hold the same unit are the same block.
LEMMA HoldingOne ==
    ASSUME NEW z \in Nat, NEW B, Tiled(B, z), NEW b \in B, NEW c \in B, NEW u \in Nat,
           Holding(b, u), Holding(c, u)
    PROVE  b = c
<1>1. b \in BuddyBlock /\ c \in BuddyBlock  BY DEF Tiled, Placed
<1>2. b.offset \in Nat /\ Stop(b) \in Nat /\ c.offset \in Nat /\ Stop(c) \in Nat
  BY <1>1, BlockTypes
<1>3. ASSUME Apart(b, c)  PROVE FALSE
  BY <1>2, <1>3 DEF Apart, Holding
<1> QED  BY <1>3 DEF Tiled

LEMMA SplitOK ==
    ASSUME NEW free, NEW H, BlocksOK(free, H), NEW k, NEW s, Smallest(free, k, s),
           NEW left, left = Head(free[s]), NEW new, new = SplitFree(free, k, s, left)
    PROVE  /\ BlocksOK(new, H \cup {Block(left, k)})
           /\ \A h \in H : Apart(h, Block(left, k))
           /\ Placed(Block(left, k), OrderToUnitSize(MaxOrder))
<1>1. PICK z \in Nat : z = OrderToUnitSize(MaxOrder)
  BY UnitsType, BuddyAssumption
<1>2. PICK b : b = Block(left, s)  OBVIOUS
<1>3. PICK F : F = FreeBlocks(free)  OBVIOUS
<1>4. PICK P : P = Pieces(left, k, s)  OBVIOUS
<1>5. ListsOK(free) /\ F \cap H = {} /\ Tiled(F \cup H, z)
  BY <1>1, <1>3 DEF BlocksOK
<1>6. /\ ListsOK(new) /\ b \in F /\ left \in Nat
      /\ FreeBlocks(new) = (F \ {b}) \cup Halves(left, k, s)
  BY <1>2, <1>3, <1>5, SplitLists
<1>7. b.offset = left /\ b.order = s  BY <1>2 DEF Block
<1>8. k \in Nat /\ s \in Nat /\ k <= s  BY OrderIs DEF Smallest
<1>9. Tiled(((F \cup H) \ {b}) \cup P, z)
  <2>1. b \in F \cup H /\ k <= b.order  BY <1>6, <1>7, <1>8
  <2>2. Tiled(((F \cup H) \ {b}) \cup Pieces(b.offset, k, b.order), z)
    BY <1>5, <1>8, <2>1, SplitTiles
  <2> QED  BY <1>4, <1>7, <2>2
<1>10. b \notin H  BY <1>5, <1>6
<1>11. b \in BuddyBlock /\ Multiple(b.offset, OrderToUnitSize(b.order))
  BY <1>5, <1>6 DEF Tiled, Placed
<1>12. ASSUME NEW p \in P, NEW c \in (F \cup H) \ {b}
       PROVE  Apart(c, p) /\ c # p
  <2>1. p \in BuddyBlock /\ b.offset <= p.offset /\ Stop(p) <= Stop(b)
    BY <1>4, <1>7, <1>8, <1>11, PiecePlaced
  <2>2. Apart(b, c) /\ c \in BuddyBlock
    BY <1>5, <1>6 DEF Tiled, Placed
  <2>3. /\ p.offset \in Nat /\ Stop(p) \in Nat /\ p.offset < Stop(p)
        /\ c.offset \in Nat /\ Stop(c) \in Nat
        /\ b.offset \in Nat /\ Stop(b) \in Nat
    BY <1>11, <2>1, <2>2, BlockTypes
  <2>4. Apart(c, p)  BY <2>1, <2>2, <2>3 DEF Apart
  <2>5. c # p  BY <2>1, <2>2, <2>3 DEF Apart
  <2> QED  BY <2>4, <2>5
<1>13. Block(left, k) \in P /\ Halves(left, k, s) \subseteq P
  BY <1>4 DEF Pieces
<1>14. Block(left, k) \notin Halves(left, k, s)
  <2>1. ASSUME NEW j \in k..(s - 1), Block(left, k) = Block(RightHalf(left, j), j)
        PROVE  FALSE
    <3>1. j \in Nat  BY <1>8
    <3>2. left = RightHalf(left, j)  BY <2>1 DEF Block
    <3>3. OrderToUnitSize(j) \in Nat \ {0}  BY <3>1, UnitsType
    <3>4. left = left + OrderToUnitSize(j)  BY <3>2 DEF RightHalf
    <3> QED  BY <1>6, <3>3, <3>4
  <2> QED  BY <2>1 DEF Halves
<1>15. FreeBlocks(new) \cap (H \cup {Block(left, k)}) = {}
  BY <1>5, <1>6, <1>10, <1>12, <1>13, <1>14
<1>16. ((F \cup H) \ {b}) \cup P = FreeBlocks(new) \cup (H \cup {Block(left, k)})
  BY <1>4, <1>6, <1>10 DEF Pieces
<1>17. BlocksOK(new, H \cup {Block(left, k)})
  BY <1>1, <1>6, <1>9, <1>15, <1>16 DEF BlocksOK
<1>18. \A h \in H : Apart(h, Block(left, k))
  BY <1>10, <1>12, <1>13
<1>19. Placed(Block(left, k), z)
  BY <1>9, <1>13 DEF Tiled
<1> QED  BY <1>1, <1>17, <1>18, <1>19

-----------------------------------------------------------------------------
(***************************************************************************)
(* The order of a request, and the order that AllocateBlock splits.        *)
(***************************************************************************)
LEMMA OrderForIs ==
    ASSUME NEW size \in Nat
    PROVE  /\ OrderFor(size) \in Nat
           /\ OrderToUnitSize(OrderFor(size)) * MinBlockSize >= size
           /\ \A j \in Nat : OrderToUnitSize(j) * MinBlockSize >= size
                => OrderFor(size) <= j
<1> DEFINE T == {k \in Nat : OrderToUnitSize(k) * MinBlockSize >= size}
<1>1. MinBlockSize \in Nat /\ MinBlockSize >= 1  BY BuddyAssumption
<1>2. \A k \in Nat : OrderToUnitSize(k) * MinBlockSize \in Nat
  BY <1>1, UnitsType
<1>3. size \in T
  <2>1. PICK x \in Nat : x = OrderToUnitSize(size)  BY UnitsType
  <2>2. x >= size + 1  BY <2>1, UnitsAbove
  <2>3. x * MinBlockSize >= x  BY <1>1
  <2>4. x * MinBlockSize >= size  BY <1>1, <2>2, <2>3
  <2> QED  BY <2>1, <2>4
<1>4. T \subseteq Nat /\ T # {}  BY <1>3
<1>5. PICK k \in T : \A y \in T : k <= y
  <2> HIDE DEF T
  <2> QED  BY <1>4, Least
<1>6. k \in 0..size  BY <1>3, <1>5
<1>7. OrderToUnitSize(k) * MinBlockSize >= size  BY <1>5
<1>8. \A j \in 0..(k - 1) : OrderToUnitSize(j) * MinBlockSize < size
  <2>1. TAKE j \in 0..(k - 1)
  <2>2. j \in Nat /\ ~ (k <= j)  BY <1>6
  <2>3. j \notin T  BY <1>5, <2>2
  <2> QED  BY <1>2, <2>2, <2>3
<1>9. /\ OrderFor(size) \in 0..size
      /\ OrderToUnitSize(OrderFor(size)) * MinBlockSize >= size
      /\ \A j \in 0..(OrderFor(size) - 1) : OrderToUnitSize(j) * MinBlockSize < size
  <2> DEFINE P(x) == /\ OrderToUnitSize(x) * MinBlockSize >= size
                     /\ \A j \in 0..(x - 1) : OrderToUnitSize(j) * MinBlockSize < size
  <2>1. \E x \in 0..size : P(x)  BY <1>6, <1>7, <1>8
  <2>2. OrderFor(size) = CHOOSE x \in 0..size : P(x)  BY DEF OrderFor
  <2> HIDE DEF P
  <2>3. OrderFor(size) \in 0..size /\ P(OrderFor(size))  BY <2>1, <2>2
  <2> QED  BY <2>3 DEF P
<1>10. ASSUME NEW j \in Nat, OrderToUnitSize(j) * MinBlockSize >= size
       PROVE  OrderFor(size) <= j
  <2>1. CASE j < OrderFor(size)
    <3>1. j \in 0..(OrderFor(size) - 1)  BY <1>9, <2>1
    <3> QED  BY <1>2, <1>9, <1>10, <3>1
  <2> QED  BY <1>9, <2>1
<1> QED  BY <1>9, <1>10

LEMMA SplitOrderIs ==
    ASSUME NEW a, ListsOK(a.free), NEW size, NEW align,
           SizeToAllocate(size, align) \in Nat, CanAllocate(a, size, align),
           NEW k, k = OrderFor(SizeToAllocate(size, align))
    PROVE  Smallest(a.free, k, SplitOrder(a, k))
<1>1. PICK n \in Nat : n = SizeToAllocate(size, align)  OBVIOUS
<1>2. PICK j \in Order : a.free[j] # <<>> /\ OrderToUnitSize(j) * MinBlockSize >= n
  BY <1>1 DEF CanAllocate, HasFree
<1>3. j \in Nat /\ j < MaxOrder /\ MaxOrder \in Nat  BY <1>2, OrderIs, BuddyAssumption
<1>4. k \in Nat /\ k <= j  BY <1>1, <1>2, <1>3, OrderForIs
<1>5. k \in Order  BY <1>3, <1>4, OrderIs
<1> DEFINE T == {x \in k..(MaxOrder - 1) : a.free[x] # <<>>}
<1>6. T \subseteq Nat /\ j \in T  BY <1>2, <1>3, <1>4
<1>7. PICK s \in T : \A y \in T : s <= y
  <2> HIDE DEF T
  <2> QED  BY <1>6, Least
<1>8. s \in k..(MaxOrder - 1) /\ a.free[s] # <<>>  BY <1>7
<1>9. \A y \in k..(s - 1) : a.free[y] = <<>>
  <2>1. TAKE y \in k..(s - 1)
  <2>2. y \in k..(MaxOrder - 1) /\ ~ (s <= y)  BY <1>3, <1>4, <1>8
  <2> QED  BY <1>7, <2>2
<1> DEFINE P(x) == a.free[x] # <<>> /\ \A y \in k..(x - 1) : a.free[y] = <<>>
<1>10. SplitOrder(a, k) = CHOOSE x \in k..(MaxOrder - 1) : P(x)
  BY DEF SplitOrder, HasFree
<1>11. \E x \in k..(MaxOrder - 1) : P(x)  BY <1>8, <1>9
<1>12. SplitOrder(a, k) \in k..(MaxOrder - 1) /\ P(SplitOrder(a, k))
  <2> HIDE DEF P
  <2> QED  BY <1>10, <1>11
<1>13. SplitOrder(a, k) \in Order /\ k <= SplitOrder(a, k)
  BY <1>3, <1>4, <1>12, OrderIs
<1> QED  BY <1>5, <1>12, <1>13 DEF Smallest

(***************************************************************************)
(* The units that blocks hold, and the bytes an allocator counts as used.  *)
(***************************************************************************)
LastUnit == OrderToUnitSize(MaxOrder) - 1

Covered(H) == {u \in 1..LastUnit : \E b \in H : Holding(b, u)}

UsedFor(H) == (Cardinality(Covered(H)) + 1) * MinBlockSize

LEMMA CoveredFinite ==
    ASSUME NEW H
    PROVE  /\ IsFiniteSet(Covered(H)) /\ Cardinality(Covered(H)) \in Nat
           /\ LastUnit \in Nat
<1>1. OrderToUnitSize(MaxOrder) \in Nat \ {0}  BY UnitsType, BuddyAssumption
<1>2. LastUnit \in Nat  BY <1>1 DEF LastUnit
<1>3. IsFiniteSet(1..LastUnit)  BY <1>2, FS_Interval
<1>4. Covered(H) \in SUBSET (1..LastUnit)  BY DEF Covered
<1> QED  BY <1>2, <1>3, <1>4, FS_Subset, FS_CardinalityType

LEMMA CoveredMore ==
    ASSUME NEW H, NEW b, Placed(b, OrderToUnitSize(MaxOrder)),
           \A h \in H : h \in BuddyBlock /\ Apart(h, b)
    PROVE  Cardinality(Covered(H \cup {b}))
             = Cardinality(Covered(H)) + OrderToUnitSize(b.order)
<1>1. /\ b.offset \in Nat /\ OrderToUnitSize(b.order) \in Nat \ {0}
      /\ Stop(b) = b.offset + OrderToUnitSize(b.order)
      /\ 1 <= b.offset /\ Stop(b) <= OrderToUnitSize(MaxOrder)
  BY BlockTypes DEF Placed, Stop
<1>2. OrderToUnitSize(MaxOrder) \in Nat  BY UnitsType, BuddyAssumption
<1> DEFINE C == Covered(H)
           D == b.offset..(b.offset + OrderToUnitSize(b.order) - 1)
<1>3. Covered(H \cup {b}) = C \cup D
  <2>1. ASSUME NEW u \in D
        PROVE  u \in 1..LastUnit /\ Holding(b, u)
    BY <1>1, <1>2, <2>1 DEF LastUnit, Holding
  <2>2. ASSUME NEW u \in 1..LastUnit, Holding(b, u)
        PROVE  u \in D
    BY <1>1, <2>2 DEF Holding
  <2> QED  BY <2>1, <2>2 DEF Covered
<1>4. C \cap D = {}
  <2>1. ASSUME NEW u \in C, u \in D  PROVE FALSE
    <3>1. PICK h \in H : Holding(h, u)  BY <2>1 DEF Covered
    <3>2. h.offset \in Nat /\ Stop(h) \in Nat /\ Apart(h, b)  BY BlockTypes
    <3>3. u \in Nat /\ b.offset <= u /\ u < Stop(b)  BY <1>1, <2>1
    <3> QED  BY <1>1, <3>1, <3>2, <3>3 DEF Holding, Apart
  <2> QED  BY <2>1
<1>5. IsFiniteSet(D) /\ Cardinality(D) = OrderToUnitSize(b.order)
  <2>1. PICK x \in Nat, y \in Nat \ {0} : x = b.offset /\ y = OrderToUnitSize(b.order)
    BY <1>1
  <2>2. /\ IsFiniteSet(x..(x + y - 1))
        /\ Cardinality(x..(x + y - 1))
             = IF x > x + y - 1 THEN 0 ELSE (x + y - 1) - x + 1
    BY FS_Interval
  <2>3. Cardinality(x..(x + y - 1)) = y  BY <2>2
  <2> QED  BY <2>1, <2>2, <2>3
<1>6. IsFiniteSet(C) /\ Cardinality(C) \in Nat  BY CoveredFinite
<1>7. Cardinality(C \cup D) = Cardinality(C) + Cardinality(D) - Cardinality(C \cap D)
  <2> HIDE DEF C, D
  <2> QED  BY <1>5, <1>6, FS_Union
<1>8. Cardinality(C \cap D) = 0  BY <1>4, FS_EmptySet
<1>9. Cardinality(C \cup D) = Cardinality(C) + OrderToUnitSize(b.order)
  <2> HIDE DEF C, D
  <2> QED  BY <1>1, <1>5, <1>6, <1>7, <1>8
<1> QED  BY <1>3, <1>9

LEMMA CoveredNone ==
    ASSUME NEW H, \A h \in H : Placed(h, OrderToUnitSize(MaxOrder)),
           Cardinality(Covered(H)) = 0
    PROVE  H = {}
<1>1. Covered(H) = {}  BY CoveredFinite, FS_EmptySet
<1>2. ASSUME NEW h \in H  PROVE FALSE
  <2>1. /\ h.offset \in Nat /\ Stop(h) \in Nat /\ h.offset < Stop(h)
        /\ 1 <= h.offset /\ Stop(h) <= OrderToUnitSize(MaxOrder)
    BY BlockTypes DEF Placed
  <2>2. OrderToUnitSize(MaxOrder) \in Nat  BY UnitsType, BuddyAssumption
  <2>3. h.offset \in 1..LastUnit /\ Holding(h, h.offset)
    BY <2>1, <2>2 DEF LastUnit, Holding
  <2> QED  BY <1>1, <2>3 DEF Covered
<1> QED  BY <1>2

-----------------------------------------------------------------------------
(***************************************************************************)
(* What is always true of an allocator and the blocks H in use, and what   *)
(* the operations of the allocator make of it.                             *)
(***************************************************************************)
BuddyOK(a, H) == BlocksOK(a.free, H) /\ a.used = UsedFor(H)

AllocatorIs(a) ==
    a = [id |-> a.id, used |-> a.used, retired |-> a.retired, last |-> a.last,
         free |-> a.free]

LEMMA BuddyNew ==
    ASSUME NEW id
    PROVE  AllocatorIs(NewAllocator(id)) /\ BuddyOK(NewAllocator(id), {})
<1>1. PICK free : free = [k \in Order |-> <<OrderToUnitSize(k)>>]  OBVIOUS
<1>2. /\ NewAllocator(id).free = free /\ NewAllocator(id).used = MinBlockSize
      /\ AllocatorIs(NewAllocator(id))
  BY <1>1 DEF NewAllocator, AllocatorIs
<1>3. ASSUME NEW k \in Order
      PROVE  /\ free[k] = <<OrderToUnitSize(k)>>
             /\ OrderToUnitSize(k) \in Nat \ {0}
             /\ free[k] \in Seq(Nat) /\ IsInjective(free[k])
             /\ ToSet(free[k]) = {OrderToUnitSize(k)}
  <2>1. PICK x \in Nat \ {0} : x = OrderToUnitSize(k)  BY UnitsType, OrderIs
  <2>2. <<x>> \in Seq(Nat) /\ IsInjective(<<x>>)
    <3>1. <<x>> \in Seq(Nat) /\ Len(<<x>>) = 1  BY <2>1
    <3>2. \A i, j \in 1..Len(<<x>>) : <<x>>[i] = <<x>>[j] => i = j  BY <3>1
    <3> QED  BY <3>1, <3>2, InjectiveIs
  <2>3. ToSet(<<x>>) = {x}  BY DEF ToSet
  <2> QED  BY <1>1, <2>1, <2>2, <2>3
<1>4. ListsOK(free)  BY <1>1, <1>3 DEF ListsOK
<1>5. PICK z \in Nat : z = OrderToUnitSize(MaxOrder)  BY UnitsType, BuddyAssumption
<1>6. MaxOrder \in Nat  BY BuddyAssumption
<1>7. ASSUME NEW b \in FreeBlocks(free)
      PROVE  /\ b \in BuddyBlock /\ b.offset = OrderToUnitSize(b.order)
             /\ b.order \in Nat /\ b.order < MaxOrder
             /\ Stop(b) = OrderToUnitSize(b.order + 1)
  <2>1. b \in BuddyBlock /\ b.order \in Order /\ b.offset \in ToSet(free[b.order])
    BY BlockTypes DEF FreeBlocks
  <2>2. b.offset = OrderToUnitSize(b.order)  BY <1>3, <2>1
  <2>3. b.order \in Nat /\ b.order < MaxOrder  BY <2>1, OrderIs
  <2>4. OrderToUnitSize(b.order + 1) = 2 * OrderToUnitSize(b.order)
    BY <2>3, UnitsNext
  <2>5. OrderToUnitSize(b.order) \in Nat  BY <2>3, UnitsType
  <2>6. Stop(b) = OrderToUnitSize(b.order + 1)  BY <2>2, <2>4, <2>5 DEF Stop
  <2> QED  BY <2>1, <2>2, <2>3, <2>6
<1>8. ASSUME NEW b \in FreeBlocks(free)  PROVE Placed(b, z)
  <2>1. OrderToUnitSize(b.order) \in Nat \ {0}  BY <1>7, UnitsType
  <2>2. Multiple(b.offset, OrderToUnitSize(b.order))  BY <1>7, <2>1, MultipleSelf
  <2>3. OrderToUnitSize(b.order + 1) <= OrderToUnitSize(MaxOrder)
    BY <1>6, <1>7, UnitsGrow
  <2> QED  BY <1>5, <1>7, <2>1, <2>2, <2>3 DEF Placed
<1>9. ASSUME NEW b \in FreeBlocks(free), NEW c \in FreeBlocks(free), b.order < c.order
      PROVE  Apart(b, c)
  <2>1. OrderToUnitSize(b.order + 1) <= OrderToUnitSize(c.order)
    BY <1>7, <1>9, UnitsGrow
  <2> QED  BY <1>7, <2>1 DEF Apart
<1>10. ASSUME NEW b \in FreeBlocks(free), NEW c \in FreeBlocks(free), b # c
       PROVE  Apart(b, c)
  <2>1. CASE b.order = c.order
    <3>1. b.offset = c.offset  BY <1>7, <2>1
    <3> QED  BY <1>7, <1>10, <2>1, <3>1, BlockTypes
  <2>2. CASE b.order < c.order  BY <1>9, <2>2
  <2>3. CASE c.order < b.order
    <3>1. Apart(c, b)  BY <1>9, <2>3
    <3> QED  BY <3>1 DEF Apart
  <2> QED  BY <1>7, <2>1, <2>2, <2>3
<1>11. ASSUME NEW u \in 1..(z - 1)
       PROVE  \E b \in FreeBlocks(free) : Holding(b, u)
  <2> DEFINE T == {k \in Nat : u < OrderToUnitSize(k)}
  <2>1. MaxOrder \in T  BY <1>5, <1>6
  <2>2. T \subseteq Nat /\ T # {}  BY <2>1
  <2>3. PICK k \in T : \A y \in T : k <= y
    <3> HIDE DEF T
    <3> QED  BY <2>2, Least
  <2>4. k \in Nat /\ u < OrderToUnitSize(k) /\ k <= MaxOrder  BY <2>1, <2>3
  <2>5. k # 0  BY <2>4, UnitsZero
  <2>6. PICK j \in Nat : j = k - 1 /\ k = j + 1  BY <2>4, <2>5
  <2>7. j \in Order  BY <1>6, <2>4, <2>6, OrderIs
  <2>8. ~ (u < OrderToUnitSize(j))  BY <2>3, <2>6
  <2>9. PICK b : b = Block(OrderToUnitSize(j), j)  OBVIOUS
  <2>10. b.offset = OrderToUnitSize(j) /\ b.order = j  BY <2>9 DEF Block
  <2>11. OrderToUnitSize(j) \in Nat  BY UnitsType
  <2>12. b \in BuddyBlock  BY <2>7, <2>9, <2>11 DEF Block, BuddyBlock
  <2>13. b \in FreeBlocks(free)  BY <1>3, <2>7, <2>10, <2>12 DEF FreeBlocks
  <2>14. Stop(b) = OrderToUnitSize(k)  BY <1>7, <2>6, <2>10, <2>13
  <2> QED  BY <2>4, <2>8, <2>10, <2>11, <2>13, <2>14 DEF Holding
<1>12. Tiled(FreeBlocks(free), z)  BY <1>8, <1>10, <1>11 DEF Tiled
<1>13. BlocksOK(free, {})  BY <1>4, <1>5, <1>12 DEF BlocksOK
<1>14. Cardinality(Covered({})) = 0
  <2>1. Covered({}) = {}  BY DEF Covered
  <2> QED  BY <2>1, FS_EmptySet
<1>15. UsedFor({}) = MinBlockSize  BY <1>14, BuddyAssumption DEF UsedFor
<1> QED  BY <1>2, <1>13, <1>15 DEF BuddyOK

LEMMA BuddyAllocate ==
    ASSUME NEW a, AllocatorIs(a), NEW H, BuddyOK(a, H), NEW size, NEW align,
           SizeToAllocate(size, align) \in Nat, CanAllocate(a, size, align),
           NEW b, b = BlockFor(a, size, align),
           NEW new, new = AllocateBlock(a, size, align)
    PROVE  /\ AllocatorIs(new) /\ BuddyOK(new, H \cup {b})
           /\ new.id = a.id /\ new.retired = a.retired /\ new.last = a.last
           /\ Placed(b, OrderToUnitSize(MaxOrder))
           /\ \A h \in H : Apart(h, b)
           /\ SizeToAllocate(size, align) <= OrderToUnitSize(b.order) * MinBlockSize
<1>1. PICK k : k = OrderFor(SizeToAllocate(size, align))  OBVIOUS
<1>2. PICK s : s = SplitOrder(a, k)  OBVIOUS
<1>3. PICK left : left = Head(a.free[s])  OBVIOUS
<1>4. BlocksOK(a.free, H) /\ ListsOK(a.free) /\ a.used = UsedFor(H)
  BY DEF BuddyOK, BlocksOK
<1>5. Smallest(a.free, k, s)  BY <1>1, <1>2, <1>4, SplitOrderIs
<1>6. b = Block(left, k) /\ b.order = k  BY <1>1, <1>2, <1>3 DEF BlockFor, Block
<1>7. PICK free : free = SplitFree(a.free, k, s, left)  OBVIOUS
<1>8. /\ BlocksOK(free, H \cup {b}) /\ \A h \in H : Apart(h, b)
      /\ Placed(b, OrderToUnitSize(MaxOrder))
  BY <1>3, <1>4, <1>5, <1>6, <1>7, SplitOK
<1>9. PICK v : v = a.used + OrderToUnitSize(k) * MinBlockSize  OBVIOUS
<1>10. new = [a EXCEPT !.used = v, !.free = free]
  BY <1>1, <1>2, <1>3, <1>7, <1>9 DEF AllocateBlock, SplitFree
<1>11. PICK i, u, r, l, f :
        a = [id |-> i, used |-> u, retired |-> r, last |-> l, free |-> f]
  BY DEF AllocatorIs
<1>12. new = [id |-> i, used |-> v, retired |-> r, last |-> l, free |-> free]
  BY <1>10, <1>11
<1>13. /\ AllocatorIs(new) /\ new.id = a.id /\ new.retired = a.retired
       /\ new.last = a.last /\ new.used = v /\ new.free = free
  BY <1>11, <1>12 DEF AllocatorIs
<1>14. \A h \in H : h \in BuddyBlock  BY <1>4 DEF BlocksOK, Tiled, Placed
<1>15. Cardinality(Covered(H \cup {b}))
        = Cardinality(Covered(H)) + OrderToUnitSize(k)
  BY <1>6, <1>8, <1>14, CoveredMore
<1>16. k \in Nat /\ OrderToUnitSize(k) \in Nat  BY <1>5, OrderIs, UnitsType DEF Smallest
<1>17. v = UsedFor(H \cup {b})
  <2>1. PICK n \in Nat, m \in Nat, p \in Nat :
            n = Cardinality(Covered(H)) /\ m = MinBlockSize /\ p = OrderToUnitSize(k)
    BY <1>16, CoveredFinite, BuddyAssumption
  <2>2. v = (n + 1) * m + p * m  BY <1>4, <1>9, <2>1 DEF UsedFor
  <2>3. UsedFor(H \cup {b}) = (n + p + 1) * m  BY <1>15, <2>1 DEF UsedFor
  <2> QED  BY <2>2, <2>3
<1>18. BuddyOK(new, H \cup {b})  BY <1>8, <1>13, <1>17 DEF BuddyOK
<1>19. SizeToAllocate(size, align) <= OrderToUnitSize(k) * MinBlockSize
  <2>1. OrderToUnitSize(k) * MinBlockSize >= SizeToAllocate(size, align)
    BY <1>1, OrderForIs
  <2>2. OrderToUnitSize(k) * MinBlockSize \in Nat  BY <1>16, BuddyAssumption
  <2> QED  BY <2>1, <2>2
<1> QED  BY <1>6, <1>8, <1>13, <1>18, <1>19

\* No block in use is free: what is freed is the block itself.
LEMMA FreedIs ==
    ASSUME NEW a, NEW H, BuddyOK(a, H), NEW b \in H
    PROVE  /\ FreedOrder(a, b) = b.order
           /\ PairOffset(b.offset, b.order) = b.offset
           /\ b.offset \notin ToSet(a.free[b.order])
<1>1. /\ b \in BuddyBlock /\ Multiple(b.offset, OrderToUnitSize(b.order))
      /\ b \notin FreeBlocks(a.free)
  BY DEF BuddyOK, BlocksOK, Tiled, Placed
<1>2. b.order \in Order /\ b.order \in Nat /\ b.order < MaxOrder /\ b.offset \in Nat
      /\ MaxOrder \in Nat
  BY <1>1, BlockTypes, OrderIs, BuddyAssumption
<1>3. PairOffset(b.offset, b.order) = b.offset
  BY <1>1, <1>2, UnitsType, MultipleDiv DEF PairOffset
<1>4. b.offset \notin ToSet(a.free[b.order])  BY <1>1 DEF FreeBlocks
<1> DEFINE In(t) == Contains(a.free[t], PairOffset(b.offset, t))
           P(t) == /\ t = MaxOrder \/ ~ In(t)
                   /\ \A j \in b.order..(t - 1) : In(j)
<1>5. ~ In(b.order)
  <2>1. ListsOK(a.free)  BY DEF BuddyOK, BlocksOK
  <2>2. PICK s \in Seq(Nat) : s = a.free[b.order]  BY <1>2, <2>1 DEF ListsOK
  <2>3. DOMAIN s = 1..Len(s)  BY <2>2
  <2>4. b.offset \notin ToSet(s)  BY <1>4, <2>2
  <2>5. ~ \E i \in 1..Len(s) : s[i] = b.offset  BY <2>3, <2>4 DEF ToSet
  <2> QED  BY <1>3, <2>2, <2>5 DEF Contains
<1>6. FreedOrder(a, b) = CHOOSE t \in b.order..MaxOrder : P(t)  BY DEF FreedOrder
<1>7. P(b.order)
  <2>1. \A j \in b.order..(b.order - 1) : FALSE  BY <1>2
  <2> QED  BY <1>5, <2>1
<1>8. ASSUME NEW t \in b.order..MaxOrder, P(t)  PROVE t = b.order
  <2>1. CASE t # b.order
    <3>1. b.order \in b.order..(t - 1)  BY <1>2, <2>1
    <3> QED  BY <1>5, <1>8, <3>1
  <2> QED  BY <2>1
<1>9. b.order \in b.order..MaxOrder  BY <1>2
<1>10. FreedOrder(a, b) = b.order
  <2> HIDE DEF P
  <2> QED  BY <1>6, <1>7, <1>8, <1>9
<1> QED  BY <1>3, <1>4, <1>10

LEMMA BuddyFree ==
    ASSUME NEW a, AllocatorIs(a), NEW H, BuddyOK(a, H), NEW b \in H,
           NEW new, new = DeallocateBlock(a, b)
    PROVE  /\ AllocatorIs(new) /\ BuddyOK(new, H \ {b})
           /\ new.id = a.id /\ new.retired = a.retired /\ new.last = a.last
<1>1. PICK o, t : o = b.offset /\ t = b.order  OBVIOUS
<1>2. /\ FreedOrder(a, b) = t /\ PairOffset(o, t) = o /\ o \notin ToSet(a.free[t])
  BY <1>1, FreedIs
<1>3. /\ ListsOK(a.free) /\ FreeBlocks(a.free) \cap H = {}
      /\ Tiled(FreeBlocks(a.free) \cup H, OrderToUnitSize(MaxOrder))
      /\ a.used = UsedFor(H)
  BY DEF BuddyOK, BlocksOK
<1>4. /\ b \in BuddyBlock /\ t \in Order /\ t \in Nat /\ o \in Nat /\ b = Block(o, t)
      /\ Placed(b, OrderToUnitSize(MaxOrder))
  BY <1>1, <1>3, BlockTypes DEF Tiled, Placed, Block
<1>5. PICK free : free = [a.free EXCEPT ![t] = <<o>> \o @]  OBVIOUS
<1>6. a.free \in [Order -> Seq(Nat)]  BY <1>3 DEF ListsOK
<1>7. free = [j \in Order |->
                LET offset == PairOffset(o, j)
                IN  IF j = t THEN <<offset>> \o a.free[j]
                    ELSE IF j \in t..(t - 1) THEN Remove(a.free[j], offset)
                    ELSE a.free[j]]
  <2>1. \A j : j \notin t..(t - 1)  BY <1>4
  <2> QED  BY <1>2, <1>4, <1>5, <1>6, <2>1
<1>8. PICK v : v = a.used - OrderToUnitSize(t) * MinBlockSize  OBVIOUS
<1>9. new = [a EXCEPT !.used = v, !.free = free]
  BY <1>1, <1>2, <1>7, <1>8 DEF DeallocateBlock
<1>10. PICK i, u, r, l, f :
        a = [id |-> i, used |-> u, retired |-> r, last |-> l, free |-> f]
  BY DEF AllocatorIs
<1>11. new = [id |-> i, used |-> v, retired |-> r, last |-> l, free |-> free]
  BY <1>9, <1>10
<1>12. /\ AllocatorIs(new) /\ new.id = a.id /\ new.retired = a.retired
       /\ new.last = a.last /\ new.used = v /\ new.free = free
  BY <1>10, <1>11 DEF AllocatorIs
<1>13. /\ <<o>> \o a.free[t] \in Seq(Nat) /\ IsInjective(<<o>> \o a.free[t])
       /\ ToSet(<<o>> \o a.free[t]) = ToSet(a.free[t]) \cup {o}
  BY <1>2, <1>3, <1>4, InjectivePrepend DEF ListsOK
<1>14. ListsOK(free)
  <2>1. \A j \in Order : free[j] \in Seq(Nat) /\ IsInjective(free[j])
    BY <1>3, <1>4, <1>5, <1>13 DEF ListsOK
  <2>2. free = [j \in Order |-> free[j]]  BY <1>7
  <2> QED  BY <2>1, <2>2 DEF ListsOK
<1>15. FreeBlocks(free) = FreeBlocks(a.free) \cup {b}
  <2>1. \A j \in Order : ToSet(free[j]) = IF j = t THEN ToSet(a.free[t]) \cup {o}
                                          ELSE ToSet(a.free[j])
    BY <1>4, <1>5, <1>6, <1>13
  <2>2. ASSUME NEW c \in BuddyBlock
        PROVE  c \in FreeBlocks(free) <=> c \in FreeBlocks(a.free) \/ c = b
    <3>1. c.order \in Order /\ (c = b <=> c.order = t /\ c.offset = o)
      BY <1>4, BlockTypes DEF Block
    <3> QED  BY <2>1, <3>1 DEF FreeBlocks
  <2>3. FreeBlocks(free) \subseteq BuddyBlock /\ FreeBlocks(a.free) \subseteq BuddyBlock
    BY DEF FreeBlocks
  <2> QED  BY <1>4, <2>2, <2>3
<1>16. BlocksOK(free, H \ {b})
  <2>1. FreeBlocks(free) \cup (H \ {b}) = FreeBlocks(a.free) \cup H  BY <1>15
  <2>2. FreeBlocks(free) \cap (H \ {b}) = {}  BY <1>3, <1>15
  <2> QED  BY <1>3, <1>14, <2>1, <2>2 DEF BlocksOK
<1>17. v = UsedFor(H \ {b})
  <2>1. \A h \in H \ {b} : h \in BuddyBlock /\ Apart(h, b)
    BY <1>3 DEF Tiled, Placed
  <2>2. (H \ {b}) \cup {b} = H  OBVIOUS
  <2>3. Cardinality(Covered(H)) = Cardinality(Covered(H \ {b})) + OrderToUnitSize(t)
    BY <1>1, <1>4, <2>1, <2>2, CoveredMore
  <2>4. PICK n \in Nat, m \in Nat, p \in Nat :
            n = Cardinality(Covered(H \ {b})) /\ m = MinBlockSize
            /\ p = OrderToUnitSize(t)
    BY <1>4, UnitsType, CoveredFinite, BuddyAssumption
  <2>5. v = (n + p + 1) * m - p * m  BY <1>3, <1>8, <2>3, <2>4 DEF UsedFor
  <2>6. UsedFor(H \ {b}) = (n + 1) * m  BY <2>4 DEF UsedFor
  <2>7. (n + p + 1) * m = (n + 1) * m + p * m  BY <2>4
  <2>8. (n + 1) * m \in Nat /\ p * m \in Nat  BY <2>4
  <2> QED  BY <2>5, <2>6, <2>7, <2>8
<1> QED  BY <1>12, <1>16, <1>17 DEF BuddyOK

\* An allocator that has nothing in use counts nothing as used, and no other does.
LEMMA BuddyUsed ==
    ASSUME NEW a, NEW H, BuddyOK(a, H)
    PROVE  NothingUsed(a) <=> H = {}
<1>1. \A h \in H : Placed(h, OrderToUnitSize(MaxOrder))
  BY DEF BuddyOK, BlocksOK, Tiled
<1>2. PICK n \in Nat, m \in Nat \ {0} : n = Cardinality(Covered(H)) /\ m = MinBlockSize
  BY CoveredFinite, BuddyAssumption
<1>3. NothingUsed(a) <=> (n + 1) * m = m  BY <1>2 DEF BuddyOK, UsedFor, NothingUsed
<1>4. (n + 1) * m = m <=> n = 0
  <2>1. (n + 1) * m = n * m + m /\ n * m \in Nat  BY <1>2
  <2>2. n * m = 0 <=> n = 0  BY <1>2
  <2> QED  BY <2>1, <2>2
<1>5. n = 0 => H = {}  BY <1>1, <1>2, CoveredNone
<1>6. H = {} => n = 0
  <2>1. Covered({}) = {}  BY DEF Covered
  <2> QED  BY <1>2, <2>1, FS_EmptySet
<1> QED  BY <1>3, <1>4, <1>5, <1>6

-----------------------------------------------------------------------------
(***************************************************************************)
(* Extents that fill the bytes from 0 to z - 1.                            *)
(***************************************************************************)
PoolBlock == [offset : Nat, size : Nat \ {0}]

Beside(b, c) == End(b) <= c.offset \/ End(c) <= b.offset

HasByte(b, u) == b.offset <= u /\ u < End(b)

Within(b, z) == b \in PoolBlock /\ Multiple(b.offset, PoolAlignment) /\ End(b) <= z

Filled(B, z) ==
    /\ \A b \in B : Within(b, z)
    /\ \A b, c \in B : b # c => Beside(b, c)
    /\ \A u \in 0..(z - 1) : \E b \in B : HasByte(b, u)

LEMMA ExtentIs ==
    ASSUME NEW b \in PoolBlock
    PROVE  /\ b.offset \in Nat /\ b.size \in Nat \ {0} /\ End(b) \in Nat
           /\ End(b) = b.offset + b.size /\ b.offset < End(b)
           /\ b = [offset |-> b.offset, size |-> b.size]
BY DEF PoolBlock, End

LEMMA BesideIs ==
    ASSUME NEW b \in PoolBlock, NEW c \in PoolBlock
    PROVE  Beside(b, c) <=> \A u \in Nat : ~ (HasByte(b, u) /\ HasByte(c, u))
<1>1. /\ b.offset \in Nat /\ End(b) \in Nat /\ b.offset < End(b)
      /\ c.offset \in Nat /\ End(c) \in Nat /\ c.offset < End(c)
  BY ExtentIs
<1>2. ASSUME Beside(b, c), NEW u \in Nat, HasByte(b, u), HasByte(c, u)  PROVE FALSE
  BY <1>1, <1>2 DEF Beside, HasByte
<1>3. ASSUME ~ Beside(b, c)  PROVE \E u \in Nat : HasByte(b, u) /\ HasByte(c, u)
  <2>1. CASE b.offset <= c.offset
    <3>1. HasByte(b, c.offset) /\ HasByte(c, c.offset)
      BY <1>1, <1>3, <2>1 DEF Beside, HasByte
    <3> QED  BY <1>1, <3>1
  <2>2. CASE ~ (b.offset <= c.offset)
    <3>1. HasByte(b, b.offset) /\ HasByte(c, b.offset)
      BY <1>1, <1>3, <2>2 DEF Beside, HasByte
    <3> QED  BY <1>1, <3>1
  <2> QED  BY <2>1, <2>2
<1> QED  BY <1>2, <1>3

\* Extents that become one.
LEMMA JoinFilled ==
    ASSUME NEW T, NEW z \in Nat, Filled(T, z), NEW D, D \subseteq T,
           NEW c, Within(c, z),
           \A u \in Nat : HasByte(c, u) <=> \E d \in D : HasByte(d, u)
    PROVE  Filled((T \ D) \cup {c}, z)
<1>1. \A b \in T : Within(b, z) /\ b \in PoolBlock  BY DEF Filled, Within
<1>2. c \in PoolBlock  BY DEF Within
<1>3. ASSUME NEW e \in T \ D  PROVE Beside(c, e) /\ Beside(e, c)
  <2>1. e \in PoolBlock  BY <1>1
  <2>2. ASSUME NEW u \in Nat, HasByte(c, u), HasByte(e, u)  PROVE FALSE
    <3>1. PICK d \in D : HasByte(d, u)  BY <2>2
    <3>2. d \in PoolBlock /\ d # e /\ d \in T  BY <1>1
    <3>3. Beside(d, e)  BY <3>2 DEF Filled
    <3> QED  BY <2>1, <2>2, <3>1, <3>2, <3>3, BesideIs
  <2>3. Beside(c, e)  BY <1>2, <2>1, <2>2, BesideIs
  <2> QED  BY <2>3 DEF Beside
<1>4. \A b, d \in (T \ D) \cup {c} : b # d => Beside(b, d)
  BY <1>3 DEF Filled
<1>5. ASSUME NEW u \in 0..(z - 1)  PROVE \E b \in (T \ D) \cup {c} : HasByte(b, u)
  <2>1. PICK b \in T : HasByte(b, u)  BY DEF Filled
  <2>2. u \in Nat  OBVIOUS
  <2>3. CASE b \in D  BY <2>1, <2>2, <2>3
  <2>4. CASE b \notin D  BY <2>1, <2>4
  <2> QED  BY <2>3, <2>4
<1> QED  BY <1>1, <1>4, <1>5 DEF Filled

\* An extent that is split in two.
LEMMA SplitFilled ==
    ASSUME NEW T, NEW z \in Nat, Filled(T, z), NEW f \in T,
           NEW x \in PoolBlock, NEW r \in PoolBlock,
           x.offset = f.offset, End(x) = r.offset, End(r) = End(f),
           Multiple(r.offset, PoolAlignment)
    PROVE  /\ Filled((T \ {f}) \cup {x, r}, z)
           /\ \A e \in T \ {f} : e # x /\ e # r
<1>1. \A b \in T : Within(b, z) /\ b \in PoolBlock  BY DEF Filled, Within
<1>2. /\ f.offset \in Nat /\ End(f) \in Nat /\ f.offset < End(f) /\ End(f) <= z
      /\ x.offset \in Nat /\ End(x) \in Nat /\ x.offset < End(x)
      /\ r.offset \in Nat /\ End(r) \in Nat /\ r.offset < End(r)
  BY <1>1, ExtentIs DEF Within
<1>3. Within(x, z) /\ Within(r, z)
  BY <1>1, <1>2 DEF Within
<1>4. Beside(x, r) /\ Beside(r, x)  BY <1>2 DEF Beside
<1>5. ASSUME NEW e \in T \ {f}
      PROVE  /\ Beside(x, e) /\ Beside(e, x) /\ Beside(r, e) /\ Beside(e, r)
             /\ e # x /\ e # r
  <2>1. Beside(f, e)  BY DEF Filled
  <2>2. e.offset \in Nat /\ End(e) \in Nat /\ e.offset < End(e)  BY <1>1, ExtentIs
  <2> QED  BY <1>2, <2>1, <2>2 DEF Beside
<1>6. \A b, d \in (T \ {f}) \cup {x, r} : b # d => Beside(b, d)
  BY <1>4, <1>5 DEF Filled
<1>7. ASSUME NEW u \in 0..(z - 1)  PROVE \E b \in (T \ {f}) \cup {x, r} : HasByte(b, u)
  <2>1. PICK b \in T : HasByte(b, u)  BY DEF Filled
  <2>2. CASE b = f
    <3>1. HasByte(x, u) \/ HasByte(r, u)  BY <1>2, <2>1, <2>2 DEF HasByte
    <3> QED  BY <3>1
  <2>3. CASE b # f  BY <2>1, <2>3
  <2> QED  BY <2>2, <2>3
<1>8. \A b \in (T \ {f}) \cup {x, r} : Within(b, z)  BY <1>1, <1>3
<1> QED  BY <1>5, <1>6, <1>7, <1>8 DEF Filled

LEMMA BytesIs ==
    ASSUME NEW z \in Nat, NEW B, \A b \in B : Within(b, z)
    PROVE  /\ Bytes(B) = {u \in 0..(z - 1) : \E b \in B : HasByte(b, u)}
           /\ IsFiniteSet(Bytes(B)) /\ TotalSize(B) \in Nat /\ TotalSize(B) <= z
<1>1. \A b \in B : /\ b.offset \in Nat /\ End(b) \in Nat /\ End(b) <= z
  BY ExtentIs DEF Within
<1>2. Bytes(B) = {u \in 0..(z - 1) : \E b \in B : HasByte(b, u)}
  <2>1. ASSUME NEW b \in B, NEW u \in b.offset..(End(b) - 1)
        PROVE  u \in 0..(z - 1) /\ HasByte(b, u)
    BY <1>1 DEF HasByte
  <2>2. ASSUME NEW b \in B, NEW u \in 0..(z - 1), HasByte(b, u)
        PROVE  u \in b.offset..(End(b) - 1)
    BY <1>1, <2>2 DEF HasByte
  <2> QED  BY <2>1, <2>2 DEF Bytes
<1>3. IsFiniteSet(0..(z - 1)) /\ Cardinality(0..(z - 1)) = z
  <2>1. IsFiniteSet(0..(z - 1))
        /\ Cardinality(0..(z - 1)) = IF 0 > z - 1 THEN 0 ELSE (z - 1) - 0 + 1
    BY FS_Interval
  <2> QED  BY <2>1
<1>4. PICK C : C = Bytes(B)  OBVIOUS
<1>5. C \in SUBSET (0..(z - 1))  BY <1>2, <1>4
<1>6. /\ IsFiniteSet(C) /\ Cardinality(C) \in Nat
      /\ Cardinality(C) <= Cardinality(0..(z - 1))
  BY <1>3, <1>5, FS_Subset, FS_CardinalityType
<1> QED  BY <1>2, <1>3, <1>4, <1>6 DEF TotalSize

LEMMA BytesMore ==
    ASSUME NEW z \in Nat, NEW B, NEW b, Within(b, z),
           \A h \in B : Within(h, z) /\ Beside(h, b)
    PROVE  TotalSize(B \cup {b}) = TotalSize(B) + b.size
<1>1. /\ b.offset \in Nat /\ b.size \in Nat \ {0} /\ End(b) = b.offset + b.size
      /\ End(b) <= z /\ b \in PoolBlock
  BY ExtentIs DEF Within
<1>2. PICK C, D, E : /\ C = Bytes(B) /\ E = Bytes(B \cup {b})
                     /\ D = b.offset..(b.offset + b.size - 1)
  OBVIOUS
<1>3. C = {u \in 0..(z - 1) : \E h \in B : HasByte(h, u)}
  BY <1>2, BytesIs
<1>4. E = {u \in 0..(z - 1) : \E h \in B \cup {b} : HasByte(h, u)}
  <2>1. \A h \in B \cup {b} : Within(h, z)  OBVIOUS
  <2> QED  BY <1>2, <2>1, BytesIs
<1>5. \A u : u \in D <=> u \in 0..(z - 1) /\ HasByte(b, u)
  BY <1>1, <1>2 DEF HasByte
<1>6. E = C \cup D  BY <1>3, <1>4, <1>5
<1>7. C \cap D = {}
  <2>1. ASSUME NEW u \in C, u \in D  PROVE FALSE
    <3>1. PICK h \in B : HasByte(h, u)  BY <1>3, <2>1
    <3>2. u \in Nat /\ HasByte(b, u) /\ h \in PoolBlock  BY <1>5, <2>1 DEF Within
    <3> QED  BY <1>1, <3>1, <3>2, BesideIs
  <2> QED  BY <2>1
<1>8. IsFiniteSet(D) /\ Cardinality(D) = b.size
  <2>1. PICK x \in Nat, y \in Nat \ {0} : x = b.offset /\ y = b.size
    BY <1>1
  <2>2. /\ IsFiniteSet(x..(x + y - 1))
        /\ Cardinality(x..(x + y - 1))
             = IF x > x + y - 1 THEN 0 ELSE (x + y - 1) - x + 1
    BY FS_Interval
  <2>3. Cardinality(x..(x + y - 1)) = y  BY <2>2
  <2> QED  BY <1>2, <2>1, <2>2, <2>3
<1>9. IsFiniteSet(C) /\ Cardinality(C) \in Nat
  BY <1>2, BytesIs DEF TotalSize
<1>10. Cardinality(C \cup D) = Cardinality(C) + Cardinality(D) - Cardinality(C \cap D)
  BY <1>8, <1>9, FS_Union
<1>11. Cardinality(C \cap D) = 0  BY <1>7, FS_EmptySet
<1>12. Cardinality(E) = Cardinality(C) + b.size
  BY <1>1, <1>6, <1>8, <1>9, <1>10, <1>11
<1> QED  BY <1>2, <1>12 DEF TotalSize

-----------------------------------------------------------------------------
(***************************************************************************)
(* A pool whose blocks in use take the extents U: its free blocks fill the *)
(* rest, no two of them could be one, and FreeSize is their sum.           *)
(***************************************************************************)
FreeAround(free, U, z) ==
    /\ Filled(free \cup U, z)
    /\ free \cap U = {}
    /\ \A f, g \in free : End(f) # g.offset

PoolIs(p) == p = [size |-> p.size, freeSize |-> p.freeSize, last |-> p.last, free |-> p.free]

PoolAt(p, U) ==
    /\ PoolIs(p)
    /\ p.size \in Nat
    /\ FreeAround(p.free, U, p.size)
    /\ p.freeSize = TotalSize(p.free)

LEMMA PoolNew ==
    ASSUME NEW size \in Nat \ {0}
    PROVE  PoolAt(NewPool(size), {}) /\ NewPool(size).size = size
<1>1. PICK b, p : b = [offset |-> 0, size |-> size] /\ p = NewPool(size)  OBVIOUS
<1>2. /\ PoolIs(p) /\ p.size = size /\ p.freeSize = size /\ p.free = {b}
  BY <1>1 DEF NewPool, PoolIs
<1>3. b \in PoolBlock /\ b.offset = 0 /\ End(b) = size /\ b.size = size
  BY <1>1 DEF PoolBlock, End
<1>4. Within(b, size)
  <2>1. Multiple(0, PoolAlignment)  BY MultipleSelf, PoolAlignmentAssumption
  <2> QED  BY <1>3, <2>1 DEF Within
<1>5. \A u \in 0..(size - 1) : HasByte(b, u)  BY <1>3 DEF HasByte
<1>6. Filled({b}, size)  BY <1>4, <1>5 DEF Filled
<1>7. FreeAround({b}, {}, size)
  <2>1. {b} \cup {} = {b} /\ {b} \cap {} = {}  OBVIOUS
  <2> QED  BY <1>3, <1>6, <2>1 DEF FreeAround
<1>8. TotalSize({b}) = size
  <2>1. Bytes({}) = {}  BY DEF Bytes
  <2>2. TotalSize({}) = 0  BY <2>1, FS_EmptySet DEF TotalSize
  <2>3. PICK N : N = {}  OBVIOUS
  <2>4. \A h \in N : Within(h, size) /\ Beside(h, b)  BY <2>3
  <2>5. TotalSize(N \cup {b}) = TotalSize(N) + b.size  BY <1>4, <2>4, BytesMore
  <2> QED  BY <1>3, <2>2, <2>3, <2>5
<1> QED  BY <1>1, <1>2, <1>7, <1>8 DEF PoolAt

\* Nothing is in use of a pool that is empty.
LEMMA PoolIdle ==
    ASSUME NEW p, NEW U, PoolAt(p, U), IsEmpty(p)
    PROVE  U = {}
<1>0. PICK z \in Nat : z = p.size  BY DEF PoolAt
<1>1. PICK F : z = p.size /\ F = p.free  BY <1>0
<1>2. Filled(F \cup U, z) /\ F \cap U = {} /\ TotalSize(F) = z
  BY <1>1 DEF PoolAt, FreeAround, IsEmpty
<1>3. ASSUME NEW x \in U  PROVE FALSE
  <2>1. Within(x, z) /\ \A f \in F : Within(f, z) /\ Beside(f, x)
    BY <1>2 DEF Filled
  <2>2. TotalSize(F \cup {x}) = TotalSize(F) + x.size  BY <2>1, BytesMore
  <2>3. x.size \in Nat \ {0}  BY <2>1, ExtentIs DEF Within
  <2>4. PICK G : G = F \cup {x}  OBVIOUS
  <2>5. \A f \in G : Within(f, z)  BY <2>1, <2>4
  <2>6. TotalSize(G) \in Nat /\ TotalSize(G) <= z  BY <2>5, BytesIs
  <2> QED  BY <1>2, <2>2, <2>3, <2>4, <2>6
<1> QED  BY <1>3

\* The size of a request and the block it gets, when its alignment divides that
\* of the pool.
LEMMA UnpaddedIs ==
    ASSUME NEW size \in Nat \ {0}, NEW align, ~ Padded(align)
    PROVE  /\ GetAlignedSize(size, align) = AlignArbitrary(size, PoolAlignment)
           /\ AlignArbitrary(size, PoolAlignment) \in Nat \ {0}
           /\ Multiple(AlignArbitrary(size, PoolAlignment), PoolAlignment)
           /\ size <= AlignArbitrary(size, PoolAlignment)
           /\ \A f : Allocated(f, size, align) = [offset |-> f.offset, size |-> size]
<1>1. GetAlignedSize(size, align) = AlignArbitrary(size, PoolAlignment)
  BY DEF GetAlignedSize
<1>2. \A f : Allocated(f, size, align) = [offset |-> f.offset, size |-> size]
  BY DEF Allocated, GetAlignedOffset
<1>0. PICK n \in Nat : n = size  OBVIOUS
<1>3. PICK t : n = size /\ t = AlignArbitrary(n, PoolAlignment)  BY <1>0
<1>4. t \in Nat /\ Multiple(t, PoolAlignment) /\ n <= t
  BY <1>3, AlignIs, PoolAlignmentAssumption
<1>5. t # 0  BY <1>3, <1>4
<1> QED  BY <1>1, <1>2, <1>3, <1>4, <1>5

LEMMA TakenIs ==
    ASSUME NEW b, Multiple(b.offset, PoolAlignment)
    PROVE  Taken(b) = [offset |-> b.offset, size |-> AlignArbitrary(b.size, PoolAlignment)]
<1>1. (b.offset \div PoolAlignment) * PoolAlignment = b.offset
  BY MultipleDiv, PoolAlignmentAssumption
<1> QED  BY <1>1 DEF Taken, AlignDown

\* A pool has handed out block b of free block f.
HandedOut(p, U, f, b, size, new) ==
    /\ PoolAt(new, U \cup {Taken(b)}) /\ new.size = p.size /\ new.last = p.last
    /\ Taken(b) \notin U /\ b.offset = f.offset /\ b.size = size
    /\ Multiple(b.offset, PoolAlignment) /\ b.offset \in Nat

LEMMA PoolTake ==
    ASSUME NEW p, NEW U, PoolAt(p, U), NEW size \in Nat \ {0}, NEW align,
           ~ Padded(align), NEW f \in p.free,
           AlignArbitrary(size, PoolAlignment) <= f.size,
           NEW b, b = Allocated(f, size, align),
           NEW new, new = TryAllocate(p, f, size, align)
    PROVE  HandedOut(p, U, f, b, size, new)
<1>1. PICK t : t = AlignArbitrary(size, PoolAlignment)  OBVIOUS
<1>2. /\ t \in Nat \ {0} /\ Multiple(t, PoolAlignment) /\ t <= f.size
      /\ GetAlignedSize(size, align) = t /\ b = [offset |-> f.offset, size |-> size]
  BY <1>1, UnpaddedIs
<1>0. PICK z \in Nat : z = p.size  BY DEF PoolAt
<1>3. PICK F : z = p.size /\ F = p.free  BY <1>0
<1>4. /\ Filled(F \cup U, z) /\ F \cap U = {} /\ p.freeSize = TotalSize(F)
      /\ \A g, h \in F : End(g) # h.offset
      /\ p = [size |-> z, freeSize |-> p.freeSize, last |-> p.last, free |-> F]
  BY <1>3 DEF PoolAt, FreeAround, PoolIs
<1>5. /\ Within(f, z) /\ f \in PoolBlock /\ f.offset \in Nat /\ f.size \in Nat \ {0}
      /\ End(f) = f.offset + f.size /\ f = [offset |-> f.offset, size |-> f.size]
      /\ Multiple(f.offset, PoolAlignment)
  <2>1. Within(f, z)  BY <1>3, <1>4 DEF Filled
  <2> QED  BY <2>1, ExtentIs DEF Within
<1>6. PICK x : x = [offset |-> f.offset, size |-> t]  OBVIOUS
<1>7. Taken(b) = x
  BY <1>1, <1>2, <1>5, <1>6, TakenIs
<1>8. PICK r : r = [offset |-> f.offset + t, size |-> f.size - t]  OBVIOUS
<1>9. /\ new.size = z /\ new.last = p.last /\ PoolIs(new)
      /\ new.freeSize = p.freeSize - t
      /\ new.free = IF r.size = 0 THEN F \ {f} ELSE AddToFreeBlocks(F \ {f}, r)
  <2>1. new = [p EXCEPT
                !.freeSize = @ - t,
                !.free = IF r.size = 0 THEN @ \ {f} ELSE AddToFreeBlocks(@ \ {f}, r)]
    BY <1>1, <1>2, <1>8 DEF TryAllocate
  <2>2. PICK v, w : /\ v = p.freeSize - t
                    /\ w = IF r.size = 0 THEN F \ {f} ELSE AddToFreeBlocks(F \ {f}, r)
    OBVIOUS
  <2>3. new = [p EXCEPT !.freeSize = v, !.free = w]  BY <1>3, <2>1, <2>2
  <2>4. new = [size |-> z, freeSize |-> v, last |-> p.last, free |-> w]
    <3>1. PICK c, d : p = [size |-> z, freeSize |-> c, last |-> d, free |-> F] /\ d = p.last
      BY <1>4
    <3> QED  BY <2>3, <3>1
  <2> QED  BY <2>2, <2>4 DEF PoolIs
<1>10. \A h \in F \ {f} : Within(h, z) /\ Beside(h, f)
  BY <1>3, <1>4 DEF Filled
<1>11. /\ TotalSize(F) = TotalSize(F \ {f}) + f.size
       /\ TotalSize(F \ {f}) \in Nat
  <2>1. PICK G : G = F \ {f}  OBVIOUS
  <2>2. G \cup {f} = F  BY <1>3, <2>1
  <2>3. TotalSize(G \cup {f}) = TotalSize(G) + f.size  BY <1>5, <1>10, <2>1, BytesMore
  <2>4. TotalSize(G) \in Nat  BY <1>10, <2>1, BytesIs
  <2> QED  BY <2>1, <2>2, <2>3, <2>4
<1>12. b.offset = f.offset /\ b.size = size /\ Multiple(b.offset, PoolAlignment)
       /\ b.offset \in Nat
  BY <1>2, <1>5
<1>13. CASE f.size = t
  <2>1. x = f /\ r.size = 0 /\ new.free = F \ {f}  BY <1>5, <1>6, <1>8, <1>9, <1>13
  <2>2. x \notin U  BY <1>3, <1>4, <2>1
  <2>3. (F \ {f}) \cup (U \cup {x}) = F \cup U  BY <1>3, <2>1
  <2>4. (F \ {f}) \cap (U \cup {x}) = {}  BY <1>4, <2>1
  <2>5. new.freeSize = TotalSize(F \ {f})  BY <1>4, <1>5, <1>9, <1>11, <1>13
  <2>6. FreeAround(new.free, U \cup {x}, z)
    <3>1. PICK K, V : K = F \ {f} /\ V = U \cup {x}  OBVIOUS
    <3>2. K \cup V = F \cup U /\ K \cap V = {} /\ K \subseteq F  BY <2>3, <2>4, <3>1
    <3>3. Filled(K \cup V, z)  BY <1>4, <3>2
    <3>4. \A g, h \in K : End(g) # h.offset  BY <1>4, <3>2
    <3>5. FreeAround(K, V, z)  BY <3>2, <3>3, <3>4 DEF FreeAround
    <3> QED  BY <2>1, <3>1, <3>5
  <2>7. PoolAt(new, U \cup {x})
    <3>1. new.size \in Nat /\ PoolIs(new)  BY <1>9
    <3>2. FreeAround(new.free, U \cup {x}, new.size)  BY <1>9, <2>6
    <3> QED  BY <2>1, <2>5, <3>1, <3>2 DEF PoolAt
  <2> QED  BY <1>3, <1>7, <1>9, <1>12, <2>2, <2>7 DEF HandedOut
<1>14. CASE f.size # t
  <2>1. /\ r.size = f.size - t /\ r.size \in Nat \ {0} /\ r.offset = f.offset + t
        /\ r \in PoolBlock /\ x \in PoolBlock
        /\ x.offset = f.offset /\ End(x) = r.offset /\ End(r) = End(f)
    <3>1. PICK n \in Nat, m \in Nat \ {0}, k \in Nat \ {0} :
            n = f.offset /\ m = f.size /\ k = t
      BY <1>2, <1>5
    <3>2. /\ k <= m /\ k # m /\ m - k \in Nat \ {0} /\ n + k \in Nat
          /\ (n + k) + (m - k) = n + m
      BY <1>2, <1>14, <3>1
    <3>3. r = [offset |-> n + k, size |-> m - k] /\ x = [offset |-> n, size |-> k]
      BY <1>6, <1>8, <3>1
    <3>4. r \in PoolBlock /\ x \in PoolBlock  BY <3>2, <3>3 DEF PoolBlock
    <3>5. /\ r.offset = n + k /\ r.size = m - k /\ x.offset = n /\ x.size = k
      BY <3>3
    <3>6. End(x) = n + k /\ End(r) = n + m /\ End(f) = n + m
      BY <1>5, <3>1, <3>2, <3>5 DEF End
    <3> QED  BY <3>1, <3>2, <3>4, <3>5, <3>6
  <2>2. Multiple(r.offset, PoolAlignment)
    BY <1>2, <1>5, <2>1, MultipleSum, PoolAlignmentAssumption
  <2>3. PICK T : T = F \cup U  OBVIOUS
  <2>4. f \in T /\ Filled(T, z)  BY <1>3, <1>4, <2>3
  <2>5. /\ Filled((T \ {f}) \cup {x, r}, z)
        /\ \A e \in T \ {f} : e # x /\ e # r
    <3>1. Filled(T, z) /\ f \in T  BY <1>3, <1>4, <2>3
    <3> QED  BY <1>3, <2>1, <2>2, <3>1, SplitFilled
  <2>6. x # r /\ x # f /\ r # f  BY <1>2, <1>5, <2>1
  <2>7. ASSUME NEW h \in F \ {f}  PROVE End(h) # r.offset /\ h.offset # End(r)
    <3>1. Beside(h, f) /\ h \in PoolBlock  BY <1>10 DEF Within
    <3>2. h.offset \in Nat /\ End(h) \in Nat /\ h.offset < End(h)  BY <3>1, ExtentIs
    <3>3. End(f) # h.offset  BY <1>3, <1>4
    <3> QED  BY <1>2, <1>5, <2>1, <3>1, <3>2, <3>3 DEF Beside
  <2>8. AddToFreeBlocks(F \ {f}, r) = (F \ {f}) \cup {r}
    <3>1. InFront(F \ {f}, r) = {} /\ Behind(F \ {f}, r) = {}
      BY <2>7 DEF InFront, Behind
    <3>2. Coalesced(F \ {f}, r) = r  BY <3>1 DEF Coalesced
    <3> QED  BY <3>1, <3>2 DEF AddToFreeBlocks
  <2>9. new.free = (F \ {f}) \cup {r}  BY <1>9, <2>1, <2>8
  <2>10. f \notin U /\ x \notin U /\ r \notin U
    <3>1. f \notin U  BY <1>3, <1>4
    <3> QED  BY <2>3, <2>5, <3>1
  <2>11. ((F \ {f}) \cup {r}) \cup (U \cup {x}) = (T \ {f}) \cup {x, r}
    BY <2>3, <2>10
  <2>12. ((F \ {f}) \cup {r}) \cap (U \cup {x}) = {}
    BY <1>4, <2>3, <2>5, <2>6, <2>10
  <2>13. \A g, h \in (F \ {f}) \cup {r} : End(g) # h.offset
    <3>1. End(r) # r.offset  BY <2>1, ExtentIs
    <3> QED  BY <1>4, <2>7, <3>1
  <2>14. FreeAround(new.free, U \cup {x}, z)
    BY <2>5, <2>9, <2>11, <2>12, <2>13 DEF FreeAround
  <2>15. TotalSize(new.free) = TotalSize(F \ {f}) + r.size
    <3>1. Within(r, z)  BY <1>5, <2>1, <2>2 DEF Within
    <3>2. \A h \in F \ {f} : Within(h, z) /\ Beside(h, r)
      <4> TAKE h \in F \ {f}
      <4>1. h \in (T \ {f}) \cup {x, r} /\ h # r  BY <2>3, <2>5
      <4>2. r \in (T \ {f}) \cup {x, r}  OBVIOUS
      <4> QED  BY <1>10, <2>5, <4>1, <4>2 DEF Filled
    <3>3. PICK G : G = F \ {f}  OBVIOUS
    <3>4. TotalSize(G \cup {r}) = TotalSize(G) + r.size  BY <3>1, <3>2, <3>3, BytesMore
    <3> QED  BY <2>9, <3>3, <3>4
  <2>16. new.freeSize = TotalSize(new.free)
    <3>1. r.size = f.size - t  BY <2>1
    <3>2. PICK n, m, k, v : /\ n = TotalSize(F \ {f}) /\ m = f.size /\ k = t
                            /\ v = new.freeSize
      OBVIOUS
    <3>3. n \in Nat /\ m \in Nat /\ k \in Nat  BY <1>2, <1>5, <1>11, <3>2
    <3>4. TotalSize(new.free) = n + (m - k)  BY <2>15, <3>1, <3>2
    <3>5. TotalSize(F) = n + m  BY <1>11, <3>2
    <3>6. v = (n + m) - k  BY <1>4, <1>9, <3>2, <3>5
    <3> QED  BY <3>2, <3>3, <3>4, <3>6
  <2>17. PoolAt(new, U \cup {x})
    <3>1. new.size \in Nat /\ PoolIs(new)  BY <1>9
    <3>2. FreeAround(new.free, U \cup {x}, new.size)  BY <1>9, <2>14
    <3> QED  BY <3>1, <3>2, <2>16 DEF PoolAt
  <2> QED  BY <1>3, <1>7, <1>9, <1>12, <2>10, <2>17 DEF HandedOut
<1> QED  BY <1>13, <1>14

\* At most one free block ends where x begins, and one begins where x ends.
LEMMA NeighboursOne ==
    ASSUME NEW F, NEW U, NEW z \in Nat, FreeAround(F, U, z), NEW x \in U
    PROVE  /\ \A f, g \in InFront(F, x) : f = g
           /\ \A f, g \in Behind(F, x) : f = g
           /\ InFront(F, x) \cap Behind(F, x) = {}
<1>1. \A f \in F : /\ f.offset \in Nat /\ End(f) \in Nat /\ f.offset < End(f)
  BY ExtentIs DEF FreeAround, Filled, Within
<1>2. x.offset \in Nat /\ End(x) \in Nat /\ x.offset < End(x)
  BY ExtentIs DEF FreeAround, Filled, Within
<1>3. \A f, g \in F : f # g => Beside(f, g)
  BY DEF FreeAround, Filled
<1>4. ASSUME NEW f \in F, NEW g \in F, End(f) = End(g)  PROVE f = g
  BY <1>1, <1>3, <1>4 DEF Beside
<1>5. ASSUME NEW f \in F, NEW g \in F, f.offset = g.offset  PROVE f = g
  BY <1>1, <1>3, <1>5 DEF Beside
<1>6. ASSUME NEW f \in F, End(f) = x.offset, f.offset = End(x)  PROVE FALSE
  BY <1>1, <1>2, <1>6
<1> QED  BY <1>4, <1>5, <1>6 DEF InFront, Behind

\* Two extents side by side, made one.
LEMMA MergeIs ==
    ASSUME NEW f \in PoolBlock, NEW g \in PoolBlock, End(f) = g.offset
    PROVE  /\ Merge(f, g) \in PoolBlock /\ Merge(f, g).offset = f.offset
           /\ End(Merge(f, g)) = End(g)
           /\ \A u \in Nat : HasByte(Merge(f, g), u) <=> HasByte(f, u) \/ HasByte(g, u)
<1>1. /\ f.offset \in Nat /\ f.size \in Nat \ {0} /\ End(f) = f.offset + f.size
      /\ g.offset \in Nat /\ g.size \in Nat \ {0} /\ End(g) = g.offset + g.size
  BY ExtentIs
<1>2. PICK m : m = Merge(f, g)  OBVIOUS
<1>3. m \in PoolBlock /\ m.offset = f.offset /\ m.size = f.size + g.size
  BY <1>1, <1>2 DEF Merge, PoolBlock
<1>4. End(m) = End(g)  BY <1>1, <1>3 DEF End
<1>5. \A u \in Nat : HasByte(m, u) <=> HasByte(f, u) \/ HasByte(g, u)
  <2>1. PICK n, k, h : n = f.offset /\ k = g.offset /\ h = End(g)  OBVIOUS
  <2>2. n \in Nat /\ k \in Nat /\ h \in Nat /\ n < k /\ k < h
    BY ExtentIs, <2>1
  <2>3. \A u \in Nat : n <= u /\ u < h <=> (n <= u /\ u < k) \/ (k <= u /\ u < h)
    BY <2>2
  <2> QED  BY <1>3, <1>4, <2>1, <2>3 DEF HasByte
<1> QED  BY <1>2, <1>3, <1>4, <1>5

LEMMA CoalescedIs ==
    ASSUME NEW F, NEW U, NEW z \in Nat, FreeAround(F, U, z), NEW x \in U
    PROVE  LET c == Coalesced(F, x)
               N == InFront(F, x) \cup Behind(F, x)
           IN  /\ c \in PoolBlock
               /\ c.offset = x.offset \/ \E f \in InFront(F, x) : c.offset = f.offset
               /\ InFront(F, x) # {} => \E f \in InFront(F, x) : c.offset = f.offset
               /\ End(c) = End(x) \/ \E f \in Behind(F, x) : End(c) = End(f)
               /\ Behind(F, x) # {} => \E f \in Behind(F, x) : End(c) = End(f)
               /\ \A u \in Nat : HasByte(c, u) <=> \E d \in N \cup {x} : HasByte(d, u)
<1>1. \A f \in F \cup U : f \in PoolBlock
  BY DEF FreeAround, Filled, Within
<1>2. PICK A, B, c : A = InFront(F, x) /\ B = Behind(F, x) /\ c = Coalesced(F, x)
  OBVIOUS
<1>3. /\ \A f, g \in A : f = g
      /\ \A f, g \in B : f = g
      /\ \A f \in A : f \in PoolBlock /\ End(f) = x.offset
      /\ \A f \in B : f \in PoolBlock /\ f.offset = End(x)
      /\ x \in PoolBlock
  BY <1>1, <1>2, NeighboursOne DEF InFront, Behind
<1>4. PICK front : front = IF A = {} THEN x ELSE Merge(CHOOSE f \in A : TRUE, x)
  OBVIOUS
<1>5. c = IF B = {} THEN front ELSE Merge(front, CHOOSE f \in B : TRUE)
  BY <1>2, <1>4 DEF Coalesced
<1>6. /\ front \in PoolBlock /\ End(front) = End(x)
      /\ A = {} => front.offset = x.offset
      /\ A # {} => \E f \in A : front.offset = f.offset
      /\ \A u \in Nat : HasByte(front, u) <=> \E d \in A \cup {x} : HasByte(d, u)
  <2>1. CASE A = {}  BY <1>3, <1>4, <2>1
  <2>2. CASE A # {}
    <3>1. PICK a : a = CHOOSE f \in A : TRUE  OBVIOUS
    <3>2. a \in A /\ front = Merge(a, x)  BY <1>4, <2>2, <3>1
    <3>3. A = {a}  BY <1>3, <3>2
    <3>4. a \in PoolBlock /\ End(a) = x.offset  BY <1>3, <3>2
    <3>5. /\ Merge(a, x) \in PoolBlock /\ Merge(a, x).offset = a.offset
          /\ End(Merge(a, x)) = End(x)
          /\ \A u \in Nat : HasByte(Merge(a, x), u) <=> HasByte(a, u) \/ HasByte(x, u)
      BY <1>3, <3>4, MergeIs
    <3> QED  BY <2>2, <3>2, <3>3, <3>5
  <2> QED  BY <2>1, <2>2
<1>7. CASE B = {}
  <2>1. c = front  BY <1>5, <1>7
  <2>2. \A u \in Nat : HasByte(c, u) <=> \E d \in (A \cup B) \cup {x} : HasByte(d, u)
    BY <1>6, <1>7, <2>1
  <2> QED  BY <1>2, <1>6, <1>7, <2>1, <2>2
<1>8. CASE B # {}
  <2>1. PICK b : b = CHOOSE f \in B : TRUE  OBVIOUS
  <2>2. b \in B /\ c = Merge(front, b)  BY <1>5, <1>8, <2>1
  <2>3. B = {b}  BY <1>3, <2>2
  <2>4. b \in PoolBlock /\ End(front) = b.offset  BY <1>3, <1>6, <2>2
  <2>5. /\ c \in PoolBlock /\ c.offset = front.offset /\ End(c) = End(b)
        /\ \A u \in Nat : HasByte(c, u) <=> HasByte(front, u) \/ HasByte(b, u)
    BY <1>6, <2>2, <2>4, MergeIs
  <2>6. \A u \in Nat : HasByte(c, u) <=> \E d \in (A \cup B) \cup {x} : HasByte(d, u)
    BY <1>6, <2>3, <2>5
  <2>7. /\ c.offset = x.offset \/ \E f \in A : c.offset = f.offset
        /\ A # {} => \E f \in A : c.offset = f.offset
        /\ \E f \in B : End(c) = End(f)
    BY <1>6, <2>2, <2>5
  <2> QED  BY <1>2, <2>5, <2>6, <2>7
<1> QED  BY <1>7, <1>8

LEMMA FreeMore ==
    ASSUME NEW F, NEW U, NEW z \in Nat, FreeAround(F, U, z), NEW x \in U
    PROVE  /\ FreeAround(AddToFreeBlocks(F, x), U \ {x}, z)
           /\ TotalSize(AddToFreeBlocks(F, x)) = TotalSize(F) + x.size
<1>1. PICK A, B, c, G, T : /\ A = InFront(F, x) /\ B = Behind(F, x)
                           /\ c = Coalesced(F, x) /\ G = (F \ (A \cup B)) \cup {c}
                           /\ T = F \cup U
  OBVIOUS
<1>2. AddToFreeBlocks(F, x) = G  BY <1>1 DEF AddToFreeBlocks
<1>3. /\ Filled(T, z) /\ F \cap U = {} /\ \A f, g \in F : End(f) # g.offset
      /\ \A f \in T : Within(f, z) /\ f \in PoolBlock
      /\ \A f, g \in T : f # g => Beside(f, g)
  BY <1>1 DEF FreeAround, Filled, Within
<1>4. /\ c \in PoolBlock
      /\ c.offset = x.offset \/ \E f \in A : c.offset = f.offset
      /\ A # {} => \E f \in A : c.offset = f.offset
      /\ End(c) = End(x) \/ \E f \in B : End(c) = End(f)
      /\ B # {} => \E f \in B : End(c) = End(f)
      /\ \A u \in Nat : HasByte(c, u) <=> \E d \in (A \cup B) \cup {x} : HasByte(d, u)
  BY <1>1, CoalescedIs
<1>5. A \subseteq F /\ B \subseteq F /\ x \in T /\ x \notin F
  BY <1>1, <1>3 DEF InFront, Behind
<1>6. Within(c, z)
  <2>1. Multiple(c.offset, PoolAlignment)  BY <1>1, <1>3, <1>4, <1>5 DEF Within
  <2>2. End(c) <= z  BY <1>1, <1>3, <1>4, <1>5 DEF Within
  <2> QED  BY <1>4, <2>1, <2>2 DEF Within
<1>7. PICK D : D = (A \cup B) \cup {x}  OBVIOUS
<1>8. Filled((T \ D) \cup {c}, z)
  <2>1. D \subseteq T  BY <1>1, <1>5, <1>7
  <2> QED  BY <1>3, <1>4, <1>6, <1>7, <2>1, JoinFilled
<1>9. G \cup (U \ {x}) = (T \ D) \cup {c}
  BY <1>1, <1>3, <1>5, <1>7
\* The block that results shares a byte with what it replaces only.
<1>10. c \notin T \ D
  <2>1. ASSUME c \in T \ D  PROVE FALSE
    <3>1. HasByte(c, c.offset) /\ c.offset \in Nat  BY <1>4, ExtentIs DEF HasByte
    <3>2. PICK d \in D : HasByte(d, c.offset)  BY <1>4, <1>7, <3>1
    <3>3. d \in T /\ d # c /\ d \in PoolBlock  BY <1>1, <1>3, <1>5, <1>7, <2>1
    <3>4. Beside(d, c)  BY <1>3, <2>1, <3>3
    <3> QED  BY <1>4, <3>1, <3>2, <3>3, <3>4, BesideIs
  <2> QED  BY <2>1
<1>11. G \cap (U \ {x}) = {}
  <2>1. \A e \in U \ {x} : e \in T \ D  BY <1>1, <1>3, <1>5, <1>7
  <2> QED  BY <1>1, <1>3, <1>10, <2>1
<1>12. ASSUME NEW f \in G, NEW g \in G  PROVE End(f) # g.offset
  <2>1. CASE f # c /\ g # c  BY <1>1, <1>3, <1>5, <2>1
  <2>2. CASE f = c /\ g = c  BY <1>4, <2>2, ExtentIs
  <2>3. CASE f = c /\ g # c
    <3>1. g \in F /\ g \notin B  BY <1>1, <2>3
    <3>2. End(x) # g.offset  BY <1>1, <3>1 DEF Behind
    <3> QED  BY <1>3, <1>4, <1>5, <2>3, <3>1, <3>2
  <2>4. CASE f # c /\ g = c
    <3>1. f \in F /\ f \notin A  BY <1>1, <2>4
    <3>2. End(f) # x.offset  BY <1>1, <3>1 DEF InFront
    <3> QED  BY <1>3, <1>4, <1>5, <2>4, <3>1, <3>2
  <2> QED  BY <2>1, <2>2, <2>3, <2>4
<1>13. FreeAround(G, U \ {x}, z)
  BY <1>8, <1>9, <1>11, <1>12 DEF FreeAround
<1>14. TotalSize(G) = TotalSize(F) + x.size
  <2>1. PICK E : E = F \cup {x}  OBVIOUS
  <2>2. \A h \in F : Within(h, z) /\ Beside(h, x)  BY <1>1, <1>3, <1>5
  <2>3. TotalSize(E) = TotalSize(F) + x.size
    <3>1. Within(x, z)  BY <1>3, <1>5
    <3> QED  BY <2>1, <2>2, <3>1, BytesMore
  <2>4. \A h \in E : Within(h, z)  BY <1>3, <1>5, <2>1, <2>2
  <2>5. \A h \in G : Within(h, z)  BY <1>1, <1>3, <1>6
  <2>6. Bytes(E) = {u \in 0..(z - 1) : \E h \in E : HasByte(h, u)}
    BY <2>4, BytesIs
  <2>7. Bytes(G) = {u \in 0..(z - 1) : \E h \in G : HasByte(h, u)}
    BY <2>5, BytesIs
  <2>8. ASSUME NEW u \in 0..(z - 1)
        PROVE  (\E h \in E : HasByte(h, u)) <=> (\E h \in G : HasByte(h, u))
    <3>1. u \in Nat  OBVIOUS
    <3>2. HasByte(c, u) <=> \E d \in D : HasByte(d, u)  BY <1>4, <1>7, <3>1
    <3>3. E = (F \ (A \cup B)) \cup D  BY <1>5, <1>7, <2>1
    <3> QED  BY <1>1, <3>2, <3>3
  <2>9. Bytes(E) = Bytes(G)  BY <2>6, <2>7, <2>8
  <2> QED  BY <2>3, <2>9 DEF TotalSize
<1> QED  BY <1>2, <1>13, <1>14

LEMMA PoolGive ==
    ASSUME NEW p, NEW U, PoolAt(p, U), NEW b, Taken(b) \in U,
           NEW new, new = Deallocate(p, b)
    PROVE  PoolAt(new, U \ {Taken(b)}) /\ new.size = p.size /\ new.last = p.last
<1>1. PICK x : x = Taken(b)  OBVIOUS
<1>0. PICK z \in Nat : z = p.size  BY DEF PoolAt
<1>2. PICK F : z = p.size /\ F = p.free  BY <1>0
<1>3. /\ FreeAround(F, U, z) /\ p.freeSize = TotalSize(F)
      /\ p = [size |-> z, freeSize |-> p.freeSize, last |-> p.last, free |-> F]
  BY <1>2 DEF PoolAt, PoolIs
<1>4. PICK G : G = AddToFreeBlocks(F, x)  OBVIOUS
<1>5. /\ new.size = z /\ new.last = p.last /\ PoolIs(new)
      /\ new.freeSize = p.freeSize + x.size /\ new.free = G
  <2>1. new = [p EXCEPT !.freeSize = @ + x.size, !.free = AddToFreeBlocks(@, x)]
    BY <1>1 DEF Deallocate
  <2>2. PICK v : v = p.freeSize + x.size  OBVIOUS
  <2>3. new = [p EXCEPT !.freeSize = v, !.free = G]  BY <1>2, <1>4, <2>1, <2>2
  <2>4. new = [size |-> z, freeSize |-> v, last |-> p.last, free |-> G]
    <3>1. PICK c, d : p = [size |-> z, freeSize |-> c, last |-> d, free |-> F] /\ d = p.last
      BY <1>3
    <3> QED  BY <2>3, <3>1
  <2> QED  BY <2>2, <2>4 DEF PoolIs
<1>6. FreeAround(G, U \ {x}, z) /\ TotalSize(G) = TotalSize(F) + x.size
  BY <1>1, <1>3, <1>4, FreeMore
<1> QED  BY <1>1, <1>2, <1>3, <1>5, <1>6 DEF PoolAt

=============================================================================
