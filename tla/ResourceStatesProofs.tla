------------------------ MODULE ResourceStatesProofs ------------------------
(***************************************************************************)
(* Why the barriers of the resource states match: what folding a list      *)
(* gives, what a list expects and leaves, and how the lists on their way   *)
(* to the GPU fit together.                                                *)
(***************************************************************************)
EXTENDS ResourceStates, TLAPS, FiniteSetTheorems, WellFoundedInduction

-----------------------------------------------------------------------------
(***************************************************************************)
(* Lists.                                                                  *)
(***************************************************************************)
IsList(s) == s \in Seq(ToSet(s))

LEMMA ListIs ==
    ASSUME NEW s, IsList(s)
    PROVE  /\ Len(s) \in Nat /\ DOMAIN s = 1 .. Len(s)
           /\ s = [i \in 1 .. Len(s) |-> s[i]]
           /\ \A i \in 1 .. Len(s) : s[i] \in ToSet(s)
BY DEF IsList, ToSet

LEMMA ListOf ==
    ASSUME NEW S, NEW s \in Seq(S)
    PROVE  IsList(s) /\ ToSet(s) \subseteq S
<1>1. s \in [1 .. Len(s) -> S] /\ Len(s) \in Nat /\ DOMAIN s = 1 .. Len(s)
  OBVIOUS
<1>2. s \in [1 .. Len(s) -> ToSet(s)]
  BY <1>1 DEF ToSet
<1>3. s \in Seq(ToSet(s))
  BY <1>1, <1>2
<1>4. ToSet(s) \subseteq S
  BY <1>1 DEF ToSet
<1> QED  BY <1>3, <1>4 DEF IsList

LEMMA ListMake ==
    ASSUME NEW n \in Nat, NEW s, s = [i \in 1 .. n |-> s[i]]
    PROVE  IsList(s) /\ Len(s) = n /\ DOMAIN s = 1 .. n
<1>1. DOMAIN s = 1 .. n  OBVIOUS
<1>2. s \in [1 .. n -> ToSet(s)]  BY <1>1 DEF ToSet
<1>3. s \in Seq(ToSet(s))  BY <1>2
<1>4. Len(s) = n  BY <1>1, <1>3
<1> QED  BY <1>1, <1>3, <1>4 DEF IsList

LEMMA EmptyList == IsList(<<>>) /\ ToSet(<<>>) = {} /\ Len(<<>>) = 0
BY DEF IsList, ToSet

LEMMA ListEmpty ==
    ASSUME NEW s, IsList(s)
    PROVE  s = <<>> <=> Len(s) = 0
BY DEF IsList

LEMMA ListAppend ==
    ASSUME NEW s, IsList(s), NEW e
    PROVE  /\ IsList(Append(s, e))
           /\ Len(Append(s, e)) = Len(s) + 1
           /\ \A i \in 1 .. Len(s) : Append(s, e)[i] = s[i]
           /\ Append(s, e)[Len(s) + 1] = e
<1> DEFINE S == ToSet(s) \cup {e}
<1>1. s \in Seq(S)
  BY DEF IsList
<1>2. PICK t : t = Append(s, e)  OBVIOUS
<1>3. /\ t \in Seq(S) /\ Len(t) = Len(s) + 1 /\ Len(s) \in Nat
      /\ \A i \in 1 .. Len(s) : t[i] = s[i]
      /\ t[Len(s) + 1] = e
  BY <1>1, <1>2
<1>4. IsList(t)  BY <1>3, ListOf
<1> QED  BY <1>2, <1>3, <1>4

LEMMA ListTail ==
    ASSUME NEW s, IsList(s), s # <<>>
    PROVE  /\ Len(s) \in Nat \ {0}
           /\ IsList(Tail(s))
           /\ Len(Tail(s)) = Len(s) - 1
           /\ Head(s) = s[1]
           /\ \A i \in 1 .. Len(s) - 1 : Tail(s)[i] = s[i + 1]
<1> DEFINE S == ToSet(s)
<1>1. s \in Seq(S)
  BY DEF IsList
<1>2. PICK t : t = Tail(s)  OBVIOUS
<1>3. /\ t \in Seq(S) /\ Len(s) \in Nat \ {0} /\ Len(t) = Len(s) - 1
      /\ Head(s) = s[1]
      /\ \A i \in 1 .. Len(s) - 1 : t[i] = s[i + 1]
  BY <1>1, <1>2
<1>4. IsList(t)  BY <1>3, ListOf
<1> QED  BY <1>2, <1>3, <1>4

LEMMA ListFront ==
    ASSUME NEW s, IsList(s), s # <<>>
    PROVE  /\ Len(s) \in Nat \ {0}
           /\ IsList(Front(s))
           /\ Len(Front(s)) = Len(s) - 1
           /\ Last(s) = s[Len(s)]
           /\ \A i \in 1 .. Len(s) - 1 : Front(s)[i] = s[i]
<1> DEFINE S == ToSet(s)
<1>1. s \in Seq(S)
  BY DEF IsList
<1>2. PICK n \in Nat \ {0} : n = Len(s)  BY <1>1
<1>3. PICK m \in Nat : m = n - 1 /\ m + 1 = n
  <2>1. n - 1 \in Nat /\ (n - 1) + 1 = n  BY <1>2
  <2> QED  BY <2>1
<1>4. PICK t : t = SubSeq(s, 1, m)  OBVIOUS
<1>5. t \in Seq(S) /\ Len(t) = m /\ \A i \in 1 .. m : t[i] = s[i]
  BY <1>1, <1>2, <1>3, <1>4
<1>6. IsList(t)  BY <1>5, ListOf
<1>7. Front(s) = t /\ Last(s) = s[n]  BY <1>2, <1>3, <1>4 DEF Front, Last
<1> QED  BY <1>2, <1>3, <1>5, <1>6, <1>7

LEMMA ListConcat ==
    ASSUME NEW s, IsList(s), NEW t, IsList(t)
    PROVE  /\ IsList(s \o t)
           /\ Len(s \o t) = Len(s) + Len(t)
           /\ \A i \in 1 .. Len(s) : (s \o t)[i] = s[i]
           /\ \A i \in 1 .. Len(t) : (s \o t)[Len(s) + i] = t[i]
<1> DEFINE S == ToSet(s) \cup ToSet(t)
<1>1. s \in Seq(S) /\ t \in Seq(S)
  BY DEF IsList
<1>2. PICK u : u = s \o t  OBVIOUS
<1> HIDE DEF S
<1>3. /\ u \in Seq(S) /\ Len(s) \in Nat /\ Len(t) \in Nat /\ Len(u) = Len(s) + Len(t)
      /\ \A i \in 1 .. Len(s) : u[i] = s[i]
  BY <1>1, <1>2
<1>4. \A i \in 1 .. Len(t) : u[Len(s) + i] = t[i]
  BY <1>1, <1>2
<1>5. IsList(u)  BY <1>3, ListOf
<1> QED  BY <1>2, <1>3, <1>4, <1>5

LEMMA Least ==
    ASSUME NEW T, T \subseteq Nat, T # {}
    PROVE  \E x \in T : \A y \in T : x <= y
<1>1. PICK x \in T : \A y \in T : ~ (<<y, x>> \in OpToRel(<, Nat))
  <2>1. T \subseteq Nat /\ T # {}  OBVIOUS
  <2> QED  BY <2>1, NatLessThanWellFounded, WFMin, Zenon
<1>2. \A y \in T : ~ (y < x)
  <2> SUFFICES ASSUME NEW y \in T, y < x  PROVE FALSE
    OBVIOUS
  <2>1. <<y, x>> \in Nat \X Nat /\ <<y, x>>[1] < <<y, x>>[2]  OBVIOUS
  <2>2. <<y, x>> \in OpToRel(<, Nat)  BY <2>1 DEF OpToRel
  <2> QED  BY <1>1, <2>2
<1> QED  BY <1>2

\* What holds at 0 and goes from each number to the next holds up to n.
LEMMA UpTo ==
    ASSUME NEW n \in Nat, NEW T, 0 \in T,
           \A m \in Nat : m < n /\ m \in T => m + 1 \in T
    PROVE  \A m \in 0 .. n : m \in T
<1> DEFINE U == {m \in Nat : m <= n /\ m \notin T}
<1>1. SUFFICES ASSUME NEW k \in 0 .. n, k \notin T  PROVE FALSE
  OBVIOUS
<1>2. PICK m \in U : \A y \in U : m <= y
  <2>1. k \in U  BY <1>1
  <2>2. U \subseteq Nat /\ U # {}  BY <2>1
  <2> HIDE DEF U
  <2> QED  BY <2>2, Least
<1>3. m # 0  BY <1>2
<1>4. PICK j \in Nat : j + 1 = m
  <2>1. m - 1 \in Nat /\ (m - 1) + 1 = m  BY <1>2, <1>3
  <2> QED  BY <2>1
<1>5. j \notin U  BY <1>2, <1>4
<1>6. j < n /\ j \in T  BY <1>2, <1>4, <1>5
<1>7. m \in T  BY <1>4, <1>6
<1> QED  BY <1>2, <1>7

-----------------------------------------------------------------------------
(***************************************************************************)
(* What the model folds over a list, one operator for all: k says which.   *)
(***************************************************************************)
\* What StateAfter and EachSubresource do for one subresource.
OneAfter(x, list, i) ==
    IF GetSubresourceState(list, i) = TBD THEN x
    ELSE SetSubresourceState(x, i, GetSubresourceState(list, i))

OneOf(x, r, i, subset, after, force) ==
    IF i \in subset THEN TransitionSubresource(x, r, i, after, force) ELSE x

EachOf(r, subset, after, force) ==
    [op |-> "each", resource |-> r, subset |-> subset, after |-> after,
     force |-> force]

Step(k, x, y) ==
    CASE k.op = "executed" -> Executed(x, y)
      [] k.op = "pending" -> PendingBarrier(x, y)
      [] k.op = "request" -> Request(x, y)
      [] k.op = "after" -> OneAfter(x, k.list, y)
      [] k.op = "each" -> OneOf(x, k.resource, y, k.subset, k.after, k.force)

FoldOn(F, n, k, base, s) ==
    F = [t \in SUBSET (1 .. n) |->
            IF t = {} THEN base
            ELSE LET x == Max(t) IN Step(k, F[t \ {x}], s[x])]

LEMMA MaxIs ==
    ASSUME NEW m \in Nat, NEW t \in SUBSET (1 .. m + 1), m + 1 \in t
    PROVE  Max(t) = m + 1
<1>1. \A y \in t : m + 1 >= y  OBVIOUS
<1>2. \A x \in t : (\A y \in t : x >= y) => x = m + 1
  OBVIOUS
<1> QED  BY <1>1, <1>2 DEF Max

LEMMA MaxIn ==
    ASSUME NEW m \in Nat, NEW t \in SUBSET (1 .. m), t # {}
    PROVE  Max(t) \in t
<1> DEFINE U == {m - x : x \in t}
<1>1. PICK u \in U : \A v \in U : u <= v
  <2>1. U \subseteq Nat  OBVIOUS
  <2>2. U # {}  OBVIOUS
  <2> HIDE DEF U
  <2> QED  BY <2>1, <2>2, Least
<1>2. PICK x \in t : u = m - x  BY <1>1
<1>3. \A y \in t : x >= y
  <2> SUFFICES ASSUME NEW y \in t  PROVE x >= y
    OBVIOUS
  <2>1. m - y \in U  OBVIOUS
  <2>2. m - x <= m - y  BY <1>1, <1>2, <2>1
  <2> QED  BY <2>2
<1> QED  BY <1>3 DEF Max

LEMMA FoldMore ==
    ASSUME NEW m \in Nat, NEW k, NEW base, NEW s, NEW F, FoldOn(F, m, k, base, s)
    PROVE  \E G : FoldOn(G, m + 1, k, base, s)
<1> DEFINE G == [t \in SUBSET (1 .. m + 1) |->
                    IF m + 1 \in t THEN Step(k, F[t \ {m + 1}], s[m + 1]) ELSE F[t]]
           E(t) == IF t = {} THEN base
                   ELSE LET x == Max(t) IN Step(k, G[t \ {x}], s[x])
<1>1. ASSUME NEW t \in SUBSET (1 .. m + 1), m + 1 \in t
      PROVE  G[t] = E(t)
  <2>1. Max(t) = m + 1  BY <1>1, MaxIs
  <2>2. t \ {m + 1} \in SUBSET (1 .. m + 1) /\ m + 1 \notin t \ {m + 1}  OBVIOUS
  <2>3. G[t \ {m + 1}] = F[t \ {m + 1}]  BY <2>2
  <2>4. E(t) = Step(k, G[t \ {m + 1}], s[m + 1])  BY <1>1, <2>1
  <2>5. G[t] = Step(k, F[t \ {m + 1}], s[m + 1])  BY <1>1
  <2> QED  BY <2>3, <2>4, <2>5
<1>2. ASSUME NEW t \in SUBSET (1 .. m + 1), m + 1 \notin t
      PROVE  G[t] = E(t)
  <2>1. t \in SUBSET (1 .. m)  BY <1>2
  <2>2. G[t] = F[t]  BY <1>2
  <2>3. F[t] = IF t = {} THEN base
               ELSE LET x == Max(t) IN Step(k, F[t \ {x}], s[x])
    BY <2>1 DEF FoldOn
  <2>4. CASE t = {}
    BY <2>2, <2>3, <2>4
  <2>5. CASE t # {}
    <3>1. PICK x : x = Max(t)  OBVIOUS
    <3>2. x \in t  BY <2>1, <2>5, <3>1, MaxIn
    <3>3. t \ {x} \in SUBSET (1 .. m + 1) /\ m + 1 \notin t \ {x}  BY <1>2
    <3>4. G[t \ {x}] = F[t \ {x}]  BY <3>3
    <3>5. E(t) = Step(k, G[t \ {x}], s[x])  BY <2>5, <3>1
    <3>6. F[t] = Step(k, F[t \ {x}], s[x])  BY <2>3, <2>5, <3>1
    <3> QED  BY <2>2, <3>4, <3>5, <3>6
  <2> QED  BY <2>4, <2>5
<1>3. \A t \in SUBSET (1 .. m + 1) : G[t] = E(t)  BY <1>1, <1>2
<1>4. G = [t \in SUBSET (1 .. m + 1) |-> G[t]]  OBVIOUS
<1>5. G = [t \in SUBSET (1 .. m + 1) |-> E(t)]  BY <1>3, <1>4
<1> QED  BY <1>5 DEF FoldOn

LEMMA FoldExists ==
    ASSUME NEW n \in Nat, NEW k, NEW base, NEW s
    PROVE  \E F : FoldOn(F, n, k, base, s)
<1> DEFINE T == {m \in Nat : \E F : FoldOn(F, m, k, base, s)}
<1>1. 0 \in T
  <2> DEFINE F == [t \in SUBSET (1 .. 0) |-> base]
  <2>1. \A t \in SUBSET (1 .. 0) : t = {}  OBVIOUS
  <2>2. FoldOn(F, 0, k, base, s)  BY <2>1 DEF FoldOn
  <2> QED  BY <2>2
<1>2. \A m \in Nat : m < n /\ m \in T => m + 1 \in T
  BY FoldMore
<1>3. n \in 0 .. n  OBVIOUS
<1> HIDE DEF T
<1>4. n \in T  BY <1>1, <1>2, <1>3, UpTo
<1> QED  BY <1>4 DEF T

\* The values a fold goes through.
Passes(V, k, base, s) ==
    /\ V = [m \in 0 .. Len(s) |-> V[m]]
    /\ V[0] = base
    /\ \A m \in 0 .. Len(s) - 1 : V[m + 1] = Step(k, V[m], s[m + 1])

LEMMA FoldPasses ==
    ASSUME NEW k, NEW base, NEW s, IsList(s), NEW F, FoldOn(F, Len(s), k, base, s)
    PROVE  \E V : Passes(V, k, base, s) /\ V[Len(s)] = F[1 .. Len(s)]
<1>1. PICK n \in Nat : n = Len(s)  BY ListIs
<1> DEFINE V == [m \in 0 .. n |-> F[1 .. m]]
<1>2. V[0] = base
  <2>1. 1 .. 0 = {}  OBVIOUS
  <2>2. F[{}] = base  BY DEF FoldOn
  <2> QED  BY <2>1, <2>2
<1>3. ASSUME NEW m \in 0 .. n - 1  PROVE V[m + 1] = Step(k, V[m], s[m + 1])
  <2>1. PICK t : t = 1 .. m + 1  OBVIOUS
  <2>2. t \in SUBSET (1 .. n) /\ t # {} /\ t \in SUBSET (1 .. m + 1) /\ m + 1 \in t
    BY <2>1
  <2>3. Max(t) = m + 1  BY <2>2, MaxIs
  <2>4. t \ {m + 1} = 1 .. m  BY <2>1
  <2>5. F[t] = LET x == Max(t) IN Step(k, F[t \ {x}], s[x])
    BY <1>1, <2>2 DEF FoldOn
  <2>6. F[t] = Step(k, F[1 .. m], s[m + 1])  BY <2>3, <2>4, <2>5
  <2>7. V[m + 1] = F[t] /\ V[m] = F[1 .. m]  BY <2>1
  <2> QED  BY <2>6, <2>7
<1>4. Passes(V, k, base, s)  BY <1>1, <1>2, <1>3 DEF Passes
<1>5. V[n] = F[1 .. n]  OBVIOUS
<1> QED  BY <1>1, <1>4, <1>5

ListPasses(k, base, s, result) == \E V : Passes(V, k, base, s) /\ V[Len(s)] = result

LEMMA FoldExecuted ==
    ASSUME NEW base, NEW s, IsList(s), NEW result,
           result = FoldLeft(Executed, base, s)
    PROVE  ListPasses([op |-> "executed"], base, s, result)
<1> DEFINE k == [op |-> "executed"]
<1>1. DOMAIN s = 1 .. Len(s) /\ Len(s) \in Nat  BY ListIs
<1>2. \A x, y : Step(k, x, y) = Executed(x, y)  BY DEF Step, EachOf
<1> HIDE DEF k
<1> DEFINE E(F, t) == IF t = {} THEN base
                      ELSE LET z == Max(t) IN Executed(F[t \ {z}], s[z])
           D(F, t) == IF t = {} THEN base
                      ELSE LET z == Max(t) IN Step(k, F[t \ {z}], s[z])
<1>3. \A F, t : D(F, t) = E(F, t)  BY <1>2
<1>4. \A F : FoldOn(F, Len(s), k, base, s) <=>
               F = [t \in SUBSET (DOMAIN s) |-> D(F, t)]
  BY <1>1 DEF FoldOn
<1>5. \A F : FoldOn(F, Len(s), k, base, s) <=>
               F = [t \in SUBSET (DOMAIN s) |-> E(F, t)]
  <2> HIDE DEF E, D
  <2>1. \A F : [t \in SUBSET (DOMAIN s) |-> E(F, t)] =
               [t \in SUBSET (DOMAIN s) |-> D(F, t)]
    BY <1>3
  <2>2. ASSUME NEW F
        PROVE  FoldOn(F, Len(s), k, base, s) <=>
                   F = [t \in SUBSET (DOMAIN s) |-> E(F, t)]
    <3>1. [t \in SUBSET (DOMAIN s) |-> E(F, t)] = [t \in SUBSET (DOMAIN s) |-> D(F, t)]
      BY <2>1
    <3>2. PICK A : A = [t \in SUBSET (DOMAIN s) |-> E(F, t)]  OBVIOUS
    <3>3. A = [t \in SUBSET (DOMAIN s) |-> D(F, t)]  BY <3>1, <3>2
    <3>4. FoldOn(F, Len(s), k, base, s) <=> F = A  BY <1>4, <3>3
    <3> QED  BY <3>2, <3>4
  <2> QED  BY <2>2
<1>6. PICK G : FoldOn(G, Len(s), k, base, s)  BY <1>1, FoldExists
<1>7. G = [t \in SUBSET (DOMAIN s) |-> E(G, t)]  BY <1>5, <1>6
<1>8. \E F : /\ F = [t \in SUBSET (DOMAIN s) |-> E(F, t)]
             /\ result = F[DOMAIN s]
  BY <1>7, Zenon DEF FoldLeft, MapThenFoldSet
<1>9. \E F : /\ FoldOn(F, Len(s), k, base, s)
             /\ result = F[1 .. Len(s)]
  BY <1>1, <1>5, <1>8
<1>10. ListPasses(k, base, s, result)  BY <1>9, FoldPasses DEF ListPasses
<1> QED  BY <1>10 DEF k

LEMMA FoldPending ==
    ASSUME NEW base, NEW s, IsList(s), NEW result,
           result = FoldLeft(PendingBarrier, base, s)
    PROVE  ListPasses([op |-> "pending"], base, s, result)
<1> DEFINE k == [op |-> "pending"]
<1>1. DOMAIN s = 1 .. Len(s) /\ Len(s) \in Nat  BY ListIs
<1>2. \A x, y : Step(k, x, y) = PendingBarrier(x, y)  BY DEF Step, EachOf
<1> HIDE DEF k
<1> DEFINE E(F, t) == IF t = {} THEN base
                      ELSE LET z == Max(t) IN PendingBarrier(F[t \ {z}], s[z])
           D(F, t) == IF t = {} THEN base
                      ELSE LET z == Max(t) IN Step(k, F[t \ {z}], s[z])
<1>3. \A F, t : D(F, t) = E(F, t)  BY <1>2
<1>4. \A F : FoldOn(F, Len(s), k, base, s) <=>
               F = [t \in SUBSET (DOMAIN s) |-> D(F, t)]
  BY <1>1 DEF FoldOn
<1>5. \A F : FoldOn(F, Len(s), k, base, s) <=>
               F = [t \in SUBSET (DOMAIN s) |-> E(F, t)]
  <2> HIDE DEF E, D
  <2>1. \A F : [t \in SUBSET (DOMAIN s) |-> E(F, t)] =
               [t \in SUBSET (DOMAIN s) |-> D(F, t)]
    BY <1>3
  <2>2. ASSUME NEW F
        PROVE  FoldOn(F, Len(s), k, base, s) <=>
                   F = [t \in SUBSET (DOMAIN s) |-> E(F, t)]
    <3>1. [t \in SUBSET (DOMAIN s) |-> E(F, t)] = [t \in SUBSET (DOMAIN s) |-> D(F, t)]
      BY <2>1
    <3>2. PICK A : A = [t \in SUBSET (DOMAIN s) |-> E(F, t)]  OBVIOUS
    <3>3. A = [t \in SUBSET (DOMAIN s) |-> D(F, t)]  BY <3>1, <3>2
    <3>4. FoldOn(F, Len(s), k, base, s) <=> F = A  BY <1>4, <3>3
    <3> QED  BY <3>2, <3>4
  <2> QED  BY <2>2
<1>6. PICK G : FoldOn(G, Len(s), k, base, s)  BY <1>1, FoldExists
<1>7. G = [t \in SUBSET (DOMAIN s) |-> E(G, t)]  BY <1>5, <1>6
<1>8. \E F : /\ F = [t \in SUBSET (DOMAIN s) |-> E(F, t)]
             /\ result = F[DOMAIN s]
  BY <1>7, Zenon DEF FoldLeft, MapThenFoldSet
<1>9. \E F : /\ FoldOn(F, Len(s), k, base, s)
             /\ result = F[1 .. Len(s)]
  BY <1>1, <1>5, <1>8
<1>10. ListPasses(k, base, s, result)  BY <1>9, FoldPasses DEF ListPasses
<1> QED  BY <1>10 DEF k

LEMMA FoldRequest ==
    ASSUME NEW base, NEW s, IsList(s), NEW result,
           result = FoldLeft(Request, base, s)
    PROVE  ListPasses([op |-> "request"], base, s, result)
<1> DEFINE k == [op |-> "request"]
<1>1. DOMAIN s = 1 .. Len(s) /\ Len(s) \in Nat  BY ListIs
<1>2. \A x, y : Step(k, x, y) = Request(x, y)  BY DEF Step, EachOf
<1> HIDE DEF k
<1> DEFINE E(F, t) == IF t = {} THEN base
                      ELSE LET z == Max(t) IN Request(F[t \ {z}], s[z])
           D(F, t) == IF t = {} THEN base
                      ELSE LET z == Max(t) IN Step(k, F[t \ {z}], s[z])
<1>3. \A F, t : D(F, t) = E(F, t)  BY <1>2
<1>4. \A F : FoldOn(F, Len(s), k, base, s) <=>
               F = [t \in SUBSET (DOMAIN s) |-> D(F, t)]
  BY <1>1 DEF FoldOn
<1>5. \A F : FoldOn(F, Len(s), k, base, s) <=>
               F = [t \in SUBSET (DOMAIN s) |-> E(F, t)]
  <2> HIDE DEF E, D
  <2>1. \A F : [t \in SUBSET (DOMAIN s) |-> E(F, t)] =
               [t \in SUBSET (DOMAIN s) |-> D(F, t)]
    BY <1>3
  <2>2. ASSUME NEW F
        PROVE  FoldOn(F, Len(s), k, base, s) <=>
                   F = [t \in SUBSET (DOMAIN s) |-> E(F, t)]
    <3>1. [t \in SUBSET (DOMAIN s) |-> E(F, t)] = [t \in SUBSET (DOMAIN s) |-> D(F, t)]
      BY <2>1
    <3>2. PICK A : A = [t \in SUBSET (DOMAIN s) |-> E(F, t)]  OBVIOUS
    <3>3. A = [t \in SUBSET (DOMAIN s) |-> D(F, t)]  BY <3>1, <3>2
    <3>4. FoldOn(F, Len(s), k, base, s) <=> F = A  BY <1>4, <3>3
    <3> QED  BY <3>2, <3>4
  <2> QED  BY <2>2
<1>6. PICK G : FoldOn(G, Len(s), k, base, s)  BY <1>1, FoldExists
<1>7. G = [t \in SUBSET (DOMAIN s) |-> E(G, t)]  BY <1>5, <1>6
<1>8. \E F : /\ F = [t \in SUBSET (DOMAIN s) |-> E(F, t)]
             /\ result = F[DOMAIN s]
  BY <1>7, Zenon DEF FoldLeft, MapThenFoldSet
<1>9. \E F : /\ FoldOn(F, Len(s), k, base, s)
             /\ result = F[1 .. Len(s)]
  BY <1>1, <1>5, <1>8
<1>10. ListPasses(k, base, s, result)  BY <1>9, FoldPasses DEF ListPasses
<1> QED  BY <1>10 DEF k

FoldedAfter(F, l, base, s) ==
    F = [t \in SUBSET (DOMAIN s) |->
            IF t = {} THEN base ELSE LET z == Max(t) IN OneAfter(F[t \ {z}], l, s[z])]

LEMMA FoldAfterOf ==
    ASSUME NEW l, NEW base, NEW s, IsList(s), NEW result,
           (\E F : FoldedAfter(F, l, base, s)) => (\E F : FoldedAfter(F, l, base, s) /\ result = F[DOMAIN s])
    PROVE  ListPasses([op |-> "after", list |-> l], base, s, result)
<1> DEFINE k == [op |-> "after", list |-> l]
<1>1. DOMAIN s = 1 .. Len(s) /\ Len(s) \in Nat  BY ListIs
<1>2. \A x, y : Step(k, x, y) = OneAfter(x, l, y)  BY DEF Step, EachOf
<1> HIDE DEF k
<1> DEFINE E(F, t) == IF t = {} THEN base
                      ELSE LET z == Max(t) IN OneAfter(F[t \ {z}], l, s[z])
           D(F, t) == IF t = {} THEN base
                      ELSE LET z == Max(t) IN Step(k, F[t \ {z}], s[z])
<1>3. \A F, t : D(F, t) = E(F, t)  BY <1>2
<1>4. \A F : FoldOn(F, Len(s), k, base, s) <=>
               F = [t \in SUBSET (DOMAIN s) |-> D(F, t)]
  BY <1>1 DEF FoldOn
<1>5. \A F : FoldOn(F, Len(s), k, base, s) <=>
               F = [t \in SUBSET (DOMAIN s) |-> E(F, t)]
  <2> HIDE DEF E, D
  <2>1. \A F : [t \in SUBSET (DOMAIN s) |-> E(F, t)] =
               [t \in SUBSET (DOMAIN s) |-> D(F, t)]
    BY <1>3
  <2>2. ASSUME NEW F
        PROVE  FoldOn(F, Len(s), k, base, s) <=>
                   F = [t \in SUBSET (DOMAIN s) |-> E(F, t)]
    <3>1. [t \in SUBSET (DOMAIN s) |-> E(F, t)] = [t \in SUBSET (DOMAIN s) |-> D(F, t)]
      BY <2>1
    <3>2. PICK A : A = [t \in SUBSET (DOMAIN s) |-> E(F, t)]  OBVIOUS
    <3>3. A = [t \in SUBSET (DOMAIN s) |-> D(F, t)]  BY <3>1, <3>2
    <3>4. FoldOn(F, Len(s), k, base, s) <=> F = A  BY <1>4, <3>3
    <3> QED  BY <3>2, <3>4
  <2> QED  BY <2>2
<1>6. PICK G : FoldOn(G, Len(s), k, base, s)  BY <1>1, FoldExists
<1>7. G = [t \in SUBSET (DOMAIN s) |-> E(G, t)]  BY <1>5, <1>6
<1>8. \E F : /\ F = [t \in SUBSET (DOMAIN s) |-> E(F, t)]
             /\ result = F[DOMAIN s]
  BY <1>7, Zenon DEF FoldedAfter
<1>9. \E F : /\ FoldOn(F, Len(s), k, base, s)
             /\ result = F[1 .. Len(s)]
  BY <1>1, <1>5, <1>8
<1>10. ListPasses(k, base, s, result)  BY <1>9, FoldPasses DEF ListPasses
<1> QED  BY <1>10 DEF k

LEMMA FoldAfter ==
    ASSUME NEW r, NEW rs, NEW l, ~ AreAllSubresourcesSame(l), IsList(Subresources(r))
    PROVE  ListPasses([op |-> "after", list |-> l], rs, Subresources(r),
               StateAfter(r, rs, l))
BY FoldAfterOf, Zenon DEF FoldLeft, MapThenFoldSet, FoldedAfter, StateAfter, OneAfter

FoldedEach(F, r, subset, after, force, base, s) ==
    F = [t \in SUBSET (DOMAIN s) |->
            IF t = {} THEN base ELSE LET z == Max(t) IN OneOf(F[t \ {z}], r, s[z], subset, after, force)]

LEMMA FoldEachOf ==
    ASSUME NEW r, NEW subset, NEW after, NEW force,
           NEW base, NEW s, IsList(s), NEW result,
           (\E F : FoldedEach(F, r, subset, after, force, base, s)) => (\E F : FoldedEach(F, r, subset, after, force, base, s) /\ result = F[DOMAIN s])
    PROVE  ListPasses(EachOf(r, subset, after, force), base, s, result)
<1> DEFINE k == EachOf(r, subset, after, force)
<1>1. DOMAIN s = 1 .. Len(s) /\ Len(s) \in Nat  BY ListIs
<1>2. \A x, y : Step(k, x, y) = OneOf(x, r, y, subset, after, force)  BY DEF Step, EachOf
<1> HIDE DEF k
<1> DEFINE E(F, t) == IF t = {} THEN base
                      ELSE LET z == Max(t) IN OneOf(F[t \ {z}], r, s[z], subset, after, force)
           D(F, t) == IF t = {} THEN base
                      ELSE LET z == Max(t) IN Step(k, F[t \ {z}], s[z])
<1>3. \A F, t : D(F, t) = E(F, t)  BY <1>2
<1>4. \A F : FoldOn(F, Len(s), k, base, s) <=>
               F = [t \in SUBSET (DOMAIN s) |-> D(F, t)]
  BY <1>1 DEF FoldOn
<1>5. \A F : FoldOn(F, Len(s), k, base, s) <=>
               F = [t \in SUBSET (DOMAIN s) |-> E(F, t)]
  <2> HIDE DEF E, D
  <2>1. \A F : [t \in SUBSET (DOMAIN s) |-> E(F, t)] =
               [t \in SUBSET (DOMAIN s) |-> D(F, t)]
    BY <1>3
  <2>2. ASSUME NEW F
        PROVE  FoldOn(F, Len(s), k, base, s) <=>
                   F = [t \in SUBSET (DOMAIN s) |-> E(F, t)]
    <3>1. [t \in SUBSET (DOMAIN s) |-> E(F, t)] = [t \in SUBSET (DOMAIN s) |-> D(F, t)]
      BY <2>1
    <3>2. PICK A : A = [t \in SUBSET (DOMAIN s) |-> E(F, t)]  OBVIOUS
    <3>3. A = [t \in SUBSET (DOMAIN s) |-> D(F, t)]  BY <3>1, <3>2
    <3>4. FoldOn(F, Len(s), k, base, s) <=> F = A  BY <1>4, <3>3
    <3> QED  BY <3>2, <3>4
  <2> QED  BY <2>2
<1>6. PICK G : FoldOn(G, Len(s), k, base, s)  BY <1>1, FoldExists
<1>7. G = [t \in SUBSET (DOMAIN s) |-> E(G, t)]  BY <1>5, <1>6
<1>8. \E F : /\ F = [t \in SUBSET (DOMAIN s) |-> E(F, t)]
             /\ result = F[DOMAIN s]
  BY <1>7, Zenon DEF FoldedEach
<1>9. \E F : /\ FoldOn(F, Len(s), k, base, s)
             /\ result = F[1 .. Len(s)]
  BY <1>1, <1>5, <1>8
<1>10. ListPasses(k, base, s, result)  BY <1>9, FoldPasses DEF ListPasses
<1> QED  BY <1>10 DEF k

LEMMA FoldEach ==
    ASSUME NEW r, NEW subset, NEW after, NEW force, NEW base, IsList(Subresources(r))
    PROVE  ListPasses(EachOf(r, subset, after, force), base, Subresources(r),
               EachSubresource(base, r, subset, after, force))
BY FoldEachOf, Zenon DEF FoldLeft, MapThenFoldSet, FoldedEach, EachSubresource, OneOf

-----------------------------------------------------------------------------
(***************************************************************************)
(* The states of one resource: what CResourceState answers for each        *)
(* subresource after it was set.                                           *)
(***************************************************************************)
Known == SUBSET Flags
Tracked == Known \cup {TBD}

StatesOK(r, rs) ==
    /\ rs.same \in BOOLEAN
    /\ rs = [same |-> rs.same, whole |-> rs.whole, subs |-> rs.subs]
    /\ rs.subs = [i \in Sub(r) |-> rs.subs[i]]
    /\ \A i \in Sub(r) : GetSubresourceState(rs, i) \in Tracked
    /\ Count[r] = 1 => rs.same

SubOK(r, i) == i \in Sub(r) \/ i = All

LEMMA StatesApart == TBD \notin Known /\ CORRUPT \notin Tracked /\ {} \in Known
BY DEF TBD, Known, CORRUPT, Tracked, Flags, ReadStates

LEMMA SubIs ==
    ASSUME NEW r \in Resource
    PROVE  /\ Count[r] \in Nat \ {0} /\ Sub(r) = 0 .. Count[r] - 1
           /\ 0 \in Sub(r) /\ All \notin Sub(r)
           /\ \A i : SubOK(r, i) => Affected(r, i) \subseteq Sub(r) /\ Affected(r, i) # {}
           /\ Affected(r, All) = Sub(r)
           /\ \A i \in Sub(r) : Affected(r, i) = {i}
<1>1. Count[r] \in Nat \ {0}  BY CountAssumption
<1> QED  BY <1>1 DEF Sub, All, Affected, SubOK

LEMMA WholeSet ==
    ASSUME NEW r \in Resource, NEW rs, DOMAIN rs.subs = Sub(r), NEW state \in Tracked
    PROVE  /\ StatesOK(r, SetResourceState(rs, state))
           /\ \A i : GetSubresourceState(SetResourceState(rs, state), i) = state
           /\ SetResourceState(rs, state).same
<1>1. PICK new : new = SetResourceState(rs, state)  OBVIOUS
<1>2. new = [same |-> TRUE, whole |-> state, subs |-> [i \in Sub(r) |-> CORRUPT]]
  BY <1>1 DEF SetResourceState
<1>3. \A i : GetSubresourceState(new, i) = state  BY <1>2 DEF GetSubresourceState
<1>4. StatesOK(r, new)  BY <1>2, <1>3 DEF StatesOK
<1>5. new.same  BY <1>2
<1> QED  BY <1>1, <1>3, <1>4, <1>5

LEMMA InitializeIs ==
    ASSUME NEW r \in Resource, NEW state \in Tracked
    PROVE  /\ StatesOK(r, Initialize(r, state))
           /\ \A i : GetSubresourceState(Initialize(r, state), i) = state
<1>1. PICK rs : rs = [subs |-> [i \in Sub(r) |-> TBD]]  OBVIOUS
<1>2. DOMAIN rs.subs = Sub(r)  BY <1>1
<1>3. Initialize(r, state) = SetResourceState(rs, state)  BY <1>1 DEF Initialize
<1> QED  BY <1>2, <1>3, WholeSet

LEMMA OneSet ==
    ASSUME NEW r \in Resource, NEW rs, StatesOK(r, rs), NEW i, SubOK(r, i),
           NEW state \in Tracked
    PROVE  /\ StatesOK(r, SetSubresourceState(rs, i, state))
           /\ \A j \in Sub(r) :
                 GetSubresourceState(SetSubresourceState(rs, i, state), j) =
                     IF j \in Affected(r, i) THEN state ELSE GetSubresourceState(rs, j)
<1>1. PICK new : new = SetSubresourceState(rs, i, state)  OBVIOUS
<1>2. DOMAIN rs.subs = Sub(r)  BY DEF StatesOK
<1>3. Cardinality(Sub(r)) = Count[r]
  <2>1. Count[r] \in Nat \ {0}  BY SubIs
  <2>2. 0 \in Int /\ Count[r] - 1 \in Int  BY <2>1
  <2>3. Cardinality(0 .. Count[r] - 1) =
            IF 0 > Count[r] - 1 THEN 0 ELSE (Count[r] - 1) - 0 + 1
    BY <2>2, FS_Interval
  <2> QED  BY <2>1, <2>3 DEF Sub
<1>4. CASE i = All \/ Count[r] = 1
  <2>1. new = SetResourceState(rs, state)
    BY <1>1, <1>2, <1>3, <1>4 DEF SetSubresourceState
  <2>2. \A j \in Sub(r) : j \in Affected(r, i)
    <3>1. Count[r] = 1 => Sub(r) = {0}  BY SubIs
    <3> QED  BY <1>4, <3>1, SubIs DEF SubOK
  <2> QED  BY <1>1, <1>2, <2>1, <2>2, WholeSet
<1>5. CASE ~ (i = All \/ Count[r] = 1)
  <2>1. new = [same |-> FALSE, whole |-> CORRUPT,
               subs |-> [Spread(rs) EXCEPT ![i] = state]]
    BY <1>1, <1>2, <1>3, <1>5 DEF SetSubresourceState
  <2>2. PICK s : s = Spread(rs)  OBVIOUS
  <2>3. s = [j \in Sub(r) |-> GetSubresourceState(rs, j)]
    BY <1>2, <2>2 DEF Spread, GetSubresourceState, StatesOK
  <2>4. i \in Sub(r) /\ Affected(r, i) = {i}  BY <1>5, SubIs DEF SubOK
  <2>5. new.subs = [j \in Sub(r) |-> IF j = i THEN state ELSE GetSubresourceState(rs, j)]
    BY <2>1, <2>2, <2>3
  <2>6. \A j \in Sub(r) : GetSubresourceState(new, j) =
            IF j = i THEN state ELSE GetSubresourceState(rs, j)
    BY <2>1, <2>5 DEF GetSubresourceState
  <2>7. \A j \in Sub(r) : GetSubresourceState(new, j) \in Tracked
    BY <2>6 DEF StatesOK
  <2>8. new.subs = [j \in Sub(r) |-> new.subs[j]]  BY <2>5
  <2>9. StatesOK(r, new)  BY <1>5, <2>1, <2>7, <2>8 DEF StatesOK
  <2> QED  BY <1>1, <2>4, <2>6, <2>9
<1> QED  BY <1>4, <1>5

LEMMA AllSameIs ==
    ASSUME NEW r \in Resource, NEW rs, StatesOK(r, rs)
    PROVE  /\ AreAllSubresourcesSame(rs) =>
                /\ GetSubresourceState(rs, All) \in Known
                /\ \A j \in Sub(r) :
                      GetSubresourceState(rs, j) = GetSubresourceState(rs, All)
           /\ ~ AreAllSubresourcesSame(rs) /\ Count[r] = 1 =>
                \A j \in Sub(r) : GetSubresourceState(rs, j) = TBD
<1>1. rs.same => \A j : GetSubresourceState(rs, j) = rs.whole
  BY DEF GetSubresourceState
<1>2. rs.same => rs.whole \in Tracked
  BY <1>1, SubIs DEF StatesOK
<1>3. AreAllSubresourcesSame(rs) => rs.same /\ rs.whole # TBD
  BY DEF AreAllSubresourcesSame
<1>4. AreAllSubresourcesSame(rs) => rs.whole \in Known
  BY <1>2, <1>3 DEF Tracked
<1>5. ~ AreAllSubresourcesSame(rs) /\ rs.same => rs.whole = TBD
  BY DEF AreAllSubresourcesSame
<1> QED  BY <1>1, <1>3, <1>4, <1>5 DEF StatesOK

LEMMA JoinedIs ==
    ASSUME NEW r \in Resource, NEW rs, StatesOK(r, rs)
    PROVE  /\ StatesOK(r, CheckAllSubresourceSame(rs))
           /\ \A j \in Sub(r) : GetSubresourceState(CheckAllSubresourceSame(rs), j) =
                                    GetSubresourceState(rs, j)
<1>1. DOMAIN rs.subs = Sub(r)  BY DEF StatesOK
<1>2. CASE ~ (~rs.same /\ \A i \in Sub(r) : rs.subs[i] = rs.subs[0])
  BY <1>1, <1>2 DEF CheckAllSubresourceSame
<1>3. CASE ~rs.same /\ \A i \in Sub(r) : rs.subs[i] = rs.subs[0]
  <2>1. \A i \in Sub(r) : GetSubresourceState(rs, i) = rs.subs[0]
    BY <1>3 DEF GetSubresourceState
  <2>2. rs.subs[0] \in Tracked  BY <2>1, SubIs DEF StatesOK
  <2>3. \/ CheckAllSubresourceSame(rs) = rs
        \/ CheckAllSubresourceSame(rs) = SetResourceState(rs, rs.subs[0])
    BY DEF CheckAllSubresourceSame
  <2> QED  BY <1>1, <2>1, <2>2, <2>3, WholeSet
<1> QED  BY <1>2, <1>3

-----------------------------------------------------------------------------
(***************************************************************************)
(* Workloads in which a use can be right at all: the requests of a command *)
(* end in a flush, and two of them for the same subresource ask for the    *)
(* same state, or both to read it (and none of them for all subresources   *)
(* of several at once, which forces them into one state).                  *)
(***************************************************************************)
Subs(q) == IF q.how = "View" THEN q.subset ELSE Affected(q.resource, q.sub)

Reads(state) == state # COMMON /\ state \subseteq ReadStates

ByPart(q) == q.how = "View" \/ q.sub # All \/ Count[q.resource] = 1

Together(p, q) ==
    \/ p.how = "Flush" \/ q.how = "Flush"
    \/ p.resource # q.resource
    \/ Subs(p) \cap Subs(q) = {}
    \/ p.after = q.after
    \/ Reads(p.after) /\ Reads(q.after) /\ ByPart(p) /\ ByPart(q)

RequestsAgree == \A c \in Command : \A p, q \in ToSet(Requests(c)) : Together(p, q)

RequestsFlushed ==
    \A c \in Command : Requests(c) # <<>> /\ Last(Requests(c)) = Flush

Agreed == RequestsAgree /\ RequestsFlushed
-----------------------------------------------------------------------------
(***************************************************************************)
(* The states of all resources, and what operations do to them.  The       *)
(* clause about uses is for workloads in which a use can be right at all.  *)
(***************************************************************************)
IsStates(S) ==
    /\ S = [r \in Resource |-> [i \in Sub(r) |-> S[r][i]]]
    /\ \A r \in Resource : \A i \in Sub(r) : S[r][i] \in Known

LEMMA StatesEqual ==
    ASSUME NEW S, IsStates(S), NEW T, IsStates(T),
           \A r \in Resource : \A i \in Sub(r) : S[r][i] = T[r][i]
    PROVE  S = T
<1>1. \A r \in Resource : [i \in Sub(r) |-> S[r][i]] = [i \in Sub(r) |-> T[r][i]]
  OBVIOUS
<1>2. [r \in Resource |-> [i \in Sub(r) |-> S[r][i]]]
          = [r \in Resource |-> [i \in Sub(r) |-> T[r][i]]]
  BY <1>1
<1> QED  BY <1>2 DEF IsStates

Legal(op) ==
    op.kind = "Transition" =>
        /\ op.resource \in Resource /\ SubOK(op.resource, op.sub)
        /\ op.before \in Known /\ op.after \in Known /\ op.before # op.after

Touches(op, r, i) ==
    op.kind = "Transition" /\ op.resource = r /\ i \in Affected(r, op.sub)

Finds(S, op) ==
    /\ \A r \in Resource : \A i \in Sub(r) : Touches(op, r, i) => S[r][i] = op.before
    /\ op.kind = "Use" /\ Agreed =>
           \A n \in op.needs : Allows(S[n.resource][n.sub], n.state)

LEMMA ExecutedIs ==
    ASSUME NEW S, IsStates(S), NEW op, Legal(op)
    PROVE  /\ IsStates(Executed(S, op))
           /\ \A r \in Resource : \A i \in Sub(r) :
                 Executed(S, op)[r][i] = IF Touches(op, r, i) THEN op.after ELSE S[r][i]
<1>1. CASE op.kind # "Transition"
  BY <1>1 DEF Executed, Touches
<1>2. CASE op.kind = "Transition"
  <2>1. PICK q \in Resource : q = op.resource  BY <1>2 DEF Legal
  <2>2. PICK f : f = S[q]  OBVIOUS
  <2>3. PICK g : g = [i \in DOMAIN f |-> IF i \in Affected(q, op.sub) THEN op.after ELSE f[i]]
    OBVIOUS
  <2>4. Executed(S, op) = [S EXCEPT ![q] = g]
    BY <1>2, <2>1, <2>2, <2>3 DEF Executed
  <2>5. DOMAIN S = Resource /\ DOMAIN f = Sub(q)
    BY <2>2 DEF IsStates
  <2>6. PICK T : T = Executed(S, op)  OBVIOUS
  <2>7. T[q] = g /\ \A r \in Resource : r # q => T[r] = S[r]
    BY <2>4, <2>5, <2>6
  <2>8. \A r \in Resource : \A i \in Sub(r) :
            T[r][i] = IF Touches(op, r, i) THEN op.after ELSE S[r][i]
    <3> SUFFICES ASSUME NEW r \in Resource, NEW i \in Sub(r)
                 PROVE  T[r][i] = IF Touches(op, r, i) THEN op.after ELSE S[r][i]
      OBVIOUS
    <3>1. CASE r # q
      BY <2>1, <2>7, <3>1 DEF Touches
    <3>2. CASE r = q
      <4>1. T[r][i] = IF i \in Affected(q, op.sub) THEN op.after ELSE f[i]
        BY <2>3, <2>5, <2>7, <3>2
      <4> QED  BY <1>2, <2>1, <2>2, <3>2, <4>1 DEF Touches
    <3> QED  BY <3>1, <3>2
  <2>9. T = [r \in Resource |-> [i \in Sub(r) |-> T[r][i]]]
    <3>1. \A r \in Resource : T[r] = [i \in Sub(r) |-> T[r][i]]
      <4> SUFFICES ASSUME NEW r \in Resource  PROVE T[r] = [i \in Sub(r) |-> T[r][i]]
        OBVIOUS
      <4>1. CASE r # q
        <5>1. S[r] = [i \in Sub(r) |-> S[r][i]]  BY DEF IsStates
        <5> QED  BY <2>7, <4>1, <5>1
      <4>2. CASE r = q
        BY <2>3, <2>5, <2>7, <4>2
      <4> QED  BY <4>1, <4>2
    <3>2. T = [r \in Resource |-> T[r]]  BY <2>4, <2>5, <2>6
    <3> QED  BY <3>1, <3>2
  <2>10. op.after \in Known  BY <1>2 DEF Legal
  <2>11. \A r \in Resource : \A i \in Sub(r) : T[r][i] \in Known
    BY <2>8, <2>10 DEF IsStates
  <2>12. IsStates(T)  BY <2>9, <2>11 DEF IsStates
  <2> QED  BY <2>6, <2>8, <2>12
<1> QED  BY <1>1, <1>2

(***************************************************************************)
(* The operations q, executed from the states S, find what they name and   *)
(* leave T.  L has the states in between.                                  *)
(***************************************************************************)
ChainBy(L, q, S, T) ==
    /\ L[0] = S /\ L[Len(q)] = T
    /\ \A k \in 0 .. Len(q) : IsStates(L[k])
    /\ \A k \in 1 .. Len(q) :
          Legal(q[k]) /\ Finds(L[k - 1], q[k]) /\ L[k] = Executed(L[k - 1], q[k])

Chain(q, S, T) == IsList(q) /\ \E L : ChainBy(L, q, S, T)

LEMMA ChainStates ==
    ASSUME NEW q, NEW S, NEW T, Chain(q, S, T)
    PROVE  IsStates(S) /\ IsStates(T) /\ \A k \in 1 .. Len(q) : Legal(q[k])
<1>1. PICK L : ChainBy(L, q, S, T)  BY DEF Chain
<1>2. Len(q) \in Nat  BY ListIs DEF Chain
<1> QED  BY <1>1, <1>2 DEF ChainBy

LEMMA ChainEmpty ==
    ASSUME NEW S, IsStates(S)
    PROVE  Chain(<<>>, S, S)
<1> DEFINE L == [k \in {0} |-> S]
<1>1. IsList(<<>>) /\ Len(<<>>) = 0  BY EmptyList
<1>2. 1 .. 0 = {} /\ 0 .. 0 = {0}  OBVIOUS
<1>3. ChainBy(L, <<>>, S, S)  BY <1>1, <1>2 DEF ChainBy
<1> QED  BY <1>1, <1>3 DEF Chain

LEMMA ChainNone ==
    ASSUME NEW S, NEW T, Chain(<<>>, S, T)
    PROVE  T = S
<1>1. PICK L : ChainBy(L, <<>>, S, T)  BY DEF Chain
<1>2. Len(<<>>) = 0  BY EmptyList
<1> QED  BY <1>1, <1>2 DEF ChainBy

LEMMA ChainAppend ==
    ASSUME NEW q, NEW S, NEW T, Chain(q, S, T), NEW op, Legal(op), Finds(T, op)
    PROVE  Chain(Append(q, op), S, Executed(T, op))
<1>1. PICK L : ChainBy(L, q, S, T)  BY DEF Chain
<1>2. PICK n \in Nat : n = Len(q)  BY ListIs DEF Chain
<1>3. PICK p : p = Append(q, op)  OBVIOUS
<1>4. /\ IsList(p) /\ Len(p) = n + 1 /\ p[n + 1] = op
      /\ \A i \in 1 .. n : p[i] = q[i]
  BY <1>2, <1>3, ListAppend DEF Chain
<1>5. PICK M : M = [k \in 0 .. n + 1 |-> IF k = n + 1 THEN Executed(T, op) ELSE L[k]]
  OBVIOUS
<1>6. M[n + 1] = Executed(T, op) /\ \A k \in 0 .. n : M[k] = L[k]
  BY <1>5
<1>7. L[n] = T /\ L[0] = S /\ IsStates(T) /\ \A k \in 0 .. n : IsStates(L[k])
  BY <1>1, <1>2, ChainStates DEF ChainBy
<1>8. IsStates(Executed(T, op))  BY <1>7, ExecutedIs
<1>9. \A k \in 0 .. n + 1 : IsStates(M[k])
  <2>1. \A k \in 0 .. n + 1 : k = n + 1 \/ k \in 0 .. n  OBVIOUS
  <2> QED  BY <1>6, <1>7, <1>8, <2>1
<1>10. ASSUME NEW k \in 1 .. n + 1
       PROVE  Legal(p[k]) /\ Finds(M[k - 1], p[k]) /\ M[k] = Executed(M[k - 1], p[k])
  <2>1. k - 1 \in 0 .. n /\ (k = n + 1 \/ k \in 1 .. n)  OBVIOUS
  <2>2. M[k - 1] = L[k - 1]  BY <1>6, <2>1
  <2>3. CASE k \in 1 .. n
    <3>1. k \in 0 .. n  BY <2>3
    <3>2. M[k] = L[k] /\ p[k] = q[k]  BY <1>4, <1>6, <2>3, <3>1
    <3>3. Legal(q[k]) /\ Finds(L[k - 1], q[k]) /\ L[k] = Executed(L[k - 1], q[k])
      BY <1>1, <1>2, <2>3 DEF ChainBy
    <3> QED  BY <2>2, <3>2, <3>3
  <2>4. CASE k = n + 1
    <3>1. k - 1 = n  BY <2>4
    <3> QED  BY <1>4, <1>6, <1>7, <2>2, <2>4, <3>1
  <2> QED  BY <2>1, <2>3, <2>4
<1>11. M[0] = S  BY <1>6, <1>7
<1>12. ChainBy(M, p, S, Executed(T, op))
  BY <1>4, <1>6, <1>9, <1>10, <1>11 DEF ChainBy
<1> QED  BY <1>3, <1>4, <1>12 DEF Chain

LEMMA ChainConcat ==
    ASSUME NEW q, NEW S, NEW T, Chain(q, S, T), NEW p, NEW U, Chain(p, T, U)
    PROVE  Chain(q \o p, S, U)
<1>1. PICK L : ChainBy(L, q, S, T)  BY DEF Chain
<1>2. PICK M : ChainBy(M, p, T, U)  BY DEF Chain
<1>3. PICK n \in Nat : n = Len(q)  BY ListIs DEF Chain
<1>4. PICK m \in Nat : m = Len(p)  BY ListIs DEF Chain
<1>5. PICK s : s = q \o p  OBVIOUS
<1>6. /\ IsList(s) /\ Len(s) = n + m
      /\ \A i \in 1 .. n : s[i] = q[i]
      /\ \A i \in 1 .. m : s[n + i] = p[i]
  BY <1>3, <1>4, <1>5, ListConcat DEF Chain
<1>7. PICK N : N = [k \in 0 .. n + m |-> IF k <= n THEN L[k] ELSE M[k - n]]
  OBVIOUS
<1>8. /\ L[0] = S /\ L[n] = T /\ M[0] = T /\ M[m] = U
      /\ \A k \in 0 .. n : IsStates(L[k])
      /\ \A k \in 0 .. m : IsStates(M[k])
  BY <1>1, <1>2, <1>3, <1>4 DEF ChainBy
<1>9. \A k \in 0 .. n : N[k] = L[k]  BY <1>7
<1>10. \A k \in 0 .. m : N[n + k] = M[k]
  <2> SUFFICES ASSUME NEW k \in 0 .. m  PROVE N[n + k] = M[k]
    OBVIOUS
  <2>1. n + k \in 0 .. n + m /\ (n + k) - n = k  OBVIOUS
  <2>2. CASE k = 0
    <3>1. n + k = n /\ n \in 0 .. n  BY <2>2
    <3> QED  BY <1>8, <1>9, <2>2, <3>1
  <2>3. CASE k # 0
    <3>1. ~ (n + k <= n)  BY <2>3
    <3> QED  BY <1>7, <2>1, <3>1
  <2> QED  BY <2>2, <2>3
<1>11. \A k \in 0 .. n + m : k \in 0 .. n \/ \E j \in 1 .. m : k = n + j
  <2> SUFFICES ASSUME NEW k \in 0 .. n + m, k \notin 0 .. n
               PROVE  \E j \in 1 .. m : k = n + j
    OBVIOUS
  <2>1. k - n \in 1 .. m /\ k = n + (k - n)  OBVIOUS
  <2> QED  BY <2>1
<1>12. \A k \in 0 .. n + m : IsStates(N[k])
  <2>1. \A j \in 1 .. m : j \in 0 .. m  OBVIOUS
  <2> QED  BY <1>8, <1>9, <1>10, <1>11, <2>1
<1>13. ASSUME NEW k \in 1 .. n + m
       PROVE  Legal(s[k]) /\ Finds(N[k - 1], s[k]) /\ N[k] = Executed(N[k - 1], s[k])
  <2>1. CASE k \in 1 .. n
    <3>1. k \in 0 .. n /\ k - 1 \in 0 .. n  BY <2>1
    <3>2. N[k] = L[k] /\ N[k - 1] = L[k - 1] /\ s[k] = q[k]  BY <1>6, <1>9, <2>1, <3>1
    <3>3. Legal(q[k]) /\ Finds(L[k - 1], q[k]) /\ L[k] = Executed(L[k - 1], q[k])
      BY <1>1, <1>3, <2>1 DEF ChainBy
    <3> QED  BY <3>2, <3>3
  <2>2. CASE k \notin 1 .. n
    <3>1. k \in 0 .. n + m /\ k \notin 0 .. n  BY <2>2
    <3>2. PICK j \in 1 .. m : k = n + j  BY <1>11, <3>1
    <3>3. j \in 0 .. m /\ j - 1 \in 0 .. m /\ k - 1 = n + (j - 1)  BY <3>2
    <3>4. N[k] = M[j] /\ N[k - 1] = M[j - 1] /\ s[k] = p[j]  BY <1>6, <1>10, <3>2, <3>3
    <3>5. Legal(p[j]) /\ Finds(M[j - 1], p[j]) /\ M[j] = Executed(M[j - 1], p[j])
      BY <1>2, <1>4 DEF ChainBy
    <3> QED  BY <3>4, <3>5
  <2> QED  BY <2>1, <2>2
<1>14. N[0] = S /\ N[n + m] = U
  <2>1. 0 \in 0 .. n /\ m \in 0 .. m  OBVIOUS
  <2> QED  BY <1>8, <1>9, <1>10, <2>1
<1>15. ChainBy(N, s, S, U)  BY <1>6, <1>12, <1>13, <1>14 DEF ChainBy
<1> QED  BY <1>5, <1>6, <1>15 DEF Chain

LEMMA ChainLast ==
    ASSUME NEW q, NEW S, NEW T, Chain(q, S, T), q # <<>>
    PROVE  \E U : /\ Chain(Front(q), S, U) /\ Legal(Last(q)) /\ Finds(U, Last(q))
                  /\ T = Executed(U, Last(q))
<1>1. PICK L : ChainBy(L, q, S, T)  BY DEF Chain
<1>2. PICK n \in Nat \ {0} : n = Len(q)  BY ListFront DEF Chain
<1>3. PICK p : p = Front(q)  OBVIOUS
<1>4. PICK m \in Nat : m = n - 1 /\ m + 1 = n
  <2>1. n - 1 \in Nat /\ (n - 1) + 1 = n  BY <1>2
  <2> QED  BY <2>1
<1>5. /\ IsList(p) /\ Len(p) = m /\ Last(q) = q[n]
      /\ \A i \in 1 .. m : p[i] = q[i]
  BY <1>2, <1>3, <1>4, ListFront DEF Chain
<1>6. ChainBy(L, p, S, L[m])
  <2>1. \A k \in 0 .. m : k \in 0 .. n  BY <1>4
  <2>2. \A k \in 1 .. m : k \in 1 .. n  BY <1>4
  <2> QED  BY <1>1, <1>2, <1>5, <2>1, <2>2 DEF ChainBy
<1>7. Legal(q[n]) /\ Finds(L[m], q[n]) /\ T = Executed(L[m], q[n])
  <2>1. n \in 1 .. n  BY <1>2
  <2> QED  BY <1>1, <1>2, <1>4, <2>1 DEF ChainBy
<1> QED  BY <1>3, <1>5, <1>6, <1>7 DEF Chain

LEMMA ChainFirst ==
    ASSUME NEW q, NEW S, NEW T, Chain(q, S, T), q # <<>>
    PROVE  /\ Legal(Head(q)) /\ Finds(S, Head(q))
           /\ Chain(Tail(q), Executed(S, Head(q)), T)
<1>1. PICK L : ChainBy(L, q, S, T)  BY DEF Chain
<1>2. PICK n \in Nat \ {0} : n = Len(q)  BY ListTail DEF Chain
<1>3. PICK p : p = Tail(q)  OBVIOUS
<1>4. PICK m \in Nat : m = n - 1 /\ m + 1 = n
  <2>1. n - 1 \in Nat /\ (n - 1) + 1 = n  BY <1>2
  <2> QED  BY <2>1
<1>5. /\ IsList(p) /\ Len(p) = m /\ Head(q) = q[1]
      /\ \A i \in 1 .. m : p[i] = q[i + 1]
  BY <1>2, <1>3, <1>4, ListTail DEF Chain
<1>6. PICK M : M = [k \in 0 .. m |-> L[k + 1]]  OBVIOUS
<1>7. L[0] = S /\ Legal(q[1]) /\ Finds(L[0], q[1]) /\ L[1] = Executed(L[0], q[1])
  <2>1. 1 \in 1 .. n /\ 1 - 1 = 0  BY <1>2
  <2> QED  BY <1>1, <1>2, <2>1 DEF ChainBy
<1>8. ASSUME NEW k \in 1 .. m
      PROVE  Legal(p[k]) /\ Finds(M[k - 1], p[k]) /\ M[k] = Executed(M[k - 1], p[k])
  <2>1. k + 1 \in 1 .. n /\ (k + 1) - 1 = k /\ k - 1 \in 0 .. m /\ k \in 0 .. m
    BY <1>4
  <2>2. M[k] = L[k + 1] /\ M[k - 1] = L[k] /\ p[k] = q[k + 1]
    <3>1. (k - 1) + 1 = k  OBVIOUS
    <3> QED  BY <1>5, <1>6, <2>1, <3>1
  <2>3. Legal(q[k + 1]) /\ Finds(L[k], q[k + 1]) /\ L[k + 1] = Executed(L[k], q[k + 1])
    BY <1>1, <1>2, <2>1 DEF ChainBy
  <2> QED  BY <2>2, <2>3
<1>9. M[0] = L[1] /\ M[m] = T
  <2>1. 0 \in 0 .. m /\ m \in 0 .. m /\ 0 + 1 = 1  OBVIOUS
  <2>2. L[n] = T  BY <1>1, <1>2 DEF ChainBy
  <2> QED  BY <1>4, <1>6, <2>1, <2>2
<1>10. \A k \in 0 .. m : IsStates(M[k])
  <2>1. \A k \in 0 .. m : k + 1 \in 0 .. n  BY <1>4
  <2>2. \A k \in 0 .. n : IsStates(L[k])  BY <1>1, <1>2 DEF ChainBy
  <2> QED  BY <1>6, <2>1, <2>2
<1>11. ChainBy(M, p, L[1], T)  BY <1>5, <1>8, <1>9, <1>10 DEF ChainBy
<1> QED  BY <1>3, <1>5, <1>7, <1>11 DEF Chain

\* Executing the operations one after the other gives what the chain ends in.
LEMMA ChainFold ==
    ASSUME NEW q, NEW S, NEW T, Chain(q, S, T)
    PROVE  FoldLeft(Executed, S, q) = T
<1>1. PICK L : ChainBy(L, q, S, T)  BY DEF Chain
<1>2. PICK n \in Nat : n = Len(q)  BY ListIs DEF Chain
<1>3. PICK R : R = FoldLeft(Executed, S, q)  OBVIOUS
<1>4. ListPasses([op |-> "executed"], S, q, R)  BY <1>3, FoldExecuted DEF Chain
<1>5. PICK V : Passes(V, [op |-> "executed"], S, q) /\ V[n] = R
  BY <1>2, <1>4 DEF ListPasses
<1> DEFINE U == {k \in 0 .. n : V[k] = L[k]}
<1>6. 0 \in U  BY <1>1, <1>5 DEF Passes, ChainBy
<1>7. ASSUME NEW k \in Nat, k < n, k \in U  PROVE k + 1 \in U
  <2>1. k + 1 \in 1 .. n /\ (k + 1) - 1 = k /\ k \in 0 .. n - 1  BY <1>7
  <2>2. L[k + 1] = Executed(L[k], q[k + 1])  BY <1>1, <1>2, <2>1 DEF ChainBy
  <2>3. V[k + 1] = Step([op |-> "executed"], V[k], q[k + 1])
    BY <1>2, <1>5, <2>1 DEF Passes
  <2>4. V[k + 1] = Executed(V[k], q[k + 1])  BY <2>3 DEF Step
  <2> QED  BY <1>7, <2>1, <2>2, <2>4
<1>8. n \in U
  <2>1. n \in 0 .. n  OBVIOUS
  <2> HIDE DEF U
  <2> QED  BY <1>6, <1>7, <2>1, UpTo
<1> QED  BY <1>1, <1>2, <1>3, <1>5, <1>8 DEF ChainBy

(***************************************************************************)
(* A batch with one more transition, whether it is appended, combined with *)
(* the last one or undoes it.                                              *)
(***************************************************************************)
LEMMA TransitionIs ==
    ASSUME NEW r \in Resource, NEW i, SubOK(r, i), NEW before \in Known,
           NEW after \in Known, before # after
    PROVE  /\ Legal(Transition(r, i, before, after))
           /\ \A q, j : Touches(Transition(r, i, before, after), q, j) <=>
                            q = r /\ j \in Affected(r, i)
           /\ Transition(r, i, before, after).kind = "Transition"
           /\ Transition(r, i, before, after).before = before
           /\ Transition(r, i, before, after).after = after
BY DEF Transition, Legal, Touches

LEMMA BatchAdd ==
    ASSUME NEW b, NEW M, NEW T, Chain(b, M, T),
           NEW r \in Resource, NEW i, SubOK(r, i), NEW before \in Known,
           NEW after \in Known, before # after,
           \A j \in Affected(r, i) : T[r][j] = before
    PROVE  Chain(AddTransition(b, r, before, after, i), M,
                 Executed(T, Transition(r, i, before, after)))
<1>1. PICK tr : tr = Transition(r, i, before, after)  OBVIOUS
<1>2. /\ Legal(tr) /\ tr.kind = "Transition" /\ tr.before = before /\ tr.after = after
      /\ \A q, j : Touches(tr, q, j) <=> q = r /\ j \in Affected(r, i)
  BY <1>1, TransitionIs
<1>3. Finds(T, tr)  BY <1>2 DEF Finds
<1>4. IsStates(T)  BY ChainStates
<1>5. PICK new : new = Executed(T, tr)  OBVIOUS
<1>6. /\ IsStates(new)
      /\ \A q \in Resource : \A j \in Sub(q) :
            new[q][j] = IF Touches(tr, q, j) THEN after ELSE T[q][j]
  BY <1>2, <1>4, <1>5, ExecutedIs
<1>7. PICK last : last = Last(b)  OBVIOUS
<1> DEFINE follows == /\ b # <<>> /\ last.kind = "Transition"
                      /\ last.resource = r /\ last.sub = i /\ last.after = before
<1>8. CASE ~ follows
  <2>1. AddTransition(b, r, before, after, i) = Append(b, tr)
    BY <1>1, <1>7, <1>8 DEF AddTransition
  <2> QED  BY <1>1, <1>2, <1>3, <2>1, ChainAppend
<1>9. CASE follows
  <2>1. PICK U : /\ Chain(Front(b), M, U) /\ Legal(last) /\ Finds(U, last)
                 /\ T = Executed(U, last)
    BY <1>7, <1>9, ChainLast
  <2>2. IsStates(U)  BY <2>1, ChainStates
  <2>3. \A q, j : Touches(last, q, j) <=> Touches(tr, q, j)
    BY <1>2, <1>9 DEF Touches
  <2>4. /\ last.before \in Known /\ last.before # last.after
    BY <1>9, <2>1 DEF Legal
  <2>5. \A q \in Resource : \A j \in Sub(q) :
            /\ Touches(tr, q, j) => U[q][j] = last.before
            /\ ~ Touches(tr, q, j) => U[q][j] = T[q][j]
    <3>1. \A q \in Resource : \A j \in Sub(q) :
              T[q][j] = IF Touches(last, q, j) THEN last.after ELSE U[q][j]
      BY <2>1, <2>2, ExecutedIs
    <3> QED  BY <2>1, <2>3, <3>1 DEF Finds
  <2>6. CASE last.before = after
    <3>1. AddTransition(b, r, before, after, i) = Front(b)
      BY <1>7, <1>9, <2>6 DEF AddTransition
    <3>2. \A q \in Resource : \A j \in Sub(q) : new[q][j] = U[q][j]
      BY <1>6, <2>5, <2>6
    <3>3. new = U  BY <1>6, <2>2, <3>2, StatesEqual
    <3> QED  BY <1>1, <1>5, <2>1, <3>1, <3>3
  <2>7. CASE last.before # after
    <3>1. PICK both : both = Transition(r, i, last.before, after)  OBVIOUS
    <3>2. AddTransition(b, r, before, after, i) = Append(Front(b), both)
      BY <1>7, <1>9, <2>7, <3>1 DEF AddTransition
    <3>3. /\ Legal(both) /\ both.kind = "Transition" /\ both.before = last.before
          /\ both.after = after
          /\ \A q, j : Touches(both, q, j) <=> q = r /\ j \in Affected(r, i)
      BY <2>4, <2>7, <3>1, TransitionIs
    <3>4. Finds(U, both)  BY <1>2, <2>5, <3>3 DEF Finds
    <3>5. /\ IsStates(Executed(U, both))
          /\ \A q \in Resource : \A j \in Sub(q) :
                Executed(U, both)[q][j] = IF Touches(both, q, j) THEN after ELSE U[q][j]
      BY <2>2, <3>3, ExecutedIs
    <3>6. \A q \in Resource : \A j \in Sub(q) : new[q][j] = Executed(U, both)[q][j]
      BY <1>2, <1>6, <2>5, <3>3, <3>5
    <3>7. new = Executed(U, both)  BY <1>6, <3>5, <3>6, StatesEqual
    <3>8. Chain(Append(Front(b), both), M, Executed(U, both))
      BY <2>1, <3>3, <3>4, ChainAppend
    <3> QED  BY <1>1, <1>5, <3>2, <3>7, <3>8
  <2> QED  BY <2>6, <2>7
<1> QED  BY <1>8, <1>9

-----------------------------------------------------------------------------
(***************************************************************************)
(* A list that is recorded: from any states that meet what is pending (and *)
(* have the buffers it fills still to be filled), its commands and then    *)
(* the batch find what they name, and leave the tracked states.            *)
(***************************************************************************)
After(tracked, S) ==
    [r \in Resource |-> [i \in Sub(r) |->
        IF GetSubresourceState(tracked[r], i) = TBD THEN S[r][i]
        ELSE GetSubresourceState(tracked[r], i)]]

Filling(r) == [resource |-> r, sub |-> 0, state |-> {"COPY_DEST"}]

Filled(commands) ==
    {r \in Buffer : \E k \in 1 .. Len(commands) :
                        commands[k].kind = "Use" /\ Filling(r) \in commands[k].needs}

TrackedOK(tracked) ==
    /\ tracked = [r \in Resource |-> tracked[r]]
    /\ \A r \in Resource : StatesOK(r, tracked[r])

PendingOK(pending, tracked) ==
    /\ IsList(pending)
    /\ \A k \in 1 .. Len(pending) :
          /\ pending[k].resource \in Resource
          /\ pending[k].sub \in Sub(pending[k].resource)
          /\ pending[k].state \in Known
          /\ GetSubresourceState(tracked[pending[k].resource], pending[k].sub) # TBD
    /\ \A j, k \in 1 .. Len(pending) :
          pending[j].resource = pending[k].resource /\ pending[j].sub = pending[k].sub
              => j = k

FilledOK(pending, tracked, filled) ==
    \A r \in filled :
        /\ GetSubresourceState(tracked[r], 0) # TBD
        /\ \A k \in 1 .. Len(pending) : pending[k].resource # r

Meets(S, pending, filled) ==
    /\ IsStates(S)
    /\ \A k \in 1 .. Len(pending) :
          S[pending[k].resource][pending[k].sub] = pending[k].state
    /\ \A r \in filled : S[r][0] = {"COPY_DEST"}

Runs(commands, batch, S, T) == \E M : Chain(commands, S, M) /\ Chain(batch, M, T)

ContextIs(c) ==
    /\ c = [open |-> c.open, tracked |-> c.tracked, pending |-> c.pending,
            commands |-> c.commands, batch |-> c.batch]
    /\ c.open \in BOOLEAN
    /\ IsList(c.commands) /\ IsList(c.batch)
    /\ \A k \in 1 .. Len(c.batch) : c.batch[k].kind # "Use"
    /\ ~ c.open => c = Closed(c.batch)

ContextOK(c) ==
    /\ ContextIs(c)
    /\ TrackedOK(c.tracked)
    /\ PendingOK(c.pending, c.tracked)
    /\ FilledOK(c.pending, c.tracked, Filled(c.commands))
    /\ \A S : Meets(S, c.pending, Filled(c.commands)) =>
                  Runs(c.commands, c.batch, S, After(c.tracked, S))

LEMMA AfterIs ==
    ASSUME NEW tracked, TrackedOK(tracked), NEW S, IsStates(S)
    PROVE  /\ IsStates(After(tracked, S))
           /\ \A r \in Resource : \A i \in Sub(r) :
                 After(tracked, S)[r][i] =
                     IF GetSubresourceState(tracked[r], i) = TBD THEN S[r][i]
                     ELSE GetSubresourceState(tracked[r], i)
<1>1. PICK T : T = After(tracked, S)  OBVIOUS
<1>2. \A r \in Resource : \A i \in Sub(r) :
          T[r][i] = IF GetSubresourceState(tracked[r], i) = TBD THEN S[r][i]
                    ELSE GetSubresourceState(tracked[r], i)
  BY <1>1 DEF After
<1>3. T = [r \in Resource |-> [i \in Sub(r) |-> T[r][i]]]
  BY <1>1 DEF After
<1>4. \A r \in Resource : \A i \in Sub(r) : T[r][i] \in Known
  BY <1>2 DEF IsStates, TrackedOK, StatesOK, Tracked
<1>5. IsStates(T)  BY <1>3, <1>4 DEF IsStates
<1> QED  BY <1>1, <1>2, <1>5

LEMMA AfterEqual ==
    ASSUME NEW t, TrackedOK(t), NEW u, TrackedOK(u), NEW S, IsStates(S),
           \A r \in Resource : \A i \in Sub(r) :
               GetSubresourceState(t[r], i) = GetSubresourceState(u[r], i)
    PROVE  After(t, S) = After(u, S)
<1>1. /\ IsStates(After(t, S)) /\ IsStates(After(u, S))
      /\ \A r \in Resource : \A i \in Sub(r) : After(t, S)[r][i] = After(u, S)[r][i]
  BY AfterIs
<1> QED  BY <1>1, StatesEqual

LEMMA ClosedOK ==
           /\ ContextOK(Closed(<<>>))
           /\ \A r \in Resource : \A i \in Sub(r) :
                 GetSubresourceState(Closed(<<>>).tracked[r], i) = TBD
           /\ Closed(<<>>).pending = <<>> /\ Closed(<<>>).commands = <<>>
           /\ Closed(<<>>).batch = <<>> /\ ~ Closed(<<>>).open
<1>1. PICK c : c = Closed(<<>>)  OBVIOUS
<1>2. c = [open |-> FALSE, tracked |-> [r \in Resource |-> Initialize(r, TBD)],
           pending |-> <<>>, commands |-> <<>>, batch |-> <<>>]
  BY <1>1 DEF Closed
<1>3. \A r \in Resource : /\ StatesOK(r, c.tracked[r])
                          /\ \A i \in Sub(r) : GetSubresourceState(c.tracked[r], i) = TBD
  BY <1>2, InitializeIs DEF Tracked
<1>4. ContextIs(c)
  <2>1. c.batch = <<>> /\ c.commands = <<>> /\ c.open \in BOOLEAN  BY <1>2
  <2>2. c = Closed(c.batch)  BY <1>1, <2>1
  <2>3. c = [open |-> c.open, tracked |-> c.tracked, pending |-> c.pending,
             commands |-> c.commands, batch |-> c.batch]
    BY <1>2
  <2> QED  BY <2>1, <2>2, <2>3, EmptyList DEF ContextIs
<1>5. TrackedOK(c.tracked)
  <2>1. c.tracked = [r \in Resource |-> c.tracked[r]]  BY <1>2
  <2> QED  BY <1>3, <2>1 DEF TrackedOK
<1>6. c.pending = <<>> /\ c.commands = <<>> /\ c.batch = <<>> /\ ~ c.open  BY <1>2
<1>7. PendingOK(c.pending, c.tracked)  BY <1>6, EmptyList DEF PendingOK
<1>8. Filled(c.commands) = {}  BY <1>6, EmptyList DEF Filled
<1>9. FilledOK(c.pending, c.tracked, Filled(c.commands))  BY <1>8 DEF FilledOK
<1>10. ASSUME NEW S, IsStates(S)
       PROVE  Runs(c.commands, c.batch, S, After(c.tracked, S))
  <2>1. IsStates(After(c.tracked, S)) /\ After(c.tracked, S) = S
    <3>1. IsStates(After(c.tracked, S))  BY <1>5, <1>10, AfterIs
    <3>2. \A r \in Resource : \A i \in Sub(r) : After(c.tracked, S)[r][i] = S[r][i]
      BY <1>3, <1>5, <1>10, AfterIs
    <3> QED  BY <1>10, <3>1, <3>2, StatesEqual
  <2> QED  BY <1>6, <1>10, <2>1, ChainEmpty DEF Runs
<1>11. ContextOK(c)  BY <1>4, <1>5, <1>7, <1>9, <1>10 DEF ContextOK, Meets
<1> QED  BY <1>1, <1>3, <1>6, <1>11

\* The context with other tracked states, batch or pending states, when it is open.
Rebuilt(c, d) ==
    /\ d = [open |-> TRUE, tracked |-> d.tracked, pending |-> d.pending,
            commands |-> d.commands, batch |-> d.batch]
    /\ d.commands = c.commands

\* Only the states of r are tracked otherwise.
Apart(c, d, r) == \A q \in Resource : q # r => d.tracked[q] = c.tracked[q]

LEMMA Opened ==
    ASSUME NEW c, ContextOK(c), NEW d, d = GetCommandList(c)
    PROVE  /\ ContextOK(d) /\ d.open /\ d.tracked = c.tracked /\ d.pending = c.pending
           /\ d.commands = c.commands /\ d.batch = c.batch
<1>1. d = [open |-> TRUE, tracked |-> c.tracked, pending |-> c.pending,
           commands |-> c.commands, batch |-> c.batch]
  BY DEF GetCommandList, ContextOK, ContextIs
<1>2. /\ d.open /\ d.tracked = c.tracked /\ d.pending = c.pending
      /\ d.commands = c.commands /\ d.batch = c.batch
  BY <1>1
<1>3. ContextIs(d)  BY <1>1, <1>2 DEF ContextOK, ContextIs
<1>4. ContextOK(d)  BY <1>2, <1>3 DEF ContextOK
<1> QED  BY <1>2, <1>4

LEMMA Flushed ==
    ASSUME NEW c, ContextOK(c), NEW d, d = FlushResourceBarriers(c)
    PROVE  /\ ContextOK(d) /\ d.tracked = c.tracked /\ d.pending = c.pending
           /\ d.batch = <<>> /\ Filled(d.commands) = Filled(c.commands)
           /\ c.open => d.open
<1>1. CASE c.batch = <<>>
  BY <1>1 DEF FlushResourceBarriers
<1>2. CASE c.batch # <<>>
  <2>1. PICK s : s = c.commands \o c.batch  OBVIOUS
  <2>2. /\ d.open /\ d.tracked = c.tracked /\ d.pending = c.pending
        /\ d.commands = c.commands \o c.batch /\ d.batch = <<>>
        /\ d = [open |-> TRUE, tracked |-> c.tracked, pending |-> c.pending,
                commands |-> d.commands, batch |-> <<>>]
    <3>1. d = [open |-> TRUE, tracked |-> c.tracked, pending |-> c.pending,
               commands |-> s, batch |-> <<>>]
      BY <1>2, <2>1 DEF FlushResourceBarriers, GetCommandList, ContextOK, ContextIs
    <3>2. PICK e : e = d  OBVIOUS
    <3>3. e = [open |-> TRUE, tracked |-> c.tracked, pending |-> c.pending,
               commands |-> s, batch |-> <<>>]
      BY <3>1, <3>2
    <3>4. /\ e.open /\ e.tracked = c.tracked /\ e.pending = c.pending
          /\ e.commands = s /\ e.batch = <<>>
      BY <3>3
    <3>5. e = [open |-> TRUE, tracked |-> c.tracked, pending |-> c.pending,
               commands |-> e.commands, batch |-> <<>>]
      BY <3>3, <3>4
    <3> QED  BY <2>1, <3>2, <3>4, <3>5
  <2>3. PICK n, m \in Nat : n = Len(c.commands) /\ m = Len(c.batch)
    BY ListIs DEF ContextOK, ContextIs
  <2>4. /\ IsList(d.commands) /\ Len(d.commands) = n + m
        /\ \A i \in 1 .. n : d.commands[i] = c.commands[i]
        /\ \A i \in 1 .. m : d.commands[n + i] = c.batch[i]
    BY <2>2, <2>3, ListConcat DEF ContextOK, ContextIs
  <2>5. \A k \in 1 .. n + m : d.commands[k].kind = "Use" =>
            k \in 1 .. n /\ d.commands[k] = c.commands[k]
    <3> SUFFICES ASSUME NEW k \in 1 .. n + m, d.commands[k].kind = "Use"
                 PROVE  k \in 1 .. n
      BY <2>4
    <3>1. k \notin 1 .. n => k - n \in 1 .. m /\ n + (k - n) = k  OBVIOUS
    <3>2. k \notin 1 .. n => d.commands[k] = c.batch[k - n] /\ k - n \in 1 .. m
      BY <2>4, <3>1
    <3> QED  BY <2>3, <3>2 DEF ContextOK, ContextIs
  <2>6. \A k \in 1 .. n : k \in 1 .. n + m  OBVIOUS
  <2>7. Filled(d.commands) = Filled(c.commands)
    BY <2>3, <2>4, <2>5, <2>6 DEF Filled
  <2>8. ContextIs(d)
    <3>1. \A k \in 1 .. Len(d.batch) : d.batch[k].kind # "Use"  BY <2>2, EmptyList
    <3> QED  BY <2>2, <2>4, <3>1, EmptyList DEF ContextIs
  <2>9. ASSUME NEW S, Meets(S, d.pending, Filled(d.commands))
        PROVE  Runs(d.commands, d.batch, S, After(d.tracked, S))
    <3>1. PICK T : T = After(c.tracked, S)  OBVIOUS
    <3>2. Runs(c.commands, c.batch, S, T)
      BY <2>2, <2>7, <2>9, <3>1 DEF ContextOK
    <3>3. PICK M : Chain(c.commands, S, M) /\ Chain(c.batch, M, T)  BY <3>2 DEF Runs
    <3>4. Chain(d.commands, S, T)  BY <2>2, <3>3, ChainConcat
    <3>5. Chain(<<>>, T, T)  BY <3>4, ChainStates, ChainEmpty
    <3> QED  BY <2>2, <3>1, <3>4, <3>5 DEF Runs
  <2>10. ContextOK(d)  BY <2>2, <2>7, <2>8, <2>9 DEF ContextOK
  <2> QED  BY <2>2, <2>7, <2>10
<1> QED  BY <1>1, <1>2

LEMMA TrackIs ==
    ASSUME NEW c, ContextIs(c), c.open, TrackedOK(c.tracked), NEW r \in Resource,
           NEW i, SubOK(r, i), NEW state \in Tracked, NEW d, d = Track(c, r, i, state)
    PROVE  /\ Rebuilt(c, d) /\ d.pending = c.pending /\ d.batch = c.batch /\ d.open
           /\ TrackedOK(d.tracked) /\ Apart(c, d, r)
           /\ \A j \in Sub(r) : GetSubresourceState(d.tracked[r], j) =
                  IF j \in Affected(r, i) THEN state ELSE GetSubresourceState(c.tracked[r], j)
<1>1. PICK x : x = SetSubresourceState(c.tracked[r], i, state)  OBVIOUS
<1>2. PICK t : t = c.tracked  OBVIOUS
<1>3. t = [q \in Resource |-> t[q]]  BY <1>2 DEF TrackedOK
<1>4. PICK u : u = [t EXCEPT ![r] = x]  OBVIOUS
<1>5. u[r] = x /\ \A q \in Resource : q # r => u[q] = t[q]  BY <1>3, <1>4
<1>6. u = [q \in Resource |-> u[q]]  BY <1>3, <1>4
<1>7. d = [open |-> TRUE, tracked |-> u, pending |-> c.pending,
           commands |-> c.commands, batch |-> c.batch]
  BY <1>1, <1>2, <1>4 DEF Track, ContextIs
<1>8. /\ StatesOK(r, x)
      /\ \A j \in Sub(r) : GetSubresourceState(x, j) =
             IF j \in Affected(r, i) THEN state ELSE GetSubresourceState(c.tracked[r], j)
  BY <1>1, OneSet DEF TrackedOK
<1>9. /\ d.tracked = u /\ d.pending = c.pending /\ d.batch = c.batch /\ d.open
      /\ d.commands = c.commands
  BY <1>7
<1>10. TrackedOK(u)  BY <1>2, <1>5, <1>6, <1>8 DEF TrackedOK
<1>11. Rebuilt(c, d)  BY <1>7, <1>9 DEF Rebuilt
<1>12. Apart(c, d, r)  BY <1>2, <1>5, <1>9 DEF Apart
<1> QED  BY <1>5, <1>8, <1>9, <1>10, <1>11, <1>12

LEMMA RebuiltIs ==
    ASSUME NEW c, ContextIs(c), NEW d, Rebuilt(c, d), IsList(d.batch),
           \A k \in 1 .. Len(d.batch) : d.batch[k].kind # "Use"
    PROVE  ContextIs(d) /\ d.open
<1>1. d.open = TRUE /\ IsList(d.commands)  BY DEF Rebuilt, ContextIs
<1>2. d = [open |-> d.open, tracked |-> d.tracked, pending |-> d.pending,
           commands |-> d.commands, batch |-> d.batch]
  BY <1>1 DEF Rebuilt
<1> QED  BY <1>1, <1>2 DEF ContextIs

\* The same states, tracked in another way.
LEMMA TrackedAlike ==
    ASSUME NEW c, ContextOK(c), NEW d, Rebuilt(c, d), d.pending = c.pending,
           d.batch = c.batch, TrackedOK(d.tracked),
           \A q \in Resource : \A j \in Sub(q) :
               GetSubresourceState(d.tracked[q], j) = GetSubresourceState(c.tracked[q], j)
    PROVE  ContextOK(d) /\ d.open
<1>1. d.commands = c.commands  BY DEF Rebuilt
<1>2. ContextIs(d) /\ d.open  BY RebuiltIs DEF ContextOK, ContextIs
<1>3. PendingOK(d.pending, d.tracked)  BY DEF ContextOK, PendingOK
<1>4. FilledOK(d.pending, d.tracked, Filled(d.commands))
  <2>1. \A r \in Buffer : r \in Resource /\ 0 \in Sub(r)  BY ResourceAssumption, SubIs
  <2>2. Filled(c.commands) \subseteq Buffer  BY DEF Filled
  <2> QED  BY <1>1, <2>1, <2>2 DEF ContextOK, FilledOK
<1>5. ASSUME NEW S, Meets(S, d.pending, Filled(d.commands))
      PROVE  Runs(d.commands, d.batch, S, After(d.tracked, S))
  <2>1. IsStates(S)  BY <1>5 DEF Meets
  <2>2. After(d.tracked, S) = After(c.tracked, S)
    BY <2>1, AfterEqual DEF ContextOK
  <2> QED  BY <1>1, <1>5, <2>2 DEF ContextOK
<1> QED  BY <1>2, <1>3, <1>4, <1>5 DEF ContextOK

LEMMA TrackSame ==
    ASSUME NEW c, ContextOK(c), c.open, NEW r \in Resource, NEW i, SubOK(r, i),
           NEW state \in Known, NEW d, d = Track(c, r, i, state),
           \A j \in Affected(r, i) : GetSubresourceState(c.tracked[r], j) = state
    PROVE  /\ ContextOK(d) /\ d.open /\ d.commands = c.commands /\ Apart(c, d, r)
           /\ \A j \in Sub(r) : GetSubresourceState(d.tracked[r], j) =
                                    GetSubresourceState(c.tracked[r], j)
<1>1. /\ Rebuilt(c, d) /\ d.pending = c.pending /\ d.batch = c.batch /\ d.open
      /\ TrackedOK(d.tracked) /\ Apart(c, d, r)
      /\ \A j \in Sub(r) : GetSubresourceState(d.tracked[r], j) =
             IF j \in Affected(r, i) THEN state ELSE GetSubresourceState(c.tracked[r], j)
  BY TrackIs DEF ContextOK, Tracked
<1>2. \A j \in Sub(r) : GetSubresourceState(d.tracked[r], j) =
                            GetSubresourceState(c.tracked[r], j)
  BY <1>1
<1>3. \A q \in Resource : \A j \in Sub(q) :
          GetSubresourceState(d.tracked[q], j) = GetSubresourceState(c.tracked[q], j)
  BY <1>1, <1>2 DEF Apart
<1>4. ContextOK(d)  BY <1>1, <1>3, TrackedAlike
<1> QED  BY <1>1, <1>2, <1>4 DEF Rebuilt

\* A transition is batched, and the state after it is tracked.
LEMMA BarrierAdded ==
    ASSUME NEW c, ContextOK(c), c.open, NEW r \in Resource, NEW i, SubOK(r, i),
           NEW before \in Known, NEW after \in Known,
           \A S : Meets(S, c.pending, Filled(c.commands)) =>
                      \A j \in Affected(r, i) : After(c.tracked, S)[r][j] = before,
           NEW d, d = AddTransitionBarrier(c, r, before, after, i)
    PROVE  /\ ContextOK(d) /\ d.open /\ d.commands = c.commands /\ Apart(c, d, r)
           /\ \A j \in Sub(r) : GetSubresourceState(d.tracked[r], j) =
                  IF j \in Affected(r, i) THEN after ELSE GetSubresourceState(c.tracked[r], j)
<1>1. PICK b : b = IF before = after THEN c.batch
                   ELSE AddTransition(c.batch, r, before, after, i)
  OBVIOUS
<1>2. PICK e : e = [c EXCEPT !.batch = b]  OBVIOUS
<1>3. d = Track(e, r, i, after)
  <2>1. c = [c EXCEPT !.batch = c.batch]  BY DEF ContextOK, ContextIs
  <2> QED  BY <1>1, <1>2, <2>1 DEF AddTransitionBarrier
<1>4. /\ e.open /\ e.tracked = c.tracked /\ e.pending = c.pending
      /\ e.commands = c.commands /\ e.batch = b
      /\ e = [open |-> e.open, tracked |-> e.tracked, pending |-> e.pending,
              commands |-> e.commands, batch |-> e.batch]
  BY <1>2 DEF ContextOK, ContextIs
<1>5. IsList(b) /\ \A k \in 1 .. Len(b) : b[k].kind # "Use"
  <2>1. PICK s : s = c.batch  OBVIOUS
  <2>2. IsList(s) /\ \A k \in 1 .. Len(s) : s[k].kind # "Use"
    BY <2>1 DEF ContextOK, ContextIs
  <2>3. \A q, t : IsList(q) /\ (\A k \in 1 .. Len(q) : q[k].kind # "Use") /\ t.kind # "Use" =>
            IsList(Append(q, t)) /\ \A k \in 1 .. Len(Append(q, t)) : Append(q, t)[k].kind # "Use"
    <3> SUFFICES ASSUME NEW q, NEW t, IsList(q), \A k \in 1 .. Len(q) : q[k].kind # "Use",
                        t.kind # "Use"
                 PROVE  /\ IsList(Append(q, t))
                        /\ \A k \in 1 .. Len(Append(q, t)) : Append(q, t)[k].kind # "Use"
      OBVIOUS
    <3>1. PICK n \in Nat : n = Len(q)  BY ListIs
    <3>2. PICK p : p = Append(q, t)  OBVIOUS
    <3>3. /\ IsList(p) /\ Len(p) = n + 1 /\ p[n + 1] = t
          /\ \A k \in 1 .. n : p[k] = q[k]
      BY <3>1, <3>2, ListAppend
    <3>4. \A k \in 1 .. n + 1 : k \in 1 .. n \/ k = n + 1  OBVIOUS
    <3>5. \A k \in 1 .. n + 1 : p[k].kind # "Use"  BY <3>1, <3>3, <3>4
    <3> QED  BY <3>2, <3>3, <3>5
  <2>4. s # <<>> => IsList(Front(s)) /\ \A k \in 1 .. Len(Front(s)) : Front(s)[k].kind # "Use"
    <3> SUFFICES ASSUME s # <<>>
                 PROVE  IsList(Front(s)) /\ \A k \in 1 .. Len(Front(s)) : Front(s)[k].kind # "Use"
      OBVIOUS
    <3>1. PICK f : f = Front(s)  OBVIOUS
    <3>2. PICK n \in Nat \ {0} : n = Len(s)  BY <2>2, ListFront
    <3>3. IsList(f) /\ Len(f) = n - 1 /\ \A k \in 1 .. n - 1 : f[k] = s[k]
      BY <2>2, <3>1, <3>2, ListFront
    <3>4. \A k \in 1 .. n - 1 : k \in 1 .. n  OBVIOUS
    <3> QED  BY <2>2, <3>1, <3>2, <3>3, <3>4
  <2>5. \A x, y : Transition(r, i, x, y).kind # "Use"  BY DEF Transition
  <2>6. \/ b = s
        \/ s # <<>> /\ b = Front(s)
        \/ s # <<>> /\ \E x : b = Append(Front(s), Transition(r, i, x, after))
        \/ b = Append(s, Transition(r, i, before, after))
    BY <1>1, <2>1 DEF AddTransition
  <2> QED  BY <2>2, <2>3, <2>4, <2>5, <2>6
<1>6. ContextIs(e)  BY <1>4, <1>5 DEF ContextOK, ContextIs
<1>7. /\ Rebuilt(e, d) /\ d.pending = e.pending /\ d.batch = e.batch /\ d.open
      /\ TrackedOK(d.tracked) /\ Apart(e, d, r)
      /\ \A j \in Sub(r) : GetSubresourceState(d.tracked[r], j) =
             IF j \in Affected(r, i) THEN after ELSE GetSubresourceState(e.tracked[r], j)
  BY <1>3, <1>4, <1>6, TrackIs DEF ContextOK, Tracked
<1>8. /\ d.commands = c.commands /\ d.pending = c.pending /\ d.batch = b /\ Apart(c, d, r)
      /\ \A j \in Sub(r) : GetSubresourceState(d.tracked[r], j) =
             IF j \in Affected(r, i) THEN after ELSE GetSubresourceState(c.tracked[r], j)
  BY <1>4, <1>7 DEF Rebuilt, Apart
<1>9. ContextIs(d)  BY <1>4, <1>5, <1>6, <1>7, RebuiltIs
<1>10. after # TBD  BY StatesApart
<1>11. \A q \in Resource : \A j \in Sub(q) :
          GetSubresourceState(c.tracked[q], j) # TBD =>
              GetSubresourceState(d.tracked[q], j) # TBD
  BY <1>8, <1>10 DEF Apart
<1>12. PendingOK(d.pending, d.tracked)
  BY <1>8, <1>11 DEF ContextOK, PendingOK
<1>13. FilledOK(d.pending, d.tracked, Filled(d.commands))
  <2>1. \A q \in Buffer : q \in Resource /\ 0 \in Sub(q)  BY ResourceAssumption, SubIs
  <2>2. Filled(c.commands) \subseteq Buffer  BY DEF Filled
  <2> QED  BY <1>8, <1>11, <2>1, <2>2 DEF ContextOK, FilledOK
<1>14. ASSUME NEW S, Meets(S, d.pending, Filled(d.commands))
       PROVE  Runs(d.commands, d.batch, S, After(d.tracked, S))
  <2>1. Meets(S, c.pending, Filled(c.commands)) /\ IsStates(S)
    BY <1>8, <1>14 DEF Meets
  <2>2. PICK T : T = After(c.tracked, S)  OBVIOUS
  <2>3. PICK U : U = After(d.tracked, S)  OBVIOUS
  <2>4. PICK M : Chain(c.commands, S, M) /\ Chain(c.batch, M, T)
    BY <2>1, <2>2 DEF ContextOK, Runs
  <2>5. \A j \in Affected(r, i) : T[r][j] = before  BY <2>1, <2>2
  <2>6. /\ IsStates(T) /\ IsStates(U)
        /\ \A q \in Resource : \A j \in Sub(q) :
              T[q][j] = IF GetSubresourceState(c.tracked[q], j) = TBD THEN S[q][j]
                        ELSE GetSubresourceState(c.tracked[q], j)
        /\ \A q \in Resource : \A j \in Sub(q) :
              U[q][j] = IF GetSubresourceState(d.tracked[q], j) = TBD THEN S[q][j]
                        ELSE GetSubresourceState(d.tracked[q], j)
    BY <1>7, <2>1, <2>2, <2>3, AfterIs DEF ContextOK
  <2>7. \A q \in Resource : \A j \in Sub(q) :
            U[q][j] = IF q = r /\ j \in Affected(r, i) THEN after ELSE T[q][j]
    <3> SUFFICES ASSUME NEW q \in Resource, NEW j \in Sub(q)
                 PROVE  U[q][j] = IF q = r /\ j \in Affected(r, i) THEN after ELSE T[q][j]
      OBVIOUS
    <3>1. CASE q # r
      <4>1. d.tracked[q] = c.tracked[q]  BY <1>8, <3>1 DEF Apart
      <4> QED  BY <2>6, <3>1, <4>1
    <3>2. CASE q = r
      BY <1>8, <1>10, <2>6, <3>2
    <3> QED  BY <3>1, <3>2
  <2>8. CASE before = after
    <3>1. \A q \in Resource : \A j \in Sub(q) : U[q][j] = T[q][j]
      BY <2>5, <2>7, <2>8
    <3>2. U = T  BY <2>6, <3>1, StatesEqual
    <3> QED  BY <1>1, <1>8, <2>3, <2>4, <2>8, <3>2 DEF Runs
  <2>9. CASE before # after
    <3>1. PICK tr : tr = Transition(r, i, before, after)  OBVIOUS
    <3>2. Chain(b, M, Executed(T, tr))
      BY <1>1, <2>4, <2>5, <2>9, <3>1, BatchAdd
    <3>3. /\ IsStates(Executed(T, tr))
          /\ \A q \in Resource : \A j \in Sub(q) :
                Executed(T, tr)[q][j] = IF q = r /\ j \in Affected(r, i) THEN after ELSE T[q][j]
      <4>1. /\ Legal(tr) /\ tr.after = after
            /\ \A q, j : Touches(tr, q, j) <=> q = r /\ j \in Affected(r, i)
        BY <2>9, <3>1, TransitionIs
      <4> QED  BY <2>6, <4>1, ExecutedIs
    <3>4. \A q \in Resource : \A j \in Sub(q) : U[q][j] = Executed(T, tr)[q][j]
      BY <2>7, <3>3
    <3>5. U = Executed(T, tr)  BY <2>6, <3>3, <3>4, StatesEqual
    <3> QED  BY <1>8, <2>3, <2>4, <3>2, <3>5 DEF Runs
  <2> QED  BY <2>8, <2>9
<1>15. ContextOK(d)  BY <1>7, <1>9, <1>12, <1>13, <1>14 DEF ContextOK
<1> QED  BY <1>7, <1>8, <1>15

\* The first request for a subresource on a list is left to the submission.
LEMMA PendingAdded ==
    ASSUME NEW c, ContextOK(c), c.open, NEW r \in Resource, NEW i \in Sub(r),
           GetSubresourceState(c.tracked[r], i) = TBD, NEW after \in Known,
           NEW d, d = AddPendingResourceBarrier(c, r, after, i)
    PROVE  /\ ContextOK(d) /\ d.open /\ d.commands = c.commands /\ Apart(c, d, r)
           /\ \A j \in Sub(r) : GetSubresourceState(d.tracked[r], j) =
                  IF j \in Affected(r, i) THEN after ELSE GetSubresourceState(c.tracked[r], j)
<1>1. PICK x : x = [resource |-> r, state |-> after, sub |-> i]  OBVIOUS
<1>2. PICK p : p = Append(c.pending, x)  OBVIOUS
<1>3. PICK e : e = [c EXCEPT !.pending = p]  OBVIOUS
<1>4. d = Track(e, r, i, after)
  BY <1>1, <1>2, <1>3 DEF AddPendingResourceBarrier
<1>5. /\ e.open /\ e.tracked = c.tracked /\ e.pending = p
      /\ e.commands = c.commands /\ e.batch = c.batch
      /\ e = [open |-> e.open, tracked |-> e.tracked, pending |-> e.pending,
              commands |-> e.commands, batch |-> e.batch]
  BY <1>3 DEF ContextOK, ContextIs
<1>6. ContextIs(e)  BY <1>5 DEF ContextOK, ContextIs
<1>7. /\ Rebuilt(e, d) /\ d.pending = e.pending /\ d.batch = e.batch /\ d.open
      /\ TrackedOK(d.tracked) /\ Apart(e, d, r)
      /\ \A j \in Sub(r) : GetSubresourceState(d.tracked[r], j) =
             IF j \in Affected(r, i) THEN after ELSE GetSubresourceState(e.tracked[r], j)
  BY <1>4, <1>5, <1>6, TrackIs DEF ContextOK, Tracked, SubOK
<1>8. /\ d.commands = c.commands /\ d.pending = p /\ d.batch = c.batch /\ Apart(c, d, r)
      /\ \A j \in Sub(r) : GetSubresourceState(d.tracked[r], j) =
             IF j \in Affected(r, i) THEN after ELSE GetSubresourceState(c.tracked[r], j)
  BY <1>5, <1>7 DEF Rebuilt, Apart
<1>9. ContextIs(d)  BY <1>5, <1>6, <1>7, RebuiltIs DEF ContextIs
<1>10. after # TBD /\ Affected(r, i) = {i}  BY StatesApart, SubIs
<1>11. \A q \in Resource : \A j \in Sub(q) :
          GetSubresourceState(c.tracked[q], j) # TBD =>
              GetSubresourceState(d.tracked[q], j) # TBD
  BY <1>8, <1>10 DEF Apart
<1>12. PICK n \in Nat : n = Len(c.pending)  BY ListIs DEF ContextOK, PendingOK
<1>13. /\ IsList(p) /\ Len(p) = n + 1 /\ p[n + 1] = x
       /\ \A k \in 1 .. n : p[k] = c.pending[k]
  BY <1>2, <1>12, ListAppend DEF ContextOK, PendingOK
<1>14. x.resource = r /\ x.sub = i /\ x.state = after  BY <1>1
<1>15. \A k \in 1 .. n + 1 : k \in 1 .. n \/ k = n + 1  OBVIOUS
<1>16. \A k \in 1 .. n : ~ (p[k].resource = r /\ p[k].sub = i)
  BY <1>12, <1>13 DEF ContextOK, PendingOK
<1>17. PendingOK(p, d.tracked)
  <2>1. ASSUME NEW k \in 1 .. n + 1
        PROVE  /\ p[k].resource \in Resource /\ p[k].sub \in Sub(p[k].resource)
               /\ p[k].state \in Known
               /\ GetSubresourceState(d.tracked[p[k].resource], p[k].sub) # TBD
    <3>1. CASE k \in 1 .. n
      <4>1. PICK y : y = c.pending[k]  OBVIOUS
      <4>2. PendingOK(c.pending, c.tracked)  BY DEF ContextOK
      <4>3. /\ y.resource \in Resource /\ y.sub \in Sub(y.resource) /\ y.state \in Known
            /\ GetSubresourceState(c.tracked[y.resource], y.sub) # TBD
        BY <1>12, <3>1, <4>1, <4>2 DEF PendingOK
      <4>4. GetSubresourceState(d.tracked[y.resource], y.sub) # TBD  BY <1>11, <4>3
      <4>5. p[k] = y  BY <1>13, <3>1, <4>1
      <4> QED  BY <4>3, <4>4, <4>5
    <3>2. CASE k = n + 1
      BY <1>8, <1>10, <1>13, <1>14, <3>2
    <3> QED  BY <1>15, <3>1, <3>2
  <2>2. ASSUME NEW j \in 1 .. n + 1, NEW k \in 1 .. n + 1,
               p[j].resource = p[k].resource /\ p[j].sub = p[k].sub
        PROVE  j = k
    <3>1. CASE j \in 1 .. n /\ k \in 1 .. n
      BY <1>12, <1>13, <2>2, <3>1 DEF ContextOK, PendingOK
    <3>2. CASE j = n + 1 \/ k = n + 1
      BY <1>13, <1>14, <1>15, <1>16, <2>2, <3>2
    <3> QED  BY <1>15, <3>1, <3>2
  <2> QED  BY <1>13, <2>1, <2>2 DEF PendingOK
<1>18. FilledOK(p, d.tracked, Filled(d.commands))
  <2>1. ASSUME NEW q \in Filled(c.commands)  PROVE q \in Buffer /\ q # r
    <3>1. q \in Buffer  BY <2>1 DEF Filled
    <3>2. Count[q] = 1  BY <3>1, CountAssumption
    <3>3. q = r => i = 0  BY <3>2, SubIs
    <3>4. GetSubresourceState(c.tracked[q], 0) # TBD  BY <2>1 DEF ContextOK, FilledOK
    <3> QED  BY <3>1, <3>3, <3>4
  <2>2. \A q \in Buffer : q \in Resource /\ 0 \in Sub(q)  BY ResourceAssumption, SubIs
  <2>3. ASSUME NEW q \in Filled(c.commands), NEW k \in 1 .. n + 1
        PROVE  p[k].resource # q
    <3>1. CASE k \in 1 .. n
      BY <1>12, <1>13, <2>3, <3>1 DEF ContextOK, FilledOK
    <3>2. CASE k = n + 1
      BY <1>13, <1>14, <2>1, <3>2
    <3> QED  BY <1>15, <3>1, <3>2
  <2>4. \A q \in Filled(c.commands) : GetSubresourceState(d.tracked[q], 0) # TBD
    BY <1>11, <2>1, <2>2 DEF ContextOK, FilledOK
  <2> QED  BY <1>8, <1>13, <2>3, <2>4 DEF FilledOK
<1>19. ASSUME NEW S, Meets(S, p, Filled(d.commands))
       PROVE  Runs(d.commands, d.batch, S, After(d.tracked, S))
  <2>1. Meets(S, c.pending, Filled(c.commands)) /\ IsStates(S)
    <3>1. \A k \in 1 .. n : k \in 1 .. n + 1  OBVIOUS
    <3>2. \A k \in 1 .. n : S[p[k].resource][p[k].sub] = p[k].state
      BY <1>13, <1>19, <3>1 DEF Meets
    <3> QED  BY <1>8, <1>12, <1>13, <1>19, <3>2 DEF Meets
  <2>2. S[r][i] = after
    <3>1. n + 1 \in 1 .. n + 1  OBVIOUS
    <3> QED  BY <1>13, <1>14, <1>19, <3>1 DEF Meets
  <2>3. PICK T : T = After(c.tracked, S)  OBVIOUS
  <2>4. PICK U : U = After(d.tracked, S)  OBVIOUS
  <2>5. /\ IsStates(T) /\ IsStates(U)
        /\ \A q \in Resource : \A j \in Sub(q) :
              T[q][j] = IF GetSubresourceState(c.tracked[q], j) = TBD THEN S[q][j]
                        ELSE GetSubresourceState(c.tracked[q], j)
        /\ \A q \in Resource : \A j \in Sub(q) :
              U[q][j] = IF GetSubresourceState(d.tracked[q], j) = TBD THEN S[q][j]
                        ELSE GetSubresourceState(d.tracked[q], j)
    BY <1>7, <2>1, <2>3, <2>4, AfterIs DEF ContextOK
  <2>6. \A q \in Resource : \A j \in Sub(q) : U[q][j] = T[q][j]
    <3> SUFFICES ASSUME NEW q \in Resource, NEW j \in Sub(q)
                 PROVE  U[q][j] = T[q][j]
      OBVIOUS
    <3>1. CASE q # r
      <4>1. d.tracked[q] = c.tracked[q]  BY <1>8, <3>1 DEF Apart
      <4> QED  BY <2>5, <4>1
    <3>2. CASE q = r /\ j # i
      <4>1. GetSubresourceState(d.tracked[r], j) = GetSubresourceState(c.tracked[r], j)
        BY <1>8, <1>10, <3>2
      <4> QED  BY <2>5, <3>2, <4>1
    <3>3. CASE q = r /\ j = i
      <4>1. GetSubresourceState(d.tracked[r], i) = after  BY <1>8, <1>10
      <4> QED  BY <1>10, <2>2, <2>5, <3>3, <4>1
    <3> QED  BY <3>1, <3>2, <3>3
  <2>7. U = T  BY <2>5, <2>6, StatesEqual
  <2>8. Runs(c.commands, c.batch, S, T)  BY <2>1, <2>3 DEF ContextOK
  <2> QED  BY <1>8, <2>4, <2>7, <2>8
<1>20. ContextOK(d)  BY <1>7, <1>8, <1>9, <1>17, <1>18, <1>19 DEF ContextOK
<1> QED  BY <1>7, <1>8, <1>20

-----------------------------------------------------------------------------
(***************************************************************************)
(* A request on the context: what is tracked afterwards.                   *)
(***************************************************************************)
Askable == RequestStates \cup {COMMON}

Granted(before, after, force) ==
    IF before = TBD \/ force THEN after ELSE Merged(before, after)

LEMMA AskableIs ==
    /\ Askable \subseteq Known
    /\ {"DEPTH_READ"} \notin Askable /\ {"COPY_DEST"} \notin Askable
<1>1. \A s \in Askable : s \subseteq Flags
  BY DEF Askable, RequestStates, COMMON, Flags, ReadStates
<1>2. \A s \in Askable : s # {"COPY_DEST"}
  BY DEF Askable, RequestStates, COMMON
<1>3. \A s \in Askable : s # {"DEPTH_READ"}
  <2>1. \A s \in Askable : s = {} \/ \E x \in s : x # "DEPTH_READ"
    BY DEF Askable, RequestStates, COMMON
  <2> QED  BY <2>1
<1> QED  BY <1>1, <1>2, <1>3 DEF Known

LEMMA GrantedIs ==
    ASSUME NEW before \in Tracked, NEW after \in Known, NEW force \in BOOLEAN
    PROVE  /\ Granted(before, after, force) \in Known
           /\ before \in Known => Merged(before, after) \in Known
BY DEF Granted, Merged, Known, Tracked

\* From c to d, the subresources of r in subset were asked to be in the state after.
Answers(c, d, r, subset, after, force) ==
    /\ ContextOK(d) /\ d.open /\ d.commands = c.commands /\ Apart(c, d, r)
    /\ \A j \in Sub(r) :
          GetSubresourceState(d.tracked[r], j) =
              IF j \in subset
              THEN Granted(GetSubresourceState(c.tracked[r], j), after, force)
              ELSE GetSubresourceState(c.tracked[r], j)

LEMMA OneTransition ==
    ASSUME NEW c, ContextOK(c), c.open, NEW r \in Resource, NEW i,
           i \in Sub(r) \/ (i = All /\ AreAllSubresourcesSame(c.tracked[r])),
           NEW after \in Askable, NEW force \in BOOLEAN,
           NEW d, d = TransitionSubresource(c, r, i, after, force)
    PROVE  Answers(c, d, r, Affected(r, i), after, force)
<1>1. PICK before : before = GetSubresourceState(c.tracked[r], i)  OBVIOUS
<1>2. SubOK(r, i) /\ Affected(r, i) \subseteq Sub(r) /\ (i \in Sub(r) => Affected(r, i) = {i})
  BY SubIs DEF SubOK
<1>3. StatesOK(r, c.tracked[r])  BY DEF ContextOK, TrackedOK
<1>4. /\ before \in Tracked
      /\ \A j \in Affected(r, i) : GetSubresourceState(c.tracked[r], j) = before
      /\ before = TBD => i \in Sub(r)
  <2>1. CASE i \in Sub(r)
    BY <1>1, <1>2, <1>3, <2>1 DEF StatesOK
  <2>2. CASE i = All /\ AreAllSubresourcesSame(c.tracked[r])
    <3>1. before \in Known /\ \A j \in Sub(r) : GetSubresourceState(c.tracked[r], j) = before
      BY <1>1, <1>3, <2>2, AllSameIs
    <3> QED  BY <1>2, <3>1, StatesApart DEF Tracked
  <2> QED  BY <2>1, <2>2
<1>5. after \in Known /\ after # {"DEPTH_READ"}  BY AskableIs
<1>6. CASE before = TBD
  <2>0. i \in Sub(r) /\ GetSubresourceState(c.tracked[r], i) = TBD
    BY <1>1, <1>4, <1>6
  <2>1. d = AddPendingResourceBarrier(c, r, after, i)
    BY <1>1, <1>6 DEF TransitionSubresource
  <2>2. /\ ContextOK(d) /\ d.open /\ d.commands = c.commands /\ Apart(c, d, r)
        /\ \A j \in Sub(r) : GetSubresourceState(d.tracked[r], j) =
             IF j \in Affected(r, i) THEN after ELSE GetSubresourceState(c.tracked[r], j)
    BY <2>0, <1>5, <2>1, PendingAdded
  <2> QED  BY <1>4, <1>6, <2>2 DEF Answers, Granted
<1>7. CASE before # TBD
  <2> DEFINE to == IF force THEN after ELSE Merged(before, after)
  <2>1. before \in Known /\ to \in Known
    BY <1>4, <1>5, <1>7, GrantedIs DEF Tracked
  <2>2. force /\ before = after => Merged(before, after) = after
    BY DEF Merged
  <2>3. \A S : Meets(S, c.pending, Filled(c.commands)) =>
                  \A j \in Affected(r, i) : After(c.tracked, S)[r][j] = before
    <3> SUFFICES ASSUME NEW S, Meets(S, c.pending, Filled(c.commands)),
                        NEW j \in Affected(r, i)
                 PROVE  After(c.tracked, S)[r][j] = before
      OBVIOUS
    <3>1. IsStates(S)  BY DEF Meets
    <3> QED  BY <1>2, <1>4, <1>7, <3>1, AfterIs DEF ContextOK
  <2>4. \/ d = AddTransitionBarrier(c, r, before, to, i)
        \/ d = Track(c, r, i, to) /\ to = before
    <3>1. CASE force /\ before # after
      BY <1>1, <1>7, <3>1 DEF TransitionSubresource
    <3>2. CASE ~ (force /\ before # after) /\ IsTransitionNeeded(before, after)
      BY <1>1, <1>7, <2>2, <3>2 DEF TransitionSubresource
    <3>3. CASE ~ (force /\ before # after) /\ ~ IsTransitionNeeded(before, after)
      <4>1. before = Merged(before, after)  BY <1>5, <3>3 DEF IsTransitionNeeded
      <4>2. d = Track(c, r, i, Merged(before, after))
        BY <1>1, <1>7, <3>3 DEF TransitionSubresource
      <4> QED  BY <2>2, <3>3, <4>1, <4>2
    <3> QED  BY <3>1, <3>2, <3>3
  <2> HIDE DEF to
  <2>5. /\ ContextOK(d) /\ d.open /\ d.commands = c.commands /\ Apart(c, d, r)
        /\ \A j \in Sub(r) : GetSubresourceState(d.tracked[r], j) =
             IF j \in Affected(r, i) THEN to ELSE GetSubresourceState(c.tracked[r], j)
    <3>1. CASE d = AddTransitionBarrier(c, r, before, to, i)
      BY <1>2, <2>1, <2>3, <3>1, BarrierAdded
    <3>2. CASE d = Track(c, r, i, to) /\ to = before
      <4>1. /\ ContextOK(d) /\ d.open /\ d.commands = c.commands /\ Apart(c, d, r)
            /\ \A j \in Sub(r) : GetSubresourceState(d.tracked[r], j) =
                                     GetSubresourceState(c.tracked[r], j)
        BY <1>2, <1>4, <2>1, <3>2, TrackSame
      <4> QED  BY <1>4, <3>2, <4>1
    <3> QED  BY <2>4, <3>1, <3>2
  <2>6. \A j \in Affected(r, i) :
            Granted(GetSubresourceState(c.tracked[r], j), after, force) = to
    BY <1>4, <1>7 DEF Granted, to
  <2> QED  BY <2>5, <2>6 DEF Answers
<1> QED  BY <1>6, <1>7

LEMMA EachTransition ==
    ASSUME NEW c, ContextOK(c), c.open, NEW r \in Resource, NEW subset,
           NEW after \in Askable, NEW force \in BOOLEAN,
           NEW d, d = EachSubresource(c, r, subset, after, force)
    PROVE  Answers(c, d, r, subset, after, force)
<1>1. PICK n \in Nat : n = Count[r] /\ Sub(r) = 0 .. n - 1  BY SubIs
<1>2. PICK s : s = Subresources(r)  OBVIOUS
<1>3. s = [m \in 1 .. n |-> m - 1]  BY <1>1, <1>2 DEF Subresources
<1>4. IsList(s) /\ Len(s) = n
  <2>1. s = [m \in 1 .. n |-> s[m]]  BY <1>3
  <2> QED  BY <2>1, ListMake
<1>5. PICK k : k = EachOf(r, subset, after, force)  OBVIOUS
<1>6. ListPasses(k, c, s, d)
  BY <1>2, <1>4, <1>5, FoldEach
<1>7. PICK V : Passes(V, k, c, s) /\ V[n] = d  BY <1>4, <1>6 DEF ListPasses
<1>8. ASSUME NEW m \in Nat, m < n
      PROVE  V[m + 1] = IF m \in subset
                        THEN TransitionSubresource(V[m], r, m, after, force) ELSE V[m]
  <2>1. m \in 0 .. n - 1 /\ m + 1 \in 1 .. n /\ (m + 1) - 1 = m  BY <1>8
  <2>2. s[m + 1] = m  BY <1>3, <2>1
  <2>3. V[m + 1] = Step(k, V[m], s[m + 1])  BY <1>4, <1>7, <2>1 DEF Passes
  <2>4. V[m + 1] = OneOf(V[m], r, m, subset, after, force)
    BY <1>5, <2>2, <2>3 DEF Step, EachOf
  <2> QED  BY <2>4 DEF OneOf
<1>0. \A m \in Nat : \A i : i \in 0 .. (m + 1) - 1 <=> (i \in 0 .. m - 1 \/ i = m)
  <2> SUFFICES ASSUME NEW m \in Nat, NEW i
               PROVE  i \in 0 .. (m + 1) - 1 <=> (i \in 0 .. m - 1 \/ i = m)
    OBVIOUS
  <2> QED  OBVIOUS
<1> DEFINE Below(m) == {i \in subset : i \in 0 .. m - 1}
           U == {m \in 0 .. n : Answers(c, V[m], r, Below(m), after, force)}
<1>9. 0 \in U
  <2>1. V[0] = c  BY <1>7 DEF Passes
  <2>2. \A i : i \notin Below(0)  OBVIOUS
  <2>3. Answers(c, c, r, Below(0), after, force)
    BY <2>2 DEF Answers, Apart
  <2> QED  BY <2>1, <2>3
<1>10. ASSUME NEW m \in Nat, m < n, m \in U  PROVE m + 1 \in U
  <2>1. PICK x : x = V[m]  OBVIOUS
  <2>2. PICK y : y = V[m + 1]  OBVIOUS
  <2>3. Answers(c, x, r, Below(m), after, force)  BY <1>10, <2>1
  <2>4. m \in Sub(r) /\ m \notin 0 .. m - 1 /\ m + 1 \in 0 .. n
    BY <1>1, <1>10
  <2>5. \A i : i \in Below(m + 1) <=> (i \in Below(m) \/ (i = m /\ m \in subset))
    BY <1>0
  <2>6. m \notin Below(m)  BY <2>4
  <2> HIDE DEF Below
  <2>7. Answers(c, y, r, Below(m + 1), after, force)
    <3>1. CASE m \notin subset
      <4>1. y = x  BY <1>8, <1>10, <2>1, <2>2, <3>1
      <4>2. Below(m + 1) = Below(m)  BY <2>5, <3>1
      <4> QED  BY <2>3, <4>1, <4>2
    <3>2. CASE m \in subset
      <4>1. y = TransitionSubresource(x, r, m, after, force)
        BY <1>8, <1>10, <2>1, <2>2, <3>2
      <4>2. Answers(x, y, r, Affected(r, m), after, force)
        BY <2>3, <2>4, <4>1, OneTransition DEF Answers
      <4>3. Affected(r, m) = {m}  BY <2>4, SubIs
      <4>4. y.commands = c.commands /\ Apart(c, y, r)
        BY <2>3, <4>2 DEF Answers, Apart
      <4>5. \A j \in Sub(r) : GetSubresourceState(y.tracked[r], j) =
                IF j \in Below(m + 1)
                THEN Granted(GetSubresourceState(c.tracked[r], j), after, force)
                ELSE GetSubresourceState(c.tracked[r], j)
        BY <2>3, <2>5, <2>6, <3>2, <4>2, <4>3 DEF Answers
      <4> QED  BY <4>2, <4>4, <4>5 DEF Answers
    <3> QED  BY <3>1, <3>2
  <2> QED  BY <2>2, <2>4, <2>7
<1>11. n \in U
  <2>1. n \in 0 .. n  OBVIOUS
  <2> HIDE DEF U
  <2> QED  BY <1>9, <1>10, <2>1, UpTo
<1>12. Answers(c, d, r, Below(n), after, force)  BY <1>7, <1>11
<1>13. \A j \in Sub(r) : j \in Below(n) <=> j \in subset  BY <1>1
<1> QED  BY <1>12, <1>13 DEF Answers

LEMMA JoinedAnswers ==
    ASSUME NEW c, NEW d, NEW r \in Resource, NEW subset, NEW after, NEW force,
           Answers(c, d, r, subset, after, force)
    PROVE  Answers(c, Joined(d, r), r, subset, after, force)
<1>1. PICK e : e = Joined(d, r)  OBVIOUS
<1>2. PICK x : x = CheckAllSubresourceSame(d.tracked[r])  OBVIOUS
<1>3. PICK t : t = d.tracked  OBVIOUS
<1>4. t = [q \in Resource |-> t[q]] /\ StatesOK(r, t[r])
  BY <1>3 DEF Answers, ContextOK, TrackedOK
<1>5. PICK u : u = [t EXCEPT ![r] = x]  OBVIOUS
<1>6. u[r] = x /\ \A q \in Resource : q # r => u[q] = t[q]  BY <1>4, <1>5
<1>7. u = [q \in Resource |-> u[q]]  BY <1>4, <1>5
<1>8. e = [open |-> TRUE, tracked |-> u, pending |-> d.pending,
           commands |-> d.commands, batch |-> d.batch]
  BY <1>1, <1>2, <1>3, <1>5 DEF Joined, Answers, ContextOK, ContextIs
<1>9. /\ e.tracked = u /\ e.pending = d.pending /\ e.batch = d.batch
      /\ e.commands = d.commands
  BY <1>8
<1>10. /\ StatesOK(r, x)
       /\ \A j \in Sub(r) : GetSubresourceState(x, j) = GetSubresourceState(t[r], j)
  BY <1>2, <1>3, <1>4, JoinedIs
<1>11. TrackedOK(u)  BY <1>3, <1>6, <1>7, <1>10 DEF Answers, ContextOK, TrackedOK
<1>12. Rebuilt(d, e)  BY <1>8, <1>9 DEF Rebuilt
<1>13. \A q \in Resource : \A j \in Sub(q) :
          GetSubresourceState(e.tracked[q], j) = GetSubresourceState(d.tracked[q], j)
  BY <1>3, <1>6, <1>9, <1>10
<1>14. ContextOK(e) /\ e.open  BY <1>9, <1>11, <1>12, <1>13, TrackedAlike DEF Answers
<1>15. Apart(c, e, r)  BY <1>3, <1>6, <1>9 DEF Answers, Apart
<1> QED  BY <1>1, <1>9, <1>13, <1>14, <1>15 DEF Answers

-----------------------------------------------------------------------------
(***************************************************************************)
(* What one request does, in whichever way it is asked.                    *)
(***************************************************************************)
RequestOK(q) ==
    \/ q.how = "Flush"
    \/ /\ q.how = "View" /\ q.resource \in Resource /\ q.subset \subseteq Sub(q.resource)
       /\ q.after \in Askable
    \/ /\ q.how = "Index" /\ q.resource \in Resource /\ SubOK(q.resource, q.sub)
       /\ q.after \in Askable

LEMMA RequestIs ==
    /\ \A q \in Requested : RequestOK(q)
    /\ RequestOK(Index(BackBuffer, 0, COMMON)) /\ RequestOK(Flush)
<1>1. RequestOK(Flush)  BY DEF Flush, RequestOK
<1>2. ASSUME NEW r \in Resource, NEW q \in Views(r, RequestStates)  PROVE RequestOK(q)
  <2>1. PICK subset \in SUBSET Sub(r) \ {{}}, after \in RequestStates :
            q = View(r, subset, after)
    BY <1>2 DEF Views
  <2>2. q = [how |-> "View", resource |-> r, subset |-> subset, after |-> after]
    BY <2>1 DEF View
  <2> QED  BY <2>2 DEF RequestOK, Askable
<1>3. ASSUME NEW r \in Resource, NEW q \in Indexes(r, RequestStates)  PROVE RequestOK(q)
  <2>1. PICK i \in Sub(r) \cup {All}, after \in RequestStates : q = Index(r, i, after)
    BY <1>3 DEF Indexes
  <2>2. q = [how |-> "Index", resource |-> r, sub |-> i, after |-> after]
    BY <2>1 DEF Index
  <2> QED  BY <2>2 DEF RequestOK, Askable, SubOK
<1>4. RequestOK(Index(BackBuffer, 0, COMMON))
  <2>1. BackBuffer \in Resource /\ 0 \in Sub(BackBuffer)  BY ResourceAssumption, SubIs
  <2> QED  BY <2>1 DEF RequestOK, Index, Askable, SubOK
<1>5. \A q \in Requested : q = Flush \/ \E r \in Resource :
          q \in Views(r, RequestStates) \/ q \in Indexes(r, RequestStates)
  BY DEF Requested
<1> QED  BY <1>1, <1>2, <1>3, <1>4, <1>5

LEMMA OpenedAnswers ==
    ASSUME NEW c, ContextOK(c), NEW d, NEW r, NEW subset, NEW after, NEW force,
           Answers(GetCommandList(c), d, r, subset, after, force)
    PROVE  Answers(c, d, r, subset, after, force)
<1>1. PICK o : o = GetCommandList(c)  OBVIOUS
<1>2. o.tracked = c.tracked /\ o.commands = c.commands  BY <1>1, Opened
<1> QED  BY <1>1, <1>2 DEF Answers, Apart

\* The states a request is answered with; forced ones start from what the list
\* has not touched, unless the request is for several subresources at once.
LEMMA Asked ==
    ASSUME NEW c, ContextOK(c), NEW q, RequestOK(q), q.how # "Flush",
           NEW d, d = Request(c, q)
    PROVE  /\ q.resource \in Resource /\ Subs(q) \subseteq Sub(q.resource)
           /\ q.after \in Askable
           /\ \E force \in BOOLEAN :
                 /\ Answers(c, d, q.resource, Subs(q), q.after, force)
                 /\ force /\ ByPart(q) => \A j \in Sub(q.resource) :
                        GetSubresourceState(c.tracked[q.resource], j) = TBD
<1>1. PICK r \in Resource : r = q.resource  BY DEF RequestOK
<1>2. PICK after \in Askable : after = q.after  BY DEF RequestOK
<1>3. PICK o : o = GetCommandList(c)  OBVIOUS
<1>4. ContextOK(o) /\ o.open /\ o.tracked = c.tracked  BY <1>3, Opened
<1>5. StatesOK(r, c.tracked[r])  BY DEF ContextOK, TrackedOK
<1>6. Affected(r, All) = Sub(r) /\ All \notin Sub(r)  BY SubIs
<1>7. CASE q.how = "View"
  <2>1. Subs(q) = q.subset /\ q.subset \subseteq Sub(r)
    BY <1>1, <1>7 DEF Subs, RequestOK
  <2>2. d = TransitionView(c, r, q.subset, after)  BY <1>1, <1>2, <1>7 DEF Request
  <2>3. PICK each : each = EachSubresource(o, r, q.subset, after, FALSE)  OBVIOUS
  <2>4. Answers(o, each, r, q.subset, after, FALSE)  BY <1>4, <2>3, EachTransition
  <2>5. Answers(o, d, r, q.subset, after, FALSE)
    <3>1. CASE q.subset = Sub(r) /\ AreAllSubresourcesSame(o.tracked[r])
      <4>1. d = TransitionSubresource(o, r, All, after, FALSE)
        BY <1>3, <2>2, <3>1 DEF TransitionView
      <4>2. Answers(o, d, r, Affected(r, All), after, FALSE)
        BY <1>4, <3>1, <4>1, OneTransition
      <4> QED  BY <1>6, <3>1, <4>2
    <3>2. CASE ~ (q.subset = Sub(r) /\ AreAllSubresourcesSame(o.tracked[r]))
      <4>1. d = each \/ d = Joined(each, r)
        BY <1>3, <2>2, <2>3, <3>2 DEF TransitionView
      <4> QED  BY <2>4, <4>1, JoinedAnswers
    <3> QED  BY <3>1, <3>2
  <2>6. Answers(c, d, r, q.subset, after, FALSE)  BY <1>3, <2>5, OpenedAnswers
  <2> QED  BY <1>1, <1>2, <2>1, <2>6
<1>8. CASE q.how = "Index"
  <2>1. PICK i : i = q.sub  OBVIOUS
  <2>2. Subs(q) = Affected(r, i) /\ SubOK(r, i) /\ Affected(r, i) \subseteq Sub(r)
    BY <1>1, <1>8, <2>1, SubIs DEF Subs, RequestOK
  <2>3. d = TransitionIndex(c, r, i, after)  BY <1>1, <1>2, <1>8, <2>1 DEF Request
  <2>4. CASE i = All /\ ~ AreAllSubresourcesSame(o.tracked[r])
    <3>1. d = Joined(EachSubresource(o, r, Sub(r), after, TRUE), r)
      BY <1>3, <2>3, <2>4 DEF TransitionIndex
    <3>2. Answers(o, d, r, Sub(r), after, TRUE)
      BY <1>4, <3>1, EachTransition, JoinedAnswers
    <3>3. Answers(c, d, r, Sub(r), after, TRUE)  BY <1>3, <3>2, OpenedAnswers
    <3>4. ByPart(q) => Count[r] = 1  BY <1>1, <1>8, <2>1, <2>4 DEF ByPart
    <3>5. ByPart(q) => \A j \in Sub(r) : GetSubresourceState(c.tracked[r], j) = TBD
      BY <1>4, <1>5, <2>4, <3>4, AllSameIs
    <3> QED  BY <1>1, <1>2, <1>6, <2>2, <2>4, <3>3, <3>5
  <2>5. CASE ~ (i = All /\ ~ AreAllSubresourcesSame(o.tracked[r]))
    <3>1. d = TransitionSubresource(o, r, i, after, FALSE)
      BY <1>3, <2>3, <2>5 DEF TransitionIndex
    <3>2. i \in Sub(r) \/ (i = All /\ AreAllSubresourcesSame(o.tracked[r]))
      BY <2>2, <2>5 DEF SubOK
    <3>3. Answers(o, d, r, Affected(r, i), after, FALSE)
      BY <1>4, <3>1, <3>2, OneTransition
    <3>4. Answers(c, d, r, Affected(r, i), after, FALSE)  BY <1>3, <3>3, OpenedAnswers
    <3> QED  BY <1>1, <1>2, <2>2, <3>4
  <2> QED  BY <2>4, <2>5
<1> QED  BY <1>7, <1>8 DEF RequestOK

(***************************************************************************)
(* The states a command asked for hold until it is executed, when its      *)
(* requests agree.                                                         *)
(***************************************************************************)
Serves(state, need) ==
    IF Reads(need) THEN Reads(state) /\ need \subseteq state ELSE state = need

LEMMA ServesAllows ==
    ASSUME NEW state, NEW need, Serves(state, need)
    PROVE  Allows(state, need)
BY DEF Serves, Allows, Reads

LEMMA GrantedServes ==
    ASSUME NEW before, NEW after, NEW force \in BOOLEAN
    PROVE  Serves(Granted(before, after, force), after)
<1>1. PICK state : state = Granted(before, after, force)  OBVIOUS
<1>2. CASE after # COMMON /\ before \cup after \subseteq ReadStates
  <2>1. state = after \/ state = before \cup after
    BY <1>1 DEF Granted, Merged
  <2>2. Reads(after) /\ after \subseteq state /\ state \subseteq ReadStates
    BY <1>2, <2>1 DEF Reads
  <2>3. state # COMMON  BY <1>2, <2>2 DEF COMMON
  <2> QED  BY <1>1, <2>2, <2>3 DEF Serves, Reads
<1>3. CASE ~ (after # COMMON /\ before \cup after \subseteq ReadStates)
  <2>1. state = after  BY <1>1, <1>3 DEF Granted, Merged
  <2> QED  BY <1>1, <2>1 DEF Serves
<1> QED  BY <1>2, <1>3

LEMMA GrantedKeeps ==
    ASSUME NEW before \in Known, NEW need, Reads(need), Serves(before, need),
           NEW after, Reads(after)
    PROVE  Serves(Granted(before, after, FALSE), need)
<1>1. before # TBD  BY StatesApart
<1>2. before \subseteq ReadStates /\ after \subseteq ReadStates /\ after # COMMON
      /\ need \subseteq before /\ need # COMMON
  BY DEF Serves, Reads
<1>3. Granted(before, after, FALSE) = before \cup after
  BY <1>1, <1>2 DEF Granted, Merged
<1>4. PICK state : state = before \cup after  OBVIOUS
<1>5. state \subseteq ReadStates /\ need \subseteq state  BY <1>2, <1>4
<1>6. state # COMMON  BY <1>2, <1>5 DEF COMMON
<1> QED  BY <1>3, <1>4, <1>5, <1>6 DEF Serves, Reads

LEMMA StillServed ==
    ASSUME NEW c, ContextOK(c), NEW p, RequestOK(p), p.how # "Flush",
           NEW q, RequestOK(q), q.how # "Flush", Together(p, q), Together(q, q),
           NEW d, d = Request(c, q),
           NEW j \in Subs(p), NEW s, s = p.resource,
           Serves(GetSubresourceState(c.tracked[s], j), p.after)
    PROVE  Serves(GetSubresourceState(d.tracked[s], j), p.after)
<1>1. PICK r \in Resource : r = q.resource  BY DEF RequestOK
<1>2. /\ Subs(q) \subseteq Sub(r) /\ q.after \in Askable
      /\ \E force \in BOOLEAN :
            /\ Answers(c, d, r, Subs(q), q.after, force)
            /\ force /\ ByPart(q) => \A i \in Sub(r) :
                   GetSubresourceState(c.tracked[r], i) = TBD
  BY <1>1, Asked
<1>3. PICK force \in BOOLEAN :
            /\ Answers(c, d, r, Subs(q), q.after, force)
            /\ force /\ ByPart(q) => \A i \in Sub(r) :
                   GetSubresourceState(c.tracked[r], i) = TBD
  BY <1>2
<1>4. p.after \in Askable /\ s \in Resource /\ j \in Sub(s)
  BY SubIs DEF RequestOK, Subs
<1>5. p.after \in Known /\ q.after \in Known  BY <1>2, <1>4, AskableIs
<1>6. CASE s # r
  BY <1>3, <1>4, <1>6 DEF Answers, Apart
<1>7. CASE s = r /\ j \notin Subs(q)
  BY <1>3, <1>4, <1>7 DEF Answers
<1>8. CASE s = r /\ j \in Subs(q)
  <2>1. PICK before : before = GetSubresourceState(c.tracked[r], j)  OBVIOUS
  <2>2. before \in Tracked
    BY <1>4, <1>8, <2>1 DEF ContextOK, TrackedOK, StatesOK
  <2>3. GetSubresourceState(d.tracked[r], j) = Granted(before, q.after, force)
    BY <1>3, <1>4, <1>8, <2>1 DEF Answers
  <2>4. CASE p.after = q.after
    BY <1>5, <1>8, <2>2, <2>3, <2>4, GrantedServes
  <2>5. CASE p.after # q.after
    <3>1. Reads(p.after) /\ Reads(q.after) /\ ByPart(q)
      BY <1>1, <1>8, <2>5 DEF Together
    <3>2. before \subseteq ReadStates  BY <1>8, <2>1, <3>1 DEF Serves, Reads
    <3>3. before # TBD
      BY <3>2 DEF TBD, ReadStates
    <3>4. force = FALSE  BY <1>3, <1>4, <1>8, <2>1, <3>1, <3>3
    <3>5. before \in Known  BY <2>2, <3>3 DEF Tracked
    <3> QED  BY <1>8, <2>1, <2>3, <3>1, <3>4, <3>5, GrantedKeeps
  <2> QED  BY <2>4, <2>5
<1> QED  BY <1>6, <1>7, <1>8

-----------------------------------------------------------------------------
(***************************************************************************)
(* A command at the end of the list, and all of a command.                 *)
(***************************************************************************)
LEMMA UseIs ==
    ASSUME NEW needs
    PROVE  /\ Use(needs).kind = "Use" /\ Use(needs).needs = needs /\ Legal(Use(needs))
           /\ \A S : Executed(S, Use(needs)) = S
           /\ \A S : (Agreed => \A n \in needs : Allows(S[n.resource][n.sub], n.state))
                         => Finds(S, Use(needs))
<1>1. PICK u : u = Use(needs)  OBVIOUS
<1>2. u.kind = "Use" /\ u.needs = needs  BY <1>1 DEF Use
<1> QED  BY <1>1, <1>2 DEF Legal, Executed, Finds, Touches

LEMMA UseFilled ==
    ASSUME NEW s, IsList(s), NEW needs
    PROVE  /\ IsList(Append(s, Use(needs)))
           /\ Filled(Append(s, Use(needs))) =
                  Filled(s) \cup {r \in Buffer : Filling(r) \in needs}
<1>1. PICK n \in Nat : n = Len(s)  BY ListIs
<1>2. PICK u : u = Use(needs)  OBVIOUS
<1>3. PICK t : t = Append(s, u)  OBVIOUS
<1>4. IsList(t) /\ Len(t) = n + 1 /\ t[n + 1] = u /\ \A k \in 1 .. n : t[k] = s[k]
  BY <1>1, <1>3, ListAppend
<1>5. u.kind = "Use" /\ u.needs = needs  BY <1>2, UseIs
<1>6. \A k : k \in 1 .. n + 1 <=> (k \in 1 .. n \/ k = n + 1)  OBVIOUS
<1>7. ASSUME NEW r \in Buffer
      PROVE  r \in Filled(t) <=> (r \in Filled(s) \/ Filling(r) \in needs)
  <2>1. r \in Filled(t) <=> \E k \in 1 .. n + 1 : t[k].kind = "Use" /\ Filling(r) \in t[k].needs
    BY <1>4 DEF Filled
  <2>2. r \in Filled(s) <=> \E k \in 1 .. n : s[k].kind = "Use" /\ Filling(r) \in s[k].needs
    BY <1>1 DEF Filled
  <2> QED  BY <1>4, <1>5, <1>6, <2>1, <2>2
<1>8. Filled(t) \subseteq Buffer /\ Filled(s) \subseteq Buffer  BY DEF Filled
<1> QED  BY <1>2, <1>3, <1>4, <1>7, <1>8

Fulfilled(c, needs) ==
    /\ c.batch = <<>>
    /\ \A n \in needs :
          /\ n.resource \in Resource /\ n.sub \in Sub(n.resource) /\ n.state \in Known
          /\ Serves(GetSubresourceState(c.tracked[n.resource], n.sub), n.state)

Used(c, needs) == [c EXCEPT !.commands = Append(@, Use(needs))]

LEMMA UseAdded ==
    ASSUME NEW c, ContextOK(c), c.open, NEW needs,
           \A r \in Buffer : Filling(r) \notin needs,
           Agreed => Fulfilled(c, needs),
           NEW d, d = Used(c, needs)
    PROVE  /\ ContextOK(d) /\ d.open /\ d.tracked = c.tracked
           /\ Filled(d.commands) = Filled(c.commands)
<1>1. PICK u : u = Use(needs)  OBVIOUS
<1>2. PICK s : s = Append(c.commands, u)  OBVIOUS
<1>3. d = [open |-> TRUE, tracked |-> c.tracked, pending |-> c.pending,
           commands |-> s, batch |-> c.batch]
  BY <1>1, <1>2 DEF ContextOK, ContextIs, Used
<1>4. /\ d.tracked = c.tracked /\ d.pending = c.pending /\ d.batch = c.batch
      /\ d.commands = s /\ d.open
  BY <1>3
<1>5. IsList(s) /\ Filled(s) = Filled(c.commands)
  <2>1. {r \in Buffer : Filling(r) \in needs} = {}  OBVIOUS
  <2>2. PICK cs : cs = c.commands  OBVIOUS
  <2>3. IsList(cs)  BY <2>2 DEF ContextOK, ContextIs
  <2>4. s = Append(cs, Use(needs))  BY <1>1, <1>2, <2>2
  <2>5. IsList(s) /\ Filled(s) = Filled(cs) \cup {r \in Buffer : Filling(r) \in needs}
    BY <2>3, <2>4, UseFilled
  <2> QED  BY <2>1, <2>2, <2>5
<1>6. ContextIs(d)
  <2>1. d.open = TRUE  BY <1>3
  <2>2. d = [open |-> d.open, tracked |-> d.tracked, pending |-> d.pending,
             commands |-> d.commands, batch |-> d.batch]
    BY <1>3, <1>4, <2>1
  <2> QED  BY <1>4, <1>5, <2>1, <2>2 DEF ContextOK, ContextIs
<1>7. ASSUME NEW S, Meets(S, d.pending, Filled(d.commands))
      PROVE  Runs(d.commands, d.batch, S, After(d.tracked, S))
  <2>1. PICK T : T = After(c.tracked, S)  OBVIOUS
  <2>2. Runs(c.commands, c.batch, S, T)  BY <1>4, <1>5, <1>7, <2>1 DEF ContextOK
  <2>3. PICK M : Chain(c.commands, S, M) /\ Chain(c.batch, M, T)  BY <2>2 DEF Runs
  <2>4. IsStates(S)  BY <1>7 DEF Meets
  <2>5. ASSUME Agreed
        PROVE  \A n \in needs : Allows(M[n.resource][n.sub], n.state)
    <3>0. Fulfilled(c, needs)  BY <2>5
    <3>1. T = M  BY <2>3, <3>0, ChainNone DEF Fulfilled
    <3> SUFFICES ASSUME NEW n \in needs  PROVE Allows(M[n.resource][n.sub], n.state)
      OBVIOUS
    <3>2. PICK r \in Resource, j \in Sub(n.resource), need \in Known :
              r = n.resource /\ j = n.sub /\ need = n.state
      BY <3>0 DEF Fulfilled
    <3>3. PICK state : state = GetSubresourceState(c.tracked[r], j)  OBVIOUS
    <3>4. Serves(state, need) /\ j \in Sub(r)  BY <3>0, <3>2, <3>3 DEF Fulfilled
    <3>5. state # TBD
      <4>1. TBD # need  BY StatesApart
      <4>2. ~ Reads(TBD)  BY DEF Reads, TBD, ReadStates
      <4> QED  BY <3>4, <4>1, <4>2 DEF Serves
    <3>6. T[r][j] = state
      <4>1. TrackedOK(c.tracked)  BY DEF ContextOK
      <4>2. T[r][j] = IF GetSubresourceState(c.tracked[r], j) = TBD THEN S[r][j]
                      ELSE GetSubresourceState(c.tracked[r], j)
        BY <2>1, <2>4, <3>4, <4>1, AfterIs
      <4> QED  BY <3>3, <3>5, <4>2
    <3> QED  BY <3>1, <3>2, <3>4, <3>6, ServesAllows
  <2>6. Legal(u) /\ Executed(M, u) = M /\ Finds(M, u)
    BY <1>1, <2>5, UseIs
  <2>7. Chain(s, S, M)
    <3>1. PICK cs : cs = c.commands  OBVIOUS
    <3>2. Chain(cs, S, M) /\ s = Append(cs, u)  BY <1>2, <2>3, <3>1
    <3>3. Chain(Append(cs, u), S, Executed(M, u))  BY <2>6, <3>2, ChainAppend
    <3> QED  BY <2>6, <3>2, <3>3
  <2> QED  BY <1>4, <2>1, <2>3, <2>7 DEF Runs
<1>8. ContextOK(d)  BY <1>4, <1>5, <1>6, <1>7 DEF ContextOK
<1> QED  BY <1>4, <1>5, <1>8

LEMMA PerformedIs ==
    ASSUME NEW c, ContextOK(c), NEW s, IsList(s), \A k \in 1 .. Len(s) : RequestOK(s[k]),
           Agreed => /\ \A p, q \in ToSet(s) : Together(p, q)
                     /\ s # <<>> /\ Last(s) = Flush,
           NEW d, d = Performed(c, s)
    PROVE  /\ ContextOK(d) /\ d.open /\ Filled(d.commands) = Filled(c.commands)
           /\ \A r \in Resource :
                 (\A k \in 1 .. Len(s) : s[k].how = "Flush" \/ s[k].resource # r)
                     => d.tracked[r] = c.tracked[r]
<1>1. PICK n \in Nat : n = Len(s) /\ DOMAIN s = 1 .. n /\ \A i \in 1 .. n : s[i] \in ToSet(s)
  BY ListIs
<1>2. PICK e : e = FoldLeft(Request, c, s)  OBVIOUS
<1>3. ListPasses([op |-> "request"], c, s, e)  BY <1>2, FoldRequest
<1>4. PICK V : Passes(V, [op |-> "request"], c, s) /\ V[n] = e
  BY <1>1, <1>3 DEF ListPasses
<1>5. ASSUME NEW m \in Nat, m < n  PROVE V[m + 1] = Request(V[m], s[m + 1])
  <2>1. m \in 0 .. n - 1  BY <1>5
  <2>2. V[m + 1] = Step([op |-> "request"], V[m], s[m + 1])
    BY <1>1, <1>4, <2>1 DEF Passes
  <2> QED  BY <2>2 DEF Step
<1> DEFINE Unasked(x, r) == (\A k \in 1 .. n : s[k].how = "Flush" \/ s[k].resource # r)
                               => x.tracked[r] = c.tracked[r]
           Served(x, k) == s[k].how # "Flush" =>
               \A j \in Subs(s[k]) :
                   Serves(GetSubresourceState(x.tracked[s[k].resource], j), s[k].after)
           Good(x, m) ==
               /\ ContextOK(x) /\ Filled(x.commands) = Filled(c.commands)
               /\ \A r \in Resource : Unasked(x, r)
               /\ Agreed => \A k \in 1 .. m : Served(x, k)
               /\ m > 0 /\ s[m] = Flush => x.batch = <<>>
           U == {m \in 0 .. n : Good(V[m], m)}
<1>6. 0 \in U
  <2>1. V[0] = c  BY <1>4 DEF Passes
  <2>2. Good(c, 0)  OBVIOUS
  <2> QED  BY <2>1, <2>2
<1>7. ASSUME NEW m \in Nat, m < n, m \in U  PROVE m + 1 \in U
  <2>1. PICK x : x = V[m]  OBVIOUS
  <2>2. PICK y : y = V[m + 1]  OBVIOUS
  <2>3. PICK l : l = m + 1 /\ l \in 1 .. n /\ l \in 0 .. n /\ l > 0  BY <1>7
  <2>4. PICK q : q = s[l]  OBVIOUS
  <2>5. Good(x, m)  BY <1>7, <2>1
  <2>6. y = Request(x, q)  BY <1>5, <1>7, <2>1, <2>2, <2>3, <2>4
  <2>7. RequestOK(q)  BY <1>1, <2>3, <2>4
  <2>8. \A k \in 1 .. l : k \in 1 .. m \/ k = l  BY <2>3
  <2> SUFFICES Good(y, l)  BY <2>2, <2>3
  <2> HIDE DEF U
  <2>9. CASE q.how = "Flush"
    <3>1. y = FlushResourceBarriers(x)  BY <2>6, <2>9 DEF Request
    <3>2. /\ ContextOK(y) /\ y.tracked = x.tracked
          /\ y.batch = <<>> /\ Filled(y.commands) = Filled(x.commands)
      BY <2>5, <3>1, Flushed
    <3>3. Agreed => \A k \in 1 .. l : Served(y, k)
      <4>1. Agreed => \A k \in 1 .. m : Served(y, k)  BY <2>5, <3>2
      <4>2. Served(y, l)  BY <2>4, <2>9
      <4> HIDE DEF Served
      <4> QED  BY <2>8, <4>1, <4>2
    <3>4. \A r \in Resource : Unasked(y, r)  BY <2>5, <3>2
    <3> QED  BY <2>5, <3>2, <3>3, <3>4
  <2>10. CASE q.how # "Flush"
    <3>1. PICK t \in Resource : t = q.resource  BY <2>7, <2>10 DEF RequestOK
    <3>2. /\ Subs(q) \subseteq Sub(t) /\ q.after \in Askable
          /\ \E force \in BOOLEAN : Answers(x, y, t, Subs(q), q.after, force)
      BY <2>5, <2>6, <2>7, <2>10, <3>1, Asked
    <3>3. PICK force \in BOOLEAN : Answers(x, y, t, Subs(q), q.after, force)
      BY <3>2
    <3>4. ContextOK(y) /\ y.commands = x.commands /\ Apart(x, y, t)
      BY <3>3 DEF Answers
    <3>5. \A r \in Resource : Unasked(y, r)
      <4> SUFFICES ASSUME NEW r \in Resource,
                          \A k \in 1 .. n : s[k].how = "Flush" \/ s[k].resource # r
                   PROVE  y.tracked[r] = c.tracked[r]
        OBVIOUS
      <4>1. r # t  BY <2>3, <2>4, <2>10, <3>1
      <4>2. x.tracked[r] = c.tracked[r]  BY <2>5
      <4> QED  BY <3>4, <4>1, <4>2 DEF Apart
    <3>6. Served(y, l)
      <4> SUFFICES ASSUME NEW j \in Subs(q)
                   PROVE  Serves(GetSubresourceState(y.tracked[t], j), q.after)
        BY <2>4, <3>1
      <4>1. GetSubresourceState(y.tracked[t], j) =
                Granted(GetSubresourceState(x.tracked[t], j), q.after, force)
        BY <3>2, <3>3 DEF Answers
      <4> QED  BY <4>1, GrantedServes
    <3>7. ASSUME Agreed, NEW k \in 1 .. m  PROVE Served(y, k)
      <4>1. k \in 1 .. n  BY <1>7
      <4>2. PICK p : p = s[k]  OBVIOUS
      <4>3. RequestOK(p) /\ Together(p, q) /\ Together(q, q)
        BY <1>1, <2>3, <2>4, <3>7, <4>1, <4>2
      <4> SUFFICES ASSUME p.how # "Flush", NEW j \in Subs(p)
                   PROVE  Serves(GetSubresourceState(y.tracked[p.resource], j), p.after)
        BY <4>2
      <4>4. Serves(GetSubresourceState(x.tracked[p.resource], j), p.after)
        BY <2>5, <3>7, <4>2
      <4> HIDE DEF Good, Served, Unasked
      <4>5. ContextOK(x)  BY <2>5 DEF Good
      <4> QED  BY <2>6, <2>7, <2>10, <4>3, <4>4, <4>5, StillServed
    <3>8. Agreed => \A k \in 1 .. l : Served(y, k)
      <4> HIDE DEF Served
      <4> QED  BY <2>8, <3>6, <3>7
    <3>9. q # Flush  BY <2>10 DEF Flush
    <3> QED  BY <2>5, <3>4, <3>5, <3>8, <3>9, <2>4, <2>3
  <2> QED  BY <2>9, <2>10
<1>8. n \in U
  <2>1. n \in 0 .. n  OBVIOUS
  <2> HIDE DEF U
  <2> QED  BY <1>6, <1>7, <2>1, UpTo
<1>9. Good(e, n)  BY <1>4, <1>8
<1> HIDE DEF U
<1>10. PICK o : o = GetCommandList(e)  OBVIOUS
<1>11. /\ ContextOK(o) /\ o.open /\ o.tracked = e.tracked /\ o.batch = e.batch
       /\ o.commands = e.commands
  BY <1>9, <1>10, Opened
<1>12. PICK needs : needs = Needs(s)  OBVIOUS
<1>13. d = Used(o, needs)
  BY <1>2, <1>10, <1>12 DEF Performed, Used
<1>14. ASSUME NEW w \in needs
       PROVE  \E k \in 1 .. n : /\ s[k].how # "Flush" /\ w.resource = s[k].resource
                                /\ w.state = s[k].after /\ w.sub \in Subs(s[k])
  <2>1. PICK q \in ToSet(s) :
            /\ q.how # "Flush"
            /\ \E j \in Subs(q) :
                  w = [resource |-> q.resource, sub |-> j, state |-> q.after]
    BY <1>12, <1>14 DEF Needs, Subs
  <2>2. PICK k \in 1 .. n : q = s[k]  BY <1>1 DEF ToSet
  <2> QED  BY <2>1, <2>2
<1>15. ASSUME NEW k \in 1 .. n, s[k].how # "Flush"
       PROVE  /\ s[k].resource \in Resource /\ Subs(s[k]) \subseteq Sub(s[k].resource)
              /\ s[k].after \in Askable
  <2>1. RequestOK(s[k])  BY <1>1
  <2> QED  BY <1>15, <2>1, SubIs DEF RequestOK, Subs
<1>16. \A r \in Buffer : Filling(r) \notin needs
  <2> SUFFICES ASSUME NEW r \in Buffer, Filling(r) \in needs  PROVE FALSE
    OBVIOUS
  <2>1. Filling(r).state = {"COPY_DEST"}  BY DEF Filling
  <2>2. {"COPY_DEST"} \in Askable  BY <1>14, <1>15, <2>1
  <2> QED  BY <2>2, AskableIs
<1>17. ASSUME Agreed  PROVE Fulfilled(o, needs)
  <2>1. n > 0 /\ s[n] = Flush
    <3>1. s # <<>> /\ Last(s) = Flush  BY <1>17
    <3>2. Len(s) \in Nat \ {0} /\ Last(s) = s[Len(s)]  BY <3>1, ListFront
    <3> QED  BY <1>1, <3>1, <3>2
  <2>2. \A w \in needs :
                    /\ w.resource \in Resource /\ w.sub \in Sub(w.resource)
                    /\ w.state \in Known
                    /\ Serves(GetSubresourceState(o.tracked[w.resource], w.sub), w.state)
    <3> SUFFICES ASSUME NEW w \in needs
                 PROVE  /\ w.resource \in Resource /\ w.sub \in Sub(w.resource)
                        /\ w.state \in Known
                        /\ Serves(GetSubresourceState(o.tracked[w.resource], w.sub), w.state)
      OBVIOUS
    <3>1. PICK k \in 1 .. n : /\ s[k].how # "Flush" /\ w.resource = s[k].resource
                              /\ w.state = s[k].after /\ w.sub \in Subs(s[k])
      BY <1>14
    <3>2. Served(e, k)  BY <1>9, <1>17
    <3> QED  BY <1>11, <1>15, <3>1, <3>2, AskableIs
  <2> QED  BY <1>9, <1>11, <2>1, <2>2 DEF Fulfilled
<1>18. /\ ContextOK(d) /\ d.open /\ d.tracked = o.tracked
       /\ Filled(d.commands) = Filled(o.commands)
  BY <1>11, <1>13, <1>16, <1>17, UseAdded
<1> QED  BY <1>1, <1>9, <1>11, <1>18

-----------------------------------------------------------------------------
(***************************************************************************)
(* The other calls on the context: a buffer is filled, a barrier for       *)
(* unordered accesses, and the list is closed.                             *)
(***************************************************************************)
Drained(c) == c.open /\ c.batch = <<>>

Untouched(l, r) == GetSubresourceState(l.tracked[r], 0) = TBD

Initialized(c, r) ==
    AddTransitionBarrier(Used(c, {Filling(r)}), r, {"COPY_DEST"}, GENERIC_READ, All)

LEMMA BufferFilled ==
    ASSUME NEW c, ContextOK(c), Drained(c), NEW r \in Buffer, Untouched(c, r),
           NEW d, d = Initialized(c, r)
    PROVE  /\ ContextOK(d) /\ d.open /\ Apart(c, d, r)
           /\ Filled(d.commands) = Filled(c.commands) \cup {r}
<1> DEFINE fill == {"COPY_DEST"}
<1>1. r \in Resource /\ SubOK(r, All) /\ Sub(r) = {0} /\ Affected(r, All) = {0}
  <2>1. r \in Resource /\ Count[r] = 1  BY ResourceAssumption, CountAssumption
  <2> QED  BY <2>1, SubIs DEF SubOK
<1>2. fill \in Known /\ GENERIC_READ \in Known /\ fill # GENERIC_READ
  <2>1. "COPY_DEST" \notin ReadStates  BY DEF ReadStates
  <2>2. "COPY_DEST" \in Flags /\ ReadStates \subseteq Flags  BY DEF Flags
  <2> QED  BY <2>1, <2>2 DEF Known, GENERIC_READ
<1> HIDE DEF fill
<1>3. PICK u : u = Use({Filling(r)})  OBVIOUS
<1>4. PICK cs : cs = c.commands  OBVIOUS
<1>5. PICK s : s = Append(cs, u)  OBVIOUS
<1>6. IsList(s) /\ Filled(s) = Filled(cs) \cup {r}
  <2>1. IsList(cs)  BY <1>4 DEF ContextOK, ContextIs
  <2>2. {q \in Buffer : Filling(q) \in {Filling(r)}} = {r}
    <3>1. \A q : Filling(q).resource = q  BY DEF Filling
    <3>2. \A q : Filling(q) = Filling(r) => q = r  BY <3>1
    <3> QED  BY <3>2
  <2>3. Filled(s) = Filled(cs) \cup {q \in Buffer : Filling(q) \in {Filling(r)}}
    BY <1>3, <1>5, <2>1, UseFilled
  <2> QED  BY <1>3, <1>5, <2>1, <2>2, <2>3, UseFilled
<1>7. PICK tr : tr = Transition(r, All, fill, GENERIC_READ)  OBVIOUS
<1>0. PICK none : none = <<>>  OBVIOUS
<1>8. PICK b : b = Append(none, tr)  OBVIOUS
<1>9. IsList(b) /\ Len(b) = 1 /\ b[1] = tr
  <2>1. IsList(none) /\ Len(none) = 0  BY <1>0, EmptyList
  <2>2. IsList(b) /\ Len(b) = 0 + 1 /\ b[0 + 1] = tr  BY <1>8, <2>1, ListAppend
  <2> QED  BY <2>2
<1>10. /\ tr.kind = "Transition" /\ tr.before = fill /\ tr.after = GENERIC_READ /\ Legal(tr)
       /\ \A q, j : Touches(tr, q, j) <=> q = r /\ j = 0
  BY <1>1, <1>2, <1>7, TransitionIs
<1>11. PICK f : f = [open |-> TRUE, tracked |-> c.tracked, pending |-> c.pending,
                     commands |-> s, batch |-> b]
  OBVIOUS
<1>12. /\ f.open /\ f.tracked = c.tracked /\ f.pending = c.pending
       /\ f.commands = s /\ f.batch = b
  BY <1>11
<1>13. d = Track(f, r, All, GENERIC_READ)
  <2>1. PICK e : e = Used(c, {Filling(r)})  OBVIOUS
  <2>2. PICK t : t = c.tracked  OBVIOUS
  <2>3. PICK p : p = c.pending  OBVIOUS
  <2>4. e = [open |-> TRUE, tracked |-> t, pending |-> p, commands |-> s, batch |-> none]
    BY <1>0, <1>3, <1>4, <1>5, <2>1, <2>2, <2>3 DEF Used, ContextOK, ContextIs, Drained
  <2>5. e.batch = none  BY <2>4
  <2>6. AddTransition(none, r, fill, GENERIC_READ, All) = b
    BY <1>0, <1>7, <1>8 DEF AddTransition
  <2>7. d = Track([e EXCEPT !.batch = AddTransition(@, r, fill, GENERIC_READ, All)],
                  r, All, GENERIC_READ)
    BY <1>2, <2>1 DEF AddTransitionBarrier, Initialized, fill
  <2>8. [e EXCEPT !.batch = AddTransition(@, r, fill, GENERIC_READ, All)] = [e EXCEPT !.batch = b]
    BY <2>5, <2>6
  <2>9. [e EXCEPT !.batch = b] =
            [open |-> TRUE, tracked |-> t, pending |-> p, commands |-> s, batch |-> b]
    <3>1. /\ e.open = TRUE /\ e.tracked = t /\ e.pending = p /\ e.commands = s
      BY <2>4
    <3>2. e = [open |-> e.open, tracked |-> e.tracked, pending |-> e.pending,
               commands |-> e.commands, batch |-> e.batch]
      BY <2>4, <2>5, <3>1
    <3>3. [e EXCEPT !.batch = b] = [open |-> e.open, tracked |-> e.tracked,
              pending |-> e.pending, commands |-> e.commands, batch |-> b]
      BY <3>2
    <3> QED  BY <3>1, <3>3
  <2>10. f = [open |-> TRUE, tracked |-> t, pending |-> p, commands |-> s, batch |-> b]
    BY <1>11, <2>2, <2>3
  <2> QED  BY <2>7, <2>8, <2>9, <2>10
<1>14. ContextIs(f)
  <2>1. \A k \in 1 .. Len(f.batch) : f.batch[k].kind # "Use"
    <3>1. \A k \in 1 .. 1 : k = 1  OBVIOUS
    <3> QED  BY <1>9, <1>10, <1>12, <3>1
  <2>2. f.open = TRUE /\ IsList(f.commands) /\ IsList(f.batch)  BY <1>6, <1>9, <1>11, <1>12
  <2>3. f = [open |-> f.open, tracked |-> f.tracked, pending |-> f.pending,
             commands |-> f.commands, batch |-> f.batch]
    BY <1>11
  <2> QED  BY <2>1, <2>2, <2>3 DEF ContextIs
<1>15. /\ Rebuilt(f, d) /\ d.pending = f.pending /\ d.batch = f.batch /\ d.open
       /\ TrackedOK(d.tracked) /\ Apart(f, d, r)
       /\ \A j \in Sub(r) : GetSubresourceState(d.tracked[r], j) =
             IF j \in Affected(r, All) THEN GENERIC_READ
             ELSE GetSubresourceState(f.tracked[r], j)
  <2>1. TrackedOK(f.tracked)  BY <1>12 DEF ContextOK
  <2>2. GENERIC_READ \in Tracked  BY <1>2 DEF Tracked
  <2> QED  BY <1>1, <1>12, <1>13, <1>14, <2>1, <2>2, TrackIs
<1>16. d.pending = c.pending /\ d.batch = b /\ d.commands = s
  BY <1>12, <1>15 DEF Rebuilt
<1>24. Apart(c, d, r)
  BY <1>12, <1>15 DEF Apart
<1>25. GetSubresourceState(d.tracked[r], 0) = GENERIC_READ /\ GENERIC_READ # TBD
  BY <1>1, <1>2, <1>15, StatesApart
<1>26. TrackedOK(d.tracked)  BY <1>15
<1>17. ContextIs(d)  BY <1>12, <1>14, <1>15, RebuiltIs DEF ContextIs
<1>18. \A q \in Resource : \A j \in Sub(q) :
          GetSubresourceState(c.tracked[q], j) # TBD =>
              GetSubresourceState(d.tracked[q], j) # TBD
  <2> SUFFICES ASSUME NEW q \in Resource, NEW j \in Sub(q),
                      GetSubresourceState(c.tracked[q], j) # TBD
               PROVE  GetSubresourceState(d.tracked[q], j) # TBD
    OBVIOUS
  <2>1. CASE q # r
    <3>1. d.tracked[q] = c.tracked[q]  BY <1>24, <2>1 DEF Apart
    <3> QED  BY <3>1
  <2>2. CASE q = r
    <3>1. j = 0  BY <1>1, <2>2
    <3> QED  BY <1>25, <2>2, <3>1
  <2> QED  BY <2>1, <2>2
<1>19. PendingOK(d.pending, d.tracked)
  BY <1>16, <1>18 DEF ContextOK, PendingOK
<1>20. \A k \in 1 .. Len(c.pending) : c.pending[k].resource # r
  BY <1>1 DEF ContextOK, PendingOK, Untouched
<1>21. FilledOK(d.pending, d.tracked, Filled(d.commands))
  <2>1. \A q \in Buffer : q \in Resource /\ 0 \in Sub(q)  BY ResourceAssumption, SubIs
  <2>2. Filled(cs) \subseteq Buffer  BY DEF Filled
  <2>3. FilledOK(c.pending, c.tracked, Filled(cs))  BY <1>4 DEF ContextOK
  <2>4. \A q \in Filled(cs) : GetSubresourceState(d.tracked[q], 0) # TBD
    BY <1>18, <2>1, <2>2, <2>3 DEF FilledOK
  <2>5. GetSubresourceState(d.tracked[r], 0) # TBD  BY <1>25
  <2>6. Filled(d.commands) = Filled(cs) \cup {r} /\ d.pending = c.pending  BY <1>6, <1>16
  <2>7. ASSUME NEW q \in Filled(d.commands)
        PROVE  /\ GetSubresourceState(d.tracked[q], 0) # TBD
               /\ \A k \in 1 .. Len(c.pending) : c.pending[k].resource # q
    <3>1. CASE q = r  BY <1>20, <2>5, <3>1
    <3>2. CASE q \in Filled(cs)  BY <2>3, <2>4, <3>2 DEF FilledOK
    <3> QED  BY <2>6, <3>1, <3>2
  <2> QED  BY <2>6, <2>7 DEF FilledOK
<1>22. ASSUME NEW S, Meets(S, d.pending, Filled(d.commands))
       PROVE  Runs(d.commands, d.batch, S, After(d.tracked, S))
  <2>1. Meets(S, c.pending, Filled(cs)) /\ IsStates(S) /\ S[r][0] = fill
    BY <1>6, <1>16, <1>22 DEF Meets, fill
  <2>2. PICK T : T = After(c.tracked, S)  OBVIOUS
  <2>3. PICK U : U = After(d.tracked, S)  OBVIOUS
  <2>4. Runs(cs, <<>>, S, T)  BY <1>4, <2>1, <2>2 DEF ContextOK, Drained
  <2>5. Chain(cs, S, T)
    <3>1. PICK M : Chain(cs, S, M) /\ Chain(<<>>, M, T)  BY <2>4 DEF Runs
    <3> QED  BY <3>1, ChainNone
  <2>6. /\ IsStates(T) /\ IsStates(U)
        /\ \A q \in Resource : \A j \in Sub(q) :
              T[q][j] = IF GetSubresourceState(c.tracked[q], j) = TBD THEN S[q][j]
                        ELSE GetSubresourceState(c.tracked[q], j)
        /\ \A q \in Resource : \A j \in Sub(q) :
              U[q][j] = IF GetSubresourceState(d.tracked[q], j) = TBD THEN S[q][j]
                        ELSE GetSubresourceState(d.tracked[q], j)
    BY <1>26, <2>1, <2>2, <2>3, AfterIs DEF ContextOK
  <2>7. T[r][0] = fill  BY <1>1, <2>1, <2>6 DEF Untouched
  <2>8. Chain(s, S, T)
    <3>1. fill # COMMON /\ ~ (fill \subseteq ReadStates)
      BY DEF fill, COMMON, ReadStates
    <3>2. \A n \in {Filling(r)} : Allows(T[n.resource][n.sub], n.state)
      <4>1. Filling(r).resource = r /\ Filling(r).sub = 0 /\ Filling(r).state = fill
        BY DEF Filling, fill
      <4> QED  BY <2>7, <3>1, <4>1 DEF Allows
    <3>3. Legal(u) /\ Executed(T, u) = T /\ Finds(T, u)  BY <1>3, <3>2, UseIs
    <3>4. Chain(Append(cs, u), S, Executed(T, u))  BY <2>5, <3>3, ChainAppend
    <3> QED  BY <1>5, <3>3, <3>4
  <2>9. Finds(T, tr)  BY <1>10, <2>7 DEF Finds
  <2>10. Chain(b, T, Executed(T, tr))
    <3>1. Chain(none, T, T)  BY <1>0, <2>6, ChainEmpty
    <3> QED  BY <1>8, <1>10, <2>9, <3>1, ChainAppend
  <2>11. U = Executed(T, tr)
    <3>1. /\ IsStates(Executed(T, tr))
          /\ \A q \in Resource : \A j \in Sub(q) :
                Executed(T, tr)[q][j] = IF q = r /\ j = 0 THEN GENERIC_READ ELSE T[q][j]
      BY <1>10, <2>6, ExecutedIs
    <3>2. \A q \in Resource : \A j \in Sub(q) : U[q][j] = Executed(T, tr)[q][j]
      <4> SUFFICES ASSUME NEW q \in Resource, NEW j \in Sub(q)
                   PROVE  U[q][j] = Executed(T, tr)[q][j]
        OBVIOUS
      <4>1. CASE q # r
        <5>1. d.tracked[q] = c.tracked[q]  BY <1>24, <4>1 DEF Apart
        <5> QED  BY <2>6, <3>1, <4>1, <5>1
      <4>2. CASE q = r
        <5>1. j = 0  BY <1>1, <4>2
        <5>2. U[r][0] = GENERIC_READ  BY <1>1, <1>25, <2>6
        <5> QED  BY <1>1, <3>1, <4>2, <5>1, <5>2
      <4> QED  BY <4>1, <4>2
    <3> QED  BY <2>6, <3>1, <3>2, StatesEqual
  <2> QED  BY <1>16, <2>3, <2>8, <2>10, <2>11 DEF Runs
<1>23. ContextOK(d)  BY <1>26, <1>17, <1>19, <1>21, <1>22 DEF ContextOK
<1> QED  BY <1>4, <1>6, <1>15, <1>16, <1>23, <1>24

LEMMA UAVBarrierAdded ==
    ASSUME NEW c, ContextOK(c), NEW d, d = [c EXCEPT !.batch = Append(@, UAVBarrier)]
    PROVE  /\ ContextOK(d) /\ d.tracked = c.tracked /\ d.commands = c.commands
<1>1. PICK cb : cb = c.batch  OBVIOUS
<1>2. PICK b : b = Append(cb, UAVBarrier)  OBVIOUS
<1>3. d = [open |-> c.open, tracked |-> c.tracked, pending |-> c.pending,
           commands |-> c.commands, batch |-> b]
  BY <1>1, <1>2 DEF ContextOK, ContextIs
<1>4. /\ d.open = c.open /\ d.tracked = c.tracked /\ d.pending = c.pending
      /\ d.commands = c.commands /\ d.batch = b
  BY <1>3
<1>5. PICK n \in Nat : n = Len(cb)  BY <1>1, ListIs DEF ContextOK, ContextIs
<1>6. IsList(b) /\ Len(b) = n + 1 /\ b[n + 1] = UAVBarrier /\ \A k \in 1 .. n : b[k] = cb[k]
  BY <1>1, <1>2, <1>5, ListAppend DEF ContextOK, ContextIs
<1>7. UAVBarrier.kind = "UAV"  BY DEF UAVBarrier
<1>8. \A k \in 1 .. Len(b) : b[k].kind # "Use"
  <2>1. \A k \in 1 .. n + 1 : k \in 1 .. n \/ k = n + 1  OBVIOUS
  <2>2. \A k \in 1 .. n : cb[k].kind # "Use"  BY <1>1, <1>5 DEF ContextOK, ContextIs
  <2> QED  BY <1>6, <1>7, <2>1, <2>2
<1>9. ContextIs(d)
  <2>1. ~ d.open => d = Closed(d.batch)
    <3>1. SUFFICES ASSUME ~ d.open  PROVE d = Closed(b)
      BY <1>4
    <3>2. c = Closed(cb)  BY <1>1, <1>4, <3>1 DEF ContextOK, ContextIs
    <3>3. c = [open |-> FALSE, tracked |-> [r \in Resource |-> Initialize(r, TBD)],
               pending |-> <<>>, commands |-> <<>>, batch |-> cb]
      BY <3>2 DEF Closed
    <3>4. /\ c.open = FALSE /\ c.tracked = [r \in Resource |-> Initialize(r, TBD)]
          /\ c.pending = <<>> /\ c.commands = <<>>
      BY <3>3
    <3> QED  BY <1>3, <3>4 DEF Closed
  <2>2. d = [open |-> d.open, tracked |-> d.tracked, pending |-> d.pending,
             commands |-> d.commands, batch |-> d.batch]
    BY <1>3
  <2> QED  BY <1>4, <1>6, <1>8, <2>1, <2>2 DEF ContextOK, ContextIs
<1>10. ASSUME NEW S, Meets(S, d.pending, Filled(d.commands))
       PROVE  Runs(d.commands, d.batch, S, After(d.tracked, S))
  <2>1. PICK T : T = After(c.tracked, S)  OBVIOUS
  <2>2. PICK M : Chain(c.commands, S, M) /\ Chain(cb, M, T)
    BY <1>1, <1>4, <1>10, <2>1 DEF ContextOK, Runs
  <2>3. Legal(UAVBarrier) /\ Finds(T, UAVBarrier) /\ Executed(T, UAVBarrier) = T
    BY <1>7 DEF Legal, Finds, Touches, Executed
  <2>4. Chain(Append(cb, UAVBarrier), M, Executed(T, UAVBarrier))
    BY <2>2, <2>3, ChainAppend
  <2> QED  BY <1>2, <1>4, <2>1, <2>2, <2>3, <2>4 DEF Runs
<1>11. ContextOK(d)  BY <1>4, <1>9, <1>10 DEF ContextOK
<1> QED  BY <1>4, <1>11

AsContext(l) ==
    [open |-> TRUE, tracked |-> l.tracked, pending |-> l.pending,
     commands |-> l.commands, batch |-> <<>>]

LEMMA ListClosed ==
    ASSUME NEW c, ContextOK(c), NEW l, l = CloseCommandList(c)
    PROVE  /\ ContextOK(AsContext(l)) /\ l.tracked = c.tracked
           /\ Filled(l.commands) = Filled(c.commands)
<1>1. PICK d : d = FlushResourceBarriers(c)  OBVIOUS
<1>2. /\ ContextOK(d) /\ d.tracked = c.tracked /\ d.batch = <<>>
      /\ Filled(d.commands) = Filled(c.commands)
  BY <1>1, Flushed
<1>3. l = [tracked |-> d.tracked, pending |-> d.pending, commands |-> d.commands]
  BY <1>1 DEF CloseCommandList
<1>4. PICK o : o = GetCommandList(d)  OBVIOUS
<1>5. ContextOK(o)  BY <1>2, <1>4, Opened
<1>6. o = [open |-> TRUE, tracked |-> d.tracked, pending |-> d.pending,
           commands |-> d.commands, batch |-> d.batch]
  BY <1>2, <1>4 DEF GetCommandList, ContextOK, ContextIs
<1>7. l.tracked = d.tracked /\ l.pending = d.pending /\ l.commands = d.commands
  BY <1>3
<1>8. AsContext(l) = o  BY <1>2, <1>6, <1>7 DEF AsContext
<1> QED  BY <1>2, <1>5, <1>7, <1>8

-----------------------------------------------------------------------------
(***************************************************************************)
(* The submission thread: the barriers in front of a list, and the states  *)
(* tracked on the resources after it.                                      *)
(***************************************************************************)
ResourcesOK(states) ==
    /\ states = [r \in Resource |-> states[r]]
    /\ \A r \in Resource : /\ StatesOK(r, states[r])
                           /\ \A i \in Sub(r) : GetSubresourceState(states[r], i) \in Known

Of(states) == [r \in Resource |-> [i \in Sub(r) |-> GetSubresourceState(states[r], i)]]

LEMMA OfIs ==
    ASSUME NEW states, ResourcesOK(states)
    PROVE  /\ IsStates(Of(states))
           /\ \A r \in Resource : \A i \in Sub(r) :
                 Of(states)[r][i] = GetSubresourceState(states[r], i)
<1>1. PICK S : S = Of(states)  OBVIOUS
<1>2. \A r \in Resource : \A i \in Sub(r) : S[r][i] = GetSubresourceState(states[r], i)
  BY <1>1 DEF Of
<1>3. S = [r \in Resource |-> [i \in Sub(r) |-> S[r][i]]]  BY <1>1 DEF Of
<1>4. \A r \in Resource : \A i \in Sub(r) : S[r][i] \in Known
  BY <1>2 DEF ResourcesOK
<1>5. IsStates(S)  BY <1>3, <1>4 DEF IsStates
<1> QED  BY <1>1, <1>2, <1>5

LEMMA StatesAfter ==
    ASSUME NEW r \in Resource, NEW rs, StatesOK(r, rs), NEW l, StatesOK(r, l),
           NEW new, new = StateAfter(r, rs, l)
    PROVE  /\ StatesOK(r, new)
           /\ \A i \in Sub(r) : GetSubresourceState(new, i) =
                  IF GetSubresourceState(l, i) = TBD THEN GetSubresourceState(rs, i)
                  ELSE GetSubresourceState(l, i)
<1>1. CASE AreAllSubresourcesSame(l)
  <2>1. PICK state : state = GetSubresourceState(l, All)  OBVIOUS
  <2>2. state \in Known /\ \A i \in Sub(r) : GetSubresourceState(l, i) = state
    BY <1>1, <2>1, AllSameIs
  <2>3. l.whole = state
    BY <1>1, <2>1 DEF AreAllSubresourcesSame, GetSubresourceState
  <2>4. new = SetResourceState(rs, state)  BY <1>1, <2>3 DEF StateAfter
  <2>5. DOMAIN rs.subs = Sub(r) /\ state \in Tracked /\ state # TBD
    BY <2>2, StatesApart DEF StatesOK, Tracked
  <2>6. PICK x : x = SetResourceState(rs, state)  OBVIOUS
  <2>7. StatesOK(r, x) /\ \A i : GetSubresourceState(x, i) = state
    BY <2>5, <2>6, WholeSet
  <2> QED  BY <2>2, <2>4, <2>5, <2>6, <2>7
<1>2. CASE ~ AreAllSubresourcesSame(l)
  <2>1. PICK n \in Nat : n = Count[r] /\ Sub(r) = 0 .. n - 1  BY SubIs
  <2>2. PICK s : s = Subresources(r)  OBVIOUS
  <2>3. s = [m \in 1 .. n |-> m - 1]  BY <2>1, <2>2 DEF Subresources
  <2>4. IsList(s) /\ Len(s) = n
    <3>1. s = [m \in 1 .. n |-> s[m]]  BY <2>3
    <3> QED  BY <3>1, ListMake
  <2>5. PICK k : k = [op |-> "after", list |-> l]  OBVIOUS
  <2>6. ListPasses(k, rs, s, new)  BY <1>2, <2>2, <2>4, <2>5, FoldAfter
  <2>7. PICK V : Passes(V, k, rs, s) /\ V[n] = new  BY <2>4, <2>6 DEF ListPasses
  <2>8. ASSUME NEW m \in Nat, m < n  PROVE V[m + 1] = OneAfter(V[m], l, m)
    <3>1. m \in 0 .. n - 1 /\ m + 1 \in 1 .. n /\ (m + 1) - 1 = m  BY <2>8
    <3>2. s[m + 1] = m  BY <2>3, <3>1
    <3>3. V[m + 1] = Step(k, V[m], s[m + 1])  BY <2>4, <2>7, <3>1 DEF Passes
    <3> QED  BY <2>5, <3>2, <3>3 DEF Step
  <2> DEFINE At(x, m) ==
                 /\ StatesOK(r, x)
                 /\ \A i \in Sub(r) : GetSubresourceState(x, i) =
                        IF i \in 0 .. m - 1 /\ GetSubresourceState(l, i) # TBD
                        THEN GetSubresourceState(l, i) ELSE GetSubresourceState(rs, i)
             U == {m \in 0 .. n : At(V[m], m)}
  <2>9. 0 \in U
    <3>1. V[0] = rs  BY <2>7 DEF Passes
    <3>2. 0 .. 0 - 1 = {}  OBVIOUS
    <3> QED  BY <3>1, <3>2
  <2>10. ASSUME NEW m \in Nat, m < n, m \in U  PROVE m + 1 \in U
    <3>1. PICK x : x = V[m]  OBVIOUS
    <3>2. PICK y : y = V[m + 1]  OBVIOUS
    <3>3. At(x, m)  BY <2>10, <3>1
    <3>4. m \in Sub(r) /\ m + 1 \in 0 .. n  BY <2>1, <2>10
    <3>5. PICK state : state = GetSubresourceState(l, m)  OBVIOUS
    <3>6. state \in Tracked  BY <3>4, <3>5 DEF StatesOK
    <3>7. y = IF state = TBD THEN x ELSE SetSubresourceState(x, m, state)
      BY <2>8, <2>10, <3>1, <3>2, <3>5 DEF OneAfter
    <3>8. /\ StatesOK(r, y)
          /\ \A i \in Sub(r) : GetSubresourceState(y, i) =
                 IF i = m /\ state # TBD THEN state ELSE GetSubresourceState(x, i)
      <4>1. CASE state = TBD
        BY <3>3, <3>7, <4>1
      <4>2. CASE state # TBD
        <5>1. Affected(r, m) = {m} /\ SubOK(r, m)  BY <3>4, SubIs DEF SubOK
        <5>2. PICK z : z = SetSubresourceState(x, m, state)  OBVIOUS
        <5>3. /\ StatesOK(r, z)
              /\ \A i \in Sub(r) : GetSubresourceState(z, i) =
                     IF i \in Affected(r, m) THEN state ELSE GetSubresourceState(x, i)
          BY <3>3, <3>6, <5>1, <5>2, OneSet
        <5> QED  BY <3>7, <4>2, <5>1, <5>2, <5>3
      <4> QED  BY <4>1, <4>2
    <3>9. ASSUME NEW i \in Sub(r)
          PROVE  i \in 0 .. (m + 1) - 1 <=> (i \in 0 .. m - 1 \/ i = m)
      BY <2>1
    <3>10. m \notin 0 .. m - 1  OBVIOUS
    <3>11. \A i \in Sub(r) : GetSubresourceState(y, i) =
                        IF i \in 0 .. (m + 1) - 1 /\ GetSubresourceState(l, i) # TBD
                        THEN GetSubresourceState(l, i) ELSE GetSubresourceState(rs, i)
      BY <3>3, <3>5, <3>8, <3>9, <3>10
    <3> QED  BY <3>2, <3>4, <3>8, <3>11
  <2>11. n \in U
    <3>1. n \in 0 .. n  OBVIOUS
    <3> HIDE DEF U
    <3> QED  BY <2>9, <2>10, <3>1, UpTo
  <2> QED  BY <2>1, <2>7, <2>11
<1> QED  BY <1>1, <1>2

ListOK(l) == ContextOK(AsContext(l))

LEMMA ListOKIs ==
    ASSUME NEW l, ListOK(l)
    PROVE  /\ TrackedOK(l.tracked) /\ PendingOK(l.pending, l.tracked)
           /\ FilledOK(l.pending, l.tracked, Filled(l.commands))
           /\ \A S : Meets(S, l.pending, Filled(l.commands)) =>
                         Chain(l.commands, S, After(l.tracked, S))
<1>1. PICK c : c = AsContext(l)  OBVIOUS
<1>2. /\ c.tracked = l.tracked /\ c.pending = l.pending /\ c.commands = l.commands
      /\ c.batch = <<>> /\ ContextOK(c)
  BY <1>1 DEF ListOK, AsContext
<1>3. ASSUME NEW S, Meets(S, l.pending, Filled(l.commands))
      PROVE  Chain(l.commands, S, After(l.tracked, S))
  <2>1. PICK T : T = After(l.tracked, S)  OBVIOUS
  <2>2. Runs(c.commands, c.batch, S, T)  BY <1>2, <1>3, <2>1 DEF ContextOK
  <2>3. PICK M : Chain(c.commands, S, M) /\ Chain(c.batch, M, T)  BY <2>2 DEF Runs
  <2>4. T = M  BY <1>2, <2>3, ChainNone
  <2> QED  BY <1>2, <2>1, <2>3, <2>4
<1> QED  BY <1>2, <1>3 DEF ContextOK

\* From the tracked states, the barriers bring the resources to what is pending.
LEMMA PendingChain ==
    ASSUME ResourcesOK(onResource), NEW pending, NEW tracked, PendingOK(pending, tracked),
           NEW b, b = FoldLeft(PendingBarrier, <<>>, pending),
           NEW S, S = Of(onResource)
    PROVE  \E T : /\ Chain(b, S, T)
                  /\ \A k \in 1 .. Len(pending) :
                        T[pending[k].resource][pending[k].sub] = pending[k].state
                  /\ \A r \in Resource : \A i \in Sub(r) :
                        (\A k \in 1 .. Len(pending) :
                             ~ (pending[k].resource = r /\ pending[k].sub = i))
                            => T[r][i] = S[r][i]
<1>1. PICK n \in Nat : n = Len(pending)  BY ListIs DEF PendingOK
<1>2. PICK none : none = <<>>  OBVIOUS
<1>3. ListPasses([op |-> "pending"], none, pending, b)
  BY <1>2, FoldPending DEF PendingOK
<1>4. PICK V : Passes(V, [op |-> "pending"], none, pending) /\ V[n] = b
  BY <1>1, <1>3 DEF ListPasses
<1>5. ASSUME NEW m \in Nat, m < n  PROVE V[m + 1] = PendingBarrier(V[m], pending[m + 1])
  <2>1. m \in 0 .. n - 1  BY <1>5
  <2>2. V[m + 1] = Step([op |-> "pending"], V[m], pending[m + 1])
    BY <1>1, <1>4, <2>1 DEF Passes
  <2> QED  BY <2>2 DEF Step
<1>6. /\ IsStates(S)
      /\ \A r \in Resource : \A i \in Sub(r) : S[r][i] = GetSubresourceState(onResource[r], i)
  BY OfIs
<1> DEFINE Names(k, r, i) == pending[k].resource = r /\ pending[k].sub = i
           Good(x, m, T) ==
               /\ Chain(x, S, T)
               /\ \A k \in 1 .. m : T[pending[k].resource][pending[k].sub] = pending[k].state
               /\ \A r \in Resource : \A i \in Sub(r) :
                     (\A k \in 1 .. m : ~ Names(k, r, i)) => T[r][i] = S[r][i]
           U == {m \in 0 .. n : \E T : Good(V[m], m, T)}
<1>7. 0 \in U
  <2>1. V[0] = none  BY <1>4 DEF Passes
  <2>2. Chain(none, S, S)  BY <1>2, <1>6, ChainEmpty
  <2>3. Good(none, 0, S)  BY <2>2
  <2> QED  BY <2>1, <2>3
<1>8. ASSUME NEW m \in Nat, m < n, m \in U  PROVE m + 1 \in U
  <2>1. PICK x : x = V[m]  OBVIOUS
  <2>2. PICK y : y = V[m + 1]  OBVIOUS
  <2>3. PICK T : Good(x, m, T)  BY <1>8, <2>1
  <2>4. PICK l : l = m + 1 /\ l \in 1 .. n /\ l \in 0 .. n  BY <1>8
  <2>5. PICK p : p = pending[l]  OBVIOUS
  <2>6. PICK r \in Resource : r = p.resource  BY <1>1, <2>4, <2>5 DEF PendingOK
  <2>7. PICK i \in Sub(r) : i = p.sub  BY <1>1, <2>4, <2>5, <2>6 DEF PendingOK
  <2>8. PICK state \in Known : state = p.state  BY <1>1, <2>4, <2>5 DEF PendingOK
  <2>9. \A k \in 1 .. m : ~ Names(k, r, i)
    <3> SUFFICES ASSUME NEW k \in 1 .. m, Names(k, r, i)  PROVE FALSE
      OBVIOUS
    <3>1. k \in 1 .. n /\ k # l  BY <1>8, <2>4
    <3> QED  BY <1>1, <2>4, <2>5, <2>6, <2>7, <3>1 DEF PendingOK
  <2>10. PICK before : before = GetSubresourceState(onResource[r], i)  OBVIOUS
  <2>11. T[r][i] = before /\ before \in Known
    BY <1>6, <2>3, <2>9, <2>10 DEF ResourcesOK
  <2>12. y = IF before # state THEN AddTransition(x, r, before, state, i) ELSE x
    BY <1>5, <1>8, <2>1, <2>2, <2>4, <2>5, <2>6, <2>7, <2>8, <2>10 DEF PendingBarrier
  <2>13. Affected(r, i) = {i} /\ SubOK(r, i)  BY SubIs DEF SubOK
  <2>14. IsStates(T)  BY <2>3, ChainStates
  <2>15. \E W : /\ Chain(y, S, W) /\ IsStates(W)
                /\ \A q \in Resource : \A j \in Sub(q) :
                      W[q][j] = IF q = r /\ j = i THEN state ELSE T[q][j]
    <3>1. CASE before = state
      <4>1. Chain(y, S, T)  BY <2>3, <2>12, <3>1
      <4> QED  BY <2>11, <2>14, <3>1, <4>1
    <3>2. CASE before # state
      <4>1. PICK tr : tr = Transition(r, i, before, state)  OBVIOUS
      <4>2. PICK W : W = Executed(T, tr)  OBVIOUS
      <4>3. Chain(y, S, W)
        BY <2>3, <2>11, <2>12, <2>13, <3>2, <4>1, <4>2, BatchAdd
      <4>4. /\ Legal(tr) /\ tr.after = state
            /\ \A q, j : Touches(tr, q, j) <=> q = r /\ j \in Affected(r, i)
        BY <2>11, <2>13, <3>2, <4>1, TransitionIs
      <4>5. /\ IsStates(W)
            /\ \A q \in Resource : \A j \in Sub(q) :
                  W[q][j] = IF q = r /\ j = i THEN state ELSE T[q][j]
        BY <2>13, <2>14, <4>2, <4>4, ExecutedIs
      <4> QED  BY <4>3, <4>5
    <3> QED  BY <3>1, <3>2
  <2>16. PICK W : /\ Chain(y, S, W) /\ IsStates(W)
                  /\ \A q \in Resource : \A j \in Sub(q) :
                        W[q][j] = IF q = r /\ j = i THEN state ELSE T[q][j]
    BY <2>15
  <2>17. \A k \in 1 .. l : k \in 1 .. m \/ k = l  BY <2>4
  <2>18. \A k \in 1 .. l : W[pending[k].resource][pending[k].sub] = pending[k].state
    <3> SUFFICES ASSUME NEW k \in 1 .. l
                 PROVE  W[pending[k].resource][pending[k].sub] = pending[k].state
      OBVIOUS
    <3>1. CASE k = l
      BY <2>5, <2>6, <2>7, <2>8, <2>16, <3>1
    <3>2. CASE k \in 1 .. m
      <4>1. k \in 1 .. n  BY <1>8, <3>2
      <4>2. PICK q \in Resource : q = pending[k].resource  BY <1>1, <4>1 DEF PendingOK
      <4>3. PICK j \in Sub(q) : j = pending[k].sub  BY <1>1, <4>1, <4>2 DEF PendingOK
      <4>4. ~ (q = r /\ j = i)  BY <2>9, <3>2, <4>2, <4>3
      <4>5. T[q][j] = pending[k].state  BY <2>3, <3>2, <4>2, <4>3
      <4>6. W[q][j] = T[q][j]  BY <2>16, <4>4
      <4> QED  BY <4>2, <4>3, <4>5, <4>6
    <3> QED  BY <2>17, <3>1, <3>2
  <2>19. \A q \in Resource : \A j \in Sub(q) :
             (\A k \in 1 .. l : ~ Names(k, q, j)) => W[q][j] = S[q][j]
    <3> SUFFICES ASSUME NEW q \in Resource, NEW j \in Sub(q),
                        \A k \in 1 .. l : ~ Names(k, q, j)
                 PROVE  W[q][j] = S[q][j]
      OBVIOUS
    <3>1. l \in 1 .. l /\ \A k \in 1 .. m : k \in 1 .. l  BY <2>4
    <3>2. ~ (q = r /\ j = i)  BY <2>5, <2>6, <2>7, <3>1
    <3>3. T[q][j] = S[q][j]  BY <2>3, <3>1
    <3> QED  BY <2>16, <3>2, <3>3
  <2>20. Good(y, l, W)  BY <2>16, <2>18, <2>19
  <2> QED  BY <2>2, <2>4, <2>20
<1>9. n \in U
  <2>1. n \in 0 .. n  OBVIOUS
  <2> HIDE DEF U
  <2> QED  BY <1>7, <1>8, <2>1, UpTo
<1>10. PICK T : Good(b, n, T)  BY <1>4, <1>9
<1> QED  BY <1>1, <1>10

\* What the submission thread puts in front of the list, and tracks after it.
Barriers(l) == FoldLeft(PendingBarrier, <<>>, l.pending)

StatesLeft(l) == [r \in Resource |-> StateAfter(r, onResource[r], l.tracked[r])]

\* The barriers and the list, from the tracked states to those tracked afterwards.
LEMMA ListSubmitted ==
    ASSUME ResourcesOK(onResource), NEW l, ListOK(l),
           \A r \in Filled(l.commands) :
               GetSubresourceState(onResource[r], 0) = {"COPY_DEST"},
           NEW b, b = Barriers(l),
           NEW new, new = StatesLeft(l)
    PROVE  /\ ResourcesOK(new)
           /\ \A r \in Resource : \A i \in Sub(r) :
                 GetSubresourceState(l.tracked[r], i) = TBD =>
                     GetSubresourceState(new[r], i) = GetSubresourceState(onResource[r], i)
           /\ \E T : Chain(b, Of(onResource), T) /\ Chain(l.commands, T, Of(new))
<1>1. PICK S : S = Of(onResource)  OBVIOUS
<1>2. /\ TrackedOK(l.tracked) /\ PendingOK(l.pending, l.tracked)
      /\ FilledOK(l.pending, l.tracked, Filled(l.commands))
      /\ \A Y : Meets(Y, l.pending, Filled(l.commands)) =>
                         Chain(l.commands, Y, After(l.tracked, Y))
  BY ListOKIs
<1>3. PICK p : p = l.pending  OBVIOUS
<1>4. PICK n \in Nat : n = Len(p)  BY <1>2, <1>3, ListIs DEF PendingOK
<1>5. PICK T : /\ Chain(b, S, T)
               /\ \A k \in 1 .. n : T[p[k].resource][p[k].sub] = p[k].state
               /\ \A r \in Resource : \A i \in Sub(r) :
                     (\A k \in 1 .. n : ~ (p[k].resource = r /\ p[k].sub = i))
                         => T[r][i] = S[r][i]
  BY <1>1, <1>2, <1>3, <1>4, PendingChain DEF Barriers
<1>6. IsStates(T)  BY <1>5, ChainStates
<1>7. /\ IsStates(S)
      /\ \A r \in Resource : \A i \in Sub(r) : S[r][i] = GetSubresourceState(onResource[r], i)
  BY <1>1, OfIs
<1>8. Meets(T, p, Filled(l.commands))
  <2>1. ASSUME NEW r \in Filled(l.commands)  PROVE T[r][0] = {"COPY_DEST"}
    <3>1. r \in Resource /\ 0 \in Sub(r)
      <4>1. r \in Buffer  BY <2>1 DEF Filled
      <4> QED  BY <4>1, ResourceAssumption, SubIs
    <3>2. \A k \in 1 .. n : p[k].resource # r  BY <1>2, <1>3, <1>4, <2>1 DEF FilledOK
    <3>3. T[r][0] = S[r][0]  BY <1>5, <3>1, <3>2
    <3>4. GetSubresourceState(onResource[r], 0) = {"COPY_DEST"}  BY <2>1
    <3> QED  BY <1>7, <3>1, <3>3, <3>4
  <2> QED  BY <1>4, <1>5, <1>6, <2>1 DEF Meets
<1>9. PICK W : W = After(l.tracked, T)  OBVIOUS
<1>10. Chain(l.commands, T, W)  BY <1>2, <1>3, <1>8, <1>9
<1>11. \A r \in Resource : \A i \in Sub(r) :
          GetSubresourceState(l.tracked[r], i) = TBD => T[r][i] = S[r][i]
  <2> SUFFICES ASSUME NEW r \in Resource, NEW i \in Sub(r),
                      GetSubresourceState(l.tracked[r], i) = TBD
               PROVE  \A k \in 1 .. n : ~ (p[k].resource = r /\ p[k].sub = i)
    BY <1>5
  <2> QED  BY <1>2, <1>3, <1>4 DEF PendingOK
<1>12. ASSUME NEW r \in Resource
       PROVE  /\ StatesOK(r, new[r])
              /\ \A i \in Sub(r) : GetSubresourceState(new[r], i) =
                     IF GetSubresourceState(l.tracked[r], i) = TBD
                     THEN GetSubresourceState(onResource[r], i)
                     ELSE GetSubresourceState(l.tracked[r], i)
  <2>1. StatesOK(r, onResource[r]) /\ StatesOK(r, l.tracked[r])
    BY <1>2 DEF ResourcesOK, TrackedOK
  <2>2. new[r] = StateAfter(r, onResource[r], l.tracked[r])  BY DEF StatesLeft
  <2> QED  BY <2>1, <2>2, StatesAfter
<1>13. ResourcesOK(new)
  <2>1. new = [r \in Resource |-> new[r]]  BY DEF StatesLeft
  <2>2. \A r \in Resource : \A i \in Sub(r) : GetSubresourceState(l.tracked[r], i) \in Tracked
    BY <1>2 DEF TrackedOK, StatesOK
  <2>3. \A r \in Resource : \A i \in Sub(r) : GetSubresourceState(new[r], i) \in Known
    BY <1>12, <2>2 DEF ResourcesOK, Tracked
  <2> QED  BY <1>12, <2>1, <2>3 DEF ResourcesOK
<1>14. W = Of(new)
  <2>1. IsStates(Of(new)) /\ \A r \in Resource : \A i \in Sub(r) :
            Of(new)[r][i] = GetSubresourceState(new[r], i)
    BY <1>13, OfIs
  <2>2. IsStates(W) /\ \A r \in Resource : \A i \in Sub(r) :
            W[r][i] = IF GetSubresourceState(l.tracked[r], i) = TBD THEN T[r][i]
                      ELSE GetSubresourceState(l.tracked[r], i)
    BY <1>2, <1>6, <1>9, AfterIs
  <2>3. \A r \in Resource : \A i \in Sub(r) : W[r][i] = Of(new)[r][i]
    BY <1>7, <1>11, <1>12, <2>1, <2>2
  <2> QED  BY <2>1, <2>2, <2>3, StatesEqual
<1> QED  BY <1>1, <1>5, <1>10, <1>12, <1>13, <1>14

-----------------------------------------------------------------------------
(***************************************************************************)
(* The lists on their way, in their order, and the context behind them: a  *)
(* buffer that one of them fills is in COPY_DEST, and none before it       *)
(* touches the buffer.                                                     *)
(***************************************************************************)
LEMMA ListEqual ==
    ASSUME NEW s, IsList(s), NEW t, IsList(t), Len(s) = Len(t),
           \A i \in 1 .. Len(s) : s[i] = t[i]
    PROVE  s = t
<1>1. s = [i \in 1 .. Len(s) |-> s[i]] /\ t = [i \in 1 .. Len(t) |-> t[i]]
  BY ListIs
<1> QED  BY <1>1

LEMMA LineGrows ==
    ASSUME NEW s, IsList(s), NEW t, IsList(t), NEW e
    PROVE  s \o Append(t, e) = Append(s \o t, e)
<1>1. PICK n \in Nat : n = Len(s)  BY ListIs
<1>2. PICK m \in Nat : m = Len(t)  BY ListIs
<1>3. PICK a : a = Append(t, e)  OBVIOUS
<1>4. PICK l : l = s \o a  OBVIOUS
<1>5. PICK b : b = s \o t  OBVIOUS
<1>6. PICK r : r = Append(b, e)  OBVIOUS
<1>7. IsList(a) /\ Len(a) = m + 1 /\ a[m + 1] = e /\ \A i \in 1 .. m : a[i] = t[i]
  BY <1>2, <1>3, ListAppend
<1>8. /\ IsList(l) /\ Len(l) = n + (m + 1) /\ \A i \in 1 .. n : l[i] = s[i]
      /\ \A i \in 1 .. m + 1 : l[n + i] = a[i]
  <2>1. /\ IsList(l) /\ Len(l) = Len(s) + Len(a)
        /\ \A i \in 1 .. Len(s) : l[i] = s[i]
        /\ \A i \in 1 .. Len(a) : l[Len(s) + i] = a[i]
    <3>1. IsList(a)  BY <1>7
    <3> QED  BY <1>4, <3>1, ListConcat
  <2>2. Len(s) = n /\ Len(a) = m + 1  BY <1>1, <1>7
  <2> QED  BY <2>1, <2>2
<1>9. /\ IsList(b) /\ Len(b) = n + m /\ \A i \in 1 .. n : b[i] = s[i]
      /\ \A i \in 1 .. m : b[n + i] = t[i]
  BY <1>1, <1>2, <1>5, ListConcat
<1>10. IsList(r) /\ Len(r) = (n + m) + 1 /\ r[(n + m) + 1] = e
       /\ \A i \in 1 .. n + m : r[i] = b[i]
  BY <1>6, <1>9, ListAppend
<1>11. ASSUME NEW i \in 1 .. n + (m + 1)  PROVE l[i] = r[i]
  <2>1. CASE i \in 1 .. n
    <3>1. i \in 1 .. n + m  BY <2>1
    <3> QED  BY <1>8, <1>9, <1>10, <2>1, <3>1
  <2>2. CASE i \notin 1 .. n
    <3>1. PICK j \in 1 .. m + 1 : i = n + j
      <4>1. i - n \in 1 .. m + 1 /\ i = n + (i - n)  BY <2>2
      <4> QED  BY <4>1
    <3>2. l[i] = a[j]  BY <1>8, <3>1
    <3>3. CASE j = m + 1
      <4>1. i = (n + m) + 1  BY <3>1, <3>3
      <4> QED  BY <1>7, <1>10, <3>2, <3>3, <4>1
    <3>4. CASE j # m + 1
      <4>1. j \in 1 .. m /\ n + j \in 1 .. n + m  BY <3>4
      <4> QED  BY <1>7, <1>9, <1>10, <3>1, <3>2, <4>1
    <3> QED  BY <3>3, <3>4
  <2> QED  BY <2>1, <2>2
<1>12. n + (m + 1) = (n + m) + 1  OBVIOUS
<1>13. l = r  BY <1>8, <1>10, <1>11, <1>12, ListEqual
<1> QED  BY <1>3, <1>4, <1>5, <1>6, <1>13

Joins(l, x, t) ==
    /\ IsList(l) /\ Len(l) = Len(x) + Len(t) /\ \A i \in 1 .. Len(x) : l[i] = x[i]
    /\ \A i \in 1 .. Len(t) : l[Len(x) + i] = t[i]

LEMMA Joining ==
    ASSUME NEW x, IsList(x), NEW t, IsList(t)
    PROVE  Joins(x \o t, x, t)
BY ListConcat DEF Joins

LEMMA LineMoves ==
    ASSUME NEW s, IsList(s), NEW t, IsList(t)
    PROVE  /\ (s \o t) \o <<>> = s \o t
           /\ s # <<>> => /\ s \o t # <<>> /\ Head(s \o t) = Head(s)
                          /\ Tail(s) \o t = Tail(s \o t)
<1>1. PICK n \in Nat : n = Len(s)  BY ListIs
<1>2. PICK m \in Nat : m = Len(t)  BY ListIs
<1>3. PICK b : b = s \o t  OBVIOUS
<1>4. /\ IsList(b) /\ Len(b) = n + m /\ \A i \in 1 .. n : b[i] = s[i]
      /\ \A i \in 1 .. m : b[n + i] = t[i]
  BY <1>1, <1>2, <1>3, ListConcat
<1>5. b \o <<>> = b
  <2>1. PICK none : none = <<>>  OBVIOUS
  <2>2. IsList(none) /\ Len(none) = 0  BY <2>1, EmptyList
  <2>3. PICK l : l = b \o none  OBVIOUS
  <2>4. IsList(l) /\ Len(l) = (n + m) + 0 /\ \A i \in 1 .. n + m : l[i] = b[i]
    BY <1>4, <2>2, <2>3, ListConcat
  <2>5. (n + m) + 0 = n + m  OBVIOUS
  <2>6. l = b  BY <1>4, <2>4, <2>5, ListEqual
  <2> QED  BY <2>1, <2>3, <2>6
<1>6. ASSUME s # <<>>
      PROVE  b # <<>> /\ Head(b) = Head(s) /\ Tail(s) \o t = Tail(b)
  <2>1. PICK j \in Nat : n = j + 1
    <3>1. n \in Nat \ {0}  BY <1>1, <1>6, ListTail
    <3>2. n - 1 \in Nat /\ n = (n - 1) + 1  BY <3>1
    <3> QED  BY <3>2
  <2>2. b # <<>>
    <3>1. Len(b) # 0  BY <1>4, <2>1
    <3> QED  BY <1>4, <3>1, ListEmpty
  <2>3. PICK x : x = Tail(s)  OBVIOUS
  <2>4. PICK y : y = Tail(b)  OBVIOUS
  <2>5. n - 1 = j /\ (n + m) - 1 = j + m  BY <2>1
  <2>6. IsList(x) /\ Len(x) = j /\ Head(s) = s[1] /\ \A i \in 1 .. j : x[i] = s[i + 1]
    BY <1>1, <1>6, <2>3, <2>5, ListTail
  <2>7. IsList(y) /\ Len(y) = j + m /\ Head(b) = b[1] /\ \A i \in 1 .. j + m : y[i] = b[i + 1]
    BY <1>4, <2>2, <2>4, <2>5, ListTail
  <2>8. PICK l : l = x \o t  OBVIOUS
  <2>9. /\ IsList(l) /\ Len(l) = j + m /\ \A i \in 1 .. j : l[i] = x[i]
        /\ \A i \in 1 .. m : l[j + i] = t[i]
    <3>1. IsList(x)  BY <2>6
    <3>2. Joins(l, x, t)  BY <2>8, <3>1, Joining
    <3>3. Len(x) = j  BY <2>6
    <3> QED  BY <1>2, <3>2, <3>3 DEF Joins
  <2>10. ASSUME NEW i \in 1 .. j + m  PROVE l[i] = y[i]
    <3>1. CASE i \in 1 .. j
      <4>1. i + 1 \in 1 .. n  BY <2>1, <3>1
      <4> QED  BY <1>4, <2>6, <2>7, <2>9, <3>1, <4>1
    <3>2. CASE i \notin 1 .. j
      <4>1. PICK k \in 1 .. m : i = j + k
        <5>1. i - j \in 1 .. m /\ i = j + (i - j)  BY <3>2
        <5> QED  BY <5>1
      <4>2. i + 1 = n + k  BY <2>1, <4>1
      <4> QED  BY <1>4, <2>7, <2>9, <4>1, <4>2
    <3> QED  BY <3>1, <3>2
  <2>11. l = y  BY <2>7, <2>9, <2>10, ListEqual
  <2>12. 1 \in 1 .. n  BY <2>1
  <2> QED  BY <1>4, <2>2, <2>3, <2>4, <2>6, <2>7, <2>8, <2>11, <2>12
<1> QED  BY <1>3, <1>5, <1>6

Fresh(states, line, n, r) ==
    /\ GetSubresourceState(states[r], 0) = {"COPY_DEST"}
    /\ \A j \in 1 .. n : Untouched(line[j], r)

LineOK(line, c, states, done) ==
    /\ IsList(line)
    /\ \A k \in 1 .. Len(line) :
          /\ ListOK(line[k])
          /\ \A r \in Filled(line[k].commands) : Fresh(states, line, k - 1, r)
    /\ \A r \in Filled(c.commands) : Fresh(states, line, Len(line), r)
    /\ \A r \in Buffer \ done : Fresh(states, line, Len(line), r) /\ Untouched(c, r)

LEMMA LineContext ==
    ASSUME NEW line, NEW c, NEW states, NEW done, LineOK(line, c, states, done),
           NEW d, Filled(d.commands) = Filled(c.commands),
           \A r \in Buffer \ done : d.tracked[r] = c.tracked[r]
    PROVE  LineOK(line, d, states, done)
BY DEF LineOK, Untouched

LEMMA LineFilled ==
    ASSUME NEW line, NEW c, NEW states, NEW done, LineOK(line, c, states, done),
           NEW r \in Buffer \ done,
           NEW d, Filled(d.commands) = Filled(c.commands) \cup {r}, Apart(c, d, r)
    PROVE  LineOK(line, d, states, done \cup {r})
<1>1. \A q \in Buffer \ (done \cup {r}) : q \in Resource /\ q # r /\ q \in Buffer \ done
  BY ResourceAssumption
<1>2. \A q \in Buffer \ (done \cup {r}) : Untouched(d, q)
  BY <1>1 DEF LineOK, Untouched, Apart
<1>3. \A q \in Filled(d.commands) : Fresh(states, line, Len(line), q)
  BY DEF LineOK
<1> QED  BY <1>1, <1>2, <1>3 DEF LineOK

LEMMA LineClosed ==
    ASSUME NEW line, NEW c, ContextOK(c), NEW states, NEW done,
           LineOK(line, c, states, done)
    PROVE  LineOK(Append(line, CloseCommandList(c)), Closed(<<>>), states, done)
<1>1. PICK l : l = CloseCommandList(c)  OBVIOUS
<1>2. ListOK(l) /\ l.tracked = c.tracked /\ Filled(l.commands) = Filled(c.commands)
  BY <1>1, ListClosed DEF ListOK
<1>3. PICK n \in Nat : n = Len(line)  BY ListIs DEF LineOK
<1>4. PICK new : new = Append(line, l)  OBVIOUS
<1>5. /\ IsList(new) /\ Len(new) = n + 1 /\ new[n + 1] = l
      /\ \A k \in 1 .. n : new[k] = line[k]
  BY <1>3, <1>4, ListAppend DEF LineOK
<1>6. PICK none : none = Closed(<<>>)  OBVIOUS
<1>7. Filled(none.commands) = {} /\ \A r \in Resource : Untouched(none, r)
  <2>1. none.commands = <<>>  BY <1>6, ClosedOK
  <2>2. \A r \in Resource : 0 \in Sub(r)  BY SubIs
  <2> QED  BY <1>6, <2>1, <2>2, ClosedOK, EmptyList DEF Filled, Untouched
<1>8. ASSUME NEW k \in 0 .. n, NEW r, Fresh(states, line, k, r)
      PROVE  Fresh(states, new, k, r)
  <2>1. \A j \in 1 .. k : j \in 1 .. n  BY <1>8
  <2> QED  BY <1>5, <1>8, <2>1 DEF Fresh
<1>9. ASSUME NEW k \in 1 .. n + 1
      PROVE  /\ ListOK(new[k])
             /\ \A r \in Filled(new[k].commands) : Fresh(states, new, k - 1, r)
  <2>1. k \in 1 .. n \/ k = n + 1  OBVIOUS
  <2>2. CASE k \in 1 .. n
    <3>1. k - 1 \in 0 .. n  BY <2>2
    <3>2. ListOK(line[k]) /\ \A r \in Filled(line[k].commands) : Fresh(states, line, k - 1, r)
      BY <1>3, <2>2 DEF LineOK
    <3> QED  BY <1>5, <1>8, <2>2, <3>1, <3>2
  <2>3. CASE k = n + 1
    <3>1. k - 1 = n /\ n \in 0 .. n  BY <2>3
    <3>2. \A r \in Filled(l.commands) : Fresh(states, line, n, r)
      BY <1>2, <1>3 DEF LineOK
    <3> QED  BY <1>2, <1>5, <1>8, <2>3, <3>1, <3>2
  <2> QED  BY <2>1, <2>2, <2>3
<1>10. ASSUME NEW r \in Buffer \ done
       PROVE  Fresh(states, new, n + 1, r) /\ Untouched(none, r)
  <2>1. r \in Resource  BY ResourceAssumption
  <2>2. Fresh(states, line, n, r) /\ Untouched(c, r)  BY <1>3 DEF LineOK
  <2>3. Fresh(states, new, n, r)
    <3>1. n \in 0 .. n  OBVIOUS
    <3> QED  BY <1>8, <2>2, <3>1
  <2>4. Untouched(new[n + 1], r)  BY <1>2, <1>5, <2>2 DEF Untouched
  <2>5. \A j \in 1 .. n + 1 : j \in 1 .. n \/ j = n + 1  OBVIOUS
  <2>6. Fresh(states, new, n + 1, r)  BY <2>3, <2>4, <2>5 DEF Fresh
  <2> QED  BY <1>7, <2>1, <2>6
<1>11. LineOK(new, none, states, done)
  BY <1>5, <1>7, <1>9, <1>10 DEF LineOK
<1> QED  BY <1>1, <1>4, <1>6, <1>11

LEMMA LineAdvances ==
    ASSUME NEW line, NEW c, NEW states, NEW done, LineOK(line, c, states, done),
           line # <<>>, NEW l, l = Head(line), NEW new,
           \A r \in Resource : \A i \in Sub(r) :
               GetSubresourceState(l.tracked[r], i) = TBD =>
                   GetSubresourceState(new[r], i) = GetSubresourceState(states[r], i)
    PROVE  LineOK(Tail(line), c, new, done)
<1>1. PICK n \in Nat : Len(line) = n + 1
  <2>1. Len(line) \in Nat \ {0}  BY ListTail DEF LineOK
  <2>2. Len(line) - 1 \in Nat /\ Len(line) = (Len(line) - 1) + 1  BY <2>1
  <2> QED  BY <2>2
<1>2. PICK t : t = Tail(line)  OBVIOUS
<1>3. /\ IsList(t) /\ Len(t) = n /\ l = line[1]
      /\ \A i \in 1 .. n : t[i] = line[i + 1]
  <2>1. (n + 1) - 1 = n  OBVIOUS
  <2> QED  BY <1>1, <1>2, <2>1, ListTail DEF LineOK
<1>4. ASSUME NEW k \in 0 .. n, NEW r \in Buffer, Fresh(states, line, k + 1, r)
      PROVE  Fresh(new, t, k, r)
  <2>1. r \in Resource /\ 0 \in Sub(r)  BY ResourceAssumption, SubIs
  <2>2. 1 \in 1 .. k + 1  BY <1>4
  <2>3. GetSubresourceState(l.tracked[r], 0) = TBD
    BY <1>3, <1>4, <2>2 DEF Fresh, Untouched
  <2>4. GetSubresourceState(new[r], 0) = GetSubresourceState(states[r], 0)
    BY <2>1, <2>3
  <2>5. \A j \in 1 .. k : j \in 1 .. n /\ j + 1 \in 1 .. k + 1  BY <1>4
  <2>6. \A j \in 1 .. k : Untouched(t[j], r)
    BY <1>3, <1>4, <2>5 DEF Fresh, Untouched
  <2> QED  BY <1>4, <2>4, <2>6 DEF Fresh
<1>5. \A s : Filled(s) \subseteq Buffer  BY DEF Filled
<1>6. ASSUME NEW k \in 1 .. n
      PROVE  /\ ListOK(t[k])
             /\ \A r \in Filled(t[k].commands) : Fresh(new, t, k - 1, r)
  <2>1. k + 1 \in 1 .. n + 1 /\ (k + 1) - 1 = (k - 1) + 1 /\ k - 1 \in 0 .. n
    BY <1>6
  <2>2. t[k] = line[k + 1]  BY <1>3
  <2>3. /\ ListOK(line[k + 1])
        /\ \A r \in Filled(line[k + 1].commands) : Fresh(states, line, (k - 1) + 1, r)
    BY <1>1, <2>1 DEF LineOK
  <2> QED  BY <1>4, <1>5, <2>1, <2>2, <2>3
<1>7. n \in 0 .. n  OBVIOUS
<1>8. \A r \in Filled(c.commands) : Fresh(new, t, n, r)
  BY <1>1, <1>4, <1>5, <1>7 DEF LineOK
<1>9. \A r \in Buffer \ done : Fresh(new, t, n, r) /\ Untouched(c, r)
  BY <1>1, <1>4, <1>7 DEF LineOK
<1>10. LineOK(t, c, new, done)
  BY <1>3, <1>6, <1>8, <1>9 DEF LineOK
<1> QED  BY <1>2, <1>10

-----------------------------------------------------------------------------
(***************************************************************************)
(* The inductive invariant: the open list is exact about what it expects   *)
(* and leaves, the lists behind the submission thread fit together, and    *)
(* what the queue still has to execute leads from the states the resources *)
(* are in to the states tracked on them.                                   *)
(***************************************************************************)
Exact ==
    /\ asserts \in BOOLEAN
    /\ ContextOK(context)
    /\ IsList(submitted) /\ IsList(closed)
    /\ LineOK(submitted \o closed, context, onResource, ready)
    /\ ResourcesOK(onResource)
    /\ Chain(queue, actual, Of(onResource))
    /\ waiting => submitted # <<>>
    /\ ready \subseteq Buffer
    /\ recorded \in 0 .. MaxCommands

LEMMA InitExact == Init => Exact
<1> SUFFICES ASSUME Init  PROVE Exact
  OBVIOUS
<1>1. ContextOK(context)  BY ClosedOK DEF Init
<1>2. IsList(submitted) /\ IsList(closed)  BY EmptyList DEF Init
<1>3. \A r \in Resource : Created[r] \in Known
  BY ResourceAssumption DEF Known
<1>4. ASSUME NEW r \in Resource
      PROVE  /\ onResource[r] = Initialize(r, Created[r]) /\ StatesOK(r, onResource[r])
             /\ \A i \in Sub(r) : GetSubresourceState(onResource[r], i) = Created[r]
  <2>1. onResource[r] = Initialize(r, Created[r])  BY DEF Init
  <2>2. Created[r] \in Tracked  BY <1>3 DEF Tracked
  <2> QED  BY <2>1, <2>2, InitializeIs
<1>5. ResourcesOK(onResource)
  <2>1. onResource = [r \in Resource |-> onResource[r]]  BY DEF Init
  <2> QED  BY <1>3, <1>4, <2>1 DEF ResourcesOK
<1>6. Chain(queue, actual, Of(onResource))
  <2>1. Of(onResource) = actual
    <3>1. \A r \in Resource : actual[r] = [i \in Sub(r) |-> Created[r]]  BY DEF Init
    <3>2. actual = [r \in Resource |-> [i \in Sub(r) |-> actual[r][i]]]
      BY <3>1 DEF Init
    <3>3. \A r \in Resource : \A i \in Sub(r) : actual[r][i] = Created[r]
      BY <3>1
    <3>4. IsStates(actual)  BY <1>3, <3>2, <3>3 DEF IsStates
    <3>5. /\ IsStates(Of(onResource))
          /\ \A r \in Resource : \A i \in Sub(r) :
                Of(onResource)[r][i] = GetSubresourceState(onResource[r], i)
      BY <1>5, OfIs
    <3> QED  BY <1>4, <3>3, <3>4, <3>5, StatesEqual
  <2>2. IsStates(actual)  BY <1>5, <2>1, OfIs
  <2> QED  BY <2>1, <2>2, ChainEmpty DEF Init
<1>7. LineOK(submitted \o closed, context, onResource, ready)
  <2>1. PICK none : none = <<>>  OBVIOUS
  <2>2. IsList(none) /\ Len(none) = 0  BY <2>1, EmptyList
  <2>3. none \o <<>> = none
    <3>1. (none \o none) \o <<>> = none \o none  BY <2>2, LineMoves
    <3>2. IsList(none \o none) /\ Len(none \o none) = 0 + 0
      BY <2>2, ListConcat
    <3>3. none \o none = <<>>  BY <3>2, ListEmpty
    <3> QED  BY <2>1, <3>3
  <2>4. submitted \o closed = none  BY <2>1, <2>3 DEF Init
  <2>5. context.commands = <<>> /\ \A r \in Resource : \A i \in Sub(r) :
            GetSubresourceState(context.tracked[r], i) = TBD
    BY ClosedOK DEF Init
  <2>6. Filled(context.commands) = {}  BY <2>5, EmptyList DEF Filled
  <2>7. ASSUME NEW r \in Buffer
        PROVE  Fresh(onResource, none, 0, r) /\ Untouched(context, r)
    <3>1. r \in Resource /\ 0 \in Sub(r) /\ Created[r] = {"COPY_DEST"}
      BY ResourceAssumption, SubIs
    <3>2. GetSubresourceState(onResource[r], 0) = {"COPY_DEST"}  BY <1>4, <3>1
    <3>3. Untouched(context, r)  BY <2>5, <3>1 DEF Untouched
    <3> QED  BY <3>2, <3>3 DEF Fresh
  <2>8. LineOK(none, context, onResource, ready)
    BY <2>2, <2>6, <2>7 DEF LineOK
  <2> QED  BY <2>4, <2>8
<1> QED  BY <1>1, <1>2, <1>5, <1>6, <1>7, ResourceAssumption DEF Init, Exact

\* What a command leaves of the context and the lists, for the actions that use it.
LEMMA PerformedOK ==
    ASSUME Exact, NEW s, IsList(s), \A k \in 1 .. Len(s) : RequestOK(s[k]),
           Agreed => /\ \A p, q \in ToSet(s) : Together(p, q)
                     /\ s # <<>> /\ Last(s) = Flush,
           \A r \in Buffer \ ready :
               \A k \in 1 .. Len(s) : s[k].how = "Flush" \/ s[k].resource # r,
           NEW d, d = Performed(context, s)
    PROVE  ContextOK(d) /\ d.open /\ LineOK(submitted \o closed, d, onResource, ready)
<1>1. /\ ContextOK(d) /\ d.open /\ Filled(d.commands) = Filled(context.commands)
      /\ \A r \in Resource :
            (\A k \in 1 .. Len(s) : s[k].how = "Flush" \/ s[k].resource # r)
                => d.tracked[r] = context.tracked[r]
  BY PerformedIs DEF Exact
<1>2. \A r \in Buffer \ ready : d.tracked[r] = context.tracked[r]
  BY <1>1, ResourceAssumption
<1>3. LineOK(submitted \o closed, context, onResource, ready)  BY DEF Exact
<1> QED  BY <1>1, <1>2, <1>3, LineContext

LEMMA RecordExact ==
    ASSUME Exact, NEW cmd \in Command, Record(cmd)
    PROVE  Exact'
<1>1. PICK s : s = Requests(cmd)  OBVIOUS
<1>2. s \in Seq(Requested)  BY <1>1, CommandAssumption
<1>3. IsList(s) /\ ToSet(s) \subseteq Requested  BY <1>2, ListOf
<1>4. \A k \in 1 .. Len(s) : s[k] \in ToSet(s)  BY <1>3, ListIs
<1>5. \A k \in 1 .. Len(s) : RequestOK(s[k])  BY <1>3, <1>4, RequestIs
<1>6. Agreed => /\ \A p, q \in ToSet(s) : Together(p, q)
                /\ s # <<>> /\ Last(s) = Flush
  BY <1>1 DEF Agreed, RequestsAgree, RequestsFlushed
<1>7. \A r \in Buffer \ ready :
         \A k \in 1 .. Len(s) : s[k].how = "Flush" \/ s[k].resource # r
  BY <1>1, <1>4 DEF Record
<1>8. PICK d : d = Performed(context, s)  OBVIOUS
<1>9. ContextOK(d) /\ d.open /\ LineOK(submitted \o closed, d, onResource, ready)
  BY <1>3, <1>5, <1>6, <1>7, <1>8, PerformedOK
<1>10. /\ context' = d
       /\ UNCHANGED <<asserts, closed, submitted, onResource, queue, actual, ready, waiting>>
       /\ recorded' \in 0 .. MaxCommands
  BY <1>1, <1>8, ResourceAssumption DEF Record, Recording, Exact
<1> QED  BY <1>9, <1>10 DEF Exact

LEMMA InitializeExact ==
    ASSUME Exact, NEW r \in Buffer, NEW split \in BOOLEAN, InitializeBuffer(r, split)
    PROVE  Exact'
<1>1. PICK f : f = FlushResourceBarriers(context)  OBVIOUS
<1>2. /\ ContextOK(f) /\ f.tracked = context.tracked /\ f.batch = <<>>
      /\ Filled(f.commands) = Filled(context.commands)
  BY <1>1, Flushed DEF Exact
<1>3. PICK o : o = GetCommandList(f)  OBVIOUS
<1>4. /\ ContextOK(o) /\ Drained(o) /\ o.tracked = context.tracked
      /\ Filled(o.commands) = Filled(context.commands)
  BY <1>2, <1>3, Opened DEF Drained
<1>5. PICK line : line = submitted \o closed  OBVIOUS
<1>6. LineOK(line, context, onResource, ready)  BY <1>5 DEF Exact
<1>7. r \in Buffer \ ready  BY DEF InitializeBuffer
<1>8. LineOK(line, o, onResource, ready)
  BY <1>4, <1>6, LineContext
<1>9. Untouched(o, r)  BY <1>7, <1>8 DEF LineOK
<1>10. PICK c : c = Initialized(o, r)  OBVIOUS
<1>11. /\ ContextOK(c) /\ Apart(o, c, r)
       /\ Filled(c.commands) = Filled(o.commands) \cup {r}
  BY <1>4, <1>9, <1>10, BufferFilled
<1>12. LineOK(line, c, onResource, ready \cup {r})
  BY <1>7, <1>8, <1>11, LineFilled
<1>13. /\ context' = IF split THEN Closed(<<>>) ELSE c
       /\ closed' = IF split THEN Append(closed, CloseCommandList(c)) ELSE closed
       /\ ready' = ready \cup {r}
       /\ UNCHANGED <<asserts, submitted, onResource, queue, actual, waiting>>
  BY <1>1, <1>3, <1>10 DEF InitializeBuffer, Initialized, Used, Filling
<1>14. recorded' \in 0 .. MaxCommands
  BY ResourceAssumption DEF InitializeBuffer, Recording, Exact
<1>15. ready' \subseteq Buffer  BY <1>13 DEF Exact
<1>16. CASE ~ split
  <2>1. context' = c /\ closed' = closed  BY <1>13, <1>16
  <2> QED  BY <1>5, <1>11, <1>12, <1>13, <1>14, <1>15, <2>1 DEF Exact
<1>17. CASE split
  <2>1. PICK l : l = CloseCommandList(c)  OBVIOUS
  <2>2. context' = Closed(<<>>) /\ closed' = Append(closed, l)  BY <1>13, <1>17, <2>1
  <2>3. IsList(closed')  BY <2>2, ListAppend DEF Exact
  <2>4. submitted \o Append(closed, l) = Append(line, l)
    BY <1>5, LineGrows DEF Exact
  <2>5. submitted' \o closed' = Append(line, l)  BY <1>13, <2>2, <2>4
  <2>6. LineOK(Append(line, l), Closed(<<>>), onResource, ready \cup {r})
    BY <1>11, <1>12, <2>1, LineClosed
  <2>7. ContextOK(Closed(<<>>))  BY ClosedOK
  <2> QED  BY <1>13, <1>14, <1>15, <2>2, <2>3, <2>5, <2>6, <2>7 DEF Exact
<1> QED  BY <1>16, <1>17

LEMMA AddUAVExact ==
    ASSUME Exact, AddUAVBarrier
    PROVE  Exact'
<1>1. PICK d : d = [context EXCEPT !.batch = Append(@, UAVBarrier)]  OBVIOUS
<1>2. /\ ContextOK(d) /\ d.tracked = context.tracked /\ d.commands = context.commands
  BY <1>1, UAVBarrierAdded DEF Exact
<1>3. LineOK(submitted \o closed, context, onResource, ready)  BY DEF Exact
<1>4. LineOK(submitted \o closed, d, onResource, ready)  BY <1>2, <1>3, LineContext
<1>5. /\ context' = d
      /\ UNCHANGED <<asserts, closed, submitted, onResource, queue, actual, ready, waiting>>
      /\ recorded' \in 0 .. MaxCommands
  BY <1>1, ResourceAssumption DEF AddUAVBarrier, Recording, Exact
<1> QED  BY <1>2, <1>4, <1>5 DEF Exact

\* Both ends of a frame: the lists are handed over and the context is closed.
LEMMA FlushExact ==
    ASSUME Exact, NEW c, ContextOK(c), LineOK(submitted \o closed, c, onResource, ready),
           FlushCommands(c), c.open \/ ~ waiting', recorded' \in 0 .. MaxCommands
    PROVE  Exact'
<1>1. PICK l : l = CloseCommandList(c)  OBVIOUS
<1>2. PICK line : line = submitted \o closed  OBVIOUS
<1>3. LineOK(line, c, onResource, ready) /\ IsList(submitted) /\ IsList(closed)
  BY <1>2 DEF Exact
<1>4. /\ closed' = <<>>
      /\ UNCHANGED <<asserts, onResource, queue, actual, ready>>
      /\ c.open => context' = Closed(<<>>) /\ submitted' = submitted \o Append(closed, l)
      /\ ~ c.open => context' = c /\ submitted' = line
  BY <1>1, <1>2 DEF FlushCommands
<1>5. IsList(closed')  BY <1>4, EmptyList
<1>6. CASE c.open
  <2>1. PICK new : new = Append(closed, l)  OBVIOUS
  <2>2. IsList(new)  BY <1>3, <2>1, ListAppend
  <2>3. submitted' = submitted \o new /\ context' = Closed(<<>>)  BY <1>4, <1>6, <2>1
  <2>4. (submitted \o new) \o <<>> = submitted \o new /\ IsList(submitted \o new)
    BY <1>3, <2>2, LineMoves, ListConcat
  <2>5. submitted \o new = Append(line, l)  BY <1>2, <1>3, <2>1, LineGrows
  <2>6. submitted' \o closed' = Append(line, l) /\ IsList(submitted')
    BY <1>4, <2>3, <2>4, <2>5
  <2>7. LineOK(Append(line, l), Closed(<<>>), onResource, ready)
    BY <1>1, <1>3, LineClosed
  <2>8. ContextOK(Closed(<<>>))  BY ClosedOK
  <2>9. submitted' # <<>>
    <3>1. IsList(line)  BY <1>3 DEF LineOK
    <3>2. Len(line) \in Nat /\ Len(Append(line, l)) = Len(line) + 1 /\ IsList(Append(line, l))
      BY <3>1, ListIs, ListAppend
    <3>3. Append(line, l) # <<>>  BY <3>2, ListEmpty
    <3> QED  BY <2>3, <2>5, <3>3
  <2> QED  BY <1>4, <1>5, <2>3, <2>6, <2>7, <2>8, <2>9 DEF Exact
<1>7. CASE ~ c.open
  <2>1. submitted' = line /\ context' = c /\ ~ waiting'  BY <1>4, <1>7
  <2>2. line \o <<>> = line  BY <1>2, <1>3, LineMoves
  <2>3. submitted' \o closed' = line /\ IsList(submitted')
    BY <1>3, <1>4, <2>1, <2>2 DEF LineOK
  <2> QED  BY <1>3, <1>4, <1>5, <2>1, <2>3 DEF Exact
<1> QED  BY <1>6, <1>7

LEMMA EndFrameExact ==
    ASSUME Exact, EndFrame
    PROVE  Exact'
<1>1. PICK f : f = FlushResourceBarriers(context)  OBVIOUS
<1>2. /\ ContextOK(f) /\ f.tracked = context.tracked
      /\ Filled(f.commands) = Filled(context.commands)
  BY <1>1, Flushed DEF Exact
<1>3. LineOK(submitted \o closed, context, onResource, ready)  BY DEF Exact
<1>4. LineOK(submitted \o closed, f, onResource, ready)  BY <1>2, <1>3, LineContext
<1>5. FlushCommands(f) /\ ~ waiting' /\ recorded' \in 0 .. MaxCommands
  BY <1>1 DEF EndFrame, Exact
<1> QED  BY <1>2, <1>4, <1>5, FlushExact

LEMMA SwapBuffersExact ==
    ASSUME Exact, SwapBuffers
    PROVE  Exact'
<1>1. PICK a : a = Index(BackBuffer, 0, COMMON)  OBVIOUS
<1>2. PICK s : s = <<a, Flush>>  OBVIOUS
<1>3. /\ IsList(s) /\ Len(s) = 2 /\ s[1] = a /\ s[2] = Flush /\ s # <<>> /\ Last(s) = Flush
      /\ ToSet(s) = {a, Flush}
  <2>1. s \in Seq({a, Flush}) /\ Len(s) = 2 /\ s[1] = a /\ s[2] = Flush  BY <1>2
  <2>2. IsList(s) /\ DOMAIN s = 1 .. 2  BY <2>1, ListOf
  <2>3. s # <<>>  BY <2>1, EmptyList
  <2>4. Last(s) = Flush  BY <2>1, <2>2, <2>3, ListFront
  <2>5. ToSet(s) = {a, Flush}  BY <2>1, <2>2 DEF ToSet
  <2> QED  BY <2>1, <2>2, <2>3, <2>4, <2>5
<1>4. \A k \in 1 .. Len(s) : RequestOK(s[k])
  <2>1. \A k \in 1 .. 2 : k = 1 \/ k = 2  OBVIOUS
  <2> QED  BY <1>1, <1>3, <2>1, RequestIs
<1>5. a.how = "Index" /\ a.resource = BackBuffer /\ Flush.how = "Flush"
  BY <1>1 DEF Index, Flush
<1>6. Agreed => /\ \A p, q \in ToSet(s) : Together(p, q)
                /\ s # <<>> /\ Last(s) = Flush
  BY <1>3, <1>5 DEF Together
<1>7. \A r \in Buffer \ ready :
         \A k \in 1 .. Len(s) : s[k].how = "Flush" \/ s[k].resource # r
  <2>1. \A k \in 1 .. 2 : k = 1 \/ k = 2  OBVIOUS
  <2> QED  BY <1>3, <1>5, <2>1, ResourceAssumption
<1>8. PICK d : d = Performed(context, s)  OBVIOUS
<1>9. ContextOK(d) /\ d.open /\ LineOK(submitted \o closed, d, onResource, ready)
  BY <1>3, <1>4, <1>6, <1>7, <1>8, PerformedOK
<1>10. FlushCommands(d) /\ recorded' \in 0 .. MaxCommands
  BY <1>1, <1>2, <1>8, ResourceAssumption DEF SwapBuffers, Recording, Exact
<1> QED  BY <1>9, <1>10, FlushExact

LEMMA GenerateExact ==
    ASSUME Exact, GenerateBarrierCommandListAndUpdateState
    PROVE  Exact'
<1>1. PICK l : l = Head(submitted)  OBVIOUS
<1>2. PICK line : line = submitted \o closed  OBVIOUS
<1>3. PICK b : b = Barriers(l)  OBVIOUS
<1>4. PICK new : new = StatesLeft(l)  OBVIOUS
<1>5. /\ submitted # <<>> /\ onResource' = new /\ submitted' = Tail(submitted)
      /\ queue' = (queue \o b) \o l.commands
      /\ waiting' => submitted' # <<>>
      /\ UNCHANGED <<asserts, context, closed, actual, ready, recorded>>
  BY <1>1, <1>3, <1>4 DEF GenerateBarrierCommandListAndUpdateState, Barriers, StatesLeft
<1>6. /\ IsList(submitted) /\ IsList(closed) /\ LineOK(line, context, onResource, ready)
      /\ ResourcesOK(onResource) /\ Chain(queue, actual, Of(onResource))
  BY <1>2 DEF Exact
<1>7. line # <<>> /\ Head(line) = l /\ submitted' \o closed' = Tail(line)
  BY <1>1, <1>2, <1>5, <1>6, LineMoves
<1>8. IsList(submitted')  BY <1>5, <1>6, ListTail
<1>9. ListOK(l) /\ \A r \in Filled(l.commands) :
          GetSubresourceState(onResource[r], 0) = {"COPY_DEST"}
  <2>1. IsList(line)  BY <1>6 DEF LineOK
  <2>2. 1 \in 1 .. Len(line) /\ l = line[1]
    <3>1. Len(line) \in Nat \ {0} /\ Head(line) = line[1]  BY <1>7, <2>1, ListTail
    <3> QED  BY <1>7, <3>1
  <2> QED  BY <1>6, <2>2 DEF LineOK, Fresh
<1>10. /\ ResourcesOK(new)
       /\ \A r \in Resource : \A i \in Sub(r) :
             GetSubresourceState(l.tracked[r], i) = TBD =>
                 GetSubresourceState(new[r], i) = GetSubresourceState(onResource[r], i)
       /\ \E T : Chain(b, Of(onResource), T) /\ Chain(l.commands, T, Of(new))
  <2>1. ResourcesOK(onResource)  BY <1>6
  <2>2. /\ ListOK(l)
        /\ \A r \in Filled(l.commands) :
              GetSubresourceState(onResource[r], 0) = {"COPY_DEST"}
    BY <1>9
  <2> QED  BY <1>3, <1>4, <2>1, <2>2, ListSubmitted
<1>11. LineOK(Tail(line), context, new, ready)
  BY <1>6, <1>7, <1>10, LineAdvances
<1>12. Chain((queue \o b) \o l.commands, actual, Of(new))
  <2>1. PICK T : Chain(b, Of(onResource), T) /\ Chain(l.commands, T, Of(new))  BY <1>10
  <2>2. Chain(queue \o b, actual, T)  BY <1>6, <2>1, ChainConcat
  <2> QED  BY <2>1, <2>2, ChainConcat
<1>13. Chain(queue', actual', Of(onResource'))  BY <1>5, <1>12
<1>14. LineOK(submitted' \o closed', context', onResource', ready')
  BY <1>5, <1>7, <1>11
<1>15. ResourcesOK(onResource') /\ ContextOK(context') /\ IsList(closed')
  BY <1>5, <1>10 DEF Exact
<1> QED  BY <1>5, <1>8, <1>13, <1>14, <1>15 DEF Exact

LEMMA ExecuteExact ==
    ASSUME Exact, Execute
    PROVE  Exact'
<1>1. Chain(queue, actual, Of(onResource)) /\ queue # <<>>  BY DEF Exact, Execute
<1>2. Chain(Tail(queue), Executed(actual, Head(queue)), Of(onResource))
  BY <1>1, ChainFirst
<1>3. /\ queue' = Tail(queue) /\ actual' = Executed(actual, Head(queue))
      /\ UNCHANGED <<asserts, context, closed, submitted, onResource, ready, waiting, recorded>>
  BY DEF Execute
<1>4. Chain(queue', actual', Of(onResource'))  BY <1>2, <1>3
<1> QED  BY <1>3, <1>4 DEF Exact

LEMMA NextExact == Exact /\ [Next]_vars => Exact'
<1> SUFFICES ASSUME Exact, [Next]_vars  PROVE Exact'
  OBVIOUS
<1>1. CASE \E c \in Command : Record(c)  BY <1>1, RecordExact
<1>2. CASE \E r \in Buffer, split \in BOOLEAN : InitializeBuffer(r, split)
  BY <1>2, InitializeExact
<1>3. CASE AddUAVBarrier  BY <1>3, AddUAVExact
<1>4. CASE EndFrame  BY <1>4, EndFrameExact
<1>5. CASE SwapBuffers  BY <1>5, SwapBuffersExact
<1>6. CASE GenerateBarrierCommandListAndUpdateState  BY <1>6, GenerateExact
<1>7. CASE Execute  BY <1>7, ExecuteExact
<1>8. CASE UNCHANGED vars  BY <1>8 DEF vars, Exact
<1> QED  BY <1>1, <1>2, <1>3, <1>4, <1>5, <1>6, <1>7, <1>8 DEF Next

\* The invariant holds throughout.
THEOREM StatesExact == Spec => []Exact
<1>1. Init => Exact  BY InitExact
<1>2. Exact /\ [Next]_vars => Exact'  BY NextExact
<1> QED  BY <1>1, <1>2, PTL DEF Spec

-----------------------------------------------------------------------------
(***************************************************************************)
(* What the invariant is for.                                              *)
(***************************************************************************)
LEMMA ExactTyped ==
    ASSUME Exact
    PROVE  TypeOK
<1>1. IsStates(actual)  BY ChainStates DEF Exact
<1>2. ASSUME NEW r \in Resource, NEW i \in Sub(r)
      PROVE  /\ GetSubresourceState(onResource[r], i) \subseteq Flags
             /\ actual[r][i] \subseteq Flags
             /\ \/ GetSubresourceState(context.tracked[r], i) = TBD
                \/ GetSubresourceState(context.tracked[r], i) \subseteq Flags
  <2>1. GetSubresourceState(onResource[r], i) \in Known  BY DEF Exact, ResourcesOK
  <2>2. actual[r][i] \in Known  BY <1>1 DEF IsStates
  <2>3. GetSubresourceState(context.tracked[r], i) \in Tracked
    BY DEF Exact, ContextOK, TrackedOK, StatesOK
  <2> QED  BY <2>1, <2>2, <2>3 DEF Tracked, Known
<1>3. ~ context.open => context.pending = <<>> /\ context.commands = <<>>
  <2>1. PICK b : b = context.batch  OBVIOUS
  <2>2. ~ context.open => context = Closed(b)  BY <2>1 DEF Exact, ContextOK, ContextIs
  <2>3. Closed(b).pending = <<>> /\ Closed(b).commands = <<>>  BY DEF Closed
  <2> QED  BY <2>2, <2>3
<1>4. /\ asserts \in BOOLEAN /\ ready \subseteq Buffer
      /\ (waiting => submitted # <<>>) /\ recorded \in 0 .. MaxCommands
  BY DEF Exact
<1> QED  BY <1>2, <1>3, <1>4 DEF TypeOK

LEMMA ExactMatches ==
    ASSUME Exact
    PROVE  BarriersMatch
<1> SUFFICES ASSUME queue # <<>>, Head(queue).kind = "Transition"
             PROVE  \A i \in Affected(Head(queue).resource, Head(queue).sub) :
                        actual[Head(queue).resource][i] = Head(queue).before
  BY DEF BarriersMatch
<1>1. PICK op : op = Head(queue)  OBVIOUS
<1>2. Legal(op) /\ Finds(actual, op)  BY <1>1, ChainFirst DEF Exact
<1>3. op.resource \in Resource /\ SubOK(op.resource, op.sub)  BY <1>1, <1>2 DEF Legal
<1>4. PICK r \in Resource : r = op.resource  BY <1>3
<1>5. Affected(r, op.sub) \subseteq Sub(r)  BY <1>3, <1>4, SubIs
<1>6. \A i \in Affected(r, op.sub) : actual[r][i] = op.before
  BY <1>1, <1>2, <1>4, <1>5 DEF Finds, Touches
<1> QED  BY <1>1, <1>4, <1>6

LEMMA ExactTracked ==
    ASSUME Exact
    PROVE  TrackingExact
<1>1. FoldLeft(Executed, actual, queue) = Of(onResource)  BY ChainFold DEF Exact
<1>2. \A r \in Resource : \A i \in Sub(r) :
         Of(onResource)[r][i] = GetSubresourceState(onResource[r], i)
  BY OfIs DEF Exact
<1> QED  BY <1>1, <1>2 DEF TrackingExact

\* States that meet what a list expects.
Named(pending, k, r, i) ==
    k \in 1 .. Len(pending) /\ pending[k].resource = r /\ pending[k].sub = i

MetBy(pending, filled, r, i) ==
    IF \E k : Named(pending, k, r, i)
    THEN pending[CHOOSE k : Named(pending, k, r, i)].state
    ELSE IF r \in filled THEN {"COPY_DEST"} ELSE {}

Meeting(pending, filled) ==
    [r \in Resource |-> [i \in Sub(r) |-> MetBy(pending, filled, r, i)]]

\* What a list expects can be met, so that its commands are legal whatever is pending.
LEMMA CanMeet ==
    ASSUME NEW pending, NEW tracked, PendingOK(pending, tracked),
           NEW filled, filled \subseteq Buffer, FilledOK(pending, tracked, filled)
    PROVE  \E S : Meets(S, pending, filled)
<1>1. PICK S : S = Meeting(pending, filled)  OBVIOUS
<1>2. \A r \in Resource : \A i \in Sub(r) : S[r][i] = MetBy(pending, filled, r, i)
  BY <1>1 DEF Meeting
<1>3. ASSUME NEW k \in 1 .. Len(pending), NEW r, NEW i, Named(pending, k, r, i)
      PROVE  MetBy(pending, filled, r, i) = pending[k].state
  <2>1. PICK j : j = CHOOSE l : Named(pending, l, r, i)  OBVIOUS
  <2>2. Named(pending, j, r, i)  BY <1>3, <2>1
  <2>3. j = k  BY <1>3, <2>2 DEF Named, PendingOK
  <2> QED  BY <1>3, <2>1, <2>3 DEF MetBy
<1>4. {"COPY_DEST"} \in Known /\ {} \in Known  BY DEF Known, Flags
<1>5. \A r \in Resource : \A i \in Sub(r) : MetBy(pending, filled, r, i) \in Known
  <2> SUFFICES ASSUME NEW r \in Resource, NEW i \in Sub(r)
               PROVE  MetBy(pending, filled, r, i) \in Known
    OBVIOUS
  <2>1. CASE \E k : Named(pending, k, r, i)
    <3>1. PICK k : Named(pending, k, r, i)  BY <2>1
    <3>2. k \in 1 .. Len(pending)  BY <3>1 DEF Named
    <3>3. MetBy(pending, filled, r, i) = pending[k].state  BY <1>3, <3>1, <3>2
    <3> QED  BY <3>2, <3>3 DEF PendingOK
  <2>2. CASE ~ \E k : Named(pending, k, r, i)  BY <1>4, <2>2 DEF MetBy
  <2> QED  BY <2>1, <2>2
<1>6. IsStates(S)
  <2>1. S = [r \in Resource |-> [i \in Sub(r) |-> S[r][i]]]
    BY <1>1 DEF Meeting
  <2> QED  BY <1>2, <1>5, <2>1 DEF IsStates
<1>7. ASSUME NEW k \in 1 .. Len(pending)
      PROVE  S[pending[k].resource][pending[k].sub] = pending[k].state
  <2>1. PICK r \in Resource : r = pending[k].resource  BY DEF PendingOK
  <2>2. PICK i \in Sub(r) : i = pending[k].sub  BY <2>1 DEF PendingOK
  <2>3. Named(pending, k, r, i)  BY <2>1, <2>2 DEF Named
  <2>4. MetBy(pending, filled, r, i) = pending[k].state  BY <1>3, <2>3
  <2>5. S[r][i] = pending[k].state  BY <1>2, <2>4
  <2> QED  BY <2>1, <2>2, <2>5
<1>8. ASSUME NEW r \in filled  PROVE S[r][0] = {"COPY_DEST"}
  <2>1. r \in Resource /\ 0 \in Sub(r)  BY ResourceAssumption, SubIs
  <2>2. \A k : ~ Named(pending, k, r, 0)  BY DEF FilledOK, Named
  <2>3. MetBy(pending, filled, r, 0) = {"COPY_DEST"}  BY <2>2 DEF MetBy
  <2> QED  BY <1>2, <2>1, <2>3
<1>9. Meets(S, pending, filled)  BY <1>6, <1>7, <1>8 DEF Meets
<1> QED  BY <1>9

LEMMA LegalConcat ==
    ASSUME NEW s, IsList(s), \A k \in 1 .. Len(s) : Legal(s[k]),
           NEW t, IsList(t), \A k \in 1 .. Len(t) : Legal(t[k]),
           NEW u, u = s \o t
    PROVE  IsList(u) /\ \A k \in 1 .. Len(u) : Legal(u[k])
<1>1. PICK n \in Nat : n = Len(s)  BY ListIs
<1>2. PICK m \in Nat : m = Len(t)  BY ListIs
<1>3. /\ IsList(u) /\ Len(u) = n + m
      /\ \A i \in 1 .. n : u[i] = s[i]
      /\ \A i \in 1 .. m : u[n + i] = t[i]
  BY <1>1, <1>2, ListConcat
<1> SUFFICES ASSUME NEW k \in 1 .. n + m  PROVE Legal(u[k])
  BY <1>3
<1>4. CASE k <= n
  <2>1. k \in 1 .. n  BY <1>4
  <2> QED  BY <1>1, <1>3, <2>1
<1>5. CASE ~ (k <= n)
  <2>1. PICK i \in 1 .. m : i = k - n /\ n + i = k
    <3>1. k - n \in 1 .. m /\ n + (k - n) = k  BY <1>5
    <3> QED  BY <3>1
  <2>2. u[n + i] = t[i] /\ Legal(t[i])  BY <1>2, <1>3, <2>1
  <2> QED  BY <2>1, <2>2
<1> QED  BY <1>4, <1>5

LEMMA ExactLegal ==
    ASSUME Exact
    PROVE  BarriersLegal
<1>1. PICK b : b = context.batch  OBVIOUS
<1>2. PICK m : m = context.commands  OBVIOUS
<1>3. PICK q : q = queue  OBVIOUS
<1>4. IsList(b) /\ IsList(m) /\ IsList(q)
  BY <1>1, <1>2, <1>3 DEF Exact, ContextOK, ContextIs, Chain
<1>5. (\A k \in 1 .. Len(b) : Legal(b[k])) /\ (\A k \in 1 .. Len(m) : Legal(m[k]))
  <2>1. PICK filled : filled = Filled(m)  OBVIOUS
  <2>2. filled \subseteq Buffer  BY <2>1 DEF Filled
  <2>3. PICK S : Meets(S, context.pending, filled)
    BY <1>2, <2>1, <2>2, CanMeet DEF Exact, ContextOK
  <2>4. PICK T : T = After(context.tracked, S)  OBVIOUS
  <2>5. Runs(m, b, S, T)  BY <1>1, <1>2, <2>1, <2>3, <2>4 DEF Exact, ContextOK
  <2>6. PICK M : Chain(m, S, M) /\ Chain(b, M, T)  BY <2>5 DEF Runs
  <2> QED  BY <2>6, ChainStates
<1>6. \A k \in 1 .. Len(q) : Legal(q[k])  BY <1>3, ChainStates DEF Exact
<1>7. PICK p : p = b \o m  OBVIOUS
<1>8. PICK ops : ops = p \o q  OBVIOUS
<1>9. IsList(p) /\ \A k \in 1 .. Len(p) : Legal(p[k])
  BY <1>4, <1>5, <1>7, LegalConcat
<1>10. IsList(ops) /\ \A k \in 1 .. Len(ops) : Legal(ops[k])
  BY <1>4, <1>6, <1>8, <1>9, LegalConcat
<1>11. DOMAIN ops = 1 .. Len(ops)  BY <1>10, ListIs
<1>12. \A k \in DOMAIN ops : ops[k].kind = "Transition" =>
           ops[k].before # ops[k].after /\ ops[k].before \cup ops[k].after \subseteq Flags
  BY <1>10, <1>11 DEF Legal, Known
<1>13. \A k \in DOMAIN context.pending : context.pending[k].state \subseteq Flags
  BY ListIs DEF Exact, ContextOK, PendingOK, Known
<1>14. ops = context.batch \o context.commands \o queue
  BY <1>1, <1>2, <1>3, <1>7, <1>8
<1> QED  BY <1>12, <1>13, <1>14 DEF BarriersLegal

LEMMA ExactServes ==
    ASSUME Agreed, Exact
    PROVE  UsesFindState
<1> SUFFICES ASSUME queue # <<>>, Head(queue).kind = "Use"
             PROVE  \A n \in Head(queue).needs : Allows(actual[n.resource][n.sub], n.state)
  BY DEF UsesFindState
<1>1. Finds(actual, Head(queue))  BY ChainFirst DEF Exact
<1> QED  BY <1>1 DEF Finds

(***************************************************************************)
(* The variables keep their types, and a list that is not open has nothing *)
(* recorded on it.                                                         *)
(***************************************************************************)
THEOREM StatesTyped == Spec => []TypeOK
<1>1. Exact => TypeOK  BY ExactTyped
<1> QED  BY <1>1, StatesExact, PTL

(***************************************************************************)
(* Every transition the graphics queue comes to starts from the state the  *)
(* resource is in, for any commands and any order of the three threads.    *)
(***************************************************************************)
THEOREM TransitionsMatch == Spec => []BarriersMatch
<1>1. Exact => BarriersMatch  BY ExactMatches
<1> QED  BY <1>1, StatesExact, PTL

(***************************************************************************)
(* The states tracked on the resources are those the GPU leaves when it    *)
(* has executed what it was given.                                         *)
(***************************************************************************)
THEOREM TrackedIsActual == Spec => []TrackingExact
<1>1. Exact => TrackingExact  BY ExactTracked
<1> QED  BY <1>1, StatesExact, PTL

(***************************************************************************)
(* Every barrier recorded, batched or on its way changes the state, and    *)
(* neither TBD nor CORRUPT is a state of one.                              *)
(***************************************************************************)
THEOREM TransitionsLegal == Spec => []BarriersLegal
<1>1. Exact => BarriersLegal  BY ExactLegal
<1> QED  BY <1>1, StatesExact, PTL

(***************************************************************************)
(* When no command asks for one subresource in two states at once, and     *)
(* each flushes its barriers before it executes, every command finds its   *)
(* resources in states that allow the uses it asked for.                   *)
(***************************************************************************)
THEOREM UsesAllowed ==
    ASSUME Agreed
    PROVE  Spec => []UsesFindState
<1>1. Agreed /\ Exact => UsesFindState  BY ExactServes
<1>2. Exact => UsesFindState  BY <1>1
<1> QED  BY <1>2, StatesExact, PTL

=============================================================================
