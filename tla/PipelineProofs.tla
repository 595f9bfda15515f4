--------------------------- MODULE PipelineProofs ---------------------------
(***************************************************************************)
(* What the pipeline guarantees for any universe, any market and any       *)
(* limits: the book that is traded keeps all its limits at once, trades    *)
(* approach it, the breaker is released only when recovery is confirmed,   *)
(* and the pairing of the fills loses no share, no fee and no order.       *)
(***************************************************************************)
EXTENDS Pipeline, WellFoundedInduction, FiniteSetTheorems, TLAPS

-----------------------------------------------------------------------------
(* Induction over a set of numbers, and over the subsets of a finite set. *)

LEMMA Induction ==
    ASSUME NEW P \in SUBSET Nat, 0 \in P, \A n \in P : n + 1 \in P
    PROVE  \A n \in Nat : n \in P
<1> SUFFICES ASSUME NEW m \in Nat, m \notin P PROVE FALSE
  OBVIOUS
<1> DEFINE Out == Nat \ P
<1>1. Out \subseteq Nat /\ Out # {}
  OBVIOUS
<1>2. PICK x \in Out : \A y \in Out : ~ (<<y, x>> \in OpToRel(<, Nat))
  <2> HIDE DEF Out
  <2> QED BY <1>1, WFMin, NatLessThanWellFounded
<1>3. x \in Nat /\ x \notin P /\ x # 0
  OBVIOUS
<1>4. x - 1 \in Nat /\ x - 1 < x
  BY <1>3
<1>5. x - 1 \in P
  BY <1>2, <1>4 DEF OpToRel
<1>6. (x - 1) + 1 = x
  BY <1>3
<1> QED BY <1>3, <1>5, <1>6

LEMMA SetInduction ==
    ASSUME NEW S, IsFiniteSet(S), NEW P \in SUBSET (SUBSET S), {} \in P,
           \A T \in P : \A x \in S \ T : T \cup {x} \in P
    PROVE  \A T \in SUBSET S : T \in P
<1> DEFINE Q == {n \in Nat : \A T \in SUBSET S : Cardinality(T) = n => T \in P}
<1>1. \A T \in SUBSET S : IsFiniteSet(T) /\ Cardinality(T) \in Nat
  BY FS_Subset, FS_CardinalityType
<1>2. 0 \in Q
  BY <1>1, FS_EmptySet
<1>3. ASSUME NEW n \in Q PROVE n + 1 \in Q
  <2> SUFFICES ASSUME NEW T \in SUBSET S, Cardinality(T) = n + 1 PROVE T \in P
    OBVIOUS
  <2>1. T # {}
    <3>1. n + 1 # 0
      OBVIOUS
    <3> QED BY <3>1, FS_EmptySet
  <2>2. PICK x : x \in T
    BY <2>1
  <2>3. T \ {x} \in SUBSET S /\ IsFiniteSet(T) /\ Cardinality(T \ {x}) = Cardinality(T) - 1
    BY <1>1, <2>2, FS_RemoveElement
  <2>4. Cardinality(T \ {x}) = n
    <3>1. \A m \in Nat : (m + 1) - 1 = m
      OBVIOUS
    <3> QED BY <2>3, <3>1
  <2>5. T \ {x} \in P
    BY <2>3, <2>4
  <2>6. x \in S \ (T \ {x}) /\ (T \ {x}) \cup {x} = T
    BY <2>2
  <2> QED BY <2>5, <2>6
<1>4. \A n \in Nat : n \in Q
  <2>1. Q \in SUBSET Nat /\ \A n \in Q : n + 1 \in Q
    BY <1>3
  <2> HIDE DEF Q
  <2> QED BY <1>2, <2>1, Induction
<1> QED BY <1>1, <1>4

-----------------------------------------------------------------------------
(* Sums *)

Pick(s) == CHOOSE x \in s : TRUE

\* F sums f over each subset of S, an element at a time.
Sums(F, f, S) ==
    /\ F \in [SUBSET S -> Int]
    /\ \A s \in SUBSET S : F[s] = IF s = {} THEN 0 ELSE f[Pick(s)] + F[s \ {Pick(s)}]

LEMMA SumsExist ==
    ASSUME NEW S, IsFiniteSet(S), NEW f, \A x \in S : f[x] \in Int
    PROVE  \E F : Sums(F, f, S)
<1> DEFINE UpTo(F, n) == /\ F \in [SUBSET S -> Int]
                         /\ \A s \in SUBSET S : Cardinality(s) <= n =>
                              F[s] = IF s = {} THEN 0 ELSE f[Pick(s)] + F[s \ {Pick(s)}]
           Q == {n \in Nat : \E F : UpTo(F, n)}
<1>1. \A T \in SUBSET S : IsFiniteSet(T) /\ Cardinality(T) \in Nat /\ Cardinality(T) <= Cardinality(S)
                          /\ (Cardinality(T) = 0 <=> T = {})
  BY FS_Subset, FS_CardinalityType, FS_EmptySet
<1>2. \A s \in SUBSET S : s # {} => /\ Pick(s) \in s /\ Pick(s) \in S /\ s \ {Pick(s)} \in SUBSET S
                                    /\ Cardinality(s \ {Pick(s)}) = Cardinality(s) - 1
  <2> SUFFICES ASSUME NEW s \in SUBSET S, s # {}
               PROVE  /\ Pick(s) \in s /\ Pick(s) \in S /\ s \ {Pick(s)} \in SUBSET S
                      /\ Cardinality(s \ {Pick(s)}) = Cardinality(s) - 1
    OBVIOUS
  <2>1. Pick(s) \in s
    BY DEF Pick
  <2> QED BY <1>1, <2>1, FS_RemoveElement
<1>3. 0 \in Q
  <2> DEFINE F == [s \in SUBSET S |-> 0]
  <2>1. \A s \in SUBSET S : Cardinality(s) <= 0 => s = {}
    BY <1>1
  <2>2. UpTo(F, 0)
    BY <2>1
  <2> HIDE DEF UpTo
  <2> QED BY <2>2
<1>4. ASSUME NEW n \in Nat, NEW F, UpTo(F, n) PROVE \E G : UpTo(G, n + 1)
  <2> DEFINE G == [s \in SUBSET S |-> IF Cardinality(s) = n + 1
                                      THEN f[Pick(s)] + F[s \ {Pick(s)}] ELSE F[s]]
  <2>1. /\ F \in [SUBSET S -> Int]
        /\ \A s \in SUBSET S : Cardinality(s) <= n =>
             F[s] = IF s = {} THEN 0 ELSE f[Pick(s)] + F[s \ {Pick(s)}]
    BY <1>4
  <2>2. ASSUME NEW s \in SUBSET S, Cardinality(s) = n + 1
        PROVE  /\ s # {} /\ Pick(s) \in S /\ s \ {Pick(s)} \in SUBSET S
               /\ Cardinality(s \ {Pick(s)}) = n
    <3>1. n + 1 # 0 /\ (n + 1) - 1 = n
      OBVIOUS
    <3> QED BY <1>1, <1>2, <2>2, <3>1
  <2>3. \A s \in SUBSET S : Cardinality(s) = n + 1 =>
          f[Pick(s)] \in Int /\ F[s \ {Pick(s)}] \in Int
    BY <2>1, <2>2
  <2>4. G \in [SUBSET S -> Int]
    BY <2>1, <2>3
  <2>5. \A s \in SUBSET S : G[s] = IF Cardinality(s) = n + 1
                                   THEN f[Pick(s)] + F[s \ {Pick(s)}] ELSE F[s]
    OBVIOUS
  <2> HIDE DEF G
  <2>6. ASSUME NEW s \in SUBSET S, Cardinality(s) <= n + 1
        PROVE  G[s] = IF s = {} THEN 0 ELSE f[Pick(s)] + G[s \ {Pick(s)}]
    <3>1. CASE Cardinality(s) = n + 1
      <4>1. G[s \ {Pick(s)}] = F[s \ {Pick(s)}]
        <5>1. n # n + 1
          OBVIOUS
        <5> QED BY <2>2, <2>5, <3>1, <5>1
      <4> QED BY <2>2, <2>5, <3>1, <4>1
    <3>2. CASE Cardinality(s) # n + 1
      <4>1. Cardinality(s) <= n
        BY <1>1, <2>6, <3>2
      <4>2. G[s] = F[s] /\ F[s] = IF s = {} THEN 0 ELSE f[Pick(s)] + F[s \ {Pick(s)}]
        BY <2>1, <2>5, <3>2, <4>1
      <4>3. CASE s = {}
        BY <4>2, <4>3
      <4>4. CASE s # {}
        <5>1. s \ {Pick(s)} \in SUBSET S /\ Cardinality(s \ {Pick(s)}) = Cardinality(s) - 1
          BY <1>2, <4>4
        <5>2. Cardinality(s \ {Pick(s)}) # n + 1
          BY <1>1, <4>1, <5>1
        <5>3. G[s \ {Pick(s)}] = F[s \ {Pick(s)}]
          BY <2>5, <5>1, <5>2
        <5> QED BY <4>2, <4>4, <5>3
      <4> QED BY <4>3, <4>4
    <3> QED BY <3>1, <3>2
  <2>7. UpTo(G, n + 1)
    BY <2>4, <2>6
  <2> HIDE DEF UpTo
  <2> QED BY <2>7
<1> HIDE DEF UpTo
<1>5. \A n \in Nat : n \in Q
  <2>1. Q \in SUBSET Nat /\ \A n \in Q : n + 1 \in Q
    BY <1>4
  <2> HIDE DEF Q
  <2> QED BY <1>3, <2>1, Induction
<1>6. PICK F : UpTo(F, Cardinality(S))
  BY <1>1, <1>5
<1>7. Sums(F, f, S)
  BY <1>1, <1>6 DEF UpTo, Sums
<1> QED BY <1>7

\* The library's sum is one of these.
LEMMA SumIsSums ==
    ASSUME NEW S, IsFiniteSet(S), NEW f, \A x \in S : f[x] \in Int
    PROVE  \E F : Sums(F, f, S) /\ SumFunctionOnSet(f, S) = F[S]
<1> DEFINE Body(H) == [s \in SUBSET S |-> IF s = {} THEN 0
                         ELSE f[CHOOSE x \in s : TRUE] + H[s \ {CHOOSE x \in s : TRUE}]]
           E == CHOOSE H : H = Body(H)
<1>1. PICK F : Sums(F, f, S)
  BY SumsExist
<1>2. F = Body(F)
  BY <1>1 DEF Sums, Pick
<1>3. E = Body(E)
  BY <1>2
<1>4. SumFunctionOnSet(f, S) = E[S]
  BY DEF SumFunctionOnSet, FoldFunctionOnSet, MapThenFoldSet
<1> HIDE DEF E
<1>5. \A s \in SUBSET S : E[s] = IF s = {} THEN 0 ELSE f[Pick(s)] + E[s \ {Pick(s)}]
  BY <1>3 DEF Pick
<1>6. \A s \in SUBSET S : E[s] = F[s]
  <2> DEFINE Q == {n \in Nat : \A s \in SUBSET S : Cardinality(s) = n => E[s] = F[s]}
  <2>1. \A s \in SUBSET S : IsFiniteSet(s) /\ Cardinality(s) \in Nat /\ (Cardinality(s) = 0 <=> s = {})
    BY FS_Subset, FS_CardinalityType, FS_EmptySet
  <2>2. 0 \in Q
    BY <1>1, <1>5, <2>1 DEF Sums
  <2>3. ASSUME NEW n \in Q PROVE n + 1 \in Q
    <3> SUFFICES ASSUME NEW s \in SUBSET S, Cardinality(s) = n + 1 PROVE E[s] = F[s]
      OBVIOUS
    <3>1. s # {}
      BY <2>1
    <3>2. Pick(s) \in s /\ s \ {Pick(s)} \in SUBSET S
      BY <3>1 DEF Pick
    <3>3. Cardinality(s \ {Pick(s)}) = n
      <4>1. Cardinality(s \ {Pick(s)}) = Cardinality(s) - 1
        BY <2>1, <3>2, FS_RemoveElement
      <4> QED BY <4>1
    <3>4. E[s \ {Pick(s)}] = F[s \ {Pick(s)}]
      BY <3>2, <3>3
    <3> QED BY <1>1, <1>5, <3>1, <3>4 DEF Sums
  <2>4. \A n \in Nat : n \in Q
    <3>1. Q \in SUBSET Nat /\ \A n \in Q : n + 1 \in Q
      BY <2>3
    <3> HIDE DEF Q
    <3> QED BY <2>2, <3>1, Induction
  <2> QED BY <2>1, <2>4
<1> QED BY <1>1, <1>4, <1>6

LEMMA SumsAgree ==
    ASSUME NEW S, IsFiniteSet(S), NEW T, NEW f, NEW g, NEW F, NEW G,
           Sums(F, f, S), Sums(G, g, T), S \subseteq T, \A x \in S : f[x] = g[x]
    PROVE  F[S] = G[S]
<1> DEFINE Q == {n \in Nat : \A s \in SUBSET S : Cardinality(s) = n => F[s] = G[s]}
<1>1. \A s \in SUBSET S : IsFiniteSet(s) /\ Cardinality(s) \in Nat /\ (Cardinality(s) = 0 <=> s = {})
  BY FS_Subset, FS_CardinalityType, FS_EmptySet
<1>2. \A s \in SUBSET S :
        /\ F[s] = IF s = {} THEN 0 ELSE f[Pick(s)] + F[s \ {Pick(s)}]
        /\ G[s] = IF s = {} THEN 0 ELSE g[Pick(s)] + G[s \ {Pick(s)}]
  BY DEF Sums
<1>3. 0 \in Q
  BY <1>1, <1>2
<1>4. ASSUME NEW n \in Q PROVE n + 1 \in Q
  <2> SUFFICES ASSUME NEW s \in SUBSET S, Cardinality(s) = n + 1 PROVE F[s] = G[s]
    OBVIOUS
  <2>1. s # {}
    BY <1>1
  <2>2. Pick(s) \in s /\ Pick(s) \in S /\ s \ {Pick(s)} \in SUBSET S
    BY <2>1 DEF Pick
  <2>3. Cardinality(s \ {Pick(s)}) = n
    <3>1. Cardinality(s \ {Pick(s)}) = Cardinality(s) - 1
      BY <1>1, <2>2, FS_RemoveElement
    <3> QED BY <3>1
  <2>4. F[s \ {Pick(s)}] = G[s \ {Pick(s)}] /\ f[Pick(s)] = g[Pick(s)]
    BY <2>2, <2>3
  <2> QED BY <1>2, <2>1, <2>4
<1>5. \A n \in Nat : n \in Q
  <2>1. Q \in SUBSET Nat /\ \A n \in Q : n + 1 \in Q
    BY <1>4
  <2> HIDE DEF Q
  <2> QED BY <1>3, <2>1, Induction
<1> QED BY <1>1, <1>5

LEMMA SumsOfAny ==
    ASSUME NEW S, IsFiniteSet(S), NEW f, NEW F, Sums(F, f, S), \A y \in S : f[y] \in Int, NEW z \in S
    PROVE  F[S] = f[z] + F[S \ {z}]
<1> DEFINE Q == {n \in Nat : \A s \in SUBSET S : Cardinality(s) = n =>
                                \A x \in s : F[s] = f[x] + F[s \ {x}]}
<1>1. \A s \in SUBSET S : IsFiniteSet(s) /\ Cardinality(s) \in Nat /\ (Cardinality(s) = 0 <=> s = {})
  BY FS_Subset, FS_CardinalityType, FS_EmptySet
<1>2. \A s \in SUBSET S : F[s] \in Int /\ (s # {} => F[s] = f[Pick(s)] + F[s \ {Pick(s)}])
  BY DEF Sums
<1>3. 0 \in Q
  BY <1>1
<1>4. ASSUME NEW n \in Q PROVE n + 1 \in Q
  <2> SUFFICES ASSUME NEW s \in SUBSET S, Cardinality(s) = n + 1, NEW x \in s
               PROVE  F[s] = f[x] + F[s \ {x}]
    OBVIOUS
  <2> DEFINE y == Pick(s)
             rest == (s \ {x}) \ {y}
  <2>1. y \in s
    BY DEF Pick
  <2>2. F[s] = f[y] + F[s \ {y}]
    BY <1>2
  <2> HIDE DEF y
  <2>3. CASE x = y
    BY <2>2, <2>3
  <2>4. CASE x # y
    <3>1. /\ s \ {x} \in SUBSET S /\ Cardinality(s \ {x}) = n /\ y \in s \ {x}
          /\ s \ {y} \in SUBSET S /\ Cardinality(s \ {y}) = n /\ x \in s \ {y}
      <4>1. /\ Cardinality(s \ {x}) = Cardinality(s) - 1
            /\ Cardinality(s \ {y}) = Cardinality(s) - 1
        BY <1>1, <2>1, FS_RemoveElement
      <4>2. (n + 1) - 1 = n
        OBVIOUS
      <4> QED BY <2>1, <2>4, <4>1, <4>2
    <3>2. F[s \ {y}] = f[x] + F[(s \ {y}) \ {x}] /\ F[s \ {x}] = f[y] + F[(s \ {x}) \ {y}]
      BY <3>1
    <3>3. (s \ {y}) \ {x} = rest
      OBVIOUS
    <3>4. f[x] \in Int /\ f[y] \in Int /\ F[rest] \in Int
      BY <1>2, <2>1
    <3> HIDE DEF rest
    <3>5. F[s] = f[y] + (f[x] + F[rest]) /\ F[s \ {x}] = f[y] + F[rest]
      BY <2>2, <3>2, <3>3 DEF rest
    <3> QED BY <3>4, <3>5
  <2> QED BY <2>3, <2>4
<1>5. \A n \in Nat : n \in Q
  <2>1. Q \in SUBSET Nat /\ \A n \in Q : n + 1 \in Q
    BY <1>4
  <2> HIDE DEF Q
  <2> QED BY <1>3, <2>1, Induction
<1> QED BY <1>1, <1>5

LEMMA SumEmpty == \A f : SumFunctionOnSet(f, {}) = 0
<1> SUFFICES ASSUME NEW f PROVE SumFunctionOnSet(f, {}) = 0
  OBVIOUS
<1> DEFINE none == {}
<1>1. IsFiniteSet(none) /\ \A x \in none : f[x] \in Int
  BY FS_EmptySet
<1> HIDE DEF none
<1>2. PICK F : Sums(F, f, none) /\ SumFunctionOnSet(f, none) = F[none]
  BY <1>1, SumIsSums
<1> QED BY <1>2 DEF Sums, none

LEMMA SumIsInt ==
    ASSUME NEW S, IsFiniteSet(S), NEW f, \A x \in S : f[x] \in Int
    PROVE  SumFunctionOnSet(f, S) \in Int
<1>1. PICK F : Sums(F, f, S) /\ SumFunctionOnSet(f, S) = F[S]
  BY SumIsSums
<1>2. F \in [SUBSET S -> Int]
  BY <1>1 DEF Sums
<1> QED BY <1>1, <1>2

\* Any element may be taken out of a sum.
LEMMA SumSplit ==
    ASSUME NEW S, IsFiniteSet(S), NEW f, \A x \in S : f[x] \in Int, NEW x \in S
    PROVE  SumFunctionOnSet(f, S) = f[x] + SumFunctionOnSet(f, S \ {x})
<1> DEFINE T == S \ {x}
<1>1. IsFiniteSet(T) /\ T \subseteq S /\ \A y \in T : f[y] \in Int
  BY FS_Subset
<1>2. PICK F : Sums(F, f, S) /\ SumFunctionOnSet(f, S) = F[S]
  BY SumIsSums
<1> HIDE DEF T
<1>3. PICK G : Sums(G, f, T) /\ SumFunctionOnSet(f, T) = G[T]
  BY <1>1, SumIsSums
<1>4. G[T] = F[T]
  BY <1>1, <1>2, <1>3, SumsAgree
<1>5. Sums(F, f, S)
  BY <1>2
<1>6. F[S] = f[x] + F[S \ {x}]
  BY <1>5, SumsOfAny
<1> QED BY <1>2, <1>3, <1>4, <1>6 DEF T

LEMMA SumAdd ==
    ASSUME NEW S, IsFiniteSet(S), NEW f, NEW x, x \notin S, \A y \in S \cup {x} : f[y] \in Int
    PROVE  SumFunctionOnSet(f, S \cup {x}) = SumFunctionOnSet(f, S) + f[x]
<1> DEFINE T == S \cup {x}
<1>1. IsFiniteSet(T) /\ x \in T /\ T \ {x} = S /\ \A y \in T : f[y] \in Int
  BY FS_AddElement
<1> HIDE DEF T
<1>2. SumFunctionOnSet(f, T) = f[x] + SumFunctionOnSet(f, T \ {x})
  BY <1>1, SumSplit
<1>3. SumFunctionOnSet(f, S) \in Int /\ f[x] \in Int
  <2>1. \A y \in S : f[y] \in Int
    OBVIOUS
  <2> QED BY <2>1, SumIsInt
<1>4. SumFunctionOnSet(f, T) = f[x] + SumFunctionOnSet(f, S)
  <2>1. T \ {x} = S
    BY <1>1
  <2> QED BY <1>2, <2>1
<1>5. \A a, b \in Int : a + b = b + a
  OBVIOUS
<1>6. SumFunctionOnSet(f, T) = SumFunctionOnSet(f, S) + f[x]
  BY ONLY <1>3, <1>4, <1>5
<1> QED BY <1>6 DEF T

\* A sum depends on the values summed only.
LEMMA SumSame ==
    ASSUME NEW S, IsFiniteSet(S), NEW f, NEW g, \A x \in S : f[x] = g[x] /\ f[x] \in Int
    PROVE  SumFunctionOnSet(f, S) = SumFunctionOnSet(g, S)
<1>1. PICK F : Sums(F, f, S) /\ SumFunctionOnSet(f, S) = F[S]
  BY SumIsSums
<1>2. PICK G : Sums(G, g, S) /\ SumFunctionOnSet(g, S) = G[S]
  BY SumIsSums
<1> QED BY <1>1, <1>2, SumsAgree

\* What compares term by term compares in the sum.
LEMMA SumCompare ==
    ASSUME NEW S, IsFiniteSet(S), NEW f, NEW g, NEW v \in Int, NEW w \in Int,
           \A x \in S : f[x] \in Int /\ g[x] \in Int /\ v * f[x] <= w * g[x]
    PROVE  v * SumFunctionOnSet(f, S) <= w * SumFunctionOnSet(g, S)
<1> DEFINE P == {T \in SUBSET S : v * SumFunctionOnSet(f, T) <= w * SumFunctionOnSet(g, T)}
<1>1. v * 0 <= w * 0
  OBVIOUS
<1>2. {} \in P
  BY <1>1, SumEmpty
<1>3. ASSUME NEW T \in P, NEW x \in S \ T PROVE T \cup {x} \in P
  <2> DEFINE F == SumFunctionOnSet(f, T)
             G == SumFunctionOnSet(g, T)
  <2>1. IsFiniteSet(T) /\ \A y \in T \cup {x} : f[y] \in Int /\ g[y] \in Int
    BY FS_Subset
  <2>2. /\ SumFunctionOnSet(f, T \cup {x}) = F + f[x]
        /\ SumFunctionOnSet(g, T \cup {x}) = G + g[x]
    BY <2>1, SumAdd
  <2>3. F \in Int /\ G \in Int
    BY <2>1, SumIsInt
  <2>4. v * F <= w * G /\ v * f[x] <= w * g[x] /\ f[x] \in Int /\ g[x] \in Int
    OBVIOUS
  <2>5. \A a, b, c, d \in Int : v * a <= w * b /\ v * c <= w * d => v * (a + c) <= w * (b + d)
    <3>1. \A a, c, u \in Int : u * (a + c) = u * a + u * c /\ u * a \in Int
      OBVIOUS
    <3>2. \A p, q, r, s \in Int : p <= r /\ q <= s => p + q <= r + s
      OBVIOUS
    <3> QED BY <3>1, <3>2
  <2> HIDE DEF F, G
  <2>6. v * (F + f[x]) <= w * (G + g[x])
    BY <2>3, <2>4, <2>5
  <2> QED BY <2>2, <2>6
<1>4. S \in P
  <2>1. P \in SUBSET (SUBSET S) /\ \A T \in P : \A x \in S \ T : T \cup {x} \in P
    BY <1>3
  <2> HIDE DEF P
  <2> QED BY <1>2, <2>1, SetInduction
<1> QED BY <1>4

\* Of natural numbers, a part sums to no more than the whole.
LEMMA SumOfPart ==
    ASSUME NEW S, IsFiniteSet(S), NEW f, \A x \in S : f[x] \in Nat, NEW R \in SUBSET S
    PROVE  /\ SumFunctionOnSet(f, S) \in Nat
           /\ SumFunctionOnSet(f, R) <= SumFunctionOnSet(f, S)
<1> DEFINE Sum(T) == SumFunctionOnSet(f, T)
           P == {T \in SUBSET S : Sum(T) \in Nat /\ Sum(T \cap R) \in Nat /\ Sum(T \cap R) <= Sum(T)}
<1>1. {} \in P
  <2>1. {} \cap R = {} /\ 0 \in Nat /\ 0 <= 0
    OBVIOUS
  <2> QED BY <2>1, SumEmpty
<1>2. ASSUME NEW T \in P, NEW x \in S \ T PROVE T \cup {x} \in P
  <2>1. /\ IsFiniteSet(T) /\ IsFiniteSet(T \cap R) /\ x \notin T \cap R
        /\ (\A y \in T \cup {x} : f[y] \in Int) /\ (\A y \in (T \cap R) \cup {x} : f[y] \in Int)
    BY FS_Subset
  <2>2. Sum(T \cup {x}) = Sum(T) + f[x]
    BY <2>1, SumAdd
  <2>3. Sum((T \cup {x}) \cap R) = Sum(T \cap R) + (IF x \in R THEN f[x] ELSE 0)
    <3>1. CASE x \in R
      <4>1. (T \cup {x}) \cap R = (T \cap R) \cup {x}
        BY <3>1
      <4>2. Sum((T \cap R) \cup {x}) = Sum(T \cap R) + f[x]
        BY <2>1, SumAdd
      <4> QED BY <3>1, <4>1, <4>2
    <3>2. CASE x \notin R
      <4>1. (T \cup {x}) \cap R = T \cap R
        BY <3>2
      <4> QED BY <3>2, <4>1
    <3> QED BY <3>1, <3>2
  <2>4. Sum(T) \in Nat /\ Sum(T \cap R) \in Nat /\ Sum(T \cap R) <= Sum(T) /\ f[x] \in Nat
    OBVIOUS
  <2> HIDE DEF Sum
  <2> QED BY <2>2, <2>3, <2>4
<1>3. S \in P
  <2>1. P \in SUBSET (SUBSET S) /\ \A T \in P : \A x \in S \ T : T \cup {x} \in P
    BY <1>2
  <2> HIDE DEF P
  <2> QED BY <1>1, <2>1, SetInduction
<1>4. S \cap R = R
  OBVIOUS
<1> QED BY <1>3, <1>4

\* A sum of terms of one size.
LEMMA SumOfEqual ==
    ASSUME NEW S, IsFiniteSet(S), NEW f, NEW w \in Nat, \A x \in S : f[x] = w
    PROVE  SumFunctionOnSet(f, S) = w * Cardinality(S)
<1> DEFINE P == {T \in SUBSET S : SumFunctionOnSet(f, T) = w * Cardinality(T)}
<1>1. {} \in P
  <2>1. w * 0 = 0
    OBVIOUS
  <2> QED BY <2>1, SumEmpty, FS_EmptySet
<1>2. ASSUME NEW T \in P, NEW x \in S \ T PROVE T \cup {x} \in P
  <2>1. IsFiniteSet(T) /\ \A y \in T \cup {x} : f[y] \in Int
    BY FS_Subset
  <2>2. SumFunctionOnSet(f, T \cup {x}) = SumFunctionOnSet(f, T) + f[x] /\ f[x] = w
    BY <2>1, SumAdd
  <2>3. Cardinality(T \cup {x}) = Cardinality(T) + 1 /\ Cardinality(T) \in Nat
    BY <2>1, FS_AddElement, FS_CardinalityType
  <2>4. \A n \in Nat : w * (n + 1) = w * n + w
    OBVIOUS
  <2> QED BY <2>2, <2>3, <2>4
<1>3. S \in P
  <2>1. P \in SUBSET (SUBSET S) /\ \A T \in P : \A x \in S \ T : T \cup {x} \in P
    BY <1>2
  <2> HIDE DEF P
  <2> QED BY <1>1, <2>1, SetInduction
<1> QED BY <1>3

-----------------------------------------------------------------------------
(* Books *)

ABook(b) == DOMAIN b \subseteq Symbol /\ \A x \in DOMAIN b : b[x] \in Nat

\* The limits every overlay after the sector cap has to keep.
Kept(b) ==
    /\ Overlay!Total(b) <= Aum
    /\ \A s \in Overlay!SectorsOf(b) : Overlay!SectorWeight(b, s) <= SectorMax

Liquid(b, m) == \A x \in DOMAIN b : 100 * b[x] <= AdvCap * m.adtv[x]

LEMMA Parameters ==
    /\ IsFiniteSet(Symbol)
    /\ Aum \in Nat \ {0} /\ Lot \in Nat \ {0} /\ SectorMax \in Nat \ {0} /\ ConfirmDays \in Nat \ {0}
    /\ MaxRebalances \in Nat \ {0} /\ HoldingsMin \in Nat /\ Fee \in Nat
    /\ RegimeSafe \in 1 .. 100 /\ VolTarget \in 1 .. 100 /\ AdvCap \in 1 .. 100
    /\ VolFloor \in 0 .. 100 /\ FastBlend \in 0 .. 100 /\ VolCap \in 100 .. 300
    /\ SafeEquity \in 1 .. 100
    /\ SectorMax >= Cardinality(Symbol)
BY PipelineAssumption DEF Breaker!ValidThresholds

LEMMA MarketTypes ==
    ASSUME NEW m \in Markets
    PROVE  /\ \A x \in Symbol : m.adtv[x] \in Nat /\ m.price[x] \in Nat
           /\ m.slow \in Nat \cup {NaN} /\ m.fast \in Nat \cup {NaN}
BY PipelineAssumption

LEMMA SameSum == \A b, S : Overlay!SumFunctionOnSet(b, S) = SumFunctionOnSet(b, S)
BY DEF SumFunctionOnSet, FoldFunctionOnSet, MapThenFoldSet, Overlay!SumFunctionOnSet,
       Overlay!FoldFunctionOnSet, Overlay!MapThenFoldSet

LEMMA BookSums ==
    /\ \A b : Overlay!Total(b) = SumFunctionOnSet(b, DOMAIN b)
    /\ \A b, s : Overlay!SectorWeight(b, s) = SumFunctionOnSet(b, Overlay!Members(b, s))
BY SameSum DEF Overlay!Total, Overlay!SumFunction, Overlay!SectorWeight

LEMMA FiniteBook ==
    ASSUME NEW b, ABook(b)
    PROVE  /\ IsFiniteSet(DOMAIN b) /\ Cardinality(DOMAIN b) \in Nat
           /\ Cardinality(DOMAIN b) <= Cardinality(Symbol)
           /\ \A s : Overlay!Members(b, s) \in SUBSET DOMAIN b
BY Parameters, FS_Subset, FS_CardinalityType DEF ABook, Overlay!Members, Overlay!Positive

LEMMA TotalIsNat ==
    ASSUME NEW b, ABook(b)
    PROVE  /\ Overlay!Total(b) \in Nat
           /\ \A s : Overlay!SectorWeight(b, s) \in Nat
<1>1. IsFiniteSet(DOMAIN b) /\ \A x \in DOMAIN b : b[x] \in Nat
  BY FiniteBook DEF ABook
<1>2. Overlay!Total(b) \in Nat
  <2>1. {} \in SUBSET DOMAIN b
    OBVIOUS
  <2> QED BY <1>1, <2>1, SumOfPart, BookSums
<1>3. ASSUME NEW s PROVE Overlay!SectorWeight(b, s) \in Nat
  <2> DEFINE M == Overlay!Members(b, s)
  <2>1. M \in SUBSET DOMAIN b
    BY FiniteBook
  <2>2. IsFiniteSet(M) /\ \A x \in M : b[x] \in Nat
    BY <1>1, <2>1, FS_Subset
  <2> HIDE DEF M
  <2>3. {} \in SUBSET M
    OBVIOUS
  <2>4. SumFunctionOnSet(b, M) \in Nat
    BY <2>2, <2>3, SumOfPart
  <2> QED BY <2>4, BookSums DEF M
<1> QED BY <1>2, <1>3

\* An overlay that raises no weight keeps what the book kept.
LEMMA LoweringKeeps ==
    ASSUME NEW b, ABook(b), NEW c, DOMAIN c = DOMAIN b,
           \A x \in DOMAIN b : c[x] \in Nat /\ c[x] <= b[x]
    PROVE  /\ ABook(c)
           /\ Overlay!Total(c) <= Overlay!Total(b)
           /\ Kept(b) => Kept(c)
           /\ \A m \in Markets : Liquid(b, m) => Liquid(c, m)
<1>1. ABook(c)
  BY DEF ABook
<1>2. IsFiniteSet(DOMAIN b) /\ \A x \in DOMAIN b : b[x] \in Nat
  BY FiniteBook DEF ABook
<1>3. ASSUME NEW T \in SUBSET DOMAIN b
      PROVE  SumFunctionOnSet(c, T) <= SumFunctionOnSet(b, T)
  <2>1. IsFiniteSet(T) /\ \A x \in T : c[x] \in Int /\ b[x] \in Int /\ 1 * c[x] <= 1 * b[x]
    BY <1>2, FS_Subset
  <2>2. 1 * SumFunctionOnSet(c, T) <= 1 * SumFunctionOnSet(b, T)
    BY <2>1, SumCompare
  <2>3. SumFunctionOnSet(c, T) \in Int /\ SumFunctionOnSet(b, T) \in Int
    BY <2>1, SumIsInt
  <2> QED BY <2>2, <2>3
<1>4. Overlay!Total(c) <= Overlay!Total(b)
  BY <1>3, BookSums
<1>5. ASSUME Kept(b) PROVE Kept(c)
  <2>1. Overlay!Total(c) <= Aum
    BY <1>1, <1>4, <1>5, TotalIsNat, Parameters DEF Kept
  <2>2. ASSUME NEW s \in Overlay!SectorsOf(c) PROVE Overlay!SectorWeight(c, s) <= SectorMax
    <3> DEFINE M == Overlay!Members(c, s)
               N == Overlay!Members(b, s)
    <3>1. s \in Overlay!SectorsOf(b) /\ M \subseteq N /\ M \in SUBSET DOMAIN b /\ N \in SUBSET DOMAIN b
      BY <1>2 DEF Overlay!SectorsOf, Overlay!Positive, Overlay!Members
    <3>2. IsFiniteSet(N) /\ \A x \in N : b[x] \in Nat
      BY <1>2, <3>1, FS_Subset
    <3> HIDE DEF M, N
    <3>3. SumFunctionOnSet(c, M) <= SumFunctionOnSet(b, M)
      BY <1>3, <3>1
    <3>4. M \in SUBSET N
      BY <3>1
    <3>5. SumFunctionOnSet(b, M) <= SumFunctionOnSet(b, N) /\ SumFunctionOnSet(b, N) \in Nat
      BY <3>2, <3>4, SumOfPart
    <3>6. SumFunctionOnSet(b, N) <= SectorMax
      BY <1>5, <3>1, BookSums DEF Kept, N
    <3>7. SumFunctionOnSet(c, M) \in Int /\ SumFunctionOnSet(b, M) \in Int
      <4>1. IsFiniteSet(M) /\ \A x \in M : c[x] \in Int /\ b[x] \in Int
        BY <1>2, <3>1, FS_Subset
      <4> QED BY <4>1, SumIsInt
    <3>8. SumFunctionOnSet(c, M) <= SectorMax
      BY <3>3, <3>5, <3>6, <3>7, Parameters
    <3> QED BY <3>8, BookSums DEF M
  <2> QED BY <2>1, <2>2 DEF Kept
<1>6. ASSUME NEW m \in Markets, Liquid(b, m) PROVE Liquid(c, m)
  <2> SUFFICES ASSUME NEW x \in DOMAIN c PROVE 100 * c[x] <= AdvCap * m.adtv[x]
    BY DEF Liquid
  <2>1. 100 * b[x] <= AdvCap * m.adtv[x]
    BY <1>6 DEF Liquid
  <2>2. AdvCap * m.adtv[x] \in Int
    <3>1. x \in Symbol
      BY <1>1 DEF ABook
    <3>2. m.adtv[x] \in Int /\ AdvCap \in Int
      BY <3>1, MarketTypes, Parameters
    <3> QED BY <3>2
  <2>3. c[x] \in Nat /\ b[x] \in Nat /\ c[x] <= b[x]
    BY <1>2
  <2> QED BY <2>1, <2>2, <2>3
<1> QED BY <1>1, <1>4, <1>5, <1>6

LEMMA ScaledDown ==
    ASSUME NEW b, ABook(b), NEW p \in 0 .. 100
    PROVE  LET c == Overlay!Scaled(b, p) IN
           /\ DOMAIN c = DOMAIN b
           /\ \A x \in DOMAIN b : c[x] \in Nat /\ c[x] <= b[x]
           /\ 100 * Overlay!Total(c) <= p * Overlay!Total(b)
<1> DEFINE c == Overlay!Scaled(b, p)
<1>1. DOMAIN c = DOMAIN b /\ \A x \in DOMAIN b : c[x] = (b[x] * p) \div 100
  BY DEF Overlay!Scaled
<1>2. \A n \in Nat : /\ (n * p) \div 100 \in Nat /\ (n * p) \div 100 <= n
                     /\ 100 * ((n * p) \div 100) <= p * n
  <2> SUFFICES ASSUME NEW n \in Nat
               PROVE  /\ (n * p) \div 100 \in Nat /\ (n * p) \div 100 <= n
                      /\ 100 * ((n * p) \div 100) <= p * n
    OBVIOUS
  <2>1. n * p \in Nat /\ n * p <= n * 100 /\ n * p = p * n
    OBVIOUS
  <2>2. \A k \in Nat : k \div 100 \in Nat /\ 100 * (k \div 100) <= k
    OBVIOUS
  <2>3. 100 * ((n * p) \div 100) <= n * p /\ (n * p) \div 100 \in Nat
    BY <2>1, <2>2
  <2> QED BY <2>1, <2>3
<1> HIDE DEF c
<1>3. \A x \in DOMAIN b : b[x] \in Nat
  BY DEF ABook
<1>4. \A x \in DOMAIN b : c[x] \in Nat /\ c[x] <= b[x] /\ 100 * c[x] <= p * b[x]
  BY <1>1, <1>2, <1>3
<1>5. 100 * Overlay!Total(c) <= p * Overlay!Total(b)
  <2>1. IsFiniteSet(DOMAIN b) /\ \A x \in DOMAIN b : c[x] \in Int /\ b[x] \in Int /\ 100 * c[x] <= p * b[x]
    BY <1>3, <1>4, FiniteBook
  <2>2. 100 \in Int /\ p \in Int
    OBVIOUS
  <2>3. 100 * SumFunctionOnSet(c, DOMAIN b) <= p * SumFunctionOnSet(b, DOMAIN b)
    BY <2>1, <2>2, SumCompare
  <2> QED BY <1>1, <2>3, BookSums
<1> QED BY <1>1, <1>4, <1>5 DEF c

-----------------------------------------------------------------------------
(* What each overlay does to a book *)

LEMMA EqualWeights ==
    ASSUME NEW q \in SUBSET Symbol
    PROVE  LET b == [x \in q |-> Aum \div Cardinality(q)] IN
           /\ ABook(b)
           /\ Overlay!Total(b) <= Aum
           /\ \E w \in Nat : \A x \in DOMAIN b : b[x] = w
<1> DEFINE w == Aum \div Cardinality(q)
           b == [x \in q |-> w]
<1>1. IsFiniteSet(q) /\ Cardinality(q) \in Nat /\ (Cardinality(q) = 0 <=> q = {})
  BY Parameters, FS_Subset, FS_CardinalityType, FS_EmptySet
<1>2. DOMAIN b = q /\ \A x \in q : b[x] = w
  OBVIOUS
<1>3. CASE q = {}
  <2>1. Overlay!Total(b) = 0
    BY <1>2, <1>3, SumEmpty, BookSums
  <2>2. 0 <= Aum /\ 0 \in Nat
    BY Parameters
  <2>3. \A x \in DOMAIN b : b[x] = 0
    BY <1>2, <1>3
  <2> HIDE DEF b
  <2>4. ABook(b)
    BY <1>2, <1>3 DEF ABook
  <2> QED BY <2>1, <2>2, <2>3, <2>4 DEF b
<1>4. CASE q # {}
  <2>1. Cardinality(q) \in Nat \ {0}
    BY <1>1, <1>4
  <2>2. w \in Nat /\ w * Cardinality(q) <= Aum
    <3>1. \A n \in Nat, k \in Nat \ {0} : n \div k \in Nat /\ (n \div k) * k <= n
      OBVIOUS
    <3> QED BY <2>1, <3>1, Parameters
  <2> HIDE DEF w
  <2>3. SumFunctionOnSet(b, q) = w * Cardinality(q)
    BY <1>1, <1>2, <2>2, SumOfEqual
  <2>4. Overlay!Total(b) <= Aum
    BY <1>2, <2>2, <2>3, BookSums
  <2>5. ABook(b)
    BY <1>2, <2>2 DEF ABook
  <2>6. \A x \in DOMAIN b : b[x] = w
    BY <1>2
  <2> HIDE DEF b
  <2> QED BY <2>2, <2>4, <2>5, <2>6 DEF b, w
<1> QED BY <1>3, <1>4

LEMMA SameCardinality == \A S : Overlay!Cardinality(S) = Cardinality(S)
BY DEF Overlay!Cardinality, Cardinality

LEMMA SectorCapIs ==
    \A b : Overlay!SectorCap(b) =
        IF /\ Cardinality(Overlay!Positive(Overlay!CapSectors(b, Overlay!OverWeight(b)))) < HoldingsMin
           /\ Cardinality(Overlay!Positive(b)) >= HoldingsMin
           /\ Overlay!OverWeight(b) # {}
        THEN Overlay!CapSectors(b, Overlay!OverWeight(b) \ {Overlay!Relaxed(b)})
        ELSE Overlay!CapSectors(b, Overlay!OverWeight(b))
BY SameCardinality DEF Overlay!SectorCap

\* A book of equal weights leaves the sector cap with every sector within it: no
\* position is emptied, so that no excess is relaxed.
LEMMA SectorCapKeeps ==
    ASSUME NEW b, ABook(b), Overlay!Total(b) <= Aum, NEW w \in Nat, \A x \in DOMAIN b : b[x] = w
    PROVE  LET c == Overlay!SectorCap(b) IN
           /\ DOMAIN c = DOMAIN b
           /\ \A x \in DOMAIN b : c[x] \in Nat /\ c[x] <= b[x]
           /\ Kept(c)
<1> DEFINE W(s) == Overlay!SectorWeight(b, s)
           over == Overlay!OverWeight(b)
           capped == Overlay!CapSectors(b, over)
           M(s) == Overlay!Members(b, s)
<1>1. IsFiniteSet(DOMAIN b) /\ DOMAIN b \subseteq Symbol /\ \A s : M(s) \in SUBSET DOMAIN b /\ W(s) \in Nat
  BY FiniteBook, TotalIsNat DEF ABook
<1>2. \A s \in over : s \in Overlay!SectorsOf(b) /\ W(s) > SectorMax
  BY DEF Overlay!OverWeight
<1>3. \A s \in Overlay!SectorsOf(b) : s \in over \/ W(s) <= SectorMax
  BY <1>1, Parameters DEF Overlay!OverWeight
<1>4. DOMAIN capped = DOMAIN b
      /\ \A x \in DOMAIN b : capped[x] = IF SectorOf[x] \in over
                                         THEN (b[x] * SectorMax) \div W(SectorOf[x]) ELSE b[x]
  BY DEF Overlay!CapSectors
<1>5. \A s : W(s) = w * Cardinality(M(s)) /\ Cardinality(M(s)) \in Nat /\ Cardinality(M(s)) <= SectorMax
  <2> SUFFICES ASSUME NEW s
               PROVE  W(s) = w * Cardinality(M(s)) /\ Cardinality(M(s)) \in Nat /\ Cardinality(M(s)) <= SectorMax
    OBVIOUS
  <2>1. IsFiniteSet(M(s)) /\ \A x \in M(s) : b[x] = w
    BY <1>1, FS_Subset
  <2>2. Cardinality(M(s)) \in Nat /\ Cardinality(M(s)) <= Cardinality(Symbol) /\ Cardinality(Symbol) \in Nat
    <3>1. M(s) \subseteq Symbol
      BY <1>1
    <3> HIDE DEF M
    <3> QED BY <2>1, <3>1, FS_Subset, FS_CardinalityType, Parameters
  <2>3. SumFunctionOnSet(b, M(s)) = w * Cardinality(M(s))
    <3> HIDE DEF M
    <3> QED BY <2>1, SumOfEqual
  <2>4. W(s) = SumFunctionOnSet(b, M(s))
    BY BookSums
  <2> HIDE DEF M, W
  <2> QED BY <2>2, <2>3, <2>4, Parameters
<1>6. \A s \in over : \A x \in M(s) : x \in DOMAIN b /\ SectorOf[x] = s
  BY <1>1 DEF Overlay!Members
<1>7. \A x \in DOMAIN b : SectorOf[x] \in over => x \in M(SectorOf[x]) /\ w > 0
  <2> SUFFICES ASSUME NEW x \in DOMAIN b, SectorOf[x] \in over PROVE x \in M(SectorOf[x]) /\ w > 0
    OBVIOUS
  <2>1. Overlay!Positive(b) # {}
    BY <1>2 DEF Overlay!SectorsOf
  <2>2. w > 0
    BY <2>1 DEF Overlay!Positive
  <2> QED BY <2>2 DEF Overlay!Members, Overlay!Positive
<1>8. \A k, v, m \in Nat : m > 0 /\ v > 0 /\ k > m /\ k <= v * m =>
         /\ (v * m) \div k \in Nat /\ (v * m) \div k >= 1 /\ (v * m) \div k <= v
         /\ k * ((v * m) \div k) <= m * v
  <2> SUFFICES ASSUME NEW k \in Nat, NEW v \in Nat, NEW m \in Nat, m > 0, v > 0, k > m, k <= v * m
               PROVE  /\ (v * m) \div k \in Nat /\ (v * m) \div k >= 1 /\ (v * m) \div k <= v
                      /\ k * ((v * m) \div k) <= m * v
    OBVIOUS
  <2> DEFINE p == v * m
             q == p \div k
  <2>1. p \in Nat /\ p = m * v /\ k \in Nat \ {0}
    OBVIOUS
  <2>2. p <= v * k
    OBVIOUS
  <2>3. \A n \in Nat, d \in Nat \ {0} : n \div d \in Nat /\ d * (n \div d) <= n /\ n < d * (n \div d) + d
    OBVIOUS
  <2>4. q \in Nat /\ k * q <= p /\ p < k * q + k
    BY <2>1, <2>3
  <2>5. k <= p
    OBVIOUS
  <2> HIDE DEF q, p
  <2>6. q >= 1
    <3>1. k * 0 = 0
      OBVIOUS
    <3> QED BY <2>1, <2>4, <2>5, <3>1
  <2>7. q <= v
    <3> SUFFICES ASSUME q >= v + 1 PROVE FALSE
      BY <2>4
    <3>1. k * q >= k * (v + 1) /\ k * (v + 1) = v * k + k
      BY <2>4
    <3> QED BY <2>1, <2>2, <2>4, <3>1
  <2> QED BY <2>1, <2>4, <2>6, <2>7 DEF p, q
<1> HIDE DEF over, capped, M, W
<1>9. \A x \in DOMAIN b : SectorOf[x] \in over =>
         /\ capped[x] \in Nat /\ capped[x] >= 1 /\ capped[x] <= b[x]
         /\ W(SectorOf[x]) * capped[x] <= SectorMax * b[x]
  <2> SUFFICES ASSUME NEW x \in DOMAIN b, SectorOf[x] \in over
               PROVE  /\ capped[x] \in Nat /\ capped[x] >= 1 /\ capped[x] <= b[x]
                      /\ W(SectorOf[x]) * capped[x] <= SectorMax * b[x]
    OBVIOUS
  <2> DEFINE s == SectorOf[x]
  <2>1. W(s) \in Nat /\ W(s) > SectorMax /\ w > 0 /\ SectorMax \in Nat /\ SectorMax > 0
    BY <1>1, <1>2, <1>7, Parameters
  <2>2. W(s) <= w * SectorMax
    <3>1. \A m, n, v \in Nat : m <= n => v * m <= v * n
      OBVIOUS
    <3> QED BY <1>5, <3>1, Parameters
  <2>3. capped[x] = (w * SectorMax) \div W(s) /\ b[x] = w
    BY <1>4
  <2> HIDE DEF s
  <2>4. /\ (w * SectorMax) \div W(s) \in Nat /\ (w * SectorMax) \div W(s) >= 1
        /\ (w * SectorMax) \div W(s) <= w
        /\ W(s) * ((w * SectorMax) \div W(s)) <= SectorMax * w
    BY <1>8, <2>1, <2>2
  <2> QED BY <2>3, <2>4 DEF s
<1>10. \A x \in DOMAIN b : SectorOf[x] \notin over => capped[x] = b[x]
  BY <1>4
<1>11. \A x \in DOMAIN b : capped[x] \in Nat /\ capped[x] <= b[x]
  <2>1. \A x \in DOMAIN b : b[x] <= b[x] /\ b[x] \in Nat
    OBVIOUS
  <2> QED BY <1>9, <1>10, <2>1
<1>12. Overlay!Positive(capped) = Overlay!Positive(b)
  <2>1. \A x \in DOMAIN b : capped[x] > 0 <=> b[x] > 0
    BY <1>9, <1>10
  <2> QED BY <1>4, <2>1 DEF Overlay!Positive
<1>13. Overlay!SectorCap(b) = capped
  <2>1. Cardinality(Overlay!Positive(b)) \in Nat
    <3>1. Overlay!Positive(b) \in SUBSET DOMAIN b
      BY DEF Overlay!Positive
    <3> QED BY <1>1, <3>1, FS_Subset, FS_CardinalityType
  <2>2. ~ (/\ Cardinality(Overlay!Positive(capped)) < HoldingsMin
           /\ Cardinality(Overlay!Positive(b)) >= HoldingsMin)
    <3> DEFINE k == Cardinality(Overlay!Positive(b))
    <3>1. Cardinality(Overlay!Positive(capped)) = k
      BY <1>12
    <3>2. k \in Nat /\ HoldingsMin \in Nat
      BY <2>1, Parameters
    <3> HIDE DEF k
    <3>3. ~ (k < HoldingsMin /\ k >= HoldingsMin)
      BY <3>2
    <3> QED BY <3>1, <3>3 DEF k
  <2>3. Overlay!SectorCap(b) =
            IF /\ Cardinality(Overlay!Positive(capped)) < HoldingsMin
               /\ Cardinality(Overlay!Positive(b)) >= HoldingsMin
               /\ over # {}
            THEN Overlay!CapSectors(b, over \ {Overlay!Relaxed(b)})
            ELSE capped
    BY SectorCapIs DEF capped, over
  <2> QED BY <2>2, <2>3, Zenon
<1>14. ABook(capped) /\ Overlay!Total(capped) <= Aum
  <2>1. ABook(capped) /\ Overlay!Total(capped) <= Overlay!Total(b)
    BY <1>4, <1>11, LoweringKeeps
  <2> QED BY <2>1, TotalIsNat, Parameters
<1>15. ASSUME NEW s \in Overlay!SectorsOf(capped) PROVE Overlay!SectorWeight(capped, s) <= SectorMax
  <2>1. s \in Overlay!SectorsOf(b) /\ Overlay!Members(capped, s) = M(s)
    BY <1>12 DEF Overlay!SectorsOf, Overlay!Members, M
  <2>2. Overlay!SectorWeight(capped, s) = SumFunctionOnSet(capped, M(s))
    BY <2>1, BookSums
  <2>3. W(s) = SumFunctionOnSet(b, M(s))
    BY BookSums DEF W, M
  <2>4. IsFiniteSet(M(s)) /\ M(s) \subseteq DOMAIN b /\ \A x \in M(s) : capped[x] \in Int /\ b[x] \in Int
    BY <1>1, <1>11, FS_Subset
  <2>5. CASE s \in over
    <3>1. W(s) \in Int /\ SectorMax \in Int /\ W(s) > 0 /\ SectorMax > 0
      BY <1>1, <1>2, <2>5, Parameters
    <3>2. \A x \in M(s) : W(s) * capped[x] <= SectorMax * b[x]
      BY <1>6, <1>9, <2>5
    <3>3. W(s) * SumFunctionOnSet(capped, M(s)) <= SectorMax * SumFunctionOnSet(b, M(s))
      BY <2>4, <3>1, <3>2, SumCompare
    <3>4. SumFunctionOnSet(capped, M(s)) \in Int
      BY <2>4, SumIsInt
    <3>5. \A k, t, m \in Int : k > 0 /\ k * t <= m * k => t <= m
      <4> SUFFICES ASSUME NEW k \in Int, NEW t \in Int, NEW m \in Int, k > 0, t >= m + 1, k * t <= m * k
                   PROVE  FALSE
        OBVIOUS
      <4>1. k * t >= k * (m + 1) /\ k * (m + 1) = m * k + k
        OBVIOUS
      <4> QED BY <4>1
    <3> QED BY <2>2, <2>3, <3>1, <3>3, <3>4, <3>5
  <2>6. CASE s \notin over
    <3>1. W(s) <= SectorMax
      BY <1>3, <2>1, <2>6
    <3>2. \A x \in M(s) : capped[x] = b[x] /\ capped[x] \in Int
      <4>1. \A x \in M(s) : SectorOf[x] = s
        BY DEF M, Overlay!Members
      <4> QED BY <1>10, <2>4, <2>6, <4>1
    <3>3. SumFunctionOnSet(capped, M(s)) = SumFunctionOnSet(b, M(s))
      BY <2>4, <3>2, SumSame
    <3> QED BY <2>2, <2>3, <3>1, <3>3
  <2> QED BY <2>5, <2>6
<1>16. Kept(capped)
  BY <1>14, <1>15 DEF Kept
<1> QED BY <1>4, <1>11, <1>13, <1>16

LEMMA VolEquityIsFraction ==
    ASSUME NEW m \in Markets
    PROVE  Overlay!VolEquity(Overlay!RealizedVol(m.slow, m.fast)) \in 0 .. 100
<1> DEFINE vol == Overlay!RealizedVol(m.slow, m.fast)
<1>1. Overlay!Measured(vol) => vol \in Nat \ {0}
  <2>1. \A v \in Nat \cup {NaN} : Overlay!Measured(v) => v \in Nat \ {0}
    BY DEF Overlay!Measured
  <2>2. CASE FastBlend = 0 \/ ~Overlay!Measured(m.fast)
    BY <2>1, <2>2, MarketTypes DEF Overlay!RealizedVol
  <2>3. CASE ~(FastBlend = 0 \/ ~Overlay!Measured(m.fast)) /\ ~Overlay!Measured(m.slow)
    BY <2>1, <2>3, MarketTypes DEF Overlay!RealizedVol
  <2>4. CASE ~(FastBlend = 0 \/ ~Overlay!Measured(m.fast)) /\ Overlay!Measured(m.slow)
    <3>1. m.slow \in Nat /\ m.fast \in Nat
      BY <2>1, <2>4, MarketTypes
    <3>2. vol = ((100 - FastBlend) * m.slow + FastBlend * m.fast) \div 100
      BY <2>4 DEF Overlay!RealizedVol
    <3>3. (100 - FastBlend) \in Nat /\ FastBlend \in Nat
      BY Parameters
    <3>4. \A i, j, k, l \in Nat : (i * j + k * l) \div 100 \in Nat
      OBVIOUS
    <3>5. vol \in Nat
      BY <3>1, <3>2, <3>3, <3>4
    <3> HIDE DEF vol
    <3> QED BY <2>1, <3>5
  <2> QED BY <2>2, <2>3, <2>4
<1> HIDE DEF vol
<1>2. Overlay!ScaleFactor(vol) \in Nat
  <2>1. CASE ~Overlay!Measured(vol)
    BY <2>1, Parameters DEF Overlay!ScaleFactor
  <2>2. CASE Overlay!Measured(vol)
    <3>1. (VolTarget * 100) \div vol \in Nat
      <4>1. \A n \in Nat, d \in Nat \ {0} : (n * 100) \div d \in Nat
        OBVIOUS
      <4>2. VolTarget \in Nat
        BY Parameters
      <4> QED BY <1>1, <2>2, <4>1, <4>2
    <3>2. Overlay!ScaleFactor(vol) = Overlay!AtMost(VolCap, Overlay!AtLeast(VolFloor, (VolTarget * 100) \div vol))
      BY <2>2 DEF Overlay!ScaleFactor
    <3>3. VolCap \in Nat /\ VolFloor \in Nat
      BY Parameters
    <3> QED BY <3>1, <3>2, <3>3 DEF Overlay!AtMost, Overlay!AtLeast
  <2> QED BY <2>1, <2>2
<1>3. \A n \in Nat : Overlay!AtMost(n, 100) \in 0 .. 100
  BY DEF Overlay!AtMost
<1> QED BY <1>2, <1>3 DEF Overlay!VolEquity, vol

LEMMA RegimeEquityIsFraction == \A index : Overlay!RegimeEquity(index) \in 0 .. 100
<1>1. RegimeSafe \in 0 .. 100 /\ 0 \in 0 .. 100 /\ 100 \in 0 .. 100
  BY Parameters
<1> QED BY <1>1 DEF Overlay!RegimeEquity

LEMMA CapLiquidityKeeps ==
    ASSUME NEW b, ABook(b), NEW m \in Markets
    PROVE  LET c == Overlay!CapLiquidity(b, m.adtv) IN
           /\ DOMAIN c = DOMAIN b
           /\ \A x \in DOMAIN b : c[x] \in Nat /\ c[x] <= b[x]
           /\ Liquid(c, m)
<1> DEFINE c == Overlay!CapLiquidity(b, m.adtv)
           most(x) == (AdvCap * m.adtv[x]) \div 100
<1>1. DOMAIN c = DOMAIN b /\ \A x \in DOMAIN b : c[x] = Overlay!AtMost(b[x], most(x))
  BY DEF Overlay!CapLiquidity
<1>2. \A x \in DOMAIN b : most(x) \in Nat /\ 100 * most(x) <= AdvCap * m.adtv[x] /\ AdvCap * m.adtv[x] \in Nat
  <2>1. \A p, n \in Nat : (p * n) \div 100 \in Nat /\ 100 * ((p * n) \div 100) <= p * n /\ p * n \in Nat
    <3>1. \A k \in Nat : k \div 100 \in Nat /\ 100 * (k \div 100) <= k
      OBVIOUS
    <3>2. \A p, n \in Nat : p * n \in Nat
      OBVIOUS
    <3> QED BY <3>1, <3>2
  <2>2. \A x \in DOMAIN b : m.adtv[x] \in Nat
    BY MarketTypes DEF ABook
  <2>3. AdvCap \in Nat
    BY Parameters
  <2> QED BY <2>1, <2>2, <2>3
<1> HIDE DEF c, most
<1>3. \A x \in DOMAIN b : b[x] \in Nat
  BY DEF ABook
<1>4. \A x \in DOMAIN b : c[x] \in Nat /\ c[x] <= b[x] /\ c[x] <= most(x)
  BY <1>1, <1>2, <1>3 DEF Overlay!AtMost
<1>5. Liquid(c, m)
  <2> SUFFICES ASSUME NEW x \in DOMAIN c PROVE 100 * c[x] <= AdvCap * m.adtv[x]
    BY DEF Liquid
  <2>1. c[x] \in Nat /\ c[x] <= most(x) /\ most(x) \in Nat
    BY <1>1, <1>2, <1>4
  <2>2. 100 * most(x) <= AdvCap * m.adtv[x] /\ AdvCap * m.adtv[x] \in Nat
    BY <1>1, <1>2
  <2> QED BY <2>1, <2>2
<1> QED BY <1>1, <1>4, <1>5 DEF c

-----------------------------------------------------------------------------
(* The trade list *)

\* What one trade does to a position worth now = s * p.
LEMMA LotTowardTarget ==
    ASSUME NEW n \in Nat, NEW s \in Nat, NEW p \in Nat, NEW d, d = Sim!DeltaShares(n, s, p)
    PROVE  /\ d \in Int /\ d % Lot = 0
           /\ s + d \in Nat
           /\ Between(s * p + d * p, s * p, n)
           /\ p > 0 => Between(n, (s * p + d * p) - Lot * p, (s * p + d * p) + Lot * p)
<1>1. Lot \in Nat \ {0}
  BY Parameters
<1>2. \A k \in Nat, l \in Nat \ {0} : k \div l \in Nat /\ (k \div l) * l <= k /\ k < (k \div l) * l + l
  OBVIOUS
<1>3. \A k \in Nat : /\ Sim!RoundDownToLot(k) \in Nat /\ Sim!RoundDownToLot(k) <= k
                     /\ k < Sim!RoundDownToLot(k) + Lot
                     /\ Sim!RoundDownToLot(k) % Lot = 0 /\ (-Sim!RoundDownToLot(k)) % Lot = 0
  <2> SUFFICES ASSUME NEW k \in Nat
               PROVE  /\ Sim!RoundDownToLot(k) \in Nat /\ Sim!RoundDownToLot(k) <= k
                      /\ k < Sim!RoundDownToLot(k) + Lot
                      /\ Sim!RoundDownToLot(k) % Lot = 0 /\ (-Sim!RoundDownToLot(k)) % Lot = 0
    OBVIOUS
  <2> DEFINE q == k \div Lot
  <2>1. q \in Nat /\ q * Lot <= k /\ k < q * Lot + Lot
    BY <1>1, <1>2
  <2>2. Sim!RoundDownToLot(k) = q * Lot
    BY DEF Sim!RoundDownToLot
  <2> HIDE DEF q
  <2>3. \A i \in Int, l \in Nat \ {0} : (i * l) % l = 0
    OBVIOUS
  <2>4. (q * Lot) % Lot = 0 /\ ((-q) * Lot) % Lot = 0 /\ (-q) * Lot = -(q * Lot) /\ q * Lot \in Nat
    BY <1>1, <2>1, <2>3
  <2> QED BY <2>1, <2>2, <2>4
<1>4. CASE p = 0
  <2>1. d = 0
    BY <1>4 DEF Sim!DeltaShares
  <2>2. 0 % Lot = 0
    BY <1>1
  <2>3. s * p + 0 * p = s * p /\ s * p = 0 /\ s + 0 = s
    BY <1>4
  <2> QED BY <1>4, <2>1, <2>2, <2>3 DEF Between
<1>5. CASE p > 0 /\ n >= s * p
  <2> DEFINE gap == n - s * p
             q == gap \div p
             r == Sim!RoundDownToLot(q)
  <2>1. gap \in Nat /\ gap + s * p = n /\ s * p \in Nat
    BY <1>5
  <2>2. d = r
    <3>1. d = Sim!RoundToLot(Sim!Quotient(n - s * p, p))
      BY <1>5 DEF Sim!DeltaShares
    <3>2. Sim!Quotient(gap, p) = q
      BY <2>1 DEF Sim!Quotient
    <3>3. q \in Nat
      BY <1>2, <1>5, <2>1
    <3>4. Sim!RoundToLot(q) = r
      <4> HIDE DEF q
      <4> QED BY <3>3 DEF Sim!RoundToLot
    <3> QED BY <3>1, <3>2, <3>4
  <2>3. q \in Nat /\ q * p <= gap /\ gap < q * p + p
    BY <1>2, <1>5, <2>1
  <2> HIDE DEF q, gap
  <2>4. r \in Nat /\ r <= q /\ q + 1 <= r + Lot /\ r % Lot = 0
    <3>1. r \in Nat /\ r <= q /\ q < r + Lot /\ r % Lot = 0
      BY <1>3, <2>3
    <3> HIDE DEF r
    <3> QED BY <1>1, <2>3, <3>1
  <2> HIDE DEF r
  <2>5. r * p \in Nat /\ r * p <= q * p /\ (q + 1) * p <= (r + Lot) * p
        /\ (q + 1) * p = q * p + p /\ (r + Lot) * p = r * p + Lot * p /\ Lot * p \in Nat /\ q * p \in Nat
    BY <1>1, <2>3, <2>4
  <2>6. r * p <= gap /\ gap <= r * p + Lot * p
    BY <2>1, <2>3, <2>5
  <2>7. s + r \in Nat
    BY <2>4
  <2>8. Between(s * p + r * p, s * p, n)
    BY <2>1, <2>5, <2>6 DEF Between
  <2>9. Between(n, (s * p + r * p) - Lot * p, (s * p + r * p) + Lot * p)
    <3>1. (s * p + r * p) - Lot * p <= n /\ n <= (s * p + r * p) + Lot * p
      BY <2>1, <2>5, <2>6
    <3> QED BY <3>1 DEF Between
  <2>10. /\ d \in Int /\ d % Lot = 0
         /\ s + d \in Nat
         /\ Between(s * p + d * p, s * p, n)
         /\ Between(n, (s * p + d * p) - Lot * p, (s * p + d * p) + Lot * p)
    <3>1. r \in Int
      BY <2>4
    <3> QED BY <2>2, <2>4, <2>7, <2>8, <2>9, <3>1, Zenon
  <2> QED BY <2>10
<1>6. CASE p > 0 /\ ~(n >= s * p)
  <2> DEFINE gap == s * p - n
             q == gap \div p
             r == Sim!RoundDownToLot(q)
  <2>1. gap \in Nat /\ gap > 0 /\ gap + n = s * p /\ s * p \in Nat /\ n - s * p = -gap
    BY <1>6
  <2>2. q \in Nat /\ q * p <= gap /\ gap < q * p + p
    BY <1>2, <1>6, <2>1
  <2>3. r \in Nat /\ r <= q /\ q + 1 <= r + Lot /\ (-r) % Lot = 0
    <3> HIDE DEF q
    <3>1. r \in Nat /\ r <= q /\ q < r + Lot /\ (-r) % Lot = 0
      BY <1>3, <2>2
    <3> HIDE DEF r
    <3> QED BY <1>1, <2>2, <3>1
  <2>4. d = -r
    <3>1. d = Sim!RoundToLot(Sim!Quotient(n - s * p, p))
      BY <1>6 DEF Sim!DeltaShares
    <3>2. Sim!Quotient(n - s * p, p) = -q
      <4>1. ~(-gap >= 0) /\ -(-gap) = gap
        BY <2>1
      <4> HIDE DEF gap
      <4> QED BY <2>1, <4>1 DEF Sim!Quotient
    <3>3. Sim!RoundToLot(-q) = -r
      <4>1. CASE q <= 0
        <5>1. -q = q /\ -r = r /\ -q >= 0
          <6>1. r \in Nat /\ r <= q
            BY <2>3
          <6> HIDE DEF q, r
          <6>2. \A z \in Nat : z <= 0 => -z = z /\ -z >= 0
            OBVIOUS
          <6> QED BY <2>2, <4>1, <6>1, <6>2
        <5> HIDE DEF q
        <5>2. Sim!RoundToLot(-q) = Sim!RoundDownToLot(q)
          BY <4>1, <5>1 DEF Sim!RoundToLot
        <5> QED BY <5>1, <5>2
      <4>2. CASE ~(q <= 0)
        <5> HIDE DEF q
        <5>1. ~(-q >= 0) /\ -(-q) = q
          BY <2>2, <4>2
        <5> QED BY <5>1 DEF Sim!RoundToLot
      <4> QED BY <4>1, <4>2
    <3> QED BY <3>1, <3>2, <3>3
  <2> HIDE DEF q, gap, r
  <2>5. r * p \in Nat /\ r * p <= q * p /\ (q + 1) * p <= (r + Lot) * p
        /\ (q + 1) * p = q * p + p /\ (r + Lot) * p = r * p + Lot * p /\ Lot * p \in Nat /\ q * p \in Nat
        /\ (-r) * p = -(r * p)
    BY <1>1, <2>2, <2>3
  <2>6. r * p <= gap /\ gap <= r * p + Lot * p
    BY <2>1, <2>2, <2>5
  <2>7. s + (-r) \in Nat
    <3> SUFFICES ASSUME r >= s + 1 PROVE FALSE
      BY <2>3
    <3>1. r * p >= (s + 1) * p /\ (s + 1) * p = s * p + p
      BY <2>3
    <3> QED BY <1>6, <2>1, <2>5, <2>6, <3>1
  <2>8. Between(s * p + (-r) * p, s * p, n)
    <3>1. n <= s * p + (-r) * p /\ s * p + (-r) * p <= s * p
      BY <2>1, <2>5, <2>6
    <3> QED BY <3>1 DEF Between
  <2>9. Between(n, (s * p + (-r) * p) - Lot * p, (s * p + (-r) * p) + Lot * p)
    <3>1. (s * p + (-r) * p) - Lot * p <= n /\ n <= (s * p + (-r) * p) + Lot * p
      BY <2>1, <2>5, <2>6
    <3> QED BY <3>1 DEF Between
  <2>10. -r \in Int
    BY <2>3
  <2>11. /\ d \in Int /\ d % Lot = 0
         /\ s + d \in Nat
         /\ Between(s * p + d * p, s * p, n)
         /\ Between(n, (s * p + d * p) - Lot * p, (s * p + d * p) + Lot * p)
    BY <2>3, <2>4, <2>7, <2>8, <2>9, <2>10, Zenon
  <2> QED BY <2>11
<1> QED BY <1>4, <1>5, <1>6

-----------------------------------------------------------------------------
(* The inductive invariant *)

Stage == {"idle", "constraints", "volatility", "liquidity", "breaker", "trade", "fill"}

\* What holds between the overlays: the limits set so far, each kept by all that
\* follow; the trade list of the stage that fills it; and a count that the breaker's
\* own count of confirmations does not run ahead of.
BetweenOverlays ==
    /\ stage # "idle" => market \in Markets
    /\ stage = "constraints" =>
          Overlay!Total(book) <= Aum /\ \E w \in Nat : \A x \in DOMAIN book : book[x] = w
    /\ stage \in {"volatility", "liquidity", "breaker", "trade"} => Kept(book)
    /\ stage \in {"breaker", "trade"} => Liquid(book, market)
    /\ stage = "trade" /\ breaker.state # "NORMAL" /\ reading # NoCurve =>
          100 * Overlay!Total(book) <= SafeEquity * Aum
    /\ stage = "fill" => trades = Sim!Simulate(book, positions, market.price)

CountIsConfirmed == breaker.state = "RECOVERING" => breaker.progress <= streak

IInv == TypeOK /\ BetweenOverlays /\ CountIsConfirmed

LEMMA TypesOf ==
    ASSUME TypeOK
    PROVE  /\ ABook(book) /\ stage \in Stage /\ breaker \in Breaker!Breaker
           /\ positions \in [Symbol -> Nat] /\ streak \in 0 .. ConfirmDays
BY DEF TypeOK, ABook, Stage

LEMMA InitIInv == Init => IInv
<1> SUFFICES ASSUME Init PROVE IInv
  OBVIOUS
<1>1. PICK o \in Openings :
        /\ stage = "idle" /\ market = NoMarket /\ book = Empty /\ trades = Empty
        /\ breaker = Breaker!Fresh /\ reading = 0 /\ streak = 0
        /\ positions = o.held
        /\ fills = {Purchase(o, x) : x \in o.logged}
        /\ rebalances = 0
  BY DEF Init
<1>2. o.held \in [Symbol -> Nat] /\ \A x \in o.logged : x \in Symbol /\ o.held[x] > 0
  BY PipelineAssumption
<1>3. DOMAIN Empty = {}
  BY DEF Empty
<1>4. breaker \in Breaker!Breaker /\ breaker.state = "NORMAL"
  BY <1>1, Parameters DEF Breaker!Breaker, Breaker!Fresh, Breaker!BreakerState
<1>5. \A f \in fills : f.symbol \in Symbol /\ f.side \in Side \ {"HOLD"} /\ f.shares \in Nat \ {0}
  BY <1>1, <1>2 DEF Purchase, Side
<1>6. TypeOK
  <2>1. 0 \in 0 .. MaxRebalances /\ 0 \in 0 .. ConfirmDays
    BY Parameters
  <2> QED BY <1>1, <1>2, <1>3, <1>4, <1>5, <2>1 DEF TypeOK
<1>7. BetweenOverlays
  BY <1>1 DEF BetweenOverlays
<1>8. CountIsConfirmed
  BY <1>4 DEF CountIsConfirmed
<1> QED BY <1>6, <1>7, <1>8 DEF IInv

\* One call of the breaker: it stays in its states, its count stays behind the
\* streak, and it is released only at the end of a full one.
LEMMA OneReading ==
    ASSUME breaker \in Breaker!Breaker, streak \in 0 .. ConfirmDays, CountIsConfirmed,
           NEW dd, Read(dd)
    PROVE  /\ breaker' \in Breaker!Breaker /\ streak' \in 0 .. ConfirmDays /\ CountIsConfirmed'
           /\ breaker.state # "NORMAL" /\ breaker'.state = "NORMAL" => streak' = ConfirmDays
<1> DEFINE b == breaker
           up == Breaker!Recovered(dd)
<1>1. /\ b.state \in {"NORMAL", "TRIPPED", "RECOVERING"} /\ b.progress \in 0 .. ConfirmDays
      /\ b = [state |-> b.state, progress |-> b.progress]
  BY DEF Breaker!Breaker, Breaker!BreakerState
<1>2. ConfirmDays \in Nat \ {0}
  BY Parameters
<1>3. streak' = IF up THEN Overlay!AtMost(streak + 1, ConfirmDays) ELSE 0
  BY DEF Read
<1>4. /\ streak' \in 0 .. ConfirmDays
      /\ up => streak' >= 1
      /\ up => streak' = ConfirmDays \/ streak' = streak + 1
  BY <1>2, <1>3 DEF Overlay!AtMost
<1>5. CASE b.state = "NORMAL"
  <2>1. breaker' = Breaker!WhenNormal(b, dd)
    BY <1>5 DEF Read, Breaker!Apply
  <2>2. breaker' = b \/ breaker' = [b EXCEPT !.state = "TRIPPED"]
    BY <2>1 DEF Breaker!WhenNormal
  <2>3. breaker' \in Breaker!Breaker /\ breaker'.state # "RECOVERING"
    BY <1>1, <1>5, <2>2 DEF Breaker!Breaker, Breaker!BreakerState
  <2> QED BY <1>4, <1>5, <2>3 DEF CountIsConfirmed
<1>6. CASE b.state = "TRIPPED"
  <2>1. breaker' = IF up THEN [state |-> "RECOVERING", progress |-> 1] ELSE b
    BY <1>6 DEF Read, Breaker!Apply, Breaker!WhenTripped
  <2>2. 1 \in 0 .. ConfirmDays
    BY <1>2
  <2>3. CASE up
    BY <1>4, <2>1, <2>2, <2>3 DEF CountIsConfirmed, Breaker!Breaker, Breaker!BreakerState
  <2>4. CASE ~up
    BY <1>1, <1>4, <1>6, <2>1, <2>4 DEF CountIsConfirmed, Breaker!Breaker, Breaker!BreakerState
  <2> QED BY <2>3, <2>4
<1>7. CASE b.state = "RECOVERING"
  <2>1. breaker' = Breaker!WhenRecovering(b, dd)
    BY <1>7 DEF Read, Breaker!Apply
  <2>2. b.progress <= streak
    BY <1>7 DEF CountIsConfirmed
  <2>3. CASE ~up
    <3>1. breaker' = [state |-> "TRIPPED", progress |-> 0]
      BY <2>1, <2>3 DEF Breaker!WhenRecovering
    <3>2. 0 \in 0 .. ConfirmDays
      BY <1>2
    <3> QED BY <1>4, <3>1, <3>2 DEF CountIsConfirmed, Breaker!Breaker, Breaker!BreakerState
  <2>4. CASE up /\ b.progress + 1 >= ConfirmDays
    <3>1. breaker' = [state |-> "NORMAL", progress |-> 0]
      BY <2>1, <2>4 DEF Breaker!WhenRecovering, Breaker!Fresh
    <3>2. streak' = ConfirmDays
      BY <1>1, <1>2, <1>4, <2>2, <2>4
    <3>3. 0 \in 0 .. ConfirmDays
      BY <1>2
    <3> QED BY <1>4, <3>1, <3>2, <3>3 DEF CountIsConfirmed, Breaker!Breaker, Breaker!BreakerState
  <2>5. CASE up /\ ~(b.progress + 1 >= ConfirmDays)
    <3>1. breaker' = [b EXCEPT !.progress = @ + 1]
      BY <2>1, <2>5 DEF Breaker!WhenRecovering
    <3>2. breaker' = [state |-> "RECOVERING", progress |-> b.progress + 1]
      BY <1>1, <1>7, <3>1
    <3>3. b.progress + 1 \in 0 .. ConfirmDays /\ b.progress + 1 <= streak'
      BY <1>1, <1>2, <1>4, <2>2, <2>5
    <3> QED BY <1>4, <3>2, <3>3 DEF CountIsConfirmed, Breaker!Breaker, Breaker!BreakerState
  <2> QED BY <2>3, <2>4, <2>5
<1> QED BY <1>1, <1>5, <1>6, <1>7

-----------------------------------------------------------------------------
(* Each action preserves it *)

\* What a step keeps by leaving the breaker, the account and the trade list alone.
LEMMA SameAccount ==
    ASSUME IInv, UNCHANGED <<trades, positions, fills, breakerVars>>,
           stage' \in Stage, market' \in Markets \cup {NoMarket}, ABook(book)',
           rebalances' \in 0 .. MaxRebalances
    PROVE  TypeOK' /\ CountIsConfirmed'
BY DEF IInv, TypeOK, CountIsConfirmed, ABook, Stage, breakerVars

LEMMA SessionKeeps ==
    ASSUME IInv, NEW dd \in Drawdowns, Session(dd) PROVE IInv'
<1>1. /\ breaker' \in Breaker!Breaker /\ streak' \in 0 .. ConfirmDays /\ CountIsConfirmed'
  BY OneReading, TypesOf DEF IInv, Session
<1>2. stage = "idle" /\ UNCHANGED <<stage, market, book, trades, positions, fills, rebalances>>
  BY DEF Session, account
<1>3. reading' \in Drawdowns
  BY DEF Session, Read
<1>4. TypeOK'
  BY <1>1, <1>2, <1>3 DEF IInv, TypeOK
<1>5. BetweenOverlays'
  BY <1>2 DEF BetweenOverlays
<1> QED BY <1>1, <1>4, <1>5 DEF IInv

LEMMA SelectKeeps ==
    ASSUME IInv, NEW m \in Markets, NEW q \in Qualities, Select(m, q) PROVE IInv'
<1>1. Screened(q) \in SUBSET Symbol
  BY DEF Screened, Overlay!PassProxy, Overlay!PassFundamental
<1>2. /\ book' = [x \in Screened(q) |-> Aum \div Cardinality(Screened(q))]
      /\ market' = m /\ stage' = "constraints"
      /\ rebalances < MaxRebalances /\ rebalances' = rebalances + 1
      /\ UNCHANGED <<trades, positions, fills, breakerVars>>
  BY DEF Select
<1>3. /\ ABook(book') /\ Overlay!Total(book') <= Aum
      /\ \E w \in Nat : \A x \in DOMAIN book' : book'[x] = w
  BY <1>1, <1>2, EqualWeights
<1>4. rebalances' \in 0 .. MaxRebalances
  BY <1>2, Parameters DEF IInv, TypeOK
<1>5. TypeOK' /\ CountIsConfirmed'
  <2>1. ABook(book)'
    BY <1>3 DEF ABook
  <2> QED BY <1>2, <1>4, <2>1, SameAccount DEF Stage
<1>6. BetweenOverlays'
  BY <1>2, <1>3 DEF BetweenOverlays
<1> QED BY <1>5, <1>6 DEF IInv

\* An overlay lowers weights: what it sets is kept, and what was set before.
LEMMA ConstrainKeeps ==
    ASSUME IInv, Constrain PROVE IInv'
<1> DEFINE c == Overlay!SectorCap(book)
           p == Overlay!RegimeEquity(market.index)
<1>1. /\ stage = "constraints" /\ stage' = "volatility" /\ book' = Overlay!Scaled(c, p)
      /\ UNCHANGED <<market, trades, positions, fills, rebalances, breakerVars>>
  BY DEF Constrain, account
<1>2. ABook(book) /\ Overlay!Total(book) <= Aum /\ \E w \in Nat : \A x \in DOMAIN book : book[x] = w
  BY <1>1, TypesOf DEF IInv, BetweenOverlays
<1>3. PICK w \in Nat : \A x \in DOMAIN book : book[x] = w
  BY <1>2
<1>4. DOMAIN c = DOMAIN book /\ (\A x \in DOMAIN book : c[x] \in Nat /\ c[x] <= book[x]) /\ Kept(c)
  BY <1>2, <1>3, SectorCapKeeps
<1>5. ABook(c)
  BY <1>2, <1>4 DEF ABook
<1>6. p \in 0 .. 100
  BY RegimeEquityIsFraction
<1> HIDE DEF c, p
<1>7. ABook(book') /\ Kept(book')
  <2>1. DOMAIN book' = DOMAIN c /\ \A x \in DOMAIN c : book'[x] \in Nat /\ book'[x] <= c[x]
    BY <1>1, <1>5, <1>6, ScaledDown
  <2> QED BY <1>4, <1>5, <2>1, LoweringKeeps
<1>8. TypeOK' /\ CountIsConfirmed'
  <2>1. ABook(book)' /\ market' \in Markets \cup {NoMarket} /\ rebalances' \in 0 .. MaxRebalances
    BY <1>1, <1>7 DEF ABook, IInv, TypeOK
  <2> QED BY <1>1, <2>1, SameAccount DEF Stage
<1>9. BetweenOverlays'
  BY <1>1, <1>7 DEF BetweenOverlays, Kept, IInv
<1> QED BY <1>8, <1>9 DEF IInv

LEMMA ScaleByVolatilityKeeps ==
    ASSUME IInv, ScaleByVolatility PROVE IInv'
<1> DEFINE p == Overlay!VolEquity(Overlay!RealizedVol(market.slow, market.fast))
<1>1. /\ stage = "volatility" /\ stage' = "liquidity" /\ book' = Overlay!Scaled(book, p)
      /\ UNCHANGED <<market, trades, positions, fills, rebalances, breakerVars>>
  BY DEF ScaleByVolatility, account
<1>2. ABook(book) /\ Kept(book) /\ market \in Markets
  BY <1>1, TypesOf DEF IInv, BetweenOverlays
<1>3. p \in 0 .. 100
  BY <1>2, VolEquityIsFraction
<1> HIDE DEF p
<1>4. ABook(book') /\ Kept(book')
  <2>1. DOMAIN book' = DOMAIN book /\ \A x \in DOMAIN book : book'[x] \in Nat /\ book'[x] <= book[x]
    BY <1>1, <1>2, <1>3, ScaledDown
  <2> QED BY <1>2, <2>1, LoweringKeeps
<1>5. TypeOK' /\ CountIsConfirmed'
  <2>1. ABook(book)' /\ market' \in Markets \cup {NoMarket} /\ rebalances' \in 0 .. MaxRebalances
    BY <1>1, <1>4 DEF ABook, IInv, TypeOK
  <2> QED BY <1>1, <2>1, SameAccount DEF Stage
<1>6. BetweenOverlays'
  BY <1>1, <1>2, <1>4 DEF BetweenOverlays, Kept
<1> QED BY <1>5, <1>6 DEF IInv

LEMMA CapByLiquidityKeeps ==
    ASSUME IInv, CapByLiquidity PROVE IInv'
<1>1. /\ stage = "liquidity" /\ stage' = "breaker" /\ book' = Overlay!CapLiquidity(book, market.adtv)
      /\ UNCHANGED <<market, trades, positions, fills, rebalances, breakerVars>>
  BY DEF CapByLiquidity, account
<1>2. ABook(book) /\ Kept(book) /\ market \in Markets
  BY <1>1, TypesOf DEF IInv, BetweenOverlays
<1>3. ABook(book') /\ Kept(book') /\ Liquid(book', market)
  <2>1. /\ DOMAIN book' = DOMAIN book /\ \A x \in DOMAIN book : book'[x] \in Nat /\ book'[x] <= book[x]
        /\ Liquid(book', market)
    BY <1>1, <1>2, CapLiquidityKeeps
  <2> QED BY <1>2, <2>1, LoweringKeeps
<1>4. TypeOK' /\ CountIsConfirmed'
  <2>1. ABook(book)' /\ market' \in Markets \cup {NoMarket} /\ rebalances' \in 0 .. MaxRebalances
    BY <1>1, <1>3 DEF ABook, IInv, TypeOK
  <2> QED BY <1>1, <2>1, SameAccount DEF Stage
<1>5. BetweenOverlays'
  BY <1>1, <1>2, <1>3 DEF BetweenOverlays, Kept, Liquid
<1> QED BY <1>4, <1>5 DEF IInv

\* The session that trips the breaker is already held to the safe-mode equity.
LEMMA BreakKeeps ==
    ASSUME IInv, NEW dd \in Drawdowns \cup {NoCurve}, Break(dd) PROVE IInv'
<1>1. /\ stage = "breaker" /\ stage' = "trade"
      /\ UNCHANGED <<market, trades, positions, fills, rebalances>>
  BY DEF Break, account
<1>2. ABook(book) /\ Kept(book) /\ Liquid(book, market) /\ market \in Markets
  BY <1>1, TypesOf DEF IInv, BetweenOverlays
<1>3. CASE dd = NoCurve \/ book = Empty
  <2>1. reading' = NoCurve /\ UNCHANGED <<breaker, streak, book>>
    BY <1>3 DEF Break
  <2>2. TypeOK'
    BY <1>1, <2>1 DEF IInv, TypeOK
  <2>3. CountIsConfirmed'
    BY <2>1 DEF IInv, CountIsConfirmed
  <2>4. BetweenOverlays'
    BY <1>1, <1>2, <2>1 DEF BetweenOverlays, Kept, Liquid
  <2> QED BY <2>2, <2>3, <2>4 DEF IInv
<1>4. CASE ~(dd = NoCurve \/ book = Empty)
  <2> DEFINE p == Breaker!EquityFraction(breaker')
  <2>1. Read(dd) /\ book' = Overlay!Scaled(book, p) /\ dd \in Drawdowns
    BY <1>4 DEF Break
  <2>2. breaker' \in Breaker!Breaker /\ streak' \in 0 .. ConfirmDays /\ CountIsConfirmed'
    BY <2>1, OneReading, TypesOf DEF IInv
  <2>3. p \in 0 .. 100 /\ (breaker'.state # "NORMAL" => p = SafeEquity)
    <3>1. SafeEquity \in 0 .. 100 /\ 100 \in 0 .. 100
      BY Parameters
    <3> QED BY <3>1 DEF Breaker!EquityFraction
  <2> HIDE DEF p
  <2>4. /\ DOMAIN book' = DOMAIN book /\ \A x \in DOMAIN book : book'[x] \in Nat /\ book'[x] <= book[x]
        /\ 100 * Overlay!Total(book') <= p * Overlay!Total(book)
    BY <1>2, <2>1, <2>3, ScaledDown
  <2>5. ABook(book') /\ Kept(book') /\ Liquid(book', market)
    BY <1>2, <2>4, LoweringKeeps
  <2>6. breaker'.state # "NORMAL" => 100 * Overlay!Total(book') <= SafeEquity * Aum
    <3> SUFFICES ASSUME breaker'.state # "NORMAL" PROVE 100 * Overlay!Total(book') <= SafeEquity * Aum
      OBVIOUS
    <3>1. Overlay!Total(book) \in Nat /\ Overlay!Total(book') \in Nat /\ Overlay!Total(book) <= Aum
      BY <1>2, <2>5, TotalIsNat DEF Kept
    <3>2. 100 * Overlay!Total(book') <= SafeEquity * Overlay!Total(book)
      BY <2>3, <2>4
    <3>3. \A t, u, e, a \in Nat : 100 * u <= e * t /\ t <= a => 100 * u <= e * a
      <4>1. \A t, e, a \in Nat : t <= a => e * t <= e * a /\ e * t \in Nat /\ e * a \in Nat
        OBVIOUS
      <4>2. \A u, k, l \in Nat : 100 * u <= k /\ k <= l => 100 * u <= l
        OBVIOUS
      <4> QED BY <4>1, <4>2
    <3>4. SafeEquity \in Nat /\ Aum \in Nat
      BY Parameters
    <3> QED BY <3>1, <3>2, <3>3, <3>4
  <2>7. TypeOK'
    <3>1. reading' \in Drawdowns
      BY <2>1 DEF Read
    <3> QED BY <1>1, <2>2, <2>5, <3>1 DEF IInv, TypeOK, ABook
  <2>8. BetweenOverlays'
    BY <1>1, <1>2, <2>5, <2>6 DEF BetweenOverlays, Kept, Liquid
  <2> QED BY <2>2, <2>7, <2>8 DEF IInv
<1> QED BY <1>3, <1>4

LEMMA TradeTypes ==
    ASSUME NEW b, ABook(b), NEW m \in Markets, NEW held \in [Symbol -> Nat],
           NEW x \in DOMAIN b
    PROVE  LET t == Sim!Simulate(b, held, m.price)[x] IN
           /\ t \in [side : Side, delta : Int, target : Nat]
           /\ t.delta = Sim!DeltaShares(b[x], held[x], m.price[x])
           /\ t.side = Sim!SideOf(t.delta)
           /\ held[x] + t.delta \in Nat
<1> DEFINE d == Sim!DeltaShares(b[x], held[x], m.price[x])
           g == Sim!TargetShares(b[x], m.price[x])
<1>1. b[x] \in Nat /\ held[x] \in Nat /\ m.price[x] \in Nat
  BY MarketTypes DEF ABook
<1>2. d \in Int /\ held[x] + d \in Nat
  <2> HIDE DEF d
  <2>1. d = Sim!DeltaShares(b[x], held[x], m.price[x])
    BY DEF d
  <2> QED BY <1>1, <2>1, LotTowardTarget
<1>3. g \in Nat
  <2>1. \A n \in Nat, p \in Nat \ {0} : n \div p \in Nat
    OBVIOUS
  <2>2. \A k, l \in Nat : k * l \in Nat
    OBVIOUS
  <2>3. \A n \in Nat, p \in Nat \ {0} : ((n \div p) \div Lot) * Lot \in Nat
    BY <2>1, <2>2, Parameters
  <2> QED BY <1>1, <2>3 DEF Sim!TargetShares, Sim!RoundDownToLot
<1>4. Sim!Simulate(b, held, m.price)[x] = [side |-> Sim!SideOf(d), delta |-> d, target |-> g]
  BY DEF Sim!Simulate
<1>5. Sim!SideOf(d) \in Side
  BY DEF Sim!SideOf, Side
<1> HIDE DEF d, g
<1>6. [side |-> Sim!SideOf(d), delta |-> d, target |-> g] \in [side : Side, delta : Int, target : Nat]
  BY <1>2, <1>3, <1>5
<1> QED BY <1>2, <1>4, <1>6 DEF d

LEMMA TradeKeeps ==
    ASSUME IInv, NEW exits \in {{}, Symbol}, Trade(exits) PROVE IInv'
<1>1. /\ stage = "trade" /\ stage' = "fill" /\ book' = Listed(exits)
      /\ trades' = Sim!Simulate(book', positions, market.price)
      /\ UNCHANGED <<market, positions, fills, rebalances, breakerVars>>
  BY DEF Trade, account
<1>2. ABook(book) /\ market \in Markets /\ positions \in [Symbol -> Nat]
  BY <1>1, TypesOf DEF IInv, BetweenOverlays
<1>3. ABook(book')
  <2>1. exits \subseteq Symbol
    OBVIOUS
  <2>2. /\ DOMAIN book' = DOMAIN book \cup {y \in exits : positions[y] > 0}
        /\ \A x \in DOMAIN book' : book'[x] = IF x \in DOMAIN book THEN book[x] ELSE 0
    BY <1>1 DEF Listed
  <2> QED BY <1>2, <2>1, <2>2 DEF ABook
<1>4. \A x \in DOMAIN trades' : trades'[x] \in [side : Side, delta : Int, target : Nat]
  <2>1. DOMAIN trades' = DOMAIN book'
    BY <1>1 DEF Sim!Simulate
  <2> QED BY <1>1, <1>2, <1>3, <2>1, TradeTypes
<1>5. TypeOK'
  BY <1>1, <1>3, <1>4 DEF IInv, TypeOK, ABook, breakerVars
<1>6. BetweenOverlays'
  BY <1>1, <1>2 DEF BetweenOverlays
<1>7. CountIsConfirmed'
  BY <1>1 DEF IInv, CountIsConfirmed, breakerVars
<1> QED BY <1>5, <1>6, <1>7 DEF IInv

LEMMA FillKeeps ==
    ASSUME IInv, Fill PROVE IInv'
<1>1. /\ stage = "fill" /\ stage' = "idle" /\ market' = NoMarket /\ book' = Empty /\ trades' = Empty
      /\ UNCHANGED <<rebalances, breakerVars>>
      /\ positions' = [x \in Symbol |->
                        IF x \in Traded THEN positions[x] + trades[x].delta ELSE positions[x]]
      /\ fills' = fills \cup
                {[time |-> rebalances, symbol |-> x, side |-> trades[x].side,
                  shares |-> Shares(x), price |-> market.price[x],
                  fee |-> Fee * Shares(x)] : x \in Traded}
  BY DEF Fill
<1>2. /\ ABook(book) /\ market \in Markets /\ positions \in [Symbol -> Nat]
      /\ trades = Sim!Simulate(book, positions, market.price)
  BY <1>1, TypesOf DEF IInv, BetweenOverlays
<1>3. \A x \in Traded : /\ x \in DOMAIN book /\ x \in Symbol
                        /\ trades[x] \in [side : Side, delta : Int, target : Nat]
                        /\ trades[x].side = Sim!SideOf(trades[x].delta) /\ trades[x].side # "HOLD"
                        /\ positions[x] + trades[x].delta \in Nat
  <2> SUFFICES ASSUME NEW x \in Traded
               PROVE  /\ x \in DOMAIN book /\ x \in Symbol
                      /\ trades[x] \in [side : Side, delta : Int, target : Nat]
                      /\ trades[x].side = Sim!SideOf(trades[x].delta) /\ trades[x].side # "HOLD"
                      /\ positions[x] + trades[x].delta \in Nat
    OBVIOUS
  <2>1. x \in DOMAIN trades /\ trades[x].side # "HOLD"
    BY DEF Traded
  <2>2. x \in DOMAIN book
    BY <1>2, <2>1 DEF Sim!Simulate
  <2>3. x \in Symbol
    BY <1>2, <2>2 DEF ABook
  <2> QED BY <1>2, <2>1, <2>2, <2>3, TradeTypes
<1>4. positions' \in [Symbol -> Nat]
  <2>1. \A x \in Symbol : positions[x] \in Nat
    BY <1>2
  <2> QED BY <1>1, <1>3, <2>1
<1>5. \A x \in Traded : Shares(x) \in Nat \ {0} /\ trades[x].side \in Side \ {"HOLD"}
  <2> SUFFICES ASSUME NEW x \in Traded
               PROVE  Shares(x) \in Nat \ {0} /\ trades[x].side \in Side \ {"HOLD"}
    OBVIOUS
  <2>1. trades[x].delta \in Int /\ trades[x].side \in Side
    BY <1>3
  <2>2. trades[x].delta # 0
    <3>1. ~(0 > 0) /\ ~(0 < 0)
      OBVIOUS
    <3> QED BY <1>3, <3>1 DEF Sim!SideOf
  <2>3. Shares(x) \in Nat \ {0}
    BY <2>1, <2>2 DEF Shares
  <2> QED BY <1>3, <2>1, <2>3
<1>6. \A f \in fills' : f.symbol \in Symbol /\ f.side \in Side \ {"HOLD"} /\ f.shares \in Nat \ {0}
  <2> SUFFICES ASSUME NEW f \in fills'
               PROVE  f.symbol \in Symbol /\ f.side \in Side \ {"HOLD"} /\ f.shares \in Nat \ {0}
    OBVIOUS
  <2>1. CASE f \in fills
    BY <2>1 DEF IInv, TypeOK
  <2>2. CASE f \notin fills
    <3>1. PICK x \in Traded : f.symbol = x /\ f.side = trades[x].side /\ f.shares = Shares(x)
      BY <1>1, <2>2
    <3> QED BY <1>3, <1>5, <3>1
  <2> QED BY <2>1, <2>2
<1>7. TypeOK'
  <2>1. DOMAIN Empty = {}
    BY DEF Empty
  <2> QED BY <1>1, <1>4, <1>6, <2>1 DEF IInv, TypeOK, breakerVars
<1>8. BetweenOverlays'
  BY <1>1 DEF BetweenOverlays
<1>9. CountIsConfirmed'
  BY <1>1 DEF IInv, CountIsConfirmed, breakerVars
<1> QED BY <1>7, <1>8, <1>9 DEF IInv

LEMMA StutterKeeps ==
    ASSUME IInv, UNCHANGED vars PROVE IInv'
<1>1. UNCHANGED <<stage, market, book, trades, positions, fills, rebalances, breaker, reading, streak>>
  BY DEF vars, account, breakerVars
<1>2. TypeOK'
  BY <1>1 DEF IInv, TypeOK
<1>3. BetweenOverlays' /\ CountIsConfirmed'
  BY <1>1 DEF IInv, BetweenOverlays, CountIsConfirmed, Kept, Liquid
<1> QED BY <1>2, <1>3 DEF IInv

LEMMA StepKeeps == IInv /\ [Next]_vars => IInv'
<1> SUFFICES ASSUME IInv, [Next]_vars PROVE IInv'
  OBVIOUS
<1>1. CASE Sessions
  BY <1>1, SessionKeeps DEF Sessions
<1>2. CASE \E m \in Markets, q \in Qualities : Select(m, q)
  BY <1>2, SelectKeeps
<1>3. CASE Constrain
  BY <1>3, ConstrainKeeps
<1>4. CASE ScaleByVolatility
  BY <1>4, ScaleByVolatilityKeeps
<1>5. CASE CapByLiquidity
  BY <1>5, CapByLiquidityKeeps
<1>6. CASE \E dd \in Drawdowns \cup {NoCurve} : Break(dd)
  BY <1>6, BreakKeeps
<1>7. CASE \E exits \in {{}, Symbol} : Trade(exits)
  BY <1>7, TradeKeeps
<1>8. CASE Fill
  BY <1>8, FillKeeps
<1>9. CASE UNCHANGED vars
  BY <1>9, StutterKeeps
<1> QED BY <1>1, <1>2, <1>3, <1>4, <1>5, <1>6, <1>7, <1>8, <1>9 DEF Next, Rebalance

-----------------------------------------------------------------------------
(* Theorems: the overlays, the trades and the breaker *)

\* The invariant the others come from: what each overlay has set so far is kept by
\* those that follow, and the breaker's count of confirmations is backed by readings.
THEOREM Inductive == Spec => []IInv
<1>1. Init => IInv
  BY InitIInv
<1>2. IInv /\ [Next]_vars => IInv'
  BY StepKeeps
<1> QED BY <1>1, <1>2, PTL DEF Spec

\* Type correctness; in particular the shares held are never negative: no trade of the
\* simulator sells more than the fund has.
THEOREM TypeCorrect == Spec => []TypeOK
<1>1. IInv => TypeOK
  BY DEF IInv
<1> QED BY <1>1, Inductive, PTL

\* A book about to be traded keeps the limits of the fund, of each sector, of each
\* name's turnover and of safe mode at once, in any market and at any caps.
THEOREM BookWithinLimitsHolds == Spec => []BookWithinLimits
<1>1. IInv => BookWithinLimits
  BY DEF IInv, BetweenOverlays, BookWithinLimits, Kept, Liquid
<1> QED BY <1>1, Inductive, PTL

\* The trade list of the simulator moves each position in whole lots toward its
\* target, never past it, and to within a lot of it: for buys, for sells and for exits.
THEOREM TradesApproachTargetHolds == Spec => []TradesApproachTarget
<1>1. ASSUME IInv PROVE TradesApproachTarget
  <2> SUFFICES ASSUME stage = "fill", NEW x \in DOMAIN trades
               PROVE  /\ trades[x].delta % Lot = 0
                      /\ Between(positions[x] * market.price[x] + trades[x].delta * market.price[x],
                                 positions[x] * market.price[x], book[x])
                      /\ market.price[x] > 0 =>
                            Between(book[x],
                                    (positions[x] * market.price[x] + trades[x].delta * market.price[x])
                                        - Lot * market.price[x],
                                    (positions[x] * market.price[x] + trades[x].delta * market.price[x])
                                        + Lot * market.price[x])
    BY DEF TradesApproachTarget
  <2>1. /\ ABook(book) /\ market \in Markets /\ positions \in [Symbol -> Nat]
        /\ trades = Sim!Simulate(book, positions, market.price)
    BY <1>1, TypesOf DEF IInv, BetweenOverlays
  <2>2. x \in DOMAIN book
    BY <2>1 DEF Sim!Simulate
  <2>3. book[x] \in Nat /\ positions[x] \in Nat /\ market.price[x] \in Nat
    BY <2>1, <2>2, MarketTypes DEF ABook
  <2>4. trades[x].delta = Sim!DeltaShares(book[x], positions[x], market.price[x])
    BY <2>1, <2>2, TradeTypes
  <2> QED BY <2>3, <2>4, LotTowardTarget
<1>2. IInv => TradesApproachTarget
  BY <1>1
<1> QED BY <1>2, Inductive, PTL

\* Safe mode ends only after as many consecutive readings above the recovery threshold
\* as the breaker is to confirm, whichever of sessions and rebalances they were.
THEOREM ReleaseIsConfirmedHolds == Spec => ReleaseIsConfirmed
<1>1. ASSUME IInv, [Next]_vars
      PROVE  breaker.state # "NORMAL" /\ breaker'.state = "NORMAL" => streak' = ConfirmDays
  <2>1. \/ \E dd : Read(dd)
        \/ UNCHANGED breaker
    BY <1>1 DEF Next, Rebalance, Sessions, Session, Select, Constrain, ScaleByVolatility,
                CapByLiquidity, Break, Trade, Fill, vars, breakerVars
  <2>2. ASSUME NEW dd, Read(dd)
        PROVE  breaker.state # "NORMAL" /\ breaker'.state = "NORMAL" => streak' = ConfirmDays
    BY <1>1, <2>2, OneReading, TypesOf DEF IInv
  <2> QED BY <2>1, <2>2
<1>2. IInv /\ [Next]_vars =>
        [breaker.state # "NORMAL" /\ breaker'.state = "NORMAL" => streak' = ConfirmDays]_vars
  BY <1>1
<1> QED BY <1>2, Inductive, PTL DEF Spec, ReleaseIsConfirmed

-----------------------------------------------------------------------------
(* The pairing of a symbol's fills *)

\* Repeating n steps from base: step i applies G[i].
Runs(F, V, base, G, n) ==
    /\ F \in [0 .. n -> V] /\ F[0] = base
    /\ \A i \in 1 .. n : F[i] = G[i][F[i - 1]]

LEMMA Iteration ==
    ASSUME NEW V, NEW base \in V, NEW n \in Nat, NEW G \in [1 .. n -> [V -> V]]
    PROVE  \E F : Runs(F, V, base, G, n)
<1> DEFINE P == {k \in Nat : k <= n => \E F : Runs(F, V, base, G, k)}
<1>1. 0 \in P
  <2> DEFINE F == [i \in 0 .. 0 |-> base]
  <2>1. Runs(F, V, base, G, 0)
    BY DEF Runs
  <2> QED BY <2>1
<1>2. ASSUME NEW k \in Nat, NEW F, Runs(F, V, base, G, k), k + 1 <= n PROVE \E H : Runs(H, V, base, G, k + 1)
  <2>1. k + 1 \in 1 .. n /\ k \in 0 .. k
    BY <1>2
  <2> DEFINE H == [i \in 0 .. k + 1 |-> IF i = k + 1 THEN G[k + 1][F[k]] ELSE F[i]]
  <2>2. F \in [0 .. k -> V] /\ F[0] = base /\ \A i \in 1 .. k : F[i] = G[i][F[i - 1]]
    BY <1>2 DEF Runs
  <2>3. F[k] \in V /\ G[k + 1][F[k]] \in V
    BY <2>1, <2>2
  <2>4. H \in [0 .. k + 1 -> V] /\ H[k + 1] = G[k + 1][F[k]] /\ \A i \in 0 .. k : H[i] = F[i]
    BY <2>2, <2>3
  <2> HIDE DEF H
  <2>5. H[0] = base
    BY <2>1, <2>2, <2>4
  <2>6. ASSUME NEW i \in 1 .. k + 1 PROVE H[i] = G[i][H[i - 1]]
    <3>1. CASE i = k + 1
      <4>1. i - 1 = k /\ k \in 0 .. k
        BY <2>1, <3>1
      <4> QED BY <2>4, <3>1, <4>1
    <3>2. CASE i # k + 1
      <4>1. i \in 1 .. k /\ i \in 0 .. k /\ i - 1 \in 0 .. k
        BY <2>1, <3>2
      <4> QED BY <2>2, <2>4, <4>1
    <3> QED BY <3>1, <3>2
  <2>7. Runs(H, V, base, G, k + 1)
    BY <2>4, <2>5, <2>6 DEF Runs
  <2> QED BY <2>7
<1>3. \A k \in P : k + 1 \in P
  <2> SUFFICES ASSUME NEW k \in Nat, k <= n => \E F : Runs(F, V, base, G, k), k + 1 <= n
               PROVE  \E H : Runs(H, V, base, G, k + 1)
    OBVIOUS
  <2>1. k <= n
    OBVIOUS
  <2> QED BY <1>2, <2>1
<1>4. n \in P
  <2>1. P \in SUBSET Nat
    OBVIOUS
  <2> HIDE DEF P
  <2> QED BY <1>1, <1>3, <2>1, Induction
<1> QED BY <1>4

PositionSide == {"LONG", "SHORT"}
LotType == [side : PositionSide, time : Nat, price : Nat, shares : Nat \ {0}, fee : Int]
ClosedType == [side : PositionSide, entry : Nat, exit : Nat, qty : Nat, fee : Int, pnl : Int]
BookType == [lots : Seq(LotType), closed : Seq(ClosedType)]
TurnType == [wanted : Nat, lots : Seq(LotType), closed : Seq(ClosedType)]
FillType == [time : Nat, symbol : Symbol, side : {"BUY", "SELL"}, shares : Nat \ {0},
             price : Nat, fee : Nat]

\* A commission is a constant per share, so that its parts are whole.
Charged(f) == f.fee = Fee * f.shares

\* The sums of PairingReconciles.
ShareOf(lots) == [i \in Items(lots) |-> Signed(lots[i], lots[i].shares)]
CostOf(lots) == [i \in Items(lots) |-> Signed(lots[i], lots[i].shares * lots[i].price) + lots[i].fee]
PnlOf(closed) == [i \in Items(closed) |-> closed[i].pnl]
ShareSum(lots) == SumFunction(ShareOf(lots))
CostSum(lots) == SumFunction(CostOf(lots))
PnlSum(closed) == SumFunction(PnlOf(closed))

\* What a fill adds to a position.
Put(f, n) == IF f.side = "BUY" THEN n ELSE -n

LEMMA LotValues ==
    ASSUME NEW lot \in LotType
    PROVE  /\ lot.shares * lot.price \in Nat
           /\ Signed(lot, lot.shares) \in Int
           /\ Signed(lot, lot.shares * lot.price) + lot.fee \in Int
<1>1. lot.shares \in Nat /\ lot.price \in Nat /\ lot.fee \in Int
  BY DEF LotType
<1>2. lot.shares * lot.price \in Nat
  BY <1>1
<1>3. \A n \in Nat : Signed(lot, n) \in Int
  BY DEF Signed
<1> QED BY <1>1, <1>2, <1>3

LEMMA SumUpTo ==
    ASSUME NEW n \in Nat, NEW g, \A i \in 1 .. n : g[i] \in Int
    PROVE  SumFunctionOnSet(g, 1 .. n) \in Int
<1>1. IsFiniteSet(1 .. n)
  BY FS_Interval
<1> QED BY <1>1, SumIsInt

LEMMA SumUpToNext ==
    ASSUME NEW n \in Nat, NEW g, \A i \in 1 .. n + 1 : g[i] \in Int
    PROVE  SumFunctionOnSet(g, 1 .. n + 1) = SumFunctionOnSet(g, 1 .. n) + g[n + 1]
<1> DEFINE S == 1 .. n
           m == n + 1
<1>1. IsFiniteSet(S)
  BY FS_Interval
<1>2. 1 .. m = S \cup {m} /\ m \notin S
  OBVIOUS
<1>3. \A i \in S \cup {m} : g[i] \in Int
  BY <1>2
<1> HIDE DEF S, m
<1>4. SumFunctionOnSet(g, S \cup {m}) = SumFunctionOnSet(g, S) + g[m]
  BY <1>1, <1>2, <1>3, SumAdd
<1> QED BY <1>2, <1>4 DEF S, m

LEMMA SumAppended ==
    ASSUME NEW n \in Nat, NEW g, DOMAIN g = 1 .. n, NEW h, DOMAIN h = 1 .. n + 1,
           \A i \in 1 .. n : g[i] \in Int /\ h[i] = g[i], h[n + 1] \in Int
    PROVE  SumFunction(h) = SumFunction(g) + h[n + 1]
<1>1. SumFunction(g) = SumFunctionOnSet(g, 1 .. n) /\ SumFunction(h) = SumFunctionOnSet(h, 1 .. n + 1)
  BY DEF SumFunction
<1>2. \A i \in 1 .. n + 1 : h[i] \in Int
  <2>1. \A i \in 1 .. n + 1 : i \in 1 .. n \/ i = n + 1
    OBVIOUS
  <2> QED BY <2>1
<1>3. SumFunctionOnSet(h, 1 .. n + 1) = SumFunctionOnSet(h, 1 .. n) + h[n + 1]
  BY <1>2, SumUpToNext
<1>4. SumFunctionOnSet(h, 1 .. n) = SumFunctionOnSet(g, 1 .. n)
  <2>1. IsFiniteSet(1 .. n)
    BY FS_Interval
  <2>2. \A i \in 1 .. n : h[i] = g[i] /\ h[i] \in Int
    OBVIOUS
  <2> QED BY <2>1, <2>2, SumSame
<1> QED BY <1>1, <1>3, <1>4

LEMMA NothingSums == ShareSum(<<>>) = 0 /\ CostSum(<<>>) = 0 /\ PnlSum(<<>>) = 0
<1> DEFINE none == <<>>
<1>1. Items(none) = {}
  BY DEF Items
<1> HIDE DEF none
<1>2. DOMAIN ShareOf(none) = {} /\ DOMAIN CostOf(none) = {} /\ DOMAIN PnlOf(none) = {}
  BY <1>1 DEF ShareOf, CostOf, PnlOf
<1>3. ShareSum(none) = 0 /\ CostSum(none) = 0 /\ PnlSum(none) = 0
  BY <1>2, SumEmpty DEF ShareSum, CostSum, PnlSum, SumFunction
<1> QED BY <1>3 DEF none

LEMMA LotSums ==
    ASSUME NEW lots \in Seq(LotType)
    PROVE  /\ ShareSum(lots) \in Int /\ CostSum(lots) \in Int
           /\ ShareSum(lots) = SumFunctionOnSet(ShareOf(lots), 1 .. Len(lots))
           /\ CostSum(lots) = SumFunctionOnSet(CostOf(lots), 1 .. Len(lots))
<1>1. Len(lots) \in Nat /\ \A i \in 1 .. Len(lots) : lots[i] \in LotType
  OBVIOUS
<1>2. /\ DOMAIN ShareOf(lots) = 1 .. Len(lots) /\ DOMAIN CostOf(lots) = 1 .. Len(lots)
      /\ \A i \in 1 .. Len(lots) : ShareOf(lots)[i] \in Int /\ CostOf(lots)[i] \in Int
  BY <1>1, LotValues DEF ShareOf, CostOf, Items
<1>3. /\ SumFunctionOnSet(ShareOf(lots), 1 .. Len(lots)) \in Int
      /\ SumFunctionOnSet(CostOf(lots), 1 .. Len(lots)) \in Int
  BY <1>1, <1>2, SumUpTo
<1> QED BY <1>2, <1>3 DEF ShareSum, CostSum, SumFunction

LEMMA LotAppended ==
    ASSUME NEW lots \in Seq(LotType), NEW lot \in LotType
    PROVE  /\ ShareSum(Append(lots, lot)) = ShareSum(lots) + Signed(lot, lot.shares)
           /\ CostSum(Append(lots, lot)) = CostSum(lots) + (Signed(lot, lot.shares * lot.price) + lot.fee)
<1> DEFINE n == Len(lots)
           more == Append(lots, lot)
<1>1. n \in Nat /\ Len(more) = n + 1 /\ more[n + 1] = lot /\ more \in Seq(LotType)
      /\ \A i \in 1 .. n : more[i] = lots[i] /\ lots[i] \in LotType /\ i \in 1 .. n + 1
  OBVIOUS
<1> HIDE DEF n, more
<1>2. /\ DOMAIN ShareOf(lots) = 1 .. n /\ DOMAIN CostOf(lots) = 1 .. n
      /\ DOMAIN ShareOf(more) = 1 .. n + 1 /\ DOMAIN CostOf(more) = 1 .. n + 1
  BY <1>1 DEF ShareOf, CostOf, Items, n
<1>3. \A i \in 1 .. n : /\ ShareOf(lots)[i] \in Int /\ ShareOf(more)[i] = ShareOf(lots)[i]
                        /\ CostOf(lots)[i] \in Int /\ CostOf(more)[i] = CostOf(lots)[i]
  BY <1>1, LotValues DEF ShareOf, CostOf, Items, n
<1>4. /\ ShareOf(more)[n + 1] = Signed(lot, lot.shares)
      /\ CostOf(more)[n + 1] = Signed(lot, lot.shares * lot.price) + lot.fee
  BY <1>1 DEF ShareOf, CostOf, Items
<1>5. ShareOf(more)[n + 1] \in Int /\ CostOf(more)[n + 1] \in Int
  BY <1>4, LotValues
<1>6. SumFunction(ShareOf(more)) = SumFunction(ShareOf(lots)) + ShareOf(more)[n + 1]
  BY <1>1, <1>2, <1>3, <1>5, SumAppended
<1>7. SumFunction(CostOf(more)) = SumFunction(CostOf(lots)) + CostOf(more)[n + 1]
  BY <1>1, <1>2, <1>3, <1>5, SumAppended
<1> QED BY <1>4, <1>6, <1>7 DEF ShareSum, CostSum, more

LEMMA ClosedAppended ==
    ASSUME NEW closed \in Seq(ClosedType), NEW c \in ClosedType
    PROVE  /\ PnlSum(closed) \in Int
           /\ PnlSum(Append(closed, c)) = PnlSum(closed) + c.pnl
<1> DEFINE n == Len(closed)
           more == Append(closed, c)
<1>1. n \in Nat /\ Len(more) = n + 1 /\ more[n + 1] = c
      /\ \A i \in 1 .. n : more[i] = closed[i] /\ closed[i] \in ClosedType /\ i \in 1 .. n + 1
  OBVIOUS
<1>2. \A d \in ClosedType : d.pnl \in Int
  BY DEF ClosedType
<1> HIDE DEF n, more
<1>3. DOMAIN PnlOf(closed) = 1 .. n /\ DOMAIN PnlOf(more) = 1 .. n + 1
  BY <1>1 DEF PnlOf, Items, n
<1>4. \A i \in 1 .. n : PnlOf(closed)[i] \in Int /\ PnlOf(more)[i] = PnlOf(closed)[i]
  BY <1>1, <1>2 DEF PnlOf, Items, n
<1>5. PnlOf(more)[n + 1] = c.pnl /\ c.pnl \in Int
  BY <1>1, <1>2 DEF PnlOf, Items
<1>6. SumFunction(PnlOf(more)) = SumFunction(PnlOf(closed)) + PnlOf(more)[n + 1]
  BY <1>1, <1>3, <1>4, <1>5, SumAppended
<1>7. SumFunction(PnlOf(closed)) \in Int
  BY <1>1, <1>3, <1>4, SumUpTo DEF SumFunction
<1> QED BY <1>5, <1>6, <1>7 DEF PnlSum, more

-----------------------------------------------------------------------------
(* The closing loop *)

LEMMA FillFields ==
    ASSUME NEW f \in FillType
    PROVE  /\ f.time \in Nat /\ f.symbol \in Symbol /\ f.side \in {"BUY", "SELL"}
           /\ f.shares \in Nat \ {0} /\ f.price \in Nat /\ f.fee \in Nat
           /\ Pairing!Opens(f) \in PositionSide
BY DEF FillType, Pairing!Opens, PositionSide

LEMMA LotFields ==
    ASSUME NEW lot \in LotType
    PROVE  /\ lot.side \in PositionSide /\ lot.time \in Nat /\ lot.price \in Nat
           /\ lot.shares \in Nat \ {0} /\ lot.fee \in Int
BY DEF LotType

\* The parts of a commission are whole numbers of Fee.
LEMMA PartOfFee ==
    ASSUME NEW n \in Nat \ {0}, NEW q \in Nat, NEW fee, fee = Fee * n
    PROVE  (fee * q) \div n = Fee * q /\ Fee * q \in Nat
<1>1. Fee \in Nat
  BY Parameters
<1>2. fee * q = (Fee * q) * n /\ Fee * q \in Nat
  BY <1>1
<1>3. \A k \in Nat : (k * n) \div n = k
  OBVIOUS
<1> QED BY <1>2, <1>3

\* One turn of the closing loop: nothing is wanted any more, or the lot is used up,
\* or the lot gives the rest of what is wanted.
Passes(a, acc, lot) == acc.wanted = 0 /\ a = [acc EXCEPT !.lots = Append(@, lot)]

Gives(a, acc, lot, f, q) ==
    /\ acc.wanted > 0 /\ q \in Nat \ {0} /\ q <= acc.wanted /\ q <= lot.shares
    /\ a.wanted = acc.wanted - q
    /\ \E c \in ClosedType :
          /\ a.closed = Append(acc.closed, c)
          /\ c.entry = lot.time
          /\ c.pnl = Pairing!Gain(lot.side, lot.price, f.price) * q - (Fee * q + Fee * q)

UsesUp(a, acc, lot, f) == Gives(a, acc, lot, f, lot.shares) /\ a.lots = acc.lots

LeavesRest(a, acc, lot, f) ==
    /\ Gives(a, acc, lot, f, acc.wanted) /\ acc.wanted < lot.shares
    /\ \E r \in LotType :
          /\ a.lots = Append(acc.lots, r)
          /\ r.side = lot.side /\ r.time = lot.time /\ r.price = lot.price
          /\ r.shares = lot.shares - acc.wanted /\ Charged(r)

LEMMA OneTurn ==
    ASSUME NEW f \in FillType, Charged(f), NEW acc \in TurnType, NEW lot \in LotType, Charged(lot),
           NEW a, a = Pairing!Close(f, acc, lot)
    PROVE  /\ a \in TurnType
           /\ Passes(a, acc, lot) \/ UsesUp(a, acc, lot, f) \/ LeavesRest(a, acc, lot, f)
<1> DEFINE q == IF lot.shares < acc.wanted THEN lot.shares ELSE acc.wanted
           fee == Pairing!EntryFee(lot, q) + (f.fee * q) \div f.shares
           rest == Pairing!Rest(lot, q)
           c == Pairing!ClosedTrade(f, lot, q, fee)
<1>1. /\ acc.wanted \in Nat /\ acc.lots \in Seq(LotType) /\ acc.closed \in Seq(ClosedType)
      /\ acc = [wanted |-> acc.wanted, lots |-> acc.lots, closed |-> acc.closed]
  BY DEF TurnType
<1>2. /\ lot.side \in PositionSide /\ lot.time \in Nat /\ lot.price \in Nat
      /\ lot.shares \in Nat \ {0} /\ lot.fee \in Int /\ lot.fee = Fee * lot.shares
      /\ lot = [side |-> lot.side, time |-> lot.time, price |-> lot.price,
                shares |-> lot.shares, fee |-> lot.fee]
  BY DEF LotType, Charged
<1>3. f.time \in Nat /\ f.price \in Nat /\ f.shares \in Nat \ {0} /\ f.fee = Fee * f.shares
  BY FillFields DEF Charged
<1>4. q \in Nat /\ q <= acc.wanted /\ q <= lot.shares
      /\ (acc.wanted > 0 => q > 0) /\ (q = lot.shares \/ (q = acc.wanted /\ acc.wanted < lot.shares))
  BY <1>1, <1>2
<1>5. a = IF acc.wanted = 0 THEN [acc EXCEPT !.lots = Append(@, lot)]
          ELSE [wanted |-> acc.wanted - q,
                lots |-> IF rest.shares > 0 THEN Append(acc.lots, rest) ELSE acc.lots,
                closed |-> Append(acc.closed, c)]
  BY DEF Pairing!Close
<1> HIDE DEF q
<1>6. Pairing!EntryFee(lot, q) = Fee * q /\ fee = Fee * q + Fee * q /\ Fee * q \in Nat
  <2>1. Pairing!EntryFee(lot, q) = Fee * q /\ Fee * q \in Nat
    BY <1>2, <1>4, PartOfFee DEF Pairing!EntryFee
  <2>2. (f.fee * q) \div f.shares = Fee * q
    BY <1>3, <1>4, PartOfFee
  <2> QED BY <2>1, <2>2
<1>7. rest = [side |-> lot.side, time |-> lot.time, price |-> lot.price,
              shares |-> lot.shares - q, fee |-> lot.fee - Fee * q]
  <2>1. rest = [lot EXCEPT !.shares = lot.shares - q, !.fee = lot.fee - Fee * q]
    BY <1>6 DEF Pairing!Rest
  <2> DEFINE some == [lot EXCEPT !.shares = lot.shares - q]
  <2>2. some = [side |-> lot.side, time |-> lot.time, price |-> lot.price,
                shares |-> lot.shares - q, fee |-> lot.fee]
    BY <1>2
  <2>3. rest = [some EXCEPT !.fee = lot.fee - Fee * q]
    BY <2>1
  <2> HIDE DEF some
  <2> QED BY <2>2, <2>3
<1>8. c = [side |-> lot.side, entry |-> lot.time, exit |-> f.time, qty |-> q, fee |-> fee,
           pnl |-> Pairing!Gain(lot.side, lot.price, f.price) * q - fee]
  BY DEF Pairing!ClosedTrade
<1>9. /\ c \in ClosedType /\ c.entry = lot.time
      /\ c.pnl = Pairing!Gain(lot.side, lot.price, f.price) * q - (Fee * q + Fee * q)
  <2>1. Pairing!Gain(lot.side, lot.price, f.price) \in Int
    BY <1>2, <1>3 DEF Pairing!Gain
  <2>2. fee \in Int /\ Pairing!Gain(lot.side, lot.price, f.price) * q \in Int
    BY <1>4, <1>6, <2>1
  <2> HIDE DEF c, fee
  <2> QED BY <1>2, <1>3, <1>4, <1>6, <1>8, <2>2 DEF ClosedType
<1> HIDE DEF c, fee, rest
<1>10. CASE acc.wanted = 0
  <2>1. a = [wanted |-> acc.wanted, lots |-> Append(acc.lots, lot), closed |-> acc.closed]
    BY <1>1, <1>5, <1>10
  <2>2. a \in TurnType
    <3>1. Append(acc.lots, lot) \in Seq(LotType)
      BY <1>1
    <3> QED BY <1>1, <2>1, <3>1 DEF TurnType
  <2>3. Passes(a, acc, lot)
    BY <1>5, <1>10 DEF Passes
  <2> QED BY <2>2, <2>3
<1>11. CASE acc.wanted # 0 /\ q = lot.shares
  <2>1. ~(rest.shares > 0)
    BY <1>2, <1>7, <1>11
  <2>2. a = [wanted |-> acc.wanted - q, lots |-> acc.lots, closed |-> Append(acc.closed, c)]
    BY <1>5, <1>11, <2>1
  <2>3. a \in TurnType
    <3>1. Append(acc.closed, c) \in Seq(ClosedType) /\ acc.wanted - q \in Nat
      BY <1>1, <1>4, <1>9
    <3> QED BY <1>1, <2>2, <3>1 DEF TurnType
  <2>4. acc.wanted > 0
    BY <1>1, <1>11
  <2>5. Gives(a, acc, lot, f, lot.shares)
    BY <1>2, <1>4, <1>9, <1>11, <2>2, <2>4 DEF Gives
  <2> QED BY <2>2, <2>3, <2>5 DEF UsesUp
<1>12. CASE acc.wanted # 0 /\ q # lot.shares
  <2>1. q = acc.wanted /\ acc.wanted < lot.shares
    BY <1>4, <1>12
  <2>2. rest.shares > 0 /\ rest \in LotType /\ Charged(rest)
    <3>1. lot.shares - q \in Nat \ {0} /\ lot.fee - Fee * q \in Int
      BY <1>1, <1>2, <1>6, <2>1
    <3>2. lot.fee - Fee * q = Fee * (lot.shares - q)
      BY <1>2, <1>4, Parameters
    <3>3. rest.shares = lot.shares - q /\ rest.fee = lot.fee - Fee * q
      BY <1>7
    <3>4. rest \in LotType
      BY <1>2, <1>7, <3>1 DEF LotType
    <3> QED BY <3>1, <3>2, <3>3, <3>4 DEF Charged
  <2>3. a = [wanted |-> acc.wanted - q, lots |-> Append(acc.lots, rest), closed |-> Append(acc.closed, c)]
    BY <1>5, <1>12, <2>2
  <2>4. a \in TurnType
    <3>1. Append(acc.closed, c) \in Seq(ClosedType) /\ acc.wanted - q \in Nat /\ Append(acc.lots, rest) \in Seq(LotType)
      BY <1>1, <1>4, <1>9, <2>2
    <3> QED BY <1>1, <2>3, <3>1 DEF TurnType
  <2>5. acc.wanted > 0
    BY <1>1, <1>12
  <2>6. Gives(a, acc, lot, f, acc.wanted)
    BY <1>1, <1>4, <1>9, <2>1, <2>3, <2>5 DEF Gives
  <2>7. rest.side = lot.side /\ rest.time = lot.time /\ rest.price = lot.price /\ rest.shares = lot.shares - acc.wanted
    BY <1>7, <2>1
  <2>8. LeavesRest(a, acc, lot, f)
    BY <2>1, <2>2, <2>3, <2>6, <2>7 DEF LeavesRest
  <2> QED BY <2>4, <2>8
<1> QED BY <1>10, <1>11, <1>12

\* The turns of the closing loop over the lots of bk.
Turns(T, bk, f) ==
    /\ T \in [0 .. Len(bk.lots) -> TurnType]
    /\ T[0] = [wanted |-> f.shares, lots |-> <<>>, closed |-> bk.closed]
    /\ \A i \in 1 .. Len(bk.lots) : T[i] = Pairing!Close(f, T[i - 1], bk.lots[i])

AllCharged(lots) == \A i \in 1 .. Len(lots) : Charged(lots[i])

LEMMA CloseLotsRuns ==
    ASSUME NEW bk \in BookType, AllCharged(bk.lots), NEW f \in FillType, Charged(f)
    PROVE  \E T : /\ Turns(T, bk, f)
                  /\ LET done == T[Len(bk.lots)] IN
                     Pairing!CloseLots(bk, f) =
                        [closed |-> done.closed,
                         lots |-> IF done.wanted = 0 THEN done.lots
                                  ELSE Append(done.lots,
                                              Pairing!NewLot(f, done.wanted, (f.fee * done.wanted) \div f.shares))]
<1> DEFINE n == Len(bk.lots)
           first == [wanted |-> f.shares, lots |-> <<>>, closed |-> bk.closed]
           G == [i \in 1 .. n |-> [acc \in TurnType |-> Pairing!Close(f, acc, bk.lots[i])]]
           Body(H) == [i \in 0 .. Len(bk.lots) |->
                         IF i = 0 THEN [wanted |-> f.shares, lots |-> <<>>, closed |-> bk.closed]
                         ELSE Pairing!Close(f, H[i - 1], bk.lots[i])]
           E == CHOOSE H : H = Body(H)
<1>1. n \in Nat /\ bk.closed \in Seq(ClosedType) /\ \A i \in 1 .. n : bk.lots[i] \in LotType
  BY DEF BookType
<1>2. first \in TurnType
  <2>1. f.shares \in Nat /\ <<>> \in Seq(LotType)
    BY FillFields
  <2> QED BY <1>1, <2>1 DEF TurnType
<1>3. \A i \in 1 .. n : \A acc \in TurnType : Pairing!Close(f, acc, bk.lots[i]) \in TurnType
  BY <1>1, OneTurn DEF AllCharged
<1>4. G \in [1 .. n -> [TurnType -> TurnType]]
  BY <1>3
<1> HIDE DEF first
<1>5. \E F : Runs(F, TurnType, first, G, n)
  <2> HIDE DEF G, n
  <2> QED BY <1>1, <1>2, <1>4, Iteration
<1>6. PICK F : Runs(F, TurnType, first, G, n)
  BY <1>5
<1>7. F \in [0 .. n -> TurnType] /\ F[0] = first /\ \A i \in 1 .. n : F[i] = G[i][F[i - 1]]
  BY <1>6 DEF Runs
<1>8. \A i \in 1 .. n : F[i] = Pairing!Close(f, F[i - 1], bk.lots[i])
  <2>1. \A i \in 1 .. n : i - 1 \in 0 .. n
    BY <1>1
  <2> QED BY <1>7, <2>1
<1>9. Turns(F, bk, f)
  BY <1>7, <1>8 DEF Turns, first
<1>10. F = Body(F)
  <2>1. \A i \in 0 .. n : i # 0 => i \in 1 .. n
    BY <1>1
  <2> QED BY <1>7, <1>8, <2>1 DEF first
<1>11. E = Body(E)
  BY <1>10
<1>12. Pairing!CloseLots(bk, f) =
          [closed |-> E[n].closed,
           lots |-> IF E[n].wanted = 0 THEN E[n].lots
                    ELSE Append(E[n].lots, Pairing!NewLot(f, E[n].wanted, (f.fee * E[n].wanted) \div f.shares))]
  BY DEF Pairing!CloseLots
<1> HIDE DEF E
<1>13. E[n] = F[n]
  <2> DEFINE Q == {i \in Nat : i \in 0 .. n => E[i] = F[i]}
  <2>1. E[0] = first /\ \A i \in 1 .. n : E[i] = Pairing!Close(f, E[i - 1], bk.lots[i])
    <3>1. 0 \in 0 .. n /\ \A i \in 1 .. n : i \in 0 .. n /\ i # 0
      BY <1>1
    <3> QED BY <1>11, <3>1 DEF first
  <2>2. 0 \in Q
    BY <1>7, <2>1
  <2>3. ASSUME NEW i \in Q PROVE i + 1 \in Q
    <3> SUFFICES ASSUME i + 1 \in 0 .. n PROVE E[i + 1] = F[i + 1]
      OBVIOUS
    <3>1. i + 1 \in 1 .. n /\ i \in 0 .. n /\ (i + 1) - 1 = i
      BY <1>1
    <3> QED BY <1>8, <2>1, <3>1
  <2>4. Q \in SUBSET Nat /\ n \in Nat /\ n \in 0 .. n
    BY <1>1
  <2> HIDE DEF Q
  <2>5. n \in Q
    BY <2>2, <2>3, <2>4, Induction
  <2> QED BY <2>4, <2>5 DEF Q
<1> QED BY <1>9, <1>12, <1>13

-----------------------------------------------------------------------------
(* What the loop keeps: shares and money *)

\* What n shares of a fill cost, its commission included.
Spent(f, n) == Put(f, n * f.price) + Fee * n

\* S, C and P are what the lots seen so far held and cost, and the profits before.
Balances(acc, f, S, C, P) ==
    /\ acc.wanted <= f.shares
    /\ ShareSum(acc.lots) = S + Put(f, f.shares - acc.wanted)
    /\ PnlSum(acc.closed) = (P + CostSum(acc.lots)) - (C + Spent(f, f.shares - acc.wanted))

LEMMA PutIsLinear ==
    ASSUME NEW f, NEW m \in Int, NEW n \in Int
    PROVE  /\ Put(f, m) \in Int
           /\ Put(f, m + n) = Put(f, m) + Put(f, n)
           /\ Put(f, m - n) = Put(f, m) - Put(f, n)
BY DEF Put

LEMMA SpentIsLinear ==
    ASSUME NEW f \in FillType, NEW m \in Int, NEW n \in Int
    PROVE  /\ Spent(f, m) \in Int
           /\ Spent(f, m + n) = Spent(f, m) + Spent(f, n)
<1>1. f.price \in Int /\ Fee \in Int
  BY FillFields, Parameters
<1>2. \A i \in Int : i * f.price \in Int /\ Fee * i \in Int /\ Put(f, i * f.price) \in Int
  BY <1>1, PutIsLinear
<1>3. (m + n) * f.price = m * f.price + n * f.price /\ Fee * (m + n) = Fee * m + Fee * n
  BY <1>1
<1>4. Put(f, m * f.price + n * f.price) = Put(f, m * f.price) + Put(f, n * f.price)
  BY <1>2, PutIsLinear
<1>5. Spent(f, m) \in Int
  BY <1>2 DEF Spent
<1>6. m + n \in Int
  OBVIOUS
<1> QED BY <1>2, <1>3, <1>4, <1>5, <1>6 DEF Spent

\* A lot on the other side than the fill's takes from it what it puts.
LEMMA Opposed ==
    ASSUME NEW f \in FillType, NEW lot \in LotType, lot.side # Pairing!Opens(f), NEW n \in Int
    PROVE  /\ Signed(lot, n) = -Put(f, n)
           /\ Pairing!Gain(lot.side, lot.price, f.price) * n = Put(f, n * lot.price) - Put(f, n * f.price)
<1>1. f.side \in {"BUY", "SELL"} /\ lot.side \in {"LONG", "SHORT"} /\ f.price \in Int /\ lot.price \in Int
  BY FillFields, LotFields DEF PositionSide
<1>2. CASE f.side = "BUY"
  <2>1. lot.side = "SHORT"
    BY <1>1, <1>2 DEF Pairing!Opens
  <2>2. (lot.price - f.price) * n = n * lot.price - n * f.price
    BY <1>1
  <2> QED BY <1>2, <2>1, <2>2 DEF Signed, Put, Pairing!Gain
<1>3. CASE f.side = "SELL"
  <2>1. lot.side = "LONG"
    BY <1>1, <1>3 DEF Pairing!Opens
  <2>2. (f.price - lot.price) * n = n * f.price - n * lot.price
    BY <1>1
  <2>3. n * f.price - n * lot.price = -(n * lot.price) - (-(n * f.price)) /\ n = -(-n)
    BY <1>1
  <2> QED BY <1>3, <2>1, <2>2, <2>3 DEF Signed, Put, Pairing!Gain
<1> QED BY <1>1, <1>2, <1>3

LEMMA TurnBalances ==
    ASSUME NEW f \in FillType, NEW acc \in TurnType, NEW a \in TurnType,
           NEW lot \in LotType, Charged(lot), lot.side # Pairing!Opens(f),
           NEW S \in Int, NEW C \in Int, NEW P \in Int, Balances(acc, f, S, C, P),
           Passes(a, acc, lot) \/ UsesUp(a, acc, lot, f) \/ LeavesRest(a, acc, lot, f)
    PROVE  Balances(a, f, S + Signed(lot, lot.shares),
                    C + (Signed(lot, lot.shares * lot.price) + lot.fee), P)
<1> DEFINE n == lot.shares
           lp == lot.price
           sent == f.shares - acc.wanted
<1>1. /\ acc.wanted \in Nat /\ acc.lots \in Seq(LotType) /\ acc.closed \in Seq(ClosedType)
      /\ acc = [wanted |-> acc.wanted, lots |-> acc.lots, closed |-> acc.closed]
      /\ a.wanted \in Nat
  BY DEF TurnType
<1>2. n \in Nat /\ lp \in Nat /\ lot.fee = Fee * n /\ Fee \in Nat /\ f.price \in Nat /\ f.shares \in Nat
  BY LotFields, FillFields, Parameters DEF Charged
<1>3. sent \in Int
  BY <1>1, <1>2
<1>4. ShareSum(acc.lots) \in Int /\ CostSum(acc.lots) \in Int /\ PnlSum(acc.closed) \in Int
  <2>1. [side |-> "LONG", entry |-> 0, exit |-> 0, qty |-> 0, fee |-> 0, pnl |-> 0] \in ClosedType
    BY DEF ClosedType, PositionSide
  <2> QED BY <1>1, <2>1, LotSums, ClosedAppended
<1>5. /\ acc.wanted <= f.shares
      /\ ShareSum(acc.lots) = S + Put(f, sent)
      /\ PnlSum(acc.closed) = (P + CostSum(acc.lots)) - (C + Spent(f, sent))
  BY DEF Balances
<1>6. /\ n * lp \in Int /\ Signed(lot, n) = -Put(f, n) /\ Signed(lot, n * lp) = -Put(f, n * lp)
  <2>1. n * lp \in Int
    BY <1>2
  <2> QED BY <1>2, <2>1, Opposed
<1>6a. \A m, k \in Int : /\ Put(f, m) \in Int
                         /\ Put(f, m + k) = Put(f, m) + Put(f, k)
                         /\ Put(f, m - k) = Put(f, m) - Put(f, k)
  BY PutIsLinear
<1>6b. \A m, k \in Int : Spent(f, m) \in Int /\ Spent(f, m + k) = Spent(f, m) + Spent(f, k)
  BY SpentIsLinear
<1>7. Put(f, n) \in Int /\ Put(f, n * lp) \in Int /\ Put(f, sent) \in Int /\ Spent(f, sent) \in Int /\ Fee * n \in Int
  <2>1. n \in Int /\ n * lp \in Int /\ Fee * n \in Int
    BY <1>2
  <2>2. Put(f, n) \in Int /\ Put(f, n * lp) \in Int /\ Put(f, sent) \in Int
    BY <1>3, <1>6a, <2>1
  <2>3. Spent(f, sent) \in Int
    BY <1>3, <1>6b
  <2> QED BY <2>1, <2>2, <2>3
<1>8. CASE Passes(a, acc, lot)
  <2>1. a = [wanted |-> acc.wanted, lots |-> Append(acc.lots, lot), closed |-> acc.closed]
    BY <1>1, <1>8 DEF Passes
  <2>2. a.wanted = acc.wanted /\ a.closed = acc.closed /\ a.lots = Append(acc.lots, lot)
    BY <2>1
  <2>3. /\ ShareSum(a.lots) = ShareSum(acc.lots) + Signed(lot, n)
        /\ CostSum(a.lots) = CostSum(acc.lots) + (Signed(lot, n * lp) + lot.fee)
    BY <1>1, <2>2, LotAppended
  <2>4. lot.fee \in Int /\ Signed(lot, n) \in Int /\ Signed(lot, n * lp) \in Int
    BY <1>2, <1>6, <1>7
  <2> DEFINE s1 == Signed(lot, n)
             c1 == Signed(lot, n * lp) + lot.fee
             put == Put(f, sent)
             spent == Spent(f, sent)
  <2>5. s1 \in Int /\ c1 \in Int /\ put \in Int /\ spent \in Int
    BY <1>7, <2>4
  <2>6. /\ ShareSum(a.lots) = ShareSum(acc.lots) + s1 /\ CostSum(a.lots) = CostSum(acc.lots) + c1
        /\ ShareSum(acc.lots) = S + put
        /\ PnlSum(a.closed) = (P + CostSum(acc.lots)) - (C + spent)
    BY <1>5, <2>2, <2>3
  <2> HIDE DEF s1, c1, put, spent
  <2>7. /\ ShareSum(a.lots) = (S + s1) + put
        /\ PnlSum(a.closed) = (P + CostSum(a.lots)) - ((C + c1) + spent)
    BY <1>4, <2>5, <2>6
  <2> QED BY <1>5, <2>2, <2>7 DEF Balances, s1, c1, put, spent
<1>9. ASSUME NEW q \in Nat, Gives(a, acc, lot, f, q)
      PROVE  /\ a.wanted = acc.wanted - q /\ a.wanted <= f.shares
             /\ f.shares - a.wanted = sent + q
             /\ PnlSum(a.closed) = PnlSum(acc.closed) + ((Put(f, q * lp) - Put(f, q * f.price)) - (Fee * q + Fee * q))
             /\ Put(f, sent + q) = Put(f, sent) + Put(f, q)
             /\ Spent(f, sent + q) = Spent(f, sent) + (Put(f, q * f.price) + Fee * q)
             /\ Put(f, q) \in Int /\ Put(f, q * lp) \in Int /\ Put(f, q * f.price) \in Int /\ Fee * q \in Int
             /\ q * lp \in Int
  <2>1. a.wanted = acc.wanted - q
    BY <1>9 DEF Gives
  <2>2. PICK c \in ClosedType :
          /\ a.closed = Append(acc.closed, c)
          /\ c.pnl = Pairing!Gain(lot.side, lp, f.price) * q - (Fee * q + Fee * q)
    BY <1>9 DEF Gives
  <2>3. PnlSum(a.closed) = PnlSum(acc.closed) + c.pnl
    BY <1>1, <2>2, ClosedAppended
  <2>4. Pairing!Gain(lot.side, lp, f.price) * q = Put(f, q * lp) - Put(f, q * f.price)
    BY Opposed
  <2>5. q * lp \in Int /\ q * f.price \in Int /\ Fee * q \in Int
    BY <1>2
  <2>6. Put(f, q) \in Int /\ Put(f, q * lp) \in Int /\ Put(f, q * f.price) \in Int
        /\ Put(f, sent + q) = Put(f, sent) + Put(f, q)
    <3>1. q \in Int
      OBVIOUS
    <3> HIDE DEF sent
    <3> QED BY <1>3, <1>6a, <2>5, <3>1
  <2>7. Spent(f, sent + q) = Spent(f, sent) + (Put(f, q * f.price) + Fee * q)
    <3>1. q \in Int
      OBVIOUS
    <3> HIDE DEF sent
    <3>2. Spent(f, sent + q) = Spent(f, sent) + Spent(f, q)
      BY <1>3, <1>6b, <3>1
    <3> QED BY <3>2 DEF Spent
  <2>8. a.wanted <= f.shares /\ f.shares - a.wanted = sent + q
    <3>1. \A w, k, t \in Int : t - (w - k) = (t - w) + k
      OBVIOUS
    <3>2. \A w, k, t \in Nat : w <= t => w - k <= t
      OBVIOUS
    <3>3. acc.wanted \in Nat /\ f.shares \in Nat /\ acc.wanted <= f.shares /\ q \in Nat
      BY <1>1, <1>2, <1>5
    <3> QED BY <2>1, <3>1, <3>2, <3>3
  <2> QED BY <2>1, <2>2, <2>3, <2>4, <2>5, <2>6, <2>7, <2>8
<1>10. CASE UsesUp(a, acc, lot, f)
  <2>1. Gives(a, acc, lot, f, n) /\ a.lots = acc.lots
    BY <1>10 DEF UsesUp
  <2> DEFINE p1 == Put(f, n)
             p2 == Put(f, n * lp)
             p3 == Put(f, n * f.price)
             fe == Fee * n
             put == Put(f, sent)
             spent == Spent(f, sent)
  <2>2. /\ a.wanted <= f.shares
        /\ PnlSum(a.closed) = PnlSum(acc.closed) + ((p2 - p3) - (fe + fe))
        /\ Put(f, f.shares - a.wanted) = put + p1
        /\ Spent(f, f.shares - a.wanted) = spent + (p3 + fe)
        /\ p1 \in Int /\ p2 \in Int /\ p3 \in Int /\ fe \in Int
    BY <1>2, <1>9, <2>1
  <2>3. put \in Int /\ spent \in Int
    BY <1>7
  <2>4. Signed(lot, n) = -p1 /\ Signed(lot, n * lp) + lot.fee = -p2 + fe
    BY <1>2, <1>6
  <2>5. ShareSum(acc.lots) = S + put /\ PnlSum(acc.closed) = (P + CostSum(acc.lots)) - (C + spent)
    BY <1>5
  <2> HIDE DEF p1, p2, p3, fe, put, spent
  <2>6. /\ ShareSum(acc.lots) = (S + (-p1)) + (put + p1)
        /\ PnlSum(a.closed) = (P + CostSum(acc.lots)) - ((C + (-p2 + fe)) + (spent + (p3 + fe)))
    BY <1>4, <2>2, <2>3, <2>5
  <2> QED BY <2>1, <2>2, <2>4, <2>6 DEF Balances
<1>11. CASE LeavesRest(a, acc, lot, f)
  <2> DEFINE q == acc.wanted
  <2>1. Gives(a, acc, lot, f, q) /\ q < n /\ q \in Nat
    BY <1>1, <1>11 DEF LeavesRest
  <2>2. PICK r \in LotType :
          /\ a.lots = Append(acc.lots, r)
          /\ r.side = lot.side /\ r.price = lp /\ r.shares = n - q /\ r.fee = Fee * r.shares
    BY <1>11 DEF LeavesRest, Charged
  <2> DEFINE p1 == Put(f, n)
             p2 == Put(f, n * lp)
             q1 == Put(f, q)
             q2 == Put(f, q * lp)
             q3 == Put(f, q * f.price)
             fn == Fee * n
             fq == Fee * q
             put == Put(f, sent)
             spent == Spent(f, sent)
  <2>3. /\ a.wanted <= f.shares
        /\ PnlSum(a.closed) = PnlSum(acc.closed) + ((q2 - q3) - (fq + fq))
        /\ Put(f, f.shares - a.wanted) = put + q1
        /\ Spent(f, f.shares - a.wanted) = spent + (q3 + fq)
        /\ q1 \in Int /\ q2 \in Int /\ q3 \in Int /\ fq \in Int /\ q * lp \in Int
    BY <1>9, <2>1
  <2>4. put \in Int /\ spent \in Int /\ p1 \in Int /\ p2 \in Int /\ fn \in Int
    BY <1>7
  <2>5. Signed(lot, n) = -p1 /\ Signed(lot, n * lp) + lot.fee = -p2 + fn
    BY <1>2, <1>6
  <2>6. Signed(r, r.shares) = -(p1 - q1) /\ Signed(r, r.shares * r.price) + r.fee = -(p2 - q2) + (fn - fq)
    <3>1. n - q \in Int /\ (n - q) * lp = n * lp - q * lp /\ Fee * (n - q) = fn - fq /\ (n - q) * lp \in Int
      BY <1>2, <2>1
    <3>2. Put(f, n - q) = p1 - q1
      <4>1. n \in Int /\ q \in Int
        BY <1>2, <2>1
      <4> HIDE DEF n, q
      <4>2. Put(f, n - q) = Put(f, n) - Put(f, q)
        BY <1>6a, <4>1
      <4> QED BY <4>2 DEF p1, q1
    <3>3. Put(f, n * lp - q * lp) = p2 - q2
      BY <1>6, <1>6a, <2>3
    <3>4. Signed(r, n - q) = -Put(f, n - q) /\ Signed(r, (n - q) * lp) = -Put(f, (n - q) * lp)
      BY <2>2, <3>1, Opposed
    <3> QED BY <2>2, <3>1, <3>2, <3>3, <3>4
  <2>7. ShareSum(acc.lots) = S + put /\ PnlSum(acc.closed) = (P + CostSum(acc.lots)) - (C + spent)
    BY <1>5
  <2>8. /\ ShareSum(a.lots) = ShareSum(acc.lots) + (-(p1 - q1))
        /\ CostSum(a.lots) = CostSum(acc.lots) + (-(p2 - q2) + (fn - fq))
    BY <1>1, <2>2, <2>6, LotAppended
  <2> HIDE DEF p1, p2, q1, q2, q3, fn, fq, put, spent
  <2>9. ShareSum(a.lots) = (S + (-p1)) + (put + q1)
    BY <1>4, <2>3, <2>4, <2>7, <2>8
  <2>10. PnlSum(a.closed) = (P + CostSum(a.lots)) - ((C + (-p2 + fn)) + (spent + (q3 + fq)))
    BY <1>4, <2>3, <2>4, <2>7, <2>8
  <2> QED BY <2>3, <2>5, <2>9, <2>10 DEF Balances
<1> QED BY <1>8, <1>10, <1>11

-----------------------------------------------------------------------------
(* What the loop keeps: the order *)

\* All that is open or closed was opened by t.
OpenedBy(lots, closed, t) ==
    /\ \A i \in 1 .. Len(lots) : lots[i].time <= t
    /\ \A i \in 1 .. Len(closed) : closed[i].entry <= t

FirstIn(lots, closed) ==
    /\ \A i, j \in 1 .. Len(lots) : i < j => lots[i].time <= lots[j].time
    /\ \A i, j \in 1 .. Len(closed) : i < j => closed[i].entry <= closed[j].entry
    /\ \A i \in 1 .. Len(closed), j \in 1 .. Len(lots) : closed[i].entry <= lots[j].time

OnSide(lots, side) == \A i \in 1 .. Len(lots) : lots[i].side = side /\ Charged(lots[i])

LEMMA LotComesLast ==
    ASSUME NEW lots \in Seq(LotType), NEW closed \in Seq(ClosedType), NEW lot \in LotType,
           OpenedBy(lots, closed, lot.time), FirstIn(lots, closed)
    PROVE  /\ FirstIn(Append(lots, lot), closed)
           /\ \A t \in Nat : OpenedBy(lots, closed, t) /\ lot.time <= t =>
                                OpenedBy(Append(lots, lot), closed, t)
<1> DEFINE more == Append(lots, lot)
           n == Len(lots)
<1>1. /\ n \in Nat /\ Len(more) = n + 1 /\ more[n + 1] = lot
      /\ \A i \in 1 .. n : more[i] = lots[i]
      /\ \A i \in 1 .. n + 1 : i \in 1 .. n \/ i = n + 1
  OBVIOUS
<1> HIDE DEF more
<1>2. \A t : OpenedBy(lots, closed, t) /\ lot.time <= t => OpenedBy(more, closed, t)
  BY <1>1 DEF OpenedBy
<1>3. ASSUME NEW i \in 1 .. n + 1, NEW j \in 1 .. n + 1, i < j PROVE more[i].time <= more[j].time
  <2>1. i \in 1 .. n
    BY <1>1, <1>3
  <2>2. CASE j \in 1 .. n
    BY <1>1, <1>3, <2>1, <2>2 DEF FirstIn
  <2>3. CASE j = n + 1
    BY <1>1, <2>1, <2>3 DEF OpenedBy
  <2> QED BY <1>1, <2>2, <2>3
<1>4. ASSUME NEW i \in 1 .. Len(closed), NEW j \in 1 .. n + 1 PROVE closed[i].entry <= more[j].time
  <2>1. CASE j \in 1 .. n
    BY <1>1, <2>1 DEF FirstIn
  <2>2. CASE j = n + 1
    BY <1>1, <2>2 DEF OpenedBy
  <2> QED BY <1>1, <2>1, <2>2
<1>5. FirstIn(more, closed)
  BY <1>1, <1>3, <1>4 DEF FirstIn
<1> QED BY <1>2, <1>5 DEF more

LEMMA TradeComesLast ==
    ASSUME NEW closed \in Seq(ClosedType), NEW c \in ClosedType,
           OpenedBy(<<>>, closed, c.entry), FirstIn(<<>>, closed)
    PROVE  /\ FirstIn(<<>>, Append(closed, c))
           /\ \A t \in Nat : OpenedBy(<<>>, closed, t) /\ c.entry <= t =>
                                OpenedBy(<<>>, Append(closed, c), t)
<1> DEFINE more == Append(closed, c)
           n == Len(closed)
           none == <<>>
<1>1. /\ n \in Nat /\ Len(more) = n + 1 /\ more[n + 1] = c
      /\ \A i \in 1 .. n : more[i] = closed[i]
      /\ \A i \in 1 .. n + 1 : i \in 1 .. n \/ i = n + 1
      /\ \A i : i \notin 1 .. Len(none)
  OBVIOUS
<1> HIDE DEF more, none
<1>2. OpenedBy(none, closed, c.entry) /\ FirstIn(none, closed)
  BY DEF none
<1>3. \A t : OpenedBy(none, closed, t) /\ c.entry <= t => OpenedBy(none, more, t)
  BY <1>1 DEF OpenedBy
<1>4. ASSUME NEW i \in 1 .. n + 1, NEW j \in 1 .. n + 1, i < j PROVE more[i].entry <= more[j].entry
  <2>1. i \in 1 .. n
    BY <1>1, <1>4
  <2>2. CASE j \in 1 .. n
    BY <1>1, <1>2, <1>4, <2>1, <2>2 DEF FirstIn
  <2>3. CASE j = n + 1
    BY <1>1, <1>2, <2>1, <2>3 DEF OpenedBy
  <2> QED BY <1>1, <2>2, <2>3
<1>5. FirstIn(none, more)
  BY <1>1, <1>4 DEF FirstIn
<1> QED BY <1>3, <1>5 DEF more, none

\* The loop works on one lot at a time: nothing is open behind it that the fill could
\* still have closed.
Behind(acc, side) ==
    /\ acc.wanted > 0 => acc.lots = <<>>
    /\ OnSide(acc.lots, side)
    /\ FirstIn(acc.lots, acc.closed)

LEMMA SideAppended ==
    ASSUME NEW lots \in Seq(LotType), NEW lot \in LotType, NEW side, OnSide(lots, side),
           lot.side = side, Charged(lot)
    PROVE  OnSide(Append(lots, lot), side)
<1> DEFINE more == Append(lots, lot)
           n == Len(lots)
<1>1. /\ n \in Nat /\ Len(more) = n + 1 /\ more[n + 1] = lot
      /\ \A i \in 1 .. n : more[i] = lots[i]
      /\ \A i \in 1 .. n + 1 : i \in 1 .. n \/ i = n + 1
  OBVIOUS
<1> HIDE DEF more
<1>2. OnSide(more, side)
  BY <1>1 DEF OnSide
<1> QED BY <1>2 DEF more

LEMMA TurnKeepsOrder ==
    ASSUME NEW f \in FillType, NEW acc \in TurnType, NEW a \in TurnType,
           NEW lot \in LotType, Charged(lot),
           Behind(acc, lot.side), OpenedBy(acc.lots, acc.closed, lot.time),
           Passes(a, acc, lot) \/ UsesUp(a, acc, lot, f) \/ LeavesRest(a, acc, lot, f)
    PROVE  /\ Behind(a, lot.side)
           /\ \A t \in Nat : OpenedBy(acc.lots, acc.closed, t) /\ lot.time <= t =>
                                OpenedBy(a.lots, a.closed, t)
<1> DEFINE side == lot.side
<1>1. /\ acc.wanted \in Nat /\ acc.lots \in Seq(LotType) /\ acc.closed \in Seq(ClosedType)
      /\ acc = [wanted |-> acc.wanted, lots |-> acc.lots, closed |-> acc.closed]
      /\ lot.time \in Nat
  BY LotFields DEF TurnType
<1>2. OnSide(acc.lots, side) /\ FirstIn(acc.lots, acc.closed)
  BY DEF Behind
<1>3. CASE Passes(a, acc, lot)
  <2>1. a = [wanted |-> acc.wanted, lots |-> Append(acc.lots, lot), closed |-> acc.closed] /\ acc.wanted = 0
    BY <1>1, <1>3 DEF Passes
  <2>2. a.wanted = 0 /\ a.closed = acc.closed /\ a.lots = Append(acc.lots, lot)
    BY <2>1
  <2>3. OnSide(a.lots, side)
    BY <1>1, <1>2, <2>2, SideAppended
  <2>4. /\ FirstIn(a.lots, a.closed)
        /\ \A t \in Nat : OpenedBy(acc.lots, acc.closed, t) /\ lot.time <= t => OpenedBy(a.lots, a.closed, t)
    BY <1>1, <1>2, <2>2, LotComesLast
  <2>5. ~(a.wanted > 0)
    BY <2>2
  <2> QED BY <2>3, <2>4, <2>5 DEF Behind
<1>4. ASSUME NEW q, Gives(a, acc, lot, f, q)
      PROVE  /\ acc.lots = <<>> /\ a.wanted = acc.wanted - q
             /\ a.closed \in Seq(ClosedType)
             /\ FirstIn(<<>>, a.closed) /\ OpenedBy(<<>>, a.closed, lot.time)
             /\ \A t \in Nat : OpenedBy(<<>>, acc.closed, t) /\ lot.time <= t => OpenedBy(<<>>, a.closed, t)
  <2>1. acc.lots = <<>> /\ a.wanted = acc.wanted - q
    BY <1>4 DEF Behind, Gives
  <2>2. PICK c \in ClosedType : a.closed = Append(acc.closed, c) /\ c.entry = lot.time
    BY <1>4 DEF Gives
  <2>3. OpenedBy(<<>>, acc.closed, c.entry) /\ FirstIn(<<>>, acc.closed)
    BY <1>2, <2>1, <2>2
  <2>4. /\ FirstIn(<<>>, a.closed)
        /\ \A t \in Nat : OpenedBy(<<>>, acc.closed, t) /\ c.entry <= t => OpenedBy(<<>>, a.closed, t)
    BY <1>1, <2>2, <2>3, TradeComesLast
  <2>5. lot.time <= lot.time
    BY <1>1
  <2>6. a.closed \in Seq(ClosedType)
    BY DEF TurnType
  <2> QED BY <1>1, <2>1, <2>2, <2>3, <2>4, <2>5, <2>6
<1>5. CASE UsesUp(a, acc, lot, f)
  <2>1. Gives(a, acc, lot, f, lot.shares) /\ a.lots = acc.lots
    BY <1>5 DEF UsesUp
  <2>2. /\ acc.lots = <<>> /\ a.lots = <<>> /\ FirstIn(<<>>, a.closed)
        /\ \A t \in Nat : OpenedBy(<<>>, acc.closed, t) /\ lot.time <= t => OpenedBy(<<>>, a.closed, t)
    BY <1>4, <2>1
  <2>3. OnSide(a.lots, side)
    BY <1>2, <2>1
  <2> QED BY <2>2, <2>3 DEF Behind
<1>6. CASE LeavesRest(a, acc, lot, f)
  <2>1. Gives(a, acc, lot, f, acc.wanted)
    BY <1>6 DEF LeavesRest
  <2>2. PICK r \in LotType : a.lots = Append(acc.lots, r) /\ r.side = side /\ r.time = lot.time /\ Charged(r)
    BY <1>6 DEF LeavesRest
  <2>3. /\ acc.lots = <<>> /\ a.wanted = acc.wanted - acc.wanted /\ a.closed \in Seq(ClosedType)
        /\ FirstIn(<<>>, a.closed) /\ OpenedBy(<<>>, a.closed, lot.time)
        /\ \A t \in Nat : OpenedBy(<<>>, acc.closed, t) /\ lot.time <= t => OpenedBy(<<>>, a.closed, t)
    BY <1>4, <2>1
  <2>4. OnSide(a.lots, side)
    BY <1>1, <1>2, <2>2, SideAppended
  <2>5. <<>> \in Seq(LotType) /\ a.lots = Append(<<>>, r) /\ OpenedBy(<<>>, a.closed, r.time)
    BY <2>2, <2>3
  <2>6. /\ FirstIn(a.lots, a.closed)
        /\ \A t \in Nat : OpenedBy(<<>>, a.closed, t) /\ r.time <= t => OpenedBy(a.lots, a.closed, t)
    BY <2>3, <2>5, LotComesLast
  <2>7. ~(a.wanted > 0)
    BY <1>1, <2>3
  <2>8. \A t \in Nat : OpenedBy(acc.lots, acc.closed, t) /\ lot.time <= t => OpenedBy(a.lots, a.closed, t)
    BY <2>2, <2>3, <2>6
  <2> QED BY <2>4, <2>6, <2>7, <2>8 DEF Behind
<1> QED BY <1>3, <1>5, <1>6

-----------------------------------------------------------------------------
(* One fill *)

\* What the loop has made of the first i lots.
Done(T, i, bk, f, side) ==
    /\ Balances(T[i], f, SumFunctionOnSet(ShareOf(bk.lots), 1 .. i),
                SumFunctionOnSet(CostOf(bk.lots), 1 .. i), PnlSum(bk.closed))
    /\ Behind(T[i], side)
    /\ \A t \in Nat : OpenedBy(<<>>, bk.closed, t) /\ (\A m \in 1 .. i : bk.lots[m].time <= t) =>
                         OpenedBy(T[i].lots, T[i].closed, t)

LEMMA NothingDone ==
    ASSUME NEW bk \in BookType, NEW side, NEW f \in FillType, FirstIn(bk.lots, bk.closed),
           NEW T, Turns(T, bk, f)
    PROVE  Done(T, 0, bk, f, side)
<1> DEFINE none == <<>>
           a == T[0]
<1>1. a = [wanted |-> f.shares, lots |-> none, closed |-> bk.closed]
  BY DEF Turns
<1>2. a.wanted = f.shares /\ a.lots = none /\ a.closed = bk.closed
  BY <1>1
<1>3. f.shares \in Nat /\ f.price \in Nat /\ Fee \in Nat
  BY FillFields, Parameters
<1>4. \A i : i \notin 1 .. Len(none)
  OBVIOUS
<1>5. f.shares - a.wanted = 0
  BY <1>2, <1>3
<1>6. Put(f, 0) = 0 /\ Spent(f, 0) = 0
  <2>1. 0 * f.price = 0 /\ Fee * 0 = 0
    BY <1>3
  <2>2. 0 \in Int /\ 0 - 0 = 0
    OBVIOUS
  <2>3. Put(f, 0) \in Int /\ Put(f, 0 - 0) = Put(f, 0) - Put(f, 0)
    BY <2>2, PutIsLinear
  <2>4. Put(f, 0) = 0
    BY <2>2, <2>3
  <2> QED BY <2>1, <2>2, <2>4 DEF Spent
<1>7. ShareSum(a.lots) = 0 /\ CostSum(a.lots) = 0
  BY <1>2, NothingSums
<1>8. SumFunctionOnSet(ShareOf(bk.lots), 1 .. 0) = 0 /\ SumFunctionOnSet(CostOf(bk.lots), 1 .. 0) = 0
  <2>1. 1 .. 0 = {}
    OBVIOUS
  <2> QED BY <2>1, SumEmpty
<1>9. PnlSum(a.closed) = PnlSum(bk.closed) /\ PnlSum(bk.closed) \in Int
  <2>1. bk.closed \in Seq(ClosedType)
    BY DEF BookType
  <2> DEFINE c == CHOOSE c \in ClosedType : TRUE
  <2>2. [side |-> "LONG", entry |-> 0, exit |-> 0, qty |-> 0, fee |-> 0, pnl |-> 0] \in ClosedType
    BY DEF ClosedType, PositionSide
  <2> QED BY <1>2, <2>1, <2>2, ClosedAppended
<1> HIDE DEF none, a
<1>10. Balances(a, f, 0, 0, PnlSum(bk.closed))
  <2>1. \A p \in Int : p = (p + 0) - (0 + 0)
    OBVIOUS
  <2>2. a.wanted <= f.shares
    BY <1>2, <1>3
  <2> QED BY <1>5, <1>6, <1>7, <1>9, <2>1, <2>2 DEF Balances
<1>11. Behind(a, side)
  BY <1>2, <1>4 DEF Behind, OnSide, FirstIn, none
<1>12. \A t : OpenedBy(none, bk.closed, t) => OpenedBy(a.lots, a.closed, t)
  BY <1>2
<1> QED BY <1>8, <1>10, <1>11, <1>12 DEF Done, a, none

LEMMA OneMoreDone ==
    ASSUME NEW bk \in BookType, NEW side, OnSide(bk.lots, side), NEW f \in FillType, Charged(f),
           FirstIn(bk.lots, bk.closed), side # Pairing!Opens(f), NEW T, Turns(T, bk, f),
           NEW i \in Nat, i < Len(bk.lots), Done(T, i, bk, f, side)
    PROVE  Done(T, i + 1, bk, f, side)
<1> DEFINE n == Len(bk.lots)
           k == i + 1
           lot == bk.lots[k]
           acc == T[i]
           a == T[k]
           sh == ShareOf(bk.lots)
           co == CostOf(bk.lots)
           S == SumFunctionOnSet(sh, 1 .. i)
           C == SumFunctionOnSet(co, 1 .. i)
           P == PnlSum(bk.closed)
<1>1. /\ bk.lots \in Seq(LotType) /\ bk.closed \in Seq(ClosedType) /\ n \in Nat
      /\ \A m \in 1 .. n : bk.lots[m] \in LotType
  BY DEF BookType
<1>2. k \in 1 .. n /\ k - 1 = i /\ i \in 0 .. n /\ k \in 0 .. n /\ \A m \in 1 .. k : m \in 1 .. n
  BY <1>1
<1>3. acc \in TurnType /\ a \in TurnType /\ a = Pairing!Close(f, acc, lot)
  BY <1>2 DEF Turns
<1>4. lot \in LotType /\ Charged(lot) /\ lot.side = side /\ lot.time \in Nat
  BY <1>1, <1>2, LotFields DEF OnSide
<1>5. Passes(a, acc, lot) \/ UsesUp(a, acc, lot, f) \/ LeavesRest(a, acc, lot, f)
  BY <1>3, <1>4, OneTurn
<1>6. /\ Balances(acc, f, S, C, P) /\ Behind(acc, side)
      /\ \A t \in Nat : OpenedBy(<<>>, bk.closed, t) /\ (\A m \in 1 .. i : bk.lots[m].time <= t) =>
                           OpenedBy(acc.lots, acc.closed, t)
  BY DEF Done
<1>7. \A m \in 1 .. k : sh[m] \in Int /\ co[m] \in Int
  <2>1. \A m \in 1 .. n : /\ sh[m] = Signed(bk.lots[m], bk.lots[m].shares)
                          /\ co[m] = Signed(bk.lots[m], bk.lots[m].shares * bk.lots[m].price) + bk.lots[m].fee
    BY DEF ShareOf, CostOf, Items
  <2> QED BY <1>1, <1>2, <2>1, LotValues
<1>8. /\ sh[k] = Signed(lot, lot.shares)
      /\ co[k] = Signed(lot, lot.shares * lot.price) + lot.fee
  BY <1>2 DEF ShareOf, CostOf, Items
<1> HIDE DEF sh, co
<1>9. S \in Int /\ C \in Int /\ P \in Int
  <2>1. \A m \in 1 .. i : m \in 1 .. k
    OBVIOUS
  <2>2. S \in Int /\ C \in Int
    BY <1>7, <2>1, SumUpTo
  <2>3. [side |-> "LONG", entry |-> 0, exit |-> 0, qty |-> 0, fee |-> 0, pnl |-> 0] \in ClosedType
    BY DEF ClosedType, PositionSide
  <2> QED BY <1>1, <2>2, <2>3, ClosedAppended
<1>10. /\ SumFunctionOnSet(sh, 1 .. k) = S + sh[k]
       /\ SumFunctionOnSet(co, 1 .. k) = C + co[k]
  BY <1>7, SumUpToNext
<1> HIDE DEF S, C, P
<1>11. Balances(a, f, S + sh[k], C + co[k], P)
  <2> HIDE DEF acc, a, lot
  <2> QED BY <1>3, <1>4, <1>5, <1>6, <1>8, <1>9, TurnBalances
<1>12. OpenedBy(acc.lots, acc.closed, lot.time)
  <2>1. OpenedBy(<<>>, bk.closed, lot.time)
    <3> DEFINE none == <<>>
    <3>1. \A m : m \notin 1 .. Len(none)
      OBVIOUS
    <3> HIDE DEF none
    <3>2. \A m \in 1 .. Len(bk.closed) : bk.closed[m].entry <= lot.time
      BY <1>2 DEF FirstIn
    <3>3. OpenedBy(none, bk.closed, lot.time)
      BY <3>1, <3>2 DEF OpenedBy
    <3> QED BY <3>3 DEF none
  <2>2. \A m \in 1 .. i : bk.lots[m].time <= lot.time
    <3>1. \A m \in 1 .. i : m \in 1 .. n /\ m < k
      BY <1>2
    <3> QED BY <1>2, <3>1 DEF FirstIn
  <2> QED BY <1>4, <1>6, <2>1, <2>2
<1>13. /\ Behind(a, side)
       /\ \A t \in Nat : OpenedBy(acc.lots, acc.closed, t) /\ lot.time <= t => OpenedBy(a.lots, a.closed, t)
  <2> HIDE DEF acc, a, lot
  <2> QED BY <1>3, <1>4, <1>5, <1>6, <1>12, TurnKeepsOrder
<1>14. \A t \in Nat : OpenedBy(<<>>, bk.closed, t) /\ (\A m \in 1 .. k : bk.lots[m].time <= t) =>
                        OpenedBy(a.lots, a.closed, t)
  <2>1. k \in 1 .. k /\ \A m \in 1 .. i : m \in 1 .. k
    BY <1>2
  <2> QED BY <1>6, <1>13, <2>1
<1> QED BY <1>10, <1>11, <1>13, <1>14 DEF Done, sh, co, S, C, P

LEMMA LoopDone ==
    ASSUME NEW bk \in BookType, NEW side, OnSide(bk.lots, side), NEW f \in FillType, Charged(f),
           FirstIn(bk.lots, bk.closed), side # Pairing!Opens(f), NEW T, Turns(T, bk, f)
    PROVE  Done(T, Len(bk.lots), bk, f, side)
<1> DEFINE n == Len(bk.lots)
           Q == {i \in Nat : i <= n => Done(T, i, bk, f, side)}
<1>1. n \in Nat
  BY DEF BookType
<1>2. 0 \in Q
  BY NothingDone
<1>3. \A i \in Q : i + 1 \in Q
  <2> SUFFICES ASSUME NEW i \in Nat, i <= n => Done(T, i, bk, f, side), i + 1 <= n
               PROVE  Done(T, i + 1, bk, f, side)
    OBVIOUS
  <2>1. i <= n /\ i < n
    BY <1>1
  <2> QED BY <2>1, OneMoreDone
<1>4. n \in Q
  <2>1. Q \in SUBSET Nat
    OBVIOUS
  <2> HIDE DEF Q
  <2> QED BY <1>1, <1>2, <1>3, <2>1, Induction
<1> QED BY <1>1, <1>4

\* A lot that a fill opens is charged its part of the commission.
LEMMA FillOpens ==
    ASSUME NEW f \in FillType, NEW w \in Nat \ {0}, NEW lot, lot = Pairing!NewLot(f, w, Fee * w)
    PROVE  /\ lot \in LotType /\ Charged(lot) /\ lot.side = Pairing!Opens(f) /\ lot.time = f.time
           /\ Signed(lot, lot.shares) = Put(f, w)
           /\ Signed(lot, lot.shares * lot.price) + lot.fee = Spent(f, w)
<1>1. lot = [side |-> Pairing!Opens(f), time |-> f.time, price |-> f.price, shares |-> w, fee |-> Fee * w]
  BY DEF Pairing!NewLot
<1>2. f.time \in Nat /\ f.price \in Nat /\ Fee * w \in Int /\ f.side \in {"BUY", "SELL"}
      /\ Pairing!Opens(f) \in PositionSide
  BY FillFields, Parameters
<1>3. lot.side = Pairing!Opens(f) /\ lot.shares = w /\ lot.fee = Fee * w /\ lot.price = f.price /\ lot.time = f.time
  BY <1>1
<1>4. \A m : Signed(lot, m) = Put(f, m)
  BY <1>2, <1>3 DEF Signed, Put, Pairing!Opens
<1>5. lot \in LotType
  BY <1>1, <1>2 DEF LotType
<1> QED BY <1>3, <1>4, <1>5 DEF Charged, Spent

-----------------------------------------------------------------------------
(* A fill on a book *)

\* The open lots are all on one side; lots and closed trades are in order of opening,
\* none after t.
Sound(bk, t) ==
    /\ \E side \in PositionSide : OnSide(bk.lots, side)
    /\ FirstIn(bk.lots, bk.closed)
    /\ OpenedBy(bk.lots, bk.closed, t)

\* What fill f, at its time, makes of book bk.
Booked(b, bk, f) ==
    /\ b \in BookType /\ Sound(b, f.time)
    /\ ShareSum(b.lots) = ShareSum(bk.lots) + Put(f, f.shares)
    /\ PnlSum(b.closed) = (PnlSum(bk.closed) + CostSum(b.lots)) - (CostSum(bk.lots) + Spent(f, f.shares))

LEMMA PnlIsInt ==
    ASSUME NEW closed \in Seq(ClosedType) PROVE PnlSum(closed) \in Int
<1>1. [side |-> "LONG", entry |-> 0, exit |-> 0, qty |-> 0, fee |-> 0, pnl |-> 0] \in ClosedType
  BY DEF ClosedType, PositionSide
<1> QED BY <1>1, ClosedAppended

LEMMA FillIsOpened ==
    ASSUME NEW bk \in BookType, NEW f \in FillType, Charged(f), Sound(bk, f.time),
           OnSide(bk.lots, Pairing!Opens(f)), NEW b,
           b = [bk EXCEPT !.lots = Append(@, Pairing!NewLot(f, f.shares, f.fee))]
    PROVE  Booked(b, bk, f)
<1> DEFINE lot == Pairing!NewLot(f, f.shares, f.fee)
<1>1. /\ bk.lots \in Seq(LotType) /\ bk.closed \in Seq(ClosedType)
      /\ bk = [lots |-> bk.lots, closed |-> bk.closed]
  BY DEF BookType
<1>2. b = [lots |-> Append(bk.lots, lot), closed |-> bk.closed]
  BY <1>1
<1>3. f.shares \in Nat \ {0} /\ f.time \in Nat /\ f.fee = Fee * f.shares /\ Pairing!Opens(f) \in PositionSide
  BY FillFields DEF Charged
<1>4. /\ lot \in LotType /\ Charged(lot) /\ lot.side = Pairing!Opens(f) /\ lot.time = f.time
      /\ Signed(lot, lot.shares) = Put(f, f.shares)
      /\ Signed(lot, lot.shares * lot.price) + lot.fee = Spent(f, f.shares)
  <2>1. lot = Pairing!NewLot(f, f.shares, Fee * f.shares)
    BY <1>3
  <2> HIDE DEF lot
  <2> QED BY <1>3, <2>1, FillOpens
<1> HIDE DEF lot
<1>5. b.lots = Append(bk.lots, lot) /\ b.closed = bk.closed
  BY <1>2
<1>6. b \in BookType
  <2> DEFINE more == Append(bk.lots, lot)
  <2>1. more \in Seq(LotType)
    BY <1>1, <1>4
  <2>2. b = [lots |-> more, closed |-> bk.closed] /\ bk.closed \in Seq(ClosedType)
    BY <1>1, <1>2
  <2> HIDE DEF more
  <2>3. [lots |-> more, closed |-> bk.closed] \in BookType
    BY <2>1, <2>2 DEF BookType
  <2> QED BY <2>2, <2>3
<1>7. Sound(b, f.time)
  <2>1. OnSide(b.lots, Pairing!Opens(f))
    BY <1>1, <1>4, <1>5, SideAppended
  <2>2. OpenedBy(bk.lots, bk.closed, f.time) /\ FirstIn(bk.lots, bk.closed)
    BY DEF Sound
  <2>3. f.time <= f.time
    BY <1>3
  <2>4. FirstIn(b.lots, b.closed) /\ OpenedBy(b.lots, b.closed, f.time)
    BY <1>1, <1>3, <1>4, <1>5, <2>2, <2>3, LotComesLast
  <2> QED BY <1>3, <2>1, <2>4 DEF Sound
<1>8. /\ ShareSum(b.lots) = ShareSum(bk.lots) + Put(f, f.shares)
      /\ CostSum(b.lots) = CostSum(bk.lots) + Spent(f, f.shares)
  BY <1>1, <1>4, <1>5, LotAppended
<1>9. PnlSum(bk.closed) \in Int /\ CostSum(bk.lots) \in Int /\ Spent(f, f.shares) \in Int
  BY <1>1, <1>3, PnlIsInt, LotSums, SpentIsLinear
<1>10. \A p, c, s \in Int : p = (p + (c + s)) - (c + s)
  OBVIOUS
<1> QED BY <1>5, <1>6, <1>7, <1>8, <1>9, <1>10 DEF Booked

LEMMA FillCloses ==
    ASSUME NEW bk \in BookType, NEW f \in FillType, Charged(f), Sound(bk, f.time),
           NEW side, OnSide(bk.lots, side), side # Pairing!Opens(f), side \in PositionSide,
           NEW b, b = Pairing!CloseLots(bk, f)
    PROVE  Booked(b, bk, f)
<1>1. /\ bk.lots \in Seq(LotType) /\ bk.closed \in Seq(ClosedType) /\ Len(bk.lots) \in Nat
      /\ \A i \in 1 .. Len(bk.lots) : bk.lots[i] \in LotType
  BY DEF BookType
<1>2. f.shares \in Nat \ {0} /\ f.time \in Nat /\ f.fee = Fee * f.shares /\ Pairing!Opens(f) \in PositionSide
  BY FillFields DEF Charged
<1>3. OpenedBy(bk.lots, bk.closed, f.time) /\ FirstIn(bk.lots, bk.closed)
  BY DEF Sound
<1>4. AllCharged(bk.lots)
  BY DEF AllCharged, OnSide
<1>5. PICK T : /\ Turns(T, bk, f)
               /\ LET done == T[Len(bk.lots)] IN
                  b = [closed |-> done.closed,
                       lots |-> IF done.wanted = 0 THEN done.lots
                                ELSE Append(done.lots,
                                            Pairing!NewLot(f, done.wanted, (f.fee * done.wanted) \div f.shares))]
  BY <1>4, CloseLotsRuns
<1> DEFINE done == T[Len(bk.lots)]
           w == done.wanted
           C == CostSum(bk.lots)
           P == PnlSum(bk.closed)
           sent == f.shares - w
<1>6. /\ done \in TurnType /\ w \in Nat
      /\ done.lots \in Seq(LotType) /\ done.closed \in Seq(ClosedType)
  <2>1. Len(bk.lots) \in 0 .. Len(bk.lots)
    BY <1>1
  <2>2. done \in TurnType
    BY <1>5, <2>1 DEF Turns
  <2> HIDE DEF done
  <2> QED BY <2>2 DEF TurnType
<1>7. Done(T, Len(bk.lots), bk, f, side)
  BY <1>3, <1>5, LoopDone
<1>8. /\ Balances(done, f, ShareSum(bk.lots), C, P) /\ Behind(done, side)
      /\ OpenedBy(done.lots, done.closed, f.time)
  <2>1. /\ ShareSum(bk.lots) = SumFunctionOnSet(ShareOf(bk.lots), 1 .. Len(bk.lots))
        /\ C = SumFunctionOnSet(CostOf(bk.lots), 1 .. Len(bk.lots))
    BY <1>1, LotSums
  <2>2. OpenedBy(<<>>, bk.closed, f.time) /\ \A m \in 1 .. Len(bk.lots) : bk.lots[m].time <= f.time
    <3> DEFINE none == <<>>
    <3>1. \A m : m \notin 1 .. Len(none)
      OBVIOUS
    <3> HIDE DEF none
    <3>2. OpenedBy(none, bk.closed, f.time)
      BY <1>3, <3>1 DEF OpenedBy
    <3> QED BY <1>3, <3>2 DEF none, OpenedBy
  <2> HIDE DEF C, P
  <2> QED BY <1>2, <1>7, <2>1, <2>2 DEF Done, P
<1>9. /\ w <= f.shares /\ ShareSum(done.lots) = ShareSum(bk.lots) + Put(f, sent)
      /\ PnlSum(done.closed) = (P + CostSum(done.lots)) - (C + Spent(f, sent))
  BY <1>8 DEF Balances
<1>10. /\ ShareSum(bk.lots) \in Int /\ C \in Int /\ P \in Int
       /\ ShareSum(done.lots) \in Int /\ CostSum(done.lots) \in Int
  BY <1>1, <1>6, LotSums, PnlIsInt
<1>11. OnSide(done.lots, side) /\ FirstIn(done.lots, done.closed) /\ (w > 0 => done.lots = <<>>)
  BY <1>8 DEF Behind
<1>12. CASE w = 0
  <2>1. b = [closed |-> done.closed, lots |-> done.lots]
    BY <1>5, <1>12
  <2>2. b.lots = done.lots /\ b.closed = done.closed
    BY <2>1
  <2>3. b \in BookType
    <3> HIDE DEF done
    <3> QED BY <1>6, <2>1 DEF BookType
  <2>4. sent = f.shares
    BY <1>2, <1>12
  <2>5. Sound(b, f.time)
    BY <1>8, <1>11, <2>2 DEF Sound
  <2> HIDE DEF done, w, sent
  <2> QED BY <1>9, <2>2, <2>3, <2>4, <2>5 DEF Booked, C, P
<1>13. CASE w # 0
  <2> DEFINE lot == Pairing!NewLot(f, w, Fee * w)
             more == Append(done.lots, lot)
  <2>1. w \in Nat \ {0} /\ w > 0
    BY <1>6, <1>13
  <2>2. (f.fee * w) \div f.shares = Fee * w
    <3> HIDE DEF w
    <3> QED BY <1>2, <2>1, PartOfFee
  <2>3. b = [closed |-> done.closed, lots |-> more]
    BY <1>5, <1>13, <2>2
  <2>4. /\ lot \in LotType /\ Charged(lot) /\ lot.side = Pairing!Opens(f) /\ lot.time = f.time
        /\ Signed(lot, lot.shares) = Put(f, w)
        /\ Signed(lot, lot.shares * lot.price) + lot.fee = Spent(f, w)
    <3> HIDE DEF w
    <3> QED BY <2>1, FillOpens
  <2> HIDE DEF lot
  <2>5. more \in Seq(LotType)
    BY <1>6, <2>4
  <2>6. /\ ShareSum(more) = ShareSum(done.lots) + Put(f, w)
        /\ CostSum(more) = CostSum(done.lots) + Spent(f, w)
    <3> HIDE DEF done, w
    <3> QED BY <1>6, <2>4, LotAppended
  <2>7. OnSide(more, Pairing!Opens(f))
    <3>1. OnSide(<<>>, Pairing!Opens(f)) /\ <<>> \in Seq(LotType)
      <4> DEFINE none == <<>>
      <4>1. \A m : m \notin 1 .. Len(none)
        OBVIOUS
      <4>2. none \in Seq(LotType)
        OBVIOUS
      <4> HIDE DEF none
      <4>3. OnSide(none, Pairing!Opens(f))
        BY <4>1 DEF OnSide
      <4> QED BY <4>2, <4>3 DEF none
    <3>2. done.lots = <<>>
      BY <1>11, <2>1
    <3> HIDE DEF done
    <3> QED BY <2>4, <3>1, <3>2, SideAppended
  <2>8. FirstIn(more, done.closed) /\ OpenedBy(more, done.closed, f.time)
    <3>1. f.time <= f.time
      BY <1>2
    <3> HIDE DEF done, w
    <3> QED BY <1>2, <1>6, <1>8, <1>11, <2>4, <3>1, LotComesLast
  <2>9. Put(f, f.shares) = Put(f, sent) + Put(f, w) /\ Put(f, sent) \in Int /\ Put(f, w) \in Int
        /\ Spent(f, f.shares) = Spent(f, sent) + Spent(f, w) /\ Spent(f, sent) \in Int /\ Spent(f, w) \in Int
    <3>1. sent \in Int /\ w \in Int /\ sent + w = f.shares
      BY <1>2, <1>6
    <3> HIDE DEF sent, w
    <3>2. Put(f, sent + w) = Put(f, sent) + Put(f, w) /\ Put(f, sent) \in Int /\ Put(f, w) \in Int
      BY <3>1, PutIsLinear
    <3>3. Spent(f, sent + w) = Spent(f, sent) + Spent(f, w) /\ Spent(f, sent) \in Int /\ Spent(f, w) \in Int
      BY <3>1, SpentIsLinear
    <3> QED BY <3>1, <3>2, <3>3
  <2>10. b.lots = more /\ b.closed = done.closed
    BY <2>3
  <2>11. b \in BookType
    <3> HIDE DEF done, more
    <3> QED BY <1>6, <2>3, <2>5 DEF BookType
  <2>12. Sound(b, f.time)
    <3> HIDE DEF done, more
    <3> QED BY <1>2, <2>7, <2>8, <2>10 DEF Sound
  <2> HIDE DEF done, w, sent, more, C, P
  <2>13. ShareSum(b.lots) = ShareSum(bk.lots) + Put(f, f.shares)
    <3>1. \A s, m, n \in Int : (s + m) + n = s + (m + n)
      OBVIOUS
    <3> QED BY <1>9, <1>10, <2>6, <2>9, <2>10, <3>1
  <2>14. PnlSum(b.closed) = (P + CostSum(b.lots)) - (C + Spent(f, f.shares))
    <3>1. \A p, d, c, m, n \in Int : (p + d) - (c + m) = (p + (d + n)) - (c + (m + n))
      OBVIOUS
    <3> QED BY <1>9, <1>10, <2>6, <2>9, <2>10, <3>1
  <2> QED BY <2>11, <2>12, <2>13, <2>14 DEF Booked, C, P
<1> QED BY <1>12, <1>13

LEMMA MatchBooks ==
    ASSUME NEW bk \in BookType, NEW f \in FillType, Charged(f), Sound(bk, f.time)
    PROVE  Booked(Pairing!Match(bk, f), bk, f)
<1>1. PICK side \in PositionSide : OnSide(bk.lots, side)
  BY DEF Sound
<1>2. bk.lots \in Seq(LotType)
  BY DEF BookType
<1>3. CASE bk.lots = <<>>
  <2>1. OnSide(bk.lots, Pairing!Opens(f))
    <3>1. \A m : m \notin 1 .. Len(bk.lots)
      BY <1>3
    <3> QED BY <3>1 DEF OnSide
  <2> QED BY <1>3, <2>1, FillIsOpened DEF Pairing!Match
<1>4. CASE bk.lots # <<>>
  <2>1. Head(bk.lots) = bk.lots[1] /\ 1 \in 1 .. Len(bk.lots)
    BY <1>2, <1>4
  <2>2. Head(bk.lots).side = side
    BY <1>1, <2>1 DEF OnSide
  <2>3. CASE side = Pairing!Opens(f)
    BY <1>1, <2>2, <2>3, FillIsOpened DEF Pairing!Match
  <2>4. CASE side # Pairing!Opens(f)
    BY <1>1, <1>4, <2>2, <2>4, FillCloses DEF Pairing!Match
  <2> QED BY <2>3, <2>4
<1> QED BY <1>3, <1>4

-----------------------------------------------------------------------------
(* The fills of a symbol, in the order of their times *)

Timed(mine) ==
    /\ IsFiniteSet(mine)
    /\ \A f \in mine : f \in FillType /\ Charged(f)
    /\ \A f, g \in mine : f.time = g.time => f = g

Before(mine, f) == {g \in mine : g.time < f.time}

\* The first k of them.
First(mine, k) == {f \in mine : Cardinality(Before(mine, f)) < k}

LEMMA SameNth ==
    \A mine, k : Pairing!Nth(mine, k) = CHOOSE f \in mine : Cardinality(Before(mine, f)) = k
<1>1. \A S : Pairing!Cardinality(S) = Cardinality(S)
  BY DEF Pairing!Cardinality, Cardinality
<1> QED BY <1>1 DEF Pairing!Nth, Before

LEMMA Earlier ==
    ASSUME NEW mine, Timed(mine), NEW f \in mine
    PROVE  /\ f.time \in Nat
           /\ Cardinality(Before(mine, f)) \in Nat /\ Cardinality(Before(mine, f)) < Cardinality(mine)
           /\ IsFiniteSet(Before(mine, f)) /\ Cardinality(mine) \in Nat
<1>1. \A g \in mine : g.time \in Nat
  BY FillFields DEF Timed
<1>2. Before(mine, f) \subseteq mine \ {f}
  BY <1>1 DEF Before
<1>3. IsFiniteSet(mine) /\ Cardinality(mine) \in Nat
  BY FS_CardinalityType DEF Timed
<1>4. IsFiniteSet(mine \ {f}) /\ Cardinality(mine \ {f}) = Cardinality(mine) - 1
  BY <1>3, FS_RemoveElement
<1>5. IsFiniteSet(Before(mine, f)) /\ Cardinality(Before(mine, f)) <= Cardinality(mine \ {f})
  BY <1>2, <1>4, FS_Subset
<1>6. Cardinality(Before(mine, f)) \in Nat
  BY <1>5, FS_CardinalityType
<1>7. \A c \in Nat : \A m \in Nat : c <= m - 1 => c < m
  OBVIOUS
<1> QED BY <1>1, <1>3, <1>4, <1>5, <1>6, <1>7

LEMMA FirstAndAll ==
    ASSUME NEW mine, Timed(mine)
    PROVE  /\ First(mine, 0) = {} /\ Cardinality(First(mine, 0)) = 0
           /\ First(mine, Cardinality(mine)) = mine
<1>1. First(mine, 0) = {}
  BY Earlier DEF First
<1>2. First(mine, Cardinality(mine)) = mine
  BY Earlier DEF First
<1> QED BY <1>1, <1>2, FS_EmptySet

LEMMA NextFill ==
    ASSUME NEW mine, Timed(mine), NEW k \in Nat, k < Cardinality(mine), Cardinality(First(mine, k)) = k,
           NEW f, f = Pairing!Nth(mine, k)
    PROVE  /\ f \in mine /\ f \notin First(mine, k)
           /\ First(mine, k + 1) = First(mine, k) \cup {f}
           /\ Cardinality(First(mine, k + 1)) = k + 1
           /\ \A g \in mine \ First(mine, k + 1) : f.time <= g.time
<1> DEFINE Out == mine \ First(mine, k)
           times == {g.time : g \in Out}
           c(g) == Cardinality(Before(mine, g))
<1>1. IsFiniteSet(mine) /\ Cardinality(mine) \in Nat /\ \A g \in mine : g.time \in Nat /\ c(g) \in Nat
  BY Earlier, FS_CardinalityType DEF Timed
<1>2. First(mine, k) \subseteq mine /\ IsFiniteSet(First(mine, k))
  BY <1>1, FS_Subset DEF First
<1>3. Out # {}
  <2>1. First(mine, k) # mine
    BY <1>1
  <2> QED BY <1>2, <2>1
<1>4. PICK t \in times : \A u \in times : ~(<<u, t>> \in OpToRel(<, Nat))
  <2>1. times \subseteq Nat /\ times # {}
    BY <1>1, <1>3
  <2> HIDE DEF times
  <2> QED BY <2>1, WFMin, NatLessThanWellFounded
<1>5. PICK m \in Out : m.time = t
  BY <1>4
<1>6. \A g \in Out : m.time <= g.time
  <2> SUFFICES ASSUME NEW g \in Out PROVE m.time <= g.time
    OBVIOUS
  <2>1. g.time \in times /\ g.time \in Nat /\ t \in Nat
    BY <1>1, <1>5
  <2>2. ~(g.time < t)
    BY <1>4, <2>1 DEF OpToRel
  <2> QED BY <1>5, <2>1, <2>2
<1>7. m \in mine /\ m \notin First(mine, k) /\ ~(c(m) < k)
  BY <1>5 DEF First
<1>8. Before(mine, m) = First(mine, k)
  <2>1. ASSUME NEW g \in mine, g.time < m.time PROVE g \in First(mine, k)
    <3>1. g.time \in Nat /\ m.time \in Nat
      BY <1>1, <1>7
    <3>2. g \notin Out
      BY <1>6, <2>1, <3>1
    <3> QED BY <3>2
  <2>2. ASSUME NEW g \in First(mine, k), ~(g.time < m.time) PROVE FALSE
    <3>1. g \in mine /\ c(g) < k
      BY <2>2 DEF First
    <3>2. Before(mine, m) \subseteq Before(mine, g)
      <4> SUFFICES ASSUME NEW h \in mine, h.time < m.time PROVE h.time < g.time
        BY DEF Before
      <4>1. h.time \in Nat /\ g.time \in Nat /\ m.time \in Nat
        BY <1>1, <1>7, <3>1
      <4> QED BY <2>2, <4>1
    <3>3. IsFiniteSet(Before(mine, g))
      BY <3>1, Earlier
    <3>4. c(m) <= c(g)
      BY <3>2, <3>3, FS_Subset
    <3> HIDE DEF c
    <3> QED BY <1>1, <1>7, <3>1, <3>4
  <2> QED BY <1>2, <2>1, <2>2 DEF Before
<1>9. c(m) = k
  BY <1>8
<1>10. \A g \in mine : c(g) = k => g = m
  <2> SUFFICES ASSUME NEW g \in mine, c(g) = k, g # m PROVE FALSE
    OBVIOUS
  <2>1. g.time # m.time
    BY <1>7 DEF Timed
  <2>2. g \in Out
    BY <1>1 DEF First
  <2>3. m.time < g.time
    BY <1>1, <1>6, <1>7, <2>1, <2>2
  <2>4. Before(mine, m) \cup {m} \subseteq Before(mine, g)
    <3> SUFFICES ASSUME NEW h \in mine, h.time < m.time \/ h = m PROVE h.time < g.time
      BY <1>7 DEF Before
    <3>1. h.time \in Nat /\ g.time \in Nat /\ m.time \in Nat
      BY <1>1, <1>7
    <3> QED BY <2>3, <3>1
  <2>5. m \notin Before(mine, m) /\ IsFiniteSet(Before(mine, m)) /\ IsFiniteSet(Before(mine, g))
    BY <1>1, <1>7, Earlier DEF Before
  <2>6. Cardinality(Before(mine, m) \cup {m}) = c(m) + 1
    BY <2>5, FS_AddElement
  <2>7. Cardinality(Before(mine, m) \cup {m}) <= c(g)
    BY <2>4, <2>5, FS_Subset
  <2> HIDE DEF c
  <2> QED BY <1>9, <2>6, <2>7
<1>11. f = m
  <2>1. f = CHOOSE g \in mine : c(g) = k
    BY SameNth
  <2> HIDE DEF c
  <2> QED BY <1>7, <1>9, <1>10, <2>1
<1>12. First(mine, k + 1) = First(mine, k) \cup {m}
  <2>1. \A i \in Nat : i < k + 1 <=> i < k \/ i = k
    OBVIOUS
  <2>2. \A g \in mine : g \in First(mine, k + 1) <=> c(g) < k \/ c(g) = k
    BY <1>1, <2>1 DEF First
  <2>3. \A g \in mine : g \in First(mine, k) <=> c(g) < k
    BY DEF First
  <2>4. First(mine, k + 1) \subseteq mine
    BY DEF First
  <2> HIDE DEF c
  <2> QED BY <1>2, <1>7, <1>9, <1>10, <2>2, <2>3, <2>4
<1>13. Cardinality(First(mine, k + 1)) = k + 1
  BY <1>2, <1>7, <1>12, FS_AddElement
<1> QED BY <1>6, <1>7, <1>11, <1>12, <1>13

-----------------------------------------------------------------------------
(* The book of a symbol *)

\* What its fills have put and cost.
PutBy(mine) == [f \in mine |-> IF f.side = "BUY" THEN f.shares ELSE -f.shares]
SpentBy(mine) == [f \in mine |-> (IF f.side = "BUY" THEN f.shares ELSE -f.shares) * f.price + f.fee]

\* The book after the first k fills.
BookAfter(bk, mine, k) ==
    /\ bk \in BookType
    /\ \E t \in Nat : Sound(bk, t) /\ \A g \in mine \ First(mine, k) : t <= g.time
    /\ ShareSum(bk.lots) = SumFunctionOnSet(PutBy(mine), First(mine, k))
    /\ PnlSum(bk.closed) = CostSum(bk.lots) - SumFunctionOnSet(SpentBy(mine), First(mine, k))

LEMMA FillSums ==
    ASSUME NEW mine, Timed(mine), NEW f \in mine
    PROVE  /\ PutBy(mine)[f] = Put(f, f.shares) /\ PutBy(mine)[f] \in Int
           /\ SpentBy(mine)[f] = Spent(f, f.shares) /\ SpentBy(mine)[f] \in Int
<1>1. f \in FillType /\ f.shares \in Int /\ f.price \in Int /\ f.fee = Fee * f.shares
  BY FillFields DEF Timed, Charged
<1>2. PutBy(mine)[f] = Put(f, f.shares) /\ Put(f, f.shares) \in Int
  BY <1>1, PutIsLinear DEF PutBy, Put
<1>3. SpentBy(mine)[f] = Put(f, f.shares) * f.price + f.fee
  BY DEF SpentBy, Put
<1>4. Put(f, f.shares) * f.price = Put(f, f.shares * f.price)
  <2>1. \A n, p \in Int : (-n) * p = -(n * p)
    OBVIOUS
  <2> QED BY <1>1, <2>1 DEF Put
<1>5. Spent(f, f.shares) \in Int
  BY <1>1, SpentIsLinear
<1> QED BY <1>1, <1>2, <1>3, <1>4, <1>5 DEF Spent

LEMMA NothingBooked ==
    ASSUME NEW mine, Timed(mine)
    PROVE  BookAfter([lots |-> <<>>, closed |-> <<>>], mine, 0)
<1> DEFINE none == <<>>
           bk == [lots |-> none, closed |-> none]
<1>1. bk.lots = none /\ bk.closed = none
  OBVIOUS
<1>2. bk \in BookType
  BY DEF BookType
<1>3. \A m : m \notin 1 .. Len(none)
  OBVIOUS
<1>4. ShareSum(none) = 0 /\ CostSum(none) = 0 /\ PnlSum(none) = 0
  BY NothingSums
<1> HIDE DEF none, bk
<1>5. Sound(bk, 0)
  BY <1>1, <1>3 DEF Sound, OnSide, FirstIn, OpenedBy, PositionSide
<1>6. /\ SumFunctionOnSet(PutBy(mine), First(mine, 0)) = 0
      /\ SumFunctionOnSet(SpentBy(mine), First(mine, 0)) = 0
  BY FirstAndAll, SumEmpty
<1>7. \A g \in mine : 0 <= g.time
  BY Earlier
<1>8. 0 - 0 = 0 /\ 0 \in Nat
  OBVIOUS
<1>9. BookAfter(bk, mine, 0)
  BY <1>1, <1>2, <1>4, <1>5, <1>6, <1>7, <1>8 DEF BookAfter
<1> QED BY <1>9 DEF bk, none

LEMMA OneMoreBooked ==
    ASSUME NEW mine, Timed(mine), NEW k \in Nat, k < Cardinality(mine), Cardinality(First(mine, k)) = k,
           NEW bk, BookAfter(bk, mine, k)
    PROVE  BookAfter(Pairing!Match(bk, Pairing!Nth(mine, k)), mine, k + 1)
<1> DEFINE f == Pairing!Nth(mine, k)
           b == Pairing!Match(bk, f)
           S == First(mine, k)
           put == PutBy(mine)
           spent == SpentBy(mine)
<1>1. /\ f \in mine /\ f \notin S /\ First(mine, k + 1) = S \cup {f}
      /\ \A g \in mine \ First(mine, k + 1) : f.time <= g.time
  BY NextFill
<1>2. f \in FillType /\ Charged(f) /\ f.time \in Nat
  BY <1>1, FillFields DEF Timed
<1>3. bk \in BookType /\ Sound(bk, f.time)
  <2>1. bk \in BookType
    BY DEF BookAfter
  <2>2. PICK t \in Nat : Sound(bk, t) /\ t <= f.time
    BY <1>1 DEF BookAfter
  <2>3. OpenedBy(bk.lots, bk.closed, f.time)
    <3>1. /\ bk.lots \in Seq(LotType) /\ bk.closed \in Seq(ClosedType)
      BY <2>1 DEF BookType
    <3>2. /\ \A i \in 1 .. Len(bk.lots) : bk.lots[i].time \in Nat
          /\ \A i \in 1 .. Len(bk.closed) : bk.closed[i].entry \in Nat
      <4>1. /\ \A l \in LotType : l.time \in Nat
            /\ \A c \in ClosedType : c.entry \in Nat
        BY DEF LotType, ClosedType
      <4> QED BY <3>1, <4>1
    <3> HIDE DEF f
    <3> QED BY <1>2, <2>2, <3>2 DEF Sound, OpenedBy
  <2> QED BY <2>1, <2>2, <2>3 DEF Sound
<1> HIDE DEF f
<1>4. Booked(b, bk, f)
  BY <1>2, <1>3, MatchBooks
<1> HIDE DEF b
<1>5. /\ b \in BookType /\ Sound(b, f.time)
      /\ ShareSum(b.lots) = ShareSum(bk.lots) + Put(f, f.shares)
      /\ PnlSum(b.closed) = (PnlSum(bk.closed) + CostSum(b.lots)) - (CostSum(bk.lots) + Spent(f, f.shares))
  BY <1>4 DEF Booked
<1>6. IsFiniteSet(S) /\ \A g \in S \cup {f} : put[g] \in Int /\ spent[g] \in Int
  <2>1. IsFiniteSet(S) /\ S \subseteq mine
    BY FS_Subset DEF Timed, First
  <2> QED BY <1>1, <2>1, FillSums
<1>7. /\ put[f] = Put(f, f.shares) /\ put[f] \in Int
      /\ spent[f] = Spent(f, f.shares) /\ spent[f] \in Int
  BY <1>1, FillSums
<1>8. /\ ShareSum(bk.lots) = SumFunctionOnSet(put, S)
      /\ PnlSum(bk.closed) = CostSum(bk.lots) - SumFunctionOnSet(spent, S)
  BY DEF BookAfter
<1>9. SumFunctionOnSet(put, S) \in Int /\ SumFunctionOnSet(spent, S) \in Int
  BY <1>6, SumIsInt
<1> HIDE DEF S, put, spent
<1>10. /\ SumFunctionOnSet(put, S \cup {f}) = SumFunctionOnSet(put, S) + put[f]
       /\ SumFunctionOnSet(spent, S \cup {f}) = SumFunctionOnSet(spent, S) + spent[f]
  BY <1>1, <1>6, SumAdd
<1>11. CostSum(bk.lots) \in Int /\ CostSum(b.lots) \in Int
  BY <1>3, <1>5, LotSums DEF BookType
<1>12. PnlSum(b.closed) = CostSum(b.lots) - SumFunctionOnSet(spent, S \cup {f})
  <2>1. \A c, s, d, e \in Int : ((c - s) + d) - (c + e) = d - (s + e)
    OBVIOUS
  <2> QED BY <1>5, <1>7, <1>8, <1>9, <1>10, <1>11, <2>1
<1>13. ShareSum(b.lots) = SumFunctionOnSet(put, S \cup {f})
  BY <1>5, <1>7, <1>8, <1>10
<1>14. BookAfter(b, mine, k + 1)
  BY <1>1, <1>2, <1>5, <1>12, <1>13 DEF BookAfter, S, put, spent
<1> QED BY <1>14 DEF b, f

\* The pairing of a symbol's fills, as the books after each of them.
LEMMA PairedBook ==
    ASSUME NEW x \in Symbol, Timed(Of(x))
    PROVE  BookAfter(Paired[x], Of(x), Cardinality(Of(x)))
<1> DEFINE mine == {f \in fills : f.symbol = x}
           n == Cardinality(mine)
           none == [lots |-> <<>>, closed |-> <<>>]
           F(k, bk) == Pairing!Match(bk, Pairing!Nth(mine, k - 1))
           G == [k \in 1 .. n |-> [bk \in BookType |-> IF BookAfter(bk, mine, k - 1) THEN F(k, bk) ELSE bk]]
           Body(H) == [k \in 0 .. n |-> IF k = 0 THEN [lots |-> <<>>, closed |-> <<>>]
                                        ELSE Pairing!Match(H[k - 1], Pairing!Nth(mine, k - 1))]
           E == CHOOSE H : H = Body(H)
<1>1. Timed(mine) /\ Of(x) = mine
  BY DEF Of
<1> HIDE DEF mine
<1>2. n \in Nat
  BY <1>1, FS_CardinalityType DEF Timed
<1>3. Paired[x] = E[n]
  <2>1. \A S : Pairing!Cardinality(S) = Cardinality(S)
    BY DEF Pairing!Cardinality, Cardinality
  <2> QED BY <2>1 DEF Paired, Pairing!PairTrades, mine
<1>4. \A k \in 0 .. n : Cardinality(First(mine, k)) = k
  <2> DEFINE Q == {k \in Nat : k <= n => Cardinality(First(mine, k)) = k}
  <2>1. 0 \in Q
    BY <1>1, FirstAndAll
  <2>2. \A k \in Q : k + 1 \in Q
    <3> SUFFICES ASSUME NEW k \in Nat, k <= n => Cardinality(First(mine, k)) = k, k + 1 <= n
                 PROVE  Cardinality(First(mine, k + 1)) = k + 1
      OBVIOUS
    <3>1. k <= n /\ k < n
      BY <1>2
    <3> QED BY <1>1, <3>1, NextFill
  <2>3. Q \in SUBSET Nat
    OBVIOUS
  <2> HIDE DEF Q
  <2>4. \A k \in Nat : k \in Q
    BY <2>1, <2>2, <2>3, Induction
  <2>5. \A k \in 0 .. n : k \in Nat /\ k <= n
    BY <1>2
  <2> QED BY <2>4, <2>5 DEF Q
<1>5. none \in BookType /\ BookAfter(none, mine, 0)
  BY <1>1, NothingBooked DEF BookAfter
<1>6. ASSUME NEW k \in 1 .. n, NEW bk \in BookType, BookAfter(bk, mine, k - 1)
      PROVE  F(k, bk) \in BookType /\ BookAfter(F(k, bk), mine, k)
  <2>1. k - 1 \in Nat /\ k - 1 < n /\ (k - 1) + 1 = k /\ k - 1 \in 0 .. n
    BY <1>2
  <2>2. Cardinality(First(mine, k - 1)) = k - 1
    BY <1>4, <2>1
  <2>3. BookAfter(F(k, bk), mine, (k - 1) + 1)
    <3> DEFINE j == k - 1
    <3>1. j \in Nat /\ j < n /\ Cardinality(First(mine, j)) = j /\ BookAfter(bk, mine, j)
      BY <1>6, <2>1, <2>2
    <3> HIDE DEF j
    <3>2. BookAfter(Pairing!Match(bk, Pairing!Nth(mine, j)), mine, j + 1)
      BY <1>1, <3>1, OneMoreBooked
    <3> QED BY <3>2 DEF j
  <2> HIDE DEF F
  <2> QED BY <2>1, <2>3 DEF BookAfter
<1> HIDE DEF none, F
<1>7. G \in [1 .. n -> [BookType -> BookType]]
  BY <1>6
<1>8. PICK B : Runs(B, BookType, none, G, n)
  <2> HIDE DEF G, n
  <2> QED BY <1>2, <1>5, <1>7, Iteration
<1>9. B \in [0 .. n -> BookType] /\ B[0] = none /\ \A k \in 1 .. n : B[k] = G[k][B[k - 1]]
  BY <1>8 DEF Runs
<1>10. \A k \in 0 .. n : BookAfter(B[k], mine, k)
  <2> DEFINE Q == {k \in Nat : k <= n => BookAfter(B[k], mine, k)}
  <2>1. 0 \in Q
    BY <1>5, <1>9
  <2>2. \A k \in Q : k + 1 \in Q
    <3> SUFFICES ASSUME NEW k \in Nat, k <= n => BookAfter(B[k], mine, k), k + 1 <= n
                 PROVE  BookAfter(B[k + 1], mine, k + 1)
      OBVIOUS
    <3>1. k <= n /\ k + 1 \in 1 .. n /\ (k + 1) - 1 = k /\ k \in 0 .. n
      BY <1>2
    <3>2. B[k] \in BookType /\ BookAfter(B[k], mine, k)
      BY <1>9, <3>1
    <3>3. B[k + 1] = F(k + 1, B[k])
      BY <1>9, <3>1, <3>2
    <3> QED BY <1>6, <3>1, <3>2, <3>3
  <2>3. Q \in SUBSET Nat
    OBVIOUS
  <2> HIDE DEF Q
  <2>4. \A k \in Nat : k \in Q
    BY <2>1, <2>2, <2>3, Induction
  <2>5. \A k \in 0 .. n : k \in Nat /\ k <= n
    BY <1>2
  <2> QED BY <2>4, <2>5 DEF Q
<1>11. \A k \in 1 .. n : B[k] = Pairing!Match(B[k - 1], Pairing!Nth(mine, k - 1))
  <2> SUFFICES ASSUME NEW k \in 1 .. n PROVE B[k] = F(k, B[k - 1])
    BY DEF F
  <2>1. k - 1 \in 0 .. n
    BY <1>2
  <2>2. B[k - 1] \in BookType /\ BookAfter(B[k - 1], mine, k - 1)
    BY <1>9, <1>10, <2>1
  <2> QED BY <1>9, <2>2
<1> HIDE DEF G
<1>12. B = Body(B)
  <2>1. \A k \in 0 .. n : k # 0 => k \in 1 .. n
    BY <1>2
  <2> QED BY <1>9, <1>11, <2>1 DEF none
<1>13. E = Body(E)
  BY <1>12
<1> HIDE DEF E
<1>14. E[n] = B[n]
  <2> DEFINE Q == {k \in Nat : k \in 0 .. n => E[k] = B[k]}
  <2>1. E[0] = none /\ \A k \in 1 .. n : E[k] = Pairing!Match(E[k - 1], Pairing!Nth(mine, k - 1))
    <3>1. 0 \in 0 .. n /\ \A k \in 1 .. n : k \in 0 .. n /\ k # 0
      BY <1>2
    <3> QED BY <1>13, <3>1 DEF none
  <2>2. 0 \in Q
    BY <1>9, <2>1
  <2>3. ASSUME NEW k \in Q PROVE k + 1 \in Q
    <3> SUFFICES ASSUME k + 1 \in 0 .. n PROVE E[k + 1] = B[k + 1]
      OBVIOUS
    <3>1. k + 1 \in 1 .. n /\ k \in 0 .. n /\ (k + 1) - 1 = k
      BY <1>2
    <3> QED BY <1>11, <2>1, <3>1
  <2>4. Q \in SUBSET Nat /\ n \in 0 .. n
    BY <1>2
  <2> HIDE DEF Q
  <2>5. n \in Q
    BY <1>2, <2>2, <2>3, <2>4, Induction
  <2> QED BY <2>4, <2>5 DEF Q
<1>15. n \in 0 .. n
  BY <1>2
<1> QED BY <1>1, <1>3, <1>10, <1>14, <1>15 DEF n

-----------------------------------------------------------------------------
(* The log *)

\* Each fill is one of its symbol's at its time, charged by the share, and none is
\* of a rebalance that has not yet filled.
LogIsTimed ==
    /\ IsFiniteSet(fills)
    /\ \A f \in fills : /\ f \in FillType /\ Charged(f)
                        /\ f.time <= rebalances /\ (stage # "idle" => f.time < rebalances)
    /\ \A f, g \in fills : f.symbol = g.symbol /\ f.time = g.time => f = g

LEMMA FiniteImage ==
    ASSUME NEW S, IsFiniteSet(S), NEW F
    PROVE  IsFiniteSet({F[x] : x \in S})
<1> DEFINE img(T) == {F[x] : x \in T}
           P == {T \in SUBSET S : IsFiniteSet(img(T))}
<1>1. {} \in P
  <2>1. img({}) = {}
    OBVIOUS
  <2> HIDE DEF img
  <2> QED BY <2>1, FS_EmptySet
<1>2. ASSUME NEW T \in P, NEW x \in S \ T PROVE T \cup {x} \in P
  <2> DEFINE A == img(T)
             B == img(T \cup {x})
  <2>1. B = A \cup {F[x]}
    OBVIOUS
  <2>2. IsFiniteSet(A)
    OBVIOUS
  <2>3. ASSUME IsFiniteSet(B) PROVE T \cup {x} \in P
    BY <2>3
  <2> HIDE DEF A, B, P
  <2>4. IsFiniteSet(A \cup {F[x]})
    BY <2>2, FS_AddElement
  <2>5. IsFiniteSet(B)
    BY <2>1, <2>4
  <2> QED BY <2>3, <2>5
<1>3. S \in P
  <2>1. P \in SUBSET (SUBSET S) /\ S \in SUBSET S
    OBVIOUS
  <2> HIDE DEF P
  <2> QED BY <1>1, <1>2, <2>1, SetInduction
<1> QED BY <1>3

LEMMA LogStarts == Init => LogIsTimed
<1> SUFFICES ASSUME Init PROVE LogIsTimed
  OBVIOUS
<1>1. PICK o \in Openings : /\ stage = "idle" /\ rebalances = 0
                            /\ fills = {Purchase(o, x) : x \in o.logged}
  BY DEF Init
<1>2. /\ o.held \in [Symbol -> Nat] /\ o.paid \in Nat
      /\ \A x \in o.logged : x \in Symbol /\ o.held[x] > 0
  BY PipelineAssumption
<1>3. IsFiniteSet(fills)
  <2>1. o.logged \subseteq Symbol
    BY <1>2
  <2>2. IsFiniteSet(o.logged)
    BY <2>1, Parameters, FS_Subset
  <2> DEFINE P == [x \in o.logged |-> Purchase(o, x)]
  <2>3. fills = {P[x] : x \in o.logged}
    BY <1>1
  <2> HIDE DEF P
  <2> QED BY <2>2, <2>3, FiniteImage
<1>4. ASSUME NEW f \in fills
      PROVE  f \in FillType /\ Charged(f) /\ f.time = 0
  <2>1. PICK x \in o.logged : f = Purchase(o, x)
    BY <1>1
  <2>2. f = [time |-> 0, symbol |-> x, side |-> "BUY", shares |-> o.held[x], price |-> o.paid,
             fee |-> Fee * o.held[x]]
    BY <2>1 DEF Purchase
  <2>3. o.held[x] \in Nat \ {0} /\ Fee * o.held[x] \in Nat
    BY <1>2, <2>1, Parameters
  <2> QED BY <1>2, <2>2, <2>3 DEF FillType, Charged
<1>5. \A f, g \in fills : f.symbol = g.symbol => f = g
  BY <1>1 DEF Purchase
<1>6. 0 <= 0
  OBVIOUS
<1> QED BY <1>1, <1>3, <1>4, <1>5, <1>6 DEF LogIsTimed

LEMMA LogFills ==
    ASSUME IInv, LogIsTimed, Fill PROVE LogIsTimed'
<1> DEFINE new(x) == [time |-> rebalances, symbol |-> x, side |-> trades[x].side,
                      shares |-> Shares(x), price |-> market.price[x], fee |-> Fee * Shares(x)]
<1>1. /\ stage = "fill" /\ stage' = "idle" /\ UNCHANGED rebalances
      /\ fills' = fills \cup {new(x) : x \in Traded}
  BY DEF Fill
<1>2. /\ ABook(book) /\ market \in Markets /\ positions \in [Symbol -> Nat] /\ rebalances \in Nat
      /\ trades = Sim!Simulate(book, positions, market.price)
  BY <1>1, TypesOf DEF IInv, BetweenOverlays, TypeOK
<1>3. Traded \subseteq Symbol /\ IsFiniteSet(Traded)
  <2>1. Traded \subseteq DOMAIN book
    BY <1>2 DEF Traded, Sim!Simulate
  <2>2. Traded \subseteq Symbol
    BY <1>2, <2>1 DEF ABook
  <2> QED BY <2>2, Parameters, FS_Subset
<1>4. ASSUME NEW x \in Traded PROVE Shares(x) \in Nat \ {0} /\ trades[x].side \in {"BUY", "SELL"}
  <2>1. x \in DOMAIN book /\ trades[x].side # "HOLD"
    BY <1>2 DEF Traded, Sim!Simulate
  <2>2. trades[x] \in [side : Side, delta : Int, target : Nat] /\ trades[x].side = Sim!SideOf(trades[x].delta)
    BY <1>2, <2>1, TradeTypes
  <2>3. trades[x].delta \in Int /\ trades[x].side \in Side
    BY <2>2
  <2>4. trades[x].delta # 0
    <3>1. ~(0 > 0) /\ ~(0 < 0)
      OBVIOUS
    <3> QED BY <2>1, <2>2, <3>1 DEF Sim!SideOf
  <2>5. Shares(x) \in Nat \ {0}
    BY <2>3, <2>4 DEF Shares
  <2> QED BY <2>1, <2>3, <2>5 DEF Side
<1>5. ASSUME NEW x \in Traded
      PROVE  /\ new(x) \in FillType /\ Charged(new(x))
             /\ new(x).time = rebalances /\ new(x).symbol = x
  <2>1. market.price[x] \in Nat /\ Fee * Shares(x) \in Nat
    BY <1>2, <1>3, <1>4, MarketTypes, Parameters
  <2> DEFINE s == Shares(x)
             d == trades[x].side
             p == market.price[x]
  <2>2. s \in Nat \ {0} /\ d \in {"BUY", "SELL"} /\ p \in Nat /\ Fee * s \in Nat /\ x \in Symbol
    BY <1>3, <1>4, <2>1
  <2>3. new(x) = [time |-> rebalances, symbol |-> x, side |-> d, shares |-> s, price |-> p, fee |-> Fee * s]
    OBVIOUS
  <2> HIDE DEF s, d, p
  <2> QED BY <1>2, <2>2, <2>3 DEF FillType, Charged
<1> HIDE DEF new
<1>6. IsFiniteSet(fills')
  <2>1. IsFiniteSet({new(x) : x \in Traded})
    <3> DEFINE N == [x \in Traded |-> new(x)]
    <3>1. {new(x) : x \in Traded} = {N[x] : x \in Traded}
      OBVIOUS
    <3> HIDE DEF N
    <3> QED BY <1>3, <3>1, FiniteImage
  <2> QED BY <1>1, <2>1, FS_Union DEF LogIsTimed
<1>7. \A f \in fills' : /\ f \in FillType /\ Charged(f)
                        /\ f.time \in Nat /\ f.time <= rebalances
                        /\ (f \in fills => f.time < rebalances)
                        /\ (f \notin fills => f.time = rebalances)
  <2> SUFFICES ASSUME NEW f \in fills'
               PROVE  /\ f \in FillType /\ Charged(f)
                      /\ f.time \in Nat /\ f.time <= rebalances
                      /\ (f \in fills => f.time < rebalances)
                      /\ (f \notin fills => f.time = rebalances)
    OBVIOUS
  <2>1. CASE f \in fills
    BY <1>1, <1>2, <2>1, FillFields DEF LogIsTimed
  <2>2. CASE f \notin fills
    <3>1. PICK x \in Traded : f = new(x)
      BY <1>1, <2>2
    <3> QED BY <1>2, <1>5, <2>2, <3>1
  <2> QED BY <2>1, <2>2
<1>8. ASSUME NEW f \in fills', NEW g \in fills', f.symbol = g.symbol, f.time = g.time PROVE f = g
  <2>1. CASE f \in fills
    <3>1. g \in fills
      BY <1>2, <1>7, <1>8, <2>1
    <3> QED BY <1>8, <2>1, <3>1 DEF LogIsTimed
  <2>2. CASE f \notin fills
    <3>1. g \notin fills
      BY <1>2, <1>7, <1>8, <2>2
    <3>2. PICK x \in Traded, y \in Traded : f = new(x) /\ g = new(y)
      BY <1>1, <2>2, <3>1
    <3>3. x = y
      BY <1>5, <1>8, <3>2
    <3> QED BY <3>2, <3>3
  <2> QED BY <2>1, <2>2
<1> QED BY <1>1, <1>6, <1>7, <1>8 DEF LogIsTimed

LEMMA LogKeeps == IInv /\ LogIsTimed /\ [Next]_vars => LogIsTimed'
<1> SUFFICES ASSUME IInv, LogIsTimed, [Next]_vars PROVE LogIsTimed'
  OBVIOUS
<1>1. CASE UNCHANGED <<fills, rebalances>> /\ (stage' = "idle" \/ stage # "idle")
  BY <1>1 DEF LogIsTimed
<1>2. CASE \E m \in Markets, q \in Qualities : Select(m, q)
  <2>1. UNCHANGED fills /\ rebalances' = rebalances + 1 /\ rebalances \in Nat
    BY <1>2 DEF Select, IInv, TypeOK
  <2>2. \A f \in fills : f.time < rebalances' /\ f.time <= rebalances'
    <3>1. \A f \in fills : f.time \in Nat /\ f.time <= rebalances
      BY FillFields DEF LogIsTimed
    <3> QED BY <2>1, <3>1
  <2> QED BY <2>1, <2>2 DEF LogIsTimed
<1>3. CASE Fill
  BY <1>3, LogFills
<1> QED
  BY <1>1, <1>2, <1>3 DEF Next, Rebalance, Sessions, Session, Constrain, ScaleByVolatility,
        CapByLiquidity, Break, Trade, vars, account

LEMMA PairedBooks ==
    ASSUME LogIsTimed, NEW x \in Symbol
    PROVE  /\ Paired[x] \in BookType
           /\ FirstIn(Paired[x].lots, Paired[x].closed)
           /\ ShareSum(Paired[x].lots) = SumFunction(PutBy(Of(x)))
           /\ PnlSum(Paired[x].closed) = CostSum(Paired[x].lots) - SumFunction(SpentBy(Of(x)))
<1>1. Timed(Of(x))
  <2>1. Of(x) \subseteq fills /\ \A f \in Of(x) : f.symbol = x
    BY DEF Of
  <2>2. IsFiniteSet(Of(x))
    BY <2>1, FS_Subset DEF LogIsTimed
  <2> QED BY <2>1, <2>2 DEF Timed, LogIsTimed
<1>2. BookAfter(Paired[x], Of(x), Cardinality(Of(x)))
  BY <1>1, PairedBook
<1>3. First(Of(x), Cardinality(Of(x))) = Of(x)
  BY <1>1, FirstAndAll
<1>4. DOMAIN PutBy(Of(x)) = Of(x) /\ DOMAIN SpentBy(Of(x)) = Of(x)
  BY DEF PutBy, SpentBy
<1> QED BY <1>2, <1>3, <1>4 DEF BookAfter, Sound, SumFunction

-----------------------------------------------------------------------------
(* Theorems: the log and its pairing *)

\* Whatever is traded, the log keeps at most one fill of a symbol at a time, each of a
\* whole number of shares and charged by the share: pair_trades has one order to sort
\* them into.
THEOREM LogIsTimedHolds == Spec => []LogIsTimed
<1>1. Init => LogIsTimed
  BY LogStarts
<1>2. IInv /\ LogIsTimed /\ [Next]_vars => LogIsTimed'
  BY LogKeeps
<1> QED BY <1>1, <1>2, Inductive, PTL DEF Spec

\* No share, and no fee, is lost or counted twice by the pairing, whatever partial
\* closes and flips the fills made of the lots.
THEOREM PairingReconcilesHolds == Spec => []PairingReconciles
<1>1. ASSUME LogIsTimed PROVE PairingReconciles
  BY <1>1, PairedBooks DEF PairingReconciles, ShareSum, CostSum, PnlSum, ShareOf, CostOf, PnlOf, PutBy, SpentBy
<1>2. LogIsTimed => PairingReconciles
  BY <1>1
<1> QED BY <1>2, LogIsTimedHolds, PTL

\* A lot is closed only when all that were opened before it are.
THEOREM FirstInFirstOutHolds == Spec => []FirstInFirstOut
<1>1. ASSUME LogIsTimed PROVE FirstInFirstOut
  BY <1>1, PairedBooks DEF FirstInFirstOut, FirstIn, Items
<1>2. LogIsTimed => FirstInFirstOut
  BY <1>1
<1> QED BY <1>2, LogIsTimedHolds, PTL
=============================================================================
