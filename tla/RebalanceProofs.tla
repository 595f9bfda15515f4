--------------------------- MODULE RebalanceProofs ---------------------------
(***************************************************************************)
(* What the period loop and the selection guarantee for any universe, any  *)
(* bounds on the holdings and any buffer, floor and sector cap: holdings,  *)
(* weights and report belong together, a holding is given up for a reason, *)
(* and nothing that could have entered ranks better than what did.         *)
(***************************************************************************)
EXTENDS Rebalance, WellFoundedInduction, FiniteSetTheorems, TLAPS

-----------------------------------------------------------------------------
(* Loops.  Induction is over a set of numbers, and a loop body is a function. *)

LEMMA Induction ==
    ASSUME NEW P \in SUBSET Nat, 0 \in P, \A n \in P : n + 1 \in P
    PROVE  \A n \in Nat : n \in P
<1> SUFFICES ASSUME NEW m \in Nat, m \notin P PROVE FALSE
  OBVIOUS
<1> DEFINE Out == Nat \ P
<1>1. Out \subseteq Nat /\ Out # {}
  OBVIOUS
<1>2. PICK x \in Out : \A y \in Out : ~ (<<y, x>> \in OpToRel(<, Nat))
  <2> HIDE DEF Out
  <2> QED BY <1>1, WFMin, NatLessThanWellFounded
<1>3. x \in Nat /\ x \notin P /\ x # 0
  OBVIOUS
<1>4. x - 1 \in Nat /\ x - 1 < x
  BY <1>3
<1>5. x - 1 \in P
  BY <1>2, <1>4 DEF OpToRel
<1>6. (x - 1) + 1 = x
  BY <1>3
<1> QED BY <1>3, <1>5, <1>6

\* F lists the states of a loop of n turns.
Runs(F, V, base, G, n) ==
    /\ F \in [0 .. n -> V] /\ F[0] = base
    /\ \A i \in 1 .. n : F[i] = G[i][F[i - 1]]

LEMMA Iteration ==
    ASSUME NEW V, NEW base \in V, NEW n \in Nat, NEW G \in [1 .. n -> [V -> V]]
    PROVE  \E F : Runs(F, V, base, G, n)
<1> DEFINE P == {k \in Nat : k <= n => \E F : Runs(F, V, base, G, k)}
<1>1. 0 \in P
  <2> DEFINE F == [i \in 0 .. 0 |-> base]
  <2>1. Runs(F, V, base, G, 0)
    BY DEF Runs
  <2> QED BY <2>1
<1>2. ASSUME NEW k \in Nat, NEW F, Runs(F, V, base, G, k), k + 1 <= n PROVE \E H : Runs(H, V, base, G, k + 1)
  <2>1. k + 1 \in 1 .. n /\ k \in 0 .. k
    BY <1>2
  <2> DEFINE H == [i \in 0 .. k + 1 |-> IF i = k + 1 THEN G[k + 1][F[k]] ELSE F[i]]
  <2>2. F \in [0 .. k -> V] /\ F[0] = base /\ \A i \in 1 .. k : F[i] = G[i][F[i - 1]]
    BY <1>2 DEF Runs
  <2>3. F[k] \in V /\ G[k + 1][F[k]] \in V
    BY <2>1, <2>2
  <2>4. H \in [0 .. k + 1 -> V] /\ H[k + 1] = G[k + 1][F[k]] /\ \A i \in 0 .. k : H[i] = F[i]
    BY <2>2, <2>3
  <2> HIDE DEF H
  <2>5. H[0] = base
    BY <2>1, <2>2, <2>4
  <2>6. ASSUME NEW i \in 1 .. k + 1 PROVE H[i] = G[i][H[i - 1]]
    <3>1. CASE i = k + 1
      <4>1. i - 1 = k /\ k \in 0 .. k
        BY <2>1, <3>1
      <4> QED BY <2>4, <3>1, <4>1
    <3>2. CASE i # k + 1
      <4>1. i \in 1 .. k /\ i \in 0 .. k /\ i - 1 \in 0 .. k
        BY <2>1, <3>2
      <4> QED BY <2>2, <2>4, <4>1
    <3> QED BY <3>1, <3>2
  <2>7. Runs(H, V, base, G, k + 1)
    BY <2>4, <2>5, <2>6 DEF Runs
  <2> QED BY <2>7
<1>3. \A k \in P : k + 1 \in P
  <2> SUFFICES ASSUME NEW k \in Nat, k <= n => \E F : Runs(F, V, base, G, k), k + 1 <= n
               PROVE  \E H : Runs(H, V, base, G, k + 1)
    OBVIOUS
  <2>1. k <= n
    OBVIOUS
  <2> QED BY <1>2, <2>1
<1>4. n \in P
  <2>1. P \in SUBSET Nat
    OBVIOUS
  <2> HIDE DEF P
  <2> QED BY <1>1, <1>3, <2>1, Induction
<1> QED BY <1>4

-----------------------------------------------------------------------------
(* Only *)

OnlyRuns(F, S, s, T) ==
    /\ F \in [0 .. Len(s) -> Seq(S)] /\ F[0] = <<>>
    /\ \A i \in 1 .. Len(s) : F[i] = IF s[i] \in T THEN Append(F[i - 1], s[i]) ELSE F[i - 1]
    /\ Only(s, T) = F[Len(s)]

LEMMA OnlyLoop ==
    ASSUME NEW S, NEW s \in Seq(S), NEW T
    PROVE  \E F : OnlyRuns(F, S, s, T)
<1> DEFINE n == Len(s)
           G == [i \in 1 .. n |-> [v \in Seq(S) |-> IF s[i] \in T THEN Append(v, s[i]) ELSE v]]
           Body(H) == [i \in 0 .. Len(s) |->
                         IF i = 0 THEN <<>>
                         ELSE IF s[i] \in T THEN Append(H[i - 1], s[i]) ELSE H[i - 1]]
<1>1. n \in Nat /\ <<>> \in Seq(S) /\ G \in [1 .. n -> [Seq(S) -> Seq(S)]]
  OBVIOUS
<1>2. PICK F \in [0 .. n -> Seq(S)] : F[0] = <<>> /\ \A i \in 1 .. n : F[i] = G[i][F[i - 1]]
  <2> DEFINE V == Seq(S)
             empty == <<>>
  <2>1. empty \in V /\ G \in [1 .. n -> [V -> V]]
    BY <1>1
  <2> HIDE DEF G, n, V, empty
  <2>2. \E F : Runs(F, V, empty, G, n)
    BY <1>1, <2>1, Iteration
  <2> QED BY <2>2 DEF V, empty, Runs
<1>3. \A i \in 1 .. n : i - 1 \in 0 .. n
  BY <1>1
<1>4. \A i \in 1 .. n : F[i] = IF s[i] \in T THEN Append(F[i - 1], s[i]) ELSE F[i - 1]
  BY <1>2, <1>3
<1>5. F = Body(F)
  <2> HIDE DEF n
  <2>1. \A i \in 0 .. n : i = 0 \/ i \in 1 .. n
    BY <1>1
  <2>2. \A i \in 0 .. n : F[i] = IF i = 0 THEN <<>>
                                 ELSE IF s[i] \in T THEN Append(F[i - 1], s[i]) ELSE F[i - 1]
    BY <1>2, <1>4, <2>1
  <2> QED BY <1>2, <2>2 DEF n
<1> DEFINE E == CHOOSE H : H = Body(H)
<1>6. E = Body(E)
  BY <1>5
<1>7. Only(s, T) = E[n]
  BY DEF Only
<1> HIDE DEF E
<1>8. E[0] = <<>> /\ \A i \in 1 .. n :
        E[i] = IF s[i] \in T THEN Append(E[i - 1], s[i]) ELSE E[i - 1]
  <2>1. 0 \in 0 .. n /\ \A i \in 1 .. n : i \in 0 .. n /\ i # 0
    BY <1>1
  <2>2. \A i \in 0 .. n : E[i] = IF i = 0 THEN <<>>
                                 ELSE IF s[i] \in T THEN Append(E[i - 1], s[i]) ELSE E[i - 1]
    BY <1>6
  <2> HIDE DEF n
  <2> QED BY <2>1, <2>2
<1>9. \A i \in 0 .. n : E[i] = F[i]
  <2> DEFINE P == {i \in Nat : i <= n => E[i] = F[i]}
  <2>1. 0 \in P
    BY <1>2, <1>8
  <2>2. ASSUME NEW i \in P PROVE i + 1 \in P
    <3> SUFFICES ASSUME i + 1 <= n PROVE E[i + 1] = F[i + 1]
      OBVIOUS
    <3>1. i + 1 \in 1 .. n /\ (i + 1) - 1 = i /\ i <= n
      BY <1>1
    <3> QED BY <1>4, <1>8, <3>1
  <2> HIDE DEF n
  <2>3. \A i \in Nat : i \in P
    <3>1. P \in SUBSET Nat /\ \A i \in P : i + 1 \in P
      BY <2>2
    <3> HIDE DEF P
    <3> QED BY <2>1, <3>1, Induction
  <2> QED BY <1>1, <2>3
<1>10. Only(s, T) = F[n]
  BY <1>1, <1>7, <1>9
<1> QED BY <1>2, <1>4, <1>10 DEF OnlyRuns

\* What is picked of a sequence, by position.
Picks(f, t, s, T, i) ==
    /\ f \in [1 .. Len(t) -> 1 .. i]
    /\ \A j, k \in 1 .. Len(t) : j < k => f[j] < f[k]
    /\ \A k \in 1 .. Len(t) : t[k] = s[f[k]] /\ t[k] \in T
    /\ \A p \in 1 .. i : s[p] \in T => \E k \in 1 .. Len(t) : f[k] = p

LEMMA OnlyPicks ==
    ASSUME NEW S, NEW s \in Seq(S), NEW T
    PROVE  Only(s, T) \in Seq(S) /\ \E f : Picks(f, Only(s, T), s, T, Len(s))
<1> DEFINE n == Len(s)
<1>1. n \in Nat /\ \A i \in 1 .. n : s[i] \in S
  OBVIOUS
<1>2. PICK F \in [0 .. n -> Seq(S)] :
        /\ F[0] = <<>>
        /\ \A i \in 1 .. n : F[i] = IF s[i] \in T THEN Append(F[i - 1], s[i]) ELSE F[i - 1]
        /\ Only(s, T) = F[n]
  <2>1. PICK F : OnlyRuns(F, S, s, T)
    BY OnlyLoop
  <2> QED BY <2>1 DEF OnlyRuns, n
<1> DEFINE P == {i \in Nat : i <= n => \E f : Picks(f, F[i], s, T, i)}
<1> HIDE DEF n
<1>3. 0 \in P
  <2> DEFINE f == [k \in 1 .. 0 |-> 0]
  <2>1. Len(F[0]) = 0
    BY <1>2
  <2>2. Picks(f, F[0], s, T, 0)
    BY <2>1 DEF Picks
  <2> QED BY <2>2
<1>4. ASSUME NEW i \in P PROVE i + 1 \in P
  <2> SUFFICES ASSUME i + 1 <= n PROVE \E f : Picks(f, F[i + 1], s, T, i + 1)
    OBVIOUS
  <2>1. i \in Nat /\ i <= n /\ i + 1 \in 1 .. n /\ (i + 1) - 1 = i /\ i \in 0 .. n
    BY <1>1
  <2>2. PICK f : Picks(f, F[i], s, T, i)
    BY <2>1
  <2> DEFINE t == F[i]
             m == Len(t)
  <2>3. t \in Seq(S) /\ m \in Nat
    BY <2>1
  <2>4. /\ f \in [1 .. m -> 1 .. i]
        /\ \A j, k \in 1 .. m : j < k => f[j] < f[k]
        /\ \A k \in 1 .. m : t[k] = s[f[k]] /\ t[k] \in T
        /\ \A p \in 1 .. i : s[p] \in T => \E k \in 1 .. m : f[k] = p
    BY <2>2 DEF Picks
  <2>5. CASE s[i + 1] \notin T
    <3>1. F[i + 1] = t
      BY <1>2, <2>1, <2>5
    <3>2. \A k \in 1 .. m : f[k] \in 1 .. i + 1
      BY <2>1, <2>4
    <3>3. \A p \in 1 .. i + 1 : s[p] \in T => p \in 1 .. i
      BY <2>1, <2>5
    <3> HIDE DEF t, m
    <3>4. f \in [1 .. m -> 1 .. i + 1]
      BY <2>4, <3>2
    <3>5. Picks(f, t, s, T, i + 1)
      BY <2>4, <3>3, <3>4 DEF Picks, m
    <3> QED BY <3>1, <3>5
  <2>6. CASE s[i + 1] \in T
    <3> DEFINE u == Append(t, s[i + 1])
               g == [k \in 1 .. m + 1 |-> IF k = m + 1 THEN i + 1 ELSE f[k]]
    <3>1. F[i + 1] = u
      BY <1>2, <2>1, <2>6
    <3>2. /\ Len(u) = m + 1 /\ u[m + 1] = s[i + 1] /\ \A k \in 1 .. m : u[k] = t[k]
      BY <1>1, <2>1, <2>3
    <3> HIDE DEF u, t, m
    <3>3. g[m + 1] = i + 1 /\ \A k \in 1 .. m : g[k] = f[k] /\ f[k] \in 1 .. i
      BY <2>3, <2>4
    <3>4. \A k \in 1 .. m + 1 : k = m + 1 \/ k \in 1 .. m
      BY <2>3
    <3>5. g \in [1 .. m + 1 -> 1 .. i + 1]
      <4>1. \A k \in 1 .. m + 1 : g[k] \in 1 .. i + 1
        <5>1. i + 1 \in 1 .. i + 1 /\ \A x \in 1 .. i : x \in 1 .. i + 1
          BY <2>1
        <5> QED BY <3>3, <3>4, <5>1
      <4> QED BY <4>1
    <3> HIDE DEF g
    <3>6. ASSUME NEW j \in 1 .. m + 1, NEW k \in 1 .. m + 1, j < k PROVE g[j] < g[k]
      <4>1. j \in 1 .. m
        BY <2>3, <3>6
      <4>2. CASE k = m + 1
        BY <2>1, <3>3, <4>1, <4>2
      <4>3. CASE k # m + 1
        BY <2>4, <3>3, <3>4, <3>6, <4>1, <4>3
      <4> QED BY <4>2, <4>3
    <3>7. \A k \in 1 .. m + 1 : u[k] = s[g[k]] /\ u[k] \in T
      BY <2>4, <2>6, <3>2, <3>3, <3>4
    <3>8. ASSUME NEW p \in 1 .. i + 1, s[p] \in T PROVE \E k \in 1 .. m + 1 : g[k] = p
      <4>1. CASE p = i + 1
        <5>1. m + 1 \in 1 .. m + 1
          BY <2>3
        <5> QED BY <3>3, <4>1, <5>1
      <4>2. CASE p # i + 1
        <5>1. p \in 1 .. i
          BY <2>1, <4>2
        <5>2. PICK k \in 1 .. m : f[k] = p
          BY <2>4, <3>8, <5>1
        <5>3. k \in 1 .. m + 1
          BY <2>3
        <5> QED BY <3>3, <5>2, <5>3
      <4> QED BY <4>1, <4>2
    <3>9. Picks(g, u, s, T, i + 1)
      BY <3>2, <3>5, <3>6, <3>7, <3>8 DEF Picks
    <3> QED BY <3>1, <3>9
  <2> QED BY <2>5, <2>6
<1>5. n \in P
  <2>1. P \in SUBSET Nat /\ \A i \in P : i + 1 \in P
    BY <1>4
  <2> HIDE DEF P
  <2> QED BY <1>1, <1>3, <2>1, Induction
<1>6. n \in 0 .. n
  BY <1>1
<1> QED BY <1>1, <1>2, <1>5, <1>6 DEF n

-----------------------------------------------------------------------------
(* Rankings *)

\* No symbol twice.
Distinct(s) == \A i, j \in 1 .. Len(s) : s[i] = s[j] => i = j

LEMMA SymbolsFinite == IsFiniteSet(Symbol) /\ \A S \in SUBSET Symbol : IsFiniteSet(S)
BY RebalanceAssumption, FS_Subset DEF RebalanceAssumption

LEMMA RankingIsDistinct ==
    ASSUME NEW s \in Rankings
    PROVE  s \in Seq(Symbol) /\ Distinct(s) /\ Len(s) \in Nat /\ DOMAIN s = 1 .. Len(s)
           /\ (\A i \in 1 .. Len(s) : s[i] \in Symbol) /\ ToSet(s) \in SUBSET Symbol
           /\ ToSet(s) = {s[i] : i \in 1 .. Len(s)}
<1>1. PICK S \in SUBSET Symbol : s \in SetToSeqs(S)
  BY DEF Rankings, SetToAllKPermutations
<1> DEFINE n == Cardinality(S)
<1>2. n \in Nat
  BY SymbolsFinite, FS_CardinalityType
<1>3. s \in [1 .. n -> S] /\ \A i, j \in 1 .. n : i # j => s[i] # s[j]
  BY <1>1 DEF SetToSeqs
<1> HIDE DEF n
<1>4. s \in Seq(Symbol) /\ Len(s) = n
  <2>1. s \in [1 .. n -> Symbol]
    BY <1>3
  <2> QED BY <1>2, <2>1
<1>5. DOMAIN s = 1 .. Len(s)
  BY <1>3, <1>4
<1> QED BY <1>2, <1>3, <1>4, <1>5 DEF Distinct, ToSet

LEMMA DistinctIsRanking ==
    ASSUME NEW s \in Seq(Symbol), Distinct(s)
    PROVE  s \in Rankings
<1> DEFINE n == Len(s)
           S == ToSet(s)
<1>1. n \in Nat /\ DOMAIN s = 1 .. n /\ s \in [1 .. n -> Symbol]
  OBVIOUS
<1>2. S = {s[i] : i \in 1 .. n} /\ S \in SUBSET Symbol
  BY <1>1 DEF ToSet
<1>3. s \in [1 .. n -> S]
  BY <1>1, <1>2
<1>4. \A i, j \in 1 .. n : i # j => s[i] # s[j]
  BY DEF Distinct
<1> HIDE DEF n, S
<1>5. Cardinality(S) = n
  <2>1. \A y \in S : \E i \in 1 .. n : s[i] = y
    BY <1>2
  <2>2. s \in Bijection(1 .. n, S)
    BY <1>3, <1>4, <2>1 DEF Bijection, Injection, Surjection, IsInjective
  <2>3. ExistsBijection(1 .. n, S)
    BY <2>2 DEF ExistsBijection
  <2> QED BY <1>1, <2>3, FS_CountingElements
<1>6. s \in SetToSeqs(S)
  BY <1>3, <1>4, <1>5 DEF SetToSeqs
<1> QED BY <1>2, <1>6 DEF Rankings, SetToAllKPermutations

\* The first n of a ranking.
LEMMA FirstOf ==
    ASSUME NEW s \in Rankings, NEW n \in Nat
    PROVE  LET t == First(s, n)
           IN /\ t \in Rankings /\ Len(t) <= n
              /\ Len(t) = IF n < Len(s) THEN n ELSE Len(s)
              /\ \A i \in 1 .. Len(t) : i \in 1 .. Len(s) /\ t[i] = s[i]
              /\ ToSet(t) \subseteq ToSet(s)
              /\ Len(s) <= n => t = s
<1> DEFINE t == First(s, n)
           m == IF n < Len(s) THEN n ELSE Len(s)
<1>1. s \in Seq(Symbol) /\ Len(s) \in Nat /\ Distinct(s)
  BY RankingIsDistinct
<1>2. m \in Nat /\ m <= Len(s) /\ m <= n /\ t = SubSeq(s, 1, m)
  BY <1>1 DEF First
<1>3. /\ t \in Seq(Symbol) /\ Len(t) = m
      /\ \A i \in 1 .. m : t[i] = s[i]
  <2> HIDE DEF m, t
  <2>1. t \in Seq(Symbol)
    BY <1>1, <1>2
  <2> QED BY <1>1, <1>2, <2>1
<1>4. \A i \in 1 .. m : i \in 1 .. Len(s)
  BY <1>1, <1>2
<1>5. Len(s) <= n => m = Len(s)
  BY <1>1
<1>6. Len(t) = IF n < Len(s) THEN n ELSE Len(s)
  BY <1>3
<1> HIDE DEF t, m
<1>7. Distinct(t)
  BY <1>1, <1>3, <1>4 DEF Distinct
<1>8. t \in Rankings
  BY <1>3, <1>7, DistinctIsRanking
<1>9. ToSet(t) \subseteq ToSet(s)
  BY <1>3, <1>4, <1>8, RankingIsDistinct
<1>10. Len(s) <= n => t = s
  <2> SUFFICES ASSUME Len(s) <= n PROVE t = s
    OBVIOUS
  <2>1. Len(t) = Len(s) /\ \A i \in 1 .. Len(s) : t[i] = s[i]
    BY <1>3, <1>5
  <2> QED BY <1>1, <1>3, <2>1
<1> QED BY <1>2, <1>3, <1>4, <1>6, <1>8, <1>9, <1>10 DEF t

\* What is picked of a ranking is a ranking, in the same order.
LEMMA OnlyOf ==
    ASSUME NEW s \in Rankings, NEW T
    PROVE  LET t == Only(s, T)
           IN /\ t \in Rankings /\ Len(t) <= Len(s)
              /\ ToSet(t) = ToSet(s) \cap T
              /\ \A i, j \in 1 .. Len(t) : \A p, q \in 1 .. Len(s) :
                   t[i] = s[p] /\ t[j] = s[q] /\ i < j => p < q
<1> DEFINE t == Only(s, T)
<1>1. s \in Seq(Symbol) /\ Len(s) \in Nat /\ Distinct(s) /\ ToSet(s) = {s[i] : i \in 1 .. Len(s)}
  BY RankingIsDistinct
<1>2. t \in Seq(Symbol) /\ \E f : Picks(f, t, s, T, Len(s))
  BY <1>1, OnlyPicks
<1>3. PICK f : Picks(f, t, s, T, Len(s))
  BY <1>2
<1> HIDE DEF t
<1>4. /\ \A k \in 1 .. Len(t) : f[k] \in 1 .. Len(s) /\ t[k] = s[f[k]] /\ t[k] \in T
      /\ \A j, k \in 1 .. Len(t) : j < k => f[j] < f[k]
      /\ \A p \in 1 .. Len(s) : s[p] \in T => \E k \in 1 .. Len(t) : f[k] = p
      /\ f \in [1 .. Len(t) -> 1 .. Len(s)]
  BY <1>3 DEF Picks
<1>5. Len(t) \in Nat
  BY <1>2
<1>6. \A i, j \in 1 .. Len(t) : f[i] = f[j] => i = j
  <2> SUFFICES ASSUME NEW i \in 1 .. Len(t), NEW j \in 1 .. Len(t), i # j PROVE f[i] # f[j]
    OBVIOUS
  <2>1. f[i] \in Nat /\ f[j] \in Nat
    BY <1>4
  <2>2. CASE i < j
    BY <1>4, <2>1, <2>2
  <2>3. CASE j < i
    BY <1>4, <2>1, <2>3
  <2>4. i < j \/ j < i
    OBVIOUS
  <2> QED BY <2>2, <2>3, <2>4
<1>7. Distinct(t)
  BY <1>1, <1>4, <1>6 DEF Distinct
<1>8. t \in Rankings
  BY <1>2, <1>7, DistinctIsRanking
<1>9. ToSet(t) = {t[i] : i \in 1 .. Len(t)}
  BY <1>8, RankingIsDistinct
<1>10. ToSet(t) = ToSet(s) \cap T
  <2>1. \A x \in ToSet(t) : x \in ToSet(s) /\ x \in T
    BY <1>1, <1>4, <1>9
  <2>2. ASSUME NEW x \in ToSet(s), x \in T PROVE x \in ToSet(t)
    <3>1. PICK p \in 1 .. Len(s) : x = s[p]
      BY <1>1
    <3>2. PICK k \in 1 .. Len(t) : f[k] = p
      BY <1>4, <2>2, <3>1
    <3>3. t[k] = x
      BY <1>4, <3>1, <3>2
    <3> QED BY <1>9, <3>3
  <2> QED BY <2>1, <2>2
<1>11. Len(t) <= Len(s)
  <2>1. f \in Injection(1 .. Len(t), 1 .. Len(s))
    BY <1>4, <1>6 DEF Injection, IsInjective
  <2>2. /\ IsFiniteSet(1 .. Len(s)) /\ Cardinality(1 .. Len(s)) = Len(s)
        /\ Cardinality(1 .. Len(t)) = Len(t)
    <3>1. \A n \in Nat : 1 \in Int /\ n \in Int /\ (IF 1 > n THEN 0 ELSE n - 1 + 1) = n
      OBVIOUS
    <3> QED BY <1>1, <1>5, <3>1, FS_Interval
  <2> QED BY <2>1, <2>2, FS_Injection
<1>12. ASSUME NEW i \in 1 .. Len(t), NEW j \in 1 .. Len(t), NEW p \in 1 .. Len(s),
              NEW q \in 1 .. Len(s), t[i] = s[p], t[j] = s[q], i < j
       PROVE  p < q
  <2>1. \A x, y \in 1 .. Len(s) : s[x] = s[y] => x = y
    BY <1>1 DEF Distinct
  <2>2. f[i] \in 1 .. Len(s) /\ s[f[i]] = s[p] /\ f[j] \in 1 .. Len(s) /\ s[f[j]] = s[q]
    BY <1>4, <1>12
  <2>3. f[i] = p
    BY <2>1, <2>2
  <2>4. f[j] = q
    BY <2>1, <2>2
  <2> QED BY <1>4, <1>12, <2>3, <2>4
<1> QED BY <1>8, <1>10, <1>11, <1>12 DEF t

\* The rank of a symbol is its place counted from the end; of one that is not ranked, 0.
LEMMA RankOf ==
    ASSUME NEW cross \in Rankings
    PROVE  /\ \A i \in 1 .. Len(cross) : Rank(cross, cross[i]) = Len(cross) + 1 - i
           /\ \A s : s \notin ToSet(cross) => Rank(cross, s) = 0
           /\ \A s : Rank(cross, s) \in Nat
<1>1. /\ Len(cross) \in Nat /\ Distinct(cross)
      /\ ToSet(cross) = {cross[i] : i \in 1 .. Len(cross)}
  BY RankingIsDistinct
<1>2. ASSUME NEW i \in 1 .. Len(cross) PROVE Rank(cross, cross[i]) = Len(cross) + 1 - i
  <2> DEFINE I == {k \in 1 .. Len(cross) : cross[k] = cross[i]}
  <2>1. I = {i}
    BY <1>1 DEF Distinct
  <2>2. Min(I) = i
    <3>1. i \in I /\ (\A y \in I : i <= y) /\ \A x \in I : x = i
      BY <1>1, <2>1
    <3> HIDE DEF I
    <3> QED BY <3>1 DEF Min
  <2>3. SelectInSeq(cross, LAMBDA x : x = cross[i]) = i
    BY <2>1, <2>2 DEF SelectInSeq
  <2>4. cross[i] \in ToSet(cross)
    BY <1>1
  <2> QED BY <2>3, <2>4 DEF Rank
<1>3. \A s : s \notin ToSet(cross) => Rank(cross, s) = 0
  BY DEF Rank
<1>4. ASSUME NEW s PROVE Rank(cross, s) \in Nat
  <2>1. CASE s \in ToSet(cross)
    <3>1. PICK i \in 1 .. Len(cross) : s = cross[i]
      BY <1>1, <2>1
    <3> QED BY <1>1, <1>2, <3>1
  <2>2. CASE s \notin ToSet(cross)
    BY <1>3, <2>2
  <2> QED BY <2>1, <2>2
<1> QED BY <1>2, <1>3, <1>4

-----------------------------------------------------------------------------
(* The buffer *)

LoopState == [left : SUBSET Symbol, final : Seq(Symbol)]

RetainedRuns(F, cross, cands, held) ==
    /\ F \in [0 .. Len(held) -> LoopState]
    /\ F[0] = [left |-> ToSet(cands), final |-> <<>>]
    /\ \A i \in 1 .. Len(held) :
         F[i] = [left |-> F[i - 1].left \ {held[i]},
                 final |-> IF Keeps(cross, F[i - 1].left, held[i])
                           THEN Append(F[i - 1].final, held[i]) ELSE F[i - 1].final]
    /\ Retained(cross, cands, held) = F[Len(held)].final

LEMMA RetainedLoop ==
    ASSUME NEW cross \in Rankings, NEW cands \in Rankings, NEW held \in Rankings
    PROVE  \E F : RetainedRuns(F, cross, cands, held)
<1> DEFINE n == Len(held)
           base == [left |-> ToSet(cands), final |-> <<>>]
           Turn(i, v) == [left |-> v.left \ {held[i]},
                          final |-> IF Keeps(cross, v.left, held[i])
                                    THEN Append(v.final, held[i]) ELSE v.final]
           G == [i \in 1 .. n |-> [v \in LoopState |-> Turn(i, v)]]
           Body(H) == [i \in 0 .. Len(held) |->
                         IF i = 0 THEN base
                         ELSE [left |-> H[i - 1].left \ {held[i]},
                               final |-> IF Keeps(cross, H[i - 1].left, held[i])
                                         THEN Append(H[i - 1].final, held[i])
                                         ELSE H[i - 1].final]]
<1>1. n \in Nat /\ \A i \in 1 .. n : held[i] \in Symbol
  BY RankingIsDistinct
<1>2. base \in LoopState
  BY RankingIsDistinct DEF LoopState
<1>3. ASSUME NEW i \in 1 .. n, NEW v \in LoopState PROVE Turn(i, v) \in LoopState
  <2>1. v.left \in SUBSET Symbol /\ v.final \in Seq(Symbol) /\ held[i] \in Symbol
    BY <1>1 DEF LoopState
  <2>2. Append(v.final, held[i]) \in Seq(Symbol)
    BY <2>1
  <2> QED BY <2>1, <2>2 DEF LoopState
<1> HIDE DEF Turn
<1>4. G \in [1 .. n -> [LoopState -> LoopState]]
  BY <1>3
<1>5. PICK F : Runs(F, LoopState, base, G, n)
  <2> HIDE DEF G, n, base
  <2> QED BY <1>1, <1>2, <1>4, Iteration
<1>6. /\ F \in [0 .. n -> LoopState] /\ F[0] = base
      /\ \A i \in 1 .. n : F[i] = G[i][F[i - 1]]
  BY <1>5 DEF Runs
<1>7. \A i \in 1 .. n : F[i] = Turn(i, F[i - 1])
  <2>1. \A i \in 1 .. n : i - 1 \in 0 .. n
    BY <1>1
  <2> HIDE DEF n
  <2>2. \A i \in 1 .. n : F[i - 1] \in LoopState
    BY <1>6, <2>1
  <2> QED BY <1>6, <2>2
<1>8. F = Body(F)
  <2>1. \A i \in 0 .. n : i = 0 \/ i \in 1 .. n
    BY <1>1
  <2>2. \A i \in 0 .. n : F[i] = Body(F)[i]
    <3> HIDE DEF base
    <3> QED BY <1>6, <1>7, <2>1 DEF Turn
  <2> HIDE DEF base
  <2> QED BY <1>6, <2>2
<1> DEFINE E == CHOOSE H : H = Body(H)
<1>9. E = Body(E)
  <2> HIDE DEF base
  <2> QED BY <1>8
<1>10. Retained(cross, cands, held) = E[n].final
  BY DEF Retained
<1> HIDE DEF E, base
<1>11. E[0] = base /\ \A i \in 1 .. n : E[i] = Turn(i, E[i - 1])
  <2>1. 0 \in 0 .. n /\ \A i \in 1 .. n : i \in 0 .. n /\ i # 0
    BY <1>1
  <2>2. \A i \in 0 .. n : E[i] = IF i = 0 THEN base ELSE Turn(i, E[i - 1])
    BY <1>9 DEF Turn
  <2> HIDE DEF n
  <2> QED BY <2>1, <2>2
<1>12. \A i \in 0 .. n : E[i] = F[i]
  <2> DEFINE P == {i \in Nat : i <= n => E[i] = F[i]}
  <2>1. 0 \in P
    BY <1>6, <1>11
  <2>2. ASSUME NEW i \in P PROVE i + 1 \in P
    <3> SUFFICES ASSUME i + 1 <= n PROVE E[i + 1] = F[i + 1]
      OBVIOUS
    <3>1. i + 1 \in 1 .. n /\ (i + 1) - 1 = i /\ i <= n
      BY <1>1
    <3> QED BY <1>7, <1>11, <3>1
  <2> HIDE DEF n
  <2>3. \A i \in Nat : i \in P
    <3>1. P \in SUBSET Nat /\ \A i \in P : i + 1 \in P
      BY <2>2
    <3> HIDE DEF P
    <3> QED BY <2>1, <3>1, Induction
  <2> QED BY <1>1, <2>3
<1>13. Retained(cross, cands, held) = F[n].final
  BY <1>1, <1>10, <1>12
<1> QED BY <1>6, <1>7, <1>13 DEF RetainedRuns, Turn, base

\* The candidates that are left when the loop comes to a holding.
LeftAt(cands, held, i) == ToSet(cands) \ {held[j] : j \in 1 .. i - 1}

LEMMA RetainedOf ==
    ASSUME NEW cross \in Rankings, NEW cands \in Rankings, NEW held \in Rankings
    PROVE  LET kept == Retained(cross, cands, held)
           IN /\ kept \in Rankings /\ Len(kept) <= Len(held)
              /\ ToSet(kept) \subseteq ToSet(held)
              /\ \A i \in 1 .. Len(held) :
                   Keeps(cross, LeftAt(cands, held, i), held[i]) => held[i] \in ToSet(kept)
<1> DEFINE n == Len(held)
<1>1. /\ n \in Nat /\ Distinct(held) /\ \A i \in 1 .. n : held[i] \in Symbol
      /\ ToSet(held) = {held[i] : i \in 1 .. n}
  BY RankingIsDistinct
<1>2. PICK F : RetainedRuns(F, cross, cands, held)
  BY RetainedLoop
<1>3. /\ F \in [0 .. n -> LoopState]
      /\ F[0].left = ToSet(cands) /\ F[0].final = <<>>
      /\ \A i \in 1 .. n :
           /\ F[i].left = F[i - 1].left \ {held[i]}
           /\ F[i].final = IF Keeps(cross, F[i - 1].left, held[i])
                           THEN Append(F[i - 1].final, held[i]) ELSE F[i - 1].final
      /\ Retained(cross, cands, held) = F[n].final
  <2>1. \A i \in 1 .. n : F[i] = [left |-> F[i - 1].left \ {held[i]},
                                 final |-> IF Keeps(cross, F[i - 1].left, held[i])
                                           THEN Append(F[i - 1].final, held[i])
                                           ELSE F[i - 1].final]
    BY <1>2 DEF RetainedRuns
  <2>2. /\ F \in [0 .. n -> LoopState] /\ F[0] = [left |-> ToSet(cands), final |-> <<>>]
        /\ Retained(cross, cands, held) = F[n].final
    BY <1>2 DEF RetainedRuns
  <2> HIDE DEF n
  <2>3. F[0].left = ToSet(cands) /\ F[0].final = <<>>
    BY <2>2
  <2>4. ASSUME NEW i \in 1 .. n
        PROVE  /\ F[i].left = F[i - 1].left \ {held[i]}
               /\ F[i].final = IF Keeps(cross, F[i - 1].left, held[i])
                               THEN Append(F[i - 1].final, held[i]) ELSE F[i - 1].final
    <3> DEFINE left == F[i - 1].left \ {held[i]}
               final == IF Keeps(cross, F[i - 1].left, held[i])
                        THEN Append(F[i - 1].final, held[i]) ELSE F[i - 1].final
    <3>1. F[i] = [left |-> left, final |-> final]
      BY <2>1
    <3> HIDE DEF left, final
    <3>2. F[i].left = left /\ F[i].final = final
      BY <3>1
    <3> QED BY <3>2 DEF left, final
  <2> QED BY <2>2, <2>3, <2>4
<1> DEFINE Kept(i) == /\ F[i].left = LeftAt(cands, held, i + 1)
                      /\ F[i].final \in Seq(Symbol) /\ Len(F[i].final) <= i
                      /\ Distinct(F[i].final)
                      /\ \A k \in 1 .. Len(F[i].final) : \E j \in 1 .. i : F[i].final[k] = held[j]
                      /\ \A j \in 1 .. i : Keeps(cross, LeftAt(cands, held, j), held[j]) =>
                            \E k \in 1 .. Len(F[i].final) : F[i].final[k] = held[j]
           P == {i \in Nat : i <= n => Kept(i)}
<1> HIDE DEF n
<1>4. 0 \in P
  <2>1. Len(F[0].final) = 0 /\ F[0].final \in Seq(Symbol)
    BY <1>3
  <2>2. LeftAt(cands, held, 1) = ToSet(cands)
    BY DEF LeftAt
  <2>3. Distinct(F[0].final)
    BY <2>1 DEF Distinct
  <2>4. Kept(0)
    <3>1. 0 + 1 = 1 /\ 1 .. 0 = {} /\ 0 <= 0
      OBVIOUS
    <3> QED BY <1>3, <2>1, <2>2, <2>3, <3>1
  <2> HIDE DEF Kept
  <2> QED BY <2>4
<1>5. ASSUME NEW i \in Nat, Kept(i), i + 1 <= n PROVE Kept(i + 1)
  <2>1. i + 1 \in 1 .. n /\ (i + 1) - 1 = i /\ i \in 0 .. n
    BY <1>1, <1>5
  <2> DEFINE s == F[i].final
             m == Len(s)
             h == held[i + 1]
             u == F[i + 1].final
  <2>2. /\ F[i].left = LeftAt(cands, held, i + 1)
        /\ s \in Seq(Symbol) /\ m <= i /\ Distinct(s) /\ m \in Nat
        /\ \A k \in 1 .. m : \E j \in 1 .. i : s[k] = held[j]
        /\ \A j \in 1 .. i : Keeps(cross, LeftAt(cands, held, j), held[j]) =>
                \E k \in 1 .. m : s[k] = held[j]
    BY <1>5
  <2>3. /\ F[i + 1].left = F[i].left \ {h}
        /\ u = IF Keeps(cross, LeftAt(cands, held, i + 1), h) THEN Append(s, h) ELSE s
    BY <1>3, <2>1, <2>2
  <2>4. F[i + 1].left = LeftAt(cands, held, i + 2)
    <3> DEFINE before == {held[j] : j \in 1 .. (i + 1) - 1}
               upto == {held[j] : j \in 1 .. (i + 2) - 1}
    <3>1. \A j : j \in 1 .. (i + 2) - 1 <=> j \in 1 .. (i + 1) - 1 \/ j = i + 1
      OBVIOUS
    <3>2. upto = before \cup {h}
      BY <3>1
    <3>3. F[i].left = ToSet(cands) \ before
      BY <2>2 DEF LeftAt
    <3>4. LeftAt(cands, held, i + 2) = ToSet(cands) \ upto
      BY DEF LeftAt
    <3> HIDE DEF before, upto, h
    <3> QED BY <2>3, <3>2, <3>3, <3>4
  <2>5. h \in Symbol /\ \A j \in 1 .. i : held[j] # h
    <3>1. \A j \in 1 .. i : j \in 1 .. n /\ j # i + 1
      BY <1>1, <2>1
    <3> QED BY <1>1, <2>1, <3>1 DEF Distinct, n
  <2>6. (i + 1) + 1 = i + 2 /\ \A j \in 1 .. i : j \in 1 .. i + 1
    BY <2>1
  <2>7. \A j \in 1 .. i + 1 : j = i + 1 \/ j \in 1 .. i
    BY <2>1
  <2> HIDE DEF s, m, h, u, Kept
  <2>8. CASE ~Keeps(cross, LeftAt(cands, held, i + 1), h)
    <3>1. u = s
      BY <2>3, <2>8
    <3>2. Len(u) = m /\ m <= i + 1
      BY <2>1, <2>2, <3>1 DEF m
    <3>3. \A j \in 1 .. i + 1 : Keeps(cross, LeftAt(cands, held, j), held[j]) =>
                \E k \in 1 .. m : s[k] = held[j]
      BY <2>2, <2>7, <2>8 DEF h
    <3> QED BY <2>2, <2>4, <2>6, <3>1, <3>2, <3>3 DEF Kept, u
  <2>9. CASE Keeps(cross, LeftAt(cands, held, i + 1), h)
    <3>1. u = Append(s, h)
      BY <2>3, <2>9
    <3>2. /\ u \in Seq(Symbol) /\ Len(u) = m + 1 /\ u[m + 1] = h
          /\ \A k \in 1 .. m : u[k] = s[k]
      BY <2>2, <2>5, <3>1 DEF m
    <3>3. \A k \in 1 .. m + 1 : k = m + 1 \/ k \in 1 .. m
      BY <2>2
    <3>4. \A k \in 1 .. m : s[k] # h
      BY <2>2, <2>5
    <3>5. Distinct(u)
      BY <2>2, <3>2, <3>3, <3>4 DEF Distinct, m
    <3>6. m + 1 \in 1 .. m + 1 /\ (\A k \in 1 .. m : k \in 1 .. m + 1) /\ m + 1 <= i + 1
          /\ i + 1 \in 1 .. i + 1
      BY <2>1, <2>2
    <3>7. \A k \in 1 .. m + 1 : \E j \in 1 .. i + 1 : u[k] = held[j]
      BY <2>2, <2>6, <3>2, <3>3, <3>6 DEF h
    <3>8. \A j \in 1 .. i + 1 : Keeps(cross, LeftAt(cands, held, j), held[j]) =>
                \E k \in 1 .. m + 1 : u[k] = held[j]
      <4>1. \E k \in 1 .. m + 1 : u[k] = held[i + 1]
        BY <3>2, <3>6 DEF h
      <4>2. ASSUME NEW j \in 1 .. i, Keeps(cross, LeftAt(cands, held, j), held[j])
            PROVE  \E k \in 1 .. m + 1 : u[k] = held[j]
        <5>1. PICK k \in 1 .. m : s[k] = held[j]
          BY <2>2, <4>2
        <5> QED BY <3>2, <3>6, <5>1
      <4> QED BY <2>7, <4>1, <4>2
    <3> QED BY <2>4, <2>6, <3>2, <3>5, <3>6, <3>7, <3>8 DEF Kept, u
  <2> QED BY <2>8, <2>9
<1> HIDE DEF Kept
<1>6. Kept(n)
  <2>1. P \in SUBSET Nat
    OBVIOUS
  <2>2. \A i \in P : i + 1 \in P
    <3> SUFFICES ASSUME NEW i \in Nat, i <= n => Kept(i), i + 1 <= n PROVE Kept(i + 1)
      OBVIOUS
    <3>1. i <= n
      BY <1>1
    <3> QED BY <1>5, <3>1
  <2>3. n \in P
    <3> HIDE DEF P
    <3> QED BY <1>1, <1>4, <2>1, <2>2, Induction
  <2> QED BY <1>1, <2>3
<1> DEFINE kept == F[n].final
<1>7. /\ kept \in Seq(Symbol) /\ Len(kept) <= n /\ Distinct(kept)
      /\ \A k \in 1 .. Len(kept) : \E j \in 1 .. n : kept[k] = held[j]
      /\ \A j \in 1 .. n : Keeps(cross, LeftAt(cands, held, j), held[j]) =>
            \E k \in 1 .. Len(kept) : kept[k] = held[j]
  BY <1>6 DEF Kept
<1> HIDE DEF kept
<1>8. kept \in Rankings
  BY <1>7, DistinctIsRanking
<1>9. ToSet(kept) = {kept[k] : k \in 1 .. Len(kept)}
  BY <1>8, RankingIsDistinct
<1>10. ToSet(kept) \subseteq ToSet(held)
  BY <1>1, <1>7, <1>9
<1>11. \A j \in 1 .. n : Keeps(cross, LeftAt(cands, held, j), held[j]) => held[j] \in ToSet(kept)
  BY <1>7, <1>9
<1> QED BY <1>3, <1>7, <1>8, <1>10, <1>11 DEF kept, n

\* The kept holdings, then the candidates that are not among them.
LEMMA BufferedOf ==
    ASSUME NEW cross \in Rankings, NEW cands \in Rankings, NEW held \in Rankings
    PROVE  LET kept == Retained(cross, cands, held)
               rest == Without(cands, ToSet(kept))
               b    == Buffered(cross, cands, held)
           IN /\ rest \in Rankings /\ ToSet(rest) = ToSet(cands) \ ToSet(kept)
              /\ b \in Rankings /\ Len(b) = Len(kept) + Len(rest)
              /\ \A i \in 1 .. Len(kept) : b[i] = kept[i]
              /\ \A i \in 1 .. Len(rest) : b[Len(kept) + i] = rest[i]
              /\ ToSet(b) = ToSet(kept) \cup ToSet(cands)
<1> DEFINE kept == Retained(cross, cands, held)
           rest == Without(cands, ToSet(kept))
           b == kept \o rest
           n == Len(kept)
           m == Len(rest)
<1>1. b = Buffered(cross, cands, held)
  BY DEF Buffered
<1>2. kept \in Rankings
  BY RetainedOf
<1>3. rest \in Rankings /\ ToSet(rest) = ToSet(cands) \ ToSet(kept)
  BY OnlyOf DEF Without
<1> HIDE DEF kept, rest
<1>4. /\ kept \in Seq(Symbol) /\ n \in Nat /\ Distinct(kept)
      /\ ToSet(kept) = {kept[i] : i \in 1 .. n}
  BY <1>2, RankingIsDistinct
<1>5. /\ rest \in Seq(Symbol) /\ m \in Nat /\ Distinct(rest)
      /\ ToSet(rest) = {rest[i] : i \in 1 .. m}
  BY <1>3, RankingIsDistinct
<1>6. /\ b \in Seq(Symbol) /\ Len(b) = n + m
      /\ \A i \in 1 .. n : b[i] = kept[i]
      /\ \A i \in 1 .. m : b[n + i] = rest[i]
  BY <1>4, <1>5
<1> HIDE DEF b, n, m
<1>7. \A i \in 1 .. n + m : i \in 1 .. n \/ (i - n \in 1 .. m /\ n + (i - n) = i)
  BY <1>4, <1>5
<1>8. /\ \A i \in 1 .. n : i \in 1 .. n + m
      /\ \A i \in 1 .. m : n + i \in 1 .. n + m
  BY <1>4, <1>5
<1>9. \A i \in 1 .. n, j \in 1 .. m : kept[i] # rest[j]
  BY <1>3, <1>4, <1>5
<1>10. ASSUME NEW i \in 1 .. n + m, NEW j \in 1 .. n + m, b[i] = b[j] PROVE i = j
  <2>1. CASE i \in 1 .. n /\ j \in 1 .. n
    BY <1>4, <1>6, <1>10, <2>1 DEF Distinct, n
  <2>2. CASE i \in 1 .. n /\ j - n \in 1 .. m /\ n + (j - n) = j
    <3>1. b[j] = rest[j - n] /\ b[i] = kept[i]
      BY <1>6, <2>2
    <3> QED BY <1>9, <1>10, <2>2, <3>1
  <2>3. CASE j \in 1 .. n /\ i - n \in 1 .. m /\ n + (i - n) = i
    <3>1. b[i] = rest[i - n] /\ b[j] = kept[j]
      BY <1>6, <2>3
    <3> QED BY <1>9, <1>10, <2>3, <3>1
  <2>4. CASE i - n \in 1 .. m /\ n + (i - n) = i /\ j - n \in 1 .. m /\ n + (j - n) = j
    <3>1. b[i] = rest[i - n] /\ b[j] = rest[j - n]
      BY <1>6, <2>4
    <3>2. i - n = j - n
      BY <1>5, <1>10, <2>4, <3>1 DEF Distinct, m
    <3> QED BY <1>4, <3>2
  <2> QED BY <1>7, <2>1, <2>2, <2>3, <2>4
<1>11. Distinct(b)
  BY <1>6, <1>10 DEF Distinct
<1>12. b \in Rankings
  BY <1>6, <1>11, DistinctIsRanking
<1>13. ToSet(b) = {b[i] : i \in 1 .. n + m}
  BY <1>6, <1>12, RankingIsDistinct
<1>14. ToSet(b) = ToSet(kept) \cup ToSet(rest)
  <2>1. \A x \in ToSet(b) : x \in ToSet(kept) \cup ToSet(rest)
    <3> SUFFICES ASSUME NEW i \in 1 .. n + m PROVE b[i] \in ToSet(kept) \cup ToSet(rest)
      BY <1>13
    <3>1. CASE i \in 1 .. n
      BY <1>4, <1>6, <3>1
    <3>2. CASE i - n \in 1 .. m /\ n + (i - n) = i
      <4>1. b[i] = rest[i - n]
        BY <1>6, <3>2
      <4> QED BY <1>5, <3>2, <4>1
    <3> QED BY <1>7, <3>1, <3>2
  <2>2. \A x \in ToSet(kept) : x \in ToSet(b)
    BY <1>4, <1>6, <1>8, <1>13
  <2>3. \A x \in ToSet(rest) : x \in ToSet(b)
    <3> SUFFICES ASSUME NEW i \in 1 .. m PROVE rest[i] \in ToSet(b)
      BY <1>5
    <3>1. b[n + i] = rest[i] /\ n + i \in 1 .. n + m
      BY <1>6, <1>8
    <3> QED BY <1>13, <3>1
  <2> QED BY <2>1, <2>2, <2>3
<1>15. ToSet(b) = ToSet(kept) \cup ToSet(cands)
  BY <1>3, <1>14
<1> QED BY <1>1, <1>3, <1>6, <1>12, <1>15 DEF kept, rest, n, m

-----------------------------------------------------------------------------
(* The selection *)

\* What the gate lets through.
LEMMA EligibleOf ==
    ASSUME NEW cross \in Rankings, NEW mask
    PROVE  LET elig == Eligible(cross, mask)
           IN /\ elig \in Rankings
              /\ ToSet(elig) = {s \in ToSet(cross) : mask = {} \/ s \in mask}
              /\ \A i, j \in 1 .. Len(elig) : i < j => Rank(cross, elig[j]) < Rank(cross, elig[i])
<1> DEFINE elig == Eligible(cross, mask)
<1>1. /\ Len(cross) \in Nat /\ ToSet(cross) = {cross[i] : i \in 1 .. Len(cross)}
      /\ \A i \in 1 .. Len(cross) : Rank(cross, cross[i]) = Len(cross) + 1 - i
  BY RankingIsDistinct, RankOf
<1>2. \A p, q \in 1 .. Len(cross) : p < q => Rank(cross, cross[q]) < Rank(cross, cross[p])
  BY <1>1
<1>3. CASE mask = {}
  BY <1>2, <1>3 DEF Eligible
<1>4. CASE mask # {}
  <2>1. elig = Only(cross, mask)
    BY <1>4 DEF Eligible
  <2>2. /\ elig \in Rankings
        /\ ToSet(elig) = ToSet(cross) \cap mask
        /\ \A i, j \in 1 .. Len(elig) : \A p, q \in 1 .. Len(cross) :
             elig[i] = cross[p] /\ elig[j] = cross[q] /\ i < j => p < q
    BY <2>1, OnlyOf
  <2> HIDE DEF elig
  <2>3. ToSet(elig) = {elig[i] : i \in 1 .. Len(elig)}
    BY <2>2, RankingIsDistinct
  <2>4. ASSUME NEW i \in 1 .. Len(elig), NEW j \in 1 .. Len(elig), i < j
        PROVE  Rank(cross, elig[j]) < Rank(cross, elig[i])
    <3>1. PICK p \in 1 .. Len(cross) : elig[i] = cross[p]
      BY <1>1, <2>2, <2>3
    <3>2. PICK q \in 1 .. Len(cross) : elig[j] = cross[q]
      BY <1>1, <2>2, <2>3
    <3>3. p < q
      BY <2>2, <2>4, <3>1, <3>2
    <3> QED BY <1>2, <3>1, <3>2, <3>3
  <2> QED BY <1>4, <2>2, <2>4 DEF elig
<1> QED BY <1>3, <1>4

LEMMA CandidatesOf ==
    ASSUME NEW cross \in Rankings, NEW mask
    PROVE  Candidates(cross, mask) \in Rankings
BY EligibleOf, FirstOf, RebalanceAssumption DEF Candidates, RebalanceAssumption

LEMMA EmptyRanking ==
    ASSUME NEW s \in Rankings, ToSet(s) = {}
    PROVE  s = <<>> /\ Len(s) = 0
<1>1. s \in Seq(Symbol) /\ Len(s) \in Nat /\ \A i \in 1 .. Len(s) : s[i] \in ToSet(s)
  BY RankingIsDistinct
<1>2. Len(s) = 0
  <2> SUFFICES ASSUME Len(s) # 0 PROVE FALSE
    OBVIOUS
  <2>1. 1 \in 1 .. Len(s)
    BY <1>1
  <2> QED BY <1>1, <2>1
<1> QED BY <1>1, <1>2

\* What is selected is the buffered list, cut at the maximum: the buffered list has every
\* candidate, so the two fills of select() below its minimum never add a stock.
THEOREM SelectOf ==
    ASSUME NEW cross \in Rankings, NEW mask, NEW held \in Rankings
    PROVE  Select(cross, mask, held)
             = First(Buffered(cross, Candidates(cross, mask), held), MaxHoldings)
<1> DEFINE cands == Candidates(cross, mask)
           b == Buffered(cross, cands, held)
           bounded == First(b, MaxHoldings)
           fill == First(Without(cands, ToSet(bounded)), MinHoldings - Len(bounded))
           short == Len(bounded) < MinHoldings /\ Len(cands) >= MinHoldings
           filled == IF short THEN bounded \o fill ELSE bounded
<1>1. MaxHoldings \in Nat /\ MinHoldings \in Nat /\ MinHoldings # 0 /\ MinHoldings <= MaxHoldings
  BY RebalanceAssumption DEF RebalanceAssumption
<1>2. cands \in Rankings
  BY CandidatesOf
<1>3. b \in Rankings /\ ToSet(cands) \subseteq ToSet(b)
  BY <1>2, BufferedOf
<1>4. /\ bounded \in Rankings /\ Len(bounded) = (IF MaxHoldings < Len(b) THEN MaxHoldings ELSE Len(b))
      /\ (Len(b) <= MaxHoldings => bounded = b)
  BY <1>1, <1>3, FirstOf
<1>5. Len(b) \in Nat /\ Len(bounded) \in Nat /\ bounded \in Seq(Symbol)
  BY <1>3, <1>4, RankingIsDistinct
<1>6. Select(cross, mask, held) = IF filled = <<>> THEN First(cands, 1) ELSE filled
  BY DEF Select
<1> HIDE DEF cands, b, bounded
<1>7. Len(bounded) < MinHoldings => bounded = b
  BY <1>1, <1>4, <1>5
<1>8. filled = bounded
  <2>1. CASE short
    <3>1. MinHoldings - Len(bounded) \in Nat /\ 0 <= MinHoldings - Len(bounded)
      BY <1>1, <1>5, <2>1
    <3>2. /\ Without(cands, ToSet(bounded)) \in Rankings
          /\ ToSet(Without(cands, ToSet(bounded))) = {}
      BY <1>2, <1>3, <1>7, <2>1, OnlyOf DEF Without
    <3>3. Without(cands, ToSet(bounded)) = <<>> /\ Len(Without(cands, ToSet(bounded))) = 0
      BY <3>2, EmptyRanking
    <3>4. fill = <<>>
      BY <3>1, <3>2, <3>3, FirstOf
    <3> HIDE DEF fill
    <3>5. bounded \o fill = bounded
      BY <1>5, <3>4
    <3> QED BY <2>1, <3>5
  <2>2. CASE ~short
    BY <2>2
  <2> QED BY <2>1, <2>2
<1> HIDE DEF filled
<1>9. CASE filled = <<>>
  <2>1. bounded = b /\ b = <<>>
    BY <1>1, <1>5, <1>7, <1>8, <1>9
  <2>2. ToSet(b) = {}
    BY <2>1 DEF ToSet
  <2>3. cands = <<>> /\ Len(cands) = 0
    BY <1>2, <1>3, <2>2, EmptyRanking
  <2>4. First(cands, 1) = cands
    BY <1>2, <2>3, FirstOf
  <2> QED BY <1>6, <1>9, <2>1, <2>3, <2>4 DEF b, cands, bounded
<1>10. CASE filled # <<>>
  BY <1>6, <1>8, <1>10 DEF b, cands, bounded
<1> QED BY <1>9, <1>10

\* No more than the maximum; a kept holding is not cut off.
LEMMA SelectBounds ==
    ASSUME NEW cross \in Rankings, NEW mask, NEW held \in Rankings, Len(held) <= MaxHoldings
    PROVE  LET selected == Select(cross, mask, held)
               cands == Candidates(cross, mask)
           IN /\ selected \in Rankings /\ Len(selected) <= MaxHoldings
              /\ ToSet(selected) \subseteq ToSet(held) \cup ToSet(cands)
              /\ ToSet(Retained(cross, cands, held)) \subseteq ToSet(selected)
<1> DEFINE selected == Select(cross, mask, held)
           cands == Candidates(cross, mask)
           kept == Retained(cross, cands, held)
           b == Buffered(cross, cands, held)
<1>1. MaxHoldings \in Nat
  BY RebalanceAssumption DEF RebalanceAssumption
<1>2. cands \in Rankings
  BY CandidatesOf
<1>3. selected = First(b, MaxHoldings)
  BY SelectOf
<1>4. /\ kept \in Rankings /\ Len(kept) <= Len(held) /\ ToSet(kept) \subseteq ToSet(held)
      /\ b \in Rankings /\ ToSet(b) = ToSet(kept) \cup ToSet(cands)
      /\ \A i \in 1 .. Len(kept) : b[i] = kept[i]
      /\ Len(kept) \in Nat /\ Len(held) \in Nat /\ Len(b) \in Nat /\ Len(kept) <= Len(b)
  <2>1. /\ kept \in Rankings /\ Len(kept) <= Len(held) /\ ToSet(kept) \subseteq ToSet(held)
    BY <1>2, RetainedOf
  <2> DEFINE rest == Without(cands, ToSet(kept))
  <2>2. /\ rest \in Rankings
        /\ b \in Rankings /\ ToSet(b) = ToSet(kept) \cup ToSet(cands)
        /\ Len(b) = Len(kept) + Len(rest)
        /\ \A i \in 1 .. Len(kept) : b[i] = kept[i]
    BY <1>2, BufferedOf
  <2> HIDE DEF kept, rest, b
  <2>3. Len(kept) \in Nat /\ Len(rest) \in Nat /\ Len(held) \in Nat
    BY <2>1, <2>2, RankingIsDistinct
  <2> QED BY <2>1, <2>2, <2>3
<1> HIDE DEF selected, b, cands, kept
<1>5. /\ selected \in Rankings /\ Len(selected) <= MaxHoldings
      /\ Len(selected) = (IF MaxHoldings < Len(b) THEN MaxHoldings ELSE Len(b))
      /\ \A i \in 1 .. Len(selected) : selected[i] = b[i]
      /\ ToSet(selected) \subseteq ToSet(b)
  BY <1>1, <1>3, <1>4, FirstOf
<1>6. ToSet(selected) = {selected[i] : i \in 1 .. Len(selected)}
  BY <1>5, RankingIsDistinct
<1>7. ToSet(kept) = {kept[i] : i \in 1 .. Len(kept)}
  BY <1>4, RankingIsDistinct
<1>8. \A i \in 1 .. Len(kept) : i \in 1 .. Len(selected)
  BY <1>1, <1>4, <1>5
<1>9. ToSet(kept) \subseteq ToSet(selected)
  BY <1>4, <1>5, <1>6, <1>7, <1>8
<1> QED BY <1>4, <1>5, <1>9 DEF selected, cands, kept

LEMMA SectorCapOf ==
    ASSUME NEW cross, NEW selected \in Rankings
    PROVE  /\ SectorCap(selected, cross) \in Rankings
           /\ Len(SectorCap(selected, cross)) <= Len(selected)
           /\ \A s \in ToSet(selected) \ ToSet(SectorCap(selected, cross)) : OverSector(selected, s)
<1>1. CASE CapPct = 100
  <2>1. SectorCap(selected, cross) = selected
    BY <1>1 DEF SectorCap
  <2> QED BY <2>1, RankingIsDistinct
<1>2. CASE CapPct # 100
  <2> DEFINE Ahead(s) == {t \in ToSet(selected) :
                            /\ Sector[t] = Sector[s] /\ t # s
                            /\ ~DroppedBefore(cross, selected, t, s)}
             limit == SectorLimit(Len(selected))
             T == {s \in ToSet(selected) : Cardinality(Ahead(s)) < limit}
  <2>1. SectorCap(selected, cross) = Only(selected, T)
    BY <1>2 DEF SectorCap
  <2> HIDE DEF T
  <2>2. /\ Only(selected, T) \in Rankings /\ Len(Only(selected, T)) <= Len(selected)
        /\ ToSet(Only(selected, T)) = ToSet(selected) \cap T
    BY OnlyOf
  <2>3. Len(selected) \in Nat /\ ToSet(selected) \in SUBSET Symbol
    BY RankingIsDistinct
  <2>4. limit \in Nat
    <3>1. CapPct \in Nat
      BY RebalanceAssumption DEF RebalanceAssumption
    <3>2. \A a, c \in Nat : a * c \in Nat
      OBVIOUS
    <3>3. \A a \in Nat : a \div 100 \in Nat
      OBVIOUS
    <3> QED BY <2>3, <3>1, <3>2, <3>3 DEF SectorLimit
  <2> HIDE DEF limit
  <2>5. ASSUME NEW s \in ToSet(selected), s \notin T PROVE OverSector(selected, s)
    <3> DEFINE A == Ahead(s)
               B == {t \in ToSet(selected) : Sector[t] = Sector[s]}
    <3>1. ~(Cardinality(A) < limit)
      BY <2>5 DEF T
    <3>2. A \subseteq B /\ s \notin A /\ s \in B /\ B \in SUBSET Symbol /\ A \in SUBSET Symbol
      BY <2>3
    <3> HIDE DEF A, B
    <3>3. IsFiniteSet(A) /\ IsFiniteSet(B) /\ A \cup {s} \subseteq B
      BY <3>2, SymbolsFinite
    <3>4. Cardinality(A \cup {s}) = Cardinality(A) + 1 /\ IsFiniteSet(A \cup {s})
      BY <3>2, <3>3, FS_AddElement
    <3>5. Cardinality(A \cup {s}) <= Cardinality(B)
      BY <3>3, FS_Subset
    <3>6. Cardinality(A) \in Nat /\ Cardinality(B) \in Nat
      BY <3>3, FS_CardinalityType
    <3>7. Cardinality(B) > limit
      BY <2>4, <3>1, <3>4, <3>5, <3>6
    <3> QED BY <3>7 DEF OverSector, B, limit
  <2> QED BY <2>1, <2>2, <2>5
<1> QED BY <1>1, <1>2

LEMMA ChosenOf ==
    ASSUME NEW cross \in Rankings, NEW mask, NEW held \in Rankings, Len(held) <= MaxHoldings
    PROVE  LET chosen == Chosen(cross, mask, held)
           IN chosen \in Rankings /\ Len(chosen) <= MaxHoldings /\ ToSet(chosen) \subseteq Columns
<1> DEFINE selected == Select(cross, mask, held)
           capped == SectorCap(selected, cross)
           chosen == Only(capped, Columns)
<1>1. selected \in Rankings /\ Len(selected) <= MaxHoldings
  BY SelectBounds
<1> HIDE DEF selected
<1>2. capped \in Rankings /\ Len(capped) <= Len(selected)
  BY <1>1, SectorCapOf
<1> HIDE DEF capped
<1>3. /\ chosen \in Rankings /\ Len(chosen) <= Len(capped)
      /\ ToSet(chosen) = ToSet(capped) \cap Columns
  BY <1>2, OnlyOf
<1> HIDE DEF chosen
<1>4. /\ Len(selected) \in Nat /\ Len(capped) \in Nat /\ Len(chosen) \in Nat
      /\ MaxHoldings \in Nat
  BY <1>1, <1>2, <1>3, RankingIsDistinct, RebalanceAssumption DEF RebalanceAssumption
<1>5. Len(chosen) <= MaxHoldings
  BY <1>1, <1>2, <1>3, <1>4
<1> QED BY <1>3, <1>5 DEF chosen, capped, selected, Chosen

\* What select() is given ranks something, and the gate lets something through.
LEMMA InputsOf ==
    ASSUME NEW in \in Inputs
    PROVE  in.cross \in Rankings /\ ToSet(Eligible(in.cross, in.mask)) # {}
<1>1. PICK x \in UNION {{ranked} \X Passing(ranked) : ranked \in Rankings \ {<<>>}} :
        in = IF RsMode = "all" THEN [cross |-> Eligible(x[1], x[2]), mask |-> {}]
             ELSE [cross |-> x[1], mask |-> x[2]]
  BY DEF Inputs
<1>2. PICK ranked \in Rankings \ {<<>>} : x \in {ranked} \X Passing(ranked)
  BY <1>1
<1>3. x[1] = ranked /\ x[2] \in Passing(ranked)
  BY <1>2
<1>4. x[2] \subseteq ToSet(ranked)
  BY <1>3 DEF Passing
<1>5. ToSet(ranked) # {}
  BY <1>2, EmptyRanking
<1> DEFINE elig == Eligible(ranked, x[2])
<1>6. /\ elig \in Rankings
      /\ ToSet(elig) = {s \in ToSet(ranked) : x[2] = {} \/ s \in x[2]}
  BY <1>2, EligibleOf
<1>7. ToSet(elig) # {}
  BY <1>4, <1>5, <1>6
<1>8. CASE RsMode = "all"
  <2>1. in = [cross |-> elig, mask |-> {}]
    BY <1>1, <1>3, <1>8
  <2> HIDE DEF elig
  <2>2. in.cross = elig /\ in.mask = {}
    BY <2>1
  <2>3. Eligible(elig, {}) = elig
    BY DEF Eligible
  <2> QED BY <1>6, <1>7, <2>2, <2>3
<1>9. CASE RsMode # "all"
  <2>1. in = [cross |-> ranked, mask |-> x[2]]
    BY <1>1, <1>3, <1>9
  <2>2. in.cross = ranked /\ in.mask = x[2]
    BY <2>1
  <2> QED BY <1>2, <1>7, <2>2
<1> QED BY <1>8, <1>9

-----------------------------------------------------------------------------
(* The book, inductively *)

IInv ==
    /\ TypeOK
    /\ BookIsConsistent
    /\ mode = decided \/ skipped

LEMMA Assumed ==
    /\ Columns \subseteq Symbol /\ Periods \in Nat \ {0} /\ Every \in Nat \ {0}
    /\ MaxHoldings \in Nat /\ SafePct \in 0 .. 100 /\ Scales \subseteq 0 .. 150
    /\ BufferPct \in 0 .. 100
BY RebalanceAssumption DEF RebalanceAssumption

LEMMA NothingIsRanking == <<>> \in Rankings /\ Len(<<>>) = 0 /\ ToSet(<<>>) = {}
<1>1. <<>> \in Seq(Symbol) /\ Len(<<>>) = 0
  OBVIOUS
<1>2. Distinct(<<>>)
  BY <1>1 DEF Distinct
<1>3. <<>> \in Rankings
  <2> DEFINE empty == <<>>
  <2>1. empty \in Seq(Symbol) /\ Distinct(empty)
    BY <1>1, <1>2
  <2> HIDE DEF empty
  <2>2. empty \in Rankings
    BY <2>1, DistinctIsRanking
  <2> QED BY <2>2 DEF empty
<1>4. ToSet(<<>>) = {}
  BY DEF ToSet
<1> QED BY <1>1, <1>3, <1>4

LEMMA InitEstablishes == Init => IInv
<1> SUFFICES ASSUME Init PROVE IInv
  OBVIOUS
<1> USE DEF Init
<1>1. NoReport \in [period : 0 .. Periods, positions : Rankings, weighted : SUBSET Symbol,
                    mode : Mode]
  BY Assumed, NothingIsRanking DEF NoReport, Mode
<1>2. TypeOK
  <2>1. 1 \in 1 .. Periods + 1 /\ 0 \in 0 .. 100 /\ 0 <= MaxHoldings
    BY Assumed
  <2>2. holdings \in Rankings /\ Len(holdings) <= MaxHoldings
    BY <2>1, NothingIsRanking
  <2> QED BY <1>1, <2>1, <2>2 DEF TypeOK, Mode
<1>3. BookIsConsistent
  BY NothingIsRanking DEF BookIsConsistent, NoReport
<1> QED BY <1>2, <1>3 DEF IInv

LEMMA EquityInBounds ==
    ASSUME NEW market, NEW e \in Equities(market)
    PROVE  e \in 0 .. 100
<1>1. BaseEquity(market) \in 0 .. 100
  BY Assumed DEF BaseEquity
<1>2. \A a, c \in Nat : a * c \in Nat
  OBVIOUS
<1>3. \A a \in Nat : a \div 100 \in Nat
  OBVIOUS
<1>4. CASE HasIndex /\ holdings # <<>>
  <2>1. PICK x \in Scales : e = LET r == (BaseEquity(market) * x) \div 100
                                IN IF r < 100 THEN r ELSE 100
    BY <1>4 DEF Equities
  <2> DEFINE r == (BaseEquity(market) * x) \div 100
  <2>2. r \in Nat
    <3>1. x \in Nat /\ BaseEquity(market) \in Nat
      BY <1>1, Assumed
    <3>2. BaseEquity(market) * x \in Nat
      BY <1>2, <3>1
    <3> QED BY <1>3, <3>2
  <2>3. e = IF r < 100 THEN r ELSE 100
    BY <2>1
  <2> HIDE DEF r
  <2> QED BY <2>2, <2>3
<1>5. CASE ~(HasIndex /\ holdings # <<>>)
  BY <1>1, <1>5 DEF Equities
<1> QED BY <1>4, <1>5

LEMMA ReselectPreserves ==
    ASSUME IInv, NEW market, NEW selected \in Selections, Reselect(market, selected)
    PROVE  IInv'
<1> USE DEF IInv
<1>1. PICK in \in Inputs : selected = Chosen(in.cross, in.mask, holdings)
  BY DEF Selections
<1>2. /\ selected \in Rankings /\ Len(selected) <= MaxHoldings /\ ToSet(selected) \subseteq Columns
  BY <1>1, InputsOf, ChosenOf DEF TypeOK
<1>3. /\ status = "running" /\ period <= Periods /\ period' = period + 1
      /\ (\E e \in Equities(market) : equity' = e)
      /\ mode' = ModeOf(market) /\ decided' = ModeOf(market) /\ skipped' = FALSE
      /\ holdings' = selected /\ weighted' = ToSet(selected) /\ status' = status
      /\ curve' = curve \cup {period}
      /\ report' = [period |-> period, positions |-> selected,
                    weighted |-> ToSet(selected), mode |-> ModeOf(market)]
  BY DEF Reselect, NextPeriod, Account
<1>4. ModeOf(market) \in Mode
  BY DEF ModeOf, Mode
<1>5. equity' \in 0 .. 100
  BY <1>3, EquityInBounds
<1>6. period \in 1 .. Periods /\ period \in 0 .. Periods /\ period' \in 1 .. Periods + 1
  BY <1>3, Assumed DEF TypeOK
<1>7. report' \in [period : 0 .. Periods, positions : Rankings, weighted : SUBSET Symbol,
                   mode : Mode]
  BY <1>2, <1>3, <1>4, <1>6, Assumed
<1>8. TypeOK'
  <2>1. curve' \subseteq 1 .. Periods /\ status' \in {"running", "saved", "failed"}
        /\ skipped' \in BOOLEAN
    BY <1>3, <1>6 DEF TypeOK
  <2> QED BY <1>2, <1>3, <1>4, <1>5, <1>6, <1>7, <2>1 DEF TypeOK
<1>9. BookIsConsistent'
  BY <1>3 DEF BookIsConsistent
<1> QED BY <1>3, <1>8, <1>9

LEMMA HoldPreserves == ASSUME IInv, Hold PROVE IInv'
<1> USE DEF IInv
<1>1. /\ status = "running" /\ period <= Periods /\ period' = period + 1
      /\ UNCHANGED <<status, holdings, weighted, equity, mode, decided, skipped>>
      /\ curve' = curve \cup {period}
      /\ report' = [period |-> period, positions |-> holdings,
                    weighted |-> weighted, mode |-> mode]
  BY DEF Hold, NextPeriod, Account, book
<1>2. period \in 1 .. Periods /\ period \in 0 .. Periods /\ period' \in 1 .. Periods + 1
  BY <1>1, Assumed DEF TypeOK
<1>3. report' \in [period : 0 .. Periods, positions : Rankings, weighted : SUBSET Symbol,
                   mode : Mode]
  BY <1>1, <1>2, Assumed DEF TypeOK
<1>4. TypeOK'
  <2>1. curve' \subseteq 1 .. Periods
    BY <1>1, <1>2 DEF TypeOK
  <2> QED BY <1>1, <1>2, <1>3, <2>1 DEF TypeOK
<1>5. BookIsConsistent'
  BY <1>1 DEF BookIsConsistent
<1> QED BY <1>1, <1>4, <1>5

\* A period without a report.
LEMMA SkipPreserves ==
    ASSUME IInv, NextPeriod, UNCHANGED <<status, book, report, curve, decided>>,
           \/ UNCHANGED <<mode, skipped>>
           \/ (\E market \in Market : mode' = ModeOf(market)) /\ skipped' = TRUE
    PROVE  IInv'
<1> USE DEF IInv
<1>1. /\ UNCHANGED <<status, holdings, weighted, equity, report, curve, decided>>
      /\ period <= Periods /\ period' = period + 1
  BY DEF NextPeriod, book
<1>2. mode' \in Mode /\ skipped' \in BOOLEAN /\ (mode' = decided \/ skipped')
      /\ (skipped' \/ (mode' = mode /\ ~skipped))
  BY DEF TypeOK, ModeOf, Mode
<1>3. period' \in 1 .. Periods + 1
  BY <1>1, Assumed DEF TypeOK
<1>4. TypeOK'
  BY <1>1, <1>2, <1>3 DEF TypeOK
<1>5. BookIsConsistent'
  BY <1>1, <1>2 DEF BookIsConsistent
<1> QED BY <1>1, <1>2, <1>4, <1>5

LEMMA FinishPreserves == ASSUME IInv, Finish PROVE IInv'
BY DEF IInv, Finish, TypeOK, BookIsConsistent, book

\* The book the backtest carries from one period to the next stays within its bounds
\* and belongs together, whatever is ranked, filtered or skipped.
THEOREM Inductive == Spec => []IInv
<1>1. ASSUME IInv, [Next]_vars PROVE IInv'
  <2>1. CASE Hold
    BY <1>1, <2>1, HoldPreserves
  <2>2. CASE HoldSkipped
    BY <1>1, <2>2, SkipPreserves DEF HoldSkipped
  <2>3. CASE NothingRanked
    BY <1>1, <2>3, SkipPreserves DEF NothingRanked
  <2>4. ASSUME NEW market \in Market, RebalanceSkipped(market) PROVE IInv'
    BY <1>1, <2>4, SkipPreserves DEF RebalanceSkipped
  <2>5. ASSUME NEW market \in Market, NEW selected \in Selections \ {<<>>},
               Reselect(market, selected)
        PROVE  IInv'
    BY <1>1, <2>5, ReselectPreserves
  <2>6. CASE Finish
    BY <1>1, <2>6, FinishPreserves
  <2>7. CASE UNCHANGED vars
    BY <1>1, <2>7 DEF IInv, TypeOK, BookIsConsistent, vars, book
  <2> QED BY <1>1, <2>1, <2>2, <2>3, <2>4, <2>5, <2>6, <2>7 DEF Next
<1> QED BY InitEstablishes, <1>1, PTL DEF Spec

\* The holdings never exceed the maximum, no symbol is held twice, only priced symbols
\* are weighted, and the equity fraction stays between nothing and everything
\* (_run_backtest, select).
THEOREM TypeCorrect == Spec => []TypeOK
BY Inductive, PTL DEF IInv

\* Holdings, weights and the last report of run() describe the same book.
THEOREM BookIsConsistentHolds == Spec => []BookIsConsistent
BY Inductive, PTL DEF IInv

-----------------------------------------------------------------------------
(* What the selection owes the holdings and the entrants *)

\* A holding is given up below the floor, for a candidate that leads it by the buffer,
\* or to the sector cap; a candidate never for the first two (_apply_buffer_logic,
\* _apply_sector_cap).
THEOREM HoldingKeptHolds == Spec => []HoldingKept
<1>1. ASSUME TypeOK PROVE HoldingKept
  <2> SUFFICES ASSUME NEW in \in Inputs,
                      NEW s \in ToSet(holdings)
                                  \ ToSet(SectorCap(Select(in.cross, in.mask, holdings), in.cross))
               PROVE  LET cands == Candidates(in.cross, in.mask)
                          selected == Select(in.cross, in.mask, holdings)
                      IN \/ s \in ToSet(selected) /\ OverSector(selected, s)
                         \/ /\ s \notin ToSet(cands)
                            /\ \/ BelowFloor(in.cross, s)
                               \/ \E c \in ToSet(cands) :
                                    100 * (Rank(in.cross, c) - Rank(in.cross, s))
                                      >= BufferPct * Len(in.cross)
    BY DEF HoldingKept
  <2> DEFINE cross == in.cross
             cands == Candidates(cross, in.mask)
             selected == Select(cross, in.mask, holdings)
             kept == Retained(cross, cands, holdings)
  <2>1. cross \in Rankings /\ ToSet(Eligible(cross, in.mask)) # {}
    BY InputsOf
  <2>2. holdings \in Rankings /\ Len(holdings) <= MaxHoldings
    BY <1>1 DEF TypeOK
  <2>3. cands \in Rankings /\ ToSet(cands) # {}
    <3> DEFINE elig == Eligible(cross, in.mask)
    <3>1. elig \in Rankings /\ MaxHoldings \in Nat /\ MaxHoldings >= 1
      BY <2>1, EligibleOf, RebalanceAssumption DEF RebalanceAssumption
    <3>2. cands = First(elig, MaxHoldings)
      BY DEF Candidates
    <3> HIDE DEF elig, cands
    <3>3. /\ cands \in Rankings /\ (Len(elig) <= MaxHoldings => cands = elig)
          /\ Len(cands) = IF MaxHoldings < Len(elig) THEN MaxHoldings ELSE Len(elig)
      BY <3>1, <3>2, FirstOf
    <3>4. Len(elig) \in Nat /\ Len(cands) \in Nat
          /\ (\A i \in 1 .. Len(cands) : cands[i] \in ToSet(cands))
      BY <3>1, <3>3, RankingIsDistinct
    <3>5. CASE Len(elig) <= MaxHoldings
      BY <2>1, <3>3, <3>5 DEF elig
    <3>6. CASE ~(Len(elig) <= MaxHoldings)
      <4>1. 1 \in 1 .. Len(cands)
        BY <3>1, <3>3, <3>4, <3>6
      <4> QED BY <3>3, <3>4, <4>1
    <3> QED BY <3>5, <3>6
  <2>4. selected \in Rankings /\ ToSet(kept) \subseteq ToSet(selected)
    BY <2>1, <2>2, SelectBounds
  <2>5. CASE s \in ToSet(selected)
    <3>1. OverSector(selected, s)
      <4> HIDE DEF selected
      <4>1. s \in ToSet(selected) \ ToSet(SectorCap(selected, cross))
        BY <2>5 DEF selected
      <4> QED BY <2>4, <4>1, SectorCapOf
    <3> QED BY <2>5, <3>1
  <2>6. CASE s \notin ToSet(selected)
    <3>1. /\ Distinct(holdings) /\ Len(holdings) \in Nat
          /\ ToSet(holdings) = {holdings[i] : i \in 1 .. Len(holdings)}
      BY <2>2, RankingIsDistinct
    <3>2. PICK i \in 1 .. Len(holdings) : holdings[i] = s
      BY <3>1
    <3> DEFINE left == LeftAt(cands, holdings, i)
    <3>3. ~Keeps(cross, left, s)
      BY <2>1, <2>2, <2>3, <2>4, <2>6, <3>2, RetainedOf
    <3>4. left \subseteq ToSet(cands)
      BY DEF LeftAt
    <3>5. s \notin left /\ (BelowFloor(cross, s) \/ Beaten(cross, s, left))
      BY <3>3 DEF Keeps
    <3>6. s \notin ToSet(cands)
      <4>1. \A j \in 1 .. i - 1 : holdings[j] # s
        <5>1. \A j \in 1 .. i - 1 : j \in 1 .. Len(holdings) /\ j # i
          BY <3>1
        <5> QED BY <3>1, <3>2, <5>1 DEF Distinct
      <4> QED BY <3>5, <4>1 DEF LeftAt
    <3> HIDE DEF cands, left
    <3>7. CASE BelowFloor(cross, s)
      BY <3>6, <3>7 DEF cands
    <3>8. CASE Beaten(cross, s, left)
      <4>1. PICK best \in {0} \cup {Rank(cross, c) : c \in left} :
              100 * (best - Rank(cross, s)) >= BufferPct * Len(cross)
        BY <3>8 DEF Beaten
      <4>2. PICK c \in ToSet(cands) : best <= Rank(cross, c)
        <5>1. \A c : Rank(cross, c) \in Nat
          BY <2>1, RankOf
        <5>2. CASE best = 0
          <6>1. PICK c \in ToSet(cands) : TRUE
            BY <2>3
          <6>2. best <= Rank(cross, c)
            BY <5>1, <5>2
          <6> QED BY <6>2
        <5>3. ASSUME NEW c \in left, best = Rank(cross, c)
              PROVE  \E x \in ToSet(cands) : best <= Rank(cross, x)
          <6>1. best <= Rank(cross, c)
            BY <5>1, <5>3
          <6> QED BY <3>4, <6>1
        <5> QED BY <4>1, <5>2, <5>3
      <4>3. 100 * (Rank(cross, c) - Rank(cross, s)) >= BufferPct * Len(cross)
        <5>1. /\ Rank(cross, c) \in Nat /\ Rank(cross, s) \in Nat /\ best \in Nat
              /\ BufferPct * Len(cross) \in Int
          <6>1. \A x : Rank(cross, x) \in Nat
            BY <2>1, RankOf
          <6>2. BufferPct \in Int /\ Len(cross) \in Int
            <7>1. Len(cross) \in Nat
              BY <2>1, RankingIsDistinct
            <7> QED BY <7>1, Assumed
          <6>3. \A a, x \in Int : a * x \in Int
            OBVIOUS
          <6> QED BY <4>1, <6>1, <6>2, <6>3
        <5>2. \A a, b, r \in Nat, x \in Int :
                a <= b /\ 100 * (a - r) >= x => 100 * (b - r) >= x
          OBVIOUS
        <5> QED BY <4>1, <4>2, <5>1, <5>2
      <4> QED BY <3>6, <4>3 DEF cands
    <3> QED BY <3>5, <3>7, <3>8
  <2> QED BY <2>5, <2>6
<1> QED BY <1>1, TypeCorrect, PTL

\* An entry passes the gate, if any stock does, and no stock that could have entered
\* ranks better than it (select, _apply_buffer_logic).
THEOREM BestEntrantsHolds == Spec => []BestEntrants
<1>1. ASSUME TypeOK PROVE BestEntrants
  <2> SUFFICES ASSUME NEW in \in Inputs,
                      NEW e \in ToSet(Select(in.cross, in.mask, holdings)) \ ToSet(holdings)
               PROVE  LET selected == Select(in.cross, in.mask, holdings)
                          left == {s \in ToSet(in.cross) \ (ToSet(selected) \cup ToSet(holdings)) :
                                     in.mask = {} \/ s \in in.mask}
                      IN /\ in.mask = {} \/ e \in in.mask
                         /\ \A s \in left : Rank(in.cross, s) < Rank(in.cross, e)
    BY DEF BestEntrants
  <2> DEFINE cross == in.cross
             mask == in.mask
             elig == Eligible(cross, mask)
             cands == Candidates(cross, mask)
             kept == Retained(cross, cands, holdings)
             rest == Without(cands, ToSet(kept))
             b == Buffered(cross, cands, holdings)
             selected == Select(cross, mask, holdings)
             n == Len(kept)
             m == Len(rest)
  <2>1. cross \in Rankings
    BY InputsOf
  <2>2. holdings \in Rankings /\ Len(holdings) <= MaxHoldings /\ MaxHoldings \in Nat
    BY <1>1, Assumed DEF TypeOK
  <2>3. /\ elig \in Rankings
        /\ ToSet(elig) = {s \in ToSet(cross) : mask = {} \/ s \in mask}
        /\ \A i, j \in 1 .. Len(elig) : i < j => Rank(cross, elig[j]) < Rank(cross, elig[i])
    BY <2>1, EligibleOf
  <2>4. /\ cands \in Rankings
        /\ Len(cands) = (IF MaxHoldings < Len(elig) THEN MaxHoldings ELSE Len(elig))
        /\ \A i \in 1 .. Len(cands) : i \in 1 .. Len(elig) /\ cands[i] = elig[i]
    BY <2>2, <2>3, FirstOf DEF Candidates
  <2>5. /\ selected \in Rankings /\ ToSet(selected) \subseteq ToSet(holdings) \cup ToSet(cands)
        /\ ToSet(kept) \subseteq ToSet(selected)
    BY <2>1, <2>2, SelectBounds
  <2>6. kept \in Rankings /\ ToSet(kept) \subseteq ToSet(holdings)
    BY <2>1, <2>2, <2>4, RetainedOf
  <2>7. /\ rest \in Rankings /\ ToSet(rest) = ToSet(cands) \ ToSet(kept)
        /\ b \in Rankings /\ Len(b) = n + m
        /\ \A i \in 1 .. m : b[n + i] = rest[i]
    BY <2>1, <2>2, <2>4, BufferedOf
  <2>8. selected = First(b, MaxHoldings)
    BY <2>1, <2>2, SelectOf
  <2>9. rest = Only(cands, ToSet(cands) \ ToSet(kept))
    BY DEF Without
  <2> HIDE DEF cross, mask, elig, cands, kept, rest, b, selected
  <2>10. \A i, j \in 1 .. m : \A p, q \in 1 .. Len(cands) :
           rest[i] = cands[p] /\ rest[j] = cands[q] /\ i < j => p < q
    BY <2>4, <2>9, OnlyOf
  <2>11. /\ Len(selected) = (IF MaxHoldings < Len(b) THEN MaxHoldings ELSE Len(b))
         /\ \A i \in 1 .. Len(selected) : i \in 1 .. Len(b) /\ selected[i] = b[i]
    BY <2>2, <2>7, <2>8, FirstOf
  <2>12. /\ Len(elig) \in Nat /\ Len(cands) \in Nat /\ m \in Nat /\ n \in Nat
         /\ Len(b) \in Nat /\ Len(selected) \in Nat
         /\ Distinct(b) /\ Distinct(rest) /\ Distinct(cands) /\ Distinct(elig)
    BY <2>3, <2>4, <2>5, <2>6, <2>7, RankingIsDistinct
  <2>13. /\ ToSet(elig) = {elig[i] : i \in 1 .. Len(elig)}
         /\ ToSet(cands) = {cands[i] : i \in 1 .. Len(cands)}
         /\ ToSet(rest) = {rest[i] : i \in 1 .. m}
         /\ ToSet(selected) = {selected[i] : i \in 1 .. Len(selected)}
    BY <2>3, <2>4, <2>5, <2>7, RankingIsDistinct
  <2>14. e \in ToSet(selected) /\ e \notin ToSet(holdings)
    BY DEF selected, cross, mask
  <2>15. e \in ToSet(cands) /\ e \in ToSet(rest)
    BY <2>5, <2>6, <2>7, <2>14
  <2>16. PICK i \in 1 .. Len(cands) : cands[i] = e
    BY <2>13, <2>15
  <2>17. e = elig[i] /\ i \in 1 .. Len(elig) /\ e \in ToSet(elig)
    BY <2>4, <2>13, <2>16
  <2>18. mask = {} \/ e \in mask
    BY <2>3, <2>17
  <2>19. ASSUME NEW s \in ToSet(cross), s \notin ToSet(selected), s \notin ToSet(holdings),
                mask = {} \/ s \in mask
         PROVE  Rank(cross, s) < Rank(cross, e)
    <3>1. s \in ToSet(elig) /\ s # e
      BY <2>3, <2>14, <2>19
    <3>2. PICK k \in 1 .. Len(elig) : elig[k] = s
      BY <2>13, <3>1
    <3>3. k # i
      BY <2>17, <3>1, <3>2
    <3>4. CASE i < k
      BY <2>3, <2>17, <3>2, <3>4
    <3>5. CASE k < i
      <4>1. k \in 1 .. Len(cands) /\ cands[k] = s
        <5>1. k \in 1 .. Len(cands)
          BY <2>12, <2>16, <3>2, <3>5
        <5> QED BY <2>4, <3>2, <5>1
      <4>2. s \in ToSet(cands) /\ s \in ToSet(rest)
        BY <2>6, <2>7, <2>13, <2>19, <4>1
      <4>3. PICK a \in 1 .. m : rest[a] = s
        BY <2>13, <4>2
      <4>4. PICK c \in 1 .. m : rest[c] = e
        BY <2>13, <2>15
      <4>5. a < c
        <5>1. ~(c < a)
          BY <2>10, <2>16, <3>5, <4>1, <4>3, <4>4, <2>12
        <5>2. a # c
          BY <3>1, <4>3, <4>4
        <5> QED BY <5>1, <5>2
      <4>6. PICK r \in 1 .. Len(selected) : selected[r] = e
        BY <2>13, <2>14
      <4>7. r = n + c
        <5>1. n + c \in 1 .. Len(b) /\ b[n + c] = e
          BY <2>7, <2>12, <4>4
        <5>2. r \in 1 .. Len(b) /\ b[r] = e
          BY <2>11, <4>6
        <5> QED BY <2>12, <5>1, <5>2 DEF Distinct
      <4>8. n + a \in 1 .. Len(selected) /\ b[n + a] = s
        BY <2>7, <2>12, <4>3, <4>5, <4>6, <4>7
      <4>9. selected[n + a] = s
        BY <2>11, <4>8
      <4> QED BY <2>13, <2>19, <4>8, <4>9
    <3> QED BY <2>12, <3>3, <3>4, <3>5
  <2> QED BY <2>18, <2>19 DEF selected, cross, mask
<1> QED BY <1>1, TypeCorrect, PTL
=============================================================================
