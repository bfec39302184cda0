--------------------------- MODULE Phrases_proofs ----------------------------
(***************************************************************************)
(* Recursion, proved to exist, and what it computes for the operators on   *)
(* sequences of words: sums, deduplication, phrase and concept detection.  *)
(* The library's induction theorems take an operator as a parameter; the   *)
(* same arguments are made here from the least counterexample.             *)
(***************************************************************************)
EXTENDS Phrases, FiniteSetTheorems, SequenceTheorems, WellFoundedInduction, TLAPS

-----------------------------------------------------------------------------
(* Recursion along a rank.                                                 *)

\* The least-number principle.
LEMMA LeastNumber ==
    ASSUME NEW S \in SUBSET Nat, S # {}
    PROVE  \E m \in S : \A n \in S : m <= n
<1> DEFINE R == OpToRel(<, Nat)
<1>1. IsWellFoundedOn(R, Nat)
    BY NatLessThanWellFounded, Zenon
<1>2. \E m \in S : \A n \in S : <<n, m>> \notin R
    BY <1>1, WFMin, Zenon
<1>3. \A m, n \in S : <<n, m>> \notin R => m <= n
    BY DEF OpToRel
<1> QED
    BY <1>2, <1>3

\* Outside B, every element has a predecessor of smaller rank.
Ranked(D, B, P, rank) ==
    /\ rank \in [D -> Nat]
    /\ \A d \in D : d \notin B => P[d] \in D /\ rank[P[d]] < rank[d]

\* Induction along the rank: a set that contains B, and each element whose
\* predecessor it contains, contains everything.
LEMMA RankInduction ==
    ASSUME NEW D, NEW B, NEW P, NEW rank, Ranked(D, B, P, rank), NEW T,
           \A d \in D : d \in B => d \in T,
           \A d \in D : d \notin B /\ P[d] \in T => d \in T
    PROVE  D \subseteq T
<1> DEFINE S == {k \in Nat : \E d \in D : rank[d] = k /\ d \notin T}
<1> SUFFICES ASSUME NEW d0 \in D, d0 \notin T PROVE FALSE
    OBVIOUS
<1>1. PICK m \in S : \A k \in S : m <= k
  <2>1. rank[d0] \in S
      BY DEF Ranked
  <2> QED
      BY <2>1, LeastNumber
<1>2. PICK d \in D : rank[d] = m /\ d \notin T
    BY <1>1
<1>3. P[d] \in D /\ rank[P[d]] < m /\ rank[P[d]] \in Nat
    BY <1>2 DEF Ranked
<1>4. P[d] \in T
    BY <1>1, <1>3
<1> QED
    BY <1>2, <1>4

\* The data of a recursion: on B a value r, elsewhere a value G makes of the
\* value at the predecessor.
Recursion(D, V, B, r, P, G, rank) ==
    /\ V # {}
    /\ Ranked(D, B, P, rank)
    /\ \A d \in D : d \in B => r[d] \in V
    /\ \A d \in D, v \in V : d \notin B => G[<<d, v>>] \in V

\* The function solves it on the elements of rank below n, or everywhere.
SolvesBelow(f, n, D, B, r, P, G, rank) ==
    \A d \in D : rank[d] < n =>
        f[d] = IF d \in B THEN r[d] ELSE G[<<d, f[P[d]]>>]
Solution(f, D, B, r, P, G) ==
    \A d \in D : f[d] = IF d \in B THEN r[d] ELSE G[<<d, f[P[d]]>>]

\* Two solutions agree as far as both go.
LEMMA SolutionsAgree ==
    ASSUME NEW D, NEW V, NEW B, NEW r, NEW P, NEW G, NEW rank,
           Recursion(D, V, B, r, P, G, rank),
           NEW n \in Nat, NEW f, NEW g,
           SolvesBelow(f, n, D, B, r, P, G, rank),
           SolvesBelow(g, n, D, B, r, P, G, rank)
    PROVE  \A d \in D : rank[d] < n => f[d] = g[d]
<1> DEFINE S == {k \in Nat : \E d \in D : rank[d] = k /\ k < n /\ f[d] # g[d]}
<1> SUFFICES ASSUME NEW d0 \in D, rank[d0] < n, f[d0] # g[d0] PROVE FALSE
    OBVIOUS
<1>1. \A d \in D : rank[d] \in Nat
    BY DEF Recursion, Ranked
<1>2. PICK m \in S : \A k \in S : m <= k
  <2>1. rank[d0] \in S
      BY <1>1
  <2> QED
      BY <2>1, LeastNumber
<1>3. PICK d \in D : rank[d] = m /\ m < n /\ f[d] # g[d]
    BY <1>2
<1>4. d \notin B
    BY <1>3 DEF SolvesBelow
<1>5. P[d] \in D /\ rank[P[d]] < m /\ rank[P[d]] \in Nat
    BY <1>1, <1>3, <1>4 DEF Recursion, Ranked
<1>6. f[P[d]] = g[P[d]]
    BY <1>2, <1>3, <1>5
<1> QED
    BY <1>3, <1>4, <1>6 DEF SolvesBelow

\* One more rank, one more layer of values.
LEMMA SolutionsBelow ==
    ASSUME NEW D, NEW V, NEW B, NEW r, NEW P, NEW G, NEW rank,
           Recursion(D, V, B, r, P, G, rank)
    PROVE  \A n \in Nat : \E f \in [D -> V] : SolvesBelow(f, n, D, B, r, P, G, rank)
<1> DEFINE S == {n \in Nat : ~ \E f \in [D -> V] : SolvesBelow(f, n, D, B, r, P, G, rank)}
<1> SUFFICES ASSUME S # {} PROVE FALSE
    OBVIOUS
<1>1. PICK m \in S : \A k \in S : m <= k
    BY LeastNumber
<1>2. \A d \in D : rank[d] \in Nat
    BY DEF Recursion, Ranked
<1>3. m # 0
  <2>1. PICK v \in V : TRUE
      BY DEF Recursion, Ranked
  <2>2. [d \in D |-> v] \in [D -> V]
      OBVIOUS
  <2>3. SolvesBelow([d \in D |-> v], 0, D, B, r, P, G, rank)
      BY <1>2 DEF SolvesBelow
  <2> QED
      BY <1>1, <2>2, <2>3
<1>4. m - 1 \in Nat /\ m \in Nat /\ m - 1 \notin S
    BY <1>1, <1>3
<1>5. PICK f \in [D -> V] : SolvesBelow(f, m - 1, D, B, r, P, G, rank)
    BY <1>4
<1> DEFINE v(d) == IF d \in B THEN r[d] ELSE G[<<d, f[P[d]]>>]
           g == [d \in D |-> IF rank[d] < m THEN v(d) ELSE f[d]]
<1>6. \A d \in D : v(d) \in V
    BY <1>5 DEF Recursion, Ranked
<1> HIDE DEF v
<1>7. g \in [D -> V]
    BY <1>6
<1>8. \A d \in D : rank[d] < m - 1 => v(d) = f[d]
    BY <1>5 DEF SolvesBelow, v
<1>9. \A d \in D : rank[d] < m - 1 => g[d] = f[d]
    BY <1>2, <1>4, <1>8
<1>10. SolvesBelow(g, m, D, B, r, P, G, rank)
  <2> SUFFICES ASSUME NEW d \in D, rank[d] < m
               PROVE  g[d] = IF d \in B THEN r[d] ELSE G[<<d, g[P[d]]>>]
      BY DEF SolvesBelow
  <2>1. g[d] = v(d)
      OBVIOUS
  <2>2. d \notin B => P[d] \in D /\ rank[P[d]] < m - 1
    <3>1. d \notin B => P[d] \in D /\ rank[P[d]] < rank[d]
        BY DEF Recursion, Ranked
    <3> QED
        BY <1>2, <1>4, <3>1
  <2>3. d \notin B => g[P[d]] = f[P[d]]
      BY <1>9, <2>2
  <2> HIDE DEF g
  <2> QED
      BY <2>1, <2>3 DEF v
<1> HIDE DEF g
<1> QED
    BY <1>1, <1>7, <1>10

\* A recursion along a rank has a solution.
THEOREM RankedRecursion ==
    ASSUME NEW D, NEW V, NEW B, NEW r, NEW P, NEW G, NEW rank,
           Recursion(D, V, B, r, P, G, rank)
    PROVE  \E f \in [D -> V] : Solution(f, D, B, r, P, G)
<1> DEFINE below(n) == CHOOSE f \in [D -> V] : SolvesBelow(f, n, D, B, r, P, G, rank)
           F == [d \in D |-> below(rank[d] + 1)[d]]
<1>1. \A n \in Nat : /\ below(n) \in [D -> V]
                     /\ SolvesBelow(below(n), n, D, B, r, P, G, rank)
    BY SolutionsBelow
<1> HIDE DEF below
<1>2. \A d \in D : rank[d] \in Nat /\ rank[d] + 1 \in Nat /\ rank[d] < rank[d] + 1
    BY DEF Recursion, Ranked
<1>3. F \in [D -> V]
    BY <1>1, <1>2
<1>4. ASSUME NEW d \in D
      PROVE  F[d] = IF d \in B THEN r[d] ELSE G[<<d, F[P[d]]>>]
  <2> DEFINE f == below(rank[d] + 1)
  <2>1. F[d] = f[d]
      OBVIOUS
  <2>2. f[d] = IF d \in B THEN r[d] ELSE G[<<d, f[P[d]]>>]
      BY <1>1, <1>2 DEF SolvesBelow
  <2>3. ASSUME d \notin B
        PROVE  f[P[d]] = F[P[d]]
    <3> DEFINE p == P[d]
               n == rank[p] + 1
               g == below(n)
    <3>1. p \in D /\ rank[p] < rank[d]
        BY <2>3 DEF Recursion, Ranked
    <3>2. n \in Nat /\ rank[p] < n /\ rank[p] \in Nat /\ rank[d] \in Nat
        BY <1>2, <3>1
    <3>3. SolvesBelow(f, n, D, B, r, P, G, rank)
        BY <1>1, <1>2, <3>1, <3>2 DEF SolvesBelow
    <3>4. SolvesBelow(g, n, D, B, r, P, G, rank)
        BY <1>1, <3>2
    <3>5. F[p] = g[p]
        BY <3>1
    <3> HIDE DEF f, g, n, F
    <3>6. \A e \in D : rank[e] < n => f[e] = g[e]
        BY <3>2, <3>3, <3>4, SolutionsAgree
    <3> QED
        BY <3>1, <3>2, <3>5, <3>6
  <2> HIDE DEF F, f
  <2> QED
      BY <2>1, <2>2, <2>3
<1> QED
    BY <1>3, <1>4 DEF Solution

-----------------------------------------------------------------------------
(* Sums.                                                                   *)

Chosen(s) == CHOOSE x \in s : TRUE

\* A sum of naturals over a finite domain is a natural, and an empty one is 0.
LEMMA SumProperties ==
    ASSUME NEW f, IsFiniteSet(DOMAIN f), \A x \in DOMAIN f : f[x] \in Nat
    PROVE  /\ SumFunction(f) \in Nat
           /\ DOMAIN f = {} => SumFunction(f) = 0
<1> DEFINE S == DOMAIN f
           D == SUBSET S
           rest == [s \in D |-> s \ {Chosen(s)}]
           add == [p \in D \X Nat |-> f[Chosen(p[1])] + p[2]]
           zero == [s \in D |-> 0]
           size == [s \in D |-> Cardinality(s)]
           rhs(g) == [s \in D |-> IF s = {} THEN 0 ELSE f[Chosen(s)] + g[s \ {Chosen(s)}]]
<1>1. \A s \in D : s # {} => Chosen(s) \in s
    BY DEF Chosen
<1>2. ASSUME NEW s \in D
      PROVE  /\ Cardinality(s) \in Nat
             /\ s # {} => /\ s \ {Chosen(s)} \in D
                          /\ Cardinality(s \ {Chosen(s)}) < Cardinality(s)
  <2>1. IsFiniteSet(s) /\ Cardinality(s) \in Nat
      BY FS_Subset, FS_CardinalityType
  <2>2. s # {} => Cardinality(s \ {Chosen(s)}) = Cardinality(s) - 1
      BY <1>1, <2>1, FS_RemoveElement
  <2> QED
      BY <2>1, <2>2
<1>3. Recursion(D, Nat, {{}}, zero, rest, add, size)
  <2>1. size \in [D -> Nat]
      BY <1>2
  <2>2. \A s \in D, n \in Nat : s # {} => add[<<s, n>>] \in Nat
      BY <1>1
  <2>3. \A s \in D : s # {} => rest[s] \in D /\ size[rest[s]] < size[s]
      BY <1>2
  <2>4. \A s \in D : zero[s] \in Nat
      OBVIOUS
  <2> HIDE DEF size, add, rest, zero
  <2> QED
      BY <2>1, <2>2, <2>3, <2>4 DEF Recursion, Ranked
<1>4. PICK g \in [D -> Nat] : Solution(g, D, {{}}, zero, rest, add)
  <2> HIDE DEF D, size, add, rest, zero
  <2> QED
      BY <1>3, RankedRecursion
<1>5. g = rhs(g)
  <2>1. \A s \in D : g[s] = IF s = {} THEN 0 ELSE f[Chosen(s)] + g[s \ {Chosen(s)}]
      BY <1>1, <1>4 DEF Solution
  <2> QED
      BY <2>1
<1>6. \E h : SumFunction(f) = h[S] /\ h = rhs(h)
  <2> DEFINE h == CHOOSE h : h = rhs(h)
  <2>1. h = rhs(h)
      BY <1>5
  <2>2. SumFunction(f) = h[S]
      BY DEF SumFunction, SumFunctionOnSet, FoldFunctionOnSet, MapThenFoldSet, Chosen
  <2> QED
      BY <2>1, <2>2
<1>7. PICK h : SumFunction(f) = h[S] /\ h = rhs(h)
    BY <1>6
<1>8. \A s \in D : h[s] = IF s = {} THEN 0 ELSE f[Chosen(s)] + h[s \ {Chosen(s)}]
    BY <1>7
<1>9. S \in D /\ size[S] \in Nat
    BY <1>2
<1>10. h[S] = g[S]
  <2> DEFINE T == {s \in D : h[s] = g[s]}
  <2>1. Ranked(D, {{}}, rest, size)
      BY <1>3 DEF Recursion
  <2>2. \A s \in D : s \in {{}} => s \in T
      BY <1>4, <1>8 DEF Solution
  <2>3. ASSUME NEW s \in D, s \notin {{}}, rest[s] \in T
        PROVE  s \in T
      BY <1>1, <1>4, <1>8, <2>3 DEF Solution
  <2>4. D \subseteq T
    <3> HIDE DEF D, size, rest, T
    <3> QED
        BY <2>1, <2>2, <2>3, RankInduction
  <2> QED
      BY <1>9, <2>4
<1>11. DOMAIN f = {} => h[S] = 0
    BY <1>8, <1>9
<1> QED
    BY <1>4, <1>7, <1>9, <1>10, <1>11

-----------------------------------------------------------------------------
(* Deduplication.                                                          *)

\* Whatever solves a recursion takes its values where the recursion stays.
LEMMA SolutionStays ==
    ASSUME NEW D, NEW V, NEW B, NEW r, NEW P, NEW G, NEW rank,
           Recursion(D, V, B, r, P, G, rank),
           NEW f, Solution(f, D, B, r, P, G)
    PROVE  \A d \in D : f[d] \in V
<1> DEFINE T == {d \in D : f[d] \in V}
<1>1. Ranked(D, B, P, rank)
    BY DEF Recursion
<1>2. \A d \in D : d \in B => d \in T
    BY DEF Recursion, Solution
<1>3. \A d \in D : d \notin B /\ P[d] \in T => d \in T
  <2> SUFFICES ASSUME NEW d \in D, d \notin B, f[P[d]] \in V PROVE f[d] \in V
      OBVIOUS
  <2>1. f[d] = G[<<d, f[P[d]]>>]
      BY DEF Solution
  <2>2. G[<<d, f[P[d]]>>] \in V
      BY DEF Recursion
  <2> QED
      BY <2>1, <2>2
<1> HIDE DEF T
<1>4. D \subseteq T
    BY <1>1, <1>2, <1>3, RankInduction
<1> QED
    BY <1>4 DEF T

\* A bounded set of naturals that is not empty has a maximum.
LEMMA MaxProperty ==
    ASSUME NEW n \in Nat, NEW S \in SUBSET (0..n), S # {}
    PROVE  Max(S) \in S /\ \A x \in S : x <= Max(S)
<1> DEFINE R == {n - x : x \in S}
<1>1. R \in SUBSET Nat /\ R # {}
    OBVIOUS
<1>2. PICK m \in R : \A k \in R : m <= k
    BY <1>1, LeastNumber
<1>3. PICK x \in S : m = n - x
    BY <1>2
<1>4. \A y \in S : x >= y
  <2> TAKE y \in S
  <2>1. n - y \in R
      OBVIOUS
  <2>2. n - x <= n - y
      BY <1>2, <1>3, <2>1
  <2>3. x \in 0..n /\ y \in 0..n
      BY <1>3
  <2> HIDE DEF R
  <2> QED
      BY <2>2, <2>3
<1>5. Max(S) \in S /\ \A y \in S : Max(S) >= y
    BY <1>4 DEF Max
<1> QED
    BY <1>5

\* Deduplication keeps every word and makes up none.
LEMMA DeduplicatedProperties ==
    ASSUME NEW W, NEW s \in Seq(W)
    PROVE  /\ Deduplicated(s) \in Seq(W)
           /\ ToSet(Deduplicated(s)) = ToSet(s)
<1> DEFINE N == DOMAIN s
           D == SUBSET N
           step(seen, word) == IF Contains(seen, word) THEN seen ELSE Append(seen, word)
           rest == [S \in D |-> S \ {Max(S)}]
           next == [p \in D \X Seq(W) |-> step(p[2], s[Max(p[1])])]
           start == [S \in D |-> <<>>]
           size == [S \in D |-> Cardinality(S)]
           rhs(g) == [S \in D |-> IF S = {} THEN <<>> ELSE step(g[S \ {Max(S)}], s[Max(S)])]
<1>0. N = 1..Len(s) /\ Len(s) \in Nat /\ IsFiniteSet(N)
    BY FS_Interval
<1>1. \A S \in D : S # {} => Max(S) \in S
  <2> SUFFICES ASSUME NEW S \in D, S # {} PROVE Max(S) \in S
      OBVIOUS
  <2>1. S \in SUBSET (0..Len(s))
      BY <1>0
  <2> QED
      BY <1>0, <2>1, MaxProperty
<1>2. ASSUME NEW S \in D
      PROVE  /\ Cardinality(S) \in Nat
             /\ S # {} => /\ S \ {Max(S)} \in D
                          /\ Cardinality(S \ {Max(S)}) < Cardinality(S)
  <2>1. IsFiniteSet(S) /\ Cardinality(S) \in Nat
      BY <1>0, FS_Subset, FS_CardinalityType
  <2>2. S # {} => Cardinality(S \ {Max(S)}) = Cardinality(S) - 1
      BY <1>1, <2>1, FS_RemoveElement
  <2> QED
      BY <2>1, <2>2
<1>3. Recursion(D, Seq(W), {{}}, start, rest, next, size)
  <2>1. size \in [D -> Nat]
      BY <1>2
  <2>2. \A S \in D, v \in Seq(W) : S # {} => next[<<S, v>>] \in Seq(W)
    <3> SUFFICES ASSUME NEW S \in D, NEW v \in Seq(W), S # {} PROVE next[<<S, v>>] \in Seq(W)
        OBVIOUS
    <3>1. s[Max(S)] \in W
        BY <1>0, <1>1
    <3>2. next[<<S, v>>] = step(v, s[Max(S)])
        OBVIOUS
    <3> HIDE DEF next
    <3> QED
        BY <3>1, <3>2
  <2>3. \A S \in D : S # {} => rest[S] \in D /\ size[rest[S]] < size[S]
      BY <1>2
  <2>4. \A S \in D : start[S] \in Seq(W)
      OBVIOUS
  <2>5. Seq(W) # {}
      BY <2>4
  <2> HIDE DEF size, next, rest, start
  <2> QED
      BY <2>1, <2>2, <2>3, <2>4, <2>5 DEF Recursion, Ranked
<1>4. PICK g \in [D -> Seq(W)] : Solution(g, D, {{}}, start, rest, next)
  <2> HIDE DEF D, size, next, rest, start
  <2> QED
      BY <1>3, RankedRecursion
<1>5. g = rhs(g)
  <2>1. \A S \in D : g[S] = IF S = {} THEN <<>> ELSE step(g[S \ {Max(S)}], s[Max(S)])
    <3> SUFFICES ASSUME NEW S \in D
                 PROVE  g[S] = IF S = {} THEN <<>> ELSE step(g[S \ {Max(S)}], s[Max(S)])
        OBVIOUS
    <3>1. g[S] = IF S \in {{}} THEN start[S] ELSE next[<<S, g[rest[S]]>>]
        BY <1>4 DEF Solution
    <3>2. S # {} => rest[S] = S \ {Max(S)} /\ g[rest[S]] \in Seq(W)
        BY <1>2, <1>4
    <3>3. S # {} => next[<<S, g[rest[S]]>>] = step(g[rest[S]], s[Max(S)])
        BY <3>2
    <3> HIDE DEF step, next, rest
    <3> QED
        BY <3>1, <3>2, <3>3
  <2> HIDE DEF step
  <2> QED
      BY <2>1
<1>6. \E h : Deduplicated(s) = h[N] /\ h = rhs(h)
  <2> DEFINE h == CHOOSE h : h = rhs(h)
  <2>1. h = rhs(h)
      BY <1>5
  <2>2. Deduplicated(s) = h[N]
      BY DEF Deduplicated, FoldLeft, MapThenFoldSet
  <2> QED
      BY <2>1, <2>2
<1>7. PICK h : Deduplicated(s) = h[N] /\ h = rhs(h)
    BY <1>6
<1>8. \A S \in D : h[S] = IF S = {} THEN <<>> ELSE step(h[S \ {Max(S)}], s[Max(S)])
  <2> HIDE DEF step
  <2> QED
      BY <1>7
<1> DEFINE T == {S \in D : h[S] \in Seq(W) /\ ToSet(h[S]) = {s[i] : i \in S}}
<1>9. {} \in T
  <2>1. {} \in D /\ h[{}] = <<>>
      BY <1>8
  <2>2. ToSet(<<>>) = {} /\ {s[i] : i \in {}} = {}
      BY DEF ToSet
  <2>3. <<>> \in Seq(W)
      OBVIOUS
  <2> QED
      BY <2>1, <2>2, <2>3
<1>10. ASSUME NEW S \in D, S \notin {{}}, rest[S] \in T
       PROVE  S \in T
  <2> DEFINE m == Max(S)
             R == S \ {m}
             v == h[R]
  <2>1. m \in S /\ s[m] \in W /\ rest[S] = R
      BY <1>0, <1>1, <1>10
  <2>2. v \in Seq(W) /\ ToSet(v) = {s[i] : i \in R}
      BY <1>10, <2>1
  <2>3. h[S] = IF Contains(v, s[m]) THEN v ELSE Append(v, s[m])
      BY <1>8, <1>10
  <2>4. {s[i] : i \in S} = {s[i] : i \in R} \cup {s[m]}
      BY <2>1
  <2>5. Contains(v, s[m]) <=> s[m] \in ToSet(v)
    <3> HIDE DEF v
    <3>1. DOMAIN v = 1..Len(v)
        BY <2>2
    <3> QED
        BY <3>1 DEF Contains, ToSet
  <2>6. ToSet(Append(v, s[m])) = ToSet(v) \cup {s[m]}
    <3> HIDE DEF v, m
    <3>1. \A x \in ToSet(Append(v, s[m])) : x \in ToSet(v) \cup {s[m]}
        BY <2>1, <2>2 DEF ToSet
    <3>2. \A x \in ToSet(v) : x \in ToSet(Append(v, s[m]))
        BY <2>1, <2>2 DEF ToSet
    <3>3. s[m] \in ToSet(Append(v, s[m]))
      <4>1. Append(v, s[m])[Len(v) + 1] = s[m] /\ Len(v) + 1 \in DOMAIN Append(v, s[m])
          BY <2>1, <2>2
      <4> QED
          BY <4>1 DEF ToSet
    <3> QED
        BY <3>1, <3>2, <3>3
  <2>7. Append(v, s[m]) \in Seq(W)
      BY <2>1, <2>2
  <2> HIDE DEF v, R, m
  <2>8. h[S] \in Seq(W) /\ ToSet(h[S]) = {s[i] : i \in S}
      BY <2>2, <2>3, <2>4, <2>5, <2>6, <2>7
  <2> QED
      BY <1>10, <2>8
<1>11. D \subseteq T
  <2>1. Ranked(D, {{}}, rest, size)
      BY <1>3 DEF Recursion
  <2> HIDE DEF D, size, rest, T
  <2>2. \A S \in D : S \in {{}} => S \in T
      BY <1>9
  <2>3. \A S \in D : S \notin {{}} /\ rest[S] \in T => S \in T
      BY <1>10
  <2> QED
      BY <2>1, <2>2, <2>3, RankInduction
<1>12. N \in T
    BY <1>11
<1>13. {s[i] : i \in N} = ToSet(s)
    BY DEF ToSet
<1> HIDE DEF N, D, rest, next, start, size
<1> QED
    BY <1>7, <1>12, <1>13

-----------------------------------------------------------------------------
(* Detection.                                                              *)

\* The parts of Detected: the definitions that match at a place, the longest
\* of several, and the recursion along the text.
At(definitions, text, i) == {d \in definitions : OccursAt(d.phrase, text, i)}
Longest(ds) == CHOOSE d \in ds : \A e \in ds : Len(e.phrase) <= Len(d.phrase)
Detects(from, definitions, text) ==
    \A i \in 1..Len(text) + 1 :
        from[i] = IF i > Len(text) THEN <<>>
                  ELSE IF At(definitions, text, i) = {} THEN from[i + 1]
                  ELSE LET d == Longest(At(definitions, text, i))
                       IN <<d.canonical>> \o from[i + Len(d.phrase)]

\* What detection asks of its definitions.
Definite(definitions, C) ==
    \A d \in definitions : Len(d.phrase) \in Nat \ {0} /\ d.canonical \in C

\* A longest match exists, and ends inside the text.
LEMMA LongestProperty ==
    ASSUME NEW C, NEW definitions, Definite(definitions, C),
           NEW text, Len(text) \in Nat, NEW i \in 1..Len(text),
           At(definitions, text, i) # {}
    PROVE  LET d == Longest(At(definitions, text, i)) IN
           /\ d \in At(definitions, text, i)
           /\ \A e \in At(definitions, text, i) : Len(e.phrase) <= Len(d.phrase)
           /\ d.canonical \in C
           /\ Len(d.phrase) \in Nat \ {0}
           /\ i + Len(d.phrase) <= Len(text) + 1
<1> DEFINE ds == At(definitions, text, i)
           L == {Len(d.phrase) : d \in ds}
<1>1. \A d \in ds : /\ Len(d.phrase) \in Nat \ {0} /\ d.canonical \in C
                    /\ i + Len(d.phrase) - 1 <= Len(text)
    BY DEF At, OccursAt, Definite
<1>2. L \in SUBSET (0..Len(text)) /\ L # {}
  <2>1. \A d \in ds : Len(d.phrase) \in 0..Len(text)
    <3> HIDE DEF ds
    <3> QED
        BY <1>1
  <2> HIDE DEF ds
  <2>2. ds # {}
      BY DEF ds
  <2> QED
      BY <2>1, <2>2
<1>3. Max(L) \in L /\ \A n \in L : n <= Max(L)
  <2> HIDE DEF L
  <2> QED
      BY <1>2, MaxProperty
<1>4. \E d \in ds : \A e \in ds : Len(e.phrase) <= Len(d.phrase)
  <2>1. PICK d \in ds : Max(L) = Len(d.phrase)
      BY <1>3
  <2> QED
      BY <1>3, <2>1
<1>5. Longest(ds) \in ds /\ \A e \in ds : Len(e.phrase) <= Len(Longest(ds).phrase)
    BY <1>4 DEF Longest
<1> DEFINE d == Longest(ds)
<1>6. d.canonical \in C /\ Len(d.phrase) \in Nat \ {0} /\ i + Len(d.phrase) - 1 <= Len(text)
    BY <1>1, <1>5
<1>7. i + Len(d.phrase) <= Len(text) + 1
  <2> HIDE DEF d
  <2> QED
      BY <1>6
<1> QED
    BY <1>5, <1>6, <1>7

\* Detection is that recursion, and makes a sequence of canonical names.
LEMMA DetectedEquation ==
    ASSUME NEW C, NEW definitions, Definite(definitions, C),
           NEW text, Len(text) \in Nat
    PROVE  \E from \in [1..Len(text) + 1 -> Seq(C)] :
               Detected(definitions, text) = from[1] /\ Detects(from, definitions, text)
<1> DEFINE N == Len(text)
           D == 1..N + 1
           ds(i) == At(definitions, text, i)
           best(i) == Longest(ds(i))
           next(i) == IF ds(i) = {} THEN i + 1 ELSE i + Len(best(i).phrase)
           make(i, v) == IF ds(i) = {} THEN v ELSE <<best(i).canonical>> \o v
           rest == [i \in D |-> next(i)]
           value == [p \in D \X Seq(C) |-> make(p[1], p[2])]
           stop == [i \in D |-> <<>>]
           left == [i \in D |-> N + 1 - i]
           rhs(g) == [i \in D |-> IF i > N THEN <<>>
                                  ELSE IF ds(i) = {} THEN g[i + 1]
                                  ELSE <<best(i).canonical>> \o g[i + Len(best(i).phrase)]]
<1>0. N \in Nat /\ \A i \in D : (i \notin {N + 1} <=> i \in 1..N) /\ (i > N <=> i \in {N + 1})
    OBVIOUS
<1>1. ASSUME NEW i \in 1..N, ds(i) # {}
      PROVE  /\ best(i).canonical \in C /\ Len(best(i).phrase) \in Nat \ {0}
             /\ i + Len(best(i).phrase) <= N + 1
    BY <1>1, LongestProperty
<1> HIDE DEF ds, best
<1>2. ASSUME NEW i \in 1..N
      PROVE  next(i) \in D /\ i < next(i)
    BY <1>0, <1>1
<1>3. ASSUME NEW i \in 1..N, NEW v \in Seq(C)
      PROVE  make(i, v) \in Seq(C)
  <2>1. CASE ds(i) = {}
      BY <2>1
  <2>2. CASE ds(i) # {}
    <3>1. <<best(i).canonical>> \in Seq(C)
        BY <1>1, <2>2
    <3> QED
        BY <2>2, <3>1
  <2> QED
      BY <2>1, <2>2
<1> HIDE DEF next, make
<1>4. Recursion(D, Seq(C), {N + 1}, stop, rest, value, left)
  <2>1. left \in [D -> Nat]
      BY <1>0
  <2>2. \A i \in D, v \in Seq(C) : i \notin {N + 1} => value[<<i, v>>] \in Seq(C)
      BY <1>0, <1>3
  <2>3. \A i \in D : i \notin {N + 1} => rest[i] \in D /\ left[rest[i]] < left[i]
      BY <1>0, <1>2
  <2>4. \A i \in D : stop[i] \in Seq(C)
      OBVIOUS
  <2>5. Seq(C) # {}
    <3>1. <<>> \in Seq(C)
        OBVIOUS
    <3> QED
        BY <3>1
  <2> HIDE DEF left, value, rest, stop, N, D
  <2> QED
      BY <2>1, <2>2, <2>3, <2>4, <2>5 DEF Recursion, Ranked
<1>5. PICK g \in [D -> Seq(C)] : Solution(g, D, {N + 1}, stop, rest, value)
  <2> HIDE DEF D, N, left, value, rest, stop
  <2> QED
      BY <1>4, RankedRecursion
<1>6. \A f : Solution(f, D, {N + 1}, stop, rest, value) /\ f \in [D -> Seq(C)] =>
          \A i \in D : f[i] = IF i > N THEN <<>>
                              ELSE IF ds(i) = {} THEN f[i + 1]
                              ELSE <<best(i).canonical>> \o f[i + Len(best(i).phrase)]
  <2> SUFFICES ASSUME NEW f \in [D -> Seq(C)],
                      Solution(f, D, {N + 1}, stop, rest, value), NEW i \in D
               PROVE  f[i] = IF i > N THEN <<>>
                             ELSE IF ds(i) = {} THEN f[i + 1]
                             ELSE <<best(i).canonical>> \o f[i + Len(best(i).phrase)]
      OBVIOUS
  <2>1. f[i] = IF i \in {N + 1} THEN stop[i] ELSE value[<<i, f[rest[i]]>>]
      BY DEF Solution
  <2>2. CASE i \in {N + 1}
    <3>1. i > N /\ stop[i] = <<>>
        BY <1>0, <2>2
    <3> QED
        BY <2>1, <2>2, <3>1
  <2>3. CASE i \in 1..N
    <3>1. rest[i] = next(i) /\ next(i) \in D
        BY <1>2, <2>3
    <3>2. value[<<i, f[next(i)]>>] = make(i, f[next(i)])
        BY <3>1
    <3>3. f[i] = make(i, f[next(i)]) /\ ~(i > N)
        BY <1>0, <2>1, <2>3, <3>1, <3>2
    <3> QED
        BY <3>3 DEF make, next
  <2> QED
      BY <1>0, <2>2, <2>3
<1>7. g = rhs(g)
    BY <1>5, <1>6
<1>8. \E h : Detected(definitions, text) = h[1] /\ h = rhs(h)
  <2> DEFINE h == CHOOSE h : h = rhs(h)
  <2>1. h = rhs(h)
      BY <1>7
  <2>2. Detected(definitions, text) = h[1]
      BY DEF Detected, ds, best, At, Longest
  <2> QED
      BY <2>1, <2>2
<1>9. PICK h : Detected(definitions, text) = h[1] /\ h = rhs(h)
    BY <1>8
<1>10. \A i \in D : h[i] = IF i > N THEN <<>>
                           ELSE IF ds(i) = {} THEN h[i + 1]
                           ELSE <<best(i).canonical>> \o h[i + Len(best(i).phrase)]
    BY <1>9
<1>11. DOMAIN h = D
    BY <1>9
<1> DEFINE T == {i \in D : h[i] \in Seq(C)}
<1>12. D \subseteq T
  <2>1. Ranked(D, {N + 1}, rest, left)
      BY <1>4 DEF Recursion
  <2>2. \A i \in D : i \in {N + 1} => i \in T
    <3>1. <<>> \in Seq(C)
        OBVIOUS
    <3> QED
        BY <1>0, <1>10, <3>1
  <2>3. ASSUME NEW i \in D, i \notin {N + 1}, rest[i] \in T
        PROVE  i \in T
    <3>1. i \in 1..N /\ rest[i] = next(i) /\ h[next(i)] \in Seq(C)
        BY <1>0, <2>3
    <3>2. h[i] = make(i, h[next(i)])
        BY <1>0, <1>10, <2>3 DEF make, next
    <3> QED
        BY <1>3, <3>1, <3>2
  <2> HIDE DEF D, N, left, rest, T
  <2> QED
      BY <2>1, <2>2, <2>3, RankInduction
<1>13. h \in [D -> Seq(C)]
  <2>1. h = [i \in D |-> h[i]]
      BY <1>9
  <2> QED
      BY <1>12, <2>1
<1>14. Detects(h, definitions, text)
    BY <1>10 DEF Detects, ds, best
<1> QED
    BY <1>9, <1>13, <1>14

-----------------------------------------------------------------------------
(* Sets and numbers.                                                       *)

LEMMA MinOfTwo ==
    ASSUME NEW a \in Int, NEW b \in Int
    PROVE  Min({a, b}) = IF a <= b THEN a ELSE b
<1> DEFINE m == IF a <= b THEN a ELSE b
<1>1. m \in {a, b} /\ \A y \in {a, b} : m =< y
    OBVIOUS
<1>2. \A x \in {a, b} : (\A y \in {a, b} : x =< y) => x = m
    OBVIOUS
<1> HIDE DEF m
<1>3. Min({a, b}) = m
    BY <1>1, <1>2 DEF Min
<1> QED
    BY <1>3 DEF m

LEMMA MaxOfTwo ==
    ASSUME NEW a \in Int, NEW b \in Int
    PROVE  Max({a, b}) = IF a >= b THEN a ELSE b
<1> DEFINE m == IF a >= b THEN a ELSE b
<1>1. m \in {a, b} /\ \A y \in {a, b} : m >= y
    OBVIOUS
<1>2. \A x \in {a, b} : (\A y \in {a, b} : x >= y) => x = m
    OBVIOUS
<1> HIDE DEF m
<1>3. Max({a, b}) = m
    BY <1>1, <1>2 DEF Max
<1> QED
    BY <1>3 DEF m

\* The words of a sequence are a finite set.
LEMMA WordsOfSequence ==
    ASSUME NEW W, NEW s \in Seq(W)
    PROVE  /\ ToSet(s) \in SUBSET W /\ IsFiniteSet(ToSet(s))
           /\ \A k \in 1..Len(s) : s[k] \in ToSet(s)
           /\ \A w \in ToSet(s) : \E k \in 1..Len(s) : s[k] = w
<1>1. DOMAIN s = 1..Len(s) /\ Len(s) \in Nat /\ IsFiniteSet(1..Len(s))
    BY FS_Interval
<1>2. ToSet(s) = {s[k] : k \in 1..Len(s)}
    BY <1>1 DEF ToSet
<1>3. s \in Surjection(1..Len(s), ToSet(s))
    BY <1>1, <1>2 DEF Surjection
<1>4. IsFiniteSet(ToSet(s))
    BY <1>1, <1>3, FS_Surjection
<1>5. \A k \in 1..Len(s) : s[k] \in W
    OBVIOUS
<1> QED
    BY <1>2, <1>4, <1>5

-----------------------------------------------------------------------------
(* Sequences, one element after the other.                                 *)

\* What holds of the empty sequence, and of a sequence that grows.
LEMMA SequencesGrow ==
    ASSUME NEW V, NEW T, <<>> \in T,
           \A s \in Seq(V), x \in V : s \in T => Append(s, x) \in T
    PROVE  Seq(V) \subseteq T
<1> SUFFICES ASSUME NEW s0 \in Seq(V), s0 \notin T PROVE FALSE
    OBVIOUS
<1> DEFINE S == {n \in Nat : \E s \in Seq(V) : Len(s) = n /\ s \notin T}
<1>1. PICK m \in S : \A n \in S : m <= n
  <2>1. Len(s0) \in S
      OBVIOUS
  <2> QED
      BY <2>1, LeastNumber
<1>2. PICK s \in Seq(V) : Len(s) = m /\ s \notin T
    BY <1>1
<1>3. s # <<>>
    BY <1>2
<1>4. PICK t \in Seq(V), x \in V : s = Append(t, x)
    BY <1>3, SequenceEmptyOrAppend
<1>5. Len(t) = m - 1 /\ Len(t) \in Nat
    BY <1>2, <1>4, AppendProperties
<1>6. t \in T
    BY <1>1, <1>5
<1> QED
    BY <1>2, <1>4, <1>6

\* FlattenSeq is a recursion on the number of its sequences.
Flattens(f, seqs) ==
    /\ f[1] = seqs[1]
    /\ \A i \in 2..Len(seqs) : f[i] = f[i - 1] \o seqs[i]
LEMMA FlattenRecursion ==
    ASSUME NEW V, NEW seqs \in Seq(Seq(V)), seqs # <<>>
    PROVE  \E f \in [1..Len(seqs) -> Seq(V)] :
               FlattenSeq(seqs) = f[Len(seqs)] /\ Flattens(f, seqs)
<1> DEFINE n == Len(seqs)
           D == 1..n
           before == [i \in D |-> i - 1]
           join == [p \in D \X Seq(V) |-> p[2] \o seqs[p[1]]]
           size == [i \in D |-> i]
           rhs(g) == [i \in 1..Len(seqs) |-> IF i = 1 THEN seqs[i] ELSE g[i - 1] \o seqs[i]]
<1>1. n \in Nat /\ n # 0 /\ \A i \in D : seqs[i] \in Seq(V)
    BY EmptySeq
<1>2. Recursion(D, Seq(V), {1}, seqs, before, join, size)
  <2>1. size \in [D -> Nat]
      OBVIOUS
  <2>2. \A i \in D : i \notin {1} => before[i] \in D /\ size[before[i]] < size[i]
      BY <1>1
  <2>3. \A i \in D, v \in Seq(V) : join[<<i, v>>] \in Seq(V)
    <3> SUFFICES ASSUME NEW i \in D, NEW v \in Seq(V) PROVE join[<<i, v>>] \in Seq(V)
        OBVIOUS
    <3>1. join[<<i, v>>] = v \o seqs[i]
        OBVIOUS
    <3> QED
        BY <1>1, <3>1, ConcatProperties
  <2>4. Seq(V) # {}
      BY <1>1
  <2> HIDE DEF size, before, join, D
  <2> QED
      BY <1>1, <2>1, <2>2, <2>3, <2>4 DEF Recursion, Ranked
<1>3. PICK g \in [D -> Seq(V)] : Solution(g, D, {1}, seqs, before, join)
  <2> HIDE DEF D, size, before, join
  <2> QED
      BY <1>2, RankedRecursion
<1>4. \A i \in D : g[i] = IF i = 1 THEN seqs[i] ELSE g[i - 1] \o seqs[i]
  <2> SUFFICES ASSUME NEW i \in D
               PROVE  g[i] = IF i = 1 THEN seqs[i] ELSE g[i - 1] \o seqs[i]
      OBVIOUS
  <2>1. g[i] = IF i \in {1} THEN seqs[i] ELSE join[<<i, g[before[i]]>>]
      BY <1>3 DEF Solution
  <2>4. i # 1 => i - 1 \in D
      BY <1>1
  <2>2. i # 1 => i - 1 \in D /\ before[i] = i - 1 /\ g[i - 1] \in Seq(V)
      BY <1>3, <2>4
  <2>3. i # 1 => join[<<i, g[i - 1]>>] = g[i - 1] \o seqs[i]
      BY <2>2
  <2> HIDE DEF join, before
  <2> QED
      BY <2>1, <2>2, <2>3
<1>5. g = rhs(g)
    BY <1>4
<1>6. \E h : FlattenSeq(seqs) = h[Len(seqs)] /\ h = rhs(h)
  <2> DEFINE h == CHOOSE h : h = rhs(h)
  <2>1. h = rhs(h)
      BY <1>5
  <2>2. FlattenSeq(seqs) = h[Len(seqs)]
      BY <1>1 DEF FlattenSeq
  <2> QED
      BY <2>1, <2>2
<1>7. PICK h : FlattenSeq(seqs) = h[Len(seqs)] /\ h = rhs(h)
    BY <1>6
<1>8. \A i \in D : h[i] = IF i = 1 THEN seqs[i] ELSE h[i - 1] \o seqs[i]
    BY <1>7
<1> DEFINE T == {i \in D : h[i] = g[i]}
<1>9. D \subseteq T
  <2>1. Ranked(D, {1}, before, size)
      BY <1>2 DEF Recursion
  <2>2. \A i \in D : i \in {1} => i \in T
      BY <1>4, <1>8
  <2>3. \A i \in D : i \notin {1} /\ before[i] \in T => i \in T
    <3> SUFFICES ASSUME NEW i \in D, i # 1, before[i] \in T PROVE i \in T
        OBVIOUS
    <3>1. before[i] = i - 1 /\ h[i - 1] = g[i - 1]
        OBVIOUS
    <3>2. h[i] = h[i - 1] \o seqs[i]
        BY <1>8
    <3>3. g[i] = g[i - 1] \o seqs[i]
        BY <1>4
    <3>4. h[i] = g[i]
        BY <3>1, <3>2, <3>3
    <3> QED
        BY <3>4
  <2> HIDE DEF D, before, size, T
  <2> QED
      BY <2>1, <2>2, <2>3, RankInduction
<1>12. 1 \in D /\ n \in D /\ \A i \in 2..n : i \in D /\ i # 1
    BY <1>1
<1>10. FlattenSeq(seqs) = g[Len(seqs)]
  <2>1. h[n] = g[n]
      BY <1>9, <1>12
  <2> QED
      BY <1>7, <2>1
<1>11. Flattens(g, seqs)
  <2>1. g[1] = seqs[1]
      BY <1>4, <1>12
  <2>2. \A i \in 2..n : g[i] = g[i - 1] \o seqs[i]
    <3> HIDE DEF D
    <3> QED
        BY <1>4, <1>12
  <2> QED
      BY <2>1, <2>2 DEF Flattens
<1> QED
    BY <1>3, <1>10, <1>11

LEMMA FlattenEmpty == FlattenSeq(<<>>) = <<>>
    BY DEF FlattenSeq

LEMMA FlattenAppend ==
    ASSUME NEW V, NEW seqs \in Seq(Seq(V)), NEW x \in Seq(V)
    PROVE  /\ FlattenSeq(seqs) \in Seq(V)
           /\ FlattenSeq(Append(seqs, x)) = FlattenSeq(seqs) \o x
<1> DEFINE n == Len(seqs)
           more == Append(seqs, x)
<1>1. /\ n \in Nat /\ more \in Seq(Seq(V)) /\ Len(more) = n + 1 /\ more[n + 1] = x
      /\ \A i \in 1..n : more[i] = seqs[i]
    BY AppendProperties
<1>2. more # <<>>
  <2>1. Len(<<>>) = 0
      OBVIOUS
  <2> HIDE DEF more
  <2> QED
      BY <1>1, <2>1
<1> HIDE DEF more
<1>3. PICK g \in [1..n + 1 -> Seq(V)] : FlattenSeq(more) = g[n + 1] /\ Flattens(g, more)
  <2>1. \E g \in [1..Len(more) -> Seq(V)] : FlattenSeq(more) = g[Len(more)] /\ Flattens(g, more)
      BY <1>1, <1>2, FlattenRecursion
  <2> QED
      BY <1>1, <2>1
<1>4. CASE seqs = <<>>
  <2>1. FlattenSeq(seqs) = <<>> /\ n = 0
      BY <1>4, FlattenEmpty
  <2>2. FlattenSeq(more) = x
      BY <1>1, <1>3, <2>1 DEF Flattens
  <2> QED
      BY <2>1, <2>2, ConcatEmptySeq DEF more
<1>5. CASE seqs # <<>>
  <2>1. PICK f \in [1..n -> Seq(V)] : FlattenSeq(seqs) = f[n] /\ Flattens(f, seqs)
      BY <1>5, FlattenRecursion
  <2>2. n \in 1..n /\ n # 0
      BY <1>1, <1>5, EmptySeq
  <2> DEFINE Bad == {i \in 1..n : f[i] # g[i]}
  <2>3. Bad = {}
    <3> SUFFICES ASSUME Bad # {} PROVE FALSE
        OBVIOUS
    <3>1. Bad \in SUBSET Nat
        OBVIOUS
    <3>2. PICK i \in Bad : \A j \in Bad : i <= j
      <4> HIDE DEF Bad
      <4> QED
          BY <3>1, LeastNumber
    <3>3. i \in 1..n /\ f[i] # g[i] /\ more[i] = seqs[i]
        BY <1>1, <3>2
    <3>4. CASE i = 1
        BY <3>3, <3>4, <2>1, <1>3 DEF Flattens
    <3>5. CASE i # 1
      <4>1. i \in 2..n /\ i \in 2..n + 1 /\ i - 1 \in 1..n
          BY <1>1, <3>3, <3>5
      <4>2. i - 1 \notin Bad
        <5>1. ~(i <= i - 1)
            BY <4>1
        <5> QED
            BY <3>2, <5>1
      <4>3. f[i - 1] = g[i - 1]
          BY <4>1, <4>2
      <4>4. f[i] = f[i - 1] \o seqs[i]
          BY <4>1, <2>1 DEF Flattens
      <4>5. g[i] = g[i - 1] \o more[i]
          BY <4>1, <1>1, <1>3 DEF Flattens
      <4> QED
          BY <3>3, <4>3, <4>4, <4>5
    <3> QED
        BY <3>4, <3>5
  <2>4. f[n] = g[n]
      BY <2>2, <2>3
  <2>5. g[n + 1] = g[n] \o x
    <3>1. n + 1 \in 2..Len(more) /\ (n + 1) - 1 = n
        BY <1>1, <2>2
    <3>2. g[n + 1] = g[(n + 1) - 1] \o more[n + 1]
        BY <3>1, <1>3 DEF Flattens
    <3> QED
        BY <1>1, <3>1, <3>2
  <2>6. f[n] \in Seq(V)
      BY <2>1, <2>2
  <2> QED
      BY <1>3, <2>1, <2>4, <2>5, <2>6 DEF more
<1> QED
    BY <1>4, <1>5

\* What a function makes of the elements, one after the other.
Spread(op, s) == FlattenSeq([i \in DOMAIN s |-> op[s[i]]])

LEMMA SpreadAppend ==
    ASSUME NEW C, NEW V, NEW op \in [C -> Seq(V)], NEW s \in Seq(C), NEW x \in C
    PROVE  /\ Spread(op, s) \in Seq(V)
           /\ Spread(op, Append(s, x)) = Spread(op, s) \o op[x]
<1> DEFINE mapped(t) == [i \in DOMAIN t |-> op[t[i]]]
           n == Len(s)
<1>1. /\ n \in Nat /\ DOMAIN s = 1..n /\ Append(s, x) \in Seq(C)
      /\ DOMAIN Append(s, x) = 1..n + 1 /\ Append(s, x)[n + 1] = x
      /\ \A i \in 1..n : Append(s, x)[i] = s[i] /\ s[i] \in C
    BY AppendProperties
<1>2. mapped(s) \in Seq(Seq(V)) /\ Len(mapped(s)) = n /\ \A i \in 1..n : mapped(s)[i] = op[s[i]]
    BY <1>1
<1>3. op[x] \in Seq(V)
    OBVIOUS
<1>4. mapped(Append(s, x)) = Append(mapped(s), op[x])
  <2> DEFINE a == mapped(Append(s, x))
             b == Append(mapped(s), op[x])
  <2>1. a \in Seq(Seq(V)) /\ Len(a) = n + 1 /\ \A i \in 1..n + 1 : a[i] = op[Append(s, x)[i]]
      BY <1>1
  <2>2. /\ b \in Seq(Seq(V)) /\ Len(b) = n + 1 /\ b[n + 1] = op[x]
        /\ \A i \in 1..n : b[i] = mapped(s)[i]
    <3> HIDE DEF mapped
    <3> QED
        BY <1>1, <1>2, <1>3, AppendProperties
  <2> HIDE DEF a, b, mapped
  <2>3. ASSUME NEW i \in 1..n + 1 PROVE a[i] = b[i]
    <3>1. CASE i \in 1..n
        BY <1>1, <1>2, <2>1, <2>2, <3>1
    <3>2. CASE i = n + 1
        BY <1>1, <2>1, <2>2, <3>2
    <3> QED
        BY <1>1, <3>1, <3>2
  <2>4. a = b
      BY <2>1, <2>2, <2>3, SeqEqual
  <2> QED
      BY <2>4 DEF a, b
<1>5. /\ FlattenSeq(mapped(s)) \in Seq(V)
      /\ FlattenSeq(Append(mapped(s), op[x])) = FlattenSeq(mapped(s)) \o op[x]
  <2> HIDE DEF mapped
  <2> QED
      BY <1>2, <1>3, FlattenAppend
<1> QED
    BY <1>4, <1>5 DEF Spread

LEMMA SpreadEmpty == ASSUME NEW op PROVE Spread(op, <<>>) = <<>>
<1>1. DOMAIN <<>> = {}
    OBVIOUS
<1>2. [i \in DOMAIN <<>> |-> op[<<>>[i]]] = <<>>
    OBVIOUS
<1> QED
    BY <1>2, FlattenEmpty DEF Spread

\* One element, and elements behind others.
Spreads(C, V, op) ==
    /\ Spread(op, <<>>) = <<>>
    /\ \A x \in C : Spread(op, <<x>>) = op[x]
    /\ \A s \in Seq(C) : Spread(op, s) \in Seq(V)
    /\ \A s, t \in Seq(C) : Spread(op, s \o t) = Spread(op, s) \o Spread(op, t)
LEMMA SpreadConcat == ASSUME NEW C, NEW V, NEW op \in [C -> Seq(V)] PROVE Spreads(C, V, op)
<1>0. \A s \in Seq(C), x \in C :
          /\ Spread(op, s) \in Seq(V)
          /\ Spread(op, Append(s, x)) = Spread(op, s) \o op[x]
    BY SpreadAppend
<1>1. <<>> \in Seq(C) /\ <<>> \in Seq(V) /\ \A x \in C : Append(<<>>, x) = <<x>>
    OBVIOUS
<1>2. ASSUME NEW x \in C PROVE Spread(op, <<x>>) = op[x]
  <2>1. Spread(op, Append(<<>>, x)) = Spread(op, <<>>) \o op[x]
      BY <1>0, <1>1
  <2>2. op[x] \in Seq(V)
      OBVIOUS
  <2> QED
      BY <1>1, <2>1, <2>2, SpreadEmpty, ConcatEmptySeq
<1>3. ASSUME NEW s \in Seq(C) PROVE Spread(op, s) \in Seq(V)
  <2>1. CASE s = <<>>
      BY <1>1, <2>1, SpreadEmpty
  <2>2. CASE s # <<>>
    <3>1. PICK t \in Seq(C), x \in C : s = Append(t, x)
        BY <2>2, SequenceEmptyOrAppend
    <3>2. Spread(op, t) \in Seq(V) /\ op[x] \in Seq(V)
        BY <1>0
    <3>3. Spread(op, s) = Spread(op, t) \o op[x]
        BY <1>0, <3>1
    <3> QED
        BY <3>2, <3>3, ConcatProperties
  <2> QED
      BY <2>1, <2>2
<1>4. ASSUME NEW s \in Seq(C)
      PROVE  \A t \in Seq(C) : Spread(op, s \o t) = Spread(op, s) \o Spread(op, t)
  <2> DEFINE T == {t \in Seq(C) : Spread(op, s \o t) = Spread(op, s) \o Spread(op, t)}
  <2>1. <<>> \in T
    <3>1. s \o <<>> = s
        BY ConcatEmptySeq
    <3>2. Spread(op, s) \o <<>> = Spread(op, s)
        BY <1>3, ConcatEmptySeq
    <3> QED
        BY <1>1, <3>1, <3>2, SpreadEmpty
  <2>2. ASSUME NEW t \in Seq(C), NEW x \in C, t \in T PROVE Append(t, x) \in T
    <3>1. s \o t \in Seq(C)
        BY ConcatProperties
    <3>2. s \o Append(t, x) = Append(s \o t, x)
        OBVIOUS
    <3>3. Spread(op, s \o Append(t, x)) = Spread(op, s \o t) \o op[x]
        BY <1>0, <3>1, <3>2
    <3>4. Spread(op, s \o t) = Spread(op, s) \o Spread(op, t)
        BY <2>2
    <3>5. Spread(op, s) \in Seq(V) /\ Spread(op, t) \in Seq(V) /\ op[x] \in Seq(V)
        BY <1>3
    <3>6. (Spread(op, s) \o Spread(op, t)) \o op[x] = Spread(op, s) \o (Spread(op, t) \o op[x])
        BY <3>5, ConcatAssociative
    <3>7. Spread(op, t) \o op[x] = Spread(op, Append(t, x))
        BY <1>0
    <3>8. Append(t, x) \in Seq(C)
        BY AppendProperties
    <3> QED
        BY <3>3, <3>4, <3>6, <3>7, <3>8
  <2>3. Seq(C) \subseteq T
    <3> HIDE DEF T
    <3> QED
        BY <2>1, <2>2, SequencesGrow
  <2> QED
      BY <2>3
<1> QED
    BY <1>2, <1>3, <1>4, SpreadEmpty DEF Spreads

-----------------------------------------------------------------------------
(* Walks: from a position to a later one, a unit is written at each.       *)

Forward(n, V, unit, next) ==
    /\ n \in Nat
    /\ \A i \in 1..n : unit[i] \in Seq(V) /\ next[i] \in 1..n + 1 /\ i < next[i]
Walks(f, n, unit, next) ==
    /\ f[n + 1] = <<>>
    /\ \A i \in 1..n : f[i] = unit[i] \o f[next[i]]

\* Induction from the end of the walk.
LEMMA WalkInduction ==
    ASSUME NEW n, NEW V, NEW unit, NEW next, Forward(n, V, unit, next), NEW T,
           n + 1 \in T, \A i \in 1..n : next[i] \in T => i \in T
    PROVE  1..n + 1 \subseteq T
<1> SUFFICES ASSUME NEW i0 \in 1..n + 1, i0 \notin T PROVE FALSE
    OBVIOUS
<1> DEFINE S == {k \in Nat : \E i \in 1..n + 1 : k = n + 1 - i /\ i \notin T}
<1>0. n \in Nat
    BY DEF Forward
<1>1. PICK m \in S : \A k \in S : m <= k
  <2>1. n + 1 - i0 \in S
      BY <1>0
  <2> QED
      BY <2>1, LeastNumber
<1>2. PICK i \in 1..n + 1 : m = n + 1 - i /\ i \notin T
    BY <1>1
<1>3. i \in 1..n
    BY <1>0, <1>2
<1>4. next[i] \in 1..n + 1 /\ i < next[i]
    BY <1>3 DEF Forward
<1>5. next[i] \in T
  <2>1. n + 1 - next[i] \in Nat /\ ~(m <= n + 1 - next[i])
      BY <1>0, <1>2, <1>4
  <2> QED
      BY <1>1, <1>4, <2>1
<1> QED
    BY <1>2, <1>3, <1>5

LEMMA WalkExists ==
    ASSUME NEW n, NEW V, NEW unit, NEW next, Forward(n, V, unit, next)
    PROVE  \E f \in [1..n + 1 -> Seq(V)] : Walks(f, n, unit, next)
<1> DEFINE D == 1..n + 1
           stop == [i \in D |-> <<>>]
           write == [p \in D \X Seq(V) |-> unit[p[1]] \o p[2]]
           left == [i \in D |-> n + 1 - i]
<1>1. n \in Nat /\ \A i \in D : (i \notin {n + 1} <=> i \in 1..n)
    BY DEF Forward
<1>2. Recursion(D, Seq(V), {n + 1}, stop, next, write, left)
  <2>1. left \in [D -> Nat]
      BY <1>1
  <2>2. \A i \in D : i \notin {n + 1} => next[i] \in D /\ left[next[i]] < left[i]
    <3> SUFFICES ASSUME NEW i \in 1..n PROVE next[i] \in D /\ left[next[i]] < left[i]
        BY <1>1
    <3>1. next[i] \in D /\ i < next[i] /\ i \in D
        BY <1>1 DEF Forward
    <3>2. left[next[i]] = n + 1 - next[i] /\ left[i] = n + 1 - i
        BY <3>1
    <3> HIDE DEF left
    <3> QED
        BY <1>1, <3>1, <3>2
  <2>3. \A i \in D, v \in Seq(V) : i \notin {n + 1} => write[<<i, v>>] \in Seq(V)
    <3> SUFFICES ASSUME NEW i \in 1..n, NEW v \in Seq(V) PROVE write[<<i, v>>] \in Seq(V)
        BY <1>1
    <3>3. i \in D
        BY <1>1
    <3>1. write[<<i, v>>] = unit[i] \o v
        BY <3>3
    <3>2. unit[i] \in Seq(V)
        BY DEF Forward
    <3> QED
        BY <3>1, <3>2, ConcatProperties
  <2>4. \A i \in D : stop[i] \in Seq(V)
      OBVIOUS
  <2>5. Seq(V) # {}
    <3>1. <<>> \in Seq(V)
        OBVIOUS
    <3> QED
        BY <3>1
  <2> HIDE DEF left, write, stop, D
  <2> QED
      BY <2>1, <2>2, <2>3, <2>4, <2>5 DEF Recursion, Ranked
<1>3. PICK f \in [D -> Seq(V)] : Solution(f, D, {n + 1}, stop, next, write)
  <2> HIDE DEF D, left, write, stop
  <2> QED
      BY <1>2, RankedRecursion
<1>4. f[n + 1] = <<>>
  <2>1. n + 1 \in D
      BY <1>1
  <2>2. f[n + 1] = stop[n + 1]
      BY <1>3, <2>1 DEF Solution
  <2> QED
      BY <2>1, <2>2
<1>5. ASSUME NEW i \in 1..n PROVE f[i] = unit[i] \o f[next[i]]
  <2>1. i \in D /\ i \notin {n + 1} /\ next[i] \in D
      BY <1>1 DEF Forward
  <2>2. f[i] = write[<<i, f[next[i]]>>]
      BY <1>3, <2>1 DEF Solution
  <2>3. f[next[i]] \in Seq(V)
      BY <1>3, <2>1
  <2> QED
      BY <2>1, <2>2, <2>3
<1> QED
    BY <1>3, <1>4, <1>5 DEF Walks

LEMMA WalkStays ==
    ASSUME NEW n, NEW V, NEW unit, NEW next, Forward(n, V, unit, next),
           NEW f, Walks(f, n, unit, next)
    PROVE  \A i \in 1..n + 1 : f[i] \in Seq(V)
<1> DEFINE T == {i \in 1..n + 1 : f[i] \in Seq(V)}
<1>1. n + 1 \in T
  <2>1. n + 1 \in 1..n + 1
      BY DEF Forward
  <2>2. <<>> \in Seq(V)
      OBVIOUS
  <2> QED
      BY <2>1, <2>2 DEF Walks
<1>2. ASSUME NEW i \in 1..n, next[i] \in T PROVE i \in T
  <2>1. f[i] = unit[i] \o f[next[i]] /\ unit[i] \in Seq(V) /\ f[next[i]] \in Seq(V)
      BY <1>2 DEF Walks, Forward
  <2>2. f[i] \in Seq(V)
      BY <2>1, ConcatProperties
  <2>3. i \in 1..n + 1
      BY DEF Forward
  <2> QED
      BY <2>2, <2>3
<1>3. 1..n + 1 \subseteq T
  <2> HIDE DEF T
  <2> QED
      BY <1>1, <1>2, WalkInduction
<1> QED
    BY <1>3

SameSteps(a, m, unit, next, part, step) ==
    \A i \in 1..m : unit[a + i] = part[i] /\ next[a + i] = a + step[i]

SameWalk(a, m, f, g) ==
    \A i \in 1..m + 1 : f[a + i] = g[i] \o f[a + m + 1]

\* A walk that does the same in a window does there what it would do alone.
LEMMA WalkWindow ==
    ASSUME NEW V,
           NEW n, NEW unit, NEW next, Forward(n, V, unit, next), NEW f, Walks(f, n, unit, next),
           NEW m, NEW part, NEW step, Forward(m, V, part, step), NEW g, Walks(g, m, part, step),
           NEW a \in Nat, a + m <= n, SameSteps(a, m, unit, next, part, step)
    PROVE  SameWalk(a, m, f, g)
<1> SUFFICES \A i \in 1..m + 1 : f[a + i] = g[i] \o f[a + m + 1]
    BY DEF SameWalk
<1> DEFINE T == {i \in 1..m + 1 : f[a + i] = g[i] \o f[a + m + 1]}
<1>1. n \in Nat /\ m \in Nat /\ a + m + 1 \in 1..n + 1
    BY DEF Forward
<1>2. \A i \in 1..n + 1 : f[i] \in Seq(V)
    BY WalkStays
<1>3. \A i \in 1..m + 1 : g[i] \in Seq(V)
    BY WalkStays
<1>4. m + 1 \in T
  <2>1. m + 1 \in 1..m + 1 /\ a + (m + 1) = a + m + 1
      BY <1>1
  <2>2. g[m + 1] = <<>> /\ f[a + m + 1] \in Seq(V)
      BY <1>1, <1>2 DEF Walks
  <2>3. g[m + 1] \o f[a + m + 1] = f[a + m + 1]
      BY <2>2, ConcatEmptySeq
  <2> QED
      BY <2>1, <2>3
<1>5. ASSUME NEW i \in 1..m, step[i] \in T PROVE i \in T
  <2>1. a + i \in 1..n /\ i \in 1..m + 1 /\ step[i] \in 1..m + 1
      BY <1>1 DEF Forward
  <2>2. f[a + i] = unit[a + i] \o f[next[a + i]]
      BY <2>1 DEF Walks
  <2>3. unit[a + i] = part[i] /\ next[a + i] = a + step[i]
      BY DEF SameSteps
  <2>4. f[a + step[i]] = g[step[i]] \o f[a + m + 1]
      BY <1>5
  <2>5. g[i] = part[i] \o g[step[i]] /\ part[i] \in Seq(V)
      BY DEF Walks, Forward
  <2>6. part[i] \o (g[step[i]] \o f[a + m + 1]) = (part[i] \o g[step[i]]) \o f[a + m + 1]
    <3>1. g[step[i]] \in Seq(V) /\ f[a + m + 1] \in Seq(V)
        BY <1>1, <1>2, <1>3, <2>1
    <3>2. PICK p \in Seq(V), q \in Seq(V), r \in Seq(V) :
              p = part[i] /\ q = g[step[i]] /\ r = f[a + m + 1]
        BY <2>5, <3>1
    <3>3. p \o (q \o r) = (p \o q) \o r
        BY ConcatAssociative
    <3> QED
        BY <3>2, <3>3
  <2>7. f[a + i] = g[i] \o f[a + m + 1]
      BY <2>2, <2>3, <2>4, <2>5, <2>6
  <2> QED
      BY <2>1, <2>7
<1>6. 1..m + 1 \subseteq T
  <2> HIDE DEF T
  <2> QED
      BY <1>4, <1>5, WalkInduction
<1> QED
    BY <1>6
==============================================================================
