------------------------- MODULE Text_proofs -------------------------
(***************************************************************************)
(* The walks over characters, for all texts.                               *)
(*                                                                         *)
(* damerauLevenshteinDistance returns the bounded distance of any words,   *)
(* whatever the thread was asked before and however often: neither the     *)
(* rows that earlier calls left nor the row it gives up at show in the     *)
(* answer; and that distance counts edits.                                 *)
(*                                                                         *)
(* lexicalTokens takes any text apart so that nothing is lost, so that the *)
(* tokens on the two sides of a space do not depend on each other, and so  *)
(* that tokens stay what they are when they are tokenized again.           *)
(***************************************************************************)
EXTENDS EditDistance, Tokens, Phrases_proofs

-----------------------------------------------------------------------------
(* The least number, and the first cell.                                   *)

\* Least picks the least of some numbers.
LEMMA LeastProperties ==
    ASSUME NEW S \in SUBSET Nat, S # {}
    PROVE  Least(S) \in S /\ Least(S) \in Nat /\ \A m \in S : Least(S) <= m
<1>1. \E n \in S : \A m \in S : n <= m
    BY LeastNumber
<1> QED
    BY <1>1 DEF Least

\* Of some cells, one is first: in the topmost row, and leftmost there.  What
\* is shown of all cells of a table is shown of the first that is otherwise.
LEMMA FirstCell ==
    ASSUME NEW Bad \in SUBSET (Nat \X Nat), Bad # {}
    PROVE  \E i, j \in Nat :
               /\ <<i, j>> \in Bad
               /\ \A a, b \in Nat : <<a, b>> \in Bad => i < a \/ (i = a /\ j <= b)
<1> DEFINE Rows == {a \in Nat : \E b \in Nat : <<a, b>> \in Bad}
<1>1. PICK i \in Rows : \A a \in Rows : i <= a
  <2>1. Rows # {}
      OBVIOUS
  <2>2. Rows \in SUBSET Nat
      OBVIOUS
  <2> HIDE DEF Rows
  <2> QED
      BY <2>1, <2>2, LeastNumber
<1> DEFINE Columns == {b \in Nat : <<i, b>> \in Bad}
<1>2. PICK j \in Columns : \A b \in Columns : j <= b
  <2>1. Columns # {}
      BY <1>1
  <2>2. Columns \in SUBSET Nat
      OBVIOUS
  <2> HIDE DEF Columns
  <2> QED
      BY <2>1, <2>2, LeastNumber
<1>3. \A a, b \in Nat : <<a, b>> \in Bad => i < a \/ (i = a /\ j <= b)
  <2> SUFFICES ASSUME NEW a \in Nat, NEW b \in Nat, <<a, b>> \in Bad
               PROVE  i < a \/ (i = a /\ j <= b)
      OBVIOUS
  <2>1. a \in Rows
      OBVIOUS
  <2>2. i <= a
      BY <1>1, <2>1
  <2>3. i = a => j <= b
      BY <1>2
  <2> QED
      BY <2>2, <2>3, <1>1
<1> QED
    BY <1>1, <1>2, <1>3

-----------------------------------------------------------------------------
(* The table.                                                              *)

\* The cells of a table are numbers.
LEMMA CellType ==
    ASSUME NEW l \in Seq(Alphabet), NEW r \in Seq(Alphabet), NEW d, IsAlignment(l, r, d),
           NEW i \in 0..Len(l), NEW j \in 0..Len(r)
    PROVE  d[i][j] \in Nat
<1>1. d[i] \in [0..Len(r) -> Nat]
    BY DEF IsAlignment
<1> QED
    BY <1>1

\* What IsAlignment says of one cell, without Least: how large it is at most,
\* and the cell it comes from.
LEMMA CellProperties ==
    ASSUME NEW l \in Seq(Alphabet), NEW r \in Seq(Alphabet), NEW d, IsAlignment(l, r, d),
           NEW i \in 1..Len(l), NEW j \in 1..Len(r)
    PROVE  /\ d[i][j] <= d[i - 1][j] + 1
           /\ d[i][j] <= d[i][j - 1] + 1
           /\ d[i][j] <= d[i - 1][j - 1] + SubstitutionCost(l, r, i, j)
           /\ Swapped(l, r, i, j) => d[i][j] <= d[i - 2][j - 2] + 1
           /\ \/ d[i][j] = d[i - 1][j] + 1
              \/ d[i][j] = d[i][j - 1] + 1
              \/ d[i][j] = d[i - 1][j - 1] + SubstitutionCost(l, r, i, j)
              \/ /\ i > 1 /\ j > 1 /\ d[i][j] = d[i - 2][j - 2] + 1
                 /\ l[i] = r[j - 1] /\ l[i - 1] = r[j]
<1>1. /\ i - 1 \in 0..Len(l) /\ j - 1 \in 0..Len(r)
      /\ i \in 0..Len(l) /\ j \in 0..Len(r)
      /\ i > 1 => i - 2 \in 0..Len(l)
      /\ j > 1 => j - 2 \in 0..Len(r)
    OBVIOUS
<1>2. d[i - 1][j] \in Nat /\ d[i][j - 1] \in Nat /\ d[i - 1][j - 1] \in Nat
    BY <1>1, CellType
<1>3. SubstitutionCost(l, r, i, j) \in Nat
    BY DEF SubstitutionCost
<1>4. d[i - 1][j] + 1 \in Nat
    BY <1>2
<1>5. d[i][j - 1] + 1 \in Nat
    BY <1>2
<1>6. d[i - 1][j - 1] + SubstitutionCost(l, r, i, j) \in Nat
    BY <1>2, <1>3
<1> DEFINE swap == IF i > 1 /\ j > 1 /\ l[i] = r[j - 1] /\ l[i - 1] = r[j]
                   THEN {d[i - 2][j - 2] + 1} ELSE {}
           plain == {d[i - 1][j] + 1, d[i][j - 1] + 1,
                     d[i - 1][j - 1] + SubstitutionCost(l, r, i, j)}
<1>7. d[i][j] = Least(plain \cup swap)
    BY DEF IsAlignment
<1>8. swap \in SUBSET Nat
  <2>1. CASE i > 1 /\ j > 1
    <3>1. d[i - 2][j - 2] \in Nat
        BY <2>1, <1>1, CellType
    <3> QED
        BY <3>1
  <2>2. CASE ~(i > 1 /\ j > 1)
      BY <2>2
  <2> QED
      BY <2>1, <2>2
<1>9. plain \in SUBSET Nat /\ plain # {}
    BY <1>4, <1>5, <1>6
<1>10. /\ \A m \in swap : i > 1 /\ j > 1 /\ m = d[i - 2][j - 2] + 1
                          /\ l[i] = r[j - 1] /\ l[i - 1] = r[j]
       /\ Swapped(l, r, i, j) => d[i - 2][j - 2] + 1 \in swap
    BY DEF Swapped
<1>11. d[i][j] \in plain \cup swap /\ \A m \in plain \cup swap : d[i][j] <= m
  <2>1. plain \cup swap \in SUBSET Nat /\ plain \cup swap # {}
      BY <1>8, <1>9
  <2> HIDE DEF plain, swap
  <2> QED
      BY <1>7, <2>1, LeastProperties
<1> HIDE DEF swap
<1> QED
    BY <1>10, <1>11

\* Words whose lengths differ are at least so far apart: the early return for
\* such words is right.
LEMMA LengthsBound ==
    ASSUME NEW l \in Seq(Alphabet), NEW r \in Seq(Alphabet), NEW d, IsAlignment(l, r, d)
    PROVE  \A i \in 0..Len(l), j \in 0..Len(r) : i - j <= d[i][j] /\ j - i <= d[i][j]
<1> DEFINE Bad == {c \in (0..Len(l)) \X (0..Len(r)) :
                     ~(c[1] - c[2] <= d[c[1]][c[2]] /\ c[2] - c[1] <= d[c[1]][c[2]])}
<1> SUFFICES ASSUME Bad # {} PROVE FALSE
  <2>1. \A i \in 0..Len(l), j \in 0..Len(r) :
            <<i, j>> \notin Bad => i - j <= d[i][j] /\ j - i <= d[i][j]
      OBVIOUS
  <2> HIDE DEF Bad
  <2> QED
      BY <2>1
<1>1. \A i, j \in Nat : <<i, j>> \in Bad <=>
          i <= Len(l) /\ j <= Len(r) /\ ~(i - j <= d[i][j] /\ j - i <= d[i][j])
    OBVIOUS
<1>2. Bad \in SUBSET (Nat \X Nat)
    OBVIOUS
<1> HIDE DEF Bad
<1>3. PICK i \in Nat, j \in Nat :
          /\ <<i, j>> \in Bad
          /\ \A a, b \in Nat : <<a, b>> \in Bad => i < a \/ (i = a /\ j <= b)
    BY <1>2, FirstCell
<1>4. i \in 0..Len(l) /\ j \in 0..Len(r) /\ ~(i - j <= d[i][j] /\ j - i <= d[i][j])
  <2>1. i <= Len(l) /\ j <= Len(r) /\ ~(i - j <= d[i][j] /\ j - i <= d[i][j])
      BY <1>1, <1>3
  <2>2. i \in 0..Len(l) /\ j \in 0..Len(r)
      BY <2>1
  <2> QED
      BY <2>1, <2>2
<1>5. \A a, b \in Nat : a <= Len(l) /\ b <= Len(r) /\ (a < i \/ (a = i /\ b < j))
          => a - b <= d[a][b] /\ b - a <= d[a][b]
  <2> SUFFICES ASSUME NEW a \in Nat, NEW b \in Nat, a <= Len(l), b <= Len(r),
                      a < i \/ (a = i /\ b < j)
               PROVE  a - b <= d[a][b] /\ b - a <= d[a][b]
      OBVIOUS
  <2>1. <<a, b>> \notin Bad
      BY <1>3
  <2> QED
      BY <1>1, <2>1
<1>6. CASE i = 0 \/ j = 0
    BY <1>4, <1>6 DEF IsAlignment
<1>7. CASE i > 0 /\ j > 0
  <2>1. i \in 1..Len(l) /\ j \in 1..Len(r)
      BY <1>4, <1>7
  <2>2. SubstitutionCost(l, r, i, j) \in {0, 1}
      BY DEF SubstitutionCost
  <2>3. /\ (i - 1) - j <= d[i - 1][j] /\ j - (i - 1) <= d[i - 1][j]
        /\ i - (j - 1) <= d[i][j - 1] /\ (j - 1) - i <= d[i][j - 1]
        /\ i - j <= d[i - 1][j - 1] /\ j - i <= d[i - 1][j - 1]
    <3>1. i - 1 \in Nat /\ j - 1 \in Nat /\ i <= Len(l) /\ j <= Len(r)
        BY <2>1
    <3>2. (i - 1) - j <= d[i - 1][j] /\ j - (i - 1) <= d[i - 1][j]
        BY <3>1, <1>5
    <3>3. i - (j - 1) <= d[i][j - 1] /\ (j - 1) - i <= d[i][j - 1]
        BY <3>1, <1>5
    <3>4. (i - 1) - (j - 1) <= d[i - 1][j - 1] /\ (j - 1) - (i - 1) <= d[i - 1][j - 1]
        BY <3>1, <1>5
    <3> QED
        BY <3>2, <3>3, <3>4
  <2>4. i > 1 /\ j > 1 => i - j <= d[i - 2][j - 2] /\ j - i <= d[i - 2][j - 2]
    <3> SUFFICES ASSUME i > 1, j > 1
                 PROVE  i - j <= d[i - 2][j - 2] /\ j - i <= d[i - 2][j - 2]
        OBVIOUS
    <3>1. i - 2 \in Nat /\ j - 2 \in Nat /\ i - 2 <= Len(l) /\ j - 2 <= Len(r) /\ i - 2 < i
        BY <2>1
    <3>2. (i - 2) - (j - 2) <= d[i - 2][j - 2] /\ (j - 2) - (i - 2) <= d[i - 2][j - 2]
        BY <3>1, <1>5
    <3> QED
        BY <3>2
  <2>5. /\ d[i - 1][j] \in Nat /\ d[i][j - 1] \in Nat /\ d[i - 1][j - 1] \in Nat /\ d[i][j] \in Nat
        /\ i > 1 /\ j > 1 => d[i - 2][j - 2] \in Nat
    <3>1. /\ i - 1 \in 0..Len(l) /\ j - 1 \in 0..Len(r)
          /\ i > 1 => i - 2 \in 0..Len(l)
          /\ j > 1 => j - 2 \in 0..Len(r)
        BY <2>1
    <3> QED
        BY <3>1, <1>4, CellType
  <2>6. \/ d[i][j] = d[i - 1][j] + 1
        \/ d[i][j] = d[i][j - 1] + 1
        \/ d[i][j] = d[i - 1][j - 1] + SubstitutionCost(l, r, i, j)
        \/ i > 1 /\ j > 1 /\ d[i][j] = d[i - 2][j - 2] + 1
      BY <2>1, CellProperties
  <2>7. PICK n \in Nat : n = d[i][j]
      BY <2>5
  <2>8. ~(i - j <= n /\ j - i <= n)
      BY <1>4, <2>7
  <2>9. CASE d[i][j] = d[i - 1][j] + 1
    <3>1. PICK m \in Nat : m = d[i - 1][j]
        BY <2>5
    <3>2. n = m + 1 /\ (i - 1) - j <= m /\ j - (i - 1) <= m
        BY <2>3, <2>9, <2>7, <3>1
    <3> QED
        BY <2>8, <3>2
  <2>10. CASE d[i][j] = d[i][j - 1] + 1
    <3>1. PICK m \in Nat : m = d[i][j - 1]
        BY <2>5
    <3>2. n = m + 1 /\ i - (j - 1) <= m /\ (j - 1) - i <= m
        BY <2>3, <2>10, <2>7, <3>1
    <3> QED
        BY <2>8, <3>2
  <2>11. CASE d[i][j] = d[i - 1][j - 1] + SubstitutionCost(l, r, i, j)
    <3>1. PICK m \in Nat : m = d[i - 1][j - 1]
        BY <2>5
    <3>2. PICK c \in {0, 1} : c = SubstitutionCost(l, r, i, j)
        BY <2>2
    <3>3. n = m + c /\ i - j <= m /\ j - i <= m
        BY <2>3, <2>11, <2>7, <3>1, <3>2
    <3> QED
        BY <2>8, <3>3
  <2>12. CASE i > 1 /\ j > 1 /\ d[i][j] = d[i - 2][j - 2] + 1
    <3>1. PICK m \in Nat : m = d[i - 2][j - 2]
        BY <2>5, <2>12
    <3>2. n = m + 1 /\ i - j <= m /\ j - i <= m
        BY <2>4, <2>12, <2>7, <3>1
    <3> QED
        BY <2>8, <3>2
  <2> QED
      BY <2>6, <2>9, <2>10, <2>11, <2>12
<1> QED
    BY <1>6, <1>7

\* A word is at no distance from itself: the early return for equal words is
\* right.
LEMMA Diagonal ==
    ASSUME NEW l \in Seq(Alphabet), NEW d, IsAlignment(l, l, d)
    PROVE  \A i \in 0..Len(l) : d[i][i] = 0
<1> DEFINE Bad == {i \in 0..Len(l) : d[i][i] # 0}
<1> SUFFICES ASSUME Bad # {} PROVE FALSE
    OBVIOUS
<1>1. Bad \in SUBSET Nat
    OBVIOUS
<1>2. \A i : i \in Bad <=> i \in 0..Len(l) /\ d[i][i] # 0
    OBVIOUS
<1> HIDE DEF Bad
<1>3. PICK i \in Bad : \A a \in Bad : i <= a
    BY <1>1, LeastNumber
<1>4. i # 0
    BY <1>2, <1>3 DEF IsAlignment
<1>5. i \in 1..Len(l) /\ i \in 0..Len(l) /\ i - 1 \in 0..Len(l) /\ ~(i <= i - 1)
    BY <1>2, <1>3, <1>4
<1>6. d[i - 1][i - 1] = 0
    BY <1>2, <1>3, <1>5
<1>7. SubstitutionCost(l, l, i, i) = 0
    BY DEF SubstitutionCost
<1>8. d[i][i] <= d[i - 1][i - 1] + SubstitutionCost(l, l, i, i)
    BY <1>5, CellProperties
<1>9. PICK n \in Nat : n = d[i][i]
    BY <1>5, CellType
<1>10. n <= 0
    BY <1>6, <1>7, <1>8, <1>9
<1>11. n # 0
    BY <1>2, <1>3, <1>9
<1> QED
    BY <1>10, <1>11

\* One row further down, a cell is larger by one at most.
LEMMA RowBelow ==
    ASSUME NEW l \in Seq(Alphabet), NEW r \in Seq(Alphabet), NEW d, IsAlignment(l, r, d),
           NEW i \in 1..Len(l), NEW j \in 0..Len(r)
    PROVE  d[i][j] <= d[i - 1][j] + 1
<1>1. CASE j = 0
  <2>1. i \in 0..Len(l) /\ i - 1 \in 0..Len(l)
      OBVIOUS
  <2>2. d[i][0] = i /\ d[i - 1][0] = i - 1
      BY <2>1 DEF IsAlignment
  <2> QED
      BY <1>1, <2>2
<1>2. CASE j \in 1..Len(r)
    BY <1>2, CellProperties
<1> QED
    BY <1>1, <1>2

\* Once a whole row exceeds a number, the answer does, although a
\* transposition reaches over a row: giving up there loses nothing.
LEMMA RowsGrow ==
    ASSUME NEW l \in Seq(Alphabet), NEW r \in Seq(Alphabet), NEW d, IsAlignment(l, r, d),
           NEW m \in Nat, NEW k \in 0..Len(l), \A c \in 0..Len(r) : d[k][c] > m
    PROVE  d[Len(l)][Len(r)] > m
<1> DEFINE Bad == {c \in (k..Len(l)) \X (0..Len(r)) : ~(d[c[1]][c[2]] > m)}
<1>1. \A i, j \in Nat : <<i, j>> \in Bad <=>
          k <= i /\ i <= Len(l) /\ j <= Len(r) /\ ~(d[i][j] > m)
    OBVIOUS
<1>2. Bad \in SUBSET (Nat \X Nat)
    OBVIOUS
<1>3. Len(l) \in Nat /\ Len(r) \in Nat /\ k \in Nat /\ k <= Len(l)
    OBVIOUS
<1> HIDE DEF Bad
<1> SUFFICES ASSUME Bad # {} PROVE FALSE
  <2>1. <<Len(l), Len(r)>> \notin Bad => d[Len(l)][Len(r)] > m
      BY <1>1, <1>3
  <2> QED
      BY <2>1
<1>4. PICK i \in Nat, j \in Nat :
          /\ <<i, j>> \in Bad
          /\ \A a, b \in Nat : <<a, b>> \in Bad => i < a \/ (i = a /\ j <= b)
    BY <1>2, FirstCell
<1>5. k <= i /\ i <= Len(l) /\ j <= Len(r) /\ ~(d[i][j] > m)
    BY <1>1, <1>4
<1>6. \A a, b \in Nat : k <= a /\ a <= Len(l) /\ b <= Len(r) /\ (a < i \/ (a = i /\ b < j))
          => d[a][b] > m
  <2> SUFFICES ASSUME NEW a \in Nat, NEW b \in Nat, k <= a, a <= Len(l), b <= Len(r),
                      a < i \/ (a = i /\ b < j)
               PROVE  d[a][b] > m
      OBVIOUS
  <2>1. <<a, b>> \notin Bad
      BY <1>4
  <2> QED
      BY <1>1, <2>1
<1>7. i > k
    BY <1>3, <1>5
<1>8. PICK n \in Nat : n = d[i][j]
  <2>1. i \in 0..Len(l) /\ j \in 0..Len(r)
      BY <1>5
  <2> QED
      BY <2>1, CellType
<1>9. n <= m
    BY <1>5, <1>8
<1>10. CASE j = 0
  <2>1. d[i][0] = i /\ d[k][0] = k
      BY <1>3, <1>5 DEF IsAlignment
  <2>2. k > m
      BY <1>3, <2>1
  <2> QED
      BY <1>7, <1>8, <1>9, <1>10, <2>1, <2>2
<1>11. CASE j > 0
  <2>1. i \in 1..Len(l) /\ j \in 1..Len(r) /\ i - 1 \in 0..Len(l) /\ j - 1 \in 0..Len(r)
      BY <1>3, <1>5, <1>7, <1>11
  <2>2. d[i - 1][j] > m /\ d[i][j - 1] > m /\ d[i - 1][j - 1] > m
      BY <2>1, <1>6, <1>5, <1>7
  <2>3. d[i - 1][j] \in Nat /\ d[i][j - 1] \in Nat /\ d[i - 1][j - 1] \in Nat
    <3>1. i \in 0..Len(l) /\ j \in 0..Len(r)
        BY <2>1
    <3> QED
        BY <2>1, <3>1, CellType
  <2>4. \/ d[i][j] = d[i - 1][j] + 1
        \/ d[i][j] = d[i][j - 1] + 1
        \/ d[i][j] = d[i - 1][j - 1] + SubstitutionCost(l, r, i, j)
        \/ i > 1 /\ j > 1 /\ d[i][j] = d[i - 2][j - 2] + 1
      BY <2>1, CellProperties
  <2>5. CASE d[i][j] = d[i - 1][j] + 1
    <3>1. PICK p \in Nat : p = d[i - 1][j]
        BY <2>3
    <3>2. n = p + 1 /\ p > m
        BY <2>2, <2>5, <1>8, <3>1
    <3> QED
        BY <1>9, <3>2
  <2>6. CASE d[i][j] = d[i][j - 1] + 1
    <3>1. PICK p \in Nat : p = d[i][j - 1]
        BY <2>3
    <3>2. n = p + 1 /\ p > m
        BY <2>2, <2>6, <1>8, <3>1
    <3> QED
        BY <1>9, <3>2
  <2>7. CASE d[i][j] = d[i - 1][j - 1] + SubstitutionCost(l, r, i, j)
    <3>1. PICK p \in Nat : p = d[i - 1][j - 1]
        BY <2>3
    <3>2. PICK c \in {0, 1} : c = SubstitutionCost(l, r, i, j)
        BY DEF SubstitutionCost
    <3>3. n = p + c /\ p > m
        BY <2>2, <2>7, <1>8, <3>1, <3>2
    <3> QED
        BY <1>9, <3>3
  <2>8. CASE i > 1 /\ j > 1 /\ d[i][j] = d[i - 2][j - 2] + 1
    <3>1. i - 2 \in Nat /\ j - 2 \in Nat /\ i - 2 \in 0..Len(l) /\ j - 2 \in 0..Len(r)
        BY <1>5, <2>8
    <3>2. PICK p \in Nat : p = d[i - 2][j - 2]
        BY <3>1, CellType
    <3>3. n = p + 1
        BY <2>8, <1>8, <3>2
    <3>4. CASE i - 2 >= k
      <4>1. d[i - 2][j - 2] > m
          BY <3>1, <3>4, <1>6, <1>5
      <4> QED
          BY <4>1, <3>2, <3>3, <1>9
    <3>5. CASE i - 2 < k
      <4>1. k = i - 1 /\ k \in 1..Len(l) /\ k - 1 = i - 2
          BY <3>5, <1>7, <1>3, <2>8
      <4>2. d[k][j - 2] <= p + 1
          BY <4>1, <3>1, <3>2, RowBelow
      <4>3. d[k][j - 2] > m
          BY <3>1
      <4>4. PICK q \in Nat : q = d[k][j - 2]
          BY <3>1, CellType
      <4> QED
          BY <4>2, <4>3, <4>4, <3>3, <1>9
    <3> QED
        BY <3>4, <3>5, <3>1, <1>3
  <2> QED
      BY <2>4, <2>5, <2>6, <2>7, <2>8
<1> QED
    BY <1>10, <1>11

-----------------------------------------------------------------------------
(* The types.                                                              *)

\* A question is about two words whose table is known.
LEMMA QuestionFacts ==
    ASSUME NEW q \in Questions
    PROVE  /\ q.left \in Seq(Alphabet) /\ q.right \in Seq(Alphabet) /\ q.maximum \in Nat
           /\ Len(q.left) \in Nat /\ Len(q.right) \in Nat
           /\ IsAlignment(q.left, q.right, Alignment[q.left][q.right])
           /\ q # Nothing
<1>1. q.left \in Words /\ q.right \in Words /\ q.maximum \in Maxima
    BY DEF Questions
<1>2. q.left \in Seq(Alphabet) /\ q.right \in Seq(Alphabet) /\ q.maximum \in Nat
    BY <1>1, WordsAssumption, MaximaAssumption
<1>3. IsAlignment(q.left, q.right, Alignment[q.left][q.right])
    BY <1>1, AlignmentAssumption
<1> QED
    BY <1>2, <1>3, QuestionsAssumption

\* The cost of a cell is a number, whatever the rows hold.
LEMMA CellIsNumber ==
    ASSUME TypeOK, pc = "column", column <= Len(asked.right)
    PROVE  Cell \in Nat
<1> DEFINE swap == IF Swapped(asked.left, asked.right, row, column)
                   THEN {previous_previous[column - 2] + 1} ELSE {}
           plain == {previous[column] + 1, current[column - 1] + 1,
                     previous[column - 1] + SubstitutionCost(asked.left, asked.right, row, column)}
<1>1. asked \in Questions
    BY DEF TypeOK
<1>2. Len(asked.right) \in Nat
    BY <1>1, QuestionFacts
<1>3. column \in 1..Len(asked.right)
    BY <1>2 DEF TypeOK
<1>4. /\ column \in DOMAIN previous /\ column - 1 \in DOMAIN previous
      /\ column - 1 \in DOMAIN current
      /\ column > 1 => column - 2 \in DOMAIN previous_previous
    BY <1>2, <1>3 DEF TypeOK
<1>5. previous[column] \in Nat /\ previous[column - 1] \in Nat /\ current[column - 1] \in Nat
    BY <1>4 DEF TypeOK, IsRow
<1>6. SubstitutionCost(asked.left, asked.right, row, column) \in Nat
    BY DEF SubstitutionCost
<1>7. plain \in SUBSET Nat /\ plain # {}
    BY <1>5, <1>6
<1>8. swap \in SUBSET Nat
  <2>1. CASE Swapped(asked.left, asked.right, row, column)
    <3>1. column > 1
        BY <2>1 DEF Swapped
    <3>2. previous_previous[column - 2] \in Nat
        BY <1>4, <3>1 DEF TypeOK, IsRow
    <3> QED
        BY <3>2, <2>1
  <2>2. CASE ~Swapped(asked.left, asked.right, row, column)
      BY <2>2
  <2> QED
      BY <2>1, <2>2
<1>9. Cell = Least(plain \cup swap)
    BY DEF Cell
<1> HIDE DEF plain, swap
<1> QED
    BY <1>7, <1>8, <1>9, LeastProperties

LEMMA TypeInit == Init => TypeOK
    BY DEF Init, TypeOK, IsRow, NoRow

\* Every action keeps the rows as long as the word they are for.
LEMMA TypeNext == TypeOK /\ [Next]_vars => TypeOK'
<1> SUFFICES ASSUME TypeOK, [Next]_vars PROVE TypeOK'
    OBVIOUS
<1> USE DEF TypeOK, IsRow
<1>1. CASE CallAtOnce
  <2>1. PICK q \in Questions :
            /\ Call(q)
            /\ \/ q.left = q.right /\ answer' = 0
               \/ q.left # q.right /\ TooFar(q) /\ answer' = q.maximum + 1
            /\ UNCHANGED <<pc, rows, cursor>>
      BY <1>1 DEF CallAtOnce
  <2>2. q.maximum \in Nat
      BY QuestionFacts
  <2> QED
      BY <2>1, <2>2, <1>1 DEF CallAtOnce, MayCall, Call, rows, cursor
<1>2. CASE Prepare
  <2>1. PICK q \in Questions :
            /\ Call(q)
            /\ previous_previous' = Numbered(previous_previous, Len(q.right) + 1)
            /\ previous' = Numbered(previous, Len(q.right) + 1)
            /\ current' = Resized(current, Len(q.right) + 1)
            /\ answer' = Nothing
            /\ pc' = "row" /\ row' = 1
            /\ UNCHANGED <<column, row_minimum>>
      BY <1>2 DEF Prepare
  <2>2. Len(q.left) \in Nat /\ Len(q.right) \in Nat /\ q # Nothing
      BY QuestionFacts
  <2>3. previous' \in [0..Len(q.right) -> Nat] /\ previous_previous' \in [0..Len(q.right) -> Nat]
      BY <2>1, <2>2 DEF Numbered
  <2>4. current' \in [0..Len(q.right) -> Nat]
      BY <2>1, <2>2 DEF Resized
  <2>5. asked' = q /\ calls' \in Nat
      BY <2>1 DEF Call
  <2>6. IsRow(previous)' /\ IsRow(previous_previous)' /\ IsRow(current)'
      BY <2>3, <2>4
  <2>7. /\ DOMAIN previous' = 0..Len(asked'.right)
        /\ DOMAIN previous_previous' = 0..Len(asked'.right)
        /\ DOMAIN current' = 0..Len(asked'.right)
        /\ row' \in 1..(Len(asked'.left) + 1)
      BY <2>1, <2>2, <2>3, <2>4, <2>5
  <2> QED
      BY <2>1, <2>2, <2>5, <2>6, <2>7
<1>3. CASE StartRow
  <2>1. Len(asked.left) \in Nat /\ Len(asked.right) \in Nat
      BY <1>3, QuestionFacts DEF StartRow
  <2>2. current' \in [0..Len(asked.right) -> Nat]
      BY <1>3 DEF StartRow
  <2> QED
      BY <1>3, <2>1, <2>2 DEF StartRow
<1>4. CASE FillCell
  <2>1. Len(asked.left) \in Nat /\ Len(asked.right) \in Nat
      BY <1>4, QuestionFacts DEF FillCell
  <2>2. Cell \in Nat
      BY <1>4, CellIsNumber DEF FillCell
  <2>3. row_minimum' \in Nat
      BY <1>4, <2>2, LeastProperties DEF FillCell
  <2>4. current' \in [0..Len(asked.right) -> Nat]
      BY <1>4, <2>2 DEF FillCell
  <2>5. IsRow(current)' /\ DOMAIN current' = 0..Len(asked.right)
      BY <2>4
  <2>6. /\ pc = "column" /\ asked # Nothing /\ pc' = pc /\ calls' = calls /\ asked' = asked
        /\ answer' = answer /\ previous_previous' = previous_previous /\ previous' = previous
        /\ row' = row
      BY <1>4 DEF FillCell
  <2>7. column' \in 1..Len(asked.right) + 1 /\ column' \in Nat
      BY <1>4, <2>1 DEF FillCell
  <2> HIDE DEF IsRow
  <2> QED
      BY <2>3, <2>5, <2>6, <2>7
<1>5. CASE GiveUp
  <2>1. asked.maximum \in Nat
      BY <1>5, QuestionFacts DEF GiveUp
  <2> QED
      BY <1>5, <2>1 DEF GiveUp, rows, cursor
<1>6. CASE EndRow
  <2>1. Len(asked.left) \in Nat
      BY <1>6, QuestionFacts DEF EndRow
  <2> QED
      BY <1>6, <2>1 DEF EndRow, RotateRows, NextRow
<1>7. CASE Return
  <2>1. Len(asked.right) \in DOMAIN previous
      BY <1>7, QuestionFacts DEF Return
  <2>2. answer' \in Nat
      BY <1>7, <2>1 DEF Return
  <2> QED
      BY <1>7, <2>2 DEF Return, rows, cursor
<1>8. CASE UNCHANGED vars
    BY <1>8 DEF vars, rows, cursor
<1> QED
    BY <1>1, <1>2, <1>3, <1>4, <1>5, <1>6, <1>7, <1>8 DEF Next, Work

\* In every call the three rows have one cell for every prefix of the right
\* word, and the cursor stays inside both words: no index of
\* damerauLevenshteinDistance leaves its row, however long the words before.
THEOREM TypeCorrectness == Spec => []TypeOK
<1> QED
    BY TypeInit, TypeNext, PTL DEF Spec

-----------------------------------------------------------------------------
(* What the rows hold.  It is inductive only together: a cell is right      *)
(* because the cells it is made from are, and these lie in all three rows.  *)

\* The cells of the table for the words being compared.
Reached(i, j) == Alignment[asked.left][asked.right][i][j]

\* Between two calls the last one is answered; in a call it is not.
Answered == (pc = "idle") <=> (asked = Nothing \/ answer # Nothing)

\* The two rows above the one being filled hold the distances of the prefixes.
FinishedRows ==
    pc # "idle" =>
        /\ \A c \in 0..Len(asked.right) : previous[c] = Reached(row - 1, c)
        /\ row > 1 =>
            \A c \in 0..Len(asked.right) : previous_previous[c] = Reached(row - 2, c)

\* The row being filled does, left of the cursor, and row_minimum is under it.
StartedRow ==
    pc = "column" =>
        \A c \in 0..(column - 1) :
            current[c] = Reached(row, c) /\ row_minimum <= Reached(row, c)

IInv == TypeOK /\ Answered /\ FinishedRows /\ StartedRow

\* The cell that is filled next is the distance of its prefixes.
LEMMA CellIsReached ==
    ASSUME IInv, pc = "column", column <= Len(asked.right)
    PROVE  Cell = Reached(row, column)
<1> DEFINE l == asked.left
           r == asked.right
           d == Alignment[asked.left][asked.right]
<1>1. asked \in Questions
    BY DEF IInv, TypeOK
<1>2. Len(l) \in Nat /\ Len(r) \in Nat /\ IsAlignment(l, r, d)
    BY <1>1, QuestionFacts
<1>3. row \in 1..Len(l) /\ column \in 1..Len(r)
    BY <1>1, <1>2 DEF IInv, TypeOK
<1>4. /\ column \in 0..Len(r) /\ column - 1 \in 0..Len(r)
      /\ column - 1 \in 0..(column - 1)
      /\ column > 1 => column - 2 \in 0..Len(r)
    BY <1>2, <1>3
<1>5. previous[column] = d[row - 1][column] /\ previous[column - 1] = d[row - 1][column - 1]
    BY <1>4 DEF IInv, FinishedRows, Reached
<1>6. current[column - 1] = d[row][column - 1]
    BY <1>4 DEF IInv, StartedRow, Reached
<1>7. row > 1 /\ column > 1 => previous_previous[column - 2] = d[row - 2][column - 2]
    BY <1>4 DEF IInv, FinishedRows, Reached
<1> DEFINE swap == IF /\ row > 1 /\ column > 1
                      /\ l[row] = r[column - 1] /\ l[row - 1] = r[column]
                   THEN {d[row - 2][column - 2] + 1} ELSE {}
           plain == {d[row - 1][column] + 1, d[row][column - 1] + 1,
                     d[row - 1][column - 1] + SubstitutionCost(l, r, row, column)}
           rowSwap == IF Swapped(l, r, row, column)
                      THEN {previous_previous[column - 2] + 1} ELSE {}
           rowPlain == {previous[column] + 1, current[column - 1] + 1,
                        previous[column - 1] + SubstitutionCost(l, r, row, column)}
<1>8. d[row][column] = Least(plain \cup swap)
  <2> HIDE DEF l, r, d
  <2> QED
      BY <1>2, <1>3 DEF IsAlignment
<1>9. Cell = Least(rowPlain \cup rowSwap)
    BY DEF Cell
<1>10. rowPlain = plain
  <2> HIDE DEF l, r, d
  <2> QED
      BY <1>5, <1>6
<1>11. rowSwap = swap
  <2> HIDE DEF l, r, d
  <2>1. CASE Swapped(l, r, row, column)
      BY <2>1, <1>7 DEF Swapped
  <2>2. CASE ~Swapped(l, r, row, column)
      BY <2>2 DEF Swapped
  <2> QED
      BY <2>1, <2>2
<1>12. Reached(row, column) = d[row][column]
    BY DEF Reached
<1> HIDE DEF l, r, d, plain, swap, rowPlain, rowSwap
<1> QED
    BY <1>8, <1>9, <1>10, <1>11, <1>12

LEMMA InvariantInit == Init => IInv
    BY TypeInit DEF Init, IInv, Answered, FinishedRows, StartedRow

\* What Prepare writes is row zero of the table, in both rows, whatever they
\* held before.
LEMMA PrepareKeeps == ASSUME IInv, Prepare PROVE (FinishedRows /\ StartedRow)'
<1>1. PICK q \in Questions :
          /\ Call(q)
          /\ previous' = Numbered(previous, Len(q.right) + 1)
          /\ pc' = "row" /\ row' = 1
    BY DEF Prepare
<1>2. Len(q.right) \in Nat /\ Len(q.left) \in Nat
      /\ IsAlignment(q.left, q.right, Alignment[q.left][q.right])
    BY QuestionFacts
<1>3. asked' = q
    BY <1>1 DEF Call
<1>4. \A c \in 0..Len(q.right) : previous'[c] = c
    BY <1>1, <1>2 DEF Numbered
<1>5. \A c \in 0..Len(q.right) : Alignment[q.left][q.right][0][c] = c
    BY <1>2 DEF IsAlignment
<1>6. row' - 1 = 0 /\ ~(row' > 1)
    BY <1>1
<1>7. \A c \in 0..Len(q.right) : Reached(row - 1, c)' = c
    BY <1>3, <1>5, <1>6 DEF Reached
<1> QED
    BY <1>1, <1>3, <1>4, <1>6, <1>7 DEF FinishedRows, StartedRow

LEMMA StartRowKeeps == ASSUME IInv, StartRow PROVE (FinishedRows /\ StartedRow)'
<1>1. /\ pc = "row" /\ row <= Len(asked.left) /\ asked \in Questions
      /\ row \in 1..(Len(asked.left) + 1) /\ 0 \in DOMAIN current
    <2>1. pc = "row" /\ row <= Len(asked.left) /\ asked \in Questions
        BY DEF StartRow, IInv, TypeOK
    <2>2. Len(asked.right) \in Nat
        BY <2>1, QuestionFacts
    <2> QED
        BY <2>1, <2>2 DEF IInv, TypeOK
<1>2. /\ current' = [current EXCEPT ![0] = row]
      /\ row_minimum' = row /\ column' = 1 /\ pc' = "column"
      /\ UNCHANGED <<asked, previous_previous, previous, row>>
    BY DEF StartRow
<1>3. \A i, j : Reached(i, j)' = Reached(i, j)
    BY <1>2 DEF Reached
<1>4. FinishedRows'
    BY <1>1, <1>2 DEF IInv, FinishedRows, Reached
<1>5. Reached(row, 0) = row
  <2>1. IsAlignment(asked.left, asked.right, Alignment[asked.left][asked.right])
        /\ Len(asked.left) \in Nat
      BY <1>1, QuestionFacts
  <2>2. row \in 0..Len(asked.left)
      BY <1>1, <2>1
  <2> QED
      BY <2>1, <2>2 DEF Reached, IsAlignment
<1>6. current'[0] = row
    BY <1>1, <1>2
<1>7. StartedRow'
  <2> SUFFICES ASSUME NEW c \in 0..(column' - 1)
               PROVE  (current'[c] = Reached(row, c)' /\ row_minimum' <= Reached(row, c)')
      BY DEF StartedRow
  <2>1. c = 0
      BY <1>2
  <2>2. Reached(row, c)' = row
      BY <2>1, <1>5, <1>2 DEF Reached
  <2>3. row <= row
      BY <1>1, QuestionFacts
  <2> QED
      BY <2>1, <2>2, <2>3, <1>2, <1>6
<1> QED
    BY <1>4, <1>7

LEMMA FillCellKeeps == ASSUME IInv, FillCell PROVE (FinishedRows /\ StartedRow)'
<1>1. /\ pc = "column" /\ column <= Len(asked.right) /\ asked \in Questions
      /\ row_minimum \in Nat
    BY DEF FillCell, IInv, TypeOK
<1>2. Len(asked.left) \in Nat /\ Len(asked.right) \in Nat
    BY <1>1, QuestionFacts
<1>3. row \in 1..Len(asked.left) /\ column \in 1..Len(asked.right) /\ column \in DOMAIN current
    BY <1>1, <1>2 DEF IInv, TypeOK
<1>4. /\ current' = [current EXCEPT ![column] = Cell]
      /\ row_minimum' = Least({row_minimum, Cell}) /\ column' = column + 1
      /\ UNCHANGED <<pc, asked, previous_previous, previous, row>>
    BY DEF FillCell
<1>5. FinishedRows'
    BY <1>1, <1>4 DEF IInv, FinishedRows, Reached
<1>6. Cell = Reached(row, column) /\ Cell \in Nat
    BY <1>1, CellIsReached, CellIsNumber DEF IInv
<1>7. row_minimum' <= row_minimum /\ row_minimum' <= Cell /\ row_minimum' \in Nat
  <2>1. {row_minimum, Cell} \in SUBSET Nat /\ {row_minimum, Cell} # {}
      BY <1>1, <1>6
  <2> QED
      BY <2>1, <1>4, LeastProperties
<1>8. StartedRow'
  <2> SUFFICES ASSUME NEW c \in 0..(column' - 1)
               PROVE  (current'[c] = Reached(row, c)' /\ row_minimum' <= Reached(row, c)')
      BY DEF StartedRow
  <2>1. Reached(row, c)' = Reached(row, c)
      BY <1>4 DEF Reached
  <2>2. CASE c = column
      BY <2>1, <2>2, <1>3, <1>4, <1>6, <1>7
  <2>3. CASE c # column
    <3>1. c \in 0..(column - 1)
        BY <2>3, <1>3, <1>4
    <3>2. current[c] = Reached(row, c) /\ row_minimum <= Reached(row, c)
        BY <3>1, <1>1 DEF IInv, StartedRow
    <3>3. current'[c] = current[c]
      <4>1. c \in DOMAIN current
          BY <3>1, <1>1, <1>2, <1>3 DEF IInv, TypeOK
      <4> QED
          BY <4>1, <1>4, <2>3
    <3>4. Reached(row, c) \in Nat
      <4>1. current[c] \in Nat
        <5>1. c \in DOMAIN current
            BY <3>1, <1>1, <1>2, <1>3 DEF IInv, TypeOK
        <5> QED
            BY <5>1 DEF IInv, TypeOK, IsRow
      <4> QED
          BY <4>1, <3>2
    <3>5. row_minimum' <= Reached(row, c)
        BY <3>2, <3>4, <1>1, <1>7
    <3> QED
        BY <2>1, <3>2, <3>3, <3>5
  <2> QED
      BY <2>2, <2>3
<1> QED
    BY <1>5, <1>8

\* The row that EndRow finishes becomes the row above the next one.
LEMMA EndRowKeeps == ASSUME IInv, EndRow PROVE (FinishedRows /\ StartedRow)'
<1>1. pc = "column" /\ column > Len(asked.right) /\ asked \in Questions
    BY DEF EndRow, IInv, TypeOK
<1>2. Len(asked.right) \in Nat /\ Len(asked.left) \in Nat
    BY <1>1, QuestionFacts
<1>3. column = Len(asked.right) + 1 /\ row \in 1..Len(asked.left)
    BY <1>1, <1>2 DEF IInv, TypeOK
<1>4. /\ previous_previous' = previous /\ previous' = current
      /\ row' = row + 1 /\ pc' = "row" /\ asked' = asked
    BY DEF EndRow, RotateRows, NextRow
<1>5. \A c \in 0..Len(asked.right) : current[c] = Reached(row, c)
    BY <1>1, <1>2, <1>3 DEF IInv, StartedRow
<1>6. \A c \in 0..Len(asked.right) : previous[c] = Reached(row - 1, c)
    BY <1>1 DEF IInv, FinishedRows
<1>7. row' - 1 = row /\ row' - 2 = row - 1
    BY <1>3, <1>4
<1>8. \A c : Reached(row - 1, c)' = Reached(row, c) /\ Reached(row - 2, c)' = Reached(row - 1, c)
    BY <1>4, <1>7 DEF Reached
<1> QED
    BY <1>4, <1>5, <1>6, <1>8 DEF FinishedRows, StartedRow

LEMMA InvariantNext == IInv /\ [Next]_vars => IInv'
<1> SUFFICES ASSUME IInv, [Next]_vars PROVE IInv'
    OBVIOUS
<1>1. TypeOK'
    BY TypeNext DEF IInv
<1>2. CASE CallAtOnce
  <2>1. PICK q \in Questions :
            /\ Call(q)
            /\ \/ q.left = q.right /\ answer' = 0
               \/ q.left # q.right /\ TooFar(q) /\ answer' = q.maximum + 1
            /\ UNCHANGED <<pc, rows, cursor>>
      BY <1>2 DEF CallAtOnce
  <2>2. pc' = "idle"
      BY <1>2, <2>1 DEF CallAtOnce, MayCall
  <2>3. answer' # Nothing
    <3>1. answer' \in Nat
        BY <2>1, QuestionFacts
    <3> QED
        BY <3>1, QuestionsAssumption
  <2> QED
      BY <1>1, <2>2, <2>3 DEF IInv, Answered, FinishedRows, StartedRow
<1>3. CASE Prepare
  <2>1. Answered'
    <3>1. PICK q \in Questions : Call(q) /\ answer' = Nothing /\ pc' = "row"
        BY <1>3 DEF Prepare
    <3>2. asked' # Nothing
        BY <3>1, QuestionFacts DEF Call
    <3> QED
        BY <3>1, <3>2 DEF Answered
  <2> QED
      BY <1>1, <1>3, <2>1, PrepareKeeps DEF IInv
<1>4. CASE StartRow
  <2>1. Answered'
      BY <1>4 DEF StartRow, IInv, Answered
  <2> QED
      BY <1>1, <1>4, <2>1, StartRowKeeps DEF IInv
<1>5. CASE FillCell
  <2>1. Answered'
      BY <1>5 DEF FillCell, IInv, Answered
  <2> QED
      BY <1>1, <1>5, <2>1, FillCellKeeps DEF IInv
<1>6. CASE GiveUp
  <2>1. answer' # Nothing
    <3>1. answer' \in Nat
        BY <1>6, QuestionFacts DEF GiveUp, IInv, TypeOK
    <3> QED
        BY <3>1, QuestionsAssumption
  <2> QED
      BY <1>1, <1>6, <2>1 DEF GiveUp, IInv, Answered, FinishedRows, StartedRow
<1>7. CASE EndRow
  <2>1. Answered'
      BY <1>7 DEF EndRow, IInv, Answered
  <2> QED
      BY <1>1, <1>7, <2>1, EndRowKeeps DEF IInv
<1>8. CASE Return
  <2>1. answer' # Nothing
    <3>1. asked \in Questions /\ pc # "idle"
        BY <1>8 DEF Return, IInv, TypeOK
    <3>2. Len(asked.right) \in DOMAIN previous
        BY <3>1, QuestionFacts DEF IInv, TypeOK
    <3>3. answer' \in Nat
        BY <1>8, <3>2 DEF Return, IInv, TypeOK, IsRow
    <3> QED
        BY <3>3, QuestionsAssumption
  <2> QED
      BY <1>1, <1>8, <2>1 DEF Return, IInv, Answered, FinishedRows, StartedRow
<1>9. CASE UNCHANGED vars
    BY <1>1, <1>9
       DEF vars, rows, cursor, IInv, Answered, FinishedRows, StartedRow, Reached
<1> QED
    BY <1>2, <1>3, <1>4, <1>5, <1>6, <1>7, <1>8, <1>9 DEF Next, Work

-----------------------------------------------------------------------------
(* The answers.                                                            *)

\* The distance of the words of a question is a number.
LEMMA ExactIsNumber == ASSUME NEW q \in Questions PROVE Exact(q) \in Nat
<1>1. /\ q.left \in Seq(Alphabet) /\ q.right \in Seq(Alphabet)
      /\ IsAlignment(q.left, q.right, Alignment[q.left][q.right])
      /\ Len(q.left) \in 0..Len(q.left) /\ Len(q.right) \in 0..Len(q.right)
    BY QuestionFacts
<1> QED
    BY <1>1, CellType DEF Exact

\* Both early returns answer within bounds.
LEMMA AtOnceIsBounded == ASSUME IInv, CallAtOnce PROVE Bounded!AskAndReply
<1>1. PICK q \in Questions :
          /\ Call(q)
          /\ \/ q.left = q.right /\ answer' = 0
             \/ q.left # q.right /\ TooFar(q) /\ answer' = q.maximum + 1
    BY DEF CallAtOnce
<1>2. Bounded!Ready
    BY DEF CallAtOnce, MayCall, IInv, Answered, Bounded!Ready
<1>3. /\ q.left \in Seq(Alphabet) /\ q.right \in Seq(Alphabet) /\ q.maximum \in Nat
      /\ IsAlignment(q.left, q.right, Alignment[q.left][q.right])
      /\ Len(q.left) \in Nat /\ Len(q.right) \in Nat
    BY QuestionFacts
<1>4. PICK n \in Nat : n = Exact(q)
    BY ExactIsNumber
<1>5. CASE q.left = q.right /\ answer' = 0
  <2>1. Exact(q) = 0
    <3>1. IsAlignment(q.left, q.left, Alignment[q.left][q.left])
        BY <1>3, <1>5
    <3>2. Len(q.left) \in 0..Len(q.left)
        BY <1>3
    <3>3. Alignment[q.left][q.left][Len(q.left)][Len(q.left)] = 0
        BY <1>3, <3>1, <3>2, Diagonal
    <3> QED
        BY <3>3, <1>5 DEF Exact
  <2>2. Bounded!IsBounded(q, answer')
      BY <2>1, <1>5, <1>3 DEF Bounded!IsBounded
  <2> QED
      BY <1>1, <1>2, <2>2 DEF Bounded!AskAndReply, Call
<1>6. CASE q.left # q.right /\ TooFar(q) /\ answer' = q.maximum + 1
  <2>1. Len(q.left) - Len(q.right) <= n /\ Len(q.right) - Len(q.left) <= n
    <3>1. Len(q.left) \in 0..Len(q.left) /\ Len(q.right) \in 0..Len(q.right)
        BY <1>3
    <3> QED
        BY <1>3, <1>4, <3>1, LengthsBound DEF Exact
  <2>2. n > q.maximum
      BY <2>1, <1>3, <1>6 DEF TooFar
  <2>3. Bounded!IsBounded(q, answer')
      BY <2>2, <1>3, <1>4, <1>6 DEF Bounded!IsBounded
  <2> QED
      BY <1>1, <1>2, <2>3 DEF Bounded!AskAndReply, Call
<1> QED
    BY <1>1, <1>5, <1>6

\* Giving up answers within bounds: no later row can come back under the
\* maximum.
LEMMA GivingUpIsBounded == ASSUME IInv, GiveUp PROVE Bounded!Reply
<1>1. /\ pc = "column" /\ column > Len(asked.right) /\ asked \in Questions
      /\ row_minimum > asked.maximum /\ answer' = asked.maximum + 1 /\ asked' = asked
      /\ row_minimum \in Nat
    BY DEF GiveUp, GivesUp, IInv, TypeOK
<1>2. /\ asked.left \in Seq(Alphabet) /\ asked.right \in Seq(Alphabet) /\ asked.maximum \in Nat
      /\ IsAlignment(asked.left, asked.right, Alignment[asked.left][asked.right])
      /\ Len(asked.left) \in Nat /\ Len(asked.right) \in Nat
      /\ asked # Nothing
    BY <1>1, QuestionFacts
<1>3. column = Len(asked.right) + 1 /\ row \in 0..Len(asked.left)
    BY <1>1, <1>2 DEF IInv, TypeOK
<1>4. \A c \in 0..Len(asked.right) :
          Alignment[asked.left][asked.right][row][c] > asked.maximum
  <2> SUFFICES ASSUME NEW c \in 0..Len(asked.right)
               PROVE  Alignment[asked.left][asked.right][row][c] > asked.maximum
      OBVIOUS
  <2>1. row_minimum <= Alignment[asked.left][asked.right][row][c]
      BY <1>1, <1>2, <1>3 DEF IInv, StartedRow, Reached
  <2>2. PICK n \in Nat : n = Alignment[asked.left][asked.right][row][c]
      BY <1>2, <1>3, CellType
  <2> QED
      BY <1>1, <1>2, <2>1, <2>2
<1>5. Exact(asked) > asked.maximum
    BY <1>2, <1>3, <1>4, RowsGrow DEF Exact
<1>6. PICK n \in Nat : n = Exact(asked)
    BY <1>1, ExactIsNumber
<1>7. Bounded!IsBounded(asked, answer')
    BY <1>1, <1>2, <1>5, <1>6 DEF Bounded!IsBounded
<1>8. ~Bounded!Ready
    BY <1>1 DEF IInv, Answered, Bounded!Ready
<1> QED
    BY <1>1, <1>7, <1>8 DEF Bounded!Reply

\* A comparison that goes through every row returns the distance.
LEMMA ReturnIsBounded == ASSUME IInv, Return PROVE Bounded!Reply
<1>1. /\ pc = "row" /\ row > Len(asked.left) /\ asked \in Questions
      /\ answer' = previous[Len(asked.right)] /\ asked' = asked
    BY DEF Return, IInv, TypeOK
<1>2. Len(asked.left) \in Nat /\ Len(asked.right) \in Nat /\ asked.maximum \in Nat
    BY <1>1, QuestionFacts
<1>3. row - 1 = Len(asked.left)
    BY <1>1, <1>2 DEF IInv, TypeOK
<1>4. answer' = Exact(asked)
    BY <1>1, <1>2, <1>3 DEF IInv, FinishedRows, Reached, Exact
<1>5. PICK n \in Nat : n = Exact(asked)
    BY <1>1, ExactIsNumber
<1>6. Bounded!IsBounded(asked, answer')
    BY <1>2, <1>4, <1>5 DEF Bounded!IsBounded
<1>7. ~Bounded!Ready
    BY <1>1 DEF IInv, Answered, Bounded!Ready
<1> QED
    BY <1>1, <1>6, <1>7 DEF Bounded!Reply

\* Every step of a comparison is a step of the bounded distance or hidden
\* from it.
LEMMA StepImplements == IInv /\ [Next]_vars => [Bounded!Next]_<<asked, answer>>
<1> SUFFICES ASSUME IInv, [Next]_vars PROVE [Bounded!Next]_<<asked, answer>>
    OBVIOUS
<1>1. CASE CallAtOnce
    BY <1>1, AtOnceIsBounded DEF Bounded!Next
<1>2. CASE Prepare
  <2>1. Bounded!Ready
      BY <1>2 DEF Prepare, MayCall, IInv, Answered, Bounded!Ready
  <2>2. asked' \in Questions /\ answer' = Nothing
      BY <1>2 DEF Prepare, Call
  <2> QED
      BY <2>1, <2>2 DEF Bounded!Ask, Bounded!Next
<1>3. CASE StartRow
    BY <1>3 DEF StartRow
<1>4. CASE FillCell
    BY <1>4 DEF FillCell
<1>5. CASE GiveUp
    BY <1>5, GivingUpIsBounded DEF Bounded!Next
<1>6. CASE EndRow
    BY <1>6 DEF EndRow
<1>7. CASE Return
    BY <1>7, ReturnIsBounded DEF Bounded!Next
<1>8. CASE UNCHANGED vars
    BY <1>8 DEF vars
<1> QED
    BY <1>1, <1>2, <1>3, <1>4, <1>5, <1>6, <1>7, <1>8 DEF Next, Work

\* damerauLevenshteinDistance implements the bounded distance: an answer up to
\* the maximum is the distance, an answer above it is given only to words that
\* are farther apart, whatever the calls before left in the thread_local rows.
THEOREM Implements == Spec => IsBoundedDistance
<1>1. Init => Bounded!Init
    BY DEF Init, Bounded!Init
<1> QED
    BY <1>1, InvariantInit, InvariantNext, StepImplements, PTL
       DEF Spec, IsBoundedDistance, Bounded!Spec


-----------------------------------------------------------------------------
(* Single edits, letter by letter.                                         *)

LEMMA RemovedLetters ==
    ASSUME NEW x \in Seq(Alphabet), NEW i \in 1..Len(x)
    PROVE  /\ RemoveAt(x, i) \in Seq(Alphabet) /\ Len(RemoveAt(x, i)) = Len(x) - 1
           /\ \A k \in 1..Len(x) - 1 : RemoveAt(x, i)[k] = IF k < i THEN x[k] ELSE x[k + 1]
<1> DEFINE head == SubSeq(x, 1, i - 1)
           tail == SubSeq(x, i + 1, Len(x))
<1>1. Len(x) \in Nat /\ \A k \in 1..Len(x) : x[k] \in Alphabet
    OBVIOUS
<1>2. /\ head \in Seq(Alphabet) /\ Len(head) = i - 1
      /\ \A k \in 1..i - 1 : head[k] = x[k]
    BY <1>1, SubSeqProperties
<1>3. /\ tail \in Seq(Alphabet) /\ Len(tail) = Len(x) - i
      /\ \A k \in 1..Len(x) - i : tail[k] = x[i + k]
    BY <1>1, SubSeqProperties
<1>4. RemoveAt(x, i) = head \o tail
    BY DEF RemoveAt
<1> HIDE DEF head, tail
<1>5. /\ head \o tail \in Seq(Alphabet) /\ Len(head \o tail) = Len(head) + Len(tail)
      /\ \A k \in 1..Len(head) + Len(tail) :
            (head \o tail)[k] = IF k <= Len(head) THEN head[k] ELSE tail[k - Len(head)]
    BY <1>2, <1>3, ConcatProperties
<1> QED
    BY <1>1, <1>2, <1>3, <1>4, <1>5

LEMMA InsertedLetters ==
    ASSUME NEW x \in Seq(Alphabet), NEW i \in 1..Len(x) + 1, NEW c \in Alphabet
    PROVE  /\ InsertAt(x, i, c) \in Seq(Alphabet) /\ Len(InsertAt(x, i, c)) = Len(x) + 1
           /\ \A k \in 1..Len(x) + 1 :
                InsertAt(x, i, c)[k] = IF k < i THEN x[k] ELSE IF k = i THEN c ELSE x[k - 1]
<1> DEFINE head == SubSeq(x, 1, i - 1)
           tail == SubSeq(x, i, Len(x))
<1>1. Len(x) \in Nat /\ \A k \in 1..Len(x) : x[k] \in Alphabet
    OBVIOUS
<1>2. /\ head \in Seq(Alphabet) /\ Len(head) = i - 1
      /\ \A k \in 1..i - 1 : head[k] = x[k]
    BY <1>1, SubSeqProperties
<1>3. /\ tail \in Seq(Alphabet) /\ Len(tail) = Len(x) - i + 1
      /\ \A k \in 1..Len(x) - i + 1 : tail[k] = x[i + k - 1]
    BY <1>1, SubSeqProperties
<1>4. InsertAt(x, i, c) = (head \o <<c>>) \o tail
    BY DEF InsertAt
<1> HIDE DEF head, tail
<1> DEFINE front == head \o <<c>>
<1>5. /\ front \in Seq(Alphabet) /\ Len(front) = i
      /\ \A k \in 1..i : front[k] = IF k <= i - 1 THEN head[k] ELSE c
    BY <1>1, <1>2, ConcatProperties
<1> HIDE DEF front
<1>6. /\ front \o tail \in Seq(Alphabet) /\ Len(front \o tail) = Len(x) + 1
      /\ \A k \in 1..Len(x) + 1 : (front \o tail)[k] = IF k <= i THEN front[k] ELSE tail[k - i]
    BY <1>1, <1>3, <1>5, ConcatProperties
<1>7. InsertAt(x, i, c) = front \o tail
    BY <1>4 DEF front
<1> QED
    BY <1>1, <1>2, <1>3, <1>5, <1>6, <1>7

LEMMA ReplacedLetters ==
    ASSUME NEW x \in Seq(Alphabet), NEW i \in 1..Len(x), NEW c \in Alphabet
    PROVE  /\ ReplaceAt(x, i, c) \in Seq(Alphabet) /\ Len(ReplaceAt(x, i, c)) = Len(x)
           /\ \A k \in 1..Len(x) : ReplaceAt(x, i, c)[k] = IF k = i THEN c ELSE x[k]
    BY DEF ReplaceAt

Swap(x, i) == [x EXCEPT ![i] = x[i + 1], ![i + 1] = x[i]]
LEMMA SwappedLetters ==
    ASSUME NEW x \in Seq(Alphabet), NEW i \in 1..Len(x) - 1
    PROVE  /\ Swap(x, i) \in Seq(Alphabet) /\ Len(Swap(x, i)) = Len(x)
           /\ \A k \in 1..Len(x) :
                Swap(x, i)[k] = IF k = i THEN x[i + 1] ELSE IF k = i + 1 THEN x[i] ELSE x[k]
<1>1. Len(x) \in Nat /\ i \in 1..Len(x) /\ i + 1 \in 1..Len(x) /\ i + 1 # i
    OBVIOUS
<1>2. x[i] \in Alphabet /\ x[i + 1] \in Alphabet
    BY <1>1
<1>3. Swap(x, i) = [[x EXCEPT ![i] = x[i + 1]] EXCEPT ![i + 1] = x[i]]
    BY DEF Swap
<1> QED
    BY <1>1, <1>2, <1>3

LEMMA EditedByCases ==
    ASSUME NEW x \in Seq(Alphabet)
    PROVE  \A y : y \in Edited(x) <=>
               \/ \E i \in 1..Len(x) : y = RemoveAt(x, i)
               \/ \E i \in 1..Len(x), c \in Alphabet : y = ReplaceAt(x, i, c)
               \/ \E i \in 1..Len(x) + 1, c \in Alphabet : y = InsertAt(x, i, c)
               \/ \E i \in 1..Len(x) - 1 : y = Swap(x, i)
<1>1. DOMAIN x = 1..Len(x)
    OBVIOUS
<1> QED
    BY <1>1 DEF Edited, Swap

\* What the last letters of two words allow.
LEMMA EditsAtTheEnd ==
    ASSUME NEW x \in Seq(Alphabet), NEW a \in Alphabet, NEW b \in Alphabet
    PROVE  /\ x \in Edited(Append(x, a))
           /\ Append(x, a) \in Edited(x)
           /\ Append(x, b) \in Edited(Append(x, a))
           /\ Append(Append(x, b), a) \in Edited(Append(Append(x, a), b))
<1> DEFINE n == Len(x)
           xa == Append(x, a)
           xb == Append(x, b)
<1>1. /\ n \in Nat
      /\ xa \in Seq(Alphabet) /\ Len(xa) = n + 1 /\ xa[n + 1] = a /\ \A k \in 1..n : xa[k] = x[k]
      /\ xb \in Seq(Alphabet) /\ Len(xb) = n + 1 /\ xb[n + 1] = b /\ \A k \in 1..n : xb[k] = x[k]
    BY AppendProperties
<1> HIDE DEF xa, xb
<1>2. x = RemoveAt(xa, n + 1)
  <2>1. n + 1 \in 1..Len(xa)
      BY <1>1
  <2>2. /\ RemoveAt(xa, n + 1) \in Seq(Alphabet) /\ Len(RemoveAt(xa, n + 1)) = Len(xa) - 1
        /\ \A k \in 1..Len(xa) - 1 : RemoveAt(xa, n + 1)[k] = IF k < n + 1 THEN xa[k] ELSE xa[k + 1]
      BY <1>1, <2>1, RemovedLetters
  <2>3. Len(RemoveAt(xa, n + 1)) = n /\ \A k \in 1..n : x[k] = RemoveAt(xa, n + 1)[k]
      BY <1>1, <2>2
  <2> QED
      BY <2>2, <2>3, SeqEqual
<1>3. xa = InsertAt(x, n + 1, a)
  <2>0. Len(x) + 1 \in 1..Len(x) + 1
      BY <1>1
  <2>1. /\ InsertAt(x, Len(x) + 1, a) \in Seq(Alphabet) /\ Len(InsertAt(x, Len(x) + 1, a)) = Len(x) + 1
        /\ \A k \in 1..Len(x) + 1 : InsertAt(x, Len(x) + 1, a)[k] =
                IF k < Len(x) + 1 THEN x[k] ELSE IF k = Len(x) + 1 THEN a ELSE x[k - 1]
      BY <2>0, InsertedLetters
  <2>2. \A k \in 1..n + 1 : xa[k] = InsertAt(x, n + 1, a)[k]
      BY <1>1, <2>1
  <2> QED
      BY <1>1, <2>1, <2>2, SeqEqual
<1>4. xb = ReplaceAt(xa, n + 1, b)
  <2>1. n + 1 \in 1..Len(xa)
      BY <1>1
  <2>2. /\ ReplaceAt(xa, n + 1, b) \in Seq(Alphabet) /\ Len(ReplaceAt(xa, n + 1, b)) = Len(xa)
        /\ \A k \in 1..Len(xa) : ReplaceAt(xa, n + 1, b)[k] = IF k = n + 1 THEN b ELSE xa[k]
      BY <1>1, <2>1, ReplacedLetters
  <2>3. \A k \in 1..n + 1 : xb[k] = ReplaceAt(xa, n + 1, b)[k]
      BY <1>1, <2>2
  <2> QED
      BY <1>1, <2>2, <2>3, SeqEqual
<1> DEFINE xab == Append(xa, b)
           xba == Append(xb, a)
<1>5. /\ xab \in Seq(Alphabet) /\ Len(xab) = n + 2 /\ xab[n + 2] = b
      /\ \A k \in 1..n + 1 : xab[k] = xa[k]
      /\ xba \in Seq(Alphabet) /\ Len(xba) = n + 2 /\ xba[n + 2] = a
      /\ \A k \in 1..n + 1 : xba[k] = xb[k]
    BY <1>1, AppendProperties
<1> HIDE DEF xab, xba
<1>6. xba = Swap(xab, n + 1)
  <2>0. n + 1 \in 1..Len(xab) - 1 /\ n + 1 + 1 = n + 2
      BY <1>1, <1>5
  <2>1. /\ Swap(xab, n + 1) \in Seq(Alphabet) /\ Len(Swap(xab, n + 1)) = n + 2
        /\ \A k \in 1..n + 2 : Swap(xab, n + 1)[k] =
                IF k = n + 1 THEN xab[n + 2] ELSE IF k = n + 2 THEN xab[n + 1] ELSE xab[k]
      BY <1>5, <2>0, SwappedLetters
  <2>2. ASSUME NEW k \in 1..n + 2 PROVE xba[k] = Swap(xab, n + 1)[k]
    <3>1. CASE k \in 1..n
        BY <1>1, <1>5, <2>1, <3>1
    <3>2. CASE k = n + 1
        BY <1>1, <1>5, <2>1, <3>2
    <3>3. CASE k = n + 2
        BY <1>1, <1>5, <2>1, <3>3
    <3> QED
        BY <1>1, <3>1, <3>2, <3>3
  <2> QED
      BY <1>5, <2>1, <2>2, SeqEqual
<1>7. n + 1 \in 1..Len(xa) /\ n + 1 \in 1..Len(x) + 1 /\ n + 1 \in 1..Len(xab) - 1
    BY <1>1, <1>5
<1>8. x \in Edited(xa) /\ xa \in Edited(x) /\ xb \in Edited(xa) /\ xba \in Edited(xab)
    BY <1>1, <1>2, <1>3, <1>4, <1>5, <1>6, <1>7, EditedByCases
<1> QED
    BY <1>8 DEF xa, xb, xab, xba

\* An edit is an edit of the words with one more letter.
LEMMA EditsBeforeTheEnd ==
    ASSUME NEW x \in Seq(Alphabet), NEW y \in Edited(x), NEW a \in Alphabet
    PROVE  y \in Seq(Alphabet) /\ Append(y, a) \in Edited(Append(x, a))
<1> DEFINE n == Len(x)
           xa == Append(x, a)
           ya == Append(y, a)
<1>1. /\ n \in Nat
      /\ xa \in Seq(Alphabet) /\ Len(xa) = n + 1 /\ xa[n + 1] = a /\ \A k \in 1..n : xa[k] = x[k]
    BY AppendProperties
<1>2. y \in Seq(Alphabet)
    BY EditedByCases, RemovedLetters, ReplacedLetters, InsertedLetters, SwappedLetters
<1>3. /\ ya \in Seq(Alphabet) /\ Len(ya) = Len(y) + 1 /\ ya[Len(y) + 1] = a
      /\ \A k \in 1..Len(y) : ya[k] = y[k] /\ Len(y) \in Nat
    BY <1>2, AppendProperties
<1> HIDE DEF xa, ya
<1>4. ASSUME NEW i \in 1..n, y = RemoveAt(x, i)
      PROVE  ya = RemoveAt(xa, i)
  <2>1. /\ Len(y) = n - 1
        /\ \A k \in 1..n - 1 : y[k] = IF k < i THEN x[k] ELSE x[k + 1]
      BY <1>4, RemovedLetters
  <2>0. i \in 1..Len(xa) /\ Len(xa) - 1 = n
      BY <1>1
  <2>2. /\ RemoveAt(xa, i) \in Seq(Alphabet) /\ Len(RemoveAt(xa, i)) = n
        /\ \A k \in 1..n : RemoveAt(xa, i)[k] = IF k < i THEN xa[k] ELSE xa[k + 1]
      BY <1>1, <2>0, RemovedLetters
  <2>3. \A k \in 1..n : ya[k] = RemoveAt(xa, i)[k]
      BY <1>1, <1>3, <2>1, <2>2
  <2> QED
      BY <1>1, <1>3, <2>1, <2>2, <2>3, SeqEqual
<1>5. ASSUME NEW i \in 1..n, NEW c \in Alphabet, y = ReplaceAt(x, i, c)
      PROVE  ya = ReplaceAt(xa, i, c)
  <2>0. i \in 1..Len(xa) /\ Len(xa) = n + 1 /\ i \in 1..Len(x)
      BY <1>1
  <2>3. /\ Len(ReplaceAt(x, i, c)) = Len(x)
        /\ \A k \in 1..Len(x) : ReplaceAt(x, i, c)[k] = IF k = i THEN c ELSE x[k]
      BY <2>0, ReplacedLetters
  <2>1. /\ Len(y) = n /\ \A k \in 1..n : y[k] = IF k = i THEN c ELSE x[k]
      BY <1>5, <2>3
  <2>2. /\ ReplaceAt(xa, i, c) \in Seq(Alphabet) /\ Len(ReplaceAt(xa, i, c)) = Len(xa)
        /\ \A k \in 1..Len(xa) : ReplaceAt(xa, i, c)[k] = IF k = i THEN c ELSE xa[k]
      BY <1>1, <2>0, ReplacedLetters
  <2>4. ASSUME NEW k \in 1..n + 1 PROVE ya[k] = ReplaceAt(xa, i, c)[k]
    <3>1. CASE k \in 1..n
        BY <1>1, <1>3, <2>1, <2>2, <3>1
    <3>2. CASE k = n + 1
        BY <1>1, <1>3, <2>0, <2>1, <2>2, <3>2
    <3> QED
        BY <1>1, <3>1, <3>2
  <2> QED
      BY <1>1, <1>3, <2>1, <2>2, <2>4, SeqEqual
<1>6. ASSUME NEW i \in 1..n + 1, NEW c \in Alphabet, y = InsertAt(x, i, c)
      PROVE  ya = InsertAt(xa, i, c)
  <2>0. i \in 1..Len(xa) + 1 /\ Len(xa) + 1 = n + 2 /\ i \in 1..Len(x) + 1
      BY <1>1
  <2>5. /\ Len(InsertAt(x, i, c)) = Len(x) + 1
        /\ \A k \in 1..Len(x) + 1 :
             InsertAt(x, i, c)[k] = IF k < i THEN x[k] ELSE IF k = i THEN c ELSE x[k - 1]
      BY <2>0, InsertedLetters
  <2>1. /\ Len(y) = n + 1
        /\ \A k \in 1..n + 1 : y[k] = IF k < i THEN x[k] ELSE IF k = i THEN c ELSE x[k - 1]
      BY <1>6, <2>5
  <2>2. /\ InsertAt(xa, i, c) \in Seq(Alphabet) /\ Len(InsertAt(xa, i, c)) = Len(xa) + 1
        /\ \A k \in 1..Len(xa) + 1 :
             InsertAt(xa, i, c)[k] = IF k < i THEN xa[k] ELSE IF k = i THEN c ELSE xa[k - 1]
    <3>1. xa \in Seq(Alphabet)
        BY <1>1
    <3> QED
        BY <2>0, <3>1, InsertedLetters
  <2>4. ASSUME NEW k \in 1..n + 2 PROVE ya[k] = InsertAt(xa, i, c)[k]
    <3>1. CASE k \in 1..n + 1
      <4>1. ya[k] = y[k] /\ k \in 1..Len(xa) + 1
          BY <1>1, <1>3, <2>1, <3>1
      <4>2. CASE k < i
        <5>1. k \in 1..n
            BY <1>1, <4>2, <3>1
        <5>2. xa[k] = x[k]
            BY <1>1, <5>1
        <5>3. y[k] = x[k] /\ InsertAt(xa, i, c)[k] = xa[k]
            BY <2>1, <2>2, <3>1, <4>1, <4>2
        <5> QED
            BY <4>1, <5>2, <5>3
      <4>3. CASE k = i
          BY <2>1, <2>2, <3>1, <4>1, <4>3
      <4>4. CASE k > i
        <5>1. k - 1 \in 1..n /\ ~(k < i) /\ k # i
            BY <1>1, <4>4, <3>1
        <5>2. xa[k - 1] = x[k - 1]
            BY <1>1, <5>1
        <5>3. y[k] = x[k - 1] /\ InsertAt(xa, i, c)[k] = xa[k - 1]
            BY <2>1, <2>2, <3>1, <4>1, <5>1
        <5> QED
            BY <4>1, <5>2, <5>3
      <4> QED
          BY <4>2, <4>3, <4>4
    <3>2. CASE k = n + 2
      <4>1. k > i /\ k - 1 = n + 1
          BY <1>1, <3>2
      <4> QED
          BY <1>1, <1>3, <2>0, <2>1, <2>2, <3>2, <4>1
    <3> QED
        BY <1>1, <3>1, <3>2
  <2>3. \A k \in 1..n + 2 : ya[k] = InsertAt(xa, i, c)[k]
      BY <2>4
  <2> QED
      BY <1>1, <1>3, <2>1, <2>2, <2>3, SeqEqual
<1>7. ASSUME NEW i \in 1..n - 1, y = Swap(x, i)
      PROVE  ya = Swap(xa, i)
  <2>1. /\ Len(y) = n
        /\ \A k \in 1..n : y[k] = IF k = i THEN x[i + 1] ELSE IF k = i + 1 THEN x[i] ELSE x[k]
      BY <1>7, SwappedLetters
  <2>2. /\ Swap(xa, i) \in Seq(Alphabet) /\ Len(Swap(xa, i)) = n + 1
        /\ \A k \in 1..n + 1 :
             Swap(xa, i)[k] = IF k = i THEN xa[i + 1] ELSE IF k = i + 1 THEN xa[i] ELSE xa[k]
      BY <1>1, SwappedLetters
  <2>4. ASSUME NEW k \in 1..n + 1 PROVE ya[k] = Swap(xa, i)[k]
    <3>1. CASE k \in 1..n
        BY <1>1, <1>3, <2>1, <2>2, <3>1
    <3>2. CASE k = n + 1
        BY <1>1, <1>3, <2>1, <2>2, <3>2
    <3> QED
        BY <1>1, <3>1, <3>2
  <2>3. \A k \in 1..n + 1 : ya[k] = Swap(xa, i)[k]
      BY <2>4
  <2> QED
      BY <1>1, <1>3, <2>1, <2>2, <2>3, SeqEqual
<1>8. ya \in Edited(xa)
  <2>1. /\ \A i \in 1..n : i \in 1..Len(xa)
        /\ \A i \in 1..n + 1 : i \in 1..Len(xa) + 1
        /\ \A i \in 1..n - 1 : i \in 1..Len(xa) - 1
      BY <1>1
  <2> QED
      BY <1>1, <1>4, <1>5, <1>6, <1>7, <2>1, EditedByCases
<1> QED
    BY <1>2, <1>8 DEF xa, ya

-----------------------------------------------------------------------------
(* Up to two edits, one after the other.                                   *)

NearBy(x, y, n) ==
    \/ x = y
    \/ n >= 1 /\ y \in Edited(x)
    \/ n >= 2 /\ \E v \in Edited(x) : y \in Edited(v)

\* One more edit, before the others or after them.
LEMMA OneMoreEdit ==
    ASSUME NEW n \in Nat, n <= 1, NEW x, NEW y, NEW z,
           \/ y \in Edited(x) /\ NearBy(y, z, n)
           \/ NearBy(x, y, n) /\ z \in Edited(y)
    PROVE  NearBy(x, z, n + 1)
<1>1. n = 0 \/ n = 1
    OBVIOUS
<1> QED
    BY <1>1 DEF NearBy

\* Edits leave the letters behind them alone.
LEMMA NearWithALetter ==
    ASSUME NEW n \in Nat, NEW x \in Seq(Alphabet), NEW y \in Seq(Alphabet), NEW a \in Alphabet,
           NearBy(x, y, n)
    PROVE  NearBy(Append(x, a), Append(y, a), n)
<1>1. CASE x = y
    BY <1>1 DEF NearBy
<1>2. CASE n >= 1 /\ y \in Edited(x)
    BY <1>2, EditsBeforeTheEnd DEF NearBy
<1>3. CASE n >= 2 /\ \E v \in Edited(x) : y \in Edited(v)
  <2>1. PICK v \in Edited(x) : y \in Edited(v)
      BY <1>3
  <2>2. v \in Seq(Alphabet) /\ Append(v, a) \in Edited(Append(x, a))
      BY EditsBeforeTheEnd
  <2>3. Append(y, a) \in Edited(Append(v, a))
      BY <2>1, <2>2, EditsBeforeTheEnd
  <2> QED
      BY <1>3, <2>2, <2>3 DEF NearBy
<1> QED
    BY <1>1, <1>2, <1>3 DEF NearBy

\* A prefix and the next letter.
LEMMA NextPrefix ==
    ASSUME NEW w \in Seq(Alphabet), NEW i \in 1..Len(w)
    PROVE  /\ SubSeq(w, 1, i) = Append(SubSeq(w, 1, i - 1), w[i])
           /\ SubSeq(w, 1, i - 1) \in Seq(Alphabet) /\ w[i] \in Alphabet
<1> DEFINE p == SubSeq(w, 1, i - 1)
           q == SubSeq(w, 1, i)
<1>1. /\ p \in Seq(Alphabet) /\ Len(p) = i - 1 /\ \A k \in 1..i - 1 : p[k] = w[k]
      /\ q \in Seq(Alphabet) /\ Len(q) = i /\ \A k \in 1..i : q[k] = w[k]
    BY SubSeqProperties
<1>2. w[i] \in Alphabet /\ i \in Nat
    OBVIOUS
<1> HIDE DEF p, q
<1>3. /\ Append(p, w[i]) \in Seq(Alphabet) /\ Len(Append(p, w[i])) = i
      /\ \A k \in 1..i - 1 : Append(p, w[i])[k] = p[k]
      /\ Append(p, w[i])[i] = w[i]
    BY <1>1, <1>2, AppendProperties
<1>4. \A k \in 1..i : q[k] = Append(p, w[i])[k]
    BY <1>1, <1>2, <1>3
<1>5. q = Append(p, w[i])
    BY <1>1, <1>3, <1>4, SeqEqual
<1> QED
    BY <1>1, <1>2, <1>5 DEF p, q

\* A table counts no fewer edits than it takes.
LEMMA TableCountsEdits ==
    ASSUME NEW l \in Seq(Alphabet), NEW r \in Seq(Alphabet), NEW d, IsAlignment(l, r, d)
    PROVE  \A i \in 0..Len(l), j \in 0..Len(r) :
               d[i][j] <= 2 => NearBy(SubSeq(l, 1, i), SubSeq(r, 1, j), d[i][j])
<1> DEFINE Bad == {c \in (0..Len(l)) \X (0..Len(r)) :
                     ~(d[c[1]][c[2]] <= 2 =>
                        NearBy(SubSeq(l, 1, c[1]), SubSeq(r, 1, c[2]), d[c[1]][c[2]]))}
<1> SUFFICES ASSUME Bad # {} PROVE FALSE
  <2>1. \A i \in 0..Len(l), j \in 0..Len(r) :
            <<i, j>> \notin Bad =>
                (d[i][j] <= 2 => NearBy(SubSeq(l, 1, i), SubSeq(r, 1, j), d[i][j]))
      OBVIOUS
  <2> HIDE DEF Bad
  <2> QED
      BY <2>1
<1>1. \A i, j \in Nat : <<i, j>> \in Bad <=>
          i <= Len(l) /\ j <= Len(r) /\
          ~(d[i][j] <= 2 => NearBy(SubSeq(l, 1, i), SubSeq(r, 1, j), d[i][j]))
    OBVIOUS
<1>2. Bad \in SUBSET (Nat \X Nat)
    OBVIOUS
<1> HIDE DEF Bad
<1>3. PICK i \in Nat, j \in Nat :
          /\ <<i, j>> \in Bad
          /\ \A a, b \in Nat : <<a, b>> \in Bad => i < a \/ (i = a /\ j <= b)
    BY <1>2, FirstCell
<1>4. /\ i \in 0..Len(l) /\ j \in 0..Len(r) /\ d[i][j] <= 2
      /\ ~NearBy(SubSeq(l, 1, i), SubSeq(r, 1, j), d[i][j])
    BY <1>1, <1>3
<1>5. \A a, b \in Nat :
          a <= Len(l) /\ b <= Len(r) /\ (a < i \/ (a = i /\ b < j)) /\ d[a][b] <= 2
          => NearBy(SubSeq(l, 1, a), SubSeq(r, 1, b), d[a][b])
  <2> SUFFICES ASSUME NEW a \in Nat, NEW b \in Nat, a <= Len(l), b <= Len(r),
                      a < i \/ (a = i /\ b < j), d[a][b] <= 2
               PROVE  NearBy(SubSeq(l, 1, a), SubSeq(r, 1, b), d[a][b])
      OBVIOUS
  <2>1. <<a, b>> \notin Bad
      BY <1>3
  <2> QED
      BY <1>1, <2>1
<1>6. PICK n \in Nat : n = d[i][j]
    BY <1>4, CellType
<1>7. n <= 2 /\ ~NearBy(SubSeq(l, 1, i), SubSeq(r, 1, j), n)
    BY <1>4, <1>6
<1>8. CASE i = 0
    \* j letters are inserted one after the other.
  <2>1. d[i][j] = j
      BY <1>4, <1>8 DEF IsAlignment
  <2>2. CASE j = 0
    <3>1. SubSeq(l, 1, 0) = <<>> /\ SubSeq(r, 1, 0) = <<>>
        OBVIOUS
    <3> QED
        BY <1>7, <1>8, <2>2, <3>1 DEF NearBy
  <2>3. CASE j > 0
    <3>1. j \in 1..Len(r) /\ j - 1 \in Nat /\ j - 1 \in 0..Len(r) /\ j - 1 < j /\ j - 1 <= Len(r)
        BY <1>4, <2>3
    <3>2. d[i][j - 1] = j - 1
        BY <1>4, <1>8, <3>1 DEF IsAlignment
    <3>3. n - 1 \in Nat /\ n - 1 <= 1 /\ d[i][j - 1] = n - 1 /\ n - 1 <= 2
        BY <1>6, <1>7, <2>1, <3>1, <3>2
    <3>4. NearBy(SubSeq(l, 1, i), SubSeq(r, 1, j - 1), n - 1)
        BY <1>4, <1>5, <3>1, <3>3
    <3>5. SubSeq(r, 1, j) \in Edited(SubSeq(r, 1, j - 1))
        BY <3>1, NextPrefix, EditsAtTheEnd
    <3>6. NearBy(SubSeq(l, 1, i), SubSeq(r, 1, j), (n - 1) + 1)
        BY <3>3, <3>4, <3>5, OneMoreEdit
    <3>7. (n - 1) + 1 = n
        OBVIOUS
    <3> QED
        BY <1>7, <3>6, <3>7
  <2> QED
      BY <2>2, <2>3
<1>9. CASE j = 0 /\ i > 0
  <2>1. /\ i \in 1..Len(l) /\ i - 1 \in Nat /\ i - 1 \in 0..Len(l) /\ i - 1 < i
        /\ i - 1 <= Len(l) /\ 0 <= Len(r)
      BY <1>4, <1>9
  <2>2. d[i][0] = i /\ d[i - 1][0] = i - 1
      BY <1>4, <2>1 DEF IsAlignment
  <2>3. n - 1 \in Nat /\ n - 1 <= 1 /\ d[i - 1][j] = n - 1 /\ n - 1 <= 2
      BY <1>6, <1>7, <1>9, <2>1, <2>2
  <2>4. NearBy(SubSeq(l, 1, i - 1), SubSeq(r, 1, j), n - 1)
      BY <1>4, <1>5, <1>9, <2>1, <2>3
  <2>5. SubSeq(l, 1, i - 1) \in Edited(SubSeq(l, 1, i))
      BY <2>1, NextPrefix, EditsAtTheEnd
  <2>6. NearBy(SubSeq(l, 1, i), SubSeq(r, 1, j), (n - 1) + 1)
      BY <2>3, <2>4, <2>5, OneMoreEdit
  <2>7. (n - 1) + 1 = n
      OBVIOUS
  <2> QED
      BY <1>7, <2>6, <2>7
<1>10. CASE i > 0 /\ j > 0
  <2>1. /\ i \in 1..Len(l) /\ j \in 1..Len(r) /\ i - 1 \in 0..Len(l) /\ j - 1 \in 0..Len(r)
        /\ i - 1 \in Nat /\ j - 1 \in Nat /\ i - 1 < i /\ j - 1 < j
        /\ i - 1 <= Len(l) /\ j - 1 <= Len(r) /\ i <= Len(l) /\ j <= Len(r)
      BY <1>4, <1>10
  <2> DEFINE p == SubSeq(l, 1, i - 1)
             q == SubSeq(r, 1, j - 1)
             a == l[i]
             b == r[j]
  <2>2. /\ p \in Seq(Alphabet) /\ q \in Seq(Alphabet) /\ a \in Alphabet /\ b \in Alphabet
        /\ SubSeq(l, 1, i) = Append(p, a) /\ SubSeq(r, 1, j) = Append(q, b)
      BY <2>1, NextPrefix
  <2>3. /\ p \in Edited(Append(p, a)) /\ Append(q, b) \in Edited(q)
        /\ Append(q, b) \in Edited(Append(q, a))
      BY <2>2, EditsAtTheEnd
  <2>4. ~NearBy(Append(p, a), Append(q, b), n)
      BY <1>7, <2>2
  <2>5. \/ d[i][j] = d[i - 1][j] + 1
        \/ d[i][j] = d[i][j - 1] + 1
        \/ d[i][j] = d[i - 1][j - 1] + SubstitutionCost(l, r, i, j)
        \/ i > 1 /\ j > 1 /\ d[i][j] = d[i - 2][j - 2] + 1 /\ l[i] = r[j - 1] /\ l[i - 1] = r[j]
      BY <2>1, CellProperties
  <2>6. d[i - 1][j] \in Nat /\ d[i][j - 1] \in Nat /\ d[i - 1][j - 1] \in Nat
      BY <1>4, <2>1, CellType
  <2>7. CASE d[i][j] = d[i - 1][j] + 1
    <3>1. PICK m \in Nat : m = d[i - 1][j]
        BY <2>6
    <3>2. n = m + 1 /\ m <= 1 /\ m <= 2
        BY <1>6, <1>7, <2>7, <3>1
    <3>3. NearBy(SubSeq(l, 1, i - 1), SubSeq(r, 1, j), m)
        BY <1>5, <2>1, <3>1, <3>2
    <3>4. NearBy(p, Append(q, b), m)
        BY <2>2, <3>3
    <3>5. NearBy(Append(p, a), Append(q, b), m + 1)
      <4> HIDE DEF p, q, a, b
      <4> QED
          BY <2>3, <3>2, <3>4, OneMoreEdit
    <3> QED
        BY <2>4, <3>2, <3>5
  <2>8. CASE d[i][j] = d[i][j - 1] + 1
    <3>1. PICK m \in Nat : m = d[i][j - 1]
        BY <2>6
    <3>2. n = m + 1 /\ m <= 1 /\ m <= 2
        BY <1>6, <1>7, <2>8, <3>1
    <3>3. NearBy(SubSeq(l, 1, i), SubSeq(r, 1, j - 1), m)
        BY <1>5, <2>1, <3>1, <3>2
    <3>4. NearBy(Append(p, a), q, m)
        BY <2>2, <3>3
    <3>5. NearBy(Append(p, a), Append(q, b), m + 1)
      <4> HIDE DEF p, q, a, b
      <4> QED
          BY <2>3, <3>2, <3>4, OneMoreEdit
    <3> QED
        BY <2>4, <3>2, <3>5
  <2>9. CASE d[i][j] = d[i - 1][j - 1] + SubstitutionCost(l, r, i, j)
    <3>1. PICK m \in Nat : m = d[i - 1][j - 1]
        BY <2>6
    <3>2. CASE a = b
      <4>1. n = m /\ m <= 2
          BY <1>6, <1>7, <2>9, <3>1, <3>2 DEF SubstitutionCost
      <4>2. NearBy(p, q, m)
          BY <1>5, <2>1, <3>1, <4>1
      <4>3. NearBy(Append(p, a), Append(q, a), m)
        <5> HIDE DEF p, q, a, b
        <5> QED
            BY <2>2, <4>2, NearWithALetter
      <4> QED
          BY <2>4, <3>2, <4>1, <4>3
    <3>3. CASE a # b
      <4>1. n = m + 1 /\ m <= 1 /\ m <= 2
          BY <1>6, <1>7, <2>9, <3>1, <3>3 DEF SubstitutionCost
      <4>2. NearBy(p, q, m)
          BY <1>5, <2>1, <3>1, <4>1
      <4>3. NearBy(Append(p, a), Append(q, a), m)
        <5> HIDE DEF p, q, a, b
        <5> QED
            BY <2>2, <4>2, NearWithALetter
      <4>4. NearBy(Append(p, a), Append(q, b), m + 1)
        <5> HIDE DEF p, q, a, b
        <5> QED
            BY <2>3, <4>1, <4>3, OneMoreEdit
      <4> QED
          BY <2>4, <4>1, <4>4
    <3> QED
        BY <3>2, <3>3
  <2>10. CASE i > 1 /\ j > 1 /\ d[i][j] = d[i - 2][j - 2] + 1 /\ l[i] = r[j - 1] /\ l[i - 1] = r[j]
    <3> DEFINE p2 == SubSeq(l, 1, i - 2)
               q2 == SubSeq(r, 1, j - 2)
    <3>1. /\ i - 1 \in 1..Len(l) /\ j - 1 \in 1..Len(r) /\ (i - 1) - 1 = i - 2 /\ (j - 1) - 1 = j - 2
          /\ i - 2 \in Nat /\ j - 2 \in Nat /\ i - 2 \in 0..Len(l) /\ j - 2 \in 0..Len(r)
          /\ i - 2 <= Len(l) /\ j - 2 <= Len(r) /\ i - 2 < i
        BY <2>1, <2>10
    <3>2. PICK m \in Nat : m = d[i - 2][j - 2]
        BY <3>1, CellType
    <3>11. d[i][j] = m + 1
        BY <2>10, <3>2
    <3>3. n = m + 1 /\ m <= 1 /\ m <= 2
        BY <1>6, <1>7, <3>2, <3>11
    <3>4. NearBy(p2, q2, m)
        BY <1>5, <3>1, <3>2, <3>3
    <3>5. p = Append(p2, b) /\ q = Append(q2, a) /\ p2 \in Seq(Alphabet) /\ q2 \in Seq(Alphabet)
        BY <2>10, <3>1, NextPrefix
    <3> HIDE DEF p, q, p2, q2, a, b
    <3>6. Append(q2, b) \in Seq(Alphabet) /\ Append(p2, b) \in Seq(Alphabet)
        BY <2>2, <3>5, AppendProperties
    <3>7. NearBy(Append(p2, b), Append(q2, b), m)
        BY <2>2, <3>4, <3>5, NearWithALetter
    <3>8. NearBy(Append(Append(p2, b), a), Append(Append(q2, b), a), m)
        BY <2>2, <3>6, <3>7, NearWithALetter
    <3>9. Append(Append(q2, a), b) \in Edited(Append(Append(q2, b), a))
        BY <2>2, <3>5, EditsAtTheEnd
    <3>10. NearBy(Append(Append(p2, b), a), Append(Append(q2, a), b), m + 1)
        BY <3>3, <3>8, <3>9, OneMoreEdit
    <3> QED
        BY <2>4, <3>3, <3>5, <3>10
  <2> QED
      BY <2>5, <2>7, <2>8, <2>9, <2>10
<1> QED
    BY <1>8, <1>9, <1>10

-----------------------------------------------------------------------------
(* One edit costs one.                                                     *)

\* One column further right, a cell is larger by one at most.
LEMMA ColumnBeside ==
    ASSUME NEW l \in Seq(Alphabet), NEW r \in Seq(Alphabet), NEW d, IsAlignment(l, r, d),
           NEW i \in 0..Len(l), NEW j \in 1..Len(r)
    PROVE  d[i][j] <= d[i][j - 1] + 1
<1>1. CASE i = 0
  <2>1. j \in 0..Len(r) /\ j - 1 \in 0..Len(r)
      OBVIOUS
  <2>2. d[0][j] = j /\ d[0][j - 1] = j - 1
      BY <2>1 DEF IsAlignment
  <2> QED
      BY <1>1, <2>2
<1>2. CASE i \in 1..Len(l)
    BY <1>2, CellProperties
<1> QED
    BY <1>1, <1>2

\* Equal letters cost nothing.
LEMMA Slide ==
    ASSUME NEW l \in Seq(Alphabet), NEW r \in Seq(Alphabet), NEW d, IsAlignment(l, r, d),
           NEW i \in 0..Len(l), NEW j \in 0..Len(r), NEW n \in Nat, d[i][j] <= n,
           NEW m \in Nat, i + m <= Len(l), j + m <= Len(r),
           \A t \in 1..m : l[i + t] = r[j + t]
    PROVE  d[i + m][j + m] <= n
<1> DEFINE Bad == {t \in 0..m : ~(d[i + t][j + t] <= n)}
<1> SUFFICES ASSUME Bad # {} PROVE FALSE
  <2>1. m \in 0..m
      OBVIOUS
  <2> QED
      BY <2>1
<1>1. Bad \in SUBSET Nat
    OBVIOUS
<1>2. \A t : t \in Bad <=> t \in 0..m /\ ~(d[i + t][j + t] <= n)
    OBVIOUS
<1> HIDE DEF Bad
<1>3. PICK t \in Bad : \A s \in Bad : t <= s
    BY <1>1, LeastNumber
<1>4. t \in 0..m /\ ~(d[i + t][j + t] <= n)
    BY <1>2, <1>3
<1>5. t # 0
  <2>1. i + 0 = i /\ j + 0 = j
      OBVIOUS
  <2> QED
      BY <1>4, <2>1
<1>6. /\ t \in 1..m /\ t - 1 \in 0..m /\ ~(t <= t - 1)
      /\ i + t \in 1..Len(l) /\ j + t \in 1..Len(r)
      /\ i + t \in 0..Len(l) /\ j + t \in 0..Len(r)
      /\ i + (t - 1) \in 0..Len(l) /\ j + (t - 1) \in 0..Len(r)
      /\ (i + t) - 1 = i + (t - 1) /\ (j + t) - 1 = j + (t - 1)
    BY <1>4, <1>5
<1>7. d[i + (t - 1)][j + (t - 1)] <= n
    BY <1>2, <1>3, <1>6
<1>8. d[i + t][j + t] <= d[(i + t) - 1][(j + t) - 1] + SubstitutionCost(l, r, i + t, j + t)
    BY <1>6, CellProperties
<1>9. SubstitutionCost(l, r, i + t, j + t) = 0
    BY <1>6 DEF SubstitutionCost
<1>10. PICK a \in Nat : a = d[i + t][j + t]
    BY <1>6, CellType
<1>11. PICK b \in Nat : b = d[i + (t - 1)][j + (t - 1)]
    BY <1>6, CellType
<1>12. a <= b + 0
    BY <1>6, <1>8, <1>9, <1>10, <1>11
<1>13. b <= n /\ ~(a <= n)
    BY <1>4, <1>7, <1>10, <1>11
<1> QED
    BY <1>12, <1>13

LEMMA CommonPrefix ==
    ASSUME NEW l \in Seq(Alphabet), NEW r \in Seq(Alphabet), NEW d, IsAlignment(l, r, d),
           NEW m \in Nat, m <= Len(l), m <= Len(r), \A t \in 1..m : l[t] = r[t]
    PROVE  d[m][m] <= 0
<1>1. 0 \in 0..Len(l) /\ 0 \in 0..Len(r) /\ 0 + m <= Len(l) /\ 0 + m <= Len(r) /\ 0 + m = m
    OBVIOUS
<1>2. d[0][0] <= 0
    BY <1>1 DEF IsAlignment
<1>3. \A t \in 1..m : l[0 + t] = r[0 + t]
    OBVIOUS
<1>4. d[0 + m][0 + m] <= 0
    BY <1>1, <1>2, <1>3, Slide
<1> QED
    BY <1>1, <1>4

LEMMA OneEditCostsOne ==
    ASSUME NEW l \in Seq(Alphabet), NEW r \in Seq(Alphabet), NEW d, IsAlignment(l, r, d),
           r \in Edited(l)
    PROVE  d[Len(l)][Len(r)] <= 1
<1>1. Len(l) \in Nat /\ Len(r) \in Nat
    OBVIOUS
<1>2. ASSUME NEW k \in 1..Len(l), r = RemoveAt(l, k)
      PROVE  d[Len(l)][Len(r)] <= 1
  <2>1. /\ Len(r) = Len(l) - 1
        /\ \A t \in 1..Len(l) - 1 : r[t] = IF t < k THEN l[t] ELSE l[t + 1]
      BY <1>2, RemovedLetters
  <2>2. k - 1 \in Nat /\ k - 1 <= Len(l) /\ k - 1 <= Len(r) /\ \A t \in 1..k - 1 : l[t] = r[t]
      BY <1>1, <2>1
  <2>3. d[k - 1][k - 1] <= 0
      BY <2>2, CommonPrefix
  <2>4. k \in 1..Len(l) /\ k \in 0..Len(l) /\ k - 1 \in 0..Len(r) /\ k - 1 \in 0..Len(l)
      BY <1>1, <2>1
  <2>5. d[k][k - 1] <= d[k - 1][k - 1] + 1
      BY <2>4, RowBelow
  <2>6. d[k][k - 1] <= 1
    <3>1. PICK a \in Nat, b \in Nat : a = d[k][k - 1] /\ b = d[k - 1][k - 1]
        BY <2>4, CellType
    <3> QED
        BY <2>3, <2>5, <3>1
  <2> DEFINE m == Len(l) - k
  <2>7. /\ m \in Nat /\ k + m = Len(l) /\ (k - 1) + m = Len(r)
        /\ k + m <= Len(l) /\ (k - 1) + m <= Len(r)
        /\ \A t \in 1..m : l[k + t] = r[(k - 1) + t]
    <3>1. m \in Nat /\ k + m = Len(l) /\ (k - 1) + m = Len(r)
        BY <1>1, <2>1
    <3>2. ASSUME NEW t \in 1..m PROVE l[k + t] = r[(k - 1) + t]
      <4>1. (k - 1) + t \in 1..Len(l) - 1 /\ ~((k - 1) + t < k) /\ ((k - 1) + t) + 1 = k + t
          BY <1>1, <3>1
      <4> QED
          BY <2>1, <4>1
    <3> QED
        BY <1>1, <3>1, <3>2
  <2> HIDE DEF m
  <2>8. d[k + m][(k - 1) + m] <= 1
      BY <2>4, <2>6, <2>7, Slide
  <2> QED
      BY <2>7, <2>8
<1>3. ASSUME NEW k \in 1..Len(l), NEW c \in Alphabet, r = ReplaceAt(l, k, c)
      PROVE  d[Len(l)][Len(r)] <= 1
  <2>0. /\ Len(ReplaceAt(l, k, c)) = Len(l)
        /\ \A t \in 1..Len(l) : ReplaceAt(l, k, c)[t] = IF t = k THEN c ELSE l[t]
      BY ReplacedLetters
  <2>1. Len(r) = Len(l) /\ \A t \in 1..Len(l) : r[t] = IF t = k THEN c ELSE l[t]
      BY <1>3, <2>0
  <2>2. k - 1 \in Nat /\ k - 1 <= Len(l) /\ k - 1 <= Len(r) /\ \A t \in 1..k - 1 : l[t] = r[t]
      BY <1>1, <2>1
  <2>3. d[k - 1][k - 1] <= 0
      BY <2>2, CommonPrefix
  <2>4. k \in 1..Len(l) /\ k \in 1..Len(r) /\ k \in 0..Len(l) /\ k \in 0..Len(r)
        /\ k - 1 \in 0..Len(r) /\ k - 1 \in 0..Len(l)
      BY <1>1, <2>1
  <2>5. d[k][k] <= d[k - 1][k - 1] + SubstitutionCost(l, r, k, k)
      BY <2>4, CellProperties
  <2>6. d[k][k] <= 1
    <3>1. PICK a \in Nat, b \in Nat : a = d[k][k] /\ b = d[k - 1][k - 1]
        BY <2>4, CellType
    <3>2. PICK e \in {0, 1} : e = SubstitutionCost(l, r, k, k)
        BY DEF SubstitutionCost
    <3>3. a <= b + e /\ b <= 0
        BY <2>3, <2>5, <3>1, <3>2
    <3> QED
        BY <3>1, <3>3
  <2> DEFINE m == Len(l) - k
  <2>7. /\ m \in Nat /\ k + m = Len(l) /\ k + m = Len(r)
        /\ k + m <= Len(l) /\ k + m <= Len(r)
        /\ \A t \in 1..m : l[k + t] = r[k + t]
      BY <1>1, <2>1
  <2> HIDE DEF m
  <2>8. d[k + m][k + m] <= 1
      BY <2>4, <2>6, <2>7, Slide
  <2> QED
      BY <2>7, <2>8
<1>4. ASSUME NEW k \in 1..Len(l) + 1, NEW c \in Alphabet, r = InsertAt(l, k, c)
      PROVE  d[Len(l)][Len(r)] <= 1
  <2>0. /\ Len(InsertAt(l, k, c)) = Len(l) + 1
        /\ \A t \in 1..Len(l) + 1 :
             InsertAt(l, k, c)[t] = IF t < k THEN l[t] ELSE IF t = k THEN c ELSE l[t - 1]
      BY InsertedLetters
  <2>1. /\ Len(r) = Len(l) + 1
        /\ \A t \in 1..Len(l) + 1 : r[t] = IF t < k THEN l[t] ELSE IF t = k THEN c ELSE l[t - 1]
      BY <1>4, <2>0
  <2>2. k - 1 \in Nat /\ k - 1 <= Len(l) /\ k - 1 <= Len(r) /\ \A t \in 1..k - 1 : l[t] = r[t]
      BY <1>1, <2>1
  <2>3. d[k - 1][k - 1] <= 0
      BY <2>2, CommonPrefix
  <2>4. k \in 1..Len(r) /\ k \in 0..Len(r) /\ k - 1 \in 0..Len(r) /\ k - 1 \in 0..Len(l)
      BY <1>1, <2>1
  <2>5. d[k - 1][k] <= d[k - 1][k - 1] + 1
      BY <2>4, ColumnBeside
  <2>6. d[k - 1][k] <= 1
    <3>1. PICK a \in Nat, b \in Nat : a = d[k - 1][k] /\ b = d[k - 1][k - 1]
        BY <2>4, CellType
    <3> QED
        BY <2>3, <2>5, <3>1
  <2> DEFINE m == Len(l) - (k - 1)
  <2>7. /\ m \in Nat /\ (k - 1) + m = Len(l) /\ k + m = Len(r)
        /\ (k - 1) + m <= Len(l) /\ k + m <= Len(r)
        /\ \A t \in 1..m : l[(k - 1) + t] = r[k + t]
    <3>1. m \in Nat /\ (k - 1) + m = Len(l) /\ k + m = Len(r)
        BY <1>1, <2>1
    <3>2. ASSUME NEW t \in 1..m PROVE l[(k - 1) + t] = r[k + t]
      <4>1. k + t \in 1..Len(l) + 1 /\ ~(k + t < k) /\ k + t # k /\ (k + t) - 1 = (k - 1) + t
          BY <1>1, <2>1, <3>1
      <4> QED
          BY <2>1, <4>1
    <3> QED
        BY <1>1, <3>1, <3>2
  <2> HIDE DEF m
  <2>8. d[(k - 1) + m][k + m] <= 1
      BY <2>4, <2>6, <2>7, Slide
  <2> QED
      BY <2>7, <2>8
<1>5. ASSUME NEW k \in 1..Len(l) - 1, r = Swap(l, k)
      PROVE  d[Len(l)][Len(r)] <= 1
  <2>1. /\ Len(r) = Len(l)
        /\ \A t \in 1..Len(l) : r[t] = IF t = k THEN l[k + 1] ELSE IF t = k + 1 THEN l[k] ELSE l[t]
      BY <1>5, SwappedLetters
  <2>2. k - 1 \in Nat /\ k - 1 <= Len(l) /\ k - 1 <= Len(r) /\ \A t \in 1..k - 1 : l[t] = r[t]
      BY <1>1, <2>1
  <2>3. d[k - 1][k - 1] <= 0
      BY <2>2, CommonPrefix
  <2>4. /\ k \in 1..Len(l) /\ k + 1 \in 1..Len(l) /\ k + 1 \in 1..Len(r)
        /\ k + 1 \in 0..Len(l) /\ k + 1 \in 0..Len(r)
        /\ k - 1 \in 0..Len(r) /\ k - 1 \in 0..Len(l)
        /\ (k + 1) - 2 = k - 1 /\ (k + 1) - 1 = k /\ k + 1 > 1 /\ k + 1 # k
      BY <1>1, <2>1
  <2>5. Swapped(l, r, k + 1, k + 1)
      BY <2>1, <2>4 DEF Swapped
  <2>6. d[k + 1][k + 1] <= d[k - 1][k - 1] + 1
    <3>1. d[k + 1][k + 1] <= d[(k + 1) - 2][(k + 1) - 2] + 1
        BY <2>4, <2>5, CellProperties
    <3> QED
        BY <2>4, <3>1
  <2>7. d[k + 1][k + 1] <= 1
    <3>1. PICK a \in Nat, b \in Nat : a = d[k + 1][k + 1] /\ b = d[k - 1][k - 1]
        BY <2>4, CellType
    <3> QED
        BY <2>3, <2>6, <3>1
  <2> DEFINE m == Len(l) - (k + 1)
  <2>8. /\ m \in Nat /\ (k + 1) + m = Len(l) /\ (k + 1) + m = Len(r)
        /\ (k + 1) + m <= Len(l) /\ (k + 1) + m <= Len(r)
        /\ \A t \in 1..m : l[(k + 1) + t] = r[(k + 1) + t]
    <3>1. m \in Nat /\ (k + 1) + m = Len(l) /\ (k + 1) + m = Len(r)
        BY <1>1, <2>1
    <3>2. ASSUME NEW t \in 1..m PROVE l[(k + 1) + t] = r[(k + 1) + t]
      <4>1. (k + 1) + t \in 1..Len(l) /\ (k + 1) + t # k /\ (k + 1) + t # k + 1
          BY <1>1, <3>1
      <4> QED
          BY <2>1, <4>1
    <3> QED
        BY <1>1, <3>1, <3>2
  <2> HIDE DEF m
  <2>9. d[(k + 1) + m][(k + 1) + m] <= 1
      BY <2>4, <2>7, <2>8, Slide
  <2> QED
      BY <2>8, <2>9
<1> QED
    BY <1>2, <1>3, <1>4, <1>5, EditedByCases

-----------------------------------------------------------------------------
(* The answers, once more.                                                 *)

\* What is returned is the distance, unless that exceeds the maximum and the
\* comparison was given up.
Returned ==
    answer # Nothing =>
        /\ asked \in Questions
        /\ \/ answer = Exact(asked)
           \/ Exact(asked) > asked.maximum /\ answer = asked.maximum + 1

LEMMA BoundedIsReturned ==
    ASSUME NEW q \in Questions, NEW n, Bounded!IsBounded(q, n), n = 0 \/ n = q.maximum + 1
    PROVE  n = Exact(q) \/ (Exact(q) > q.maximum /\ n = q.maximum + 1)
<1>1. PICK e \in Nat, m \in Nat : e = Exact(q) /\ m = q.maximum
    BY ExactIsNumber, QuestionFacts
<1>2. n \in Nat /\ (IF e <= m THEN n = e ELSE n > m)
    BY <1>1 DEF Bounded!IsBounded
<1> QED
    BY <1>1, <1>2

LEMMA ReturnedNext == IInv /\ Returned /\ [Next]_vars => Returned'
<1> SUFFICES ASSUME IInv, Returned, [Next]_vars PROVE Returned'
    OBVIOUS
<1>1. CASE CallAtOnce
  <2>1. PICK q \in Questions :
            /\ Call(q)
            /\ \/ q.left = q.right /\ answer' = 0
               \/ q.left # q.right /\ TooFar(q) /\ answer' = q.maximum + 1
      BY <1>1 DEF CallAtOnce
  <2>2. asked' = q /\ (answer' = 0 \/ answer' = q.maximum + 1)
      BY <2>1 DEF Call
  <2>3. Bounded!IsBounded(q, answer')
      BY <1>1, <2>2, AtOnceIsBounded DEF Bounded!AskAndReply
  <2> QED
      BY <2>2, <2>3, BoundedIsReturned DEF Returned
<1>2. CASE Prepare
    BY <1>2 DEF Prepare, Returned
<1>3. CASE StartRow
    BY <1>3 DEF StartRow, Returned
<1>4. CASE FillCell
    BY <1>4 DEF FillCell, Returned
<1>5. CASE GiveUp
  <2>1. asked \in Questions /\ asked' = asked /\ answer' = asked.maximum + 1
      BY <1>5 DEF GiveUp, IInv, TypeOK
  <2>2. Bounded!IsBounded(asked, answer')
      BY <1>5, GivingUpIsBounded DEF Bounded!Reply
  <2>3. answer' = Exact(asked) \/ (Exact(asked) > asked.maximum /\ answer' = asked.maximum + 1)
      BY <2>1, <2>2, BoundedIsReturned
  <2> QED
      BY <2>1, <2>3 DEF Returned
<1>6. CASE EndRow
    BY <1>6 DEF EndRow, Returned
<1>7. CASE Return
  <2>1. /\ pc = "row" /\ row > Len(asked.left) /\ asked \in Questions
        /\ answer' = previous[Len(asked.right)] /\ asked' = asked
      BY <1>7 DEF Return, IInv, TypeOK
  <2>2. Len(asked.left) \in Nat /\ Len(asked.right) \in Nat
      BY <2>1, QuestionFacts
  <2>3. row - 1 = Len(asked.left)
      BY <2>1, <2>2 DEF IInv, TypeOK
  <2>4. answer' = Exact(asked)
      BY <2>1, <2>2, <2>3 DEF IInv, FinishedRows, Reached, Exact
  <2> QED
      BY <2>1, <2>4 DEF Returned
<1>8. CASE UNCHANGED vars
    BY <1>8 DEF vars, Returned
<1> QED
    BY <1>1, <1>2, <1>3, <1>4, <1>5, <1>6, <1>7, <1>8 DEF Next, Work

LEMMA ReturnedAlways == Spec => [](IInv /\ Returned)
<1>1. Init => Returned
    BY DEF Init, Returned
<1> QED
    BY <1>1, InvariantInit, InvariantNext, ReturnedNext, PTL DEF Spec

\* The sets of words that TLC compares with are those of the edits.
LEMMA WithinIsNearBy ==
    ASSUME NEW w \in Words, NEW v, NEW n
    PROVE  Within(w, v, n) <=> NearBy(w, v, n)
    BY DEF Within, NearBy, OneEdit, TwoEdits

\* A distance up to two that damerauLevenshteinDistance returns, and does not
\* merely bound, is one that so many edits cover: with the maxima the index
\* and the lint pass, no word is called nearer than it is.
THEOREM NoWordIsFartherThanItLooks ==
    ASSUME Maxima \subseteq 0..2
    PROVE  Spec => []NearWordsAreNear
<1>1. IInv /\ Returned => NearWordsAreNear
  <2> SUFFICES ASSUME Returned, answer # Nothing, answer <= asked.maximum
               PROVE  Within(asked.left, asked.right, answer)
      BY DEF NearWordsAreNear
  <2>1. asked \in Questions /\ asked.maximum \in 0..2 /\ asked.left \in Words /\ asked.right \in Words
      BY DEF Returned, Questions
  <2>2. /\ asked.left \in Seq(Alphabet) /\ asked.right \in Seq(Alphabet)
        /\ IsAlignment(asked.left, asked.right, Alignment[asked.left][asked.right])
        /\ Len(asked.left) \in Nat /\ Len(asked.right) \in Nat
      BY <2>1, QuestionFacts
  <2>3. answer # asked.maximum + 1
      BY <2>1
  <2>4. answer = Exact(asked)
      BY <2>3 DEF Returned
  <2>5. PICK n \in Nat : n = Exact(asked)
      BY <2>1, ExactIsNumber
  <2>6. n <= 2
      BY <2>1, <2>4, <2>5
  <2>7. /\ Len(asked.left) \in 0..Len(asked.left) /\ Len(asked.right) \in 0..Len(asked.right)
        /\ Alignment[asked.left][asked.right][Len(asked.left)][Len(asked.right)] = n
      BY <2>2, <2>5 DEF Exact
  <2>8. NearBy(SubSeq(asked.left, 1, Len(asked.left)), SubSeq(asked.right, 1, Len(asked.right)), n)
      BY <2>2, <2>6, <2>7, TableCountsEdits
  <2>9. /\ SubSeq(asked.left, 1, Len(asked.left)) = asked.left
        /\ SubSeq(asked.right, 1, Len(asked.right)) = asked.right
      BY <2>2, SubSeqFull
  <2>10. NearBy(asked.left, asked.right, n)
      BY <2>8, <2>9
  <2> QED
      BY <2>1, <2>4, <2>5, <2>10, WithinIsNearBy
<1> QED
    BY <1>1, ReturnedAlways, PTL

\* Words one edit apart are called so whatever the edit, its place and the
\* maximum: nothing that one keystroke does hides a word from the index.
THEOREM OneEditIsSeen == Spec => []OneEditIsNear
<1>1. IInv /\ Returned => OneEditIsNear
  <2> SUFFICES ASSUME Returned, answer # Nothing, Within(asked.left, asked.right, 1)
               PROVE  answer <= 1
      BY DEF OneEditIsNear
  <2>1. asked \in Questions /\ asked.maximum \in Nat /\ asked.left \in Words /\ asked.right \in Words
      BY QuestionFacts DEF Returned, Questions
  <2>2. /\ asked.left \in Seq(Alphabet) /\ asked.right \in Seq(Alphabet)
        /\ IsAlignment(asked.left, asked.right, Alignment[asked.left][asked.right])
        /\ Len(asked.left) \in Nat /\ Len(asked.right) \in Nat
      BY <2>1, QuestionFacts
  <2>3. NearBy(asked.left, asked.right, 1)
      BY <2>1, WithinIsNearBy
  <2>4. Exact(asked) <= 1
    <3>1. CASE asked.left = asked.right
      <4>1. IsAlignment(asked.left, asked.left, Alignment[asked.left][asked.left])
          BY <2>2, <3>1
      <4>2. Alignment[asked.left][asked.left][Len(asked.left)][Len(asked.left)] = 0
          BY <2>2, <4>1, Diagonal
      <4> QED
          BY <3>1, <4>2 DEF Exact
    <3>2. CASE asked.right \in Edited(asked.left)
        BY <2>2, <3>2, OneEditCostsOne DEF Exact
    <3> QED
        BY <2>3, <3>1, <3>2 DEF NearBy
  <2>5. PICK e \in Nat, m \in Nat : e = Exact(asked) /\ m = asked.maximum
      BY <2>1, ExactIsNumber
  <2>6. answer = e \/ (e > m /\ answer = m + 1)
      BY <2>5 DEF Returned
  <2> QED
      BY <2>4, <2>5, <2>6
<1> QED
    BY <1>1, ReturnedAlways, PTL

-----------------------------------------------------------------------------
(* Runs.                                                                   *)

\* Where a run ends.
IsLastOfRun(e, i, n, chosen) ==
    /\ e \in i..n /\ i..e \subseteq chosen
    /\ e < n => e + 1 \notin chosen
LEMMA LastOfRunProperties ==
    ASSUME NEW n \in Nat, NEW i \in 1..n, NEW chosen, i \in chosen
    PROVE  /\ IsLastOfRun(LastOfRun(i, n, chosen), i, n, chosen)
           /\ \A e : IsLastOfRun(e, i, n, chosen) => e = LastOfRun(i, n, chosen)
<1> DEFINE S == {j \in i..n : i..j \subseteq chosen}
           e == Max(S)
<1>1. e \in S /\ \A j \in S : j <= e
  <2>1. S \in SUBSET (0..n) /\ i \in S
      OBVIOUS
  <2> HIDE DEF S
  <2> QED
      BY <2>1, MaxProperty
<1>2. e \in i..n /\ i..e \subseteq chosen
    BY <1>1
<1>3. e = LastOfRun(i, n, chosen)
    BY DEF LastOfRun
<1> HIDE DEF e
<1>4. ASSUME e < n, e + 1 \in chosen PROVE FALSE
  <2>1. e + 1 \in i..n
      BY <1>2, <1>4
  <2>2. i..e + 1 \subseteq chosen
      BY <1>2, <1>4
  <2>3. e + 1 \in S /\ ~(e + 1 <= e)
      BY <1>2, <2>1, <2>2
  <2> QED
      BY <1>1, <2>3
<1>5. ASSUME NEW j, IsLastOfRun(j, i, n, chosen) PROVE j = e
  <2>1. j \in i..n /\ i..j \subseteq chosen /\ (j < n => j + 1 \notin chosen)
      BY <1>5 DEF IsLastOfRun
  <2>2. j <= e
      BY <1>1, <2>1
  <2>3. ASSUME j < e PROVE FALSE
    <3>1. j + 1 \in i..e /\ j < n
        BY <1>2, <2>1, <2>3
    <3> QED
        BY <1>2, <2>1, <3>1
  <2> QED
      BY <1>2, <2>1, <2>2, <2>3
<1> QED
    BY <1>2, <1>3, <1>4, <1>5 DEF IsLastOfRun

IsRunEnd(e, s, i, chars) ==
    /\ e \in i..Len(s) /\ \A k \in i..e : s[k] \in chars
    /\ e < Len(s) => s[e + 1] \notin chars
LEMMA RunEndProperties ==
    ASSUME NEW C, NEW s \in Seq(C), NEW i \in 1..Len(s), NEW chars, s[i] \in chars
    PROVE  /\ IsRunEnd(RunEnd(s, i, chars), s, i, chars)
           /\ \A e : IsRunEnd(e, s, i, chars) => e = RunEnd(s, i, chars)
<1> DEFINE chosen == {k \in DOMAIN s : s[k] \in chars}
<1>1. Len(s) \in Nat /\ DOMAIN s = 1..Len(s) /\ i \in chosen
    OBVIOUS
<1>2. \A e : IsLastOfRun(e, i, Len(s), chosen) <=> IsRunEnd(e, s, i, chars)
  <2> SUFFICES ASSUME NEW e \in i..Len(s)
               PROVE  IsLastOfRun(e, i, Len(s), chosen) <=> IsRunEnd(e, s, i, chars)
      BY DEF IsLastOfRun, IsRunEnd
  <2>1. i..e \subseteq chosen <=> \A k \in i..e : s[k] \in chars
      BY <1>1
  <2>2. e < Len(s) => (e + 1 \in chosen <=> s[e + 1] \in chars)
      BY <1>1
  <2> HIDE DEF chosen
  <2> QED
      BY <2>1, <2>2 DEF IsLastOfRun, IsRunEnd
<1>3. RunEnd(s, i, chars) = LastOfRun(i, Len(s), chosen)
    BY DEF RunEnd
<1> HIDE DEF chosen
<1> QED
    BY <1>1, <1>2, <1>3, LastOfRunProperties

RunUnits(s, chosen) ==
    [i \in 1..Len(s) |-> IF i \in chosen THEN <<SubSeq(s, i, LastOfRun(i, Len(s), chosen))>> ELSE <<>>]
RunNexts(s, chosen) ==
    [i \in 1..Len(s) |-> IF i \in chosen THEN LastOfRun(i, Len(s), chosen) + 1 ELSE i + 1]

LEMMA RunsForward ==
    ASSUME NEW C, NEW s \in Seq(C), NEW chosen
    PROVE  Forward(Len(s), Seq(C), RunUnits(s, chosen), RunNexts(s, chosen))
<1>1. Len(s) \in Nat
    OBVIOUS
<1> SUFFICES ASSUME NEW i \in 1..Len(s)
             PROVE  /\ RunUnits(s, chosen)[i] \in Seq(Seq(C))
                    /\ RunNexts(s, chosen)[i] \in 1..Len(s) + 1 /\ i < RunNexts(s, chosen)[i]
    BY <1>1 DEF Forward
<1>2. CASE i \in chosen
  <2> DEFINE e == LastOfRun(i, Len(s), chosen)
  <2>1. e \in i..Len(s)
      BY <1>1, <1>2, LastOfRunProperties DEF IsLastOfRun
  <2>2. RunUnits(s, chosen)[i] = <<SubSeq(s, i, e)>> /\ RunNexts(s, chosen)[i] = e + 1
      BY <1>2 DEF RunUnits, RunNexts
  <2> HIDE DEF e
  <2>3. SubSeq(s, i, e) \in Seq(C)
      BY <2>1, SubSeqProperties
  <2> QED
      BY <1>1, <2>1, <2>2, <2>3
<1>3. CASE i \notin chosen
    BY <1>1, <1>3 DEF RunUnits, RunNexts
<1> QED
    BY <1>2, <1>3

\* appendDotAware walks.
LEMMA RunsEquation ==
    ASSUME NEW C, NEW s \in Seq(C), NEW chosen
    PROVE  \E f \in [1..Len(s) + 1 -> Seq(Seq(C))] :
               /\ Runs(s, chosen) = f[1]
               /\ Walks(f, Len(s), RunUnits(s, chosen), RunNexts(s, chosen))
<1> DEFINE n == Len(s)
           unit == RunUnits(s, chosen)
           next == RunNexts(s, chosen)
           End(i) == LastOfRun(i, Len(s), chosen)
           rhs(g) == [i \in 1..Len(s) + 1 |->
                        IF i > Len(s) THEN <<>>
                        ELSE IF i \notin chosen THEN g[i + 1]
                        ELSE <<SubSeq(s, i, End(i))>> \o g[End(i) + 1]]
<1>1. n \in Nat
    OBVIOUS
<1>2. Forward(n, Seq(C), unit, next)
    BY RunsForward
<1>3. \A i \in 1..n :
          /\ i \in chosen => unit[i] = <<SubSeq(s, i, End(i))>> /\ next[i] = End(i) + 1
          /\ i \notin chosen => unit[i] = <<>> /\ next[i] = i + 1
    BY DEF RunUnits, RunNexts
<1> HIDE DEF unit, next, End
<1>4. PICK f \in [1..n + 1 -> Seq(Seq(C))] : Walks(f, n, unit, next)
    BY <1>2, WalkExists
<1>5. ASSUME NEW i \in 1..n + 1
      PROVE  f[i] = IF i > n THEN <<>>
                    ELSE IF i \notin chosen THEN f[i + 1]
                    ELSE <<SubSeq(s, i, End(i))>> \o f[End(i) + 1]
  <2>1. CASE i = n + 1
      BY <1>1, <1>4, <2>1 DEF Walks
  <2>2. CASE i \in 1..n /\ i \in chosen
    <3>1. f[i] = unit[i] \o f[next[i]]
        BY <1>4, <2>2 DEF Walks
    <3>2. ~(i > n)
        BY <1>1, <2>2
    <3>3. f[i] = <<SubSeq(s, i, End(i))>> \o f[End(i) + 1]
        BY <1>3, <2>2, <3>1
    <3> QED
        BY <2>2, <3>2, <3>3
  <2>3. CASE i \in 1..n /\ i \notin chosen
    <3>1. f[i] = <<>> \o f[i + 1]
        BY <1>3, <1>4, <2>3 DEF Walks
    <3>2. i + 1 \in 1..n + 1 /\ ~(i > n)
        BY <1>1, <2>3
    <3>3. f[i + 1] \in Seq(Seq(C))
        BY <1>4, <3>2
    <3> QED
        BY <2>3, <3>1, <3>2, <3>3, ConcatEmptySeq
  <2>4. i = n + 1 \/ i \in 1..n
      BY <1>1
  <2> HIDE DEF n
  <2> QED
      BY <2>1, <2>2, <2>3, <2>4, Zenon
<1>6. f = rhs(f)
    BY <1>5
<1>7. \E h : Runs(s, chosen) = h[1] /\ h = rhs(h)
  <2> DEFINE h == CHOOSE h : h = rhs(h)
  <2>1. h = rhs(h)
      BY <1>6
  <2>2. Runs(s, chosen) = h[1]
      BY DEF Runs, End
  <2> QED
      BY <2>1, <2>2
<1>8. PICK h : Runs(s, chosen) = h[1] /\ h = rhs(h)
    BY <1>7
<1>9. \A i \in 1..n + 1 : h[i] = IF i > n THEN <<>>
                                 ELSE IF i \notin chosen THEN h[i + 1]
                                 ELSE <<SubSeq(s, i, End(i))>> \o h[End(i) + 1]
    BY <1>8
<1> DEFINE T == {i \in 1..n + 1 : h[i] = f[i]}
<1>10. 1..n + 1 \subseteq T
  <2>1. n + 1 \in T
    <3>1. n + 1 \in 1..n + 1 /\ n + 1 > n
        BY <1>1
    <3>2. f[n + 1] = <<>>
        BY <1>5, <3>1
    <3>3. h[n + 1] = <<>>
        BY <1>9, <3>1
    <3> QED
        BY <3>1, <3>2, <3>3
  <2>2. ASSUME NEW i \in 1..n, next[i] \in T PROVE i \in T
    <3>1. i \in 1..n + 1 /\ ~(i > n) /\ h[next[i]] = f[next[i]]
        BY <1>1, <2>2
    <3>2. CASE i \in chosen
      <4>1. h[i] = <<SubSeq(s, i, End(i))>> \o h[End(i) + 1]
          BY <1>9, <3>1, <3>2
      <4>2. f[i] = <<SubSeq(s, i, End(i))>> \o f[End(i) + 1]
          BY <1>5, <3>1, <3>2
      <4>3. next[i] = End(i) + 1
          BY <1>3, <3>2
      <4> QED
          BY <3>1, <4>1, <4>2, <4>3
    <3>3. CASE i \notin chosen
        BY <1>3, <1>5, <1>9, <3>1, <3>3
    <3> QED
        BY <3>2, <3>3
  <2> HIDE DEF T
  <2> QED
      BY <1>2, <2>1, <2>2, WalkInduction
<1>11. h[1] = f[1]
    BY <1>1, <1>10
<1> QED
    BY <1>4, <1>8, <1>11 DEF unit, next

-----------------------------------------------------------------------------
(* Characters and chunks.                                                  *)

LEMMA CharacterFacts ==
    /\ " " \notin ChunkChar /\ " " \in Readable /\ " " \notin Direction
    /\ ChunkChar \subseteq Readable /\ Direction \subseteq Readable
    /\ Direction \cap ChunkChar = {}
    /\ "." \notin WordChar /\ "-" \notin WordChar /\ "." # "-" /\ "." \in Readable
    /\ WordChar \subseteq ChunkChar /\ Digits \subseteq WordChar
    /\ \A c \in Readable :
        /\ LowerCase[c] \in Readable /\ LowerCase[LowerCase[c]] = LowerCase[c]
        /\ c \in ChunkChar <=> LowerCase[c] \in ChunkChar
        /\ c \in WordChar <=> LowerCase[c] \in WordChar
        /\ c \in Digits => LowerCase[c] = c
<1>1. /\ " " \notin WordChar /\ "." \notin WordChar /\ "-" \notin WordChar /\ "_" \notin WordChar
      /\ ">" \notin WordChar /\ "<" \notin WordChar
    BY AlphabetAssumption DEF Direction
<1>2. /\ " " \notin ChunkChar /\ ">" \notin ChunkChar /\ "<" \notin ChunkChar
      /\ WordChar \subseteq ChunkChar
    BY <1>1 DEF ChunkChar
<1>3. ChunkChar \subseteq Readable /\ Direction \subseteq Readable /\ " " \in Readable
    BY AlphabetAssumption
<1>4. "." # "-" /\ " " \notin Direction /\ Direction \cap ChunkChar = {} /\ "." \in Readable
    BY <1>2, <1>3 DEF Direction, ChunkChar
<1>5. Digits \subseteq WordChar
    BY DEF WordChar
<1>6. ASSUME NEW c \in Readable
      PROVE  /\ LowerCase[c] \in Readable /\ LowerCase[LowerCase[c]] = LowerCase[c]
             /\ c \in ChunkChar <=> LowerCase[c] \in ChunkChar
             /\ c \in WordChar <=> LowerCase[c] \in WordChar
             /\ c \in Digits => LowerCase[c] = c
  <2>1. LowerCase[c] \in Readable /\ LowerCase[LowerCase[c]] = LowerCase[c]
      BY AlphabetAssumption
  <2>2. CASE c \in Letters
    <3>1. LowerCase[c] \in Letters
        BY <2>2, AlphabetAssumption
    <3> QED
        BY <2>1, <2>2, <3>1, AlphabetAssumption DEF ChunkChar, WordChar
  <2>3. CASE c \notin Letters
    <3>1. LowerCase[c] = c
        BY <2>3, AlphabetAssumption
    <3> QED
        BY <2>1, <3>1
  <2> QED
      BY <2>2, <2>3
<1> QED
    BY <1>1, <1>2, <1>3, <1>4, <1>5, <1>6

\* A chunk consists of the lowered characters up to the end of its run.
LEMMA ChunkFacts ==
    ASSUME NEW s \in Seq(Readable), NEW i \in 1..Len(s), s[i] \in ChunkChar
    PROVE  LET e == RunEnd(s, i, ChunkChar) IN
           /\ IsRunEnd(e, s, i, ChunkChar)
           /\ ChunkAt(s, i) \in Seq(ChunkChar) /\ ChunkAt(s, i) \in Seq(Readable)
           /\ Len(ChunkAt(s, i)) = e - i + 1
           /\ \A k \in 1..e - i + 1 : ChunkAt(s, i)[k] = LowerCase[s[i + k - 1]]
<1> DEFINE e == RunEnd(s, i, ChunkChar)
           c == SubSeq(s, i, e)
<1>1. IsRunEnd(e, s, i, ChunkChar)
    BY RunEndProperties
<1> HIDE DEF e
<1>2. e \in i..Len(s) /\ \A k \in i..e : s[k] \in ChunkChar
    BY <1>1 DEF IsRunEnd
<1>3. Len(c) = e - i + 1 /\ c \in Seq(Readable) /\ \A k \in 1..e - i + 1 : c[k] = s[i + k - 1]
    BY <1>2, SubSeqProperties
<1> HIDE DEF c
<1>4. DOMAIN c = 1..e - i + 1 /\ e - i + 1 \in Nat
    BY <1>2, <1>3
<1>5. \A k \in 1..e - i + 1 : c[k] \in ChunkChar /\ c[k] \in Readable
  <2> TAKE k \in 1..e - i + 1
  <2>1. i + k - 1 \in i..e
      BY <1>2
  <2>2. c[k] \in ChunkChar
      BY <1>2, <1>3, <2>1
  <2> QED
      BY <2>2, CharacterFacts
<1>6. \A k \in 1..e - i + 1 : LowerCase[c[k]] \in ChunkChar /\ LowerCase[c[k]] \in Readable
    BY <1>5, CharacterFacts
<1>7. ChunkAt(s, i) = [k \in 1..e - i + 1 |-> LowerCase[c[k]]]
    BY <1>4 DEF ChunkAt, Lowered, e, c
<1>8. /\ ChunkAt(s, i) \in Seq(ChunkChar) /\ ChunkAt(s, i) \in Seq(Readable)
      /\ Len(ChunkAt(s, i)) = e - i + 1
    BY <1>4, <1>6, <1>7
<1>9. \A k \in 1..e - i + 1 : ChunkAt(s, i)[k] = LowerCase[s[i + k - 1]]
    BY <1>3, <1>7
<1> QED
    BY <1>1, <1>8, <1>9, Zenon DEF e

LEMMA RedirectionFacts ==
    ASSUME NEW s \in Seq(Readable), NEW i \in 1..Len(s), s[i] \in ChunkChar, IsRedirection(s, i)
    PROVE  LET e == RunEnd(s, i, ChunkChar)
               q == RedirectionEnd(s, i) IN
           /\ e \in i..Len(s) /\ e < Len(s) /\ e + 1 \in 1..Len(s)
           /\ s[e + 1] \in Direction /\ s[e + 1] \notin ChunkChar
           /\ \A k \in i..e : s[k] \in Digits
           /\ IsRunEnd(q, s, e + 1, {s[e + 1]})
           /\ q \in i..Len(s) /\ e < q
<1> DEFINE e == RunEnd(s, i, ChunkChar)
           q == RedirectionEnd(s, i)
<1>1. IsRunEnd(e, s, i, ChunkChar)
    BY RunEndProperties
<1>2. /\ \A k \in i..e : s[k] \in Digits
      /\ e < Len(s) /\ s[e + 1] \in Direction
    BY DEF IsRedirection
<1>3. q = RunEnd(s, e + 1, {s[e + 1]})
    BY DEF RedirectionEnd
<1> HIDE DEF e, q
<1>4. e \in i..Len(s) /\ e + 1 \in 1..Len(s)
    BY <1>1, <1>2 DEF IsRunEnd
<1>5. IsRunEnd(q, s, e + 1, {s[e + 1]})
    BY <1>3, <1>4, RunEndProperties
<1>6. q \in e + 1..Len(s)
    BY <1>5 DEF IsRunEnd
<1>7. q \in i..Len(s) /\ e < q
    BY <1>4, <1>6
<1>8. s[e + 1] \notin ChunkChar
    BY <1>2, CharacterFacts
<1> QED
    BY <1>2, <1>4, <1>5, <1>7, <1>8 DEF e, q

LEMMA TrailingDots ==
    ASSUME NEW C, NEW s \in Seq(C)
    PROVE  \E m \in 0..Len(s) :
               /\ WithoutTrailingDots(s) = SubSeq(s, 1, m)
               /\ m # 0 => s[m] # "."
               /\ \A k \in m + 1..Len(s) : s[k] = "."
<1> DEFINE S == {0} \cup {i \in DOMAIN s : s[i] # "."}
           m == Max(S)
<1>1. Len(s) \in Nat /\ DOMAIN s = 1..Len(s)
    OBVIOUS
<1>2. m \in S /\ \A k \in S : k <= m
  <2>1. S \in SUBSET (0..Len(s)) /\ S # {}
      BY <1>1
  <2> HIDE DEF S
  <2> QED
      BY <1>1, <2>1, MaxProperty
<1>3. WithoutTrailingDots(s) = SubSeq(s, 1, m)
    BY DEF WithoutTrailingDots
<1> HIDE DEF m
<1>4. m \in 0..Len(s) /\ (m # 0 => s[m] # ".")
    BY <1>1, <1>2
<1>5. ASSUME NEW k \in m + 1..Len(s) PROVE s[k] = "."
  <2>1. k \in 1..Len(s) /\ ~(k <= m)
      BY <1>1, <1>4
  <2> QED
      BY <1>1, <1>2, <2>1
<1> QED
    BY <1>3, <1>4, <1>5

LEMMA AppendChunkType ==
    ASSUME NEW chunk \in Seq(Readable) PROVE AppendChunk(chunk) \in Seq(Seq(Readable))
<1>1. CASE IsFlagChunk(chunk)
  <2>1. PICK m \in 0..Len(chunk) : WithoutTrailingDots(chunk) = SubSeq(chunk, 1, m)
      BY TrailingDots
  <2>2. SubSeq(chunk, 1, m) \in Seq(Readable)
      BY SubSeqProperties
  <2>3. AppendChunk(chunk) = <<SubSeq(chunk, 1, m)>>
      BY <1>1, <2>1 DEF AppendChunk
  <2> QED
      BY <2>2, <2>3
<1>2. CASE ~IsFlagChunk(chunk)
  <2>1. PICK f \in [1..Len(chunk) + 1 -> Seq(Seq(Readable))] : Runs(chunk, KeptPositions(chunk)) = f[1]
      BY RunsEquation
  <2>2. 1 \in 1..Len(chunk) + 1
      OBVIOUS
  <2> QED
      BY <1>2, <2>1, <2>2 DEF AppendChunk
<1> QED
    BY <1>1, <1>2

-----------------------------------------------------------------------------
(* lexicalTokens as a walk.                                                *)

Unit(s, i) ==
    IF s[i] \notin ChunkChar THEN <<>>
    ELSE IF IsRedirection(s, i) THEN <<SubSeq(s, i, RedirectionEnd(s, i))>>
    ELSE AppendChunk(ChunkAt(s, i))
Following(s, i) ==
    IF s[i] \notin ChunkChar THEN i + 1
    ELSE IF IsRedirection(s, i) THEN RedirectionEnd(s, i) + 1
    ELSE RunEnd(s, i, ChunkChar) + 1
Units(s) == [i \in 1..Len(s) |-> Unit(s, i)]
Nexts(s) == [i \in 1..Len(s) |-> Following(s, i)]

LEMMA LexForward ==
    ASSUME NEW s \in Seq(Readable)
    PROVE  Forward(Len(s), Seq(Readable), Units(s), Nexts(s))
<1>1. Len(s) \in Nat
    OBVIOUS
<1> SUFFICES ASSUME NEW i \in 1..Len(s)
             PROVE  /\ Unit(s, i) \in Seq(Seq(Readable))
                    /\ Following(s, i) \in 1..Len(s) + 1 /\ i < Following(s, i)
    BY <1>1 DEF Forward, Units, Nexts
<1>2. CASE s[i] \notin ChunkChar
    BY <1>1, <1>2 DEF Unit, Following
<1>3. CASE s[i] \in ChunkChar /\ IsRedirection(s, i)
  <2> DEFINE q == RedirectionEnd(s, i)
  <2>1. q \in i..Len(s)
      BY <1>3, RedirectionFacts
  <2>2. Unit(s, i) = <<SubSeq(s, i, q)>> /\ Following(s, i) = q + 1
      BY <1>3 DEF Unit, Following
  <2> HIDE DEF q
  <2>3. SubSeq(s, i, q) \in Seq(Readable)
      BY <2>1, SubSeqProperties
  <2> QED
      BY <1>1, <2>1, <2>2, <2>3
<1>4. CASE s[i] \in ChunkChar /\ ~IsRedirection(s, i)
  <2> DEFINE e == RunEnd(s, i, ChunkChar)
  <2>1. IsRunEnd(e, s, i, ChunkChar) /\ ChunkAt(s, i) \in Seq(Readable)
      BY <1>4, ChunkFacts
  <2>2. e \in i..Len(s)
      BY <2>1 DEF IsRunEnd
  <2>3. Unit(s, i) = AppendChunk(ChunkAt(s, i)) /\ Following(s, i) = e + 1
      BY <1>4 DEF Unit, Following
  <2> HIDE DEF e
  <2>4. AppendChunk(ChunkAt(s, i)) \in Seq(Seq(Readable))
      BY <2>1, AppendChunkType
  <2> QED
      BY <1>1, <2>2, <2>3, <2>4
<1> QED
    BY <1>2, <1>3, <1>4

LEMMA LexedEquation ==
    ASSUME NEW s \in Seq(Readable)
    PROVE  \E f \in [1..Len(s) + 1 -> Seq(Seq(Readable))] :
               LexedFrom(s) = f[1] /\ Walks(f, Len(s), Units(s), Nexts(s))
<1> DEFINE n == Len(s)
           unit == Units(s)
           next == Nexts(s)
           V == Seq(Readable)
           rhs(g) == [i \in 1..Len(s) + 1 |->
                IF i > Len(s) THEN <<>>
                ELSE IF s[i] \notin ChunkChar THEN g[i + 1]
                ELSE IF IsRedirection(s, i)
                     THEN <<SubSeq(s, i, RedirectionEnd(s, i))>> \o g[RedirectionEnd(s, i) + 1]
                ELSE AppendChunk(ChunkAt(s, i)) \o g[RunEnd(s, i, ChunkChar) + 1]]
           value(g, i) ==
                IF s[i] \notin ChunkChar THEN g[i + 1]
                ELSE IF IsRedirection(s, i)
                     THEN <<SubSeq(s, i, RedirectionEnd(s, i))>> \o g[RedirectionEnd(s, i) + 1]
                ELSE AppendChunk(ChunkAt(s, i)) \o g[RunEnd(s, i, ChunkChar) + 1]
<1>1. n \in Nat /\ \A i : i \in 1..n + 1 <=> i = n + 1 \/ i \in 1..n
    OBVIOUS
<1>2. Forward(n, V, unit, next)
    BY LexForward
<1>3. \A g : \A i \in 1..n :
          /\ s[i] \in ChunkChar => value(g, i) = unit[i] \o g[next[i]]
          /\ s[i] \notin ChunkChar => value(g, i) = g[next[i]] /\ unit[i] = <<>>
    BY DEF Units, Nexts, Unit, Following
<1>4. \A g : \A i \in 1..n + 1 : rhs(g)[i] = IF i > n THEN <<>> ELSE value(g, i)
    OBVIOUS
<1>13. \A g : DOMAIN rhs(g) = 1..n + 1 /\ rhs(g) = [i \in 1..n + 1 |-> rhs(g)[i]]
    OBVIOUS
<1> HIDE DEF unit, next, value
<1>5. PICK f \in [1..n + 1 -> Seq(V)] : Walks(f, n, unit, next)
    BY <1>2, WalkExists
<1>6. ASSUME NEW i \in 1..n + 1
      PROVE  f[i] = IF i > n THEN <<>> ELSE value(f, i)
  <2>1. CASE i = n + 1
      BY <1>1, <1>5, <2>1 DEF Walks
  <2>2. CASE i \in 1..n
    <3>4. f[i] = unit[i] \o f[next[i]]
        BY <1>5, <2>2 DEF Walks
    <3>5. ~(i > n)
        BY <1>1, <2>2
    <3>1. f[i] = unit[i] \o f[next[i]] /\ ~(i > n)
        BY <3>4, <3>5
    <3>2. CASE s[i] \in ChunkChar
        BY <1>3, <2>2, <3>1, <3>2
    <3>3. CASE s[i] \notin ChunkChar
      <4>1. next[i] \in 1..n + 1
          BY <1>2, <2>2 DEF Forward
      <4>2. f[next[i]] \in Seq(V)
          BY <1>5, <4>1
      <4>3. <<>> \o f[next[i]] = f[next[i]]
          BY <4>2, ConcatEmptySeq
      <4> QED
          BY <1>3, <2>2, <3>1, <3>3, <4>3
    <3> QED
        BY <3>2, <3>3
  <2> QED
      BY <1>1, <2>1, <2>2
<1>7. f = rhs(f)
  <2>1. \A i \in 1..n + 1 : f[i] = rhs(f)[i]
      BY <1>4, <1>6
  <2>2. f = [i \in 1..n + 1 |-> f[i]]
      OBVIOUS
  <2> HIDE DEF rhs
  <2> QED
      BY <1>13, <2>1, <2>2
<1>8. \E h : LexedFrom(s) = h[1] /\ h = rhs(h)
  <2> DEFINE h == CHOOSE h : h = rhs(h)
  <2>1. h = rhs(h)
      BY <1>7
  <2>2. LexedFrom(s) = h[1]
      BY DEF LexedFrom
  <2> QED
      BY <2>1, <2>2
<1>9. PICK h : LexedFrom(s) = h[1] /\ h = rhs(h)
    BY <1>8
<1>10. \A i \in 1..n + 1 : h[i] = IF i > n THEN <<>> ELSE value(h, i)
  <2> HIDE DEF rhs
  <2> QED
      BY <1>4, <1>9
<1> DEFINE T == {i \in 1..n + 1 : h[i] = f[i]}
<1>11. 1..n + 1 \subseteq T
  <2>1. n + 1 \in T
    <3>1. n + 1 \in 1..n + 1 /\ n + 1 > n
        BY <1>1
    <3>2. f[n + 1] = <<>>
        BY <1>6, <3>1
    <3>3. h[n + 1] = <<>>
        BY <1>10, <3>1
    <3> QED
        BY <3>1, <3>2, <3>3
  <2>2. ASSUME NEW i \in 1..n, next[i] \in T PROVE i \in T
    <3>1. i \in 1..n + 1 /\ ~(i > n) /\ h[next[i]] = f[next[i]]
        BY <1>1, <2>2
    <3>2. h[i] = value(h, i) /\ f[i] = value(f, i)
        BY <1>6, <1>10, <3>1
    <3>3. value(h, i) = value(f, i)
        BY <1>3, <3>1
    <3> QED
        BY <3>1, <3>2, <3>3
  <2> HIDE DEF T
  <2> QED
      BY <1>2, <2>1, <2>2, WalkInduction
<1>12. h[1] = f[1]
    BY <1>1, <1>11
<1> QED
    BY <1>5, <1>9, <1>12 DEF unit, next

Lex(s) == CHOOSE f \in [1..Len(s) + 1 -> Seq(Seq(Readable))] :
              LexedFrom(s) = f[1] /\ Walks(f, Len(s), Units(s), Nexts(s))
LEMMA LexProperties ==
    ASSUME NEW s \in Seq(Readable)
    PROVE  /\ Lex(s) \in [1..Len(s) + 1 -> Seq(Seq(Readable))]
           /\ LexedFrom(s) = Lex(s)[1] /\ LexedFrom(s) \in Seq(Seq(Readable))
           /\ Walks(Lex(s), Len(s), Units(s), Nexts(s))
           /\ Lex(s)[Len(s) + 1] = <<>>
           /\ \A i \in 1..Len(s) : Lex(s)[i] = Unit(s, i) \o Lex(s)[Following(s, i)]
<1>1. /\ Lex(s) \in [1..Len(s) + 1 -> Seq(Seq(Readable))]
      /\ LexedFrom(s) = Lex(s)[1] /\ Walks(Lex(s), Len(s), Units(s), Nexts(s))
    BY LexedEquation DEF Lex
<1>2. 1 \in 1..Len(s) + 1
    OBVIOUS
<1>3. LexedFrom(s) \in Seq(Seq(Readable))
    BY <1>1, <1>2
<1> QED
    BY <1>1, <1>3 DEF Walks, Units, Nexts

-----------------------------------------------------------------------------
(* Windows.                                                                *)

Space == " "
LEMMA SpaceFacts ==
    Space \notin ChunkChar /\ Space \in Readable /\ Space \notin Direction
    BY CharacterFacts DEF Space

\* A part of a text up to its end or to a space.
Window(w, s, a) ==
    /\ w \in Seq(Readable) /\ s \in Seq(Readable)
    /\ a \in Nat /\ a + Len(w) <= Len(s)
    /\ \A i \in 1..Len(w) : s[a + i] = w[i]
    /\ a + Len(w) < Len(s) => s[a + Len(w) + 1] = Space

LEMMA SameRun ==
    ASSUME NEW w, NEW s, NEW a, Window(w, s, a), NEW i \in 1..Len(w),
           NEW chars, Space \notin chars, w[i] \in chars
    PROVE  RunEnd(s, a + i, chars) = a + RunEnd(w, i, chars)
<1> DEFINE e == RunEnd(w, i, chars)
<1>1. /\ w \in Seq(Readable) /\ s \in Seq(Readable)
      /\ a \in Nat /\ Len(w) \in Nat /\ Len(s) \in Nat /\ a + Len(w) <= Len(s)
      /\ \A k \in 1..Len(w) : s[a + k] = w[k]
      /\ a + Len(w) < Len(s) => s[a + Len(w) + 1] = Space
    BY DEF Window
<1>2. IsRunEnd(e, w, i, chars)
    BY <1>1, RunEndProperties
<1> HIDE DEF e
<1>3. e \in i..Len(w) /\ (\A k \in i..e : w[k] \in chars) /\ (e < Len(w) => w[e + 1] \notin chars)
    BY <1>2 DEF IsRunEnd
<1>4. a + i \in 1..Len(s) /\ a + e \in a + i..Len(s)
    BY <1>1, <1>3
<1>5. \A k \in a + i..a + e : s[k] \in chars
  <2> TAKE k \in a + i..a + e
  <2>1. k - a \in i..e /\ k - a \in 1..Len(w) /\ a + (k - a) = k
      BY <1>1, <1>3
  <2>2. s[a + (k - a)] = w[k - a]
      BY <1>1, <2>1
  <2> QED
      BY <1>3, <2>1, <2>2
<1>6. a + e < Len(s) => s[a + e + 1] \notin chars
  <2>1. CASE e < Len(w)
    <3>1. e + 1 \in 1..Len(w) /\ a + (e + 1) = a + e + 1
        BY <1>1, <1>3, <2>1
    <3>2. s[a + (e + 1)] = w[e + 1]
        BY <1>1, <3>1
    <3> QED
        BY <1>3, <2>1, <3>1, <3>2
  <2>2. CASE e = Len(w)
      BY <1>1, <2>2
  <2> QED
      BY <1>3, <2>1, <2>2
<1>7. s[a + i] \in chars
    BY <1>1
<1>8. IsRunEnd(a + e, s, a + i, chars)
    BY <1>4, <1>5, <1>6 DEF IsRunEnd
<1>9. a + e = RunEnd(s, a + i, chars)
    BY <1>1, <1>4, <1>7, <1>8, RunEndProperties
<1> QED
    BY <1>9 DEF e

SameParts(w, s, a) ==
    \A i \in 1..Len(w) : \A e \in i..Len(w) : SubSeq(s, a + i, a + e) = SubSeq(w, i, e)
LEMMA SamePart == ASSUME NEW w, NEW s, NEW a, Window(w, s, a) PROVE SameParts(w, s, a)
<1> SUFFICES ASSUME NEW i \in 1..Len(w), NEW e \in i..Len(w)
             PROVE  SubSeq(s, a + i, a + e) = SubSeq(w, i, e)
    BY DEF SameParts
<1> DEFINE x == SubSeq(s, a + i, a + e)
           y == SubSeq(w, i, e)
<1>1. /\ w \in Seq(Readable) /\ s \in Seq(Readable)
      /\ a \in Nat /\ Len(w) \in Nat /\ Len(s) \in Nat /\ a + Len(w) <= Len(s)
      /\ \A k \in 1..Len(w) : s[a + k] = w[k]
    BY DEF Window
<1>2. a + i \in 1..Len(s) /\ a + e \in a + i..Len(s) /\ (a + e) - (a + i) + 1 = e - i + 1
    BY <1>1
<1>3. /\ x \in Seq(Readable) /\ Len(x) = (a + e) - (a + i) + 1
      /\ \A k \in 1..(a + e) - (a + i) + 1 : x[k] = s[a + i + k - 1]
    BY <1>1, <1>2, SubSeqProperties
<1>4. y \in Seq(Readable) /\ Len(y) = e - i + 1 /\ \A k \in 1..e - i + 1 : y[k] = w[i + k - 1]
    BY <1>1, SubSeqProperties
<1> HIDE DEF x, y
<1>5. ASSUME NEW k \in 1..e - i + 1 PROVE x[k] = y[k]
  <2>1. i + k - 1 \in 1..Len(w) /\ a + (i + k - 1) = a + i + k - 1
      BY <1>1
  <2>2. s[a + (i + k - 1)] = w[i + k - 1]
      BY <1>1, <2>1
  <2>3. x[k] = s[a + i + k - 1]
      BY <1>2, <1>3
  <2>4. y[k] = w[i + k - 1]
      BY <1>4
  <2> QED
      BY <2>1, <2>2, <2>3, <2>4
<1>6. Len(x) = Len(y) /\ Len(x) = e - i + 1
    BY <1>2, <1>3, <1>4
<1>7. x = y
    BY <1>3, <1>4, <1>5, <1>6, SeqEqual
<1> QED
    BY <1>7 DEF x, y

\* Inside of a window the same units are written.
LEMMA SameUnit ==
    ASSUME NEW w, NEW s, NEW a, Window(w, s, a), NEW i \in 1..Len(w)
    PROVE  Unit(s, a + i) = Unit(w, i) /\ Following(s, a + i) = a + Following(w, i)
<1>1. /\ w \in Seq(Readable) /\ s \in Seq(Readable)
      /\ a \in Nat /\ Len(w) \in Nat /\ Len(s) \in Nat /\ a + Len(w) <= Len(s)
      /\ \A k \in 1..Len(w) : s[a + k] = w[k]
      /\ a + Len(w) < Len(s) => s[a + Len(w) + 1] = Space
    BY DEF Window
<1>2. s[a + i] = w[i]
    BY <1>1
<1>5. SameParts(w, s, a)
    BY SamePart
<1>3. CASE w[i] \notin ChunkChar
  <2>1. (a + i) + 1 = a + (i + 1)
      BY <1>1
  <2> QED
      BY <1>2, <1>3, <2>1 DEF Unit, Following
<1>4. CASE w[i] \in ChunkChar
  <2> DEFINE e == RunEnd(w, i, ChunkChar)
             f == RunEnd(s, a + i, ChunkChar)
  <2>1. f = a + e
      BY <1>4, SameRun, SpaceFacts
  <2>2. IsRunEnd(e, w, i, ChunkChar)
      BY <1>1, <1>4, RunEndProperties
  <2>3. /\ IsRedirection(w, i) <=> /\ \A k \in i..e : w[k] \in Digits
                                   /\ e < Len(w) /\ w[e + 1] \in Direction
        /\ IsRedirection(s, a + i) <=> /\ \A k \in a + i..f : s[k] \in Digits
                                       /\ f < Len(s) /\ s[f + 1] \in Direction
      BY DEF IsRedirection
  <2>4. /\ RedirectionEnd(w, i) = RunEnd(w, e + 1, {w[e + 1]})
        /\ RedirectionEnd(s, a + i) = RunEnd(s, f + 1, {s[f + 1]})
      BY DEF RedirectionEnd
  <2>5. ChunkAt(w, i) = Lowered(SubSeq(w, i, e)) /\ ChunkAt(s, a + i) = Lowered(SubSeq(s, a + i, f))
      BY DEF ChunkAt
  <2>6. /\ Unit(w, i) = IF IsRedirection(w, i) THEN <<SubSeq(w, i, RedirectionEnd(w, i))>>
                                               ELSE AppendChunk(ChunkAt(w, i))
        /\ Following(w, i) = IF IsRedirection(w, i) THEN RedirectionEnd(w, i) + 1 ELSE e + 1
        /\ Unit(s, a + i) = IF IsRedirection(s, a + i)
                            THEN <<SubSeq(s, a + i, RedirectionEnd(s, a + i))>>
                            ELSE AppendChunk(ChunkAt(s, a + i))
        /\ Following(s, a + i) = IF IsRedirection(s, a + i)
                                 THEN RedirectionEnd(s, a + i) + 1 ELSE f + 1
      BY <1>2, <1>4 DEF Unit, Following
  <2> HIDE DEF e, f
  <2>7. e \in i..Len(w)
      BY <2>2 DEF IsRunEnd
  <2>8. (\A k \in i..e : w[k] \in Digits) <=> (\A k \in a + i..f : s[k] \in Digits)
    <3>1. ASSUME \A k \in i..e : w[k] \in Digits, NEW k \in a + i..f PROVE s[k] \in Digits
      <4>1. k - a \in i..e /\ k - a \in 1..Len(w) /\ a + (k - a) = k
          BY <1>1, <2>1, <2>7
      <4>2. s[a + (k - a)] = w[k - a]
          BY <1>1, <4>1
      <4> QED
          BY <3>1, <4>1, <4>2
    <3>2. ASSUME \A k \in a + i..f : s[k] \in Digits, NEW k \in i..e PROVE w[k] \in Digits
      <4>1. a + k \in a + i..f /\ k \in 1..Len(w)
          BY <1>1, <2>1, <2>7
      <4>2. s[a + k] = w[k]
          BY <1>1, <4>1
      <4> QED
          BY <3>2, <4>1, <4>2
    <3> QED
        BY <3>1, <3>2
  <2>9. e < Len(w) => f < Len(s) /\ s[f + 1] = w[e + 1] /\ f + 1 = a + (e + 1) /\ e + 1 \in 1..Len(w)
    <3> SUFFICES ASSUME e < Len(w)
                 PROVE  f < Len(s) /\ s[f + 1] = w[e + 1] /\ f + 1 = a + (e + 1)
                        /\ e + 1 \in 1..Len(w)
        OBVIOUS
    <3>1. e + 1 \in 1..Len(w) /\ f + 1 = a + (e + 1) /\ f < Len(s)
        BY <1>1, <2>1, <2>7
    <3> QED
        BY <1>1, <3>1
  <2>10. e = Len(w) /\ f < Len(s) => s[f + 1] = Space
      BY <1>1, <2>1
  <2>11. (e < Len(w) /\ w[e + 1] \in Direction) <=> (f < Len(s) /\ s[f + 1] \in Direction)
    <3>1. CASE e < Len(w)
        BY <2>9, <3>1
    <3>2. CASE ~(e < Len(w))
      <4>1. e = Len(w)
          BY <1>1, <2>7, <3>2
      <4> QED
          BY <2>10, <3>2, <4>1, SpaceFacts
    <3> QED
        BY <3>1, <3>2
  <2>12. IsRedirection(w, i) <=> IsRedirection(s, a + i)
      BY <2>3, <2>8, <2>11, Zenon
  <2>13. CASE IsRedirection(w, i)
    <3> DEFINE q == RedirectionEnd(w, i)
    <3>1. e < Len(w) /\ w[e + 1] \in Direction
        BY <2>3, <2>13
    <3>2. RunEnd(s, a + (e + 1), {w[e + 1]}) = a + RunEnd(w, e + 1, {w[e + 1]})
      <4>1. Space \notin {w[e + 1]} /\ w[e + 1] \in {w[e + 1]} /\ e + 1 \in 1..Len(w)
          BY <2>9, <3>1, SpaceFacts
      <4> QED
          BY <4>1, SameRun
    <3>3. RedirectionEnd(s, a + i) = a + q
        BY <2>4, <2>9, <3>1, <3>2
    <3>4. q \in i..Len(w)
        BY <1>1, <1>4, <2>13, RedirectionFacts
    <3> HIDE DEF q
    <3>5. SubSeq(s, a + i, a + q) = SubSeq(w, i, q)
        BY <1>5, <3>4 DEF SameParts
    <3>6. a + (q + 1) = (a + q) + 1
        BY <1>1, <3>4
    <3> QED
        BY <2>6, <2>12, <2>13, <3>3, <3>5, <3>6 DEF q
  <2>14. CASE ~IsRedirection(w, i)
    <3>1. SubSeq(s, a + i, f) = SubSeq(w, i, e)
        BY <1>5, <2>1, <2>7 DEF SameParts
    <3>2. ChunkAt(s, a + i) = ChunkAt(w, i)
        BY <2>5, <3>1
    <3>3. f + 1 = a + (e + 1)
        BY <1>1, <2>1, <2>7
    <3> QED
        BY <2>6, <2>12, <2>14, <3>2, <3>3
  <2> QED
      BY <2>13, <2>14
<1> QED
    BY <1>3, <1>4

\* The tokens of a window, and then those behind it.
LEMMA WindowTokens ==
    ASSUME NEW w, NEW s, NEW a, Window(w, s, a)
    PROVE  Lex(s)[a + 1] = LexedFrom(w) \o Lex(s)[a + Len(w) + 1]
<1>1. /\ w \in Seq(Readable) /\ s \in Seq(Readable)
      /\ a \in Nat /\ Len(w) \in Nat /\ Len(s) \in Nat /\ a + Len(w) <= Len(s)
    BY DEF Window
<1>2. /\ Forward(Len(s), Seq(Readable), Units(s), Nexts(s))
      /\ Forward(Len(w), Seq(Readable), Units(w), Nexts(w))
    BY <1>1, LexForward
<1>3. /\ Walks(Lex(s), Len(s), Units(s), Nexts(s))
      /\ Walks(Lex(w), Len(w), Units(w), Nexts(w)) /\ LexedFrom(w) = Lex(w)[1]
    BY <1>1, LexProperties
<1>4. \A i \in 1..Len(w) : Units(s)[a + i] = Units(w)[i] /\ Nexts(s)[a + i] = a + Nexts(w)[i]
  <2> TAKE i \in 1..Len(w)
  <2>1. a + i \in 1..Len(s)
      BY <1>1
  <2> QED
      BY <2>1, SameUnit DEF Units, Nexts
<1>5. \A i \in 1..Len(w) + 1 : Lex(s)[a + i] = Lex(w)[i] \o Lex(s)[a + Len(w) + 1]
  <2> DEFINE us == Units(s)
             ns == Nexts(s)
             uw == Units(w)
             nw == Nexts(w)
             fs == Lex(s)
             fw == Lex(w)
             n == Len(s)
             m == Len(w)
             V == Seq(Readable)
  <2> HIDE DEF us, ns, uw, nw, fs, fw, n, m, V
  <2>1. /\ Forward(n, V, us, ns) /\ Walks(fs, n, us, ns)
        /\ Forward(m, V, uw, nw) /\ Walks(fw, m, uw, nw)
        /\ SameSteps(a, m, us, ns, uw, nw)
      BY <1>2, <1>3, <1>4 DEF us, ns, uw, nw, fs, fw, n, m, V, SameSteps
  <2>3. a \in Nat /\ a + m <= n
      BY <1>1 DEF n, m
  <2>2. SameWalk(a, m, fs, fw)
      BY <2>1, <2>3, WalkWindow
  <2> QED
      BY <2>2 DEF fs, fw, m, SameWalk
<1>6. 1 \in 1..Len(w) + 1
    BY <1>1
<1> QED
    BY <1>3, <1>5, <1>6

\* What stands on the two sides of a space is tokenized on its own.
LEMMA SpaceSplits ==
    ASSUME NEW u \in Seq(Readable), NEW v \in Seq(Readable),
           NEW s \in Seq(Readable), Len(s) = Len(u) + 1 + Len(v),
           \A i \in 1..Len(u) : s[i] = u[i], s[Len(u) + 1] = Space,
           \A i \in 1..Len(v) : s[Len(u) + 1 + i] = v[i]
    PROVE  LexedFrom(s) = LexedFrom(u) \o LexedFrom(v)
<1> DEFINE m == Len(u)
           n == Len(v)
<1>1. m \in Nat /\ n \in Nat /\ Len(s) = m + 1 + n
    OBVIOUS
<1>2. Window(u, s, 0)
    BY <1>1 DEF Window
<1>3. Window(v, s, m + 1)
  <2>1. m + 1 \in Nat /\ m + 1 + n <= Len(s) /\ ~(m + 1 + n < Len(s))
      BY <1>1
  <2> QED
      BY <2>1 DEF Window
<1>4. LexedFrom(s) = LexedFrom(u) \o Lex(s)[m + 1]
  <2>1. Lex(s)[0 + 1] = LexedFrom(u) \o Lex(s)[0 + Len(u) + 1]
      BY <1>2, WindowTokens
  <2>2. 0 + 1 = 1 /\ 0 + Len(u) + 1 = m + 1
      BY <1>1
  <2>3. LexedFrom(s) = Lex(s)[1]
      BY LexProperties
  <2> QED
      BY <2>1, <2>2, <2>3
<1>5. Lex(s)[m + 1] = Lex(s)[m + 2]
  <2>1. m + 1 \in 1..Len(s) /\ s[m + 1] \notin ChunkChar /\ (m + 1) + 1 = m + 2
        /\ m + 2 \in 1..Len(s) + 1
      BY <1>1, SpaceFacts
  <2>2. Unit(s, m + 1) = <<>> /\ Following(s, m + 1) = m + 2
      BY <2>1 DEF Unit, Following
  <2>3. Lex(s)[m + 1] = <<>> \o Lex(s)[m + 2]
      BY <2>1, <2>2, LexProperties
  <2>4. Lex(s)[m + 2] \in Seq(Seq(Readable))
      BY <2>1, LexProperties
  <2> QED
      BY <2>3, <2>4, ConcatEmptySeq
<1>6. Lex(s)[m + 2] = LexedFrom(v)
  <2>1. Lex(s)[(m + 1) + 1] = LexedFrom(v) \o Lex(s)[(m + 1) + Len(v) + 1]
      BY <1>3, WindowTokens
  <2>2. (m + 1) + 1 = m + 2 /\ (m + 1) + Len(v) + 1 = Len(s) + 1
      BY <1>1
  <2>3. Lex(s)[Len(s) + 1] = <<>> /\ LexedFrom(v) \in Seq(Seq(Readable))
      BY LexProperties
  <2> QED
      BY <2>1, <2>2, <2>3, ConcatEmptySeq
<1> QED
    BY <1>4, <1>5, <1>6

-----------------------------------------------------------------------------
(* The walk of a query.                                                    *)

\* What is written and what the rest will give make up all tokens.
Progress(t, i, out) ==
    /\ t \in Seq(Readable) /\ i \in 1..Len(t) + 1 /\ out \in Seq(Seq(Readable))
    /\ out \o Lex(t)[i] = LexedFrom(t)

LEMMA ProgressStarts ==
    ASSUME NEW t \in Seq(Readable)
    PROVE  Progress(t, 1, <<>>)
<1>1. LexedFrom(t) \in Seq(Seq(Readable)) /\ LexedFrom(t) = Lex(t)[1]
    BY LexProperties
<1>2. <<>> \o LexedFrom(t) = LexedFrom(t)
    BY <1>1, ConcatEmptySeq
<1>3. 1 \in 1..Len(t) + 1 /\ <<>> \in Seq(Seq(Readable))
    OBVIOUS
<1> QED
    BY <1>1, <1>2, <1>3 DEF Progress

LEMMA ProgressGoesOn ==
    ASSUME NEW t, NEW i, NEW out, Progress(t, i, out), i <= Len(t)
    PROVE  Progress(t, Following(t, i), out \o Unit(t, i))
<1>1. /\ t \in Seq(Readable) /\ i \in 1..Len(t) + 1 /\ out \in Seq(Seq(Readable))
      /\ out \o Lex(t)[i] = LexedFrom(t) /\ i \in 1..Len(t)
    BY DEF Progress
<1>2. Forward(Len(t), Seq(Readable), Units(t), Nexts(t))
    BY <1>1, LexForward
<1>3. Unit(t, i) \in Seq(Seq(Readable)) /\ Following(t, i) \in 1..Len(t) + 1
    BY <1>1, <1>2 DEF Forward, Units, Nexts
<1>4. /\ Lex(t)[i] = Unit(t, i) \o Lex(t)[Following(t, i)]
      /\ Lex(t)[Following(t, i)] \in Seq(Seq(Readable))
    BY <1>1, <1>3, LexProperties
<1>5. (out \o Unit(t, i)) \o Lex(t)[Following(t, i)] = LexedFrom(t)
  <2>1. PICK p \in Seq(Seq(Readable)), q \in Seq(Seq(Readable)), r \in Seq(Seq(Readable)) :
            p = out /\ q = Unit(t, i) /\ r = Lex(t)[Following(t, i)]
      BY <1>1, <1>3, <1>4
  <2>2. (p \o q) \o r = p \o (q \o r)
      BY ConcatAssociative
  <2> QED
      BY <1>1, <1>4, <2>1, <2>2
<1>6. out \o Unit(t, i) \in Seq(Seq(Readable))
    BY <1>1, <1>3, ConcatProperties
<1> QED
    BY <1>1, <1>3, <1>5, <1>6 DEF Progress

LEMMA ProgressEnds ==
    ASSUME NEW t, NEW i, NEW out, Progress(t, i, out), i > Len(t)
    PROVE  i = Len(t) + 1 /\ out = LexedFrom(t)
<1>1. i = Len(t) + 1 /\ t \in Seq(Readable) /\ out \in Seq(Seq(Readable))
      /\ out \o Lex(t)[i] = LexedFrom(t)
    BY DEF Progress
<1>2. Lex(t)[i] = <<>>
    BY <1>1, LexProperties
<1> QED
    BY <1>1, <1>2, ConcatEmptySeq

QueryInv ==
    /\ stage \in {"lex", "done"}
    /\ text \in Texts /\ known_commands = KnownCommands
    /\ Progress(text, index, output)
    /\ stage = "done" => index > Len(text) /\ context.type = DetectType(output)

LEMMA QueryInvStarts == QueryInit => QueryInv
<1> SUFFICES ASSUME QueryInit PROVE QueryInv
    OBVIOUS
<1>1. stage = "lex" /\ text \in Texts /\ known_commands = KnownCommands
      /\ index = 1 /\ output = <<>>
    BY DEF QueryInit
<1>2. text \in Seq(Readable)
    BY <1>1, TextAssumption
<1> QED
    BY <1>1, <1>2, ProgressStarts DEF QueryInv

LEMMA QueryInvStays == QueryInv /\ [QueryNext]_query_vars => QueryInv'
<1> SUFFICES ASSUME QueryInv, [QueryNext]_query_vars PROVE QueryInv'
    OBVIOUS
<1>1. PICK t, i, out : t = text /\ i = index /\ out = output
    OBVIOUS
<1>2. Progress(t, i, out) /\ out \in Seq(Seq(Readable)) /\ t \in Texts
    BY <1>1 DEF QueryInv, Progress
<1>3. CASE SkipByte
  <2>1. stage = "lex" /\ i <= Len(t) /\ t[i] \notin ChunkChar /\ index' = i + 1
        /\ stage' = stage /\ text' = t /\ output' = out /\ known_commands' = known_commands
      BY <1>1, <1>3 DEF SkipByte, Inside, Here
  <2>2. Following(t, i) = i + 1 /\ Unit(t, i) = <<>>
      BY <2>1 DEF Following, Unit
  <2>3. out \o Unit(t, i) = out
      BY <1>2, <2>2, ConcatEmptySeq
  <2>4. Progress(t, i + 1, out)
      BY <1>2, <2>1, <2>2, <2>3, ProgressGoesOn
  <2> QED
      BY <1>2, <2>1, <2>4 DEF QueryInv
<1>4. CASE Redirection
  <2>1. stage = "lex" /\ i <= Len(t) /\ t[i] \in ChunkChar /\ IsRedirection(t, i)
        /\ index' = RedirectionEnd(t, i) + 1
        /\ output' = Append(out, SubSeq(t, i, RedirectionEnd(t, i)))
        /\ stage' = stage /\ text' = t /\ known_commands' = known_commands
      BY <1>1, <1>4 DEF Redirection, Inside, Here
  <2>2. Following(t, i) = RedirectionEnd(t, i) + 1
        /\ Unit(t, i) = <<SubSeq(t, i, RedirectionEnd(t, i))>>
      BY <2>1 DEF Following, Unit
  <2>3. t \in Seq(Readable) /\ i \in 1..Len(t)
      BY <1>2, <2>1 DEF Progress
  <2>4. SubSeq(t, i, RedirectionEnd(t, i)) \in Seq(Readable)
    <3>1. RedirectionEnd(t, i) \in i..Len(t)
        BY <2>1, <2>3, RedirectionFacts
    <3> QED
        BY <2>3, <3>1, SubSeqProperties
  <2>5. output' = out \o Unit(t, i)
      BY <1>2, <2>1, <2>2, <2>4, AppendIsConcat
  <2>6. Progress(t, index', output')
      BY <1>2, <2>1, <2>2, <2>5, ProgressGoesOn
  <2> QED
      BY <1>2, <2>1, <2>6 DEF QueryInv
<1>5. CASE Chunk
  <2>1. stage = "lex" /\ i <= Len(t) /\ t[i] \in ChunkChar /\ ~IsRedirection(t, i)
        /\ index' = RunEnd(t, i, ChunkChar) + 1
        /\ output' = out \o AppendChunk(ChunkAt(t, i))
        /\ stage' = stage /\ text' = t /\ known_commands' = known_commands
      BY <1>1, <1>5 DEF Chunk, Inside, Here, Beyond, AfterChunk
  <2>2. Following(t, i) = RunEnd(t, i, ChunkChar) + 1
        /\ Unit(t, i) = AppendChunk(ChunkAt(t, i))
      BY <2>1 DEF Following, Unit
  <2>3. Progress(t, index', output')
      BY <1>2, <2>1, <2>2, ProgressGoesOn
  <2> QED
      BY <1>2, <2>1, <2>3 DEF QueryInv
<1>6. CASE Process
  <2>1. stage' = "done" /\ i > Len(t) /\ context'.type = DetectType(output)
        /\ UNCHANGED <<text, index, output, known_commands>>
      BY <1>1, <1>6 DEF Process
  <2>2. DetectType(output) = DetectType(output)'
      BY <2>1 DEF DetectType, StartsWithCommand
  <2> QED
      BY <1>1, <1>2, <2>1, <2>2 DEF QueryInv
<1>7. CASE UNCHANGED query_vars
    BY <1>7 DEF QueryInv, query_vars, DetectType, StartsWithCommand
<1> QED
    BY <1>3, <1>4, <1>5, <1>6, <1>7 DEF QueryNext, QueryWork, QueryDone

\* The tokens of a query are what the walk gives for its text.
THEOREM QueryInvariant == QuerySpec => []QueryInv
<1>1. QueryInit => QueryInv
    BY QueryInvStarts
<1>2. QueryInv /\ [QueryNext]_query_vars => QueryInv'
    BY QueryInvStays
<1> QED
    BY <1>1, <1>2, PTL DEF QuerySpec

LEMMA QueryTokens == QueryInv /\ stage = "done" => output = LexedFrom(text)
    BY ProgressEnds DEF QueryInv

LEMMA Before ==
    ASSUME NEW C, NEW s \in Seq(C), NEW i \in 1..Len(s)
    PROVE  /\ SubSeq(s, 1, i - 1) \in Seq(C) /\ Len(SubSeq(s, 1, i - 1)) = i - 1
           /\ \A k \in 1..i - 1 : SubSeq(s, 1, i - 1)[k] = s[k]
<1> DEFINE j == i - 1
<1>1. j \in 0..Len(s) /\ j = i - 1
    OBVIOUS
<1> HIDE DEF j
<1>2. SubSeq(s, 1, j) \in Seq(C) /\ Len(SubSeq(s, 1, j)) = j /\ \A k \in 1..j : SubSeq(s, 1, j)[k] = s[k]
    BY <1>1
<1> QED
    BY <1>1, <1>2

LEMMA Behind ==
    ASSUME NEW C, NEW s \in Seq(C), NEW i \in 1..Len(s)
    PROVE  /\ SubSeq(s, i + 1, Len(s)) \in Seq(C) /\ Len(SubSeq(s, i + 1, Len(s))) = Len(s) - i
           /\ \A k \in 1..Len(s) - i : SubSeq(s, i + 1, Len(s))[k] = s[i + k]
    OBVIOUS

LEMMA SpaceInside ==
    ASSUME NEW t \in Seq(Readable), NEW i \in 1..Len(t), t[i] = Space
    PROVE  LexedFrom(t) = LexedFrom(SubSeq(t, 1, i - 1)) \o LexedFrom(SubSeq(t, i + 1, Len(t)))
<1> DEFINE u == SubSeq(t, 1, i - 1)
           v == SubSeq(t, i + 1, Len(t))
<1>1. u \in Seq(Readable) /\ Len(u) = i - 1 /\ \A k \in 1..i - 1 : u[k] = t[k]
    BY Before
<1>2. v \in Seq(Readable) /\ Len(v) = Len(t) - i /\ \A k \in 1..Len(t) - i : v[k] = t[i + k]
    BY Behind
<1> HIDE DEF u, v
<1>3. Len(t) = Len(u) + 1 + Len(v) /\ Len(u) + 1 = i
    BY <1>1, <1>2
<1>4. \A k \in 1..Len(u) : t[k] = u[k]
    BY <1>1
<1>5. \A k \in 1..Len(v) : t[Len(u) + 1 + k] = v[k]
    BY <1>2, <1>3
<1>6. t[Len(u) + 1] = Space
    BY <1>3
<1>7. LexedFrom(t) = LexedFrom(u) \o LexedFrom(v)
    BY <1>1, <1>2, <1>3, <1>4, <1>5, <1>6, SpaceSplits
<1> QED
    BY <1>7 DEF u, v

\* A space separates: the tokens are those of what stands before it and of
\* what stands behind it (lexicalTokens).
THEOREM SpacesSeparateTokens == QuerySpec => []SpaceSeparates
<1>1. QueryInv => SpaceSeparates
  <2> SUFFICES ASSUME QueryInv, stage = "done", NEW i \in DOMAIN text, text[i] = Space
               PROVE  output = LexedFrom(SubSeq(text, 1, i - 1))
                               \o LexedFrom(SubSeq(text, i + 1, Len(text)))
      BY DEF SpaceSeparates, Space
  <2>1. text \in Seq(Readable) /\ output = LexedFrom(text)
      BY QueryTokens DEF QueryInv, Progress
  <2>2. i \in 1..Len(text)
      BY <2>1
  <2> QED
      BY <2>1, <2>2, SpaceInside
<1> QED
    BY <1>1, QueryInvariant, PTL

-----------------------------------------------------------------------------
(* Commands.                                                               *)

LEMMA HeadFirst ==
    ASSUME NEW C, NEW s \in Seq(C), s # <<>>
    PROVE  s = <<s[1]>> \o Tail(s) /\ s[1] \in C /\ Tail(s) \in Seq(C) /\ Head(s) = s[1]
<1>1. Len(s) \in Nat /\ Len(s) # 0 /\ s[1] \in C /\ Head(s) = s[1]
    BY EmptySeq
<1>2. /\ Tail(s) \in Seq(C) /\ Len(Tail(s)) = Len(s) - 1
      /\ \A k \in 1..Len(s) - 1 : Tail(s)[k] = s[k + 1]
    BY <1>1, HeadTailProperties
<1> DEFINE t == Tail(s)
           x == <<s[1]>> \o t
<1> HIDE DEF t
<1>3. t \in Seq(C) /\ Len(t) = Len(s) - 1 /\ \A k \in 1..Len(s) - 1 : t[k] = s[k + 1]
    BY <1>2 DEF t
<1>4. <<s[1]>> \in Seq(C) /\ Len(<<s[1]>>) = 1 /\ <<s[1]>>[1] = s[1]
    BY <1>1
<1>5. /\ x \in Seq(C) /\ Len(x) = 1 + Len(t)
      /\ \A k \in 1..1 + Len(t) : x[k] = IF k <= 1 THEN s[1] ELSE t[k - 1]
    BY <1>1, <1>3, <1>4
<1> HIDE DEF x
<1>6. \A k \in 1..Len(s) : x[k] = s[k]
  <2> TAKE k \in 1..Len(s)
  <2>1. CASE k = 1
      BY <1>1, <1>3, <1>5, <2>1
  <2>2. CASE k \in 2..Len(s)
    <3>1. k \in 1..1 + Len(t) /\ ~(k <= 1) /\ k - 1 \in 1..Len(s) - 1 /\ (k - 1) + 1 = k
        BY <1>1, <1>3, <2>2
    <3> QED
        BY <1>3, <1>5, <3>1
  <2> QED
      BY <1>1, <2>1, <2>2
<1>7. Len(x) = Len(s)
    BY <1>1, <1>3, <1>5
<1>8. s = x
    BY <1>5, <1>6, <1>7, SeqEqual
<1> QED
    BY <1>1, <1>2, <1>8 DEF x, t

Signal == [t \in Seq(Readable) |-> IF t \in Stopwords THEN <<>> ELSE <<t>>]
LEMMA SignificantSpread ==
    ASSUME NEW tokens \in Seq(Seq(Readable))
    PROVE  Significant(tokens) = Spread(Signal, tokens)
<1>1. \A i \in DOMAIN tokens :
          Signal[tokens[i]] = IF tokens[i] \in Stopwords THEN <<>> ELSE <<tokens[i]>>
    BY DEF Signal
<1>2. [i \in DOMAIN tokens |-> IF tokens[i] \in Stopwords THEN <<>> ELSE <<tokens[i]>>]
          = [i \in DOMAIN tokens |-> Signal[tokens[i]]]
    BY <1>1, Zenon
<1> QED
    BY <1>2, Zenon DEF Significant, Spread

LEMMA SignalType == Signal \in [Seq(Readable) -> Seq(Seq(Readable))]
<1>1. \A t \in Seq(Readable) :
          (IF t \in Stopwords THEN <<>> ELSE <<t>>) \in Seq(Seq(Readable))
    OBVIOUS
<1> QED
    BY <1>1 DEF Signal

\* A first word that is no stopword is the first one left.
LEMMA FirstStays ==
    ASSUME NEW tokens \in Seq(Seq(Readable)), tokens # <<>>, tokens[1] \notin Stopwords
    PROVE  Significant(tokens) # <<>> /\ Head(Significant(tokens)) = tokens[1]
<1> DEFINE h == tokens[1]
           rest == Tail(tokens)
<1>1. tokens = <<h>> \o rest /\ h \in Seq(Readable) /\ rest \in Seq(Seq(Readable))
    BY HeadFirst
<1> HIDE DEF rest
<1>0. Spreads(Seq(Readable), Seq(Readable), Signal)
    BY SignalType, SpreadConcat
<1>2. Spread(Signal, tokens) = Signal[h] \o Spread(Signal, rest)
  <2>1. <<h>> \in Seq(Seq(Readable))
      BY <1>1
  <2>2. Spread(Signal, <<h>> \o rest) = Spread(Signal, <<h>>) \o Spread(Signal, rest)
      BY <1>0, <1>1, <2>1, Zenon DEF Spreads
  <2>3. Spread(Signal, <<h>>) = Signal[h]
      BY <1>0, <1>1, Zenon DEF Spreads
  <2> QED
      BY <1>1, <2>2, <2>3
<1>3. Signal[h] = <<h>>
    BY <1>1 DEF Signal
<1>4. PICK r \in Seq(Seq(Readable)) : r = Spread(Signal, rest)
    BY <1>0, <1>1, Zenon DEF Spreads
<1>5. Significant(tokens) = <<h>> \o r
    BY <1>2, <1>3, <1>4, SignificantSpread
<1> HIDE DEF h
<1>6. (<<h>> \o r)[1] = h /\ Len(<<h>> \o r) > 0
    BY <1>1, <1>4
<1>7. <<h>> \o r # <<>> /\ Head(<<h>> \o r) = h
    BY <1>1, <1>4, <1>6
<1> QED
    BY <1>5, <1>7 DEF h

LEMMA CommandWindow ==
    ASSUME NEW command \in Seq(Readable), NEW t \in Seq(Readable),
           IsPrefix(command, t), Len(t) > Len(command) => t[Len(command) + 1] = Space
    PROVE  Window(command, t, 0)
<1>1. Len(command) <= Len(t)
    BY DEF IsPrefix
<1>2. \A i \in 1..Len(command) : t[i] = command[i]
  <2>1. SubSeq(command, 1, Len(command)) = SubSeq(t, 1, Len(command))
      BY DEF IsPrefix
  <2>2. ASSUME NEW i \in 1..Len(command) PROVE t[i] = command[i]
    <3>1. SubSeq(command, 1, Len(command))[i] = command[i]
        BY <1>1
    <3>2. SubSeq(t, 1, Len(command))[i] = t[i]
        BY <1>1
    <3> QED
        BY <2>1, <3>1, <3>2
  <2> QED
      BY <2>2
<1>3. \A i \in 1..Len(command) : t[0 + i] = command[i]
    BY <1>2
<1>4. 0 + Len(command) <= Len(t) /\ 0 + Len(command) = Len(command)
    BY <1>1
<1> QED
    BY <1>3, <1>4 DEF Window

\* The first token of a text that starts with a command is that of the command.
LEMMA CommandComesFirst ==
    ASSUME NEW command, NEW t, Window(command, t, 0), LexedFrom(command) # <<>>
    PROVE  LexedFrom(t) # <<>> /\ LexedFrom(t)[1] = LexedFrom(command)[1]
<1>1. command \in Seq(Readable) /\ t \in Seq(Readable) /\ Len(command) \in Nat
      /\ Len(command) <= Len(t)
    BY DEF Window
<1>2. Lex(t)[0 + 1] = LexedFrom(command) \o Lex(t)[0 + Len(command) + 1]
    BY WindowTokens
<1>3. 0 + 1 = 1 /\ 0 + Len(command) + 1 = Len(command) + 1 /\ Len(command) + 1 \in 1..Len(t) + 1
    BY <1>1
<1>4. PICK x \in Seq(Seq(Readable)), y \in Seq(Seq(Readable)) :
          x = LexedFrom(command) /\ y = Lex(t)[Len(command) + 1]
    BY <1>1, <1>3, LexProperties
<1>5. LexedFrom(t) = x \o y
    BY <1>1, <1>2, <1>3, <1>4, LexProperties
<1>6. x # <<>>
    BY <1>4
<1>7. Len(x) \in Nat /\ Len(x) # 0
    BY <1>6, EmptySeq
<1>8. (x \o y)[1] = x[1] /\ Len(x \o y) > 0
    BY <1>7
<1>9. x \o y # <<>>
    BY <1>8
<1> QED
    BY <1>4, <1>5, <1>8, <1>9

-----------------------------------------------------------------------------
(* Letters and digits.                                                     *)

CharacterPart == [c \in Readable |-> IF c \in WordChar THEN <<c>> ELSE <<>>]
TokenPart == [t \in Seq(Readable) |-> Spread(CharacterPart, t)]

LEMMA PartsSpread ==
    Spreads(Readable, Readable, CharacterPart) /\ Spreads(Seq(Readable), Readable, TokenPart)
<1>1. \A c \in Readable : (IF c \in WordChar THEN <<c>> ELSE <<>>) \in Seq(Readable)
    OBVIOUS
<1>2. CharacterPart \in [Readable -> Seq(Readable)]
    BY <1>1 DEF CharacterPart
<1>3. Spreads(Readable, Readable, CharacterPart)
    BY <1>2, SpreadConcat
<1>4. TokenPart \in [Seq(Readable) -> Seq(Readable)]
    BY <1>3 DEF TokenPart, Spreads
<1>5. PICK V : V = Seq(Readable)
    OBVIOUS
<1>6. TokenPart \in [V -> Seq(Readable)]
    BY <1>4, <1>5
<1>7. Spreads(V, Readable, TokenPart)
    BY <1>6, SpreadConcat
<1> QED
    BY <1>3, <1>5, <1>7

\* The operators of the property.
LEMMA WordCharsSpread ==
    ASSUME NEW s \in Seq(Readable)
    PROVE  WordCharsOf(s) = Spread(CharacterPart, s)
<1>1. \A i \in DOMAIN s : CharacterPart[s[i]] = IF s[i] \in WordChar THEN <<s[i]>> ELSE <<>>
    BY DEF CharacterPart
<1>2. [i \in DOMAIN s |-> IF s[i] \in WordChar THEN <<s[i]>> ELSE <<>>]
          = [i \in DOMAIN s |-> CharacterPart[s[i]]]
    BY <1>1, Zenon
<1> QED
    BY <1>2, Zenon DEF WordCharsOf, Spread

LEMMA TokensSpread ==
    ASSUME NEW tokens \in Seq(Seq(Readable))
    PROVE  FlattenSeq([i \in DOMAIN tokens |-> WordCharsOf(tokens[i])]) = Spread(TokenPart, tokens)
<1>1. \A i \in DOMAIN tokens : TokenPart[tokens[i]] = WordCharsOf(tokens[i])
  <2> TAKE i \in DOMAIN tokens
  <2>1. tokens[i] \in Seq(Readable)
      OBVIOUS
  <2> QED
      BY <2>1, WordCharsSpread DEF TokenPart
<1>2. [i \in DOMAIN tokens |-> WordCharsOf(tokens[i])] = [i \in DOMAIN tokens |-> TokenPart[tokens[i]]]
    BY <1>1, Zenon
<1> QED
    BY <1>2, Zenon DEF Spread

\* asciiLower changes no character's class.
LEMMA LoweredConcat ==
    /\ Lowered(<<>>) = <<>>
    /\ \A s \in Seq(Readable) : Lowered(s) \in Seq(Readable) /\ Len(Lowered(s)) = Len(s)
    /\ \A s, t \in Seq(Readable) : Lowered(s \o t) = Lowered(s) \o Lowered(t)
<1>0. \A c \in Readable : LowerCase[c] \in Readable
    BY CharacterFacts
<1>1. Lowered(<<>>) = <<>>
    BY DEF Lowered
<1>2. ASSUME NEW s \in Seq(Readable)
      PROVE  Lowered(s) \in Seq(Readable) /\ Len(Lowered(s)) = Len(s)
    BY <1>0 DEF Lowered
<1>3. ASSUME NEW s \in Seq(Readable), NEW t \in Seq(Readable)
      PROVE  Lowered(s \o t) = Lowered(s) \o Lowered(t)
  <2> DEFINE x == Lowered(s \o t)
             y == Lowered(s) \o Lowered(t)
  <2>1. s \o t \in Seq(Readable) /\ Len(s \o t) = Len(s) + Len(t)
      OBVIOUS
  <2>2. x \in Seq(Readable) /\ Len(x) = Len(s) + Len(t)
        /\ \A k \in 1..Len(s) + Len(t) : x[k] = LowerCase[(s \o t)[k]]
      BY <1>0, <2>1 DEF Lowered
  <2>3. y \in Seq(Readable) /\ Len(y) = Len(s) + Len(t)
        /\ \A k \in 1..Len(s) + Len(t) :
              y[k] = IF k <= Len(s) THEN Lowered(s)[k] ELSE Lowered(t)[k - Len(s)]
    <3>1. PICK p \in Seq(Readable), q \in Seq(Readable) :
              p = Lowered(s) /\ q = Lowered(t) /\ Len(p) = Len(s) /\ Len(q) = Len(t)
        BY <1>2
    <3>2. p \o q \in Seq(Readable) /\ Len(p \o q) = Len(p) + Len(q)
          /\ \A k \in 1..Len(p) + Len(q) : (p \o q)[k] = IF k <= Len(p) THEN p[k] ELSE q[k - Len(p)]
        OBVIOUS
    <3> QED
        BY <3>1, <3>2
  <2> HIDE DEF x, y
  <2>4. \A k \in 1..Len(x) : x[k] = y[k]
    <3> TAKE k \in 1..Len(x)
    <3>0. k \in 1..Len(s) + Len(t)
        BY <2>2
    <3>1. CASE k <= Len(s)
      <4>1. k \in 1..Len(s) /\ (s \o t)[k] = s[k]
          BY <3>0, <3>1
      <4>2. Lowered(s)[k] = LowerCase[s[k]]
          BY <4>1 DEF Lowered
      <4> QED
          BY <2>2, <2>3, <3>0, <3>1, <4>1, <4>2
    <3>2. CASE ~(k <= Len(s))
      <4>1. k - Len(s) \in 1..Len(t) /\ (s \o t)[k] = t[k - Len(s)]
          BY <3>0, <3>2
      <4>2. Lowered(t)[k - Len(s)] = LowerCase[t[k - Len(s)]]
          BY <4>1 DEF Lowered
      <4> QED
          BY <2>2, <2>3, <3>0, <3>2, <4>1, <4>2
    <3> QED
        BY <3>1, <3>2
  <2>5. x = y
      BY <2>2, <2>3, <2>4, SeqEqual
  <2> QED
      BY <2>5 DEF x, y
<1> QED
    BY <1>1, <1>2, <1>3

LEMMA LoweredCharacter ==
    ASSUME NEW c \in Readable
    PROVE  /\ Lowered(<<c>>) = <<LowerCase[c]>>
           /\ CharacterPart[LowerCase[c]] = Lowered(CharacterPart[c])
<1>1. Lowered(<<c>>) = <<LowerCase[c]>>
    BY DEF Lowered
<1>2. LowerCase[c] \in Readable /\ (c \in WordChar <=> LowerCase[c] \in WordChar)
    BY CharacterFacts
<1>3. CASE c \in WordChar
    BY <1>1, <1>2, <1>3 DEF CharacterPart
<1>4. CASE c \notin WordChar
  <2>1. CharacterPart[LowerCase[c]] = <<>> /\ CharacterPart[c] = <<>>
      BY <1>2, <1>4, Zenon DEF CharacterPart
  <2> QED
      BY <1>1, <2>1, LoweredConcat, Zenon
<1> QED
    BY <1>1, <1>3, <1>4

LEMMA LoweredSpread ==
    ASSUME NEW s \in Seq(Readable)
    PROVE  Lowered(Spread(CharacterPart, s)) = Spread(CharacterPart, Lowered(s))
<1> DEFINE T == {x \in Seq(Readable) :
                    Lowered(Spread(CharacterPart, x)) = Spread(CharacterPart, Lowered(x))}
<1>1. <<>> \in T
    BY PartsSpread, LoweredConcat DEF Spreads
<1>2. ASSUME NEW x \in Seq(Readable), NEW c \in Readable, x \in T PROVE Append(x, c) \in T
  <2>1. Append(x, c) = x \o <<c>> /\ <<c>> \in Seq(Readable) /\ LowerCase[c] \in Readable
        /\ <<LowerCase[c]>> \in Seq(Readable) /\ Append(x, c) \in Seq(Readable)
        /\ Lowered(x) \in Seq(Readable)
    <3>1. LowerCase[c] \in Readable
        BY CharacterFacts
    <3>2. Lowered(x) \in Seq(Readable)
        BY LoweredConcat
    <3>3. <<c>> \in Seq(Readable) /\ <<LowerCase[c]>> \in Seq(Readable) /\ Append(x, c) \in Seq(Readable)
        BY <3>1
    <3> QED
        BY <3>1, <3>2, <3>3, AppendIsConcat
  <2>2. Spread(CharacterPart, Append(x, c)) = Spread(CharacterPart, x) \o CharacterPart[c]
        /\ Spread(CharacterPart, x) \in Seq(Readable) /\ CharacterPart[c] \in Seq(Readable)
    <3>1. Spread(CharacterPart, <<c>>) = CharacterPart[c]
        BY PartsSpread, Zenon DEF Spreads
    <3>2. Spread(CharacterPart, x \o <<c>>) = Spread(CharacterPart, x) \o Spread(CharacterPart, <<c>>)
        BY <2>1, PartsSpread, Zenon DEF Spreads
    <3>3. Spread(CharacterPart, x) \in Seq(Readable) /\ Spread(CharacterPart, <<c>>) \in Seq(Readable)
        BY <2>1, PartsSpread, Zenon DEF Spreads
    <3> QED
        BY <2>1, <3>1, <3>2, <3>3
  <2>3. Lowered(Spread(CharacterPart, x) \o CharacterPart[c])
            = Lowered(Spread(CharacterPart, x)) \o Lowered(CharacterPart[c])
      BY <2>2, LoweredConcat
  <2>4. Lowered(Append(x, c)) = Lowered(x) \o <<LowerCase[c]>>
    <3>1. Lowered(x \o <<c>>) = Lowered(x) \o Lowered(<<c>>)
        BY <1>1, <2>1, LoweredConcat, Zenon
    <3> QED
        BY <2>1, <3>1, LoweredCharacter
  <2>5. Spread(CharacterPart, Lowered(x) \o <<LowerCase[c]>>)
            = Spread(CharacterPart, Lowered(x)) \o CharacterPart[LowerCase[c]]
    <3>1. Spread(CharacterPart, <<LowerCase[c]>>) = CharacterPart[LowerCase[c]]
        BY <2>1, PartsSpread, Zenon DEF Spreads
    <3>2. Spread(CharacterPart, Lowered(x) \o <<LowerCase[c]>>)
              = Spread(CharacterPart, Lowered(x)) \o Spread(CharacterPart, <<LowerCase[c]>>)
        BY <2>1, PartsSpread, Zenon DEF Spreads
    <3> QED
        BY <3>1, <3>2
  <2> QED
      BY <1>2, <2>1, <2>2, <2>3, <2>4, <2>5, LoweredCharacter
<1>3. Seq(Readable) \subseteq T
  <2> HIDE DEF T
  <2> QED
      BY <1>1, <1>2, SequencesGrow
<1> QED
    BY <1>3

\* Where no word character is, nothing is to be kept.
LEMMA NothingThere ==
    ASSUME NEW s \in Seq(Readable), \A i \in 1..Len(s) : s[i] \notin WordChar
    PROVE  Spread(CharacterPart, s) = <<>>
<1> DEFINE C == Readable \ WordChar
           T == {x \in Seq(Readable) : Spread(CharacterPart, x) = <<>>}
<1>1. <<>> \in T
    BY PartsSpread DEF Spreads
<1>2. ASSUME NEW x \in Seq(C), NEW c \in C, x \in T PROVE Append(x, c) \in T
  <2>1. Append(x, c) = x \o <<c>> /\ <<c>> \in Seq(Readable) /\ x \in Seq(Readable)
        /\ Append(x, c) \in Seq(Readable) /\ c \in Readable
      BY <1>2, AppendIsConcat
  <2>2. Spread(CharacterPart, Append(x, c)) = Spread(CharacterPart, x) \o CharacterPart[c]
      BY <2>1, PartsSpread DEF Spreads
  <2>3. CharacterPart[c] = <<>> /\ Spread(CharacterPart, x) = <<>>
      BY <1>2 DEF CharacterPart
  <2> QED
      BY <2>1, <2>2, <2>3
<1>3. Seq(C) \subseteq T
  <2> HIDE DEF T, C
  <2> QED
      BY <1>1, <1>2, SequencesGrow
<1>4. s \in Seq(C)
  <2>1. \A i \in 1..Len(s) : s[i] \in C
      OBVIOUS
  <2>2. s \in [1..Len(s) -> C]
      BY <2>1
  <2> QED
      BY <2>2
<1> QED
    BY <1>3, <1>4

LEMMA PartsOfConcat ==
    /\ Spread(CharacterPart, <<>>) = <<>> /\ Spread(TokenPart, <<>>) = <<>>
    /\ \A c \in Readable : Spread(CharacterPart, <<c>>) = CharacterPart[c]
    /\ \A t \in Seq(Readable) : Spread(TokenPart, <<t>>) = Spread(CharacterPart, t)
    /\ \A s \in Seq(Readable) : Spread(CharacterPart, s) \in Seq(Readable)
    /\ \A s, t \in Seq(Readable) :
          Spread(CharacterPart, s \o t) = Spread(CharacterPart, s) \o Spread(CharacterPart, t)
    /\ \A s, t \in Seq(Seq(Readable)) :
          Spread(TokenPart, s \o t) = Spread(TokenPart, s) \o Spread(TokenPart, t)
<1>1. \A t \in Seq(Readable) : TokenPart[t] = Spread(CharacterPart, t)
    BY DEF TokenPart
<1> QED
    BY <1>1, PartsSpread, Zenon DEF Spreads

LEMMA PartOfSplit ==
    ASSUME NEW s \in Seq(Readable), NEW i \in 1..Len(s) + 1, NEW k \in i - 1..Len(s)
    PROVE  Spread(CharacterPart, SubSeq(s, i, Len(s)))
               = Spread(CharacterPart, SubSeq(s, i, k)) \o Spread(CharacterPart, SubSeq(s, k + 1, Len(s)))
<1> DEFINE x == SubSeq(s, i, k)
           y == SubSeq(s, k + 1, Len(s))
<1>1. x \o y = SubSeq(s, i, Len(s))
  <2>1. Len(s) \in k..Len(s)
      OBVIOUS
  <2> QED
      BY <2>1, ConcatAdjacentSubSeq
<1>2. x \in Seq(Readable) /\ y \in Seq(Readable)
    OBVIOUS
<1> HIDE DEF x, y
<1>3. Spread(CharacterPart, x \o y) = Spread(CharacterPart, x) \o Spread(CharacterPart, y)
    BY <1>2, PartsOfConcat, Zenon
<1> QED
    BY <1>1, <1>3 DEF x, y

LEMMA OneElement ==
    ASSUME NEW C, NEW s \in Seq(C), NEW i \in 1..Len(s)
    PROVE  SubSeq(s, i, i) = <<s[i]>> /\ s[i] \in C
<1> DEFINE x == SubSeq(s, i, i)
<1>1. x \in Seq(C) /\ Len(x) = 1 /\ x[1] = s[i]
    OBVIOUS
<1>2. <<s[i]>> \in Seq(C) /\ Len(<<s[i]>>) = 1 /\ <<s[i]>>[1] = s[i] /\ s[i] \in C
    OBVIOUS
<1> HIDE DEF x
<1>3. \A k \in 1..Len(x) : x[k] = <<s[i]>>[k]
    BY <1>1, <1>2
<1>4. x = <<s[i]>>
    BY <1>1, <1>2, <1>3, SeqEqual
<1> QED
    BY <1>2, <1>4 DEF x

LEMMA KeptFacts ==
    ASSUME NEW chunk \in Seq(Readable), NEW i \in 1..Len(chunk)
    PROVE  /\ chunk[i] \in WordChar => i \in KeptPositions(chunk)
           /\ i \in KeptPositions(chunk) => chunk[i] \in WordChar \cup {"."}
<1>1. DOMAIN chunk = 1..Len(chunk)
    OBVIOUS
<1> QED
    BY <1>1 DEF KeptPositions

\* No word character of a chunk is lost (appendDotAware, appendChunk).
LEMMA ChunkIsKept ==
    ASSUME NEW chunk \in Seq(Readable)
    PROVE  Spread(TokenPart, AppendChunk(chunk)) = Spread(CharacterPart, chunk)
<1>0. Len(chunk) \in Nat
    OBVIOUS
<1>1. CASE IsFlagChunk(chunk)
  <2>1. PICK m \in 0..Len(chunk) :
            /\ WithoutTrailingDots(chunk) = SubSeq(chunk, 1, m)
            /\ \A k \in m + 1..Len(chunk) : chunk[k] = "."
      BY TrailingDots
  <2>2. \A k \in m + 1..Len(chunk) : chunk[k] \notin WordChar
      BY <2>1, CharacterFacts, Zenon
  <2> DEFINE x == SubSeq(chunk, 1, m)
             y == SubSeq(chunk, m + 1, Len(chunk))
  <2>3. x \in Seq(Readable) /\ y \in Seq(Readable)
      OBVIOUS
  <2>4. \A k \in 1..Len(y) : y[k] \notin WordChar
    <3> TAKE k \in 1..Len(y)
    <3>1. Len(y) = Len(chunk) - m
        BY <1>0
    <3>2. m + 1 + k - 1 \in m + 1..Len(chunk)
        BY <1>0, <3>1
    <3>3. y[k] = chunk[m + 1 + k - 1]
        BY <1>0, <3>1
    <3> HIDE DEF y
    <3> QED
        BY <2>2, <3>2, <3>3
  <2>5. Spread(CharacterPart, y) = <<>>
      BY <2>3, <2>4, NothingThere
  <2>6. Spread(CharacterPart, SubSeq(chunk, 1, Len(chunk))) = Spread(CharacterPart, x) \o Spread(CharacterPart, y)
    <3>1. 1 \in 1..Len(chunk) + 1 /\ m \in 1 - 1..Len(chunk)
        BY <1>0
    <3> QED
        BY <3>1, PartOfSplit
  <2>7. SubSeq(chunk, 1, Len(chunk)) = chunk
      BY SubSeqFull
  <2> HIDE DEF x, y
  <2>8. Spread(CharacterPart, x) \in Seq(Readable)
      BY <2>3, PartsOfConcat, Zenon
  <2>9. Spread(CharacterPart, chunk) = Spread(CharacterPart, x)
      BY <2>5, <2>6, <2>7, <2>8, ConcatEmptySeq
  <2>10. AppendChunk(chunk) = <<x>>
      BY <1>1, <2>1, Zenon DEF AppendChunk, x
  <2> QED
      BY <2>3, <2>9, <2>10, PartsOfConcat, Zenon
<1>2. CASE ~IsFlagChunk(chunk)
  <2> DEFINE n == Len(chunk)
             kept == KeptPositions(chunk)
             unit == RunUnits(chunk, kept)
             next == RunNexts(chunk, kept)
  <2>1. Forward(n, Seq(Readable), unit, next)
      BY RunsForward
  <2>2. PICK f \in [1..n + 1 -> Seq(Seq(Readable))] :
            Runs(chunk, kept) = f[1] /\ Walks(f, n, unit, next)
      BY RunsEquation
  <2> DEFINE T == {i \in 1..n + 1 :
                      Spread(TokenPart, f[i]) = Spread(CharacterPart, SubSeq(chunk, i, n))}
  <2>3. n + 1 \in T
    <3>1. f[n + 1] = <<>> /\ SubSeq(chunk, n + 1, n) = <<>> /\ n + 1 \in 1..n + 1
        BY <1>0, <2>2, SubSeqEmpty DEF Walks
    <3>2. Spread(TokenPart, f[n + 1]) = Spread(CharacterPart, SubSeq(chunk, n + 1, n))
        BY <3>1, PartsOfConcat, Zenon
    <3> QED
        BY <3>1, <3>2
  <2>4. ASSUME NEW i \in 1..n, next[i] \in T PROVE i \in T
    <3>1. f[i] = unit[i] \o f[next[i]] /\ unit[i] \in Seq(Seq(Readable))
          /\ next[i] \in 1..n + 1 /\ i < next[i] /\ f[next[i]] \in Seq(Seq(Readable))
        BY <2>1, <2>2 DEF Walks, Forward
    <3> DEFINE k == next[i] - 1
    <3>2. k \in i - 1..n /\ k + 1 = next[i] /\ i \in 1..n + 1 /\ k \in i..n
        BY <1>0, <3>1
    <3>3. Spread(TokenPart, unit[i]) = Spread(CharacterPart, SubSeq(chunk, i, k))
      <4>1. CASE i \in kept
        <5>1. unit[i] = <<SubSeq(chunk, i, k)>>
          <6>1. unit[i] = <<SubSeq(chunk, i, LastOfRun(i, n, kept))>>
                /\ next[i] = LastOfRun(i, n, kept) + 1
              BY <4>1 DEF RunUnits, RunNexts
          <6>2. LastOfRun(i, n, kept) \in i..n
              BY <1>0, <4>1, LastOfRunProperties DEF IsLastOfRun
          <6>3. k = LastOfRun(i, n, kept)
              BY <6>1, <6>2
          <6> QED
              BY <6>1, <6>3
        <5>2. SubSeq(chunk, i, k) \in Seq(Readable)
            BY <3>2
        <5> QED
            BY <5>1, <5>2, PartsOfConcat, Zenon
      <4>2. CASE i \notin kept
        <5>1. unit[i] = <<>> /\ next[i] = i + 1
            BY <4>2 DEF RunUnits, RunNexts
        <5>2. k = i
            BY <5>1
        <5>3. SubSeq(chunk, i, i) = <<chunk[i]>> /\ chunk[i] \in Readable
            BY OneElement
        <5>4. chunk[i] \notin WordChar
            BY <4>2, KeptFacts
        <5>5. CharacterPart[chunk[i]] = <<>>
            BY <5>3, <5>4 DEF CharacterPart
        <5>6. Spread(CharacterPart, <<chunk[i]>>) = <<>>
            BY <5>3, <5>5, PartsOfConcat, Zenon
        <5> HIDE DEF k, unit
        <5> QED
            BY <5>1, <5>2, <5>3, <5>6, PartsOfConcat, Zenon
      <4> QED
          BY <4>1, <4>2
    <3>4. Spread(CharacterPart, SubSeq(chunk, i, n))
              = Spread(CharacterPart, SubSeq(chunk, i, k)) \o Spread(CharacterPart, SubSeq(chunk, k + 1, n))
        BY <3>2, PartOfSplit
    <3>5. Spread(TokenPart, f[next[i]]) = Spread(CharacterPart, SubSeq(chunk, k + 1, n))
        BY <2>4, <3>2
    <3> HIDE DEF k, unit, next
    <3>6. Spread(TokenPart, unit[i] \o f[next[i]]) = Spread(TokenPart, unit[i]) \o Spread(TokenPart, f[next[i]])
        BY <3>1, PartsOfConcat, Zenon
    <3>7. Spread(TokenPart, f[i]) = Spread(CharacterPart, SubSeq(chunk, i, n))
        BY <3>1, <3>3, <3>4, <3>5, <3>6, Zenon
    <3> QED
        BY <3>2, <3>7
  <2>5. 1..n + 1 \subseteq T
    <3> HIDE DEF T
    <3> QED
        BY <2>1, <2>3, <2>4, WalkInduction
  <2>6. Spread(TokenPart, f[1]) = Spread(CharacterPart, SubSeq(chunk, 1, n))
    <3>1. 1 \in 1..n + 1
        BY <1>0
    <3>2. 1 \in T
        BY <2>5, <3>1
    <3> QED
        BY <3>2
  <2>7. SubSeq(chunk, 1, n) = chunk
      BY SubSeqFull
  <2>8. AppendChunk(chunk) = f[1]
      BY <1>2, <2>2 DEF AppendChunk
  <2> QED
      BY <2>6, <2>7, <2>8, Zenon
<1> QED
    BY <1>1, <1>2

LEMMA LoweredStays == \A c \in Readable : c \in Digits \cup Direction => LowerCase[c] = c
<1>1. (Digits \cup Direction) \cap Letters = {}
    BY AlphabetAssumption DEF WordChar
<1> QED
    BY <1>1, AlphabetAssumption

\* A redirection is written as it stands.
LEMMA RedirectionLowered ==
    ASSUME NEW s \in Seq(Readable), NEW i \in 1..Len(s), s[i] \in ChunkChar, IsRedirection(s, i)
    PROVE  Lowered(SubSeq(s, i, RedirectionEnd(s, i))) = SubSeq(s, i, RedirectionEnd(s, i))
<1> DEFINE e == RunEnd(s, i, ChunkChar)
           q == RedirectionEnd(s, i)
           x == SubSeq(s, i, q)
<1>1. /\ e \in i..Len(s) /\ e < Len(s) /\ s[e + 1] \in Direction
      /\ \A k \in i..e : s[k] \in Digits
      /\ IsRunEnd(q, s, e + 1, {s[e + 1]}) /\ q \in i..Len(s) /\ e < q
    BY RedirectionFacts
<1>2. \A k \in e + 1..q : s[k] \in Direction
    BY <1>1 DEF IsRunEnd
<1> HIDE DEF e, q
<1>3. \A k \in i..q : s[k] \in Digits \cup Direction
  <2> TAKE k \in i..q
  <2>1. k \in i..e \/ k \in e + 1..q
      BY <1>1
  <2> QED
      BY <1>1, <1>2, <2>1
<1>4. x \in Seq(Readable) /\ Len(x) = q - i + 1 /\ \A k \in 1..q - i + 1 : x[k] = s[i + k - 1]
    BY <1>1
<1> HIDE DEF x
<1>5. \A k \in 1..q - i + 1 : x[k] \in Readable /\ x[k] \in Digits \cup Direction
  <2> TAKE k \in 1..q - i + 1
  <2>1. i + k - 1 \in i..q
      BY <1>1
  <2> QED
      BY <1>3, <1>4, <2>1
<1>6. \A k \in 1..q - i + 1 : LowerCase[x[k]] = x[k]
    BY <1>5, LoweredStays
<1>7. DOMAIN x = 1..q - i + 1
    BY <1>1, <1>4
<1>8. Lowered(x) = [k \in 1..q - i + 1 |-> x[k]]
    BY <1>6, <1>7 DEF Lowered
<1>9. x = [k \in 1..q - i + 1 |-> x[k]]
    BY <1>4, <1>7
<1> QED
    BY <1>8, <1>9 DEF x, q

\* What is written for a piece of the text has its word characters.
LEMMA UnitIsKept ==
    ASSUME NEW s \in Seq(Readable), NEW i \in 1..Len(s)
    PROVE  Spread(TokenPart, Unit(s, i))
               = Lowered(Spread(CharacterPart, SubSeq(s, i, Following(s, i) - 1)))
<1>1. CASE s[i] \notin ChunkChar
  <2>1. Unit(s, i) = <<>> /\ Following(s, i) = i + 1 /\ (i + 1) - 1 = i
      BY <1>1 DEF Unit, Following
  <2>2. SubSeq(s, i, i) = <<s[i]>> /\ s[i] \in Readable
      BY OneElement
  <2>3. s[i] \notin WordChar
      BY <1>1, CharacterFacts
  <2>4. CharacterPart[s[i]] = <<>>
      BY <2>2, <2>3 DEF CharacterPart
  <2>5. Spread(CharacterPart, SubSeq(s, i, i)) = <<>>
      BY <2>2, <2>4, PartsOfConcat, Zenon
  <2>6. Following(s, i) - 1 = i
      BY <2>1
  <2> QED
      BY <2>1, <2>5, <2>6, PartsOfConcat, LoweredConcat, Zenon
<1>2. CASE s[i] \in ChunkChar /\ IsRedirection(s, i)
  <2> DEFINE q == RedirectionEnd(s, i)
             x == SubSeq(s, i, q)
  <2>1. Unit(s, i) = <<x>> /\ Following(s, i) = q + 1
      BY <1>2 DEF Unit, Following
  <2>2. q \in i..Len(s)
      BY <1>2, RedirectionFacts
  <2>3. Lowered(x) = x
      BY <1>2, RedirectionLowered
  <2> HIDE DEF q
  <2>4. x \in Seq(Readable)
      BY <2>2
  <2>5. Following(s, i) - 1 = q
      BY <2>1, <2>2
  <2> HIDE DEF x
  <2>6. Lowered(Spread(CharacterPart, x)) = Spread(CharacterPart, x)
      BY <2>3, <2>4, LoweredSpread
  <2>7. Spread(TokenPart, <<x>>) = Spread(CharacterPart, x)
      BY <2>4, PartsOfConcat, Zenon
  <2> QED
      BY <2>1, <2>5, <2>6, <2>7 DEF x
<1>3. CASE s[i] \in ChunkChar /\ ~IsRedirection(s, i)
  <2> DEFINE e == RunEnd(s, i, ChunkChar)
             x == SubSeq(s, i, e)
  <2>1. Unit(s, i) = AppendChunk(Lowered(x)) /\ Following(s, i) = e + 1
      BY <1>3 DEF Unit, Following, ChunkAt
  <2>2. e \in i..Len(s)
      BY <1>3, ChunkFacts DEF IsRunEnd
  <2> HIDE DEF e
  <2>3. x \in Seq(Readable)
      BY <2>2
  <2>4. Following(s, i) - 1 = e
      BY <2>1, <2>2
  <2> HIDE DEF x
  <2>5. Lowered(x) \in Seq(Readable)
      BY <2>3, LoweredConcat, Zenon
  <2>6. Spread(TokenPart, AppendChunk(Lowered(x))) = Spread(CharacterPart, Lowered(x))
      BY <2>5, ChunkIsKept
  <2>7. Spread(CharacterPart, Lowered(x)) = Lowered(Spread(CharacterPart, x))
      BY <2>3, LoweredSpread
  <2> QED
      BY <2>1, <2>4, <2>6, <2>7 DEF x
<1> QED
    BY <1>1, <1>2, <1>3

\* The word characters up to a position are those of the tokens so far.
Kept(t, i, out) == Spread(TokenPart, out) = Lowered(Spread(CharacterPart, SubSeq(t, 1, i - 1)))

LEMMA KeptStarts == ASSUME NEW t \in Seq(Readable) PROVE Kept(t, 1, <<>>)
<1>1. SubSeq(t, 1, 1 - 1) = <<>>
    BY SubSeqEmpty
<1> QED
    BY <1>1, PartsOfConcat, LoweredConcat, Zenon DEF Kept

LEMMA KeptGoesOn ==
    ASSUME NEW t, NEW i, NEW out, Progress(t, i, out), i <= Len(t), Kept(t, i, out)
    PROVE  Kept(t, Following(t, i), out \o Unit(t, i))
<1>1. t \in Seq(Readable) /\ i \in 1..Len(t) /\ out \in Seq(Seq(Readable))
    BY DEF Progress
<1>2. Forward(Len(t), Seq(Readable), Units(t), Nexts(t))
    BY <1>1, LexForward
<1>3. Unit(t, i) \in Seq(Seq(Readable)) /\ Following(t, i) \in 1..Len(t) + 1 /\ i < Following(t, i)
    BY <1>1, <1>2 DEF Forward, Units, Nexts
<1> DEFINE k == Following(t, i) - 1
           x == SubSeq(t, 1, i - 1)
           y == SubSeq(t, i, k)
           u == Unit(t, i)
<1>4. k \in i..Len(t) /\ i - 1 \in 1 - 1..Len(t) /\ k \in i - 1..Len(t) /\ (i - 1) + 1 = i
      /\ 1 \in 1..Len(t) + 1
    BY <1>1, <1>3
<1>5. Spread(TokenPart, u) = Lowered(Spread(CharacterPart, y))
    BY <1>1, UnitIsKept
<1> HIDE DEF k, u
<1>6. SubSeq(t, 1, i - 1) \o SubSeq(t, (i - 1) + 1, k) = SubSeq(t, 1, k)
    BY <1>1, <1>4, ConcatAdjacentSubSeq
<1>7. x \o y = SubSeq(t, 1, k)
    BY <1>4, <1>6
<1>8. x \in Seq(Readable) /\ y \in Seq(Readable)
    BY <1>1, <1>4, Before
<1> HIDE DEF x, y
<1>9. Spread(CharacterPart, x \o y) = Spread(CharacterPart, x) \o Spread(CharacterPart, y)
      /\ Spread(CharacterPart, x) \in Seq(Readable) /\ Spread(CharacterPart, y) \in Seq(Readable)
    BY <1>8, PartsOfConcat, Zenon
<1>10. Lowered(Spread(CharacterPart, x) \o Spread(CharacterPart, y))
           = Lowered(Spread(CharacterPart, x)) \o Lowered(Spread(CharacterPart, y))
    BY <1>9, LoweredConcat, Zenon
<1>11. Spread(TokenPart, out \o u) = Spread(TokenPart, out) \o Spread(TokenPart, u)
    BY <1>1, <1>3, PartsOfConcat, Zenon DEF u
<1>12. Spread(TokenPart, out) = Lowered(Spread(CharacterPart, x))
    BY DEF Kept, x
<1>13. Spread(TokenPart, out \o u) = Lowered(Spread(CharacterPart, SubSeq(t, 1, k)))
    BY <1>5, <1>7, <1>9, <1>10, <1>11, <1>12, Zenon
<1> QED
    BY <1>13, Zenon DEF Kept, k, u

LEMMA KeptStays ==
    QueryInv /\ Kept(text, index, output) /\ [QueryNext]_query_vars => Kept(text, index, output)'
<1> SUFFICES ASSUME QueryInv, Kept(text, index, output), [QueryNext]_query_vars
             PROVE  Kept(text', index', output')
    BY DEF Kept
<1>1. PICK t, i, out : t = text /\ i = index /\ out = output
    OBVIOUS
<1>2. Progress(t, i, out) /\ out \in Seq(Seq(Readable)) /\ t \in Seq(Readable) /\ Kept(t, i, out)
    BY <1>1 DEF QueryInv, Progress
<1>3. ASSUME i <= Len(t), text' = t, index' = Following(t, i), output' = out \o Unit(t, i)
      PROVE  Kept(text', index', output')
    BY <1>2, <1>3, KeptGoesOn
<1>4. CASE SkipByte
  <2>1. i <= Len(t) /\ t[i] \notin ChunkChar /\ index' = i + 1 /\ text' = t /\ output' = out
      BY <1>1, <1>4 DEF SkipByte, Inside, Here
  <2>2. Following(t, i) = i + 1 /\ Unit(t, i) = <<>>
      BY <2>1 DEF Following, Unit
  <2>3. out \o Unit(t, i) = out
      BY <1>2, <2>2, ConcatEmptySeq
  <2> QED
      BY <1>3, <2>1, <2>2, <2>3
<1>5. CASE Redirection
  <2>1. i <= Len(t) /\ t[i] \in ChunkChar /\ IsRedirection(t, i)
        /\ index' = RedirectionEnd(t, i) + 1 /\ text' = t
        /\ output' = Append(out, SubSeq(t, i, RedirectionEnd(t, i)))
      BY <1>1, <1>5 DEF Redirection, Inside, Here
  <2>2. Following(t, i) = RedirectionEnd(t, i) + 1
        /\ Unit(t, i) = <<SubSeq(t, i, RedirectionEnd(t, i))>>
      BY <2>1 DEF Following, Unit
  <2>3. i \in 1..Len(t)
      BY <1>2, <2>1 DEF Progress
  <2>4. RedirectionEnd(t, i) \in i..Len(t)
      BY <1>2, <2>1, <2>3, RedirectionFacts
  <2>5. SubSeq(t, i, RedirectionEnd(t, i)) \in Seq(Readable)
      BY <1>2, <2>3, <2>4, SubSeqProperties
  <2>6. output' = out \o Unit(t, i)
      BY <1>2, <2>1, <2>2, <2>5, AppendIsConcat
  <2> QED
      BY <1>3, <2>1, <2>2, <2>6
<1>6. CASE Chunk
  <2>1. i <= Len(t) /\ t[i] \in ChunkChar /\ ~IsRedirection(t, i)
        /\ index' = RunEnd(t, i, ChunkChar) + 1 /\ text' = t
        /\ output' = out \o AppendChunk(ChunkAt(t, i))
      BY <1>1, <1>6 DEF Chunk, Inside, Here, Beyond, AfterChunk
  <2>2. Following(t, i) = RunEnd(t, i, ChunkChar) + 1
        /\ Unit(t, i) = AppendChunk(ChunkAt(t, i))
      BY <2>1 DEF Following, Unit
  <2> QED
      BY <1>3, <2>1, <2>2
<1>7. CASE Process \/ UNCHANGED query_vars
    BY <1>1, <1>2, <1>7 DEF Process, query_vars
<1> QED
    BY <1>4, <1>5, <1>6, <1>7 DEF QueryNext, QueryWork, QueryDone

\* No letter or digit of the text is lost, doubled or moved on the way to the
\* tokens (lexicalTokens, appendChunk, appendDotAware).
THEOREM NoCharacterIsLost == QuerySpec => []NothingIsLost
<1>1. QueryInit => Kept(text, index, output)
  <2> SUFFICES ASSUME QueryInit PROVE Kept(text, index, output)
      OBVIOUS
  <2>1. text \in Seq(Readable) /\ index = 1 /\ output = <<>>
      BY TextAssumption DEF QueryInit
  <2> QED
      BY <2>1, KeptStarts
<1>2. QueryInv /\ Kept(text, index, output) => NothingIsLost
  <2> SUFFICES ASSUME QueryInv, Kept(text, index, output) PROVE NothingIsLost
      OBVIOUS
  <2>1. text \in Seq(Readable) /\ index \in 1..Len(text) + 1 /\ output \in Seq(Seq(Readable))
      BY DEF QueryInv, Progress
  <2>2. SubSeq(text, 1, index - 1) \in Seq(Readable)
      BY <2>1
  <2> QED
      BY <2>1, <2>2, TokensSpread, WordCharsSpread DEF NothingIsLost, Kept
<1> QED
    BY <1>1, <1>2, QueryInvariant, KeptStays, PTL DEF QuerySpec

-----------------------------------------------------------------------------
(* Tokens are tokenized to themselves.                                     *)

Stable == {t \in Seq(Readable) : LexedFrom(t) = <<t>>}

\* A text whose first unit is all of it.
LEMMA OneUnit ==
    ASSUME NEW t \in Seq(Readable), NEW u \in Seq(Seq(Readable)),
           Len(t) > 0, Unit(t, 1) = u, Following(t, 1) = Len(t) + 1
    PROVE  LexedFrom(t) = u
<1>1. 1 \in 1..Len(t)
    OBVIOUS
<1>2. LexedFrom(t) = u \o Lex(t)[Len(t) + 1] /\ Lex(t)[Len(t) + 1] = <<>>
    BY <1>1, LexProperties
<1> QED
    BY <1>2, ConcatEmptySeq

Marked(s, d, op) ==
    /\ s \in Seq(Readable) /\ d \in 1..Len(s) /\ d < Len(s)
    /\ \A k \in 1..d : s[k] \in Digits
    /\ \A k \in d + 1..Len(s) : s[k] = op
    /\ op \in Direction

LEMMA RedirectionIsOneToken ==
    ASSUME NEW s, NEW d, NEW op, Marked(s, d, op)
    PROVE  s \in Stable
<1> DEFINE n == Len(s)
<1>1. /\ s \in Seq(Readable) /\ d \in 1..n /\ d < n /\ n \in Nat
      /\ \A k \in 1..d : s[k] \in Digits
      /\ \A k \in d + 1..n : s[k] = op
      /\ op \in Direction
    BY DEF Marked
<1>2. 1 \in 1..n /\ d + 1 \in 1..n /\ d + 1 \in d + 1..n
    BY <1>1
<1>3. s[1] \in Digits /\ s[d + 1] = op
    BY <1>1, <1>2
<1>4. Digits \subseteq ChunkChar /\ op \notin ChunkChar
    BY <1>1, CharacterFacts
<1>5. IsRunEnd(d, s, 1, ChunkChar)
    BY <1>1, <1>3, <1>4 DEF IsRunEnd
<1>6. s[1] \in ChunkChar
    BY <1>3, <1>4
<1>7. RunEnd(s, 1, ChunkChar) = d
    BY <1>1, <1>2, <1>5, <1>6, RunEndProperties
<1>8. IsRedirection(s, 1)
    BY <1>1, <1>3, <1>7 DEF IsRedirection
<1>9. RedirectionEnd(s, 1) = RunEnd(s, d + 1, {op})
    BY <1>3, <1>7 DEF RedirectionEnd
<1>10. IsRunEnd(n, s, d + 1, {op})
    BY <1>1 DEF IsRunEnd
<1>11. RedirectionEnd(s, 1) = n
  <2>1. s[d + 1] \in {op}
      BY <1>3
  <2> QED
      BY <1>1, <1>2, <1>9, <1>10, <2>1, RunEndProperties
<1>12. SubSeq(s, 1, n) = s
    BY <1>1, SubSeqFull
<1>13. Unit(s, 1) = <<s>> /\ Following(s, 1) = n + 1
    BY <1>6, <1>8, <1>11, <1>12 DEF Unit, Following
<1>14. LexedFrom(s) = <<s>>
  <2>1. <<s>> \in Seq(Seq(Readable)) /\ Len(s) > 0
      BY <1>1
  <2> QED
      BY <1>1, <1>13, <2>1, OneUnit
<1> QED
    BY <1>1, <1>14 DEF Stable

LEMMA RedirectionsAreStable ==
    ASSUME NEW s \in Seq(Readable), NEW i \in 1..Len(s), s[i] \in ChunkChar, IsRedirection(s, i)
    PROVE  SubSeq(s, i, RedirectionEnd(s, i)) \in Stable
<1> DEFINE e == RunEnd(s, i, ChunkChar)
           q == RedirectionEnd(s, i)
           x == SubSeq(s, i, q)
           d == e - i + 1
           op == s[e + 1]
<1>1. /\ e \in i..Len(s) /\ e < Len(s) /\ op \in Direction
      /\ \A k \in i..e : s[k] \in Digits
      /\ IsRunEnd(q, s, e + 1, {op}) /\ q \in i..Len(s) /\ e < q
    BY RedirectionFacts
<1>2. \A k \in e + 1..q : s[k] = op
    BY <1>1 DEF IsRunEnd
<1> HIDE DEF e, q, op
<1>3. x \in Seq(Readable) /\ Len(x) = q - i + 1 /\ \A k \in 1..q - i + 1 : x[k] = s[i + k - 1]
    BY <1>1
<1> HIDE DEF x
<1>4. d \in 1..Len(x) /\ d < Len(x)
    BY <1>1, <1>3
<1>5. ASSUME NEW k \in 1..d PROVE x[k] \in Digits
  <2>1. i + k - 1 \in i..e /\ k \in 1..q - i + 1
      BY <1>1
  <2> QED
      BY <1>1, <1>3, <2>1
<1>6. ASSUME NEW k \in d + 1..Len(x) PROVE x[k] = op
  <2>1. i + k - 1 \in e + 1..q /\ k \in 1..q - i + 1
      BY <1>1, <1>3
  <2> QED
      BY <1>2, <1>3, <2>1
<1> HIDE DEF d
<1>7. Marked(x, d, op)
    BY <1>1, <1>3, <1>4, <1>5, <1>6 DEF Marked
<1> QED
    BY <1>7, RedirectionIsOneToken DEF x, q

LowerChunk(c) ==
    /\ c \in Seq(Readable) /\ Len(c) > 0
    /\ \A k \in 1..Len(c) : c[k] \in ChunkChar /\ LowerCase[c[k]] = c[k]

LEMMA WholeChunk ==
    ASSUME NEW c, LowerChunk(c)
    PROVE  LexedFrom(c) = AppendChunk(c)
<1> DEFINE n == Len(c)
<1>1. /\ c \in Seq(Readable) /\ n \in Nat /\ n > 0 /\ 1 \in 1..n
      /\ \A k \in 1..n : c[k] \in ChunkChar /\ LowerCase[c[k]] = c[k]
    BY DEF LowerChunk
<1>2. IsRunEnd(n, c, 1, ChunkChar) /\ c[1] \in ChunkChar
    BY <1>1 DEF IsRunEnd
<1>3. RunEnd(c, 1, ChunkChar) = n
    BY <1>1, <1>2, RunEndProperties
<1>4. ~IsRedirection(c, 1)
  <2>1. ~(n < n)
      BY <1>1
  <2> QED
      BY <1>3, <2>1 DEF IsRedirection
<1>5. Lowered(c) = c
  <2>1. DOMAIN c = 1..n /\ c = [k \in 1..n |-> c[k]]
      BY <1>1
  <2>2. Lowered(c) = [k \in 1..n |-> c[k]]
      BY <1>1, <2>1 DEF Lowered
  <2> QED
      BY <2>1, <2>2
<1>6. ChunkAt(c, 1) = c
  <2>1. SubSeq(c, 1, n) = c
      BY <1>1, SubSeqFull
  <2> QED
      BY <1>3, <1>5, <2>1 DEF ChunkAt
<1>7. Unit(c, 1) = AppendChunk(c) /\ Following(c, 1) = n + 1
    BY <1>2, <1>3, <1>4, <1>6 DEF Unit, Following
<1>8. AppendChunk(c) \in Seq(Seq(Readable))
    BY <1>1, AppendChunkType
<1> QED
    BY <1>1, <1>7, <1>8, OneUnit

LEMMA LowerTwice == \A c \in Readable : LowerCase[LowerCase[c]] = LowerCase[c]
    BY CharacterFacts

LEMMA ChunksAreLower ==
    ASSUME NEW s \in Seq(Readable), NEW i \in 1..Len(s), s[i] \in ChunkChar
    PROVE  LowerChunk(ChunkAt(s, i))
<1> DEFINE e == RunEnd(s, i, ChunkChar)
           c == ChunkAt(s, i)
<1>1. /\ e \in i..Len(s) /\ c \in Seq(ChunkChar) /\ c \in Seq(Readable) /\ Len(c) = e - i + 1
      /\ \A k \in 1..e - i + 1 : c[k] = LowerCase[s[i + k - 1]]
    BY ChunkFacts DEF IsRunEnd
<1> HIDE DEF e, c
<1>2. \A k \in 1..Len(c) : c[k] \in ChunkChar
    BY <1>1
<1>3. ASSUME NEW k \in 1..Len(c) PROVE LowerCase[c[k]] = c[k]
  <2>1. k \in 1..e - i + 1 /\ i + k - 1 \in 1..Len(s)
      BY <1>1
  <2>2. s[i + k - 1] \in Readable /\ c[k] = LowerCase[s[i + k - 1]]
      BY <1>1, <2>1
  <2> QED
      BY <2>2, LowerTwice
<1>4. Len(c) > 0
    BY <1>1
<1>5. LowerChunk(c)
    BY <1>1, <1>2, <1>3, <1>4 DEF LowerChunk
<1> QED
    BY <1>5 DEF c

\* A part of a chunk.
LEMMA PartIsLower ==
    ASSUME NEW c, LowerChunk(c), NEW i \in 1..Len(c), NEW e \in i..Len(c)
    PROVE  /\ LowerChunk(SubSeq(c, i, e)) /\ Len(SubSeq(c, i, e)) = e - i + 1
           /\ \A k \in 1..e - i + 1 : SubSeq(c, i, e)[k] = c[i + k - 1]
<1> DEFINE x == SubSeq(c, i, e)
<1>1. /\ c \in Seq(Readable) /\ Len(c) \in Nat
      /\ \A k \in 1..Len(c) : c[k] \in ChunkChar /\ LowerCase[c[k]] = c[k]
    BY DEF LowerChunk
<1>2. x \in Seq(Readable) /\ Len(x) = e - i + 1 /\ \A k \in 1..e - i + 1 : x[k] = c[i + k - 1]
    BY <1>1
<1> HIDE DEF x
<1>3. Len(x) > 0
    BY <1>1, <1>2
<1>4. ASSUME NEW k \in 1..Len(x) PROVE x[k] \in ChunkChar /\ LowerCase[x[k]] = x[k]
  <2>1. k \in 1..e - i + 1 /\ i + k - 1 \in 1..Len(c)
      BY <1>1, <1>2
  <2> QED
      BY <1>1, <1>2, <2>1
<1>5. LowerChunk(x)
    BY <1>2, <1>3, <1>4 DEF LowerChunk
<1> QED
    BY <1>2, <1>5 DEF x

Dot == "."
Dash == "-"
LEMMA MarkFacts ==
    Dot \notin WordChar /\ Dash \notin WordChar /\ Dot # Dash /\ Dot \in Readable
    BY CharacterFacts DEF Dot, Dash

Flag(c) == Len(c) >= 2 /\ c[1] = Dash /\ StartsFlag(c)
LEMMA FlagFacts ==
    ASSUME NEW c
    PROVE  /\ IsFlagChunk(c) <=> Flag(c)
           /\ StartsFlag(c) <=>
                \/ /\ c[2] = Dash /\ Len(c) > 2 /\ c[3] # Dash
                   /\ \E i \in 3..Len(c) : c[i] \in WordChar
                \/ /\ c[2] # Dash /\ Len(c) > 1
                   /\ \E i \in 2..Len(c) : c[i] \in WordChar
<1>1. IsFlagChunk(c) <=> Flag(c)
    BY DEF IsFlagChunk, Flag, Dash
<1>2. CASE c[2] = Dash
  <2>1. StartsFlag(c) <=> /\ Len(c) > 2 /\ ~(2 = 2 /\ c[3] = Dash)
                          /\ \E i \in 2 + 1..Len(c) : c[i] \in WordChar
      BY <1>2, Zenon DEF StartsFlag, Dash
  <2>2. 2 + 1 = 3
      OBVIOUS
  <2> QED
      BY <1>1, <1>2, <2>1, <2>2, Zenon
<1>3. CASE c[2] # Dash
  <2>1. StartsFlag(c) <=> /\ Len(c) > 1 /\ ~(1 = 2 /\ c[3] = Dash)
                          /\ \E i \in 1 + 1..Len(c) : c[i] \in WordChar
      BY <1>3, Zenon DEF StartsFlag, Dash
  <2>2. 1 + 1 = 2 /\ 1 # 2
      OBVIOUS
  <2> QED
      BY <1>1, <1>3, <2>1, <2>2, Zenon
<1> QED
    BY <1>2, <1>3

\* Where a text ends without its dots.
DotsFrom(c, m) ==
    /\ m \in 0..Len(c) /\ WithoutTrailingDots(c) = SubSeq(c, 1, m)
    /\ m # 0 => c[m] # Dot
    /\ \A k \in m + 1..Len(c) : c[k] = Dot
LEMMA DotsEnd == ASSUME NEW C, NEW c \in Seq(C) PROVE \E m : DotsFrom(c, m)
<1>1. PICK m \in 0..Len(c) :
          /\ WithoutTrailingDots(c) = SubSeq(c, 1, m)
          /\ m # 0 => c[m] # "."
          /\ \A k \in m + 1..Len(c) : c[k] = "."
    BY TrailingDots
<1>2. DotsFrom(c, m)
    BY <1>1, Zenon DEF DotsFrom, Dot
<1> QED
    BY <1>2

\* appendChunk's flags.
LEMMA FlagsAreStable ==
    ASSUME NEW c, LowerChunk(c), IsFlagChunk(c)
    PROVE  WithoutTrailingDots(c) \in Stable
<1>1. c \in Seq(Readable) /\ Len(c) \in Nat
    BY DEF LowerChunk
<1>2. Len(c) >= 2 /\ c[1] = Dash /\ StartsFlag(c)
    BY FlagFacts DEF Flag
<1>3. PICK m : DotsFrom(c, m)
    BY <1>1, DotsEnd
<1> DEFINE x == SubSeq(c, 1, m)
<1>4. /\ m \in 0..Len(c) /\ WithoutTrailingDots(c) = x
      /\ \A k \in m + 1..Len(c) : c[k] = Dot
      /\ m # 0 => c[m] # Dot
    BY <1>3 DEF DotsFrom
<1>5. \A k \in 1..Len(c) : c[k] \in WordChar => k <= m
    BY <1>1, <1>4, MarkFacts
<1>6. \/ /\ c[2] = Dash /\ Len(c) > 2 /\ c[3] # Dash
         /\ \E i \in 3..Len(c) : c[i] \in WordChar
      \/ /\ c[2] # Dash /\ Len(c) > 1
         /\ \E i \in 2..Len(c) : c[i] \in WordChar
    BY <1>2, FlagFacts
<1>7. m >= 2 /\ (c[2] = Dash => m >= 3)
    BY <1>1, <1>4, <1>5, <1>6
<1>8. LowerChunk(x) /\ Len(x) = m /\ \A k \in 1..m : x[k] = c[k]
  <2>1. 1 \in 1..Len(c) /\ m \in 1..Len(c) /\ m - 1 + 1 = m /\ \A k \in 1..m : 1 + k - 1 = k
      BY <1>1, <1>4, <1>7
  <2>2. LowerChunk(SubSeq(c, 1, m)) /\ Len(SubSeq(c, 1, m)) = m - 1 + 1
        /\ \A k \in 1..m - 1 + 1 : SubSeq(c, 1, m)[k] = c[1 + k - 1]
      BY <2>1, PartIsLower
  <2> QED
      BY <2>1, <2>2
<1> HIDE DEF x
<1>9. StartsFlag(x)
  <2>1. CASE c[2] = Dash
    <3>1. PICK i \in 3..Len(c) : c[i] \in WordChar
        BY <1>6, <2>1
    <3>2. i \in 3..m /\ i \in 1..m /\ 2 \in 1..m /\ 3 \in 1..m
        BY <1>1, <1>4, <1>5, <1>7, <2>1, <3>1
    <3>3. x[2] = Dash /\ x[3] # Dash /\ x[i] \in WordChar
        BY <1>6, <1>8, <2>1, <3>1, <3>2
    <3>4. Len(x) > 2 /\ i \in 3..Len(x)
        BY <1>4, <1>7, <1>8, <2>1, <3>2
    <3> QED
        BY <3>3, <3>4, FlagFacts
  <2>2. CASE c[2] # Dash
    <3>1. PICK i \in 2..Len(c) : c[i] \in WordChar
        BY <1>6, <2>2
    <3>2. i \in 2..m /\ i \in 1..m /\ 2 \in 1..m
        BY <1>1, <1>4, <1>5, <1>7, <3>1
    <3>3. x[2] # Dash /\ x[i] \in WordChar
        BY <1>8, <2>2, <3>1, <3>2
    <3>4. Len(x) > 1 /\ i \in 2..Len(x)
        BY <1>4, <1>7, <1>8, <3>2
    <3> QED
        BY <3>3, <3>4, FlagFacts
  <2> QED
      BY <2>1, <2>2
<1>10. IsFlagChunk(x)
  <2>1. x[1] = Dash /\ Len(x) >= 2
      BY <1>2, <1>4, <1>7, <1>8
  <2> QED
      BY <1>9, <2>1, FlagFacts DEF Flag
<1>11. x \in Seq(Readable)
    BY <1>8 DEF LowerChunk
<1>12. WithoutTrailingDots(x) = x
  <2>1. PICK j : DotsFrom(x, j)
      BY <1>11, DotsEnd
  <2>2. j \in 0..m /\ WithoutTrailingDots(x) = SubSeq(x, 1, j) /\ \A k \in j + 1..m : x[k] = Dot
      BY <1>8, <2>1 DEF DotsFrom
  <2>3. x[m] # Dot /\ m \in 1..m
    <3>1. m \in 1..m /\ m # 0
        BY <1>1, <1>4, <1>7
    <3> QED
      <4>1. c[m] # Dot
          BY <1>4, <3>1
      <4>2. x[m] = c[m]
          BY <1>8, <3>1
      <4> QED
          BY <3>1, <4>1, <4>2
  <2>4. j = m
      BY <1>4, <2>2, <2>3
  <2>5. SubSeq(x, 1, Len(x)) = x
      BY <1>11, SubSeqFull
  <2> QED
      BY <1>8, <2>2, <2>4, <2>5
<1>13. AppendChunk(x) = <<x>>
    BY <1>10, <1>12, Zenon DEF AppendChunk
<1>14. LexedFrom(x) = <<x>>
    BY <1>8, <1>13, WholeChunk
<1>15. x \in Stable
    BY <1>11, <1>14 DEF Stable
<1> QED
    BY <1>4, <1>15

LEMMA KeptPosition ==
    ASSUME NEW c \in Seq(Readable), NEW i \in 1..Len(c)
    PROVE  i \in KeptPositions(c) <=>
               \/ c[i] \in WordChar
               \/ /\ c[i] = Dot /\ 2 <= i /\ i <= Len(c) - 1
                  /\ c[i - 1] \in WordChar /\ c[i + 1] \in WordChar
<1>1. DOMAIN c = 1..Len(c)
    OBVIOUS
<1>2. i \in 2..Len(c) - 1 <=> 2 <= i /\ i <= Len(c) - 1
    OBVIOUS
<1> QED
    BY <1>1, <1>2 DEF KeptPositions, Dot

\* A dot does not start or end a run of kept positions.
Run(c, i, e) ==
    /\ LowerChunk(c) /\ i \in 1..Len(c) /\ e \in i..Len(c)
    /\ i..e \subseteq KeptPositions(c)
    /\ i > 1 => i - 1 \notin KeptPositions(c)
    /\ e < Len(c) => e + 1 \notin KeptPositions(c)

LEMMA RunEnds ==
    ASSUME NEW c, NEW i, NEW e, Run(c, i, e)
    PROVE  c[i] \in WordChar /\ c[e] \in WordChar
<1>1. /\ c \in Seq(Readable) /\ Len(c) \in Nat /\ i \in 1..Len(c) /\ e \in i..Len(c)
      /\ i \in KeptPositions(c) /\ e \in KeptPositions(c)
    BY DEF Run, LowerChunk
<1>2. ASSUME c[i] \notin WordChar PROVE FALSE
  <2>1. 2 <= i /\ c[i - 1] \in WordChar
      BY <1>1, <1>2, KeptPosition
  <2>2. i - 1 \in 1..Len(c) /\ i > 1
      BY <1>1, <2>1
  <2>3. i - 1 \in KeptPositions(c)
      BY <1>1, <2>1, <2>2, KeptPosition
  <2> QED
      BY <2>2, <2>3 DEF Run
<1>3. ASSUME c[e] \notin WordChar PROVE FALSE
  <2>1. e <= Len(c) - 1 /\ c[e + 1] \in WordChar
      BY <1>1, <1>3, KeptPosition
  <2>2. e + 1 \in 1..Len(c) /\ e < Len(c)
      BY <1>1, <2>1
  <2>3. e + 1 \in KeptPositions(c)
      BY <1>1, <2>1, <2>2, KeptPosition
  <2> QED
      BY <2>2, <2>3 DEF Run
<1> QED
    BY <1>2, <1>3

\* All positions chosen: one run.
LEMMA AllOfIt1 ==
    ASSUME NEW s \in Seq(Readable), Len(s) > 0, NEW chosen, 1..Len(s) \subseteq chosen
    PROVE  Runs(s, chosen) = <<s>>
<1> DEFINE n == Len(s)
<1>1. n \in Nat /\ 1 \in 1..n /\ 1 \in chosen
    OBVIOUS
<1>2. IsLastOfRun(n, 1, n, chosen)
    BY <1>1 DEF IsLastOfRun
<1>3. LastOfRun(1, n, chosen) = n
    BY <1>1, <1>2, LastOfRunProperties
<1>4. SubSeq(s, 1, n) = s
    BY SubSeqFull
<1>5. RunUnits(s, chosen)[1] = <<s>> /\ RunNexts(s, chosen)[1] = n + 1
    BY <1>1, <1>3, <1>4 DEF RunUnits, RunNexts
<1>6. PICK f \in [1..n + 1 -> Seq(Seq(Readable))] :
          Runs(s, chosen) = f[1] /\ Walks(f, n, RunUnits(s, chosen), RunNexts(s, chosen))
    BY RunsEquation
<1>7. f[1] = <<s>> \o f[n + 1] /\ f[n + 1] = <<>>
    BY <1>1, <1>5, <1>6 DEF Walks
<1>8. <<s>> \in Seq(Seq(Readable))
    OBVIOUS
<1> QED
    BY <1>6, <1>7, <1>8, ConcatEmptySeq

\* appendDotAware's tokens.
LEMMA RunsAreStable ==
    ASSUME NEW c, NEW i, NEW e, Run(c, i, e)
    PROVE  SubSeq(c, i, e) \in Stable
<1> DEFINE x == SubSeq(c, i, e)
           n == e - i + 1
<1>1. /\ c \in Seq(Readable) /\ LowerChunk(c) /\ Len(c) \in Nat
      /\ i \in 1..Len(c) /\ e \in i..Len(c) /\ i..e \subseteq KeptPositions(c)
    BY DEF Run, LowerChunk
<1>2. LowerChunk(x) /\ Len(x) = n /\ \A k \in 1..n : x[k] = c[i + k - 1]
    BY <1>1, PartIsLower
<1>3. x \in Seq(Readable)
    BY <1>2 DEF LowerChunk
<1> HIDE DEF x
<1>4. c[i] \in WordChar /\ c[e] \in WordChar
    BY RunEnds
<1>5. ASSUME NEW k \in 1..n PROVE k \in KeptPositions(x)
  <2>1. i + k - 1 \in i..e /\ i + k - 1 \in 1..Len(c) /\ k \in 1..Len(x)
      BY <1>1, <1>2
  <2>2. x[k] = c[i + k - 1] /\ i + k - 1 \in KeptPositions(c)
      BY <1>1, <1>2, <2>1
  <2>3. CASE x[k] \in WordChar
      BY <1>3, <2>1, <2>3, KeptPosition
  <2>4. CASE x[k] \notin WordChar
    <3>1. /\ c[i + k - 1] = Dot
          /\ c[(i + k - 1) - 1] \in WordChar /\ c[(i + k - 1) + 1] \in WordChar
        BY <1>1, <2>1, <2>2, <2>4, KeptPosition
    <3>2. i + k - 1 # i /\ i + k - 1 # e
        BY <1>4, <2>2, <2>4
    <3>3. k - 1 \in 1..n /\ k + 1 \in 1..n /\ i + (k - 1) - 1 = (i + k - 1) - 1
          /\ i + (k + 1) - 1 = (i + k - 1) + 1 /\ 2 <= k /\ k <= n - 1
        BY <1>1, <2>1, <3>2
    <3>4. x[k - 1] = c[i + (k - 1) - 1] /\ x[k + 1] = c[i + (k + 1) - 1]
        BY <1>2, <3>3
    <3>5. x[k] = Dot /\ 2 <= k /\ k <= Len(x) - 1 /\ x[k - 1] \in WordChar /\ x[k + 1] \in WordChar
        BY <1>2, <2>2, <3>1, <3>3, <3>4
    <3> QED
        BY <1>3, <2>1, <3>5, KeptPosition
  <2> QED
      BY <2>3, <2>4
<1>6. ~IsFlagChunk(x)
  <2>1. 1 \in 1..n /\ i + 1 - 1 = i
      BY <1>1
  <2>2. x[1] = c[i]
      BY <1>2, <2>1
  <2>3. x[1] # Dash
      BY <1>4, <2>2, MarkFacts
  <2> QED
      BY <2>3, FlagFacts DEF Flag
<1>7. Runs(x, KeptPositions(x)) = <<x>>
  <2>1. Len(x) > 0 /\ 1..Len(x) \subseteq KeptPositions(x)
      BY <1>1, <1>2, <1>5
  <2> QED
      BY <1>3, <2>1, AllOfIt1
<1>8. AppendChunk(x) = <<x>>
    BY <1>6, <1>7 DEF AppendChunk
<1>9. LexedFrom(x) = <<x>>
    BY <1>2, <1>8, WholeChunk
<1>10. x \in Stable
    BY <1>3, <1>9 DEF Stable
<1> QED
    BY <1>10 DEF x

LEMMA ChunksAreStable ==
    ASSUME NEW c, LowerChunk(c)
    PROVE  AppendChunk(c) \in Seq(Stable)
<1>0. c \in Seq(Readable) /\ Len(c) \in Nat /\ Len(c) > 0
    BY DEF LowerChunk
<1>1. CASE IsFlagChunk(c)
  <2>1. AppendChunk(c) = <<WithoutTrailingDots(c)>>
      BY <1>1, Zenon DEF AppendChunk
  <2>2. WithoutTrailingDots(c) \in Stable
      BY <1>1, FlagsAreStable
  <2> QED
      BY <2>1, <2>2
<1>2. CASE ~IsFlagChunk(c)
  <2> DEFINE n == Len(c)
             kept == KeptPositions(c)
             unit == RunUnits(c, kept)
             next == RunNexts(c, kept)
             Fresh(i) == i \in kept => (i > 1 => i - 1 \notin kept)
  <2>1. Forward(n, Seq(Readable), unit, next)
      BY <1>0, RunsForward
  <2>2. PICK f \in [1..n + 1 -> Seq(Seq(Readable))] :
            Runs(c, kept) = f[1] /\ Walks(f, n, unit, next)
      BY <1>0, RunsEquation
  <2> HIDE DEF kept
  <2> DEFINE T == {i \in 1..n + 1 : (i \in 1..n => Fresh(i)) => f[i] \in Seq(Stable)}
  <2>3. n + 1 \in T
    <3>1. f[n + 1] = <<>> /\ n + 1 \in 1..n + 1
        BY <1>0, <2>2 DEF Walks
    <3>2. <<>> \in Seq(Stable)
        OBVIOUS
    <3> QED
        BY <3>1, <3>2
  <2>4. ASSUME NEW i \in 1..n, next[i] \in T PROVE i \in T
    <3>0. f[i] = unit[i] \o f[next[i]] /\ i \in 1..n + 1
      <4> HIDE DEF unit, next
      <4>1. f[i] = unit[i] \o f[next[i]]
          BY <2>2 DEF Walks
      <4>2. i \in 1..n + 1
          BY <1>0
      <4> QED
          BY <4>1, <4>2
    <3> SUFFICES ASSUME Fresh(i) PROVE f[i] \in Seq(Stable)
        BY <3>0
    <3>1. CASE i \in kept
      <4> DEFINE e == LastOfRun(i, n, kept)
      <4>1. unit[i] = <<SubSeq(c, i, e)>> /\ next[i] = e + 1
          BY <3>1 DEF RunUnits, RunNexts
      <4>2. e \in i..n /\ i..e \subseteq kept /\ (e < n => e + 1 \notin kept)
          BY <1>0, <3>1, LastOfRunProperties DEF IsLastOfRun
      <4> HIDE DEF e
      <4>3. Run(c, i, e)
          BY <3>1, <4>2 DEF Run, kept
      <4>4. SubSeq(c, i, e) \in Stable
          BY <4>3, RunsAreStable
      <4>5. e + 1 \in 1..n => Fresh(e + 1)
          BY <1>0, <4>2
      <4>6. f[e + 1] \in Seq(Stable)
          BY <2>4, <4>1, <4>5
      <4>7. <<SubSeq(c, i, e)>> \in Seq(Stable)
          BY <4>4
      <4> QED
          BY <3>0, <4>1, <4>6, <4>7, ConcatProperties
    <3>2. CASE i \notin kept
      <4>1. unit[i] = <<>> /\ next[i] = i + 1
          BY <3>2 DEF RunUnits, RunNexts
      <4>2. Fresh(i + 1)
          BY <1>0, <3>2
      <4>3. f[i + 1] \in Seq(Stable)
          BY <2>4, <4>1, <4>2
      <4> QED
          BY <3>0, <4>1, <4>3, ConcatEmptySeq
    <3> QED
        BY <3>1, <3>2
  <2>5. 1..n + 1 \subseteq T
    <3> HIDE DEF T
    <3> QED
        BY <2>1, <2>3, <2>4, WalkInduction
  <2>6. f[1] \in Seq(Stable)
    <3>1. 1 \in T /\ Fresh(1)
        BY <1>0, <2>5
    <3> QED
        BY <3>1
  <2>7. AppendChunk(c) = f[1]
      BY <1>2, <2>2 DEF AppendChunk, kept
  <2> QED
      BY <2>6, <2>7
<1> QED
    BY <1>1, <1>2

LEMMA TokensStay == ASSUME NEW s \in Seq(Readable) PROVE LexedFrom(s) \in Seq(Stable)
<1>1. Forward(Len(s), Seq(Readable), Units(s), Nexts(s))
    BY LexForward
<1>2. ASSUME NEW i \in 1..Len(s) PROVE Unit(s, i) \in Seq(Stable)
  <2>1. CASE s[i] \notin ChunkChar
    <3>1. Unit(s, i) = <<>>
        BY <2>1 DEF Unit
    <3> QED
        BY <3>1
  <2>2. CASE s[i] \in ChunkChar /\ IsRedirection(s, i)
    <3>1. Unit(s, i) = <<SubSeq(s, i, RedirectionEnd(s, i))>>
        BY <2>2 DEF Unit
    <3>2. SubSeq(s, i, RedirectionEnd(s, i)) \in Stable
        BY <2>2, RedirectionsAreStable
    <3> QED
        BY <3>1, <3>2
  <2>3. CASE s[i] \in ChunkChar /\ ~IsRedirection(s, i)
    <3>1. Unit(s, i) = AppendChunk(ChunkAt(s, i))
        BY <2>3 DEF Unit
    <3> QED
        BY <2>3, <3>1, ChunksAreLower, ChunksAreStable
  <2> QED
      BY <2>1, <2>2, <2>3
<1>3. Forward(Len(s), Stable, Units(s), Nexts(s))
    BY <1>1, <1>2 DEF Forward, Units
<1>4. \A i \in 1..Len(s) + 1 : Lex(s)[i] \in Seq(Stable)
    BY <1>3, LexProperties, WalkStays
<1>5. 1 \in 1..Len(s) + 1
    OBVIOUS
<1> QED
    BY <1>4, <1>5, LexProperties

-----------------------------------------------------------------------------
(* Tokens joined with spaces.                                              *)

\* A space and the token.
Spaced == [t \in Seq(Readable) |-> <<Space>> \o t]

LEMMA SpacedFacts ==
    /\ Spreads(Seq(Readable), Readable, Spaced)
    /\ \A t \in Seq(Readable) :
          Spaced[t] = <<Space>> \o t /\ Spaced[t] \in Seq(Readable)
<1>1. <<Space>> \in Seq(Readable)
    BY SpaceFacts
<1>2. \A t \in Seq(Readable) : <<Space>> \o t \in Seq(Readable)
    BY <1>1, ConcatProperties
<1>3. PICK V : V = Seq(Readable)
    OBVIOUS
<1>4. Spaced \in [V -> Seq(Readable)]
    BY <1>2, <1>3 DEF Spaced
<1>5. Spreads(V, Readable, Spaced)
    BY <1>4, SpreadConcat
<1>6. \A t \in Seq(Readable) : Spaced[t] = <<Space>> \o t
    BY DEF Spaced
<1> QED
    BY <1>2, <1>3, <1>5, <1>6

LEMMA SpacedConcat ==
    /\ Spread(Spaced, <<>>) = <<>>
    /\ \A t \in Seq(Readable) : Spread(Spaced, <<t>>) = <<Space>> \o t
    /\ \A s \in Seq(Seq(Readable)) : Spread(Spaced, s) \in Seq(Readable)
    /\ \A s, t \in Seq(Seq(Readable)) : Spread(Spaced, s \o t) = Spread(Spaced, s) \o Spread(Spaced, t)
    BY SpacedFacts, Zenon DEF Spreads

LEMMA JoinedSpread ==
    ASSUME NEW tokens \in Seq(Seq(Readable))
    PROVE  Joined(tokens) = IF tokens = <<>> THEN <<>> ELSE Tail(Spread(Spaced, tokens))
<1>1. \A i \in DOMAIN tokens : Spaced[tokens[i]] = <<" ">> \o tokens[i]
  <2> TAKE i \in DOMAIN tokens
  <2>1. tokens[i] \in Seq(Readable)
      OBVIOUS
  <2> QED
      BY <2>1, Zenon DEF Spaced, Space
<1>2. [i \in DOMAIN tokens |-> <<" ">> \o tokens[i]] = [i \in DOMAIN tokens |-> Spaced[tokens[i]]]
    BY <1>1, Zenon
<1> QED
    BY <1>2, Zenon DEF Joined, Spread

\* A space between two texts.
LEMMA SpaceBetween ==
    ASSUME NEW u \in Seq(Readable), NEW v \in Seq(Readable)
    PROVE  /\ u \o (<<Space>> \o v) \in Seq(Readable)
           /\ LexedFrom(u \o (<<Space>> \o v)) = LexedFrom(u) \o LexedFrom(v)
<1> DEFINE p == <<Space>>
           r == p \o v
           s == u \o r
<1>0. Space \in Readable
    BY SpaceFacts
<1>1. p \in Seq(Readable) /\ Len(p) = 1 /\ p[1] = Space
    BY <1>0
<1> HIDE DEF p
<1>2. /\ r \in Seq(Readable) /\ Len(r) = 1 + Len(v)
      /\ \A k \in 1..1 + Len(v) : r[k] = IF k <= 1 THEN p[k] ELSE v[k - 1]
  <2>1. /\ r \in Seq(Readable) /\ Len(r) = Len(p) + Len(v)
        /\ \A k \in 1..Len(p) + Len(v) : r[k] = IF k <= Len(p) THEN p[k] ELSE v[k - Len(p)]
      BY <1>1, ConcatProperties
  <2> QED
      BY <1>1, <2>1
<1> HIDE DEF r
<1>3. /\ s \in Seq(Readable) /\ Len(s) = Len(u) + Len(r)
      /\ \A k \in 1..Len(u) + Len(r) : s[k] = IF k <= Len(u) THEN u[k] ELSE r[k - Len(u)]
    BY <1>2
<1> HIDE DEF s
<1>4. Len(u) \in Nat /\ Len(v) \in Nat /\ Len(s) = Len(u) + 1 + Len(v)
    BY <1>2, <1>3
<1>5. \A i \in 1..Len(u) : s[i] = u[i]
    BY <1>2, <1>3, <1>4
<1>6. s[Len(u) + 1] = Space
  <2>1. Len(u) + 1 \in 1..Len(u) + Len(r) /\ ~(Len(u) + 1 <= Len(u)) /\ (Len(u) + 1) - Len(u) = 1
        /\ 1 \in 1..1 + Len(v) /\ 1 <= 1
      BY <1>2, <1>4
  <2>2. s[Len(u) + 1] = r[1]
      BY <1>3, <2>1
  <2>3. r[1] = p[1]
      BY <1>2, <2>1
  <2> QED
      BY <1>1, <2>2, <2>3
<1>7. ASSUME NEW i \in 1..Len(v) PROVE s[Len(u) + 1 + i] = v[i]
  <2>1. Len(u) + 1 + i \in 1..Len(u) + Len(r) /\ ~(Len(u) + 1 + i <= Len(u))
        /\ (Len(u) + 1 + i) - Len(u) = 1 + i /\ 1 + i \in 1..1 + Len(v) /\ ~(1 + i <= 1)
        /\ (1 + i) - 1 = i
      BY <1>2, <1>4
  <2>2. s[Len(u) + 1 + i] = r[1 + i]
      BY <1>3, <2>1
  <2>3. r[1 + i] = v[i]
      BY <1>2, <2>1
  <2> QED
      BY <2>2, <2>3
<1>8. LexedFrom(s) = LexedFrom(u) \o LexedFrom(v)
    BY <1>3, <1>4, <1>5, <1>6, <1>7, SpaceSplits
<1> QED
    BY <1>3, <1>8 DEF s, r, p

LEMMA NothingLexed == LexedFrom(<<>>) = <<>>
<1>1. PICK t \in Seq(Readable) : t = <<>>
  <2>1. <<>> \in Seq(Readable)
      OBVIOUS
  <2> QED
      BY <2>1, Zenon
<1>2. Len(t) = 0
    BY <1>1
<1>3. LexedFrom(t) = Lex(t)[1] /\ Lex(t)[Len(t) + 1] = <<>>
    BY LexProperties
<1> QED
    BY <1>1, <1>2, <1>3

LEMMA SpacedAreStable ==
    ASSUME NEW tokens \in Seq(Stable)
    PROVE  LexedFrom(Spread(Spaced, tokens)) = tokens
<1> DEFINE T == {s \in Seq(Stable) : LexedFrom(Spread(Spaced, s)) = s}
<1>0. Seq(Stable) \subseteq Seq(Seq(Readable))
    BY DEF Stable
<1>1. <<>> \in T
    BY SpacedConcat, NothingLexed
<1>2. ASSUME NEW s \in Seq(Stable), NEW t \in Stable, s \in T PROVE Append(s, t) \in T
  <2>1. t \in Seq(Readable) /\ LexedFrom(t) = <<t>>
      BY DEF Stable
  <2>2. s \in Seq(Seq(Readable)) /\ <<t>> \in Seq(Seq(Readable)) /\ Append(s, t) \in Seq(Stable)
      BY <1>0, <2>1
  <2>3. Append(s, t) = s \o <<t>>
      BY AppendIsConcat
  <2>4. Spread(Spaced, s \o <<t>>) = Spread(Spaced, s) \o Spread(Spaced, <<t>>)
        /\ Spread(Spaced, <<t>>) = <<Space>> \o t /\ Spread(Spaced, s) \in Seq(Readable)
      BY <2>1, <2>2, SpacedConcat, Zenon
  <2>5. LexedFrom(Spread(Spaced, s) \o (<<Space>> \o t)) = LexedFrom(Spread(Spaced, s)) \o LexedFrom(t)
      BY <2>1, <2>4, SpaceBetween
  <2>6. LexedFrom(Spread(Spaced, s)) = s
      BY <1>2
  <2> QED
      BY <2>1, <2>2, <2>3, <2>4, <2>5, <2>6
<1>3. Seq(Stable) \subseteq T
  <2> HIDE DEF T
  <2> QED
      BY <1>1, <1>2, SequencesGrow
<1> QED
    BY <1>3

LEMMA Regrouped ==
    ASSUME NEW p \in Seq(Readable), NEW q \in Seq(Readable), NEW r \in Seq(Readable)
    PROVE  (p \o q) \o r = p \o (q \o r)
    BY ConcatAssociative

\* The first token stands alone, each of the others behind a space.
LEMMA JoinedFirst ==
    ASSUME NEW tokens \in Seq(Seq(Readable)), tokens # <<>>
    PROVE  /\ tokens = <<tokens[1]>> \o Tail(tokens)
           /\ tokens[1] \in Seq(Readable) /\ Tail(tokens) \in Seq(Seq(Readable))
           /\ Spread(Spaced, tokens) = <<Space>> \o Joined(tokens)
           /\ Joined(tokens) = tokens[1] \o Spread(Spaced, Tail(tokens))
           /\ Joined(tokens) \in Seq(Readable)
<1> DEFINE h == tokens[1]
           rest == Tail(tokens)
           s == Spread(Spaced, tokens)
           more == h \o Spread(Spaced, rest)
<1>1. tokens = <<h>> \o rest /\ h \in Seq(Readable) /\ rest \in Seq(Seq(Readable))
    BY HeadFirst
<1> HIDE DEF rest, h
<1>2. <<h>> \in Seq(Seq(Readable)) /\ <<Space>> \in Seq(Readable)
    BY <1>1, SpaceFacts
<1>3. Spread(Spaced, <<h>> \o rest) = Spread(Spaced, <<h>>) \o Spread(Spaced, rest)
      /\ Spread(Spaced, <<h>>) = <<Space>> \o h /\ Spread(Spaced, rest) \in Seq(Readable)
    BY <1>1, <1>2, SpacedConcat, Zenon
<1>4. PICK p \in Seq(Readable), q \in Seq(Readable), r \in Seq(Readable) :
          p = <<Space>> /\ q = h /\ r = Spread(Spaced, rest)
    BY <1>1, <1>2, <1>3
<1>5. (p \o q) \o r = p \o (q \o r)
    BY Regrouped
<1>6. s = <<Space>> \o more
    BY <1>1, <1>3, <1>4, <1>5
<1>7. more \in Seq(Readable)
    BY <1>4, ConcatProperties
<1> HIDE DEF more
<1>8. Tail(<<Space>> \o more) = more
  <2> DEFINE x == <<Space>> \o more
  <2>1. <<Space>> \in Seq(Readable) /\ Len(<<Space>>) = 1
      BY <1>2
  <2>2. x \in Seq(Readable) /\ Len(x) = 1 + Len(more)
        /\ \A k \in 1..Len(more) : x[k + 1] = more[k]
      BY <1>7, <2>1
  <2> HIDE DEF x
  <2>3. Tail(x) \in Seq(Readable) /\ Len(Tail(x)) = Len(more)
        /\ \A k \in 1..Len(more) : Tail(x)[k] = x[k + 1]
      BY <1>7, <2>2
  <2>4. Tail(x) = more
      BY <1>7, <2>2, <2>3, SeqEqual
  <2> QED
      BY <2>4 DEF x
<1>9. Joined(tokens) = more
    BY <1>6, <1>8, JoinedSpread
<1> QED
    BY <1>1, <1>6, <1>7, <1>9, Zenon DEF h, rest, more

\* The space before the first token adds nothing.
LEMMA JoinedAreStable ==
    ASSUME NEW tokens \in Seq(Stable)
    PROVE  LexedFrom(Joined(tokens)) = tokens
<1>0. tokens \in Seq(Seq(Readable))
    BY DEF Stable
<1>1. CASE tokens = <<>>
    BY <1>0, <1>1, JoinedSpread, NothingLexed
<1>2. CASE tokens # <<>>
  <2> DEFINE s == Spread(Spaced, tokens)
             more == Joined(tokens)
  <2>1. s = <<Space>> \o more /\ more \in Seq(Readable)
      BY <1>0, <1>2, JoinedFirst
  <2> HIDE DEF more
  <2>2. LexedFrom(<<>> \o (<<Space>> \o more)) = LexedFrom(<<>>) \o LexedFrom(more)
    <3>1. <<>> \in Seq(Readable)
        OBVIOUS
    <3> QED
        BY <2>1, <3>1, SpaceBetween
  <2>3. <<>> \o (<<Space>> \o more) = s
    <3>1. s \in Seq(Readable)
        BY <1>0, SpacedConcat, Zenon
    <3> QED
        BY <2>1, <3>1, ConcatEmptySeq
  <2>4. <<>> \o LexedFrom(more) = LexedFrom(more)
      BY <2>1, LexProperties, ConcatEmptySeq
  <2>5. LexedFrom(s) = tokens
      BY SpacedAreStable
  <2> QED
      BY <2>2, <2>3, <2>4, <2>5, NothingLexed DEF more
<1> QED
    BY <1>1, <1>2

\* What the tokenizer wrote it reads again as it is (tokenize, as the lint, the
\* aliases and the concepts use it on joined tokens).
THEOREM TokensStayTokens == QuerySpec => []TokensAreStable
<1>1. QueryInv => TokensAreStable
  <2> SUFFICES ASSUME QueryInv, stage = "done" PROVE LexedFrom(Joined(output)) = output
      BY DEF TokensAreStable
  <2>1. output = LexedFrom(text) /\ text \in Seq(Readable)
      BY QueryTokens DEF QueryInv, Progress
  <2> QED
      BY <2>1, TokensStay, JoinedAreStable
<1> QED
    BY <1>1, QueryInvariant, PTL
-----------------------------------------------------------------------------
(* Known commands.                                                         *)

\* What the constructor of QueryProcessor makes of a token of a command is the
\* token: taken apart once more it is in one piece.
LEMMA TakenApartOnce == KnownCommands = IndexCommands /\ IndexCommands \subseteq Stable
<1>1. ASSUME NEW c \in IndexCommands
      PROVE  c \in Stable /\ LexedFrom(c) # <<>> /\ Joined(LexedFrom(c)) = c
  <2>1. PICK command \in CommandTexts : c \in ToSet(LexedFrom(command))
      BY DEF IndexCommands, CommandTokens
  <2>2. LexedFrom(command) \in Seq(Stable)
      BY TextAssumption, TokensStay
  <2>3. c \in Stable
      BY <2>1, <2>2 DEF ToSet
  <2>4. LexedFrom(c) = <<c>> /\ c \in Seq(Readable)
      BY <2>3 DEF Stable
  <2>5. <<c>> \in Seq(Seq(Readable)) /\ <<c>> # <<>> /\ <<c>>[1] = c /\ Tail(<<c>>) = <<>>
      BY <2>4
  <2>6. Joined(<<c>>) = c \o Spread(Spaced, <<>>)
      BY <2>5, JoinedFirst, Zenon
  <2>7. c \o Spread(Spaced, <<>>) = c
      BY <2>4, SpacedConcat, ConcatEmptySeq
  <2> QED
      BY <2>3, <2>4, <2>5, <2>6, <2>7
<1> QED
    BY <1>1, Zenon DEF KnownCommands

\* A text that starts with the first of its joined tokens.
LEMMA StartsWithFirst ==
    ASSUME NEW tokens \in Seq(Seq(Readable)), tokens # <<>>, tokens[1] \in known_commands
    PROVE  StartsWithCommand(Joined(tokens))
<1> DEFINE rest == Tail(tokens)
<1>1. PICK h \in Seq(Readable), w \in Seq(Readable) :
          /\ h = tokens[1] /\ w = Spread(Spaced, rest) /\ Joined(tokens) = h \o w
          /\ rest \in Seq(Seq(Readable))
  <2>1. tokens[1] \in Seq(Readable) /\ rest \in Seq(Seq(Readable))
        /\ Joined(tokens) = tokens[1] \o Spread(Spaced, rest)
      BY JoinedFirst
  <2>2. Spread(Spaced, rest) \in Seq(Readable)
      BY <2>1, SpacedConcat, Zenon
  <2> QED
      BY <2>1, <2>2
<1> HIDE DEF rest
<1>2. Len(w) > 0 => w[1] = Space
  <2>1. CASE rest = <<>>
      BY <1>1, <2>1, SpacedConcat
  <2>2. CASE rest # <<>>
    <3>1. PICK x \in Seq(Readable) : w = <<Space>> \o x
        BY <1>1, <2>2, JoinedFirst
    <3>2. <<Space>> \in Seq(Readable) /\ Len(<<Space>>) = 1
        BY SpaceFacts
    <3> QED
        BY <3>1, <3>2
  <2> QED
      BY <2>1, <2>2
<1> DEFINE j == h \o w
<1>3. /\ j \in Seq(Readable) /\ Len(j) = Len(h) + Len(w)
      /\ Len(h) \in Nat /\ Len(w) \in Nat
      /\ \A i \in 1..Len(h) : j[i] = h[i]
      /\ Len(w) > 0 => j[Len(h) + 1] = w[1]
    OBVIOUS
<1> HIDE DEF j
<1>4. IsPrefix(h, j)
  <2>1. Len(h) <= Len(j)
      BY <1>3
  <2>2. /\ SubSeq(h, 1, Len(h)) \in Seq(Readable) /\ SubSeq(j, 1, Len(h)) \in Seq(Readable)
        /\ Len(SubSeq(h, 1, Len(h))) = Len(h) /\ Len(SubSeq(j, 1, Len(h))) = Len(h)
        /\ \A i \in 1..Len(h) : /\ SubSeq(h, 1, Len(h))[i] = h[i]
                                /\ SubSeq(j, 1, Len(h))[i] = j[i]
      BY <1>3, <2>1
  <2>3. SubSeq(h, 1, Len(h)) = SubSeq(j, 1, Len(h))
      BY <1>3, <2>2, SeqEqual
  <2> QED
      BY <2>1, <2>3 DEF IsPrefix
<1>5. Len(j) > Len(h) => j[Len(h) + 1] = Space
    BY <1>2, <1>3
<1>6. StartsWithCommand(j)
    BY <1>1, <1>4, <1>5 DEF StartsWithCommand, Space
<1> QED
    BY <1>1, <1>6 DEF j

\* Nothing but a whole token in front is taken for a command.
LEMMA FirstIsCommand ==
    ASSUME NEW tokens \in Seq(Stable), known_commands = KnownCommands,
           StartsWithCommand(Joined(tokens))
    PROVE  tokens # <<>> /\ tokens[1] \in IndexCommands
<1> DEFINE j == Joined(tokens)
<1>1. j \in Seq(Readable)
  <2>1. tokens \in Seq(Seq(Readable))
      BY DEF Stable
  <2>2. CASE tokens = <<>>
    <3>1. <<>> \in Seq(Readable)
        OBVIOUS
    <3> QED
        BY <2>1, <2>2, <3>1, JoinedSpread
  <2>3. CASE tokens # <<>>
      BY <2>1, <2>3, JoinedFirst
  <2> QED
      BY <2>2, <2>3
<1>2. LexedFrom(j) = tokens
    BY JoinedAreStable
<1> HIDE DEF j
<1>3. PICK command \in known_commands :
          /\ IsPrefix(command, j)
          /\ Len(j) > Len(command) => j[Len(command) + 1] = Space
    BY DEF StartsWithCommand, Space, j
<1>4. command \in IndexCommands /\ command \in Seq(Readable) /\ LexedFrom(command) = <<command>>
    BY <1>3, TakenApartOnce DEF Stable
<1>5. <<command>> # <<>> /\ <<command>>[1] = command
    OBVIOUS
<1>6. Window(command, j, 0)
    BY <1>1, <1>3, <1>4, CommandWindow
<1>7. LexedFrom(j) # <<>> /\ LexedFrom(j)[1] = command
    BY <1>4, <1>5, <1>6, CommandComesFirst
<1> QED
    BY <1>2, <1>4, <1>7

\* Dropping stopwords leaves tokens.
LEMMA SignificantStay ==
    ASSUME NEW tokens \in Seq(Stable)
    PROVE  Significant(tokens) \in Seq(Stable)
<1> DEFINE signal == [t \in Stable |-> IF t \in Stopwords THEN <<>> ELSE <<t>>]
<1>1. \A t \in Stable : (IF t \in Stopwords THEN <<>> ELSE <<t>>) \in Seq(Stable)
    OBVIOUS
<1>2. signal \in [Stable -> Seq(Stable)]
    BY <1>1
<1>3. \A i \in DOMAIN tokens :
          signal[tokens[i]] = IF tokens[i] \in Stopwords THEN <<>> ELSE <<tokens[i]>>
    OBVIOUS
<1>4. [i \in DOMAIN tokens |-> IF tokens[i] \in Stopwords THEN <<>> ELSE <<tokens[i]>>]
          = [i \in DOMAIN tokens |-> signal[tokens[i]]]
    BY <1>3, Zenon
<1> HIDE DEF signal
<1>5. Significant(tokens) = Spread(signal, tokens)
    BY <1>4, Zenon DEF Significant, Spread
<1>6. Spreads(Stable, Stable, signal)
    BY <1>2, SpreadConcat
<1> QED
    BY <1>5, <1>6, Zenon DEF Spreads

\* A query that starts with a command of an entry is of type command, and
\* without shell syntax only one whose first significant token is one of a
\* command's (detectType, with the known_commands_ the constructor has made of
\* the tokens of the index).
THEOREM CommandsAreKnown == QuerySpec => []CommandsAreRecognized
<1>1. QueryInv => CommandsAreRecognized
  <2> SUFFICES ASSUME QueryInv, stage = "done" PROVE CommandsAreRecognized
      BY DEF CommandsAreRecognized
  <2>1. text \in Seq(Readable) /\ output = LexedFrom(text) /\ context.type = DetectType(output)
        /\ known_commands = KnownCommands
      BY QueryTokens DEF QueryInv, Progress
  <2>2. ASSUME NEW command \in CommandTexts,
               IsPrefix(command, text),
               Len(text) > Len(command) => text[Len(command) + 1] = Space,
               LexedFrom(command) # <<>>, Head(LexedFrom(command)) \notin Stopwords,
               ~IsQuestion(output)
        PROVE  context.type = "command"
    <3>1. command \in Seq(Readable)
        BY TextAssumption
    <3>2. Window(command, text, 0)
        BY <2>1, <2>2, <3>1, CommandWindow
    <3>3. output # <<>> /\ output[1] = LexedFrom(command)[1] /\ output \in Seq(Seq(Readable))
        BY <2>1, <2>2, <3>2, CommandComesFirst, LexProperties
    <3>4. LexedFrom(command) \in Seq(Seq(Readable))
          /\ Head(LexedFrom(command)) = LexedFrom(command)[1]
        BY <2>2, <3>1, LexProperties, HeadFirst
    <3>5. Head(output) = output[1] /\ output[1] \notin Stopwords
        BY <2>2, <3>3, <3>4, HeadFirst
    <3>6. output[1] \in known_commands
      <4>1. 1 \in DOMAIN LexedFrom(command)
          BY <2>2, <3>4, EmptySeq
      <4>2. output[1] \in ToSet(LexedFrom(command))
          BY <3>3, <4>1 DEF ToSet
      <4> QED
          BY <2>1, <4>2, TakenApartOnce DEF IndexCommands, CommandTokens
    <3>7. Significant(output) # <<>> /\ Head(Significant(output)) = output[1]
        BY <3>3, <3>5, FirstStays
    <3>8. StartsWithCommand(Joined(Significant(output)))
      <4>1. output \in Seq(Stable) /\ Stable \subseteq Seq(Readable)
          BY <2>1, TokensStay DEF Stable
      <4>2. Significant(output) \in Seq(Seq(Readable))
          BY <4>1, SignificantStay
      <4>3. Significant(output)[1] \in known_commands
          BY <3>6, <3>7, <4>2, HeadFirst
      <4> QED
          BY <3>7, <4>2, <4>3, StartsWithFirst
    <3>9. Head(output) # Why /\ Head(output) # How /\ Head(output) \notin ExplainWords
          /\ ~BeginsWith(output, ExplainPairs) /\ ~BeginsWith(output, HowPairs)
        BY <2>2 DEF IsQuestion, BeginsWith
    <3>10. DetectType(output) = "command"
        BY <3>3, <3>8, <3>9, Zenon DEF DetectType
    <3> QED
        BY <2>1, <3>10
  <2>3. ASSUME context.type = "command",
               ~\E t \in ToSet(Significant(output)) : LooksLikeShellSyntax(t)
        PROVE  \E command \in CommandTexts :
                  Head(Significant(output)) \in ToSet(LexedFrom(command))
    <3>1. StartsWithCommand(Joined(Significant(output)))
        BY <2>1, <2>3 DEF DetectType
    <3>2. Significant(output) \in Seq(Stable)
        BY <2>1, TokensStay, SignificantStay
    <3>3. Significant(output) # <<>> /\ Significant(output)[1] \in IndexCommands
        BY <2>1, <3>1, <3>2, FirstIsCommand
    <3>4. Head(Significant(output)) = Significant(output)[1]
        BY <3>2, <3>3, HeadFirst
    <3> QED
        BY <3>3, <3>4 DEF IndexCommands, CommandTokens
  <2> QED
      BY <2>2, <2>3 DEF CommandsAreRecognized, Space
<1> QED
    BY <1>1, QueryInvariant, PTL

=============================================================================
