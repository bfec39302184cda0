--------------------------- MODULE Rendering_proofs ---------------------------
(***************************************************************************)
(* Proofs about what is printed.                                           *)
(*                                                                         *)
(* The two passes over content.md: the rendering keeps, line by line, that *)
(* what it has hidden are pairs of matching fence lines; the lint's state  *)
(* before each line is a function of the document, and at the end the two  *)
(* are compared from the first rendered line to the last.                  *)
(*                                                                         *)
(* The strings of the reports, for all bytes: decodeUtf8 finds exactly the *)
(* characters of UTF-8; what escapeJson has written reads, at every byte,  *)
(* as what it has read means; and humanSafe tears no character.            *)
(***************************************************************************)
EXTENDS Markdown, JsonText, Phrases_proofs

-----------------------------------------------------------------------------
(* The lines of a sequence of blocks, one after the other.                 *)

Ascends(s) == \A i, j \in DOMAIN s : i < j => s[i] < s[j]

\* Blocks in ascending order of what they hold.
InBlocks(seqs) ==
    /\ \A k \in DOMAIN seqs : Ascends(seqs[k])
    /\ \A k, l \in DOMAIN seqs : k < l =>
        \A i \in DOMAIN seqs[k], j \in DOMAIN seqs[l] : seqs[k][i] < seqs[l][j]

\* One ascending sequence after another.
LEMMA ConcatenationAscends ==
    ASSUME NEW s \in Seq(Nat), NEW t \in Seq(Nat), Ascends(s), Ascends(t),
           \A i \in DOMAIN s, j \in DOMAIN t : s[i] < t[j]
    PROVE  /\ s \o t \in Seq(Nat) /\ Ascends(s \o t)
           /\ \A i \in DOMAIN (s \o t) :
                \/ \E j \in DOMAIN s : (s \o t)[i] = s[j]
                \/ \E j \in DOMAIN t : (s \o t)[i] = t[j]
<1>1. /\ s \o t \in Seq(Nat) /\ Len(s) \in Nat /\ Len(t) \in Nat
      /\ Len(s \o t) = Len(s) + Len(t)
      /\ DOMAIN s = 1..Len(s) /\ DOMAIN t = 1..Len(t)
      /\ DOMAIN (s \o t) = 1..(Len(s) + Len(t))
      /\ \A i \in 1..(Len(s) + Len(t)) :
            (s \o t)[i] = IF i <= Len(s) THEN s[i] ELSE t[i - Len(s)]
    OBVIOUS
<1> DEFINE both == s \o t
           m == Len(s)
           n == Len(t)
<1> HIDE DEF both, m, n
<1>2. /\ m \in Nat /\ n \in Nat /\ DOMAIN s = 1..m /\ DOMAIN t = 1..n /\ DOMAIN both = 1..(m + n)
      /\ \A i \in 1..(m + n) : both[i] = IF i <= m THEN s[i] ELSE t[i - m]
    BY <1>1 DEF both, m, n
<1>3. \A i \in 1..(m + n) : i <= m => i \in DOMAIN s
    BY <1>2
<1>4. \A i \in 1..(m + n) : ~(i <= m) => i - m \in DOMAIN t
    BY <1>2
<1>5. \A i \in DOMAIN both :
          \/ \E j \in DOMAIN s : both[i] = s[j]
          \/ \E j \in DOMAIN t : both[i] = t[j]
    BY <1>2, <1>3, <1>4
<1>6. Ascends(both)
  <2> SUFFICES ASSUME NEW i \in DOMAIN both, NEW j \in DOMAIN both, i < j
               PROVE  both[i] < both[j]
      BY DEF Ascends
  <2>1. i \in 1..(m + n) /\ j \in 1..(m + n)
      BY <1>2
  <2>2. CASE j <= m
    <3>1. i <= m /\ i \in DOMAIN s /\ j \in DOMAIN s
        BY <1>2, <1>3, <2>1, <2>2
    <3> QED
        BY <1>2, <2>1, <2>2, <3>1 DEF Ascends
  <2>3. CASE i <= m /\ ~(j <= m)
      BY <1>2, <1>3, <1>4, <2>1, <2>3
  <2>4. CASE ~(i <= m)
    <3>1. ~(j <= m) /\ i - m \in DOMAIN t /\ j - m \in DOMAIN t /\ i - m < j - m
        BY <1>2, <1>4, <2>1, <2>4
    <3> QED
        BY <1>2, <2>1, <2>4, <3>1 DEF Ascends
  <2> QED
      BY <2>2, <2>3, <2>4
<1> QED
    BY <1>1, <1>5, <1>6 DEF both

\* The equation of FlattenSeq has a solution.
LEMMA FlattenEquation ==
    ASSUME NEW seqs, NEW N \in Nat \ {0}, N = Len(seqs)
    PROVE  \E f : /\ FlattenSeq(seqs) = f[N]
                  /\ \A i \in 1..N : f[i] = IF i = 1 THEN seqs[i] ELSE f[i - 1] \o seqs[i]
<1> DEFINE next(f, i) == IF i = 1 THEN seqs[i] ELSE f[i - 1] \o seqs[i]
           solves(f, n) == \A i \in 1..n : f[i] = next(f, i)
           S == {n \in 0..N : ~ \E f : solves(f, n)}
           flat == CHOOSE f : f = [i \in 1..N |-> next(f, i)]
<1>0. \A f, g, i : (i # 1 => g[i - 1] = f[i - 1]) => next(g, i) = next(f, i)
    OBVIOUS
<1> HIDE DEF next
<1>1. \E f : solves(f, N)
  <2> SUFFICES ASSUME ~ \E f : solves(f, N) PROVE FALSE
      OBVIOUS
  <2>1. PICK m \in S : \A n \in S : m <= n
    <3>1. S \in SUBSET Nat /\ S # {}
        OBVIOUS
    <3> HIDE DEF S
    <3> QED
        BY <3>1, LeastNumber
  <2>2. m \in 0..N /\ ~ \E f : solves(f, m)
      OBVIOUS
  <2>3. m # 0
    <3>1. solves(seqs, 0)
        OBVIOUS
    <3> QED
        BY <2>2, <3>1
  <2>4. m \in 1..N /\ m - 1 \in 0..N /\ m \in Nat
      BY <2>2, <2>3
  <2>5. PICK f : solves(f, m - 1)
    <3>1. m - 1 \notin S
      <4> HIDE DEF S
      <4> QED
          BY <2>1, <2>4
    <3> QED
        BY <2>4, <3>1
  <2> DEFINE g == [i \in 1..m |-> IF i = m THEN next(f, m) ELSE f[i]]
  <2>6. \A i \in 1..m : g[i] = IF i = m THEN next(f, m) ELSE f[i]
      OBVIOUS
  <2> HIDE DEF g
  <2>7. \A i \in 1..m : next(g, i) = next(f, i)
    <3> TAKE i \in 1..m
    <3>1. i # 1 => g[i - 1] = f[i - 1]
        BY <2>4, <2>6
    <3> QED
        BY <3>1, <1>0
  <2>8. solves(g, m)
    <3> TAKE i \in 1..m
    <3>1. i # m => i \in 1..(m - 1)
        BY <2>4
    <3> QED
        BY <2>5, <2>6, <2>7, <3>1
  <2> QED
      BY <2>2, <2>8
<1>2. FlattenSeq(seqs) = flat[N]
  <2>1. N # 0
      OBVIOUS
  <2> QED
      BY <2>1, Zenon DEF FlattenSeq, next
<1>3. PICK f : solves(f, N)
    BY <1>1
<1> DEFINE h == [i \in 1..N |-> f[i]]
<1>4. \A i \in 1..N : next(h, i) = next(f, i)
  <2> TAKE i \in 1..N
  <2>1. i # 1 => i - 1 \in 1..N
      OBVIOUS
  <2> QED
      BY <2>1, <1>0
<1>5. h = [i \in 1..N |-> next(h, i)]
    BY <1>3, <1>4
<1>6. flat = [i \in 1..N |-> next(flat, i)]
  <2> HIDE DEF h
  <2> QED
      BY <1>5
<1> HIDE DEF flat
<1>7. \A i \in 1..N : flat[i] = next(flat, i)
    BY <1>6
<1> QED
    BY <1>2, <1>7 DEF next

\* What it gives ascends.
LEMMA FlattenAscends ==
    ASSUME NEW seqs \in Seq(Seq(Nat)), InBlocks(seqs)
    PROVE  Ascends(FlattenSeq(seqs))
<1> DEFINE N == Len(seqs)
<1>0. N \in Nat /\ DOMAIN seqs = 1..N /\ \A i \in 1..N : seqs[i] \in Seq(Nat)
    OBVIOUS
<1>1. CASE N = 0
  <2>1. FlattenSeq(seqs) = seqs
      BY <1>1 DEF FlattenSeq
  <2> QED
      BY <1>0, <1>1, <2>1 DEF Ascends
<1>2. CASE N # 0
  <2>0. N \in Nat \ {0}
      BY <1>0, <1>2
  <2>1. PICK f : /\ FlattenSeq(seqs) = f[N]
                 /\ \A i \in 1..N : f[i] = IF i = 1 THEN seqs[i] ELSE f[i - 1] \o seqs[i]
      BY <2>0, FlattenEquation
  <2> DEFINE good(i) ==
                /\ f[i] \in Seq(Nat) /\ Ascends(f[i])
                /\ \A k \in DOMAIN f[i] : \E l \in 1..i : \E j \in DOMAIN seqs[l] :
                      f[i][k] = seqs[l][j]
             S == {i \in 1..N : ~good(i)}
  <2> HIDE DEF N
  <2>2. S = {}
    <3> SUFFICES ASSUME S # {} PROVE FALSE
        OBVIOUS
    <3>1. PICK m \in S : \A n \in S : m <= n
      <4>1. S \in SUBSET Nat
          OBVIOUS
      <4> HIDE DEF S
      <4> QED
          BY <4>1, LeastNumber
    <3>2. m \in 1..N /\ ~good(m) /\ m \in Nat
        OBVIOUS
    <3>3. m \in DOMAIN seqs /\ seqs[m] \in Seq(Nat) /\ Ascends(seqs[m]) /\ m \in 1..m
      <4>1. m \in DOMAIN seqs /\ seqs[m] \in Seq(Nat)
          BY <1>0, <3>2
      <4>2. m \in 1..m
          BY <2>0, <3>2
      <4> QED
          BY <4>1, <4>2 DEF InBlocks
    <3>4. CASE m = 1
      <4>1. f[m] = seqs[m]
          BY <2>1, <3>2, <3>4
      <4> QED
          BY <3>2, <3>3, <4>1
    <3>5. CASE m # 1
      <4> DEFINE s == f[m - 1]
                 t == seqs[m]
      <4>1. m - 1 \in 1..N /\ m - 1 < m
          BY <2>0, <3>2, <3>5
      <4>2. good(m - 1)
        <5>1. m - 1 \notin S
          <6> HIDE DEF S
          <6> QED
              BY <3>1, <3>2, <4>1
        <5> QED
            BY <4>1, <5>1
      <4>3. \A l \in 1..(m - 1) : l \in DOMAIN seqs /\ l < m /\ l \in 1..m
          BY <1>0, <2>0, <3>2
      <4>4. f[m] = s \o t
          BY <2>1, <3>2, <3>5
      <4>5. t \in Seq(Nat) /\ Ascends(t)
          BY <3>3
      <4>6. /\ s \in Seq(Nat) /\ Ascends(s)
            /\ \A k \in DOMAIN s : \E l \in 1..(m - 1) : \E j \in DOMAIN seqs[l] :
                    s[k] = seqs[l][j]
          BY <4>2
      <4> HIDE DEF s
      <4>7. \A i \in DOMAIN s, j \in DOMAIN t : s[i] < t[j]
          BY <3>3, <4>3, <4>6 DEF InBlocks
      <4> HIDE DEF t
      <4> DEFINE both == s \o t
      <4>8. /\ both \in Seq(Nat) /\ Ascends(both)
            /\ \A i \in DOMAIN both :
                \/ \E j \in DOMAIN s : both[i] = s[j]
                \/ \E j \in DOMAIN t : both[i] = t[j]
          BY <4>5, <4>6, <4>7, ConcatenationAscends
      <4> HIDE DEF both
      <4>9. \A k \in DOMAIN both : \E l \in 1..m : \E j \in DOMAIN seqs[l] :
                both[k] = seqs[l][j]
        <5> TAKE k \in DOMAIN both
        <5>1. CASE \E j \in DOMAIN s : both[k] = s[j]
            BY <4>3, <4>6, <5>1
        <5>2. CASE \E j \in DOMAIN t : both[k] = t[j]
            BY <3>3, <5>2 DEF t
        <5> QED
            BY <4>8, <5>1, <5>2
      <4>10. f[m] = both
          BY <4>4 DEF both
      <4> QED
          BY <3>2, <4>8, <4>9, <4>10
    <3> QED
        BY <3>4, <3>5
  <2>3. N \in 1..N
      BY <2>0
  <2>4. good(N)
      BY <2>2, <2>3
  <2> QED
      BY <2>1, <2>4
<1> QED
    BY <1>1, <1>2

-----------------------------------------------------------------------------
(* Blocks of output.                                                       *)

Kinds  == {"paragraph", "code", "indented", "heading", "quote", "item", "blank"}
Blocks == [kind : Kinds, lines : Seq(Nat), kept : Nat]

ShownIn(out, n) == \E k \in DOMAIN out : \E j \in DOMAIN out[k].lines : out[k].lines[j] = n
HasKind(out, kind, n) ==
    \E k \in DOMAIN out : out[k].kind = kind /\ \E j \in DOMAIN out[k].lines : out[k].lines[j] = n

Ordered(out) ==
    /\ \A k \in DOMAIN out : Ascends(out[k].lines)
    /\ \A k, l \in DOMAIN out : k < l =>
        \A i \in DOMAIN out[k].lines, j \in DOMAIN out[l].lines :
            out[k].lines[i] < out[l].lines[j]

\* Blocks after blocks.
LEMMA Extended ==
    ASSUME NEW out \in Seq(Blocks), NEW new \in Seq(Blocks), Ordered(out), Ordered(new),
           \A m, n : ShownIn(out, m) /\ ShownIn(new, n) => m < n
    PROVE  /\ out \o new \in Seq(Blocks) /\ Ordered(out \o new)
           /\ \A n : ShownIn(out \o new, n) <=> ShownIn(out, n) \/ ShownIn(new, n)
           /\ \A kind, n : HasKind(out \o new, kind, n) <=>
                               HasKind(out, kind, n) \/ HasKind(new, kind, n)
<1> DEFINE both == out \o new
           m == Len(out)
           l == Len(new)
<1>1. /\ both \in Seq(Blocks)
      /\ m \in Nat /\ l \in Nat /\ DOMAIN out = 1..m /\ DOMAIN new = 1..l
      /\ DOMAIN both = 1..(m + l)
      /\ \A i \in 1..(m + l) : both[i] = IF i <= m THEN out[i] ELSE new[i - m]
    OBVIOUS
<1> HIDE DEF both, m, l
<1>2. /\ \A i \in 1..(m + l) : i <= m => i \in DOMAIN out
      /\ \A i \in 1..(m + l) : ~(i <= m) => i - m \in DOMAIN new
    BY <1>1
<1>3. /\ \A i \in DOMAIN out : i \in 1..(m + l) /\ i <= m
      /\ \A i \in DOMAIN new : i + m \in 1..(m + l) /\ ~(i + m <= m) /\ (i + m) - m = i
    BY <1>1
<1>4. /\ \A k \in DOMAIN both : \/ \E i \in DOMAIN out : both[k] = out[i]
                                \/ \E i \in DOMAIN new : both[k] = new[i]
      /\ \A i \in DOMAIN out : \E k \in DOMAIN both : both[k] = out[i]
      /\ \A i \in DOMAIN new : \E k \in DOMAIN both : both[k] = new[i]
  <2>1. \A i \in DOMAIN out : both[i] = out[i] /\ i \in DOMAIN both
      BY <1>1, <1>3
  <2>2. \A i \in DOMAIN new : both[i + m] = new[i] /\ i + m \in DOMAIN both
      BY <1>1, <1>3
  <2> QED
      BY <1>1, <1>2, <2>1, <2>2
<1>5. \A n : ShownIn(both, n) <=> ShownIn(out, n) \/ ShownIn(new, n)
    BY <1>4 DEF ShownIn
<1>6. \A kind, n : HasKind(both, kind, n) <=> HasKind(out, kind, n) \/ HasKind(new, kind, n)
    BY <1>4 DEF HasKind
<1>7. Ordered(both)
  <2>1. \A k \in DOMAIN both : Ascends(both[k].lines)
      BY <1>4 DEF Ordered
  <2>2. ASSUME NEW a \in DOMAIN both, NEW b \in DOMAIN both, a < b,
               NEW i \in DOMAIN both[a].lines, NEW j \in DOMAIN both[b].lines
        PROVE  both[a].lines[i] < both[b].lines[j]
    <3>0. a \in 1..(m + l) /\ b \in 1..(m + l)
        BY <1>1
    <3>1. CASE b <= m
      <4>1. a <= m /\ a \in DOMAIN out /\ b \in DOMAIN out
          BY <1>1, <1>2, <2>2, <3>0, <3>1
      <4>2. both[a] = out[a] /\ both[b] = out[b]
          BY <1>1, <3>0, <3>1, <4>1
      <4> QED
          BY <2>2, <4>1, <4>2 DEF Ordered
    <3>2. CASE a <= m /\ ~(b <= m)
      <4>1. a \in DOMAIN out /\ b - m \in DOMAIN new
          BY <1>2, <3>0, <3>2
      <4>2. both[a] = out[a] /\ both[b] = new[b - m]
          BY <1>1, <3>0, <3>2
      <4>3. ShownIn(out, both[a].lines[i]) /\ ShownIn(new, both[b].lines[j])
          BY <4>1, <4>2 DEF ShownIn
      <4> QED
          BY <4>3
    <3>3. CASE ~(a <= m)
      <4>1. ~(b <= m) /\ a - m \in DOMAIN new /\ b - m \in DOMAIN new /\ a - m < b - m
          BY <1>1, <1>2, <2>2, <3>0, <3>3
      <4>2. both[a] = new[a - m] /\ both[b] = new[b - m]
          BY <1>1, <3>0, <3>3, <4>1
      <4> QED
          BY <4>1, <4>2 DEF Ordered
    <3> QED
        BY <3>1, <3>2, <3>3
  <2> QED
      BY <2>1, <2>2 DEF Ordered
<1> QED
    BY <1>1, <1>5, <1>6, <1>7 DEF both

\* No block, and one.
LEMMA OneBlock ==
    ASSUME NEW b \in Blocks, Ascends(b.lines)
    PROVE  /\ <<b>> \in Seq(Blocks) /\ Ordered(<<b>>)
           /\ \A n : ShownIn(<<b>>, n) <=> \E j \in DOMAIN b.lines : b.lines[j] = n
           /\ \A kind, n : HasKind(<<b>>, kind, n) <=>
                  b.kind = kind /\ \E j \in DOMAIN b.lines : b.lines[j] = n
<1> DEFINE s == <<b>>
<1>1. s \in Seq(Blocks) /\ DOMAIN s = {1} /\ s[1] = b
    OBVIOUS
<1> HIDE DEF s
<1>2. Ordered(s)
    BY <1>1 DEF Ordered
<1>3. \A n : ShownIn(s, n) <=> \E j \in DOMAIN b.lines : b.lines[j] = n
    BY <1>1 DEF ShownIn
<1>4. \A kind, n : HasKind(s, kind, n) <=>
          b.kind = kind /\ \E j \in DOMAIN b.lines : b.lines[j] = n
    BY <1>1 DEF HasKind
<1> QED
    BY <1>1, <1>2, <1>3, <1>4 DEF s

\* Nothing written.
LEMMA NoBlock ==
    /\ <<>> \in Seq(Blocks) /\ Ordered(<<>>)
    /\ \A n : ~ShownIn(<<>>, n)
    /\ \A kind, n : ~HasKind(<<>>, kind, n)
<1>1. <<>> \in Seq(Blocks) /\ DOMAIN <<>> = {}
    OBVIOUS
<1> QED
    BY <1>1 DEF Ordered, ShownIn, HasKind

\* One line.
LEMMA OneLine ==
    ASSUME NEW n \in Nat
    PROVE  /\ <<n>> \in Seq(Nat) /\ Ascends(<<n>>)
           /\ \A m : (\E j \in DOMAIN <<n>> : <<n>>[j] = m) <=> m = n
<1> DEFINE s == <<n>>
<1>1. s \in Seq(Nat) /\ DOMAIN s = {1} /\ s[1] = n
    OBVIOUS
<1> HIDE DEF s
<1>2. Ascends(s) /\ \A m : (\E j \in DOMAIN s : s[j] = m) <=> m = n
    BY <1>1 DEF Ascends
<1> QED
    BY <1>1, <1>2 DEF s

-----------------------------------------------------------------------------
(* What has been written when the rendering is at a line.                  *)

Pending(n) == \E j \in DOMAIN paragraph : paragraph[j] = n
Taken(n)   == ShownIn(output, n) \/ Pending(n)
Before     == FirstLine(document)..(at - 1)

Written ==
    /\ output \in Seq(Blocks) /\ paragraph \in Seq(Nat)
    /\ fence \in Markers \cup {None} /\ fence_length \in Nat /\ fence_indent \in Nat
    /\ Ordered(output) /\ Ascends(paragraph)
    /\ \A n : Taken(n) => n \in Before
    /\ \A m, n : ShownIn(output, m) /\ Pending(n) => m < n
    /\ paragraph # <<>> => fence = None

\* What Flush writes: the paragraph, and then the blocks.
LEMMA Flushed ==
    ASSUME Written, at \in Nat, FirstLine(document) \in Nat,
           NEW blocks \in Seq(Blocks), Ordered(blocks),
           \A n : ShownIn(blocks, n) => n = at, Flush(blocks)
    PROVE  /\ output' \in Seq(Blocks) /\ Ordered(output') /\ paragraph' = <<>>
           /\ \A n : ShownIn(output', n) <=> Taken(n) \/ ShownIn(blocks, n)
           /\ \A kind, n : HasKind(output', kind, n) <=>
                \/ HasKind(output, kind, n) \/ HasKind(blocks, kind, n)
                \/ kind = "paragraph" /\ Pending(n)
<1> DEFINE pending == IF paragraph = <<>> THEN <<>> ELSE <<Block("paragraph", paragraph)>>
           flushed == output \o pending
<1>1. output' = flushed \o blocks /\ paragraph' = <<>>
    BY DEF Flush
<1>2. /\ pending \in Seq(Blocks) /\ Ordered(pending)
      /\ \A n : ShownIn(pending, n) <=> Pending(n)
      /\ \A kind, n : HasKind(pending, kind, n) <=> kind = "paragraph" /\ Pending(n)
  <2>1. CASE paragraph = <<>>
    <3>1. \A n : ~Pending(n)
        BY <2>1 DEF Pending
    <3>2. pending = <<>>
        BY <2>1
    <3> HIDE DEF pending
    <3> QED
        BY <3>1, <3>2, NoBlock
  <2>2. CASE paragraph # <<>>
    <3> DEFINE b == Block("paragraph", paragraph)
    <3>1. b \in Blocks /\ b.lines = paragraph /\ b.kind = "paragraph" /\ Ascends(b.lines)
        BY DEF Block, Blocks, Kinds, Written
    <3>2. pending = <<b>>
        BY <2>2
    <3> HIDE DEF b, pending
    <3>3. /\ <<b>> \in Seq(Blocks) /\ Ordered(<<b>>)
          /\ \A n : ShownIn(<<b>>, n) <=> \E j \in DOMAIN b.lines : b.lines[j] = n
          /\ \A kind, n : HasKind(<<b>>, kind, n) <=>
                  b.kind = kind /\ \E j \in DOMAIN b.lines : b.lines[j] = n
        BY <3>1, OneBlock
    <3> QED
        BY <3>1, <3>2, <3>3 DEF Pending
  <2> QED
      BY <2>1, <2>2
<1> HIDE DEF pending
<1>3. /\ flushed \in Seq(Blocks) /\ Ordered(flushed)
      /\ \A n : ShownIn(flushed, n) <=> ShownIn(output, n) \/ ShownIn(pending, n)
      /\ \A kind, n : HasKind(flushed, kind, n) <=>
                         HasKind(output, kind, n) \/ HasKind(pending, kind, n)
  <2>1. /\ output \in Seq(Blocks) /\ Ordered(output)
        /\ \A m, n : ShownIn(output, m) /\ ShownIn(pending, n) => m < n
      BY <1>2 DEF Written
  <2> QED
      BY <1>2, <2>1, Extended
<1> HIDE DEF flushed
<1>4. /\ flushed \o blocks \in Seq(Blocks) /\ Ordered(flushed \o blocks)
      /\ \A n : ShownIn(flushed \o blocks, n) <=> ShownIn(flushed, n) \/ ShownIn(blocks, n)
      /\ \A kind, n : HasKind(flushed \o blocks, kind, n) <=>
                         HasKind(flushed, kind, n) \/ HasKind(blocks, kind, n)
  <2>1. \A m : ShownIn(flushed, m) => m \in Before
      BY <1>2, <1>3 DEF Written, Taken
  <2>2. \A m \in Before : m < at
      BY DEF Before
  <2>3. \A m, n : ShownIn(flushed, m) /\ ShownIn(blocks, n) => m < n
      BY <2>1, <2>2
  <2> QED
      BY <1>3, <2>3, Extended
<1> QED
    BY <1>1, <1>2, <1>3, <1>4 DEF Taken

-----------------------------------------------------------------------------
(* Hidden lines, in pairs.                                                 *)

Opens(H, n)  == Cardinality({m \in H : m < n}) % 2 = 0
Around(H, n) == {m \in H : m < n /\ Opens(H, m) /\ \A h \in H : h <= m \/ h >= n}

\* What is hidden from a line on changes nothing about the lines up to it.
LEMMA PairsStay ==
    ASSUME NEW H \in SUBSET Nat, NEW n \in Nat, NEW k \in Nat, k <= n
    PROVE  /\ Opens(H \cup {n}, k) <=> Opens(H, k)
           /\ Around(H \cup {n}, k) = Around(H, k)
<1> DEFINE G == H \cup {n}
<1>0. \A m : m \in G <=> m \in H \/ m = n
    OBVIOUS
<1>1. G \in SUBSET Nat
    OBVIOUS
<1> HIDE DEF G
<1>2. ASSUME NEW m \in Nat, m <= n PROVE {h \in G : h < m} = {h \in H : h < m}
    BY <1>0, <1>2
<1>3. ASSUME NEW m \in Nat, m <= n PROVE Opens(G, m) <=> Opens(H, m)
    BY <1>2, <1>3 DEF Opens
<1>4. ASSUME NEW m \in Around(G, k) PROVE m \in Around(H, k)
  <2>1. m \in G /\ m < k /\ Opens(G, m) /\ (\A h \in G : h <= m \/ h >= k)
      BY <1>4 DEF Around
  <2>2. m \in Nat /\ m <= n /\ m \in H
      BY <1>0, <1>1, <2>1
  <2>3. Opens(H, m) /\ \A h \in H : h <= m \/ h >= k
      BY <1>0, <1>3, <2>1, <2>2
  <2> QED
      BY <2>1, <2>2, <2>3 DEF Around
<1>5. ASSUME NEW m \in Around(H, k) PROVE m \in Around(G, k)
  <2>1. m \in H /\ m < k /\ Opens(H, m) /\ (\A h \in H : h <= m \/ h >= k)
      BY <1>5 DEF Around
  <2>2. m \in Nat /\ m <= n /\ m \in G
      BY <1>0, <2>1
  <2>3. Opens(G, m)
      BY <1>3, <2>1, <2>2
  <2>4. \A h \in G : h <= m \/ h >= k
      BY <1>0, <2>1
  <2> QED
      BY <2>1, <2>2, <2>3, <2>4 DEF Around
<1> QED
    BY <1>3, <1>4, <1>5 DEF G

\* A line that opens, or closes, when every hidden line is before it.
LEMMA PairsGrow ==
    ASSUME NEW H \in SUBSET Nat, IsFiniteSet(H), NEW n \in Nat, \A h \in H : h < n
    PROVE  /\ Opens(H, n) <=> Cardinality(H) % 2 = 0
           /\ Around(H, n + 1) = Around(H, n)
           /\ IsFiniteSet(H \cup {n})
           /\ Cardinality(H \cup {n}) % 2 = 0 <=> Cardinality(H) % 2 # 0
           /\ Around(H \cup {n}, n + 1) = IF Opens(H, n) THEN {n} ELSE {}
<1> DEFINE G == H \cup {n}
<1>0. \A m : m \in G <=> m \in H \/ m = n
    OBVIOUS
<1>1. Opens(H, n) <=> Cardinality(H) % 2 = 0
  <2>1. {m \in H : m < n} = H
      OBVIOUS
  <2> QED
      BY <2>1 DEF Opens
<1>2. Around(H, n + 1) = Around(H, n)
  <2>1. ASSUME NEW m \in H
        PROVE  /\ m < n + 1 <=> m < n
               /\ (\A h \in H : h <= m \/ h >= n + 1) <=> (\A h \in H : h <= m \/ h >= n)
      OBVIOUS
  <2> QED
      BY <2>1 DEF Around
<1>3. IsFiniteSet(G) /\ Cardinality(G) = Cardinality(H) + 1
  <2>1. n \notin H
      OBVIOUS
  <2> QED
      BY <2>1, FS_AddElement
<1>4. Cardinality(H) \in Nat
    BY FS_CardinalityType
<1>5. Cardinality(G) % 2 = 0 <=> Cardinality(H) % 2 # 0
    BY <1>3, <1>4
<1>6. Opens(G, n) <=> Opens(H, n)
    BY PairsStay
<1> HIDE DEF G
<1>7. \A m : m \in Around(G, n + 1) <=> m = n /\ Opens(H, n)
  <2> TAKE m
  <2>1. ASSUME m \in Around(G, n + 1) PROVE m = n /\ Opens(H, n)
    <3>1. m \in G /\ m < n + 1 /\ Opens(G, m) /\ (\A h \in G : h <= m \/ h >= n + 1)
        BY <2>1 DEF Around
    <3>2. n \in G
        BY <1>0
    <3>3. m = n
        BY <1>0, <3>1, <3>2
    <3> QED
        BY <1>6, <3>1, <3>3
  <2>2. ASSUME m = n, Opens(H, n) PROVE m \in Around(G, n + 1)
    <3>0. n \in G /\ n < n + 1 /\ \A h \in G : h <= n \/ h >= n + 1
      <4>1. \A h \in G : h <= n
        <5> TAKE h \in G
        <5>1. CASE h = n
            BY <5>1
        <5>2. CASE h \in H
            BY <5>2
        <5> QED
            BY <1>0, <5>1, <5>2
      <4> QED
          BY <1>0, <4>1
    <3>1. m \in G /\ m < n + 1 /\ \A h \in G : h <= m \/ h >= n + 1
        BY <2>2, <3>0
    <3> QED
        BY <1>6, <2>2, <3>1 DEF Around
  <2> QED
      BY <2>1, <2>2
<1> QED
    BY <1>1, <1>2, <1>3, <1>5, <1>7 DEF G

-----------------------------------------------------------------------------
(* The invariant of the rendering.                                         *)

DocumentInv ==
    /\ document \in Documents /\ document \in Seq(Lines)
    /\ at \in Nat /\ at <= Len(document) + 1
    /\ FirstLine(document) \in Nat /\ FirstLine(document) <= Len(document) + 1
    /\ FirstLine(document) >= 1

Unstarted ==
    /\ fence = None /\ fence_length = 0 /\ fence_indent = 0
    /\ paragraph = <<>> /\ output = <<>>

\* The lines passed that show up nowhere.
HiddenYet == {n \in Before : ~Taken(n)}

\* The fence the rendering is in is the one that HiddenYet leaves open.
Fenced ==
    /\ (fence = None) <=> Cardinality(HiddenYet) % 2 = 0
    /\ fence = None => Around(HiddenYet, at) = {}
    /\ fence # None => \E m \in HiddenYet :
        /\ Around(HiddenYet, at) = {m}
        /\ fence = document[m].marker /\ fence_length = document[m].run

HiddenRightly(H, n) ==
    IF Opens(H, n) THEN IsFence(document[n])
    ELSE \A m \in Around(H, n) : ClosedBy(document[n], document[m])
ShownRightly(H, n) ==
    /\ HasKind(output, "code", n) <=> Around(H, n) # {}
    /\ \A m \in Around(H, n) : ~ClosedBy(document[n], document[m])
    /\ Around(H, n) = {} => ~IsFence(document[n])

RenderedRightly ==
    \A n \in Before : IF Taken(n) THEN ShownRightly(HiddenYet, n) ELSE HiddenRightly(HiddenYet, n)

Rendered ==
    /\ at >= FirstLine(document)
    /\ Written /\ Fenced /\ RenderedRightly
    /\ Done => at = Len(document) + 1 /\ paragraph = <<>>

RenderInv ==
    /\ DocumentInv
    /\ pc \in {"lint", "render", "done"}
    /\ pc = "lint" => Unstarted /\ at >= 1
    /\ pc # "lint" => Rendered

-----------------------------------------------------------------------------
(* Where it starts.                                                        *)

\* The title and the blank line after it are lines of the document.
LEMMA FirstLineIsNear ==
    ASSUME NEW doc \in Seq(Lines)
    PROVE  FirstLine(doc) \in Nat /\ FirstLine(doc) <= Len(doc) + 1 /\ FirstLine(doc) >= 1
<1>1. doc # <<>> => Len(doc) >= 1
    OBVIOUS
<1> QED
    BY <1>1 DEF FirstLine

\* Initially.
LEMMA InitIsRendered == Init => RenderInv
<1> SUFFICES ASSUME Init PROVE RenderInv
    OBVIOUS
<1>1. document \in Documents /\ document \in Seq(Lines) /\ at = 1 /\ pc = "lint"
    BY DocumentsAssumption DEF Init
<1>2. Unstarted
    BY DEF Init, Unstarted
<1>3. DocumentInv
    BY <1>1, FirstLineIsNear DEF DocumentInv
<1> QED
    BY <1>1, <1>2, <1>3 DEF RenderInv

\* A line of the lint moves nothing of the rendering.
LEMMA LintsOn ==
    ASSUME RenderInv, Linting, NextLine, UNCHANGED <<block, output>>
    PROVE  RenderInv'
<1>1. DocumentInv'
    BY DEF RenderInv, DocumentInv, Linting, NextLine
<1>2. Unstarted'
    BY DEF RenderInv, Unstarted, Linting, block
<1> QED
    BY <1>1, <1>2 DEF RenderInv, Linting, NextLine, DocumentInv

\* The rendering starts with nothing written.
LEMMA StartsRendering ==
    ASSUME RenderInv, LintEnd
    PROVE  RenderInv'
<1>1. /\ pc' = "render" /\ at' = FirstLine(document) /\ document' = document
      /\ output' = <<>> /\ paragraph' = <<>> /\ fence' = None /\ fence_length' = 0
      /\ fence_indent' = 0
    BY DEF LintEnd, RenderInv, Unstarted, block
<1>2. DocumentInv'
    BY <1>1 DEF RenderInv, DocumentInv
<1>3. \A n : ~ShownIn(output, n)' /\ ~Pending(n)'
    BY <1>1, NoBlock DEF Pending, ShownIn
<1>4. Before' = {}
    BY <1>1 DEF Before, RenderInv, DocumentInv
<1>5. Written'
  <2>1. /\ output' \in Seq(Blocks) /\ Ordered(output)' /\ Ascends(paragraph)'
        /\ paragraph' \in Seq(Nat)
      BY <1>1, NoBlock DEF Ascends, Ordered
  <2>2. /\ (\A n : Taken(n) => n \in Before)'
        /\ (\A m, n : ShownIn(output, m) /\ Pending(n) => m < n)'
      BY <1>3 DEF Taken
  <2> QED
      BY <1>1, <2>1, <2>2 DEF Written
<1>6. HiddenYet' = {} /\ Around(HiddenYet, at)' = {}
    BY <1>4 DEF HiddenYet, Around
<1>7. Fenced'
    BY <1>1, <1>6, FS_EmptySet DEF Fenced
<1>8. RenderedRightly'
    BY <1>4 DEF RenderedRightly
<1>9. Rendered'
    BY <1>1, <1>2, <1>5, <1>7, <1>8 DEF Rendered, Done, DocumentInv
<1> QED
    BY <1>1, <1>2, <1>9 DEF RenderInv

-----------------------------------------------------------------------------
(* A line of the rendering.                                                *)

\* What a step to the next line leaves of the lines before it.
LEMMA LineByLine ==
    ASSUME RenderInv, Rendering, NextLine
    PROVE  /\ at \in Nat /\ at' = at + 1 /\ DocumentInv' /\ document' = document
           /\ pc' = "render" /\ pc = "render" /\ at' >= FirstLine(document)'
           /\ FirstLine(document) \in Nat /\ Rendered
           /\ ~Taken(at)
           /\ \A n : n \in Before' <=> n \in Before \/ n = at
           /\ Before \subseteq Nat /\ \A n \in Before : n < at
           /\ HiddenYet \subseteq Nat /\ \A n \in HiddenYet : n < at
           /\ IsFiniteSet(HiddenYet)
<1>1. /\ at \in Nat /\ at' = at + 1 /\ DocumentInv' /\ document' = document
      /\ pc' = "render" /\ pc = "render" /\ at' >= FirstLine(document)'
      /\ FirstLine(document) \in Nat /\ Rendered /\ FirstLine(document) <= at
    BY DEF RenderInv, Rendered, DocumentInv, Rendering, NextLine
<1>2. Before \subseteq Nat /\ \A n \in Before : n < at
    BY <1>1 DEF Before
<1>3. at \notin Before
  <2>1. ~(at < at)
      BY <1>1
  <2> QED
      BY <1>2, <2>1
<1>4. ~Taken(at)
    BY <1>1, <1>3 DEF Rendered, Written
<1>5. \A n : n \in Before' <=> n \in Before \/ n = at
    BY <1>1 DEF Before
<1>6. IsFiniteSet(Before)
    BY <1>1, FS_Interval DEF Before
<1>7. HiddenYet \subseteq Before
    BY DEF HiddenYet
<1>8. IsFiniteSet(HiddenYet)
    BY <1>6, <1>7, FS_Subset
<1> QED
    BY <1>1, <1>2, <1>4, <1>5, <1>7, <1>8

\* The line is hidden: the earlier lines stand as they stood.
LEMMA HidingStays ==
    ASSUME RenderInv, Rendering, NextLine, \A n : Taken(n)' <=> Taken(n),
           \A n : HasKind(output, "code", n)' <=> HasKind(output, "code", n),
           HiddenRightly(HiddenYet, at)
    PROVE  /\ HiddenYet' = HiddenYet \cup {at}
           /\ RenderedRightly'
<1>0. PICK now \in Nat : now = at
    BY LineByLine
<1>1. HiddenYet' = HiddenYet \cup {now}
    BY <1>0, LineByLine DEF HiddenYet
<1>2. ASSUME NEW n \in Before
      PROVE  IF Taken(n) THEN ShownRightly(HiddenYet, n)' ELSE HiddenRightly(HiddenYet, n)'
  <2>1. /\ Opens(HiddenYet, n)' <=> Opens(HiddenYet, n)
        /\ Around(HiddenYet, n)' = Around(HiddenYet, n)
      BY <1>0, <1>1, LineByLine, PairsStay
  <2>2. document' = document
      BY LineByLine
  <2>3. IF Taken(n) THEN ShownRightly(HiddenYet, n) ELSE HiddenRightly(HiddenYet, n)
      BY LineByLine DEF Rendered, RenderedRightly
  <2>4. CASE Taken(n)
      BY <2>1, <2>2, <2>3, <2>4 DEF ShownRightly
  <2>5. CASE ~Taken(n)
      BY <2>1, <2>2, <2>3, <2>5 DEF HiddenRightly
  <2> QED
      BY <2>4, <2>5
<1>3. HiddenRightly(HiddenYet, now)'
  <2>1. /\ Opens(HiddenYet, now)' <=> Opens(HiddenYet, now)
        /\ Around(HiddenYet, now)' = Around(HiddenYet, now)
      BY <1>0, <1>1, LineByLine, PairsStay
  <2> QED
      BY <1>0, <2>1, LineByLine DEF HiddenRightly
<1>4. ASSUME NEW n \in Before'
      PROVE  IF Taken(n)' THEN ShownRightly(HiddenYet, n)' ELSE HiddenRightly(HiddenYet, n)'
  <2>1. CASE n \in Before
      BY <1>2, <2>1
  <2>2. CASE n = now
      BY <1>0, <1>3, <2>2, LineByLine
  <2> QED
      BY <1>0, <2>1, <2>2, LineByLine
<1>5. RenderedRightly'
    BY <1>4 DEF RenderedRightly
<1> QED
    BY <1>0, <1>1, <1>5

\* The line is shown.
LEMMA ShowingStays ==
    ASSUME RenderInv, Rendering, NextLine, \A n : Taken(n)' <=> Taken(n) \/ n = at,
           NEW code \in BOOLEAN,
           \A n : HasKind(output, "code", n)' <=> HasKind(output, "code", n) \/ (code /\ n = at),
           code <=> Around(HiddenYet, at) # {},
           \A m \in Around(HiddenYet, at) : ~ClosedBy(Line, document[m]),
           Around(HiddenYet, at) = {} => ~IsFence(Line)
    PROVE  /\ HiddenYet' = HiddenYet
           /\ RenderedRightly'
<1>0. PICK now \in Nat : now = at
    BY LineByLine
<1>1. HiddenYet' = HiddenYet
    BY <1>0, LineByLine DEF HiddenYet
<1>2. document' = document
    BY LineByLine
<1>3. ASSUME NEW n \in Before
      PROVE  IF Taken(n) THEN ShownRightly(HiddenYet, n)' ELSE HiddenRightly(HiddenYet, n)'
  <2>1. n # now /\ (HasKind(output, "code", n)' <=> HasKind(output, "code", n))
    <3>1. n < now /\ n \in Nat
        BY <1>0, LineByLine
    <3>2. n # now
        BY <3>1
    <3> QED
        BY <1>0, <3>2
  <2>2. IF Taken(n) THEN ShownRightly(HiddenYet, n) ELSE HiddenRightly(HiddenYet, n)
      BY LineByLine DEF Rendered, RenderedRightly
  <2>3. CASE Taken(n)
      BY <1>1, <1>2, <2>1, <2>2, <2>3 DEF ShownRightly
  <2>4. CASE ~Taken(n)
      BY <1>1, <1>2, <2>2, <2>4 DEF HiddenRightly
  <2> QED
      BY <2>3, <2>4
<1>4. HasKind(output, "code", now) => now \in Before
  <2>1. HasKind(output, "code", now) => Taken(now)
      BY DEF HasKind, Taken, ShownIn
  <2> QED
      BY <2>1, <1>0, LineByLine
<1>5. now \notin Before
    BY <1>0, LineByLine DEF Rendered, Written
<1>6. ShownRightly(HiddenYet, now)'
  <2>1. HasKind(output, "code", now)' <=> code
      BY <1>0, <1>4, <1>5
  <2>2. Around(HiddenYet, now)' = Around(HiddenYet, at) /\ document[now]' = Line
      BY <1>0, <1>1, <1>2 DEF Line
  <2> QED
      BY <1>2, <2>1, <2>2 DEF ShownRightly
<1>7. ASSUME NEW n \in Before'
      PROVE  IF Taken(n)' THEN ShownRightly(HiddenYet, n)' ELSE HiddenRightly(HiddenYet, n)'
  <2>1. CASE n \in Before
    <3>1. n # now
        BY <1>5, <2>1
    <3> QED
        BY <1>0, <1>3, <2>1, <3>1
  <2>2. CASE n = now
      BY <1>0, <1>6, <2>2
  <2> QED
      BY <1>0, <2>1, <2>2, LineByLine
<1>8. RenderedRightly'
    BY <1>7 DEF RenderedRightly
<1> QED
    BY <1>1, <1>8

\* The parts of the invariant that a line has to restore.
LEMMA StepsOn ==
    ASSUME RenderInv, Rendering, NextLine, Written', Fenced', RenderedRightly'
    PROVE  RenderInv'
<1>1. Rendered'
    BY LineByLine DEF Rendered, Done
<1> QED
    BY <1>1, LineByLine DEF RenderInv

\* The fence a line stands in, while it is the next one.
LEMMA FenceHere ==
    ASSUME RenderInv, Rendering, NextLine
    PROVE  /\ Opens(HiddenYet, at) <=> fence = None
           /\ fence = None => Around(HiddenYet, at) = {}
           /\ fence # None => /\ Around(HiddenYet, at) # {}
                              /\ \A m \in Around(HiddenYet, at) :
                                    Closes(Line) <=> ClosedBy(Line, document[m])
<1>1. Opens(HiddenYet, at) <=> Cardinality(HiddenYet) % 2 = 0
    BY LineByLine, PairsGrow
<1>2. Fenced
    BY LineByLine DEF Rendered
<1>3. ASSUME fence # None
      PROVE  /\ Around(HiddenYet, at) # {}
             /\ \A m \in Around(HiddenYet, at) : Closes(Line) <=> ClosedBy(Line, document[m])
  <2>1. PICK m \in HiddenYet :
            /\ Around(HiddenYet, at) = {m}
            /\ fence = document[m].marker /\ fence_length = document[m].run
      BY <1>2, <1>3 DEF Fenced
  <2>2. Closes(Line) <=> ClosedBy(Line, document[m])
      BY <2>1 DEF Closes, ClosedBy
  <2> QED
      BY <2>1, <2>2
<1> QED
    BY <1>1, <1>2, <1>3 DEF Fenced

\* What it is for the line after it.
LEMMA FenceStays ==
    ASSUME RenderInv, Rendering, NextLine, HiddenYet' = HiddenYet,
           UNCHANGED <<fence, fence_length>>
    PROVE  Fenced'
<1>0. HiddenYet \in SUBSET Nat /\ IsFiniteSet(HiddenYet) /\ at \in Nat /\ at' = at + 1
      /\ \A h \in HiddenYet : h < at
    BY LineByLine
<1>1. Around(HiddenYet', at') = Around(HiddenYet, at)
  <2>1. Around(HiddenYet, at + 1) = Around(HiddenYet, at)
      BY <1>0, PairsGrow
  <2> QED
      BY <1>0, <2>1
<1>2. Fenced
    BY LineByLine DEF Rendered
<1> QED
    BY <1>1, <1>2, LineByLine DEF Fenced

\* The closing line is hidden, and closes the line that opened.
LEMMA CloseFenceStep ==
    ASSUME RenderInv, CloseFence
    PROVE  RenderInv'
<1>1. Rendering /\ NextLine /\ fence # None /\ Closes(Line) /\ fence' = None
    BY DEF CloseFence
<1>2. UNCHANGED <<paragraph, output, fence_length, fence_indent>>
    BY DEF CloseFence
<1>3. /\ \A n : Taken(n)' <=> Taken(n)
      /\ \A n : HasKind(output, "code", n)' <=> HasKind(output, "code", n)
    BY <1>2 DEF Taken, ShownIn, Pending, HasKind
<1>4. HiddenRightly(HiddenYet, at)
    BY <1>1, FenceHere DEF HiddenRightly, Line
<1>5. HiddenYet' = HiddenYet \cup {at} /\ RenderedRightly'
    BY <1>1, <1>3, <1>4, HidingStays
<1>6. Written'
  <2>1. Written
      BY <1>1, LineByLine DEF Rendered
  <2>2. (\A n : Taken(n) => n \in Before)'
      BY <1>1, <1>3, <2>1, LineByLine DEF Written
  <2>3. (\A m, n : ShownIn(output, m) /\ Pending(n) => m < n)'
      BY <1>2, <2>1 DEF Written, ShownIn, Pending
  <2>4. Ordered(output)' /\ Ascends(paragraph)'
      BY <1>2, <2>1 DEF Written, Ordered, Ascends
  <2> QED
      BY <1>1, <1>2, <2>1, <2>2, <2>3, <2>4 DEF Written
<1>7. Fenced'
  <2>1. ~Opens(HiddenYet, at)
      BY <1>1, FenceHere
  <2>2. Cardinality(HiddenYet') % 2 = 0 /\ Around(HiddenYet', at') = {}
      BY <1>1, <1>5, <2>1, LineByLine, PairsGrow
  <2> QED
      BY <1>1, <2>2 DEF Fenced
<1> QED
    BY <1>1, <1>5, <1>6, <1>7, StepsOn

\* Written again, after a block.
LEMMA WritesOn ==
    ASSUME RenderInv, Rendering, NextLine,
           fence' \in Markers \cup {None}, fence_length' \in Nat, fence_indent' \in Nat,
           NEW blocks \in Seq(Blocks), Ordered(blocks),
           \A n : ShownIn(blocks, n) => n = at, Flush(blocks)
    PROVE  /\ Written'
           /\ \A n : Taken(n)' <=> Taken(n) \/ ShownIn(blocks, n)
           /\ \A n : HasKind(output, "code", n)' <=>
                        HasKind(output, "code", n) \/ HasKind(blocks, "code", n)
<1>0. Written /\ at \in Nat /\ FirstLine(document) \in Nat
    BY LineByLine DEF Rendered
<1>1. /\ output' \in Seq(Blocks) /\ Ordered(output') /\ paragraph' = <<>>
      /\ \A n : ShownIn(output', n) <=> Taken(n) \/ ShownIn(blocks, n)
      /\ \A kind, n : HasKind(output', kind, n) <=>
                \/ HasKind(output, kind, n) \/ HasKind(blocks, kind, n)
                \/ kind = "paragraph" /\ Pending(n)
    BY <1>0, Flushed
<1>2. \A n : ~Pending(n)'
    BY <1>1 DEF Pending
<1>3. /\ \A n : ShownIn(output, n)' <=> ShownIn(output', n)
      /\ \A n : HasKind(output, "code", n)' <=> HasKind(output', "code", n)
      /\ Ordered(output)' <=> Ordered(output')
    BY DEF ShownIn, HasKind, Ordered, Ascends
<1>4. \A n : Taken(n)' <=> Taken(n) \/ ShownIn(blocks, n)
    BY <1>1, <1>2, <1>3 DEF Taken
<1>5. \A n : HasKind(output, "code", n)' <=>
                        HasKind(output, "code", n) \/ HasKind(blocks, "code", n)
    BY <1>1, <1>3
<1>6. (\A n : Taken(n) => n \in Before)'
  <2>1. \A n : Taken(n) => n \in Before
      BY <1>0 DEF Written
  <2> QED
      BY <1>4, <2>1, LineByLine
<1>7. Ascends(paragraph)' /\ paragraph' \in Seq(Nat)
    BY <1>1 DEF Ascends
<1>8. Written'
    BY <1>1, <1>2, <1>3, <1>6, <1>7 DEF Written
<1> QED
    BY <1>4, <1>5, <1>8

\* The opening line is hidden, and what was pending is written.
LEMMA OpenFenceStep ==
    ASSUME RenderInv, OpenFence
    PROVE  RenderInv'
<1>1. /\ Rendering /\ NextLine /\ fence = None /\ IsFence(Line) /\ Flush(<<>>)
      /\ fence' = Line.marker /\ fence_length' = Line.run /\ fence_indent' = Line.indent
    BY DEF OpenFence
<1>2. Line \in Lines
    BY <1>1, LineByLine DEF RenderInv, DocumentInv, Rendered, Line, Rendering
<1>3. fence' \in Markers /\ fence_length' \in Nat /\ fence_indent' \in Nat /\ None \notin Markers
    BY <1>1, <1>2 DEF Lines, Markers, None
<1>4. /\ Written'
      /\ \A n : Taken(n)' <=> Taken(n)
      /\ \A n : HasKind(output, "code", n)' <=> HasKind(output, "code", n)
    BY <1>1, <1>3, NoBlock, WritesOn
<1>5. HiddenRightly(HiddenYet, at)
    BY <1>1, FenceHere DEF HiddenRightly, Line
<1>6. HiddenYet' = HiddenYet \cup {at} /\ RenderedRightly'
    BY <1>1, <1>4, <1>5, HidingStays
<1>7. Fenced'
  <2>1. Opens(HiddenYet, at)
      BY <1>1, FenceHere
  <2>0. HiddenYet \in SUBSET Nat /\ IsFiniteSet(HiddenYet) /\ at \in Nat /\ at' = at + 1
        /\ \A h \in HiddenYet : h < at
      BY <1>1, LineByLine
  <2> DEFINE H == HiddenYet \cup {at}
  <2>3. /\ Cardinality(HiddenYet) % 2 = 0
        /\ Cardinality(H) % 2 = 0 <=> Cardinality(HiddenYet) % 2 # 0
        /\ Around(H, at + 1) = {at}
      BY <2>0, <2>1, PairsGrow
  <2> HIDE DEF H
  <2>2. Cardinality(HiddenYet') % 2 # 0 /\ Around(HiddenYet', at') = {at}
    <3>1. HiddenYet' = H /\ at' = at + 1
        BY <1>6, <2>0 DEF H
    <3> QED
        BY <2>3, <3>1
  <2>4. at \in HiddenYet' /\ document' = document
      BY <1>1, <1>6, LineByLine
  <2>5. fence' = document'[at].marker /\ fence_length' = document'[at].run /\ fence' # None
      BY <1>1, <1>3, <2>4 DEF Line
  <2> QED
      BY <2>2, <2>4, <2>5 DEF Fenced
<1> QED
    BY <1>1, <1>4, <1>6, <1>7, StepsOn

\* A block of the line.
LEMMA LineBlock ==
    ASSUME NEW n \in Nat, NEW kind \in Kinds, NEW kept \in Nat
    PROVE  LET blocks == <<[kind |-> kind, lines |-> <<n>>, kept |-> kept]>>
           IN  /\ blocks \in Seq(Blocks) /\ Ordered(blocks)
               /\ \A m : ShownIn(blocks, m) <=> m = n
               /\ \A m : HasKind(blocks, "code", m) <=> kind = "code" /\ m = n
<1> DEFINE b == [kind |-> kind, lines |-> <<n>>, kept |-> kept]
<1>1. /\ <<n>> \in Seq(Nat) /\ Ascends(<<n>>)
      /\ \A m : (\E j \in DOMAIN <<n>> : <<n>>[j] = m) <=> m = n
    BY OneLine
<1>2. b \in Blocks /\ b.lines = <<n>> /\ b.kind = kind
    BY <1>1 DEF Blocks
<1> HIDE DEF b
<1>3. /\ <<b>> \in Seq(Blocks) /\ Ordered(<<b>>)
      /\ \A m : ShownIn(<<b>>, m) <=> \E j \in DOMAIN b.lines : b.lines[j] = m
      /\ \A k, m : HasKind(<<b>>, k, m) <=>
            b.kind = k /\ \E j \in DOMAIN b.lines : b.lines[j] = m
    BY <1>1, <1>2, OneBlock
<1>4. /\ <<b>> \in Seq(Blocks) /\ Ordered(<<b>>)
      /\ \A m : ShownIn(<<b>>, m) <=> m = n
      /\ \A m : HasKind(<<b>>, "code", m) <=> kind = "code" /\ m = n
    BY <1>1, <1>2, <1>3
<1> QED
    BY <1>4 DEF b

\* A line of code.
LEMMA FencedLineStep ==
    ASSUME RenderInv, FencedLine
    PROVE  RenderInv'
<1>1. /\ Rendering /\ NextLine /\ fence # None /\ ~Closes(Line)
      /\ output' = Append(output, [Block("code", <<at>>) EXCEPT !.kept = Kept(Line)])
      /\ UNCHANGED <<fence, fence_length, fence_indent, paragraph>>
    BY DEF FencedLine, block
<1>2. /\ Line \in Lines /\ at \in Nat /\ Written /\ document \in Seq(Lines)
    BY <1>1, LineByLine DEF RenderInv, DocumentInv, Rendered, Line, Rendering
<1>3. Kept(Line) \in Nat
    BY <1>2 DEF Kept, Lines, Written
<1> DEFINE kept == Kept(Line)
           blocks == <<[kind |-> "code", lines |-> <<at>>, kept |-> kept]>>
<1>4. output' = output \o blocks
  <2>1. [Block("code", <<at>>) EXCEPT !.kept = kept]
            = [kind |-> "code", lines |-> <<at>>, kept |-> kept]
      BY DEF Block
  <2> HIDE DEF kept
  <2>2. ASSUME NEW b, NEW out \in Seq(Blocks) PROVE Append(out, b) = out \o <<b>>
      OBVIOUS
  <2> QED
      BY <1>1, <1>2, <2>1, <2>2 DEF Written, kept
<1>5. /\ blocks \in Seq(Blocks) /\ Ordered(blocks)
      /\ \A m : ShownIn(blocks, m) <=> m = at
      /\ \A m : HasKind(blocks, "code", m) <=> m = at
  <2>1. kept \in Nat /\ "code" \in Kinds
      BY <1>3 DEF Kinds
  <2> HIDE DEF kept
  <2> QED
      BY <1>2, <2>1, LineBlock, Zenon
<1> HIDE DEF blocks
<1>6. Flush(blocks)
  <2>1. paragraph = <<>>
      BY <1>1, <1>2 DEF Written
  <2>2. output \o <<>> = output
      BY <1>2 DEF Written
  <2> QED
      BY <1>1, <1>4, <2>1, <2>2 DEF Flush
<1>7. /\ Written'
      /\ \A n : Taken(n)' <=> Taken(n) \/ ShownIn(blocks, n)
      /\ \A n : HasKind(output, "code", n)' <=>
                        HasKind(output, "code", n) \/ HasKind(blocks, "code", n)
  <2>1. fence' \in Markers \cup {None} /\ fence_length' \in Nat /\ fence_indent' \in Nat
      BY <1>1, <1>2 DEF Written
  <2>2. \A n : ShownIn(blocks, n) => n = at
      BY <1>5
  <2> QED
      BY <1>1, <1>5, <1>6, <2>1, <2>2, WritesOn
<1>8. HiddenYet' = HiddenYet /\ RenderedRightly'
  <2> DEFINE code == TRUE
  <2>1. /\ \A n : Taken(n)' <=> Taken(n) \/ n = at
        /\ \A n : HasKind(output, "code", n)' <=> HasKind(output, "code", n) \/ (code /\ n = at)
      BY <1>5, <1>7
  <2>2. /\ code \in BOOLEAN /\ (code <=> Around(HiddenYet, at) # {})
        /\ \A m \in Around(HiddenYet, at) : ~ClosedBy(Line, document[m])
        /\ Around(HiddenYet, at) = {} => ~IsFence(Line)
      BY <1>1, FenceHere
  <2> HIDE DEF code
  <2> QED
      BY <1>1, <2>1, <2>2, ShowingStays
<1>9. Fenced'
    BY <1>1, <1>8, FenceStays
<1> QED
    BY <1>1, <1>7, <1>8, <1>9, StepsOn

\* A line of prose: no fence, no code.
LEMMA ProseStays ==
    ASSUME RenderInv, Rendering, NextLine, fence = None, ~IsFence(Line),
           \A n : Taken(n)' <=> Taken(n) \/ n = at,
           \A n : HasKind(output, "code", n)' <=> HasKind(output, "code", n),
           UNCHANGED <<fence, fence_length>>, Written'
    PROVE  RenderInv'
<1>1. HiddenYet' = HiddenYet /\ RenderedRightly'
  <2> DEFINE code == FALSE
  <2>1. /\ \A n : HasKind(output, "code", n)' <=> HasKind(output, "code", n) \/ (code /\ n = at)
        /\ code \in BOOLEAN /\ (code <=> Around(HiddenYet, at) # {})
        /\ \A m \in Around(HiddenYet, at) : ~ClosedBy(Line, document[m])
        /\ Around(HiddenYet, at) = {} => ~IsFence(Line)
      BY FenceHere
  <2> HIDE DEF code
  <2> QED
      BY <2>1, ShowingStays
<1>2. Fenced'
    BY <1>1, FenceStays
<1> QED
    BY <1>1, <1>2, StepsOn

\* No line outside of a fence is code.
LEMMA KindsOfLines ==
    ASSUME NEW line \in Lines, KindOf(line) # "text"
    PROVE  KindOf(line) \in Kinds /\ KindOf(line) # "code"
<1>1. line.body \in Bodies
    BY DEF Lines
<1>2. CASE StartsLikeCode(line) /\ line.body # "blank"
  <2>1. KindOf(line) = "indented"
      BY <1>2 DEF KindOf
  <2> QED
      BY <2>1 DEF Kinds
<1>3. CASE ~(StartsLikeCode(line) /\ line.body # "blank")
  <2>1. line.body = "title" => KindOf(line) = "heading"
      BY <1>3 DEF KindOf
  <2>2. line.body = "fence" => KindOf(line) = "text"
      BY <1>3 DEF KindOf
  <2>3. line.body # "title" /\ line.body # "fence" => KindOf(line) = line.body
      BY <1>3 DEF KindOf
  <2> QED
      BY <1>1, <2>1, <2>2, <2>3 DEF Kinds, Bodies
<1> QED
    BY <1>2, <1>3

\* A block of its own, after the paragraph.
LEMMA WriteBlockStep ==
    ASSUME RenderInv, WriteBlock
    PROVE  RenderInv'
<1> DEFINE kind == KindOf(Line)
           blocks == <<[kind |-> kind, lines |-> <<at>>, kept |-> 0]>>
<1>1. /\ Rendering /\ NextLine /\ fence = None /\ ~IsFence(Line) /\ kind # "text"
      /\ Flush(blocks) /\ UNCHANGED <<fence, fence_length, fence_indent>>
    BY DEF WriteBlock, Block
<1>2. Line \in Lines /\ at \in Nat /\ Written
    BY <1>1, LineByLine DEF RenderInv, DocumentInv, Rendered, Line, Rendering
<1>3. kind \in Kinds /\ kind # "code"
    BY <1>1, <1>2, KindsOfLines
<1> HIDE DEF kind
<1>4. /\ blocks \in Seq(Blocks) /\ Ordered(blocks)
      /\ \A m : ShownIn(blocks, m) <=> m = at
      /\ \A m : HasKind(blocks, "code", m) <=> kind = "code" /\ m = at
  <2>1. 0 \in Nat
      OBVIOUS
  <2> QED
      BY <1>2, <1>3, <2>1, LineBlock, Zenon
<1> HIDE DEF blocks
<1>5. /\ Written'
      /\ \A n : Taken(n)' <=> Taken(n) \/ ShownIn(blocks, n)
      /\ \A n : HasKind(output, "code", n)' <=>
                        HasKind(output, "code", n) \/ HasKind(blocks, "code", n)
  <2>1. fence' \in Markers \cup {None} /\ fence_length' \in Nat /\ fence_indent' \in Nat
      BY <1>1, <1>2 DEF Written
  <2>2. \A n : ShownIn(blocks, n) => n = at
      BY <1>4
  <2> QED
      BY <1>1, <1>4, <2>1, <2>2, WritesOn
<1>6. /\ \A n : Taken(n)' <=> Taken(n) \/ n = at
      /\ \A n : HasKind(output, "code", n)' <=> HasKind(output, "code", n)
    BY <1>3, <1>4, <1>5
<1> QED
    BY <1>1, <1>5, <1>6, ProseStays

\* One more line of the paragraph.
LEMMA ExtendStep ==
    ASSUME RenderInv, Extend
    PROVE  RenderInv'
<1>1. /\ Rendering /\ NextLine /\ fence = None /\ ~IsFence(Line)
      /\ paragraph' = Append(paragraph, at)
      /\ UNCHANGED <<fence, fence_length, fence_indent, output>>
    BY DEF Extend
<1>2. at \in Nat /\ Written
    BY <1>1, LineByLine DEF Rendered
<1>3. /\ paragraph \in Seq(Nat) /\ Ascends(paragraph)
      /\ <<at>> \in Seq(Nat) /\ Ascends(<<at>>)
      /\ \A m : (\E j \in DOMAIN <<at>> : <<at>>[j] = m) <=> m = at
    BY <1>2, OneLine DEF Written
<1>4. paragraph' = paragraph \o <<at>>
    BY <1>1, <1>3
<1>5. \A n : Pending(n) => n < at
    BY <1>1, <1>2, LineByLine DEF Written, Taken
<1>6. /\ paragraph' \in Seq(Nat) /\ Ascends(paragraph')
      /\ \A n : (\E j \in DOMAIN paragraph' : paragraph'[j] = n) <=> Pending(n) \/ n = at
  <2> DEFINE p == paragraph
             a == <<at>>
             both == p \o a
  <2>1. p \in Seq(Nat) /\ Ascends(p) /\ a \in Seq(Nat) /\ Ascends(a)
      BY <1>3
  <2>2. \A m : (\E j \in DOMAIN p : p[j] = m) <=> Pending(m)
      BY DEF Pending
  <2>3. \A m : (\E j \in DOMAIN a : a[j] = m) <=> m = at
      BY <1>3
  <2> HIDE DEF p, a
  <2>4. \A i \in DOMAIN p, j \in DOMAIN a : p[i] < a[j]
      BY <1>5, <2>2, <2>3
  <2>5. /\ both \in Seq(Nat) /\ Ascends(both)
        /\ \A i \in DOMAIN both : \/ \E j \in DOMAIN p : both[i] = p[j]
                                  \/ \E j \in DOMAIN a : both[i] = a[j]
      BY <2>1, <2>4, ConcatenationAscends
  <2>6. /\ \A j \in DOMAIN p : j \in DOMAIN both /\ both[j] = p[j]
        /\ \A j \in DOMAIN a : j + Len(p) \in DOMAIN both /\ both[j + Len(p)] = a[j]
    <3>1. /\ Len(p) \in Nat /\ Len(a) \in Nat /\ DOMAIN p = 1..Len(p) /\ DOMAIN a = 1..Len(a)
          /\ DOMAIN both = 1..(Len(p) + Len(a))
          /\ \A i \in 1..(Len(p) + Len(a)) : both[i] = IF i <= Len(p) THEN p[i] ELSE a[i - Len(p)]
        BY <2>1
    <3> HIDE DEF both
    <3> QED
        BY <3>1
  <2>7. paragraph' = both
      BY <1>4 DEF p, a
  <2> HIDE DEF both
  <2>8. \A n : (\E j \in DOMAIN both : both[j] = n) <=> Pending(n) \/ n = at
    <3> TAKE n
    <3>1. ASSUME NEW j \in DOMAIN both, both[j] = n PROVE Pending(n) \/ n = at
        BY <2>2, <2>3, <2>5, <3>1
    <3>2. ASSUME Pending(n) PROVE \E j \in DOMAIN both : both[j] = n
        BY <2>2, <2>6, <3>2
    <3>3. ASSUME n = at PROVE \E j \in DOMAIN both : both[j] = n
        BY <2>3, <2>6, <3>3
    <3> QED
        BY <3>1, <3>2, <3>3
  <2> QED
      BY <2>5, <2>7, <2>8
<1>7. \A n : Pending(n)' <=> Pending(n) \/ n = at
    BY <1>6 DEF Pending
<1>8. \A n : (ShownIn(output, n)' <=> ShownIn(output, n))
             /\ (HasKind(output, "code", n)' <=> HasKind(output, "code", n))
    BY <1>1 DEF ShownIn, HasKind
<1>9. \A n : Taken(n)' <=> Taken(n) \/ n = at
    BY <1>7, <1>8 DEF Taken
<1>10. Written'
  <2>1. (\A n : Taken(n) => n \in Before)'
      BY <1>1, <1>2, <1>9, LineByLine DEF Written
  <2>2. \A n : ShownIn(output, n) => n < at
      BY <1>1, <1>2, LineByLine DEF Written, Taken
  <2>3. (\A m, n : ShownIn(output, m) /\ Pending(n) => m < n)'
      BY <1>2, <1>7, <1>8, <2>2 DEF Written
  <2>4. Ordered(output)' /\ Ascends(paragraph)'
      BY <1>1, <1>2, <1>6 DEF Written, Ordered, Ascends
  <2> QED
      BY <1>1, <1>2, <1>6, <2>1, <2>3, <2>4 DEF Written
<1> QED
    BY <1>1, <1>8, <1>9, <1>10, ProseStays

\* The last paragraph.
LEMMA RenderEndStep ==
    ASSUME RenderInv, RenderEnd
    PROVE  RenderInv'
<1>1. /\ pc = "render" /\ pc' = "done" /\ at > Len(document) /\ Flush(<<>>)
      /\ UNCHANGED <<document, at, fence, fence_length, fence_indent>>
    BY DEF RenderEnd
<1>2. Rendered /\ DocumentInv /\ at \in Nat /\ FirstLine(document) \in Nat
    BY <1>1 DEF RenderInv, DocumentInv
<1>3. /\ output' \in Seq(Blocks) /\ Ordered(output') /\ paragraph' = <<>>
      /\ \A n : ShownIn(output', n) <=> Taken(n)
      /\ \A kind, n : HasKind(output', kind, n) <=>
            HasKind(output, kind, n) \/ (kind = "paragraph" /\ Pending(n))
    BY <1>1, <1>2, NoBlock, Flushed DEF Rendered
<1>4. \A n : ~Pending(n)'
    BY <1>3 DEF Pending
<1>5. /\ \A n : ShownIn(output, n)' <=> ShownIn(output', n)
      /\ \A n : HasKind(output, "code", n)' <=> HasKind(output', "code", n)
      /\ Ordered(output)' <=> Ordered(output')
    BY DEF ShownIn, HasKind, Ordered, Ascends
<1>6. /\ \A n : Taken(n)' <=> Taken(n)
      /\ \A n : HasKind(output, "code", n)' <=> HasKind(output, "code", n)
    BY <1>3, <1>4, <1>5 DEF Taken
<1>7. Before' = Before /\ HiddenYet' = HiddenYet
  <2>1. Before' = Before
      BY <1>1 DEF Before
  <2> QED
      BY <1>6, <2>1 DEF HiddenYet
<1>8. Written'
  <2>1. Ascends(paragraph)' /\ paragraph' \in Seq(Nat)
      BY <1>3 DEF Ascends
  <2>2. (\A n : Taken(n) => n \in Before)'
      BY <1>2, <1>6, <1>7 DEF Rendered, Written
  <2> QED
      BY <1>1, <1>2, <1>3, <1>4, <1>5, <2>1, <2>2 DEF Written, Rendered
<1>9. Fenced'
    BY <1>1, <1>2, <1>7 DEF Fenced, Rendered
<1>10. RenderedRightly'
  <2>1. ASSUME NEW n \in Before
        PROVE  IF Taken(n)' THEN ShownRightly(HiddenYet, n)' ELSE HiddenRightly(HiddenYet, n)'
    <3>1. IF Taken(n) THEN ShownRightly(HiddenYet, n) ELSE HiddenRightly(HiddenYet, n)
        BY <1>2 DEF Rendered, RenderedRightly
    <3>2. CASE Taken(n)
        BY <1>1, <1>6, <1>7, <3>1, <3>2 DEF ShownRightly
    <3>3. CASE ~Taken(n)
        BY <1>1, <1>6, <1>7, <3>1, <3>3 DEF HiddenRightly
    <3> QED
        BY <3>2, <3>3
  <2> QED
      BY <1>7, <2>1 DEF RenderedRightly
<1>11. Rendered'
  <2>1. at = Len(document) + 1 /\ document \in Seq(Lines)
      BY <1>1, <1>2 DEF DocumentInv
  <2> QED
      BY <1>1, <1>2, <1>3, <1>8, <1>9, <1>10, <2>1 DEF Rendered
<1>12. DocumentInv'
    BY <1>1, <1>2 DEF DocumentInv
<1> QED
    BY <1>1, <1>11, <1>12 DEF RenderInv

\* Nothing happens.
LEMMA RenderStays == RenderInv /\ UNCHANGED vars => RenderInv'
<1> SUFFICES ASSUME RenderInv, UNCHANGED vars PROVE RenderInv'
    OBVIOUS
<1>1. UNCHANGED <<document, pc, at, fence, fence_length, fence_indent, paragraph, output>>
    BY DEF vars, block
<1>2. DocumentInv' /\ (pc = "lint" => Unstarted')
    BY <1>1 DEF RenderInv, DocumentInv, Unstarted
<1>3. ASSUME pc # "lint" PROVE Rendered'
  <2>1. Rendered
      BY <1>3 DEF RenderInv
  <2>2. /\ \A n : ShownIn(output, n)' <=> ShownIn(output, n)
        /\ \A n : HasKind(output, "code", n)' <=> HasKind(output, "code", n)
        /\ \A n : Pending(n)' <=> Pending(n)
        /\ Ordered(output)' <=> Ordered(output)
        /\ Ascends(paragraph)' <=> Ascends(paragraph)
      BY <1>1 DEF ShownIn, HasKind, Pending, Ordered, Ascends
  <2>3. Before' = Before /\ (\A n : Taken(n)' <=> Taken(n)) /\ HiddenYet' = HiddenYet
      BY <1>1, <2>2 DEF Before, Taken, HiddenYet
  <2>4. Written'
      BY <1>1, <2>1, <2>2, <2>3 DEF Rendered, Written
  <2>5. Fenced'
      BY <1>1, <2>1, <2>3 DEF Rendered, Fenced
  <2>6. RenderedRightly'
    <3>1. ASSUME NEW n \in Before
          PROVE  IF Taken(n)' THEN ShownRightly(HiddenYet, n)' ELSE HiddenRightly(HiddenYet, n)'
      <4>1. IF Taken(n) THEN ShownRightly(HiddenYet, n) ELSE HiddenRightly(HiddenYet, n)
          BY <2>1 DEF Rendered, RenderedRightly
      <4>2. CASE Taken(n)
          BY <1>1, <2>2, <2>3, <4>1, <4>2 DEF ShownRightly
      <4>3. CASE ~Taken(n)
          BY <1>1, <2>3, <4>1, <4>3 DEF HiddenRightly
      <4> QED
          BY <4>2, <4>3
    <3> QED
        BY <2>3, <3>1 DEF RenderedRightly
  <2> QED
      BY <1>1, <2>1, <2>4, <2>5, <2>6 DEF Rendered, Done
<1> QED
    BY <1>1, <1>2, <1>3 DEF RenderInv, DocumentInv

\* At every line what was written, what was hidden and the open fence agree.
THEOREM RenderingInvariant == Spec => []RenderInv
<1>1. Init => RenderInv
    BY InitIsRendered
<1>2. RenderInv /\ [Next]_vars => RenderInv'
  <2> SUFFICES ASSUME RenderInv, [Next]_vars PROVE RenderInv'
      OBVIOUS
  <2>1. CASE LintOpening
      BY <2>1, LintsOn DEF LintOpening
  <2>2. CASE LintInside
      BY <2>2, LintsOn DEF LintInside
  <2>3. CASE LintText
      BY <2>3, LintsOn DEF LintText
  <2>4. CASE LintEnd
      BY <2>4, StartsRendering
  <2>5. CASE CloseFence
      BY <2>5, CloseFenceStep
  <2>6. CASE FencedLine
      BY <2>6, FencedLineStep
  <2>7. CASE OpenFence
      BY <2>7, OpenFenceStep
  <2>8. CASE WriteBlock
      BY <2>8, WriteBlockStep
  <2>9. CASE Extend
      BY <2>9, ExtendStep
  <2>10. CASE RenderEnd
      BY <2>10, RenderEndStep
  <2>11. CASE UNCHANGED vars
      BY <2>11, RenderStays
  <2> QED
      BY <2>1, <2>2, <2>3, <2>4, <2>5, <2>6, <2>7, <2>8, <2>9, <2>10, <2>11 DEF Next
<1> QED
    BY <1>1, <1>2, PTL DEF Spec

-----------------------------------------------------------------------------

\* The property's words, and the invariant's.
LEMMA ShowsWhatIsShown ==
    /\ \A n : n \in Shows({output[k].kind : k \in DOMAIN output}) <=> ShownIn(output, n)
    /\ \A kind, n : n \in Shows({kind}) <=> HasKind(output, kind, n)
<1>1. \A kinds, n : n \in Shows(kinds) <=>
          \E k \in DOMAIN output : output[k].kind \in kinds
                /\ \E j \in DOMAIN output[k].lines : output[k].lines[j] = n
    BY DEF Shows
<1>2. \A k \in DOMAIN output : output[k].kind \in {output[l].kind : l \in DOMAIN output}
    OBVIOUS
<1>3. \A n : n \in Shows({output[k].kind : k \in DOMAIN output}) <=> ShownIn(output, n)
    BY <1>1, <1>2 DEF ShownIn
<1>4. \A kind, n : n \in Shows({kind}) <=> HasKind(output, kind, n)
    BY <1>1 DEF HasKind
<1> QED
    BY <1>3, <1>4

\* At the end nothing is pending.
LEMMA HiddenAtTheEnd ==
    ASSUME RenderInv, Done
    PROVE  /\ Before = Body /\ Hidden = HiddenYet
           /\ \A n : Taken(n) <=> ShownIn(output, n)
<1>1. at = Len(document) + 1 /\ paragraph = <<>> /\ Rendered /\ document \in Seq(Lines)
    BY DEF RenderInv, Rendered, Done, DocumentInv
<1>2. Before = Body
    BY <1>1 DEF Before, Body
<1>3. \A n : Taken(n) <=> ShownIn(output, n)
    BY <1>1 DEF Taken, Pending
<1> QED
    BY <1>2, <1>3, ShowsWhatIsShown DEF Hidden, HiddenYet

\* The invariant at the end.
LEMMA EndsPreserved == RenderInv => AnswerIsPreserved
<1> SUFFICES ASSUME RenderInv, Done PROVE AnswerIsPreserved
    BY DEF AnswerIsPreserved
<1>1. Rendered /\ Before = Body /\ Hidden = HiddenYet /\ \A n : Taken(n) <=> ShownIn(output, n)
    BY HiddenAtTheEnd DEF RenderInv, Done
<1>2. \A i, j \in DOMAIN Shown : i < j => Shown[i] < Shown[j]
  <2> DEFINE seqs == [k \in DOMAIN output |-> output[k].lines]
  <2>1. output \in Seq(Blocks) /\ Ordered(output)
      BY <1>1 DEF Rendered, Written
  <2>2. seqs \in Seq(Seq(Nat))
    <3>1. /\ Len(output) \in Nat /\ DOMAIN output = 1..Len(output)
          /\ \A k \in 1..Len(output) : output[k] \in Blocks
        BY <2>1
    <3>2. \A k \in 1..Len(output) : output[k].lines \in Seq(Nat)
        BY <3>1 DEF Blocks
    <3> HIDE DEF Blocks
    <3>3. seqs = [k \in 1..Len(output) |-> output[k].lines]
        BY <3>1
    <3>4. seqs \in [1..Len(output) -> Seq(Nat)]
        BY <3>2, <3>3
    <3> HIDE DEF seqs
    <3> QED
        BY <3>1, <3>4
  <2>3. InBlocks(seqs)
      BY <2>1 DEF Ordered, InBlocks
  <2> HIDE DEF seqs
  <2>4. Ascends(FlattenSeq(seqs))
      BY <2>2, <2>3, FlattenAscends
  <2> QED
      BY <2>4 DEF Ascends, Shown, seqs
<1>3. \A n : (IsOpening(n) <=> Opens(HiddenYet, n)) /\ FenceOf(n) = Around(HiddenYet, n)
    BY <1>1 DEF IsOpening, FenceOf, Opens, Around
<1>4. ASSUME NEW n \in Hidden
      PROVE  IF IsOpening(n) THEN IsFence(document[n])
             ELSE \A m \in FenceOf(n) : ClosedBy(document[n], document[m])
  <2>1. HiddenRightly(HiddenYet, n)
      BY <1>1 DEF Rendered, RenderedRightly, HiddenYet
  <2> QED
      BY <1>3, <2>1 DEF HiddenRightly
<1>5. ASSUME NEW n \in Body \ Hidden
      PROVE  /\ (n \in Shows({"code"})) <=> (FenceOf(n) # {})
             /\ \A m \in FenceOf(n) : ~ClosedBy(document[n], document[m])
             /\ FenceOf(n) = {} => ~IsFence(document[n])
  <2>1. ShownRightly(HiddenYet, n)
      BY <1>1 DEF Rendered, RenderedRightly, HiddenYet
  <2> QED
      BY <1>3, <2>1, ShowsWhatIsShown DEF ShownRightly
<1> QED
    BY <1>2, <1>4, <1>5 DEF AnswerIsPreserved

\* Whatever the document: every line is shown once, in its place, and hidden
\* are just matching fence lines (Renderer::entry, renderMarkdown).
THEOREM AnswersArePreserved == Spec => []AnswerIsPreserved
BY EndsPreserved, RenderingInvariant, PTL

-----------------------------------------------------------------------------
(* The fence the lint stands in before each line.                          *)

FenceStates == [marker : Markers \cup {None}, length : Nat, line : Nat]

ClosesFence(s, line) ==
    /\ LooksLikeFence(line) /\ line.marker = s.marker
    /\ line.run >= s.length /\ line.rest \in {"blank", "feed"}
Behind(s, line, n) ==
    IF s.marker = None
    THEN IF LooksLikeFence(line)
         THEN [marker |-> line.marker, length |-> line.run, line |-> n] ELSE s
    ELSE IF ClosesFence(s, line) THEN [s EXCEPT !.marker = None] ELSE s

NoFence == [marker |-> None, length |-> 0, line |-> 0]
IsScan(doc, S) ==
    /\ S \in [1..Len(doc) + 1 -> FenceStates]
    /\ S[1] = NoFence
    /\ \A n \in 1..Len(doc) : S[n + 1] = Behind(S[n], doc[n], n)
Scan == CHOOSE S : IsScan(document, S)

\* A state for every line.
LEMMA BehindIsState ==
    ASSUME NEW s \in FenceStates, NEW line \in Lines, NEW n \in Nat
    PROVE  Behind(s, line, n) \in FenceStates
<1>1. line.marker \in Markers /\ line.run \in Nat
    BY DEF Lines
<1>2. [marker |-> line.marker, length |-> line.run, line |-> n] \in FenceStates
    BY <1>1 DEF FenceStates
<1>3. [s EXCEPT !.marker = None] \in FenceStates
    BY DEF FenceStates
<1> QED
    BY <1>2, <1>3 DEF Behind

\* The states of a whole document.
LEMMA ScanExists ==
    ASSUME NEW doc \in Seq(Lines)
    PROVE  \E S : IsScan(doc, S)
<1> DEFINE N == Len(doc)
           D == 1..N + 1
           first == [n \in D |-> NoFence]
           last == [n \in D |-> n - 1]
           next == [p \in D \X FenceStates |-> Behind(p[2], doc[p[1] - 1], p[1] - 1)]
           rank == [n \in D |-> n]
<1>0. /\ N \in Nat
      /\ \A n \in D : n \in Nat /\ (n # 1 => n - 1 \in 1..N /\ n - 1 \in D /\ n - 1 \in Nat)
    OBVIOUS
<1>1. \A n \in 1..N : doc[n] \in Lines
    OBVIOUS
<1> HIDE DEF N, D
<1>2. Recursion(D, FenceStates, {1}, first, last, next, rank)
  <2>1. rank \in [D -> Nat]
      BY <1>0
  <2>2. \A n \in D : n \notin {1} => last[n] \in D /\ rank[last[n]] < rank[n]
      BY <1>0
  <2>3. NoFence \in FenceStates
      BY DEF NoFence, FenceStates
  <2>4. \A n \in D : first[n] \in FenceStates
      BY <2>3
  <2>5. ASSUME NEW n \in D, NEW s \in FenceStates, n \notin {1}
        PROVE  next[<<n, s>>] \in FenceStates
    <3>1. next[<<n, s>>] = Behind(s, doc[n - 1], n - 1)
        OBVIOUS
    <3>2. doc[n - 1] \in Lines /\ n - 1 \in Nat
        BY <1>0, <1>1, <2>5
    <3> QED
        BY <3>1, <3>2, BehindIsState
  <2> HIDE DEF first, last, next, rank
  <2> QED
      BY <2>1, <2>2, <2>3, <2>4, <2>5 DEF Recursion, Ranked
<1> HIDE DEF first, last, next, rank
<1>3. PICK S \in [D -> FenceStates] : Solution(S, D, {1}, first, last, next)
    BY <1>2, RankedRecursion
<1>4. 1 \in D /\ S[1] = NoFence
  <2>1. 1 \in D
      BY <1>0 DEF D
  <2>2. S[1] = first[1]
      BY <1>3, <2>1 DEF Solution
  <2> QED
      BY <2>1, <2>2 DEF first
<1>5. ASSUME NEW n \in 1..N PROVE S[n + 1] = Behind(S[n], doc[n], n)
  <2>1. n + 1 \in D /\ n + 1 \notin {1} /\ (n + 1) - 1 = n /\ n \in D
      BY <1>0 DEF D
  <2>2. S[n + 1] = next[<<n + 1, S[last[n + 1]]>>]
      BY <1>3, <2>1 DEF Solution
  <2>3. last[n + 1] = n /\ S[n] \in FenceStates
      BY <1>3, <2>1 DEF last
  <2> QED
      BY <2>1, <2>2, <2>3 DEF next
<1>6. IsScan(doc, S)
    BY <1>3, <1>4, <1>5 DEF IsScan, D, N
<1> QED
    BY <1>6

\* Scan is such a sequence of states.
LEMMA ScanScans ==
    ASSUME document \in Seq(Lines)
    PROVE  IsScan(document, Scan)
BY ScanExists DEF Scan

-----------------------------------------------------------------------------
(* What the lint reports.                                                  *)

IsText(n) == Scan[n].marker = None /\ ~LooksLikeFence(document[n])
Reports(n, d) ==
    \E k \in Reached(document[n].links) :
        /\ document[n].links[k] \notin {"external", "present"}
        /\ d = [line |-> n, about |-> document[n].links[k]]
ReportsUnclosed(d) ==
    LET s == Scan[Len(document) + 1]
    IN  s.marker # None /\ d = [line |-> s.line, about |-> "unclosed"]

LintInv ==
    /\ pc = "lint" =>
        /\ open_fence = Scan[at]
        /\ \A d : d \in diagnostics <=> \E n \in 1..(at - 1) : IsText(n) /\ Reports(n, d)
    /\ pc # "lint" =>
        \A d : d \in diagnostics <=>
            \/ \E n \in 1..Len(document) : IsText(n) /\ Reports(n, d)
            \/ ReportsUnclosed(d)

\* Initially.
LEMMA InitIsLinted == Init => LintInv
<1> SUFFICES ASSUME Init PROVE LintInv
    OBVIOUS
<1>1. document \in Seq(Lines) /\ pc = "lint" /\ at = 1 /\ open_fence = NoFence /\ diagnostics = {}
    BY DocumentsAssumption DEF Init, NoFence
<1>2. Scan[1] = NoFence
    BY <1>1, ScanScans DEF IsScan
<1>3. 1..(at - 1) = {}
    BY <1>1
<1> QED
    BY <1>1, <1>2, <1>3 DEF LintInv

\* A line of the lint.
LEMMA LineLinted ==
    ASSUME RenderInv, LintInv, Linting, NextLine,
           open_fence' = Behind(open_fence, Line, at),
           \A d : d \in diagnostics' <=> d \in diagnostics \/ (IsText(at) /\ Reports(at, d))
    PROVE  LintInv'
<1>1. /\ pc = "lint" /\ pc' = "lint" /\ at \in 1..Len(document) /\ at' = at + 1
      /\ document' = document /\ document \in Seq(Lines)
    BY DEF RenderInv, DocumentInv, Linting, NextLine
<1>2. Scan' = Scan
    BY <1>1 DEF Scan
<1>3. Scan[at + 1] = Behind(Scan[at], Line, at)
    BY <1>1, ScanScans DEF IsScan, Line
<1>4. open_fence' = Scan'[at']
    BY <1>1, <1>2, <1>3 DEF LintInv
<1>5. /\ \A n : IsText(n)' <=> IsText(n)
      /\ \A n, d : Reports(n, d)' <=> Reports(n, d)
    BY <1>1, <1>2 DEF IsText, Reports
<1>6. \A n : n \in 1..(at' - 1) <=> n \in 1..(at - 1) \/ n = at
    BY <1>1
<1>7. \A d : d \in diagnostics' <=> \E n \in 1..(at' - 1) : IsText(n)' /\ Reports(n, d)'
    BY <1>1, <1>5, <1>6 DEF LintInv
<1> QED
    BY <1>1, <1>4, <1>7 DEF LintInv

\* The diagnostics of a line.
LEMMA ReportsOfLine ==
    \A d : d \in LinkDiagnostics(Line) <=> Reports(at, d)
BY DEF LinkDiagnostics, Reports, Line

\* Each line of the lint.
LEMMA LintStep ==
    ASSUME RenderInv, LintInv, LintOpening \/ LintInside \/ LintText
    PROVE  LintInv'
<1>1. Linting /\ NextLine
    BY DEF LintOpening, LintInside, LintText
<1>2. open_fence = Scan[at]
    BY <1>1 DEF Linting, LintInv
<1>3. IsText(at) <=> ~Opened /\ ~LooksLikeFence(Line)
    BY <1>2 DEF IsText, Opened, Line
<1>4. CASE LintOpening
  <2>1. open_fence' = Behind(open_fence, Line, at) /\ diagnostics' = diagnostics /\ ~IsText(at)
      BY <1>3, <1>4 DEF LintOpening, Behind, Opened
  <2> QED
      BY <1>1, <2>1, LineLinted
<1>5. CASE LintInside
  <2>1. open_fence' = Behind(open_fence, Line, at) /\ diagnostics' = diagnostics /\ ~IsText(at)
      BY <1>3, <1>5 DEF LintInside, Behind, Opened, ClosesOpen, ClosesFence
  <2> QED
      BY <1>1, <2>1, LineLinted
<1>6. CASE LintText
  <2>1. open_fence' = Behind(open_fence, Line, at) /\ IsText(at)
      BY <1>3, <1>6 DEF LintText, Behind, Opened
  <2>2. diagnostics' = diagnostics \cup LinkDiagnostics(Line)
      BY <1>6 DEF LintText
  <2> QED
      BY <1>1, <2>1, <2>2, LineLinted, ReportsOfLine
<1> QED
    BY <1>4, <1>5, <1>6

\* The open fence is reported last.
LEMMA LintEndStep ==
    ASSUME RenderInv, LintInv, LintEnd
    PROVE  LintInv'
<1>1. /\ pc = "lint" /\ pc' = "render" /\ at = Len(document) + 1 /\ Len(document) \in Nat
      /\ document' = document
    BY DEF RenderInv, DocumentInv, LintEnd
<1>2. Scan' = Scan
    BY <1>1 DEF Scan
<1>3. open_fence = Scan[Len(document) + 1]
    BY <1>1 DEF LintInv
<1>4. /\ \A n : IsText(n)' <=> IsText(n)
      /\ \A n, d : Reports(n, d)' <=> Reports(n, d)
      /\ \A d : ReportsUnclosed(d)' <=> ReportsUnclosed(d)
    BY <1>1, <1>2 DEF IsText, Reports, ReportsUnclosed
<1>5. at - 1 = Len(document)
    BY <1>1
<1>6. \A d : d \in diagnostics' <=> d \in diagnostics \/ ReportsUnclosed(d)
    BY <1>3 DEF LintEnd, ReportsUnclosed, Opened
<1> QED
    BY <1>1, <1>4, <1>5, <1>6 DEF LintInv

\* The rendering reports nothing.
LEMMA LintIsPast ==
    ASSUME RenderInv, LintInv, UNCHANGED <<document, diagnostics>>,
           (pc # "lint" /\ pc' # "lint") \/ UNCHANGED <<pc, at, open_fence>>
    PROVE  LintInv'
<1>1. Scan' = Scan
    BY DEF Scan
<1>2. /\ \A n : IsText(n)' <=> IsText(n)
      /\ \A n, d : Reports(n, d)' <=> Reports(n, d)
      /\ \A d : ReportsUnclosed(d)' <=> ReportsUnclosed(d)
    BY <1>1 DEF IsText, Reports, ReportsUnclosed
<1> QED
    BY <1>1, <1>2 DEF LintInv

\* lintMarkdown reports the links of the lines outside of fences, and at the
\* end the fence that stays open; nothing else.
THEOREM LintInvariant == Spec => []LintInv
<1>1. Init => LintInv
    BY InitIsLinted
<1>2. RenderInv /\ LintInv /\ [Next]_vars => LintInv'
  <2> SUFFICES ASSUME RenderInv, LintInv, [Next]_vars PROVE LintInv'
      OBVIOUS
  <2>1. CASE LintOpening \/ LintInside \/ LintText
      BY <2>1, LintStep
  <2>2. CASE LintEnd
      BY <2>2, LintEndStep
  <2>3. CASE CloseFence \/ FencedLine \/ OpenFence \/ WriteBlock \/ Extend
    <3>1. pc # "lint" /\ pc' # "lint" /\ UNCHANGED <<document, diagnostics>>
        BY <2>3 DEF CloseFence, FencedLine, OpenFence, WriteBlock, Extend, Rendering,
                    NextLine, lint
    <3> QED
        BY <3>1, LintIsPast
  <2>4. CASE RenderEnd
    <3>1. pc # "lint" /\ pc' # "lint" /\ UNCHANGED <<document, diagnostics>>
        BY <2>4 DEF RenderEnd, lint
    <3> QED
        BY <3>1, LintIsPast
  <2>5. CASE UNCHANGED vars
      BY <2>5, LintIsPast DEF vars, lint
  <2> QED
      BY <2>1, <2>2, <2>3, <2>4, <2>5 DEF Next
<1> QED
    BY <1>1, <1>2, RenderingInvariant, PTL DEF Spec

-----------------------------------------------------------------------------
(* Blank blocks are blank lines.                                           *)

BlankInv == \A n : HasKind(output, "blank", n) => document[n].body = "blank"

\* A step that writes no other blank blocks.
LEMMA BlankStays ==
    ASSUME BlankInv, UNCHANGED document,
           \A n : HasKind(output, "blank", n)' =>
                    HasKind(output, "blank", n) \/ (n = at /\ Line.body = "blank")
    PROVE  BlankInv'
BY DEF BlankInv, Line

\* Each step.
LEMMA BlankStep ==
    ASSUME RenderInv, BlankInv, [Next]_vars
    PROVE  BlankInv'
<1>0. /\ at \in Nat /\ FirstLine(document) \in Nat /\ document \in Seq(Lines)
      /\ pc # "lint" => Written
    BY DEF RenderInv, DocumentInv, Rendered
<1>1. CASE LintOpening \/ LintInside \/ LintText \/ LintEnd
           \/ CloseFence \/ Extend \/ UNCHANGED vars
  <2>1. UNCHANGED <<document, output>>
      BY <1>1 DEF LintOpening, LintInside, LintText, LintEnd, CloseFence, Extend, NextLine, vars
  <2>2. \A n : HasKind(output, "blank", n)' <=> HasKind(output, "blank", n)
      BY <2>1 DEF HasKind
  <2> QED
      BY <2>1, <2>2, BlankStays
<1>2. CASE FencedLine
  <2>1. /\ Written /\ UNCHANGED document
        /\ output' = Append(output, [Block("code", <<at>>) EXCEPT !.kept = Kept(Line)])
      BY <1>0, <1>2 DEF FencedLine, Rendering, NextLine
  <2> DEFINE b == [Block("code", <<at>>) EXCEPT !.kept = Kept(Line)]
  <2>2. b.kind = "code"
      BY DEF Block
  <2> HIDE DEF b
  <2>3. \A k \in DOMAIN output' : output'[k].kind = "blank" =>
            k \in DOMAIN output /\ output'[k] = output[k]
    <3>1. output \in Seq(Blocks) /\ output' = Append(output, b)
        BY <2>1 DEF Written, b
    <3>2. /\ Len(output) \in Nat /\ DOMAIN output = 1..Len(output)
          /\ DOMAIN output' = 1..(Len(output) + 1)
          /\ \A k \in 1..(Len(output) + 1) : output'[k] = IF k <= Len(output) THEN output[k] ELSE b
        BY <3>1
    <3> QED
        BY <2>2, <3>2
  <2>4. \A n : HasKind(output, "blank", n)' => HasKind(output, "blank", n)
      BY <2>3 DEF HasKind
  <2> QED
      BY <2>1, <2>4, BlankStays
<1>3. CASE OpenFence \/ RenderEnd
  <2>1. Written /\ UNCHANGED document /\ Flush(<<>>)
      BY <1>0, <1>3 DEF OpenFence, RenderEnd, Rendering, NextLine
  <2>2. \A kind, n : HasKind(output', kind, n) <=>
            HasKind(output, kind, n) \/ (kind = "paragraph" /\ Pending(n))
      BY <1>0, <2>1, NoBlock, Flushed
  <2>3. \A n : HasKind(output, "blank", n)' <=> HasKind(output', "blank", n)
      BY DEF HasKind
  <2>4. \A n : HasKind(output, "blank", n)' => HasKind(output, "blank", n)
      BY <2>2, <2>3
  <2> QED
      BY <2>1, <2>4, BlankStays
<1>4. CASE WriteBlock
  <2> DEFINE b == [kind |-> KindOf(Line), lines |-> <<at>>, kept |-> 0]
  <2>1. /\ Written /\ UNCHANGED document /\ Flush(<<b>>) /\ KindOf(Line) # "text"
        /\ at <= Len(document)
      BY <1>0, <1>4 DEF WriteBlock, Rendering, NextLine, Block
  <2>2. Line \in Lines
      BY <1>0, <1>4, LineByLine DEF WriteBlock, RenderInv, DocumentInv, Rendered, Line, Rendering
  <2>3. KindOf(Line) \in Kinds
      BY <2>1, <2>2, KindsOfLines
  <2>4. KindOf(Line) = "blank" => Line.body = "blank"
    <3>1. CASE StartsLikeCode(Line) /\ Line.body # "blank"
        BY <3>1 DEF KindOf
    <3>2. CASE ~StartsLikeCode(Line)
      <4>1. Line.body = "title" => KindOf(Line) = "heading"
          BY <3>2 DEF KindOf
      <4>2. Line.body = "fence" => KindOf(Line) = "text"
          BY <3>2 DEF KindOf
      <4>3. Line.body # "title" /\ Line.body # "fence" => KindOf(Line) = Line.body
          BY <3>2 DEF KindOf
      <4> QED
          BY <4>1, <4>2, <4>3
    <3> QED
        BY <3>1, <3>2
  <2>5. /\ <<at>> \in Seq(Nat) /\ Ascends(<<at>>)
        /\ \A m : (\E j \in DOMAIN <<at>> : <<at>>[j] = m) <=> m = at
      BY <1>0, OneLine
  <2>6. b \in Blocks /\ b.lines = <<at>> /\ b.kind = KindOf(Line)
      BY <2>3, <2>5 DEF Blocks
  <2> HIDE DEF b
  <2>7. /\ <<b>> \in Seq(Blocks) /\ Ordered(<<b>>)
        /\ \A m : ShownIn(<<b>>, m) <=> m = at
        /\ \A k, m : HasKind(<<b>>, k, m) <=> b.kind = k /\ m = at
      BY <2>5, <2>6, OneBlock
  <2>8. \A kind, n : HasKind(output', kind, n) <=>
            \/ HasKind(output, kind, n) \/ HasKind(<<b>>, kind, n)
            \/ kind = "paragraph" /\ Pending(n)
    <3>1. \A n : ShownIn(<<b>>, n) => n = at
        BY <2>7
    <3> QED
        BY <1>0, <2>1, <2>7, <3>1, Flushed
  <2>9. \A n : HasKind(output, "blank", n)' <=> HasKind(output', "blank", n)
      BY DEF HasKind
  <2>10. \A n : HasKind(output, "blank", n)' =>
                    HasKind(output, "blank", n) \/ (n = at /\ Line.body = "blank")
      BY <2>4, <2>6, <2>7, <2>8, <2>9
  <2> QED
      BY <2>1, <2>10, BlankStays
<1> QED
    BY <1>1, <1>2, <1>3, <1>4 DEF Next

\* Blank blocks come from blank lines only.
LEMMA BlankInvariant == Spec => []BlankInv
<1>1. Init => BlankInv
    BY NoBlock DEF Init, BlankInv
<1>2. RenderInv /\ BlankInv /\ [Next]_vars => BlankInv'
    BY BlankStep
<1> QED
    BY <1>1, <1>2, RenderingInvariant, PTL DEF Spec

-----------------------------------------------------------------------------
(* Pairs, line by line.                                                    *)

\* From a line to the next.
LEMMA PairsStep ==
    ASSUME NEW H \in SUBSET Nat, NEW n \in Nat
    PROVE  /\ n \notin H => /\ Opens(H, n + 1) <=> Opens(H, n)
                            /\ Around(H, n + 1) = Around(H, n)
           /\ n \in H => /\ Opens(H, n + 1) <=> ~Opens(H, n)
                         /\ Around(H, n + 1) = IF Opens(H, n) THEN {n} ELSE {}
<1> DEFINE G(k) == {m \in H : m < k}
<1>0. \A m \in H : m \in Nat /\ (m < n + 1 <=> m < n \/ m = n) /\ ~(n < n)
    OBVIOUS
<1>1. CASE n \notin H
  <2>1. G(n + 1) = G(n)
    <3>1. \A m \in H : m < n + 1 <=> m < n
        BY <1>0, <1>1
    <3> QED
        BY <3>1
  <2>2. Opens(H, n + 1) <=> Opens(H, n)
      BY <2>1 DEF Opens
  <2>3. ASSUME NEW m \in H
        PROVE  /\ m < n + 1 <=> m < n
               /\ (\A h \in H : h <= m \/ h >= n + 1) <=> (\A h \in H : h <= m \/ h >= n)
      BY <1>1
  <2>4. Around(H, n + 1) = Around(H, n)
      BY <2>3 DEF Around
  <2> QED
      BY <1>1, <2>2, <2>4
<1>2. CASE n \in H
  <2>1. G(n + 1) = G(n) \cup {n} /\ n \notin G(n)
    <3>1. \A m : m \in G(n + 1) <=> m \in G(n) \/ m = n
        BY <1>0, <1>2
    <3> QED
        BY <1>0, <1>2, <3>1
  <2>2. IsFiniteSet(G(n)) /\ Cardinality(G(n)) \in Nat
    <3>1. G(n) \subseteq 0..n
      <4> SUFFICES ASSUME NEW m \in G(n) PROVE m \in 0..n
          OBVIOUS
      <4>1. m \in H /\ m < n
          OBVIOUS
      <4> QED
          BY <4>1
    <3>2. IsFiniteSet(0..n)
        BY FS_Interval
    <3> QED
        BY <3>1, <3>2, FS_Subset, FS_CardinalityType
  <2>3. Cardinality(G(n + 1)) = Cardinality(G(n)) + 1
      BY <2>1, <2>2, FS_AddElement
  <2>4. Opens(H, n + 1) <=> ~Opens(H, n)
    <3> DEFINE c == Cardinality(G(n))
               d == Cardinality(G(n + 1))
    <3>1. c \in Nat /\ d = c + 1
        BY <2>2, <2>3
    <3>2. (Opens(H, n) <=> c % 2 = 0) /\ (Opens(H, n + 1) <=> d % 2 = 0)
        BY DEF Opens
    <3> HIDE DEF c, d
    <3>3. d % 2 = 0 <=> ~(c % 2 = 0)
        BY <3>1
    <3> QED
        BY <3>2, <3>3
  <2>5. \A m \in H : m < n + 1 /\ (\A h \in H : h <= m \/ h >= n + 1) <=> m = n
    <3>1. ASSUME NEW m \in H, m < n + 1, \A h \in H : h <= m \/ h >= n + 1 PROVE m = n
        BY <1>2, <3>1
    <3>2. \A h \in H : h <= n \/ h >= n + 1
        OBVIOUS
    <3> QED
        BY <3>1, <3>2
  <2>6. Around(H, n + 1) = {m \in H : m = n /\ Opens(H, m)}
      BY <2>5 DEF Around
  <2>7. Around(H, n + 1) = IF Opens(H, n) THEN {n} ELSE {}
      BY <1>2, <2>6
  <2> QED
      BY <1>2, <2>4, <2>7
<1> QED
    BY <1>1, <1>2

-----------------------------------------------------------------------------
(* The two scanners, side by side.                                         *)

\* The lint's state before a line, in terms of what the rendering hid.
SideBySide(n) ==
    /\ Opens(Hidden, n) <=> Around(Hidden, n) = {}
    /\ Around(Hidden, n) = {} => Scan[n].marker = None
    /\ Around(Hidden, n) # {} => \E m \in Hidden :
        /\ Around(Hidden, n) = {m}
        /\ Scan[n] = [marker |-> document[m].marker, length |-> document[m].run, line |-> m]

\* The end of a rendering of a document without the odd fences.
AtTheEnd ==
    /\ document \in Seq(Lines) /\ IsScan(document, Scan)
    /\ \A k \in DOMAIN document : IsPlain(document[k])
    /\ FirstLine(document) \in Nat /\ FirstLine(document) >= 1
    /\ FirstLine(document) <= Len(document) + 1
    /\ Hidden \subseteq Body
    /\ \A n \in Hidden :
        IF Opens(Hidden, n) THEN IsFence(document[n])
        ELSE \A m \in Around(Hidden, n) : ClosedBy(document[n], document[m])
    /\ \A n \in Body \ Hidden :
        /\ (n \in Shows({"code"})) <=> (Around(Hidden, n) # {})
        /\ \A m \in Around(Hidden, n) : ~ClosedBy(document[n], document[m])
        /\ Around(Hidden, n) = {} => ~IsFence(document[n])

\* The line of the title and the blank one after it are no fences.
LEMMA StartsOutside ==
    ASSUME AtTheEnd
    PROVE  SideBySide(FirstLine(document))
<1> DEFINE first == FirstLine(document)
<1>1. \A h \in Hidden : h \in Nat /\ ~(h < first)
    BY DEF AtTheEnd, Body
<1>2. {m \in Hidden : m < first} = {}
    BY <1>1
<1>3. Around(Hidden, first) = {}
    BY <1>1 DEF Around
<1>4. Opens(Hidden, first)
    BY <1>2, FS_EmptySet DEF Opens
<1>5. /\ Len(document) \in Nat
      /\ Scan[1] = NoFence
      /\ \A n \in 1..Len(document) : Scan[n + 1] = Behind(Scan[n], document[n], n)
    BY DEF AtTheEnd, IsScan
<1>6. ASSUME NEW n \in 1..Len(document), Scan[n].marker = None, document[n].body # "fence"
      PROVE  Scan[n + 1].marker = None
    BY <1>5, <1>6 DEF Behind, LooksLikeFence
<1>7. Scan[1].marker = None
    BY <1>5 DEF NoFence
<1>8. CASE document = <<>> \/ document[1].body # "title"
    BY <1>3, <1>4, <1>7, <1>8 DEF FirstLine, SideBySide
<1>9. CASE ~(document = <<>> \/ document[1].body # "title")
  <2>1. Len(document) >= 1
      BY <1>5, <1>9 DEF AtTheEnd
  <2>2. 1 \in 1..Len(document) /\ document[1].body # "fence"
      BY <1>5, <1>9, <2>1
  <2>3. Scan[1 + 1].marker = None
      BY <1>6, <1>7, <2>2
  <2>4. CASE Len(document) > 1 /\ IsEmpty(document[2])
    <3>1. 2 \in 1..Len(document) /\ document[2].body # "fence" /\ 1 + 1 = 2
        BY <1>5, <2>4 DEF IsEmpty
    <3>2. Scan[2 + 1].marker = None
        BY <1>6, <2>3, <3>1
    <3>3. first = 3 /\ 2 + 1 = 3
        BY <1>9, <2>4 DEF FirstLine
    <3> QED
        BY <1>3, <1>4, <3>2, <3>3 DEF SideBySide
  <2>5. CASE ~(Len(document) > 1 /\ IsEmpty(document[2]))
    <3>1. first = 2 /\ 1 + 1 = 2
        BY <1>9, <2>5 DEF FirstLine
    <3> QED
        BY <1>3, <1>4, <2>3, <3>1 DEF SideBySide
  <2> QED
      BY <2>4, <2>5
<1> QED
    BY <1>8, <1>9

\* On a plain line they see the same.
LEMMA PlainLines ==
    ASSUME NEW line \in Lines, IsPlain(line)
    PROVE  /\ IsFence(line) <=> LooksLikeFence(line)
           /\ \A s : ClosesFence(s, line) <=>
                /\ IsCandidate(line) /\ line.marker = s.marker
                /\ line.run >= s.length /\ line.rest = "blank"
BY DEF IsPlain, IsFence, IsCandidate, LooksLikeFence, ClosesFence

\* A line on which they agree is followed by another.
LEMMA GoesOnSideBySide ==
    ASSUME AtTheEnd, NEW n \in Body, SideBySide(n)
    PROVE  SideBySide(n + 1)
<1>1. /\ n \in 1..Len(document) /\ n \in Nat /\ Len(document) \in Nat /\ Hidden \in SUBSET Nat
      /\ Scan[n + 1] = Behind(Scan[n], document[n], n)
      /\ document[n] \in Lines /\ IsPlain(document[n])
      /\ \A m \in Hidden : document[m] \in Lines
  <2>1. Len(document) \in Nat /\ \A k \in Body : k \in 1..Len(document) /\ k \in Nat
      BY DEF AtTheEnd, Body
  <2> QED
      BY <2>1 DEF AtTheEnd, IsScan
<1>2. /\ IsFence(document[n]) <=> LooksLikeFence(document[n])
      /\ \A s : ClosesFence(s, document[n]) <=>
            /\ IsCandidate(document[n]) /\ document[n].marker = s.marker
            /\ document[n].run >= s.length /\ document[n].rest = "blank"
    BY <1>1, PlainLines
<1>3. ASSUME NEW m \in Hidden,
             Scan[n] = [marker |-> document[m].marker, length |-> document[m].run, line |-> m]
      PROVE  /\ Scan[n].marker # None
             /\ ClosesFence(Scan[n], document[n]) <=> ClosedBy(document[n], document[m])
  <2>1. document[m].marker \in Markers
      BY <1>1 DEF Lines
  <2>2. document[m].marker # None
      BY <2>1 DEF Markers, None
  <2>3. Scan[n].marker = document[m].marker /\ Scan[n].length = document[m].run
      BY <1>3
  <2> QED
      BY <1>2, <2>2, <2>3 DEF ClosedBy
<1>4. CASE n \notin Hidden
  <2>1. (Opens(Hidden, n + 1) <=> Opens(Hidden, n)) /\ Around(Hidden, n + 1) = Around(Hidden, n)
      BY <1>1, <1>4, PairsStep
  <2>2. /\ \A m \in Around(Hidden, n) : ~ClosedBy(document[n], document[m])
        /\ Around(Hidden, n) = {} => ~IsFence(document[n])
      BY <1>4 DEF AtTheEnd
  <2>3. Scan[n + 1] = Scan[n]
    <3>1. CASE Around(Hidden, n) = {}
        BY <1>1, <1>2, <2>2, <3>1 DEF SideBySide, Behind
    <3>2. CASE Around(Hidden, n) # {}
      <4>1. PICK m \in Hidden :
                /\ Around(Hidden, n) = {m}
                /\ Scan[n] = [marker |-> document[m].marker,
                              length |-> document[m].run, line |-> m]
          BY <3>2 DEF SideBySide
      <4>2. Scan[n].marker # None /\ ~ClosesFence(Scan[n], document[n])
          BY <1>3, <2>2, <4>1
      <4> QED
          BY <1>1, <4>2 DEF Behind
    <3> QED
        BY <3>1, <3>2
  <2> QED
      BY <2>1, <2>3 DEF SideBySide
<1>5. CASE n \in Hidden /\ Opens(Hidden, n)
  <2>1. ~Opens(Hidden, n + 1) /\ Around(Hidden, n + 1) = {n}
      BY <1>1, <1>5, PairsStep
  <2>2. IsFence(document[n]) /\ Scan[n].marker = None
      BY <1>5 DEF AtTheEnd, SideBySide
  <2>3. Scan[n + 1] = [marker |-> document[n].marker, length |-> document[n].run, line |-> n]
      BY <1>1, <1>2, <2>2 DEF Behind
  <2> QED
      BY <1>5, <2>1, <2>3 DEF SideBySide
<1>6. CASE n \in Hidden /\ ~Opens(Hidden, n)
  <2>1. Opens(Hidden, n + 1) /\ Around(Hidden, n + 1) = {}
      BY <1>1, <1>6, PairsStep
  <2>2. PICK m \in Hidden :
            /\ Around(Hidden, n) = {m}
            /\ Scan[n] = [marker |-> document[m].marker, length |-> document[m].run, line |-> m]
      BY <1>6 DEF SideBySide
  <2>3. ClosedBy(document[n], document[m])
      BY <1>6, <2>2 DEF AtTheEnd
  <2>4. Scan[n].marker # None /\ ClosesFence(Scan[n], document[n])
      BY <1>3, <2>2, <2>3
  <2>5. Scan[n + 1] = [Scan[n] EXCEPT !.marker = None]
      BY <1>1, <2>4 DEF Behind
  <2>6. Scan[n + 1].marker = None
      BY <2>2, <2>5
  <2> QED
      BY <2>1, <2>6 DEF SideBySide
<1> QED
    BY <1>4, <1>5, <1>6

\* They agree to the end.
LEMMA StaysSideBySide ==
    ASSUME AtTheEnd
    PROVE  \A n \in FirstLine(document)..(Len(document) + 1) : SideBySide(n)
<1> DEFINE first == FirstLine(document)
           N == Len(document)
           S == {n \in first..(N + 1) : ~SideBySide(n)}
<1>1. first \in Nat /\ N \in Nat
    BY DEF AtTheEnd
<1> SUFFICES ASSUME S # {} PROVE FALSE
    OBVIOUS
<1>2. PICK m \in S : \A n \in S : m <= n
  <2>1. S \in SUBSET Nat
      BY <1>1
  <2> HIDE DEF S
  <2> QED
      BY <2>1, LeastNumber
<1>3. m \in first..(N + 1) /\ ~SideBySide(m)
    OBVIOUS
<1>4. m # first
    BY <1>3, StartsOutside
<1> HIDE DEF first, N
<1>5. m - 1 \in first..N /\ m - 1 \in first..(N + 1) /\ (m - 1) + 1 = m /\ ~(m <= m - 1)
    BY <1>1, <1>3, <1>4
<1>6. SideBySide(m - 1)
    BY <1>2, <1>5
<1>7. m - 1 \in Body
    BY <1>5 DEF Body, first, N
<1> QED
    BY <1>3, <1>5, <1>6, <1>7, GoesOnSideBySide

\* What the rendering leaves.
LEMMA EndsAtTheEnd ==
    ASSUME RenderInv, Done, \A k \in DOMAIN document : IsPlain(document[k])
    PROVE  AtTheEnd
<1>1. AnswerIsPreserved
    BY EndsPreserved
<1>2. DocumentInv /\ document \in Seq(Lines)
    BY DEF RenderInv, DocumentInv
<1>3. IsScan(document, Scan)
    BY <1>2, ScanScans
<1>4. \A n : (IsOpening(n) <=> Opens(Hidden, n)) /\ FenceOf(n) = Around(Hidden, n)
    BY DEF IsOpening, FenceOf, Opens, Around
<1>5. /\ \A n \in Hidden :
          IF Opens(Hidden, n) THEN IsFence(document[n])
          ELSE \A m \in Around(Hidden, n) : ClosedBy(document[n], document[m])
      /\ \A n \in Body \ Hidden :
          /\ (n \in Shows({"code"})) <=> (Around(Hidden, n) # {})
          /\ \A m \in Around(Hidden, n) : ~ClosedBy(document[n], document[m])
          /\ Around(Hidden, n) = {} => ~IsFence(document[n])
    BY <1>1, <1>4 DEF AnswerIsPreserved
<1>6. Hidden \subseteq Body
    BY DEF Hidden
<1> QED
    BY <1>2, <1>3, <1>5, <1>6 DEF AtTheEnd, DocumentInv

\* What is left open stands around the end.
LEMMA LeftOpenAtTheEnd ==
    ASSUME RenderInv, Done
    PROVE  LeftOpen = Around(Hidden, Len(document) + 1)
<1> DEFINE N == Len(document)
<1>1. Rendered /\ at = N + 1 /\ HiddenYet = Hidden /\ N \in Nat
    BY HiddenAtTheEnd DEF RenderInv, Rendered, Done, DocumentInv
<1>2. \A h \in Hidden : h \in Nat /\ h <= N
    BY <1>1 DEF Hidden, Body, RenderInv, DocumentInv
<1>3. CASE fence = None
    BY <1>1, <1>3 DEF LeftOpen, Rendered, Fenced
<1>4. CASE fence # None
  <2>1. PICK m \in Hidden : Around(Hidden, N + 1) = {m}
      BY <1>1, <1>4 DEF Rendered, Fenced
  <2> HIDE DEF N
  <2>2. \A h \in Hidden : h <= m
    <3>1. m \in Around(Hidden, N + 1)
        BY <2>1
    <3>2. \A h \in Hidden : h <= m \/ h >= N + 1
        BY <3>1 DEF Around
    <3> QED
        BY <1>1, <1>2, <3>2
  <2>3. \A n \in Hidden : (\A h \in Hidden : h <= n) <=> n = m
      BY <1>2, <2>2
  <2>4. LeftOpen = {m}
      BY <1>4, <2>3 DEF LeftOpen
  <2> QED
      BY <2>1, <2>4 DEF N
<1> QED
    BY <1>3, <1>4

\* A report about a link is about its line.
LEMMA ReportsLinks ==
    ASSUME document \in Seq(Lines), NEW n \in 1..Len(document), NEW d, Reports(n, d)
    PROVE  d.line = n /\ d.about \in Links /\ d.about # "unclosed"
<1>1. document[n] \in Lines
    OBVIOUS
<1>2. document[n].links \in Seq(Links)
    BY <1>1 DEF Lines
<1>3. PICK k \in Reached(document[n].links) : d = [line |-> n, about |-> document[n].links[k]]
    BY DEF Reports
<1>4. document[n].links[k] \in Links
    BY <1>2, <1>3 DEF Reached
<1> QED
    BY <1>3, <1>4 DEF Links

\* The fence reported is the one left open.
LEMMA UnclosedAgrees ==
    ASSUME RenderInv, LintInv, AtTheEnd, Done
    PROVE  ReportedUnclosed = LeftOpen
<1> DEFINE N == Len(document)
           s == Scan[N + 1]
<1>1. \A d : d \in diagnostics <=>
          (\E n \in 1..N : IsText(n) /\ Reports(n, d)) \/ ReportsUnclosed(d)
    BY DEF LintInv, Done
<1>2. /\ document \in Seq(Lines) /\ N \in Nat
      /\ FirstLine(document) \in Nat /\ FirstLine(document) <= N + 1
    BY DEF AtTheEnd
<1>3. \A n \in 1..N : \A d : Reports(n, d) => d.about # "unclosed"
    BY <1>2, ReportsLinks
<1>4. \A d : ReportsUnclosed(d) <=> s.marker # None /\ d = [line |-> s.line, about |-> "unclosed"]
    BY DEF ReportsUnclosed
<1> HIDE DEF s
<1>5. \A x : x \in ReportedUnclosed <=> s.marker # None /\ x = s.line
  <2> TAKE x
  <2>1. x \in ReportedUnclosed <=> \E d \in diagnostics : d.about = "unclosed" /\ x = d.line
      BY DEF ReportedUnclosed
  <2>2. \A d : d \in diagnostics /\ d.about = "unclosed" <=> ReportsUnclosed(d)
      BY <1>1, <1>3, <1>4
  <2>3. ASSUME x \in ReportedUnclosed PROVE s.marker # None /\ x = s.line
      BY <1>4, <2>1, <2>2, <2>3
  <2>4. ASSUME s.marker # None, x = s.line PROVE x \in ReportedUnclosed
    <3> DEFINE d == [line |-> s.line, about |-> "unclosed"]
    <3>1. ReportsUnclosed(d) /\ d.line = x /\ d.about = "unclosed"
        BY <1>4, <2>4
    <3> HIDE DEF d
    <3> QED
        BY <2>1, <2>2, <3>1
  <2> QED
      BY <2>3, <2>4
<1>6. SideBySide(N + 1)
    BY <1>2, StaysSideBySide
<1>7. CASE Around(Hidden, N + 1) = {}
    BY <1>5, <1>6, <1>7, LeftOpenAtTheEnd DEF SideBySide, s
<1>8. CASE Around(Hidden, N + 1) # {}
  <2>1. PICK m \in Hidden :
            /\ Around(Hidden, N + 1) = {m}
            /\ s = [marker |-> document[m].marker, length |-> document[m].run, line |-> m]
      BY <1>6, <1>8 DEF SideBySide, s
  <2>2. document[m].marker # None
    <3>1. m \in 1..N
        BY <1>2, <2>1 DEF AtTheEnd, Body
    <3>2. document[m] \in Lines
        BY <1>2, <3>1
    <3>3. document[m].marker \in Markers
        BY <3>2 DEF Lines
    <3> QED
        BY <3>3 DEF Markers, None
  <2>3. s.marker # None /\ s.line = m
      BY <2>1, <2>2
  <2> QED
      BY <1>5, <2>1, <2>3, LeftOpenAtTheEnd
<1> QED
    BY <1>7, <1>8

-----------------------------------------------------------------------------
(* What the user sees as text.                                             *)

\* Blocks do not share lines.
LEMMA OneKind ==
    ASSUME output \in Seq(Blocks), Ordered(output),
           NEW kind, NEW other, NEW n \in Nat, HasKind(output, kind, n), HasKind(output, other, n)
    PROVE  kind = other
<1>1. PICK k \in DOMAIN output : output[k].kind = kind
          /\ \E j \in DOMAIN output[k].lines : output[k].lines[j] = n
    BY DEF HasKind
<1>2. PICK l \in DOMAIN output : output[l].kind = other
          /\ \E j \in DOMAIN output[l].lines : output[l].lines[j] = n
    BY DEF HasKind
<1>3. k \in Nat /\ l \in Nat
    OBVIOUS
<1>4. ~(n < n)
    OBVIOUS
<1>5. ~(k < l) /\ ~(l < k)
    BY <1>1, <1>2, <1>4 DEF Ordered
<1>6. k = l
    BY <1>3, <1>5
<1> QED
    BY <1>1, <1>2, <1>6

\* The lint's text is what is shown as prose, indented or blank.
LEMMA TextIsShown ==
    ASSUME RenderInv, BlankInv, AtTheEnd, Done, NEW n \in Body
    PROVE  /\ IsText(n) <=> n \notin Hidden /\ n \notin Shows({"code"})
           /\ n \in Prose \cup Shows({"indented"}) => n \notin Hidden /\ n \notin Shows({"code"})
           /\ n \notin Hidden /\ n \notin Shows({"code"}) /\ document[n].body # "blank" =>
                n \in Prose \cup Shows({"indented"})
<1>0. /\ output \in Seq(Blocks) /\ Ordered(output)
      /\ \A m : m \in Hidden <=> m \in Body /\ ~ShownIn(output, m)
    BY ShowsWhatIsShown DEF RenderInv, Rendered, Written, Done, Hidden
<1>1. /\ n \in 1..Len(document) /\ n \in Nat /\ document[n] \in Lines /\ IsPlain(document[n])
      /\ n \in FirstLine(document)..(Len(document) + 1)
  <2>1. Len(document) \in Nat /\ n \in 1..Len(document)
      BY DEF AtTheEnd, Body
  <2> QED
      BY <2>1 DEF AtTheEnd, Body
<1>2. SideBySide(n)
    BY <1>1, StaysSideBySide
<1>3. IsFence(document[n]) <=> LooksLikeFence(document[n])
    BY <1>1, PlainLines
<1>4. Scan[n].marker = None <=> Around(Hidden, n) = {}
  <2>1. ASSUME NEW m \in Hidden PROVE document[m].marker # None
    <3>1. document[m] \in Lines
        BY DEF AtTheEnd, Body
    <3>2. document[m].marker \in Markers
        BY <3>1 DEF Lines
    <3> QED
        BY <3>2 DEF Markers, None
  <2>2. CASE Around(Hidden, n) = {}
      BY <1>2, <2>2 DEF SideBySide
  <2>3. CASE Around(Hidden, n) # {}
    <3>1. PICK m \in Hidden : Scan[n] = [marker |-> document[m].marker,
                                        length |-> document[m].run, line |-> m]
        BY <1>2, <2>3 DEF SideBySide
    <3>2. Scan[n].marker # None
        BY <2>1, <3>1
    <3> QED
        BY <2>3, <3>2
  <2> QED
      BY <2>2, <2>3
<1>5. IsText(n) <=> n \notin Hidden /\ n \notin Shows({"code"})
  <2>1. CASE n \in Hidden
      BY <1>2, <1>3, <1>4, <2>1 DEF IsText, SideBySide, AtTheEnd
  <2>2. CASE n \notin Hidden
      BY <1>3, <1>4, <2>2 DEF IsText, AtTheEnd
  <2> QED
      BY <2>1, <2>2
<1>6. n \in Prose \cup Shows({"indented"}) <=>
          \E kind \in {"paragraph", "heading", "quote", "item", "indented"} :
            HasKind(output, kind, n)
  <2>1. n \in Prose <=> \E kind \in {"paragraph", "heading", "quote", "item"} :
            HasKind(output, kind, n)
      BY DEF Prose, Shows, HasKind
  <2>2. n \in Shows({"indented"}) <=> HasKind(output, "indented", n)
      BY ShowsWhatIsShown
  <2> QED
      BY <2>1, <2>2
<1>7. n \in Shows({"code"}) <=> HasKind(output, "code", n)
    BY ShowsWhatIsShown
<1>8. ASSUME n \in Prose \cup Shows({"indented"}) PROVE n \notin Hidden /\ n \notin Shows({"code"})
  <2>1. PICK kind \in {"paragraph", "heading", "quote", "item", "indented"} :
            HasKind(output, kind, n)
      BY <1>6, <1>8
  <2>2. ShownIn(output, n)
      BY <2>1 DEF HasKind, ShownIn
  <2>3. HasKind(output, "code", n) => kind = "code"
      BY <1>0, <1>1, <2>1, OneKind
  <2> QED
      BY <1>0, <1>7, <2>1, <2>2, <2>3
<1>9. ASSUME n \notin Hidden, n \notin Shows({"code"}), document[n].body # "blank"
      PROVE  n \in Prose \cup Shows({"indented"})
  <2>1. ShownIn(output, n)
      BY <1>0, <1>9
  <2>2. PICK k \in DOMAIN output : \E j \in DOMAIN output[k].lines : output[k].lines[j] = n
      BY <2>1 DEF ShownIn
  <2>3. HasKind(output, output[k].kind, n)
      BY <2>2 DEF HasKind
  <2>4. output[k].kind \in Kinds
    <3>1. output[k] \in Blocks
        BY <1>0
    <3> QED
        BY <3>1 DEF Blocks
  <2>5. output[k].kind # "code" /\ output[k].kind # "blank"
      BY <1>7, <1>9, <2>3 DEF BlankInv
  <2> QED
      BY <1>6, <2>3, <2>4, <2>5 DEF Kinds
<1> QED
    BY <1>5, <1>8, <1>9

\* The links reported are the broken ones that are shown.
LEMMA LinksAgree ==
    ASSUME RenderInv, LintInv, BlankInv, AtTheEnd, Done, NEW n \in Body
    PROVE  (\E d \in diagnostics : d.line = n /\ d.about \in {"missing", "escaping"})
           <=> n \in Prose \cup Shows({"indented"}) /\ BrokenIn(n) # {}
<1> DEFINE N == Len(document)
<1>1. \A d : d \in diagnostics <=>
          (\E m \in 1..N : IsText(m) /\ Reports(m, d)) \/ ReportsUnclosed(d)
    BY DEF LintInv, Done
<1>2. document \in Seq(Lines) /\ n \in 1..N /\ document[n] \in Lines
  <2>1. N \in Nat /\ n \in 1..N
      BY DEF AtTheEnd, Body
  <2> QED
      BY <2>1 DEF AtTheEnd
<1>3. \A m \in 1..N : \A d : Reports(m, d) => d.line = m
    BY <1>2, ReportsLinks
<1>4. \A d : ReportsUnclosed(d) => d.about = "unclosed"
    BY DEF ReportsUnclosed
<1> HIDE DEF N
<1>5. (\E d \in diagnostics : d.line = n /\ d.about \in {"missing", "escaping"})
      <=> IsText(n) /\ \E d : Reports(n, d) /\ d.about \in {"missing", "escaping"}
    BY <1>1, <1>2, <1>3, <1>4
<1>6. (\E d : Reports(n, d) /\ d.about \in {"missing", "escaping"}) <=> BrokenIn(n) # {}
  <2>1. ASSUME NEW d, Reports(n, d), d.about \in {"missing", "escaping"}
        PROVE  BrokenIn(n) # {}
    <3>1. PICK k \in Reached(document[n].links) :
              d = [line |-> n, about |-> document[n].links[k]]
        BY <2>1 DEF Reports
    <3>2. d.about = document[n].links[k]
        BY <3>1
    <3>3. k \in BrokenIn(n)
        BY <2>1, <3>2 DEF BrokenIn
    <3> QED
        BY <3>3
  <2>2. ASSUME NEW k \in BrokenIn(n)
        PROVE  \E d : Reports(n, d) /\ d.about \in {"missing", "escaping"}
    <3> DEFINE d == [line |-> n, about |-> document[n].links[k]]
    <3>1. /\ k \in Reached(document[n].links) /\ document[n].links[k] \in {"missing", "escaping"}
          /\ document[n].links[k] \notin {"external", "present"}
        BY <2>2 DEF BrokenIn
    <3>2. Reports(n, d) /\ d.about \in {"missing", "escaping"}
        BY <3>1 DEF Reports
    <3> QED
        BY <3>2
  <2> QED
      BY <2>1, <2>2
<1>7. BrokenIn(n) # {} => document[n].body # "blank"
  <2>1. document[n].body = "blank" => document[n].links = <<>>
      BY <1>2 DEF Lines
  <2>2. document[n].links = <<>> => Reached(document[n].links) = {}
      BY DEF Reached
  <2> QED
      BY <2>1, <2>2 DEF BrokenIn
<1> QED
    BY <1>5, <1>6, <1>7, TextIsShown

\* On documents without the odd fences, lintMarkdown and renderMarkdown see
\* the same code, the same open fence and the same broken links.
THEOREM TheScannersAgree == Spec => []ScannersAgree
<1>1. RenderInv /\ LintInv /\ BlankInv => ScannersAgree
  <2> SUFFICES ASSUME RenderInv, LintInv, BlankInv, Done,
                      \A k \in DOMAIN document : IsPlain(document[k])
               PROVE  ScannersAgree
      BY DEF ScannersAgree
  <2>1. AtTheEnd
      BY EndsAtTheEnd
  <2>2. ReportedUnclosed = LeftOpen
      BY <2>1, UnclosedAgrees
  <2>3. \A n \in Body :
          (\E d \in diagnostics : d.line = n /\ d.about \in {"missing", "escaping"})
          <=> n \in Prose \cup Shows({"indented"}) /\ BrokenIn(n) # {}
      BY <2>1, LinksAgree
  <2> QED
      BY <2>2, <2>3 DEF ScannersAgree
<1> QED
    BY <1>1, RenderingInvariant, LintInvariant, BlankInvariant, PTL


-----------------------------------------------------------------------------
(* Characters of UTF-8.                                                    *)

\* The bits of a code point in the bytes of its character.
LEMMA TwoByteCode ==
    ASSUME NEW p \in 0..31, NEW q \in 0..63, NEW code \in Nat, code = p * 64 + q
    PROVE  /\ code \in Nat /\ code <= 2047 /\ code \div 64 = p /\ code % 64 = q /\ code \div 1 = code
           /\ code < 128 <=> p < 2
    BY SMT

ThreeByteBits(p, q, r, code) ==
    /\ code \in Nat /\ code <= 65535
    /\ code \div 4096 = p /\ (code \div 64) % 64 = q /\ (code \div 1) % 64 = r
    /\ code < 2048 <=> p = 0 /\ q < 32
    /\ 55296 <= code /\ code <= 57343 <=> p = 13 /\ q >= 32
LEMMA ThreeByteCode ==
    ASSUME NEW p \in 0..15, NEW q \in 0..63, NEW r \in 0..63, NEW code \in Nat,
           code = (p * 64 + q) * 64 + r
    PROVE  ThreeByteBits(p, q, r, code)
<1>1. code \div 64 = p * 64 + q /\ code \div 1 = code /\ code % 64 = r
    BY SMT
<1>2. (p * 64 + q) % 64 = q
    BY SMT
<1>3. code \div 4096 = p
    BY SMT
<1>4. code \in Nat /\ code <= 65535
    BY SMT
<1>5. code < 2048 <=> p = 0 /\ q < 32
    BY SMT
<1>6. 55296 <= code /\ code <= 57343 <=> p = 13 /\ q >= 32
    BY SMT
<1> QED
    BY <1>1, <1>2, <1>3, <1>4, <1>5, <1>6, SMT DEF ThreeByteBits

FourByteBits(p, q, r, t, code) ==
    /\ code \in Nat
    /\ code \div 262144 = p /\ (code \div 4096) % 64 = q
    /\ (code \div 64) % 64 = r /\ (code \div 1) % 64 = t
    /\ code < 65536 <=> p = 0 /\ q < 16
    /\ code <= 1114111 <=> p < 4 \/ (p = 4 /\ q < 16)
LEMMA FourByteCode ==
    ASSUME NEW p \in 0..7, NEW q \in 0..63, NEW r \in 0..63, NEW t \in 0..63, NEW code \in Nat,
           code = ((p * 64 + q) * 64 + r) * 64 + t
    PROVE  FourByteBits(p, q, r, t, code)
<1>1. code \div 64 = (p * 64 + q) * 64 + r /\ code \div 1 = code /\ code % 64 = t
    BY SMT
<1>2. code \div 4096 = p * 64 + q
    BY SMT
<1>3. (p * 64 + q) % 64 = q /\ ((p * 64 + q) * 64 + r) % 64 = r
    BY SMT
<1>4. code \div 262144 = p /\ code \in Nat
    BY SMT
<1>5. code < 65536 <=> p = 0 /\ q < 16
    BY SMT
<1>6. code <= 1114111 <=> p < 4 \/ (p = 4 /\ q < 16)
    BY SMT
<1> QED
    BY <1>1, <1>2, <1>3, <1>4, <1>5, <1>6, SMT DEF FourByteBits

\* The bits of a byte.
LEMMA LeadBits ==
    ASSUME NEW a \in 0..255
    PROVE  /\ a % 32 \in 0..31 /\ (192 + (a % 32) = a <=> a \in 192..223)
           /\ a % 16 \in 0..15 /\ (224 + (a % 16) = a <=> a \in 224..239)
           /\ a % 8 \in 0..7 /\ (240 + (a % 8) = a <=> a \in 240..247)
    BY SMT

LEMMA PayloadBits ==
    ASSUME NEW b \in 0..255
    PROVE  b % 64 \in 0..63 /\ (128 + (b % 64) = b <=> b \in 128..191)
    BY SMT

-----------------------------------------------------------------------------
\* What decodeUtf8 asks of the bytes of a character.
TwoBytes(a, b)         == a \in 194..223 /\ b \in 128..191
ThreeBytes(a, b, c)    == a \in 224..239 /\ b \in SecondBytes(a) /\ c \in 128..191
FourBytes(a, b, c, d)  == a \in 240..244 /\ b \in SecondBytes(a) /\ c \in 128..191 /\ d \in 128..191

LEMMA SecondByteRanges ==
    ASSUME NEW a \in 0..255, NEW b \in 128..191
    PROVE  /\ a = 224 => (b \in SecondBytes(a) <=> b >= 160)
           /\ a = 237 => (b \in SecondBytes(a) <=> b < 160)
           /\ a = 240 => (b \in SecondBytes(a) <=> b >= 144)
           /\ a = 244 => (b \in SecondBytes(a) <=> b < 144)
           /\ a \notin {224, 237, 240, 244} => b \in SecondBytes(a)
<1>1. a = 224 => SecondBytes(a) = 160..191
    BY DEF SecondBytes
<1>2. a = 237 => SecondBytes(a) = 128..159
    BY DEF SecondBytes
<1>3. a = 240 => SecondBytes(a) = 144..191
    BY DEF SecondBytes
<1>4. a = 244 => SecondBytes(a) = 128..143
    BY DEF SecondBytes
<1>5. a \notin {224, 237, 240, 244} => SecondBytes(a) = 128..191
    BY DEF SecondBytes
<1> QED
    BY <1>1, <1>2, <1>3, <1>4, <1>5

LEMMA SecondByteContinues ==
    ASSUME NEW a \in 0..255 PROVE SecondBytes(a) \subseteq 128..191
<1>1. \/ SecondBytes(a) = 160..191 \/ SecondBytes(a) = 128..159 \/ SecondBytes(a) = 144..191
      \/ SecondBytes(a) = 128..143 \/ SecondBytes(a) = 128..191
    BY DEF SecondBytes
<1> QED
    BY <1>1

\* Short sequences, element by element.
LEMMA TwoElements ==
    ASSUME NEW C, NEW s \in Seq(C), Len(s) = 2
    PROVE  \E a \in C, b \in C : s = <<a, b>>
<1>1. s[1] \in C /\ s[2] \in C
    OBVIOUS
<1>2. s = <<s[1], s[2]>>
    OBVIOUS
<1> QED
    BY <1>1, <1>2

LEMMA ThreeElements ==
    ASSUME NEW C, NEW s \in Seq(C), Len(s) = 3
    PROVE  \E a \in C, b \in C, c \in C : s = <<a, b, c>>
<1>0. \A i \in 1..3 : s[i] \in C
    OBVIOUS
<1>1. s[1] \in C /\ s[2] \in C /\ s[3] \in C
    BY <1>0
<1>2. s = <<s[1], s[2], s[3]>>
    OBVIOUS
<1> QED
    BY <1>1, <1>2

LEMMA FourElements ==
    ASSUME NEW C, NEW s \in Seq(C), Len(s) = 4
    PROVE  \E a \in C, b \in C, c \in C, d \in C : s = <<a, b, c, d>>
<1>1. s[1] \in C /\ s[2] \in C /\ s[3] \in C /\ s[4] \in C
    OBVIOUS
<1>2. s = <<s[1], s[2], s[3], s[4]>>
    OBVIOUS
<1> QED
    BY <1>1, <1>2

LEMMA OneByteCharacter ==
    ASSUME NEW s \in Seq(Byte), Len(s) = 1
    PROVE  IsCharacter(s) <=> s[1] <= 127
<1> DEFINE a == s[1]
<1>1. a \in Byte /\ s = <<a>>
    OBVIOUS
<1>2. a \in 0..255
    BY <1>1 DEF Byte
<1>3. CodePoint(s) = a
    BY SMT DEF CodePoint
<1> HIDE DEF a
<1>4. IsScalar(a)
    BY <1>2, SMT DEF IsScalar, IsSurrogate
<1>5. a <= 127 => Encoded(a) = <<a>>
    BY <1>2, SMT DEF Encoded
<1>6. a > 127 => Encoded(a) = <<192 + (a \div 64), Continuation(a, 1)>>
    BY <1>2, SMT DEF Encoded
<1>7. Encoded(a) = s <=> a <= 127
  <2>1. \A x, y : <<x, y>> # <<a>>
      OBVIOUS
  <2> QED
      BY <1>1, <1>2, <1>5, <1>6, <2>1
<1> QED
    BY <1>3, <1>4, <1>7 DEF IsCharacter, a

TwoByteAgrees(a, b, code) ==
    IsScalar(code) /\ Encoded(code) = <<a, b>> <=> TwoBytes(a, b)
LEMMA TwoByteEncoding ==
    ASSUME NEW a \in 0..255, NEW b \in 0..255,
           NEW p \in 0..31, 192 + p = a <=> a \in 192..223,
           NEW q \in 0..63, 128 + q = b <=> b \in 128..191,
           NEW code \in Nat, code = p * 64 + q
    PROVE  TwoByteAgrees(a, b, code)
<1> SUFFICES IsScalar(code) /\ Encoded(code) = <<a, b>> <=> TwoBytes(a, b)
    BY DEF TwoByteAgrees
<1>1. /\ code <= 2047 /\ code \div 64 = p /\ code % 64 = q /\ code \div 1 = code
      /\ code < 128 <=> p < 2
    BY TwoByteCode
<1>2. IsScalar(code)
    BY <1>1, SMT DEF IsScalar, IsSurrogate
<1>3. code < 128 => Encoded(code) = <<code>>
    BY SMT DEF Encoded
<1>4. ~(code < 128) => Encoded(code) = <<192 + p, 128 + q>>
  <2>1. ~(code < 128) => Encoded(code) = <<192 + (code \div 64), Continuation(code, 1)>>
      BY <1>1, SMT DEF Encoded
  <2>2. Continuation(code, 1) = 128 + q
      BY <1>1, SMT DEF Continuation, Payload
  <2> QED
      BY <1>1, <2>1, <2>2
<1>5. Encoded(code) = <<a, b>> <=> ~(code < 128) /\ 192 + p = a /\ 128 + q = b
  <2>1. \A x : <<x>> # <<a, b>>
      OBVIOUS
  <2>2. \A x, y : <<x, y>> = <<a, b>> <=> x = a /\ y = b
      OBVIOUS
  <2>3. CASE code < 128
      BY <1>3, <2>1, <2>3
  <2>4. CASE ~(code < 128)
      BY <1>4, <2>2, <2>4
  <2> QED
      BY <2>3, <2>4
<1>6. ~(code < 128) /\ 192 + p = a /\ 128 + q = b <=> TwoBytes(a, b)
    BY <1>1 DEF TwoBytes
<1> QED
    BY <1>2, <1>5, <1>6

LEMMA TwoByteAgreement ==
    ASSUME NEW a \in 0..255, NEW b \in 0..255
    PROVE  TwoByteAgrees(a, b, (a % 32) * 64 + (b % 64))
<1>1. a % 32 \in 0..31 /\ (192 + (a % 32) = a <=> a \in 192..223)
    BY LeadBits
<1>2. b % 64 \in 0..63 /\ (128 + (b % 64) = b <=> b \in 128..191)
    BY PayloadBits
<1>3. \A p \in 0..31, q \in 0..63 :
          /\ 192 + p = a <=> a \in 192..223
          /\ 128 + q = b <=> b \in 128..191
          => TwoByteAgrees(a, b, p * 64 + q)
  <2> SUFFICES ASSUME NEW p \in 0..31, 192 + p = a <=> a \in 192..223, NEW q \in 0..63, 128 + q = b <=> b \in 128..191
               PROVE  TwoByteAgrees(a, b, p * 64 + q)
      OBVIOUS
  <2>1. p * 64 + q \in Nat
      OBVIOUS
  <2> QED
      BY <2>1, TwoByteEncoding
<1> QED
    BY <1>1, <1>2, <1>3

LEMMA TwoByteCharacter ==
    ASSUME NEW s \in Seq(Byte), Len(s) = 2
    PROVE  IsCharacter(s) <=> TwoBytes(s[1], s[2])
<1>1. PICK a \in Byte, b \in Byte : s = <<a, b>>
    BY TwoElements
<1>2. a \in 0..255 /\ b \in 0..255
    BY DEF Byte
<1>3. s[1] = a /\ s[2] = b /\ Len(s) = 2
    BY <1>1
<1>4. CodePoint(s) = (a % 32) * 64 + (b % 64)
    BY <1>3, SMT DEF CodePoint, Payload
<1>5. TwoByteAgrees(a, b, CodePoint(s))
  <2>1. TwoByteAgrees(a, b, (a % 32) * 64 + (b % 64))
      BY <1>2, TwoByteAgreement
  <2> QED
      BY <1>4, <2>1, Zenon
<1> QED
    BY <1>1, <1>3, <1>5 DEF IsCharacter, TwoByteAgrees

ThreeByteAgrees(a, b, c, code) ==
    IsScalar(code) /\ Encoded(code) = <<a, b, c>> <=> ThreeBytes(a, b, c)
LEMMA ThreeByteEncoding ==
    ASSUME NEW a \in 0..255, NEW b \in 0..255, NEW c \in 0..255,
           NEW p \in 0..15, 224 + p = a <=> a \in 224..239,
           NEW q \in 0..63, 128 + q = b <=> b \in 128..191,
           NEW r \in 0..63, 128 + r = c <=> c \in 128..191,
           NEW code \in Nat, code = (p * 64 + q) * 64 + r
    PROVE  ThreeByteAgrees(a, b, c, code)
<1> SUFFICES IsScalar(code) /\ Encoded(code) = <<a, b, c>> <=> ThreeBytes(a, b, c)
    BY DEF ThreeByteAgrees
<1>1. /\ code <= 65535
      /\ code \div 4096 = p /\ (code \div 64) % 64 = q /\ (code \div 1) % 64 = r
      /\ code < 2048 <=> p = 0 /\ q < 32
      /\ 55296 <= code /\ code <= 57343 <=> p = 13 /\ q >= 32
  <2>1. ThreeByteBits(p, q, r, code)
      BY ThreeByteCode
  <2> QED
      BY <2>1, SMT DEF ThreeByteBits
<1>2. IsScalar(code) <=> ~(p = 13 /\ q >= 32)
    BY <1>1, SMT DEF IsScalar, IsSurrogate
<1>3. code < 2048 => \/ Encoded(code) = <<code>>
                     \/ Encoded(code) = <<192 + (code \div 64), Continuation(code, 1)>>
    BY <1>1, SMT DEF Encoded
<1>4. ~(code < 2048) => Encoded(code) = <<224 + p, 128 + q, 128 + r>>
  <2>1. ~(code < 2048) => Encoded(code)
            = <<224 + (code \div 4096), Continuation(code, 64), Continuation(code, 1)>>
      BY <1>1, SMT DEF Encoded
  <2>2. Continuation(code, 64) = 128 + q /\ Continuation(code, 1) = 128 + r
      BY <1>1, SMT DEF Continuation, Payload
  <2> QED
      BY <1>1, <2>1, <2>2, SMT
<1>5. Encoded(code) = <<a, b, c>> <=> /\ ~(code < 2048)
                                      /\ 224 + p = a /\ 128 + q = b /\ 128 + r = c
  <2>1. \A x, y : <<x>> # <<a, b, c>> /\ <<x, y>> # <<a, b, c>>
      OBVIOUS
  <2>2. \A x, y, z : <<x, y, z>> = <<a, b, c>> <=> x = a /\ y = b /\ z = c
      OBVIOUS
  <2>3. CASE code < 2048
      BY <1>3, <2>1, <2>3
  <2>4. CASE ~(code < 2048)
      BY <1>4, <2>2, <2>4
  <2> QED
      BY <2>3, <2>4
<1>6. ASSUME 224 + p = a, 128 + q = b
      PROVE  ~(code < 2048) /\ ~(p = 13 /\ q >= 32) <=> b \in SecondBytes(a)
  <2>1. b \in 128..191 /\ a \in 224..239
      BY <1>6
  <2>2. /\ p = 0 <=> a = 224
        /\ p = 13 <=> a = 237
        /\ a # 240 /\ a # 244
        /\ q < 32 <=> ~(b >= 160)
        /\ q >= 32 <=> ~(b < 160)
      BY <1>6
  <2>3. /\ a = 224 => (b \in SecondBytes(a) <=> b >= 160)
        /\ a = 237 => (b \in SecondBytes(a) <=> b < 160)
        /\ a \notin {224, 237, 240, 244} => b \in SecondBytes(a)
      BY <2>1, SecondByteRanges
  <2>4. code < 2048 <=> p = 0 /\ q < 32
      BY <1>1, SMT
  <2> QED
      BY <2>2, <2>3, <2>4
<1>7. b \in SecondBytes(a) => b \in 128..191
    BY SecondByteContinues
<1> QED
    BY <1>2, <1>5, <1>6, <1>7, Zenon DEF ThreeBytes

LEMMA ThreeByteAgreement ==
    ASSUME NEW a \in 0..255, NEW b \in 0..255, NEW c \in 0..255
    PROVE  ThreeByteAgrees(a, b, c, ((a % 16) * 64 + (b % 64)) * 64 + (c % 64))
<1>1. a % 16 \in 0..15 /\ (224 + (a % 16) = a <=> a \in 224..239)
    BY LeadBits
<1>2. b % 64 \in 0..63 /\ (128 + (b % 64) = b <=> b \in 128..191)
    BY PayloadBits
<1>3. c % 64 \in 0..63 /\ (128 + (c % 64) = c <=> c \in 128..191)
    BY PayloadBits
<1>4. \A p \in 0..15, q \in 0..63, r \in 0..63 :
          /\ 224 + p = a <=> a \in 224..239
          /\ 128 + q = b <=> b \in 128..191
          /\ 128 + r = c <=> c \in 128..191
          => ThreeByteAgrees(a, b, c, (p * 64 + q) * 64 + r)
  <2> SUFFICES ASSUME NEW p \in 0..15, 224 + p = a <=> a \in 224..239, NEW q \in 0..63, 128 + q = b <=> b \in 128..191, NEW r \in 0..63, 128 + r = c <=> c \in 128..191
               PROVE  ThreeByteAgrees(a, b, c, (p * 64 + q) * 64 + r)
      OBVIOUS
  <2>1. (p * 64 + q) * 64 + r \in Nat
      OBVIOUS
  <2> QED
      BY <2>1, ThreeByteEncoding
<1> QED
    BY <1>1, <1>2, <1>3, <1>4

LEMMA ThreeByteCharacter ==
    ASSUME NEW s \in Seq(Byte), Len(s) = 3
    PROVE  IsCharacter(s) <=> ThreeBytes(s[1], s[2], s[3])
<1>1. PICK a \in Byte, b \in Byte, c \in Byte : s = <<a, b, c>>
    BY ThreeElements
<1>2. a \in 0..255 /\ b \in 0..255 /\ c \in 0..255
    BY DEF Byte
<1>3. s[1] = a /\ s[2] = b /\ s[3] = c /\ Len(s) = 3
    BY <1>1
<1>4. CodePoint(s) = ((a % 16) * 64 + (b % 64)) * 64 + (c % 64)
    BY <1>3, SMT DEF CodePoint, Payload
<1>5. ThreeByteAgrees(a, b, c, CodePoint(s))
  <2>1. ThreeByteAgrees(a, b, c, ((a % 16) * 64 + (b % 64)) * 64 + (c % 64))
      BY <1>2, ThreeByteAgreement
  <2> QED
      BY <1>4, <2>1, Zenon
<1> QED
    BY <1>1, <1>3, <1>5 DEF IsCharacter, ThreeByteAgrees

FourByteAgrees(a, b, c, d, code) ==
    IsScalar(code) /\ Encoded(code) = <<a, b, c, d>> <=> FourBytes(a, b, c, d)
LEMMA FourByteEncoding ==
    ASSUME NEW a \in 0..255, NEW b \in 0..255, NEW c \in 0..255, NEW d \in 0..255,
           NEW p \in 0..7, 240 + p = a <=> a \in 240..247,
           NEW q \in 0..63, 128 + q = b <=> b \in 128..191,
           NEW r \in 0..63, 128 + r = c <=> c \in 128..191,
           NEW t \in 0..63, 128 + t = d <=> d \in 128..191,
           NEW code \in Nat, code = ((p * 64 + q) * 64 + r) * 64 + t
    PROVE  FourByteAgrees(a, b, c, d, code)
<1> SUFFICES IsScalar(code) /\ Encoded(code) = <<a, b, c, d>> <=> FourBytes(a, b, c, d)
    BY DEF FourByteAgrees
<1>1. /\ code \div 262144 = p /\ (code \div 4096) % 64 = q
      /\ (code \div 64) % 64 = r /\ (code \div 1) % 64 = t
      /\ code < 65536 <=> p = 0 /\ q < 16
      /\ code <= 1114111 <=> p < 4 \/ (p = 4 /\ q < 16)
  <2>1. FourByteBits(p, q, r, t, code)
      BY FourByteCode
  <2> QED
      BY <2>1, SMT DEF FourByteBits
<1> DEFINE small == code < 65536
           valid == p < 4 \/ (p = 4 /\ q < 16)
<1>2. ~small => (IsScalar(code) <=> valid)
    BY <1>1, SMT DEF IsScalar, IsSurrogate
<1>3. small =>
        \/ Encoded(code) = <<code>>
        \/ Encoded(code) = <<192 + (code \div 64), Continuation(code, 1)>>
        \/ Encoded(code) = <<224 + (code \div 4096), Continuation(code, 64), Continuation(code, 1)>>
    BY <1>1, SMT DEF Encoded
<1>4. ~small => Encoded(code) = <<240 + p, 128 + q, 128 + r, 128 + t>>
  <2>1. ~small => Encoded(code)
            = <<240 + (code \div 262144), Continuation(code, 4096),
                Continuation(code, 64), Continuation(code, 1)>>
      BY <1>1, SMT DEF Encoded
  <2>2. /\ Continuation(code, 4096) = 128 + q
        /\ Continuation(code, 64) = 128 + r
        /\ Continuation(code, 1) = 128 + t
      BY <1>1, SMT DEF Continuation, Payload
  <2>3. code \div 262144 = p
      BY <1>1, SMT
  <2> QED
      BY <2>1, <2>2, <2>3, SMT
<1>5. small <=> p = 0 /\ q < 16
    BY <1>1, SMT
<1> HIDE DEF small
<1>6. Encoded(code) = <<a, b, c, d>> <=> /\ ~small
                                         /\ 240 + p = a /\ 128 + q = b
                                         /\ 128 + r = c /\ 128 + t = d
  <2>1. \A x, y, z : /\ <<x>> # <<a, b, c, d>> /\ <<x, y>> # <<a, b, c, d>>
                     /\ <<x, y, z>> # <<a, b, c, d>>
      OBVIOUS
  <2>2. \A x, y, z, w : <<x, y, z, w>> = <<a, b, c, d>> <=> x = a /\ y = b /\ z = c /\ w = d
      OBVIOUS
  <2>3. CASE small
      BY <1>3, <2>1, <2>3
  <2>4. CASE ~small
      BY <1>4, <2>2, <2>4
  <2> QED
      BY <2>3, <2>4
<1>7. ASSUME 240 + p = a, 128 + q = b
      PROVE  ~small /\ valid <=> a \in 240..244 /\ b \in SecondBytes(a)
  <2>1. b \in 128..191 /\ a \in 240..247
      BY <1>7
  <2>2. /\ p = 0 <=> a = 240
        /\ p = 4 <=> a = 244
        /\ a # 224 /\ a # 237
        /\ q < 16 <=> b < 144
        /\ q < 16 <=> ~(b >= 144)
        /\ p < 4 <=> a \in 240..243
        /\ a \in 240..244 <=> a \in 240..243 \/ a = 244
      BY <1>7
  <2>3. /\ a = 240 => (b \in SecondBytes(a) <=> b >= 144)
        /\ a = 244 => (b \in SecondBytes(a) <=> b < 144)
        /\ a \notin {224, 237, 240, 244} => b \in SecondBytes(a)
      BY <2>1, SecondByteRanges
  <2> QED
      BY <1>5, <2>2, <2>3
<1>8. /\ b \in SecondBytes(a) => b \in 128..191
      /\ a \in 240..244 => a \in 240..247
    BY SecondByteContinues
<1> HIDE DEF valid
<1> QED
    BY <1>2, <1>6, <1>7, <1>8, Zenon DEF FourBytes

LEMMA FourByteAgreement ==
    ASSUME NEW a \in 0..255, NEW b \in 0..255, NEW c \in 0..255, NEW d \in 0..255
    PROVE  FourByteAgrees(a, b, c, d, (((a % 8) * 64 + (b % 64)) * 64 + (c % 64)) * 64 + (d % 64))
<1>1. a % 8 \in 0..7 /\ (240 + (a % 8) = a <=> a \in 240..247)
    BY LeadBits
<1>2. b % 64 \in 0..63 /\ (128 + (b % 64) = b <=> b \in 128..191)
    BY PayloadBits
<1>3. c % 64 \in 0..63 /\ (128 + (c % 64) = c <=> c \in 128..191)
    BY PayloadBits
<1>4. d % 64 \in 0..63 /\ (128 + (d % 64) = d <=> d \in 128..191)
    BY PayloadBits
<1>5. \A p \in 0..7, q \in 0..63, r \in 0..63, t \in 0..63 :
          /\ 240 + p = a <=> a \in 240..247
          /\ 128 + q = b <=> b \in 128..191
          /\ 128 + r = c <=> c \in 128..191
          /\ 128 + t = d <=> d \in 128..191
          => FourByteAgrees(a, b, c, d, ((p * 64 + q) * 64 + r) * 64 + t)
  <2> SUFFICES ASSUME NEW p \in 0..7, 240 + p = a <=> a \in 240..247, NEW q \in 0..63, 128 + q = b <=> b \in 128..191, NEW r \in 0..63, 128 + r = c <=> c \in 128..191, NEW t \in 0..63, 128 + t = d <=> d \in 128..191
               PROVE  FourByteAgrees(a, b, c, d, ((p * 64 + q) * 64 + r) * 64 + t)
      OBVIOUS
  <2>1. ((p * 64 + q) * 64 + r) * 64 + t \in Nat
      OBVIOUS
  <2> QED
      BY <2>1, FourByteEncoding
<1> QED
    BY <1>1, <1>2, <1>3, <1>4, <1>5

LEMMA FourByteCharacter ==
    ASSUME NEW s \in Seq(Byte), Len(s) = 4
    PROVE  IsCharacter(s) <=> FourBytes(s[1], s[2], s[3], s[4])
<1>1. PICK a \in Byte, b \in Byte, c \in Byte, d \in Byte : s = <<a, b, c, d>>
    BY FourElements
<1>2. a \in 0..255 /\ b \in 0..255 /\ c \in 0..255 /\ d \in 0..255
    BY DEF Byte
<1>3. s[1] = a /\ s[2] = b /\ s[3] = c /\ s[4] = d /\ Len(s) = 4
    BY <1>1
<1>4. CodePoint(s) = (((a % 8) * 64 + (b % 64)) * 64 + (c % 64)) * 64 + (d % 64)
    BY <1>3, SMT DEF CodePoint, Payload
<1>5. FourByteAgrees(a, b, c, d, CodePoint(s))
  <2>1. FourByteAgrees(a, b, c, d, (((a % 8) * 64 + (b % 64)) * 64 + (c % 64)) * 64 + (d % 64))
      BY <1>2, FourByteAgreement
  <2> QED
      BY <1>4, <2>1, Zenon
<1> QED
    BY <1>1, <1>3, <1>5 DEF IsCharacter, FourByteAgrees


-----------------------------------------------------------------------------
(* decodeUtf8 finds exactly the characters.                                *)

LEMMA ByteAt == ASSUME NEW s \in Seq(Byte), NEW i \in 1..Len(s) PROVE s[i] \in 0..255
<1>1. s[i] \in Byte
  <2> HIDE DEF Byte
  <2> QED
      OBVIOUS
<1> QED
    BY <1>1 DEF Byte

LeadsTo(a) ==
    /\ LengthFrom(a) \in 0..4
    /\ LengthFrom(a) = 1 <=> a <= 127
    /\ LengthFrom(a) = 2 <=> a \in 194..223
    /\ LengthFrom(a) = 3 <=> a \in 224..239
    /\ LengthFrom(a) = 4 <=> a \in 240..244
LEMMA LeadLengths == ASSUME NEW a \in 0..255 PROVE LeadsTo(a)
<1>1. a <= 127 => LengthFrom(a) = 1
    BY DEF LengthFrom
<1>2. a \in 194..223 => LengthFrom(a) = 2
    BY DEF LengthFrom
<1>3. a \in 224..239 => LengthFrom(a) = 3
    BY DEF LengthFrom
<1>4. a \in 240..244 => LengthFrom(a) = 4
    BY DEF LengthFrom
<1>5. a \in 128..193 \/ a \in 245..255 => LengthFrom(a) = 0
    BY DEF LengthFrom
<1> QED
    BY <1>1, <1>2, <1>3, <1>4, <1>5 DEF LeadsTo

\* A character of n bytes stands at i.
StandsAt(s, i, n) ==
    /\ LengthFrom(s[i]) = n /\ i + n - 1 <= Len(s)
    /\ n > 1 => s[i + 1] \in SecondBytes(s[i])
    /\ \A k \in 2..n - 1 : IsContinuationByte(s[i + k])
LEMMA DecodedCases ==
    ASSUME NEW s \in Seq(Byte), NEW i \in 1..Len(s)
    PROVE  /\ DecodedLength(s, i) \in 0..4
           /\ \A n \in 1..4 : DecodedLength(s, i) = n <=> StandsAt(s, i, n)
<1>1. s[i] \in 0..255
    BY ByteAt
<1>2. PICK n : n = LengthFrom(s[i])
    OBVIOUS
<1>3. n \in 0..4
    BY <1>1, <1>2, LeadLengths DEF LeadsTo
<1>4. DecodedLength(s, i) = IF n > 0 /\ StandsAt(s, i, n) THEN n ELSE 0
    BY <1>2 DEF DecodedLength, StandsAt
<1>5. \A m : StandsAt(s, i, m) => m = n
    BY <1>2 DEF StandsAt
<1> QED
    BY <1>3, <1>4, <1>5

LEMMA BytesOf ==
    ASSUME NEW s \in Seq(Byte), NEW i \in 1..Len(s), NEW n \in 1..4, i + n - 1 <= Len(s)
    PROVE  LET c == SubSeq(s, i, i + n - 1) IN
           /\ c \in Seq(Byte) /\ Len(c) = n
           /\ \A k \in 1..n : c[k] = s[i + k - 1] /\ s[i + k - 1] \in 0..255
<1> DEFINE c == SubSeq(s, i, i + n - 1)
<1>1. c \in Seq(Byte) /\ Len(c) = n /\ \A k \in 1..n : c[k] = s[i + k - 1]
    BY SubSeqProperties
<1>2. \A k \in 1..n : c[k] \in Byte
    BY <1>1
<1>3. \A k \in 1..n : c[k] \in 0..255
    BY <1>2 DEF Byte
<1> QED
    BY <1>1, <1>3

LEMMA CharacterAt ==
    ASSUME NEW s \in Seq(Byte), NEW i \in 1..Len(s), NEW n \in 1..4
    PROVE  i + n - 1 <= Len(s) /\ IsCharacter(SubSeq(s, i, i + n - 1)) <=> DecodedLength(s, i) = n
<1> DEFINE c == SubSeq(s, i, i + n - 1)
<1>1. DecodedLength(s, i) = n <=> StandsAt(s, i, n)
    BY DecodedCases
<1>2. StandsAt(s, i, n) => i + n - 1 <= Len(s)
    BY DEF StandsAt
<1> SUFFICES ASSUME i + n - 1 <= Len(s) PROVE IsCharacter(c) <=> StandsAt(s, i, n)
    BY <1>1, <1>2
<1>3. /\ c \in Seq(Byte) /\ Len(c) = n
      /\ \A k \in 1..n : c[k] = s[i + k - 1] /\ s[i + k - 1] \in 0..255
    BY BytesOf
<1> HIDE DEF c
<1>4. s[i] \in 0..255 /\ c[1] = s[i] /\ i + 1 - 1 = i
  <2>1. i + 1 - 1 = i /\ 1 \in 1..n
      OBVIOUS
  <2> QED
      BY <1>3, <2>1
<1>5. CASE n = 1
  <2>1. IsCharacter(c) <=> s[i] <= 127
      BY <1>3, <1>4, <1>5, OneByteCharacter
  <2>2. StandsAt(s, i, n) <=> LengthFrom(s[i]) = 1
      BY <1>5 DEF StandsAt
  <2> QED
      BY <1>4, <2>1, <2>2, LeadLengths DEF LeadsTo
<1>6. CASE n = 2
  <2>1. c[2] = s[i + 1] /\ s[i + 1] \in 0..255
    <3>1. i + 2 - 1 = i + 1 /\ 2 \in 1..n
        BY <1>6
    <3> QED
        BY <1>3, <3>1
  <2>2. IsCharacter(c) <=> TwoBytes(s[i], s[i + 1])
      BY <1>3, <1>4, <1>6, <2>1, TwoByteCharacter
  <2>3. StandsAt(s, i, n) <=> LengthFrom(s[i]) = 2 /\ s[i + 1] \in SecondBytes(s[i])
      BY <1>6 DEF StandsAt
  <2>4. s[i] \in 194..223 => (s[i + 1] \in SecondBytes(s[i]) <=> s[i + 1] \in 128..191)
    <3>1. SecondBytes(s[i]) \subseteq 128..191
        BY <1>4, SecondByteContinues
    <3>2. ASSUME s[i] \in 194..223, s[i + 1] \in 128..191 PROVE s[i + 1] \in SecondBytes(s[i])
      <4>1. s[i] \notin {224, 237, 240, 244}
        <5>1. \A a \in 194..223 : a \notin {224, 237, 240, 244}
            OBVIOUS
        <5> QED
            BY <3>2, <5>1
      <4> QED
          BY <1>4, <3>2, <4>1, SecondByteRanges
    <3> QED
        BY <3>1, <3>2
  <2>5. LengthFrom(s[i]) = 2 <=> s[i] \in 194..223
    <3>1. PICK a \in 0..255 : a = s[i]
        BY <1>4
    <3>2. LeadsTo(a)
        BY LeadLengths
    <3>3. LengthFrom(a) = 2 <=> a \in 194..223
        BY <3>2 DEF LeadsTo
    <3> QED
        BY <3>1, <3>3
  <2> QED
      BY <2>2, <2>3, <2>4, <2>5 DEF TwoBytes
<1>7. CASE n = 3
  <2>1. c[2] = s[i + 1] /\ c[3] = s[i + 2]
    <3>1. i + 2 - 1 = i + 1 /\ i + 3 - 1 = i + 2 /\ 2 \in 1..n /\ 3 \in 1..n
        BY <1>7
    <3> QED
        BY <1>3, <3>1
  <2>2. IsCharacter(c) <=> ThreeBytes(s[i], s[i + 1], s[i + 2])
      BY <1>3, <1>4, <1>7, <2>1, ThreeByteCharacter
  <2>3. StandsAt(s, i, n) <=> /\ LengthFrom(s[i]) = 3 /\ s[i + 1] \in SecondBytes(s[i])
                              /\ IsContinuationByte(s[i + 2])
    <3>1. \A k : k \in 2..n - 1 <=> k = 2
        BY <1>7
    <3> QED
        BY <1>7, <3>1 DEF StandsAt
  <2>4. LengthFrom(s[i]) = 3 <=> s[i] \in 224..239
    <3>1. PICK a \in 0..255 : a = s[i]
        BY <1>4
    <3>2. LeadsTo(a)
        BY LeadLengths
    <3>3. LengthFrom(a) = 3 <=> a \in 224..239
        BY <3>2 DEF LeadsTo
    <3> QED
        BY <3>1, <3>3
  <2> QED
      BY <2>2, <2>3, <2>4 DEF ThreeBytes, IsContinuationByte
<1>8. CASE n = 4
  <2>1. c[2] = s[i + 1] /\ c[3] = s[i + 2] /\ c[4] = s[i + 3]
    <3>1. /\ i + 2 - 1 = i + 1 /\ i + 3 - 1 = i + 2 /\ i + 4 - 1 = i + 3
          /\ 2 \in 1..n /\ 3 \in 1..n /\ 4 \in 1..n
        BY <1>8
    <3> QED
        BY <1>3, <3>1
  <2>2. IsCharacter(c) <=> FourBytes(s[i], s[i + 1], s[i + 2], s[i + 3])
      BY <1>3, <1>4, <1>8, <2>1, FourByteCharacter
  <2>3. StandsAt(s, i, n) <=> /\ LengthFrom(s[i]) = 4 /\ s[i + 1] \in SecondBytes(s[i])
                              /\ IsContinuationByte(s[i + 2]) /\ IsContinuationByte(s[i + 3])
    <3>1. \A k : k \in 2..n - 1 <=> k = 2 \/ k = 3
        BY <1>8
    <3> QED
        BY <1>8, <3>1 DEF StandsAt
  <2>4. LengthFrom(s[i]) = 4 <=> s[i] \in 240..244
    <3>1. PICK a \in 0..255 : a = s[i]
        BY <1>4
    <3>2. LeadsTo(a)
        BY LeadLengths
    <3>3. LengthFrom(a) = 4 <=> a \in 240..244
        BY <3>2 DEF LeadsTo
    <3> QED
        BY <3>1, <3>3
  <2> QED
      BY <2>2, <2>3, <2>4 DEF FourBytes, IsContinuationByte
<1> QED
    BY <1>5, <1>6, <1>7, <1>8

\* The bytes of a character after its first continue it.
LEMMA Continues ==
    ASSUME NEW s \in Seq(Byte), NEW i \in 1..Len(s), NEW n \in 1..4, StandsAt(s, i, n)
    PROVE  /\ i + n - 1 <= Len(s)
           /\ \A j \in i + 1..i + n - 1 : j \in 1..Len(s) /\ s[j] \in 128..191
           /\ n = 1 <=> s[i] <= 127
<1>1. i + n - 1 <= Len(s)
    BY DEF StandsAt
<1>2. s[i] \in 0..255
    BY ByteAt
<1>3. ASSUME NEW j \in i + 1..i + n - 1 PROVE j \in 1..Len(s) /\ s[j] \in 128..191
  <2>1. CASE j = i + 1
    <3>1. n > 1
        BY <1>3, <2>1
    <3>2. s[i + 1] \in SecondBytes(s[i])
        BY <3>1 DEF StandsAt
    <3>3. SecondBytes(s[i]) \subseteq 128..191
        BY <1>2, SecondByteContinues
    <3>5. s[i + 1] \in 128..191
        BY <3>2, <3>3
    <3>4. j \in 1..Len(s)
        BY <1>1, <1>3
    <3> QED
        BY <2>1, <3>4, <3>5
  <2>2. CASE j # i + 1
    <3>1. j - i \in 2..n - 1 /\ i + (j - i) = j
        BY <2>2
    <3>2. IsContinuationByte(s[i + (j - i)])
        BY <3>1 DEF StandsAt
    <3> QED
        BY <1>1, <3>1, <3>2 DEF IsContinuationByte
  <2> QED
      BY <2>1, <2>2
<1>4. n = 1 <=> s[i] <= 127
    BY <1>2, LeadLengths DEF StandsAt, LeadsTo
<1> QED
    BY <1>1, <1>3, <1>4

LEMMA ContinuationLeadsNothing ==
    ASSUME NEW s \in Seq(Byte), NEW i \in 1..Len(s), s[i] \in 128..191
    PROVE  DecodedLength(s, i) = 0
<1>1. s[i] \in 0..255
    BY ByteAt
<1>2. LengthFrom(s[i]) \notin 1..4
  <2>1. PICK a \in 128..191 : a = s[i]
      OBVIOUS
  <2>2. a \in 0..255 /\ ~(a <= 127) /\ a \notin 194..223 /\ a \notin 224..239 /\ a \notin 240..244
      OBVIOUS
  <2>3. LeadsTo(a)
    <3>1. a \in 0..255
        OBVIOUS
    <3> QED
        BY <3>1, LeadLengths
  <2>4. LengthFrom(a) \notin {1, 2, 3, 4}
      BY <2>2, <2>3 DEF LeadsTo
  <2>5. LengthFrom(a) \notin 1..4
      BY <2>4
  <2> QED
      BY <2>1, <2>5
<1>3. \A n \in 1..4 : ~StandsAt(s, i, n)
    BY <1>2 DEF StandsAt
<1> QED
    BY <1>3, DecodedCases

\* What stands at a place depends on what follows, and only on that.
LEMMA DecodedInSuffix ==
    ASSUME NEW s \in Seq(Byte), NEW a \in 0..Len(s), NEW i \in 1..Len(s) - a
    PROVE  DecodedLength(SubSeq(s, a + 1, Len(s)), i) = DecodedLength(s, a + i)
<1> DEFINE t == SubSeq(s, a + 1, Len(s))
<1>1. t \in Seq(Byte) /\ Len(t) = Len(s) - a /\ \A k \in 1..Len(s) - a : t[k] = s[a + k]
  <2>1. t \in Seq(Byte) /\ Len(t) = Len(s) - a /\ \A k \in 1..Len(s) - a : t[k] = s[(a + 1) + k - 1]
      BY SubSeqProperties
  <2> QED
      BY <2>1
<1> HIDE DEF t
<1>2. i \in 1..Len(t) /\ a + i \in 1..Len(s)
    BY <1>1
<1>3. \A n \in 1..4 : StandsAt(t, i, n) <=> StandsAt(s, a + i, n)
  <2> SUFFICES ASSUME NEW n \in 1..4 PROVE StandsAt(t, i, n) <=> StandsAt(s, a + i, n)
      OBVIOUS
  <2>1. t[i] = s[a + i]
      BY <1>1, <1>2
  <2>2. i + n - 1 <= Len(t) <=> (a + i) + n - 1 <= Len(s)
      BY <1>1
  <2>3. ASSUME i + n - 1 <= Len(t), NEW k \in 1..n - 1 PROVE t[i + k] = s[(a + i) + k]
    <3>1. i + k \in 1..Len(s) - a /\ a + (i + k) = (a + i) + k
        BY <1>1, <2>3
    <3> QED
        BY <1>1, <3>1
  <2>4. ASSUME i + n - 1 <= Len(t), n > 1 PROVE t[i + 1] = s[(a + i) + 1]
    <3>1. 1 \in 1..n - 1
        BY <2>4
    <3> QED
        BY <2>3, <2>4, <3>1
  <2>5. \A k \in 2..n - 1 : k \in 1..n - 1
      OBVIOUS
  <2>6. ASSUME i + n - 1 <= Len(t), NEW k \in 2..n - 1 PROVE t[i + k] = s[(a + i) + k]
      BY <2>3, <2>5, <2>6
  <2>7. CASE i + n - 1 <= Len(t)
    <3>1. \A k \in 2..n - 1 : t[i + k] = s[(a + i) + k]
        BY <2>6, <2>7
    <3>2. (a + i) + n - 1 <= Len(s)
        BY <2>2, <2>7
    <3>3. n > 1 => t[i + 1] = s[(a + i) + 1]
        BY <2>4, <2>7
    <3> HIDE DEF IsContinuationByte, SecondBytes, LengthFrom
    <3> QED
        BY <2>1, <2>7, <3>1, <3>2, <3>3 DEF StandsAt
  <2>8. CASE ~(i + n - 1 <= Len(t))
      BY <2>2, <2>8 DEF StandsAt
  <2> QED
      BY <2>7, <2>8
<1>4. /\ DecodedLength(t, i) \in 0..4 /\ DecodedLength(s, a + i) \in 0..4
      /\ \A n \in 1..4 : DecodedLength(t, i) = n <=> DecodedLength(s, a + i) = n
    BY <1>1, <1>2, <1>3, DecodedCases
<1>5. DecodedLength(t, i) = DecodedLength(s, a + i)
    BY <1>4
<1> QED
    BY <1>5 DEF t

LEMMA DecodedPrefix ==
    ASSUME NEW u \in Seq(Byte), NEW t \in Seq(Byte), NEW n \in 1..4, Len(u) = n,
           DecodedLength(u, 1) = n
    PROVE  DecodedLength(u \o t, 1) = n
<1> DEFINE s == u \o t
<1>1. s \in Seq(Byte) /\ Len(s) = n + Len(t) /\ \A k \in 1..n : s[k] = u[k]
    BY ConcatProperties
<1>2. Len(t) \in Nat /\ 1 \in 1..Len(u) /\ 1 \in 1..Len(s)
    BY <1>1
<1> HIDE DEF s
<1>3. StandsAt(u, 1, n)
    BY <1>2, DecodedCases
<1>4. StandsAt(s, 1, n)
  <2>1. s[1] = u[1] /\ 1 + n - 1 <= Len(s)
      BY <1>1, <1>2
  <2>2. n > 1 => s[1 + 1] = u[1 + 1]
      BY <1>1
  <2>3. \A k \in 2..n - 1 : s[1 + k] = u[1 + k]
      BY <1>1
  <2> QED
      BY <1>3, <2>1, <2>2, <2>3 DEF StandsAt
<1>5. DecodedLength(s, 1) = n
    BY <1>1, <1>2, <1>4, DecodedCases
<1> QED
    BY <1>5 DEF s

-----------------------------------------------------------------------------
(* What a string means, from its first character on.                       *)

LEMMA FlattenConcat ==
    ASSUME NEW V, NEW a \in Seq(Seq(V)), NEW b \in Seq(Seq(V))
    PROVE  FlattenSeq(a) \in Seq(V) /\ FlattenSeq(a \o b) = FlattenSeq(a) \o FlattenSeq(b)
<1> DEFINE same == [x \in Seq(V) |-> x]
<1>1. same \in [Seq(V) -> Seq(V)]
    OBVIOUS
<1>2. ASSUME NEW s \in Seq(Seq(V)) PROVE Spread(same, s) = FlattenSeq(s)
  <2>1. \A i \in DOMAIN s : s[i] \in Seq(V)
      OBVIOUS
  <2>2. \A i \in DOMAIN s : same[s[i]] = s[i]
      BY <2>1
  <2>3. s = [i \in DOMAIN s |-> s[i]]
      OBVIOUS
  <2> HIDE DEF same
  <2>4. [i \in DOMAIN s |-> same[s[i]]] = s
      BY <2>2, <2>3
  <2> QED
      BY <2>4 DEF Spread
<1> HIDE DEF same
<1>3. Spreads(Seq(V), V, same)
    BY <1>1, SpreadConcat
<1>4. a \o b \in Seq(Seq(V))
    BY ConcatProperties
<1> QED
    BY <1>2, <1>3, <1>4 DEF Spreads

LEMMA FlattenOne ==
    ASSUME NEW V, NEW x \in Seq(V) PROVE FlattenSeq(<<x>>) = x
<1>1. <<>> \in Seq(Seq(V)) /\ Append(<<>>, x) = <<x>>
    OBVIOUS
<1>2. FlattenSeq(<<x>>) = <<>> \o x
    BY <1>1, FlattenAppend, FlattenEmpty
<1> QED
    BY <1>2, ConcatEmptySeq

LEMMA FlattenNothing ==
    ASSUME NEW s, NEW n \in Nat, s = [i \in 1..n |-> <<>>] PROVE FlattenSeq(s) = <<>>
<1>1. <<>> \in Seq({})
    OBVIOUS
<1>2. s \in Seq(Seq({}))
    BY <1>1
<1>3. FlattenSeq(s) \in Seq({})
    BY <1>2, FlattenConcat
<1>4. \A t \in Seq({}) : t = <<>>
  <2> SUFFICES ASSUME NEW t \in Seq({}), t # <<>> PROVE FALSE
      OBVIOUS
  <2> QED
      BY SequenceEmptyOrAppend
<1> QED
    BY <1>3, <1>4

LEMMA CodePointIsNumber ==
    ASSUME NEW c \in Seq(Byte), Len(c) \in 1..4 PROVE CodePoint(c) \in Nat
<1>2. CASE Len(c) = 1
  <2>1. 1 \in 1..Len(c)
      BY <1>2
  <2>2. c[1] \in 0..255
      BY <2>1, ByteAt
  <2>3. CodePoint(c) = c[1]
      BY <1>2, SMT DEF CodePoint
  <2>4. \A a \in 0..255 : a \in Nat
      OBVIOUS
  <2> QED
      BY <2>2, <2>3, <2>4
<1>3. CASE Len(c) = 2
  <2>1. PICK a \in Byte, b \in Byte : c = <<a, b>>
      BY <1>3, TwoElements
  <2>2. CodePoint(c) = (a % 32) * 64 + (b % 64)
      BY <2>1, SMT DEF CodePoint, Payload
  <2>3. a \in 0..255 /\ b \in 0..255
      BY DEF Byte
  <2>4. \A x, y \in 0..255 : (x % 32) * 64 + (y % 64) \in Nat
      OBVIOUS
  <2> QED
      BY <2>2, <2>3, <2>4, Zenon
<1>4. CASE Len(c) = 3
  <2>1. PICK a \in Byte, b \in Byte, d \in Byte : c = <<a, b, d>>
      BY <1>4, ThreeElements
  <2>2. CodePoint(c) = ((a % 16) * 64 + (b % 64)) * 64 + (d % 64)
      BY <2>1, SMT DEF CodePoint, Payload
  <2>3. \A x \in Byte : x \in 0..255
      BY DEF Byte
  <2>4. ((a % 16) * 64 + (b % 64)) * 64 + (d % 64) \in Nat
    <3>1. a \in 0..255 /\ b \in 0..255 /\ d \in 0..255
        BY <2>3
    <3> QED
        BY <3>1, SMT
  <2> QED
      BY <2>2, <2>4, Zenon
<1>5. CASE Len(c) = 4
  <2>1. PICK a \in Byte, b \in Byte, d \in Byte, e \in Byte : c = <<a, b, d, e>>
      BY <1>5, FourElements
  <2>2. CodePoint(c) = (((a % 8) * 64 + (b % 64)) * 64 + (d % 64)) * 64 + (e % 64)
      BY <2>1, SMT DEF CodePoint, Payload
  <2>3. \A x \in Byte : x \in 0..255
      BY DEF Byte
  <2>4. (((a % 8) * 64 + (b % 64)) * 64 + (d % 64)) * 64 + (e % 64) \in Nat
    <3>1. a \in 0..255 /\ b \in 0..255 /\ d \in 0..255 /\ e \in 0..255
        BY <2>3
    <3> QED
        BY <3>1, SMT
  <2> QED
      BY <2>2, <2>4, Zenon
<1>6. Len(c) = 1 \/ Len(c) = 2 \/ Len(c) = 3 \/ Len(c) = 4
    OBVIOUS
<1> QED
    BY <1>2, <1>3, <1>4, <1>5, <1>6

\* The characters of a string are where decodeUtf8 finds one.
LEMMA CharactersDecoded ==
    ASSUME NEW s \in Seq(Byte)
    PROVE  \A r : r \in CharactersOf(s)
                      <=> r \in (1..Len(s)) \X (1..4) /\ DecodedLength(s, r[1]) = r[2]
<1> SUFFICES ASSUME NEW r \in (1..Len(s)) \X (1..4)
             PROVE  r[1] + r[2] - 1 <= Len(s) /\ IsCharacter(SubSeq(s, r[1], r[1] + r[2] - 1))
                        <=> DecodedLength(s, r[1]) = r[2]
    BY Zenon DEF CharactersOf
<1>1. PICK i \in 1..Len(s), n \in 1..4 : r[1] = i /\ r[2] = n
    OBVIOUS
<1> QED
    BY <1>1, CharacterAt

CharacterOf(s, i) == SubSeq(s, i, i + DecodedLength(s, i) - 1)
Covered(s, i) ==
    \E j \in 1..Len(s) : DecodedLength(s, j) # 0 /\ j <= i /\ i < j + DecodedLength(s, j)
MeaningAt(s, i) ==
    IF DecodedLength(s, i) # 0 THEN <<CodePoint(CharacterOf(s, i))>>
    ELSE IF Covered(s, i) THEN <<>>
    ELSE <<Replacement>>

LEMMA CharacterHere ==
    ASSUME NEW s \in Seq(Byte), NEW i \in 1..Len(s)
    PROVE  /\ (\E r \in CharactersOf(s) : r[1] = i) <=> DecodedLength(s, i) # 0
           /\ DecodedLength(s, i) # 0 =>
                  (CHOOSE r \in CharactersOf(s) : r[1] = i) = <<i, DecodedLength(s, i)>>
<1> DEFINE d == DecodedLength(s, i)
<1>1. d \in 0..4
    BY DecodedCases
<1>2. \A r \in CharactersOf(s) : r[1] = i => r = <<i, d>> /\ d # 0
  <2> SUFFICES ASSUME NEW r \in CharactersOf(s), r[1] = i PROVE r = <<i, d>> /\ d # 0
      OBVIOUS
  <2>1. r \in (1..Len(s)) \X (1..4) /\ d = r[2]
      BY CharactersDecoded
  <2> HIDE DEF d
  <2> QED
      BY <2>1
<1>3. d # 0 => <<i, d>> \in CharactersOf(s) /\ <<i, d>>[1] = i
  <2> SUFFICES ASSUME d # 0 PROVE <<i, d>> \in CharactersOf(s)
      OBVIOUS
  <2>1. <<i, d>> \in (1..Len(s)) \X (1..4) /\ <<i, d>>[1] = i /\ <<i, d>>[2] = d
      BY <1>1
  <2> QED
      BY <2>1, CharactersDecoded
<1> HIDE DEF d
<1>4. (\E r \in CharactersOf(s) : r[1] = i) <=> d # 0
    BY <1>2, <1>3
<1>5. d # 0 => (CHOOSE r \in CharactersOf(s) : r[1] = i) = <<i, d>>
    BY <1>2, <1>3
<1> QED
    BY <1>4, <1>5 DEF d

LEMMA MeaningUnits ==
    ASSUME NEW s \in Seq(Byte)
    PROVE  Meaning(s) = FlattenSeq([i \in 1..Len(s) |-> MeaningAt(s, i)])
<1> DEFINE chars == CharactersOf(s)
           Mean(i) == IF \E r \in chars : r[1] = i
                    THEN LET r == CHOOSE r \in chars : r[1] = i
                         IN <<CodePoint(SubSeq(s, i, i + r[2] - 1))>>
                    ELSE IF \E r \in chars : Covers(r, i) THEN <<>>
                    ELSE <<Replacement>>
<1>1. Meaning(s) = FlattenSeq([i \in 1..Len(s) |-> Mean(i)])
    BY DEF Meaning
<1>2. ASSUME NEW i \in 1..Len(s) PROVE Mean(i) = MeaningAt(s, i)
  <2>1. (\E r \in chars : r[1] = i) <=> DecodedLength(s, i) # 0
      BY CharacterHere
  <2>2. DecodedLength(s, i) # 0 => (CHOOSE r \in chars : r[1] = i) = <<i, DecodedLength(s, i)>>
      BY CharacterHere
  <2>3. (\E r \in chars : Covers(r, i)) <=> Covered(s, i)
    <3>1. ASSUME NEW r \in chars, Covers(r, i) PROVE Covered(s, i)
      <4>1. r \in (1..Len(s)) \X (1..4) /\ DecodedLength(s, r[1]) = r[2]
          BY CharactersDecoded
      <4>2. r[1] \in 1..Len(s) /\ DecodedLength(s, r[1]) # 0
          BY <4>1
      <4> QED
          BY <3>1, <4>1, <4>2 DEF Covers, Covered
    <3>2. ASSUME NEW j \in 1..Len(s), DecodedLength(s, j) # 0, j <= i, i < j + DecodedLength(s, j)
          PROVE  \E r \in chars : Covers(r, i)
      <4>1. DecodedLength(s, j) \in 0..4
          BY DecodedCases
      <4>2. PICK r : r = <<j, DecodedLength(s, j)>>
          OBVIOUS
      <4>3. r \in (1..Len(s)) \X (1..4) /\ r[1] = j /\ r[2] = DecodedLength(s, j)
          BY <3>2, <4>1, <4>2
      <4>4. r \in chars
          BY <4>3, CharactersDecoded
      <4>5. Covers(r, i)
          BY <3>2, <4>3 DEF Covers
      <4> QED
          BY <4>4, <4>5
    <3> QED
        BY <3>1, <3>2 DEF Covered
  <2> HIDE DEF chars
  <2>4. CASE DecodedLength(s, i) # 0
    <3>1. PICK q : q = (CHOOSE r \in chars : r[1] = i)
        OBVIOUS
    <3>2. Mean(i) = <<CodePoint(SubSeq(s, i, i + q[2] - 1))>>
        BY <2>1, <2>4, <3>1
    <3>3. q = <<i, DecodedLength(s, i)>>
        BY <2>2, <2>4, <3>1
    <3>4. q[2] = DecodedLength(s, i)
        BY <3>3
    <3> QED
        BY <2>4, <3>2, <3>4 DEF MeaningAt, CharacterOf
  <2>5. CASE DecodedLength(s, i) = 0
      BY <2>1, <2>3, <2>5 DEF MeaningAt
  <2> QED
      BY <2>4, <2>5
<1> HIDE DEF Mean
<1> QED
    BY <1>1, <1>2

\* How many bytes the first character takes, or the first byte without one.
Width(s, i) == IF DecodedLength(s, i) = 0 THEN 1 ELSE DecodedLength(s, i)

LEMMA FirstWidth ==
    ASSUME NEW s \in Seq(Byte), NEW i \in 1..Len(s)
    PROVE  /\ Width(s, i) \in 1..4 /\ i + Width(s, i) - 1 <= Len(s)
           /\ \A j \in i + 1..i + Width(s, i) - 1 : j \in 1..Len(s) /\ DecodedLength(s, j) = 0
<1> DEFINE n == Width(s, i)
<1>1. DecodedLength(s, i) \in 0..4
    BY DecodedCases
<1>2. CASE DecodedLength(s, i) = 0
  <2>1. n = 1
      BY <1>2 DEF Width
  <2> QED
      BY <2>1
<1>3. CASE DecodedLength(s, i) # 0
  <2>1. n \in 1..4 /\ DecodedLength(s, i) = n
      BY <1>1, <1>3 DEF Width
  <2> HIDE DEF n
  <2>2. StandsAt(s, i, n)
      BY <2>1, DecodedCases
  <2>3. /\ i + n - 1 <= Len(s)
        /\ \A j \in i + 1..i + n - 1 : j \in 1..Len(s) /\ s[j] \in 128..191
      BY <2>1, <2>2, Continues
  <2>4. \A j \in i + 1..i + n - 1 : j \in 1..Len(s) /\ DecodedLength(s, j) = 0
      BY <2>3, ContinuationLeadsNothing
  <2> QED
      BY <2>1, <2>3, <2>4 DEF n
<1> QED
    BY <1>2, <1>3

\* A character covers its own bytes and no other.
LEMMA CoveredAtStart ==
    ASSUME NEW s \in Seq(Byte), s # <<>>
    PROVE  /\ \A i \in 2..Width(s, 1) : Covered(s, i)
           /\ DecodedLength(s, 1) = 0 => ~Covered(s, 1)
<1>1. Len(s) \in Nat /\ 1 \in 1..Len(s)
    BY EmptySeq
<1>2. DecodedLength(s, 1) \in 0..4
    BY <1>1, DecodedCases
<1>3. ASSUME NEW i \in 2..Width(s, 1) PROVE Covered(s, i)
  <2>1. DecodedLength(s, 1) # 0 /\ i < 1 + DecodedLength(s, 1) /\ 1 <= i
      BY <1>2, <1>3 DEF Width
  <2> QED
      BY <1>1, <2>1 DEF Covered
<1>4. ASSUME DecodedLength(s, 1) = 0, Covered(s, 1) PROVE FALSE
  <2>1. PICK j \in 1..Len(s) : DecodedLength(s, j) # 0 /\ j <= 1
      BY <1>4 DEF Covered
  <2>2. j = 1
      BY <2>1
  <2> QED
      BY <1>4, <2>1, <2>2
<1> QED
    BY <1>3, <1>4

LEMMA PartBehind ==
    ASSUME NEW S, NEW s \in Seq(S), NEW a \in 0..Len(s), NEW i \in 1..Len(s) - a,
           NEW e \in 1..Len(s) - a
    PROVE  SubSeq(SubSeq(s, a + 1, Len(s)), i, e) = SubSeq(s, a + i, a + e)
<1>1. PICK p : p = a + 1
    OBVIOUS
<1>2. PICK q : q = Len(s)
    OBVIOUS
<1>3. p \in 1..Len(s) /\ q \in 1..Len(s)
    BY <1>1, <1>2
<1>4. i \in 1..q - p + 1 /\ e \in 1..q - p + 1
    BY <1>1, <1>2
<1>5. SubSeq(SubSeq(s, p, q), i, e) = SubSeq(s, p + i - 1, p + e - 1)
    BY <1>3, <1>4, SubSeqOfSubSeq
<1>6. p + i - 1 = a + i /\ p + e - 1 = a + e
    BY <1>1
<1> QED
    BY <1>1, <1>2, <1>5, <1>6

\* What stands behind the first character means what it means alone.
LEMMA MeaningBehind ==
    ASSUME NEW s \in Seq(Byte), s # <<>>
    PROVE  LET n == Width(s, 1)
               t == SubSeq(s, n + 1, Len(s)) IN
           /\ n \in 1..Len(s) /\ t \in Seq(Byte) /\ Len(t) = Len(s) - n
           /\ \A i \in 1..Len(s) - n : /\ DecodedLength(t, i) = DecodedLength(s, n + i)
                                       /\ Covered(t, i) <=> Covered(s, n + i)
                                       /\ MeaningAt(t, i) = MeaningAt(s, n + i)
<1> DEFINE n == Width(s, 1)
           t == SubSeq(s, n + 1, Len(s))
<1>1. Len(s) \in Nat /\ 1 \in 1..Len(s)
    BY EmptySeq
<1>2. /\ n \in 1..4 /\ 1 + n - 1 <= Len(s)
      /\ \A j \in 1 + 1..1 + n - 1 : j \in 1..Len(s) /\ DecodedLength(s, j) = 0
    BY <1>1, FirstWidth
<1>3. n = DecodedLength(s, 1) \/ (n = 1 /\ DecodedLength(s, 1) = 0)
    BY DEF Width
<1> HIDE DEF n
<1>4. n \in 1..Len(s) /\ n \in 0..Len(s)
    BY <1>1, <1>2
<1>5. t \in Seq(Byte) /\ Len(t) = Len(s) - n
  <2>1. /\ t \in Seq(Byte)
        /\ Len(t) = IF n + 1 <= Len(s) THEN Len(s) - (n + 1) + 1 ELSE 0
      BY <1>1, <1>4, SubSeqProperties
  <2> QED
      BY <1>1, <1>4, <2>1
<1>6. \A i \in 1..Len(s) - n : DecodedLength(t, i) = DecodedLength(s, n + i)
    BY <1>4, DecodedInSuffix
<1>7. ASSUME NEW i \in 1..Len(s) - n PROVE Covered(t, i) <=> Covered(s, n + i)
  <2>1. ASSUME NEW j \in 1..Len(t), DecodedLength(t, j) # 0, j <= i, i < j + DecodedLength(t, j)
        PROVE  Covered(s, n + i)
    <3>1. j \in 1..Len(s) - n /\ n + j \in 1..Len(s) /\ n + j <= n + i
        BY <1>1, <1>4, <1>5, <2>1
    <3>2. PICK d \in 0..4 : d = DecodedLength(t, j)
        BY <1>5, DecodedCases
    <3>3. DecodedLength(s, n + j) = d
        BY <1>6, <3>1, <3>2
    <3>4. d # 0 /\ n + i < (n + j) + d
        BY <1>4, <2>1, <3>2
    <3> QED
        BY <3>1, <3>3, <3>4 DEF Covered
  <2>2. ASSUME NEW j \in 1..Len(s), DecodedLength(s, j) # 0, j <= n + i,
               n + i < j + DecodedLength(s, j)
        PROVE  Covered(t, i)
    <3>1. PICK d \in 0..4 : d = DecodedLength(s, j)
        BY DecodedCases
    <3>2. d # 0 /\ n + i < j + d
        BY <2>2, <3>1
    <3>3. j # 1
      <4> SUFFICES ASSUME j = 1 PROVE FALSE
          OBVIOUS
      <4>1. d = n
          BY <1>3, <3>1, <3>2
      <4> QED
          BY <1>4, <3>2, <4>1
    <3>4. j > n
      <4> SUFFICES ASSUME ~(j > n) PROVE FALSE
          OBVIOUS
      <4>1. j \in 1 + 1..1 + n - 1
          BY <1>2, <3>3
      <4> QED
          BY <1>2, <2>2, <4>1
    <3>5. PICK k \in 1..Len(s) - n : j = n + k
      <4>1. j - n \in 1..Len(s) - n /\ j = n + (j - n)
          BY <1>1, <1>4, <3>4
      <4> QED
          BY <4>1
    <3>6. DecodedLength(t, k) = d
        BY <1>6, <3>1, <3>5
    <3>7. k \in 1..Len(t) /\ k <= i /\ i < k + d
        BY <1>4, <1>5, <2>2, <3>2, <3>5
    <3> QED
        BY <3>2, <3>6, <3>7 DEF Covered
  <2> QED
      BY <2>1, <2>2 DEF Covered
<1>8. ASSUME NEW i \in 1..Len(s) - n PROVE MeaningAt(t, i) = MeaningAt(s, n + i)
  <2>1. i \in 1..Len(t) /\ n + i \in 1..Len(s)
      BY <1>1, <1>4, <1>5
  <2>2. PICK d \in 0..4 : d = DecodedLength(t, i)
      BY <1>5, <2>1, DecodedCases
  <2>3. d = DecodedLength(s, n + i)
      BY <1>6, <2>2
  <2>4. d # 0 => SubSeq(t, i, i + d - 1) = SubSeq(s, n + i, (n + i) + d - 1)
    <3> SUFFICES ASSUME d # 0 PROVE SubSeq(t, i, i + d - 1) = SubSeq(s, n + i, (n + i) + d - 1)
        OBVIOUS
    <3>1. StandsAt(t, i, d)
      <4>1. d \in 1..4 /\ t \in Seq(Byte)
          BY <1>5
      <4> HIDE DEF t
      <4> QED
          BY <2>1, <2>2, <4>1, DecodedCases
    <3>2. i + d - 1 <= Len(t)
        BY <3>1 DEF StandsAt
    <3>3. PICK e : e = i + d - 1
        OBVIOUS
    <3>4. e \in 1..Len(s) - n /\ n + e = (n + i) + d - 1
      <4>1. e \in 1..Len(s) - n
          BY <1>1, <1>4, <1>5, <2>1, <2>2, <3>2, <3>3
      <4>2. n + e = (n + i) + d - 1
          BY <1>4, <2>1, <2>2, <3>3
      <4> QED
          BY <4>1, <4>2
    <3>5. SubSeq(SubSeq(s, n + 1, Len(s)), i, e) = SubSeq(s, n + i, n + e)
        BY <1>4, <3>4, PartBehind
    <3> QED
        BY <3>3, <3>4, <3>5
  <2> HIDE DEF t
  <2> QED
      BY <1>7, <2>2, <2>3, <2>4 DEF MeaningAt, CharacterOf
<1> QED
    BY <1>4, <1>5, <1>6, <1>7, <1>8 DEF n

LEMMA MeaningAtType ==
    ASSUME NEW s \in Seq(Byte), NEW i \in 1..Len(s) PROVE MeaningAt(s, i) \in Seq(Int)
<1>1. CASE DecodedLength(s, i) # 0
  <2>1. PICK d \in 1..4 : d = DecodedLength(s, i)
      BY <1>1, DecodedCases
  <2>2. i + d - 1 <= Len(s)
      BY <2>1, DecodedCases DEF StandsAt
  <2>3. SubSeq(s, i, i + d - 1) \in Seq(Byte) /\ Len(SubSeq(s, i, i + d - 1)) = d
      BY <2>2, BytesOf
  <2>4. CodePoint(SubSeq(s, i, i + d - 1)) \in Int
    <3>1. CodePoint(SubSeq(s, i, i + d - 1)) \in Nat
        BY <2>1, <2>3, CodePointIsNumber
    <3> QED
        BY <3>1
  <2> QED
      BY <1>1, <2>1, <2>4 DEF MeaningAt, CharacterOf
<1>2. CASE DecodedLength(s, i) = 0
    BY <1>2 DEF MeaningAt, Replacement
<1> QED
    BY <1>1, <1>2

\* A string means its first character, or a replacement for its first byte,
\* and what the rest means.
LEMMA MeaningFront ==
    ASSUME NEW s \in Seq(Byte), s # <<>>
    PROVE  /\ MeaningAt(s, 1) \in Seq(Int) /\ Meaning(s) \in Seq(Int)
           /\ Meaning(s) = MeaningAt(s, 1) \o Meaning(SubSeq(s, Width(s, 1) + 1, Len(s)))
<1> DEFINE n == Width(s, 1)
           t == SubSeq(s, n + 1, Len(s))
           unit(x) == [i \in 1..Len(x) |-> MeaningAt(x, i)]
<1>1. Len(s) \in Nat /\ 1 \in 1..Len(s)
    BY EmptySeq
<1>2. /\ n \in 1..Len(s) /\ t \in Seq(Byte) /\ Len(t) = Len(s) - n
      /\ \A i \in 1..Len(s) - n : MeaningAt(t, i) = MeaningAt(s, n + i)
    BY MeaningBehind
<1>3. \A i \in 1 + 1..1 + n - 1 : DecodedLength(s, i) = 0
    BY <1>1, FirstWidth
<1>4. \A i \in 2..n : Covered(s, i)
    BY CoveredAtStart
<1> HIDE DEF n
<1>5. \A i \in 2..n : MeaningAt(s, i) = <<>>
  <2> TAKE i \in 2..n
  <2>1. i \in 1 + 1..1 + n - 1
      BY <1>2
  <2> QED
      BY <1>3, <1>4, <2>1 DEF MeaningAt
<1> HIDE DEF t
<1>6. ASSUME NEW x \in Seq(Byte) PROVE unit(x) \in Seq(Seq(Int)) /\ Len(unit(x)) = Len(x)
  <2>1. \A i \in 1..Len(x) : MeaningAt(x, i) \in Seq(Int)
      BY MeaningAtType
  <2>2. Len(x) \in Nat
      OBVIOUS
  <2> QED
      BY <2>1, <2>2
<1> DEFINE first == <<MeaningAt(s, 1)>>
           covered == [i \in 1..n - 1 |-> <<>>]
<1>7. MeaningAt(s, 1) \in Seq(Int)
    BY <1>1, MeaningAtType
<1>8. first \in Seq(Seq(Int)) /\ Len(first) = 1 /\ first[1] = MeaningAt(s, 1)
    BY <1>7
<1>9. covered \in Seq(Seq(Int)) /\ Len(covered) = n - 1 /\ \A i \in 1..n - 1 : covered[i] = <<>>
  <2>1. PICK m \in Nat : m = n - 1
    <3>1. n - 1 \in Nat
        BY <1>2
    <3> QED
        BY <3>1
  <2>2. <<>> \in Seq(Int)
      OBVIOUS
  <2>3. covered = [i \in 1..m |-> <<>>]
      BY <2>1
  <2> HIDE DEF covered
  <2>4. covered \in Seq(Seq(Int)) /\ Len(covered) = m /\ \A i \in 1..m : covered[i] = <<>>
      BY <2>2, <2>3
  <2> QED
      BY <2>1, <2>4
<1>10. unit(s) = (first \o covered) \o unit(t)
  <2> DEFINE a == first \o covered
             b == a \o unit(t)
  <2> HIDE DEF first, covered
  <2>1. a \in Seq(Seq(Int)) /\ Len(a) = n /\ a[1] = MeaningAt(s, 1)
    <3>1. a \in Seq(Seq(Int)) /\ Len(a) = 1 + (n - 1) /\ a[1] = first[1]
      <4>1. 1 \in 1..Len(first) + Len(covered) /\ 1 <= Len(first)
          BY <1>2, <1>8, <1>9
      <4> QED
          BY <1>8, <1>9, <4>1, ConcatProperties
    <3>2. 1 + (n - 1) = n
        BY <1>2
    <3> QED
        BY <1>8, <3>1, <3>2
  <2>2. \A i \in 2..n : a[i] = <<>>
    <3> TAKE i \in 2..n
    <3>1. i \in 1..Len(first) + Len(covered) /\ ~(i <= Len(first)) /\ i - Len(first) \in 1..n - 1
        BY <1>2, <1>8, <1>9
    <3>2. a[i] = covered[i - Len(first)]
        BY <1>8, <1>9, <3>1, ConcatProperties
    <3> QED
        BY <1>9, <3>1, <3>2
  <2> HIDE DEF a
  <2>3. unit(t) \in Seq(Seq(Int)) /\ Len(unit(t)) = Len(s) - n
      BY <1>2, <1>6
  <2>4. b \in Seq(Seq(Int)) /\ Len(b) = Len(s)
    <3>1. b \in Seq(Seq(Int)) /\ Len(b) = n + (Len(s) - n)
        BY <2>1, <2>3, ConcatProperties
    <3>2. n + (Len(s) - n) = Len(s)
        BY <1>1, <1>2
    <3> QED
        BY <3>1, <3>2
  <2>5. ASSUME NEW i \in 1..Len(s) PROVE unit(s)[i] = b[i]
    <3>1. CASE i <= n
      <4>1. i \in 1..Len(a) + Len(unit(t)) /\ i <= Len(a)
          BY <1>1, <1>2, <2>1, <2>3, <3>1
      <4>2. b[i] = a[i]
          BY <2>1, <2>3, <4>1, ConcatProperties
      <4>3. i = 1 \/ i \in 2..n
          BY <1>2, <3>1
      <4>4. a[i] = MeaningAt(s, i)
          BY <1>5, <2>1, <2>2, <4>3
      <4> QED
          BY <4>2, <4>4
    <3>2. CASE ~(i <= n)
      <4>1. /\ i \in 1..Len(a) + Len(unit(t)) /\ ~(i <= Len(a)) /\ i - Len(a) = i - n
            /\ i - n \in 1..Len(s) - n /\ n + (i - n) = i /\ i - n \in 1..Len(t)
          BY <1>1, <1>2, <2>1, <2>3, <3>2
      <4>2. b[i] = unit(t)[i - n]
          BY <2>1, <2>3, <4>1, ConcatProperties
      <4>3. unit(t)[i - n] = MeaningAt(t, i - n)
          BY <4>1
      <4>4. MeaningAt(t, i - n) = MeaningAt(s, i)
          BY <1>2, <4>1
      <4> QED
          BY <4>2, <4>3, <4>4
    <3> QED
        BY <3>1, <3>2
  <2>6. unit(s) \in Seq(Seq(Int)) /\ Len(unit(s)) = Len(s)
      BY <1>6
  <2>7. unit(s) = b
    <3> HIDE DEF b, unit
    <3> QED
        BY <2>4, <2>5, <2>6, SeqEqual
  <2> QED
      BY <2>7 DEF b, a
<1>11. FlattenSeq(first) = MeaningAt(s, 1)
    BY <1>7, FlattenOne
<1>12. FlattenSeq(covered) = <<>>
  <2>1. n - 1 \in Nat
      BY <1>2
  <2> QED
      BY <2>1, FlattenNothing
<1>13. Meaning(s) = FlattenSeq(unit(s)) /\ Meaning(t) = FlattenSeq(unit(t))
    BY <1>2, MeaningUnits
<1>14. unit(t) \in Seq(Seq(Int)) /\ unit(s) \in Seq(Seq(Int))
    BY <1>2, <1>6
<1> HIDE DEF unit, first, covered
<1>15. FlattenSeq(first \o covered) = MeaningAt(s, 1)
  <2>1. FlattenSeq(first \o covered) = FlattenSeq(first) \o FlattenSeq(covered)
      BY <1>8, <1>9, FlattenConcat
  <2> QED
      BY <1>7, <1>11, <1>12, <2>1, ConcatEmptySeq
<1>16. first \o covered \in Seq(Seq(Int))
    BY <1>8, <1>9, ConcatProperties
<1>17. FlattenSeq(unit(s)) = MeaningAt(s, 1) \o FlattenSeq(unit(t)) /\ FlattenSeq(unit(s)) \in Seq(Int)
    BY <1>10, <1>14, <1>15, <1>16, FlattenConcat
<1> QED
    BY <1>7, <1>13, <1>17 DEF t, n

LEMMA NothingMeansNothing == Meaning(<<>>) = <<>>
<1>1. <<>> \in Seq(Byte) /\ Len(<<>>) = 0
    OBVIOUS
<1>2. [i \in 1..0 |-> MeaningAt(<<>>, i)] = [i \in 1..0 |-> <<>>]
    OBVIOUS
<1>3. FlattenSeq([i \in 1..0 |-> MeaningAt(<<>>, i)]) = <<>>
    BY <1>2, FlattenNothing
<1> QED
    BY <1>1, <1>3, MeaningUnits

-----------------------------------------------------------------------------
(* What a JSON reader makes of a text: a walk.                             *)

ShortOf(b) == IF \E c \in DOMAIN ShortEscape : ShortEscape[c] = b
              THEN CHOOSE c \in DOMAIN ShortEscape : ShortEscape[c] = b ELSE -1
HexOf(s, i) == IF i + 5 <= Len(s) /\ \A k \in 2..5 : HexValue(s[i + k]) >= 0
               THEN HexValue(s[i + 2]) * 4096 + HexValue(s[i + 3]) * 256
                        + HexValue(s[i + 4]) * 16 + HexValue(s[i + 5])
               ELSE -1

IsEscape(s, i) == s[i] = Backslash /\ i < Len(s)
IsReadable(s, i) ==
    /\ ~(s[i] < 32 \/ s[i] \in {Quote, Backslash})
    /\ DecodedLength(s, i) # 0
ReadUnit(s, i) ==
    IF IsEscape(s, i)
    THEN IF s[i + 1] = 117 THEN <<HexOf(s, i)>> ELSE <<ShortOf(s[i + 1])>>
    ELSE IF IsReadable(s, i) THEN <<CodePoint(CharacterOf(s, i))>>
    ELSE <<-1>>
ReadOn(s, i) ==
    IF IsEscape(s, i) THEN IF s[i + 1] = 117 THEN i + 6 ELSE i + 2
    ELSE IF IsReadable(s, i) THEN i + DecodedLength(s, i)
    ELSE Len(s) + 1
ReadUnits(s) == [i \in 1..Len(s) |-> ReadUnit(s, i)]
ReadNexts(s) == [i \in 1..Len(s) |-> IF ReadOn(s, i) > Len(s) THEN Len(s) + 1 ELSE ReadOn(s, i)]

LEMMA ShortIsNumber == ASSUME NEW b PROVE ShortOf(b) \in Int
<1>1. DOMAIN ShortEscape \subseteq Int
    BY DEF ShortEscape, Quote, Backslash
<1> QED
    BY <1>1 DEF ShortOf

LEMMA HexIsNumber == ASSUME NEW s, NEW i PROVE HexOf(s, i) \in Int
<1>1. \A b : HexValue(b) \in Int
    BY DEF HexValue
<1> QED
    BY <1>1 DEF HexOf

LEMMA ReadOnFurther ==
    ASSUME NEW s \in Seq(Byte), NEW i \in 1..Len(s)
    PROVE  ReadOn(s, i) \in i + 1..Len(s) + 6
<1>1. Len(s) \in Nat
    OBVIOUS
<1>2. PICK d \in 0..4 : d = DecodedLength(s, i)
    BY DecodedCases
<1>3. d # 0 => i + d \in i + 1..Len(s) + 1
  <2> SUFFICES ASSUME d # 0 PROVE i + d \in i + 1..Len(s) + 1
      OBVIOUS
  <2>1. StandsAt(s, i, d)
      BY <1>2, DecodedCases
  <2> QED
      BY <1>1, <2>1 DEF StandsAt
<1>4. IsEscape(s, i) => i < Len(s)
    BY DEF IsEscape
<1>5. IsReadable(s, i) => d # 0
    BY <1>2 DEF IsReadable
<1>6. CASE IsEscape(s, i)
    BY <1>1, <1>4, <1>6 DEF ReadOn
<1>7. CASE ~IsEscape(s, i) /\ IsReadable(s, i)
  <2>1. ReadOn(s, i) = i + d
      BY <1>2, <1>7 DEF ReadOn
  <2> QED
      BY <1>1, <1>3, <1>5, <1>7, <2>1
<1>8. CASE ~IsEscape(s, i) /\ ~IsReadable(s, i)
    BY <1>1, <1>8 DEF ReadOn
<1> QED
    BY <1>6, <1>7, <1>8

LEMMA ReadForward ==
    ASSUME NEW s \in Seq(Byte)
    PROVE  Forward(Len(s), Int, ReadUnits(s), ReadNexts(s))
<1>1. Len(s) \in Nat
    OBVIOUS
<1> SUFFICES ASSUME NEW i \in 1..Len(s)
             PROVE  /\ ReadUnits(s)[i] \in Seq(Int)
                    /\ ReadNexts(s)[i] \in 1..Len(s) + 1 /\ i < ReadNexts(s)[i]
    BY <1>1 DEF Forward
<1>2. ReadUnits(s)[i] \in Seq(Int)
  <2>1. IsReadable(s, i) => CodePoint(CharacterOf(s, i)) \in Int
    <3> SUFFICES ASSUME IsReadable(s, i) PROVE CodePoint(CharacterOf(s, i)) \in Int
        OBVIOUS
    <3>1. DecodedLength(s, i) # 0
        BY DEF IsReadable
    <3>2. MeaningAt(s, i) = <<CodePoint(CharacterOf(s, i))>>
        BY <3>1 DEF MeaningAt
    <3>3. <<CodePoint(CharacterOf(s, i))>> \in Seq(Int)
        BY <3>2, MeaningAtType
    <3> QED
        BY <3>3
  <2>2. HexOf(s, i) \in Int /\ ShortOf(s[i + 1]) \in Int /\ -1 \in Int
      BY HexIsNumber, ShortIsNumber
  <2>3. \A x \in Int : <<x>> \in Seq(Int)
      OBVIOUS
  <2>4. ReadUnit(s, i) \in Seq(Int)
      BY <2>1, <2>2, <2>3 DEF ReadUnit
  <2> QED
      BY <2>4 DEF ReadUnits
<1>3. PICK q \in i + 1..Len(s) + 6 : q = ReadOn(s, i)
    BY ReadOnFurther
<1>4. ReadNexts(s)[i] = IF q > Len(s) THEN Len(s) + 1 ELSE q
    BY <1>3 DEF ReadNexts
<1>5. ReadNexts(s)[i] \in 1..Len(s) + 1 /\ i < ReadNexts(s)[i]
    BY <1>1, <1>3, <1>4
<1> QED
    BY <1>2, <1>5

\* A function that is empty behind the text, and goes on as Reading does.
Reads(g, s, i) ==
    LET chars == CharactersOf(s) IN
    IF i > Len(s) THEN <<>>
    ELSE IF s[i] = Backslash /\ i < Len(s)
         THEN IF s[i + 1] = 117 THEN <<HexOf(s, i)>> \o g[i + 6]
                                ELSE <<ShortOf(s[i + 1])>> \o g[i + 2]
    ELSE IF s[i] < 32 \/ s[i] \in {Quote, Backslash} THEN <<-1>>
    ELSE IF \E r \in chars : r[1] = i
         THEN LET r == CHOOSE r \in chars : r[1] = i
              IN <<CodePoint(SubSeq(s, i, i + r[2] - 1))>> \o g[i + r[2]]
    ELSE <<-1>>
LEMMA ReadsOn ==
    ASSUME NEW s \in Seq(Byte), NEW g, \A j \in Len(s) + 1..Len(s) + 7 : g[j] = <<>>,
           NEW i \in 1..Len(s)
    PROVE  Reads(g, s, i) = ReadUnit(s, i) \o g[ReadNexts(s)[i]]
<1>1. Len(s) \in Nat /\ ~(i > Len(s))
    OBVIOUS
<1>2. ReadOn(s, i) \in i + 1..Len(s) + 6
    BY ReadOnFurther
<1>3. g[ReadNexts(s)[i]] = g[ReadOn(s, i)]
  <2>1. CASE ReadOn(s, i) > Len(s)
    <3>1. ReadNexts(s)[i] = Len(s) + 1
        BY <2>1 DEF ReadNexts
    <3>2. Len(s) + 1 \in Len(s) + 1..Len(s) + 7 /\ ReadOn(s, i) \in Len(s) + 1..Len(s) + 7
        BY <1>1, <1>2, <2>1
    <3> QED
        BY <3>1, <3>2
  <2>2. CASE ~(ReadOn(s, i) > Len(s))
      BY <2>2 DEF ReadNexts
  <2> QED
      BY <2>1, <2>2
<1>4. CASE IsEscape(s, i)
  <2>1. s[i] = Backslash /\ i < Len(s)
      BY <1>4 DEF IsEscape
  <2>2. CASE s[i + 1] = 117
      BY <1>1, <1>3, <1>4, <2>1, <2>2 DEF Reads, ReadUnit, ReadOn
  <2>3. CASE s[i + 1] # 117
      BY <1>1, <1>3, <1>4, <2>1, <2>3 DEF Reads, ReadUnit, ReadOn
  <2> QED
      BY <2>2, <2>3
<1>5. CASE ~IsEscape(s, i) /\ IsReadable(s, i)
  <2>1. ~(s[i] = Backslash /\ i < Len(s)) /\ ~(s[i] < 32 \/ s[i] \in {Quote, Backslash})
      BY <1>5 DEF IsEscape, IsReadable
  <2>2. DecodedLength(s, i) # 0
      BY <1>5 DEF IsReadable
  <2>3. PICK q : q = (CHOOSE r \in CharactersOf(s) : r[1] = i)
      OBVIOUS
  <2>4. (\E r \in CharactersOf(s) : r[1] = i) /\ q = <<i, DecodedLength(s, i)>>
      BY <2>2, <2>3, CharacterHere
  <2>5. q[2] = DecodedLength(s, i)
      BY <2>4
  <2>6. Reads(g, s, i) = <<CodePoint(SubSeq(s, i, i + q[2] - 1))>> \o g[i + q[2]]
      BY <1>1, <2>1, <2>3, <2>4 DEF Reads
  <2>7. /\ ReadUnit(s, i) = <<CodePoint(SubSeq(s, i, i + DecodedLength(s, i) - 1))>>
        /\ ReadOn(s, i) = i + DecodedLength(s, i)
      BY <1>5 DEF ReadUnit, ReadOn, CharacterOf
  <2> QED
      BY <1>3, <2>5, <2>6, <2>7
<1>6. CASE ~IsEscape(s, i) /\ ~IsReadable(s, i)
  <2>1. ~(s[i] = Backslash /\ i < Len(s))
      BY <1>6 DEF IsEscape
  <2>2. ReadUnit(s, i) = <<-1>> /\ ReadOn(s, i) = Len(s) + 1
      BY <1>6 DEF ReadUnit, ReadOn
  <2>3. g[ReadNexts(s)[i]] = <<>>
    <3>1. Len(s) + 1 \in Len(s) + 1..Len(s) + 7
        BY <1>1
    <3> QED
        BY <1>3, <2>2, <3>1
  <2>4. <<-1>> \o <<>> = <<-1>>
    <3>1. <<-1>> \in Seq(Int)
        OBVIOUS
    <3> QED
        BY <3>1, ConcatEmptySeq
  <2>5. (s[i] < 32 \/ s[i] \in {Quote, Backslash}) \/ ~ \E r \in CharactersOf(s) : r[1] = i
    <3>1. (\E r \in CharactersOf(s) : r[1] = i) <=> DecodedLength(s, i) # 0
        BY CharacterHere
    <3> QED
        BY <1>6, <3>1 DEF IsReadable
  <2>6. Reads(g, s, i) = <<-1>>
      BY <1>1, <2>1, <2>5, Zenon DEF Reads
  <2> QED
      BY <2>2, <2>3, <2>4, <2>6
<1> QED
    BY <1>4, <1>5, <1>6

LEMMA ReadingEquation ==
    ASSUME NEW s \in Seq(Byte)
    PROVE  \E h : Reading(s) = h[1] /\ Walks(h, Len(s), ReadUnits(s), ReadNexts(s))
<1> DEFINE n == Len(s)
           rhs(g) == [i \in 1..Len(s) + 7 |-> Reads(g, s, i)]
<1>1. n \in Nat
    OBVIOUS
<1>2. Forward(n, Int, ReadUnits(s), ReadNexts(s))
    BY ReadForward
<1>3. PICK f \in [1..n + 1 -> Seq(Int)] : Walks(f, n, ReadUnits(s), ReadNexts(s))
    BY <1>2, WalkExists
<1> DEFINE F == [i \in 1..Len(s) + 7 |-> IF i > Len(s) THEN <<>> ELSE f[i]]
<1>4. \A i \in 1..n + 7 : F[i] = IF i > n THEN <<>> ELSE f[i]
    OBVIOUS
<1>5. \A j \in n + 1..n + 7 : F[j] = <<>>
    BY <1>1
<1>6. \A i \in 1..n + 7 : F[i] = Reads(F, s, i)
  <2> HIDE DEF F
  <2> SUFFICES ASSUME NEW i \in 1..n + 7 PROVE F[i] = Reads(F, s, i)
      OBVIOUS
  <2>1. CASE i > n
      BY <1>4, <2>1 DEF Reads
  <2>2. CASE ~(i > n)
    <3>1. i \in 1..n
        BY <1>1, <2>2
    <3>2. Reads(F, s, i) = ReadUnit(s, i) \o F[ReadNexts(s)[i]]
        BY <1>5, <3>1, ReadsOn
    <3>3. ReadNexts(s)[i] \in 1..n + 1
        BY <1>2, <3>1 DEF Forward
    <3>4. F[ReadNexts(s)[i]] = f[ReadNexts(s)[i]]
      <4>1. PICK k \in 1..n + 1 : k = ReadNexts(s)[i]
          BY <3>3
      <4>2. CASE k = n + 1
        <5>1. f[n + 1] = <<>>
            BY <1>3 DEF Walks
        <5>2. n + 1 \in n + 1..n + 7
            BY <1>1
        <5> QED
            BY <1>5, <4>1, <4>2, <5>1, <5>2
      <4>3. CASE k # n + 1
        <5>1. k \in 1..n + 7 /\ ~(k > n)
            BY <1>1, <4>3
        <5> QED
            BY <1>4, <4>1, <5>1
      <4> QED
          BY <4>2, <4>3
    <3>5. f[i] = ReadUnit(s, i) \o f[ReadNexts(s)[i]]
        BY <1>3, <3>1 DEF Walks, ReadUnits
    <3> QED
        BY <1>4, <2>2, <3>2, <3>4, <3>5
  <2> QED
      BY <2>1, <2>2
<1>7. F = rhs(F)
    BY <1>6
<1>8. \E h : Reading(s) = h[1] /\ h = rhs(h)
  <2> DEFINE h == CHOOSE h : h = rhs(h)
  <2>1. h = rhs(h)
      BY <1>7
  <2>2. Reading(s) = h[1]
      BY DEF Reading, Reads, ShortOf, HexOf
  <2> QED
      BY <2>1, <2>2
<1>9. PICK h : Reading(s) = h[1] /\ h = rhs(h)
    BY <1>8
<1>10. \A i \in 1..n + 7 : h[i] = Reads(h, s, i)
    BY <1>9
<1>11. \A j \in n + 1..n + 7 : h[j] = <<>>
  <2> TAKE j \in n + 1..n + 7
  <2>1. j \in 1..n + 7 /\ j > n
      BY <1>1
  <2> QED
      BY <1>10, <2>1 DEF Reads
<1>12. \A i \in 1..n : h[i] = ReadUnits(s)[i] \o h[ReadNexts(s)[i]]
  <2> TAKE i \in 1..n
  <2>1. i \in 1..n + 7
      BY <1>1
  <2>2. Reads(h, s, i) = ReadUnit(s, i) \o h[ReadNexts(s)[i]]
      BY <1>11, ReadsOn
  <2> QED
      BY <1>10, <2>1, <2>2 DEF ReadUnits
<1>13. h[n + 1] = <<>>
  <2>1. n + 1 \in n + 1..n + 7
      BY <1>1
  <2> QED
      BY <1>11, <2>1
<1> QED
    BY <1>9, <1>12, <1>13 DEF Walks

\* Behind some bytes a text reads as it reads alone.
LEMMA SuffixFacts ==
    ASSUME NEW C, NEW s \in Seq(C), NEW a \in 0..Len(s)
    PROVE  LET t == SubSeq(s, a + 1, Len(s)) IN
           t \in Seq(C) /\ Len(t) = Len(s) - a /\ \A k \in 1..Len(s) - a : t[k] = s[a + k]
<1> DEFINE t == SubSeq(s, a + 1, Len(s))
<1>1. Len(s) \in Nat
    OBVIOUS
<1>2. /\ t \in Seq(C)
      /\ Len(t) = IF a + 1 <= Len(s) THEN Len(s) - (a + 1) + 1 ELSE 0
      /\ \A k \in 1..Len(s) - (a + 1) + 1 : t[k] = s[(a + 1) + k - 1]
  <2>1. \A k \in a + 1..Len(s) : s[k] \in C
      OBVIOUS
  <2> QED
      BY <1>1, <2>1, SubSeqProperties
<1> HIDE DEF t
<1>3. Len(t) = Len(s) - a
    BY <1>1, <1>2
<1>4. \A k \in 1..Len(s) - a : t[k] = s[a + k]
  <2> TAKE k \in 1..Len(s) - a
  <2>1. k \in 1..Len(s) - (a + 1) + 1 /\ (a + 1) + k - 1 = a + k
      BY <1>1
  <2> QED
      BY <1>2, <2>1
<1> QED
    BY <1>2, <1>3, <1>4 DEF t

LEMMA RestOfConcat ==
    ASSUME NEW C, NEW u \in Seq(C), NEW t \in Seq(C)
    PROVE  SubSeq(u \o t, Len(u) + 1, Len(u \o t)) = t
<1> DEFINE s == u \o t
           r == SubSeq(s, Len(u) + 1, Len(s))
<1>1. /\ s \in Seq(C) /\ Len(s) = Len(u) + Len(t) /\ Len(u) \in Nat /\ Len(t) \in Nat
      /\ \A i \in 1..Len(u) + Len(t) : s[i] = IF i <= Len(u) THEN u[i] ELSE t[i - Len(u)]
    BY ConcatProperties
<1> HIDE DEF s
<1>2. Len(u) \in 0..Len(s)
    BY <1>1
<1>3. /\ r \in Seq(C) /\ Len(r) = Len(s) - Len(u)
      /\ \A k \in 1..Len(s) - Len(u) : r[k] = s[Len(u) + k]
    BY <1>1, <1>2, SuffixFacts
<1>4. Len(r) = Len(t)
    BY <1>1, <1>3
<1>5. ASSUME NEW k \in 1..Len(r) PROVE r[k] = t[k]
  <2>1. /\ k \in 1..Len(s) - Len(u) /\ Len(u) + k \in 1..Len(u) + Len(t)
        /\ ~(Len(u) + k <= Len(u)) /\ Len(u) + k - Len(u) = k
      BY <1>1, <1>4
  <2> QED
      BY <1>1, <1>3, <2>1
<1> HIDE DEF r
<1>6. r = t
    BY <1>3, <1>4, <1>5, SeqEqual
<1> QED
    BY <1>6 DEF r, s

LEMMA HexInSuffix ==
    ASSUME NEW s \in Seq(Byte), NEW a \in 0..Len(s), NEW i \in 1..Len(s) - a
    PROVE  HexOf(SubSeq(s, a + 1, Len(s)), i) = HexOf(s, a + i)
<1> DEFINE t == SubSeq(s, a + 1, Len(s))
<1>1. Len(s) \in Nat /\ Len(t) = Len(s) - a /\ \A k \in 1..Len(s) - a : t[k] = s[a + k]
    BY SuffixFacts
<1> HIDE DEF t
<1>2. i + 5 <= Len(t) <=> (a + i) + 5 <= Len(s)
    BY <1>1
<1>3. ASSUME i + 5 <= Len(t), NEW k \in 2..5 PROVE t[i + k] = s[(a + i) + k]
  <2>1. i + k \in 1..Len(s) - a /\ a + (i + k) = (a + i) + k
      BY <1>1, <1>3
  <2> QED
      BY <1>1, <2>1
<1>4. CASE ~(i + 5 <= Len(t))
    BY <1>2, <1>4 DEF HexOf, t
<1>5. CASE i + 5 <= Len(t)
  <2>1. \A k \in 2..5 : t[i + k] = s[(a + i) + k]
      BY <1>3, <1>5
  <2>2. /\ t[i + 2] = s[(a + i) + 2] /\ t[i + 3] = s[(a + i) + 3]
        /\ t[i + 4] = s[(a + i) + 4] /\ t[i + 5] = s[(a + i) + 5]
      BY <2>1
  <2>3. (\A k \in 2..5 : HexValue(t[i + k]) >= 0) <=> (\A k \in 2..5 : HexValue(s[(a + i) + k]) >= 0)
      BY <2>1
  <2>4. HexOf(t, i) = HexOf(s, a + i)
      BY <1>2, <1>5, <2>2, <2>3 DEF HexOf
  <2> QED
      BY <2>4 DEF t
<1> QED
    BY <1>4, <1>5

LEMMA ReadInSuffix ==
    ASSUME NEW s \in Seq(Byte), NEW a \in 0..Len(s), NEW i \in 1..Len(s) - a
    PROVE  LET t == SubSeq(s, a + 1, Len(s)) IN
           /\ ReadUnits(s)[a + i] = ReadUnits(t)[i]
           /\ ReadNexts(s)[a + i] = a + ReadNexts(t)[i]
<1> DEFINE t == SubSeq(s, a + 1, Len(s))
<1>1. Len(s) \in Nat /\ t \in Seq(Byte)
    BY SuffixFacts
<1>2. Len(t) = Len(s) - a /\ \A k \in 1..Len(s) - a : t[k] = s[a + k]
    BY SuffixFacts
<1>3. DecodedLength(t, i) = DecodedLength(s, a + i)
    BY DecodedInSuffix
<1>4. HexOf(t, i) = HexOf(s, a + i)
    BY HexInSuffix
<1>5. DecodedLength(t, i) # 0 => CharacterOf(t, i) = CharacterOf(s, a + i)
  <2> SUFFICES ASSUME DecodedLength(t, i) # 0 PROVE CharacterOf(t, i) = CharacterOf(s, a + i)
      OBVIOUS
  <2> HIDE DEF t
  <2>1. i \in 1..Len(t)
      BY <1>1, <1>2
  <2>2. PICK d \in 1..4 : d = DecodedLength(t, i)
    <3>1. DecodedLength(t, i) \in 0..4
        BY <1>1, <2>1, DecodedCases
    <3> QED
        BY <3>1
  <2>3. StandsAt(t, i, d)
      BY <1>1, <2>1, <2>2, DecodedCases
  <2>4. PICK e : e = i + d - 1
      OBVIOUS
  <2>5. e \in 1..Len(s) - a
      BY <1>1, <1>2, <2>1, <2>3, <2>4 DEF StandsAt
  <2>6. a + e = (a + i) + d - 1
      BY <2>4
  <2>7. SubSeq(t, i, e) = SubSeq(s, a + i, a + e)
      BY <2>5, PartBehind DEF t
  <2> QED
      BY <1>3, <2>2, <2>4, <2>6, <2>7 DEF CharacterOf
<1> HIDE DEF t
<1>6. t[i] = s[a + i] /\ i \in 1..Len(t) /\ a + i \in 1..Len(s)
    BY <1>1, <1>2
<1>7. IsEscape(t, i) <=> IsEscape(s, a + i)
  <2>1. i < Len(t) <=> a + i < Len(s)
      BY <1>1, <1>2
  <2> QED
      BY <1>6, <2>1 DEF IsEscape
<1>8. IsEscape(t, i) => t[i + 1] = s[(a + i) + 1]
  <2> SUFFICES ASSUME i < Len(t) PROVE t[i + 1] = s[(a + i) + 1]
      BY DEF IsEscape
  <2>1. i + 1 \in 1..Len(s) - a /\ a + (i + 1) = (a + i) + 1
      BY <1>1, <1>2
  <2> QED
      BY <1>2, <2>1
<1>9. IsReadable(t, i) <=> IsReadable(s, a + i)
    BY <1>3, <1>6 DEF IsReadable
<1>10. IsReadable(t, i) => DecodedLength(t, i) # 0
    BY DEF IsReadable
<1>11. ReadUnit(t, i) = ReadUnit(s, a + i)
    BY <1>4, <1>5, <1>7, <1>8, <1>9, <1>10, Zenon DEF ReadUnit
<1>12. ReadOn(s, a + i) = a + ReadOn(t, i)
  <2>1. CASE IsEscape(t, i)
    <3>1. (a + i) + 6 = a + (i + 6) /\ (a + i) + 2 = a + (i + 2)
        OBVIOUS
    <3> QED
        BY <1>7, <1>8, <2>1, <3>1 DEF ReadOn
  <2>2. CASE ~IsEscape(t, i) /\ IsReadable(t, i)
    <3>1. PICK d \in 0..4 : d = DecodedLength(t, i)
        BY <1>1, <1>6, DecodedCases
    <3>2. ReadOn(t, i) = i + d /\ ReadOn(s, a + i) = (a + i) + d
        BY <1>3, <1>7, <1>9, <2>2, <3>1 DEF ReadOn
    <3> QED
        BY <3>2
  <2>3. CASE ~IsEscape(t, i) /\ ~IsReadable(t, i)
    <3>1. ReadOn(t, i) = Len(t) + 1 /\ ReadOn(s, a + i) = Len(s) + 1
        BY <1>7, <1>9, <2>3 DEF ReadOn
    <3> QED
        BY <1>1, <1>2, <3>1
  <2> QED
      BY <2>1, <2>2, <2>3
<1>13. ReadUnits(s)[a + i] = ReadUnits(t)[i]
    BY <1>6, <1>11 DEF ReadUnits
<1>14. ReadNexts(s)[a + i] = a + ReadNexts(t)[i]
  <2>1. PICK q \in i + 1..Len(t) + 6 : q = ReadOn(t, i)
      BY <1>1, <1>6, ReadOnFurther
  <2>2. ReadNexts(t)[i] = IF q > Len(t) THEN Len(t) + 1 ELSE q
      BY <1>6, <2>1 DEF ReadNexts
  <2>3. ReadNexts(s)[a + i] = IF a + q > Len(s) THEN Len(s) + 1 ELSE a + q
      BY <1>6, <1>12, <2>1 DEF ReadNexts
  <2> QED
      BY <1>1, <1>2, <2>1, <2>2, <2>3
<1> QED
    BY <1>13, <1>14 DEF t

\* Behind a unit of its own a text reads as it reads alone.
LEMMA ReadingFront ==
    ASSUME NEW u \in Seq(Byte), NEW t \in Seq(Byte), u # <<>>, NEW x \in Int,
           ReadUnit(u \o t, 1) = <<x>>, ReadOn(u \o t, 1) = Len(u) + 1
    PROVE  Reading(u \o t) = <<x>> \o Reading(t)
<1> DEFINE s == u \o t
           a == Len(u)
           m == Len(t)
           n == Len(s)
<1>1. s \in Seq(Byte) /\ n = a + m /\ a \in Nat \ {0} /\ m \in Nat /\ a \in 0..n
  <2>1. s \in Seq(Byte) /\ n = a + m
      BY ConcatProperties
  <2>2. a \in Nat \ {0} /\ m \in Nat
      BY EmptySeq
  <2>3. a \in 0..n
      BY <2>1, <2>2
  <2> QED
      BY <2>1, <2>2, <2>3
<1>2. t = SubSeq(s, a + 1, Len(s))
    BY RestOfConcat
<1>3. PICK f : Reading(s) = f[1] /\ Walks(f, n, ReadUnits(s), ReadNexts(s))
    BY <1>1, ReadingEquation
<1>4. PICK g : Reading(t) = g[1] /\ Walks(g, m, ReadUnits(t), ReadNexts(t))
    BY ReadingEquation
<1>5. SameSteps(a, m, ReadUnits(s), ReadNexts(s), ReadUnits(t), ReadNexts(t))
  <2> HIDE DEF s
  <2> SUFFICES ASSUME NEW i \in 1..m
               PROVE  /\ ReadUnits(s)[a + i] = ReadUnits(t)[i]
                      /\ ReadNexts(s)[a + i] = a + ReadNexts(t)[i]
      BY DEF SameSteps
  <2>1. i \in 1..Len(s) - a
      BY <1>1
  <2> QED
      BY <1>1, <1>2, <2>1, ReadInSuffix
<1>6. Forward(n, Int, ReadUnits(s), ReadNexts(s)) /\ Forward(m, Int, ReadUnits(t), ReadNexts(t))
    BY <1>1, ReadForward
<1>7. ReadUnit(s, 1) = <<x>> /\ ReadOn(s, 1) = a + 1
    OBVIOUS
<1> HIDE DEF s, a, m, n
<1>8. SameWalk(a, m, f, g)
  <2>1. a \in Nat /\ a + m <= n
      BY <1>1
  <2> QED
      BY <1>3, <1>4, <1>5, <1>6, <2>1, WalkWindow
<1>9. f[a + 1] = g[1]
  <2>1. f[a + 1] = g[1] \o f[a + m + 1]
    <3>1. 1 \in 1..m + 1
        BY <1>1
    <3> QED
        BY <1>8, <3>1 DEF SameWalk
  <2>2. f[a + m + 1] = <<>>
    <3>1. a + m + 1 = n + 1
        BY <1>1
    <3> QED
        BY <1>3, <3>1 DEF Walks
  <2>3. g[1] \in Seq(Int)
    <3>1. 1 \in 1..m + 1
        BY <1>1
    <3> QED
        BY <1>4, <1>6, <3>1, WalkStays
  <2> QED
      BY <2>1, <2>2, <2>3, ConcatEmptySeq
<1>10. f[1] = <<x>> \o f[a + 1]
  <2>1. 1 \in 1..n
      BY <1>1
  <2>2. ReadUnits(s)[1] = <<x>>
      BY <1>7, <2>1 DEF ReadUnits, n
  <2>3. ReadNexts(s)[1] = a + 1
    <3>1. ReadNexts(s)[1] = IF a + 1 > n THEN n + 1 ELSE a + 1
        BY <1>7, <2>1 DEF ReadNexts, n
    <3>2. a + 1 > n => n + 1 = a + 1
        BY <1>1
    <3> QED
        BY <3>1, <3>2
  <2>4. f[1] = ReadUnits(s)[1] \o f[ReadNexts(s)[1]]
      BY <1>3, <2>1 DEF Walks
  <2> QED
      BY <2>2, <2>3, <2>4
<1> QED
    BY <1>3, <1>4, <1>9, <1>10 DEF s

LEMMA NothingReadsNothing == Reading(<<>>) = <<>>
<1>1. <<>> \in Seq(Byte) /\ Len(<<>>) = 0
    OBVIOUS
<1>2. PICK f : Reading(<<>>) = f[1] /\ Walks(f, 0, ReadUnits(<<>>), ReadNexts(<<>>))
    BY <1>1, ReadingEquation
<1>3. f[0 + 1] = <<>>
    BY <1>2 DEF Walks
<1> QED
    BY <1>2, <1>3

\* The front of a text.
LEMMA FrontFacts ==
    ASSUME NEW C, NEW u \in Seq(C), NEW t \in Seq(C)
    PROVE  /\ u \o t \in Seq(C) /\ Len(u \o t) = Len(u) + Len(t)
           /\ Len(u) \in Nat /\ Len(t) \in Nat
           /\ \A k \in 1..Len(u) : (u \o t)[k] = u[k]
<1>1. /\ u \o t \in Seq(C) /\ Len(u \o t) = Len(u) + Len(t)
      /\ Len(u) \in Nat /\ Len(t) \in Nat
      /\ \A k \in 1..Len(u) + Len(t) : (u \o t)[k] = IF k <= Len(u) THEN u[k] ELSE t[k - Len(u)]
    BY ConcatProperties
<1>2. ASSUME NEW k \in 1..Len(u) PROVE (u \o t)[k] = u[k]
  <2>1. k \in 1..Len(u) + Len(t) /\ k <= Len(u)
      BY <1>1
  <2> QED
      BY <1>1, <2>1
<1> QED
    BY <1>1, <1>2

LEMMA ShortEscapeFacts ==
    ASSUME NEW b \in DOMAIN ShortEscape
    PROVE  /\ b \in Byte /\ ShortEscape[b] \in Byte
           /\ ShortEscape[b] # 117 /\ ShortOf(ShortEscape[b]) = b
<1> DEFINE D == {8, 9, 10, 12, 13, 34, 92}
           E(c) == CASE c = 8  -> 98  [] c = 9  -> 116 [] c = 10 -> 110
                     [] c = 12 -> 102 [] c = 13 -> 114 [] OTHER  -> c
<1>1. DOMAIN ShortEscape = D /\ \A c \in D : ShortEscape[c] = E(c)
    BY DEF ShortEscape, Quote, Backslash
<1>2. \A c \in D : c \in Byte /\ E(c) \in Byte /\ E(c) # 117
    BY DEF Byte
<1>3. ASSUME NEW c \in D, NEW d \in D, E(c) = E(d) PROVE c = d
    BY <1>3
<1> HIDE DEF D, E
<1>4. \A c \in DOMAIN ShortEscape : ShortEscape[c] = ShortEscape[b] => c = b
    BY <1>1, <1>3
<1>5. ShortOf(ShortEscape[b]) = b
  <2> DEFINE e == ShortEscape[b]
             c0 == CHOOSE c \in DOMAIN ShortEscape : ShortEscape[c] = e
  <2>1. \E c \in DOMAIN ShortEscape : ShortEscape[c] = e
      OBVIOUS
  <2>2. c0 \in DOMAIN ShortEscape /\ ShortEscape[c0] = e
      BY <2>1
  <2>3. c0 = b
      BY <1>4, <2>2
  <2>4. ShortOf(e) = c0
      BY <2>1 DEF ShortOf
  <2> QED
      BY <2>3, <2>4
<1> QED
    BY <1>1, <1>2, <1>5

LEMMA ShortEscapeReads ==
    ASSUME NEW b \in DOMAIN ShortEscape, NEW t \in Seq(Byte)
    PROVE  /\ <<Backslash, ShortEscape[b]>> \in Seq(Byte)
           /\ Reading(<<Backslash, ShortEscape[b]>> \o t) = <<b>> \o Reading(t)
<1>1. PICK e \in Byte : e = ShortEscape[b] /\ e # 117 /\ ShortOf(e) = b
    BY ShortEscapeFacts
<1>2. b \in Int
  <2>1. b \in Byte
      BY ShortEscapeFacts
  <2>2. \A x \in Byte : x \in Int
      BY DEF Byte
  <2> QED
      BY <2>1, <2>2
<1> DEFINE u == <<Backslash, e>>
           s == u \o t
<1>3. Backslash \in Byte
    BY DEF Backslash, Byte
<1>4. u \in Seq(Byte) /\ Len(u) = 2 /\ u[1] = Backslash /\ u[2] = e /\ u # <<>>
    BY <1>3
<1>5. s[1] = Backslash /\ s[2] = e /\ 1 < Len(s)
  <2> HIDE DEF u
  <2>1. /\ Len(u \o t) = Len(u) + Len(t) /\ Len(t) \in Nat
        /\ \A k \in 1..Len(u) : (u \o t)[k] = u[k]
      BY <1>4, FrontFacts
  <2>2. 1 \in 1..Len(u) /\ 2 \in 1..Len(u)
      BY <1>4
  <2> QED
      BY <1>4, <2>1, <2>2
<1> HIDE DEF u
<1>6. ReadUnit(s, 1) = <<b>> /\ ReadOn(s, 1) = 3
  <2> HIDE DEF s
  <2>1. IsEscape(s, 1) /\ s[1 + 1] # 117 /\ s[1 + 1] = e
      BY <1>1, <1>5 DEF IsEscape
  <2>2. ReadOn(s, 1) = 1 + 2
      BY <2>1 DEF ReadOn
  <2>3. ReadUnit(s, 1) = <<ShortOf(e)>>
      BY <2>1 DEF ReadUnit
  <2> QED
      BY <1>1, <2>2, <2>3
<1>7. ReadOn(s, 1) = Len(u) + 1
    BY <1>4, <1>6
<1>8. Reading(u \o t) = <<b>> \o Reading(t)
    BY <1>2, <1>4, <1>6, <1>7, ReadingFront
<1> QED
    BY <1>1, <1>4, <1>8 DEF u

LEMMA DigitFacts ==
    ASSUME NEW n \in 0..15
    PROVE  HexDigit(n) \in 48..70 /\ HexValue(HexDigit(n)) = n
<1>1. CASE n < 10
    BY <1>1 DEF HexDigit, HexValue
<1>2. CASE ~(n < 10)
    BY <1>2 DEF HexDigit, HexValue
<1> QED
    BY <1>1, <1>2

LEMMA QuotientOf ==
    ASSUME NEW a \in Nat, NEW v \in 0..15
    PROVE  (a * 16 + v) \div 16 = a /\ (a * 16 + v) % 16 = v
OBVIOUS

LEMMA QuotientOfQuotient ==
    ASSUME NEW a \in Nat, NEW v \in 0..255
    PROVE  (a * 256 + v) \div 256 = a
OBVIOUS

LEMMA QuotientOfTwice ==
    ASSUME NEW a \in Nat, NEW v \in 0..4095
    PROVE  (a * 4096 + v) \div 4096 = a
OBVIOUS

LEMMA Division ==
    ASSUME NEW code \in Nat PROVE \E a \in Nat, v \in 0..15 : code = a * 16 + v
<1> DEFINE a == code \div 16
           v == code % 16
<1>1. a \in Nat /\ v \in 0..15 /\ code = a * 16 + v
    OBVIOUS
<1> QED
    BY <1>1

\* The codes \u can write, and their digits.
HasFourDigits(code) == code \in Nat /\ code < 65536
Digit(code, weight) == (code \div weight) % 16
LastDigit(code) == code % 16
DigitsAre(code) ==
    /\ Digit(code, 4096) \in 0..15 /\ Digit(code, 256) \in 0..15
    /\ Digit(code, 16) \in 0..15 /\ LastDigit(code) \in 0..15
    /\ code = Digit(code, 4096) * 4096 + Digit(code, 256) * 256 + Digit(code, 16) * 16
                  + LastDigit(code)

LEMMA HexDigits == ASSUME NEW code, HasFourDigits(code) PROVE DigitsAre(code)
<1>1. code \in Nat
    BY SMT DEF HasFourDigits
<1>2. PICK a \in Nat, v \in 0..15 : code = a * 16 + v
    BY <1>1, Division
<1>3. PICK b \in Nat, r \in 0..15 : a = b * 16 + r
    BY Division
<1>4. PICK c \in Nat, q \in 0..15 : b = c * 16 + q
    BY Division
<1>5. code = c * 4096 + q * 256 + r * 16 + v
    BY <1>2, <1>3, <1>4, SMT
<1>6. c < 16
    BY <1>5, SMT DEF HasFourDigits
<1>7. LastDigit(code) = v
    BY <1>2, QuotientOf DEF LastDigit
<1>8. Digit(code, 16) = r
  <2>1. code \div 16 = a
      BY <1>2, QuotientOf
  <2>2. a % 16 = r
      BY <1>3, QuotientOf
  <2> QED
      BY <2>1, <2>2 DEF Digit
<1>9. Digit(code, 256) = q
  <2>1. PICK y \in 0..255 : y = r * 16 + v
      OBVIOUS
  <2>2. code = b * 256 + y
      BY <1>2, <1>3, <2>1
  <2>3. code \div 256 = b
      BY <2>2, QuotientOfQuotient
  <2>4. b % 16 = q
      BY <1>4, QuotientOf
  <2> QED
      BY <2>3, <2>4 DEF Digit
<1>10. Digit(code, 4096) = c
  <2>1. PICK y \in 0..4095 : y = q * 256 + r * 16 + v
      OBVIOUS
  <2>2. code = c * 4096 + y
      BY <1>5, <2>1
  <2>3. code \div 4096 = c
      BY <2>2, QuotientOfTwice
  <2>4. c % 16 = c
      BY <1>6
  <2> QED
      BY <2>3, <2>4 DEF Digit
<1>11. c \in 0..15
    BY <1>6
<1> QED
    BY <1>5, <1>7, <1>8, <1>9, <1>10, <1>11 DEF DigitsAre

LEMMA UnicodeEscapeReads ==
    ASSUME NEW code, HasFourDigits(code), NEW t \in Seq(Byte)
    PROVE  /\ UnicodeEscape(code) \in Seq(Byte)
           /\ Reading(UnicodeEscape(code) \o t) = <<code>> \o Reading(t)
<1>0. code \in Int
    BY SMT DEF HasFourDigits
<1>1. PICK p, q, r, v :
              /\ p = Digit(code, 4096) /\ q = Digit(code, 256)
              /\ r = Digit(code, 16) /\ v = LastDigit(code)
    OBVIOUS
<1> DEFINE u == <<Backslash, 117, HexDigit(p), HexDigit(q), HexDigit(r), HexDigit(v)>>
           s == u \o t
<1>2. UnicodeEscape(code) = u
    BY <1>1 DEF UnicodeEscape, Digit, LastDigit
<1>12. DigitsAre(code)
    BY HexDigits
<1>13. p \in 0..15 /\ q \in 0..15 /\ r \in 0..15 /\ v \in 0..15
    BY <1>1, <1>12 DEF DigitsAre
<1>14. code = p * 4096 + q * 256 + r * 16 + v
    BY <1>1, <1>12 DEF DigitsAre
<1>3. /\ HexDigit(p) \in 48..70 /\ HexValue(HexDigit(p)) = p
      /\ HexDigit(q) \in 48..70 /\ HexValue(HexDigit(q)) = q
      /\ HexDigit(r) \in 48..70 /\ HexValue(HexDigit(r)) = r
      /\ HexDigit(v) \in 48..70 /\ HexValue(HexDigit(v)) = v
    BY <1>13, DigitFacts
<1>4. /\ Backslash \in Byte /\ 117 \in Byte
      /\ HexDigit(p) \in Byte /\ HexDigit(q) \in Byte /\ HexDigit(r) \in Byte /\ HexDigit(v) \in Byte
    BY <1>3 DEF Backslash, Byte
<1>5. /\ u \in Seq(Byte) /\ Len(u) = 6 /\ u # <<>>
      /\ u[1] = Backslash /\ u[2] = 117 /\ u[3] = HexDigit(p) /\ u[4] = HexDigit(q)
      /\ u[5] = HexDigit(r) /\ u[6] = HexDigit(v)
    BY <1>4
<1> HIDE DEF u
<1>6. /\ s[1] = Backslash /\ s[2] = 117 /\ s[3] = HexDigit(p) /\ s[4] = HexDigit(q)
      /\ s[5] = HexDigit(r) /\ s[6] = HexDigit(v) /\ 6 <= Len(s)
  <2>1. /\ Len(u \o t) = Len(u) + Len(t) /\ Len(t) \in Nat
        /\ \A k \in 1..Len(u) : (u \o t)[k] = u[k]
    <3>1. u \in Seq(Byte)
        BY <1>5
    <3> QED
        BY <3>1, FrontFacts
  <2>2. /\ 1 \in 1..Len(u) /\ 2 \in 1..Len(u) /\ 3 \in 1..Len(u)
        /\ 4 \in 1..Len(u) /\ 5 \in 1..Len(u) /\ 6 \in 1..Len(u)
      BY <1>5
  <2> QED
      BY <1>5, <2>1, <2>2
<1> HIDE DEF s
<1>7. Len(s) \in Nat
    BY <1>5, FrontFacts DEF s
<1>8. HexOf(s, 1) = code
  <2>1. 1 + 5 <= Len(s) /\ \A k \in 2..5 : HexValue(s[1 + k]) >= 0
    <3>1. s[1 + 2] = HexDigit(p) /\ s[1 + 3] = HexDigit(q) /\ s[1 + 4] = HexDigit(r) /\ s[1 + 5] = HexDigit(v)
        BY <1>6
    <3>2. \A k \in 2..5 : k = 2 \/ k = 3 \/ k = 4 \/ k = 5
        OBVIOUS
    <3>3. p >= 0 /\ q >= 0 /\ r >= 0 /\ v >= 0
        BY <1>13
    <3> QED
        BY <1>3, <1>6, <3>1, <3>2, <3>3
  <2>2. HexOf(s, 1) = HexValue(s[1 + 2]) * 4096 + HexValue(s[1 + 3]) * 256
                        + HexValue(s[1 + 4]) * 16 + HexValue(s[1 + 5])
      BY <2>1 DEF HexOf
  <2>3. /\ HexValue(s[1 + 2]) = p /\ HexValue(s[1 + 3]) = q
        /\ HexValue(s[1 + 4]) = r /\ HexValue(s[1 + 5]) = v
      BY <1>3, <1>6
  <2> QED
      BY <1>14, <2>2, <2>3
<1>9. ReadUnit(s, 1) = <<code>> /\ ReadOn(s, 1) = Len(u) + 1
  <2>1. IsEscape(s, 1) /\ s[1 + 1] = 117
      BY <1>6, <1>7 DEF IsEscape
  <2>2. ReadOn(s, 1) = 1 + 6
      BY <2>1 DEF ReadOn
  <2>3. ReadUnit(s, 1) = <<HexOf(s, 1)>>
      BY <2>1 DEF ReadUnit
  <2> QED
      BY <1>5, <1>8, <2>2, <2>3
<1>10. Reading(u \o t) = <<code>> \o Reading(t)
  <2>1. ReadUnit(u \o t, 1) = <<code>> /\ ReadOn(u \o t, 1) = Len(u) + 1
      BY <1>9 DEF s
  <2> QED
      BY <1>0, <1>5, <2>1, ReadingFront
<1> QED
    BY <1>2, <1>5, <1>10

\* A character that needs no escape.
LEMMA CharacterReads ==
    ASSUME NEW u \in Seq(Byte), u # <<>>, DecodedLength(u, 1) = Len(u),
           ~(u[1] < 32), u[1] # Quote, u[1] # Backslash, NEW t \in Seq(Byte)
    PROVE  Reading(u \o t) = <<CodePoint(u)>> \o Reading(t)
<1> DEFINE s == u \o t
           n == Len(u)
<1>0. n \in 1..4
  <2>1. n \in Nat \ {0}
      BY EmptySeq
  <2>2. 1 \in 1..Len(u)
      BY <2>1
  <2>3. DecodedLength(u, 1) \in 0..4
      BY <2>2, DecodedCases
  <2> QED
      BY <2>1, <2>3
<1>1. n \in Nat \ {0}
    BY <1>0
<1>2. /\ s \in Seq(Byte) /\ Len(s) = n + Len(t) /\ Len(t) \in Nat
      /\ \A k \in 1..n : s[k] = u[k]
    BY FrontFacts
<1>3. DecodedLength(s, 1) = n
    BY <1>0, DecodedPrefix
<1>4. SubSeq(s, 1, n) = u
  <2>1. SubSeq(s, 1, n) \in Seq(Byte) /\ Len(SubSeq(s, 1, n)) = n /\ \A k \in 1..n : SubSeq(s, 1, n)[k] = s[k]
    <3> HIDE DEF s
    <3>1. \A k \in 1..n : s[k] \in Byte
        BY <1>1, <1>2
    <3>2. /\ SubSeq(s, 1, n) \in Seq(Byte)
          /\ Len(SubSeq(s, 1, n)) = IF 1 <= n THEN n - 1 + 1 ELSE 0
          /\ \A k \in 1..n - 1 + 1 : SubSeq(s, 1, n)[k] = s[1 + k - 1]
        BY <1>1, <1>2, <3>1, SubSeqProperties
    <3>3. \A k \in 1..n : k \in 1..n - 1 + 1 /\ 1 + k - 1 = k
        BY <1>1
    <3> QED
        BY <1>1, <3>2, <3>3
  <2>2. \A k \in 1..Len(SubSeq(s, 1, n)) : SubSeq(s, 1, n)[k] = u[k]
      BY <1>2, <2>1
  <2> QED
      BY <2>1, <2>2, SeqEqual
<1>5. s[1] = u[1]
    BY <1>1, <1>2
<1> HIDE DEF s, n
<1>6. ~IsEscape(s, 1)
    BY <1>5 DEF IsEscape
<1>7. IsReadable(s, 1)
    BY <1>1, <1>3, <1>5 DEF IsReadable
<1>8. ReadUnit(s, 1) = <<CodePoint(u)>>
  <2>1. CharacterOf(s, 1) = SubSeq(s, 1, 1 + n - 1)
      BY <1>3 DEF CharacterOf
  <2>2. 1 + n - 1 = n
      BY <1>1
  <2> QED
      BY <1>4, <1>6, <1>7, <2>1, <2>2 DEF ReadUnit
<1>9. ReadOn(s, 1) = n + 1
  <2>1. ReadOn(s, 1) = 1 + n
      BY <1>3, <1>6, <1>7 DEF ReadOn
  <2> QED
      BY <1>1, <2>1
<1>10. CodePoint(u) \in Int
  <2>1. Len(u) \in 1..4
      BY <1>0 DEF n
  <2>2. CodePoint(u) \in Nat
      BY <2>1, CodePointIsNumber
  <2> QED
      BY <2>2
<1> QED
    BY <1>8, <1>9, <1>10, ReadingFront DEF s, n

-----------------------------------------------------------------------------
(* escapeJson: what is written tells what was read.                        *)

RestFrom(s, i) == SubSeq(s, i, Len(s))
CodeAt(s, i) == IF DecodedLength(s, i) # 0 THEN CodePoint(CharacterOf(s, i)) ELSE Replacement

LEMMA RestFacts ==
    ASSUME NEW C, NEW s \in Seq(C), NEW i \in 1..Len(s) + 1
    PROVE  /\ RestFrom(s, i) \in Seq(C) /\ Len(RestFrom(s, i)) = Len(s) + 1 - i
           /\ i - 1 \in 0..Len(s) /\ RestFrom(s, i) = SubSeq(s, (i - 1) + 1, Len(s))
           /\ i = Len(s) + 1 => RestFrom(s, i) = <<>>
<1> DEFINE a == i - 1
           t == SubSeq(s, a + 1, Len(s))
<1>1. Len(s) \in Nat /\ a \in 0..Len(s) /\ a + 1 = i
    OBVIOUS
<1> HIDE DEF a
<1>2. t \in Seq(C) /\ Len(t) = Len(s) - a
    BY <1>1, SuffixFacts
<1>3. t = RestFrom(s, i)
    BY <1>1 DEF RestFrom
<1> HIDE DEF t
<1>4. Len(t) = Len(s) + 1 - i
    BY <1>1, <1>2
<1>5. i = Len(s) + 1 => t = <<>>
  <2> SUFFICES ASSUME i = Len(s) + 1 PROVE t = <<>>
      OBVIOUS
  <2>1. Len(t) = 0
      BY <1>1, <1>4
  <2> QED
      BY <1>2, <2>1, EmptySeq
<1>6. t = SubSeq(s, a + 1, Len(s))
    BY DEF t
<1> QED
    BY <1>1, <1>2, <1>3, <1>4, <1>5, <1>6 DEF a

LEMMA RestOfRest ==
    ASSUME NEW C, NEW s \in Seq(C), NEW i \in 1..Len(s), NEW w \in 1..Len(s) + 1 - i
    PROVE  SubSeq(RestFrom(s, i), w + 1, Len(RestFrom(s, i))) = RestFrom(s, i + w)
<1> DEFINE t == RestFrom(s, i)
           n == Len(s) + 1 - i
           a == i - 1
<1>1. /\ Len(s) \in Nat /\ i \in 1..Len(s) + 1 /\ i + w \in 1..Len(s) + 1
      /\ a \in 0..Len(s) /\ n \in Nat \ {0} /\ n = Len(s) - a
    OBVIOUS
<1>2. t \in Seq(C) /\ Len(t) = n /\ t = SubSeq(s, a + 1, Len(s))
    BY <1>1, RestFacts
<1> HIDE DEF t
<1>3. CASE w = n
  <2>1. i + w = Len(s) + 1
      BY <1>1, <1>3
  <2>2. RestFrom(s, i + w) = <<>>
      BY <1>1, <2>1, RestFacts
  <2>3. w + 1 \in 1..Len(t) + 1 /\ w + 1 = Len(t) + 1
      BY <1>1, <1>2, <1>3
  <2>4. RestFrom(t, w + 1) = <<>>
      BY <1>2, <2>3, RestFacts
  <2> QED
      BY <2>2, <2>4 DEF RestFrom, t
<1>4. CASE w # n
  <2> HIDE DEF n, a
  <2>1. w + 1 \in 1..Len(s) - a /\ n \in 1..Len(s) - a
      BY <1>1, <1>4 DEF n
  <2>2. SubSeq(t, w + 1, n) = SubSeq(s, a + (w + 1), a + n)
      BY <1>1, <1>2, <2>1, PartBehind
  <2>3. a + (w + 1) = i + w /\ a + n = Len(s)
      BY <1>1 DEF a, n
  <2>4. SubSeq(t, w + 1, Len(t)) = SubSeq(s, i + w, Len(s))
      BY <1>2, <2>2, <2>3
  <2> QED
      BY <2>4 DEF RestFrom, t
<1> QED
    BY <1>3, <1>4

\* What the rest means begins with the character it begins with.
LEMMA RestMeans ==
    ASSUME NEW s \in Seq(Byte), NEW i \in 1..Len(s)
    PROVE  /\ CodeAt(s, i) \in Int /\ Meaning(RestFrom(s, i + Width(s, i))) \in Seq(Int)
           /\ Meaning(RestFrom(s, i)) = <<CodeAt(s, i)>> \o Meaning(RestFrom(s, i + Width(s, i)))
<1> DEFINE t == RestFrom(s, i)
           a == i - 1
           w == Width(s, i)
<1>1. /\ Len(s) \in Nat /\ i \in 1..Len(s) + 1 /\ a \in 0..Len(s) /\ a + 1 = i
      /\ 1 \in 1..Len(s) - a
    OBVIOUS
<1>2. t \in Seq(Byte) /\ Len(t) = Len(s) - a /\ t = SubSeq(s, a + 1, Len(s))
  <2>1. t \in Seq(Byte) /\ Len(t) = Len(s) + 1 - i /\ t = SubSeq(s, (i - 1) + 1, Len(s))
      BY <1>1, RestFacts
  <2> QED
      BY <2>1
<1>3. w \in 1..4 /\ i + w - 1 <= Len(s)
    BY FirstWidth
<1>4. DecodedLength(t, 1) = DecodedLength(s, i)
  <2> HIDE DEF a
  <2>1. DecodedLength(SubSeq(s, a + 1, Len(s)), 1) = DecodedLength(s, a + 1)
      BY <1>1, DecodedInSuffix
  <2> QED
      BY <1>1, <1>2, <2>1
<1>5. Width(t, 1) = w
    BY <1>4 DEF Width
<1> HIDE DEF t, w
<1>6. SubSeq(t, w + 1, Len(t)) = RestFrom(s, i + w)
  <2>1. w \in 1..Len(s) + 1 - i
      BY <1>1, <1>3
  <2> QED
      BY <2>1, RestOfRest DEF t
<1>7. t # <<>> /\ Len(t) \in Nat /\ 1 \in 1..Len(t)
  <2>1. Len(t) \in Nat \ {0}
      BY <1>1, <1>2
  <2>2. t # <<>>
      BY <1>2, <2>1, EmptySeq
  <2> QED
      BY <2>1, <2>2
<1>8. MeaningAt(t, 1) = <<CodeAt(s, i)>>
  <2>1. CASE DecodedLength(s, i) = 0
    <3>1. ~Covered(t, 1)
        BY <1>2, <1>4, <1>7, <2>1, CoveredAtStart
    <3> QED
        BY <1>4, <2>1, <3>1 DEF MeaningAt, CodeAt
  <2>2. CASE DecodedLength(s, i) # 0
    <3>1. w = DecodedLength(s, i)
        BY <2>2 DEF w, Width
    <3>2. w \in 1..Len(s) - a
        BY <1>1, <1>3
    <3>3. SubSeq(t, 1, w) = SubSeq(s, a + 1, a + w)
      <4> HIDE DEF a
      <4> QED
          BY <1>1, <1>2, <3>2, PartBehind
    <3>4. 1 + w - 1 = w /\ a + w = i + w - 1 /\ a + 1 = i
        BY <1>1, <1>3
    <3>5. CharacterOf(t, 1) = CharacterOf(s, i)
        BY <1>4, <3>1, <3>3, <3>4 DEF CharacterOf
    <3> QED
        BY <1>4, <2>2, <3>5 DEF MeaningAt, CodeAt
  <2> QED
      BY <2>1, <2>2
<1>9. /\ MeaningAt(t, 1) \in Seq(Int)
      /\ Meaning(t) = MeaningAt(t, 1) \o Meaning(SubSeq(t, Width(t, 1) + 1, Len(t)))
    BY <1>2, <1>7, MeaningFront
<1>10. CodeAt(s, i) \in Int
  <2>1. <<CodeAt(s, i)>> \in Seq(Int)
      BY <1>8, <1>9
  <2> QED
      BY <2>1
<1>11. RestFrom(s, i + w) \in Seq(Byte)
  <2>1. i + w \in 1..Len(s) + 1
      BY <1>1, <1>3
  <2> QED
      BY <2>1, RestFacts
<1>12. Meaning(RestFrom(s, i + w)) \in Seq(Int)
  <2>1. CASE RestFrom(s, i + w) = <<>>
    <3>1. <<>> \in Seq(Int)
        OBVIOUS
    <3> QED
        BY <2>1, <3>1, NothingMeansNothing
  <2>2. CASE RestFrom(s, i + w) # <<>>
      BY <1>11, <2>2, MeaningFront
  <2> QED
      BY <2>1, <2>2
<1>13. Meaning(t) = <<CodeAt(s, i)>> \o Meaning(RestFrom(s, i + w))
    BY <1>5, <1>6, <1>8, <1>9
<1> QED
    BY <1>10, <1>12, <1>13 DEF t, w

\* The output so far reads as the input so far means.
Tells(m, s, i, out) ==
    /\ Meaning(s) = m \o Meaning(RestFrom(s, i))
    /\ \A rest \in Seq(Byte) : Reading(out \o rest) = m \o Reading(rest)
Told(s, i, out) == \E m \in Seq(Int) : Tells(m, s, i, out)

\* Reading is a sequence of numbers.
LEMMA ReadingType == ASSUME NEW s \in Seq(Byte) PROVE Reading(s) \in Seq(Int)
<1>1. PICK f : Reading(s) = f[1] /\ Walks(f, Len(s), ReadUnits(s), ReadNexts(s))
    BY ReadingEquation
<1>2. Len(s) \in Nat /\ 1 \in 1..Len(s) + 1
    OBVIOUS
<1>3. Forward(Len(s), Int, ReadUnits(s), ReadNexts(s))
    BY ReadForward
<1>4. f[1] \in Seq(Int)
    BY <1>1, <1>2, <1>3, WalkStays
<1> QED
    BY <1>1, <1>4

LEMMA GroupedNumbers ==
    \A p, q, r \in Seq(Int) : (p \o q) \o r = p \o (q \o r)
BY ConcatAssociative

LEMMA GroupedBytes ==
    \A p, q, r \in Seq(Byte) : (p \o q) \o r = p \o (q \o r)
BY ConcatAssociative

LEMMA TellMore ==
    ASSUME NEW s \in Seq(Byte), NEW i \in 1..Len(s), NEW out \in Seq(Byte), Told(s, i, out),
           NEW u \in Seq(Byte),
           \A rest \in Seq(Byte) : Reading(u \o rest) = <<CodeAt(s, i)>> \o Reading(rest)
    PROVE  Told(s, i + Width(s, i), out \o u)
<1>1. PICK m \in Seq(Int) : Tells(m, s, i, out)
    BY DEF Told
<1> DEFINE x == <<CodeAt(s, i)>>
           j == i + Width(s, i)
<1>2. CodeAt(s, i) \in Int
    BY RestMeans
<1>3. x \in Seq(Int)
    BY <1>2
<1>4. Meaning(RestFrom(s, j)) \in Seq(Int) /\ Meaning(RestFrom(s, i)) = x \o Meaning(RestFrom(s, j))
    BY RestMeans
<1> HIDE DEF x, j
<1>5. m \o x \in Seq(Int)
    BY <1>3, ConcatProperties
<1>6. Meaning(s) = (m \o x) \o Meaning(RestFrom(s, j))
  <2>1. Meaning(s) = m \o (x \o Meaning(RestFrom(s, j)))
      BY <1>1, <1>4 DEF Tells
  <2> QED
      BY <1>1, <1>3, <1>4, <2>1, GroupedNumbers
<1>7. ASSUME NEW rest \in Seq(Byte)
      PROVE  Reading((out \o u) \o rest) = (m \o x) \o Reading(rest)
  <2>1. u \o rest \in Seq(Byte)
      BY ConcatProperties
  <2>2. (out \o u) \o rest = out \o (u \o rest)
      BY GroupedBytes
  <2>3. Reading(out \o (u \o rest)) = m \o Reading(u \o rest)
      BY <1>1, <2>1 DEF Tells
  <2>4. Reading(u \o rest) = x \o Reading(rest)
      BY DEF x
  <2>5. Reading(rest) \in Seq(Int)
      BY ReadingType
  <2>6. m \o (x \o Reading(rest)) = (m \o x) \o Reading(rest)
      BY <1>1, <1>3, <2>5, GroupedNumbers
  <2> QED
      BY <2>2, <2>3, <2>4, <2>6
<1>8. Tells(m \o x, s, j, out \o u)
    BY <1>6, <1>7 DEF Tells
<1> QED
    BY <1>5, <1>8 DEF Told, j

Writes(s, i, u) ==
    /\ u \in Seq(Byte)
    /\ \A rest \in Seq(Byte) : Reading(u \o rest) = <<CodeAt(s, i)>> \o Reading(rest)

LEMMA WholeCharacter ==
    ASSUME NEW s \in Seq(Byte), NEW i \in 1..Len(s), DecodedLength(s, i) # 0
    PROVE  LET n == DecodedLength(s, i)
               c == CharacterOf(s, i) IN
           /\ n \in 1..4 /\ i + n - 1 <= Len(s) /\ Width(s, i) = n
           /\ c \in Seq(Byte) /\ Len(c) = n /\ \A k \in 1..n : c[k] = s[i + k - 1]
           /\ DecodedLength(c, 1) = n
<1>1. PICK n \in 1..4 : n = DecodedLength(s, i)
  <2>1. DecodedLength(s, i) \in 0..4
      BY DecodedCases
  <2> QED
      BY <2>1
<1> DEFINE c == SubSeq(s, i, i + n - 1)
<1>2. i + n - 1 <= Len(s) /\ IsCharacter(c)
    BY <1>1, CharacterAt
<1>3. c \in Seq(Byte) /\ Len(c) = n /\ \A k \in 1..n : c[k] = s[i + k - 1]
    BY <1>2, BytesOf
<1>4. c = CharacterOf(s, i)
    BY <1>1 DEF CharacterOf
<1> HIDE DEF c
<1>5. SubSeq(c, 1, n) = c
  <2>1. SubSeq(c, 1, Len(c)) = c
      BY <1>3, SubSeqFull
  <2> QED
      BY <1>3, <2>1
<1>6. 1 \in 1..Len(c) /\ 1 + n - 1 = n
    BY <1>3
<1>7. SubSeq(c, 1, 1 + n - 1) = c /\ 1 + n - 1 <= Len(c)
    BY <1>3, <1>5, <1>6
<1>8. DecodedLength(c, 1) = n
    BY <1>2, <1>3, <1>6, <1>7, CharacterAt
<1>9. Width(s, i) = n
    BY <1>1 DEF Width
<1> QED
    BY <1>1, <1>2, <1>3, <1>4, <1>8, <1>9

LEMMA CharacterByte ==
    ASSUME NEW s \in Seq(Byte), NEW i \in 1..Len(s), DecodedLength(s, i) # 0,
           NEW k \in 1..DecodedLength(s, i)
    PROVE  CharacterOf(s, i)[k] = s[i + k - 1]
BY WholeCharacter, Zenon

LEMMA AsciiAlone ==
    ASSUME NEW s \in Seq(Byte), NEW i \in 1..Len(s), s[i] <= 127
    PROVE  DecodedLength(s, i) = 1 /\ Width(s, i) = 1 /\ CodeAt(s, i) = s[i]
<1>1. s[i] \in 0..255
    BY ByteAt
<1>2. LengthFrom(s[i]) = 1
    BY <1>1, LeadLengths DEF LeadsTo
<1>3. StandsAt(s, i, 1)
    BY <1>2 DEF StandsAt
<1>4. DecodedLength(s, i) = 1
    BY <1>3, DecodedCases
<1>5. Len(CharacterOf(s, i)) = 1 /\ CharacterOf(s, i)[1] = s[i]
  <2>1. DecodedLength(s, i) # 0 /\ 1 \in 1..DecodedLength(s, i) /\ i + 1 - 1 = i
      BY <1>4
  <2>2. Len(CharacterOf(s, i)) = DecodedLength(s, i)
      BY <2>1, WholeCharacter
  <2>3. CharacterOf(s, i)[1] = s[i + 1 - 1]
      BY <2>1, CharacterByte
  <2> QED
      BY <1>4, <2>1, <2>2, <2>3
<1>6. CodePoint(CharacterOf(s, i)) = s[i]
    BY <1>5 DEF CodePoint
<1> QED
    BY <1>4, <1>6 DEF Width, CodeAt

LEMMA AsciiTells ==
    ASSUME NEW s \in Seq(Byte), NEW i \in 1..Len(s), s[i] <= 127
    PROVE  Writes(s, i, EscapedAscii(s[i])) /\ Width(s, i) = 1
<1>1. PICK b : b = s[i]
    OBVIOUS
<1>2. b \in 0..255 /\ b <= 127
    BY <1>1, ByteAt
<1>3. CodeAt(s, i) = b /\ Width(s, i) = 1
    BY <1>1, AsciiAlone
<1>4. CASE b \in DOMAIN ShortEscape
  <2>1. EscapedAscii(b) = <<Backslash, ShortEscape[b]>>
      BY <1>4 DEF EscapedAscii
  <2>2. EscapedAscii(b) \in Seq(Byte)
      BY <1>4, <2>1, ShortEscapeReads
  <2>3. \A rest \in Seq(Byte) : Reading(EscapedAscii(b) \o rest) = <<b>> \o Reading(rest)
      BY <1>4, <2>1, ShortEscapeReads
  <2> QED
      BY <1>1, <1>3, <2>2, <2>3 DEF Writes
<1>5. CASE b \notin DOMAIN ShortEscape /\ IsControl(b)
  <2>1. EscapedAscii(b) = UnicodeEscape(b)
      BY <1>5 DEF EscapedAscii
  <2>2. HasFourDigits(b)
      BY <1>2, SMT DEF HasFourDigits
  <2>3. UnicodeEscape(b) \in Seq(Byte) /\ UnicodeEscape(b) \in Seq(Byte)
      BY <2>2, UnicodeEscapeReads
  <2>4. \A rest \in Seq(Byte) : Reading(UnicodeEscape(b) \o rest) = <<b>> \o Reading(rest)
      BY <2>2, UnicodeEscapeReads
  <2> QED
      BY <1>1, <1>3, <2>1, <2>3, <2>4 DEF Writes
<1>6. CASE b \notin DOMAIN ShortEscape /\ ~IsControl(b)
  <2> DEFINE u == <<b>>
  <2>1. EscapedAscii(b) = u
      BY <1>6 DEF EscapedAscii
  <2>2. b \in Byte
      BY <1>2 DEF Byte
  <2>3. u \in Seq(Byte) /\ Len(u) = 1 /\ u[1] = b /\ u # <<>>
      BY <2>2
  <2>4. b # 34 /\ b # 92
      BY <1>6 DEF ShortEscape, Quote, Backslash
  <2> HIDE DEF u
  <2>5. ~(u[1] < 32) /\ u[1] # Quote /\ u[1] # Backslash
      BY <1>6, <2>3, <2>4 DEF IsControl, Quote, Backslash
  <2>6. DecodedLength(u, 1) = Len(u)
    <3>1. 1 \in 1..Len(u) /\ u[1] <= 127
        BY <1>2, <2>3
    <3>2. DecodedLength(u, 1) = 1
        BY <2>3, <3>1, AsciiAlone
    <3> QED
        BY <2>3, <3>2
  <2>7. CodePoint(u) = b
      BY <2>3 DEF CodePoint
  <2>8. \A rest \in Seq(Byte) : Reading(u \o rest) = <<CodePoint(u)>> \o Reading(rest)
      BY <2>3, <2>5, <2>6, CharacterReads
  <2> QED
      BY <1>1, <1>3, <2>1, <2>3, <2>7, <2>8 DEF Writes
<1> QED
    BY <1>3, <1>4, <1>5, <1>6

LEMMA ReplacementHasDigits == HasFourDigits(Replacement)
BY SMT DEF HasFourDigits, Replacement

LEMMA BrokenTells ==
    ASSUME NEW s \in Seq(Byte), NEW i \in 1..Len(s), DecodedLength(s, i) = 0
    PROVE  Writes(s, i, UnicodeEscape(Replacement)) /\ Width(s, i) = 1
<1>1. CodeAt(s, i) = Replacement /\ Width(s, i) = 1
    BY DEF CodeAt, Width
<1>2. /\ UnicodeEscape(Replacement) \in Seq(Byte)
      /\ \A rest \in Seq(Byte) :
            Reading(UnicodeEscape(Replacement) \o rest) = <<Replacement>> \o Reading(rest)
  <2>1. ASSUME NEW rest \in Seq(Byte)
        PROVE  Reading(UnicodeEscape(Replacement) \o rest) = <<Replacement>> \o Reading(rest)
      BY ReplacementHasDigits, UnicodeEscapeReads
  <2>2. <<>> \in Seq(Byte)
      OBVIOUS
  <2>3. UnicodeEscape(Replacement) \in Seq(Byte)
      BY <2>2, ReplacementHasDigits, UnicodeEscapeReads
  <2> QED
      BY <2>1, <2>3
<1> QED
    BY <1>1, <1>2 DEF Writes

LEMMA UnsafeHasDigits == ASSUME NEW code, IsUnsafe(code) PROVE HasFourDigits(code)
BY SMT DEF IsUnsafe, HasFourDigits

LEMMA CharacterTells ==
    ASSUME NEW s \in Seq(Byte), NEW i \in 1..Len(s), DecodedLength(s, i) # 0, s[i] > 127
    PROVE  Writes(s, i, IF IsUnsafe(CodePoint(CharacterOf(s, i)))
                        THEN UnicodeEscape(CodePoint(CharacterOf(s, i)))
                        ELSE CharacterOf(s, i))
<1>1. PICK c : c = CharacterOf(s, i)
    OBVIOUS
<1>2. PICK code : code = CodePoint(c)
    OBVIOUS
<1>3. CodeAt(s, i) = code
    BY <1>1, <1>2 DEF CodeAt
<1>4. CASE IsUnsafe(code)
  <2>1. HasFourDigits(code)
      BY <1>4, UnsafeHasDigits
  <2>2. \A rest \in Seq(Byte) : Reading(UnicodeEscape(code) \o rest) = <<code>> \o Reading(rest)
      BY <2>1, UnicodeEscapeReads
  <2>3. <<>> \in Seq(Byte)
      OBVIOUS
  <2>4. UnicodeEscape(code) \in Seq(Byte)
      BY <2>1, <2>3, UnicodeEscapeReads
  <2>5. Writes(s, i, UnicodeEscape(code))
      BY <1>3, <2>2, <2>4 DEF Writes
  <2> QED
      BY <1>1, <1>2, <1>4, <2>5
<1>5. CASE ~IsUnsafe(code)
  <2>1. PICK n \in 1..4 : n = DecodedLength(s, i) /\ n = Len(c) /\ n = DecodedLength(c, 1)
      BY <1>1, WholeCharacter
  <2>2. c \in Seq(Byte)
      BY <1>1, WholeCharacter
  <2>3. c[1] = s[i]
    <3>2. i + 1 - 1 = i /\ 1 \in 1..DecodedLength(s, i)
        BY <2>1
    <3>1. c[1] = s[i + 1 - 1]
        BY <1>1, <3>2, CharacterByte
    <3> QED
        BY <3>1, <3>2
  <2>4. c # <<>> /\ DecodedLength(c, 1) = Len(c)
      BY <2>1, <2>2, EmptySeq
  <2>5. s[i] \in 0..255
      BY ByteAt
  <2>6. ~(c[1] < 32) /\ c[1] # Quote /\ c[1] # Backslash
    <3>1. PICK b \in 0..255 : b = c[1] /\ b > 127
        BY <2>3, <2>5
    <3>2. ~(b < 32) /\ b # 34 /\ b # 92
        BY <3>1
    <3> QED
        BY <3>1, <3>2 DEF Quote, Backslash
  <2>7. \A rest \in Seq(Byte) : Reading(c \o rest) = <<CodePoint(c)>> \o Reading(rest)
      BY <2>2, <2>4, <2>6, CharacterReads
  <2>8. Writes(s, i, c)
      BY <1>2, <1>3, <2>2, <2>7 DEF Writes
  <2> QED
      BY <1>1, <1>2, <1>5, <2>8
<1> QED
    BY <1>4, <1>5

EscapeProgress ==
    /\ value \in Seq(Byte) /\ offset \in 1..Len(value) + 1 /\ escaped \in Seq(Byte)
    /\ phase = "done" => offset = Len(value) + 1
    /\ Told(value, offset, escaped)

LEMMA EscapeStarts == EscapeInit => EscapeProgress
<1> SUFFICES ASSUME EscapeInit PROVE EscapeProgress
    OBVIOUS
<1>1. value \in Seq(Byte) /\ offset = 1 /\ escaped = <<>> /\ phase = "escape"
    BY ValuesAssumption DEF EscapeInit
<1>2. offset \in 1..Len(value) + 1 /\ escaped \in Seq(Byte)
  <2>1. Len(value) \in Nat
      BY <1>1
  <2> QED
      BY <1>1, <2>1
<1>3. RestFrom(value, 1) = value
    BY <1>1, SubSeqFull DEF RestFrom
<1>4. Meaning(value) \in Seq(Int)
  <2>1. CASE value = <<>>
    <3>1. <<>> \in Seq(Int)
        OBVIOUS
    <3> QED
        BY <2>1, <3>1, NothingMeansNothing
  <2>2. CASE value # <<>>
      BY <1>1, <2>2, MeaningFront
  <2> QED
      BY <2>1, <2>2
<1>5. Meaning(value) = <<>> \o Meaning(RestFrom(value, 1))
    BY <1>3, <1>4, ConcatEmptySeq
<1>6. ASSUME NEW rest \in Seq(Byte) PROVE Reading(<<>> \o rest) = <<>> \o Reading(rest)
  <2>1. <<>> \o rest = rest
      BY ConcatEmptySeq
  <2>2. Reading(rest) \in Seq(Int)
      BY ReadingType
  <2>3. <<>> \o Reading(rest) = Reading(rest)
      BY <2>2, ConcatEmptySeq
  <2> QED
      BY <2>1, <2>3
<1>7. Tells(<<>>, value, 1, <<>>)
    BY <1>5, <1>6 DEF Tells
<1>8. <<>> \in Seq(Int)
    OBVIOUS
<1>9. Told(value, offset, escaped)
    BY <1>1, <1>7, <1>8 DEF Told
<1> QED
    BY <1>1, <1>2, <1>9 DEF EscapeProgress

\* One step of the walk, whatever it writes.
LEMMA EscapeGoesOn ==
    ASSUME EscapeProgress, Escaping, NEW u, Writes(value, offset, u),
           NEW w, w = Width(value, offset), Consume(w, u)
    PROVE  EscapeProgress'
<1>1. /\ value \in Seq(Byte) /\ escaped \in Seq(Byte) /\ offset \in 1..Len(value) + 1
      /\ Told(value, offset, escaped)
    BY DEF EscapeProgress
<1>2. offset \in 1..Len(value)
    BY <1>1 DEF Escaping
<1>3. w \in 1..4 /\ offset + w - 1 <= Len(value)
    BY <1>1, <1>2, FirstWidth
<1>4. offset' = offset + w /\ escaped' = escaped \o u /\ value' = value /\ phase' = "escape"
    BY DEF Consume, Escaping
<1>5. u \in Seq(Byte) /\ \A rest \in Seq(Byte) :
          Reading(u \o rest) = <<CodeAt(value, offset)>> \o Reading(rest)
    BY DEF Writes
<1>6. Told(value, offset + Width(value, offset), escaped \o u)
    BY <1>1, <1>2, <1>5, TellMore
<1>7. Told(value, offset, escaped)'
    BY <1>4, <1>6
<1>8. offset' \in 1..Len(value') + 1
    BY <1>2, <1>3, <1>4
<1>9. escaped' \in Seq(Byte)
    BY <1>1, <1>4, <1>5, ConcatProperties
<1> QED
    BY <1>1, <1>4, <1>7, <1>8, <1>9 DEF EscapeProgress

LEMMA EscapeSteps == EscapeProgress /\ [EscapeNext]_escape_vars => EscapeProgress'
<1> SUFFICES ASSUME EscapeProgress, [EscapeNext]_escape_vars PROVE EscapeProgress'
    OBVIOUS
<1>1. /\ value \in Seq(Byte) /\ escaped \in Seq(Byte) /\ offset \in 1..Len(value) + 1
      /\ Told(value, offset, escaped)
    BY DEF EscapeProgress
<1>2. Escaping => offset \in 1..Len(value)
    BY <1>1 DEF Escaping
<1>3. CASE Ascii
  <2>1. Escaping /\ value[offset] <= 127 /\ Consume(1, EscapedAscii(value[offset]))
      BY <1>3 DEF Ascii, NextByte
  <2>2. Writes(value, offset, EscapedAscii(value[offset])) /\ Width(value, offset) = 1
      BY <1>1, <1>2, <2>1, AsciiTells
  <2> QED
      BY <2>1, <2>2, EscapeGoesOn
<1>4. CASE Undecodable
  <2>1. Escaping /\ DecodedLength(value, offset) = 0 /\ Consume(1, UnicodeEscape(Replacement))
      BY <1>4 DEF Undecodable, Resume
  <2>2. Writes(value, offset, UnicodeEscape(Replacement)) /\ Width(value, offset) = 1
      BY <1>1, <1>2, <2>1, BrokenTells
  <2> QED
      BY <2>1, <2>2, EscapeGoesOn
<1>5. CASE Character
  <2> DEFINE c == CharacterOf(value, offset)
             u == IF IsUnsafe(CodePoint(c)) THEN UnicodeEscape(CodePoint(c)) ELSE c
  <2>1. Escaping /\ value[offset] > 127 /\ DecodedLength(value, offset) > 0
      BY <1>5 DEF Character, NextByte
  <2>2. Consume(DecodedLength(value, offset), u)
      BY <1>5 DEF Character, CharacterOf
  <2> HIDE DEF u
  <2>3. PICK d \in 1..4 : d = DecodedLength(value, offset) /\ d # 0
    <3>1. DecodedLength(value, offset) \in 0..4
        BY <1>1, <1>2, <2>1, DecodedCases
    <3> QED
        BY <2>1, <3>1
  <2>4. Width(value, offset) = DecodedLength(value, offset)
      BY <2>3 DEF Width
  <2>5. Writes(value, offset, u)
      BY <1>1, <1>2, <2>1, <2>3, CharacterTells DEF u
  <2> QED
      BY <2>1, <2>2, <2>4, <2>5, EscapeGoesOn
<1>6. CASE EscapeReturn
  <2>1. UNCHANGED <<value, offset, escaped>> /\ offset > Len(value)
      BY <1>6 DEF EscapeReturn
  <2>2. offset = Len(value) + 1
    <3>1. Len(value) \in Nat
        BY <1>1
    <3> QED
        BY <1>1, <2>1, <3>1
  <2>3. Told(value, offset, escaped)'
      BY <1>1, <2>1
  <2> QED
      BY <1>1, <2>1, <2>2, <2>3 DEF EscapeProgress
<1>7. CASE UNCHANGED escape_vars
  <2>1. UNCHANGED <<phase, value, offset, escaped>>
      BY <1>7 DEF escape_vars
  <2>2. Told(value, offset, escaped)'
      BY <1>1, <2>1
  <2> QED
      BY <2>1, <2>2 DEF EscapeProgress
<1> QED
    BY <1>3, <1>4, <1>5, <1>6, <1>7 DEF EscapeNext, EscapeWork, EscapeDone

LEMMA EscapeTellsAll == EscapeProgress => MeaningIsPreserved
<1> SUFFICES ASSUME EscapeProgress, phase = "done" PROVE Reading(escaped) = Meaning(value)
    BY DEF MeaningIsPreserved
<1>1. /\ value \in Seq(Byte) /\ escaped \in Seq(Byte) /\ offset = Len(value) + 1
      /\ Told(value, offset, escaped)
    BY DEF EscapeProgress
<1>2. PICK m \in Seq(Int) : Tells(m, value, offset, escaped)
    BY <1>1 DEF Told
<1>3. RestFrom(value, offset) = <<>>
  <2>1. offset \in 1..Len(value) + 1
      BY <1>1 DEF EscapeProgress
  <2> QED
      BY <1>1, <2>1, RestFacts
<1>4. Meaning(value) = m \o <<>>
    BY <1>2, <1>3, NothingMeansNothing DEF Tells
<1>5. Reading(escaped \o <<>>) = m \o <<>>
  <2>1. <<>> \in Seq(Byte)
      OBVIOUS
  <2>2. Reading(escaped \o <<>>) = m \o Reading(<<>>)
      BY <1>2, <2>1 DEF Tells
  <2> QED
      BY <2>2, NothingReadsNothing
<1>6. escaped \o <<>> = escaped
    BY <1>1, ConcatEmptySeq
<1> QED
    BY <1>4, <1>5, <1>6

\* Whatever the bytes, a JSON reader gets back from what escapeJson wrote
\* every character of the string and one U+FFFD for each byte that belongs to
\* none.
THEOREM EscapingTellsAll == EscapeSpec => []MeaningIsPreserved
<1>1. EscapeInit => EscapeProgress
    BY EscapeStarts
<1>2. EscapeProgress /\ [EscapeNext]_escape_vars => EscapeProgress'
    BY EscapeSteps
<1>3. EscapeProgress => MeaningIsPreserved
    BY EscapeTellsAll
<1> QED
    BY <1>1, <1>2, <1>3, PTL DEF EscapeSpec

-----------------------------------------------------------------------------
(* humanSafe: no control character, and no character torn.                 *)

Unbroken == Byte \ ((0..31) \cup {127})
HumanBytes == [b \in Byte |-> HumanByte(b)]
Foreign == [c \in Int |-> IF c > 127 THEN <<c>> ELSE <<>>]

LEMMA HumanByteIsUnbroken == ASSUME NEW b \in Byte PROVE HumanByte(b) \in Seq(Unbroken)
<1>1. b \in 0..255
    BY DEF Byte
<1>2. \A c : c \in Unbroken <=> c \in 0..255 /\ c > 31 /\ c # 127
    BY DEF Unbroken, Byte
<1>3. 92 \in Unbroken /\ 120 \in Unbroken
    BY <1>2
<1>4. CASE b \in {8, 9, 10, 12, 13}
  <2>1. /\ 98 \in Unbroken /\ 116 \in Unbroken /\ 110 \in Unbroken
        /\ 102 \in Unbroken /\ 114 \in Unbroken
      BY <1>2
  <2>2. ShortEscape[b] \in {98, 116, 110, 102, 114}
      BY <1>4 DEF ShortEscape
  <2>3. ShortEscape[b] \in Unbroken
      BY <2>1, <2>2
  <2>4. HumanByte(b) = <<92, ShortEscape[b]>>
      BY <1>4 DEF HumanByte, Backslash
  <2> QED
      BY <1>3, <2>3, <2>4
<1>5. CASE b \notin {8, 9, 10, 12, 13} /\ NeedsHex(b)
  <2>1. b \div 16 \in 0..15 /\ b % 16 \in 0..15
      BY <1>1
  <2>2. HexDigit(b \div 16) \in 48..70 /\ HexDigit(b % 16) \in 48..70
      BY <2>1, DigitFacts
  <2>3. HexDigit(b \div 16) \in Unbroken /\ HexDigit(b % 16) \in Unbroken
      BY <1>2, <2>2
  <2>4. HumanByte(b) = <<92, 120, HexDigit(b \div 16), HexDigit(b % 16)>>
      BY <1>5 DEF HumanByte, Backslash
  <2> QED
      BY <1>3, <2>3, <2>4
<1>6. CASE b \notin {8, 9, 10, 12, 13} /\ ~NeedsHex(b)
  <2>1. b > 31 /\ b # 127
      BY <1>1, <1>6 DEF NeedsHex, IsControl
  <2>2. b \in Unbroken
      BY <1>1, <1>2, <2>1
  <2>3. HumanByte(b) = <<b>>
      BY <1>6 DEF HumanByte
  <2> QED
      BY <2>2, <2>3
<1> QED
    BY <1>4, <1>5, <1>6

\* humanSafe of one byte, and of a string behind another.
LEMMA HumanSpreads ==
    ASSUME NEW s \in Seq(Byte) PROVE HumanSafe(s) = Spread(HumanBytes, s)
<1>1. \A i \in DOMAIN s : s[i] \in Byte
  <2> HIDE DEF Byte
  <2> QED
      OBVIOUS
<1>2. \A i \in DOMAIN s : HumanBytes[s[i]] = HumanByte(s[i])
    BY <1>1 DEF HumanBytes
<1>3. [i \in DOMAIN s |-> HumanByte(s[i])] = [i \in DOMAIN s |-> HumanBytes[s[i]]]
    BY <1>2
<1> QED
    BY <1>3 DEF HumanSafe, Spread

LEMMA HumanFacts ==
    /\ \A s \in Seq(Byte) : HumanSafe(s) \in Seq(Unbroken)
    /\ HumanSafe(<<>>) = <<>>
    /\ \A b \in Byte : HumanSafe(<<b>>) = HumanByte(b)
    /\ \A s, t \in Seq(Byte) : HumanSafe(s \o t) = HumanSafe(s) \o HumanSafe(t)
<1>1. HumanBytes \in [Byte -> Seq(Unbroken)]
    BY HumanByteIsUnbroken DEF HumanBytes
<1>2. Spreads(Byte, Unbroken, HumanBytes)
    BY <1>1, SpreadConcat
<1>3. \A s \in Seq(Byte) : HumanSafe(s) \in Seq(Unbroken)
    BY <1>2, HumanSpreads DEF Spreads
<1>4. HumanSafe(<<>>) = <<>>
  <2>1. <<>> \in Seq(Byte)
      OBVIOUS
  <2> QED
      BY <2>1, HumanSpreads, SpreadEmpty
<1>5. ASSUME NEW b \in Byte PROVE HumanSafe(<<b>>) = HumanByte(b)
  <2>1. <<b>> \in Seq(Byte)
      OBVIOUS
  <2>2. HumanSafe(<<b>>) = HumanBytes[b]
      BY <1>2, <2>1, HumanSpreads DEF Spreads
  <2> QED
      BY <2>2 DEF HumanBytes
<1>6. ASSUME NEW s \in Seq(Byte), NEW t \in Seq(Byte)
      PROVE  HumanSafe(s \o t) = HumanSafe(s) \o HumanSafe(t)
  <2>1. s \o t \in Seq(Byte)
      BY ConcatProperties
  <2> QED
      BY <1>2, <2>1, HumanSpreads DEF Spreads
<1> QED
    BY <1>3, <1>4, <1>5, <1>6

LEMMA UnbrokenIsByte ==
    ASSUME NEW s \in Seq(Unbroken)
    PROVE  s \in Seq(Byte) /\ \A i \in DOMAIN s : s[i] \notin (0..31) \cup {127}
<1>1. Unbroken \subseteq Byte
    BY DEF Unbroken
<1>2. ASSUME NEW i \in DOMAIN s PROVE s[i] \in Unbroken
    OBVIOUS
<1>3. s \in Seq(Byte)
    BY <1>1
<1>4. \A i \in DOMAIN s : s[i] \notin (0..31) \cup {127}
    BY <1>2 DEF Unbroken
<1> QED
    BY <1>3, <1>4

\* The code points beyond ASCII.
LEMMA BeyondSpreads ==
    ASSUME NEW s \in Seq(Int) PROVE BeyondAscii(s) = Spread(Foreign, s)
<1>1. \A i \in DOMAIN s : s[i] \in Int
    OBVIOUS
<1>2. \A i \in DOMAIN s : Foreign[s[i]] = IF s[i] > 127 THEN <<s[i]>> ELSE <<>>
    BY <1>1 DEF Foreign
<1>3. [i \in DOMAIN s |-> IF s[i] > 127 THEN <<s[i]>> ELSE <<>>] = [i \in DOMAIN s |-> Foreign[s[i]]]
    BY <1>2
<1> QED
    BY <1>3 DEF BeyondAscii, Spread

LEMMA BeyondFront ==
    ASSUME NEW c \in Int, NEW s \in Seq(Int)
    PROVE  /\ BeyondAscii(<<c>> \o s) = BeyondAscii(<<c>>) \o BeyondAscii(s)
           /\ c <= 127 => BeyondAscii(<<c>> \o s) = BeyondAscii(s)
<1>1. Foreign \in [Int -> Seq(Int)]
  <2>1. \A x \in Int : (IF x > 127 THEN <<x>> ELSE <<>>) \in Seq(Int)
      OBVIOUS
  <2> QED
      BY <2>1 DEF Foreign
<1>2. Spreads(Int, Int, Foreign)
    BY <1>1, SpreadConcat
<1>3. <<c>> \in Seq(Int)
    OBVIOUS
<1>4. <<c>> \o s \in Seq(Int)
    BY <1>3, ConcatProperties
<1>5. BeyondAscii(<<c>> \o s) = BeyondAscii(<<c>>) \o BeyondAscii(s) /\ BeyondAscii(s) \in Seq(Int)
    BY <1>2, <1>3, <1>4, BeyondSpreads DEF Spreads
<1>6. ASSUME c <= 127 PROVE BeyondAscii(<<c>> \o s) = BeyondAscii(s)
  <2>1. BeyondAscii(<<c>>) = Foreign[c]
      BY <1>2, <1>3, BeyondSpreads DEF Spreads
  <2>2. Foreign[c] = <<>>
      BY <1>6 DEF Foreign
  <2> QED
      BY <1>5, <2>1, <2>2, ConcatEmptySeq
<1> QED
    BY <1>5, <1>6

\* Well-formed text is text every byte of which a character covers.
LEMMA WellFormedCovered ==
    ASSUME NEW s \in Seq(Byte)
    PROVE  WellFormed(s) <=> \A i \in 1..Len(s) : Covered(s, i)
<1> SUFFICES ASSUME NEW i \in 1..Len(s)
             PROVE  (\E r \in CharactersOf(s) : Covers(r, i)) <=> Covered(s, i)
    BY DEF WellFormed
<1>1. ASSUME NEW r \in CharactersOf(s), Covers(r, i) PROVE Covered(s, i)
  <2>1. r \in (1..Len(s)) \X (1..4) /\ DecodedLength(s, r[1]) = r[2]
      BY CharactersDecoded
  <2>2. r[1] \in 1..Len(s) /\ DecodedLength(s, r[1]) # 0
      BY <2>1
  <2> QED
      BY <1>1, <2>1, <2>2 DEF Covers, Covered
<1>2. ASSUME NEW j \in 1..Len(s), DecodedLength(s, j) # 0, j <= i, i < j + DecodedLength(s, j)
      PROVE  \E r \in CharactersOf(s) : Covers(r, i)
  <2>1. DecodedLength(s, j) \in 0..4
      BY DecodedCases
  <2>2. PICK d \in 1..4 : d = DecodedLength(s, j)
      BY <1>2, <2>1
  <2>3. <<j, d>> \in (1..Len(s)) \X (1..4) /\ <<j, d>>[1] = j /\ <<j, d>>[2] = d
      OBVIOUS
  <2>4. <<j, d>> \in CharactersOf(s)
      BY <2>2, <2>3, CharactersDecoded
  <2>5. Covers(<<j, d>>, i)
      BY <1>2, <2>2, <2>3 DEF Covers
  <2> QED
      BY <2>4, <2>5
<1> QED
    BY <1>1, <1>2 DEF Covered

LEMMA WellFormedFront ==
    ASSUME NEW s \in Seq(Byte), s # <<>>
    PROVE  WellFormed(s) <=> /\ DecodedLength(s, 1) # 0
                             /\ WellFormed(SubSeq(s, Width(s, 1) + 1, Len(s)))
<1> DEFINE n == Width(s, 1)
           t == SubSeq(s, n + 1, Len(s))
<1>1. /\ n \in 1..Len(s) /\ t \in Seq(Byte) /\ Len(t) = Len(s) - n
      /\ \A i \in 1..Len(s) - n : Covered(t, i) <=> Covered(s, n + i)
    BY MeaningBehind
<1>2. /\ \A i \in 2..n : Covered(s, i)
      /\ DecodedLength(s, 1) = 0 => ~Covered(s, 1)
    BY CoveredAtStart
<1>3. Len(s) \in Nat /\ 1 \in 1..Len(s)
    BY EmptySeq
<1>4. WellFormed(t) <=> \A i \in 1..Len(s) - n : Covered(s, n + i)
    BY <1>1, WellFormedCovered
<1>5. WellFormed(s) <=> \A i \in 1..Len(s) : Covered(s, i)
    BY WellFormedCovered
<1>6. DecodedLength(s, 1) # 0 => Covered(s, 1)
  <2> SUFFICES ASSUME DecodedLength(s, 1) # 0 PROVE Covered(s, 1)
      OBVIOUS
  <2>1. PICK d \in 0..4 : d = DecodedLength(s, 1)
      BY <1>3, DecodedCases
  <2>2. 1 < 1 + d /\ 1 <= 1
      BY <2>1
  <2> QED
      BY <1>3, <2>1, <2>2 DEF Covered
<1> HIDE DEF n, t
<1>7. ASSUME WellFormed(s) PROVE DecodedLength(s, 1) # 0 /\ WellFormed(t)
  <2>1. DecodedLength(s, 1) # 0
      BY <1>2, <1>3, <1>5, <1>7
  <2>2. \A i \in 1..Len(s) - n : n + i \in 1..Len(s)
      BY <1>1, <1>3
  <2>3. WellFormed(t)
      BY <1>4, <1>5, <1>7, <2>2
  <2> QED
      BY <2>1, <2>3
<1>8. ASSUME DecodedLength(s, 1) # 0, WellFormed(t) PROVE WellFormed(s)
  <2> SUFFICES ASSUME NEW i \in 1..Len(s) PROVE Covered(s, i)
      BY <1>5
  <2>1. CASE i = 1
      BY <1>6, <1>8, <2>1
  <2>2. CASE i \in 2..n
      BY <1>2, <2>2
  <2>3. CASE i > n
    <3>1. i - n \in 1..Len(s) - n /\ n + (i - n) = i
        BY <1>1, <1>3, <2>3
    <3> QED
        BY <1>4, <1>8, <3>1
  <2>4. i = 1 \/ i \in 2..n \/ i > n
      BY <1>1, <1>3
  <2> QED
      BY <2>1, <2>2, <2>3, <2>4
<1> QED
    BY <1>7, <1>8 DEF t, n

\* A character in front of a text.
LEMMA CharacterFront ==
    ASSUME NEW u \in Seq(Byte), u # <<>>, DecodedLength(u, 1) = Len(u), NEW x \in Seq(Byte)
    PROVE  /\ CodePoint(u) \in Int /\ Meaning(x) \in Seq(Int)
           /\ Meaning(u \o x) = <<CodePoint(u)>> \o Meaning(x)
           /\ WellFormed(u \o x) <=> WellFormed(x)
<1>1. PICK n \in 1..4 : n = Len(u)
  <2>1. Len(u) \in Nat \ {0}
      BY EmptySeq
  <2>2. 1 \in 1..Len(u)
      BY <2>1
  <2>3. DecodedLength(u, 1) \in 0..4
      BY <2>2, DecodedCases
  <2> QED
      BY <2>1, <2>3
<1> DEFINE s == u \o x
<1>2. /\ s \in Seq(Byte) /\ Len(s) = n + Len(x) /\ Len(x) \in Nat
      /\ \A k \in 1..n : s[k] = u[k]
    BY <1>1, FrontFacts
<1>3. DecodedLength(s, 1) = n
    BY <1>1, DecodedPrefix
<1>4. SubSeq(s, n + 1, Len(s)) = x
    BY <1>1, RestOfConcat
<1> HIDE DEF s
<1>5. Width(s, 1) = n /\ DecodedLength(s, 1) # 0
    BY <1>1, <1>3 DEF Width
<1>6. s # <<>> /\ 1 \in 1..Len(s)
  <2>1. Len(s) \in Nat \ {0}
      BY <1>1, <1>2
  <2> QED
      BY <1>2, <2>1, EmptySeq
<1>7. CharacterOf(s, 1) = u
  <2>1. CharacterOf(s, 1) \in Seq(Byte) /\ Len(CharacterOf(s, 1)) = DecodedLength(s, 1)
      BY <1>2, <1>5, <1>6, WholeCharacter
  <2>2. ASSUME NEW k \in 1..n PROVE CharacterOf(s, 1)[k] = u[k]
    <3>1. CharacterOf(s, 1)[k] = s[1 + k - 1]
        BY <1>2, <1>3, <1>5, <1>6, CharacterByte
    <3>2. 1 + k - 1 = k
        OBVIOUS
    <3> QED
        BY <1>2, <3>1, <3>2
  <2> QED
      BY <1>1, <1>3, <2>1, <2>2, SeqEqual
<1>8. CodeAt(s, 1) = CodePoint(u)
    BY <1>5, <1>7 DEF CodeAt
<1>9. RestFrom(s, 1) = s
    BY <1>2, SubSeqFull DEF RestFrom
<1>10. RestFrom(s, 1 + Width(s, 1)) = x
  <2>1. 1 + n = n + 1
      OBVIOUS
  <2> QED
      BY <1>4, <1>5, <2>1 DEF RestFrom
<1>11. /\ CodeAt(s, 1) \in Int /\ Meaning(RestFrom(s, 1 + Width(s, 1))) \in Seq(Int)
       /\ Meaning(RestFrom(s, 1)) = <<CodeAt(s, 1)>> \o Meaning(RestFrom(s, 1 + Width(s, 1)))
    BY <1>2, <1>6, RestMeans
<1>12. WellFormed(s) <=> WellFormed(x)
    BY <1>2, <1>4, <1>5, <1>6, WellFormedFront
<1> QED
    BY <1>8, <1>9, <1>10, <1>11, <1>12 DEF s

\* ASCII in front of a text changes nothing of what is behind it.
Hides(h) ==
    \A x \in Seq(Byte) :
        /\ WellFormed(x) => WellFormed(h \o x)
        /\ BeyondAscii(Meaning(h \o x)) = BeyondAscii(Meaning(x))

LEMMA AsciiHides == ASSUME NEW b \in Byte, b <= 127 PROVE Hides(<<b>>)
<1>1. b \in 0..255
    BY DEF Byte
<1> DEFINE u == <<b>>
<1>2. u \in Seq(Byte) /\ Len(u) = 1 /\ u[1] = b /\ u # <<>>
    OBVIOUS
<1> HIDE DEF u
<1>3. DecodedLength(u, 1) = Len(u)
  <2>1. 1 \in 1..Len(u) /\ u[1] <= 127
      BY <1>2
  <2>2. DecodedLength(u, 1) = 1
      BY <1>2, <2>1, AsciiAlone
  <2> QED
      BY <1>2, <2>2
<1>4. CodePoint(u) = b
    BY <1>2 DEF CodePoint
<1>5. ASSUME NEW x \in Seq(Byte)
      PROVE  /\ WellFormed(x) => WellFormed(u \o x)
             /\ BeyondAscii(Meaning(u \o x)) = BeyondAscii(Meaning(x))
  <2>1. /\ Meaning(x) \in Seq(Int)
        /\ Meaning(u \o x) = <<CodePoint(u)>> \o Meaning(x)
        /\ WellFormed(u \o x) <=> WellFormed(x)
      BY <1>2, <1>3, CharacterFront
  <2>2. b \in Int /\ b <= 127
      BY <1>1
  <2>3. BeyondAscii(<<b>> \o Meaning(x)) = BeyondAscii(Meaning(x))
      BY <2>1, <2>2, BeyondFront
  <2> QED
      BY <1>4, <2>1, <2>3
<1> QED
    BY <1>5 DEF Hides, u

LEMMA BothHide ==
    ASSUME NEW g \in Seq(Byte), NEW h \in Seq(Byte), Hides(g), Hides(h)
    PROVE  Hides(g \o h)
<1> SUFFICES ASSUME NEW x \in Seq(Byte)
             PROVE  /\ WellFormed(x) => WellFormed((g \o h) \o x)
                    /\ BeyondAscii(Meaning((g \o h) \o x)) = BeyondAscii(Meaning(x))
    BY DEF Hides
<1>1. (g \o h) \o x = g \o (h \o x)
    BY GroupedBytes
<1>2. h \o x \in Seq(Byte)
    BY ConcatProperties
<1>3. /\ WellFormed(x) => WellFormed(h \o x)
      /\ BeyondAscii(Meaning(h \o x)) = BeyondAscii(Meaning(x))
    BY DEF Hides
<1>4. /\ WellFormed(h \o x) => WellFormed(g \o (h \o x))
      /\ BeyondAscii(Meaning(g \o (h \o x))) = BeyondAscii(Meaning(h \o x))
    BY <1>2 DEF Hides
<1> QED
    BY <1>1, <1>3, <1>4

LEMMA AppendTwo ==
    ASSUME NEW C, NEW a \in C, NEW b \in C PROVE Append(<<a>>, b) = <<a, b>>
<1> DEFINE s == <<a>>
           t == <<a, b>>
           r == Append(s, b)
<1>0. s \in Seq(C)
    OBVIOUS
<1>1. Len(s) = 1 /\ s[1] = a
    OBVIOUS
<1>2. t \in Seq(C) /\ Len(t) = 2 /\ t[1] = a /\ t[2] = b
    OBVIOUS
<1> HIDE DEF s, t
<1>3. r \in Seq(C) /\ Len(r) = 2 /\ r[1] = a /\ r[2] = b
  <2>1. PICK z \in Seq(C) : z = s
      BY <1>0
  <2>2. /\ Append(z, b) \in Seq(C) /\ Len(Append(z, b)) = Len(z) + 1
        /\ \A i \in 1..Len(z) : Append(z, b)[i] = z[i]
        /\ Append(z, b)[Len(z) + 1] = b
      BY AppendProperties
  <2>4. Len(z) = 1
      BY <1>1, <2>1
  <2>3. Len(z) + 1 = 2 /\ 1 \in 1..Len(z)
      BY <2>4
  <2> QED
      BY <1>1, <2>1, <2>2, <2>3
<1>4. \A i \in 1..Len(r) : r[i] = t[i]
    BY <1>2, <1>3
<1> HIDE DEF r
<1>5. r = t
    BY <1>2, <1>3, <1>4, SeqEqual
<1> QED
    BY <1>5 DEF r, s, t

LEMMA AppendFour ==
    ASSUME NEW C, NEW a \in C, NEW b \in C, NEW c \in C, NEW d \in C
    PROVE  Append(Append(<<a, b>>, c), d) = <<a, b, c, d>>
<1> DEFINE s == <<a, b>>
           t == <<a, b, c, d>>
           q == Append(s, c)
           r == Append(q, d)
<1>0. s \in Seq(C)
    OBVIOUS
<1>1. Len(s) = 2 /\ s[1] = a /\ s[2] = b
    OBVIOUS
<1>2. t \in Seq(C) /\ Len(t) = 4 /\ t[1] = a /\ t[2] = b /\ t[3] = c /\ t[4] = d
    OBVIOUS
<1> HIDE DEF s, t
<1>3. q \in Seq(C) /\ Len(q) = 3 /\ q[1] = a /\ q[2] = b /\ q[3] = c
  <2>1. PICK z \in Seq(C) : z = s
      BY <1>0
  <2>2. /\ Append(z, c) \in Seq(C) /\ Len(Append(z, c)) = Len(z) + 1
        /\ \A i \in 1..Len(z) : Append(z, c)[i] = z[i]
        /\ Append(z, c)[Len(z) + 1] = c
      BY AppendProperties
  <2>4. Len(z) = 2
      BY <1>1, <2>1
  <2>3. Len(z) + 1 = 3 /\ 1 \in 1..Len(z) /\ 2 \in 1..Len(z)
      BY <2>4
  <2> QED
      BY <1>1, <2>1, <2>2, <2>3
<1> HIDE DEF q
<1>4. r \in Seq(C) /\ Len(r) = 4 /\ r[1] = a /\ r[2] = b /\ r[3] = c /\ r[4] = d
    BY <1>3, AppendProperties
<1>5. \A i \in 1..Len(r) : r[i] = t[i]
    BY <1>2, <1>4
<1> HIDE DEF r
<1>6. r = t
    BY <1>2, <1>4, <1>5, SeqEqual
<1> QED
    BY <1>6 DEF r, q, s, t

LEMMA OneMoreHides ==
    ASSUME NEW h \in Seq(Byte), Hides(h), NEW b \in Byte, b <= 127
    PROVE  Hides(Append(h, b)) /\ Append(h, b) \in Seq(Byte)
<1>1. <<b>> \in Seq(Byte) /\ Append(h, b) \in Seq(Byte)
    OBVIOUS
<1>2. Append(h, b) = h \o <<b>>
    BY AppendIsConcat
<1>3. Hides(<<b>>)
    BY AsciiHides
<1>4. Hides(h \o <<b>>)
    BY <1>1, <1>3, BothHide
<1> QED
    BY <1>1, <1>2, <1>4

LEMMA TwoHide ==
    ASSUME NEW a \in Byte, NEW b \in Byte, a <= 127, b <= 127
    PROVE  Hides(<<a, b>>) /\ <<a, b>> \in Seq(Byte)
<1>0. Append(<<a>>, b) = <<a, b>>
    BY AppendTwo
<1>1. <<a>> \in Seq(Byte)
    OBVIOUS
<1>2. Hides(<<a>>)
    BY AsciiHides
<1>3. Hides(Append(<<a>>, b)) /\ Append(<<a>>, b) \in Seq(Byte)
    BY <1>1, <1>2, OneMoreHides
<1> QED
    BY <1>0, <1>3

LEMMA HumanAsciiHides == ASSUME NEW b \in Byte, b <= 127 PROVE Hides(HumanByte(b))
<1>1. b \in 0..255
    BY DEF Byte
<1>2. \A c : c \in Byte <=> c \in 0..255
    BY DEF Byte
<1>3. 92 \in Byte /\ 120 \in Byte
    BY <1>2
<1>4. CASE b \in {8, 9, 10, 12, 13}
  <2>1. ShortEscape[b] \in {98, 116, 110, 102, 114}
      BY <1>4 DEF ShortEscape
  <2>2. ShortEscape[b] \in Byte /\ ShortEscape[b] <= 127
      BY <1>2, <2>1
  <2>3. HumanByte(b) = <<92, ShortEscape[b]>>
      BY <1>4 DEF HumanByte, Backslash
  <2> QED
      BY <1>3, <2>2, <2>3, TwoHide
<1>5. CASE b \notin {8, 9, 10, 12, 13} /\ NeedsHex(b)
  <2>1. b \div 16 \in 0..15 /\ b % 16 \in 0..15
      BY <1>1
  <2>2. PICK p \in 48..70, q \in 48..70 : p = HexDigit(b \div 16) /\ q = HexDigit(b % 16)
      BY <2>1, DigitFacts
  <2>3. p \in Byte /\ q \in Byte /\ p <= 127 /\ q <= 127
      BY <1>2
  <2>4. HumanByte(b) = <<92, 120, p, q>>
      BY <1>5, <2>2 DEF HumanByte, Backslash
  <2>5. Hides(<<92, 120>>) /\ <<92, 120>> \in Seq(Byte)
      BY <1>3, TwoHide
  <2>6. Hides(Append(<<92, 120>>, p)) /\ Append(<<92, 120>>, p) \in Seq(Byte)
      BY <2>3, <2>5, OneMoreHides
  <2>7. Hides(Append(Append(<<92, 120>>, p), q))
      BY <2>3, <2>6, OneMoreHides
  <2>8. Append(Append(<<92, 120>>, p), q) = <<92, 120, p, q>>
      BY <1>3, <2>3, AppendFour
  <2> QED
      BY <2>4, <2>7, <2>8
<1>6. CASE b \notin {8, 9, 10, 12, 13} /\ ~NeedsHex(b)
  <2>1. HumanByte(b) = <<b>>
      BY <1>6 DEF HumanByte
  <2> QED
      BY <2>1, AsciiHides
<1> QED
    BY <1>4, <1>5, <1>6

\* Bytes beyond ASCII stay as they are.
Beyond127 == 128..255
LEMMA BeyondStays == ASSUME NEW u \in Seq(Beyond127) PROVE HumanSafe(u) = u
<1> DEFINE Counter == {n \in Nat : \E v \in Seq(Beyond127) : Len(v) = n /\ HumanSafe(v) # v}
<1> SUFFICES ASSUME HumanSafe(u) # u PROVE FALSE
    OBVIOUS
<1>1. Counter \in SUBSET Nat /\ Counter # {}
  <2>1. Len(u) \in Nat
      OBVIOUS
  <2>2. Len(u) \in Counter
      BY <2>1
  <2> QED
      BY <2>2
<1>2. PICK m \in Counter : \A n \in Counter : m <= n
  <2> HIDE DEF Counter
  <2> QED
      BY <1>1, LeastNumber
<1>3. PICK v \in Seq(Beyond127) : Len(v) = m /\ HumanSafe(v) # v
    BY <1>2
<1>4. v # <<>>
    BY <1>3, HumanFacts
<1>5. PICK h \in Seq(Beyond127), x \in Beyond127 : v = Append(h, x)
    BY <1>4, SequenceEmptyOrAppend
<1>6. Len(h) \in Nat /\ Len(h) < m
    BY <1>3, <1>5, AppendProperties
<1>7. HumanSafe(h) = h
    BY <1>2, <1>6
<1>8. h \in Seq(Byte) /\ x \in Byte /\ <<x>> \in Seq(Byte)
  <2>1. Beyond127 \subseteq Byte
      BY DEF Beyond127, Byte
  <2>2. h \in Seq(Byte) /\ x \in Byte
      BY <2>1
  <2>3. <<x>> \in Seq(Byte)
      BY <2>2
  <2> QED
      BY <2>2, <2>3
<1>9. HumanByte(x) = <<x>>
  <2>1. x \notin {8, 9, 10, 12, 13} /\ ~IsControl(x)
      BY DEF Beyond127, IsControl
  <2> QED
      BY <2>1 DEF HumanByte, NeedsHex
<1>10. v = h \o <<x>>
    BY <1>5, AppendIsConcat
<1>11. HumanSafe(h \o <<x>>) = h \o <<x>>
  <2>1. HumanSafe(h \o <<x>>) = HumanSafe(h) \o HumanSafe(<<x>>)
      BY <1>8, HumanFacts
  <2>2. HumanSafe(<<x>>) = HumanByte(x)
      BY <1>8, HumanFacts
  <2> QED
      BY <1>7, <1>9, <2>1, <2>2
<1> QED
    BY <1>3, <1>10, <1>11

LEMMA CharacterStays ==
    ASSUME NEW s \in Seq(Byte), NEW i \in 1..Len(s), DecodedLength(s, i) # 0, s[i] > 127
    PROVE  HumanSafe(CharacterOf(s, i)) = CharacterOf(s, i)
<1>1. PICK n \in 1..4 : n = DecodedLength(s, i)
  <2>1. DecodedLength(s, i) \in 0..4
      BY DecodedCases
  <2> QED
      BY <2>1
<1>2. PICK c : c = CharacterOf(s, i)
    OBVIOUS
<1>3. c \in Seq(Byte) /\ Len(c) = n
    BY <1>1, <1>2, WholeCharacter
<1>4. ASSUME NEW k \in 1..Len(c) PROVE c[k] \in Beyond127
  <2>1. c[k] = s[i + k - 1]
      BY <1>1, <1>2, <1>3, CharacterByte
  <2>2. CASE k = 1
    <3>1. i + k - 1 = i
        BY <2>2
    <3>2. PICK b \in 0..255 : b = s[i] /\ b > 127
        BY ByteAt
    <3>4. \A x \in 0..255 : x > 127 => x \in 128..255
        OBVIOUS
    <3>3. b \in 128..255
        BY <3>2, <3>4
    <3> QED
        BY <2>1, <3>1, <3>2, <3>3 DEF Beyond127
  <2>3. CASE k # 1
    <3>1. StandsAt(s, i, n)
        BY <1>1, DecodedCases
    <3>2. i + k - 1 \in i + 1..i + n - 1
        BY <1>3, <2>3
    <3>3. s[i + k - 1] \in 128..191
        BY <3>1, <3>2, Continues
    <3> QED
        BY <2>1, <3>3 DEF Beyond127
  <2> QED
      BY <2>2, <2>3
<1>5. c \in Seq(Beyond127)
  <2>1. c = [k \in 1..Len(c) |-> c[k]] /\ Len(c) \in Nat
      BY <1>3
  <2> QED
      BY <1>4, <2>1
<1> QED
    BY <1>2, <1>5, BeyondStays

\* A text is a part of it and what is behind.
LEMMA FrontAndRest ==
    ASSUME NEW C, NEW s \in Seq(C), NEW n \in 1..Len(s)
    PROVE  s = SubSeq(s, 1, n) \o SubSeq(s, n + 1, Len(s))
<1>1. Len(s) \in Nat /\ Len(s) \in 1..Len(s) /\ 1 \in 1..Len(s) + 1 /\ n \in 1 - 1..Len(s)
    OBVIOUS
<1>2. SubSeq(s, 1, n) \o SubSeq(s, n + 1, Len(s)) = SubSeq(s, 1, Len(s))
    BY <1>1, ConcatAdjacentSubSeq
<1>3. SubSeq(s, 1, Len(s)) = s
    BY SubSeqFull
<1> QED
    BY <1>2, <1>3

KeepsCharacters(s) ==
    WellFormed(s) =>
        /\ WellFormed(HumanSafe(s))
        /\ BeyondAscii(Meaning(HumanSafe(s))) = BeyondAscii(Meaning(s))

LEMMA HumanIsBytes == ASSUME NEW s \in Seq(Byte) PROVE HumanSafe(s) \in Seq(Byte)
BY HumanFacts, UnbrokenIsByte

\* One character more in front.
LEMMA KeepsOneMore ==
    ASSUME NEW s \in Seq(Byte), s # <<>>, DecodedLength(s, 1) # 0,
           WellFormed(s),
           \A t \in Seq(Byte) : Len(t) < Len(s) => KeepsCharacters(t)
    PROVE  KeepsCharacters(s)
<1>1. Len(s) \in Nat /\ 1 \in 1..Len(s)
    BY EmptySeq
<1>2. PICK n \in 1..4 : n = DecodedLength(s, 1)
  <2>1. DecodedLength(s, 1) \in 0..4
      BY <1>1, DecodedCases
  <2> QED
      BY <2>1
<1>3. PICK u : u = CharacterOf(s, 1)
    OBVIOUS
<1>4. u \in Seq(Byte) /\ Len(u) = n /\ DecodedLength(u, 1) = n /\ 1 + n - 1 <= Len(s)
    BY <1>1, <1>2, <1>3, WholeCharacter
<1>5. u # <<>> /\ DecodedLength(u, 1) = Len(u)
    BY <1>4, EmptySeq
<1>6. u = SubSeq(s, 1, n)
  <2>1. 1 + n - 1 = n
      OBVIOUS
  <2> QED
      BY <1>2, <1>3, <2>1 DEF CharacterOf
<1>7. PICK t : t = SubSeq(s, n + 1, Len(s))
    OBVIOUS
<1>8. n \in 1..Len(s) /\ n \in 0..Len(s)
    BY <1>1, <1>4
<1>9. t \in Seq(Byte) /\ Len(t) = Len(s) - n
    BY <1>7, <1>8, SuffixFacts
<1>10. s = u \o t
    BY <1>6, <1>7, <1>8, FrontAndRest
<1>11. /\ CodePoint(u) \in Int /\ Meaning(t) \in Seq(Int)
       /\ Meaning(u \o t) = <<CodePoint(u)>> \o Meaning(t)
       /\ WellFormed(u \o t) <=> WellFormed(t)
    BY <1>4, <1>5, <1>9, CharacterFront
<1>12. WellFormed(t)
    BY <1>10, <1>11
<1>13. Len(t) < Len(s)
    BY <1>1, <1>9
<1>14. PICK y : y = HumanSafe(t)
    OBVIOUS
<1>15. y \in Seq(Byte)
    BY <1>9, <1>14, HumanIsBytes
<1>16. WellFormed(y) /\ BeyondAscii(Meaning(y)) = BeyondAscii(Meaning(t))
    BY <1>9, <1>12, <1>13, <1>14 DEF KeepsCharacters
<1>17. HumanSafe(s) = HumanSafe(u) \o y
    BY <1>4, <1>9, <1>10, <1>14, HumanFacts
<1>18. CASE s[1] <= 127
  <2>1. PICK b : b = s[1]
      OBVIOUS
  <2>2. b \in Byte
      BY <1>1, <2>1, ByteAt DEF Byte
  <2>3. u = <<b>>
    <3>1. n = 1
        BY <1>1, <1>2, <1>18, AsciiAlone
    <3>2. u[1] = b
      <4>1. u[1] = s[1 + 1 - 1]
        <5>1. 1 \in 1..DecodedLength(s, 1)
            BY <1>2
        <5> QED
            BY <1>1, <1>3, <5>1, CharacterByte
      <4>2. 1 + 1 - 1 = 1
          OBVIOUS
      <4> QED
          BY <2>1, <4>1, <4>2
    <3>3. <<b>> \in Seq(Byte) /\ Len(<<b>>) = 1 /\ <<b>>[1] = b
        BY <2>2
    <3>4. \A i \in 1..Len(u) : u[i] = <<b>>[i]
        BY <1>4, <3>1, <3>2, <3>3
    <3> QED
        BY <1>4, <3>1, <3>3, <3>4, SeqEqual
  <2>4. HumanSafe(u) = HumanByte(b)
      BY <2>2, <2>3, HumanFacts
  <2>5. Hides(HumanByte(b)) /\ Hides(<<b>>)
      BY <1>18, <2>1, <2>2, HumanAsciiHides, AsciiHides
  <2>6. /\ WellFormed(HumanByte(b) \o y)
        /\ BeyondAscii(Meaning(HumanByte(b) \o y)) = BeyondAscii(Meaning(y))
      BY <1>15, <1>16, <2>5 DEF Hides
  <2>7. BeyondAscii(Meaning(<<b>> \o t)) = BeyondAscii(Meaning(t))
      BY <1>9, <2>5 DEF Hides
  <2> QED
      BY <1>10, <1>16, <1>17, <2>3, <2>4, <2>6, <2>7 DEF KeepsCharacters
<1>19. CASE s[1] > 127
  <2>1. HumanSafe(u) = u
      BY <1>1, <1>3, <1>19, CharacterStays
  <2>2. /\ Meaning(y) \in Seq(Int)
        /\ Meaning(u \o y) = <<CodePoint(u)>> \o Meaning(y)
        /\ WellFormed(u \o y) <=> WellFormed(y)
      BY <1>4, <1>5, <1>15, CharacterFront
  <2>3. /\ BeyondAscii(<<CodePoint(u)>> \o Meaning(y))
              = BeyondAscii(<<CodePoint(u)>>) \o BeyondAscii(Meaning(y))
        /\ BeyondAscii(<<CodePoint(u)>> \o Meaning(t))
              = BeyondAscii(<<CodePoint(u)>>) \o BeyondAscii(Meaning(t))
      BY <1>11, <2>2, BeyondFront
  <2>4. WellFormed(HumanSafe(s))
      BY <1>16, <1>17, <2>1, <2>2
  <2>5. BeyondAscii(Meaning(HumanSafe(s))) = BeyondAscii(Meaning(s))
      BY <1>10, <1>11, <1>16, <1>17, <2>1, <2>2, <2>3
  <2> QED
      BY <2>4, <2>5 DEF KeepsCharacters
<1>20. s[1] <= 127 \/ s[1] > 127
  <2>1. PICK b \in 0..255 : b = s[1]
      BY <1>1, ByteAt
  <2>2. b <= 127 \/ b > 127
      OBVIOUS
  <2> QED
      BY <2>1, <2>2
<1> QED
    BY <1>18, <1>19, <1>20

LEMMA HumanKeepsCharacters == ASSUME NEW s \in Seq(Byte) PROVE KeepsCharacters(s)
<1> DEFINE Counter == {n \in Nat : \E v \in Seq(Byte) : Len(v) = n /\ ~KeepsCharacters(v)}
<1> SUFFICES ASSUME ~KeepsCharacters(s) PROVE FALSE
    OBVIOUS
<1>1. Counter \in SUBSET Nat /\ Counter # {}
  <2>1. Len(s) \in Nat
      OBVIOUS
  <2>2. Len(s) \in Counter
      BY <2>1
  <2> QED
      BY <2>2
<1>2. PICK m \in Counter : \A n \in Counter : m <= n
  <2> HIDE DEF Counter
  <2> QED
      BY <1>1, LeastNumber
<1>3. PICK v \in Seq(Byte) : Len(v) = m /\ ~KeepsCharacters(v)
    BY <1>2
<1>4. \A t \in Seq(Byte) : Len(t) < Len(v) => KeepsCharacters(t)
  <2> SUFFICES ASSUME NEW t \in Seq(Byte), Len(t) < Len(v), ~KeepsCharacters(t) PROVE FALSE
      OBVIOUS
  <2>1. Len(t) \in Nat
      OBVIOUS
  <2>2. Len(t) \in Counter
      BY <2>1
  <2>3. m <= Len(t) /\ m \in Nat
      BY <1>2, <2>2
  <2> QED
      BY <1>3, <2>1, <2>3
<1>5. v # <<>>
  <2>1. KeepsCharacters(<<>>)
      BY HumanFacts DEF KeepsCharacters
  <2> QED
      BY <1>3, <2>1
<1>6. WellFormed(v)
    BY <1>3 DEF KeepsCharacters
<1>7. DecodedLength(v, 1) # 0
    BY <1>5, <1>6, WellFormedFront
<1>8. KeepsCharacters(v)
    BY <1>4, <1>5, <1>6, <1>7, KeepsOneMore
<1> QED
    BY <1>3, <1>8

\* A line of text stays one line, and no character of UTF-8 text is torn,
\* whatever the bytes: humanSafe works on bytes and leaves alone those above
\* 127.
THEOREM HumanTextStaysWhole == EscapeSpec => []LinesStayWhole
<1>1. EscapeInit => EscapeProgress
    BY EscapeStarts
<1>2. EscapeProgress /\ [EscapeNext]_escape_vars => EscapeProgress'
    BY EscapeSteps
<1>3. EscapeProgress => LinesStayWhole
  <2> SUFFICES ASSUME EscapeProgress PROVE LinesStayWhole
      OBVIOUS
  <2>1. value \in Seq(Byte)
      BY DEF EscapeProgress
  <2>2. HumanSafe(value) \in Seq(Unbroken)
      BY <2>1, HumanFacts
  <2>3. \A i \in DOMAIN HumanSafe(value) : HumanSafe(value)[i] \notin (0..31) \cup {127}
      BY <2>2, UnbrokenIsByte
  <2>4. KeepsCharacters(value)
      BY <2>1, HumanKeepsCharacters
  <2> QED
      BY <2>3, <2>4 DEF LinesStayWhole, KeepsCharacters
<1> QED
    BY <1>1, <1>2, <1>3, PTL DEF EscapeSpec
=============================================================================
