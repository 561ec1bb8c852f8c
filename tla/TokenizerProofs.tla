-------------------------- MODULE TokenizerProofs --------------------------
(***************************************************************************)
(* Theorems about Tokenizer: its rows are framed, are those of each text   *)
(* alone, and hold the ids the reference definitions give.                 *)
(*                                                                         *)
(* The scans of the tokenizer are recursive functions.  Scan says that     *)
(* such a function is there when every value of it depends on values at    *)
(* smaller places only, and FromTheEnd is induction over the places of a   *)
(* sequence from its end, with a set in the place of a predicate.          *)
(***************************************************************************)
EXTENDS Tokenizer, SequenceTheorems, FiniteSetTheorems, TLAPS

\* A set of numbers from 0 on that is not empty has a least one.
LEMMA LeastOf ==
  ASSUME NEW T \in SUBSET Nat, T # {}
  PROVE  \E m \in T : \A k \in T : m <= k
<1> DEFINE Below == {0..x : x \in T}
           R == StrictSubsetOrdering(Nat)
<1>1. Below \subseteq FiniteSubsetsOf(Nat)
  <2> SUFFICES ASSUME NEW x \in T PROVE 0..x \in FiniteSubsetsOf(Nat)
    OBVIOUS
  <2>1. x \in Int /\ 0 \in Int /\ 0..x \subseteq Nat
    OBVIOUS
  <2>2. IsFiniteSet(0..x)
    BY <2>1, FS_Interval
  <2> QED BY <2>1, <2>2 DEF FiniteSubsetsOf
<1>2. Below # {}
  OBVIOUS
<1>3. IsWellFoundedOn(R, FiniteSubsetsOf(Nat))
  BY FS_StrictSubsetOrderingWellFounded
<1> HIDE DEF Below, R
<1>4. PICK X \in Below : \A Y \in Below : ~(<<Y, X>> \in R)
  BY <1>1, <1>2, <1>3, WFMin
<1>5. PICK m \in T : X = 0..m
  BY DEF Below
<1>6. ASSUME NEW k \in T, k < m PROVE FALSE
  <2>1. 0..k \in Below
    BY DEF Below
  <2>2. 0..k \subseteq 0..m /\ 0..k # 0..m /\ 0..m \subseteq Nat
    <3>1. k \in Nat /\ m \in Nat
      OBVIOUS
    <3>2. m \in 0..m /\ m \notin 0..k
      BY <1>6, <3>1
    <3> QED BY <1>6, <3>1, <3>2
  <2>3. <<0..k, 0..m>> \in R
    BY <2>2 DEF R, StrictSubsetOrdering
  <2> QED BY <1>4, <1>5, <2>1, <2>3
<1>7. \A k \in T : m <= k
  BY <1>6
<1> QED BY <1>7

\* Induction up to n, and down to 1.
LEMMA FromTheStart ==
  ASSUME NEW n \in Nat, NEW S,
         \A i \in 0..n : (\A j \in 0..i - 1 : j \in S) => i \in S
  PROVE  \A i \in 0..n : i \in S
<1> DEFINE T == {i \in 0..n : i \notin S}
<1> SUFFICES ASSUME T # {} PROVE FALSE
  OBVIOUS
<1>1. T \in SUBSET Nat
  OBVIOUS
<1>2. PICK m \in T : \A k \in T : m <= k
  <2> HIDE DEF T
  <2> QED BY <1>1, LeastOf
<1>3. \A j \in 0..m - 1 : j \in S
  BY <1>2
<1> QED BY <1>3

\* The same down from the end.
LEMMA FromTheEnd ==
  ASSUME NEW n \in Nat, NEW S,
         \A i \in 1..n : (\A j \in i + 1..n : j \in S) => i \in S
  PROVE  \A i \in 1..n : i \in S
<1> DEFINE T == {k \in 0..n : n - k \in 1..n /\ n - k \notin S}
<1> SUFFICES ASSUME NEW i \in 1..n, i \notin S PROVE FALSE
  OBVIOUS
<1>1. T \in SUBSET Nat /\ n - i \in T
  OBVIOUS
<1>2. PICK m \in T : \A k \in T : m <= k
  <2> HIDE DEF T
  <2> QED BY <1>1, LeastOf
<1>3. ASSUME NEW j \in (n - m) + 1..n PROVE j \in S
  <2>1. n - j \in 0..n /\ n - (n - j) = j /\ n - j < m
    BY <1>2
  <2>2. n - j \notin T
    BY <1>2, <2>1
  <2> QED BY <2>1, <2>2
<1>4. n - m \in 1..n /\ n - m \notin S
  BY <1>2
<1> QED BY <1>3, <1>4

\* The largest of a set of numbers that has a bound, and the least.
LEMMA MaxIs ==
  ASSUME NEW n \in Nat, NEW S \in SUBSET (0..n), S # {}
  PROVE  Max(S) \in S /\ \A x \in S : x <= Max(S)
<1> DEFINE T == {n - x : x \in S}
<1>1. T \in SUBSET Nat /\ T # {}
  <2>1. \A x \in S : n - x \in Nat
    OBVIOUS
  <2> QED BY <2>1
<1>2. PICK m \in T : \A k \in T : m <= k
  <2> HIDE DEF T
  <2> QED BY <1>1, LeastOf
<1>3. PICK x \in S : m = n - x
  OBVIOUS
<1>4. \A y \in S : x >= y
  <2> TAKE y \in S
  <2>1. n - y \in T
    OBVIOUS
  <2>2. x \in Int /\ y \in Int
    OBVIOUS
  <2> HIDE DEF T
  <2>3. m <= n - y
    BY <1>2, <2>1
  <2> QED BY <1>3, <2>2, <2>3
<1>5. Max(S) \in S /\ \A y \in S : Max(S) >= y
  BY <1>4 DEF Max
<1> QED BY <1>5

\* The least of a set of numbers is in it.
LEMMA MinIs ==
  ASSUME NEW S \in SUBSET Nat, S # {}
  PROVE  Min(S) \in S /\ \A x \in S : Min(S) <= x
<1>1. \E m \in S : \A k \in S : m <= k
  BY LeastOf
<1> QED BY <1>1 DEF Min

-----------------------------------------------------------------------------
\* Every place of D has a rank, at most K.
Ranked(rank, D, K) == K \in Nat /\ rank \in [D -> 0..K]

\* What step yields at a place depends on the values at places of smaller rank.
LooksAhead(step, D, V, rank) ==
  \A d \in D : \A f, g \in [D -> V] :
    (\A e \in D : rank[e] < rank[d] => f[e] = g[e]) => step[d][f] = step[d][g]

\* f has the values step yields.
Yields(f, step, D) == \A d \in D : f[d] = step[d][f]

\* A scan whose steps look at smaller places only is there: it is built up place by place.
LEMMA Scan ==
  ASSUME NEW D, NEW V, V # {}, NEW K, NEW rank, Ranked(rank, D, K),
         NEW step \in [D -> [[D -> V] -> V]], LooksAhead(step, D, V, rank)
  PROVE  \E f \in [D -> V] : Yields(f, step, D)
<1> USE DEF Ranked
<1> DEFINE Good(k, f) == \A d \in D : rank[d] < k => f[d] = step[d][f]
           S == {k \in 0..K + 1 : \E f \in [D -> V] : Good(k, f)}
<1>1. ASSUME NEW k \in 0..K + 1, \A j \in 0..k - 1 : j \in S
      PROVE  k \in S
  <2>1. CASE k = 0
    <3>1. PICK v \in V : TRUE
      OBVIOUS
    <3>2. [d \in D |-> v] \in [D -> V] /\ Good(0, [d \in D |-> v])
      OBVIOUS
    <3> QED BY <2>1, <3>2
  <2>2. CASE k # 0
    <3>1. k - 1 \in S
      BY <1>1, <2>2
    <3>2. PICK f \in [D -> V] : Good(k - 1, f)
      BY <3>1
    <3> DEFINE g == [d \in D |-> IF rank[d] < k - 1 THEN f[d] ELSE step[d][f]]
    <3>3. g \in [D -> V]
      OBVIOUS
    <3>4. \A d \in D : g[d] = step[d][f]
      BY <3>2
    <3>5. ASSUME NEW d \in D, rank[d] < k PROVE g[d] = step[d][g]
      <4>1. \A e \in D : rank[e] < rank[d] => f[e] = g[e]
        BY <3>5
      <4> HIDE DEF g
      <4>2. step[d][f] = step[d][g]
        BY <3>3, <4>1 DEF LooksAhead
      <4> QED BY <3>4, <4>2
    <3> HIDE DEF g
    <3> QED BY <3>3, <3>5
  <2> QED BY <2>1, <2>2
<1>2. K + 1 \in S
  <2> HIDE DEF S
  <2>1. K + 1 \in Nat
    OBVIOUS
  <2>2. \A k \in 0..K + 1 : k \in S
    BY <1>1, <2>1, FromTheStart
  <2> QED BY <2>2
<1>3. PICK f \in [D -> V] : Good(K + 1, f)
  BY <1>2
<1> QED BY <1>3 DEF Yields
-----------------------------------------------------------------------------
(***************************************************************************)
(* Words.                                                                  *)
(***************************************************************************)
Texts == Seq(Byte)
Words == Texts \ {<<>>}

\* The character at a place of a text ends there or behind it, in the text.
LEMMA CharEndIn ==
  ASSUME NEW s \in Texts, NEW i \in 1..Len(s)
  PROVE  CharEnd(s, i) \in i..Len(s)
<1>1. CharBytes(s[i]) \in 1..4
  BY BytesAssumption DEF CharBytes
<1>2. Len(s) \in Nat
  BY DEF Texts
<1> QED BY <1>1, <1>2 DEF CharEnd

\* A part of a text that is not empty is a word.
LEMMA PartIsWord ==
  ASSUME NEW s \in Texts, NEW i \in 1..Len(s), NEW j \in i..Len(s)
  PROVE  /\ SubSeq(s, i, j) \in Words
         /\ Len(SubSeq(s, i, j)) = j - i + 1
         /\ \A k \in 1..j - i + 1 : SubSeq(s, i, j)[k] = s[i + k - 1]
<1>1. i \in 1..Len(s) + 1 /\ j \in i - 1..Len(s) /\ Len(s) \in Nat
  BY DEF Texts
<1>2. /\ SubSeq(s, i, j) \in Seq(Byte)
      /\ Len(SubSeq(s, i, j)) = j - i + 1
      /\ \A k \in 1..j - i + 1 : SubSeq(s, i, j)[k] = s[i + k - 1]
  <2>1. IF i <= j THEN Len(SubSeq(s, i, j)) = j - i + 1 ELSE Len(SubSeq(s, i, j)) = 0
    BY <1>1, SubSeqProperties DEF Texts
  <2> QED BY <1>1, <2>1, SubSeqProperties DEF Texts
<1>3. j - i + 1 # 0
  BY <1>1
<1> QED BY <1>2, <1>3, EmptySeq DEF Words, Texts

\* The words from i on, of which the first began at start.
WordsAt(w, text, i, start) ==
  LET current == IF start < i THEN <<SubSeq(text, start, i - 1)>> ELSE <<>>
      e == CharEnd(text, i)
  IN  IF i > Len(text) THEN current
      ELSE IF text[i] \in Space THEN current \o w[<<i + 1, i + 1>>]
      ELSE IF text[i] \in Letter THEN w[<<i + 1, start>>]
      ELSE current \o <<SubSeq(text, i, e)>> \o w[<<e + 1, e + 1>>]

Places(text) == 1..Len(text) + 1
PairsOfPlaces(text) == Places(text) \X Places(text)

\* Two functions that agree wherever they agree at all smaller places agree.
Spreads(f, g, D, rank) ==
  \A d \in D : (\A e \in D : rank[e] < rank[d] => f[e] = g[e]) => f[d] = g[d]

\* So two scans with the same steps are the same.
LEMMA SameScan ==
  ASSUME NEW D, NEW K, NEW rank, Ranked(rank, D, K), NEW f, NEW g,
         Spreads(f, g, D, rank)
  PROVE  \A d \in D : f[d] = g[d]
<1> USE DEF Ranked
<1> DEFINE S == {k \in 0..K : \A d \in D : rank[d] = k => f[d] = g[d]}
<1>1. ASSUME NEW k \in 0..K, \A j \in 0..k - 1 : j \in S
      PROVE  k \in S
  <2> SUFFICES ASSUME NEW d \in D, rank[d] = k PROVE f[d] = g[d]
    OBVIOUS
  <2>1. ASSUME NEW e \in D, rank[e] < rank[d] PROVE f[e] = g[e]
    <3>1. rank[e] \in 0..k - 1
      BY <2>1
    <3> QED BY <1>1, <3>1
  <2> QED BY <2>1 DEF Spreads
<1>2. \A k \in 0..K : k \in S
  <2> HIDE DEF S
  <2> QED BY <1>1, FromTheStart
<1> QED BY <1>2

\* What the scan of words does at a place depends on later places only.
SameAfter(v, w, text, i) == \A j, s \in Places(text) : j > i => v[<<j, s>>] = w[<<j, s>>]

LEMMA WordsAhead ==
  ASSUME NEW text \in Texts, NEW i \in Places(text), NEW start \in Places(text), NEW v, NEW w,
         SameAfter(v, w, text, i)
  PROVE  WordsAt(v, text, i, start) = WordsAt(w, text, i, start)
<1>1. Len(text) \in Nat
  BY DEF Texts
<1>2. CASE i > Len(text)
  BY <1>2 DEF WordsAt
<1>3. CASE i <= Len(text)
  <2> DEFINE e == CharEnd(text, i)
  <2>1. e \in i..Len(text) /\ i \in 1..Len(text)
    BY <1>1, <1>3, CharEndIn DEF Places
  <2> HIDE DEF e
  <2>2. i + 1 \in Places(text) /\ e + 1 \in Places(text) /\ i + 1 > i /\ e + 1 > i
    BY <1>1, <2>1 DEF Places
  <2>3. v[<<i + 1, i + 1>>] = w[<<i + 1, i + 1>>] /\ v[<<i + 1, start>>] = w[<<i + 1, start>>]
        /\ v[<<e + 1, e + 1>>] = w[<<e + 1, e + 1>>]
    BY <2>2 DEF SameAfter
  <2> QED BY <2>3 DEF WordsAt, e
<1> QED BY <1>1, <1>2, <1>3 DEF Places

\* What it yields there are words.
LEMMA WordsAtAreWords ==
  ASSUME NEW text \in Texts, NEW i \in Places(text), NEW start \in Places(text), NEW w,
         \A j, s \in Places(text) : j > i => w[<<j, s>>] \in Seq(Words)
  PROVE  WordsAt(w, text, i, start) \in Seq(Words)
<1> DEFINE current == IF start < i THEN <<SubSeq(text, start, i - 1)>> ELSE <<>>
<1>1. Len(text) \in Nat
  BY DEF Texts
<1>2. current \in Seq(Words)
  <2>1. CASE start < i
    <3>1. start \in 1..Len(text) /\ i - 1 \in start..Len(text)
      BY <1>1, <2>1 DEF Places
    <3>2. SubSeq(text, start, i - 1) \in Words
      BY <3>1, PartIsWord
    <3> QED BY <2>1, <3>2
  <2>2. CASE ~(start < i)
    BY <2>2
  <2> QED BY <2>1, <2>2
<1> HIDE DEF current
<1>3. CASE i > Len(text)
  BY <1>2, <1>3 DEF WordsAt, current
<1>4. CASE i <= Len(text)
  <2> DEFINE e == CharEnd(text, i)
  <2>1. e \in i..Len(text) /\ i \in 1..Len(text)
    BY <1>1, <1>4, CharEndIn DEF Places
  <2>2. SubSeq(text, i, e) \in Words
    BY <2>1, PartIsWord
  <2> HIDE DEF e
  <2>3. i + 1 \in Places(text) /\ e + 1 \in Places(text) /\ i + 1 > i /\ e + 1 > i
    BY <1>1, <2>1 DEF Places
  <2>4. w[<<i + 1, i + 1>>] \in Seq(Words) /\ w[<<i + 1, start>>] \in Seq(Words)
        /\ w[<<e + 1, e + 1>>] \in Seq(Words)
    BY <2>3
  <2>5. /\ current \o w[<<i + 1, i + 1>>] \in Seq(Words)
        /\ current \o <<SubSeq(text, i, e)>> \o w[<<e + 1, e + 1>>] \in Seq(Words)
    BY <1>2, <2>2, <2>4
  <2> QED BY <2>4, <2>5 DEF WordsAt, current, e
<1> QED BY <1>1, <1>3, <1>4 DEF Places

\* The scan of basic_tokenize: what it yields at every place, and all of it words.
WordsFrom(w, text) ==
  \A i, start \in Places(text) :
    w[<<i, start>>] = WordsAt(w, text, i, start) /\ w[<<i, start>>] \in Seq(Words)

\* The scan of basic_tokenize is there, and yields what WordsAt says.
LEMMA WordsScan ==
  ASSUME NEW text \in Texts
  PROVE  \E w : basic_tokenize(text) = w[<<1, 1>>] /\ WordsFrom(w, text)
<1> DEFINE D == PairsOfPlaces(text)
           V == Seq(Words)
           n == Len(text)
           rank == [d \in D |-> n + 1 - d[1]]
           step == [d \in D |-> [w \in [D -> V] |-> WordsAt(w, text, d[1], d[2])]]
           Unfolds(w) == w = [d \in D |-> WordsAt(w, text, d[1], d[2])]
           words == CHOOSE w : Unfolds(w)
<1>1. n \in Nat /\ n + 1 \in Nat
  BY DEF Texts
<1>2. Ranked(rank, D, n + 1) /\ V # {}
  <2>1. \A d \in D : n + 1 - d[1] \in 0..n + 1
    <3>1. \A i \in 1..n + 1 : n + 1 - i \in 0..n + 1
      BY <1>1
    <3>2. \A d \in D : d[1] \in 1..n + 1
      BY DEF PairsOfPlaces, Places
    <3> QED BY <3>1, <3>2
  <2>2. <<>> \in Seq(Words)
    OBVIOUS
  <2> HIDE DEF D
  <2> QED BY <1>1, <2>1, <2>2 DEF Ranked
<1>3. \A d \in D : d[1] \in Places(text) /\ d[2] \in Places(text) /\ d = <<d[1], d[2]>>
  BY DEF PairsOfPlaces
<1>4. \A i, s \in Places(text) : <<i, s>> \in D /\ <<i, s>>[1] = i /\ <<i, s>>[2] = s
  BY DEF PairsOfPlaces
<1>5. step \in [D -> [[D -> V] -> V]]
  <2> SUFFICES ASSUME NEW d \in D, NEW w \in [D -> V] PROVE WordsAt(w, text, d[1], d[2]) \in V
    OBVIOUS
  <2> HIDE DEF D, V
  <2>1. \A j, s \in Places(text) : w[<<j, s>>] \in V
    BY <1>4
  <2> QED BY <1>3, <2>1, WordsAtAreWords DEF V
<1>6. LooksAhead(step, D, V, rank)
  <2> SUFFICES ASSUME NEW d \in D, NEW f \in [D -> V], NEW g \in [D -> V],
                      \A e \in D : rank[e] < rank[d] => f[e] = g[e]
               PROVE  step[d][f] = step[d][g]
    BY DEF LooksAhead
  <2>1. ASSUME NEW j \in Places(text), NEW s \in Places(text), j > d[1]
        PROVE  f[<<j, s>>] = g[<<j, s>>]
    <3>1. rank[<<j, s>>] = n + 1 - j /\ rank[d] = n + 1 - d[1] /\ j \in Int /\ d[1] \in Int
      BY <1>1, <1>3, <1>4 DEF Places
    <3> HIDE DEF rank, D
    <3>2. rank[<<j, s>>] < rank[d]
      BY <1>1, <2>1, <3>1
    <3> QED BY <1>4, <3>2
  <2> HIDE DEF D, V
  <2>2. SameAfter(f, g, text, d[1])
    BY <2>1 DEF SameAfter
  <2>3. WordsAt(f, text, d[1], d[2]) = WordsAt(g, text, d[1], d[2])
    BY <1>3, <2>2, WordsAhead
  <2> QED BY <2>3
<1> HIDE DEF step, rank, V
<1>7. PICK f \in [D -> V] : Yields(f, step, D)
  <2> HIDE DEF D, n
  <2> QED BY <1>1, <1>2, <1>5, <1>6, Scan
<1>8. \A d \in D : f[d] = WordsAt(f, text, d[1], d[2])
  BY <1>7 DEF Yields, step
<1>9. Unfolds(words)
  <2>1. f = [d \in D |-> f[d]]
    BY <1>7
  <2>2. Unfolds(f)
    BY <1>8, <2>1
  <2> QED BY <2>2
<1>10. basic_tokenize(text) = words[<<1, 1>>]
  BY DEF basic_tokenize, WordsAt, PairsOfPlaces, Places
<1> HIDE DEF words, D
<1>11. \A d \in D : words[d] = WordsAt(words, text, d[1], d[2])
  BY <1>9
<1>12. \A d \in D : words[d] = f[d]
  <2>1. ASSUME NEW d \in D, \A e \in D : rank[e] < rank[d] => words[e] = f[e]
        PROVE  words[d] = f[d]
    <3>1. ASSUME NEW j \in Places(text), NEW s \in Places(text), j > d[1]
          PROVE  words[<<j, s>>] = f[<<j, s>>]
      <4>1. rank[<<j, s>>] = n + 1 - j /\ rank[d] = n + 1 - d[1] /\ j \in Int /\ d[1] \in Int
        BY <1>1, <1>3, <1>4 DEF Places, rank
      <4>2. rank[<<j, s>>] < rank[d]
        BY <1>1, <3>1, <4>1
      <4> QED BY <1>4, <2>1, <4>2
    <3>2. SameAfter(words, f, text, d[1])
      BY <3>1 DEF SameAfter
    <3>3. WordsAt(words, text, d[1], d[2]) = WordsAt(f, text, d[1], d[2])
      BY <1>3, <3>2, WordsAhead
    <3> QED BY <1>8, <1>11, <3>3
  <2>2. Spreads(words, f, D, rank)
    BY <2>1 DEF Spreads
  <2> HIDE DEF n
  <2> QED BY <1>2, <2>2, SameScan
<1>13. ASSUME NEW i \in Places(text), NEW s \in Places(text)
       PROVE  words[<<i, s>>] = WordsAt(words, text, i, s) /\ words[<<i, s>>] \in Seq(Words)
  BY <1>4, <1>7, <1>11, <1>12 DEF V
<1> QED BY <1>10, <1>13 DEF WordsFrom

\* A scan of places 1..n that depends on later places only is there.
LEMMA ForwardScan ==
  ASSUME NEW n \in Nat, NEW V, V # {}, NEW step \in [1..n -> [[1..n -> V] -> V]],
         \A i \in 1..n : \A f, g \in [1..n -> V] :
           (\A j \in i + 1..n : f[j] = g[j]) => step[i][f] = step[i][g]
  PROVE  \E f \in [1..n -> V] : Yields(f, step, 1..n)
<1> DEFINE D == 1..n
           rank == [i \in D |-> n - i]
<1>1. Ranked(rank, D, n)
  BY DEF Ranked
<1>2. LooksAhead(step, D, V, rank)
  <2> SUFFICES ASSUME NEW i \in D, NEW f \in [D -> V], NEW g \in [D -> V],
                      \A e \in D : rank[e] < rank[i] => f[e] = g[e]
               PROVE  step[i][f] = step[i][g]
    BY DEF LooksAhead
  <2>1. ASSUME NEW j \in i + 1..n PROVE f[j] = g[j]
    <3>1. j \in D /\ rank[j] < rank[i]
      OBVIOUS
    <3> HIDE DEF D, rank
    <3> QED BY <3>1
  <2> QED BY <2>1
<1> HIDE DEF rank
<1>3. \E f \in [D -> V] : Yields(f, step, D)
  <2> HIDE DEF D
  <2>1. step \in [D -> [[D -> V] -> V]]
    BY DEF D
  <2> QED BY <1>1, <1>2, <2>1, Scan
<1> QED BY <1>3

-----------------------------------------------------------------------------
(***************************************************************************)
(* Word pieces.                                                            *)
(***************************************************************************)
IdsOf(t) == {t.cls, t.sep, t.unk, t.pad} \cup {t.vocab[x] : x \in DOMAIN t.vocab}

\* The ends of pieces are places of the word; the one taken is the last.
LEMMA PieceEndIn ==
  ASSUME NEW t, NEW word \in Texts, NEW start \in 1..Len(word) + 1,
         PieceEnds(t, word, start) # {}
  PROVE  LET e == PieceEnd(PieceEnds(t, word, start))
         IN  /\ start \in 1..Len(word) /\ e \in start..Len(word)
             /\ Piece(t, word, start, e) \in DOMAIN t.vocab
             /\ \A longer \in e + 1..Len(word) : Piece(t, word, start, longer) \notin DOMAIN t.vocab
<1> DEFINE ends == PieceEnds(t, word, start)
           e == PieceEnd(ends)
<1>1. Len(word) \in Nat
  BY DEF Texts
<1>2. ends \in SUBSET (0..Len(word)) /\ ends \subseteq start..Len(word)
  BY <1>1 DEF PieceEnds
<1>3. e \in ends /\ \A x \in ends : x <= e
  <2> HIDE DEF ends
  <2> QED BY <1>1, <1>2, MaxIs DEF PieceEnd, ends
<1> HIDE DEF e
<1>4. e \in start..Len(word) /\ Piece(t, word, start, e) \in DOMAIN t.vocab
  BY <1>3 DEF PieceEnds
<1>5. ASSUME NEW longer \in e + 1..Len(word), Piece(t, word, start, longer) \in DOMAIN t.vocab
      PROVE  FALSE
  <2>1. longer \in ends
    BY <1>1, <1>4, <1>5 DEF PieceEnds
  <2>2. longer > e
    BY <1>1, <1>4
  <2> HIDE DEF ends
  <2>3. longer <= e
    BY <1>3, <2>1
  <2> QED BY <1>1, <1>4, <2>2, <2>3
<1>6. start \in 1..Len(word)
  BY <1>1, <1>4
<1> QED BY <1>4, <1>5, <1>6 DEF e

\* The ids of the pieces from start on.
PiecesAt(p, t, word, start) ==
  LET ends == PieceEnds(t, word, start)
      end == PieceEnd(ends)
  IN  IF start > Len(word) THEN <<>>
      ELSE IF ends = {} THEN IF start = 1 THEN <<t.unk>> ELSE <<>>
      ELSE <<t.vocab[Piece(t, word, start, end)]>> \o p[end + 1]

\* What the scan of pieces does at a place depends on later places only.
LEMMA PiecesAhead ==
  ASSUME NEW t, NEW word \in Texts, NEW start \in 1..Len(word) + 1, NEW p, NEW q,
         \A i \in start + 1..Len(word) + 1 : p[i] = q[i]
  PROVE  PiecesAt(p, t, word, start) = PiecesAt(q, t, word, start)
<1> DEFINE ends == PieceEnds(t, word, start)
           end == PieceEnd(ends)
<1>1. Len(word) \in Nat
  BY DEF Texts
<1>2. CASE ends = {}
  BY <1>2 DEF PiecesAt
<1>3. CASE ends # {}
  <2>1. start \in 1..Len(word) /\ end \in start..Len(word)
    BY <1>3, PieceEndIn
  <2> HIDE DEF ends, end
  <2>2. end + 1 \in start + 1..Len(word) + 1
    BY <1>1, <2>1
  <2>3. p[end + 1] = q[end + 1]
    BY <2>2
  <2> QED BY <2>3 DEF PiecesAt, ends, end
<1> QED BY <1>2, <1>3

\* What it yields there are ids of the vocabulary, or unk_token_id_.
LEMMA PiecesAtAreIds ==
  ASSUME NEW t, NEW word \in Texts, NEW start \in 1..Len(word) + 1, NEW p,
         \A i \in start + 1..Len(word) + 1 : p[i] \in Seq(IdsOf(t))
  PROVE  PiecesAt(p, t, word, start) \in Seq(IdsOf(t))
<1> DEFINE ends == PieceEnds(t, word, start)
           end == PieceEnd(ends)
           id == t.vocab[Piece(t, word, start, end)]
<1>1. Len(word) \in Nat
  BY DEF Texts
<1>2. t.unk \in IdsOf(t)
  BY DEF IdsOf
<1>3. CASE ends = {}
  BY <1>2, <1>3 DEF PiecesAt
<1>4. CASE ends # {}
  <2>1. start \in 1..Len(word) /\ end \in start..Len(word)
        /\ Piece(t, word, start, end) \in DOMAIN t.vocab
    BY <1>4, PieceEndIn
  <2>2. id \in IdsOf(t)
    BY <2>1 DEF IdsOf
  <2> HIDE DEF ends, end, id
  <2>3. end + 1 \in start + 1..Len(word) + 1
    BY <1>1, <2>1
  <2>4. p[end + 1] \in Seq(IdsOf(t))
    BY <2>3
  <2>5. <<id>> \o p[end + 1] \in Seq(IdsOf(t))
    BY <2>2, <2>4
  <2>6. ~(start > Len(word))
    BY <1>1, <2>1
  <2> QED BY <1>4, <2>5, <2>6 DEF PiecesAt, ends, end, id
<1> QED BY <1>3, <1>4

\* The scan of wordpiece_tokenize.
PiecesFrom(p, t, word) ==
  \A start \in 1..Len(word) + 1 :
    p[start] = PiecesAt(p, t, word, start) /\ p[start] \in Seq(IdsOf(t))

\* The scan of wordpiece_tokenize is there.
LEMMA PiecesScan ==
  ASSUME NEW t, NEW word \in Texts
  PROVE  \E p : wordpiece_tokenize(t, word) = p[1] /\ PiecesFrom(p, t, word)
<1> DEFINE n == Len(word) + 1
           V == Seq(IdsOf(t))
           step == [i \in 1..n |-> [p \in [1..n -> V] |-> PiecesAt(p, t, word, i)]]
           Unfolds(p) == p = [i \in 1..n |-> PiecesAt(p, t, word, i)]
           pieces == CHOOSE p : Unfolds(p)
<1>1. n \in Nat /\ V # {}
  <2>1. <<>> \in V
    OBVIOUS
  <2>2. Len(word) \in Nat
    BY DEF Texts
  <2> HIDE DEF V
  <2> QED BY <2>1, <2>2
<1>2. step \in [1..n -> [[1..n -> V] -> V]]
  <2> SUFFICES ASSUME NEW i \in 1..n, NEW p \in [1..n -> V] PROVE PiecesAt(p, t, word, i) \in V
    OBVIOUS
  <2>1. \A j \in i + 1..n : p[j] \in V
    BY <1>1
  <2> QED BY <2>1, PiecesAtAreIds
<1>3. ASSUME NEW i \in 1..n, NEW f \in [1..n -> V], NEW g \in [1..n -> V],
             \A j \in i + 1..n : f[j] = g[j]
      PROVE  step[i][f] = step[i][g]
  <2>1. PiecesAt(f, t, word, i) = PiecesAt(g, t, word, i)
    BY <1>3, PiecesAhead
  <2> QED BY <2>1
<1>4. PICK f \in [1..n -> V] : Yields(f, step, 1..n)
  <2> HIDE DEF step, n, V
  <2> QED BY <1>1, <1>2, <1>3, ForwardScan
<1>5. \A i \in 1..n : f[i] = PiecesAt(f, t, word, i)
  BY <1>4 DEF Yields
<1>6. Unfolds(pieces)
  <2>1. f = [i \in 1..n |-> f[i]]
    BY <1>4
  <2>2. Unfolds(f)
    BY <1>5, <2>1
  <2> QED BY <2>2
<1>7. wordpiece_tokenize(t, word) = pieces[1]
  BY DEF wordpiece_tokenize, PiecesAt
<1> HIDE DEF pieces, step
<1>8. \A i \in 1..n : pieces[i] = PiecesAt(pieces, t, word, i)
  BY <1>6
<1>9. \A i \in 1..n : pieces[i] \in V
  <2> DEFINE S == {i \in 1..n : pieces[i] \in V}
  <2>1. ASSUME NEW i \in 1..n, \A j \in i + 1..n : j \in S PROVE i \in S
    <3>1. \A j \in i + 1..n : pieces[j] \in V
      BY <2>1
    <3>2. PiecesAt(pieces, t, word, i) \in V
      BY <3>1, PiecesAtAreIds
    <3> QED BY <1>8, <3>2
  <2>2. \A i \in 1..n : i \in S
    <3> HIDE DEF S, n
    <3> QED BY <1>1, <2>1, FromTheEnd
  <2> QED BY <2>2
<1> QED BY <1>7, <1>8, <1>9 DEF PiecesFrom

-----------------------------------------------------------------------------
(***************************************************************************)
(* Characters and merges.                                                  *)
(***************************************************************************)
\* The characters from i on.
SymbolsAt(f, word, i) ==
  IF i > Len(word) THEN <<>>
  ELSE <<SubSeq(word, i, CharEnd(word, i))>> \o f[CharEnd(word, i) + 1]

\* What the scan of characters does at a place depends on later places only.
LEMMA SymbolsAhead ==
  ASSUME NEW word \in Texts, NEW i \in 1..Len(word) + 1, NEW f, NEW g,
         \A j \in i + 1..Len(word) + 1 : f[j] = g[j]
  PROVE  SymbolsAt(f, word, i) = SymbolsAt(g, word, i)
<1>1. Len(word) \in Nat
  BY DEF Texts
<1>2. CASE i <= Len(word)
  <2> DEFINE e == CharEnd(word, i)
  <2>1. i \in 1..Len(word) /\ e \in i..Len(word)
    BY <1>1, <1>2, CharEndIn
  <2> HIDE DEF e
  <2>2. e + 1 \in i + 1..Len(word) + 1
    BY <1>1, <2>1
  <2>3. f[e + 1] = g[e + 1]
    BY <2>2
  <2> QED BY <2>3 DEF SymbolsAt, e
<1> QED BY <1>1, <1>2 DEF SymbolsAt

\* What it yields there are words.
LEMMA SymbolsAtAreWords ==
  ASSUME NEW word \in Texts, NEW i \in 1..Len(word) + 1, NEW f,
         \A j \in i + 1..Len(word) + 1 : f[j] \in Seq(Words)
  PROVE  SymbolsAt(f, word, i) \in Seq(Words)
<1>1. Len(word) \in Nat
  BY DEF Texts
<1>2. CASE i <= Len(word)
  <2> DEFINE e == CharEnd(word, i)
  <2>1. i \in 1..Len(word) /\ e \in i..Len(word)
    BY <1>1, <1>2, CharEndIn
  <2>2. SubSeq(word, i, e) \in Words
    BY <2>1, PartIsWord
  <2> HIDE DEF e
  <2>3. e + 1 \in i + 1..Len(word) + 1
    BY <1>1, <2>1
  <2>4. f[e + 1] \in Seq(Words)
    BY <2>3
  <2>5. <<SubSeq(word, i, e)>> \o f[e + 1] \in Seq(Words)
    BY <2>2, <2>4
  <2> QED BY <2>5 DEF SymbolsAt, e
<1> QED BY <1>1, <1>2 DEF SymbolsAt

\* The scan of characters.
SymbolsFrom(f, word) ==
  \A i \in 1..Len(word) + 1 : f[i] = SymbolsAt(f, word, i) /\ f[i] \in Seq(Words)

\* The scan of characters is there.
LEMMA SymbolsScan ==
  ASSUME NEW word \in Texts
  PROVE  \E f : Symbols(word) = f[1] /\ SymbolsFrom(f, word)
<1> DEFINE n == Len(word) + 1
           V == Seq(Words)
           step == [i \in 1..n |-> [f \in [1..n -> V] |-> SymbolsAt(f, word, i)]]
           Unfolds(f) == f = [i \in 1..n |-> SymbolsAt(f, word, i)]
           from == CHOOSE f : Unfolds(f)
<1>1. n \in Nat /\ V # {}
  <2>1. <<>> \in V
    OBVIOUS
  <2>2. Len(word) \in Nat
    BY DEF Texts
  <2> HIDE DEF V
  <2> QED BY <2>1, <2>2
<1>2. step \in [1..n -> [[1..n -> V] -> V]]
  <2> SUFFICES ASSUME NEW i \in 1..n, NEW f \in [1..n -> V] PROVE SymbolsAt(f, word, i) \in V
    OBVIOUS
  <2>1. \A j \in i + 1..n : f[j] \in V
    BY <1>1
  <2> QED BY <2>1, SymbolsAtAreWords
<1>3. ASSUME NEW i \in 1..n, NEW f \in [1..n -> V], NEW g \in [1..n -> V],
             \A j \in i + 1..n : f[j] = g[j]
      PROVE  step[i][f] = step[i][g]
  <2>1. SymbolsAt(f, word, i) = SymbolsAt(g, word, i)
    BY <1>3, SymbolsAhead
  <2> QED BY <2>1
<1>4. PICK f \in [1..n -> V] : Yields(f, step, 1..n)
  <2> HIDE DEF step, n, V
  <2> QED BY <1>1, <1>2, <1>3, ForwardScan
<1>5. \A i \in 1..n : f[i] = SymbolsAt(f, word, i)
  BY <1>4 DEF Yields
<1>6. Unfolds(from)
  <2>1. f = [i \in 1..n |-> f[i]]
    BY <1>4
  <2>2. Unfolds(f)
    BY <1>5, <2>1
  <2> QED BY <2>2
<1>7. Symbols(word) = from[1]
  BY DEF Symbols, SymbolsAt
<1> HIDE DEF from, step
<1>8. \A i \in 1..n : from[i] = SymbolsAt(from, word, i)
  BY <1>6
<1>9. \A i \in 1..n : from[i] \in V
  <2> DEFINE S == {i \in 1..n : from[i] \in V}
  <2>1. ASSUME NEW i \in 1..n, \A j \in i + 1..n : j \in S PROVE i \in S
    <3>1. \A j \in i + 1..n : from[j] \in V
      BY <2>1
    <3>2. SymbolsAt(from, word, i) \in V
      BY <3>1, SymbolsAtAreWords
    <3> QED BY <1>8, <3>2
  <2>2. \A i \in 1..n : i \in S
    <3> HIDE DEF S, n
    <3> QED BY <1>1, <2>1, FromTheEnd
  <2> QED BY <2>2
<1> QED BY <1>7, <1>8, <1>9 DEF SymbolsFrom

-----------------------------------------------------------------------------
(***************************************************************************)
(* Concatenations.                                                         *)
(***************************************************************************)
\* F has the concatenations of the first 1, 2, 3... of seqs.
Joins(F, seqs) ==
  /\ F[1] = seqs[1]
  /\ \A i \in 2..Len(seqs) : F[i] = F[i - 1] \o seqs[i]

\* FlattenSeq joins the members from the left.
LEMMA FlattenScan ==
  ASSUME NEW S, NEW seqs \in Seq(Seq(S)), Len(seqs) # 0
  PROVE  \E F \in [1..Len(seqs) -> Seq(S)] : FlattenSeq(seqs) = F[Len(seqs)] /\ Joins(F, seqs)
<1> DEFINE n == Len(seqs)
           D == 1..n
           V == Seq(S)
           At(f, i) == IF i = 1 THEN seqs[i] ELSE f[i - 1] \o seqs[i]
           rank == [i \in D |-> i]
           step == [i \in D |-> [f \in [D -> V] |-> At(f, i)]]
           Unfolds(f) == f = [i \in D |-> At(f, i)]
           flatten == CHOOSE f : Unfolds(f)
<1>1. n \in Nat /\ \A i \in D : seqs[i] \in V
  OBVIOUS
<1>2. V # {}
  <2>1. <<>> \in V
    OBVIOUS
  <2> QED BY <2>1
<1>3. Ranked(rank, D, n)
  BY <1>1 DEF Ranked
<1>4. \A i \in D : i = 1 \/ i - 1 \in D
  BY <1>1
<1> HIDE DEF n
<1>5. step \in [D -> [[D -> V] -> V]]
  <2> SUFFICES ASSUME NEW i \in D, NEW f \in [D -> V] PROVE At(f, i) \in V
    OBVIOUS
  <2>1. i # 1 => f[i - 1] \in V
    BY <1>4
  <2>2. seqs[i] \in V
    BY <1>1
  <2> HIDE DEF D
  <2> QED BY <2>1, <2>2
<1>6. LooksAhead(step, D, V, rank)
  <2> SUFFICES ASSUME NEW i \in D, NEW f \in [D -> V], NEW g \in [D -> V],
                      \A e \in D : rank[e] < rank[i] => f[e] = g[e]
               PROVE  At(f, i) = At(g, i)
    BY DEF LooksAhead
  <2>1. i # 1 => rank[i - 1] < rank[i]
    BY <1>1, <1>4
  <2> HIDE DEF D, rank
  <2>2. i # 1 => f[i - 1] = g[i - 1]
    BY <1>4, <2>1
  <2> QED BY <2>2
<1> HIDE DEF step, rank, V
<1>7. PICK f \in [D -> V] : Yields(f, step, D)
  <2> HIDE DEF D
  <2> QED BY <1>1, <1>2, <1>3, <1>5, <1>6, Scan
<1>8. \A i \in D : f[i] = At(f, i)
  BY <1>7 DEF Yields, step
<1>9. Unfolds(flatten)
  <2>1. f = [i \in D |-> f[i]]
    BY <1>7
  <2> HIDE DEF D, At
  <2>2. Unfolds(f)
    BY <1>8, <2>1
  <2> QED BY <2>2
<1>10. FlattenSeq(seqs) = flatten[n]
  BY DEF FlattenSeq, n
<1> HIDE DEF flatten, At, D
<1>11. \A i \in D : flatten[i] = At(flatten, i)
  BY <1>9
<1>12. ASSUME NEW i \in D, \A e \in D : rank[e] < rank[i] => flatten[e] = f[e]
       PROVE  flatten[i] = f[i]
  <2>1. i # 1 => i - 1 \in D /\ rank[i - 1] < rank[i]
    BY <1>1, <1>4 DEF rank, D
  <2>2. i # 1 => flatten[i - 1] = f[i - 1]
    BY <1>12, <2>1
  <2>3. At(flatten, i) = At(f, i)
    BY <2>2 DEF At
  <2> QED BY <1>8, <1>11, <2>3
<1>13. \A i \in D : flatten[i] = f[i]
  <2>1. Spreads(flatten, f, D, rank)
    BY <1>12 DEF Spreads
  <2> QED BY <1>3, <2>1, SameScan
<1>14. n \in D /\ 1 \in D
  BY <1>1 DEF D, n
<1>15. f[1] = seqs[1]
  BY <1>8, <1>14 DEF At
<1>16. ASSUME NEW i \in 2..n PROVE f[i] = f[i - 1] \o seqs[i]
  <2>1. i \in D /\ i # 1
    BY DEF D
  <2> QED BY <1>8, <2>1 DEF At
<1>17. FlattenSeq(seqs) = f[n]
  BY <1>10, <1>13, <1>14
<1> QED BY <1>7, <1>15, <1>16, <1>17 DEF Joins, n, D, V

\* Nothing put together is nothing.
LEMMA FlattenEmpty == FlattenSeq(<<>>) = <<>>
BY DEF FlattenSeq

\* A concatenation of sequences over S is one.
LEMMA FlattenIn ==
  ASSUME NEW S, NEW seqs \in Seq(Seq(S))
  PROVE  FlattenSeq(seqs) \in Seq(S)
<1>1. CASE Len(seqs) = 0
  <2>1. seqs = <<>>
    BY <1>1, EmptySeq
  <2>2. FlattenSeq(seqs) = <<>> /\ <<>> \in Seq(S)
    BY <2>1, FlattenEmpty
  <2> QED BY <2>2
<1>2. CASE Len(seqs) # 0
  <2>1. PICK F \in [1..Len(seqs) -> Seq(S)] : FlattenSeq(seqs) = F[Len(seqs)]
    BY <1>2, FlattenScan
  <2>2. Len(seqs) \in 1..Len(seqs)
    BY <1>2
  <2> QED BY <2>1, <2>2
<1> QED BY <1>1, <1>2

\* One sequence more is put at the end.
LEMMA FlattenAppend ==
  ASSUME NEW S, NEW seqs \in Seq(Seq(S)), NEW x \in Seq(S)
  PROVE  FlattenSeq(Append(seqs, x)) = FlattenSeq(seqs) \o x
<1> DEFINE n == Len(seqs)
           more == Append(seqs, x)
<1>1. n \in Nat /\ more \in Seq(Seq(S)) /\ Len(more) = n + 1 /\ more[n + 1] = x
      /\ \A i \in 1..n : more[i] = seqs[i]
  OBVIOUS
<1> HIDE DEF more
<1>2. Len(more) # 0
  BY <1>1
<1>3. PICK G \in [1..Len(more) -> Seq(S)] : FlattenSeq(more) = G[Len(more)] /\ Joins(G, more)
  BY <1>1, <1>2, FlattenScan
<1>4. CASE n = 0
  <2>1. seqs = <<>>
    BY <1>4, EmptySeq
  <2>2. FlattenSeq(more) = x
    BY <1>1, <1>3, <1>4 DEF Joins
  <2>3. <<>> \o x = x
    OBVIOUS
  <2> QED BY <2>1, <2>2, <2>3, FlattenEmpty DEF more
<1>5. CASE n # 0
  <2>1. PICK F \in [1..n -> Seq(S)] : FlattenSeq(seqs) = F[n] /\ Joins(F, seqs)
    BY <1>5, FlattenScan
  <2> DEFINE T == {i \in 0..n : i = 0 \/ F[i] = G[i]}
  <2>2. ASSUME NEW i \in 0..n, \A j \in 0..i - 1 : j \in T
        PROVE  i \in T
    <3>1. CASE i = 0
      BY <3>1
    <3>2. CASE i = 1
      <4>1. F[1] = seqs[1] /\ G[1] = more[1] /\ more[1] = seqs[1]
        BY <1>1, <1>3, <1>5, <2>1 DEF Joins
      <4> QED BY <3>2, <4>1
    <3>3. CASE i # 0 /\ i # 1
      <4>1. i \in 2..n /\ i \in 2..Len(more) /\ i - 1 \in 0..i - 1 /\ i - 1 # 0 /\ i \in 1..n
        BY <1>1, <3>3
      <4>2. F[i - 1] = G[i - 1]
        BY <2>2, <4>1
      <4>3. F[i] = F[i - 1] \o seqs[i] /\ G[i] = G[i - 1] \o more[i] /\ more[i] = seqs[i]
        BY <1>1, <1>3, <2>1, <4>1 DEF Joins
      <4> QED BY <4>2, <4>3
    <3> QED BY <3>1, <3>2, <3>3
  <2>3. \A i \in 0..n : i \in T
    <3> HIDE DEF T, n
    <3> QED BY <1>1, <2>2, FromTheStart
  <2>4. F[n] = G[n]
    <3>1. n \in 0..n /\ n # 0
      BY <1>1, <1>5
    <3> HIDE DEF n
    <3> QED BY <2>3, <3>1
  <2>5. n + 1 \in 2..Len(more) /\ n + 1 - 1 = n
    BY <1>1, <1>5
  <2>6. G[n + 1] = G[n] \o x
    <3> HIDE DEF n
    <3>1. \A i \in 2..Len(more) : G[i] = G[i - 1] \o more[i]
      BY <1>3 DEF Joins
    <3> DEFINE k == n + 1
    <3>2. k \in 2..Len(more) /\ k - 1 = n
      BY <1>1, <2>5
    <3> HIDE DEF k
    <3>3. G[k] = G[k - 1] \o more[k]
      BY <3>1, <3>2
    <3> QED BY <1>1, <3>2, <3>3 DEF k
  <2> QED BY <1>1, <1>3, <2>1, <2>4, <2>6 DEF more
<1> QED BY <1>4, <1>5

\* What is appended to the second of two sequences is appended to both.
LEMMA AppendBehind ==
  ASSUME NEW S, NEW a \in Seq(S), NEW p \in Seq(S), NEW x \in S
  PROVE  a \o Append(p, x) = Append(a \o p, x) /\ a \o p \in Seq(S)
<1> DEFINE c == a \o p
           y == <<x>>
<1>1. c \in Seq(S) /\ y \in Seq(S)
  OBVIOUS
<1>2. Append(p, x) = p \o y
  BY AppendIsConcat
<1> HIDE DEF c
<1>3. Append(c, x) = c \o y
  BY <1>1, AppendIsConcat
<1> HIDE DEF y
<1>4. c \o y = a \o (p \o y)
  BY <1>1, ConcatAssociative, SMTT(30) DEF c
<1> QED BY <1>1, <1>2, <1>3, <1>4 DEF c

\* Sequences of sequences are put together as they are.
LEMMA FlattenConcat ==
  ASSUME NEW S, NEW a \in Seq(Seq(S)), NEW b \in Seq(Seq(S))
  PROVE  FlattenSeq(a \o b) = FlattenSeq(a) \o FlattenSeq(b)
<1> DEFINE part(i) == SubSeq(b, 1, i)
           n == Len(b)
           T == {i \in 0..n : FlattenSeq(a \o part(i)) = FlattenSeq(a) \o FlattenSeq(part(i))}
<1>1. n \in Nat /\ part(n) = b
  OBVIOUS
<1>2. FlattenSeq(a) \in Seq(S)
  BY FlattenIn
<1>3. ASSUME NEW i \in 0..n, \A j \in 0..i - 1 : j \in T
      PROVE  i \in T
  <2>1. CASE i = 0
    <3>1. part(0) = <<>> /\ a \o <<>> = a /\ FlattenSeq(a) \o <<>> = FlattenSeq(a)
      BY <1>2
    <3> QED BY <2>1, <3>1, FlattenEmpty
  <2>2. CASE i # 0
    <3> DEFINE p == part(i - 1)
    <3>1. i - 1 \in 0..i - 1 /\ i \in 1..n /\ i - 1 \in T
      BY <1>1, <1>3, <2>2
    <3>2. p \in Seq(Seq(S)) /\ b[i] \in Seq(S)
      BY <3>1
    <3>3. part(i) = Append(p, b[i])
      <4>1. Len(p) = i - 1 /\ \A k \in 1..i - 1 : p[k] = b[k]
        BY <3>1
      <4>2. Len(part(i)) = i /\ part(i) \in Seq(Seq(S)) /\ \A k \in 1..i : part(i)[k] = b[k]
        BY <3>1
      <4> HIDE DEF p, n
      <4>3. /\ Append(p, b[i]) \in Seq(Seq(S)) /\ Len(Append(p, b[i])) = i
            /\ \A k \in 1..i : Append(p, b[i])[k] = b[k]
        <5>1. /\ Append(p, b[i]) \in Seq(Seq(S)) /\ Len(Append(p, b[i])) = i - 1 + 1
              /\ \A k \in 1..i - 1 : Append(p, b[i])[k] = p[k]
              /\ Append(p, b[i])[i - 1 + 1] = b[i]
          BY <3>2, <4>1
        <5> QED BY <3>1, <4>1, <5>1
      <4> DEFINE l == part(i)
                 r == Append(p, b[i])
      <4>4. Len(l) = Len(r) /\ \A k \in 1..Len(l) : l[k] = r[k]
        BY <4>2, <4>3
      <4> HIDE DEF l, r
      <4>5. l \in Seq(Seq(S)) /\ r \in Seq(Seq(S))
        BY <4>2, <4>3 DEF l, r
      <4>6. l = r
        BY <4>4, <4>5, SeqEqual
      <4> QED BY <4>6 DEF l, r
    <3> HIDE DEF p
    <3>4. a \o Append(p, b[i]) = Append(a \o p, b[i]) /\ a \o p \in Seq(Seq(S))
      <4> DEFINE V == Seq(S)
                 x == b[i]
      <4>1. a \in Seq(V) /\ p \in Seq(V) /\ x \in V
        BY <3>2
      <4> HIDE DEF V, x
      <4>2. a \o Append(p, x) = Append(a \o p, x) /\ a \o p \in Seq(V)
        BY <4>1, AppendBehind
      <4> QED BY <4>2 DEF V, x
    <3>5. FlattenSeq(a \o part(i)) = FlattenSeq(a \o p) \o b[i]
      BY <3>2, <3>3, <3>4, FlattenAppend
    <3>6. FlattenSeq(part(i)) = FlattenSeq(p) \o b[i]
      BY <3>2, <3>3, FlattenAppend
    <3>7. FlattenSeq(a \o p) = FlattenSeq(a) \o FlattenSeq(p)
      BY <3>1 DEF p
    <3>8. (FlattenSeq(a) \o FlattenSeq(p)) \o b[i] = FlattenSeq(a) \o (FlattenSeq(p) \o b[i])
      <4> DEFINE l == FlattenSeq(a)
                 m == FlattenSeq(p)
                 r == b[i]
      <4>1. l \in Seq(S) /\ m \in Seq(S) /\ r \in Seq(S)
        BY <1>2, <3>2, FlattenIn
      <4> HIDE DEF l, m, r
      <4>2. (l \o m) \o r = l \o (m \o r)
        BY <4>1, ConcatAssociative, SMTT(30)
      <4> QED BY <4>2 DEF l, m, r
    <3> QED BY <3>5, <3>6, <3>7, <3>8
  <2> QED BY <2>1, <2>2
<1>4. \A i \in 0..n : i \in T
  <2> HIDE DEF T, n
  <2> QED BY <1>1, <1>3, FromTheStart
<1>5. n \in T
  BY <1>1, <1>4
<1> QED BY <1>1, <1>5

-----------------------------------------------------------------------------
(***************************************************************************)
(* Merges.                                                                 *)
(***************************************************************************)
Pairs == Texts \X Texts

\* The rank of a pair is the last place it has among the merges.
LEMMA RankIs ==
  ASSUME NEW t, t.merges \in Seq(Pairs), NEW pair
  PROVE  \/ /\ Rank(t, pair) = None
            /\ \A r \in 1..Len(t.merges) : t.merges[r] # pair
         \/ /\ Rank(t, pair) \in 1..Len(t.merges)
            /\ t.merges[Rank(t, pair)] = pair
            /\ \A r \in 1..Len(t.merges) : t.merges[r] = pair => r <= Rank(t, pair)
<1> DEFINE n == Len(t.merges)
           at == {r \in 1..n : t.merges[r] = pair}
<1>1. n \in Nat
  OBVIOUS
<1> HIDE DEF n
<1>2. at \in SUBSET (0..n)
  BY <1>1
<1>3. CASE at = {}
  BY <1>3 DEF Rank, n
<1>4. CASE at # {}
  <2>1. Max(at) \in at /\ \A x \in at : x <= Max(at)
    <3> HIDE DEF at
    <3> QED BY <1>1, <1>2, <1>4, MaxIs
  <2>2. Rank(t, pair) = Max(at)
    BY <1>4 DEF Rank, n
  <2> QED BY <2>1, <2>2 DEF n
<1> QED BY <1>3, <1>4

RankAt(t, symbols, i) == Rank(t, <<symbols[i], symbols[i + 1]>>)

\* The pair that is merged has the lowest rank, and is the first of that rank.
LEMMA BestIs ==
  ASSUME NEW t, t.merges \in Seq(Pairs), NEW symbols \in Seq(Words), Mergeable(t, symbols) # {}
  PROVE  LET b == Best(t, symbols)
         IN  /\ b \in Mergeable(t, symbols) /\ b \in 1..Len(symbols) - 1
             /\ \A i \in Mergeable(t, symbols) : RankAt(t, symbols, b) <= RankAt(t, symbols, i)
             /\ \A i \in Mergeable(t, symbols) : RankAt(t, symbols, i) = RankAt(t, symbols, b) => b <= i
<1> DEFINE able == Mergeable(t, symbols)
           rank(i) == RankAt(t, symbols, i)
           ranks == {rank(i) : i \in able}
           lowest == Min(ranks)
           first == {i \in able : rank(i) = lowest}
<1>1. able \subseteq 1..Len(symbols) - 1 /\ able \in SUBSET Nat
  BY DEF Mergeable
<1>2. \A i \in able : rank(i) \in Nat
  <2> SUFFICES ASSUME NEW i \in able PROVE rank(i) \in Nat
    OBVIOUS
  <2>1. rank(i) # None
    BY DEF Mergeable, RankAt
  <2>2. rank(i) \in 1..Len(t.merges)
    BY <2>1, RankIs DEF RankAt
  <2> QED BY <2>2
<1> HIDE DEF able, rank
<1>3. ranks \in SUBSET Nat /\ ranks # {}
  BY <1>2 DEF able
<1>4. lowest \in ranks /\ \A x \in ranks : lowest <= x
  <2> HIDE DEF ranks
  <2> QED BY <1>3, MinIs
<1> HIDE DEF lowest
<1>5. first \in SUBSET Nat /\ first # {}
  BY <1>1, <1>4
<1>6. Min(first) \in first /\ \A i \in first : Min(first) <= i
  <2> HIDE DEF first
  <2> QED BY <1>5, MinIs
<1>7. Best(t, symbols) = Min(first)
  BY DEF Best, able, rank, lowest, RankAt
<1>8. \A i \in able : lowest <= rank(i)
  BY <1>4
<1> DEFINE b == Min(first)
<1> HIDE DEF b
<1>9. b \in able /\ rank(b) = lowest /\ \A i \in able : rank(i) = lowest => b <= i
  BY <1>6 DEF b
<1>10. /\ b \in able /\ b \in 1..Len(symbols) - 1
       /\ \A i \in able : rank(b) <= rank(i)
       /\ \A i \in able : rank(i) = rank(b) => b <= i
  BY <1>1, <1>8, <1>9
<1> QED BY <1>7, <1>10 DEF b, able, rank

\* A merge joins two neighbours, moves the symbols behind them by one and
\* leaves the text as it is.
LEMMA MergedAtIs ==
  ASSUME NEW symbols \in Seq(Words), NEW i \in 1..Len(symbols) - 1
  PROVE  LET m == MergedAt(symbols, i)
         IN  /\ m \in Seq(Words) /\ Len(m) = Len(symbols) - 1
             /\ \A k \in 1..i - 1 : m[k] = symbols[k]
             /\ m[i] = symbols[i] \o symbols[i + 1]
             /\ \A k \in i + 1..Len(symbols) - 1 : m[k] = symbols[k + 1]
             /\ FlattenSeq(m) = FlattenSeq(symbols)
<1> DEFINE n == Len(symbols)
           l == SubSeq(symbols, 1, i - 1)
           x == symbols[i]
           y == symbols[i + 1]
           r == SubSeq(symbols, i + 2, n)
<1>1. n \in Nat /\ i \in 1..n /\ i + 1 \in 1..n /\ x \in Words /\ y \in Words
  OBVIOUS
<1>2. x \o y \in Words
  <2> HIDE DEF x, y
  <2>1. x \in Seq(Byte) /\ y \in Seq(Byte) /\ x # <<>>
    BY <1>1 DEF Words, Texts
  <2>2. x \o y \in Seq(Byte) /\ x \o y # <<>>
    BY <2>1, ConcatEqualIffEmpty
  <2> QED BY <2>2 DEF Words, Texts
<1>3. l \in Seq(Words) /\ Len(l) = i - 1 /\ \A k \in 1..i - 1 : l[k] = symbols[k]
  BY <1>1
<1>4. r \in Seq(Words) /\ Len(r) = n - i - 1 /\ \A k \in 1..n - i - 1 : r[k] = symbols[i + 1 + k]
  <2>1. \A k \in i + 2..n : symbols[k] \in Words
    BY <1>1
  <2>2. i + 2 \in Int /\ n \in Int
    BY <1>1
  <2>3. /\ r \in Seq(Words) /\ Len(r) = (IF i + 2 <= n THEN n - (i + 2) + 1 ELSE 0)
        /\ \A k \in 1..n - (i + 2) + 1 : r[k] = symbols[i + 2 + k - 1]
    <3> HIDE DEF n
    <3> QED BY <2>1, <2>2, SubSeqProperties
  <2> HIDE DEF n, r
  <2>4. n - (i + 2) + 1 = n - i - 1 /\ \A k \in 1..n - i - 1 : i + 2 + k - 1 = i + 1 + k
    BY <1>1
  <2>5. ~(i + 2 <= n) => n - i - 1 = 0
    BY <1>1
  <2> QED BY <2>3, <2>4, <2>5
<1> HIDE DEF l, r, x, y
<1> DEFINE m == (l \o <<x \o y>>) \o r
<1>5. MergedAt(symbols, i) = m
  BY DEF MergedAt, l, r, x, y
<1>6. /\ l \o <<x \o y>> \in Seq(Words) /\ Len(l \o <<x \o y>>) = i
      /\ (l \o <<x \o y>>)[i] = x \o y
      /\ \A k \in 1..i - 1 : (l \o <<x \o y>>)[k] = symbols[k]
  <2> DEFINE xy == x \o y
  <2> HIDE DEF xy
  <2>1. xy \in Words
    BY <1>2 DEF xy
  <2>2. /\ l \o <<xy>> \in Seq(Words) /\ Len(l \o <<xy>>) = i
        /\ (l \o <<xy>>)[i] = xy
        /\ \A k \in 1..i - 1 : (l \o <<xy>>)[k] = symbols[k]
    BY <1>1, <1>3, <2>1
  <2> QED BY <2>2 DEF xy
<1> DEFINE lx == l \o <<x \o y>>
<1> HIDE DEF lx
<1>7. /\ m \in Seq(Words) /\ Len(m) = n - 1
      /\ \A k \in 1..n - 1 : m[k] = IF k <= i THEN lx[k] ELSE r[k - i]
  <2>1. lx \in Seq(Words) /\ Len(lx) = i
    BY <1>6 DEF lx
  <2>2. /\ lx \o r \in Seq(Words) /\ Len(lx \o r) = Len(lx) + Len(r)
        /\ \A k \in 1..Len(lx) + Len(r) : (lx \o r)[k] = IF k <= Len(lx) THEN lx[k] ELSE r[k - Len(lx)]
    BY <1>4, <2>1, ConcatProperties
  <2>3. Len(lx) + Len(r) = n - 1
    BY <1>1, <1>4, <2>1
  <2>4. m = lx \o r
    BY DEF lx
  <2> HIDE DEF m
  <2> QED BY <2>1, <2>2, <2>3, <2>4
<1> HIDE DEF m
<1>8. \A k \in 1..i - 1 : m[k] = symbols[k]
  <2>1. \A k \in 1..i - 1 : k \in 1..n - 1 /\ k <= i
    OBVIOUS
  <2>2. \A k \in 1..i - 1 : lx[k] = symbols[k]
    BY <1>6 DEF lx
  <2> QED BY <1>7, <2>1, <2>2
<1>9. m[i] = symbols[i] \o symbols[i + 1]
  <2>1. i \in 1..n - 1 /\ i <= i
    OBVIOUS
  <2>2. lx[i] = symbols[i] \o symbols[i + 1]
    BY <1>6 DEF lx, x, y
  <2> QED BY <1>7, <2>1, <2>2
<1>10. ASSUME NEW k \in i + 1..n - 1 PROVE m[k] = symbols[k + 1]
  <2>1. k \in 1..n - 1 /\ ~(k <= i) /\ k - i \in 1..n - i - 1 /\ i + 1 + (k - i) = k + 1
    BY <1>1
  <2> QED BY <1>4, <1>7, <2>1
<1>11. FlattenSeq(m) = FlattenSeq(symbols)
  <2> DEFINE S == Byte
             lr == l \o <<x, y>>
  <2>1. l \in Seq(Seq(S)) /\ r \in Seq(Seq(S)) /\ x \in Seq(S) /\ y \in Seq(S) /\ x \o y \in Seq(S)
    <3>1. \A w \in Words : w \in Seq(S)
      BY DEF Words, Texts
    <3>2. \A s \in Seq(Words) : s \in Seq(Seq(S))
      BY <3>1
    <3> QED BY <1>1, <1>2, <1>3, <1>4, <3>1, <3>2
  <2> DEFINE fl == FlattenSeq(l)
             fr == FlattenSeq(r)
  <2>2. fl \in Seq(S) /\ fr \in Seq(S)
    BY <2>1, FlattenIn
  <2>3. FlattenSeq(m) = (fl \o (x \o y)) \o fr
    <3> DEFINE xy == x \o y
    <3> HIDE DEF xy
    <3>1. l \o <<xy>> = Append(l, xy) /\ l \o <<xy>> \in Seq(Seq(S))
      BY <2>1 DEF xy
    <3>2. FlattenSeq(l \o <<xy>>) = fl \o xy
      BY <2>1, <3>1, FlattenAppend DEF xy
    <3>3. FlattenSeq((l \o <<xy>>) \o r) = FlattenSeq(l \o <<xy>>) \o fr
      BY <2>1, <3>1, FlattenConcat
    <3> QED BY <3>2, <3>3 DEF m, xy
  <2>4. lr = Append(Append(l, x), y) /\ lr \in Seq(Seq(S)) /\ Append(l, x) \in Seq(Seq(S))
    BY <2>1
  <2> HIDE DEF lr
  <2>5. FlattenSeq(lr) = (fl \o x) \o y
    BY <2>1, <2>4, FlattenAppend
  <2>6. symbols = lr \o r
    <3>1. /\ lr \in Seq(Words) /\ Len(lr) = i + 1 /\ lr[i] = x /\ lr[i + 1] = y
          /\ \A k \in 1..i - 1 : lr[k] = symbols[k]
      <4> DEFINE lx1 == Append(l, x)
      <4>1. lx1 \in Seq(Words) /\ Len(lx1) = i /\ lx1[i] = x /\ \A k \in 1..i - 1 : lx1[k] = symbols[k]
        BY <1>1, <1>3
      <4> HIDE DEF lx1
      <4>2. /\ Append(lx1, y) \in Seq(Words) /\ Len(Append(lx1, y)) = i + 1 /\ Append(lx1, y)[i] = x
            /\ Append(lx1, y)[i + 1] = y /\ \A k \in 1..i - 1 : Append(lx1, y)[k] = symbols[k]
        BY <1>1, <4>1
      <4> QED BY <2>4, <4>2 DEF lx1
    <3>2. \A k \in 1..i + 1 : lr[k] = symbols[k]
      <4>1. \A k \in 1..i + 1 : k \in 1..i - 1 \/ k = i \/ k = i + 1
        BY <1>1
      <4> QED BY <3>1, <4>1 DEF x, y
    <3>3. /\ lr \o r \in Seq(Words) /\ Len(lr \o r) = Len(lr) + Len(r)
          /\ \A k \in 1..Len(lr) + Len(r) : (lr \o r)[k] = IF k <= Len(lr) THEN lr[k] ELSE r[k - Len(lr)]
      BY <1>4, <3>1, ConcatProperties
    <3>4. Len(lr) + Len(r) = n
      BY <1>1, <1>4, <3>1
    <3>5. ASSUME NEW k \in 1..n PROVE (lr \o r)[k] = symbols[k]
      <4>1. CASE k <= i + 1
        BY <1>1, <3>1, <3>2, <3>3, <3>4, <4>1
      <4>2. CASE ~(k <= i + 1)
        <5>1. k - (i + 1) \in 1..n - i - 1 /\ i + 1 + (k - (i + 1)) = k
          BY <1>1, <4>2
        <5> QED BY <1>4, <3>1, <3>3, <3>4, <4>2, <5>1
      <4> QED BY <4>1, <4>2
    <3> DEFINE both == lr \o r
    <3>6. both \in Seq(Words) /\ Len(both) = Len(symbols) /\ \A k \in 1..Len(both) : both[k] = symbols[k]
      BY <3>3, <3>4, <3>5
    <3> HIDE DEF both
    <3>7. both = symbols
      BY <3>6, SeqEqual
    <3> QED BY <3>7 DEF both
  <2>7. FlattenSeq(symbols) = ((fl \o x) \o y) \o fr
    BY <2>1, <2>4, <2>5, <2>6, FlattenConcat
  <2>8. (fl \o x) \o y = fl \o (x \o y)
    <3> HIDE DEF fl, S
    <3>1. fl \in Seq(S) /\ x \in Seq(S) /\ y \in Seq(S)
      BY <2>1, <2>2
    <3> QED BY <3>1, ConcatAssociative, SMTT(30)
  <2> QED BY <2>3, <2>7, <2>8
<1> QED BY <1>5, <1>7, <1>8, <1>9, <1>10, <1>11

\* A round of the loop leaves symbols, one fewer if it merges any, of the same text.
LEMMA MergeBestIs ==
  ASSUME NEW t, t.merges \in Seq(Pairs), NEW symbols \in Seq(Words)
  PROVE  /\ MergeBest(t, symbols) \in Seq(Words)
         /\ FlattenSeq(MergeBest(t, symbols)) = FlattenSeq(symbols)
         /\ Mergeable(t, symbols) # {} => Len(MergeBest(t, symbols)) = Len(symbols) - 1
<1>1. CASE Mergeable(t, symbols) = {}
  BY <1>1 DEF MergeBest
<1>2. CASE Mergeable(t, symbols) # {}
  <2>1. Best(t, symbols) \in 1..Len(symbols) - 1
    BY <1>2, BestIs
  <2>2. MergeBest(t, symbols) = MergedAt(symbols, Best(t, symbols))
    BY <1>2 DEF MergeBest
  <2> QED BY <2>1, <2>2, MergedAtIs
<1> QED BY <1>1, <1>2

\* The loop of bpe_tokenize: what it leaves after each of its rounds.
Rounds(after, t, symbols) ==
  /\ after[0] = symbols
  /\ \A n \in 0..Len(symbols) :
       /\ after[n] \in Seq(Words)
       /\ n # 0 => after[n] = MergeBest(t, after[n - 1])

\* The rounds of bpe_tokenize are there, one after the other.
LEMMA MergedScan ==
  ASSUME NEW t, t.merges \in Seq(Pairs), NEW symbols \in Seq(Words)
  PROVE  \E after : Merged(t, symbols) = after[Len(symbols)] /\ Rounds(after, t, symbols)
<1> DEFINE n == Len(symbols)
           D == 0..n
           V == Seq(Words)
           At(f, i) == IF i = 0 THEN symbols ELSE MergeBest(t, f[i - 1])
           rank == [i \in D |-> i]
           step == [i \in D |-> [f \in [D -> V] |-> At(f, i)]]
           Unfolds(f) == f = [i \in D |-> At(f, i)]
           after == CHOOSE f : Unfolds(f)
<1>1. n \in Nat /\ symbols \in V /\ V # {}
  OBVIOUS
<1>2. Ranked(rank, D, n)
  BY <1>1 DEF Ranked
<1>3. \A i \in D : i = 0 \/ i - 1 \in D
  BY <1>1
<1> HIDE DEF n
<1>4. step \in [D -> [[D -> V] -> V]]
  <2> SUFFICES ASSUME NEW i \in D, NEW f \in [D -> V] PROVE At(f, i) \in V
    OBVIOUS
  <2>1. i # 0 => f[i - 1] \in V
    BY <1>3
  <2>2. i # 0 => MergeBest(t, f[i - 1]) \in V
    BY <2>1, MergeBestIs
  <2> HIDE DEF D
  <2> QED BY <1>1, <2>2
<1>5. LooksAhead(step, D, V, rank)
  <2> SUFFICES ASSUME NEW i \in D, NEW f \in [D -> V], NEW g \in [D -> V],
                      \A e \in D : rank[e] < rank[i] => f[e] = g[e]
               PROVE  At(f, i) = At(g, i)
    BY DEF LooksAhead
  <2>1. i # 0 => rank[i - 1] < rank[i]
    BY <1>1, <1>3
  <2> HIDE DEF D, rank
  <2>2. i # 0 => f[i - 1] = g[i - 1]
    BY <1>3, <2>1
  <2> QED BY <2>2
<1> HIDE DEF step, rank, V
<1>6. PICK f \in [D -> V] : Yields(f, step, D)
  <2> HIDE DEF D
  <2> QED BY <1>1, <1>2, <1>4, <1>5, Scan
<1>7. \A i \in D : f[i] = At(f, i)
  BY <1>6 DEF Yields, step
<1>8. Unfolds(after)
  <2>1. f = [i \in D |-> f[i]]
    BY <1>6
  <2> HIDE DEF D, At
  <2>2. Unfolds(f)
    BY <1>7, <2>1
  <2> QED BY <2>2
<1>9. Merged(t, symbols) = after[n]
  BY DEF Merged, n
<1> HIDE DEF after, At, D
<1>10. \A i \in D : after[i] = At(after, i)
  BY <1>8
<1>11. ASSUME NEW i \in D, \A e \in D : rank[e] < rank[i] => after[e] = f[e]
       PROVE  after[i] = f[i]
  <2>1. i # 0 => i - 1 \in D /\ rank[i - 1] < rank[i]
    BY <1>1, <1>3 DEF rank, D
  <2>2. i # 0 => after[i - 1] = f[i - 1]
    BY <1>11, <2>1
  <2>3. At(after, i) = At(f, i)
    BY <2>2 DEF At
  <2> QED BY <1>7, <1>10, <2>3
<1>12. \A i \in D : after[i] = f[i]
  <2>1. Spreads(after, f, D, rank)
    BY <1>11 DEF Spreads
  <2> QED BY <1>2, <2>1, SameScan
<1>13. \A i \in D : after[i] \in V
  BY <1>6, <1>12
<1>14. after[0] = symbols
  <2>1. 0 \in D
    BY <1>1 DEF D
  <2> QED BY <1>10, <2>1 DEF At
<1>15. \A i \in D : i # 0 => after[i] = MergeBest(t, after[i - 1])
  BY <1>10 DEF At
<1> QED BY <1>9, <1>13, <1>14, <1>15 DEF Rounds, n, D, V

\* Merging leaves symbols, of the same text.
LEMMA MergedIs ==
  ASSUME NEW t, t.merges \in Seq(Pairs), NEW symbols \in Seq(Words)
  PROVE  Merged(t, symbols) \in Seq(Words) /\ FlattenSeq(Merged(t, symbols)) = FlattenSeq(symbols)
<1>1. PICK after : Merged(t, symbols) = after[Len(symbols)] /\ Rounds(after, t, symbols)
  BY MergedScan
<1> DEFINE n == Len(symbols)
           S == {i \in 0..n : FlattenSeq(after[i]) = FlattenSeq(symbols)}
<1>2. n \in Nat
  OBVIOUS
<1>3. ASSUME NEW i \in 0..n, \A j \in 0..i - 1 : j \in S PROVE i \in S
  <2>1. CASE i = 0
    BY <1>1, <2>1 DEF Rounds
  <2>2. CASE i # 0
    <3>1. i - 1 \in 0..i - 1 /\ i - 1 \in 0..n
      BY <2>2
    <3>2. i - 1 \in S
      BY <1>3, <3>1
    <3>3. after[i] = MergeBest(t, after[i - 1]) /\ after[i - 1] \in Seq(Words)
      BY <1>1, <2>2, <3>1 DEF Rounds
    <3>4. FlattenSeq(after[i]) = FlattenSeq(after[i - 1])
      BY <3>3, MergeBestIs
    <3> QED BY <3>2, <3>4
  <2> QED BY <2>1, <2>2
<1>4. \A i \in 0..n : i \in S
  <2> HIDE DEF S, n
  <2> QED BY <1>2, <1>3, FromTheStart
<1>5. n \in 0..n
  BY <1>2
<1>6. after[n] \in Seq(Words)
  BY <1>1, <1>5 DEF Rounds
<1> QED BY <1>1, <1>4, <1>5, <1>6

\* The characters of a word are words.
LEMMA SymbolsAre ==
  ASSUME NEW word \in Texts
  PROVE  Symbols(word) \in Seq(Words)
<1>1. PICK f : Symbols(word) = f[1] /\ SymbolsFrom(f, word)
  BY SymbolsScan
<1>2. 1 \in 1..Len(word) + 1
  BY DEF Texts
<1> QED BY <1>1, <1>2 DEF SymbolsFrom

-----------------------------------------------------------------------------
(***************************************************************************)
(* Rows of ids.                                                            *)
(***************************************************************************)
\* What the proofs need to know of a tokenizer that was loaded.
Loaded(t) == t.max_length \in Nat \ {0} /\ t.merges \in Seq(Pairs)

\* Either tokenizer yields ids of the vocabulary, or unk_token_id_.
LEMMA WordIdsAreIds ==
  ASSUME NEW t, Loaded(t), NEW word \in Texts
  PROVE  WordIds(t, word) \in Seq(IdsOf(t))
<1>1. wordpiece_tokenize(t, word) \in Seq(IdsOf(t))
  <2>1. PICK p : wordpiece_tokenize(t, word) = p[1] /\ PiecesFrom(p, t, word)
    BY PiecesScan
  <2>2. 1 \in 1..Len(word) + 1
    BY DEF Texts
  <2> QED BY <2>1, <2>2 DEF PiecesFrom
<1>2. bpe_tokenize(t, word) \in Seq(IdsOf(t))
  <2> DEFINE symbols == Merged(t, Symbols(word))
             id(x) == IF x \in DOMAIN t.vocab THEN t.vocab[x] ELSE t.unk
  <2>1. symbols \in Seq(Words)
    BY SymbolsAre, MergedIs DEF Loaded
  <2>2. \A x : id(x) \in IdsOf(t)
    BY DEF IdsOf
  <2> HIDE DEF symbols, id
  <2>3. [i \in DOMAIN symbols |-> id(symbols[i])] \in Seq(IdsOf(t))
    BY <2>1, <2>2
  <2>4. bpe_tokenize(t, word) = [i \in DOMAIN symbols |-> id(symbols[i])]
    BY DEF bpe_tokenize, symbols, id
  <2> QED BY <2>3, <2>4
<1> QED BY <1>1, <1>2 DEF WordIds

\* basic_tokenize yields words.
LEMMA WordsAre ==
  ASSUME NEW text \in Texts
  PROVE  basic_tokenize(text) \in Seq(Words)
<1>1. PICK w : basic_tokenize(text) = w[<<1, 1>>] /\ WordsFrom(w, text)
  BY WordsScan
<1>2. 1 \in Places(text)
  BY DEF Texts, Places
<1> QED BY <1>1, <1>2 DEF WordsFrom

\* Lower-casing yields a text of the same length.
LEMMA ProcessedIs ==
  ASSUME NEW t, NEW text \in Texts
  PROVE  Processed(t, text) \in Texts /\ Len(Processed(t, text)) = Len(text)
<1> DEFINE low(c) == IF c \in DOMAIN Upper THEN Upper[c] ELSE c
<1>1. \A c \in Byte : low(c) \in Byte
  BY BytesAssumption DEF Byte
<1> HIDE DEF low
<1>2. [i \in DOMAIN text |-> low(text[i])] \in Texts /\ Len([i \in DOMAIN text |-> low(text[i])]) = Len(text)
  BY <1>1 DEF Texts
<1>3. to_lower_ascii(text) = [i \in DOMAIN text |-> low(text[i])]
  BY DEF to_lower_ascii, low
<1> QED BY <1>2, <1>3 DEF Processed

\* Without a limit a text has [CLS], the ids of its words and [SEP].
LEMMA AllIdsAre ==
  ASSUME NEW t, Loaded(t), NEW text \in Texts
  PROVE  LET ids == AllIds(t, text)
         IN  /\ ids \in Seq(IdsOf(t)) /\ Len(ids) \in Nat /\ Len(ids) >= 2
             /\ ids[1] = t.cls /\ ids[Len(ids)] = t.sep
<1> DEFINE words == basic_tokenize(Processed(t, text))
           each == [i \in DOMAIN words |-> WordIds(t, words[i])]
           between == FlattenSeq(each)
           I == IdsOf(t)
<1>1. words \in Seq(Words)
  BY ProcessedIs, WordsAre
<1>2. \A w \in Words : WordIds(t, w) \in Seq(I)
  BY WordIdsAreIds DEF Words
<1> HIDE DEF words
<1>3. each \in Seq(Seq(I))
  <2> DEFINE n == Len(words)
             V == Seq(I)
  <2>1. n \in Nat /\ DOMAIN words = 1..n /\ \A i \in 1..n : words[i] \in Words
    BY <1>1
  <2>2. \A i \in 1..n : WordIds(t, words[i]) \in V
    BY <1>2, <2>1
  <2> HIDE DEF V, n
  <2>3. [i \in 1..n |-> WordIds(t, words[i])] \in Seq(V)
    BY <2>1, <2>2, IsASeq
  <2> QED BY <2>1, <2>3 DEF V
<1>4. between \in Seq(I)
  BY <1>3, FlattenIn
<1>5. t.cls \in I /\ t.sep \in I
  BY DEF IdsOf
<1>6. AllIds(t, text) = <<t.cls>> \o between \o <<t.sep>>
  BY DEF AllIds, words
<1> HIDE DEF between, I
<1> DEFINE c == t.cls
           s == t.sep
           head == <<c>> \o between
<1>7. head \in Seq(I) /\ Len(head) = Len(between) + 1 /\ head[1] = c /\ Len(between) \in Nat
  <2> HIDE DEF c
  <2>1. c \in I
    BY <1>5 DEF c
  <2> QED BY <1>4, <2>1
<1> HIDE DEF head
<1>8. /\ head \o <<s>> \in Seq(I) /\ Len(head \o <<s>>) = Len(between) + 2
      /\ (head \o <<s>>)[1] = c /\ (head \o <<s>>)[Len(between) + 2] = s
  <2> HIDE DEF s, c
  <2>1. s \in I
    BY <1>5 DEF s
  <2> QED BY <1>7, <2>1
<1> QED BY <1>6, <1>7, <1>8 DEF head, I

\* A row is all of the ids, or the first ones and [SEP], one id for every place.
LEMMA EncodeSingleIs ==
  ASSUME NEW t, Loaded(t), NEW text \in Texts
  PROVE  LET ids == AllIds(t, text)
             row == encode_single(t, text)
         IN  /\ row \in Seq(IdsOf(t)) /\ Len(row) \in 1..t.max_length
             /\ row[Len(row)] = t.sep /\ Len(row) <= Len(ids)
             /\ \A j \in 1..Len(row) - 1 : row[j] = ids[j]
             /\ Len(row) < Len(ids) => Len(row) = t.max_length
<1> DEFINE ids == AllIds(t, text)
           m == t.max_length
           I == IdsOf(t)
           s == t.sep
<1>1. ids \in Seq(I) /\ Len(ids) \in Nat /\ Len(ids) >= 2 /\ ids[Len(ids)] = s
  BY AllIdsAre
<1>2. m \in Nat \ {0} /\ s \in I
  BY DEF Loaded, IdsOf
<1> HIDE DEF ids, m, I, s
<1>3. CASE Len(ids) > m
  <2> DEFINE head == SubSeq(ids, 1, m - 1)
             row == Append(head, s)
  <2>1. head \in Seq(I) /\ Len(head) = m - 1 /\ \A j \in 1..m - 1 : head[j] = ids[j]
    BY <1>1, <1>2, <1>3
  <2> HIDE DEF head
  <2>2. row \in Seq(I) /\ Len(row) = m /\ row[m] = s /\ \A j \in 1..m - 1 : row[j] = ids[j]
    BY <1>2, <2>1
  <2>3. encode_single(t, text) = row
    BY <1>3 DEF encode_single, Truncated, ids, m, s, head
  <2> HIDE DEF row
  <2> QED BY <1>1, <1>2, <1>3, <2>2, <2>3 DEF ids, m, I, s
<1>4. CASE ~(Len(ids) > m)
  <2>1. encode_single(t, text) = ids
    BY <1>4 DEF encode_single, ids, m
  <2> QED BY <1>1, <1>2, <1>4, <2>1 DEF ids, m, I, s
<1> QED BY <1>3, <1>4


\* Row i of b is that of the text, padded.
Padded(t, text, b, i) ==
  LET row == encode_single(t, text)
      n == Len(row)
  IN  /\ n \in 1..b.seq_length
      /\ b.input_ids[i] = [j \in 1..b.seq_length |-> IF j <= n THEN row[j] ELSE t.pad]
      /\ b.attention_mask[i] = [j \in 1..b.seq_length |-> IF j <= n THEN 1 ELSE 0]

\* The rows of a batch, one for each text, and the length of them all.
LEMMA BatchIs ==
  ASSUME NEW t, Loaded(t), NEW batch \in Seq(Texts), batch # <<>>
  PROVE  LET b == encode_batch(t, batch)
         IN  /\ b.seq_length \in Nat
             /\ \E i \in DOMAIN batch : Len(encode_single(t, batch[i])) = b.seq_length
             /\ \A i \in DOMAIN batch : Padded(t, batch[i], b, i)
<1> DEFINE D == DOMAIN batch
           row(i) == encode_single(t, batch[i])
           n(i) == Len(row(i))
           m == t.max_length
           lengths == {n(i) : i \in D}
           longest == Max(lengths)
<1>1. m \in Nat /\ \A i \in D : n(i) \in 1..m
  <2>1. \A i \in D : batch[i] \in Texts
    OBVIOUS
  <2> QED BY <2>1, EncodeSingleIs DEF Loaded
<1>2. 1 \in D
  BY EmptySeq
<1> HIDE DEF D, n, m
<1>3. lengths \in SUBSET (0..m) /\ lengths # {}
  BY <1>1, <1>2
<1>4. longest \in lengths /\ \A x \in lengths : x <= longest
  <2> HIDE DEF lengths
  <2> QED BY <1>1, <1>3, MaxIs
<1> HIDE DEF longest
<1>5. longest \in Nat /\ \E i \in D : n(i) = longest
  BY <1>1, <1>4
<1>6. \A i \in D : n(i) \in 1..longest
  <2> SUFFICES ASSUME NEW i \in D PROVE n(i) \in 1..longest
    OBVIOUS
  <2>1. n(i) <= longest
    BY <1>4
  <2> QED BY <1>1, <1>5, <2>1
<1> DEFINE b == encode_batch(t, batch)
           rows == [i \in D |-> row(i)]
<1>7. SeqLength(rows) = longest
  <2>1. SeqLength(rows) = Max({Len(rows[i]) : i \in DOMAIN rows})
    BY DEF SeqLength
  <2>2. DOMAIN rows = D /\ \A i \in D : Len(rows[i]) = n(i)
    BY DEF n
  <2>3. {Len(rows[i]) : i \in DOMAIN rows} = lengths
    BY <2>2
  <2> QED BY <2>1, <2>3 DEF longest
<1>8. b = [seq_length |-> longest,
           input_ids |-> [i \in D |-> [j \in 1..longest |-> IF j <= Len(rows[i]) THEN rows[i][j] ELSE t.pad]],
           attention_mask |-> [i \in D |-> [j \in 1..longest |-> IF j <= Len(rows[i]) THEN 1 ELSE 0]]]
  <2> HIDE DEF row
  <2>1. rows = [i \in DOMAIN batch |-> row(i)]
    BY DEF D
  <2> DEFINE made(rs, len) ==
        [seq_length |-> len,
         input_ids |-> [i \in DOMAIN batch |-> [j \in 1..len |-> IF j <= Len(rs[i]) THEN rs[i][j] ELSE t.pad]],
         attention_mask |-> [i \in DOMAIN batch |-> [j \in 1..len |-> IF j <= Len(rs[i]) THEN 1 ELSE 0]]]
  <2>2. b = made([i \in DOMAIN batch |-> row(i)], SeqLength([i \in DOMAIN batch |-> row(i)]))
    BY DEF encode_batch, row
  <2>3. b = made(rows, longest)
    <3> HIDE DEF made, rows
    <3> QED BY <1>7, <2>1, <2>2
  <2> HIDE DEF rows, b
  <2> QED BY <2>3 DEF D
<1> HIDE DEF b
<1>9. b.seq_length = longest
  <2> HIDE DEF rows
  <2> QED BY <1>8
<1>10. ASSUME NEW i \in D
       PROVE  /\ b.input_ids[i] = [j \in 1..longest |-> IF j <= n(i) THEN row(i)[j] ELSE t.pad]
              /\ b.attention_mask[i] = [j \in 1..longest |-> IF j <= n(i) THEN 1 ELSE 0]
  <2>1. rows[i] = row(i) /\ Len(rows[i]) = n(i)
    BY DEF n
  <2> HIDE DEF rows, row
  <2>2. /\ b.input_ids[i] = [j \in 1..longest |-> IF j <= Len(rows[i]) THEN rows[i][j] ELSE t.pad]
        /\ b.attention_mask[i] = [j \in 1..longest |-> IF j <= Len(rows[i]) THEN 1 ELSE 0]
    BY <1>8
  <2> QED BY <2>1, <2>2
<1>11. \A i \in D : Padded(t, batch[i], b, i)
  BY <1>6, <1>9, <1>10 DEF Padded, n
<1> QED BY <1>5, <1>9, <1>11 DEF b, n, D

\* What is in the result of encode_batch for a text of it.
RowIs(t, text, b, i) ==
  LET row == encode_single(t, text)
      ids == SubSeq(b.input_ids[i], 1,
               LET zero == SelectInSeq(b.attention_mask[i], LAMBDA x : x = 0)
               IN  IF zero = 0 THEN b.seq_length ELSE zero - 1)
  IN  /\ ids = row
      /\ \A j \in Len(row) + 1..b.seq_length :
           b.input_ids[i][j] = t.pad /\ b.attention_mask[i][j] = 0

\* A row of encode_batch, with its mask.
LEMMA BatchRow ==
  ASSUME NEW t, Loaded(t), NEW batch \in Seq(Texts), NEW i \in DOMAIN batch
  PROVE  RowIs(t, batch[i], encode_batch(t, batch), i)
<1> DEFINE b == encode_batch(t, batch)
           row == encode_single(t, batch[i])
           n == Len(row)
           l == b.seq_length
           mask == b.attention_mask[i]
           ids == b.input_ids[i]
           pad == t.pad
           zero == SelectInSeq(mask, LAMBDA x : x = 0)
           I == IdsOf(t)
<1>1. /\ l \in Nat /\ n \in 1..l
      /\ ids = [j \in 1..l |-> IF j <= n THEN row[j] ELSE pad]
      /\ mask = [j \in 1..l |-> IF j <= n THEN 1 ELSE 0]
  <2>1. batch # <<>>
    OBVIOUS
  <2> HIDE DEF b
  <2>2. l \in Nat /\ Padded(t, batch[i], b, i)
    BY <2>1, BatchIs DEF b
  <2> QED BY <2>2 DEF Padded
<1>2. row \in Seq(I) /\ n \in Nat /\ pad \in I
  <2>1. batch[i] \in Texts
    OBVIOUS
  <2> QED BY <2>1, EncodeSingleIs DEF IdsOf
<1>3. zero = IF n = l THEN 0 ELSE n + 1
  <2> DEFINE zeros == {j \in 1..Len(mask) : mask[j] = 0}
  <2>1. zero = IF zeros # {} THEN Min(zeros) ELSE 0
    BY DEF SelectInSeq
  <2> HIDE DEF mask, l, n
  <2>2. Len(mask) = l
    BY <1>1
  <2>3. zeros = n + 1..l
    BY <1>1, <2>2
  <2>4. n # l => Min(n + 1..l) = n + 1
    <3>1. n # l => n + 1 \in n + 1..l /\ n + 1..l # {} /\ n + 1..l \in SUBSET Nat
      <4>1. n \in Nat /\ l \in Nat /\ (n # l => n + 1 \in n + 1..l)
        BY <1>1
      <4>2. \A x \in n + 1..l : x \in Nat
        BY <4>1
      <4> DEFINE behind == n + 1..l
      <4> HIDE DEF behind
      <4>3. n # l => n + 1 \in behind
        BY <4>1 DEF behind
      <4>4. behind \in SUBSET Nat
        BY <4>2 DEF behind
      <4> QED BY <4>3, <4>4 DEF behind
    <3>2. n # l => Min(n + 1..l) \in n + 1..l /\ \A x \in n + 1..l : Min(n + 1..l) <= x
      BY <3>1, MinIs
    <3> QED BY <1>1, <3>1, <3>2
  <2>5. (n + 1..l = {}) <=> (n = l)
    BY <1>1
  <2> HIDE DEF zeros, zero
  <2> QED BY <2>1, <2>3, <2>4, <2>5
<1> DEFINE last == IF zero = 0 THEN l ELSE zero - 1
<1> HIDE DEF zero
<1>4. last = n
  <2> HIDE DEF n, l
  <2> QED BY <1>1, <1>3
<1> HIDE DEF last
<1>5. SubSeq(ids, 1, last) = row
  <2> HIDE DEF ids, row, l, pad, I
  <2>1. \A j \in 1..n : ids[j] = row[j] /\ row[j] \in I
    BY <1>1, <1>2
  <2> DEFINE part == SubSeq(ids, 1, n)
  <2>2. part \in Seq(I) /\ Len(part) = n /\ \A j \in 1..n : part[j] = ids[j]
    <3> HIDE DEF n
    <3>1. 1 \in Int /\ n \in Int /\ (\A j \in 1..n : ids[j] \in I) /\ 1 <= n
      BY <1>1, <1>2, <2>1
    <3>2. /\ part \in Seq(I) /\ Len(part) = (IF 1 <= n THEN n - 1 + 1 ELSE 0)
          /\ \A j \in 1..n - 1 + 1 : part[j] = ids[1 + j - 1]
      BY <3>1, SubSeqProperties
    <3> HIDE DEF part
    <3>3. n - 1 + 1 = n /\ \A j \in 1..n : 1 + j - 1 = j
      BY <1>2
    <3> QED BY <3>1, <3>2, <3>3
  <2> HIDE DEF part
  <2>3. part = row
    BY <1>2, <2>1, <2>2, SeqEqual
  <2> QED BY <1>4, <2>3 DEF part
<1>6. ASSUME NEW j \in n + 1..l PROVE ids[j] = pad /\ mask[j] = 0
  <2> HIDE DEF ids, mask, n, l, pad
  <2> QED BY <1>1
<1> QED BY <1>5, <1>6 DEF RowIs, last, zero


-----------------------------------------------------------------------------
(***************************************************************************)
(* The state machine.                                                      *)
(***************************************************************************)
\* The tokenizer is one that was loaded, or none; what encode_batch returned
\* is the encoding of the texts it was given.
Inv ==
  /\ tok # None => Loaded(tok)
  /\ out # None => /\ Loaded(tok) /\ texts \in Seq(Texts)
                   /\ out = encode_batch(tok, texts)

\* load_from_blob yields such a tokenizer.
LEMMA LoadedIs ==
  ASSUME NEW f \in File, NEW n \in MaxLength, load_from_blob(f, n) # None
  PROVE  Loaded(load_from_blob(f, n))
<1>1. f.merges \in Seq(Pairs) /\ <<>> \in Seq(Pairs) /\ n \in Nat \ {0}
  <2>1. <<>> \in Seq(Pairs)
    OBVIOUS
  <2> QED BY <2>1, MergesAssumption, BytesAssumption DEF Pairs, Texts
<1>2. f.parses
  BY DEF load_from_blob
<1>3. /\ load_from_blob(f, n).max_length = n
      /\ \/ load_from_blob(f, n).merges = f.merges
         \/ load_from_blob(f, n).merges = <<>>
  BY <1>2 DEF load_from_blob, TokenizerWrapper
<1> QED BY <1>1, <1>3 DEF Loaded

\* The tokenizer stays as it was loaded, and the batch is what it encodes.
LEMMA InvHolds == Spec => []Inv
<1>1. Init => Inv
  BY LoadedIs DEF Init, Inv
<1>2. Inv /\ [Next]_vars => Inv'
  <2> SUFFICES ASSUME Inv, [Next]_vars PROVE Inv'
    OBVIOUS
  <2>1. CASE Next
    <3>1. PICK batch \in Batch : EncodeBatch(batch)
      BY <2>1 DEF Next
    <3>2. batch \in Seq(Texts)
      BY BytesAssumption DEF Texts
    <3>3. tok' = tok /\ tok # None /\ texts' = batch /\ out' = encode_batch(tok, batch)
      BY <3>1 DEF EncodeBatch
    <3> QED BY <3>2, <3>3 DEF Inv
  <2>2. CASE UNCHANGED vars
    BY <2>2 DEF Inv, vars
  <2> QED BY <2>1, <2>2
<1> QED BY <1>1, <1>2, PTL DEF Spec

\* The ids of a row are those of its text alone.
LEMMA IdsAre ==
  ASSUME Inv, NEW i \in Rows
  PROVE  /\ Loaded(tok) /\ texts \in Seq(Texts) /\ i \in DOMAIN texts /\ texts[i] \in Texts
         /\ out = encode_batch(tok, texts)
         /\ Ids(i) = encode_single(tok, texts[i])
         /\ \A j \in Len(Ids(i)) + 1..out.seq_length :
              out.input_ids[i][j] = tok.pad /\ out.attention_mask[i][j] = 0
<1>1. Loaded(tok) /\ texts \in Seq(Texts) /\ out = encode_batch(tok, texts) /\ i \in DOMAIN texts
  BY DEF Inv, Rows
<1>2. texts[i] \in Texts
  BY <1>1
<1>3. RowIs(tok, texts[i], out, i)
  BY <1>1, BatchRow
<1>4. Ids(i) = encode_single(tok, texts[i])
  BY <1>3 DEF RowIs, Ids, RowIds
<1> QED BY <1>1, <1>2, <1>3, <1>4 DEF RowIs

\* Every row is its text's ids within the limit, framed by [CLS] and [SEP]
\* (encode_single's truncation): for all texts, vocabularies and limits.
THEOREM RowsFramed == Spec => []Framed
<1>1. Inv => Framed
  <2> SUFFICES ASSUME Inv, NEW i \in Rows
               PROVE  LET ids == Ids(i)
                          n == Len(ids)
                          all == AllIds(tok, texts[i])
                      IN  /\ n \in 1..tok.max_length
                          /\ ids[n] = tok.sep
                          /\ IsPrefix(SubSeq(ids, 1, n - 1), all)
                          /\ n < Len(all) => n = tok.max_length
    BY DEF Framed
  <2> DEFINE row == Ids(i)
             n == Len(row)
             all == AllIds(tok, texts[i])
             I == IdsOf(tok)
  <2>1. /\ row \in Seq(I) /\ n \in 1..tok.max_length /\ row[n] = tok.sep /\ n <= Len(all)
        /\ \A j \in 1..n - 1 : row[j] = all[j]
        /\ n < Len(all) => n = tok.max_length
    BY IdsAre, EncodeSingleIs
  <2>2. all \in Seq(I) /\ Len(all) \in Nat
    BY IdsAre, AllIdsAre
  <2>3. n \in Nat /\ n >= 1
    BY <2>1, IdsAre DEF Loaded
  <2>9. n <= Len(row)
    BY <2>3
  <2> HIDE DEF row, all, I, n
  <2> DEFINE head == SubSeq(row, 1, n - 1)
             same == SubSeq(all, 1, n - 1)
  <2>4. head \in Seq(I) /\ Len(head) = n - 1 /\ \A j \in 1..n - 1 : head[j] = row[j]
    <3>1. 1 \in 1..Len(row) + 1 /\ n - 1 \in 1 - 1..Len(row) /\ (n - 1) - 1 + 1 = n - 1
      BY <2>1, <2>3, <2>9
    <3>2. \A j \in 1..n - 1 : 1 + j - 1 = j
      BY <2>3
    <3> QED BY <2>1, <3>1, <3>2, SubSeqProperties
  <2>5. same \in Seq(I) /\ Len(same) = n - 1 /\ \A j \in 1..n - 1 : same[j] = all[j]
    <3>1. 1 \in 1..Len(all) + 1 /\ n - 1 \in 1 - 1..Len(all) /\ (n - 1) - 1 + 1 = n - 1
      BY <2>1, <2>2, <2>3
    <3>2. \A j \in 1..n - 1 : 1 + j - 1 = j
      BY <2>3
    <3> QED BY <2>2, <3>1, <3>2, SubSeqProperties
  <2> HIDE DEF head, same
  <2>6. head = same
    <3>1. Len(head) = Len(same) /\ \A j \in 1..Len(head) : head[j] = same[j]
      BY <2>1, <2>4, <2>5
    <3> QED BY <2>4, <2>5, <3>1, SeqEqual
  <2>7. SubSeq(head, 1, Len(head)) = head
    BY <2>4, SubSeqFull
  <2>8. IsPrefix(head, all)
    <3>1. Len(head) <= Len(all)
      BY <2>1, <2>2, <2>3, <2>4
    <3>2. SubSeq(all, 1, Len(head)) = same
      BY <2>4 DEF same
    <3> QED BY <2>6, <2>7, <3>1, <3>2 DEF IsPrefix
  <2> QED BY <2>1, <2>8 DEF row, all, head, n
<1> QED BY <1>1, InvHolds, PTL

\* A text is encoded as it would be alone, whatever encode_batch pads it with:
\* for all batches.
THEOREM RowsAlone == Spec => []RowsStandAlone
<1>1. Inv => RowsStandAlone
  <2> SUFFICES ASSUME Inv PROVE RowsStandAlone
    OBVIOUS
  <2>1. ASSUME NEW i \in Rows
        PROVE  Ids(i) = encode_batch(tok, <<texts[i]>>).input_ids[1]
    <3> DEFINE one == <<texts[i]>>
               b == encode_batch(tok, one)
               row == encode_single(tok, texts[i])
               n == Len(row)
               I == IdsOf(tok)
    <3>1. Loaded(tok) /\ texts[i] \in Texts /\ Ids(i) = row
      BY IdsAre
    <3>2. one \in Seq(Texts) /\ one # <<>> /\ DOMAIN one = {1} /\ one[1] = texts[i]
      BY <3>1
    <3> HIDE DEF one, b
    <3>3. /\ \E k \in DOMAIN one : Len(encode_single(tok, one[k])) = b.seq_length
          /\ Padded(tok, one[1], b, 1)
      BY <3>1, <3>2, BatchIs DEF b
    <3>4. n = b.seq_length
      BY <3>2, <3>3
    <3>5. b.input_ids[1] = [j \in 1..b.seq_length |-> IF j <= n THEN row[j] ELSE tok.pad]
      BY <3>2, <3>3 DEF Padded
    <3>6. row \in Seq(I) /\ n \in Nat
      BY <3>1, EncodeSingleIs
    <3> HIDE DEF row, I
    <3>7. b.input_ids[1] = [j \in 1..n |-> row[j]]
      BY <3>4, <3>5, <3>6
    <3>8. row = [j \in 1..n |-> row[j]]
      BY <3>6
    <3> QED BY <3>1, <3>7, <3>8 DEF b, one
  <2>2. ASSUME NEW i \in Rows
        PROVE  \A j \in Len(Ids(i)) + 1..out.seq_length :
                 out.input_ids[i][j] = tok.pad /\ out.attention_mask[i][j] = 0
    BY IdsAre
  <2>3. ASSUME Rows # {} PROVE \E i \in Rows : Len(Ids(i)) = out.seq_length
    <3>1. PICK i \in Rows : TRUE
      BY <2>3
    <3>2. Loaded(tok) /\ texts \in Seq(Texts) /\ i \in DOMAIN texts /\ out = encode_batch(tok, texts)
      BY IdsAre
    <3>3. texts # <<>> /\ Rows = DOMAIN texts
      BY <3>1, <3>2 DEF Rows
    <3>4. PICK k \in DOMAIN texts : Len(encode_single(tok, texts[k])) = out.seq_length
      BY <3>2, <3>3, BatchIs
    <3>5. k \in Rows /\ Ids(k) = encode_single(tok, texts[k])
      BY <3>3, IdsAre
    <3> QED BY <3>4, <3>5
  <2> QED BY <2>1, <2>2, <2>3 DEF RowsStandAlone
<1> QED BY <1>1, InvHolds, PTL

-----------------------------------------------------------------------------
(***************************************************************************)
(* Merges in the order of the file.                                        *)
(***************************************************************************)
\* Two words together are a longer word than each.
LEMMA TwoWords ==
  ASSUME NEW x \in Words, NEW y \in Words
  PROVE  /\ x \o y \in Words /\ x \o y # x /\ x \o y # y
         /\ Len(x) \in Nat \ {0} /\ Len(y) \in Nat \ {0} /\ Len(x \o y) = Len(x) + Len(y)
         /\ (x \o y)[1] = x[1]
<1>1. x \in Seq(Byte) /\ y \in Seq(Byte) /\ x # <<>> /\ y # <<>>
  BY DEF Words, Texts
<1>2. Len(x) \in Nat \ {0} /\ Len(y) \in Nat \ {0}
  BY <1>1, EmptySeq
<1>3. x \o y \in Seq(Byte) /\ Len(x \o y) = Len(x) + Len(y) /\ (x \o y)[1] = x[1]
  BY <1>1, <1>2
<1> DEFINE xy == x \o y
<1> HIDE DEF xy
<1>4. xy \in Seq(Byte) /\ Len(xy) = Len(x) + Len(y) /\ xy[1] = x[1]
  BY <1>3 DEF xy
<1>5. xy # <<>> /\ xy # x /\ xy # y
  BY <1>2, <1>4, EmptySeq
<1> QED BY <1>1, <1>2, <1>4, <1>5 DEF xy, Words, Texts

\* A member in front of a sequence.
LEMMA InFront ==
  ASSUME NEW S, NEW x \in S, NEW r \in Seq(S)
  PROVE  /\ <<x>> \o r \in Seq(S) /\ Len(<<x>> \o r) = Len(r) + 1 /\ Len(r) \in Nat
         /\ (<<x>> \o r)[1] = x
         /\ \A k \in 1..Len(r) : (<<x>> \o r)[k + 1] = r[k]
<1> DEFINE a == <<x>>
           n == Len(r)
<1>1. a \in Seq(S) /\ Len(a) = 1 /\ a[1] = x /\ n \in Nat
  OBVIOUS
<1> HIDE DEF a, n
<1>2. /\ a \o r \in Seq(S) /\ Len(a \o r) = Len(a) + n
      /\ \A k \in 1..Len(a) + n : (a \o r)[k] = IF k <= Len(a) THEN a[k] ELSE r[k - Len(a)]
  BY <1>1, ConcatProperties DEF n
<1>3. \A k \in 1..n : k + 1 \in 1..1 + n /\ ~(k + 1 <= 1) /\ k + 1 - 1 = k
  BY <1>1
<1>4. (a \o r)[1] = x
  BY <1>1, <1>2
<1>5. \A k \in 1..n : (a \o r)[k + 1] = r[k]
  BY <1>1, <1>2, <1>3
<1>6. Len(a \o r) = n + 1
  BY <1>1, <1>2
<1> QED BY <1>1, <1>2, <1>4, <1>5, <1>6 DEF a, n

\* A sequence from i on is its member at i and the sequence behind it.
LEMMA FirstAndRest ==
  ASSUME NEW S, NEW s \in Seq(S), NEW i \in 1..Len(s)
  PROVE  SubSeq(s, i, Len(s)) = <<s[i]>> \o SubSeq(s, i + 1, Len(s))
<1> DEFINE n == Len(s)
           l == SubSeq(s, i, n)
           r == SubSeq(s, i + 1, n)
           c == <<s[i]>> \o r
<1>1. n \in Nat /\ i \in 1..n /\ s[i] \in S /\ \A k \in 1..n : s[k] \in S
  OBVIOUS
<1>2. l \in Seq(S) /\ Len(l) = n - i + 1 /\ \A k \in 1..n - i + 1 : l[k] = s[i + k - 1]
  <2> HIDE DEF n
  <2>1. i \in Int /\ n \in Int /\ i <= n /\ \A k \in i..n : s[k] \in S
    BY <1>1
  <2> QED BY <2>1, SubSeqProperties
<1>3. r \in Seq(S) /\ Len(r) = n - i /\ \A k \in 1..n - i : r[k] = s[i + k]
  <2> HIDE DEF n
  <2>1. i + 1 \in Int /\ n \in Int /\ \A k \in i + 1..n : s[k] \in S
    BY <1>1
  <2>2. /\ r \in Seq(S) /\ Len(r) = IF i + 1 <= n THEN n - (i + 1) + 1 ELSE 0
        /\ \A k \in 1..n - (i + 1) + 1 : r[k] = s[i + 1 + k - 1]
    BY <2>1, SubSeqProperties
  <2>3. n - (i + 1) + 1 = n - i /\ (~(i + 1 <= n) => n - i = 0) /\ \A k \in 1..n - i : i + 1 + k - 1 = i + k
    BY <1>1
  <2> HIDE DEF r
  <2> QED BY <2>2, <2>3
<1> HIDE DEF n, l, r
<1>4. c \in Seq(S) /\ Len(c) = n - i + 1 /\ c[1] = s[i] /\ \A k \in 1..n - i : c[k + 1] = r[k]
  <2>1. /\ c \in Seq(S) /\ Len(c) = Len(r) + 1 /\ c[1] = s[i]
        /\ \A k \in 1..Len(r) : c[k + 1] = r[k]
    <3> DEFINE x == s[i]
    <3>1. x \in S /\ r \in Seq(S)
      BY <1>1, <1>3
    <3> HIDE DEF x
    <3> QED BY <3>1, InFront DEF x
  <2> HIDE DEF c
  <2> QED BY <1>1, <1>3, <2>1
<1> HIDE DEF c
<1>5. ASSUME NEW k \in 1..n - i + 1 PROVE l[k] = c[k]
  <2>1. CASE k = 1
    <3>1. i + k - 1 = i
      BY <1>1, <2>1
    <3> QED BY <1>2, <1>4, <2>1, <3>1
  <2>2. CASE k # 1
    <3>1. k - 1 \in 1..n - i /\ (k - 1) + 1 = k /\ i + (k - 1) = i + k - 1
      BY <1>1, <2>2
    <3>2. c[k] = r[k - 1] /\ r[k - 1] = s[i + k - 1]
      BY <1>3, <1>4, <3>1
    <3> QED BY <1>2, <3>2
  <2> QED BY <2>1, <2>2
<1>6. l = c
  <2>1. Len(l) = Len(c) /\ \A k \in 1..Len(l) : l[k] = c[k]
    BY <1>2, <1>4, <1>5
  <2> QED BY <1>2, <1>4, <2>1, SeqEqual
<1> QED BY <1>6 DEF l, c, r, n

\* A merge applies at a place.
JoinsAt(symbols, pair, i) == i < Len(symbols) /\ pair = <<symbols[i], symbols[i + 1]>>

\* What the pass of one merge yields from place i on.
MergeAllAt(f, symbols, pair, i) ==
  IF i > Len(symbols) THEN <<>>
  ELSE IF JoinsAt(symbols, pair, i) THEN <<pair[1] \o pair[2]>> \o f[i + 2]
  ELSE <<symbols[i]>> \o f[i + 1]

\* What the pass of one merge does at a place depends on later places only.
LEMMA MergeAllAhead ==
  ASSUME NEW symbols \in Seq(Words), NEW pair, NEW i \in 1..Len(symbols) + 1, NEW f, NEW g,
         \A j \in i + 1..Len(symbols) + 1 : f[j] = g[j]
  PROVE  MergeAllAt(f, symbols, pair, i) = MergeAllAt(g, symbols, pair, i)
<1>1. Len(symbols) \in Nat
  OBVIOUS
<1>2. CASE i <= Len(symbols)
  <2>1. f[i + 1] = g[i + 1]
    BY <1>1, <1>2
  <2>2. i < Len(symbols) => f[i + 2] = g[i + 2]
    BY <1>1
  <2> QED BY <1>1, <2>1, <2>2 DEF MergeAllAt, JoinsAt
<1> QED BY <1>1, <1>2 DEF MergeAllAt

\* What it yields there are words.
LEMMA MergeAllAtAreWords ==
  ASSUME NEW symbols \in Seq(Words), NEW pair, NEW i \in 1..Len(symbols) + 1, NEW f,
         \A j \in i + 1..Len(symbols) + 1 : f[j] \in Seq(Words)
  PROVE  MergeAllAt(f, symbols, pair, i) \in Seq(Words)
<1>1. Len(symbols) \in Nat
  OBVIOUS
<1>2. CASE i <= Len(symbols) /\ JoinsAt(symbols, pair, i)
  <2>1. i \in 1..Len(symbols) /\ i + 1 \in 1..Len(symbols) /\ i + 2 \in i + 1..Len(symbols) + 1
    BY <1>1, <1>2 DEF JoinsAt
  <2>2. symbols[i] \in Words /\ symbols[i + 1] \in Words /\ f[i + 2] \in Seq(Words)
    BY <2>1
  <2>3. pair[1] \o pair[2] = symbols[i] \o symbols[i + 1]
    BY <1>2 DEF JoinsAt
  <2>4. symbols[i] \o symbols[i + 1] \in Words
    BY <2>2, TwoWords
  <2>5. <<symbols[i] \o symbols[i + 1]>> \o f[i + 2] \in Seq(Words)
    <3> DEFINE x == symbols[i] \o symbols[i + 1]
    <3> HIDE DEF x
    <3>1. x \in Words
      BY <2>4 DEF x
    <3>2. <<x>> \o f[i + 2] \in Seq(Words)
      BY <2>2, <3>1
    <3> QED BY <3>2 DEF x
  <2> QED BY <1>1, <1>2, <2>3, <2>5 DEF MergeAllAt
<1>3. CASE i <= Len(symbols) /\ ~JoinsAt(symbols, pair, i)
  <2>1. symbols[i] \in Words /\ f[i + 1] \in Seq(Words)
    BY <1>1, <1>3
  <2>2. <<symbols[i]>> \o f[i + 1] \in Seq(Words)
    BY <2>1
  <2> QED BY <1>1, <1>3, <2>2 DEF MergeAllAt
<1> QED BY <1>1, <1>2, <1>3 DEF MergeAllAt

\* The scan of MergeAll.
MergeAllFrom(f, symbols, pair) ==
  \A i \in 1..Len(symbols) + 1 : f[i] = MergeAllAt(f, symbols, pair, i) /\ f[i] \in Seq(Words)

\* The pass of one merge is there.
LEMMA MergeAllScan ==
  ASSUME NEW symbols \in Seq(Words), NEW pair
  PROVE  \E f : MergeAll(symbols, pair) = f[1] /\ MergeAllFrom(f, symbols, pair)
<1> DEFINE n == Len(symbols) + 1
           V == Seq(Words)
           step == [i \in 1..n |-> [f \in [1..n -> V] |-> MergeAllAt(f, symbols, pair, i)]]
           Unfolds(f) == f = [i \in 1..n |-> MergeAllAt(f, symbols, pair, i)]
           from == CHOOSE f : Unfolds(f)
<1>1. n \in Nat /\ V # {}
  <2>1. <<>> \in V
    OBVIOUS
  <2>2. Len(symbols) \in Nat
    OBVIOUS
  <2> HIDE DEF V
  <2> QED BY <2>1, <2>2
<1>2. step \in [1..n -> [[1..n -> V] -> V]]
  <2> SUFFICES ASSUME NEW i \in 1..n, NEW f \in [1..n -> V]
               PROVE  MergeAllAt(f, symbols, pair, i) \in V
    OBVIOUS
  <2>1. \A j \in i + 1..n : f[j] \in V
    BY <1>1
  <2> QED BY <2>1, MergeAllAtAreWords
<1>3. ASSUME NEW i \in 1..n, NEW f \in [1..n -> V], NEW g \in [1..n -> V],
             \A j \in i + 1..n : f[j] = g[j]
      PROVE  step[i][f] = step[i][g]
  <2>1. MergeAllAt(f, symbols, pair, i) = MergeAllAt(g, symbols, pair, i)
    BY <1>3, MergeAllAhead
  <2> QED BY <2>1
<1>4. PICK f \in [1..n -> V] : Yields(f, step, 1..n)
  <2> HIDE DEF step, n, V
  <2> QED BY <1>1, <1>2, <1>3, ForwardScan
<1>5. \A i \in 1..n : f[i] = MergeAllAt(f, symbols, pair, i)
  BY <1>4 DEF Yields
<1>6. Unfolds(from)
  <2>1. f = [i \in 1..n |-> f[i]]
    BY <1>4
  <2>2. Unfolds(f)
    BY <1>5, <2>1
  <2> QED BY <2>2
<1>7. MergeAll(symbols, pair) = from[1]
  BY DEF MergeAll, MergeAllAt, JoinsAt
<1> HIDE DEF from, step
<1>8. \A i \in 1..n : from[i] = MergeAllAt(from, symbols, pair, i)
  BY <1>6
<1>9. \A i \in 1..n : from[i] \in V
  <2> DEFINE S == {i \in 1..n : from[i] \in V}
  <2>1. ASSUME NEW i \in 1..n, \A j \in i + 1..n : j \in S PROVE i \in S
    <3>1. \A j \in i + 1..n : from[j] \in V
      BY <2>1
    <3>2. MergeAllAt(from, symbols, pair, i) \in V
      BY <3>1, MergeAllAtAreWords
    <3> QED BY <1>8, <3>2
  <2>2. \A i \in 1..n : i \in S
    <3> HIDE DEF S, n
    <3> QED BY <1>1, <2>1, FromTheEnd
  <2> QED BY <2>2
<1> QED BY <1>7, <1>8, <1>9 DEF MergeAllFrom

\* It yields words.
LEMMA MergeAllIn ==
  ASSUME NEW symbols \in Seq(Words), NEW pair
  PROVE  MergeAll(symbols, pair) \in Seq(Words)
<1>1. PICK f : MergeAll(symbols, pair) = f[1] /\ MergeAllFrom(f, symbols, pair)
  BY MergeAllScan
<1> QED BY <1>1 DEF MergeAllFrom

\* A pair that is nowhere changes nothing.
LEMMA MergeAllNowhere ==
  ASSUME NEW symbols \in Seq(Words), NEW pair,
         \A i \in 1..Len(symbols) : ~JoinsAt(symbols, pair, i)
  PROVE  MergeAll(symbols, pair) = symbols
<1>1. PICK f : MergeAll(symbols, pair) = f[1] /\ MergeAllFrom(f, symbols, pair)
  BY MergeAllScan
<1> DEFINE n == Len(symbols)
           rest(i) == SubSeq(symbols, i, n)
           S == {i \in 1..n + 1 : f[i] = rest(i)}
<1>2. n \in Nat /\ n + 1 \in Nat
  OBVIOUS
<1>3. ASSUME NEW i \in 1..n + 1, \A j \in i + 1..n + 1 : j \in S PROVE i \in S
  <2>1. f[i] = MergeAllAt(f, symbols, pair, i)
    BY <1>1 DEF MergeAllFrom
  <2>2. CASE i = n + 1
    <3>1. f[i] = <<>>
      BY <1>2, <2>1, <2>2 DEF MergeAllAt
    <3>2. rest(i) = <<>>
      BY <1>2, <2>2, SubSeqEmpty
    <3> QED BY <3>1, <3>2
  <2>3. CASE i # n + 1
    <3>1. i \in 1..n /\ i + 1 \in i + 1..n + 1
      BY <1>2, <2>3
    <3>2. f[i] = <<symbols[i]>> \o f[i + 1]
      BY <1>2, <2>1, <3>1 DEF MergeAllAt
    <3>3. f[i + 1] = rest(i + 1)
      BY <1>3, <3>1
    <3>4. rest(i) = <<symbols[i]>> \o rest(i + 1)
      BY <3>1, FirstAndRest
    <3> QED BY <3>2, <3>3, <3>4
  <2> QED BY <2>2, <2>3
<1>4. \A i \in 1..n + 1 : i \in S
  <2> HIDE DEF S, n
  <2> QED BY <1>2, <1>3, FromTheEnd
<1>5. 1 \in S
  BY <1>2, <1>4
<1>6. rest(1) = symbols
  BY SubSeqFull
<1> QED BY <1>1, <1>5, <1>6

\* To merge the first of the places of a pair, and then all, is to merge all.
LEMMA MergeAllFirst ==
  ASSUME NEW symbols \in Seq(Words), NEW pair, NEW i \in 1..Len(symbols) - 1,
         JoinsAt(symbols, pair, i), \A j \in 1..i - 1 : ~JoinsAt(symbols, pair, j)
  PROVE  MergeAll(MergedAt(symbols, i), pair) = MergeAll(symbols, pair)
<1> DEFINE n == Len(symbols)
           m == MergedAt(symbols, i)
           x == symbols[i]
           y == symbols[i + 1]
<1>1. n \in Nat /\ i \in 1..n - 1 /\ i \in 1..n /\ i + 1 \in 1..n /\ x \in Words /\ y \in Words
  OBVIOUS
<1>2. /\ m \in Seq(Words) /\ Len(m) = n - 1
      /\ \A k \in 1..i - 1 : m[k] = symbols[k]
      /\ m[i] = x \o y
      /\ \A k \in i + 1..n - 1 : m[k] = symbols[k + 1]
  BY MergedAtIs
<1>3. pair = <<x, y>> /\ pair[1] = x /\ pair[2] = y
  BY DEF JoinsAt
<1>4. x \o y # x /\ x \o y # y
  BY <1>1, TwoWords
<1> HIDE DEF m, x, y
<1>5. PICK f : MergeAll(symbols, pair) = f[1] /\ MergeAllFrom(f, symbols, pair)
  BY MergeAllScan
<1>6. PICK g : MergeAll(m, pair) = g[1] /\ MergeAllFrom(g, m, pair)
  BY <1>2, MergeAllScan
<1>7. \A j \in 1..n + 1 : f[j] = MergeAllAt(f, symbols, pair, j)
  BY <1>5 DEF MergeAllFrom
<1>8. \A j \in 1..n : g[j] = MergeAllAt(g, m, pair, j)
  BY <1>1, <1>2, <1>6 DEF MergeAllFrom
<1>9. \A j \in i + 1..n : g[j] = f[j + 1]
  <2> DEFINE S == {j \in 1..n : j > i => g[j] = f[j + 1]}
  <2>1. ASSUME NEW j \in 1..n, \A k \in j + 1..n : k \in S PROVE j \in S
    <3> SUFFICES ASSUME j > i PROVE g[j] = f[j + 1]
      OBVIOUS
    <3>1. g[j] = MergeAllAt(g, m, pair, j) /\ f[j + 1] = MergeAllAt(f, symbols, pair, j + 1)
      BY <1>1, <1>7, <1>8
    <3>2. CASE j = n
      BY <1>1, <1>2, <3>1, <3>2 DEF MergeAllAt
    <3>3. CASE j # n
      <4>1. j \in i + 1..n - 1 /\ j + 1 \in j + 1..n /\ j <= n - 1 /\ j + 1 <= n
        BY <1>1, <3>3
      <4>2. m[j] = symbols[j + 1] /\ (j < n - 1 => m[j + 1] = symbols[j + 2])
        <5>1. j < n - 1 => j + 1 \in i + 1..n - 1 /\ j + 1 + 1 = j + 2
          BY <1>1, <4>1
        <5> QED BY <1>2, <4>1, <5>1
      <4>3. JoinsAt(m, pair, j) <=> JoinsAt(symbols, pair, j + 1)
        <5>1. j < n - 1 <=> j + 1 < n
          BY <1>1, <4>1
        <5>2. j + 1 + 1 = j + 2
          BY <4>1
        <5> QED BY <1>2, <4>2, <5>1, <5>2 DEF JoinsAt
      <4>4. g[j + 1] = f[j + 2]
        <5>1. j + 1 \in S /\ j + 1 > i /\ j + 1 + 1 = j + 2
          BY <1>1, <2>1, <4>1
        <5> QED BY <5>1
      <4>5. JoinsAt(m, pair, j) => g[j + 2] = f[j + 3]
        <5>1. j < n - 1 => j + 2 \in j + 1..n /\ j + 2 > i /\ j + 2 + 1 = j + 3
          BY <1>1, <4>1
        <5>2. j < n - 1 => j + 2 \in S
          BY <2>1, <5>1
        <5> QED BY <1>2, <5>1, <5>2 DEF JoinsAt
      <4>6. g[j] = IF JoinsAt(m, pair, j) THEN <<pair[1] \o pair[2]>> \o g[j + 2]
                   ELSE <<m[j]>> \o g[j + 1]
        BY <1>2, <3>1, <4>1 DEF MergeAllAt
      <4>7. f[j + 1] = IF JoinsAt(symbols, pair, j + 1) THEN <<pair[1] \o pair[2]>> \o f[j + 3]
                       ELSE <<symbols[j + 1]>> \o f[j + 2]
        <5>1. j + 1 + 1 = j + 2 /\ j + 1 + 2 = j + 3 /\ ~(j + 1 > n)
          BY <1>1, <4>1
        <5> QED BY <3>1, <5>1 DEF MergeAllAt
      <4> QED BY <4>2, <4>3, <4>4, <4>5, <4>6, <4>7
    <3> QED BY <3>2, <3>3
  <2>2. \A j \in 1..n : j \in S
    <3> HIDE DEF S, n
    <3> QED BY <1>1, <2>1, FromTheEnd
  <2>3. \A j \in i + 1..n : j \in 1..n /\ j > i
    BY <1>1
  <2> QED BY <2>2, <2>3
<1>10. g[i] = f[i]
  <2>1. ~JoinsAt(m, pair, i)
    BY <1>2, <1>3, <1>4 DEF JoinsAt
  <2>2. g[i] = <<x \o y>> \o g[i + 1]
    <3>1. i \in 1..n /\ ~(i > n - 1)
      BY <1>1
    <3> QED BY <1>2, <1>8, <2>1, <3>1 DEF MergeAllAt
  <2>3. f[i] = <<x \o y>> \o f[i + 2]
    <3>1. i \in 1..n + 1 /\ ~(i > n)
      BY <1>1
    <3> QED BY <1>3, <1>7, <3>1 DEF MergeAllAt
  <2>4. g[i + 1] = f[i + 2]
    <3>1. i + 1 \in i + 1..n /\ i + 1 + 1 = i + 2
      BY <1>1
    <3> QED BY <1>9, <3>1
  <2> QED BY <2>2, <2>3, <2>4
<1>11. \A j \in 1..i : g[j] = f[j]
  <2> DEFINE S == {j \in 1..i : g[j] = f[j]}
  <2>1. ASSUME NEW j \in 1..i, \A k \in j + 1..i : k \in S PROVE j \in S
    <3>1. CASE j = i
      BY <1>10, <3>1
    <3>2. CASE j # i
      <4>1. j \in 1..i - 1 /\ j \in 1..n /\ j \in 1..n + 1 /\ j + 1 \in j + 1..i
            /\ ~(j > n) /\ ~(j > n - 1) /\ j < n
        BY <1>1, <3>2
      <4>2. m[j] = symbols[j] /\ g[j + 1] = f[j + 1]
        BY <1>2, <2>1, <4>1
      <4>3. ~JoinsAt(symbols, pair, j)
        BY <4>1
      <4>4. ~JoinsAt(m, pair, j)
        <5>1. CASE j + 1 = i
          <6>1. m[j + 1] # pair[2]
            BY <1>2, <1>3, <1>4, <5>1
          <6>2. pair # <<m[j], m[j + 1]>>
            BY <6>1
          <6> QED BY <6>2 DEF JoinsAt
        <5>2. CASE j + 1 # i
          <6>1. m[j + 1] = symbols[j + 1]
            BY <1>2, <4>1, <5>2
          <6> QED BY <4>1, <4>2, <4>3, <6>1 DEF JoinsAt
        <5> QED BY <5>1, <5>2
      <4>5. g[j] = <<symbols[j]>> \o g[j + 1]
        BY <1>2, <1>8, <4>1, <4>2, <4>4 DEF MergeAllAt
      <4>6. f[j] = <<symbols[j]>> \o f[j + 1]
        BY <1>7, <4>1, <4>3 DEF MergeAllAt
      <4> QED BY <4>2, <4>5, <4>6
    <3> QED BY <3>1, <3>2
  <2>2. \A j \in 1..i : j \in S
    <3> HIDE DEF S
    <3>1. i \in Nat
      BY <1>1
    <3> QED BY <2>1, <3>1, FromTheEnd
  <2> QED BY <2>2
<1>12. g[1] = f[1]
  BY <1>1, <1>11
<1> QED BY <1>5, <1>6, <1>12 DEF m

\* Every symbol but the last has the bytes its first byte claims.
Filled(symbols) ==
  \A i \in 1..Len(symbols) - 1 : CharBytes(symbols[i][1]) <= Len(symbols[i])

\* The characters of a word are filled.
LEMMA FilledAtFirst ==
  ASSUME NEW word \in Texts
  PROVE  Filled(Symbols(word))
<1>1. PICK f : Symbols(word) = f[1] /\ SymbolsFrom(f, word)
  BY SymbolsScan
<1> DEFINE n == Len(word)
           S == {i \in 1..n + 1 : Filled(f[i])}
<1>2. n \in Nat /\ n + 1 \in Nat
  BY DEF Texts
<1>3. ASSUME NEW i \in 1..n + 1, \A j \in i + 1..n + 1 : j \in S PROVE i \in S
  <2>1. f[i] = SymbolsAt(f, word, i)
    BY <1>1 DEF SymbolsFrom
  <2>2. CASE i = n + 1
    <3>1. f[i] = <<>> /\ Len(<<>>) = 0
      BY <1>2, <2>1, <2>2 DEF SymbolsAt
    <3> QED BY <3>1 DEF Filled
  <2>3. CASE i # n + 1
    <3> DEFINE e == CharEnd(word, i)
               c == SubSeq(word, i, e)
               r == f[e + 1]
    <3>1. i \in 1..n /\ e \in i..n
      BY <1>2, <2>3, CharEndIn
    <3>2. c \in Words /\ Len(c) = e - i + 1 /\ c[1] = word[i]
      <4>1. c \in Words /\ Len(c) = e - i + 1 /\ \A k \in 1..e - i + 1 : c[k] = word[i + k - 1]
        BY <3>1, PartIsWord
      <4>2. 1 \in 1..e - i + 1 /\ i + 1 - 1 = i
        BY <1>2, <3>1
      <4> QED BY <4>1, <4>2
    <3>3. f[i] = <<c>> \o r
      BY <1>2, <2>1, <3>1 DEF SymbolsAt
    <3>4. e < n => e = i + CharBytes(word[i]) - 1 /\ CharBytes(word[i]) \in Nat
      <4>1. CharBytes(word[i]) \in 1..4
        BY BytesAssumption DEF CharBytes
      <4> QED BY <1>2, <3>1, <4>1 DEF CharEnd
    <3> HIDE DEF e, c
    <3>5. e + 1 \in i + 1..n + 1 /\ r \in Seq(Words) /\ Filled(r)
      <4>1. e + 1 \in i + 1..n + 1
        BY <1>2, <3>1
      <4>2. r \in Seq(Words)
        BY <1>1, <1>2, <3>1, <4>1 DEF SymbolsFrom
      <4> QED BY <1>3, <4>1, <4>2
    <3>6. e = n => r = <<>>
      <4>1. r = SymbolsAt(f, word, e + 1)
        BY <1>1, <1>2, <3>1, <3>5 DEF SymbolsFrom
      <4> QED BY <1>2, <4>1 DEF SymbolsAt
    <3> HIDE DEF r
    <3> DEFINE s == <<c>> \o r
    <3>7. Len(s) = Len(r) + 1 /\ Len(r) \in Nat /\ s[1] = c /\ \A k \in 1..Len(r) : s[k + 1] = r[k]
      BY <3>2, <3>5, InFront
    <3> HIDE DEF s
    <3>8. ASSUME NEW k \in 1..Len(s) - 1 PROVE CharBytes(s[k][1]) <= Len(s[k])
      <4>1. CASE k = 1
        <5>1. Len(r) # 0
          BY <3>7, <4>1
        <5>2. e < n
          BY <1>2, <3>1, <3>6, <5>1
        <5>3. CharBytes(c[1]) <= Len(c)
          BY <1>2, <3>1, <3>2, <3>4, <5>2
        <5> QED BY <3>7, <4>1, <5>3
      <4>2. CASE k # 1
        <5>1. k - 1 \in 1..Len(r) - 1 /\ k - 1 \in 1..Len(r) /\ (k - 1) + 1 = k
          BY <3>7, <4>2
        <5>2. s[k] = r[k - 1]
          BY <3>7, <5>1
        <5> QED BY <3>5, <5>1, <5>2 DEF Filled
      <4> QED BY <4>1, <4>2
    <3> QED BY <3>3, <3>8 DEF Filled, s
  <2> QED BY <2>2, <2>3
<1>4. \A i \in 1..n + 1 : i \in S
  <2> HIDE DEF S, n
  <2> QED BY <1>2, <1>3, FromTheEnd
<1> QED BY <1>1, <1>2, <1>4

\* A merge leaves the symbols filled.
LEMMA FilledAfterMerge ==
  ASSUME NEW symbols \in Seq(Words), Filled(symbols), NEW i \in 1..Len(symbols) - 1
  PROVE  Filled(MergedAt(symbols, i))
<1> DEFINE n == Len(symbols)
           m == MergedAt(symbols, i)
           x == symbols[i]
           y == symbols[i + 1]
<1>1. n \in Nat /\ i \in 1..n - 1 /\ x \in Words /\ y \in Words
  OBVIOUS
<1>2. /\ Len(m) = n - 1
      /\ \A k \in 1..i - 1 : m[k] = symbols[k]
      /\ m[i] = x \o y
      /\ \A k \in i + 1..n - 1 : m[k] = symbols[k + 1]
  BY MergedAtIs
<1>3. Len(x \o y) = Len(x) + Len(y) /\ (x \o y)[1] = x[1] /\ Len(x) \in Nat /\ Len(y) \in Nat
  BY <1>1, TwoWords
<1>4. \A k \in 1..n - 1 : CharBytes(symbols[k][1]) <= Len(symbols[k])
  BY DEF Filled
<1>5. CharBytes(x[1]) <= Len(x) /\ CharBytes(x[1]) \in Int
  <2>1. CharBytes(x[1]) \in 1..4
    BY BytesAssumption DEF CharBytes
  <2> QED BY <1>1, <1>4, <2>1
<1> HIDE DEF m, x, y, n
<1>6. ASSUME NEW k \in 1..n - 2 PROVE CharBytes(m[k][1]) <= Len(m[k])
  <2>1. CASE k < i
    <3>1. k \in 1..i - 1 /\ k \in 1..n - 1
      BY <1>1, <2>1
    <3> QED BY <1>2, <1>4, <3>1
  <2>2. CASE k = i
    <3>1. m[k] = x \o y
      BY <1>2, <2>2
    <3>2. CharBytes((x \o y)[1]) = CharBytes(x[1])
      BY <1>3
    <3>3. CharBytes(x[1]) <= Len(x \o y)
      BY <1>3, <1>5
    <3> QED BY <3>1, <3>2, <3>3
  <2>3. CASE k > i
    <3>1. k \in i + 1..n - 1 /\ k + 1 \in 1..n - 1
      BY <1>1, <2>3
    <3> QED BY <1>2, <1>4, <3>1
  <2> QED BY <1>1, <2>1, <2>2, <2>3
<1>7. Len(m) - 1 = n - 2
  BY <1>1, <1>2
<1> QED BY <1>6, <1>7 DEF Filled, m

\* What a merge makes is no single character.
LEMMA NoSingleCharacter ==
  ASSUME NEW x \in Words, NEW y \in Words, CharBytes(x[1]) <= Len(x)
  PROVE  Len(Symbols(x \o y)) # 1
<1> DEFINE w == x \o y
           n == Len(w)
<1>1. /\ w \in Texts /\ w[1] = x[1] /\ n = Len(x) + Len(y)
      /\ Len(x) \in Nat \ {0} /\ Len(y) \in Nat \ {0} /\ n \in Nat
  <2>1. w \in Words /\ w[1] = x[1] /\ n = Len(x) + Len(y) /\ Len(x) \in Nat \ {0} /\ Len(y) \in Nat \ {0}
    BY TwoWords
  <2> QED BY <2>1 DEF Words
<1> HIDE DEF w
<1>2. PICK f : Symbols(w) = f[1] /\ SymbolsFrom(f, w)
  BY <1>1, SymbolsScan
<1> DEFINE e == CharEnd(w, 1)
<1>3. e \in 1..n - 1
  <2>1. CharBytes(w[1]) \in 1..4
    BY BytesAssumption DEF CharBytes
  <2>2. 1 + CharBytes(w[1]) - 1 = CharBytes(w[1]) /\ CharBytes(w[1]) <= n /\ CharBytes(w[1]) <= n - 1
    BY <1>1, <2>1
  <2> QED BY <1>1, <2>1, <2>2 DEF CharEnd
<1> DEFINE e2 == CharEnd(w, e + 1)
<1>4. e2 \in e + 1..n /\ e + 1 \in 1..n
  <2>1. e + 1 \in 1..n
    BY <1>1, <1>3
  <2> QED BY <1>1, <2>1, CharEndIn
<1>5. f[1] = <<SubSeq(w, 1, e)>> \o f[e + 1] /\ SubSeq(w, 1, e) \in Words
  <2>1. 1 \in 1..n + 1 /\ ~(1 > n) /\ 1 \in 1..n /\ e \in 1..n
    BY <1>1, <1>3
  <2>2. SubSeq(w, 1, e) \in Words
    BY <1>1, <2>1, PartIsWord
  <2> QED BY <1>2, <2>1, <2>2 DEF SymbolsFrom, SymbolsAt
<1>6. f[e + 1] = <<SubSeq(w, e + 1, e2)>> \o f[e2 + 1] /\ SubSeq(w, e + 1, e2) \in Words
  <2>1. e + 1 \in 1..n + 1 /\ ~(e + 1 > n)
    BY <1>1, <1>4
  <2>2. SubSeq(w, e + 1, e2) \in Words
    BY <1>1, <1>4, PartIsWord
  <2> QED BY <1>2, <2>1, <2>2 DEF SymbolsFrom, SymbolsAt
<1>7. f[e + 1] \in Seq(Words) /\ f[e2 + 1] \in Seq(Words)
  <2>1. e + 1 \in 1..n + 1 /\ e2 + 1 \in 1..n + 1
    BY <1>1, <1>3, <1>4
  <2> QED BY <1>2, <2>1 DEF SymbolsFrom
<1> HIDE DEF e, e2, n
<1>8. Len(f[e + 1]) = Len(f[e2 + 1]) + 1 /\ Len(f[e2 + 1]) \in Nat
  BY <1>6, <1>7, InFront
<1>9. Len(f[1]) = Len(f[e + 1]) + 1
  BY <1>5, <1>7, InFront
<1>10. Len(f[1]) # 1
  BY <1>8, <1>9
<1> QED BY <1>2, <1>10 DEF w

-----------------------------------------------------------------------------
\* No place of symbols is one of the first r merges.
NoneUpTo(t, symbols, r) ==
  \A q \in 1..r : \A i \in 1..Len(symbols) : ~JoinsAt(symbols, t.merges[q], i)

\* What training means for one half of a merge, and for two merges.
LEMMA TrainedIs ==
  ASSUME NEW t, t.merges \in Seq(Pairs), Trained(t), NEW r \in 1..Len(t.merges)
  PROVE  /\ \A half \in {1, 2} :
              \/ Len(Symbols(t.merges[r][half])) = 1
              \/ \E q \in 1..r - 1 : t.merges[r][half] = t.merges[q][1] \o t.merges[q][2]
         /\ \A q \in 1..Len(t.merges) :
              t.merges[q][1] \o t.merges[q][2] = t.merges[r][1] \o t.merges[r][2] => q = r
<1>1. r \in DOMAIN t.merges /\ DOMAIN t.merges = 1..Len(t.merges)
  OBVIOUS
<1>2. \A half \in {1, 2} :
        LET h == t.merges[r][half]
        IN  Len(Symbols(h)) = 1 \/ \E q \in 1..r - 1 : h = t.merges[q][1] \o t.merges[q][2]
  BY <1>1 DEF Trained
<1>3. \A q \in 1..Len(t.merges) :
        t.merges[q][1] \o t.merges[q][2] = t.merges[r][1] \o t.merges[r][2] => q = r
  BY <1>1 DEF Trained
<1> QED BY <1>2, <1>3

\* The symbol a merge makes is no half of an earlier merge.
LEMMA MadeLater ==
  ASSUME NEW t, t.merges \in Seq(Pairs), Trained(t),
         NEW b \in 1..Len(t.merges), NEW q \in 1..b - 1, NEW half \in {1, 2},
         NEW x \in Words, NEW y \in Words, t.merges[b] = <<x, y>>, CharBytes(x[1]) <= Len(x)
  PROVE  t.merges[q][half] # x \o y
<1> SUFFICES ASSUME t.merges[q][half] = x \o y PROVE FALSE
  OBVIOUS
<1>1. Len(t.merges) \in Nat /\ q \in 1..Len(t.merges)
  OBVIOUS
<1>2. Len(Symbols(x \o y)) # 1
  BY NoSingleCharacter
<1>3. PICK p \in 1..q - 1 : x \o y = t.merges[p][1] \o t.merges[p][2]
  <2>1. \/ Len(Symbols(t.merges[q][half])) = 1
        \/ \E p \in 1..q - 1 : t.merges[q][half] = t.merges[p][1] \o t.merges[p][2]
    BY <1>1, TrainedIs
  <2> DEFINE made == x \o y
             h == t.merges[q][half]
  <2>2. h = made /\ Len(Symbols(made)) # 1
    BY <1>2
  <2> HIDE DEF made, h
  <2>3. \E p \in 1..q - 1 : h = t.merges[p][1] \o t.merges[p][2]
    BY <2>1, <2>2 DEF h
  <2> QED BY <2>2, <2>3 DEF made
<1>4. p \in 1..Len(t.merges) /\ p # b
  BY <1>1
<1>5. t.merges[b][1] \o t.merges[b][2] = x \o y
  OBVIOUS
<1> QED BY <1>3, <1>4, <1>5, TrainedIs

\* A merge brings no earlier one back.
LEMMA NoneComesBack ==
  ASSUME NEW t, t.merges \in Seq(Pairs), Trained(t), NEW symbols \in Seq(Words), Filled(symbols),
         NEW b \in 1..Len(t.merges), NoneUpTo(t, symbols, b - 1),
         NEW i \in 1..Len(symbols) - 1, JoinsAt(symbols, t.merges[b], i)
  PROVE  NoneUpTo(t, MergedAt(symbols, i), b - 1)
<1> DEFINE n == Len(symbols)
           m == MergedAt(symbols, i)
           x == symbols[i]
           y == symbols[i + 1]
<1>1. n \in Nat /\ i \in 1..n - 1 /\ x \in Words /\ y \in Words
  OBVIOUS
<1>2. /\ Len(m) = n - 1
      /\ \A k \in 1..i - 1 : m[k] = symbols[k]
      /\ m[i] = x \o y
      /\ \A k \in i + 1..n - 1 : m[k] = symbols[k + 1]
  BY MergedAtIs
<1>3. CharBytes(x[1]) <= Len(x)
  BY DEF Filled
<1>4. t.merges[b] = <<x, y>>
  BY DEF JoinsAt
<1> HIDE DEF m, x, y, n
<1> SUFFICES ASSUME NEW q \in 1..b - 1, NEW j \in 1..Len(m), JoinsAt(m, t.merges[q], j)
             PROVE  FALSE
  BY DEF NoneUpTo, m
<1>5. t.merges[q] = <<m[j], m[j + 1]>> /\ j \in 1..n - 2
  BY <1>1, <1>2 DEF JoinsAt
<1>6. t.merges[q][1] # x \o y /\ t.merges[q][2] # x \o y
  BY <1>1, <1>3, <1>4, MadeLater
<1>7. j # i /\ j + 1 # i
  <2>1. t.merges[q][1] = m[j] /\ t.merges[q][2] = m[j + 1]
    BY <1>5
  <2>2. m[j] # x \o y /\ m[j + 1] # x \o y
    BY <1>6, <2>1
  <2> QED BY <1>2, <2>2
<1>8. \E k \in 1..n - 1 : m[j] = symbols[k] /\ m[j + 1] = symbols[k + 1]
  <2>1. CASE j < i
    <3>1. j \in 1..i - 1 /\ j + 1 \in 1..i - 1 /\ j \in 1..n - 1
      BY <1>1, <1>5, <1>7, <2>1
    <3> QED BY <1>2, <3>1
  <2>2. CASE j > i
    <3>1. j \in i + 1..n - 1 /\ j + 1 \in i + 1..n - 1 /\ j + 1 \in 1..n - 1
      BY <1>1, <1>5, <2>2
    <3> QED BY <1>2, <3>1
  <2> QED BY <1>1, <1>5, <1>7, <2>1, <2>2
<1>9. PICK k \in 1..n - 1 : m[j] = symbols[k] /\ m[j + 1] = symbols[k + 1]
  BY <1>8
<1>10. JoinsAt(symbols, t.merges[q], k) /\ k \in 1..n
  BY <1>1, <1>5, <1>9 DEF JoinsAt, n
<1> QED BY <1>10 DEF NoneUpTo, n

-----------------------------------------------------------------------------
\* What is left of a word after each merge of the file.
FileRounds(F, t, symbols) ==
  /\ F[0] = symbols
  /\ \A r \in 0..Len(t.merges) :
       /\ F[r] \in Seq(Words)
       /\ r # 0 => F[r] = MergeAll(F[r - 1], t.merges[r])

\* The merges in the order of the file are there, one pass after the other.
LEMMA FileScan ==
  ASSUME NEW t, t.merges \in Seq(Pairs), NEW word \in Texts
  PROVE  \E F : InFileOrder(t, word) = F[Len(t.merges)] /\ FileRounds(F, t, Symbols(word))
<1> DEFINE symbols == Symbols(word)
           n == Len(t.merges)
           D == 0..n
           V == Seq(Words)
           At(f, r) == IF r = 0 THEN symbols ELSE MergeAll(f[r - 1], t.merges[r])
           rank == [i \in D |-> i]
           step == [i \in D |-> [f \in [D -> V] |-> At(f, i)]]
           Unfolds(f) == f = [i \in D |-> At(f, i)]
           after == CHOOSE f : Unfolds(f)
<1>1. n \in Nat /\ symbols \in V /\ V # {}
  <2>1. symbols \in V
    BY SymbolsAre
  <2> HIDE DEF V
  <2> QED BY <2>1
<1>2. Ranked(rank, D, n)
  BY <1>1 DEF Ranked
<1>3. \A i \in D : i = 0 \/ i - 1 \in D
  BY <1>1
<1> HIDE DEF n, symbols
<1>4. step \in [D -> [[D -> V] -> V]]
  <2> SUFFICES ASSUME NEW i \in D, NEW f \in [D -> V] PROVE At(f, i) \in V
    OBVIOUS
  <2>1. i # 0 => f[i - 1] \in V
    BY <1>3
  <2>2. i # 0 => MergeAll(f[i - 1], t.merges[i]) \in V
    BY <2>1, MergeAllIn
  <2> HIDE DEF D
  <2> QED BY <1>1, <2>2
<1>5. LooksAhead(step, D, V, rank)
  <2> SUFFICES ASSUME NEW i \in D, NEW f \in [D -> V], NEW g \in [D -> V],
                      \A e \in D : rank[e] < rank[i] => f[e] = g[e]
               PROVE  At(f, i) = At(g, i)
    BY DEF LooksAhead
  <2>1. i # 0 => rank[i - 1] < rank[i]
    BY <1>1, <1>3
  <2> HIDE DEF D, rank
  <2>2. i # 0 => f[i - 1] = g[i - 1]
    BY <1>3, <2>1
  <2> QED BY <2>2
<1> HIDE DEF step, rank, V
<1>6. PICK f \in [D -> V] : Yields(f, step, D)
  <2> HIDE DEF D
  <2> QED BY <1>1, <1>2, <1>4, <1>5, Scan
<1>7. \A i \in D : f[i] = At(f, i)
  BY <1>6 DEF Yields, step
<1>8. Unfolds(after)
  <2>1. f = [i \in D |-> f[i]]
    BY <1>6
  <2> HIDE DEF D, At
  <2>2. Unfolds(f)
    BY <1>7, <2>1
  <2> QED BY <2>2
<1>9. InFileOrder(t, word) = after[n]
  BY DEF InFileOrder, n, symbols
<1> HIDE DEF after, At, D
<1>10. \A i \in D : after[i] = At(after, i)
  BY <1>8
<1>11. ASSUME NEW i \in D, \A e \in D : rank[e] < rank[i] => after[e] = f[e]
       PROVE  after[i] = f[i]
  <2>1. i # 0 => i - 1 \in D /\ rank[i - 1] < rank[i]
    BY <1>1, <1>3 DEF rank, D
  <2>2. i # 0 => after[i - 1] = f[i - 1]
    BY <1>11, <2>1
  <2>3. At(after, i) = At(f, i)
    BY <2>2 DEF At
  <2> QED BY <1>7, <1>10, <2>3
<1>12. \A i \in D : after[i] = f[i]
  <2>1. Spreads(after, f, D, rank)
    BY <1>11 DEF Spreads
  <2> QED BY <1>2, <2>1, SameScan
<1>13. \A i \in D : after[i] \in V
  BY <1>6, <1>12
<1>14. after[0] = symbols
  <2>1. 0 \in D
    BY <1>1 DEF D
  <2> QED BY <1>10, <2>1 DEF At
<1>15. \A i \in D : i # 0 => after[i] = MergeAll(after[i - 1], t.merges[i])
  BY <1>10 DEF At
<1> QED BY <1>9, <1>13, <1>14, <1>15 DEF FileRounds, n, D, V, symbols

\* Symbols lie between the merges r and r + 1 of the file: nothing of the first
\* r is left to do in them, and the rest of r + 1 makes what the file makes.
Between(F, t, symbols, r) ==
  /\ r \in 0..Len(t.merges)
  /\ NoneUpTo(t, symbols, r)
  /\ r # Len(t.merges) => MergeAll(symbols, t.merges[r + 1]) = F[r + 1]
  /\ r = Len(t.merges) => symbols = F[r]

\* They also lie behind later merges that apply nowhere.
LEMMA Advances ==
  ASSUME NEW F, NEW t, t.merges \in Seq(Pairs), NEW start, FileRounds(F, t, start),
         NEW symbols \in Seq(Words), NEW r, Between(F, t, symbols, r),
         NEW k \in r..Len(t.merges), NoneUpTo(t, symbols, k)
  PROVE  Between(F, t, symbols, k)
<1> DEFINE n == Len(t.merges)
           S == {j \in 0..n : j >= r /\ j <= k => Between(F, t, symbols, j)}
<1>1. n \in Nat /\ r \in 0..n /\ k \in r..n
  BY DEF Between
<1> HIDE DEF n
<1>2. ASSUME NEW j \in 0..n, \A i \in 0..j - 1 : i \in S PROVE j \in S
  <2> SUFFICES ASSUME j >= r, j <= k, j # r PROVE Between(F, t, symbols, j)
    OBVIOUS
  <2>1. j - 1 \in 0..j - 1 /\ j - 1 >= r /\ j - 1 <= k /\ j - 1 \in 0..n /\ j - 1 # n /\ (j - 1) + 1 = j
    BY <1>1
  <2>2. Between(F, t, symbols, j - 1)
    BY <1>2, <2>1
  <2>3. MergeAll(symbols, t.merges[j]) = F[j]
    BY <2>1, <2>2 DEF Between, n
  <2>4. \A q \in 1..j : q \in 1..k
    BY <1>1
  <2>5. NoneUpTo(t, symbols, j)
    BY <2>4 DEF NoneUpTo
  <2>6. MergeAll(symbols, t.merges[j]) = symbols
    <3>1. j \in 1..j
      BY <1>1
    <3> QED BY <2>5, <3>1, MergeAllNowhere DEF NoneUpTo
  <2>7. ASSUME j # n PROVE MergeAll(symbols, t.merges[j + 1]) = F[j + 1]
    <3>1. j + 1 \in 0..n /\ j + 1 # 0 /\ (j + 1) - 1 = j
      BY <1>1, <2>7
    <3>2. F[j + 1] = MergeAll(F[j], t.merges[j + 1])
      BY <3>1 DEF FileRounds, n
    <3> QED BY <2>3, <2>6, <3>2
  <2> QED BY <2>3, <2>5, <2>6, <2>7 DEF Between, n
<1>3. \A j \in 0..n : j \in S
  <2> HIDE DEF S
  <2> QED BY <1>1, <1>2, FromTheStart
<1>4. k \in 0..n /\ k >= r /\ k <= k
  BY <1>1
<1> QED BY <1>3, <1>4

\* A place where a merge applies has the merge's rank.
LEMMA RankOfMerge ==
  ASSUME NEW t, t.merges \in Seq(Pairs), Trained(t), NEW symbols \in Seq(Words),
         NEW q \in 1..Len(t.merges), NEW i \in 1..Len(symbols), JoinsAt(symbols, t.merges[q], i)
  PROVE  i \in Mergeable(t, symbols) /\ RankAt(t, symbols, i) = q
<1> DEFINE pair == <<symbols[i], symbols[i + 1]>>
           r == Rank(t, pair)
<1>1. t.merges[q] = pair /\ i \in 1..Len(symbols) - 1
  BY DEF JoinsAt
<1> HIDE DEF pair
<1>2. /\ r \in 1..Len(t.merges) /\ t.merges[r] = pair
  BY <1>1, RankIs
<1>3. t.merges[r][1] \o t.merges[r][2] = t.merges[q][1] \o t.merges[q][2]
  BY <1>1, <1>2
<1>4. r = q
  BY <1>2, <1>3, TrainedIs
<1>5. r # None
  BY <1>2, NoneAssumption
<1> QED BY <1>1, <1>4, <1>5 DEF Mergeable, RankAt, pair

\* A round of the loop goes on in the order of the file.
LEMMA RoundInOrder ==
  ASSUME NEW F, NEW t, t.merges \in Seq(Pairs), Trained(t), NEW start, FileRounds(F, t, start),
         NEW symbols \in Seq(Words), Filled(symbols), NEW r, Between(F, t, symbols, r),
         Mergeable(t, symbols) # {}
  PROVE  \E b : Between(F, t, MergeBest(t, symbols), b)
<1> DEFINE i == Best(t, symbols)
           b == RankAt(t, symbols, i)
           n == Len(t.merges)
<1>1. /\ i \in Mergeable(t, symbols) /\ i \in 1..Len(symbols) - 1
      /\ \A j \in Mergeable(t, symbols) : b <= RankAt(t, symbols, j)
      /\ \A j \in Mergeable(t, symbols) : RankAt(t, symbols, j) = b => i <= j
  BY BestIs
<1>2. MergeBest(t, symbols) = MergedAt(symbols, i)
  BY DEF MergeBest
<1> HIDE DEF i
<1>3. n \in Nat /\ b \in 1..n /\ t.merges[b] = <<symbols[i], symbols[i + 1]>>
  <2> DEFINE pair == <<symbols[i], symbols[i + 1]>>
  <2>1. Rank(t, pair) # None /\ b = Rank(t, pair)
    BY <1>1 DEF Mergeable, RankAt
  <2> HIDE DEF pair, b
  <2>2. Rank(t, pair) \in 1..Len(t.merges) /\ t.merges[Rank(t, pair)] = pair
    BY <2>1, RankIs
  <2> QED BY <2>1, <2>2 DEF pair
<1> HIDE DEF b
<1>4. JoinsAt(symbols, t.merges[b], i) /\ i \in 1..Len(symbols)
  BY <1>1, <1>3 DEF JoinsAt
<1>5. NoneUpTo(t, symbols, b - 1)
  <2> SUFFICES ASSUME NEW q \in 1..b - 1, NEW j \in 1..Len(symbols), JoinsAt(symbols, t.merges[q], j)
               PROVE  FALSE
    BY DEF NoneUpTo
  <2>1. q \in 1..n
    BY <1>3
  <2>2. j \in Mergeable(t, symbols) /\ RankAt(t, symbols, j) = q
    BY <2>1, RankOfMerge
  <2>3. b <= q
    BY <1>1, <2>2
  <2> QED BY <1>3, <2>3
<1>6. \A j \in 1..i - 1 : ~JoinsAt(symbols, t.merges[b], j)
  <2> SUFFICES ASSUME NEW j \in 1..i - 1, JoinsAt(symbols, t.merges[b], j) PROVE FALSE
    OBVIOUS
  <2>1. j \in 1..Len(symbols)
    BY <1>4
  <2>2. j \in Mergeable(t, symbols) /\ RankAt(t, symbols, j) = b
    BY <1>3, <2>1, RankOfMerge
  <2>3. i <= j
    BY <1>1, <2>2
  <2> QED BY <1>1, <2>3
<1>7. r \in 0..n /\ r <= b - 1
  <2>1. r \in 0..n /\ NoneUpTo(t, symbols, r)
    BY DEF Between
  <2>2. b \notin 1..r
    BY <1>4, <2>1 DEF NoneUpTo
  <2> QED BY <1>3, <2>1, <2>2
<1>8. Between(F, t, symbols, b - 1)
  <2>1. b - 1 \in r..n
    BY <1>3, <1>7
  <2> QED BY <1>5, <2>1, Advances
<1>9. MergeAll(symbols, t.merges[b]) = F[b]
  <2>1. b - 1 # n /\ (b - 1) + 1 = b
    BY <1>3
  <2> QED BY <1>8, <2>1 DEF Between
<1>10. MergeAll(MergedAt(symbols, i), t.merges[b]) = F[b]
  BY <1>1, <1>4, <1>6, <1>9, MergeAllFirst
<1>11. NoneUpTo(t, MergedAt(symbols, i), b - 1)
  BY <1>1, <1>3, <1>4, <1>5, NoneComesBack
<1>12. Between(F, t, MergedAt(symbols, i), b - 1)
  <2>1. b - 1 \in 0..n /\ b - 1 # n /\ (b - 1) + 1 = b
    BY <1>3
  <2> QED BY <1>10, <1>11, <2>1 DEF Between
<1> QED BY <1>2, <1>12

-----------------------------------------------------------------------------
\* Two neighbouring parts of a text are one part.
LEMMA PartsMeet ==
  ASSUME NEW s \in Texts, NEW i \in 1..Len(s), NEW e \in i..Len(s)
  PROVE  SubSeq(s, i, e) \o SubSeq(s, e + 1, Len(s)) = SubSeq(s, i, Len(s))
<1> DEFINE n == Len(s)
           l == SubSeq(s, i, e)
           r == SubSeq(s, e + 1, n)
           a == SubSeq(s, i, n)
           c == l \o r
<1>1. n \in Nat /\ i \in 1..n /\ e \in i..n /\ n \in i..n /\ \A k \in 1..n : s[k] \in Byte
  BY DEF Texts
<1>2. l \in Seq(Byte) /\ Len(l) = e - i + 1 /\ \A k \in 1..e - i + 1 : l[k] = s[i + k - 1]
  BY PartIsWord DEF Words, Texts
<1>3. a \in Seq(Byte) /\ Len(a) = n - i + 1 /\ \A k \in 1..n - i + 1 : a[k] = s[i + k - 1]
  BY <1>1, PartIsWord DEF Words, Texts
<1>4. r \in Seq(Byte) /\ Len(r) = n - e /\ \A k \in 1..n - e : r[k] = s[e + k]
  <2> HIDE DEF n
  <2>1. e + 1 \in Int /\ n \in Int /\ \A k \in e + 1..n : s[k] \in Byte
    BY <1>1
  <2>2. /\ r \in Seq(Byte) /\ Len(r) = IF e + 1 <= n THEN n - (e + 1) + 1 ELSE 0
        /\ \A k \in 1..n - (e + 1) + 1 : r[k] = s[e + 1 + k - 1]
    BY <2>1, SubSeqProperties
  <2>3. n - (e + 1) + 1 = n - e /\ (~(e + 1 <= n) => n - e = 0) /\ \A k \in 1..n - e : e + 1 + k - 1 = e + k
    BY <1>1
  <2> HIDE DEF r
  <2> QED BY <2>2, <2>3
<1> HIDE DEF n, l, r, a
<1>5. c \in Seq(Byte) /\ Len(c) = n - i + 1
      /\ \A k \in 1..n - i + 1 : c[k] = IF k <= e - i + 1 THEN l[k] ELSE r[k - (e - i + 1)]
  <2>1. /\ c \in Seq(Byte) /\ Len(c) = Len(l) + Len(r)
        /\ \A k \in 1..Len(l) + Len(r) : c[k] = IF k <= Len(l) THEN l[k] ELSE r[k - Len(l)]
    BY <1>2, <1>4, ConcatProperties
  <2>2. Len(l) + Len(r) = n - i + 1
    BY <1>1, <1>2, <1>4
  <2> HIDE DEF c
  <2> QED BY <1>2, <2>1, <2>2
<1> HIDE DEF c
<1>6. ASSUME NEW k \in 1..n - i + 1 PROVE c[k] = a[k]
  <2>1. CASE k <= e - i + 1
    <3>1. k \in 1..e - i + 1
      BY <2>1
    <3> QED BY <1>2, <1>3, <1>5, <2>1, <3>1
  <2>2. CASE ~(k <= e - i + 1)
    <3>1. k - (e - i + 1) \in 1..n - e /\ e + (k - (e - i + 1)) = i + k - 1
      BY <1>1, <2>2
    <3>2. r[k - (e - i + 1)] = s[i + k - 1]
      BY <1>4, <3>1
    <3> QED BY <1>3, <1>5, <2>2, <3>2
  <2> QED BY <2>1, <2>2
<1>7. c = a
  <2>1. Len(c) = Len(a) /\ \A k \in 1..Len(c) : c[k] = a[k]
    BY <1>3, <1>5, <1>6
  <2> QED BY <1>3, <1>5, <2>1, SeqEqual
<1> QED BY <1>7 DEF c, a, l, r, n

\* The characters of a word, one after the other, are the word.
LEMMA SymbolsOfWord ==
  ASSUME NEW word \in Texts
  PROVE  FlattenSeq(Symbols(word)) = word
<1>1. PICK f : Symbols(word) = f[1] /\ SymbolsFrom(f, word)
  BY SymbolsScan
<1> DEFINE n == Len(word)
           rest(i) == SubSeq(word, i, n)
           S == {i \in 1..n + 1 : FlattenSeq(f[i]) = rest(i)}
<1>2. n \in Nat /\ n + 1 \in Nat
  BY DEF Texts
<1>3. ASSUME NEW i \in 1..n + 1, \A j \in i + 1..n + 1 : j \in S PROVE i \in S
  <2>1. f[i] = SymbolsAt(f, word, i)
    BY <1>1 DEF SymbolsFrom
  <2>2. CASE i = n + 1
    <3>1. f[i] = <<>>
      BY <1>2, <2>1, <2>2 DEF SymbolsAt
    <3>2. rest(i) = <<>>
      BY <1>2, <2>2, SubSeqEmpty
    <3> QED BY <3>1, <3>2, FlattenEmpty
  <2>3. CASE i # n + 1
    <3> DEFINE e == CharEnd(word, i)
               c == SubSeq(word, i, e)
               r == f[e + 1]
    <3>1. i \in 1..n /\ e \in i..n
      BY <1>2, <2>3, CharEndIn
    <3>2. c \in Words
      BY <3>1, PartIsWord
    <3>3. f[i] = <<c>> \o r
      BY <1>2, <2>1, <3>1 DEF SymbolsAt
    <3>4. c \o rest(e + 1) = rest(i)
      BY <3>1, PartsMeet
    <3> HIDE DEF e, c
    <3>5. e + 1 \in i + 1..n + 1 /\ r \in Seq(Words) /\ FlattenSeq(r) = rest(e + 1)
      <4>1. e + 1 \in i + 1..n + 1
        BY <1>2, <3>1
      <4>2. r \in Seq(Words)
        BY <1>1, <1>2, <3>1, <4>1 DEF SymbolsFrom
      <4> QED BY <1>3, <4>1, <4>2
    <3> HIDE DEF r
    <3>6. c \in Seq(Byte) /\ r \in Seq(Seq(Byte)) /\ <<c>> \in Seq(Seq(Byte))
      <4>1. \A w \in Words : w \in Seq(Byte)
        BY DEF Words, Texts
      <4> QED BY <3>2, <3>5, <4>1
    <3>7. FlattenSeq(<<c>>) = c
      <4>1. <<>> \in Seq(Seq(Byte)) /\ <<c>> = Append(<<>>, c) /\ <<>> \o c = c
        BY <3>6
      <4> QED BY <3>6, <4>1, FlattenAppend, FlattenEmpty
    <3>8. FlattenSeq(<<c>> \o r) = FlattenSeq(<<c>>) \o FlattenSeq(r)
      BY <3>6, FlattenConcat
    <3> QED BY <3>3, <3>4, <3>5, <3>7, <3>8
  <2> QED BY <2>2, <2>3
<1>4. \A i \in 1..n + 1 : i \in S
  <2> HIDE DEF S, n
  <2> QED BY <1>2, <1>3, FromTheEnd
<1>5. 1 \in S
  BY <1>2, <1>4
<1>6. rest(1) = word
  BY SubSeqFull DEF Texts
<1> QED BY <1>1, <1>5, <1>6

\* bpe_tokenize leaves nothing to merge and loses nothing of the word; with
\* merges as training writes them it does what they do in the file's order.
LEMMA MergedAsReference ==
  ASSUME NEW t, Loaded(t), NEW word \in Texts
  PROVE  LET merged == Merged(t, Symbols(word))
         IN  /\ Mergeable(t, merged) = {}
             /\ FlattenSeq(merged) = word
             /\ Trained(t) => merged = InFileOrder(t, word)
<1> DEFINE start == Symbols(word)
           merged == Merged(t, start)
           N == Len(start)
           R == Len(t.merges)
<1>1. t.merges \in Seq(Pairs) /\ R \in Nat /\ start \in Seq(Words) /\ N \in Nat
  <2>1. t.merges \in Seq(Pairs)
    BY DEF Loaded
  <2>2. start \in Seq(Words)
    BY SymbolsAre
  <2> HIDE DEF start
  <2> QED BY <2>1, <2>2
<1> HIDE DEF start, N, R
<1>2. FlattenSeq(merged) = word /\ merged \in Seq(Words)
  BY <1>1, MergedIs, SymbolsOfWord DEF start
<1>3. PICK after : merged = after[N] /\ Rounds(after, t, start)
  BY <1>1, MergedScan DEF N
<1>4. PICK F : InFileOrder(t, word) = F[R] /\ FileRounds(F, t, start)
  BY <1>1, FileScan DEF start, R
<1> DEFINE Done(s, n) == Mergeable(t, s) = {} \/ Len(s) <= N - n
           Ordered(s) == Trained(t) => Filled(s) /\ \E r : Between(F, t, s, r)
           S == {n \in 0..N : Done(after[n], n) /\ Ordered(after[n])}
<1>5. Ordered(start)
  <2>1. Filled(start)
    BY FilledAtFirst DEF start
  <2>2. F[0] = start
    BY <1>4 DEF FileRounds
  <2>3. R # 0 => MergeAll(start, t.merges[1]) = F[1]
    <3>1. R # 0 => 1 \in 0..R /\ 1 # 0 /\ 1 - 1 = 0
      BY <1>1
    <3> QED BY <1>4, <2>2, <3>1 DEF FileRounds, R
  <2>4. NoneUpTo(t, start, 0)
    BY DEF NoneUpTo
  <2>5. Between(F, t, start, 0)
    BY <1>1, <2>2, <2>3, <2>4 DEF Between, R
  <2> QED BY <2>1, <2>5
<1>6. ASSUME NEW n \in 0..N, \A j \in 0..n - 1 : j \in S PROVE n \in S
  <2>1. CASE n = 0
    <3>1. after[n] = start
      BY <1>3, <2>1 DEF Rounds
    <3>2. Done(after[n], n)
      BY <1>1, <2>1, <3>1 DEF N
    <3> QED BY <1>5, <3>1, <3>2
  <2>2. CASE n # 0
    <3> DEFINE s == after[n - 1]
    <3>1. n - 1 \in 0..n - 1 /\ n - 1 \in 0..N
      BY <1>1, <2>2
    <3>2. Done(s, n - 1) /\ Ordered(s)
      BY <1>6, <3>1
    <3>3. s \in Seq(Words) /\ after[n] = MergeBest(t, s)
      BY <1>3, <2>2, <3>1 DEF Rounds, N
    <3> HIDE DEF s
    <3>4. CASE Mergeable(t, s) = {}
      <4>1. after[n] = s
        BY <3>3, <3>4 DEF MergeBest
      <4> QED BY <3>2, <3>4, <4>1
    <3>5. CASE Mergeable(t, s) # {}
      <4>1. Len(MergeBest(t, s)) = Len(s) - 1
        BY <1>1, <3>3, <3>5, MergeBestIs
      <4>2. Len(s) <= N - (n - 1) /\ Len(s) \in Nat
        BY <3>2, <3>3, <3>5
      <4>3. Len(MergeBest(t, s)) <= N - n
        BY <1>1, <4>1, <4>2
      <4>4. ASSUME Trained(t) PROVE Filled(MergeBest(t, s))
        <5>1. MergeBest(t, s) = MergedAt(s, Best(t, s))
          BY <3>5 DEF MergeBest
        <5>2. Best(t, s) \in 1..Len(s) - 1
          BY <1>1, <3>3, <3>5, BestIs
        <5> QED BY <3>2, <3>3, <4>4, <5>1, <5>2, FilledAfterMerge
      <4>5. ASSUME Trained(t) PROVE \E r : Between(F, t, MergeBest(t, s), r)
        <5>1. PICK r : Between(F, t, s, r)
          BY <3>2, <4>5
        <5> QED BY <1>1, <1>4, <3>2, <3>3, <3>5, <4>5, <5>1, RoundInOrder
      <4> QED BY <3>3, <4>3, <4>4, <4>5
    <3> QED BY <3>4, <3>5
  <2> QED BY <2>1, <2>2
<1>7. \A n \in 0..N : n \in S
  <2> HIDE DEF S
  <2> QED BY <1>1, <1>6, FromTheStart
<1>8. Done(merged, N) /\ Ordered(merged)
  <2>1. N \in 0..N
    BY <1>1
  <2> HIDE DEF S
  <2>2. N \in S
    BY <1>7, <2>1
  <2> HIDE DEF Done, Ordered, merged
  <2>3. Done(after[N], N) /\ Ordered(after[N])
    BY <2>2 DEF S
  <2>4. merged = after[N]
    BY <1>3 DEF merged
  <2> QED BY <2>3, <2>4
<1> HIDE DEF merged
<1>9. Mergeable(t, merged) = {}
  <2>1. Len(merged) \in Nat
    BY <1>2
  <2>2. Len(merged) <= 0 => 1..Len(merged) - 1 = {}
    BY <2>1
  <2>3. N - N = 0
    BY <1>1
  <2> QED BY <1>8, <2>2, <2>3 DEF Mergeable
<1>10. ASSUME Trained(t) PROVE merged = InFileOrder(t, word)
  <2>1. PICK r : Between(F, t, merged, r)
    BY <1>8, <1>10
  <2>2. NoneUpTo(t, merged, R)
    <3> SUFFICES ASSUME NEW q \in 1..R, NEW i \in 1..Len(merged), JoinsAt(merged, t.merges[q], i)
                 PROVE  FALSE
      BY DEF NoneUpTo
    <3>1. i \in Mergeable(t, merged)
      BY <1>1, <1>2, <1>10, RankOfMerge DEF R
    <3> QED BY <1>9, <3>1
  <2>3. r \in 0..R /\ R \in r..R
    BY <1>1, <2>1 DEF Between, R
  <2>4. Between(F, t, merged, R)
    BY <1>1, <1>2, <1>4, <2>1, <2>2, <2>3, Advances DEF R
  <2> QED BY <1>4, <2>4 DEF Between, R
<1> QED BY <1>2, <1>9, <1>10 DEF merged, start

-----------------------------------------------------------------------------
(***************************************************************************)
(* The greedy segmentation of a word.                                      *)
(***************************************************************************)
\* Where the pieces from a place on may end, greedily.
FirstFrom(start, ends, n) == IF n = 1 THEN start ELSE ends[n - 1] + 1

Longest(t, word, i, e) ==
  /\ e \in i..Len(word) /\ Known(t, word, i, e)
  /\ \A longer \in e + 1..Len(word) : ~Known(t, word, i, longer)

NoneFits(t, word, i) == \A e \in i..Len(word) : ~Known(t, word, i, e)

GreedyFrom(t, word, start, ends) ==
  /\ \A n \in 1..Len(ends) : Longest(t, word, FirstFrom(start, ends, n), ends[n])
  /\ NoneFits(t, word, FirstFrom(start, ends, Len(ends) + 1))

PieceIds(t, word, start, ends) ==
  [n \in 1..Len(ends) |-> t.vocab[Piece(t, word, FirstFrom(start, ends, n), ends[n])]]

\* A piece in front of a segmentation of the rest of the word.
WithInFront(t, word, start, e, rest, ends) ==
  /\ ends \in Seq(Nat) /\ ends # <<>> /\ GreedyFrom(t, word, start, ends)
  /\ PieceIds(t, word, start, ends)
       = <<t.vocab[Piece(t, word, start, e)]>> \o PieceIds(t, word, e + 1, rest)

\* With a piece in front, the others begin where they did.
LEMMA GreedyInFront ==
  ASSUME NEW t, NEW word \in Texts, NEW start \in Nat, NEW e \in Nat, NEW rest \in Seq(Nat),
         Longest(t, word, start, e), GreedyFrom(t, word, e + 1, rest)
  PROVE  WithInFront(t, word, start, e, rest, <<e>> \o rest)
<1> DEFINE ends == <<e>> \o rest
           n == Len(rest)
           id(k) == t.vocab[Piece(t, word, FirstFrom(start, ends, k), ends[k])]
           I == {id(k) : k \in 1..n + 1}
           x == t.vocab[Piece(t, word, start, e)]
           r == PieceIds(t, word, e + 1, rest)
           c == <<x>> \o r
<1>1. /\ ends \in Seq(Nat) /\ Len(ends) = n + 1 /\ n \in Nat /\ ends[1] = e
      /\ \A k \in 1..n : ends[k + 1] = rest[k]
  BY InFront
<1> HIDE DEF ends
<1>2. FirstFrom(start, ends, 1) = start
  BY DEF FirstFrom
<1>3. ASSUME NEW k \in 1..n + 1
      PROVE  FirstFrom(start, ends, k + 1) = FirstFrom(e + 1, rest, k)
  <2>1. CASE k = 1
    <3>1. k + 1 # 1 /\ (k + 1) - 1 = 1
      BY <2>1
    <3> QED BY <1>1, <2>1, <3>1 DEF FirstFrom
  <2>2. CASE k # 1
    <3>1. k - 1 \in 1..n /\ (k - 1) + 1 = k /\ k + 1 # 1 /\ (k + 1) - 1 = k
      BY <1>1, <2>2
    <3>2. ends[k] = rest[k - 1]
      BY <1>1, <3>1
    <3> QED BY <2>2, <3>1, <3>2 DEF FirstFrom
  <2> QED BY <2>1, <2>2
<1> HIDE DEF n
<1>4. ASSUME NEW k \in 1..n + 1 PROVE Longest(t, word, FirstFrom(start, ends, k), ends[k])
  <2>1. CASE k = 1
    BY <1>1, <1>2, <2>1
  <2>2. CASE k # 1
    <3>1. k - 1 \in 1..n /\ k - 1 \in 1..n + 1 /\ (k - 1) + 1 = k
      BY <1>1, <2>2
    <3>2. Longest(t, word, FirstFrom(e + 1, rest, k - 1), rest[k - 1])
      BY <3>1 DEF GreedyFrom, n
    <3>3. ends[k] = rest[k - 1]
      BY <1>1, <3>1
    <3>4. FirstFrom(start, ends, k) = FirstFrom(e + 1, rest, k - 1)
      BY <1>3, <3>1
    <3> QED BY <3>2, <3>3, <3>4
  <2> QED BY <2>1, <2>2
<1>5. NoneFits(t, word, FirstFrom(start, ends, n + 2))
  <2>1. n + 1 \in 1..n + 1 /\ (n + 1) + 1 = n + 2
    BY <1>1
  <2>2. FirstFrom(start, ends, n + 2) = FirstFrom(e + 1, rest, n + 1)
    BY <1>3, <2>1
  <2> QED BY <2>2 DEF GreedyFrom, n
<1>6. GreedyFrom(t, word, start, ends)
  <2>1. (n + 1) + 1 = n + 2
    BY <1>1
  <2> QED BY <1>1, <1>4, <1>5, <2>1 DEF GreedyFrom
<1>7. id(1) = x /\ \A k \in 1..n : id(k + 1) = r[k]
  <2>1. id(1) = x
    BY <1>1, <1>2
  <2>2. ASSUME NEW k \in 1..n PROVE id(k + 1) = r[k]
    <3>1. k \in 1..n + 1
      BY <1>1
    <3>2. FirstFrom(start, ends, k + 1) = FirstFrom(e + 1, rest, k) /\ ends[k + 1] = rest[k]
      BY <1>1, <1>3, <3>1
    <3> QED BY <3>2 DEF PieceIds, n
  <2> QED BY <2>1, <2>2
<1>8. r \in Seq(I) /\ Len(r) = n /\ x \in I
  <2>1. \A k \in 1..n : k + 1 \in 1..n + 1
    BY <1>1
  <2>2. 1 \in 1..n + 1
    BY <1>1
  <2> HIDE DEF id, x
  <2>3. x \in I /\ \A k \in 1..n : r[k] \in I
    BY <1>7, <2>1, <2>2
  <2>4. r = [k \in 1..n |-> r[k]]
    BY DEF PieceIds, n
  <2> HIDE DEF r, I
  <2>5. [k \in 1..n |-> r[k]] \in Seq(I) /\ Len([k \in 1..n |-> r[k]]) = n
    BY <1>1, <2>3
  <2> QED BY <2>3, <2>4, <2>5
<1> HIDE DEF x, r
<1>9. /\ c \in Seq(I) /\ Len(c) = n + 1 /\ c[1] = x /\ \A k \in 1..n : c[k + 1] = r[k]
  <2> HIDE DEF I
  <2> QED BY <1>8, InFront
<1>10. PieceIds(t, word, start, ends) = [k \in 1..n + 1 |-> id(k)]
  BY <1>1 DEF PieceIds
<1> HIDE DEF id, c
<1>11. \A k \in 1..n + 1 : c[k] = id(k)
  <2> TAKE k \in 1..n + 1
  <2>1. CASE k = 1
    BY <1>7, <1>9, <2>1
  <2>2. CASE k # 1
    <3>1. k - 1 \in 1..n /\ (k - 1) + 1 = k
      BY <1>1, <2>2
    <3> QED BY <1>7, <1>9, <3>1
  <2> QED BY <2>1, <2>2
<1>12. c = [k \in 1..n + 1 |-> c[k]]
  <2> HIDE DEF I
  <2> QED BY <1>1, <1>9
<1>13. ends # <<>>
  BY <1>1
<1> QED BY <1>1, <1>6, <1>10, <1>11, <1>12, <1>13 DEF ends, c, x, r, WithInFront

\* The scan of wordpiece_tokenize takes the pieces of a greedy segmentation.
LEMMA PiecesAreGreedy ==
  ASSUME NEW t, NEW word \in Texts, NEW p, PiecesFrom(p, t, word)
  PROVE  \E ends \in Seq(Nat) :
           GreedyFrom(t, word, 1, ends) /\ (ends # <<>> => p[1] = PieceIds(t, word, 1, ends))
<1> DEFINE n == Len(word)
           Good(i, ends) == /\ GreedyFrom(t, word, i, ends)
                            /\ i > 1 \/ ends # <<>> => p[i] = PieceIds(t, word, i, ends)
           S == {i \in 1..n + 1 : \E ends \in Seq(Nat) : Good(i, ends)}
<1>1. n \in Nat
  BY DEF Texts
<1>2. ASSUME NEW i \in 1..n + 1, \A j \in i + 1..n + 1 : j \in S PROVE i \in S
  <2> DEFINE ends == PieceEnds(t, word, i)
             e == PieceEnd(ends)
  <2>1. CASE ends = {}
    <3>1. NoneFits(t, word, i)
      BY <2>1 DEF NoneFits, Known, PieceEnds
    <3>2. GreedyFrom(t, word, i, <<>>)
      BY <3>1 DEF GreedyFrom, FirstFrom
    <3>3. PieceIds(t, word, i, <<>>) = <<>>
      BY DEF PieceIds
    <3>4. i > 1 => p[i] = <<>>
      <4>1. p[i] = PiecesAt(p, t, word, i)
        BY DEF PiecesFrom
      <4>2. i > 1 => i # 1
        BY <1>1
      <4> QED BY <2>1, <4>1, <4>2 DEF PiecesAt
    <3>5. <<>> \in Seq(Nat) /\ Good(i, <<>>)
      BY <3>2, <3>3, <3>4
    <3> HIDE DEF Good
    <3> QED BY <3>5
  <2>2. CASE ends # {}
    <3>1. /\ i \in 1..n /\ e \in i..n /\ Piece(t, word, i, e) \in DOMAIN t.vocab
          /\ \A longer \in e + 1..n : Piece(t, word, i, longer) \notin DOMAIN t.vocab
      BY <2>2, PieceEndIn
    <3>2. p[i] = <<t.vocab[Piece(t, word, i, e)]>> \o p[e + 1]
      <4>1. ~(i > Len(word))
        BY <1>1, <3>1
      <4> QED BY <2>2, <4>1 DEF PiecesFrom, PiecesAt
    <3> HIDE DEF ends, e
    <3>3. Longest(t, word, i, e)
      BY <3>1 DEF Longest, Known
    <3>4. e + 1 \in i + 1..n + 1 /\ e + 1 > 1 /\ i \in Nat /\ e \in Nat
      BY <1>1, <3>1
    <3>5. e + 1 \in S
      BY <1>2, <3>4
    <3>6. PICK rest \in Seq(Nat) : Good(e + 1, rest)
      BY <3>5
    <3>7. p[e + 1] = PieceIds(t, word, e + 1, rest) /\ GreedyFrom(t, word, e + 1, rest)
      BY <3>4, <3>6
    <3> DEFINE all == <<e>> \o rest
    <3> HIDE DEF Good
    <3>8. WithInFront(t, word, i, e, rest, all)
      BY <3>3, <3>4, <3>7, GreedyInFront
    <3>9. p[i] = PieceIds(t, word, i, all)
      BY <3>2, <3>7, <3>8 DEF WithInFront
    <3>10. all \in Seq(Nat) /\ Good(i, all)
      BY <3>8, <3>9 DEF Good, WithInFront
    <3> HIDE DEF all
    <3> QED BY <3>10
  <2> QED BY <2>1, <2>2
<1>3. 1 \in S
  <2>1. n + 1 \in Nat /\ 1 \in 1..n + 1
    BY <1>1
  <2> HIDE DEF S
  <2>2. \A i \in 1..n + 1 : i \in S
    BY <1>2, <2>1, FromTheEnd
  <2> QED BY <2>1, <2>2
<1> QED BY <1>3

\* There is one greedy segmentation: two go together as far as one of them goes.
LEMMA GreedyTogether ==
  ASSUME NEW t, NEW word \in Texts, NEW a \in Seq(Nat), NEW b \in Seq(Nat),
         GreedyFrom(t, word, 1, a), GreedyFrom(t, word, 1, b)
  PROVE  Len(a) <= Len(b) /\ \A k \in 1..Len(a) : a[k] = b[k]
<1> DEFINE n == Len(a)
           m == Len(b)
           S == {k \in 0..n : k <= m /\ (k # 0 => a[k] = b[k])}
<1>1. n \in Nat /\ m \in Nat /\ Len(word) \in Nat
  BY DEF Texts
<1>2. ASSUME NEW k \in 0..n, \A j \in 0..k - 1 : j \in S PROVE k \in S
  <2>1. CASE k = 0
    BY <1>1, <2>1
  <2>2. CASE k # 0
    <3> DEFINE i == FirstFrom(1, a, k)
    <3>1. k \in 1..n /\ k - 1 \in 0..k - 1 /\ k - 1 <= m /\ (k - 1 # 0 => a[k - 1] = b[k - 1])
      <4>1. k - 1 \in 0..k - 1 /\ k \in 1..n
        BY <2>2
      <4>2. k - 1 \in S
        BY <1>2, <4>1
      <4> QED BY <4>1, <4>2
    <3>2. i = FirstFrom(1, b, k)
      BY <3>1 DEF FirstFrom
    <3>3. Longest(t, word, i, a[k])
      BY <3>1 DEF GreedyFrom
    <3>4. i \in Nat
      <4>1. CASE k = 1
        BY <4>1 DEF FirstFrom
      <4>2. CASE k # 1
        <5>1. k - 1 \in 1..n
          BY <1>1, <3>1, <4>2
        <5>2. a[k - 1] \in Nat
          BY <5>1
        <5> QED BY <4>2, <5>2 DEF FirstFrom
      <4> QED BY <4>1, <4>2
    <3>5. k <= m
      <4> SUFFICES ASSUME ~(k <= m) PROVE FALSE
        OBVIOUS
      <4>1. k = m + 1
        BY <1>1, <3>1
      <4>2. NoneFits(t, word, i)
        BY <3>2, <4>1 DEF GreedyFrom
      <4> QED BY <3>3, <4>2 DEF Longest, NoneFits
    <3>6. Longest(t, word, i, b[k])
      <4>1. k \in 1..m
        BY <1>1, <3>1, <3>5
      <4> QED BY <3>2, <4>1 DEF GreedyFrom
    <3>7. a[k] = b[k]
      <4> HIDE DEF i
      <4> DEFINE x == a[k]
                 y == b[k]
      <4>1. x \in Nat /\ y \in Nat
        <5>1. k \in 1..Len(a) /\ k \in 1..Len(b)
          BY <1>1, <3>1, <3>5
        <5> QED BY <5>1
      <4>2. Longest(t, word, i, x) /\ Longest(t, word, i, y)
        BY <3>3, <3>6
      <4> HIDE DEF x, y
      <4>3. ~(x < y)
        BY <1>1, <4>1, <4>2 DEF Longest
      <4>4. ~(y < x)
        BY <1>1, <4>1, <4>2 DEF Longest
      <4>5. x = y
        BY <4>1, <4>3, <4>4
      <4> QED BY <4>5 DEF x, y
    <3> QED BY <3>5, <3>7
  <2> QED BY <2>1, <2>2
<1>3. \A k \in 0..n : k \in S
  <2> HIDE DEF S, n
  <2> QED BY <1>1, <1>2, FromTheStart
<1>4. n \in 0..n /\ \A k \in 1..n : k \in 0..n /\ k # 0
  BY <1>1
<1> QED BY <1>3, <1>4

\* The ends of a segmentation are places of the word, each behind the one before.
LEMMA GreedyInWord ==
  ASSUME NEW t, NEW word \in Texts, NEW ends \in Seq(Nat), GreedyFrom(t, word, 1, ends)
  PROVE  ends \in SeqOf(DOMAIN word, Len(word))
<1> DEFINE n == Len(ends)
           N == Len(word)
           S == {k \in 0..n : k # 0 => k <= ends[k] /\ ends[k] \in 1..N}
<1>1. n \in Nat /\ N \in Nat /\ DOMAIN word = 1..N
  BY DEF Texts
<1>2. ASSUME NEW k \in 0..n, \A j \in 0..k - 1 : j \in S PROVE k \in S
  <2> SUFFICES ASSUME k # 0 PROVE k <= ends[k] /\ ends[k] \in 1..N
    OBVIOUS
  <2> DEFINE i == FirstFrom(1, ends, k)
             e == ends[k]
  <2>1. k \in 1..n
    OBVIOUS
  <2>2. e \in i..N
    BY <2>1 DEF GreedyFrom, Longest
  <2>3. i \in Nat /\ k <= i
    <3>1. CASE k = 1
      BY <3>1 DEF FirstFrom
    <3>2. CASE k # 1
      <4>1. k - 1 \in 0..k - 1 /\ k - 1 # 0
        BY <2>1, <3>2
      <4>2. k - 1 \in S
        BY <1>2, <4>1
      <4> DEFINE b == ends[k - 1]
      <4>3. k - 1 <= b /\ b \in 1..N
        BY <4>1, <4>2
      <4>4. i = b + 1
        BY <3>2 DEF FirstFrom
      <4> HIDE DEF b, i
      <4> QED BY <1>1, <2>1, <4>3, <4>4
    <3> QED BY <3>1, <3>2
  <2> HIDE DEF e, i
  <2>4. k <= e /\ e \in 1..N
    BY <1>1, <2>1, <2>2, <2>3
  <2> QED BY <2>4 DEF e
<1>3. \A k \in 0..n : k \in S
  <2> HIDE DEF S, n
  <2> QED BY <1>1, <1>2, FromTheStart
<1>4. \A k \in 1..n : k <= ends[k] /\ ends[k] \in 1..N
  <2>1. \A k \in 1..n : k \in 0..n /\ k # 0
    BY <1>1
  <2> QED BY <1>3, <2>1
<1>5. n \in 0..N
  <2>1. n # 0 => n \in 1..n
    BY <1>1
  <2> HIDE DEF S
  <2>2. n # 0 => n <= ends[n] /\ ends[n] \in 1..N
    BY <1>4, <2>1
  <2> QED BY <1>1, <2>2
<1>6. ends \in [1..n -> 1..N]
  <2>1. ends = [k \in 1..n |-> ends[k]]
    OBVIOUS
  <2> HIDE DEF S
  <2> QED BY <1>4, <2>1
<1> HIDE DEF n, N, S
<1> QED BY <1>1, <1>5, <1>6 DEF SeqOf, N

\* Greedy is GreedyFrom the first place of the word.
LEMMA GreedyIs ==
  ASSUME NEW t, NEW word, NEW ends \in Seq(Nat)
  PROVE  Greedy(t, word, ends) <=> GreedyFrom(t, word, 1, ends)
<1>1. DOMAIN ends = 1..Len(ends)
  OBVIOUS
<1>2. \A n : First(ends, n) = FirstFrom(1, ends, n)
  BY DEF First, FirstFrom
<1> QED BY <1>1, <1>2 DEF Greedy, GreedyFrom, Longest, NoneFits

\* wordpiece_tokenize finds the one greedy segmentation of a word.
LEMMA PiecesAsReference ==
  ASSUME NEW t, NEW word \in Words
  PROVE  \E ends \in Segmentations(t, word) :
           /\ Segmentations(t, word) = {ends}
           /\ wordpiece_tokenize(t, word)
                = IF ends = <<>> THEN <<t.unk>>
                  ELSE [n \in DOMAIN ends |-> t.vocab[Piece(t, word, First(ends, n), ends[n])]]
<1>1. word \in Texts /\ Len(word) \in Nat \ {0}
  BY EmptySeq DEF Words, Texts
<1>2. PICK p : wordpiece_tokenize(t, word) = p[1] /\ PiecesFrom(p, t, word)
  BY <1>1, PiecesScan
<1>3. PICK ends \in Seq(Nat) : /\ GreedyFrom(t, word, 1, ends)
                               /\ ends # <<>> => p[1] = PieceIds(t, word, 1, ends)
  BY <1>1, <1>2, PiecesAreGreedy
<1>4. ends \in Segmentations(t, word)
  <2>1. ends \in SeqOf(DOMAIN word, Len(word))
    BY <1>1, <1>3, GreedyInWord
  <2>2. Greedy(t, word, ends)
    BY <1>3, GreedyIs
  <2> QED BY <2>1, <2>2 DEF Segmentations
<1>5. ASSUME NEW other \in Segmentations(t, word) PROVE other = ends
  <2>1. other \in Seq(Nat)
    <3>1. other \in SeqOf(DOMAIN word, Len(word))
      BY DEF Segmentations
    <3>2. PICK m \in 0..Len(word) : other \in [1..m -> DOMAIN word]
      BY <3>1 DEF SeqOf
    <3>3. DOMAIN word \subseteq Nat /\ m \in Nat
      BY <1>1, <3>2 DEF Texts
    <3> QED BY <3>2, <3>3
  <2>2. GreedyFrom(t, word, 1, other)
    BY <2>1, GreedyIs DEF Segmentations
  <2>3. Len(other) <= Len(ends) /\ \A k \in 1..Len(other) : other[k] = ends[k]
    BY <1>1, <1>3, <2>1, <2>2, GreedyTogether
  <2>4. Len(ends) <= Len(other)
    BY <1>1, <1>3, <2>1, <2>2, GreedyTogether
  <2>5. Len(ends) = Len(other)
    BY <1>3, <2>1, <2>3, <2>4
  <2> QED BY <1>3, <2>1, <2>3, <2>5, SeqEqual
<1>6. CASE ends = <<>>
  <2>1. NoneFits(t, word, 1)
    BY <1>3, <1>6 DEF GreedyFrom, FirstFrom
  <2>2. PieceEnds(t, word, 1) = {}
    BY <2>1 DEF NoneFits, Known, PieceEnds
  <2>3. p[1] = <<t.unk>>
    <3>1. 1 \in 1..Len(word) + 1 /\ ~(1 > Len(word))
      BY <1>1
    <3>2. p[1] = PiecesAt(p, t, word, 1)
      BY <1>2, <3>1 DEF PiecesFrom
    <3> QED BY <2>2, <3>1, <3>2 DEF PiecesAt
  <2> QED BY <1>2, <1>4, <1>5, <1>6, <2>3
<1>7. CASE ends # <<>>
  <2>1. PieceIds(t, word, 1, ends)
          = [n \in DOMAIN ends |-> t.vocab[Piece(t, word, First(ends, n), ends[n])]]
    BY <1>3 DEF PieceIds, First, FirstFrom
  <2> QED BY <1>2, <1>3, <1>4, <1>5, <1>7, <2>1
<1> QED BY <1>6, <1>7

-----------------------------------------------------------------------------
(***************************************************************************)
(* The runs of a text.                                                     *)
(***************************************************************************)
\* The classes of bytes, apart from each other.
LEMMA Apart ==
  /\ \A c \in Letter : c \notin Space /\ c \notin Punctuation /\ c \notin DOMAIN Lead /\ c \notin Trail
  /\ \A c \in Space : c \notin Punctuation /\ c \notin DOMAIN Lead /\ c \notin Trail
  /\ \A c \in Punctuation : c \notin DOMAIN Lead /\ c \notin Trail
  /\ \A c \in DOMAIN Lead : c \notin Trail
BY BytesAssumption

\* Lower-casing leaves a text as well-formed as it was.
LEMMA ProcessedWellFormed ==
  ASSUME NEW t, NEW text \in Texts, WellFormed(text)
  PROVE  WellFormed(Processed(t, text))
<1> DEFINE s == Processed(t, text)
<1>1. DOMAIN s = DOMAIN text /\ Len(s) = Len(text) /\ DOMAIN text = 1..Len(text) /\ Len(text) \in Nat
  BY ProcessedIs DEF Texts
<1>2. ASSUME NEW i \in DOMAIN text
      PROVE  /\ (s[i] \in DOMAIN Lead) = (text[i] \in DOMAIN Lead)
             /\ (s[i] \in Trail) = (text[i] \in Trail)
             /\ text[i] \in DOMAIN Lead => s[i] = text[i]
  <2>1. s[i] = text[i] \/ (text[i] \in DOMAIN Upper /\ s[i] = Upper[text[i]])
    BY DEF Processed, to_lower_ascii
  <2>2. ASSUME text[i] \in DOMAIN Upper
        PROVE  text[i] \in Letter /\ Upper[text[i]] \in Letter
    BY <2>2, BytesAssumption
  <2> QED BY <2>1, <2>2, Apart
<1> HIDE DEF s
<1>3. ASSUME NEW i \in DOMAIN s, s[i] \in DOMAIN Lead
      PROVE  /\ i + Lead[s[i]] - 1 <= Len(s)
             /\ \A j \in i + 1..Len(s) : (s[j] \in Trail) = (j < i + Lead[s[i]]) \/ j > i + Lead[s[i]]
  <2>1. text[i] \in DOMAIN Lead /\ s[i] = text[i]
    BY <1>1, <1>2, <1>3
  <2>2. /\ i + Lead[text[i]] - 1 <= Len(text)
        /\ \A j \in i + 1..Len(text) :
             (text[j] \in Trail) = (j < i + Lead[text[i]]) \/ j > i + Lead[text[i]]
    BY <1>1, <2>1 DEF WellFormed
  <2>3. \A j \in i + 1..Len(text) : (s[j] \in Trail) = (text[j] \in Trail)
    <3>1. \A j \in i + 1..Len(text) : j \in DOMAIN text
      BY <1>1
    <3> QED BY <1>2, <3>1
  <2> QED BY <1>1, <2>1, <2>2, <2>3
<1>4. ASSUME NEW i \in DOMAIN s, s[i] \in Trail
      PROVE  i > 1 /\ s[i - 1] \in Trail \cup DOMAIN Lead
  <2>1. i > 1 /\ text[i - 1] \in Trail \cup DOMAIN Lead
    BY <1>1, <1>2, <1>4 DEF WellFormed
  <2>2. i - 1 \in DOMAIN text
    BY <1>1, <2>1
  <2> QED BY <1>2, <2>1, <2>2
<1>5. WellFormed(s)
  BY <1>3, <1>4 DEF WellFormed
<1> QED BY <1>5 DEF s

\* A run ends where the next byte does not follow any more.
LEMMA RunIs ==
  ASSUME NEW s \in Texts, NEW i \in 1..Len(s), NEW e \in i..Len(s),
         \A j \in i + 1..e : s[j] \in Follows(s[i]),
         e < Len(s) => s[e + 1] \notin Follows(s[i])
  PROVE  RunFrom(s, i) = SubSeq(s, i, e)
<1> DEFINE S == {x \in i..Len(s) : \A j \in i + 1..x : s[j] \in Follows(s[i])}
<1>1. Len(s) \in Nat /\ S \in SUBSET (0..Len(s)) /\ e \in S
  BY DEF Texts
<1>2. ASSUME NEW x \in S PROVE x <= e
  <2> SUFFICES ASSUME x > e PROVE FALSE
    BY <1>1
  <2>1. e + 1 \in i + 1..x /\ e < Len(s)
    BY <1>1
  <2>2. s[e + 1] \in Follows(s[i])
    BY <2>1
  <2> QED BY <2>1, <2>2
<1>3. RunFrom(s, i) = SubSeq(s, i, Max(S))
  BY DEF RunFrom
<1> HIDE DEF S
<1>4. Max(S) \in S /\ \A x \in S : x <= Max(S)
  BY <1>1, MaxIs
<1>5. Max(S) = e
  <2>1. e <= Max(S) /\ Max(S) <= e
    BY <1>1, <1>2, <1>4
  <2> DEFINE m == Max(S)
  <2>2. m \in Nat /\ e \in Nat
    <3>1. \A x \in S : x \in Nat
      BY <1>1
    <3> QED BY <1>1, <1>4, <3>1
  <2> HIDE DEF m
  <2>3. m = e
    BY <2>1, <2>2 DEF m
  <2> QED BY <2>3 DEF m
<1> QED BY <1>3, <1>5

-----------------------------------------------------------------------------
\* Words that are the runs of a text from a place on.
StartsFrom(s, a) == {x \in Starts(s) : x >= a}

RunsAre(s, ws, at, a) ==
  /\ at \in [DOMAIN ws -> Starts(s)]
  /\ Lists(at, StartsFrom(s, a))
  /\ \A k \in DOMAIN ws : ws[k] = RunFrom(s, at[k])

Covers(s, ws, a) == ws \in Seq(Words) /\ \E at : RunsAre(s, ws, at, a)

\* Where no run begins, nothing is left out.
LEMMA CoversSame ==
  ASSUME NEW s \in Texts, NEW ws, NEW a \in Nat, NEW b \in Nat, Covers(s, ws, a), b <= a,
         \A x \in b..a - 1 : x \notin Starts(s)
  PROVE  Covers(s, ws, b)
<1>1. Starts(s) \subseteq Nat
  BY DEF Starts, Texts
<1>2. StartsFrom(s, a) = StartsFrom(s, b)
  BY <1>1 DEF StartsFrom
<1> QED BY <1>2 DEF Covers, RunsAre

\* A run in front of those behind it.
LEMMA CoversInFront ==
  ASSUME NEW s \in Texts, NEW ws, NEW a \in Nat, NEW b \in Starts(s), NEW x \in Words,
         Covers(s, ws, a), b < a, x = RunFrom(s, b), \A y \in b + 1..a - 1 : y \notin Starts(s)
  PROVE  Covers(s, <<x>> \o ws, b)
<1> DEFINE all == <<x>> \o ws
           n == Len(ws)
<1>1. PICK at : RunsAre(s, ws, at, a)
  BY DEF Covers
<1>2. ws \in Seq(Words)
  BY DEF Covers
<1>3. /\ all \in Seq(Words) /\ Len(all) = n + 1 /\ n \in Nat /\ all[1] = x
      /\ \A k \in 1..n : all[k + 1] = ws[k]
  BY <1>2, InFront
<1>4. DOMAIN ws = 1..n /\ DOMAIN all = 1..n + 1
  BY <1>2, <1>3
<1>5. Starts(s) \subseteq Nat
  BY DEF Starts, Texts
<1> HIDE DEF all, n
<1> DEFINE new == [k \in 1..n + 1 |-> IF k = 1 THEN b ELSE at[k - 1]]
           A == StartsFrom(s, a)
           B == StartsFrom(s, b)
<1>6. /\ \A k \in 1..n : at[k] \in Starts(s) /\ at[k] \in A
      /\ \A k, l \in 1..n : k < l => at[k] < at[l]
      /\ \A z \in A : \E k \in 1..n : z = at[k]
      /\ \A k \in 1..n : ws[k] = RunFrom(s, at[k])
  <2>1. /\ at \in [1..n -> Starts(s)]
        /\ Range(at) = A
        /\ \A k, l \in DOMAIN at : k < l => at[k] < at[l]
        /\ \A k \in 1..n : ws[k] = RunFrom(s, at[k])
    BY <1>1, <1>4 DEF RunsAre, Lists
  <2> QED BY <2>1 DEF Range
<1>7. A \subseteq Nat /\ (\A z \in A : z >= a /\ z > b /\ z \in B) /\ b \in B /\ B \subseteq Starts(s)
  BY <1>5 DEF StartsFrom
<1>8. \A z \in B : z = b \/ z \in A
  <2> SUFFICES ASSUME NEW z \in B, z # b, z \notin A PROVE FALSE
    OBVIOUS
  <2>1. z \in Starts(s) /\ z \in Nat /\ z >= b /\ b \in Nat /\ ~(z >= a)
    BY <1>5 DEF StartsFrom
  <2>2. z \in b + 1..a - 1
    BY <2>1
  <2> QED BY <2>1, <2>2
<1> HIDE DEF A, B
<1>9. new[1] = b /\ \A k \in 1..n + 1 : k # 1 => k - 1 \in 1..n /\ (k - 1) + 1 = k /\ new[k] = at[k - 1]
  BY <1>3
<1>10. \A k \in 1..n : new[k + 1] = at[k] /\ k + 1 \in 1..n + 1
  <2> TAKE k \in 1..n
  <2>1. k + 1 \in 1..n + 1 /\ k + 1 # 1 /\ (k + 1) - 1 = k
    BY <1>3
  <2> QED BY <2>1
<1>11. DOMAIN new = 1..n + 1 /\ 1 \in 1..n + 1 /\ new = [k \in 1..n + 1 |-> new[k]]
  BY <1>3
<1> HIDE DEF new
<1>12. \A k \in 1..n + 1 : new[k] \in B
  BY <1>6, <1>7, <1>9
<1>13. new \in [1..n + 1 -> Starts(s)]
  BY <1>7, <1>11, <1>12
<1>14. Range(new) = B
  <2>1. ASSUME NEW z \in B PROVE \E k \in 1..n + 1 : z = new[k]
    <3>1. CASE z = b
      BY <1>9, <1>11, <3>1
    <3>2. CASE z \in A
      <4>1. PICK k \in 1..n : z = at[k]
        BY <1>6, <3>2
      <4> QED BY <1>10, <4>1
    <3> QED BY <1>8, <3>1, <3>2
  <2> QED BY <1>11, <1>12, <2>1 DEF Range
<1>15. ASSUME NEW k \in 1..n + 1, NEW l \in 1..n + 1, k < l PROVE new[k] < new[l]
  <2>1. l # 1
    BY <1>3, <1>15
  <2>2. CASE k = 1
    BY <1>6, <1>7, <1>9, <2>1, <2>2
  <2>3. CASE k # 1
    <3>1. k - 1 < l - 1
      BY <1>3, <1>15
    <3> QED BY <1>6, <1>9, <2>1, <2>3, <3>1
  <2> QED BY <2>2, <2>3
<1>16. \A k \in 1..n + 1 : all[k] = RunFrom(s, new[k])
  <2> TAKE k \in 1..n + 1
  <2>1. CASE k = 1
    BY <1>3, <1>9, <2>1
  <2>2. CASE k # 1
    BY <1>3, <1>6, <1>9, <2>2
  <2> QED BY <2>1, <2>2
<1>17. RunsAre(s, all, new, b)
  BY <1>4, <1>11, <1>13, <1>14, <1>15, <1>16 DEF RunsAre, Lists, B
<1>18. Covers(s, all, b)
  BY <1>3, <1>17 DEF Covers
<1> QED BY <1>18 DEF all

-----------------------------------------------------------------------------
\* Between two characters, with only letters since start.
Ready(s, i, start) ==
  /\ start <= i
  /\ \A j \in start..i - 1 : s[j] \in Letter
  /\ start > 1 => s[start - 1] \notin Letter
  /\ i <= Len(s) => s[i] \notin Trail

Current(s, i, start) == IF start < i THEN <<SubSeq(s, start, i - 1)>> ELSE <<>>

\* Letters that end here are a run.
LEMMA CurrentInFront ==
  ASSUME NEW s \in Texts, NEW i \in Places(s), NEW start \in Places(s), Ready(s, i, start),
         i <= Len(s) => s[i] \notin Letter, NEW rest, Covers(s, rest, i)
  PROVE  Covers(s, Current(s, i, start) \o rest, start)
<1>1. Len(s) \in Nat /\ i \in 1..Len(s) + 1 /\ start \in 1..Len(s) + 1 /\ rest \in Seq(Words)
      /\ DOMAIN s = 1..Len(s)
  BY DEF Texts, Places, Covers
<1>2. CASE start = i
  <2>1. Current(s, i, start) \o rest = rest
    BY <1>1, <1>2 DEF Current
  <2> QED BY <1>2, <2>1
<1>3. CASE start # i
  <2>1. start < i /\ start \in 1..Len(s) /\ i - 1 \in start..Len(s)
    BY <1>1, <1>3 DEF Ready
  <2>2. s[start] \in Letter
    BY <1>1, <2>1 DEF Ready
  <2>3. start \in Starts(s)
    <3>1. s[start] \notin Space /\ s[start] \notin Trail
      BY <2>2, Apart
    <3>2. start > 1 => s[start] \notin Follows(s[start - 1])
      BY <2>2, Apart DEF Ready, Follows
    <3> QED BY <1>1, <2>1, <3>1, <3>2 DEF Starts
  <2>4. Follows(s[start]) = Letter
    BY <2>2 DEF Follows
  <2> DEFINE x == SubSeq(s, start, i - 1)
  <2>5. x = RunFrom(s, start) /\ x \in Words
    <3>1. \A j \in start + 1..i - 1 : s[j] \in Follows(s[start])
      BY <1>1, <2>1, <2>4 DEF Ready
    <3>2. i - 1 < Len(s) => s[(i - 1) + 1] \notin Follows(s[start])
      BY <1>1, <2>4
    <3> QED BY <2>1, <3>1, <3>2, RunIs, PartIsWord
  <2>6. \A y \in start + 1..i - 1 : y \notin Starts(s)
    <3> SUFFICES ASSUME NEW y \in start + 1..i - 1 PROVE y \notin Starts(s)
      OBVIOUS
    <3>1. s[y] \in Letter /\ s[y - 1] \in Letter /\ y > 1
      BY <1>1, <2>1 DEF Ready
    <3> QED BY <3>1 DEF Starts, Follows
  <2> HIDE DEF x
  <2>7. Covers(s, <<x>> \o rest, start)
    BY <1>1, <2>1, <2>3, <2>5, <2>6, CoversInFront
  <2> QED BY <2>1, <2>7 DEF Current, x
<1> QED BY <1>2, <1>3

\* The three parts of what basic_tokenize yields at a character that is a word.
LEMMA ThreeParts ==
  ASSUME NEW S, NEW a \in Seq(S), NEW x \in S, NEW r \in Seq(S)
  PROVE  a \o <<x>> \o r = a \o (<<x>> \o r)
<1> DEFINE y == <<x>>
<1>1. y \in Seq(S)
  OBVIOUS
<1> HIDE DEF y
<1>2. (a \o y) \o r = a \o (y \o r)
  BY <1>1, ConcatAssociative, SMTT(30)
<1> QED BY <1>2 DEF y

\* The character at a place that is not a space and not a letter.
LEMMA CharacterIs ==
  ASSUME NEW s \in Texts, WellFormed(s), NEW i \in 1..Len(s),
         s[i] \notin Space, s[i] \notin Letter, s[i] \notin Trail
  PROVE  LET e == CharEnd(s, i)
         IN  /\ e \in i..Len(s) /\ i \in Starts(s) /\ SubSeq(s, i, e) = RunFrom(s, i)
             /\ SubSeq(s, i, e) \in Words
             /\ \A y \in i + 1..e : y \notin Starts(s)
             /\ Ready(s, e + 1, e + 1)
<1> DEFINE e == CharEnd(s, i)
<1>1. Len(s) \in Nat /\ DOMAIN s = 1..Len(s) /\ e \in i..Len(s) /\ s[i] \in Byte
  BY CharEndIn DEF Texts
<1>2. s[i] \in Punctuation \/ s[i] \in DOMAIN Lead
  BY <1>1 DEF Byte
<1>3. /\ \A j \in i + 1..e : s[j] \in Follows(s[i]) /\ s[j] \in Trail
      /\ e < Len(s) => s[e + 1] \notin Follows(s[i]) /\ s[e + 1] \notin Trail
      /\ s[e] \notin Letter
  <2>1. CASE s[i] \in Punctuation
    <3>1. s[i] \notin DOMAIN Lead
      BY <2>1, Apart
    <3>2. e = i
      BY <1>1, <3>1 DEF CharEnd, CharBytes
    <3>3. Follows(s[i]) = {}
      BY <3>1 DEF Follows
    <3> HIDE DEF e
    <3>4. e < Len(s) => s[e + 1] \notin Trail
      <4> SUFFICES ASSUME e < Len(s), s[e + 1] \in Trail PROVE FALSE
        OBVIOUS
      <4>1. e + 1 \in DOMAIN s /\ (e + 1) - 1 = i
        BY <1>1, <3>2
      <4>2. s[i] \in Trail \cup DOMAIN Lead
        BY <4>1 DEF WellFormed
      <4> QED BY <3>1, <4>2
    <3>5. \A j \in i + 1..e : FALSE
      BY <3>2
    <3> QED BY <3>2, <3>3, <3>4, <3>5
  <2>2. CASE s[i] \in DOMAIN Lead
    <3> DEFINE l == Lead[s[i]]
    <3>1. l \in 2..4 /\ i + l - 1 <= Len(s)
          /\ \A j \in i + 1..Len(s) : (s[j] \in Trail) = (j < i + l) \/ j > i + l
      BY <1>1, <2>2, BytesAssumption DEF WellFormed
    <3>2. e = i + l - 1
      BY <2>2, <3>1 DEF CharEnd, CharBytes
    <3>3. Follows(s[i]) = Trail
      BY <2>2 DEF Follows
    <3> HIDE DEF l, e
    <3>4. \A j \in i + 1..e : s[j] \in Trail
      <4> SUFFICES ASSUME NEW j \in i + 1..e PROVE s[j] \in Trail
        OBVIOUS
      <4>1. j \in i + 1..Len(s) /\ j < i + l /\ ~(j > i + l)
        BY <1>1, <3>1, <3>2
      <4> QED BY <3>1, <4>1
    <3>5. e < Len(s) => s[e + 1] \notin Trail
      <4> SUFFICES ASSUME e < Len(s) PROVE s[e + 1] \notin Trail
        OBVIOUS
      <4>1. e + 1 \in i + 1..Len(s) /\ ~(e + 1 < i + l) /\ ~(e + 1 > i + l)
        BY <1>1, <3>1, <3>2
      <4> QED BY <3>1, <4>1
    <3>6. s[e] \in Trail
      <4>1. e \in i + 1..e
        BY <1>1, <3>1, <3>2
      <4> QED BY <3>4, <4>1
    <3>7. s[e] \notin Letter
      BY <3>6, Apart
    <3> QED BY <3>3, <3>4, <3>5, <3>7
  <2> QED BY <1>2, <2>1, <2>2
<1> HIDE DEF e
<1>4. i \in Starts(s)
  <2>1. i > 1 => s[i] \notin Follows(s[i - 1])
    BY DEF Follows
  <2> QED BY <1>1, <2>1 DEF Starts
<1>5. SubSeq(s, i, e) = RunFrom(s, i) /\ SubSeq(s, i, e) \in Words
  BY <1>1, <1>3, RunIs, PartIsWord
<1>6. \A y \in i + 1..e : y \notin Starts(s)
  BY <1>3 DEF Starts
<1>7. Ready(s, e + 1, e + 1)
  <2>1. (e + 1) - 1 = e /\ e + 1 <= e + 1 /\ (e + 1 <= Len(s) => e < Len(s))
        /\ \A j \in e + 1..(e + 1) - 1 : FALSE
    BY <1>1
  <2> QED BY <1>3, <2>1 DEF Ready
<1> QED BY <1>1, <1>4, <1>5, <1>6, <1>7 DEF e

\* The scan of basic_tokenize yields the runs of a well-formed text.
LEMMA WordsCover ==
  ASSUME NEW s \in Texts, WellFormed(s), NEW w, WordsFrom(w, s)
  PROVE  Covers(s, w[<<1, 1>>], 1)
<1> DEFINE n == Len(s) + 1
           S == {i \in 1..n : \A start \in 1..n : Ready(s, i, start) => Covers(s, w[<<i, start>>], start)}
<1>1. Len(s) \in Nat /\ n \in Nat /\ Places(s) = 1..n /\ DOMAIN s = 1..Len(s)
  BY DEF Texts, Places
<1>2. ASSUME NEW i \in 1..n, \A j \in i + 1..n : j \in S PROVE i \in S
  <2> SUFFICES ASSUME NEW start \in 1..n, Ready(s, i, start)
               PROVE  Covers(s, w[<<i, start>>], start)
    OBVIOUS
  <2>1. w[<<i, start>>] = WordsAt(w, s, i, start) /\ i \in Places(s) /\ start \in Places(s)
    BY <1>1 DEF WordsFrom
  <2>2. ASSUME NEW j \in i + 1..n, NEW a \in 1..n, Ready(s, j, a)
        PROVE  Covers(s, w[<<j, a>>], a)
    BY <1>2, <2>2
  <2> HIDE DEF S
  <2> DEFINE cur == Current(s, i, start)
  <2>3. CASE i > Len(s)
    <3>1. w[<<i, start>>] = cur
      BY <2>1, <2>3 DEF WordsAt, Current
    <3>2. i = n
      BY <1>1, <2>3
    <3>3. Covers(s, <<>>, i)
      <4>1. StartsFrom(s, i) = {}
        BY <1>1, <3>2 DEF StartsFrom, Starts
      <4>2. RunsAre(s, <<>>, <<>>, i)
        BY <4>1 DEF RunsAre, Lists, Range
      <4>3. <<>> \in Seq(Words)
        OBVIOUS
      <4> QED BY <4>2, <4>3 DEF Covers
    <3>4. Covers(s, cur \o <<>>, start)
      <4>1. i <= Len(s) => s[i] \notin Letter
        BY <1>1, <2>3
      <4> QED BY <2>1, <3>3, <4>1, CurrentInFront
    <3>5. cur \o <<>> = cur
      BY DEF Current
    <3> QED BY <3>1, <3>4, <3>5
  <2>4. CASE i <= Len(s) /\ s[i] \in Space
    <3>1. w[<<i, start>>] = cur \o w[<<i + 1, i + 1>>]
      <4>1. ~(i > Len(s))
        BY <1>1, <2>4
      <4> QED BY <2>1, <2>4, <4>1 DEF WordsAt, Current
    <3>2. i + 1 \in i + 1..n /\ i + 1 \in 1..n /\ i \in 1..Len(s)
      BY <1>1, <2>4
    <3>3. s[i] \notin Letter /\ s[i] \notin Trail /\ s[i] \notin DOMAIN Lead
      BY <2>4, Apart
    <3>4. Ready(s, i + 1, i + 1)
      <4>1. (i + 1) - 1 = i /\ \A j \in i + 1..(i + 1) - 1 : FALSE
        BY <1>1
      <4>2. ASSUME i + 1 <= Len(s), s[i + 1] \in Trail PROVE FALSE
        <5>1. i + 1 \in DOMAIN s
          BY <1>1, <4>2
        <5>2. s[i] \in Trail \cup DOMAIN Lead
          BY <4>1, <4>2, <5>1 DEF WellFormed
        <5> QED BY <3>3, <5>2
      <4>3. i + 1 <= i + 1
        BY <1>1
      <4> QED BY <3>3, <4>1, <4>2, <4>3 DEF Ready
    <3>5. Covers(s, w[<<i + 1, i + 1>>], i + 1)
      BY <2>2, <3>2, <3>4
    <3>6. Covers(s, w[<<i + 1, i + 1>>], i)
      <4>1. \A x \in i..(i + 1) - 1 : x \notin Starts(s)
        <5>1. \A x \in i..(i + 1) - 1 : x = i
          BY <1>1
        <5>2. i \notin Starts(s)
          BY <2>4 DEF Starts
        <5> QED BY <5>1, <5>2
      <4>2. i \in Nat /\ i + 1 \in Nat /\ i <= i + 1
        BY <1>1
      <4> QED BY <3>5, <4>1, <4>2, CoversSame
    <3> DEFINE rest == w[<<i + 1, i + 1>>]
    <3> HIDE DEF rest, cur
    <3>7. Covers(s, Current(s, i, start) \o rest, start)
      BY <2>1, <3>3, <3>6, CurrentInFront DEF rest
    <3> QED BY <3>1, <3>7 DEF rest, cur
  <2>5. CASE i <= Len(s) /\ s[i] \in Letter
    <3>1. s[i] \notin Space /\ s[i] \notin DOMAIN Lead /\ s[i] \notin Trail
      BY <2>5, Apart
    <3>2. w[<<i, start>>] = w[<<i + 1, start>>]
      BY <1>1, <2>1, <2>5, <3>1 DEF WordsAt
    <3>3. i + 1 \in i + 1..n
      BY <1>1, <2>5
    <3>4. Ready(s, i + 1, start)
      <4>1. start <= i + 1 /\ (i + 1) - 1 = i /\ start <= i
        BY <1>1 DEF Ready
      <4>2. \A j \in start..i : j \in start..i - 1 \/ j = i
        BY <1>1
      <4>3. \A j \in start..(i + 1) - 1 : s[j] \in Letter
        BY <2>5, <4>1, <4>2 DEF Ready
      <4>4. ASSUME i + 1 <= Len(s), s[i + 1] \in Trail PROVE FALSE
        <5>1. i + 1 \in DOMAIN s
          BY <1>1, <4>4
        <5>2. s[i] \in Trail \cup DOMAIN Lead
          BY <4>1, <4>4, <5>1 DEF WellFormed
        <5> QED BY <3>1, <5>2
      <4> QED BY <4>1, <4>3, <4>4 DEF Ready
    <3> QED BY <2>2, <3>2, <3>3, <3>4
  <2>6. CASE i <= Len(s) /\ s[i] \notin Space /\ s[i] \notin Letter
    <3> DEFINE e == CharEnd(s, i)
               x == SubSeq(s, i, e)
               rest == w[<<e + 1, e + 1>>]
    <3>1. i \in 1..Len(s) /\ s[i] \notin Trail
      BY <1>1, <2>6 DEF Ready
    <3>2. w[<<i, start>>] = cur \o <<x>> \o rest
      <4>1. ~(i > Len(s))
        BY <1>1, <2>6
      <4> QED BY <2>1, <2>6, <4>1 DEF WordsAt, Current
    <3>3. /\ e \in i..Len(s) /\ i \in Starts(s) /\ x = RunFrom(s, i) /\ x \in Words
          /\ \A y \in i + 1..e : y \notin Starts(s)
          /\ Ready(s, e + 1, e + 1)
      BY <2>6, <3>1, CharacterIs
    <3>4. cur \in Seq(Words)
      <4>1. CASE start < i
        <5>1. start \in 1..Len(s) /\ i - 1 \in start..Len(s)
          BY <1>1, <3>1, <4>1
        <5>2. SubSeq(s, start, i - 1) \in Words
          BY <5>1, PartIsWord
        <5> QED BY <4>1, <5>2 DEF Current
      <4>2. CASE ~(start < i)
        BY <4>2 DEF Current
      <4> QED BY <4>1, <4>2
    <3> HIDE DEF e, x, cur
    <3>5. e + 1 \in i + 1..n /\ e + 1 \in 1..n /\ e + 1 \in Nat /\ i < e + 1 /\ (e + 1) - 1 = e
      BY <1>1, <3>1, <3>3
    <3>6. Covers(s, rest, e + 1)
      BY <2>2, <3>3, <3>5
    <3> HIDE DEF rest
    <3>7. Covers(s, <<x>> \o rest, i)
      <4> DEFINE a == e + 1
      <4>1. a \in Nat /\ i < a /\ Covers(s, rest, a) /\ \A y \in i + 1..a - 1 : y \notin Starts(s)
        BY <3>3, <3>5, <3>6
      <4> HIDE DEF a
      <4> QED BY <3>3, <4>1, CoversInFront
    <3>8. cur \o <<x>> \o rest = cur \o (<<x>> \o rest)
      <4>1. rest \in Seq(Words)
        BY <3>6 DEF Covers
      <4> QED BY <3>3, <3>4, <4>1, ThreeParts
    <3> DEFINE more == <<x>> \o rest
    <3>9. Covers(s, more, i)
      BY <3>7
    <3> HIDE DEF more
    <3>10. Covers(s, Current(s, i, start) \o more, start)
      BY <2>1, <2>6, <3>9, CurrentInFront
    <3> QED BY <3>2, <3>8, <3>10 DEF more, cur
  <2>7. i > Len(s) \/ i <= Len(s)
    BY <1>1
  <2> QED BY <2>3, <2>4, <2>5, <2>6, <2>7
<1>3. 1 \in S
  <2>1. 1 \in 1..n
    BY <1>1
  <2> HIDE DEF S, n
  <2>2. \A i \in 1..n : i \in S
    BY <1>1, <1>2, FromTheEnd
  <2> QED BY <2>1, <2>2
<1>4. Ready(s, 1, 1)
  <2>1. 1 <= Len(s) => s[1] \notin Trail
    BY <1>1 DEF WellFormed
  <2> QED BY <2>1 DEF Ready
<1>5. 1 \in 1..n
  BY <1>1
<1> QED BY <1>3, <1>4, <1>5

\* basic_tokenize yields the words of the reference definition.
LEMMA WordsAsReference ==
  ASSUME NEW s \in Texts, WellFormed(s)
  PROVE  ReferenceWords(s, basic_tokenize(s))
<1>1. PICK w : basic_tokenize(s) = w[<<1, 1>>] /\ WordsFrom(w, s)
  BY WordsScan
<1> DEFINE words == basic_tokenize(s)
<1>2. Covers(s, words, 1)
  BY <1>1, WordsCover
<1> HIDE DEF words
<1>3. PICK at : RunsAre(s, words, at, 1)
  BY <1>2 DEF Covers
<1>4. StartsFrom(s, 1) = Starts(s)
  BY DEF StartsFrom, Starts, Texts
<1>5. ReferenceWords(s, words)
  BY <1>3, <1>4 DEF RunsAre, ReferenceWords
<1> QED BY <1>5 DEF words

\* The words of every text are those of the reference definition, and the ids
\* of every word (basic_tokenize, wordpiece_tokenize, bpe_tokenize): for all
\* texts, vocabularies and merges. Left out are WordPiece words known in part,
\* of which wordpiece_tokenize keeps the known beginning.
THEOREM EncodedRight == Spec => []EncodedAsReference
<1>1. Inv => EncodedAsReference
  <2> SUFFICES ASSUME Inv, NEW i \in Rows
               PROVE  LET words == basic_tokenize(Processed(tok, texts[i])) IN
                      /\ WellFormed(texts[i]) => ReferenceWords(Processed(tok, texts[i]), words)
                      /\ \A k \in DOMAIN words : WordAsReference(tok, words[k], WordIds(tok, words[k]))
    BY DEF EncodedAsReference
  <2> DEFINE s == Processed(tok, texts[i])
             words == basic_tokenize(s)
  <2>1. Loaded(tok) /\ texts[i] \in Texts
    BY IdsAre
  <2>2. s \in Texts
    BY <2>1, ProcessedIs
  <2>3. WellFormed(texts[i]) => WellFormed(s)
    BY <2>1, ProcessedWellFormed
  <2> HIDE DEF s
  <2>4. WellFormed(texts[i]) => ReferenceWords(s, words)
    BY <2>2, <2>3, WordsAsReference
  <2>5. words \in Seq(Words)
    BY <2>2, WordsAre
  <2> HIDE DEF words
  <2>6. ASSUME NEW k \in DOMAIN words PROVE WordAsReference(tok, words[k], WordIds(tok, words[k]))
    <3> DEFINE word == words[k]
    <3>1. word \in Words /\ word \in Texts
      BY <2>5 DEF Words
    <3> HIDE DEF word
    <3>2. CASE tok.bpe
      BY <2>1, <3>1, <3>2, MergedAsReference DEF WordAsReference, word
    <3>3. CASE ~tok.bpe
      BY <3>1, <3>3, PiecesAsReference DEF WordAsReference, Whole, PartlyKnown, WordIds, word
    <3> QED BY <3>2, <3>3
  <2> QED BY <2>4, <2>6 DEF words, s
<1> QED BY <1>1, InvHolds, PTL
=============================================================================
