------------------------ MODULE ModelWrappersProofs ------------------------
(***************************************************************************)
(* What holds of ModelWrappers for every set of objects, addresses,        *)
(* documents, images, options and output shapes.                           *)
(***************************************************************************)
EXTENDS ModelWrappers, SequenceTheorems, FiniteSetTheorems, TLAPS

-----------------------------------------------------------------------------
(***************************************************************************)
(* Finite sets of numbers.                                                 *)
(***************************************************************************)
\* A part of a finite set of numbers is listed in its order: the rank of a
\* number is its place, and a larger number has a larger one.
LEMMA RankGrows ==
  ASSUME NEW S, IsFiniteSet(S), \A x \in S : x \in Int, NEW v \in S
  PROVE  /\ Rank(S, v) \in 1..Cardinality(S)
         /\ \A w \in S : w < v => Rank(S, w) < Rank(S, v)
<1> DEFINE upto(x) == {u \in S : u <= x}
<1>0. /\ \A x : IsFiniteSet(upto(x)) /\ Cardinality(upto(x)) \in Nat
                /\ Cardinality(upto(x)) <= Cardinality(S)
      /\ Cardinality(S) \in Nat
  BY FS_Subset, FS_CardinalityType
<1>1. Rank(S, v) # 0
  <2>1. v \in upto(v)
    OBVIOUS
  <2> HIDE DEF upto
  <2>2. Cardinality(upto(v)) # 0
    BY <1>0, <2>1, FS_EmptySet
  <2> QED BY <2>2 DEF Rank, upto
<1>2. ASSUME NEW w \in S, w < v PROVE Rank(S, w) < Rank(S, v)
  <2>1. upto(w) \subseteq upto(v) /\ v \in upto(v) /\ v \notin upto(w)
    BY <1>2
  <2> HIDE DEF upto
  <2>2. /\ Cardinality(upto(w)) <= Cardinality(upto(v))
        /\ Cardinality(upto(w)) = Cardinality(upto(v)) => upto(w) = upto(v)
    BY <1>0, <2>1, FS_Subset
  <2>3. Cardinality(upto(w)) < Cardinality(upto(v))
    BY <1>0, <2>1, <2>2
  <2> QED BY <2>3 DEF Rank, upto
<1> QED BY <1>0, <1>1, <1>2 DEF Rank

\* Every place of a finite set of numbers is taken by one of them.
LEMMA RankTaken ==
  ASSUME NEW S, IsFiniteSet(S), \A x \in S : x \in Int, NEW r \in 1..Cardinality(S)
  PROVE  \E v \in S : Rank(S, v) = r
<1> DEFINE n == Cardinality(S)
           rank == [v \in S |-> Rank(S, v)]
<1>1. n \in Nat
  BY FS_CardinalityType
<1>2. IsFiniteSet(1..n) /\ Cardinality(1..n) = n
  <2>1. 1 \in Int /\ n \in Int
    BY <1>1
  <2>2. IsFiniteSet(1..n) /\ Cardinality(1..n) = IF 1 > n THEN 0 ELSE n - 1 + 1
    BY <2>1, FS_Interval
  <2> HIDE DEF n
  <2> QED BY <1>1, <2>2
<1>3. rank \in [S -> 1..n]
  BY RankGrows
<1>4. \A v, w \in S : rank[v] = rank[w] => v = w
  <2> SUFFICES ASSUME NEW v \in S, NEW w \in S, v # w PROVE rank[v] # rank[w]
    OBVIOUS
  <2>1. v \in Int /\ w \in Int /\ rank[v] \in Int /\ rank[w] \in Int
    BY <1>1, <1>3
  <2>2. w < v => rank[w] < rank[v]
    BY RankGrows
  <2>3. v < w => rank[v] < rank[w]
    BY RankGrows
  <2> QED BY <2>1, <2>2, <2>3
<1>5. rank \in Injection(S, 1..n)
  BY <1>3, <1>4 DEF Injection, IsInjective
<1>6. rank \in Surjection(S, 1..n)
  <2> HIDE DEF rank
  <2> QED BY <1>2, <1>5, FS_Injection
<1>7. PICK v \in S : rank[v] = r
  BY <1>6 DEF Surjection
<1> QED BY <1>7

\* The listing of a finite set of numbers: all of them, each at its rank,
\* smaller ones first.
LEMMA Listed ==
  ASSUME NEW S, IsFiniteSet(S), \A x \in S : x \in Int
  PROVE  /\ Cardinality(S) \in Nat
         /\ Ascending(S) \in [1..Cardinality(S) -> S]
         /\ Len(Ascending(S)) = Cardinality(S)
         /\ \A v \in S : Rank(S, v) \in 1..Cardinality(S) /\ Ascending(S)[Rank(S, v)] = v
         /\ \A q, r \in 1..Cardinality(S) : q < r => Ascending(S)[q] < Ascending(S)[r]
<1> DEFINE n == Cardinality(S)
           s == Ascending(S)
<1>1. n \in Nat
  BY FS_CardinalityType
<1>2. \A r \in 1..n : s[r] \in S /\ Rank(S, s[r]) = r
  <2> SUFFICES ASSUME NEW r \in 1..n PROVE s[r] \in S /\ Rank(S, s[r]) = r
    OBVIOUS
  <2>1. s[r] = CHOOSE v \in S : Rank(S, v) = r
    BY DEF Ascending
  <2>2. \E v \in S : Rank(S, v) = r
    BY RankTaken
  <2> HIDE DEF s
  <2> QED BY <2>1, <2>2
<1>3. s \in [1..n -> S]
  BY <1>2 DEF Ascending
<1>4. Len(s) = n
  BY <1>1 DEF Ascending
<1> HIDE DEF s
<1>5. ASSUME NEW v \in S, NEW w \in S, Rank(S, v) = Rank(S, w) PROVE v = w
  <2>1. v \in Int /\ w \in Int /\ Rank(S, v) \in Int
    BY RankGrows, <1>1
  <2>2. w < v => Rank(S, w) < Rank(S, v)
    BY RankGrows
  <2>3. v < w => Rank(S, v) < Rank(S, w)
    BY RankGrows
  <2> QED BY <1>5, <2>1, <2>2, <2>3
<1>6. ASSUME NEW v \in S PROVE Rank(S, v) \in 1..n /\ s[Rank(S, v)] = v
  <2>1. Rank(S, v) \in 1..n
    BY RankGrows
  <2> QED BY <1>2, <1>5, <2>1
<1>7. ASSUME NEW q \in 1..n, NEW r \in 1..n, q < r PROVE s[q] < s[r]
  <2>1. s[q] \in S /\ s[r] \in S /\ Rank(S, s[q]) = q /\ Rank(S, s[r]) = r
    BY <1>2
  <2>2. s[q] \in Int /\ s[r] \in Int /\ q \in Int /\ r \in Int
    BY <1>1, <2>1
  <2>3. ~(s[r] < s[q]) /\ s[q] # s[r]
    BY <1>7, <2>1, <2>2, RankGrows
  <2> QED BY <2>2, <2>3
<1> QED BY <1>1, <1>3, <1>4, <1>6, <1>7 DEF s

-----------------------------------------------------------------------------
(***************************************************************************)
(* Rankings.                                                               *)
(***************************************************************************)
\* The batch an item falls into holds it.
LEMMA InOwnBatch ==
  ASSUME NEW total \in Nat, NEW bs \in Nat \ {0}, NEW i \in 1..total
  PROVE  LET rows == BatchOf(i, total, bs)
         IN  i \in rows /\ rows \subseteq 1..total /\ IsFiniteSet(rows) /\ \A x \in rows : x \in Int
<1> DEFINE q == (i - 1) \div bs
           rows == BatchOf(i, total, bs)
<1>1. q \in Int /\ bs * q <= i - 1 /\ i - 1 < bs * (q + 1)
  OBVIOUS
<1>2. rows = {j \in 1..total : j > q * bs /\ j <= (q + 1) * bs}
  BY DEF BatchOf, get_batch, BatchSize
<1>3. i > q * bs /\ i <= (q + 1) * bs
  <2> HIDE DEF q
  <2>1. bs * q = q * bs /\ bs * (q + 1) = (q + 1) * bs /\ q * bs \in Int /\ (q + 1) * bs \in Int
    BY <1>1
  <2> QED BY <1>1, <2>1
<1>4. IsFiniteSet(1..total)
  <2>1. 1 \in Int /\ total \in Int
    OBVIOUS
  <2> QED BY <2>1, FS_Interval
<1>5. i \in rows /\ rows \subseteq 1..total
  BY <1>2, <1>3
<1> HIDE DEF rows
<1> QED BY <1>4, <1>5, FS_Subset DEF rows

\* The cell found with the last dimension as the stride is the first of the
\* row when there is no other dimension.
LEMMA FirstCellFound ==
  ASSUME NEW items, NEW n \in Nat, Len(items) = n, NEW shape,
         shape.item \in Nat \ {0}, shape.last = shape.item, NEW r \in 1..n
  PROVE  FirstCells(Tensor(items, shape), n, shape)[r] = Cell(items[r], 1)
<1> DEFINE w == shape.item
           k == (r - 1) * w + 1
           cells == 1..(n * w)
           flat == Tensor(items, shape)
<1>1. w \in Nat \ {0} /\ r - 1 \in Nat
  OBVIOUS
<1>2. k \in cells /\ (k - 1) \div w = r - 1 /\ (k - 1) % w = 0
  <2> DEFINE p == (r - 1) * w
  <2>1. p \in Nat /\ r * w = p + w /\ r * w <= n * w /\ n * w \in Nat
    <3> HIDE DEF w
    <3> QED BY <1>1
  <2>2. p \div w = r - 1 /\ p % w = 0
    <3> HIDE DEF w
    <3> QED BY <1>1
  <2>3. k - 1 = p
    <3> HIDE DEF p
    <3> QED BY <2>1
  <2>4. k \in cells
    <3> HIDE DEF w, p
    <3>1. k = p + 1
      BY DEF p
    <3> QED BY <1>1, <2>1, <3>1
  <2> QED BY <2>2, <2>3, <2>4
<1>3. flat[k] = Cell(items[((k - 1) \div w) + 1], ((k - 1) % w) + 1) /\ k \in DOMAIN flat
  BY <1>2 DEF Tensor
<1>4. flat[k] = Cell(items[r], 1)
  <2>1. (r - 1) + 1 = r /\ 0 + 1 = 1
    OBVIOUS
  <2> HIDE DEF k, flat, w
  <2> QED BY <1>2, <1>3, <2>1
<1>5. FirstCells(flat, n, shape)[r] = At(flat, k)
  BY DEF FirstCells
<1> HIDE DEF k, flat
<1> QED BY <1>3, <1>4, <1>5 DEF At, flat

\* Each document is given the score of its own row, whatever the batches, by a
\* model with one row of labels per document.
LEMMA OwnScore ==
  ASSUME NEW c, NEW docs \in Seq(Doc), NEW bs \in Nat \ {0}, NEW i \in DOMAIN docs,
         c.shape.item \in Nat \ {0}, c.shape.last = c.shape.item
  PROVE  OnnxScores(c, docs, bs)[i] = Score[docs[i]]
<1> DEFINE rows == BatchOf(i, Len(docs), bs)
           items == Ascending(rows)
           n == Cardinality(rows)
           r == Rank(rows, i)
           cell == FirstCells(Tensor(items, c.shape), n, c.shape)[r]
<1>1. i \in 1..Len(docs) /\ Len(docs) \in Nat
  OBVIOUS
<1>2. i \in rows /\ IsFiniteSet(rows) /\ \A x \in rows : x \in Int
  BY <1>1, InOwnBatch
<1>3. OnnxScores(c, docs, bs)[i] = IF cell.place = 1 THEN Score[docs[cell.item]] ELSE 0
  BY DEF OnnxScores
<1>4. n \in Nat /\ Len(items) = n /\ r \in 1..n /\ items[r] = i
  <2> HIDE DEF rows
  <2> QED BY <1>2, Listed
<1> HIDE DEF rows, items, n, r
<1>5. cell = Cell(i, 1)
  BY <1>4, FirstCellFound
<1> HIDE DEF cell
<1> QED BY <1>3, <1>5 DEF Cell

\* An order of all places leaves none out.
LEMMA NoneLeftOut ==
  ASSUME NEW n \in Nat, NEW p \in [1..n -> 1..n], IsInjective(p), NEW i \in 1..n
  PROVE  \E j \in 1..n : p[j] = i
<1>1. IsFiniteSet(1..n)
  <2>1. 1 \in Int /\ n \in Int
    OBVIOUS
  <2> QED BY <2>1, FS_Interval
<1>2. p \in Injection(1..n, 1..n)
  BY DEF Injection
<1>3. p \in Surjection(1..n, 1..n)
  BY <1>1, <1>2, FS_Injection
<1> QED BY <1>3 DEF Surjection

\* What a reranking promises of its result.
RankedOwn(c, docs, items) ==
  /\ Range([r \in DOMAIN items |-> items[r].index]) = DOMAIN docs
  /\ \A r \in DOMAIN items :
       /\ r > 1 => items[r - 1].score >= items[r].score
       /\ c.shape.item = c.shape.last \/ c.backend = "LLAMACPP"
            => items[r].score = Score[docs[items[r].index]]

\* Sorting scores that are the documents' own gives a ranking.
LEMMA SortedRanked ==
  ASSUME NEW c, NEW docs \in Seq(Doc), NEW scores, DOMAIN scores = DOMAIN docs,
         c.shape.item = c.shape.last \/ c.backend = "LLAMACPP"
           => \A i \in DOMAIN docs : scores[i] = Score[docs[i]],
         NEW p \in Descending(scores)
  PROVE  RankedOwn(c, docs, [r \in DOMAIN docs |-> [index |-> p[r], score |-> scores[p[r]]]])
<1> DEFINE items == [r \in DOMAIN docs |-> [index |-> p[r], score |-> scores[p[r]]]]
           n == Len(docs)
<1>1. n \in Nat /\ DOMAIN docs = 1..n
  OBVIOUS
<1>2. /\ p \in [1..n -> 1..n] /\ IsInjective(p)
      /\ \A i, j \in 1..n : i < j => scores[p[i]] >= scores[p[j]]
  BY <1>1 DEF Descending
<1> HIDE DEF n
<1>3. Range([r \in DOMAIN items |-> items[r].index]) = 1..n
  <2>1. [r \in DOMAIN items |-> items[r].index] = p
    BY <1>1, <1>2
  <2>2. Range(p) = 1..n
    <3>1. \A i \in 1..n : \E j \in 1..n : p[j] = i
      BY <1>1, <1>2, NoneLeftOut
    <3> QED BY <1>2, <3>1 DEF Range
  <2> HIDE DEF items
  <2> QED BY <2>1, <2>2
<1>4. ASSUME NEW r \in 1..n
      PROVE  /\ r > 1 => items[r - 1].score >= items[r].score
             /\ c.shape.item = c.shape.last \/ c.backend = "LLAMACPP"
                  => items[r].score = Score[docs[items[r].index]]
  <2>1. r > 1 => r - 1 \in 1..n /\ r - 1 < r
    BY <1>1
  <2>2. items[r].index = p[r] /\ items[r].score = scores[p[r]] /\ p[r] \in 1..n
    BY <1>1, <1>2
  <2>3. r > 1 => items[r - 1].score = scores[p[r - 1]]
    BY <1>1, <2>1
  <2> HIDE DEF items
  <2> QED BY <1>1, <1>2, <2>1, <2>2, <2>3
<1>5. DOMAIN items = 1..n
  BY <1>1
<1> HIDE DEF items
<1> QED BY <1>1, <1>3, <1>4, <1>5 DEF RankedOwn, items

\* A call of rerank that succeeds answers with a ranking.
LEMMA RerankedOwn ==
  ASSUME NEW c \in ContextState, NEW docs \in Seq(Doc), NEW batch_size \in Int,
         ~Absent(c, docs),
         NEW outcome \in lembed_reranker_rerank(c, docs, batch_size), outcome.status = "OK"
  PROVE  RankedOwn(c, docs, outcome.result.items)
<1> DEFINE bs == OneOf(batch_size, c.batch_size)
           llama == c.backend = "LLAMACPP"
           steps == IF llama THEN <<Use>> ELSE run(TRUE, TRUE, 1)
           scores == IF llama THEN lembed__llama_rerank(docs) ELSE OnnxScores(c, docs, bs)
           ranking(p) == [r \in DOMAIN docs |-> [index |-> p[r], score |-> scores[p[r]]]]
           ranked(p) == [count |-> Len(docs), held |-> TRUE, items |-> ranking(p)]
           n == batch_count(Len(docs), bs)
<1>1. \/ \E p \in Descending(scores) : outcome = Served(ranked(p), Len(docs), n, FALSE, steps)
      \/ outcome = Failed("OUT_OF_MEMORY", FALSE, [Empty EXCEPT !.count = Len(docs)], 0)
      \/ outcome \in Thrown(steps, "ONNX_RUNTIME", Empty)
  BY Zenon DEF lembed_reranker_rerank
<1>2. outcome # Failed("OUT_OF_MEMORY", FALSE, [Empty EXCEPT !.count = Len(docs)], 0)
  BY DEF Failed
<1>3. outcome \notin Thrown(steps, "ONNX_RUNTIME", Empty)
  <2> HIDE DEF steps
  <2> QED BY DEF Thrown, Failed
<1>4. PICK p \in Descending(scores) : outcome = Served(ranked(p), Len(docs), n, FALSE, steps)
  BY <1>1, <1>2, <1>3
<1>5. outcome.result.items = ranking(p)
  <2> HIDE DEF ranking, steps, n
  <2> QED BY <1>4 DEF Served
<1>6. bs \in Nat \ {0} /\ c.shape \in Shapes
  BY DEF OneOf, ContextState
<1>7. c.shape.item \in Nat \ {0}
  BY <1>6, ShapesAssumption
<1>8. DOMAIN scores = DOMAIN docs
  BY DEF lembed__llama_rerank, OnnxScores
<1>9. ASSUME c.shape.item = c.shape.last \/ llama, NEW i \in DOMAIN docs
      PROVE  scores[i] = Score[docs[i]]
  <2>1. CASE llama
    BY <2>1 DEF lembed__llama_rerank
  <2>2. CASE ~llama
    <3>1. scores[i] = OnnxScores(c, docs, bs)[i]
      BY <2>2
    <3>2. c.shape.last = c.shape.item
      BY <1>9, <2>2
    <3> HIDE DEF bs, scores, llama, steps, ranking, ranked, n
    <3> QED BY <1>6, <1>7, <3>1, <3>2, OwnScore
  <2> QED BY <2>1, <2>2
<1> HIDE DEF scores
<1>10. RankedOwn(c, docs, ranking(p))
  BY <1>8, <1>9, SortedRanked
<1> HIDE DEF ranking
<1> QED BY <1>5, <1>10

-----------------------------------------------------------------------------
(***************************************************************************)
(* Sparse vectors.                                                         *)
(***************************************************************************)
\* A finite set of numbers that is not empty has a largest one.
LEMMA Largest ==
  ASSUME NEW S, IsFiniteSet(S), \A x \in S : x \in Int, S # {}
  PROVE  Max(S) \in S /\ \A y \in S : Max(S) >= y
<1> DEFINE n == Cardinality(S)
           s == Ascending(S)
<1>1. /\ n \in Nat /\ s \in [1..n -> S]
      /\ \A v \in S : Rank(S, v) \in 1..n /\ s[Rank(S, v)] = v
      /\ \A q, r \in 1..n : q < r => s[q] < s[r]
  BY Listed
<1> HIDE DEF n, s
<1>2. n \in 1..n
  BY <1>1
<1>3. s[n] \in S /\ \A y \in S : s[n] >= y
  <2>1. s[n] \in S
    BY <1>1, <1>2
  <2>2. ASSUME NEW y \in S PROVE s[n] >= y
    <3>1. y \in Int /\ s[n] \in Int
      BY <2>1
    <3>2. PICK r \in 1..n : s[r] = y
      BY <1>1
    <3>3. r = n \/ r < n
      BY <1>1
    <3>4. r < n => s[r] < s[n]
      BY <1>1, <1>2
    <3> QED BY <3>1, <3>2, <3>3, <3>4
  <2> QED BY <2>1, <2>2
<1>4. \E x \in S : \A y \in S : x >= y
  BY <1>3
<1> QED BY <1>4 DEF Max

\* ... and a smallest one.
LEMMA Smallest ==
  ASSUME NEW S, IsFiniteSet(S), \A x \in S : x \in Int, S # {}
  PROVE  \E m \in S : \A y \in S : m <= y
<1> DEFINE n == Cardinality(S)
           s == Ascending(S)
<1>1. /\ n \in Nat /\ s \in [1..n -> S]
      /\ \A v \in S : Rank(S, v) \in 1..n /\ s[Rank(S, v)] = v
      /\ \A q, r \in 1..n : q < r => s[q] < s[r]
  BY Listed
<1> HIDE DEF n, s
<1>2. 1 \in 1..n
  BY <1>1
<1>3. s[1] \in S
  BY <1>1, <1>2
<1>4. ASSUME NEW y \in S PROVE s[1] <= y
  <2>1. y \in Int /\ s[1] \in Int
    BY <1>3
  <2>2. PICK r \in 1..n : s[r] = y
    BY <1>1
  <2>3. r = 1 \/ 1 < r
    BY <1>1
  <2>4. 1 < r => s[1] < s[r]
    BY <1>1, <1>2
  <2> QED BY <2>1, <2>2, <2>3, <2>4
<1> QED BY <1>3, <1>4

\* The values of a function on a finite set are finitely many.
LEMMA ImageFinite ==
  ASSUME NEW T, IsFiniteSet(T), NEW f, DOMAIN f = T
  PROVE  IsFiniteSet({f[x] : x \in T})
<1> DEFINE image == {f[x] : x \in T}
           g == [x \in T |-> f[x]]
<1>1. g \in Surjection(T, image)
  BY DEF Surjection
<1> HIDE DEF image, g
<1>2. IsFiniteSet(image)
  BY <1>1, FS_Surjection
<1> QED BY <1>2 DEF image

\* What a sparse vector promises of the activations of a text's own tokens.
OwnTerms(act, own, item) ==
  /\ \A v \in Vocab : (\E s \in own : act[s][v] > 0) <=> v \in Range(item.indices)
  /\ \A k \in DOMAIN item.indices :
       /\ k > 1 => item.indices[k - 1] < item.indices[k]
       /\ \E s \in own : act[s][item.indices[k]] = item.values[k]
       /\ \A s \in own : act[s][item.indices[k]] <= item.values[k]

\* It has a value beside every index.
Paired(item) == Len(item.indices) \in Nat /\ Len(item.values) = Len(item.indices)

\* The score of a term is 0, or the largest activation if any is positive.
LEMMA ScoreOfTerm ==
  ASSUME NEW row, NEW own, NEW act, NEW v \in Vocab, IsFiniteSet(own),
         own = {s \in DOMAIN row.mask : row.mask[s] # 0},
         \A s \in own : row.output[s] = act[s] /\ act[s][v] \in Int
  PROVE  /\ TermScore(row, v) \in Int
         /\ \A s \in own : act[s][v] <= TermScore(row, v)
         /\ TermScore(row, v) > 0 => \E s \in own : act[s][v] = TermScore(row, v)
         /\ TermScore(row, v) > 0 <=> \E s \in own : act[s][v] > 0
<1> DEFINE f == [s \in own |-> row.output[s][v]]
           image == {f[s] : s \in own}
           S == {0} \union image
<1>1. TermScore(row, v) = Max(S)
  <2>1. {row.output[s][v] : s \in {s \in DOMAIN row.mask : row.mask[s] # 0}} = image
    OBVIOUS
  <2> QED BY <2>1 DEF TermScore
<1>2. \A s \in own : f[s] = act[s][v] /\ f[s] \in Int
  OBVIOUS
<1>3. DOMAIN f = own
  OBVIOUS
<1> HIDE DEF f
<1>4. IsFiniteSet(image)
  BY <1>3, ImageFinite
<1>5. IsFiniteSet(S) /\ S # {} /\ \A x \in S : x \in Int
  <2> HIDE DEF image
  <2>1. IsFiniteSet({0})
    BY FS_Singleton
  <2>2. IsFiniteSet(S)
    BY <1>4, <2>1, FS_Union
  <2> QED BY <1>2, <2>2 DEF image
<1>6. Max(S) \in S /\ \A y \in S : Max(S) >= y
  <2> HIDE DEF S
  <2> QED BY <1>5, Largest
<1>7. Max(S) = 0 \/ \E s \in own : act[s][v] = Max(S)
  BY <1>2, <1>6
<1>8. Max(S) \in Int /\ Max(S) >= 0 /\ \A s \in own : Max(S) >= act[s][v]
  <2>1. \A s \in own : act[s][v] \in S
    BY <1>2
  <2>2. Max(S) \in Int /\ 0 \in S
    BY <1>5, <1>6
  <2> HIDE DEF S
  <2> QED BY <1>6, <2>1, <2>2
<1> HIDE DEF S
<1> QED BY <1>1, <1>7, <1>8

\* splade_postprocess lists the terms the text's own tokens activate, in order,
\* with the largest activation of each.
LEMMA SpladeOwn ==
  ASSUME NEW row, NEW own, NEW act, IsFiniteSet(own),
         own = {s \in DOMAIN row.mask : row.mask[s] # 0},
         \A s \in own : row.output[s] = act[s] /\ \A v \in Vocab : act[s][v] \in Int
  PROVE  LET item == splade_postprocess(row, Vocab)
         IN  /\ OwnTerms(act, own, item)
             /\ Paired(item)
<1> DEFINE T == {v \in Vocab : TermScore(row, v) > 0}
           n == Cardinality(T)
           terms == Ascending(T)
           item == splade_postprocess(row, Vocab)
<1>1. \A v \in Vocab :
        /\ TermScore(row, v) \in Int
        /\ \A s \in own : act[s][v] <= TermScore(row, v)
        /\ TermScore(row, v) > 0 => \E s \in own : act[s][v] = TermScore(row, v)
        /\ TermScore(row, v) > 0 <=> \E s \in own : act[s][v] > 0
  BY ScoreOfTerm
<1>2. IsFiniteSet(T) /\ \A v \in T : v \in Int
  BY FS_Subset, ActivationAssumption
<1>3. /\ n \in Nat /\ terms \in [1..n -> T]
      /\ \A v \in T : Rank(T, v) \in 1..n /\ terms[Rank(T, v)] = v
      /\ \A q, r \in 1..n : q < r => terms[q] < terms[r]
  <2> HIDE DEF T
  <2> QED BY <1>2, Listed
<1>4. item = [indices |-> terms, values |-> [i \in DOMAIN terms |-> TermScore(row, terms[i])]]
  BY DEF splade_postprocess
<1>5. DOMAIN terms = 1..n /\ \A k \in 1..n : terms[k] \in Vocab /\ TermScore(row, terms[k]) > 0
  BY <1>3
<1>6. \A v \in Vocab : TermScore(row, v) > 0 => v \in T
  OBVIOUS
<1> HIDE DEF T, n, terms, item
<1>7. item.indices = terms /\ item.values = [i \in 1..n |-> TermScore(row, terms[i])]
  BY <1>4, <1>5
<1>8. ASSUME NEW v \in Vocab PROVE (\E s \in own : act[s][v] > 0) <=> v \in Range(item.indices)
  <2>1. v \in Range(terms) <=> TermScore(row, v) > 0
    BY <1>3, <1>5, <1>6 DEF Range
  <2> QED BY <1>1, <1>7, <2>1
<1>9. ASSUME NEW k \in 1..n
      PROVE  /\ k > 1 => terms[k - 1] < terms[k]
             /\ \E s \in own : act[s][terms[k]] = item.values[k]
             /\ \A s \in own : act[s][terms[k]] <= item.values[k]
  <2>1. k > 1 => k - 1 \in 1..n /\ k - 1 < k
    BY <1>3
  <2>2. item.values[k] = TermScore(row, terms[k])
    BY <1>7
  <2> QED BY <1>1, <1>3, <1>5, <2>1, <2>2
<1>10. Len(item.values) = n /\ Len(item.indices) = n
  BY <1>3, <1>5, <1>7
<1>11. OwnTerms(act, own, item)
  BY <1>5, <1>7, <1>8, <1>9 DEF OwnTerms
<1> QED BY <1>3, <1>10, <1>11 DEF item, Paired

\* The tokens of a text are whole numbers of its own activations.
LEMMA TokensOwn ==
  ASSUME NEW c, c.max_length \in Int, NEW d \in Doc
  PROVE  /\ TokensOf(c, d) \in Int
         /\ \A s \in 1..TokensOf(c, d) : \A v \in Vocab : Activation[d][s][v] \in Int
<1> DEFINE act == Activation[d]
<1>1. act \in Seq([Vocab -> Int])
  BY ActivationAssumption
<1> HIDE DEF act
<1>2. TokensOf(c, d) = IF Len(act) < c.max_length THEN Len(act) ELSE c.max_length
  BY DEF TokensOf, act
<1>3. Len(act) \in Nat /\ \A s \in 1..Len(act) : act[s] \in [Vocab -> Int]
  BY <1>1
<1>4. TokensOf(c, d) \in Int /\ TokensOf(c, d) <= Len(act)
  BY <1>2, <1>3
<1>5. ASSUME NEW s \in 1..TokensOf(c, d), NEW v \in Vocab PROVE act[s][v] \in Int
  <2>1. s \in 1..Len(act)
    BY <1>3, <1>4
  <2> QED BY <1>3, <2>1
<1> QED BY <1>4, <1>5 DEF act

\* Padding a batch to its longest text does not change the vector of a text.
LEMMA SparseItemOwn ==
  ASSUME NEW c, c.max_length \in Int, NEW docs \in Seq(Doc), NEW bs \in Nat \ {0},
         NEW i \in DOMAIN docs
  PROVE  LET item == SparseItems(c, docs, bs)[i]
         IN  /\ OwnTerms(Activation[docs[i]], 1..TokensOf(c, docs[i]), item)
             /\ Paired(item)
<1> DEFINE rows == BatchOf(i, Len(docs), bs)
           own == 1..TokensOf(c, docs[i])
           act == Activation[docs[i]]
           row == BatchRow(c, docs, rows, i)
           tokens == [j \in rows |-> TokensOf(c, docs[j])]
           lengths == {tokens[j] : j \in rows}
           seq_len == Max(lengths)
<1>1. i \in 1..Len(docs) /\ Len(docs) \in Nat /\ docs[i] \in Doc
  OBVIOUS
<1>2. i \in rows /\ IsFiniteSet(rows) /\ rows \subseteq 1..Len(docs)
  BY <1>1, InOwnBatch
<1> HIDE DEF rows
<1>3. \A j \in rows : docs[j] \in Doc /\ TokensOf(c, docs[j]) \in Int
  <2>1. \A j \in 1..Len(docs) : docs[j] \in Doc
    BY <1>1
  <2> QED BY <1>2, <2>1, TokensOwn
<1>4. IsFiniteSet(lengths) /\ lengths # {} /\ \A x \in lengths : x \in Int
  <2>1. DOMAIN tokens = rows /\ \A j \in rows : tokens[j] \in Int
    BY <1>3
  <2> HIDE DEF tokens
  <2>2. IsFiniteSet(lengths)
    BY <1>2, <2>1, ImageFinite
  <2> QED BY <1>2, <2>1, <2>2
<1>5. seq_len \in Int /\ TokensOf(c, docs[i]) <= seq_len
  <2>1. TokensOf(c, docs[i]) \in lengths
    BY <1>2
  <2>2. TokensOf(c, docs[i]) \in Int
    BY <1>2, <1>3
  <2> HIDE DEF lengths
  <2>3. Max(lengths) \in lengths /\ Max(lengths) >= TokensOf(c, docs[i])
    BY <1>4, <2>1, Largest
  <2> QED BY <1>4, <2>2, <2>3
<1>6. lengths = {TokensOf(c, docs[j]) : j \in rows}
  OBVIOUS
<1> HIDE DEF lengths
<1>7. /\ row.output = [s \in 1..seq_len |-> IF s <= TokensOf(c, docs[i]) THEN act[s] ELSE PadActivation]
      /\ row.mask = [s \in 1..seq_len |-> IF s <= TokensOf(c, docs[i]) THEN 1 ELSE 0]
  BY <1>6 DEF BatchRow
<1> HIDE DEF row, seq_len
<1>8. own = {s \in DOMAIN row.mask : row.mask[s] # 0} /\ \A s \in own : row.output[s] = act[s]
  <2>1. TokensOf(c, docs[i]) \in Int
    BY <1>2, <1>3
  <2>2. \A s \in own : s \in 1..seq_len /\ s <= TokensOf(c, docs[i])
    BY <1>5, <2>1
  <2>3. \A s \in 1..seq_len : s <= TokensOf(c, docs[i]) <=> s \in own
    BY <1>5, <2>1
  <2> HIDE DEF own, act
  <2>4. \A s \in 1..seq_len : row.mask[s] # 0 <=> s \in own
    BY <1>7, <2>3
  <2>5. DOMAIN row.mask = 1..seq_len
    BY <1>7
  <2> QED BY <1>7, <2>2, <2>4, <2>5
<1>9. IsFiniteSet(own) /\ \A s \in own : \A v \in Vocab : act[s][v] \in Int
  <2>1. TokensOf(c, docs[i]) \in Int /\ 1 \in Int
    BY <1>2, <1>3
  <2> QED BY <1>1, <2>1, FS_Interval, TokensOwn
<1>10. SparseItems(c, docs, bs)[i] = splade_postprocess(row, Vocab)
  BY DEF SparseItems, row, rows
<1> HIDE DEF own, act
<1>11. LET item == splade_postprocess(row, Vocab)
       IN  OwnTerms(act, own, item) /\ Paired(item)
  BY <1>8, <1>9, SpladeOwn
<1> QED BY <1>10, <1>11 DEF own, act

\* A call of embed that succeeds without a failed allocation answers every text
\* with its own terms.
LEMMA EmbeddedOwn ==
  ASSUME NEW c \in ContextState, NEW docs \in Seq(Doc), NEW batch_size \in Int,
         ~Absent(c, docs),
         NEW outcome \in lembed_sparse_text_embedding_embed(c, docs, batch_size),
         outcome.status = "OK", ~outcome.oom
  PROVE  \A i \in DOMAIN docs :
           /\ OwnTerms(Activation[docs[i]], 1..TokensOf(c, docs[i]), outcome.result.items[i])
           /\ Paired(outcome.result.items[i])
<1> DEFINE bs == OneOf(batch_size, c.batch_size)
           steps == run(TRUE, TRUE, 1)
           items == SparseItems(c, docs, bs)
           filling(bad) == [i \in DOMAIN docs |-> IF i = bad THEN Unfilled(items[i]) ELSE items[i]]
           filled(bad) == [count |-> Len(docs), held |-> TRUE, items |-> filling(bad)]
           result == [count |-> Len(docs), held |-> TRUE, items |-> items]
           n == batch_count(Len(docs), bs)
<1>1. \/ \E bad \in 0..Len(docs) : outcome = Served(filled(bad), Len(docs), n, bad # 0, steps)
      \/ outcome = Failed("OUT_OF_MEMORY", FALSE, [Empty EXCEPT !.count = Len(docs)], 0)
      \/ outcome \in Thrown(steps, "ONNX_RUNTIME", lembed_sparse_embeddings_free(result))
  BY Zenon DEF lembed_sparse_text_embedding_embed
<1>2. outcome # Failed("OUT_OF_MEMORY", FALSE, [Empty EXCEPT !.count = Len(docs)], 0)
  BY DEF Failed
<1>3. outcome \notin Thrown(steps, "ONNX_RUNTIME", lembed_sparse_embeddings_free(result))
  <2> HIDE DEF steps, result
  <2> QED BY DEF Thrown, Failed
<1>4. PICK bad \in 0..Len(docs) : outcome = Served(filled(bad), Len(docs), n, bad # 0, steps)
  BY <1>1, <1>2, <1>3
<1>5. outcome.result.items = filling(bad) /\ bad = 0
  <2> HIDE DEF filling, steps, n
  <2> QED BY <1>4 DEF Served
<1>6. bs \in Nat \ {0} /\ c.max_length \in Int
  BY DEF OneOf, ContextState
<1> HIDE DEF bs
<1> SUFFICES ASSUME NEW i \in DOMAIN docs
             PROVE  /\ OwnTerms(Activation[docs[i]], 1..TokensOf(c, docs[i]), outcome.result.items[i])
                    /\ Paired(outcome.result.items[i])
  OBVIOUS
<1>7. outcome.result.items[i] = items[i]
  <2>1. i # 0
    OBVIOUS
  <2> HIDE DEF items
  <2> QED BY <1>5, <2>1
<1> QED BY <1>6, <1>7, SparseItemOwn

-----------------------------------------------------------------------------
(***************************************************************************)
(* Concatenations.                                                         *)
(***************************************************************************)
\* F starts with the first of seqs and appends the next one at each place.
Appends(F, seqs, n) ==
  /\ Len(seqs) = n
  /\ F[1] = seqs[1]
  /\ \A i \in 2..n : F[i] = F[i - 1] \o seqs[i]

\* It ends with the concatenation of them all.
LEMMA Flattened ==
  ASSUME NEW seqs, NEW n \in Nat \ {0}, NEW F, Appends(F, seqs, n)
  PROVE  FlattenSeq(seqs) = F[n]
<1> USE DEF Appends
<1> DEFINE Unfolds(f) == f = [i \in 1..n |-> IF i = 1 THEN seqs[i] ELSE f[i - 1] \o seqs[i]]
           G == [i \in 1..n |-> F[i]]
           flatten == CHOOSE f : Unfolds(f)
<1>1. FlattenSeq(seqs) = flatten[n]
  <2>1. FlattenSeq(seqs) = (CHOOSE f : f = [i \in 1..Len(seqs) |->
                              IF i = 1 THEN seqs[i] ELSE f[i - 1] \o seqs[i]])[Len(seqs)]
    BY DEF FlattenSeq
  <2> QED BY <2>1
<1>2. Unfolds(G)
  <2>1. ASSUME NEW i \in 1..n
        PROVE  G[i] = IF i = 1 THEN seqs[i] ELSE G[i - 1] \o seqs[i]
    <3>1. i = 1 \/ (i \in 2..n /\ i - 1 \in 1..n)
      OBVIOUS
    <3> QED BY <3>1
  <2>2. G = [i \in 1..n |-> G[i]]
    OBVIOUS
  <2> HIDE DEF G
  <2> QED BY <2>1, <2>2
<1>3. Unfolds(flatten)
  <2> HIDE DEF Unfolds, G
  <2> QED BY <1>2
<1> HIDE DEF flatten, G
<1>4. \A i \in 1..n : /\ flatten[i] = IF i = 1 THEN seqs[i] ELSE flatten[i - 1] \o seqs[i]
                      /\ G[i] = IF i = 1 THEN seqs[i] ELSE G[i - 1] \o seqs[i]
  BY <1>2, <1>3
<1> DEFINE differ == {i \in 1..n : flatten[i] # G[i]}
<1>5. differ = {}
  <2> SUFFICES ASSUME differ # {} PROVE FALSE
    OBVIOUS
  <2>1. \A x \in differ : x \in Int
    OBVIOUS
  <2>2. IsFiniteSet(1..n)
    <3>1. 1 \in Int /\ n \in Int
      OBVIOUS
    <3> QED BY <3>1, FS_Interval
  <2>3. IsFiniteSet(differ)
    BY <2>2, FS_Subset
  <2>4. PICK m \in differ : \A x \in differ : m <= x
    <3> HIDE DEF differ
    <3> QED BY <2>1, <2>3, Smallest
  <2>5. m \in 1..n /\ flatten[m] # G[m]
    OBVIOUS
  <2>6. m # 1
    BY <1>4, <2>5
  <2>7. m - 1 \in 1..n /\ m - 1 \notin differ
    BY <2>4, <2>5, <2>6
  <2>8. flatten[m - 1] = G[m - 1]
    BY <2>7
  <2> QED BY <1>4, <2>5, <2>6, <2>8
<1>6. G[n] = F[n] /\ n \in 1..n
  BY DEF G
<1> QED BY <1>1, <1>5, <1>6

-----------------------------------------------------------------------------
(***************************************************************************)
(* Rows of images.                                                         *)
(***************************************************************************)
\* Batch b of a call: where it starts and ends, and the place in it of each of
\* its items.
LEMMA BatchBlock ==
  ASSUME NEW total \in Nat, NEW bs \in Nat \ {0}, NEW b \in 1..batch_count(total, bs)
  PROVE  LET rows == get_batch(b - 1, total, bs)
             s == (b - 1) * bs
             e == IF s + bs < total THEN s + bs ELSE total
         IN  /\ s \in Nat /\ s < e /\ e <= total /\ b * bs = s + bs
             /\ b = batch_count(total, bs) => e = total
             /\ b # batch_count(total, bs) => e = s + bs
             /\ Cardinality(rows) = e - s
             /\ \A i \in (s + 1)..e :
                  BatchOf(i, total, bs) = rows /\ Rank(rows, i) = i - s
<1> DEFINE n == batch_count(total, bs)
           s == (b - 1) * bs
           e == IF s + bs < total THEN s + bs ELSE total
           rows == get_batch(b - 1, total, bs)
<1>1. /\ n \in Int /\ bs * n <= total + bs - 1 /\ total + bs - 1 < bs * (n + 1)
  BY DEF batch_count, BatchSize
<1>2. b \in Nat \ {0} /\ b <= n
  BY <1>1
<1>3. s \in Nat /\ b * bs = s + bs
  <2> HIDE DEF n
  <2> QED BY <1>2
<1>4. bs * n = n * bs /\ bs * (n + 1) = n * bs + bs /\ n * bs \in Int
  <2> HIDE DEF n
  <2> QED BY <1>1
<1>5. b * bs <= n * bs
  <2> HIDE DEF n
  <2> QED BY <1>1, <1>2
<1>6. b # n => (b + 1) * bs <= n * bs /\ (b + 1) * bs = b * bs + bs
  <2> HIDE DEF n
  <2>1. b # n => b + 1 <= n
    BY <1>1, <1>2
  <2> QED BY <1>1, <1>2, <2>1
<1>7. /\ s < total
      /\ b = n => s + bs >= total
      /\ b # n => s + bs < total
  <2> DEFINE p == n * bs
             q == b * bs
             r == (b + 1) * bs
  <2>1. /\ p \in Int /\ p <= total + bs - 1 /\ total + bs - 1 < p + bs
        /\ q = s + bs /\ q <= p /\ (b # n => r <= p /\ r = q + bs) /\ (b = n => p = q)
    BY <1>1, <1>3, <1>4, <1>5, <1>6
  <2> HIDE DEF p, q, r, s, n
  <2> QED BY <1>3, <2>1
<1>8. /\ s < e /\ e <= total /\ e \in Nat
      /\ b = n => e = total
      /\ b # n => e = s + bs
  <2> HIDE DEF s, n
  <2> QED BY <1>3, <1>7
<1>9. rows = (s + 1)..e
  <2>1. (b - 1) * bs = s /\ ((b - 1) + 1) * bs = s + bs
    BY <1>2, <1>3
  <2>2. rows = {i \in 1..total : i > s /\ i <= s + bs}
    BY <2>1 DEF get_batch, BatchSize
  <2> HIDE DEF s, rows
  <2>3. \A i \in Int : i \in 1..total /\ i > s /\ i <= s + bs <=> i \in (s + 1)..e
    BY <1>3
  <2> QED BY <1>3, <1>8, <2>2, <2>3
<1>10. \A x, y \in Int : Cardinality(x..y) = IF x > y THEN 0 ELSE y - x + 1
  BY FS_Interval
<1> HIDE DEF n, rows
<1>11. Cardinality(rows) = e - s
  <2>1. s + 1 \in Int /\ e \in Int
    BY <1>3, <1>8
  <2>2. Cardinality((s + 1)..e) = IF s + 1 > e THEN 0 ELSE e - (s + 1) + 1
    BY <1>10, <2>1
  <2> HIDE DEF s, e
  <2> QED BY <1>3, <1>8, <1>9, <2>2
<1>12. ASSUME NEW i \in (s + 1)..e
       PROVE  BatchOf(i, total, bs) = rows /\ Rank(rows, i) = i - s
  <2>1. (i - 1) \div bs = b - 1
    <3> DEFINE x == i - 1
               q == x \div bs
               m == q * bs
    <3>1. x \in Nat /\ s <= x /\ x < s + bs
      <4> HIDE DEF s
      <4> QED BY <1>3, <1>8
    <3>2. q \in Int /\ bs * q <= x /\ x < bs * (q + 1)
      <4> HIDE DEF x
      <4> QED BY <3>1
    <3>3. m \in Int /\ m <= x /\ x < m + bs
      <4> HIDE DEF q, x
      <4> QED BY <3>2
    <3>4. m < s + bs /\ s < m + bs
      <4> HIDE DEF m, s, x
      <4> QED BY <1>3, <3>1, <3>3
    <3>5. q < b /\ b - 1 < q + 1
      <4>1. q >= b => m >= b * bs
        <5> HIDE DEF q
        <5> QED BY <3>2
      <4>2. b - 1 >= q + 1 => s >= (q + 1) * bs
        <5> HIDE DEF q
        <5> QED BY <3>2
      <4>3. (q + 1) * bs = m + bs
        <5> HIDE DEF q
        <5> QED BY <3>2
      <4> DEFINE u == b * bs
                 v == (q + 1) * bs
      <4>4. u = s + bs /\ v = m + bs /\ (q >= b => m >= u) /\ (b - 1 >= q + 1 => s >= v)
        BY <1>3, <4>1, <4>2, <4>3
      <4> HIDE DEF u, v, m, s, q
      <4> QED BY <1>3, <3>2, <3>3, <3>4, <4>4
    <3> HIDE DEF q
    <3> QED BY <3>2, <3>5 DEF q
  <2>2. BatchOf(i, total, bs) = rows
    BY <2>1 DEF BatchOf, BatchSize, rows
  <2>3. {u \in rows : u <= i} = (s + 1)..i
    <3> HIDE DEF s
    <3> QED BY <1>3, <1>8, <1>9
  <2>4. Cardinality((s + 1)..i) = i - s
    <3> HIDE DEF s
    <3>1. s + 1 \in Int /\ i \in Int /\ s + 1 <= i
      BY <1>3, <1>8
    <3>2. Cardinality((s + 1)..i) = IF s + 1 > i THEN 0 ELSE i - (s + 1) + 1
      BY <1>10, <3>1
    <3> QED BY <1>3, <3>1, <3>2
  <2> QED BY <2>2, <2>3, <2>4 DEF Rank
<1> QED BY <1>3, <1>8, <1>11, <1>12 DEF n, rows

\* There is a batch for each item; the last batch ends with the last one.
LEMMA SomeBatch ==
  ASSUME NEW total \in Nat \ {0}, NEW bs \in Nat \ {0}
  PROVE  batch_count(total, bs) \in Nat \ {0}
<1> DEFINE n == batch_count(total, bs)
<1>1. n \in Int /\ total + bs - 1 < bs * (n + 1)
  BY DEF batch_count, BatchSize
<1>2. ~(n < 1)
  <2> HIDE DEF n
  <2>1. n < 1 => bs * (n + 1) <= bs * 1
    BY <1>1
  <2> QED BY <1>1, <2>1
<1> QED BY <1>1, <1>2

\* The rows of the batches, one after the other, are the rows of the items in
\* their order: each from its own batch, at its place there.
LEMMA RowsInOrder ==
  ASSUME NEW c, NEW docs \in Seq(Doc), docs # <<>>, NEW bs \in Nat \ {0}, NEW d,
         NEW i \in DOMAIN docs
  PROVE  LET rows == BatchOf(i, Len(docs), bs)
         IN  AllImageRows(c, docs, bs, d)[i] = ImageRows(c, rows, d)[Rank(rows, i)]
<1> DEFINE total == Len(docs)
           n == batch_count(total, bs)
           batch(b) == get_batch(b - 1, total, bs)
           seqs == [b \in 1..n |-> ImageRows(c, batch(b), d)]
           start(b) == (b - 1) * bs
           end(b) == IF start(b) + bs < total THEN start(b) + bs ELSE total
           row(x) == ImageRows(c, BatchOf(x, total, bs), d)[Rank(BatchOf(x, total, bs), x)]
           F == [b \in 1..n |-> [x \in 1..end(b) |-> row(x)]]
<1>1. total \in Nat \ {0} /\ i \in 1..total
  OBVIOUS
<1> HIDE DEF total
<1>2. n \in Nat \ {0}
  BY <1>1, SomeBatch
<1>3. \A b \in 1..n :
        /\ start(b) \in Nat /\ start(b) < end(b) /\ end(b) <= total /\ b * bs = start(b) + bs
        /\ b = n => end(b) = total
        /\ b # n => end(b) = start(b) + bs
        /\ Cardinality(batch(b)) = end(b) - start(b)
        /\ \A x \in (start(b) + 1)..end(b) :
             BatchOf(x, total, bs) = batch(b) /\ Rank(batch(b), x) = x - start(b)
  BY <1>1, BatchBlock
<1>4. \A b \in 1..n : end(b) \in Nat
  <2> HIDE DEF n, start
  <2> QED BY <1>1, <1>3
<1>5. \A b \in 2..n : start(b) = end(b - 1)
  <2> SUFFICES ASSUME NEW b \in 2..n PROVE start(b) = end(b - 1)
    OBVIOUS
  <2>1. b - 1 \in 1..n /\ b - 1 # n
    BY <1>2
  <2>2. end(b - 1) = start(b - 1) + bs
    BY <1>3, <2>1
  <2>3. (b - 1) * bs = start(b - 1) + bs
    BY <1>3, <2>1
  <2> QED BY <2>2, <2>3
<1>6. start(1) = 0
  OBVIOUS
<1> HIDE DEF n, batch, start, end
<1>7. \A b \in 1..n :
        /\ DOMAIN seqs[b] = 1..(end(b) - start(b)) /\ Len(seqs[b]) = end(b) - start(b)
        /\ \A y \in 1..(end(b) - start(b)) : seqs[b][y] = row(start(b) + y)
        /\ seqs[b] = [y \in 1..(end(b) - start(b)) |-> seqs[b][y]]
  <2> SUFFICES ASSUME NEW b \in 1..n
               PROVE  /\ DOMAIN seqs[b] = 1..(end(b) - start(b)) /\ Len(seqs[b]) = end(b) - start(b)
                      /\ \A y \in 1..(end(b) - start(b)) : seqs[b][y] = row(start(b) + y)
                      /\ seqs[b] = [y \in 1..(end(b) - start(b)) |-> seqs[b][y]]
    OBVIOUS
  <2> DEFINE k == end(b) - start(b)
  <2>1. k \in Nat
    BY <1>3, <1>4
  <2>2. seqs[b] = ImageRows(c, batch(b), d) /\ Cardinality(batch(b)) = k
    BY <1>3
  <2>3. DOMAIN ImageRows(c, batch(b), d) = 1..k
    BY <2>2 DEF ImageRows, CopiedRows
  <2>4. ImageRows(c, batch(b), d) = [y \in 1..k |-> ImageRows(c, batch(b), d)[y]]
    BY <2>2 DEF ImageRows, CopiedRows
  <2>5. ASSUME NEW y \in 1..k PROVE seqs[b][y] = row(start(b) + y)
    <3>1. start(b) + y \in (start(b) + 1)..end(b) /\ (start(b) + y) - start(b) = y
      BY <1>3, <1>4, <2>1
    <3>2. /\ BatchOf(start(b) + y, total, bs) = batch(b)
          /\ Rank(batch(b), start(b) + y) = y
      BY <1>3, <3>1
    <3> QED BY <2>2, <3>2
  <2>6. Len(seqs[b]) = k
    <3> HIDE DEF k, seqs
    <3> QED BY <2>1, <2>2, <2>3, <2>4
  <2> HIDE DEF row, seqs
  <2> QED BY <2>2, <2>3, <2>4, <2>5, <2>6
<1>8. seqs[1] = F[1]
  <2>1. 1 \in 1..n /\ end(1) - start(1) = end(1) /\ \A y \in 1..end(1) : start(1) + y = y
    BY <1>2, <1>4, <1>6
  <2>2. F[1] = [x \in 1..end(1) |-> row(x)]
    BY <2>1
  <2>3. DOMAIN seqs[1] = 1..end(1) /\ seqs[1] = [y \in 1..end(1) |-> seqs[1][y]]
    BY <1>7, <2>1
  <2>4. \A y \in 1..end(1) : seqs[1][y] = row(start(1) + y)
    BY <1>7, <2>1
  <2> HIDE DEF seqs, F, row
  <2>5. \A y \in 1..end(1) : seqs[1][y] = row(y)
    BY <2>1, <2>4
  <2> QED BY <2>2, <2>3, <2>5
<1>9. \A b \in 2..n : F[b] = F[b - 1] \o seqs[b]
  <2> SUFFICES ASSUME NEW b \in 2..n PROVE F[b] = F[b - 1] \o seqs[b]
    OBVIOUS
  <2> DEFINE s == start(b)
             e == end(b)
             left == F[b - 1]
             right == seqs[b]
  <2>1. b \in 1..n /\ b - 1 \in 1..n /\ end(b - 1) = s
    BY <1>2, <1>5
  <2>2. s \in Nat /\ e \in Nat /\ s < e
    BY <1>3, <1>4, <2>1
  <2>3. left = [x \in 1..s |-> row(x)] /\ F[b] = [x \in 1..e |-> row(x)]
    BY <2>1
  <2>4. /\ Len(right) = e - s /\ \A y \in 1..(e - s) : right[y] = row(s + y)
    BY <1>7, <2>1
  <2> HIDE DEF seqs, F, row, left, right, s, e
  <2> DEFINE V == {row(x) : x \in 1..e}
  <2>5. left \in Seq(V) /\ Len(left) = s
    <3>1. \A x \in 1..s : row(x) \in V
      BY <2>2
    <3> HIDE DEF V
    <3> QED BY <2>2, <2>3, <3>1
  <2>6. right \in Seq(V)
    <3>1. \A y \in 1..(e - s) : row(s + y) \in V
      <4>1. \A y \in 1..(e - s) : s + y \in 1..e
        BY <2>2
      <4> QED BY <4>1
    <3>2. right = [y \in 1..(e - s) |-> right[y]] /\ e - s \in Nat
      BY <1>7, <2>1, <2>2 DEF right, s, e
    <3> HIDE DEF V
    <3> QED BY <2>4, <3>1, <3>2
  <2>7. /\ left \o right \in Seq(V) /\ Len(left \o right) = e
        /\ \A x \in 1..e : (left \o right)[x] = IF x <= s THEN left[x] ELSE right[x - s]
    <3> HIDE DEF V
    <3>1. Len(left) + Len(right) = e
      BY <2>2, <2>4, <2>5
    <3> QED BY <2>4, <2>5, <2>6, <3>1, ConcatProperties
  <2>8. ASSUME NEW x \in 1..e
        PROVE  (IF x <= s THEN left[x] ELSE right[x - s]) = row(x)
    <3>1. CASE x <= s
      BY <2>2, <2>3, <3>1
    <3>2. CASE ~(x <= s)
      <4>1. x - s \in 1..(e - s) /\ s + (x - s) = x
        BY <2>2, <3>2
      <4> QED BY <2>4, <3>2, <4>1
    <3> QED BY <3>1, <3>2
  <2>9. left \o right = [x \in 1..e |-> row(x)]
    <3>1. left \o right = [x \in 1..e |-> (left \o right)[x]]
      <4> DEFINE both == left \o right
      <4> HIDE DEF V, both
      <4>1. both \in [1..e -> V]
        BY <2>7, LenProperties DEF both
      <4>2. both = [x \in 1..e |-> both[x]]
        BY <4>1
      <4> QED BY <4>2 DEF both
    <3> QED BY <2>7, <2>8, <3>1
  <2> QED BY <2>3, <2>9 DEF left, right
<1>10. FlattenSeq(seqs) = F[n]
  <2>1. Len(seqs) = n
    BY <1>2
  <2> HIDE DEF seqs, F, row
  <2>2. F[1] = seqs[1]
    BY <1>8
  <2>3. n \in Nat \ {0} /\ \A b \in 2..n : F[b] = F[b - 1] \o seqs[b]
    BY <1>2, <1>9
  <2>4. Appends(F, seqs, n)
    BY <2>1, <2>2, <2>3 DEF Appends
  <2> QED BY <2>3, <2>4, Flattened
<1>11. AllImageRows(c, docs, bs, d) = FlattenSeq(seqs)
  BY DEF AllImageRows, n, total, batch
<1>12. F[n][i] = row(i)
  <2>1. n \in 1..n /\ end(n) = total
    BY <1>2, <1>3
  <2> HIDE DEF row
  <2> QED BY <1>1, <2>1
<1> HIDE DEF F, seqs
<1> QED BY <1>10, <1>11, <1>12 DEF total

\* The cells of row r of width w.
LEMMA RowCells ==
  ASSUME NEW n \in Nat, NEW w \in Nat \ {0}, NEW r \in 1..n
  PROVE  /\ \A j \in 1..w : /\ (r - 1) * w + j \in 1..(n * w)
                            /\ ((r - 1) * w + j - 1) \div w = r - 1
                            /\ ((r - 1) * w + j - 1) % w = j - 1
         /\ \A k \in 1..(n * w) : (k - 1) \div w = r - 1 => k - (r - 1) * w \in 1..w
<1> DEFINE p == (r - 1) * w
           m == n * w
<1>1. p \in Nat /\ m \in Nat /\ p + w <= m
  <2>1. r * w = p + w /\ r * w <= n * w
    OBVIOUS
  <2>2. p \in Nat /\ m \in Nat
    OBVIOUS
  <2> QED BY <2>1, <2>2
<1>2. ASSUME NEW j \in 1..w
      PROVE  p + j \in 1..m /\ (p + j - 1) \div w = r - 1 /\ (p + j - 1) % w = j - 1
  <2>1. p + j \in 1..m
    <3> HIDE DEF p, m
    <3> QED BY <1>1
  <2>2. j - 1 \in 0..(w - 1)
    OBVIOUS
  <2>3. (p + (j - 1)) \div w = r - 1 /\ (p + (j - 1)) % w = j - 1
    <3> DEFINE x == j - 1
               y == r - 1
    <3>1. x \in 0..(w - 1) /\ y \in Nat
      BY <2>2
    <3> HIDE DEF x, y
    <3>2. (y * w + x) \div w = y /\ (y * w + x) % w = x
      BY <3>1
    <3> QED BY <3>2 DEF x, y
  <2>4. p + j - 1 = p + (j - 1)
    <3> HIDE DEF p
    <3> QED BY <1>1
  <2> HIDE DEF p
  <2> QED BY <2>1, <2>3, <2>4
<1>3. ASSUME NEW k \in 1..m, (k - 1) \div w = r - 1 PROVE k - p \in 1..w
  <2> DEFINE x == k - 1
             y == r - 1
  <2>1. x \in Nat /\ y \in Nat /\ x \div w = y
    BY <1>1, <1>3
  <2>2. w * y <= x /\ x < w * (y + 1) /\ w * y = y * w /\ w * (y + 1) = y * w + w
    <3> HIDE DEF x, y
    <3> QED BY <2>1
  <2>3. p <= x /\ x < p + w
    <3>1. y * w = p
      OBVIOUS
    <3> HIDE DEF x, p, y
    <3> QED BY <2>2, <3>1
  <2> HIDE DEF p
  <2> QED BY <1>1, <2>3
<1> QED BY <1>2, <1>3

\* Component j of item i, scaled by the norm of its w components.
ScaledCell(i, j, w) == [cell |-> Cell(i, j), norm |-> {Cell(i, k) : k \in 1..w}]

\* A row of the result holds the cells of its item, scaled by their norm.
LEMMA OwnRow ==
  ASSUME NEW items, NEW n \in Nat, Len(items) = n, NEW w \in Nat \ {0}, NEW shape,
         shape.item = w, NEW r \in 1..n, NEW j \in 1..w
  PROVE  CopiedRows(l2_normalize(Tensor(items, shape), n, w), n, w)[r][j] =
           ScaledCell(items[r], j, w)
<1> DEFINE flat == Tensor(items, shape)
           m == n * w
           p == (r - 1) * w
           scaled == l2_normalize(flat, n, w)
           row(x) == (x - 1) \div w
           place(x) == (x - 1) % w
<1>1. /\ \A k \in 1..w : p + k \in 1..m /\ row(p + k) = r - 1 /\ place(p + k) = k - 1
      /\ \A k \in 1..m : row(k) = r - 1 => k - p \in 1..w
  BY RowCells
<1>2. p \in Nat /\ m \in Nat
  OBVIOUS
<1>3. /\ DOMAIN flat = 1..m
      /\ \A x \in 1..m : flat[x] = Cell(items[row(x) + 1], place(x) + 1)
  BY DEF Tensor
<1>4. /\ CopiedRows(scaled, n, w)[r][j] = At(scaled, p + j)
      /\ DOMAIN scaled = DOMAIN flat
      /\ \A x \in DOMAIN flat : x <= m =>
            scaled[x] = [cell |-> flat[x],
                         norm |-> {At(flat, y) : y \in {y \in 1..m : row(y) = row(x)}}]
  BY DEF CopiedRows, l2_normalize
<1> HIDE DEF m, p, row, place, flat, scaled
<1>5. ASSUME NEW k \in 1..w PROVE At(flat, p + k) = Cell(items[r], k) /\ flat[p + k] = Cell(items[r], k)
  <2>1. p + k \in 1..m /\ row(p + k) = r - 1 /\ place(p + k) = k - 1
    BY <1>1
  <2>2. (r - 1) + 1 = r /\ (k - 1) + 1 = k
    OBVIOUS
  <2> QED BY <1>3, <2>1, <2>2 DEF At
<1> DEFINE own == {y \in 1..m : row(y) = row(p + j)}
           norm == {At(flat, y) : y \in own}
<1>6. own = {p + k : k \in 1..w}
  <2>1. row(p + j) = r - 1
    BY <1>1
  <2>2. ASSUME NEW y \in own PROVE y \in {p + k : k \in 1..w}
    <3>1. y - p \in 1..w /\ y \in Int
      BY <1>1, <1>2, <2>1
    <3>2. p + (y - p) = y
      BY <1>2, <3>1
    <3> QED BY <3>1, <3>2
  <2>3. ASSUME NEW k \in 1..w PROVE p + k \in own
    BY <1>1, <2>1
  <2> HIDE DEF own
  <2> QED BY <2>2, <2>3
<1>7. norm = {Cell(items[r], k) : k \in 1..w}
  <2> HIDE DEF own
  <2> QED BY <1>5, <1>6
<1>8. scaled[p + j] = [cell |-> Cell(items[r], j), norm |-> norm] /\ p + j \in DOMAIN scaled
  <2>1. p + j \in DOMAIN flat /\ p + j <= m
    <3>1. p + j \in 1..m
      BY <1>1
    <3> QED BY <1>2, <1>3, <3>1
  <2> QED BY <1>4, <1>5, <2>1
<1> HIDE DEF norm
<1>9. CopiedRows(scaled, n, w)[r][j] = [cell |-> Cell(items[r], j), norm |-> norm]
  BY <1>4, <1>8 DEF At
<1> QED BY <1>7, <1>9 DEF scaled, flat, ScaledCell

\* An image's row of the result is its own when the model answers vectors of
\* the context's dimension.
LEMMA ImageRowOwn ==
  ASSUME NEW c, NEW docs \in Seq(Doc), docs # <<>>, NEW bs \in Nat \ {0},
         c.dim \in Nat \ {0}, c.shape.item = c.dim,
         NEW i \in DOMAIN docs, NEW j \in 1..c.dim
  PROVE  AllImageRows(c, docs, bs, c.dim)[i][j] = ScaledCell(i, j, c.dim)
<1> DEFINE rows == BatchOf(i, Len(docs), bs)
           items == Ascending(rows)
           n == Cardinality(rows)
           r == Rank(rows, i)
           w == c.dim
<1>1. i \in 1..Len(docs) /\ Len(docs) \in Nat
  OBVIOUS
<1>2. i \in rows /\ IsFiniteSet(rows) /\ \A x \in rows : x \in Int
  BY <1>1, InOwnBatch
<1>3. n \in Nat /\ Len(items) = n /\ r \in 1..n /\ items[r] = i
  <2> HIDE DEF rows
  <2> QED BY <1>2, Listed
<1>4. AllImageRows(c, docs, bs, w)[i] = ImageRows(c, rows, w)[r]
  BY RowsInOrder
<1>5. ImageRows(c, rows, w) = CopiedRows(l2_normalize(Tensor(items, c.shape), n, w), n, w)
  BY DEF ImageRows
<1> HIDE DEF rows, items, n, r
<1>6. CopiedRows(l2_normalize(Tensor(items, c.shape), n, w), n, w)[r][j] = ScaledCell(items[r], j, w)
  <2>1. w \in Nat \ {0} /\ c.shape.item = w /\ j \in 1..w
    OBVIOUS
  <2> HIDE DEF w
  <2> QED BY <1>3, <2>1, OwnRow
<1> QED BY <1>3, <1>4, <1>5, <1>6

-----------------------------------------------------------------------------
(***************************************************************************)
(* ORT objects.                                                            *)
(***************************************************************************)
Names == {"session", "options", "input name", "output name", "memory", "ids", "mask",
          "type", "input", "info", "output"}
Object == Names \X Nat
Step == [op : {"make", "use", "drop"}, objects : SUBSET Object]

Touched(steps) == UNION {steps[i].objects : i \in DOMAIN steps}
Released(steps) ==
  UNION {steps[i].objects : i \in {i \in DOMAIN steps : steps[i].op = "drop"}}

\* What an operation leaves behind is what it touches and does not release.
LEMMA LeftIsUnreleased ==
  ASSUME NEW steps \in Seq(Step) PROVE LeftBehind(steps) = Touched(steps) \ Released(steps)
<1>1. DOMAIN steps = 1..Len(steps)
  OBVIOUS
<1>2. ASSUME NEW o PROVE o \in Released(steps) <=>
                           \E i \in 1..Len(steps) : steps[i].op = "drop" /\ o \in steps[i].objects
  BY <1>1 DEF Released
<1> QED BY <1>1, <1>2 DEF LeftBehind, Alive, Touched

\* One step.
LEMMA OneStep ==
  ASSUME NEW x \in Step
  PROVE  /\ <<x>> \in Seq(Step)
         /\ Touched(<<x>>) = x.objects
         /\ Released(<<x>>) = IF x.op = "drop" THEN x.objects ELSE {}
BY DEF Touched, Released

\* One operation after the other.
LEMMA Joined ==
  ASSUME NEW s \in Seq(Step), NEW t \in Seq(Step)
  PROVE  /\ s \o t \in Seq(Step)
         /\ Touched(s \o t) = Touched(s) \union Touched(t)
         /\ Released(s \o t) = Released(s) \union Released(t)
<1> DEFINE both == s \o t
           m == Len(s)
           n == Len(t)
<1>1. /\ m \in Nat /\ n \in Nat /\ DOMAIN s = 1..m /\ DOMAIN t = 1..n
      /\ both \in Seq(Step) /\ DOMAIN both = 1..(m + n)
      /\ \A i \in 1..(m + n) : both[i] = IF i <= m THEN s[i] ELSE t[i - m]
  BY ConcatProperties
<1> HIDE DEF both, m, n
<1>2. \A i \in DOMAIN s : i \in DOMAIN both /\ both[i] = s[i]
  BY <1>1
<1>3. \A i \in DOMAIN t : m + i \in DOMAIN both /\ both[m + i] = t[i]
  <2> SUFFICES ASSUME NEW i \in DOMAIN t PROVE m + i \in DOMAIN both /\ both[m + i] = t[i]
    OBVIOUS
  <2>1. m + i \in 1..(m + n) /\ ~(m + i <= m) /\ (m + i) - m = i
    BY <1>1
  <2> QED BY <1>1, <2>1
<1>4. \A i \in DOMAIN both : \/ i \in DOMAIN s /\ both[i] = s[i]
                             \/ i - m \in DOMAIN t /\ both[i] = t[i - m]
  <2> SUFFICES ASSUME NEW i \in 1..(m + n)
               PROVE  \/ i \in 1..m /\ both[i] = s[i]
                      \/ i - m \in 1..n /\ both[i] = t[i - m]
    BY <1>1
  <2>1. CASE i <= m
    BY <1>1, <2>1
  <2>2. CASE ~(i <= m)
    BY <1>1, <2>2
  <2> QED BY <2>1, <2>2
<1>5. Touched(both) = Touched(s) \union Touched(t)
  BY <1>2, <1>3, <1>4 DEF Touched
<1>6. Released(both) = Released(s) \union Released(t)
  BY <1>2, <1>3, <1>4 DEF Released
<1> QED BY <1>1, <1>5, <1>6 DEF both

\* Steps well-formed, and what they touch and release: of the steps alone, ...
Balance(steps, touched, released) ==
  steps \in Seq(Step) /\ Touched(steps) = touched /\ Released(steps) = released

\* ... of two operations one after the other, ...
LEMMA BalanceJoined ==
  ASSUME NEW s, NEW t, NEW a, NEW b, NEW x, NEW y, Balance(s, a, x), Balance(t, b, y)
  PROVE  Balance(s \o t, a \union b, x \union y)
BY Joined DEF Balance

\* ... of one step, ...
LEMMA BalanceOne ==
  ASSUME NEW x \in Step
  PROVE  Balance(<<x>>, x.objects, IF x.op = "drop" THEN x.objects ELSE {})
BY OneStep DEF Balance

\* ... of a pair of steps, ...
LEMMA BalanceTwo ==
  ASSUME NEW x \in Step, NEW y \in Step
  PROVE  Balance(<<x, y>>, x.objects \union y.objects,
                 (IF x.op = "drop" THEN x.objects ELSE {})
                 \union (IF y.op = "drop" THEN y.objects ELSE {}))
<1> DEFINE s == <<x, y>>
<1>1. s \in Seq(Step) /\ DOMAIN s = {1, 2} /\ s[1] = x /\ s[2] = y
  OBVIOUS
<1> HIDE DEF s
<1>2. Touched(s) = x.objects \union y.objects
  BY <1>1 DEF Touched
<1>3. Released(s) = (IF x.op = "drop" THEN x.objects ELSE {})
                    \union (IF y.op = "drop" THEN y.objects ELSE {})
  BY <1>1 DEF Released
<1> QED BY <1>1, <1>2, <1>3 DEF Balance, s

\* ... of a triple, ...
LEMMA BalanceThree ==
  ASSUME NEW x \in Step, NEW y \in Step, NEW z \in Step
  PROVE  Balance(<<x, y, z>>, x.objects \union y.objects \union z.objects,
                 (IF x.op = "drop" THEN x.objects ELSE {})
                 \union (IF y.op = "drop" THEN y.objects ELSE {})
                 \union (IF z.op = "drop" THEN z.objects ELSE {}))
<1> DEFINE s == <<x, y, z>>
<1>1. s \in Seq(Step) /\ DOMAIN s = {1, 2, 3} /\ s[1] = x /\ s[2] = y /\ s[3] = z
  OBVIOUS
<1> HIDE DEF s
<1>2. Touched(s) = x.objects \union y.objects \union z.objects
  BY <1>1 DEF Touched
<1>3. Released(s) = (IF x.op = "drop" THEN x.objects ELSE {})
                    \union (IF y.op = "drop" THEN y.objects ELSE {})
                    \union (IF z.op = "drop" THEN z.objects ELSE {})
  BY <1>1 DEF Released
<1> QED BY <1>1, <1>2, <1>3 DEF Balance, s

\* ... and of a list of one operation ...
LEMMA BalanceListOne ==
  ASSUME NEW seqs, Len(seqs) = 1, NEW a, NEW x, Balance(seqs[1], a, x)
  PROVE  Balance(FlattenSeq(seqs), a, x)
<1> DEFINE F == [i \in 1..1 |-> seqs[1]]
<1>1. Appends(F, seqs, 1) /\ F[1] = seqs[1] /\ 1 \in Nat \ {0}
  BY DEF Appends
<1> HIDE DEF F
<1>2. FlattenSeq(seqs) = F[1]
  BY <1>1, Flattened
<1> QED BY <1>1, <1>2

\* ... or of two.
LEMMA BalanceListTwo ==
  ASSUME NEW seqs, Len(seqs) = 2, NEW a, NEW b, NEW x, NEW y,
         Balance(seqs[1], a, x), Balance(seqs[2], b, y)
  PROVE  Balance(FlattenSeq(seqs), a \union b, x \union y)
<1> DEFINE F == [i \in 1..2 |-> IF i = 1 THEN seqs[1] ELSE seqs[1] \o seqs[2]]
<1>1. F[1] = seqs[1] /\ F[2] = seqs[1] \o seqs[2] /\ \A i \in 2..2 : i = 2 /\ i - 1 = 1
  OBVIOUS
<1> HIDE DEF F
<1>2. FlattenSeq(seqs) = F[2]
  <2>1. ASSUME NEW i \in 2..2 PROVE F[i] = F[i - 1] \o seqs[i]
    <3>1. i = 2 /\ i - 1 = 1
      BY <1>1
    <3>2. F[2] = F[1] \o seqs[2]
      BY <1>1
    <3> QED BY <3>1, <3>2, Zenon
  <2>2. 2 \in Nat \ {0} /\ Appends(F, seqs, 2)
    BY <1>1, <2>1 DEF Appends
  <2> QED BY <2>2, Flattened
<1> QED BY <1>1, <1>2, BalanceJoined

\* Steps and objects are what they should be.
LEMMA StepsAndObjects ==
  /\ \A objects \in SUBSET Object :
       /\ Make(objects) \in Step /\ Make(objects).op = "make" /\ Make(objects).objects = objects
       /\ Drop(objects) \in Step /\ Drop(objects).op = "drop" /\ Drop(objects).objects = objects
  /\ Use \in Step /\ Use.op = "use" /\ Use.objects = {}
  /\ \A name \in Names : Obj(name) \in Object /\ \A i \in Nat : Nth(name, i) \in Object
BY DEF Make, Drop, Use, Step, Obj, Nth, Object

\* An output is copied and released with its type info.
LEMMA BalanceExtract ==
  ASSUME NEW i \in Nat
  PROVE  Balance(extract(i), {Nth("info", i)} \union {Nth("output", i)} ,
                 {Nth("info", i)} \union {Nth("output", i)})
<1> DEFINE info == {Nth("info", i)}
           output == {Nth("output", i)}
           first == <<Make(info), Use, Use>>
           last == <<Use, Drop(info), Drop(output)>>
           s == <<Make(info), Use, Use, Use, Drop(info), Drop(output)>>
<1>1. info \in SUBSET Object /\ output \in SUBSET Object
  <2>1. Nth("info", i) \in Object /\ Nth("output", i) \in Object
    BY DEF Nth, Object, Names
  <2> QED BY <2>1
<1> HIDE DEF info, output
<1>2. /\ Make(info) \in Step /\ Make(info).op = "make" /\ Make(info).objects = info
      /\ Drop(info) \in Step /\ Drop(info).op = "drop" /\ Drop(info).objects = info
      /\ Drop(output) \in Step /\ Drop(output).op = "drop" /\ Drop(output).objects = output
      /\ Use \in Step /\ Use.op = "use" /\ Use.objects = {}
  BY <1>1, StepsAndObjects
<1>3. /\ s \in Seq(Step) /\ DOMAIN s = {1, 2, 3, 4, 5, 6}
      /\ s[1] = Make(info) /\ s[2] = Use /\ s[3] = Use /\ s[4] = Use
      /\ s[5] = Drop(info) /\ s[6] = Drop(output)
  BY <1>2
<1> HIDE DEF s
<1>4. Touched(s) = info \union output
  BY <1>2, <1>3 DEF Touched
<1>5. Released(s) = info \union output
  BY <1>2, <1>3 DEF Released
<1> QED BY <1>3, <1>4, <1>5 DEF Balance, s, info, output, extract

\* An inference over token ids leaves nothing behind.
LEMMA RunClean == LeftBehind(run(TRUE, TRUE, 1)) = {}
<1> DEFINE memory == {Obj("memory")}
           ids == {Obj("ids")}
           mask == {Obj("mask")}
           type == {Obj("type")}
           info == {Nth("info", 1)}
           output == {Nth("output", 1)}
           outputs == {Nth("output", i) : i \in 1..1}
           inputs == ids \union mask \union type
           copies == [i \in 1..1 |-> extract(i)]
           s == <<Make(memory), Make(ids)>> \o <<Make(mask)>> \o <<Make(type)>>
                \o <<Make(outputs)>> \o FlattenSeq(copies) \o <<Drop(inputs), Drop(memory)>>
<1>1. run(TRUE, TRUE, 1) = s
  BY DEF run
<1>2. outputs = output
  OBVIOUS
<1>3. /\ memory \in SUBSET Object /\ ids \in SUBSET Object /\ mask \in SUBSET Object
      /\ type \in SUBSET Object /\ output \in SUBSET Object
  <2>1. /\ Obj("memory") \in Object /\ Obj("ids") \in Object /\ Obj("mask") \in Object
        /\ Obj("type") \in Object /\ Nth("output", 1) \in Object
    BY StepsAndObjects DEF Names
  <2> QED BY <2>1
<1>4. Len(copies) = 1 /\ copies[1] = extract(1) /\ 1 \in Nat
  OBVIOUS
<1> HIDE DEF memory, ids, mask, type, output, outputs, copies
<1>5. inputs \in SUBSET Object
  BY <1>3
<1>6. /\ \A x \in SUBSET Object : Balance(<<Make(x)>>, x, {})
      /\ \A x, y \in SUBSET Object :
           /\ Balance(<<Make(x), Make(y)>>, x \union y, {} \union {})
           /\ Balance(<<Drop(x), Drop(y)>>, x \union y, x \union y)
  BY StepsAndObjects, BalanceOne, BalanceTwo
<1>7. Balance(FlattenSeq(copies), info \union output, info \union output)
  BY <1>4, BalanceExtract, BalanceListOne DEF output
<1> HIDE DEF info, inputs
<1>8. Balance(s,
        memory \union ids \union mask \union type \union output \union (info \union output)
          \union (inputs \union memory),
        {} \union {} \union {} \union {} \union {} \union (info \union output)
          \union (inputs \union memory))
  BY <1>2, <1>3, <1>5, <1>6, <1>7, BalanceJoined, Zenon
<1>9. LeftBehind(s) = Touched(s) \ Released(s)
  BY <1>8, LeftIsUnreleased DEF Balance
<1> HIDE DEF s
<1> QED BY <1>1, <1>8, <1>9 DEF Balance, inputs

\* An inference over one float tensor leaves nothing behind.
LEMMA RunFloatClean == LeftBehind(run_float(1)) = {}
<1> DEFINE memory == {Obj("memory")}
           input == {Obj("input")}
           info == {Nth("info", 1)}
           output == {Nth("output", 1)}
           outputs == {Nth("output", i) : i \in 1..1}
           copies == [i \in 1..1 |-> extract(i)]
           s == <<Make(memory), Make(input)>> \o <<Make(outputs)>>
                \o FlattenSeq(copies) \o <<Drop(input), Drop(memory)>>
<1>1. run_float(1) = s
  BY DEF run_float
<1>2. outputs = output
  OBVIOUS
<1>3. memory \in SUBSET Object /\ input \in SUBSET Object /\ output \in SUBSET Object
  <2>1. /\ Obj("memory") \in Object /\ Obj("input") \in Object /\ Nth("output", 1) \in Object
    BY StepsAndObjects DEF Names
  <2> QED BY <2>1
<1>4. Len(copies) = 1 /\ copies[1] = extract(1) /\ 1 \in Nat
  OBVIOUS
<1> HIDE DEF memory, input, output, outputs, copies
<1>5. /\ \A x \in SUBSET Object : Balance(<<Make(x)>>, x, {})
      /\ \A x, y \in SUBSET Object :
           /\ Balance(<<Make(x), Make(y)>>, x \union y, {} \union {})
           /\ Balance(<<Drop(x), Drop(y)>>, x \union y, x \union y)
  BY StepsAndObjects, BalanceOne, BalanceTwo
<1>6. Balance(FlattenSeq(copies), info \union output, info \union output)
  BY <1>4, BalanceExtract, BalanceListOne DEF output
<1> HIDE DEF info
<1>7. Balance(s,
        memory \union input \union output \union (info \union output) \union (input \union memory),
        {} \union {} \union {} \union (info \union output) \union (input \union memory))
  BY <1>2, <1>3, <1>5, <1>6, BalanceJoined, Zenon
<1>8. LeftBehind(s) = Touched(s) \ Released(s)
  BY <1>7, LeftIsUnreleased DEF Balance
<1> HIDE DEF s
<1> QED BY <1>1, <1>7, <1>8 DEF Balance

\* The names of one or two inputs and of one output are copied and freed.
LEMMA NamesClean ==
  ASSUME NEW inputs \in {1, 2}
  PROVE  \E x : Balance(query_io_names(inputs, 1), x, x)
<1> DEFINE pair(objects) == <<Make(objects), Drop(objects)>>
           in(i) == {Nth("input name", i)}
           out(i) == {Nth("output name", i)}
           given == [i \in 1..inputs |-> pair(in(i))]
           answered == [i \in 1..1 |-> pair(out(i))]
           s == <<Use>> \o FlattenSeq(given) \o <<Use>> \o FlattenSeq(answered)
<1>1. query_io_names(inputs, 1) = s
  BY DEF query_io_names
<1>2. in(1) \in SUBSET Object /\ in(2) \in SUBSET Object /\ out(1) \in SUBSET Object
  <2>1. /\ Nth("input name", 1) \in Object /\ Nth("input name", 2) \in Object
        /\ Nth("output name", 1) \in Object
    BY StepsAndObjects DEF Names
  <2> QED BY <2>1
<1>3. \A x \in SUBSET Object : Balance(pair(x), x, x)
  <2> SUFFICES ASSUME NEW x \in SUBSET Object PROVE Balance(pair(x), x, x)
    OBVIOUS
  <2>1. Balance(pair(x), x \union x, {} \union x)
    BY StepsAndObjects, BalanceTwo
  <2>2. x \union x = x /\ {} \union x = x
    OBVIOUS
  <2> HIDE DEF pair
  <2> QED BY <2>1, <2>2
<1> HIDE DEF pair, in, out
<1>4. /\ Len(answered) = 1 /\ answered[1] = pair(out(1))
      /\ Len(given) = inputs /\ given[1] = pair(in(1))
      /\ inputs = 2 => given[2] = pair(in(2))
  OBVIOUS
<1> HIDE DEF given, answered
<1>5. Balance(<<Use>>, {}, {})
  BY StepsAndObjects, BalanceOne
<1>6. Balance(FlattenSeq(answered), out(1), out(1))
  BY <1>2, <1>3, <1>4, BalanceListOne
<1>7. \E x : Balance(FlattenSeq(given), x, x)
  <2>1. CASE inputs = 1
    <3>1. Balance(FlattenSeq(given), in(1), in(1))
      BY <1>2, <1>3, <1>4, <2>1, BalanceListOne
    <3> QED BY <3>1
  <2>2. CASE inputs = 2
    <3>1. Balance(FlattenSeq(given), in(1) \union in(2), in(1) \union in(2))
      BY <1>2, <1>3, <1>4, <2>2, BalanceListTwo
    <3> QED BY <3>1
  <2> QED BY <2>1, <2>2
<1>8. PICK x : Balance(FlattenSeq(given), x, x)
  BY <1>7
<1>9. Balance(s, {} \union x \union {} \union out(1), {} \union x \union {} \union out(1))
  BY <1>5, <1>6, <1>8, BalanceJoined, Zenon
<1> HIDE DEF s
<1> QED BY <1>1, <1>9, Zenon

\* Loading a session leaves nothing behind but the session.
LEMMA LoadClean ==
  ASSUME NEW inputs \in {1, 2}
  PROVE  /\ LeftBehind(load_from_file(1, inputs, 1)) \subseteq {SESSION}
         /\ LeftBehind(load_from_memory(1, inputs, 1)) \subseteq {SESSION}
<1> DEFINE options == {Obj("options")}
           session == {SESSION}
           names == query_io_names(inputs, 1)
           set_up == <<Make(options), Use>> \o <<Use, Use>>
           s == set_up \o <<Make(session), Drop(options), Use>> \o names
<1>1. load_from_file(1, inputs, 1) = s /\ load_from_memory(1, inputs, 1) = s
  <2>1. session_options(1) = set_up
    BY DEF session_options
  <2> HIDE DEF set_up
  <2> QED BY <2>1 DEF load_from_file, load_from_memory
<1>2. options \in SUBSET Object /\ session \in SUBSET Object
  <2>1. Obj("options") \in Object /\ SESSION \in Object
    BY StepsAndObjects DEF Names, SESSION
  <2> QED BY <2>1
<1>3. PICK x : Balance(names, x, x)
  BY NamesClean
<1> HIDE DEF options, session, names
<1>4. /\ Balance(<<Make(options), Use>>, options \union {}, {} \union {})
      /\ Balance(<<Use, Use>>, {} \union {}, {} \union {})
  BY <1>2, StepsAndObjects, BalanceTwo
<1>5. Balance(<<Make(session), Drop(options), Use>>, session \union options \union {},
              {} \union options \union {})
  BY <1>2, StepsAndObjects, BalanceThree
<1>6. Balance(s, (options \union {}) \union ({} \union {}) \union (session \union options \union {}) \union x,
              ({} \union {}) \union ({} \union {}) \union ({} \union options \union {}) \union x)
  BY <1>3, <1>4, <1>5, BalanceJoined, Zenon
<1>7. LeftBehind(s) = Touched(s) \ Released(s)
  BY <1>6, LeftIsUnreleased DEF Balance
<1>8. LeftBehind(s) \subseteq session
  <2> HIDE DEF s
  <2> QED BY <1>6, <1>7 DEF Balance
<1> QED BY <1>1, <1>8 DEF session

\* A model that makes no ORT object leaves none.
LEMMA UseClean == LeftBehind(<<Use>>) = {}
<1>1. Balance(<<Use>>, {}, {})
  BY StepsAndObjects, BalanceOne
<1> QED BY <1>1, LeftIsUnreleased DEF Balance

-----------------------------------------------------------------------------
(***************************************************************************)
(* Creation.                                                               *)
(***************************************************************************)
\* Only what throws, with a message, leaves ORT objects behind.
Clean(outcome) == ~outcome.says => outcome.orphans = 0

\* An outcome of a creation: a context if there is one to have, one for the
\* caller only if there is, and nothing left behind.
Sound(outcome) ==
  /\ outcome.context \in ContextState \union {None}
  /\ outcome.made => outcome.context # None
  /\ Clean(outcome)

\* What new makes is a well-formed context.
LEMMA FreshWellFormed ==
  ASSUME NEW backend \in {"ONNX", "LLAMACPP"}, NEW max_length \in Int, NEW dim \in Int,
         NEW options \in Options
  PROVE  Fresh(backend, max_length, options, dim) \subseteq ContextState
BY SizesAssumption, ArgumentsAssumption DEF Fresh, ContextState, OneOf

\* Whatever step of the loading throws, the outcome is sound.
LEMMA OpenedSound ==
  ASSUME NEW contexts, contexts \subseteq ContextState, NEW load,
         LeftBehind(load) \subseteq {SESSION}, NEW failure,
         NEW outcome \in Opened(contexts, load, failure)
  PROVE  Sound(outcome)
<1> DEFINE left(objects) == Cardinality(objects \ {SESSION})
           Complete(c) == [status |-> "OK", context |-> c, made |-> TRUE, says |-> FALSE,
                           orphans |-> left(LeftBehind(load))]
           Broken(c, k) == [status |-> failure, context |-> c, made |-> FALSE, says |-> TRUE,
                            orphans |-> left(Orphans(load, k))]
<1>1. PICK c \in contexts : outcome \in {Complete(c)} \union {Broken(c, k) : k \in ThrowPoints(load)}
  BY Zenon DEF Opened
<1>2. c # None
  BY MarkersAssumption
<1>3. ASSUME outcome = Complete(c) PROVE Sound(outcome)
  <2>1. LeftBehind(load) \ {SESSION} = {}
    OBVIOUS
  <2>2. left(LeftBehind(load)) = 0
    BY <2>1, FS_EmptySet
  <2> HIDE DEF left
  <2> QED BY <1>2, <1>3, <2>2 DEF Sound, Clean
<1>4. ASSUME NEW k \in ThrowPoints(load), outcome = Broken(c, k) PROVE Sound(outcome)
  <2> HIDE DEF left
  <2> QED BY <1>2, <1>4 DEF Sound, Clean
<1> QED BY <1>1, <1>3, <1>4

\* A refused creation is sound.
LEMMA RefusedSound == ASSUME NEW status, NEW says PROVE Sound(Refused(status, says))
BY DEF Refused, Sound, Clean

\* Every constructor of the three classes ends in a sound outcome.
LEMMA CreationsSound ==
  ASSUME class \in {"Reranker", "Sparse", "Image"}, NEW name,
         NEW options \in Options, NEW config \in Configs,
         NEW outcome \in Creations(name, options, config)
  PROVE  Sound(outcome)
<1>1. ASSUME outcome \in RegistryRefusals \union {Unreadable} PROVE Sound(outcome)
  BY <1>1, RefusedSound DEF RegistryRefusals, Unreadable
<1>2. ASSUME NEW backend \in {"ONNX", "LLAMACPP"}, NEW max_length \in Int, NEW dim \in Int,
             NEW load, LeftBehind(load) \subseteq {SESSION}, NEW failure,
             outcome \in Opened(Fresh(backend, max_length, options, dim), load, failure)
      PROVE  Sound(outcome)
  BY <1>2, FreshWellFormed, OpenedSound
<1>3. /\ OneOf(options.max_length, Info.max_tokens) \in Int
      /\ OneOf(options.max_length, 512) \in Int
      /\ OneOf(config.dim, options.dim) \in Int
      /\ LocalMaxLength(config, options) \in Int
      /\ Info.dim \in Int
  BY SizesAssumption, ArgumentsAssumption DEF OneOf, LocalMaxLength
<1> DEFINE loads == {load_from_file(1, 2, 1), load_from_file(1, 1, 1), load_from_memory(1, 2, 1),
                     load_from_memory(1, 1, 1), <<Use>>}
<1>4. \A load \in loads : LeftBehind(load) \subseteq {SESSION}
  BY LoadClean, UseClean
<1>5. CASE class = "Reranker"
  BY <1>1, <1>2, <1>3, <1>5, <1>4 DEF Creations, RerankerModel, lembed_reranker_create,
     lembed_reranker_create_from_path, lembed_reranker_create_from_gguf_path
<1>6. CASE class = "Sparse"
  BY <1>1, <1>2, <1>3, <1>6, <1>4 DEF Creations, SparseEmbeddingModel,
     lembed_sparse_text_embedding_create, lembed_sparse_text_embedding_create_from_path
<1>7. CASE class = "Image"
  <2>1. ASSUME outcome \in lembed_image_embedding_create(options) PROVE Sound(outcome)
    <3>1. 0 \in Int
      OBVIOUS
    <3> QED BY <1>1, <1>2, <1>3, <1>4, <2>1, <3>1 DEF lembed_image_embedding_create
  <2>2. ASSUME outcome \in lembed_image_embedding_create_from_path(config, options)
        PROVE  Sound(outcome)
    <3>1. CASE OneOf(config.dim, options.dim) = 0
      BY <1>1, <2>2, <3>1, RefusedSound DEF lembed_image_embedding_create_from_path
    <3>2. CASE OneOf(config.dim, options.dim) # 0
      BY <1>1, <1>2, <1>3, <1>4, <2>2, <3>2 DEF lembed_image_embedding_create_from_path
    <3> QED BY <3>1, <3>2
  <2> QED BY <1>7, <2>1, <2>2 DEF Creations, ImageEmbeddingModel
<1> QED BY <1>5, <1>6, <1>7
-----------------------------------------------------------------------------
(***************************************************************************)
(* Calls.                                                                  *)
(***************************************************************************)
\* The number of batches of a call is a number.
LEMMA BatchCountInt ==
  ASSUME NEW total \in Nat, NEW batch_size \in Nat \ {0}
  PROVE  batch_count(total, batch_size) \in Int
BY DEF batch_count, BatchSize

\* What the counters of a context gain by a call.
Counted(outcome) == outcome.texts \in Int /\ outcome.batches \in Int

\* What a call leaves its caller: nothing to free after an error; otherwise as
\* many items as it counts and as many values as indices, unless an allocation
\* failed on the way.  A sparse result is walked after an error too.
Kept(method, answer) ==
  /\ answer.status # "OK" => ~answer.result.held
  /\ ~answer.oom /\ (answer.status = "OK" \/ method = "embed") =>
       ~(Len(answer.result.items) < answer.result.count)
  /\ ~answer.oom /\ answer.status = "OK" /\ method = "embed" =>
       \A i \in DOMAIN answer.result.items :
         ~(Len(answer.result.items[i].values) < Len(answer.result.items[i].indices))

Proper(method, outcome) == Counted(outcome) /\ Kept(method, outcome) /\ Clean(outcome)

\* A call that fails is proper when it owns nothing and orphaned nothing without
\* a message.
LEMMA FailedProper ==
  ASSUME NEW method, NEW status, status # "OK", NEW says \in BOOLEAN, NEW result, ~result.held,
         NEW left, says \/ left = 0,
         method = "embed" /\ status # "OUT_OF_MEMORY" => ~(Len(result.items) < result.count)
  PROVE  Proper(method, Failed(status, says, result, left))
<1> DEFINE outcome == Failed(status, says, result, left)
<1>1. /\ outcome.status = status /\ outcome.says = says /\ outcome.result = result
      /\ outcome.orphans = left /\ outcome.texts = 0 /\ outcome.batches = 0
      /\ outcome.oom = (status = "OUT_OF_MEMORY")
  BY DEF Failed
<1> HIDE DEF outcome
<1>2. Counted(outcome)
  BY <1>1 DEF Counted
<1>3. Kept(method, outcome)
  BY <1>1 DEF Kept
<1>4. Clean(outcome)
  BY <1>1 DEF Clean
<1> QED BY <1>2, <1>3, <1>4 DEF Proper, outcome

\* A call that throws is proper when it owns nothing.
LEMMA ThrownProper ==
  ASSUME NEW method, NEW steps, NEW result, ~result.held,
         method = "embed" => ~(Len(result.items) < result.count),
         NEW outcome \in Thrown(steps, "ONNX_RUNTIME", result)
  PROVE  Proper(method, outcome) /\ outcome.status # "OK"
<1>1. PICK left : outcome = Failed("ONNX_RUNTIME", TRUE, result, left)
  BY Zenon DEF Thrown
<1>2. Proper(method, Failed("ONNX_RUNTIME", TRUE, result, left))
  BY FailedProper
<1>3. outcome.status = "ONNX_RUNTIME"
  BY <1>1 DEF Failed
<1> QED BY <1>1, <1>2, <1>3

\* A call that succeeds is proper when its inferences leave nothing behind.
LEMMA ServedProper ==
  ASSUME NEW method, NEW result, NEW texts \in Int, NEW batches \in Int, NEW oom \in BOOLEAN,
         NEW steps, LeftBehind(steps) = {},
         ~oom => ~(Len(result.items) < result.count),
         ~oom /\ method = "embed" =>
           \A i \in DOMAIN result.items : ~(Len(result.items[i].values) < Len(result.items[i].indices))
  PROVE  Proper(method, Served(result, texts, batches, oom, steps))
<1> DEFINE outcome == Served(result, texts, batches, oom, steps)
<1>1. /\ outcome.status = "OK" /\ outcome.says = FALSE /\ outcome.result = result
      /\ outcome.orphans = batches * Cardinality({})
      /\ outcome.texts = texts /\ outcome.batches = batches /\ outcome.oom = oom
  BY DEF Served
<1> HIDE DEF outcome
<1>2. Counted(outcome)
  BY <1>1 DEF Counted
<1>3. Kept(method, outcome)
  BY <1>1 DEF Kept
<1>4. Clean(outcome)
  <2>1. Cardinality({}) = 0 /\ batches * 0 = 0
    BY FS_EmptySet
  <2> QED BY <1>1, <2>1 DEF Clean
<1> QED BY <1>2, <1>3, <1>4 DEF Proper, outcome

\* A call of embed_files or embed_bytes is proper; if it succeeds it returns for
\* every image its row and the window it read of that image.
LEMMA ImageCallSound ==
  ASSUME NEW c \in ContextState, NEW docs \in Seq(Doc), NEW batch_size \in Int, NEW d,
         NEW windows, NEW counted,
         NEW outcome \in ImageCall(c, docs, batch_size, d, windows, counted)
  PROVE  /\ \A method : method # "embed" => Proper(method, outcome)
         /\ outcome.status = "OK" =>
              \A i \in DOMAIN docs :
                /\ outcome.result.items[i].window = windows[i]
                /\ outcome.result.items[i].row =
                     AllImageRows(c, docs, OneOf(batch_size, c.batch_size), d)[i]
<1> DEFINE bs == OneOf(batch_size, c.batch_size)
           n == batch_count(Len(docs), bs)
           steps == run_float(1)
           all == AllImageRows(c, docs, bs, d)
           rows == [count |-> Len(docs), held |-> TRUE, items |-> all]
           cut == [rows EXCEPT !.items = [i \in DOMAIN docs |-> [row |-> @[i], window |-> windows[i]]]]
           done == Served(cut, Len(docs), n, FALSE, steps)
           uncounted == [done EXCEPT !.texts = 0, !.batches = 0]
<1>1. \/ outcome = done
      \/ outcome = uncounted
      \/ outcome = Failed("OUT_OF_MEMORY", FALSE, Voided(docs), 0)
      \/ outcome \in Thrown(steps, "ONNX_RUNTIME", Voided(docs))
  <2> HIDE DEF done, uncounted, steps
  <2> QED BY Zenon DEF ImageCall, done, uncounted, steps, cut, rows, all, n, bs
<1>2. n \in Int /\ Len(docs) \in Nat
  BY BatchCountInt DEF OneOf, ContextState
<1> HIDE DEF all
<1>3. /\ \A i \in DOMAIN docs : cut.items[i].window = windows[i] /\ cut.items[i].row = all[i]
      /\ cut.count = Len(docs) /\ Len(cut.items) = Len(docs)
  OBVIOUS
<1> HIDE DEF n, cut
<1>4. ASSUME NEW method, method # "embed" PROVE Proper(method, done)
  <2>1. LeftBehind(steps) = {} /\ FALSE \in BOOLEAN
    BY RunFloatClean
  <2>2. ~(Len(cut.items) < cut.count) /\ Len(docs) \in Int
    BY <1>2, <1>3
  <2> HIDE DEF steps
  <2> QED BY <1>2, <1>4, <2>1, <2>2, ServedProper
<1> HIDE DEF steps
<1>5. done.status = "OK" /\ done.result = cut
  BY DEF Served
<1>6. CASE outcome = done
  BY <1>3, <1>4, <1>5, <1>6 DEF all
<1>7. CASE outcome = uncounted
  <2>1. /\ outcome.status = done.status /\ outcome.says = done.says
        /\ outcome.result = done.result /\ outcome.orphans = done.orphans
        /\ outcome.oom = done.oom /\ outcome.texts = 0 /\ outcome.batches = 0
    BY <1>7 DEF Served
  <2> HIDE DEF done
  <2>2. Counted(outcome)
    BY <2>1 DEF Counted
  <2>3. ASSUME NEW method, method # "embed" PROVE Kept(method, outcome) /\ Clean(outcome)
    BY <1>4, <2>1, <2>3 DEF Proper, Kept, Clean
  <2>4. outcome.result = cut
    BY <1>5, <2>1
  <2> QED BY <1>3, <2>2, <2>3, <2>4 DEF Proper, all
<1>8. ~Voided(docs).held
  BY DEF Voided
<1>9. CASE outcome = Failed("OUT_OF_MEMORY", FALSE, Voided(docs), 0)
  <2>1. ASSUME NEW method PROVE Proper(method, Failed("OUT_OF_MEMORY", FALSE, Voided(docs), 0))
    BY <1>8, FailedProper
  <2>2. outcome.status = "OUT_OF_MEMORY"
    BY <1>9 DEF Failed
  <2> QED BY <1>9, <2>1, <2>2
<1>10. CASE outcome \in Thrown(steps, "ONNX_RUNTIME", Voided(docs))
  <2>1. ASSUME NEW method, method # "embed" PROVE Proper(method, outcome) /\ outcome.status # "OK"
    BY <1>8, <1>10, <2>1, ThrownProper
  <2>2. "rerank" # "embed"
    OBVIOUS
  <2>3. outcome.status # "OK"
    BY <2>1, <2>2
  <2> QED BY <2>1, <2>3
<1> QED BY <1>1, <1>6, <1>7, <1>9, <1>10

\* A rejected call is proper.
LEMMA RejectedProper ==
  ASSUME NEW method PROVE Proper(method, Rejected) /\ Rejected.status # "OK"
<1>1. ~Empty.held /\ ~(Len(Empty.items) < Empty.count)
  BY DEF Empty
<1>2. Rejected.status = "INVALID_ARGUMENT"
  BY DEF Rejected, Failed
<1> QED BY <1>1, <1>2, FailedProper DEF Rejected

\* A call of rerank is proper.
LEMMA RerankProper ==
  ASSUME NEW c \in ContextState, NEW docs \in Seq(Doc), NEW batch_size \in Int, ~Absent(c, docs),
         NEW outcome \in lembed_reranker_rerank(c, docs, batch_size)
  PROVE  Proper("rerank", outcome)
<1> DEFINE bs == OneOf(batch_size, c.batch_size)
           n == batch_count(Len(docs), bs)
           llama == c.backend = "LLAMACPP"
           steps == IF llama THEN <<Use>> ELSE run(TRUE, TRUE, 1)
           scores == IF llama THEN lembed__llama_rerank(docs) ELSE OnnxScores(c, docs, bs)
           items(p) == [r \in DOMAIN docs |-> [index |-> p[r], score |-> scores[p[r]]]]
           ranked(p) == [count |-> Len(docs), held |-> TRUE, items |-> items(p)]
           emptied == [Empty EXCEPT !.count = Len(docs)]
<1>1. \/ \E p \in Descending(scores) : outcome = Served(ranked(p), Len(docs), n, FALSE, steps)
      \/ outcome = Failed("OUT_OF_MEMORY", FALSE, emptied, 0)
      \/ outcome \in Thrown(steps, "ONNX_RUNTIME", Empty)
  BY Zenon DEF lembed_reranker_rerank
<1>2. n \in Int /\ Len(docs) \in Nat
  BY BatchCountInt DEF OneOf, ContextState
<1>3. LeftBehind(steps) = {}
  BY RunClean, UseClean
<1> HIDE DEF n, steps, scores
<1>4. ASSUME NEW p, outcome = Served(ranked(p), Len(docs), n, FALSE, steps)
      PROVE  Proper("rerank", outcome)
  <2>1. Len(ranked(p).items) = Len(docs) /\ ranked(p).count = Len(docs)
    BY <1>2
  <2> HIDE DEF ranked
  <2>2. ~(Len(ranked(p).items) < ranked(p).count) /\ "rerank" # "embed" /\ Len(docs) \in Int
    BY <1>2, <2>1
  <2>3. Proper("rerank", Served(ranked(p), Len(docs), n, FALSE, steps))
    BY <1>2, <1>3, <2>2, ServedProper
  <2> QED BY <1>4, <2>3
<1>5. ~Empty.held /\ ~emptied.held
  BY DEF Empty
<1> HIDE DEF emptied
<1>6. Proper("rerank", Failed("OUT_OF_MEMORY", FALSE, emptied, 0))
  BY <1>5, FailedProper
<1>7. CASE outcome \in Thrown(steps, "ONNX_RUNTIME", Empty)
  BY <1>5, <1>7, ThrownProper
<1> HIDE DEF ranked
<1> QED BY <1>1, <1>4, <1>6, <1>7

\* A call of embed is proper.
LEMMA EmbedProper ==
  ASSUME NEW c \in ContextState, NEW docs \in Seq(Doc), NEW batch_size \in Int, ~Absent(c, docs),
         NEW outcome \in lembed_sparse_text_embedding_embed(c, docs, batch_size)
  PROVE  Proper("embed", outcome)
<1> DEFINE bs == OneOf(batch_size, c.batch_size)
           n == batch_count(Len(docs), bs)
           steps == run(TRUE, TRUE, 1)
           items == SparseItems(c, docs, bs)
           filled(bad) == [count |-> Len(docs), held |-> TRUE,
                           items |-> [i \in DOMAIN docs |-> IF i = bad THEN Unfilled(items[i]) ELSE items[i]]]
           result == [count |-> Len(docs), held |-> TRUE, items |-> items]
           emptied == [Empty EXCEPT !.count = Len(docs)]
<1>1. \/ \E bad \in 0..Len(docs) : outcome = Served(filled(bad), Len(docs), n, bad # 0, steps)
      \/ outcome = Failed("OUT_OF_MEMORY", FALSE, emptied, 0)
      \/ outcome \in Thrown(steps, "ONNX_RUNTIME", lembed_sparse_embeddings_free(result))
  BY Zenon DEF lembed_sparse_text_embedding_embed
<1>2. n \in Int /\ Len(docs) \in Nat
  BY BatchCountInt DEF OneOf, ContextState
<1>3. LeftBehind(steps) = {}
  BY RunClean
<1> HIDE DEF n, steps, items
<1>4. ASSUME NEW bad \in 0..Len(docs), outcome = Served(filled(bad), Len(docs), n, bad # 0, steps)
      PROVE  Proper("embed", outcome)
  <2>1. Len(filled(bad).items) = Len(docs) /\ filled(bad).count = Len(docs)
        /\ DOMAIN filled(bad).items = DOMAIN docs
    BY <1>2
  <2>2. outcome.status = "OK" /\ outcome.oom = (bad # 0) /\ outcome.result = filled(bad)
    BY <1>4 DEF Served
  <2> DEFINE oom == bad # 0
  <2>3. ~oom => \A i \in DOMAIN docs : Paired(filled(bad).items[i])
    <3> HIDE DEF filled
    <3> QED BY <2>2, EmbeddedOwn
  <2> HIDE DEF filled
  <2>4. ASSUME ~oom, NEW i \in DOMAIN filled(bad).items
        PROVE  ~(Len(filled(bad).items[i].values) < Len(filled(bad).items[i].indices))
    <3>1. Paired(filled(bad).items[i])
      BY <2>1, <2>3, <2>4
    <3> QED BY <3>1 DEF Paired
  <2>5. ~(Len(filled(bad).items) < filled(bad).count)
    BY <1>2, <2>1
  <2>6. oom \in BOOLEAN
    OBVIOUS
  <2> HIDE DEF filled, oom
  <2>7. Proper("embed", Served(filled(bad), Len(docs), n, oom, steps))
    BY <1>2, <1>3, <2>4, <2>5, <2>6, ServedProper
  <2> QED BY <1>4, <2>7 DEF oom
<1>5. ~Empty.held /\ ~emptied.held /\ ~(Len(Empty.items) < Empty.count)
  BY DEF Empty
<1> HIDE DEF emptied, filled
<1>6. Proper("embed", Failed("OUT_OF_MEMORY", FALSE, emptied, 0))
  BY <1>5, FailedProper
<1>7. CASE outcome \in Thrown(steps, "ONNX_RUNTIME", lembed_sparse_embeddings_free(result))
  BY <1>5, <1>7, ThrownProper DEF lembed_sparse_embeddings_free
<1> QED BY <1>1, <1>4, <1>6, <1>7

\* What a call answers, by method, when it succeeds.
Answered(method, c, docs, bs, outcome) ==
  /\ ~Absent(c, docs)
  /\ c \in ContextState /\ docs \in Seq(Doc) /\ bs \in Int
  /\ method = "rerank" => outcome \in lembed_reranker_rerank(c, docs, bs)
  /\ method = "embed" => outcome \in lembed_sparse_text_embedding_embed(c, docs, bs)
  /\ method = "embed_files" =>
       outcome \in ImageCall(c, docs, bs, c.shape.last,
                     [i \in DOMAIN docs |-> preprocess_image_to_buffer(Picture[docs[i]], TargetSize)], FALSE)
  /\ method = "embed_bytes" =>
       outcome \in ImageCall(c, docs, bs, c.dim,
                     [i \in DOMAIN docs |-> preprocess_image_bytes_to_buffer(Picture[docs[i]], TargetSize)], TRUE)

\* Every call on a context, or on none, is rejected or of its method.
LEMMA OutcomesAnswered ==
  ASSUME NEW method \in {"rerank", "embed", "embed_files", "embed_bytes"},
         NEW c \in ContextState \union {None}, NEW docs \in Calls, NEW bs \in BatchSizes,
         NEW outcome \in Outcomes(method, c, docs, bs)
  PROVE  outcome = Rejected \/ Answered(method, c, docs, bs, outcome)
<1>1. CASE Absent(c, docs)
  <2>1. outcome = Rejected
    BY <1>1, Zenon DEF Outcomes, lembed_reranker_rerank, lembed_sparse_text_embedding_embed,
       lembed_image_embedding_embed_files, lembed_image_embedding_embed_bytes
  <2> QED BY <2>1
<1>2. CASE ~Absent(c, docs)
  <2>1. c \in ContextState /\ docs \in Seq(Doc) /\ bs \in Int
    BY <1>2, CallsAssumption DEF Absent
  <2>2. method = "rerank" => outcome \in lembed_reranker_rerank(c, docs, bs)
    BY DEF Outcomes
  <2>3. method = "embed" => outcome \in lembed_sparse_text_embedding_embed(c, docs, bs)
    BY DEF Outcomes
  <2>4. method = "embed_files" => outcome \in lembed_image_embedding_embed_files(c, docs, bs)
    BY DEF Outcomes
  <2>5. method = "embed_bytes" => outcome \in lembed_image_embedding_embed_bytes(c, docs, bs)
    BY DEF Outcomes
  <2>6. method = "embed_files" =>
          outcome \in ImageCall(c, docs, bs, c.shape.last,
             [i \in DOMAIN docs |-> preprocess_image_to_buffer(Picture[docs[i]], TargetSize)], FALSE)
    BY <1>2, <2>4, Zenon DEF lembed_image_embedding_embed_files
  <2>7. method = "embed_bytes" =>
          outcome \in ImageCall(c, docs, bs, c.dim,
             [i \in DOMAIN docs |-> preprocess_image_bytes_to_buffer(Picture[docs[i]], TargetSize)], TRUE)
    BY <1>2, <2>5, Zenon DEF lembed_image_embedding_embed_bytes
  <2> QED BY <1>2, <2>1, <2>2, <2>3, <2>6, <2>7, Zenon DEF Answered
<1> QED BY <1>1, <1>2

\* Every call on a context, or on none, is proper.
LEMMA OutcomesProper ==
  ASSUME NEW method \in {"rerank", "embed", "embed_files", "embed_bytes"},
         NEW c \in ContextState \union {None}, NEW docs \in Calls, NEW bs \in BatchSizes,
         NEW outcome \in Outcomes(method, c, docs, bs)
  PROVE  Proper(method, outcome)
<1>1. CASE outcome = Rejected
  BY <1>1, RejectedProper
<1>2. CASE Answered(method, c, docs, bs, outcome)
  <2>1. CASE method = "rerank"
    BY <1>2, <2>1, RerankProper DEF Answered
  <2>2. CASE method = "embed"
    BY <1>2, <2>2, EmbedProper DEF Answered
  <2>3. CASE method \in {"embed_files", "embed_bytes"}
    <3>1. method # "embed"
      BY <2>3
    <3>2. CASE method = "embed_files"
      BY <1>2, <3>1, <3>2, ImageCallSound DEF Answered
    <3>3. CASE method = "embed_bytes"
      BY <1>2, <3>1, <3>3, ImageCallSound DEF Answered
    <3> QED BY <2>3, <3>2, <3>3
  <2> QED BY <2>1, <2>2, <2>3
<1> QED BY <1>1, <1>2, OutcomesAnswered

-----------------------------------------------------------------------------
(***************************************************************************)
(* Ownership.                                                              *)
(***************************************************************************)
OwnerType ==
  /\ class \in {"Reranker", "Sparse", "Image"}
  /\ ctx \in [Addr -> ContextState \union {Free}]
  /\ ctx_ \in [Owner -> Addr \union {None, Unbuilt}]

\* Handles point to live contexts that a creation has handed out, each to its
\* own, and each of these has a handle.
Handles ==
  /\ abandoned \subseteq Live
  /\ \A o \in Owner : ctx_[o] \in Addr => ctx_[o] \in Live \ abandoned
  /\ \A o, u \in Owner : ctx_[o] \in Addr /\ ctx_[o] = ctx_[u] => o = u
  /\ \A a \in Live \ abandoned : \E o \in Owner : ctx_[o] = a

OwnerInv == OwnerType /\ Handles

\* No object, no context.
LEMMA OwnerInit == Init => OwnerInv
BY MarkersAssumption DEF Init, OwnerInv, OwnerType, Handles, Live

\* Ownership depends on these four variables alone.
LEMMA OwnerStutter == OwnerInv /\ UNCHANGED <<class, ctx, ctx_, abandoned>> => OwnerInv'
BY DEF OwnerInv, OwnerType, Handles, Live

\* A constructor takes an address nobody refers to.
LEMMA OwnerConstruct ==
  ASSUME OwnerInv, NEW o \in Owner, Construct(o) PROVE OwnerInv'
<1> DEFINE Placed(outcome) ==
             IF outcome.context = None
             THEN UNCHANGED <<ctx, ctx_, abandoned>>
             ELSE \E a \in Addr \ Live :
                  /\ ctx' = [ctx EXCEPT ![a] = outcome.context]
                  /\ ctx_' = IF outcome.made THEN [ctx_ EXCEPT ![o] = a] ELSE ctx_
                  /\ abandoned' = IF outcome.made THEN abandoned ELSE abandoned \union {a}
<1>1. PICK name \in {"registered", "directory"} \union (IF class = "Reranker" THEN {"gguf"} ELSE {}) :
        \E options \in Options, config \in Configs :
        \E outcome \in Creations(name, options, config) : Made(outcome) /\ Placed(outcome)
  BY DEF Construct
<1> HIDE DEF Placed
<1>2. PICK options \in Options, config \in Configs :
        \E outcome \in Creations(name, options, config) : Placed(outcome)
  BY <1>1, Zenon
<1>3. PICK outcome \in Creations(name, options, config) : Placed(outcome)
  BY <1>2, Zenon
<1>4. /\ outcome.context \in ContextState \union {None}
      /\ ctx_[o] = Unbuilt /\ class' = class
  BY CreationsSound DEF OwnerInv, OwnerType, Sound, Construct
<1>5. CASE outcome.context = None
  BY <1>4, <1>5, <1>3, OwnerStutter DEF Placed
<1>6. CASE outcome.context # None
  <2>1. PICK a \in Addr \ Live :
             /\ ctx' = [ctx EXCEPT ![a] = outcome.context]
             /\ ctx_' = IF outcome.made THEN [ctx_ EXCEPT ![o] = a] ELSE ctx_
             /\ abandoned' = IF outcome.made THEN abandoned ELSE abandoned \union {a}
    BY <1>6, <1>3 DEF Placed
  <2>2. OwnerType'
    BY <1>4, <1>6, <2>1 DEF OwnerInv, OwnerType
  <2>3. Live' = Live \union {a}
    BY <1>4, <1>6, <2>1, MarkersAssumption DEF OwnerInv, OwnerType, Live
  <2>4. \A u \in Owner : ctx_[u] # a
    BY <2>1 DEF OwnerInv, Handles
  <2>5. CASE outcome.made
    <3>1. ctx_' = [ctx_ EXCEPT ![o] = a] /\ abandoned' = abandoned
      BY <2>1, <2>5
    <3>2. /\ abandoned' \subseteq Live'
          /\ \A u \in Owner : ctx_[u]' \in Addr => ctx_[u]' \in Live' \ abandoned'
      BY <2>1, <2>3, <3>1 DEF OwnerInv, OwnerType, Handles
    <3>3. \A u, v \in Owner : ctx_[u]' \in Addr /\ ctx_[u]' = ctx_[v]' => u = v
      BY <2>4, <3>1 DEF OwnerInv, OwnerType, Handles
    <3>4. ASSUME NEW b \in Live' \ abandoned' PROVE \E u \in Owner : ctx_[u]' = b
      BY <1>4, <2>3, <3>1, MarkersAssumption DEF OwnerInv, OwnerType, Handles, Live
    <3> QED BY <2>2, <3>2, <3>3, <3>4 DEF OwnerInv, Handles
  <2>6. CASE ~outcome.made
    BY <2>1, <2>2, <2>3, <2>4, <2>6 DEF OwnerInv, OwnerType, Handles
  <2> QED BY <2>5, <2>6
<1> QED BY <1>5, <1>6

\* Giving a context back and forgetting the handle, by close or a destructor.
LEMMA OwnerClosed ==
  ASSUME OwnerInv, NEW o \in Owner, NEW mark \in {None, Unbuilt},
         ctx' = Closed(o), ctx_' = [ctx_ EXCEPT ![o] = mark],
         UNCHANGED <<class, abandoned>>
  PROVE  OwnerInv'
<1>1. OwnerType'
  BY DEF OwnerInv, OwnerType, Closed
<1>2. CASE ctx_[o] \in Addr
  <2>1. Live' = Live \ {ctx_[o]}
    BY <1>2 DEF OwnerInv, OwnerType, Live, Closed
  <2> QED BY <1>1, <1>2, <2>1, MarkersAssumption DEF OwnerInv, OwnerType, Handles
<1>3. CASE ctx_[o] \notin Addr
  <2>1. Live' = Live
    BY <1>3 DEF Closed, Live
  <2>2. ASSUME NEW a \in Live \ abandoned PROVE \E u \in Owner : ctx_'[u] = a
    BY <1>3, MarkersAssumption DEF OwnerInv, OwnerType, Handles, Live
  <2> QED BY <1>1, <1>3, <2>1, <2>2, MarkersAssumption DEF OwnerInv, OwnerType, Handles
<1> QED BY <1>2, <1>3

\* A move hands the handle on, and frees the one it replaces.
LEMMA OwnerMoved ==
  ASSUME OwnerInv, NEW o \in Owner, NEW other \in Owner, o # other,
         ctx' = Closed(o), ctx_' = Moved(o, other),
         UNCHANGED <<class, abandoned>>
  PROVE  OwnerInv'
<1>1. OwnerType'
  BY DEF OwnerInv, OwnerType, Closed, Moved
<1>2. CASE ctx_[o] \in Addr
  <2>1. Live' = Live \ {ctx_[o]}
    BY <1>2 DEF OwnerInv, OwnerType, Live, Closed
  <2> QED BY <1>1, <1>2, <2>1, MarkersAssumption DEF OwnerInv, OwnerType, Handles, Moved
<1>3. CASE ctx_[o] \notin Addr
  <2>1. Live' = Live
    BY <1>3 DEF Closed, Live
  <2>2. ASSUME NEW a \in Live \ abandoned PROVE \E u \in Owner : ctx_'[u] = a
    BY <1>3, MarkersAssumption DEF OwnerInv, OwnerType, Handles, Live, Moved
  <2> QED BY <1>1, <1>3, <2>1, <2>2, MarkersAssumption DEF OwnerInv, OwnerType, Handles, Moved
<1> QED BY <1>2, <1>3

\* Counting leaves a context well-formed.
LEMMA AdvancedWellFormed ==
  ASSUME NEW c \in ContextState, NEW texts \in Int, NEW batches \in Int
  PROVE  [c EXCEPT !.texts_embedded = @ + texts, !.batches_run = @ + batches] \in ContextState
<1>1. c.texts_embedded + texts \in Int /\ c.batches_run + batches \in Int
  BY DEF ContextState
<1> DEFINE t == c.texts_embedded + texts
           b == c.batches_run + batches
<1>2. t \in Int /\ b \in Int
  BY <1>1
<1> HIDE DEF t, b
<1>3. [c EXCEPT !.texts_embedded = t, !.batches_run = b] \in ContextState
  BY <1>2 DEF ContextState
<1> QED BY <1>3 DEF t, b

\* A call changes the counters of one context and no handle.
LEMMA OwnerCall ==
  ASSUME OwnerInv, NEW o \in Owner, NEW by, Call(o, by) PROVE OwnerInv'
<1> DEFINE Advanced(outcome) ==
             IF ctx_[o] \in Addr
             THEN ctx' = [ctx EXCEPT ![ctx_[o]].texts_embedded = @ + outcome.texts,
                                     ![ctx_[o]].batches_run = @ + outcome.batches]
             ELSE UNCHANGED ctx
<1>1. PICK method \in Methods, docs \in Calls, bs \in BatchSizes :
        \E outcome \in Outcomes(method, Context(o), docs, bs) : Advanced(outcome)
  BY DEF Call
<1>2. PICK outcome \in Outcomes(method, Context(o), docs, bs) : Advanced(outcome)
  BY <1>1
<1>3. Context(o) \in ContextState \union {None}
  BY DEF Context, OwnerInv, OwnerType, Handles, Live
<1>4. outcome.texts \in Int /\ outcome.batches \in Int
  <2>1. method \in {"rerank", "embed", "embed_files", "embed_bytes"}
    BY DEF Methods, OwnerInv, OwnerType
  <2> QED BY <1>3, <2>1, OutcomesProper DEF Proper, Counted
<1>5. UNCHANGED <<class, ctx_, abandoned>>
  BY DEF Call
<1>6. CASE ctx_[o] \in Addr
  <2>1. ctx[ctx_[o]] \in ContextState
    BY <1>6 DEF OwnerInv, OwnerType, Handles, Live
  <2> DEFINE a == ctx_[o]
             after == [ctx[a] EXCEPT !.texts_embedded = @ + outcome.texts,
                                     !.batches_run = @ + outcome.batches]
  <2>2. after \in ContextState
    BY <1>4, <2>1, AdvancedWellFormed
  <2>3. ctx' = [ctx EXCEPT ![a] = after]
    BY <1>2, <1>6, <2>1 DEF OwnerInv, OwnerType, ContextState
  <2> HIDE DEF after
  <2>4. OwnerType' /\ Live' = Live
    BY <1>5, <1>6, <2>1, <2>2, <2>3, MarkersAssumption DEF OwnerInv, OwnerType, Live
  <2> QED BY <1>5, <2>4 DEF OwnerInv, Handles
<1>7. CASE ctx_[o] \notin Addr
  BY <1>2, <1>5, <1>7, OwnerStutter
<1> QED BY <1>6, <1>7

\* Ownership is kept by every step.
LEMMA OwnerNext == OwnerInv /\ [Next]_vars => OwnerInv'
<1> SUFFICES ASSUME OwnerInv, [Next]_vars PROVE OwnerInv'
  OBVIOUS
<1>1. ASSUME NEW o \in Owner, Construct(o) PROVE OwnerInv'
  BY <1>1, OwnerConstruct
<1>2. ASSUME NEW o \in Owner, close(o) PROVE OwnerInv'
  BY <1>2, OwnerClosed DEF close
<1>3. ASSUME NEW o \in Owner, Destroy(o) PROVE OwnerInv'
  BY <1>3, OwnerClosed DEF Destroy
<1>4. ASSUME NEW o \in Owner, NEW other \in Owner, MoveConstruct(o, other) PROVE OwnerInv'
  <2>1. o # other /\ ctx' = Closed(o)
    BY <1>4, MarkersAssumption DEF MoveConstruct, Closed
  <2> QED BY <1>4, <2>1, OwnerMoved DEF MoveConstruct
<1>5. ASSUME NEW o \in Owner, NEW other \in Owner, MoveAssign(o, other) PROVE OwnerInv'
  BY <1>5, OwnerMoved DEF MoveAssign
<1>6. ASSUME NEW o \in Owner, NEW by, Call(o, by) PROVE OwnerInv'
  BY <1>6, OwnerCall
<1>7. CASE Return \/ Discard \/ UNCHANGED vars
  BY <1>7, OwnerStutter DEF Return, Discard, vars
<1> QED BY <1>1, <1>2, <1>3, <1>4, <1>5, <1>6, <1>7 DEF Next

\* The owners of an address are one object or none.
LEMMA OwnersCounted == OwnerInv => OneOwnerEach
<1> SUFFICES ASSUME OwnerInv, NEW a \in Addr
             PROVE  Cardinality({o \in Owner : ctx_[o] = a}) = IF a \in Live \ abandoned THEN 1 ELSE 0
  BY DEF OneOwnerEach
<1>1. CASE a \in Live \ abandoned
  <2>1. PICK o \in Owner : {u \in Owner : ctx_[u] = a} = {o}
    BY <1>1 DEF OwnerInv, Handles
  <2> QED BY <1>1, <2>1, FS_Singleton
<1>2. CASE a \notin Live \ abandoned
  <2>1. {u \in Owner : ctx_[u] = a} = {}
    BY <1>2 DEF OwnerInv, Handles
  <2> QED BY <1>2, <2>1, FS_EmptySet
<1> QED BY <1>1, <1>2

\* Contexts have exactly one owner, through every construction, move, close and
\* destruction (the handle ctx_ of the three classes): nothing is freed twice,
\* and nothing leaks but what a throwing creation abandons.
THEOREM OwnersUnique == Spec => []OneOwnerEach
BY OwnerInit, OwnerNext, OwnersCounted, PTL DEF Spec

-----------------------------------------------------------------------------
(***************************************************************************)
(* Images.                                                                 *)
(***************************************************************************)
\* The longer side is at least target_size after the resize: the truncated
\* quotient is at least 1 times it.
LEMMA LongerSideCovers ==
  ASSUME NEW short \in Nat \ {0}, NEW long \in Nat \ {0}, NEW target_size \in Nat \ {0},
         short <= long
  PROVE  (long * target_size) \div short \in Int /\ (long * target_size) \div short >= target_size
<1> DEFINE product == long * target_size
           q == product \div short
<1>1. product \in Nat /\ product >= short * target_size
  OBVIOUS
<1>2. q \in Int /\ product < short * (q + 1)
  <2> HIDE DEF product
  <2> QED BY <1>1
<1>3. short * target_size < short * (q + 1)
  <2> HIDE DEF product, q
  <2>1. short * target_size \in Int /\ short * (q + 1) \in Int
    BY <1>2
  <2> QED BY <1>1, <1>2, <2>1
<1>4. target_size < q + 1
  <2> HIDE DEF q
  <2> QED BY <1>2, <1>3
<1> QED BY <1>2, <1>4

\* And it is no longer than the proportions of the picture allow: m stands for
\* MaxInt.
LEMMA LongerSideBounded ==
  ASSUME NEW short \in Nat \ {0}, NEW long \in Nat \ {0}, NEW target_size \in Nat \ {0},
         NEW m \in Nat, 3 * target_size * target_size * long <= m * short
  PROVE  target_size * ((long * target_size) \div short) * 3 <= m
<1> DEFINE product == long * target_size
           q == product \div short
           room == target_size * q * 3
<1>1. product \in Nat /\ q \in Nat /\ short * q <= product
  <2>1. product \in Nat
    OBVIOUS
  <2> HIDE DEF product
  <2> QED BY <2>1
<1>2. (3 * target_size) * product <= m * short
  BY DEF product
<1> HIDE DEF product, q
<1>3. (3 * target_size) * (short * q) <= (3 * target_size) * product
  <2>1. 3 * target_size \in Nat /\ short * q \in Nat
    BY <1>1
  <2> DEFINE k == 3 * target_size
             a == short * q
  <2> HIDE DEF k, a
  <2>2. k \in Nat /\ a \in Nat /\ a <= product
    BY <1>1, <2>1 DEF k, a
  <2>3. k * a <= k * product
    BY <1>1, <2>2
  <2> QED BY <2>3 DEF k, a
<1>4. room \in Nat /\ room * short = (3 * target_size) * (short * q)
  BY <1>1
<1> HIDE DEF room
<1>5. room * short <= m * short
  <2>1. (3 * target_size) * (short * q) \in Int /\ (3 * target_size) * product \in Int /\ m * short \in Int
    BY <1>1
  <2> QED BY <1>2, <1>3, <1>4, <2>1
<1>6. room <= m
  BY <1>4, <1>5
<1> QED BY <1>6 DEF room, q, product

\* The middle square of a picture that is large enough, and whose size is an
\* int, is inside it.
LEMMA WindowInside ==
  ASSUME NEW w \in Int, NEW h \in Int, NEW target_size \in Nat \ {0},
         w >= target_size, h >= target_size, w * h * 3 <= MaxInt
  PROVE  Inside(Window([w |-> w, h |-> h], target_size))
<1> DEFINE size == [w |-> w, h |-> h]
           window == Window(size, target_size)
<1>1. /\ window.x = (w - target_size) \div 2 /\ window.y = (h - target_size) \div 2
      /\ window.side = target_size /\ window.of.w = w /\ window.of.h = h
      /\ window.bytes = Narrowed(w * h * 3)
  BY DEF Window
<1>2. Narrowed(w * h * 3) = w * h * 3
  BY DEF Narrowed
<1>3. w * h * 3 \in Int
  OBVIOUS
<1> HIDE DEF window
<1>4. w * h * 3 <= window.bytes
  BY <1>1, <1>2, <1>3
<1>5. /\ window.x >= 0 /\ window.x + window.side <= w
      /\ window.y >= 0 /\ window.y + window.side <= h
  BY <1>1
<1>6. Inside(window)
  BY <1>1, <1>4, <1>5 DEF Inside
<1> QED BY <1>6 DEF window

\* Pictures of any size are cropped inside their resized copy, and that was
\* allocated in full, if neither side is too long beside the other.
LEMMA CropInside ==
  ASSUME NEW image, image.w \in Nat \ {0}, image.h \in Nat \ {0}, NEW target_size \in Nat \ {0},
         3 * target_size * target_size * image.w <= MaxInt * image.h,
         3 * target_size * target_size * image.h <= MaxInt * image.w
  PROVE  /\ Inside(preprocess_image_to_buffer(image, target_size))
         /\ Inside(preprocess_image_bytes_to_buffer(image, target_size))
<1> DEFINE w == image.w
           h == image.h
           size == Resized(w, h, target_size)
<1> HIDE DEF w, h
<1>1. /\ w \in Nat \ {0} /\ h \in Nat \ {0} /\ MaxInt \in Nat
      /\ 3 * target_size * target_size * w <= MaxInt * h
      /\ 3 * target_size * target_size * h <= MaxInt * w
  BY MaxIntAssumption DEF w, h
<1>2. CASE w < h
  <2> DEFINE other == (h * target_size) \div w
  <2>1. size = [w |-> target_size, h |-> other]
    BY <1>2 DEF Resized
  <2>2. other \in Int /\ other >= target_size
    <3>1. w <= h
      BY <1>1, <1>2
    <3> QED BY <1>1, <3>1, LongerSideCovers, Zenon
  <2>3. target_size * other * 3 <= MaxInt
    BY <1>1, LongerSideBounded, Zenon
  <2> HIDE DEF other
  <2>4. Inside(Window(size, target_size))
    BY <2>1, <2>2, <2>3, WindowInside
  <2> QED BY <2>4 DEF preprocess_image_to_buffer, preprocess_image_bytes_to_buffer, w, h
<1>3. CASE ~(w < h)
  <2> DEFINE other == (w * target_size) \div h
  <2>1. size = [w |-> other, h |-> target_size]
    BY <1>3 DEF Resized
  <2>2. other \in Int /\ other >= target_size
    <3>1. h <= w
      BY <1>1, <1>3
    <3> QED BY <1>1, <3>1, LongerSideCovers, Zenon
  <2>3. other * target_size * 3 <= MaxInt
    <3>1. target_size * other * 3 <= MaxInt
      BY <1>1, LongerSideBounded, Zenon
    <3> HIDE DEF other
    <3> QED BY <2>2, <3>1
  <2> HIDE DEF other
  <2>4. Inside(Window(size, target_size))
    BY <2>1, <2>2, <2>3, WindowInside
  <2> QED BY <2>4 DEF preprocess_image_to_buffer, preprocess_image_bytes_to_buffer, w, h
<1> QED BY <1>2, <1>3

-----------------------------------------------------------------------------
(***************************************************************************)
(* Answers.                                                                *)
(***************************************************************************)
\* What the caller holds after a call, of which method and outcome.
Held(by, method, docs, c, outcome) ==
  pending' = [by |-> by, method |-> method, docs |-> docs, context |-> c,
              status |-> outcome.status, result |-> outcome.result, oom |-> outcome.oom]

\* A call is proper, and when it succeeds its answer is one of its method's.
LEMMA CallAnswered ==
  ASSUME OwnerInv, NEW o \in Owner, NEW by, Call(o, by)
  PROVE  \E method \in {"rerank", "embed", "embed_files", "embed_bytes"}, docs \in Calls,
            bs \in BatchSizes :
           \E outcome :
             /\ Made(outcome)
             /\ Held(by, method, docs, Context(o), outcome)
             /\ Proper(method, outcome)
             /\ outcome.status = "OK" => Answered(method, Context(o), docs, bs, outcome)
<1>1. PICK method \in Methods, docs \in Calls, bs \in BatchSizes :
        \E outcome \in Outcomes(method, Context(o), docs, bs) :
          Made(outcome) /\ Held(by, method, docs, Context(o), outcome)
  BY DEF Call, Held
<1>2. PICK outcome \in Outcomes(method, Context(o), docs, bs) :
          Made(outcome) /\ Held(by, method, docs, Context(o), outcome)
  BY <1>1
<1>3. method \in {"rerank", "embed", "embed_files", "embed_bytes"}
  BY DEF Methods, OwnerInv, OwnerType
<1>4. Context(o) \in ContextState \union {None}
  BY DEF Context, OwnerInv, OwnerType, Handles, Live
<1>5. Proper(method, outcome)
  BY <1>3, <1>4, OutcomesProper
<1>6. ASSUME outcome.status = "OK" PROVE Answered(method, Context(o), docs, bs, outcome)
  BY <1>3, <1>4, <1>6, OutcomesAnswered, RejectedProper
<1> QED BY <1>2, <1>3, <1>5, <1>6

\* A step makes a call, hands its result back, or leaves it alone.
LEMMA PendingStep ==
  ASSUME [Next]_vars
  PROVE  \/ \E o \in Owner, by \in {"wrapper", "C"} : Call(o, by)
         \/ pending' = None
         \/ UNCHANGED pending
<1>1. ASSUME NEW o \in Owner, Construct(o) \/ close(o) \/ Destroy(o) PROVE UNCHANGED pending
  BY <1>1 DEF Construct, close, Destroy
<1>2. ASSUME NEW o \in Owner, NEW other \in Owner, MoveConstruct(o, other) \/ MoveAssign(o, other)
      PROVE  UNCHANGED pending
  BY <1>2 DEF MoveConstruct, MoveAssign
<1>3. ASSUME Return \/ Discard PROVE pending' = None
  BY <1>3 DEF Return, Discard
<1>4. ASSUME UNCHANGED vars PROVE UNCHANGED pending
  BY <1>4 DEF vars
<1> QED BY <1>1, <1>2, <1>3, <1>4 DEF Next

\* A reranking that succeeds has every document once, best first, by its score.
LEMMA RankingCall ==
  ASSUME OwnerInv, NEW o \in Owner, NEW by, Call(o, by) PROVE RankingOwnScores'
<1>0. PICK method \in {"rerank", "embed", "embed_files", "embed_bytes"}, docs \in Calls,
           bs \in BatchSizes :
        \E outcome :
          /\ Held(by, method, docs, Context(o), outcome)
          /\ outcome.status = "OK" => Answered(method, Context(o), docs, bs, outcome)
  BY CallAnswered
<1>1. PICK outcome :
        /\ Held(by, method, docs, Context(o), outcome)
        /\ outcome.status = "OK" => Answered(method, Context(o), docs, bs, outcome)
  BY <1>0
<1> DEFINE c == Context(o)
<1>2. ASSUME outcome.status = "OK", method = "rerank" PROVE RankedOwn(c, docs, outcome.result.items)
  BY <1>1, <1>2, RerankedOwn DEF Answered
<1>3. /\ pending'.status = outcome.status /\ pending'.method = method /\ pending'.docs = docs
      /\ pending'.context = c /\ pending'.result = outcome.result
  BY <1>1 DEF Held
<1> HIDE DEF c
<1> QED BY <1>2, <1>3 DEF RankingOwnScores, Succeeded, RankedOwn

\* A sparse embedding that succeeds has the terms of each text's own tokens.
LEMMA SparseCall ==
  ASSUME OwnerInv, NEW o \in Owner, NEW by, Call(o, by) PROVE SparseOwnTerms'
<1>0. PICK method \in {"rerank", "embed", "embed_files", "embed_bytes"}, docs \in Calls,
           bs \in BatchSizes :
        \E outcome :
          /\ Held(by, method, docs, Context(o), outcome)
          /\ outcome.status = "OK" => Answered(method, Context(o), docs, bs, outcome)
  BY CallAnswered
<1>1. PICK outcome :
        /\ Held(by, method, docs, Context(o), outcome)
        /\ outcome.status = "OK" => Answered(method, Context(o), docs, bs, outcome)
  BY <1>0
<1> DEFINE c == Context(o)
<1>2. ASSUME outcome.status = "OK", ~outcome.oom, method = "embed", NEW i \in DOMAIN docs
      PROVE  OwnTerms(Activation[docs[i]], 1..TokensOf(c, docs[i]), outcome.result.items[i])
  BY <1>1, <1>2, EmbeddedOwn DEF Answered
<1>3. /\ pending'.status = outcome.status /\ pending'.method = method /\ pending'.docs = docs
      /\ pending'.context = c /\ pending'.result = outcome.result /\ pending'.oom = outcome.oom
  BY <1>1 DEF Held
<1> HIDE DEF c
<1> QED BY <1>2, <1>3 DEF SparseOwnTerms, Succeeded, OwnTerms

\* A call on images that succeeds has read inside every picture, and has each
\* image's own row if the model answers vectors of the context's dimension.
LEMMA ImagesCall ==
  ASSUME OwnerInv, NEW o \in Owner, NEW by, Call(o, by) PROVE CropsInside' /\ ImageRowsOwn'
<1>0. PICK method \in {"rerank", "embed", "embed_files", "embed_bytes"}, docs \in Calls,
           bs \in BatchSizes :
        \E outcome :
          /\ Held(by, method, docs, Context(o), outcome)
          /\ outcome.status = "OK" => Answered(method, Context(o), docs, bs, outcome)
  BY CallAnswered
<1>1. PICK outcome :
        /\ Held(by, method, docs, Context(o), outcome)
        /\ outcome.status = "OK" => Answered(method, Context(o), docs, bs, outcome)
  BY <1>0
<1> DEFINE c == Context(o)
           files == [i \in DOMAIN docs |-> preprocess_image_to_buffer(Picture[docs[i]], TargetSize)]
           bytes == [i \in DOMAIN docs |-> preprocess_image_bytes_to_buffer(Picture[docs[i]], TargetSize)]
           size == OneOf(bs, c.batch_size)
           answers == outcome.result.items
           image == outcome.status = "OK" /\ method \in {"embed_files", "embed_bytes"}
           vectors == c.shape = [item |-> c.dim, last |-> c.dim]
<1>2. \A i \in DOMAIN docs : Moderate(Picture[docs[i]]) => Inside(files[i]) /\ Inside(bytes[i])
  <2> SUFFICES ASSUME NEW i \in DOMAIN docs, Moderate(Picture[docs[i]])
               PROVE  Inside(files[i]) /\ Inside(bytes[i])
    OBVIOUS
  <2> DEFINE picture == Picture[docs[i]]
  <2>1. docs[i] \in Doc
    BY CallsAssumption
  <2>2. picture.w \in Nat \ {0} /\ picture.h \in Nat \ {0} /\ TargetSize \in Nat \ {0}
    BY <2>1, SizesAssumption
  <2>3. /\ 3 * TargetSize * TargetSize * picture.w <= MaxInt * picture.h
        /\ 3 * TargetSize * TargetSize * picture.h <= MaxInt * picture.w
    BY DEF Moderate
  <2> HIDE DEF picture
  <2>4. /\ Inside(preprocess_image_to_buffer(picture, TargetSize))
        /\ Inside(preprocess_image_bytes_to_buffer(picture, TargetSize))
    BY <2>2, <2>3, CropInside
  <2> QED BY <2>4 DEF picture
<1>3. /\ pending'.status = outcome.status /\ pending'.method = method /\ pending'.docs = docs
      /\ pending'.context = c /\ pending'.result = outcome.result
  BY <1>1 DEF Held
<1> HIDE DEF c
<1>4. ASSUME image
      PROVE  /\ c \in ContextState /\ docs \in Seq(Doc) /\ docs # <<>> /\ bs \in Int
             /\ \A i \in DOMAIN docs :
                  Moderate(Picture[docs[i]]) => Inside(answers[i].window)
             /\ \E d : /\ d = c.shape.last \/ d = c.dim
                       /\ \A i \in DOMAIN docs : answers[i].row = AllImageRows(c, docs, size, d)[i]
  <2>1. Answered(method, c, docs, bs, outcome)
    BY <1>1, <1>4 DEF c
  <2> HIDE DEF files, bytes, size
  <2>2. c \in ContextState /\ docs \in Seq(Doc) /\ docs # <<>> /\ bs \in Int
    BY <2>1 DEF Answered, Absent
  <2>3. CASE method = "embed_files"
    <3>1. outcome \in ImageCall(c, docs, bs, c.shape.last, files, FALSE)
      BY <2>1, <2>3 DEF Answered, files
    <3>2. \A i \in DOMAIN docs : answers[i].window = files[i]
            /\ answers[i].row = AllImageRows(c, docs, size, c.shape.last)[i]
      <4>1. PICK d, counted : d = c.shape.last /\ outcome \in ImageCall(c, docs, bs, d, files, counted)
        BY <3>1
      <4>2. \A i \in DOMAIN docs : outcome.result.items[i].window = files[i]
              /\ outcome.result.items[i].row = AllImageRows(c, docs, OneOf(bs, c.batch_size), d)[i]
        BY <1>4, <2>2, <4>1, ImageCallSound
      <4> QED BY <4>1, <4>2 DEF size
    <3> QED BY <1>2, <2>2, <3>2
  <2>4. CASE method = "embed_bytes"
    <3>1. outcome \in ImageCall(c, docs, bs, c.dim, bytes, TRUE)
      BY <2>1, <2>4 DEF Answered, bytes
    <3>2. \A i \in DOMAIN docs : answers[i].window = bytes[i]
            /\ answers[i].row = AllImageRows(c, docs, size, c.dim)[i]
      <4>1. PICK d, counted : d = c.dim /\ outcome \in ImageCall(c, docs, bs, d, bytes, counted)
        BY <3>1
      <4>2. \A i \in DOMAIN docs : outcome.result.items[i].window = bytes[i]
              /\ outcome.result.items[i].row = AllImageRows(c, docs, OneOf(bs, c.batch_size), d)[i]
        BY <1>4, <2>2, <4>1, ImageCallSound
      <4> QED BY <4>1, <4>2 DEF size
    <3> QED BY <1>2, <2>2, <3>2
  <2> QED BY <1>4, <2>3, <2>4
<1> HIDE DEF answers
<1>5. ASSUME image, vectors, NEW i \in DOMAIN docs, NEW j \in 1..c.dim
      PROVE  answers[i].row[j] = [cell |-> Cell(i, j), norm |-> {Cell(i, k) : k \in 1..c.dim}]
  <2>1. size \in Nat \ {0} /\ c.shape \in Shapes
    BY <1>4, <1>5 DEF OneOf, ContextState
  <2>2. c.shape.item = c.dim /\ c.shape.last = c.dim /\ c.dim \in Nat \ {0}
    BY <1>5, <2>1, ShapesAssumption
  <2>3. answers[i].row = AllImageRows(c, docs, size, c.dim)[i]
    BY <1>4, <1>5, <2>2
  <2> HIDE DEF size
  <2>4. docs \in Seq(Doc) /\ docs # <<>>
    BY <1>4, <1>5
  <2>5. AllImageRows(c, docs, size, c.dim)[i][j] = ScaledCell(i, j, c.dim)
    BY <2>1, <2>2, <2>4, ImageRowOwn
  <2> QED BY <2>3, <2>5 DEF ScaledCell
<1>6. CropsInside'
  BY <1>3, <1>4 DEF CropsInside, Succeeded, answers
<1>7. ImageRowsOwn'
  BY <1>3, <1>5 DEF ImageRowsOwn, Succeeded, answers
<1> QED BY <1>6, <1>7

\* These four properties are about the result held, which a call makes and
\* nothing else changes.
LEMMA AnswersNext ==
  ASSUME OwnerInv, [Next]_vars
  PROVE  /\ RankingOwnScores => RankingOwnScores'
         /\ SparseOwnTerms => SparseOwnTerms'
         /\ ImageRowsOwn => ImageRowsOwn'
         /\ CropsInside => CropsInside'
<1>1. ASSUME NEW o \in Owner, NEW by, Call(o, by)
      PROVE  RankingOwnScores' /\ SparseOwnTerms' /\ ImageRowsOwn' /\ CropsInside'
  BY <1>1, RankingCall, SparseCall, ImagesCall
<1>2. CASE pending' = None
  BY <1>2 DEF RankingOwnScores, SparseOwnTerms, ImageRowsOwn, CropsInside, Succeeded
<1>3. CASE UNCHANGED pending
  BY <1>3 DEF RankingOwnScores, SparseOwnTerms, ImageRowsOwn, CropsInside, Succeeded
<1> QED BY <1>1, <1>2, <1>3, PendingStep

\* Nothing is held at the start.
LEMMA AnswersInit ==
  Init => RankingOwnScores /\ SparseOwnTerms /\ ImageRowsOwn /\ CropsInside
BY DEF Init, RankingOwnScores, SparseOwnTerms, ImageRowsOwn, CropsInside, Succeeded

\* lembed_reranker_rerank lists every document once, best first, and, for a
\* model with one row of labels per document or a llama.cpp one, each with its
\* own score and not its neighbour's in the batch: for calls of every length
\* and every batch size.
THEOREM RankingsAreOwn == Spec => []RankingOwnScores
<1>1. OwnerInv /\ RankingOwnScores /\ [Next]_vars => (OwnerInv /\ RankingOwnScores)'
  BY OwnerNext, AnswersNext
<1> QED BY <1>1, OwnerInit, AnswersInit, PTL DEF Spec

\* A sparse vector of splade_postprocess is its own text's: wherever the text
\* stood in its batch and however much the batch was padded, it has exactly
\* the terms a token of the text activates, with the largest activation.
THEOREM SparseVectorsAreOwn == Spec => []SparseOwnTerms
<1>1. OwnerInv /\ SparseOwnTerms /\ [Next]_vars => (OwnerInv /\ SparseOwnTerms)'
  BY OwnerNext, AnswersNext
<1> QED BY <1>1, OwnerInit, AnswersInit, PTL DEF Spec

\* embed_files and embed_bytes give every image its own components, scaled by
\* the norm of its own vector, for a model that answers vectors of the
\* context's dimension: the offset into the result is right in every batch.
THEOREM ImageRowsAreOwn == Spec => []ImageRowsOwn
<1>1. OwnerInv /\ ImageRowsOwn /\ [Next]_vars => (OwnerInv /\ ImageRowsOwn)'
  BY OwnerNext, AnswersNext
<1> QED BY <1>1, OwnerInit, AnswersInit, PTL DEF Spec

\* preprocess_image_to_buffer and preprocess_image_bytes_to_buffer allocate all
\* of the resized picture and never read outside it, for every target size and
\* pictures of every size whose longer side is at most
\* MaxInt / (3 * TargetSize^2) times the shorter, as the int in which the
\* allocation is reckoned requires (image_preprocess.hpp:159-171, 190-202).
THEOREM CropsStayInside == Spec => []CropsInside
<1>1. OwnerInv /\ CropsInside /\ [Next]_vars => (OwnerInv /\ CropsInside)'
  BY OwnerNext, AnswersNext
<1> QED BY <1>1, OwnerInit, AnswersInit, PTL DEF Spec

-----------------------------------------------------------------------------
(***************************************************************************)
(* Memory.                                                                 *)
(***************************************************************************)
\* The result held is as its call left it, and no harm was done but after a
\* failed allocation.
MemoryInv ==
  /\ pending # None => Kept(pending.method, pending)
  /\ ResultMemory

\* A call leaves a result that its callers can read and free.
LEMMA MemoryCall ==
  ASSUME OwnerInv, MemoryInv, NEW o \in Owner, NEW by, Call(o, by) PROVE MemoryInv'
<1>0. PICK method \in {"rerank", "embed", "embed_files", "embed_bytes"}, docs \in Calls,
           bs \in BatchSizes :
        \E outcome :
          Held(by, method, docs, Context(o), outcome) /\ Proper(method, outcome)
  BY CallAnswered
<1>1. PICK outcome :
        Held(by, method, docs, Context(o), outcome) /\ Proper(method, outcome)
  BY <1>0
<1>2. /\ pending'.status = outcome.status /\ pending'.method = method
      /\ pending'.result = outcome.result /\ pending'.oom = outcome.oom
  BY <1>1 DEF Held
<1>3. Kept(pending'.method, pending')
  BY <1>1, <1>2 DEF Proper, Kept
<1>4. ResultMemory'
  BY DEF Call, MemoryInv, ResultMemory
<1> QED BY <1>3, <1>4 DEF MemoryInv

\* A caller that reads or frees a result does harm only after a failed
\* allocation: the wrapper looks at the status, the C caller does not.
LEMMA MemoryReturned ==
  ASSUME MemoryInv, Return \/ Discard PROVE MemoryInv'
<1>1. pending # None /\ Kept(pending.method, pending) /\ pending' = None
  BY DEF MemoryInv, Return, Discard
<1>2. CASE Return
  <2>1. pending.status # "OK" => ~pending.result.held
    BY <1>1 DEF Kept
  <2>2. pending.status = "OK" /\ ReadFaults(pending.result) => pending.oom
    BY <1>1 DEF Kept, ReadFaults
  <2>3. \A h \in harm' : h \in harm \/ h.oom
    BY <1>2, <2>1, <2>2 DEF Return, Harm
  <2> QED BY <1>1, <2>3 DEF MemoryInv, ResultMemory
<1>3. CASE Discard
  <2>1. pending.method = "embed" /\ Len(pending.result.items) < pending.result.count => pending.oom
    BY <1>1 DEF Kept
  <2>2. \A h \in harm' : h \in harm \/ h.oom
    BY <1>3, <2>1 DEF Discard, Harm
  <2> QED BY <1>1, <2>2 DEF MemoryInv, ResultMemory
<1> QED BY <1>2, <1>3

\* The memory of the result structs is handled right by callers that look at
\* the status (check_status) and by callers that do not, except after a malloc
\* that failed: nothing is leaked, freed twice or read past its end.
THEOREM ResultsHandled == Spec => []ResultMemory
<1>1. Init => MemoryInv
  BY DEF Init, MemoryInv, ResultMemory
<1>2. OwnerInv /\ MemoryInv /\ [Next]_vars => (OwnerInv /\ MemoryInv)'
  <2> SUFFICES ASSUME OwnerInv, MemoryInv, [Next]_vars PROVE MemoryInv'
    BY OwnerNext
  <2>1. ASSUME UNCHANGED <<pending, harm>> PROVE MemoryInv'
    BY <2>1 DEF MemoryInv, ResultMemory
  <2>2. ASSUME NEW o \in Owner, Construct(o) \/ close(o) \/ Destroy(o) PROVE MemoryInv'
    BY <2>1, <2>2 DEF Construct, close, Destroy
  <2>3. ASSUME NEW o \in Owner, NEW other \in Owner, MoveConstruct(o, other) \/ MoveAssign(o, other)
        PROVE  MemoryInv'
    BY <2>1, <2>3 DEF MoveConstruct, MoveAssign
  <2>4. ASSUME NEW o \in Owner, NEW by, Call(o, by) PROVE MemoryInv'
    BY <2>4, MemoryCall
  <2>5. UNCHANGED vars => MemoryInv'
    BY <2>1 DEF vars
  <2> QED BY <2>2, <2>3, <2>4, <2>5, MemoryReturned DEF Next
<1>3. MemoryInv => ResultMemory
  BY DEF MemoryInv
<1> QED BY <1>1, <1>2, <1>3, OwnerInit, PTL DEF Spec

\* Nothing is orphaned as long as nothing threw.
OrphanInv == ~thrown => orphans = 0

\* A C call that did not throw orphans nothing.
LEMMA OrphansMade ==
  ASSUME OrphanInv, NEW outcome, Clean(outcome), Made(outcome) PROVE OrphanInv'
<1> SUFFICES ASSUME ~thrown' PROVE orphans' = 0
  BY DEF OrphanInv
<1>1. ~thrown /\ ~outcome.says
  BY Zenon DEF Made
<1>2. orphans = 0 /\ outcome.orphans = 0
  BY <1>1 DEF OrphanInv, Clean
<1> QED BY <1>2 DEF Made

\* The loading of a model and every inference release all they make (options,
\* tensors, outputs, type infos) but the session itself: an ORT object that
\* nobody owns was left by an operation that threw.
THEOREM OrphansAreThrown == Spec => []OrphansOnlyFromThrows
<1>1. Init => OrphanInv
  BY DEF Init, OrphanInv
<1>2. OwnerInv /\ OrphanInv /\ [Next]_vars => (OwnerInv /\ OrphanInv)'
  <2> SUFFICES ASSUME OwnerInv, OrphanInv, [Next]_vars PROVE OrphanInv'
    BY OwnerNext
  <2>1. ASSUME UNCHANGED <<orphans, thrown>> PROVE OrphanInv'
    BY <2>1 DEF OrphanInv
  <2>2. ASSUME NEW o \in Owner, Construct(o) PROVE OrphanInv'
    <3>1. PICK name \in {"registered", "directory"} \union (IF class = "Reranker" THEN {"gguf"} ELSE {}),
               options \in Options, config \in Configs :
            \E outcome \in Creations(name, options, config) : Made(outcome)
      BY <2>2, Zenon DEF Construct
    <3>2. PICK outcome \in Creations(name, options, config) : Made(outcome)
      BY <3>1
    <3>3. Clean(outcome)
      BY CreationsSound DEF Sound, OwnerInv, OwnerType
    <3> QED BY <3>2, <3>3, OrphansMade
  <2>3. ASSUME NEW o \in Owner, close(o) \/ Destroy(o) PROVE OrphanInv'
    BY <2>1, <2>3 DEF close, Destroy
  <2>4. ASSUME NEW o \in Owner, NEW other \in Owner, MoveConstruct(o, other) \/ MoveAssign(o, other)
        PROVE  OrphanInv'
    BY <2>1, <2>4 DEF MoveConstruct, MoveAssign
  <2>5. ASSUME NEW o \in Owner, NEW by, Call(o, by) PROVE OrphanInv'
    <3>1. PICK method, outcome : Made(outcome) /\ Proper(method, outcome)
      BY <2>5, CallAnswered
    <3> QED BY <3>1, OrphansMade DEF Proper
  <2>6. ASSUME Return \/ Discard \/ UNCHANGED vars PROVE OrphanInv'
    BY <2>1, <2>6 DEF Return, Discard, vars
  <2> QED BY <2>2, <2>3, <2>4, <2>5, <2>6 DEF Next
<1>3. OrphanInv => OrphansOnlyFromThrows
  BY DEF OrphanInv, OrphansOnlyFromThrows
<1> QED BY <1>1, <1>2, <1>3, OwnerInit, PTL DEF Spec
=============================================================================
