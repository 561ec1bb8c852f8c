------------------------ MODULE TextEmbeddingProofs ------------------------
(***************************************************************************)
(* What holds of one text-embedding context (TextEmbedding) for every set  *)
(* of texts, every batch size and every nesting of calls, and, in the      *)
(* second part, of the threads that embed the texts of one call side by    *)
(* side on such contexts (EmbeddingPool).                                  *)
(***************************************************************************)
EXTENDS TextEmbedding, EmbeddingPool, SequenceTheorems, FiniteSetTheorems, TLAPS

\* Embeddings, their numbers, and rows of as many numbers as a context thinks
\* an embedding has.
Vectors == [call : Nat, pos : Nat, with : SUBSET Nat]
Numbers == [of : Vectors, at : Nat] \cup {None}
Windows == UNION {[0..(d - 1) -> Numbers] : d \in Nat}

Contexts ==
  [backend : {"ONNX", "LLAMACPP"}, quantization : {"NONE", "DYNAMIC"},
   batch_strategy : {"SEQUENTIAL", "FIXED", "LENGTH_BUCKET"},
   dim : Nat, batch_size : Nat \ {0}]

Frames ==
  [id : Nat, op : {"embed", "stream"}, lens : Seq(Nat), batch_size : Nat,
   step : Nat \ {0}, indices : Seq(Nat), done : Nat, row : Nat,
   fresh : BOOLEAN, data : Seq(Windows),
   delivered : Seq([row : Windows, fresh : BOOLEAN])]

TypeOK ==
  /\ ctx \in Contexts \cup {None}
  /\ calls \in Seq(Frames)
  /\ pooled_buf_ \in Seq(Vectors)
  /\ texts_embedded \in Nat
  /\ batches_run \in Nat
  /\ issued \in Nat

\* A call in progress has a context.
Held == calls # <<>> => ctx # None

-----------------------------------------------------------------------------
(* What is known of a call in progress. *)

\* Rows of the batches before the last one.
Before(f) == IF f.done = 0 THEN 0 ELSE (f.done - 1) * f.step

\* The order is one of all the texts, there is at least one, the last batch
\* was not empty and no more of its rows were passed on than it has.
Ordered(f) ==
  /\ f.lens # <<>>
  /\ f.indices \in [Positions(f.lens) -> Positions(f.lens)]
  /\ IsInjective(f.indices)
  /\ Before(f) < Total(f)
  /\ f.row <= Cardinality(LastRows(f))

\* The copies of embed begin where the rows begin.
Fits(f, c) == c.dim = out_dim \/ (f.step = 1 /\ c.dim < out_dim)

\* The embeddings of all batches run so far are where they belong; no row was
\* passed on.
Placed(f, c) ==
  f.op = "embed" =>
    /\ f.delivered = <<>>
    /\ DOMAIN f.data = Positions(f.lens)
    /\ Fits(f, c) =>
         \A j \in Positions(f.lens) :
           j <= f.done * f.step => IsOf(f.data[f.indices[j]], f.id, f.indices[j], c.dim)

\* A stream runs its texts in order, and has passed on the rows of the
\* batches before the last and some of the last.
Streamed(f, c) ==
  f.op = "stream" =>
    /\ \A i \in Positions(f.lens) : f.indices[i] = i
    /\ Len(f.delivered) = Before(f) + f.row
    /\ \A k \in DOMAIN f.delivered :
         f.delivered[k].fresh /\ c.dim <= out_dim =>
           IsOf(f.delivered[k].row, f.id, k, c.dim)

OwnVector(e, id, p) == e.call = id /\ e.pos = p

\* The shared buffer has room for the rows of the last batch of a stream, and
\* begins with them until another call runs a batch.
Buffered(f, c, buf) ==
  f.op = "stream" /\ c.backend = "ONNX" =>
    \A j \in 1..Cardinality(LastRows(f)) :
      /\ j \in DOMAIN buf
      /\ f.fresh => OwnVector(buf[j], f.id, Before(f) + j)

Sound(f, c, buf) ==
  /\ Ordered(f)
  /\ Placed(f, c)
  /\ Streamed(f, c)
  /\ Buffered(f, c, buf)
  /\ c.backend = "LLAMACPP" => f.step = 1

AllSound == \A n \in DOMAIN calls : Sound(calls[n], ctx, pooled_buf_)

Inv == TypeOK /\ Held /\ AllSound /\ ResultsInPlace

-----------------------------------------------------------------------------
(* Batches. *)

\* Batch d of n texts in batches of s: there is one exactly when a text is
\* left, and it holds the next s texts or those that are left.
LEMMA Split ==
  ASSUME NEW n \in Nat \ {0}, NEW s \in Nat \ {0}, NEW d \in Nat
  PROVE  /\ d * s \in Nat
         /\ (d + 1) * s = d * s + s
         /\ BatchSize(n, s) = s
         /\ batch_count(n, s) \in Nat
         /\ d < batch_count(n, s) <=> d * s < n
         /\ get_batch(d, n, s) = (d * s + 1)..(IF d * s + s < n THEN d * s + s ELSE n)
         /\ IsFiniteSet(get_batch(d, n, s))
         /\ Cardinality(get_batch(d, n, s)) =
              IF d * s >= n THEN 0 ELSE IF d * s + s < n THEN s ELSE n - d * s
<1>1. d * s \in Nat /\ (d + 1) * s = d * s + s
  OBVIOUS
<1>2. BatchSize(n, s) = s
  BY DEF BatchSize
<1> DEFINE a == n + s - 1
           q == a \div s
<1>3. a \in Nat
  OBVIOUS
<1>4. \A x \in Nat, y \in Nat \ {0} :
        /\ x \div y \in Nat /\ x % y \in 0..(y - 1)
        /\ x = y * (x \div y) + (x % y)
  OBVIOUS
<1>5. batch_count(n, s) = q
  BY <1>2 DEF batch_count
<1>6. q \in Nat /\ a % s \in 0..(s - 1) /\ a = s * q + (a % s)
  BY <1>3, <1>4
<1>7. d < q <=> d * s < n
  <2> DEFINE r == a % s
             m == s * q
  <2>1. r \in 0..(s - 1) /\ n + s - 1 = m + r /\ m \in Nat
    BY <1>6
  <2>2. \A x, y \in Nat : x <= y => x * s <= y * s
    OBVIOUS
  <2>3. m = q * s
    BY <1>6
  <2>4. CASE d < q
    <3>1. d + 1 <= q
      BY <1>6, <2>4
    <3>2. (d + 1) * s <= m
      BY <1>6, <2>2, <2>3, <3>1
    <3> HIDE DEF q, r, m
    <3>3. d * s < n
      BY <1>1, <2>1, <3>2
    <3> QED BY <2>4, <3>3
  <2>5. CASE ~(d < q)
    <3>1. m <= d * s
      BY <1>6, <2>2, <2>3, <2>5
    <3> HIDE DEF q, r, m
    <3>2. ~(d * s < n)
      BY <1>1, <2>1, <3>1
    <3> QED BY <2>5, <3>2
  <2> QED BY <2>4, <2>5
<1> HIDE DEF a, q
<1> DEFINE b == d * s
           e == IF b + s < n THEN b + s ELSE n
<1>8. get_batch(d, n, s) = (b + 1)..e
  <2>1. get_batch(d, n, s) = {i \in 1..n : i > b /\ i <= b + s}
    BY <1>1, <1>2 DEF get_batch
  <2>2. b \in Nat
    BY <1>1
  <2> HIDE DEF b
  <2> QED BY <2>1, <2>2
<1>9. /\ IsFiniteSet((b + 1)..e)
      /\ Cardinality((b + 1)..e) = IF b >= n THEN 0 ELSE IF b + s < n THEN s ELSE n - b
  <2>1. b \in Nat
    BY <1>1
  <2> HIDE DEF b
  <2>2. b + 1 \in Int /\ e \in Int
    BY <2>1
  <2>3. /\ IsFiniteSet((b + 1)..e)
        /\ Cardinality((b + 1)..e) = IF b + 1 > e THEN 0 ELSE e - (b + 1) + 1
    BY <2>2, FS_Interval
  <2> QED BY <2>1, <2>3
<1> QED BY <1>1, <1>2, <1>5, <1>6, <1>7, <1>8, <1>9

\* An injective order of finitely many texts leaves none out.
LEMMA NoneLeftOut ==
  ASSUME NEW n \in Nat, NEW p \in [1..n -> 1..n], IsInjective(p), NEW i \in 1..n
  PROVE  \E j \in 1..n : p[j] = i
<1>1. IsFiniteSet(1..n)
  <2>1. 1 \in Int /\ n \in Int
    OBVIOUS
  <2> QED BY <2>1, FS_Interval
<1>2. p \in Injection(1..n, 1..n)
  BY DEF Injection
<1>3. p \in Surjection(1..n, 1..n)
  BY <1>1, <1>2, FS_Injection
<1> QED BY <1>3 DEF Surjection

-----------------------------------------------------------------------------
(* The rows of a batch. *)

\* What a frame's fields are, and the batch it is about to run.
LEMMA Reckoned ==
  ASSUME NEW f \in Frames, Ordered(f)
  PROVE  /\ Total(f) \in Nat \ {0} /\ Len(f.lens) = Total(f)
         /\ f.step \in Nat \ {0} /\ f.done \in Nat /\ f.row \in Nat
         /\ f.done * f.step \in Nat
         /\ Start(f) = f.done * f.step
         /\ Batches(f) \in Nat
         /\ f.done < Batches(f) <=> Start(f) < Total(f)
         /\ Rows(f) = (Start(f) + 1)..(IF Start(f) + f.step < Total(f)
                                       THEN Start(f) + f.step ELSE Total(f))
         /\ Cardinality(Rows(f)) =
              IF Start(f) >= Total(f) THEN 0
              ELSE IF Start(f) + f.step < Total(f) THEN f.step ELSE Total(f) - Start(f)
<1>1. Total(f) \in Nat \ {0} /\ Len(f.lens) = Total(f)
  BY DEF Total, Frames, Ordered
<1>2. f.step \in Nat \ {0} /\ f.done \in Nat /\ f.row \in Nat
  BY DEF Frames
<1> DEFINE n == Total(f)
           s == f.step
           d == f.done
<1>3. n \in Nat \ {0} /\ s \in Nat \ {0} /\ d \in Nat
  BY <1>1, <1>2
<1>4. /\ Start(f) = d * BatchSize(n, s)
      /\ Batches(f) = batch_count(n, s)
      /\ Rows(f) = get_batch(d, n, s)
  BY DEF Start, Batches, Rows
<1> HIDE DEF n, s, d
<1>5. /\ d * s \in Nat
      /\ BatchSize(n, s) = s
      /\ batch_count(n, s) \in Nat
      /\ d < batch_count(n, s) <=> d * s < n
      /\ get_batch(d, n, s) = (d * s + 1)..(IF d * s + s < n THEN d * s + s ELSE n)
      /\ Cardinality(get_batch(d, n, s)) =
           IF d * s >= n THEN 0 ELSE IF d * s + s < n THEN s ELSE n - d * s
  BY <1>3, Split
<1> QED BY <1>1, <1>2, <1>4, <1>5 DEF n, s, d

\* The rows of the last batch run, of which there is one.
LEMMA LastBatch ==
  ASSUME NEW f \in Frames, Ordered(f), f.done # 0
  PROVE  /\ Before(f) \in Nat
         /\ Before(f) + f.step = f.done * f.step
         /\ Cardinality(LastRows(f)) =
              IF Before(f) + f.step < Total(f) THEN f.step ELSE Total(f) - Before(f)
<1> DEFINE n == Total(f)
           s == f.step
           d == f.done - 1
<1>0. n \in Nat \ {0} /\ s \in Nat \ {0} /\ d \in Nat
  BY Reckoned
<1>1. f.done = d + 1
  BY Reckoned
<1>2. Before(f) = d * s /\ LastRows(f) = get_batch(d, n, s) /\ Before(f) < n
  BY DEF Before, LastRows, Ordered
<1>3. f.done * s = (d + 1) * s
  BY <1>1
<1> HIDE DEF n, s, d
<1>4. /\ d * s \in Nat
      /\ (d + 1) * s = d * s + s
      /\ Cardinality(get_batch(d, n, s)) =
           IF d * s >= n THEN 0 ELSE IF d * s + s < n THEN s ELSE n - d * s
  BY <1>0, Split
<1>5. ~(d * s >= n)
  BY <1>0, <1>2, <1>4
<1> QED BY <1>2, <1>3, <1>4, <1>5 DEF n, s

\* A stream that has passed on all rows of its last batch and has texts left
\* has passed on all rows before the next batch.
LEMMA CaughtUp ==
  ASSUME NEW f \in Frames, Ordered(f), f.row = Cardinality(LastRows(f)),
         f.done < Batches(f)
  PROVE  Before(f) + f.row = f.done * f.step
<1>1. CASE f.done = 0
  <2>1. f.row = 0
    BY <1>1, FS_EmptySet DEF LastRows
  <2>2. f.step \in Nat /\ 0 * f.step = 0
    BY Reckoned
  <2> QED BY <1>1, <2>1, <2>2 DEF Before
<1>2. CASE f.done # 0
  <2> DEFINE b == Before(f)
             n == Total(f)
             s == f.step
             m == f.done * f.step
             r == Cardinality(LastRows(f))
  <2>1. /\ b \in Nat /\ b + s = m
        /\ r = IF b + s < n THEN s ELSE n - b
    BY <1>2, LastBatch
  <2>2. m < n /\ n \in Nat /\ s \in Nat
    BY Reckoned
  <2> HIDE DEF b, n, s, m, r
  <2>3. b + r = m
    BY <2>1, <2>2
  <2> QED BY <2>3 DEF b, m, r
<1> QED BY <1>1, <1>2

\* What the session returns for one text is that text's.
LEMMA RowOwn ==
  ASSUME ctx \in Contexts, NEW f \in Frames, NEW i \in Positions(f.lens),
         f.indices \in [Positions(f.lens) -> Positions(f.lens)]
  PROVE  /\ EmbeddingAt(f, i) \in Vectors
         /\ OwnVector(EmbeddingAt(f, i), f.id, f.indices[i])
<1> DEFINE e == [call |-> f.id, pos |-> f.indices[i], with |-> {f.indices[j] : j \in Rows(f)}]
<1>1. f.id \in Nat
  BY DEF Frames
<1>2. \A j \in Positions(f.lens) : f.indices[j] \in Nat
  BY DEF Positions
<1>3. Rows(f) \subseteq Positions(f.lens)
  BY DEF Rows, get_batch, Total, Positions
<1>4. {f.indices[j] : j \in Rows(f)} \in SUBSET Nat
  BY <1>2, <1>3
<1>5. e \in [call : Nat, pos : Nat, with : SUBSET Nat]
  BY <1>1, <1>2, <1>4
<1>6. EmbeddingAt(f, i) = e
  BY DEF EmbeddingAt
<1>7. e.call = f.id /\ e.pos = f.indices[i]
  OBVIOUS
<1> HIDE DEF e
<1> QED BY <1>5, <1>6, <1>7 DEF Vectors, OwnVector

\* The rows of the next batch, in the order of the texts.
LEMMA PooledRows ==
  ASSUME ctx \in Contexts, NEW f \in Frames, Ordered(f), f.done < Batches(f)
  PROVE  /\ Pooled(f) \in Seq(Vectors)
         /\ Len(Pooled(f)) = Cardinality(Rows(f))
         /\ \A j \in 1..Len(Pooled(f)) :
              /\ Start(f) + j \in Positions(f.lens)
              /\ Pooled(f)[j] = EmbeddingAt(f, Start(f) + j)
<1> DEFINE r == Cardinality(Rows(f))
           b == Start(f)
           n == Total(f)
           s == f.step
<1>1. /\ b \in Nat /\ b < n /\ n \in Nat /\ s \in Nat \ {0}
      /\ r = IF b >= n THEN 0 ELSE IF b + s < n THEN s ELSE n - b
      /\ Positions(f.lens) = 1..n
  BY Reckoned DEF Positions
<1>2. Pooled(f) = [j \in 1..r |-> EmbeddingAt(f, b + j)]
  BY DEF Pooled
<1> HIDE DEF r, b, n, s
<1>3. r \in Nat /\ \A j \in 1..r : b + j \in 1..n
  BY <1>1
<1>4. \A j \in 1..r : EmbeddingAt(f, b + j) \in Vectors
  BY <1>1, <1>3, RowOwn DEF Ordered
<1>5. Pooled(f) \in Seq(Vectors) /\ Len(Pooled(f)) = r
  BY <1>2, <1>3, <1>4
<1> QED BY <1>1, <1>2, <1>3, <1>5 DEF r, b

\* Rows laid over the buffer are its first rows.
LEMMA OverlaidRows ==
  ASSUME NEW rows \in Seq(Vectors), NEW buf \in Seq(Vectors)
  PROVE  /\ Overlaid(rows, buf) \in Seq(Vectors)
         /\ DOMAIN buf \subseteq DOMAIN Overlaid(rows, buf)
         /\ \A j \in 1..Len(rows) :
              j \in DOMAIN Overlaid(rows, buf) /\ Overlaid(rows, buf)[j] = rows[j]
<1> DEFINE tail == SubSeq(buf, Len(rows) + 1, Len(buf))
<1>1. Len(rows) \in Nat /\ Len(buf) \in Nat
  OBVIOUS
<1>2. \A i \in (Len(rows) + 1)..Len(buf) : buf[i] \in Vectors
  BY <1>1
<1>3. /\ tail \in Seq(Vectors)
      /\ Len(tail) = IF Len(rows) + 1 <= Len(buf) THEN Len(buf) - (Len(rows) + 1) + 1 ELSE 0
  BY <1>1, <1>2, SubSeqProperties
<1>4. Overlaid(rows, buf) = rows \o tail
  BY DEF Overlaid
<1> HIDE DEF tail
<1>5. /\ rows \o tail \in Seq(Vectors)
      /\ Len(rows \o tail) = Len(rows) + Len(tail)
      /\ \A i \in 1..(Len(rows) + Len(tail)) :
           (rows \o tail)[i] = IF i <= Len(rows) THEN rows[i] ELSE tail[i - Len(rows)]
  BY <1>3, ConcatProperties
<1>6. Len(tail) \in Nat /\ DOMAIN (rows \o tail) = 1..Len(rows \o tail)
  BY <1>3, <1>5
<1>7. DOMAIN buf = 1..Len(buf) /\ Len(buf) <= Len(rows \o tail)
  BY <1>1, <1>3, <1>5
<1> QED BY <1>1, <1>4, <1>5, <1>6, <1>7

\* Where the numbers of a buffer with rows of w numbers are.
LEMMA Addresses ==
  ASSUME NEW w \in Nat \ {0}, NEW y \in Nat, NEW x \in 0..(w - 1)
  PROVE  (y * w + x) \div w = y /\ (y * w + x) % w = x
OBVIOUS

\* Whatever is copied out of a buffer is as many numbers as the context says.
LEMMA NumbersTyped ==
  ASSUME NEW buf \in Seq(Vectors), NEW a \in Nat
  PROVE  NumberAt(buf, a) \in Numbers
<1> DEFINE r == (a \div out_dim) + 1
           x == a % out_dim
<1>1. x \in Nat
  BY DimAssumption
<1>2. NumberAt(buf, a) = IF r \in DOMAIN buf THEN [of |-> buf[r], at |-> x] ELSE None
  BY DEF NumberAt, Number
<1> HIDE DEF r, x
<1>3. r \in DOMAIN buf => buf[r] \in Vectors
  OBVIOUS
<1> QED BY <1>1, <1>2, <1>3 DEF Numbers

\* A row of numbers is a window.
LEMMA WindowTyped ==
  ASSUME ctx \in Contexts, NEW w, w = [k \in Offsets |-> w[k]],
         \A k \in Offsets : w[k] \in Numbers
  PROVE  w \in Windows
<1>1. ctx.dim \in Nat
  BY DEF Contexts
<1>2. w \in [0..(ctx.dim - 1) -> Numbers]
  BY DEF Offsets
<1> QED BY <1>1, <1>2 DEF Windows

\* The numbers of one embedding, one after the other, are that embedding.
LEMMA NumbersOf ==
  ASSUME NEW e \in Vectors, NEW id, NEW p, OwnVector(e, id, p), NEW dim \in Nat, NEW w,
         \A k \in 0..(dim - 1) : w[k] = Number(e, k)
  PROVE  IsOf(w, id, p, dim)
<1> SUFFICES ASSUME NEW k \in 0..(dim - 1)
             PROVE  w[k] # None /\ w[k].of.call = id /\ w[k].of.pos = p /\ w[k].at = k
  BY DEF IsOf
<1>1. w[k] = [of |-> e, at |-> k]
  BY DEF Number
<1>2. w[k] \in [of : Vectors, at : Nat]
  BY <1>1
<1>3. w[k] # None
  BY <1>2, NoneAssumption DEF Vectors
<1> QED BY <1>1, <1>3 DEF OwnVector

\* The number k places behind the beginning of row j, within that row.
LEMMA NumberInRow ==
  ASSUME NEW buf \in Seq(Vectors), NEW j \in 1..Len(buf), NEW k \in 0..(out_dim - 1)
  PROVE  NumberAt(buf, (j - 1) * out_dim + k) = Number(buf[j], k)
<1> DEFINE y == j - 1
<1>1. y \in Nat /\ y + 1 = j /\ j \in DOMAIN buf
  OBVIOUS
<1> HIDE DEF y
<1>2. (y * out_dim + k) \div out_dim = y /\ (y * out_dim + k) % out_dim = k
  BY <1>1, Addresses, DimAssumption
<1>3. NumberAt(buf, y * out_dim + k) = Number(buf[y + 1], k)
  BY <1>1, <1>2 DEF NumberAt
<1> QED BY <1>1, <1>3 DEF y

\* A copied row is a window, and where the copies begin where the rows begin
\* it is its own row, or the beginning of it.
LEMMA CopiedOwn ==
  ASSUME ctx \in Contexts, NEW buf \in Seq(Vectors), NEW j \in 1..Len(buf)
  PROVE  /\ Copied(buf, j) \in Windows
         /\ ctx.dim = out_dim \/ (j = 1 /\ ctx.dim < out_dim) =>
              \A k \in 0..(ctx.dim - 1) : Copied(buf, j)[k] = Number(buf[j], k)
<1> DEFINE dim == ctx.dim
           w == Copied(buf, j)
<1>1. dim \in Nat /\ j - 1 \in Nat /\ out_dim \in Nat \ {0} /\ Offsets = 0..(dim - 1)
  BY DimAssumption DEF Contexts, Offsets
<1>2. w = [k \in Offsets |-> NumberAt(buf, (j - 1) * dim + k)]
  BY DEF Copied
<1> HIDE DEF dim, w
<1>3. \A k \in Offsets : (j - 1) * dim + k \in Nat
  BY <1>1
<1>4. w \in Windows
  <2>1. \A k \in Offsets : w[k] \in Numbers
    BY <1>2, <1>3, NumbersTyped
  <2> QED BY <1>2, <2>1, WindowTyped
<1>5. ASSUME dim = out_dim \/ (j = 1 /\ dim < out_dim), NEW k \in 0..(dim - 1)
      PROVE  w[k] = Number(buf[j], k)
  <2>1. k \in 0..(out_dim - 1) /\ w[k] = NumberAt(buf, (j - 1) * dim + k)
    BY <1>1, <1>2, <1>5
  <2>2. (j - 1) * dim + k = (j - 1) * out_dim + k
    <3>1. CASE dim = out_dim
      BY <3>1
    <3>2. CASE j = 1
      BY <1>1, <3>2
    <3> QED BY <1>5, <3>1, <3>2
  <2> QED BY <2>1, <2>2, NumberInRow
<1> QED BY <1>4, <1>5 DEF dim, w

\* What the vector of one text holds.
LEMMA OwnNumbers ==
  ASSUME ctx \in Contexts, NEW e \in Vectors
  PROVE  Own(e) \in Windows /\ \A k \in 0..(ctx.dim - 1) : Own(e)[k] = Number(e, k)
<1>1. \A k \in Offsets : Own(e)[k] = Number(e, k) /\ Number(e, k) \in Numbers
  BY DEF Own, Number, Numbers, Offsets, Contexts
<1>2. Own(e) = [k \in Offsets |-> Own(e)[k]]
  BY DEF Own
<1> HIDE DEF Own
<1> QED BY <1>1, <1>2, WindowTyped DEF Offsets

\* What a batch leaves in the buffer.
LEMMA BufferRows ==
  ASSUME ctx \in Contexts, pooled_buf_ \in Seq(Vectors), NEW f \in Frames, Ordered(f),
         f.done < Batches(f)
  PROVE  /\ BufferAfter(f) \in Seq(Vectors)
         /\ DOMAIN pooled_buf_ \subseteq DOMAIN BufferAfter(f)
         /\ ctx.backend = "ONNX" =>
              \A j \in 1..Len(Pooled(f)) : /\ j \in 1..Len(BufferAfter(f))
                                           /\ BufferAfter(f)[j] = Pooled(f)[j]
<1>1. Pooled(f) \in Seq(Vectors)
  BY PooledRows
<1>2. CASE ctx.backend = "ONNX"
  BY <1>1, <1>2, OverlaidRows DEF BufferAfter
<1>3. CASE ctx.backend # "ONNX"
  BY <1>3 DEF BufferAfter
<1> QED BY <1>2, <1>3

\* The row a text of the batch gets is its own.
LEMMA RowCopied ==
  ASSUME ctx \in Contexts, pooled_buf_ \in Seq(Vectors), NEW f \in Frames, Ordered(f),
         f.done < Batches(f), NEW j \in 1..Len(Pooled(f))
  PROVE  /\ CopiedRow(Pooled(f), BufferAfter(f), j) \in Windows
         /\ Fits(f, ctx) => IsOf(CopiedRow(Pooled(f), BufferAfter(f), j),
                                 f.id, f.indices[Start(f) + j], ctx.dim)
<1> DEFINE e == Pooled(f)[j]
           w == CopiedRow(Pooled(f), BufferAfter(f), j)
<1>1. /\ e \in Vectors /\ OwnVector(e, f.id, f.indices[Start(f) + j])
      /\ Len(Pooled(f)) = Cardinality(Rows(f))
  <2>1. /\ Start(f) + j \in Positions(f.lens)
        /\ e = EmbeddingAt(f, Start(f) + j)
        /\ Len(Pooled(f)) = Cardinality(Rows(f))
    BY PooledRows
  <2> HIDE DEF e
  <2> QED BY <2>1, RowOwn DEF Ordered
<1>2. f.step = 1 => j = 1
  <2> DEFINE n == Total(f)
             b == Start(f)
             r == Cardinality(Rows(f))
  <2>1. /\ b \in Nat /\ n \in Nat
        /\ r = IF b >= n THEN 0 ELSE IF b + f.step < n THEN f.step ELSE n - b
    BY Reckoned
  <2>2. j \in 1..r
    BY <1>1
  <2> HIDE DEF n, b, r
  <2> QED BY <2>1, <2>2
<1>3. ctx.dim \in Nat
  BY DEF Contexts
<1>4. CASE ctx.backend = "ONNX"
  <2> DEFINE buf == BufferAfter(f)
  <2>1. buf \in Seq(Vectors) /\ j \in 1..Len(buf) /\ buf[j] = e
    BY <1>4, BufferRows
  <2>2. w = Copied(buf, j)
    BY <1>4 DEF CopiedRow
  <2> HIDE DEF buf, w, e
  <2>3. /\ w \in Windows
        /\ Fits(f, ctx) => \A k \in 0..(ctx.dim - 1) : w[k] = Number(e, k)
    BY <1>2, <2>1, <2>2, CopiedOwn DEF Fits
  <2>4. ASSUME Fits(f, ctx) PROVE IsOf(w, f.id, f.indices[Start(f) + j], ctx.dim)
    <3>1. \A k \in 0..(ctx.dim - 1) : w[k] = Number(e, k)
      BY <2>3, <2>4
    <3> QED BY <1>1, <1>3, <3>1, NumbersOf
  <2> QED BY <2>3, <2>4 DEF w
<1>5. CASE ctx.backend # "ONNX"
  <2>1. w = Own(e)
    BY <1>5 DEF CopiedRow
  <2> HIDE DEF w, e
  <2>2. w \in Windows /\ \A k \in 0..(ctx.dim - 1) : w[k] = Number(e, k)
    BY <1>1, <2>1, OwnNumbers
  <2>3. IsOf(w, f.id, f.indices[Start(f) + j], ctx.dim)
    BY <1>1, <1>3, <2>2, NumbersOf
  <2> QED BY <2>2, <2>3 DEF w
<1> QED BY <1>4, <1>5

\* What embed has placed after one more batch.
LEMMA ScatteredRows ==
  ASSUME ctx \in Contexts, pooled_buf_ \in Seq(Vectors), NEW f \in Frames, Ordered(f),
         Placed(f, ctx), f.op = "embed", f.done < Batches(f)
  PROVE  LET after == Scattered(f, Pooled(f), BufferAfter(f))
         IN  /\ after \in Seq(Windows)
             /\ DOMAIN after = Positions(f.lens)
             /\ Fits(f, ctx) =>
                  \A j \in Positions(f.lens) :
                    j <= Start(f) + f.step =>
                      IsOf(after[f.indices[j]], f.id, f.indices[j], ctx.dim)
<1> DEFINE rows == Pooled(f)
           buf == BufferAfter(f)
           b == Start(f)
           s == f.step
           n == Total(f)
           after == Scattered(f, rows, buf)
           Hit(p) == \E j \in DOMAIN rows : Target(f, j) = p
           Row(j) == CopiedRow(rows, buf, j)
<1>1. /\ b \in Nat /\ b < n /\ n \in Nat /\ s \in Nat /\ b = f.done * f.step
      /\ Positions(f.lens) = 1..n
      /\ Len(rows) = IF b >= n THEN 0 ELSE IF b + s < n THEN s ELSE n - b
  BY Reckoned, PooledRows DEF Positions
<1>2. /\ DOMAIN rows = 1..Len(rows)
      /\ \A j \in 1..Len(rows) :
           /\ b + j \in Positions(f.lens)
           /\ Row(j) \in Windows
           /\ Fits(f, ctx) => IsOf(Row(j), f.id, f.indices[b + j], ctx.dim)
  <2>1. rows \in Seq(Vectors) /\ \A j \in 1..Len(rows) : b + j \in Positions(f.lens)
    BY PooledRows
  <2>2. ASSUME NEW j \in 1..Len(rows)
        PROVE  /\ Row(j) \in Windows
               /\ Fits(f, ctx) => IsOf(Row(j), f.id, f.indices[b + j], ctx.dim)
    BY RowCopied
  <2> QED BY <2>1, <2>2
<1>3. /\ f.indices \in [Positions(f.lens) -> Positions(f.lens)]
      /\ f.data \in Seq(Windows) /\ DOMAIN f.data = Positions(f.lens)
  BY DEF Ordered, Placed, Frames
<1>4. after = [p \in Positions(f.lens) |->
                 IF Hit(p) THEN Row(CHOOSE j \in DOMAIN rows : Target(f, j) = p)
                 ELSE f.data[p]]
  BY <1>3 DEF Scattered
<1>5. \A j : Target(f, j) = f.indices[b + j]
  BY DEF Target
<1> HIDE DEF rows, b, s, n, buf, Row
<1>6. ASSUME NEW p \in Positions(f.lens), Hit(p)
      PROVE  after[p] \in Windows /\ (Fits(f, ctx) => IsOf(after[p], f.id, p, ctx.dim))
  <2> DEFINE c == CHOOSE j \in DOMAIN rows : Target(f, j) = p
  <2>1. c \in DOMAIN rows /\ Target(f, c) = p
    BY <1>6
  <2>2. after[p] = Row(c)
    BY <1>4, <1>6
  <2> HIDE DEF c, after
  <2>3. f.indices[b + c] = p
    BY <1>5, <2>1
  <2> QED BY <1>2, <2>1, <2>2, <2>3
<1>7. ASSUME NEW p \in Positions(f.lens), ~Hit(p)
      PROVE  after[p] = f.data[p] /\ f.data[p] \in Windows
  <2>1. after[p] = f.data[p]
    BY <1>4, <1>7
  <2>2. f.data[p] \in Windows
    BY <1>3
  <2> QED BY <2>1, <2>2
<1> HIDE DEF Hit
<1>8. ASSUME Fits(f, ctx), NEW j \in Positions(f.lens), j <= b + s
      PROVE  IsOf(after[f.indices[j]], f.id, f.indices[j], ctx.dim)
  <2>1. f.indices[j] \in Positions(f.lens)
    BY <1>3
  <2>2. CASE j > b
    <3>1. j - b \in DOMAIN rows /\ b + (j - b) = j
      BY <1>1, <1>2, <1>8, <2>2
    <3>2. Hit(f.indices[j])
      BY <1>5, <3>1 DEF Hit
    <3> QED BY <1>6, <1>8, <2>1, <3>2
  <2>3. CASE j <= b
    <3>1. IsOf(f.data[f.indices[j]], f.id, f.indices[j], ctx.dim)
      BY <1>1, <1>8, <2>3 DEF Placed
    <3> HIDE DEF after
    <3> QED BY <1>6, <1>7, <1>8, <2>1, <3>1
  <2> QED BY <1>1, <2>2, <2>3
<1>9. DOMAIN after = 1..n /\ n \in Nat
  BY <1>1, <1>4
<1>10. after \in Seq(Windows)
  <2>1. after = [p \in 1..n |-> after[p]]
    BY <1>1, <1>4
  <2>2. \A p \in 1..n : after[p] \in Windows
    BY <1>1, <1>6, <1>7
  <2> HIDE DEF after
  <2>3. [p \in 1..n |-> after[p]] \in Seq(Windows)
    BY <1>9, <2>2
  <2> QED BY <2>1, <2>3
<1> QED BY <1>1, <1>8, <1>9, <1>10 DEF rows, b, s, n, buf

-----------------------------------------------------------------------------
(* One frame over one step. *)

\* The updates the steps make keep a frame a frame.
LEMMA FrameUpdates ==
  ASSUME NEW f \in Frames, NEW d \in Nat, NEW r \in Nat, NEW b \in BOOLEAN,
         NEW v \in Seq(Windows), NEW w \in Seq([row : Windows, fresh : BOOLEAN])
  PROVE  /\ [f EXCEPT !.done = d] \in Frames
         /\ [f EXCEPT !.fresh = b] \in Frames
         /\ [f EXCEPT !.row = r, !.delivered = w] \in Frames
         /\ [f EXCEPT !.done = d, !.row = r, !.fresh = b, !.data = v] \in Frames
<1> DEFINE N == Nat
           O == {"embed", "stream"}
           L == Seq(Nat)
           P == Nat \ {0}
           B == BOOLEAN
           V == Seq(Windows)
           W == Seq([row : Windows, fresh : BOOLEAN])
<1>1. Frames = [id : N, op : O, lens : L, batch_size : N, step : P, indices : L,
                done : N, row : N, fresh : B, data : V, delivered : W]
  BY DEF Frames
<1>2. d \in N /\ r \in N /\ b \in B /\ v \in V /\ w \in W
  OBVIOUS
<1> HIDE DEF N, O, L, P, B, V, W
<1>3. [f EXCEPT !.done = d] \in Frames
  BY <1>1, <1>2
<1>4. [f EXCEPT !.fresh = b] \in Frames
  BY <1>1, <1>2
<1>5. [f EXCEPT !.row = r, !.delivered = w] \in Frames
  BY <1>1, <1>2
<1>6. [f EXCEPT !.done = d, !.row = r, !.fresh = b, !.data = v] \in Frames
  BY <1>1, <1>2
<1> QED BY <1>3, <1>4, <1>5, <1>6

\* Running a batch keeps the innermost call sound.
LEMMA RanSound ==
  ASSUME TypeOK, ctx \in Contexts, NEW f \in Frames, Sound(f, ctx, pooled_buf_),
         f.done < Batches(f), f.op = "stream" => f.row = Cardinality(LastRows(f))
  PROVE  Ran(f) \in Frames /\ Sound(Ran(f), ctx, BufferAfter(f))
<1> DEFINE g == Ran(f)
           buf == BufferAfter(f)
<1>1. Ordered(f) /\ Placed(f, ctx) /\ Streamed(f, ctx) /\ (ctx.backend = "LLAMACPP" => f.step = 1)
  BY DEF Sound
<1>2. /\ g.id = f.id /\ g.op = f.op /\ g.lens = f.lens /\ g.step = f.step
      /\ g.indices = f.indices /\ g.done = f.done + 1 /\ g.row = 0 /\ g.fresh = TRUE
      /\ g.delivered = f.delivered /\ g.batch_size = f.batch_size
      /\ g.data = IF f.op = "embed" THEN Scattered(f, Pooled(f), BufferAfter(f)) ELSE f.data
  BY DEF Ran, Frames
<1>3. f.done \in Nat /\ f.step \in Nat \ {0} /\ Start(f) \in Nat /\ Start(f) < Total(f)
      /\ Start(f) = f.done * f.step /\ Total(f) \in Nat
  BY <1>1, Reckoned
<1>4. g.data \in Seq(Windows)
  BY <1>1, <1>2, ScatteredRows DEF Frames, TypeOK
<1>5. g \in Frames
  <2>1. g = [f EXCEPT !.done = f.done + 1, !.row = 0, !.fresh = TRUE, !.data = g.data]
    BY <1>2 DEF Ran
  <2>2. g.data \in Seq(Windows) /\ f.done + 1 \in Nat /\ 0 \in Nat /\ TRUE \in BOOLEAN
    BY <1>3, <1>4
  <2>3. f.delivered \in Seq([row : Windows, fresh : BOOLEAN])
    BY DEF Frames
  <2> HIDE DEF g
  <2>4. \A v \in Seq(Windows) :
          [f EXCEPT !.done = f.done + 1, !.row = 0, !.fresh = TRUE, !.data = v] \in Frames
    BY <2>2, <2>3, FrameUpdates
  <2> QED BY <2>1, <2>2, <2>4
<1>6. Before(g) = Start(f) /\ Total(g) = Total(f) /\ LastRows(g) = Rows(f)
  <2>1. g.done # 0 /\ g.done - 1 = f.done
    BY <1>2, <1>3
  <2> HIDE DEF g
  <2> QED BY <1>2, <1>3, <2>1 DEF Before, Total, LastRows, Rows
<1>7. Cardinality(Rows(f)) \in Nat
  <2> DEFINE b == Start(f)
             n == Total(f)
             s == f.step
  <2>1. b \in Nat /\ b < n /\ n \in Nat /\ s \in Nat
    BY <1>3
  <2>2. Cardinality(Rows(f)) = IF b >= n THEN 0 ELSE IF b + s < n THEN s ELSE n - b
    BY <1>1, Reckoned
  <2> HIDE DEF b, n, s
  <2> QED BY <2>1, <2>2
<1>8. Ordered(g)
  <2> HIDE DEF g
  <2> QED BY <1>1, <1>2, <1>3, <1>6, <1>7 DEF Ordered
<1>9. Placed(g, ctx)
  <2>1. (f.done + 1) * f.step = Start(f) + f.step
    BY <1>3
  <2>2. ASSUME f.op = "embed"
        PROVE  /\ DOMAIN g.data = Positions(f.lens)
               /\ Fits(f, ctx) =>
                    \A j \in Positions(f.lens) :
                      j <= Start(f) + f.step =>
                        IsOf(g.data[f.indices[j]], f.id, f.indices[j], ctx.dim)
    <3> HIDE DEF g
    <3> QED BY <1>1, <1>2, <2>2, ScatteredRows DEF TypeOK
  <2>3. f.op = "embed" => f.delivered = <<>>
    BY <1>1 DEF Placed
  <2>4. Fits(g, ctx) <=> Fits(f, ctx)
    BY <1>2 DEF Fits
  <2> HIDE DEF g
  <2> QED BY <1>2, <2>1, <2>2, <2>3, <2>4 DEF Placed
<1>10. Streamed(g, ctx)
  <2>1. ASSUME f.op = "stream" PROVE Before(f) + f.row = Start(f)
    BY <1>1, <1>3, <2>1, CaughtUp
  <2> HIDE DEF g
  <2> QED BY <1>1, <1>2, <1>3, <1>6, <2>1 DEF Streamed
<1>11. Buffered(g, ctx, buf)
  <2> SUFFICES ASSUME f.op = "stream", ctx.backend = "ONNX",
                      NEW j \in 1..Cardinality(Rows(f))
               PROVE  j \in DOMAIN buf /\ OwnVector(buf[j], f.id, Start(f) + j)
    <3> HIDE DEF g
    <3> QED BY <1>2, <1>6 DEF Buffered
  <2>1. /\ Pooled(f) \in Seq(Vectors) /\ j \in 1..Len(Pooled(f))
        /\ Start(f) + j \in Positions(f.lens)
        /\ Pooled(f)[j] = EmbeddingAt(f, Start(f) + j)
    BY <1>1, PooledRows
  <2>2. pooled_buf_ \in Seq(Vectors)
    BY DEF TypeOK
  <2>3. j \in DOMAIN buf /\ buf[j] = EmbeddingAt(f, Start(f) + j)
    BY <2>1, <2>2, OverlaidRows DEF BufferAfter
  <2>4. f.indices[Start(f) + j] = Start(f) + j
    BY <1>1, <2>1 DEF Streamed
  <2>5. OwnVector(EmbeddingAt(f, Start(f) + j), f.id, Start(f) + j)
    BY <1>1, <2>1, <2>4, RowOwn DEF Ordered
  <2> QED BY <2>3, <2>5
<1> HIDE DEF g, buf
<1>12. Sound(g, ctx, buf)
  BY <1>1, <1>2, <1>8, <1>9, <1>10, <1>11 DEF Sound
<1> QED BY <1>5, <1>12 DEF g, buf

\* What a batch leaves of the calls around it: they are sound if their view
\* of the buffer is given up.
LEMMA OuterSound ==
  ASSUME TypeOK, ctx \in Contexts, NEW f \in Frames, Ordered(f), f.done < Batches(f),
         NEW h \in Frames, Sound(h, ctx, pooled_buf_)
  PROVE  LET outer == [h EXCEPT !.fresh = @ /\ ~(ctx.backend = "ONNX")]
         IN outer \in Frames /\ Sound(outer, ctx, BufferAfter(f))
<1> DEFINE v == h.fresh /\ ~(ctx.backend = "ONNX")
           g == [h EXCEPT !.fresh = v]
<1>1. v \in BOOLEAN /\ (ctx.backend = "ONNX" => ~v)
  BY DEF Frames
<1> HIDE DEF v
<1>2. /\ g.id = h.id /\ g.op = h.op /\ g.lens = h.lens /\ g.step = h.step
      /\ g.indices = h.indices /\ g.done = h.done /\ g.row = h.row /\ g.fresh = v
      /\ g.delivered = h.delivered /\ g.data = h.data
  BY DEF Frames
<1>3. g \in Frames
  <2>1. h.done \in Nat /\ h.row \in Nat /\ h.data \in Seq(Windows)
        /\ h.delivered \in Seq([row : Windows, fresh : BOOLEAN])
    BY DEF Frames
  <2> QED BY <1>1, <2>1, FrameUpdates
<1> HIDE DEF g
<1>4. Before(g) = Before(h) /\ Total(g) = Total(h) /\ LastRows(g) = LastRows(h)
  BY <1>2 DEF Before, Total, LastRows
<1>5. Ordered(g) /\ Placed(g, ctx) /\ Streamed(g, ctx) /\ (ctx.backend = "LLAMACPP" => g.step = 1)
  BY <1>2, <1>4 DEF Sound, Ordered, Placed, Streamed, Fits
<1>6. Buffered(g, ctx, BufferAfter(f))
  <2> SUFFICES ASSUME h.op = "stream", ctx.backend = "ONNX",
                      NEW j \in 1..Cardinality(LastRows(h))
               PROVE  j \in DOMAIN BufferAfter(f)
    BY <1>1, <1>2, <1>4 DEF Buffered
  <2>1. j \in DOMAIN pooled_buf_
    BY DEF Sound, Buffered
  <2>2. Pooled(f) \in Seq(Vectors) /\ pooled_buf_ \in Seq(Vectors)
    BY PooledRows DEF TypeOK
  <2> QED BY <2>1, <2>2, OverlaidRows DEF BufferAfter
<1> QED BY <1>3, <1>5, <1>6 DEF Sound, g, v

\* A call of the callback.
Called(f) ==
  [f EXCEPT !.row = @ + 1,
            !.delivered = Append(@, [row |-> DeliveredRow(f), fresh |-> f.fresh])]

\* Passing on a row keeps the stream sound.
LEMMA CalledSound ==
  ASSUME TypeOK, ctx \in Contexts, NEW f \in Frames, Sound(f, ctx, pooled_buf_),
         f.op = "stream", f.row < Cardinality(LastRows(f))
  PROVE  Called(f) \in Frames /\ Sound(Called(f), ctx, pooled_buf_)
<1> DEFINE d == DeliveredRow(f)
           g == Called(f)
           k == Before(f) + f.row + 1
           entry == [row |-> d, fresh |-> f.fresh]
<1>1. Ordered(f) /\ Streamed(f, ctx) /\ Buffered(f, ctx, pooled_buf_)
      /\ (ctx.backend = "LLAMACPP" => f.step = 1)
  BY DEF Sound
<1>2. f.row \in Nat /\ f.done \in Nat /\ f.step \in Nat \ {0} /\ Total(f) \in Nat
  BY <1>1, Reckoned
<1>3. f.done # 0
  <2>1. Cardinality({}) = 0
    BY FS_EmptySet
  <2> QED BY <1>2, <2>1 DEF LastRows
<1>4. /\ Before(f) \in Nat
      /\ Cardinality(LastRows(f)) =
           IF Before(f) + f.step < Total(f) THEN f.step ELSE Total(f) - Before(f)
      /\ Before(f) < Total(f)
  BY <1>1, <1>3, LastBatch DEF Ordered
<1>5. f.row + 1 \in 1..Cardinality(LastRows(f)) /\ k \in Nat
  BY <1>2, <1>4
<1> DEFINE Good == d \in Windows /\ (f.fresh /\ ctx.dim <= out_dim => IsOf(d, f.id, k, ctx.dim))
<1>0. ctx.dim \in Nat /\ out_dim \in Nat \ {0} /\ pooled_buf_ \in Seq(Vectors)
  BY DimAssumption DEF Contexts, TypeOK
<1>6. ASSUME ctx.backend = "ONNX" PROVE Good
  <2> DEFINE e == pooled_buf_[f.row + 1]
  <2>1. d = [o \in Offsets |-> NumberAt(pooled_buf_, f.row * out_dim + o)]
    BY <1>6 DEF DeliveredRow
  <2>2. /\ f.row + 1 \in DOMAIN pooled_buf_
        /\ f.fresh => OwnVector(e, f.id, Before(f) + (f.row + 1))
    BY <1>1, <1>5, <1>6 DEF Buffered
  <2>3. e \in Vectors /\ f.row + 1 \in 1..Len(pooled_buf_)
    BY <1>0, <2>2
  <2>4. Before(f) + (f.row + 1) = k
    BY <1>2, <1>4
  <2> HIDE DEF d, k
  <2>5. d \in Windows
    <3>1. \A o \in Offsets : f.row * out_dim + o \in Nat
      BY <1>0, <1>2 DEF Offsets
    <3>2. \A o \in Offsets : d[o] \in Numbers
      BY <1>0, <2>1, <3>1, NumbersTyped
    <3> QED BY <2>1, <3>2, WindowTyped
  <2>6. ASSUME f.fresh, ctx.dim <= out_dim PROVE IsOf(d, f.id, k, ctx.dim)
    <3> DEFINE r == f.row + 1
    <3>1. r - 1 = f.row /\ r \in 1..Len(pooled_buf_) /\ e = pooled_buf_[r]
      BY <1>2, <2>3
    <3> HIDE DEF r, e
    <3>2. ASSUME NEW o \in 0..(ctx.dim - 1) PROVE d[o] = Number(e, o)
      <4>1. o \in 0..(out_dim - 1) /\ o \in Offsets
        BY <1>0, <2>6 DEF Offsets
      <4>2. NumberAt(pooled_buf_, (r - 1) * out_dim + o) = Number(e, o)
        BY <1>0, <3>1, <4>1, NumberInRow
      <4> QED BY <2>1, <3>1, <4>1, <4>2
    <3>3. OwnVector(e, f.id, k)
      BY <2>2, <2>4, <2>6
    <3> QED BY <1>0, <2>3, <3>2, <3>3, NumbersOf
  <2> QED BY <2>5, <2>6
<1>7. ASSUME ctx.backend = "LLAMACPP" PROVE Good
  <2> DEFINE e == [f EXCEPT !.done = @ - 1]
  <2>1. d = Own(EmbeddingAt(e, f.done))
    BY <1>7 DEF DeliveredRow
  <2>2. e \in Frames /\ e.lens = f.lens /\ e.indices = f.indices /\ e.id = f.id
    <3>1. e = [f EXCEPT !.done = f.done - 1]
      OBVIOUS
    <3>2. f.done - 1 \in Nat
      BY <1>2, <1>3
    <3>3. /\ f.row \in Nat /\ f.fresh \in BOOLEAN /\ f.data \in Seq(Windows)
          /\ f.delivered \in Seq([row : Windows, fresh : BOOLEAN])
      BY DEF Frames
    <3>4. e \in Frames
      BY <3>1, <3>2, <3>3, FrameUpdates
    <3> QED BY <3>4
  <2> HIDE DEF e
  <2>3. f.step = 1 /\ Before(f) = f.done - 1
    BY <1>1, <1>2, <1>3, <1>7 DEF Before
  <2>4. f.row = 0 /\ k = f.done /\ f.done \in Positions(f.lens)
    <3>1. Positions(f.lens) = 1..Total(f)
      BY DEF Positions, Total
    <3>2. Cardinality(LastRows(f)) = 1
      BY <1>2, <1>4, <2>3
    <3>3. f.row = 0
      BY <1>2, <3>2
    <3> QED BY <1>2, <1>3, <1>4, <2>3, <3>1, <3>3
  <2>5. f.indices \in [Positions(f.lens) -> Positions(f.lens)] /\ f.indices[f.done] = f.done
    BY <1>1, <2>4 DEF Ordered, Streamed
  <2> DEFINE v == EmbeddingAt(e, f.done)
  <2>6. v \in Vectors /\ OwnVector(v, f.id, k)
    <3>1. v \in Vectors /\ OwnVector(v, e.id, e.indices[f.done])
      BY <2>2, <2>4, <2>5, RowOwn
    <3> HIDE DEF v
    <3> QED BY <2>2, <2>4, <2>5, <3>1
  <2>7. d = Own(v)
    BY <2>1
  <2> HIDE DEF v, d, k
  <2>8. d \in Windows /\ IsOf(d, f.id, k, ctx.dim)
    <3>1. d \in Windows /\ \A o \in 0..(ctx.dim - 1) : d[o] = Number(v, o)
      BY <2>6, <2>7, OwnNumbers
    <3> QED BY <1>0, <2>6, <3>1, NumbersOf
  <2> QED BY <2>8
<1>8. Good
  BY <1>6, <1>7 DEF Contexts
<1> DEFINE delivered == Append(f.delivered, entry)
<1>9. g = [f EXCEPT !.row = f.row + 1, !.delivered = delivered]
  BY DEF Called, Frames
<1> HIDE DEF d, g
<1>10. entry \in [row : Windows, fresh : BOOLEAN] /\ entry.row = d /\ entry.fresh = f.fresh
  BY <1>8 DEF Frames
<1> HIDE DEF entry
<1>11. /\ f.delivered \in Seq([row : Windows, fresh : BOOLEAN])
       /\ Len(f.delivered) = Before(f) + f.row
  BY <1>1 DEF Streamed, Frames
<1>12. /\ delivered \in Seq([row : Windows, fresh : BOOLEAN])
       /\ Len(delivered) = k
       /\ \A i \in 1..k : delivered[i] = IF i = k THEN entry ELSE f.delivered[i]
       /\ DOMAIN delivered = 1..k /\ DOMAIN f.delivered = 1..(k - 1)
  BY <1>2, <1>4, <1>5, <1>10, <1>11
<1> HIDE DEF delivered, k
<1>13. /\ g.id = f.id /\ g.op = f.op /\ g.lens = f.lens /\ g.step = f.step
       /\ g.indices = f.indices /\ g.done = f.done /\ g.row = f.row + 1 /\ g.fresh = f.fresh
       /\ g.delivered = delivered /\ g.data = f.data
  BY <1>9 DEF Frames
<1>14. g \in Frames
  <2>1. f.row + 1 \in Nat /\ f.fresh \in BOOLEAN /\ f.data \in Seq(Windows)
    BY <1>2 DEF Frames
  <2> QED BY <1>2, <1>9, <1>12, <2>1, FrameUpdates
<1>15. Before(g) = Before(f) /\ Total(g) = Total(f) /\ LastRows(g) = LastRows(f)
  BY <1>13 DEF Before, Total, LastRows
<1>16. Ordered(g)
  <2>1. g.row <= Cardinality(LastRows(g))
    BY <1>2, <1>4, <1>5, <1>13, <1>15
  <2> QED BY <1>1, <1>13, <1>15, <2>1 DEF Ordered
<1>17. Placed(g, ctx) /\ (ctx.backend = "LLAMACPP" => g.step = 1)
  BY <1>1, <1>13 DEF Placed, Fits
<1>18. Buffered(g, ctx, pooled_buf_)
  BY <1>1, <1>13, <1>15 DEF Buffered
<1>19. Streamed(g, ctx)
  <2>1. Len(g.delivered) = Before(g) + g.row
    BY <1>2, <1>4, <1>12, <1>13, <1>15 DEF k
  <2>2. ASSUME NEW i \in DOMAIN delivered, delivered[i].fresh
        PROVE  ctx.dim <= out_dim => IsOf(delivered[i].row, f.id, i, ctx.dim)
    <3>1. CASE i = k
      BY <1>8, <1>10, <1>12, <2>2, <3>1
    <3>2. CASE i # k
      <4>1. i \in DOMAIN f.delivered /\ delivered[i] = f.delivered[i]
        BY <1>5, <1>12, <3>2 DEF k
      <4> QED BY <1>1, <2>2, <4>1 DEF Streamed
    <3> QED BY <3>1, <3>2
  <2> QED BY <1>1, <1>13, <2>1, <2>2 DEF Streamed
<1> QED BY <1>14, <1>16, <1>17, <1>18, <1>19 DEF Sound, g

\* A call that begins is sound.
LEMMA FrameSound ==
  ASSUME TypeOK, ctx \in Contexts, NEW op \in {"embed", "stream"}, NEW lens \in Texts,
         NEW size \in Nat, NEW step \in Nat \ {0},
         NEW indices \in [Positions(lens) -> Positions(lens)], IsInjective(indices),
         op = "stream" => \A i \in Positions(lens) : indices[i] = i,
         ctx.backend = "LLAMACPP" => step = 1
  PROVE  /\ Frame(op, lens, size, step, indices) \in Frames
         /\ Sound(Frame(op, lens, size, step, indices), ctx, pooled_buf_)
<1> DEFINE n == Len(lens)
           blank == [k \in Offsets |-> None]
           data == [i \in Positions(lens) |-> blank]
           f == Frame(op, lens, size, step, indices)
<1>1. lens \in Seq(Nat) /\ lens # <<>>
  BY TextsAssumption
<1>2. n \in Nat \ {0} /\ Positions(lens) = 1..n
  BY <1>1 DEF Positions
<1>3. indices \in Seq(Nat)
  <2> HIDE DEF n
  <2>1. indices \in [1..n -> 1..n] /\ 1..n \subseteq Nat
    BY <1>2
  <2>2. indices = [i \in 1..n |-> indices[i]] /\ \A i \in 1..n : indices[i] \in Nat
    BY <2>1
  <2>3. [i \in 1..n |-> indices[i]] \in Seq(Nat)
    BY <1>2, <2>2
  <2> QED BY <2>2, <2>3
<1>4. data \in Seq(Windows) /\ DOMAIN data = Positions(lens)
  <2>1. blank \in Windows
    <3>1. \A k \in Offsets : blank[k] \in Numbers
      BY DEF Numbers
    <3>2. blank = [k \in Offsets |-> blank[k]]
      OBVIOUS
    <3> HIDE DEF blank
    <3> QED BY <3>1, <3>2, WindowTyped
  <2> HIDE DEF n, blank
  <2>2. [i \in 1..n |-> blank] \in Seq(Windows)
    BY <1>2, <2>1
  <2> QED BY <1>2, <2>2
<1>5. issued + 1 \in Nat /\ 0 \in Nat /\ TRUE \in BOOLEAN /\ <<>> \in Seq([row : Windows, fresh : BOOLEAN])
  BY DEF TypeOK
<1>6. f = [id |-> issued + 1, op |-> op, lens |-> lens, batch_size |-> size, step |-> step,
           indices |-> indices, done |-> 0, row |-> 0, fresh |-> TRUE,
           data |-> data, delivered |-> <<>>]
  BY DEF Frame
<1> HIDE DEF data, f
<1>7. f \in Frames
  <2> DEFINE N == Nat
             O == {"embed", "stream"}
             L == Seq(Nat)
             P == Nat \ {0}
             B == BOOLEAN
             V == Seq(Windows)
             W == Seq([row : Windows, fresh : BOOLEAN])
  <2>1. Frames = [id : N, op : O, lens : L, batch_size : N, step : P, indices : L,
                  done : N, row : N, fresh : B, data : V, delivered : W]
    BY DEF Frames
  <2>2. /\ issued + 1 \in N /\ op \in O /\ lens \in L /\ size \in N /\ step \in P
        /\ indices \in L /\ 0 \in N /\ TRUE \in B /\ data \in V /\ <<>> \in W
    BY <1>1, <1>3, <1>4, <1>5
  <2> HIDE DEF N, O, L, P, B, V, W
  <2> QED BY <1>6, <2>1, <2>2
<1>8. /\ f.id = issued + 1 /\ f.op = op /\ f.lens = lens /\ f.step = step
      /\ f.indices = indices /\ f.done = 0 /\ f.row = 0 /\ f.data = data
      /\ f.delivered = <<>>
  BY <1>6
<1>9. LastRows(f) = {} /\ Cardinality({}) = 0 /\ Before(f) = 0 /\ Total(f) = n
  BY <1>8, FS_EmptySet DEF LastRows, Before, Total
<1> HIDE DEF n
<1>10. Ordered(f)
  BY <1>1, <1>2, <1>8, <1>9 DEF Ordered
<1>11. Placed(f, ctx)
  <2>1. 0 * step = 0
    OBVIOUS
  <2>2. \A j \in Positions(lens) : ~(j <= 0)
    BY <1>2
  <2> QED BY <1>4, <1>8, <2>1, <2>2 DEF Placed
<1>12. Streamed(f, ctx)
  BY <1>8, <1>9 DEF Streamed
<1>13. Buffered(f, ctx, pooled_buf_)
  BY <1>9 DEF Buffered
<1> QED BY <1>7, <1>8, <1>10, <1>11, <1>12, <1>13 DEF Sound, f

\* A finished embed has filled every place of its result.
LEMMA AllPlaced ==
  ASSUME ctx \in Contexts, NEW f \in Frames, Ordered(f), Placed(f, ctx),
         f.op = "embed", f.done >= Batches(f), Fits(f, ctx), NEW i \in Positions(f.lens)
  PROVE  IsOf(f.data[i], f.id, i, ctx.dim)
<1> DEFINE n == Total(f)
           m == f.done * f.step
<1>1. n \in Nat /\ m \in Nat /\ ~(m < n) /\ Positions(f.lens) = 1..n
  BY Reckoned DEF Positions
<1>2. PICK j \in 1..n : f.indices[j] = i
  <2> DEFINE p == f.indices
  <2>1. p \in [1..n -> 1..n] /\ IsInjective(p) /\ i \in 1..n
    BY <1>1 DEF Ordered
  <2> HIDE DEF m, n, p
  <2>2. \E j \in 1..n : p[j] = i
    BY <1>1, <2>1, NoneLeftOut
  <2> QED BY <2>2 DEF p
<1>3. j <= m
  <2> HIDE DEF n, m
  <2> QED BY <1>1
<1> QED BY <1>1, <1>2, <1>3 DEF Placed

-----------------------------------------------------------------------------
(* The steps. *)

\* What the innermost call is.
LEMMA Innermost ==
  ASSUME Inv, calls # <<>>
  PROVE  /\ Len(calls) \in Nat \ {0} /\ DOMAIN calls = 1..Len(calls)
         /\ Top = calls[Len(calls)] /\ Top \in Frames
         /\ Sound(Top, ctx, pooled_buf_)
         /\ ctx \in Contexts
         /\ Front(calls) \in Seq(Frames) /\ Len(Front(calls)) = Len(calls) - 1
         /\ DOMAIN Front(calls) = 1..(Len(calls) - 1)
         /\ \A k \in 1..(Len(calls) - 1) :
              Front(calls)[k] = calls[k] /\ calls[k] \in Frames /\ Sound(calls[k], ctx, pooled_buf_)
<1>1. calls \in Seq(Frames) /\ ctx \in Contexts
  BY DEF Inv, TypeOK, Held
<1>2. Len(calls) \in Nat \ {0} /\ DOMAIN calls = 1..Len(calls)
  BY <1>1
<1>3. Top = calls[Len(calls)] /\ Top \in Frames
  BY <1>1, <1>2 DEF Top, Last
<1>4. \A k \in 1..Len(calls) : calls[k] \in Frames /\ Sound(calls[k], ctx, pooled_buf_)
  BY <1>1, <1>2 DEF Inv, AllSound
<1>5. /\ Front(calls) \in Seq(Frames) /\ Len(Front(calls)) = Len(calls) - 1
      /\ \A k \in 1..(Len(calls) - 1) : Front(calls)[k] = calls[k]
  <2>1. 1 \in Int /\ Len(calls) - 1 \in Int /\ \A i \in 1..(Len(calls) - 1) : calls[i] \in Frames
    BY <1>1, <1>2
  <2>2. /\ SubSeq(calls, 1, Len(calls) - 1) \in Seq(Frames)
        /\ Len(SubSeq(calls, 1, Len(calls) - 1)) =
             IF 1 <= Len(calls) - 1 THEN (Len(calls) - 1) - 1 + 1 ELSE 0
        /\ \A i \in 1..((Len(calls) - 1) - 1 + 1) :
             SubSeq(calls, 1, Len(calls) - 1)[i] = calls[1 + i - 1]
    BY <2>1, SubSeqProperties
  <2> QED BY <1>2, <2>2 DEF Front
<1>6. DOMAIN Front(calls) = 1..(Len(calls) - 1)
  BY <1>5
<1> QED BY <1>1, <1>2, <1>3, <1>4, <1>5, <1>6

\* The initial states.
LEMMA InvInit == Init => Inv
<1> SUFFICES ASSUME Init PROVE Inv
  OBVIOUS
<1>1. <<>> \in Seq(Frames) /\ <<>> \in Seq(Vectors) /\ DOMAIN <<>> = {}
  OBVIOUS
<1>2. TypeOK
  BY <1>1 DEF Init, TypeOK
<1>3. Held /\ AllSound /\ ResultsInPlace
  BY <1>1 DEF Init, Held, AllSound, ResultsInPlace
<1> QED BY <1>2, <1>3 DEF Inv

\* Nothing changes.
LEMMA InvStutter == Inv /\ UNCHANGED vars => Inv'
BY DEF vars, Inv, TypeOK, Held, AllSound, ResultsInPlace

\* A context is made: there was none, so no call is in progress.
LEMMA InvConstruct == Inv /\ Construct => Inv'
<1> SUFFICES ASSUME Inv, Construct PROVE Inv'
  OBVIOUS
<1>1. PICK c \in Contexts : New(c)
  <2>1. \A size \in BatchSizeOption \cup {0} :
          (IF size > 0 THEN size ELSE LEMBED_DEFAULT_BATCH_SIZE) \in Nat \ {0}
    BY BatchSizeAssumption
  <2>2. \A backend \in {"ONNX", "LLAMACPP"}, q \in {"NONE", "DYNAMIC"},
           s \in {"SEQUENTIAL", "FIXED", "LENGTH_BUCKET"},
           size \in BatchSizeOption \cup {0}, dim \in DimOption \cup {0, out_dim} :
          Context(backend, q, s, size, dim) \in Contexts
    BY <2>1, DimAssumption DEF Context, Contexts
  <2>3. CASE Create
    BY <2>2, <2>3 DEF Create
  <2>4. CASE CreateCustom
    BY <2>2, <2>4 DEF CreateCustom
  <2>5. CASE CreateFromPath
    BY <2>2, <2>5 DEF CreateFromPath
  <2>6. CASE CreateFromGguf
    BY <2>2, <2>6 DEF CreateFromGguf
  <2> QED BY <2>3, <2>4, <2>5, <2>6 DEF Construct
<1>2. calls = <<>> /\ calls' = <<>> /\ ctx' = c /\ returned' = None
  BY <1>1 DEF New, Inv, Held
<1>3. TypeOK'
  <2>1. <<>> \in Seq(Frames) /\ <<>> \in Seq(Vectors)
    OBVIOUS
  <2>2. pooled_buf_' = <<>> /\ texts_embedded' = 0 /\ batches_run' = 0 /\ issued' = issued
    BY <1>1 DEF New
  <2> QED BY <1>2, <2>1, <2>2 DEF TypeOK, Inv
<1>4. Held' /\ AllSound' /\ ResultsInPlace'
  BY <1>2 DEF Held, AllSound, ResultsInPlace
<1> QED BY <1>3, <1>4 DEF Inv

\* The context is freed: no call is in progress, and what was returned stays.
LEMMA InvFree == Inv /\ Free => Inv'
<1> SUFFICES ASSUME Inv, Free PROVE Inv'
  OBVIOUS
<1>1. calls = <<>> /\ calls' = <<>> /\ ctx' = None
  BY DEF Free
<1>2. TypeOK'
  BY DEF Free, Inv, TypeOK
<1>3. Held' /\ AllSound'
  BY <1>1 DEF Held, AllSound
<1>4. ResultsInPlace'
  BY <1>1 DEF Free, Inv, ResultsInPlace
<1> QED BY <1>2, <1>3, <1>4 DEF Inv

\* A refused call returns at once, without a result.
LEMMA InvRefused ==
  ASSUME Inv, NEW lens \in Texts, NEW batch_size \in BatchSizeOption,
         EmbedRefused(lens, batch_size)
  PROVE  Inv'
<1>1. TypeOK' /\ Held' /\ AllSound'
  BY DEF EmbedRefused, Inv, TypeOK, Held, AllSound
<1>2. returned'.status = "BATCH_SIZE"
  BY DEF EmbedRefused, Outcome
<1>3. ResultsInPlace'
  BY <1>2 DEF ResultsInPlace
<1> QED BY <1>1, <1>3 DEF Inv

\* A sound call begins.
LEMMA InvPushed ==
  ASSUME Inv, ctx # None, NEW f \in Frames, Sound(f, ctx, pooled_buf_),
         calls' = Append(calls, f), issued' = issued + 1,
         UNCHANGED <<ctx, pooled_buf_, texts_embedded, batches_run, returned>>
  PROVE  Inv'
<1>1. calls \in Seq(Frames)
  BY DEF Inv, TypeOK
<1>2. TypeOK'
  BY <1>1 DEF Inv, TypeOK
<1>3. Held'
  BY DEF Held
<1>4. ASSUME NEW k \in DOMAIN calls' PROVE Sound(calls'[k], ctx', pooled_buf_')
  <2>1. CASE k = Len(calls) + 1
    BY <1>1, <2>1
  <2>2. CASE k # Len(calls) + 1
    <3>1. k \in DOMAIN calls /\ calls'[k] = calls[k]
      BY <1>1, <2>2
    <3> QED BY <3>1 DEF Inv, AllSound
  <2> QED BY <2>1, <2>2
<1>5. AllSound'
  BY <1>4 DEF AllSound
<1>6. ResultsInPlace'
  BY DEF Inv, ResultsInPlace
<1> QED BY <1>2, <1>3, <1>5, <1>6 DEF Inv

\* embed begins, in an order its strategy allows.
LEMMA InvEmbed ==
  ASSUME Inv, NEW lens \in Texts, NEW batch_size \in BatchSizeOption,
         Embed(lens, batch_size)
  PROVE  Inv'
<1> DEFINE size == EmbedBatchSize(batch_size, Len(lens))
           step == IF ctx.backend = "LLAMACPP" \/ ctx.batch_strategy = "SEQUENTIAL"
                   THEN 1 ELSE size
<1>1. PICK indices \in Indices(IF ctx.backend = "ONNX" THEN ctx.batch_strategy
                               ELSE "SEQUENTIAL", lens) :
        calls' = Append(calls, Frame("embed", lens, size, step, indices))
  BY DEF Embed
<1>2. ctx # None /\ ctx \in Contexts /\ TypeOK
  BY DEF Embed, MayCall, Inv, TypeOK
<1>3. lens \in Seq(Nat) /\ lens # <<>> /\ Len(lens) \in Nat \ {0}
  BY TextsAssumption
<1>4. size \in Nat \ {0}
  <2>1. batch_size \in Nat
    BY BatchSizeAssumption
  <2>2. ctx.batch_size \in Nat \ {0}
    BY <1>2 DEF Contexts
  <2> QED BY <1>3, <2>1, <2>2 DEF EmbedBatchSize
<1>5. indices \in [Positions(lens) -> Positions(lens)] /\ IsInjective(indices)
  <2>1. indices \in ByLength(lens) \/ indices = [i \in Positions(lens) |-> i]
    BY <1>1 DEF Indices
  <2>2. CASE indices \in ByLength(lens)
    BY <2>2 DEF ByLength
  <2>3. CASE indices = [i \in Positions(lens) |-> i]
    BY <2>3 DEF IsInjective
  <2> QED BY <2>1, <2>2, <2>3
<1>6. step \in Nat \ {0} /\ (ctx.backend = "LLAMACPP" => step = 1)
  BY <1>4
<1> HIDE DEF size, step
<1> DEFINE f == Frame("embed", lens, size, step, indices)
<1>7. f \in Frames /\ Sound(f, ctx, pooled_buf_)
  BY <1>2, <1>4, <1>5, <1>6, FrameSound
<1>8. issued' = issued + 1 /\ UNCHANGED <<ctx, pooled_buf_, texts_embedded, batches_run, returned>>
  BY DEF Embed
<1> HIDE DEF f
<1>9. calls' = Append(calls, f)
  BY <1>1 DEF f
<1> QED BY <1>2, <1>7, <1>8, <1>9, InvPushed

\* embed_stream begins, in the order of the texts.
LEMMA InvEmbedStream ==
  ASSUME Inv, NEW lens \in Texts, NEW batch_size \in BatchSizeOption,
         EmbedStream(lens, batch_size)
  PROVE  Inv'
<1> DEFINE size == IF batch_size <= 0 THEN ctx.batch_size ELSE batch_size
           step == IF ctx.backend = "LLAMACPP" THEN 1 ELSE size
           indices == [i \in Positions(lens) |-> i]
           f == Frame("stream", lens, size, step, indices)
<1>1. calls' = Append(calls, f)
  BY DEF EmbedStream
<1>2. ctx # None /\ ctx \in Contexts /\ TypeOK
  BY DEF EmbedStream, MayCall, Inv, TypeOK
<1>3. size \in Nat \ {0}
  <2>1. batch_size \in Nat
    BY BatchSizeAssumption
  <2>2. ctx.batch_size \in Nat \ {0}
    BY <1>2 DEF Contexts
  <2> QED BY <2>1, <2>2
<1>4. step \in Nat \ {0} /\ (ctx.backend = "LLAMACPP" => step = 1)
  BY <1>3
<1>5. /\ indices \in [Positions(lens) -> Positions(lens)] /\ IsInjective(indices)
      /\ \A i \in Positions(lens) : indices[i] = i
  BY DEF IsInjective
<1> HIDE DEF size, step, indices
<1>6. f \in Frames /\ Sound(f, ctx, pooled_buf_)
  BY <1>2, <1>3, <1>4, <1>5, FrameSound
<1>7. issued' = issued + 1 /\ UNCHANGED <<ctx, pooled_buf_, texts_embedded, batches_run, returned>>
  BY DEF EmbedStream
<1> HIDE DEF f
<1> QED BY <1>1, <1>2, <1>6, <1>7, InvPushed

\* A batch runs.
LEMMA InvRunBatch == Inv /\ RunBatch => Inv'
<1> SUFFICES ASSUME Inv, RunBatch PROVE Inv'
  OBVIOUS
<1> DEFINE f == Top
           Outer(k) == [calls[k] EXCEPT !.fresh = @ /\ ctx.backend # "ONNX"]
           outer == [k \in DOMAIN Front(calls) |-> Outer(k)]
           buf == BufferAfter(f)
           m == Len(calls) - 1
<1>1. /\ Len(calls) \in Nat \ {0} /\ f \in Frames /\ Sound(f, ctx, pooled_buf_)
      /\ ctx \in Contexts /\ DOMAIN Front(calls) = 1..m /\ m \in Nat
      /\ \A k \in 1..m : calls[k] \in Frames /\ Sound(calls[k], ctx, pooled_buf_)
  BY Innermost DEF RunBatch
<1>2. f.done < Batches(f) /\ (f.op = "stream" => f.row = Cardinality(LastRows(f)))
  BY DEF RunBatch
<1>3. TypeOK
  BY DEF Inv
<1>4. /\ calls' = Append(outer, Ran(f)) /\ pooled_buf_' = buf
      /\ UNCHANGED <<ctx, texts_embedded, batches_run, issued, returned>>
  BY DEF RunBatch
<1>5. Ran(f) \in Frames /\ Sound(Ran(f), ctx, buf)
  BY <1>1, <1>2, <1>3, RanSound
<1>6. \A k \in 1..m : Outer(k) \in Frames /\ Sound(Outer(k), ctx, buf)
  BY <1>1, <1>2, <1>3, OuterSound DEF Sound
<1> HIDE DEF f, Outer, buf, m
<1>7. outer \in Seq(Frames) /\ Len(outer) = m /\ \A k \in 1..m : outer[k] = Outer(k)
  BY <1>1, <1>6
<1> HIDE DEF outer
<1>8. /\ calls' \in Seq(Frames) /\ Len(calls') = m + 1 /\ DOMAIN calls' = 1..(m + 1)
      /\ \A k \in 1..(m + 1) : calls'[k] = IF k = m + 1 THEN Ran(f) ELSE Outer(k)
  BY <1>1, <1>4, <1>5, <1>7
<1>9. pooled_buf_' \in Seq(Vectors)
  <2>1. Ordered(f) /\ pooled_buf_ \in Seq(Vectors)
    BY <1>1, <1>3 DEF Sound, TypeOK
  <2> QED BY <1>1, <1>2, <1>4, <2>1, BufferRows DEF buf
<1>10. TypeOK'
  BY <1>3, <1>4, <1>8, <1>9 DEF TypeOK
<1>11. Held'
  <2>1. ctx # None
    BY DEF RunBatch, Inv, Held
  <2> QED BY <1>4, <2>1 DEF Held
<1>12. AllSound'
  <2>1. ASSUME NEW k \in 1..(m + 1) PROVE Sound(calls'[k], ctx, buf)
    <3>1. CASE k = m + 1
      BY <1>5, <1>8, <3>1
    <3>2. CASE k # m + 1
      <4>1. k \in 1..m /\ calls'[k] = Outer(k)
        BY <1>1, <1>8, <3>2
      <4> QED BY <1>6, <4>1
    <3> QED BY <3>1, <3>2
  <2> QED BY <1>4, <1>8, <2>1 DEF AllSound
<1>13. ResultsInPlace'
  BY <1>4 DEF Inv, ResultsInPlace
<1> QED BY <1>10, <1>11, <1>12, <1>13 DEF Inv

\* A callback is called.
LEMMA InvCallback == Inv /\ Callback => Inv'
<1> SUFFICES ASSUME Inv, Callback PROVE Inv'
  OBVIOUS
<1> DEFINE f == Top
           n == Len(calls)
<1>1. /\ n \in Nat \ {0} /\ DOMAIN calls = 1..n /\ f = calls[n]
      /\ f \in Frames /\ Sound(f, ctx, pooled_buf_) /\ ctx \in Contexts
      /\ \A k \in 1..(n - 1) : calls[k] \in Frames /\ Sound(calls[k], ctx, pooled_buf_)
  BY Innermost DEF Callback
<1>2. f.op = "stream" /\ f.row < Cardinality(LastRows(f))
  BY DEF Callback
<1>3. TypeOK /\ calls \in Seq(Frames)
  BY DEF Inv, TypeOK
<1>4. calls' = [calls EXCEPT ![n] = Called(f)]
  BY <1>1 DEF Callback, Called
<1>5. UNCHANGED <<ctx, pooled_buf_, texts_embedded, batches_run, issued, returned>>
  BY DEF Callback
<1>6. Called(f) \in Frames /\ Sound(Called(f), ctx, pooled_buf_)
  BY <1>1, <1>2, <1>3, CalledSound
<1> HIDE DEF f, n
<1>7. /\ calls' \in Seq(Frames) /\ DOMAIN calls' = 1..n
      /\ \A k \in 1..n : calls'[k] = IF k = n THEN Called(f) ELSE calls[k]
  BY <1>1, <1>3, <1>4, <1>6
<1>8. TypeOK'
  BY <1>3, <1>5, <1>7 DEF TypeOK
<1>9. Held'
  <2>1. ctx # None
    BY DEF Callback, Inv, Held
  <2> QED BY <1>5, <2>1 DEF Held
<1>10. AllSound'
  <2>1. ASSUME NEW k \in 1..n PROVE Sound(calls'[k], ctx, pooled_buf_)
    <3>1. CASE k = n
      BY <1>6, <1>7, <3>1
    <3>2. CASE k # n
      BY <1>1, <1>7, <3>2
    <3> QED BY <3>1, <3>2
  <2> QED BY <1>5, <1>7, <2>1 DEF AllSound
<1>11. ResultsInPlace'
  BY <1>5 DEF Inv, ResultsInPlace
<1> QED BY <1>8, <1>9, <1>10, <1>11 DEF Inv

\* The innermost call ends, one way or the other.
LEMMA InvPopped ==
  ASSUME Inv, calls # <<>>, calls' = Front(calls), ResultsInPlace',
         UNCHANGED <<ctx, pooled_buf_, issued>>,
         texts_embedded' \in Nat, batches_run' \in Nat
  PROVE  Inv'
<1>1. /\ calls' \in Seq(Frames) /\ DOMAIN calls' = 1..(Len(calls) - 1)
      /\ \A k \in 1..(Len(calls) - 1) : Sound(calls'[k], ctx, pooled_buf_)
  BY Innermost
<1>2. TypeOK'
  BY <1>1 DEF Inv, TypeOK
<1>3. Held' /\ AllSound'
  BY <1>1 DEF Inv, Held, AllSound
<1> QED BY <1>2, <1>3 DEF Inv

\* A call returns: its places are filled, each with its own text's embedding.
LEMMA InvReturn == Inv /\ Return => Inv'
<1> SUFFICES ASSUME Inv, Return PROVE Inv'
  OBVIOUS
<1> DEFINE f == Top
<1>1. f \in Frames /\ Sound(f, ctx, pooled_buf_) /\ ctx \in Contexts /\ f.done >= Batches(f)
  BY Innermost DEF Return
<1>2. returned' = Outcome(f, "OK") /\ ctx' = ctx
  BY DEF Return
<1>3. /\ texts_embedded' = texts_embedded + Total(f)
      /\ batches_run' = batches_run + CountedBatches(f)
  BY DEF Return
<1> HIDE DEF f
<1>4. Total(f) \in Nat /\ CountedBatches(f) \in Nat
  <2>1. Total(f) \in Nat \ {0} /\ f.batch_size \in Nat
    BY <1>1, Reckoned DEF Sound, Frames
  <2>2. BatchSize(Total(f), f.batch_size) \in Nat \ {0}
    BY <2>1 DEF BatchSize
  <2>3. \A a \in Nat, b \in Nat \ {0} : (a + b - 1) \div b \in Nat
    OBVIOUS
  <2> QED BY <2>1, <2>2, <2>3 DEF CountedBatches, batch_count
<1>5. texts_embedded' \in Nat /\ batches_run' \in Nat
  BY <1>3, <1>4 DEF Inv, TypeOK
<1>6. ResultsInPlace'
  <2> SUFFICES ASSUME f.op = "embed", NEW i \in Positions(f.lens)
               PROVE  Fits(f, ctx) => IsOf(f.data[i], f.id, i, ctx.dim)
    BY <1>2 DEF ResultsInPlace, Outcome, Fits
  <2> QED BY <1>1, AllPlaced DEF Sound
<1> QED BY <1>5, <1>6, InvPopped DEF Return

\* A call fails: it returns no result.
LEMMA InvFail == Inv /\ Fail => Inv'
<1> SUFFICES ASSUME Inv, Fail PROVE Inv'
  OBVIOUS
<1>1. returned'.status = "error"
  BY DEF Fail, Outcome
<1>2. ResultsInPlace'
  BY <1>1 DEF ResultsInPlace
<1> QED BY <1>2, InvPopped DEF Fail, Inv, TypeOK

\* The invariant holds in every reachable state.
THEOREM AlwaysInPlace == Spec => []Inv
<1>1. Inv /\ [Next]_vars => Inv'
  <2> SUFFICES ASSUME Inv, [Next]_vars PROVE Inv'
    OBVIOUS
  <2>1. CASE Construct
    BY <2>1, InvConstruct
  <2>2. CASE Free
    BY <2>2, InvFree
  <2>3. CASE Request
    BY <2>3, InvRefused, InvEmbed, InvEmbedStream DEF Request
  <2>4. CASE RunBatch
    BY <2>4, InvRunBatch
  <2>5. CASE Callback
    BY <2>5, InvCallback
  <2>6. CASE Return
    BY <2>6, InvReturn
  <2>7. CASE Fail
    BY <2>7, InvFail
  <2>8. CASE UNCHANGED vars
    BY <2>8, InvStutter
  <2> QED BY <2>1, <2>2, <2>3, <2>4, <2>5, <2>6, <2>7, <2>8 DEF Next
<1> QED BY <1>1, InvInit, PTL DEF Spec

\* The types of all variables (the result of the last call apart, which
\* AlwaysInPlace describes).
THEOREM EmbeddingTypeCorrect == Spec => []TypeOK
BY AlwaysInPlace, PTL DEF Inv

\* Embedding i of a successful embed is that of text i, each number in its
\* place, where the context's dimension is the model's, or is smaller and each
\* text is run alone (text_embedding_impl.hpp:363-369).
THEOREM EmbeddingsInPlace == Spec => []ResultsInPlace
BY AlwaysInPlace, PTL DEF Inv

\* The k-th callback of a stream gets the embedding of text k, as many numbers
\* of it as the context's dimension says, unless that is more than there are or
\* a callback of the same batch ran the context again.
THEOREM StreamsInOrder == Spec => []StreamOwnEmbeddings
<1>1. Inv => StreamOwnEmbeddings
  <2> SUFFICES ASSUME Inv, NEW n \in DOMAIN calls, NEW k \in DOMAIN calls[n].delivered,
                      calls[n].delivered[k].fresh, ctx.dim <= out_dim
               PROVE  IsOf(calls[n].delivered[k].row, calls[n].id, k, ctx.dim)
    BY DEF StreamOwnEmbeddings
  <2>1. Sound(calls[n], ctx, pooled_buf_) /\ calls[n] \in Frames
    BY DEF Inv, AllSound, TypeOK
  <2>2. CASE calls[n].op = "stream"
    BY <2>1, <2>2 DEF Sound, Streamed
  <2>3. CASE calls[n].op = "embed"
    BY <2>1, <2>3 DEF Sound, Placed
  <2> QED BY <2>1, <2>2, <2>3 DEF Frames
<1> QED BY <1>1, AlwaysInPlace, PTL

-----------------------------------------------------------------------------
(***************************************************************************)
(* EmbeddingPool: what holds for every number of workers, of texts, and    *)
(* every batch size: the order of the embeddings, and that a text is lost  *)
(* only beside an idle worker.                                             *)
(***************************************************************************)

TypeInv ==
  /\ call \in {"embed", "embed_stream"}
  /\ total \in Nat \ {0}
  /\ main \in {"spawning", "marking", "collecting", "joining", "returned"}
  /\ next_spawn \in 0..num_workers_
  /\ thread \in [Worker -> {"none", "embedding", "marking", "draining", "finished"}]
  /\ pos \in [Worker -> Nat]
  /\ partial_results \in [Worker -> Seq(Nat)]
  /\ word \subseteq Worker
  /\ loaded \in [Worker \cup {Main} -> SUBSET Worker]
  /\ mtx \in Worker \cup {Main}
  /\ next_to_yield \in 0..num_workers_
  /\ yielded \in Seq(Nat)
  /\ failed \subseteq Nat
  /\ main = "marking" => next_spawn < num_workers_

-----------------------------------------------------------------------------
\* An increasing sequence of numbers from a to b - 1.
Ascending(s, a, b) ==
  /\ \A i \in 1..Len(s) : a <= s[i] /\ s[i] < b
  /\ \A i, j \in 1..Len(s) : i < j => s[i] < s[j]

\* The end of what worker w has been through.
Reached(w) == IF pos[w] < End(w) THEN pos[w] ELSE End(w)

\* Results of a worker are from its range, and those yielded from the ranges
\* of the workers before next_to_yield.
OrderInv ==
  /\ \A w \in Worker : Begin(w) <= pos[w]
  /\ \A w \in Worker : Ascending(partial_results[w], Begin(w), Reached(w))
  /\ Ascending(yielded, 0, Begin(next_to_yield))

NoIdle == \A w \in Worker : HasTexts(w)

\* Where the calling thread stands.
AllSpawned == next_spawn = num_workers_ \/ ~HasTexts(next_spawn)

PhaseInv ==
  /\ main = "marking" => call = "embed_stream" /\ ~HasTexts(next_spawn)
  /\ main = "collecting" => call = "embed" /\ AllSpawned
  /\ main = "joining" => call = "embed_stream" /\ next_spawn = num_workers_
  /\ main = "returned" =>
       \/ call = "embed" /\ AllSpawned /\ next_to_yield = next_spawn
       \/ /\ call = "embed_stream" /\ next_spawn = num_workers_
          /\ \A w \in Worker : thread[w] \in {"none", "finished"}
  /\ \A w \in Worker : thread[w] = "none" => w >= next_spawn \/ ~HasTexts(w)

\* Who holds the mutex, and what is true of those who have given it back.
Locking == {"marking", "draining"}

MutexInv ==
  /\ \A w \in Worker : thread[w] \in Locking => call = "embed_stream" /\ mtx = w
  /\ mtx # Main => thread[mtx] \in Locking
  /\ \A w \in Worker : thread[w] \in Locking \cup {"finished"} => pos[w] >= End(w)

\* With texts for every worker nobody writes done without the mutex: its word
\* is exact, and no turn is left over when the mutex is free.
WordInv ==
  NoIdle /\ call = "embed_stream" =>
    /\ \A w \in Worker : w \in word <=> thread[w] \in {"draining", "finished"}
    /\ \A w \in Worker : thread[w] = "marking" => loaded[w] = word
    /\ mtx = Main => ~TurnIsDone

\* Every text a worker has been through is among its results or failed, and
\* every text whose turn has come was yielded or failed.
CoverInv ==
  /\ \A w \in Worker, x \in Nat :
       Begin(w) <= x /\ x < Reached(w) => x \in failed \/ Contains(partial_results[w], x)
  /\ call = "embed" \/ NoIdle =>
       \A x \in Nat : x < Begin(next_to_yield) /\ x < total
                       => x \in failed \/ Contains(yielded, x)

\* Threads are started in the order of their workers.
SpawnInv == \A w \in Worker : w >= next_spawn => thread[w] = "none"

PoolInv == TypeInv /\ OrderInv /\ SpawnInv /\ PhaseInv /\ MutexInv /\ WordInv /\ CoverInv

-----------------------------------------------------------------------------
\* Ranges of neighbouring workers meet.
LEMMA Ranges ==
  ASSUME TypeInv
  PROVE  /\ per_worker \in Nat
         /\ \A w \in Nat : /\ Begin(w) \in Nat /\ Begin(w + 1) = Begin(w) + per_worker
                           /\ End(w) \in Nat /\ End(w) <= Begin(w + 1) /\ End(w) <= total
         /\ Begin(0) = 0
         /\ \A w \in Worker : w \in Nat /\ w + 1 \in Nat
<1>1. total + num_workers_ - 1 \in Nat /\ num_workers_ \in Nat \ {0}
  BY PoolAssumption DEF TypeInv
<1> DEFINE n == total + num_workers_ - 1
<1>2. \A a \in Nat, b \in Nat \ {0} : a \div b \in Nat
  OBVIOUS
<1>3. per_worker \in Nat
  BY <1>1, <1>2 DEF per_worker
<1>4. \A w \in Nat, k \in Nat : w * k \in Nat /\ (w + 1) * k = w * k + k /\ 0 * k = 0
  OBVIOUS
<1>5. \A w \in Nat : Begin(w) \in Nat /\ Begin(w + 1) = Begin(w) + per_worker
  BY <1>3, <1>4 DEF Begin
<1>6. \A w \in Nat : End(w) \in Nat /\ End(w) <= Begin(w + 1) /\ End(w) <= total
  <2> SUFFICES ASSUME NEW w \in Nat
               PROVE  End(w) \in Nat /\ End(w) <= Begin(w + 1) /\ End(w) <= total
    OBVIOUS
  <2> DEFINE first == Begin(w)
             last == Begin(w + 1)
  <2>1. first \in Nat /\ last = first + per_worker /\ total \in Nat
    BY <1>5 DEF TypeInv
  <2>2. End(w) = IF first + per_worker < total THEN first + per_worker ELSE total
    BY DEF End
  <2> HIDE DEF first, last
  <2>3. End(w) \in Nat /\ End(w) <= last /\ End(w) <= total
    BY <1>3, <2>1, <2>2
  <2> QED BY <2>3 DEF last
<1>7. Begin(0) = 0
  BY <1>3, <1>4 DEF Begin
<1>8. \A w \in Worker : w \in Nat /\ w + 1 \in Nat
  BY PoolAssumption DEF Worker
<1> QED BY <1>3, <1>5, <1>6, <1>7, <1>8

\* What follows an ascending sequence in a later range.
LEMMA AscendingAppended ==
  ASSUME NEW s \in Seq(Nat), NEW t \in Seq(Nat), NEW a \in Nat, NEW b \in Nat, NEW c \in Nat,
         a <= b, b <= c, Ascending(s, a, b), Ascending(t, b, c)
  PROVE  s \o t \in Seq(Nat) /\ Ascending(s \o t, a, c)
<1>1. /\ s \o t \in Seq(Nat) /\ Len(s \o t) = Len(s) + Len(t)
      /\ \A i \in 1..(Len(s) + Len(t)) :
           (s \o t)[i] = IF i <= Len(s) THEN s[i] ELSE t[i - Len(s)]
  OBVIOUS
<1>2. ASSUME NEW i \in 1..Len(s \o t)
      PROVE  \/ i \in 1..Len(s) /\ (s \o t)[i] = s[i]
             \/ i - Len(s) \in 1..Len(t) /\ i > Len(s) /\ (s \o t)[i] = t[i - Len(s)]
  BY <1>1
<1>3. \A i \in 1..Len(s) : s[i] \in Nat
  OBVIOUS
<1>4. \A i \in 1..Len(t) : t[i] \in Nat
  OBVIOUS
<1>5. ASSUME NEW i \in 1..Len(s \o t)
      PROVE  a <= (s \o t)[i] /\ (s \o t)[i] < c
  BY <1>2, <1>3, <1>4 DEF Ascending
<1>6. ASSUME NEW i \in 1..Len(s \o t), NEW j \in 1..Len(s \o t), i < j
      PROVE  (s \o t)[i] < (s \o t)[j]
  <2>1. CASE i \in 1..Len(s) /\ j \in 1..Len(s)
    BY <1>1, <1>6, <2>1 DEF Ascending
  <2>2. CASE i \in 1..Len(s) /\ j > Len(s)
    <3>1. (s \o t)[i] = s[i] /\ s[i] < b
      BY <1>1, <2>2 DEF Ascending
    <3>2. (s \o t)[j] = t[j - Len(s)] /\ j - Len(s) \in 1..Len(t)
      BY <1>2, <2>2
    <3>3. b <= t[j - Len(s)]
      BY <3>2 DEF Ascending
    <3>4. s[i] \in Nat /\ t[j - Len(s)] \in Nat
      BY <1>3, <1>4, <2>2, <3>2
    <3>5. s[i] < t[j - Len(s)]
      BY <3>1, <3>3, <3>4
    <3> QED BY <3>1, <3>2, <3>5
  <2>3. CASE i > Len(s)
    <3>1. i - Len(s) \in 1..Len(t) /\ j - Len(s) \in 1..Len(t) /\ i - Len(s) < j - Len(s)
      BY <1>1, <1>6, <2>3
    <3>2. (s \o t)[i] = t[i - Len(s)] /\ (s \o t)[j] = t[j - Len(s)]
      BY <1>1, <1>6, <2>3
    <3> QED BY <3>1, <3>2 DEF Ascending
  <2> QED BY <1>6, <2>1, <2>2, <2>3
<1> QED BY <1>1, <1>5, <1>6 DEF Ascending

\* The ranges together hold all texts.
LEMMA RangesSuffice ==
  ASSUME TypeInv
  PROVE  Begin(num_workers_) >= total /\ per_worker >= 1
<1>1. total + num_workers_ - 1 \in Nat /\ num_workers_ \in Nat \ {0} /\ total \in Nat \ {0}
  BY PoolAssumption DEF TypeInv
<1>2. \A a \in Nat, b \in Nat \ {0} :
        /\ a \div b \in Nat /\ a % b \in 0..(b - 1)
        /\ a = b * (a \div b) + (a % b)
  OBVIOUS
<1> DEFINE a == total + num_workers_ - 1
           r == a % num_workers_
           m == num_workers_ * per_worker
<1>3. per_worker \in Nat /\ r \in 0..(num_workers_ - 1) /\ a = m + r
  BY <1>1, <1>2 DEF per_worker
<1>4. m \in Nat
  BY <1>1, <1>3
<1> HIDE DEF r, m
<1>5. m >= total
  BY <1>1, <1>3, <1>4
<1>6. per_worker # 0
  BY <1>1, <1>3, <1>5 DEF m
<1> QED BY <1>3, <1>5, <1>6 DEF Begin, m

\* What a sequence holds after an append.
LEMMA ContainsAppended ==
  ASSUME NEW s \in Seq(Nat), NEW t \in Seq(Nat), NEW x, Contains(s, x) \/ Contains(t, x)
  PROVE  Contains(s \o t, x)
<1>1. /\ Len(s \o t) = Len(s) + Len(t)
      /\ \A i \in 1..(Len(s) + Len(t)) :
           (s \o t)[i] = IF i <= Len(s) THEN s[i] ELSE t[i - Len(s)]
  OBVIOUS
<1>2. CASE Contains(s, x)
  BY <1>1, <1>2 DEF Contains
<1>3. CASE Contains(t, x)
  <2>1. PICK j \in 1..Len(t) : t[j] = x
    BY <1>3 DEF Contains
  <2>2. Len(s) + j \in 1..(Len(s) + Len(t)) /\ (s \o t)[Len(s) + j] = t[j]
    BY <1>1
  <2> QED BY <1>1, <2>1, <2>2 DEF Contains
<1> QED BY <1>2, <1>3

\* Every text is in the range of a worker that has texts.
LEMMA NothingBehind ==
  ASSUME TypeInv, NEW w \in Nat, ~HasTexts(w)
  PROVE  Begin(w) >= total
<1> DEFINE first == Begin(w)
<1>1. first \in Nat /\ per_worker \in Nat /\ per_worker >= 1 /\ total \in Nat
  BY Ranges, RangesSuffice DEF TypeInv
<1>2. ~(first < (IF first + per_worker < total THEN first + per_worker ELSE total))
  BY DEF HasTexts, End
<1> HIDE DEF first
<1>3. first >= total
  BY <1>1, <1>2
<1> QED BY <1>3 DEF first

-----------------------------------------------------------------------------
\* The initial states: nobody has begun.
LEMMA PoolStarts == PoolInit => PoolInv
<1> SUFFICES ASSUME PoolInit PROVE PoolInv
  OBVIOUS
<1>1. total \in Nat \ {0} /\ num_workers_ \in Nat \ {0}
  BY PoolAssumption DEF PoolInit
<1>2. TypeInv
  <2>1. \A k \in Nat : (total + num_workers_ - 1) \div num_workers_ \in Nat
    BY <1>1
  <2>2. \A w \in Worker : Begin(w) \in Nat
    BY <1>1, <2>1 DEF Begin, per_worker, Worker
  <2>3. <<>> \in Seq(Nat)
    OBVIOUS
  <2>4. pos \in [Worker -> Nat] /\ partial_results \in [Worker -> Seq(Nat)] /\ yielded \in Seq(Nat)
    BY <2>2, <2>3 DEF PoolInit
  <2> QED BY <1>1, <2>4 DEF PoolInit, TypeInv
<1>3. OrderInv
  <2>1. Ascending(<<>>, 0, Begin(0))
    BY DEF Ascending
  <2>2. \A w \in Worker : pos[w] = Begin(w) /\ partial_results[w] = <<>>
    BY DEF PoolInit
  <2>3. \A w \in Worker : Ascending(<<>>, Begin(w), Reached(w))
    BY DEF Ascending
  <2>4. ASSUME NEW w \in Worker PROVE Begin(w) <= pos[w]
    <3>1. Begin(w) \in Nat
      BY <1>2, Ranges
    <3> QED BY <2>2, <3>1
  <2> QED BY <2>1, <2>2, <2>3, <2>4 DEF OrderInv, PoolInit
<1>4. SpawnInv /\ PhaseInv /\ MutexInv
  <2>1. \A w \in Worker : w >= 0
    BY <1>2, Ranges
  <2> QED BY <2>1 DEF PoolInit, SpawnInv, PhaseInv, MutexInv, Locking
<1>5. WordInv
  BY DEF PoolInit, WordInv, TurnIsDone
<1>6. CoverInv
  <2>1. ASSUME NEW w \in Worker, NEW x \in Nat, Begin(w) <= x, x < Reached(w)
        PROVE  FALSE
    <3>1. Begin(w) \in Nat /\ End(w) \in Nat /\ pos[w] = Begin(w)
      BY <1>2, Ranges DEF PoolInit
    <3>2. Reached(w) <= pos[w]
      BY <3>1 DEF Reached
    <3>3. Reached(w) \in Nat
      BY <3>1 DEF Reached
    <3> QED BY <2>1, <3>1, <3>2, <3>3
  <2>2. Begin(next_to_yield) = 0
    BY <1>2, Ranges DEF PoolInit
  <2> QED BY <2>1, <2>2 DEF CoverInv
<1> QED BY <1>2, <1>3, <1>4, <1>5, <1>6 DEF PoolInv

\* No step changes the call or its texts, and so the ranges.
LEMMA Unmoved ==
  ASSUME [PoolNext]_pool_vars
  PROVE  /\ total' = total /\ call' = call /\ per_worker' = per_worker
         /\ \A w : Begin(w)' = Begin(w) /\ End(w)' = End(w) /\ HasTexts(w)' = HasTexts(w)
         /\ NoIdle' = NoIdle
<1>1. total' = total /\ call' = call
  BY DEF PoolNext, pool_vars, Spawn, StopSpawning, MarkIdleLoad, MarkIdleStore, Collect, ReturnAll,
         EmbedBatch, SetFuture, LockAndLoad, MarkDone, Yield, Unlock
<1>2. per_worker' = per_worker
  BY <1>1 DEF per_worker
<1>3. \A w : Begin(w)' = Begin(w) /\ End(w)' = End(w)
  BY <1>1, <1>2 DEF Begin, End
<1>4. \A w : HasTexts(w)' = HasTexts(w)
  BY <1>3 DEF HasTexts
<1>5. NoIdle' = NoIdle
  BY <1>4 DEF NoIdle
<1> QED BY <1>1, <1>2, <1>3, <1>4, <1>5

\* The texts of a batch are numbers from where the worker stands up to the end
\* of its batch.
LEMMA BatchOfWorker ==
  ASSUME TypeInv, NEW w \in Worker, pos[w] < End(w)
  PROVE  /\ BatchEnd(w) \in Nat /\ pos[w] < BatchEnd(w) /\ BatchEnd(w) <= End(w)
         /\ BatchTexts(w) \in Seq(Nat) /\ Ascending(BatchTexts(w), pos[w], BatchEnd(w))
         /\ \A x \in Nat : pos[w] <= x /\ x < BatchEnd(w) => Contains(BatchTexts(w), x)
<1>1. pos[w] \in Nat /\ End(w) \in Nat /\ bs \in Nat \ {0}
  BY PoolAssumption, Ranges DEF TypeInv
<1>2. BatchEnd(w) \in Nat /\ pos[w] < BatchEnd(w) /\ BatchEnd(w) <= End(w)
  BY <1>1 DEF BatchEnd
<1> DEFINE n == BatchEnd(w) - pos[w]
<1>3. n \in Nat
  BY <1>1, <1>2
<1>4. /\ BatchTexts(w) \in Seq(Nat) /\ Len(BatchTexts(w)) = n
      /\ \A k \in 1..n : BatchTexts(w)[k] = pos[w] + k - 1
  BY <1>1, <1>3 DEF BatchTexts
<1>5. Ascending(BatchTexts(w), pos[w], BatchEnd(w))
  <2>1. \A i \in 1..n : pos[w] <= BatchTexts(w)[i] /\ BatchTexts(w)[i] < BatchEnd(w)
    BY <1>1, <1>2, <1>4
  <2>2. \A i, j \in 1..n : i < j => BatchTexts(w)[i] < BatchTexts(w)[j]
    BY <1>1, <1>3, <1>4
  <2> QED BY <1>4, <2>1, <2>2 DEF Ascending
<1>6. ASSUME NEW x \in Nat, pos[w] <= x, x < BatchEnd(w)
      PROVE  Contains(BatchTexts(w), x)
  <2>1. x - pos[w] + 1 \in 1..n /\ pos[w] + (x - pos[w] + 1) - 1 = x
    BY <1>1, <1>2, <1>6
  <2>2. BatchTexts(w)[x - pos[w] + 1] = x
    BY <1>4, <2>1
  <2> QED BY <1>4, <2>1, <2>2 DEF Contains
<1> QED BY <1>2, <1>4, <1>5, <1>6

\* The types are kept by every step.
LEMMA TypeNext == TypeInv /\ [PoolNext]_pool_vars => TypeInv'
<1> SUFFICES ASSUME TypeInv, [PoolNext]_pool_vars PROVE TypeInv'
  OBVIOUS
<1> USE DEF TypeInv
<1>0. num_workers_ \in Nat \ {0} /\ bs \in Nat \ {0} /\ (\A w \in Worker : w \in Nat)
  BY PoolAssumption, Ranges
<1>1. CASE Spawn
  <2>1. next_spawn + 1 \in 0..num_workers_
    BY <1>0, <1>1 DEF Spawn
  <2> QED BY <1>1, <2>1 DEF Spawn
<1>2. CASE StopSpawning
  BY <1>2 DEF StopSpawning
<1>3. CASE MarkIdleLoad
  BY <1>0, <1>3 DEF MarkIdleLoad, Worker
<1>4. CASE MarkIdleStore
  <2>1. next_spawn + 1 \in 0..num_workers_ /\ next_spawn \in Worker
    BY <1>0, <1>4 DEF MarkIdleStore, Worker
  <2>2. loaded[Main] \subseteq Worker
    OBVIOUS
  <2> QED BY <1>4, <2>1, <2>2 DEF MarkIdleStore
<1>5. CASE Collect
  <2>1. next_to_yield + 1 \in 0..num_workers_ /\ next_to_yield \in Worker
    BY <1>0, <1>5 DEF Collect, Worker
  <2>2. yielded \o partial_results[next_to_yield] \in Seq(Nat)
    BY <2>1
  <2> QED BY <1>5, <2>1, <2>2 DEF Collect
<1>6. CASE ReturnAll
  BY <1>6 DEF ReturnAll
<1>7. ASSUME NEW w \in Worker, EmbedBatch(w) PROVE TypeInv'
  <2>1. pos[w] + bs \in Nat
    BY <1>0
  <2>2. BatchTexts(w) \in Seq(Nat) /\ BatchEnd(w) \in Nat
    BY <1>7, BatchOfWorker DEF EmbedBatch
  <2>3. partial_results[w] \o BatchTexts(w) \in Seq(Nat)
    BY <2>2
  <2>4. pos' \in [Worker -> Nat]
    BY <1>7, <2>1 DEF EmbedBatch
  <2>5. partial_results' \in [Worker -> Seq(Nat)]
    BY <1>7, <2>3 DEF EmbedBatch
  <2>6. failed' \subseteq Nat
    <3>1. pos[w]..(BatchEnd(w) - 1) \subseteq Nat
      BY <2>2
    <3> QED BY <1>7, <3>1 DEF EmbedBatch
  <2> QED BY <1>7, <2>4, <2>5, <2>6 DEF EmbedBatch
<1>8. ASSUME NEW w \in Worker, SetFuture(w) PROVE TypeInv'
  BY <1>8 DEF SetFuture
<1>9. ASSUME NEW w \in Worker, LockAndLoad(w) PROVE TypeInv'
  BY <1>9 DEF LockAndLoad
<1>10. ASSUME NEW w \in Worker, MarkDone(w) PROVE TypeInv'
  BY <1>10 DEF MarkDone
<1>11. ASSUME NEW w \in Worker, Yield(w) PROVE TypeInv'
  <2>1. next_to_yield + 1 \in 0..num_workers_ /\ next_to_yield \in Worker
    BY <1>0, <1>11 DEF Yield, TurnIsDone, Worker
  <2>2. yielded \o partial_results[next_to_yield] \in Seq(Nat)
    BY <2>1
  <2> QED BY <1>11, <2>1, <2>2 DEF Yield, ResultsInTurn
<1>12. ASSUME NEW w \in Worker, Unlock(w) PROVE TypeInv'
  BY <1>12 DEF Unlock
<1>13. CASE UNCHANGED pool_vars
  BY <1>13 DEF pool_vars
<1> QED BY <1>1, <1>2, <1>3, <1>4, <1>5, <1>6, <1>7, <1>8, <1>9, <1>10, <1>11,
           <1>12, <1>13 DEF PoolNext

-----------------------------------------------------------------------------
\* How far a worker is after a batch.
LEMMA ReachedByBatch ==
  ASSUME TypeInv, NEW w \in Worker, EmbedBatch(w)
  PROVE  /\ Reached(w) = pos[w] /\ Reached(w)' = BatchEnd(w)
         /\ \A v \in Worker : v # w => Reached(v)' = Reached(v)
<1>1. pos[w] < End(w) /\ pos'[w] = pos[w] + bs /\ total' = total
  BY DEF EmbedBatch, TypeInv
<1>2. \A v : End(v)' = End(v)
  BY <1>1 DEF End, Begin, per_worker
<1>3. Reached(w)' = BatchEnd(w)
  BY <1>1, <1>2 DEF Reached, BatchEnd
<1>4. \A v \in Worker : v # w => pos'[v] = pos[v]
  BY DEF EmbedBatch, TypeInv
<1> QED BY <1>1, <1>2, <1>3, <1>4 DEF Reached

\* Nothing moves where the positions stay.
LEMMA ReachedStays ==
  ASSUME [PoolNext]_pool_vars, pos' = pos
  PROVE  \A w : Reached(w)' = Reached(w)
BY Unmoved DEF Reached

\* An upper bound of an ascending sequence may be raised.
LEMMA AscendingWidens ==
  ASSUME NEW s \in Seq(Nat), NEW a \in Nat, NEW b \in Nat, NEW c \in Nat, b <= c,
         Ascending(s, a, b)
  PROVE  Ascending(s, a, c)
<1>1. \A i \in 1..Len(s) : s[i] \in Nat
  OBVIOUS
<1> QED BY <1>1 DEF Ascending

\* The results of the worker whose turn it is follow those yielded before.
LEMMA TurnInOrder ==
  ASSUME TypeInv, OrderInv, next_to_yield < num_workers_
  PROVE  /\ next_to_yield \in Worker
         /\ Ascending(yielded \o partial_results[next_to_yield], 0, Begin(next_to_yield + 1))
<1> DEFINE w == next_to_yield
<1>1. w \in Worker
  BY PoolAssumption DEF TypeInv, Worker
<1>2. /\ Begin(w) \in Nat /\ Begin(w + 1) \in Nat /\ Begin(w) <= Begin(w + 1)
      /\ End(w) \in Nat /\ End(w) <= Begin(w + 1)
  BY <1>1, Ranges
<1>3. Reached(w) \in Nat /\ Reached(w) <= Begin(w + 1)
  BY <1>1, <1>2 DEF Reached, TypeInv
<1>4. partial_results[w] \in Seq(Nat) /\ yielded \in Seq(Nat)
  BY <1>1 DEF TypeInv
<1>5. Ascending(partial_results[w], Begin(w), Reached(w)) /\ Ascending(yielded, 0, Begin(w))
  BY <1>1 DEF OrderInv
<1>6. Ascending(partial_results[w], Begin(w), Begin(w + 1))
  BY <1>2, <1>3, <1>4, <1>5, AscendingWidens
<1>7. 0 \in Nat /\ 0 <= Begin(w)
  BY <1>2
<1> QED BY <1>1, <1>2, <1>4, <1>5, <1>6, <1>7, AscendingAppended

\* The order of what was yielded is kept by every step.
LEMMA OrderNext == PoolInv /\ [PoolNext]_pool_vars => OrderInv'
<1> SUFFICES ASSUME PoolInv, [PoolNext]_pool_vars PROVE OrderInv'
  OBVIOUS
<1>0. TypeInv /\ OrderInv
  BY DEF PoolInv
<1>1. ASSUME UNCHANGED <<pos, partial_results, next_to_yield, yielded>> PROVE OrderInv'
  BY <1>0, <1>1, Unmoved, ReachedStays DEF OrderInv
<1>2. ASSUME next_to_yield < num_workers_, UNCHANGED <<pos, partial_results>>,
             yielded' = yielded \o partial_results[next_to_yield],
             next_to_yield' = next_to_yield + 1
      PROVE  OrderInv'
  <2>1. Ascending(yielded', 0, Begin(next_to_yield)')
    <3>1. Begin(next_to_yield)' = Begin(next_to_yield + 1)
      BY <1>2, Unmoved DEF Begin
    <3> QED BY <1>0, <1>2, <3>1, TurnInOrder
  <2> QED BY <1>0, <1>2, <2>1, Unmoved, ReachedStays DEF OrderInv
<1>3. ASSUME NEW w \in Worker, EmbedBatch(w) PROVE OrderInv'
  <2>1. /\ BatchEnd(w) \in Nat /\ pos[w] < BatchEnd(w) /\ pos[w] < End(w)
        /\ BatchTexts(w) \in Seq(Nat) /\ Ascending(BatchTexts(w), pos[w], BatchEnd(w))
    BY <1>0, <1>3, BatchOfWorker DEF EmbedBatch
  <2>2. Begin(w) \in Nat /\ pos[w] \in Nat /\ Begin(w) <= pos[w] /\ bs \in Nat
    BY <1>0, PoolAssumption, Ranges DEF TypeInv, OrderInv
  <2>3. partial_results[w] \in Seq(Nat) /\ Ascending(partial_results[w], Begin(w), pos[w])
    BY <1>0, <1>3, ReachedByBatch DEF TypeInv, OrderInv
  <2>4. Ascending(partial_results[w] \o BatchTexts(w), Begin(w), BatchEnd(w))
    BY <2>1, <2>2, <2>3, AscendingAppended
  <2>5. Ascending(partial_results[w], Begin(w), BatchEnd(w))
    BY <2>1, <2>2, <2>3, AscendingWidens
  <2>6. \/ partial_results'[w] = partial_results[w] \o BatchTexts(w)
        \/ partial_results'[w] = partial_results[w]
    BY <1>0, <1>3 DEF EmbedBatch, TypeInv
  <2>7. \A v \in Worker : v # w => /\ partial_results'[v] = partial_results[v]
                                  /\ pos'[v] = pos[v]
    BY <1>0, <1>3 DEF EmbedBatch, TypeInv
  <2>8. pos'[w] = pos[w] + bs
    BY <1>0, <1>3 DEF EmbedBatch, TypeInv
  <2>9. \A v \in Worker : Ascending(partial_results'[v], Begin(v), Reached(v)')
    BY <1>0, <1>3, <2>4, <2>5, <2>6, <2>7, ReachedByBatch DEF OrderInv
  <2>10. ASSUME NEW v \in Worker PROVE Begin(v) <= pos'[v]
    <3>1. CASE v = w
      BY <2>2, <2>8, <3>1
    <3>2. CASE v # w
      BY <1>0, <2>7, <3>2 DEF OrderInv
    <3> QED BY <3>1, <3>2
  <2>11. Ascending(yielded, 0, Begin(next_to_yield)) /\ yielded' = yielded
         /\ next_to_yield' = next_to_yield
    BY <1>0, <1>3 DEF OrderInv, EmbedBatch
  <2>12. /\ \A v : Begin(v)' = Begin(v)
         /\ Begin(next_to_yield)' = Begin(next_to_yield)
    <3>1. total' = total
      BY <1>3 DEF EmbedBatch
    <3> QED BY <2>11, <3>1 DEF Begin, per_worker
  <2> QED BY <2>9, <2>10, <2>11, <2>12 DEF OrderInv
<1>4. CASE Collect
  <2>1. next_to_yield < num_workers_
    BY <1>0, <1>4, PoolAssumption DEF Collect, TypeInv
  <2> QED BY <1>2, <1>4, <2>1 DEF Collect
<1>5. ASSUME NEW w \in Worker, Yield(w) PROVE OrderInv'
  BY <1>2, <1>5 DEF Yield, TurnIsDone, ResultsInTurn
<1>6. CASE Spawn \/ StopSpawning \/ MarkIdleLoad \/ MarkIdleStore \/ ReturnAll \/ UNCHANGED pool_vars
  BY <1>1, <1>6 DEF Spawn, StopSpawning, MarkIdleLoad, MarkIdleStore, ReturnAll, pool_vars
<1>7. ASSUME NEW w \in Worker, SetFuture(w) \/ LockAndLoad(w) \/ MarkDone(w) \/ Unlock(w)
      PROVE  OrderInv'
  BY <1>1, <1>7 DEF SetFuture, LockAndLoad, MarkDone, Unlock
<1> QED BY <1>3, <1>4, <1>5, <1>6, <1>7 DEF PoolNext

-----------------------------------------------------------------------------
\* The caller's phases, and which workers have no thread yet.
LEMMA PhaseNext == PoolInv /\ [PoolNext]_pool_vars => PhaseInv'
<1> SUFFICES ASSUME PoolInv, [PoolNext]_pool_vars PROVE PhaseInv'
  OBVIOUS
<1>0. /\ TypeInv /\ PhaseInv /\ MutexInv
      /\ num_workers_ \in Nat \ {0} /\ \A w \in Worker : w \in Nat
  BY PoolAssumption, Ranges DEF PoolInv
<1>1. /\ \A w : HasTexts(w)' = HasTexts(w)
      /\ call' = call
  BY Unmoved
<1>2. ASSUME next_spawn' = next_spawn PROVE AllSpawned' = AllSpawned
  <2>1. HasTexts(next_spawn)' = HasTexts(next_spawn)
    BY <1>2, Unmoved DEF HasTexts, Begin, End
  <2> QED BY <1>2, <2>1 DEF AllSpawned
<1>3. ASSUME UNCHANGED <<main, next_spawn, next_to_yield>>,
             \A w \in Worker : thread'[w] = "none" => thread[w] = "none",
             main = "returned" /\ call = "embed_stream" =>
               \A w \in Worker : thread'[w] \in {"none", "finished"}
      PROVE  PhaseInv'
  <2>1. HasTexts(next_spawn)' = HasTexts(next_spawn) /\ AllSpawned' = AllSpawned
    BY <1>2, <1>3, Unmoved DEF HasTexts, Begin, End
  <2> QED BY <1>0, <1>1, <1>3, <2>1 DEF PhaseInv
<1>4. CASE Spawn
  <2>1. main' = "spawning" /\ next_spawn' = next_spawn + 1 /\ next_spawn \in Nat
    BY <1>0, <1>4 DEF Spawn, TypeInv
  <2>2. ASSUME NEW w \in Worker, thread'[w] = "none" PROVE w >= next_spawn' \/ ~HasTexts(w)'
    <3>1. w # next_spawn /\ thread[w] = "none"
      BY <1>0, <1>4, <2>2 DEF Spawn, TypeInv
    <3> QED BY <1>0, <1>1, <2>1, <3>1 DEF PhaseInv
  <2> QED BY <2>1, <2>2 DEF PhaseInv
<1>5. CASE StopSpawning
  <2>1. AllSpawned /\ next_spawn' = next_spawn /\ AllSpawned' = AllSpawned
    BY <1>2, <1>5 DEF StopSpawning, AllSpawned
  <2>2. \A w \in Worker : thread'[w] = "none" => w >= next_spawn' \/ ~HasTexts(w)'
    BY <1>0, <1>1, <1>5 DEF StopSpawning, PhaseInv
  <2>3. \/ call = "embed" /\ main' = "collecting"
        \/ call = "embed_stream" /\ main' = "joining" /\ next_spawn = num_workers_
    BY <1>0, <1>5 DEF StopSpawning, TypeInv
  <2> QED BY <1>1, <2>1, <2>2, <2>3 DEF PhaseInv
<1>6. CASE MarkIdleLoad
  <2>1. ~HasTexts(next_spawn)'
    BY <1>6, Unmoved DEF MarkIdleLoad, HasTexts, Begin, End
  <2> QED BY <1>0, <1>1, <1>6, <2>1 DEF MarkIdleLoad, PhaseInv
<1>7. CASE MarkIdleStore
  <2>1. main' = "spawning" /\ next_spawn' = next_spawn + 1 /\ next_spawn \in Nat
    BY <1>0, <1>7 DEF MarkIdleStore, TypeInv
  <2>2. ~HasTexts(next_spawn)
    BY <1>0, <1>7 DEF MarkIdleStore, PhaseInv
  <2>3. ASSUME NEW w \in Worker, thread'[w] = "none" PROVE w >= next_spawn' \/ ~HasTexts(w)'
    <3>1. thread[w] = "none"
      BY <1>7, <2>3 DEF MarkIdleStore
    <3>2. w >= next_spawn \/ ~HasTexts(w)
      BY <1>0, <3>1 DEF PhaseInv
    <3>3. w = next_spawn \/ w >= next_spawn + 1 \/ ~HasTexts(w)
      BY <1>0, <2>1, <3>2
    <3> QED BY <1>1, <2>1, <2>2, <3>3
  <2> QED BY <2>1, <2>3 DEF PhaseInv
<1>8. CASE Collect
  <2>1. main = "collecting" /\ main' = main /\ call = "embed" /\ AllSpawned
    BY <1>0, <1>8 DEF Collect, PhaseInv
  <2>2. AllSpawned' /\ next_spawn' = next_spawn /\ thread' = thread
    BY <1>2, <1>8, <2>1 DEF Collect
  <2> QED BY <1>0, <1>1, <2>1, <2>2 DEF PhaseInv
<1>9. CASE ReturnAll
  <2>1. main' = "returned" /\ UNCHANGED <<next_spawn, thread, next_to_yield>>
    BY <1>9 DEF ReturnAll
  <2>2. AllSpawned' = AllSpawned
    BY <1>2, <2>1
  <2>3. \/ call = "embed" /\ AllSpawned /\ next_to_yield = next_spawn
        \/ /\ call = "embed_stream" /\ next_spawn = num_workers_
           /\ \A w \in Worker : thread[w] \in {"none", "finished"}
    BY <1>0, <1>9 DEF ReturnAll, PhaseInv
  <2> QED BY <1>0, <1>1, <2>1, <2>2, <2>3 DEF PhaseInv
<1>10. ASSUME NEW w \in Worker, thread[w] \in {"embedding", "marking", "draining"},
              call = "embed_stream"
       PROVE  main # "returned"
  BY <1>0, <1>10 DEF PhaseInv
<1>11. ASSUME NEW w \in Worker, EmbedBatch(w) PROVE PhaseInv'
  BY <1>0, <1>3, <1>10, <1>11 DEF EmbedBatch
<1>12. ASSUME NEW w \in Worker, SetFuture(w) PROVE PhaseInv'
  <2>1. call = "embed" /\ \A v \in Worker : thread'[v] = "none" => thread[v] = "none"
    BY <1>0, <1>12 DEF SetFuture, TypeInv
  <2> QED BY <1>3, <1>12, <2>1 DEF SetFuture
<1>13. ASSUME NEW w \in Worker, LockAndLoad(w) PROVE PhaseInv'
  <2>1. \A v \in Worker : thread'[v] = "none" => thread[v] = "none"
    BY <1>0, <1>13 DEF LockAndLoad, TypeInv
  <2> QED BY <1>3, <1>10, <1>13, <2>1 DEF LockAndLoad
<1>14. ASSUME NEW w \in Worker, MarkDone(w) PROVE PhaseInv'
  <2>1. \A v \in Worker : thread'[v] = "none" => thread[v] = "none"
    BY <1>0, <1>14 DEF MarkDone, TypeInv
  <2> QED BY <1>3, <1>10, <1>14, <2>1 DEF MarkDone
<1>15. ASSUME NEW w \in Worker, Yield(w) PROVE PhaseInv'
  <2>1. call = "embed_stream"
    BY <1>0, <1>15 DEF Yield, MutexInv, Locking
  <2>2. main # "returned"
    BY <1>10, <1>15, <2>1 DEF Yield
  <2>3. AllSpawned' = AllSpawned /\ HasTexts(next_spawn)' = HasTexts(next_spawn)
    BY <1>2, <1>15, Unmoved DEF Yield, HasTexts, Begin, End
  <2> QED BY <1>0, <1>1, <1>15, <2>2, <2>3 DEF Yield, PhaseInv
<1>16. ASSUME NEW w \in Worker, Unlock(w) PROVE PhaseInv'
  <2>1. \A v \in Worker : thread'[v] = "none" => thread[v] = "none"
    BY <1>0, <1>16 DEF Unlock, TypeInv
  <2>2. call = "embed_stream"
    BY <1>0, <1>16 DEF Unlock, MutexInv, Locking
  <2> QED BY <1>3, <1>10, <1>16, <2>1, <2>2 DEF Unlock
<1>17. CASE UNCHANGED pool_vars
  BY <1>0, <1>3, <1>17 DEF pool_vars, PhaseInv
<1> QED BY <1>4, <1>5, <1>6, <1>7, <1>8, <1>9, <1>11, <1>12, <1>13, <1>14, <1>15,
           <1>16, <1>17 DEF PoolNext

-----------------------------------------------------------------------------
\* No thread runs before it was started.
LEMMA SpawnNext == PoolInv /\ [PoolNext]_pool_vars => SpawnInv'
<1> SUFFICES ASSUME PoolInv, [PoolNext]_pool_vars, NEW w \in Worker, w >= next_spawn'
             PROVE  thread'[w] = "none"
  BY DEF SpawnInv
<1>0. TypeInv /\ SpawnInv /\ next_spawn \in Nat /\ w \in Nat
  <2>1. TypeInv /\ SpawnInv
    BY DEF PoolInv
  <2>2. next_spawn \in Nat
    BY <2>1, PoolAssumption DEF TypeInv
  <2> QED BY <2>1, <2>2, Ranges
<1>1. ASSUME UNCHANGED <<thread, next_spawn>> PROVE thread'[w] = "none"
  BY <1>0, <1>1 DEF SpawnInv
<1>2. CASE Spawn
  <2>1. w >= next_spawn /\ w # next_spawn
    BY <1>0, <1>2 DEF Spawn
  <2> QED BY <1>0, <1>2, <2>1 DEF Spawn, SpawnInv, TypeInv
<1>3. CASE MarkIdleStore
  <2>1. w >= next_spawn /\ thread' = thread
    BY <1>0, <1>3 DEF MarkIdleStore
  <2> QED BY <1>0, <2>1 DEF SpawnInv
<1>4. CASE StopSpawning \/ MarkIdleLoad \/ Collect \/ ReturnAll \/ UNCHANGED pool_vars
  BY <1>1, <1>4 DEF StopSpawning, MarkIdleLoad, Collect, ReturnAll, pool_vars
<1>5. ASSUME NEW v \in Worker,
             \/ EmbedBatch(v) \/ SetFuture(v) \/ LockAndLoad(v) \/ MarkDone(v)
             \/ Yield(v) \/ Unlock(v)
      PROVE  thread'[w] = "none"
  <2>1. next_spawn' = next_spawn /\ thread[v] # "none"
    BY <1>5 DEF EmbedBatch, SetFuture, LockAndLoad, MarkDone, Yield, Unlock
  <2>2. thread[w] = "none" /\ w # v
    BY <1>0, <2>1 DEF SpawnInv
  <2>3. thread'[w] = thread[w]
    BY <1>0, <1>5, <2>2 DEF EmbedBatch, SetFuture, LockAndLoad, MarkDone, Yield, Unlock, TypeInv
  <2> QED BY <2>2, <2>3
<1> QED BY <1>2, <1>3, <1>4, <1>5 DEF PoolNext


-----------------------------------------------------------------------------
\* The mutex excludes, and only a worker that is through its range asks for it.
LEMMA MutexNext == PoolInv /\ [PoolNext]_pool_vars => MutexInv'
<1> SUFFICES ASSUME PoolInv, [PoolNext]_pool_vars PROVE MutexInv'
  OBVIOUS
<1>0. /\ TypeInv /\ MutexInv /\ Main \notin Worker
      /\ bs \in Nat /\ \A w \in Worker : w \in Nat /\ End(w) \in Nat /\ pos[w] \in Nat
  <2>1. TypeInv /\ MutexInv
    BY DEF PoolInv
  <2>2. Main \notin Worker
    BY PoolAssumption DEF Worker, Main
  <2>3. \A w \in Worker : w \in Nat /\ End(w) \in Nat
    BY <2>1, Ranges
  <2> QED BY <2>1, <2>2, <2>3, PoolAssumption DEF TypeInv
<1>1. call' = call /\ \A w : End(w)' = End(w)
  BY Unmoved
<1>2. ASSUME UNCHANGED <<thread, mtx, pos>> PROVE MutexInv'
  BY <1>0, <1>1, <1>2 DEF MutexInv
<1>3. CASE Spawn
  <2>1. \A w \in Worker : thread'[w] = thread[w] \/ thread'[w] = "embedding"
    BY <1>0, <1>3 DEF Spawn, TypeInv
  <2>2. ASSUME mtx # Main PROVE thread'[mtx] \in Locking
    <3>1. mtx \in Worker /\ thread[mtx] \in Locking
      BY <1>0, <2>2 DEF MutexInv, TypeInv
    <3>2. mtx # next_spawn
      BY <1>0, <3>1 DEF PoolInv, SpawnInv, Locking
    <3> QED BY <1>0, <1>3, <3>1, <3>2 DEF Spawn, TypeInv
  <2>3. mtx' = mtx /\ pos' = pos
    BY <1>3 DEF Spawn
  <2> QED BY <1>0, <1>1, <2>1, <2>2, <2>3 DEF MutexInv, Locking
<1>4. CASE StopSpawning \/ MarkIdleLoad \/ MarkIdleStore \/ Collect \/ ReturnAll \/ UNCHANGED pool_vars
  BY <1>2, <1>4 DEF StopSpawning, MarkIdleLoad, MarkIdleStore, Collect, ReturnAll, pool_vars
<1>5. ASSUME NEW w \in Worker, EmbedBatch(w) PROVE MutexInv'
  <2>1. \A v \in Worker : pos'[v] >= pos[v]
    BY <1>0, <1>5 DEF EmbedBatch, TypeInv
  <2>2. ASSUME NEW v \in Worker, thread[v] \in Locking \cup {"finished"} PROVE pos'[v] >= End(v)'
    BY <1>0, <1>1, <1>5, <2>2 DEF EmbedBatch, TypeInv, MutexInv
  <2> QED BY <1>0, <1>1, <1>5, <2>2 DEF EmbedBatch, MutexInv
<1>6. ASSUME NEW w \in Worker, SetFuture(w) PROVE MutexInv'
  <2>1. thread[w] = "embedding" /\ pos[w] >= End(w) /\ thread'[w] = "finished"
    BY <1>0, <1>6 DEF SetFuture, TypeInv
  <2>2. \A v \in Worker : v # w => thread'[v] = thread[v]
    BY <1>0, <1>6 DEF SetFuture, TypeInv
  <2>3. mtx # w
    BY <1>0, <2>1 DEF MutexInv, Locking
  <2>4. mtx' = mtx /\ pos' = pos
    BY <1>6 DEF SetFuture
  <2> QED BY <1>0, <1>1, <2>1, <2>2, <2>3, <2>4 DEF MutexInv, Locking, TypeInv
<1>7. ASSUME NEW w \in Worker, LockAndLoad(w) PROVE MutexInv'
  <2>1. /\ thread[w] = "embedding" /\ pos[w] >= End(w) /\ thread'[w] = "marking"
        /\ mtx = Main /\ mtx' = w /\ pos' = pos /\ call = "embed_stream"
    BY <1>0, <1>7 DEF LockAndLoad, TypeInv
  <2>2. \A v \in Worker : v # w => thread'[v] = thread[v] /\ thread[v] \notin Locking
    BY <1>0, <1>7, <2>1 DEF LockAndLoad, TypeInv, MutexInv
  <2> QED BY <1>0, <1>1, <2>1, <2>2 DEF MutexInv, Locking
<1>8. ASSUME NEW w \in Worker, MarkDone(w) PROVE MutexInv'
  <2>1. /\ thread[w] = "marking" /\ thread'[w] = "draining" /\ mtx' = mtx /\ pos' = pos
        /\ \A v \in Worker : v # w => thread'[v] = thread[v]
    BY <1>0, <1>8 DEF MarkDone, TypeInv
  <2> QED BY <1>0, <1>1, <2>1 DEF MutexInv, Locking, TypeInv
<1>9. ASSUME NEW w \in Worker, Yield(w) PROVE MutexInv'
  BY <1>2, <1>9 DEF Yield
<1>10. ASSUME NEW w \in Worker, Unlock(w) PROVE MutexInv'
  <2>1. /\ thread[w] = "draining" /\ thread'[w] = "finished" /\ mtx' = Main /\ pos' = pos
        /\ \A v \in Worker : v # w => thread'[v] = thread[v]
    BY <1>0, <1>10 DEF Unlock, TypeInv
  <2>2. \A v \in Worker : v # w => thread[v] \notin Locking
    BY <1>0, <2>1 DEF MutexInv, Locking
  <2> QED BY <1>0, <1>1, <2>1, <2>2 DEF MutexInv, Locking
<1> QED BY <1>3, <1>4, <1>5, <1>6, <1>7, <1>8, <1>9, <1>10 DEF PoolNext

\* The word behind done stays exact.
LEMMA WordNext == PoolInv /\ [PoolNext]_pool_vars => WordInv'
<1> SUFFICES ASSUME PoolInv, [PoolNext]_pool_vars, NoIdle, call = "embed_stream"
             PROVE  /\ \A w \in Worker : w \in word' <=> thread'[w] \in {"draining", "finished"}
                    /\ \A w \in Worker : thread'[w] = "marking" => loaded'[w] = word'
                    /\ mtx' = Main => ~TurnIsDone'
  BY Unmoved DEF WordInv
<1>0. /\ TypeInv /\ MutexInv /\ PhaseInv /\ Main \notin Worker
      /\ \A w \in Worker : w \in word <=> thread[w] \in {"draining", "finished"}
      /\ \A w \in Worker : thread[w] = "marking" => loaded[w] = word
      /\ mtx = Main => ~TurnIsDone
  BY PoolAssumption DEF PoolInv, WordInv, Worker, Main
<1>1. ASSUME UNCHANGED <<thread, word, loaded, mtx, next_to_yield>>
      PROVE  /\ \A w \in Worker : w \in word' <=> thread'[w] \in {"draining", "finished"}
             /\ \A w \in Worker : thread'[w] = "marking" => loaded'[w] = word'
             /\ mtx' = Main => ~TurnIsDone'
  BY <1>0, <1>1 DEF TurnIsDone
<1>2. next_spawn < num_workers_ => HasTexts(next_spawn)
  BY <1>0, PoolAssumption DEF NoIdle, TypeInv, Worker
<1>3. ~MarkIdleLoad /\ ~MarkIdleStore /\ ~Collect
  BY <1>0, <1>2 DEF MarkIdleLoad, MarkIdleStore, Collect, PhaseInv, TypeInv
<1>4. CASE Spawn
  <2>1. ASSUME NEW w \in Worker
        PROVE  /\ thread'[w] \in {"draining", "finished"} <=> thread[w] \in {"draining", "finished"}
               /\ thread'[w] = "marking" => thread[w] = "marking"
    <3>1. CASE w = next_spawn
      <4>1. thread[w] = "none" /\ thread'[w] = "embedding"
        BY <1>0, <1>4, <3>1, Ranges DEF PoolInv, SpawnInv, Spawn, TypeInv
      <4> QED BY <4>1
    <3>2. CASE w # next_spawn
      BY <1>0, <1>4, <3>2 DEF Spawn, TypeInv
    <3> QED BY <3>1, <3>2
  <2> QED BY <1>0, <1>4, <2>1 DEF Spawn, TurnIsDone
<1>5. CASE StopSpawning \/ ReturnAll \/ UNCHANGED pool_vars
  BY <1>1, <1>5 DEF StopSpawning, ReturnAll, pool_vars
<1>6. ASSUME NEW w \in Worker, EmbedBatch(w)
      PROVE  UNCHANGED <<thread, word, loaded, mtx, next_to_yield>>
  BY <1>6 DEF EmbedBatch
<1>7. \A w \in Worker : ~SetFuture(w)
  BY DEF SetFuture
<1>8. ASSUME NEW w \in Worker, LockAndLoad(w)
      PROVE  /\ \A v \in Worker : v \in word' <=> thread'[v] \in {"draining", "finished"}
             /\ \A v \in Worker : thread'[v] = "marking" => loaded'[v] = word'
             /\ mtx' = Main => ~TurnIsDone'
  <2>1. /\ thread[w] = "embedding" /\ thread'[w] = "marking" /\ word' = word
        /\ loaded'[w] = word /\ mtx' = w
    BY <1>0, <1>8 DEF LockAndLoad, TypeInv
  <2>2. \A v \in Worker : v # w => thread'[v] = thread[v] /\ loaded'[v] = loaded[v]
    BY <1>0, <1>8 DEF LockAndLoad, TypeInv
  <2> QED BY <1>0, <2>1, <2>2
<1>9. ASSUME NEW w \in Worker, MarkDone(w)
      PROVE  /\ \A v \in Worker : v \in word' <=> thread'[v] \in {"draining", "finished"}
             /\ \A v \in Worker : thread'[v] = "marking" => loaded'[v] = word'
             /\ mtx' = Main => ~TurnIsDone'
  <2>1. /\ thread[w] = "marking" /\ thread'[w] = "draining" /\ word' = word \cup {w}
        /\ mtx' = mtx /\ mtx = w
    BY <1>0, <1>9 DEF MarkDone, MutexInv, Locking, TypeInv
  <2>2. \A v \in Worker : v # w => thread'[v] = thread[v] /\ thread[v] # "marking"
    BY <1>0, <1>9, <2>1 DEF MarkDone, MutexInv, Locking, TypeInv
  <2> QED BY <1>0, <2>1, <2>2
<1>10. ASSUME NEW w \in Worker, Yield(w)
       PROVE  /\ \A v \in Worker : v \in word' <=> thread'[v] \in {"draining", "finished"}
              /\ \A v \in Worker : thread'[v] = "marking" => loaded'[v] = word'
              /\ mtx' = Main => ~TurnIsDone'
  <2>1. mtx = w /\ UNCHANGED <<thread, word, loaded, mtx>>
    BY <1>0, <1>10 DEF Yield, MutexInv, Locking
  <2> QED BY <1>0, <2>1
<1>11. ASSUME NEW w \in Worker, Unlock(w)
       PROVE  /\ \A v \in Worker : v \in word' <=> thread'[v] \in {"draining", "finished"}
              /\ \A v \in Worker : thread'[v] = "marking" => loaded'[v] = word'
              /\ mtx' = Main => ~TurnIsDone'
  <2>1. /\ thread[w] = "draining" /\ thread'[w] = "finished" /\ ~TurnIsDone
        /\ UNCHANGED <<word, loaded, next_to_yield>>
        /\ \A v \in Worker : v # w => thread'[v] = thread[v]
    BY <1>0, <1>11 DEF Unlock, TypeInv
  <2>2. ~TurnIsDone'
    BY <2>1 DEF TurnIsDone
  <2> QED BY <1>0, <2>1, <2>2
<1> QED BY <1>1, <1>3, <1>4, <1>5, <1>6, <1>7, <1>8, <1>9, <1>10, <1>11 DEF PoolNext

-----------------------------------------------------------------------------
\* A worker whose turn has come is through its range.
LEMMA TurnIsThrough ==
  ASSUME PoolInv, call = "embed" \/ NoIdle,
         Collect \/ (\E v \in Worker : Yield(v))
  PROVE  /\ next_to_yield < num_workers_ /\ next_to_yield \in Worker
         /\ pos[next_to_yield] >= End(next_to_yield)
         /\ yielded' = yielded \o partial_results[next_to_yield]
         /\ next_to_yield' = next_to_yield + 1 /\ UNCHANGED <<pos, partial_results, failed>>
<1>0. TypeInv /\ MutexInv /\ WordInv
  BY DEF PoolInv
<1>1. next_to_yield < num_workers_ => next_to_yield \in Worker
  BY <1>0, PoolAssumption DEF TypeInv, Worker
<1>2. CASE Collect
  <2>1. next_to_yield < num_workers_
    BY <1>0, <1>2, PoolAssumption DEF Collect, TypeInv
  <2>2. thread[next_to_yield] = "finished"
    BY <1>2 DEF Collect
  <2> QED BY <1>0, <1>1, <1>2, <2>1, <2>2 DEF Collect, MutexInv
<1>3. CASE \E v \in Worker : Yield(v)
  <2>1. PICK v \in Worker : Yield(v)
    BY <1>3
  <2>2. call = "embed_stream" /\ next_to_yield < num_workers_ /\ next_to_yield \in word
    BY <1>0, <2>1 DEF Yield, TurnIsDone, MutexInv, Locking
  <2>3. thread[next_to_yield] \in {"draining", "finished"}
    BY <1>0, <1>1, <2>2 DEF WordInv
  <2> QED BY <1>0, <1>1, <2>1, <2>2, <2>3 DEF Yield, ResultsInTurn, MutexInv, Locking
<1> QED BY <1>2, <1>3

\* What has been gone through is accounted for.
LEMMA CoverNext == PoolInv /\ [PoolNext]_pool_vars => CoverInv'
<1> SUFFICES ASSUME PoolInv, [PoolNext]_pool_vars PROVE CoverInv'
  OBVIOUS
<1>0. TypeInv /\ CoverInv
  BY DEF PoolInv
<1>1. ASSUME UNCHANGED <<pos, partial_results, failed>>
      PROVE  \A w \in Worker, x \in Nat :
               Begin(w)' <= x /\ x < Reached(w)' => x \in failed' \/ Contains(partial_results'[w], x)
  BY <1>0, <1>1, Unmoved, ReachedStays DEF CoverInv
<1>2. ASSUME UNCHANGED <<yielded, next_to_yield>>, failed \subseteq failed',
             call' = "embed" \/ NoIdle'
      PROVE  \A x \in Nat : x < Begin(next_to_yield)' /\ x < total'
                            => x \in failed' \/ Contains(yielded', x)
  <2>1. Begin(next_to_yield)' = Begin(next_to_yield)
    BY <1>2, Unmoved DEF Begin
  <2> QED BY <1>0, <1>2, <2>1, Unmoved DEF CoverInv
<1>3. ASSUME UNCHANGED <<pos, partial_results, failed, yielded, next_to_yield>> PROVE CoverInv'
  BY <1>1, <1>2, <1>3 DEF CoverInv
<1>4. ASSUME NEW w \in Worker, EmbedBatch(w) PROVE CoverInv'
  <2>1. failed \subseteq failed' /\ UNCHANGED <<yielded, next_to_yield>>
    BY <1>4 DEF EmbedBatch
  <2>2. ASSUME NEW v \in Worker, NEW x \in Nat, Begin(v) <= x, x < Reached(v)'
        PROVE  x \in failed' \/ Contains(partial_results'[v], x)
    <3>1. CASE v # w
      <4>1. partial_results'[v] = partial_results[v]
        BY <1>0, <1>4, <3>1 DEF EmbedBatch, TypeInv
      <4> QED BY <1>0, <1>4, <2>1, <2>2, <3>1, <4>1, ReachedByBatch DEF CoverInv
    <3>2. CASE v = w
      <4>1. /\ Reached(w) = pos[w] /\ x < BatchEnd(w) /\ pos[w] \in Nat
            /\ partial_results[w] \in Seq(Nat)
        BY <1>0, <1>4, <2>2, <3>2, ReachedByBatch DEF TypeInv
      <4>2. /\ BatchTexts(w) \in Seq(Nat) /\ BatchEnd(w) \in Nat
            /\ pos[w] <= x => Contains(BatchTexts(w), x)
        BY <1>0, <1>4, <4>1, BatchOfWorker DEF EmbedBatch
      <4>3. x < pos[w] => x \in failed \/ Contains(partial_results[w], x)
        BY <1>0, <2>2, <3>2, <4>1 DEF CoverInv
      <4>4. CASE x < pos[w] /\ x \in failed
        BY <2>1, <4>4
      <4>5. CASE partial_results' = [partial_results EXCEPT ![w] = @ \o BatchTexts(w)] /\ x \notin failed
        <5>1. partial_results'[w] = partial_results[w] \o BatchTexts(w)
          BY <1>0, <4>5 DEF TypeInv
        <5>2. Contains(partial_results[w], x) \/ Contains(BatchTexts(w), x)
          BY <4>1, <4>2, <4>3, <4>5
        <5> QED BY <3>2, <4>1, <4>2, <5>1, <5>2, ContainsAppended
      <4>6. CASE /\ failed' = failed \cup (pos[w]..(BatchEnd(w) - 1))
                 /\ partial_results' = partial_results /\ x \notin failed
        <5>1. CASE x < pos[w]
          BY <3>2, <4>3, <4>6, <5>1
        <5>2. CASE pos[w] <= x
          <6>1. x \in pos[w]..(BatchEnd(w) - 1)
            BY <4>1, <4>2, <5>2
          <6> QED BY <4>6, <6>1
        <5> QED BY <4>1, <5>1, <5>2
      <4>7. CASE x \in failed
        BY <2>1, <4>7
      <4> QED BY <1>4, <4>5, <4>6, <4>7 DEF EmbedBatch
    <3> QED BY <3>1, <3>2
  <2>3. \A v \in Worker, x \in Nat :
          Begin(v)' <= x /\ x < Reached(v)' => x \in failed' \/ Contains(partial_results'[v], x)
    BY <2>2, Unmoved
  <2> QED BY <1>2, <2>1, <2>3 DEF CoverInv
<1>5. CASE Collect \/ (\E v \in Worker : Yield(v))
  <2>1. UNCHANGED <<pos, partial_results, failed>>
    BY <1>5 DEF Collect, Yield
  <2>2. ASSUME call' = "embed" \/ NoIdle', NEW x \in Nat,
               x < Begin(next_to_yield)', x < total'
        PROVE  x \in failed' \/ Contains(yielded', x)
    <3> DEFINE w == next_to_yield
    <3>1. call = "embed" \/ NoIdle
      BY <2>2, Unmoved
    <3>2. /\ w \in Worker /\ pos[w] >= End(w) /\ yielded' = yielded \o partial_results[w]
          /\ next_to_yield' = w + 1
      BY <1>5, <3>1, TurnIsThrough
    <3>3. x < Begin(w + 1) /\ x < total
      <4>1. Begin(next_to_yield)' = Begin(w + 1)
        BY <3>2, Unmoved DEF Begin
      <4> QED BY <2>2, <4>1, Unmoved
    <3>4. /\ Begin(w) \in Nat /\ End(w) \in Nat /\ pos[w] \in Nat
          /\ partial_results[w] \in Seq(Nat) /\ yielded \in Seq(Nat)
      BY <1>0, <3>2, Ranges DEF TypeInv
    <3>5. CASE x < Begin(w)
      <4>1. x \in failed \/ Contains(yielded, x)
        BY <1>0, <3>1, <3>3, <3>5 DEF CoverInv
      <4> QED BY <2>1, <3>2, <3>4, <4>1, ContainsAppended
    <3>6. CASE Begin(w) <= x
      <4>1. x < End(w)
        <5>1. Begin(w + 1) = Begin(w) + per_worker
          BY <1>0, <3>2, Ranges
        <5> QED BY <3>3, <5>1 DEF End
      <4>2. x < Reached(w)
        BY <3>2, <3>4, <4>1 DEF Reached
      <4>3. x \in failed \/ Contains(partial_results[w], x)
        BY <1>0, <3>2, <3>6, <4>2 DEF CoverInv
      <4> QED BY <2>1, <3>2, <3>4, <4>3, ContainsAppended
    <3> QED BY <3>4, <3>5, <3>6
  <2> QED BY <1>1, <2>1, <2>2 DEF CoverInv
<1>6. CASE Spawn \/ StopSpawning \/ MarkIdleLoad \/ MarkIdleStore \/ ReturnAll \/ UNCHANGED pool_vars
  BY <1>3, <1>6 DEF Spawn, StopSpawning, MarkIdleLoad, MarkIdleStore, ReturnAll, pool_vars
<1>7. ASSUME NEW w \in Worker, SetFuture(w) \/ LockAndLoad(w) \/ MarkDone(w) \/ Unlock(w)
      PROVE  CoverInv'
  BY <1>3, <1>7 DEF SetFuture, LockAndLoad, MarkDone, Unlock
<1> QED BY <1>4, <1>5, <1>6, <1>7 DEF PoolNext

\* The inductive invariant holds in every state.
LEMMA PoolAlways == PoolSpec => []PoolInv
<1>1. PoolInv /\ [PoolNext]_pool_vars => PoolInv'
  <2>1. PoolInv => TypeInv
    BY DEF PoolInv
  <2> QED BY <2>1, TypeNext, OrderNext, SpawnNext, PhaseNext, MutexNext, WordNext, CoverNext
          DEF PoolInv
<1> QED BY <1>1, PoolStarts, PTL DEF PoolSpec

-----------------------------------------------------------------------------
\* For every number of workers, texts and texts in a batch: embeddings come out
\* in the order of the texts and none of them twice, whichever thread yields
\* them, whatever fails, and whatever the race on done loses.
THEOREM AlwaysInTextOrder == PoolSpec => []InTextOrder
<1>1. PoolInv => InTextOrder
  BY DEF PoolInv, OrderInv, Ascending, InTextOrder
<1> QED BY <1>1, PoolAlways, PTL

\* For every number of workers, texts and texts in a batch: embed never loses
\* a text of a batch that did not fail, and embed_stream loses one only in a
\* call that leaves a worker without texts, whose element of done is written
\* without the mutex.
THEOREM LostBesideIdleWorkers == PoolSpec => []LostOnlyBesideIdleWorkers
<1>1. ASSUME PoolInv, call = "embed" \/ NoIdle, main = "returned", NEW x \in Text
      PROVE  Contains(yielded, x) \/ x \in failed
  <2>0. /\ TypeInv /\ PhaseInv /\ MutexInv /\ WordInv /\ CoverInv
        /\ num_workers_ \in Nat /\ x \in Nat /\ x < total /\ total \in Nat
    BY <1>1, PoolAssumption DEF PoolInv, TypeInv, Text
  <2>1. next_to_yield = num_workers_ \/ (next_to_yield \in Nat /\ ~HasTexts(next_to_yield))
    <3>1. CASE call = "embed"
      BY <1>1, <2>0, <3>1 DEF PhaseInv, AllSpawned, TypeInv
    <3>2. CASE call = "embed_stream"
      <4>1. /\ NoIdle /\ next_spawn = num_workers_
            /\ \A w \in Worker : thread[w] \in {"none", "finished"}
        BY <1>1, <2>0, <3>2 DEF PhaseInv
      <4>2. \A w \in Worker : w < num_workers_ /\ w \in Nat
        BY <2>0 DEF Worker
      <4>3. \A w \in Worker : thread[w] = "finished"
        BY <2>0, <4>1, <4>2 DEF PhaseInv, NoIdle
      <4>4. mtx = Main
        BY <2>0, <4>3 DEF MutexInv, Locking, TypeInv
      <4>5. ~TurnIsDone /\ \A w \in Worker : w \in word
        BY <2>0, <3>2, <4>1, <4>3, <4>4 DEF WordInv
      <4>6. next_to_yield < num_workers_ => next_to_yield \in Worker
        BY <2>0 DEF TypeInv, Worker
      <4> QED BY <2>0, <4>5, <4>6 DEF TurnIsDone, TypeInv
    <3> QED BY <2>0, <3>1, <3>2 DEF TypeInv
  <2>2. Begin(next_to_yield) >= total /\ Begin(next_to_yield) \in Nat
    BY <2>0, <2>1, RangesSuffice, NothingBehind, Ranges
  <2> QED BY <1>1, <2>0, <2>2 DEF CoverInv
<1>2. PoolInv => LostOnlyBesideIdleWorkers
  BY <1>1 DEF LostOnlyBesideIdleWorkers, MissingOnlyIfFailed, NoIdle
<1> QED BY <1>2, PoolAlways, PTL
=============================================================================
