---------------------------- MODULE ModelOutputs ----------------------------
(***************************************************************************)
(* What the reranker, the sparse and the image contexts make of the output *)
(* of their model: pure functions of flat tensors.  Items are numbered     *)
(* from 1; a cell of a tensor says whose it is.                            *)
(***************************************************************************)
EXTENDS Integers, SequencesExt

CONSTANT MaxInt    \* the largest int, 2^31 - 1 in the builds there are

ASSUME MaxIntAssumption == MaxInt \in Nat

-----------------------------------------------------------------------------
(***************************************************************************)
(* Tensors.  A model answers a batch with items.item cells for each item,  *)
(* the last dimension of the shape being items.last (the same for a plain  *)
(* [batch, last] output, smaller for a [batch, sequence, last] one).       *)
(***************************************************************************)
Cell(item, place)     == [item |-> item, place |-> place]
Beyond                == [item |-> 0, place |-> 0]  \* past the end of a buffer
At(flat, k)           == IF k \in DOMAIN flat THEN flat[k] ELSE Beyond

Tensor(items, shape) ==
  [k \in 1..(Len(items) * shape.item) |->
     Cell(items[((k - 1) \div shape.item) + 1], ((k - 1) % shape.item) + 1)]

\* Where a number stands among those of a finite set, and the set in order.
Rank(S, v) == Cardinality({u \in S : u <= v})
Ascending(S) == [r \in 1..Cardinality(S) |-> CHOOSE v \in S : Rank(S, v) = r]

-----------------------------------------------------------------------------
(***************************************************************************)
(* Sparse vectors.  Weights stand for log(1 + weight): the logarithm keeps *)
(* the order and the sign.                                                 *)
(***************************************************************************)
\* Mutant: padding counts like any other token.
TermScoreUnmasked(row, v) == Max({0} \union {row.output[s][v] : s \in DOMAIN row.output})

\* The largest positive activation of term v over the tokens of the text.
TermScore(row, v) ==
  Max({0} \union {row.output[s][v] : s \in {s \in DOMAIN row.mask : row.mask[s] # 0}})

splade_postprocess(row, Vocab) ==
  LET terms == Ascending({v \in Vocab : TermScore(row, v) > 0})
  IN  [indices |-> terms, values |-> [i \in DOMAIN terms |-> TermScore(row, terms[i])]]

-----------------------------------------------------------------------------
(***************************************************************************)
(* Ranking.                                                                *)
(***************************************************************************)
\* The first cell of each row, found with the last dimension as the stride.
FirstCells(flat, n, shape) == [i \in 1..n |-> At(flat, (i - 1) * shape.last + 1)]

\* The orders std::sort may leave: scores descending, ties in any order.
Descending(scores) ==
  {p \in [DOMAIN scores -> DOMAIN scores] :
     /\ IsInjective(p)
     /\ \A i, j \in DOMAIN scores : i < j => scores[p[i]] >= scores[p[j]]}

-----------------------------------------------------------------------------
(***************************************************************************)
(* Images.                                                                 *)
(***************************************************************************)
\* Every cell of the first n rows of width d, with the row it was scaled by.
l2_normalize(flat, n, d) ==
  [k \in DOMAIN flat |->
     [cell |-> flat[k],
      norm |-> IF k <= n * d THEN {At(flat, j) : j \in {j \in 1..(n * d) : (j - 1) \div d = (k - 1) \div d}}
               ELSE {}]]

\* memcpy of n rows of width d from the start of the tensor.
CopiedRows(flat, n, d) == [i \in 1..n |-> [j \in 1..d |-> At(flat, (i - 1) * d + j)]]

\* Mutant: the longer side is resized to the target.
ResizedLonger(w, h, target_size) ==
  IF w < h THEN [w |-> (w * target_size) \div h, h |-> target_size]
  ELSE [w |-> target_size, h |-> (h * target_size) \div w]

\* The shorter side becomes target_size, the other keeps the aspect ratio and
\* is truncated to whole pixels.  (The code divides in float: a side may come
\* out a pixel longer or shorter than this, but never below target_size.)
Resized(w, h, target_size) ==
  IF w < h THEN [w |-> target_size, h |-> (h * target_size) \div w]
  ELSE [w |-> (w * target_size) \div h, h |-> target_size]

\* What is left of a natural number in an int, as the builds wrap it.
Narrowed(n) ==
  IF n <= MaxInt THEN n ELSE ((n + MaxInt + 1) % (2 * (MaxInt + 1))) - (MaxInt + 1)

\* The pixels rgb_to_chw_float reads of the resized image, and the bytes that
\* are allocated for it, reckoned as an int; the vector throws when negative.
Window(size, target_size) ==
  [x |-> (size.w - target_size) \div 2, y |-> (size.h - target_size) \div 2,
   side |-> target_size, of |-> size, bytes |-> Narrowed(size.w * size.h * 3)]

\* The pixels read are of the image, and the image has room for all it gets.
Inside(window) ==
  /\ window.x >= 0 /\ window.x + window.side <= window.of.w
  /\ window.y >= 0 /\ window.y + window.side <= window.of.h
  /\ window.of.w * window.of.h * 3 <= window.bytes

preprocess_image_to_buffer(image, target_size) ==
  Window(Resized(image.w, image.h, target_size), target_size)

preprocess_image_bytes_to_buffer(image, target_size) ==
  Window(Resized(image.w, image.h, target_size), target_size)
=============================================================================
