--------------------------- MODULE ModelWrappers ---------------------------
(***************************************************************************)
(* The C++ classes RerankerModel, SparseEmbeddingModel and                 *)
(* ImageEmbeddingModel (cpp/*_model.hpp) over the C API of ModelContexts,  *)
(* and a C caller that frees its result whatever the status, as the        *)
(* benchmarks of the autotuner do.  One thread; the objects of a behaviour *)
(* are of one class.  A call and what its caller then does with the result *)
(* are two steps.                                                          *)
(*                                                                         *)
(* Two things the C++ classes lack are done as their Python counterparts   *)
(* do them: RerankerModel has no way to a .gguf file (reranker.py:84), and *)
(* SparseEmbeddingModel::embed does not compile, for it passes five of six *)
(* arguments (sparse_text_embedding.py:128 passes no options).  Both check *)
(* the status and free the result as the C++ classes do.                   *)
(***************************************************************************)
EXTENDS ModelContexts

CONSTANTS
  Owner,           \* C++ objects
  Addr,           \* addresses of contexts
  Calls,          \* the sequences of documents passed
  BatchSizes,     \* the batch sizes passed
  MaxCalls,       \* bound on C calls
  Free, Unbuilt

ASSUME CallsAssumption ==
  BatchSizes \subseteq Int /\ \A docs \in Calls : docs \in Seq(Doc)

\* Markers are no addresses and no contexts.
ASSUME MarkersAssumption ==
  /\ None \notin Addr /\ Unbuilt \notin Addr /\ None # Unbuilt
  /\ None \notin ContextState /\ Free \notin ContextState

VARIABLES
  class,          \* the class of the objects
  ctx,            \* [Addr -> context, or Free]
  ctx_,           \* [Owner -> Addr, None after close or a move, or Unbuilt]
  error_buf,      \* number of the C call that wrote the error message last
  issued,         \* number of C calls made
  abandoned,      \* history: contexts left behind by a creation that threw
  orphans,        \* ORT objects nobody owns
  thrown,         \* history: whether a call or a creation threw
  pending,        \* the C call whose result the caller holds, or None
  harm            \* history: leaks and faults, with whether malloc had failed

vars == <<class, ctx, ctx_, error_buf, issued, abandoned, orphans, thrown,
          pending, harm>>

Live    == {a \in Addr : ctx[a] # Free}
Context(o) == IF ctx_[o] \in Addr THEN ctx[ctx_[o]] ELSE None

Init ==
  /\ class \in {"Reranker", "Sparse", "Image"}
  /\ ctx = [a \in Addr |-> Free]
  /\ ctx_ = [o \in Owner |-> Unbuilt]
  /\ error_buf = 0
  /\ issued = 0
  /\ abandoned = {}
  /\ orphans = 0
  /\ thrown = FALSE
  /\ pending = None
  /\ harm = {}

-----------------------------------------------------------------------------
\* The C call made, its message if it wrote one, and what it orphaned.
Made(outcome) ==
  /\ issued < MaxCalls
  /\ issued' = issued + 1
  /\ error_buf' = IF outcome.says THEN issued' ELSE error_buf
  /\ orphans' = orphans + outcome.orphans
  /\ thrown' = (thrown \/ outcome.says)

\* A registered model by its name; otherwise a path that exists, a .gguf file
\* by the Python class only.  (A name that is neither makes no C call:
\* invalid_argument.)
RerankerModel(name, options, config) ==
  IF name = "registered" THEN lembed_reranker_create(options)
  ELSE IF name = "gguf" THEN lembed_reranker_create_from_gguf_path(options)
  ELSE lembed_reranker_create_from_path(config, options)

SparseEmbeddingModel(name, options, config) ==
  IF name = "registered" THEN lembed_sparse_text_embedding_create(options)
  ELSE lembed_sparse_text_embedding_create_from_path(config, options)

\* The path first: a directory with the name of a model goes before the model.
ImageEmbeddingModel(name, options, config) ==
  IF name = "directory" THEN lembed_image_embedding_create_from_path(config, options)
  ELSE lembed_image_embedding_create(options)

Creations(name, options, config) ==
  CASE class = "Reranker" -> RerankerModel(name, options, config)
    [] class = "Sparse"   -> SparseEmbeddingModel(name, options, config)
    [] class = "Image"    -> ImageEmbeddingModel(name, options, config)

\* A constructor: check_status throws out of it when there is no context.
Construct(o) ==
  /\ ctx_[o] = Unbuilt
  /\ pending = None
  /\ \E name \in {"registered", "directory"} \union (IF class = "Reranker" THEN {"gguf"} ELSE {}) :
     \E options \in Options, config \in Configs :
     \E outcome \in Creations(name, options, config) :
        /\ Made(outcome)
        /\ IF outcome.context = None
           THEN UNCHANGED <<ctx, ctx_, abandoned>>
           ELSE \E a \in Addr \ Live :
                /\ ctx' = [ctx EXCEPT ![a] = outcome.context]
                /\ ctx_' = IF outcome.made THEN [ctx_ EXCEPT ![o] = a] ELSE ctx_
                /\ abandoned' = IF outcome.made THEN abandoned ELSE abandoned \union {a}
  /\ UNCHANGED <<class, pending, harm>>

Closed(o) == IF ctx_[o] \in Addr THEN [ctx EXCEPT ![ctx_[o]] = Free] ELSE ctx

close(o) ==
  /\ ctx_[o] # Unbuilt /\ pending = None
  /\ ctx' = Closed(o)
  /\ ctx_' = [ctx_ EXCEPT ![o] = None]
  /\ UNCHANGED <<class, error_buf, issued, abandoned, orphans, thrown, pending, harm>>

Destroy(o) ==
  /\ ctx_[o] # Unbuilt /\ pending = None
  /\ ctx' = Closed(o)
  /\ ctx_' = [ctx_ EXCEPT ![o] = Unbuilt]
  /\ UNCHANGED <<class, error_buf, issued, abandoned, orphans, thrown, pending, harm>>

\* Mutant: the source of a move keeps its handle.
Moved_both(o, other) == [ctx_ EXCEPT ![o] = ctx_[other]]

Moved(o, other) == [ctx_ EXCEPT ![o] = ctx_[other], ![other] = None]

MoveConstruct(o, other) ==
  /\ ctx_[o] = Unbuilt /\ ctx_[other] # Unbuilt /\ pending = None
  /\ ctx_' = Moved(o, other)
  /\ UNCHANGED <<class, ctx, error_buf, issued, abandoned, orphans, thrown, pending, harm>>

MoveAssign(o, other) ==
  /\ ctx_[o] # Unbuilt /\ ctx_[other] # Unbuilt /\ pending = None
  /\ o # other                       \* this != &other
  /\ ctx' = Closed(o)
  /\ ctx_' = Moved(o, other)
  /\ UNCHANGED <<class, error_buf, issued, abandoned, orphans, thrown, pending, harm>>

-----------------------------------------------------------------------------
Methods == CASE class = "Reranker" -> {"rerank"}
             [] class = "Sparse"   -> {"embed"}
             [] class = "Image"    -> {"embed_files", "embed_bytes"}

Outcomes(method, c, docs, bs) ==
  CASE method = "rerank"      -> lembed_reranker_rerank(c, docs, bs)
    [] method = "embed"       -> lembed_sparse_text_embedding_embed(c, docs, bs)
    [] method = "embed_files" -> lembed_image_embedding_embed_files(c, docs, bs)
    [] method = "embed_bytes" -> lembed_image_embedding_embed_bytes(c, docs, bs)

\* The C function: counters are advanced on success only.
Call(o, by) ==
  /\ ctx_[o] # Unbuilt /\ pending = None
  /\ \E method \in Methods, docs \in Calls, bs \in BatchSizes :
     \E outcome \in Outcomes(method, Context(o), docs, bs) :
        /\ Made(outcome)
        /\ pending' = [by |-> by, method |-> method, docs |-> docs, context |-> Context(o),
                       status |-> outcome.status, result |-> outcome.result, oom |-> outcome.oom]
        /\ IF ctx_[o] \in Addr
           THEN ctx' = [ctx EXCEPT ![ctx_[o]].texts_embedded = @ + outcome.texts,
                                   ![ctx_[o]].batches_run = @ + outcome.batches]
           ELSE UNCHANGED ctx
  /\ UNCHANGED <<class, ctx_, abandoned, harm>>

\* Reading every item of the result; an item without its arrays is read all
\* the same.
ReadFaults(result) ==
  \/ Len(result.items) < result.count
  \/ pending.method = "embed" /\ \E i \in DOMAIN result.items :
       Len(result.items[i].values) < Len(result.items[i].indices)

Harm(kind) == [kind |-> kind, oom |-> pending.oom]

\* The wrapper, in C++ or Python: check_status throws on an error and leaves
\* the struct as it is; otherwise the items are copied and the struct freed,
\* also when the copy throws.
Return ==
  /\ pending # None /\ pending.by = "wrapper"
  /\ harm' = harm \union
       (IF pending.status # "OK"
        THEN (IF pending.result.held THEN {Harm("leak")} ELSE {})
        ELSE (IF ReadFaults(pending.result) THEN {Harm("fault")} ELSE {}))
  /\ pending' = None
  /\ UNCHANGED <<class, ctx, ctx_, error_buf, issued, abandoned, orphans, thrown>>

\* The C caller: the struct is freed without a look at the status.  The free of
\* a sparse result walks count items.
Discard ==
  /\ pending # None /\ pending.by = "C"
  /\ harm' = harm \union
       (IF /\ pending.method = "embed"
           /\ Len(pending.result.items) < pending.result.count
        THEN {Harm("fault")} ELSE {})
  /\ pending' = None
  /\ UNCHANGED <<class, ctx, ctx_, error_buf, issued, abandoned, orphans, thrown>>

Next ==
  \/ \E o \in Owner : Construct(o) \/ close(o) \/ Destroy(o)
  \/ \E o, other \in Owner : MoveConstruct(o, other) \/ MoveAssign(o, other)
  \/ \E o \in Owner, by \in {"wrapper", "C"} : Call(o, by)
  \/ Return
  \/ Discard

Spec == Init /\ [][Next]_vars

-----------------------------------------------------------------------------
Succeeded(method) == pending # None /\ pending.status = "OK" /\ pending.method = method

\* A live context that no failed creation abandoned has exactly one owner, and
\* a freed one none, through every construction, move, close and destruction.
OneOwnerEach ==
  \A a \in Addr : Cardinality({o \in Owner : ctx_[o] = a})
                    = IF a \in Live \ abandoned THEN 1 ELSE 0

\* A reranking lists every document once, best first, each with its own score
\* and not that of its neighbour in the batch, when the model gives one row of
\* labels per document.  (A model with a sequence dimension breaks this.)
RankingOwnScores ==
  Succeeded("rerank") =>
    LET items == pending.result.items
        whole == pending.context.shape.item = pending.context.shape.last
    IN  /\ Range([r \in DOMAIN items |-> items[r].index]) = DOMAIN pending.docs
        /\ \A r \in DOMAIN items :
             /\ r > 1 => items[r - 1].score >= items[r].score
             /\ (whole \/ pending.context.backend = "LLAMACPP")
                  => items[r].score = Score[pending.docs[items[r].index]]

\* A sparse vector holds, in order, exactly the terms some token of its own
\* text activates, with the largest activation, wherever the text stood in its
\* batch and however much the batch was padded.
SparseOwnTerms ==
  (Succeeded("embed") /\ ~pending.oom) =>
    \A i \in DOMAIN pending.docs :
      LET d == pending.docs[i]
          own == 1..TokensOf(pending.context, d)
          item == pending.result.items[i]
      IN  /\ \A v \in Vocab : (\E s \in own : Activation[d][s][v] > 0)
                              <=> v \in Range(item.indices)
          /\ \A k \in DOMAIN item.indices :
               /\ k > 1 => item.indices[k - 1] < item.indices[k]
               /\ \E s \in own : Activation[d][s][item.indices[k]] = item.values[k]
               /\ \A s \in own : Activation[d][s][item.indices[k]] <= item.values[k]

\* An image's row holds its own components, all scaled by the norm of its own
\* vector, when the model answers vectors of the context's dimension.
ImageRowsOwn ==
  /\ Succeeded("embed_files") \/ Succeeded("embed_bytes")
  /\ pending.context.shape = [item |-> pending.context.dim, last |-> pending.context.dim]
  => \A i \in DOMAIN pending.docs, j \in 1..pending.context.dim :
        pending.result.items[i].row[j] =
          [cell |-> Cell(i, j), norm |-> {Cell(i, k) : k \in 1..pending.context.dim}]

\* One side of a picture is at most MaxInt / (3 * TargetSize^2) times the other,
\* 14,266 times in the code.
Moderate(picture) ==
  /\ 3 * TargetSize * TargetSize * picture.w <= MaxInt * picture.h
  /\ 3 * TargetSize * TargetSize * picture.h <= MaxInt * picture.w

\* The pixels read of a resized image are inside it, and it was allocated in
\* full, for every picture whose proportions are moderate.  (Of others the
\* size wraps, and the resizing writes beyond what was allocated.)
CropsInside ==
  (Succeeded("embed_files") \/ Succeeded("embed_bytes")) =>
    \A i \in DOMAIN pending.docs :
      Moderate(Picture[pending.docs[i]]) => Inside(pending.result.items[i].window)

\* Result structs are freed once and never read where they are empty, by
\* callers that check the status and by callers that do not, except after a
\* failed allocation.
ResultMemory == \A h \in harm : h.oom

\* Only an operation that threw leaves ORT objects behind.
OrphansOnlyFromThrows == orphans > 0 => thrown

=============================================================================
