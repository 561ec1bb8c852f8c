--------------------------- MODULE ModelContexts ---------------------------
(***************************************************************************)
(* The C API of the reranker (reranker.h, detail/reranker_llama_impl.hpp), *)
(* the sparse embedder (sparse_text_embedding.h) and the image embedder    *)
(* (image_embedding.h): creation, the calls, the caller's result structs.  *)
(*                                                                         *)
(* Every function is a set of outcomes: what it returns, what it leaves in *)
(* the caller's struct, whether it wrote the thread's error message, and   *)
(* what it leaks when something it calls throws.  A document is known by   *)
(* its place in the call; of its content only what the model makes of it   *)
(* is kept.  An image is a document with a size that stb can read or not.  *)
(***************************************************************************)
EXTENDS Batches, ModelOutputs, OnnxSession, FiniteSets

CONSTANTS
  Doc,            \* the documents there are
  Score,          \* Doc -> Int: the reranker's score beside a query
  Activation,     \* Doc -> sequence over tokens of [Vocab -> Int]
  PadActivation,  \* what the model computes on a padding token
  Vocab,
  Picture,        \* Doc -> [w, h, readable]
  TargetSize,     \* 224 in the code
  Shapes,         \* the output shapes of the models at hand
  Info,           \* [max_tokens, dim] of a registered model
  Configs,        \* [max_len, dim] of a directory, 0 where it does not say
  Options,        \* [batch_size, max_length, dim] of the caller
  LEMBED_DEFAULT_BATCH_SIZE, LEMBED_DEFAULT_MAX_LENGTH,
  None

ASSUME SizesAssumption ==
  /\ TargetSize \in Nat \ {0}
  /\ \A d \in Doc : Picture[d].w \in Nat \ {0} /\ Picture[d].h \in Nat \ {0}
  /\ LEMBED_DEFAULT_BATCH_SIZE \in Nat \ {0}
  /\ LEMBED_DEFAULT_MAX_LENGTH \in Nat \ {0}

ASSUME ArgumentsAssumption ==
  /\ Info.max_tokens \in Int /\ Info.dim \in Int
  /\ \A config \in Configs : config.max_len \in Int /\ config.dim \in Int
  /\ \A options \in Options :
       options.batch_size \in Int /\ options.max_length \in Int /\ options.dim \in Int

\* What the models compute is a number.
ASSUME ActivationAssumption ==
  /\ IsFiniteSet(Vocab) /\ \A v \in Vocab : v \in Int
  /\ Activation \in [Doc -> Seq([Vocab -> Int])]

\* A model answers something.
ASSUME ShapesAssumption ==
  \A shape \in Shapes : shape.item \in Nat \ {0} /\ shape.last \in Nat \ {0}

\* lembed_reranker, lembed_sparse_text_embedding and lembed_image_embedding.
ContextState ==
  [backend : {"ONNX", "LLAMACPP"}, max_length : Int, dim : Int,
   batch_size : Nat \ {0}, shape : Shapes, texts_embedded : Int, batches_run : Int]

OneOf(a, b) == IF a > 0 THEN a ELSE b

-----------------------------------------------------------------------------
(***************************************************************************)
(* Creation.  context: what new made; made: whether the caller got it;     *)
(* says: whether set_error was called; orphans: ORT objects nobody owns.   *)
(***************************************************************************)
Refused(status, says) ==
  [status |-> status, context |-> None, made |-> FALSE, says |-> says, orphans |-> 0]

Fresh(backend, max_length, options, dim) ==
  {[backend |-> backend, max_length |-> max_length, dim |-> dim,
    batch_size |-> OneOf(options.batch_size, LEMBED_DEFAULT_BATCH_SIZE),
    shape |-> shape, texts_embedded |-> 0, batches_run |-> 0] : shape \in Shapes}

\* A context that is complete, or abandoned when the session or the tokenizer
\* throws (the latter leaves no ORT object, like a throw at the first step):
\* there is no delete in the catch clause.  The session object itself stays
\* with the context.
Opened(contexts, load, failure) ==
  LET left(objects) == Cardinality(objects \ {SESSION}) IN
  UNION {{[status |-> "OK", context |-> c, made |-> TRUE, says |-> FALSE,
           orphans |-> left(LeftBehind(load))]}
         \union {[status |-> failure, context |-> c, made |-> FALSE, says |-> TRUE,
                  orphans |-> left(Orphans(load, k))] : k \in ThrowPoints(load)}
        : c \in contexts}

\* The enumerator is out of range (no message), or the download failed.
RegistryRefusals == {Refused("INVALID_ARGUMENT", FALSE), Refused("DOWNLOAD", TRUE)}

lembed_reranker_create(options) ==
  RegistryRefusals \union
  Opened(Fresh("ONNX", OneOf(options.max_length, Info.max_tokens), options, 0),
         load_from_file(1, 2, 1), "ONNX_RUNTIME")

lembed_sparse_text_embedding_create(options) ==
  RegistryRefusals \union
  Opened(Fresh("ONNX", OneOf(options.max_length, Info.max_tokens), options, 0),
         load_from_file(1, 2, 1), "ONNX_RUNTIME")

lembed_image_embedding_create(options) ==
  RegistryRefusals \union
  Opened(Fresh("ONNX", 0, options, Info.dim), load_from_file(1, 1, 1), "ONNX_RUNTIME")

\* A missing model.onnx or tokenizer.json throws before anything is allocated.
Unreadable == Refused("IO", TRUE)

\* config.json goes before the options.
LocalMaxLength(config, options) ==
  OneOf(config.max_len, OneOf(options.max_length, LEMBED_DEFAULT_MAX_LENGTH))

lembed_reranker_create_from_gguf_path(options) ==
  Opened(Fresh("LLAMACPP", OneOf(options.max_length, 512), options, 0), <<Use>>, "LLAMA")

\* The branch for a .gguf file is never taken: lembed__path_ends_with_gguf
\* compares the last four characters with five and holds of no path.  Such a
\* file is taken for a directory, and is Unreadable.
lembed_reranker_create_from_path(config, options) ==
  {Unreadable} \union
  Opened(Fresh("ONNX", LocalMaxLength(config, options), options, 0),
         load_from_memory(1, 2, 1), "IO")

lembed_sparse_text_embedding_create_from_path(config, options) ==
  {Unreadable} \union
  Opened(Fresh("ONNX", LocalMaxLength(config, options), options, 0),
         load_from_memory(1, 2, 1), "IO")

lembed_image_embedding_create_from_path(config, options) ==
  LET dim == OneOf(config.dim, options.dim)
  IN  {Unreadable} \union
      IF dim = 0 THEN {Refused("INVALID_ARGUMENT", TRUE)}
      ELSE Opened(Fresh("ONNX", 0, options, dim), load_from_memory(1, 1, 1), "IO")

-----------------------------------------------------------------------------
(***************************************************************************)
(* Calls.  result: the caller's struct afterwards, with held telling       *)
(* whether it owns memory and an array of no elements for a null pointer;  *)
(* texts and batches: what the counters gain; oom: whether an allocation   *)
(* failed on the way.                                                      *)
(***************************************************************************)
Empty == [count |-> 0, items |-> <<>>, held |-> FALSE]

Failed(status, says, result, orphans) ==
  [status |-> status, says |-> says, result |-> result, orphans |-> orphans,
   texts |-> 0, batches |-> 0, oom |-> status = "OUT_OF_MEMORY"]

Served(result, texts, batches, oom, steps) ==
  [status |-> "OK", says |-> FALSE, result |-> result,
   orphans |-> batches * Cardinality(LeftBehind(steps)),
   texts |-> texts, batches |-> batches, oom |-> oom]

Rejected == Failed("INVALID_ARGUMENT", FALSE, Empty, 0)
Absent(c, docs) == c = None \/ docs = <<>>

\* Any ORT call throws; the tokenizer and the decoder of an image do before
\* the first one.
Thrown(steps, status, result) ==
  {Failed(status, TRUE, result, Cardinality(Orphans(steps, k))) : k \in ThrowPoints(steps)}

\* Mutant: a failed call leaves what it had allocated.
KeptSparse(result) == result

\* The arrays of every item, the items, and the struct set to zero.
lembed_sparse_embeddings_free(result) == Empty

\* Mutant: every batch writes its scores from the start.
OnnxScoresRestarted(c, docs, bs) ==
  LET last == get_batch(batch_count(Len(docs), bs) - 1, Len(docs), bs)
  IN  [i \in DOMAIN docs |-> IF i <= Cardinality(last) THEN Score[docs[Ascending(last)[i]]] ELSE 0]

\* The score each document is given, batch by batch.  A cell that is not the
\* first of its document holds something else, 0 here.
OnnxScores(c, docs, bs) ==
  [i \in DOMAIN docs |->
     LET rows == BatchOf(i, Len(docs), bs)
         flat == Tensor(Ascending(rows), c.shape)
         cell == FirstCells(flat, Cardinality(rows), c.shape)[Rank(rows, i)]
     IN  IF cell.place = 1 THEN Score[docs[cell.item]] ELSE 0]

\* One pair at a time through the session, whatever the batch size.
lembed__llama_rerank(docs) == [i \in DOMAIN docs |-> Score[docs[i]]]

lembed_reranker_rerank(c, docs, batch_size) ==
  IF Absent(c, docs) THEN {Rejected}
  ELSE LET bs     == OneOf(batch_size, c.batch_size)
           steps  == IF c.backend = "LLAMACPP" THEN <<Use>> ELSE run(TRUE, TRUE, 1)
           scores == IF c.backend = "LLAMACPP" THEN lembed__llama_rerank(docs)
                     ELSE OnnxScores(c, docs, bs)
           ranked(p) == [count |-> Len(docs), held |-> TRUE,
                         items |-> [r \in DOMAIN docs |-> [index |-> p[r], score |-> scores[p[r]]]]]
       IN  {Served(ranked(p), Len(docs), batch_count(Len(docs), bs), FALSE, steps) : p \in Descending(scores)}
           \union {Failed("OUT_OF_MEMORY", FALSE, [Empty EXCEPT !.count = Len(docs)], 0)}
           \union Thrown(steps, "ONNX_RUNTIME", Empty)

-----------------------------------------------------------------------------
TokensOf(c, d) == IF Len(Activation[d]) < c.max_length THEN Len(Activation[d]) ELSE c.max_length

\* What the session makes of text i of a batch: the batch is padded to its
\* longest text, and the mask marks the tokens that are the text's own.
BatchRow(c, docs, rows, i) ==
  LET seq_len == Max({TokensOf(c, docs[j]) : j \in rows})
      own(s)  == s <= TokensOf(c, docs[i])
  IN  [output |-> [s \in 1..seq_len |-> IF own(s) THEN Activation[docs[i]][s] ELSE PadActivation],
       mask   |-> [s \in 1..seq_len |-> IF own(s) THEN 1 ELSE 0]]

SparseItems(c, docs, bs) ==
  [i \in DOMAIN docs |->
     splade_postprocess(BatchRow(c, docs, BatchOf(i, Len(docs), bs), i), Vocab)]

\* A vector whose malloc failed keeps its length: status OK all the same.
Unfilled(item) == [item EXCEPT !.values = <<>>]

lembed_sparse_text_embedding_embed(c, docs, batch_size) ==
  IF Absent(c, docs) THEN {Rejected}
  ELSE LET bs    == OneOf(batch_size, c.batch_size)
           steps == run(TRUE, TRUE, 1)
           items == SparseItems(c, docs, bs)
           filled(bad) == [count |-> Len(docs), held |-> TRUE,
                           items |-> [i \in DOMAIN docs |-> IF i = bad THEN Unfilled(items[i]) ELSE items[i]]]
           result == [count |-> Len(docs), held |-> TRUE, items |-> items]
       IN  {Served(filled(bad), Len(docs), batch_count(Len(docs), bs), bad # 0, steps) : bad \in 0..Len(docs)}
           \union {Failed("OUT_OF_MEMORY", FALSE, [Empty EXCEPT !.count = Len(docs)], 0)}
           \union Thrown(steps, "ONNX_RUNTIME", lembed_sparse_embeddings_free(result))

-----------------------------------------------------------------------------
\* The rows one batch of images adds to the result, normalised by rows of
\* width d and copied by rows of the context's dimension.
ImageRows(c, rows, d) ==
  CopiedRows(l2_normalize(Tensor(Ascending(rows), c.shape), Cardinality(rows), d), Cardinality(rows), c.dim)

\* Mutant: the offset into the result is not advanced.
AllImageRowsRestarted(c, docs, bs, d) ==
  FlattenSeq([b \in 1..batch_count(Len(docs), bs) |->
                ImageRows(c, get_batch(0, Len(docs), bs), d)])

AllImageRows(c, docs, bs, d) ==
  FlattenSeq([b \in 1..batch_count(Len(docs), bs) |->
                ImageRows(c, get_batch(b - 1, Len(docs), bs), d)])

\* The struct after an error: the data is freed, the counts stay.
Voided(docs) == [count |-> Len(docs), items |-> <<>>, held |-> FALSE]

ImageCall(c, docs, batch_size, d, windows, counted) ==
  LET bs    == OneOf(batch_size, c.batch_size)
      steps == run_float(1)
      n     == batch_count(Len(docs), bs)
      rows  == [count |-> Len(docs), held |-> TRUE, items |-> AllImageRows(c, docs, bs, d)]
      done  == Served([rows EXCEPT !.items = [i \in DOMAIN docs |-> [row |-> @[i], window |-> windows[i]]]],
                      Len(docs), n, FALSE, steps)
  IN  (IF \A i \in DOMAIN docs : Picture[docs[i]].readable /\ windows[i].bytes >= 0
       THEN {IF counted THEN done ELSE [done EXCEPT !.texts = 0, !.batches = 0]} ELSE {})
      \union {Failed("OUT_OF_MEMORY", FALSE, Voided(docs), 0)}
      \union Thrown(steps, "ONNX_RUNTIME", Voided(docs))

\* Rows are normalised by the width the model reports; nothing is counted.
lembed_image_embedding_embed_files(c, docs, batch_size) ==
  IF Absent(c, docs) THEN {Rejected}
  ELSE ImageCall(c, docs, batch_size, c.shape.last,
                 [i \in DOMAIN docs |-> preprocess_image_to_buffer(Picture[docs[i]], TargetSize)], FALSE)

\* Rows are normalised by the context's dimension.
lembed_image_embedding_embed_bytes(c, docs, batch_size) ==
  IF Absent(c, docs) THEN {Rejected}
  ELSE ImageCall(c, docs, batch_size, c.dim,
                 [i \in DOMAIN docs |-> preprocess_image_bytes_to_buffer(Picture[docs[i]], TargetSize)], TRUE)
=============================================================================
