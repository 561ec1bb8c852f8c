--------------------------- MODULE TextEmbedding ---------------------------
(***************************************************************************)
(* One dense text-embedding context (detail/text_embedding_impl.hpp,       *)
(* detail/text_embedding_llama_impl.hpp): its constructors, embed,         *)
(* embed_stream, statistics and free.  The context has no lock and is used *)
(* by one thread, but the callback of embed_stream is the user's code and  *)
(* may call into the same context, so calls nest and share pooled_buf_.    *)
(*                                                                         *)
(* A text is known by the call it was passed to and its position there; of *)
(* its content only the token count matters, which decides the order of    *)
(* length bucketing.  An embedding names its text and the texts that went  *)
(* through the session in the same run, which is what a dynamically        *)
(* quantized model depends on.                                             *)
(*                                                                         *)
(* Two dimensions meet: out_dim, the last dimension of the tensor the      *)
(* model returns, and dim, the context's own, which comes from the         *)
(* registry, the caller, a config file or the llama session and is never   *)
(* compared with it.  Rows are written with stride out_dim; embed reads    *)
(* them with stride dim, embed_stream passes on dim numbers of each.       *)
(* A constructor that fails leaves no handle (the half-built context is    *)
(* lost) and is a stuttering step.                                         *)
(***************************************************************************)
EXTENDS Integers, FiniteSets, SequencesExt, Batches

CONSTANTS
  Texts,                      \* what callers pass: token counts, text by text
  BatchSizeOption,            \* values callers pass as batch_size
  LEMBED_DEFAULT_BATCH_SIZE,
  out_dim,                    \* the last dimension of what the model returns
  DimOption,                  \* dimensions callers and config files state
  MaxCalls,                   \* bound on the calls made
  None

ASSUME TextsAssumption == Texts \subseteq Seq(Nat) \ {<<>>}
ASSUME BatchSizeAssumption ==
  /\ BatchSizeOption \subseteq Nat
  /\ LEMBED_DEFAULT_BATCH_SIZE \in Nat \ {0}
ASSUME DimAssumption == out_dim \in Nat \ {0} /\ DimOption \subseteq Nat
ASSUME NoneAssumption ==
  None \notin [of : [call : Nat, pos : Nat, with : SUBSET Nat], at : Nat]

VARIABLES
  ctx,            \* the context the caller holds, or None
  calls,          \* the calls in progress, the innermost last
  pooled_buf_,    \* rows of the context's output buffer
  texts_embedded, \* statistics of the context
  batches_run,
  issued,         \* number of calls made so far
  returned        \* the last call that returned, with its outcome

vars == <<ctx, calls, pooled_buf_, texts_embedded, batches_run,
          issued, returned>>

Top == Last(calls)
Positions(lens) == 1..Len(lens)

-----------------------------------------------------------------------------
\* The orders std::sort may leave: longest first, ties in any order.
ByLength(lens) ==
  {p \in [Positions(lens) -> Positions(lens)] :
     /\ IsInjective(p)
     /\ \A i, j \in Positions(lens) : i < j => lens[p[i]] >= lens[p[j]]}

Indices(strategy, lens) ==
  IF strategy = "LENGTH_BUCKET" THEN ByLength(lens)
  ELSE {[i \in Positions(lens) |-> i]}

-----------------------------------------------------------------------------
Context(backend, quantization, strategy, batch_size, dim) ==
  [backend |-> backend, quantization |-> quantization,
   batch_strategy |-> strategy, dim |-> dim,
   batch_size |-> IF batch_size > 0 THEN batch_size ELSE LEMBED_DEFAULT_BATCH_SIZE]

Init ==
  /\ ctx = None
  /\ calls = <<>>
  /\ pooled_buf_ = <<>>
  /\ texts_embedded = 0
  /\ batches_run = 0
  /\ issued = 0
  /\ returned = None

New(c) ==
  /\ ctx = None
  /\ ctx' = c
  /\ pooled_buf_' = <<>>
  /\ texts_embedded' = 0
  /\ batches_run' = 0
  /\ returned' = None
  /\ UNCHANGED <<calls, issued>>

\* A registered model: dimension and quantization from the registry, whose
\* table is taken to be right, strategy and batch size from the options.
Create ==
  \E q \in {"NONE", "DYNAMIC"}, bs \in BatchSizeOption,
     s \in {"SEQUENTIAL", "FIXED", "LENGTH_BUCKET"} :
    New(Context("ONNX", q, s, bs, out_dim))

\* A user-defined model, or a directory: the strategy of the options is not
\* looked at, and neither is the model's quantization.  The dimension is what
\* the caller says, for a directory what its config.json or else the options
\* say; only a directory without any is refused.
CreateCustom ==
  \E dim \in DimOption : New(Context("ONNX", "NONE", "LENGTH_BUCKET", 0, dim))
CreateFromPath ==
  \E bs \in BatchSizeOption, dim \in DimOption \ {0} :
    New(Context("ONNX", "NONE", "LENGTH_BUCKET", bs, dim))

\* A GGUF file.  With auto_workers only the pool is loaded; the dimension is
\* read from the session, which is not, and is 0.
CreateFromGguf ==
  \E bs \in BatchSizeOption, auto_workers \in BOOLEAN :
    New(Context("LLAMACPP", "NONE", "LENGTH_BUCKET", bs,
                IF auto_workers THEN 0 ELSE out_dim))

Free ==
  /\ ctx # None
  /\ calls = <<>>
  /\ ctx' = None
  /\ UNCHANGED <<calls, pooled_buf_, texts_embedded, batches_run,
                 issued, returned>>

-----------------------------------------------------------------------------
\* A call comes from outside, or from the callback of a stream that has just
\* been given a row.
MayCall ==
  /\ ctx # None
  /\ issued < MaxCalls
  /\ calls # <<>> => Top.op = "stream" /\ Top.row > 0

\* The offsets in a row of the result.
Offsets == 0..(ctx.dim - 1)

\* result->data is one allocation of dim numbers for each text.
Frame(op, lens, batch_size, step, indices) ==
  [id |-> issued + 1, op |-> op, lens |-> lens, batch_size |-> batch_size,
   step |-> step, indices |-> indices, done |-> 0, row |-> 0, fresh |-> TRUE,
   data |-> [i \in Positions(lens) |-> [k \in Offsets |-> None]], delivered |-> <<>>]

Outcome(f, status) ==
  [id |-> f.id, op |-> f.op, status |-> status, lens |-> f.lens,
   dim |-> ctx.dim, step |-> f.step,
   data |-> IF status = "OK" THEN f.data ELSE <<>>]

\* A dynamically quantized model must see all texts of a call together.
Refused(batch_size, n) ==
  ctx.quantization = "DYNAMIC" /\ batch_size > 0 /\ batch_size < n

EmbedRefused(lens, batch_size) ==
  /\ MayCall
  /\ Refused(batch_size, Len(lens))
  /\ issued' = issued + 1
  /\ returned' = Outcome(Frame("embed", lens, 0, 0, <<>>), "BATCH_SIZE")
  /\ UNCHANGED <<ctx, calls, pooled_buf_, texts_embedded, batches_run>>

EmbedBatchSize(batch_size, n) ==
  IF ctx.quantization = "DYNAMIC" THEN n
  ELSE IF batch_size <= 0 THEN ctx.batch_size ELSE batch_size

\* embed, up to the first batch: checks, allocation, order of the texts.
Embed(lens, batch_size) ==
  /\ MayCall
  /\ ~Refused(batch_size, Len(lens))
  /\ \E indices \in Indices(IF ctx.backend = "ONNX" THEN ctx.batch_strategy
                            ELSE "SEQUENTIAL", lens) :
       LET bs == EmbedBatchSize(batch_size, Len(lens))
           one == ctx.backend = "LLAMACPP" \/ ctx.batch_strategy = "SEQUENTIAL"
       IN calls' = Append(calls,
            Frame("embed", lens, bs, IF one THEN 1 ELSE bs, indices))
  /\ issued' = issued + 1
  /\ UNCHANGED <<ctx, pooled_buf_, texts_embedded, batches_run, returned>>

\* embed_stream, up to the first batch.  It looks at neither the
\* quantization nor the strategy.
EmbedStream(lens, batch_size) ==
  /\ MayCall
  /\ LET bs == IF batch_size <= 0 THEN ctx.batch_size ELSE batch_size
     IN calls' = Append(calls,
          Frame("stream", lens, bs, IF ctx.backend = "LLAMACPP" THEN 1 ELSE bs,
                [i \in Positions(lens) |-> i]))
  /\ issued' = issued + 1
  /\ UNCHANGED <<ctx, pooled_buf_, texts_embedded, batches_run, returned>>

-----------------------------------------------------------------------------
Total(f) == Len(f.lens)
Batches(f) == batch_count(Total(f), f.step)
Start(f) == f.done * BatchSize(Total(f), f.step)
Rows(f) == get_batch(f.done, Total(f), f.step)
LastRows(f) == IF f.done = 0 THEN {} ELSE get_batch(f.done - 1, Total(f), f.step)

\* What the session returns for the text at place i of the order, run
\* together with the rest of its batch.
EmbeddingAt(f, i) ==
  [call |-> f.id, pos |-> f.indices[i], with |-> {f.indices[j] : j \in Rows(f)}]

\* The rows pooling writes, each of out_dim numbers.
Pooled(f) == [j \in 1..Cardinality(Rows(f)) |-> EmbeddingAt(f, Start(f) + j)]

\* resize and pooling write the first rows and leave what lies behind them.
Overlaid(rows, buf) == rows \o SubSeq(buf, Len(rows) + 1, Len(buf))

\* A number of a row: whose embedding it belongs to, and its place there.
Number(e, k) == [of |-> e, at |-> k]

\* The number at address a of a buffer with rows of out_dim numbers; behind
\* the last row it is anything.
NumberAt(buf, a) ==
  IF (a \div out_dim) + 1 \in DOMAIN buf
  THEN Number(buf[(a \div out_dim) + 1], a % out_dim) ELSE None

\* The copy of row j into the result: its address in the buffer is reckoned
\* with the dimension of the context.
Copied(buf, j) == [k \in Offsets |-> NumberAt(buf, (j - 1) * ctx.dim + k)]

\* llama.cpp: each text has a vector of its own; a session that is not
\* loaded gives one of length 0.
Own(e) == [k \in Offsets |-> Number(e, k)]

\* Mutant: the rows stay in the order of the batch.
TargetOfBatch(f, j) == Start(f) + j

\* Where row j of the current batch goes in the result.
Target(f, j) == f.indices[Start(f) + j]

\* Row j of the batch, as the back end copies it out.
CopiedRow(rows, buf, j) ==
  IF ctx.backend = "ONNX" THEN Copied(buf, j) ELSE Own(rows[j])

Scattered(f, rows, buf) ==
  [p \in DOMAIN f.data |->
     IF \E j \in DOMAIN rows : Target(f, j) = p
     THEN CopiedRow(rows, buf, CHOOSE j \in DOMAIN rows : Target(f, j) = p)
     ELSE f.data[p]]

\* The buffer after the next batch.  Only the ONNX back end uses it.
BufferAfter(f) ==
  IF ctx.backend = "ONNX" THEN Overlaid(Pooled(f), pooled_buf_) ELSE pooled_buf_

\* The call after its next batch.
Ran(f) ==
  [f EXCEPT !.done = @ + 1, !.row = 0, !.fresh = TRUE,
            !.data = IF f.op = "embed" THEN Scattered(f, Pooled(f), BufferAfter(f)) ELSE @]

\* One turn of the batch loop.  In a stream the callbacks of the batch
\* before have returned.
RunBatch ==
  /\ calls # <<>>
  /\ Top.done < Batches(Top)
  /\ Top.op = "stream" => Top.row = Cardinality(LastRows(Top))
  /\ calls' = Append([k \in DOMAIN Front(calls) |->
                        [calls[k] EXCEPT !.fresh = @ /\ ctx.backend # "ONNX"]],
                     Ran(Top))
  /\ pooled_buf_' = BufferAfter(Top)
  /\ UNCHANGED <<ctx, texts_embedded, batches_run, issued, returned>>

\* Mutant: the stream of the ONNX back end passes the first row each time.
DeliveredRowFirst(f) ==
  IF ctx.backend = "ONNX" THEN [k \in Offsets |-> NumberAt(pooled_buf_, k)]
  ELSE Own(EmbeddingAt([f EXCEPT !.done = @ - 1], f.done))

\* What the callback is given: dim numbers from where the row begins in the
\* shared buffer, or the local vector of the llama.cpp stream.
DeliveredRow(f) ==
  IF ctx.backend = "ONNX"
  THEN [k \in Offsets |-> NumberAt(pooled_buf_, f.row * out_dim + k)]
  ELSE Own(EmbeddingAt([f EXCEPT !.done = @ - 1], f.done))

\* The callback for the next row of the last batch is called; it reads the
\* row before it does anything else.  The callback before has returned.
Callback ==
  /\ calls # <<>>
  /\ Top.op = "stream"
  /\ Top.row < Cardinality(LastRows(Top))
  /\ calls' = [calls EXCEPT ![Len(calls)].row = @ + 1,
                ![Len(calls)].delivered =
                    Append(@, [row |-> DeliveredRow(Top), fresh |-> Top.fresh])]
  /\ UNCHANGED <<ctx, pooled_buf_, texts_embedded, batches_run,
                 issued, returned>>

\* What a call adds to batches_run.
CountedBatches(f) ==
  IF ctx.backend = "LLAMACPP" THEN 1 ELSE batch_count(Total(f), f.batch_size)

Return ==
  /\ calls # <<>>
  /\ Top.done >= Batches(Top)
  /\ Top.op = "stream" => Top.row = Cardinality(LastRows(Top))
  /\ texts_embedded' = texts_embedded + Total(Top)
  /\ batches_run' = batches_run + CountedBatches(Top)
  /\ returned' = Outcome(Top, "OK")
  /\ calls' = Front(calls)
  /\ UNCHANGED <<ctx, pooled_buf_, issued>>

\* The tokenizer or the session throws in the next turn of the loop, or
\* malloc has failed: embed frees the result, statistics stay.
Fail ==
  /\ calls # <<>>
  /\ Top.done < Batches(Top)
  /\ Top.op = "stream" => Top.row = Cardinality(LastRows(Top))
  /\ returned' = Outcome(Top, "error")
  /\ calls' = Front(calls)
  /\ UNCHANGED <<ctx, pooled_buf_, texts_embedded, batches_run, issued>>

-----------------------------------------------------------------------------
Construct == Create \/ CreateCustom \/ CreateFromPath \/ CreateFromGguf

Request ==
  \E lens \in Texts, batch_size \in BatchSizeOption :
    \/ EmbedRefused(lens, batch_size)
    \/ Embed(lens, batch_size)
    \/ EmbedStream(lens, batch_size)

Next ==
  \/ Construct
  \/ Free
  \/ Request
  \/ RunBatch
  \/ Callback
  \/ Return
  \/ Fail

Spec == Init /\ [][Next]_vars

-----------------------------------------------------------------------------
\* Row e holds, number by number, the embedding of text p of call id.
IsOf(e, id, p, dim) ==
  \A k \in 0..(dim - 1) :
    e[k] # None /\ e[k].of.call = id /\ e[k].of.pos = p /\ e[k].at = k

\* Embedding i of a successful embed is that of text i, all dim numbers of it,
\* whatever the strategy, the batch size, equal lengths, and whatever other
\* calls a callback made in between, provided the context's dimension is the
\* model's; a smaller one, which cuts embeddings short, is safe only where each
\* text is run alone.  In all other cases a caller has a neighbour's numbers.
ResultsInPlace ==
  /\ returned # None /\ returned.op = "embed" /\ returned.status = "OK"
  /\ returned.dim = out_dim \/ (returned.step = 1 /\ returned.dim < out_dim)
  => \A i \in Positions(returned.lens) :
       IsOf(returned.data[i], returned.id, i, returned.dim)

\* The k-th callback of a stream gets the embedding of text k, except behind
\* a callback of the same batch that ran the same context again, and in a
\* context whose dimension exceeds the model's.
StreamOwnEmbeddings ==
  \A n \in DOMAIN calls : \A k \in DOMAIN calls[n].delivered :
    LET d == calls[n].delivered[k]
    IN d.fresh /\ ctx.dim <= out_dim => IsOf(d.row, calls[n].id, k, ctx.dim)

=============================================================================
