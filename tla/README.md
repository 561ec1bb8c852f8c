# A TLA+ model of libembedding

libembedding turns texts and images into vectors. It is a header-only C/C++
library (`src/include/libembedding`) over two inference back ends, ONNX Runtime
and llama.cpp, with Python bindings (`src/python`). Most of it is sequential
glue around those engines. What can go wrong in ways tests do not reach is of
two kinds: what threads, processes and crashes share (the llama.cpp session
pool and its scheduler, the pool of ONNX workers, the caches, the downloader),
and what has to line up by position over batches, padding, strides and error
paths (the contexts, their results and wrappers, the tokenizer). These modules
model both, TLC checks them on small instances and TLAPS proves what matters
most for every instance.

## Inventory

| Component | State | Operations | Interacts with | What makes it hard | What makes it correct |
|---|---|---|---|---|---|
| Embedding cache (`embedding_cache.h`, `detail/embedding_cache_impl.hpp`) | list of keys, map to entries, one malloc'ed vector per entry, a mutex | create, get, put, clear, free, size | any caller of the C API, which keeps the raw pointer of get | expiry, eviction order, three structures changed together, pointers used after the lock is released | list and map agree, no leak and no dangling entry, capacity, LRU order, how long a pointer is good |
| llama.cpp scheduler (`detail/llama_scheduler_impl.hpp`) | stop flag, queue of promises, a worker thread | construct, submit, worker loop, stop, destroy | session pool (`process_batch_`), threads in submit | wake-ups, batches, exceptions, stop while a batch runs | each promise set once, in order, with its own answer; stop returns; nothing waits for ever |
| llama.cpp session pool (`detail/llama_session_impl.hpp`) | model, contexts with a mutex each, round-robin counter, optional scheduler | load, embed, embed_batch, embed_batch_bucketed, enable / disable scheduler, embed_scheduled, destroy | scheduler, llama.cpp | contexts and their output buffers are shared, order of destruction, a batch that fails half way | one thread per context, no mixing of results, no use of a freed context |
| Embedding pool (`cpp/embedding_pool.hpp`) | one text-embedding context per worker, per call: threads, partial results, `done`, `next_to_yield` | embed, embed_stream, close | text embedding, user callback | threads finish in any order, failing batches, unlocked `vector<bool>` | order of the texts, nothing lost, the call returns |
| Model downloader (`downloader.h`, `detail/downloader_impl.hpp`) | files of the cache directory | ensure_model, download_hf_file | libcurl, file system, other processes | crashes, failed transfers, several processes, offline mode | a file at its final path is complete; trying again ends with the model cached |
| Text embedding (`text_embedding.h`, `detail/text_embedding_impl.hpp`, `detail/text_embedding_llama_impl.hpp`) | session, tokenizer, statistics, reused buffers | create (three ways), embed, embed_stream, stats, free | downloader, tokenizer, ONNX or llama session | length bucketing, dynamic quantization, two dimensions nothing compares, callbacks that call again | result i belongs to text i |
| Reranker (`reranker.h`, `detail/reranker_llama_impl.hpp`) | session, tokenizer, counters | create (three ways), rerank, free | ONNX or llama session | batches, strides in a flat tensor, sorting, errors in the middle | every document once, best first, with its own score |
| Sparse embedding (`sparse_text_embedding.h`, `detail/sparse_postprocess.hpp`) | the same | create (two ways), embed, free of a result of nested arrays | ONNX session, tokenizer | padding beside longer texts, allocations that fail half way | exactly the terms of the text's own tokens |
| Image embedding (`image_embedding.h`, `detail/image_preprocess.hpp`, `detail/normalize.hpp`) | session, dimension, counters | create (two ways), embed files / bytes, free | stb, ONNX session | extreme proportions and sizes reckoned in an `int`, rows of two widths, undecodable images | own rows, normalised by own norm; a crop inside the image |
| C++ wrappers (`cpp/*_model.hpp`) | one C handle each | constructors, close, destroy, move, calls | C API | moved-from and closed objects, exceptions between a call and the free of its result | each context freed exactly once, each result once |
| ONNX session (`detail/onnx_session_impl.hpp`) | an `OrtSession` | load, run, run_float | ONNX Runtime | any call throws from the middle | nothing left behind by a call that does not throw |
| Tokenizer (`detail/tokenizer_impl.hpp`) | vocabulary, merges, special ids | load_from_blob, encode_batch | tokenizer.json | hand-written scans over bytes, limits of one or two tokens, padding | agreement with the reference algorithms, rows that do not depend on their neighbours |
| Autotune cache (`detail/autotune_cache_impl.hpp`) | `tune_cache.json`; the caller's entry | fingerprint, key, add_config, set_best, load, save, clear | autotuners, other processes | read-modify-write without a lock, truncate-then-write in several writes, duplicate members, a full array | what was saved is loaded, whole; the best index is valid |
| Autotuners (`autotuner.h`, `detail/autotune_bench_*`, `detail/autotuner_impl.hpp`) | per-model cache files | autotune, auto_config, clear | text embedding, reranker, cache files | failing configurations, constraints, stale files | the best score measured within the budget is returned |
| Registries, loader, selector, benchmarks, errors | tables, or nothing | lookups, measurements | – | – | – |
| Python bindings | C handles, a thread pool | constructors, embed, embed_stream, close | C API | unchecked status | errors reach the caller |

The llama.cpp back end runs `embed` on the caller's thread or, through
`embed_scheduled`, on the scheduler's worker; both go through the same contexts.
The ONNX back end has no lock at all: `EmbeddingPool` gives every worker its own
context. The C++ and Python wrappers own one C handle each. Every constructor of
an ONNX embedder goes through `ensure_model`, so processes that start together
meet in the cache directory; tuners meet in their cache files.

## Modules

| Module | Models |
|---|---|
| `LRUSpec` | what an LRU cache with expiry promises: a bounded store and, per key, which keys were used since |
| `LRUCache` | the C++ cache with its list, map and heap; refines `LRUSpec` |
| `LRUCacheProofs` | invariants and refinement of `LRUCache` for every instance |
| `FifoService` | what a batching service owes the requests it accepted |
| `LlamaScheduler` | queue, worker loop, promises, stop and destruction; refines `FifoService`, alone and in the pool |
| `LlamaContexts` | the contexts of the session pool and `embed` |
| `LlamaSessionPool` | `LlamaContexts` composed with `LlamaScheduler`, the worker being one more caller of `embed` |
| `LlamaSessionPoolProofs` | scheduler, contexts and their composition for every instance: invariants, and both refinements |
| `EmbeddingPool` | one call of `embed` or `embed_stream` over worker threads |
| `Downloader` | `ensure_model` and `download_hf_file` in any number of processes |
| `DownloaderProofs` | what a process alone leaves in the cache directory, for every list of files |
| `Batches` | the splitting of a call into batches, used by all contexts |
| `TextEmbedding` | one dense text-embedding context: constructors, `embed`, `embed_stream` with nested calls, statistics |
| `TextEmbeddingProofs` | results and callbacks of a context, for every nesting of calls; order and completeness of a call of the pool, for every number of workers and texts |
| `OnnxSession` | the ORT objects made and released by each operation, and what a throw leaves |
| `ModelOutputs` | what the contexts make of a flat tensor: scores, sparse vectors, rows, crops |
| `ModelContexts` | the C API of reranker, sparse and image embedder, as sets of outcomes; `OnnxSession`, `ModelOutputs` and `Batches` composed |
| `ModelWrappers` | the C++ objects over `ModelContexts`, and a C caller |
| `ModelWrappersProofs` | results of the three contexts, ownership, memory, what throws leave, and crop geometry, for every instance |
| `Tokenizer` | loading and encoding, beside reference definitions |
| `TokenizerProofs` | the scans and searches against the reference definitions, and the rows of a batch, for every text, vocabulary and list of merges |
| `TuneCache` | `tune_cache.json` in any number of processes |
| `TuneCacheProofs` | what loads answer, and the best index, for every instance |
| `AutoTuner` | the four tuners, their unified entry points and cache files, in several processes |
| `AutoTunerProofs` | answers and cache files, for every grid, budget and number of processes |
| `MC*` | the modules TLC runs |

A definition whose comment begins with "Mutant" is a slip the code does not
make. It stands beside the definition it would replace and is what shows that
a property can fail.

## How the models correspond to the code

**LRUCache.** `list_`, `map_` and the heap (`Addr` to a value or `Free`) are the
three structures of `EmbeddingCache::Impl`; an entry is the record the map
holds, with the address of its vector and its expiry. Every public operation
runs under the object's mutex, so it is one action, split by the path it takes:
`get` misses, finds the entry expired (and removes it) or hits (and moves it to
the front); `put` updates, inserts or evicts and inserts. `get` returns the raw
pointer of the entry. What callers do with it happens outside the mutex, so
`held` records for each thread the pointer it got last, the set of other keys
used since, and whether its own key was overwritten, expired or cleared.
Seconds are a counter bounded by `MaxTime`.

**LlamaScheduler.** One request is one call of `submit`. The queue, the stop
flag and the promises are variables; `batch` and `embeddings` are the two local
vectors of the worker loop. An action is what the code does under one hold of
`mtx_`, or one promise answered (`AnswerNext`), since other threads run between
them. `cv_.wait_for` has a timeout and a predicate, so no wake-up can be lost
for good; a wake-up with a false predicate is a stutter. `object` is the life of
the scheduler: `stop()` is `Stop` then `Join`, the destructor adds `Destroy`,
which breaks the promises still queued.

**LlamaContexts and LlamaSessionPool.** `call[t]` is the program counter of
thread `t` in `embed`: pick the next index, lock that context's mutex, encode,
copy the result out and unlock, or throw and unlock. `content[c]` is whose
embedding the output buffer of context `c` holds. `next_idx_` counts modulo
`IndexModulus`, the range of the code's counter. `LlamaSessionPool` uses the
actions of both parts: `WorkerPick`, `WorkerInEmbed`, `WorkerFetch` and
`WorkerEmbedThrows` are `embed_batch` run by the worker, and end in the
scheduler's own `Finish`. The destructor is `DestroyPool` (the body frees the
contexts) and then `DestroyMembers` (the scheduler is destroyed after the
body). Once a thread would run on a freed context the code's behaviour is
undefined, and the model records it and ends. `batches` and `threw` are history:
the batches the worker took, and the texts whose encoder call threw in it.

**EmbeddingPool.** Texts are numbers and stand for their embeddings. The calling
thread and every worker have a program counter. A `std::vector<bool>` of at most
64 elements is one word, and writing an element is a load and a store; the
calling thread does both without the mutex. C++ makes this a data race; the
model allows the interleavings a compiled load and store can take.

**Downloader.** Paths name inodes and an open `FILE*` keeps its inode, as POSIX
has it, so a process whose `.tmp` was renamed by another goes on writing to the
file it has open. A file's content is the set of chunks written. Every system
call is an action, so that a crash or another process fits between any two.
`Alone` tells a directory used by one process from one that is shared; a process
is in the directory from the start or never.

**TextEmbedding.** A context is used by one thread, but the callback of
`embed_stream` may call into the same context: `calls` is the stack of calls in
progress. `pooled_buf_` is shared by all of them, and a row holds which text of
which call was written there. One turn of the batch loop is `RunBatch`; one
callback is `Callback`. Token counts are all that is kept of a text.
Two dimensions are kept apart. `out_dim` is the last one of the tensor the model
returns, with which pooling lays out `pooled_buf_` (`:349-361`); the context's
`dim` comes from the registry, the caller (`:185`), a config.json or the options
(`:243-260`) or the llama session, and nothing compares the two. `embed` copies
row i of a batch from address `i * dim` (`:366-368`), `embed_stream` hands out
`dim` numbers from `i * out_dim` (`:513`). A number is therefore whose embedding
it belongs to and its place there, and `None` behind the end of the buffer.
The registry's dimensions are taken to be right, a llama context's is its own
model's, and a tensor is taken to have two dimensions or three: with one, the
code falls back to `dim`.

**OnnxSession.** An operation of the class is a straight line of checked calls
of ONNX Runtime. It is modelled as the sequence of what its steps make, use and
release, and what a throw leaves behind is computed from that order; a release
returns no status and throws nothing.

**ModelOutputs and ModelContexts.** A tensor is a sequence of cells that say
whose they are, so a wrong stride or offset shows as a foreign cell. Each C
function is a set of outcomes: status, the caller's struct afterwards, whether
`set_error` was called, what the counters gain and which ORT objects are left.
A context's shape is what its model answers per item, with or without a sequence
dimension. A sparse vector is computed from the padded row and its mask; a crop
from the width and height by the code's two formulas. The bytes of the resized
image are reckoned in an `int` (`image_preprocess.hpp:163`): `Narrowed` wraps
them at `MaxInt`, a negative size throws out of the vector's constructor, and a
size that wraps beyond zero makes a buffer the resizing overruns. The code
divides in `float`, the model integers: the longer side may be a pixel off,
never below the target, as the quotient is at least 1.
`lembed_reranker_create_from_path` has a branch for `.gguf` files that is never
taken, because `lembed__path_ends_with_gguf` (`reranker.h:227-232`) compares the
last four characters of the path with five; such a path ends as a directory
without `model.onnx`, one of the outcomes of `Unreadable`.

**ModelWrappers.** `ctx_` is the handle of each C++ object, `None` after `close`
or a move, and `ctx` the heap of contexts. `Construct`, `close`, `Destroy`,
`MoveConstruct` and `MoveAssign` are the members of the class; `Call` is a C
call through an object, and `Return` or `Discard` what its caller then does with
the struct: the wrapper checks the status and copies before it frees, the C
caller (the tuners' benchmarks) frees whatever the status. `harm` records leaks
and faults with whether an allocation had failed before. Two things the C++
classes lack are done as the Python classes do them:
`SparseEmbeddingModel::embed` (`sparse_embedding_model.hpp:101-102`) passes five
arguments to a function of six and does not compile, so the call is that of
`sparse_text_embedding.py:110-144`, which checks and frees in the same order;
and a reranker is made of a `.gguf` file by `reranker.py:83`, which asks for the
ending itself.

**Tokenizer.** A text is a sequence of bytes, a byte one of the classes
`basic_tokenize` tells apart. The scans (words, WordPieces, characters, merges)
are recursive functions over positions, those of `basic_tokenize` over the
position reached and the start of the word being collected. A merge is the pair
of its halves, which the code joins with a space no symbol contains. The
reference definitions beside them do not scan: a word begins where a byte does
not continue what is in front of it, pieces are the one sequence of ends of
which each is as far as it can be, and merges are made in the order of the file.
The WordPiece reference is BERT's, as the comment at `:380` has it: a word the
pieces cover is its pieces, any other is [UNK]. The code differs from it for a
word of which only the beginning is known, whose rest it drops; of these words
`EncodedAsReference` says nothing but that their segmentation is unique.
`load_from_blob` is what it makes of the fields it reads of a tokenizer.json,
defaults included.

**TuneCache.** A text is the sequence of its members, which keeps duplicates, as
cJSON does. stdio reads and writes a text longer than its buffer in several
calls, so a file is two parts, a head and a tail, each missing or that part of
some text. A load reads head, then tail; a save reads both, opens the file
(which truncates it), writes the head in `fwrite` and the tail in `fclose`. Two
saves that have the file open together can leave the head of one text and the
tail of another: `Splices` is what such a file may hold, a member whose two
halves are of different entries among them, or it does not parse. `path` names
an inode and an open `FILE*` keeps its own, since clearing unlinks the path
while another process may have the file open. `mixed` is history: a save opened
a file while another process had it open. `acked` and `given` are history: the
first value saved under each key since the file was removed, and everything a
save was ever called with.

**AutoTuner.** A process is idle or in a tuner's job: the positions of the grid
still to try with the configuration at each, the best so far, what the call
asked for. `Turn` is one turn of the loops, at the first position left; a grid
with `max_tokens` raised to a bound has every configuration once, as the code's
`valid_tokens` is then a single number. A benchmark returns any of
a set of latencies, or fails, which means that its context could not be created:
the benchmarks do not look at what `embed` or `rerank` return, so calls that fail
are timed like the rest. Scores are kept as integers that order results the
way the code's floats do. Opening the file truncates it; its text reaches the
disk when the stream is closed. What a read of an empty file leaves in the
result is memory nobody wrote, the value `Garbage`.

## What the runs check

| Run | Question | Bounds |
|---|---|---|
| `lru_cache` | Do list, map and heap stay consistent, how long is a pointer good, and does the cache implement `LRUSpec`? | 3 keys over 2 places, so that eviction chooses between keys used in different orders; 2 values, so that an update shows; lifetime 1 over a clock to 2, so that entries are live, at their last second and expired |
| `scheduler` | Is every request settled, and does `stop` end? | 3 requests and batches of at most 2: a full batch, a partial one and a request behind a batch; the object may be built again |
| `scheduler_submit` | Does `submit` wait for its answer? | 1 request; a violation |
| `session_pool` | Do direct calls and the worker share contexts safely, is it safe to destroy the pool, does a stopped worker finish its batch, is the scheduler in it still the scheduler, and is what it offers a first-in-first-out service? | 2 contexts and a counter modulo 3, so that the wrap gives one context twice running; the worker beside one client that calls twice; 2 texts, in one batch or in two, so that a failure could reach the other batch; the encoder may fail in each |
| `embedding_pool` | Are embeddings in order and complete, does the call return? | 3 workers, 1 to 7 texts, batches of 2: no, one and two idle workers, short last ranges and short last batches, each batch failing or not |
| `stream_race` | Is a text missing only if its batch failed? | 2 texts on 3 workers, no failures; a violation |
| `downloader` | Can an incomplete file reach its final path, what do two processes that share a `.tmp` do to each other, and does trying again end well? | a required and an optional file of 2 chunks, so that a file can be half written; either one process with 2 crashes and 2 failures anywhere, so that a second one hits the recovery from a first, or two processes with none, so that what shows is due to sharing alone; 4 inodes, enough for both paths of a file and both open files |
| `text_embedding` | Does embedding i belong to text i, also when a callback calls again? | 1 to 4 texts with equal and different lengths, batch sizes 0 (the default) and 2, default 3; models of dimension 2, contexts of dimension 0, 1, 2 and 3: none, too small, right and too large; 2 calls, the second also from a callback of the first |
| `auto_tuner` | Has the answer the best score of what was measured within the budget, and when is a cache file empty? | 2 processes, 2 calls, 1 crash; 2 configurations, one of which costs a penalty; latencies on both sides of the budget and of the score of a failure |
| `model_wrappers` | Who owns a context, does every result line up with its inputs, and what do errors leave behind? | 2 objects over 2 addresses, so that one is moved or assigned over another; 3 C calls: two creations and a call, or one and two calls; calls of no, two and three documents with batches of 2, so that there is a second, short batch; models with and without a sequence dimension; images wider and higher than the target of 2, and with `MaxInt` 63 two so long that their size wraps, below zero and above it |
| `tune_cache` | What does a load answer, whatever overlapped or broke off? | 2 processes, 2 saves and 1 fault, a crash, a refused open or a failed write, so that every pair of operations overlaps between their reads and writes; 2 inodes, so that a cleared file lives on beside a new one; 2 back ends, so that entries of different keys are side by side; arrays of at most 2, so that a third configuration is dropped |
| `tokenizer` | Do splitting, search, truncation and padding agree with the reference definitions? | all texts of up to 4 bytes over letters, an upper-case letter, a space, punctuation, a lead and a continuation byte, alone, and of up to 3 beside an empty and a longer one; limits 1, 2, 4 and 9: no room for the frame, room for it alone, a cut and none; 6 files of both kinds, one that does not parse, merges in an order no training writes |

Runs check deadlock unless the system really may stop: `CHECK_DEADLOCK FALSE`
stands where a call returns and that is all (`embedding_pool`, `stream_race`,
`tokenizer`), where the calls are bounded (`auto_tuner`, `tune_cache`,
`model_wrappers`), and where a destroyed session pool stays destroyed.
Symmetry is used in the three runs whose processes, objects or addresses are
interchangeable and which check invariants only: `auto_tuner`, `tune_cache` and
`model_wrappers`.

What the properties of the newer modules say:

- `OneOwnerEach` is stated of every address: exactly one handle while the
  context lives, none after, but for contexts whose creation threw, which the C
  API leaves behind (`abandoned`).
- `RankingOwnScores`, `SparseOwnTerms` and `ImageRowsOwn` relate the result to
  the documents of the call. They are conditional where the code is right only
  for some models: a reranker or image model with a sequence dimension is read
  with the wrong stride.
- `ResultMemory` and `OrphansOnlyFromThrows` say what errors cost: wrong reads
  of a struct only after a failed allocation, ORT objects left only by an
  operation that threw.
- `ExactWhileUndisturbed` is what the file promises while saves neither overlap
  nor break off. `HitWasSaved` and `BestIsHeld` are what remains when they do, up
  to the moment a save opens the file while another process has it open: from
  then on the file may mix two texts, and TLC finds both violated without this
  condition.
- `BatchFailsAsAWhole` is stated of every request that was answered: it failed
  exactly if a text of its own batch threw.
- `ResultsInPlace` compares number by number, and holds where the context's
  dimension is the model's; a smaller one is safe only where every text is run
  alone. `StreamOwnEmbeddings` needs that it is no larger.
- `BestOfMeasured` says best score, not best configuration that works: see the
  tuners under Findings.
- `CropsInside` holds of pictures of moderate proportions, whose resized size
  fits an `int`: with the code's 224 pixels, a side of at most 14,266 times the
  other.
- `EncodedAsReference` compares the scans with definitions by positions: a
  greedy segmentation is unique and gives the ids of a word it covers, a word it
  does not begin is [UNK] (one it begins and does not cover is left out, as the
  code contradicts its comment there), merging the best pair again and again gives
  what the merges give in the order of the file when the file is one a training
  could have written, and words are the runs between separators of well-formed
  UTF-8.

## Fairness

- *Scheduler, session pool.* The worker is a thread that runs on, and so do
  threads inside a library call, an owner inside `stop()` and the destructors:
  weak fairness on the worker, on `Get`, on `Join`/`Destroy` and on
  `ClientStep`. None is assumed of callers: nobody has to call `submit`, `stop`
  or `enable_scheduler`. A thread that waits for a context's mutex gets it under
  weak fairness here because direct calls are bounded by `MaxDirectCalls`.
- *Embedding pool.* Weak fairness for the calling thread and each worker; each
  worker locks the mutex once, so it cannot starve another.
- *Downloader.* Weak fairness for a process inside `ensure_model`, crashes and
  failures excepted, and strong fairness for calling it online again, since a
  caller may call it offline in between. libcurl is given no timeout: a
  transfer that stalls for ever is excluded by this assumption and not by the
  code. `EventuallyCached` is stated for a process alone: two that both keep
  trying can remove what the other has just renamed, again and again.
- *The other modules* state no liveness and assume no fairness: their
  operations are sequences of steps of one caller, which end.

## What is proved

TLAPS proves the following for every value of the constants that satisfies the
named assumptions. TLC evaluates these in the runs.

**LRU cache** (`LRUCacheProofs`; any keys, values, addresses, threads, any
positive capacity, lifetime and clock bound). `ListMapAgree` alone is not
inductive: an eviction removes the entry of the last key of the list, so it
needs to know that this key is cached, that the entry's address is allocated and
that no other entry owns it, and counting needs `Cached` to be finite.
`SafetyInv` is `TypeOK /\ ListMapAgree /\ HeapOwnership /\ CountOK`; each path of
`get` and `put` has a lemma, over lemmas on what erasing from and pushing to a
list without duplicates does. `TypeCorrect`, `ListMapAlwaysAgree`,
`NoLeakNoDangling` and `CapacityKept` follow. `PointersStayGood` needs
`PointerInv` besides: for every pointer handed out whose own key was not
overwritten, expired or cleared, the keys before its key in the list are among
those used since it was handed out. An eviction takes the last key of a full
list, which has `capacity_ - 1` other keys before it, and the key being put is
one more: a pointer that loses its vector has seen `capacity_` other keys used,
so the guarantee had run out. Assumed: `CapacityAssumption`, `TimeAssumption`
and that `None` and `Free` are no entry, pointer or value (`NoneAssumption`).

`CacheIsLRU` is that the cache implements `LRUSpec`, from the same `SafetyInv`.
The order of use is abstracted to "the keys used since", which the mapping reads
as the keys in front; `ErasedOrder` and `PushedOrder` say exactly what erasing
and pushing do to "in front of", and `UsedInSpec` that this is what a use does
to the sets. The victim of an eviction is the last key of the list, which all
other cached keys are in front of. That a put changes the stored value of no
other key needs `HeapOwnership`: no other entry has the vector freed or the
address allocated.

**Session pool** (`LlamaSessionPoolProofs`; any threads, texts, number of
contexts, counter range and batch size). `SafetyInv` joins the scheduler's
invariant (`SchedInv`, below) and the types with four parts. `CtxInv`: a context
has at most one user, and the buffer of a call that has encoded and not yet
fetched holds that call's text, unless the pool was freed under it. `Progress`:
where the worker stands in its batch, and that the text it is embedding is the
next one. `InLine`: results collected so far, and promises answered, line up
with the batch. `Lives`: how the life of the scheduler object bounds that of its
worker and of the contexts. Mutual exclusion gives the buffer's content, this
gives the collected result, its position gives the promise: none of the parts is
inductive without the ones before it. `FateInv` relates each request to the
batch it was taken in: what the worker is collecting is empty exactly if a text
of this batch threw, and a text is in one batch only. `PoolTypeCorrect`,
`OneThreadPerContext`, `NeverMixed`, `FreedOnlyWithScheduler` and
`WholeBatchFails` follow. `SchedulerStaysScheduler` is a step simulation over
the same invariant: each action of the pool is one of the scheduler's or leaves
its variables alone, so what is proved of `LlamaScheduler` holds of it in the
pool. That is used: `SchedInv` is shown to be an invariant of any step of the
scheduler, and the pool inherits it. `PoolIsFifo` joins the two refinements: the
texts given to `embed_scheduled` are served in the order they were queued, each
at most once, with their own embedding or none, whoever else encodes on the same
contexts. `PoolFinishesBatch` is inherited in the same way. Assumed:
`ContextsAssumption` (at least one context and one counter value),
`NoneAssumption`, `WorkerAssumption` (the worker is a thread, bounds are natural
numbers).

**Scheduler** (`LlamaSessionPoolProofs`, whose `Sched` is an instance of
`LlamaScheduler`; any requests and batch size; `BatchSizeAssumption`,
`NoneAssumption`). `SchedulerIsFifo` shows that the scheduler on its own
implements `FifoService`, whose pending requests are those of the batch followed
by those of the queue: taking a batch is then a stutter and answering serves the
head. The step from `AnswerNext` to the service needs `SchedInv`: where the worker
stands says what it holds (`Held`), what it is about to set is the request's own
embedding or nothing (`OwnNext`), and each request waits in one place with its
promise not yet set (`WaitsOnce`), without which a promise could be set twice.
`BatchAlwaysFinished` follows from `Held`.

**Embedding pool** (`TextEmbeddingProofs`, second part; any number of workers
and texts, any batch size, any set of failing batches; `PoolAssumption`).
`AlwaysInTextOrder` needs that a worker's results ascend within its range as far
as it has got, and that what was yielded ascends below the range of
`next_to_yield` (`OrderInv`): the ranges of neighbouring workers meet, so the
next worker's results may be appended. `LostBesideIdleWorkers` says what the
race on `done` can cost at most. Its invariant follows the call through: where
the calling thread stands (`PhaseInv`, `SpawnInv`), who holds the mutex
(`MutexInv`), that without idle workers the word of `done` is exact and no turn
is left over when the mutex is free (`WordInv`), and that every text passed is a
result, yielded or failed (`CoverInv`).

**Downloader** (`DownloaderProofs`; any list of files, number of chunks, crashes
and failures; `FilesAssumption`, `ProcessAssumption`). `CacheHoldsWholeFiles`:
in a directory used by one process, what is at a final path is whole, or its
last buffer was lost by `fclose`. It is inductive together with `PathsApart` (no
inode is at two paths), so that truncating or writing the temporary file touches
no final one, and `Fetching` (how many chunks the open file has, and that the
file being renamed is whole or known to be unflushed). There is a lemma per
system call, `Crash` among them.

`TornFilesAreWritten` is about a shared directory in which no transfer fails and
no process dies. An inode may be truncated by one process while others still
write to it, so nothing can be said of a single writer. `WillBeWhole` says of
every inode: what it lacks, some process that has it open still has to write,
namely the one that truncated it last; and when nobody has it open it is
complete if it stands at a path. `SharedInv` is that of all inodes.

**Text embedding** (`TextEmbeddingProofs`; any texts and token counts, batch
sizes, dimensions, depth of nested calls; `TextsAssumption`,
`BatchSizeAssumption`, `DimAssumption`, `NoneAssumption`). `EmbeddingsInPlace`
and `StreamsInOrder` share an invariant of every call on the stack. `Ordered`:
the order the texts are embedded in is a injection of the positions into
themselves, so that it leaves none out (`NoneLeftOut`), whatever sorting by
token count makes of equal lengths. `Placed`: where the dimensions fit (`Fits`),
the numbers of all batches run are where they belong, from the fact that row j
of a buffer of such rows begins at `(j - 1) * out_dim`; where they do not,
nothing is. `Streamed`: a stream has handed out the rows of the batches before
the last and some of the last. `Buffered`: the shared buffer has room for the
rows of a stream's last batch and begins with them until another call runs a
batch, which is the moment `fresh` turns false. A nested call changes the buffer
for all calls below it, so the invariant has to hold of the whole stack at once.

**C++ models** (`ModelWrappersProofs`; any objects, addresses, documents, shapes,
options and batch sizes; `SizesAssumption`, `ArgumentsAssumption`,
`ActivationAssumption` and `ShapesAssumption` (what models compute is a number,
and they answer something), `CallsAssumption`, `MarkersAssumption`).

- `OwnersUnique` is proved as `Handles`: every handle is a live context that was
  handed out, no two objects share one, and every such context has a handle;
  counting owners is then a matter of a set of one element or none.
- `RankingsAreOwn`, `SparseVectorsAreOwn` and `ImageRowsAreOwn` are about what one
  call computes. The lemmas are on `Rank` and `Ascending`, which list a finite set
  of numbers in its order; on the division and remainder that find a row in a
  flat tensor; on the batches of a call, which cover each position once; and on
  a padded row, whose mask is 1 exactly at the text's own tokens. The invariant
  then only keeps the result of the call in progress.
- `ResultsHandled` rests on `Kept`: what a call leaves its caller has as many
  items as it counts and as many values as indices, unless an allocation failed,
  and nothing to free after an error. Every error path of the four calls is shown
  to leave such a result.
- `OrphansAreThrown` rests on `Clean`: an outcome without a message orphaned
  nothing. For the ORT sequences of `OnnxSession` this is that everything they
  make is released when they run to their end, which is computed step by step.
- `CropsStayInside`: for every target, every largest `int` and every picture of
  moderate proportions, the window fits, from the facts about truncated division
  that a side at least as long as the other is not made shorter than the target
  and that the margin halved twice is no more than the margin; and the image has
  all its bytes, as the longer side is at most the target times the proportion
  (`LongerSideBounded`), so that nothing is narrowed.

**Tuning cache** (`TuneCacheProofs`; any processes, machines, models,
configurations and size of the array; `BoundsAssumption`, `MarkersAssumption`).
`HitsWereSaved` and `BestAlwaysHeld` share `Whole`, which holds until two
processes have a file open of which one writes: both parts of every file, if it
has both, are of one text (`FileWhole`), which is made of members some save was
given, and so is what every call in progress has read or will write
(`CallWhole`); no two processes write one file (`OneWriter`); and a member's
best index is one it holds. Without the parts in flight it is not inductive: a
reader whose head is that of the file now must find the same tail. `ExactAlone`
adds `Alone`: while nothing was disturbed one process saves at a time and has
the file the path leads to, and a lookup in what it will write answers what
`acked` will say. A lookup takes the first of several members of a key, so that
appending one changes no answer there was; that a key which is in the list has a
first member is the lemma `LeastElement`.

**Autotuners** (`AutoTunerProofs`; any processes, grids, objectives, budgets,
calls and crashes; `ConfigAssumption`, `ConfigsAssumption`, `BoundsAssumption`,
`MarkersAssumption` and `LatencyAssumption`: latencies are positive and below 20
seconds, from where on the code's score of a working configuration is no better
than that of none). `AnswersAreBest` needs that at every turn the best so far
has the best score of what was seen and fits (`Chosen`). For the
other tuners a configuration without a context has to rank behind every other,
for each objective (`UnmeasuredIsSlow`, `BetterCost`); the text tuner compares
scores and nothing else (`BetterText`), so there the theorem is about all that
was seen. `ConstraintsAreHeld` needs besides that what a bounded tuner has left
or has seen is within its bound on tokens (`Enough`), and that a tuner which
fell back saw only latencies above its budget. `EmptyFilesAreWritten` is
inductive with the types of the jobs.

**Tokenizer** (`TokenizerProofs`; any texts, files, vocabularies, merges, limits
and batches; `BytesAssumption`: the classes of bytes are apart, a lead byte
claims two to four bytes and limits are at least 1; `MergesAssumption`,
`NoneAssumption`). `Inv` only says that the wrapper stays as it was loaded and
that the batch is what `encode_batch` makes of the texts; the work is in what
its operators compute. All recursion is over places of a sequence and looks
ahead only. `Scan` is that a function with such steps is there, without which
nothing is known of any of its values, and `FromTheStart` and `FromTheEnd` are
induction over places as an argument about the least counterexample, with a set
for the predicate.

- `Framed`: what `encode_single` yields, by `Len(ids) > max_length` or not
  (`EncodeSingleIs`), and `FlattenSeq` of sequences of ids.
- `RowsStandAlone`: `BatchRow` says of a row of the batch that the mask stops
  where the ids of its text do, which is where `Ids` cuts it.
- `EncodedAsReference`, words: from any place the scan can be in (`Ready`: between
  two characters, nothing but letters since `start`) it yields the runs of the
  text from `start` on, each once and in order (`WordsCover`). For this the text
  has to be UTF-8, which lower-casing keeps (`ProcessedWellFormed`).
- WordPiece: the scan yields the ids of a greedy segmentation
  (`PiecesAreGreedy`), and two greedy segmentations go together as far as one
  of them goes (`GreedyTogether`), so that there is one. The theorem uses this of
  the words it covers and of those it does not begin.
- BPE: searching for the best pair of all, again and again, gives what one pass
  per merge gives. `Between` says where the search stands in terms of the passes:
  the passes so far, the next one begun and finished from here. A merge of the
  search is one step of a pass, as the leftmost pair goes first
  (`MergeAllFirst`), and passes without a pair are skipped (`Advances`). That no
  earlier merge applies again (`NoneComesBack`) is where `Trained` is used: what
  a merge makes is a half of later merges only (`MadeLater`). It needs besides
  that every symbol but the last is as long as its first byte claims (`Filled`),
  since the halves of a merge could be one cut-off character otherwise. The loop
  ends because each round makes the symbols one fewer.

Only model-checked: the six liveness properties, `EveryRequestSettled`,
`StopReturns`, `DestructorReturns`, `DirectCallReturns`, `CallReturns` and
`EventuallyCached`, which the proof system cannot reach. Every safety invariant
and action property of a run that passes is a theorem. The library's induction
theorems cannot be used, so where something is computed by recursion a least
counterexample replaces them: the first member of a key (`LeastElement`), the
next position of a grid, the concatenation of a call's batches (`Flattened`), the
scans of the tokenizer. `TypeCorrect` and `CapacityKept` of the cache,
`EmbeddingTypeCorrect`, and the two theorems on the scheduler alone, are proved
and no part of a run.

## Findings

1. `submit` (`llama_scheduler_impl.hpp:75-79`) calls `get()` on a future it has
   just moved into the queue, so no call of `embed_scheduled` ever returns an
   embedding: it throws while its request waits. The worker then answers a
   promise nobody looks at. (`scheduler_submit`)
2. `embed_stream` (`embedding_pool.hpp:134`) marks workers without texts in a
   `vector<bool>` without the lock the other threads hold; a lost mark drops
   the embeddings of a worker and of all behind it. (`stream_race`)

The models also show, or reading for them did, without a run of their own:

- *Session pool.* Freed contexts are used when a pool is destroyed with its
  scheduler enabled; `FreedOnlyUnderScheduler` says it is the only way.
- *Downloader.* Two processes share a `.tmp` (`downloader_impl.hpp:155`) and can
  put a file at its final path that is not complete yet; if the writer dies it
  stays so, which is why `TornOnlyWhileWritten` is stated without crashes. Two
  that keep retrying can undo each other's work for ever.
- *Embedding pool.* A failing batch is dropped without a trace
  (`embedding_pool.hpp:230`).
- *Text embedding.* Nothing compares the dimension a caller or a config file
  states with the model's (`text_embedding_impl.hpp:185`, `:243-260`): with
  another one `embed` reads rows at the wrong stride (`:366`) and, with a larger
  one, behind the end of the buffer, in `embed_stream` too. Length bucketing is
  said to minimize padding (`types.h:282`); sorted longest first
  (`text_embedding_impl.hpp:301`), three texts can need more padding than
  unsorted. With `auto_workers` a llama.cpp context makes embeddings of length
  0. A stream's callback that uses its own context again gets the wrong rows for
  the rest of its batch.
- *Tuners.* A configuration whose contexts could not be created scores 0
  (`autotune_bench_text.hpp:241`), which beats a working one slower than about
  60 ms per text. No benchmark looks at the status of the calls it times, so
  that one whose calls fail at once looks fast. A cache file found empty is
  answered with memory nobody initialised, a stored result answers calls of any
  objective and mode, and clearing the reranker's cache of one model removes a
  path no tuner writes.
- *Tuning cache.* `README.md:703` counts cores, memory, SIMD and quantization
  among the fingerprint; the key has processor, system, versions, model and back
  end, and outside Windows the processor is "unknown". A second save of a key
  never takes effect, a loaded entry that is saved again is stored under the
  blank key, and a configuration beyond the sixteenth is dropped silently, as is
  the wish to name it the best. Two saves at the same time can leave a file whose
  head is of one and whose tail is of the other, and a load may answer an entry
  nobody saved or, as the index is not checked (`autotune_cache_impl.hpp:178`),
  one whose best configuration it does not hold.
- *Reranker, image.* With a model that has a sequence dimension, documents after
  the first of a batch get numbers of their neighbours. An image with a side
  14,266 times the other overflows the `int` its resized size is reckoned in
  (`image_preprocess.hpp:163`, `:194`). `create_from_path` never recognises a
  `.gguf` file (`reranker.h:231`). The reranker's " [SEP] "
  is split by the tokenizer into "[", "sep" and "]".
- *Sparse.* `SparseEmbeddingModel::embed` does not compile
  (`sparse_embedding_model.hpp:101`). After a failed allocation a result says OK
  with an item that has a length and no arrays, or an error with a count the
  free then walks (`types.h:418`).
- *Tokenizer.* A word of which only the beginning is known loses its tail, where
  the comment at `tokenizer_impl.hpp:380` has [UNK] for the whole and BERT does
  it; a `Sequence` normalizer without `Lowercase` lower-cases all the same;
  merges written as pairs are ignored.
- *C++ and Python.* `embedding_model.hpp:145` casts an array of `std::string` to
  an array of `const char*`; `pool.py:49` calls a method that does not exist;
  `text_embedding.py:241` ignores the status of a stream.

## Not modelled, and why

- `load_from_file` of the session pool (its callers give up when it fails),
  `embed_batch_bucketed` (only a benchmark calls it), `LlamaSession` (one
  straight line without state), the constructor and `close` of the embedding
  pool (sequential).
- `EmbeddingModel`: the same class as the three of `ModelWrappers`, over the
  dense context; the providers above it only route.
- Floating-point work (pooling, normalisation, pixels, similarity): out of TLC's
  reach. Embeddings are names with places in them, norms are the set of cells
  they are taken over, and the side of a resized image is divided without
  rounding to `float`.
- JSON syntax, the texts of error messages, the choice of an execution provider.
- Registries, loader and selector: constant tables. Worker heuristics: arithmetic
  on the machine's description. Benchmarks: measurements.
- Python classes, but for the two places `ModelWrappers` takes from them: a thin
  translation of one C call each, serialised by the interpreter.
- llama.cpp, ONNX Runtime, libcurl, stb and cJSON: external, modelled only by
  what their callers see of them.
- Weak memory beyond the race on `done`, power loss without fsync, exceptions
  that end a process.

## What is left

1. `EmbeddingModel` beside the other wrappers, over `TextEmbedding`.
2. `load_from_file` of the session pool with a context that cannot be created; a
   scheduler with a batch size of 0.
3. The Python classes: handles, pool and sampling iterator.
