---------------------------- MODULE EmbeddingPool ----------------------------
(***************************************************************************)
(* lembed::EmbeddingPool (cpp/embedding_pool.hpp): one call of embed or of *)
(* embed_stream over total texts.  Each worker embeds a contiguous range   *)
(* of texts in batches of bs on its own thread.  embed collects the        *)
(* workers' futures in order; embed_stream lets each finishing thread      *)
(* yield, under mtx, the results of every worker whose turn has come.      *)
(*                                                                         *)
(* done is a std::vector<bool>: setting one element is a load and a store  *)
(* of the word that holds them all (num_workers_ is at most 64).  The      *)
(* thread that spawns the workers sets the elements of workers without     *)
(* texts WITHOUT the mutex, so the two halves of its write may surround    *)
(* those of a worker, and a worker's may surround its.                     *)
(*                                                                         *)
(* Text i stands for its own embedding.  Not modelled: exceptions thrown   *)
(* in a worker thread, which end the process.                              *)
(***************************************************************************)
EXTENDS Integers, SequencesExt

CONSTANTS
  num_workers_,
  MaxTotal,    \* bound on the number of texts of a call
  bs,          \* batch size in use, positive
  CanFail      \* lembed_text_embedding_embed may return an error

ASSUME PoolAssumption ==
  /\ num_workers_ \in Nat \ {0}
  /\ MaxTotal \in Nat \ {0}
  /\ bs \in Nat \ {0}
  /\ CanFail \in BOOLEAN

Worker == 0..(num_workers_ - 1)
Main == -1 \* the calling thread, and the mutex held by nobody

VARIABLES
  call,            \* "embed" or "embed_stream"
  total,           \* texts.size(); an empty input returns at once
  main,            \* program counter of the calling thread
  next_spawn,      \* its loop variable w
  thread,          \* [Worker -> program counter of the worker's thread]
  pos,             \* [Worker -> the i of embed_subset]
  partial_results, \* [Worker -> embeddings of its texts, so far]
  word,            \* the word behind done: the set of workers marked done
  loaded,          \* [Worker \cup {Main} -> the word a writer has loaded]
  mtx,             \* the worker that holds the mutex, or Main
  next_to_yield,   \* in embed: the future collected next
  yielded,         \* embeddings handed to the callback, or pushed to result
  failed           \* history: texts of batches whose embed call failed

pool_vars == <<call, total, main, next_spawn, thread, pos, partial_results, word, loaded,
          mtx, next_to_yield, yielded, failed>>

Text == 0..(total - 1)

\* Mutant: the division rounds down, the last texts belong to nobody.
per_worker_floor == total \div num_workers_

per_worker == (total + num_workers_ - 1) \div num_workers_
Begin(w) == w * per_worker
End(w) == IF Begin(w) + per_worker < total THEN Begin(w) + per_worker ELSE total
HasTexts(w) == Begin(w) < End(w)

PoolInit ==
  /\ total \in 1..MaxTotal
  /\ call \in {"embed", "embed_stream"}
  /\ main = "spawning"
  /\ next_spawn = 0
  /\ thread = [w \in Worker |-> "none"]
  /\ pos = [w \in Worker |-> Begin(w)]
  /\ partial_results = [w \in Worker |-> <<>>]
  /\ word = {}
  /\ loaded = [x \in Worker \cup {Main} |-> {}]
  /\ mtx = Main
  /\ next_to_yield = 0
  /\ yielded = <<>>
  /\ failed = {}

-----------------------------------------------------------------------------
\* The calling thread.
Spawn ==
  /\ main = "spawning"
  /\ next_spawn < num_workers_
  /\ HasTexts(next_spawn)
  /\ thread' = [thread EXCEPT ![next_spawn] = "embedding"]
  /\ next_spawn' = next_spawn + 1
  /\ UNCHANGED <<call, total, main, pos, partial_results, word, loaded, mtx,
                 next_to_yield, yielded, failed>>

\* embed leaves the loop at the first worker without texts.
StopSpawning ==
  /\ main = "spawning"
  /\ \/ next_spawn = num_workers_
     \/ call = "embed" /\ ~HasTexts(next_spawn)
  /\ main' = IF call = "embed" THEN "collecting" ELSE "joining"
  /\ UNCHANGED <<call, total, next_spawn, thread, pos, partial_results, word, loaded,
                 mtx, next_to_yield, yielded, failed>>

\* embed_stream: done[w] = true for a worker without texts, no lock held.
MarkIdleLoad ==
  /\ main = "spawning"
  /\ call = "embed_stream"
  /\ next_spawn < num_workers_
  /\ ~HasTexts(next_spawn)
  /\ loaded' = [loaded EXCEPT ![Main] = word]
  /\ main' = "marking"
  /\ UNCHANGED <<call, total, next_spawn, thread, pos, partial_results, word, mtx,
                 next_to_yield, yielded, failed>>

MarkIdleStore ==
  /\ main = "marking"
  /\ word' = loaded[Main] \cup {next_spawn}
  /\ next_spawn' = next_spawn + 1
  /\ main' = "spawning"
  /\ UNCHANGED <<call, total, thread, pos, partial_results, loaded, mtx,
                 next_to_yield, yielded, failed>>

\* embed: the next future in order is ready.
Collect ==
  /\ main = "collecting"
  /\ next_to_yield < next_spawn
  /\ thread[next_to_yield] = "finished"
  /\ yielded' = yielded \o partial_results[next_to_yield]
  /\ next_to_yield' = next_to_yield + 1
  /\ UNCHANGED <<call, total, main, next_spawn, thread, pos, partial_results, word,
                 loaded, mtx, failed>>

ReturnAll ==
  /\ \/ main = "collecting" /\ next_to_yield = next_spawn
     \/ main = "joining" /\ \A w \in Worker : thread[w] \in {"none", "finished"}
  /\ main' = "returned"
  /\ UNCHANGED <<call, total, next_spawn, thread, pos, partial_results, word, loaded,
                 mtx, next_to_yield, yielded, failed>>

-----------------------------------------------------------------------------
\* The threads of the workers.
BatchEnd(w) == IF pos[w] + bs < End(w) THEN pos[w] + bs ELSE End(w)

BatchTexts(w) == [k \in 1..(BatchEnd(w) - pos[w]) |-> pos[w] + k - 1]

\* One batch of embed_subset.  A batch that fails leaves no trace in result.
EmbedBatch(w) ==
  /\ thread[w] = "embedding"
  /\ pos[w] < End(w)
  /\ pos' = [pos EXCEPT ![w] = @ + bs]
  /\ \/ /\ partial_results' = [partial_results EXCEPT ![w] = @ \o BatchTexts(w)]
        /\ UNCHANGED failed
     \/ /\ CanFail
        /\ failed' = failed \cup (pos[w]..(BatchEnd(w) - 1))
        /\ UNCHANGED partial_results
  /\ UNCHANGED <<call, total, main, next_spawn, thread, word, loaded, mtx,
                 next_to_yield, yielded>>

\* embed: embed_subset returns and the future becomes ready.
SetFuture(w) ==
  /\ call = "embed"
  /\ thread[w] = "embedding"
  /\ pos[w] >= End(w)
  /\ thread' = [thread EXCEPT ![w] = "finished"]
  /\ UNCHANGED <<call, total, main, next_spawn, pos, partial_results, word, loaded,
                 mtx, next_to_yield, yielded, failed>>

\* embed_stream: lock mtx, store the results and begin done[w] = true.
LockAndLoad(w) ==
  /\ call = "embed_stream"
  /\ thread[w] = "embedding"
  /\ pos[w] >= End(w)
  /\ mtx = Main
  /\ mtx' = w
  /\ loaded' = [loaded EXCEPT ![w] = word]
  /\ thread' = [thread EXCEPT ![w] = "marking"]
  /\ UNCHANGED <<call, total, main, next_spawn, pos, partial_results, word,
                 next_to_yield, yielded, failed>>

MarkDone(w) ==
  /\ thread[w] = "marking"
  /\ word' = loaded[w] \cup {w}
  /\ thread' = [thread EXCEPT ![w] = "draining"]
  /\ UNCHANGED <<call, total, main, next_spawn, pos, partial_results, loaded, mtx,
                 next_to_yield, yielded, failed>>

\* The condition of the loop that yields.
TurnIsDone == next_to_yield < num_workers_ /\ next_to_yield \in word

\* Mutant: a thread yields its own results whatever the turn.
ResultsOfYielder(w) == partial_results[w]

\* What a thread yields next: the results of the worker whose turn it is, not
\* necessarily its own.
ResultsInTurn(w) == partial_results[next_to_yield]

Yield(w) ==
  /\ thread[w] = "draining"
  /\ TurnIsDone
  /\ yielded' = yielded \o ResultsInTurn(w)
  /\ next_to_yield' = next_to_yield + 1
  /\ UNCHANGED <<call, total, main, next_spawn, thread, pos, partial_results, word,
                 loaded, mtx, failed>>

\* Mutant: the mutex stays locked.
UnlockNever(w) ==
  /\ thread[w] = "draining"
  /\ ~TurnIsDone
  /\ thread' = [thread EXCEPT ![w] = "finished"]
  /\ UNCHANGED <<call, total, main, next_spawn, pos, partial_results, word, loaded,
                 mtx, next_to_yield, yielded, failed>>

Unlock(w) ==
  /\ thread[w] = "draining"
  /\ ~TurnIsDone
  /\ mtx' = Main
  /\ thread' = [thread EXCEPT ![w] = "finished"]
  /\ UNCHANGED <<call, total, main, next_spawn, pos, partial_results, word, loaded,
                 next_to_yield, yielded, failed>>

MainStep ==
  Spawn \/ StopSpawning \/ MarkIdleLoad \/ MarkIdleStore \/ Collect \/ ReturnAll

ThreadStep(w) ==
  \/ EmbedBatch(w) \/ SetFuture(w) \/ LockAndLoad(w) \/ MarkDone(w)
  \/ Yield(w) \/ Unlock(w)

PoolNext ==
  \/ Spawn \/ StopSpawning \/ MarkIdleLoad \/ MarkIdleStore \/ Collect \/ ReturnAll
  \/ \E w \in Worker :
       \/ EmbedBatch(w) \/ SetFuture(w) \/ LockAndLoad(w) \/ MarkDone(w)
       \/ Yield(w) \/ Unlock(w)

\* Every thread runs on; a worker locks mtx once, so the mutex needs no
\* fairness of its own.
PoolSpec == PoolInit /\ [][PoolNext]_pool_vars /\ WF_pool_vars(MainStep)
             /\ \A w \in Worker : WF_pool_vars(ThreadStep(w))

-----------------------------------------------------------------------------
\* Embeddings come out in the order of their texts, none of them twice,
\* whatever order the workers finish in, whatever batches fail and whatever
\* the race on done loses.
InTextOrder ==
  \A i, j \in 1..Len(yielded) : i < j => yielded[i] < yielded[j]

\* When the call returns, a text has no embedding only because the batch it
\* was in failed.
MissingOnlyIfFailed ==
  main = "returned" => \A x \in Text : Contains(yielded, x) \/ x \in failed

\* The same of every call but those of embed_stream that leave a worker without
\* texts: the unlocked write of that worker's element of done is the one thing
\* that can lose the turn of another, for embed has no done at all.
LostOnlyBesideIdleWorkers ==
  (call = "embed" \/ \A w \in Worker : HasTexts(w)) => MissingOnlyIfFailed

\* The call returns: no worker waits for a turn that never comes.
CallReturns == <>(main = "returned")
=============================================================================
