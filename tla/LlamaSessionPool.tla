-------------------------- MODULE LlamaSessionPool --------------------------
(***************************************************************************)
(* LlamaSessionPool with its scheduler: LlamaContexts (the contexts and    *)
(* embed) composed with LlamaScheduler (queue, worker, stop).  The         *)
(* scheduler's worker thread is one more caller of embed: its process_batch_*)
(* is embed_batch, one embed per text of the batch, and the first embed    *)
(* that throws makes the whole batch fail.  Client threads call embed      *)
(* directly at the same time.                                              *)
(***************************************************************************)
EXTENDS LlamaContexts, SequencesExt

CONSTANTS
  Worker,          \* the scheduler's worker thread, the other threads are clients
  max_batch_size_,
  MaxDirectCalls   \* bound on the direct calls of embed

ASSUME WorkerAssumption ==
  Worker \in Thread /\ MaxDirectCalls \in Nat /\ max_batch_size_ \in Nat

VARIABLES
  stop_, requests_, worker, batch, embeddings, promise, caller, object,
  done,       \* results embed_batch has collected for the batch
  direct,     \* number of direct calls made
  pool,       \* "alive", "destroying" or "gone"
  usedFreed,  \* history: llama code ran on a freed context
  batches,    \* history: the batches the worker took, each the set of its texts
  threw       \* history: the texts whose encoder call threw in the worker

schedVars == <<stop_, requests_, worker, batch, embeddings, promise, caller, object>>
history == <<batches, threw>>
vars == <<schedVars, ctxVars, done, direct, pool, usedFreed, history>>

Client == Thread \ {Worker}

\* A request is one call of embed_scheduled, identified with its text.
Sched == INSTANCE LlamaScheduler WITH Request <- Text

Init ==
  /\ Sched!Init
  /\ ContextsInit
  /\ done = <<>>
  /\ direct = 0
  /\ pool = "alive"
  /\ usedFreed = FALSE
  /\ batches = {}
  /\ threw = {}

\* enable_scheduler: only when there is none.
EnableScheduler ==
  /\ pool = "alive"
  /\ Sched!Construct
  /\ UNCHANGED <<ctxVars, done, direct, pool, usedFreed, history>>

\* embed_scheduled.
EmbedScheduled(r) ==
  /\ pool = "alive"
  /\ Sched!Submit(r) \/ Sched!Get(r)
  /\ UNCHANGED <<ctxVars, done, direct, pool, usedFreed, history>>

\* A client thread enters embed.
EmbedDirect(t, r) ==
  /\ pool = "alive"
  /\ direct < MaxDirectCalls
  /\ direct' = direct + 1
  /\ Pick(t, r)
  /\ UNCHANGED <<schedVars, done, pool, usedFreed, history>>

\* The thread is not about to run llama code on a freed context or model.
Sound(t) == ~(freed /\ Using(t))

ClientStep(t) ==
  /\ Sound(t)
  /\ CallStep(t)
  /\ UNCHANGED <<schedVars, done, direct, pool, usedFreed, history>>

\* A thread runs on a context ~LlamaSessionPool has freed.  What follows is
\* undefined: the model records it and ends.
UseAfterFree ==
  /\ \E t \in Thread : ~Sound(t)
  /\ usedFreed' = TRUE
  /\ UNCHANGED <<schedVars, ctxVars, done, direct, pool, history>>

-----------------------------------------------------------------------------
WorkerLoop ==
  /\ \/ Sched!TakeBatch /\ batches' = batches \cup {ToSet(batch')}
     \/ (Sched!Exit \/ Sched!AnswerNext) /\ UNCHANGED batches
  /\ UNCHANGED <<ctxVars, done, direct, pool, usedFreed, threw>>

\* embed_batch enters embed for the next text of the batch.
WorkerPick ==
  /\ worker = "processing"
  /\ call[Worker].pc = "idle"
  /\ Len(done) < Len(batch)
  /\ Pick(Worker, batch[Len(done) + 1])
  /\ UNCHANGED <<schedVars, done, direct, pool, usedFreed, history>>

WorkerInEmbed ==
  /\ Sound(Worker)
  /\ Lock(Worker) \/ Encode(Worker)
  /\ UNCHANGED <<schedVars, done, direct, pool, usedFreed, history>>

\* Mutant: results are collected in reverse order.
CollectedInFront(e) == <<e>> \o done

Collected(e) == Append(done, e)

\* embed returned: push_back; after the last text the batch is finished.
WorkerFetch ==
  LET out == Collected(Sched!Embedding(content[call[Worker].idx]))
  IN  /\ Sound(Worker)
      /\ Fetch(Worker)
      /\ IF Len(out) = Len(batch)
           THEN Sched!Finish(out) /\ done' = <<>>
           ELSE done' = out /\ UNCHANGED schedVars
      /\ UNCHANGED <<direct, pool, usedFreed, history>>

\* Mutant: the texts before the one that failed keep their embeddings.
ThrownResultPartial ==
  [i \in 1..Len(batch) |-> IF i <= Len(done) THEN done[i] ELSE Sched!Empty]

ThrownResult == [i \in 1..Len(batch) |-> Sched!Empty]

\* embed threw: the worker catches it and gives every text an empty vector.
WorkerEmbedThrows ==
  /\ Sound(Worker)
  /\ EncodeFails(Worker)
  /\ Sched!Finish(ThrownResult)
  /\ done' = <<>>
  /\ threw' = threw \cup {call[Worker].text}
  /\ UNCHANGED <<direct, pool, usedFreed, batches>>

-----------------------------------------------------------------------------
Quiet == (\A t \in Client : call[t].pc = "idle") /\ (\A r \in Text : caller[r] # "get")

\* disable_scheduler: stop, join, reset.
DisableScheduler ==
  /\ pool = "alive"
  /\ Sched!Stop \/ Sched!Join \/ Sched!Destroy
  /\ UNCHANGED <<ctxVars, done, direct, pool, usedFreed, history>>

\* ~LlamaSessionPool: the body frees the contexts; scheduler_, a member, is
\* destroyed after the body.  The owner destroys the pool when no client is
\* inside embed or embed_scheduled and disable_scheduler is not under way.
DestroyPool ==
  /\ pool = "alive"
  /\ Quiet
  /\ object \in {"none", "running"}
  /\ FreeContexts
  /\ pool' = "destroying"
  /\ UNCHANGED <<schedVars, done, direct, usedFreed, history>>

DestroyMembers ==
  /\ pool = "destroying"
  /\ \/ /\ Sched!Stop \/ Sched!Join \/ Sched!Destroy
        /\ UNCHANGED pool
     \/ /\ object = "none"
        /\ pool' = "gone"
        /\ UNCHANGED schedVars
  /\ UNCHANGED <<ctxVars, done, direct, usedFreed, history>>

WorkerStep ==
  WorkerLoop \/ WorkerPick \/ WorkerInEmbed \/ WorkerFetch \/ WorkerEmbedThrows

Next ==
  /\ ~usedFreed
  /\ \/ EnableScheduler
     \/ \E r \in Text : EmbedScheduled(r)
     \/ \E t \in Client, r \in Text : EmbedDirect(t, r)
     \/ \E t \in Client : ClientStep(t)
     \/ WorkerLoop \/ WorkerPick \/ WorkerInEmbed \/ WorkerFetch \/ WorkerEmbedThrows
     \/ DisableScheduler
     \/ DestroyPool
     \/ DestroyMembers
     \/ UseAfterFree

\* Threads inside the library run on; std::mutex hands itself to one of the
\* waiting threads, and with finitely many direct calls none waits forever.
Fairness ==
  /\ WF_vars(~usedFreed /\ (WorkerStep \/ UseAfterFree))
  /\ \A t \in Client : WF_vars(~usedFreed /\ ClientStep(t))
  /\ \A r \in Text : WF_vars(~usedFreed /\ caller[r] = "get" /\ EmbedScheduled(r))
  /\ WF_vars(~usedFreed /\ object \in {"stopping", "joined"} /\ DisableScheduler)
  /\ WF_vars(~usedFreed /\ DestroyMembers)

Spec == Init /\ [][Next]_vars /\ Fairness

-----------------------------------------------------------------------------
TypeOK ==
  /\ Sched!TypeOK
  /\ ContextsTypeOK
  /\ done \in Seq({Sched!Embedding(r) : r \in Text})
  /\ direct \in 0..MaxDirectCalls
  /\ pool \in {"alive", "destroying", "gone"}
  /\ usedFreed \in BOOLEAN
  /\ batches \subseteq SUBSET Text /\ threw \subseteq Text

\* No call ever sees another call's data, though contexts, their buffers and
\* the results vector are shared by clients and the worker.
EmbeddingsNeverMixed ==
  /\ OwnEmbedding
  /\ \A r \in Text : promise[r].kind = "value" => promise[r].of = r
  /\ \A i \in 1..Len(done) : done[i].of = batch[i]

\* A freed context is used in one circumstance only: the pool is destroyed
\* while its scheduler is still enabled.  Disabling the scheduler first is
\* enough for memory safety, because stop() joins the worker.
FreedOnlyUnderScheduler ==
  freed /\ (\E t \in Thread : Using(t)) => object # "none" /\ pool # "alive"

\* One text whose encoder call throws fails its whole batch, and no other: of
\* the requests that were answered, exactly those failed that were taken in one
\* batch with a text that threw, whatever is queued, answered and encoded
\* before and after.
BatchFailsAsAWhole ==
  \A r \in Text : promise[r] \in {Sched!Failure, Sched!Embedding(r)} =>
    (promise[r] = Sched!Failure <=> \E b \in batches : r \in b /\ b \cap threw # {})

\* The pool's destructor ends: the worker leaves its loop and is joined.
DestructorReturns == pool = "destroying" ~> pool = "gone" \/ usedFreed

\* Every direct call of embed returns or throws.
DirectCallReturns == \A t \in Client : call[t].pc = "picked" ~> call[t].pc = "idle"

\* With the session pool as its process_batch_ the scheduler takes only the
\* steps LlamaScheduler allows.
ImplementsScheduler == Sched!Init /\ [][Sched!Next]_schedVars

\* So the texts given to embed_scheduled are served by a first-in-first-out
\* service, each with its own embedding or an error, whoever else encodes on
\* the same contexts.
ImplementsFifo == Sched!ImplementsFifo

\* disable_scheduler and the destructor return from stop() only after
\* embed_batch has ended and the batch in flight is answered.
StopFinishesBatch == Sched!StopFinishesBatch
=============================================================================
