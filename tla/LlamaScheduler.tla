--------------------------- MODULE LlamaScheduler ---------------------------
(***************************************************************************)
(* LlamaScheduler (detail/llama_scheduler_impl.hpp): callers push requests *)
(* under mtx_, one worker thread pops up to max_batch_size_ of them, runs  *)
(* process_batch_ on their texts outside the lock and answers the promises *)
(* one by one; stop() sets a flag and joins.  A request is one call of     *)
(* submit, identified with its text.                                       *)
(*                                                                         *)
(* The wait is cv_.wait_for with a finite timeout and a predicate, so the  *)
(* worker wakes whether or not a notification reaches it; a wake-up that   *)
(* finds the predicate false changes nothing and is a stuttering step.     *)
(*                                                                         *)
(* submit pushes {move(p), move(f), ...} and then calls f.get() on the     *)
(* moved-from future.  libstdc++ and MSVC throw future_error(no_state)     *)
(* there; an unhardened libc++ dereferences null, which ends the process   *)
(* and is not modelled further.                                            *)
(***************************************************************************)
EXTENDS Integers, SequencesExt

CONSTANTS
  Request,
  max_batch_size_,
  None

ASSUME BatchSizeAssumption == max_batch_size_ \in Nat
ASSUME NoneAssumption == None \notin Request

VARIABLES
  stop_,      \* the stop flag
  requests_,  \* the queue, oldest first
  worker,     \* program counter of the worker thread
  batch,      \* the requests the worker took and has not answered
  embeddings, \* what process_batch_ returned for them, same order
  promise,    \* [Request -> "unmade", "pending" or its answer]
  caller,     \* [Request -> program counter of the thread in submit]
  object      \* life of the scheduler object and progress of stop()

vars == <<stop_, requests_, worker, batch, embeddings, promise, caller, object>>

Embedding(r) == [kind |-> "value", of |-> r]
Failure == [kind |-> "exception", of |-> None]
Broken == [kind |-> "broken", of |-> None]
Pending == [kind |-> "pending", of |-> None]
Unmade == [kind |-> "unmade", of |-> None]

Answers == {Embedding(r) : r \in Request} \cup {Failure, Broken}

Empty == [kind |-> "empty", of |-> None] \* a zero-length vector

Init ==
  /\ stop_ = FALSE
  /\ requests_ = <<>>
  /\ worker = "none"
  /\ batch = <<>>
  /\ embeddings = <<>>
  /\ promise = [r \in Request |-> Unmade]
  /\ caller = [r \in Request |-> "out"]
  /\ object = "none"

-----------------------------------------------------------------------------
\* The constructor starts the worker thread.
Construct ==
  /\ object = "none"
  /\ object' = "running"
  /\ stop_' = FALSE
  /\ worker' = "waiting"
  /\ UNCHANGED <<requests_, batch, embeddings, promise, caller>>

\* submit, up to the end of the locked block.  Using the scheduler while it
\* is being destroyed is the caller's error, so callers come while it runs.
Submit(r) ==
  /\ object = "running"
  /\ caller[r] = "out"
  /\ promise[r] = Unmade
  /\ promise' = [promise EXCEPT ![r] = Pending]
  /\ requests_' = Append(requests_, r)
  /\ caller' = [caller EXCEPT ![r] = "get"]
  /\ UNCHANGED <<stop_, worker, batch, embeddings, object>>

\* f.get(): f was moved into the queue, so it has no shared state.
Get(r) ==
  /\ caller[r] = "get"
  /\ caller' = [caller EXCEPT ![r] = "no_state"]
  /\ UNCHANGED <<stop_, requests_, worker, batch, embeddings, promise, object>>

-----------------------------------------------------------------------------
\* Mutant: no batch before it is full.
TakeCountFull == IF Len(requests_) < max_batch_size_ THEN 0 ELSE max_batch_size_

\* How many requests one turn of the loop pops.
TakeCount == IF Len(requests_) < max_batch_size_ THEN Len(requests_)
             ELSE max_batch_size_

\* Mutant: the batch in reverse order.
TakenReversed == Reverse(SubSeq(requests_, 1, TakeCount))
Taken == SubSeq(requests_, 1, TakeCount)
Left == SubSeq(requests_, TakeCount + 1, Len(requests_))

\* Woken with requests and no stop: pop a batch.  With max_batch_size_ = 0
\* the batch stays empty and the worker goes round the loop again.
TakeBatch ==
  /\ worker = "waiting"
  /\ ~stop_
  /\ requests_ # <<>>
  /\ TakeCount > 0
  /\ batch' = Taken
  /\ requests_' = Left
  /\ worker' = "processing"
  /\ UNCHANGED <<stop_, embeddings, promise, caller, object>>

\* Mutant: the worker leaves only when the queue is empty.
ExitWhenDrained ==
  /\ worker = "waiting"
  /\ stop_
  /\ requests_ = <<>>
  /\ worker' = "exited"
  /\ UNCHANGED <<stop_, requests_, batch, embeddings, promise, caller, object>>

\* while (!stop_) and the check after the wait.
Exit ==
  /\ worker = "waiting"
  /\ stop_
  /\ worker' = "exited"
  /\ UNCHANGED <<stop_, requests_, batch, embeddings, promise, caller, object>>

\* process_batch_ filled result, or threw and left one empty vector per text.
Finish(result) ==
  /\ worker = "processing"
  /\ embeddings' = result
  /\ worker' = "answering"
  /\ UNCHANGED <<stop_, requests_, batch, promise, caller, object>>

Results ==
  {[i \in 1..Len(batch) |-> IF i \in bad THEN Empty ELSE Embedding(batch[i])] :
     bad \in SUBSET (1..Len(batch))}

Process == \E result \in Results : Finish(result)

\* What the promise at the head of the batch gets.  std::current_exception()
\* is null outside the catch block, so the error is always "Empty embedding".
AnswerFor(e) == IF e = Empty THEN Failure ELSE e

AnswerNext ==
  /\ worker = "answering"
  /\ promise' = [promise EXCEPT ![Head(batch)] = AnswerFor(Head(embeddings))]
  /\ batch' = Tail(batch)
  /\ embeddings' = Tail(embeddings)
  /\ worker' = IF Len(batch) = 1 THEN "waiting" ELSE "answering"
  /\ UNCHANGED <<stop_, requests_, caller, object>>

-----------------------------------------------------------------------------
\* stop(), first half.  The owner may not destroy the object under a caller
\* that is still inside submit.
Stop ==
  /\ object = "running"
  /\ \A r \in Request : caller[r] # "get"
  /\ stop_' = TRUE
  /\ object' = "stopping"
  /\ UNCHANGED <<requests_, worker, batch, embeddings, promise, caller>>

\* Mutant: the worker is detached instead of joined.
JoinNobody ==
  /\ object = "stopping"
  /\ object' = "joined"
  /\ UNCHANGED <<stop_, requests_, worker, batch, embeddings, promise, caller>>

\* worker_.join() returns when the worker has left its loop.
Join ==
  /\ object = "stopping"
  /\ worker = "exited"
  /\ object' = "joined"
  /\ UNCHANGED <<stop_, requests_, worker, batch, embeddings, promise, caller>>

\* The members are destroyed, and with the queue the promises still in it.
Destroy ==
  /\ object = "joined"
  /\ object' = "none"
  /\ worker' = "none"
  /\ promise' = [r \in Request |-> IF Contains(requests_, r) THEN Broken ELSE promise[r]]
  /\ requests_' = <<>>
  /\ UNCHANGED <<stop_, batch, embeddings, caller>>

WorkerStep == TakeBatch \/ Exit \/ Process \/ AnswerNext
OwnerStep == Stop \/ Join \/ Destroy

Next ==
  \/ Construct
  \/ \E r \in Request : Submit(r) \/ Get(r)
  \/ TakeBatch \/ Exit \/ Process \/ AnswerNext
  \/ Stop \/ Join \/ Destroy

\* The worker is a thread that always runs on; a caller inside submit runs
\* on; an owner inside stop() or the destructor runs on.
Fairness ==
  /\ WF_vars(WorkerStep)
  /\ WF_vars(Join \/ Destroy)
  /\ \A r \in Request : WF_vars(Get(r))

Spec == Init /\ [][Next]_vars /\ Fairness

-----------------------------------------------------------------------------
TypeOK ==
  /\ stop_ \in BOOLEAN
  /\ requests_ \in Seq(Request)
  /\ worker \in {"none", "waiting", "processing", "answering", "exited"}
  /\ batch \in Seq(Request)
  /\ embeddings \in Seq({Embedding(r) : r \in Request} \cup {Empty})
  /\ promise \in [Request -> Answers \cup {Pending, Unmade}]
  /\ caller \in [Request -> {"out", "get", "no_state"}]
  /\ object \in {"none", "running", "stopping", "joined"}

\* stop() returns only after the batch in flight is answered: what a stopped
\* scheduler abandons are requests no batch ever contained.
StopFinishesBatch == object \in {"joined", "none"} => batch = <<>>

\* The queue, the batch and the worker implement a first-in-first-out
\* service that answers every request with its own embedding or an error.
Fifo == INSTANCE FifoService WITH
  pending <- batch \o requests_,
  answer <- [r \in Request |-> IF promise[r] \in {Pending, Unmade} THEN None
                               ELSE promise[r]],
  open <- object # "none"

ImplementsFifo == Fifo!Spec

\* Under the worker's fairness no request is forgotten: each is answered, or
\* broken with the queue after the owner stopped the scheduler.
EveryRequestSettled ==
  \A r \in Request : promise[r] = Pending ~> promise[r] \in Answers

\* stop() never hangs: once the flag is set the worker leaves its loop and
\* the owner's join returns, whatever the worker was doing.
StopReturns == object = "stopping" ~> object = "joined"

\* What callers are told: submit hands back what the scheduler answered.  So
\* no call comes back while its request is still waiting.
SubmitWaitsForAnswer ==
  \A r \in Request : caller[r] \notin {"out", "get"} => promise[r] \in Answers
=============================================================================
