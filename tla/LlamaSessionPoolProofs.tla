----------------------- MODULE LlamaSessionPoolProofs -----------------------
(***************************************************************************)
(* What holds of the scheduler and of the session pool that gives it its   *)
(* process_batch_, for every set of threads and texts, every number of     *)
(* contexts, range of the counter and batch size.  The scheduler comes     *)
(* first, with any process_batch_ and on its own (Sched!Spec); then the    *)
(* contexts, the pool, and that the pool's scheduler is that scheduler.    *)
(***************************************************************************)
EXTENDS LlamaSessionPool, SequenceTheorems, TLAPS

USE DEF Client

-----------------------------------------------------------------------------
(* The scheduler. *)

\* What process_batch_ can return for a text.
Results == {Sched!Embedding(r) : r \in Text} \cup {Sched!Empty}

\* Where the worker stands says what it holds.
Held ==
  /\ worker = "processing" => batch # <<>>
  /\ worker = "answering" => batch # <<>> /\ Len(embeddings) = Len(batch)
  /\ worker \notin {"processing", "answering"} => batch = <<>>
  /\ object = "none" => worker = "none"
  /\ object = "joined" => worker = "exited"

\* What a promise is about to get is its own embedding, or nothing.
OwnNext ==
  worker = "answering" =>
    \A i \in 1..Len(batch) : embeddings[i] \in {Sched!Embedding(batch[i]), Sched!Empty}

\* The requests not answered yet, the oldest first.
Queued == batch \o requests_

\* A request waits in one place, and its promise is not yet set.
WaitsOnce ==
  /\ \A i \in 1..Len(Queued) : promise[Queued[i]] = Sched!Pending
  /\ \A i, j \in 1..Len(Queued) : Queued[i] = Queued[j] => i = j

SchedInv == Sched!TypeOK /\ Held /\ OwnNext /\ WaitsOnce

-----------------------------------------------------------------------------
(* Sequences. *)

\* Only the empty sequence has no length.
LEMMA NoLength == ASSUME NEW S, NEW s \in Seq(S) PROVE s = <<>> <=> Len(s) = 0
BY EmptySeq

\* A sequence cut in two is put together again.
LEMMA CutAndJoined ==
  ASSUME NEW S, NEW s \in Seq(S), NEW n \in 0..Len(s)
  PROVE  /\ SubSeq(s, 1, n) \in Seq(S)
         /\ SubSeq(s, n + 1, Len(s)) \in Seq(S)
         /\ Len(SubSeq(s, 1, n)) = n
         /\ SubSeq(s, 1, n) \o SubSeq(s, n + 1, Len(s)) = s
<1>1. Len(s) \in Nat /\ n \in Nat /\ \A i \in 1..Len(s) : s[i] \in S
  BY LenProperties, ElementOfSeq
<1>2. /\ SubSeq(s, 1, n) \in Seq(S)
      /\ Len(SubSeq(s, 1, n)) = n
  BY <1>1, SubSeqProperties
<1>3. SubSeq(s, n + 1, Len(s)) \in Seq(S)
  <2>1. n + 1 \in Int /\ Len(s) \in Int /\ \A i \in (n + 1)..Len(s) : s[i] \in S
    BY <1>1
  <2> QED BY <2>1, SubSeqProperties
<1>4. SubSeq(s, 1, n) \o SubSeq(s, n + 1, Len(s)) = SubSeq(s, 1, Len(s))
  <2>1. 1 \in 1..(Len(s) + 1) /\ n \in (1 - 1)..Len(s) /\ Len(s) \in n..Len(s)
    BY <1>1
  <2> QED BY <2>1, ConcatAdjacentSubSeq
<1> QED BY <1>2, <1>3, <1>4, SubSeqFull

\* The head and the tail of two sequences in a row are those of the first.
LEMMA HeadOfFirst ==
  ASSUME NEW S, NEW s \in Seq(S), NEW t \in Seq(S), s # <<>>
  PROVE  /\ Head(s \o t) = Head(s)
         /\ Tail(s \o t) = Tail(s) \o t
         /\ s \o t # <<>>
<1>1. /\ Len(s) \in Nat \ {0} /\ Len(t) \in Nat
      /\ s \o t \in Seq(S) /\ Len(s \o t) = Len(s) + Len(t)
      /\ \A i \in 1..(Len(s) + Len(t)) :
           (s \o t)[i] = IF i <= Len(s) THEN s[i] ELSE t[i - Len(s)]
  BY LenProperties, EmptySeq, ConcatProperties
<1>2. s \o t # <<>>
  BY <1>1, EmptySeq
<1>3. Head(s \o t) = Head(s)
  BY <1>1, <1>2
<1>4. /\ Tail(s) \in Seq(S) /\ Len(Tail(s)) = Len(s) - 1
      /\ \A i \in 1..Len(Tail(s)) : Tail(s)[i] = s[i + 1]
  BY HeadTailProperties
<1>5. /\ Tail(s \o t) \in Seq(S) /\ Len(Tail(s \o t)) = Len(s) + Len(t) - 1
      /\ \A i \in 1..Len(Tail(s \o t)) : Tail(s \o t)[i] = (s \o t)[i + 1]
  BY <1>1, <1>2, HeadTailProperties
<1>6. /\ Tail(s) \o t \in Seq(S) /\ Len(Tail(s) \o t) = Len(s) - 1 + Len(t)
      /\ \A i \in 1..(Len(s) - 1 + Len(t)) :
           (Tail(s) \o t)[i] = IF i <= Len(s) - 1 THEN Tail(s)[i] ELSE t[i - (Len(s) - 1)]
  BY <1>4, ConcatProperties
<1>7. ASSUME NEW i \in 1..Len(Tail(s \o t)) PROVE Tail(s \o t)[i] = (Tail(s) \o t)[i]
  <2>1. i \in Nat /\ i + 1 \in 1..(Len(s) + Len(t)) /\ i \in 1..(Len(s) - 1 + Len(t))
    BY <1>1, <1>5
  <2>2. CASE i <= Len(s) - 1
    BY <1>1, <1>4, <1>5, <1>6, <2>1, <2>2
  <2>3. CASE ~(i <= Len(s) - 1)
    <3>1. i + 1 - Len(s) = i - (Len(s) - 1) /\ ~(i + 1 <= Len(s))
      BY <1>1, <2>1, <2>3
    <3> QED BY <1>1, <1>5, <1>6, <2>1, <2>3, <3>1
  <2> QED BY <2>2, <2>3
<1>8. Tail(s \o t) = Tail(s) \o t
  BY <1>1, <1>5, <1>6, <1>7, SeqEqual
<1> QED BY <1>2, <1>3, <1>8

-----------------------------------------------------------------------------
(* The pending requests through each step. *)

\* The types of what waits.
LEMMA QueuedTyped ==
  ASSUME Sched!TypeOK
  PROVE  /\ Queued \in Seq(Text) /\ Len(Queued) \in Nat
         /\ \A i \in 1..Len(Queued) : Queued[i] \in Text
BY ConcatProperties, LenProperties, ElementOfSeq DEF Sched!TypeOK, Queued

\* submit puts its request at the end.
LEMMA SubmitAppends ==
  ASSUME Sched!TypeOK, NEW r \in Text, Sched!Submit(r)
  PROVE  Queued' = Append(Queued, r)
<1>1. batch \in Seq(Text) /\ requests_ \in Seq(Text) /\ <<r>> \in Seq(Text)
  BY DEF Sched!TypeOK
<1>2. requests_' = requests_ \o <<r>> /\ batch' = batch
  BY <1>1, AppendIsConcat DEF Sched!Submit
<1>3. Queued \in Seq(Text)
  BY QueuedTyped
<1>4. Append(Queued, r) = Queued \o <<r>>
  BY <1>3, AppendIsConcat
<1> QED BY <1>1, <1>2, <1>4, ConcatAssociative DEF Queued

\* Taking a batch off the queue keeps the order.
LEMMA TakeBatchKeeps ==
  ASSUME Sched!TypeOK, Held, Sched!TakeBatch
  PROVE  /\ Queued' = Queued
         /\ batch' \in Seq(Text) /\ requests_' \in Seq(Text) /\ batch' # <<>>
<1>1. /\ requests_ \in Seq(Text) /\ Len(requests_) \in Nat /\ batch = <<>>
      /\ Sched!TakeCount \in 1..Len(requests_)
  <2>1. requests_ \in Seq(Text) /\ Len(requests_) \in Nat
    BY LenProperties DEF Sched!TypeOK
  <2>2. Sched!TakeCount \in 0..Len(requests_)
    BY <2>1, WorkerAssumption DEF Sched!TakeCount
  <2>3. Sched!TakeCount > 0 /\ batch = <<>>
    BY DEF Sched!TakeBatch, Held
  <2> QED BY <2>1, <2>2, <2>3
<1>2. /\ batch' \in Seq(Text) /\ requests_' \in Seq(Text)
      /\ Len(batch') = Sched!TakeCount /\ batch' \o requests_' = requests_
  BY <1>1, CutAndJoined DEF Sched!TakeBatch, Sched!Taken, Sched!Left
<1>3. batch' # <<>>
  BY <1>1, <1>2, EmptySeq
<1>4. Queued = requests_
  BY <1>1, ConcatEmptySeq DEF Queued
<1> QED BY <1>2, <1>3, <1>4 DEF Queued

\* An answer is for the request that has waited longest.
LEMMA AnswerNextIsFirst ==
  ASSUME SchedInv, Sched!AnswerNext
  PROVE  /\ Queued # <<>> /\ Head(Queued) = Head(batch) /\ Head(batch) \in Text
         /\ Queued' = Tail(Queued)
         /\ batch' \in Seq(Text)
         /\ Sched!AnswerFor(Head(embeddings))
            \in {Sched!Embedding(Head(Queued)), Sched!Failure}
<1>1. /\ batch \in Seq(Text) /\ requests_ \in Seq(Text) /\ batch # <<>>
      /\ embeddings \in Seq(Results) /\ Len(embeddings) = Len(batch)
  BY DEF SchedInv, Sched!TypeOK, Held, Sched!AnswerNext, Results
<1>2. Queued # <<>> /\ Head(Queued) = Head(batch) /\ Tail(Queued) = Tail(batch) \o requests_
  BY <1>1, HeadOfFirst DEF Queued
<1>3. Head(batch) \in Text /\ Tail(batch) \in Seq(Text)
  BY <1>1, HeadTailProperties
<1>4. Len(batch) \in Nat \ {0} /\ embeddings # <<>>
  BY <1>1, EmptySeq
<1>5. Head(batch) = batch[1] /\ Head(embeddings) = embeddings[1] /\ 1 \in 1..Len(batch)
  BY <1>1, <1>4
<1>6. embeddings[1] \in {Sched!Embedding(batch[1]), Sched!Empty}
  BY <1>5 DEF SchedInv, OwnNext, Sched!AnswerNext
<1>7. Sched!AnswerFor(Head(embeddings)) \in {Sched!Embedding(Head(batch)), Sched!Failure}
  BY <1>5, <1>6 DEF Sched!AnswerFor
<1> QED BY <1>2, <1>3, <1>7 DEF Sched!AnswerNext, Queued

-----------------------------------------------------------------------------
(* The invariant. *)

\* A scheduler that does not exist yet holds nothing.
LEMMA SchedInit == Sched!Init => SchedInv
<1> SUFFICES ASSUME Sched!Init PROVE SchedInv
  OBVIOUS
<1>1. <<>> \in Seq(Text) /\ <<>> \in Seq(Results)
  OBVIOUS
<1>2. Sched!TypeOK
  BY <1>1 DEF Sched!Init, Sched!TypeOK, Results
<1>3. Queued = <<>> /\ Len(Queued) = 0
  BY <1>1, ConcatEmptySeq, EmptySeq DEF Sched!Init, Queued
<1> QED BY <1>2, <1>3 DEF Sched!Init, SchedInv, Held, OwnNext, WaitsOnce

\* Steps that move no request and answer none.
LEMMA NothingMoves ==
  ASSUME SchedInv, UNCHANGED <<batch, requests_, promise>>
  PROVE  WaitsOnce'
BY DEF SchedInv, WaitsOnce, Queued

\* A request enters once, with a new promise.
LEMMA SchedSubmit == ASSUME SchedInv, NEW r \in Text, Sched!Submit(r) PROVE SchedInv'
<1>1. Sched!TypeOK'
  <2>1. Append(requests_, r) \in Seq(Text)
    BY AppendProperties DEF SchedInv, Sched!TypeOK
  <2> QED BY <2>1 DEF SchedInv, Sched!TypeOK, Sched!Submit
<1>2. Held' /\ OwnNext'
  BY DEF SchedInv, Held, OwnNext, Sched!Submit
<1>3. WaitsOnce'
  <2>1. /\ Queued' = Append(Queued, r)
        /\ Queued \in Seq(Text) /\ Len(Queued) \in Nat
        /\ \A i \in 1..Len(Queued) : Queued[i] \in Text
    BY SubmitAppends, QueuedTyped DEF SchedInv
  <2>2. /\ Len(Queued') = Len(Queued) + 1
        /\ \A i \in 1..Len(Queued) : Queued'[i] = Queued[i]
        /\ Queued'[Len(Queued) + 1] = r
    BY <2>1, AppendProperties
  <2>3. \A i \in 1..Len(Queued) : Queued[i] # r /\ promise[Queued[i]] = Sched!Pending
    BY DEF SchedInv, WaitsOnce, Sched!Submit, Sched!Pending, Sched!Unmade
  <2>4. promise'[r] = Sched!Pending /\ \A q \in Text : q # r => promise'[q] = promise[q]
    BY DEF SchedInv, Sched!TypeOK, Sched!Submit
  <2>5. \A i \in 1..Len(Queued') : i \in 1..Len(Queued) \/ i = Len(Queued) + 1
    BY <2>1, <2>2
  <2>6. \A i \in 1..Len(Queued') : promise'[Queued'[i]] = Sched!Pending
    BY <2>1, <2>2, <2>3, <2>4, <2>5
  <2>7. \A i, j \in 1..Len(Queued') : Queued'[i] = Queued'[j] => i = j
    BY <2>1, <2>2, <2>3, <2>5 DEF SchedInv, WaitsOnce
  <2> QED BY <2>6, <2>7 DEF WaitsOnce
<1> QED BY <1>1, <1>2, <1>3 DEF SchedInv

\* What is taken was next in the queue.
LEMMA SchedTakeBatch == ASSUME SchedInv, Sched!TakeBatch PROVE SchedInv'
<1>1. /\ Queued' = Queued
      /\ batch' \in Seq(Text) /\ requests_' \in Seq(Text) /\ batch' # <<>>
  BY TakeBatchKeeps DEF SchedInv
<1>2. Sched!TypeOK'
  BY <1>1 DEF SchedInv, Sched!TypeOK, Sched!TakeBatch
<1>3. Held' /\ OwnNext'
  BY <1>1 DEF SchedInv, Held, OwnNext, Sched!TakeBatch
<1>4. WaitsOnce'
  BY <1>1 DEF SchedInv, WaitsOnce, Sched!TakeBatch
<1> QED BY <1>2, <1>3, <1>4 DEF SchedInv

\* process_batch_ gives one result per text, or empty ones for texts without.
LEMMA SchedProcess == ASSUME SchedInv, Sched!Process PROVE SchedInv'
<1>1. PICK bad \in SUBSET (1..Len(batch)) :
        Sched!Finish([i \in 1..Len(batch) |->
                        IF i \in bad THEN Sched!Empty ELSE Sched!Embedding(batch[i])])
  BY DEF Sched!Process, Sched!Results
<1> DEFINE out == [i \in 1..Len(batch) |->
                     IF i \in bad THEN Sched!Empty ELSE Sched!Embedding(batch[i])]
<1>2. /\ batch \in Seq(Text) /\ Len(batch) \in Nat
      /\ \A i \in 1..Len(batch) : batch[i] \in Text
  BY LenProperties, ElementOfSeq DEF SchedInv, Sched!TypeOK
<1>3. \A i \in 1..Len(batch) :
        out[i] \in {Sched!Embedding(batch[i]), Sched!Empty} /\ out[i] \in Results
  BY <1>2 DEF Results
<1>4. out \in Seq(Results) /\ Len(out) = Len(batch)
  <2>1. out \in [1..Len(batch) -> Results]
    BY <1>3
  <2> HIDE DEF out
  <2> QED BY <1>2, <2>1
<1>5. /\ worker = "processing" /\ embeddings' = out /\ worker' = "answering"
      /\ UNCHANGED <<stop_, requests_, batch, promise, caller, object>>
  BY <1>1 DEF Sched!Finish
<1> HIDE DEF out
<1>6. Sched!TypeOK'
  BY <1>4, <1>5 DEF SchedInv, Sched!TypeOK, Results
<1>7. Held' /\ OwnNext'
  BY <1>3, <1>4, <1>5 DEF SchedInv, Held, OwnNext
<1> QED BY <1>5, <1>6, <1>7, NothingMoves DEF SchedInv

\* An answer takes the first request out, and with the last one the batch is
\* over.
LEMMA SchedAnswerNext == ASSUME SchedInv, Sched!AnswerNext PROVE SchedInv'
<1>1. /\ batch \in Seq(Text) /\ batch # <<>> /\ Len(batch) \in Nat \ {0}
      /\ embeddings \in Seq(Results) /\ embeddings # <<>> /\ Len(embeddings) = Len(batch)
  <2>1. /\ batch \in Seq(Text) /\ batch # <<>>
        /\ embeddings \in Seq(Results) /\ Len(embeddings) = Len(batch)
    BY DEF SchedInv, Sched!TypeOK, Held, Sched!AnswerNext, Results
  <2> QED BY <2>1, EmptySeq
<1>2. /\ Tail(batch) \in Seq(Text) /\ Len(Tail(batch)) = Len(batch) - 1
      /\ \A i \in 1..Len(Tail(batch)) : Tail(batch)[i] = batch[i + 1]
  BY <1>1, HeadTailProperties
<1>3. /\ Tail(embeddings) \in Seq(Results) /\ Len(Tail(embeddings)) = Len(batch) - 1
      /\ \A i \in 1..Len(Tail(embeddings)) : Tail(embeddings)[i] = embeddings[i + 1]
  BY <1>1, HeadTailProperties
<1>4. /\ Queued # <<>> /\ Head(Queued) = Head(batch) /\ Head(batch) \in Text
      /\ Queued' = Tail(Queued)
      /\ Sched!AnswerFor(Head(embeddings)) \in {Sched!Embedding(Head(Queued)), Sched!Failure}
  BY AnswerNextIsFirst
<1>5. Sched!TypeOK'
  <2>1. Sched!AnswerFor(Head(embeddings)) \in Sched!Answers
    BY <1>4 DEF Sched!Answers
  <2> QED BY <1>2, <1>3, <2>1 DEF SchedInv, Sched!TypeOK, Sched!AnswerNext, Results
<1>6. Held'
  <2>0. Tail(batch) = <<>> <=> Len(Tail(batch)) = 0
    BY <1>2, NoLength
  <2>1. CASE Len(batch) = 1
    <3>1. Tail(batch) = <<>>
      BY <1>2, <2>0, <2>1
    <3> QED BY <2>1, <3>1 DEF SchedInv, Held, Sched!AnswerNext
  <2>2. CASE Len(batch) # 1
    <3>1. Tail(batch) # <<>>
      BY <1>1, <1>2, <2>0, <2>2
    <3> QED BY <1>2, <1>3, <2>2, <3>1 DEF SchedInv, Held, Sched!AnswerNext
  <2> QED BY <2>1, <2>2
<1>7. OwnNext'
  <2>1. \A i \in 1..Len(batch) : embeddings[i] \in {Sched!Embedding(batch[i]), Sched!Empty}
    BY DEF SchedInv, OwnNext, Sched!AnswerNext
  <2>2. \A i \in 1..Len(Tail(batch)) :
          Tail(embeddings)[i] \in {Sched!Embedding(Tail(batch)[i]), Sched!Empty}
    BY <1>1, <1>2, <1>3, <2>1
  <2> QED BY <2>2 DEF OwnNext, Sched!AnswerNext
<1>8. WaitsOnce'
  <2>1. /\ Queued \in Seq(Text) /\ Len(Queued) \in Nat
        /\ \A i \in 1..Len(Queued) : Queued[i] \in Text
    BY QueuedTyped DEF SchedInv
  <2>2. /\ Len(Tail(Queued)) = Len(Queued) - 1 /\ Head(Queued) = Queued[1]
        /\ \A i \in 1..Len(Tail(Queued)) : Tail(Queued)[i] = Queued[i + 1]
    BY <1>4, <2>1, HeadTailProperties
  <2>3. \A q \in Text : q # Queued[1] => promise'[q] = promise[q]
    BY <1>4, <2>2 DEF SchedInv, Sched!TypeOK, Sched!AnswerNext
  <2>4. \A i \in 1..Len(Tail(Queued)) :
          /\ i + 1 \in 1..Len(Queued) /\ 1 \in 1..Len(Queued) /\ i + 1 # 1
          /\ Queued[i + 1] # Queued[1] /\ promise[Queued[i + 1]] = Sched!Pending
    BY <2>1, <2>2 DEF SchedInv, WaitsOnce
  <2>5. \A i \in 1..Len(Tail(Queued)) : promise'[Tail(Queued)[i]] = Sched!Pending
    BY <2>1, <2>2, <2>3, <2>4
  <2>6. \A i, j \in 1..Len(Tail(Queued)) : Tail(Queued)[i] = Tail(Queued)[j] => i = j
    BY <2>1, <2>2, <2>4 DEF SchedInv, WaitsOnce
  <2> QED BY <1>4, <2>5, <2>6 DEF WaitsOnce
<1> QED BY <1>5, <1>6, <1>7, <1>8 DEF SchedInv

\* The object goes with an empty queue.
LEMMA SchedDestroy == ASSUME SchedInv, Sched!Destroy PROVE SchedInv'
<1>1. batch = <<>> /\ worker = "exited" /\ <<>> \in Seq(Text)
  BY DEF SchedInv, Held, Sched!Destroy
<1>2. Sched!TypeOK'
  BY <1>1 DEF SchedInv, Sched!TypeOK, Sched!Destroy, Sched!Answers
<1>3. Queued' = <<>> /\ Len(Queued') = 0
  BY <1>1, ConcatEmptySeq, EmptySeq DEF Sched!Destroy, Queued
<1>4. Held' /\ OwnNext'
  BY <1>1 DEF Held, OwnNext, Sched!Destroy
<1> QED BY <1>2, <1>3, <1>4 DEF SchedInv, WaitsOnce

\* The steps that change flags and program counters only.
LEMMA SchedControl ==
  ASSUME SchedInv,
         \/ Sched!Construct \/ Sched!Exit \/ Sched!Stop \/ Sched!Join
         \/ (\E r \in Text : Sched!Get(r)) \/ UNCHANGED schedVars
  PROVE  SchedInv'
<1>1. UNCHANGED <<batch, requests_, promise>>
  BY DEF Sched!Construct, Sched!Exit, Sched!Stop, Sched!Join, Sched!Get, schedVars
<1>2. Sched!TypeOK'
  BY DEF SchedInv, Sched!TypeOK, Sched!Construct, Sched!Exit, Sched!Stop, Sched!Join,
         Sched!Get, schedVars
<1>3. Held' /\ OwnNext'
  BY DEF SchedInv, Held, OwnNext, Sched!Construct, Sched!Exit, Sched!Stop, Sched!Join,
         Sched!Get, schedVars
<1> QED BY <1>1, <1>2, <1>3, NothingMoves DEF SchedInv

\* The invariant is kept by every step.
LEMMA SchedStep == SchedInv /\ [Sched!Next]_schedVars => SchedInv'
<1> SUFFICES ASSUME SchedInv, [Sched!Next]_schedVars PROVE SchedInv'
  OBVIOUS
<1> QED BY SchedSubmit, SchedTakeBatch, SchedProcess, SchedAnswerNext, SchedDestroy,
           SchedControl DEF Sched!Next

\* The invariant holds in every state.
LEMMA SchedAlways == Sched!Init /\ [][Sched!Next]_schedVars => []SchedInv
BY SchedInit, SchedStep, PTL

-----------------------------------------------------------------------------
(* The steps of the service. *)

\* The answers the mapping shows.
Shown ==
  [r \in Text |-> IF promise[r] \in {Sched!Pending, Sched!Unmade} THEN None ELSE promise[r]]

\* Nobody waits, nothing is answered, there is no service.
LEMMA InitIsInit == Sched!Init => Sched!Fifo!Init
<1> SUFFICES ASSUME Sched!Init PROVE Sched!Fifo!Init
  OBVIOUS
<1>1. batch \o requests_ = <<>>
  BY ConcatEmptySeq, EmptySeq DEF Sched!Init
<1> QED BY <1>1 DEF Sched!Init, Sched!Fifo!Init, Sched!Pending, Sched!Unmade

\* submit accepts.
LEMMA SubmitAccepts ==
  ASSUME SchedInv, NEW r \in Text, Sched!Submit(r) PROVE Sched!Fifo!Accept(r)
<1>1. Queued' = Append(Queued, r)
  BY SubmitAppends DEF SchedInv
<1>2. \A i \in 1..Len(Queued) : Queued[i] # r
  BY DEF SchedInv, WaitsOnce, Sched!Submit, Sched!Pending, Sched!Unmade
<1>3. Shown[r] = None
  BY DEF Shown, Sched!Submit
<1>4. Shown' = Shown
  BY DEF SchedInv, Sched!TypeOK, Sched!Submit, Shown, Sched!Pending, Sched!Unmade
<1>5. object # "none" /\ object' # "none"
  BY DEF Sched!Submit
<1> QED BY <1>1, <1>2, <1>3, <1>4, <1>5 DEF Sched!Fifo!Accept, Queued, Shown

\* The worker answers the oldest request, with its embedding or an error.
LEMMA AnswerNextAnswers == ASSUME SchedInv, Sched!AnswerNext PROVE Sched!Fifo!Answer
<1> DEFINE first == Head(Queued)
           given == Sched!AnswerFor(Head(embeddings))
<1>1. /\ Queued # <<>> /\ first = Head(batch) /\ first \in Text
      /\ Queued' = Tail(Queued) /\ given \in {Sched!Embedding(first), Sched!Failure}
  BY AnswerNextIsFirst
<1>2. given \notin {Sched!Pending, Sched!Unmade}
  BY <1>1 DEF Sched!Embedding, Sched!Failure, Sched!Pending, Sched!Unmade
<1>3. promise' = [promise EXCEPT ![first] = given]
  BY <1>1 DEF Sched!AnswerNext
<1> HIDE DEF first, given
<1>4. Shown' = [Shown EXCEPT ![first] = given]
  BY <1>1, <1>2, <1>3 DEF SchedInv, Sched!TypeOK, Shown
<1>5. object' = object
  BY DEF Sched!AnswerNext
<1>6. \E a \in {Sched!Fifo!Embedding(first), Sched!Fifo!Failure} :
        Shown' = [Shown EXCEPT ![first] = a]
  BY <1>1, <1>4 DEF Sched!Embedding, Sched!Failure, Sched!Fifo!Embedding, Sched!Fifo!Failure
<1> QED BY <1>1, <1>5, <1>6 DEF Sched!Fifo!Answer, Queued, Shown, first

\* The destructor abandons what is still in the queue.
LEMMA DestroyCloses == ASSUME SchedInv, Sched!Destroy PROVE Sched!Fifo!Close
<1>1. batch = <<>> /\ object # "none" /\ object' = "none"
  BY DEF SchedInv, Held, Sched!Destroy
<1>2. requests_ \in Seq(Text) /\ <<>> \in Seq(Text)
  BY DEF SchedInv, Sched!TypeOK
<1>3. Queued = requests_ /\ Queued' = <<>>
  BY <1>1, <1>2, ConcatEmptySeq DEF Queued, Sched!Destroy
<1>4. \A r \in Text :
        Sched!Contains(requests_, r) <=> \E i \in 1..Len(Queued) : Queued[i] = r
  BY <1>3 DEF Sched!Contains
<1>5. Shown' = [r \in Text |-> IF \E i \in 1..Len(Queued) : Queued[i] = r
                               THEN Sched!Broken ELSE Shown[r]]
  BY <1>4 DEF SchedInv, Sched!TypeOK, Sched!Destroy, Shown, Sched!Broken, Sched!Pending,
              Sched!Unmade
<1> QED BY <1>1, <1>3, <1>5 DEF Sched!Fifo!Close, Sched!Fifo!Broken, Sched!Broken, Queued, Shown

\* The steps between accepting a request and answering it.
Rests ==
  \/ Sched!TakeBatch \/ Sched!Process \/ Sched!Exit \/ Sched!Stop \/ Sched!Join
  \/ (\E r \in Text : Sched!Get(r)) \/ UNCHANGED schedVars

\* Taking a batch, working on it and stopping change nothing the service shows.
LEMMA RestStutters ==
  ASSUME SchedInv,
         Rests
  PROVE  UNCHANGED Sched!Fifo!fifoVars
<1>1. Queued' = Queued
  <2>1. CASE Sched!TakeBatch
    BY <2>1, TakeBatchKeeps DEF SchedInv
  <2>2. CASE ~Sched!TakeBatch
    BY <2>2 DEF Rests, Queued, Sched!Process, Sched!Finish, Sched!Exit, Sched!Stop,
                Sched!Join, Sched!Get, schedVars
  <2> QED BY <2>1, <2>2
<1>2. promise' = promise
  BY DEF Rests, Sched!TakeBatch, Sched!Process, Sched!Finish, Sched!Exit, Sched!Stop,
         Sched!Join, Sched!Get, schedVars
<1>3. (object # "none") = (object # "none")'
  BY DEF Rests, Sched!TakeBatch, Sched!Process, Sched!Finish, Sched!Exit, Sched!Stop,
         Sched!Join, Sched!Get, schedVars
<1> QED BY <1>1, <1>2, <1>3 DEF Sched!Fifo!fifoVars, Queued

\* Every step of the scheduler is one of the service or leaves it as it is.
LEMMA NextIsNext ==
  SchedInv /\ [Sched!Next]_schedVars => [Sched!Fifo!Next]_(Sched!Fifo!fifoVars)
<1> SUFFICES ASSUME SchedInv, [Sched!Next]_schedVars
             PROVE  [Sched!Fifo!Next]_(Sched!Fifo!fifoVars)
  OBVIOUS
<1>1. CASE Sched!Construct
  BY <1>1 DEF Sched!Construct, Sched!Fifo!Next, Sched!Fifo!Open
<1>2. ASSUME NEW r \in Text, Sched!Submit(r) PROVE Sched!Fifo!Next
  BY <1>2, SubmitAccepts DEF Sched!Fifo!Next
<1>3. CASE Sched!AnswerNext
  BY <1>3, AnswerNextAnswers DEF Sched!Fifo!Next
<1>4. CASE Sched!Destroy
  BY <1>4, DestroyCloses DEF Sched!Fifo!Next
<1>5. CASE Rests
  BY <1>5, RestStutters
<1> QED BY <1>1, <1>2, <1>3, <1>4, <1>5 DEF Sched!Next, Rests

\* So what it does is what the service does.
LEMMA SchedulerServes == Sched!Init /\ [][Sched!Next]_schedVars => Sched!ImplementsFifo
BY SchedAlways, InitIsInit, NextIsNext, PTL DEF Sched!ImplementsFifo, Sched!Fifo!Spec

\* The queue, the batch and the worker implement a first-in-first-out service
\* (llama_scheduler_impl.hpp:70-146), for any requests and batch size.
THEOREM SchedulerIsFifo == Sched!Spec => Sched!ImplementsFifo
<1>1. [Sched!Next]_(Sched!vars) => [Sched!Next]_schedVars
  BY DEF Sched!vars, schedVars
<1> QED BY <1>1, SchedulerServes, PTL DEF Sched!Spec

\* A worker that is not in the middle of a batch has none.
LEMMA NoBatchLeft == SchedInv => Sched!StopFinishesBatch
BY DEF SchedInv, Held, Sched!StopFinishesBatch

\* A scheduler whose stop has returned has answered the batch it took
\* (llama_scheduler_impl.hpp:61-68), for any requests and batch size.
THEOREM BatchAlwaysFinished == Sched!Spec => []Sched!StopFinishesBatch
<1>1. [Sched!Next]_(Sched!vars) => [Sched!Next]_schedVars
  BY DEF Sched!vars, schedVars
<1> QED BY <1>1, NoBatchLeft, SchedAlways, PTL DEF Sched!Spec

-----------------------------------------------------------------------------
(* The contexts. *)

\* Of a call that has encoded and not yet fetched, the context's buffer holds
\* the embedding, unless the pool was destroyed under it.
ContentOwn ==
  \A t \in Thread :
    /\ call[t].pc # "idle" => call[t].text \in Text /\ call[t].out = None
    /\ call[t].pc = "encoded" /\ ~freed => content[call[t].idx] = call[t].text

CtxInv == ContextsTypeOK /\ ContextExclusive /\ ContentOwn /\ OwnEmbedding

\* Even when the counter wraps at a modulus that is no multiple of the number
\* of contexts, embed picks an existing one.
LEMMA NextContextInRange ==
  ASSUME next_idx_ \in 0..(IndexModulus - 1)
  PROVE  /\ NextContext \in Context
         /\ (next_idx_ + 1) % IndexModulus \in 0..(IndexModulus - 1)
BY ContextsAssumption DEF NextContext, Context

\* A pool just loaded satisfies the invariant of its contexts.
LEMMA CtxInit == ContextsInit => CtxInv
<1> SUFFICES ASSUME ContextsInit PROVE CtxInv
  OBVIOUS
<1>1. 0 \in Context /\ 0 \in 0..(IndexModulus - 1)
  BY ContextsAssumption DEF Context
<1>2. ContextsTypeOK
  BY <1>1 DEF ContextsInit, ContextsTypeOK, Calls
<1>3. ContextExclusive /\ ContentOwn /\ OwnEmbedding
  BY DEF ContextsInit, ContextExclusive, ContentOwn, OwnEmbedding, Using
<1> QED BY <1>2, <1>3 DEF CtxInv

\* Steps that leave the contexts alone keep it.
LEMMA CtxStutter == CtxInv /\ UNCHANGED ctxVars => CtxInv'
BY DEF CtxInv, ctxVars, ContextsTypeOK, ContextExclusive, ContentOwn,
       OwnEmbedding, Using, Calls, Context

\* A thread that enters embed holds no mutex yet.
LEMMA CtxPick ==
  ASSUME CtxInv, NEW t \in Thread, NEW x \in Text, Pick(t, x)
  PROVE  CtxInv'
<1> USE DEF CtxInv, Pick
<1>1. /\ NextContext \in Context
      /\ (next_idx_ + 1) % IndexModulus \in 0..(IndexModulus - 1)
  BY NextContextInRange DEF ContextsTypeOK
<1>2. ContextsTypeOK'
  BY <1>1 DEF ContextsTypeOK, Calls, Context
<1>3. ContextExclusive'
  BY DEF ContextExclusive, ContextsTypeOK, Calls, Using, Context
<1>4. ContentOwn'
  BY DEF ContentOwn, ContextsTypeOK, Calls
<1>5. OwnEmbedding'
  BY DEF OwnEmbedding, ContextsTypeOK, Calls
<1> QED BY <1>2, <1>3, <1>4, <1>5

\* lock() succeeds only on a free mutex, so its context has no other user.
LEMMA CtxLock ==
  ASSUME CtxInv, NEW t \in Thread, Lock(t)
  PROVE  CtxInv'
<1> USE DEF CtxInv, Lock
<1>1. call[t].idx \in Context
  BY DEF ContextsTypeOK, Calls
<1>2. ContextsTypeOK'
  BY <1>1 DEF ContextsTypeOK, Calls, Context
<1>3. ContextExclusive'
  BY <1>1, NoneAssumption
     DEF ContextExclusive, ContextsTypeOK, Calls, Using, Available, Context
<1>4. ContentOwn' /\ OwnEmbedding'
  BY DEF ContentOwn, OwnEmbedding, ContextsTypeOK, Calls
<1> QED BY <1>2, <1>3, <1>4

\* The encoder writes to the context this thread holds and no other does.
LEMMA CtxEncode ==
  ASSUME CtxInv, NEW t \in Thread, Encode(t)
  PROVE  CtxInv'
<1> USE DEF CtxInv, Encode
<1>1. call[t].idx \in Context /\ call[t].text \in Text /\ call[t].out = None
  BY DEF ContextsTypeOK, Calls, ContentOwn
<1>2. ContextsTypeOK'
  BY <1>1 DEF ContextsTypeOK, Calls, Context
<1>3. ContextExclusive'
  BY <1>1 DEF ContextExclusive, ContextsTypeOK, Calls, Using, Context
<1>4. \A u \in Thread : u # t /\ call[u].pc = "encoded" => call[u].idx # call[t].idx
  BY DEF ContextExclusive, Using
<1>5. ContentOwn'
  BY <1>1, <1>4 DEF ContentOwn, ContextsTypeOK, Calls
<1>6. OwnEmbedding'
  BY DEF OwnEmbedding, ContextsTypeOK, Calls
<1> QED BY <1>2, <1>3, <1>5, <1>6

\* A thread that leaves embed gives back its own mutex and no other.
LEMMA Released ==
  ASSUME ContextsTypeOK, ContextExclusive, NEW t \in Thread, Using(t),
         mtx' = [mtx EXCEPT ![call[t].idx] = None],
         ~Using(t)', \A u \in Thread : u # t => call'[u] = call[u]
  PROVE  ContextExclusive'
<1>1. call[t].idx \in Context
  BY DEF ContextsTypeOK, Calls
<1>2. \A u \in Thread : Using(u)' => u # t /\ Using(u) /\ call'[u] = call[u]
  BY DEF Using
<1>3. \A u \in Thread : u # t /\ Using(u) =>
         call[u].idx \in Context /\ mtx[call[u].idx] = u /\ call[u].idx # call[t].idx
  BY DEF ContextExclusive, ContextsTypeOK, Calls
<1>4. \A u \in Thread : Using(u)' => mtx'[call'[u].idx] = u
  BY <1>1, <1>2, <1>3 DEF ContextsTypeOK
<1>5. ASSUME NEW c \in Context, mtx'[c] # None
      PROVE  Using(mtx[c])' /\ call'[mtx'[c]].idx = c
  <2>1. c # call[t].idx /\ mtx'[c] = mtx[c] /\ mtx[c] \in Thread
    BY <1>1, <1>5 DEF ContextsTypeOK
  <2>2. Using(mtx[c]) /\ call[mtx[c]].idx = c /\ mtx[c] # t
    BY <2>1, <1>5 DEF ContextExclusive
  <2>3. call'[mtx[c]] = call[mtx[c]]
    BY <2>1, <2>2
  <2> QED BY <2>1, <2>2, <2>3 DEF Using
<1> QED BY <1>4, <1>5 DEF ContextExclusive, Context

\* A call whose encoder throws gives its mutex back (lock_guard) and keeps
\* no result.
LEMMA CtxEncodeFails ==
  ASSUME CtxInv, NEW t \in Thread, EncodeFails(t)
  PROVE  CtxInv'
<1> USE DEF CtxInv, EncodeFails
<1>1. call[t].idx \in Context
  BY DEF ContextsTypeOK, Calls
<1>2. ContextsTypeOK'
  BY <1>1 DEF ContextsTypeOK, Calls, Context
<1>3. \A u \in Thread : u # t /\ Using(u) => call[u].idx # call[t].idx
  BY DEF ContextExclusive, Using
<1>4. ContextExclusive'
  BY Released DEF ContextsTypeOK, Calls, Using
<1>5. ContentOwn'
  BY <1>1, <1>3 DEF ContentOwn, ContextsTypeOK, Calls, Using
<1>6. OwnEmbedding'
  BY DEF OwnEmbedding, ContextsTypeOK, Calls
<1> QED BY <1>2, <1>4, <1>5, <1>6

\* What is copied out of the context is the caller's own embedding.
LEMMA CtxFetch ==
  ASSUME CtxInv, NEW t \in Thread, ~freed, Fetch(t)
  PROVE  CtxInv' /\ content[call[t].idx] = call[t].text
<1> USE DEF CtxInv, Fetch
<1>1. call[t].idx \in Context
  BY DEF ContextsTypeOK, Calls
<1>2. content[call[t].idx] = call[t].text /\ call[t].text \in Text
  BY DEF ContentOwn
<1>3. ContextsTypeOK'
  <2> DEFINE ended == [call[t] EXCEPT !.pc = "idle", !.out = content[call[t].idx]]
  <2>1. call \in [Thread -> Calls] /\ mtx \in [Context -> Thread \cup {None}]
    BY DEF ContextsTypeOK
  <2>2. content[call[t].idx] \in Text
    BY <1>2
  <2>3. ended \in Calls
    BY <2>1, <2>2 DEF Calls
  <2>4. call' = [call EXCEPT ![t] = ended]
    BY <2>1
  <2> HIDE DEF ended
  <2>5. call' \in [Thread -> Calls]
    BY <2>1, <2>3, <2>4
  <2>6. mtx' \in [Context -> Thread \cup {None}]
    BY <1>1, <2>1
  <2> QED BY <2>5, <2>6 DEF ContextsTypeOK
<1>4. \A u \in Thread : u # t /\ Using(u) => call[u].idx # call[t].idx
  BY DEF ContextExclusive, Using
<1>5. ContextExclusive'
  BY Released DEF ContextsTypeOK, Calls, Using
<1>6. ContentOwn' /\ OwnEmbedding'
  BY <1>2 DEF ContentOwn, OwnEmbedding, ContextsTypeOK, Calls
<1> QED BY <1>2, <1>3, <1>5, <1>6

\* The destructor frees the contexts and touches no call.
LEMMA CtxFree == CtxInv /\ FreeContexts => CtxInv'
BY DEF CtxInv, FreeContexts, ContextsTypeOK, ContextExclusive, ContentOwn,
       OwnEmbedding, Using, Calls, Context
-----------------------------------------------------------------------------
Waiting == call[Worker].pc = "idle" /\ done = <<>>

\* Where the worker stands in its batch, and what that says of embed.
Progress ==
  /\ worker # "processing" => Waiting
  /\ worker = "processing" => Len(done) < Len(batch)
  /\ worker = "answering" => Len(embeddings) = Len(batch) /\ batch # <<>>
  /\ call[Worker].pc # "idle" => call[Worker].text = batch[Len(done) + 1]

\* The results of a batch are all of its texts, or all empty.
AnsweredAlike ==
  worker = "answering" =>
    \/ \A i \in 1..Len(embeddings) : embeddings[i] = Sched!Empty
    \/ \A i \in 1..Len(embeddings) : embeddings[i] = Sched!Embedding(batch[i])

\* What was collected, and what will be answered, lines up with the batch.
InLine ==
  /\ \A i \in 1..Len(done) : done[i] = Sched!Embedding(batch[i])
  /\ AnsweredAlike
  /\ \A r \in Text : promise[r].kind = "value" => promise[r] = Sched!Embedding(r)

\* The life of the scheduler object, its worker and the pool.
Lives ==
  /\ object = "none" => worker = "none"
  /\ object = "joined" => worker = "exited"
  /\ freed <=> pool # "alive"
  /\ freed => \A t \in Client : ~Using(t)
  /\ freed => \A t \in Client : call[t].pc = "idle"

OwnTypes ==
  /\ done \in Seq({Sched!Embedding(r) : r \in Text})
  /\ direct \in 0..MaxDirectCalls
  /\ pool \in {"alive", "destroying", "gone"}
  /\ usedFreed \in BOOLEAN

PoolInv == OwnTypes /\ CtxInv /\ Progress /\ InLine /\ Lives

SafetyInv == SchedInv /\ PoolInv

-----------------------------------------------------------------------------
(* The worker, the promises and the life of the pool. *)

poolVars == <<schedVars, done, pool, freed, call>>

\* Steps that change none of the variables the three parts speak of keep them.
LEMMA PoolStutter ==
  Progress /\ InLine /\ Lives /\ UNCHANGED poolVars => Progress' /\ InLine' /\ Lives'
BY DEF Progress, InLine, Lives, Waiting, Using, AnsweredAlike, poolVars, schedVars,
       Sched!Embedding, Sched!Empty

\* The steps of a client in embed concern nobody else.
LEMMA PoolClient ==
  ASSUME CtxInv, Progress, InLine, Lives, UNCHANGED <<schedVars, done, pool>>,
         UNCHANGED freed, call'[Worker] = call[Worker],
         freed => \A t \in Client : ~Using(t)' /\ call'[t].pc = "idle"
  PROVE  Progress' /\ InLine' /\ Lives'
BY DEF Progress, InLine, Lives, Waiting, Using, AnsweredAlike, schedVars,
       Sched!Embedding, Sched!Empty

\* A batch starts with nothing collected and at least one text.
LEMMA PoolTakeBatch ==
  ASSUME Sched!TypeOK, Progress, InLine, Lives, Sched!TakeBatch,
         UNCHANGED <<ctxVars, done, pool>>
  PROVE  Progress' /\ InLine' /\ Lives'
<1> USE DEF Sched!TakeBatch, ctxVars
<1>1. requests_ \in Seq(Text) /\ Len(requests_) \in Nat
  BY LenProperties DEF Sched!TypeOK
<1>2. Sched!TakeCount \in 1..Len(requests_)
  BY <1>1, WorkerAssumption DEF Sched!TakeCount
<1>3. Len(batch') = Sched!TakeCount
  BY <1>1, <1>2, SubSeqProperties DEF Sched!Taken
<1>4. done = <<>> /\ call[Worker].pc = "idle"
  BY DEF Progress, Waiting
<1>5. Progress'
  BY <1>2, <1>3, <1>4 DEF Progress, Waiting
<1>6. InLine'
  BY <1>4 DEF InLine, AnsweredAlike, Sched!Embedding
<1>7. Lives'
  BY DEF Lives, Using
<1> QED BY <1>5, <1>6, <1>7

\* The head of the batch gets the head of the results; the rest stays in line.
LEMMA PoolAnswerNext ==
  ASSUME Sched!TypeOK, Progress, InLine, Lives, Sched!AnswerNext,
         UNCHANGED <<ctxVars, done, pool>>
  PROVE  Progress' /\ InLine' /\ Lives'
<1> USE DEF Sched!AnswerNext, ctxVars
<1>1. /\ batch \in Seq(Text) /\ batch # <<>>
      /\ embeddings \in Seq(Results) /\ embeddings # <<>>
      /\ Len(embeddings) = Len(batch)
  BY LenProperties, EmptySeq DEF Sched!TypeOK, Progress, Results
<1>2. /\ Len(batch) \in Nat \ {0}
      /\ Len(batch') = Len(batch) - 1
      /\ Len(embeddings') = Len(batch) - 1
      /\ \A i \in 1..(Len(batch) - 1) :
           batch'[i] = batch[i + 1] /\ embeddings'[i] = embeddings[i + 1]
      /\ Head(batch) = batch[1] /\ Head(embeddings) = embeddings[1]
  BY <1>1, HeadTailProperties, LenProperties, EmptySeq
<1>3. done = <<>> /\ call[Worker].pc = "idle"
  BY DEF Progress, Waiting
<1>4. Progress'
  <2>1. CASE Len(batch) = 1
    BY <2>1, <1>3 DEF Progress, Waiting
  <2>2. CASE Len(batch) > 1
    <3>1. batch' # <<>>
      BY <2>2, <1>2
    <3> QED BY <2>2, <3>1, <1>2, <1>3 DEF Progress, Waiting
  <2> QED BY <2>1, <2>2, <1>2
<1>5. AnsweredAlike'
  <2>1. CASE \A i \in 1..Len(embeddings) : embeddings[i] = Sched!Empty
    BY <2>1, <1>1, <1>2 DEF AnsweredAlike, Sched!Empty
  <2>2. CASE \A i \in 1..Len(embeddings) : embeddings[i] = Sched!Embedding(batch[i])
    BY <2>2, <1>1, <1>2 DEF AnsweredAlike, Sched!Embedding
  <2> QED BY <2>1, <2>2 DEF InLine, AnsweredAlike
<1>6. embeddings[1] = Sched!Empty \/ embeddings[1] = Sched!Embedding(batch[1])
  BY <1>1, <1>2 DEF InLine, AnsweredAlike
<1>7. \A r \in Text : promise'[r].kind = "value" => promise'[r] = Sched!Embedding(r)
  BY <1>2, <1>6 DEF InLine, Sched!TypeOK, Sched!AnswerFor, Sched!Empty,
                    Sched!Failure, Sched!Embedding
<1>8. InLine'
  BY <1>3, <1>5, <1>7 DEF InLine, Sched!Embedding
<1>9. Lives'
  BY DEF Lives, Using
<1> QED BY <1>4, <1>8, <1>9

\* The last text of the batch: with its own embedding, or with a failure.
LEMMA PoolFinish ==
  ASSUME Progress, InLine, Lives, NEW STATE result, Sched!Finish(result),
         Len(result) = Len(batch), batch # <<>>,
         \/ \A i \in 1..Len(result) : result[i] = Sched!Empty
         \/ \A i \in 1..Len(result) : result[i] = Sched!Embedding(batch[i]),
         done' = <<>>, call'[Worker].pc = "idle",
         \A t \in Client : call'[t] = call[t], UNCHANGED <<freed, pool>>
  PROVE  Progress' /\ InLine' /\ Lives'
<1> USE DEF Sched!Finish
<1>1. Progress'
  BY DEF Progress, Waiting
<1>2. AnsweredAlike'
  BY DEF AnsweredAlike, Sched!Embedding, Sched!Empty
<1>3. InLine'
  <2>1. \A i \in 1..Len(done') : done'[i] = Sched!Embedding(batch'[i])
    OBVIOUS
  <2> QED BY <1>2, <2>1 DEF InLine, Sched!Embedding
<1>4. Lives'
  BY DEF Lives, Using
<1> QED BY <1>1, <1>3, <1>4

\* Steps of the object's owner and callers: no batch is touched while it runs.
LEMMA PoolOwner ==
  ASSUME Sched!TypeOK, Progress, InLine, Lives, UNCHANGED <<ctxVars, done, pool>>,
         Sched!Construct \/ Sched!Exit \/ Sched!Stop \/ Sched!Join \/ Sched!Destroy
  PROVE  Progress' /\ InLine' /\ Lives'
<1> USE DEF ctxVars
<1>1. CASE Sched!Construct
  BY <1>1 DEF Sched!Construct, Progress, InLine, Lives, Waiting, Using,
              AnsweredAlike, Sched!Embedding, Sched!Empty
<1>2. CASE Sched!Exit
  BY <1>2 DEF Sched!Exit, Progress, InLine, Lives, Waiting, Using,
              AnsweredAlike, Sched!Embedding, Sched!Empty
<1>3. CASE Sched!Stop
  BY <1>3 DEF Sched!Stop, Progress, InLine, Lives, Waiting, Using,
              AnsweredAlike, Sched!Embedding, Sched!Empty
<1>4. CASE Sched!Join
  BY <1>4 DEF Sched!Join, Progress, InLine, Lives, Waiting, Using,
              AnsweredAlike, Sched!Embedding, Sched!Empty
<1>5. CASE Sched!Destroy
  <2>1. worker = "exited"
    BY <1>5 DEF Sched!Destroy, Lives
  <2>2. \A r \in Text : promise'[r].kind = "value" => promise'[r] = promise[r]
    BY <1>5 DEF Sched!Destroy, Sched!Broken, Sched!TypeOK
  <2> QED BY <1>5, <2>1, <2>2 DEF Sched!Destroy, Progress, InLine, Lives, Waiting,
              Using, AnsweredAlike, Sched!Embedding, Sched!Empty
<1> QED BY <1>1, <1>2, <1>3, <1>4, <1>5

\* A caller in embed_scheduled disturbs neither batch nor results.
LEMMA PoolSubmit ==
  ASSUME Sched!TypeOK, Progress, InLine, Lives, UNCHANGED <<ctxVars, done, pool>>,
         NEW r \in Text, Sched!Submit(r) \/ Sched!Get(r)
  PROVE  Progress' /\ InLine' /\ Lives'
<1> USE DEF ctxVars
<1>1. CASE Sched!Submit(r)
  <2>1. \A q \in Text : promise'[q].kind = "value" => promise'[q] = promise[q]
    BY <1>1 DEF Sched!Submit, Sched!Pending, Sched!TypeOK
  <2> QED BY <1>1, <2>1 DEF Sched!Submit, Progress, InLine, Lives, Waiting, Using,
              AnsweredAlike, Sched!Embedding, Sched!Empty
<1>2. CASE Sched!Get(r)
  BY <1>2 DEF Sched!Get, Progress, InLine, Lives, Waiting, Using,
              AnsweredAlike, Sched!Embedding, Sched!Empty
<1> QED BY <1>1, <1>2

-----------------------------------------------------------------------------
(* The scheduler in the pool. *)

\* What embed_batch hands back is one of the results the scheduler allows:
\* each text's own embedding, or nothing for all.
LEMMA FinishIsProcess ==
  ASSUME NEW STATE result, Sched!Finish(result),
         \/ result = [i \in 1..Len(batch) |-> Sched!Embedding(batch[i])]
         \/ result = [i \in 1..Len(batch) |-> Sched!Empty]
  PROVE  Sched!Process
<1>1. CASE result = [i \in 1..Len(batch) |-> Sched!Embedding(batch[i])]
  <2>1. result = [i \in 1..Len(batch) |->
                    IF i \in {} THEN Sched!Empty ELSE Sched!Embedding(batch[i])]
    BY <1>1
  <2>2. {} \in SUBSET (1..Len(batch))
    OBVIOUS
  <2> QED BY <2>1, <2>2 DEF Sched!Process, Sched!Results
<1>2. CASE result = [i \in 1..Len(batch) |-> Sched!Empty]
  <2>1. result = [i \in 1..Len(batch) |->
                    IF i \in 1..Len(batch) THEN Sched!Empty ELSE Sched!Embedding(batch[i])]
    BY <1>2
  <2>2. 1..Len(batch) \in SUBSET (1..Len(batch))
    OBVIOUS
  <2> QED BY <2>1, <2>2 DEF Sched!Process, Sched!Results
<1> QED BY <1>1, <1>2

\* Everything collected for the batch is its text's own.
LEMMA CollectedOwn ==
  ASSUME SafetyInv, WorkerFetch
  PROVE  LET out == Collected(Sched!Embedding(content[call[Worker].idx]))
         IN  /\ out \in Seq({Sched!Embedding(r) : r \in Text})
             /\ \A i \in 1..Len(out) : out[i] = Sched!Embedding(batch[i])
<1> DEFINE out == Collected(Sched!Embedding(content[call[Worker].idx]))
<1>1. Sched!TypeOK /\ OwnTypes /\ CtxInv /\ Progress /\ InLine
  BY DEF SafetyInv, SchedInv, PoolInv
<1>2. Sound(Worker) /\ Fetch(Worker)
  BY DEF WorkerFetch
<1>3. ~freed /\ call[Worker].pc = "encoded" /\ worker = "processing"
  BY <1>1, <1>2 DEF Sound, Using, Fetch, Progress, Waiting
<1>4. content[call[Worker].idx] = batch[Len(done) + 1]
  BY <1>1, <1>3, WorkerAssumption DEF CtxInv, ContentOwn, Progress
<1>5. /\ batch \in Seq(Text) /\ Len(batch) \in Nat
      /\ done \in Seq({Sched!Embedding(r) : r \in Text}) /\ Len(done) \in Nat
      /\ Len(done) < Len(batch)
  BY <1>1, <1>3, LenProperties DEF OwnTypes, Sched!TypeOK, Progress
<1>6. batch[Len(done) + 1] \in Text
  BY <1>5, ElementOfSeq
<1>7. /\ out \in Seq({Sched!Embedding(r) : r \in Text}) /\ Len(out) = Len(done) + 1
      /\ \A i \in 1..Len(done) : out[i] = done[i]
      /\ out[Len(done) + 1] = Sched!Embedding(batch[Len(done) + 1])
  <2>1. Sched!Embedding(batch[Len(done) + 1]) \in {Sched!Embedding(r) : r \in Text}
    BY <1>6
  <2>2. out = Append(done, Sched!Embedding(batch[Len(done) + 1]))
    BY <1>4 DEF Collected
  <2> QED BY <1>5, <2>1, <2>2, AppendProperties
<1>8. \A i \in 1..Len(out) : out[i] = Sched!Embedding(batch[i])
  BY <1>1, <1>5, <1>7 DEF InLine
<1> QED BY <1>7, <1>8

\* So with its last text the batch ends as the scheduler's process_batch_ may.
LEMMA FetchIsProcess ==
  ASSUME SafetyInv, WorkerFetch
  PROVE  Sched!Process \/ UNCHANGED schedVars
<1> DEFINE out == Collected(Sched!Embedding(content[call[Worker].idx]))
<1>1. \/ Len(out) = Len(batch) /\ Sched!Finish(out)
      \/ UNCHANGED schedVars
  BY DEF WorkerFetch
<1>2. /\ out \in Seq({Sched!Embedding(r) : r \in Text})
      /\ \A i \in 1..Len(out) : out[i] = Sched!Embedding(batch[i])
  BY CollectedOwn
<1> HIDE DEF out
<1>3. out = [i \in 1..Len(out) |-> Sched!Embedding(batch[i])]
  BY <1>2, LenProperties
<1> QED BY <1>1, <1>3, FinishIsProcess

\* Every step of the pool is one of the scheduler or leaves it as it is.
LEMMA StepIsSchedulerStep == SafetyInv /\ [Next]_vars => [Sched!Next]_schedVars
<1> SUFFICES ASSUME SafetyInv, [Next]_vars PROVE [Sched!Next]_schedVars
  OBVIOUS
<1>1. CASE EnableScheduler
  BY <1>1 DEF EnableScheduler, Sched!Next
<1>2. ASSUME NEW r \in Text, EmbedScheduled(r) PROVE Sched!Next
  BY <1>2 DEF EmbedScheduled, Sched!Next
<1>3. ASSUME NEW t \in Client, NEW r \in Text, EmbedDirect(t, r) PROVE UNCHANGED schedVars
  BY <1>3 DEF EmbedDirect
<1>4. ASSUME NEW t \in Client, ClientStep(t) PROVE UNCHANGED schedVars
  BY <1>4 DEF ClientStep
<1>5. CASE WorkerLoop
  BY <1>5 DEF WorkerLoop, Sched!Next
<1>6. CASE WorkerPick \/ WorkerInEmbed
  BY <1>6 DEF WorkerPick, WorkerInEmbed
<1>7. CASE WorkerFetch
  BY <1>7, FetchIsProcess DEF Sched!Next
<1>8. CASE WorkerEmbedThrows
  <2>1. Sched!Finish(ThrownResult) /\ ThrownResult = [i \in 1..Len(batch) |-> Sched!Empty]
    BY <1>8 DEF WorkerEmbedThrows, ThrownResult
  <2> QED BY <2>1, FinishIsProcess DEF Sched!Next
<1>9. CASE DisableScheduler
  BY <1>9 DEF DisableScheduler, Sched!Next
<1>10. CASE DestroyPool
  BY <1>10 DEF DestroyPool
<1>11. CASE DestroyMembers
  BY <1>11 DEF DestroyMembers, Sched!Next
<1>12. CASE UseAfterFree \/ UNCHANGED vars
  BY <1>12 DEF UseAfterFree, vars
<1> QED BY <1>1, <1>2, <1>3, <1>4, <1>5, <1>6, <1>7, <1>8, <1>9, <1>10, <1>11,
           <1>12 DEF Next

-----------------------------------------------------------------------------
(* Every step keeps the invariant. *)

\* The invariant holds before enable_scheduler and any call.
LEMMA SafetyInit == Init => SafetyInv
<1> SUFFICES ASSUME Init PROVE SafetyInv
  OBVIOUS
<1>1. SchedInv /\ CtxInv
  BY SchedInit, CtxInit DEF Init
<1>2. OwnTypes
  <2>1. <<>> \in Seq({Sched!Embedding(r) : r \in Text})
    OBVIOUS
  <2>2. done = <<>> /\ direct = 0 /\ pool = "alive" /\ usedFreed = FALSE
    BY DEF Init
  <2>3. 0 \in 0..MaxDirectCalls
    BY WorkerAssumption
  <2>4. done \in Seq({Sched!Embedding(r) : r \in Text})
    BY <2>1, <2>2
  <2> QED BY <2>2, <2>3, <2>4 DEF OwnTypes
<1>3. Progress
  BY WorkerAssumption DEF Init, Sched!Init, ContextsInit, Progress, Waiting
<1>4. InLine
  BY DEF Init, Sched!Init, Sched!Unmade, InLine, AnsweredAlike
<1>5. Lives
  BY DEF Init, Sched!Init, ContextsInit, Lives
<1> QED BY <1>1, <1>2, <1>3, <1>4, <1>5 DEF SafetyInv, PoolInv

\* Every operation of the pool, its scheduler and its clients keeps it.
LEMMA SafetyStep == SafetyInv /\ [Next]_vars => SafetyInv'
<1> SUFFICES ASSUME SafetyInv, [Next]_vars
             PROVE  OwnTypes' /\ CtxInv' /\ Progress' /\ InLine' /\ Lives'
  BY StepIsSchedulerStep, SchedStep DEF SafetyInv, PoolInv
<1>0. Sched!TypeOK /\ OwnTypes /\ CtxInv /\ Progress /\ InLine /\ Lives
  BY DEF SafetyInv, SchedInv, PoolInv
<1>1. CASE EnableScheduler
  BY <1>0, <1>1, CtxStutter, PoolOwner DEF EnableScheduler, OwnTypes
<1>2. ASSUME NEW r \in Text, EmbedScheduled(r)
      PROVE  OwnTypes' /\ CtxInv' /\ Progress' /\ InLine' /\ Lives'
  BY <1>0, <1>2, CtxStutter, PoolSubmit DEF EmbedScheduled, OwnTypes
<1>3. ASSUME NEW t \in Client, NEW r \in Text, EmbedDirect(t, r)
      PROVE  OwnTypes' /\ CtxInv' /\ Progress' /\ InLine' /\ Lives'
  <2> USE DEF EmbedDirect
  <2>1. OwnTypes'
    BY <1>0, <1>3, WorkerAssumption DEF OwnTypes
  <2>2. CtxInv'
    BY <1>0, <1>3, CtxPick
  <2>3. Progress' /\ InLine' /\ Lives'
    <3>1. call'[Worker] = call[Worker] /\ UNCHANGED freed
      BY <1>0, <1>3 DEF Pick, CtxInv, ContextsTypeOK
    <3>2. ~freed
      BY <1>0, <1>3 DEF Lives
    <3> QED BY <1>0, <1>3, <3>1, <3>2, PoolClient
  <2> QED BY <2>1, <2>2, <2>3
<1>4. ASSUME NEW t \in Client, ClientStep(t)
      PROVE  OwnTypes' /\ CtxInv' /\ Progress' /\ InLine' /\ Lives'
  <2> USE DEF ClientStep
  <2>1. OwnTypes'
    BY <1>0, <1>4 DEF OwnTypes
  <2>2. ~freed
    BY <1>0, <1>4 DEF Lives, CallStep, Lock, Encode, EncodeFails, Fetch
  <2>3. CtxInv'
    BY <1>0, <1>4, <2>2, CtxLock, CtxEncode, CtxEncodeFails, CtxFetch DEF CallStep
  <2>4. call'[Worker] = call[Worker] /\ UNCHANGED freed
    BY <1>0, <1>4, WorkerAssumption
       DEF CallStep, Lock, Encode, EncodeFails, Fetch, CtxInv, ContextsTypeOK
  <2> QED BY <1>0, <1>4, <2>1, <2>2, <2>3, <2>4, PoolClient
<1>5. CASE WorkerLoop
  <2>1. OwnTypes' /\ CtxInv'
    BY <1>0, <1>5, CtxStutter
       DEF WorkerLoop, OwnTypes
  <2>2. Progress' /\ InLine' /\ Lives'
    BY <1>0, <1>5, PoolTakeBatch, PoolOwner, PoolAnswerNext DEF WorkerLoop
  <2> QED BY <2>1, <2>2
<1>6. CASE WorkerPick
  <2> USE DEF WorkerPick
  <2>1. batch[Len(done) + 1] \in Text
    BY <1>0, <1>6, LenProperties, ElementOfSeq DEF OwnTypes, Sched!TypeOK
  <2>2. CtxInv'
    BY <1>0, <1>6, <2>1, WorkerAssumption, CtxPick
  <2>3. OwnTypes'
    BY <1>0, <1>6 DEF OwnTypes
  <2>4. /\ call'[Worker].pc = "picked" /\ call'[Worker].text = batch[Len(done) + 1]
        /\ \A t \in Client : call'[t] = call[t]
        /\ UNCHANGED freed
    BY <1>0, <1>6, WorkerAssumption DEF Pick, CtxInv, ContextsTypeOK
  <2>5. Progress' /\ InLine' /\ Lives'
    BY <1>0, <1>6, <2>4
       DEF Progress, InLine, Lives, Waiting, Using, AnsweredAlike, schedVars,
           Sched!Embedding, Sched!Empty
  <2> QED BY <2>2, <2>3, <2>5
<1>7. CASE WorkerInEmbed
  <2> USE DEF WorkerInEmbed
  <2>1. CtxInv'
    BY <1>0, <1>7, WorkerAssumption, CtxLock, CtxEncode
  <2>2. OwnTypes'
    BY <1>0, <1>7 DEF OwnTypes
  <2>3. /\ call[Worker].pc # "idle" /\ call'[Worker].pc # "idle"
        /\ call'[Worker].text = call[Worker].text
        /\ \A t \in Client : call'[t] = call[t]
        /\ UNCHANGED freed
    BY <1>0, <1>7, WorkerAssumption
       DEF Lock, Encode, CtxInv, ContextsTypeOK, Calls
  <2>4. Progress' /\ InLine' /\ Lives'
    BY <1>0, <1>7, <2>3
       DEF Progress, InLine, Lives, Waiting, Using, AnsweredAlike, schedVars,
           Sched!Embedding, Sched!Empty
  <2> QED BY <2>1, <2>2, <2>4
<1>8. CASE WorkerFetch
  <2> DEFINE out == Collected(Sched!Embedding(content[call[Worker].idx]))
  <2>1. Sound(Worker) /\ Fetch(Worker) /\ UNCHANGED <<direct, pool, usedFreed, history>>
    BY <1>8 DEF WorkerFetch
  <2>2. ~freed /\ call[Worker].pc = "encoded" /\ worker = "processing"
    BY <1>0, <2>1 DEF Sound, Using, Fetch, Progress, Waiting
  <2>3. CtxInv' /\ content[call[Worker].idx] = call[Worker].text
    BY <1>0, <2>1, <2>2, WorkerAssumption, CtxFetch
  <2>4. /\ call'[Worker].pc = "idle" /\ UNCHANGED freed
        /\ \A t \in Client : call'[t] = call[t]
    BY <1>0, <2>1, WorkerAssumption DEF Fetch, CtxInv, ContextsTypeOK, Calls
  <2>5. /\ batch \in Seq(Text) /\ Len(batch) \in Nat
        /\ done \in Seq({Sched!Embedding(r) : r \in Text}) /\ Len(done) \in Nat
        /\ Len(done) < Len(batch) /\ batch # <<>>
    BY <1>0, <2>2, LenProperties, EmptySeq DEF OwnTypes, Sched!TypeOK, Progress
  <2>6. /\ out = Append(done, Sched!Embedding(batch[Len(done) + 1]))
        /\ batch[Len(done) + 1] \in Text
    BY <1>0, <2>2, <2>3, <2>5, ElementOfSeq DEF Collected, Progress
  <2>7. /\ out \in Seq({Sched!Embedding(r) : r \in Text}) /\ Len(out) = Len(done) + 1
        /\ \A i \in 1..Len(out) : out[i] = Sched!Embedding(batch[i])
    <3>1. Sched!Embedding(batch[Len(done) + 1]) \in {Sched!Embedding(r) : r \in Text}
      BY <2>6
    <3>2. /\ out \in Seq({Sched!Embedding(r) : r \in Text}) /\ Len(out) = Len(done) + 1
          /\ \A i \in 1..Len(done) : out[i] = done[i]
          /\ out[Len(done) + 1] = Sched!Embedding(batch[Len(done) + 1])
      BY <2>5, <2>6, <3>1, AppendProperties
    <3> QED BY <1>0, <2>5, <3>2 DEF InLine
  <2>8. IF Len(out) = Len(batch) THEN Sched!Finish(out) /\ done' = <<>>
        ELSE done' = out /\ UNCHANGED schedVars
    BY <1>8 DEF WorkerFetch
  <2> HIDE DEF out
  <2>9. CASE Len(out) = Len(batch)
    <3>3. OwnTypes'
      BY <1>0, <2>1, <2>8, <2>9 DEF OwnTypes
    <3>4. Progress' /\ InLine' /\ Lives'
      BY <1>0, <2>1, <2>4, <2>5, <2>7, <2>8, <2>9, PoolFinish
    <3> QED BY <2>3, <3>3, <3>4
  <2>10. CASE Len(out) # Len(batch)
    <3>2. OwnTypes'
      BY <1>0, <2>1, <2>7, <2>8, <2>10 DEF OwnTypes
    <3>3. Len(out) < Len(batch)
      BY <2>5, <2>7, <2>10
    <3>4. Progress'
      BY <2>2, <2>4, <2>8, <2>10, <3>3 DEF Progress, schedVars
    <3>5. InLine'
      BY <1>0, <2>2, <2>7, <2>8, <2>10
         DEF InLine, AnsweredAlike, schedVars, Sched!Embedding
    <3>6. Lives'
      BY <1>0, <2>1, <2>4, <2>8, <2>10 DEF Lives, Using, schedVars
    <3> QED BY <2>3, <3>2, <3>4, <3>5, <3>6
  <2> QED BY <2>9, <2>10
<1>9. CASE WorkerEmbedThrows
  <2> USE DEF WorkerEmbedThrows
  <2>1. CtxInv'
    BY <1>0, <1>9, WorkerAssumption, CtxEncodeFails
  <2>2. /\ call'[Worker].pc = "idle" /\ UNCHANGED freed
        /\ \A t \in Client : call'[t] = call[t]
    BY <1>0, <1>9, WorkerAssumption DEF EncodeFails, CtxInv, ContextsTypeOK, Calls
  <2>3. batch # <<>> /\ Len(batch) \in Nat
    BY <1>0, <1>9, LenProperties, EmptySeq
       DEF OwnTypes, Sched!TypeOK, Progress, Waiting, EncodeFails
  <2>4. /\ Len(ThrownResult) = Len(batch)
        /\ \A i \in 1..Len(ThrownResult) : ThrownResult[i] = Sched!Empty
    BY <2>3 DEF ThrownResult
  <2>6. OwnTypes'
    BY <1>0, <1>9 DEF OwnTypes
  <2>7. Progress' /\ InLine' /\ Lives'
    BY <1>0, <1>9, <2>2, <2>3, <2>4, PoolFinish
  <2> QED BY <2>1, <2>6, <2>7
<1>10. CASE DisableScheduler
  BY <1>0, <1>10, CtxStutter, PoolOwner DEF DisableScheduler, OwnTypes
<1>11. CASE DestroyPool
  <2> USE DEF DestroyPool
  <2>1. OwnTypes'
    BY <1>0, <1>11 DEF OwnTypes
  <2>2. CtxInv'
    BY <1>0, <1>11, CtxFree
  <2>3. Progress' /\ InLine' /\ Lives'
    BY <1>0, <1>11
       DEF FreeContexts, Quiet, Progress, InLine, Lives, Waiting, Using,
           AnsweredAlike, schedVars, Sched!Embedding, Sched!Empty
  <2> QED BY <2>1, <2>2, <2>3
<1>12. CASE DestroyMembers
  <2>1. CASE Sched!Stop \/ Sched!Join \/ Sched!Destroy
    <3>1. CASE UNCHANGED pool
      BY <1>0, <1>12, <2>1, <3>1, CtxStutter, PoolOwner
         DEF DestroyMembers, OwnTypes
    <3>2. CASE object = "none"
      BY <2>1, <3>2 DEF Sched!Stop, Sched!Join, Sched!Destroy
    <3> QED BY <1>12, <3>1, <3>2 DEF DestroyMembers
  <2>2. CASE object = "none" /\ pool' = "gone" /\ UNCHANGED schedVars
    <3>1. OwnTypes' /\ CtxInv'
      BY <1>0, <1>12, <2>2, CtxStutter DEF DestroyMembers, OwnTypes
    <3>2. Progress' /\ InLine' /\ Lives'
      BY <1>0, <1>12, <2>2
         DEF DestroyMembers, Progress, InLine, Lives, Waiting, Using,
             AnsweredAlike, schedVars, ctxVars, Sched!Embedding, Sched!Empty
    <3> QED BY <3>1, <3>2
  <2> QED BY <1>12, <2>1, <2>2 DEF DestroyMembers
<1>13. CASE UseAfterFree
  BY <1>0, <1>13, CtxStutter, PoolStutter
     DEF UseAfterFree, OwnTypes, poolVars, ctxVars
<1>14. CASE UNCHANGED vars
  BY <1>0, <1>14, CtxStutter, PoolStutter
     DEF vars, OwnTypes, poolVars, ctxVars
<1> QED BY <1>1, <1>2, <1>3, <1>4, <1>5, <1>6, <1>7, <1>8, <1>9, <1>10, <1>11,
           <1>12, <1>13, <1>14 DEF Next

-----------------------------------------------------------------------------
(* The fate of a batch. *)

FateTypes == batches \subseteq SUBSET Text /\ threw \subseteq UNION batches

\* No text is taken twice.
Apart == \A b, c \in batches : b = c \/ b \cap c = {}

\* What was taken was submitted, and is in the queue no more.
OutOfQueue ==
  \A b \in batches : \A r \in b :
    promise[r] # Sched!Unmade /\ \A i \in 1..Len(requests_) : requests_[i] # r

\* The batch that is encoded is one of those taken, and nothing in it threw.
InFlight ==
  worker = "processing" => ToSet(batch) \in batches /\ ToSet(batch) \cap threw = {}

\* The texts of batch b are about to get what b as a whole deserves.
Deserved(b) ==
  \/ b \cap threw # {} /\ \A i \in 1..Len(batch) : embeddings[i] = Sched!Empty
  \/ b \cap threw = {} /\ \A i \in 1..Len(batch) : embeddings[i] = Sched!Embedding(batch[i])

\* The batch that is answered is what is left of one that was taken.
Decided ==
  worker = "answering" =>
    \E b \in batches : Deserved(b) /\ \A i \in 1..Len(batch) : batch[i] \in b

Doomed(r) == \E b \in batches : r \in b /\ b \cap threw # {}

Answered ==
  \A r \in Text : /\ promise[r] = Sched!Failure => Doomed(r)
                  /\ promise[r] = Sched!Embedding(r) => ~Doomed(r)

FateInv == FateTypes /\ Apart /\ OutOfQueue /\ InFlight /\ Decided /\ Answered

\* The answers and the other states of a promise are all different.
LEMMA AnswersDiffer ==
  \A r : /\ Sched!Embedding(r) # Sched!Failure /\ Sched!Embedding(r) # Sched!Pending
         /\ Sched!Embedding(r) # Sched!Broken /\ Sched!Embedding(r) # Sched!Unmade
         /\ Sched!Failure # Sched!Pending /\ Sched!Failure # Sched!Broken
         /\ Sched!Failure # Sched!Unmade /\ Sched!Pending # Sched!Unmade
         /\ Sched!Broken # Sched!Unmade
BY DEF Sched!Embedding, Sched!Failure, Sched!Pending, Sched!Broken, Sched!Unmade

\* The texts of the batch are those it has at its positions.
LEMMA TextsOfBatch ==
  ASSUME NEW s \in Seq(Text)
  PROVE  /\ ToSet(s) \subseteq Text
         /\ \A i \in 1..Len(s) : s[i] \in ToSet(s)
         /\ \A r \in ToSet(s) : \E i \in 1..Len(s) : s[i] = r
<1>1. DOMAIN s = 1..Len(s) /\ \A i \in 1..Len(s) : s[i] \in Text
  BY LenProperties, ElementOfSeq
<1> QED BY <1>1 DEF ToSet

\* Before the first batch there is nothing to decide.
LEMMA FateInit == Init => FateInv
BY DEF Init, Sched!Init, FateInv, FateTypes, Apart, OutOfQueue, InFlight, Decided,
       Answered, Sched!Unmade, Sched!Failure, Sched!Embedding

\* Steps that touch neither batch nor queue nor promise decide nothing.
LEMMA FateStutter ==
  ASSUME FateInv, UNCHANGED <<history, batch, embeddings, promise, requests_>>,
         worker' # worker => worker' \notin {"processing", "answering"}
  PROVE  FateInv'
<1> USE DEF FateInv, history
<1>1. FateTypes' /\ Apart' /\ OutOfQueue'
  BY DEF FateTypes, Apart, OutOfQueue, Sched!Unmade
<1>2. InFlight'
  BY DEF InFlight
<1>3. Decided'
  BY DEF Decided, Deserved, Sched!Empty, Sched!Embedding
<1>4. Answered'
  BY DEF Answered, Doomed, Sched!Failure, Sched!Embedding
<1> QED BY <1>1, <1>2, <1>3, <1>4

\* A request that enters the queue was in no batch.
LEMMA FateSubmit ==
  ASSUME FateInv, Sched!TypeOK, NEW r \in Text, Sched!Submit(r), UNCHANGED history
  PROVE  FateInv'
<1> USE DEF FateInv, history, Sched!Submit
<1>1. /\ promise'[r] = Sched!Pending
      /\ \A q \in Text : q # r => promise'[q] = promise[q]
  BY DEF Sched!TypeOK
<1>2. \A b \in batches : r \notin b /\ \A q \in b : q \in Text /\ q # r
  BY DEF OutOfQueue, FateTypes
<1>3. FateTypes' /\ Apart'
  BY DEF FateTypes, Apart
<1>4. OutOfQueue'
  <2>1. /\ requests_ \in Seq(Text) /\ Len(requests_) \in Nat
        /\ Len(requests_') = Len(requests_) + 1
        /\ \A i \in 1..Len(requests_) : requests_'[i] = requests_[i]
        /\ requests_'[Len(requests_) + 1] = r
    BY AppendProperties, LenProperties DEF Sched!TypeOK
  <2>2. ASSUME NEW b \in batches, NEW q \in b
        PROVE  promise'[q] # Sched!Unmade
               /\ \A i \in 1..Len(requests_') : requests_'[i] # q
    <3>1. promise'[q] # Sched!Unmade
      BY <1>1, <1>2 DEF OutOfQueue
    <3>2. ASSUME NEW i \in 1..Len(requests_') PROVE requests_'[i] # q
      <4>1. i \in 1..Len(requests_) \/ i = Len(requests_) + 1
        BY <2>1
      <4> QED BY <1>2, <2>1, <4>1 DEF OutOfQueue
    <3> QED BY <3>1, <3>2
  <2>3. \A b \in batches' : b \in batches
    OBVIOUS
  <2> QED BY <2>2, <2>3 DEF OutOfQueue, Sched!Unmade
<1>5. InFlight'
  BY DEF InFlight
<1>6. Decided'
  BY DEF Decided, Deserved, Sched!Empty, Sched!Embedding
<1>7. Answered'
  <2>1. \A q : Doomed(q)' <=> Doomed(q)
    BY DEF Doomed
  <2>2. ASSUME NEW q \in Text
        PROVE  /\ promise'[q] = Sched!Failure => Doomed(q)
               /\ promise'[q] = Sched!Embedding(q) => ~Doomed(q)
    BY <1>1, AnswersDiffer DEF Answered
  <2> QED BY <2>1, <2>2 DEF Answered, Sched!Failure, Sched!Embedding
<1> QED BY <1>3, <1>4, <1>5, <1>6, <1>7

\* A batch is cut off the queue: none of its texts was taken before, none is
\* left in the queue.
LEMMA FateTakeBatch ==
  ASSUME FateInv, SchedInv, Sched!TakeBatch, batches' = batches \cup {ToSet(batch')},
         UNCHANGED threw
  PROVE  FateInv'
<1> USE DEF FateInv
<1> DEFINE B == ToSet(batch')
<1>1. /\ batch' \in Seq(Text) /\ requests_' \in Seq(Text)
      /\ Queued' = Queued /\ Queued = requests_
      /\ UNCHANGED <<embeddings, promise>> /\ worker' = "processing"
  <2>1. Queued = requests_
    BY ConcatEmptySeq DEF Queued, SchedInv, Held, Sched!TypeOK, Sched!TakeBatch
  <2> QED BY <2>1, TakeBatchKeeps DEF SchedInv, Sched!TakeBatch
<1>2. /\ Len(batch') \in Nat /\ Len(requests_') \in Nat
      /\ Len(requests_) = Len(batch') + Len(requests_')
      /\ \A i \in 1..Len(batch') : i \in 1..Len(requests_) /\ requests_[i] = batch'[i]
      /\ \A i \in 1..Len(requests_') : /\ Len(batch') + i \in 1..Len(requests_)
                                       /\ requests_[Len(batch') + i] = requests_'[i]
  <2>1. batch' \o requests_' = requests_
    BY <1>1 DEF Queued
  <2>2. /\ Len(batch') \in Nat /\ Len(requests_') \in Nat
        /\ Len(batch' \o requests_') = Len(batch') + Len(requests_')
        /\ \A i \in 1..(Len(batch') + Len(requests_')) :
             (batch' \o requests_')[i] = IF i <= Len(batch') THEN batch'[i]
                                         ELSE requests_'[i - Len(batch')]
    BY <1>1, ConcatProperties, LenProperties
  <2>3. \A i \in 1..Len(requests_') :
          ~(Len(batch') + i <= Len(batch')) /\ (Len(batch') + i) - Len(batch') = i
    BY <2>2
  <2> QED BY <2>1, <2>2, <2>3
<1>3. \A q \in B : /\ q \in Text /\ promise[q] = Sched!Pending
                   /\ \E i \in 1..Len(requests_) : requests_[i] = q
                   /\ \A i \in 1..Len(requests_') : requests_'[i] # q
  <2> SUFFICES ASSUME NEW q \in B
               PROVE  /\ q \in Text /\ promise[q] = Sched!Pending
                      /\ \E i \in 1..Len(requests_) : requests_[i] = q
                      /\ \A i \in 1..Len(requests_') : requests_'[i] # q
    OBVIOUS
  <2>1. q \in Text /\ \E i \in 1..Len(batch') : batch'[i] = q
    BY <1>1, TextsOfBatch
  <2>2. PICK i \in 1..Len(batch') : batch'[i] = q
    BY <2>1
  <2>3. i \in 1..Len(requests_) /\ requests_[i] = q
    BY <1>2, <2>2
  <2>4. promise[q] = Sched!Pending
    BY <1>1, <2>3 DEF SchedInv, WaitsOnce
  <2>5. ASSUME NEW j \in 1..Len(requests_') PROVE requests_'[j] # q
    <3>1. Len(batch') + j # i
      BY <1>2
    <3> QED BY <1>1, <1>2, <2>3, <3>1 DEF SchedInv, WaitsOnce
  <2> QED BY <2>1, <2>3, <2>4, <2>5
<1>4. \A b \in batches : b \cap B = {}
  BY <1>3 DEF OutOfQueue
<1>5. B \cap threw = {} /\ threw' = threw /\ batches' = batches \cup {B} /\ ToSet(batch') = B
  BY <1>4 DEF FateTypes
<1>6. B \subseteq Text
  BY <1>3
<1> HIDE DEF B
<1>7. FateTypes'
  BY <1>5, <1>6 DEF FateTypes
<1>8. Apart'
  BY <1>4, <1>5 DEF Apart
<1>9. OutOfQueue'
  <2>1. ASSUME NEW b \in batches, NEW q \in b, NEW i \in 1..Len(requests_')
        PROVE  requests_'[i] # q
    BY <1>2 DEF OutOfQueue
  <2>2. \A b \in batches' : b \in batches \/ b = B
    BY <1>5
  <2>3. \A q \in B : promise[q] # Sched!Unmade
    BY <1>3, AnswersDiffer
  <2>4. \A b \in batches' : \A q \in b :
          promise[q] # Sched!Unmade /\ \A i \in 1..Len(requests_') : requests_'[i] # q
    BY <1>3, <2>1, <2>2, <2>3 DEF OutOfQueue
  <2> QED BY <1>1, <2>4 DEF OutOfQueue, Sched!Unmade
<1>10. InFlight' /\ Decided'
  BY <1>1, <1>5 DEF InFlight, Decided
<1>11. Answered'
  <2>1. \A q : Doomed(q)' <=> Doomed(q)
    BY <1>5 DEF Doomed
  <2>2. promise' = promise
    BY <1>1
  <2> QED BY <2>1, <2>2 DEF Answered, Sched!Failure, Sched!Embedding
<1> QED BY <1>7, <1>8, <1>9, <1>10, <1>11

\* The head of the batch is answered as its batch deserves.
LEMMA FateAnswerNext ==
  ASSUME FateInv, SchedInv, Sched!AnswerNext, UNCHANGED history
  PROVE  FateInv'
<1> USE DEF FateInv, history, Sched!AnswerNext
<1>1. /\ batch \in Seq(Text) /\ Len(batch) \in Nat \ {0} /\ 1 \in 1..Len(batch)
      /\ batch[1] \in Text /\ Head(batch) = batch[1] /\ Head(embeddings) = embeddings[1]
      /\ Len(batch') = Len(batch) - 1
      /\ \A i \in 1..Len(batch') : /\ i + 1 \in 1..Len(batch)
                                   /\ batch'[i] = batch[i + 1]
                                   /\ embeddings'[i] = embeddings[i + 1]
  <2>1. /\ batch \in Seq(Text) /\ batch # <<>>
        /\ embeddings \in Seq(Results) /\ Len(embeddings) = Len(batch)
    BY DEF SchedInv, Sched!TypeOK, Held, Results
  <2>2. Len(batch) \in Nat \ {0} /\ embeddings # <<>>
    BY <2>1, EmptySeq
  <2>3. /\ Len(batch') = Len(batch) - 1 /\ Len(embeddings') = Len(batch) - 1
        /\ \A i \in 1..Len(batch') : batch'[i] = batch[i + 1]
        /\ \A i \in 1..Len(embeddings') : embeddings'[i] = embeddings[i + 1]
        /\ Head(batch) = batch[1] /\ Head(embeddings) = embeddings[1]
    BY <2>1, <2>2, HeadTailProperties
  <2>4. batch[1] \in Text
    BY <2>1, <2>2, ElementOfSeq
  <2>5. 1 \in 1..Len(batch) /\ \A i \in 1..Len(batch') : i + 1 \in 1..Len(batch)
    BY <2>2, <2>3
  <2> QED BY <2>1, <2>2, <2>3, <2>4, <2>5
<1>2. PICK b \in batches : Deserved(b) /\ \A i \in 1..Len(batch) : batch[i] \in b
  BY DEF Decided
<1>3. batch[1] \in b /\ \A c \in batches : batch[1] \in c => c = b
  BY <1>1, <1>2 DEF Apart
<1>4. promise[batch[1]] = Sched!Pending
  <2>1. /\ Queued \in Seq(Text) /\ Queued # <<>>
        /\ Head(Queued) = batch[1]
    BY <1>1, AnswerNextIsFirst, QueuedTyped DEF SchedInv
  <2>2. Queued[1] = batch[1] /\ 1 \in 1..Len(Queued)
    BY <2>1, EmptySeq
  <2> QED BY <2>2 DEF SchedInv, WaitsOnce
<1>5. /\ promise'[batch[1]] = Sched!AnswerFor(embeddings[1])
      /\ \A q \in Text : q # batch[1] => promise'[q] = promise[q]
  BY <1>1 DEF SchedInv, Sched!TypeOK
<1>6. \/ /\ b \cap threw # {} /\ promise'[batch[1]] = Sched!Failure
      \/ /\ b \cap threw = {} /\ promise'[batch[1]] = Sched!Embedding(batch[1])
  BY <1>1, <1>2, <1>5 DEF Deserved, Sched!AnswerFor, Sched!Empty, Sched!Embedding
<1>7. FateTypes' /\ Apart' /\ InFlight'
  BY DEF FateTypes, Apart, InFlight
<1>8. OutOfQueue'
  <2>1. \A c \in batches : \A q \in c : q \in Text /\ promise'[q] # Sched!Unmade
    BY <1>5, <1>6, AnswersDiffer DEF OutOfQueue, FateTypes
  <2> QED BY <2>1 DEF OutOfQueue, Sched!Unmade
<1>9. Decided'
  <2>1. Deserved(b)'
    BY <1>1, <1>2 DEF Deserved, Sched!Empty, Sched!Embedding
  <2>2. \A i \in 1..Len(batch') : batch'[i] \in b
    BY <1>1, <1>2
  <2> QED BY <2>1, <2>2 DEF Decided
<1>10. Answered'
  <2>1. \A q : Doomed(q)' <=> Doomed(q)
    BY DEF Doomed
  <2>2. Doomed(batch[1]) <=> b \cap threw # {}
    BY <1>3 DEF Doomed
  <2>3. ASSUME NEW q \in Text
        PROVE  /\ promise'[q] = Sched!Failure => Doomed(q)
               /\ promise'[q] = Sched!Embedding(q) => ~Doomed(q)
    BY <1>5, <1>6, <2>2, AnswersDiffer DEF Answered
  <2> QED BY <2>1, <2>3 DEF Answered, Sched!Failure, Sched!Embedding
<1> QED BY <1>7, <1>8, <1>9, <1>10

\* Nothing in the batch threw: each text gets its own embedding.
LEMMA FateFinish ==
  ASSUME FateInv, SchedInv, NEW STATE result, Sched!Finish(result), UNCHANGED history,
         Len(result) = Len(batch),
         \A i \in 1..Len(result) : result[i] = Sched!Embedding(batch[i])
  PROVE  FateInv'
<1> USE DEF FateInv, history, Sched!Finish
<1>1. batch \in Seq(Text)
  BY DEF SchedInv, Sched!TypeOK
<1>2. FateTypes' /\ Apart' /\ OutOfQueue' /\ InFlight'
  BY DEF FateTypes, Apart, OutOfQueue, InFlight, Sched!Unmade
<1>3. Decided'
  <2>1. ToSet(batch) \in batches /\ \A i \in 1..Len(batch) : batch[i] \in ToSet(batch)
    BY <1>1, TextsOfBatch DEF InFlight
  <2>2. ToSet(batch) \cap threw = {}
    BY DEF InFlight
  <2> DEFINE B == ToSet(batch)
  <2> HIDE DEF B
  <2>3. B \in batches /\ B \cap threw = {} /\ \A i \in 1..Len(batch) : batch[i] \in B
    BY <2>1, <2>2 DEF B
  <2>4. /\ batch' = batch /\ batches' = batches /\ threw' = threw
        /\ \A i \in 1..Len(batch') : embeddings'[i] = Sched!Embedding(batch'[i])
    OBVIOUS
  <2> QED BY <2>3, <2>4 DEF Decided, Deserved, Sched!Embedding
<1>4. Answered'
  BY DEF Answered, Doomed, Sched!Failure, Sched!Embedding
<1> QED BY <1>2, <1>3, <1>4

\* A text of the batch threw: the batch is doomed, and it was the only one the
\* text is in.
LEMMA FateThrows ==
  ASSUME FateInv, SchedInv, NEW x \in ToSet(batch), Sched!Finish(ThrownResult),
         threw' = threw \cup {x}, UNCHANGED batches
  PROVE  FateInv'
<1> USE DEF FateInv, Sched!Finish
<1> DEFINE B == ToSet(batch)
<1>1. batch \in Seq(Text)
  BY DEF SchedInv, Sched!TypeOK
<1>2. /\ B \in batches /\ B \cap threw = {} /\ x \in B
      /\ \A i \in 1..Len(batch) : batch[i] \in B
      /\ \A r \in B : \E i \in 1..Len(batch) : batch[i] = r
  BY <1>1, TextsOfBatch DEF InFlight
<1> HIDE DEF B
<1>3. \A c \in batches : x \in c => c = B
  BY <1>2 DEF Apart
<1>4. FateTypes' /\ Apart' /\ OutOfQueue' /\ InFlight'
  BY <1>2 DEF FateTypes, Apart, OutOfQueue, InFlight, Sched!Unmade
<1>5. Decided'
  <2>1. \A i \in 1..Len(batch) : ThrownResult[i] = Sched!Empty
    BY DEF ThrownResult
  <2>2. /\ batch' = batch /\ batches' = batches /\ B \cap threw' # {}
        /\ \A i \in 1..Len(batch') : embeddings'[i] = Sched!Empty
    BY <1>2, <2>1
  <2> QED BY <1>2, <2>2 DEF Decided, Deserved, Sched!Empty
<1>6. Answered'
  <2>1. \A q : q \notin B => (Doomed(q)' <=> Doomed(q))
    BY <1>2, <1>3 DEF Doomed
  <2>2. ASSUME NEW q \in B PROVE q \in Text /\ promise[q] = Sched!Pending
    <3>1. PICK i \in 1..Len(batch) : batch[i] = q
      BY <1>2
    <3>2. /\ batch \in Seq(Text) /\ requests_ \in Seq(Text)
          /\ Len(batch) \in Nat /\ Len(requests_) \in Nat /\ batch[i] \in Text
      BY <3>1, LenProperties, ElementOfSeq DEF SchedInv, Sched!TypeOK
    <3>3. i \in 1..Len(Queued) /\ Queued[i] = batch[i]
      BY <3>2, ConcatProperties DEF Queued
    <3> QED BY <3>1, <3>2, <3>3 DEF SchedInv, WaitsOnce
  <2>3. ASSUME NEW q \in Text
        PROVE  /\ promise[q] = Sched!Failure => Doomed(q)'
               /\ promise[q] = Sched!Embedding(q) => ~Doomed(q)'
    BY <2>1, <2>2, AnswersDiffer DEF Answered
  <2> QED BY <2>3 DEF Answered, Sched!Failure, Sched!Embedding
<1> QED BY <1>4, <1>5, <1>6

\* The members are destroyed when the worker has left: what was queued is
\* broken, what was taken was answered.
LEMMA FateDestroy ==
  ASSUME FateInv, SchedInv, Sched!Destroy, UNCHANGED history
  PROVE  FateInv'
<1> USE DEF FateInv, history, Sched!Destroy
<1>1. worker' \notin {"processing", "answering"} /\ requests_' = <<>>
      /\ UNCHANGED <<batch, embeddings>>
  OBVIOUS
<1>2. ASSUME NEW q \in Text
      PROVE  \/ promise'[q] = promise[q]
             \/ promise[q] # Sched!Unmade /\ promise'[q] = Sched!Broken
  <2>1. promise'[q] = IF Sched!Contains(requests_, q) THEN Sched!Broken ELSE promise[q]
    OBVIOUS
  <2>2. ASSUME Sched!Contains(requests_, q) PROVE promise[q] # Sched!Unmade
    <3>1. PICK i \in 1..Len(requests_) : requests_[i] = q
      BY <2>2 DEF Sched!Contains
    <3>2. /\ batch \in Seq(Text) /\ requests_ \in Seq(Text)
          /\ Len(batch) \in Nat /\ Len(requests_) \in Nat
      BY LenProperties DEF SchedInv, Sched!TypeOK
    <3>3. Len(batch) + i \in 1..Len(Queued) /\ Queued[Len(batch) + i] = requests_[i]
      <4>1. /\ Len(Queued) = Len(batch) + Len(requests_)
            /\ \A k \in 1..(Len(batch) + Len(requests_)) :
                 Queued[k] = IF k <= Len(batch) THEN batch[k] ELSE requests_[k - Len(batch)]
        BY <3>2, ConcatProperties DEF Queued
      <4>2. /\ Len(batch) + i \in 1..(Len(batch) + Len(requests_))
            /\ ~(Len(batch) + i <= Len(batch)) /\ (Len(batch) + i) - Len(batch) = i
        BY <3>2
      <4> QED BY <4>1, <4>2
    <3>4. promise[q] = Sched!Pending
      BY <3>1, <3>3 DEF SchedInv, WaitsOnce
    <3> QED BY <3>4, AnswersDiffer
  <2> QED BY <2>1, <2>2
<1>3. FateTypes' /\ Apart' /\ InFlight' /\ Decided'
  BY <1>1 DEF FateTypes, Apart, InFlight, Decided
<1>4. OutOfQueue'
  <2>1. \A c \in batches : \A q \in c : promise'[q] # Sched!Unmade
    BY <1>2, AnswersDiffer DEF OutOfQueue, FateTypes
  <2>2. \A i \in 1..Len(requests_') : FALSE
    BY <1>1, EmptySeq
  <2> QED BY <2>1, <2>2 DEF OutOfQueue, Sched!Unmade
<1>5. Answered'
  <2>1. \A q : Doomed(q)' <=> Doomed(q)
    BY DEF Doomed
  <2>2. ASSUME NEW q \in Text
        PROVE  /\ promise'[q] = Sched!Failure => Doomed(q)
               /\ promise'[q] = Sched!Embedding(q) => ~Doomed(q)
    BY <1>2, AnswersDiffer DEF Answered
  <2> QED BY <2>1, <2>2 DEF Answered, Sched!Failure, Sched!Embedding
<1> QED BY <1>3, <1>4, <1>5

\* What a batch deserves is settled in every step of the pool.
LEMMA FateStep == SafetyInv /\ FateInv /\ [Next]_vars => FateInv'
<1> SUFFICES ASSUME SafetyInv, FateInv, [Next]_vars PROVE FateInv'
  OBVIOUS
<1>0. SchedInv /\ Sched!TypeOK /\ OwnTypes /\ CtxInv /\ Progress /\ InLine /\ Lives
  BY DEF SafetyInv, SchedInv, PoolInv
<1>1. CASE EnableScheduler
  BY <1>1, FateStutter DEF EnableScheduler, Sched!Construct
<1>2. ASSUME NEW r \in Text, EmbedScheduled(r) PROVE FateInv'
  <2>1. CASE Sched!Submit(r)
    BY <1>0, <1>2, <2>1, FateSubmit DEF EmbedScheduled
  <2>2. CASE Sched!Get(r)
    BY <1>2, <2>2, FateStutter DEF EmbedScheduled, Sched!Get
  <2> QED BY <1>2, <2>1, <2>2 DEF EmbedScheduled
<1>3. ASSUME NEW t \in Client, NEW r \in Text, EmbedDirect(t, r) PROVE FateInv'
  BY <1>3, FateStutter DEF EmbedDirect, schedVars
<1>4. ASSUME NEW t \in Client, ClientStep(t) PROVE FateInv'
  BY <1>4, FateStutter DEF ClientStep, schedVars
<1>5. CASE WorkerLoop
  <2>1. CASE Sched!TakeBatch
    BY <1>0, <1>5, <2>1, FateTakeBatch DEF WorkerLoop, Sched!Exit, Sched!AnswerNext, Sched!TakeBatch
  <2>2. CASE Sched!Exit
    BY <1>5, <2>2, FateStutter DEF WorkerLoop, Sched!Exit, Sched!TakeBatch, history
  <2>3. CASE Sched!AnswerNext
    BY <1>0, <1>5, <2>3, FateAnswerNext DEF WorkerLoop, Sched!AnswerNext, Sched!TakeBatch, history
  <2> QED BY <1>5, <2>1, <2>2, <2>3 DEF WorkerLoop
<1>6. CASE WorkerPick \/ WorkerInEmbed
  BY <1>6, FateStutter DEF WorkerPick, WorkerInEmbed, schedVars
<1>7. CASE WorkerFetch
  <2> DEFINE out == Collected(Sched!Embedding(content[call[Worker].idx]))
  <2>1. CASE UNCHANGED schedVars
    BY <1>7, <2>1, FateStutter DEF WorkerFetch, schedVars
  <2>2. CASE Len(out) = Len(batch) /\ Sched!Finish(out)
    <3>1. \A i \in 1..Len(out) : out[i] = Sched!Embedding(batch[i])
      BY <1>7, CollectedOwn
    <3>2. UNCHANGED history
      BY <1>7 DEF WorkerFetch, history
    <3> HIDE DEF out
    <3> QED BY <1>0, <2>2, <3>1, <3>2, FateFinish
  <2> QED BY <1>7, <2>1, <2>2 DEF WorkerFetch
<1>8. CASE WorkerEmbedThrows
  <2>1. /\ worker = "processing" /\ call[Worker].pc # "idle"
        /\ call[Worker].text = batch[Len(done) + 1] /\ Len(done) < Len(batch)
    BY <1>0, <1>8 DEF WorkerEmbedThrows, EncodeFails, Sched!Finish, Progress
  <2>2. batch \in Seq(Text) /\ Len(done) + 1 \in 1..Len(batch)
    BY <1>0, <2>1, LenProperties DEF Sched!TypeOK, OwnTypes
  <2>3. call[Worker].text \in ToSet(batch)
    BY <2>1, <2>2, TextsOfBatch
  <2> QED BY <1>0, <1>8, <2>3, FateThrows DEF WorkerEmbedThrows
<1>9. CASE DisableScheduler
  <2>1. CASE Sched!Stop \/ Sched!Join
    BY <1>9, <2>1, FateStutter DEF DisableScheduler, Sched!Stop, Sched!Join
  <2>2. CASE Sched!Destroy
    BY <1>0, <1>9, <2>2, FateDestroy DEF DisableScheduler
  <2> QED BY <1>9, <2>1, <2>2 DEF DisableScheduler
<1>10. CASE DestroyPool
  BY <1>10, FateStutter DEF DestroyPool, schedVars
<1>11. CASE DestroyMembers
  <2>1. CASE Sched!Stop \/ Sched!Join
    BY <1>11, <2>1, FateStutter DEF DestroyMembers, Sched!Stop, Sched!Join
  <2>2. CASE Sched!Destroy
    BY <1>0, <1>11, <2>2, FateDestroy DEF DestroyMembers
  <2>3. CASE UNCHANGED schedVars
    BY <1>11, <2>3, FateStutter DEF DestroyMembers, schedVars
  <2> QED BY <1>11, <2>1, <2>2, <2>3 DEF DestroyMembers
<1>12. CASE UseAfterFree \/ UNCHANGED vars
  BY <1>12, FateStutter DEF UseAfterFree, vars, schedVars
<1> QED BY <1>1, <1>2, <1>3, <1>4, <1>5, <1>6, <1>7, <1>8, <1>9, <1>10, <1>11,
           <1>12 DEF Next

-----------------------------------------------------------------------------
\* The strengthened invariant holds in every state.
THEOREM AlwaysSafe == Spec => []SafetyInv
BY SafetyInit, SafetyStep, PTL DEF Spec

\* And with it what becomes of every batch.
THEOREM AlwaysFated == Spec => []FateInv
BY AlwaysSafe, FateInit, FateStep, PTL DEF Spec

\* The pool's variables keep their types; the round-robin index stays in
\* range whatever the counter does when it wraps.
THEOREM PoolTypeCorrect == Spec => []TypeOK
<1>1. SafetyInv /\ FateInv => TypeOK
  BY DEF SafetyInv, SchedInv, PoolInv, CtxInv, OwnTypes, FateInv, FateTypes, TypeOK
<1> QED BY <1>1, AlwaysSafe, AlwaysFated, PTL

\* No two threads ever run llama code on one context (the per-context mutex
\* of LlamaSessionPool::embed).
THEOREM OneThreadPerContext == Spec => []ContextExclusive
<1>1. SafetyInv => ContextExclusive
  BY DEF SafetyInv, PoolInv, CtxInv
<1> QED BY <1>1, AlwaysSafe, PTL

\* Every call and every promise gets the embedding of its own text, although
\* results are read from memory all threads share and matched by position.
THEOREM NeverMixed == Spec => []EmbeddingsNeverMixed
<1>1. SafetyInv => EmbeddingsNeverMixed
  <2> SUFFICES ASSUME SafetyInv PROVE EmbeddingsNeverMixed
    OBVIOUS
  <2>1. \A r : Sched!Embedding(r).of = r
    BY DEF Sched!Embedding
  <2>2. OwnEmbedding /\ InLine
    BY DEF SafetyInv, PoolInv, CtxInv
  <2>3. ASSUME NEW r \in Text, promise[r].kind = "value" PROVE promise[r].of = r
    <3>1. promise[r] = Sched!Embedding(r)
      BY <2>2, <2>3 DEF InLine
    <3> QED BY <2>1, <3>1
  <2>4. ASSUME NEW i \in 1..Len(done) PROVE done[i].of = batch[i]
    <3>1. done[i] = Sched!Embedding(batch[i])
      BY <2>2 DEF InLine
    <3> QED BY <2>1, <3>1
  <2> QED BY <2>2, <2>3, <2>4 DEF EmbeddingsNeverMixed
<1> QED BY <1>1, AlwaysSafe, PTL

\* A text whose encoder call throws fails the batch it was taken in, all of it
\* and no other (llama_scheduler_impl.hpp:96-128, llama_session_impl.hpp:409-420).
THEOREM WholeBatchFails == Spec => []BatchFailsAsAWhole
<1>1. FateInv => BatchFailsAsAWhole
  BY AnswersDiffer DEF FateInv, Answered, Doomed, BatchFailsAsAWhole
<1> QED BY <1>1, AlwaysFated, PTL

\* Memory is used after ~LlamaSessionPool freed it only if the pool is
\* destroyed while its scheduler is enabled.
THEOREM FreedOnlyWithScheduler == Spec => []FreedOnlyUnderScheduler
<1>1. SafetyInv => FreedOnlyUnderScheduler
  BY WorkerAssumption
     DEF SafetyInv, PoolInv, Lives, Progress, Waiting, Using, FreedOnlyUnderScheduler
<1> QED BY <1>1, AlwaysSafe, PTL

\* With embed_batch of the session pool as its process_batch_
\* (llama_session_impl.hpp:357-363, 409-420) the scheduler is the one of LlamaScheduler:
\* what is proved of that one holds of it in the pool.
THEOREM SchedulerStaysScheduler == Spec => ImplementsScheduler
<1>1. Init => Sched!Init
  BY DEF Init
<1> QED BY <1>1, AlwaysSafe, StepIsSchedulerStep, PTL DEF Spec, ImplementsScheduler

\* So what callers of embed_scheduled see is the service: their texts are
\* answered in the order they were queued, each once, with its own embedding
\* or none (llama_session_impl.hpp:409-430).
THEOREM PoolIsFifo == Spec => ImplementsFifo
BY SchedulerStaysScheduler, SchedulerServes, PTL DEF ImplementsScheduler, ImplementsFifo

\* When disable_scheduler or the destructor has stopped the scheduler, the
\* batch that was running on the contexts is answered
\* (llama_session_impl.hpp:254-259, 423-428).
THEOREM PoolFinishesBatch == Spec => []StopFinishesBatch
<1>1. SafetyInv => StopFinishesBatch
  BY NoBatchLeft DEF SafetyInv, StopFinishesBatch
<1> QED BY <1>1, AlwaysSafe, PTL
=============================================================================
