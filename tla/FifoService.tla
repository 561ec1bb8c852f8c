---------------------------- MODULE FifoService -----------------------------
(***************************************************************************)
(* What a batching scheduler owes the requests it accepted, without        *)
(* threads, batches or a stop flag: it answers them one by one in the      *)
(* order it accepted them, each with the embedding of its own text or with *)
(* an error, and when it is shut down it abandons those it did not reach.  *)
(***************************************************************************)
EXTENDS Naturals, Sequences

CONSTANTS Request, None

VARIABLES
  pending, \* accepted and not answered, oldest first
  answer,  \* [Request -> None or an answer]
  open     \* the service exists

fifoVars == <<pending, answer, open>>

Embedding(r) == [kind |-> "value", of |-> r]
Failure == [kind |-> "exception", of |-> None]
Broken == [kind |-> "broken", of |-> None]

Init ==
  /\ pending = <<>>
  /\ answer = [r \in Request |-> None]
  /\ open = FALSE

Open ==
  /\ ~open
  /\ open' = TRUE
  /\ UNCHANGED <<pending, answer>>

Accept(r) ==
  /\ open
  /\ answer[r] = None
  /\ \A i \in 1..Len(pending) : pending[i] # r
  /\ pending' = Append(pending, r)
  /\ UNCHANGED <<answer, open>>

Answer ==
  /\ pending # <<>>
  /\ \E a \in {Embedding(Head(pending)), Failure} :
       answer' = [answer EXCEPT ![Head(pending)] = a]
  /\ pending' = Tail(pending)
  /\ UNCHANGED open

Close ==
  /\ open
  /\ open' = FALSE
  /\ pending' = <<>>
  /\ answer' = [r \in Request |->
                  IF \E i \in 1..Len(pending) : pending[i] = r THEN Broken
                  ELSE answer[r]]

Next == Open \/ (\E r \in Request : Accept(r)) \/ Answer \/ Close

Spec == Init /\ [][Next]_fifoVars
=============================================================================
