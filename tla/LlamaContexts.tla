---------------------------- MODULE LlamaContexts ----------------------------
(***************************************************************************)
(* LlamaSessionPool::embed (detail/llama_session_impl.hpp:314-355): a pool *)
(* of llama contexts shared by any number of threads.  A call takes the    *)
(* next index round robin, locks that context's mutex, runs the encoder on *)
(* it and copies the embeddings out of the CONTEXT's memory before the     *)
(* lock is released.  next_idx_ is an unsigned counter that wraps at       *)
(* IndexModulus (2^64 in the build).                                       *)
(***************************************************************************)
EXTENDS Integers

CONSTANTS
  Thread,       \* threads that call embed
  Text,
  NumContexts,  \* n_sessions; load_from_file refuses n_sessions <= 0
  IndexModulus, \* range of the atomic counter
  None

ASSUME ContextsAssumption == NumContexts \in Nat \ {0} /\ IndexModulus \in Nat \ {0}
ASSUME NoneAssumption == None \notin Text /\ None \notin Thread

VARIABLES
  next_idx_,
  mtx,      \* [Context -> the thread that holds its mutex, or None]
  content,  \* [Context -> the text its output buffer was computed from, or None]
  freed,    \* the llama contexts and the model have been freed
  call      \* [Thread -> its current or last call of embed]

ctxVars == <<next_idx_, mtx, content, freed, call>>

Context == 0..(NumContexts - 1)

\* A call: its progress, its text, its context and what it returned.
Calls == [pc : {"idle", "picked", "locked", "encoded"},
          text : Text \cup {None}, idx : Context,
          out : Text \cup {None, "throw"}]

ContextsInit ==
  /\ next_idx_ = 0
  /\ mtx = [c \in Context |-> None]
  /\ content = [c \in Context |-> None]
  /\ freed = FALSE
  /\ call = [t \in Thread |-> [pc |-> "idle", text |-> None, idx |-> 0, out |-> None]]

\* Mutant: the counter is used as it is.
NextContextUnbounded == next_idx_

NextContext == next_idx_ % NumContexts

\* fetch_add and modulo.
Pick(t, x) ==
  /\ call[t].pc = "idle"
  /\ call' = [call EXCEPT ![t] = [pc |-> "picked", text |-> x,
                                  idx |-> NextContext, out |-> None]]
  /\ next_idx_' = (next_idx_ + 1) % IndexModulus
  /\ UNCHANGED <<mtx, content, freed>>

\* Mutant: no mutex.
AvailableAlways(c) == TRUE

Available(c) == mtx[c] = None

Lock(t) ==
  /\ call[t].pc = "picked"
  /\ Available(call[t].idx)
  /\ mtx' = [mtx EXCEPT ![call[t].idx] = t]
  /\ call' = [call EXCEPT ![t].pc = "locked"]
  /\ UNCHANGED <<next_idx_, content, freed>>

\* The memory is cleared and llama_encode overwrites the output buffer.
Encode(t) ==
  /\ call[t].pc = "locked"
  /\ content' = [content EXCEPT ![call[t].idx] = call[t].text]
  /\ call' = [call EXCEPT ![t].pc = "encoded"]
  /\ UNCHANGED <<next_idx_, mtx, freed>>

\* Mutant: a failing call returns without unlocking.
EncodeFailsLocked(t) ==
  /\ call[t].pc = "locked"
  /\ content' = [content EXCEPT ![call[t].idx] = None]
  /\ call' = [call EXCEPT ![t].pc = "idle", ![t].out = "throw"]
  /\ UNCHANGED <<next_idx_, mtx, freed>>

\* llama_encode failed: embed throws and the unique_lock is released.
EncodeFails(t) ==
  /\ call[t].pc = "locked"
  /\ content' = [content EXCEPT ![call[t].idx] = None]
  /\ mtx' = [mtx EXCEPT ![call[t].idx] = None]
  /\ call' = [call EXCEPT ![t].pc = "idle", ![t].out = "throw"]
  /\ UNCHANGED <<next_idx_, freed>>

\* memcpy from the context, return, unlock.
Fetch(t) ==
  /\ call[t].pc = "encoded"
  /\ call' = [call EXCEPT ![t].pc = "idle", ![t].out = content[call[t].idx]]
  /\ mtx' = [mtx EXCEPT ![call[t].idx] = None]
  /\ UNCHANGED <<next_idx_, content, freed>>

\* ~LlamaSessionPool frees every context and the model.
FreeContexts ==
  /\ ~freed
  /\ freed' = TRUE
  /\ content' = [c \in Context |-> None]
  /\ UNCHANGED <<next_idx_, mtx, call>>

CallStep(t) == Lock(t) \/ Encode(t) \/ EncodeFails(t) \/ Fetch(t)

\* Thread t is inside llama code on its context.
Using(t) == call[t].pc \in {"locked", "encoded"}

-----------------------------------------------------------------------------
ContextsTypeOK ==
  /\ next_idx_ \in 0..(IndexModulus - 1)
  /\ mtx \in [Context -> Thread \cup {None}]
  /\ content \in [Context -> Text \cup {None}]
  /\ freed \in BOOLEAN
  /\ call \in [Thread -> Calls]

\* A context is used by the one thread that holds its mutex.
ContextExclusive ==
  /\ \A t \in Thread : Using(t) => mtx[call[t].idx] = t
  /\ \A c \in Context : mtx[c] # None => Using(mtx[c]) /\ call[mtx[c]].idx = c

\* A call that returned an embedding returned the one of its own text, though
\* the result passes through memory all threads share.
OwnEmbedding ==
  \A t \in Thread :
    call[t].pc = "idle" => call[t].out \in {call[t].text, "throw", None}
=============================================================================
