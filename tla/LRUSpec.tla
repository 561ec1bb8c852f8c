------------------------------- MODULE LRUSpec -------------------------------
(***************************************************************************)
(* What an LRU cache with expiry promises its callers, without lists,      *)
(* entries or memory: a store of at most capacity_ values, and for every   *)
(* cached key the set of cached keys used since that key was last used.    *)
(* The least recently used key is the one all the others were used after.  *)
(***************************************************************************)
EXTENDS Integers, FiniteSets

CONSTANTS
  Key,          \* texts
  Value,        \* embeddings
  Thread,       \* callers
  capacity_,    \* the most values the store holds
  ttl_seconds_, \* lifetime of a value, 0 = unlimited
  MaxTime,      \* bound on the clock
  None

VARIABLES
  store, \* [Key -> None or [val, expires_at]]
  since, \* [Key -> the cached keys used since the key was last used]
  now,   \* the clock, in seconds
  reply  \* [Thread -> what the thread's last lookup answered]

absVars == <<store, since, now, reply>>

Stored == {k \in Key : store[k] # None}

Expired(k) == ttl_seconds_ > 0 /\ now > store[k].expires_at

Deadline == IF ttl_seconds_ > 0 THEN now + ttl_seconds_ ELSE 0

\* k becomes the most recently used key, after the keys of Out have left.
Use(k, Out) ==
  since' = [j \in Key |->
              IF j = k \/ j \in Out \/ store[j] = None THEN {}
              ELSE (since[j] \ Out) \cup {k}]

Forget(Out) == since' = [j \in Key |-> IF j \in Out THEN {} ELSE since[j] \ Out]

Init ==
  /\ store = [k \in Key |-> None]
  /\ since = [k \in Key |-> {}]
  /\ now = 0
  /\ reply = [t \in Thread |-> None]

LookupHit(t, k) ==
  /\ store[k] # None
  /\ ~Expired(k)
  /\ Use(k, {})
  /\ reply' = [reply EXCEPT ![t] = store[k].val]
  /\ UNCHANGED <<store, now>>

LookupMiss(t, k) ==
  /\ store[k] = None
  /\ reply' = [reply EXCEPT ![t] = None]
  /\ UNCHANGED <<store, since, now>>

LookupExpired(t, k) ==
  /\ store[k] # None
  /\ Expired(k)
  /\ store' = [store EXCEPT ![k] = None]
  /\ Forget({k})
  /\ reply' = [reply EXCEPT ![t] = None]
  /\ UNCHANGED now

Replace(k, v) ==
  /\ store[k] # None
  /\ store' = [store EXCEPT ![k] = [val |-> v, expires_at |-> Deadline]]
  /\ Use(k, {})
  /\ UNCHANGED <<now, reply>>

Add(k, v) ==
  /\ store[k] = None
  /\ Cardinality(Stored) < capacity_
  /\ store' = [store EXCEPT ![k] = [val |-> v, expires_at |-> Deadline]]
  /\ Use(k, {})
  /\ UNCHANGED <<now, reply>>

\* A full store gives up the key every other cached key was used after.
AddEvicting(k, v) ==
  /\ store[k] = None
  /\ Cardinality(Stored) >= capacity_
  /\ \E victim \in Stored :
       /\ Stored \ {victim} \subseteq since[victim]
       /\ store' = [store EXCEPT ![victim] = None,
                                 ![k] = [val |-> v, expires_at |-> Deadline]]
       /\ Use(k, {victim})
  /\ UNCHANGED <<now, reply>>

DropAll ==
  /\ store' = [k \in Key |-> None]
  /\ since' = [k \in Key |-> {}]
  /\ UNCHANGED <<now, reply>>

Tick ==
  /\ now < MaxTime
  /\ now' = now + 1
  /\ UNCHANGED <<store, since, reply>>

Next ==
  \/ \E t \in Thread, k \in Key :
       LookupHit(t, k) \/ LookupMiss(t, k) \/ LookupExpired(t, k)
  \/ \E k \in Key, v \in Value : Replace(k, v) \/ Add(k, v) \/ AddEvicting(k, v)
  \/ DropAll
  \/ Tick

Spec == Init /\ [][Next]_absVars
=============================================================================
