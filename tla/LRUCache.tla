------------------------------ MODULE LRUCache ------------------------------
(***************************************************************************)
(* lembed::detail::LRUCache (embedding_cache_impl.hpp) behind the C API of *)
(* embedding_cache.h.  A std::list of keys, most recently used first, an   *)
(* unordered_map from keys to heap entries, and one malloc'ed vector per   *)
(* entry.  Every operation runs under mtx_, so each is one action; what    *)
(* is NOT under the mutex is the raw pointer lembed_cache_get hands out,   *)
(* which the caller reads after the lock is gone: held[t] follows it.      *)
(*                                                                         *)
(* An entry's list iterator is the position of its key in list_.  A put    *)
(* whose malloc fails returns having changed nothing, which is stuttering. *)
(***************************************************************************)
EXTENDS Integers, SequencesExt

CONSTANTS
  Key,          \* texts
  Value,        \* embeddings
  Addr,         \* addresses malloc can return for a vector
  Thread,       \* callers of the C API
  capacity_,
  ttl_seconds_, \* 0 = entries never expire
  MaxTime,      \* bound on time(nullptr)
  None,         \* no entry / no pointer
  Free          \* content of an address that is not allocated

\* lembed_cache_create refuses a capacity of 0.
ASSUME CapacityAssumption == capacity_ \in Nat \ {0}
ASSUME TimeAssumption == ttl_seconds_ \in Nat /\ MaxTime \in Nat
VARIABLES
  list_, \* sequence of keys, most recently used first
  map_,  \* [Key -> entry or None]
  heap,  \* [Addr -> the vector stored there or Free]
  now,   \* time(nullptr)
  held   \* [Thread -> the pointer its last get returned, or None]

vars == <<list_, map_, heap, now, held>>

Entry == [vec : Addr, expires_at : Nat]

\* A pointer handed out by get: where it points, what was there, the other
\* keys used since, and whether its own key was overwritten, expired or
\* cleared since.  The last two are history, the code has no such fields.
Pointer == [key : Key, vec : Addr, val : Value, used : SUBSET Key, ended : BOOLEAN]

ASSUME NoneAssumption ==
  /\ None \notin Entry /\ None \notin Pointer /\ Free \notin Value
  /\ None \notin [val : Value, expires_at : Nat] \* an entry as LRUSpec sees it

Cached == {k \in Key : map_[k] # None}

Position(k) == CHOOSE i \in 1..Len(list_) : list_[i] = k

\* list_.erase(entry->it)
Erased(k) == RemoveAt(list_, Position(k))

\* Mutants: a hit does not move its key, and moves it without unlinking it.
SplicedNowhere(k) == list_
SplicedTwice(k) == <<k>> \o list_

\* list_.splice(begin, list_, entry->it)
Spliced(k) == <<k>> \o Erased(k)

\* Mutant: an entry expires one second early.
ExpiredEarly(k) == ttl_seconds_ > 0 /\ now >= map_[k].expires_at

Expired(k) == ttl_seconds_ > 0 /\ now > map_[k].expires_at

ExpiryOfPut == IF ttl_seconds_ > 0 THEN now + ttl_seconds_ ELSE 0

Full == Cardinality(Cached) >= capacity_

\* Mutant: the old vector is not freed.
OverwrittenLeaking(k, v, copy) == [heap EXCEPT ![copy] = v]

Overwritten(k, v, copy) == [heap EXCEPT ![map_[k].vec] = Free, ![copy] = v]

\* History: key k was used; the pointers to the keys of Ends are finished.
Touch(h, k, Ends) ==
  IF h = None THEN None
  ELSE [h EXCEPT !.used = IF h.key = k THEN @ ELSE @ \cup {k},
                 !.ended = @ \/ h.key \in Ends]

Init ==
  /\ list_ = <<>>
  /\ map_ = [k \in Key |-> None]
  /\ heap = [a \in Addr |-> Free]
  /\ now = 0
  /\ held = [t \in Thread |-> None]

GetMiss(t, k) ==
  /\ map_[k] = None
  /\ held' = [held EXCEPT ![t] = None]
  /\ UNCHANGED <<list_, map_, heap, now>>

GetExpired(t, k) ==
  /\ map_[k] # None
  /\ Expired(k)
  /\ heap' = [heap EXCEPT ![map_[k].vec] = Free]
  /\ list_' = Erased(k)
  /\ map_' = [map_ EXCEPT ![k] = None]
  /\ held' = [u \in Thread |->
                IF u = t \/ held[u] = None THEN None
                ELSE [held[u] EXCEPT !.ended = @ \/ held[u].key = k]]
  /\ UNCHANGED now

GetHit(t, k) ==
  /\ map_[k] # None
  /\ ~Expired(k)
  /\ list_' = Spliced(k)
  /\ held' = [u \in Thread |->
                IF u = t
                  THEN [key |-> k, vec |-> map_[k].vec, val |-> heap[map_[k].vec],
                        used |-> {}, ended |-> FALSE]
                  ELSE Touch(held[u], k, {})]
  /\ UNCHANGED <<map_, heap, now>>

\* The new copy is allocated before the old vector is freed.
PutUpdate(k, v, copy) ==
  /\ map_[k] # None
  /\ heap[copy] = Free
  /\ heap' = Overwritten(k, v, copy)
  /\ map_' = [map_ EXCEPT ![k] = [vec |-> copy, expires_at |-> ExpiryOfPut]]
  /\ list_' = Spliced(k)
  /\ held' = [u \in Thread |-> Touch(held[u], k, {k})]
  /\ UNCHANGED now

PutInsert(k, v, copy) ==
  /\ map_[k] = None
  /\ heap[copy] = Free
  /\ ~Full
  /\ heap' = [heap EXCEPT ![copy] = v]
  /\ map_' = [map_ EXCEPT ![k] = [vec |-> copy, expires_at |-> ExpiryOfPut]]
  /\ list_' = <<k>> \o list_
  /\ held' = [u \in Thread |-> Touch(held[u], k, {})]
  /\ UNCHANGED now

\* A full cache first removes the entry of the last key of list_, expired
\* entries having no precedence.
PutEvict(k, v, copy) ==
  /\ map_[k] = None
  /\ heap[copy] = Free
  /\ Full
  /\ LET last == list_[Len(list_)]
     IN  /\ heap' = Overwritten(last, v, copy)
         /\ map_' = [map_ EXCEPT ![last] = None,
                                 ![k] = [vec |-> copy, expires_at |-> ExpiryOfPut]]
         /\ list_' = <<k>> \o Erased(last)
  /\ held' = [u \in Thread |-> Touch(held[u], k, {})]
  /\ UNCHANGED now

Clear ==
  /\ heap' = [a \in Addr |-> IF \E k \in Cached : map_[k].vec = a
                             THEN Free ELSE heap[a]]
  /\ map_' = [k \in Key |-> None]
  /\ list_' = <<>>
  /\ held' = [u \in Thread |->
                IF held[u] = None THEN None ELSE [held[u] EXCEPT !.ended = TRUE]]
  /\ UNCHANGED now

Tick ==
  /\ now < MaxTime
  /\ now' = now + 1
  /\ UNCHANGED <<list_, map_, heap, held>>

Next ==
  \/ \E t \in Thread, k \in Key : GetMiss(t, k) \/ GetExpired(t, k) \/ GetHit(t, k)
  \/ \E k \in Key, v \in Value, copy \in Addr :
       PutUpdate(k, v, copy) \/ PutInsert(k, v, copy) \/ PutEvict(k, v, copy)
  \/ Clear
  \/ Tick

Spec == Init /\ [][Next]_vars

-----------------------------------------------------------------------------
\* The variables have their types (embedding_cache_impl.hpp:109-122).
TypeOK ==
  /\ list_ \in Seq(Key)
  /\ map_ \in [Key -> Entry \cup {None}]
  /\ heap \in [Addr -> Value \cup {Free}]
  /\ now \in Nat
  /\ held \in [Thread -> Pointer \cup {None}]

\* The list and the map hold the same keys, each once, so every iterator an
\* entry keeps is valid and eviction always finds the entry of the last key.
ListMapAgree ==
  /\ \A i, j \in 1..Len(list_) : list_[i] = list_[j] => i = j
  /\ \A k \in Key : map_[k] # None <=> \E i \in 1..Len(list_) : list_[i] = k

\* malloc and free balance: the allocated vectors are exactly those of the
\* entries, none leaked, none shared by two entries, none freed while an
\* entry still points to it.
HeapOwnership ==
  /\ \A k \in Cached : heap[map_[k].vec] # Free
  /\ \A k, l \in Cached : map_[k].vec = map_[l].vec => k = l
  /\ \A a \in Addr : heap[a] # Free => \E k \in Cached : map_[k].vec = a

\* put never lets the cache grow beyond capacity_ (lines 81-85).
WithinCapacity == Cardinality(Cached) <= capacity_

\* The pointer get returned is read outside the mutex.  It still points to
\* the vector it was returned for as long as its own key is not overwritten,
\* expired or cleared and fewer than capacity_ OTHER keys were used since:
\* eviction takes the last key of the list and nothing else.
PointerGuarantee ==
  \A t \in Thread :
    LET h == held[t]
    IN  (h # None /\ ~h.ended /\ Cardinality(h.used) < capacity_)
          => /\ map_[h.key] # None
             /\ map_[h.key].vec = h.vec
             /\ heap[h.vec] = h.val

-----------------------------------------------------------------------------
\* The list, entries and heap implement the abstract LRU store: the keys used
\* since k are those in front of k in the list.
Ahead(k) == {list_[i] : i \in 1..(Position(k) - 1)}

LRU == INSTANCE LRUSpec WITH
  store <- [k \in Key |->
              IF map_[k] = None THEN None
              ELSE [val |-> heap[map_[k].vec], expires_at |-> map_[k].expires_at]],
  since <- [k \in Key |-> IF map_[k] = None THEN {} ELSE Ahead(k)],
  reply <- [t \in Thread |-> IF held[t] = None THEN None ELSE held[t].val]

\* Every behaviour of the C++ cache is one of the abstract LRU store.
ImplementsLRU == LRU!Spec
=============================================================================
