--------------------------- MODULE LRUCacheProofs ---------------------------
(***************************************************************************)
(* What holds of LRUCache for every set of keys, values and addresses,     *)
(* every capacity and every lifetime.                                      *)
(***************************************************************************)
EXTENDS LRUCache, SequenceTheorems, FiniteSetTheorems, TLAPS

\* Erasing the i-th element leaves the elements before it in place and moves
\* those behind it one position to the front.
LEMMA RemoveAtElements ==
  ASSUME NEW S, NEW s \in Seq(S), NEW i \in 1..Len(s)
  PROVE  /\ RemoveAt(s, i) \in Seq(S)
         /\ Len(RemoveAt(s, i)) = Len(s) - 1
         /\ \A j \in 1..(Len(s) - 1) :
              RemoveAt(s, i)[j] = IF j < i THEN s[j] ELSE s[j + 1]
<1> DEFINE a == SubSeq(s, 1, i - 1)
           b == SubSeq(s, i + 1, Len(s))
<1>1. Len(s) \in Nat /\ i \in Nat /\ i >= 1 /\ i <= Len(s)
  BY LenProperties
<1>2. /\ a \in Seq(S)
      /\ Len(a) = i - 1
      /\ \A j \in 1..(i - 1) : a[j] = s[j]
  BY <1>1, SubSeqProperties
<1>3. /\ b \in Seq(S)
      /\ Len(b) = Len(s) - i
      /\ \A j \in 1..(Len(s) - i) : b[j] = s[i + j]
  BY <1>1, SubSeqProperties
<1>4. RemoveAt(s, i) = a \o b
  BY DEF RemoveAt
<1> HIDE DEF a, b
<1>5. /\ a \o b \in Seq(S)
      /\ Len(a \o b) = Len(a) + Len(b)
      /\ \A j \in 1..(Len(a) + Len(b)) :
           (a \o b)[j] = IF j <= Len(a) THEN a[j] ELSE b[j - Len(a)]
  BY <1>2, <1>3, ConcatProperties
<1>6. ASSUME NEW j \in 1..(Len(s) - 1)
      PROVE  (a \o b)[j] = IF j < i THEN s[j] ELSE s[j + 1]
  <2>1. CASE j < i
    BY <2>1, <1>1, <1>2, <1>3, <1>5
  <2>2. CASE j >= i
    <3>1. j - (i - 1) \in 1..(Len(s) - i)
      BY <2>2, <1>1
    <3>2. b[j - (i - 1)] = s[i + (j - (i - 1))] /\ i + (j - (i - 1)) = j + 1
      BY <3>1, <1>1, <1>3
    <3> QED BY <3>1, <3>2, <2>2, <1>1, <1>2, <1>3, <1>5
  <2>3. j < i \/ j >= i
    BY <1>1
  <2> QED BY <2>1, <2>2, <2>3
<1> QED BY <1>1, <1>2, <1>3, <1>4, <1>5, <1>6

Injective(s) == \A i, j \in 1..Len(s) : s[i] = s[j] => i = j

Occurs(s, k) == \E i \in 1..Len(s) : s[i] = k

\* Erasing the one occurrence of a key removes that key and nothing else.
LEMMA RemoveAtInjective ==
  ASSUME NEW S, NEW s \in Seq(S), Injective(s), NEW i \in 1..Len(s)
  PROVE  /\ RemoveAt(s, i) \in Seq(S)
         /\ Injective(RemoveAt(s, i))
         /\ \A x : Occurs(RemoveAt(s, i), x) <=> Occurs(s, x) /\ x # s[i]
<1> DEFINE r == RemoveAt(s, i)
<1>1. Len(s) \in Nat /\ i \in Nat /\ i >= 1 /\ i <= Len(s)
  BY LenProperties
<1>2. /\ r \in Seq(S)
      /\ Len(r) = Len(s) - 1
      /\ \A j \in 1..(Len(s) - 1) : r[j] = IF j < i THEN s[j] ELSE s[j + 1]
  BY RemoveAtElements
<1> HIDE DEF r
<1>3. Injective(r)
  BY <1>1, <1>2 DEF Injective
<1>4. ASSUME NEW x, Occurs(r, x)
      PROVE  Occurs(s, x) /\ x # s[i]
  <2>1. PICK j \in 1..(Len(s) - 1) : r[j] = x
    BY <1>2, <1>4 DEF Occurs
  <2>2. CASE j < i
    BY <2>1, <2>2, <1>1, <1>2 DEF Occurs, Injective
  <2>3. CASE j >= i
    <3>1. x = s[j + 1] /\ j + 1 \in 1..Len(s) /\ j + 1 # i
      BY <2>1, <2>3, <1>1, <1>2
    <3> QED BY <3>1 DEF Occurs, Injective
  <2>4. j < i \/ j >= i
    BY <1>1
  <2> QED BY <2>2, <2>3, <2>4
<1>5. ASSUME NEW x, Occurs(s, x), x # s[i]
      PROVE  Occurs(r, x)
  <2>1. PICK j \in 1..Len(s) : s[j] = x
    BY <1>5 DEF Occurs
  <2>2. CASE j < i
    <3>1. j \in 1..(Len(s) - 1) /\ r[j] = x
      BY <2>1, <2>2, <1>1, <1>2
    <3> QED BY <3>1, <1>2 DEF Occurs
  <2>3. CASE j > i
    <3>1. j - 1 \in 1..(Len(s) - 1) /\ ~(j - 1 < i) /\ (j - 1) + 1 = j
      BY <2>3, <1>1
    <3>2. r[j - 1] = x
      BY <3>1, <2>1, <1>2
    <3> QED BY <3>1, <3>2, <1>2 DEF Occurs
  <2>4. j < i \/ j > i
    BY <2>1, <1>1, <1>5
  <2> QED BY <2>2, <2>3, <2>4
<1> QED BY <1>2, <1>3, <1>4, <1>5 DEF r

\* Pushing a key that does not occur adds that key and nothing else.
LEMMA PushInjective ==
  ASSUME NEW S, NEW s \in Seq(S), Injective(s), NEW k \in S, ~Occurs(s, k)
  PROVE  /\ <<k>> \o s \in Seq(S)
         /\ Injective(<<k>> \o s)
         /\ \A x : Occurs(<<k>> \o s, x) <=> Occurs(s, x) \/ x = k
<1> DEFINE r == <<k>> \o s
<1>1. /\ Len(s) \in Nat
      /\ r \in Seq(S)
      /\ Len(r) = Len(s) + 1
      /\ \A j \in 1..Len(r) : r[j] = IF j = 1 THEN k ELSE s[j - 1]
  BY LenProperties
<1> HIDE DEF r
<1>2. ASSUME NEW i \in 1..Len(r), NEW j \in 1..Len(r), r[i] = r[j]
      PROVE  i = j
  <2>1. CASE i = 1 /\ j # 1
    BY <2>1, <1>1, <1>2 DEF Occurs
  <2>2. CASE i # 1 /\ j = 1
    BY <2>2, <1>1, <1>2 DEF Occurs
  <2>3. CASE i # 1 /\ j # 1
    <3>1. /\ i - 1 \in 1..Len(s) /\ j - 1 \in 1..Len(s)
          /\ s[i - 1] = s[j - 1]
      BY <2>3, <1>1, <1>2
    <3>2. i - 1 = j - 1
      BY <3>1 DEF Injective
    <3> QED BY <3>2, <1>1
  <2> QED BY <2>1, <2>2, <2>3
<1>3. ASSUME NEW x, Occurs(r, x)
      PROVE  Occurs(s, x) \/ x = k
  BY <1>1, <1>3 DEF Occurs
<1>4. ASSUME NEW x, Occurs(s, x) \/ x = k
      PROVE  Occurs(r, x)
  <2>1. CASE x = k
    BY <2>1, <1>1 DEF Occurs
  <2>2. CASE Occurs(s, x)
    <3>1. PICK j \in 1..Len(s) : s[j] = x
      BY <2>2 DEF Occurs
    <3>2. j + 1 \in 1..Len(r) /\ r[j + 1] = x
      BY <3>1, <1>1
    <3> QED BY <3>2 DEF Occurs
  <2> QED BY <1>4, <2>1, <2>2
<1> QED BY <1>1, <1>2, <1>3, <1>4 DEF r, Injective

\* x is nearer the front of s than k.
Before(s, x, k) == \E i, j \in 1..Len(s) : i < j /\ s[i] = x /\ s[j] = k

\* Erasing one key leaves the order of the others alone.
LEMMA RemoveAtBefore ==
  ASSUME NEW S, NEW s \in Seq(S), Injective(s), NEW i \in 1..Len(s), NEW x, NEW k,
         Before(RemoveAt(s, i), x, k)
  PROVE  Before(s, x, k)
<1> DEFINE r == RemoveAt(s, i)
<1>1. Len(s) \in Nat /\ i \in Nat /\ i >= 1 /\ i <= Len(s)
  BY LenProperties
<1>2. /\ Len(r) = Len(s) - 1
      /\ \A j \in 1..(Len(s) - 1) : r[j] = IF j < i THEN s[j] ELSE s[j + 1]
  BY RemoveAtElements
<1> HIDE DEF r
<1>3. PICK a \in 1..Len(r), b \in 1..Len(r) : a < b /\ r[a] = x /\ r[b] = k
  BY DEF Before, r
<1> DEFINE Old(j) == IF j < i THEN j ELSE j + 1
<1>4. /\ Old(a) \in 1..Len(s) /\ Old(b) \in 1..Len(s)
      /\ Old(a) < Old(b)
  BY <1>1, <1>2, <1>3
<1>5. s[Old(a)] = x /\ s[Old(b)] = k
  BY <1>2, <1>3
<1> QED BY <1>4, <1>5 DEF Before

\* A key pushed to the front is before all others, whose order is unchanged.
LEMMA PushBefore ==
  ASSUME NEW S, NEW s \in Seq(S), NEW y \in S, NEW x, NEW k,
         Before(<<y>> \o s, x, k), k # y
  PROVE  x = y \/ Before(s, x, k)
<1> DEFINE r == <<y>> \o s
<1>1. /\ Len(s) \in Nat
      /\ Len(r) = Len(s) + 1
      /\ \A j \in 1..Len(r) : r[j] = IF j = 1 THEN y ELSE s[j - 1]
  BY LenProperties
<1> HIDE DEF r
<1>2. PICK a \in 1..Len(r), b \in 1..Len(r) : a < b /\ r[a] = x /\ r[b] = k
  BY DEF Before, r
<1>3. CASE a = 1
  BY <1>1, <1>2, <1>3
<1>4. CASE a > 1
  <2>1. /\ a - 1 \in 1..Len(s) /\ b - 1 \in 1..Len(s) /\ a - 1 < b - 1
        /\ s[a - 1] = x /\ s[b - 1] = k
    BY <1>1, <1>2, <1>4
  <2> QED BY <2>1 DEF Before
<1>5. a = 1 \/ a > 1
  BY <1>1, <1>2
<1> QED BY <1>3, <1>4, <1>5

\* Nothing is before a key pushed to the front of a list without it.
LEMMA FirstIsFirst ==
  ASSUME NEW S, NEW s \in Seq(S), NEW y \in S, ~Occurs(s, y), NEW x,
         Before(<<y>> \o s, x, y)
  PROVE  FALSE
<1> DEFINE r == <<y>> \o s
<1>1. /\ Len(s) \in Nat
      /\ Len(r) = Len(s) + 1
      /\ \A j \in 1..Len(r) : r[j] = IF j = 1 THEN y ELSE s[j - 1]
  BY LenProperties
<1> HIDE DEF r
<1>2. PICK a \in 1..Len(r), b \in 1..Len(r) : a < b /\ r[b] = y
  BY DEF Before, r
<1>3. b - 1 \in 1..Len(s) /\ s[b - 1] = y
  BY <1>1, <1>2
<1> QED BY <1>3 DEF Occurs

-----------------------------------------------------------------------------
\* The number of cached keys, and that it is a number.
CountOK == IsFiniteSet(Cached) /\ WithinCapacity

\* ListMapAgree and HeapOwnership need each other's typing, and the capacity
\* bound needs the cached keys to be finitely many.
SafetyInv == TypeOK /\ ListMapAgree /\ HeapOwnership /\ CountOK

\* What every operation does to the list: it erases a cached key, or moves
\* or pushes a key to the front.
LEMMA ErasedCached ==
  ASSUME TypeOK, ListMapAgree, NEW k \in Cached
  PROVE  /\ Position(k) \in 1..Len(list_)
         /\ list_[Position(k)] = k
         /\ Erased(k) \in Seq(Key)
         /\ Injective(Erased(k))
         /\ \A x \in Key : Occurs(Erased(k), x) <=> x \in Cached /\ x # k
<1>1. list_ \in Seq(Key) /\ Injective(list_)
  BY DEF TypeOK, ListMapAgree, Injective
<1>2. \A x \in Key : Occurs(list_, x) <=> x \in Cached
  BY DEF ListMapAgree, Occurs, Cached
<1>3. Position(k) \in 1..Len(list_) /\ list_[Position(k)] = k
  BY <1>2 DEF Position, Occurs, Cached
<1>4. /\ Erased(k) \in Seq(Key)
      /\ Injective(Erased(k))
      /\ \A x : Occurs(Erased(k), x) <=> Occurs(list_, x) /\ x # k
  BY <1>1, <1>3, RemoveAtInjective DEF Erased
<1> QED BY <1>2, <1>3, <1>4

\* Moving a key to the front keeps the set of keys.
LEMMA SplicedCached ==
  ASSUME TypeOK, ListMapAgree, NEW k \in Cached
  PROVE  /\ Spliced(k) \in Seq(Key)
         /\ Injective(Spliced(k))
         /\ \A x \in Key : Occurs(Spliced(k), x) <=> x \in Cached
<1>1. /\ Erased(k) \in Seq(Key)
      /\ Injective(Erased(k))
      /\ \A x \in Key : Occurs(Erased(k), x) <=> x \in Cached /\ x # k
  BY ErasedCached
<1>2. k \in Key /\ ~Occurs(Erased(k), k)
  BY <1>1 DEF Cached
<1> QED BY <1>1, <1>2, PushInjective DEF Spliced

\* ListMapAgree in the terms of the lemmas.
LEMMA ListMapForm ==
  ListMapAgree <=> /\ Injective(list_)
                   /\ \A x \in Key : Occurs(list_, x) <=> x \in Cached
BY DEF ListMapAgree, Injective, Occurs, Cached

\* The same in the next state.
LEMMA ListMapFormPrime ==
  ListMapAgree' <=> /\ Injective(list_')
                    /\ \A x \in Key : Occurs(list_', x) <=> map_'[x] # None
BY DEF ListMapAgree, Injective, Occurs

\* History fields keep their types.
LEMMA TouchType ==
  ASSUME NEW h \in Pointer \cup {None}, NEW k \in Key, NEW E
  PROVE  Touch(h, k, E) \in Pointer \cup {None}
<1>1. CASE h = None
  BY <1>1 DEF Touch
<1>2. CASE h # None
  BY <1>2 DEF Touch, Pointer
<1> QED BY <1>1, <1>2

\* The expiry put stores is a natural number.
LEMMA ExpiryType ==
  ASSUME TypeOK
  PROVE  ExpiryOfPut \in Nat
BY TimeAssumption DEF TypeOK, ExpiryOfPut

\* An empty cache satisfies the invariant.
LEMMA InitSafety == Init => SafetyInv
<1> SUFFICES ASSUME Init PROVE SafetyInv
  OBVIOUS
<1>1. TypeOK
  BY DEF Init, TypeOK
<1>2. Cached = {}
  BY DEF Init, Cached
<1>3. ListMapAgree
  BY DEF Init, ListMapAgree
<1>4. HeapOwnership
  BY <1>2 DEF Init, HeapOwnership
<1>5. CountOK
  BY <1>2, FS_EmptySet, CapacityAssumption DEF CountOK, WithinCapacity
<1> QED BY <1>1, <1>3, <1>4, <1>5 DEF SafetyInv

\* get of an absent key changes only the statistics.
LEMMA GetMissSafety ==
  ASSUME SafetyInv, NEW t \in Thread, NEW k \in Key, GetMiss(t, k)
  PROVE  SafetyInv'
<1> USE DEF SafetyInv, GetMiss
<1>1. TypeOK'
  BY DEF TypeOK
<1>2. ListMapAgree'
  BY DEF ListMapAgree
<1>3. HeapOwnership' /\ CountOK'
  BY DEF HeapOwnership, CountOK, WithinCapacity, Cached
<1> QED BY <1>1, <1>2, <1>3

\* get of an expired key takes it out of list, map and heap together.
LEMMA GetExpiredSafety ==
  ASSUME SafetyInv, NEW t \in Thread, NEW k \in Key, GetExpired(t, k)
  PROVE  SafetyInv'
<1> USE DEF SafetyInv
<1>1. k \in Cached /\ Cached' = Cached \ {k}
  BY DEF GetExpired, Cached, TypeOK
<1>2. /\ list_' \in Seq(Key)
      /\ Injective(list_')
      /\ \A x \in Key : Occurs(list_', x) <=> x \in Cached /\ x # k
  BY <1>1, ErasedCached DEF GetExpired
<1>3. TypeOK'
  <2>1. held' \in [Thread -> Pointer \cup {None}]
    <3>1. ASSUME NEW u \in Thread, held[u] # None
          PROVE  [held[u] EXCEPT !.ended = @ \/ held[u].key = k] \in Pointer
      BY <3>1 DEF TypeOK, Pointer
    <3> QED BY <3>1 DEF GetExpired
  <2>2. /\ map_' \in [Key -> Entry \cup {None}]
        /\ heap' \in [Addr -> Value \cup {Free}]
        /\ now' \in Nat
    BY DEF TypeOK, GetExpired
  <2> QED BY <1>2, <2>1, <2>2 DEF TypeOK
<1>4. ListMapAgree'
  <2>1. \A x \in Key : Occurs(list_', x) <=> map_'[x] # None
    BY <1>1, <1>2 DEF GetExpired, Cached, TypeOK
  <2> QED BY <1>2, <2>1, ListMapFormPrime
<1>5. HeapOwnership'
  BY <1>1 DEF HeapOwnership, GetExpired, Cached, TypeOK, Entry
<1>6. CountOK'
  <2>1. /\ IsFiniteSet(Cached \ {k})
        /\ Cardinality(Cached \ {k}) = Cardinality(Cached) - 1
        /\ Cardinality(Cached) \in Nat
    BY <1>1, FS_RemoveElement, FS_CardinalityType DEF CountOK
  <2>2. Cardinality(Cached \ {k}) <= capacity_
    BY <2>1, CapacityAssumption DEF CountOK, WithinCapacity
  <2> QED BY <1>1, <2>1, <2>2 DEF CountOK, WithinCapacity
<1> QED BY <1>3, <1>4, <1>5, <1>6

\* get of a live key only reorders the list.
LEMMA GetHitSafety ==
  ASSUME SafetyInv, NEW t \in Thread, NEW k \in Key, GetHit(t, k)
  PROVE  SafetyInv'
<1> USE DEF SafetyInv
<1>1. k \in Cached /\ Cached' = Cached /\ map_' = map_ /\ heap' = heap
  BY DEF GetHit, Cached
<1>2. /\ list_' \in Seq(Key)
      /\ Injective(list_')
      /\ \A x \in Key : Occurs(list_', x) <=> x \in Cached
  BY <1>1, SplicedCached DEF GetHit
<1>3. TypeOK'
  <2>1. map_[k].vec \in Addr /\ heap[map_[k].vec] \in Value
    BY <1>1 DEF TypeOK, HeapOwnership, Cached, Entry
  <2>2. [key |-> k, vec |-> map_[k].vec, val |-> heap[map_[k].vec],
         used |-> {}, ended |-> FALSE] \in Pointer
    BY <2>1 DEF Pointer
  <2>3. \A u \in Thread : Touch(held[u], k, {}) \in Pointer \cup {None}
    BY TouchType DEF TypeOK
  <2>4. held' \in [Thread -> Pointer \cup {None}]
    BY <2>2, <2>3 DEF GetHit
  <2> QED BY <1>1, <1>2, <2>4 DEF TypeOK, GetHit
<1>4. ListMapAgree'
  BY <1>1, <1>2, ListMapFormPrime DEF Cached
<1>5. HeapOwnership'
  BY <1>1 DEF HeapOwnership
<1>6. CountOK'
  BY <1>1 DEF CountOK, WithinCapacity
<1> QED BY <1>3, <1>4, <1>5, <1>6

\* put over an existing key swaps its vector for a new one.
LEMMA PutUpdateSafety ==
  ASSUME SafetyInv, NEW k \in Key, NEW v \in Value, NEW copy \in Addr,
         PutUpdate(k, v, copy)
  PROVE  SafetyInv'
<1> USE DEF SafetyInv
<1>1. k \in Cached /\ Cached' = Cached /\ map_[k].vec \in Addr /\ copy # map_[k].vec
  <2>1. k \in Cached /\ map_[k].vec \in Addr /\ copy # map_[k].vec
    BY DEF PutUpdate, Cached, TypeOK, Entry, HeapOwnership
  <2>2. [vec |-> copy, expires_at |-> ExpiryOfPut] # None
    BY ExpiryType, NoneAssumption DEF Entry
  <2> QED BY <2>1, <2>2 DEF PutUpdate, Cached, TypeOK
<1>2. /\ list_' \in Seq(Key)
      /\ Injective(list_')
      /\ \A x \in Key : Occurs(list_', x) <=> x \in Cached
  BY <1>1, SplicedCached DEF PutUpdate
<1>3. TypeOK'
  <2>1. held' \in [Thread -> Pointer \cup {None}]
    BY TouchType DEF TypeOK, PutUpdate
  <2>2. map_' \in [Key -> Entry \cup {None}]
    BY ExpiryType DEF TypeOK, PutUpdate, Entry
  <2>3. heap' \in [Addr -> Value \cup {Free}]
    BY DEF TypeOK, PutUpdate, Overwritten
  <2> QED BY <1>2, <2>1, <2>2, <2>3 DEF TypeOK, PutUpdate
<1>4. ListMapAgree'
  BY <1>1, <1>2, ListMapFormPrime DEF Cached
<1>5. HeapOwnership'
  <2>1. \A x \in Key : map_'[x] = IF x = k THEN [vec |-> copy, expires_at |-> ExpiryOfPut]
                                   ELSE map_[x]
    BY DEF PutUpdate, TypeOK
  <2>2. \A a \in Addr : heap'[a] = IF a = copy THEN v
                                    ELSE IF a = map_[k].vec THEN Free ELSE heap[a]
    BY <1>1 DEF PutUpdate, TypeOK, Overwritten
  <2>3. heap[copy] = Free /\ v # Free
    BY NoneAssumption DEF PutUpdate
  <2>4. \A x \in Cached : map_[x].vec \in Addr
    BY DEF Cached, TypeOK, Entry
  <2> QED BY <1>1, <2>1, <2>2, <2>3, <2>4 DEF HeapOwnership, Cached
<1>6. CountOK'
  BY <1>1 DEF CountOK, WithinCapacity
<1> QED BY <1>3, <1>4, <1>5, <1>6

\* put of a new key below capacity adds it to list, map and heap.
LEMMA PutInsertSafety ==
  ASSUME SafetyInv, NEW k \in Key, NEW v \in Value, NEW copy \in Addr,
         PutInsert(k, v, copy)
  PROVE  SafetyInv'
<1> USE DEF SafetyInv
<1>1. k \notin Cached /\ Cached' = Cached \cup {k}
  <2>1. [vec |-> copy, expires_at |-> ExpiryOfPut] # None
    BY ExpiryType, NoneAssumption DEF Entry
  <2> QED BY <2>1 DEF PutInsert, Cached, TypeOK
<1>2. /\ list_' \in Seq(Key)
      /\ Injective(list_')
      /\ \A x \in Key : Occurs(list_', x) <=> x \in Cached \/ x = k
  <2>1. list_ \in Seq(Key) /\ Injective(list_) /\ ~Occurs(list_, k)
    BY <1>1, ListMapForm DEF TypeOK
  <2> QED BY <2>1, ListMapForm, PushInjective DEF PutInsert
<1>3. TypeOK'
  <2>1. held' \in [Thread -> Pointer \cup {None}]
    BY TouchType DEF TypeOK, PutInsert
  <2>2. map_' \in [Key -> Entry \cup {None}]
    BY ExpiryType DEF TypeOK, PutInsert, Entry
  <2>3. heap' \in [Addr -> Value \cup {Free}]
    BY DEF TypeOK, PutInsert
  <2> QED BY <1>2, <2>1, <2>2, <2>3 DEF TypeOK, PutInsert
<1>4. ListMapAgree'
  BY <1>1, <1>2, ListMapFormPrime DEF Cached
<1>5. HeapOwnership'
  <2>1. \A x \in Key : map_'[x] = IF x = k THEN [vec |-> copy, expires_at |-> ExpiryOfPut]
                                   ELSE map_[x]
    BY DEF PutInsert, TypeOK
  <2>2. \A a \in Addr : heap'[a] = IF a = copy THEN v ELSE heap[a]
    BY DEF PutInsert, TypeOK
  <2>3. heap[copy] = Free /\ v # Free
    BY NoneAssumption DEF PutInsert
  <2>4. \A x \in Cached : map_[x].vec \in Addr
    BY DEF Cached, TypeOK, Entry
  <2> QED BY <1>1, <2>1, <2>2, <2>3, <2>4 DEF HeapOwnership, Cached
<1>6. CountOK'
  <2>1. /\ IsFiniteSet(Cached \cup {k})
        /\ Cardinality(Cached \cup {k}) = Cardinality(Cached) + 1
        /\ Cardinality(Cached) \in Nat
    BY <1>1, FS_AddElement, FS_CardinalityType DEF CountOK
  <2>2. Cardinality(Cached) < capacity_
    BY <2>1, CapacityAssumption DEF PutInsert, Full
  <2> QED BY <1>1, <2>1, <2>2, CapacityAssumption DEF CountOK, WithinCapacity
<1> QED BY <1>3, <1>4, <1>5, <1>6

\* Eviction: put on a full cache removes the key at the end of the list.
LEMMA LastCached ==
  ASSUME SafetyInv, Full
  PROVE  list_[Len(list_)] \in Cached
<1>1. Cached # {}
  BY FS_EmptySet, CapacityAssumption DEF Full
<1>2. PICK x \in Key : Occurs(list_, x)
  BY <1>1, ListMapForm DEF SafetyInv, Cached
<1>3. Len(list_) \in 1..Len(list_)
  BY <1>2, LenProperties DEF SafetyInv, TypeOK, Occurs
<1>4. list_[Len(list_)] \in Key /\ Occurs(list_, list_[Len(list_)])
  BY <1>3, ElementOfSeq DEF SafetyInv, TypeOK, Occurs
<1> QED BY <1>4, ListMapForm DEF SafetyInv

\* put on a full cache trades the last key for the new one in all three.
LEMMA PutEvictSafety ==
  ASSUME SafetyInv, NEW k \in Key, NEW v \in Value, NEW copy \in Addr,
         PutEvict(k, v, copy)
  PROVE  SafetyInv'
<1> USE DEF SafetyInv
<1> DEFINE last == list_[Len(list_)]
<1>1. last \in Cached /\ last \in Key
  BY LastCached DEF PutEvict, Cached
<1>2. /\ map_[k] = None /\ k # last
      /\ heap[copy] = Free
      /\ heap' = Overwritten(last, v, copy)
      /\ map_' = [map_ EXCEPT ![last] = None,
                              ![k] = [vec |-> copy, expires_at |-> ExpiryOfPut]]
      /\ list_' = <<k>> \o Erased(last)
      /\ held' = [u \in Thread |-> Touch(held[u], k, {})]
      /\ now' = now
  BY <1>1 DEF PutEvict, Cached
<1> HIDE DEF last
<1>3. k \notin Cached /\ Cached' = (Cached \ {last}) \cup {k}
  <2>1. [vec |-> copy, expires_at |-> ExpiryOfPut] # None
    BY ExpiryType, NoneAssumption DEF Entry
  <2> QED BY <2>1, <1>1, <1>2 DEF Cached, TypeOK
<1>4. /\ list_' \in Seq(Key)
      /\ Injective(list_')
      /\ \A x \in Key : Occurs(list_', x) <=> x \in Cached' 
  <2>1. /\ Erased(last) \in Seq(Key)
        /\ Injective(Erased(last))
        /\ \A x \in Key : Occurs(Erased(last), x) <=> x \in Cached /\ x # last
    BY <1>1, ErasedCached
  <2>2. ~Occurs(Erased(last), k)
    BY <2>1, <1>3
  <2> QED BY <1>2, <1>3, <2>1, <2>2, PushInjective
<1>5. TypeOK'
  <2>1. held' \in [Thread -> Pointer \cup {None}]
    BY <1>2, TouchType DEF TypeOK
  <2>2. map_' \in [Key -> Entry \cup {None}]
    BY <1>2, ExpiryType DEF TypeOK, Entry
  <2>3. heap' \in [Addr -> Value \cup {Free}]
    BY <1>2 DEF TypeOK, Overwritten
  <2> QED BY <1>2, <1>4, <2>1, <2>2, <2>3 DEF TypeOK
<1>6. ListMapAgree'
  BY <1>4, ListMapFormPrime DEF Cached
<1>7. HeapOwnership'
  <2>1. \A x \in Key : map_'[x] = IF x = k THEN [vec |-> copy, expires_at |-> ExpiryOfPut]
                                   ELSE IF x = last THEN None ELSE map_[x]
    BY <1>1, <1>2 DEF TypeOK
  <2>2. map_[last].vec \in Addr /\ copy # map_[last].vec
    BY <1>1, <1>2 DEF TypeOK, Entry, HeapOwnership, Cached
  <2>3. \A a \in Addr : heap'[a] = IF a = copy THEN v
                                    ELSE IF a = map_[last].vec THEN Free ELSE heap[a]
    BY <1>2, <2>2 DEF TypeOK, Overwritten
  <2>4. heap[copy] = Free /\ v # Free
    BY <1>2, NoneAssumption
  <2>5. \A x \in Cached : map_[x].vec \in Addr
    BY DEF Cached, TypeOK, Entry
  <2> QED BY <1>1, <1>3, <2>1, <2>2, <2>3, <2>4, <2>5 DEF HeapOwnership, Cached
<1>8. CountOK'
  <2>1. /\ IsFiniteSet(Cached \ {last})
        /\ Cardinality(Cached \ {last}) = Cardinality(Cached) - 1
        /\ Cardinality(Cached) \in Nat
    BY <1>1, FS_RemoveElement, FS_CardinalityType DEF CountOK
  <2>2. /\ IsFiniteSet((Cached \ {last}) \cup {k})
        /\ Cardinality((Cached \ {last}) \cup {k}) = Cardinality(Cached \ {last}) + 1
    BY <1>3, <2>1, FS_AddElement
  <2> QED BY <1>3, <2>1, <2>2, CapacityAssumption DEF CountOK, WithinCapacity
<1> QED BY <1>5, <1>6, <1>7, <1>8

\* clear empties all three.
LEMMA ClearSafety ==
  ASSUME SafetyInv, Clear
  PROVE  SafetyInv'
<1> USE DEF SafetyInv
<1>1. Cached' = {}
  BY DEF Clear, Cached
<1>2. TypeOK'
  <2>1. ASSUME NEW u \in Thread, held[u] # None
        PROVE  [held[u] EXCEPT !.ended = TRUE] \in Pointer
    BY <2>1 DEF TypeOK, Pointer
  <2> QED BY <2>1 DEF TypeOK, Clear
<1>3. ListMapAgree'
  BY DEF Clear, ListMapAgree
<1>4. HeapOwnership'
  BY <1>1 DEF Clear, HeapOwnership, TypeOK
<1>5. CountOK'
  BY <1>1, FS_EmptySet, CapacityAssumption DEF CountOK, WithinCapacity
<1> QED BY <1>2, <1>3, <1>4, <1>5

\* The clock touches none of them.
LEMMA TickSafety ==
  ASSUME SafetyInv, Tick \/ UNCHANGED vars
  PROVE  SafetyInv'
<1> USE DEF SafetyInv, Tick, vars
<1>1. TypeOK'
  BY DEF TypeOK
<1>2. ListMapAgree'
  BY DEF ListMapAgree
<1>3. HeapOwnership' /\ CountOK'
  BY DEF HeapOwnership, CountOK, WithinCapacity, Cached
<1> QED BY <1>1, <1>2, <1>3

\* Every operation keeps the invariant.
LEMMA NextSafety == SafetyInv /\ [Next]_vars => SafetyInv'
<1> SUFFICES ASSUME SafetyInv, [Next]_vars PROVE SafetyInv'
  OBVIOUS
<1>1. ASSUME NEW t \in Thread, NEW k \in Key, GetMiss(t, k) PROVE SafetyInv'
  BY <1>1, GetMissSafety
<1>2. ASSUME NEW t \in Thread, NEW k \in Key, GetExpired(t, k) PROVE SafetyInv'
  BY <1>2, GetExpiredSafety
<1>3. ASSUME NEW t \in Thread, NEW k \in Key, GetHit(t, k) PROVE SafetyInv'
  BY <1>3, GetHitSafety
<1>4. ASSUME NEW k \in Key, NEW v \in Value, NEW copy \in Addr, PutUpdate(k, v, copy)
      PROVE SafetyInv'
  BY <1>4, PutUpdateSafety
<1>5. ASSUME NEW k \in Key, NEW v \in Value, NEW copy \in Addr, PutInsert(k, v, copy)
      PROVE SafetyInv'
  BY <1>5, PutInsertSafety
<1>6. ASSUME NEW k \in Key, NEW v \in Value, NEW copy \in Addr, PutEvict(k, v, copy)
      PROVE SafetyInv'
  BY <1>6, PutEvictSafety
<1>7. CASE Clear
  BY <1>7, ClearSafety
<1>8. CASE Tick \/ UNCHANGED vars
  BY <1>8, TickSafety
<1> QED BY <1>1, <1>2, <1>3, <1>4, <1>5, <1>6, <1>7, <1>8 DEF Next

\* The invariant holds in every state.
LEMMA SafetyInvariant == Spec => []SafetyInv
BY InitSafety, NextSafety, PTL DEF Spec

\* The cache's variables keep their types, whatever callers do.
THEOREM TypeCorrect == Spec => []TypeOK
<1>1. SafetyInv => TypeOK
  BY DEF SafetyInv
<1> QED BY <1>1, SafetyInvariant, PTL

\* The list and the map of embedding_cache_impl.hpp never disagree.
THEOREM ListMapAlwaysAgree == Spec => []ListMapAgree
<1>1. SafetyInv => ListMapAgree
  BY DEF SafetyInv
<1> QED BY <1>1, SafetyInvariant, PTL

\* No vector leaks, none is freed while its entry lives.
THEOREM NoLeakNoDangling == Spec => []HeapOwnership
<1>1. SafetyInv => HeapOwnership
  BY DEF SafetyInv
<1> QED BY <1>1, SafetyInvariant, PTL

\* The cache never holds more than capacity_ entries.
THEOREM CapacityKept == Spec => []WithinCapacity
<1>1. SafetyInv => WithinCapacity
  BY DEF SafetyInv, CountOK
<1> QED BY <1>1, SafetyInvariant, PTL

-----------------------------------------------------------------------------
\* The pointers get handed out.  An unfinished pointer of which fewer than
\* capacity_ other keys were used since it was returned is intact, and only
\* keys used since then are in front of its key: that is why eviction cannot
\* have reached it.
Intact(h) ==
  /\ h.key \in Cached
  /\ map_[h.key].vec = h.vec
  /\ heap[h.vec] = h.val
  /\ \A x \in Key : Before(list_, x, h.key) => x \in h.used

PointerInv ==
  \A t \in Thread :
    LET h == held[t]
    IN  h # None => /\ IsFiniteSet(h.used)
                    /\ ~h.ended /\ Cardinality(h.used) < capacity_ => Intact(h)

\* What a use of key k does to a pointer that is still open afterwards.
LEMMA TouchOpen ==
  ASSUME NEW h \in Pointer, NEW k \in Key, NEW E \in SUBSET Key, IsFiniteSet(h.used),
         NEW g \in Pointer \cup {None}, g = Touch(h, k, E)
  PROVE  /\ g.key = h.key /\ g.vec = h.vec /\ g.val = h.val
         /\ g.used = IF h.key = k THEN h.used ELSE h.used \cup {k}
         /\ IsFiniteSet(g.used)
         /\ ~g.ended => ~h.ended /\ h.key \notin E
         /\ Cardinality(g.used) < capacity_ => Cardinality(h.used) < capacity_
<1>1. h # None
  BY NoneAssumption
<1>2. g = [h EXCEPT !.used = IF h.key = k THEN @ ELSE @ \cup {k},
                    !.ended = @ \/ h.key \in E]
  BY <1>1 DEF Touch
<1>3. /\ g.key = h.key /\ g.vec = h.vec /\ g.val = h.val
      /\ g.used = IF h.key = k THEN h.used ELSE h.used \cup {k}
      /\ g.ended = (h.ended \/ h.key \in E)
  BY <1>2 DEF Pointer
<1>4. /\ IsFiniteSet(h.used \cup {k})
      /\ Cardinality(h.used) <= Cardinality(h.used \cup {k})
      /\ Cardinality(h.used) \in Nat /\ Cardinality(h.used \cup {k}) \in Nat
  <2>1. IsFiniteSet(h.used \cup {k})
    BY FS_AddElement
  <2>2. h.used \subseteq h.used \cup {k}
    OBVIOUS
  <2> QED BY <2>1, <2>2, FS_Subset, FS_CardinalityType
<1>5. Cardinality(g.used) < capacity_ => Cardinality(h.used) < capacity_
  BY <1>3, <1>4, CapacityAssumption
<1>6. IsFiniteSet(g.used)
  BY <1>3, <1>4
<1> QED BY <1>3, <1>5, <1>6

\* Every other key is before the last one.
LEMMA LastBehindAll ==
  ASSUME SafetyInv, Full, NEW x \in Cached, x # list_[Len(list_)]
  PROVE  Before(list_, x, list_[Len(list_)])
<1>1. PICK i \in 1..Len(list_) : list_[i] = x
  BY ListMapForm DEF SafetyInv, Occurs, Cached
<1>2. Len(list_) \in Nat /\ i # Len(list_)
  BY <1>1, LenProperties DEF SafetyInv, TypeOK
<1>3. i < Len(list_) /\ Len(list_) \in 1..Len(list_)
  BY <1>1, <1>2
<1> QED BY <1>1, <1>3 DEF Before

\* Intact of a pointer after a step, and the invariant after a step.
IntactAfter(g) ==
  /\ g.key \in Key /\ map_'[g.key] # None
  /\ map_'[g.key].vec = g.vec
  /\ heap'[g.vec] = g.val
  /\ \A x \in Key : Before(list_', x, g.key) => x \in g.used

\* What must be shown after a step, spelled out.
LEMMA PointerInvAfter ==
  ASSUME \A t \in Thread :
           held'[t] # None
             => /\ IsFiniteSet(held'[t].used)
                /\ ~held'[t].ended /\ Cardinality(held'[t].used) < capacity_
                     => IntactAfter(held'[t])
  PROVE  PointerInv'
BY DEF PointerInv, Intact, IntactAfter, Cached

\* A step that keeps the entries and vectors of the keys in Kept, and puts no
\* key but k in front of them, keeps the pointers to them intact.
LEMMA TouchKeeps ==
  ASSUME SafetyInv, PointerInv, NEW t \in Thread, NEW k \in Key, NEW E \in SUBSET Key,
         NEW Kept,
         held'[t] = Touch(held[t], k, E), held'[t] # None,
         ~held'[t].ended, Cardinality(held'[t].used) < capacity_,
         held[t].key \in Kept,
         \A y \in Kept :
           y \in Cached /\ y \notin E
             => /\ map_'[y] = map_[y]
                /\ heap'[map_[y].vec] = heap[map_[y].vec]
                /\ \A x \in Key : Before(list_', x, y)
                     => (x = k /\ y # k) \/ Before(list_, x, y)
  PROVE  IntactAfter(held'[t])
<1> DEFINE h == held[t]
           g == held'[t]
<1>1. h \in Pointer /\ h # None
  BY DEF SafetyInv, TypeOK, Touch
<1>2. IsFiniteSet(h.used) /\ (~h.ended /\ Cardinality(h.used) < capacity_ => Intact(h))
  BY <1>1 DEF PointerInv
<1>3. /\ g.key = h.key /\ g.vec = h.vec /\ g.val = h.val
      /\ g.used = IF h.key = k THEN h.used ELSE h.used \cup {k}
      /\ ~h.ended /\ h.key \notin E /\ Cardinality(h.used) < capacity_
  <2>1. g \in Pointer \cup {None} /\ g = Touch(h, k, E)
    BY <1>1, TouchType
  <2> HIDE DEF h, g
  <2>2. /\ g.key = h.key /\ g.vec = h.vec /\ g.val = h.val
        /\ g.used = IF h.key = k THEN h.used ELSE h.used \cup {k}
        /\ ~g.ended => ~h.ended /\ h.key \notin E
        /\ Cardinality(g.used) < capacity_ => Cardinality(h.used) < capacity_
    BY <1>1, <1>2, <2>1, TouchOpen
  <2>3. ~g.ended /\ Cardinality(g.used) < capacity_
    BY DEF g
  <2> QED BY <2>2, <2>3
<1>4. Intact(h)
  BY <1>2, <1>3
<1>5. h.key \in Key /\ h.key \in Cached /\ map_[h.key] # None /\ map_[h.key].vec = h.vec
  BY <1>4 DEF Intact, Cached
<1>6. /\ map_'[h.key] = map_[h.key]
      /\ heap'[h.vec] = heap[h.vec]
      /\ \A x \in Key : Before(list_', x, h.key)
           => (x = k /\ h.key # k) \/ Before(list_, x, h.key)
  BY <1>3, <1>5
<1>7. \A x \in Key : Before(list_', x, h.key) => x \in g.used
  BY <1>3, <1>4, <1>6 DEF Intact
<1> HIDE DEF h, g
<1>8. IntactAfter(g)
  BY <1>3, <1>4, <1>5, <1>6, <1>7 DEF Intact, IntactAfter
<1> QED BY <1>8 DEF g

\* The sets of keys used stay finite.
LEMMA TouchFinite ==
  ASSUME SafetyInv, PointerInv, NEW t \in Thread, NEW k \in Key,
         NEW E \in SUBSET Key,
         held'[t] = Touch(held[t], k, E), held'[t] # None
  PROVE  held[t] \in Pointer /\ held[t] # None /\ IsFiniteSet(held'[t].used)
<1>1. held[t] \in Pointer /\ held[t] # None
  BY DEF SafetyInv, TypeOK, Touch
<1>2. IsFiniteSet(held[t].used)
  BY <1>1 DEF PointerInv
<1> DEFINE h == held[t]
           g == held'[t]
<1>3. g \in Pointer \cup {None} /\ g = Touch(h, k, E)
  BY <1>1, TouchType
<1>4. h \in Pointer /\ h # None /\ IsFiniteSet(h.used)
  BY <1>1, <1>2
<1> HIDE DEF h, g
<1>5. IsFiniteSet(g.used)
  BY <1>3, <1>4, TouchOpen
<1> QED BY <1>4, <1>5 DEF h, g

\* The order after a key moved to the front.
LEMMA SplicedBefore ==
  ASSUME SafetyInv, NEW k \in Cached, NEW x \in Key, NEW y \in Key,
         Before(Spliced(k), x, y)
  PROVE  (x = k /\ y # k) \/ Before(list_, x, y)
<1>1. /\ list_ \in Seq(Key) /\ Injective(list_) /\ k \in Key
      /\ Position(k) \in 1..Len(list_)
      /\ Erased(k) \in Seq(Key) /\ ~Occurs(Erased(k), k)
  BY ErasedCached, ListMapForm DEF SafetyInv, TypeOK, Cached
<1>2. y # k
  BY <1>1, FirstIsFirst DEF Spliced
<1>3. x = k \/ Before(Erased(k), x, y)
  BY <1>1, <1>2, PushBefore DEF Spliced
<1>4. Before(Erased(k), x, y) => Before(list_, x, y)
  BY <1>1, RemoveAtBefore DEF Erased
<1> QED BY <1>2, <1>3, <1>4

\* get of an absent key: no pointer is affected.
LEMMA GetMissPointer ==
  ASSUME SafetyInv, PointerInv, NEW t \in Thread, NEW k \in Key, GetMiss(t, k)
  PROVE  PointerInv'
<1>1. ASSUME NEW u \in Thread, held'[u] # None
      PROVE  held'[u] = held[u]
  BY <1>1 DEF GetMiss, SafetyInv, TypeOK
<1>2. list_' = list_ /\ map_' = map_ /\ heap' = heap
  BY DEF GetMiss
<1> QED BY <1>1, <1>2 DEF PointerInv, Intact, Cached

\* get of an expired key: the pointers to its vector lose their guarantee.
LEMMA GetExpiredPointer ==
  ASSUME SafetyInv, PointerInv, NEW t \in Thread, NEW k \in Key, GetExpired(t, k)
  PROVE  PointerInv'
<1> USE DEF SafetyInv
<1>1. /\ k \in Cached
      /\ heap' = [heap EXCEPT ![map_[k].vec] = Free]
      /\ list_' = Erased(k)
      /\ map_' = [map_ EXCEPT ![k] = None]
      /\ held' = [u \in Thread |->
                    IF u = t \/ held[u] = None THEN None
                    ELSE [held[u] EXCEPT !.ended = @ \/ held[u].key = k]]
  BY DEF GetExpired, Cached
<1>2. ASSUME NEW u \in Thread, held'[u] # None
      PROVE  /\ IsFiniteSet(held'[u].used)
             /\ ~held'[u].ended /\ Cardinality(held'[u].used) < capacity_
                  => IntactAfter(held'[u])
  <2> DEFINE h == held[u]
             g == held'[u]
  <2>1. /\ h \in Pointer /\ h # None
        /\ g.key = h.key /\ g.vec = h.vec /\ g.val = h.val /\ g.used = h.used
        /\ g.ended = (h.ended \/ h.key = k)
    <3>1. h # None /\ g = [h EXCEPT !.ended = @ \/ h.key = k]
      BY <1>1, <1>2
    <3> QED BY <3>1 DEF TypeOK, Pointer
  <2>2. IsFiniteSet(h.used) /\ (~h.ended /\ Cardinality(h.used) < capacity_ => Intact(h))
    BY <2>1 DEF PointerInv
  <2>3. ASSUME ~g.ended, Cardinality(g.used) < capacity_
        PROVE  IntactAfter(g)
    <3>1. Intact(h) /\ h.key # k /\ h.key \in Key /\ map_[h.key] # None
      BY <2>1, <2>2, <2>3 DEF Intact, Cached
    <3>2. map_'[h.key] = map_[h.key]
      BY <1>1, <3>1 DEF TypeOK
    <3>3. heap'[h.vec] = heap[h.vec]
      BY <1>1, <2>1, <3>1 DEF TypeOK, HeapOwnership, Intact, Pointer
    <3>4. \A x \in Key : Before(list_', x, h.key) => x \in g.used
      <4>1. /\ list_ \in Seq(Key) /\ Injective(list_)
            /\ Position(k) \in 1..Len(list_)
        BY <1>1, ErasedCached, ListMapForm DEF TypeOK
      <4>2. \A x \in Key : Before(list_', x, h.key) => Before(list_, x, h.key)
        BY <1>1, <4>1, RemoveAtBefore DEF Erased
      <4> QED BY <2>1, <3>1, <4>2 DEF Intact
    <3> HIDE DEF h, g
    <3> QED BY <2>1, <3>1, <3>2, <3>3, <3>4 DEF Intact, IntactAfter
  <2> QED BY <2>1, <2>2, <2>3
<1> QED BY <1>2, PointerInvAfter

\* get of a live key: it moves in front of the others and counts as used.
LEMMA GetHitPointer ==
  ASSUME SafetyInv, PointerInv, NEW t \in Thread, NEW k \in Key, GetHit(t, k)
  PROVE  PointerInv'
<1>1. k \in Cached /\ list_' = Spliced(k) /\ map_' = map_ /\ heap' = heap
  BY DEF GetHit, Cached
<1>2. \A x, y \in Key : Before(list_', x, y)
        => (x = k /\ y # k) \/ Before(list_, x, y)
  BY <1>1, SplicedBefore
<1>3. ASSUME NEW u \in Thread, held'[u] # None
      PROVE  /\ IsFiniteSet(held'[u].used)
             /\ ~held'[u].ended /\ Cardinality(held'[u].used) < capacity_
                  => IntactAfter(held'[u])
  <2>1. CASE u = t
    <3> DEFINE g == [key |-> k, vec |-> map_[k].vec, val |-> heap[map_[k].vec],
                     used |-> {}, ended |-> FALSE]
    <3>1. held'[u] = g
      BY <2>1 DEF GetHit
    <3>2. \A x \in Key : ~Before(list_', x, k)
      <4>1. k \in Key /\ Erased(k) \in Seq(Key) /\ ~Occurs(Erased(k), k)
        BY <1>1, ErasedCached DEF SafetyInv, Cached
      <4> QED BY <1>1, <4>1, FirstIsFirst DEF Spliced
    <3>3. IntactAfter(g)
      BY <1>1, <3>2 DEF IntactAfter, Cached
    <3> QED BY <3>1, <3>3, FS_EmptySet
  <2>2. CASE u # t
    <3>1. held'[u] = Touch(held[u], k, {})
      BY <2>2 DEF GetHit
    <3>2. held[u] \in Pointer /\ IsFiniteSet(held'[u].used)
      BY <3>1, <1>3, TouchFinite
    <3>3. held[u].key \in Key
      BY <3>2 DEF Pointer
    <3>4. \A y \in Key : y \in Cached /\ y \notin {}
            => /\ map_'[y] = map_[y]
               /\ heap'[map_[y].vec] = heap[map_[y].vec]
               /\ \A x \in Key : Before(list_', x, y)
                    => (x = k /\ y # k) \/ Before(list_, x, y)
      BY <1>1, <1>2
    <3> QED BY <1>3, <3>1, <3>2, <3>3, <3>4, TouchKeeps
  <2> QED BY <2>1, <2>2
<1> QED BY <1>3, PointerInvAfter

\* put over a key: its own pointers are void, the others count one more use.
LEMMA PutUpdatePointer ==
  ASSUME SafetyInv, PointerInv, NEW k \in Key, NEW v \in Value, NEW copy \in Addr,
         PutUpdate(k, v, copy)
  PROVE  PointerInv'
<1>1. /\ k \in Cached /\ list_' = Spliced(k) /\ heap[copy] = Free
      /\ heap' = [heap EXCEPT ![map_[k].vec] = Free, ![copy] = v]
      /\ map_' = [map_ EXCEPT ![k] = [vec |-> copy, expires_at |-> ExpiryOfPut]]
  BY DEF PutUpdate, Cached, Overwritten
<1>2. \A x, y \in Key : Before(list_', x, y)
        => (x = k /\ y # k) \/ Before(list_, x, y)
  BY <1>1, SplicedBefore
<1>3. \A y \in Key : y \in Cached /\ y \notin {k}
        => map_'[y] = map_[y] /\ heap'[map_[y].vec] = heap[map_[y].vec]
  <2>1. \A y \in Cached : map_[y].vec \in Addr
    BY DEF SafetyInv, TypeOK, Cached, Entry
  <2> QED BY <1>1, <2>1 DEF SafetyInv, TypeOK, HeapOwnership
<1>4. ASSUME NEW u \in Thread, held'[u] # None
      PROVE  /\ IsFiniteSet(held'[u].used)
             /\ ~held'[u].ended /\ Cardinality(held'[u].used) < capacity_
                  => IntactAfter(held'[u])
  <2>1. held'[u] = Touch(held[u], k, {k})
    BY DEF PutUpdate
  <2>2. held[u] \in Pointer /\ IsFiniteSet(held'[u].used)
    BY <2>1, <1>4, TouchFinite
  <2>3. held[u].key \in Key
    BY <2>2 DEF Pointer
  <2>4. \A y \in Key : y \in Cached /\ y \notin {k}
          => /\ map_'[y] = map_[y]
             /\ heap'[map_[y].vec] = heap[map_[y].vec]
             /\ \A x \in Key : Before(list_', x, y)
                  => (x = k /\ y # k) \/ Before(list_, x, y)
    BY <1>2, <1>3
  <2> QED BY <1>4, <2>1, <2>2, <2>3, <2>4, TouchKeeps
<1> QED BY <1>4, PointerInvAfter

\* put of a new key below capacity frees nothing.
LEMMA PutInsertPointer ==
  ASSUME SafetyInv, PointerInv, NEW k \in Key, NEW v \in Value, NEW copy \in Addr,
         PutInsert(k, v, copy)
  PROVE  PointerInv'
<1>1. /\ k \notin Cached /\ list_' = <<k>> \o list_ /\ heap[copy] = Free
      /\ heap' = [heap EXCEPT ![copy] = v]
      /\ map_' = [map_ EXCEPT ![k] = [vec |-> copy, expires_at |-> ExpiryOfPut]]
  BY DEF PutInsert, Cached
<1>2. \A x, y \in Key : y \in Cached /\ Before(list_', x, y) => x = k \/ Before(list_, x, y)
  BY <1>1, PushBefore DEF SafetyInv, TypeOK
<1>3. \A y \in Key : y \in Cached
        => map_'[y] = map_[y] /\ heap'[map_[y].vec] = heap[map_[y].vec]
  <2>1. \A y \in Cached : map_[y].vec \in Addr
    BY DEF SafetyInv, TypeOK, Cached, Entry
  <2> QED BY <1>1, <2>1 DEF SafetyInv, TypeOK, HeapOwnership
<1>4. ASSUME NEW u \in Thread, held'[u] # None
      PROVE  /\ IsFiniteSet(held'[u].used)
             /\ ~held'[u].ended /\ Cardinality(held'[u].used) < capacity_
                  => IntactAfter(held'[u])
  <2>1. held'[u] = Touch(held[u], k, {})
    BY DEF PutInsert
  <2>2. held[u] \in Pointer /\ IsFiniteSet(held'[u].used)
    BY <2>1, <1>4, TouchFinite
  <2>3. held[u].key \in Key
    BY <2>2 DEF Pointer
  <2>4. \A y \in Key : y \in Cached /\ y \notin {}
          => /\ map_'[y] = map_[y]
             /\ heap'[map_[y].vec] = heap[map_[y].vec]
             /\ \A x \in Key : Before(list_', x, y)
                  => (x = k /\ y # k) \/ Before(list_, x, y)
    BY <1>1, <1>2, <1>3
  <2> QED BY <1>4, <2>1, <2>2, <2>3, <2>4, TouchKeeps
<1> QED BY <1>4, PointerInvAfter

\* The victim of an eviction has capacity_ - 1 other cached keys in front of
\* it, and the key being put is one more: a pointer to it is not guaranteed.
LEMMA VictimUsedUp ==
  ASSUME SafetyInv, Full, NEW k \in Key, k \notin Cached,
         NEW h \in Pointer, Intact(h), h.key = list_[Len(list_)],
         IsFiniteSet(h.used)
  PROVE  Cardinality(h.used \cup {k}) >= capacity_
<1> DEFINE last == list_[Len(list_)]
           Others == Cached \ {last}
<1>1. last \in Cached
  BY LastCached
<1>2. Others \subseteq h.used
  BY LastBehindAll DEF Intact, Cached
<1>3. /\ IsFiniteSet(Others)
      /\ Cardinality(Others) = Cardinality(Cached) - 1
      /\ Cardinality(Cached) \in Nat /\ Cardinality(Cached) >= capacity_
  BY <1>1, FS_RemoveElement, FS_CardinalityType DEF SafetyInv, CountOK, Full
<1>4. k \notin Others
  OBVIOUS
<1> HIDE DEF Others
<1>5. IsFiniteSet(Others \cup {k}) /\ Cardinality(Others \cup {k}) = Cardinality(Others) + 1
  BY <1>3, <1>4, FS_AddElement
<1>6. IsFiniteSet(h.used \cup {k}) /\ Others \cup {k} \subseteq h.used \cup {k}
  BY <1>2, FS_AddElement
<1>7. /\ Cardinality(Others \cup {k}) <= Cardinality(h.used \cup {k})
      /\ Cardinality(h.used \cup {k}) \in Nat
  BY <1>6, FS_Subset, FS_CardinalityType
<1> QED BY <1>3, <1>5, <1>7, CapacityAssumption

\* put on a full cache frees one vector, and no guaranteed pointer is to it.
LEMMA PutEvictPointer ==
  ASSUME SafetyInv, PointerInv, NEW k \in Key, NEW v \in Value, NEW copy \in Addr,
         PutEvict(k, v, copy)
  PROVE  PointerInv'
<1> DEFINE last == list_[Len(list_)]
<1>1. /\ Full /\ last \in Cached /\ last \in Key /\ k \notin Cached
      /\ heap[copy] = Free
      /\ heap' = [heap EXCEPT ![map_[last].vec] = Free, ![copy] = v]
      /\ map_' = [map_ EXCEPT ![last] = None,
                              ![k] = [vec |-> copy, expires_at |-> ExpiryOfPut]]
      /\ list_' = <<k>> \o Erased(last)
  BY LastCached DEF PutEvict, Cached, Overwritten
<1>2. \A x, y \in Key : y \in Cached /\ Before(list_', x, y) => x = k \/ Before(list_, x, y)
  <2>1. /\ list_ \in Seq(Key) /\ Injective(list_)
        /\ Position(last) \in 1..Len(list_) /\ Erased(last) \in Seq(Key)
    BY <1>1, ErasedCached, ListMapForm DEF SafetyInv, TypeOK
  <2> HIDE DEF last
  <2>2. \A x, y \in Key : y \in Cached /\ Before(list_', x, y)
          => x = k \/ Before(Erased(last), x, y)
    BY <1>1, <2>1, PushBefore
  <2>3. \A x, y \in Key : Before(Erased(last), x, y) => Before(list_, x, y)
    BY <2>1, RemoveAtBefore DEF Erased
  <2> QED BY <2>2, <2>3
<1>3. \A y \in Key : y \in Cached /\ y # last
        => map_'[y] = map_[y] /\ heap'[map_[y].vec] = heap[map_[y].vec]
  <2>1. \A y \in Cached : map_[y].vec \in Addr
    BY DEF SafetyInv, TypeOK, Cached, Entry
  <2> HIDE DEF last
  <2> QED BY <1>1, <2>1 DEF SafetyInv, TypeOK, HeapOwnership
<1>4. ASSUME NEW u \in Thread, held'[u] # None
      PROVE  /\ IsFiniteSet(held'[u].used)
             /\ ~held'[u].ended /\ Cardinality(held'[u].used) < capacity_
                  => IntactAfter(held'[u])
  <2>1. held'[u] = Touch(held[u], k, {})
    BY DEF PutEvict
  <2>2. held[u] \in Pointer /\ held[u] # None /\ IsFiniteSet(held'[u].used)
    BY <2>1, <1>4, TouchFinite
  <2>3. held[u].key \in Key
    BY <2>2 DEF Pointer
  <2>4. ASSUME ~held'[u].ended, Cardinality(held'[u].used) < capacity_
        PROVE  held[u].key # last
    <3> DEFINE h == held[u]
               g == held'[u]
    <3>1. g \in Pointer \cup {None} /\ g = Touch(h, k, {}) /\ {} \in SUBSET Key
      BY <2>1, <2>2, TouchType
    <3>2. h \in Pointer /\ IsFiniteSet(h.used)
          /\ (~h.ended /\ Cardinality(h.used) < capacity_ => Intact(h))
      BY <2>2 DEF PointerInv
    <3>3. ~g.ended /\ Cardinality(g.used) < capacity_
      BY <2>4
    <3> HIDE DEF h, g
    <3>4. /\ g.used = IF h.key = k THEN h.used ELSE h.used \cup {k}
          /\ ~g.ended => ~h.ended /\ h.key \notin {}
          /\ Cardinality(g.used) < capacity_ => Cardinality(h.used) < capacity_
      BY <3>1, <3>2, TouchOpen
    <3>5. Intact(h)
      BY <3>2, <3>3, <3>4
    <3>6. ASSUME h.key = last
          PROVE  FALSE
      <4>1. Cardinality(h.used \cup {k}) >= capacity_
        BY <1>1, <3>2, <3>5, <3>6, VictimUsedUp
      <4>2. g.used = h.used \cup {k}
        BY <1>1, <3>4, <3>6
      <4>3. Cardinality(h.used \cup {k}) \in Nat
        BY <3>2, FS_AddElement, FS_CardinalityType
      <4> QED BY <3>3, <4>1, <4>2, <4>3, CapacityAssumption
    <3> QED BY <3>6 DEF h
  <2> HIDE DEF last
  <2> DEFINE Kept == Key \ {last}
  <2>5. \A y \in Kept : y \in Cached /\ y \notin {}
          => /\ map_'[y] = map_[y]
             /\ heap'[map_[y].vec] = heap[map_[y].vec]
             /\ \A x \in Key : Before(list_', x, y)
                  => (x = k /\ y # k) \/ Before(list_, x, y)
    BY <1>1, <1>2, <1>3
  <2>6. ASSUME ~held'[u].ended, Cardinality(held'[u].used) < capacity_
        PROVE  IntactAfter(held'[u])
    <3>1. held[u].key \in Kept
      BY <2>3, <2>4, <2>6
    <3> HIDE DEF Kept
    <3> QED BY <1>4, <2>1, <2>5, <2>6, <3>1, TouchKeeps
  <2> QED BY <2>2, <2>6
<1> QED BY <1>4, PointerInvAfter

\* clear voids every guarantee.
LEMMA ClearPointer ==
  ASSUME SafetyInv, PointerInv, Clear
  PROVE  PointerInv'
<1>1. ASSUME NEW u \in Thread, held'[u] # None
      PROVE  IsFiniteSet(held'[u].used) /\ held'[u].ended
  <2>1. held[u] # None /\ held'[u] = [held[u] EXCEPT !.ended = TRUE]
    BY <1>1 DEF Clear
  <2>2. held'[u].used = held[u].used /\ held'[u].ended
    BY <2>1 DEF SafetyInv, TypeOK, Pointer
  <2> QED BY <2>1, <2>2 DEF PointerInv
<1> QED BY <1>1, PointerInvAfter

\* Every operation keeps the guarantee.
LEMMA NextPointer == SafetyInv /\ PointerInv /\ [Next]_vars => PointerInv'
<1> SUFFICES ASSUME SafetyInv, PointerInv, [Next]_vars PROVE PointerInv'
  OBVIOUS
<1>1. ASSUME NEW t \in Thread, NEW k \in Key, GetMiss(t, k) PROVE PointerInv'
  BY <1>1, GetMissPointer
<1>2. ASSUME NEW t \in Thread, NEW k \in Key, GetExpired(t, k) PROVE PointerInv'
  BY <1>2, GetExpiredPointer
<1>3. ASSUME NEW t \in Thread, NEW k \in Key, GetHit(t, k) PROVE PointerInv'
  BY <1>3, GetHitPointer
<1>4. ASSUME NEW k \in Key, NEW v \in Value, NEW copy \in Addr, PutUpdate(k, v, copy)
      PROVE PointerInv'
  BY <1>4, PutUpdatePointer
<1>5. ASSUME NEW k \in Key, NEW v \in Value, NEW copy \in Addr, PutInsert(k, v, copy)
      PROVE PointerInv'
  BY <1>5, PutInsertPointer
<1>6. ASSUME NEW k \in Key, NEW v \in Value, NEW copy \in Addr, PutEvict(k, v, copy)
      PROVE PointerInv'
  BY <1>6, PutEvictPointer
<1>7. CASE Clear
  BY <1>7, ClearPointer
<1>8. CASE Tick \/ UNCHANGED vars
  BY <1>8 DEF Tick, vars, PointerInv, Intact, Cached
<1> QED BY <1>1, <1>2, <1>3, <1>4, <1>5, <1>6, <1>7, <1>8 DEF Next

\* For every capacity and every sequence of calls, the pointer get returned is
\* good until its own key is overwritten, expired or cleared, or capacity_
\* other keys have been used.
THEOREM PointersStayGood == Spec => []PointerGuarantee
<1>1. Init => PointerInv
  BY DEF Init, PointerInv
<1>2. PointerInv => PointerGuarantee
  BY DEF PointerInv, PointerGuarantee, Intact, Cached
<1>3. Spec => []PointerInv
  BY <1>1, SafetyInvariant, NextPointer, PTL DEF Spec
<1> QED BY <1>2, <1>3, PTL

-----------------------------------------------------------------------------
(***************************************************************************)
(* The cache implements LRUSpec, for every instance: the store is the map  *)
(* with the vectors of its entries, and the keys used since a key was used *)
(* are those in front of it in the list.                                   *)
(***************************************************************************)

\* The store of LRUSpec, and its orders and replies, as the cache holds them.
Store == [k \in Key |->
            IF map_[k] = None THEN None
            ELSE [val |-> heap[map_[k].vec], expires_at |-> map_[k].expires_at]]

Since == [k \in Key |-> IF map_[k] = None THEN {} ELSE Ahead(k)]

Reply == [t \in Thread |-> IF held[t] = None THEN None ELSE held[t].val]

-----------------------------------------------------------------------------
(* The order of the list, exactly. *)

\* Erasing a key takes it out of the order and changes nothing else.
LEMMA ErasedOrder ==
  ASSUME NEW S, NEW s \in Seq(S), Injective(s), NEW i \in 1..Len(s), NEW x, NEW k
  PROVE  Before(RemoveAt(s, i), x, k) <=> Before(s, x, k) /\ x # s[i] /\ k # s[i]
<1> DEFINE r == RemoveAt(s, i)
<1>1. Len(s) \in Nat /\ i \in Nat /\ i >= 1 /\ i <= Len(s)
  BY LenProperties
<1>2. /\ Len(r) = Len(s) - 1
      /\ \A j \in 1..(Len(s) - 1) : r[j] = IF j < i THEN s[j] ELSE s[j + 1]
  BY RemoveAtElements
<1>3. ASSUME Before(r, x, k) PROVE Before(s, x, k)
  BY <1>3, RemoveAtBefore
<1>4. ASSUME Before(r, x, k) PROVE x # s[i] /\ k # s[i]
  <2>1. \A y : Occurs(r, y) <=> Occurs(s, y) /\ y # s[i]
    BY RemoveAtInjective
  <2>2. Occurs(r, x) /\ Occurs(r, k)
    BY <1>4 DEF Before, Occurs
  <2> QED BY <2>1, <2>2
<1>5. ASSUME Before(s, x, k), x # s[i], k # s[i] PROVE Before(r, x, k)
  <2> HIDE DEF r
  <2>1. PICK a \in 1..Len(s), b \in 1..Len(s) : a < b /\ s[a] = x /\ s[b] = k
    BY <1>5 DEF Before
  <2> DEFINE New(j) == IF j < i THEN j ELSE j - 1
  <2>2. a # i /\ b # i
    BY <2>1, <1>5
  <2>3. New(a) \in 1..Len(r) /\ New(b) \in 1..Len(r) /\ New(a) < New(b)
    BY <1>1, <1>2, <2>1, <2>2
  <2>4. ASSUME NEW j \in 1..Len(s), j # i PROVE r[New(j)] = s[j]
    <3>1. CASE j < i
      BY <1>1, <1>2, <3>1
    <3>2. CASE j > i
      <4>1. j - 1 \in 1..(Len(s) - 1) /\ ~(j - 1 < i) /\ (j - 1) + 1 = j
        BY <1>1, <3>2
      <4>2. r[j - 1] = s[j]
        BY <1>2, <4>1
      <4> QED BY <1>1, <3>2, <4>2
    <3> QED BY <1>1, <2>4, <3>1, <3>2
  <2>5. r[New(a)] = x /\ r[New(b)] = k
    BY <2>1, <2>2, <2>4
  <2> QED BY <2>3, <2>5 DEF Before
<1> HIDE DEF r
<1>6. Before(r, x, k) <=> Before(s, x, k) /\ x # s[i] /\ k # s[i]
  BY <1>3, <1>4, <1>5
<1> QED BY <1>6 DEF r

\* A new key pushed to the front is before all others and moves none.
LEMMA PushedOrder ==
  ASSUME NEW S, NEW s \in Seq(S), NEW y \in S, ~Occurs(s, y), NEW x, NEW k
  PROVE  Before(<<y>> \o s, x, k) <=> (x = y /\ Occurs(s, k)) \/ Before(s, x, k)
<1> DEFINE r == <<y>> \o s
<1>1. /\ Len(s) \in Nat
      /\ Len(r) = Len(s) + 1
      /\ \A j \in 1..Len(r) : r[j] = IF j = 1 THEN y ELSE s[j - 1]
  BY LenProperties
<1> HIDE DEF r
<1>2. ASSUME Before(r, x, k) PROVE (x = y /\ Occurs(s, k)) \/ Before(s, x, k)
  <2>1. PICK a \in 1..Len(r), b \in 1..Len(r) : a < b /\ r[a] = x /\ r[b] = k
    BY <1>2 DEF Before
  <2>2. b - 1 \in 1..Len(s) /\ s[b - 1] = k
    BY <1>1, <2>1
  <2>3. CASE a = 1
    BY <1>1, <2>1, <2>2, <2>3 DEF Occurs
  <2>4. CASE a # 1
    <3>1. a - 1 \in 1..Len(s) /\ a - 1 < b - 1 /\ s[a - 1] = x
      BY <1>1, <2>1, <2>4
    <3> QED BY <3>1, <2>2 DEF Before
  <2> QED BY <2>3, <2>4
<1>3. ASSUME x = y, Occurs(s, k) PROVE Before(r, x, k)
  <2>1. PICK b \in 1..Len(s) : s[b] = k
    BY <1>3 DEF Occurs
  <2>2. /\ 1 \in 1..Len(r) /\ b + 1 \in 1..Len(r) /\ 1 < b + 1
        /\ r[1] = x /\ r[b + 1] = k
    BY <1>1, <1>3, <2>1
  <2> QED BY <2>2 DEF Before
<1>4. ASSUME Before(s, x, k) PROVE Before(r, x, k)
  <2>1. PICK a \in 1..Len(s), b \in 1..Len(s) : a < b /\ s[a] = x /\ s[b] = k
    BY <1>4 DEF Before
  <2>2. /\ a + 1 \in 1..Len(r) /\ b + 1 \in 1..Len(r) /\ a + 1 < b + 1
        /\ r[a + 1] = x /\ r[b + 1] = k
    BY <1>1, <2>1
  <2> QED BY <2>2 DEF Before
<1>5. Before(r, x, k) <=> (x = y /\ Occurs(s, k)) \/ Before(s, x, k)
  BY <1>2, <1>3, <1>4
<1> QED BY <1>5 DEF r

-----------------------------------------------------------------------------
\* Since in terms of the order.
SinceIsOrder ==
  Since = [k \in Key |-> IF map_[k] = None THEN {} ELSE {x \in Key : Before(list_, x, k)}]

\* The keys ahead of a cached key are those before it.
LEMMA SinceForm == SafetyInv => SinceIsOrder
<1> SUFFICES ASSUME SafetyInv PROVE SinceIsOrder
  OBVIOUS
<1>1. ASSUME NEW k \in Cached PROVE Ahead(k) = {x \in Key : Before(list_, x, k)}
  <2>1. /\ Position(k) \in 1..Len(list_) /\ list_[Position(k)] = k
    BY ErasedCached DEF SafetyInv
  <2>2. /\ list_ \in Seq(Key) /\ Injective(list_) /\ Len(list_) \in Nat
        /\ \A i \in 1..Len(list_) : list_[i] \in Key
    BY ListMapForm, LenProperties, ElementOfSeq DEF SafetyInv, TypeOK
  <2>3. ASSUME NEW x \in Ahead(k) PROVE x \in Key /\ Before(list_, x, k)
    <3>1. PICK i \in 1..(Position(k) - 1) : x = list_[i]
      BY DEF Ahead
    <3>2. i \in 1..Len(list_) /\ i < Position(k)
      BY <2>1, <2>2, <3>1
    <3> QED BY <2>1, <2>2, <3>1, <3>2 DEF Before
  <2>4. ASSUME NEW x \in Key, Before(list_, x, k) PROVE x \in Ahead(k)
    <3>1. PICK i \in 1..Len(list_), j \in 1..Len(list_) :
            i < j /\ list_[i] = x /\ list_[j] = k
      BY <2>4 DEF Before
    <3>2. j = Position(k)
      BY <2>1, <2>2, <3>1 DEF Injective
    <3>3. i \in 1..(Position(k) - 1)
      BY <2>2, <3>1, <3>2
    <3> QED BY <3>1, <3>3 DEF Ahead
  <2> QED BY <2>3, <2>4
<1> QED BY <1>1 DEF SinceIsOrder, Since, Cached

\* The same in the next state.
LEMMA SinceFormNext == SafetyInv' => SinceIsOrder'
BY SinceForm, PTL

\* The store has a value exactly of the cached keys.
LEMMA StoreForm ==
  ASSUME SafetyInv, NEW k \in Key
  PROVE  /\ Store[k] = None <=> map_[k] = None
         /\ map_[k] # None
              => /\ Store[k].val = heap[map_[k].vec]
                 /\ Store[k].expires_at = map_[k].expires_at
<1>1. CASE map_[k] = None
  BY <1>1 DEF Store
<1>2. CASE map_[k] # None
  <2>1. map_[k] \in Entry /\ heap[map_[k].vec] \in Value
    BY <1>2 DEF SafetyInv, TypeOK, HeapOwnership, Cached, Entry
  <2>2. [val |-> heap[map_[k].vec], expires_at |-> map_[k].expires_at]
          \in [val : Value, expires_at : Nat]
    BY <2>1 DEF Entry
  <2>3. Store[k] = [val |-> heap[map_[k].vec], expires_at |-> map_[k].expires_at]
    BY <1>2 DEF Store
  <2> QED BY <1>2, <2>2, <2>3, NoneAssumption
<1> QED BY <1>1, <1>2

\* Expiry is the same in both.
LEMMA ExpiredForm ==
  ASSUME SafetyInv, NEW k \in Cached
  PROVE  LRU!Expired(k) <=> Expired(k)
BY StoreForm DEF LRU!Expired, Expired, Store, Cached

\* The order after a key was moved or pushed to the front and the keys of Out
\* have gone.
InFront(k, Out) ==
  \A x, y \in Key :
    Before(list_', x, y)
      <=> \/ x = k /\ y # k /\ map_'[y] # None
          \/ /\ x # k /\ y # k /\ x \notin Out /\ y \notin Out
             /\ Before(list_, x, y)

\* Then k was used and the keys of Out were forgotten.
LEMMA UsedInSpec ==
  ASSUME SafetyInv, SafetyInv', NEW k \in Key, NEW Out \in SUBSET Key, InFront(k, Out),
         \A x \in Key : map_'[x] # None <=> x = k \/ (map_[x] # None /\ x \notin Out)
  PROVE  LRU!Use(k, Out)
<1>1. SinceIsOrder /\ SinceIsOrder'
  BY SinceForm, SinceFormNext
<1>2. ASSUME NEW j \in Key
      PROVE  Since'[j] = IF j = k \/ j \in Out \/ Store[j] = None THEN {}
                         ELSE (Since[j] \ Out) \cup {k}
  <2>1. Store[j] = None <=> map_[j] = None
    BY StoreForm
  <2>2. Since'[j] = IF map_'[j] = None THEN {} ELSE {x \in Key : Before(list_', x, j)}
    BY <1>1 DEF SinceIsOrder
  <2>3. Since[j] = IF map_[j] = None THEN {} ELSE {x \in Key : Before(list_, x, j)}
    BY <1>1 DEF SinceIsOrder
  <2>4. CASE j = k
    BY <2>2, <2>4 DEF InFront
  <2>5. CASE j # k /\ (j \in Out \/ map_[j] = None)
    BY <2>1, <2>2, <2>5
  <2>6. CASE j # k /\ j \notin Out /\ map_[j] # None
    <3>1. map_'[j] # None
      BY <2>6
    <3>2. \A x \in Key : Before(list_', x, j) <=> x = k \/ (x \notin Out /\ Before(list_, x, j))
      <4>1. \A x \in Key : Before(list_', x, j) <=> x = k \/ (x # k /\ x \notin Out /\ Before(list_, x, j))
        BY <2>6, <3>1 DEF InFront
      <4> QED BY <4>1
    <3>3. {x \in Key : Before(list_', x, j)} = ({x \in Key : Before(list_, x, j)} \ Out) \cup {k}
      BY <3>2
    <3> QED BY <2>1, <2>2, <2>3, <2>6, <3>1, <3>3
  <2> QED BY <2>4, <2>5, <2>6
<1>3. Since' = [j \in Key |-> IF j = k \/ j \in Out \/ Store[j] = None THEN {}
                              ELSE (Since[j] \ Out) \cup {k}]
  BY <1>2 DEF Since
<1> QED BY <1>3 DEF LRU!Use, Store, Since

-----------------------------------------------------------------------------
(* The steps of the store. *)

\* What the list operations do to the order.
LEMMA ListOrders ==
  ASSUME SafetyInv, NEW k \in Cached
  PROVE  /\ \A x, y \in Key :
              Before(Erased(k), x, y) <=> Before(list_, x, y) /\ x # k /\ y # k
         /\ \A x, y \in Key :
              Before(Spliced(k), x, y)
                <=> \/ x = k /\ y # k /\ y \in Cached
                    \/ Before(list_, x, y) /\ x # k /\ y # k
<1>1. /\ list_ \in Seq(Key) /\ Injective(list_) /\ k \in Key
      /\ Position(k) \in 1..Len(list_) /\ list_[Position(k)] = k
      /\ Erased(k) \in Seq(Key) /\ ~Occurs(Erased(k), k)
      /\ \A y \in Key : Occurs(Erased(k), y) <=> y \in Cached /\ y # k
  BY ErasedCached, ListMapForm DEF SafetyInv, TypeOK, Cached
<1>2. \A x, y \in Key : Before(Erased(k), x, y) <=> Before(list_, x, y) /\ x # k /\ y # k
  BY <1>1, ErasedOrder DEF Erased
<1>3. \A x, y \in Key : Before(<<k>> \o Erased(k), x, y)
                          <=> (x = k /\ Occurs(Erased(k), y)) \/ Before(Erased(k), x, y)
  BY <1>1, PushedOrder
<1> QED BY <1>1, <1>2, <1>3 DEF Spliced

\* get of an absent key looks up in vain.
LEMMA GetMissLooksUp ==
  ASSUME SafetyInv, NEW t \in Thread, NEW k \in Key, GetMiss(t, k)
  PROVE  LRU!LookupMiss(t, k)
<1>1. Store[k] = None
  BY StoreForm DEF GetMiss
<1>2. Store' = Store /\ Since' = Since /\ now' = now
  BY DEF GetMiss, Store, Since, Ahead, Position
<1>3. Reply' = [Reply EXCEPT ![t] = None]
  BY DEF GetMiss, Reply, SafetyInv, TypeOK
<1> QED BY <1>1, <1>2, <1>3 DEF LRU!LookupMiss, Store, Since, Reply

\* A use of a key does not change what was answered.
LEMMA TouchAnswers ==
  ASSUME NEW h \in Pointer \cup {None}, NEW k \in Key, NEW E
  PROVE  /\ Touch(h, k, E) = None <=> h = None
         /\ h # None => Touch(h, k, E).val = h.val
<1>1. CASE h = None
  BY <1>1 DEF Touch
<1>2. CASE h # None
  <2> DEFINE g == [h EXCEPT !.used = IF h.key = k THEN @ ELSE @ \cup {k},
                            !.ended = @ \/ h.key \in E]
  <2>1. g \in Pointer /\ g.val = h.val
    BY <1>2 DEF Pointer
  <2>2. Touch(h, k, E) = g
    BY <1>2 DEF Touch
  <2> HIDE DEF g
  <2> QED BY <2>1, <2>2, <1>2, NoneAssumption
<1> QED BY <1>1, <1>2

\* get of an expired entry forgets the key.
LEMMA GetExpiredForgets ==
  ASSUME SafetyInv, SafetyInv', NEW t \in Thread, NEW k \in Key, GetExpired(t, k)
  PROVE  LRU!LookupExpired(t, k)
<1>1. k \in Cached /\ Store[k] # None /\ LRU!Expired(k)
  BY StoreForm, ExpiredForm DEF GetExpired, Cached
<1>2. map_' = [map_ EXCEPT ![k] = None] /\ now' = now
      /\ map_ \in [Key -> Entry \cup {None}]
  BY DEF GetExpired, SafetyInv, TypeOK
<1>3. Store' = [Store EXCEPT ![k] = None]
  <2>1. \A j \in Cached : j # k => heap'[map_[j].vec] = heap[map_[j].vec]
    BY <1>1 DEF GetExpired, SafetyInv, TypeOK, HeapOwnership, Cached, Entry
  <2>2. \A j \in Key : Store'[j] = IF j = k THEN None ELSE Store[j]
    BY <1>2, <2>1 DEF Store, Cached
  <2> QED BY <2>2 DEF Store
<1>4. Since' = [j \in Key |-> IF j \in {k} THEN {} ELSE Since[j] \ {k}]
  <2>1. SinceIsOrder /\ SinceIsOrder'
    BY SinceForm, SinceFormNext
  <2>2. \A x, y \in Key : Before(list_', x, y) <=> Before(list_, x, y) /\ x # k /\ y # k
    BY <1>1, ListOrders DEF GetExpired
  <2>3. ASSUME NEW j \in Key
        PROVE  Since'[j] = IF j \in {k} THEN {} ELSE Since[j] \ {k}
    <3>1. Since'[j] = IF map_'[j] = None THEN {} ELSE {x \in Key : Before(list_', x, j)}
      BY <2>1 DEF SinceIsOrder
    <3>2. Since[j] = IF map_[j] = None THEN {} ELSE {x \in Key : Before(list_, x, j)}
      BY <2>1 DEF SinceIsOrder
    <3>3. j # k => {x \in Key : Before(list_', x, j)} = {x \in Key : Before(list_, x, j)} \ {k}
      BY <2>2
    <3> QED BY <1>2, <3>1, <3>2, <3>3
  <2> QED BY <2>3 DEF Since
<1>5. Reply' = [Reply EXCEPT ![t] = None]
  <2>1. ASSUME NEW u \in Thread PROVE Reply'[u] = IF u = t THEN None ELSE Reply[u]
    <3>1. CASE u = t \/ held[u] = None
      BY <3>1 DEF GetExpired, Reply
    <3>2. CASE u # t /\ held[u] # None
      <4> DEFINE g == [held[u] EXCEPT !.ended = @ \/ held[u].key = k]
      <4>1. held[u] \in Pointer
        BY <3>2 DEF SafetyInv, TypeOK
      <4>2. g \in Pointer /\ g.val = held[u].val
        BY <4>1 DEF Pointer
      <4>3. held'[u] = g
        BY <3>2 DEF GetExpired
      <4> HIDE DEF g
      <4> QED BY <3>2, <4>2, <4>3, NoneAssumption DEF Reply
    <3> QED BY <3>1, <3>2
  <2> QED BY <2>1 DEF Reply
<1> QED BY <1>1, <1>2, <1>3, <1>4, <1>5 DEF LRU!LookupExpired, LRU!Forget, Store, Since, Reply

\* Threads that only watch a key being used keep their answers.
LEMMA WatchersKeep ==
  ASSUME SafetyInv, NEW k \in Key, NEW E, NEW u \in Thread,
         held'[u] = Touch(held[u], k, E)
  PROVE  Reply'[u] = Reply[u]
<1>1. held[u] \in Pointer \cup {None}
  BY DEF SafetyInv, TypeOK
<1> QED BY <1>1, TouchAnswers DEF Reply

\* get of a live key looks up its value and makes it the latest used.
LEMMA GetHitFinds ==
  ASSUME SafetyInv, SafetyInv', NEW t \in Thread, NEW k \in Key, GetHit(t, k)
  PROVE  LRU!LookupHit(t, k)
<1>1. k \in Cached /\ Store[k] # None /\ ~LRU!Expired(k)
  BY StoreForm, ExpiredForm DEF GetHit, Cached
<1>2. Store' = Store /\ map_' = map_ /\ now' = now
  BY DEF GetHit, Store
<1>3. LRU!Use(k, {})
  <2>1. InFront(k, {})
    BY <1>1, <1>2, ListOrders DEF GetHit, InFront, Cached
  <2> QED BY <1>1, <1>2, <2>1, UsedInSpec DEF Cached
<1>4. Reply' = [Reply EXCEPT ![t] = Store[k].val]
  <2>1. Reply'[t] = Store[k].val
    <3>1. heap[map_[k].vec] \in Value /\ map_[k].vec \in Addr
      BY <1>1 DEF SafetyInv, TypeOK, HeapOwnership, Cached, Entry
    <3> DEFINE g == [key |-> k, vec |-> map_[k].vec, val |-> heap[map_[k].vec],
                     used |-> {}, ended |-> FALSE]
    <3>2. g \in Pointer /\ g.val = heap[map_[k].vec]
      BY <3>1 DEF Pointer
    <3>3. held'[t] = g
      BY DEF GetHit
    <3>4. Store[k].val = heap[map_[k].vec]
      BY <1>1, StoreForm DEF Cached
    <3> HIDE DEF g
    <3> QED BY <3>2, <3>3, <3>4, NoneAssumption DEF Reply
  <2>2. \A u \in Thread : u # t => Reply'[u] = Reply[u]
    BY WatchersKeep DEF GetHit
  <2> QED BY <2>1, <2>2 DEF Reply
<1> QED BY <1>1, <1>2, <1>3, <1>4 DEF LRU!LookupHit, Store, Reply

\* A put stores the value under the key and leaves what stays alone.
Puts(k, v, Out) ==
  /\ map_'[k] = [vec |-> map_'[k].vec, expires_at |-> ExpiryOfPut]
  /\ map_'[k] # None /\ heap'[map_'[k].vec] = v
  /\ \A j \in Key : j # k => map_'[j] = IF j \in Out THEN None ELSE map_[j]
  /\ \A j \in Cached : j # k /\ j \notin Out => heap'[map_[j].vec] = heap[map_[j].vec]

\* So does the store of LRUSpec.
LEMMA PutStores ==
  ASSUME NEW k \in Key, NEW v \in Value, NEW Out \in SUBSET Key, k \notin Out,
         Puts(k, v, Out)
  PROVE  Store' = [j \in Key |-> IF j = k THEN [val |-> v, expires_at |-> LRU!Deadline]
                                 ELSE IF j \in Out THEN None ELSE Store[j]]
<1>1. LRU!Deadline = ExpiryOfPut
  BY DEF LRU!Deadline, ExpiryOfPut
<1>2. map_'[k].expires_at = ExpiryOfPut
  BY DEF Puts
<1>3. Store'[k] = [val |-> v, expires_at |-> LRU!Deadline]
  BY <1>1, <1>2 DEF Puts, Store
<1>4. \A j \in Key : j # k => Store'[j] = IF j \in Out THEN None ELSE Store[j]
  BY DEF Puts, Store, Cached
<1> QED BY <1>3, <1>4 DEF Store

\* Without an eviction that is one assignment.
LEMMA PutAssigns ==
  ASSUME NEW k \in Key, NEW v \in Value, Puts(k, v, {})
  PROVE  Store' = [Store EXCEPT ![k] = [val |-> v, expires_at |-> LRU!Deadline]]
<1> DEFINE new == [val |-> v, expires_at |-> LRU!Deadline]
<1>1. Store' = [j \in Key |-> IF j = k THEN new ELSE IF j \in {} THEN None ELSE Store[j]]
  BY PutStores
<1> HIDE DEF new
<1>2. Store' = [Store EXCEPT ![k] = new]
  BY <1>1 DEF Store
<1> QED BY <1>2 DEF new

\* A put is watched by every thread.
LEMMA PutAnswersNobody ==
  ASSUME SafetyInv, NEW k \in Key, NEW E,
         held' = [u \in Thread |-> Touch(held[u], k, E)]
  PROVE  Reply' = Reply
<1>1. \A u \in Thread : Reply'[u] = Reply[u]
  BY WatchersKeep
<1> QED BY <1>1 DEF Reply

\* put over a cached key replaces its value.
LEMMA PutUpdateReplaces ==
  ASSUME SafetyInv, SafetyInv', NEW k \in Key, NEW v \in Value, NEW copy \in Addr,
         PutUpdate(k, v, copy)
  PROVE  LRU!Replace(k, v)
<1>1. k \in Cached /\ Store[k] # None /\ now' = now
  BY StoreForm DEF PutUpdate, Cached
<1>2. map_' = [map_ EXCEPT ![k] = [vec |-> copy, expires_at |-> ExpiryOfPut]]
      /\ map_ \in [Key -> Entry \cup {None}]
      /\ [vec |-> copy, expires_at |-> ExpiryOfPut] \in Entry
  BY ExpiryType DEF PutUpdate, SafetyInv, TypeOK, Entry
<1>3. Puts(k, v, {})
  <2>1. map_'[k] = [vec |-> copy, expires_at |-> ExpiryOfPut] /\ map_'[k] # None
    BY <1>2, NoneAssumption
  <2>2. heap'[copy] = v
    BY DEF PutUpdate, Overwritten, SafetyInv, TypeOK
  <2>3. \A j \in Cached : j # k => heap'[map_[j].vec] = heap[map_[j].vec]
    BY <1>1 DEF PutUpdate, Overwritten, SafetyInv, TypeOK, HeapOwnership, Cached, Entry
  <2> QED BY <1>2, <2>1, <2>2, <2>3 DEF Puts
<1>4. Store' = [Store EXCEPT ![k] = [val |-> v, expires_at |-> LRU!Deadline]]
  BY <1>3, PutAssigns
<1>5. LRU!Use(k, {})
  <2>1. InFront(k, {})
    BY <1>1, <1>2, <1>3, ListOrders DEF PutUpdate, InFront, Cached, Puts
  <2>2. \A x \in Key : map_'[x] # None <=> x = k \/ (map_[x] # None /\ x \notin {})
    BY <1>1, <1>3 DEF Puts, Cached
  <2> QED BY <2>1, <2>2, UsedInSpec
<1>6. Reply' = Reply
  BY PutAnswersNobody DEF PutUpdate
<1> QED BY <1>1, <1>4, <1>5, <1>6 DEF LRU!Replace, Store, Reply

\* The store holds the keys that are cached, and counts them alike.
LEMMA StoredCached ==
  ASSUME SafetyInv
  PROVE  LRU!Stored = Cached /\ LRU!Cardinality(LRU!Stored) = Cardinality(Cached)
<1>1. LRU!Stored = Cached
  BY StoreForm DEF LRU!Stored, Store, Cached
<1>2. LRU!Cardinality(Cached) = Cardinality(Cached)
  BY DEF LRU!Cardinality, Cardinality
<1> QED BY <1>1, <1>2

\* put of a new key below capacity adds its value.
LEMMA PutInsertAdds ==
  ASSUME SafetyInv, SafetyInv', NEW k \in Key, NEW v \in Value, NEW copy \in Addr,
         PutInsert(k, v, copy)
  PROVE  LRU!Add(k, v)
<1>1. map_[k] = None /\ Store[k] = None /\ now' = now
  BY StoreForm DEF PutInsert
<1>2. LRU!Cardinality(LRU!Stored) < capacity_
  <2>1. Cardinality(Cached) \in Nat /\ ~(Cardinality(Cached) >= capacity_)
    BY FS_CardinalityType DEF SafetyInv, CountOK, PutInsert, Full
  <2> QED BY <2>1, StoredCached, CapacityAssumption
<1>3. map_' = [map_ EXCEPT ![k] = [vec |-> copy, expires_at |-> ExpiryOfPut]]
      /\ map_ \in [Key -> Entry \cup {None}]
      /\ [vec |-> copy, expires_at |-> ExpiryOfPut] \in Entry
  BY ExpiryType DEF PutInsert, SafetyInv, TypeOK, Entry
<1>4. Puts(k, v, {})
  <2>1. map_'[k] = [vec |-> copy, expires_at |-> ExpiryOfPut] /\ map_'[k] # None
    BY <1>3, NoneAssumption
  <2>2. heap'[copy] = v
    BY DEF PutInsert, SafetyInv, TypeOK
  <2>3. \A j \in Cached : j # k => heap'[map_[j].vec] = heap[map_[j].vec]
    BY DEF PutInsert, SafetyInv, TypeOK, HeapOwnership, Cached
  <2> QED BY <1>3, <2>1, <2>2, <2>3 DEF Puts
<1>5. Store' = [Store EXCEPT ![k] = [val |-> v, expires_at |-> LRU!Deadline]]
  BY <1>4, PutAssigns
<1>6. LRU!Use(k, {})
  <2>1. /\ list_ \in Seq(Key) /\ ~Occurs(list_, k)
        /\ \A x \in Key : Occurs(list_, x) <=> x \in Cached
    BY <1>1, ListMapForm DEF SafetyInv, TypeOK, Cached
  <2>2. \A x, y \in Key : Before(list_', x, y)
                            <=> (x = k /\ Occurs(list_, y)) \/ Before(list_, x, y)
    BY <2>1, PushedOrder DEF PutInsert
  <2>3. \A x, y \in Key : Before(list_, x, y) => x # k /\ y # k
    BY <2>1 DEF Before, Occurs
  <2>4. \A x \in Key : map_'[x] # None <=> x = k \/ (map_[x] # None /\ x \notin {})
    BY <1>4 DEF Puts
  <2>5. InFront(k, {})
    BY <1>1, <2>1, <2>2, <2>3, <2>4 DEF InFront, Cached
  <2> QED BY <2>4, <2>5, UsedInSpec
<1>7. Reply' = Reply
  BY PutAnswersNobody DEF PutInsert
<1> QED BY <1>1, <1>2, <1>5, <1>6, <1>7 DEF LRU!Add, Store, Reply

\* The order after an eviction: the last key has gone, the new one is first.
LEMMA EvictedOrder ==
  ASSUME SafetyInv, NEW k \in Key, k \notin Cached, NEW last \in Cached,
         \A x \in Key : map_'[x] # None <=> x = k \/ (map_[x] # None /\ x # last),
         list_' = <<k>> \o Erased(last)
  PROVE  InFront(k, {last})
<1>1. /\ Erased(last) \in Seq(Key)
      /\ \A x \in Key : Occurs(Erased(last), x) <=> x \in Cached /\ x # last
  BY ErasedCached DEF SafetyInv
<1>2. \A x, y \in Key : Before(list_', x, y)
        <=> (x = k /\ Occurs(Erased(last), y)) \/ Before(Erased(last), x, y)
  BY <1>1, PushedOrder
<1>3. \A x, y \in Key :
        Before(Erased(last), x, y) <=> Before(list_, x, y) /\ x # last /\ y # last
  BY ListOrders
<1>4. \A x, y \in Key : Before(list_, x, y) => x # k /\ y # k
  <2>1. ~Occurs(list_, k)
    BY ListMapForm DEF SafetyInv
  <2> QED BY <2>1 DEF Before, Occurs
<1> QED BY <1>1, <1>2, <1>3, <1>4 DEF InFront, Cached

\* put of a new key at capacity gives up the key least recently used.
LEMMA PutEvictGivesUp ==
  ASSUME SafetyInv, SafetyInv', NEW k \in Key, NEW v \in Value, NEW copy \in Addr,
         PutEvict(k, v, copy)
  PROVE  LRU!AddEvicting(k, v)
<1> DEFINE new == [val |-> v, expires_at |-> LRU!Deadline]
<1>1. map_[k] = None /\ Store[k] = None /\ now' = now
  BY StoreForm DEF PutEvict
<1>2. PICK last \in Cached : last = list_[Len(list_)] /\ last \in Key /\ last # k
  BY <1>1, LastCached DEF PutEvict, Cached
<1>3. LRU!Stored = Cached /\ LRU!Cardinality(LRU!Stored) >= capacity_
  BY StoredCached DEF PutEvict, Full
<1>4. Cached \ {last} \subseteq Since[last]
  <2>1. Since[last] = {x \in Key : Before(list_, x, last)}
    BY <1>2, SinceForm DEF SinceIsOrder, Cached
  <2>2. \A x \in Cached : x # last => x \in Key /\ Before(list_, x, last)
    BY <1>2, LastBehindAll DEF PutEvict, Cached
  <2> QED BY <2>1, <2>2
<1>5. /\ map_' = [map_ EXCEPT ![last] = None,
                              ![k] = [vec |-> copy, expires_at |-> ExpiryOfPut]]
      /\ heap' = Overwritten(last, v, copy)
      /\ list_' = <<k>> \o Erased(last)
      /\ map_ \in [Key -> Entry \cup {None}]
      /\ [vec |-> copy, expires_at |-> ExpiryOfPut] \in Entry
  BY <1>2, ExpiryType DEF PutEvict, SafetyInv, TypeOK, Entry
<1>6. Puts(k, v, {last})
  <2>1. map_'[k] = [vec |-> copy, expires_at |-> ExpiryOfPut] /\ map_'[k] # None
    BY <1>2, <1>5, NoneAssumption
  <2>2. heap'[copy] = v
    BY <1>5 DEF Overwritten, SafetyInv, TypeOK
  <2>3. \A j \in Cached : j # last => heap'[map_[j].vec] = heap[map_[j].vec]
    <3>1. ASSUME NEW j \in Cached, j # last
          PROVE  map_[j].vec \in Addr /\ map_[j].vec # copy /\ map_[j].vec # map_[last].vec
      BY <1>2, <3>1 DEF PutEvict, SafetyInv, TypeOK, HeapOwnership, Cached, Entry
    <3> QED BY <1>5, <3>1 DEF Overwritten, SafetyInv, TypeOK
  <2> QED BY <1>2, <1>5, <2>1, <2>2, <2>3 DEF Puts
<1>7. Store' = [Store EXCEPT ![last] = None, ![k] = new]
  <2>1. Store' = [j \in Key |-> IF j = k THEN new ELSE IF j \in {last} THEN None ELSE Store[j]]
    BY <1>2, <1>6, PutStores
  <2> HIDE DEF new
  <2> QED BY <1>2, <2>1 DEF Store
<1>8. LRU!Use(k, {last})
  <2>1. \A x \in Key : map_'[x] # None <=> x = k \/ (map_[x] # None /\ x # last)
    BY <1>6 DEF Puts
  <2>2. /\ {last} \in SUBSET Key
        /\ \A x \in Key : map_'[x] # None <=> x = k \/ (map_[x] # None /\ x \notin {last})
    BY <1>2, <2>1
  <2>3. InFront(k, {last})
    BY <1>1, <1>2, <1>5, <2>1, EvictedOrder DEF Cached
  <2> QED BY <2>2, <2>3, UsedInSpec
<1>9. Reply' = Reply
  BY PutAnswersNobody DEF PutEvict
<1>10. \E victim \in LRU!Stored :
         /\ LRU!Stored \ {victim} \subseteq Since[victim]
         /\ Store' = [Store EXCEPT ![victim] = None, ![k] = new]
         /\ LRU!Use(k, {victim})
  <2>1. last \in LRU!Stored
    BY <1>2, <1>3
  <2> WITNESS last \in LRU!Stored
  <2> QED BY <1>3, <1>4, <1>7, <1>8
<1> QED BY <1>1, <1>3, <1>9, <1>10 DEF LRU!AddEvicting, Store, Since, Reply

\* clear drops everything and answers nobody.
LEMMA ClearDrops == ASSUME SafetyInv, Clear PROVE LRU!DropAll
<1>1. Store' = [k \in Key |-> None] /\ Since' = [k \in Key |-> {}] /\ now' = now
  BY DEF Clear, Store, Since
<1>2. ASSUME NEW u \in Thread PROVE Reply'[u] = Reply[u]
  <2>1. CASE held[u] = None
    BY <2>1 DEF Clear, Reply
  <2>2. CASE held[u] # None
    <3> DEFINE g == [held[u] EXCEPT !.ended = TRUE]
    <3>1. held[u] \in Pointer
      BY <2>2 DEF SafetyInv, TypeOK
    <3>2. g \in Pointer /\ g.val = held[u].val
      BY <3>1 DEF Pointer
    <3>3. held'[u] = g
      BY <2>2 DEF Clear
    <3> HIDE DEF g
    <3> QED BY <2>2, <3>2, <3>3, NoneAssumption DEF Reply
  <2> QED BY <2>1, <2>2
<1>3. Reply' = Reply
  BY <1>2 DEF Reply
<1> QED BY <1>1, <1>3 DEF LRU!DropAll, Store, Since, Reply

\* Time passes for both.
LEMMA TickTicks == ASSUME Tick PROVE LRU!Tick
<1>1. Store' = Store /\ Since' = Since /\ Reply' = Reply
  BY DEF Tick, Store, Since, Ahead, Position, Reply
<1> QED BY <1>1 DEF Tick, LRU!Tick, Store, Since, Reply

\* A step that changes nothing changes nothing of the store.
LEMMA RestStutters == ASSUME UNCHANGED vars PROVE UNCHANGED LRU!absVars
<1>1. Store' = Store /\ Since' = Since /\ Reply' = Reply
  BY DEF vars, Store, Since, Ahead, Position, Reply
<1> QED BY <1>1 DEF vars, LRU!absVars, Store, Since, Reply

\* An empty cache is an empty store.
LEMMA InitIsInit == Init => LRU!Init
BY DEF Init, LRU!Init

\* Every step of the cache is one of the store.
LEMMA NextIsNext == SafetyInv /\ SafetyInv' /\ [Next]_vars => [LRU!Next]_(LRU!absVars)
<1> SUFFICES ASSUME SafetyInv, SafetyInv', [Next]_vars PROVE [LRU!Next]_(LRU!absVars)
  OBVIOUS
<1>1. ASSUME NEW t \in Thread, NEW k \in Key, GetMiss(t, k) \/ GetExpired(t, k) \/ GetHit(t, k)
      PROVE  LRU!Next
  BY <1>1, GetMissLooksUp, GetExpiredForgets, GetHitFinds DEF LRU!Next
<1>2. ASSUME NEW k \in Key, NEW v \in Value, NEW copy \in Addr,
             PutUpdate(k, v, copy) \/ PutInsert(k, v, copy) \/ PutEvict(k, v, copy)
      PROVE  LRU!Next
  BY <1>2, PutUpdateReplaces, PutInsertAdds, PutEvictGivesUp DEF LRU!Next
<1>3. CASE Clear \/ Tick
  BY <1>3, ClearDrops, TickTicks DEF LRU!Next
<1>4. CASE UNCHANGED vars
  BY <1>4, RestStutters
<1> QED BY <1>1, <1>2, <1>3, <1>4 DEF Next

\* The list, the map and the heap of embedding_cache_impl.hpp implement the
\* least-recently-used store with expiry that LRUSpec describes, for any keys,
\* values and addresses, capacity and lifetime.
THEOREM CacheIsLRU == Spec => ImplementsLRU
BY SafetyInvariant, InitIsInit, NextIsNext, PTL DEF Spec, ImplementsLRU, LRU!Spec
=============================================================================
