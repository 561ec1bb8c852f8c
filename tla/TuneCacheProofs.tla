-------------------------- MODULE TuneCacheProofs --------------------------
(***************************************************************************)
(* What holds of TuneCache for every set of processes, machines, models,   *)
(* back ends and configurations and every size of the array, although no   *)
(* process locks the file.                                                 *)
(***************************************************************************)
EXTENDS TuneCache, SequenceTheorems, FiniteSetTheorems, TLAPS

\* What an entry holds, and a member of the file.
Value ==
  {v \in [configs : Seq(Config), best_idx : Nat] : Len(v.configs) <= MaxConfigs}

Names == Fingerprint \union {Blank}

ValueOf(e) == [configs |-> e.configs, best_idx |-> e.best_idx]

Entry ==
  {e \in [fingerprint : Names, configs : Seq(Config), best_idx : Nat] : ValueOf(e) \in Value}

Members == [key : Key, value : Value]

\* One part of a file, or what a process has of one.
Text == Seq(Members) \union {None}

Progress == {"idle", "loading", "reading", "read", "opened", "written"}

CacheTypes ==
  /\ path \in Inode \union {None}
  /\ disk \in [Inode -> [head : Text, tail : Text]]
  /\ entry \in [Process -> Entry] /\ loaded \in [Process -> Key \union {None}]
  /\ pc \in [Process -> Progress] /\ root \in [Process -> Text]
  /\ fd \in [Process -> Inode \union {None}]
  /\ acked \in [Key -> Value \union {None}] /\ given \in SUBSET Members
  /\ disturbed \in BOOLEAN /\ mixed \in BOOLEAN /\ faults \in Nat

-----------------------------------------------------------------------------
\* A new entry is empty.
LEMMA NewEntryTyped == ASSUME NEW f \in Fingerprint PROVE NewEntry(f) \in Entry
<1>1. <<>> \in Seq(Config) /\ Len(<<>>) = 0
  OBVIOUS
<1>2. MaxConfigs \in Nat
  BY BoundsAssumption
<1> DEFINE none == <<>>
<1>3. [configs |-> none, best_idx |-> 0] \in Value
  <2> HIDE DEF none
  <2> QED BY <1>1, <1>2 DEF Value, none
<1>4. [fingerprint |-> f, configs |-> none, best_idx |-> 0] \in Entry
  <2> HIDE DEF none
  <2> QED BY <1>1, <1>3 DEF Entry, ValueOf, Names, none
<1> QED BY <1>4 DEF NewEntry

\* The best index is 0 or one of a configuration.
Held(v) == v.best_idx = 0 \/ v.best_idx < Len(v.configs)

\* add_config keeps to the array and leaves the best index where it was.
LEMMA AddConfigTyped ==
  ASSUME NEW e \in Entry, NEW c \in Config
  PROVE  /\ lembed_tune_cache_add_config(e, c) \in Entry
         /\ Held(ValueOf(e)) => Held(ValueOf(lembed_tune_cache_add_config(e, c)))
<1> DEFINE configs == e.configs
           longer == Append(configs, c)
<1>1. /\ configs \in Seq(Config) /\ e.best_idx \in Nat /\ e.fingerprint \in Names
      /\ e = [fingerprint |-> e.fingerprint, configs |-> configs, best_idx |-> e.best_idx]
  BY DEF Entry, ValueOf, Value
<1>2. longer \in Seq(Config) /\ Len(longer) = Len(configs) + 1 /\ Len(configs) \in Nat
  BY <1>1
<1>3. CASE Len(configs) >= MaxConfigs
  BY <1>3 DEF lembed_tune_cache_add_config
<1>4. CASE ~(Len(configs) >= MaxConfigs)
  <2> DEFINE more == [fingerprint |-> e.fingerprint, configs |-> longer, best_idx |-> e.best_idx]
  <2>1. [e EXCEPT !.configs = Append(@, c)] = more
    <3>1. e \in [fingerprint : Names, configs : Seq(Config), best_idx : Nat]
      BY DEF Entry
    <3> HIDE DEF longer
    <3>2. [e EXCEPT !.configs = longer]
            = [fingerprint |-> e.fingerprint, configs |-> longer, best_idx |-> e.best_idx]
      BY <3>1
    <3> QED BY <3>2 DEF longer
  <2>2. Len(longer) <= MaxConfigs
    BY <1>1, <1>2, <1>4, BoundsAssumption
  <2> HIDE DEF longer
  <2>3. more \in Entry
    BY <1>1, <1>2, <2>2 DEF Entry, ValueOf, Value
  <2>4. Held(ValueOf(e)) => Held(ValueOf(more))
    BY <1>1, <1>2 DEF Held, ValueOf
  <2> QED BY <1>4, <2>1, <2>3, <2>4 DEF lembed_tune_cache_add_config
<1> QED BY <1>3, <1>4

\* set_best takes only an index of a configuration that is there.
LEMMA SetBestTyped ==
  ASSUME NEW e \in Entry, NEW idx \in Int
  PROVE  /\ lembed_tune_cache_set_best(e, idx) \in Entry
         /\ Held(ValueOf(e)) => Held(ValueOf(lembed_tune_cache_set_best(e, idx)))
BY DEF lembed_tune_cache_set_best, Entry, ValueOf, Value, Held

\* What a save writes of an entry.
LEMMA MemberTyped ==
  ASSUME NEW e \in Entry PROVE Member(e) \in Members /\ Member(e).value = ValueOf(e)
BY DEF Member, Members, Entry, ValueOf, Names, Key

\* cJSON_GetObjectItem answers the value of a member of that name.
LEMMA HitIsMember ==
  ASSUME NEW S \in SUBSET Members, NEW members \in Seq(S), NEW key,
         GetObjectItem(members, key) # None
  PROVE  /\ GetObjectItem(members, key) \in Value
         /\ [key |-> key, value |-> GetObjectItem(members, key)] \in S
<1> DEFINE first == {i \in 1..Len(members) :
                       members[i].key = key /\ \A j \in 1..(i - 1) : members[j].key # key}
<1>2. PICK i \in first : GetObjectItem(members, key) = members[i].value
  BY DEF GetObjectItem
<1>3. members[i] \in S /\ members[i].key = key
  BY ElementOfSeq
<1>4. members[i] = [key |-> members[i].key, value |-> members[i].value] /\ members[i].value \in Value
  BY <1>3 DEF Members
<1> QED BY <1>2, <1>3, <1>4

\* None is neither a list of members nor a value.
LEMMA MarkersApart == None \notin Value /\ None \notin Seq(Members)
<1>1. Value \subseteq [configs : Seq(Config), best_idx : Nat]
  BY DEF Value
<1>2. Members \subseteq [key : Key, value : [configs : Seq(Config), best_idx : Nat]]
  BY <1>1 DEF Members
<1>3. Seq(Members) \subseteq Seq([key : Key, value : [configs : Seq(Config), best_idx : Nat]])
  BY <1>2, SeqMonotonic
<1> QED BY <1>1, <1>3, MarkersAssumption

\* The splices of two texts are lists of members too.
LEMMA SplicesTyped ==
  ASSUME NEW h \in Seq(Members), NEW t \in Seq(Members) PROVE Splices(h, t) \subseteq Seq(Members)
<1> DEFINE spliced(i, j) ==
             SubSeq(h, 1, i - 1) \o <<[h[i] EXCEPT !.value.configs = t[j].value.configs]>>
               \o SubSeq(t, j + 1, Len(t))
<1>0. Splices(h, t) = {spliced(i, j) : i \in 1..Len(h), j \in 1..Len(t)}
  BY DEF Splices
<1> SUFFICES ASSUME NEW i \in 1..Len(h), NEW j \in 1..Len(t) PROVE spliced(i, j) \in Seq(Members)
  <2> HIDE DEF spliced
  <2> QED BY <1>0
<1> DEFINE m == [h[i] EXCEPT !.value.configs = t[j].value.configs]
<1>1. h[i] \in Members /\ t[j] \in Members
  BY ElementOfSeq
<1>2. h[i].value \in Value /\ t[j].value \in Value
  BY <1>1 DEF Members
<1>3. [h[i].value EXCEPT !.configs = t[j].value.configs] \in Value
  BY <1>2 DEF Value
<1>4. m \in Members
  BY <1>1, <1>3 DEF Members
<1> HIDE DEF m
<1>5. SubSeq(h, 1, i - 1) \in Seq(Members)
  BY SubSeqProperties
<1>6. SubSeq(t, j + 1, Len(t)) \in Seq(Members)
  BY SubSeqProperties
<1>7. <<m>> \in Seq(Members)
  BY <1>4
<1> DEFINE a == SubSeq(h, 1, i - 1)
           b == <<m>>
           c == SubSeq(t, j + 1, Len(t))
<1>8. a \in Seq(Members) /\ b \in Seq(Members) /\ c \in Seq(Members)
  BY <1>5, <1>6, <1>7
<1> HIDE DEF a, b, c
<1>9. a \o b \o c \in Seq(Members)
  BY <1>8
<1> QED BY <1>9 DEF a, b, c, m

\* Whatever is read holds members.
LEMMA ReadTyped ==
  ASSUME NEW h \in Text, NEW t \in Text, NEW members \in load_cache(h, t)
  PROVE  members \in Seq(Members)
<1>1. <<>> \in Seq(Members)
  OBVIOUS
<1>2. CASE None \in {h, t}
  BY <1>1, <1>2 DEF load_cache
<1>3. CASE None \notin {h, t} /\ h = t
  BY <1>3 DEF load_cache, Text
<1>4. CASE None \notin {h, t} /\ h # t
  <2>1. h \in Seq(Members) /\ t \in Seq(Members)
    BY <1>4 DEF Text
  <2> QED BY <1>1, <1>4, <2>1, SplicesTyped DEF load_cache
<1> QED BY <1>2, <1>3, <1>4

\* What a process finds in the file it reads.
LEMMA ReadingsTyped ==
  ASSUME CacheTypes, NEW p \in Process, NEW members \in Readings(p)
  PROVE  members \in Seq(Members)
<1>1. root[p] \in Text /\ TailOf(fd[p]) \in Text
  BY DEF CacheTypes, TailOf, Text
<1> QED BY <1>1, ReadTyped DEF Readings

\* What a hit leaves in the entry it fills.
Filled(hit) ==
  [fingerprint |-> Blank, best_idx |-> hit.best_idx,
   configs |-> SubSeq(hit.configs, 1,
                 IF Len(hit.configs) < MaxConfigs THEN Len(hit.configs) ELSE MaxConfigs)]

\* A hit fits into the array of the entry that receives it.
LEMMA FilledTyped ==
  ASSUME NEW hit \in Value PROVE Filled(hit) \in Entry /\ ValueOf(Filled(hit)) = hit
<1> DEFINE kept == IF Len(hit.configs) < MaxConfigs THEN Len(hit.configs) ELSE MaxConfigs
<1>1. SubSeq(hit.configs, 1, kept) = hit.configs
  <2>1. hit.configs \in Seq(Config) /\ kept = Len(hit.configs)
    BY BoundsAssumption DEF Value
  <2> HIDE DEF kept
  <2> QED BY <2>1, SubSeqFull
<1>2. hit = [configs |-> hit.configs, best_idx |-> hit.best_idx]
  BY DEF Value
<1>3. Filled(hit) = [fingerprint |-> Blank, best_idx |-> hit.best_idx, configs |-> hit.configs]
  BY <1>1 DEF Filled
<1> QED BY <1>2, <1>3 DEF Entry, ValueOf, Names, Value

\* The rest of a load, with its entry named.
LEMMA LoadTailFills ==
  ASSUME NEW p \in Process, NEW f \in Fingerprint, LoadTail(p, f)
  PROVE  \E members \in Readings(p) :
           \/ UNCHANGED caller
           \/ /\ GetObjectItem(members, lembed_tune_cache_key(f)) # None
              /\ entry' = [entry EXCEPT ![p] =
                   Filled(GetObjectItem(members, lembed_tune_cache_key(f)))]
              /\ loaded' = [loaded EXCEPT ![p] = lembed_tune_cache_key(f)]
BY DEF LoadTail, Filled

-----------------------------------------------------------------------------
\* There is no file and nothing was saved.
LEMMA TypesInit == Init => CacheTypes
<1> SUFFICES ASSUME Init PROVE CacheTypes
  OBVIOUS
<1>1. \A f \in Fingerprint : NewEntry(f) \in Entry
  BY NewEntryTyped
<1>2. entry \in [Process -> Entry]
  BY <1>1 DEF Init
<1> QED BY <1>2 DEF Init, CacheTypes, Text, Progress

\* The types, through every step of every process.
LEMMA TypesNext == CacheTypes /\ [Next]_vars => CacheTypes'
<1> SUFFICES ASSUME CacheTypes, [Next]_vars PROVE CacheTypes'
  OBVIOUS
<1> USE DEF CacheTypes
<1>0. None \in Text
  BY DEF Text
<1>1. ASSUME NEW p \in Process, NEW f \in Fingerprint, Start(p, f) PROVE CacheTypes'
  BY <1>1, NewEntryTyped DEF Start, files, calls, history
<1>2. ASSUME NEW p \in Process, NEW c \in Config, AddConfig(p, c) PROVE CacheTypes'
  <2>1. lembed_tune_cache_add_config(entry[p], c) \in Entry
    BY AddConfigTyped
  <2> QED BY <1>2, <2>1 DEF AddConfig, files, calls, history
<1>3. ASSUME NEW p \in Process, NEW idx \in Int, SetBest(p, idx) PROVE CacheTypes'
  <2>1. lembed_tune_cache_set_best(entry[p], idx) \in Entry
    BY SetBestTyped
  <2> QED BY <1>3, <2>1 DEF SetBest, files, calls, history
<1>4. ASSUME NEW p \in Process, LoadHead(p) PROVE CacheTypes'
  <2>1. HeadOf(path) \in Text
    BY <1>0 DEF HeadOf
  <2> QED BY <1>4, <2>1 DEF LoadHead, ReadHead, files, caller, history, Progress
<1>5. ASSUME NEW p \in Process, NEW f \in Fingerprint, LoadTail(p, f) PROVE CacheTypes'
  <2> DEFINE key == lembed_tune_cache_key(f)
  <2>1. PICK members \in Readings(p) :
          \/ UNCHANGED caller
          \/ /\ GetObjectItem(members, key) # None
             /\ entry' = [entry EXCEPT ![p] = Filled(GetObjectItem(members, key))]
             /\ loaded' = [loaded EXCEPT ![p] = key]
    BY <1>5, LoadTailFills
  <2>2. key \in Key /\ members \in Seq(Members)
    BY ReadingsTyped DEF Key
  <2> DEFINE hit == GetObjectItem(members, key)
  <2>3. hit # None => Filled(hit) \in Entry
    BY <2>2, HitIsMember, FilledTyped
  <2>4. \/ entry' = entry /\ loaded' = loaded
        \/ /\ hit # None
           /\ entry' = [entry EXCEPT ![p] = Filled(hit)] /\ loaded' = [loaded EXCEPT ![p] = key]
    BY <2>1 DEF caller
  <2> HIDE DEF key, hit
  <2>5. entry' \in [Process -> Entry] /\ loaded' \in [Process -> Key \union {None}]
    BY <2>2, <2>3, <2>4
  <2> QED BY <1>0, <1>5, <2>5 DEF LoadTail, files, history, Progress
<1>6. ASSUME NEW p \in Process, SaveHead(p) PROVE CacheTypes'
  <2>1. HeadOf(path) \in Text
    BY <1>0 DEF HeadOf
  <2>2. Member(entry[p]) \in Members
    BY MemberTyped
  <2>3. given' \in SUBSET Members /\ disturbed' \in BOOLEAN
    BY <1>6, <2>2 DEF SaveHead
  <2>4. root' \in [Process -> Text] /\ fd' \in [Process -> Inode \union {None}]
        /\ pc' \in [Process -> Progress]
    BY <1>6, <2>1 DEF SaveHead, ReadHead, Progress
  <2> QED BY <1>6, <2>3, <2>4 DEF SaveHead, files, caller
<1>7. ASSUME NEW p \in Process, SaveTail(p) PROVE CacheTypes'
  <2>1. PICK members \in Readings(p) : root' = [root EXCEPT ![p] = WithMember(members, p)]
    BY <1>7 DEF SaveTail
  <2>2. WithMember(members, p) \in Text
    BY MemberTyped, ReadingsTyped, AppendProperties DEF WithMember, Text
  <2> QED BY <1>7, <2>1, <2>2 DEF SaveTail, files, caller, history, Progress
<1>8. ASSUME NEW p \in Process, SaveOpen(p) PROVE CacheTypes'
  BY <1>0, <1>8 DEF SaveOpen, caller, Progress
<1>9. ASSUME NEW p \in Process, SaveRefused(p) PROVE CacheTypes'
  BY <1>0, <1>9 DEF SaveRefused, files, caller, Progress
<1>10. ASSUME NEW p \in Process, NEW part, Written(p, part)
       PROVE  disk' \in [Inode -> [head : Text, tail : Text]] /\ disturbed' \in BOOLEAN /\ faults' \in Nat
  <2>1. disk' = disk \/ (fd[p] # None /\
          disk' = [disk EXCEPT ![fd[p]] = IF part = "head" THEN [disk[fd[p]] EXCEPT !.head = root[p]]
                                          ELSE [disk[fd[p]] EXCEPT !.tail = root[p]]])
    BY <1>10 DEF Written
  <2>2. \A i \in Inode : /\ [disk[i] EXCEPT !.head = root[p]] \in [head : Text, tail : Text]
                         /\ [disk[i] EXCEPT !.tail = root[p]] \in [head : Text, tail : Text]
    OBVIOUS
  <2>3. fd[p] # None => fd[p] \in Inode
    OBVIOUS
  <2>4. disk' \in [Inode -> [head : Text, tail : Text]]
    <3>1. CASE disk' = disk
      BY <3>1
    <3>2. CASE disk' # disk
      <4> DEFINE i == fd[p]
                 new == IF part = "head" THEN [disk[i] EXCEPT !.head = root[p]]
                        ELSE [disk[i] EXCEPT !.tail = root[p]]
      <4>1. i \in Inode /\ disk' = [disk EXCEPT ![i] = new] /\ new \in [head : Text, tail : Text]
        BY <2>1, <2>2, <2>3, <3>2
      <4> HIDE DEF i, new
      <4> QED BY <4>1
    <3> QED BY <3>1, <3>2
  <2>5. disturbed' \in BOOLEAN /\ faults' \in Nat
    <3>1. (disturbed' = disturbed /\ faults' = faults) \/ (disturbed' = TRUE /\ faults' = faults + 1)
      BY <1>10 DEF Written
    <3>2. faults + 1 \in Nat
      OBVIOUS
    <3> QED BY <3>1, <3>2
  <2> QED BY <2>4, <2>5
<1>11. ASSUME NEW p \in Process, SaveFwrite(p) PROVE CacheTypes'
  <2>1. disk' \in [Inode -> [head : Text, tail : Text]] /\ disturbed' \in BOOLEAN /\ faults' \in Nat
    BY <1>10, <1>11 DEF SaveFwrite
  <2> QED BY <1>11, <2>1 DEF SaveFwrite, caller, Progress
<1>12. ASSUME NEW p \in Process, SaveFclose(p) PROVE CacheTypes'
  <2> DEFINE m == Member(entry[p])
  <2>1. disk' \in [Inode -> [head : Text, tail : Text]] /\ disturbed' \in BOOLEAN /\ faults' \in Nat
    BY <1>10, <1>12 DEF SaveFclose
  <2>2. m \in Members
    BY MemberTyped
  <2>3. acked' = [acked EXCEPT ![m.key] = IF @ = None THEN m.value ELSE @]
    BY <1>12 DEF SaveFclose
  <2> HIDE DEF m
  <2>4. acked' \in [Key -> Value \union {None}]
    BY <2>2, <2>3 DEF Members
  <2> QED BY <1>0, <1>12, <2>1, <2>4 DEF SaveFclose, caller, Progress
<1>13. ASSUME NEW p \in Process, Clear(p) PROVE CacheTypes'
  BY <1>13 DEF Clear, caller, calls
<1>14. ASSUME NEW p \in Process, Crash(p) PROVE CacheTypes'
  <2>1. PICK f \in Fingerprint : entry' = [entry EXCEPT ![p] = NewEntry(f)]
    BY <1>14 DEF Crash
  <2>2. entry' \in [Process -> Entry]
    BY <2>1, NewEntryTyped
  <2>3. disturbed' \in BOOLEAN
    BY <1>14 DEF Crash, Writing
  <2> QED BY <1>0, <1>14, <2>2, <2>3 DEF Crash, files, Progress
<1>15. CASE UNCHANGED vars
  BY <1>15 DEF vars
<1>16. \A idx \in -1..MaxConfigs : idx \in Int
  OBVIOUS
<1> QED BY <1>1, <1>2, <1>3, <1>4, <1>5, <1>6, <1>7, <1>8, <1>9, <1>11, <1>12, <1>13, <1>14, <1>15, <1>16
    DEF Next

-----------------------------------------------------------------------------
(* Until a save opens a file that another process has open. *)

Given == Seq(given) \union {None}

\* Both parts of a file, if it has both, are of one text.
FileWhole(i) ==
  /\ disk[i].head \in Given /\ disk[i].tail \in Given
  /\ None \in {disk[i].head, disk[i].tail} \/ disk[i].head = disk[i].tail

\* A process that reads has the head of the file that is there, or none; one
\* that writes finds nothing in the parts that it has not written.
CallWhole(p) ==
  /\ root[p] \in Given
  /\ pc[p] = "reading" => Member(entry[p]) \in given
  /\ pc[p] \in {"idle", "read"} => fd[p] = None
  /\ pc[p] \in {"loading", "reading"} =>
       IF fd[p] = None THEN root[p] = None ELSE root[p] \in {None, disk[fd[p]].head}
  /\ Writing(p) /\ fd[p] # None => disk[fd[p]].tail = None
  /\ pc[p] = "opened" /\ fd[p] # None => disk[fd[p]].head = None
  /\ pc[p] = "written" /\ fd[p] # None => disk[fd[p]].head = root[p]

\* No two processes write one file.
OneWriter ==
  \A p, q \in Process : Writing(p) /\ Writing(q) /\ fd[p] # None /\ fd[p] = fd[q] => p = q

\* The entries of the callers, and the members given to a save.
EntriesHeld ==
  /\ \A m \in given : Held(m.value)
  /\ \A p \in Process : Held(ValueOf(entry[p]))

LoadsGiven ==
  \A p \in Process : loaded[p] # None =>
    [key |-> loaded[p], value |-> ValueOf(entry[p])] \in given

Whole ==
  ~mixed => /\ \A i \in Inode : FileWhole(i)
            /\ \A p \in Process : CallWhole(p)
            /\ OneWriter
            /\ EntriesHeld /\ LoadsGiven

CacheInv == CacheTypes /\ Whole

\* What is read then is what some save was to write, or nothing.
LEMMA ReadingsGiven ==
  ASSUME CacheInv, ~mixed, NEW p \in Process, pc[p] \in {"loading", "reading"},
         NEW members \in Readings(p)
  PROVE  members \in Seq(given)
<1>1. <<>> \in Seq(given)
  OBVIOUS
<1>2. CallWhole(p) /\ \A i \in Inode : FileWhole(i)
  BY DEF CacheInv, Whole
<1>3. CASE fd[p] = None \/ root[p] = None
  BY <1>1, <1>3 DEF Readings, load_cache, TailOf
<1>4. CASE fd[p] # None /\ root[p] # None
  <2>1. fd[p] \in Inode
    BY <1>4 DEF CacheInv, CacheTypes
  <2>2. root[p] = disk[fd[p]].head /\ root[p] \in Seq(given)
    BY <1>2, <1>4 DEF CallWhole, Given
  <2>3. disk[fd[p]].tail = None \/ disk[fd[p]].tail = root[p]
    BY <1>2, <1>4, <2>1, <2>2 DEF FileWhole
  <2> QED BY <1>1, <1>4, <2>2, <2>3 DEF Readings, load_cache, TailOf
<1> QED BY <1>3, <1>4

\* There is no file and nothing was saved.
LEMMA CacheInit == Init => CacheInv
<1> SUFFICES ASSUME Init PROVE Whole
  BY TypesInit DEF CacheInv
<1>1. \A p \in Process : Held(ValueOf(entry[p]))
  <2>1. \A f : Held(ValueOf(NewEntry(f)))
    BY DEF NewEntry, Held, ValueOf
  <2>2. \A p \in Process : \E f \in Fingerprint : entry[p] = NewEntry(f)
    BY DEF Init
  <2> QED BY <2>1, <2>2
<1>2. \A i \in Inode : FileWhole(i)
  BY DEF Init, FileWhole, Given
<1>3. \A p \in Process : CallWhole(p)
  BY DEF Init, CallWhole, Given, Writing
<1> QED BY <1>1, <1>2, <1>3 DEF Init, Whole, OneWriter, EntriesHeld, LoadsGiven, Writing

\* The caller changes its entry and forgets what it loaded before.
LEMMA WholeFill ==
  ASSUME CacheInv, NEW p \in Process, pc[p] = "idle", NEW e, entry' = [entry EXCEPT ![p] = e],
         Held(ValueOf(entry[p])) => Held(ValueOf(e)),
         loaded' = [loaded EXCEPT ![p] = None], UNCHANGED <<files, calls, history>>
  PROVE  Whole'
<1> SUFFICES ASSUME ~mixed PROVE Whole'
  BY DEF Whole, history
<1>1. /\ UNCHANGED <<path, disk, pc, root, fd, given, mixed>>
      /\ \A q \in Process : entry'[q] = IF q = p THEN e ELSE entry[q]
      /\ \A q \in Process : loaded'[q] = IF q = p THEN None ELSE loaded[q]
  BY DEF files, calls, history, CacheInv, CacheTypes
<1>2. EntriesHeld' /\ LoadsGiven'
  BY <1>1 DEF CacheInv, Whole, EntriesHeld, LoadsGiven
<1>3. \A q \in Process : CallWhole(q)'
  BY <1>1 DEF CacheInv, Whole, CallWhole, Given, Writing
<1> QED BY <1>1, <1>2, <1>3 DEF CacheInv, Whole, FileWhole, OneWriter, Given, Writing

\* A call that changes neither the files nor the entries, and of the other
\* processes' calls nothing.
LEMMA WholeCall ==
  ASSUME CacheInv, NEW p \in Process, UNCHANGED <<disk, caller, mixed>>,
         ~mixed => given \subseteq given' /\ (\A m \in given' : Held(m.value)) /\ CallWhole(p)',
         \A q \in Process : q # p => pc'[q] = pc[q] /\ root'[q] = root[q] /\ fd'[q] = fd[q],
         Writing(p)' => Writing(p) /\ fd'[p] \in {fd[p], None}
  PROVE  Whole'
<1> SUFFICES ASSUME ~mixed PROVE Whole'
  BY DEF Whole
<1>1. Given \subseteq Given'
  BY SeqMonotonic DEF Given
<1>2. \A i \in Inode : FileWhole(i)'
  BY <1>1 DEF FileWhole, CacheInv, Whole
<1>3. \A q \in Process : CallWhole(q)'
  BY <1>1 DEF CallWhole, CacheInv, Whole, Writing, caller
<1>4. OneWriter'
  BY DEF OneWriter, CacheInv, Whole, Writing
<1>5. EntriesHeld' /\ LoadsGiven'
  BY DEF EntriesHeld, LoadsGiven, CacheInv, Whole, caller
<1> QED BY <1>2, <1>3, <1>4, <1>5 DEF Whole

\* A process opens the file to read it.
LEMMA ReadWhole ==
  ASSUME CacheInv, ~mixed, NEW p \in Process, NEW next \in {"loading", "reading"},
         ReadHead(p, next), disk' = disk, given \subseteq given',
         next = "reading" => Member(entry'[p]) \in given'
  PROVE  CallWhole(p)'
<1>0. Member(entry[p])' = Member(entry'[p])
  BY DEF Member, lembed_tune_cache_key
<1>1. pc'[p] = next /\ fd'[p] = path /\ root'[p] = HeadOf(path)
  BY DEF ReadHead, CacheInv, CacheTypes
<1>2. Given \subseteq Given'
  BY SeqMonotonic DEF Given
<1>3. HeadOf(path) \in Given
  BY DEF HeadOf, CacheInv, CacheTypes, Whole, FileWhole, Given
<1> QED BY <1>0, <1>1, <1>2, <1>3 DEF CallWhole, HeadOf, Writing

\* A file that nobody else has open is truncated, or made.
LEMMA WholeOpen == ASSUME CacheInv, NEW p \in Process, SaveOpen(p) PROVE Whole'
<1> SUFFICES ASSUME ~mixed' PROVE Whole'
  BY DEF Whole
<1>1. PICK i \in Inode :
        /\ disk' = [disk EXCEPT ![i] = [head |-> None, tail |-> None]]
        /\ fd' = [fd EXCEPT ![p] = i]
        /\ mixed' = (mixed \/ \E q \in Others(p) : fd[q] = i)
  BY DEF SaveOpen
<1>2. /\ ~mixed /\ \A q \in Process : q # p => fd[q] # i
      /\ pc' = [pc EXCEPT ![p] = "opened"] /\ UNCHANGED <<entry, loaded, root, given>>
  BY <1>1 DEF SaveOpen, Others, caller
<1>3. disk'[i] = [head |-> None, tail |-> None] /\ \A j \in Inode : j # i => disk'[j] = disk[j]
  BY <1>1 DEF CacheInv, CacheTypes
<1>4. \A j \in Inode : FileWhole(j)'
  BY <1>2, <1>3 DEF CacheInv, Whole, FileWhole, Given
<1>5. pc'[p] = "opened" /\ fd'[p] = i
      /\ \A q \in Process : q # p => pc'[q] = pc[q] /\ fd'[q] = fd[q]
  BY <1>1, <1>2 DEF CacheInv, CacheTypes
<1>6. CallWhole(p)'
  BY <1>2, <1>3, <1>5 DEF CacheInv, Whole, CallWhole, Given, Writing
<1>7. ASSUME NEW q \in Process, q # p PROVE CallWhole(q)'
  <2>1. fd[q] # None => disk'[fd[q]] = disk[fd[q]]
    BY <1>2, <1>3, <1>7 DEF CacheInv, CacheTypes
  <2> QED BY <1>2, <1>5, <1>7, <2>1 DEF CacheInv, Whole, CallWhole, Given, Writing
<1>8. OneWriter'
  BY <1>2, <1>5 DEF CacheInv, Whole, OneWriter, Writing
<1>9. EntriesHeld' /\ LoadsGiven'
  BY <1>2 DEF CacheInv, Whole, EntriesHeld, LoadsGiven
<1> QED BY <1>4, <1>6, <1>7, <1>8, <1>9 DEF Whole

\* The writer of a file writes a part of it.
LEMMA WholeWrite ==
  ASSUME CacheInv, NEW p \in Process, SaveFwrite(p) \/ SaveFclose(p) PROVE Whole'
<1> SUFFICES ASSUME ~mixed PROVE Whole'
  BY DEF Whole, SaveFwrite, SaveFclose
<1>1. CallWhole(p) /\ OneWriter /\ Writing(p) /\ \A i \in Inode : FileWhole(i)
  BY DEF CacheInv, Whole, SaveFwrite, SaveFclose, Writing
<1>2. UNCHANGED <<entry, loaded, given, mixed>>
  BY DEF SaveFwrite, SaveFclose, caller
<1>3. EntriesHeld' /\ LoadsGiven'
  BY <1>2 DEF CacheInv, Whole, EntriesHeld, LoadsGiven
<1>4. \A q \in Process : q # p => pc'[q] = pc[q] /\ fd'[q] = fd[q] /\ root'[q] = root[q]
  BY DEF SaveFwrite, SaveFclose, CacheInv, CacheTypes
<1>5. CASE disk' = disk /\ fd'[p] = None
  <2>0. pc'[p] \in {"written", "idle"} /\ root'[p] \in {root[p], None}
    BY DEF SaveFwrite, SaveFclose, CacheInv, CacheTypes
  <2>1. CallWhole(p)'
    BY <1>1, <1>2, <1>5, <2>0 DEF CallWhole, Writing, Given
  <2>2. \A q \in Process : CallWhole(q)'
    BY <1>2, <1>4, <1>5, <2>1 DEF CallWhole, CacheInv, Whole, Writing, Given
  <2>4. OneWriter'
    BY <1>1, <1>4, <1>5 DEF OneWriter, Writing
  <2>5. \A i \in Inode : FileWhole(i)'
    BY <1>1, <1>2, <1>5 DEF FileWhole, Given
  <2> QED BY <1>3, <2>2, <2>4, <2>5 DEF Whole
<1>6. CASE fd[p] # None /\ UNCHANGED <<disturbed, faults>>
  <2>0. fd[p] # None
    BY <1>6
  <2> DEFINE i == fd[p]
  <2>1. i \in Inode
    BY <2>0 DEF CacheInv, CacheTypes
  <2>2. disk[i] \in [head : Text, tail : Text] /\ root[p] \in Given
    BY <1>1, <2>1 DEF CacheInv, CacheTypes, CallWhole
  <2>3. CASE SaveFwrite(p)
    <3>1. /\ disk' = [disk EXCEPT ![i] = [disk[i] EXCEPT !.head = root[p]]]
          /\ pc'[p] = "written" /\ fd'[p] = i /\ root'[p] = root[p]
      BY <1>6, <2>0, <2>3 DEF SaveFwrite, Written, CacheInv, CacheTypes, Writing
    <3> HIDE DEF i
    <3>2. disk'[i].head = root[p] /\ disk'[i].tail = disk[i].tail
      BY <2>1, <2>2, <3>1 DEF CacheInv, CacheTypes
    <3>3. disk[i].tail = None /\ disk[i].head = None
      BY <1>1, <2>0, <2>3 DEF CallWhole, SaveFwrite, i
    <3>4. \A j \in Inode : j # i => disk'[j] = disk[j]
      BY <3>1 DEF CacheInv, CacheTypes
    <3>5. \A j \in Inode : FileWhole(j)'
      BY <1>1, <1>2, <2>2, <3>2, <3>3, <3>4 DEF FileWhole, Given
    <3>6. CallWhole(p)'
      BY <1>2, <2>2, <3>1, <3>2, <3>3 DEF CallWhole, Given, Writing
    <3>7. ASSUME NEW q \in Process, q # p PROVE CallWhole(q)'
      <4>1. CallWhole(q) /\ fd[q] \in Inode \union {None} /\ fd[p] = i
        BY DEF CacheInv, Whole, CacheTypes, i
      <4>2. CASE fd[q] = i
        <5>1. ~Writing(q)
          BY <1>1, <2>0, <3>7, <4>1, <4>2 DEF OneWriter
        <5> QED BY <1>2, <1>4, <3>3, <3>7, <4>1, <4>2, <5>1 DEF CallWhole, Given, Writing
      <4>3. CASE fd[q] # i
        BY <1>2, <1>4, <3>4, <3>7, <4>1, <4>3 DEF CallWhole, Given, Writing
      <4> QED BY <4>2, <4>3
    <3>8. OneWriter'
      BY <1>1, <1>4, <3>1 DEF OneWriter, Writing, i
    <3> QED BY <1>3, <3>5, <3>6, <3>7, <3>8 DEF Whole
  <2>4. CASE SaveFclose(p)
    <3>1. /\ disk' = [disk EXCEPT ![i] = [disk[i] EXCEPT !.tail = root[p]]]
          /\ pc'[p] = "idle" /\ fd'[p] = None /\ root'[p] = None
      BY <1>6, <2>0, <2>4 DEF SaveFclose, Written, CacheInv, CacheTypes
    <3> HIDE DEF i
    <3>2. disk'[i].tail = root[p] /\ disk'[i].head = disk[i].head
      BY <2>1, <2>2, <3>1 DEF CacheInv, CacheTypes
    <3>3. disk[i].tail = None /\ disk[i].head = root[p]
      BY <1>1, <2>0, <2>4 DEF CallWhole, SaveFclose, i
    <3>4. \A j \in Inode : j # i => disk'[j] = disk[j]
      BY <3>1 DEF CacheInv, CacheTypes
    <3>5. \A j \in Inode : FileWhole(j)'
      BY <1>1, <1>2, <2>2, <3>2, <3>3, <3>4 DEF FileWhole, Given
    <3>6. CallWhole(p)'
      BY <1>2, <3>1 DEF CallWhole, Given, Writing
    <3>7. ASSUME NEW q \in Process, q # p PROVE CallWhole(q)'
      <4>1. CallWhole(q) /\ fd[q] \in Inode \union {None} /\ fd[p] = i
        BY DEF CacheInv, Whole, CacheTypes, i
      <4>2. CASE fd[q] = i
        <5>1. ~Writing(q)
          BY <1>1, <2>0, <3>7, <4>1, <4>2 DEF OneWriter
        <5> QED BY <1>2, <1>4, <3>2, <3>7, <4>1, <4>2, <5>1 DEF CallWhole, Given, Writing
      <4>3. CASE fd[q] # i
        BY <1>2, <1>4, <3>4, <3>7, <4>1, <4>3 DEF CallWhole, Given, Writing
      <4> QED BY <4>2, <4>3
    <3>8. OneWriter'
      BY <1>1, <1>4, <3>1 DEF OneWriter, Writing, i
    <3> QED BY <1>3, <3>5, <3>6, <3>7, <3>8 DEF Whole
  <2> QED BY <2>3, <2>4
<1>7. \/ fd[p] # None /\ UNCHANGED <<disturbed, faults>>
      \/ disk' = disk /\ fd'[p] = None
  BY DEF SaveFwrite, SaveFclose, Written, CacheInv, CacheTypes
<1> QED BY <1>5, <1>6, <1>7

\* A load through to its end.
LEMMA WholeLoad ==
  ASSUME CacheInv, NEW p \in Process, NEW f \in Fingerprint, LoadTail(p, f) PROVE Whole'
<1> SUFFICES ASSUME ~mixed PROVE Whole'
  BY DEF Whole, LoadTail, history
<1> DEFINE key == lembed_tune_cache_key(f)
<1>1. PICK members \in Readings(p) :
        \/ UNCHANGED caller
        \/ /\ GetObjectItem(members, key) # None
           /\ entry' = [entry EXCEPT ![p] = Filled(GetObjectItem(members, key))]
           /\ loaded' = [loaded EXCEPT ![p] = key]
  BY LoadTailFills
<1>2. /\ UNCHANGED <<disk, given, mixed>> /\ pc[p] = "loading"
      /\ pc'[p] = "idle" /\ fd'[p] = None /\ root'[p] = None
      /\ \A q \in Process : q # p => pc'[q] = pc[q] /\ root'[q] = root[q] /\ fd'[q] = fd[q]
  BY DEF LoadTail, files, history, CacheInv, CacheTypes
<1>3. members \in Seq(given)
  BY <1>2, ReadingsGiven
<1> DEFINE hit == GetObjectItem(members, key)
<1>4. hit # None => /\ hit \in Value /\ [key |-> key, value |-> hit] \in given
                    /\ ValueOf(Filled(hit)) = hit
  BY <1>3, HitIsMember, FilledTyped DEF CacheInv, CacheTypes
<1>5. \/ entry' = entry /\ loaded' = loaded
      \/ /\ hit # None
         /\ entry' = [entry EXCEPT ![p] = Filled(hit)] /\ loaded' = [loaded EXCEPT ![p] = key]
  BY <1>1 DEF caller
<1> HIDE DEF key, hit
<1>6. EntriesHeld' /\ LoadsGiven'
  <2>1. CASE entry' = entry /\ loaded' = loaded
    BY <1>2, <2>1 DEF CacheInv, Whole, EntriesHeld, LoadsGiven
  <2>2. CASE hit # None /\ entry' = [entry EXCEPT ![p] = Filled(hit)]
             /\ loaded' = [loaded EXCEPT ![p] = key]
    <3>1. Held(hit)
      <4>1. [key |-> key, value |-> hit].value = hit
        OBVIOUS
      <4> QED BY <1>4, <2>2, <4>1 DEF CacheInv, Whole, EntriesHeld
    <3>2. /\ \A q \in Process : entry'[q] = IF q = p THEN Filled(hit) ELSE entry[q]
          /\ \A q \in Process : loaded'[q] = IF q = p THEN key ELSE loaded[q]
      BY <2>2 DEF CacheInv, CacheTypes
    <3> QED BY <1>2, <1>4, <2>2, <3>1, <3>2 DEF CacheInv, Whole, EntriesHeld, LoadsGiven
  <2> QED BY <1>5, <2>1, <2>2
<1>7. \A i \in Inode : FileWhole(i)'
  BY <1>2 DEF CacheInv, Whole, FileWhole, Given
<1>8. \A q \in Process : CallWhole(q)'
  <2>1. \A q \in Process : q # p => entry'[q] = entry[q]
    BY <1>5 DEF CacheInv, CacheTypes
  <2> QED BY <1>2, <2>1 DEF CacheInv, Whole, CallWhole, Given, Writing
<1>9. OneWriter'
  BY <1>2 DEF CacheInv, Whole, OneWriter, Writing
<1> QED BY <1>6, <1>7, <1>8, <1>9 DEF Whole

\* The invariant is kept by every step of every process.
LEMMA CacheNext == CacheInv /\ [Next]_vars => CacheInv'
<1> SUFFICES ASSUME CacheInv, [Next]_vars PROVE Whole'
  BY TypesNext DEF CacheInv
<1>1. ASSUME NEW p \in Process, NEW f \in Fingerprint, Start(p, f) PROVE Whole'
  <2>1. Held(ValueOf(NewEntry(f)))
    BY DEF Held, ValueOf, NewEntry
  <2> QED BY <1>1, <2>1, WholeFill DEF Start
<1>2. ASSUME NEW p \in Process, NEW c \in Config, AddConfig(p, c) PROVE Whole'
  <2> DEFINE e == lembed_tune_cache_add_config(entry[p], c)
  <2>1. Held(ValueOf(entry[p])) => Held(ValueOf(e))
    BY AddConfigTyped DEF CacheInv, CacheTypes
  <2>2. entry' = [entry EXCEPT ![p] = e]
    BY <1>2 DEF AddConfig
  <2> HIDE DEF e
  <2> QED BY <1>2, <2>1, <2>2, WholeFill DEF AddConfig
<1>3. ASSUME NEW p \in Process, NEW idx \in Int, SetBest(p, idx) PROVE Whole'
  <2> DEFINE e == lembed_tune_cache_set_best(entry[p], idx)
  <2>1. Held(ValueOf(entry[p])) => Held(ValueOf(e))
    BY SetBestTyped DEF CacheInv, CacheTypes
  <2>2. entry' = [entry EXCEPT ![p] = e]
    BY <1>3 DEF SetBest
  <2> HIDE DEF e
  <2> QED BY <1>3, <2>1, <2>2, WholeFill DEF SetBest
<1>4. ASSUME NEW p \in Process, LoadHead(p) PROVE Whole'
  <2>1. ~mixed => CallWhole(p)'
    BY <1>4, ReadWhole DEF LoadHead, files, history
  <2>2. ~mixed => \A m \in given' : Held(m.value)
    BY <1>4 DEF LoadHead, history, CacheInv, Whole, EntriesHeld
  <2>3. \A q \in Process : q # p => pc'[q] = pc[q] /\ root'[q] = root[q] /\ fd'[q] = fd[q]
    BY <1>4 DEF LoadHead, ReadHead, CacheInv, CacheTypes
  <2>4. ~Writing(p)'
    BY <1>4 DEF LoadHead, ReadHead, CacheInv, CacheTypes, Writing
  <2> QED BY <1>4, <2>1, <2>2, <2>3, <2>4, WholeCall DEF LoadHead, files, history
<1>5. ASSUME NEW p \in Process, NEW f \in Fingerprint, LoadTail(p, f) PROVE Whole'
  BY <1>5, WholeLoad
<1>6. ASSUME NEW p \in Process, SaveHead(p) PROVE Whole'
  <2> DEFINE m == Member(entry[p])
  <2>1. given' = given \union {m} /\ UNCHANGED <<disk, caller, mixed>>
    BY <1>6 DEF SaveHead, files
  <2>2. ~mixed => Held(m.value)
    BY MemberTyped DEF CacheInv, CacheTypes, Whole, EntriesHeld
  <2> HIDE DEF m
  <2>3. ~mixed => given \subseteq given' /\ \A n \in given' : Held(n.value)
    BY <2>1, <2>2 DEF CacheInv, Whole, EntriesHeld
  <2>0. Member(entry'[p]) \in given'
    BY <1>6 DEF SaveHead, caller
  <2>4. ~mixed => CallWhole(p)'
    BY <1>6, <2>0, <2>1, ReadWhole DEF SaveHead
  <2>5. \A q \in Process : q # p => pc'[q] = pc[q] /\ root'[q] = root[q] /\ fd'[q] = fd[q]
    BY <1>6 DEF SaveHead, ReadHead, CacheInv, CacheTypes
  <2>6. ~Writing(p)'
    BY <1>6 DEF SaveHead, ReadHead, CacheInv, CacheTypes, Writing
  <2> QED BY <2>1, <2>3, <2>4, <2>5, <2>6, WholeCall
<1>7. ASSUME NEW p \in Process, SaveTail(p) PROVE Whole'
  <2>1. PICK members \in Readings(p) : root' = [root EXCEPT ![p] = WithMember(members, p)]
    BY <1>7 DEF SaveTail
  <2>2. ~mixed => \A n \in given : Held(n.value)
    BY DEF CacheInv, Whole, EntriesHeld
  <2>3. /\ UNCHANGED <<disk, caller, mixed, given>> /\ pc'[p] = "read" /\ fd'[p] = None
        /\ root'[p] = WithMember(members, p)
        /\ \A q \in Process : q # p => pc'[q] = pc[q] /\ root'[q] = root[q] /\ fd'[q] = fd[q]
    BY <1>7, <2>1 DEF SaveTail, files, history, CacheInv, CacheTypes
  <2>4. ~mixed => WithMember(members, p) \in Seq(given)
    <3>1. ~mixed => members \in Seq(given)
      BY <1>7, <2>1, ReadingsGiven DEF SaveTail
    <3>2. ~mixed => Member(entry[p]) \in given
      BY <1>7 DEF SaveTail, CacheInv, Whole, CallWhole
    <3> QED BY <3>1, <3>2, AppendProperties DEF WithMember
  <2>5. ~mixed => CallWhole(p)'
    BY <2>3, <2>4 DEF CallWhole, Given, Writing
  <2>6. ~Writing(p)'
    BY <2>3 DEF Writing
  <2> QED BY <2>2, <2>3, <2>5, <2>6, WholeCall
<1>8. ASSUME NEW p \in Process, SaveOpen(p) PROVE Whole'
  BY <1>8, WholeOpen
<1>9. ASSUME NEW p \in Process, SaveRefused(p) PROVE Whole'
  <2>1. ~mixed => \A n \in given : Held(n.value)
    BY DEF CacheInv, Whole, EntriesHeld
  <2>2. /\ UNCHANGED <<disk, caller, mixed, given>> /\ pc'[p] = "idle"
        /\ fd'[p] = fd[p] /\ root'[p] = None /\ pc[p] = "read"
        /\ \A q \in Process : q # p => pc'[q] = pc[q] /\ root'[q] = root[q] /\ fd'[q] = fd[q]
    BY <1>9 DEF SaveRefused, files, CacheInv, CacheTypes
  <2>3. ~mixed => CallWhole(p)'
    BY <2>2 DEF CacheInv, Whole, CallWhole, Given, Writing
  <2>4. ~Writing(p)'
    BY <2>2 DEF Writing
  <2> QED BY <2>1, <2>2, <2>3, <2>4, WholeCall
<1>10. ASSUME NEW p \in Process, SaveFwrite(p) \/ SaveFclose(p) PROVE Whole'
  BY <1>10, WholeWrite
<1>11. ASSUME NEW p \in Process, Clear(p) PROVE Whole'
  BY <1>11 DEF Clear, caller, calls, CacheInv, Whole, FileWhole, CallWhole, OneWriter,
     EntriesHeld, LoadsGiven, Given, Writing
<1>12. ASSUME NEW p \in Process, Crash(p) PROVE Whole'
  <2> SUFFICES ASSUME ~mixed PROVE Whole'
    BY <1>12 DEF Whole, Crash
  <2>1. PICK f \in Fingerprint : entry' = [entry EXCEPT ![p] = NewEntry(f)]
    BY <1>12 DEF Crash
  <2>2. /\ \A q \in Process : entry'[q] = IF q = p THEN NewEntry(f) ELSE entry[q]
        /\ \A q \in Process : loaded'[q] = IF q = p THEN None ELSE loaded[q]
        /\ UNCHANGED <<disk, given, mixed>>
        /\ pc'[p] = "idle" /\ fd'[p] = None /\ root'[p] = None
        /\ \A q \in Process : q # p => pc'[q] = pc[q] /\ root'[q] = root[q] /\ fd'[q] = fd[q]
    BY <1>12, <2>1 DEF Crash, files, CacheInv, CacheTypes
  <2>3. Held(ValueOf(NewEntry(f)))
    BY DEF Held, ValueOf, NewEntry
  <2>4. EntriesHeld' /\ LoadsGiven'
    BY <2>2, <2>3 DEF CacheInv, Whole, EntriesHeld, LoadsGiven
  <2>5. \A q \in Process : CallWhole(q)'
    BY <2>2 DEF CacheInv, Whole, CallWhole, Given, Writing
  <2>6. OneWriter' /\ \A i \in Inode : FileWhole(i)'
    BY <2>2 DEF CacheInv, Whole, OneWriter, FileWhole, Given, Writing
  <2> QED BY <2>4, <2>5, <2>6 DEF Whole
<1>13. CASE UNCHANGED vars
  BY <1>13 DEF vars, CacheInv, Whole, FileWhole, CallWhole, OneWriter, EntriesHeld, LoadsGiven,
     Given, Writing
<1>14. \A idx \in -1..MaxConfigs : idx \in Int
  OBVIOUS
<1> QED BY <1>1, <1>2, <1>3, <1>4, <1>5, <1>6, <1>7, <1>8, <1>9, <1>10, <1>11, <1>12, <1>13, <1>14
    DEF Next

\* What lembed_tune_cache_load answers was saved as a whole under the key asked
\* for, whatever saves overlap, break off or are cut short by a crash, until a
\* save opens a file that another process has open.
THEOREM HitsWereSaved == Spec => []HitWasSaved
<1>1. CacheInv => HitWasSaved
  BY DEF CacheInv, Whole, HitWasSaved, LoadsGiven, ValueOf
<1> QED BY <1>1, CacheInit, CacheNext, PTL DEF Spec

\* The best index of an entry is that of a configuration it holds, through
\* add_config at the limit of the array, set_best with any index, saves, loads
\* that take the index as it is, and saves of loaded entries, until a save
\* opens a file that another process has open.
THEOREM BestAlwaysHeld == Spec => []BestIsHeld
<1>1. CacheInv => BestIsHeld
  <2> SUFFICES ASSUME CacheInv, ~mixed, NEW p \in Process, entry[p].configs # <<>>
               PROVE  entry[p].best_idx \in 0..Len(entry[p].configs) - 1
    BY DEF BestIsHeld
  <2> DEFINE configs == entry[p].configs
             best == entry[p].best_idx
  <2>1. configs \in Seq(Config) /\ best \in Nat /\ (best = 0 \/ best < Len(configs))
    BY DEF CacheInv, CacheTypes, Whole, EntriesHeld, Entry, Held, ValueOf
  <2> HIDE DEF configs, best
  <2>2. Len(configs) \in Nat /\ Len(configs) > 0
    BY <2>1, EmptySeq DEF configs
  <2> QED BY <2>1, <2>2 DEF configs, best
<1> QED BY <1>1, CacheInit, CacheNext, PTL DEF Spec

-----------------------------------------------------------------------------
(* The file while saves neither overlap nor break off. *)

\* What a lookup in the file will answer once the save of p is through.
AfterSave(p, k) ==
  LET m == Member(entry[p])
  IN  IF acked[k] # None THEN acked[k] ELSE IF m.key = k THEN m.value ELSE None

\* The file answers for every key what was saved first under it.
Exact ==
  \A members \in load_cache(HeadOf(path), TailOf(path)), k \in Key :
    GetObjectItem(members, k) = acked[k]

\* What the save of p will write is that and its own member.
Prepared(p) == root[p] # None /\ \A k \in Key : GetObjectItem(root[p], k) = AfterSave(p, k)

\* One process saves at a time, and has the file that the path leads to.
Alone ==
  ~disturbed =>
    /\ \A p, q \in Process : Saving(p) /\ Saving(q) => p = q
    /\ \A p \in Process : pc[p] = "reading" => fd[p] = path /\ root[p] = HeadOf(path)
    /\ \A p \in Process : pc[p] = "read" \/ Writing(p) => Prepared(p)
    /\ \A p \in Process : Writing(p) => path # None /\ fd[p] = path
    /\ \A p \in Process : pc[p] = "written" => disk[path].head = root[p]
    /\ (\A p \in Process : ~Writing(p)) => Exact

\* A set of natural numbers has a least element.
LEMMA LeastElement ==
  ASSUME NEW T \in SUBSET Nat, T # {}
  PROVE  \E m \in T : \A k \in T : m <= k
<1> DEFINE Below == {0..x : x \in T}
           R == StrictSubsetOrdering(Nat)
<1>1. Below \subseteq FiniteSubsetsOf(Nat)
  <2> SUFFICES ASSUME NEW x \in T PROVE 0..x \in FiniteSubsetsOf(Nat)
    OBVIOUS
  <2>1. x \in Int /\ 0 \in Int /\ 0..x \subseteq Nat
    OBVIOUS
  <2>2. IsFiniteSet(0..x)
    BY <2>1, FS_Interval
  <2> QED BY <2>1, <2>2 DEF FiniteSubsetsOf
<1>2. Below # {}
  OBVIOUS
<1>3. IsWellFoundedOn(R, FiniteSubsetsOf(Nat))
  BY FS_StrictSubsetOrderingWellFounded
<1> HIDE DEF Below, R
<1>4. PICK X \in Below : \A Y \in Below : ~(<<Y, X>> \in R)
  BY <1>1, <1>2, <1>3, WFMin
<1>5. PICK m \in T : X = 0..m
  BY DEF Below
<1>6. ASSUME NEW k \in T, k < m PROVE FALSE
  <2>1. 0..k \in Below
    BY DEF Below
  <2>2. 0..k \subseteq 0..m /\ 0..k # 0..m /\ 0..m \subseteq Nat
    <3>1. k \in Nat /\ m \in Nat
      OBVIOUS
    <3>2. m \in 0..m /\ m \notin 0..k
      BY <1>6, <3>1
    <3> QED BY <1>6, <3>1, <3>2
  <2>3. <<0..k, 0..m>> \in R
    BY <2>2 DEF R, StrictSubsetOrdering
  <2> QED BY <1>4, <1>5, <2>1, <2>3
<1>7. \A k \in T : m <= k
  BY <1>6
<1> QED BY <1>7

\* There is no member of that name, or i is the first and the one found.
Lacks(s, key) == \A i \in 1..Len(s) : s[i].key # key

FoundAt(s, key, i) ==
  /\ s[i].key = key
  /\ \A j \in 1..(i - 1) : s[j].key # key
  /\ GetObjectItem(s, key) = s[i].value

\* What cJSON_GetObjectItem finds: the first member of that name, or none.
LEMMA ItemFound ==
  ASSUME NEW s \in Seq(Members), NEW key
  PROVE  IF Lacks(s, key) THEN GetObjectItem(s, key) = None
         ELSE \E i \in 1..Len(s) : FoundAt(s, key, i)
<1> DEFINE Named == {i \in 1..Len(s) : s[i].key = key}
           first == {i \in 1..Len(s) : s[i].key = key /\ \A j \in 1..(i - 1) : s[j].key # key}
<1>1. Len(s) \in Nat
  OBVIOUS
<1>2. CASE Named = {}
  BY <1>2 DEF GetObjectItem, Lacks
<1>3. CASE Named # {}
  <2>1. Named \in SUBSET Nat
    BY <1>1
  <2>2. PICK m \in Named : \A k \in Named : m <= k
    BY <1>3, <2>1, LeastElement
  <2>3. \A j \in 1..(m - 1) : j \in 1..Len(s) /\ ~(m <= j)
    BY <1>1, <2>2
  <2>4. m \in first
    BY <2>2, <2>3
  <2>5. PICK i \in first : GetObjectItem(s, key) = s[i].value
    BY <2>4 DEF GetObjectItem
  <2>6. FoundAt(s, key, i) /\ i \in 1..Len(s)
    BY <2>5 DEF FoundAt
  <2>7. ~Lacks(s, key)
    BY <2>6 DEF Lacks, FoundAt
  <2> QED BY <2>6, <2>7
<1> QED BY <1>2, <1>3

\* A member added at the end is found exactly when there was none of its name.
LEMMA ItemOfAppended ==
  ASSUME NEW s \in Seq(Members), NEW m \in Members, NEW key
  PROVE  GetObjectItem(Append(s, m), key) =
           IF GetObjectItem(s, key) # None THEN GetObjectItem(s, key)
           ELSE IF m.key = key THEN m.value ELSE None
<1> DEFINE t == Append(s, m)
           n == Len(s)
<1>1. /\ n \in Nat /\ t \in Seq(Members) /\ Len(t) = n + 1
      /\ \A i \in 1..(n + 1) : t[i] = IF i = n + 1 THEN m ELSE s[i]
  OBVIOUS
<1> HIDE DEF t, n
<1>0. n \in Nat /\ Len(t) = n + 1
  BY <1>1
<1>2. CASE Lacks(s, key)
  <2>1. GetObjectItem(s, key) = None
    BY <1>2, ItemFound
  <2>2. CASE m.key = key
    <3>1. t[n + 1] = m /\ n + 1 \in 1..Len(t)
      BY <1>1
    <3>2. ~Lacks(t, key)
      BY <2>2, <3>1 DEF Lacks
    <3>3. PICK i \in 1..Len(t) : FoundAt(t, key, i)
      BY <1>1, <3>2, ItemFound
    <3>4. i = n + 1
      BY <1>1, <1>2, <3>3 DEF FoundAt, Lacks, n
    <3>5. GetObjectItem(t, key) = m.value
      BY <3>1, <3>3, <3>4 DEF FoundAt
    <3> QED BY <2>1, <2>2, <3>5 DEF t
  <2>3. CASE m.key # key
    <3>1. Lacks(t, key)
      BY <1>1, <1>2, <2>3 DEF Lacks, n
    <3>2. GetObjectItem(t, key) = None
      BY <1>1, <3>1, ItemFound
    <3> QED BY <2>1, <2>3, <3>2 DEF t
  <2> QED BY <2>2, <2>3
<1>3. CASE ~Lacks(s, key)
  <2>0. PICK i \in 1..Len(s) : FoundAt(s, key, i)
    BY <1>3, ItemFound
  <2>1. /\ i \in 1..n /\ s[i].key = key /\ \A j \in 1..(i - 1) : s[j].key # key
        /\ GetObjectItem(s, key) = s[i].value
    BY <2>0 DEF FoundAt, n
  <2>2. t[i] = s[i]
    <3>1. i \in 1..(n + 1) /\ i # n + 1
      BY <1>1, <2>1
    <3> QED BY <1>1, <3>1
  <2>3. PICK k \in 1..Len(t) : /\ t[k].key = key /\ \A j \in 1..(k - 1) : t[j].key # key
                               /\ GetObjectItem(t, key) = t[k].value
    <3>1. i \in 1..Len(t) /\ t[i].key = key
      <4>1. i \in 1..(n + 1)
        BY <1>1, <2>1
      <4> QED BY <1>1, <2>1, <2>2, <4>1
    <3>2. ~Lacks(t, key)
      BY <3>1 DEF Lacks
    <3>3. PICK k \in 1..Len(t) : FoundAt(t, key, k)
      BY <1>1, <3>2, ItemFound
    <3> QED BY <3>3 DEF FoundAt
  <2>4. k = i
    <3>1. CASE k < i
      <4>0. k \in 1..(i - 1) /\ k \in 1..(n + 1) /\ k # n + 1
        BY <1>0, <2>1, <3>1
      <4>1. k \in 1..(i - 1) /\ t[k] = s[k]
        BY <1>1, <4>0
      <4>2. s[k].key # key
        BY <2>1, <4>1
      <4>3. t[k].key = key
        BY <2>3
      <4> QED BY <4>1, <4>2, <4>3
    <3>2. CASE i < k
      <4>1. i \in 1..(k - 1)
        BY <1>0, <2>1, <3>2
      <4>2. t[i].key # key
        BY <2>3, <4>1
      <4>3. t[i].key = key
        BY <2>1, <2>2
      <4> QED BY <4>2, <4>3
    <3> QED BY <1>0, <2>1, <3>1, <3>2
  <2>5. s[i].value # None
    <3>1. s[i] \in Members
      BY ElementOfSeq DEF n
    <3> QED BY <3>1, MarkersAssumption DEF Members, Value
  <2> QED BY <2>1, <2>2, <2>3, <2>4, <2>5 DEF t
<1> QED BY <1>2, <1>3

ExactInv == CacheTypes /\ Alone

\* There is no file and nobody saves.
LEMMA ExactInit == Init => ExactInv
<1> SUFFICES ASSUME Init PROVE Alone
  BY TypesInit DEF ExactInv
<1>1. Exact
  BY DEF Init, Exact, HeadOf, load_cache, GetObjectItem
<1> QED BY <1>1 DEF Init, Alone, Saving, Writing

\* What a process does that is not saving concerns no save.
LEMMA AloneAside ==
  ASSUME ExactInv, NEW p \in Process, ~Saving(p), ~Saving(p)',
         UNCHANGED <<path, disk, acked, disturbed>>,
         \A q \in Process : q # p => entry'[q] = entry[q] /\ pc'[q] = pc[q]
                                     /\ root'[q] = root[q] /\ fd'[q] = fd[q]
  PROVE  Alone'
<1> SUFFICES ASSUME ~disturbed PROVE Alone'
  BY DEF Alone
<1>1. \A q \in Process : Saving(q)' => q # p
  OBVIOUS
<1>2. \A q \in Process : q # p => (Saving(q)' <=> Saving(q)) /\ (Writing(q)' <=> Writing(q))
  BY DEF Saving, Writing
<1>3. ~Writing(p) /\ ~Writing(p)' /\ pc'[p] \notin {"reading", "read", "written"}
  BY DEF Saving, Writing
<1>4. Exact => Exact'
  BY DEF Exact, HeadOf, TailOf
<1>5. \A q \in Process : q # p /\ Prepared(q) => Prepared(q)'
  BY DEF Prepared, AfterSave, Member, lembed_tune_cache_key
<1>6. HeadOf(path)' = HeadOf(path)
  BY DEF HeadOf
<1> QED BY <1>1, <1>2, <1>3, <1>4, <1>5, <1>6 DEF ExactInv, Alone

\* A save begins, and no other is under way.
LEMMA AloneSaveHead == ASSUME ExactInv, NEW p \in Process, SaveHead(p) PROVE Alone'
<1> SUFFICES ASSUME ~disturbed' PROVE Alone'
  BY DEF Alone
<1>1. ~disturbed /\ \A q \in Process : q # p => ~Saving(q)
  BY DEF SaveHead, Others
<1>2. /\ pc'[p] = "reading" /\ fd'[p] = path /\ root'[p] = HeadOf(path) /\ pc[p] = "idle"
      /\ \A q \in Process : q # p => pc'[q] = pc[q]
      /\ UNCHANGED <<path, disk, acked>>
  BY DEF SaveHead, ReadHead, files, ExactInv, CacheTypes
<1>3. \A q \in Process : ~Writing(q) /\ ~Writing(q)' /\ (q # p => ~Saving(q)')
  BY <1>1, <1>2 DEF Saving, Writing
<1>4. Exact'
  BY <1>1, <1>2, <1>3 DEF ExactInv, Alone, Exact, HeadOf, TailOf
<1>5. HeadOf(path)' = HeadOf(path)
  BY <1>2 DEF HeadOf
<1>6. \A q \in Process : q # p => pc'[q] \notin {"reading", "read", "written"}
  BY <1>3 DEF Saving, Writing
<1> QED BY <1>2, <1>3, <1>4, <1>5, <1>6 DEF Alone

\* What it will write is what it has read and its member.
LEMMA AloneSaveTail == ASSUME ExactInv, NEW p \in Process, SaveTail(p) PROVE Alone'
<1> SUFFICES ASSUME ~disturbed' PROVE Alone'
  BY DEF Alone
<1> DEFINE m == Member(entry[p])
<1>1. PICK members \in Readings(p) : root' = [root EXCEPT ![p] = WithMember(members, p)]
  BY DEF SaveTail
<1>2. /\ ~disturbed /\ pc[p] = "reading" /\ pc'[p] = "read"
      /\ \A q \in Process : q # p => pc'[q] = pc[q]
      /\ UNCHANGED <<path, disk, entry, acked>>
      /\ root'[p] = Append(members, m)
  BY <1>1 DEF SaveTail, files, caller, history, WithMember, ExactInv, CacheTypes
<1>3. \A q \in Process : q # p => ~Saving(q)
  BY <1>2 DEF ExactInv, Alone, Saving
<1>4. \A q \in Process : ~Writing(q) /\ ~Writing(q)' /\ (q # p => ~Saving(q)')
  BY <1>2, <1>3 DEF Saving, Writing
<1>5. members \in load_cache(HeadOf(path), TailOf(path)) /\ Exact
  BY <1>2, <1>4 DEF ExactInv, Alone, Readings
<1>6. \A k \in Key : GetObjectItem(members, k) = acked[k]
  BY <1>5 DEF Exact
<1>7. members \in Seq(Members) /\ m \in Members
  BY ReadingsTyped, MemberTyped DEF ExactInv, CacheTypes
<1>8. \A k \in Key : AfterSave(p, k)' =
        IF acked[k] # None THEN acked[k] ELSE IF m.key = k THEN m.value ELSE None
  BY <1>2 DEF AfterSave, Member, lembed_tune_cache_key
<1>9. Exact'
  BY <1>2, <1>5 DEF Exact, HeadOf, TailOf
<1> HIDE DEF m
<1>10. \A k \in Key : GetObjectItem(root'[p], k) = AfterSave(p, k)'
  BY <1>2, <1>6, <1>7, <1>8, ItemOfAppended
<1>11. root'[p] # None
  BY <1>2, <1>7, MarkersApart, AppendProperties
<1>12. Prepared(p)'
  BY <1>10, <1>11 DEF Prepared
<1>13. \A q \in Process : q # p => pc'[q] \notin {"reading", "read", "written"}
  BY <1>4 DEF Saving, Writing
<1> QED BY <1>2, <1>4, <1>9, <1>12, <1>13 DEF Alone

\* The file is cut off: the save that did it is the only one.
LEMMA AloneSaveOpen == ASSUME ExactInv, NEW p \in Process, SaveOpen(p) PROVE Alone'
<1> SUFFICES ASSUME ~disturbed' PROVE Alone'
  BY DEF Alone
<1>1. PICK i \in Inode : path' = i /\ fd' = [fd EXCEPT ![p] = i]
  BY DEF SaveOpen
<1>2. /\ ~disturbed /\ pc[p] = "read" /\ pc'[p] = "opened" /\ fd'[p] = i
      /\ \A q \in Process : q # p => pc'[q] = pc[q]
      /\ UNCHANGED <<entry, root, acked>>
  BY <1>1 DEF SaveOpen, caller, ExactInv, CacheTypes
<1>3. \A q \in Process : q # p => ~Saving(q)
  BY <1>2 DEF ExactInv, Alone, Saving
<1>4. \A q \in Process : q # p => ~Saving(q)' /\ ~Writing(q)'
  BY <1>2, <1>3 DEF Saving, Writing
<1>5. Prepared(p)'
  BY <1>2 DEF ExactInv, Alone, Prepared, AfterSave, Member, lembed_tune_cache_key
<1>6. path' # None /\ Writing(p)'
  BY <1>1, <1>2, BoundsAssumption DEF Writing
<1>7. \A q \in Process : q # p => pc'[q] \notin {"reading", "read", "written"}
  BY <1>4 DEF Saving, Writing
<1> QED BY <1>1, <1>2, <1>4, <1>5, <1>6, <1>7 DEF Alone

\* The head of the file is written, by the process that truncated it.
LEMMA AloneSaveFwrite == ASSUME ExactInv, NEW p \in Process, SaveFwrite(p) PROVE Alone'
<1> SUFFICES ASSUME ~disturbed' PROVE Alone'
  BY DEF Alone
<1>1. /\ UNCHANGED <<disturbed, faults>> /\ pc[p] = "opened" /\ pc'[p] = "written"
      /\ \A q \in Process : q # p => pc'[q] = pc[q]
      /\ UNCHANGED <<path, entry, root, acked>>
  BY DEF SaveFwrite, Written, caller, ExactInv, CacheTypes
<1>2. /\ fd[p] = path /\ path # None /\ Prepared(p)
      /\ \A q \in Process : q # p => ~Saving(q)
  BY <1>1 DEF ExactInv, Alone, Saving, Writing
<1>3. fd'[p] = path /\ path \in Inode
  BY <1>1, <1>2 DEF SaveFwrite, ExactInv, CacheTypes
<1>4. disk' = [disk EXCEPT ![path] = [disk[path] EXCEPT !.head = root[p]]]
  BY <1>1, <1>2 DEF SaveFwrite, Written
<1>5. disk'[path].head = root[p]
  BY <1>3, <1>4 DEF ExactInv, CacheTypes
<1>6. \A q \in Process : q # p => ~Saving(q)' /\ ~Writing(q)'
  BY <1>1, <1>2 DEF Saving, Writing
<1>7. Prepared(p)'
  BY <1>1, <1>2 DEF Prepared, AfterSave, Member, lembed_tune_cache_key
<1>8. \A q \in Process : q # p => pc'[q] \notin {"reading", "read", "written"}
  BY <1>6 DEF Saving, Writing
<1>9. Writing(p)'
  BY <1>1 DEF Writing
<1> QED BY <1>1, <1>2, <1>3, <1>5, <1>6, <1>7, <1>8, <1>9 DEF Alone

\* A save that has not opened the file ends: it leaves the file as it was.
LEMMA AloneGivesUp ==
  ASSUME ExactInv, NEW p \in Process, pc[p] \in {"reading", "read"},
         pc' = [pc EXCEPT ![p] = "idle"], UNCHANGED <<path, disk, acked>>, disturbed' = disturbed
  PROVE  Alone'
<1> SUFFICES ASSUME ~disturbed PROVE Alone'
  BY DEF Alone
<1>1. \A q \in Process : q # p => ~Saving(q)
  BY DEF ExactInv, Alone, Saving
<1>2. pc'[p] = "idle" /\ \A q \in Process : q # p => pc'[q] = pc[q]
  BY DEF ExactInv, CacheTypes
<1>3. \A q \in Process : ~Saving(q)' /\ ~Writing(q)' /\ ~Writing(q)
  BY <1>1, <1>2 DEF Saving, Writing
<1>4. Exact'
  BY <1>3 DEF ExactInv, Alone, Exact, HeadOf, TailOf
<1>5. \A q \in Process : pc'[q] \notin {"reading", "read", "written"}
  BY <1>3 DEF Saving, Writing
<1> QED BY <1>3, <1>4, <1>5 DEF Alone

\* The save is through: the file holds its member unless there was one.
LEMMA AloneSaveFclose == ASSUME ExactInv, NEW p \in Process, SaveFclose(p) PROVE Alone'
<1> SUFFICES ASSUME ~disturbed' PROVE Alone'
  BY DEF Alone
<1> DEFINE m == Member(entry[p])
<1>1. /\ UNCHANGED <<disturbed, faults>> /\ pc[p] = "written" /\ pc'[p] = "idle"
      /\ \A q \in Process : q # p => pc'[q] = pc[q]
      /\ UNCHANGED path
      /\ acked' = [acked EXCEPT ![m.key] = IF @ = None THEN m.value ELSE @]
  BY DEF SaveFclose, Written, ExactInv, CacheTypes
<1>2. /\ fd[p] = path /\ path # None /\ Prepared(p) /\ disk[path].head = root[p]
      /\ \A q \in Process : q # p => ~Saving(q)
  BY <1>1 DEF ExactInv, Alone, Saving, Writing
<1>3. path \in Inode
  BY <1>2 DEF ExactInv, CacheTypes
<1>4. disk' = [disk EXCEPT ![path] = [disk[path] EXCEPT !.tail = root[p]]]
  BY <1>1, <1>2 DEF SaveFclose, Written
<1>5. disk'[path].head = root[p] /\ disk'[path].tail = root[p]
  BY <1>2, <1>3, <1>4 DEF ExactInv, CacheTypes
<1>6. load_cache(HeadOf(path)', TailOf(path)') = {root[p]}
  BY <1>1, <1>2, <1>5 DEF load_cache, HeadOf, TailOf, Prepared
<1>7. \A k \in Key : GetObjectItem(root[p], k) = AfterSave(p, k)
  BY <1>2 DEF Prepared
<1>8. \A k \in Key : AfterSave(p, k) =
        IF acked[k] # None THEN acked[k] ELSE IF m.key = k THEN m.value ELSE None
  BY DEF AfterSave
<1>9. \A k \in Key :
        acked'[k] = IF k = m.key /\ acked[k] = None THEN m.value ELSE acked[k]
  BY <1>1 DEF ExactInv, CacheTypes
<1> HIDE DEF m
<1>10. \A k \in Key : GetObjectItem(root[p], k) = acked'[k]
  BY <1>7, <1>8, <1>9
<1>11. Exact'
  BY <1>6, <1>10 DEF Exact
<1>12. \A q \in Process : ~Saving(q)' /\ ~Writing(q)'
  BY <1>1, <1>2 DEF Saving, Writing
<1>13. \A q \in Process : pc'[q] \notin {"reading", "read", "written"}
  BY <1>12 DEF Saving, Writing
<1> QED BY <1>11, <1>12, <1>13 DEF Alone

\* The file is removed, and with it what was known to be saved.
LEMMA AloneClear == ASSUME ExactInv, NEW p \in Process, Clear(p) PROVE Alone'
<1> SUFFICES ASSUME ~disturbed' PROVE Alone'
  BY DEF Alone
<1>1. /\ path' = None /\ acked' = [k \in Key |-> None] /\ pc' = pc /\ pc[p] = "idle"
      /\ \A q \in Process : q # p => ~Saving(q)
  BY DEF Clear, Others, calls
<1>2. \A q \in Process : ~Saving(q)' /\ ~Writing(q)' /\ pc'[q] \notin {"reading", "read", "written"}
  BY <1>1 DEF Saving, Writing
<1>3. Exact'
  BY <1>1 DEF Exact, HeadOf, load_cache, GetObjectItem
<1> QED BY <1>2, <1>3 DEF Alone

\* Every step keeps what holds while nothing overlaps or breaks off.
LEMMA ExactNext == ExactInv /\ [Next]_vars => ExactInv'
<1> SUFFICES ASSUME ExactInv, [Next]_vars PROVE Alone'
  BY TypesNext DEF ExactInv
<1>1. CASE UNCHANGED vars
  BY <1>1 DEF vars, ExactInv, Alone, Exact, Prepared, Saving, Writing, AfterSave, Member,
     HeadOf, TailOf, lembed_tune_cache_key
<1>2. ASSUME NEW p \in Process, NEW f \in Fingerprint, Start(p, f) PROVE Alone'
  BY <1>2, AloneAside DEF Start, files, calls, history, Saving, Writing, ExactInv, CacheTypes
<1>3. ASSUME NEW p \in Process, NEW c \in Config, AddConfig(p, c) PROVE Alone'
  BY <1>3, AloneAside DEF AddConfig, files, calls, history, Saving, Writing, ExactInv, CacheTypes
<1>4. ASSUME NEW p \in Process, NEW idx \in -1..MaxConfigs, SetBest(p, idx) PROVE Alone'
  BY <1>4, AloneAside DEF SetBest, files, calls, history, Saving, Writing, ExactInv, CacheTypes
<1>5. ASSUME NEW p \in Process, LoadHead(p) PROVE Alone'
  BY <1>5, AloneAside DEF LoadHead, ReadHead, files, caller, history, Saving, Writing, ExactInv,
     CacheTypes
<1>6. ASSUME NEW p \in Process, NEW f \in Fingerprint, LoadTail(p, f) PROVE Alone'
  <2>1. \A q \in Process : q # p => entry'[q] = entry[q]
    BY <1>6, LoadTailFills DEF caller, ExactInv, CacheTypes
  <2> QED BY <1>6, <2>1, AloneAside DEF LoadTail, files, history, Saving, Writing, ExactInv,
          CacheTypes
<1>7. ASSUME NEW p \in Process, SaveHead(p) PROVE Alone'
  BY <1>7, AloneSaveHead
<1>8. ASSUME NEW p \in Process, SaveTail(p) PROVE Alone'
  BY <1>8, AloneSaveTail
<1>9. ASSUME NEW p \in Process, SaveOpen(p) PROVE Alone'
  BY <1>9, AloneSaveOpen
<1>10. ASSUME NEW p \in Process, SaveRefused(p) PROVE Alone'
  BY <1>10, AloneGivesUp DEF SaveRefused, files
<1>11. ASSUME NEW p \in Process, SaveFwrite(p) PROVE Alone'
  BY <1>11, AloneSaveFwrite
<1>12. ASSUME NEW p \in Process, SaveFclose(p) PROVE Alone'
  BY <1>12, AloneSaveFclose
<1>13. ASSUME NEW p \in Process, Clear(p) PROVE Alone'
  BY <1>13, AloneClear
<1>14. ASSUME NEW p \in Process, Crash(p) PROVE Alone'
  <2>1. CASE Writing(p)
    BY <1>14, <2>1 DEF Crash, Alone
  <2>2. CASE ~Writing(p)
    <3>1. disturbed' = disturbed /\ pc[p] \in {"reading", "read"}
      BY <1>14, <2>2 DEF Crash, Saving, ExactInv, CacheTypes
    <3> QED BY <1>14, <3>1, AloneGivesUp DEF Crash, files
  <2> QED BY <2>1, <2>2
<1> QED BY <1>1, <1>2, <1>3, <1>4, <1>5, <1>6, <1>7, <1>8, <1>9, <1>10, <1>11, <1>12, <1>13, <1>14
    DEF Next

\* As long as no two saves overlap and none breaks off, the file answers for
\* every key what was saved first under it since the file was last removed,
\* except while a save writes it.
THEOREM ExactAlone == Spec => []ExactWhileUndisturbed
<1>1. ExactInv => ExactWhileUndisturbed
  BY DEF ExactInv, Alone, Exact, ExactWhileUndisturbed
<1> QED BY <1>1, ExactInit, ExactNext, PTL DEF Spec

=============================================================================
