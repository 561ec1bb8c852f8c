----------------------------- MODULE TuneCache -----------------------------
(***************************************************************************)
(* The cache of tuning results (autotune_cache.h,                          *)
(* detail/autotune_cache_impl.hpp): one JSON file, tune_cache.json, whose  *)
(* members are tuning entries under a key made of their fingerprint.  Any  *)
(* number of processes load, save and clear it and none of them locks it:  *)
(* a save reads the file, truncates it and writes it back.                 *)
(*                                                                         *)
(* A text longer than stdio's buffer goes to the disk, and comes from it,  *)
(* in two parts at least: fwrite writes its head and fclose its tail.  A   *)
(* file is two parts, each None or that part of a text, and a text is the  *)
(* sequence of its members.  A file belongs to an inode: clear unlinks the *)
(* path, not the file another process has open.  Names are compared as     *)
(* cJSON does, regardless of case, so a name stands for its spellings.     *)
(***************************************************************************)
EXTENDS Integers, Sequences

CONSTANTS
  Process,
  Inode,        \* one more than there are other processes is enough
  Machine,      \* the machines that share the home directory: [cpu, cores]
  Windows,      \* whether this is the Windows build
  Model,        \* [model_id, quantization]
  Backend,
  Config,       \* measured configurations
  MaxConfigs,   \* 16 in the code
  MaxSaves,     \* bound on the calls of save
  MaxFaults,    \* bound on crashes and failed writes
  None

ASSUME BoundsAssumption ==
  /\ MaxConfigs \in Nat \ {0} /\ MaxSaves \in Nat
  /\ MaxFaults \in Nat
  /\ None \notin Inode /\ Windows \in BOOLEAN

VARIABLES
  path,    \* the inode of tune_cache.json, or None
  disk,    \* [Inode -> [head, tail]]: each None or a text
  entry,   \* [Process -> the caller's lembed_tune_cache_entry_t]
  loaded,  \* [Process -> the key whose load filled the entry, or None]
  pc,      \* [Process -> "idle", "loading", or how far its save is:
           \*  "reading", "read", "opened" or "written"]
  root,    \* [Process -> the head it has read, then the members it will write]
  fd,      \* [Process -> the inode of its FILE*, or None]
  acked,   \* history: [Key -> first value saved since the file was removed]
  given,   \* history: the members save was called with
  disturbed, \* history: saves overlapped, or one broke off, since then
  mixed,   \* history: a save opened a file that another process had open
  saves, faults

vars == <<path, disk, entry, loaded, pc, root, fd, acked, given, disturbed, mixed,
          saves, faults>>
files == <<path, disk>>
caller == <<entry, loaded>>
calls == <<pc, root, fd>>
history == <<acked, given, disturbed, mixed, saves, faults>>

-----------------------------------------------------------------------------
\* Only the Windows build looks; hw->features and ram_mb are in no key.
lembed_cache_detect_hardware(machine) ==
  IF Windows THEN machine ELSE [cpu |-> "unknown", cores |-> 1]

\* The os and the two versions are the same for all entries here.
lembed_tune_cache_key(f) == <<f.hardware.cpu, f.model.model_id, f.backend>>

Fingerprint ==
  [hardware : {lembed_cache_detect_hardware(m) : m \in Machine},
   model : Model, backend : Backend]

\* What memset leaves of a fingerprint: load fills in the results only.
Blank == [hardware |-> [cpu |-> "", cores |-> 0],
          model |-> [model_id |-> "", quantization |-> ""], backend |-> ""]

Key == {lembed_tune_cache_key(f) : f \in Fingerprint \cup {Blank}}

NewEntry(f) == [fingerprint |-> f, configs |-> <<>>, best_idx |-> 0]

lembed_tune_cache_add_config(e, c) ==
  IF Len(e.configs) >= MaxConfigs THEN e ELSE [e EXCEPT !.configs = Append(@, c)]

\* Mutant: the index is compared with the size of the array.
lembed_tune_cache_set_best_loose(e, idx) ==
  IF idx < 0 \/ idx >= MaxConfigs THEN e ELSE [e EXCEPT !.best_idx = idx]

lembed_tune_cache_set_best(e, idx) ==
  IF idx < 0 \/ idx >= Len(e.configs) THEN e ELSE [e EXCEPT !.best_idx = idx]

\* What a text with the head of h and the tail of t may hold, if it parses: a
\* member of h whose configurations are those of one of t, and what followed.
Splices(h, t) ==
  {SubSeq(h, 1, i - 1) \o <<[h[i] EXCEPT !.value.configs = t[j].value.configs]>>
     \o SubSeq(t, j + 1, Len(t)) : i \in 1..Len(h), j \in 1..Len(t)}

\* load_cache: a file that is missing, cut off or does not parse is an empty object.
load_cache(h, t) ==
  IF None \in {h, t} THEN {<<>>} ELSE IF h = t THEN {h} ELSE {<<>>} \cup Splices(h, t)

\* Mutant: a member of the same model will do.
GetObjectItemOfModel(members, key) ==
  LET first == {i \in 1..Len(members) :
                  /\ members[i].key[2] = key[2]
                  /\ \A j \in 1..(i - 1) : members[j].key[2] # key[2]}
  IN  IF first = {} THEN None ELSE members[CHOOSE i \in first : TRUE].value

\* cJSON_GetObjectItem: the first member of that name.
GetObjectItem(members, key) ==
  LET first == {i \in 1..Len(members) :
                  members[i].key = key /\ \A j \in 1..(i - 1) : members[j].key # key}
  IN  IF first = {} THEN None ELSE members[CHOOSE i \in first : TRUE].value

\* The parts of a file: nothing can be read without one.
HeadOf(i) == IF i = None THEN None ELSE disk[i].head
TailOf(i) == IF i = None THEN None ELSE disk[i].tail

\* What p may find in the file whose head it has read.
Readings(p) == load_cache(root[p], TailOf(fd[p]))

\* What a save stores of an entry, and cJSON_AddItemToObject: appended even if
\* there is a member of that name.
Member(e) == [key |-> lembed_tune_cache_key(e.fingerprint),
              value |-> [configs |-> e.configs, best_idx |-> e.best_idx]]

\* None stands for what is no value and no list of members.
ASSUME MarkersAssumption ==
  LET value == [configs : Seq(Config), best_idx : Nat]
  IN  None \notin value /\ None \notin Seq([key : Key, value : value])

Writing(p) == pc[p] \in {"opened", "written"}
Saving(p) == pc[p] \in {"reading", "read"} \/ Writing(p)
Others(p) == Process \ {p}

Init ==
  /\ path = None
  /\ disk = [i \in Inode |-> [head |-> None, tail |-> None]]
  /\ entry \in [Process -> {NewEntry(f) : f \in Fingerprint}]
  /\ loaded = [p \in Process |-> None]
  /\ pc = [p \in Process |-> "idle"]
  /\ root = [p \in Process |-> None]
  /\ fd = [p \in Process |-> None]
  /\ acked = [k \in Key |-> None]
  /\ given = {}
  /\ disturbed = FALSE /\ mixed = FALSE
  /\ saves = 0 /\ faults = 0

-----------------------------------------------------------------------------
\* The caller fills in an entry it has zeroed, or one it has loaded.
Start(p, f) ==
  /\ pc[p] = "idle"
  /\ entry' = [entry EXCEPT ![p] = NewEntry(f)]
  /\ loaded' = [loaded EXCEPT ![p] = None]
  /\ UNCHANGED <<files, calls, history>>

AddConfig(p, c) ==
  /\ pc[p] = "idle"
  /\ entry' = [entry EXCEPT ![p] = lembed_tune_cache_add_config(@, c)]
  /\ loaded' = [loaded EXCEPT ![p] = None]
  /\ UNCHANGED <<files, calls, history>>

SetBest(p, idx) ==
  /\ pc[p] = "idle"
  /\ entry' = [entry EXCEPT ![p] = lembed_tune_cache_set_best(@, idx)]
  /\ loaded' = [loaded EXCEPT ![p] = None]
  /\ UNCHANGED <<files, calls, history>>

\* read_file of a load or a save: fopen, and the first of the reads.
ReadHead(p, next) ==
  /\ pc[p] = "idle"
  /\ fd' = [fd EXCEPT ![p] = path]
  /\ root' = [root EXCEPT ![p] = HeadOf(path)]
  /\ pc' = [pc EXCEPT ![p] = next]

\* Without a file the load is a miss, which leaves everything as it was.
LoadHead(p) ==
  /\ path # None
  /\ ReadHead(p, "loading")
  /\ UNCHANGED <<files, caller, history>>

\* The rest of lembed_tune_cache_load: the configurations of a hit go through
\* add_config, a miss leaves the entry alone.
LoadTail(p, f) ==
  LET key == lembed_tune_cache_key(f) IN
  /\ pc[p] = "loading"
  /\ \E members \in Readings(p) :
       LET hit == GetObjectItem(members, key) IN
       IF hit = None THEN UNCHANGED caller
       ELSE /\ entry' = [entry EXCEPT ![p] =
                 [fingerprint |-> Blank, best_idx |-> hit.best_idx,
                  configs |-> SubSeq(hit.configs, 1,
                                IF Len(hit.configs) < MaxConfigs THEN Len(hit.configs)
                                ELSE MaxConfigs)]]
            /\ loaded' = [loaded EXCEPT ![p] = key]
  /\ fd' = [fd EXCEPT ![p] = None]
  /\ root' = [root EXCEPT ![p] = None]
  /\ pc' = [pc EXCEPT ![p] = "idle"]
  /\ UNCHANGED <<files, history>>

\* lembed_tune_cache_save starts to read the file.
SaveHead(p) ==
  /\ ReadHead(p, "reading")
  /\ saves < MaxSaves
  /\ saves' = saves + 1
  /\ given' = given \cup {Member(entry[p])}
  /\ disturbed' = (disturbed \/ \E q \in Others(p) : Saving(q))
  /\ UNCHANGED <<files, caller, acked, mixed, faults>>

\* Mutant: the file is written anew, without what it held.
WithMemberOnly(members, p) == <<Member(entry[p])>>

WithMember(members, p) == Append(members, Member(entry[p]))

\* It has read the file and adds its member.
SaveTail(p) ==
  /\ pc[p] = "reading"
  /\ \E members \in Readings(p) : root' = [root EXCEPT ![p] = WithMember(members, p)]
  /\ fd' = [fd EXCEPT ![p] = None]
  /\ pc' = [pc EXCEPT ![p] = "read"]
  /\ UNCHANGED <<files, caller, history>>

\* write_file: fopen(path, "wb") truncates the file, or makes a new one.
SaveOpen(p) ==
  /\ pc[p] = "read"
  /\ \E i \in Inode :
       /\ IF path # None THEN i = path ELSE \A q \in Process : fd[q] # i
       /\ path' = i
       /\ disk' = [disk EXCEPT ![i] = [head |-> None, tail |-> None]]
       /\ fd' = [fd EXCEPT ![p] = i]
       /\ mixed' = (mixed \/ \E q \in Others(p) : fd[q] = i)
  /\ pc' = [pc EXCEPT ![p] = "opened"]
  /\ UNCHANGED <<caller, root, acked, given, disturbed, saves, faults>>

\* fopen or cJSON_Print fails: LEMBED_ERROR_IO.
SaveRefused(p) ==
  /\ pc[p] = "read"
  /\ faults < MaxFaults
  /\ faults' = faults + 1
  /\ root' = [root EXCEPT ![p] = None]
  /\ pc' = [pc EXCEPT ![p] = "idle"]
  /\ UNCHANGED <<files, caller, fd, acked, given, disturbed, mixed, saves>>

\* A write of p to its file, at the place its FILE* is at; on a full disk
\* nothing is written and nobody looks.
Written(p, part) ==
  \/ /\ disk' = IF fd[p] = None THEN disk ELSE
          [disk EXCEPT ![fd[p]] = IF part = "head" THEN [@ EXCEPT !.head = root[p]]
                                  ELSE [@ EXCEPT !.tail = root[p]]]
     /\ UNCHANGED <<disturbed, faults>>
  \/ /\ faults < MaxFaults
     /\ faults' = faults + 1
     /\ disturbed' = TRUE
     /\ UNCHANGED disk

\* fwrite: after a write that failed there is nothing left for fclose.
SaveFwrite(p) ==
  /\ pc[p] = "opened"
  /\ Written(p, "head")
  /\ fd' = [fd EXCEPT ![p] = IF faults' = faults THEN @ ELSE None]
  /\ pc' = [pc EXCEPT ![p] = "written"]
  /\ UNCHANGED <<path, caller, root, acked, given, mixed, saves>>

\* fclose: the save returns LEMBED_OK whatever became of the writes.
SaveFclose(p) ==
  LET m == Member(entry[p]) IN
  /\ pc[p] = "written"
  /\ Written(p, "tail")
  /\ acked' = [acked EXCEPT ![m.key] = IF @ = None THEN m.value ELSE @]
  /\ fd' = [fd EXCEPT ![p] = None]
  /\ root' = [root EXCEPT ![p] = None]
  /\ pc' = [pc EXCEPT ![p] = "idle"]
  /\ UNCHANGED <<path, caller, given, mixed, saves>>

\* lembed_tune_cache_clear: what was known is forgotten with the file.
Clear(p) ==
  /\ pc[p] = "idle"
  /\ path' = None
  /\ acked' = [k \in Key |-> None]
  /\ disturbed' = (\E q \in Others(p) : Saving(q))
  /\ UNCHANGED <<disk, caller, calls, given, mixed, saves, faults>>

\* The process dies in a save and is started again.
Crash(p) ==
  /\ Saving(p)
  /\ faults < MaxFaults
  /\ faults' = faults + 1
  /\ disturbed' = (disturbed \/ Writing(p))
  /\ \E f \in Fingerprint : entry' = [entry EXCEPT ![p] = NewEntry(f)]
  /\ loaded' = [loaded EXCEPT ![p] = None]
  /\ fd' = [fd EXCEPT ![p] = None]
  /\ root' = [root EXCEPT ![p] = None]
  /\ pc' = [pc EXCEPT ![p] = "idle"]
  /\ UNCHANGED <<files, acked, given, mixed, saves>>

Next ==
  \E p \in Process :
    \/ LoadHead(p)
    \/ \E f \in Fingerprint : Start(p, f) \/ LoadTail(p, f)
    \/ \E c \in Config : AddConfig(p, c)
    \/ \E idx \in -1..MaxConfigs : SetBest(p, idx)
    \/ SaveHead(p) \/ SaveTail(p) \/ SaveOpen(p) \/ SaveRefused(p)
    \/ SaveFwrite(p) \/ SaveFclose(p) \/ Clear(p) \/ Crash(p)

Spec == Init /\ [][Next]_vars

-----------------------------------------------------------------------------
\* As long as no two saves overlap and none breaks off, the file is exactly
\* what was saved since it was last cleared, except while a save writes it:
\* every key that was saved hits, no other does, and the answer is that of the
\* first save of the key: a later one of the same key changes nothing.
ExactWhileUndisturbed ==
  \/ disturbed \/ \E p \in Process : Writing(p)
  \/ \A members \in load_cache(HeadOf(path), TailOf(path)), k \in Key :
       GetObjectItem(members, k) = acked[k]

\* Saves that overlap lose each other's members, and may break off anywhere,
\* and still what a load answers was saved as a whole under the key it was
\* asked for: until a save opens the file while another process has it open.
\* From then on the disk may hold the head of one text and the tail of another.
HitWasSaved ==
  mixed \/ \A p \in Process : loaded[p] # None =>
    [key |-> loaded[p],
     value |-> [configs |-> entry[p].configs, best_idx |-> entry[p].best_idx]] \in given

\* The best configuration an entry names is one it holds, through the limit of
\* the array, saves, breaks, loads (which take the index from the file as it
\* is) and resaves, until a save opens the file while another has it open.
BestIsHeld ==
  mixed \/ \A p \in Process : entry[p].configs # <<>> =>
    entry[p].best_idx \in 0..Len(entry[p].configs) - 1
=============================================================================
