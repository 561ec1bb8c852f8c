-------------------------- MODULE DownloaderProofs --------------------------
(***************************************************************************)
(* What holds of Downloader for every list of files and every number of    *)
(* chunks: for a process alone, whatever the number of crashes and         *)
(* failures, and for any number of processes without them.                 *)
(***************************************************************************)
EXTENDS Downloader, FiniteSetTheorems, TLAPS

TypeInv ==
  /\ dest \in [File -> Inode \union {None}]
  /\ tmp \in [File -> Inode \union {None}]
  /\ chunks \in [Inode -> SUBSET Nat]
  /\ pc \in [Process -> {"absent", "idle", "checking", "opening", "receiving",
                         "removing", "renaming", "returned"}]
  /\ at \in [Process -> 1..Len(files)]
  /\ fp \in [Process -> Inode \union {None}]
  /\ sent \in [Process -> 0..NumChunks]
  /\ unflushed \subseteq Inode
  /\ \A p \in Process : pc[p] = "receiving" => fp[p] \in Inode

\* A file that may stand at a final path.
Good(i) == Complete(i) \/ i \in unflushed

\* Final and temporary paths name different inodes, no two temporary ones the
\* same.
PathsApart ==
  /\ \A f, g \in File : dest[f] # None => dest[f] # tmp[g]
  /\ \A f, g \in File : tmp[f] # None /\ tmp[f] = tmp[g] => f = g

\* What the process knows of the file it fetches.
Fetching(p) ==
  /\ pc[p] # "receiving" => fp[p] = None
  /\ pc[p] = "receiving" =>
       /\ fp[p] = tmp[Current(p)]
       /\ chunks[fp[p]] = 1..sent[p] /\ fp[p] \notin unflushed
  /\ pc[p] \in {"removing", "renaming"} =>
       tmp[Current(p)] # None /\ Good(tmp[Current(p)])

DestGood == \A f \in File : dest[f] # None => Good(dest[f])

AloneInv ==
  /\ DestGood
  /\ PathsApart
  /\ \A p \in Process : Fetching(p)

DownloadInv == TypeInv /\ (Alone => AloneInv)

-----------------------------------------------------------------------------
\* A process alone is the only one that is there.
LEMMA AloneUnique ==
  ASSUME Alone, NEW p \in Process, NEW q \in Process, pc[p] # "absent", pc[q] # "absent"
  PROVE  p = q
<1> DEFINE there == {x \in Process : pc[x] # "absent"}
<1>1. IsFiniteSet(there)
  BY ProcessAssumption, FS_Subset
<1>2. p \in there /\ q \in there
  OBVIOUS
<1> HIDE DEF there
<1>3. Cardinality(there \ {p}) = 0 /\ IsFiniteSet(there \ {p})
  BY <1>1, <1>2, FS_RemoveElement DEF Alone, there
<1>4. there \ {p} = {}
  BY <1>3, FS_EmptySet
<1> QED BY <1>2, <1>4

\* Whether a process is there never changes.
LEMMA AloneSame ==
  ASSUME TypeInv, NEW p \in Process, pc[p] # "absent", NEW x, x # "absent",
         pc' = [pc EXCEPT ![p] = x]
  PROVE  Alone' <=> Alone
<1>1. {q \in Process : pc'[q] # "absent"} = {q \in Process : pc[q] # "absent"}
  BY DEF TypeInv
<1> QED BY <1>1 DEF Alone

\* The invariant holds when the cache directory is empty.
LEMMA DownloadInit == Init => DownloadInv
<1> SUFFICES ASSUME Init PROVE DownloadInv
  OBVIOUS
<1>1. 1 \in 1..Len(files) /\ 0 \in 0..NumChunks
  BY FilesAssumption
<1>2. TypeInv
  BY <1>1 DEF Init, TypeInv
<1>3. AloneInv
  BY DEF Init, AloneInv, DestGood, PathsApart, Fetching
<1> QED BY <1>2, <1>3 DEF DownloadInv

-----------------------------------------------------------------------------
\* The current file is one of the files.
LEMMA CurrentIsFile ==
  ASSUME TypeInv, NEW p \in Process PROVE Current(p) \in File
BY DEF TypeInv, Current, File

\* How the body of the loop is left.
LEMMA BodyLeft ==
  ASSUME TypeInv, NEW p \in Process, NextFile(p) \/ Unavailable(p)
  PROVE  /\ \E x \in {"checking", "returned"} : pc' = [pc EXCEPT ![p] = x]
         /\ at' \in [Process -> 1..Len(files)]
<1>1. CASE NextFile(p)
  <2>1. CASE at[p] = Len(files)
    BY <1>1, <2>1 DEF NextFile, TypeInv
  <2>2. CASE at[p] # Len(files)
    <3>1. at[p] \in 1..Len(files) /\ Len(files) \in Nat
      BY FilesAssumption DEF TypeInv
    <3>2. at[p] + 1 \in 1..Len(files)
      BY <2>2, <3>1
    <3> QED BY <1>1, <2>2, <3>2 DEF NextFile, TypeInv
  <2> QED BY <2>1, <2>2
<1>2. CASE Unavailable(p) /\ ~NextFile(p)
  BY <1>2 DEF Unavailable, TypeInv
<1> QED BY <1>1, <1>2

\* Nobody is there beside a process that acts alone.
LEMMA OthersAbsent ==
  ASSUME Alone, AloneInv, NEW p \in Process, pc[p] # "absent",
         NEW q \in Process, q # p
  PROVE  pc[q] = "absent" /\ fp[q] = None
<1>1. pc[q] = "absent"
  BY AloneUnique
<1> QED BY <1>1 DEF AloneInv, Fetching

\* A process between two files carries no obligation, and the others none
\* either.
LEMMA NobodyFetches ==
  ASSUME TypeInv, Alone, AloneInv, NEW p \in Process, pc[p] # "absent",
         NEW x \in {"idle", "checking", "opening", "returned"},
         pc' = [pc EXCEPT ![p] = x],
         fp' = fp \/ fp' = [fp EXCEPT ![p] = None],
         pc[p] # "receiving" \/ fp' = [fp EXCEPT ![p] = None]
  PROVE  \A q \in Process : Fetching(q)'
<1> SUFFICES ASSUME NEW q \in Process PROVE Fetching(q)'
  OBVIOUS
<1>1. fp'[q] = None
  <2>1. CASE q = p
    BY <2>1 DEF TypeInv, AloneInv, Fetching
  <2>2. CASE q # p
    BY <2>2, OthersAbsent DEF TypeInv
  <2> QED BY <2>1, <2>2
<1>2. pc'[q] \notin {"receiving", "removing", "renaming"}
  <2>1. CASE q = p
    BY <2>1 DEF TypeInv
  <2>2. CASE q # p
    BY <2>2, OthersAbsent DEF TypeInv
  <2> QED BY <2>1, <2>2
<1> QED BY <1>1, <1>2 DEF Fetching

-----------------------------------------------------------------------------
\* Each action keeps the invariant.  Whoever acts is there, so that a process
\* alone after the step was alone before it.
LEMMA KeptByEnsureModel ==
  ASSUME DownloadInv, NEW p \in Process, NEW off \in BOOLEAN, EnsureModel(p, off)
  PROVE  DownloadInv'
<1>1. TypeInv'
  <2>1. 1 \in 1..Len(files)
    BY FilesAssumption
  <2> QED BY <2>1 DEF DownloadInv, TypeInv, EnsureModel, disk
<1>2. ASSUME Alone' PROVE AloneInv'
  <2>1. Alone /\ AloneInv
    BY <1>2, AloneSame DEF DownloadInv, EnsureModel
  <2>2. \A q \in Process : Fetching(q)'
    BY <2>1, NobodyFetches DEF DownloadInv, EnsureModel
  <2> QED BY <2>1, <2>2 DEF AloneInv, EnsureModel, disk, DestGood, PathsApart, Good, Complete
<1> QED BY <1>1, <1>2 DEF DownloadInv

\* The check of a file changes no file: it moves on, ends the call or goes to
\* fetch the file.
LEMMA KeptByCheckFile ==
  ASSUME DownloadInv, NEW p \in Process, CheckFile(p)
  PROVE  DownloadInv'
<1>0. TypeInv /\ pc[p] = "checking"
  BY DEF DownloadInv, CheckFile
<1>1. /\ \E x \in {"checking", "opening", "returned"} : pc' = [pc EXCEPT ![p] = x]
      /\ at' \in [Process -> 1..Len(files)]
  <2>1. CASE NextFile(p) \/ Unavailable(p)
    BY <1>0, <2>1, BodyLeft
  <2>2. CASE pc' = [pc EXCEPT ![p] = "opening"] /\ UNCHANGED at
    BY <1>0, <2>2 DEF TypeInv
  <2> QED BY <2>1, <2>2 DEF CheckFile
<1>2. TypeInv'
  BY <1>0, <1>1 DEF TypeInv, CheckFile, disk
<1>3. ASSUME Alone' PROVE AloneInv'
  <2>1. Alone /\ AloneInv
    BY <1>0, <1>1, <1>3, AloneSame DEF DownloadInv
  <2>2. \A q \in Process : Fetching(q)'
    BY <1>0, <1>1, <2>1, NobodyFetches DEF CheckFile
  <2> QED BY <2>1, <2>2 DEF AloneInv, CheckFile, disk, DestGood, PathsApart, Good, Complete
<1> QED BY <1>2, <1>3 DEF DownloadInv

\* Opening the temporary file truncates an inode no final path names, and
\* names it once.
LEMMA Truncated ==
  ASSUME TypeInv, AloneInv, NEW p \in Process, NEW i \in TmpInode(p),
         dest' = dest, tmp' = [tmp EXCEPT ![Current(p)] = i],
         chunks' = [chunks EXCEPT ![i] = {}], unflushed' = unflushed \ {i}
  PROVE  DestGood' /\ PathsApart'
<1>1. Current(p) \in File
  BY CurrentIsFile
<1>2. i \in Inode /\ i # None
  BY <1>1, ProcessAssumption DEF TmpInode, TypeInv
<1>3. \A f \in File : dest[f] # i
  BY <1>1, <1>2 DEF TmpInode, InUse, AloneInv, PathsApart
<1>4. \A f \in File : f # Current(p) => tmp[f] # i
  BY <1>1, <1>2 DEF TmpInode, InUse, AloneInv, PathsApart
<1>5. \A f \in File : tmp'[f] = IF f = Current(p) THEN i ELSE tmp[f]
  BY <1>1 DEF TypeInv
<1>6. DestGood'
  <2> SUFFICES ASSUME NEW f \in File, dest[f] # None PROVE Good(dest[f])'
    BY DEF DestGood
  <2>1. dest[f] \in Inode /\ dest[f] # i /\ Good(dest[f])
    BY <1>3 DEF TypeInv, AloneInv, DestGood
  <2>2. chunks'[dest[f]] = chunks[dest[f]]
    BY <2>1 DEF TypeInv
  <2> QED BY <2>1, <2>2 DEF Good, Complete
<1>7. PathsApart'
  BY <1>3, <1>4, <1>5 DEF PathsApart, AloneInv
<1> QED BY <1>6, <1>7

\* Opening the temporary file keeps the types.
LEMMA TruncatedTyped ==
  ASSUME TypeInv, NEW p \in Process, NEW i \in TmpInode(p)
  PROVE  /\ i \in Inode
         /\ [tmp EXCEPT ![Current(p)] = i] \in [File -> Inode \union {None}]
         /\ [chunks EXCEPT ![i] = {}] \in [Inode -> SUBSET Nat]
<1>1. i \in Inode
  BY CurrentIsFile DEF TmpInode, TypeInv
<1> QED BY <1>1 DEF TypeInv

\* Opening the temporary path truncates no final one: they are other paths,
\* and no path shares the inode.
LEMMA KeptByOpenTmp ==
  ASSUME DownloadInv, NEW p \in Process, OpenTmp(p)
  PROVE  DownloadInv'
<1>0. TypeInv /\ pc[p] = "opening" /\ pc' = [pc EXCEPT ![p] = "receiving"]
  BY DEF DownloadInv, OpenTmp
<1>1. PICK i \in TmpInode(p) :
        /\ tmp' = [tmp EXCEPT ![Current(p)] = i]
        /\ chunks' = [chunks EXCEPT ![i] = {}]
        /\ unflushed' = unflushed \ {i}
        /\ fp' = [fp EXCEPT ![p] = i]
  BY DEF OpenTmp
<1>2. i \in Inode /\ i # None
  BY <1>0, TruncatedTyped, ProcessAssumption
<1>3. TypeInv'
  <2>1. 0 \in 0..NumChunks
    BY FilesAssumption
  <2>2. tmp' \in [File -> Inode \union {None}] /\ chunks' \in [Inode -> SUBSET Nat]
    BY <1>0, <1>1, TruncatedTyped
  <2> QED BY <1>0, <1>1, <1>2, <2>1, <2>2 DEF TypeInv, OpenTmp
<1>4. ASSUME Alone' PROVE AloneInv'
  <2>1. Alone /\ AloneInv
    BY <1>0, <1>4, AloneSame DEF DownloadInv
  <2>2. DestGood' /\ PathsApart'
    BY <1>0, <1>1, <2>1, Truncated DEF OpenTmp
  <2>3. ASSUME NEW q \in Process PROVE Fetching(q)'
    <3>1. CASE q = p
      <4>1. /\ pc'[p] = "receiving" /\ fp'[p] = i /\ sent'[p] = 0
            /\ chunks'[i] = {} /\ i \notin unflushed'
        BY <1>0, <1>1, <1>2 DEF TypeInv, OpenTmp
      <4>2. Current(p)' = Current(p) /\ tmp'[Current(p)] = i
        BY <1>0, <1>1, CurrentIsFile DEF TypeInv, OpenTmp, Current
      <4>3. {} = 1..0
        OBVIOUS
      <4> QED BY <3>1, <4>1, <4>2, <4>3 DEF Fetching
    <3>2. CASE q # p
      <4>1. pc[q] = "absent" /\ fp[q] = None
        BY <1>0, <2>1, <3>2, OthersAbsent
      <4>2. pc'[q] = "absent" /\ fp'[q] = None
        BY <1>0, <1>1, <3>2, <4>1 DEF TypeInv
      <4> QED BY <4>2 DEF Fetching
    <3> QED BY <3>1, <3>2
  <2> QED BY <2>2, <2>3 DEF AloneInv
<1> QED BY <1>3, <1>4 DEF DownloadInv

\* A call that cannot open its temporary file leaves the cache as it was.
LEMMA KeptByOpenFails ==
  ASSUME DownloadInv, NEW p \in Process, OpenFails(p)
  PROVE  DownloadInv'
<1>0. TypeInv /\ pc[p] = "opening" /\ Unavailable(p)
  BY DEF DownloadInv, OpenFails
<1>1. PICK x \in {"checking", "returned"} : pc' = [pc EXCEPT ![p] = x]
  BY <1>0, BodyLeft
<1>2. at' \in [Process -> 1..Len(files)]
  BY <1>0, BodyLeft
<1>3. TypeInv'
  <2>1. /\ tmp' \in [File -> Inode \union {None}] /\ chunks' \in [Inode -> SUBSET Nat]
        /\ unflushed' \subseteq Inode
    <3>1. CASE UNCHANGED <<tmp, chunks, unflushed>>
      BY <1>0, <3>1 DEF TypeInv
    <3>2. CASE \E i \in TmpInode(p) :
                 /\ tmp' = [tmp EXCEPT ![Current(p)] = i]
                 /\ chunks' = [chunks EXCEPT ![i] = {}]
                 /\ unflushed' = unflushed \ {i}
      BY <1>0, <3>2, TruncatedTyped DEF TypeInv
    <3> QED BY <3>1, <3>2 DEF OpenFails
  <2> QED BY <1>0, <1>1, <1>2, <2>1 DEF TypeInv, OpenFails
<1>4. ASSUME Alone' PROVE AloneInv'
  <2>1. Alone /\ AloneInv
    BY <1>0, <1>1, <1>4, AloneSame DEF DownloadInv
  <2>2. DestGood' /\ PathsApart'
    <3>1. CASE UNCHANGED <<tmp, chunks, unflushed>>
      BY <2>1, <3>1 DEF AloneInv, DestGood, PathsApart, Good, Complete, OpenFails
    <3>2. CASE \E i \in TmpInode(p) :
                 /\ tmp' = [tmp EXCEPT ![Current(p)] = i]
                 /\ chunks' = [chunks EXCEPT ![i] = {}]
                 /\ unflushed' = unflushed \ {i}
      BY <1>0, <2>1, <3>2, Truncated DEF OpenFails
    <3> QED BY <3>1, <3>2 DEF OpenFails
  <2>3. \A q \in Process : Fetching(q)'
    BY <1>0, <1>1, <2>1, NobodyFetches DEF OpenFails
  <2> QED BY <2>2, <2>3 DEF AloneInv
<1> QED BY <1>3, <1>4 DEF DownloadInv

\* The open file of a process alone is at the temporary path of its file, and
\* so at no final one.
LEMMA OpenFileApart ==
  ASSUME TypeInv, AloneInv, NEW p \in Process, pc[p] = "receiving"
  PROVE  /\ fp[p] \in Inode /\ fp[p] # None /\ fp[p] = tmp[Current(p)]
         /\ chunks[fp[p]] = 1..sent[p] /\ fp[p] \notin unflushed
         /\ \A f \in File : dest[f] # fp[p]
<1>1. Current(p) \in File
  BY CurrentIsFile
<1>2. fp[p] \in Inode /\ fp[p] # None
  BY ProcessAssumption DEF TypeInv
<1>3. /\ fp[p] = tmp[Current(p)]
      /\ chunks[fp[p]] = 1..sent[p] /\ fp[p] \notin unflushed
  BY DEF AloneInv, Fetching
<1>4. \A f \in File : dest[f] # None => dest[f] # tmp[Current(p)]
  BY <1>1 DEF AloneInv, PathsApart
<1> QED BY <1>2, <1>3, <1>4

\* A chunk goes to the inode of the open temporary file, which is at no final
\* path.
LEMMA KeptByReceive ==
  ASSUME DownloadInv, NEW p \in Process, Receive(p)
  PROVE  DownloadInv'
<1>0. TypeInv /\ pc[p] = "receiving" /\ fp[p] \in Inode /\ sent[p] \in 0..NumChunks
  BY DEF DownloadInv, Receive, TypeInv
<1>1. sent[p] + 1 \in 0..NumChunks /\ sent[p] + 1 \in Nat /\ NumChunks \in Nat
  BY <1>0, FilesAssumption DEF Receive
<1>2. TypeInv'
  <2>1. chunks' \in [Inode -> SUBSET Nat]
    BY <1>0, <1>1 DEF TypeInv, Receive
  <2> QED BY <1>0, <1>1, <2>1 DEF TypeInv, Receive
<1>3. ASSUME Alone' PROVE AloneInv'
  <2>1. Alone /\ AloneInv
    BY <1>3 DEF DownloadInv, Alone, Receive
  <2>2. DestGood'
    <3> SUFFICES ASSUME NEW f \in File, dest[f] # None PROVE Good(dest[f])'
      BY DEF DestGood, Receive
    <3>1. dest[f] \in Inode /\ dest[f] # fp[p] /\ Good(dest[f])
      BY <1>0, <2>1, OpenFileApart DEF TypeInv, AloneInv, DestGood
    <3>2. chunks'[dest[f]] = chunks[dest[f]] /\ dest' = dest /\ unflushed' = unflushed
      BY <1>0, <3>1 DEF TypeInv, Receive
    <3> QED BY <3>1, <3>2 DEF Good, Complete
  <2>3. PathsApart'
    BY <2>1 DEF AloneInv, PathsApart, Receive
  <2>4. ASSUME NEW q \in Process PROVE Fetching(q)'
    <3>1. CASE q = p
      <4>1. 1..(sent[p] + 1) = (1..sent[p]) \cup {sent[p] + 1}
        BY <1>0, FilesAssumption
      <4>2. chunks'[fp[p]] = 1..(sent[p] + 1) /\ sent'[p] = sent[p] + 1
        BY <1>0, <2>1, <4>1, OpenFileApart DEF TypeInv, Receive
      <4> QED BY <1>0, <2>1, <3>1, <4>2, OpenFileApart DEF Fetching, Receive, Current
    <3>2. CASE q # p
      BY <1>0, <2>1, <3>2, OthersAbsent DEF Fetching, Receive
    <3> QED BY <3>1, <3>2
  <2> QED BY <2>2, <2>3, <2>4 DEF AloneInv
<1> QED BY <1>2, <1>3 DEF DownloadInv

\* Taking a name off the current file's temporary path.
LEMMA TmpRemoved ==
  ASSUME TypeInv, NEW p \in Process, tmp' = [tmp EXCEPT ![Current(p)] = None]
  PROVE  /\ tmp' \in [File -> Inode \union {None}]
         /\ AloneInv /\ dest' = dest => PathsApart'
<1>1. Current(p) \in File
  BY CurrentIsFile
<1>2. \A f \in File : tmp'[f] = IF f = Current(p) THEN None ELSE tmp[f]
  BY <1>1 DEF TypeInv
<1>3. tmp' \in [File -> Inode \union {None}]
  BY DEF TypeInv
<1>4. ASSUME AloneInv, dest' = dest PROVE PathsApart'
  BY <1>2, <1>4 DEF AloneInv, PathsApart
<1> QED BY <1>3, <1>4

\* A failed transfer closes its file and leaves it at the temporary path.
LEMMA KeptByTransferFails ==
  ASSUME DownloadInv, NEW p \in Process, TransferFails(p)
  PROVE  DownloadInv'
<1>0. TypeInv /\ pc[p] = "receiving" /\ Unavailable(p)
  BY DEF DownloadInv, TransferFails
<1>1. PICK x \in {"checking", "returned"} : pc' = [pc EXCEPT ![p] = x]
  BY <1>0, BodyLeft
<1>2. at' \in [Process -> 1..Len(files)] /\ tmp' \in [File -> Inode \union {None}]
  BY <1>0, BodyLeft, TmpRemoved DEF TransferFails
<1>3. TypeInv'
  BY <1>0, <1>1, <1>2 DEF TypeInv, TransferFails
<1>4. ASSUME Alone' PROVE AloneInv'
  <2>1. Alone /\ AloneInv
    BY <1>0, <1>1, <1>4, AloneSame DEF DownloadInv
  <2>2. DestGood'
    BY <2>1 DEF AloneInv, DestGood, Good, Complete, TransferFails
  <2>3. PathsApart'
    BY <1>0, <2>1, TmpRemoved DEF TransferFails
  <2>4. \A q \in Process : Fetching(q)'
    BY <1>0, <1>1, <2>1, NobodyFetches DEF TransferFails
  <2> QED BY <2>2, <2>3, <2>4 DEF AloneInv
<1> QED BY <1>3, <1>4 DEF DownloadInv

\* Closing completes the temporary file or leaves it marked as unflushed.
LEMMA KeptByCloseFile ==
  ASSUME DownloadInv, NEW p \in Process, CloseFile(p)
  PROVE  DownloadInv'
<1>0. TypeInv /\ pc[p] = "receiving" /\ fp[p] \in Inode /\ sent[p] = NumChunks
  BY DEF DownloadInv, CloseFile, TypeInv, Received
<1>1. TypeInv'
  <2>1. chunks' \in [Inode -> SUBSET Nat] /\ unflushed' \subseteq Inode
    BY <1>0 DEF TypeInv, CloseFile
  <2> QED BY <1>0, <2>1 DEF TypeInv, CloseFile
<1>2. ASSUME Alone' PROVE AloneInv'
  <2>1. Alone /\ AloneInv
    BY <1>0, <1>2, AloneSame DEF DownloadInv, CloseFile
  <2>2. DestGood'
    <3> SUFFICES ASSUME NEW f \in File, dest[f] # None PROVE Good(dest[f])'
      BY DEF DestGood, CloseFile
    <3>1. dest[f] \in Inode /\ dest[f] # fp[p] /\ Good(dest[f])
      BY <1>0, <2>1, OpenFileApart DEF TypeInv, AloneInv, DestGood
    <3>2. chunks'[dest[f]] = chunks[dest[f]] /\ dest' = dest /\ unflushed \subseteq unflushed'
      BY <1>0, <3>1 DEF TypeInv, CloseFile
    <3> QED BY <3>1, <3>2 DEF Good, Complete
  <2>3. PathsApart'
    BY <2>1 DEF AloneInv, PathsApart, CloseFile
  <2>4. ASSUME NEW q \in Process PROVE Fetching(q)'
    <3>1. CASE q = p
      <4>2. tmp'[Current(p)] = fp[p] /\ fp[p] # None /\ Current(p)' = Current(p)
        BY <1>0, <2>1, OpenFileApart DEF CloseFile, Current
      <4>3. pc'[p] = "removing" /\ fp'[p] = None
        BY <1>0 DEF TypeInv, CloseFile
      <4>4. Good(tmp[Current(p)])'
        <5>1. chunks'[fp[p]] = 1..NumChunks \/ fp[p] \in unflushed'
          BY <1>0, <2>1, OpenFileApart DEF CloseFile
        <5> QED BY <4>2, <5>1 DEF Good, Complete
      <4> QED BY <3>1, <4>2, <4>3, <4>4 DEF Fetching
    <3>2. CASE q # p
      <4>1. pc'[q] = "absent" /\ fp'[q] = None
        BY <1>0, <2>1, <3>2, OthersAbsent DEF CloseFile, TypeInv
      <4> QED BY <4>1 DEF Fetching
    <3> QED BY <3>1, <3>2
  <2> QED BY <2>2, <2>3, <2>4 DEF AloneInv
<1> QED BY <1>1, <1>2 DEF DownloadInv

\* Removing the old file leaves nothing incomplete behind.
LEMMA KeptByRemoveDest ==
  ASSUME DownloadInv, NEW p \in Process, RemoveDest(p)
  PROVE  DownloadInv'
<1>0. TypeInv /\ pc[p] = "removing" /\ Current(p) \in File
  BY CurrentIsFile DEF DownloadInv, RemoveDest
<1>1. TypeInv'
  BY <1>0 DEF TypeInv, RemoveDest
<1>2. ASSUME Alone' PROVE AloneInv'
  <2>1. Alone /\ AloneInv
    BY <1>0, <1>2, AloneSame DEF DownloadInv, RemoveDest
  <2>2. \A f \in File : dest'[f] = IF f = Current(p) THEN None ELSE dest[f]
    BY <1>0 DEF TypeInv, RemoveDest
  <2>3. DestGood'
    BY <2>1, <2>2 DEF AloneInv, DestGood, Good, Complete, RemoveDest
  <2>4. PathsApart'
    BY <2>1, <2>2 DEF AloneInv, PathsApart, RemoveDest
  <2>5. ASSUME NEW q \in Process PROVE Fetching(q)'
    <3>1. CASE q = p
      <4>1. pc'[p] = "renaming" /\ Current(p)' = Current(p)
        BY <1>0 DEF TypeInv, RemoveDest, Current
      <4> QED BY <1>0, <2>1, <3>1, <4>1
            DEF AloneInv, Fetching, RemoveDest, Good, Complete
    <3>2. CASE q # p
      <4>1. pc'[q] = "absent" /\ fp'[q] = None
        BY <1>0, <2>1, <3>2, OthersAbsent DEF RemoveDest, TypeInv
      <4> QED BY <4>1 DEF Fetching
    <3> QED BY <3>1, <3>2
  <2> QED BY <2>3, <2>4, <2>5 DEF AloneInv
<1> QED BY <1>1, <1>2 DEF DownloadInv

\* The rename moves a file that was closed after its last chunk.
LEMMA KeptByRename ==
  ASSUME DownloadInv, NEW p \in Process, Rename(p)
  PROVE  DownloadInv'
<1>0. TypeInv /\ pc[p] = "renaming" /\ NextFile(p) /\ Current(p) \in File
  BY CurrentIsFile DEF DownloadInv, Rename
<1>1. PICK x \in {"checking", "returned"} : pc' = [pc EXCEPT ![p] = x]
  BY <1>0, BodyLeft
<1>2. /\ at' \in [Process -> 1..Len(files)]
      /\ tmp' \in [File -> Inode \union {None}] /\ dest' \in [File -> Inode \union {None}]
  BY <1>0, BodyLeft DEF TypeInv, Rename
<1>3. TypeInv'
  BY <1>0, <1>1, <1>2 DEF TypeInv, Rename
<1>4. ASSUME Alone' PROVE AloneInv'
  <2>1. Alone /\ AloneInv
    BY <1>0, <1>1, <1>4, AloneSame DEF DownloadInv
  <2>2. /\ \A f \in File : dest'[f] = IF f = Current(p) THEN tmp[f] ELSE dest[f]
        /\ \A f \in File : tmp'[f] = IF f = Current(p) THEN None ELSE tmp[f]
    BY <1>0 DEF TypeInv, Rename
  <2>3. DestGood'
    <3>1. Good(tmp[Current(p)])
      BY <1>0, <2>1 DEF AloneInv, Fetching
    <3> QED BY <2>1, <2>2, <3>1 DEF AloneInv, DestGood, Good, Complete, Rename
  <2>4. PathsApart'
    BY <1>0, <2>1, <2>2 DEF AloneInv, PathsApart
  <2>5. \A q \in Process : Fetching(q)'
    BY <1>0, <1>1, <2>1, NobodyFetches DEF Rename
  <2> QED BY <2>3, <2>4, <2>5 DEF AloneInv
<1> QED BY <1>3, <1>4 DEF DownloadInv

\* A failed rename leaves the final path empty.
LEMMA KeptByRenameFails ==
  ASSUME DownloadInv, NEW p \in Process, RenameFails(p)
  PROVE  DownloadInv'
<1>0. TypeInv /\ pc[p] = "renaming" /\ Unavailable(p)
  BY DEF DownloadInv, RenameFails
<1>1. PICK x \in {"checking", "returned"} : pc' = [pc EXCEPT ![p] = x]
  BY <1>0, BodyLeft
<1>2. at' \in [Process -> 1..Len(files)] /\ tmp' \in [File -> Inode \union {None}]
  BY <1>0, BodyLeft, TmpRemoved DEF RenameFails
<1>3. TypeInv'
  BY <1>0, <1>1, <1>2 DEF TypeInv, RenameFails
<1>4. ASSUME Alone' PROVE AloneInv'
  <2>1. Alone /\ AloneInv
    BY <1>0, <1>1, <1>4, AloneSame DEF DownloadInv
  <2>2. DestGood'
    BY <2>1 DEF AloneInv, DestGood, Good, Complete, RenameFails
  <2>3. PathsApart'
    BY <1>0, <2>1, TmpRemoved DEF RenameFails
  <2>4. \A q \in Process : Fetching(q)'
    BY <1>0, <1>1, <2>1, NobodyFetches DEF RenameFails
  <2> QED BY <2>2, <2>3, <2>4 DEF AloneInv
<1> QED BY <1>3, <1>4 DEF DownloadInv

\* A crash changes no file.
LEMMA KeptByCrash ==
  ASSUME DownloadInv, NEW p \in Process, Crash(p)
  PROVE  DownloadInv'
<1>0. TypeInv /\ pc[p] # "absent"
  BY DEF DownloadInv, Crash, Running
<1>1. TypeInv'
  BY <1>0 DEF TypeInv, Crash, disk
<1>2. ASSUME Alone' PROVE AloneInv'
  <2>1. Alone /\ AloneInv
    BY <1>0, <1>2, AloneSame DEF DownloadInv, Crash
  <2>2. \A q \in Process : Fetching(q)'
    BY <1>0, <2>1, NobodyFetches DEF Crash
  <2> QED BY <2>1, <2>2 DEF AloneInv, DestGood, PathsApart, Good, Complete, Crash, disk
<1> QED BY <1>1, <1>2 DEF DownloadInv

\* A step that changes nothing, and every step of the specification.
LEMMA DownloadNext == DownloadInv /\ [Next]_vars => DownloadInv'
<1> SUFFICES ASSUME DownloadInv, [Next]_vars PROVE DownloadInv'
  OBVIOUS
<1>1. CASE UNCHANGED vars
  BY <1>1 DEF DownloadInv, TypeInv, Alone, AloneInv, DestGood, PathsApart,
              Fetching, Good, Complete, Current, vars
<1>2. ASSUME NEW p \in Process, NEW off \in BOOLEAN, EnsureModel(p, off)
      PROVE  DownloadInv'
  BY <1>2, KeptByEnsureModel
<1>3. ASSUME NEW p \in Process,
             CheckFile(p) \/ OpenTmp(p) \/ OpenFails(p) \/ Receive(p)
      PROVE  DownloadInv'
  BY <1>3, KeptByCheckFile, KeptByOpenTmp, KeptByOpenFails, KeptByReceive
<1>4. ASSUME NEW p \in Process,
             \/ TransferFails(p) \/ CloseFile(p) \/ RemoveDest(p) \/ Rename(p)
             \/ RenameFails(p) \/ Crash(p)
      PROVE  DownloadInv'
  BY <1>4, KeptByTransferFails, KeptByCloseFile, KeptByRemoveDest, KeptByRename,
     KeptByRenameFails, KeptByCrash
<1> QED BY <1>1, <1>2, <1>3, <1>4 DEF Next

-----------------------------------------------------------------------------
\* Whatever the list of files, the number of chunks, the crashes and the failed
\* transfers: what ensure_model leaves at a final path for a process alone is
\* complete, or its fclose could not write the last buffer.
THEOREM CacheHoldsWholeFiles == Spec => []IncompleteOnlyUnflushed
<1>1. DownloadInv => IncompleteOnlyUnflushed
  BY DEF DownloadInv, AloneInv, DestGood, Good, IncompleteOnlyUnflushed
<1> QED BY <1>1, DownloadInit, DownloadNext, PTL DEF Spec

-----------------------------------------------------------------------------
(***************************************************************************)
(* Several processes, no crash and no failure.  An inode may be truncated  *)
(* while others write to it; whoever truncated it last still has all of it *)
(* to write.                                                               *)
(***************************************************************************)
Written(i) == \E p \in Process : fp[p] = i
Named(i) == \E f \in File : dest[f] = i \/ tmp[f] = i

\* What an inode lacks, one of its writers still has to write; an inode
\* without a writer that stands at a path is complete.
WillBeWhole(i) ==
  /\ chunks[i] \subseteq 1..NumChunks
  /\ Written(i) => \E p \in Process : fp[p] = i /\ 1..sent[p] \subseteq chunks[i]
  /\ Named(i) => Complete(i) \/ Written(i)

SharedInv ==
  /\ crashes = MaxCrashes /\ failures = MaxFailures
  /\ \A p \in Process : pc[p] # "receiving" => fp[p] = None
  /\ \A i \in Inode : WillBeWhole(i)

\* Where nobody is alone nothing fails: the bounds are used up.
LEMMA NothingFails ==
  ASSUME SharedInv PROVE ~(crashes < MaxCrashes) /\ ~(failures < MaxFailures)
BY FilesAssumption DEF SharedInv

\* The invariant holds when the cache directory is empty.
LEMMA BesideInit == Init => (~Alone => SharedInv)
<1> SUFFICES ASSUME Init, ~Alone PROVE SharedInv
  OBVIOUS
<1>1. ASSUME NEW i \in Inode PROVE WillBeWhole(i)
  <2>1. ~Written(i) /\ ~Named(i)
    BY ProcessAssumption DEF Init, Written, Named
  <2> QED BY <2>1 DEF Init, WillBeWhole
<1> QED BY <1>1 DEF Init, SharedInv

\* An inode at a path after a step that only moves or removes names was at a
\* path before it.
LEMMA NamesMoved ==
  ASSUME SharedInv, UNCHANGED <<chunks, fp, sent, crashes, failures>>,
         \A i \in Inode : Named(i)' => Named(i),
         \A q \in Process : pc'[q] # "receiving" => pc[q] # "receiving"
  PROVE  SharedInv'
<1>1. ASSUME NEW i \in Inode PROVE WillBeWhole(i)'
  BY <1>1 DEF SharedInv, WillBeWhole, Written, Complete
<1> QED BY <1>1 DEF SharedInv

\* Only one that receives leaves "receiving".
LEMMA StillReceiving ==
  ASSUME TypeInv, NEW p \in Process, pc[p] # "receiving", NEW x,
         pc' = [pc EXCEPT ![p] = x]
  PROVE  \A q \in Process : pc'[q] # "receiving" => pc[q] # "receiving"
BY DEF TypeInv

\* A call begins or checks a file: no name moves.
LEMMA SharedByCheck ==
  ASSUME TypeInv, SharedInv, NEW p \in Process,
         CheckFile(p) \/ \E off \in BOOLEAN : EnsureModel(p, off)
  PROVE  SharedInv'
<1>1. PICK x \in {"checking", "opening", "returned"} : pc' = [pc EXCEPT ![p] = x]
  <2>1. CASE \E off \in BOOLEAN : EnsureModel(p, off)
    BY <2>1 DEF EnsureModel
  <2>2. CASE CheckFile(p)
    <3>1. CASE NextFile(p) \/ Unavailable(p)
      BY <3>1, BodyLeft
    <3> QED BY <2>2, <3>1 DEF CheckFile
  <2> QED BY <2>1, <2>2
<1>2. pc[p] \notin {"receiving", "absent"}
  BY DEF CheckFile, EnsureModel
<1>3. UNCHANGED <<chunks, fp, sent, crashes, failures, dest, tmp>>
  BY DEF CheckFile, EnsureModel, disk
<1>4. \A i \in Inode : Named(i)' => Named(i)
  BY <1>3 DEF Named
<1>5. \A q \in Process : pc'[q] # "receiving" => pc[q] # "receiving"
  BY <1>1, <1>2, StillReceiving
<1> QED BY <1>3, <1>4, <1>5, NamesMoved

\* The steps that remove a name or give the inode of one path to another.
LEMMA SharedByRename ==
  ASSUME TypeInv, SharedInv, NEW p \in Process,
         RemoveDest(p) \/ Rename(p) \/ RenameFails(p)
  PROVE  SharedInv'
<1>0. Current(p) \in File
  BY CurrentIsFile
<1>1. PICK x \in {"renaming", "checking", "returned"} : pc' = [pc EXCEPT ![p] = x]
  BY BodyLeft DEF RemoveDest, Rename, RenameFails
<1>2. pc[p] \notin {"receiving", "absent"}
  BY DEF RemoveDest, Rename, RenameFails
<1>3. UNCHANGED <<chunks, fp, sent, crashes, failures>>
  BY NothingFails DEF RemoveDest, Rename, RenameFails
<1>4. ASSUME NEW i \in Inode, Named(i)' PROVE Named(i)
  <2>1. i # None
    BY ProcessAssumption
  <2>2. PICK f \in File : dest'[f] = i \/ tmp'[f] = i
    BY <1>4 DEF Named
  <2>3. CASE RemoveDest(p)
    <3>1. dest'[f] = i => dest[f] = i
      BY <2>1, <2>3 DEF RemoveDest, TypeInv
    <3> QED BY <2>2, <2>3, <3>1 DEF Named, RemoveDest
  <2>4. CASE Rename(p)
    <3>1. dest'[f] = i => dest[f] = i \/ tmp[Current(p)] = i
      BY <2>4 DEF Rename, TypeInv
    <3>2. tmp'[f] = i => tmp[f] = i
      BY <2>1, <2>4 DEF Rename, TypeInv
    <3> QED BY <1>0, <2>2, <3>1, <3>2 DEF Named
  <2>5. CASE RenameFails(p)
    <3>1. tmp'[f] = i => tmp[f] = i
      BY <2>1, <2>5 DEF RenameFails, TypeInv
    <3> QED BY <2>2, <2>5, <3>1 DEF Named, RenameFails
  <2> QED BY <2>3, <2>4, <2>5
<1>5. \A q \in Process : pc'[q] # "receiving" => pc[q] # "receiving"
  BY <1>1, <1>2, StillReceiving
<1> QED BY <1>3, <1>4, <1>5, NamesMoved

\* Who truncates an inode, its other writers at work or not, has all of it to
\* write.
LEMMA SharedByOpenTmp ==
  ASSUME TypeInv, SharedInv, NEW p \in Process, OpenTmp(p)
  PROVE  SharedInv'
<1>0. /\ pc[p] = "opening" /\ pc' = [pc EXCEPT ![p] = "receiving"]
      /\ sent' = [sent EXCEPT ![p] = 0] /\ dest' = dest
      /\ UNCHANGED <<crashes, failures>>
  BY DEF OpenTmp
<1>1. PICK j \in TmpInode(p) :
        /\ tmp' = [tmp EXCEPT ![Current(p)] = j]
        /\ chunks' = [chunks EXCEPT ![j] = {}]
        /\ fp' = [fp EXCEPT ![p] = j]
  BY DEF OpenTmp
<1>2. j \in Inode /\ fp[p] = None
  BY <1>0, TruncatedTyped DEF SharedInv
<1>3. /\ fp'[p] = j /\ sent'[p] = 0 /\ pc'[p] = "receiving"
      /\ \A q \in Process \ {p} : fp'[q] = fp[q] /\ sent'[q] = sent[q] /\ pc'[q] = pc[q]
  BY <1>0, <1>1 DEF TypeInv
<1>4. ASSUME NEW i \in Inode PROVE WillBeWhole(i)'
  <2>1. CASE i = j
    <3>1. chunks'[i] = {} /\ 1..0 = {}
      BY <1>1, <1>2, <2>1 DEF TypeInv
    <3>2. Written(i)' /\ 1..sent'[p] \subseteq chunks'[i]
      BY <1>3, <2>1, <3>1 DEF Written
    <3> QED BY <1>3, <2>1, <3>1, <3>2 DEF WillBeWhole
  <2>2. CASE i # j
    <3>1. chunks'[i] = chunks[i] /\ i # None
      BY <1>1, <1>2, <2>2, ProcessAssumption DEF TypeInv
    <3>2. \A q \in Process : /\ fp'[q] = i <=> fp[q] = i
                             /\ fp[q] = i => sent'[q] = sent[q]
      BY <1>2, <1>3, <2>2, <3>1
    <3>3. Named(i)' => Named(i)
      BY <1>0, <1>1, <2>2 DEF Named, TypeInv
    <3>4. WillBeWhole(i)
      BY DEF SharedInv
    <3> QED BY <3>1, <3>2, <3>3, <3>4 DEF WillBeWhole, Written, Complete
  <2> QED BY <2>1, <2>2
<1> QED BY <1>0, <1>3, <1>4 DEF SharedInv

\* A chunk received is one less to write.
LEMMA SharedByReceive ==
  ASSUME TypeInv, SharedInv, NEW p \in Process, Receive(p)
  PROVE  SharedInv'
<1>0. /\ pc[p] = "receiving" /\ sent[p] < NumChunks
      /\ sent' = [sent EXCEPT ![p] = @ + 1]
      /\ chunks' = [chunks EXCEPT ![fp[p]] = @ \cup {sent[p] + 1}]
      /\ UNCHANGED <<dest, tmp, pc, fp, crashes, failures>>
  BY DEF Receive
<1>1. fp[p] \in Inode /\ sent[p] \in 0..NumChunks /\ NumChunks \in Nat
  BY <1>0, FilesAssumption DEF TypeInv
<1>2. /\ sent'[p] = sent[p] + 1
      /\ \A q \in Process \ {p} : sent'[q] = sent[q]
  BY <1>0 DEF TypeInv
<1>3. ASSUME NEW i \in Inode PROVE WillBeWhole(i)'
  <2>0. WillBeWhole(i)
    BY DEF SharedInv
  <2>1. CASE i = fp[p]
    <3>1. chunks'[i] = chunks[i] \cup {sent[p] + 1}
      BY <1>0, <1>1, <2>1 DEF TypeInv
    <3>2. chunks'[i] \subseteq 1..NumChunks
      <4>1. sent[p] + 1 \in 1..NumChunks
        BY <1>0, <1>1
      <4> QED BY <2>0, <3>1, <4>1 DEF WillBeWhole
    <3>3. PICK q \in Process : fp[q] = i /\ 1..sent[q] \subseteq chunks[i]
      BY <2>0, <2>1 DEF WillBeWhole, Written
    <3>4. 1..sent'[q] \subseteq chunks'[i]
      <4>1. CASE q = p
        <5>1. 1..(sent[p] + 1) = (1..sent[p]) \cup {sent[p] + 1}
          BY <1>1
        <5> QED BY <1>2, <3>1, <3>3, <4>1, <5>1
      <4>2. CASE q # p
        BY <1>2, <3>1, <3>3, <4>2
      <4> QED BY <4>1, <4>2
    <3>5. fp'[q] = i
      BY <1>0, <3>3
    <3> QED BY <3>2, <3>4, <3>5 DEF WillBeWhole, Written
  <2>2. CASE i # fp[p]
    <3>1. chunks'[i] = chunks[i]
      BY <1>0, <1>1, <2>2 DEF TypeInv
    <3>2. \A q \in Process : fp'[q] = fp[q] /\ (fp[q] = i => sent'[q] = sent[q])
      BY <1>0, <1>2, <2>2
    <3>3. Named(i)' <=> Named(i)
      BY <1>0 DEF Named
    <3> QED BY <2>0, <3>1, <3>2, <3>3 DEF WillBeWhole, Written, Complete
  <2> QED BY <2>1, <2>2
<1> QED BY <1>0, <1>3 DEF SharedInv

\* Who closes an inode has written all its chunks.  If another truncated it in
\* the meantime, that one has what is missing still to write.
LEMMA SharedByCloseFile ==
  ASSUME TypeInv, SharedInv, NEW p \in Process, CloseFile(p)
  PROVE  SharedInv'
<1>0. /\ pc[p] = "receiving" /\ sent[p] = NumChunks
      /\ pc' = [pc EXCEPT ![p] = "removing"]
      /\ fp' = [fp EXCEPT ![p] = None]
      /\ UNCHANGED <<dest, tmp, chunks, sent, crashes, failures>>
  BY NothingFails DEF CloseFile, Received
<1>1. /\ fp'[p] = None /\ pc'[p] = "removing"
      /\ \A q \in Process \ {p} : fp'[q] = fp[q] /\ pc'[q] = pc[q]
  BY <1>0 DEF TypeInv
<1>2. ASSUME NEW i \in Inode PROVE WillBeWhole(i)'
  <2>0. WillBeWhole(i) /\ i # None
    BY ProcessAssumption DEF SharedInv
  <2>1. Named(i)' <=> Named(i)
    BY <1>0 DEF Named
  <2>2. CASE fp[p] # i
    <3>1. \A q \in Process : fp'[q] = i <=> fp[q] = i
      BY <1>1, <2>0, <2>2
    <3> QED BY <1>0, <2>0, <2>1, <3>1 DEF WillBeWhole, Written, Complete
  <2>3. CASE fp[p] = i
    <3>1. PICK q \in Process : fp[q] = i /\ 1..sent[q] \subseteq chunks[i]
      BY <2>0, <2>3 DEF WillBeWhole, Written
    <3>2. CASE q # p
      <4>1. fp'[q] = i
        BY <1>1, <3>1, <3>2
      <4> QED BY <1>0, <2>0, <3>1, <4>1 DEF WillBeWhole, Written
    <3>3. CASE q = p
      <4>1. chunks[i] = 1..NumChunks
        BY <1>0, <2>0, <3>1, <3>3 DEF WillBeWhole
      <4>2. \A r \in Process : 1..sent[r] \subseteq chunks[i]
        BY <4>1, FilesAssumption DEF TypeInv
      <4>3. Complete(i)'
        BY <1>0, <4>1 DEF Complete
      <4> QED BY <1>0, <4>1, <4>2, <4>3 DEF WillBeWhole, Written
    <3> QED BY <3>2, <3>3
  <2> QED BY <2>2, <2>3
<1> QED BY <1>0, <1>1, <1>2 DEF SharedInv

\* A process alone stays alone.
LEMMA AloneStays == TypeInv /\ Alone /\ [Next]_vars => Alone'
<1> SUFFICES ASSUME TypeInv, Alone, [Next]_vars PROVE Alone'
  OBVIOUS
<1>1. CASE pc' = pc
  BY <1>1 DEF Alone
<1>2. CASE \E p \in Process, x \in {"idle", "checking", "opening", "receiving", "removing",
                                    "renaming", "returned"} :
             pc[p] # "absent" /\ pc' = [pc EXCEPT ![p] = x]
  BY <1>2, AloneSame
<1>3. ASSUME NEW p \in Process, NextFile(p) \/ Unavailable(p), pc[p] # "absent"
      PROVE  Alone'
  BY <1>2, <1>3, BodyLeft
<1>4. CASE UNCHANGED vars
  BY <1>1, <1>4 DEF vars
<1>5. ASSUME NEW p \in Process, NEW off \in BOOLEAN, EnsureModel(p, off)
      PROVE  Alone'
  BY <1>2, <1>5 DEF EnsureModel
<1>6. ASSUME NEW p \in Process,
             CheckFile(p) \/ OpenFails(p) \/ TransferFails(p) \/ Rename(p) \/ RenameFails(p)
      PROVE  Alone'
  BY <1>2, <1>3, <1>6 DEF CheckFile, OpenFails, TransferFails, Rename, RenameFails
<1>7. ASSUME NEW p \in Process,
             OpenTmp(p) \/ Receive(p) \/ CloseFile(p) \/ RemoveDest(p) \/ Crash(p)
      PROVE  Alone'
  BY <1>1, <1>2, <1>7 DEF OpenTmp, Receive, CloseFile, RemoveDest, Crash, Running
<1> QED BY <1>4, <1>5, <1>6, <1>7 DEF Next

\* Every step of processes that share the cache.
LEMMA SharedNext == TypeInv /\ ~Alone /\ SharedInv /\ [Next]_vars => SharedInv'
<1> SUFFICES ASSUME TypeInv, SharedInv, [Next]_vars PROVE SharedInv'
  OBVIOUS
<1>1. CASE UNCHANGED vars
  BY <1>1 DEF SharedInv, WillBeWhole, Written, Named, Complete, vars
<1>2. ASSUME NEW p \in Process,
             \/ CheckFile(p) \/ \E off \in BOOLEAN : EnsureModel(p, off)
             \/ RemoveDest(p) \/ Rename(p) \/ RenameFails(p)
      PROVE  SharedInv'
  BY <1>2, SharedByCheck, SharedByRename
<1>3. ASSUME NEW p \in Process, OpenTmp(p) \/ Receive(p) \/ CloseFile(p)
      PROVE  SharedInv'
  BY <1>3, SharedByOpenTmp, SharedByReceive, SharedByCloseFile
<1>4. ASSUME NEW p \in Process, OpenFails(p) \/ TransferFails(p) \/ Crash(p)
      PROVE  FALSE
  BY <1>4, NothingFails DEF OpenFails, TransferFails, Crash
<1> QED BY <1>1, <1>2, <1>3, <1>4 DEF Next

\* However many processes share the cache, and however they truncate and
\* rename each other's temporary files: a file at a final path is complete, or
\* a process has it open and writes on.
THEOREM TornFilesAreWritten == Spec => []TornOnlyWhileWritten
<1>1. Init => DownloadInv /\ (~Alone => SharedInv)
  BY DownloadInit, BesideInit
<1>2. /\ DownloadInv /\ (~Alone => SharedInv) /\ [Next]_vars
      => (DownloadInv /\ (~Alone => SharedInv))'
  <2>1. DownloadInv => TypeInv
    BY DEF DownloadInv
  <2> QED BY <2>1, DownloadNext, AloneStays, SharedNext
<1>3. DownloadInv /\ (~Alone => SharedInv) => TornOnlyWhileWritten
  <2> SUFFICES ASSUME TypeInv, SharedInv, NEW f \in File, dest[f] # None
               PROVE  Complete(dest[f]) \/ \E p \in Process : fp[p] = dest[f]
    BY DEF TornOnlyWhileWritten, DownloadInv
  <2>1. dest[f] \in Inode /\ Named(dest[f])
    BY DEF TypeInv, Named
  <2> QED BY <2>1 DEF SharedInv, WillBeWhole, Written
<1> QED BY <1>1, <1>2, <1>3, PTL DEF Spec

=============================================================================
