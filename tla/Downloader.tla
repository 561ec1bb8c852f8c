----------------------------- MODULE Downloader -----------------------------
(***************************************************************************)
(* lembed::detail::ensure_model and download_hf_file                       *)
(* (detail/downloader_impl.hpp) run by processes that share one cache      *)
(* directory.  A file is fetched into dest + ".tmp" and renamed to dest;   *)
(* the ".tmp" name is the same for every process, so two processes may     *)
(* have the same temporary file open.  Paths name inodes, a FILE* keeps    *)
(* its inode: removing or renaming a path does not stop a writer.          *)
(*                                                                         *)
(* The contents of a file are the chunks written to its inode.  Processes  *)
(* crash at any point, transfers fail, fopen and curl_easy_init fail, and  *)
(* the last buffered chunk may be lost at fclose, whose result the code    *)
(* ignores.  Not modelled: power loss without fsync.                       *)
(***************************************************************************)
EXTENDS Integers, Sequences, FiniteSets

CONSTANTS
  Process,
  files,        \* the file names of the model, in download order
  Optional,     \* the names is_optional_file accepts
  Inode,        \* inodes, enough for every path and every open FILE*
  NumChunks,    \* chunks of a complete file
  MaxCrashes,   \* bound on crashes of all processes
  MaxFailures,  \* bound on failures of the network and of the file system
  None

ASSUME FilesAssumption ==
  /\ Len(files) \in Nat \ {0} /\ NumChunks \in Nat \ {0}
  /\ MaxCrashes \in Nat /\ MaxFailures \in Nat

ASSUME ProcessAssumption == IsFiniteSet(Process) /\ None \notin Inode

VARIABLES
  dest,     \* [File -> inode at the final path, or None]
  tmp,      \* [File -> inode at the ".tmp" path, or None]
  chunks,   \* [Inode -> chunks it contains]
  pc,       \* [Process -> program counter]
  offline,  \* [Process -> the offline argument of its call]
  at,       \* [Process -> index in files of the loop of ensure_model]
  fp,       \* [Process -> inode of its open FILE*, or None]
  sent,     \* [Process -> chunks it has received]
  outcome,  \* [Process -> "none", "ok" or "error"]
  unflushed,  \* history: inodes whose last buffer fclose did not write
  crashes, failures

vars == <<dest, tmp, chunks, pc, offline, at, fp, sent, outcome, unflushed,
          crashes, failures>>
disk == <<dest, tmp, chunks>>

File == {files[i] : i \in 1..Len(files)}
Current(p) == files[at[p]]
Complete(i) == chunks[i] = 1..NumChunks
InUse(i) == \/ \E f \in File : dest[f] = i \/ tmp[f] = i
            \/ \E p \in Process : fp[p] = i

Running(p) == pc[p] \notin {"absent", "idle", "returned"}

\* One process uses the cache directory; the others are not there.
Alone == Cardinality({p \in Process : pc[p] # "absent"}) = 1

\* Crashes and failures are explored for a process alone: beside others, all
\* that is allowed of them has happened.
Init ==
  /\ dest = [f \in File |-> None]
  /\ tmp = [f \in File |-> None]
  /\ chunks = [i \in Inode |-> {}]
  /\ pc \in [Process -> {"absent", "idle"}] /\ \E p \in Process : pc[p] = "idle"
  /\ offline = [p \in Process |-> FALSE]
  /\ at = [p \in Process |-> 1]
  /\ fp = [p \in Process |-> None]
  /\ sent = [p \in Process |-> 0]
  /\ outcome = [p \in Process |-> "none"]
  /\ unflushed = {}
  /\ crashes = IF Alone THEN 0 ELSE MaxCrashes
  /\ failures = IF Alone THEN 0 ELSE MaxFailures

-----------------------------------------------------------------------------
\* ensure_model.
EnsureModel(p, off) ==
  /\ pc[p] \in {"idle", "returned"}
  /\ pc' = [pc EXCEPT ![p] = "checking"]
  /\ offline' = [offline EXCEPT ![p] = off]
  /\ at' = [at EXCEPT ![p] = 1]
  /\ outcome' = [outcome EXCEPT ![p] = "none"]
  /\ UNCHANGED <<disk, fp, sent, unflushed, crashes, failures>>

\* The process leaves the body of the loop for its current file.
NextFile(p) ==
  IF at[p] = Len(files)
    THEN /\ pc' = [pc EXCEPT ![p] = "returned"]
         /\ outcome' = [outcome EXCEPT ![p] = "ok"]
         /\ UNCHANGED at
    ELSE /\ pc' = [pc EXCEPT ![p] = "checking"]
         /\ at' = [at EXCEPT ![p] = @ + 1]
         /\ UNCHANGED outcome

\* The current file cannot be had: an error unless it is an optional one.
Unavailable(p) ==
  IF Current(p) \in Optional THEN NextFile(p)
  ELSE /\ pc' = [pc EXCEPT ![p] = "returned"]
       /\ outcome' = [outcome EXCEPT ![p] = "error"]
       /\ UNCHANGED at

\* Mutant: a temporary file counts as a download in progress.
MayDownloadUnlessTmp(p) == ~offline[p] /\ tmp[Current(p)] = None

MayDownload(p) == ~offline[p]

CheckFile(p) ==
  /\ pc[p] = "checking"
  /\ \/ dest[Current(p)] # None /\ NextFile(p)
     \/ dest[Current(p)] = None /\ ~MayDownload(p) /\ Unavailable(p)
     \/ /\ dest[Current(p)] = None
        /\ MayDownload(p)
        /\ pc' = [pc EXCEPT ![p] = "opening"]
        /\ UNCHANGED <<at, outcome>>
  /\ UNCHANGED <<disk, offline, fp, sent, unflushed, crashes, failures>>

-----------------------------------------------------------------------------
\* download_hf_file.  fopen(tmp_path, "wb") truncates the temporary file,
\* whoever left it there or is writing to it.
TmpInode(p) == IF tmp[Current(p)] # None THEN {tmp[Current(p)]}
               ELSE {i \in Inode : ~InUse(i)}

OpenTmp(p) ==
  /\ pc[p] = "opening"
  /\ \E i \in TmpInode(p) :
       /\ tmp' = [tmp EXCEPT ![Current(p)] = i]
       /\ chunks' = [chunks EXCEPT ![i] = {}]
       /\ unflushed' = unflushed \ {i}
       /\ fp' = [fp EXCEPT ![p] = i]
  /\ sent' = [sent EXCEPT ![p] = 0]
  /\ pc' = [pc EXCEPT ![p] = "receiving"]
  /\ UNCHANGED <<dest, offline, at, outcome, crashes, failures>>

\* fopen failed, or curl_easy_init did and an empty ".tmp" stays behind.
OpenFails(p) ==
  /\ pc[p] = "opening"
  /\ failures < MaxFailures
  /\ failures' = failures + 1
  /\ \/ UNCHANGED <<tmp, chunks, unflushed>>
     \/ \E i \in TmpInode(p) :
          /\ tmp' = [tmp EXCEPT ![Current(p)] = i]
          /\ chunks' = [chunks EXCEPT ![i] = {}]
          /\ unflushed' = unflushed \ {i}
  /\ Unavailable(p)
  /\ UNCHANGED <<dest, offline, fp, sent, crashes>>

\* write_callback: the chunk goes to the process's own offset of its inode.
Receive(p) ==
  /\ pc[p] = "receiving"
  /\ sent[p] < NumChunks
  /\ sent' = [sent EXCEPT ![p] = @ + 1]
  /\ chunks' = [chunks EXCEPT ![fp[p]] = @ \cup {sent[p] + 1}]
  /\ UNCHANGED <<dest, tmp, pc, offline, at, fp, outcome, unflushed, crashes, failures>>

\* curl_easy_perform failed: fclose, then remove whatever is at tmp_path.
TransferFails(p) ==
  /\ pc[p] = "receiving"
  /\ failures < MaxFailures
  /\ failures' = failures + 1
  /\ fp' = [fp EXCEPT ![p] = None]
  /\ tmp' = [tmp EXCEPT ![Current(p)] = None]
  /\ Unavailable(p)
  /\ UNCHANGED <<dest, chunks, offline, sent, unflushed, crashes>>

\* Mutant: a transfer that broke off counts as a complete one.
ReceivedSome(p) == sent[p] > 0

Received(p) == sent[p] = NumChunks

\* curl_easy_perform succeeded; fclose flushes, and nobody looks whether it
\* could: on a full disk the last chunk is lost.
CloseFile(p) ==
  /\ pc[p] = "receiving"
  /\ Received(p)
  /\ \/ UNCHANGED <<chunks, unflushed, failures>>
     \/ /\ failures < MaxFailures
        /\ failures' = failures + 1
        /\ chunks' = [chunks EXCEPT ![fp[p]] = @ \ {NumChunks}]
        /\ unflushed' = unflushed \cup {fp[p]}
  /\ fp' = [fp EXCEPT ![p] = None]
  /\ pc' = [pc EXCEPT ![p] = "removing"]
  /\ UNCHANGED <<dest, tmp, offline, at, sent, outcome, crashes>>

\* remove(dest_path)
RemoveDest(p) ==
  /\ pc[p] = "removing"
  /\ dest' = [dest EXCEPT ![Current(p)] = None]
  /\ pc' = [pc EXCEPT ![p] = "renaming"]
  /\ UNCHANGED <<tmp, chunks, offline, at, fp, sent, outcome, unflushed, crashes, failures>>

\* rename(tmp_path, dest_path).
Rename(p) ==
  /\ pc[p] = "renaming"
  /\ tmp[Current(p)] # None
  /\ dest' = [dest EXCEPT ![Current(p)] = tmp[Current(p)]]
  /\ tmp' = [tmp EXCEPT ![Current(p)] = None]
  /\ NextFile(p)
  /\ UNCHANGED <<chunks, offline, fp, sent, unflushed, crashes, failures>>

\* rename fails: another process renamed or removed the ".tmp", or the file
\* system refuses.  What is at tmp_path is removed.
RenameFails(p) ==
  /\ pc[p] = "renaming"
  /\ \/ tmp[Current(p)] = None /\ UNCHANGED failures
     \/ failures < MaxFailures /\ failures' = failures + 1
  /\ tmp' = [tmp EXCEPT ![Current(p)] = None]
  /\ Unavailable(p)
  /\ UNCHANGED <<dest, chunks, offline, fp, sent, unflushed, crashes>>

\* The process dies; what it left on the disk stays.
Crash(p) ==
  /\ Running(p)
  /\ crashes < MaxCrashes
  /\ crashes' = crashes + 1
  /\ pc' = [pc EXCEPT ![p] = "idle"]
  /\ fp' = [fp EXCEPT ![p] = None]
  /\ UNCHANGED <<disk, offline, at, sent, outcome, unflushed, failures>>

Next ==
  \E p \in Process :
    \/ \E off \in BOOLEAN : EnsureModel(p, off)
    \/ CheckFile(p)
    \/ OpenTmp(p) \/ OpenFails(p)
    \/ Receive(p) \/ TransferFails(p) \/ CloseFile(p)
    \/ RemoveDest(p) \/ Rename(p) \/ RenameFails(p)
    \/ Crash(p)

\* A call runs on and the server answers: curl has no timeout set, so a
\* stalled transfer is excluded here, not by the code.  A caller that is free
\* to call again keeps doing so online, whatever it calls offline in between.
Fairness ==
  \A p \in Process :
    /\ SF_vars(EnsureModel(p, FALSE))
    /\ WF_vars(CheckFile(p) \/ OpenTmp(p) \/ Receive(p) \/ CloseFile(p)
               \/ RemoveDest(p) \/ Rename(p) \/ RenameFails(p))

Spec == Init /\ [][Next]_vars /\ Fairness

-----------------------------------------------------------------------------
\* With one process at a time, whatever crashes and failed transfers there
\* were, one thing alone puts an incomplete file at its final path: an fclose
\* that could not write the last buffer.
IncompleteOnlyUnflushed ==
  Alone => \A f \in File :
             dest[f] # None => Complete(dest[f]) \/ dest[f] \in unflushed

\* Two processes that fetch the same file may rename each other's unfinished
\* ".tmp".  As long as no transfer fails and no process dies, a file that is
\* incomplete at its final path is still being written by the process that
\* has it open, and so becomes complete.
TornOnlyWhileWritten ==
  ~Alone => \A f \in File :
              dest[f] # None => Complete(dest[f]) \/ \E p \in Process : fp[p] = dest[f]

\* Once failures and crashes end, a process that tries again, alone, makes the
\* model available, whatever was left in the cache directory.
EventuallyCached ==
  <>[](Alone => \A f \in File \ Optional :
                  dest[f] # None /\ (Complete(dest[f]) \/ dest[f] \in unflushed))
=============================================================================
