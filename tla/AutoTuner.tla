----------------------------- MODULE AutoTuner -----------------------------
(***************************************************************************)
(* The auto-tuners (detail/autotune_bench_text.hpp, _reranker.hpp,         *)
(* _image.hpp, _sparse.hpp) behind the unified entry points                *)
(* (detail/autotuner_impl.hpp) in any number of processes.  A text or      *)
(* reranker tuner reads its cache file; when there is none it measures one *)
(* configuration after the other, keeps the best and writes the file.  The *)
(* file is opened, which truncates it, filled and closed without a lock,   *)
(* and is found empty in between.  Image and sparse tuners have no file.   *)
(*                                                                         *)
(* One model is tuned: each has its own file.  The mode (quick or full)    *)
(* only changes the grid and the repetitions, so a grid is a constant.  A  *)
(* measurement is what the benchmark returns, any of a set of latencies;   *)
(* the throughput is its inverse, so a larger latency is a smaller         *)
(* throughput.  Clearing the reranker's cache of one model removes a path  *)
(* no tuner writes and is a stuttering step.                               *)
(***************************************************************************)
EXTENDS Integers, Sequences, FiniteSetsExt, Functions

CONSTANTS
  Process,
  Config,     \* configurations: records with workers, max_tokens and the rest
  configs,    \* [Task -> those its tuners try, in order]
  Objective,  \* a subset of {"LATENCY", "THROUGHPUT", "BALANCED", "MEMORY"}
  Latency,    \* latencies a benchmark can measure
  Budget,     \* latency budgets callers ask for
  MinTokens,  \* lower bounds on max_tokens callers ask for
  MaxCalls,   \* bound on the calls made
  MaxCrashes, \* bound on the processes that die
  Empty,      \* what a file holds between open and close
  None

Task == {"text", "reranker", "image", "sparse"}

ASSUME ConfigAssumption ==
  \A c \in Config :
    {"workers", "max_tokens"} \subseteq DOMAIN c /\ c.workers \in Nat /\ c.max_tokens \in Nat
ASSUME ConfigsAssumption == configs \in [Task -> Seq(Config) \ {<<>>}]
ASSUME BoundsAssumption ==
  (\A b \in Budget : b \in Int) /\ (\A m \in MinTokens : m \in Int)
\* In milliseconds.  From 20 s on the throughput score of a configuration is
\* no better than that of none.
ASSUME LatencyAssumption == \A l \in Latency : l \in Int /\ 0 < l /\ l < 20000

VARIABLES
  file,    \* [Task -> None, Empty or the result in the cache file]
  job,     \* [Process -> the call it is in, or None]
  answer,  \* what the last step returned to its caller, or None
  calls,   \* number of calls made so far
  crashes, \* number of processes that died so far
  cut      \* history: tasks whose file a dead process left empty

vars == <<file, job, answer, calls, crashes, cut>>

\* Those of the grid, and those a bound on max_tokens leads to.
Configurations ==
  Config \cup {[c EXCEPT !.max_tokens = m] : c \in Config, m \in MinTokens}

\* The latency of a configuration whose context was not created.
Unmeasured == 999999

\* What a benchmark returns, of a context that was created or was not.  Nothing
\* tells whether the calls it timed succeeded: a failing one is timed as well.
Measured(c, p50, p95) == [config |-> c, created |-> TRUE, p50 |-> p50, p95 |-> p95]
Failed(c) == [config |-> c, created |-> FALSE, p50 |-> Unmeasured, p95 |-> 0]

\* The value best starts with, and an answer that was never filled in.
Nothing == Failed(None)
Garbage == [config |-> None, created |-> FALSE, p50 |-> 0, p95 |-> 0]

\* Only the reranker's benchmark reports a second latency.
Benchmarks(task, c) ==
  {Failed(c)} \cup
    {Measured(c, l[1], l[2]) :
       l \in {m \in Latency \X Latency :
               IF task = "reranker" THEN m[1] <= m[2] ELSE m[1] = m[2]}}

Outcome == UNION {Benchmarks(task, c) : task \in Task, c \in Configurations}

\* A configuration to try at each of some positions of a grid, in their order.
Plan ==
  UNION {[at -> Configurations] : at \in UNION {SUBSET (DOMAIN configs[task]) : task \in Task}}

\* A call of a tuner: where it stands, what it was asked, what it has left to
\* try and the best so far.  History: what it saw, and saw before it fell
\* back, and whether the file it writes can still be found.
Jobs ==
  [pc : {"measure", "write"}, task : Task,
   kind : {"text", "tune", "fallback", "constrained", "auto_config", "uncached"},
   objective : Objective \cup {"none"}, min_tokens : Int, budget : Int,
   todo : Plan, best : Outcome \cup {Nothing}, seen : SUBSET Outcome,
   tried : SUBSET Latency, linked : BOOLEAN]

\* None and Empty stand for what is none of these.
ASSUME MarkersAssumption ==
  /\ None # Empty /\ None \notin Configurations /\ None \notin Jobs
  /\ Empty \notin Outcome \cup {Nothing}

-----------------------------------------------------------------------------
Penalty(excess) == IF excess > 0 THEN excess ELSE 0

\* Five times score_text_config: throughput, less one for every worker above
\* five, less one for every five milliseconds above twenty.  A context that
\* was not created counts as throughput 0 at latency 0.  Larger is better.
score_text_config(r) ==
  (IF r.created THEN 5 * (1000 \div r.p50) - Penalty(r.p50 - 20) ELSE 0)
    - 5 * Penalty(r.config.workers - 5)

\* An order-preserving form of score_reranker_config: throughput and memory
\* (always reported as 0) rank by p50, as the balanced score does.  Smaller
\* is better.
score_reranker_config(r, objective) ==
  IF objective = "LATENCY" THEN r.p50 + r.p95 ELSE 2 * r.p50

\* Mutant: the worst configuration is kept.
BetterReversed(j, r) ==
  CASE j.kind = "text" ->
         j.best = Nothing \/ score_text_config(r) < score_text_config(j.best)
    [] j.kind \in {"auto_config", "uncached"} ->
         r.created /\ (~j.best.created \/ r.p50 > j.best.p50)
    [] OTHER ->
         score_reranker_config(r, j.objective)
           > score_reranker_config(j.best, j.objective)

\* Whether result r replaces the best one so far.
Better(j, r) ==
  CASE j.kind = "text" ->
         j.best = Nothing \/ score_text_config(r) > score_text_config(j.best)
    [] j.kind \in {"auto_config", "uncached"} ->
         r.created /\ (~j.best.created \/ r.p50 < j.best.p50)
    [] OTHER ->
         score_reranker_config(r, j.objective)
           < score_reranker_config(j.best, j.objective)

\* Mutant: the budget is compared with the median.
FitsMedian(j, r) == j.kind \in {"constrained", "auto_config"} => r.p50 <= j.budget

Fits(j, r) == j.kind \in {"constrained", "auto_config"} => r.p95 <= j.budget

\* The part of the grid with enough tokens; when there is none, the grid
\* with max_tokens set to the bound, every configuration once.
Grid(min_tokens) ==
  LET all == configs["reranker"]
      enough == {i \in DOMAIN all : all[i].max_tokens >= min_tokens}
      raised == [i \in DOMAIN all |-> [all[i] EXCEPT !.max_tokens = min_tokens]]
      first == {i \in DOMAIN all : \A k \in 1..(i - 1) : raised[k] # raised[i]}
  IN IF enough # {} THEN Restrict(all, enough) ELSE Restrict(raised, first)

-----------------------------------------------------------------------------
Init ==
  /\ file = [t \in Task |-> None]
  /\ job = [p \in Process |-> None]
  /\ answer = None
  /\ calls = 0
  /\ crashes = 0
  /\ cut = {}

Idle(p) == job[p] = None

\* A tuner's job as it starts.
Job(task, kind, objective, min_tokens, budget, grid) ==
  [pc |-> "measure", task |-> task, kind |-> kind, objective |-> objective,
   min_tokens |-> min_tokens, budget |-> budget, todo |-> grid,
   best |-> Nothing, seen |-> {}, tried |-> {}, linked |-> TRUE]

UsesFile(j) == j.kind \in {"text", "tune", "fallback"}

\* lembed_autotune_unified: the job each task starts.
Unified(task) ==
  CASE task = "text" -> {Job(task, "text", "none", 0, 0, configs[task])}
    [] task = "reranker" ->
         {Job(task, "tune", o, 0, 0, configs[task]) : o \in Objective}
    [] OTHER -> {Job(task, "uncached", "none", 0, 0, configs[task])}

\* lembed_autotune_unified_config: only the reranker minds the budget, and
\* sparse embedding is not supported.
UnifiedWithin(task, budget) ==
  CASE task = "reranker" ->
         {Job(task, "auto_config", o, 0, budget, configs[task]) : o \in Objective}
    [] task = "sparse" -> {}
    [] OTHER -> Unified(task)

\* A call returns r; j is the call, kept for what it was asked and saw.
Answered(p, j, r, source) ==
  /\ job' = [job EXCEPT ![p] = None]
  /\ answer' = [job |-> j, result |-> r, source |-> source]

CacheHit(task) == file[task] # None

\* Every field of the result keeps what was in memory when the file is empty.
Cached(task) == IF file[task] = Empty THEN Garbage ELSE file[task]

\* A tuner up to the first benchmark.  autotune_text_impl and
\* lembed_reranker_autotune_impl look at the file first, whatever the
\* objective; the other tuners do not.
Tune(p, j) ==
  IF UsesFile(j) /\ CacheHit(j.task)
  THEN Answered(p, j, Cached(j.task), "file")
  ELSE /\ job' = [job EXCEPT ![p] = j]
       /\ answer' = None

Autotune(p) ==
  /\ Idle(p)
  /\ calls < MaxCalls
  /\ \E task \in Task : \E j \in Unified(task) : Tune(p, j)
  /\ calls' = calls + 1
  /\ UNCHANGED <<file, crashes, cut>>

\* With a budget, or with a budget and a bound on max_tokens
\* (lembed_reranker_autotune_constrained).
AutotuneWithin(p) ==
  /\ Idle(p)
  /\ calls < MaxCalls
  /\ \E budget \in Budget :
       \/ \E task \in Task : \E j \in UnifiedWithin(task, budget) : Tune(p, j)
       \/ \E o \in Objective, m \in MinTokens :
            Tune(p, Job("reranker", "constrained", o, m, budget, Grid(m)))
  /\ calls' = calls + 1
  /\ UNCHANGED <<file, crashes, cut>>

\* The positions of the grid a call has not reached.
Left(j) == DOMAIN j.todo

\* One turn of the loop over the configurations, with result r.
Turn(j, r) ==
  [j EXCEPT !.todo = Restrict(@, Left(j) \ {Min(Left(j))}), !.seen = @ \cup {r},
            !.best = IF Fits(j, r) /\ Better(j, r) THEN r ELSE @]

Bench(p) ==
  /\ ~Idle(p)
  /\ job[p].pc = "measure"
  /\ Left(job[p]) # {}
  /\ \E r \in Benchmarks(job[p].task, job[p].todo[Min(Left(job[p]))]) :
       job' = [job EXCEPT ![p] = Turn(job[p], r)]
  /\ answer' = None
  /\ UNCHANGED <<file, calls, crashes, cut>>

\* The job of a tuner with a budget once it goes on without.
FallenBack(j) ==
  [j EXCEPT !.kind = "fallback", !.todo = configs["reranker"],
            !.tried = {r.p95 : r \in {s \in j.seen : s.created}}, !.seen = {}]

\* A tuner without a file returns what it found.  Those with a budget fall
\* back to the unconstrained tuner when they found nothing.
Conclude(p) ==
  /\ ~Idle(p)
  /\ job[p].pc = "measure"
  /\ Left(job[p]) = {}
  /\ ~UsesFile(job[p])
  /\ IF job[p].best # Nothing \/ job[p].kind = "uncached"
     THEN Answered(p, job[p], job[p].best, "own")
     ELSE Tune(p, FallenBack(job[p]))
  /\ UNCHANGED <<file, calls, crashes, cut>>

\* ofstream truncates the file, or makes it; create_directories comes first.
OpenFile(p) ==
  /\ ~Idle(p)
  /\ job[p].pc = "measure"
  /\ Left(job[p]) = {}
  /\ UsesFile(job[p])
  /\ file' = [file EXCEPT ![job[p].task] = Empty]
  /\ job' = [job EXCEPT ![p].pc = "write", ![p].linked = TRUE]
  /\ cut' = cut \ {job[p].task}
  /\ answer' = None
  /\ UNCHANGED <<calls, crashes>>

\* The file cannot be opened: the result is returned all the same.
OpenFails(p) ==
  /\ ~Idle(p)
  /\ job[p].pc = "measure"
  /\ Left(job[p]) = {}
  /\ UsesFile(job[p])
  /\ Answered(p, job[p], job[p].best, "own")
  /\ UNCHANGED <<file, calls, crashes, cut>>

\* A file removed since it was opened is written where nobody finds it.
ReachesFile(p) == job[p].linked

\* Mutant: nothing is written when no configuration was found.
CloseFileSkipping(p) ==
  /\ ~Idle(p)
  /\ job[p].pc = "write"
  /\ file' = IF ReachesFile(p) /\ job[p].best # Nothing
             THEN [file EXCEPT ![job[p].task] = job[p].best] ELSE file
  /\ cut' = IF ReachesFile(p) THEN cut \ {job[p].task} ELSE cut
  /\ Answered(p, job[p], job[p].best, "own")
  /\ UNCHANGED <<calls, crashes>>

\* The text goes out in one piece when the stream is closed.
CloseFile(p) ==
  /\ ~Idle(p)
  /\ job[p].pc = "write"
  /\ file' = IF ReachesFile(p) THEN [file EXCEPT ![job[p].task] = job[p].best] ELSE file
  /\ cut' = IF ReachesFile(p) THEN cut \ {job[p].task} ELSE cut
  /\ Answered(p, job[p], job[p].best, "own")
  /\ UNCHANGED <<calls, crashes>>

Crash(p) ==
  /\ ~Idle(p)
  /\ crashes < MaxCrashes
  /\ crashes' = crashes + 1
  /\ job' = [job EXCEPT ![p] = None]
  /\ answer' = None
  /\ cut' = IF job[p].pc = "write" /\ job[p].linked /\ file[job[p].task] = Empty
            THEN cut \cup {job[p].task} ELSE cut
  /\ UNCHANGED <<file, calls>>

\* clear_autotune_cache: the text model's file, or the directory of the
\* reranker, or the whole directory, of which that is a part.
ClearCache ==
  \E gone \in {{"text"}, {"reranker"}, Task} :
    /\ \E t \in gone : file[t] # None
    /\ file' = [t \in Task |-> IF t \in gone THEN None ELSE file[t]]
    /\ job' = [p \in Process |->
                 IF ~Idle(p) /\ job[p].task \in gone
                 THEN [job[p] EXCEPT !.linked = FALSE] ELSE job[p]]
    /\ cut' = cut \ gone
    /\ answer' = None
  /\ UNCHANGED <<calls, crashes>>

Step(p) ==
  Bench(p) \/ Conclude(p) \/ OpenFile(p) \/ OpenFails(p) \/ CloseFile(p)

Next ==
  \/ \E p \in Process : Autotune(p) \/ AutotuneWithin(p) \/ Step(p) \/ Crash(p)
  \/ ClearCache

Spec == Init /\ [][Next]_vars

-----------------------------------------------------------------------------
\* A cache file is empty, and an answer from it garbage, only while some
\* tuner has it open or after one died that had.
EmptyOnlyWhileWritten ==
  \A t \in Task :
    file[t] = Empty =>
      t \in cut \/ \E p \in Process :
                     ~Idle(p) /\ job[p].task = t /\ job[p].pc = "write" /\ job[p].linked

\* What a call asks to be small.  Only the reranker's tuners mind an
\* objective, and the one for a target latency minds the throughput.
Cost(j, r) ==
  IF j.kind \in {"tune", "fallback", "constrained"} /\ j.objective = "LATENCY"
    THEN r.p50 + r.p95 ELSE r.p50

\* An answer the call measured itself has the best score of what the call
\* measured, for the objective asked for: of the configurations whose context
\* was created, and that fit where a budget was given; it is nothing only
\* where there was none.  The text tuner scores those without a context as
\* well, and answers one of them where no other scores more.  That is not the
\* best of what works: no tuner minds what embed or rerank returned, so a
\* configuration whose calls all fail competes with the time they took to.
BestOfMeasured ==
  answer # None /\ answer.source = "own" =>
      LET j == answer.job
          r == answer.result
          good == {s \in j.seen : /\ s.created
                                  /\ j.kind \in {"constrained", "auto_config"} =>
                                       s.p95 <= j.budget}
      IN IF j.kind = "text"
           THEN r \in j.seen /\ \A s \in j.seen : score_text_config(s) <= score_text_config(r)
         ELSE IF good = {} THEN r = Nothing
         ELSE r \in good /\ \A s \in good : Cost(j, r) <= Cost(j, s)

\* A constrained tuner's own answer has enough tokens and its 95th percentile
\* is within the budget; it falls back only when no configuration that worked
\* was.
ConstraintsHeldUnlessNoneFits ==
  answer # None =>
      LET j == answer.job
          r == answer.result
      IN /\ j.kind \in {"constrained", "auto_config"} =>
              r.p95 <= j.budget /\ r.config.max_tokens >= j.min_tokens
         /\ j.kind = "fallback" => \A p95 \in j.tried : p95 > j.budget

=============================================================================
