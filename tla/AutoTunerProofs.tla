-------------------------- MODULE AutoTunerProofs --------------------------
(***************************************************************************)
(* What holds of the tuners for every number of processes, grid, set of    *)
(* latencies, budgets and bounds on max_tokens, and any number of calls    *)
(* and crashes.                                                            *)
(***************************************************************************)
EXTENDS AutoTuner, FiniteSetTheorems, WellFoundedInduction, TLAPS

Budgeted(j) == j.kind \in {"constrained", "auto_config"}

\* What a call saw that worked and fits.
Good(j) == {s \in j.seen : s.created /\ Fits(j, s)}

\* The best so far is the best of what was seen.
Chosen(j) ==
  IF j.kind = "text"
    THEN \/ j.best = Nothing /\ j.seen = {}
         \/ /\ j.best \in j.seen
            /\ \A s \in j.seen : score_text_config(s) <= score_text_config(j.best)
    ELSE \/ j.best = Nothing /\ Good(j) = {}
         \/ j.best \in Good(j) /\ \A s \in Good(j) : Cost(j, j.best) <= Cost(j, s)

\* A tuner with a bound on max_tokens tries nothing below it.
Enough(j) ==
  Budgeted(j) =>
    /\ \A i \in Left(j) : j.todo[i].max_tokens >= j.min_tokens
    /\ \A s \in j.seen : s.config.max_tokens >= j.min_tokens

JobInv(j) ==
  /\ j \in Jobs
  /\ j.pc = "write" => Left(j) = {} /\ UsesFile(j)
  /\ j.seen = {} => Left(j) # {}
  /\ Chosen(j)
  /\ Enough(j)
  /\ j.kind = "fallback" => \A x \in j.tried : x > j.budget

TunerInv ==
  /\ file \in [Task -> Outcome \cup {Nothing, Empty, None}]
  /\ job \in [Process -> Jobs \cup {None}]
  /\ \A p \in Process : ~Idle(p) => JobInv(job[p])
  /\ EmptyOnlyWhileWritten

Inv == TunerInv /\ BestOfMeasured /\ ConstraintsHeldUnlessNoneFits

-----------------------------------------------------------------------------
(* Results and their scores. *)

\* A configuration has numbers of workers and of tokens.
LEMMA ConfigurationTyped ==
  ASSUME NEW c \in Configurations
  PROVE  c.workers \in Int /\ c.max_tokens \in Int /\ c # None
<1>1. c # None
  BY MarkersAssumption
<1>2. CASE c \in Config
  BY <1>1, <1>2, ConfigAssumption
<1>3. CASE c \notin Config
  <2>1. PICK d \in Config, m \in MinTokens : c = [d EXCEPT !.max_tokens = m]
    BY <1>3 DEF Configurations
  <2>2. m \in Int /\ "workers" \in DOMAIN d /\ "max_tokens" \in DOMAIN d /\ d.workers \in Nat
    BY BoundsAssumption, ConfigAssumption
  <2>3. c.workers = d.workers /\ c.max_tokens = m
    BY <2>1, <2>2
  <2> QED BY <1>1, <2>2, <2>3
<1> QED BY <1>2, <1>3

\* A benchmark's result is of the configuration it was given.
LEMMA BenchmarkTyped ==
  ASSUME NEW task \in Task, NEW c \in Configurations, NEW r \in Benchmarks(task, c)
  PROVE  r \in Outcome /\ r.config = c
<1>1. r \in Outcome
  BY DEF Outcome
<1>2. r.config = c
  BY DEF Benchmarks, Failed, Measured
<1> QED BY <1>1, <1>2

\* No two latencies are together what a failed benchmark reports.
LEMMA UnmeasuredIsSlow == Unmeasured \in Int /\ 40000 < Unmeasured
BY SMT DEF Unmeasured

\* What a result can be: two latencies, or those of one that failed.
LEMMA OutcomeTyped ==
  ASSUME NEW s \in Outcome
  PROVE  /\ s.config \in Configurations /\ s.created \in BOOLEAN
         /\ s.created => s.p50 \in Latency /\ s.p95 \in Latency
         /\ ~s.created => s.p50 = Unmeasured /\ s.p95 = 0
         /\ s.p50 \in Int /\ s.p95 \in Int
         /\ s # Nothing
<1>1. PICK task \in Task, c \in Configurations : s \in Benchmarks(task, c)
  BY DEF Outcome
<1>2. c # None
  BY ConfigurationTyped
<1>3. CASE s = Failed(c)
  <2>1. s.config = c /\ s.created = FALSE /\ s.p50 = Unmeasured /\ s.p95 = 0
    BY <1>3 DEF Failed
  <2>2. s # Nothing
    BY <1>2, <2>1 DEF Nothing, Failed
  <2>3. s.p50 \in Int /\ s.p95 \in Int
    BY <2>1, UnmeasuredIsSlow
  <2>4. s.created \in BOOLEAN /\ ~s.created
    BY <2>1
  <2> QED BY <2>1, <2>2, <2>3, <2>4
<1>4. CASE s # Failed(c)
  <2>1. PICK l \in Latency \X Latency : s = Measured(c, l[1], l[2])
    BY <1>1, <1>4 DEF Benchmarks
  <2>2. l[1] \in Latency /\ l[2] \in Latency
    OBVIOUS
  <2>3. l[1] \in Int /\ l[2] \in Int
    BY <2>2, LatencyAssumption
  <2>4. s.config = c /\ s.created = TRUE /\ s.p50 = l[1] /\ s.p95 = l[2]
    BY <2>1 DEF Measured
  <2>5. s # Nothing
    BY <1>2, <2>4 DEF Nothing, Failed
  <2> QED BY <2>2, <2>3, <2>4, <2>5
<1> QED BY <1>3, <1>4

\* Scores and costs are numbers.
LEMMA ScoreTyped ==
  ASSUME NEW s \in Outcome, NEW j
  PROVE  score_text_config(s) \in Int /\ Cost(j, s) \in Int
<1>1. /\ s.config \in Configurations /\ s.created \in BOOLEAN
      /\ s.created => s.p50 \in Latency
      /\ s.p50 \in Int /\ s.p95 \in Int
  BY OutcomeTyped
<1>2. s.config.workers \in Int
  BY <1>1, ConfigurationTyped
<1>3. Penalty(s.p50 - 20) \in Int /\ Penalty(s.config.workers - 5) \in Int
  BY <1>1, <1>2 DEF Penalty
<1>4. CASE s.created
  <2>1. s.p50 \in Int /\ 0 < s.p50
    BY <1>1, <1>4, LatencyAssumption
  <2>2. 1000 \div s.p50 \in Int
    BY <2>1, SMT
  <2>3. 5 * (1000 \div s.p50) \in Int
    BY <2>2
  <2> QED BY <1>1, <1>3, <1>4, <2>3 DEF score_text_config, Cost
<1>5. CASE ~s.created
  BY <1>1, <1>3, <1>5 DEF score_text_config, Cost
<1> QED BY <1>1, <1>4, <1>5

-----------------------------------------------------------------------------
(* Grids. *)

\* A set of numbers from 0 on that is not empty has a least one.
LEMMA LeastElement ==
  ASSUME NEW T \in SUBSET Nat, T # {}
  PROVE  \E m \in T : \A k \in T : m <= k
<1> DEFINE Below == {0..x : x \in T}
           R == StrictSubsetOrdering(Nat)
<1>1. Below \subseteq FiniteSubsetsOf(Nat)
  <2> SUFFICES ASSUME NEW x \in T PROVE 0..x \in FiniteSubsetsOf(Nat)
    OBVIOUS
  <2>1. x \in Int /\ 0 \in Int /\ 0..x \subseteq Nat
    OBVIOUS
  <2>2. IsFiniteSet(0..x)
    BY <2>1, FS_Interval
  <2> QED BY <2>1, <2>2 DEF FiniteSubsetsOf
<1>2. Below # {}
  OBVIOUS
<1>3. IsWellFoundedOn(R, FiniteSubsetsOf(Nat))
  BY FS_StrictSubsetOrderingWellFounded
<1> HIDE DEF Below, R
<1>4. PICK X \in Below : \A Y \in Below : ~(<<Y, X>> \in R)
  BY <1>1, <1>2, <1>3, WFMin
<1>5. PICK m \in T : X = 0..m
  BY DEF Below
<1>6. ASSUME NEW k \in T, k < m PROVE FALSE
  <2>1. 0..k \in Below
    BY DEF Below
  <2>2. 0..k \subseteq 0..m /\ 0..k # 0..m /\ 0..m \subseteq Nat
    <3>1. k \in Nat /\ m \in Nat
      OBVIOUS
    <3>2. m \in 0..m /\ m \notin 0..k
      BY <1>6, <3>1
    <3> QED BY <1>6, <3>1, <3>2
  <2>3. <<0..k, 0..m>> \in R
    BY <2>2 DEF R, StrictSubsetOrdering
  <2> QED BY <1>4, <1>5, <2>1, <2>3
<1>7. \A k \in T : m <= k
  BY <1>6
<1> QED BY <1>7

\* The next position to try is one that is left.
LEMMA MinIsLeft ==
  ASSUME NEW S \in SUBSET Nat, S # {}
  PROVE  Min(S) \in S
<1>1. \E m \in S : \A k \in S : m <= k
  BY LeastElement
<1> QED BY <1>1 DEF Min

\* The grids are sequences of configurations.
LEMMA GridTyped ==
  ASSUME NEW task \in Task
  PROVE  /\ DOMAIN configs[task] \subseteq Nat /\ 1 \in DOMAIN configs[task]
         /\ configs[task] = [i \in DOMAIN configs[task] |-> configs[task][i]]
         /\ \A i \in DOMAIN configs[task] : configs[task][i] \in Config
<1>1. configs[task] \in Seq(Config) /\ configs[task] # <<>>
  BY ConfigsAssumption
<1>2. Len(configs[task]) \in Nat \ {0} /\ DOMAIN configs[task] = 1..Len(configs[task])
  BY <1>1
<1>3. \A i \in 1..Len(configs[task]) : configs[task][i] \in Config
  BY <1>1
<1>4. configs[task] = [i \in DOMAIN configs[task] |-> configs[task][i]]
  BY <1>1
<1> QED BY <1>2, <1>3, <1>4

\* A plan for some positions of a grid.
LEMMA PlanTyped ==
  ASSUME NEW task \in Task, NEW at \in SUBSET (DOMAIN configs[task]),
         NEW plan \in [at -> Configurations]
  PROVE  plan \in Plan
BY DEF Plan

\* What is left of a plan is positions, with configurations at them, and one
\* position less is a plan again.
LEMMA PlanLeft ==
  ASSUME NEW plan \in Plan
  PROVE  /\ DOMAIN plan \in SUBSET Nat
         /\ \A i \in DOMAIN plan : plan[i] \in Configurations
         /\ \A less \in SUBSET (DOMAIN plan) :
              /\ Restrict(plan, less) \in Plan
              /\ DOMAIN Restrict(plan, less) = less
              /\ \A i \in less : Restrict(plan, less)[i] = plan[i]
<1>0. PICK at \in UNION {SUBSET (DOMAIN configs[t]) : t \in Task} :
        plan \in [at -> Configurations]
  BY DEF Plan
<1>1. PICK task \in Task : at \in SUBSET (DOMAIN configs[task]) /\ plan \in [at -> Configurations]
  BY <1>0
<1>2. DOMAIN plan = at /\ at \in SUBSET Nat /\ \A i \in at : plan[i] \in Configurations
  BY <1>1, GridTyped
<1>3. ASSUME NEW less \in SUBSET at
      PROVE  /\ Restrict(plan, less) \in Plan
             /\ DOMAIN Restrict(plan, less) = less
             /\ \A i \in less : Restrict(plan, less)[i] = plan[i]
  <2>1. less \in SUBSET (DOMAIN configs[task]) /\ \A i \in less : plan[i] \in Configurations
    BY <1>1, <1>2
  <2>2. Restrict(plan, less) \in [less -> Configurations]
    BY <2>1 DEF Restrict
  <2>3. Restrict(plan, less) \in Plan
    BY <2>1, <2>2, PlanTyped
  <2> QED BY <2>3 DEF Restrict
<1> QED BY <1>2, <1>3

\* Every tuner has something to try.
LEMMA GridPlanned ==
  ASSUME NEW task \in Task
  PROVE  configs[task] \in Plan /\ DOMAIN configs[task] # {}
<1>1. configs[task] \in [DOMAIN configs[task] -> Config] /\ DOMAIN configs[task] # {}
  BY GridTyped
<1>2. configs[task] \in [DOMAIN configs[task] -> Configurations]
  BY <1>1 DEF Configurations
<1> QED BY <1>1, <1>2, PlanTyped

\* The constrained tuner too, and all of it has enough tokens.
LEMMA GridEnough ==
  ASSUME NEW m \in MinTokens
  PROVE  /\ Grid(m) \in Plan /\ DOMAIN Grid(m) # {}
         /\ \A i \in DOMAIN Grid(m) : Grid(m)[i].max_tokens >= m
<1> DEFINE all == configs["reranker"]
           enough == {i \in DOMAIN all : all[i].max_tokens >= m}
           raised == [i \in DOMAIN all |-> [all[i] EXCEPT !.max_tokens = m]]
           first == {i \in DOMAIN all : \A k \in 1..(i - 1) : raised[k] # raised[i]}
<1>1. /\ all \in Plan /\ DOMAIN all \subseteq Nat /\ 1 \in DOMAIN all
      /\ \A i \in DOMAIN all : all[i] \in Config
  BY GridTyped, GridPlanned DEF Task
<1>2. CASE enough # {}
  <2>1. Grid(m) = Restrict(all, enough) /\ enough \in SUBSET (DOMAIN all)
    BY <1>2 DEF Grid
  <2> HIDE DEF all
  <2>2. Grid(m) \in Plan /\ DOMAIN Grid(m) = enough /\ \A i \in enough : Grid(m)[i] = all[i]
    BY <1>1, <2>1, PlanLeft
  <2> QED BY <1>2, <2>2
<1>3. CASE enough = {}
  <2>1. Grid(m) = Restrict(raised, first)
    BY <1>3 DEF Grid
  <2> HIDE DEF all
  <2>2. \A i \in DOMAIN all :
          raised[i] \in Configurations /\ raised[i].max_tokens = m
    <3> SUFFICES ASSUME NEW i \in DOMAIN all
                 PROVE  raised[i] \in Configurations /\ raised[i].max_tokens = m
      OBVIOUS
    <3>1. all[i] \in Config /\ "max_tokens" \in DOMAIN all[i]
      BY <1>1, ConfigAssumption
    <3> QED BY <3>1 DEF Configurations
  <2>3. 1 \in first /\ first \in SUBSET (DOMAIN all)
    BY <1>1
  <2>4. "reranker" \in Task /\ m \in Int
    BY BoundsAssumption DEF Task
  <2>5. raised \in [DOMAIN all -> Configurations]
    BY <2>2
  <2>6. raised \in Plan
    <3>1. raised \in [DOMAIN configs["reranker"] -> Configurations]
      BY <2>5 DEF all
    <3> HIDE DEF raised
    <3> QED BY <2>4, <3>1, PlanTyped
  <2>7. DOMAIN raised = DOMAIN all
    OBVIOUS
  <2> HIDE DEF raised, first
  <2>8. Grid(m) \in Plan /\ DOMAIN Grid(m) = first /\ \A i \in first : Grid(m)[i] = raised[i]
    BY <2>1, <2>3, <2>6, <2>7, PlanLeft
  <2> QED BY <2>2, <2>3, <2>4, <2>8
<1> QED BY <1>2, <1>3

-----------------------------------------------------------------------------
(* One turn of the loop. *)

\* Better keeps the better of two, in the order the call asks for.
LEMMA BetterText ==
  ASSUME NEW j \in Jobs, NEW r \in Outcome, j.kind = "text", j.best # Nothing
  PROVE  Better(j, r) <=> score_text_config(r) > score_text_config(j.best)
BY DEF Better

\* Once something was chosen, only something that worked and costs less is
\* chosen in its place; before, anything that worked.
LEMMA BetterCost ==
  ASSUME NEW j \in Jobs, NEW r \in Outcome, j.kind # "text"
  PROVE  /\ j.best = Nothing => (Better(j, r) <=> r.created)
         /\ j.best \in Outcome /\ j.best.created =>
              (Better(j, r) <=> r.created /\ Cost(j, r) < Cost(j, j.best))
<1>1. /\ r.created \in BOOLEAN /\ r.p50 \in Int /\ r.p95 \in Int
      /\ r.created => r.p50 \in Latency /\ r.p95 \in Latency
      /\ ~r.created => r.p50 = Unmeasured /\ r.p95 = 0
  BY OutcomeTyped
<1>2. r.created => r.p50 < 20000 /\ r.p95 < 20000
  BY <1>1, LatencyAssumption
<1>3. Nothing.created = FALSE /\ Nothing.p50 = Unmeasured /\ Nothing.p95 = 0
  BY DEF Nothing, Failed
<1>4. j.kind \in {"tune", "fallback", "constrained", "auto_config", "uncached"}
  BY DEF Jobs
<1>5. ASSUME j.best = Nothing PROVE Better(j, r) <=> r.created
  <2>1. CASE j.kind \in {"auto_config", "uncached"}
    BY <1>3, <1>5, <2>1 DEF Better
  <2>2. CASE j.kind \notin {"auto_config", "uncached"}
    <3>1. Better(j, r) <=> score_reranker_config(r, j.objective)
                             < score_reranker_config(Nothing, j.objective)
      BY <1>5, <2>2 DEF Better
    <3> QED BY <1>1, <1>2, <1>3, <3>1, UnmeasuredIsSlow DEF score_reranker_config
  <2> QED BY <2>1, <2>2
<1>6. ASSUME j.best \in Outcome, j.best.created
      PROVE  Better(j, r) <=> r.created /\ Cost(j, r) < Cost(j, j.best)
  <2>1. /\ j.best.p50 \in Int /\ j.best.p95 \in Int
        /\ j.best.p50 \in Latency /\ j.best.p95 \in Latency
    BY <1>6, OutcomeTyped
  <2>2. j.best.p50 < 20000 /\ j.best.p95 < 20000
    BY <2>1, LatencyAssumption
  <2>3. CASE j.kind \in {"auto_config", "uncached"}
    <3>1. Cost(j, r) = r.p50 /\ Cost(j, j.best) = j.best.p50
      BY <2>3 DEF Cost
    <3> QED BY <1>6, <2>3, <3>1 DEF Better
  <2>4. CASE j.kind \notin {"auto_config", "uncached"}
    <3>1. Better(j, r) <=> score_reranker_config(r, j.objective)
                             < score_reranker_config(j.best, j.objective)
      BY <2>4 DEF Better
    <3>2. j.kind \in {"tune", "fallback", "constrained"}
      BY <1>4, <2>4
    <3> QED BY <1>1, <1>2, <2>1, <2>2, <3>1, <3>2, UnmeasuredIsSlow
            DEF score_reranker_config, Cost
  <2> QED BY <2>3, <2>4
<1> QED BY <1>5, <1>6

\* What a turn changes and what it leaves.
LEMMA TurnTyped ==
  ASSUME NEW j \in Jobs, NEW r \in Outcome, Left(j) # {}
  PROVE  /\ Turn(j, r) \in Jobs
         /\ Left(Turn(j, r)) \subseteq Left(j)
         /\ \A i \in Left(Turn(j, r)) : Turn(j, r).todo[i] = j.todo[i]
         /\ Turn(j, r).seen = j.seen \cup {r}
         /\ Turn(j, r).best = IF Fits(j, r) /\ Better(j, r) THEN r ELSE j.best
         /\ Turn(j, r).pc = j.pc /\ Turn(j, r).kind = j.kind
         /\ Turn(j, r).objective = j.objective
         /\ Turn(j, r).min_tokens = j.min_tokens /\ Turn(j, r).budget = j.budget
         /\ Turn(j, r).tried = j.tried
<1> DEFINE less == Left(j) \ {Min(Left(j))}
           rest == Restrict(j.todo, less)
           seen == j.seen \cup {r}
           best == IF Fits(j, r) /\ Better(j, r) THEN r ELSE j.best
<1>1. j.todo \in Plan
  BY DEF Jobs
<1>2. less \in SUBSET (DOMAIN j.todo)
  BY DEF Left
<1>3. rest \in Plan /\ DOMAIN rest = less /\ \A i \in less : rest[i] = j.todo[i]
  BY <1>1, <1>2, PlanLeft
<1>4. best \in Outcome \cup {Nothing}
  BY DEF Jobs
<1>5. seen \in SUBSET Outcome
  BY DEF Jobs
<1>6. Turn(j, r) = [j EXCEPT !.todo = rest, !.seen = seen, !.best = best]
  BY DEF Turn
<1>7. less \subseteq Left(j)
  OBVIOUS
<1> HIDE DEF less, rest, seen, best
<1>8. Turn(j, r) \in Jobs
  BY <1>3, <1>4, <1>5, <1>6 DEF Jobs
<1>9. /\ Turn(j, r).todo = rest /\ Turn(j, r).seen = seen /\ Turn(j, r).best = best
      /\ Turn(j, r).pc = j.pc /\ Turn(j, r).kind = j.kind
      /\ Turn(j, r).objective = j.objective
      /\ Turn(j, r).min_tokens = j.min_tokens /\ Turn(j, r).budget = j.budget
      /\ Turn(j, r).tried = j.tried
  BY <1>6 DEF Jobs
<1> QED BY <1>3, <1>7, <1>8, <1>9 DEF Left, seen, best

\* After a turn the best is the best of one more.
LEMMA TurnChooses ==
  ASSUME NEW j \in Jobs, NEW r \in Outcome, Left(j) # {}, Chosen(j)
  PROVE  Chosen(Turn(j, r))
<1> DEFINE k == Turn(j, r)
<1>1. /\ k.seen = j.seen \cup {r} /\ j.seen \subseteq Outcome
      /\ k.best = IF Fits(j, r) /\ Better(j, r) THEN r ELSE j.best
      /\ k.kind = j.kind /\ k.objective = j.objective /\ k.budget = j.budget
  BY TurnTyped DEF Jobs
<1> SUFFICES Chosen(k)
  OBVIOUS
<1> HIDE DEF k
<1>2. \A s : Fits(k, s) <=> Fits(j, s)
  BY <1>1 DEF Fits
<1>3. \A s : Cost(k, s) = Cost(j, s)
  BY <1>1 DEF Cost
<1>4. Good(k) = IF r.created /\ Fits(j, r) THEN Good(j) \cup {r} ELSE Good(j)
  BY <1>1, <1>2 DEF Good
<1>5. \A s \in Outcome : score_text_config(s) \in Int /\ Cost(j, s) \in Int /\ s # Nothing
  BY ScoreTyped, OutcomeTyped
<1>6. CASE j.kind = "text"
  <2>1. Fits(j, r)
    BY <1>6 DEF Fits
  <2>2. CASE j.best = Nothing /\ j.seen = {}
    <3>1. Better(j, r)
      BY <1>6, <2>2 DEF Better
    <3>2. k.best = r /\ k.seen = {r}
      BY <1>1, <2>1, <2>2, <3>1
    <3> QED BY <1>1, <1>5, <1>6, <3>2 DEF Chosen
  <2>3. CASE /\ j.best \in j.seen
             /\ \A s \in j.seen : score_text_config(s) <= score_text_config(j.best)
    <3>1. j.best \in Outcome /\ j.best # Nothing
      BY <1>1, <1>5, <2>3
    <3>2. Better(j, r) <=> score_text_config(r) > score_text_config(j.best)
      BY <1>6, <3>1, BetterText
    <3>3. score_text_config(r) \in Int /\ score_text_config(j.best) \in Int
      BY <1>5, <3>1
    <3>4. ASSUME Better(j, r)
          PROVE  /\ k.best \in k.seen
                 /\ \A s \in k.seen : score_text_config(s) <= score_text_config(k.best)
      <4>1. k.best = r
        BY <1>1, <2>1, <3>4
      <4>2. ASSUME NEW s \in j.seen PROVE score_text_config(s) <= score_text_config(r)
        <5>1. score_text_config(s) \in Int /\ score_text_config(s) <= score_text_config(j.best)
          BY <1>1, <1>5, <2>3
        <5> QED BY <3>2, <3>3, <3>4, <5>1
      <4> QED BY <1>1, <3>3, <4>1, <4>2
    <3>5. ASSUME ~Better(j, r)
          PROVE  /\ k.best \in k.seen
                 /\ \A s \in k.seen : score_text_config(s) <= score_text_config(k.best)
      <4>1. k.best = j.best
        BY <1>1, <3>5
      <4>2. score_text_config(r) <= score_text_config(j.best)
        BY <3>2, <3>3, <3>5
      <4> QED BY <1>1, <2>3, <4>1, <4>2
    <3> QED BY <1>1, <1>6, <3>4, <3>5 DEF Chosen
  <2> QED BY <1>6, <2>2, <2>3 DEF Chosen
<1>7. CASE j.kind # "text"
  <2>1. Good(j) \subseteq Outcome /\ \A s \in Good(j) : s.created
    BY <1>1 DEF Good
  <2>2. CASE ~(r.created /\ Fits(j, r))
    <3>1. Good(k) = Good(j)
      BY <1>4, <2>2
    <3>2. j.best = Nothing \/ j.best \in Good(j)
      BY <1>7 DEF Chosen
    <3>3. ~(Fits(j, r) /\ Better(j, r))
      BY <1>7, <2>1, <2>2, <3>2, BetterCost
    <3>4. k.best = j.best
      BY <1>1, <3>3
    <3> QED BY <1>1, <1>3, <1>7, <3>1, <3>4 DEF Chosen
  <2>3. CASE r.created /\ Fits(j, r)
    <3>1. Good(k) = Good(j) \cup {r}
      BY <1>4, <2>3
    <3>2. CASE j.best = Nothing /\ Good(j) = {}
      <4>1. Better(j, r)
        BY <1>7, <2>3, <3>2, BetterCost
      <4>2. k.best = r /\ Good(k) = {r}
        BY <1>1, <2>3, <3>1, <3>2, <4>1
      <4> QED BY <1>1, <1>3, <1>5, <1>7, <4>2 DEF Chosen
    <3>3. CASE j.best \in Good(j) /\ \A s \in Good(j) : Cost(j, j.best) <= Cost(j, s)
      <4>1. j.best \in Outcome /\ j.best.created
        BY <2>1, <3>3
      <4>2. Better(j, r) <=> Cost(j, r) < Cost(j, j.best)
        BY <1>7, <2>3, <4>1, BetterCost
      <4>3. Cost(j, r) \in Int /\ Cost(j, j.best) \in Int
        BY <1>5, <4>1
      <4>4. ASSUME Better(j, r)
            PROVE  k.best \in Good(k) /\ \A s \in Good(k) : Cost(j, k.best) <= Cost(j, s)
        <5>1. k.best = r
          BY <1>1, <2>3, <4>4
        <5>2. ASSUME NEW s \in Good(j) PROVE Cost(j, r) <= Cost(j, s)
          <6>1. Cost(j, s) \in Int /\ Cost(j, j.best) <= Cost(j, s)
            BY <1>5, <2>1, <3>3
          <6> QED BY <4>2, <4>3, <4>4, <6>1
        <5> QED BY <3>1, <4>3, <5>1, <5>2
      <4>5. ASSUME ~Better(j, r)
            PROVE  k.best \in Good(k) /\ \A s \in Good(k) : Cost(j, k.best) <= Cost(j, s)
        <5>1. k.best = j.best
          BY <1>1, <4>5
        <5>2. Cost(j, j.best) <= Cost(j, r)
          BY <4>2, <4>3, <4>5
        <5> QED BY <3>1, <3>3, <5>1, <5>2
      <4> QED BY <1>1, <1>3, <1>7, <4>4, <4>5 DEF Chosen
    <3> QED BY <1>7, <3>2, <3>3 DEF Chosen
  <2> QED BY <2>2, <2>3
<1> QED BY <1>6, <1>7

\* A turn keeps a job as it should be.
LEMMA TurnKeeps ==
  ASSUME NEW j, JobInv(j), j.pc = "measure", Left(j) # {},
         NEW r \in Benchmarks(j.task, j.todo[Min(Left(j))])
  PROVE  JobInv(Turn(j, r)) /\ Turn(j, r).pc = "measure"
<1> DEFINE at == Min(Left(j))
           c == j.todo[at]
           k == Turn(j, r)
<1>1. j \in Jobs /\ j.task \in Task /\ j.todo \in Plan
  BY DEF JobInv, Jobs
<1>2. Left(j) \in SUBSET Nat /\ \A i \in Left(j) : j.todo[i] \in Configurations
  BY <1>1, PlanLeft DEF Left
<1>3. at \in Left(j) /\ c \in Configurations
  BY <1>2, MinIsLeft
<1>4. r \in Outcome /\ r.config = c
  BY <1>1, <1>3, BenchmarkTyped
<1>5. /\ k \in Jobs /\ Left(k) \subseteq Left(j)
      /\ \A i \in Left(k) : k.todo[i] = j.todo[i]
      /\ k.seen = j.seen \cup {r}
      /\ k.pc = "measure" /\ k.kind = j.kind
      /\ k.min_tokens = j.min_tokens /\ k.budget = j.budget /\ k.tried = j.tried
  BY <1>1, <1>4, TurnTyped
<1>6. Chosen(k)
  BY <1>1, <1>4, TurnChooses DEF JobInv
<1> HIDE DEF k
<1>7. Enough(k)
  BY <1>3, <1>4, <1>5 DEF JobInv, Enough, Budgeted
<1>8. k.seen # {}
  BY <1>5
<1>9. k.kind = "fallback" => \A x \in k.tried : x > k.budget
  BY <1>5 DEF JobInv
<1> QED BY <1>5, <1>6, <1>7, <1>8, <1>9 DEF JobInv, k

-----------------------------------------------------------------------------
(* A call from its start to its answer. *)

\* A call that has just started is as it should be, whatever it asks for.
LEMMA JobStarts ==
  ASSUME NEW task \in Task, NEW kind, NEW o \in Objective \cup {"none"},
         kind \in {"text", "tune", "constrained", "auto_config", "uncached"},
         NEW min_tokens \in Int, NEW budget \in Int,
         NEW grid \in Plan, DOMAIN grid # {},
         kind \in {"constrained", "auto_config"} =>
           \A i \in DOMAIN grid : grid[i].max_tokens >= min_tokens
  PROVE  /\ JobInv(Job(task, kind, o, min_tokens, budget, grid))
         /\ Job(task, kind, o, min_tokens, budget, grid).pc = "measure"
<1> DEFINE j == Job(task, kind, o, min_tokens, budget, grid)
<1>1. /\ j.pc = "measure" /\ j.kind = kind /\ j.min_tokens = min_tokens /\ j.budget = budget
      /\ j.todo = grid /\ j.best = Nothing /\ j.seen = {} /\ j.tried = {}
  BY DEF Job
<1>2. j \in Jobs
  BY DEF Job, Jobs
<1> SUFFICES JobInv(j)
  BY <1>1
<1> HIDE DEF j
<1>3. Chosen(j)
  BY <1>1 DEF Chosen, Good
<1>4. Enough(j)
  BY <1>1 DEF Enough, Budgeted, Left
<1> QED BY <1>1, <1>2, <1>3, <1>4 DEF JobInv, Left

\* No configuration has fewer tokens than none.
LEMMA GridAboveNothing ==
  ASSUME NEW task \in Task
  PROVE  /\ configs[task] \in Plan /\ DOMAIN configs[task] # {}
         /\ \A i \in DOMAIN configs[task] : configs[task][i].max_tokens >= 0
<1>1. configs[task] \in Plan /\ DOMAIN configs[task] # {}
  BY GridPlanned
<1>2. \A i \in DOMAIN configs[task] : configs[task][i].max_tokens \in Nat
  BY GridTyped, ConfigAssumption
<1> QED BY <1>1, <1>2

\* The jobs of the unified entry point.
LEMMA UnifiedStarts ==
  ASSUME NEW task \in Task, NEW j \in Unified(task)
  PROVE  JobInv(j) /\ j.pc = "measure"
<1>1. PICK kind \in {"text", "tune", "uncached"}, o \in Objective \cup {"none"} :
        j = Job(task, kind, o, 0, 0, configs[task])
  BY DEF Unified
<1> QED BY <1>1, GridAboveNothing, JobStarts

\* And of the one with a budget.
LEMMA WithinStarts ==
  ASSUME NEW task \in Task, NEW budget \in Budget, NEW j \in UnifiedWithin(task, budget)
  PROVE  JobInv(j) /\ j.pc = "measure"
<1>1. CASE j \in Unified(task)
  BY <1>1, UnifiedStarts
<1>2. CASE j \notin Unified(task)
  <2>1. PICK o \in Objective : j = Job(task, "auto_config", o, 0, budget, configs[task])
    BY <1>2 DEF UnifiedWithin
  <2>2. budget \in Int
    BY BoundsAssumption
  <2> QED BY <2>1, <2>2, GridAboveNothing, JobStarts
<1> QED BY <1>1, <1>2

\* The job of the reranker's constrained tuner.
LEMMA ConstrainedStarts ==
  ASSUME NEW o \in Objective, NEW m \in MinTokens, NEW budget \in Budget
  PROVE  /\ JobInv(Job("reranker", "constrained", o, m, budget, Grid(m)))
         /\ Job("reranker", "constrained", o, m, budget, Grid(m)).pc = "measure"
<1>1. m \in Int /\ budget \in Int /\ "reranker" \in Task /\ o \in Objective \cup {"none"}
  BY BoundsAssumption DEF Task
<1>2. /\ Grid(m) \in Plan /\ DOMAIN Grid(m) # {}
      /\ \A i \in DOMAIN Grid(m) : Grid(m)[i].max_tokens >= m
  BY GridEnough
<1> HIDE DEF Grid
<1> QED BY <1>1, <1>2, JobStarts

\* A tuner with a budget that found nothing saw nothing within the budget.
LEMMA FallsBack ==
  ASSUME NEW j, JobInv(j), Budgeted(j), j.best = Nothing
  PROVE  JobInv(FallenBack(j)) /\ FallenBack(j).pc = j.pc /\ FallenBack(j).kind = "fallback"
<1> DEFINE k == FallenBack(j)
           tried == {r.p95 : r \in {s \in j.seen : s.created}}
           grid == configs["reranker"]
<1>1. j \in Jobs /\ j.seen \in SUBSET Outcome /\ j.budget \in Int /\ j.kind # "text"
  BY DEF JobInv, Jobs, Budgeted
<1>2. tried \in SUBSET Latency
  BY <1>1, OutcomeTyped
<1>3. "reranker" \in Task
  BY DEF Task
<1>4. grid \in Plan /\ DOMAIN grid # {}
  BY <1>3, GridPlanned
<1>5. Good(j) = {}
  <2>1. ASSUME j.best \in Good(j) PROVE FALSE
    BY <1>1, <2>1, OutcomeTyped DEF Good
  <2> QED BY <1>1, <2>1 DEF JobInv, Chosen
<1>6. \A x \in tried : x > j.budget
  <2> SUFFICES ASSUME NEW s \in j.seen, s.created PROVE s.p95 > j.budget
    OBVIOUS
  <2>1. ~Fits(j, s) /\ s.p95 \in Int
    BY <1>1, <1>5, OutcomeTyped DEF Good
  <2> QED BY <1>1, <2>1 DEF Fits
<1>7. k = [j EXCEPT !.kind = "fallback", !.todo = grid, !.tried = tried, !.seen = {}]
  BY DEF FallenBack
<1> SUFFICES JobInv(k) /\ k.pc = j.pc /\ k.kind = "fallback"
  OBVIOUS
<1> HIDE DEF k, tried, grid
<1>8. /\ k.pc = j.pc /\ k.kind = "fallback" /\ k.todo = grid /\ k.tried = tried
      /\ k.seen = {} /\ k.best = Nothing /\ k.budget = j.budget
  BY <1>1, <1>7 DEF Jobs
<1>9. k \in Jobs
  BY <1>1, <1>2, <1>4, <1>7 DEF Jobs
<1>10. Chosen(k) /\ Enough(k)
  BY <1>8 DEF Chosen, Good, Enough, Budgeted
<1>11. k.pc # "write"
  BY <1>1, <1>8 DEF JobInv, UsesFile, Budgeted
<1> QED BY <1>4, <1>6, <1>8, <1>9, <1>10, <1>11 DEF JobInv, Left

\* What is asked of an answer, apart from who gives it.
BestOf(j, r) ==
  LET good == {s \in j.seen : /\ s.created
                              /\ j.kind \in {"constrained", "auto_config"} =>
                                   s.p95 <= j.budget}
  IN IF j.kind = "text"
       THEN r \in j.seen /\ \A s \in j.seen : score_text_config(s) <= score_text_config(r)
     ELSE IF good = {} THEN r = Nothing
     ELSE r \in good /\ \A s \in good : Cost(j, r) <= Cost(j, s)

Held(j, r) ==
  /\ j.kind \in {"constrained", "auto_config"} =>
       r.p95 <= j.budget /\ r.config.max_tokens >= j.min_tokens
  /\ j.kind = "fallback" => \A p95 \in j.tried : p95 > j.budget

\* A tuner that has tried its whole grid has the answer.
LEMMA BestIsBest ==
  ASSUME NEW j, JobInv(j), Left(j) = {}
  PROVE  BestOf(j, j.best)
<1>1. Good(j) = {s \in j.seen : /\ s.created
                                /\ j.kind \in {"constrained", "auto_config"} =>
                                     s.p95 <= j.budget}
  BY DEF Good, Fits
<1>2. j.seen # {} /\ Chosen(j) /\ Good(j) \subseteq j.seen
  BY DEF JobInv, Good
<1>3. BestOf(j, j.best) =
        IF j.kind = "text"
          THEN j.best \in j.seen
               /\ \A s \in j.seen : score_text_config(s) <= score_text_config(j.best)
        ELSE IF Good(j) = {} THEN j.best = Nothing
        ELSE j.best \in Good(j) /\ \A s \in Good(j) : Cost(j, j.best) <= Cost(j, s)
  BY <1>1 DEF BestOf
<1>4. CASE j.kind = "text"
  BY <1>2, <1>3, <1>4 DEF Chosen
<1>5. CASE j.kind # "text"
  BY <1>2, <1>3, <1>5 DEF Chosen
<1> QED BY <1>4, <1>5

\* And it respects the bounds it was given.
LEMMA BestIsHeld ==
  ASSUME NEW j, JobInv(j), Budgeted(j) => j.best # Nothing
  PROVE  Held(j, j.best)
<1>1. CASE Budgeted(j)
  <2>1. j.kind # "text" /\ j.best \in Good(j)
    BY <1>1 DEF JobInv, Chosen, Budgeted
  <2>2. j.best \in j.seen /\ j.best.p95 <= j.budget
    BY <1>1, <2>1 DEF Good, Fits, Budgeted
  <2>3. j.best.config.max_tokens >= j.min_tokens
    BY <1>1, <2>2 DEF JobInv, Enough
  <2> QED BY <1>1, <2>2, <2>3 DEF Held, Budgeted
<1>2. CASE ~Budgeted(j)
  BY <1>2 DEF JobInv, Held, Budgeted
<1> QED BY <1>1, <1>2

-----------------------------------------------------------------------------
(* The invariant. *)

\* An answer is good when its call says so; no answer is.
LEMMA AnswerIsGood ==
  ASSUME NEW STATE j, NEW STATE r, NEW STATE source,
         answer' = [job |-> j, result |-> r, source |-> source],
         source = "own" => BestOf(j, r), Held(j, r)
  PROVE  BestOfMeasured' /\ ConstraintsHeldUnlessNoneFits'
<1>1. answer'.job = j /\ answer'.result = r /\ answer'.source = source
  OBVIOUS
<1>2. BestOfMeasured'
  BY <1>1 DEF BestOfMeasured, BestOf, Cost, score_text_config, Penalty, Nothing, Failed
<1>3. ConstraintsHeldUnlessNoneFits'
  BY <1>1 DEF ConstraintsHeldUnlessNoneFits, Held
<1> QED BY <1>2, <1>3

\* As long as nobody is told anything, nothing wrong is told.
LEMMA NoAnswer ==
  ASSUME answer' = None
  PROVE  BestOfMeasured' /\ ConstraintsHeldUnlessNoneFits'
BY DEF BestOfMeasured, ConstraintsHeldUnlessNoneFits

\* A call that starts, goes on or ends leaves the others as they are.
LEMMA OthersKeep ==
  ASSUME TunerInv, NEW p \in Process, NEW STATE new,
         new = None \/ JobInv(new), job' = [job EXCEPT ![p] = new],
         file' \in [Task -> Outcome \cup {Nothing, Empty, None}],
         EmptyOnlyWhileWritten'
  PROVE  TunerInv'
<1>1. new \in Jobs \cup {None}
  BY DEF JobInv
<1>2. job' \in [Process -> Jobs \cup {None}]
  BY <1>1 DEF TunerInv
<1>3. ASSUME NEW q \in Process, job'[q] # None PROVE JobInv(job'[q])
  <2>1. CASE q = p
    BY <1>3, <2>1 DEF TunerInv
  <2>2. CASE q # p
    BY <1>3, <2>2 DEF TunerInv, Idle
  <2> QED BY <2>1, <2>2
<1> QED BY <1>2, <1>3 DEF TunerInv, Idle

\* Somebody has the file of a task open for writing.
Writes(p, t) ==
  ~Idle(p) /\ job[p].task = t /\ job[p].pc = "write" /\ job[p].linked

\* A step of a call that is not writing leaves files and writers alone.
LEMMA WritersKeep ==
  ASSUME TunerInv, NEW p \in Process, NEW STATE new,
         Idle(p) \/ job[p].pc = "measure", job' = [job EXCEPT ![p] = new],
         UNCHANGED <<file, cut>>
  PROVE  EmptyOnlyWhileWritten'
<1> SUFFICES ASSUME NEW t \in Task, file[t] = Empty, t \notin cut
             PROVE  \E q \in Process : Writes(q, t)'
  BY DEF EmptyOnlyWhileWritten, Writes
<1>1. PICK q \in Process : Writes(q, t)
  BY DEF TunerInv, EmptyOnlyWhileWritten, Writes
<1>2. q # p
  BY <1>1 DEF Writes
<1>3. job'[q] = job[q]
  BY <1>2 DEF TunerInv
<1> QED BY <1>1, <1>3 DEF Writes, Idle

\* Nothing has been tuned yet.
LEMMA InitHolds == Init => Inv
<1> SUFFICES ASSUME Init PROVE Inv
  OBVIOUS
<1>1. file \in [Task -> Outcome \cup {Nothing, Empty, None}]
  BY DEF Init
<1>2. EmptyOnlyWhileWritten
  BY MarkersAssumption DEF Init, EmptyOnlyWhileWritten
<1> QED BY <1>1, <1>2 DEF Init, Inv, TunerInv, Idle, BestOfMeasured, ConstraintsHeldUnlessNoneFits

\* A tuner starts with its first configuration, or with the file's answer.
LEMMA TuneHolds ==
  ASSUME TunerInv, NEW p \in Process, NEW STATE j, JobInv(j), j.pc = "measure",
         Idle(p) \/ job[p].pc = "measure", Tune(p, j), UNCHANGED <<file, cut>>
  PROVE  Inv'
<1>1. file' \in [Task -> Outcome \cup {Nothing, Empty, None}]
  BY DEF TunerInv
<1>2. CASE UsesFile(j) /\ CacheHit(j.task)
  <2>1. /\ job' = [job EXCEPT ![p] = None]
        /\ answer' = [job |-> j, result |-> Cached(j.task), source |-> "file"]
    BY <1>2 DEF Tune, Answered
  <2>2. Held(j, Cached(j.task))
    BY <1>2 DEF Held, UsesFile, JobInv
  <2>3. TunerInv'
    BY <1>1, <2>1, OthersKeep, WritersKeep
  <2>4. BestOfMeasured' /\ ConstraintsHeldUnlessNoneFits'
    BY <2>1, <2>2, AnswerIsGood
  <2> QED BY <2>3, <2>4 DEF Inv
<1>3. CASE ~(UsesFile(j) /\ CacheHit(j.task))
  <2>1. job' = [job EXCEPT ![p] = j] /\ answer' = None
    BY <1>3 DEF Tune
  <2>2. TunerInv'
    BY <1>1, <2>1, OthersKeep, WritersKeep
  <2> QED BY <2>1, <2>2, NoAnswer DEF Inv
<1> QED BY <1>2, <1>3

\* A call that gives its own answer without touching the file.
LEMMA OwnAnswer ==
  ASSUME TunerInv, NEW p \in Process, ~Idle(p), job[p].pc = "measure", Left(job[p]) = {},
         Budgeted(job[p]) => job[p].best # Nothing,
         Answered(p, job[p], job[p].best, "own"), UNCHANGED <<file, cut>>
  PROVE  Inv'
<1>1. JobInv(job[p])
  BY DEF TunerInv
<1>2. /\ job' = [job EXCEPT ![p] = None]
      /\ answer' = [job |-> job[p], result |-> job[p].best, source |-> "own"]
  BY DEF Answered
<1>3. BestOf(job[p], job[p].best) /\ Held(job[p], job[p].best)
  BY <1>1, BestIsBest, BestIsHeld
<1>4. file' \in [Task -> Outcome \cup {Nothing, Empty, None}]
  BY DEF TunerInv
<1>5. TunerInv'
  BY <1>2, <1>4, OthersKeep, WritersKeep
<1> QED BY <1>2, <1>3, <1>5, AnswerIsGood DEF Inv

\* The calls.
LEMMA AutotuneHolds ==
  ASSUME TunerInv, NEW p \in Process, Autotune(p) \/ AutotuneWithin(p)
  PROVE  Inv'
<1>1. CASE Autotune(p)
  <2>1. Idle(p) /\ UNCHANGED <<file, cut>>
    BY <1>1 DEF Autotune
  <2>2. ASSUME NEW task \in Task, NEW j \in Unified(task), Tune(p, j) PROVE Inv'
    BY <2>1, <2>2, UnifiedStarts, TuneHolds
  <2> QED BY <1>1, <2>2 DEF Autotune
<1>2. CASE AutotuneWithin(p)
  <2>1. PICK budget \in Budget :
          \/ \E task \in Task : \E j \in UnifiedWithin(task, budget) : Tune(p, j)
          \/ \E o \in Objective, m \in MinTokens :
               Tune(p, Job("reranker", "constrained", o, m, budget, Grid(m)))
    BY <1>2 DEF AutotuneWithin
  <2>2. Idle(p) /\ UNCHANGED <<file, cut>>
    BY <1>2 DEF AutotuneWithin
  <2>3. ASSUME NEW task \in Task, NEW j \in UnifiedWithin(task, budget), Tune(p, j) PROVE Inv'
    BY <2>2, <2>3, WithinStarts, TuneHolds
  <2>4. ASSUME NEW o \in Objective, NEW m \in MinTokens,
               Tune(p, Job("reranker", "constrained", o, m, budget, Grid(m)))
        PROVE  Inv'
    BY <2>2, <2>4, ConstrainedStarts, TuneHolds
  <2> QED BY <2>1, <2>3, <2>4
<1> QED BY <1>1, <1>2

\* A turn of the loop.
LEMMA BenchHolds == ASSUME TunerInv, NEW p \in Process, Bench(p) PROVE Inv'
<1>1. /\ ~Idle(p) /\ job[p].pc = "measure" /\ Left(job[p]) # {}
      /\ answer' = None /\ UNCHANGED <<file, cut>>
  BY DEF Bench
<1>2. PICK r \in Benchmarks(job[p].task, job[p].todo[Min(Left(job[p]))]) :
        job' = [job EXCEPT ![p] = Turn(job[p], r)]
  BY DEF Bench
<1>3. JobInv(job[p])
  BY <1>1 DEF TunerInv
<1>4. JobInv(Turn(job[p], r))
  BY <1>1, <1>3, TurnKeeps
<1>5. file' \in [Task -> Outcome \cup {Nothing, Empty, None}]
  BY <1>1 DEF TunerInv
<1>6. TunerInv'
  BY <1>1, <1>2, <1>4, <1>5, OthersKeep, WritersKeep
<1> QED BY <1>1, <1>6, NoAnswer DEF Inv

\* The end of a tuner without a file.
LEMMA ConcludeHolds == ASSUME TunerInv, NEW p \in Process, Conclude(p) PROVE Inv'
<1>1. /\ ~Idle(p) /\ job[p].pc = "measure" /\ Left(job[p]) = {} /\ ~UsesFile(job[p])
      /\ UNCHANGED <<file, cut>>
  BY DEF Conclude
<1>2. JobInv(job[p])
  BY <1>1 DEF TunerInv
<1>3. job[p].kind \in {"constrained", "auto_config", "uncached"}
  BY <1>1, <1>2 DEF JobInv, Jobs, UsesFile
<1>4. CASE job[p].best # Nothing \/ job[p].kind = "uncached"
  <2>1. Answered(p, job[p], job[p].best, "own")
    BY <1>4 DEF Conclude
  <2>2. Budgeted(job[p]) => job[p].best # Nothing
    BY <1>4 DEF Budgeted
  <2> QED BY <1>1, <2>1, <2>2, OwnAnswer
<1>5. CASE ~(job[p].best # Nothing \/ job[p].kind = "uncached")
  <2>1. Tune(p, FallenBack(job[p]))
    BY <1>5 DEF Conclude
  <2>2. Budgeted(job[p]) /\ job[p].best = Nothing
    BY <1>3, <1>5 DEF Budgeted
  <2>3. JobInv(FallenBack(job[p])) /\ FallenBack(job[p]).pc = "measure"
    BY <1>1, <1>2, <2>2, FallsBack
  <2> QED BY <1>1, <2>1, <2>3, TuneHolds
<1> QED BY <1>4, <1>5

\* The file cannot be opened.
LEMMA OpenFailsHolds == ASSUME TunerInv, NEW p \in Process, OpenFails(p) PROVE Inv'
BY OwnAnswer DEF OpenFails, Budgeted, UsesFile

\* Whoever opens the file empties it, and will be seen to have it open.
LEMMA OpenFileHolds == ASSUME TunerInv, NEW p \in Process, OpenFile(p) PROVE Inv'
<1> DEFINE j == job[p]
           new == [j EXCEPT !.pc = "write", !.linked = TRUE]
<1>1. /\ ~Idle(p) /\ j.pc = "measure" /\ Left(j) = {} /\ UsesFile(j)
      /\ file' = [file EXCEPT ![j.task] = Empty]
      /\ cut' = cut \ {j.task} /\ answer' = None
  BY DEF OpenFile
<1>2. JobInv(j) /\ j \in Jobs
  BY <1>1 DEF TunerInv, JobInv
<1>3. job' = [job EXCEPT ![p] = new]
  BY <1>1 DEF OpenFile, TunerInv
<1> HIDE DEF j
<1>4. /\ new.pc = "write" /\ new.linked = TRUE /\ new.task = j.task /\ new.kind = j.kind
      /\ new.todo = j.todo /\ new.best = j.best /\ new.seen = j.seen /\ new.tried = j.tried
      /\ new.min_tokens = j.min_tokens /\ new.budget = j.budget /\ new.objective = j.objective
  BY <1>2 DEF Jobs
<1>5. new \in Jobs
  BY <1>2 DEF Jobs
<1> HIDE DEF new
<1>6. JobInv(new)
  <2>1. Left(new) = Left(j) /\ (UsesFile(new) <=> UsesFile(j)) /\ Good(new) = Good(j)
    BY <1>4 DEF Left, UsesFile, Good, Fits
  <2>2. \A s : Cost(new, s) = Cost(j, s)
    BY <1>4 DEF Cost
  <2>3. Chosen(new)
    BY <1>2, <1>4, <2>1, <2>2 DEF JobInv, Chosen
  <2>4. Enough(new)
    BY <1>2, <1>4, <2>1 DEF JobInv, Enough, Budgeted
  <2> QED BY <1>1, <1>2, <1>4, <1>5, <2>1, <2>3, <2>4 DEF JobInv
<1>7. file' \in [Task -> Outcome \cup {Nothing, Empty, None}]
  BY <1>1 DEF TunerInv
<1>8. EmptyOnlyWhileWritten'
  <2> SUFFICES ASSUME NEW t \in Task, file'[t] = Empty, t \notin cut'
               PROVE  \E q \in Process : Writes(q, t)'
    BY DEF EmptyOnlyWhileWritten, Writes
  <2>1. CASE t = j.task
    <3>1. job'[p] = new /\ new # None
      BY <1>3, <1>5, MarkersAssumption DEF TunerInv
    <3> QED BY <1>4, <2>1, <3>1 DEF Writes, Idle
  <2>2. CASE t # j.task
    <3>1. file[t] = Empty /\ t \notin cut
      BY <1>1, <2>2 DEF TunerInv
    <3>2. PICK q \in Process : Writes(q, t)
      BY <3>1 DEF TunerInv, EmptyOnlyWhileWritten, Writes
    <3>3. q # p
      BY <2>2, <3>2 DEF Writes, j
    <3>4. job'[q] = job[q]
      BY <1>3, <3>3 DEF TunerInv
    <3> QED BY <3>2, <3>4 DEF Writes, Idle
  <2> QED BY <2>1, <2>2
<1>9. TunerInv'
  BY <1>3, <1>6, <1>7, <1>8, OthersKeep
<1> QED BY <1>1, <1>9, NoAnswer DEF Inv

\* Closing the file fills it, unless it is no longer there.
LEMMA CloseFileHolds == ASSUME TunerInv, NEW p \in Process, CloseFile(p) PROVE Inv'
<1> DEFINE j == job[p]
<1>1. /\ ~Idle(p) /\ j.pc = "write"
      /\ file' = IF j.linked THEN [file EXCEPT ![j.task] = j.best] ELSE file
      /\ cut' = IF j.linked THEN cut \ {j.task} ELSE cut
      /\ job' = [job EXCEPT ![p] = None]
      /\ answer' = [job |-> j, result |-> j.best, source |-> "own"]
  BY DEF CloseFile, ReachesFile, Answered
<1>2. JobInv(j) /\ j.best \in Outcome \cup {Nothing} /\ j.task \in Task
  BY <1>1 DEF TunerInv, JobInv, Jobs
<1>3. Left(j) = {} /\ ~Budgeted(j)
  BY <1>1, <1>2 DEF JobInv, UsesFile, Budgeted
<1>4. BestOf(j, j.best) /\ Held(j, j.best)
  BY <1>2, <1>3, BestIsBest, BestIsHeld
<1>5. file' \in [Task -> Outcome \cup {Nothing, Empty, None}]
  BY <1>1, <1>2 DEF TunerInv
<1>6. EmptyOnlyWhileWritten'
  <2> SUFFICES ASSUME NEW t \in Task, file'[t] = Empty, t \notin cut'
               PROVE  \E q \in Process : Writes(q, t)'
    BY DEF EmptyOnlyWhileWritten, Writes
  <2>1. ~(j.linked /\ t = j.task)
    BY <1>1, <1>2, MarkersAssumption DEF TunerInv
  <2>2. file[t] = Empty /\ t \notin cut
    BY <1>1, <2>1 DEF TunerInv
  <2>3. PICK q \in Process : Writes(q, t)
    BY <2>2 DEF TunerInv, EmptyOnlyWhileWritten, Writes
  <2>4. q # p
    BY <2>1, <2>3 DEF Writes
  <2>5. job'[q] = job[q]
    BY <1>1, <2>4 DEF TunerInv
  <2> QED BY <2>3, <2>5 DEF Writes, Idle
<1>7. TunerInv'
  BY <1>1, <1>5, <1>6, OthersKeep
<1>8. BestOfMeasured' /\ ConstraintsHeldUnlessNoneFits'
  BY <1>1, <1>4, AnswerIsGood
<1> QED BY <1>7, <1>8 DEF Inv

\* A process that dies with the file open leaves it as it is.
LEMMA CrashHolds == ASSUME TunerInv, NEW p \in Process, Crash(p) PROVE Inv'
<1> DEFINE j == job[p]
<1>1. /\ ~Idle(p) /\ answer' = None /\ file' = file
      /\ job' = [job EXCEPT ![p] = None]
      /\ cut' = IF j.pc = "write" /\ j.linked /\ file[j.task] = Empty
                THEN cut \cup {j.task} ELSE cut
  BY DEF Crash
<1>2. file' \in [Task -> Outcome \cup {Nothing, Empty, None}]
  BY <1>1 DEF TunerInv
<1>3. EmptyOnlyWhileWritten'
  <2> SUFFICES ASSUME NEW t \in Task, file[t] = Empty, t \notin cut'
               PROVE  \E q \in Process : Writes(q, t)'
    BY <1>1 DEF EmptyOnlyWhileWritten, Writes
  <2>1. t \notin cut
    BY <1>1
  <2>2. PICK q \in Process : Writes(q, t)
    BY <2>1 DEF TunerInv, EmptyOnlyWhileWritten, Writes
  <2>3. q # p
    BY <1>1, <2>2 DEF Writes
  <2>4. job'[q] = job[q]
    BY <1>1, <2>3 DEF TunerInv
  <2> QED BY <2>2, <2>4 DEF Writes, Idle
<1>4. TunerInv'
  BY <1>1, <1>2, <1>3, OthersKeep
<1> QED BY <1>1, <1>4, NoAnswer DEF Inv

\* Files that are removed are not empty files, and those of others stay.
LEMMA ClearCacheHolds == ASSUME TunerInv, ClearCache PROVE Inv'
<1>1. PICK gone \in {{"text"}, {"reranker"}, Task} :
        /\ file' = [t \in Task |-> IF t \in gone THEN None ELSE file[t]]
        /\ job' = [p \in Process |->
                     IF ~Idle(p) /\ job[p].task \in gone
                     THEN [job[p] EXCEPT !.linked = FALSE] ELSE job[p]]
        /\ cut' = cut \ gone
        /\ answer' = None
  BY DEF ClearCache
<1>2. file' \in [Task -> Outcome \cup {Nothing, Empty, None}]
  BY <1>1 DEF TunerInv
<1>3. ASSUME NEW j, JobInv(j) PROVE JobInv([j EXCEPT !.linked = FALSE])
  <2> DEFINE k == [j EXCEPT !.linked = FALSE]
  <2>1. j \in Jobs
    BY <1>3 DEF JobInv
  <2>2. /\ k.pc = j.pc /\ k.kind = j.kind /\ k.todo = j.todo /\ k.best = j.best
        /\ k.seen = j.seen /\ k.tried = j.tried
        /\ k.min_tokens = j.min_tokens /\ k.budget = j.budget /\ k.objective = j.objective
    BY <2>1 DEF Jobs
  <2>3. k \in Jobs
    BY <2>1 DEF Jobs
  <2> SUFFICES JobInv(k)
    OBVIOUS
  <2> HIDE DEF k
  <2>4. Left(k) = Left(j) /\ (UsesFile(k) <=> UsesFile(j)) /\ Good(k) = Good(j)
    BY <2>2 DEF Left, UsesFile, Good, Fits
  <2>5. \A s : Cost(k, s) = Cost(j, s)
    BY <2>2 DEF Cost
  <2>6. Chosen(k)
    BY <1>3, <2>2, <2>4, <2>5 DEF JobInv, Chosen
  <2>7. Enough(k)
    BY <1>3, <2>2, <2>4 DEF JobInv, Enough, Budgeted
  <2> QED BY <1>3, <2>2, <2>3, <2>4, <2>6, <2>7 DEF JobInv
<1>4. ASSUME NEW p \in Process
      PROVE  job'[p] \in Jobs \cup {None} /\ (job'[p] # None => JobInv(job'[p]))
  <2>1. CASE Idle(p)
    BY <1>1, <2>1 DEF Idle
  <2>2. CASE ~Idle(p) /\ job[p].task \notin gone
    BY <1>1, <2>2 DEF TunerInv
  <2>3. CASE ~Idle(p) /\ job[p].task \in gone
    <3>1. JobInv(job[p]) /\ job'[p] = [job[p] EXCEPT !.linked = FALSE]
      BY <1>1, <2>3 DEF TunerInv
    <3>2. JobInv(job'[p])
      BY <1>3, <3>1
    <3> QED BY <3>2 DEF JobInv
  <2> QED BY <2>1, <2>2, <2>3
<1>5. job' \in [Process -> Jobs \cup {None}]
  BY <1>1, <1>4
<1>6. EmptyOnlyWhileWritten'
  <2> SUFFICES ASSUME NEW t \in Task, file'[t] = Empty, t \notin cut'
               PROVE  \E q \in Process : Writes(q, t)'
    BY DEF EmptyOnlyWhileWritten, Writes
  <2>1. t \notin gone /\ file[t] = Empty /\ t \notin cut
    BY <1>1, MarkersAssumption
  <2>2. PICK q \in Process : Writes(q, t)
    BY <2>1 DEF TunerInv, EmptyOnlyWhileWritten, Writes
  <2>3. job'[q] = job[q]
    BY <1>1, <2>1, <2>2 DEF Writes
  <2> QED BY <2>2, <2>3 DEF Writes, Idle
<1>7. TunerInv'
  BY <1>2, <1>4, <1>5, <1>6 DEF TunerInv, Idle
<1> QED BY <1>1, <1>7, NoAnswer DEF Inv

\* The invariant is kept by every step.
LEMMA NextHolds == Inv /\ [Next]_vars => Inv'
<1> SUFFICES ASSUME Inv, [Next]_vars PROVE Inv'
  OBVIOUS
<1>1. TunerInv
  BY DEF Inv
<1>2. ASSUME NEW p \in Process, Autotune(p) \/ AutotuneWithin(p) \/ Step(p) \/ Crash(p)
      PROVE  Inv'
  BY <1>1, <1>2, AutotuneHolds, BenchHolds, ConcludeHolds, OpenFileHolds, OpenFailsHolds,
     CloseFileHolds, CrashHolds DEF Step
<1>3. CASE ClearCache
  BY <1>1, <1>3, ClearCacheHolds
<1>4. CASE UNCHANGED vars
  BY <1>4 DEF vars, Inv, TunerInv, Idle, EmptyOnlyWhileWritten, BestOfMeasured,
     ConstraintsHeldUnlessNoneFits
<1> QED BY <1>2, <1>3, <1>4 DEF Next

\* The invariant holds in every state.
LEMMA AlwaysHolds == Spec => []Inv
BY InitHolds, NextHolds, PTL DEF Spec

-----------------------------------------------------------------------------
\* A cache file is found empty, and read as a result nobody measured, only
\* while a tuner has it open or after one died that had
\* (autotune_bench_reranker.hpp:66-81, autotune_bench_text.hpp:243-254).
THEOREM EmptyFilesAreWritten == Spec => []EmptyOnlyWhileWritten
BY AlwaysHolds, PTL DEF Inv, TunerInv

\* Whatever is measured in whatever order, a tuner's own answer has the best
\* score of what it measured that fits, and is nothing only when no context was
\* created for any that would (autotune_bench_reranker.hpp:268-283, 356-374,
\* 409-420); the text tuner's has the best of all it tried, those without a
\* context scored as measured 0 (autotune_bench_text.hpp:229-250).
THEOREM AnswersAreBest == Spec => []BestOfMeasured
BY AlwaysHolds, PTL DEF Inv

\* A tuner with bounds answers within them, and goes on without them only when
\* nothing it measured was within the budget
\* (autotune_bench_reranker.hpp:363-379, 414-427).
THEOREM ConstraintsAreHeld == Spec => []ConstraintsHeldUnlessNoneFits
BY AlwaysHolds, PTL DEF Inv
=============================================================================
