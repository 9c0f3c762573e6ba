------------------------- MODULE TurnPlanningProofs -------------------------
(***************************************************************************)
(* Theorems about TurnPlanning: every accepted request compiles to a plan  *)
(* that the validator and the run accept and that reads what it needs, and *)
(* a covered direct answer is supported by the stored rows, for any        *)
(* requests, histories and held assets.                                    *)
(***************************************************************************)
EXTENDS TurnPlanning, SumTheorems

HistoryQueries == {"portfolio_growth", "allocation_history", "position_state_changes"}

Selected(r) == TaskQueries[r.intent] \cup Over(GoalQueries, r.goals)

(* What the tables select of the history.                                    *)
LEMMA TaskQueriesResult ==
    /\ \A i \in Intents :
           /\ TaskQueries[i] \subseteq HistoryQueries
           /\ i \in ReviewIntents \cup {"what_changed"} => TaskQueries[i] # {}
           /\ "position_state_changes" \in TaskQueries[i] => i = "what_changed"
    /\ "position_state_changes" \in TaskQueries["what_changed"]
BY DEF Intents, TaskQueries, HistoryQueries, ReviewIntents

LEMMA GoalQueriesResult ==
    /\ \A g \in Goals :
           /\ GoalQueries[g] \subseteq HistoryQueries
           /\ "position_state_changes" \in GoalQueries[g] => g = "position_changes"
    /\ "position_state_changes" \in GoalQueries["position_changes"]
    /\ GoalQueries["performance_context"] # {}
    /\ GoalQueries["derived_metrics"] # {}
BY DEF Goals, GoalQueries, HistoryQueries

LEMMA SelectedResult ==
    ASSUME NEW r \in Requests
    PROVE  /\ Selected(r) \subseteq HistoryQueries
           /\ "none" \notin Selected(r)
           /\ RequiresHistory(r) => Selected(r) # {}
           /\ "position_state_changes" \in Selected(r) <=>
                  r.intent = "what_changed" \/ "position_changes" \in r.goals
           /\ CompiledQueries(r) =
                  IF Selected(r) = {} /\ r.freshness # "history_only" THEN {"none"}
                  ELSE {"history_status", "latest_state"} \cup Selected(r)
<1>1. r.intent \in Intents /\ r.goals \subseteq Goals
  BY RequestAssumption
<1>2. /\ TaskQueries[r.intent] \subseteq HistoryQueries
      /\ \A g \in r.goals : GoalQueries[g] \subseteq HistoryQueries
  BY <1>1, TaskQueriesResult, GoalQueriesResult
<1>3. Over(GoalQueries, r.goals) \subseteq HistoryQueries
  BY <1>2 DEF Over
<1>4. Selected(r) \subseteq HistoryQueries
  BY <1>2, <1>3 DEF Selected
<1>5. "none" \notin Selected(r)
  BY <1>4 DEF HistoryQueries
<1>6. RequiresHistory(r) => Selected(r) # {}
  <2>1. CASE r.intent \in ReviewIntents \cup {"what_changed"}
    BY <1>1, <2>1, TaskQueriesResult DEF Selected
  <2>2. \A g \in {"position_changes", "performance_context", "derived_metrics"} :
            g \in r.goals => Over(GoalQueries, r.goals) # {}
    BY GoalQueriesResult DEF Over
  <2> QED
    BY <2>1, <2>2 DEF Selected, RequiresHistory
<1>7. "position_state_changes" \in Selected(r) <=>
          r.intent = "what_changed" \/ "position_changes" \in r.goals
  <2>1. "position_state_changes" \in Over(GoalQueries, r.goals) <=>
            "position_changes" \in r.goals
    BY <1>1, GoalQueriesResult DEF Over
  <2> QED
    BY <1>1, <2>1, TaskQueriesResult DEF Selected
<1> QED
  BY <1>4, <1>5, <1>6, <1>7 DEF CompiledQueries, Selected
-----------------------------------------------------------------------------
(* A resolved hint means one candidate.                                      *)
LEMMA ResolutionResult ==
    ASSUME NEW h, NEW candidates, IsFiniteSet(candidates)
    PROVE  /\ Resolution(h, candidates).status = "resolved" =>
                  /\ Resolution(h, candidates).assets = Matches(h, candidates)
                  /\ \E c \in candidates : Matches(h, candidates) = {c}
<1>1. Matches(h, candidates) \subseteq candidates
  BY DEF Matches
<1>2. IsFiniteSet(Matches(h, candidates))
  BY <1>1, FS_Subset
<1>3. Cardinality(Matches(h, candidates)) = 1 => \E c : Matches(h, candidates) = {c}
  BY <1>2, FS_Singleton
<1>4. Resolution(h, candidates).status = "resolved" =>
          /\ Resolution(h, candidates).assets = Matches(h, candidates)
          /\ Cardinality(Matches(h, candidates)) = 1
  BY DEF Resolution
<1> QED
  BY <1>1, <1>3, <1>4

(* Where assets must be resolved, every hint of an accepted request is.      *)
LEMMA ResolvedResult ==
    ASSUME NEW r \in Requests, NEW candidates, IsFiniteSet(candidates),
           NEW t, RequestIsValid(r, Resolutions(r.hints, candidates), t),
           NeedsResolvedAssets(r)
    PROVE  /\ \A h \in r.hints : \E c \in candidates : Matches(h, candidates) = {c}
           /\ Resolved(Resolutions(r.hints, candidates)) =
                  UNION {Matches(h, candidates) : h \in r.hints}
           /\ Resolved(Resolutions(r.hints, candidates)) # {}
<1>1. r.hints # {}
  BY DEF NeedsResolvedAssets
<1>2. \A h \in r.hints : Resolution(h, candidates).status = "resolved"
  BY DEF RequestIsValid, Resolutions
<1>3. \A h \in r.hints :
          /\ Resolution(h, candidates).assets = Matches(h, candidates)
          /\ \E c \in candidates : Matches(h, candidates) = {c}
  BY <1>2, ResolutionResult
<1>4. Resolved(Resolutions(r.hints, candidates)) =
          UNION {Matches(h, candidates) : h \in r.hints}
  BY <1>3 DEF Resolved, Resolutions
<1> QED
  BY <1>1, <1>3, <1>4

LEMMA ScopeResult ==
    ASSUME NEW r \in Requests, NEW candidates, IsFiniteSet(candidates),
           NEW t, RequestIsValid(r, Resolutions(r.hints, candidates), t),
           "position_changes" \in r.goals
    PROVE  ExpectedScope(r, Resolutions(r.hints, candidates))
               \in {"portfolio_wide", "asset_scoped"}
<1>1. CASE r.hints = {}
  BY <1>1 DEF ExpectedScope
<1>2. CASE r.hints # {}
  <2>1. NeedsResolvedAssets(r)
    BY <1>2 DEF NeedsResolvedAssets
  <2>2. Resolved(Resolutions(r.hints, candidates)) # {}
    BY <2>1, ResolvedResult
  <2> QED
    BY <1>2, <2>2 DEF ExpectedScope
<1> QED
  BY <1>1, <1>2

(* The compiler's plan passes the schema and the validator ...               *)
LEMMA CompiledIsValid ==
    ASSUME NEW r \in Requests, NEW candidates, IsFiniteSet(candidates),
           NEW t, RequestIsValid(r, Resolutions(r.hints, candidates), t)
    PROVE  LET plan0 == Compiled(r, Resolutions(r.hints, candidates))
           IN PlanSchema(plan0) /\ PlanIsValid(r, plan0)
<1> DEFINE res == Resolutions(r.hints, candidates)
           c == Compiled(r, res)
<1>1. /\ c.intent = r.intent /\ c.window = r.window /\ c.freshness = r.freshness
      /\ c.assets = res /\ c.queries = CompiledQueries(r)
      /\ c.metrics = CompiledMetrics(r) /\ c.current = CompiledCurrentValues(r)
      /\ c.persistence = CompiledPersistence(r) /\ c.detectors = CompiledDetectors(r)
      /\ c.scope = IF "position_changes" \in r.goals THEN ExpectedScope(r, res) ELSE "none"
  BY DEF Compiled
<1>2. "position_changes" \in r.goals => c.scope \in {"portfolio_wide", "asset_scoped"}
  BY <1>1, ScopeResult
<1>3. PlanSchema(c)
  <2>1. "none" \in c.queries => c.queries = {"none"}
    BY <1>1, SelectedResult
  <2> QED
    BY <1>1, <1>2, <2>1 DEF PlanSchema
<1>4. /\ r.freshness = "latest_required" => c.current
      /\ r.freshness = "history_only" => ~c.current /\ c.persistence = "skip"
      /\ (r.freshness = "cached_ok" /\ RequiresSnapshotValues(r.goals)) => c.current
  BY <1>1 DEF CompiledCurrentValues, CompiledPersistence
<1>5. RequiresHistory(r) => c.queries # {"none"}
  BY <1>1, SelectedResult
<1>6. "position_changes" \in r.goals =>
          /\ "position_state_changes" \in c.queries
          /\ c.scope # "none"
          /\ ExpectedScope(r, c.assets) \in {"", c.scope}
  BY <1>1, <1>2, SelectedResult
<1>7. "position_changes" \notin r.goals => c.scope = "none"
  BY <1>1
<1>8. RequiredMetrics(r) \subseteq c.metrics
  <2>1. \A g \in r.goals : GoalMetrics[g] \subseteq Over(GoalMetrics, r.goals)
    BY DEF Over
  <2>2. /\ GoalMetrics["allocation_context"] = {"allocation"}
        /\ GoalMetrics["risk_context"] = {"risk"}
        /\ GoalMetrics["effective_cash"] = {"effective_cash"}
        /\ \A g \in {"performance_context", "derived_metrics", "position_changes"} :
               GoalMetrics[g] = {"performance"}
    BY DEF GoalMetrics
  <2>3. RequiredMetrics(r) \subseteq ReviewMetrics(r) \cup Over(GoalMetrics, r.goals)
    BY <2>1, <2>2 DEF RequiredMetrics
  <2> QED
    BY <1>1, <2>3 DEF CompiledMetrics
<1>9. /\ c.detectors # {}
      /\ "sentiment_context_needs" \in r.goals => "sentiment_context_needed" \in c.detectors
  BY <1>1 DEF CompiledDetectors, Over, GoalDetectors
<1> HIDE DEF c, res
<1>10. PlanIsValid(r, c)
  BY <1>1, <1>4, <1>5, <1>6, <1>7, <1>8, <1>9 DEF PlanIsValid
<1> QED
  BY <1>3, <1>10 DEF c, res

(* ... and is one that the run is about, which may ask the broker whenever it*)
(* may have to, but for one kind of request.                                 *)
LEMMA CompiledIsCoherent ==
    ASSUME NEW r \in Requests, NEW res
    PROVE  /\ ContextSchema(ContextPlan(Compiled(r, res)))
           /\ Coherent(RunRequest(r, Compiled(r, res)))
           /\ \/ ContextPlan(Compiled(r, res)).snapshot
              \/ r.freshness = "history_only"
              \/ r.freshness = "cached_ok" /\ r.goals = {"position_changes"}
<1> DEFINE c == Compiled(r, res)
           context == ContextPlan(c)
           run == RunRequest(r, c)
<1>1. /\ c.freshness = r.freshness /\ c.queries = CompiledQueries(r)
      /\ c.current = CompiledCurrentValues(r) /\ c.persistence = CompiledPersistence(r)
  BY DEF Compiled
<1> HIDE DEF c
<1>2. /\ context.queries = c.queries
      /\ context.snapshot = c.current
      /\ context.sql = (c.queries # {"none"})
      /\ context.persist = (c.persistence \in {"auto", "persist"})
  BY DEF ContextPlan
<1>3. /\ run.fresh = c.freshness /\ run.current = context.snapshot
      /\ run.sql = (context.sql \/ context.persist) /\ run.persist = context.persist
  BY DEF RunRequest
<1> HIDE DEF context, run
<1>4. "none" \in c.queries => c.queries = {"none"}
  BY <1>1, SelectedResult
<1>5. ContextSchema(context)
  BY <1>2, <1>4 DEF ContextSchema
<1>6. r.freshness = "history_only" => ~c.current /\ c.queries # {"none"} /\ c.persistence = "skip"
  BY <1>1, SelectedResult DEF CompiledCurrentValues, CompiledPersistence
<1>7. r.freshness = "latest_required" => c.current
  BY <1>1 DEF CompiledCurrentValues
<1>8. Coherent(run)
  BY <1>1, <1>2, <1>3, <1>6, <1>7 DEF Coherent
<1>9. \/ context.snapshot
      \/ r.freshness = "history_only"
      \/ r.freshness = "cached_ok" /\ r.goals = {"position_changes"}
  <2>1. CASE r.freshness = "cached_ok"
    <3>1. c.current = (r.goals \ {"position_changes"} # {})
      BY <1>1, <2>1 DEF CompiledCurrentValues, RequiresSnapshotValues
    <3>2. r.goals # {}
      BY RequestAssumption
    <3> QED
      BY <1>2, <2>1, <3>1, <3>2
  <2> QED
    BY <1>2, <1>7, <2>1, RequestAssumption DEF Freshness
<1> QED
  BY <1>5, <1>8, <1>9 DEF run, context, c
-----------------------------------------------------------------------------
(* What a run calls although its plan's record skips it.                     *)
Unrecorded(r) ==
    (IF r.freshness = "cached_ok" THEN {"broker"} ELSE {})
    \cup (IF r.freshness = "latest_required" /\ r.hints # {}
          THEN {"initialize", "latest_state"} ELSE {})

(* What a plan's detectors and goals look at is read, and its record is true *)
(* but for that.                                                             *)
LEMMA CompiledHasItsData ==
    ASSUME NEW r \in Requests, NEW res
    PROVE  LET c == Compiled(r, res)
               context == ContextPlan(c)
           IN /\ DetectorNeeds(c.detectors) \subseteq
                     (IF context.sql THEN context.queries ELSE {"history_status"})
              /\ Over(GoalQueries, r.goals) \subseteq context.queries
              /\ r.freshness = "history_only" =>
                     {"history_status", "latest_state"} \subseteq context.queries
              /\ Announced(c) \subseteq MayCall(r, c)
              /\ MayCall(r, c) \ Announced(c) \subseteq Unrecorded(r)
              /\ c.current => r.freshness # "history_only"
<1> DEFINE c == Compiled(r, res)
           context == ContextPlan(c)
           needs == IF context.sql THEN context.queries ELSE {"history_status"}
<1>1. /\ c.freshness = r.freshness /\ c.queries = CompiledQueries(r)
      /\ c.current = CompiledCurrentValues(r) /\ c.detectors = CompiledDetectors(r)
  BY DEF Compiled
<1> HIDE DEF c
<1>2. /\ context.queries = c.queries
      /\ context.snapshot = c.current
      /\ context.sql = (c.queries # {"none"})
  BY DEF ContextPlan
<1> HIDE DEF context
<1>3. /\ Selected(r) # {} => c.queries # {"none"} /\ Selected(r) \subseteq c.queries
      /\ c.queries # {"none"} => {"history_status", "latest_state"} \subseteq c.queries
      /\ r.freshness = "history_only" => c.queries # {"none"}
  BY <1>1, SelectedResult
<1>4. "position_state_changes" \in DetectorNeeds(c.detectors) =>
          "position_state_changes" \in Selected(r)
  <2>1. \A d \in {"large_position_changes", "average_cost_shifts"} :
            d \in c.detectors => r.intent = "what_changed" \/ "position_changes" \in r.goals
    <3>1. \A g \in Goals, d \in {"large_position_changes", "average_cost_shifts"} :
              d \in GoalDetectors[g] => g = "position_changes"
      BY DEF Goals, GoalQueries, GoalDetectors, WeightDetectors
    <3>2. r.goals \subseteq Goals
      BY RequestAssumption
    <3>3. \A d \in {"large_position_changes", "average_cost_shifts"} :
              d \in Over(GoalDetectors, r.goals) => "position_changes" \in r.goals
      BY <3>1, <3>2 DEF Over
    <3> QED
      BY <1>1, <3>3 DEF CompiledDetectors, WeightDetectors, ChangeDetectors
  <2> QED
    BY <2>1, SelectedResult DEF DetectorNeeds
<1>5. DetectorNeeds(c.detectors) \subseteq {"position_state_changes", "history_status"}
  BY DEF DetectorNeeds
<1>6. DetectorNeeds(c.detectors) \subseteq needs
  <2>1. CASE context.sql
    <3>1. "history_status" \in c.queries
      BY <1>2, <1>3, <2>1
    <3>2. "position_state_changes" \in DetectorNeeds(c.detectors) =>
              "position_state_changes" \in c.queries
      BY <1>3, <1>4
    <3> QED
      BY <1>2, <1>5, <2>1, <3>1, <3>2
  <2>2. CASE ~context.sql
    <3>1. Selected(r) = {}
      BY <1>2, <1>3, <2>2
    <3> QED
      BY <1>4, <1>5, <2>2, <3>1
  <2> QED
    BY <2>1, <2>2
<1>7. Over(GoalQueries, r.goals) \subseteq context.queries
  <2>1. Over(GoalQueries, r.goals) \subseteq Selected(r)
    BY DEF Selected
  <2> QED
    BY <1>2, <1>3, <2>1
<1>8. r.freshness = "history_only" =>
          {"history_status", "latest_state"} \subseteq context.queries
  BY <1>2, <1>3
<1>9. c.current => r.freshness # "history_only"
  BY <1>1 DEF CompiledCurrentValues
<1>10. r.freshness \in {"latest_required", "cached_ok", "history_only"}
  BY RequestAssumption DEF Freshness
<1> HIDE DEF needs
<1>11. /\ Announced(c) \subseteq MayCall(r, c)
       /\ MayCall(r, c) \ Announced(c) \subseteq Unrecorded(r)
  <2>1. CASE r.freshness = "latest_required"
    BY <1>1, <1>2, <2>1 DEF Announced, MayCall, Initializes, HistoryReads, PolicyReads, Unrecorded,
       context
  <2>2. CASE r.freshness = "cached_ok"
    <3>1. c.current \/ context.sql
      <4>1. r.goals # {}
        BY RequestAssumption
      <4>2. ~c.current => r.goals = {"position_changes"}
        BY <1>1, <2>2, <4>1 DEF CompiledCurrentValues, RequiresSnapshotValues
      <4>3. r.goals = {"position_changes"} => Selected(r) # {}
        BY SelectedResult
      <4> QED
        BY <1>2, <1>3, <4>2, <4>3
    <3> QED
      BY <1>1, <1>2, <2>2, <3>1
         DEF Announced, MayCall, Initializes, HistoryReads, PolicyReads, Unrecorded, context
  <2>3. CASE r.freshness = "history_only"
    BY <1>1, <1>2, <2>3, <1>9
       DEF Announced, MayCall, Initializes, HistoryReads, PolicyReads, Unrecorded, context
  <2> QED
    BY <1>10, <2>1, <2>2, <2>3
<1> QED
  BY <1>6, <1>7, <1>8, <1>9, <1>11 DEF needs, c, context
-----------------------------------------------------------------------------
(* The history of the assets that were named is read, and of no other.       *)
NamedOnly(r, reads, candidates) ==
    \/ reads = {}
    \/ r.hints = {} /\ reads = {{}}
    \/ /\ r.hints # {}
       /\ \A h \in r.hints :
             \E c \in candidates : Matches(h, candidates) = {c} /\ {c} \in reads
       /\ Cardinality(reads) <= Cardinality(r.hints)

LEMMA CompiledReadsNamed ==
    ASSUME NEW r \in Requests, NEW candidates, IsFiniteSet(candidates),
           NEW t, RequestIsValid(r, Resolutions(r.hints, candidates), t)
    PROVE  NamedOnly(r, ChangeReads(ContextPlan(
                           Compiled(r, Resolutions(r.hints, candidates)))), candidates)
<1> DEFINE res == Resolutions(r.hints, candidates)
           c == Compiled(r, res)
           context == ContextPlan(c)
           reads == ChangeReads(context)
<1>1. c.queries = CompiledQueries(r) /\ c.assets = res
  BY DEF Compiled
<1> HIDE DEF c
<1>2. /\ context.queries = c.queries
      /\ context.sql = (c.queries # {"none"})
      /\ context.assets = Resolved(res)
      /\ context.scopes \in {{}, Resolved(res)}
  BY <1>1 DEF ContextPlan, ScopeEntries
<1> HIDE DEF context
<1>3. \/ reads = {}
      \/ /\ "position_state_changes" \in c.queries
         /\ reads = IF Resolved(res) = {} THEN {{}} ELSE {{a} : a \in Resolved(res)}
  BY <1>2 DEF ChangeReads
<1>4. CASE reads = {}
  BY <1>4 DEF NamedOnly, reads, context, c
<1>5. CASE r.hints = {} /\ reads # {}
  <2>1. Resolved(res) = {}
    BY <1>5 DEF Resolved, Resolutions
  <2> QED
    BY <1>3, <1>5, <2>1 DEF NamedOnly, reads, context, c
<1>6. CASE r.hints # {} /\ reads # {}
  <2>1. r.intent = "what_changed" \/ "position_changes" \in r.goals
    BY <1>1, <1>3, <1>6, SelectedResult
  <2>2. NeedsResolvedAssets(r)
    BY <1>6, <2>1 DEF NeedsResolvedAssets
  <2>3. /\ \A h \in r.hints : \E x \in candidates : Matches(h, candidates) = {x}
        /\ Resolved(res) = UNION {Matches(h, candidates) : h \in r.hints}
        /\ Resolved(res) # {}
    BY <2>2, ResolvedResult
  <2>4. reads = {{a} : a \in Resolved(res)}
    BY <1>3, <1>6, <2>3
  <2> HIDE DEF reads, res
  <2>5. reads = {Matches(h, candidates) : h \in r.hints}
    <3>1. \A h \in r.hints : \A a : a \in Matches(h, candidates) =>
              Matches(h, candidates) = {a} /\ a \in Resolved(res)
      BY <2>3
    <3>2. \A a \in Resolved(res) : \E h \in r.hints : a \in Matches(h, candidates)
      BY <2>3
    <3>3. \A h \in r.hints : \E a : a \in Matches(h, candidates)
      BY <2>3
    <3>4. \A h \in r.hints : Matches(h, candidates) \in reads
      BY <2>4, <3>1, <3>3
    <3>5. \A s \in reads : \E h \in r.hints : s = Matches(h, candidates)
      <4> SUFFICES ASSUME NEW a \in Resolved(res)
                   PROVE  \E h \in r.hints : {a} = Matches(h, candidates)
        BY <2>4
      <4>1. PICK h \in r.hints : a \in Matches(h, candidates)
        BY <3>2
      <4>2. Matches(h, candidates) = {a}
        BY <3>1, <4>1
      <4> QED
        BY <4>2, Zenon
    <3> QED
      BY <3>4, <3>5
  <2>6. Cardinality(reads) <= Cardinality(r.hints)
    <3> DEFINE f == [h \in r.hints |-> Matches(h, candidates)]
    <3>1. f \in Surjection(r.hints, reads)
      BY <2>5 DEF Surjection
    <3> HIDE DEF f
    <3> QED
      BY <3>1, RequestAssumption, FS_Surjection
  <2>7. \A h \in r.hints :
            \E x \in candidates : Matches(h, candidates) = {x} /\ {x} \in reads
    BY <2>3, <2>5
  <2> QED
    BY <1>6, <2>6, <2>7 DEF NamedOnly, reads, context, c, res
<1> QED
  BY <1>4, <1>5, <1>6

(* There are finitely many candidates.                                       *)
LEMMA CandidatesFinite == IsFiniteSet(Candidates(Positions, Weights))
<1> DEFINE first == {Candidate(r) : r \in Positions}
           second == {Candidate(r) : r \in Weights}
           f == [r \in Positions |-> Candidate(r)]
           g == [r \in Weights |-> Candidate(r)]
<1>1. f \in Surjection(Positions, first) /\ g \in Surjection(Weights, second)
  BY DEF Surjection
<1>2. IsFiniteSet(Positions) /\ IsFiniteSet(Weights)
  BY TurnAssumption
<1>3. Candidates(Positions, Weights) \subseteq first \cup second
  BY DEF Candidates, Firsts
<1> HIDE DEF first, second, f, g
<1>4. IsFiniteSet(first) /\ IsFiniteSet(second)
  BY <1>1, <1>2, FS_Surjection
<1>5. IsFiniteSet(first \cup second)
  BY <1>4, FS_Union
<1> QED
  BY <1>3, <1>5, FS_Subset
-----------------------------------------------------------------------------
(* A set of times has a latest one.                                          *)
LEMMA LatestResult ==
    ASSUME NEW times \in SUBSET (0..Now), times # {}
    PROVE  /\ Latest(times) \in times
           /\ \A u \in times : u <= Latest(times)
           /\ Latest(times) \in Nat
<1> DEFINE T == {Now - x : x \in times}
           R == OpToRel(<, Nat)
<1>0. Now \in Nat
  BY DatabaseAssumption
<1>1. T \subseteq Nat /\ T # {}
  <2>1. \A x \in times : Now - x \in Nat
    BY <1>0
  <2>2. PICK x : x \in times
    OBVIOUS
  <2> QED
    BY <2>1, <2>2
<1>2. IsWellFoundedOn(R, Nat)
  BY NatLessThanWellFounded
<1>3. \A x, y \in Nat : x < y => <<x, y>> \in R
  BY DEF OpToRel
<1> HIDE DEF R
<1>4. PICK t \in T : \A u \in T : ~(<<u, t>> \in R)
  <2> HIDE DEF T
  <2> QED
    BY <1>1, <1>2, WFMin
<1>5. PICK x \in times : t = Now - x
  OBVIOUS
<1>6. \A y \in times : Now - y \in T /\ ~(Now - y < Now - x)
  BY <1>1, <1>3, <1>4, <1>5
<1>7. \A y \in times : y <= x
  BY <1>0, <1>6
<1>8. Latest(times) \in times /\ \A u \in times : u <= Latest(times)
  BY <1>7 DEF Latest
<1>9. \A u \in times : u \in Nat
  BY <1>0
<1> HIDE DEF T
<1> QED
  BY <1>8, <1>9

LEMMA AnchorResult ==
    ASSUME NEW times \in SUBSET (0..Now), NEW days \in {7, 30},
           Anchor(times, days) # {}
    PROVE  /\ times # {}
           /\ \E t \in times :
                  /\ Anchor(times, days) = {t}
                  /\ Latest(times) - t \in (days * Day)..((days + 5) * Day)
<1> DEFINE end == Latest(times)
           candidates == {t \in times : t <= end - days * Day}
           a == Latest(candidates)
<1>1. times # {}
  BY DEF Anchor
<1>2. end \in Nat
  BY <1>1, LatestResult
<1>3. /\ candidates # {}
      /\ ~(end - a > days * Day + AnchorTolerance(days) * Day)
      /\ Anchor(times, days) = {a}
  BY <1>1 DEF Anchor, ComparisonAnchor
<1>4. a \in candidates /\ a \in Nat
  BY <1>3, LatestResult
<1>5. a \in times /\ a <= end - days * Day
  BY <1>4
<1> HIDE DEF a, end, candidates
<1>6. end - a \in (days * Day)..((days + 5) * Day)
  BY <1>2, <1>3, <1>4, <1>5 DEF AnchorTolerance, Day
<1> QED
  BY <1>1, <1>3, <1>5, <1>6 DEF end, a

(* What an entry of the packet says is so.                                   *)
Sound(d, e) ==
    /\ d.values # {}
    /\ e.asOf = Latest(d.values)
    /\ e.quality = "complete" =>
          /\ Now - Latest(d.values) <= Hours24
          /\ e.capability = "history_freshness" => Cardinality(d.values) > 1
          /\ e.capability # "history_freshness" => d.clean
    /\ e.capability = "history_freshness" => e.window = NoWindow
    /\ e.capability = "portfolio_value_trend_30d" => e.window = 30 /\ Spans(d.values, 30)
    /\ e.capability \in {"portfolio_value_trend_7d", "top_position_changes_7d"} =>
          e.window = 7 /\ Spans(d.values, 7)
    /\ e.capability = "top_allocation_changes_7d" =>
          e.window = 7 /\ Latest(d.values) \in d.weighed /\ Spans(d.weighed, 7)

LEMMA SpansResult ==
    ASSUME NEW times \in SUBSET (0..Now), NEW days \in {7, 30},
           Anchor(times, days) # {}
    PROVE  Spans(times, days)
BY AnchorResult DEF Spans

(* The label is fresh and the history deep only if they are.                 *)
LEMMA StatusResult ==
    ASSUME NEW d \in Databases, NEW got, NEW status, status = StatusRead(d, got, Now)
    PROVE  /\ status.freshness = "fresh" =>
                  d.values # {} /\ Now - Latest(d.values) <= Hours24
           /\ ~status.shallow => Cardinality(d.values) > 1
           /\ \A t \in status.latest : d.values # {} /\ t = Latest(d.values)
           /\ HistoryQuality(status) = "complete" =>
                  status.freshness = "fresh" /\ ~status.shallow
           /\ CurrentQuality(d, status) = "complete" =>
                  status.freshness = "fresh" /\ d.clean
<1>1. d.values \subseteq 0..Now /\ Now \in Nat
  BY DatabaseAssumption
<1>2. Cardinality(d.values) \in Nat
  <2>1. IsFiniteSet(0..Now)
    BY <1>1, FS_Interval
  <2>2. IsFiniteSet(d.values)
    BY <1>1, <2>1, FS_Subset
  <2> QED
    BY <2>2, FS_CardinalityType
<1>3. status = HistoryStatus(d.values, Now) \/ status = NoStatus
  BY DEF StatusRead
<1>4. d.values # {} => Latest(d.values) \in Nat
  BY <1>1, LatestResult
<1>5. status.freshness = "fresh" => d.values # {} /\ Now - Latest(d.values) <= Hours24
  BY <1>1, <1>3, <1>4 DEF HistoryStatus, NoStatus, FreshnessLabel, Hours24, Day
<1>6. ~status.shallow => Cardinality(d.values) > 1
  <2>1. ~status.shallow => ~(Cardinality(d.values) < 2)
    <3>1. HistoryStatus(d.values, Now).shallow <=> Cardinality(d.values) < 2
      BY Zenon DEF HistoryStatus
    <3>2. NoStatus.shallow
      BY DEF NoStatus
    <3> QED
      BY <1>3, <3>1, <3>2
  <2>2. ~(Cardinality(d.values) < 2) => Cardinality(d.values) > 1
    BY <1>2
  <2> QED
    BY <2>1, <2>2
<1>7. \A t \in status.latest : d.values # {} /\ t = Latest(d.values)
  BY <1>3 DEF HistoryStatus, NoStatus
<1>8. HistoryQuality(status) = "complete" => status.freshness = "fresh" /\ ~status.shallow
  BY DEF HistoryQuality
<1>9. CurrentQuality(d, status) = "complete" => status.freshness = "fresh" /\ d.clean
  BY DEF CurrentQuality
<1> QED
  BY <1>5, <1>6, <1>7, <1>8, <1>9

LEMMA EvidenceSound ==
    ASSUME NEW d \in Databases, NEW got, NEW lim,
           NEW e \in PacketEvidence(d, got, Now, lim)
    PROVE  Sound(d, e)
<1> DEFINE status == StatusRead(d, got, Now)
           asOf == Latest(d.values)
           quality == CurrentQuality(d, status)
           growth == IF got["growth"] = "ok" THEN d.values ELSE {}
<1>0. d.values \subseteq 0..Now /\ d.weighed \subseteq d.values
  BY DatabaseAssumption
<1>1. /\ status.freshness = "fresh" =>
             d.values # {} /\ Now - Latest(d.values) <= Hours24
      /\ ~status.shallow => Cardinality(d.values) > 1
      /\ \A t \in status.latest : d.values # {} /\ t = Latest(d.values)
      /\ HistoryQuality(status) = "complete" =>
             status.freshness = "fresh" /\ ~status.shallow
      /\ quality = "complete" => status.freshness = "fresh" /\ d.clean
  BY StatusResult
<1>2. CASE e \in HistoryFreshness(status)
  <2> HIDE DEF status
  <2>1. PICK t \in status.latest :
            e \in Evidence("history_freshness", 1, t, NoWindow, HistoryQuality(status))
    BY <1>2 DEF HistoryFreshness
  <2>2. /\ e.capability = "history_freshness" /\ e.asOf = t /\ e.window = NoWindow
        /\ e.quality = HistoryQuality(status)
    BY <2>1 DEF Evidence
  <2> QED
    BY <1>1, <2>2 DEF Sound
<1>3. CASE HasSnapshot(d, got) /\ e \in SnapshotEvidence(d, got, status, lim)
  <2>1. d.values # {}
    BY <1>3 DEF HasSnapshot
  <2>2. \/ e \in LatestSnapshot(asOf, quality)
        \/ e \in AllocationBreakdown(d, asOf, quality, lim)
        \/ e \in EffectiveCash(got, asOf, quality)
        \/ e \in ValueTrend(growth, 7, "portfolio_value_trend_7d", quality)
        \/ e \in ValueTrend(growth, 30, "portfolio_value_trend_30d", quality)
        \/ e \in AllocationChanges(d, growth, got, asOf, quality, lim)
        \/ e \in PositionChangeRows(d, growth, got, asOf, quality, lim)
    BY <1>3 DEF SnapshotEvidence
  <2>3. \A days \in {7, 30} : Anchor(growth, days) # {} => growth = d.values
    BY DEF Anchor
  <2> HIDE DEF status, quality
  <2>4. ASSUME e.asOf = asOf, e.quality = quality,
               e.capability \in {"latest_snapshot", "allocation_breakdown", "effective_cash"}
        PROVE  Sound(d, e)
    BY <1>1, <2>1, <2>4 DEF Sound
  <2>5. CASE \/ e \in LatestSnapshot(asOf, quality)
             \/ e \in AllocationBreakdown(d, asOf, quality, lim)
             \/ e \in EffectiveCash(got, asOf, quality)
    <3>1. e.asOf = asOf /\ e.quality = quality
          /\ e.capability \in {"latest_snapshot", "allocation_breakdown", "effective_cash"}
      BY <2>5 DEF LatestSnapshot, AllocationBreakdown, EffectiveCash, Evidence
    <3> QED
      BY <2>4, <3>1
  <2>6. CASE \E days \in {7, 30}, cap \in {"portfolio_value_trend_7d", "portfolio_value_trend_30d"} :
                 /\ cap = "portfolio_value_trend_7d" => days = 7
                 /\ cap = "portfolio_value_trend_30d" => days = 30
                 /\ e \in ValueTrend(growth, days, cap, quality)
    <3>1. PICK days \in {7, 30}, cap \in {"portfolio_value_trend_7d", "portfolio_value_trend_30d"} :
                 /\ cap = "portfolio_value_trend_7d" => days = 7
                 /\ cap = "portfolio_value_trend_30d" => days = 30
                 /\ e \in ValueTrend(growth, days, cap, quality)
      BY <2>6
    <3>2. /\ Anchor(growth, days) # {}
          /\ e.asOf = Latest(growth) /\ e.quality = quality
          /\ e.capability = cap /\ e.window = days
      BY <3>1 DEF ValueTrend, Evidence
    <3>3. growth = d.values
      BY <2>3, <3>2
    <3> HIDE DEF growth
    <3>4. Spans(d.values, days)
      BY <1>0, <3>2, <3>3, SpansResult
    <3> QED
      BY <1>1, <2>1, <3>1, <3>2, <3>3, <3>4 DEF Sound
  <2>7. CASE e \in AllocationChanges(d, growth, got, asOf, quality, lim)
    <3>1. /\ Anchor(growth, 7) # {} /\ Latest(growth) \in d.weighed
          /\ Anchor(growth, 7) \subseteq d.weighed
          /\ e.asOf = asOf /\ e.quality = quality
          /\ e.capability = "top_allocation_changes_7d" /\ e.window = 7
      BY <2>7 DEF AllocationChanges, Evidence
    <3>2. growth = d.values
      BY <2>3, <3>1
    <3>3. PICK t \in d.values :
              /\ Anchor(d.values, 7) = {t}
              /\ Latest(d.values) - t \in (7 * Day)..((7 + 5) * Day)
      BY <1>0, <3>1, <3>2, AnchorResult
    <3>4. Latest(d.weighed) = Latest(d.values)
      <4>1. /\ Latest(d.values) \in d.weighed
            /\ Latest(d.weighed) \in d.weighed
            /\ Latest(d.weighed) \in Nat /\ Latest(d.values) \in Nat
            /\ \A u \in d.weighed : u <= Latest(d.weighed)
            /\ \A u \in d.values : u <= Latest(d.values)
        BY <1>0, <2>1, <3>1, <3>2, LatestResult
      <4> QED
        BY <1>0, <4>1
    <3>5. Spans(d.weighed, 7)
      BY <3>1, <3>2, <3>3, <3>4 DEF Spans
    <3> HIDE DEF growth
    <3> QED
      BY <1>1, <2>1, <3>1, <3>2, <3>5 DEF Sound
  <2>8. CASE e \in PositionChangeRows(d, growth, got, asOf, quality, lim)
    <3>1. /\ Anchor(growth, 7) # {}
          /\ e.asOf = asOf /\ e.quality = quality
          /\ e.capability = "top_position_changes_7d" /\ e.window = 7
      BY <2>8 DEF PositionChangeRows, Evidence
    <3>2. Spans(d.values, 7)
      BY <1>0, <2>3, <3>1, SpansResult
    <3> HIDE DEF growth
    <3> QED
      BY <1>1, <2>1, <3>1, <3>2 DEF Sound
  <2> HIDE DEF growth
  <2> QED
    BY <2>2, <2>5, <2>6, <2>7, <2>8
<1> QED
  BY <1>2, <1>3 DEF PacketEvidence
-----------------------------------------------------------------------------
(* A part of the packet: nothing, or one entry of so many summaries.         *)
Entry(S, n) == S = {} \/ \E e : S = {e} /\ e.count \in 0..n

LEMMA EvidenceEntry ==
    ASSUME NEW cap, NEW n \in Nat, NEW count \in 0..n, NEW asOf, NEW window, NEW quality
    PROVE  Entry(Evidence(cap, count, asOf, window, quality), n)
BY DEF Entry, Evidence

LEMMA EntryBounded ==
    ASSUME NEW evidence, NEW S \in SUBSET evidence, NEW n \in Nat, Entry(S, n)
    PROVE  Bounded([e \in evidence |-> e.count], S, n)
<1> DEFINE f == [e \in evidence |-> e.count]
<1>1. CASE S = {}
  <2>1. IsFiniteSet(S) /\ Total(f, {}) = 0
    BY <1>1, FS_EmptySet, TotalEmpty
  <2>2. Total(f, S) = 0
    BY <1>1, <2>1, Zenon
  <2> QED
    BY <1>1, <2>1, <2>2 DEF Bounded
<1>2. CASE S # {}
  <2>1. PICK e : S = {e} /\ e.count \in 0..n
    BY <1>2 DEF Entry
  <2>2. f[e] = e.count /\ f[e] \in Int
    BY <2>1
  <2> HIDE DEF f
  <2>3. Total(f, {e}) = f[e] /\ IsFiniteSet({e})
    BY <2>2, TotalOfOne, FS_Singleton
  <2>4. Total(f, S) = f[e] /\ IsFiniteSet(S)
    BY <2>1, <2>3, Zenon
  <2>5. \A x \in S : f[x] \in Nat
    BY <2>1, <2>2
  <2>6. Bounded(f, S, n)
    BY <2>1, <2>2, <2>4, <2>5 DEF Bounded
  <2> QED
    BY <2>6 DEF f
<1> QED
  BY <1>1, <1>2

LEMMA AtMostResult ==
    ASSUME NEW n \in Nat, NEW limit \in Nat
    PROVE  AtMost(n, limit) \in 0..limit
BY DEF AtMost

LEMMA RowsResult ==
    ASSUME NEW n \in Nat, NEW limit \in Nat \ {0}
    PROVE  Rows(n, limit) \in 0..limit
BY AtMostResult DEF Rows

(* How many summaries each part has under the default limits.                *)
LEMMA PartsOfPacket ==
    ASSUME NEW d \in Databases, NEW got, NEW asOf, NEW quality, NEW growth
    PROVE  /\ Entry(LatestSnapshot(asOf, quality), 1)
           /\ Entry(AllocationBreakdown(d, asOf, quality, DefaultLimits), 10)
           /\ Entry(EffectiveCash(got, asOf, quality), 1)
           /\ \A days, capability : Entry(ValueTrend(growth, days, capability, quality), 1)
           /\ Entry(AllocationChanges(d, growth, got, asOf, quality, DefaultLimits), 5)
           /\ Entry(PositionChangeRows(d, growth, got, asOf, quality, DefaultLimits), 5)
<1>1. /\ d.holdings \in Nat /\ d.cashRows \in Nat /\ d.moved \in Nat /\ d.changed \in Nat
      /\ DefaultLimits.allocation = 10 /\ DefaultLimits.change = 5
  BY DatabaseAssumption DEF DefaultLimits
<1>2. \A n : Entry({}, n)
  BY DEF Entry
<1>3. Entry(LatestSnapshot(asOf, quality), 1)
  BY EvidenceEntry DEF LatestSnapshot
<1>4. Entry(AllocationBreakdown(d, asOf, quality, DefaultLimits), 10)
  <2>1. d.holdings + d.cashRows \in Nat
    BY <1>1
  <2>2. AtMost(d.holdings + d.cashRows, DefaultLimits.allocation) \in 0..10
    BY <1>1, <2>1, AtMostResult
  <2> QED
    BY <1>2, <2>2, EvidenceEntry DEF AllocationBreakdown
<1>5. Entry(EffectiveCash(got, asOf, quality), 1)
  BY <1>2, EvidenceEntry DEF EffectiveCash
<1>6. ASSUME NEW days, NEW capability
      PROVE  Entry(ValueTrend(growth, days, capability, quality), 1)
  <2>1. CASE Anchor(growth, days) = {}
    <3>1. ValueTrend(growth, days, capability, quality) = {}
      BY <2>1 DEF ValueTrend
    <3> QED
      BY <1>2, <3>1, Zenon
  <2>2. CASE Anchor(growth, days) # {}
    <3> DEFINE e == Evidence(capability, 1, Latest(growth), days, quality)
    <3>1. ValueTrend(growth, days, capability, quality) = e
      BY <2>2 DEF ValueTrend
    <3>2. 1 \in Nat /\ 1 \in 0..1
      OBVIOUS
    <3>3. Entry(e, 1)
      BY <3>2, EvidenceEntry, Zenon
    <3> HIDE DEF e
    <3> QED
      BY <3>1, <3>3, Zenon
  <2> QED
    BY <2>1, <2>2
<1>7. Rows(d.moved, DefaultLimits.change) \in 0..5 /\ Rows(d.changed, DefaultLimits.change) \in 0..5
  <2>1. 5 \in Nat \ {0} /\ d.moved \in Nat /\ d.changed \in Nat
    BY <1>1
  <2>2. Rows(d.moved, 5) \in 0..5 /\ Rows(d.changed, 5) \in 0..5
    BY <2>1, RowsResult, Zenon
  <2> QED
    BY <1>1, <2>2, Zenon
<1>8. Entry(AllocationChanges(d, growth, got, asOf, quality, DefaultLimits), 5)
  BY <1>2, <1>7, EvidenceEntry DEF AllocationChanges
<1>9. Entry(PositionChangeRows(d, growth, got, asOf, quality, DefaultLimits), 5)
  BY <1>2, <1>7, EvidenceEntry DEF PositionChangeRows
<1> QED
  BY <1>3, <1>4, <1>5, <1>6, <1>8, <1>9

LEMMA FreshnessEntry ==
    ASSUME NEW d \in Databases, NEW got, NEW status, status = StatusRead(d, got, Now)
    PROVE  Entry(HistoryFreshness(status), 1)
<1>1. \A t \in status.latest : t = Latest(d.values)
  BY StatusResult
<1>2. CASE status.latest = {}
  <2>1. HistoryFreshness(status) = {}
    BY <1>2 DEF HistoryFreshness
  <2> QED
    BY <2>1 DEF Entry
<1>3. CASE status.latest # {}
  <2>1. status.latest = {Latest(d.values)}
    BY <1>1, <1>3
  <2>2. HistoryFreshness(status)
        = Evidence("history_freshness", 1, Latest(d.values), NoWindow, HistoryQuality(status))
    BY <2>1 DEF HistoryFreshness
  <2> QED
    BY <2>2, EvidenceEntry
<1> QED
  BY <1>2, <1>3

(* What the default limits leave of a packet.                                *)
LEMMA SnapshotBounded ==
    ASSUME NEW d \in Databases, NEW got, NEW status, NEW evidence,
           SnapshotEvidence(d, got, status, DefaultLimits) \subseteq evidence
    PROVE  /\ Bounded([e \in evidence |-> e.count],
                      SnapshotEvidence(d, got, status, DefaultLimits), 24)
           /\ \A e \in SnapshotEvidence(d, got, status, DefaultLimits) : e.count \in 0..10
<1> DEFINE asOf == Latest(d.values)
           quality == CurrentQuality(d, status)
           growth == IF got["growth"] = "ok" THEN d.values ELSE {}
           f == [e \in evidence |-> e.count]
           A == LatestSnapshot(asOf, quality)
           B == AllocationBreakdown(d, asOf, quality, DefaultLimits)
           C == EffectiveCash(got, asOf, quality)
           D == ValueTrend(growth, 7, "portfolio_value_trend_7d", quality)
           E == ValueTrend(growth, 30, "portfolio_value_trend_30d", quality)
           F == AllocationChanges(d, growth, got, asOf, quality, DefaultLimits)
           G == PositionChangeRows(d, growth, got, asOf, quality, DefaultLimits)
           all == SnapshotEvidence(d, got, status, DefaultLimits)
<1>1. all = A \cup B \cup C \cup D \cup E \cup F \cup G
  BY DEF SnapshotEvidence
<1>2. /\ Entry(A, 1) /\ Entry(B, 10) /\ Entry(C, 1) /\ Entry(D, 1) /\ Entry(E, 1)
      /\ Entry(F, 5) /\ Entry(G, 5)
  BY PartsOfPacket
<1> HIDE DEF A, B, C, D, E, F, G, all, asOf, quality, growth
<1>3. /\ A \in SUBSET evidence /\ B \in SUBSET evidence /\ C \in SUBSET evidence
      /\ D \in SUBSET evidence /\ E \in SUBSET evidence /\ F \in SUBSET evidence
      /\ G \in SUBSET evidence
  BY <1>1 DEF all
<1>4. /\ Bounded(f, A, 1) /\ Bounded(f, B, 10) /\ Bounded(f, C, 1) /\ Bounded(f, D, 1)
      /\ Bounded(f, E, 1) /\ Bounded(f, F, 5) /\ Bounded(f, G, 5)
  BY <1>2, <1>3, EntryBounded
<1> HIDE DEF f
<1>0. /\ 11 = 1 + 10 /\ 12 = 11 + 1 /\ 13 = 12 + 1 /\ 14 = 13 + 1 /\ 19 = 14 + 5
      /\ 24 = 19 + 5 /\ {1, 5, 10, 11, 12, 13, 14, 19, 24} \subseteq Nat
  OBVIOUS
<1> DEFINE U2 == A \cup B
<1>5. Bounded(f, U2, 11)
  BY <1>0, <1>4, BoundedUnion
<1> HIDE DEF U2
<1> DEFINE U3 == U2 \cup C
<1>6. Bounded(f, U3, 12)
  BY <1>0, <1>4, <1>5, BoundedUnion
<1> HIDE DEF U3
<1> DEFINE U4 == U3 \cup D
<1>7. Bounded(f, U4, 13)
  BY <1>0, <1>4, <1>6, BoundedUnion
<1> HIDE DEF U4
<1> DEFINE U5 == U4 \cup E
<1>8. Bounded(f, U5, 14)
  BY <1>0, <1>4, <1>7, BoundedUnion
<1> HIDE DEF U5
<1> DEFINE U6 == U5 \cup F
<1>9. Bounded(f, U6, 19)
  BY <1>0, <1>4, <1>8, BoundedUnion
<1> HIDE DEF U6
<1> DEFINE U7 == U6 \cup G
<1>10. Bounded(f, U7, 24)
  BY <1>0, <1>4, <1>9, BoundedUnion
<1> HIDE DEF U7
<1>11. Bounded(f, all, 24)
  <2>1. all = U7
    BY <1>1 DEF U2, U3, U4, U5, U6, U7
  <2> QED
    BY <1>10, <2>1, Zenon
<1>12. \A e \in all : e.count \in 0..10
  BY <1>1, <1>2 DEF Entry
<1> QED
  BY <1>11, <1>12 DEF f, all

(* Of a list's rows only the first are shown under the default limits.       *)
LEMMA RowsShown ==
    ASSUME NEW d \in Databases, NEW got, NEW e \in PacketEvidence(d, got, Now, DefaultLimits),
           e.capability \in RowLists
    PROVE  1..e.count \subseteq ShownByDefault(e.capability)
<1> DEFINE lim == DefaultLimits
           status == StatusRead(d, got, Now)
           asOf == Latest(d.values)
           quality == CurrentQuality(d, status)
           growth == IF got["growth"] = "ok" THEN d.values ELSE {}
<1>1. /\ d.holdings \in Nat /\ d.cashRows \in Nat /\ d.moved \in Nat /\ d.changed \in Nat
      /\ lim.allocation = 10 /\ lim.change = 5
  BY DatabaseAssumption DEF DefaultLimits
<1>2. ShownByDefault("allocation_breakdown") = 1..10
  BY DEF ShownByDefault, DefaultLimits
<1>3. /\ ShownByDefault("top_allocation_changes_7d") = 1..5
      /\ ShownByDefault("top_position_changes_7d") = 1..5
  BY DEF ShownByDefault, DefaultLimits
<1>4. /\ AtMost(d.holdings + d.cashRows, 10) \in 0..10
      /\ Rows(d.moved, 5) \in 0..5 /\ Rows(d.changed, 5) \in 0..5
  BY <1>1 DEF AtMost, Rows
<1>5. ~(e \in HistoryFreshness(status))
  BY DEF HistoryFreshness, Evidence, RowLists
<1>6. e \in SnapshotEvidence(d, got, status, lim)
  BY <1>5 DEF PacketEvidence
<1>7. \/ e \in LatestSnapshot(asOf, quality)
      \/ e \in AllocationBreakdown(d, asOf, quality, lim)
      \/ e \in EffectiveCash(got, asOf, quality)
      \/ e \in ValueTrend(growth, 7, "portfolio_value_trend_7d", quality)
      \/ e \in ValueTrend(growth, 30, "portfolio_value_trend_30d", quality)
      \/ e \in AllocationChanges(d, growth, got, asOf, quality, lim)
      \/ e \in PositionChangeRows(d, growth, got, asOf, quality, lim)
  BY <1>6 DEF SnapshotEvidence
<1> HIDE DEF lim, status, asOf, quality, growth
<1>8. /\ ~(e \in LatestSnapshot(asOf, quality))
      /\ ~(e \in EffectiveCash(got, asOf, quality))
      /\ ~(e \in ValueTrend(growth, 7, "portfolio_value_trend_7d", quality))
      /\ ~(e \in ValueTrend(growth, 30, "portfolio_value_trend_30d", quality))
  BY DEF LatestSnapshot, EffectiveCash, ValueTrend, Evidence, RowLists
<1>9. CASE e \in AllocationBreakdown(d, asOf, quality, lim)
  <2>1. e.capability = "allocation_breakdown" /\ e.count = AtMost(d.holdings + d.cashRows, 10)
    BY <1>1, <1>9 DEF AllocationBreakdown, Evidence
  <2> QED
    BY <1>2, <1>4, <2>1
<1>10. CASE e \in AllocationChanges(d, growth, got, asOf, quality, lim)
  <2>1. e.capability = "top_allocation_changes_7d" /\ e.count = Rows(d.moved, 5)
    BY <1>1, <1>10 DEF AllocationChanges, Evidence
  <2> QED
    BY <1>3, <1>4, <2>1
<1>11. CASE e \in PositionChangeRows(d, growth, got, asOf, quality, lim)
  <2>1. e.capability = "top_position_changes_7d" /\ e.count = Rows(d.changed, 5)
    BY <1>1, <1>11 DEF PositionChangeRows, Evidence
  <2> QED
    BY <1>3, <1>4, <2>1
<1> QED
  BY <1>7, <1>8, <1>9, <1>10, <1>11

(* The defaults leave the numbers of a packet's entries within its caps,     *)
(* whichever of the service's calls fail.                                    *)
LEMMA PacketFound ==
    ASSUME NEW d \in Databases, NEW got
    PROVE  WithinCaps(PacketEvidence(d, got, Now, DefaultLimits))
<1> DEFINE status == StatusRead(d, got, Now)
           evidence == PacketEvidence(d, got, Now, DefaultLimits)
           f == [e \in evidence |-> e.count]
           H == HistoryFreshness(status)
           S == SnapshotEvidence(d, got, status, DefaultLimits)
           rest == IF HasSnapshot(d, got) THEN S ELSE {}
<1>1. evidence = H \cup rest
  BY DEF PacketEvidence
<1>2. Entry(H, 1)
  BY FreshnessEntry
<1>3. CASE HasSnapshot(d, got)
  <2>1. rest = S
    BY <1>3
  <2>2. S \subseteq evidence
    BY <1>1, <2>1
  <2>3. Bounded(f, S, 24) /\ \A e \in S : e.count \in 0..10
    BY <2>2, SnapshotBounded
  <2>5. evidence = H \cup S
    BY <1>1, <2>1
  <2> HIDE DEF S, H, evidence, f
  <2>6. Bounded(f, H, 1)
    BY <1>2, <2>5, EntryBounded DEF f
  <2>7. {1, 24, 25} \subseteq Nat /\ 25 = 1 + 24
    OBVIOUS
  <2>8. Bounded(f, evidence, 25)
    <3>1. Bounded(f, H \cup S, 25)
      BY <2>3, <2>6, <2>7, BoundedUnion
    <3> QED
      BY <2>5, <3>1, Zenon
  <2>9. \A e \in evidence : e.count \in 0..10
    BY <1>2, <2>3, <2>5 DEF Entry
  <2>10. Summaries(evidence) \in 0..25
    BY <2>8 DEF Bounded, Summaries, f
  <2>11. WithinCaps(evidence)
    BY <2>9, <2>10 DEF WithinCaps, SummaryCap, AllocationCap, ChangeCap
  <2> QED
    BY <2>11 DEF evidence
<1>4. CASE ~HasSnapshot(d, got)
  <2>1. evidence = H
    BY <1>1, <1>4
  <2> HIDE DEF H, evidence, f
  <2>7. Bounded(f, H, 1)
    BY <1>2, <2>1, EntryBounded DEF f
  <2>8. \A e \in evidence : e.count \in 0..1
    BY <1>2, <2>1 DEF Entry
  <2>9. Summaries(evidence) \in 0..1
    BY <2>1, <2>7 DEF Bounded, Summaries, f
  <2>10. WithinCaps(evidence)
    BY <2>8, <2>9 DEF WithinCaps, SummaryCap, AllocationCap, ChangeCap
  <2> QED
    BY <2>10 DEF evidence
<1> QED
  BY <1>3, <1>4

-----------------------------------------------------------------------------
DecisionFields ==
    {"route", "answer", "required", "cited", "missing", "request", "fallback",
     "sentiment", "warnings"}

DirectAnswer(d) ==
    /\ DOMAIN d = DecisionFields
    /\ d.route = "direct_context" /\ d.cited # {} /\ d.request = {}
    /\ d.fallback \subseteq Fallbacks

(* The packet is made of what the database held when it was loaded.          *)
PacketTrue ==
    /\ stage \in {"load", "plan", "validate", "answered"} => db \in Databases
    /\ stage \in {"plan", "validate", "answered"} =>
           \E got : packet \in {{}, PacketEvidence(db, got, Now, limits)}

DecisionTrue ==
    /\ stage \in {"validate", "answered"} => DirectAnswer(decision)
    /\ stage = "answered" => IsCovered(Coverage(decision, packet, Now))

RequestTrue == stage \in {"compile", "planned", "incoherent"} => request \in Requests

(* A plan is the compiler's, of a request that passed with its resolutions.  *)
PlanTrue ==
    /\ stage # "incoherent"
    /\ stage = "planned" =>
           \E candidates \in {{}, HeldCandidates} :
               LET res == Resolutions(request.hints, candidates)
               IN RequestIsValid(request, res, trade) /\ plan = Compiled(request, res)

TurnInv == PacketTrue /\ DecisionTrue /\ RequestTrue /\ PlanTrue

LEMMA TurnInitial == TurnInit => TurnInv
BY DEF TurnInit, TurnInv, PacketTrue, DecisionTrue, RequestTrue, PlanTrue

(* What an uncovered answer becomes.                                         *)
LEMMA RoutedResult ==
    ASSUME NEW d, DirectAnswer(d), NEW evidence
    PROVE  LET routed == RoutedDecision(d, evidence, Now) IN
           /\ routed.route = "direct_context" =>
                  routed = d /\ IsCovered(Coverage(d, evidence, Now))
           /\ routed.request \subseteq Requests
<1> DEFINE v == Coverage(d, evidence, Now)
<1>1. CASE IsCovered(v)
  BY <1>1 DEF RoutedDecision, DirectAnswer
<1>2. CASE ~IsCovered(v)
  <2>1. RoutedDecision(d, evidence, Now) = Reroute(d, v)
    BY <1>2 DEF RoutedDecision, DirectAnswer
  <2> HIDE DEF v
  <2>2. /\ Reroute(d, v).route \in {"unsupported", "delegate_portfolio"}
        /\ Reroute(d, v).request = d.fallback
    BY DEF Reroute, DirectAnswer, DecisionFields
  <2>3. d.fallback \subseteq Requests
    BY TurnAssumption DEF DirectAnswer
  <2> QED
    BY <2>1, <2>2, <2>3
<1> QED
  BY <1>1, <1>2

(* A route that leaves forgets what led to it.                               *)
LEMMA LeaveResult ==
    ASSUME TurnInv, NEW to, NEW asked, Leave(to, asked),
           to \notin {"load", "plan", "validate", "answered", "planned", "incoherent"},
           to = "compile" => asked \in Requests
    PROVE  TurnInv'
BY DEF Leave, TurnInv, PacketTrue, DecisionTrue, RequestTrue, PlanTrue

LEMMA TurnStep ==
    ASSUME TurnInv, [TurnNext]_turnVars
    PROVE  TurnInv'
<1>1. CASE LoadBaseline
  <2>1. /\ stage = "load" /\ stage' = "plan"
        /\ UNCHANGED <<trade, db, limits, decision, request, plan>>
    BY <1>1 DEF LoadBaseline
  <2>2. \E got : packet' \in {{}, PacketEvidence(db, got, Now, limits)}
    BY <1>1 DEF LoadBaseline
  <2>3. db \in Databases
    BY <2>1 DEF TurnInv, PacketTrue
  <2>4. PacketTrue'
    BY <2>1, <2>2, <2>3 DEF PacketTrue
  <2> QED
    BY <2>1, <2>4 DEF TurnInv, DecisionTrue, RequestTrue, PlanTrue
<1>2. CASE AnswerDirectly
  <2>1. /\ stage = "plan" /\ stage' = "validate"
        /\ UNCHANGED <<trade, db, limits, packet, unavailable, request, plan>>
    BY <1>2 DEF AnswerDirectly
  <2>2. PICK warnings, required, cited, fallback :
          /\ fallback \in {{}} \cup {{f} : f \in Fallbacks}
          /\ LET d == [route |-> "direct_context", answer |-> TRUE, required |-> required,
                       cited |-> cited, missing |-> {}, request |-> {}, fallback |-> fallback,
                       sentiment |-> FALSE, warnings |-> warnings]
             IN WellShaped(d) /\ decision' = d
    BY <1>2 DEF AnswerDirectly
  <2>3. /\ DOMAIN decision' = DecisionFields
        /\ decision'.route = "direct_context" /\ decision'.request = {}
        /\ decision'.fallback = fallback
    BY <2>2 DEF DecisionFields
  <2>4. WellShaped(decision')
    BY <2>2
  <2>5. decision'.cited # {}
    BY <2>3, <2>4 DEF WellShaped
  <2>6. fallback \subseteq Fallbacks
    BY <2>2
  <2>7. DirectAnswer(decision')
    BY <2>3, <2>5, <2>6 DEF DirectAnswer
  <2>8. DecisionTrue'
    BY <2>1, <2>7 DEF DecisionTrue
  <2>9. PacketTrue'
    BY <2>1 DEF TurnInv, PacketTrue
  <2> QED
    BY <2>1, <2>8, <2>9 DEF TurnInv, RequestTrue, PlanTrue
<1>3. CASE AnswerOtherwise
  BY <1>3, LeaveResult DEF AnswerOtherwise
<1>4. CASE Delegate
  BY <1>4, LeaveResult DEF Delegate
<1>5. CASE ValidateDecision
  <2>1. stage = "validate" /\ DirectAnswer(decision)
    BY <1>5 DEF ValidateDecision, TurnInv, DecisionTrue
  <2>2. /\ Routed(decision).route = "direct_context" =>
              IsCovered(Coverage(decision, packet, Now))
        /\ Routed(decision).request \subseteq Requests
    BY <2>1, RoutedResult DEF Routed
  <2>3. \/ \E to \in {"refused", "failed", "unsupported"} : Leave(to, NotYet)
        \/ /\ Routed(decision).route = "direct_context"
           /\ stage' = "answered"
           /\ UNCHANGED <<trade, db, limits, packet, unavailable, decision, request, plan>>
        \/ \E r \in Routed(decision).request : Leave("compile", r)
    BY <1>5 DEF ValidateDecision
  <2>4. CASE \E to \in {"refused", "failed", "unsupported"} : Leave(to, NotYet)
    BY <2>4, LeaveResult
  <2>5. CASE /\ Routed(decision).route = "direct_context"
             /\ stage' = "answered"
             /\ UNCHANGED <<trade, db, limits, packet, unavailable, decision, request, plan>>
    <3>1. DecisionTrue'
      BY <2>1, <2>2, <2>5 DEF DecisionTrue
    <3>2. PacketTrue'
      BY <2>1, <2>5 DEF TurnInv, PacketTrue
    <3> QED
      BY <2>5, <3>1, <3>2 DEF TurnInv, RequestTrue, PlanTrue
  <2>6. CASE \E r \in Routed(decision).request : Leave("compile", r)
    BY <2>2, <2>6, LeaveResult
  <2> QED
    BY <2>3, <2>4, <2>5, <2>6
<1>6. CASE Ask
  <2>1. PICK r \in Requests : Leave("compile", r) \/ Leave("refused", NotYet)
    BY <1>6 DEF Ask
  <2> QED
    BY <2>1, LeaveResult
<1>7. CASE Compile
  <2>1. /\ stage = "compile" /\ request \in Requests
        /\ UNCHANGED <<trade, db, limits, packet, unavailable, decision, request>>
    BY <1>7 DEF Compile, TurnInv, RequestTrue
  <2>2. PICK candidates \in {{}, HeldCandidates} :
          LET res == Resolutions(request.hints, candidates)
              compiled == Compiled(request, res)
          IN /\ stage' = IF ~RequestIsValid(request, res, trade) THEN "rejected"
                         ELSE IF PlanSchema(compiled) /\ PlanIsValid(request, compiled)
                                 /\ ContextSchema(ContextPlan(compiled))
                         THEN "planned" ELSE "incoherent"
             /\ plan' = compiled
    BY <1>7 DEF Compile
  <2> DEFINE res == Resolutions(request.hints, candidates)
  <2>3. IsFiniteSet(candidates)
    BY CandidatesFinite, FS_EmptySet DEF HeldCandidates
  <2>4. RequestIsValid(request, res, trade) =>
            /\ PlanSchema(Compiled(request, res))
            /\ PlanIsValid(request, Compiled(request, res))
            /\ ContextSchema(ContextPlan(Compiled(request, res)))
    BY <2>1, <2>3, CompiledIsValid, CompiledIsCoherent
  <2>5. /\ plan' = Compiled(request, res)
        /\ \/ stage' = "rejected"
           \/ stage' = "planned" /\ RequestIsValid(request, res, trade)
    BY <2>2, <2>4
  <2>6. HeldCandidates' = HeldCandidates
    BY <2>1 DEF HeldCandidates
  <2>7. PlanTrue'
    BY <2>1, <2>5, <2>6 DEF PlanTrue
  <2> QED
    BY <2>1, <2>5, <2>7 DEF TurnInv, PacketTrue, DecisionTrue, RequestTrue
<1>8. CASE UNCHANGED turnVars
  BY <1>8 DEF turnVars, TurnInv, PacketTrue, DecisionTrue, RequestTrue, PlanTrue,
       HeldCandidates
<1> QED
  BY <1>1, <1>2, <1>3, <1>4, <1>5, <1>6, <1>7, <1>8 DEF TurnNext

THEOREM TurnInvariant == TurnSpec => []TurnInv
<1>1. TurnInit => TurnInv
  BY TurnInitial
<1>2. TurnInv /\ [TurnNext]_turnVars => TurnInv'
  BY TurnStep
<1> QED
  BY <1>1, <1>2, PTL DEF TurnSpec
-----------------------------------------------------------------------------
(* A direct answer that was let through is recent enough and supported by    *)
(* the stored rows over the window that was asked for.                       *)
LEMMA CoveredIsSupported == TurnInv => CoveredMeansSupported
<1> SUFFICES ASSUME TurnInv, stage = "answered"
             PROVE  LET ask == AsksFor(decision)
                        age == Now - Latest(db.values)
                    IN /\ decision.cited # {}
                       /\ db.values # {} /\ age <= Hours24
                       /\ \A limit \in MaxAge(ask.freshness) : age <= limit
                       /\ \A c \in decision.required : Supported(c, ask.window)
  BY DEF CoveredMeansSupported
<1> DEFINE ask == AsksFor(decision)
           age == Now - Latest(db.values)
           v == Coverage(decision, packet, Now)
<1>1. /\ DirectAnswer(decision)
      /\ IsCovered(v)
      /\ db \in Databases
      /\ \E got : packet \in {{}, PacketEvidence(db, got, Now, limits)}
  BY DEF TurnInv, DecisionTrue, PacketTrue
<1>2. \A e \in packet : Sound(db, e)
  BY <1>1, EvidenceSound
<1>3. ask.window \in Nat /\ ask.freshness \in Freshness
  <2>1. CASE decision.fallback = {}
    BY <2>1 DEF AsksFor, NoWindow, Freshness
  <2>2. CASE decision.fallback # {}
    <3>1. (CHOOSE f \in decision.fallback : TRUE) \in Requests
      BY <1>1, <2>2, TurnAssumption DEF DirectAnswer
    <3> QED
      BY <2>2, <3>1, RequestAssumption DEF AsksFor
  <2> QED
    BY <2>1, <2>2
<1>4. /\ MissingCapabilities(decision, packet) = {}
      /\ InvalidRefs(decision, packet) = {}
      /\ StaleRefs(decision, packet, ask.freshness, Now) = {}
      /\ WindowMismatches(decision, packet, ask.window) = {}
  BY <1>1 DEF IsCovered, Coverage
<1> HIDE DEF ask, v
<1>5. \A c \in decision.cited : \E e \in packet : e.capability = c
  BY <1>4 DEF InvalidRefs, Of
<1>6. \A c \in decision.cited : \A e \in packet :
          e.capability = c =>
              /\ e.quality = "complete"
              /\ \A limit \in MaxAge(ask.freshness) : ~(Now - e.asOf > limit)
  BY <1>4 DEF StaleRefs, Of
<1>7. decision.required \subseteq decision.cited
  BY <1>4 DEF MissingCapabilities
<1>8. \A c \in decision.required \cap Windowed :
          \E e \in packet : e.capability = c /\ ~(e.window < ask.window)
  BY <1>4 DEF WindowMismatches, Of
<1>9. PICK first \in packet :
          /\ first.quality = "complete"
          /\ \A limit \in MaxAge(ask.freshness) : ~(Now - first.asOf > limit)
  BY <1>1, <1>5, <1>6 DEF DirectAnswer
<1>10. db.values # {} /\ age <= Hours24 /\ first.asOf = Latest(db.values)
  BY <1>2, <1>9 DEF Sound
<1>11. age \in Int /\ MaxAge(ask.freshness) \subseteq Int
  <2>1. Latest(db.values) \in Nat
    BY <1>1, <1>10, DatabaseAssumption, LatestResult
  <2> QED
    BY <1>3, <2>1, DatabaseAssumption DEF MaxAge, Freshness, Minutes15, Hours24, Day
<1>12. \A limit \in MaxAge(ask.freshness) : age <= limit
  <2>1. \A limit \in MaxAge(ask.freshness) : ~(age > limit)
    BY <1>9, <1>10
  <2> HIDE DEF age
  <2> QED
    BY <1>11, <2>1
<1>13. ASSUME NEW c \in decision.required
       PROVE  Supported(c, ask.window)
  <2>1. PICK e \in packet : e.capability = c /\ e.quality = "complete"
    BY <1>5, <1>6, <1>7
  <2>2. Sound(db, e)
    BY <1>2, <2>1
  <2>3. c \in Windowed =>
            \E w \in packet : w.capability = c /\ ~(w.window < ask.window) /\ Sound(db, w)
    BY <1>2, <1>8
  <2>4. CASE c = "history_freshness"
    <3>1. ~(0 < ask.window)
      BY <2>3, <2>4 DEF Windowed, Sound, NoWindow
    <3>2. Cardinality(db.values) > 1
      BY <2>1, <2>2, <2>4 DEF Sound
    <3>3. ask.window = NoWindow
      BY <1>3, <3>1 DEF NoWindow
    <3> QED
      BY <2>4, <3>2, <3>3 DEF Supported
  <2>5. CASE c # "history_freshness"
    <3>1. db.clean
      BY <2>1, <2>2, <2>5 DEF Sound
    <3>2. c = "portfolio_value_trend_30d" => ask.window <= 30 /\ Spans(db.values, 30)
      <4>1. c = "portfolio_value_trend_30d" => ~(30 < ask.window) /\ Spans(db.values, 30)
        BY <2>1, <2>2, <2>3 DEF Windowed, Trends, Sound
      <4> QED
        BY <1>3, <4>1
    <3>3. c \in {"portfolio_value_trend_7d", "top_position_changes_7d"} =>
              ask.window <= 7 /\ Spans(db.values, 7)
      <4>1. c \in {"portfolio_value_trend_7d", "top_position_changes_7d"} =>
                ~(7 < ask.window) /\ Spans(db.values, 7)
        BY <2>1, <2>2, <2>3 DEF Windowed, Trends, Sound
      <4> QED
        BY <1>3, <4>1
    <3>4. c = "top_allocation_changes_7d" =>
              ask.window <= 7 /\ Latest(db.values) \in db.weighed /\ Spans(db.weighed, 7)
      <4>1. c = "top_allocation_changes_7d" =>
                /\ ~(7 < ask.window) /\ Latest(db.values) \in db.weighed
                /\ Spans(db.weighed, 7)
        BY <2>1, <2>2, <2>3 DEF Windowed, Trends, Sound
      <4> QED
        BY <1>3, <4>1
    <3> QED
      BY <2>5, <3>1, <3>2, <3>3, <3>4 DEF Supported
  <2> QED
    BY <2>4, <2>5
<1>14. decision.cited # {}
  BY <1>1 DEF DirectAnswer
<1> HIDE DEF age
<1> QED
  BY <1>10, <1>12, <1>13, <1>14 DEF ask, age

THEOREM CoveredMeansSupportedHolds == TurnSpec => []CoveredMeansSupported
BY TurnInvariant, CoveredIsSupported, PTL

(* With the default limits a packet is lost to no number of rows, whatever   *)
(* is stored and whichever calls fail: only to a row among those shown that  *)
(* no packet takes, or to the length of its texts                            *)
(* (PortfolioBaselineService.load and the packet's validator).               *)
THEOREM PacketFitsHolds == TurnSpec => []PacketFits
<1>1. TurnInit => PacketFits
  BY DEF TurnInit, PacketFits
<1>2. ASSUME TurnInv, PacketFits, [TurnNext]_turnVars
      PROVE  PacketFits'
  <2>1. CASE LoadBaseline
    <3>1. db \in Databases /\ limits' = limits
      BY <1>2, <2>1 DEF LoadBaseline, TurnInv, PacketTrue
    <3>2. PICK got : unavailable' = ~PacketBuilds(db, PacketEvidence(db, got, Now, limits))
      BY <2>1 DEF LoadBaseline
    <3>3. ASSUME limits = DefaultLimits, unavailable'
          PROVE  db.large \/ \E c \in RowLists : db.spoilt[c] \in ShownByDefault(c)
      <4> DEFINE evidence == PacketEvidence(db, got, Now, DefaultLimits)
      <4>1. WithinCaps(evidence)
        BY <3>1, PacketFound
      <4>2. \A e \in evidence :
                e.capability \in RowLists => 1..e.count \subseteq ShownByDefault(e.capability)
        BY <3>1, RowsShown
      <4>3. ~PacketBuilds(db, evidence)
        BY <3>2, <3>3
      <4> HIDE DEF evidence
      <4>4. db.large \/ ~RowsAreTaken(db, evidence)
        BY <4>1, <4>3 DEF PacketBuilds
      <4>5. CASE ~RowsAreTaken(db, evidence)
        <5>1. PICK e \in evidence :
                  e.capability \in RowLists /\ db.spoilt[e.capability] \in 1..e.count
          BY <4>5 DEF RowsAreTaken
        <5> QED
          BY <4>2, <5>1
      <4> QED
        BY <4>4, <4>5
    <3>4. UNCHANGED <<db, limits>>
      BY <2>1 DEF LoadBaseline
    <3> QED
      BY <3>3, <3>4 DEF PacketFits
  <2>2. CASE UNCHANGED turnVars
    BY <1>2, <2>2 DEF turnVars, PacketFits
  <2>3. CASE AnswerDirectly \/ AnswerOtherwise \/ Delegate \/ ValidateDecision \/ Ask \/ Compile
    <3>1. stage' # "plan"
      BY <2>3 DEF AnswerDirectly, AnswerOtherwise, Delegate, ValidateDecision, Ask, Compile,
            Leave
    <3> QED
      BY <3>1 DEF PacketFits
  <2> QED
    BY <1>2, <2>1, <2>2, <2>3 DEF TurnNext
<1> QED
  BY <1>1, <1>2, TurnInvariant, PTL DEF TurnSpec

(* The validator, the schemas and the run accept every plan the compiler     *)
(* makes, and the plan allows for the broker wherever the run may need it,   *)
(* but for a cached_ok request for position changes alone.                   *)
THEOREM CompiledPlanAcceptedHolds == TurnSpec => []CompiledPlanAccepted
<1>1. TurnInv => CompiledPlanAccepted
  <2> SUFFICES ASSUME TurnInv PROVE CompiledPlanAccepted
    OBVIOUS
  <2>1. stage # "incoherent"
    BY DEF TurnInv, PlanTrue
  <2>2. stage = "planned" =>
            request \in Requests /\ \E res : plan = Compiled(request, res)
    BY DEF TurnInv, PlanTrue, RequestTrue
  <2>3. stage = "planned" =>
            /\ Coherent(RunRequest(request, plan))
            /\ \/ ContextPlan(plan).snapshot
               \/ request.freshness = "history_only"
               \/ request.freshness = "cached_ok" /\ request.goals = {"position_changes"}
    BY <2>2, CompiledIsCoherent
  <2> QED
    BY <2>1, <2>3 DEF CompiledPlanAccepted
<1> QED
  BY <1>1, TurnInvariant, PTL

(* Whatever a planned detector or goal looks at is read, and what a run calls*)
(* is what was recorded as planned, but for the broker of a cached_ok request*)
(* and the candidates' read of a latest_required one.                        *)
THEOREM PlanHasItsDataHolds == TurnSpec => []PlanHasItsData
<1>1. TurnInv => PlanHasItsData
  <2> SUFFICES ASSUME TurnInv, stage = "planned" PROVE PlanHasItsData
    BY DEF PlanHasItsData
  <2>1. PICK res : request \in Requests /\ plan = Compiled(request, res)
    BY DEF TurnInv, PlanTrue, RequestTrue
  <2> QED
    BY <2>1, CompiledHasItsData DEF PlanHasItsData, CalledThoughSkipped, Unrecorded
<1> QED
  BY <1>1, TurnInvariant, PTL

(* The history of the named assets is read, and of no other.                 *)
THEOREM ReadsWhatWasNamedHolds == TurnSpec => []ReadsWhatWasNamed
<1>1. TurnInv => ReadsWhatWasNamed
  <2> SUFFICES ASSUME TurnInv, stage = "planned" PROVE ReadsWhatWasNamed
    BY DEF ReadsWhatWasNamed
  <2> DEFINE reads == ChangeReads(ContextPlan(plan))
  <2>1. request \in Requests
    BY DEF TurnInv, RequestTrue
  <2>2. PICK candidates \in {{}, HeldCandidates} :
            LET res == Resolutions(request.hints, candidates)
            IN RequestIsValid(request, res, trade) /\ plan = Compiled(request, res)
    BY DEF TurnInv, PlanTrue
  <2>3. IsFiniteSet(candidates)
    BY CandidatesFinite, FS_EmptySet DEF HeldCandidates
  <2>4. NamedOnly(request, reads, candidates)
    BY <2>1, <2>2, <2>3, CompiledReadsNamed
  <2>5. request.hints # {} => candidates \in {{}, Candidates(Positions, Weights)}
    BY <2>2 DEF HeldCandidates
  <2> HIDE DEF reads
  <2>6. CASE reads = {} \/ (request.hints = {} /\ reads = {{}})
    BY <2>6 DEF ReadsWhatWasNamed, reads
  <2>7. CASE /\ request.hints # {}
             /\ \A h \in request.hints :
                   \E c \in candidates : Matches(h, candidates) = {c} /\ {c} \in reads
             /\ Cardinality(reads) <= Cardinality(request.hints)
    <3>1. candidates = Candidates(Positions, Weights)
      BY <2>5, <2>7
    <3> QED
      BY <2>7, <3>1 DEF ReadsWhatWasNamed, reads
  <2> QED
    BY <2>4, <2>6, <2>7 DEF NamedOnly
<1> QED
  BY <1>1, TurnInvariant, PTL
=============================================================================
