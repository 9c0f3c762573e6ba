---------------------------- MODULE EvidencePlan ----------------------------
(***************************************************************************)
(* From a bounded PortfolioRequest to what the Portfolio Agent reads,      *)
(* computes and stores: the deterministic compiler and the validator of    *)
(* evidence plans (portfolio_evidence_planner.py), the context plan made   *)
(* of one, and the calls portfolio_agent.py makes by it.                   *)
(*                                                                         *)
(* A request is [intent, hints, window, freshness, goals, interpret]; a    *)
(* list whose order and repetitions do not matter is a set.                *)
(***************************************************************************)
EXTENDS AssetResolution, PortfolioRequests

TaskQueries ==
    [full_review    |-> {"portfolio_growth", "allocation_history"},
     portfolio_fact |-> {},
     risk_check     |-> {},
     what_changed   |-> {"portfolio_growth", "allocation_history", "position_state_changes"},
     deep_dive      |-> {"portfolio_growth", "allocation_history"},
     compare        |-> {"portfolio_growth", "allocation_history"}]

Intents == DOMAIN TaskQueries

GoalQueries ==
    [snapshot |-> {}, allocation_context |-> {}, risk_context |-> {},
     effective_cash |-> {}, portfolio_patterns |-> {}, sentiment_context_needs |-> {},
     performance_context |-> {"portfolio_growth"},
     position_changes    |-> {"position_state_changes"},
     derived_metrics     |-> {"portfolio_growth"}]

Goals == DOMAIN GoalQueries

GoalMetrics ==
    [snapshot |-> {}, portfolio_patterns |-> {}, sentiment_context_needs |-> {},
     allocation_context  |-> {"allocation"},
     performance_context |-> {"performance"},
     risk_context        |-> {"risk"},
     effective_cash      |-> {"effective_cash"},
     position_changes    |-> {"performance"},
     derived_metrics     |-> {"performance"}]

ChangeDetectors == {"large_position_changes", "average_cost_shifts", "portfolio_outliers"}
WeightDetectors == {"concentration", "allocation_drift"}

GoalDetectors ==
    [snapshot |-> {}, performance_context |-> {}, derived_metrics |-> {},
     allocation_context      |-> WeightDetectors,
     risk_context            |-> WeightDetectors,
     portfolio_patterns      |-> WeightDetectors,
     effective_cash          |-> {"cash_effective_cash"},
     position_changes        |-> ChangeDetectors,
     sentiment_context_needs |-> {"sentiment_context_needed"}]

Over(table, goals) == UNION {table[g] : g \in goals}

ReviewIntents == {"full_review", "deep_dive", "compare"}
-----------------------------------------------------------------------------
RequiresSnapshotValues(goals) == goals \ {"position_changes"} # {}

RequiresHistory(r) ==
    \/ r.intent \in ReviewIntents \cup {"what_changed"}
    \/ r.goals \cap {"position_changes", "performance_context", "derived_metrics"} # {}

ReviewMetrics(r) ==
    IF r.intent \in ReviewIntents
    THEN {"allocation", "concentration", "effective_cash", "risk", "performance"} ELSE {}

(* The validator's rule.  The compiler shares what it says of the intent and *)
(* has a table of its own for the goals.                                     *)
RequiredMetrics(r) ==
    ReviewMetrics(r)
    \cup (IF "allocation_context" \in r.goals THEN {"allocation"} ELSE {})
    \cup (IF "risk_context" \in r.goals THEN {"risk"} ELSE {})
    \cup (IF "effective_cash" \in r.goals THEN {"effective_cash"} ELSE {})
    \cup (IF r.goals \cap {"performance_context", "derived_metrics", "position_changes"} # {}
          THEN {"performance"} ELSE {})

(* Whose changes are asked for: everyone's without hints; "" if no hint is   *)
(* resolved.  A resolved asset read from the database has its row's id.      *)
ExpectedScope(r, resolutions) ==
    IF r.hints = {} THEN "portfolio_wide"
    ELSE IF Resolved(resolutions) # {} THEN "asset_scoped" ELSE ""

(* Mutant: reading history is left to the goals. *)
QueriesOfGoals(r) ==
    LET selected == Over(GoalQueries, r.goals)
    IN IF selected = {} /\ r.freshness # "history_only" THEN {"none"}
       ELSE {"history_status", "latest_state"} \cup selected

CompiledQueries(r) ==
    LET selected == TaskQueries[r.intent] \cup Over(GoalQueries, r.goals)
    IN IF selected = {} /\ r.freshness # "history_only" THEN {"none"}
       ELSE {"history_status", "latest_state"} \cup selected

CompiledMetrics(r) ==
    LET selected == ReviewMetrics(r) \cup Over(GoalMetrics, r.goals)
    IN IF selected = {} THEN {"allocation"} ELSE selected

CompiledCurrentValues(r) ==
    CASE r.freshness = "history_only"    -> FALSE
      [] r.freshness = "latest_required" -> TRUE
      [] r.freshness = "cached_ok"       -> RequiresSnapshotValues(r.goals)

(* Mutant: the intent alone decides. *)
PersistenceOfIntent(r) == IF r.intent = "portfolio_fact" THEN "skip" ELSE "auto"

CompiledPersistence(r) ==
    IF r.freshness = "history_only" \/ r.intent = "portfolio_fact" THEN "skip"
    ELSE IF r.freshness = "latest_required" /\ r.intent # "risk_check" THEN "persist"
    ELSE "auto"

CompiledDetectors(r) ==
    {"stale_data", "unsupported_quote_warnings"}
    \cup Over(GoalDetectors, r.goals)
    \cup (IF r.intent \in AnalyticalIntents THEN WeightDetectors ELSE {})
    \cup (IF r.intent = "full_review" THEN {"cash_effective_cash"} ELSE {})
    \cup (IF r.intent = "what_changed" THEN ChangeDetectors ELSE {})

Compiled(r, resolutions) ==
    [intent      |-> r.intent,
     assets      |-> resolutions,
     queries     |-> CompiledQueries(r),
     metrics     |-> CompiledMetrics(r),
     current     |-> CompiledCurrentValues(r),
     window      |-> r.window,
     freshness   |-> r.freshness,
     scope       |-> IF "position_changes" \in r.goals THEN ExpectedScope(r, resolutions)
                     ELSE "none",
     persistence |-> CompiledPersistence(r),
     detectors   |-> CompiledDetectors(r)]
-----------------------------------------------------------------------------
(* The schema: no scope is no value, "none" is the only query. *)
PlanSchema(plan) ==
    /\ plan.scope # ""
    /\ "none" \in plan.queries => plan.queries = {"none"}

(* validate_portfolio_evidence_plan. *)
PlanIsValid(r, plan) ==
    /\ plan.intent = r.intent /\ plan.window = r.window /\ plan.freshness = r.freshness
    /\ r.freshness = "latest_required" => plan.current
    /\ r.freshness = "history_only" => ~plan.current /\ plan.persistence = "skip"
    /\ (r.freshness = "cached_ok" /\ RequiresSnapshotValues(r.goals)) => plan.current
    /\ RequiresHistory(r) => plan.queries # {"none"}
    /\ "position_changes" \in r.goals =>
          /\ "position_state_changes" \in plan.queries
          /\ plan.scope # "none"
          /\ ExpectedScope(r, plan.assets) \in {"", plan.scope}
    /\ ("position_changes" \notin r.goals /\ plan.scope # "none") =>
          "position_state_changes" \in plan.queries
    /\ RequiredMetrics(r) \subseteq plan.metrics \/ "all" \in plan.metrics
    /\ "portfolio_patterns" \in r.goals => plan.detectors # {}
    /\ "sentiment_context_needs" \in r.goals => "sentiment_context_needed" \in plan.detectors
-----------------------------------------------------------------------------
ScopeEntries(plan) ==
    IF "position_state_changes" \in plan.queries THEN Resolved(plan.assets) ELSE {}

(* portfolio_evidence_plan_to_context_plan; the runtime asks for a snapshot  *)
(* of the broker's if the plan itself does.                                  *)
ContextPlan(plan) ==
    [snapshot |-> plan.current,
     sql      |-> plan.queries # {"none"},
     queries  |-> plan.queries,
     assets   |-> Resolved(plan.assets),
     scopes   |-> ScopeEntries(plan),
     metrics  |-> plan.metrics,
     persist  |-> plan.persistence \in {"auto", "persist"}]

ContextSchema(context) ==
    /\ "none" \in context.queries => context.queries = {"none"}
    /\ context.sql <=> context.queries # {"none"}

(* The assets whose changes are read, one call each; {} is everyone's. *)
ChangeReads(context) ==
    LET assets == IF context.scopes # {} THEN context.scopes ELSE context.assets
    IN IF ~context.sql \/ "position_state_changes" \notin context.queries THEN {}
       ELSE IF assets = {} THEN {{}} ELSE {{c} : c \in assets}

(* The probes for a stored state, unless the broker must be asked. *)
PolicyReads(freshness) ==
    IF freshness = "latest_required" THEN {} ELSE {"history_status", "latest_state"}

(* What is read of the history in the end: a probe's result is not read again. *)
HistoryReads(context, freshness) ==
    PolicyReads(freshness) \cup (IF context.sql THEN context.queries ELSE {})

(* A plan that reads history or stores initializes the database, and so do   *)
(* the probes.                                                               *)
Initializes(context, freshness) ==
    context.sql \/ context.persist \/ freshness # "latest_required"

(* What a run may call.  The stored state is read for the candidates of a    *)
(* request that names assets, before there is a plan; the broker is asked if *)
(* the stored state does not do, where the plan allows for it.               *)
MayCall(r, plan) ==
    LET context == ContextPlan(plan)
    IN (IF r.hints # {} THEN {"initialize", "latest_state"} ELSE {})
       \cup (IF Initializes(context, plan.freshness) THEN {"initialize"} ELSE {})
       \cup HistoryReads(context, plan.freshness)
       \cup (IF context.snapshot /\ plan.freshness # "history_only" THEN {"broker"} ELSE {})
       \cup (IF context.metrics # {} THEN {"metrics"} ELSE {})
       \cup (IF context.persist THEN {"store"} ELSE {})

(* _record_planned_tools: what is recorded as planned, once there is a plan; *)
(* the other tools are recorded as skipped.                                  *)
Announced(plan) ==
    LET context == ContextPlan(plan)
        probed == plan.freshness \in {"cached_ok", "history_only"}
    IN (IF \/ context.sql \/ context.persist
           \/ plan.current /\ plan.freshness = "cached_ok"
           \/ plan.freshness = "history_only"
        THEN {"initialize"} ELSE {})
       \cup (IF probed THEN {"history_status", "latest_state"} ELSE {})
       \cup (IF context.sql THEN context.queries ELSE {})
       \cup (IF context.snapshot /\ plan.freshness = "latest_required" THEN {"broker"} ELSE {})
       \cup (IF context.metrics # {} THEN {"metrics"} ELSE {})
       \cup (IF context.persist THEN {"store"} ELSE {})

(* What the detectors look at in the history (_detect_portfolio_patterns).   *)
DetectorNeeds(detectors) ==
    (IF detectors \cap {"large_position_changes", "average_cost_shifts"} # {}
     THEN {"position_state_changes"} ELSE {})
    \cup (IF "stale_data" \in detectors THEN {"history_status"} ELSE {})

(* The request as the run of the Portfolio Agent knows it. *)
RunRequest(r, plan) ==
    [fresh |-> plan.freshness, current |-> ContextPlan(plan).snapshot,
     sql |-> ContextPlan(plan).sql \/ ContextPlan(plan).persist,
     interpret |-> r.interpret, persist |-> ContextPlan(plan).persist]
=============================================================================
