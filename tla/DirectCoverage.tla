--------------------------- MODULE DirectCoverage ---------------------------
(***************************************************************************)
(* The planner's decision about a turn (InvestmentTurnDecision), the test  *)
(* that a direct answer is covered by the saved context it cites           *)
(* (investment_routing.py) and what becomes of one that is not             *)
(* (validate_investment_turn_decision of investment_planner.py).           *)
(*                                                                         *)
(* A field that may be None is a set of at most one element.  Abstraction: *)
(* a summary has one evidence reference of its own and those of one        *)
(* capability are alike (module Baseline), so a reference is named by its  *)
(* capability; a reference that no packet has is UnknownRef.               *)
(***************************************************************************)
EXTENDS Baseline

UnknownRef == "unknown_ref"
WarningCap == 20

Windowed == Trends \cup {"top_allocation_changes_7d", "top_position_changes_7d",
                         "history_freshness"}

Delegating == {"delegate_portfolio", "delegate_both"}
Sentimental == {"delegate_sentiment", "delegate_both"}

(* InvestmentTurnDecision's validator. *)
WellShaped(d) ==
    /\ d.warnings <= WarningCap
    /\ d.route = "direct_context" => /\ d.answer /\ d.cited # {} /\ d.missing = {}
                                     /\ d.request = {} /\ ~d.sentiment
    /\ d.route \in Delegating => d.request # {} /\ ~d.answer
    /\ d.route \in Sentimental => d.sentiment /\ ~d.answer
    /\ d.route = "delegate_portfolio" => ~d.sentiment
    /\ d.route = "delegate_sentiment" => d.request = {}
    /\ d.route = "unsupported" => d.request = {} /\ ~d.sentiment
-----------------------------------------------------------------------------
Of(evidence, capability) == {e \in evidence : e.capability = capability}

(* Not in the packet, or there but not cited. *)
MissingCapabilities(d, evidence) ==
    {c \in d.required : c \notin d.cited \/ Of(evidence, c) = {}}

InvalidRefs(d, evidence) == {c \in d.cited : Of(evidence, c) = {}}

MaxAge(freshness) ==
    CASE freshness = "latest_required" -> {Minutes15}
      [] freshness = "cached_ok"       -> {Hours24}
      [] freshness = "history_only"    -> {}

(* Mutant: only the age of what is cited matters. *)
OutdatedRefs(d, evidence, freshness, now) ==
    {c \in d.cited : \E e \in Of(evidence, c) :
        \E limit \in MaxAge(freshness) : now - e.asOf > limit}

StaleRefs(d, evidence, freshness, now) ==
    {c \in d.cited : \E e \in Of(evidence, c) :
        \/ e.quality # "complete"
        \/ \E limit \in MaxAge(freshness) : now - e.asOf > limit}

(* NoWindow is 0: nothing was asked for, or no window is stated. *)
WindowMismatches(d, evidence, window) ==
    {c \in (d.required \cap Windowed) \ MissingCapabilities(d, evidence) :
        \A e \in Of(evidence, c) : e.window < window}

AsksFor(d) ==
    IF d.fallback = {} THEN [freshness |-> "cached_ok", window |-> NoWindow]
    ELSE LET f == CHOOSE f \in d.fallback : TRUE
         IN [freshness |-> f.freshness, window |-> f.window]

Coverage(d, evidence, now) ==
    LET ask == AsksFor(d)
    IN [missing |-> MissingCapabilities(d, evidence),
        invalid |-> InvalidRefs(d, evidence),
        stale   |-> StaleRefs(d, evidence, ask.freshness, now),
        short   |-> WindowMismatches(d, evidence, ask.window)]

IsCovered(v) == v.missing = {} /\ v.invalid = {} /\ v.stale = {} /\ v.short = {}

CoverageMissing(d, v) ==
    v.missing \cup v.short \cup (IF v.stale \cup v.invalid # {} THEN d.required ELSE {})
-----------------------------------------------------------------------------
(* An uncovered answer is dropped, for its fallback request if it has one;   *)
(* the limitation is one warning more.                                       *)
Reroute(d, v) ==
    [d EXCEPT !.route = IF d.fallback = {} THEN "unsupported" ELSE "delegate_portfolio",
              !.answer = FALSE, !.cited = {}, !.missing = CoverageMissing(d, v),
              !.request = d.fallback, !.fallback = {}, !.warnings = @ + 1]

(* What is routed, once the requests themselves passed. *)
RoutedDecision(d, evidence, now) ==
    LET v == Coverage(d, evidence, now)
    IN IF d.route # "direct_context" \/ IsCovered(v) THEN d ELSE Reroute(d, v)

RouteReason(v) ==
    IF v.stale # {} THEN "stale_baseline"
    ELSE IF v.short # {} THEN "unsupported_time_window"
    ELSE "missing_baseline_capability"
-----------------------------------------------------------------------------
(* The compatibility plan of a decision (investment_turn_to_plan). *)
ModeOf(intent) == IF intent = "full_review" THEN "review" ELSE intent

Mode(d) ==
    IF d.route = "unsupported" THEN {"unsupported"}
    ELSE IF d.request # {} THEN {ModeOf(r.intent) : r \in d.request}
    ELSE IF d.required \cap (Windowed \ {"history_freshness"}) # {} THEN {"what_changed"}
    ELSE IF d.route = "delegate_sentiment" THEN {"deep_dive"}
    ELSE {"portfolio_fact"}

CompatibilityPlan(d) ==
    [mode      |-> Mode(d),
     portfolio |-> d.route \in Delegating,
     sentiment |-> d.route \in Sentimental,
     request   |-> IF d.route \in Delegating THEN d.request ELSE {}]

(* The way back, for planners that still return such a plan. *)
EvidenceOfGoal ==
    [snapshot |-> "latest_snapshot", allocation_context |-> "allocation_breakdown",
     effective_cash |-> "effective_cash",
     performance_context |-> "portfolio_value_trend_30d",
     position_changes |-> "top_position_changes_7d"]

RequiredEvidence(request) ==
    {EvidenceOfGoal[g] : g \in UNION {r.goals \cap DOMAIN EvidenceOfGoal : r \in request}}

LegacyRoute(plan) ==
    IF plan.mode = {"unsupported"} THEN "unsupported"
    ELSE IF plan.portfolio /\ plan.sentiment THEN "delegate_both"
    ELSE IF plan.portfolio THEN "delegate_portfolio"
    ELSE IF plan.sentiment THEN "delegate_sentiment"
    ELSE "unsupported"

LegacyDecision(plan) ==
    LET route == LegacyRoute(plan)
        request == IF route \in Delegating THEN plan.request ELSE {}
    IN [route |-> route, answer |-> FALSE, cited |-> {}, fallback |-> {},
        required |-> RequiredEvidence(request), missing |-> RequiredEvidence(request),
        request |-> request, sentiment |-> route \in Sentimental, warnings |-> 0]
=============================================================================
