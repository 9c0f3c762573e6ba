---------------------------- MODULE TurnPlanning ----------------------------
(***************************************************************************)
(* The decisions of one chat turn, from the saved context to the calls the *)
(* Portfolio Agent makes: the baseline is loaded (Baseline), the planner   *)
(* decides, the decision is validated and an uncovered direct answer is    *)
(* rerouted (DirectCoverage), the request's assets are resolved            *)
(* (AssetResolution) and its evidence plan compiled (EvidencePlan).  What  *)
(* becomes of the turn then is AgentRun and PortfolioRun, which leave all  *)
(* of these choices free.                                                  *)
(*                                                                         *)
(* A delegating planner's one answer is two steps here, the route first    *)
(* and then the request: what the database held is forgotten between them, *)
(* as nothing after the first depends on it.                               *)
(***************************************************************************)
EXTENDS DirectCoverage, EvidencePlan

CONSTANTS
    Databases,   \* what may be stored (see Baseline)
    LimitChoices,\* the limits a PortfolioBaselineService may have
    Failures,    \* the sets of its calls that may fail in one load
    Now,         \* the time of the turn
    Positions,   \* rows of the active positions
    Weights,     \* rows of the newest weight snapshot
    Requests,    \* the requests a planner may make
    Fallbacks,   \* those a direct answer may fall back to
    Astray,      \* references that may be cited for no reason
    MaxRequired  \* bound on the capabilities a direct answer requires

ASSUME TurnAssumption ==
    /\ LimitChoices \subseteq ServiceLimits
    /\ Failures \subseteq SUBSET Reads
    /\ Fallbacks \subseteq Requests
    /\ Astray \subseteq Capabilities \cup {UnknownRef}
    /\ MaxRequired \in Nat
    /\ IsFiniteSet(Positions) /\ IsFiniteSet(Weights)

(* A request as its schema lets it pass: it has a goal.                      *)
ASSUME RequestAssumption ==
    \A r \in Requests :
        /\ r.intent \in Intents /\ r.freshness \in Freshness /\ r.window \in Nat
        /\ r.goals \subseteq Goals /\ r.goals # {}
        /\ IsFiniteSet(r.hints)

(* What is stored was stored before the turn.                                *)
ASSUME DatabaseAssumption ==
    /\ Now \in Nat
    /\ \A d \in Databases :
          /\ d.values \subseteq 0..Now /\ d.weighed \subseteq d.values
          /\ d.clean \in BOOLEAN
          /\ d.holdings \in Nat /\ d.cashRows \in Nat
          /\ d.moved \in Nat /\ d.changed \in Nat
          /\ d.spoilt \in [RowLists -> Nat] /\ d.large \in BOOLEAN

VARIABLES
    stage,    \* the next step of the turn, or how it ended
    trade,    \* the user's query asks for a trade
    db,       \* what is stored, as long as it matters
    limits,   \* the service's limits
    packet,   \* evidence of the packet
    unavailable, \* the packet could not be built, which the user was told
    decision, \* the planner's direct answer, or what was made of it
    request,  \* the request delegated to the Portfolio Agent
    plan      \* its evidence plan

turnVars == <<stage, trade, db, limits, packet, unavailable, decision, request, plan>>

NotYet == [route |-> "none"]

TurnInit ==
    /\ stage = "load"
    /\ trade \in BOOLEAN
    /\ db \in Databases
    /\ limits \in LimitChoices
    /\ packet = {} /\ unavailable = FALSE
    /\ decision = NotYet /\ request = NotYet /\ plan = NotYet

(* A turn that ends, or is delegated, with nothing left of what led to it. *)
Leave(to, asked) ==
    /\ stage' = to
    /\ db' = NotYet /\ packet' = {} /\ decision' = NotYet /\ limits' = NotYet
    /\ unavailable' = FALSE
    /\ request' = asked
    /\ UNCHANGED <<trade, plan>>
-----------------------------------------------------------------------------
(* A call that fails leaves its part of the packet out.  When no packet can  *)
(* be built of the rest, an empty one is used (_load_baseline_node).         *)
LoadBaseline ==
    /\ stage = "load"
    /\ \E failing \in Failures :
          LET got == [r \in Reads |-> IF r \in failing THEN "raised" ELSE "ok"]
              evidence == PacketEvidence(db, got, Now, limits)
          IN /\ packet' = IF PacketBuilds(db, evidence) THEN evidence ELSE {}
             /\ unavailable' = ~PacketBuilds(db, evidence)
    /\ stage' = "plan"
    /\ UNCHANGED <<trade, db, limits, decision, request, plan>>

Cited(required) ==
    {required} \cup {required \cup {c} : c \in Astray} \cup {required \ {c} : c \in required}

AnswerDirectly ==
    /\ stage = "plan"
    /\ \E n \in 0..MaxRequired, warnings \in {0, WarningCap} :
       \E required \in kSubset(n, Capabilities) :
       \E cited \in Cited(required), fallback \in {{}} \cup {{f} : f \in Fallbacks} :
          LET d == [route |-> "direct_context", answer |-> TRUE, required |-> required,
                    cited |-> cited, missing |-> {}, request |-> {}, fallback |-> fallback,
                    sentiment |-> FALSE, warnings |-> warnings]
          IN WellShaped(d) /\ decision' = d
    /\ stage' = "validate"
    /\ UNCHANGED <<trade, db, limits, packet, unavailable, request, plan>>

(* Unsupported, sentiment only, or no decision at all. *)
AnswerOtherwise ==
    /\ stage = "plan"
    /\ \E end \in {"unsupported", "sentiment", "planning_unavailable"} : Leave(end, NotYet)

Delegate ==
    /\ stage = "plan"
    /\ Leave("ask", NotYet)
-----------------------------------------------------------------------------
(* The requests of a decision are tested without their assets, which are     *)
(* resolved later.                                                           *)
RequestsPass(d) == \A f \in d.fallback : RequestIsValid(f, {}, trade)

Routed(d) == RoutedDecision(d, packet, Now)

(* Built with a warning too many, the rerouted decision fails: no route. *)
ValidateDecision ==
    /\ stage = "validate"
    /\ LET d == Routed(decision)
       IN IF trade \/ ~RequestsPass(decision) THEN Leave("refused", NotYet)
          ELSE IF ~WellShaped(d) THEN Leave("failed", NotYet)
          ELSE IF d.route = "direct_context"
          THEN /\ stage' = "answered"
               /\ UNCHANGED <<trade, db, limits, packet, unavailable, decision, request, plan>>
          ELSE IF d.route = "unsupported" THEN Leave("unsupported", NotYet)
          ELSE \E r \in d.request : Leave("compile", r)

Ask ==
    /\ stage = "ask"
    /\ \E r \in Requests :
          IF RequestIsValid(r, {}, trade) THEN Leave("compile", r) ELSE Leave("refused", NotYet)
-----------------------------------------------------------------------------
HeldCandidates == IF request.hints = {} THEN {} ELSE Candidates(Positions, Weights)

(* The database's rows may not be there: the read failed. *)
Compile ==
    /\ stage = "compile"
    /\ \E candidates \in {{}, HeldCandidates} :
          LET resolutions == Resolutions(request.hints, candidates)
              compiled == Compiled(request, resolutions)
          IN /\ stage' = IF ~RequestIsValid(request, resolutions, trade) THEN "rejected"
                         ELSE IF PlanSchema(compiled) /\ PlanIsValid(request, compiled)
                                 /\ ContextSchema(ContextPlan(compiled))
                         THEN "planned" ELSE "incoherent"
             /\ plan' = compiled
    /\ UNCHANGED <<trade, db, limits, packet, unavailable, decision, request>>

TurnNext == \/ LoadBaseline \/ AnswerDirectly \/ AnswerOtherwise \/ Delegate
            \/ ValidateDecision \/ Ask \/ Compile

TurnSpec == TurnInit /\ [][TurnNext]_turnVars
-----------------------------------------------------------------------------
(* The rows of a list that the default limits let into a packet.             *)
ShownByDefault(c) ==
    1..(IF c = "allocation_breakdown" THEN DefaultLimits.allocation ELSE DefaultLimits.change)

(* With the default limits no turn loses its saved context to the size of    *)
(* the portfolio, whichever calls fail: the numbers of a packet's entries    *)
(* add up to less than its caps, and it is lost only for a row among those   *)
(* shown that no packet takes, or for the length of its texts                *)
(* (PortfolioBaselineService.load, _load_baseline_node).                     *)
PacketFits ==
    stage = "plan" /\ limits = DefaultLimits =>
        (unavailable => db.large \/ \E c \in RowLists : db.spoilt[c] \in ShownByDefault(c))

Spans(times, days) ==
    \E t \in times : Latest(times) - t \in (days * Day)..((days + 5) * Day)

(* What the stored rows let one say with a capability, over a window. *)
Supported(c, window) ==
    /\ c = "history_freshness" => window = NoWindow /\ Cardinality(db.values) > 1
    /\ c # "history_freshness" => db.clean
    /\ c = "portfolio_value_trend_30d" => window <= 30 /\ Spans(db.values, 30)
    /\ c = "top_allocation_changes_7d" =>
          window <= 7 /\ Latest(db.values) \in db.weighed /\ Spans(db.weighed, 7)
    /\ c \in {"portfolio_value_trend_7d", "top_position_changes_7d"} =>
          window <= 7 /\ Spans(db.values, 7)

(* A direct answer rests on rows that are recent enough for the request it   *)
(* stands for, and that say what it requires over the window it asks for.    *)
CoveredMeansSupported ==
    stage = "answered" =>
        LET ask == AsksFor(decision)
            age == Now - Latest(db.values)
        IN /\ decision.cited # {}
           /\ db.values # {} /\ age <= Hours24
           /\ \A limit \in MaxAge(ask.freshness) : age <= limit
           /\ \A c \in decision.required : Supported(c, ask.window)

(* The compiler and the validator agree on every request that is accepted,   *)
(* and its plan allows for what its run may come to: it is one PortfolioRun  *)
(* is about, and the broker may be asked unless only history is wanted.  The *)
(* one exception is a cached_ok request for nothing but position changes,    *)
(* whose run fails when the cache is stale (PortfolioAgent.run,              *)
(* _read_current_context).                                                   *)
CompiledPlanAccepted ==
    /\ stage # "incoherent"
    /\ stage = "planned" =>
          /\ Coherent(RunRequest(request, plan))
          /\ \/ ContextPlan(plan).snapshot
             \/ request.freshness = "history_only"
             \/ request.freshness = "cached_ok" /\ request.goals = {"position_changes"}

(* The history of the assets that were named is read, of each of them and of *)
(* no other; everyone's only if none was named.                              *)
ReadsWhatWasNamed ==
    stage = "planned" =>
        \/ ChangeReads(ContextPlan(plan)) = {}
        \/ request.hints = {} /\ ChangeReads(ContextPlan(plan)) = {{}}
        \/ /\ request.hints # {}
           /\ \A h \in request.hints :
                 \E c \in Candidates(Positions, Weights) :
                     /\ Matches(h, Candidates(Positions, Weights)) = {c}
                     /\ {c} \in ChangeReads(ContextPlan(plan))
           /\ Cardinality(ChangeReads(ContextPlan(plan))) <= Cardinality(request.hints)

(* What a run calls although its plan was recorded to skip it: the broker,   *)
(* when the cache does not do, and the stored state for the candidates.      *)
CalledThoughSkipped ==
    (IF request.freshness = "cached_ok" THEN {"broker"} ELSE {})
    \cup (IF request.freshness = "latest_required" /\ request.hints # {}
          THEN {"initialize", "latest_state"} ELSE {})

(* Whatever a planned detector or a goal looks at in the history is read, but*)
(* for the status of a plan that reads no history, in whose place stale_data *)
(* takes the snapshot's own freshness.  The record of planned tools is true  *)
(* of the run in all but those two cases (_detect_portfolio_patterns,        *)
(* _record_planned_tools).                                                   *)
PlanHasItsData ==
    stage = "planned" =>
        LET context == ContextPlan(plan)
        IN /\ DetectorNeeds(plan.detectors) \subseteq
                  (IF context.sql THEN context.queries ELSE {"history_status"})
           /\ Over(GoalQueries, request.goals) \subseteq context.queries
           /\ request.freshness = "history_only" =>
                  {"history_status", "latest_state"} \subseteq context.queries
           /\ Announced(plan) \subseteq MayCall(request, plan)
           /\ MayCall(request, plan) \ Announced(plan) \subseteq CalledThoughSkipped
           /\ plan.current => request.freshness # "history_only"

=============================================================================
