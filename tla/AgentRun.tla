------------------------------ MODULE AgentRun ------------------------------
(***************************************************************************)
(* One streamed chat request: the Investment Agent's graph (plan, validate,*)
(* call the Portfolio Agent, sentiment, synthesize, guardrail), its two    *)
(* failure paths, and the HTTP handler that writes the last line to a      *)
(* client who may leave at any time.                                       *)
(*                                                                         *)
(* Each graph node is one action, except the Portfolio Agent's run, whose  *)
(* steps are those of PortfolioRun.  Every node emits a status event, and  *)
(* emitting to a client that has gone raises _ClientDisconnected.          *)
(***************************************************************************)
EXTENDS PortfolioRun

CONSTANTS
    PlannerCalls,    \* bound on provider calls of one planning
    NoDecision,
    NoReport

VARIABLES
    unsafe,       \* the user's query asks for a trade
    client,       \* "reading", or "gone"
    at,           \* the graph node, or the part of run() and its caller
    baseline,     \* the saved portfolio context could be loaded
    decision,     \* the planner's decision
    validated,    \* validated_turn_decision.route and its request
    covered,      \* the baseline supports the direct answer
    planned,      \* provider calls made by the planner
    counted,      \* total_llm_calls of the graph's state
    active,       \* _active_llm_calls of the agent
    told,         \* failures among the status events
    limits,       \* failures among the state's warnings
    packet,       \* portfolio_packet is set
    report,       \* final_report
    reviewed,     \* the report guardrail_review is about
    failing,      \* the checks that it fails
    line          \* the last line written to the client

userVars == <<unsafe, client>>
planVars == <<baseline, decision, validated, covered, planned>>
callVars == <<counted, active>>
findVars == <<told, limits, packet>>
outVars == <<report, reviewed, failing, line>>

vars ==
    <<portfolioVars, at, userVars, planVars, callVars, findVars, outVars>>

Routes ==
    {"direct_context", "delegate_portfolio", "delegate_sentiment",
     "delegate_both", "unsupported"}

Delegating == {"delegate_portfolio", "delegate_both"}

Sentimental == {"delegate_sentiment", "delegate_both"}

\* A decision as InvestmentTurnDecision lets it pass: `ask' is its portfolio
\* request, or for a direct answer the request to fall back to, if any
Decisions ==
    {d \in [route : Routes, ask : Requests \cup {NoRequest}] :
        /\ d.route \in Delegating => d.ask # NoRequest
        /\ d.route \in {"delegate_sentiment", "unsupported"} =>
               d.ask = NoRequest}

\* What may be told: failures, and that the portfolio shown may be an old one
Problems ==
    (Failures \ {"none"}) \cup {"planning_unavailable", "old_context"}

Reports ==
    [facts : {"none", "baseline", "packet"}, limits : SUBSET Problems]

Nodes ==
    {"load_baseline", "plan_investment", "validate_plan", "call_portfolio",
     "portfolio", "route_sentiment", "call_sentiment", "synthesize",
     "guardrail", "final_output", "planning_failure", "answer", "error",
     "end"}

\* The guardrail's checks: that a payload has its evidence, and those that
\* search the report's text.  Its check that a missing sentiment is visible
\* holds of every report: the stub's packet brings its own limitation.
Checks == {"payload", "wording"}

ASSUME AgentAssumption ==
    /\ PlannerCalls \in Nat
    /\ NoReport \notin Reports

TypeOK ==
    /\ PortfolioTypes
    /\ unsafe \in BOOLEAN
    /\ client \in {"reading", "gone"}
    /\ at \in Nodes
    /\ baseline \in BOOLEAN
    /\ decision \in Decisions \cup {NoDecision}
    /\ validated \in Decisions \cup {NoDecision}
    /\ covered \in BOOLEAN
    /\ planned \in 0 .. PlannerCalls
    /\ counted \in 0 .. (PlannerCalls + EvaluatorCalls)
    /\ active \in 0 .. (PlannerCalls + EvaluatorCalls)
    /\ told \subseteq Problems
    /\ limits \subseteq Problems
    /\ packet \in BOOLEAN
    /\ report \in Reports \cup {NoReport}
    /\ reviewed \in Reports \cup {NoReport}
    /\ failing \subseteq Checks
    /\ line \in {"none", "final", "error"}

Init ==
    /\ PortfolioInit
    /\ unsafe \in BOOLEAN
    /\ client = "reading"
    /\ at = "load_baseline"
    /\ baseline = FALSE
    /\ decision = NoDecision
    /\ validated = NoDecision
    /\ covered = FALSE
    /\ planned = 0
    /\ counted = 0
    /\ active = 0
    /\ told = {}
    /\ limits = {}
    /\ packet = FALSE
    /\ report = NoReport
    /\ reviewed = NoReport
    /\ failing = {}
    /\ line = "none"

\* A failed load is caught and leaves a baseline without capabilities
LoadBaseline ==
    /\ at = "load_baseline"
    /\ at' = "plan_investment"
    /\ baseline' \in BOOLEAN
    /\ UNCHANGED <<portfolioVars, userVars, decision, validated, covered,
                   planned, callVars, findVars, outVars>>

\* Each provider call is noted in the state and in the agent, as it ends.  A
\* node that raises loses its state, not what the agent noted.
PlanInvestment ==
    /\ at = "plan_investment"
    /\ planned' \in 0 .. PlannerCalls
    /\ active' = planned'
    /\ \/ /\ decision' \in Decisions
          /\ at' = "validate_plan"
          /\ counted' = planned'
       \/ /\ at' = "planning_failure"
          /\ UNCHANGED <<decision, counted>>
    /\ UNCHANGED <<portfolioVars, userVars, baseline, validated, covered,
                   findVars, outVars>>

\* A direct answer the baseline does not cover is turned into its fallback
Rerouted(d, isCovered) ==
    IF d.route # "direct_context" \/ isCovered THEN d
    ELSE IF d.ask = NoRequest
         THEN [route |-> "unsupported", ask |-> NoRequest]
         ELSE [route |-> "delegate_portfolio", ask |-> d.ask]

AfterValidation(d) ==
    CASE d.route \in Delegating         -> "call_portfolio"
      [] d.route = "delegate_sentiment" -> "route_sentiment"
      [] OTHER                          -> "synthesize"

\* Cited references must exist, so a baseline that failed to load covers nothing
Coverable(d) == d.route = "direct_context" /\ baseline

\* Mutant: only portfolio requests are searched for trade intent.
AdmissibleRequest(d) == unsafe => d.route \notin Delegating

\* validate_investment_plan: the query itself, whatever the decision
Admissible(d) == unsafe => d.route = "unsupported"

AcceptDecision ==
    /\ at = "validate_plan"
    /\ Admissible(decision)
    /\ covered' \in {FALSE, Coverable(decision)}
    /\ validated' = Rerouted(decision, covered')
    /\ at' = AfterValidation(validated')
    /\ UNCHANGED <<portfolioVars, userVars, baseline, decision, planned,
                   callVars, findVars, outVars>>

\* A trade request the planner did not refuse, or a request that fails its
\* validation.  Rerouting a direct answer that came with as many warnings as
\* a decision may hold adds one more: an error of another class.
RejectDecision ==
    /\ at = "validate_plan"
    /\ \/ at' = "planning_failure"
       \/ ~unsafe /\ decision.route = "direct_context" /\ at' = "error"
    /\ UNCHANGED <<portfolioVars, userVars, planVars, callVars, findVars,
                   outVars>>

\* Mutant: portfolio facts require a Portfolio Agent packet.
BackedByPacket == packet

\* A packet, or a baseline that was found to cover the direct answer
Backed == packet \/ (validated.route = "direct_context" /\ covered)

\* The text of a report is the provider's, or quotes errors: any of it may
\* fail a check.
Review(payload) ==
    /\ reviewed' = report'
    /\ failing' \in
           {f \in SUBSET Checks : "payload" \in f <=> payload /\ ~Backed}

\* Mutant: the failed run keeps the count of the state it began with.
CountOfFirstState == counted

\* state.llm_calls = list(self._active_llm_calls)
CountOfFailedPlan == active

\* _planning_failure_state starts from the state run() began with
PlanningFailure ==
    /\ at = "planning_failure"
    /\ at' = "answer"
    /\ counted' = CountOfFailedPlan
    /\ validated' = [route |-> "unsupported", ask |-> NoRequest]
    /\ told' = told \cup {"planning_unavailable"}
    /\ limits' = limits \cup {"planning_unavailable"}
    /\ report' = [facts |-> "none", limits |-> limits']
    /\ Review(FALSE)
    /\ UNCHANGED <<portfolioVars, userVars, baseline, decision, covered,
                   planned, active, packet, line>>

CallPortfolio ==
    /\ at = "call_portfolio"
    /\ Start(validated.ask)
    /\ at' = "portfolio"
    /\ UNCHANGED <<userVars, planVars, callVars, findVars, outVars>>

Noted == calls' - calls

\* The evaluator's calls reach _handle_llm_lifecycle through the callbacks
PortfolioAgentStep ==
    /\ at = "portfolio"
    /\ PortfolioStep
    /\ counted' = counted + Noted
    /\ active' = active + Noted
    /\ UNCHANGED <<userVars, at, planVars, findVars, outVars>>

\* Mutant: the failure is told as it happens, and forgotten in the report.
LimitSilently(problem) ==
    /\ told' = told \cup {problem}
    /\ UNCHANGED <<limits, packet>>

Limit(problem) ==
    /\ told' = told \cup {problem}
    /\ limits' = limits \cup {problem}
    /\ UNCHANGED packet

\* call_portfolio's except clauses
PortfolioRaised ==
    /\ at = "portfolio"
    /\ failure # "none"
    /\ Limit(failure)
    /\ at' = "route_sentiment"
    /\ UNCHANGED <<portfolioVars, userVars, planVars, callVars, outVars>>

\* Mutant: only the Portfolio Agent's own budget is checked.
OverOwnBudget == calls > Expected(request)

\* A result that cost more calls than the request or the run may is rejected
OverBudget == calls > Expected(request) \/ counted > 2

PortfolioReturned ==
    /\ at = "portfolio"
    /\ At("result")
    /\ IF OverBudget THEN Limit("budget_exceeded")
       ELSE packet' = TRUE /\ UNCHANGED <<told, limits>>
    /\ at' = "route_sentiment"
    /\ UNCHANGED <<portfolioVars, userVars, planVars, callVars, outVars>>

RouteSentiment ==
    /\ at = "route_sentiment"
    /\ at' = IF validated.route \in Sentimental THEN "call_sentiment"
             ELSE "synthesize"
    /\ UNCHANGED <<portfolioVars, userVars, planVars, callVars, findVars,
                   outVars>>

\* Its exceptions are not caught in the graph
CallSentiment ==
    /\ at = "call_sentiment"
    /\ at' \in {"synthesize", "error"}
    /\ UNCHANGED <<portfolioVars, userVars, planVars, callVars, findVars,
                   outVars>>

Synthesize ==
    /\ at = "synthesize"
    /\ at' = "guardrail"
    /\ report' =
         [facts  |-> IF validated.route = "direct_context" THEN "baseline"
                     ELSE IF packet THEN "packet" ELSE "none",
          limits |-> IF validated.route = "direct_context" THEN {}
                     ELSE limits \cup (IF packet /\ doubts
                                       THEN {"old_context"} ELSE {})]
    /\ UNCHANGED <<portfolioVars, userVars, planVars, callVars, findVars,
                   reviewed, failing, line>>

\* _unsupported_route_final_report puts the route and its reasons where the
\* other reports have their portfolio analysis.
HasPayload == report.facts # "none" \/ validated.route = "unsupported"

\* Mutant: a report without facts is taken for harmless.
GuardrailForFacts ==
    /\ at = "guardrail"
    /\ at' = "final_output"
    /\ UNCHANGED <<portfolioVars, userVars, planVars, callVars, findVars,
                   report, line>>
    /\ IF report.facts = "none" THEN UNCHANGED <<reviewed, failing>>
       ELSE Review(HasPayload)

\* A blocked report goes to the client with its review
Guardrail ==
    /\ at = "guardrail"
    /\ at' = "final_output"
    /\ UNCHANGED <<portfolioVars, userVars, planVars, callVars, findVars,
                   report, line>>
    /\ Review(HasPayload)

FinalOutput ==
    /\ at = "final_output"
    /\ at' = "answer"
    /\ UNCHANGED <<portfolioVars, userVars, planVars, callVars, findVars,
                   outVars>>

\* Mutant: an exception ends the stream without a line.
LastLineOfAnswer == IF at = "answer" THEN "final" ELSE "none"

LastLine == IF at = "answer" THEN "final" ELSE "error"

\* _stream_chat writes its last line; a client that has gone gets none
WriteLine ==
    /\ at \in {"answer", "error"}
    /\ at' = "end"
    /\ line' = IF client = "gone" THEN "none" ELSE LastLine
    /\ UNCHANGED <<portfolioVars, userVars, planVars, callVars, findVars,
                   report, reviewed, failing>>

ClientLeaves ==
    /\ client = "reading"
    /\ at # "end"
    /\ client' = "gone"
    /\ UNCHANGED <<portfolioVars, unsafe, at, planVars, callVars, findVars,
                   outVars>>

\* A status event meets a closed socket.  No handler on the way stops the
\* exception, since each emits an event of its own, which fails as well.
Disconnected ==
    /\ client = "gone"
    /\ at \notin {"answer", "end"}
    /\ at' = "end"
    /\ UNCHANGED <<portfolioVars, userVars, planVars, callVars, findVars,
                   outVars>>

Proceed ==
    \/ LoadBaseline \/ PlanInvestment \/ AcceptDecision \/ RejectDecision
    \/ PlanningFailure \/ CallPortfolio \/ PortfolioAgentStep
    \/ PortfolioRaised \/ PortfolioReturned \/ RouteSentiment
    \/ CallSentiment \/ Synthesize \/ Guardrail \/ FinalOutput
    \/ WriteLine \/ Disconnected

Next == Proceed \/ ClientLeaves

\* The request thread keeps running: tool and provider calls have time limits
Spec == Init /\ [][Next]_vars /\ WF_vars(Proceed)
-----------------------------------------------------------------------------
(* No answer reaches the client that the guardrail did not review in the     *)
(* form it is shown, planning failures included.                             *)
AnswerReviewed == line = "final" => report # NoReport /\ reviewed = report

(* The guardrail does not block the facts of an answer that reached it with  *)
(* its evidence: what the route's validation found covered, nodes before, is *)
(* still known where the report is reviewed.                                 *)
BackedFactsPass ==
    reviewed # NoReport /\ reviewed.facts # "none" => "payload" \notin failing

(* A report shows portfolio facts only of a Portfolio Agent run that came    *)
(* to its end within the call budget, and a direct answer's facts only of a  *)
(* baseline that was loaded and covers them.                                 *)
FactsBacked ==
    report # NoReport =>
        CASE report.facts = "packet"   ->
                 /\ At("result")
                 /\ calls <= IF request.interpret THEN 1 ELSE 0
                 /\ planned + calls <= 2
          [] report.facts = "baseline" -> baseline /\ covered
          [] OTHER                     -> TRUE

(* A delegated answer without facts names among its missing data a failure   *)
(* that was also told while it happened; one with facts that may be old says *)
(* so.                                                                       *)
LimitsTold ==
    line = "final" /\ validated.route \in Delegating =>
        IF report.facts = "packet" THEN doubts => "old_context" \in report.limits
        ELSE told \cap report.limits # {}

(* The total the answer reports is the number of provider calls made, also   *)
(* when the planner's node or the Portfolio Agent raised and its state was   *)
(* lost.                                                                     *)
CallsCounted == line = "final" => counted = planned + calls

(* Only a broker observation of this run is stored, and only if the request  *)
(* asks for it and, where an analysis is wanted, after it succeeded: neither *)
(* a cached portfolio nor a failed analysis replaces what is saved.          *)
StoredAsObserved ==
    stored # {} => /\ context = "opend" /\ request.persist
                   /\ request.interpret => analysed

(* Facts of a broker observation that was to be saved are shown only if each *)
(* table has it.                                                             *)
ShownIsStored ==
    report # NoReport /\ report.facts = "packet" /\ Storing =>
        NeededAtOnce \cup NeededInTheEnd \subseteq stored

(* Whatever the planner decides, a trade request reaches no subagent, reads  *)
(* no portfolio and is answered without facts.                               *)
UnsafeNotServed ==
    unsafe => step = "idle" /\ (report # NoReport => report.facts = "none")

(* A client who stays gets a last line, final or error.                      *)
Answered == <>(line # "none" \/ client = "gone")

(* A request that accepts saved data is not lost because the broker cannot   *)
(* be read: stale or missing data are shown with their limitations.          *)
StaleCacheAnswered ==
    request # NoRequest /\ request.fresh = "cached_ok" =>
        ~(step = "context" /\ failure = "execution_failed")

(* The check "portfolio facts are backed, or are absent" fails only a report *)
(* that has facts.                                                           *)
BlockedForFacts ==
    "payload" \in failing => reviewed.facts # "none"

(* A run reported to the user as failed, with the words that the saved       *)
(* dashboard is unchanged, has changed none of the tables the dashboard reads*)
FailedRunSavesNothing ==
    told # {} =>
        stored \cap {"upsert_position_states", "store_daily_value_snapshot",
                     "store_weight_snapshots", "store_data_quality_events"}
            = {}
=============================================================================
