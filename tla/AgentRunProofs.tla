--------------------------- MODULE AgentRunProofs ---------------------------
(***************************************************************************)
(* The safety properties of AgentRun, for any requests, any number of      *)
(* provider calls and any behaviour of planner, tools and client.  They    *)
(* follow from one inductive invariant, AgentInv, whose parts say what     *)
(* each place in the run has established.                                  *)
(***************************************************************************)
EXTENDS AgentRun, TLAPS

Early == {"idle", "compile", "initialize", "context", "gather", "evaluate"}

BeforeCall ==
    {"load_baseline", "plan_investment", "validate_plan", "planning_failure",
     "call_portfolio"}

\* where the graph works with the validated decision
Routed ==
    {"call_portfolio", "portfolio", "route_sentiment", "call_sentiment",
     "synthesize"}

(* TypeOK, but for the variables of the Portfolio Agent and the counters. *)
PlaceTypes ==
    /\ unsafe \in BOOLEAN
    /\ client \in {"reading", "gone"}
    /\ at \in Nodes
    /\ baseline \in BOOLEAN
    /\ decision \in Decisions \cup {NoDecision}
    /\ validated \in Decisions \cup {NoDecision}
    /\ covered \in BOOLEAN
    /\ told \subseteq Problems
    /\ limits \subseteq Problems
    /\ packet \in BOOLEAN
    /\ report \in Reports \cup {NoReport}
    /\ reviewed \in Reports \cup {NoReport}
    /\ failing \subseteq Checks
    /\ line \in {"none", "final", "error"}

(* What the Portfolio Agent has done when it is at a step. *)
RunInv ==
    /\ step = "idle" => failure = "none" /\ request = NoRequest
    /\ step # "idle" => request \in Requests
    /\ step \in Early => sent = 0 /\ ~analysed
    /\ step \in Early /\ failure = "none" => calls = 0
    /\ step \in {"store", "result"} => (request.interpret => analysed)
    /\ sent > 0 => Storing

(* What the graph has done when it is at a node. *)
NodeInv ==
    /\ at \in BeforeCall => step = "idle"
    /\ at = "portfolio" => step # "idle" /\ ~packet
    /\ at \in BeforeCall => ~packet /\ report = NoReport
    /\ at = "portfolio" => report = NoReport
    /\ at = "validate_plan" => decision \in Decisions
    /\ at \in Routed => validated \in Decisions
    /\ at \in {"call_portfolio", "portfolio"} => validated.route \in Delegating
    /\ at \in Routed /\ validated.route = "direct_context" =>
           baseline /\ covered

(* Only a planner's node that raised loses count, and only for a while. *)
CountInv ==
    /\ active = planned + calls
    /\ \/ counted = planned + calls
       \/ counted = 0 /\ at = "planning_failure"
       \/ counted = 0 /\ at = "end" /\ line = "none"
    /\ at \in {"load_baseline", "plan_investment"} => counted = 0

(* The report is there from the guardrail on, and reviewed behind it. *)
ReviewInv ==
    /\ at \in {"guardrail", "final_output", "answer"} \/ line = "final" =>
           report \in Reports
    /\ at \in {"final_output", "answer"} \/ line = "final" => reviewed = report
    /\ line # "none" => at = "end"

(* A trade request goes nowhere but to a report without facts. *)
SafeInv ==
    unsafe =>
        /\ step = "idle"
        /\ at \notin {"call_portfolio", "portfolio"}
        /\ ~packet
        /\ at \in Routed => validated.route = "unsupported"
        /\ report # NoReport => report.facts = "none"

(* A packet comes of a run within budget, facts of a packet or a baseline,  *)
(* which is what the guardrail looks for.                                   *)
FactInv ==
    /\ packet => /\ At("result")
                 /\ calls <= Expected(request)
                 /\ planned + calls <= 2
    /\ report # NoReport /\ report.facts = "packet" => packet
    /\ report # NoReport /\ report.facts = "baseline" =>
           baseline /\ covered /\ validated.route = "direct_context"
    /\ BackedFactsPass

(* While it stores, the run that has not failed lacks no result it looked   *)
(* at, and remembers that it lacks one it looks at in the end.              *)
StoreInv ==
    /\ At("store") =>
           \A i \in 1 .. sent :
               /\ StoreTools[i] \in NeededAtOnce => StoreTools[i] \in stored
               /\ StoreTools[i] \in NeededInTheEnd =>
                      StoreTools[i] \in stored \/ missed
    /\ At("result") /\ Storing => NeededAtOnce \cup NeededInTheEnd \subseteq stored

(* A delegated run that brought no packet has noted why, and the report     *)
(* takes it over.                                                           *)
TellInv ==
    validated.route \in Delegating =>
        /\ at \in {"route_sentiment", "call_sentiment", "synthesize"} =>
               packet \/ told \cap limits # {}
        /\ report # NoReport =>
               IF report.facts = "packet" THEN doubts => "old_context" \in report.limits
               ELSE told \cap report.limits # {}

AgentInv ==
    /\ TypeOK /\ RunInv /\ NodeInv /\ CountInv /\ ReviewInv /\ SafeInv /\ FactInv
    /\ StoreInv /\ TellInv

(* A step in which no provider call ends leaves a count as it is. *)
LEMMA AddNothing ==
    ASSUME NEW m \in Nat, NEW n, n = 0
    PROVE  m + n = m
  OBVIOUS

(* The calls of planner and evaluator together are within their bounds. *)
LEMMA SumBound ==
    ASSUME NEW p \in Nat, NEW e \in Nat, NEW m \in 0 .. p, NEW n \in 0 .. e
    PROVE  m + n \in 0 .. (p + e)
  OBVIOUS

(* An observation is stored by seven tools. *)
LEMMA StoreToolsLength == Len(StoreTools) = 7
  BY DEF StoreTools

(* The run begins well typed, with nothing done. *)
LEMMA InitInv == Init => AgentInv
<1> SUFFICES ASSUME Init PROVE AgentInv
  OBVIOUS
<1>1. PortfolioTypes
  <2>1. calls \in 0 .. EvaluatorCalls /\ sent \in 0 .. Len(StoreTools)
    BY BoundAssumption, StoreToolsLength DEF Init, PortfolioInit
  <2>2. /\ step \in Steps /\ failure \in Failures /\ context \in Sources
        /\ request \in Requests \cup {NoRequest} /\ limit \in Limits
    BY DEF Init, PortfolioInit, Steps, Failures, Sources
  <2>3. doubts \in BOOLEAN /\ analysed \in BOOLEAN /\ missed \in BOOLEAN
    BY Zenon DEF Init, PortfolioInit
  <2>4. stored \subseteq {StoreTools[i] : i \in 1 .. sent}
    BY DEF Init, PortfolioInit
  <2> QED
    BY <2>1, <2>2, <2>3, <2>4 DEF PortfolioTypes
<1>2. TypeOK
  <2>1. /\ planned \in 0 .. PlannerCalls
        /\ counted \in 0 .. (PlannerCalls + EvaluatorCalls)
        /\ active \in 0 .. (PlannerCalls + EvaluatorCalls)
    BY BoundAssumption, AgentAssumption DEF Init
  <2>2. /\ unsafe \in BOOLEAN /\ baseline \in BOOLEAN
        /\ covered \in BOOLEAN /\ packet \in BOOLEAN
    BY Zenon DEF Init
  <2>3. at \in Nodes /\ line \in {"none", "final", "error"}
    BY DEF Init, Nodes
  <2> QED
    BY <1>1, <2>1, <2>2, <2>3 DEF Init, TypeOK
<1>3. RunInv /\ NodeInv
  BY DEF Init, PortfolioInit, RunInv, NodeInv, Early, BeforeCall, Routed
<1>4. CountInv /\ ReviewInv
  BY DEF Init, PortfolioInit, CountInv, ReviewInv
<1>5. SafeInv /\ FactInv
  BY DEF Init, PortfolioInit, SafeInv, FactInv, BackedFactsPass, Routed
<1>6. StoreInv /\ TellInv
  BY DEF Init, PortfolioInit, StoreInv, TellInv, At
<1> QED
  BY <1>2, <1>3, <1>4, <1>5, <1>6 DEF AgentInv

-----------------------------------------------------------------------------
(* The Portfolio Agent's steps.                                             *)

(* A step of the Portfolio Agent keeps its variables in their types. *)
LEMMA PortfolioStepTypes ==
    ASSUME PortfolioTypes, RunInv, PortfolioStep
    PROVE  PortfolioTypes'
<1> USE DEF PortfolioTypes, At, Advance, Raise
<1>1. CASE CompileEvidence
  BY <1>1 DEF CompileEvidence, Steps, Failures
<1>2. CASE InitializeSql
  BY <1>2 DEF InitializeSql, Steps, Failures
<1>3. CASE ReadContext
  BY <1>3 DEF ReadContext, ReadBroker, ReadBrokerOrCache, Found, Steps,
              Failures, Sources
<1>4. CASE GatherEvidence
  BY <1>4 DEF GatherEvidence, Steps, Failures
<1>5. CASE SkipAnalysis
  BY <1>5 DEF SkipAnalysis, Steps
<1>6. CASE RefuseAnalysis
  BY <1>6 DEF RefuseAnalysis, Failures
<1>7. CASE Analyse
  BY <1>7 DEF Analyse, Steps, Failures
<1>8. CASE SkipStore
  BY <1>8 DEF SkipStore, Steps
<1>9. CASE StoreTool
  <2> DEFINE tool == StoreTools[sent']
             Called(n) == {StoreTools[i] : i \in 1 .. n}
  <2>1. /\ sent' = sent + 1 /\ sent < Len(StoreTools)
        /\ stored' \in {stored, stored \cup {tool}}
        /\ UNCHANGED <<request, step, limit, context, doubts, calls, analysed>>
    BY <1>9 DEF StoreTool
  <2>2. sent' \in 0 .. Len(StoreTools) /\ sent' \in 1 .. sent'
    BY <2>1, StoreToolsLength
  <2>3. Called(sent) \subseteq Called(sent') /\ tool \in Called(sent')
    BY <2>1, <2>2
  <2>4. stored' \subseteq Called(sent')
    BY <2>1, <2>3
  <2>5. failure' \in Failures
    BY <1>9 DEF StoreTool, Failures
  <2>6. missed' \in BOOLEAN
    BY <1>9 DEF StoreTool
  <2> QED
    BY <2>1, <2>2, <2>4, <2>5, <2>6
<1>10. CASE FinishStore
  BY <1>10 DEF FinishStore, Steps, Failures
<1> QED
  BY <1>1, <1>2, <1>3, <1>4, <1>5, <1>6, <1>7, <1>8, <1>9, <1>10
  DEF PortfolioStep

(* A step of the Portfolio Agent keeps the order of its work. *)
LEMMA PortfolioStepRun ==
    ASSUME PortfolioTypes, RunInv, PortfolioStep
    PROVE  RunInv'
<1> USE DEF RunInv, At, Advance, Raise, Early, Storing
<1>1. CASE CompileEvidence
  BY <1>1 DEF CompileEvidence
<1>2. CASE InitializeSql
  BY <1>2 DEF InitializeSql
<1>3. CASE ReadContext
  BY <1>3 DEF ReadContext, ReadBroker, ReadBrokerOrCache, Found
<1>4. CASE GatherEvidence
  BY <1>4 DEF GatherEvidence
<1>5. CASE SkipAnalysis
  BY <1>5 DEF SkipAnalysis
<1>6. CASE RefuseAnalysis
  BY <1>6 DEF RefuseAnalysis
<1>7. CASE Analyse
  BY <1>7 DEF Analyse
<1>8. CASE SkipStore
  BY <1>8 DEF SkipStore
<1>9. CASE StoreTool
  BY <1>9 DEF StoreTool
<1>10. CASE FinishStore
  BY <1>10 DEF FinishStore
<1> QED
  BY <1>1, <1>2, <1>3, <1>4, <1>5, <1>6, <1>7, <1>8, <1>9, <1>10
  DEF PortfolioStep

(* A storage tool of the Portfolio Agent is called after those before it. *)
LEMMA PortfolioStepStores ==
    ASSUME PortfolioTypes, RunInv, StoreInv, PortfolioStep
    PROVE  StoreInv'
<1>1. CASE CompileEvidence \/ InitializeSql \/ ReadContext \/ GatherEvidence
  <2>1. ~At("store")' /\ ~At("result")'
    BY <1>1 DEF CompileEvidence, InitializeSql, ReadContext, ReadBroker, ReadBrokerOrCache,
                Found, GatherEvidence, At, Advance, Raise
  <2> QED
    BY <2>1 DEF StoreInv
<1>2. CASE SkipAnalysis \/ RefuseAnalysis \/ Analyse
  <2>1. sent' = 0 /\ ~At("result")'
    BY <1>2 DEF SkipAnalysis, RefuseAnalysis, Analyse, At, Advance, Raise, RunInv, Early
  <2> QED
    BY <2>1 DEF StoreInv
<1>3. CASE SkipStore
  <2>1. ~Storing' /\ ~At("store")'
    BY <1>3 DEF SkipStore, At, Advance, Storing
  <2> QED
    BY <2>1 DEF StoreInv
<1>4. CASE StoreTool
  <2> DEFINE tool == StoreTools[sent']
  <2>1. sent \in Nat /\ sent' = sent + 1 /\ step' = "store" /\ step = "store" /\ failure = "none"
    BY <1>4, StoreToolsLength DEF StoreTool, PortfolioTypes, At
  <2>2. \/ stored' = stored \cup {tool} /\ missed' = missed
        \/ /\ stored' = stored /\ missed' = (missed \/ tool \in NeededInTheEnd)
           /\ tool \in NeededAtOnce => failure' # "none"
        \/ failure' # "none"
    BY <1>4 DEF StoreTool
  <2>3. \A i \in 1 .. sent' : i \in 1 .. sent \/ i = sent'
    BY <2>1
  <2> HIDE DEF tool
  <2>4. ~At("result")'
    BY <2>1 DEF At
  <2>5. ASSUME At("store")', NEW i \in 1 .. sent'
        PROVE  /\ StoreTools[i] \in NeededAtOnce => StoreTools[i] \in stored'
               /\ StoreTools[i] \in NeededInTheEnd => StoreTools[i] \in stored' \/ missed'
    <3>1. failure' = "none"
      BY <2>5 DEF At
    <3>2. CASE i \in 1 .. sent
      <4>1. /\ StoreTools[i] \in NeededAtOnce => StoreTools[i] \in stored
            /\ StoreTools[i] \in NeededInTheEnd => StoreTools[i] \in stored \/ missed
        BY <2>1, <3>2 DEF StoreInv, At
      <4> QED
        BY <2>2, <3>1, <4>1
    <3>3. CASE i = sent'
      BY <2>2, <3>1, <3>3 DEF tool
    <3> QED
      BY <2>3, <3>2, <3>3
  <2> QED
    BY <2>4, <2>5 DEF StoreInv
<1>5. CASE FinishStore
  <2>1. At("store") /\ sent = 7
    BY <1>5, StoreToolsLength DEF FinishStore
  <2>2. CASE missed
    BY <1>5, <2>2 DEF FinishStore, Raise, At, StoreInv
  <2>3. CASE ~missed
    <3>1. \A i \in 1 .. 7 :
             StoreTools[i] \in NeededAtOnce \cup NeededInTheEnd => StoreTools[i] \in stored
      BY <2>1, <2>3 DEF StoreInv
    <3>2. NeededAtOnce \cup NeededInTheEnd \subseteq stored
      <4>1. /\ StoreTools[2] = "upsert_broker_account" /\ StoreTools[3] = "upsert_assets"
            /\ StoreTools[4] = "upsert_position_states"
            /\ StoreTools[5] = "store_daily_value_snapshot"
            /\ StoreTools[6] = "store_weight_snapshots"
            /\ StoreTools[7] = "store_data_quality_events"
        BY DEF StoreTools
      <4>2. {2, 3, 4, 5, 6, 7} \subseteq 1 .. 7
        OBVIOUS
      <4> QED
        BY <3>1, <4>1, <4>2 DEF NeededAtOnce, NeededInTheEnd
    <3>3. stored' = stored /\ ~At("store")'
      BY <1>5, <2>3 DEF FinishStore, Advance, At
    <3> QED
      BY <3>2, <3>3 DEF StoreInv
  <2> QED
    BY <2>2, <2>3
<1> QED
  BY <1>1, <1>2, <1>3, <1>4, <1>5 DEF PortfolioStep

(* The evaluator is asked at most once, by a run that was started. *)
LEMMA PortfolioStepCalls ==
    ASSUME PortfolioTypes, RunInv, PortfolioStep
    PROVE  /\ step # "idle" /\ step' # "idle" /\ request' = request
           /\ calls \in Nat /\ calls' \in Nat
           /\ calls' = calls \/ calls = 0
<1>1. calls \in Nat
  BY BoundAssumption DEF PortfolioTypes
<1>2. step # "idle"
  BY DEF PortfolioStep, At, CompileEvidence, InitializeSql, ReadContext,
         GatherEvidence, SkipAnalysis, RefuseAnalysis, Analyse, SkipStore,
         StoreTool, FinishStore
<1>3. request' = request /\ (step' = step \/ step' # "idle")
  <2> USE DEF At, Advance, Raise
  <2>1. CASE CompileEvidence \/ InitializeSql \/ GatherEvidence
    BY <2>1 DEF CompileEvidence, InitializeSql, GatherEvidence
  <2>2. CASE ReadContext
    BY <2>2 DEF ReadContext, ReadBroker, ReadBrokerOrCache, Found
  <2>3. CASE SkipAnalysis \/ RefuseAnalysis \/ Analyse
    BY <2>3 DEF SkipAnalysis, RefuseAnalysis, Analyse
  <2>4. CASE SkipStore \/ FinishStore
    BY <2>4 DEF SkipStore, FinishStore
  <2>5. CASE StoreTool
    BY <2>5 DEF StoreTool
  <2> QED
    BY <2>1, <2>2, <2>3, <2>4, <2>5 DEF PortfolioStep
<1>4. calls' = calls \/ (calls = 0 /\ calls' \in 0 .. EvaluatorCalls)
  BY DEF PortfolioStep, At, Advance, Raise, CompileEvidence, InitializeSql,
         ReadContext, ReadBroker, ReadBrokerOrCache, Found, GatherEvidence,
         SkipAnalysis, RefuseAnalysis, Analyse, SkipStore, StoreTool,
         FinishStore, RunInv, Early
<1> QED
  BY <1>1, <1>2, <1>3, <1>4, BoundAssumption

-----------------------------------------------------------------------------
(* The graph's steps.                                                       *)

(* Rerouting a decision yields a decision. *)
LEMMA ReroutedType ==
    ASSUME NEW d \in Decisions, NEW c
    PROVE  Rerouted(d, c) \in Decisions
  BY DEF Rerouted, Decisions, Delegating, Routes

(* A node leaves what the next one relies on. *)
LEMMA NodeStep ==
    ASSUME AgentInv, [Next]_vars
    PROVE  NodeInv'
<1> USE DEF AgentInv, NodeInv, BeforeCall, Routed, userVars, planVars,
     callVars, findVars, outVars, portfolioVars
<1>1. CASE LoadBaseline
  BY <1>1 DEF LoadBaseline
<1>2. CASE PlanInvestment
  BY <1>2 DEF PlanInvestment
<1>3. CASE AcceptDecision
  <2>1. /\ at = "validate_plan" /\ decision \in Decisions
        /\ validated' = Rerouted(decision, covered')
        /\ at' = AfterValidation(validated')
        /\ covered' => Coverable(decision)
        /\ UNCHANGED <<baseline, packet, report, step>>
    BY <1>3 DEF AcceptDecision
  <2>2. validated' \in Decisions
    BY <2>1, ReroutedType
  <2>3. validated'.route = "direct_context" => covered' /\ baseline'
    BY <2>1 DEF Rerouted, Coverable
  <2>4. at' = "call_portfolio" => validated'.route \in Delegating
    BY <2>1 DEF AfterValidation
  <2>5. at' \in {"call_portfolio", "route_sentiment", "synthesize"}
    BY <2>1 DEF AfterValidation
  <2> QED
    BY <2>1, <2>2, <2>3, <2>4, <2>5
<1>4. CASE RejectDecision
  BY <1>4 DEF RejectDecision
<1>5. CASE PlanningFailure
  BY <1>5 DEF PlanningFailure, Review
<1>6. CASE CallPortfolio
  BY <1>6 DEF CallPortfolio, Start, RunInv
<1>7. CASE PortfolioAgentStep
  BY <1>7, PortfolioStepCalls DEF PortfolioAgentStep, TypeOK
<1>8. CASE PortfolioRaised
  BY <1>8 DEF PortfolioRaised, Limit
<1>9. CASE PortfolioReturned
  BY <1>9 DEF PortfolioReturned, Limit, OverBudget
<1>10. CASE RouteSentiment
  BY <1>10 DEF RouteSentiment
<1>11. CASE CallSentiment
  BY <1>11 DEF CallSentiment
<1>12. CASE Synthesize
  BY <1>12 DEF Synthesize
<1>13. CASE Guardrail
  BY <1>13 DEF Guardrail, Review
<1>14. CASE FinalOutput
  BY <1>14 DEF FinalOutput
<1>15. CASE WriteLine
  BY <1>15 DEF WriteLine
<1>16. CASE ClientLeaves
  BY <1>16 DEF ClientLeaves
<1>17. CASE Disconnected
  BY <1>17 DEF Disconnected
<1>18. CASE UNCHANGED vars
  BY <1>18 DEF vars
<1> QED
  BY <1>1, <1>2, <1>3, <1>4, <1>5, <1>6, <1>7, <1>8, <1>9, <1>10, <1>11,
       <1>12, <1>13, <1>14, <1>15, <1>16, <1>17, <1>18
  DEF Next, Proceed

(* Every provider call is noted, once. *)
LEMMA CountStep ==
    ASSUME AgentInv, [Next]_vars
    PROVE  CountInv'
<1> USE DEF AgentInv, CountInv, userVars, planVars, callVars, findVars,
     outVars, portfolioVars
<1>1. CASE LoadBaseline
  BY <1>1 DEF LoadBaseline
<1>2. CASE PlanInvestment
  <2>1. calls = 0
    BY <1>2 DEF PlanInvestment, NodeInv, BeforeCall, RunInv, Early
  <2>2. counted = 0 /\ planned' \in Nat
    BY <1>2, AgentAssumption DEF PlanInvestment
  <2>3. calls' = 0 /\ active' = planned'
    BY <1>2, <2>1 DEF PlanInvestment
  <2>4. \/ counted' = planned' /\ at' = "validate_plan"
        \/ counted' = 0 /\ at' = "planning_failure"
    BY <1>2, <2>2 DEF PlanInvestment
  <2>5. planned' + calls' = planned'
    BY <2>2, <2>3, AddNothing
  <2>7. at' \notin {"load_baseline", "plan_investment"}
    BY <2>4
  <2> QED
    BY <2>3, <2>4, <2>5, <2>7
<1>3. CASE AcceptDecision
  BY <1>3 DEF AcceptDecision, AfterValidation, Rerouted
<1>4. CASE RejectDecision
  BY <1>4 DEF RejectDecision
<1>5. CASE PlanningFailure
  BY <1>5 DEF PlanningFailure, Review, CountOfFailedPlan
<1>6. CASE CallPortfolio
  BY <1>6 DEF CallPortfolio, Start
<1>7. CASE PortfolioAgentStep
  BY <1>7, PortfolioStepCalls DEF PortfolioAgentStep, TypeOK, Noted
<1>8. CASE PortfolioRaised
  BY <1>8 DEF PortfolioRaised
<1>9. CASE PortfolioReturned
  BY <1>9 DEF PortfolioReturned
<1>10. CASE RouteSentiment
  BY <1>10 DEF RouteSentiment
<1>11. CASE CallSentiment
  BY <1>11 DEF CallSentiment
<1>12. CASE Synthesize
  BY <1>12 DEF Synthesize
<1>13. CASE Guardrail
  BY <1>13 DEF Guardrail, Review
<1>14. CASE FinalOutput
  BY <1>14 DEF FinalOutput
<1>15. CASE WriteLine
  BY <1>15 DEF WriteLine, ReviewInv
<1>16. CASE ClientLeaves
  BY <1>16 DEF ClientLeaves
<1>17. CASE Disconnected
  BY <1>17 DEF Disconnected, ReviewInv
<1>18. CASE UNCHANGED vars
  BY <1>18 DEF vars
<1> QED
  BY <1>1, <1>2, <1>3, <1>4, <1>5, <1>6, <1>7, <1>8, <1>9, <1>10, <1>11,
       <1>12, <1>13, <1>14, <1>15, <1>16, <1>17, <1>18
  DEF Next, Proceed

(* The guardrail stands between a report and its reader. *)
LEMMA ReviewStep ==
    ASSUME AgentInv, [Next]_vars
    PROVE  ReviewInv'
<1> USE DEF AgentInv, ReviewInv, userVars, planVars, callVars, findVars,
     outVars, portfolioVars
<1>1. CASE LoadBaseline
  BY <1>1 DEF LoadBaseline
<1>2. CASE PlanInvestment
  BY <1>2 DEF PlanInvestment
<1>3. CASE AcceptDecision
  BY <1>3 DEF AcceptDecision, AfterValidation, Rerouted
<1>4. CASE RejectDecision
  BY <1>4 DEF RejectDecision
<1>5. CASE PlanningFailure
  BY <1>5 DEF PlanningFailure, Review, TypeOK, Reports, Problems
<1>6. CASE CallPortfolio
  BY <1>6 DEF CallPortfolio, Start
<1>7. CASE PortfolioAgentStep
  BY <1>7 DEF PortfolioAgentStep
<1>8. CASE PortfolioRaised
  BY <1>8 DEF PortfolioRaised
<1>9. CASE PortfolioReturned
  BY <1>9 DEF PortfolioReturned
<1>10. CASE RouteSentiment
  BY <1>10 DEF RouteSentiment
<1>11. CASE CallSentiment
  BY <1>11 DEF CallSentiment
<1>12. CASE Synthesize
  BY <1>12 DEF Synthesize, TypeOK, Reports, Problems
<1>13. CASE Guardrail
  BY <1>13 DEF Guardrail, Review
<1>14. CASE FinalOutput
  BY <1>14 DEF FinalOutput
<1>15. CASE WriteLine
  BY <1>15 DEF WriteLine, LastLine
<1>16. CASE ClientLeaves
  BY <1>16 DEF ClientLeaves
<1>17. CASE Disconnected
  BY <1>17 DEF Disconnected
<1>18. CASE UNCHANGED vars
  BY <1>18 DEF vars
<1> QED
  BY <1>1, <1>2, <1>3, <1>4, <1>5, <1>6, <1>7, <1>8, <1>9, <1>10, <1>11,
       <1>12, <1>13, <1>14, <1>15, <1>16, <1>17, <1>18
  DEF Next, Proceed

(* Nothing is done for a trade request. *)
LEMMA SafeStep ==
    ASSUME AgentInv, [Next]_vars
    PROVE  SafeInv'
<1> USE DEF AgentInv, SafeInv, Routed, userVars, planVars, callVars,
     findVars, outVars, portfolioVars
<1>1. CASE LoadBaseline
  BY <1>1 DEF LoadBaseline
<1>2. CASE PlanInvestment
  BY <1>2 DEF PlanInvestment
<1>3. CASE AcceptDecision
  BY <1>3 DEF AcceptDecision, Admissible, AfterValidation, Rerouted, Delegating
<1>4. CASE RejectDecision
  BY <1>4 DEF RejectDecision, Routed
<1>5. CASE PlanningFailure
  BY <1>5 DEF PlanningFailure, Review
<1>6. CASE CallPortfolio
  BY <1>6 DEF CallPortfolio, Start
<1>7. CASE PortfolioAgentStep
  BY <1>7 DEF PortfolioAgentStep
<1>8. CASE PortfolioRaised
  BY <1>8 DEF PortfolioRaised
<1>9. CASE PortfolioReturned
  BY <1>9 DEF PortfolioReturned
<1>10. CASE RouteSentiment
  BY <1>10 DEF RouteSentiment, Sentimental
<1>11. CASE CallSentiment
  BY <1>11 DEF CallSentiment
<1>12. CASE Synthesize
  BY <1>12 DEF Synthesize
<1>13. CASE Guardrail
  BY <1>13 DEF Guardrail, Review
<1>14. CASE FinalOutput
  BY <1>14 DEF FinalOutput
<1>15. CASE WriteLine
  BY <1>15 DEF WriteLine
<1>16. CASE ClientLeaves
  BY <1>16 DEF ClientLeaves
<1>17. CASE Disconnected
  BY <1>17 DEF Disconnected
<1>18. CASE UNCHANGED vars
  BY <1>18 DEF vars
<1> QED
  BY <1>1, <1>2, <1>3, <1>4, <1>5, <1>6, <1>7, <1>8, <1>9, <1>10, <1>11,
       <1>12, <1>13, <1>14, <1>15, <1>16, <1>17, <1>18
  DEF Next, Proceed

(* Facts are shown only where they were gathered. *)
LEMMA FactStep ==
    ASSUME AgentInv, [Next]_vars
    PROVE  FactInv'
<1> USE DEF AgentInv, FactInv, BackedFactsPass, At, userVars, planVars, callVars, findVars,
     outVars, portfolioVars
<1>1. CASE LoadBaseline
  BY <1>1 DEF LoadBaseline, NodeInv, BeforeCall
<1>2. CASE PlanInvestment
  BY <1>2 DEF PlanInvestment, NodeInv, BeforeCall
<1>3. CASE AcceptDecision
  BY <1>3 DEF AcceptDecision, NodeInv, BeforeCall
<1>4. CASE RejectDecision
  BY <1>4 DEF RejectDecision
<1>5. CASE PlanningFailure
  BY <1>5 DEF PlanningFailure, Review, NodeInv, BeforeCall
<1>6. CASE CallPortfolio
  BY <1>6 DEF CallPortfolio, Start, NodeInv, BeforeCall
<1>7. CASE PortfolioAgentStep
  BY <1>7 DEF PortfolioAgentStep, NodeInv
<1>8. CASE PortfolioRaised
  BY <1>8 DEF PortfolioRaised, Limit
<1>9. CASE PortfolioReturned
  <2>1. calls \in Nat /\ planned \in Nat
    BY BoundAssumption, AgentAssumption DEF TypeOK, PortfolioTypes
  <2>2. counted = planned + calls /\ At("result")
    BY <1>9 DEF PortfolioReturned, CountInv
  <2>3. UNCHANGED <<portfolioVars, planned, report, baseline, covered,
                    validated, reviewed, failing>>
    BY <1>9 DEF PortfolioReturned
  <2>4. CASE OverBudget
    BY <1>9, <2>4 DEF PortfolioReturned, Limit
  <2>5. CASE ~OverBudget
    <3>1. calls <= Expected(request) /\ planned + calls <= 2
      BY <2>1, <2>2, <2>5 DEF OverBudget, Expected
    <3>2. packet'
      BY <1>9, <2>5 DEF PortfolioReturned
    <3> QED
      BY <2>2, <2>3, <3>1, <3>2
  <2> QED
    BY <2>4, <2>5
<1>10. CASE RouteSentiment
  BY <1>10 DEF RouteSentiment
<1>11. CASE CallSentiment
  BY <1>11 DEF CallSentiment
<1>12. CASE Synthesize
  BY <1>12 DEF Synthesize, NodeInv, Routed
<1>13. CASE Guardrail
  <2>1. /\ UNCHANGED <<report, packet, baseline, covered, validated>>
        /\ UNCHANGED <<step, failure, calls, request, planned>>
        /\ reviewed' = report
        /\ "payload" \in failing' <=> HasPayload /\ ~Backed
    BY <1>13 DEF Guardrail, Review
  <2>2. report \in Reports
    BY <1>13 DEF Guardrail, ReviewInv
  <2>3. report.facts # "none" => Backed
    BY <2>2, AgentAssumption DEF Reports, Backed
  <2> QED
    BY <2>1, <2>3
<1>14. CASE FinalOutput
  BY <1>14 DEF FinalOutput
<1>15. CASE WriteLine
  BY <1>15 DEF WriteLine
<1>16. CASE ClientLeaves
  BY <1>16 DEF ClientLeaves
<1>17. CASE Disconnected
  BY <1>17 DEF Disconnected
<1>18. CASE UNCHANGED vars
  BY <1>18 DEF vars
<1> QED
  BY <1>1, <1>2, <1>3, <1>4, <1>5, <1>6, <1>7, <1>8, <1>9, <1>10, <1>11,
       <1>12, <1>13, <1>14, <1>15, <1>16, <1>17, <1>18
  DEF Next, Proceed

(* The graph keeps its variables in their types, but for the counters, *)
(* which depend on one another.                                        *)
LEMMA PlaceStep ==
    ASSUME AgentInv, [Next]_vars
    PROVE  PlaceTypes'
<1> USE DEF AgentInv, TypeOK, PlaceTypes, PortfolioTypes, userVars,
     planVars, callVars, findVars, outVars, portfolioVars
<1>1. CASE LoadBaseline
  BY <1>1 DEF LoadBaseline, Nodes
<1>2. CASE PlanInvestment
  BY <1>2 DEF PlanInvestment, Nodes
<1>3. CASE AcceptDecision
  <2>1. /\ decision \in Decisions
        /\ validated' = Rerouted(decision, covered')
        /\ covered' \in {FALSE, Coverable(decision)}
        /\ at' = AfterValidation(validated')
        /\ UNCHANGED <<unsafe, client, baseline, decision, told, limits,
                       packet, report, reviewed, failing, line>>
    BY <1>3 DEF AcceptDecision, NodeInv
  <2>2. validated' \in Decisions
    BY <2>1, ReroutedType
  <2>3. at' \in Nodes
    BY <2>1 DEF AfterValidation, Nodes
  <2>4. covered' \in BOOLEAN
    BY <2>1 DEF Coverable
  <2> QED
    BY <2>1, <2>2, <2>3, <2>4
<1>4. CASE RejectDecision
  BY <1>4 DEF RejectDecision, Nodes
<1>5. CASE PlanningFailure
  BY <1>5 DEF PlanningFailure, Review, Nodes, Problems, Reports, Decisions,
       Routes, Delegating
<1>6. CASE CallPortfolio
  BY <1>6 DEF CallPortfolio, Nodes, Start
<1>7. CASE PortfolioAgentStep
  BY <1>7 DEF PortfolioAgentStep
<1>8. CASE PortfolioRaised
  BY <1>8 DEF PortfolioRaised, Nodes, Limit, Problems
<1>9. CASE PortfolioReturned
  <2>1. packet' \in BOOLEAN /\ told' \subseteq Problems /\ limits' \subseteq Problems
    <3>1. CASE OverBudget
      BY <1>9, <3>1 DEF PortfolioReturned, Limit, Problems, Failures
    <3>2. CASE ~OverBudget
      BY <1>9, <3>2 DEF PortfolioReturned
    <3> QED
      BY <3>1, <3>2
  <2>2. at' \in Nodes
    BY <1>9 DEF PortfolioReturned, Nodes
  <2> QED
    BY <1>9, <2>1, <2>2 DEF PortfolioReturned
<1>10. CASE RouteSentiment
  BY <1>10 DEF RouteSentiment, Nodes
<1>11. CASE CallSentiment
  BY <1>11 DEF CallSentiment, Nodes
<1>12. CASE Synthesize
  BY <1>12 DEF Synthesize, Nodes, Reports, Problems
<1>13. CASE Guardrail
  BY <1>13 DEF Guardrail, Review, Nodes, ReviewInv
<1>14. CASE FinalOutput
  BY <1>14 DEF FinalOutput, Nodes
<1>15. CASE WriteLine
  BY <1>15 DEF WriteLine, Nodes, LastLine
<1>16. CASE ClientLeaves
  BY <1>16 DEF ClientLeaves
<1>17. CASE Disconnected
  BY <1>17 DEF Disconnected, Nodes
<1>18. CASE UNCHANGED vars
  BY <1>18 DEF vars
<1> QED
  BY <1>1, <1>2, <1>3, <1>4, <1>5, <1>6, <1>7, <1>8, <1>9, <1>10, <1>11,
       <1>12, <1>13, <1>14, <1>15, <1>16, <1>17, <1>18
  DEF Next, Proceed

(* The Portfolio Agent works only while the graph waits for it. *)
LEMMA PortfolioUnmoved ==
    ASSUME [Next]_vars
    PROVE  \/ UNCHANGED portfolioVars
           \/ CallPortfolio
           \/ PortfolioAgentStep
  BY DEF Next, Proceed, vars, LoadBaseline, PlanInvestment, AcceptDecision,
         RejectDecision, PlanningFailure, PortfolioRaised, PortfolioReturned,
         RouteSentiment, CallSentiment, Synthesize, Guardrail, FinalOutput,
         WriteLine, ClientLeaves, Disconnected

(* Each step keeps the Portfolio Agent's part of the invariant. *)
LEMMA RunStep ==
    ASSUME AgentInv, [Next]_vars
    PROVE  PortfolioTypes' /\ RunInv'
<1>1. CASE UNCHANGED portfolioVars
  BY <1>1 DEF AgentInv, TypeOK, PortfolioTypes, RunInv, portfolioVars, Storing
<1>2. CASE CallPortfolio
  <2>1. validated.ask \in Requests
    BY <1>2 DEF CallPortfolio, AgentInv, NodeInv, Routed, Decisions, Delegating
  <2>2. Start(validated.ask)
    BY <1>2 DEF CallPortfolio
  <2>3. PortfolioTypes'
    BY <2>1, <2>2 DEF Start, AgentInv, TypeOK, PortfolioTypes, Steps
  <2>4. RunInv'
    BY <2>1, <2>2 DEF Start, AgentInv, RunInv, Early, Storing
  <2> QED
    BY <2>3, <2>4
<1>3. CASE PortfolioAgentStep
  BY <1>3, PortfolioStepTypes, PortfolioStepRun
  DEF PortfolioAgentStep, AgentInv, TypeOK
<1> QED
  BY <1>1, <1>2, <1>3, PortfolioUnmoved

(* Nothing is stored but by the Portfolio Agent. *)
LEMMA StoreStep ==
    ASSUME AgentInv, [Next]_vars
    PROVE  StoreInv'
<1>1. CASE UNCHANGED portfolioVars
  BY <1>1 DEF AgentInv, StoreInv, portfolioVars, At, Storing
<1>2. CASE CallPortfolio
  BY <1>2 DEF CallPortfolio, Start, StoreInv, At
<1>3. CASE PortfolioAgentStep
  BY <1>3, PortfolioStepStores DEF PortfolioAgentStep, AgentInv, TypeOK
<1> QED
  BY <1>1, <1>2, <1>3, PortfolioUnmoved

(* What a delegated run could not do stays noted until it is reported. *)
LEMMA TellStep ==
    ASSUME AgentInv, [Next]_vars
    PROVE  TellInv'
<1> USE DEF AgentInv, TellInv, userVars, planVars, callVars, findVars,
     outVars, portfolioVars
<1>1. CASE LoadBaseline
  BY <1>1 DEF LoadBaseline, NodeInv, BeforeCall
<1>2. CASE PlanInvestment
  BY <1>2 DEF PlanInvestment, NodeInv, BeforeCall
<1>3. CASE AcceptDecision
  <2>1. report' = NoReport
    BY <1>3 DEF AcceptDecision, NodeInv, BeforeCall
  <2>2. validated'.route \in Delegating => at' = "call_portfolio"
    BY <1>3 DEF AcceptDecision, AfterValidation, Delegating
  <2> QED
    BY <2>1, <2>2
<1>4. CASE RejectDecision
  BY <1>4 DEF RejectDecision
<1>5. CASE PlanningFailure
  BY <1>5 DEF PlanningFailure, Delegating
<1>6. CASE CallPortfolio
  BY <1>6 DEF CallPortfolio, NodeInv, BeforeCall
<1>7. CASE PortfolioAgentStep
  BY <1>7 DEF PortfolioAgentStep, NodeInv
<1>8. CASE PortfolioRaised
  BY <1>8 DEF PortfolioRaised, Limit, NodeInv
<1>9. CASE PortfolioReturned
  BY <1>9 DEF PortfolioReturned, Limit, NodeInv
<1>10. CASE RouteSentiment
  BY <1>10 DEF RouteSentiment
<1>11. CASE CallSentiment
  BY <1>11 DEF CallSentiment
<1>12. CASE Synthesize
  <2>1. SUFFICES ASSUME validated.route \in Delegating
                 PROVE  IF report'.facts = "packet" THEN doubts => "old_context" \in report'.limits
                        ELSE told \cap report'.limits # {}
    BY <1>12 DEF Synthesize
  <2>2. packet \/ told \cap limits # {}
    BY <1>12, <2>1 DEF Synthesize
  <2>3. /\ report'.facts = IF packet THEN "packet" ELSE "none"
        /\ report'.limits = limits \cup (IF packet /\ doubts THEN {"old_context"} ELSE {})
    BY <1>12, <2>1 DEF Synthesize, Delegating
  <2> QED
    BY <2>2, <2>3
<1>13. CASE Guardrail
  BY <1>13 DEF Guardrail, Review
<1>14. CASE FinalOutput
  BY <1>14 DEF FinalOutput
<1>15. CASE WriteLine
  BY <1>15 DEF WriteLine
<1>16. CASE ClientLeaves
  BY <1>16 DEF ClientLeaves
<1>17. CASE Disconnected
  BY <1>17 DEF Disconnected
<1>18. CASE UNCHANGED vars
  BY <1>18 DEF vars
<1> QED
  BY <1>1, <1>2, <1>3, <1>4, <1>5, <1>6, <1>7, <1>8, <1>9, <1>10, <1>11,
       <1>12, <1>13, <1>14, <1>15, <1>16, <1>17, <1>18
  DEF Next, Proceed

(* The planner's calls are bounded by what one planning may make. *)
LEMMA PlannedStep ==
    ASSUME AgentInv, [Next]_vars
    PROVE  planned' \in 0 .. PlannerCalls
<1>1. CASE PlanInvestment
  BY <1>1 DEF PlanInvestment
<1>2. CASE UNCHANGED planned
  BY <1>2 DEF AgentInv, TypeOK
<1>3. PlanInvestment \/ UNCHANGED planned
  BY DEF Next, Proceed, vars, planVars, LoadBaseline, AcceptDecision,
         RejectDecision, PlanningFailure, CallPortfolio, PortfolioAgentStep,
         PortfolioRaised, PortfolioReturned, RouteSentiment, CallSentiment,
         Synthesize, Guardrail, FinalOutput, WriteLine, ClientLeaves,
         Disconnected
<1> QED
  BY <1>1, <1>2, <1>3

(* Every step keeps the invariant. *)
LEMMA StepInv ==
    ASSUME AgentInv, [Next]_vars
    PROVE  AgentInv'
<1>1. PortfolioTypes' /\ RunInv'
  BY RunStep
<1>2. PlaceTypes'
  BY PlaceStep
<1>3. CountInv' /\ planned' \in 0 .. PlannerCalls
  BY CountStep, PlannedStep
<1>4. TypeOK'
  <2>1. /\ counted' \in 0 .. (PlannerCalls + EvaluatorCalls)
        /\ active' \in 0 .. (PlannerCalls + EvaluatorCalls)
    <3>1. calls' \in 0 .. EvaluatorCalls
      BY <1>1 DEF PortfolioTypes
    <3>2. active' = planned' + calls' /\ counted' \in {0, planned' + calls'}
      BY <1>3 DEF CountInv
    <3>3. planned' + calls' \in 0 .. (PlannerCalls + EvaluatorCalls)
      BY <1>3, <3>1, BoundAssumption, AgentAssumption, SumBound
    <3> QED
      BY <3>2, <3>3, BoundAssumption, AgentAssumption
  <2> QED
    BY <1>1, <1>2, <1>3, <2>1 DEF TypeOK, PlaceTypes
<1> QED
  BY <1>1, <1>3, <1>4, NodeStep, ReviewStep, SafeStep, FactStep, StoreStep, TellStep
  DEF AgentInv

(* AgentInv holds in every reachable state. *)
THEOREM Invariance == Spec => []AgentInv
<1>1. Init => AgentInv
  BY InitInv
<1>2. AgentInv /\ [Next]_vars => AgentInv'
  BY StepInv
<1> QED
  BY <1>1, <1>2, PTL DEF Spec

-----------------------------------------------------------------------------
(* Every variable of a run keeps its type. *)
THEOREM AgentTypeCorrect == Spec => []TypeOK
<1>1. AgentInv => TypeOK
  BY DEF AgentInv
<1> QED
  BY <1>1, Invariance, PTL

(* No answer is shown that the guardrail did not review as it is shown. *)
THEOREM AnswerReviewedHolds == Spec => []AnswerReviewed
<1>1. AgentInv => AnswerReviewed
  BY AgentAssumption DEF AgentInv, ReviewInv, AnswerReviewed
<1> QED
  BY <1>1, Invariance, PTL

(* Facts come of a run within its budget or of a baseline that covers them. *)
THEOREM FactsBackedHolds == Spec => []FactsBacked
<1>1. AgentInv => FactsBacked
  BY DEF AgentInv, FactInv, FactsBacked, Expected
<1> QED
  BY <1>1, Invariance, PTL

(* Facts that reached the guardrail with their evidence are not blocked. *)
THEOREM BackedFactsPassHolds == Spec => []BackedFactsPass
<1>1. AgentInv => BackedFactsPass
  BY DEF AgentInv, FactInv
<1> QED
  BY <1>1, Invariance, PTL

(* The total in the answer is the number of provider calls made. *)
THEOREM CallsCountedHolds == Spec => []CallsCounted
<1>1. AgentInv => CallsCounted
  BY DEF AgentInv, CountInv, ReviewInv, CallsCounted
<1> QED
  BY <1>1, Invariance, PTL

(* Only an analysed observation of the broker is stored. *)
THEOREM StoredAsObservedHolds == Spec => []StoredAsObserved
<1>1. ASSUME AgentInv, stored # {}
      PROVE  sent > 0
  BY <1>1 DEF AgentInv, TypeOK, PortfolioTypes
<1>2. AgentInv /\ sent > 0 => step \in {"store", "result"}
  BY StoreToolsLength DEF AgentInv, TypeOK, PortfolioTypes, RunInv, Early, Steps
<1>3. AgentInv => StoredAsObserved
  BY <1>1, <1>2 DEF AgentInv, RunInv, StoredAsObserved, Storing
<1> QED
  BY <1>3, Invariance, PTL

(* A trade request reaches no subagent and is answered without facts. *)
THEOREM UnsafeNotServedHolds == Spec => []UnsafeNotServed
<1>1. AgentInv => UnsafeNotServed
  BY DEF AgentInv, SafeInv, UnsafeNotServed
<1> QED
  BY <1>1, Invariance, PTL

(* Facts of an observation that was to be saved are shown only if it is. *)
THEOREM ShownIsStoredHolds == Spec => []ShownIsStored
<1>1. AgentInv => ShownIsStored
  BY DEF AgentInv, FactInv, StoreInv, ShownIsStored
<1> QED
  BY <1>1, Invariance, PTL

(* An answer without the facts asked for names a failure, one with facts   *)
(* that may be old says so.                                                *)
THEOREM LimitsToldHolds == Spec => []LimitsTold
<1>1. AgentInv => LimitsTold
  BY AgentAssumption DEF AgentInv, TellInv, ReviewInv, LimitsTold
<1> QED
  BY <1>1, Invariance, PTL
=============================================================================
