---------------------------- MODULE PortfolioRun ----------------------------
(***************************************************************************)
(* One run of the Portfolio Agent (PortfolioAgent.run): it compiles a      *)
(* bounded evidence plan, reads the current portfolio from the broker or   *)
(* from the SQL history, computes metrics, asks the evaluator if the       *)
(* request wants an interpretation, and last of all stores what it         *)
(* observed through seven SQL tools, one transaction each.                 *)
(*                                                                         *)
(* A tool call ends in one of three ways: with a result, with a result     *)
(* that has no content (the server turned its error into it), or with a    *)
(* gateway exception, after which the server may have done the work or     *)
(* not.                                                                    *)
(***************************************************************************)
EXTENDS Naturals, Sequences, PortfolioRequests

CONSTANTS
    Requests,        \* the bounded requests the planner may make
    NoRequest,       \* no run was asked for
    Limits,          \* values of portfolio_analysis_call_limit
    EvaluatorCalls   \* bound on provider calls of one evaluation

ASSUME RequestAssumption ==
    /\ Requests \subseteq {r \in RequestRecord : Coherent(r)}
    /\ NoRequest \notin Requests

ASSUME BoundAssumption == Limits \subseteq Nat /\ EvaluatorCalls \in Nat

VARIABLES
    request,    \* the PortfolioRequest of the run
    step,       \* how far run() has come; a run that raised stays where it did
    failure,    \* the class of exception run() raised
    limit,      \* the agent's portfolio_analysis_call_limit
    context,    \* PortfolioCurrentContext.source
    doubts,     \* PortfolioCurrentContext.warnings is not empty
    calls,      \* provider calls made by the evaluator
    analysed,   \* the evaluator returned
    sent,       \* how many of the storage tools were called
    stored,     \* those whose transaction committed
    missed      \* a result that is only looked at in the end had no content

portfolioVars ==
    <<request, step, failure, limit, context, doubts, calls, analysed,
      sent, stored, missed>>

\* The tools of _write_portfolio_history in the order they are called
StoreTools ==
    <<"upsert_portfolio", "upsert_broker_account", "upsert_assets",
      "upsert_position_states", "store_daily_value_snapshot",
      "store_weight_snapshots", "store_data_quality_events">>

\* Their results: an id the next call needs, a count for the summary, nothing
NeededAtOnce == {"upsert_broker_account", "store_daily_value_snapshot"}

NeededInTheEnd ==
    {"upsert_assets", "upsert_position_states", "store_weight_snapshots",
     "store_data_quality_events"}

Steps ==
    {"idle", "compile", "initialize", "context", "gather", "evaluate",
     "store", "result"}

Failures ==
    {"none", "planner_unavailable", "compilation_failed", "analysis_failed",
     "budget_exceeded", "execution_failed"}

Sources == {"none", "opend", "cached", "history", "stale_or_missing"}

PortfolioTypes ==
    /\ request \in Requests \cup {NoRequest}
    /\ step \in Steps
    /\ failure \in Failures
    /\ limit \in Limits
    /\ context \in Sources
    /\ doubts \in BOOLEAN
    /\ calls \in 0 .. EvaluatorCalls
    /\ analysed \in BOOLEAN
    /\ sent \in 0 .. Len(StoreTools)
    /\ stored \subseteq {StoreTools[i] : i \in 1 .. sent}
    /\ missed \in BOOLEAN

PortfolioInit ==
    /\ request = NoRequest
    /\ step = "idle"
    /\ failure = "none"
    /\ limit \in Limits
    /\ context = "none"
    /\ doubts = FALSE
    /\ calls = 0
    /\ analysed = FALSE
    /\ sent = 0
    /\ stored = {}
    /\ missed = FALSE

At(s) == step = s /\ failure = "none"

Start(r) ==
    /\ step = "idle"
    /\ request' = r
    /\ step' = "compile"
    /\ UNCHANGED <<failure, limit, context, doubts, calls, analysed, sent,
                   stored, missed>>

Raise(class) ==
    /\ failure' = class
    /\ UNCHANGED <<request, step, limit, context, doubts, calls, analysed,
                   sent, stored, missed>>

Advance(s) ==
    /\ step' = s
    /\ UNCHANGED <<request, failure, limit, context, doubts, calls, analysed,
                   sent, stored, missed>>

\* Asset candidates, evidence_planner.plan and the context plan
CompileEvidence ==
    /\ At("compile")
    /\ \/ Advance("initialize")
       \/ \E class \in {"planner_unavailable", "compilation_failed"} :
              Raise(class)

InitializeSql ==
    /\ At("initialize")
    /\ \/ Advance("context")
       \/ request.sql /\ Raise("execution_failed")

Found(source, warned) ==
    /\ context' = source
    /\ doubts' = warned
    /\ step' = "gather"
    /\ UNCHANGED <<request, failure, limit, calls, analysed, sent, stored,
                   missed>>

\* opend_get_portfolio_context: its result, or its lack, is used at once
ReadBroker ==
    \/ request.current /\ Found("opend", FALSE)
    \/ Raise("execution_failed")

\* Only a gateway exception leads to the limited answer from the cache
ReadBrokerOrCache ==
    \/ ReadBroker
    \/ request.current /\ Found("stale_or_missing", TRUE)

\* The two SQL probes find a fresh state or not (or cannot look)
ReadContext ==
    /\ At("context")
    /\ \/ request.fresh = "latest_required" /\ ReadBroker
       \/ /\ request.fresh = "history_only"
          /\ \E missing \in BOOLEAN : Found("history", missing)
       \/ /\ request.fresh = "cached_ok"
          /\ Found("cached", FALSE) \/ ReadBrokerOrCache

\* Metrics and history reads, up to portfolio_evidence_packet_ready
GatherEvidence ==
    /\ At("gather")
    /\ Advance("evaluate") \/ Raise("execution_failed")

Expected(r) == IF r.interpret THEN 1 ELSE 0

SkipAnalysis ==
    /\ At("evaluate")
    /\ ~request.interpret
    /\ Advance("store")

\* budget.reserve before the one attempt
RefuseAnalysis ==
    /\ At("evaluate")
    /\ request.interpret
    /\ limit < 1
    /\ Raise("budget_exceeded")

\* An evaluator may call its provider more than once, or not at all
Analyse ==
    /\ At("evaluate")
    /\ request.interpret
    /\ limit >= 1
    /\ calls' \in 0 .. EvaluatorCalls
    /\ \/ step' = "store" /\ analysed' = TRUE /\ failure' = failure
       \/ failure' = "analysis_failed" /\ UNCHANGED <<step, analysed>>
    /\ UNCHANGED <<request, limit, context, doubts, sent, stored, missed>>

\* Mutant: the plan alone decides.
StoringAsPlanned == request.persist

\* source_report is None unless the context came from the broker
Storing == context = "opend" /\ request.persist

SkipStore ==
    /\ At("store")
    /\ ~Storing
    /\ Advance("result")

\* One storage tool and what the agent does with its result
StoreTool ==
    /\ At("store")
    /\ Storing
    /\ sent < Len(StoreTools)
    /\ sent' = sent + 1
    /\ LET tool == StoreTools[sent'] IN
       \/ /\ stored' = stored \cup {tool}
          /\ UNCHANGED <<missed, failure>>
       \/ /\ failure' = IF tool \in NeededAtOnce THEN "execution_failed"
                        ELSE failure
          /\ missed' = (missed \/ tool \in NeededInTheEnd)
          /\ UNCHANGED stored
       \/ /\ failure' = "execution_failed"
          /\ stored' \in {stored, stored \cup {tool}}
          /\ UNCHANGED missed
    /\ UNCHANGED <<request, step, limit, context, doubts, calls, analysed>>

\* Mutant: results without content are counted as zero rows.
FinishStoreUnchecked ==
    /\ At("store")
    /\ Storing
    /\ sent = Len(StoreTools)
    /\ Advance("result")

FinishStore ==
    /\ At("store")
    /\ Storing
    /\ sent = Len(StoreTools)
    /\ IF missed THEN Raise("execution_failed") ELSE Advance("result")

PortfolioStep ==
    \/ CompileEvidence \/ InitializeSql \/ ReadContext \/ GatherEvidence
    \/ SkipAnalysis \/ RefuseAnalysis \/ Analyse
    \/ SkipStore \/ StoreTool \/ FinishStore
=============================================================================
