--------------------------- MODULE Observability ---------------------------
(***************************************************************************)
(* The developer trace of Investment Agent runs (observability.py) and the *)
(* diagnostic checkpoints of their graph.  A run opens a span around the   *)
(* graph, one around every node and one around every call of a language    *)
(* model; each of the sink's three steps (entering, ending and leaving a   *)
(* span) may raise.  Runs follow one another on one agent; the failures,   *)
(* spans and calls kept here are those of the current or last run.         *)
(***************************************************************************)
EXTENDS Naturals, Sequences, SequencesExt, FiniteSets

CONSTANTS Threads,    \* conversation threads the runs belong to
          Retention,  \* ObservabilitySettings.checkpoint_retention_threads
          Nodes       \* nodes of the graph that may call a model, in order

ASSUME RetentionAssumption == Retention \in Nat \ {0}

VARIABLES
  pc,          \* what the run does next
  thread,      \* thread of the current or last run
  traced,      \* enabled_for_run of the run's and of the Portfolio Agent's id
  at,          \* nodes entered so far
  frames,      \* the open with-blocks, outermost first
  raised,      \* the exception on its way out
  opened,      \* history: with-blocks of this run that were to be traced
  spans,       \* spans the sink accepted and closed: status and true end
  calls,       \* lifecycle events of model calls, in order
  counted,     \* InvestmentAgentState.total_llm_calls
  failures,    \* failures of tracing recorded since the run began
  bodyFailed,  \* a provider or a node has failed in this run
  outcome,     \* how the last run ended
  degraded,    \* the run emitted observability_degraded
  order,       \* SafeDiagnosticCheckpointer._thread_order
  summaries,   \* threads with entries in _summaries
  raw,         \* threads with native checkpoints in the saver
  broken,      \* a put has failed in this run
  unpruned     \* history: threads whose pruning failed

run  == <<thread, traced, at>>
body == <<frames, raised, opened, spans, failures>>
llm  == <<calls, counted>>
kept == <<order, summaries, raw, broken, unpruned>>
vars == <<pc, run, body, llm, bodyFailed, outcome, degraded, kept>>

Top == Last(frames)

ObservabilityInit ==
  /\ pc = "idle" /\ thread \in Threads /\ at = 0
  /\ traced = [id \in {"investment", "portfolio"} |-> FALSE]
  /\ frames = <<>> /\ raised = "none" /\ opened = 0 /\ spans = <<>> /\ failures = 0
  /\ calls = <<>> /\ counted = 0 /\ bodyFailed = FALSE
  /\ outcome = "none" /\ degraded = FALSE
  /\ order = <<>> /\ summaries = {} /\ raw = {} /\ broken = FALSE /\ unpruned = {}

-----------------------------------------------------------------------------
(* ObservabilityRuntime.span *)

Block(kind, exported) == [kind |-> kind, exported |-> exported, ended |-> FALSE, status |-> "started"]

\* Opens a span: a sink that raises leaves a null span in its place.
EnterSpan(kind, id) ==
  /\ opened' = IF traced[id] THEN opened + 1 ELSE opened
  /\ \/ frames' = Append(frames, Block(kind, traced[id])) /\ UNCHANGED failures
     \/ /\ traced[id]
        /\ frames' = Append(frames, Block(kind, FALSE))
        /\ failures' = failures + 1

\* Mutant: only a body that ends normally ends its span.
EndedIfCompleted(block) ==
  IF raised = "none" THEN [block EXCEPT !.ended = TRUE, !.status = "completed"] ELSE block

Ended(block) ==
  [block EXCEPT !.ended = TRUE, !.status = IF raised = "none" THEN "completed" ELSE "failed"]

\* The block after the guarded end, with the failures this adds.
Ends ==
  {<<IF Top.ended THEN Top ELSE Ended(Top), 0>>} \cup
  (IF Top.exported /\ ~Top.ended THEN {<<Top, 1>>} ELSE {})

Exits == IF Top.exported THEN {0, 1} ELSE {0}

\* Leaves the innermost block; the exception of its body goes on.  A span
\* whose context fails to exit is not closed.
LeaveSpan ==
  \E end \in Ends : \E exit \in Exits :
    /\ frames' = Front(frames)
    /\ spans' = IF Top.exported /\ exit = 0
                  THEN Append(spans, [status |-> end[1].status, lost |-> end[2] = 1, raised |-> raised])
                  ELSE spans
    /\ failures' = failures + end[2] + exit
    /\ UNCHANGED opened

-----------------------------------------------------------------------------
(* SafeDiagnosticCheckpointer *)

\* The list of threads with the run's own in it.
Known == IF Contains(order, thread) THEN order ELSE Append(order, thread)

\* Mutant: a pruned thread loses its summaries only.
PutPruningSummaries ==
  LET beyond == IF Len(Known) > Retention THEN Len(Known) - Retention ELSE 0
  IN  /\ order' = SubSeq(Known, beyond + 1, Len(Known))
      /\ summaries' = (summaries \cup {thread}) \ ToSet(SubSeq(Known, 1, beyond))
      /\ raw' = raw \cup {thread}
      /\ unpruned' = unpruned \ {thread}
      /\ UNCHANGED broken

\* put: the summary, the order of threads, _prune_summaries, the native entry.
Put ==
  LET beyond == IF Len(Known) > Retention THEN Len(Known) - Retention ELSE 0
      gone   == ToSet(SubSeq(Known, 1, beyond))
  IN  /\ order' = SubSeq(Known, beyond + 1, Len(Known))
      /\ summaries' = (summaries \cup {thread}) \ gone
      /\ raw' = (raw \ gone) \cup {thread}
      /\ unpruned' = unpruned \ {thread}
      /\ UNCHANGED broken

\* finalize_thread raises in _prune_summaries, which has already taken the
\* oldest thread off its lists; the new checkpoint is not saved.
PruneFails ==
  /\ Len(Known) > Retention
  /\ order' = Tail(Known)
  /\ summaries' = (summaries \cup {thread}) \ {Head(Known)}
  /\ broken' = TRUE /\ unpruned' = unpruned \cup {Head(Known)}
  /\ UNCHANGED raw

Checkpoint == Put \/ PruneFails

\* The list of threads without t, which is in it once at most.
Without(q, t) ==
  IF Contains(q, t) THEN RemoveAt(q, CHOOSE i \in DOMAIN q : q[i] = t) ELSE q

\* cleanup: of one thread, or of all; finalize_thread may raise on the way.
Cleanup ==
  /\ pc = "idle"
  /\ \/ \E t \in Threads :
          /\ order' = Without(order, t)
          /\ summaries' = summaries \ {t}
          /\ raw' = raw \ {t}
     \/ order' = <<>> /\ summaries' = {} /\ raw' = raw \ summaries
     \/ /\ \E done \in SUBSET summaries : raw' = raw \ done
        /\ UNCHANGED <<order, summaries>>
  /\ UNCHANGED <<pc, broken, unpruned, run, body, llm, bodyFailed, outcome, degraded>>

-----------------------------------------------------------------------------
(* InvestmentAgent.run and _observed_node *)

StartRun ==
  /\ pc = "idle"
  /\ thread' \in Threads
  /\ traced' \in [{"investment", "portfolio"} -> BOOLEAN]
  /\ pc' = "open" /\ at' = 0
  /\ frames' = <<>> /\ raised' = "none" /\ opened' = 0 /\ spans' = <<>> /\ failures' = 0
  /\ calls' = <<>> /\ counted' = 0 /\ bodyFailed' = FALSE
  /\ outcome' = "none" /\ degraded' = FALSE /\ broken' = FALSE
  /\ UNCHANGED <<order, summaries, raw, unpruned>>

OpenRun ==
  /\ pc = "open"
  /\ EnterSpan("run", "investment")
  /\ pc' = "body"
  /\ UNCHANGED <<run, raised, spans, llm, bodyFailed, outcome, degraded, kept>>

\* The graph saves a checkpoint before it runs the next node.
EnterNode ==
  /\ pc = "body" /\ Top.kind = "run" /\ at < Len(Nodes)
  /\ Checkpoint
  /\ EnterSpan("node", "investment")
  /\ at' = at + 1
  /\ UNCHANGED <<pc, thread, traced, raised, spans, llm, bodyFailed, outcome, degraded>>

EndGraph ==
  /\ pc = "body" /\ Top.kind = "run" /\ at = Len(Nodes)
  /\ Checkpoint
  /\ raised' = IF broken' THEN "checkpoint" ELSE "none"
  /\ pc' = "leave"
  /\ UNCHANGED <<run, frames, opened, spans, failures, llm, bodyFailed, outcome, degraded>>

\* The graph saves while it goes on, and raises what a put raised between two
\* nodes or at its end (external).
StopGraph ==
  /\ pc = "body" /\ Top.kind = "run" /\ broken
  /\ raised' = "checkpoint"
  /\ pc' = "leave"
  /\ UNCHANGED <<run, frames, opened, spans, failures, llm, bodyFailed, outcome, degraded, kept>>

LeaveNode ==
  /\ pc = "body" /\ Top.kind = "node"
  /\ pc' = "leave"
  /\ \/ UNCHANGED <<raised, bodyFailed>>
     \/ raised' = "body" /\ bodyFailed' = TRUE
  /\ UNCHANGED <<run, frames, opened, spans, failures, llm, outcome, degraded, kept>>

\* Mutant: a sink that raises when a span ends or is left ends the run.
LeaveUnguarded ==
  /\ pc = "leave"
  /\ LeaveSpan
  /\ LET now == IF raised = "none" /\ failures' > failures THEN "span" ELSE raised
     IN  /\ raised' = now
         /\ pc' = IF Top.kind = "run" THEN "finish" ELSE IF now = "none" THEN "body" ELSE "leave"
  /\ UNCHANGED <<run, llm, bodyFailed, outcome, degraded, kept>>

\* The with statement ends; a node may handle what its model call raised.
Leave ==
  /\ pc = "leave"
  /\ LeaveSpan
  /\ \/ Top.kind = "run" /\ pc' = "finish" /\ UNCHANGED raised
     \/ Top.kind # "run" /\ raised = "none" /\ pc' = "body" /\ UNCHANGED raised
     \/ Top.kind # "run" /\ raised # "none" /\ pc' = "leave" /\ UNCHANGED raised
     \/ Top.kind = "llm" /\ raised # "none" /\ pc' = "body" /\ raised' = "none"
  /\ UNCHANGED <<run, llm, bodyFailed, outcome, degraded, kept>>

Finalized ==
  \/ raw' = raw \ {thread} /\ UNCHANGED failures
  \/ UNCHANGED raw /\ failures' = failures + 1

\* Mutant: the warning is decided before the checkpoints are dropped.
FinishRunWarnedFirst ==
  /\ pc = "finish"
  /\ Finalized
  /\ degraded' = (failures > 0)
  /\ outcome' = IF raised = "none" THEN "answered" ELSE "failed"
  /\ pc' = "idle"
  /\ UNCHANGED <<run, frames, raised, opened, spans, llm, bodyFailed, order, summaries, broken, unpruned>>

\* The finally clause: first the checkpoints, then the warning.
FinishRun ==
  /\ pc = "finish"
  /\ Finalized
  /\ degraded' = (failures' > 0)
  /\ outcome' = IF raised = "none" THEN "answered" ELSE "failed"
  /\ pc' = "idle"
  /\ UNCHANGED <<run, frames, raised, opened, spans, llm, bodyFailed, order, summaries, broken, unpruned>>

-----------------------------------------------------------------------------
(* generate_text_with_observability *)

Begun == SelectSeq(calls, LAMBDA e : e = "started")

\* Every node calls a model at most once; the Portfolio Agent's call is
\* traced under the Portfolio Agent's own run id.
StartCall ==
  /\ pc = "body" /\ Top.kind = "node" /\ Len(Begun) < at
  /\ calls' = Append(calls, "started")
  /\ EnterSpan("llm", IF Nodes[at] = "call_portfolio" THEN "portfolio" ELSE "investment")
  /\ UNCHANGED <<pc, run, raised, spans, counted, bodyFailed, outcome, degraded, kept>>

\* _handle_llm_lifecycle and the span's end, which is not guarded here.
EndCall(status) ==
  /\ calls' = Append(calls, status)
  /\ counted' = counted + 1
  /\ pc' = "leave"
  /\ \/ /\ frames' = Front(frames) \o <<[Top EXCEPT !.ended = TRUE, !.status = status]>>
        /\ raised' = IF status = "failed" THEN "body" ELSE "none"
     \/ /\ Top.exported
        /\ raised' = "export"
        /\ UNCHANGED frames
  /\ UNCHANGED <<run, opened, spans, failures, outcome, degraded, kept>>

ProviderAnswers ==
  /\ pc = "body" /\ Top.kind = "llm"
  /\ EndCall("completed")
  /\ UNCHANGED bodyFailed

\* Mutant: the exception of the provider leaves before its event is sent.
ProviderFailsUnheard ==
  /\ pc = "body" /\ Top.kind = "llm"
  /\ bodyFailed' = TRUE /\ raised' = "body" /\ pc' = "leave"
  /\ UNCHANGED <<run, frames, opened, spans, failures, llm, outcome, degraded, kept>>

ProviderFails ==
  /\ pc = "body" /\ Top.kind = "llm"
  /\ EndCall("failed")
  /\ bodyFailed' = TRUE

ObservabilityNext ==
  \/ StartRun \/ OpenRun \/ EnterNode \/ EndGraph \/ StopGraph \/ LeaveNode \/ Leave \/ FinishRun
  \/ StartCall \/ ProviderAnswers \/ ProviderFails
  \/ Cleanup

ObservabilitySpec == ObservabilityInit /\ [][ObservabilityNext]_vars

-----------------------------------------------------------------------------
(* Properties *)

\* Tracing that breaks does not change how a run ends: a run fails only if a
\* provider or a node has failed, or at one of the two steps that are not
\* guarded, the end of a model call's span and the pruning in put.
TracingHarmless == outcome = "failed" => bodyFailed \/ raised = "export" \/ broken

\* A run that ends without the warning of degraded tracing has left a whole
\* trace and nothing else: every block that was to be traced is in it and none
\* without its end, and the run's native checkpoints are gone.  (The span of a
\* model call whose end raised is in it, as failed.)
FailuresTold ==
  outcome # "none" /\ ~degraded =>
    /\ Len(spans) = opened /\ \A i \in DOMAIN spans : ~spans[i].lost
    /\ thread \notin raw

\* A span that was exported tells how its body ended, the span of a model
\* call that raised included, unless ending it was what failed.
SpansTellTheEnd ==
  \A i \in DOMAIN spans :
    \/ spans[i].lost
    \/ spans[i].status = IF spans[i].raised = "none" THEN "completed" ELSE "failed"

\* Calls of a model do not overlap, each has one terminal event, and the
\* count shown to the user is that of the terminal events.
CallsPaired ==
  /\ \A i \in DOMAIN calls : (calls[i] = "started") <=> (i % 2 = 1)
  /\ outcome # "none" => Len(calls) = 2 * counted

\* Native checkpoints, which hold the whole state, are those of retained
\* threads, until pruning one has failed, and such a run does not end with an
\* answer.  They outlive their run only if dropping them failed, too, which is
\* told.  What is retained is bounded, and the run under way is in it.
CheckpointsBounded ==
  /\ raw \subseteq ToSet(order) \cup unpruned
  /\ outcome # "none" /\ thread \in raw => degraded
  /\ broken /\ outcome # "none" => outcome = "failed"
  /\ summaries = ToSet(order) /\ Len(order) <= Retention
  /\ at > 0 /\ pc # "idle" => thread \in summaries
=============================================================================
