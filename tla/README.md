# MooMail finance AI: a TLA+ model

This directory models the finance assistant in `src/moomail_finance_ai`: a local HTTP
server (`scripts/serve_chat.py`) whose request threads share one `ChatService`; through it
they run an Investment Agent or refresh a portfolio dashboard, both by calling MCP tools
through a shared gateway; one of the MCP servers keeps a SQLite portfolio history.

Paths below are relative to the repository root. `ds` is `portfolio_data_service.py`, `sq`
is `sql_store.py`, `gw` is `mcp/gateway.py`, `ia` is `investment_agent.py`, `pa` is
`portfolio_agent.py`, all in `src/moomail_finance_ai`.

## 1. Inventory

| Component | State | Operations | Interacts with | What is hard |
|---|---|---|---|---|
| Portfolio history store (`sq`) | SQLite tables: `position_states` (append-mostly, one active row per asset by convention), `portfolio_value_snapshots` (one per day), `portfolio_weight_snapshots`, `data_quality_events`, and the idempotent `portfolios`, `broker_accounts`, `assets`, `agent_runs` | `upsert_position_states`, `store_daily_value_snapshot`, `store_weight_snapshots`, `store_data_quality_events`; readers `history_status`, `latest_portfolio_state`, `position_state_changes` | only through the portfolio SQL MCP server | a SELECT before the transaction that uses it; no uniqueness constraint on active rows; four transactions for one observation |
| Portfolio data service (`ds`) | none of its own | `connection_status`, `latest_snapshot`, `refresh` | gateway; dashboard endpoints | order of reads and writes, fallback after a partial failure |
| Portfolio Agent (`pa`) | per run: plan, observation, call budget | `run`, `_write_portfolio_history` | gateway, LLM, Investment Agent | writes the same tables as a refresh, at the same time |
| MCP tool gateway (`gw`) | request queue, sessions, exit stack, `closed` | `call_tool`, `list_tools`, `read_resource`, `list_resources`, `close` | request threads, one worker thread, server processes | time-outs after which the server still executes the call, dead servers, close racing calls |
| MCP servers (`mcp/*.py`) | the SQL store; otherwise none | tools and resources | gateway over stdio | an error becomes a result without content |
| Chat service and HTTP server (`chat_api.py`, `scripts/serve_chat.py`) | the lazily made gateway, data service, baseline service | `run`, `portfolio_*`, `close` | request threads | check-then-act without a lock; shutdown beside requests |
| Investment Agent (`ia`, `investment_routing.py`, `investment_guardrails.py`) | graph state of one run; per-agent active fields | `run` and the graph's nodes | planner, Portfolio Agent, sentiment stub, guardrail, checkpointer, status callback | failure paths, a call budget, a client that goes away in mid-stream |
| Observability (`observability.py`) | diagnostic checkpoints by thread, failures of tracing, open spans | `span`, `generate_text_with_observability`, `put`, `finalize_thread`, `cleanup` | agent run, trace sink, provider calls | every step of a sink may raise; retention; a failed run's diagnostics |
| Trace projections (`agent_trace.py`, `user_trace.py`) | none | sanitising and grouping events | front end | wording, little control |
| Planners and evidence (`investment_planner.py`, `investment_routing.py`, `portfolio_evidence_planner.py`, `asset_resolver.py`) | none | plan, validate, reroute, resolve, compile | LLM, Portfolio Agent | rules written twice, in a compiler and in a validator; ambiguous names; stale or too short evidence |
| Baseline (`portfolio_baseline.py`) | none | `load` | gateway | six reads beside a writer; choice of comparison anchors; caps of the packet |
| Metrics (`metrics.py`) | none | pure functions | - | floating point |
| OpenD adapters (`opend*.py`) | none | `explore_fields`, `build_portfolio_snapshot_from_report` | broker | several reads of a moving account, each may fail or come incomplete |
| LLM clients (`llm.py`) | none | one HTTP request | provider | - |
| Front end (`web/static`) | render state, stream reader | load, refresh, chat | HTTP server | a stream that breaks off |

What makes them correct, in one line each:

* store: one active row per asset, equal to the last committed holdings; closed rows are
  history; rows are inserted only on a change; a day's tables belong together;
* gateway: a call is answered once and takes effect at most once, in order; nothing runs
  after `close()`; nobody waits for ever while the worker lives;
* chat service: one gateway for all requests, closed at shutdown;
* dashboard: what it shows is the last known portfolio, labelled no fresher than it is;
* baseline and planning: what a packet says is true of the rows it was made of, a direct
  answer rests on recent enough rows of the right kind and window, an accepted request has
  an accepted plan that reads what it needs and only of the assets that were named;
* observability: tracing never changes an outcome, its failures are told, calls are paired
  with their ends, kept checkpoints are bounded;
* OpenD: what is shown is what the broker had, or a gap is recorded; saving changes nothing;
* agent run: every answer passed the guardrail, every failure is reported, the call budget
  holds, and only an observation of the broker that the request wanted kept is stored.

`PROJECT.json` lists every component, also those left out, and every hazard at its line.

## 2. Modules

| Module | Models | State and actions |
|---|---|---|
| `PositionStates` | the rows of one asset in `position_states` and what `upsert_position_states` does to them | operators on a sequence of rows: `SelectActive`, `EffectiveCost`, `SamePosition`, `TouchRow`, `ReviseRow`, `CloseRows`, `OpenRow` |
| `PortfolioHistory` | the tables, the SQL server processes and the writers (dashboard refreshes and Portfolio Agent runs) | `Observe` reads the broker, `Send` puts a tool call in a server's queue, `Select*` is what a tool reads before its first INSERT or UPDATE opens its transaction, `Commit*` is that transaction, `ToolError`, `GatewayError` (a time-out: the call stays queued), `Restart` |
| `PortfolioHistoryProofs` | theorems about it, `DashboardView` and `BaselineView` | |
| `ToolCalls` | what a caller may expect of the gateway: answered once, effective at most once, before a result is returned | `Ask`, `Refuse`, `Execute`, `Answer` |
| `ToolGateway` | the stdio gateway: threads, queue, worker, sessions, server processes | one action per step between two points where another thread can run; it implements `ToolCalls` |
| `ToolGatewayProofs` | theorems about it | |
| `ChatServices` | lazy creation of the shared gateway and services, requests, shutdown | tests, constructions and assignments of the attributes are separate steps |
| `ChatServicesProofs` | theorems about it | |
| `DashboardView` | `latest_snapshot` beside the writers of `PortfolioHistory`, which it extends | one action per SELECT; `StoreStep` lets the store move in between |
| `PositionChanges` | `position_state_changes`: the history of a position read back from its rows | operators on the rows of `PositionStates`: `DeltaChange`, `InitialChange`, `ClosedChange`, `AssetChanges` |
| `BaselineView` | `PortfolioBaselineService.load` beside the writers: the dashboard's two calls, then growth and position changes | extends `DashboardView` and `PositionChanges`; `ReadGrowth`, `ReadChanges`, one tool call each |
| `Baseline` | what a baseline packet offers, given what is stored and how each of its six calls ended | operators: anchors, qualities, windows, one per part of the packet, `PacketEvidence` |
| `Totals`, `SumTheorems` | Python's `sum()` over the parts of a packet or of a snapshot; the theorems about it | `Total(f, S)` |
| `DirectCoverage` | the coverage test of a direct answer, its rerouting, the compatibility plan and the way back from it | operators on a decision and a packet |
| `AssetResolution` | candidates, hints, the request validator | operators |
| `EvidencePlan` | the evidence compiler, the plan's validator, the context plan, the reads that follow | operators; `PortfolioRequests` holds what it shares with `PortfolioRun` |
| `TurnPlanning` | one chat turn's decisions through these four | stages `load`, `plan`, `ask`, `compile` and how the turn ended; the planner's answers are chosen freely within the schema |
| `TurnPlanningProofs` | theorems about it | |
| `Observability` | spans, provider calls and checkpoints of runs, one after another | one action per `with` block entered or left (`OpenRun`, `EnterNode`, `StartCall`, `Leave` ...); every sink step may raise |
| `ObservabilityProofs` | theorems about it | |
| `OpenDSnapshot` | one observation from the broker's tables to the stored rows and back | one action per OpenD call, `AccountMoves` between them, `BuildSnapshot`, `StoreObservation`; `ReadBack` is `snapshot_from_latest_state` |
| `OpenDSnapshotProofs` | theorems about it | |
| `PortfolioRun` | one run of the Portfolio Agent, from the compiled plan to the last storage tool | `step` is how far `run()` has come, `failure` the class of exception it raised; one action per phase (`CompileEvidence`, `InitializeSql`, `ReadContext`, `GatherEvidence`, `Analyse` ...), and one `StoreTool` per storage tool, since the process may stop or a tool may fail between two of them |
| `AgentRun` | one streamed chat request: the Investment Agent's graph around that run, its failure paths, and the handler that writes the last line | one action per graph node; `at` is the node, `told` and `limits` are the failures in the event stream and in `state.warnings`, `counted` and `active` the two lists of provider calls; `ClientLeaves` may come at any time |
| `AgentRunProofs` | theorems about it | |

`MC*` modules give model values and definitions for TLC. Each module's map from definitions
to source lines is in `PROJECT.json`.

**From the code to the store model.** Python's `sqlite3` opens a transaction at the first
INSERT, UPDATE or DELETE, so the SELECT for the first holding (sq:361) and the SELECT for the
day's value row (sq:502) read before any lock is held: they are steps of their own. The
other SELECTs of a tool run inside its transaction. A server process executes one tool at a
time (the tools are synchronous functions on one event loop), so two tools interleave only if
two server processes use the file. Observation numbers stand for times: observation `i` is
older than `j` when `i < j`. Holdings are a quantity with its sign (the side) and a cost basis
or none.

**From the code to the agent model.** A graph node runs in one thread and shares nothing with
other requests but the store, so it is one action; the Portfolio Agent's run is not, because
what it has stored when it fails, or when the client leaves, is visible afterwards. A request
is reduced to what decides its control: the freshness policy, whether its goals need current
values, whether it reads history or stores, whether it wants an interpretation, whether it is
to be stored. `Coherent` says which combinations the evidence compiler produces. A planner's
decision is any that `InvestmentTurnDecision` accepts; whether a baseline covers a direct
answer is a free choice, made only if one could be loaded. A tool call ends with a result, with
a result without content (an error the server turned into text), or with a gateway exception,
after which its transaction may have been committed. A report is what facts it shows and which
failures it names. A node that raises loses its state, since the graph gives the next node a
copy; the agent's own list of calls survives. An event written to a client who has gone may
or may not fail at once (the first write to a closed socket often succeeds), so the run may
go on for a while.

**From the code to the pure parts.** Planning and the packet are functions of their inputs, so
they are operators, run by `TurnPlanning` over a set of databases, requests and decisions. Times
are quarters of an hour, a display name is a sequence of words, a symbol a string compared
as a whole. `BaselineView` asks what the packet's reads mean when a writer runs between them,
on a scale where the window is one observation. Amounts in `OpenDSnapshot` are small integers
and a weight is the fraction that the code divides out, so equality of weights is exact.

**Bounds.** `MaxObs` bounds observations, `ObsPerDay` how many fall on one day. Two assets
are needed because the first holding's SELECT differs from the others'; two quantities and
two costs distinguish "changed quantity" from "changed cost" and from "no cost reported". Three
observations suffice for a position to open, close and reopen, or to change twice. Two callers
with two calls and two closers give a gateway call, and a close, before, beside and behind a close; two
processes per server name give a failed start followed by a good one. Three threads with two
requests each give a race, a request after the race, and a close beside a request. An agent run
has one request, chosen from all coherent ones; planner and evaluator may each make up to two
provider calls (`PlannerCalls`, `EvaluatorCalls`), one more than the budget expects, so that
each exceeds it alone and both exceed it together; `Limits` has the shipped limit 1 and 0, with
which an analysis is refused. `baseline` has one asset with two quantities, four observations,
two on a day, and a window and an anchor tolerance of one: a packet of three observations can
report a change, and the fourth is stored while it is read. `FirstStored`, the run's constraint, lets
the first observation hold one share and be stored whole, so that failures and overlaps are left to the other three.
`planning` has a newest value row minutes, hours or days old with up to two older ones of 8, 14, 32 or 36 days,
one age on each side of every limit the code compares with; rows no packet takes before, at and behind
the end of what is shown; four assets that share words,
markets and companies; every intent, freshness and pair of goals with up to two hints.
`observability` has three threads and two retained ones, so that a thread is pruned, and comes
back. `opend` has a stock, a money-market fund known only by its quote, and an
exchange-traded fund, amounts of 0 and 1, cash from -1 to 1, an amount that can be spent which is neither,
and one change of the account:
a difference of one unit shows every double count, and a second change adds no new mixture,
since only funds and positions carry amounts. The longest runs are `baseline` (two and a half
minutes with two workers), `opend` (one and a half) and `planning` (one).

## 3. Runs

| Run | Shows |
|---|---|
| `store_one_server` | two writers, one server process, time-outs, tool errors, restarts: one active row, active rows are the last committed holdings, a row is inserted only on a change, closed rows never change |
| `baseline` | one writer, and a reader answered by the writer's server or one of its own: rows follow one another in time, a reported success leaves the day's tables of one observation, a day's value never goes back; positions shown are never older than a value row whose positions were stored, the freshness label never newer than the state it labels; position changes the packet reports start and end with quantities that were held, and replaying an asset's changes gives its present |
| `planning` | with its default limits no number of stored rows keeps a packet from being built; a direct answer that passes the coverage test rests on rows recent enough, of the capabilities and windows asked for; every accepted request compiles to a plan the validator accepts, which allows for the broker where the run may need it (with one exception); the history read is that of the assets named; goals and detectors have the data they look at; the record of planned tools is true of the run (with two exceptions) |
| `observability` | tracing that raises does not change how a run ends (but for two unguarded steps, the end of a provider call's span and the pruning in `put`); a run that ends without the warning of degraded tracing has left a whole trace and no native checkpoints; spans tell how their bodies ended, provider calls and their events are paired and counted once, checkpoints stay bounded unless pruning failed, and outlive a run only if that is told |
| `opend` | without a recorded gap, what is shown from the stored rows is what the broker had when it was read, but for replaced N/A values; saving and reading back changes neither cash, allocation nor weights; nothing is counted twice or left out when everything was given and the account did not move |
| `gateway` | the call contract (a refinement of `ToolCalls`), one process that serves calls, order of execution, and two liveness properties |
| `services` | however requests overlap each other and the shutdown, no gateway is left open unless one was being made beside another one, or at or after `close()`; once the attributes are set no further gateway appears |
| `agent_run` | any decision, any failure and a client who leaves: every answer was reviewed as shown, no answer with its evidence is blocked for want of it, facts come of a completed run within budget or a covering baseline, failures are named in the report, provider calls are counted once, only analysed broker observations are stored and shown only when stored, a trade request reaches no subagent, and a client who stays gets a last line |
| `services_shared_gateway` (violation) | two simultaneous first requests make two gateways |
| `agent_stale_cache` (violation) | a `cached_ok` request with a stale cache fails altogether when the broker tool answers with an error result, or when its goals need no current values |
| `agent_refusal_blocked` (violation) | a refusal, which has no facts, is blocked by the check for portfolio facts without evidence, so that its explanation is not shown |
| `agent_failed_unchanged` (violation) | a run told to the user as failed, "your saved dashboard is unchanged", has stored part of an observation or all of it |

The four violations are listed under "findings" with the lines they contradict. Premises of
passing properties mark where the code promises less than one may expect:

* two server processes on one file (how `services_shared_gateway` ends, or two programs) both
  find no active row and insert one each: `store_one_server` has one server;
* after a refresh that failed behind its value row the dashboard it falls back to has the new
  total with the holdings of an older observation: `PositionsNotOlder` is about the active
  positions, and nothing is claimed of the weight rows then;
* two writers of one day may interleave so that its value and weights are of different
  observations, both reporting success: `DailyViewCoherent` is checked with one writer;
* a position opened inside the window has no earlier row and is no change for the packet:
  `ReportedChangesTrue` is about what is reported, not about all that happened;
* a position that was gone at the packet's snapshot, and is held again by an observation stored
  while the packet is read, is reported with the quantity it had before it went, because only
  the last row of an asset can tell that it was closed (sq:1129): an exception in
  `ReportedChangesTrue`. It takes four observations and was found by the proof;
* a hint of up to five letters is compared with tickers only, so "Apple" is not found:
  `ReadsWhatWasNamed` says that no other asset is read in its place;
* a broker row without total assets but with a value of its securities gives a wrong total, one
  without cash but with an amount that can be drawn or spent shows that amount as cash, and a position
  whose market value is N/A is shown as worth nothing: no event row tells of any of the three, which are
  exceptions in `ShownIsReal`. An exchange-traded fund is taken out of `fund_assets`, and an account that
  moved between the reads is stored as one observation: premises of `PartsAddUp`, which no property makes
  up for. A broker that lists one code in two rows is not modelled;
* a packet is not built, and the turn has no baseline, if a row among those shown repeats the id of another
  (one asset in two accounts) or has a text no entry may have, or if its texts are longer than 65,536 bytes:
  exceptions in `PacketFits`;
* a `cached_ok` request for position changes alone, whose plan needs no current values, fails when the cache is
  stale (`agent_stale_cache`): an exception in `CompiledPlanAccepted`; and the record of planned tools says "skipped"
  of the stored state that a `latest_required` request with hints reads for its candidates, and of the broker that a
  `cached_ok` request falls back to: exceptions in `PlanHasItsData`;
* a second `close()` queued behind the first is never answered, since the worker stops behind the first
  (gw:394-399) and the caller waits without a limit (gw:365): an exception in `CloseReturns`. The agent, the data
  service and the chat service may each close the gateway;
* a session whose process died stays cached, and all later calls to that server fail (gw:407): the gateway's
  properties say that these calls are answered, not that they succeed;
* the end of a provider call's span and the pruning of old checkpoints in `put` (`observability.py`:291, 315-319)
  are not guarded: a sink or a checkpointer that raises there ends the run, although
  `docs/finance-ai/REQUIREMENTS.md`:253-254 says that export or checkpoint failures must not fail chat. A prune that
  failed leaves native checkpoints of a thread that is no longer in the list. Both are exceptions in
  `TracingHarmless` and `CheckpointsBounded`. The failed end of a call's span is not among the counted failures either,
  and needs no warning, since the run fails.

`agent_refusal_blocked` explains a failure the repository records
(`docs/finance-ai/V1_6_Tasks/README.md`, "Observed Failure": one planning call, no portfolio tool,
`unsupported_price_or_portfolio_facts` failed, `AnalyticalRunUnavailable`). The notes suppose that
the coverage of a direct answer gets lost before the guardrail. `BackedFactsPass`, proved for every
run, says it does not; what is blocked is the report of the unsupported route, to which a direct
answer without coverage or fallback is rerouted, because that report keeps its route and reasons
in `portfolio_analysis`, the field whose content the check takes for facts. The report of a planning failure
leaves the field empty and passes.

**Fairness.** Two runs use it. `gateway`: the worker thread keeps running, because its loop never
blocks without a time limit on anything but an empty queue, and a thread inside `close()`
keeps running. A server need not answer, and nobody has to call. `CallsAnswered` excepts a
stopped worker: a request that passed the test of `closed` and is queued behind the close
request is never answered. `agent_run`: the request thread keeps running (`WF_vars(Proceed)`),
because every tool call and provider call has a time limit and the graph has no loop. A client
need not leave, nor read.

`CHECK_DEADLOCK FALSE` is set in every run but `observability`, since every bounded run ends: writers have used up
their observations, callers their calls, a server has exited, a request was answered, a turn was
planned, an observation was stored. `observability` runs for ever and is checked for deadlock.

## 4. Proofs

Eight modules prove, for every value of the constants, the safety properties that the runs
check on small instances. Each property follows from an inductive invariant; a property that
is not one by itself (almost none is) is a conjunct of a stronger formula, whose other
conjuncts say what the code relies on at each of its steps. The proof that a step preserves
an invariant has one lemma per part of it, with one case per action. Nothing is assumed but the
`ASSUME`s that the modules state of their constants, which TLC evaluates in the runs, and the
hypotheses named below.

**The store** (`PortfolioHistoryProofs`). With no further hypothesis, `TypeCorrect`. With
`OneProcess` (all writers are served by one process): `OneActiveStateHolds`,
`ClosedRowsStayFrozen`, `ActiveRowsMatchSnapshotHolds`, `InsertOnlyOnChangeHolds`. With
`OneProcess` and `OneWriter`: `TimelineOrderedHolds`, `DailyViewCoherentHolds` (about an idle writer that reported
success) and `ValueNeverRegressesHolds`. The program ensures neither hypothesis (see the findings), and
neither can be dropped: with two processes both find no active row before their transactions
begin and both insert one; with two writers the later of two observations may be stored first.

* `StoreInv` is `TypeInv` (the types, every row is stamped by an observation that was made, and
  what a call has selected exists), `OneActiveState`, and `CallsCurrent`: what the call at the
  head of a queue has read is what the table still holds. A call whose SELECT found no active row
  inserts one, which is right only if there is still none; one process executes one tool at a
  time, and that is where `OneProcess` is used.
* `ChangeInv` adds `PositionsOnce` (no observation's positions are written by two calls), and the two
  properties about the rows.
* `OrderInv` adds `InOrder` (the calls in the queue and the writer are no older than what is
  stored), `TimelineOrdered` and `StoredSoFar` (which of an observation's tables are written, by
  how far its writer has come).

**The dashboard** (also in `PortfolioHistoryProofs`). `ReadersAreHarmless` and `LoadsAreHarmless`:
the steps of readers and loads are stuttering steps of `PortfolioHistory`, so all of the above
holds beside any of them. `PositionsNotOlderHolds` and `StatusNotNewerHolds` assume `OneProcess` and
`OneWriter` of the writers, and the first is about value rows whose positions were stored; the reader may be answered by any process, also one of its own;
`LoadsKeepTheView` extends them to behaviours with loads. The invariant `ViewInv` is `OrderInv`
with what a SELECT has established for those after it: behind a value row that was read only
positions of newer observations are still to be stored, and the status that was read is no
newer than a value row that still exists.

**The history that is told** (also there, under `OneProcess` and `OneWriter`): `ChangesReplayHolds`
and `ReportedChangesTrueHolds`. None of the invariants above relates a closed row to what was
observed, and these two properties are about all rows at once. What is needed is `Tells`:
each row *covers* the observations from its first to the one that closed it, it says what
they held, and an asset was held in no other. `HistInv` is `ViewInv` and `Tells` for every
asset (`KeptTold`); that an upsert preserves it (`GrownTells`) rests on `ActiveRowsMatchSnapshot`
for the newest observation and on `TimelineOrdered` for the others. On such rows the changes that
`position_state_changes` reads back are *turns*: row `i` makes one if there is a row before it, and
the end of the rows makes one if the last was closed (`ChangesAreTurns`). Turns come one after
another (`TurnsInOrder`), and an observation is on the side of a turn on which the row is that
covers it (`CoveringSide`), so the quantity at any time can be read off the turns. For
`ChangesReplayHolds` that is the last turn of all (`ReplayEnds`); for `ReportedChangesTrueHolds` the
first and the last turn of the window (`BeforeTrue`, `AfterTrue`). The second is about a packet
that is read by several calls while the store moves: `PackInv` says that the reported rows
are true of the history up to the packet's snapshot, and `SameHistory` that what is stored
later is newer than that snapshot, since behind a value row that was read no older positions
are still to come.

**The gateway** (`ToolGatewayProofs`), for any callers, closers, servers, calls and restarts:
`GatewayTypeCorrect`, `OneServingProcessHolds`, `ExecutedInOrderHolds` and `CallContractHolds`,
the refinement of `ToolCalls`: initial states map to initial states, and every step of a thread,
of the worker or of a server process is a step of `ToolCalls` or a stutter. `GatewayInv` follows a call through the places it can be in, the queue, the worker, the inbox of a
process, executed: `ArrivalInv` (it arrives once), `QueueInv` and `ServerInv` (each place
holds its calls in the order of arrival, and each place holds older calls than the one before
it), `LateInv` (how far an execution can lag behind), `ServingInv` (only the process a session
talks to was ever sent anything), `WorkerInv` and `AnswerInv` (a call that is queued or being
worked on is unanswered, one that waits in an inbox may have been given up).

**The chat service** (`ChatServicesProofs`), for any threads, requests and number of gateways:
`ServicesTypeCorrect`, `CleanShutdownHolds`, `NoGatewayOnceSettledHolds`, and
`SharedUnlessRaced`, which makes the finding of `services_shared_gateway` exact: however requests
overlap, everybody has the one gateway unless a thread began to make one while another was, or at or after `close()`
(the history variable `raced`). `ServicesInv` is the types, `HandedOver` (nobody is about to return a `None`) and
`UnracedInv`: without the race one thread at most is making a gateway, while there is none and the server runs.

**The agent run** (`AgentRunProofs`), for any set of requests and any bounds on provider calls:
`AgentTypeCorrect` and all safety properties of the run `agent_run`. They are consequences of
`AgentInv` (theorem `Invariance`), which says what each place in the run has established:
`RunInv` what the Portfolio Agent has done at each of its steps (nothing is sent before the store
step, and only after an analysis that was wanted came back), `NodeInv` what a graph node relies
on (which decision was validated, that the Portfolio Agent has not started), `CountInv` that
both counts equal the calls made except between a failed planner node and the failure path,
`ReviewInv` that the review is about the report from the guardrail on, `SafeInv` where a trade
request may be, `FactInv` where facts come from and that the evidence is still there when the
guardrail looks for it, `StoreInv` which storage tools have answered, and `TellInv` that a run
without a packet has noted why before its report is written.

**Planning** (`TurnPlanningProofs`), for any requests the schema lets pass, any stored rows, any
limits, any sets of calls that fail and any held assets: `PacketFitsHolds`,
`CoveredMeansSupportedHolds`, `CompiledPlanAcceptedHolds`, `PlanHasItsDataHolds`,
`ReadsWhatWasNamedHolds`. `PacketFits` is about the default limits: a service may be given limits
that leave its packets over the cap of 32 summaries, and then has none. What a row's text or id does to its packet is
part of the database (`spoilt`, `large`); the theorem says that nothing else is lost. In `CompiledPlanAccepted` the
compiler's table of metrics and the validator's rule are separate operators, so that their agreement is proved. The invariant `TurnInv` is short, since a turn is
a pipeline: the packet is one that `PacketEvidence` makes of the database, the decision one that
the schema accepts, the request one of `Requests`, and the plan what the compiler makes of it. The work is in the
lemmas about the operators: what the compiler selects for each goal and intent, that the
validator asks for nothing else, that each kind of evidence is in a packet only if the rows
support it and has no more summaries than its part may have (the bound of the whole is the sum of
the parts, `BoundedUnion` of `SumTheorems`), and that resolved hints are candidates matched by them alone. To make the
operators definite for every argument, tests whose order decides (`CASE` with overlapping guards)
are written as chains of `IF`, in the order of the code's `if` and `elif`.

**Observability** (`ObservabilityProofs`), for any threads, retention and graph:
`ObservabilityTypeCorrect`, `TracingHarmlessHolds`, `FailuresToldHolds`, `SpansTellTheEndHolds`,
`CallsPairedHolds`, `CheckpointsBoundedHolds`. `ObservabilityInv`: the `with` blocks are a stack of
run, node and call, of which only the innermost can have been ended, with a status that tells what its
body raised (`StackInv`); what is on its way out while the run goes on (`RaisedInv`); as long as no failure is
counted, every block that was to be traced is in the trace or still open (`TraceInv`); starts and ends of
calls alternate (`CallsInv`); the list of threads holds each thread once, exactly those that
have summaries, the running one among them, and native checkpoints are theirs or of a thread whose pruning
failed (`KeptInv`).

**OpenD** (`OpenDSnapshotProofs`), for any assets, amounts and changes of the account:
`ShownIsRealHolds` and `ReadBackAgreesHolds`, and `PartsAddUpHolds` if `MoneyMarketPooled`: an asset
whose quote says money-market fund is counted by the broker in `fund_assets`, and what is counted
there is such a fund or a listed one. That is the broker's definition of the field, on which the code relies when it
subtracts. (The property itself has further premises, stated with it: the account did not move between the reads,
nothing is missing or N/A.) `ObservationInv` says of what each thing was made: the tables of the account as it was
read, the snapshot of the report, the rows of the snapshot. `AccountInv` says that the automatically
invested amount is never negative. The totals are sums over sets; that a total may be taken apart at any element, and does
not depend on elements of value zero, is proved once, in `SumTheorems`, by induction on the size of the set. (The
library's induction theorems take an operator as parameter, which the provers cannot instantiate; the induction
here is over a set of numbers, from the well-foundedness of their order.)

**Model-checked only.** The liveness properties `CallsAnswered`, `CloseReturns` and `Answered`, since
neither fairness nor ENABLED can be dealt with by the provers; and the four violations, which
are counterexamples. Every safety property of a passing run, and every action property, is
stated by a theorem.

## 5. Not modelled

Column parsing and currencies of broker tables, prompt building and payload repair, wording of
traces and reports, metrics other than effective cash and allocation by type, redaction, HTTP
details and static files: data conversion without state. What the guardrail's checks find in the
wording of a report (`investment_guardrails.py`) is a free choice in `AgentRun`; the check of a
report's payload against its evidence is modelled. The front end: its stream reader and render state run in a browser; the
server's side of the stream is in `AgentRun`. Legacy prototypes (`research.py`,
`guardrails.py`, `mocks.py`, the sentiment stub, `cli.py`): stubs. Schema migration and the
idempotent upserts of portfolios, accounts and assets: nothing else depends on how often they
run. `list_tools`, `read_resource` and `list_resources` of the gateway take the same path as
`call_tool` and are not distinguished from it.

## 6. Plan

The runs' safety properties are proved. What is left:

1. what two writers keep: with `OneWriter` dropped the order of the tables is lost, but an asset's
   rows still say what the last stored observation held, so a weaker form of `Tells`, in the order
   of storing instead of observing, should still hold;
2. the exact extent of the other findings, as `SharedUnlessRaced` is for
   `services_shared_gateway`: in which cases a failed run has stored something
   (`agent_failed_unchanged`), and that nothing but a refusal without facts is blocked for want
   of evidence (`agent_refusal_blocked`);
3. safety lemmas that the liveness properties rest on, such as that no thread of the gateway waits
   for a call that nobody can answer any more.
