-------------------------- MODULE PortfolioHistory --------------------------
(***************************************************************************)
(* The portfolio-history database and everything that writes it.           *)
(*                                                                         *)
(* A writer is one dashboard refresh (PortfolioDataService) or one         *)
(* Portfolio Agent run: it reads the broker (OpenD) once, then issues the  *)
(* SQL tool calls of one observation in a fixed order.  The calls travel   *)
(* through the writer's gateway to the gateway's SQL server process.  A    *)
(* gateway has one call under way; the server executes the requests it was *)
(* sent one at a time, in order, those the gateway no longer waits for     *)
(* included.  Several server processes may share the SQLite file.          *)
(*                                                                         *)
(* Every tool commits in its own transaction.  Python's sqlite3 opens a    *)
(* transaction only at the first INSERT, UPDATE or DELETE, so the SELECT   *)
(* that precedes it reads outside of the transaction: the two halves are   *)
(* the actions Select and Commit.                                          *)
(*                                                                         *)
(* A time is the position of an observation in log, the sequence of all    *)
(* OpenD reads: snapshot.as_of grows with every read.                      *)
(***************************************************************************)
EXTENDS PositionStates

CONSTANTS Assets,     \* securities the account may hold
          NotHeld,    \* marks an asset a snapshot does not list
          Snapshots,  \* contents OpenD may return: asset -> Holding or NotHeld
          Writers,    \* refreshes and agent runs
          Servers,    \* SQL server processes on the database file
          ServerOf,   \* the server at the end of a writer's gateway
          ObsPerDay,  \* how many observations fit in one calendar day
          MaxObs      \* bound on the number of OpenD reads

ASSUME HistoryAssumption ==
    /\ NotHeld \notin Holding
    /\ Snapshots \subseteq [Assets -> Holding \cup {NotHeld}]
    /\ ServerOf \in [Writers -> Servers]
    /\ ObsPerDay \in Nat \ {0}
    /\ MaxObs \in Nat

VARIABLES
    log,      \* history: the contents of every OpenD read so far
    pc,       \* the tool call a writer issues next, or "idle"
    stamp,    \* the observation a writer is storing (or stored last)
    outcome,  \* how the writer's last observation stands or ended
    queue,    \* requests sent to a server and not executed yet; head first
    rows,     \* table position_states, per asset
    value,    \* table portfolio_value_snapshots: as_of of the row of a day
    weights,  \* table portfolio_weight_snapshots: as_of of a day's rows
    events,   \* table data_quality_events: as_of of a day's rows
    lastPositions  \* history: the observation whose positions committed last

tables == <<rows, value, weights, events, lastPositions>>
writerVars == <<log, pc, stamp, outcome>>
vars == <<log, pc, stamp, outcome, queue, tables>>

Tools == {"positions", "value", "weights", "events"}
Observations == 1..MaxObs
Days == 0..(MaxObs \div ObsPerDay)
Day(t) == t \div ObsPerDay

(* No row, and the observation number before the first OpenD read. *)
None == 0

(* A tool call at its server.  selected: the SELECT that precedes the        *)
(* transaction was done; it read the rows of the assets in read and returned *)
(* seen, or told whether the day has a value row (found).  live: the caller  *)
(* waits; FALSE once the gateway gave the call up.                           *)
Call == [tool : Tools, writer : Writers, obs : Observations,
         selected : BOOLEAN, read : SUBSET Assets, seen : [Assets -> SUBSET Nat],
         found : BOOLEAN, live : BOOLEAN]

Held(t) == {a \in Assets : log[t][a] # NotHeld}

(* The server's call under execution, and the change of its record. *)
Busy(s) == queue[s] # <<>>
Serving(s) == Head(queue[s])
Progress(s, c) == queue' = [queue EXCEPT ![s][1] = c]
-----------------------------------------------------------------------------
Init ==
    /\ log = <<>>
    /\ pc = [w \in Writers |-> "idle"]
    /\ stamp = [w \in Writers |-> None]
    /\ outcome = [w \in Writers |-> "none"]
    /\ queue = [s \in Servers |-> <<>>]
    /\ rows = [a \in Assets |-> <<>>]
    /\ value = [d \in Days |-> None]
    /\ weights = [d \in Days |-> None]
    /\ events = [d \in Days |-> None]
    /\ lastPositions = None

(* Mutant: a cache of reports may answer in the place of OpenD.            *)
ObserveCached(w) ==
    /\ pc[w] = "idle"
    /\ Len(log) < MaxObs
    /\ \E content \in Snapshots : log' = Append(log, content)
    /\ pc' = [pc EXCEPT ![w] = "positions"]
    /\ \E t \in 1..(Len(log) + 1) : stamp' = [stamp EXCEPT ![w] = t]
    /\ outcome' = [outcome EXCEPT ![w] = "storing"]
    /\ UNCHANGED <<queue, tables>>

(* The writer reads OpenD.  The calls that follow at once (initialize,     *)
(* upsert_portfolio, upsert_broker_account, upsert_assets) leave rows that *)
(* never change afterwards and are not tracked.                            *)
Observe(w) ==
    /\ pc[w] = "idle"
    /\ Len(log) < MaxObs
    /\ \E content \in Snapshots : log' = Append(log, content)
    /\ pc' = [pc EXCEPT ![w] = "positions"]
    /\ stamp' = [stamp EXCEPT ![w] = Len(log) + 1]
    /\ outcome' = [outcome EXCEPT ![w] = "storing"]
    /\ UNCHANGED <<queue, tables>>

Send(w) ==
    LET s == ServerOf[w] IN
    /\ pc[w] \in Tools
    /\ \A i \in DOMAIN queue[s] : ~queue[s][i].live
    /\ queue' = [queue EXCEPT ![s] = Append(@,
                   [tool |-> pc[w], writer |-> w, obs |-> stamp[w],
                    selected |-> FALSE, read |-> {}, seen |-> [a \in Assets |-> {}],
                    found |-> FALSE, live |-> TRUE])]
    /\ UNCHANGED <<writerVars, tables>>

(* The gateway raises: it is closed, or 20 seconds went by.  A request that *)
(* was sent is not recalled; its server will still execute it.              *)
GatewayError(w) ==
    LET s == ServerOf[w] IN
    /\ pc[w] \in Tools
    /\ pc' = [pc EXCEPT ![w] = "idle"]
    /\ outcome' = [outcome EXCEPT ![w] = "failed"]
    /\ queue' = [queue EXCEPT ![s] = [i \in DOMAIN queue[s] |->
                    [queue[s][i] EXCEPT !.live = @ /\ queue[s][i].writer # w]]]
    /\ UNCHANGED <<log, stamp, tables>>
-----------------------------------------------------------------------------
(* upsert_position_states reads the first holding's active row before its   *)
(* transaction starts; with no holding it is the list of rows to close.     *)
SelectPositions(s) ==
    LET c == Serving(s) IN
    /\ Busy(s) /\ c.tool = "positions" /\ ~c.selected
    /\ \/ \E a \in Held(c.obs) : \E picked \in SelectActive(rows[a]) :
            Progress(s, [c EXCEPT !.selected = TRUE, !.read = {a}, !.seen[a] = picked])
       \/ /\ Held(c.obs) = {}
          /\ Progress(s, [c EXCEPT !.selected = TRUE, !.read = Assets,
                                   !.seen = [a \in Assets |-> ActiveOf(rows[a])]])
    /\ UNCHANGED <<writerVars, tables>>

SelectValue(s) ==
    LET c == Serving(s) IN
    /\ Busy(s) /\ c.tool = "value" /\ ~c.selected
    /\ Progress(s, [c EXCEPT !.selected = TRUE, !.found = (value[Day(c.obs)] # None)])
    /\ UNCHANGED <<writerVars, tables>>

Select(s) == SelectPositions(s) \/ SelectValue(s)

NextTool(tool) == CASE tool = "positions" -> "value"
                    [] tool = "value"     -> "weights"
                    [] tool = "weights"   -> "events"
                    [] tool = "events"    -> "idle"

(* Mutant: an error result is taken for an empty success. *)
ReplyUnchecked(s, ok) ==
    LET c == Serving(s)
        w == c.writer
    IN
    /\ queue' = [queue EXCEPT ![s] = Tail(@)]
    /\ UNCHANGED <<log, stamp>>
    /\ IF c.live
       THEN LET next == IF c.tool = "value" /\ ~ok THEN "idle" ELSE NextTool(c.tool)
                standing == outcome[w]
            IN /\ pc' = [pc EXCEPT ![w] = next]
               /\ outcome' = [outcome EXCEPT ![w] =
                                 IF next # "idle" THEN standing
                                 ELSE IF standing = "storing" THEN "stored" ELSE "failed"]
       ELSE UNCHANGED <<pc, outcome>>

(* The caller, if it still waits, gets a result and goes to its next call.  *)
(* An error result carries no content; the caller notices at once only if   *)
(* it needs the value_snapshot_id, otherwise ("doubtful") when it builds its *)
(* own result after the last call.                                          *)
Reply(s, ok) ==
    LET c == Serving(s)
        w == c.writer
    IN
    /\ queue' = [queue EXCEPT ![s] = Tail(@)]
    /\ UNCHANGED <<log, stamp>>
    /\ IF c.live
       THEN LET next == IF c.tool = "value" /\ ~ok THEN "idle" ELSE NextTool(c.tool)
                standing == IF ok THEN outcome[w] ELSE "doubtful"
            IN /\ pc' = [pc EXCEPT ![w] = next]
               /\ outcome' = [outcome EXCEPT ![w] =
                                 IF next # "idle" THEN standing
                                 ELSE IF standing = "storing" THEN "stored" ELSE "failed"]
       ELSE UNCHANGED <<pc, outcome>>
-----------------------------------------------------------------------------
(* What the SELECTs inside the transaction return, one result per asset. *)
Fetches == {f \in [Assets -> UNION {SelectActive(rows[a]) : a \in Assets}] :
                \A a \in Assets : f[a] \in SelectActive(rows[a])}

(* Mutant: omitted positions stay active (mark_missing_inactive is lost). *)
PositionsKept(c, a, fetched) ==
    IF a \in Held(c.obs)
    THEN UpsertHolding(rows[a], IF a \in c.read THEN c.seen[a] ELSE fetched,
                       log[c.obs][a], c.obs)
    ELSE rows[a]

(* The rows of one asset after the transaction of upsert_position_states:   *)
(* the upsert of its holding, or the end of every active row it has.        *)
PositionsAfter(c, a, fetched) ==
    IF a \in Held(c.obs)
    THEN UpsertHolding(rows[a], IF a \in c.read THEN c.seen[a] ELSE fetched,
                       log[c.obs][a], c.obs)
    ELSE CloseRows(rows[a], IF a \in c.read THEN c.seen[a] ELSE ActiveOf(rows[a]), c.obs)

CommitPositions(s) ==
    LET c == Serving(s) IN
    /\ Busy(s) /\ c.tool = "positions" /\ c.selected
    /\ \E fetched \in Fetches :
          rows' = [a \in Assets |-> PositionsAfter(c, a, fetched[a])]
    /\ lastPositions' = c.obs
    /\ Reply(s, TRUE)
    /\ UNCHANGED <<value, weights, events>>

(* INSERT when the SELECT found no row of that day, UPDATE otherwise; the   *)
(* UNIQUE constraint refuses an INSERT that lost the race.                  *)
CommitValue(s) ==
    LET c == Serving(s) IN
    /\ Busy(s) /\ c.tool = "value" /\ c.selected
    /\ c.found \/ value[Day(c.obs)] = None
    /\ value' = [value EXCEPT ![Day(c.obs)] = c.obs]
    /\ Reply(s, TRUE)
    /\ UNCHANGED <<rows, weights, events, lastPositions>>

CommitWeights(s) ==
    LET c == Serving(s) IN
    /\ Busy(s) /\ c.tool = "weights"
    /\ weights' = [weights EXCEPT ![Day(c.obs)] = c.obs]
    /\ Reply(s, TRUE)
    /\ UNCHANGED <<rows, value, events, lastPositions>>

CommitEvents(s) ==
    LET c == Serving(s) IN
    /\ Busy(s) /\ c.tool = "events"
    /\ events' = [events EXCEPT ![Day(c.obs)] = c.obs]
    /\ Reply(s, TRUE)
    /\ UNCHANGED <<rows, value, weights, lastPositions>>

(* The tool raises (a lost INSERT race, a database locked for too long, an  *)
(* event naming an asset that is not stored): its transaction rolls back.   *)
ToolError(s) ==
    /\ Busy(s)
    /\ Reply(s, FALSE)
    /\ UNCHANGED tables

(* The process group is stopped and started again; only the file survives.  *)
Restart ==
    /\ pc' = [w \in Writers |-> "idle"]
    /\ outcome' = [w \in Writers |-> IF pc[w] = "idle" THEN outcome[w] ELSE "failed"]
    /\ queue' = [s \in Servers |-> <<>>]
    /\ UNCHANGED <<log, stamp, tables>>
-----------------------------------------------------------------------------
WriterStep(w) == Observe(w) \/ Send(w) \/ GatewayError(w)

ServerStep(s) == \/ Select(s) \/ CommitPositions(s) \/ CommitValue(s)
                 \/ CommitWeights(s) \/ CommitEvents(s) \/ ToolError(s)

Next == \/ \E w \in Writers : WriterStep(w)
        \/ \E s \in Servers : ServerStep(s)
        \/ Restart

Spec == Init /\ [][Next]_vars
-----------------------------------------------------------------------------
(* Every variable stays in its domain. *)
TypeOK ==
    /\ log \in Seq(Snapshots) /\ Len(log) <= MaxObs
    /\ pc \in [Writers -> Tools \cup {"idle"}]
    /\ stamp \in [Writers -> 0..Len(log)]
    /\ outcome \in [Writers -> {"none", "storing", "doubtful", "stored", "failed"}]
    /\ queue \in [Servers -> Seq(Call)]
    /\ \A s \in Servers : \A i \in DOMAIN queue[s] : queue[s][i].obs <= Len(log)
    /\ rows \in [Assets -> Seq(Row)]
    /\ value \in [Days -> 0..Len(log)]
    /\ weights \in [Days -> 0..Len(log)]
    /\ events \in [Days -> 0..Len(log)]
    /\ lastPositions \in 0..Len(log)

(* position_states keeps one active row per asset at most, although nothing *)
(* in the schema says so: readers take "the" active row of an asset.        *)
OneActiveState == \A a \in Assets : AtMostOneActive(rows[a])

(* The active rows are the holdings of the snapshot whose positions were    *)
(* committed last: same assets, same quantities, and its cost basis when it *)
(* had one (upsert_position_states, whatever ran in between).               *)
ActiveRowsMatchSnapshot ==
    lastPositions # None =>
        \A a \in Assets :
            IF log[lastPositions][a] = NotHeld THEN ActiveOf(rows[a]) = {}
            ELSE \E i \in ActiveOf(rows[a]) :
                    SamePosition(rows[a][i], log[lastPositions][a])

ClosedRowsKept ==
    \A a \in Assets : \A i \in DOMAIN rows[a] :
        ~rows[a][i].active => i \in DOMAIN rows'[a] /\ rows'[a][i] = rows[a][i]

(* A closed row is history: no step reopens it, edits it or drops it        *)
(* (the UPDATE statements select by row id alone, not by is_active).        *)
ClosedRowsFrozen == [][ClosedRowsKept]_vars

(* A new position row is only inserted when quantity, cost, or active status *)
(* changed: the row before it was closed, and if it was closed by the very   *)
(* same snapshot it differed from the new one.                               *)
InsertOnlyOnChange ==
    \A a \in Assets : \A i \in 2..Len(rows[a]) :
        LET prev == rows[a][i - 1]
            next == rows[a][i]
        IN /\ ~prev.active
           /\ prev.last = next.first => prev.qty # next.qty \/ prev.cost # next.cost

(* An asset's rows tell its history in order: every row covers an interval  *)
(* and the next one starts no earlier than it ends (position_state_changes  *)
(* pairs adjacent rows by first_observed_at).                               *)
TimelineOrdered ==
    \A a \in Assets :
        /\ \A i \in DOMAIN rows[a] : rows[a][i].first <= rows[a][i].last
        /\ \A i \in 2..Len(rows[a]) : rows[a][i - 1].last <= rows[a][i].first

Quiet == /\ \A w \in Writers : pc[w] = "idle"
         /\ \A s \in Servers : queue[s] = <<>>

(* When every writer has finished and reported success, the value row, the  *)
(* weight rows and the events of the days they stored are one observation.  *)
DailyViewCoherent ==
    (Quiet /\ \A w \in Writers : outcome[w] = "stored") =>
        \A w \in Writers :
            LET d == Day(stamp[w])
            IN weights[d] = value[d] /\ events[d] = value[d]

(* A day's value row never goes back to an older observation. *)
ValueNeverRegresses == [][\A d \in Days : value[d] <= value'[d]]_vars
=============================================================================
