---------------------------- MODULE DashboardView ----------------------------
(***************************************************************************)
(* The stored dashboard: latest_snapshot of PortfolioDataService           *)
(* (portfolio_data_service.py lines 102-125), which is both what GET       *)
(* /api/portfolio/dashboard shows and what a refresh that failed falls     *)
(* back to, read from the database while PortfolioHistory writes it.       *)
(*                                                                         *)
(* It is two tool calls: history_status, from which the freshness label is *)
(* computed, and latest_portfolio_state, four SELECTs (sql_store.py lines  *)
(* 960-1018) outside of any transaction: the newest value row, then its    *)
(* weight rows, the active positions and its events, which nothing below   *)
(* depends on.  snapshot_from_latest_state takes the total from the value  *)
(* row and the holdings and the cash from the weight rows.                 *)
(*                                                                         *)
(* The reader's calls go through a gateway to a server too.  If it is a    *)
(* writer's server, everything sent before the read is executed before it  *)
(* and nothing is executed between the SELECTs; another server process on  *)
(* the file (the CLI, a second gateway) runs beside the writers.           *)
(***************************************************************************)
EXTENDS PortfolioHistory

CONSTANT ReaderServers \* the servers a reader's gateway may lead to

VARIABLES
    at,      \* the server that answers the reader
    phase,   \* what the reader does next, or "shown"
    status,  \* as_of of the newest value row when history_status ran
    view,    \* per table, the observation the reader was given
    kept     \* history: observations whose positions were committed

readerVars == <<at, phase, status, view>>
allVars == <<vars, readerVars, kept>>

NoView == [value |-> None, weights |-> None, positions |-> None]

ViewInit == /\ Init
            /\ at \in ReaderServers
            /\ phase = "idle"
            /\ status = None
            /\ view = NoView
            /\ kept = {}

Latest == CHOOSE t \in {value[d] : d \in Days} : \A d \in Days : value[d] <= t

(* Nothing that was sent to the reader's server before is still to execute. *)
Reaches == IF at \in Servers THEN ~Busy(at) ELSE TRUE
-----------------------------------------------------------------------------
(* Mutant: the two calls are swapped, the state is labelled afterwards. *)
ReadStatusLast ==
    \/ /\ phase = "idle" /\ phase' = "state" /\ UNCHANGED <<vars, at, kept, status, view>>
    \/ /\ phase = "shown" /\ Reaches
       /\ status' = Latest
       /\ UNCHANGED <<vars, at, kept, phase, view>>

(* history_status: SELECT as_of ... ORDER BY as_of DESC, its first row. *)
ReadStatus ==
    /\ phase = "idle" /\ Reaches
    /\ status' = Latest
    /\ phase' = "state"
    /\ UNCHANGED <<vars, at, kept, view>>

(* latest_portfolio_state: without a value row there is no state at all.    *)
(* Nothing is executed between its SELECTs on the writers' own server.      *)
ReadState ==
    /\ phase = "state" /\ at \in Servers /\ Reaches
    /\ view' = IF Latest = None THEN NoView
               ELSE [value |-> Latest, weights |-> weights[Day(Latest)],
                     positions |-> lastPositions]
    /\ phase' = "shown"
    /\ UNCHANGED <<vars, at, kept, status>>

ReadValue ==
    /\ phase = "state" /\ at \notin Servers
    /\ view' = [NoView EXCEPT !.value = Latest]
    /\ phase' = IF Latest = None THEN "shown" ELSE "weights"
    /\ UNCHANGED <<vars, at, kept, status>>

ReadWeights ==
    /\ phase = "weights"
    /\ view' = [view EXCEPT !.weights = weights[Day(view.value)]]
    /\ phase' = "positions"
    /\ UNCHANGED <<vars, at, kept, status>>

(* Mutant: the value row is read again, after the positions. *)
ReadPositionsAndValue ==
    /\ phase = "positions"
    /\ IF view.positions = None
       THEN view' = [view EXCEPT !.positions = lastPositions] /\ UNCHANGED phase
       ELSE view' = [view EXCEPT !.value = Latest] /\ phase' = "shown"
    /\ UNCHANGED <<vars, at, kept, status>>

ReadPositions ==
    /\ phase = "positions"
    /\ view' = [view EXCEPT !.positions = lastPositions]
    /\ phase' = "shown"
    /\ UNCHANGED <<vars, at, kept, status>>

(* The dashboard was shown, or a call failed: the next request starts over. *)
StartOver ==
    /\ phase # "idle"
    /\ phase' = "idle"
    /\ status' = None
    /\ view' = NoView
    /\ UNCHANGED <<vars, at, kept>>
-----------------------------------------------------------------------------
ReaderStep == \/ ReadStatus \/ ReadState \/ ReadValue \/ ReadWeights
              \/ ReadPositions \/ StartOver

(* The store's steps. *)
StoreStep ==
    /\ \/ /\ \E w \in Writers : WriterStep(w)
          /\ UNCHANGED kept
       \/ \E s \in Servers : /\ ServerStep(s)
                             /\ kept' = kept \cup ({lastPositions'} \ {None})
    /\ UNCHANGED readerVars

RestartAll ==
    /\ Restart
    /\ phase' = "idle" /\ status' = None /\ view' = NoView
    /\ UNCHANGED <<at, kept>>

ViewNext == ReaderStep \/ StoreStep \/ RestartAll

ViewSpec == ViewInit /\ [][ViewNext]_allVars
-----------------------------------------------------------------------------
Shown == phase = "shown" /\ view.value # None

(* The active positions the dashboard gets are those of the observation its  *)
(* value row comes from, or of a later one that is being stored, because     *)
(* positions commit before the value row and are read after it; unless the   *)
(* positions call of that observation failed, which the writers notice only  *)
(* once the value row is stored (positions["inserted"], lines 283-285).      *)
PositionsNotOlder ==
    (Shown /\ view.value \in kept) => view.positions >= view.value

(* Freshness is not overstated: the label is computed from a row no newer    *)
(* than the one that is shown.                                               *)
StatusNotNewer == Shown => status <= view.value
=============================================================================
