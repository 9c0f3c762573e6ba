--------------------------- MODULE PositionStates ---------------------------
(***************************************************************************)
(* The rows of the position_states table, for one asset of one portfolio   *)
(* and account, and what upsert_position_states does to them (sql_store.py *)
(* lines 326-475).  The table has no uniqueness constraint beyond the row  *)
(* id, so an asset's rows are a sequence in insertion order and the index  *)
(* of a row stands for its position_state_id (a fresh uuid).               *)
(*                                                                         *)
(* Abstraction: a quantity stands for a quantity with its side (the side   *)
(* defaults to the sign of the quantity); market price, value and P&L are  *)
(* left out, being rewritten together with last_observed_at.               *)
(***************************************************************************)
EXTENDS Naturals, Sequences

CONSTANTS Quantities, \* quantities a holding may have
          Costs,      \* cost bases OpenD may report for a holding
          NoBasis     \* "the source row has no cost basis": the price is used

ASSUME CostAssumption == NoBasis \notin Costs

(* What a snapshot and its source report say of one held asset. *)
Holding == [qty : Quantities, cost : Costs \cup {NoBasis}]

Row == [qty : Quantities, cost : Costs \cup {NoBasis},
        first : Nat, last : Nat, active : BOOLEAN]

ActiveOf(rows) == {i \in DOMAIN rows : rows[i].active}

(* Mutant: the SELECT forgets AND is_active = 1. *)
SelectNewest(rows) ==
    IF rows = <<>> THEN {{}}
    ELSE {{i} : i \in {k \in DOMAIN rows :
                          \A j \in DOMAIN rows : rows[j].first <= rows[k].first}}

(* The results SELECT ... WHERE is_active = 1 ORDER BY first_observed_at     *)
(* DESC LIMIT 1 may have: no row, or the newest of the active ones.         *)
SelectActive(rows) ==
    IF ActiveOf(rows) = {} THEN {{}}
    ELSE {{i} : i \in {k \in ActiveOf(rows) :
                          \A j \in ActiveOf(rows) : rows[j].first <= rows[k].first}}

(* A source without a cost basis keeps the cost of the active row. *)
EffectiveCost(row, h) == IF h.cost = NoBasis THEN row.cost ELSE h.cost

(* Mutant: a missing cost basis counts as a different cost. *)
SameReported(row, h) == row.qty = h.qty /\ row.cost = h.cost

SamePosition(row, h) == /\ row.qty = h.qty
                        /\ row.cost = EffectiveCost(row, h)

OpenRow(qty, cost, t) ==
    [qty |-> qty, cost |-> cost, first |-> t, last |-> t, active |-> TRUE]

(* Mutant: the UPDATE of an omitted position leaves is_active alone. *)
StampRows(rows, closed, t) ==
    [i \in DOMAIN rows |-> IF i \in closed THEN [rows[i] EXCEPT !.last = t] ELSE rows[i]]

CloseRows(rows, closed, t) ==
    [i \in DOMAIN rows |->
        IF i \in closed THEN [rows[i] EXCEPT !.active = FALSE, !.last = t]
                        ELSE rows[i]]

(* Mutant: a row seen again also gets a new first_observed_at. *)
RestartRow(rows, i, t) == [rows EXCEPT ![i].first = t]

TouchRow(rows, i, t) == [rows EXCEPT ![i].last = t]

(* The index in a SELECT's non-empty result. *)
Fetched(picked) == CHOOSE i \in picked : TRUE

(* The UPDATE of the row seen again, or the UPDATE that closes it and the *)
(* INSERT of its successor.                                               *)
ReviseRow(rows, i, h, t) ==
    IF SamePosition(rows[i], h)
    THEN TouchRow(rows, i, t)
    ELSE Append(CloseRows(rows, {i}, t), OpenRow(h.qty, EffectiveCost(rows[i], h), t))

(* One holding of a snapshot taken at t; picked is what the SELECT of the *)
(* active row returned: {} or the index of one row.                       *)
UpsertHolding(rows, picked, h, t) ==
    IF picked = {} THEN Append(rows, OpenRow(h.qty, h.cost, t))
                   ELSE ReviseRow(rows, Fetched(picked), h, t)

(* At most one row of an asset is active. *)
AtMostOneActive(rows) ==
    \A i, j \in ActiveOf(rows) : i = j
=============================================================================
