-------------------------- MODULE PositionChanges --------------------------
(***************************************************************************)
(* Reading the history of a position back: position_state_changes of       *)
(* sql_store.py (lines 1069-1151 and 1374-1564) pairs the adjacent rows of *)
(* an asset and reports how each differs from the one before.              *)
(*                                                                         *)
(* A quantity that is not there (None) is the empty set, one that is there *)
(* a singleton.  Abstraction: the cost figures of a change (basis, implied *)
(* price of the added shares) follow from its two rows and are left out,   *)
(* as is the wording of its warnings.                                      *)
(***************************************************************************)
EXTENDS PositionStates, Integers, FiniteSets

Change(a, at, type, before, after) ==
    [asset |-> a, at |-> at, type |-> type, before |-> before, after |-> after]

(* ORDER BY p.first_observed_at, p.last_observed_at; of rows that tie, the  *)
(* one stored first.                                                        *)
Precedes(rows, i, k) ==
    \/ rows[i].first < rows[k].first
    \/ /\ rows[i].first = rows[k].first
       /\ rows[i].last < rows[k].last \/ (rows[i].last = rows[k].last /\ i < k)

InTimeOrder(rows) ==
    LET before(k) == {i \in DOMAIN rows : Precedes(rows, i, k)}
    IN [n \in DOMAIN rows |->
           rows[CHOOSE k \in DOMAIN rows : Cardinality(before(k)) = n - 1]]

(* The side of a position is the sign of its quantity (see PositionStates). *)
ChangeType(before, after) ==
    IF (before.qty < 0) # (after.qty < 0) THEN "side_changed"
    ELSE IF before.qty # after.qty /\ before.cost # after.cost
         THEN "quantity_and_average_cost_changed"
    ELSE IF before.qty < after.qty THEN "quantity_increased"
    ELSE IF before.qty > after.qty THEN "quantity_decreased"
    ELSE IF before.cost # after.cost THEN "average_cost_changed"
    ELSE "state_changed"

DeltaChange(a, before, after) ==
    Change(a, after.first, ChangeType(before, after), {before.qty}, {after.qty})

InitialChange(a, row) == Change(a, row.first, "initial_observation", {}, {row.qty})

ClosedChange(a, row) == Change(a, row.last, "closed_or_missing", {row.qty}, {})

(* Mutant: every closed row is reported, not only an asset's last one. *)
AllClosed(a, ordered) ==
    {ClosedChange(a, ordered[i]) : i \in {k \in DOMAIN ordered : ~ordered[k].active}}

(* A position is reported closed if its last row is. *)
Closed(a, ordered) ==
    {ClosedChange(a, ordered[i]) :
        i \in {k \in DOMAIN ordered : k = Len(ordered) /\ ~ordered[k].active}}

(* The changes of one asset, from its rows; initial: the first row counts. *)
AssetChanges(a, rows, initial) ==
    LET ordered == InTimeOrder(rows)
    IN {DeltaChange(a, ordered[i - 1], ordered[i]) : i \in 2..Len(ordered)}
       \cup Closed(a, ordered)
       \cup (IF initial /\ rows # <<>> THEN {InitialChange(a, ordered[1])} ELSE {})

InRange(changes, since, until) == {c \in changes : since <= c.at /\ c.at <= until}
=============================================================================
