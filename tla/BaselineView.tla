---------------------------- MODULE BaselineView ----------------------------
(***************************************************************************)
(* The saved context of a chat turn, read while observations are stored:   *)
(* PortfolioBaselineService.load issues its tool calls one after another,  *)
(* each a transaction of its own.  The first two are those of the          *)
(* dashboard (DashboardView); of those that follow, the value history      *)
(* finds the anchor of the comparisons and the position changes since the  *)
(* anchor become rows of the packet.  (Which capabilities a packet offers  *)
(* is module Baseline.)                                                    *)
(*                                                                         *)
(* Scale: seven days and the tolerance of an anchor are AnchorAge and      *)
(* AnchorSlack observations.  The row limits of the reads (64, 512) are    *)
(* not reached.                                                            *)
(***************************************************************************)
EXTENDS DashboardView, PositionChanges

CONSTANTS AnchorAge,  \* the window of the comparisons and of the lookback
          AnchorSlack \* how much older an anchor may be

ASSUME AnchorAssumption == AnchorAge \in Nat \ {0} /\ AnchorSlack \in Nat

VARIABLES
    anchor,   \* the value row the comparisons start from, once it was read
    reported  \* position changes of the covered window, once they were read

loadVars == <<anchor, reported>>
baselineVars == <<allVars, loadVars>>

B == INSTANCE Baseline

BaselineInit == ViewInit /\ anchor = {} /\ reported = {}

ValueTimes == {value[d] : d \in Days} \ {None}
-----------------------------------------------------------------------------
(* What the dashboard alone shows is not needed any more. *)
ReadGrowth ==
    /\ phase = "shown" /\ view.value # None /\ at \in Servers /\ Reaches
    /\ anchor' = B!ComparisonAnchor(ValueTimes, Latest, AnchorAge, AnchorSlack)
    /\ phase' = "changes"
    /\ view' = [NoView EXCEPT !.value = view.value]
    /\ status' = None
    /\ UNCHANGED <<vars, at, kept, reported>>

(* The read is bounded by the snapshot and looks back over the window; the  *)
(* packet keeps what is newer than the anchor.                              *)
CoveredChanges(a) ==
    {c \in InRange(AssetChanges(a, rows[a], FALSE), view.value - AnchorAge, view.value) :
        \A t \in anchor : c.at > t}

(* Mutant: the first change of the window is the one that is shown. *)
FirstChangeRow(a, changes) ==
    LET first == CHOOSE c \in changes : \A d \in changes : c.at <= d.at
    IN [asset |-> a, before |-> first.before, after |-> first.after]

(* An asset's changes become one row, from the first to the last. *)
ChangeRow(a, changes) ==
    LET first == CHOOSE c \in changes : \A d \in changes : c.at <= d.at
        last  == CHOOSE c \in changes : \A d \in changes : c.at >= d.at
    IN [asset |-> a, before |-> first.before, after |-> last.after]

ReadChanges ==
    /\ phase = "changes" /\ Reaches
    /\ reported' = IF anchor = {} THEN {}
                   ELSE {ChangeRow(a, CoveredChanges(a)) :
                            a \in {b \in Assets : CoveredChanges(b) # {}}}
    /\ phase' = "packed"
    /\ UNCHANGED <<vars, at, status, view, kept, anchor>>
-----------------------------------------------------------------------------
DashboardStep ==
    /\ ViewNext
    /\ IF phase' = "idle"
       THEN anchor' = {} /\ reported' = {}
       ELSE UNCHANGED loadVars

BaselineNext == DashboardStep \/ ReadGrowth \/ ReadChanges

BaselineSpec == BaselineInit /\ [][BaselineNext]_baselineVars
-----------------------------------------------------------------------------
Packed == phase = "packed"

(* What the newest observation kept up to a time held of an asset. *)
HeldAt(a, t) ==
    LET past == {o \in kept : o <= t}
        o == B!Latest(past)
    IN IF past = {} \/ log[o][a] = NotHeld THEN {} ELSE {log[o][a].qty}

(* The quantity an asset had when it was last held, up to the snapshot. *)
QuantityHeld(a) ==
    {log[B!Latest({o \in kept : o <= view.value /\ log[o][a] # NotHeld})][a].qty}

(* The quantity an asset had when it was last held before the covered       *)
(* window, or else when it was first held in it.                           *)
QuantityBefore(a) ==
    LET holding == {o \in kept : o <= view.value /\ log[o][a] # NotHeld}
        outside == {o \in holding : o < view.value - AnchorAge \/ \E t \in anchor : o <= t}
        o == IF outside = {} THEN CHOOSE p \in holding : \A r \in holding : p <= r
             ELSE B!Latest(outside)
    IN {log[o][a].qty}

(* An asset was held again in an observation that was stored later. *)
HeldLater(a, t) == \E o \in kept : o > t /\ log[o][a] # NotHeld

(* A reported change starts with the quantity last held before the covered  *)
(* window and ends with that of the snapshot (_add_position_changes),       *)
(* whatever was observed between, and whatever is stored during the load.   *)
(* Only a position that was gone by the snapshot, and was held again by     *)
(* what was stored since, ends with the quantity it had before it went: the *)
(* closing of a row is a change of the last row alone.                      *)
ReportedChangesTrue ==
    Packed =>
        \A r \in reported :
            LET now == HeldAt(r.asset, view.value)
            IN /\ r.before = QuantityBefore(r.asset)
               /\ \/ r.after = now
                  \/ /\ now = {} /\ HeldLater(r.asset, view.value)
                     /\ r.after = QuantityHeld(r.asset)

(* The rows of an asset tell its present: replayed from the first           *)
(* observation on, its changes end with what the last kept one held.        *)
ChangesReplay ==
    lastPositions # None =>
        \A a \in Assets :
            LET changes == AssetChanges(a, rows[a], TRUE)
                last == CHOOSE c \in changes : \A d \in changes : c.at >= d.at
            IN IF changes = {} THEN HeldAt(a, lastPositions) = {}
               ELSE last.after = HeldAt(a, lastPositions)
=============================================================================
