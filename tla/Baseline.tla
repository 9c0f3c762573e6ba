------------------------------ MODULE Baseline ------------------------------
(***************************************************************************)
(* The saved portfolio context of a turn: PortfolioBaselineService.load    *)
(* (portfolio_baseline.py) reads the stored history through six tool calls *)
(* and turns it into a bounded packet of evidence, one entry per           *)
(* capability.  A part that cannot be built is left out, with a limitation. *)
(*                                                                         *)
(* Operators only.  A time is a number of quarters of an hour.  What is    *)
(* stored is the record                                                    *)
(*   values    as_of of the value rows, one per day                        *)
(*   weighed   those of them whose weight rows the allocation read returns *)
(*   holdings, cashRows                  sizes of the latest state         *)
(*   clean     the latest state has no data-quality event, warning or gap  *)
(*   moved, changed   assets whose weight moved, whose position changed    *)
(*   spoilt  per list of rows, the place of the first that no packet takes *)
(*   large   the texts make the packet larger than it may be               *)
(* and got says how each tool call ended: "ok" or "raised" (an error result *)
(* without content reads the same).  Abstraction: a capability's summaries *)
(* have one reference each, with the same time, window and quality, so     *)
(* they are one entry with a count; their figures are left out.            *)
(***************************************************************************)
EXTENDS Integers, FiniteSets, Totals

Day == 96
Minutes15 == 1
Hours24 == Day

Reads == {"status", "state", "metrics", "growth", "allocation", "changes"}
Trends == {"portfolio_value_trend_7d", "portfolio_value_trend_30d"}
Capabilities == {"latest_snapshot", "allocation_breakdown", "effective_cash",
                 "top_allocation_changes_7d", "top_position_changes_7d",
                 "history_freshness"} \cup Trends

NoWindow == 0
SummaryCap == 32
AllocationCap == 20
ChangeCap == 10

(* The constructor's arguments it does not refuse, and its defaults. *)
ServiceLimits == [allocation : 1..AllocationCap, change : 1..ChangeCap]
DefaultLimits == [allocation |-> 10, change |-> 5]

Evidence(capability, count, asOf, window, quality) ==
    {[capability |-> capability, count |-> count, asOf |-> asOf,
      window |-> window, quality |-> quality]}

Latest(times) == CHOOSE t \in times : \A u \in times : u <= t

AtMost(n, limit) == IF n < limit THEN n ELSE limit
-----------------------------------------------------------------------------
(* The tool history_status: freshness and depth of the value rows. *)
FreshnessLabel(values, now) ==
    IF values = {} THEN "unknown"
    ELSE IF now - Latest(values) > Hours24 THEN "stale" ELSE "fresh"

HistoryStatus(values, now) ==
    [freshness |-> FreshnessLabel(values, now), shallow |-> Cardinality(values) < 2,
     latest |-> {t \in values : t = Latest(values)}]

(* A label that was not read is not known. *)
NoStatus == [freshness |-> "unknown", shallow |-> TRUE, latest |-> {}]

StatusRead(db, got, now) ==
    IF got["status"] = "ok" THEN HistoryStatus(db.values, now) ELSE NoStatus

HistoryQuality(status) ==
    IF status.freshness = "stale" THEN "stale"
    ELSE IF status.freshness # "fresh" \/ status.shallow THEN "partial"
    ELSE "complete"

(* The snapshot takes its freshness from the history status. *)
CurrentQuality(db, status) ==
    IF status.freshness = "stale" THEN "stale"
    ELSE IF status.freshness # "fresh" \/ ~db.clean THEN "partial"
    ELSE "complete"
-----------------------------------------------------------------------------
AnchorTolerance(days) == IF days = 7 THEN 3 ELSE 5

(* Mutant: a row a little younger than the window will do. *)
NearestAnchor(times, end, days, tolerance) ==
    LET candidates == {t \in times : t < end}
        anchor == Latest(candidates)
    IN IF candidates = {} \/ end - anchor > days + tolerance THEN {} ELSE {anchor}

(* The newest row at least days before the end; not one much older. *)
ComparisonAnchor(times, end, days, tolerance) ==
    LET candidates == {t \in times : t <= end - days}
        anchor == Latest(candidates)
    IN IF candidates = {} \/ end - anchor > days + tolerance THEN {} ELSE {anchor}

Anchor(values, days) ==
    IF values = {} THEN {}
    ELSE ComparisonAnchor(values, Latest(values), days * Day, AnchorTolerance(days) * Day)

HistoryFreshness(status) ==
    UNION {Evidence("history_freshness", 1, t, NoWindow, HistoryQuality(status)) :
              t \in status.latest}

LatestSnapshot(asOf, quality) == Evidence("latest_snapshot", 1, asOf, NoWindow, quality)

(* Mutant: the rows are cut at the packet's cap, not at the service's limit. *)
BreakdownToTheCap(db, asOf, quality, limits) ==
    LET count == db.holdings + db.cashRows
    IN IF count = 0 THEN {}
       ELSE Evidence("allocation_breakdown", AtMost(count, AllocationCap),
                     asOf, NoWindow, quality)

AllocationBreakdown(db, asOf, quality, limits) ==
    LET count == db.holdings + db.cashRows
    IN IF count = 0 THEN {}
       ELSE Evidence("allocation_breakdown", AtMost(count, limits.allocation),
                     asOf, NoWindow, quality)

EffectiveCash(got, asOf, quality) ==
    IF got["metrics"] = "ok"
    THEN Evidence("effective_cash", 1, asOf, NoWindow, quality) ELSE {}

ValueTrend(growth, days, capability, quality) ==
    IF Anchor(growth, days) = {} THEN {}
    ELSE Evidence(capability, 1, Latest(growth), days, quality)

(* A comparison without material change is one summary that says so. *)
Rows(n, limit) == IF n = 0 THEN 1 ELSE AtMost(n, limit)

(* The weight rows of the day of the newest value row and of the anchor's. *)
AllocationChanges(db, growth, got, asOf, quality, limits) ==
    LET anchor == Anchor(growth, 7)
    IN IF got["allocation"] = "ok" /\ anchor # {} /\ Latest(growth) \in db.weighed
              /\ anchor \subseteq db.weighed
       THEN Evidence("top_allocation_changes_7d", Rows(db.moved, limits.change),
                     asOf, 7, quality)
       ELSE {}

PositionChangeRows(db, growth, got, asOf, quality, limits) ==
    IF got["changes"] = "ok" /\ Anchor(growth, 7) # {}
    THEN Evidence("top_position_changes_7d", Rows(db.changed, limits.change),
                  asOf, 7, quality)
    ELSE {}
-----------------------------------------------------------------------------
(* What a packet has once the snapshot was found. *)
SnapshotEvidence(db, got, status, limits) ==
    LET asOf == Latest(db.values)
        quality == CurrentQuality(db, status)
        growth == IF got["growth"] = "ok" THEN db.values ELSE {}
    IN LatestSnapshot(asOf, quality)
       \cup AllocationBreakdown(db, asOf, quality, limits)
       \cup EffectiveCash(got, asOf, quality)
       \cup ValueTrend(growth, 7, "portfolio_value_trend_7d", quality)
       \cup ValueTrend(growth, 30, "portfolio_value_trend_30d", quality)
       \cup AllocationChanges(db, growth, got, asOf, quality, limits)
       \cup PositionChangeRows(db, growth, got, asOf, quality, limits)

HasSnapshot(db, got) == got["state"] = "ok" /\ db.values # {}

(* The evidence of the packet; without a snapshot only its freshness. *)
PacketEvidence(db, got, now, limits) ==
    LET status == StatusRead(db, got, now)
    IN HistoryFreshness(status)
       \cup (IF HasSnapshot(db, got) THEN SnapshotEvidence(db, got, status, limits) ELSE {})

Summaries(evidence) == Total([e \in evidence |-> e.count], evidence)

(* The capabilities that have an entry for each of a list of rows. *)
RowLists == {"allocation_breakdown", "top_allocation_changes_7d", "top_position_changes_7d"}

(* PortfolioBaselinePacket's validator, as to the numbers of its entries. *)
WithinCaps(evidence) ==
    /\ Summaries(evidence) <= SummaryCap
    /\ \A e \in evidence :
          /\ e.capability = "allocation_breakdown" => e.count <= AllocationCap
          /\ e.capability \in {"top_allocation_changes_7d", "top_position_changes_7d"}
                => e.count <= ChangeCap

(* A row's entry is named after its asset.  A row that is shown may not have *)
(* the name of one shown before it (the same asset in a second account, two  *)
(* keys that differ in their punctuation, or after 80 characters), a denied  *)
(* word in its name, or nothing for a label.                                 *)
RowsAreTaken(db, evidence) ==
    \A e \in evidence : e.capability \in RowLists => db.spoilt[e.capability] \notin 1..e.count

(* Whether a packet comes of what was read. *)
PacketBuilds(db, evidence) ==
    WithinCaps(evidence) /\ RowsAreTaken(db, evidence) /\ ~db.large
=============================================================================
