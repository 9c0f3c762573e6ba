------------------------- MODULE OpenDSnapshotProofs -------------------------
(***************************************************************************)
(* Theorems about OpenDSnapshot: what is shown from the saved rows is what  *)
(* the broker had, and saving a snapshot and reading it back loses nothing  *)
(* the metrics look at.                                                     *)
(***************************************************************************)
EXTENDS OpenDSnapshot, SumTheorems

CashIds == {"literal", "sweep"}

CashTypes == {"cash", "cash_sweep"}

(* A snapshot as the store takes it: holdings of broker codes with the three *)
(* asset types, cash under its ids.                                          *)
Storable(s) ==
    /\ s.holdings = [a \in DOMAIN s.holdings |->
                        [value  |-> s.holdings[a].value,
                         type   |-> s.holdings[a].type,
                         weight |-> s.holdings[a].weight]]
    /\ DOMAIN s.holdings \subseteq Assets
    /\ \A a \in DOMAIN s.holdings : s.holdings[a].type \in AssetTypes
    /\ s.cash = [c \in DOMAIN s.cash |->
                    [amount |-> s.cash[c].amount, weight |-> s.cash[c].weight]]
    /\ DOMAIN s.cash \subseteq CashIds

HoldingRow(s, a) ==
    [asset |-> a, type |-> s.holdings[a].type, value |-> s.holdings[a].value,
     weight |-> s.holdings[a].weight]

CashRow(s, c) ==
    [asset  |-> c, type |-> IF c = "sweep" THEN "cash_sweep" ELSE "cash",
     value  |-> s.cash[c].amount, weight |-> s.cash[c].weight]

(* The weight rows of a snapshot, and which of them are cash.                *)
LEMMA RowsResult ==
    ASSUME NEW s, Storable(s)
    PROVE  /\ WeightRows(s) = {HoldingRow(s, a) : a \in DOMAIN s.holdings}
                              \cup {CashRow(s, c) : c \in DOMAIN s.cash}
           /\ \A a \in DOMAIN s.holdings :
                  /\ HoldingRow(s, a).type \notin CashTypes
                  /\ HoldingRow(s, a).asset = a
                  /\ a \notin CashIds
           /\ \A c \in DOMAIN s.cash :
                  /\ CashRow(s, c).type \in CashTypes
                  /\ CashRow(s, c).asset = c
                  /\ c \in CashIds
<1>1. WeightRows(s) = {HoldingRow(s, a) : a \in DOMAIN s.holdings}
                              \cup {CashRow(s, c) : c \in DOMAIN s.cash}
  BY DEF WeightRows, HoldingRow, CashRow
<1>2. \A a \in DOMAIN s.holdings :
          /\ HoldingRow(s, a).type \notin CashTypes
          /\ HoldingRow(s, a).asset = a
          /\ a \notin CashIds
  BY OpenDAssumption DEF Storable, HoldingRow, AssetTypes, CashTypes, CashIds
<1>3. \A c \in DOMAIN s.cash :
          /\ CashRow(s, c).type \in CashTypes
          /\ CashRow(s, c).asset = c
          /\ c \in CashIds
  BY DEF Storable, CashRow, CashTypes, CashIds
<1> QED
  BY <1>1, <1>2, <1>3

(* Rows read back are the cash that was saved ...                            *)
LEMMA CashReadBack ==
    ASSUME NEW s, Storable(s)
    PROVE  CashRows(WeightRows(s)) = s.cash
<1> DEFINE rs == WeightRows(s)
           ofCash == {w.asset : w \in {v \in rs : v.type \in CashTypes}}
           RowOf(c) == CHOOSE w \in rs : w.asset = c
<1>1. ofCash = DOMAIN s.cash
  BY RowsResult
<1>2. ASSUME NEW c \in DOMAIN s.cash
      PROVE  RowOf(c) = CashRow(s, c)
  BY <1>2, RowsResult
<1>3. CashRows(rs) = [c \in ofCash |->
                        [amount |-> RowOf(c).value, weight |-> RowOf(c).weight]]
  BY DEF CashRows, CashTypes
<1>4. \A c \in DOMAIN s.cash :
          CashRow(s, c).value = s.cash[c].amount
          /\ CashRow(s, c).weight = s.cash[c].weight
  BY DEF CashRow
<1> HIDE DEF ofCash, RowOf, rs
<1>5. CashRows(rs) = [c \in DOMAIN s.cash |->
                        [amount |-> s.cash[c].amount, weight |-> s.cash[c].weight]]
  BY <1>1, <1>2, <1>3, <1>4
<1>6. CashRows(rs) = s.cash
  BY <1>5 DEF Storable
<1> QED
  BY <1>6 DEF rs

(* ... and the holdings.                                                     *)
LEMMA HoldingsReadBack ==
    ASSUME NEW s, Storable(s), NEW stored, stored.weights = WeightRows(s)
    PROVE  ReadBack(stored).holdings = s.holdings
<1> DEFINE held == {w \in stored.weights : w.type \notin CashTypes}
           RowOf(a) == CHOOSE w \in held : w.asset = a
<1>1. held = {HoldingRow(s, a) : a \in DOMAIN s.holdings}
  BY RowsResult
<1>2. {w.asset : w \in held} = DOMAIN s.holdings
  BY <1>1, RowsResult
<1>3. ASSUME NEW a \in DOMAIN s.holdings
      PROVE  RowOf(a) = HoldingRow(s, a)
  BY <1>1, <1>3, RowsResult
<1>4. ReadBack(stored).holdings =
          [a \in {w.asset : w \in held} |->
              [value |-> RowOf(a).value, type |-> RowOf(a).type,
               weight |-> RowOf(a).weight]]
  BY DEF ReadBack, CashTypes
<1>5. \A a \in DOMAIN s.holdings :
          /\ HoldingRow(s, a).value = s.holdings[a].value
          /\ HoldingRow(s, a).type = s.holdings[a].type
          /\ HoldingRow(s, a).weight = s.holdings[a].weight
  BY DEF HoldingRow
<1> HIDE DEF held, RowOf
<1>6. ReadBack(stored).holdings =
          [a \in DOMAIN s.holdings |->
              [value |-> s.holdings[a].value, type |-> s.holdings[a].type,
               weight |-> s.holdings[a].weight]]
  BY <1>2, <1>3, <1>4, <1>5
<1> QED
  BY <1>6 DEF Storable

(* A snapshot of positions the broker listed can be stored.                  *)
LEMMA SnapshotStorable ==
    ASSUME NEW r, DOMAIN r.positions \subseteq Assets
    PROVE  Storable(Snapshot(r))
<1> DEFINE s == Snapshot(r)
<1>1. s.holdings = [a \in DOMAIN r.positions |->
                     [value |-> MarketValues(r)[a], type |-> AssetType(r, a),
                      weight |-> Weight(MarketValues(r)[a], TotalValue(r))]]
  BY DEF Snapshot
<1>2. s.cash = [c \in {"literal"} \cup
                      (IF SweepValue(r) > 0 THEN {"sweep"} ELSE {})
                 |-> Cash(IF c = "sweep" THEN SweepValue(r)
                          ELSE FirstGiven(r, CashFields, 0), TotalValue(r))]
  BY DEF Snapshot
<1>3. \A a \in DOMAIN r.positions : AssetType(r, a) \in AssetTypes
  BY OpenDAssumption DEF AssetType
<1> HIDE DEF s
<1>4. /\ DOMAIN s.holdings \subseteq Assets
      /\ \A a \in DOMAIN s.holdings : s.holdings[a].type \in AssetTypes
  BY <1>1, <1>3
<1>5. s.holdings = [a \in DOMAIN s.holdings |->
                        [value  |-> s.holdings[a].value,
                         type   |-> s.holdings[a].type,
                         weight |-> s.holdings[a].weight]]
  BY <1>1
<1>6. /\ DOMAIN s.cash \subseteq CashIds
      /\ s.cash = [c \in DOMAIN s.cash |->
                    [amount |-> s.cash[c].amount, weight |-> s.cash[c].weight]]
  BY <1>2 DEF Cash, CashIds
<1>7. Storable(s)
  BY <1>4, <1>5, <1>6 DEF Storable
<1> QED
  BY <1>7 DEF s
-----------------------------------------------------------------------------
(* The tables that the account gives, with some fields of the funds and some *)
(* market values lost.                                                       *)
FundsTable(f, lost) ==
    [x \in FundsFields |-> IF x \in lost THEN NotGiven ELSE FundsRow(f)[x]]

Held(f) == {a \in Assets : f[a] # 0}

PositionsTable(f, lost) ==
    [a \in Held(f) |-> IF a \in lost THEN NotGiven ELSE f[a]]

RowsOf(s, r) ==
    [value |-> ValueRow(s, r), weights |-> WeightRows(s), events |-> EventRows(s)]

(* Each thing made on the way is made of what was read before it.            *)
FundsUnread == {"connect", "accounts", "funds"}

PositionsUnread == FundsUnread \cup {"positions"}

FundsTrue ==
    /\ pc \in FundsUnread => report.funds = NoTable
    /\ \/ report.funds \in {NoTable, NoRow}
       \/ \E lost \in SUBSET FundsFields : report.funds = FundsTable(fundsAt, lost)

PositionsTrue ==
    /\ pc \in PositionsUnread => report.positions = NoTable
    /\ \/ report.positions = NoTable
       \/ \E lost \in SUBSET Held(positionsAt) :
              report.positions = PositionsTable(positionsAt, lost)

SnapshotTrue ==
    pc \in {"store", "stored"} =>
        report.positions # NoTable /\ snapshot = Snapshot(report)

RowsTrue == pc = "stored" => rows = RowsOf(snapshot, report)

ReportShape ==
    report = [funds |-> report.funds, positions |-> report.positions,
              quotes |-> report.quotes, warnings |-> report.warnings]

ObservationInv ==
    ReportShape /\ FundsTrue /\ PositionsTrue /\ SnapshotTrue /\ RowsTrue

LEMMA ObservationInit ==
    OpenDInit => ObservationInv
BY DEF OpenDInit, ObservationInv, ReportShape, FundsTrue, PositionsTrue,
       SnapshotTrue, RowsTrue

(* A snapshot is a matter of the report and of how funds are to be taken.    *)
LEMMA SnapshotAgain ==
    ASSUME report' = report, sweep' = sweep
    PROVE  Snapshot(report)' = Snapshot(report)
BY DEF Snapshot, TotalValue, SweepValue, FundNote, MarketValues

(* Tables that were read stay what they are.                                 *)
LEMMA FundsKept ==
    ASSUME FundsTrue, report'.funds = report.funds, fundsAt' = fundsAt,
           pc' \in FundsUnread => pc \in FundsUnread
    PROVE  FundsTrue'
BY DEF FundsTrue, FundsTable, FundsUnread

LEMMA PositionsKept ==
    ASSUME PositionsTrue, report'.positions = report.positions,
           positionsAt' = positionsAt,
           pc' \in PositionsUnread => pc \in PositionsUnread
    PROVE  PositionsTrue'
BY DEF PositionsTrue, PositionsTable, Held, PositionsUnread, FundsUnread

(* Every step of the observation and of the account keeps it so.             *)
LEMMA ObservationStep ==
    ASSUME ObservationInv, [Observe \/ AccountMoves]_vars
    PROVE  ObservationInv'
<1> USE DEF ObservationInv
<1>1. CASE CheckConnection
  BY <1>1 DEF CheckConnection, Go, Warn, ReportShape, FundsTrue, PositionsTrue,
       SnapshotTrue, RowsTrue, FundsUnread, PositionsUnread
<1>2. CASE GetAccountList
  BY <1>2 DEF GetAccountList, Go, Warn, ReportShape, FundsTrue, PositionsTrue,
       SnapshotTrue, RowsTrue, FundsUnread, PositionsUnread
<1>3. CASE GetAccountFunds
  <2>1. pc = "funds" /\ pc' = "positions" /\ fundsAt' = account
        /\ UNCHANGED <<account, positionsAt>>
    BY <1>3 DEF GetAccountFunds, Go
  <2>2. report'.positions = report.positions /\ ReportShape'
    BY <1>3 DEF GetAccountFunds, Warn, ReportShape
  <2>3. \/ \E lost \in SUBSET FundsFields : report'.funds = FundsTable(account, lost)
        \/ report'.funds = NoRow
        \/ report'.funds = report.funds
    BY <1>3 DEF GetAccountFunds, Warn, ReportShape, FundsTable
  <2>4. report.funds = NoTable /\ report.positions = NoTable
    BY <2>1 DEF FundsTrue, PositionsTrue, FundsUnread, PositionsUnread
  <2>5. \/ \E lost \in SUBSET FundsFields : report'.funds = FundsTable(fundsAt', lost)
        \/ report'.funds \in {NoTable, NoRow}
    BY <2>1, <2>3, <2>4
  <2>6. FundsTrue'
    BY <2>1, <2>5 DEF FundsTrue, FundsUnread, PositionsUnread, FundsTable, FundsRow
  <2>7. PositionsTrue'
    BY <2>1, <2>2, <2>4 DEF PositionsTrue, FundsUnread, PositionsUnread
  <2> QED
    BY <2>1, <2>2, <2>6, <2>7 DEF SnapshotTrue, RowsTrue
<1>4. CASE GetPositions
  <2>1. pc = "positions" /\ pc' = "quotes" /\ positionsAt' = account
        /\ UNCHANGED <<account, fundsAt>>
    BY <1>4 DEF GetPositions, Go
  <2>2. report'.funds = report.funds /\ ReportShape'
    BY <1>4 DEF GetPositions, Warn, ReportShape
  <2>3. \/ report'.positions = report.positions
        \/ \E lost \in SUBSET Held(account) :
               report'.positions = PositionsTable(account, lost)
    BY <1>4 DEF GetPositions, Warn, ReportShape, PositionsTable, Held
  <2>4. report.positions = NoTable
    BY <2>1 DEF PositionsTrue, PositionsUnread
  <2>5. PositionsTrue'
    BY <2>1, <2>3, <2>4
       DEF PositionsTrue, FundsUnread, PositionsUnread, PositionsTable, Held
  <2>6. FundsTrue'
    BY <2>1, <2>2, FundsKept DEF FundsUnread
  <2> QED
    BY <2>1, <2>2, <2>5, <2>6 DEF SnapshotTrue, RowsTrue
<1>5. CASE GetMarketSnapshots
  <2>1. pc = "quotes" /\ pc' = "build" /\ UNCHANGED <<fundsAt, positionsAt>>
    BY <1>5 DEF GetMarketSnapshots, Go
  <2>2. /\ report'.funds = report.funds
        /\ report'.positions = report.positions
        /\ ReportShape'
    BY <1>5 DEF GetMarketSnapshots, Warn, ReportShape
  <2>3. FundsTrue'
    BY <2>1, <2>2, FundsKept DEF FundsUnread
  <2>4. PositionsTrue'
    BY <2>1, <2>2, PositionsKept DEF FundsUnread, PositionsUnread
  <2> QED
    BY <2>1, <2>2, <2>3, <2>4 DEF SnapshotTrue, RowsTrue
<1>6. CASE BuildSnapshot
  <2>1. pc = "build" /\ UNCHANGED <<sweep, report, fundsAt, positionsAt>>
    BY <1>6 DEF BuildSnapshot
  <2>2. \/ pc' = "failed"
        \/ /\ pc' = "store"
           /\ report.positions # NoTable
           /\ snapshot' = Snapshot(report)
    BY <1>6 DEF BuildSnapshot
  <2>3. SnapshotTrue' /\ RowsTrue'
    BY <2>1, <2>2, SnapshotAgain DEF SnapshotTrue, RowsTrue
  <2>4. FundsTrue'
    BY <2>1, <2>2, FundsKept DEF FundsUnread
  <2>5. PositionsTrue'
    BY <2>1, <2>2, PositionsKept DEF FundsUnread, PositionsUnread
  <2>6. ReportShape'
    BY <2>1, <2>2 DEF ReportShape
  <2> QED
    BY <2>3, <2>4, <2>5, <2>6
<1>7. CASE StoreObservation
  <2>1. /\ pc = "store" /\ pc' = "stored"
        /\ UNCHANGED <<sweep, report, fundsAt, positionsAt, snapshot>>
        /\ rows' = RowsOf(snapshot, report)
    BY <1>7 DEF StoreObservation, RowsOf
  <2>2. SnapshotTrue'
    BY <2>1, SnapshotAgain DEF SnapshotTrue
  <2>3. RowsTrue'
    BY <2>1 DEF RowsTrue
  <2>4. FundsTrue'
    BY <2>1, FundsKept DEF FundsUnread
  <2>5. PositionsTrue'
    BY <2>1, PositionsKept DEF FundsUnread, PositionsUnread
  <2>6. ReportShape'
    BY <2>1 DEF ReportShape
  <2> QED
    BY <2>2, <2>3, <2>4, <2>5, <2>6
<1>8. CASE AccountMoves \/ UNCHANGED vars
  <2>1. UNCHANGED observer
    BY <1>8 DEF AccountMoves, vars, observer
  <2>2. SnapshotTrue'
    BY <2>1, SnapshotAgain DEF SnapshotTrue, observer
  <2>3. FundsTrue'
    BY <2>1, FundsKept DEF observer
  <2>4. PositionsTrue'
    BY <2>1, PositionsKept DEF observer
  <2>5. ReportShape' /\ RowsTrue'
    BY <2>1 DEF observer, ReportShape, RowsTrue
  <2> QED
    BY <2>2, <2>3, <2>4, <2>5
<1> QED
  BY <1>1, <1>2, <1>3, <1>4, <1>5, <1>6, <1>7, <1>8 DEF Observe

THEOREM ObservationInvariant == OpenDSpec => []ObservationInv
<1>1. OpenDInit => ObservationInv
  BY ObservationInit
<1>2. ObservationInv /\ [Observe \/ AccountMoves]_vars => ObservationInv'
  BY ObservationStep
<1> QED
  BY <1>1, <1>2, PTL DEF OpenDSpec
-----------------------------------------------------------------------------
(* The first given of one and of two fields.                                 *)
LEMMA FirstOfOne ==
    ASSUME NEW r, NEW x, NEW default
    PROVE  FirstGiven(r, <<x>>, default) =
               IF Given(r, x) THEN r.funds[x] ELSE default
<1> DEFINE fields == <<x>>
           given == {i \in DOMAIN fields : Given(r, fields[i])}
<1>1. DOMAIN fields = {1} /\ fields[1] = x
  OBVIOUS
<1>2. CASE Given(r, x)
  <2>1. given = {1}
    BY <1>1, <1>2
  <2>2. Min(given) = 1
    BY <2>1 DEF Min
  <2> QED
    BY <1>1, <1>2, <2>2 DEF FirstGiven
<1>3. CASE ~Given(r, x)
  BY <1>1, <1>3 DEF FirstGiven
<1> QED
  BY <1>2, <1>3

LEMMA FirstOfTotal ==
    ASSUME NEW r, Given(r, "total"), NEW default
    PROVE  FirstGiven(r, TotalFields, default) = r.funds["total"]
<1> DEFINE given == {i \in DOMAIN TotalFields : Given(r, TotalFields[i])}
<1>1. DOMAIN TotalFields = {1, 2} /\ TotalFields[1] = "total"
  BY DEF TotalFields
<1>2. 1 \in given /\ given \subseteq {1, 2}
  BY <1>1
<1>3. Min(given) = 1
  <2>1. given = {1} \/ given = {1, 2}
    BY <1>2
  <2>2. Min({1}) = 1
    BY DEF Min
  <2>3. Min({1, 2}) = 1
    BY DEF Min
  <2> QED
    BY <2>1, <2>2, <2>3
<1> QED
  BY <1>1, <1>2, <1>3 DEF FirstGiven

LEMMA FirstOfCash ==
    ASSUME NEW r, NEW default
    PROVE  /\ Given(r, "cash") =>
                  FirstGiven(r, CashFields, default) = r.funds["cash"]
           /\ ~Given(r, "cash") /\ Given(r, "spendable") =>
                  FirstGiven(r, CashFields, default) = r.funds["spendable"]
           /\ ~Given(r, "cash") /\ ~Given(r, "spendable") =>
                  FirstGiven(r, CashFields, default) = default
<1> DEFINE given == {i \in DOMAIN CashFields : Given(r, CashFields[i])}
<1>1. /\ DOMAIN CashFields = {1, 2}
      /\ CashFields[1] = "cash" /\ CashFields[2] = "spendable"
  BY DEF CashFields
<1>2. Min({1}) = 1 /\ Min({2}) = 2 /\ Min({1, 2}) = 1
  BY DEF Min
<1>3. CASE Given(r, "cash")
  <2>1. 1 \in given /\ (given = {1} \/ given = {1, 2})
    BY <1>1, <1>3
  <2>2. Min(given) = 1
    BY <1>2, <2>1
  <2> QED
    BY <1>1, <1>3, <2>1, <2>2 DEF FirstGiven
<1>4. CASE ~Given(r, "cash") /\ Given(r, "spendable")
  <2>1. given = {2}
    BY <1>1, <1>4
  <2>2. Min(given) = 2
    BY <1>2, <2>1
  <2> QED
    BY <1>1, <1>4, <2>1, <2>2 DEF FirstGiven
<1>5. CASE ~Given(r, "cash") /\ ~Given(r, "spendable")
  BY <1>1, <1>5 DEF FirstGiven
<1> QED
  BY <1>3, <1>4, <1>5

(* What is stored, in terms of the tables.                                   *)
LEMMA StoredResult ==
    ASSUME ObservationInv, Stored
    PROVE  /\ Storable(snapshot)
           /\ snapshot = Snapshot(report)
           /\ rows = RowsOf(snapshot, report)
           /\ \E lost \in SUBSET Held(positionsAt) :
                  report.positions = PositionsTable(positionsAt, lost)
           /\ ReadBack(rows).cash = snapshot.cash
           /\ ReadBack(rows).holdings = snapshot.holdings
           /\ ReadBack(rows).total = rows.value.total_assets
<1>1. /\ snapshot = Snapshot(report)
      /\ rows = RowsOf(snapshot, report)
      /\ \E lost \in SUBSET Held(positionsAt) :
             report.positions = PositionsTable(positionsAt, lost)
  BY DEF ObservationInv, Stored, SnapshotTrue, RowsTrue, PositionsTrue
<1>2. Storable(snapshot)
  BY <1>1, SnapshotStorable DEF PositionsTable, Held
<1>3. rows.weights = WeightRows(snapshot)
  BY <1>1 DEF RowsOf
<1>4. ReadBack(rows).cash = CashRows(rows.weights)
      /\ ReadBack(rows).total = rows.value.total_assets
  BY DEF ReadBack
<1> QED
  BY <1>1, <1>2, <1>3, <1>4, CashReadBack, HoldingsReadBack

(* What is shown, of one observation.                                        *)
LEMMA RealInObservation ==
    ObservationInv => ShownIsReal
<1> SUFFICES ASSUME ObservationInv, Stored, rows.events \subseteq FundNotes
             PROVE  LET shown == ReadBack(rows) IN
                    /\ \A a \in Assets :
                           IF a \in DOMAIN shown.holdings
                           THEN \/ shown.holdings[a].value = positionsAt[a]
                                \/ /\ shown.holdings[a].value = 0
                                   /\ report.positions[a] = NotGiven
                           ELSE positionsAt[a] = 0
                    /\ \/ shown.cash["literal"].amount = fundsAt["cash"]
                       \/ /\ shown.cash["literal"].amount = Spendable
                          /\ ~Given(report, "cash")
                    /\ Given(report, "total") => shown.total = Total(fundsAt, Pockets)
  BY DEF ShownIsReal
<1>1. /\ snapshot = Snapshot(report)
      /\ rows = RowsOf(snapshot, report)
      /\ ReadBack(rows).cash = snapshot.cash
      /\ ReadBack(rows).holdings = snapshot.holdings
      /\ ReadBack(rows).total = rows.value.total_assets
  BY StoredResult
<1> PICK lost \in SUBSET Held(positionsAt) :
        report.positions = PositionsTable(positionsAt, lost)
  BY StoredResult
<1>2. MissingFields(report) \subseteq FundNotes
  <2>1. rows.events = snapshot.missing \cup snapshot.warnings
    BY <1>1 DEF RowsOf, EventRows
  <2>2. snapshot.missing = MissingFields(report)
    BY <1>1 DEF Snapshot
  <2> QED
    BY <2>1, <2>2
<1>3. HasRow(report) /\ (Given(report, "cash") \/ Given(report, "spendable"))
  <2>1. HasRow(report)
    BY <1>2 DEF MissingFields, FundNotes, HasRow
  <2>2. \E i \in DOMAIN CashFields : Given(report, CashFields[i])
    BY <1>2, <2>1 DEF MissingFields, FundNotes
  <2> QED
    BY <2>1, <2>2 DEF CashFields
<1>4. \A x \in FundsFields : Given(report, x) => report.funds[x] = FundsRow(fundsAt)[x]
  BY <1>3 DEF ObservationInv, FundsTrue, HasRow, Given, FundsTable
<1>5. \A a \in Assets :
          IF a \in DOMAIN snapshot.holdings
          THEN \/ snapshot.holdings[a].value = positionsAt[a]
               \/ /\ snapshot.holdings[a].value = 0
                  /\ report.positions[a] = NotGiven
          ELSE positionsAt[a] = 0
  <2>1. /\ DOMAIN report.positions = Held(positionsAt)
        /\ \A a \in Held(positionsAt) :
               report.positions[a] = NotGiven \/ report.positions[a] = positionsAt[a]
    BY DEF PositionsTable
  <2>2. /\ DOMAIN snapshot.holdings = DOMAIN report.positions
        /\ \A a \in DOMAIN report.positions :
               snapshot.holdings[a].value = MarketValues(report)[a]
    BY <1>1 DEF Snapshot
  <2>3. \A a \in DOMAIN report.positions :
            MarketValues(report)[a] =
                IF report.positions[a] = NotGiven THEN 0 ELSE report.positions[a]
    BY DEF MarketValues
  <2> QED
    BY <2>1, <2>2, <2>3 DEF Held
<1>6. \/ snapshot.cash["literal"].amount = fundsAt["cash"]
      \/ /\ snapshot.cash["literal"].amount = Spendable
         /\ ~Given(report, "cash")
  <2>1. snapshot.cash["literal"].amount = FirstGiven(report, CashFields, 0)
    BY <1>1 DEF Snapshot, Cash
  <2>2. /\ Given(report, "cash") => report.funds["cash"] = fundsAt["cash"]
        /\ Given(report, "spendable") => report.funds["spendable"] = Spendable
    BY <1>4 DEF FundsRow, FundsFields
  <2> QED
    BY <1>3, <2>1, <2>2, FirstOfCash
<1>7. ASSUME Given(report, "total")
      PROVE  rows.value.total_assets = Total(fundsAt, Pockets)
  <2>1. rows.value.total_assets = FirstGiven(report, <<"total">>, snapshot.total)
    BY <1>1 DEF RowsOf, ValueRow
  <2>2. rows.value.total_assets = report.funds["total"]
    BY <1>7, <2>1, FirstOfOne
  <2> QED
    BY <1>4, <1>7, <2>2 DEF FundsRow, FundsFields
<1> QED
  BY <1>1, <1>5, <1>6, <1>7

(* What is shown from the saved rows (snapshot_from_latest_state) is what the*)
(* broker had: positions, cash and reported total as they were read, or a gap*)
(* is recorded; only a market value of N/A is shown as zero, and cash that is*)
(* not given as an amount that can be spent, without a gap                   *)
(* (build_portfolio_snapshot_from_report).                                   *)
THEOREM ShownIsRealHolds == OpenDSpec => []ShownIsReal
BY ObservationInvariant, RealInObservation, PTL

(* What is saved and read back, of one observation.                          *)
LEMMA AgreesInObservation ==
    ObservationInv => ReadBackAgrees
<1> SUFFICES ASSUME ObservationInv, Stored
             PROVE  LET shown == ReadBack(rows) IN
                    /\ CashMetric(shown) = CashMetric(snapshot)
                    /\ TypeAllocation(shown) = TypeAllocation(snapshot)
                    /\ \A a \in DOMAIN snapshot.holdings :
                           shown.holdings[a].weight = snapshot.holdings[a].weight
                    /\ shown.total # snapshot.total =>
                           Given(report, "total") /\ report.funds["total"] = 0
                    /\ rows.value.cash = shown.cash["literal"].amount
  BY DEF ReadBackAgrees
<1> DEFINE shown == ReadBack(rows)
<1>1. /\ shown.cash = snapshot.cash
      /\ shown.holdings = snapshot.holdings
      /\ shown.total = rows.value.total_assets
      /\ snapshot = Snapshot(report)
      /\ rows = RowsOf(snapshot, report)
  BY StoredResult
<1> HIDE DEF shown
<1>2. HeldValues(shown) = HeldValues(snapshot) /\ CashHeld(shown) = CashHeld(snapshot)
  BY <1>1 DEF HeldValues, CashHeld
<1>3. CashMetric(shown) = CashMetric(snapshot)
  BY <1>1, <1>2 DEF CashMetric
<1>4. TypeAllocation(shown) = TypeAllocation(snapshot)
  BY <1>1, <1>2 DEF TypeAllocation
<1>5. shown.total # snapshot.total =>
          Given(report, "total") /\ report.funds["total"] = 0
  <2>1. shown.total = FirstGiven(report, <<"total">>, snapshot.total)
    BY <1>1 DEF RowsOf, ValueRow
  <2>2. CASE ~Given(report, "total")
    BY <2>1, <2>2, FirstOfOne
  <2>3. CASE Given(report, "total")
    <3>1. shown.total = report.funds["total"]
      BY <2>1, <2>3, FirstOfOne
    <3>2. FirstGiven(report, TotalFields, 0) = report.funds["total"]
      BY <2>3, FirstOfTotal
    <3>3. snapshot.total = TotalValue(report)
      BY <1>1 DEF Snapshot
    <3>4. report.funds["total"] # 0 => TotalValue(report) = report.funds["total"]
      BY <3>2 DEF TotalValue
    <3> QED
      BY <2>3, <3>1, <3>3, <3>4
  <2> QED
    BY <2>2, <2>3
<1>6. rows.value.cash = shown.cash["literal"].amount
  <2>1. rows.value.cash =
            FirstGiven(report, <<"cash">>, snapshot.cash["literal"].amount)
    BY <1>1 DEF RowsOf, ValueRow
  <2>2. snapshot.cash["literal"].amount = FirstGiven(report, CashFields, 0)
    BY <1>1 DEF Snapshot, Cash
  <2>3. Given(report, "cash") =>
            FirstGiven(report, CashFields, 0) = report.funds["cash"]
    BY FirstOfCash
  <2> QED
    BY <1>1, <2>1, <2>2, <2>3, FirstOfOne
<1> QED
  BY <1>1, <1>3, <1>4, <1>5, <1>6 DEF shown

(* Saving and reading back changes neither cash nor allocation nor weights,  *)
(* and the total only where the broker reported zero; and the cash of the    *)
(* value row is that of the weight rows (_funds_values, _weight_rows).       *)
THEOREM ReadBackAgreesHolds == OpenDSpec => []ReadBackAgrees
BY ObservationInvariant, AgreesInObservation, PTL
-----------------------------------------------------------------------------
(* Amounts are whole numbers, and no more is taken from the automatically    *)
(* invested funds than is there.                                             *)
AccountInv ==
    \A f \in {account, fundsAt, positionsAt} :
        f \in [Pockets -> Int] /\ f["auto"] >= 0

LEMMA AccountStep ==
    ASSUME AccountInv, [Observe \/ AccountMoves]_vars
    PROVE  AccountInv'
<1>1. CASE AccountMoves
  <2>1. fundsAt' = fundsAt /\ positionsAt' = positionsAt
    BY <1>1 DEF AccountMoves, observer
  <2>2. account' \in [Pockets -> Int] /\ account'["auto"] >= 0
    <3>1. account \in [Pockets -> Int] /\ account["auto"] >= 0
          /\ "auto" \in Pockets /\ Assets \subseteq Pockets
      BY DEF AccountInv, Pockets
    <3>2. CASE \E from, to \in Pockets :
                   /\ from # to
                   /\ from = "cash" \/ account[from] > 0
                   /\ account' = [account EXCEPT ![from] = @ - 1, ![to] = @ + 1]
      BY <3>1, <3>2
    <3>3. CASE \E a \in Assets :
                   /\ account[a] > 0
                   /\ account' = [account EXCEPT ![a] = @ + 1]
      BY <3>1, <3>3
    <3> QED
      BY <1>1, <3>2, <3>3 DEF AccountMoves
  <2> QED
    BY <2>1, <2>2 DEF AccountInv
<1>2. CASE Observe \/ UNCHANGED vars
  <2>1. /\ account' = account
        /\ fundsAt' \in {fundsAt, account}
        /\ positionsAt' \in {positionsAt, account}
    BY <1>2 DEF Observe, CheckConnection, GetAccountList, GetAccountFunds,
         GetPositions, GetMarketSnapshots, BuildSnapshot, StoreObservation, Go, vars
  <2> QED
    BY <2>1 DEF AccountInv
<1> QED
  BY <1>1, <1>2

LEMMA AccountInitial == OpenDInit => AccountInv
<1> SUFFICES ASSUME OpenDInit PROVE AccountInv
  OBVIOUS
<1>1. /\ account \in [Pockets -> Values \cup CashAmounts \cup FundAmounts]
      /\ account["auto"] \in FundAmounts
      /\ fundsAt = account /\ positionsAt = account
  BY DEF OpenDInit
<1>2. /\ Values \cup CashAmounts \cup FundAmounts \subseteq Int
      /\ FundAmounts \subseteq Nat
  BY OpenDAssumption
<1>3. account \in [Pockets -> Int]
  BY <1>1, <1>2
<1>4. account["auto"] >= 0
  BY <1>1, <1>2
<1> QED
  BY <1>1, <1>3, <1>4 DEF AccountInv

THEOREM AccountInvariant == OpenDSpec => []AccountInv
BY AccountInitial, AccountStep, PTL DEF OpenDSpec

(* What has the type of a money-market fund is pooled in fund_assets, and    *)
(* nothing is that is neither of this type nor of that of a fund.            *)
MoneyMarketPooled ==
    /\ \A a \in Assets : QuotedType[a] = "cash_equivalent" => a \in Pooled
    /\ \A a \in Pooled : QuotedType[a] \in {"cash_equivalent", "fund"}

-----------------------------------------------------------------------------
Parts == {"cash", "equity", "fund"}

OfType(s, t) == {a \in DOMAIN s.holdings : s.holdings[a].type = t}

(* The allocation by type is a partition: it adds up to the holdings and cash*)
LEMMA AllocationAddsUp ==
    ASSUME NEW s, IsFiniteSet(DOMAIN s.holdings), IsFiniteSet(DOMAIN s.cash),
           \A a \in DOMAIN s.holdings :
               s.holdings[a].type \in AssetTypes /\ s.holdings[a].value \in Int,
           \A c \in DOMAIN s.cash : s.cash[c].amount \in Int
    PROVE  Total(TypeAllocation(s), Parts)
           = Total(HeldValues(s), DOMAIN s.holdings) + Total(CashHeld(s), DOMAIN s.cash)
<1> DEFINE H == DOMAIN s.holdings
           v == HeldValues(s)
           equivalents == OfType(s, "cash_equivalent")
           equities == OfType(s, "equity")
           funds == OfType(s, "fund")
           cash == Total(CashHeld(s), DOMAIN s.cash)
           g == TypeAllocation(s)
<1>1. /\ \A a \in H : v[a] \in Int
      /\ \A c \in DOMAIN s.cash : CashHeld(s)[c] \in Int
  BY DEF HeldValues, CashHeld
<1>2. /\ equivalents \in SUBSET H /\ equities \in SUBSET H /\ funds \in SUBSET H
      /\ IsFiniteSet(equivalents) /\ IsFiniteSet(equities) /\ IsFiniteSet(funds)
  BY FS_Subset DEF OfType
<1>3. /\ cash \in Int /\ Total(v, equivalents) \in Int
      /\ Total(v, equities) \in Int /\ Total(v, funds) \in Int
  BY <1>1, <1>2, TotalInt
<1>4. /\ g["cash"] = Total(v, equivalents) + cash
      /\ g["equity"] = Total(v, equities)
      /\ g["fund"] = Total(v, funds)
  <2>1. /\ g["cash"] = Total(v, equivalents) + cash
        /\ g["equity"] = Total(v, equities) + 0
        /\ g["fund"] = Total(v, funds) + 0
    BY DEF TypeAllocation, OfType
  <2> QED
    BY <1>3, <2>1
<1>5. Total(v, H) = Total(v, equivalents) + Total(v, equities) + Total(v, funds)
  <2>1. /\ H = (equivalents \cup equities) \cup funds
        /\ equivalents \cap equities = {}
        /\ (equivalents \cup equities) \cap funds = {}
    BY DEF OfType, AssetTypes
  <2>2. IsFiniteSet(equivalents \cup equities)
    BY <1>2, FS_Union
  <2>3. /\ \A a \in equivalents \cup equities : v[a] \in Int
        /\ \A a \in (equivalents \cup equities) \cup funds : v[a] \in Int
    BY <1>1, <1>2
  <2> HIDE DEF v, equivalents, equities, funds, H
  <2>4. Total(v, equivalents \cup equities) = Total(v, equivalents) + Total(v, equities)
    BY <1>2, <2>1, <2>3, TotalUnion
  <2>5. Total(v, (equivalents \cup equities) \cup funds)
        = Total(v, equivalents \cup equities) + Total(v, funds)
    BY <1>2, <2>1, <2>2, <2>3, TotalUnion
  <2> QED
    BY <1>3, <2>1, <2>4, <2>5
<1>6. Total(g, Parts) = g["cash"] + g["equity"] + g["fund"]
  <2>1. g["cash"] \in Int /\ g["equity"] \in Int /\ g["fund"] \in Int
    BY <1>3, <1>4
  <2> HIDE DEF g
  <2>2. IsFiniteSet({"cash"}) /\ IsFiniteSet({"equity", "fund"})
    <3>1. {"equity", "fund"} = {"equity"} \cup {"fund"}
      OBVIOUS
    <3>2. IsFiniteSet({"cash"}) /\ IsFiniteSet({"equity"}) /\ IsFiniteSet({"fund"})
      BY FS_Singleton
    <3>3. IsFiniteSet({"equity"} \cup {"fund"})
      BY <3>2, FS_Union
    <3> QED
      BY <3>1, <3>2, <3>3, Zenon
  <2>3. Total(g, Parts) = Total(g, {"cash"}) + Total(g, {"equity", "fund"})
    <3>1. {"cash"} \cap {"equity", "fund"} = {}
      OBVIOUS
    <3>2. {"cash"} \cup {"equity", "fund"} = Parts
      BY DEF Parts
    <3>3. \A x \in {"cash"} \cup {"equity", "fund"} : g[x] \in Int
      BY <2>1
    <3>4. Total(g, {"cash"} \cup {"equity", "fund"})
          = Total(g, {"cash"}) + Total(g, {"equity", "fund"})
      BY <2>2, <3>1, <3>3, TotalUnion
    <3> QED
      BY <3>2, <3>4, Zenon
  <2>4. Total(g, {"cash"}) = g["cash"]
    BY <2>1, TotalOfOne
  <2>5. Total(g, {"equity", "fund"}) = g["equity"] + g["fund"]
    BY <2>1, TotalOfTwo
  <2> QED
    BY <2>1, <2>3, <2>4, <2>5
<1> HIDE DEF g, v, equivalents, equities, funds, cash, H
<1>7. Total(g, Parts) = Total(v, H) + cash
  BY <1>3, <1>4, <1>5, <1>6
<1> QED
  BY <1>7 DEF g, v, cash, H

LEMMA MaxOfZero ==
    ASSUME NEW n \in Int, n >= 0
    PROVE  Max({0, n}) = n
BY DEF Max

(* The sweep is the automatically invested part of fund_assets: the listed   *)
(* funds that are taken out of it are those the broker counts in it.         *)
LEMMA SweepIsAuto ==
    ASSUME NEW A \in [Pockets -> Int], A["auto"] >= 0, MoneyMarketPooled,
           DOMAIN report.positions = Held(A),
           \A a \in Held(A) : MarketValues(report)[a] = A[a],
           report.quotes # NoTable, report.quotes = DOMAIN report.positions,
           Given(report, "fund_assets"),
           report.funds["fund_assets"] = FundsRow(A).fund_assets,
           \A a \in DOMAIN report.positions : QuotedType[a] = "fund" => a \in Pooled
    PROVE  SweepValue(report) = IF sweep THEN A["auto"] ELSE 0
<1> DEFINE H == Held(A)
           listed == {a \in DOMAIN report.positions :
                         AssetType(report, a) \in {"cash_equivalent", "fund"}}
<1>1. DOMAIN report.positions = H /\ \A a \in H : MarketValues(report)[a] = A[a]
  OBVIOUS
<1>2. \A a \in H : AssetType(report, a) = QuotedType[a]
  BY <1>1 DEF AssetType, Quoted
<1>3. listed \in SUBSET H /\ listed \in SUBSET Pooled
      /\ \A a \in Pooled \ listed : A[a] = 0
  BY <1>1, <1>2, OpenDAssumption DEF MoneyMarketPooled, Held
<1>4. /\ Pooled \subseteq Assets /\ IsFiniteSet(Pooled) /\ IsFiniteSet(listed)
      /\ \A a \in Pooled : A[a] \in Int
      /\ A["auto"] \in Int
  BY <1>3, OpenDAssumption, FS_Subset DEF Pockets
<1>5. Total(MarketValues(report), listed) = Total(A, Pooled)
  <2>1. \A a \in listed : MarketValues(report)[a] = A[a] /\ A[a] \in Int
    BY <1>1, <1>3, <1>4
  <2> HIDE DEF listed
  <2>2. Total(MarketValues(report), listed) = Total(A, listed)
    BY <1>4, <2>1, TotalSame
  <2>3. Total(A, Pooled) = Total(A, listed)
    BY <1>3, <1>4, <2>1, TotalWithout
  <2> QED
    BY <2>2, <2>3
<1>6. FirstGiven(report, <<"fund_assets">>, 0) = A["auto"] + Total(A, Pooled)
  BY FirstOfOne DEF FundsRow
<1>7. Total(A, Pooled) \in Int
  BY <1>4, TotalInt
<1>8. FirstGiven(report, <<"fund_assets">>, 0) - Total(MarketValues(report), listed) = A["auto"]
  BY <1>4, <1>5, <1>6, <1>7
<1>9. Max({0, FirstGiven(report, <<"fund_assets">>, 0) - Total(MarketValues(report), listed)})
      = A["auto"]
  BY <1>4, <1>8, MaxOfZero
<1> QED
  BY <1>9 DEF SweepValue

(* The cash of a snapshot is the literal cash and the sweep.                 *)
LEMMA CashOfSnapshot ==
    ASSUME NEW s, s.cash = Snapshot(report).cash,
           SweepValue(report) \in Nat,
           FirstGiven(report, CashFields, 0) \in Int
    PROVE  /\ IsFiniteSet(DOMAIN s.cash)
           /\ \A c \in DOMAIN s.cash : s.cash[c].amount \in Int
           /\ Total(CashHeld(s), DOMAIN s.cash)
              = FirstGiven(report, CashFields, 0) + SweepValue(report)
<1> DEFINE C == DOMAIN s.cash
           literal == FirstGiven(report, CashFields, 0)
           swept == SweepValue(report)
<1>1. C = {"literal"} \cup (IF swept > 0 THEN {"sweep"} ELSE {})
  BY DEF Snapshot
<1>2. \A c \in C : s.cash[c].amount = IF c = "sweep" THEN swept ELSE literal
  BY DEF Snapshot, Cash
<1>3. \A c \in C : CashHeld(s)[c] = IF c = "sweep" THEN swept ELSE literal
  BY <1>2 DEF CashHeld
<1>4. C = IF swept > 0 THEN {"literal", "sweep"} ELSE {"literal"}
  BY <1>1
<1> HIDE DEF C, literal, swept
<1>5. swept \in Nat /\ literal \in Int
  BY DEF swept, literal
<1>6. CASE swept > 0
  <2>1. C = {"literal", "sweep"}
    BY <1>4, <1>6
  <2>2. CashHeld(s)["literal"] = literal /\ CashHeld(s)["sweep"] = swept
    BY <1>3, <2>1
  <2>3. Total(CashHeld(s), {"literal", "sweep"}) = literal + swept
    <3> DEFINE f == CashHeld(s)
    <3>1. f["literal"] \in Int /\ f["sweep"] \in Int
      BY <1>5, <2>2
    <3> HIDE DEF f
    <3>2. Total(f, {"literal", "sweep"}) = f["literal"] + f["sweep"]
      BY <3>1, TotalOfTwo
    <3> QED
      BY <2>2, <3>2 DEF f
  <2>4. IsFiniteSet({"literal", "sweep"})
    <3>1. {"literal", "sweep"} = {"literal"} \cup {"sweep"}
      OBVIOUS
    <3>2. IsFiniteSet({"literal"} \cup {"sweep"})
      BY FS_Singleton, FS_Union
    <3> QED
      BY <3>1, <3>2, Zenon
  <2>5. Total(CashHeld(s), C) = literal + swept /\ IsFiniteSet(C)
    BY <2>1, <2>3, <2>4, Zenon
  <2> QED
    BY <1>2, <1>5, <2>5 DEF C, literal, swept
<1>7. CASE ~(swept > 0)
  <2>1. C = {"literal"} /\ swept = 0
    BY <1>4, <1>5, <1>7
  <2>2. CashHeld(s)["literal"] = literal
    BY <1>3, <2>1
  <2>3. Total(CashHeld(s), {"literal"}) = literal /\ IsFiniteSet({"literal"})
    BY <1>5, <2>2, TotalOfOne, FS_Singleton
  <2>4. Total(CashHeld(s), C) = literal /\ IsFiniteSet(C)
    BY <2>1, <2>3, Zenon
  <2>5. Total(CashHeld(s), C) = literal + swept
    BY <1>5, <2>1, <2>4
  <2> QED
    BY <1>2, <1>5, <2>4, <2>5 DEF C, literal, swept
<1> QED
  BY <1>6, <1>7

(* What the parts add up to, of one observation.                             *)
LEMMA PartsInObservation ==
    ASSUME ObservationInv, AccountInv, MoneyMarketPooled
    PROVE  PartsAddUp
<1> SUFFICES ASSUME Stored, fundsAt = positionsAt, snapshot.missing = {},
                    \A field \in {"total", "cash", "fund_assets"} :
                        Given(report, field),
                    \A a \in DOMAIN report.positions :
                        report.positions[a] # NotGiven,
                    report.funds["total"] # 0,
                    \A a \in DOMAIN snapshot.holdings :
                        snapshot.holdings[a].type = "fund" => a \in Pooled
             PROVE  Total(TypeAllocation(snapshot), Parts)
                        + (IF sweep THEN 0 ELSE fundsAt["auto"]) = snapshot.total
  BY DEF PartsAddUp, Parts
<1> DEFINE A == fundsAt
           H == Held(A)
           v == HeldValues(snapshot)
<1>1. /\ snapshot = Snapshot(report)
      /\ DOMAIN report.positions = Held(A)
      /\ \A a \in Held(A) : MarketValues(report)[a] = A[a]
  <2> PICK lost \in SUBSET Held(A) : report.positions = PositionsTable(A, lost)
    BY StoredResult
  <2>1. /\ DOMAIN report.positions = Held(A)
        /\ \A a \in Held(A) :
               report.positions[a] = NotGiven \/ report.positions[a] = A[a]
    BY DEF PositionsTable
  <2>2. \A a \in Held(A) : MarketValues(report)[a] = A[a]
    BY <2>1 DEF MarketValues
  <2> QED
    BY <2>1, <2>2, StoredResult
<1>2. /\ A \in [Pockets -> Int] /\ A["auto"] >= 0
      /\ \A a \in Assets : A[a] \in Int
      /\ A["cash"] \in Int /\ A["auto"] \in Int
  BY DEF AccountInv, Pockets
<1>3. MissingFields(report) = {}
  BY <1>1 DEF Snapshot
<1>4. /\ HasRow(report) /\ Given(report, "cash")
      /\ Given(report, "total") /\ Given(report, "fund_assets")
      /\ Quoted(report) = DOMAIN report.positions /\ Quoted(report) # {}
  <2>1. /\ "funds_table" \notin MissingFields(report)
        /\ "funds_rows" \notin MissingFields(report)
        /\ "quotes_for_all_positions" \notin MissingFields(report)
    BY <1>3
  <2>2. report.funds # NoTable /\ report.funds # NoRow
    BY <2>1 DEF MissingFields
  <2>3. HasRow(report)
    BY <2>2 DEF HasRow
  <2>4. /\ Given(report, "cash") /\ Given(report, "total")
        /\ Given(report, "fund_assets")
    OBVIOUS
  <2>5. Quoted(report) = DOMAIN report.positions /\ Quoted(report) # {}
    BY <2>1 DEF MissingFields
  <2> QED
    BY <2>3, <2>4, <2>5
<1>5. \A x \in FundsFields : Given(report, x) => report.funds[x] = FundsRow(A)[x]
  BY <1>4 DEF ObservationInv, FundsTrue, HasRow, Given, FundsTable
<1>6. /\ report.funds["total"] = Total(A, Pockets)
      /\ report.funds["cash"] = A["cash"]
      /\ report.funds["fund_assets"] = FundsRow(A).fund_assets
  BY <1>4, <1>5 DEF FundsRow, FundsFields
<1>7. /\ DOMAIN snapshot.holdings = H /\ DOMAIN report.positions = H
      /\ \A a \in H : /\ snapshot.holdings[a].value = A[a]
                      /\ snapshot.holdings[a].type = QuotedType[a]
                      /\ QuotedType[a] \in AssetTypes
  <2>1. DOMAIN report.positions = H /\ \A a \in H : MarketValues(report)[a] = A[a]
    BY <1>1
  <2>2. /\ DOMAIN snapshot.holdings = H
        /\ \A a \in H : /\ snapshot.holdings[a].value = MarketValues(report)[a]
                        /\ snapshot.holdings[a].type = AssetType(report, a)
    BY <1>1, <2>1 DEF Snapshot
  <2>3. \A a \in H : AssetType(report, a) = QuotedType[a] /\ QuotedType[a] \in AssetTypes
    BY <1>4, <2>1, OpenDAssumption DEF AssetType, Held
  <2> QED
    BY <2>1, <2>2, <2>3
<1>8. SweepValue(report) = IF sweep THEN A["auto"] ELSE 0
  <2>1. report.quotes # NoTable /\ report.quotes = DOMAIN report.positions
    BY <1>4 DEF Quoted
  <2>2. \A a \in DOMAIN report.positions : QuotedType[a] = "fund" => a \in Pooled
    BY <1>7
  <2> QED
    BY <1>1, <1>2, <1>6, <2>1, <2>2, SweepIsAuto
<1>9. FirstGiven(report, CashFields, 0) = A["cash"]
  BY <1>4, <1>6, FirstOfCash
<1>10. /\ IsFiniteSet(DOMAIN snapshot.cash)
       /\ \A c \in DOMAIN snapshot.cash : snapshot.cash[c].amount \in Int
       /\ Total(CashHeld(snapshot), DOMAIN snapshot.cash)
          = A["cash"] + (IF sweep THEN A["auto"] ELSE 0)
  BY <1>1, <1>2, <1>8, <1>9, CashOfSnapshot
<1>11. Total(v, H) = Total(A, Assets)
  <2>1. IsFiniteSet(Assets) /\ H \in SUBSET Assets /\ IsFiniteSet(H)
    BY OpenDAssumption, FS_Subset DEF Held
  <2>2. \A a \in H : v[a] = A[a]
    BY <1>7 DEF HeldValues
  <2>3. (\A a \in H : A[a] \in Int) /\ \A a \in Assets \ H : A[a] = 0
    BY <1>2 DEF Held
  <2> HIDE DEF H, v
  <2>4. Total(v, H) = Total(A, H)
    BY <2>1, <2>2, TotalSame
  <2>5. Total(A, Assets) = Total(A, H)
    BY <2>1, <2>3, TotalWithout
  <2> QED
    BY <2>4, <2>5
<1>12. Total(A, Pockets) = Total(A, Assets) + A["cash"] + A["auto"]
  <2>1. IsFiniteSet(Assets) /\ Assets \cap {"cash", "auto"} = {}
    BY OpenDAssumption
  <2>2. IsFiniteSet({"cash", "auto"})
    <3>1. {"cash", "auto"} = {"cash"} \cup {"auto"}
      OBVIOUS
    <3>2. IsFiniteSet({"cash"} \cup {"auto"})
      BY FS_Singleton, FS_Union
    <3> QED
      BY <3>1, <3>2, Zenon
  <2>3. \A x \in Assets \cup {"cash", "auto"} : A[x] \in Int
    BY <1>2
  <2>4. Total(A, Assets \cup {"cash", "auto"}) = Total(A, Assets) + Total(A, {"cash", "auto"})
    BY <2>1, <2>2, <2>3, TotalUnion
  <2>5. Total(A, {"cash", "auto"}) = A["cash"] + A["auto"]
    BY <1>2, TotalOfTwo
  <2>6. Total(A, Assets) \in Int
    BY <2>1, <2>3, TotalInt
  <2>7. Total(A, Pockets) = Total(A, Assets) + Total(A, {"cash", "auto"})
    BY <2>4 DEF Pockets
  <2> QED
    BY <1>2, <2>5, <2>6, <2>7
<1>13. Total(TypeAllocation(snapshot), Parts)
       = Total(v, H) + Total(CashHeld(snapshot), DOMAIN snapshot.cash)
  <2>1. IsFiniteSet(DOMAIN snapshot.holdings)
    BY <1>7, OpenDAssumption, FS_Subset DEF Held
  <2>2. \A a \in DOMAIN snapshot.holdings :
            snapshot.holdings[a].type \in AssetTypes /\ snapshot.holdings[a].value \in Int
    BY <1>2, <1>7 DEF Held
  <2>3. Total(TypeAllocation(snapshot), Parts)
        = Total(v, DOMAIN snapshot.holdings)
          + Total(CashHeld(snapshot), DOMAIN snapshot.cash)
    BY <1>10, <2>1, <2>2, AllocationAddsUp
  <2> QED
    BY <1>7, <2>3, Zenon
<1>14. snapshot.total = Total(A, Pockets)
  <2>1. FirstGiven(report, TotalFields, 0) = report.funds["total"]
    BY FirstOfTotal
  <2>2. TotalValue(report) = report.funds["total"]
    BY <2>1 DEF TotalValue
  <2> QED
    BY <1>1, <1>6, <2>2 DEF Snapshot
<1>15. Total(A, Assets) \in Int
  BY <1>2, OpenDAssumption, TotalInt
<1> HIDE DEF A, H, v
<1>16. CASE sweep
  BY <1>2, <1>10, <1>11, <1>12, <1>13, <1>14, <1>15, <1>16
<1>17. CASE ~sweep
  <2>1. Total(TypeAllocation(snapshot), Parts) + A["auto"] = snapshot.total
    BY <1>2, <1>10, <1>11, <1>12, <1>13, <1>14, <1>15, <1>17
  <2> QED
    BY <1>17, <2>1 DEF A
<1> QED
  BY <1>16, <1>17

(* Nothing of the account is counted twice or left out (_cash_sweep_value):  *)
(* if it did not move between the reads, everything was given, no fund is    *)
(* held that the broker does not count in fund_assets and the reported total *)
(* is not zero, the parts of a snapshot are the account's total.             *)
THEOREM PartsAddUpHolds ==
    ASSUME MoneyMarketPooled PROVE OpenDSpec => []PartsAddUp
BY ObservationInvariant, AccountInvariant, PartsInObservation, PTL
=============================================================================
