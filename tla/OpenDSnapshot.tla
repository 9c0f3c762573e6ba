---------------------------- MODULE OpenDSnapshot ----------------------------
(***************************************************************************)
(* One observation of the broker's account, from the OpenD calls to what a *)
(* later reader gets back from the SQL history: explore_fields reads the   *)
(* tables one after another, any of them may fail or come incomplete and   *)
(* the account may change in between; build_portfolio_snapshot_from_report *)
(* makes a snapshot of what arrived; the storage tools turn it into a value*)
(* row, weight rows and data-quality events; and snapshot_from_latest_state*)
(* builds a snapshot from those rows again.                                *)
(*                                                                         *)
(* Amounts are small integers and a weight is the fraction <<value, total>>*)
(* that the code divides out.  How the storage tools interleave and fail is*)
(* the subject of PortfolioHistory; here they succeed.                     *)
(***************************************************************************)
EXTENDS Integers, Totals

CONSTANTS
    Assets,         \* what may be held in the account
    Pooled,         \* funds the broker counts in fund_assets
    QuotedType,     \* an asset's type as a quote tells it
    NamedType,      \* and as code and name alone tell it
    Values,         \* market values of a position; 0 is no position
    CashAmounts, FundAmounts,
    Spendable,      \* an amount of the funds that is not the cash
    MaxMoves,       \* how often the account changes during the observation
    NoTable, NoRow, NotGiven, NoSnapshot

AssetTypes == {"equity", "fund", "cash_equivalent"}

\* The broker's codes differ from the ids under which cash and sweep are kept
ASSUME OpenDAssumption ==
    /\ Assets \cap {"cash", "auto", "literal", "sweep"} = {}
    /\ IsFiniteSet(Assets)
    /\ Pooled \subseteq Assets
    /\ QuotedType \in [Assets -> AssetTypes]
    /\ NamedType \in [Assets -> AssetTypes]
    /\ Values \subseteq Int /\ CashAmounts \subseteq Int /\ FundAmounts \subseteq Nat
    /\ Spendable \in Int
    /\ MaxMoves \in Nat

VARIABLES
    account,      \* at the broker: cash, auto-invested funds, positions
    moves,        \* changes so far
    sweep,        \* treat_fund_assets_as_cash_sweep
    pc,
    report,       \* OpenDFieldReport
    fundsAt,      \* the account as it was when its funds were read
    positionsAt,  \* and when its positions were read
    snapshot,     \* PortfolioSnapshot
    rows          \* the day's value row, weight rows and events

vars ==
    <<account, moves, sweep, pc, report, fundsAt, positionsAt, snapshot, rows>>

observer == <<sweep, pc, report, fundsAt, positionsAt, snapshot, rows>>

Pockets == Assets \cup {"cash", "auto"}

OpenDInit ==
    /\ account \in
         {f \in [Pockets -> Values \cup CashAmounts \cup FundAmounts] :
             /\ f["cash"] \in CashAmounts
             /\ f["auto"] \in FundAmounts
             /\ \A a \in Assets : f[a] \in Values}
    /\ moves = 0
    /\ sweep \in BOOLEAN
    /\ pc = "connect"
    /\ report = [funds |-> NoTable, positions |-> NoTable,
                 quotes |-> NoTable, warnings |-> {}]
    /\ fundsAt = account
    /\ positionsAt = account
    /\ snapshot = NoSnapshot
    /\ rows = NoSnapshot

\* External: a purchase, a sale, an automatic investment, a price.  Before the
\* funds are read it would only give another initial account, and after the
\* positions are read nobody looks at the account.
AccountMoves ==
    /\ pc = "positions"
    /\ moves < MaxMoves
    /\ moves' = moves + 1
    /\ \/ \E from, to \in Pockets :
              /\ from # to
              /\ from = "cash" \/ account[from] > 0
              /\ account' = [account EXCEPT ![from] = @ - 1, ![to] = @ + 1]
       \/ \E a \in Assets :
              /\ account[a] > 0
              /\ account' = [account EXCEPT ![a] = @ + 1]
    /\ UNCHANGED observer
-----------------------------------------------------------------------------
Go(next) ==
    /\ pc' = next
    /\ UNCHANGED <<account, moves, sweep, snapshot, rows>>

Warn(warning) ==
    report' = [report EXCEPT !.warnings = @ \cup {warning}]

\* Without a connection the report has no tables
CheckConnection ==
    /\ pc = "connect"
    /\ \/ Go("accounts") /\ UNCHANGED report
       \/ Go("build") /\ Warn("connection")
    /\ UNCHANGED <<fundsAt, positionsAt>>

GetAccountList ==
    /\ pc = "accounts"
    /\ Go("funds")
    /\ UNCHANGED report \/ Warn("get_account_list")
    /\ UNCHANGED <<fundsAt, positionsAt>>

\* External: accinfo_query's row.  `securities' stands for the fields that
\* count positions only (securities_assets, market_val, long_mv), `spendable'
\* for those that say what can be drawn or spent, which is not the cash
\* (available_funds, avl_withdrawal_cash, net_cash_power).
FundsRow(f) ==
    [total       |-> Total(f, Pockets),
     securities  |-> Total(f, Assets \ Pooled),
     cash        |-> f["cash"],
     spendable   |-> Spendable,
     fund_assets |-> f["auto"] + Total(f, Pooled)]

FundsFields == {"total", "securities", "cash", "spendable", "fund_assets"}

\* Any field may be N/A; a query that fails leaves the table out
GetAccountFunds ==
    /\ pc = "funds"
    /\ Go("positions")
    /\ fundsAt' = account
    /\ \/ \E lost \in SUBSET FundsFields :
              report' = [report EXCEPT !.funds =
                            [f \in FundsFields |->
                                IF f \in lost THEN NotGiven
                                ELSE FundsRow(account)[f]]]
       \/ report' = [report EXCEPT !.funds = NoRow]
       \/ Warn("get_account_funds")
    /\ UNCHANGED positionsAt

\* Any market value may be N/A.  The broker is taken to list a code once.
GetPositions ==
    /\ pc = "positions"
    /\ Go("quotes")
    /\ positionsAt' = account
    /\ \/ \E lost \in SUBSET {a \in Assets : account[a] # 0} :
              report' = [report EXCEPT !.positions =
                            [a \in {b \in Assets : account[b] # 0} |->
                                IF a \in lost THEN NotGiven ELSE account[a]]]
       \/ Warn("get_positions")
    /\ UNCHANGED fundsAt

PositionCodes ==
    IF report.positions = NoTable THEN {} ELSE DOMAIN report.positions

\* A batch that fails is asked again code by code
GetMarketSnapshots ==
    /\ pc = "quotes"
    /\ Go("build")
    /\ \/ PositionCodes = {} /\ Warn("no_position_codes")
       \/ /\ PositionCodes # {}
          /\ \/ report' = [report EXCEPT !.quotes = PositionCodes]
             \/ \E answered \in SUBSET PositionCodes :
                    report' = [report EXCEPT
                                  !.quotes = answered,
                                  !.warnings = @ \cup {"batch_quotes"}]
             \/ Warn("get_market_snapshots")
    /\ UNCHANGED <<fundsAt, positionsAt>>
-----------------------------------------------------------------------------
HasRow(r) == r.funds \notin {NoTable, NoRow}

Given(r, field) == HasRow(r) /\ r.funds[field] # NotGiven

\* _first_available_number
FirstGiven(r, fields, default) ==
    IF \E i \in DOMAIN fields : Given(r, fields[i])
    THEN r.funds[fields[Min({i \in DOMAIN fields : Given(r, fields[i])})]]
    ELSE default

TotalFields == <<"total", "securities">>

\* _cash_field_names
CashFields == <<"cash", "spendable">>

\* A market value of N/A counts as zero
MarketValues(r) ==
    [a \in DOMAIN r.positions |->
        IF r.positions[a] = NotGiven THEN 0 ELSE r.positions[a]]

Weight(value, total) == IF total = 0 THEN <<0, 1>> ELSE <<value, total>>

Quoted(r) == IF r.quotes = NoTable THEN {} ELSE r.quotes

AssetType(r, a) == IF a \in Quoted(r) THEN QuotedType[a] ELSE NamedType[a]

TotalValue(r) ==
    LET reported == FirstGiven(r, TotalFields, 0)
        held == Total(MarketValues(r), DOMAIN r.positions)
        cash == FirstGiven(r, CashFields, 0)
    IN IF reported = 0 /\ (held # 0 \/ cash # 0) THEN held + cash
       ELSE reported

\* Mutant: listed funds are counted as positions and in the sweep.
WholeSweepValue(r) ==
    IF sweep THEN Max({0, FirstGiven(r, <<"fund_assets">>, 0)}) ELSE 0

\* _cash_sweep_value: what fund_assets holds beyond the listed funds
SweepValue(r) ==
    IF sweep
    THEN Max({0, FirstGiven(r, <<"fund_assets">>, 0)
                 - Total(MarketValues(r),
                         {a \in DOMAIN r.positions :
                             AssetType(r, a) \in {"cash_equivalent", "fund"}})})
    ELSE 0

\* Mutant: only tables are looked for.
MissingTables(r) ==
    (IF r.funds = NoTable THEN {"funds_table"} ELSE {})
    \cup (IF r.funds = NoRow THEN {"funds_rows"} ELSE {})
    \cup (IF r.quotes = NoTable THEN {"quotes_for_all_positions"} ELSE {})

MissingFields(r) ==
    (IF r.funds = NoTable THEN {"funds_table"} ELSE {})
    \cup (IF r.funds = NoRow THEN {"funds_rows"} ELSE {})
    \cup (IF HasRow(r) /\ ~\E i \in DOMAIN TotalFields :
                               Given(r, TotalFields[i])
          THEN {"total_assets"} ELSE {})
    \cup (IF HasRow(r) /\ ~\E i \in DOMAIN CashFields :
                               Given(r, CashFields[i])
          THEN {"cash"} ELSE {})
    \cup (IF Quoted(r) # DOMAIN r.positions \/ Quoted(r) = {}
          THEN {"quotes_for_all_positions"} ELSE {})

\* Not gaps: how fund_assets was taken
FundNotes == {"fund_assets_counted", "fund_assets_not_counted"}

FundNote(r) ==
    IF SweepValue(r) > 0 THEN {"fund_assets_counted"}
    ELSE IF FirstGiven(r, <<"fund_assets">>, 0) > 0
         THEN {"fund_assets_not_counted"} ELSE {}

Cash(amount, total) == [amount |-> amount, weight |-> Weight(amount, total)]

Snapshot(r) ==
    LET total == TotalValue(r) IN
    [total    |-> total,
     cash     |-> [account_id \in {"literal"} \cup
                                  (IF SweepValue(r) > 0 THEN {"sweep"} ELSE {})
                     |-> Cash(IF account_id = "sweep" THEN SweepValue(r)
                              ELSE FirstGiven(r, CashFields, 0), total)],
     holdings |-> [a \in DOMAIN r.positions |->
                     [value |-> MarketValues(r)[a], type |-> AssetType(r, a),
                      weight |-> Weight(MarketValues(r)[a], total)]],
     missing  |-> MissingFields(r),
     warnings |-> FundNote(r) \cup r.warnings]

\* Without positions there is no snapshot: the refresh has failed
BuildSnapshot ==
    /\ pc = "build"
    /\ IF report.positions = NoTable
       THEN pc' = "failed" /\ UNCHANGED snapshot
       ELSE pc' = "store" /\ snapshot' = Snapshot(report)
    /\ UNCHANGED <<account, moves, sweep, report, fundsAt, positionsAt, rows>>
-----------------------------------------------------------------------------
\* _funds_values: what the broker reported, where it did
ValueRow(s, r) ==
    [total_assets |-> FirstGiven(r, <<"total">>, s.total),
     cash         |-> FirstGiven(r, <<"cash">>, s.cash["literal"].amount),
     fund_assets  |-> FirstGiven(r, <<"fund_assets">>, 0)]

WeightRows(s) ==
    {[asset |-> a, type |-> s.holdings[a].type, value |-> s.holdings[a].value,
      weight |-> s.holdings[a].weight] : a \in DOMAIN s.holdings}
    \cup
    {[asset  |-> c, type |-> IF c = "sweep" THEN "cash_sweep" ELSE "cash",
      value  |-> s.cash[c].amount, weight |-> s.cash[c].weight] :
        c \in DOMAIN s.cash}

EventRows(s) == s.missing \cup s.warnings

StoreObservation ==
    /\ pc = "store"
    /\ pc' = "stored"
    /\ rows' = [value   |-> ValueRow(snapshot, report),
                weights |-> WeightRows(snapshot),
                events  |-> EventRows(snapshot)]
    /\ UNCHANGED <<account, moves, sweep, report, fundsAt, positionsAt,
                   snapshot>>

Observe ==
    \/ CheckConnection \/ GetAccountList \/ GetAccountFunds \/ GetPositions
    \/ GetMarketSnapshots \/ BuildSnapshot \/ StoreObservation

OpenDSpec == OpenDInit /\ [][Observe \/ AccountMoves]_vars
-----------------------------------------------------------------------------
\* Mutant: the sweep comes back as a second amount of plain cash.
CashRowsByName(weights) ==
    [c \in {"literal"} |->
        [amount |-> MapThenSumSet(LAMBDA w : w.value,
                        {w \in weights : w.type \in {"cash", "cash_sweep"}}),
         weight |-> (CHOOSE w \in weights : w.type = "cash").weight]]

CashRows(weights) ==
    LET RowOf(c) == CHOOSE w \in weights : w.asset = c IN
    [c \in {w.asset : w \in {v \in weights : v.type \in {"cash", "cash_sweep"}}}
        |-> [amount |-> RowOf(c).value, weight |-> RowOf(c).weight]]

\* snapshot_from_latest_state
ReadBack(stored) ==
    LET held == {w \in stored.weights : w.type \notin {"cash", "cash_sweep"}}
        RowOf(a) == CHOOSE w \in held : w.asset = a
    IN [total    |-> stored.value.total_assets,
        cash     |-> CashRows(stored.weights),
        holdings |-> [a \in {w.asset : w \in held} |->
                        [value |-> RowOf(a).value, type |-> RowOf(a).type,
                         weight |-> RowOf(a).weight]],
        missing  |-> {}, warnings |-> {}]

HeldValues(s) == [a \in DOMAIN s.holdings |-> s.holdings[a].value]

CashHeld(s) == [c \in DOMAIN s.cash |-> s.cash[c].amount]

\* calculate_cash_weight
CashMetric(s) ==
    LET equivalents == {a \in DOMAIN s.holdings :
                           s.holdings[a].type = "cash_equivalent"}
        auto == IF "sweep" \in DOMAIN s.cash THEN s.cash["sweep"].amount ELSE 0
        listed == Total(HeldValues(s), equivalents)
    IN [literal |-> s.cash["literal"].amount, auto |-> auto,
        listed  |-> listed,
        value   |-> s.cash["literal"].amount + auto + listed]

\* calculate_asset_type_allocation
TypeAllocation(s) ==
    [t \in {"cash", "equity", "fund"} |->
        Total(HeldValues(s),
              {a \in DOMAIN s.holdings :
                  s.holdings[a].type =
                      IF t = "cash" THEN "cash_equivalent" ELSE t})
        + (IF t = "cash" THEN Total(CashHeld(s), DOMAIN s.cash) ELSE 0)]
-----------------------------------------------------------------------------
Stored == pc = "stored"

(* What is shown from the saved rows is what the broker had when it was read,*)
(* or a gap is recorded with the rows.  Without a gap the holdings are those *)
(* of the account, the cash is its cash and the total its total.  Three      *)
(* things are replaced and told to nobody: a market value of N/A by zero,    *)
(* cash that is not given by an amount that can be spent, and a total that   *)
(* is not given by the value of the securities, if these are.                *)
ShownIsReal ==
    Stored /\ rows.events \subseteq FundNotes =>
        LET shown == ReadBack(rows) IN
        /\ \A a \in Assets :
               IF a \in DOMAIN shown.holdings
               THEN \/ shown.holdings[a].value = positionsAt[a]
                    \/ /\ shown.holdings[a].value = 0
                       /\ report.positions[a] = NotGiven
               ELSE positionsAt[a] = 0
        /\ \/ shown.cash["literal"].amount = fundsAt["cash"]
           \/ /\ shown.cash["literal"].amount = Spendable
              /\ ~Given(report, "cash")
        /\ Given(report, "total") => shown.total = Total(fundsAt, Pockets)

(* Saving and reading back changes neither the cash, its kinds and the       *)
(* effective cash they add up to, nor the allocation by type, nor any weight;*)
(* and not the total either, unless the broker reported a total of zero,     *)
(* which is saved as it is and replaced by the sum of the parts when live.   *)
(* The cash of the value row, for which fewer fields are asked, is that of   *)
(* the weight rows.                                                          *)
ReadBackAgrees ==
    Stored =>
        LET shown == ReadBack(rows) IN
        /\ CashMetric(shown) = CashMetric(snapshot)
        /\ TypeAllocation(shown) = TypeAllocation(snapshot)
        /\ \A a \in DOMAIN snapshot.holdings :
               shown.holdings[a].weight = snapshot.holdings[a].weight
        /\ shown.total # snapshot.total =>
               Given(report, "total") /\ report.funds["total"] = 0
        /\ rows.value.cash = shown.cash["literal"].amount

(* Nothing of the account is counted twice or left out: if it did not change *)
(* between the reads, nothing is missing and cash and market values are      *)
(* given, then cash, sweep and holdings add up to its total, less the pooled *)
(* funds when they are not taken for cash.  An exchange-traded fund must not *)
(* be held: it has the type of a listed fund and is taken out of fund_assets,*)
(* which never contained it.  Nor may the broker report a total of zero,     *)
(* which is not believed.                                                    *)
PartsAddUp ==
    /\ Stored
    /\ fundsAt = positionsAt
    /\ snapshot.missing = {}
    /\ \A field \in {"total", "cash", "fund_assets"} : Given(report, field)
    /\ \A a \in DOMAIN report.positions : report.positions[a] # NotGiven
    /\ report.funds["total"] # 0
    /\ \A a \in DOMAIN snapshot.holdings :
           snapshot.holdings[a].type = "fund" => a \in Pooled
    =>
    Total(TypeAllocation(snapshot), {"cash", "equity", "fund"})
        + (IF sweep THEN 0 ELSE fundsAt["auto"]) = snapshot.total
=============================================================================
