---------------------------- MODULE MCTurnPlanning ----------------------------
(* Constants for TLC.  The newest row may be minutes, hours or days old, the *)
(* one before it a week, two weeks, a month or more than 35 days.  Four      *)
(* assets are held: one with a name no longer than a symbol, by two rows of  *)
(* one symbol, two of one company, one abroad.                               *)
EXTENDS TurnPlanning

CONSTANTS apple, berkshire, tencent, holding

MCNow == 4000

Newest == {MCNow - 1, MCNow - 40, MCNow - 100}
Older == {MCNow - 8 * Day, MCNow - 14 * Day, MCNow - 32 * Day, MCNow - 36 * Day}

Unspoilt == [c \in RowLists |-> 0]

(* The rows of the value table, those of them without weights, and whether   *)
(* the snapshot is complete.                                                 *)
Database(values, unweighed, clean) ==
    [values |-> values, weighed |-> values \ unweighed, holdings |-> 40, cashRows |-> 1,
     clean |-> clean, moved |-> 12, changed |-> 12, spoilt |-> Unspoilt, large |-> FALSE]

Times == {n \cup o : n \in kSubset(0, Newest) \cup kSubset(1, Newest),
                     o \in UNION {kSubset(k, Older) : k \in 0..2}}

Stored == {Database(values, unweighed, TRUE) : values \in Times, unweighed \in {{}, Older}}
          \cup {Database(values, {}, FALSE) : values \in Times}

(* A row that no packet takes is the last one shown, by the default limits   *)
(* or by the largest, or the first one that is not.                          *)
SpoiltAt == {[Unspoilt EXCEPT !["allocation_breakdown"] = i] : i \in {10, 11, 21}}
            \cup {[Unspoilt EXCEPT ![c] = i] :
                     c \in RowLists \ {"allocation_breakdown"}, i \in {5, 6, 10, 11}}

Whole == {d \in Stored : d.clean /\ d.weighed = d.values /\ d.values = {MCNow - 1, MCNow - 8 * Day}}

MCDatabases ==
    Stored \cup {[d EXCEPT !.large = TRUE] : d \in Whole}
           \cup {[d EXCEPT !.spoilt = f] : d \in Whole, f \in SpoiltAt}

MCLimits == {DefaultLimits, [allocation |-> AllocationCap, change |-> ChangeCap]}

(* Every call alone, and the two without which nothing is known. *)
MCFailures == {{}, {"status", "state"}} \cup {{r} : r \in Reads}

Row(provider, exchange, ticker, name) ==
    [provider |-> provider, exchange |-> exchange, ticker |-> ticker, name |-> name,
     id |-> <<provider, exchange, ticker>>]

MCPositions == {Row("US", "NASDAQ", "AAPL", <<apple>>),
                Row(NoText, "NYSE", "BRK.A", <<berkshire, holding>>),
                Row("US", NoText, "BRK.B", <<berkshire, holding>>),
               Row("US", "NYSE", "AAPL", <<apple>>)}

MCWeights == MCPositions \cup {Row("HK", "HK", "700", <<tencent, holding>>)}

Hint(market, symbol, name) ==
    [market |-> market, symbol |-> symbol, name |-> name, hinted |-> NoText, entity |-> <<>>]

Hints == {Hint(NoText, "AAPL", <<"aapl">>),
          Hint(NoText, "APPLE", <<apple>>),
          Hint(NoText, NoText, <<berkshire>>),
          Hint("US", "BRK.B", <<"us", "brk", "b">>),
          Hint(NoText, NoText, <<tencent>>),
          [Hint(NoText, "700", <<"700">>) EXCEPT !.symbol = NoText, !.hinted = "HK"]}

Request(intent, hints, window, freshness, goals, interpret) ==
    [intent |-> intent, hints |-> hints, window |-> window, freshness |-> freshness,
     goals |-> goals, interpret |-> interpret]

MCFallbacks ==
    {Request("portfolio_fact", {}, NoWindow, f, {"snapshot"}, FALSE) : f \in Freshness}
    \cup {Request("portfolio_fact", {}, w, "cached_ok", {"snapshot"}, FALSE) : w \in {7, 14}}

MCRequests ==
    MCFallbacks
    \cup {Request(intent, hints, 30, freshness, goals, interpret) :
            intent \in Intents, hints \in UNION {kSubset(k, Hints) : k \in 0..2},
            freshness \in Freshness, interpret \in BOOLEAN,
            goals \in kSubset(1, Goals) \cup kSubset(2, Goals)}

MCAstray == {UnknownRef, "history_freshness"}
=============================================================================
