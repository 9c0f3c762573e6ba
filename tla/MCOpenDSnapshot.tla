--------------------------- MODULE MCOpenDSnapshot ---------------------------
(* Constants for TLC: a stock, a money-market fund that only its quote shows *)
(* to be one, and an exchange-traded fund.                                   *)
EXTENDS OpenDSnapshot

CONSTANTS stock, plus, etf

MCAssets == {stock, plus, etf}

MCPooled == {plus}

MCQuotedType ==
    [a \in MCAssets |-> CASE a = stock -> "equity"
                          [] a = etf   -> "fund"
                          [] OTHER     -> "cash_equivalent"]

MCNamedType == [a \in MCAssets |-> "equity"]

MCCash == -1 .. 1
=============================================================================
