------------------------- MODULE MCPortfolioHistory -------------------------
(* Constants for TLC.  The broker may report four contents: both assets    *)
(* held; one of them at another cost and the other sold; both held without  *)
(* a cost basis, one in another quantity; and an empty account.             *)
EXTENDS PortfolioHistory, TLC

CONSTANTS a1, a2, q1, q2, c1, c2, w1, w2, s1, s2

MCQuantities == {q1, q2}
MCCosts == {c1, c2}
MCAssets == {a1, a2}

Lot(q, c) == [qty |-> q, cost |-> c]
Content(h1, h2) == (a1 :> h1) @@ (a2 :> h2)

MCSnapshots == {Content(Lot(q1, c1), Lot(q1, c1)),
                Content(Lot(q1, c2), NotHeld),
                Content(Lot(q2, NoBasis), Lot(q1, NoBasis)),
                Content(NotHeld, NotHeld)}

OneServer == [w \in Writers |-> s1]
TwoServers == (w1 :> s1) @@ (w2 :> s2)

WriterSymmetry == Permutations({w1, w2})
=============================================================================
