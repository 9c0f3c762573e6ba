--------------------------- MODULE MCBaselineView ---------------------------
(* Constants for TLC: one asset, sold or held in one of two quantities; one *)
(* writer.  A day has up to two observations, and the window is one.        *)
EXTENDS BaselineView, TLC

CONSTANTS a1, c1, w1, s1, s2

MCSnapshots == {a1 :> [qty |-> 1, cost |-> c1], a1 :> [qty |-> 2, cost |-> c1],
                a1 :> NotHeld}

WriterServer == w1 :> s1

(* Bound: the first of the four observations holds one share and is stored  *)
(* whole before the second; the other three fail and overlap in every way.  *)
FirstStored ==
    /\ log # <<>> => log[1][a1] # NotHeld /\ log[1][a1].qty = 1
    /\ Len(log) > 1 => 1 \in kept /\ {value[0], weights[0], events[0]} = {1}
=============================================================================
