------------------------------- MODULE Totals -------------------------------
(* Sums of a function's values, as Python's sum() over a collection.         *)
EXTENDS FiniteSetsExt

Total(f, S) == MapThenSumSet(LAMBDA x : f[x], S)
=============================================================================
