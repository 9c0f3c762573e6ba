--------------------------- MODULE MCChatServices ---------------------------
(* Constants for TLC: three request threads. *)
EXTENDS ChatServices, TLC

CONSTANTS t1, t2, t3

ThreadSymmetry == Permutations({t1, t2, t3})
=============================================================================
