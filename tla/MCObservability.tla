-------------------------- MODULE MCObservability --------------------------
EXTENDS Observability
CONSTANTS t1, t2, t3
\* The two nodes that call a model.
NodesInOrder == <<"plan_investment", "call_portfolio">>
ThreadSymmetry == Permutations({t1, t2, t3})
=============================================================================
