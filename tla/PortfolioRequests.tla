-------------------------- MODULE PortfolioRequests --------------------------
(***************************************************************************)
(* What a run of the Portfolio Agent (PortfolioRun) needs to know of the   *)
(* request and of the evidence plan compiled from it (EvidencePlan).       *)
(***************************************************************************)

Freshness == {"latest_required", "cached_ok", "history_only"}

\* current: the goals need snapshot values; sql: the plan reads history or
\* stores; interpret: analysis_requirement; persist: persistence_mode
RequestRecord ==
    [fresh : Freshness, current : BOOLEAN, sql : BOOLEAN,
     interpret : BOOLEAN, persist : BOOLEAN]

\* What the evidence compiler makes of any request
Coherent(r) ==
    /\ r.fresh = "latest_required" => r.current
    /\ r.fresh = "history_only" => ~r.current /\ r.sql /\ ~r.persist
    /\ r.persist => r.sql
=============================================================================
