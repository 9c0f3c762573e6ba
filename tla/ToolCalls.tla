------------------------------ MODULE ToolCalls ------------------------------
(***************************************************************************)
(* What MCPToolGateway.call_tool promises its callers, whatever gateway is *)
(* behind it: a call is answered once; its effect happens at most once; a  *)
(* result means that the effect happened before the answer.  An error says *)
(* nothing: the effect may have happened, may never happen, or may still   *)
(* happen after the caller gave up.                                        *)
(***************************************************************************)
EXTENDS Naturals

CONSTANT Calls

VARIABLES answer,  \* per call: "none" (not made), "pending", "result" or "error"
          effects  \* per call: how often a server executed it

Init == /\ answer = [c \in Calls |-> "none"]
        /\ effects = [c \in Calls |-> 0]

Ask(c) == /\ answer[c] = "none"
          /\ answer' = [answer EXCEPT ![c] = "pending"]
          /\ UNCHANGED effects

Refuse(c) == /\ answer[c] = "none"
             /\ answer' = [answer EXCEPT ![c] = "error"]
             /\ UNCHANGED effects

Execute(c) == /\ answer[c] \in {"pending", "error"}
              /\ effects[c] = 0
              /\ effects' = [effects EXCEPT ![c] = 1]
              /\ UNCHANGED answer

Answer(c) == /\ answer[c] = "pending"
             /\ \/ effects[c] = 1 /\ answer' = [answer EXCEPT ![c] = "result"]
                \/ answer' = [answer EXCEPT ![c] = "error"]
             /\ UNCHANGED effects

Next == \E c \in Calls : Ask(c) \/ Refuse(c) \/ Execute(c) \/ Answer(c)

Spec == Init /\ [][Next]_<<answer, effects>>
=============================================================================
