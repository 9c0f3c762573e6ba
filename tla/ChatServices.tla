---------------------------- MODULE ChatServices ----------------------------
(***************************************************************************)
(* The ChatService that all request threads of ThreadingHTTPServer share   *)
(* (scripts/serve_chat.py, chat_api.py lines 39-153).  Its gateway, its    *)
(* data service and its baseline service are made on first use, without a  *)
(* lock: the test for None, the assignment and the read that returns the   *)
(* attribute are separate steps, and making a service calls mcp_gateway()  *)
(* in between.                                                             *)
(*                                                                         *)
(* A gateway is a number in the order of creation; a service is the number *)
(* of the gateway it was given.  A request is a dashboard request (status, *)
(* dashboard, refresh: one use of the data service) or a chat run (the     *)
(* gateway, then the baseline service).  What is done with a gateway is    *)
(* the subject of ToolGateway.                                             *)
(***************************************************************************)
EXTENDS Naturals, Sequences

CONSTANTS Threads,    \* request threads
          MaxRequests \* bound on the requests a thread serves

ASSUME ThreadsAssumption == MaxRequests \in Nat

VARIABLES
    gateway,    \* self._mcp_gateway, NoneYet if not made
    service,    \* self._portfolio_data_service and self._portfolio_baseline_service
    isOpen,     \* per gateway made so far, whether it is open
    step,       \* what a thread does next
    making,     \* the service a thread is making, or "run": it is in run()
    result,     \* what mcp_gateway() returned to a thread
    uses,       \* the gateways the request of a thread works with
    served,     \* how many requests a thread took
    server,     \* the HTTP server: "serving", "closed" or "exited"
    raced       \* history: a thread began to make a gateway, or close() closed,
                \* while another thread was making one; or a thread began to make
                \* one after close()

threadVars == <<step, making, result, uses, served>>
vars == <<gateway, service, isOpen, threadVars, server, raced>>

NoneYet == 0
Services == {"data", "baseline"}
Gateways == 1..Len(isOpen)

Init ==
    /\ gateway = NoneYet
    /\ service = [x \in Services |-> NoneYet]
    /\ isOpen = <<>>
    /\ step = [t \in Threads |-> "out"]
    /\ making = [t \in Threads |-> "run"]
    /\ result = [t \in Threads |-> NoneYet]
    /\ uses = [t \in Threads |-> {}]
    /\ served = [t \in Threads |-> 0]
    /\ server = "serving"
    /\ raced = FALSE

Goes(t, from, to) ==
    /\ step[t] = from /\ server # "exited"
    /\ step' = [step EXCEPT ![t] = to]

BeingMade == \E t \in Threads : step[t] = "make gateway"
-----------------------------------------------------------------------------
(* do_GET and do_POST: a dashboard request asks for the data service, a chat *)
(* request (run) for the gateway.                                           *)
Arrive(t) ==
    /\ server = "serving" /\ served[t] < MaxRequests
    /\ served' = [served EXCEPT ![t] = @ + 1]
    /\ uses' = [uses EXCEPT ![t] = {}]
    /\ \/ Goes(t, "out", "check service") /\ making' = [making EXCEPT ![t] = "data"]
       \/ Goes(t, "out", "check gateway") /\ making' = [making EXCEPT ![t] = "run"]
    /\ UNCHANGED <<gateway, service, isOpen, result, server, raced>>

(* portfolio_data_service() and portfolio_baseline_service(): if ... is None *)
CheckService(t) ==
    /\ Goes(t, "check service",
            IF service[making[t]] = NoneYet THEN "check gateway" ELSE "return service")
    /\ UNCHANGED <<gateway, service, isOpen, making, result, uses, served, server, raced>>

(* Mutant: a closed gateway is replaced. *)
CheckGatewayOpen(t) ==
    /\ Goes(t, "check gateway",
            IF gateway = NoneYet \/ (gateway \in Gateways /\ ~isOpen[gateway])
            THEN "make gateway" ELSE "return gateway")
    /\ UNCHANGED <<gateway, service, isOpen, making, result, uses, served, server, raced>>

(* mcp_gateway(): if ... is None *)
CheckGateway(t) ==
    /\ Goes(t, "check gateway", IF gateway = NoneYet THEN "make gateway" ELSE "return gateway")
    /\ raced' = (raced \/ (gateway = NoneYet /\ (BeingMade \/ server = "closed")))
    /\ UNCHANGED <<gateway, service, isOpen, making, result, uses, served, server>>

MakeGateway(t) ==
    /\ Goes(t, "make gateway", "return gateway")
    /\ isOpen' = Append(isOpen, TRUE)
    /\ gateway' = Len(isOpen')
    /\ UNCHANGED <<service, making, result, uses, served, server, raced>>

(* mcp_gateway() reads the attribute again to return it; run() goes on to    *)
(* the baseline service.                                                     *)
ReturnGateway(t) ==
    /\ result' = [result EXCEPT ![t] = gateway]
    /\ IF making[t] = "run"
       THEN /\ Goes(t, "return gateway", "check service")
            /\ making' = [making EXCEPT ![t] = "baseline"]
            /\ uses' = [uses EXCEPT ![t] = @ \cup {gateway}]
       ELSE Goes(t, "return gateway", "make service") /\ UNCHANGED <<making, uses>>
    /\ UNCHANGED <<gateway, service, isOpen, served, server, raced>>

MakeService(t) ==
    /\ Goes(t, "make service", "return service")
    /\ service' = [service EXCEPT ![making[t]] = result[t]]
    /\ UNCHANGED <<gateway, isOpen, making, result, uses, served, server, raced>>

ReturnService(t) ==
    /\ Goes(t, "return service", "work")
    /\ uses' = [uses EXCEPT ![t] = @ \cup {service[making[t]]}]
    /\ UNCHANGED <<gateway, service, isOpen, making, result, served, server, raced>>

(* The request is answered. *)
Respond(t) ==
    /\ Goes(t, "work", "out")
    /\ UNCHANGED <<gateway, service, isOpen, making, result, uses, served, server, raced>>
-----------------------------------------------------------------------------
(* Mutant: close() goes through the data service. *)
CloseDataService ==
    /\ server = "serving"
    /\ server' = "closed"
    /\ isOpen' = [g \in Gateways |-> isOpen[g] /\ g # service["data"]]
    /\ raced' = (raced \/ BeingMade)
    /\ UNCHANGED <<gateway, service, threadVars>>

(* serve_forever ends; close() closes the gateway in the slot, if any.       *)
(* Request threads go on until the process exits.                            *)
Close ==
    /\ server = "serving"
    /\ server' = "closed"
    /\ isOpen' = [g \in Gateways |-> isOpen[g] /\ g # gateway]
    /\ raced' = (raced \/ BeingMade)
    /\ UNCHANGED <<gateway, service, threadVars>>

Exit ==
    /\ server = "closed"
    /\ server' = "exited"
    /\ UNCHANGED <<gateway, service, isOpen, threadVars, raced>>

ThreadStep(t) == \/ Arrive(t) \/ CheckService(t) \/ CheckGateway(t) \/ MakeGateway(t)
                 \/ ReturnGateway(t) \/ MakeService(t) \/ ReturnService(t) \/ Respond(t)

Next == (\E t \in Threads : ThreadStep(t)) \/ Close \/ Exit

Spec == Init /\ [][Next]_vars
-----------------------------------------------------------------------------
(* Every variable stays in its domain; nobody is handed a None. *)
TypeOK ==
    /\ isOpen \in Seq(BOOLEAN)
    /\ gateway \in Gateways \cup {NoneYet}
    /\ service \in [Services -> Gateways \cup {NoneYet}]
    /\ step \in [Threads -> {"out", "check service", "check gateway", "make gateway",
                             "return gateway", "make service", "return service", "work"}]
    /\ making \in [Threads -> Services \cup {"run"}]
    /\ result \in [Threads -> Gateways \cup {NoneYet}]
    /\ uses \in [Threads -> SUBSET Gateways]
    /\ served \in [Threads -> 0..MaxRequests]
    /\ server \in {"serving", "closed", "exited"}
    /\ raced \in BOOLEAN

(* Every service, and every request, works with the gateway that close()    *)
(* will close: the deployment has one gateway, hence one process per MCP    *)
(* server and one writer process on the database.                           *)
SharedGateway ==
    /\ \A x \in Services : service[x] \in {NoneYet, gateway}
    /\ \A t \in Threads : uses[t] \subseteq {gateway}

Settled == gateway # NoneYet /\ \A t \in Threads : step[t] # "make gateway"

(* The race is confined to the first use: once a gateway is there and nobody *)
(* is making another one, no step ever makes one or replaces it, not even    *)
(* after close().                                                            *)
NoGatewayOnceSettled ==
    [][Settled => Settled' /\ gateway' = gateway /\ Len(isOpen') = Len(isOpen)]_vars

(* The shutdown leaves no gateway open, however requests overlap each other  *)
(* and close(), unless two threads were making a gateway at once, or one was *)
(* making one at close() or after it.                                        *)
CleanShutdown == (server = "exited" /\ ~raced) => \A g \in Gateways : ~isOpen[g]
=============================================================================
