----------------------------- MODULE ToolGateway -----------------------------
(***************************************************************************)
(* StdioMCPToolGateway (mcp/gateway.py lines 278-463): request threads put *)
(* operations on a queue and block on a future; one worker takes them in   *)
(* order, starts the MCP server of a name on first use, keeps the session, *)
(* and waits a bounded time for every answer.                              *)
(*                                                                         *)
(* A call is <<caller, n>>.  A server process executes the requests it     *)
(* received one at a time and in order; a request the worker no longer     *)
(* waits for stays in its inbox.  Arguments and results are left out, and  *)
(* so is authorisation, which happens before any shared state is touched.  *)
(***************************************************************************)
EXTENDS Naturals, Sequences, FiniteSets

CONSTANTS Callers,     \* threads that call tools
          Closers,     \* threads that call close()
          ServerNames, \* configured MCP servers
          MaxCalls,    \* bound on the calls of one caller
          MaxSpawns    \* bound on the processes started for one server name

ASSUME GatewayAssumption ==
    /\ Callers \cap Closers = {}
    /\ MaxCalls \in Nat /\ MaxSpawns \in Nat

VARIABLES
    closed,     \* self.closed
    requests,   \* self._requests
    worker,     \* what the worker thread does
    current,    \* the request it works on, <<>> or <<request>>
    replied,    \* the server's answer to current is on its way
    sessions,   \* self._sessions: the process a name's session talks to, 0 if none
    processes,  \* per server name, the processes started so far
    thread,     \* where a caller or closer is
    made,       \* how many calls a caller has made
    answers,    \* history: how every call stands or ended
    arrivals,   \* history: the calls in the order they were queued
    executed    \* history: per server name, the calls executed, in order

clients == <<thread, made, answers>>
vars == <<closed, requests, worker, current, replied, sessions, processes,
          clients, arrivals, executed>>

Calls == Callers \X (1..MaxCalls)
CallRequest == [op : {"call"}, client : Callers, id : Calls, server : ServerNames]
CloseRequest == [op : {"close"}, client : Closers]
Request == CallRequest \cup CloseRequest

(* used: the process was sent a request. *)
Process == [up : BOOLEAN, used : BOOLEAN, inbox : Seq(Calls)]

Init ==
    /\ closed = FALSE
    /\ requests = <<>>
    /\ worker = "idle"
    /\ current = <<>>
    /\ replied = FALSE
    /\ sessions = [s \in ServerNames |-> 0]
    /\ processes = [s \in ServerNames |-> <<>>]
    /\ thread = [c \in Callers \cup Closers |-> "out"]
    /\ made = [c \in Callers |-> 0]
    /\ answers = [c \in Calls |-> "none"]
    /\ arrivals = <<>>
    /\ executed = [s \in ServerNames |-> <<>>]
-----------------------------------------------------------------------------
(* Threads.                                                                 *)

(* _run: a closed gateway refuses; the check and the put are two steps.     *)
Begin(c) ==
    LET id == <<c, made[c] + 1>> IN
    /\ thread[c] = "out" /\ made[c] < MaxCalls
    /\ made' = [made EXCEPT ![c] = @ + 1]
    /\ answers' = [answers EXCEPT ![id] = IF closed THEN "error" ELSE "pending"]
    /\ thread' = [thread EXCEPT ![c] = IF closed THEN "out" ELSE "checked"]
    /\ UNCHANGED <<closed, requests, worker, current, replied, sessions,
                   processes, arrivals, executed>>

(* Mutant: the newest request is taken first. *)
PutCallInFront(c) ==
    LET id == <<c, made[c]>> IN
    /\ thread[c] = "checked" /\ c \in Callers
    /\ \E s \in ServerNames :
          requests' = <<[op |-> "call", client |-> c, id |-> id, server |-> s]>> \o requests
    /\ thread' = [thread EXCEPT ![c] = "waiting"]
    /\ arrivals' = Append(arrivals, id)
    /\ UNCHANGED <<closed, worker, current, replied, sessions, processes,
                   made, answers, executed>>

PutCall(c) ==
    LET id == <<c, made[c]>> IN
    /\ thread[c] = "checked" /\ c \in Callers
    /\ \E s \in ServerNames :
          requests' = Append(requests, [op |-> "call", client |-> c, id |-> id, server |-> s])
    /\ thread' = [thread EXCEPT ![c] = "waiting"]
    /\ arrivals' = Append(arrivals, id)
    /\ UNCHANGED <<closed, worker, current, replied, sessions, processes,
                   made, answers, executed>>

(* close() checks closed, and _run checks it again.                         *)
BeginClose(c) ==
    /\ c \in Closers
    /\ \/ thread[c] = "out"
          /\ thread' = [thread EXCEPT ![c] = IF closed THEN "returned" ELSE "entering"]
       \/ thread[c] = "entering"
          /\ thread' = [thread EXCEPT ![c] = IF closed THEN "raised" ELSE "checked"]
    /\ UNCHANGED <<closed, requests, worker, current, replied, sessions,
                   processes, made, answers, arrivals, executed>>

PutClose(c) ==
    /\ thread[c] = "checked" /\ c \in Closers
    /\ requests' = Append(requests, [op |-> "close", client |-> c])
    /\ thread' = [thread EXCEPT ![c] = "waiting"]
    /\ UNCHANGED <<closed, worker, current, replied, sessions, processes,
                   made, answers, arrivals, executed>>

(* Back in close(), after the worker's answer (the join is bounded).        *)
FinishClose(c) ==
    /\ thread[c] = "finishing"
    /\ closed' = TRUE
    /\ thread' = [thread EXCEPT ![c] = "returned"]
    /\ UNCHANGED <<requests, worker, current, replied, sessions, processes,
                   made, answers, arrivals, executed>>
-----------------------------------------------------------------------------
(* The worker.                                                              *)

(* The request reaches the process unless it is down.                       *)
Sent(procs, s, p, id) ==
    [procs EXCEPT ![s][p].used = TRUE,
                  ![s][p].inbox = IF procs[s][p].up THEN Append(@, id) ELSE @]

Get ==
    /\ worker = "idle" /\ requests # <<>>
    /\ LET q == Head(requests) IN
       /\ current' = <<q>>
       /\ requests' = Tail(requests)
       /\ IF q.op = "close"
          THEN worker' = "closing" /\ UNCHANGED processes
          ELSE IF sessions[q.server] = 0
          THEN worker' = "connecting" /\ UNCHANGED processes
          ELSE /\ worker' = "calling"
               /\ processes' = Sent(processes, q.server, sessions[q.server], q.id)
    /\ replied' = FALSE
    /\ UNCHANGED <<closed, sessions, clients, arrivals, executed>>

Doing == current[1]

(* The future of the current request gets its result or its exception.      *)
Resolve(verdict) ==
    /\ worker' = "idle"
    /\ current' = <<>>
    /\ replied' = FALSE
    /\ answers' = [answers EXCEPT ![Doing.id] = verdict]
    /\ thread' = [thread EXCEPT ![Doing.client] = "out"]
    /\ UNCHANGED <<closed, requests, made, arrivals, executed>>

(* _session: the session is remembered only once it is initialised.         *)
Connect ==
    LET s == Doing.server
        started == [processes EXCEPT ![s] =
                      Append(@, [up |-> TRUE, used |-> FALSE, inbox |-> <<>>])]
        p == Len(started[s])
    IN
    /\ worker = "connecting" /\ Len(processes[s]) < MaxSpawns
    /\ sessions' = [sessions EXCEPT ![s] = p]
    /\ processes' = Sent(started, s, p, Doing.id)
    /\ worker' = "calling"
    /\ UNCHANGED <<closed, requests, current, replied, clients, arrivals, executed>>

(* The process does not start, or does not initialise in time; a process    *)
(* that was started stays on the exit stack.                                *)
ConnectFails ==
    LET s == Doing.server IN
    /\ worker = "connecting"
    /\ \/ UNCHANGED processes
       \/ /\ Len(processes[s]) < MaxSpawns
          /\ processes' = [processes EXCEPT ![s] =
                              Append(@, [up |-> TRUE, used |-> FALSE, inbox |-> <<>>])]
    /\ Resolve("error")
    /\ UNCHANGED sessions

Receive ==
    /\ worker = "calling" /\ replied
    /\ Resolve("result")
    /\ UNCHANGED <<sessions, processes>>

(* Mutant: a failed call drops the session, as a "reconnect" fix would. *)
CallFailsEvicting ==
    /\ worker = "calling"
    /\ sessions' = [sessions EXCEPT ![Doing.server] = 0]
    /\ Resolve("error")
    /\ UNCHANGED processes

(* Mutant: a call that was not answered in time is sent again. *)
CallFailsResending ==
    /\ worker = "calling" /\ ~replied
    /\ processes' = Sent(processes, Doing.server, sessions[Doing.server], Doing.id)
    /\ UNCHANGED <<closed, requests, worker, current, replied, sessions, clients,
                   arrivals, executed>>

(* Mutant: no wait_for, only a broken connection ends the wait. *)
CallFailsUntimed ==
    /\ worker = "calling"
    /\ ~processes[Doing.server][sessions[Doing.server]].up
    /\ Resolve("error")
    /\ UNCHANGED <<sessions, processes>>

(* wait_for runs out, or the connection is found broken.  The session stays *)
(* in the dictionary and the request stays with the server.                 *)
CallFails ==
    /\ worker = "calling"
    /\ Resolve("error")
    /\ UNCHANGED <<sessions, processes>>

Stopped(procs) == [s \in ServerNames |->
                     [p \in DOMAIN procs[s] |->
                        [procs[s][p] EXCEPT !.up = FALSE, !.inbox = <<>>]]]

(* Mutant: the exception of aclose() is not put into the future. *)
CloseSilently ==
    /\ worker = "closing"
    /\ processes' = Stopped(processes)
    /\ \/ worker' = "stopped" /\ thread' = [thread EXCEPT ![Doing.client] = "finishing"]
       \/ worker' = "idle" /\ UNCHANGED thread
    /\ current' = <<>>
    /\ UNCHANGED <<closed, requests, replied, sessions, made, answers, arrivals, executed>>

(* aclose() ends every process that was started; if it raises, the closer   *)
(* gets the exception and the worker goes on, sessions and all.             *)
Close ==
    /\ worker = "closing"
    /\ processes' = Stopped(processes)
    /\ \/ worker' = "stopped" /\ thread' = [thread EXCEPT ![Doing.client] = "finishing"]
       \/ worker' = "idle" /\ thread' = [thread EXCEPT ![Doing.client] = "raised"]
    /\ current' = <<>>
    /\ UNCHANGED <<closed, requests, replied, sessions, made, answers, arrivals, executed>>
-----------------------------------------------------------------------------
(* Server processes.                                                        *)

Execute(s, p) ==
    LET id == Head(processes[s][p].inbox) IN
    /\ processes[s][p].up /\ processes[s][p].inbox # <<>>
    /\ processes' = [processes EXCEPT ![s][p].inbox = Tail(@)]
    /\ executed' = [executed EXCEPT ![s] = Append(@, id)]
    /\ replied' = (replied \/ (worker = "calling" /\ Doing.id = id))
    /\ UNCHANGED <<closed, requests, worker, current, sessions, clients, arrivals>>

Die(s, p) ==
    /\ processes[s][p].up
    /\ processes' = [processes EXCEPT ![s][p].up = FALSE, ![s][p].inbox = <<>>]
    /\ UNCHANGED <<closed, requests, worker, current, replied, sessions, clients,
                   arrivals, executed>>
-----------------------------------------------------------------------------
WorkerStep == Get \/ Connect \/ ConnectFails \/ Receive \/ CallFails \/ Close

ClientStep(c) == \/ c \in Callers /\ Begin(c)
                 \/ PutCall(c) \/ BeginClose(c) \/ PutClose(c) \/ FinishClose(c)

Next ==
    \/ \E c \in Callers \cup Closers : ClientStep(c)
    \/ WorkerStep
    \/ \E s \in ServerNames : \E p \in DOMAIN processes[s] : Execute(s, p) \/ Die(s, p)

Spec == Init /\ [][Next]_vars

(* The worker thread and a thread inside close() keep running; nobody has to *)
(* call anything, and a server need not answer.                              *)
Fairness == /\ WF_vars(WorkerStep)
            /\ \A c \in Closers : WF_vars(ClientStep(c) /\ thread[c] # "out")

FairSpec == Spec /\ Fairness
-----------------------------------------------------------------------------
(* Every variable stays in its domain. *)
TypeOK ==
    /\ closed \in BOOLEAN
    /\ requests \in Seq(Request)
    /\ worker \in {"idle", "connecting", "calling", "closing", "stopped"}
    /\ current \in Seq(Request) /\ Len(current) <= 1
    /\ replied \in BOOLEAN
    /\ processes \in [ServerNames -> Seq(Process)]
    /\ sessions \in [ServerNames -> Nat]
    /\ \A s \in ServerNames : sessions[s] \in 0..Len(processes[s])
    /\ thread \in [Callers \cup Closers ->
                     {"out", "entering", "checked", "waiting", "finishing", "returned", "raised"}]
    /\ made \in [Callers -> 0..MaxCalls]
    /\ answers \in [Calls -> {"none", "pending", "result", "error"}]
    /\ arrivals \in Seq(Calls)
    /\ executed \in [ServerNames -> Seq(Calls)]

(* All calls to a server name are served by one process, however often       *)
(* starting it timed out: the one thing that makes two requests of a gateway *)
(* exclude each other in the server (_session).                              *)
OneServingProcess ==
    \A s \in ServerNames : \A p, q \in DOMAIN processes[s] :
        processes[s][p].used /\ processes[s][q].used => p = q

Position(id) == CHOOSE i \in DOMAIN arrivals : arrivals[i] = id

(* Calls take effect in the order they were put on the queue, those included *)
(* that timed out and are executed when nobody waits for them.               *)
ExecutedInOrder ==
    \A s \in ServerNames : \A i, j \in DOMAIN executed[s] :
        i < j => Position(executed[s][i]) < Position(executed[s][j])

(* A call is answered once, takes effect at most once, and has taken effect  *)
(* when it returns a result.                                                 *)
Effects == [id \in Calls |->
              Cardinality({e \in ServerNames \X (1..Len(arrivals)) :
                              e[2] \in DOMAIN executed[e[1]] /\ executed[e[1]][e[2]] = id})]

Contract == INSTANCE ToolCalls WITH answer <- answers, effects <- Effects

CallContract == Contract!Spec

(* A caller that queued its call gets an answer, even if the server hangs or *)
(* died, unless the gateway is shut down behind its back.                    *)
CallsAnswered ==
    \A c \in Callers : thread[c] = "waiting" ~> (thread[c] # "waiting" \/ worker = "stopped")

(* A close request that the worker left in the queue when it stopped. *)
LeftBehind(c) == worker = "stopped" /\ thread[c] = "waiting"

(* close() returns or raises, whatever is queued before it and even if a     *)
(* server hangs; unless another close() went before it in the queue and      *)
(* stopped the worker: the second future is never resolved (lines 394-399)   *)
(* and its thread waits in _run (line 365).                                  *)
CloseReturns ==
    \A c \in Closers :
        thread[c] = "entering" ~> (thread[c] \in {"returned", "raised"} \/ LeftBehind(c))
=============================================================================
