-------------------------- MODULE ToolGatewayProofs --------------------------
(***************************************************************************)
(* The safety properties of ToolGateway, for any number of callers,        *)
(* closers, servers, calls and processes, and the proof that it implements *)
(* ToolCalls.                                                              *)
(*                                                                         *)
(* A call waits in the queue, is worked on, waits in the inbox of a server *)
(* process and is executed.  GatewayInv says that these places hold the    *)
(* calls in the order of their arrival and no call twice.                  *)
(***************************************************************************)
EXTENDS ToolGateway, SequenceTheorems, FiniteSetTheorems, TLAPS

(* a was queued before b. *)
Before(a, b) ==
    \E i, j \in DOMAIN arrivals : i < j /\ arrivals[i] = a /\ arrivals[j] = b

Arrived(id) == \E i \in DOMAIN arrivals : arrivals[i] = id

Queued(id) == \E i \in DOMAIN requests : requests[i].op = "call" /\ requests[i].id = id

Busy == worker \in {"connecting", "calling"}

(* A request for id is in the inbox of a process of s. *)
Waiting(s, id) ==
    \E p \in DOMAIN processes[s] :
        \E i \in DOMAIN processes[s][p].inbox : processes[s][p].inbox[i] = id

Done(s, id) == \E i \in DOMAIN executed[s] : executed[s][i] = id

(* A server has, or had, a request for id. *)
At(s, id) == Waiting(s, id) \/ Done(s, id)

-----------------------------------------------------------------------------
(* The worker has the kind of request that its state is about; a name being *)
(* connected has no session.                                                *)
WorkerInv ==
    /\ Busy => current # <<>> /\ Doing.op = "call"
    /\ worker = "closing" => current # <<>> /\ Doing.op = "close"
    /\ worker = "connecting" => sessions[Doing.server] = 0
    /\ worker = "calling" => sessions[Doing.server] # 0
    /\ replied => worker = "calling" /\ \E s \in ServerNames : Done(s, Doing.id)

(* Only the process a session talks to was ever sent a request. *)
ServingInv ==
    \A s \in ServerNames : \A p \in DOMAIN processes[s] :
        /\ processes[s][p].used => p = sessions[s]
        /\ processes[s][p].inbox # <<>> => processes[s][p].used

(* Every call arrives once, after it was made, and is nowhere before. *)
ArrivalInv ==
    /\ \A i, j \in DOMAIN arrivals : arrivals[i] = arrivals[j] => i = j
    /\ \A id \in Calls : Arrived(id) => id[2] <= made[id[1]]
    /\ \A c \in Callers : thread[c] = "checked" => made[c] # 0 /\ ~Arrived(<<c, made[c]>>)
    /\ \A id \in Calls : Queued(id) => Arrived(id)
    /\ Busy => Arrived(Doing.id)
    /\ \A s \in ServerNames, id \in Calls : At(s, id) => Arrived(id)

(* What is still queued came after what was taken from the queue. *)
QueueInv ==
    /\ \A i, j \in DOMAIN requests :
           i < j /\ requests[i].op = "call" /\ requests[j].op = "call"
               => Before(requests[i].id, requests[j].id)
    /\ \A id \in Calls : Queued(id) /\ Busy => Before(Doing.id, id)
    /\ \A s \in ServerNames, a, b \in Calls : At(s, a) /\ Queued(b) => Before(a, b)
    /\ \A s \in ServerNames, a \in Calls :
           At(s, a) /\ worker = "connecting" => Before(a, Doing.id)

(* A server executes its inbox in order, and no other server has its calls. *)
ServerInv ==
    /\ \A s \in ServerNames : \A p \in DOMAIN processes[s] :
           \A i, j \in DOMAIN processes[s][p].inbox :
               i < j => Before(processes[s][p].inbox[i], processes[s][p].inbox[j])
    /\ \A s \in ServerNames, a, b \in Calls : Done(s, a) /\ Waiting(s, b) => Before(a, b)
    /\ \A s \in ServerNames : \A i, j \in DOMAIN executed[s] :
           i < j => Before(executed[s][i], executed[s][j])
    /\ \A s, t \in ServerNames, id \in Calls : At(s, id) /\ At(t, id) => s = t

(* The n-th call a server executed is not among the first n - 1 arrivals. *)
LateInv ==
    \A s \in ServerNames : \A i \in DOMAIN executed[s] :
        \E j \in DOMAIN arrivals : i <= j /\ arrivals[j] = executed[s][i]

(* How a call stands, by where it is. *)
AnswerInv ==
    /\ \A c \in Callers, n \in 1..MaxCalls : n > made[c] => answers[<<c, n>>] = "none"
    /\ \A c \in Callers : thread[c] = "checked" => answers[<<c, made[c]>>] = "pending"
    /\ \A id \in Calls : Queued(id) => answers[id] = "pending"
    /\ Busy => answers[Doing.id] = "pending"
    /\ \A s \in ServerNames, id \in Calls :
           Waiting(s, id) => answers[id] \in {"pending", "error"}

GatewayInv == /\ TypeOK /\ WorkerInv /\ ServingInv /\ ArrivalInv /\ QueueInv
              /\ ServerInv /\ LateInv /\ AnswerInv
-----------------------------------------------------------------------------
(* Sequences that get longer at the end and shorter at the front. *)

LEMMA Extended ==
  ASSUME NEW S, NEW q \in Seq(S), NEW e \in S, NEW r, r = Append(q, e)
  PROVE  /\ r \in Seq(S) /\ Len(r) = Len(q) + 1 /\ Len(r) \in Nat
         /\ DOMAIN r = DOMAIN q \cup {Len(r)}
         /\ \A i \in DOMAIN q : i \in Nat /\ i < Len(r) /\ r[i] = q[i]
         /\ r[Len(r)] = e
  <1>1. /\ r \in Seq(S) /\ Len(r) = Len(q) + 1
        /\ \A i \in 1..Len(q) : r[i] = q[i]
        /\ r[Len(q) + 1] = e
    BY AppendProperties
  <1>2. Len(q) \in Nat /\ DOMAIN q = 1..Len(q) /\ DOMAIN r = 1..Len(r)
    BY <1>1, LenProperties
  <1> QED
    BY <1>1, <1>2

(* Two places of the longer one, the first of them before the second. *)
LEMMA ExtendedPair ==
  ASSUME NEW S, NEW q \in Seq(S), NEW e \in S, NEW r, r = Append(q, e),
         NEW i \in DOMAIN r, NEW j \in DOMAIN r, i < j
  PROVE  /\ i \in DOMAIN q /\ r[i] = q[i] /\ q[i] \in S
         /\ \/ j \in DOMAIN q /\ r[j] = q[j]
            \/ j = Len(r) /\ r[j] = e
  <1> DEFINE n == Len(r)
  <1>1. /\ n \in Nat /\ DOMAIN r = DOMAIN q \cup {n}
        /\ \A k \in DOMAIN q : k \in Nat /\ k < n /\ r[k] = q[k]
        /\ r[n] = e
    BY Extended
  <1> HIDE DEF n
  <1>2. i \in DOMAIN q
    BY <1>1
  <1>3. q[i] \in S
    BY <1>2, LenProperties, ElementOfSeq
  <1> QED
    BY <1>1, <1>2, <1>3 DEF n

LEMMA Shortened ==
  ASSUME NEW S, NEW q \in Seq(S), q # <<>>, NEW r, r = Tail(q)
  PROVE  /\ r \in Seq(S)
         /\ 1 \in DOMAIN q /\ Head(q) = q[1] /\ Head(q) \in S
         /\ \A i \in DOMAIN r : /\ i \in Nat /\ i + 1 \in DOMAIN q /\ 1 < i + 1
                               /\ r[i] = q[i + 1]
  <1>1. Len(q) \in Nat \ {0} /\ DOMAIN q = 1..Len(q) /\ Head(q) = q[1]
    BY EmptySeq, LenProperties
  <1>2. /\ Head(q) \in S /\ r \in Seq(S) /\ Len(r) = Len(q) - 1
        /\ \A i \in 1..Len(r) : r[i] = q[i + 1]
    BY HeadTailProperties
  <1>3. DOMAIN r = 1..Len(r)
    BY <1>2, LenProperties
  <1> QED
    BY <1>1, <1>2, <1>3

-----------------------------------------------------------------------------
(* Requests and processes. *)

LEMMA RequestKinds ==
  ASSUME NEW q \in Request
  PROVE  /\ q.op = "call" => q.client \in Callers /\ q.id \in Calls /\ q.server \in ServerNames
         /\ q.op # "call" => q.op = "close" /\ q.client \in Closers
  BY DEF Request, CallRequest, CloseRequest

(* procs with x in the place of the process p of s. *)
Replaced(procs, s, p, x) == [procs EXCEPT ![s] = [procs[s] EXCEPT ![p] = x]]

ReplacedIs(procs, s, p, x, new) ==
    /\ new \in [ServerNames -> Seq(Process)]
    /\ \A t \in ServerNames : Len(new[t]) = Len(procs[t]) /\ DOMAIN new[t] = DOMAIN procs[t]
    /\ \A t \in ServerNames : t # s => new[t] = procs[t]
    /\ new[s][p] = x
    /\ \A q \in DOMAIN procs[s] : q # p => new[s][q] = procs[s][q]

LEMMA ReplacedResult ==
  ASSUME NEW procs \in [ServerNames -> Seq(Process)], NEW s \in ServerNames,
         NEW p \in DOMAIN procs[s], NEW x \in Process
  PROVE  ReplacedIs(procs, s, p, x, Replaced(procs, s, p, x))
  <1> DEFINE row == [procs[s] EXCEPT ![p] = x]
             new == Replaced(procs, s, p, x)
  <1>1. procs[s] \in Seq(Process)
    OBVIOUS
  <1>2. DOMAIN procs[s] = 1..Len(procs[s])
    BY <1>1, LenProperties
  <1>3. row \in Seq(Process) /\ Len(row) = Len(procs[s])
    BY <1>1, <1>2, ExceptSeq
  <1>4. DOMAIN row = DOMAIN procs[s] /\ row[p] = x /\ \A q \in DOMAIN procs[s] : q # p => row[q] = procs[s][q]
    OBVIOUS
  <1>5. new = [procs EXCEPT ![s] = row]
    BY DEF Replaced
  <1> HIDE DEF row, new
  <1>6. new[s] = row /\ \A t \in ServerNames : t # s => new[t] = procs[t]
    BY <1>5
  <1>7. new \in [ServerNames -> Seq(Process)]
    BY <1>3, <1>5
  <1> QED
    BY <1>3, <1>4, <1>6, <1>7 DEF new, ReplacedIs

(* A request that is sent marks its process and is in the inbox if that is up. *)
LEMMA SentResult ==
  ASSUME NEW procs \in [ServerNames -> Seq(Process)], NEW s \in ServerNames,
         NEW p \in DOMAIN procs[s], NEW id \in Calls
  PROVE  LET new == Sent(procs, s, p, id) IN
         /\ new \in [ServerNames -> Seq(Process)]
         /\ \A t \in ServerNames : Len(new[t]) = Len(procs[t]) /\ DOMAIN new[t] = DOMAIN procs[t]
         /\ \A t \in ServerNames : t # s => new[t] = procs[t]
         /\ new[s][p].used
         /\ new[s][p].inbox \in {procs[s][p].inbox, Append(procs[s][p].inbox, id)}
         /\ \A q \in DOMAIN procs[s] : q # p => new[s][q] = procs[s][q]
  <1> DEFINE old == procs[s][p]
             box == IF old.up THEN Append(old.inbox, id) ELSE old.inbox
             x == [old EXCEPT !.used = TRUE, !.inbox = box]
  <1>1. procs[s] \in Seq(Process) /\ old \in Process
    BY LenProperties, ElementOfSeq
  <1>2. box \in Seq(Calls)
    BY <1>1, AppendProperties DEF Process
  <1>3. x \in Process /\ x.used /\ x.inbox = box
    <2> HIDE DEF box
    <2> QED
      BY <1>1, <1>2 DEF Process
  <1>4. Sent(procs, s, p, id) = Replaced(procs, s, p, x)
    BY <1>1 DEF Sent, Replaced, Process
  <1>5. box \in {old.inbox, Append(old.inbox, id)}
    OBVIOUS
  <1> HIDE DEF x, box
  <1> QED
    BY <1>3, <1>4, <1>5, ReplacedResult DEF ReplacedIs

Fresh == [up |-> TRUE, used |-> FALSE, inbox |-> <<>>]

(* procs with one more process of s. *)
Started(procs, s) == [procs EXCEPT ![s] = Append(@, Fresh)]

LEMMA StartedResult ==
  ASSUME NEW procs \in [ServerNames -> Seq(Process)], NEW s \in ServerNames
  PROVE  LET new == Started(procs, s) IN
         /\ new \in [ServerNames -> Seq(Process)]
         /\ \A t \in ServerNames : t # s => new[t] = procs[t]
         /\ Len(new[s]) = Len(procs[s]) + 1 /\ Len(new[s]) \in Nat
         /\ DOMAIN new[s] = DOMAIN procs[s] \cup {Len(new[s])}
         /\ \A p \in DOMAIN procs[s] : p \in Nat /\ p < Len(new[s]) /\ new[s][p] = procs[s][p]
         /\ new[s][Len(new[s])] = Fresh
  <1> DEFINE new == Started(procs, s)
  <1>0. new = [procs EXCEPT ![s] = Append(@, Fresh)]
    BY DEF Started
  <1> HIDE DEF new
  <1>1. Fresh \in Process
    <2>1. <<>> \in Seq(Calls)
      BY EmptySeq
    <2> QED
      BY <2>1 DEF Fresh, Process
  <1>2. new[s] = Append(procs[s], Fresh) /\ \A t \in ServerNames : t # s => new[t] = procs[t]
    BY <1>0, Zenon
  <1>3. procs[s] \in Seq(Process)
    OBVIOUS
  <1>4. /\ new[s] \in Seq(Process) /\ Len(new[s]) = Len(procs[s]) + 1 /\ Len(new[s]) \in Nat
        /\ DOMAIN new[s] = DOMAIN procs[s] \cup {Len(new[s])}
        /\ \A p \in DOMAIN procs[s] : p \in Nat /\ p < Len(new[s]) /\ new[s][p] = procs[s][p]
        /\ new[s][Len(new[s])] = Fresh
    BY <1>1, <1>2, <1>3, Extended
  <1>5. new \in [ServerNames -> Seq(Process)]
    <2>1. new = [t \in ServerNames |-> new[t]]
      BY <1>0, Zenon
    <2>2. \A t \in ServerNames : new[t] \in Seq(Process)
      BY <1>2, <1>4
    <2> QED
      BY <2>1, <2>2, Zenon
  <1> QED
    BY <1>2, <1>4, <1>5 DEF new

(* A process that is no longer up has an empty inbox, whatever it was. *)
LEMMA StoppedResult ==
  ASSUME NEW procs \in [ServerNames -> Seq(Process)]
  PROVE  LET new == Stopped(procs) IN
         /\ new \in [ServerNames -> Seq(Process)]
         /\ \A s \in ServerNames :
               /\ Len(new[s]) = Len(procs[s]) /\ DOMAIN new[s] = DOMAIN procs[s]
               /\ \A p \in DOMAIN procs[s] :
                     new[s][p].used = procs[s][p].used /\ new[s][p].inbox = <<>>
  <1> DEFINE new == Stopped(procs)
  <1>1. <<>> \in Seq(Calls)
    BY EmptySeq
  <1>2. ASSUME NEW s \in ServerNames
        PROVE  /\ new[s] \in Seq(Process)
               /\ Len(new[s]) = Len(procs[s]) /\ DOMAIN new[s] = DOMAIN procs[s]
               /\ \A p \in DOMAIN procs[s] :
                     new[s][p].used = procs[s][p].used /\ new[s][p].inbox = <<>>
    <2>1. /\ procs[s] \in Seq(Process) /\ Len(procs[s]) \in Nat
          /\ DOMAIN procs[s] = 1..Len(procs[s])
          /\ \A p \in 1..Len(procs[s]) : procs[s][p] \in Process
      BY LenProperties, ElementOfSeq
    <2>2. new[s] = [p \in DOMAIN procs[s] |-> [procs[s][p] EXCEPT !.up = FALSE, !.inbox = <<>>]]
      BY DEF Stopped
    <2>3. ASSUME NEW p \in DOMAIN procs[s]
          PROVE  /\ new[s][p] \in Process
                 /\ new[s][p].used = procs[s][p].used /\ new[s][p].inbox = <<>>
      <3>1. procs[s][p] \in Process /\ new[s][p] = [procs[s][p] EXCEPT !.up = FALSE, !.inbox = <<>>]
        BY <2>1, <2>2
      <3> QED
        BY <1>1, <3>1 DEF Process
    <2>4. new[s] \in [1..Len(procs[s]) -> Process]
      BY <2>1, <2>2, <2>3
    <2>5. new[s] \in Seq(Process) /\ Len(new[s]) = Len(procs[s])
      BY SMTT(30), <2>1, <2>4, SeqDef
    <2> QED
      BY <2>1, <2>2, <2>3, <2>5
  <1>3. new = [s \in ServerNames |-> new[s]]
    BY DEF Stopped
  <1> HIDE DEF new
  <1>4. new \in [ServerNames -> Seq(Process)]
    BY <1>2, <1>3
  <1> QED
    BY <1>2, <1>4 DEF new

(* procs after the process p of s took the first request from its inbox. *)
Served(procs, s, p) == [procs EXCEPT ![s][p].inbox = Tail(@)]

ServedIs(procs, s, p, new) ==
    /\ new \in [ServerNames -> Seq(Process)]
    /\ \A t \in ServerNames : Len(new[t]) = Len(procs[t]) /\ DOMAIN new[t] = DOMAIN procs[t]
    /\ \A t \in ServerNames : t # s => new[t] = procs[t]
    /\ new[s][p].used = procs[s][p].used
    /\ new[s][p].inbox = Tail(procs[s][p].inbox)
    /\ \A q \in DOMAIN procs[s] : q # p => new[s][q] = procs[s][q]

LEMMA ServedResult ==
  ASSUME NEW procs \in [ServerNames -> Seq(Process)], NEW s \in ServerNames,
         NEW p \in DOMAIN procs[s], procs[s][p].inbox # <<>>
  PROVE  ServedIs(procs, s, p, Served(procs, s, p))
  <1> DEFINE old == procs[s][p]
             rest == Tail(old.inbox)
             x == [old EXCEPT !.inbox = rest]
             new == Served(procs, s, p)
  <1>1. procs[s] \in Seq(Process) /\ old \in Process
    BY LenProperties, ElementOfSeq
  <1>2. rest \in Seq(Calls)
    BY <1>1, HeadTailProperties DEF Process
  <1>3. x \in Process /\ x.used = old.used /\ x.inbox = rest
    <2> HIDE DEF rest
    <2> QED
      BY <1>1, <1>2 DEF Process
  <1>4. new = Replaced(procs, s, p, x)
    BY DEF Replaced, Served
  <1> HIDE DEF x, new
  <1>5. ReplacedIs(procs, s, p, x, new)
    BY <1>3, <1>4, ReplacedResult
  <1>6. ServedIs(procs, s, p, new)
    BY <1>3, <1>5 DEF ServedIs, ReplacedIs
  <1> QED
    BY <1>6 DEF new

(* procs after the process p of s died: it keeps nothing. *)
Died(procs, s, p) == [procs EXCEPT ![s][p].up = FALSE, ![s][p].inbox = <<>>]

LEMMA DiedResult ==
  ASSUME NEW procs \in [ServerNames -> Seq(Process)], NEW s \in ServerNames,
         NEW p \in DOMAIN procs[s]
  PROVE  LET new == Died(procs, s, p) IN
         /\ new \in [ServerNames -> Seq(Process)]
         /\ \A t \in ServerNames :
               /\ Len(new[t]) = Len(procs[t]) /\ DOMAIN new[t] = DOMAIN procs[t]
               /\ \A q \in DOMAIN procs[t] :
                     /\ new[t][q].used = procs[t][q].used
                     /\ new[t][q].inbox \in {procs[t][q].inbox, <<>>}
  <1> DEFINE old == procs[s][p]
             x == [old EXCEPT !.up = FALSE, !.inbox = <<>>]
             new == Died(procs, s, p)
  <1>1. procs[s] \in Seq(Process) /\ old \in Process /\ <<>> \in Seq(Calls)
    BY LenProperties, ElementOfSeq, EmptySeq
  <1>2. x \in Process /\ x.used = old.used /\ x.inbox = <<>>
    BY <1>1 DEF Process
  <1>3. new = Replaced(procs, s, p, x)
    BY DEF Replaced, Died
  <1> HIDE DEF x, new
  <1>4. ReplacedIs(procs, s, p, x, new)
    BY <1>2, <1>3, ReplacedResult
  <1> QED
    BY <1>2, <1>4 DEF new, ReplacedIs

-----------------------------------------------------------------------------
(* Types. *)

LEMMA InboxType ==
  ASSUME TypeOK, NEW s \in ServerNames, NEW p \in DOMAIN processes[s]
  PROVE  processes[s][p].inbox \in Seq(Calls)
  <1>1. processes[s] \in Seq(Process)
    BY DEF TypeOK
  <1>2. processes[s][p] \in Process
    BY <1>1, LenProperties, ElementOfSeq
  <1> QED
    BY <1>2 DEF Process

(* The request being worked on is a call when the worker works on a call. *)
LEMMA DoingType ==
  ASSUME TypeOK, WorkerInv
  PROVE  /\ Busy => /\ Doing.client \in Callers /\ Doing.id \in Calls
                    /\ Doing.server \in ServerNames
         /\ worker = "closing" => Doing.client \in Closers
  <1>1. current # <<>> => Doing \in Request
    BY EmptySeq, LenProperties, ElementOfSeq DEF TypeOK, Doing
  <1> QED
    BY <1>1, RequestKinds DEF WorkerInv, Busy

LEMMA ResolveType ==
  ASSUME TypeOK, WorkerInv, Busy, NEW verdict \in {"result", "error"}, Resolve(verdict),
         processes' \in [ServerNames -> Seq(Process)],
         sessions' = sessions, \A s \in ServerNames : sessions[s] \in 0..Len(processes'[s])
  PROVE  TypeOK'
  <1>1. Doing.client \in Callers /\ Doing.id \in Calls
    BY DoingType
  <1>2. current' \in Seq(Request) /\ Len(current') <= 1
    BY EmptySeq DEF Resolve
  <1>3. replied' \in BOOLEAN
    BY Zenon DEF Resolve
  <1>4. answers' \in [Calls -> {"none", "pending", "result", "error"}]
    BY <1>1 DEF Resolve, TypeOK
  <1> QED
    BY <1>1, <1>2, <1>3, <1>4 DEF Resolve, TypeOK

(* A new session talks to a new process, which was sent the one request. *)
LEMMA ConnectResult ==
  ASSUME TypeOK, WorkerInv, Connect
  PROVE  LET s == Doing.server
             p == Len(processes[s]) + 1
         IN
         /\ s \in ServerNames /\ p \in Nat /\ p # 0
         /\ processes' \in [ServerNames -> Seq(Process)]
         /\ \A t \in ServerNames : t # s => processes'[t] = processes[t]
         /\ DOMAIN processes'[s] = DOMAIN processes[s] \cup {p}
         /\ \A q \in DOMAIN processes[s] : q # p /\ processes'[s][q] = processes[s][q]
         /\ processes'[s][p].used
         /\ processes'[s][p].inbox \in {<<>>, <<Doing.id>>}
         /\ sessions' = [sessions EXCEPT ![s] = p]
         /\ sessions' \in [ServerNames -> Nat]
         /\ \A t \in ServerNames : sessions'[t] \in 0..Len(processes'[t])
  <1> DEFINE s == Doing.server
             p == Len(processes[s]) + 1
             started == Started(processes, s)
  <1>1. s \in ServerNames /\ Doing.id \in Calls
    BY DoingType DEF Connect, Busy
  <1>2. processes \in [ServerNames -> Seq(Process)]
    BY DEF TypeOK
  <1>3. /\ started \in [ServerNames -> Seq(Process)]
        /\ \A t \in ServerNames : t # s => started[t] = processes[t]
        /\ Len(started[s]) = p /\ p \in Nat
        /\ DOMAIN started[s] = DOMAIN processes[s] \cup {p}
        /\ \A q \in DOMAIN processes[s] : q # p /\ started[s][q] = processes[s][q]
        /\ started[s][p] = Fresh
    BY <1>1, <1>2, StartedResult
  <1>4. p # 0
    BY <1>1, <1>2, LenProperties
  <1>5. /\ processes' = Sent(started, s, p, Doing.id)
        /\ sessions' = [sessions EXCEPT ![s] = p]
    <2> HIDE DEF s, p
    <2>1. /\ processes' = Sent(started, s, Len(started[s]), Doing.id)
          /\ sessions' = [sessions EXCEPT ![s] = Len(started[s])]
      BY DEF Connect, s, Fresh, Started
    <2> QED
      BY <1>3, <2>1
  <1> HIDE DEF started, s, p
  <1>p. p \in DOMAIN started[s]
    BY <1>3
  <1>6. /\ processes' \in [ServerNames -> Seq(Process)]
        /\ \A t \in ServerNames : Len(processes'[t]) = Len(started[t]) /\ DOMAIN processes'[t] = DOMAIN started[t]
        /\ \A t \in ServerNames : t # s => processes'[t] = started[t]
        /\ processes'[s][p].used
        /\ processes'[s][p].inbox \in {started[s][p].inbox, Append(started[s][p].inbox, Doing.id)}
        /\ \A q \in DOMAIN started[s] : q # p => processes'[s][q] = started[s][q]
    <2>0. /\ started \in [ServerNames -> Seq(Process)] /\ s \in ServerNames
          /\ p \in DOMAIN started[s] /\ Doing.id \in Calls
      BY <1>1, <1>3, <1>p
    <2>1. LET new == Sent(started, s, p, Doing.id) IN
          /\ new \in [ServerNames -> Seq(Process)]
          /\ \A t \in ServerNames : Len(new[t]) = Len(started[t]) /\ DOMAIN new[t] = DOMAIN started[t]
          /\ \A t \in ServerNames : t # s => new[t] = started[t]
          /\ new[s][p].used
          /\ new[s][p].inbox \in {started[s][p].inbox, Append(started[s][p].inbox, Doing.id)}
          /\ \A q \in DOMAIN started[s] : q # p => new[s][q] = started[s][q]
      BY ONLY <2>0, SentResult
    <2> QED
      BY <1>5, <2>1
  <1>7. processes'[s][p].inbox \in {<<>>, <<Doing.id>>}
    BY <1>3, <1>6 DEF Fresh
  <1>8. /\ sessions' \in [ServerNames -> Nat]
        /\ \A t \in ServerNames : sessions'[t] \in 0..Len(processes'[t])
    <2>1. sessions'[s] = p /\ \A t \in ServerNames : t # s => sessions'[t] = sessions[t]
      BY <1>1, <1>5 DEF TypeOK
    <2>2. sessions' \in [ServerNames -> Nat]
      BY <1>1, <1>3, <1>5 DEF TypeOK
    <2>3. p \in 0..Len(processes'[s])
      BY <1>1, <1>3, <1>6
    <2>4. \A t \in ServerNames : t # s => sessions[t] \in 0..Len(processes'[t])
      BY <1>3, <1>6 DEF TypeOK
    <2> QED
      BY <2>1, <2>2, <2>3, <2>4
  <1>9. DOMAIN processes'[s] = DOMAIN processes[s] \cup {p}
    BY <1>1, <1>3, <1>6
  <1>10. /\ \A t \in ServerNames : t # s => processes'[t] = processes[t]
         /\ \A q \in DOMAIN processes[s] : q # p /\ processes'[s][q] = processes[s][q]
    BY <1>3, <1>6
  <1> QED
    BY <1>1, <1>3, <1>4, <1>5, <1>6, <1>7, <1>8, <1>9, <1>10 DEF s, p

(* A process that did not initialise was sent nothing. *)
LEMMA ConnectFailsResult ==
  ASSUME TypeOK, WorkerInv, ConnectFails
  PROVE  /\ processes' \in [ServerNames -> Seq(Process)]
         /\ \A s \in ServerNames :
               /\ sessions[s] \in 0..Len(processes'[s])
               /\ \A p \in DOMAIN processes'[s] :
                     \/ p \in DOMAIN processes[s] /\ processes'[s][p] = processes[s][p]
                     \/ processes'[s][p] = Fresh
  <1> DEFINE s == Doing.server
  <1>1. s \in ServerNames
    BY DoingType DEF ConnectFails, Busy
  <1>2. processes \in [ServerNames -> Seq(Process)]
    BY DEF TypeOK
  <1>3. CASE processes' = processes
    BY <1>3 DEF TypeOK
  <1>4. CASE processes' = Started(processes, s)
    <2>1. /\ processes' \in [ServerNames -> Seq(Process)]
          /\ \A t \in ServerNames : t # s => processes'[t] = processes[t]
          /\ Len(processes'[s]) = Len(processes[s]) + 1
          /\ DOMAIN processes'[s] = DOMAIN processes[s] \cup {Len(processes'[s])}
          /\ \A p \in DOMAIN processes[s] : processes'[s][p] = processes[s][p]
          /\ processes'[s][Len(processes'[s])] = Fresh
      BY <1>1, <1>2, <1>4, StartedResult
    <2>2. \A t \in ServerNames : Len(processes[t]) \in Nat /\ sessions[t] \in 0..Len(processes[t])
      BY <1>2, LenProperties DEF TypeOK
    <2> HIDE DEF s
    <2>3. \A t \in ServerNames : sessions[t] \in 0..Len(processes'[t])
      BY <1>1, <2>1, <2>2
    <2> QED
      BY <2>1, <2>3
  <1> QED
    BY <1>3, <1>4 DEF ConnectFails, Fresh, Started

LEMMA TypeStep ==
  ASSUME TypeOK, WorkerInv, ArrivalInv, [Next]_vars
  PROVE  TypeOK'
  <1> USE GatewayAssumption
  <1>1. ASSUME NEW c \in Callers, Begin(c)
        PROVE  TypeOK'
    <2>1. made[c] + 1 \in 1..MaxCalls
      <3>1. made[c] \in 0..MaxCalls /\ made[c] < MaxCalls
        BY <1>1 DEF Begin, TypeOK
      <3> QED
        BY <3>1
    <2>2. <<c, made[c] + 1>> \in Calls
      BY <2>1 DEF Calls
    <2>3. made' \in [Callers -> 0..MaxCalls]
      BY <1>1, <2>1 DEF Begin, TypeOK
    <2>4. answers' \in [Calls -> {"none", "pending", "result", "error"}]
      BY <1>1, <2>2 DEF Begin, TypeOK
    <2> QED
      BY <1>1, <2>3, <2>4 DEF Begin, TypeOK
  <1>2. ASSUME NEW c \in Callers, PutCall(c)
        PROVE  TypeOK'
    <2>1. <<c, made[c]>> \in Calls
      BY <1>2 DEF PutCall, TypeOK, ArrivalInv, Calls
    <2>2. arrivals' \in Seq(Calls)
      BY <1>2, <2>1, AppendProperties DEF PutCall, TypeOK
    <2>3. PICK s \in ServerNames :
             requests' = Append(requests, [op |-> "call", client |-> c, id |-> <<c, made[c]>>, server |-> s])
      BY <1>2 DEF PutCall
    <2>4. [op |-> "call", client |-> c, id |-> <<c, made[c]>>, server |-> s] \in Request
      BY <2>1 DEF Request, CallRequest
    <2>5. requests' \in Seq(Request)
      BY <2>3, <2>4, AppendProperties DEF TypeOK
    <2> QED
      BY <1>2, <2>2, <2>5 DEF PutCall, TypeOK
  <1>3. ASSUME NEW c \in Closers, BeginClose(c)
        PROVE  TypeOK'
    BY <1>3 DEF BeginClose, TypeOK
  <1>4. ASSUME NEW c \in Closers, PutClose(c)
        PROVE  TypeOK'
    <2>1. [op |-> "close", client |-> c] \in Request
      BY DEF Request, CloseRequest
    <2>2. requests' \in Seq(Request)
      BY <1>4, <2>1, AppendProperties DEF PutClose, TypeOK
    <2> QED
      BY <1>4, <2>2 DEF PutClose, TypeOK
  <1>5. ASSUME NEW c \in Callers \cup Closers, FinishClose(c)
        PROVE  TypeOK'
    <2>1. closed' \in BOOLEAN
      BY <1>5, Zenon DEF FinishClose
    <2> QED
      BY <1>5, <2>1 DEF FinishClose, TypeOK
  <1>6. CASE Get
    <2> DEFINE q == Head(requests)
    <2>1. q \in Request /\ requests' \in Seq(Request)
      BY <1>6, Shortened DEF Get, TypeOK
    <2>2. current' \in Seq(Request) /\ Len(current') = 1
      <3>1. current' = Append(<<>>, q)
        BY <1>6 DEF Get
      <3> QED
        BY <2>1, <3>1, EmptySeq, AppendProperties
    <2>3. replied' \in BOOLEAN
      BY <1>6, Zenon DEF Get
    <2>4. /\ processes' \in [ServerNames -> Seq(Process)]
          /\ \A s \in ServerNames : Len(processes'[s]) = Len(processes[s])
      <3>1. CASE processes' = processes
        BY <3>1 DEF TypeOK
      <3>2. CASE /\ q.op # "close" /\ sessions[q.server] # 0
                 /\ processes' = Sent(processes, q.server, sessions[q.server], q.id)
        <4>1. q.server \in ServerNames /\ q.id \in Calls
          BY <2>1, <3>2, RequestKinds
        <4>2. sessions[q.server] \in DOMAIN processes[q.server]
          <5>1. processes[q.server] \in Seq(Process) /\ sessions[q.server] \in 0..Len(processes[q.server])
            BY <4>1 DEF TypeOK
          <5>2. DOMAIN processes[q.server] = 1..Len(processes[q.server]) /\ Len(processes[q.server]) \in Nat
            BY <5>1, LenProperties
          <5> QED
            BY <3>2, <5>1, <5>2
        <4>3. processes \in [ServerNames -> Seq(Process)]
          BY DEF TypeOK
        <4> QED
          BY <3>2, <4>1, <4>2, <4>3, SentResult
      <3> QED
        BY <1>6, <3>1, <3>2 DEF Get
    <2>5. worker' \in {"connecting", "calling", "closing"}
      BY <1>6 DEF Get
    <2>6. UNCHANGED <<closed, sessions, clients, arrivals, executed>>
      BY <1>6 DEF Get
    <2> QED
      BY <2>1, <2>2, <2>3, <2>4, <2>5, <2>6 DEF TypeOK, clients
  <1>7. CASE Connect
    <2>1. /\ processes' \in [ServerNames -> Seq(Process)]
          /\ sessions' \in [ServerNames -> Nat]
          /\ \A s \in ServerNames : sessions'[s] \in 0..Len(processes'[s])
      BY <1>7, ConnectResult
    <2>2. worker' = "calling" /\ UNCHANGED <<closed, requests, current, replied, clients, arrivals, executed>>
      BY <1>7 DEF Connect
    <2> QED
      BY <2>1, <2>2 DEF TypeOK, clients
  <1>8. CASE ConnectFails
    <2>1. Busy /\ Resolve("error") /\ sessions' = sessions
      BY <1>8 DEF ConnectFails, Busy
    <2>2. /\ processes' \in [ServerNames -> Seq(Process)]
          /\ \A s \in ServerNames : sessions[s] \in 0..Len(processes'[s])
      BY <1>8, ConnectFailsResult
    <2> QED
      BY <2>1, <2>2, ResolveType
  <1>9. CASE Receive \/ CallFails
    <2>1. Busy /\ (Resolve("error") \/ Resolve("result")) /\ UNCHANGED <<sessions, processes>>
      BY <1>9 DEF Receive, CallFails, Busy
    <2> QED
      BY <2>1, ResolveType DEF TypeOK
  <1>10. CASE Close
    <2>1. Doing.client \in Closers
      BY <1>10, DoingType DEF Close
    <2>2. /\ processes' \in [ServerNames -> Seq(Process)]
          /\ \A s \in ServerNames : Len(processes'[s]) = Len(processes[s])
      <3>1. processes' = Stopped(processes) /\ processes \in [ServerNames -> Seq(Process)]
        BY <1>10 DEF Close, TypeOK
      <3> QED
        BY <3>1, StoppedResult
    <2>3. current' \in Seq(Request) /\ Len(current') <= 1
      BY <1>10, EmptySeq DEF Close
    <2> QED
      BY <1>10, <2>1, <2>2, <2>3 DEF Close, TypeOK
  <1>11. ASSUME NEW s \in ServerNames, NEW p \in DOMAIN processes[s], Execute(s, p)
         PROVE  TypeOK'
    <2>1. processes \in [ServerNames -> Seq(Process)] /\ processes[s][p].inbox # <<>>
      BY <1>11 DEF Execute, TypeOK
    <2>2. /\ processes' \in [ServerNames -> Seq(Process)]
          /\ \A t \in ServerNames : Len(processes'[t]) = Len(processes[t])
      <3>1. processes' = Served(processes, s, p)
        BY <1>11 DEF Execute, Served
      <3> QED
        BY <2>1, <3>1, ServedResult DEF ServedIs
    <2>3. Head(processes[s][p].inbox) \in Calls
      <3>1. processes[s][p].inbox \in Seq(Calls)
        BY InboxType
      <3> QED
        BY <2>1, <3>1, Shortened
    <2>4. executed' \in [ServerNames -> Seq(Calls)]
      <3>1. Append(executed[s], Head(processes[s][p].inbox)) \in Seq(Calls)
        BY <2>3, AppendProperties DEF TypeOK
      <3> QED
        BY <1>11, <3>1 DEF Execute, TypeOK
    <2>5. replied' \in BOOLEAN
      BY <1>11, Zenon DEF Execute, TypeOK
    <2> QED
      BY <1>11, <2>2, <2>4, <2>5 DEF Execute, TypeOK, clients
  <1>12. ASSUME NEW s \in ServerNames, NEW p \in DOMAIN processes[s], Die(s, p)
         PROVE  TypeOK'
    <2>1. processes \in [ServerNames -> Seq(Process)]
      BY DEF TypeOK
    <2>2. /\ processes' \in [ServerNames -> Seq(Process)]
          /\ \A t \in ServerNames : Len(processes'[t]) = Len(processes[t])
      <3>1. processes' = Died(processes, s, p)
        BY <1>12 DEF Die, Died
      <3> QED
        BY <2>1, <3>1, DiedResult
    <2> QED
      BY <1>12, <2>2 DEF Die, TypeOK, clients
  <1>13. CASE UNCHANGED vars
    BY <1>13 DEF vars, clients, TypeOK
  <1> QED
    BY <1>1, <1>2, <1>3, <1>4, <1>5, <1>6, <1>7, <1>8, <1>9, <1>10, <1>11, <1>12, <1>13
       DEF Next, ClientStep, WorkerStep, PutCall, BeginClose, PutClose

-----------------------------------------------------------------------------
(* What a step does to the places a call can be in. *)

(* No inbox gets a request. *)
Kept ==
    \A t \in ServerNames : \A q \in DOMAIN processes'[t] :
        \/ processes'[t][q].inbox = <<>>
        \/ q \in DOMAIN processes[t] /\ processes'[t][q].inbox = processes[t][q].inbox

(* Only the inbox of p gets a request, for id. *)
Delivered(s, p, id) ==
    \A t \in ServerNames : \A q \in DOMAIN processes'[t] :
        \/ processes'[t][q].inbox = <<>>
        \/ q \in DOMAIN processes[t] /\ processes'[t][q].inbox = processes[t][q].inbox
        \/ t = s /\ q = p /\ processes'[t][q].inbox = <<id>>
        \/ /\ t = s /\ q = p /\ q \in DOMAIN processes[t]
           /\ processes'[t][q].inbox = Append(processes[t][q].inbox, id)

(* The next request is taken; it is sent if its server name has a session. *)
LEMMA GetResult ==
  ASSUME TypeOK, Get
  PROVE  LET q == Head(requests) IN
         /\ q \in Request /\ 1 \in DOMAIN requests /\ q = requests[1]
         /\ \A i \in DOMAIN requests' : /\ i \in Nat /\ i + 1 \in DOMAIN requests /\ 1 < i + 1
                                      /\ requests'[i] = requests[i + 1]
         /\ current' # <<>> /\ Doing' = q
         /\ \/ q.op = "close" /\ worker' = "closing" /\ processes' = processes
            \/ /\ q.op = "call" /\ worker' = "connecting" /\ processes' = processes
               /\ sessions[q.server] = 0
            \/ /\ q.op = "call" /\ worker' = "calling"
               /\ sessions[q.server] \in DOMAIN processes[q.server]
               /\ sessions[q.server] # 0
               /\ processes' = Sent(processes, q.server, sessions[q.server], q.id)
  <1> DEFINE q == Head(requests)
  <1>1. /\ q \in Request /\ 1 \in DOMAIN requests /\ q = requests[1]
        /\ \A i \in DOMAIN requests' : /\ i \in Nat /\ i + 1 \in DOMAIN requests /\ 1 < i + 1
                                     /\ requests'[i] = requests[i + 1]
    <2>1. requests \in Seq(Request) /\ requests # <<>> /\ requests' = Tail(requests)
      BY DEF TypeOK, Get
    <2> QED
      BY <2>1, Shortened
  <1>2. current' # <<>> /\ Doing' = q
    BY DEF Get, Doing
  <1>3. q.op # "close" => q.op = "call" /\ q.server \in ServerNames
    BY <1>1, RequestKinds
  <1>4. q.op # "close" /\ sessions[q.server] # 0 => sessions[q.server] \in DOMAIN processes[q.server]
    <2> SUFFICES ASSUME q.op # "close", sessions[q.server] # 0
                 PROVE  sessions[q.server] \in DOMAIN processes[q.server]
      OBVIOUS
    <2>1. processes[q.server] \in Seq(Process) /\ sessions[q.server] \in 0..Len(processes[q.server])
      BY <1>3 DEF TypeOK
    <2>2. DOMAIN processes[q.server] = 1..Len(processes[q.server]) /\ Len(processes[q.server]) \in Nat
      BY <2>1, LenProperties
    <2> QED
      BY <2>1, <2>2
  <1>5. \/ q.op = "close" /\ worker' = "closing" /\ processes' = processes
        \/ q.op # "close" /\ sessions[q.server] = 0 /\ worker' = "connecting" /\ processes' = processes
        \/ /\ q.op # "close" /\ sessions[q.server] # 0 /\ worker' = "calling"
           /\ processes' = Sent(processes, q.server, sessions[q.server], q.id)
    BY DEF Get
  <1> HIDE DEF q
  <1> QED
    BY <1>1, <1>2, <1>3, <1>4, <1>5 DEF q

LEMMA GetDelivers ==
  ASSUME TypeOK, Get, worker' = "calling"
  PROVE  /\ Doing'.server \in ServerNames /\ Doing'.id \in Calls
         /\ Delivered(Doing'.server, sessions[Doing'.server], Doing'.id)
  <1> DEFINE q == Head(requests)
             s == q.server
             p == sessions[s]
  <1>1. /\ q \in Request /\ Doing' = q /\ q.op = "call" /\ p \in DOMAIN processes[s]
        /\ processes' = Sent(processes, s, p, q.id)
    BY GetResult
  <1>2. s \in ServerNames /\ q.id \in Calls /\ processes \in [ServerNames -> Seq(Process)]
    BY <1>1, RequestKinds DEF TypeOK
  <1> HIDE DEF q, s, p
  <1>3. LET new == Sent(processes, s, p, q.id) IN
        /\ \A t \in ServerNames : DOMAIN new[t] = DOMAIN processes[t]
        /\ \A t \in ServerNames : t # s => new[t] = processes[t]
        /\ new[s][p].inbox \in {processes[s][p].inbox, Append(processes[s][p].inbox, q.id)}
        /\ \A r \in DOMAIN processes[s] : r # p => new[s][r] = processes[s][r]
    BY ONLY <1>1, <1>2, SentResult
  <1>4. Delivered(s, p, q.id)
    BY <1>1, <1>3 DEF Delivered
  <1> QED
    BY <1>1, <1>2, <1>4 DEF s, p

LEMMA ConnectDelivers ==
  ASSUME TypeOK, WorkerInv, Connect
  PROVE  /\ Doing.server \in ServerNames /\ Doing.id \in Calls
         /\ \E p : Delivered(Doing.server, p, Doing.id)
  <1> DEFINE s == Doing.server
             p == Len(processes[s]) + 1
  <1>1. /\ s \in ServerNames
        /\ \A t \in ServerNames : t # s => processes'[t] = processes[t]
        /\ DOMAIN processes'[s] = DOMAIN processes[s] \cup {p}
        /\ \A q \in DOMAIN processes[s] : q # p /\ processes'[s][q] = processes[s][q]
        /\ processes'[s][p].inbox \in {<<>>, <<Doing.id>>}
    BY ConnectResult
  <1> HIDE DEF s, p
  <1>2. Delivered(s, p, Doing.id)
    BY <1>1 DEF Delivered
  <1> QED
    BY <1>1, <1>2, DoingType DEF s, Connect, Busy

LEMMA OthersKeep ==
  ASSUME TypeOK, WorkerInv,
         \/ processes' = processes \/ ConnectFails \/ Close
         \/ \E s \in ServerNames : \E p \in DOMAIN processes[s] : Die(s, p)
  PROVE  Kept
  <1> USE DEF Kept
  <1>1. CASE processes' = processes
    BY <1>1
  <1>2. CASE ConnectFails
    BY <1>2, ConnectFailsResult DEF Fresh
  <1>3. processes \in [ServerNames -> Seq(Process)]
    BY DEF TypeOK
  <1>4. CASE Close
    <2>1. processes' = Stopped(processes)
      BY <1>4 DEF Close
    <2>2. \A t \in ServerNames : /\ DOMAIN Stopped(processes)[t] = DOMAIN processes[t]
                               /\ \A q \in DOMAIN processes[t] : Stopped(processes)[t][q].inbox = <<>>
      BY <1>3, StoppedResult
    <2> QED
      BY <2>1, <2>2
  <1>5. ASSUME NEW s \in ServerNames, NEW p \in DOMAIN processes[s], Die(s, p)
        PROVE  Kept
    <2>1. processes' = Died(processes, s, p)
      BY <1>5 DEF Die, Died
    <2>2. \A t \in ServerNames :
             /\ DOMAIN Died(processes, s, p)[t] = DOMAIN processes[t]
             /\ \A q \in DOMAIN processes[t] :
                   Died(processes, s, p)[t][q].inbox \in {processes[t][q].inbox, <<>>}
      BY <1>3, DiedResult
    <2> QED
      BY <2>1, <2>2
  <1> QED
    BY <1>1, <1>2, <1>4, <1>5

(* Where a call can be after a step that keeps or delivers. *)
LEMMA KeptPlaces ==
  ASSUME Kept
  PROVE  \A t \in ServerNames : \A x : Waiting(t, x)' => Waiting(t, x)
  BY DEF Kept, Waiting

LEMMA DeliveredPlaces ==
  ASSUME TypeOK, NEW s \in ServerNames, NEW p, NEW id \in Calls, Delivered(s, p, id)
  PROVE  \A t \in ServerNames : \A x : Waiting(t, x)' => Waiting(t, x) \/ (t = s /\ x = id)
  <1> SUFFICES ASSUME NEW t \in ServerNames, NEW x, NEW q \in DOMAIN processes'[t],
                      NEW i \in DOMAIN processes'[t][q].inbox, processes'[t][q].inbox[i] = x
               PROVE  Waiting(t, x) \/ (t = s /\ x = id)
    BY DEF Waiting
  <1>1. CASE processes'[t][q].inbox = <<>>
    BY <1>1
  <1>2. CASE q \in DOMAIN processes[t] /\ processes'[t][q].inbox = processes[t][q].inbox
    BY <1>2 DEF Waiting
  <1>3. CASE t = s /\ processes'[t][q].inbox = <<id>>
    BY <1>3
  <1>4. CASE /\ t = s /\ q \in DOMAIN processes[t]
             /\ processes'[t][q].inbox = Append(processes[t][q].inbox, id)
    <2>1. processes[t][q].inbox \in Seq(Calls)
      BY <1>4, InboxType
    <2>2. \/ i \in DOMAIN processes[t][q].inbox /\ processes'[t][q].inbox[i] = processes[t][q].inbox[i]
          \/ processes'[t][q].inbox[i] = id
      BY <1>4, <2>1, Extended
    <2> QED
      BY <1>4, <2>2 DEF Waiting
  <1> QED
    BY <1>1, <1>2, <1>3, <1>4 DEF Delivered

(* The call that is executed leaves an inbox and is done, in this order. *)
LEMMA ExecuteResult ==
  ASSUME TypeOK, NEW s \in ServerNames, NEW p \in DOMAIN processes[s], Execute(s, p)
  PROVE  LET id == Head(processes[s][p].inbox)
             box == processes[s][p].inbox
         IN
         /\ id \in Calls /\ 1 \in DOMAIN box /\ id = box[1] /\ Waiting(s, id)
         /\ \A t \in ServerNames : DOMAIN processes'[t] = DOMAIN processes[t]
         /\ \A t \in ServerNames : t # s => processes'[t] = processes[t]
         /\ \A q \in DOMAIN processes[s] : q # p => processes'[s][q] = processes[s][q]
         /\ processes'[s][p].used = processes[s][p].used
         /\ \A i \in DOMAIN processes'[s][p].inbox :
               /\ i \in Nat /\ i + 1 \in DOMAIN box /\ 1 < i + 1
               /\ processes'[s][p].inbox[i] = box[i + 1]
         /\ \A t \in ServerNames : t # s => executed'[t] = executed[t]
         /\ DOMAIN executed'[s] = DOMAIN executed[s] \cup {Len(executed'[s])}
         /\ Len(executed'[s]) = Len(executed[s]) + 1
         /\ \A i \in DOMAIN executed[s] :
               i \in Nat /\ i < Len(executed'[s]) /\ executed'[s][i] = executed[s][i]
         /\ executed'[s][Len(executed'[s])] = id
  <1> DEFINE id == Head(processes[s][p].inbox)
             box == processes[s][p].inbox
             rest == Tail(box)
  <1>1. box \in Seq(Calls) /\ box # <<>> /\ processes' = Served(processes, s, p)
    BY InboxType DEF Execute, Served
  <1>2. /\ id \in Calls /\ 1 \in DOMAIN box /\ id = box[1]
        /\ \A i \in DOMAIN rest : /\ i \in Nat /\ i + 1 \in DOMAIN box /\ 1 < i + 1
                               /\ rest[i] = box[i + 1]
    BY <1>1, Shortened
  <1>3. Waiting(s, id)
    BY <1>2 DEF Waiting
  <1>4. processes \in [ServerNames -> Seq(Process)] /\ executed \in [ServerNames -> Seq(Calls)]
    BY DEF TypeOK
  <1>5. /\ \A t \in ServerNames : DOMAIN processes'[t] = DOMAIN processes[t]
        /\ \A t \in ServerNames : t # s => processes'[t] = processes[t]
        /\ \A q \in DOMAIN processes[s] : q # p => processes'[s][q] = processes[s][q]
        /\ processes'[s][p].used = processes[s][p].used
        /\ processes'[s][p].inbox = rest
    <2>1. processes[s][p].inbox # <<>>
      BY <1>1
    <2>2. ServedIs(processes, s, p, Served(processes, s, p))
      BY ONLY <1>4, <2>1, s \in ServerNames, p \in DOMAIN processes[s], ServedResult
    <2> QED
      BY <1>1, <2>2 DEF ServedIs
  <1>6. executed'[s] = Append(executed[s], id) /\ \A t \in ServerNames : t # s => executed'[t] = executed[t]
    BY <1>4 DEF Execute
  <1> HIDE DEF id, box, rest
  <1>7. /\ DOMAIN executed'[s] = DOMAIN executed[s] \cup {Len(executed'[s])}
        /\ Len(executed'[s]) = Len(executed[s]) + 1
        /\ \A i \in DOMAIN executed[s] :
              i \in Nat /\ i < Len(executed'[s]) /\ executed'[s][i] = executed[s][i]
        /\ executed'[s][Len(executed'[s])] = id
    BY <1>2, <1>4, <1>6, Extended
  <1> QED
    BY <1>1, <1>2, <1>3, <1>5, <1>6, <1>7 DEF id, box

LEMMA ExecutePlaces ==
  ASSUME TypeOK, NEW s \in ServerNames, NEW p \in DOMAIN processes[s], Execute(s, p)
  PROVE  LET id == Head(processes[s][p].inbox) IN
         /\ \A t \in ServerNames : \A x : Waiting(t, x)' => Waiting(t, x)
         /\ \A t \in ServerNames : \A x : Done(t, x)' <=> Done(t, x) \/ (t = s /\ x = id)
         /\ \A t \in ServerNames : \A x : At(t, x)' => At(t, x)
  <1> DEFINE id == Head(processes[s][p].inbox)
  <1>1. \A t \in ServerNames : \A x : Waiting(t, x)' => Waiting(t, x)
    BY ExecuteResult DEF Waiting
  <1>2. \A t \in ServerNames : \A x : Done(t, x)' <=> Done(t, x) \/ (t = s /\ x = id)
    <2>1. /\ \A t \in ServerNames : t # s => executed'[t] = executed[t]
          /\ DOMAIN executed'[s] = DOMAIN executed[s] \cup {Len(executed'[s])}
          /\ \A i \in DOMAIN executed[s] : executed'[s][i] = executed[s][i]
          /\ executed'[s][Len(executed'[s])] = id
      BY ExecuteResult
    <2> QED
      BY <2>1 DEF Done
  <1>3. Waiting(s, id)
    BY ExecuteResult
  <1> QED
    BY <1>1, <1>2, <1>3 DEF At

(* No arrival is forgotten. *)
LEMMA ArrivalPlacesStay ==
  ASSUME TypeOK, TypeOK', [Next]_vars
  PROVE  \A i \in DOMAIN arrivals : i \in DOMAIN arrivals' /\ arrivals'[i] = arrivals[i]
  <1>1. ASSUME NEW c \in Callers, PutCall(c)
        PROVE  \A i \in DOMAIN arrivals : i \in DOMAIN arrivals' /\ arrivals'[i] = arrivals[i]
    <2>1. arrivals \in Seq(Calls) /\ arrivals' \in Seq(Calls) /\ arrivals' = Append(arrivals, <<c, made[c]>>)
      BY <1>1 DEF PutCall, TypeOK
    <2>2. Len(arrivals) \in Nat /\ DOMAIN arrivals = 1..Len(arrivals)
      BY <2>1, LenProperties
    <2> QED
      BY <2>1, <2>2
  <1>2. arrivals' = arrivals \/ \E c \in Callers : PutCall(c)
    BY DEF Next, ClientStep, WorkerStep, PutCall, Begin, BeginClose, PutClose, FinishClose, Get,
       Connect, ConnectFails, Receive, CallFails, Resolve, Close, Execute, Die, vars
  <1> QED
    BY <1>1, <1>2

(* The order of arrival is never changed. *)
LEMMA ArrivalsStay ==
  ASSUME TypeOK, TypeOK', [Next]_vars
  PROVE  /\ \A a, b : Before(a, b) => Before(a, b)'
         /\ \A a : Arrived(a) => Arrived(a)'
  BY ArrivalPlacesStay DEF Before, Arrived

(* Only a server's step executes a call. *)
LEMMA ExecutedAfter ==
  ASSUME [Next]_vars
  PROVE  \/ executed' = executed
         \/ \E s \in ServerNames : \E p \in DOMAIN processes[s] : Execute(s, p)
  BY DEF Next, ClientStep, WorkerStep, PutCall, Begin, BeginClose, PutClose, FinishClose, Get,
     Connect, ConnectFails, Receive, CallFails, Resolve, Close, Die, vars

LEMMA NotBeforeItself ==
  ASSUME TypeOK, ArrivalInv
  PROVE  \A a : ~Before(a, a)
  <1>1. \A i \in DOMAIN arrivals : i \in Nat
    BY LenProperties DEF TypeOK
  <1> QED
    BY <1>1 DEF Before, ArrivalInv

-----------------------------------------------------------------------------
(* The worker and the processes. *)

LEMMA WorkerInvStep ==
  ASSUME TypeOK, WorkerInv, [Next]_vars
  PROVE  WorkerInv'
  <1>1. ASSUME NEW c \in Callers \cup Closers, ClientStep(c)
        PROVE  WorkerInv'
    BY <1>1 DEF ClientStep, Begin, PutCall, BeginClose, PutClose, FinishClose, WorkerInv, Busy, Doing, Done
  <1>2. CASE Get
    <2>1. ~replied'
      BY <1>2 DEF Get
    <2>2. sessions' = sessions
      BY <1>2 DEF Get
    <2> QED
      BY <1>2, <2>1, <2>2, GetResult DEF WorkerInv, Busy
  <1>3. CASE Connect
    <2>1. /\ worker' = "calling" /\ worker = "connecting"
          /\ UNCHANGED <<current, replied>>
      BY <1>3 DEF Connect
    <2>2. current # <<>> /\ Doing.op = "call" /\ ~replied
      BY <2>1 DEF WorkerInv, Busy
    <2>3. sessions'[Doing.server] # 0
      BY <1>3, ConnectResult DEF TypeOK
    <2> QED
      BY <2>1, <2>2, <2>3 DEF WorkerInv, Busy, Doing
  <1>4. CASE ConnectFails \/ Receive \/ CallFails
    BY <1>4 DEF ConnectFails, Receive, CallFails, Resolve, WorkerInv, Busy
  <1>5. CASE Close
    BY <1>5 DEF Close, WorkerInv, Busy
  <1>6. ASSUME NEW s \in ServerNames, NEW p \in DOMAIN processes[s], Execute(s, p)
        PROVE  WorkerInv'
    <2>1. UNCHANGED <<worker, current, sessions>> /\ Doing' = Doing
      BY <1>6 DEF Execute, Doing
    <2>2. ASSUME replied', NEW x, x = Doing.id
          PROVE  worker = "calling" /\ \E t \in ServerNames : Done(t, x)'
      <3>1. replied \/ (worker = "calling" /\ x = Head(processes[s][p].inbox))
        BY <1>6, <2>2 DEF Execute
      <3>2. replied => worker = "calling" /\ \E t \in ServerNames : Done(t, x)
        BY <2>2 DEF WorkerInv
      <3> QED
        BY <1>6, <3>1, <3>2, ExecutePlaces
    <2>3. replied' => worker = "calling" /\ \E t \in ServerNames : Done(t, Doing.id)'
      <3> SUFFICES ASSUME replied'
                   PROVE  worker = "calling" /\ \E t \in ServerNames : Done(t, Doing.id)'
        OBVIOUS
      <3>1. worker = "calling" /\ \E t \in ServerNames : \E i \in DOMAIN executed'[t] : executed'[t][i] = Doing.id
        BY <2>2 DEF Done
      <3> QED
        BY <2>1, <3>1 DEF Done
    <2> QED
      BY <2>1, <2>3 DEF WorkerInv, Busy
  <1>7. ASSUME NEW s \in ServerNames, NEW p \in DOMAIN processes[s], Die(s, p)
        PROVE  WorkerInv'
    BY <1>7 DEF Die, WorkerInv, Busy, Doing, Done
  <1>8. CASE UNCHANGED vars
    BY <1>8 DEF vars, WorkerInv, Busy, Doing, Done
  <1> QED
    BY <1>1, <1>2, <1>3, <1>4, <1>5, <1>6, <1>7, <1>8 DEF Next, WorkerStep

LEMMA ServingInvStep ==
  ASSUME TypeOK, WorkerInv, ServingInv, [Next]_vars
  PROVE  ServingInv'
  <1> processes \in [ServerNames -> Seq(Process)]
    BY DEF TypeOK
  <1>1. CASE processes' = processes /\ sessions' = sessions
    BY <1>1 DEF ServingInv
  <1>2. CASE Get
    <2> DEFINE q == Head(requests)
               s == q.server
               p == sessions[s]
    <2>1. sessions' = sessions
      BY <1>2 DEF Get
    <2>2. CASE processes' = processes
      BY <1>1, <2>1, <2>2
    <2>3. CASE /\ q.op = "call" /\ p \in DOMAIN processes[s]
               /\ processes' = Sent(processes, s, p, q.id)
      <3>1. s \in ServerNames /\ q.id \in Calls
        BY <1>2, <2>3, GetResult, RequestKinds
      <3>2. p \in DOMAIN processes[s] /\ processes' = Sent(processes, s, p, q.id)
        BY <2>3
      <3> HIDE DEF q, s, p
      <3>3. LET new == Sent(processes, s, p, q.id) IN
            /\ \A t \in ServerNames : DOMAIN new[t] = DOMAIN processes[t]
            /\ \A t \in ServerNames : t # s => new[t] = processes[t]
            /\ new[s][p].used
            /\ \A r \in DOMAIN processes[s] : r # p => new[s][r] = processes[s][r]
        BY <3>1, <3>2, SentResult
      <3>4. p = sessions[s]
        BY DEF p
      <3> QED
        BY <2>1, <3>1, <3>2, <3>3, <3>4 DEF ServingInv
    <2> QED
      BY <1>2, <2>2, <2>3, GetResult
  <1>3. CASE Connect
    <2> DEFINE s == Doing.server
               p == Len(processes[s]) + 1
    <2>1. /\ s \in ServerNames /\ p \in Nat /\ p # 0
          /\ \A t \in ServerNames : t # s => processes'[t] = processes[t]
          /\ DOMAIN processes'[s] = DOMAIN processes[s] \cup {p}
          /\ \A q \in DOMAIN processes[s] : q # p /\ processes'[s][q] = processes[s][q]
          /\ processes'[s][p].used
          /\ sessions' = [sessions EXCEPT ![s] = p]
      BY <1>3, ConnectResult
    <2>2. sessions[s] = 0
      BY <1>3 DEF Connect, WorkerInv
    <2>3. \A q \in DOMAIN processes[s] : q # 0
      BY <2>1, LenProperties
    <2> HIDE DEF s, p
    <2>4. sessions'[s] = p /\ \A t \in ServerNames : t # s => sessions'[t] = sessions[t]
      BY <2>1 DEF TypeOK
    <2> QED
      BY <2>1, <2>2, <2>3, <2>4 DEF ServingInv
  <1>4. CASE ConnectFails
    <2>1. sessions' = sessions
      BY <1>4 DEF ConnectFails
    <2> QED
      BY <1>4, <2>1, ConnectFailsResult DEF ServingInv, Fresh
  <1>5. CASE Close
    <2>1. sessions' = sessions /\ processes' = Stopped(processes)
      BY <1>5 DEF Close
    <2>2. \A s \in ServerNames :
             /\ DOMAIN Stopped(processes)[s] = DOMAIN processes[s]
             /\ \A p \in DOMAIN processes[s] :
                   /\ Stopped(processes)[s][p].used = processes[s][p].used
                   /\ Stopped(processes)[s][p].inbox = <<>>
      BY StoppedResult
    <2> QED
      BY <2>1, <2>2 DEF ServingInv
  <1>6. ASSUME NEW s \in ServerNames, NEW p \in DOMAIN processes[s], Execute(s, p)
        PROVE  ServingInv'
    <2>1. sessions' = sessions /\ processes[s][p].inbox # <<>>
      BY <1>6 DEF Execute
    <2>2. /\ \A t \in ServerNames : DOMAIN processes'[t] = DOMAIN processes[t]
          /\ \A t \in ServerNames : t # s => processes'[t] = processes[t]
          /\ \A q \in DOMAIN processes[s] : q # p => processes'[s][q] = processes[s][q]
          /\ processes'[s][p].used = processes[s][p].used
      BY <1>6, ExecuteResult
    <2> QED
      BY <2>1, <2>2 DEF ServingInv
  <1>7. ASSUME NEW s \in ServerNames, NEW p \in DOMAIN processes[s], Die(s, p)
        PROVE  ServingInv'
    <2>1. sessions' = sessions /\ processes' = Died(processes, s, p)
      BY <1>7 DEF Die, Died
    <2>2. \A t \in ServerNames :
             /\ DOMAIN Died(processes, s, p)[t] = DOMAIN processes[t]
             /\ \A q \in DOMAIN processes[t] :
                   /\ Died(processes, s, p)[t][q].used = processes[t][q].used
                   /\ Died(processes, s, p)[t][q].inbox \in {processes[t][q].inbox, <<>>}
      BY DiedResult
    <2> QED
      BY <2>1, <2>2 DEF ServingInv
  <1>8. CASE \/ \E c \in Callers \cup Closers : ClientStep(c)
             \/ Receive \/ CallFails \/ UNCHANGED vars
    BY <1>1, <1>8 DEF ClientStep, Begin, PutCall, BeginClose, PutClose, FinishClose, Receive, CallFails, vars
  <1> QED
    BY <1>2, <1>3, <1>4, <1>5, <1>6, <1>7, <1>8 DEF Next, WorkerStep

-----------------------------------------------------------------------------
(* Where a call can come from: the places after a step. *)

LEMMA PlacesAfter ==
  ASSUME TypeOK, WorkerInv, [Next]_vars
  PROVE  \A t \in ServerNames : \A x :
           /\ Waiting(t, x)' =>
                \/ Waiting(t, x)
                \/ Get /\ worker' = "calling" /\ t = Doing'.server /\ x = Doing'.id
                \/ Connect /\ t = Doing.server /\ x = Doing.id
           /\ Done(t, x) => Done(t, x)'
           /\ Done(t, x)' => Done(t, x) \/ Waiting(t, x)
  <1>1. ASSUME Kept, executed' = executed, NEW t \in ServerNames, NEW x
        PROVE  (Waiting(t, x)' => Waiting(t, x)) /\ (Done(t, x)' <=> Done(t, x))
    BY <1>1, KeptPlaces DEF Done
  <1>2. CASE Get /\ worker' = "calling"
    <2> DEFINE s == Doing'.server
               id == Doing'.id
               p == sessions[s]
    <2>1. executed' = executed
      BY <1>2 DEF Get
    <2>2. s \in ServerNames /\ id \in Calls /\ Delivered(s, p, id)
      BY <1>2, GetDelivers
    <2> HIDE DEF s, id, p
    <2>3. \A t \in ServerNames : \A x : Waiting(t, x)' => Waiting(t, x) \/ (t = s /\ x = id)
      BY <2>2, DeliveredPlaces
    <2> QED
      BY <1>2, <2>1, <2>3 DEF Done, s, id
  <1>3. CASE Get /\ worker' # "calling"
    <2>1. processes' = processes /\ executed' = executed
      BY <1>3, GetResult DEF Get
    <2> QED
      BY <1>1, <2>1, OthersKeep
  <1>4. CASE Connect
    <2> DEFINE s == Doing.server
               id == Doing.id
    <2>1. executed' = executed
      BY <1>4 DEF Connect
    <2>2. PICK p : s \in ServerNames /\ id \in Calls /\ Delivered(s, p, id)
      BY <1>4, ConnectDelivers
    <2> HIDE DEF s, id
    <2>3. \A t \in ServerNames : \A x : Waiting(t, x)' => Waiting(t, x) \/ (t = s /\ x = id)
      BY <2>2, DeliveredPlaces
    <2> QED
      BY <1>4, <2>1, <2>3 DEF Done, s, id
  <1>5. CASE ConnectFails \/ Close
    <2>1. executed' = executed
      BY <1>5 DEF ConnectFails, Close, Resolve
    <2> QED
      BY <1>1, <1>5, <2>1, OthersKeep
  <1>6. CASE \E s \in ServerNames : \E p \in DOMAIN processes[s] : Die(s, p)
    <2>1. executed' = executed
      BY <1>6 DEF Die
    <2> QED
      BY <1>1, <1>6, <2>1, OthersKeep
  <1>7. ASSUME NEW s \in ServerNames, NEW p \in DOMAIN processes[s], Execute(s, p),
               NEW t \in ServerNames, NEW x
        PROVE  /\ Waiting(t, x)' => Waiting(t, x)
               /\ Done(t, x) => Done(t, x)'
               /\ Done(t, x)' => Done(t, x) \/ Waiting(t, x)
    <2>1. Waiting(s, Head(processes[s][p].inbox))
      BY <1>7, ExecuteResult
    <2> QED
      BY <1>7, <2>1, ExecutePlaces
  <1>8. CASE processes' = processes /\ executed' = executed
    BY <1>1, <1>8, OthersKeep
  <1>9. \/ Get \/ Connect \/ ConnectFails \/ Close
        \/ \E s \in ServerNames : \E p \in DOMAIN processes[s] : Execute(s, p) \/ Die(s, p)
        \/ processes' = processes /\ executed' = executed
    BY DEF Next, ClientStep, WorkerStep, PutCall, Begin, BeginClose, PutClose, FinishClose,
       Receive, CallFails, Resolve, vars
  <1> QED
    BY <1>2, <1>3, <1>4, <1>5, <1>6, <1>7, <1>8, <1>9

(* What the worker works on after a step. *)
LEMMA BusyAfter ==
  ASSUME TypeOK, [Next]_vars, Busy'
  PROVE  \/ Get /\ Queued(Doing'.id) /\ Doing'.op = "call"
         \/ /\ Busy /\ Doing' = Doing
            /\ worker' = worker \/ (Connect /\ worker' = "calling")
  <1>1. CASE Get
    BY <1>1, GetResult DEF Queued, Busy
  <1>2. CASE Connect
    BY <1>2 DEF Connect, Busy, Doing
  <1>3. ASSUME NEW c \in Callers \cup Closers, ClientStep(c)
        PROVE  Busy /\ Doing' = Doing /\ worker' = worker
    BY <1>3 DEF ClientStep, Begin, PutCall, BeginClose, PutClose, FinishClose, Busy, Doing
  <1>4. CASE UNCHANGED vars
    BY <1>4 DEF vars, Busy, Doing
  <1>5. ASSUME NEW s \in ServerNames, NEW p \in DOMAIN processes[s], Execute(s, p) \/ Die(s, p)
        PROVE  Busy /\ Doing' = Doing /\ worker' = worker
    BY <1>5 DEF Execute, Die, Busy, Doing
  <1>6. CASE ConnectFails \/ Receive \/ CallFails \/ Close
    BY <1>6 DEF ConnectFails, Receive, CallFails, Resolve, Close, Busy
  <1> QED
    BY <1>1, <1>2, <1>3, <1>4, <1>5, <1>6 DEF Next, WorkerStep

(* A call is put at the end of the queue, and it is the last to arrive. *)
LEMMA PutCallResult ==
  ASSUME TypeOK, ArrivalInv, NEW c \in Callers, PutCall(c),
         NEW id, id = <<c, made[c]>>
  PROVE  /\ id \in Calls
         /\ DOMAIN requests' = DOMAIN requests \cup {Len(requests')}
         /\ \A i \in DOMAIN requests : i \in Nat /\ i < Len(requests') /\ requests'[i] = requests[i]
         /\ requests'[Len(requests')].op = "call" /\ requests'[Len(requests')].id = id
         /\ DOMAIN arrivals' = DOMAIN arrivals \cup {Len(arrivals')}
         /\ \A i \in DOMAIN arrivals : i \in Nat /\ i < Len(arrivals') /\ arrivals'[i] = arrivals[i]
         /\ arrivals'[Len(arrivals')] = id
         /\ \A a : Arrived(a) => Before(a, id)'
         /\ Arrived(id)'
         /\ \A x : Queued(x)' => Queued(x) \/ x = id
         /\ \A x : Arrived(x)' => Arrived(x) \/ x = id
  <1> DEFINE n == Len(requests')
             m == Len(arrivals')
  <1>1. id \in Calls
    BY GatewayAssumption DEF PutCall, TypeOK, ArrivalInv, Calls
  <1>2. PICK s \in ServerNames :
           requests' = Append(requests, [op |-> "call", client |-> c, id |-> id, server |-> s])
    BY DEF PutCall
  <1> DEFINE q == [op |-> "call", client |-> c, id |-> id, server |-> s]
  <1>3. q \in Request
    BY <1>1 DEF Request, CallRequest
  <1>4. q.op = "call" /\ q.id = id
    OBVIOUS
  <1> HIDE DEF q
  <1>5. /\ DOMAIN requests' = DOMAIN requests \cup {n}
        /\ \A i \in DOMAIN requests : i \in Nat /\ i < n /\ requests'[i] = requests[i]
        /\ requests'[n] = q
    <2>1. requests \in Seq(Request) /\ requests' = Append(requests, q)
      BY <1>2 DEF TypeOK, q
    <2> QED
      BY <1>3, <2>1, Extended
  <1>6. /\ DOMAIN arrivals' = DOMAIN arrivals \cup {m}
        /\ \A i \in DOMAIN arrivals : i \in Nat /\ i < m /\ arrivals'[i] = arrivals[i]
        /\ arrivals'[m] = id
    <2>1. arrivals \in Seq(Calls) /\ arrivals' = Append(arrivals, id)
      BY DEF TypeOK, PutCall
    <2> QED
      BY <1>1, <2>1, Extended
  <1> HIDE DEF n, m
  <1>7. \A a : Arrived(a) => Before(a, id)'
    BY <1>6 DEF Arrived, Before
  <1>8. Arrived(id)' /\ \A x : Arrived(x)' => Arrived(x) \/ x = id
    <2>1. \E i \in DOMAIN arrivals' : arrivals'[i] = id
      BY <1>6
    <2> QED
      BY <1>6, <2>1 DEF Arrived
  <1>9. \A x : Queued(x)' => Queued(x) \/ x = id
    BY <1>4, <1>5 DEF Queued
  <1> QED
    BY <1>1, <1>4, <1>5, <1>6, <1>7, <1>8, <1>9 DEF n, m

LEMMA PutCloseResult ==
  ASSUME TypeOK, NEW c \in Closers, PutClose(c)
  PROVE  /\ DOMAIN requests' = DOMAIN requests \cup {Len(requests')}
         /\ \A i \in DOMAIN requests : requests'[i] = requests[i]
         /\ requests'[Len(requests')].op = "close"
         /\ \A x : Queued(x)' => Queued(x)
  <1> DEFINE q == [op |-> "close", client |-> c]
  <1>1. q \in Request /\ q.op = "close"
    BY DEF Request, CloseRequest
  <1>2. requests \in Seq(Request) /\ requests' = Append(requests, q)
    BY DEF TypeOK, PutClose
  <1> HIDE DEF q
  <1>3. /\ DOMAIN requests' = DOMAIN requests \cup {Len(requests')}
        /\ \A i \in DOMAIN requests : requests'[i] = requests[i]
        /\ requests'[Len(requests')] = q
    BY <1>1, <1>2, Extended
  <1> QED
    BY <1>1, <1>3 DEF Queued

(* Nothing else changes the queue, but for the request that is taken. *)
LEMMA QueueAfter ==
  ASSUME TypeOK, [Next]_vars
  PROVE  \/ requests' = requests
         \/ Get
         \/ \E c \in Callers : PutCall(c)
         \/ \E c \in Closers : PutClose(c)
  BY DEF Next, ClientStep, WorkerStep, PutCall, Begin, BeginClose, PutClose, FinishClose,
     Connect, ConnectFails, Receive, CallFails, Resolve, Close, Execute, Die, vars

LEMMA GetQueue ==
  ASSUME TypeOK, Get
  PROVE  \A x : Queued(x)' => Queued(x)
  BY GetResult DEF Queued

LEMMA QueuedAfter ==
  ASSUME TypeOK, ArrivalInv, [Next]_vars, NEW x, Queued(x)'
  PROVE  Queued(x) \/ \E c \in Callers : PutCall(c) /\ x = <<c, made[c]>>
  <1>1. CASE requests' = requests
    BY <1>1 DEF Queued
  <1> QED
    BY <1>1, QueueAfter, GetQueue, PutCallResult, PutCloseResult

(* Only Begin and PutCall touch what was made and what arrived. *)
LEMMA ArrivalsAfter ==
  ASSUME TypeOK, [Next]_vars
  PROVE  \/ arrivals' = arrivals /\ made' = made
         \/ \E c \in Callers : Begin(c) /\ arrivals' = arrivals
         \/ \E c \in Callers : PutCall(c)
  BY DEF Next, ClientStep, WorkerStep, PutCall, Begin, BeginClose, PutClose, FinishClose, Get,
     Connect, ConnectFails, Receive, CallFails, Resolve, Close, Execute, Die, vars, clients

LEMMA ThreadsAfter ==
  ASSUME TypeOK, WorkerInv, [Next]_vars
  PROVE  \/ \E c \in Callers : Begin(c) \/ PutCall(c)
         \/ /\ arrivals' = arrivals /\ made' = made
            /\ \A d \in Callers : thread'[d] = "checked" => thread[d] = "checked"
  <1> USE GatewayAssumption
  <1>1. ASSUME NEW c \in Closers, BeginClose(c) \/ PutClose(c)
        PROVE  \A d \in Callers : thread'[d] = "checked" => thread[d] = "checked"
    BY <1>1 DEF BeginClose, PutClose, TypeOK
  <1>2. ASSUME NEW c \in Callers \cup Closers, FinishClose(c)
        PROVE  \A d \in Callers : thread'[d] = "checked" => thread[d] = "checked"
    BY <1>2 DEF FinishClose, TypeOK
  <1>3. CASE ConnectFails \/ Receive \/ CallFails
    <2>1. thread' = [thread EXCEPT ![Doing.client] = "out"]
      BY <1>3 DEF ConnectFails, Receive, CallFails, Resolve
    <2> QED
      BY <1>3, <2>1 DEF ConnectFails, Receive, CallFails, Resolve, TypeOK
  <1>4. CASE Close
    BY <1>4 DEF Close, TypeOK
  <1>5. \/ thread' = thread
        \/ \E c \in Callers : Begin(c) \/ PutCall(c)
        \/ \E c \in Closers : BeginClose(c) \/ PutClose(c)
        \/ \E c \in Callers \cup Closers : FinishClose(c)
        \/ ConnectFails \/ Receive \/ CallFails \/ Close
    BY DEF Next, ClientStep, WorkerStep, PutCall, BeginClose, PutClose, Get, Connect, Execute, Die, vars, clients
  <1>6. \/ arrivals' = arrivals /\ made' = made
        \/ \E c \in Callers : Begin(c) \/ PutCall(c)
    BY ArrivalsAfter
  <1> QED
    BY <1>1, <1>2, <1>3, <1>4, <1>5, <1>6

LEMMA ArrivalInvStep ==
  ASSUME TypeOK, TypeOK', WorkerInv, ArrivalInv, [Next]_vars
  PROVE  ArrivalInv'
  <1> USE GatewayAssumption
  <1>1. \A i, j \in DOMAIN arrivals' : arrivals'[i] = arrivals'[j] => i = j
    <2>1. CASE arrivals' = arrivals
      BY <2>1 DEF ArrivalInv
    <2>2. ASSUME NEW c \in Callers, PutCall(c)
          PROVE  \A i, j \in DOMAIN arrivals' : arrivals'[i] = arrivals'[j] => i = j
      <3> DEFINE m == Len(arrivals')
      <3>1. ~Arrived(<<c, made[c]>>)
        BY <2>2 DEF PutCall, ArrivalInv
      <3>0. PICK id : id = <<c, made[c]>>
        OBVIOUS
      <3>2. /\ DOMAIN arrivals' = DOMAIN arrivals \cup {m}
            /\ \A i \in DOMAIN arrivals : i \in Nat /\ i < m /\ arrivals'[i] = arrivals[i]
            /\ arrivals'[m] = id
        <4>1. id \in Calls
          BY <2>2, <3>0, PutCallResult
        <4>2. arrivals \in Seq(Calls) /\ arrivals' = Append(arrivals, id)
          BY <2>2, <3>0 DEF PutCall, TypeOK
        <4> QED
          BY <4>1, <4>2, Extended
      <3> HIDE DEF m
      <3>3. \A i \in DOMAIN arrivals : arrivals[i] # <<c, made[c]>>
        BY <3>1 DEF Arrived
      <3> QED
        BY <3>0, <3>2, <3>3 DEF ArrivalInv
    <2> QED
      BY <2>1, <2>2, ArrivalsAfter
  <1>2. \A id \in Calls : Arrived(id)' => id[2] <= made'[id[1]]
    <2>1. CASE arrivals' = arrivals /\ made' = made
      BY <2>1 DEF ArrivalInv, Arrived
    <2>2. ASSUME NEW c \in Callers, Begin(c)
          PROVE  \A id \in Calls : Arrived(id)' => id[2] <= made'[id[1]]
      <3>1. \A id \in Calls : Arrived(id)' => Arrived(id)
        BY <2>2 DEF Begin, Arrived
      <3>2. \A d \in Callers : made[d] \in Nat /\ made[d] <= made'[d]
        BY <2>2 DEF Begin, TypeOK
      <3>3. \A id \in Calls : id[1] \in Callers /\ id[2] \in Nat
        BY DEF Calls
      <3>4. \A d \in Callers : made'[d] \in Nat
        BY DEF TypeOK
      <3> QED
        BY <3>1, <3>2, <3>3, <3>4 DEF ArrivalInv
    <2>3. ASSUME NEW c \in Callers, PutCall(c)
          PROVE  \A id \in Calls : Arrived(id)' => id[2] <= made'[id[1]]
      <3>1. made' = made /\ made[c] \in Nat
        BY <2>3 DEF PutCall, TypeOK
      <3>2. \A x : Arrived(x)' => Arrived(x) \/ x = <<c, made[c]>>
        BY <2>3, PutCallResult
      <3> QED
        BY <3>1, <3>2 DEF ArrivalInv
    <2> QED
      BY <2>1, <2>2, <2>3, ArrivalsAfter
  <1>3. \A c \in Callers : thread'[c] = "checked" => made'[c] # 0 /\ ~Arrived(<<c, made[c]>>)'
    <2>1. ASSUME NEW c \in Callers, Begin(c), NEW d \in Callers, thread'[d] = "checked"
          PROVE  made'[d] # 0 /\ ~Arrived(<<d, made[d]>>)'
      <3>1. arrivals' = arrivals
        BY <2>1 DEF Begin
      <3>2. CASE d # c
        <4>1. thread[d] = "checked" /\ made'[d] = made[d]
          BY <2>1, <3>2 DEF Begin, TypeOK
        <4> QED
          BY <3>1, <4>1 DEF ArrivalInv, Arrived
      <3>3. CASE d = c
        <4>1. made'[c] = made[c] + 1 /\ made[c] \in Nat /\ made[c] + 1 \in 1..MaxCalls
          <5>1. made[c] \in 0..MaxCalls /\ made[c] < MaxCalls /\ made'[c] = made[c] + 1
            BY <2>1 DEF Begin, TypeOK
          <5> QED
            BY <5>1
        <4>2. <<c, made[c] + 1>> \in Calls
          BY <4>1 DEF Calls
        <4>3. ~Arrived(<<c, made[c] + 1>>)
          BY <4>1, <4>2 DEF ArrivalInv
        <4> QED
          BY <3>1, <3>3, <4>1, <4>3 DEF Arrived
      <3> QED
        BY <3>2, <3>3
    <2>2. ASSUME NEW c \in Callers, PutCall(c), NEW d \in Callers, thread'[d] = "checked"
          PROVE  made'[d] # 0 /\ ~Arrived(<<d, made[d]>>)'
      <3>1. d # c /\ thread[d] = "checked" /\ made' = made
        BY <2>2 DEF PutCall, TypeOK
      <3>2. \A x : Arrived(x)' => Arrived(x) \/ x = <<c, made[c]>>
        BY <2>2, PutCallResult
      <3> QED
        BY <3>1, <3>2 DEF ArrivalInv
    <2>3. ASSUME arrivals' = arrivals, made' = made,
                 \A d \in Callers : thread'[d] = "checked" => thread[d] = "checked",
                 NEW d \in Callers, thread'[d] = "checked"
          PROVE  made'[d] # 0 /\ ~Arrived(<<d, made[d]>>)'
      BY <2>3 DEF ArrivalInv, Arrived
    <2> QED
      BY <2>1, <2>2, <2>3, ThreadsAfter
  <1>4. \A id \in Calls : Queued(id)' => Arrived(id)'
    BY QueuedAfter, PutCallResult, ArrivalsStay DEF ArrivalInv
  <1>5. ASSUME Busy', NEW x, x = Doing'.id
        PROVE  Arrived(x)'
    <2>1. Get => x \in Calls
      <3> SUFFICES ASSUME Get PROVE x \in Calls
        OBVIOUS
      <3>1. Doing' \in Request /\ Doing'.op = "call"
        BY <1>5, GetResult DEF Busy
      <3> QED
        BY <1>5, <3>1, RequestKinds
    <2> QED
      BY <1>5, <2>1, BusyAfter, ArrivalsStay DEF ArrivalInv
  <1>6. Busy' => Arrived(Doing.id)'
    <2>1. ASSUME Busy'
          PROVE  \E i \in DOMAIN arrivals' : arrivals'[i] = Doing'.id
      BY <1>5, <2>1 DEF Arrived
    <2> QED
      BY <2>1 DEF Arrived
  <1>7. ASSUME NEW s \in ServerNames, NEW id \in Calls, At(s, id)'
        PROVE  Arrived(id)'
    <2>1. \/ At(s, id)
          \/ Get /\ worker' = "calling" /\ id = Doing'.id
          \/ Connect /\ id = Doing.id
      BY <1>7, PlacesAfter DEF At
    <2>2. CASE Get /\ worker' = "calling" /\ id = Doing'.id
      BY <1>5, <2>2 DEF Busy
    <2>3. CASE Connect /\ id = Doing.id
      BY <2>3, ArrivalsStay DEF ArrivalInv, Connect, Busy
    <2> QED
      BY <2>1, <2>2, <2>3, ArrivalsStay DEF ArrivalInv
  <1> QED
    BY <1>1, <1>2, <1>3, <1>4, <1>6, <1>7 DEF ArrivalInv


(* A call that is put on the queue is later than all that arrived. *)
LEMMA PutCallIsLast ==
  ASSUME TypeOK, ArrivalInv, NEW c \in Callers, PutCall(c),
         NEW id, id = <<c, made[c]>>, NEW a, Arrived(a)
  PROVE  Before(a, id)'
  BY PutCallResult

LEMMA QueueInvStep ==
  ASSUME TypeOK, TypeOK', WorkerInv, ArrivalInv, QueueInv, [Next]_vars
  PROVE  QueueInv'
  <1>0. \A a, b : Before(a, b) => Before(a, b)'
    BY ArrivalsStay
  <1>1. ASSUME NEW i \in DOMAIN requests', NEW j \in DOMAIN requests', i < j,
               requests'[i].op = "call", requests'[j].op = "call",
               NEW a, NEW b, a = requests'[i].id, b = requests'[j].id
        PROVE  Before(a, b)'
    <2>1. CASE requests' = requests
      BY <1>0, <1>1, <2>1 DEF QueueInv
    <2>2. CASE Get
      BY <1>0, <1>1, <2>2, GetResult DEF QueueInv
    <2>3. ASSUME NEW c \in Closers, PutClose(c)
          PROVE  Before(a, b)'
      <3>1. i \in DOMAIN requests /\ j \in DOMAIN requests
        BY <1>1, <2>3, PutCloseResult
      <3>2. requests'[i] = requests[i] /\ requests'[j] = requests[j]
        BY <2>3, <3>1, PutCloseResult
      <3> QED
        BY <1>0, <1>1, <3>1, <3>2 DEF QueueInv
    <2>4. ASSUME NEW c \in Callers, PutCall(c)
          PROVE  Before(a, b)'
      <3>1. PICK id : id = <<c, made[c]>>
        OBVIOUS
      <3> DEFINE n == Len(requests')
      <3>2. /\ DOMAIN requests' = DOMAIN requests \cup {n}
            /\ \A k \in DOMAIN requests : k \in Nat /\ k < n /\ requests'[k] = requests[k]
            /\ requests'[n].op = "call" /\ requests'[n].id = id
        BY <2>4, <3>1, PutCallResult
      <3>3. n \in Nat
        BY LenProperties DEF TypeOK
      <3> HIDE DEF n
      <3>4. i \in DOMAIN requests /\ requests[i].op = "call" /\ requests[i].id = a
        BY <1>1, <3>2, <3>3
      <3>5. CASE j \in DOMAIN requests
        BY <1>0, <1>1, <3>2, <3>4, <3>5 DEF QueueInv
      <3>6. CASE j = n
        <4>1. a \in Calls
          <5>1. requests[i] \in Request
            BY <3>4, LenProperties, ElementOfSeq DEF TypeOK
          <5> QED
            BY <3>4, <5>1, RequestKinds
        <4>2. Queued(a)
          BY <3>4 DEF Queued
        <4>3. Arrived(a) /\ b = id
          BY <1>1, <3>2, <3>6, <4>1, <4>2 DEF ArrivalInv
        <4> QED
          BY <2>4, <3>1, <4>3, PutCallIsLast
      <3> QED
        BY <1>1, <3>2, <3>5, <3>6
    <2> QED
      BY <2>1, <2>2, <2>3, <2>4, QueueAfter
  <1>2. \A i, j \in DOMAIN requests' :
           i < j /\ requests'[i].op = "call" /\ requests'[j].op = "call"
               => Before(requests[i].id, requests[j].id)'
    <2>1. ASSUME NEW i \in DOMAIN requests', NEW j \in DOMAIN requests', i < j,
                 requests'[i].op = "call", requests'[j].op = "call"
          PROVE  \E k, l \in DOMAIN arrivals' :
                    k < l /\ arrivals'[k] = requests'[i].id /\ arrivals'[l] = requests'[j].id
      BY <1>1, <2>1 DEF Before
    <2> QED
      BY <2>1 DEF Before
  <1>3. ASSUME NEW x \in Calls, Queued(x)', Busy', NEW d, d = Doing'.id
        PROVE  Before(d, x)'
    <2>1. CASE Get
      <3> DEFINE q == Head(requests)
      <3>1. /\ q = requests[1] /\ 1 \in DOMAIN requests /\ q.op = "call" /\ q.id = d
            /\ \A i \in DOMAIN requests' : /\ i + 1 \in DOMAIN requests /\ 1 < i + 1
                                         /\ requests'[i] = requests[i + 1]
        BY <1>3, <2>1, GetResult DEF Busy
      <3>2. PICK i \in DOMAIN requests' : requests'[i].op = "call" /\ requests'[i].id = x
        BY <1>3 DEF Queued
      <3> HIDE DEF q
      <3>3. Before(d, x)
        BY <3>1, <3>2 DEF QueueInv
      <3> QED
        BY <1>0, <3>3
    <2>2. CASE ~Get
      <3>1. Busy /\ d = Doing.id
        BY <1>3, <2>2, BusyAfter
      <3>2. CASE Queued(x)
        BY <1>0, <3>1, <3>2 DEF QueueInv
      <3>3. ASSUME NEW c \in Callers, PutCall(c), x = <<c, made[c]>>
            PROVE  Before(d, x)'
        BY <3>1, <3>3, PutCallIsLast DEF ArrivalInv
      <3> QED
        BY <1>3, <3>2, <3>3, QueuedAfter
    <2> QED
      BY <2>1, <2>2
  <1>4. \A id \in Calls : Queued(id)' /\ Busy' => Before(Doing.id, id)'
    <2>1. ASSUME NEW x \in Calls, Queued(x)', Busy'
          PROVE  \E k, l \in DOMAIN arrivals' : k < l /\ arrivals'[k] = Doing'.id /\ arrivals'[l] = x
      BY <1>3, <2>1 DEF Before
    <2> QED
      BY <2>1 DEF Before
  <1>5. ASSUME NEW s \in ServerNames, NEW a \in Calls, NEW b \in Calls, At(s, a)', Queued(b)'
        PROVE  Before(a, b)'
    <2>1. CASE Get /\ worker' = "calling" /\ a = Doing'.id
      BY <1>3, <1>5, <2>1 DEF Busy
    <2>2. CASE Connect /\ a = Doing.id
      <3>1. Busy' /\ Doing' = Doing
        BY <2>2 DEF Connect, Busy, Doing
      <3> QED
        BY <1>3, <1>5, <2>2, <3>1
    <2>3. CASE At(s, a)
      <3>1. CASE Queued(b)
        BY <1>0, <2>3, <3>1 DEF QueueInv
      <3>2. ASSUME NEW c \in Callers, PutCall(c), b = <<c, made[c]>>
            PROVE  Before(a, b)'
        BY <2>3, <3>2, PutCallIsLast DEF ArrivalInv
      <3> QED
        BY <1>5, <3>1, <3>2, QueuedAfter
    <2> QED
      BY <1>5, <2>1, <2>2, <2>3, PlacesAfter DEF At
  <1>6. ASSUME NEW s \in ServerNames, NEW a \in Calls, At(s, a)', worker' = "connecting",
               NEW d, d = Doing'.id
        PROVE  Before(a, d)'
    <2>1. Busy'
      BY <1>6 DEF Busy
    <2>2. At(s, a)
      <3>1. ~Connect
        BY <1>6 DEF Connect
      <3> QED
        BY <1>6, <3>1, PlacesAfter DEF At
    <2>3. CASE Get
      <3>1. Queued(d) /\ Doing'.op = "call" /\ Doing' \in Request
        <4>1. ~Busy
          BY <2>3 DEF Get, Busy
        <4>2. Queued(d) /\ Doing'.op = "call"
          BY <1>6, <2>1, <4>1, BusyAfter
        <4> QED
          BY <2>3, <4>2, GetResult
      <3>2. d \in Calls
        BY <1>6, <3>1, RequestKinds
      <3> QED
        BY <1>0, <2>2, <3>1, <3>2 DEF QueueInv
    <2>4. CASE ~Get
      <3>1. worker = "connecting" /\ d = Doing.id
        BY <1>6, <2>1, <2>4, BusyAfter
      <3> QED
        BY <1>0, <2>2, <3>1 DEF QueueInv
    <2> QED
      BY <2>3, <2>4
  <1>7. \A s \in ServerNames, a \in Calls :
           At(s, a)' /\ worker' = "connecting" => Before(a, Doing.id)'
    <2>1. ASSUME NEW s \in ServerNames, NEW a \in Calls, At(s, a)', worker' = "connecting"
          PROVE  \E k, l \in DOMAIN arrivals' : k < l /\ arrivals'[k] = a /\ arrivals'[l] = Doing'.id
      BY <1>6, <2>1 DEF Before
    <2> QED
      BY <2>1 DEF Before
  <1> QED
    BY <1>2, <1>4, <1>5, <1>7 DEF QueueInv

-----------------------------------------------------------------------------
(* The servers. *)

(* What a server is sent is later than all that any server has. *)
LEMMA SentIsLast ==
  ASSUME TypeOK, WorkerInv, QueueInv, [Next]_vars, NEW id,
         \/ Get /\ worker' = "calling" /\ id = Doing'.id
         \/ Connect /\ id = Doing.id
  PROVE  \A s \in ServerNames, a \in Calls : At(s, a) => Before(a, id)
  <1>1. CASE Get /\ worker' = "calling" /\ id = Doing'.id
    <2>1. Queued(id) /\ id \in Calls
      <3>1. ~Busy
        BY <1>1 DEF Get, Busy
      <3> QED
        BY <1>1, <3>1, BusyAfter, GetDelivers DEF Busy
    <2> QED
      BY <2>1 DEF QueueInv
  <1>2. CASE Connect /\ id = Doing.id
    BY <1>2 DEF Connect, QueueInv
  <1> QED
    BY <1>1, <1>2

LEMMA DeliveredOrder ==
  ASSUME TypeOK, NEW s \in ServerNames, NEW p, NEW id \in Calls, Delivered(s, p, id),
         \A a \in Calls : Waiting(s, a) => Before(a, id),
         ServerInv, \A a, b : Before(a, b) => Before(a, b)',
         NEW t \in ServerNames, NEW q \in DOMAIN processes'[t],
         NEW i \in DOMAIN processes'[t][q].inbox, NEW j \in DOMAIN processes'[t][q].inbox, i < j,
         NEW a, NEW b, a = processes'[t][q].inbox[i], b = processes'[t][q].inbox[j]
  PROVE  Before(a, b)'
  <1>1. CASE processes'[t][q].inbox = <<>>
    BY <1>1
  <1>2. CASE q \in DOMAIN processes[t] /\ processes'[t][q].inbox = processes[t][q].inbox
    BY <1>2 DEF ServerInv
  <1>3. CASE processes'[t][q].inbox = <<id>>
    <2>1. i \in 1..1 /\ j \in 1..1
      BY <1>3
    <2> QED
      BY <2>1
  <1>4. CASE /\ t = s /\ q \in DOMAIN processes[t]
             /\ processes'[t][q].inbox = Append(processes[t][q].inbox, id)
    <2> DEFINE old == processes[t][q].inbox
               new == processes'[t][q].inbox
    <2>1. old \in Seq(Calls)
      BY <1>4, InboxType
    <2>2. new = Append(old, id) /\ i \in DOMAIN new /\ j \in DOMAIN new
      BY <1>4
    <2> HIDE DEF new, old
    <2>3. /\ i \in DOMAIN old /\ new[i] = old[i] /\ old[i] \in Calls
          /\ \/ j \in DOMAIN old /\ new[j] = old[j]
             \/ new[j] = id
      BY <2>1, <2>2, ExtendedPair
    <2>4. a = new[i] /\ b = new[j]
      BY DEF new
    <2>5. CASE j \in DOMAIN old /\ new[j] = old[j]
      <3>1. Before(old[i], old[j])
        BY <1>4, <2>3, <2>5 DEF ServerInv, old
      <3> QED
        BY <2>3, <2>4, <2>5, <3>1
    <2>6. CASE new[j] = id
      <3>1. Waiting(t, old[i])
        BY <1>4, <2>3 DEF Waiting, old
      <3> QED
        BY <1>4, <2>3, <2>4, <2>6, <3>1
    <2> QED
      BY <2>3, <2>5, <2>6
  <1> QED
    BY <1>1, <1>2, <1>3, <1>4 DEF Delivered

LEMMA InboxOrderStep ==
  ASSUME TypeOK, TypeOK', WorkerInv, QueueInv, ServerInv, [Next]_vars,
         NEW t \in ServerNames, NEW q \in DOMAIN processes'[t],
         NEW i \in DOMAIN processes'[t][q].inbox, NEW j \in DOMAIN processes'[t][q].inbox, i < j,
         NEW a, NEW b, a = processes'[t][q].inbox[i], b = processes'[t][q].inbox[j]
  PROVE  Before(a, b)'
  <1>0. \A x, y : Before(x, y) => Before(x, y)'
    BY ArrivalsStay
  <1>1. CASE Kept
    <2>1. q \in DOMAIN processes[t] /\ processes'[t][q].inbox = processes[t][q].inbox
      BY <1>1 DEF Kept
    <2> QED
      BY <1>0, <2>1 DEF ServerInv
  <1>2. CASE Get /\ worker' = "calling"
    <2> DEFINE s == Doing'.server
               id == Doing'.id
               p == sessions[s]
    <2>1. s \in ServerNames /\ id \in Calls /\ Delivered(s, p, id)
      BY <1>2, GetDelivers
    <2>2. id = Doing'.id
      OBVIOUS
    <2> HIDE DEF s, id, p
    <2>3. \A x \in Calls : Waiting(s, x) => Before(x, id)
      BY <1>2, <2>1, <2>2, SentIsLast DEF At
    <2> QED
      BY <1>0, <2>1, <2>3, DeliveredOrder
  <1>3. CASE Connect
    <2> DEFINE s == Doing.server
               id == Doing.id
    <2>1. PICK p : s \in ServerNames /\ id \in Calls /\ Delivered(s, p, id)
      BY <1>3, ConnectDelivers
    <2>2. id = Doing.id
      OBVIOUS
    <2> HIDE DEF s, id
    <2>3. \A x \in Calls : Waiting(s, x) => Before(x, id)
      BY <1>3, <2>1, <2>2, SentIsLast DEF At
    <2> QED
      BY <1>0, <2>1, <2>3, DeliveredOrder
  <1>4. ASSUME NEW s \in ServerNames, NEW p \in DOMAIN processes[s], Execute(s, p)
        PROVE  Before(a, b)'
    <2> DEFINE box == processes[s][p].inbox
    <2>1. /\ \A u \in ServerNames : DOMAIN processes'[u] = DOMAIN processes[u]
          /\ \A u \in ServerNames : u # s => processes'[u] = processes[u]
          /\ \A r \in DOMAIN processes[s] : r # p => processes'[s][r] = processes[s][r]
          /\ \A k \in DOMAIN processes'[s][p].inbox :
                k \in Nat /\ k + 1 \in DOMAIN box /\ processes'[s][p].inbox[k] = box[k + 1]
      BY <1>4, ExecuteResult
    <2>2. CASE t = s /\ q = p
      <3>1. /\ i + 1 \in DOMAIN box /\ j + 1 \in DOMAIN box /\ i + 1 < j + 1
            /\ a = box[i + 1] /\ b = box[j + 1]
        BY <2>1, <2>2
      <3> QED
        BY <1>0, <1>4, <3>1 DEF ServerInv
    <2>3. CASE ~(t = s /\ q = p)
      <3>1. q \in DOMAIN processes[t] /\ processes'[t][q] = processes[t][q]
        BY <2>1, <2>3
      <3> QED
        BY <1>0, <3>1 DEF ServerInv
    <2> QED
      BY <2>2, <2>3
  <1>5. CASE Get /\ worker' # "calling"
    BY <1>1, <1>5, GetResult, OthersKeep
  <1>6. \/ Get \/ Connect \/ ConnectFails \/ Close
        \/ \E s \in ServerNames : \E p \in DOMAIN processes[s] : Execute(s, p) \/ Die(s, p)
        \/ processes' = processes
    BY DEF Next, ClientStep, WorkerStep, PutCall, Begin, BeginClose, PutClose, FinishClose,
       Receive, CallFails, vars
  <1> QED
    BY <1>1, <1>2, <1>3, <1>4, <1>5, <1>6, OthersKeep

LEMMA ServerInvStep ==
  ASSUME TypeOK, TypeOK', WorkerInv, ServingInv, ArrivalInv, QueueInv, ServerInv, [Next]_vars
  PROVE  ServerInv'
  <1>0. \A a, b : Before(a, b) => Before(a, b)'
    BY ArrivalsStay
  <1>1. \A t \in ServerNames : \A q \in DOMAIN processes'[t] :
           \A i, j \in DOMAIN processes'[t][q].inbox :
               i < j => Before(processes[t][q].inbox[i], processes[t][q].inbox[j])'
    <2>1. ASSUME NEW t \in ServerNames, NEW q \in DOMAIN processes'[t],
                 NEW i \in DOMAIN processes'[t][q].inbox, NEW j \in DOMAIN processes'[t][q].inbox, i < j
          PROVE  \E k, l \in DOMAIN arrivals' : /\ k < l
                    /\ arrivals'[k] = processes'[t][q].inbox[i] /\ arrivals'[l] = processes'[t][q].inbox[j]
      BY <2>1, InboxOrderStep DEF Before
    <2> QED
      BY <2>1 DEF Before
  <1>2. ASSUME NEW t \in ServerNames, NEW a \in Calls, NEW b \in Calls, Done(t, a)', Waiting(t, b)'
        PROVE  Before(a, b)'
    <2>1. ASSUME NEW s \in ServerNames, NEW p \in DOMAIN processes[s], Execute(s, p)
          PROVE  Before(a, b)'
      <3> DEFINE box == processes[s][p].inbox
                 id == Head(box)
      <3>1. CASE Done(t, a)
        BY <1>0, <1>2, <2>1, <3>1, ExecutePlaces DEF ServerInv
      <3>2. CASE t = s /\ a = id
        <4>1. /\ id = box[1] /\ 1 \in DOMAIN box
              /\ DOMAIN processes'[s] = DOMAIN processes[s]
              /\ \A r \in DOMAIN processes[s] : r # p => processes'[s][r] = processes[s][r]
              /\ \A k \in DOMAIN processes'[s][p].inbox :
                    k + 1 \in DOMAIN box /\ 1 < k + 1 /\ processes'[s][p].inbox[k] = box[k + 1]
          BY <2>1, ExecuteResult
        <4>2a. PICK r \in DOMAIN processes'[s] :
                 \E k \in DOMAIN processes'[s][r].inbox : processes'[s][r].inbox[k] = b
          BY <1>2, <3>2 DEF Waiting
        <4>2. PICK k \in DOMAIN processes'[s][r].inbox : processes'[s][r].inbox[k] = b
          BY <4>2a
        <4>3. r = p
          <5>1. box # <<>>
            BY <2>1 DEF Execute
          <5>2. p = sessions[s]
            BY <5>1 DEF ServingInv
          <5>3. ASSUME r # p
                PROVE  r = sessions[s]
            <6>1. r \in DOMAIN processes[s] /\ processes[s][r].inbox # <<>>
              BY <4>1, <4>2, <5>3
            <6> QED
              BY <6>1 DEF ServingInv
          <5> QED
            BY <5>2, <5>3
        <4> HIDE DEF box, id
        <4>4. /\ k + 1 \in DOMAIN box /\ 1 < k + 1 /\ b = box[k + 1]
          BY <4>1, <4>2, <4>3
        <4>5. Before(a, b)
          BY <3>2, <4>1, <4>4 DEF ServerInv, box
        <4> QED
          BY <1>0, <4>5
      <3> QED
        BY <1>2, <2>1, <3>1, <3>2, ExecutePlaces
    <2>2. ASSUME ~\E s \in ServerNames : \E p \in DOMAIN processes[s] : Execute(s, p)
          PROVE  Before(a, b)'
      <3>1. executed' = executed
        BY <2>2 DEF Next, ClientStep, WorkerStep, PutCall, Begin, BeginClose, PutClose, FinishClose, Get,
           Connect, ConnectFails, Receive, CallFails, Resolve, Close, Die, vars
      <3>2. Done(t, a)
        BY <1>2, <3>1 DEF Done
      <3>3. CASE Waiting(t, b)
        BY <1>0, <3>2, <3>3 DEF ServerInv
      <3>4. CASE \/ Get /\ worker' = "calling" /\ b = Doing'.id
                 \/ Connect /\ b = Doing.id
        BY <1>0, <3>2, <3>4, SentIsLast DEF At
      <3> QED
        BY <1>2, <3>3, <3>4, PlacesAfter
    <2> QED
      BY <2>1, <2>2
  <1>3. ASSUME NEW t \in ServerNames, NEW i \in DOMAIN executed'[t], NEW j \in DOMAIN executed'[t], i < j,
               NEW a, NEW b, a = executed'[t][i], b = executed'[t][j]
        PROVE  Before(a, b)'
    <2>1. CASE executed' = executed
      BY <1>0, <1>3, <2>1 DEF ServerInv
    <2>2. ASSUME NEW s \in ServerNames, NEW p \in DOMAIN processes[s], Execute(s, p)
          PROVE  Before(a, b)'
      <3> DEFINE id == Head(processes[s][p].inbox)
                 n == Len(executed'[s])
      <3>1. /\ id \in Calls /\ Waiting(s, id)
            /\ \A u \in ServerNames : u # s => executed'[u] = executed[u]
            /\ DOMAIN executed'[s] = DOMAIN executed[s] \cup {n}
            /\ \A k \in DOMAIN executed[s] : k \in Nat /\ k < n /\ executed'[s][k] = executed[s][k]
            /\ executed'[s][n] = id
        BY <2>2, ExecuteResult
      <3>2. n \in Nat /\ executed[s] \in Seq(Calls)
        BY LenProperties DEF TypeOK
      <3> HIDE DEF id, n
      <3>3. CASE t # s
        BY <1>0, <1>3, <3>1, <3>3 DEF ServerInv
      <3>4. CASE t = s
        <4>1. i \in DOMAIN executed[s] /\ a = executed[s][i]
          BY <1>3, <3>1, <3>2, <3>4
        <4>2. CASE j \in DOMAIN executed[s]
          BY <1>0, <1>3, <3>1, <3>4, <4>1, <4>2 DEF ServerInv
        <4>3. CASE j = n
          <5>1. a \in Calls /\ Done(s, a) /\ b = id
            BY <1>3, <3>1, <3>2, <3>4, <4>1, <4>3, LenProperties, ElementOfSeq DEF Done
          <5>2. Before(a, b)
            BY <3>1, <5>1 DEF ServerInv
          <5> QED
            BY <1>0, <5>2
        <4> QED
          BY <1>3, <3>1, <3>4, <4>2, <4>3
      <3> QED
        BY <3>3, <3>4
    <2>3. executed' = executed \/ \E s \in ServerNames : \E p \in DOMAIN processes[s] : Execute(s, p)
      BY DEF Next, ClientStep, WorkerStep, PutCall, Begin, BeginClose, PutClose, FinishClose, Get,
         Connect, ConnectFails, Receive, CallFails, Resolve, Close, Die, vars
    <2> QED
      BY <2>1, <2>2, <2>3
  <1>4. \A t \in ServerNames : \A i, j \in DOMAIN executed'[t] :
           i < j => Before(executed[t][i], executed[t][j])'
    <2>1. ASSUME NEW t \in ServerNames, NEW i \in DOMAIN executed'[t], NEW j \in DOMAIN executed'[t], i < j
          PROVE  \E k, l \in DOMAIN arrivals' :
                    k < l /\ arrivals'[k] = executed'[t][i] /\ arrivals'[l] = executed'[t][j]
      BY <1>3, <2>1 DEF Before
    <2> QED
      BY <2>1 DEF Before
  <1>5. ASSUME NEW s \in ServerNames, NEW t \in ServerNames, NEW id \in Calls, At(s, id)', At(t, id)'
        PROVE  s = t
    <2>1. CASE At(s, id) /\ At(t, id)
      BY <2>1 DEF ServerInv
    <2>2. CASE \/ Get /\ worker' = "calling" /\ id = Doing'.id
               \/ Connect /\ id = Doing.id
      <3>1. ~At(s, id) /\ ~At(t, id)
        BY <2>2, SentIsLast, NotBeforeItself
      <3>2. ASSUME NEW u \in ServerNames, At(u, id)', ~At(u, id)
            PROVE  (Get /\ u = Doing'.server) \/ (Connect /\ u = Doing.server)
        BY <3>2, PlacesAfter DEF At
      <3>3. ~(Get /\ Connect)
        BY DEF Get, Connect
      <3> QED
        BY <1>5, <3>1, <3>2, <3>3
    <2> QED
      BY <1>5, <2>1, <2>2, PlacesAfter DEF At
  <1> QED
    BY <1>1, <1>2, <1>4, <1>5 DEF ServerInv

-----------------------------------------------------------------------------
(* The n-th call that a server executes is the n-th to arrive or a later one. *)
LEMMA LateInvStep ==
  ASSUME TypeOK, TypeOK', ArrivalInv, ServerInv, LateInv, [Next]_vars
  PROVE  LateInv'
  <1>1. \A j \in DOMAIN arrivals : j \in DOMAIN arrivals' /\ arrivals'[j] = arrivals[j]
    BY ArrivalPlacesStay
  <1>2. CASE executed' = executed
    BY <1>1, <1>2 DEF LateInv
  <1>3. ASSUME NEW s \in ServerNames, NEW p \in DOMAIN processes[s], Execute(s, p)
        PROVE  LateInv'
    <2> DEFINE id == Head(processes[s][p].inbox)
               done == executed[s]
               n == Len(executed'[s])
    <2>1. /\ id \in Calls /\ Waiting(s, id)
          /\ \A t \in ServerNames : t # s => executed'[t] = executed[t]
          /\ DOMAIN executed'[s] = DOMAIN done \cup {n}
          /\ n = Len(done) + 1
          /\ \A i \in DOMAIN done : executed'[s][i] = done[i]
          /\ executed'[s][n] = id
      BY <1>3, ExecuteResult
    <2>2. done \in Seq(Calls) /\ Len(done) \in Nat /\ DOMAIN done = 1..Len(done)
      BY LenProperties DEF TypeOK
    <2>3. \A j \in DOMAIN arrivals : j \in Nat \ {0}
      BY LenProperties DEF TypeOK
    <2> HIDE DEF id, done, n
    <2>4. \E j \in DOMAIN arrivals : n <= j /\ arrivals[j] = id
      <3>1. CASE Len(done) = 0
        <4>1. Arrived(id)
          BY <2>1 DEF ArrivalInv, At
        <4>2. PICK j \in DOMAIN arrivals : arrivals[j] = id
          BY <4>1 DEF Arrived
        <4> QED
          BY <2>1, <2>3, <3>1, <4>2
      <3>2. CASE Len(done) # 0
        <4> DEFINE m == Len(done)
                   last == done[m]
        <4>1. m \in DOMAIN done /\ m \in Nat /\ n = m + 1
          BY <2>1, <2>2, <3>2
        <4>2. last \in Calls /\ Done(s, last)
          BY <2>2, <4>1, ElementOfSeq DEF Done, done
        <4>3. PICK j \in DOMAIN arrivals : m <= j /\ arrivals[j] = last
          BY <4>1 DEF LateInv, done
        <4>4. Before(last, id)
          BY <2>1, <4>2 DEF ServerInv
        <4> HIDE DEF last, m
        <4>5. PICK k, l \in DOMAIN arrivals : k < l /\ arrivals[k] = last /\ arrivals[l] = id
          BY <4>4 DEF Before
        <4>6. k = j
          BY <4>3, <4>5 DEF ArrivalInv
        <4>7. n <= l
          BY <2>3, <4>1, <4>3, <4>5, <4>6
        <4> QED
          BY <4>5, <4>7
      <3> QED
        BY <3>1, <3>2
    <2>5. ASSUME NEW t \in ServerNames, NEW i \in DOMAIN executed'[t]
          PROVE  \E j \in DOMAIN arrivals' : i <= j /\ arrivals'[j] = executed'[t][i]
      <3>1. CASE t # s
        BY <1>1, <2>1, <2>5, <3>1 DEF LateInv
      <3>2. CASE t = s /\ i \in DOMAIN done
        BY <1>1, <2>1, <3>2 DEF LateInv, done
      <3>3. CASE t = s /\ i = n
        BY <1>1, <2>1, <2>4, <3>3
      <3> QED
        BY <2>1, <2>5, <3>1, <3>2, <3>3
    <2> QED
      BY <2>5 DEF LateInv
  <1> QED
    BY <1>2, <1>3, ExecutedAfter

-----------------------------------------------------------------------------
(* Answers. *)

(* A step changes the answer of a call that begins or of the one worked on. *)
LEMMA AnswersAfter ==
  ASSUME TypeOK, WorkerInv, [Next]_vars, NEW id \in Calls
  PROVE  \/ answers'[id] = answers[id]
         \/ \E c \in Callers : Begin(c) /\ id = <<c, made[c] + 1>>
         \/ /\ Busy /\ ~Busy' /\ id = Doing.id
            /\ UNCHANGED <<requests, made, arrivals>>
            /\ answers'[id] = "error" \/ (replied /\ answers'[id] = "result")
  <1>1. CASE answers' = answers
    BY <1>1
  <1>2. ASSUME NEW c \in Callers, Begin(c)
        PROVE  answers'[id] = answers[id] \/ id = <<c, made[c] + 1>>
    BY <1>2 DEF Begin, TypeOK
  <1>3. ASSUME NEW v, Resolve(v), worker \in {"connecting", "calling"}
        PROVE  /\ answers'[id] = answers[id] \/ (id = Doing.id /\ answers'[id] = v)
               /\ Busy /\ ~Busy' /\ UNCHANGED <<requests, made, arrivals>>
    BY <1>3 DEF Resolve, TypeOK, Busy
  <1>4. \/ answers' = answers
        \/ \E c \in Callers : Begin(c)
        \/ Resolve("error") /\ worker \in {"connecting", "calling"}
        \/ Resolve("result") /\ replied /\ worker = "calling"
    BY DEF Next, ClientStep, WorkerStep, PutCall, BeginClose, PutClose, FinishClose, Get, Connect,
       ConnectFails, Receive, CallFails, Close, Execute, Die, vars, clients
  <1> QED
    BY <1>1, <1>2, <1>3, <1>4

(* A call that begins has not arrived. *)
LEMMA BeginsUnarrived ==
  ASSUME TypeOK, ArrivalInv, NEW c \in Callers, Begin(c)
  PROVE  <<c, made[c] + 1>> \in Calls /\ ~Arrived(<<c, made[c] + 1>>)
  <1>1. made[c] \in 0..MaxCalls /\ made[c] < MaxCalls
    BY DEF Begin, TypeOK
  <1>2. made[c] + 1 \in 1..MaxCalls /\ ~(made[c] + 1 <= made[c])
    BY <1>1, GatewayAssumption
  <1> QED
    BY <1>2 DEF Calls, ArrivalInv

(* The answer of a call that has arrived and is not being worked on stays. *)
LEMMA AnswerStays ==
  ASSUME TypeOK, WorkerInv, ArrivalInv, [Next]_vars,
         NEW id \in Calls, Arrived(id), Busy => id # Doing.id
  PROVE  answers'[id] = answers[id]
  BY AnswersAfter, BeginsUnarrived

LEMMA AnswerInvStep ==
  ASSUME TypeOK, TypeOK', WorkerInv, ArrivalInv, ArrivalInv', QueueInv, ServerInv, AnswerInv, [Next]_vars
  PROVE  AnswerInv'
  <1> USE GatewayAssumption
  <1>1. ASSUME NEW c \in Callers, NEW n \in 1..MaxCalls, n > made'[c]
        PROVE  answers'[<<c, n>>] = "none"
    <2>1. made[c] \in Nat /\ made[c] <= made'[c] /\ made'[c] \in Nat
      <3>1. made' = made \/ \E d \in Callers : made' = [made EXCEPT ![d] = @ + 1]
        BY ArrivalsAfter DEF Begin, PutCall
      <3>2. made'[c] \in {made[c], made[c] + 1}
        BY <3>1 DEF TypeOK
      <3>3. made[c] \in Nat
        BY DEF TypeOK
      <3> QED
        BY <3>2, <3>3
    <2>2. <<c, n>> \in Calls /\ n > made[c] /\ answers[<<c, n>>] = "none"
      BY <1>1, <2>1 DEF AnswerInv, Calls
    <2>3. ASSUME NEW d \in Callers, Begin(d), <<c, n>> = <<d, made[d] + 1>>
          PROVE  FALSE
      <3>1. made'[c] = made[c] + 1 /\ n = made[c] + 1
        BY <2>3 DEF Begin, TypeOK
      <3> QED
        BY <1>1, <2>1, <3>1
    <2>4. ~Arrived(<<c, n>>)
      <3>1. Arrived(<<c, n>>) => n <= made[c]
        BY <2>2 DEF ArrivalInv
      <3> QED
        BY <2>1, <2>2, <3>1
    <2>5. Busy => <<c, n>> # Doing.id
      BY <2>4 DEF ArrivalInv
    <2> QED
      BY <2>2, <2>3, <2>5, AnswersAfter
  <1>2. ASSUME NEW c \in Callers, thread'[c] = "checked"
        PROVE  answers'[<<c, made'[c]>>] = "pending"
    <2>1. CASE made' = made /\ thread[c] = "checked"
      <3>1. <<c, made[c]>> \in Calls
        BY <2>1 DEF TypeOK, ArrivalInv, Calls
      <3>2. ~Arrived(<<c, made[c]>>) /\ answers[<<c, made[c]>>] = "pending"
        BY <2>1 DEF ArrivalInv, AnswerInv
      <3>3. Busy => <<c, made[c]>> # Doing.id
        BY <3>2 DEF ArrivalInv
      <3>4. ASSUME NEW d \in Callers, Begin(d)
            PROVE  FALSE
        <4>1. made'[d] = made[d] + 1 /\ made[d] \in Nat
          BY <3>4 DEF Begin, TypeOK
        <4> QED
          BY <2>1, <4>1
      <3> QED
        BY <2>1, <3>1, <3>2, <3>3, <3>4, AnswersAfter
    <2>2. ASSUME NEW d \in Callers, Begin(d)
          PROVE  answers'[<<c, made'[c]>>] = "pending"
      <3>1. CASE c = d
        <4>1. <<c, made[c] + 1>> \in Calls
          BY <2>2, <3>1, BeginsUnarrived
        <4>2. made'[c] = made[c] + 1 /\ ~closed
          BY <1>2, <2>2, <3>1 DEF Begin, TypeOK
        <4> QED
          BY <2>2, <3>1, <4>1, <4>2 DEF Begin, TypeOK
      <3>2. CASE c # d
        <4>1. made'[c] = made[c] /\ thread[c] = "checked"
          BY <1>2, <2>2, <3>2 DEF Begin, TypeOK
        <4>2. answers[<<c, made[c]>>] = "pending" /\ <<c, made[c]>> # <<d, made[d] + 1>>
          BY <3>2, <4>1 DEF AnswerInv
        <4>3. answers'[<<c, made[c]>>] = answers[<<c, made[c]>>]
          <5>1. <<c, made[c]>> \in Calls
            BY <4>1 DEF TypeOK, ArrivalInv, Calls
          <5> QED
            BY <2>2, <4>2, <5>1 DEF Begin, TypeOK
        <4> QED
          BY <4>1, <4>2, <4>3
      <3> QED
        BY <3>1, <3>2
    <2>3. ASSUME NEW d \in Callers, PutCall(d)
          PROVE  made' = made /\ thread[c] = "checked"
      BY <1>2, <2>3 DEF PutCall, TypeOK
    <2> QED
      BY <1>2, <2>1, <2>2, <2>3, ThreadsAfter
  <1>3. ASSUME NEW id \in Calls, Queued(id)'
        PROVE  answers'[id] = "pending"
    <2>1. CASE Queued(id)
      <3>1. Arrived(id) /\ answers[id] = "pending" /\ (Busy => id # Doing.id)
        BY <2>1, NotBeforeItself DEF ArrivalInv, AnswerInv, QueueInv
      <3> QED
        BY <3>1, AnswerStays
    <2>2. ASSUME NEW c \in Callers, PutCall(c), id = <<c, made[c]>>
          PROVE  answers'[id] = "pending"
      BY <2>2 DEF PutCall, AnswerInv
    <2> QED
      BY <1>3, <2>1, <2>2, QueuedAfter
  <1>4. ASSUME Busy', NEW id, id = Doing'.id
        PROVE  answers'[id] = "pending"
    <2>1. CASE Get
      <3>1. Queued(id)
        BY <1>4, <2>1, BusyAfter DEF Get, Busy
      <3>2. Doing' \in Request /\ Doing'.op = "call"
        BY <1>4, <2>1, GetResult DEF Busy
      <3>3. id \in Calls /\ answers' = answers
        BY <1>4, <2>1, <3>2, RequestKinds DEF Get, clients
      <3> QED
        BY <3>1, <3>3 DEF AnswerInv
    <2>2. CASE ~Get
      <3>1. Busy /\ id = Doing.id /\ id \in Calls
        BY <1>4, <2>2, BusyAfter, DoingType
      <3>2. Arrived(id) /\ answers[id] = "pending"
        BY <3>1 DEF ArrivalInv, AnswerInv
      <3> QED
        BY <1>4, <3>1, <3>2, AnswersAfter, BeginsUnarrived
    <2> QED
      BY <2>1, <2>2
  <1>5. Busy' => answers'[Doing'.id] = "pending"
    BY <1>4
  <1>6. ASSUME NEW s \in ServerNames, NEW id \in Calls, Waiting(s, id)'
        PROVE  answers'[id] \in {"pending", "error"}
    <2>1. CASE Waiting(s, id)
      <3>1. Arrived(id) /\ answers[id] \in {"pending", "error"}
        BY <2>1 DEF At, ArrivalInv, AnswerInv
      <3>2. ASSUME Busy, id = Doing.id
            PROVE  ~replied
        <4> SUFFICES ASSUME replied
                     PROVE  FALSE
          OBVIOUS
        <4>1. PICK t \in ServerNames : Done(t, id)
          BY <3>2 DEF WorkerInv
        <4>2. t = s
          BY <2>1, <4>1 DEF At, ServerInv
        <4>3. Before(id, id)
          BY <2>1, <4>1, <4>2 DEF ServerInv
        <4> QED
          BY <4>3, NotBeforeItself
      <3> QED
        BY <3>1, <3>2, AnswersAfter, BeginsUnarrived
    <2>2. CASE Get /\ worker' = "calling" /\ id = Doing'.id
      BY <1>5, <2>2 DEF Busy
    <2>3. CASE Connect /\ id = Doing.id
      BY <2>3 DEF Connect, Busy, AnswerInv, clients
    <2> QED
      BY <1>6, <2>1, <2>2, <2>3, PlacesAfter
  <1> QED
    BY <1>1, <1>2, <1>3, <1>5, <1>6 DEF AnswerInv

-----------------------------------------------------------------------------
LEMMA GatewayInit == Init => GatewayInv
  <1> SUFFICES ASSUME Init
               PROVE  GatewayInv
    OBVIOUS
  <1> USE GatewayAssumption
  <1>1. TypeOK
    <2>1. <<>> \in Seq(Request) /\ <<>> \in Seq(Calls) /\ <<>> \in Seq(Process) /\ Len(<<>>) = 0
      BY EmptySeq
    <2>2. closed \in BOOLEAN /\ replied \in BOOLEAN
      BY Zenon DEF Init
    <2> QED
      BY <2>1, <2>2 DEF Init, TypeOK
  <1>2. /\ \A s \in ServerNames : DOMAIN processes[s] = {} /\ DOMAIN executed[s] = {}
        /\ DOMAIN arrivals = {} /\ DOMAIN requests = {}
    BY DEF Init
  <1>3. WorkerInv /\ ~Busy
    BY DEF Init, WorkerInv, Busy
  <1>4. ServingInv
    BY <1>2 DEF ServingInv
  <1>5. \A s \in ServerNames : \A id : ~At(s, id) /\ ~Queued(id) /\ ~Arrived(id)
    BY <1>2 DEF At, Waiting, Done, Queued, Arrived
  <1>6. ArrivalInv
    BY <1>2, <1>3, <1>5 DEF ArrivalInv, Init, Queued, Arrived
  <1>7. QueueInv
    BY <1>2, <1>3, <1>5 DEF QueueInv, Init, Queued
  <1>8. ServerInv
    BY <1>2, <1>5 DEF ServerInv, At
  <1>9. LateInv
    BY <1>2 DEF LateInv
  <1>10. AnswerInv
    BY <1>2, <1>3, <1>5 DEF AnswerInv, Init, At, Calls, Queued
  <1> QED
    BY <1>1, <1>3, <1>4, <1>6, <1>7, <1>8, <1>9, <1>10 DEF GatewayInv

LEMMA GatewayStep == GatewayInv /\ [Next]_vars => GatewayInv'
  <1> SUFFICES ASSUME GatewayInv, [Next]_vars
               PROVE  GatewayInv'
    OBVIOUS
  <1>1. /\ TypeOK /\ WorkerInv /\ ServingInv /\ ArrivalInv /\ QueueInv
        /\ ServerInv /\ LateInv /\ AnswerInv
    BY DEF GatewayInv
  <1>2. TypeOK'
    BY <1>1, TypeStep
  <1>3. WorkerInv' /\ ServingInv'
    BY <1>1, WorkerInvStep, ServingInvStep
  <1>4. ArrivalInv'
    BY <1>1, <1>2, ArrivalInvStep
  <1>5. QueueInv'
    BY <1>1, <1>2, QueueInvStep
  <1>6. ServerInv'
    BY <1>1, <1>2, ServerInvStep
  <1>7. LateInv'
    BY <1>1, <1>2, LateInvStep
  <1>8. AnswerInv'
    BY <1>1, <1>2, <1>4, AnswerInvStep
  <1> QED
    BY <1>2, <1>3, <1>4, <1>5, <1>6, <1>7, <1>8 DEF GatewayInv

(* GatewayInv holds in every reachable state. *)
THEOREM GatewayInvariance == Spec => []GatewayInv
  BY GatewayInit, GatewayStep, PTL DEF Spec

(* Every variable stays in its domain. *)
THEOREM GatewayTypeCorrect == Spec => []TypeOK
  <1>1. GatewayInv => TypeOK
    BY DEF GatewayInv
  <1> QED
    BY <1>1, GatewayInvariance, PTL

(* All calls to a server name are served by one process (_session). *)
THEOREM OneServingProcessHolds == Spec => []OneServingProcess
  <1>1. GatewayInv => OneServingProcess
    BY DEF GatewayInv, ServingInv, OneServingProcess
  <1> QED
    BY <1>1, GatewayInvariance, PTL

(* A server executes its calls in the order in which they were queued, timed *)
(* out or not (_worker).                                                     *)
THEOREM ExecutedInOrderHolds == Spec => []ExecutedInOrder
  <1>1. ASSUME GatewayInv
        PROVE  ExecutedInOrder
    <2>1. ASSUME NEW s \in ServerNames, NEW i \in DOMAIN executed[s], NEW j \in DOMAIN executed[s], i < j
          PROVE  Position(executed[s][i]) < Position(executed[s][j])
      <3>1. PICK k, l \in DOMAIN arrivals :
               k < l /\ arrivals[k] = executed[s][i] /\ arrivals[l] = executed[s][j]
        BY <1>1, <2>1 DEF GatewayInv, ServerInv, Before
      <3>2. ASSUME NEW m \in DOMAIN arrivals, NEW id, arrivals[m] = id
            PROVE  Position(id) = m
        <4>1. \A h \in DOMAIN arrivals : arrivals[h] = id => h = m
          BY <1>1, <3>2 DEF GatewayInv, ArrivalInv
        <4> QED
          BY <3>2, <4>1 DEF Position
      <3>3. Position(executed[s][i]) = k /\ Position(executed[s][j]) = l
        BY <3>1, <3>2
      <3> QED
        BY <3>1, <3>3
    <2> QED
      BY <2>1 DEF ExecutedInOrder
  <1> QED
    BY <1>1, GatewayInvariance, PTL

-----------------------------------------------------------------------------
(* The refinement of ToolCalls. *)

(* Some server executed the call. *)
Taken(id) == \E s \in ServerNames : Done(s, id)

TakenOnce == Effects = [id \in Calls |-> IF Taken(id) THEN 1 ELSE 0]

(* A call is executed at one place at most. *)
LEMMA EffectsOnce == GatewayInv => TakenOnce
  <1> SUFFICES ASSUME GatewayInv, NEW id \in Calls
               PROVE  Effects[id] = IF Taken(id) THEN 1 ELSE 0
    BY DEF Effects, TakenOnce
  <1> DEFINE places == {e \in ServerNames \X (1..Len(arrivals)) :
                          e[2] \in DOMAIN executed[e[1]] /\ executed[e[1]][e[2]] = id}
  <1>1. Effects[id] = Cardinality(places)
    BY DEF Effects
  <1>2. CASE ~Taken(id)
    <2>1. places = {}
      BY <1>2 DEF Taken, Done
    <2> QED
      BY <1>1, <1>2, <2>1, FS_EmptySet
  <1>3. CASE Taken(id)
    <2>1. PICK s \in ServerNames : Done(s, id)
      BY <1>3 DEF Taken
    <2>2. PICK i \in DOMAIN executed[s] : executed[s][i] = id
      BY <2>1 DEF Done
    <2>3. TypeOK /\ ArrivalInv /\ ServerInv /\ LateInv
      BY DEF GatewayInv
    <2>4. \A t \in ServerNames : DOMAIN executed[t] = 1..Len(executed[t]) /\ Len(executed[t]) \in Nat
      BY <2>3, LenProperties DEF TypeOK
    <2>5. i \in 1..Len(arrivals)
      <3>1. PICK j \in DOMAIN arrivals : i <= j
        BY <2>2, <2>3 DEF LateInv
      <3>2. DOMAIN arrivals = 1..Len(arrivals) /\ Len(arrivals) \in Nat
        BY <2>3, LenProperties DEF TypeOK
      <3> QED
        BY <2>4, <3>1, <3>2
    <2>6. ASSUME NEW t \in ServerNames, NEW j \in DOMAIN executed[t], executed[t][j] = id
          PROVE  t = s /\ j = i
      <3>1. t = s
        BY <2>1, <2>3, <2>6 DEF ServerInv, At, Done
      <3>2. i < j => Before(id, id)
        BY <2>2, <2>3, <2>6, <3>1 DEF ServerInv
      <3>3. j < i => Before(id, id)
        BY <2>2, <2>3, <2>6, <3>1 DEF ServerInv
      <3>4. ~Before(id, id)
        BY <2>3, NotBeforeItself
      <3> QED
        BY <2>4, <3>1, <3>2, <3>3, <3>4
    <2>7. <<s, i>> \in places
      BY <2>2, <2>5
    <2>8. \A e \in places : e = <<s, i>>
      BY <2>6
    <2>9. places = {<<s, i>>}
      BY <2>7, <2>8
    <2> HIDE DEF places
    <2> QED
      BY <1>1, <1>3, <2>9, FS_Singleton
  <1> QED
    BY <1>2, <1>3

LEMMA EffectsAre ==
  GatewayInv => Effects = [id \in Calls |-> IF Taken(id) THEN 1 ELSE 0]
  BY EffectsOnce DEF TakenOnce

LEMMA EffectsNext ==
  GatewayInv' => Effects' = [id \in Calls |-> IF Taken(id)' THEN 1 ELSE 0]
  <1>1. GatewayInv' => TakenOnce'
    BY EffectsOnce, PTL
  <1> QED
    BY <1>1 DEF TakenOnce

LEMMA EffectsStay ==
  ASSUME GatewayInv, GatewayInv', executed' = executed
  PROVE  Effects' = Effects
  <1>1. \A id \in Calls : Taken(id)' <=> Taken(id)
    BY DEF Taken, Done
  <1>2. [id \in Calls |-> IF Taken(id)' THEN 1 ELSE 0] = [id \in Calls |-> IF Taken(id) THEN 1 ELSE 0]
    BY <1>1
  <1> QED
    BY <1>2, EffectsAre, EffectsNext

LEMMA ContractInit == Init => Contract!Init
  <1> SUFFICES ASSUME Init
               PROVE  Contract!Init
    OBVIOUS
  <1>1. \A id \in Calls : ~Taken(id)
    BY DEF Init, Taken, Done
  <1>2. Effects = [id \in Calls |-> 0]
    BY <1>1, GatewayInit, EffectsAre
  <1> QED
    BY <1>2 DEF Init, Contract!Init

LEMMA ContractStep ==
  ASSUME GatewayInv, GatewayInv', [Next]_vars
  PROVE  [Contract!Next]_<<answers, Effects>>
  <1>0. TypeOK /\ WorkerInv /\ ArrivalInv /\ ServerInv /\ AnswerInv
    BY DEF GatewayInv
  <1>1. ASSUME NEW c \in Callers, Begin(c)
        PROVE  Contract!Next
    <2> DEFINE id == <<c, made[c] + 1>>
    <2>1. id \in Calls
      BY <1>0, <1>1, BeginsUnarrived
    <2>2. answers[id] = "none"
      <3>1. made[c] \in Nat /\ made[c] + 1 \in 1..MaxCalls /\ made[c] + 1 > made[c]
        BY <1>0, <2>1 DEF Calls, TypeOK
      <3> QED
        BY <1>0, <3>1 DEF AnswerInv
    <2>3. Effects' = Effects
      BY <1>1, EffectsStay DEF Begin
    <2>4. Contract!Ask(id) \/ Contract!Refuse(id)
      BY <1>1, <2>2, <2>3 DEF Begin, Contract!Ask, Contract!Refuse
    <2> QED
      BY <2>1, <2>4 DEF Contract!Next
  <1>2. ASSUME NEW s \in ServerNames, NEW p \in DOMAIN processes[s], Execute(s, p)
        PROVE  Contract!Next
    <2> DEFINE id == Head(processes[s][p].inbox)
    <2>1. id \in Calls /\ Waiting(s, id)
      BY <1>0, <1>2, ExecuteResult
    <2>2. answers[id] \in {"pending", "error"} /\ answers' = answers
      BY <1>0, <1>2, <2>1 DEF AnswerInv, Execute, clients
    <2>3. ~Taken(id)
      <3>1. ASSUME NEW t \in ServerNames, Done(t, id)
            PROVE  FALSE
        <4>1. t = s
          BY <1>0, <2>1, <3>1 DEF ServerInv, At
        <4>2. Before(id, id)
          BY <1>0, <2>1, <3>1, <4>1 DEF ServerInv
        <4> QED
          BY <1>0, <4>2, NotBeforeItself
      <3> QED
        BY <3>1 DEF Taken
    <2>4. \A x \in Calls : Taken(x)' <=> Taken(x) \/ x = id
      BY <1>0, <1>2, ExecutePlaces DEF Taken
    <2>5. Effects[id] = 0
      BY <2>1, <2>3, EffectsAre
    <2>6. Effects' = [Effects EXCEPT ![id] = 1]
      <3> HIDE DEF id
      <3>1. Effects' = [x \in Calls |-> IF Taken(x) \/ x = id THEN 1 ELSE 0]
        BY <2>4, EffectsNext
      <3>2. Effects = [x \in Calls |-> IF Taken(x) THEN 1 ELSE 0]
        BY EffectsAre
      <3> QED
        BY <3>1, <3>2
    <2>7. Contract!Execute(id)
      BY <2>2, <2>5, <2>6 DEF Contract!Execute
    <2> QED
      BY <2>1, <2>7 DEF Contract!Next
  <1>3. ASSUME NEW v, Resolve(v), Busy, v = "error" \/ (v = "result" /\ replied)
        PROVE  Contract!Next
    <2>1. Doing.id \in Calls /\ answers[Doing.id] = "pending"
      BY <1>0, <1>3, DoingType DEF AnswerInv
    <2>2. replied => Effects[Doing.id] = 1
      BY <1>0, <2>1, EffectsAre DEF WorkerInv, Taken
    <2>3. Effects' = Effects
      BY <1>3, EffectsStay DEF Resolve
    <2>4. Contract!Answer(Doing.id)
      BY <1>3, <2>1, <2>2, <2>3 DEF Resolve, Contract!Answer
    <2> QED
      BY <2>1, <2>4 DEF Contract!Next
  <1>4. CASE answers' = answers /\ executed' = executed
    BY <1>4, EffectsStay
  <1>5. \/ answers' = answers /\ executed' = executed
        \/ \E c \in Callers : Begin(c)
        \/ \E s \in ServerNames : \E p \in DOMAIN processes[s] : Execute(s, p)
        \/ Resolve("error") /\ Busy
        \/ Resolve("result") /\ replied /\ Busy
    BY DEF Next, ClientStep, WorkerStep, PutCall, BeginClose, PutClose, FinishClose, Get, Connect,
       ConnectFails, Receive, CallFails, Close, Die, vars, clients, Busy
  <1> QED
    BY <1>1, <1>2, <1>3, <1>4, <1>5

(* The gateway keeps the contract of call_tool: a call is answered once, takes *)
(* effect at most once, and has taken effect when it returns a result.         *)
THEOREM CallContractHolds == Spec => CallContract
  <1>1. GatewayInv /\ GatewayInv' /\ [Next]_vars => [Contract!Next]_<<answers, Effects>>
    BY ContractStep
  <1> QED
    BY <1>1, ContractInit, GatewayInvariance, PTL DEF Spec, CallContract, Contract!Spec
=============================================================================
