----------------------- MODULE PortfolioHistoryProofs -----------------------
(***************************************************************************)
(* Theorems about PortfolioHistory and about those who read what it stores, *)
(* DashboardView and BaselineView.  The types hold for any number of        *)
(* writers and servers.  What the rows of position_states tell at any       *)
(* moment (one active row, closed rows frozen, the active rows those of the *)
(* last snapshot, a row inserted on a change only) needs a single SQL       *)
(* server process (OneProcess), and the order of the observations in the    *)
(* tables, with all that is read from them, a single writer as well         *)
(* (OneWriter).                                                             *)
(***************************************************************************)
EXTENDS BaselineView, SumTheorems, SequenceTheorems

-----------------------------------------------------------------------------
(* The rows of one asset.                                                   *)

(* Fetched picks a member of what a SELECT returned (the LIMIT 1 row). *)
LEMMA FetchedResult ==
    /\ \A i : Fetched({i}) = i
    /\ \A S : S # {} => Fetched(S) \in S
  BY DEF Fetched

(* SelectActive returns nothing exactly when no row is active, and          *)
(* otherwise one active row.                                                *)
LEMMA SelectActiveResult ==
    ASSUME NEW rs, NEW p \in SelectActive(rs)
    PROVE  \/ p = {} /\ ActiveOf(rs) = {}
           \/ \E i \in ActiveOf(rs) : p = {i}
  BY DEF SelectActive

(* The cost basis stored for a holding is a cost or the no-basis mark. *)
LEMMA EffectiveCostType ==
    ASSUME NEW row \in Row, NEW h \in Holding
    PROVE  EffectiveCost(row, h) \in Costs \cup {NoBasis}
  BY DEF EffectiveCost, Row, Holding

(* The row an INSERT creates is a well-formed active row. *)
LEMMA OpenRowType ==
    ASSUME NEW q \in Quantities, NEW c \in Costs \cup {NoBasis}, NEW t \in Nat
    PROVE  OpenRow(q, c, t) \in Row /\ OpenRow(q, c, t).active
  BY DEF OpenRow, Row

(* Closing rows ends exactly the named ones and keeps the others as they are. *)
LEMMA CloseRowsResult ==
    ASSUME NEW rs \in Seq(Row), NEW closed, NEW t \in Nat
    PROVE  /\ CloseRows(rs, closed, t) \in Seq(Row)
           /\ Len(CloseRows(rs, closed, t)) = Len(rs)
           /\ \A i \in 1..Len(rs) :
                 /\ i \in closed => ~CloseRows(rs, closed, t)[i].active
                 /\ i \notin closed => CloseRows(rs, closed, t)[i] = rs[i]
<1> DEFINE new == CloseRows(rs, closed, t)
<1>1. new = [i \in 1..Len(rs) |->
               IF i \in closed THEN [rs[i] EXCEPT !.active = FALSE, !.last = t]
                               ELSE rs[i]]
  BY DEF CloseRows
<1>2. \A i \in 1..Len(rs) : rs[i] \in Row
  OBVIOUS
<1>3. \A i \in 1..Len(rs) : new[i] \in Row
  BY <1>1, <1>2 DEF Row
<1>4. new \in [1..Len(rs) -> Row]
  BY <1>1, <1>3
<1>5. new \in Seq(Row) /\ Len(new) = Len(rs)
  BY <1>4, SeqDef
<1>6. \A i \in 1..Len(rs) : /\ i \in closed => ~new[i].active
                            /\ i \notin closed => new[i] = rs[i]
  BY <1>1, <1>2 DEF Row
<1> QED
  BY <1>5, <1>6

(* Touching a row changes no other row and nobody's active flag. *)
LEMMA TouchRowResult ==
    ASSUME NEW rs \in Seq(Row), NEW i \in 1..Len(rs), NEW t \in Nat
    PROVE  /\ TouchRow(rs, i, t) \in Seq(Row)
           /\ Len(TouchRow(rs, i, t)) = Len(rs)
           /\ \A j \in 1..Len(rs) :
                 /\ TouchRow(rs, i, t)[j].active = rs[j].active
                 /\ j # i => TouchRow(rs, i, t)[j] = rs[j]
<1> DEFINE touched == [rs[i] EXCEPT !.last = t]
<1>1. TouchRow(rs, i, t) = [rs EXCEPT ![i] = touched]
  BY DEF TouchRow
<1>2. rs[i] \in Row
  OBVIOUS
<1>3. touched \in Row /\ touched.active = rs[i].active
  BY <1>2 DEF Row
<1> HIDE DEF touched
<1> QED
  BY <1>1, <1>3, ExceptSeq

(* Revising a row keeps the list of rows at least as long, closes no other   *)
(* row, reopens none, and leaves the row's own index with what was there.    *)
LEMMA ReviseRowResult ==
    ASSUME NEW rs \in Seq(Row), NEW i \in 1..Len(rs),
           NEW h \in Holding, NEW t \in Nat
    PROVE  /\ ReviseRow(rs, i, h, t) \in Seq(Row)
           /\ Len(ReviseRow(rs, i, h, t)) >= Len(rs)
           /\ \A j \in 1..Len(rs) : j # i => ReviseRow(rs, i, h, t)[j] = rs[j]
           /\ \/ DOMAIN ReviseRow(rs, i, h, t) = 1..Len(rs)
              \/ /\ DOMAIN ReviseRow(rs, i, h, t) = 1..(Len(rs) + 1)
                 /\ ~ReviseRow(rs, i, h, t)[i].active
<1> DEFINE new == ReviseRow(rs, i, h, t)
           closed == CloseRows(rs, {i}, t)
           opened == OpenRow(h.qty, EffectiveCost(rs[i], h), t)
           touched == TouchRow(rs, i, t)
<1>1. new = IF SamePosition(rs[i], h) THEN touched ELSE Append(closed, opened)
  BY DEF ReviseRow
<1>2. opened \in Row
  <2>1. EffectiveCost(rs[i], h) \in Costs \cup {NoBasis}
    BY EffectiveCostType
  <2>2. h.qty \in Quantities
    BY DEF Holding
  <2> QED
    BY <2>1, <2>2, OpenRowType
<1>3. /\ closed \in Seq(Row) /\ Len(closed) = Len(rs)
      /\ ~closed[i].active
      /\ \A j \in 1..Len(rs) : j # i => closed[j] = rs[j]
  BY CloseRowsResult
<1>4. /\ touched \in Seq(Row) /\ Len(touched) = Len(rs)
      /\ \A j \in 1..Len(rs) : j # i => touched[j] = rs[j]
  BY TouchRowResult
<1> HIDE DEF new, closed, opened, touched
<1>5. CASE new = touched
  BY <1>4, <1>5 DEF new
<1>6. CASE new = Append(closed, opened)
  <2>1. /\ new \in Seq(Row) /\ Len(new) = Len(rs) + 1
        /\ \A j \in 1..Len(rs) : new[j] = closed[j]
    BY <1>2, <1>3, <1>6
  <2> QED
    BY <2>1, <1>3 DEF new
<1> QED
  BY <1>1, <1>5, <1>6

(* However the holding compares with the row that was picked, the result is *)
(* a list of rows that is no shorter.                                       *)
LEMMA UpsertHoldingType ==
    ASSUME NEW rs \in Seq(Row), NEW picked \in SUBSET (1..Len(rs)),
           NEW h \in Holding, NEW t \in Nat
    PROVE  /\ UpsertHolding(rs, picked, h, t) \in Seq(Row)
           /\ Len(UpsertHolding(rs, picked, h, t)) >= Len(rs)
<1>1. CASE picked = {}
  <2>1. OpenRow(h.qty, h.cost, t) \in Row
    BY OpenRowType DEF Holding
  <2>2. UpsertHolding(rs, picked, h, t) = Append(rs, OpenRow(h.qty, h.cost, t))
    BY <1>1 DEF UpsertHolding
  <2> QED
    BY <2>1, <2>2
<1>2. CASE picked # {}
  <2>1. Fetched(picked) \in 1..Len(rs)
    BY <1>2, FetchedResult
  <2>2. UpsertHolding(rs, picked, h, t) = ReviseRow(rs, Fetched(picked), h, t)
    BY <1>2 DEF UpsertHolding
  <2> QED
    BY <2>1, <2>2, ReviseRowResult
<1> QED
  BY <1>1, <1>2

(* When the row picked is what SELECT returns now, an asset with at most    *)
(* one active row keeps at most one, and its closed rows do not change.     *)
LEMMA UpsertHoldingOneActive ==
    ASSUME NEW rs \in Seq(Row), NEW picked \in SelectActive(rs),
           NEW h \in Holding, NEW t \in Nat,
           AtMostOneActive(rs)
    PROVE  /\ AtMostOneActive(UpsertHolding(rs, picked, h, t))
           /\ \A k \in 1..Len(rs) :
                 ~rs[k].active => UpsertHolding(rs, picked, h, t)[k] = rs[k]
<1> DEFINE new == UpsertHolding(rs, picked, h, t)
<1>1. CASE picked = {} /\ ActiveOf(rs) = {}
  <2> DEFINE opened == OpenRow(h.qty, h.cost, t)
  <2>1. opened \in Row
    BY OpenRowType DEF Holding
  <2>2. new = Append(rs, opened)
    BY <1>1 DEF UpsertHolding
  <2> HIDE DEF new, opened
  <2>3. /\ DOMAIN new = 1..(Len(rs) + 1)
        /\ \A k \in 1..Len(rs) : new[k] = rs[k]
    BY <2>1, <2>2
  <2>4. \A k \in 1..Len(rs) : ~rs[k].active
    BY <1>1 DEF ActiveOf
  <2>5. AtMostOneActive(new)
    BY <2>3, <2>4 DEF AtMostOneActive, ActiveOf
  <2> QED
    BY <2>3, <2>5 DEF new
<1>2. ASSUME NEW i \in ActiveOf(rs), picked = {i}
      PROVE  AtMostOneActive(new) /\ \A k \in 1..Len(rs) : ~rs[k].active => new[k] = rs[k]
  <2>1. i \in 1..Len(rs) /\ rs[i].active
    BY DEF ActiveOf
  <2>2. \A k \in 1..Len(rs) : k # i => ~rs[k].active
    BY <2>1 DEF AtMostOneActive, ActiveOf
  <2>3. new = ReviseRow(rs, i, h, t)
    BY <1>2, FetchedResult DEF UpsertHolding
  <2>4. /\ \A j \in 1..Len(rs) : j # i => new[j] = rs[j]
        /\ \/ DOMAIN new = 1..Len(rs)
           \/ DOMAIN new = 1..(Len(rs) + 1) /\ ~new[i].active
    BY <2>1, <2>3, ReviseRowResult
  <2> HIDE DEF new
  <2>5. \A j \in 1..Len(rs) : j # i => ~new[j].active
    BY <2>2, <2>4
  <2>6. AtMostOneActive(new)
    BY <2>1, <2>4, <2>5 DEF AtMostOneActive, ActiveOf
  <2> QED
    BY <2>1, <2>4, <2>6
<1> QED
  BY <1>1, <1>2, SelectActiveResult
-----------------------------------------------------------------------------
(* The queues of the servers.                                               *)

(* What a queue holds stays put when the call under execution progresses.   *)
LEMMA ProgressResult ==
    ASSUME queue \in [Servers -> Seq(Call)], NEW s \in Servers, Busy(s),
           NEW c \in Call, Progress(s, c)
    PROVE  /\ queue' \in [Servers -> Seq(Call)]
           /\ \A r \in Servers : /\ Len(queue'[r]) = Len(queue[r])
                                 /\ \A i \in 1..Len(queue[r]) :
                                       queue'[r][i] = IF r = s /\ i = 1 THEN c ELSE queue[r][i]
<1> DEFINE q == [queue[s] EXCEPT ![1] = c]
<1>1. queue' = [queue EXCEPT ![s] = q]
  BY DEF Progress
<1>2. queue[s] \in Seq(Call) /\ 1 \in 1..Len(queue[s])
  BY DEF Busy
<1>3. /\ q \in Seq(Call) /\ Len(q) = Len(queue[s])
      /\ \A i \in 1..Len(queue[s]) : q[i] = IF i = 1 THEN c ELSE queue[s][i]
  BY <1>2, ExceptSeq
<1> HIDE DEF q
<1> QED
  BY <1>1, <1>3

(* Executing a call moves the ones behind it up by one.                     *)
LEMMA DequeueResult ==
    ASSUME queue \in [Servers -> Seq(Call)], NEW s \in Servers, Busy(s),
           queue' = [queue EXCEPT ![s] = Tail(@)]
    PROVE  /\ queue' \in [Servers -> Seq(Call)]
           /\ \A r \in Servers \ {s} : queue'[r] = queue[r]
           /\ Len(queue'[s]) = Len(queue[s]) - 1
           /\ \A i \in 1..Len(queue'[s]) : queue'[s][i] = queue[s][i + 1]
<1>1. queue[s] \in Seq(Call) /\ queue[s] # <<>>
  BY DEF Busy
<1> QED
  BY <1>1, HeadTailProperties

(* A busy server has a well-formed call at the head of its queue. *)
LEMMA ServingResult ==
    ASSUME queue \in [Servers -> Seq(Call)], NEW s \in Servers, Busy(s)
    PROVE  /\ 1 \in 1..Len(queue[s])
           /\ Serving(s) = queue[s][1]
           /\ Serving(s) \in Call
  BY DEF Busy, Serving

(* Giving a call up changes nothing but its live field.                     *)
LEMMA GiveUpResult ==
    ASSUME queue \in [Servers -> Seq(Call)], NEW w \in Writers, GatewayError(w)
    PROVE  /\ queue' \in [Servers -> Seq(Call)]
           /\ \A r \in Servers :
                 /\ Len(queue'[r]) = Len(queue[r])
                 /\ \A i \in 1..Len(queue[r]) :
                       \E b \in BOOLEAN : queue'[r][i] = [queue[r][i] EXCEPT !.live = b]
<1> DEFINE s == ServerOf[w]
           q == [i \in DOMAIN queue[s] |->
                   [queue[s][i] EXCEPT !.live = @ /\ queue[s][i].writer # w]]
<1>1. s \in Servers
  BY HistoryAssumption
<1>2. queue' = [queue EXCEPT ![s] = q]
  BY DEF GatewayError
<1>3. q = [i \in 1..Len(queue[s]) |->
             [queue[s][i] EXCEPT !.live = queue[s][i].live /\ queue[s][i].writer # w]]
  BY <1>1
<1>4. \A i \in 1..Len(queue[s]) : queue[s][i] \in Call
  BY <1>1
<1>5. \A i \in 1..Len(queue[s]) :
         q[i] \in Call /\ \E b \in BOOLEAN : q[i] = [queue[s][i] EXCEPT !.live = b]
  <2> TAKE i \in 1..Len(queue[s])
  <2> DEFINE b == queue[s][i].live /\ queue[s][i].writer # w
  <2>1. q[i] = [queue[s][i] EXCEPT !.live = b]
    BY <1>3
  <2>2. b \in BOOLEAN
    OBVIOUS
  <2> HIDE DEF b, q
  <2> QED
    BY <1>4, <2>1, <2>2 DEF Call
<1>6. q \in [1..Len(queue[s]) -> Call]
  BY <1>3, <1>5
<1>7. q \in Seq(Call) /\ Len(q) = Len(queue[s])
  <2> HIDE DEF q
  <2> QED
    BY <1>1, <1>6, SeqDef
<1>8. \A r \in Servers \ {s} : \A i \in 1..Len(queue[r]) :
         queue[r][i] = [queue[r][i] EXCEPT !.live = queue[r][i].live]
                /\ queue[r][i].live \in BOOLEAN
  <2> TAKE r \in Servers \ {s}
  <2> TAKE i \in 1..Len(queue[r])
  <2>1. queue[r][i] \in Call
    OBVIOUS
  <2> QED
    BY <2>1 DEF Call
<1> HIDE DEF q, s
<1>9. queue' \in [Servers -> Seq(Call)]
  BY <1>1, <1>2, <1>7
<1>10. queue'[s] = q /\ \A r \in Servers \ {s} : queue'[r] = queue[r]
  BY <1>1, <1>2
<1> QED
  <2> SUFFICES ASSUME NEW r \in Servers
               PROVE  /\ Len(queue'[r]) = Len(queue[r])
                      /\ \A i \in 1..Len(queue[r]) :
                            \E b \in BOOLEAN : queue'[r][i] = [queue[r][i] EXCEPT !.live = b]
    BY <1>9
  <2>1. CASE r = s
    BY <2>1, <1>5, <1>7, <1>10
  <2>2. CASE r # s
    <3>1. queue'[r] = queue[r] /\ r \in Servers \ {s}
      BY <1>10, <2>2
    <3>2. \A i \in 1..Len(queue[r]) :
             /\ queue[r][i] = [queue[r][i] EXCEPT !.live = queue[r][i].live]
             /\ queue[r][i].live \in BOOLEAN
      BY <1>8, <3>1
    <3> QED
      BY <3>1, <3>2, Zenon
  <2> QED
    BY <2>1, <2>2
-----------------------------------------------------------------------------
(* Types.                                                                   *)

(* A writer that has a call to make, or has sent one, has an observation.   *)
Stamped == /\ \A w \in Writers : pc[w] # "idle" => stamp[w] # None
           /\ \A s \in Servers : \A i \in 1..Len(queue[s]) :
                 stamp[queue[s][i].writer] # None

(* A call remembers only rows that exist.                                   *)
SeenRows ==
    \A s \in Servers : \A i \in 1..Len(queue[s]) : \A a \in Assets :
        queue[s][i].seen[a] \in SUBSET (1..Len(rows[a]))

TypeInv == TypeOK /\ Stamped /\ SeenRows

(* Every queued call is a well-formed call. *)
LEMMA QueueSound ==
    ASSUME TypeInv
    PROVE  /\ queue \in [Servers -> Seq(Call)]
           /\ \A r \in Servers : \A i \in 1..Len(queue[r]) :
                 /\ queue[r][i] \in Call
                 /\ queue[r][i].obs <= Len(log)
                 /\ stamp[queue[r][i].writer] # None
                 /\ \A a \in Assets : queue[r][i].seen[a] \in SUBSET (1..Len(rows[a]))
<1>1. queue \in [Servers -> Seq(Call)]
  BY DEF TypeInv, TypeOK
<1> SUFFICES ASSUME NEW r \in Servers, NEW i \in 1..Len(queue[r])
             PROVE  /\ queue[r][i] \in Call
                    /\ queue[r][i].obs <= Len(log)
                    /\ stamp[queue[r][i].writer] # None
                    /\ \A a \in Assets : queue[r][i].seen[a] \in SUBSET (1..Len(rows[a]))
  BY <1>1
<1>2. queue[r][i] \in Call /\ queue[r][i].obs <= Len(log)
  BY <1>1 DEF TypeInv, TypeOK
<1>3. stamp[queue[r][i].writer] # None
  BY DEF TypeInv, Stamped
<1>4. \A a \in Assets : queue[r][i].seen[a] \in SUBSET (1..Len(rows[a]))
  BY DEF TypeInv, SeenRows
<1> QED
  BY <1>2, <1>3, <1>4

(* The call a server executes is well-formed and carries a known observation. *)
LEMMA ServingSound ==
    ASSUME TypeInv, NEW s \in Servers, Busy(s)
    PROVE  /\ Serving(s) \in Call
           /\ Serving(s).obs \in 1..Len(log)
           /\ \A a \in Assets : Serving(s).seen[a] \in SUBSET (1..Len(rows[a]))
<1>1. queue \in [Servers -> Seq(Call)]
  BY DEF TypeInv, TypeOK
<1>2. 1 \in 1..Len(queue[s]) /\ Serving(s) = queue[s][1] /\ Serving(s) \in Call
  BY <1>1, ServingResult
<1>3. queue[s][1].obs <= Len(log)
  BY <1>1, <1>2 DEF TypeInv, TypeOK
<1>4. Serving(s).obs \in 1..Len(log)
  BY <1>2, <1>3, HistoryAssumption DEF Call, Observations, TypeInv, TypeOK
<1> QED
  BY <1>2, <1>4 DEF TypeInv, SeenRows

(* upsert_position_states leaves an asset a list of well-formed rows. *)
LEMMA PositionsAfterType ==
    ASSUME TypeInv, NEW s \in Servers, Busy(s),
           NEW a \in Assets, NEW fetched \in SelectActive(rows[a])
    PROVE  /\ PositionsAfter(Serving(s), a, fetched) \in Seq(Row)
           /\ Len(PositionsAfter(Serving(s), a, fetched)) >= Len(rows[a])
<1> DEFINE c == Serving(s)
<1>1. rows[a] \in Seq(Row)
  BY DEF TypeInv, TypeOK
<1>2. fetched \in SUBSET (1..Len(rows[a]))
  BY <1>1, SelectActiveResult DEF ActiveOf
<1>3. c.obs \in 1..Len(log) /\ c.obs \in Nat /\ c.seen[a] \in SUBSET (1..Len(rows[a]))
  BY ServingSound
<1>4. a \in Held(c.obs) => log[c.obs][a] \in Holding
  BY <1>3, HistoryAssumption DEF Held, TypeInv, TypeOK
<1> HIDE DEF c
<1>5. CASE a \in Held(c.obs)
  <2> DEFINE picked == IF a \in c.read THEN c.seen[a] ELSE fetched
  <2>1. picked \in SUBSET (1..Len(rows[a]))
    BY <1>2, <1>3
  <2>2. PositionsAfter(c, a, fetched) = UpsertHolding(rows[a], picked, log[c.obs][a], c.obs)
    BY <1>5 DEF PositionsAfter
  <2> HIDE DEF picked
  <2> QED
    BY <1>1, <1>3, <1>4, <1>5, <2>1, <2>2, UpsertHoldingType DEF c
<1>6. CASE a \notin Held(c.obs)
  <2> DEFINE ended == IF a \in c.read THEN c.seen[a] ELSE ActiveOf(rows[a])
  <2>1. PositionsAfter(c, a, fetched) = CloseRows(rows[a], ended, c.obs)
    BY <1>6 DEF PositionsAfter
  <2> HIDE DEF ended
  <2> QED
    BY <1>1, <1>3, <2>1, CloseRowsResult DEF c
<1> QED
  BY <1>5, <1>6

(* Taking a call off a queue leaves calls that satisfy what they satisfied. *)
LEMMA DequeueSound ==
    ASSUME TypeInv, NEW s \in Servers, Busy(s),
           queue' = [queue EXCEPT ![s] = Tail(@)],
           Len(log') >= Len(log),
           rows' \in [Assets -> Seq(Row)],
           \A a \in Assets : Len(rows'[a]) >= Len(rows[a])
    PROVE  /\ queue' \in [Servers -> Seq(Call)]
           /\ \A r \in Servers : \A i \in 1..Len(queue'[r]) :
                 /\ queue'[r][i].obs <= Len(log)
                 /\ stamp[queue'[r][i].writer] # None
                 /\ \A a \in Assets : queue'[r][i].seen[a] \in SUBSET (1..Len(rows'[a]))
<1>1. queue \in [Servers -> Seq(Call)]
  BY DEF TypeInv, TypeOK
<1>2. /\ queue' \in [Servers -> Seq(Call)]
      /\ \A r \in Servers \ {s} : queue'[r] = queue[r]
      /\ Len(queue'[s]) = Len(queue[s]) - 1
      /\ \A i \in 1..Len(queue'[s]) : queue'[s][i] = queue[s][i + 1]
  BY <1>1, DequeueResult
<1>3. ASSUME NEW r \in Servers, NEW i \in 1..Len(queue'[r])
      PROVE  \E j \in 1..Len(queue[r]) : queue'[r][i] = queue[r][j]
  <2>1. CASE r = s
    <3>1. i + 1 \in 1..Len(queue[s])
      BY <1>1, <1>2, <2>1
    <3> QED
      BY <1>2, <2>1, <3>1
  <2>2. CASE r # s
    BY <1>2, <2>2
  <2> QED
    BY <2>1, <2>2
<1>4. ASSUME NEW r \in Servers, NEW i \in 1..Len(queue'[r])
      PROVE  /\ queue'[r][i].obs <= Len(log)
             /\ stamp[queue'[r][i].writer] # None
             /\ \A a \in Assets : queue'[r][i].seen[a] \in SUBSET (1..Len(rows'[a]))
  <2>1. PICK j \in 1..Len(queue[r]) : queue'[r][i] = queue[r][j]
    BY <1>3
  <2>2. queue[r][j].obs <= Len(log) /\ stamp[queue[r][j].writer] # None
    BY <1>1 DEF TypeInv, TypeOK, Stamped
  <2>3. ASSUME NEW a \in Assets
        PROVE  queue[r][j].seen[a] \in SUBSET (1..Len(rows'[a]))
    <3>1. queue[r][j].seen[a] \in SUBSET (1..Len(rows[a]))
      BY DEF TypeInv, SeenRows
    <3>2. 1..Len(rows[a]) \subseteq 1..Len(rows'[a])
      BY DEF TypeInv, TypeOK
    <3> QED
      BY <3>1, <3>2
  <2> QED
    BY <2>1, <2>2, <2>3
<1> QED
  BY <1>2, <1>4
(* An answer moves its caller on, and leaves all else about writers alone.  *)
LEMMA ReplyResult ==
    ASSUME TypeInv, NEW s \in Servers, Busy(s), NEW ok \in BOOLEAN, Reply(s, ok)
    PROVE  /\ log' = log /\ stamp' = stamp
           /\ queue' = [queue EXCEPT ![s] = Tail(@)]
           /\ pc' \in [Writers -> Tools \cup {"idle"}]
           /\ outcome' \in [Writers -> {"none", "storing", "doubtful", "stored", "failed"}]
           /\ \A w \in Writers : pc'[w] # "idle" => stamp[w] # None
<1>1. Serving(s) \in Call /\ stamp[Serving(s).writer] # None
  <2>1. queue \in [Servers -> Seq(Call)]
    BY DEF TypeInv, TypeOK
  <2> QED
    BY <2>1, ServingResult DEF TypeInv, Stamped
<1>2. Serving(s).tool \in Tools /\ Serving(s).writer \in Writers
  BY <1>1 DEF Call
<1>3. NextTool(Serving(s).tool) \in Tools \cup {"idle"}
  BY <1>2 DEF NextTool, Tools
<1>4. /\ pc \in [Writers -> Tools \cup {"idle"}]
      /\ outcome \in [Writers -> {"none", "storing", "doubtful", "stored", "failed"}]
  BY DEF TypeInv, TypeOK
<1>5. \A w \in Writers : pc[w] # "idle" => stamp[w] # None
  BY DEF TypeInv, Stamped
<1>6. /\ log' = log /\ stamp' = stamp
      /\ queue' = [queue EXCEPT ![s] = Tail(@)]
  BY DEF Reply
<1>7. CASE ~Serving(s).live
  BY <1>4, <1>5, <1>6, <1>7 DEF Reply
<1>8. CASE Serving(s).live
  <2> DEFINE w == Serving(s).writer
             next == IF Serving(s).tool = "value" /\ ~ok THEN "idle"
                     ELSE NextTool(Serving(s).tool)
             standing == IF ok THEN outcome[w] ELSE "doubtful"
             final == IF next # "idle" THEN standing
                      ELSE IF standing = "storing" THEN "stored" ELSE "failed"
  <2>1. pc' = [pc EXCEPT ![w] = next] /\ outcome' = [outcome EXCEPT ![w] = final]
    BY <1>8 DEF Reply
  <2>2. next \in Tools \cup {"idle"}
    BY <1>3
  <2>3. final \in {"none", "storing", "doubtful", "stored", "failed"}
    BY <1>2, <1>4
  <2> HIDE DEF next, final, standing
  <2> QED
    BY <1>1, <1>2, <1>4, <1>5, <1>6, <2>1, <2>2, <2>3
<1> QED
  BY <1>7, <1>8
(* What an answered call leaves of TypeInv, whatever it wrote.              *)
LEMMA ReplyTypeInv ==
    ASSUME TypeInv, NEW s \in Servers, Busy(s), NEW ok \in BOOLEAN, Reply(s, ok),
           rows' \in [Assets -> Seq(Row)],
           \A a \in Assets : Len(rows'[a]) >= Len(rows[a]),
           value' \in [Days -> 0..Len(log)],
           weights' \in [Days -> 0..Len(log)],
           events' \in [Days -> 0..Len(log)],
           lastPositions' \in 0..Len(log)
    PROVE  TypeInv'
<1>1. /\ log' = log /\ stamp' = stamp
      /\ queue' = [queue EXCEPT ![s] = Tail(@)]
      /\ pc' \in [Writers -> Tools \cup {"idle"}]
      /\ outcome' \in [Writers -> {"none", "storing", "doubtful", "stored", "failed"}]
      /\ \A w \in Writers : pc'[w] # "idle" => stamp[w] # None
  BY ReplyResult
<1>2. Len(log') >= Len(log)
  BY <1>1 DEF TypeInv, TypeOK
<1>3. /\ queue' \in [Servers -> Seq(Call)]
      /\ \A r \in Servers : \A i \in 1..Len(queue'[r]) :
            /\ queue'[r][i].obs <= Len(log)
            /\ stamp[queue'[r][i].writer] # None
            /\ \A a \in Assets : queue'[r][i].seen[a] \in SUBSET (1..Len(rows'[a]))
  BY <1>1, <1>2, DequeueSound
<1>4. \A r \in Servers : DOMAIN queue'[r] = 1..Len(queue'[r])
  BY <1>3
<1>5. TypeOK'
  BY <1>1, <1>3, <1>4 DEF TypeInv, TypeOK
<1>6. Stamped'
  BY <1>1, <1>3 DEF Stamped
<1>7. SeenRows'
  BY <1>3 DEF SeenRows
<1> QED
  BY <1>5, <1>6, <1>7 DEF TypeInv

(* Steps that leave the tables, the log and the stamps alone.               *)
LEMMA SameTablesTypeInv ==
    ASSUME TypeInv, UNCHANGED <<log, stamp, tables>>,
           pc' \in [Writers -> Tools \cup {"idle"}],
           \A w \in Writers : pc'[w] # "idle" => pc[w] # "idle",
           outcome' \in [Writers -> {"none", "storing", "doubtful", "stored", "failed"}],
           queue' \in [Servers -> Seq(Call)],
           \A r \in Servers : \A i \in 1..Len(queue'[r]) :
               /\ queue'[r][i].obs <= Len(log)
               /\ stamp[queue'[r][i].writer] # None
               /\ \A a \in Assets : queue'[r][i].seen[a] \in SUBSET (1..Len(rows[a]))
    PROVE  TypeInv'
<1>1. \A r \in Servers : DOMAIN queue'[r] = 1..Len(queue'[r])
  OBVIOUS
<1>2. TypeOK'
  BY <1>1 DEF TypeInv, TypeOK, tables
<1>3. Stamped' /\ SeenRows'
  BY DEF TypeInv, Stamped, SeenRows, tables
<1> QED
  BY <1>2, <1>3 DEF TypeInv

(* Reading the broker preserves the type part of the invariant. *)
LEMMA ObserveTypeInv ==
    ASSUME TypeInv, NEW w \in Writers, Observe(w)
    PROVE  TypeInv'
<1>1. PICK content \in Snapshots : log' = Append(log, content)
  BY DEF Observe
<1>2. /\ log' \in Seq(Snapshots) /\ Len(log') = Len(log) + 1 /\ Len(log') <= MaxObs
      /\ Len(log) \in Nat
  BY <1>1, HistoryAssumption DEF Observe, TypeInv, TypeOK
<1>3. /\ pc' = [pc EXCEPT ![w] = "positions"]
      /\ stamp' = [stamp EXCEPT ![w] = Len(log) + 1]
      /\ outcome' = [outcome EXCEPT ![w] = "storing"]
      /\ UNCHANGED <<queue, rows, value, weights, events, lastPositions>>
  BY DEF Observe, tables
<1>4. pc' \in [Writers -> Tools \cup {"idle"}]
  BY <1>3 DEF TypeInv, TypeOK, Tools
<1>5. stamp' \in [Writers -> 0..Len(log')]
  BY <1>2, <1>3 DEF TypeInv, TypeOK
<1>6. outcome' \in [Writers -> {"none", "storing", "doubtful", "stored", "failed"}]
  BY <1>3 DEF TypeInv, TypeOK
<1>7. 0..Len(log) \subseteq 0..Len(log')
  BY <1>2
<1>8. /\ value' \in [Days -> 0..Len(log')]
      /\ weights' \in [Days -> 0..Len(log')]
      /\ events' \in [Days -> 0..Len(log')]
      /\ lastPositions' \in 0..Len(log')
  BY <1>3, <1>7 DEF TypeInv, TypeOK
<1>9. /\ queue' \in [Servers -> Seq(Call)]
      /\ \A s \in Servers : \A i \in DOMAIN queue'[s] : queue'[s][i].obs <= Len(log')
  <2>1. \A s \in Servers : \A i \in DOMAIN queue[s] : queue[s][i] \in Call
    BY DEF TypeInv, TypeOK
  <2>2. \A s \in Servers : \A i \in DOMAIN queue[s] : queue[s][i].obs \in Nat
    BY <2>1, HistoryAssumption DEF Call, Observations
  <2> QED
    BY <1>2, <1>3, <2>2 DEF TypeInv, TypeOK
<1>10. TypeOK'
  BY <1>2, <1>3, <1>4, <1>5, <1>6, <1>8, <1>9 DEF TypeInv, TypeOK
<1>11. Stamped'
  BY <1>2, <1>3 DEF TypeInv, TypeOK, Stamped, None
<1>12. SeenRows'
  BY <1>3 DEF TypeInv, SeenRows
<1> QED
  BY <1>10, <1>11, <1>12 DEF TypeInv

(* Sending a tool call preserves the type part of the invariant. *)
LEMMA SendTypeInv ==
    ASSUME TypeInv, NEW w \in Writers, Send(w)
    PROVE  TypeInv'
<1> DEFINE s == ServerOf[w]
           c == [tool |-> pc[w], writer |-> w, obs |-> stamp[w],
                 selected |-> FALSE, read |-> {}, seen |-> [a \in Assets |-> {}],
                 found |-> FALSE, live |-> TRUE]
<1>1. s \in Servers
  BY HistoryAssumption
<1>2. pc[w] \in Tools /\ stamp[w] # None /\ stamp[w] \in 1..Len(log)
  BY DEF Send, TypeInv, TypeOK, Stamped, Tools, None
<1>3. stamp[w] \in Observations
  BY <1>2, HistoryAssumption DEF TypeInv, TypeOK, Observations
<1>4. /\ c \in Call /\ c.obs = stamp[w] /\ c.writer = w
      /\ \A a \in Assets : c.seen[a] = {}
  BY <1>2, <1>3 DEF Call
<1>5. queue' = [queue EXCEPT ![s] = Append(@, c)]
  BY DEF Send
<1> HIDE DEF c, s
<1>6. /\ queue \in [Servers -> Seq(Call)]
      /\ \A r \in Servers : \A i \in 1..Len(queue[r]) :
            /\ queue[r][i].obs <= Len(log)
            /\ stamp[queue[r][i].writer] # None
            /\ \A a \in Assets : queue[r][i].seen[a] \in SUBSET (1..Len(rows[a]))
  BY QueueSound
<1>7. queue' \in [Servers -> Seq(Call)]
  BY <1>1, <1>4, <1>5, <1>6
<1>8. /\ \A r \in Servers \ {s} : queue'[r] = queue[r]
      /\ Len(queue'[s]) = Len(queue[s]) + 1
      /\ \A i \in 1..Len(queue'[s]) :
            queue'[s][i] = IF i <= Len(queue[s]) THEN queue[s][i] ELSE c
  BY <1>1, <1>4, <1>5, <1>6
<1>9. ASSUME NEW r \in Servers, NEW i \in 1..Len(queue'[r])
      PROVE  /\ queue'[r][i].obs <= Len(log)
             /\ stamp[queue'[r][i].writer] # None
             /\ \A a \in Assets : queue'[r][i].seen[a] \in SUBSET (1..Len(rows[a]))
  <2>1. CASE \E j \in 1..Len(queue[r]) : queue'[r][i] = queue[r][j]
    BY <1>6, <2>1
  <2>2. CASE queue'[r][i] = c
    BY <1>2, <1>4, <2>2
  <2> QED
    BY <1>1, <1>6, <1>8, <2>1, <2>2
<1>10. UNCHANGED <<log, pc, stamp, outcome, tables>>
  BY DEF Send, writerVars
<1> QED
  BY <1>7, <1>9, <1>10, SameTablesTypeInv DEF TypeInv, TypeOK, tables
(* A failing gateway preserves the type part of the invariant. *)
LEMMA GatewayErrorTypeInv ==
    ASSUME TypeInv, NEW w \in Writers, GatewayError(w)
    PROVE  TypeInv'
<1>1. /\ queue' \in [Servers -> Seq(Call)]
      /\ \A r \in Servers :
            /\ Len(queue'[r]) = Len(queue[r])
            /\ \A i \in 1..Len(queue[r]) :
                  \E b \in BOOLEAN : queue'[r][i] = [queue[r][i] EXCEPT !.live = b]
  BY QueueSound, GiveUpResult
<1>2. ASSUME NEW r \in Servers, NEW i \in 1..Len(queue'[r])
      PROVE  /\ queue'[r][i].obs <= Len(log)
             /\ stamp[queue'[r][i].writer] # None
             /\ \A a \in Assets : queue'[r][i].seen[a] \in SUBSET (1..Len(rows[a]))
  <2>1. i \in 1..Len(queue[r])
    BY <1>1
  <2>2. PICK b \in BOOLEAN : queue'[r][i] = [queue[r][i] EXCEPT !.live = b]
    BY <1>1, <2>1
  <2>3. queue[r][i] \in Call
    BY <2>1, QueueSound
  <2>4. /\ queue'[r][i].obs = queue[r][i].obs
        /\ queue'[r][i].writer = queue[r][i].writer
        /\ queue'[r][i].seen = queue[r][i].seen
    BY <2>2, <2>3 DEF Call
  <2> QED
    BY <2>1, <2>4, QueueSound
<1>3. /\ UNCHANGED <<log, stamp, tables>>
      /\ pc' = [pc EXCEPT ![w] = "idle"]
      /\ outcome' = [outcome EXCEPT ![w] = "failed"]
  BY DEF GatewayError
<1>4. /\ pc' \in [Writers -> Tools \cup {"idle"}]
      /\ \A v \in Writers : pc'[v] # "idle" => pc[v] # "idle"
      /\ outcome' \in [Writers -> {"none", "storing", "doubtful", "stored", "failed"}]
  BY <1>3 DEF TypeInv, TypeOK
<1> QED
  BY <1>1, <1>2, <1>3, <1>4, SameTablesTypeInv

(* A SELECT records in the call what it read.                               *)
LEMMA ProgressTypeInv ==
    ASSUME TypeInv, NEW s \in Servers, Busy(s), NEW c \in Call, Progress(s, c),
           c.obs = Serving(s).obs, c.writer = Serving(s).writer,
           \A a \in Assets : c.seen[a] \in SUBSET (1..Len(rows[a])),
           UNCHANGED <<writerVars, tables>>
    PROVE  TypeInv'
<1>1. /\ queue' \in [Servers -> Seq(Call)]
      /\ \A r \in Servers : /\ Len(queue'[r]) = Len(queue[r])
                            /\ \A i \in 1..Len(queue[r]) :
                                  queue'[r][i] = IF r = s /\ i = 1 THEN c ELSE queue[r][i]
  BY QueueSound, ProgressResult
<1>2. 1 \in 1..Len(queue[s]) /\ Serving(s) = queue[s][1]
  BY QueueSound, ServingResult
<1>3. ASSUME NEW r \in Servers, NEW i \in 1..Len(queue'[r])
      PROVE  /\ queue'[r][i].obs <= Len(log)
             /\ stamp[queue'[r][i].writer] # None
             /\ \A a \in Assets : queue'[r][i].seen[a] \in SUBSET (1..Len(rows[a]))
  <2>1. CASE r = s /\ i = 1
    <3>1. queue'[r][i] = c
      BY <1>1, <1>2, <2>1
    <3>2. queue[s][1].obs <= Len(log) /\ stamp[queue[s][1].writer] # None
      BY <1>2, QueueSound
    <3> QED
      BY <1>2, <3>1, <3>2
  <2>2. CASE ~(r = s /\ i = 1)
    <3>1. i \in 1..Len(queue[r]) /\ queue'[r][i] = queue[r][i]
      BY <1>1, <2>2
    <3> QED
      BY <3>1, QueueSound
  <2> QED
    BY <2>1, <2>2
<1>4. UNCHANGED <<log, pc, stamp, outcome, tables>>
  BY DEF writerVars
<1> QED
  BY <1>1, <1>3, <1>4, SameTablesTypeInv DEF TypeInv, TypeOK

(* The SELECT before a transaction preserves the type part of the invariant. *)
LEMMA SelectTypeInv ==
    ASSUME TypeInv, NEW s \in Servers, Select(s)
    PROVE  TypeInv'
<1> DEFINE c == Serving(s)
<1>1. Busy(s) /\ UNCHANGED <<writerVars, tables>>
  BY DEF Select, SelectPositions, SelectValue
<1>2. c \in Call /\ \A a \in Assets : c.seen[a] \in SUBSET (1..Len(rows[a]))
  BY <1>1, ServingSound
<1>3. \A a \in Assets : ActiveOf(rows[a]) \in SUBSET (1..Len(rows[a]))
  BY DEF TypeInv, TypeOK, ActiveOf
<1>4. CASE SelectValue(s)
  <2> DEFINE d == [c EXCEPT !.selected = TRUE, !.found = (value[Day(c.obs)] # None)]
  <2>1. Progress(s, d)
    BY <1>4 DEF SelectValue
  <2>2. d \in Call /\ d.obs = c.obs /\ d.writer = c.writer /\ d.seen = c.seen
    BY <1>2 DEF Call
  <2> HIDE DEF d
  <2> QED
    BY <1>1, <1>2, <2>1, <2>2, ProgressTypeInv
<1>5. ASSUME NEW a \in Held(c.obs), NEW picked \in SelectActive(rows[a]),
             Progress(s, [c EXCEPT !.selected = TRUE, !.read = {a}, !.seen[a] = picked])
      PROVE  TypeInv'
  <2> DEFINE d == [c EXCEPT !.selected = TRUE, !.read = {a}, !.seen[a] = picked]
             seen == [c.seen EXCEPT ![a] = picked]
  <2>1. a \in Assets
    BY DEF Held
  <2>2. picked \in SUBSET (1..Len(rows[a]))
    BY <1>3, <2>1, SelectActiveResult
  <2>3. c.seen \in [Assets -> SUBSET Nat]
    BY <1>2 DEF Call
  <2>4. /\ seen \in [Assets -> SUBSET Nat]
        /\ \A b \in Assets : seen[b] \in SUBSET (1..Len(rows[b]))
    BY <1>2, <2>1, <2>2, <2>3
  <2>5. d \in Call /\ d.obs = c.obs /\ d.writer = c.writer /\ d.seen = seen
    <3> HIDE DEF seen
    <3>1. d = [c EXCEPT !.selected = TRUE, !.read = {a}, !.seen = seen]
      BY <1>2 DEF Call, seen
    <3> HIDE DEF d
    <3> QED
      BY <1>2, <2>1, <2>4, <3>1 DEF Call
  <2>6. Progress(s, d)
    BY <1>5
  <2> HIDE DEF d, seen
  <2> QED
    BY <1>1, <2>4, <2>5, <2>6, ProgressTypeInv
<1>6. ASSUME Progress(s, [c EXCEPT !.selected = TRUE, !.read = Assets,
                                   !.seen = [a \in Assets |-> ActiveOf(rows[a])]])
      PROVE  TypeInv'
  <2> DEFINE seen == [a \in Assets |-> ActiveOf(rows[a])]
             d == [c EXCEPT !.selected = TRUE, !.read = Assets, !.seen = seen]
  <2>1. /\ seen \in [Assets -> SUBSET Nat]
        /\ \A a \in Assets : seen[a] \in SUBSET (1..Len(rows[a]))
    BY <1>3
  <2>2. Progress(s, d)
    BY <1>6
  <2> HIDE DEF seen
  <2>3. d \in Call /\ d.obs = c.obs /\ d.writer = c.writer /\ d.seen = seen
    BY <1>2, <2>1 DEF Call
  <2> HIDE DEF d
  <2> QED
    BY <1>1, <2>1, <2>2, <2>3, ProgressTypeInv
<1> QED
  BY <1>4, <1>5, <1>6 DEF Select, SelectPositions

(* Every commit preserves the type part of the invariant. *)
LEMMA CommitTypeInv ==
    ASSUME TypeInv, NEW s \in Servers,
           \/ CommitPositions(s) \/ CommitValue(s) \/ CommitWeights(s)
           \/ CommitEvents(s) \/ ToolError(s)
    PROVE  TypeInv'
<1>1. Busy(s)
  BY DEF CommitPositions, CommitValue, CommitWeights, CommitEvents, ToolError
<1>2. /\ rows \in [Assets -> Seq(Row)]
      /\ \A a \in Assets : Len(rows[a]) >= Len(rows[a])
      /\ value \in [Days -> 0..Len(log)]
      /\ weights \in [Days -> 0..Len(log)]
      /\ events \in [Days -> 0..Len(log)]
      /\ lastPositions \in 0..Len(log)
  BY DEF TypeInv, TypeOK
<1>3. Serving(s).obs \in 0..Len(log)
  BY <1>1, ServingSound
<1>4. CASE CommitPositions(s)
  <2>1. PICK fetched \in Fetches :
          rows' = [a \in Assets |-> PositionsAfter(Serving(s), a, fetched[a])]
    BY <1>4 DEF CommitPositions
  <2>2. \A a \in Assets : fetched[a] \in SelectActive(rows[a])
    BY DEF Fetches
  <2>3. /\ rows' \in [Assets -> Seq(Row)]
        /\ \A a \in Assets : Len(rows'[a]) >= Len(rows[a])
    BY <1>1, <2>1, <2>2, PositionsAfterType
  <2>4. /\ Reply(s, TRUE) /\ lastPositions' = Serving(s).obs
        /\ UNCHANGED <<value, weights, events>>
    BY <1>4 DEF CommitPositions
  <2> QED
    BY <1>1, <1>2, <1>3, <2>3, <2>4, ReplyTypeInv
<1>5. CASE CommitValue(s)
  <2>1. /\ Reply(s, TRUE) /\ value' = [value EXCEPT ![Day(Serving(s).obs)] = Serving(s).obs]
        /\ UNCHANGED <<rows, weights, events, lastPositions>>
    BY <1>5 DEF CommitValue
  <2> QED
    BY <1>1, <1>2, <1>3, <2>1, ReplyTypeInv
<1>6. CASE CommitWeights(s)
  <2>1. /\ Reply(s, TRUE) /\ weights' = [weights EXCEPT ![Day(Serving(s).obs)] = Serving(s).obs]
        /\ UNCHANGED <<rows, value, events, lastPositions>>
    BY <1>6 DEF CommitWeights
  <2> QED
    BY <1>1, <1>2, <1>3, <2>1, ReplyTypeInv
<1>7. CASE CommitEvents(s)
  <2>1. /\ Reply(s, TRUE) /\ events' = [events EXCEPT ![Day(Serving(s).obs)] = Serving(s).obs]
        /\ UNCHANGED <<rows, value, weights, lastPositions>>
    BY <1>7 DEF CommitEvents
  <2> QED
    BY <1>1, <1>2, <1>3, <2>1, ReplyTypeInv
<1>8. CASE ToolError(s)
  <2>1. Reply(s, FALSE) /\ UNCHANGED <<rows, value, weights, events, lastPositions>>
    BY <1>8 DEF ToolError, tables
  <2> QED
    BY <1>1, <1>2, <2>1, ReplyTypeInv
<1> QED
  BY <1>4, <1>5, <1>6, <1>7, <1>8
(* A restart preserves the type part of the invariant. *)
LEMMA RestartTypeInv ==
    ASSUME TypeInv, Restart
    PROVE  TypeInv'
<1>1. /\ UNCHANGED <<log, stamp, tables>>
      /\ pc' = [w \in Writers |-> "idle"]
      /\ outcome' = [w \in Writers |-> IF pc[w] = "idle" THEN outcome[w] ELSE "failed"]
      /\ queue' = [s \in Servers |-> <<>>]
  BY DEF Restart
<1>2. /\ pc' \in [Writers -> Tools \cup {"idle"}]
      /\ \A w \in Writers : pc'[w] # "idle" => pc[w] # "idle"
      /\ outcome' \in [Writers -> {"none", "storing", "doubtful", "stored", "failed"}]
  BY <1>1 DEF TypeInv, TypeOK
<1>3. queue' \in [Servers -> Seq(Call)] /\ \A r \in Servers : Len(queue'[r]) = 0
  BY <1>1, EmptySeq
<1> QED
  BY <1>1, <1>2, <1>3, SameTablesTypeInv

(* The type part of the invariant holds of an empty database. *)
LEMMA InitTypeInv ==
    ASSUME Init
    PROVE  TypeInv
<1>1. /\ log \in Seq(Snapshots) /\ Len(log) = 0
      /\ queue \in [Servers -> Seq(Call)]
      /\ \A s \in Servers : Len(queue[s]) = 0 /\ DOMAIN queue[s] = {}
      /\ rows \in [Assets -> Seq(Row)]
  BY EmptySeq DEF Init
<1>2. TypeOK
  BY <1>1, HistoryAssumption DEF Init, TypeOK, None
<1>3. Stamped /\ SeenRows
  BY <1>1 DEF Init, Stamped, SeenRows
<1> QED
  BY <1>2, <1>3 DEF TypeInv

(* Every step preserves the type part of the invariant. *)
LEMMA NextTypeInv ==
    ASSUME TypeInv, [Next]_vars
    PROVE  TypeInv'
<1>1. ASSUME NEW w \in Writers, WriterStep(w)
      PROVE  TypeInv'
  BY <1>1, ObserveTypeInv, SendTypeInv, GatewayErrorTypeInv DEF WriterStep
<1>2. ASSUME NEW s \in Servers, ServerStep(s)
      PROVE  TypeInv'
  BY <1>2, SelectTypeInv, CommitTypeInv DEF ServerStep
<1>3. CASE UNCHANGED vars
  BY <1>3 DEF vars, tables, TypeInv, TypeOK, Stamped, SeenRows
<1> QED
  BY <1>1, <1>2, <1>3, RestartTypeInv DEF Next

(* Every reachable state is well typed, for any number of writers, servers  *)
(* and assets: in particular no daily row is later than the last OpenD read *)
(* and every request is for an observation that was made.                   *)
THEOREM TypeCorrect == Spec => []TypeOK
<1>1. Init => TypeInv
  BY InitTypeInv
<1>2. TypeInv /\ [Next]_vars => TypeInv'
  BY NextTypeInv
<1>3. TypeInv => TypeOK
  BY DEF TypeInv
<1> QED
  BY <1>1, <1>2, <1>3, PTL DEF Spec
-----------------------------------------------------------------------------
(* One server process.                                                      *)

(* All calls go through one SQL server process: one gateway per application *)
(* process, one application process on the database file.                   *)
OneProcess == \A r, s \in Servers : r = s

(* What the SELECT of a call under execution returned is still what it would *)
(* return.                                                                  *)
CurrentIn(c, reports, table) ==
    c.tool = "positions" /\ c.selected =>
        \A a \in c.read :
            IF reports[c.obs][a] # NotHeld THEN c.seen[a] \in SelectActive(table[a])
                                           ELSE c.seen[a] = ActiveOf(table[a])

(* Only the call at the head of a queue has executed its SELECT.            *)
CallsCurrent ==
    \A s \in Servers : \A i \in 1..Len(queue[s]) :
        CurrentIn(queue[s][i], log, rows) /\ (i # 1 => ~queue[s][i].selected)

StoreInv == TypeInv /\ OneActiveState /\ CallsCurrent

(* A call that is the same in all that matters, on the same rows and report, *)
(* is as current as it was.                                                  *)
LEMMA StaysCurrent ==
    ASSUME NEW c, NEW d, CurrentIn(c, log, rows), rows' = rows,
           d.tool = c.tool, d.selected = c.selected, d.read = c.read,
           d.seen = c.seen, d.obs = c.obs, log'[c.obs] = log[c.obs]
    PROVE  CurrentIn(d, log', rows')
  BY DEF CurrentIn

(* The transaction of upsert_position_states.                               *)
LEMMA PositionsAfterOneActive ==
    ASSUME StoreInv, NEW s \in Servers, Busy(s),
           Serving(s).tool = "positions", Serving(s).selected,
           NEW a \in Assets, NEW fetched \in SelectActive(rows[a])
    PROVE  /\ AtMostOneActive(PositionsAfter(Serving(s), a, fetched))
           /\ \A i \in 1..Len(rows[a]) : ~rows[a][i].active =>
                 PositionsAfter(Serving(s), a, fetched)[i] = rows[a][i]
<1> DEFINE c == Serving(s)
<1>1. rows[a] \in Seq(Row) /\ AtMostOneActive(rows[a])
  BY DEF StoreInv, TypeInv, TypeOK, OneActiveState
<1>2. c.obs \in 1..Len(log) /\ c.obs \in Nat
  BY ServingSound DEF StoreInv
<1>3. a \in Held(c.obs) => log[c.obs][a] \in Holding
  BY <1>2, HistoryAssumption DEF Held, StoreInv, TypeInv, TypeOK
<1>4. a \in c.read => IF a \in Held(c.obs) THEN c.seen[a] \in SelectActive(rows[a])
                                          ELSE c.seen[a] = ActiveOf(rows[a])
  <2>1. 1 \in 1..Len(queue[s]) /\ c = queue[s][1]
    BY QueueSound, ServingResult DEF StoreInv
  <2> QED
    BY <2>1 DEF StoreInv, CallsCurrent, CurrentIn, Held
<1> HIDE DEF c
<1>5. CASE a \in Held(c.obs)
  <2> DEFINE picked == IF a \in c.read THEN c.seen[a] ELSE fetched
  <2>1. picked \in SelectActive(rows[a])
    BY <1>4, <1>5
  <2>2. PositionsAfter(c, a, fetched) = UpsertHolding(rows[a], picked, log[c.obs][a], c.obs)
    BY <1>5 DEF PositionsAfter
  <2> HIDE DEF picked
  <2> QED
    BY <1>1, <1>2, <1>3, <1>5, <2>1, <2>2, UpsertHoldingOneActive DEF c
<1>6. CASE a \notin Held(c.obs)
  <2> DEFINE new == CloseRows(rows[a], ActiveOf(rows[a]), c.obs)
  <2>1. PositionsAfter(c, a, fetched) = new
    BY <1>4, <1>6 DEF PositionsAfter
  <2>2. /\ new \in Seq(Row) /\ Len(new) = Len(rows[a])
        /\ \A i \in 1..Len(rows[a]) :
              /\ i \in ActiveOf(rows[a]) => ~new[i].active
              /\ i \notin ActiveOf(rows[a]) => new[i] = rows[a][i]
    BY <1>1, <1>2, CloseRowsResult
  <2> HIDE DEF new
  <2>3. \A i \in 1..Len(rows[a]) : ~rows[a][i].active => i \notin ActiveOf(rows[a])
    BY DEF ActiveOf
  <2>4. \A i \in DOMAIN new : ~new[i].active
    <3> TAKE i \in DOMAIN new
    <3>1. i \in 1..Len(rows[a])
      BY <2>2
    <3>2. CASE i \in ActiveOf(rows[a])
      BY <2>2, <3>1, <3>2
    <3>3. CASE i \notin ActiveOf(rows[a])
      <4>1. ~rows[a][i].active
        BY <1>1, <3>1, <3>3 DEF ActiveOf
      <4> QED
        BY <2>2, <3>1, <3>3, <4>1
    <3> QED
      BY <3>2, <3>3
  <2>5. AtMostOneActive(new)
    BY <2>4 DEF AtMostOneActive, ActiveOf
  <2> QED
    BY <2>1, <2>2, <2>3, <2>5 DEF c
<1> QED
  BY <1>5, <1>6

(* The rows after a commit of upsert_position_states, given a current SELECT. *)
LEMMA CommitPositionsRows ==
    ASSUME StoreInv, NEW s \in Servers, CommitPositions(s)
    PROVE  /\ OneActiveState'
           /\ \A a \in Assets : \A i \in DOMAIN rows[a] :
                 ~rows[a][i].active => i \in DOMAIN rows'[a] /\ rows'[a][i] = rows[a][i]
<1>1. /\ Busy(s) /\ Serving(s).tool = "positions" /\ Serving(s).selected
      /\ \E fetched \in Fetches :
            rows' = [a \in Assets |-> PositionsAfter(Serving(s), a, fetched[a])]
  BY DEF CommitPositions
<1>2. PICK fetched \in Fetches :
        rows' = [a \in Assets |-> PositionsAfter(Serving(s), a, fetched[a])]
  BY <1>1
<1>3. \A a \in Assets : /\ fetched[a] \in SelectActive(rows[a])
                        /\ rows'[a] = PositionsAfter(Serving(s), a, fetched[a])
  BY <1>2 DEF Fetches
<1>4. TypeInv
  BY DEF StoreInv
<1>5. ASSUME NEW a \in Assets
      PROVE  /\ AtMostOneActive(rows'[a])
             /\ \A i \in DOMAIN rows[a] :
                   ~rows[a][i].active => i \in DOMAIN rows'[a] /\ rows'[a][i] = rows[a][i]
  <2>1. rows[a] \in Seq(Row)
    BY <1>4 DEF TypeInv, TypeOK
  <2>2. rows'[a] \in Seq(Row) /\ Len(rows'[a]) >= Len(rows[a])
    BY <1>1, <1>3, <1>4, PositionsAfterType
  <2>3. /\ AtMostOneActive(rows'[a])
        /\ \A i \in 1..Len(rows[a]) : ~rows[a][i].active => rows'[a][i] = rows[a][i]
    BY <1>1, <1>3, PositionsAfterOneActive
  <2> QED
    BY <2>1, <2>2, <2>3
<1>6. OneActiveState'
  BY <1>5 DEF OneActiveState, AtMostOneActive, ActiveOf
<1> QED
  BY <1>5, <1>6
(* Every call that ends leaves calls behind that have read nothing yet.     *)
LEMMA DequeueCurrent ==
    ASSUME OneProcess, StoreInv, NEW s \in Servers, Busy(s),
           queue' = [queue EXCEPT ![s] = Tail(@)]
    PROVE  CallsCurrent'
<1>1. /\ queue' \in [Servers -> Seq(Call)]
      /\ Len(queue'[s]) = Len(queue[s]) - 1
      /\ \A i \in 1..Len(queue'[s]) : queue'[s][i] = queue[s][i + 1]
  BY QueueSound, DequeueResult DEF StoreInv
<1>2. \A i \in 1..Len(queue'[s]) : ~queue'[s][i].selected
  <2> TAKE i \in 1..Len(queue'[s])
  <2>1. queue[s] \in Seq(Call)
    BY QueueSound DEF StoreInv
  <2>2. i + 1 \in 1..Len(queue[s]) /\ i + 1 # 1
    BY <1>1, <2>1
  <2> QED
    BY <1>1, <2>2 DEF StoreInv, CallsCurrent
<1>3. \A r \in Servers : r = s
  BY DEF OneProcess
<1> QED
  BY <1>2, <1>3 DEF CallsCurrent, CurrentIn

(* What a SELECT has just read is what the table holds. *)
LEMMA SelectCurrent ==
    ASSUME StoreInv, NEW s \in Servers, Select(s)
    PROVE  CallsCurrent'
<1> DEFINE c == Serving(s)
<1>1. Busy(s) /\ rows' = rows /\ log' = log
  BY DEF Select, SelectPositions, SelectValue, writerVars, tables
<1>2. c \in Call /\ 1 \in 1..Len(queue[s]) /\ c = queue[s][1]
  BY <1>1, QueueSound, ServingResult DEF StoreInv
<1>3. ASSUME NEW d \in Call, Progress(s, d), CurrentIn(d, log', rows')
      PROVE  CallsCurrent'
  <2>1. \A r \in Servers :
           /\ Len(queue'[r]) = Len(queue[r])
           /\ \A i \in 1..Len(queue[r]) :
                 queue'[r][i] = IF r = s /\ i = 1 THEN d ELSE queue[r][i]
    BY <1>1, <1>3, QueueSound, ProgressResult DEF StoreInv
  <2> SUFFICES ASSUME NEW r \in Servers, NEW i \in 1..Len(queue'[r])
               PROVE  CurrentIn(queue'[r][i], log', rows') /\ (i # 1 => ~queue'[r][i].selected)
    BY DEF CallsCurrent
  <2>2. CASE r = s /\ i = 1
    BY <1>3, <2>1, <2>2
  <2>3. CASE ~(r = s /\ i = 1)
    <3>1. i \in 1..Len(queue[r]) /\ queue'[r][i] = queue[r][i]
      BY <2>1, <2>3
    <3>2. CurrentIn(queue[r][i], log, rows) /\ (i # 1 => ~queue[r][i].selected)
      BY <3>1 DEF StoreInv, CallsCurrent
    <3> QED
      BY <1>1, <3>1, <3>2, StaysCurrent
  <2> QED
    BY <2>2, <2>3
<1>4. CASE SelectValue(s)
  <2> DEFINE d == [c EXCEPT !.selected = TRUE, !.found = (value[Day(c.obs)] # None)]
  <2>1. Progress(s, d) /\ c.tool = "value"
    BY <1>4 DEF SelectValue
  <2>2. d \in Call /\ d.tool = c.tool
    BY <1>2 DEF Call
  <2> HIDE DEF d, c
  <2>3. CurrentIn(d, log', rows')
    BY <2>1, <2>2 DEF CurrentIn
  <2> QED
    BY <1>3, <2>1, <2>2, <2>3
<1>5. ASSUME NEW a \in Held(c.obs), NEW picked \in SelectActive(rows[a]),
             Progress(s, [c EXCEPT !.selected = TRUE, !.read = {a}, !.seen[a] = picked])
      PROVE  CallsCurrent'
  <2> DEFINE d == [c EXCEPT !.selected = TRUE, !.read = {a}, !.seen[a] = picked]
  <2>1. a \in Assets
    BY DEF Held
  <2>2. picked \in SUBSET Nat
    <3>1. rows[a] \in Seq(Row)
      BY <2>1 DEF StoreInv, TypeInv, TypeOK
    <3> QED
      BY <3>1, SelectActiveResult DEF ActiveOf
  <2>3. d \in Call /\ d.obs = c.obs /\ d.read = {a} /\ d.seen[a] = picked
    BY <1>2, <2>1, <2>2 DEF Call
  <2> HIDE DEF d
  <2>4. CurrentIn(d, log', rows')
    BY <1>1, <1>5, <2>3 DEF CurrentIn, Held
  <2> QED
    BY <1>3, <1>5, <2>3, <2>4 DEF d
<1>6. ASSUME Held(c.obs) = {},
             Progress(s, [c EXCEPT !.selected = TRUE, !.read = Assets,
                                   !.seen = [a \in Assets |-> ActiveOf(rows[a])]])
      PROVE  CallsCurrent'
  <2> DEFINE seen == [a \in Assets |-> ActiveOf(rows[a])]
             d == [c EXCEPT !.selected = TRUE, !.read = Assets, !.seen = seen]
  <2>1. seen \in [Assets -> SUBSET Nat] /\ \A a \in Assets : seen[a] = ActiveOf(rows[a])
    BY DEF StoreInv, TypeInv, TypeOK, ActiveOf
  <2>2. Progress(s, d)
    BY <1>6
  <2> HIDE DEF seen
  <2>3. d \in Call /\ d.obs = c.obs /\ d.read = Assets /\ d.seen = seen
    BY <1>2, <2>1 DEF Call
  <2> HIDE DEF d
  <2>4. CurrentIn(d, log', rows')
    BY <1>1, <1>6, <2>1, <2>3 DEF CurrentIn, Held, ActiveOf
  <2> QED
    BY <1>3, <2>2, <2>3, <2>4
<1> QED
  BY <1>4, <1>5, <1>6 DEF Select, SelectPositions

(* No step of a writer makes a started call's SELECT stale. *)
LEMMA WriterCurrent ==
    ASSUME StoreInv, NEW w \in Writers, WriterStep(w)
    PROVE  CallsCurrent'
<1>1. /\ queue \in [Servers -> Seq(Call)]
      /\ \A r \in Servers : \A i \in 1..Len(queue[r]) :
            /\ queue[r][i] \in Call /\ queue[r][i].obs \in 1..Len(log)
            /\ CurrentIn(queue[r][i], log, rows) /\ (i # 1 => ~queue[r][i].selected)
  <2> SUFFICES ASSUME NEW r \in Servers, NEW i \in 1..Len(queue[r])
               PROVE  /\ queue[r][i] \in Call /\ queue[r][i].obs \in 1..Len(log)
                      /\ CurrentIn(queue[r][i], log, rows) /\ (i # 1 => ~queue[r][i].selected)
    BY QueueSound DEF StoreInv
  <2>1. queue[r][i] \in Call /\ queue[r][i].obs <= Len(log)
    BY QueueSound DEF StoreInv
  <2>2. queue[r][i].obs \in 1..Len(log)
    BY <2>1, HistoryAssumption DEF Call, Observations, StoreInv, TypeInv, TypeOK
  <2> QED
    BY <2>1, <2>2 DEF StoreInv, CallsCurrent
<1>2. rows' = rows
  BY DEF WriterStep, Observe, Send, GatewayError, tables
<1>3. CASE Observe(w)
  <2>1. PICK content \in Snapshots : log' = Append(log, content)
    BY <1>3 DEF Observe
  <2>2. \A t \in 1..Len(log) : log'[t] = log[t]
    BY <2>1 DEF StoreInv, TypeInv, TypeOK
  <2>3. queue' = queue
    BY <1>3 DEF Observe
  <2> SUFFICES ASSUME NEW r \in Servers, NEW i \in 1..Len(queue[r])
               PROVE  CurrentIn(queue[r][i], log', rows') /\ (i # 1 => ~queue[r][i].selected)
    BY <2>3 DEF CallsCurrent
  <2> DEFINE c == queue[r][i]
  <2>4. /\ CurrentIn(c, log, rows) /\ log'[c.obs] = log[c.obs] /\ c.tool = c.tool /\ c.selected = c.selected
        /\ queue'[r][i] = c
    BY <1>1, <2>2, <2>3
  <2>5. CurrentIn(queue'[r][i], log', rows')
    BY <1>2, <2>4, StaysCurrent
  <2> QED
    BY <1>1, <2>3, <2>5
<1>4. CASE Send(w)
  <2> DEFINE s == ServerOf[w]
             c == [tool |-> pc[w], writer |-> w, obs |-> stamp[w],
                   selected |-> FALSE, read |-> {}, seen |-> [a \in Assets |-> {}],
                   found |-> FALSE, live |-> TRUE]
  <2>1. s \in Servers /\ queue' = [queue EXCEPT ![s] = Append(@, c)] /\ log' = log
    BY <1>4, HistoryAssumption DEF Send, writerVars
  <2>2. ~c.selected
    OBVIOUS
  <2>3. c \in Call
    <3>1. /\ pc[w] \in Tools /\ stamp[w] \in 1..Len(log)
      BY <1>4 DEF Send, StoreInv, TypeInv, TypeOK, Stamped, Tools, None
    <3>2. stamp[w] \in Observations
      BY <3>1, HistoryAssumption DEF StoreInv, TypeInv, TypeOK, Observations
    <3> QED
      BY <3>1, <3>2 DEF Call
  <2> HIDE DEF s, c
  <2>4. /\ \A r \in Servers \ {s} : queue'[r] = queue[r]
        /\ Len(queue'[s]) = Len(queue[s]) + 1
        /\ \A i \in 1..Len(queue'[s]) :
              queue'[s][i] = IF i <= Len(queue[s]) THEN queue[s][i] ELSE c
    BY <1>1, <2>1, <2>3
  <2> SUFFICES ASSUME NEW r \in Servers, NEW i \in 1..Len(queue'[r])
               PROVE  CurrentIn(queue'[r][i], log', rows') /\ (i # 1 => ~queue'[r][i].selected)
    BY DEF CallsCurrent
  <2>5. CASE i \in 1..Len(queue[r]) /\ queue'[r][i] = queue[r][i]
    BY <1>1, <1>2, <2>1, <2>5, StaysCurrent
  <2>6. CASE queue'[r][i] = c
    BY <2>2, <2>6 DEF CurrentIn
  <2> QED
    BY <1>1, <2>1, <2>4, <2>5, <2>6
<1>5. CASE GatewayError(w)
  <2>1. \A r \in Servers :
           /\ Len(queue'[r]) = Len(queue[r])
           /\ \A i \in 1..Len(queue[r]) :
                 \E b \in BOOLEAN : queue'[r][i] = [queue[r][i] EXCEPT !.live = b]
    BY <1>1, <1>5, GiveUpResult
  <2>2. log' = log
    BY <1>5 DEF GatewayError
  <2> SUFFICES ASSUME NEW r \in Servers, NEW i \in 1..Len(queue'[r])
               PROVE  CurrentIn(queue'[r][i], log', rows') /\ (i # 1 => ~queue'[r][i].selected)
    BY DEF CallsCurrent
  <2> DEFINE c == queue[r][i]
             d == queue'[r][i]
  <2>3. i \in 1..Len(queue[r]) /\ \E b \in BOOLEAN : d = [c EXCEPT !.live = b]
    BY <2>1
  <2>4. c \in Call /\ CurrentIn(c, log, rows) /\ (i # 1 => ~c.selected)
    BY <1>1, <2>3
  <2>5. /\ d.tool = c.tool /\ d.selected = c.selected /\ d.read = c.read
        /\ d.seen = c.seen /\ d.obs = c.obs
    BY <2>3, <2>4 DEF Call
  <2>6. log'[c.obs] = log[c.obs]
    BY <2>2
  <2>7. CurrentIn(d, log', rows')
    BY <1>2, <2>4, <2>5, <2>6, StaysCurrent
  <2> QED
    BY <2>4, <2>5, <2>7
<1> QED
  BY <1>3, <1>4, <1>5 DEF WriterStep

(* The store invariant holds of an empty database. *)
LEMMA InitStoreInv ==
    ASSUME Init
    PROVE  StoreInv
<1>1. TypeInv
  BY InitTypeInv
<1>2. OneActiveState
  BY DEF Init, OneActiveState, AtMostOneActive, ActiveOf
<1>3. CallsCurrent
  <2>1. \A s \in Servers : Len(queue[s]) = 0
    BY EmptySeq DEF Init
  <2> QED
    BY <2>1 DEF CallsCurrent
<1> QED
  BY <1>1, <1>2, <1>3 DEF StoreInv

(* A step keeps the rows of every asset, except upsert_position_states.     *)
LEMMA OnlyPositionsChangeRows ==
    ASSUME [Next]_vars, ~\E s \in Servers : CommitPositions(s)
    PROVE  rows' = rows
  BY DEF Next, WriterStep, ServerStep, Observe, Send, GatewayError, Select,
         SelectPositions, SelectValue, CommitValue, CommitWeights, CommitEvents,
         ToolError, Restart, vars, tables

(* With one server process every step preserves the store invariant. *)
LEMMA NextStoreInv ==
    ASSUME OneProcess, StoreInv, [Next]_vars
    PROVE  StoreInv'
<1>1. TypeInv'
  BY NextTypeInv DEF StoreInv
<1>2. OneActiveState'
  <2>1. CASE \E s \in Servers : CommitPositions(s)
    BY <2>1, CommitPositionsRows
  <2>2. CASE ~\E s \in Servers : CommitPositions(s)
    BY <2>2, OnlyPositionsChangeRows DEF StoreInv, OneActiveState, AtMostOneActive, ActiveOf
  <2> QED
    BY <2>1, <2>2
<1>3. CallsCurrent'
  <2>1. ASSUME NEW w \in Writers, WriterStep(w)
        PROVE  CallsCurrent'
    BY <2>1, WriterCurrent
  <2>2. ASSUME NEW s \in Servers, ServerStep(s)
        PROVE  CallsCurrent'
    <3>1. CASE Select(s)
      BY <3>1, SelectCurrent
    <3>2. CASE ~Select(s)
      <4>1. Busy(s) /\ queue' = [queue EXCEPT ![s] = Tail(@)]
        BY <2>2, <3>2 DEF ServerStep, CommitPositions, CommitValue, CommitWeights,
                          CommitEvents, ToolError, Reply
      <4> QED
        BY <4>1, DequeueCurrent
    <3> QED
      BY <3>1, <3>2
  <2>3. CASE Restart
    <3>1. \A s \in Servers : queue'[s] = <<>> /\ Len(queue'[s]) = 0
      BY <2>3, EmptySeq DEF Restart
    <3> QED
      BY <3>1 DEF CallsCurrent
  <2>4. CASE UNCHANGED vars
    BY <2>4 DEF vars, tables, StoreInv, CallsCurrent
  <2> QED
    BY <2>1, <2>2, <2>3, <2>4 DEF Next
<1> QED
  BY <1>1, <1>2, <1>3 DEF StoreInv

(* With one SQL server process, an asset never has two active rows, however *)
(* many refreshes and agent runs write at once, whatever times out or fails *)
(* (upsert_position_states).                                                *)
THEOREM OneActiveStateHolds ==
    ASSUME OneProcess
    PROVE  Spec => []OneActiveState
<1>1. Init => StoreInv
  BY InitStoreInv
<1>2. StoreInv /\ [Next]_vars => StoreInv'
  BY NextStoreInv
<1>3. StoreInv => OneActiveState
  BY DEF StoreInv
<1> QED
  BY <1>1, <1>2, <1>3, PTL DEF Spec

(* With one SQL server process, a closed position row is never reopened,    *)
(* edited or lost (the UPDATEs of upsert_position_states select by row id). *)
THEOREM ClosedRowsStayFrozen ==
    ASSUME OneProcess
    PROVE  Spec => ClosedRowsFrozen
<1>1. Init => StoreInv
  BY InitStoreInv
<1>2. StoreInv /\ [Next]_vars => StoreInv'
  BY NextStoreInv
<1>3. StoreInv /\ [Next]_vars =>
        [ClosedRowsKept]_vars
  <2> SUFFICES ASSUME StoreInv, [Next]_vars
               PROVE  ClosedRowsKept
    OBVIOUS
  <2> QED
    BY CommitPositionsRows, OnlyPositionsChangeRows DEF ClosedRowsKept
<1> QED
  BY <1>1, <1>2, <1>3, PTL DEF Spec, ClosedRowsFrozen
-----------------------------------------------------------------------------
(* How a table of rows grows.                                               *)

(* Only the newest row of an asset may be active. *)
OnlyLastActive(rs) == \A k \in 1..Len(rs) : rs[k].active => k = Len(rs)

(* The same row, seen or closed at t. *)
Restamped(old, new, t) ==
    new.qty = old.qty /\ new.cost = old.cost /\ new.first = old.first /\ new.last = t

(* An observation at t restamps the newest row if it is active, or opens a   *)
(* row behind closed ones, of which it has closed the newest only if that    *)
(* tells something else.                                                     *)
Grown(rs, new, t) ==
    /\ \A k \in 1..Len(rs) : \/ new[k] = rs[k]
                             \/ k = Len(rs) /\ rs[k].active /\ Restamped(rs[k], new[k], t)
    /\ \/ Len(new) = Len(rs)
       \/ /\ Len(new) = Len(rs) + 1 /\ new[Len(new)].active
          /\ new[Len(new)].first = t /\ new[Len(new)].last = t
          /\ \A k \in 1..Len(rs) : ~new[k].active
          /\ Len(rs) > 0 => \/ new[Len(rs)] = rs[Len(rs)]
                            \/ new[Len(rs)].qty # new[Len(new)].qty
                            \/ new[Len(rs)].cost # new[Len(new)].cost

(* Closing a row, or seeing it again, leaves what it tells but for its time. *)
LEMMA CloseRowsRestamps ==
    ASSUME NEW rs \in Seq(Row), NEW closed, NEW t \in Nat, NEW i \in closed, i \in 1..Len(rs)
    PROVE  Restamped(rs[i], CloseRows(rs, closed, t)[i], t)
<1>1. CloseRows(rs, closed, t)[i] = [rs[i] EXCEPT !.active = FALSE, !.last = t]
  BY LenProperties DEF CloseRows
<1>2. rs[i] \in Row
  OBVIOUS
<1> QED
  BY <1>1, <1>2 DEF Restamped, Row

LEMMA TouchRowRestamps ==
    ASSUME NEW rs \in Seq(Row), NEW i \in 1..Len(rs), NEW t \in Nat
    PROVE  Restamped(rs[i], TouchRow(rs, i, t)[i], t)
<1>1. TouchRow(rs, i, t)[i] = [rs[i] EXCEPT !.last = t]
  BY DEF TouchRow
<1>2. rs[i] \in Row
  OBVIOUS
<1> QED
  BY <1>1, <1>2 DEF Restamped, Row

(* A new row behind others. *)
LEMMA AppendRowResult ==
    ASSUME NEW rs \in Seq(Row), NEW r \in Row
    PROVE  /\ Append(rs, r) \in Seq(Row) /\ Len(Append(rs, r)) = Len(rs) + 1
           /\ \A k \in 1..Len(rs) : Append(rs, r)[k] = rs[k]
           /\ Append(rs, r)[Len(rs) + 1] = r
  BY AppendProperties

(* The active rows are those of the holding. *)
Reports(new, h) == \E i \in ActiveOf(new) : SamePosition(new[i], h)

(* The rows of a holding that has no active row. *)
LEMMA OpenedGrown ==
    ASSUME NEW rs \in Seq(Row), ActiveOf(rs) = {}, NEW h \in Holding, NEW t \in Nat
    PROVE  LET new == Append(rs, OpenRow(h.qty, h.cost, t))
           IN  Grown(rs, new, t) /\ Reports(new, h)
<1> DEFINE r == OpenRow(h.qty, h.cost, t)
           new == Append(rs, r)
<1>1. /\ r \in Row /\ r.active /\ r.first = t /\ r.last = t /\ r.qty = h.qty
      /\ r.cost = h.cost
  BY OpenRowType DEF Holding, OpenRow
<1>2. SamePosition(r, h)
  BY <1>1 DEF SamePosition, EffectiveCost
<1> HIDE DEF r
<1>3. /\ new \in Seq(Row) /\ Len(new) = Len(rs) + 1
      /\ \A k \in 1..Len(rs) : new[k] = rs[k]
      /\ new[Len(rs) + 1] = r
  BY <1>1, AppendRowResult
<1> HIDE DEF new
<1>4. Len(rs) \in Nat /\ DOMAIN rs = 1..Len(rs) /\ DOMAIN new = 1..Len(new)
  BY <1>3, LenProperties
<1>5. \A k \in 1..Len(rs) : ~rs[k].active
  BY <1>4 DEF ActiveOf
<1>6. Grown(rs, new, t)
  <2>1. Len(rs) > 0 => new[Len(rs)] = rs[Len(rs)]
    BY <1>3, <1>4
  <2>2. \A k \in 1..Len(rs) : ~new[k].active
    BY <1>3, <1>5
  <2> QED
    BY <1>1, <1>3, <2>1, <2>2 DEF Grown
<1>7. Reports(new, h)
  <2>1. Len(new) \in DOMAIN new /\ new[Len(new)] = r
    BY <1>3, <1>4
  <2> QED
    BY <1>1, <1>2, <2>1 DEF Reports, ActiveOf
<1> QED
  BY <1>6, <1>7 DEF new, r

(* The rows of a holding whose newest row is the active one. *)
LEMMA RevisedGrown ==
    ASSUME NEW rs \in Seq(Row), OnlyLastActive(rs), NEW i \in ActiveOf(rs),
           NEW h \in Holding, NEW t \in Nat
    PROVE  Grown(rs, ReviseRow(rs, i, h, t), t) /\ Reports(ReviseRow(rs, i, h, t), h)
<1>1. /\ Len(rs) \in Nat /\ DOMAIN rs = 1..Len(rs) /\ i \in 1..Len(rs) /\ i = Len(rs)
      /\ rs[i] \in Row /\ rs[i].active
      /\ \A k \in 1..Len(rs) : k # i => ~rs[k].active
  BY LenProperties DEF ActiveOf, OnlyLastActive
<1>2. CASE SamePosition(rs[i], h)
  <2> DEFINE new == TouchRow(rs, i, t)
  <2>1. ReviseRow(rs, i, h, t) = new
    BY <1>2 DEF ReviseRow
  <2>2. /\ new \in Seq(Row) /\ Len(new) = Len(rs)
        /\ \A j \in 1..Len(rs) : new[j].active = rs[j].active /\ (j # i => new[j] = rs[j])
        /\ Restamped(rs[i], new[i], t)
    BY <1>1, TouchRowResult, TouchRowRestamps
  <2> HIDE DEF new
  <2>3. Grown(rs, new, t)
    BY <1>1, <2>2 DEF Grown
  <2>4. SamePosition(new[i], h)
    BY <1>2, <2>2 DEF Restamped, SamePosition, EffectiveCost
  <2>5. i \in ActiveOf(new)
    BY <1>1, <2>2, LenProperties DEF ActiveOf
  <2> QED
    BY <2>1, <2>3, <2>4, <2>5 DEF Reports
<1>3. CASE ~SamePosition(rs[i], h)
  <2> DEFINE closed == CloseRows(rs, {i}, t)
             r == OpenRow(h.qty, EffectiveCost(rs[i], h), t)
             new == Append(closed, r)
  <2>1. ReviseRow(rs, i, h, t) = new
    BY <1>3 DEF ReviseRow
  <2>2. /\ closed \in Seq(Row) /\ Len(closed) = Len(rs) /\ ~closed[i].active
        /\ \A j \in 1..Len(rs) : j # i => closed[j] = rs[j]
        /\ Restamped(rs[i], closed[i], t)
    <3>1. i \in {i} /\ \A j : j # i => j \notin {i}
      OBVIOUS
    <3>2. /\ closed \in Seq(Row) /\ Len(closed) = Len(rs)
          /\ \A j \in 1..Len(rs) : j \in {i} => ~closed[j].active
          /\ \A j \in 1..Len(rs) : j \notin {i} => closed[j] = rs[j]
      BY CloseRowsResult
    <3>3. Restamped(rs[i], closed[i], t)
      BY <1>1, <3>1, CloseRowsRestamps
    <3> HIDE DEF closed
    <3> QED
      BY <1>1, <3>1, <3>2, <3>3
  <2>3. EffectiveCost(rs[i], h) \in Costs \cup {NoBasis} /\ h.qty \in Quantities
    BY <1>1, EffectiveCostType DEF Holding
  <2>4. /\ r \in Row /\ r.active /\ r.first = t /\ r.last = t
        /\ r.qty = h.qty /\ r.cost = EffectiveCost(rs[i], h)
    BY <2>3, OpenRowType DEF OpenRow
  <2> HIDE DEF closed, r
  <2>5. /\ new \in Seq(Row) /\ Len(new) = Len(rs) + 1
        /\ \A k \in 1..Len(rs) : new[k] = closed[k]
        /\ new[Len(rs) + 1] = r
    BY <2>2, <2>4, AppendRowResult
  <2> HIDE DEF new
  <2>6. \A k \in 1..Len(rs) : ~new[k].active
    BY <1>1, <2>2, <2>5
  <2>7. \A k \in 1..Len(rs) :
           new[k] = rs[k] \/ (k = Len(rs) /\ rs[k].active /\ Restamped(rs[k], new[k], t))
    BY <1>1, <2>2, <2>5
  <2>8. rs[i].qty # h.qty \/ rs[i].cost # EffectiveCost(rs[i], h)
    BY <1>3 DEF SamePosition
  <2>9. new[Len(rs)].qty # new[Len(new)].qty \/ new[Len(rs)].cost # new[Len(new)].cost
    BY <1>1, <2>2, <2>4, <2>5, <2>8 DEF Restamped
  <2>10. Grown(rs, new, t)
    BY <2>4, <2>5, <2>6, <2>7, <2>9 DEF Grown
  <2>11. SamePosition(r, h)
    BY <2>4 DEF SamePosition, EffectiveCost
  <2>12. Len(new) \in ActiveOf(new) /\ new[Len(new)] = r
    <3>1. DOMAIN new = 1..Len(new)
      BY <2>5, LenProperties
    <3>2. Len(new) \in DOMAIN new
      <4>1. Len(rs) \in Nat /\ Len(new) = Len(rs) + 1
        BY <1>1, <2>5
      <4> QED
        BY ONLY <3>1, <4>1
    <3> QED
      BY <2>4, <2>5, <3>2 DEF ActiveOf
  <2> QED
    BY <2>1, <2>10, <2>11, <2>12 DEF Reports
<1> QED
  BY <1>2, <1>3

(* The rows of an asset that is not held any more. *)
LEMMA ClosedGrown ==
    ASSUME NEW rs \in Seq(Row), OnlyLastActive(rs), NEW t \in Nat
    PROVE  /\ Grown(rs, CloseRows(rs, ActiveOf(rs), t), t)
           /\ ActiveOf(CloseRows(rs, ActiveOf(rs), t)) = {}
<1> DEFINE new == CloseRows(rs, ActiveOf(rs), t)
<1>1. Len(rs) \in Nat /\ DOMAIN rs = 1..Len(rs)
  BY LenProperties
<1>2. /\ new \in Seq(Row) /\ Len(new) = Len(rs)
      /\ \A k \in 1..Len(rs) : /\ k \in ActiveOf(rs) => ~new[k].active
                               /\ k \notin ActiveOf(rs) => new[k] = rs[k]
  BY CloseRowsResult
<1>3. \A k \in 1..Len(rs) : k \in ActiveOf(rs) =>
         k = Len(rs) /\ rs[k].active /\ Restamped(rs[k], new[k], t)
  BY CloseRowsRestamps DEF ActiveOf, OnlyLastActive
<1>4. \A k \in 1..Len(rs) : k \notin ActiveOf(rs) => ~rs[k].active
  BY <1>1 DEF ActiveOf
<1> HIDE DEF new
<1>5. Grown(rs, new, t)
  BY <1>2, <1>3 DEF Grown
<1>6. ActiveOf(new) = {}
  <2>1. DOMAIN new = 1..Len(rs)
    BY <1>2, LenProperties
  <2>2. \A k \in 1..Len(rs) : ~new[k].active
    BY <1>2, <1>4
  <2> QED
    BY <2>1, <2>2 DEF ActiveOf
<1> QED
  BY <1>5, <1>6 DEF new

(* The transaction of upsert_position_states, on rows of which only the     *)
(* newest may be active and of which its SELECT is current.                 *)
LEMMA PositionsAfterGrown ==
    ASSUME StoreInv, NEW s \in Servers, Busy(s),
           Serving(s).tool = "positions", Serving(s).selected,
           NEW a \in Assets, NEW fetched \in SelectActive(rows[a]), OnlyLastActive(rows[a])
    PROVE  LET new == PositionsAfter(Serving(s), a, fetched)
               h == log[Serving(s).obs][a]
           IN  /\ Grown(rows[a], new, Serving(s).obs)
               /\ IF h = NotHeld THEN ActiveOf(new) = {} ELSE Reports(new, h)
<1> DEFINE c == Serving(s)
           h == log[c.obs][a]
<1>1. rows[a] \in Seq(Row)
  BY DEF StoreInv, TypeInv, TypeOK
<1>2. c.obs \in 1..Len(log) /\ c.obs \in Nat
  BY ServingSound DEF StoreInv
<1>3. a \in Held(c.obs) <=> h # NotHeld
  BY DEF Held
<1>4. a \in Held(c.obs) => h \in Holding
  BY <1>2, HistoryAssumption DEF Held, StoreInv, TypeInv, TypeOK
<1>5. a \in c.read => IF a \in Held(c.obs) THEN c.seen[a] \in SelectActive(rows[a])
                                          ELSE c.seen[a] = ActiveOf(rows[a])
  <2>1. 1 \in 1..Len(queue[s]) /\ c = queue[s][1]
    BY QueueSound, ServingResult DEF StoreInv
  <2> QED
    BY <2>1 DEF StoreInv, CallsCurrent, CurrentIn, Held
<1> HIDE DEF c, h
<1>6. CASE a \in Held(c.obs)
  <2> DEFINE picked == IF a \in c.read THEN c.seen[a] ELSE fetched
             new == UpsertHolding(rows[a], picked, h, c.obs)
  <2>1. picked \in SelectActive(rows[a])
    BY <1>5, <1>6
  <2>2. PositionsAfter(c, a, fetched) = new
    BY <1>6 DEF PositionsAfter, h
  <2> HIDE DEF picked
  <2>3. CASE picked = {} /\ ActiveOf(rows[a]) = {}
    <3>1. new = Append(rows[a], OpenRow(h.qty, h.cost, c.obs))
      BY <2>3 DEF UpsertHolding
    <3>2. Grown(rows[a], new, c.obs) /\ Reports(new, h)
      BY <1>1, <1>2, <1>4, <1>6, <2>3, <3>1, OpenedGrown
    <3> QED
      BY <1>3, <1>6, <2>2, <3>2 DEF c, h
  <2>4. ASSUME NEW i \in ActiveOf(rows[a]), picked = {i}
        PROVE  Grown(rows[a], new, c.obs) /\ Reports(new, h)
    <3>1. new = ReviseRow(rows[a], i, h, c.obs)
      BY <2>4, FetchedResult DEF UpsertHolding
    <3> QED
      BY <1>1, <1>2, <1>4, <1>6, <3>1, RevisedGrown
  <2> QED
    BY <1>3, <1>6, <2>1, <2>2, <2>3, <2>4, SelectActiveResult DEF c, h
<1>7. CASE a \notin Held(c.obs)
  <2> DEFINE new == CloseRows(rows[a], ActiveOf(rows[a]), c.obs)
  <2>1. PositionsAfter(c, a, fetched) = new
    BY <1>5, <1>7 DEF PositionsAfter
  <2>2. Grown(rows[a], new, c.obs) /\ ActiveOf(new) = {}
    BY <1>1, <1>2, ClosedGrown
  <2> QED
    BY <1>3, <1>7, <2>1, <2>2 DEF c, h
<1> QED
  BY <1>6, <1>7

(* A grown table has no stamps but the old ones and the new one. *)
LEMMA GrownStamps ==
    ASSUME NEW rs \in Seq(Row), NEW new \in Seq(Row), NEW t \in Nat, Grown(rs, new, t)
    PROVE  \A k \in 1..Len(new) :
              new[k].last = t \/ (k \in 1..Len(rs) /\ new[k].last = rs[k].last)
<1>1. Len(rs) \in Nat /\ Len(new) \in {Len(rs), Len(rs) + 1}
  BY LenProperties DEF Grown
<1> SUFFICES ASSUME NEW k \in 1..Len(new)
             PROVE  new[k].last = t \/ (k \in 1..Len(rs) /\ new[k].last = rs[k].last)
  OBVIOUS
<1>2. CASE k \in 1..Len(rs)
  BY <1>2 DEF Grown, Restamped
<1>3. CASE k \notin 1..Len(rs)
  <2>1. k = Len(new) /\ Len(new) = Len(rs) + 1
    BY <1>1, <1>3
  <2> QED
    BY <1>1, <2>1 DEF Grown
<1> QED
  BY <1>2, <1>3

(* The rows of one asset under InsertOnlyOnChange and TimelineOrdered. *)
InsertedOnChange(rs) ==
    \A i \in 2..Len(rs) :
        /\ ~rs[i - 1].active
        /\ rs[i - 1].last = rs[i].first =>
              rs[i - 1].qty # rs[i].qty \/ rs[i - 1].cost # rs[i].cost

Ordered(rs) ==
    /\ \A i \in 1..Len(rs) : rs[i].first <= rs[i].last
    /\ \A i \in 2..Len(rs) : rs[i - 1].last <= rs[i].first

(* Rows that were only inserted on a change are closed but for the newest. *)
LEMMA InsertedOnlyLast ==
    ASSUME NEW rs \in Seq(Row), InsertedOnChange(rs)
    PROVE  OnlyLastActive(rs)
<1>1. Len(rs) \in Nat
  BY LenProperties
<1> SUFFICES ASSUME NEW k \in 1..Len(rs), k # Len(rs)
             PROVE  ~rs[k].active
  BY DEF OnlyLastActive
<1>2. k + 1 \in 2..Len(rs) /\ (k + 1) - 1 = k
  BY <1>1
<1>3. ~rs[(k + 1) - 1].active
  BY <1>2 DEF InsertedOnChange
<1> QED
  BY <1>2, <1>3

(* A pair of neighbours before a table grows, and after. *)
LEMMA GrownPairs ==
    ASSUME NEW rs \in Seq(Row), NEW new \in Seq(Row), NEW t \in Nat, Grown(rs, new, t),
           NEW i \in 2..Len(new), i <= Len(rs)
    PROVE  /\ i \in 2..Len(rs) /\ i - 1 \in 1..Len(rs) /\ i \in 1..Len(rs)
           /\ new[i - 1] = rs[i - 1]
           /\ new[i].first = rs[i].first /\ new[i].qty = rs[i].qty /\ new[i].cost = rs[i].cost
<1>1. Len(rs) \in Nat /\ Len(new) \in Nat
  BY LenProperties
<1>2. i \in 2..Len(rs) /\ i - 1 \in 1..Len(rs) /\ i \in 1..Len(rs) /\ i - 1 # Len(rs)
  BY <1>1
<1>3. new[i - 1] = rs[i - 1]
  BY <1>2 DEF Grown
<1>4. new[i].first = rs[i].first /\ new[i].qty = rs[i].qty /\ new[i].cost = rs[i].cost
  BY <1>2 DEF Grown, Restamped
<1> QED
  BY <1>2, <1>3, <1>4

(* The row opened at the end of a table. *)
LEMMA GrownBeyond ==
    ASSUME NEW rs \in Seq(Row), NEW new \in Seq(Row), NEW t \in Nat, Grown(rs, new, t),
           NEW i \in 2..Len(new), ~(i <= Len(rs))
    PROVE  /\ i - 1 = Len(rs) /\ i = Len(new) /\ Len(rs) \in 1..Len(rs)
           /\ new[i].first = t /\ ~new[i - 1].active
           /\ \/ new[i - 1] = rs[i - 1]
              \/ new[i - 1].qty # new[i].qty \/ new[i - 1].cost # new[i].cost
<1>1. Len(rs) \in Nat /\ Len(new) \in {Len(rs), Len(rs) + 1}
  BY LenProperties DEF Grown
<1>2. i - 1 = Len(rs) /\ i = Len(new) /\ Len(rs) \in 1..Len(rs) /\ Len(rs) > 0 /\ Len(new) # Len(rs)
  BY <1>1
<1>3. /\ new[Len(new)].first = t /\ ~new[Len(rs)].active
      /\ \/ new[Len(rs)] = rs[Len(rs)]
         \/ new[Len(rs)].qty # new[Len(new)].qty \/ new[Len(rs)].cost # new[Len(new)].cost
  BY <1>2 DEF Grown
<1> QED
  BY <1>2, <1>3

LEMMA GrownInserts ==
    ASSUME NEW rs \in Seq(Row), NEW new \in Seq(Row), NEW t \in Nat, Grown(rs, new, t),
           InsertedOnChange(rs), \A k \in 1..Len(rs) : rs[k].last # t
    PROVE  InsertedOnChange(new)
<1> SUFFICES ASSUME NEW i \in 2..Len(new)
             PROVE  /\ ~new[i - 1].active
                    /\ new[i - 1].last = new[i].first =>
                          new[i - 1].qty # new[i].qty \/ new[i - 1].cost # new[i].cost
  BY DEF InsertedOnChange
<1>1. CASE i <= Len(rs)
  BY <1>1, GrownPairs DEF InsertedOnChange
<1>2. CASE ~(i <= Len(rs))
  <2>1. i - 1 = Len(rs) /\ Len(rs) \in 1..Len(rs) /\ new[i].first = t /\ ~new[i - 1].active
    BY <1>2, GrownBeyond
  <2>2. CASE new[i - 1] = rs[i - 1]
    BY <2>1, <2>2
  <2>3. CASE new[i - 1] # rs[i - 1]
    <3>1. new[i - 1].qty # new[i].qty \/ new[i - 1].cost # new[i].cost
      BY <1>2, <2>3, GrownBeyond
    <3> QED
      BY <2>1, <3>1
  <2> QED
    BY <2>2, <2>3
<1> QED
  BY <1>1, <1>2

LEMMA GrownOrdered ==
    ASSUME NEW rs \in Seq(Row), NEW new \in Seq(Row), NEW t \in Nat, Grown(rs, new, t),
           Ordered(rs), \A k \in 1..Len(rs) : rs[k].last <= t
    PROVE  Ordered(new)
<1>1. Len(rs) \in Nat /\ Len(new) \in {Len(rs), Len(rs) + 1}
  BY LenProperties DEF Grown
<1>2. ASSUME NEW i \in 1..Len(new)
      PROVE  new[i].first <= new[i].last
  <2>1. CASE i \in 1..Len(rs)
    <3>1. rs[i] \in Row
      BY <2>1
    <3>2. rs[i].first \in Nat /\ rs[i].last \in Nat /\ rs[i].first <= rs[i].last /\ rs[i].last <= t
      BY <2>1, <3>1 DEF Ordered, Row
    <3>3. new[i] = rs[i] \/ (new[i].first = rs[i].first /\ new[i].last = t)
      BY <2>1 DEF Grown, Restamped
    <3> QED
      BY <3>2, <3>3
  <2>2. CASE i \notin 1..Len(rs)
    <3>1. i = Len(new) /\ Len(new) # Len(rs)
      BY <1>1, <2>2
    <3>2. new[i].first = t /\ new[i].last = t
      BY <3>1 DEF Grown
    <3> QED
      BY <3>2
  <2> QED
    BY <2>1, <2>2
<1>3. ASSUME NEW i \in 2..Len(new)
      PROVE  new[i - 1].last <= new[i].first
  <2>1. CASE i <= Len(rs)
    BY <2>1, GrownPairs DEF Ordered
  <2>2. CASE ~(i <= Len(rs))
    <3>1. i - 1 = Len(rs) /\ Len(rs) \in 1..Len(rs) /\ new[i].first = t
      BY <2>2, GrownBeyond
    <3>2. new[Len(rs)].last = t \/ new[Len(rs)].last = rs[Len(rs)].last
      BY <3>1 DEF Grown, Restamped
    <3> QED
      BY <3>1, <3>2
  <2> QED
    BY <2>1, <2>2
<1> QED
  BY <1>2, <1>3 DEF Ordered

(* The positions of an observation are committed once at most: while its    *)
(* call is still to be sent or executed, no row is stamped by it, no other  *)
(* call carries it, and a writer about to send it has sent at most that one.*)
Unstamped(t) == \A a \in Assets : \A k \in 1..Len(rows[a]) : rows[a][k].last # t

StampsKnown == \A a \in Assets : \A k \in 1..Len(rows[a]) : rows[a][k].last <= Len(log)

CallsFresh ==
    \A s \in Servers : \A i \in 1..Len(queue[s]) :
        queue[s][i].tool = "positions" => Unstamped(queue[s][i].obs)

CallsDiffer ==
    \A s \in Servers : \A i, j \in 1..Len(queue[s]) :
        /\ queue[s][i].tool = "positions" /\ queue[s][j].tool = "positions"
        /\ queue[s][i].obs = queue[s][j].obs
        => i = j

WritersFresh == \A w \in Writers : pc[w] = "positions" => Unstamped(stamp[w])

WritersDiffer ==
    \A v, w \in Writers :
        pc[v] = "positions" /\ pc[w] = "positions" /\ stamp[v] = stamp[w] => v = w

SentByItsWriter ==
    \A s \in Servers : \A i \in 1..Len(queue[s]) : \A w \in Writers :
        /\ queue[s][i].tool = "positions"
        /\ pc[w] = "positions" /\ stamp[w] = queue[s][i].obs
        => queue[s][i].live /\ queue[s][i].writer = w

PositionsOnce ==
    /\ StampsKnown
    /\ CallsFresh /\ CallsDiffer
    /\ WritersFresh /\ WritersDiffer
    /\ SentByItsWriter

-----------------------------------------------------------------------------
(* What a step does to the calls, whatever they have read.                  *)

(* Two records of one call. *)
SameCall(c, d) == d.tool = c.tool /\ d.obs = c.obs /\ d.writer = c.writer

(* A SELECT changes no call but for what it has read. *)
LEMMA SelectKeepsCalls ==
    ASSUME TypeInv, NEW s \in Servers, Select(s)
    PROVE  /\ UNCHANGED <<log, pc, stamp, outcome, rows, value, weights, events, lastPositions>>
           /\ \A r \in Servers :
                 /\ Len(queue'[r]) = Len(queue[r])
                 /\ \A i \in 1..Len(queue[r]) :
                       SameCall(queue[r][i], queue'[r][i]) /\ queue'[r][i].live = queue[r][i].live
<1> DEFINE c == Serving(s)
<1>1. /\ Busy(s)
      /\ UNCHANGED <<log, pc, stamp, outcome, rows, value, weights, events, lastPositions>>
  BY DEF Select, SelectPositions, SelectValue, writerVars, tables
<1>2. c \in Call /\ c = queue[s][1] /\ 1 \in 1..Len(queue[s])
  BY <1>1, QueueSound, ServingResult
<1>3. PICK d \in Call : Progress(s, d) /\ SameCall(c, d) /\ d.live = c.live
  <2>1. CASE SelectValue(s)
    <3> DEFINE d == [c EXCEPT !.selected = TRUE, !.found = (value[Day(c.obs)] # None)]
    <3>1. Progress(s, d)
      BY <2>1 DEF SelectValue
    <3>2. d \in Call /\ SameCall(c, d) /\ d.live = c.live
      BY <1>2 DEF Call, SameCall
    <3> QED
      BY <3>1, <3>2
  <2>2. ASSUME NEW a \in Held(c.obs), NEW picked \in SelectActive(rows[a]),
               Progress(s, [c EXCEPT !.selected = TRUE, !.read = {a}, !.seen[a] = picked])
        PROVE  \E d \in Call : Progress(s, d) /\ SameCall(c, d) /\ d.live = c.live
    <3> DEFINE d == [c EXCEPT !.selected = TRUE, !.read = {a}, !.seen[a] = picked]
    <3>1. a \in Assets
      BY DEF Held
    <3>2. picked \in SUBSET Nat
      <4>1. rows[a] \in Seq(Row)
        BY <3>1 DEF TypeInv, TypeOK
      <4> QED
        BY <4>1, SelectActiveResult DEF ActiveOf
    <3>3. d \in Call /\ SameCall(c, d) /\ d.live = c.live
      BY <1>2, <3>1, <3>2 DEF Call, SameCall
    <3> QED
      BY <2>2, <3>3
  <2>3. ASSUME Progress(s, [c EXCEPT !.selected = TRUE, !.read = Assets,
                                     !.seen = [a \in Assets |-> ActiveOf(rows[a])]])
        PROVE  \E d \in Call : Progress(s, d) /\ SameCall(c, d) /\ d.live = c.live
    <3> DEFINE seen == [a \in Assets |-> ActiveOf(rows[a])]
               d == [c EXCEPT !.selected = TRUE, !.read = Assets, !.seen = seen]
    <3>1. seen \in [Assets -> SUBSET Nat]
      BY DEF TypeInv, TypeOK, ActiveOf
    <3>2. Progress(s, d)
      BY <2>3
    <3> HIDE DEF seen
    <3>3. d \in Call /\ SameCall(c, d) /\ d.live = c.live
      BY <1>2, <3>1 DEF Call, SameCall
    <3> QED
      BY <3>2, <3>3
  <2> QED
    BY <2>1, <2>2, <2>3 DEF Select, SelectPositions
<1> HIDE DEF c
<1>4. \A r \in Servers :
         /\ Len(queue'[r]) = Len(queue[r])
         /\ \A i \in 1..Len(queue[r]) :
               queue'[r][i] = IF r = s /\ i = 1 THEN d ELSE queue[r][i]
  BY <1>1, <1>3, QueueSound, ProgressResult
<1>5. ASSUME NEW r \in Servers, NEW i \in 1..Len(queue[r])
      PROVE  SameCall(queue[r][i], queue'[r][i]) /\ queue'[r][i].live = queue[r][i].live
  BY <1>2, <1>3, <1>4 DEF SameCall
<1> QED
  BY <1>1, <1>4, <1>5

(* A call that is sent comes last. *)
LEMMA SendKeepsCalls ==
    ASSUME TypeInv, NEW w \in Writers, Send(w), NEW s, s = ServerOf[w]
    PROVE  /\ UNCHANGED <<log, pc, stamp, outcome, rows, value, weights, events, lastPositions>>
           /\ s \in Servers /\ Len(queue[s]) \in Nat /\ Len(queue'[s]) = Len(queue[s]) + 1
           /\ \A i \in 1..Len(queue[s]) : queue'[s][i] = queue[s][i] /\ ~queue[s][i].live
           /\ LET c == queue'[s][Len(queue[s]) + 1]
              IN  c.tool = pc[w] /\ c.obs = stamp[w] /\ c.writer = w /\ c.live
<1> DEFINE c == [tool |-> pc[w], writer |-> w, obs |-> stamp[w],
                 selected |-> FALSE, read |-> {}, seen |-> [a \in Assets |-> {}],
                 found |-> FALSE, live |-> TRUE]
<1>1. s \in Servers /\ queue \in [Servers -> Seq(Call)] /\ queue[s] \in Seq(Call)
  BY QueueSound, HistoryAssumption
<1>2. pc[w] \in Tools /\ stamp[w] # None /\ stamp[w] \in 1..Len(log)
  BY DEF Send, TypeInv, TypeOK, Stamped, Tools, None
<1>3. stamp[w] \in Observations
  BY <1>2, HistoryAssumption DEF TypeInv, TypeOK, Observations
<1>4. c \in Call /\ c.tool = pc[w] /\ c.obs = stamp[w] /\ c.writer = w /\ c.live
  BY <1>2, <1>3 DEF Call
<1>5. queue' = [queue EXCEPT ![s] = Append(@, c)]
  BY DEF Send
<1>6. \A i \in 1..Len(queue[s]) : ~queue[s][i].live
  BY <1>1, LenProperties DEF Send
<1>7. UNCHANGED <<log, pc, stamp, outcome, rows, value, weights, events, lastPositions>>
  BY DEF Send, writerVars, tables
<1> HIDE DEF c
<1>8. queue'[s] = Append(queue[s], c)
  BY <1>1, <1>5
<1>9. /\ Len(queue'[s]) = Len(queue[s]) + 1
      /\ \A i \in 1..Len(queue[s]) : queue'[s][i] = queue[s][i]
      /\ queue'[s][Len(queue[s]) + 1] = c
  BY <1>1, <1>4, <1>8, AppendProperties
<1> QED
  BY <1>1, <1>4, <1>6, <1>7, <1>9, LenProperties

(* A call is given up, but it stays where it is. *)
LEMMA GiveUpKeepsCalls ==
    ASSUME TypeInv, NEW w \in Writers, GatewayError(w), NEW s, s = ServerOf[w]
    PROVE  /\ s \in Servers /\ Len(queue'[s]) = Len(queue[s])
           /\ \A i \in 1..Len(queue[s]) :
                 /\ SameCall(queue[s][i], queue'[s][i])
                 /\ queue'[s][i].live = (queue[s][i].live /\ queue[s][i].writer # w)
<1> DEFINE q == [i \in DOMAIN queue[s] |->
                   [queue[s][i] EXCEPT !.live = @ /\ queue[s][i].writer # w]]
<1>1. s \in Servers /\ queue \in [Servers -> Seq(Call)] /\ queue[s] \in Seq(Call)
  BY QueueSound, HistoryAssumption
<1>2. queue'[s] = q
  BY <1>1 DEF GatewayError
<1>3. Len(queue'[s]) = Len(queue[s])
  BY <1>1, QueueSound, GiveUpResult
<1>4. ASSUME NEW i \in 1..Len(queue[s])
      PROVE  /\ SameCall(queue[s][i], queue'[s][i])
             /\ queue'[s][i].live = (queue[s][i].live /\ queue[s][i].writer # w)
  <2> DEFINE b == (queue[s][i].live /\ queue[s][i].writer # w)
  <2>1. queue'[s][i] = [queue[s][i] EXCEPT !.live = b]
    BY <1>1, <1>2, LenProperties
  <2>2. queue[s][i] \in Call
    BY <1>1
  <2> HIDE DEF b
  <2>3. SameCall(queue[s][i], queue'[s][i]) /\ queue'[s][i].live = b
    BY <2>1, <2>2 DEF SameCall, Call
  <2> QED
    BY <2>3 DEF b
<1> QED
  BY <1>1, <1>3, <1>4

(* A call that ends leaves the queue, and moves its caller on if that waits. *)
LEMMA ReplyKeepsCalls ==
    ASSUME TypeInv, NEW s \in Servers, Busy(s), NEW ok \in BOOLEAN, Reply(s, ok),
           NEW c, c = Serving(s)
    PROVE  /\ log' = log /\ stamp' = stamp /\ c = queue[s][1]
           /\ c \in Call /\ 1 \in 1..Len(queue[s]) /\ Len(queue'[s]) = Len(queue[s]) - 1
           /\ \A i \in 1..Len(queue'[s]) :
                 i + 1 \in 1..Len(queue[s]) /\ queue'[s][i] = queue[s][i + 1]
           /\ \A v \in Writers : v # c.writer \/ ~c.live => pc'[v] = pc[v] /\ outcome'[v] = outcome[v]
           /\ c.live => pc'[c.writer] = IF c.tool = "value" /\ ~ok THEN "idle" ELSE NextTool(c.tool)
           /\ c.live => outcome'[c.writer] =
                 LET standing == IF ok THEN outcome[c.writer] ELSE "doubtful"
                 IN  IF pc'[c.writer] # "idle" THEN standing
                     ELSE IF standing = "storing" THEN "stored" ELSE "failed"
<1>1. queue \in [Servers -> Seq(Call)] /\ queue[s] \in Seq(Call) /\ Len(queue[s]) \in Nat
  BY QueueSound, LenProperties
<1>2. 1 \in 1..Len(queue[s]) /\ c = queue[s][1] /\ c \in Call
  BY <1>1, ServingResult
<1>3. queue' = [queue EXCEPT ![s] = Tail(@)] /\ log' = log /\ stamp' = stamp
  BY DEF Reply
<1>4. /\ Len(queue'[s]) = Len(queue[s]) - 1
      /\ \A i \in 1..Len(queue'[s]) : queue'[s][i] = queue[s][i + 1]
  BY <1>1, <1>3, DequeueResult
<1>5. \A i \in 1..Len(queue'[s]) : i + 1 \in 1..Len(queue[s])
  BY <1>1, <1>4
<1>6. /\ pc \in [Writers -> Tools \cup {"idle"}] /\ DOMAIN outcome = Writers
      /\ c.writer \in Writers
  BY <1>2 DEF TypeInv, TypeOK, Call
<1>7. CASE ~c.live
  <2>1. pc' = pc /\ outcome' = outcome
    BY <1>7 DEF Reply
  <2> QED
    BY <1>2, <1>3, <1>4, <1>5, <1>7, <2>1
<1>8. CASE c.live
  <2> DEFINE next == IF c.tool = "value" /\ ~ok THEN "idle" ELSE NextTool(c.tool)
             standing == IF ok THEN outcome[c.writer] ELSE "doubtful"
             final == IF next # "idle" THEN standing
                      ELSE IF standing = "storing" THEN "stored" ELSE "failed"
  <2>1. pc' = [pc EXCEPT ![c.writer] = next] /\ outcome' = [outcome EXCEPT ![c.writer] = final]
    BY <1>8 DEF Reply
  <2> HIDE DEF next, final
  <2>2. /\ pc'[c.writer] = next /\ outcome'[c.writer] = final
        /\ \A v \in Writers : v # c.writer => pc'[v] = pc[v] /\ outcome'[v] = outcome[v]
    BY <1>6, <2>1
  <2>3. final = IF pc'[c.writer] # "idle" THEN standing
                ELSE IF standing = "storing" THEN "stored" ELSE "failed"
    BY <2>2 DEF final
  <2> QED
    BY <1>2, <1>3, <1>4, <1>5, <1>8, <2>2, <2>3 DEF next
<1> QED
  BY <1>7, <1>8

-----------------------------------------------------------------------------
(* The positions of an observation are committed once.                      *)

(* A step that leaves the table alone, sends nothing and starts no writer.  *)
LEMMA OnceKept ==
    ASSUME OneProcess, PositionsOnce, NEW s \in Servers, NEW d \in {0, 1},
           rows' = rows, log' = log, stamp' = stamp,
           Len(queue[s]) \in Nat, Len(queue'[s]) \in Nat,
           \A i \in 1..Len(queue'[s]) :
              i + d \in 1..Len(queue[s]) /\ SameCall(queue[s][i + d], queue'[s][i]),
           \A w \in Writers : pc'[w] = "positions" => pc[w] = "positions",
           \A i \in 1..Len(queue'[s]) : \A w \in Writers :
              pc'[w] = "positions" /\ queue[s][i + d].live /\ queue[s][i + d].writer = w
                 => queue'[s][i].live
    PROVE  PositionsOnce'
<1>1. \A r \in Servers : r = s
  BY DEF OneProcess
<1>2. \A i \in 1..Len(queue'[s]) :
         /\ i + d \in 1..Len(queue[s])
         /\ queue'[s][i].tool = queue[s][i + d].tool
         /\ queue'[s][i].obs = queue[s][i + d].obs
         /\ queue'[s][i].writer = queue[s][i + d].writer
  BY DEF SameCall
<1>4. StampsKnown'
  BY DEF PositionsOnce, StampsKnown
<1>5. CallsFresh'
  <2> SUFFICES ASSUME NEW i \in 1..Len(queue'[s]), queue'[s][i].tool = "positions",
                      NEW a \in Assets, NEW k \in 1..Len(rows'[a])
               PROVE  rows'[a][k].last # queue'[s][i].obs
    BY <1>1 DEF CallsFresh, Unstamped
  <2>1. PICK p \in 1..Len(queue[s]) :
           queue[s][p].tool = "positions" /\ queue'[s][i].obs = queue[s][p].obs
    BY <1>2
  <2> QED
    BY <2>1 DEF PositionsOnce, CallsFresh, Unstamped
<1>6. CallsDiffer'
  <2> SUFFICES ASSUME NEW i \in 1..Len(queue'[s]), NEW j \in 1..Len(queue'[s]),
                      queue'[s][i].tool = "positions", queue'[s][j].tool = "positions",
                      queue'[s][i].obs = queue'[s][j].obs
               PROVE  i = j
    BY <1>1 DEF CallsDiffer
  <2>1. PICK p \in 1..Len(queue[s]), q \in 1..Len(queue[s]) :
           /\ p = i + d /\ queue'[s][i].tool = queue[s][p].tool
           /\ queue'[s][i].obs = queue[s][p].obs
           /\ q = j + d /\ queue'[s][j].tool = queue[s][q].tool
           /\ queue'[s][j].obs = queue[s][q].obs
    BY <1>2
  <2>2. p = q
    BY <2>1 DEF PositionsOnce, CallsDiffer
  <2> QED
    BY <2>1, <2>2
<1>7. WritersFresh' /\ WritersDiffer'
  BY DEF PositionsOnce, WritersFresh, WritersDiffer, Unstamped
<1>8. SentByItsWriter'
  BY SMTT(30), <1>1, <1>2 DEF PositionsOnce, SentByItsWriter
<1> QED
  BY <1>4, <1>5, <1>6, <1>7, <1>8 DEF PositionsOnce

(* Committing the positions of an observation stamps rows by it; no other   *)
(* call of it is left, and its writer goes on.                              *)
LEMMA OnceCommitted ==
    ASSUME OneProcess, PositionsOnce, NEW s \in Servers,
           log' = log, stamp' = stamp, NEW c, c = queue[s][1], c.tool = "positions",
           Len(queue[s]) \in Nat, Len(queue'[s]) \in Nat, 1 \in 1..Len(queue[s]),
           c.obs \in 1..Len(log),
           \A i \in 1..Len(queue'[s]) :
              i + 1 \in 1..Len(queue[s]) /\ queue'[s][i] = queue[s][i + 1],
           \A w \in Writers : pc'[w] = "positions" => pc[w] = "positions",
           \A w \in Writers : c.live /\ c.writer = w => pc'[w] # "positions",
           \A a \in Assets : \A k \in 1..Len(rows'[a]) :
              \/ rows'[a][k].last = c.obs
              \/ k \in 1..Len(rows[a]) /\ rows'[a][k].last = rows[a][k].last
    PROVE  PositionsOnce'
<1>1. \A r \in Servers : r = s
  BY DEF OneProcess
<1>3. StampsKnown'
  BY DEF PositionsOnce, StampsKnown
<1>4. \A i \in 1..Len(queue'[s]) :
         /\ i + 1 \in 1..Len(queue[s]) /\ i + 1 # 1
         /\ queue'[s][i] = queue[s][i + 1]
  OBVIOUS
<1>5. CallsFresh'
  <2> SUFFICES ASSUME NEW i \in 1..Len(queue'[s]), queue'[s][i].tool = "positions",
                      NEW a \in Assets, NEW k \in 1..Len(rows'[a])
               PROVE  rows'[a][k].last # queue'[s][i].obs
    BY <1>1 DEF CallsFresh, Unstamped
  <2>1. queue'[s][i].obs # c.obs
    BY <1>4 DEF PositionsOnce, CallsDiffer
  <2> QED
    BY <1>4, <2>1 DEF PositionsOnce, CallsFresh, Unstamped
<1>6. CallsDiffer'
  <2> SUFFICES ASSUME NEW i \in 1..Len(queue'[s]), NEW j \in 1..Len(queue'[s]),
                      queue'[s][i].tool = "positions", queue'[s][j].tool = "positions",
                      queue'[s][i].obs = queue'[s][j].obs
               PROVE  i = j
    BY <1>1 DEF CallsDiffer
  <2>1. PICK p \in 1..Len(queue[s]), q \in 1..Len(queue[s]) :
           /\ p = i + 1 /\ queue'[s][i].tool = queue[s][p].tool
           /\ queue'[s][i].obs = queue[s][p].obs
           /\ q = j + 1 /\ queue'[s][j].tool = queue[s][q].tool
           /\ queue'[s][j].obs = queue[s][q].obs
    BY <1>4
  <2>2. /\ queue[s][p].tool = "positions" /\ queue[s][q].tool = "positions"
        /\ queue[s][p].obs = queue[s][q].obs
    BY ONLY <2>1, queue'[s][i].tool = "positions", queue'[s][j].tool = "positions",
            queue'[s][i].obs = queue'[s][j].obs
  <2>3. p = q
    BY ONLY <2>2, s \in Servers, p \in 1..Len(queue[s]), q \in 1..Len(queue[s]),
            PositionsOnce DEF PositionsOnce, CallsDiffer
  <2> QED
    BY <2>1, <2>3
<1>7. ASSUME NEW w \in Writers, pc'[w] = "positions"
      PROVE  stamp[w] # c.obs
  BY <1>7 DEF PositionsOnce, SentByItsWriter
<1>8. WritersFresh' /\ WritersDiffer'
  BY <1>7 DEF PositionsOnce, WritersFresh, WritersDiffer, Unstamped
<1>9. SentByItsWriter'
  BY SMTT(30), <1>1, <1>4 DEF PositionsOnce, SentByItsWriter
<1> QED
  BY <1>3, <1>5, <1>6, <1>8, <1>9 DEF PositionsOnce

(* A read of OpenD starts an observation that nothing carries yet.          *)
LEMMA ObserveOnce ==
    ASSUME TypeInv, PositionsOnce, NEW w \in Writers, Observe(w)
    PROVE  PositionsOnce'
<1>1. /\ queue' = queue /\ rows' = rows
      /\ Len(log) \in Nat /\ Len(log') = Len(log) + 1
      /\ DOMAIN pc = Writers /\ DOMAIN stamp = Writers
      /\ \A v \in Writers : stamp[v] \in 0..Len(log)
      /\ \A a \in Assets : \A k \in 1..Len(rows[a]) : rows[a][k] \in Row
  BY LenProperties DEF Observe, tables, TypeInv, TypeOK
<1>2. /\ pc' = [pc EXCEPT ![w] = "positions"]
      /\ stamp' = [stamp EXCEPT ![w] = Len(log) + 1]
  BY DEF Observe
<1>3. /\ \A v \in Writers : v # w => pc'[v] = pc[v] /\ stamp'[v] = stamp[v]
      /\ stamp'[w] = Len(log) + 1
  BY <1>1, <1>2
<1>4. \A s \in Servers : \A i \in 1..Len(queue[s]) :
         queue[s][i].obs <= Len(log) /\ queue[s][i].obs \in Nat
  <2> SUFFICES ASSUME NEW s \in Servers, NEW i \in 1..Len(queue[s])
               PROVE  queue[s][i].obs <= Len(log) /\ queue[s][i].obs \in Nat
    OBVIOUS
  <2>1. queue[s][i] \in Call /\ queue[s][i].obs <= Len(log)
    BY QueueSound
  <2> QED
    BY <2>1, HistoryAssumption DEF Call, Observations
<1>5. \A a \in Assets : \A k \in 1..Len(rows[a]) :
         rows[a][k].last <= Len(log) /\ rows[a][k].last \in Nat
  BY <1>1 DEF PositionsOnce, StampsKnown, Row
<1>6. StampsKnown'
  BY <1>1, <1>5 DEF StampsKnown
<1>7. CallsFresh' /\ CallsDiffer'
  BY <1>1 DEF PositionsOnce, CallsFresh, CallsDiffer, Unstamped
<1>8. Unstamped(Len(log) + 1)'
  BY <1>1, <1>5 DEF Unstamped
<1>9. WritersFresh'
  <2> SUFFICES ASSUME NEW v \in Writers, pc'[v] = "positions",
                      NEW a \in Assets, NEW k \in 1..Len(rows[a])
               PROVE  rows[a][k].last # stamp'[v]
    BY <1>1 DEF WritersFresh, Unstamped
  <2>1. CASE v = w
    BY <1>1, <1>3, <1>5, <2>1
  <2>2. CASE v # w
    BY <1>3, <2>2 DEF PositionsOnce, WritersFresh, Unstamped
  <2> QED
    BY <2>1, <2>2
<1>10. WritersDiffer'
  BY <1>1, <1>3 DEF PositionsOnce, WritersDiffer
<1>11. SentByItsWriter'
  BY <1>1, <1>3, <1>4 DEF PositionsOnce, SentByItsWriter
<1> QED
  BY <1>6, <1>7, <1>9, <1>10, <1>11 DEF PositionsOnce

(* A call that is sent is the only one of its observation.                  *)
LEMMA SendOnce ==
    ASSUME OneProcess, TypeInv, PositionsOnce, NEW w \in Writers, Send(w)
    PROVE  PositionsOnce'
<1> DEFINE s == ServerOf[w]
           n == Len(queue[s])
<1>1. /\ log' = log /\ pc' = pc /\ stamp' = stamp /\ rows' = rows
      /\ s \in Servers /\ n \in Nat /\ Len(queue'[s]) = n + 1
      /\ \A i \in 1..n : queue'[s][i] = queue[s][i] /\ ~queue[s][i].live
      /\ queue'[s][n + 1].tool = pc[w] /\ queue'[s][n + 1].obs = stamp[w]
      /\ queue'[s][n + 1].writer = w /\ queue'[s][n + 1].live
  BY SendKeepsCalls
<1> HIDE DEF s, n
<1>2. \A r \in Servers : r = s
  BY <1>1 DEF OneProcess
<1>3. \A i \in 1..Len(queue'[s]) : i = n + 1 \/ i \in 1..n
  BY <1>1
<1>4. \A i \in 1..n : queue[s][i].tool = "positions" /\ pc[w] = "positions" => queue[s][i].obs # stamp[w]
  BY <1>1 DEF PositionsOnce, SentByItsWriter, n
<1>5. StampsKnown' /\ WritersFresh' /\ WritersDiffer'
  BY <1>1 DEF PositionsOnce, StampsKnown, WritersFresh, WritersDiffer, Unstamped
<1>6. CallsFresh'
  <2> SUFFICES ASSUME NEW i \in 1..Len(queue'[s]), queue'[s][i].tool = "positions",
                      NEW a \in Assets, NEW k \in 1..Len(rows[a])
               PROVE  rows[a][k].last # queue'[s][i].obs
    BY <1>1, <1>2 DEF CallsFresh, Unstamped
  <2>1. CASE i = n + 1
    BY <1>1, <2>1 DEF PositionsOnce, WritersFresh, Unstamped
  <2>2. CASE i \in 1..n
    BY <1>1, <2>2 DEF PositionsOnce, CallsFresh, Unstamped, n
  <2> QED
    BY <1>3, <2>1, <2>2
<1>7. CallsDiffer'
  <2> SUFFICES ASSUME NEW i \in 1..Len(queue'[s]), NEW j \in 1..Len(queue'[s]),
                      queue'[s][i].tool = "positions", queue'[s][j].tool = "positions",
                      queue'[s][i].obs = queue'[s][j].obs
               PROVE  i = j
    BY <1>2 DEF CallsDiffer
  <2>1. CASE i \in 1..n /\ j \in 1..n
    BY <1>1, <2>1 DEF PositionsOnce, CallsDiffer, n
  <2>2. CASE ~(i \in 1..n /\ j \in 1..n)
    BY <1>1, <1>3, <1>4, <2>2
  <2> QED
    BY <2>1, <2>2
<1>8. SentByItsWriter'
  <2> SUFFICES ASSUME NEW i \in 1..Len(queue'[s]), NEW v \in Writers,
                      queue'[s][i].tool = "positions",
                      pc[v] = "positions", stamp[v] = queue'[s][i].obs
               PROVE  queue'[s][i].live /\ queue'[s][i].writer = v
    BY <1>1, <1>2 DEF SentByItsWriter
  <2>1. CASE i = n + 1
    BY <1>1, <2>1 DEF PositionsOnce, WritersDiffer
  <2>2. CASE i \in 1..n
    BY <1>1, <2>2 DEF PositionsOnce, SentByItsWriter, n
  <2> QED
    BY <1>3, <2>1, <2>2
<1> QED
  BY <1>5, <1>6, <1>7, <1>8 DEF PositionsOnce

(* A call that is given up no longer has a writer about to send it.         *)
LEMMA GiveUpOnce ==
    ASSUME OneProcess, TypeInv, PositionsOnce, NEW w \in Writers, GatewayError(w)
    PROVE  PositionsOnce'
<1> DEFINE s == ServerOf[w]
<1>1. /\ s \in Servers /\ Len(queue'[s]) = Len(queue[s])
      /\ \A i \in 1..Len(queue[s]) :
            /\ SameCall(queue[s][i], queue'[s][i])
            /\ queue'[s][i].live = (queue[s][i].live /\ queue[s][i].writer # w)
  BY GiveUpKeepsCalls
<1>2. /\ log' = log /\ stamp' = stamp /\ rows' = rows
      /\ pc' = [pc EXCEPT ![w] = "idle"] /\ DOMAIN pc = Writers
  BY DEF GatewayError, tables, TypeInv, TypeOK
<1>3. Len(queue[s]) \in Nat
  BY <1>1, QueueSound, LenProperties
<1> HIDE DEF s
<1>4. \A v \in Writers : pc'[v] = "positions" => pc[v] = "positions" /\ v # w
  BY <1>2
<1>5. \A i \in 1..Len(queue'[s]) : i + 0 \in 1..Len(queue[s]) /\ i + 0 = i
  BY <1>1, <1>3
<1> QED
  BY <1>1, <1>2, <1>3, <1>4, <1>5, OnceKept

(* The queue after a call has ended; no writer starts over by that.          *)
LEMMA ReplyShifts ==
    ASSUME TypeInv, NEW s \in Servers, NEW ok \in BOOLEAN, Busy(s), Reply(s, ok),
           NEW c, c = Serving(s)
    PROVE  /\ log' = log /\ stamp' = stamp /\ c = queue[s][1] /\ c \in Call
           /\ 1 \in 1..Len(queue[s]) /\ Len(queue'[s]) \in Nat
           /\ c.obs \in 1..Len(log) /\ c.obs \in Nat
           /\ \A i \in 1..Len(queue'[s]) :
                 i + 1 \in 1..Len(queue[s]) /\ queue'[s][i] = queue[s][i + 1]
           /\ \A w \in Writers : pc'[w] = "positions" => pc[w] = "positions"
           /\ \A w \in Writers : c.live /\ c.writer = w => pc'[w] # "positions"
<1>1. Len(queue[s]) \in Nat
  BY QueueSound, LenProperties
<1>2. /\ log' = log /\ stamp' = stamp /\ c = queue[s][1]
      /\ c \in Call /\ 1 \in 1..Len(queue[s]) /\ Len(queue'[s]) = Len(queue[s]) - 1
      /\ \A i \in 1..Len(queue'[s]) :
            i + 1 \in 1..Len(queue[s]) /\ queue'[s][i] = queue[s][i + 1]
      /\ \A v \in Writers : v # c.writer \/ ~c.live => pc'[v] = pc[v]
      /\ c.live => pc'[c.writer] = IF c.tool = "value" /\ ~ok THEN "idle" ELSE NextTool(c.tool)
  BY ReplyKeepsCalls
<1>3. c.tool \in Tools /\ c.writer \in Writers
  BY <1>2 DEF Call
<1>4. c.live => pc'[c.writer] # "positions"
  BY <1>2, <1>3 DEF NextTool, Tools
<1>5. c.obs \in 1..Len(log) /\ c.obs \in Nat
  BY ServingSound
<1> QED
  BY <1>1, <1>2, <1>3, <1>4, <1>5

(* Whatever the server does with its calls, positions are committed once.   *)
LEMMA ServerOnce ==
    ASSUME OneProcess, StoreInv, PositionsOnce,
           \A a \in Assets : OnlyLastActive(rows[a]), NEW s \in Servers, ServerStep(s)
    PROVE  PositionsOnce'
<1>1. TypeInv /\ Len(queue[s]) \in Nat
  BY QueueSound, LenProperties DEF StoreInv
<1>2. CASE Select(s)
  <2>1. /\ log' = log /\ pc' = pc /\ stamp' = stamp /\ rows' = rows
        /\ Len(queue'[s]) = Len(queue[s])
        /\ \A i \in 1..Len(queue[s]) :
              SameCall(queue[s][i], queue'[s][i]) /\ queue'[s][i].live = queue[s][i].live
    BY <1>1, <1>2, SelectKeepsCalls
  <2>2. \A i \in 1..Len(queue'[s]) : i + 0 \in 1..Len(queue[s]) /\ i + 0 = i
    BY <1>1, <2>1
  <2> QED
    BY <1>1, <2>1, <2>2, OnceKept
<1>3. ASSUME NEW ok \in BOOLEAN, Busy(s), Reply(s, ok), NEW c, c = Serving(s)
      PROVE  /\ log' = log /\ stamp' = stamp /\ c = queue[s][1] /\ c \in Call
             /\ 1 \in 1..Len(queue[s]) /\ Len(queue'[s]) \in Nat
             /\ c.obs \in 1..Len(log) /\ c.obs \in Nat
             /\ \A i \in 1..Len(queue'[s]) :
                   i + 1 \in 1..Len(queue[s]) /\ queue'[s][i] = queue[s][i + 1]
             /\ \A w \in Writers : pc'[w] = "positions" => pc[w] = "positions"
             /\ \A w \in Writers : c.live /\ c.writer = w => pc'[w] # "positions"
  BY <1>1, <1>3, ReplyShifts
<1>4. CASE CommitPositions(s)
  <2> DEFINE c == Serving(s)
  <2>1. Busy(s) /\ Reply(s, TRUE) /\ c.tool = "positions" /\ c.selected
    BY <1>4 DEF CommitPositions
  <2>2. PICK fetched \in Fetches :
          rows' = [a \in Assets |-> PositionsAfter(Serving(s), a, fetched[a])]
    BY <1>4 DEF CommitPositions
  <2>3. ASSUME NEW a \in Assets, NEW k \in 1..Len(rows'[a])
        PROVE  \/ rows'[a][k].last = c.obs
               \/ k \in 1..Len(rows[a]) /\ rows'[a][k].last = rows[a][k].last
    <3>1. fetched[a] \in SelectActive(rows[a]) /\ rows'[a] = PositionsAfter(c, a, fetched[a])
      BY <2>2 DEF Fetches
    <3>2. Grown(rows[a], rows'[a], c.obs)
      BY <2>1, <3>1, PositionsAfterGrown
    <3>3. rows[a] \in Seq(Row) /\ rows'[a] \in Seq(Row)
      BY <1>1, <2>1, <3>1, PositionsAfterType DEF TypeInv, TypeOK
    <3>4. c.obs \in Nat
      BY <1>3, <2>1
    <3> QED
      BY <3>2, <3>3, <3>4, GrownStamps
  <2>4. /\ log' = log /\ stamp' = stamp /\ c = queue[s][1]
        /\ 1 \in 1..Len(queue[s]) /\ Len(queue'[s]) \in Nat /\ c.obs \in 1..Len(log)
        /\ \A i \in 1..Len(queue'[s]) :
              i + 1 \in 1..Len(queue[s]) /\ queue'[s][i] = queue[s][i + 1]
        /\ \A w \in Writers : pc'[w] = "positions" => pc[w] = "positions"
        /\ \A w \in Writers : c.live /\ c.writer = w => pc'[w] # "positions"
    BY <1>3, <2>1
  <2> HIDE DEF c
  <2> QED
    BY SMTT(30), <1>1, <2>1, <2>3, <2>4, OnceCommitted
<1>5. CASE ServerStep(s) /\ ~Select(s) /\ ~CommitPositions(s)
  <2> DEFINE c == Serving(s)
  <2>1. PICK ok \in BOOLEAN : Busy(s) /\ Reply(s, ok) /\ rows' = rows
    BY <1>5 DEF ServerStep, CommitValue, CommitWeights, CommitEvents, ToolError, tables
  <2>2. /\ log' = log /\ stamp' = stamp /\ Len(queue'[s]) \in Nat
        /\ \A i \in 1..Len(queue'[s]) :
              i + 1 \in 1..Len(queue[s]) /\ queue'[s][i] = queue[s][i + 1]
        /\ \A w \in Writers : pc'[w] = "positions" => pc[w] = "positions"
    BY <1>3, <2>1
  <2>3. \A i \in 1..Len(queue'[s]) : SameCall(queue[s][i + 1], queue'[s][i])
    BY <2>2 DEF SameCall
  <2>4. \A i \in 1..Len(queue'[s]) : queue[s][i + 1].live => queue'[s][i].live
    BY <2>2
  <2> QED
    BY <1>1, <2>1, <2>2, <2>3, <2>4, OnceKept
<1> QED
  BY <1>2, <1>4, <1>5

(* No step commits the positions of an observation a second time.           *)
LEMMA NextOnce ==
    ASSUME OneProcess, StoreInv, PositionsOnce,
           \A a \in Assets : OnlyLastActive(rows[a]), [Next]_vars
    PROVE  PositionsOnce'
<1>1. TypeInv
  BY DEF StoreInv
<1>2. ASSUME NEW w \in Writers, WriterStep(w)
      PROVE  PositionsOnce'
  BY <1>1, <1>2, ObserveOnce, SendOnce, GiveUpOnce DEF WriterStep
<1>3. ASSUME NEW s \in Servers, ServerStep(s)
      PROVE  PositionsOnce'
  BY <1>3, ServerOnce
<1>4. CASE Restart
  <2>1. \A s \in Servers : queue'[s] = <<>> /\ Len(queue'[s]) = 0
    BY <1>4, EmptySeq DEF Restart
  <2>2. /\ rows' = rows /\ log' = log /\ \A w \in Writers : pc'[w] = "idle"
    BY <1>4 DEF Restart, tables
  <2>3. CallsFresh' /\ CallsDiffer' /\ SentByItsWriter'
    BY <2>1 DEF CallsFresh, CallsDiffer, SentByItsWriter
  <2>4. StampsKnown' /\ WritersFresh' /\ WritersDiffer'
    BY <2>2 DEF PositionsOnce, StampsKnown, WritersFresh, WritersDiffer
  <2> QED
    BY <2>3, <2>4 DEF PositionsOnce
<1>5. CASE UNCHANGED vars
  <2>1. rows' = rows /\ log' = log /\ pc' = pc /\ stamp' = stamp /\ queue' = queue
    BY <1>5 DEF vars, tables
  <2>2. CallsFresh' /\ CallsDiffer' /\ SentByItsWriter'
    BY <2>1 DEF PositionsOnce, CallsFresh, CallsDiffer, SentByItsWriter, Unstamped
  <2>3. StampsKnown' /\ WritersFresh' /\ WritersDiffer'
    BY <2>1 DEF PositionsOnce, StampsKnown, WritersFresh, WritersDiffer, Unstamped
  <2> QED
    BY <2>2, <2>3 DEF PositionsOnce
<1> QED
  BY <1>2, <1>3, <1>4, <1>5 DEF Next

(* The table after the transaction of upsert_position_states, per asset.    *)
LEMMA CommitGrows ==
    ASSUME StoreInv, NEW s \in Servers, CommitPositions(s),
           \A a \in Assets : OnlyLastActive(rows[a]), NEW c, c = Serving(s)
    PROVE  /\ c.obs \in 1..Len(log) /\ c.obs \in Nat /\ c.tool = "positions"
           /\ c = queue[s][1] /\ 1 \in 1..Len(queue[s])
           /\ lastPositions' = c.obs /\ log' = log
           /\ \A a \in Assets :
                 /\ rows[a] \in Seq(Row) /\ rows'[a] \in Seq(Row)
                 /\ Grown(rows[a], rows'[a], c.obs)
                 /\ IF log[c.obs][a] = NotHeld THEN ActiveOf(rows'[a]) = {}
                                               ELSE Reports(rows'[a], log[c.obs][a])
<1>1. /\ TypeInv /\ Busy(s) /\ c.tool = "positions" /\ c.selected /\ lastPositions' = c.obs
      /\ log' = log
  BY DEF CommitPositions, StoreInv, Reply
<1>2. c = queue[s][1] /\ 1 \in 1..Len(queue[s])
  BY <1>1, QueueSound, ServingResult
<1>3. c.obs \in 1..Len(log) /\ c.obs \in Nat
  BY <1>1, ServingSound
<1>4. PICK fetched \in Fetches :
        rows' = [a \in Assets |-> PositionsAfter(Serving(s), a, fetched[a])]
  BY DEF CommitPositions
<1>5. ASSUME NEW a \in Assets
      PROVE  /\ rows[a] \in Seq(Row) /\ rows'[a] \in Seq(Row)
             /\ Grown(rows[a], rows'[a], c.obs)
             /\ IF log[c.obs][a] = NotHeld THEN ActiveOf(rows'[a]) = {}
                                           ELSE Reports(rows'[a], log[c.obs][a])
  <2>1. fetched[a] \in SelectActive(rows[a]) /\ rows'[a] = PositionsAfter(c, a, fetched[a])
    BY <1>4 DEF Fetches
  <2>2. rows[a] \in Seq(Row) /\ rows'[a] \in Seq(Row)
    BY <1>1, <2>1, PositionsAfterType DEF TypeInv, TypeOK
  <2>3. /\ Grown(rows[a], rows'[a], c.obs)
        /\ IF log[c.obs][a] = NotHeld THEN ActiveOf(rows'[a]) = {}
                                      ELSE Reports(rows'[a], log[c.obs][a])
    BY <1>1, <2>1, PositionsAfterGrown
  <2> QED
    BY <2>2, <2>3
<1> QED
  BY <1>1, <1>2, <1>3, <1>5

ChangeInv == /\ StoreInv /\ PositionsOnce
             /\ InsertOnlyOnChange /\ ActiveRowsMatchSnapshot

(* Under InsertOnlyOnChange an asset's newest row alone may be active.      *)
LEMMA ChangeOnlyLast ==
    ASSUME TypeInv, InsertOnlyOnChange
    PROVE  \A a \in Assets : InsertedOnChange(rows[a]) /\ OnlyLastActive(rows[a])
<1>1. \A a \in Assets : InsertedOnChange(rows[a])
  BY DEF InsertOnlyOnChange, InsertedOnChange
<1>2. \A a \in Assets : rows[a] \in Seq(Row)
  BY DEF TypeInv, TypeOK
<1> QED
  BY <1>1, <1>2, InsertedOnlyLast

(* With one server process every step preserves the change invariant.       *)
LEMMA NextChangeInv ==
    ASSUME OneProcess, ChangeInv, [Next]_vars
    PROVE  ChangeInv'
<1>1. StoreInv' /\ TypeInv
  BY NextStoreInv DEF ChangeInv, StoreInv
<1>2. \A a \in Assets : InsertedOnChange(rows[a]) /\ OnlyLastActive(rows[a])
  BY <1>1, ChangeOnlyLast DEF ChangeInv
<1>3. PositionsOnce'
  BY <1>2, NextOnce DEF ChangeInv
<1>4. ASSUME NEW s \in Servers, CommitPositions(s)
      PROVE  InsertOnlyOnChange' /\ ActiveRowsMatchSnapshot'
  <2> DEFINE c == Serving(s)
  <2>1. /\ c.obs \in 1..Len(log) /\ c.obs \in Nat /\ c.tool = "positions"
        /\ c = queue[s][1] /\ 1 \in 1..Len(queue[s])
        /\ lastPositions' = c.obs /\ log' = log
        /\ \A a \in Assets :
              /\ rows[a] \in Seq(Row) /\ rows'[a] \in Seq(Row)
              /\ Grown(rows[a], rows'[a], c.obs)
              /\ IF log[c.obs][a] = NotHeld THEN ActiveOf(rows'[a]) = {}
                                            ELSE Reports(rows'[a], log[c.obs][a])
    BY <1>2, <1>4, CommitGrows DEF ChangeInv
  <2> HIDE DEF c
  <2>2. Unstamped(c.obs)
    BY <2>1 DEF ChangeInv, PositionsOnce, CallsFresh
  <2>3. \A a \in Assets : InsertedOnChange(rows'[a])
    BY <1>2, <2>1, <2>2, GrownInserts DEF Unstamped
  <2>4. InsertOnlyOnChange'
    BY <2>3 DEF InsertOnlyOnChange, InsertedOnChange
  <2>5. ActiveRowsMatchSnapshot'
    BY <2>1 DEF ActiveRowsMatchSnapshot, Reports, ActiveOf, SamePosition, EffectiveCost
  <2> QED
    BY <2>4, <2>5
<1>5. CASE ~\E s \in Servers : CommitPositions(s)
  <2>1. rows' = rows /\ lastPositions' = lastPositions
    BY <1>5, OnlyPositionsChangeRows
       DEF Next, WriterStep, ServerStep, Observe, Send, GatewayError, Select,
           SelectPositions, SelectValue, CommitValue, CommitWeights, CommitEvents,
           ToolError, Restart, vars, tables
  <2>2. InsertOnlyOnChange'
    BY <2>1 DEF ChangeInv, InsertOnlyOnChange
  <2>3. lastPositions # None => log'[lastPositions] = log[lastPositions]
    <3>1. lastPositions \in 0..Len(log) /\ log \in Seq(Snapshots) /\ Len(log) \in Nat
      BY <1>1, LenProperties DEF TypeInv, TypeOK
    <3>2. CASE \E w \in Writers : Observe(w)
      <4>1. PICK content \in Snapshots : log' = Append(log, content)
        BY <3>2 DEF Observe
      <4> QED
        BY <3>1, <4>1, AppendProperties DEF None
    <3>3. CASE ~\E w \in Writers : Observe(w)
      BY <3>3 DEF Next, WriterStep, ServerStep, Send, GatewayError, Select,
           SelectPositions, SelectValue, CommitPositions, CommitValue, CommitWeights,
           CommitEvents, Reply, ToolError, Restart, vars, writerVars
    <3> QED
      BY <3>2, <3>3
  <2>4. ActiveRowsMatchSnapshot'
    <3> SUFFICES ASSUME lastPositions # None, NEW a \in Assets
                 PROVE  IF log'[lastPositions][a] = NotHeld THEN ActiveOf(rows'[a]) = {}
                        ELSE \E i \in ActiveOf(rows'[a]) :
                                SamePosition(rows'[a][i], log'[lastPositions][a])
      BY <2>1 DEF ActiveRowsMatchSnapshot, ActiveOf, SamePosition, EffectiveCost
    <3>1. IF log[lastPositions][a] = NotHeld THEN ActiveOf(rows[a]) = {}
          ELSE \E i \in ActiveOf(rows[a]) : SamePosition(rows[a][i], log[lastPositions][a])
      BY DEF ChangeInv, ActiveRowsMatchSnapshot
    <3> QED
      BY <2>1, <2>3, <3>1
  <2> QED
    BY <1>1, <1>3, <2>2, <2>4 DEF ChangeInv
<1> QED
  BY <1>1, <1>3, <1>4, <1>5 DEF ChangeInv

LEMMA InitChangeInv ==
    ASSUME Init
    PROVE  ChangeInv
<1>1. StoreInv
  BY InitStoreInv
<1>2. /\ \A s \in Servers : Len(queue[s]) = 0 /\ queue[s] = <<>>
      /\ \A a \in Assets : Len(rows[a]) = 0 /\ rows[a] = <<>>
      /\ \A w \in Writers : pc[w] # "positions"
      /\ lastPositions = None
  BY EmptySeq DEF Init
<1>3. PositionsOnce
  BY <1>2 DEF PositionsOnce, StampsKnown, CallsFresh, CallsDiffer, WritersFresh,
              WritersDiffer, SentByItsWriter
<1>4. InsertOnlyOnChange /\ ActiveRowsMatchSnapshot
  BY <1>2 DEF InsertOnlyOnChange, ActiveRowsMatchSnapshot
<1> QED
  BY <1>1, <1>3, <1>4 DEF ChangeInv

(* With one SQL server process, the active rows are at every moment the     *)
(* holdings of the snapshot whose positions were committed last, whatever   *)
(* was refused, timed out or ran in between (upsert_position_states).       *)
THEOREM ActiveRowsMatchSnapshotHolds ==
    ASSUME OneProcess
    PROVE  Spec => []ActiveRowsMatchSnapshot
<1>1. Init => ChangeInv
  BY InitChangeInv
<1>2. ChangeInv /\ [Next]_vars => ChangeInv'
  BY NextChangeInv
<1>3. ChangeInv => ActiveRowsMatchSnapshot
  BY DEF ChangeInv
<1> QED
  BY <1>1, <1>2, <1>3, PTL DEF Spec

(* With one SQL server process, a position row is inserted only behind a     *)
(* closed one that differs from it, unless the position was away in between *)
(* (upsert_position_states), even when calls that were given up are executed *)
(* late and out of the order of their snapshots.                            *)
THEOREM InsertOnlyOnChangeHolds ==
    ASSUME OneProcess
    PROVE  Spec => []InsertOnlyOnChange
<1>1. Init => ChangeInv
  BY InitChangeInv
<1>2. ChangeInv /\ [Next]_vars => ChangeInv'
  BY NextChangeInv
<1>3. ChangeInv => InsertOnlyOnChange
  BY DEF ChangeInv
<1> QED
  BY <1>1, <1>2, <1>3, PTL DEF Spec

-----------------------------------------------------------------------------
(* One writer.                                                              *)

OneWriter == \A v, w \in Writers : v = w

(* Nothing stored is newer than x. *)
StoredBy(x) ==
    /\ \A d \in Days : value[d] <= x
    /\ \A a \in Assets : \A k \in 1..Len(rows[a]) : rows[a][k].last <= x
    /\ lastPositions <= x

(* No value row is as new as x. *)
ValueBefore(x) == \A d \in Days : value[d] < x

(* What a writer sent is executed in the order of its observations; only the *)
(* last call is waited for, and the tools behind the positions are called   *)
(* when nothing else is left.                                               *)
CallInOrder(w, c) ==
    /\ c.obs <= stamp[w] /\ StoredBy(c.obs)
    /\ c.tool = "positions" => ValueBefore(c.obs)
    /\ c.live => c.tool = pc[w] /\ c.obs = stamp[w]
    /\ ~c.live => /\ pc[w] \in {"idle", "positions"}
                  /\ pc[w] = "positions" => c.obs < stamp[w]

QueueInOrder(s) ==
    \A i, j \in 1..Len(queue[s]) : i < j =>
        /\ ~queue[s][i].live
        /\ queue[s][i].obs <= queue[s][j].obs
        /\ queue[s][j].tool = "positions" => queue[s][i].obs < queue[s][j].obs

InOrder ==
    /\ \A w \in Writers :
          /\ StoredBy(stamp[w])
          /\ pc[w] = "positions" => ValueBefore(stamp[w])
          /\ \A s \in Servers : \A i \in 1..Len(queue[s]) : CallInOrder(w, queue[s][i])
    /\ \A s \in Servers : QueueInOrder(s)

(* What a writer whose calls all succeeded so far has stored. *)
Recorded(w) ==
    LET t == stamp[w]
        d == Day(stamp[w])
    IN  /\ outcome[w] = "storing" => pc[w] # "idle"
        /\ outcome[w] = "storing" /\ pc[w] \in {"weights", "events"} => value[d] = t
        /\ outcome[w] = "storing" /\ pc[w] = "events" => weights[d] = t
        /\ outcome[w] = "stored" =>
              pc[w] = "idle" /\ value[d] = t /\ weights[d] = t /\ events[d] = t

StoredSoFar ==
    \A w \in Writers : /\ Recorded(w)
                       /\ outcome[w] = "stored" => \A s \in Servers : queue[s] = <<>>

(* The step stores nothing but what observation y brought.                   *)
StoresOnly(y) ==
    /\ \A d \in Days : value'[d] = value[d] \/ value'[d] = y
    /\ \A a \in Assets : \A k \in 1..Len(rows'[a]) :
          \/ rows'[a][k].last = y
          \/ k \in 1..Len(rows[a]) /\ rows'[a][k].last = rows[a][k].last
    /\ lastPositions' = lastPositions \/ lastPositions' = y

(* The numbers of the state. *)
LEMMA Numbers ==
    ASSUME TypeInv
    PROVE  /\ Len(log) \in Nat /\ Len(log) <= MaxObs
           /\ \A w \in Writers : stamp[w] \in Nat /\ stamp[w] <= Len(log)
           /\ \A d \in Days : value[d] \in Nat /\ value[d] <= Len(log)
           /\ \A a \in Assets : \A k \in 1..Len(rows[a]) : rows[a][k].last \in Nat
           /\ lastPositions \in Nat /\ lastPositions <= Len(log)
           /\ \A s \in Servers : Len(queue[s]) \in Nat
           /\ \A s \in Servers : \A i \in 1..Len(queue[s]) :
                 /\ queue[s][i].obs \in Nat /\ queue[s][i].obs <= Len(log)
                 /\ queue[s][i].writer \in Writers /\ queue[s][i].tool \in Tools
                 /\ queue[s][i].live \in BOOLEAN
<1>1. /\ Len(log) \in Nat /\ Len(log) <= MaxObs
      /\ \A w \in Writers : stamp[w] \in Nat /\ stamp[w] <= Len(log)
      /\ \A d \in Days : value[d] \in Nat /\ value[d] <= Len(log)
      /\ lastPositions \in Nat /\ lastPositions <= Len(log)
  BY LenProperties DEF TypeInv, TypeOK
<1>2. ASSUME NEW a \in Assets, NEW k \in 1..Len(rows[a])
      PROVE  rows[a][k].last \in Nat
  <2>1. rows[a] \in Seq(Row)
    BY DEF TypeInv, TypeOK
  <2>2. rows[a][k] \in Row
    BY <2>1
  <2> QED
    BY <2>2 DEF Row
<1>3. ASSUME NEW s \in Servers
      PROVE  Len(queue[s]) \in Nat
  BY QueueSound, LenProperties
<1>4. ASSUME NEW s \in Servers, NEW i \in 1..Len(queue[s])
      PROVE  /\ queue[s][i].obs \in Nat /\ queue[s][i].obs <= Len(log)
             /\ queue[s][i].writer \in Writers /\ queue[s][i].tool \in Tools
             /\ queue[s][i].live \in BOOLEAN
  <2>1. queue[s][i] \in Call /\ queue[s][i].obs <= Len(log)
    BY QueueSound
  <2> QED
    BY <2>1, HistoryAssumption DEF Call, Observations
<1> QED
  BY <1>1, <1>2, <1>3, <1>4

(* Storing an observation that is no newer keeps the bound. *)
LEMMA StoredAgain ==
    ASSUME TypeInv, NEW x \in Nat, NEW y \in Nat, y <= x, StoredBy(x), StoresOnly(y)
    PROVE  StoredBy(x)'
  BY Numbers DEF StoredBy, StoresOnly

LEMMA ValueBeforeAgain ==
    ASSUME TypeInv, NEW x \in Nat, NEW y \in Nat, y < x, ValueBefore(x), StoresOnly(y)
    PROVE  ValueBefore(x)'
  BY Numbers DEF ValueBefore, StoresOnly

(* An observation of which nothing has been stored yet stores everything. *)
LEMMA StoredEarlier ==
    ASSUME TypeInv, StampsKnown
    PROVE  StoredBy(Len(log)) /\ StoredBy(Len(log) + 1) /\ ValueBefore(Len(log) + 1)
  BY Numbers DEF StoredBy, ValueBefore, StampsKnown

(* A call that ends keeps the order, when it stores at most its own         *)
(* observation and its writer does not go back to the positions.            *)
LEMMA ReplyInOrder ==
    ASSUME OneProcess, OneWriter, TypeInv, InOrder, NEW s \in Servers, NEW c, StoresOnly(c.obs),
           c.tool = "positions" => value' = value,
           stamp' = stamp, c = queue[s][1], 1 \in 1..Len(queue[s]),
           Len(queue'[s]) = Len(queue[s]) - 1,
           \A i \in 1..Len(queue'[s]) :
              i + 1 \in 1..Len(queue[s]) /\ queue'[s][i] = queue[s][i + 1],
           ~c.live => pc' = pc, c.live => pc'[c.writer] # "positions"
    PROVE  InOrder'
<1>1. \A r \in Servers : r = s
  BY DEF OneProcess
<1>2. /\ c.obs \in Nat /\ c.writer \in Writers /\ c.live \in BOOLEAN /\ Len(queue[s]) \in Nat
      /\ \A i \in 1..Len(queue[s]) : queue[s][i].obs \in Nat
      /\ \A v \in Writers : stamp[v] \in Nat
  BY Numbers
<1>3. \A v \in Writers : v = c.writer
  BY <1>2 DEF OneWriter
<1> DEFINE n == Len(queue[s])
           m == Len(queue'[s])
<1>4. /\ n \in Nat /\ 1 \in 1..n /\ m = n - 1
      /\ \A i \in 1..m : i + 1 \in 1..n /\ queue'[s][i] = queue[s][i + 1]
      /\ QueueInOrder(s)
  BY <1>2 DEF InOrder
<1>9. c.live => n = 1
  <2> SUFFICES ASSUME n # 1
               PROVE  ~c.live
    OBVIOUS
  <2> HIDE DEF n
  <2>1. n \in 1..n /\ 1 < n
    BY ONLY <1>4, n # 1
  <2> QED
    BY <1>4, <2>1 DEF QueueInOrder, n
<1>5. QueueInOrder(s)'
  <2> SUFFICES ASSUME NEW i \in 1..Len(queue'[s]), NEW j \in 1..Len(queue'[s]), i < j
               PROVE  /\ ~queue'[s][i].live
                      /\ queue'[s][i].obs <= queue'[s][j].obs
                      /\ queue'[s][j].tool = "positions" => queue'[s][i].obs < queue'[s][j].obs
    BY DEF QueueInOrder
  <2>1. PICK p \in 1..Len(queue[s]), q \in 1..Len(queue[s]) :
           p < q /\ queue'[s][i] = queue[s][p] /\ queue'[s][j] = queue[s][q]
    <3>1. i + 1 \in 1..n /\ j + 1 \in 1..n /\ i + 1 < j + 1
          /\ queue'[s][i] = queue[s][i + 1] /\ queue'[s][j] = queue[s][j + 1]
      <4>1. i \in 1..m /\ j \in 1..m /\ i < j
        OBVIOUS
      <4> HIDE DEF n, m
      <4> QED
        BY ONLY SMTT(30), <1>4, <4>1
    <3> QED
      BY <3>1
  <2> QED
    BY <1>4, <2>1 DEF QueueInOrder
<1>6. ASSUME NEW v \in Writers
      PROVE  StoredBy(stamp[v])' /\ (pc'[v] = "positions" => ValueBefore(stamp[v])')
  <2>1. CallInOrder(v, c) /\ StoredBy(stamp[v])
    BY DEF InOrder
  <2>2. c.obs <= stamp[v]
    BY <2>1 DEF CallInOrder
  <2>3. StoredBy(stamp[v])'
    <3>1. PICK x \in Nat : x = stamp[v] /\ c.obs <= x /\ StoredBy(x)
      BY <1>2, <2>1, <2>2
    <3>2. StoredBy(x)'
      BY <1>2, <3>1, StoredAgain
    <3> QED
      BY <3>1, <3>2 DEF StoredBy
  <2>4. ASSUME pc'[v] = "positions"
        PROVE  ValueBefore(stamp[v])'
    <3>1. ~c.live /\ pc[v] = "positions"
      BY <1>3, <2>4
    <3>2. PICK x \in Nat : x = stamp[v] /\ c.obs < x /\ ValueBefore(x)
      BY <1>2, <2>1, <3>1 DEF CallInOrder, InOrder
    <3>3. ValueBefore(x)'
      BY <1>2, <3>2, ValueBeforeAgain
    <3> QED
      BY <3>2, <3>3 DEF ValueBefore
  <2> QED
    BY <2>3, <2>4
<1>7. ASSUME NEW v \in Writers, NEW i \in 1..Len(queue'[s])
      PROVE  CallInOrder(v, queue[s][i])'
  <2>1. PICK p \in 1..n : p = i + 1 /\ 1 < p /\ queue'[s][i] = queue[s][p]
    BY <1>4
  <2>2. ~c.live /\ pc' = pc
    BY <1>2, <1>4, <1>9, <2>1
  <2>3. PICK d : d = queue[s][p]
    OBVIOUS
  <2>4. CallInOrder(v, d) /\ d.obs \in Nat /\ c.obs <= d.obs
        /\ (d.tool = "positions" => c.obs < d.obs)
    BY <1>2, <1>4, <2>1, <2>3 DEF InOrder, QueueInOrder
  <2>5. StoredBy(d.obs)'
    BY <1>2, <2>4, StoredAgain DEF CallInOrder
  <2>6. d.tool = "positions" => ValueBefore(d.obs)'
    BY <1>2, <2>4, ValueBeforeAgain DEF CallInOrder
  <2>7. queue'[s][i] = d
    BY <2>1, <2>3
  <2> QED
    BY <2>2, <2>4, <2>5, <2>6, <2>7 DEF CallInOrder, StoredBy, ValueBefore
<1> QED
  BY <1>1, <1>5, <1>6, <1>7 DEF InOrder

(* What a step of the server stores is of its call's observation.           *)
LEMMA ServerStores ==
    ASSUME StoreInv, NEW s \in Servers, ServerStep(s), ~Select(s),
           \A a \in Assets : OnlyLastActive(rows[a]), NEW c, c = Serving(s)
    PROVE  /\ StoresOnly(c.obs) /\ (c.tool = "positions" => value' = value)
           /\ Busy(s) /\ \E ok \in BOOLEAN : Reply(s, ok)
<1>1. Busy(s) /\ \E ok \in BOOLEAN : Reply(s, ok)
  BY DEF ServerStep, CommitPositions, CommitValue, CommitWeights, CommitEvents, ToolError
<1>2. DOMAIN value = Days
  BY DEF StoreInv, TypeInv, TypeOK
<1>3. CASE CommitPositions(s)
  <2>1. value' = value
    BY <1>3 DEF CommitPositions
  <2>2. /\ c.obs \in Nat /\ lastPositions' = c.obs
        /\ \A a \in Assets : /\ rows[a] \in Seq(Row) /\ rows'[a] \in Seq(Row)
                             /\ Grown(rows[a], rows'[a], c.obs)
    BY <1>3, CommitGrows
  <2>3. ASSUME NEW a \in Assets, NEW k \in 1..Len(rows'[a])
        PROVE  \/ rows'[a][k].last = c.obs
               \/ k \in 1..Len(rows[a]) /\ rows'[a][k].last = rows[a][k].last
    BY <2>2, GrownStamps
  <2> QED
    BY <1>1, <2>1, <2>2, <2>3 DEF StoresOnly
<1>4. CASE CommitValue(s)
  <2>1. /\ value' = [value EXCEPT ![Day(c.obs)] = c.obs] /\ c.tool = "value"
        /\ rows' = rows /\ lastPositions' = lastPositions
    BY <1>4 DEF CommitValue
  <2> QED
    BY <1>1, <1>2, <2>1 DEF StoresOnly
<1>5. CASE CommitWeights(s) \/ CommitEvents(s) \/ ToolError(s)
  <2>1. value' = value /\ rows' = rows /\ lastPositions' = lastPositions
    BY <1>5 DEF CommitWeights, CommitEvents, ToolError, tables
  <2> QED
    BY <1>1, <2>1 DEF StoresOnly
<1> QED
  BY <1>3, <1>4, <1>5 DEF ServerStep

(* A call that ends, as seen by a writer that is alone. *)
LEMMA ServerInOrder ==
    ASSUME OneProcess, OneWriter, StoreInv, InOrder, NEW s \in Servers, ServerStep(s),
           \A a \in Assets : OnlyLastActive(rows[a])
    PROVE  InOrder'
<1>1. TypeInv /\ \A r \in Servers : r = s
  BY DEF StoreInv, OneProcess
<1>2. CASE Select(s)
  <2>1. /\ log' = log /\ pc' = pc /\ stamp' = stamp /\ rows' = rows /\ value' = value
        /\ lastPositions' = lastPositions
        /\ Len(queue'[s]) = Len(queue[s])
        /\ \A i \in 1..Len(queue[s]) :
              SameCall(queue[s][i], queue'[s][i]) /\ queue'[s][i].live = queue[s][i].live
    BY <1>1, <1>2, SelectKeepsCalls
  <2>2. QueueInOrder(s)'
    BY <2>1 DEF InOrder, QueueInOrder, SameCall
  <2>3. \A v \in Writers : \A i \in 1..Len(queue[s]) : CallInOrder(v, queue[s][i])'
    BY <2>1 DEF InOrder, CallInOrder, SameCall, StoredBy, ValueBefore
  <2> QED
    BY <1>1, <2>1, <2>2, <2>3 DEF InOrder, StoredBy, ValueBefore
<1>3. CASE ~Select(s)
  <2>1. PICK c : c = Serving(s)
    OBVIOUS
  <2>2. PICK ok \in BOOLEAN : /\ StoresOnly(c.obs) /\ (c.tool = "positions" => value' = value)
                              /\ Busy(s) /\ Reply(s, ok)
    BY <1>3, <2>1, ServerStores
  <2>3. /\ stamp' = stamp /\ c = queue[s][1] /\ c \in Call
        /\ 1 \in 1..Len(queue[s]) /\ Len(queue'[s]) = Len(queue[s]) - 1
        /\ \A i \in 1..Len(queue'[s]) :
              i + 1 \in 1..Len(queue[s]) /\ queue'[s][i] = queue[s][i + 1]
        /\ c.live => pc'[c.writer] = IF c.tool = "value" /\ ~ok THEN "idle" ELSE NextTool(c.tool)
    BY <1>1, <2>1, <2>2, ReplyKeepsCalls
  <2>4. ~c.live => pc' = pc
    BY <2>1, <2>2 DEF Reply
  <2>5. c.live => pc'[c.writer] # "positions"
    BY <2>3 DEF NextTool, Tools, Call
  <2> QED
    BY <1>1, <2>2, <2>3, <2>4, <2>5, ReplyInOrder
<1> QED
  BY <1>2, <1>3

(* So do the steps of a writer that is alone. *)
LEMMA WriterInOrder ==
    ASSUME OneProcess, OneWriter, TypeInv, StampsKnown, InOrder,
           NEW w \in Writers, WriterStep(w)
    PROVE  InOrder'
<1> DEFINE s == ServerOf[w]
<1>1. s \in Servers /\ (\A r \in Servers : r = s) /\ (\A v \in Writers : v = w)
  BY HistoryAssumption DEF OneProcess, OneWriter
<1>2. /\ DOMAIN pc = Writers /\ DOMAIN stamp = Writers /\ Len(queue[s]) \in Nat
      /\ Len(log) \in Nat
      /\ \A i \in 1..Len(queue[s]) :
            /\ queue[s][i].obs \in Nat /\ queue[s][i].obs <= Len(log)
            /\ queue[s][i].writer \in Writers /\ queue[s][i].tool \in Tools
            /\ queue[s][i].live \in BOOLEAN
  BY <1>1, Numbers DEF TypeInv, TypeOK
<1>3. /\ rows' = rows /\ value' = value /\ lastPositions' = lastPositions
  BY DEF WriterStep, Observe, Send, GatewayError, tables
<1>4. CASE Observe(w)
  <2>1. /\ queue' = queue /\ pc[w] = "idle" /\ pc'[w] = "positions" /\ stamp'[w] = Len(log) + 1
    BY <1>2, <1>4 DEF Observe
  <2>2. PICK x : x = Len(log) + 1
    OBVIOUS
  <2>3. StoredBy(x) /\ ValueBefore(x)
    BY <2>2, StoredEarlier
  <2>4. \A i \in 1..Len(queue[s]) : ~queue[s][i].live
    BY <1>1, <1>2, <2>1 DEF InOrder, CallInOrder, Tools
  <2>5. \A i \in 1..Len(queue[s]) : CallInOrder(w, queue[s][i])'
    <3> SUFFICES ASSUME NEW i \in 1..Len(queue[s])
                 PROVE  CallInOrder(w, queue[s][i])'
      OBVIOUS
    <3>1. PICK c : c = queue[s][i]
      OBVIOUS
    <3>2. /\ CallInOrder(w, c) /\ ~c.live /\ c.obs < stamp'[w] /\ c.obs <= stamp'[w]
          /\ c = queue'[s][i]
      BY <1>1, <1>2, <2>1, <2>4, <3>1 DEF InOrder
    <3> QED
      BY <1>3, <2>1, <3>2 DEF CallInOrder, StoredBy, ValueBefore
  <2>6. StoredBy(stamp[w])' /\ ValueBefore(stamp[w])'
    BY <1>3, <2>1, <2>2, <2>3 DEF StoredBy, ValueBefore
  <2>7. QueueInOrder(s)'
    BY <1>1, <2>1 DEF InOrder, QueueInOrder
  <2> HIDE DEF s
  <2> QED
    BY <1>1, <2>1, <2>5, <2>6, <2>7 DEF InOrder
<1>5. CASE Send(w)
  <2> DEFINE n == Len(queue[s])
  <2>1. /\ log' = log /\ pc' = pc /\ stamp' = stamp
        /\ n \in Nat /\ Len(queue'[s]) = n + 1
        /\ \A i \in 1..n : queue'[s][i] = queue[s][i] /\ ~queue[s][i].live
        /\ queue'[s][n + 1].tool = pc[w] /\ queue'[s][n + 1].obs = stamp[w]
        /\ queue'[s][n + 1].live
    BY <1>5, SendKeepsCalls
  <2>2. /\ pc[w] \in Tools /\ StoredBy(stamp[w]) /\ QueueInOrder(s)
        /\ pc[w] = "positions" => ValueBefore(stamp[w])
        /\ \A i \in 1..n : CallInOrder(w, queue[s][i])
    BY <1>1, <1>5 DEF InOrder, Send
  <2>3. \A i \in 1..n : /\ pc[w] = "positions" /\ queue[s][i].obs < stamp[w]
                        /\ queue[s][i].obs <= stamp[w]
    BY <2>1, <2>2 DEF CallInOrder, Tools
  <2>4. \A i \in 1..(n + 1) : i = n + 1 \/ i \in 1..n
    BY <2>1
  <2> HIDE DEF n, s
  <2>5. \A i \in 1..(n + 1) : CallInOrder(w, queue[s][i])'
    <3> SUFFICES ASSUME NEW i \in 1..(n + 1)
                 PROVE  CallInOrder(w, queue[s][i])'
      OBVIOUS
    <3>1. CASE i \in 1..n
      BY <1>3, <2>1, <2>2, <3>1 DEF CallInOrder, StoredBy, ValueBefore
    <3>2. CASE i = n + 1
      <4>1. stamp[w] <= stamp[w]
        BY Numbers
      <4> QED
        BY <1>3, <2>1, <2>2, <3>2, <4>1 DEF CallInOrder, StoredBy, ValueBefore
    <3> QED
      BY <2>4, <3>1, <3>2
  <2>6. QueueInOrder(s)'
    <3> SUFFICES ASSUME NEW i \in 1..(n + 1), NEW j \in 1..(n + 1), i < j
                 PROVE  /\ ~queue'[s][i].live
                        /\ queue'[s][i].obs <= queue'[s][j].obs
                        /\ queue'[s][j].tool = "positions" => queue'[s][i].obs < queue'[s][j].obs
      BY <2>1 DEF QueueInOrder
    <3>1. i \in 1..n
      BY ONLY <2>1, i \in 1..(n + 1), j \in 1..(n + 1), i < j
    <3>2. CASE j \in 1..n
      BY <2>1, <2>2, <3>1, <3>2 DEF QueueInOrder, n
    <3>3. CASE j = n + 1
      BY <2>1, <2>3, <3>1, <3>3
    <3> QED
      BY <2>4, <3>2, <3>3
  <2> QED
    BY <1>1, <1>3, <2>1, <2>2, <2>5, <2>6 DEF InOrder, StoredBy, ValueBefore
<1>6. CASE GatewayError(w)
  <2>1. /\ Len(queue'[s]) = Len(queue[s])
        /\ \A i \in 1..Len(queue[s]) :
              /\ SameCall(queue[s][i], queue'[s][i])
              /\ queue'[s][i].live = (queue[s][i].live /\ queue[s][i].writer # w)
    BY <1>6, GiveUpKeepsCalls
  <2>2. pc'[w] = "idle" /\ stamp' = stamp
    BY <1>2, <1>6 DEF GatewayError
  <2>3. \A i \in 1..Len(queue[s]) :
           /\ queue'[s][i].tool = queue[s][i].tool /\ queue'[s][i].obs = queue[s][i].obs
           /\ ~queue'[s][i].live
    BY <1>1, <1>2, <2>1 DEF SameCall
  <2> HIDE DEF s
  <2>4. QueueInOrder(s)'
    BY <1>1, <2>1, <2>3 DEF InOrder, QueueInOrder
  <2>5. \A i \in 1..Len(queue[s]) : CallInOrder(w, queue[s][i])'
    BY <1>1, <1>3, <2>1, <2>2, <2>3 DEF InOrder, CallInOrder, StoredBy, ValueBefore
  <2> QED
    BY <1>1, <1>3, <2>1, <2>2, <2>4, <2>5 DEF InOrder, StoredBy, ValueBefore
<1> QED
  BY <1>4, <1>5, <1>6 DEF WriterStep

(* Every day has its place in the daily tables. *)
LEMMA DayInDays ==
    ASSUME NEW t \in Nat, t <= MaxObs
    PROVE  Day(t) \in Days
<1>1. ObsPerDay \in Nat /\ ObsPerDay > 0 /\ MaxObs \in Nat
  BY HistoryAssumption
<1>2. ASSUME NEW k \in Nat, k > 0, NEW m \in Nat, t <= m
      PROVE  t \div k \in Nat /\ t \div k <= m \div k /\ m \div k \in Nat
  BY <1>2, SMTT(60)
<1> QED
  BY <1>1, <1>2 DEF Day, Days

(* A writer that is alone has in the daily tables what it has stored so far. *)
LEMMA ServerStoredSoFar ==
    ASSUME OneProcess, OneWriter, TypeInv, InOrder, StoredSoFar, NEW s \in Servers, ServerStep(s)
    PROVE  StoredSoFar'
<1>1. \A r \in Servers : r = s
  BY DEF OneProcess
<1>2. CASE Select(s)
  <2>1. /\ pc' = pc /\ stamp' = stamp /\ value' = value /\ weights' = weights /\ events' = events
        /\ outcome' = outcome /\ Len(queue'[s]) = Len(queue[s])
    BY <1>2, SelectKeepsCalls
  <2>2. queue[s] # <<>>
    BY <1>2 DEF Select, SelectPositions, SelectValue, Busy
  <2> QED
    BY <2>1, <2>2 DEF StoredSoFar, Recorded
<1>3. CASE ~Select(s)
  <2>1. Busy(s) /\ \E ok \in BOOLEAN : Reply(s, ok)
    BY <1>3 DEF ServerStep, CommitPositions, CommitValue, CommitWeights, CommitEvents, ToolError
  <2>2. PICK c : c = Serving(s)
    OBVIOUS
  <2>3. c = queue[s][1] /\ 1 \in 1..Len(queue[s]) /\ c \in Call
    BY <2>1, <2>2, QueueSound, ServingResult
  <2>4. PICK w \in Writers : w = c.writer
    BY <2>3 DEF Call
  <2>5. \A v \in Writers : v = w
    BY DEF OneWriter
  <2>6. c.live \in BOOLEAN /\ c.tool \in Tools
    BY <2>3 DEF Call
  <2>7. CallInOrder(w, c)
    BY <2>3 DEF InOrder
  <2>8. outcome[w] # "stored"
    BY <2>1 DEF StoredSoFar, Busy
  <2>9. CASE ~c.live
    <3>1. pc' = pc /\ outcome' = outcome /\ stamp' = stamp
      BY <2>1, <2>2, <2>9 DEF Reply
    <3>2. pc[w] \in {"idle", "positions"}
      BY <2>7, <2>9 DEF CallInOrder
    <3>3. Recorded(w)
      BY DEF StoredSoFar
    <3> QED
      BY <2>5, <2>8, <3>1, <3>2, <3>3 DEF StoredSoFar, Recorded
  <2>10. CASE c.live
    <3>1. /\ stamp' = stamp /\ c.tool = pc[w] /\ c.obs = stamp[w]
          /\ stamp[w] \in Nat /\ stamp[w] <= MaxObs
      BY <2>1, <2>7, <2>10, Numbers, HistoryAssumption DEF CallInOrder, Reply
    <3>2. PICK t \in Nat, d \in Days : t = stamp[w] /\ d = Day(t)
      BY <3>1, DayInDays
    <3>3. queue'[s] = <<>>
      <4>1. queue[s] \in Seq(Call) /\ Len(queue[s]) \in Nat
        BY QueueSound, LenProperties
      <4>2. Len(queue[s]) = 1
        <5> SUFFICES ASSUME Len(queue[s]) # 1
                     PROVE  FALSE
          OBVIOUS
        <5> DEFINE n == Len(queue[s])
        <5>1. n \in Nat /\ 1 \in 1..n /\ n # 1
          BY <2>3, <4>1
        <5>2. n \in 1..n /\ 1 < n
          <6> HIDE DEF n
          <6> QED
            BY ONLY <5>1
        <5> QED
          BY <2>3, <2>10, <5>2 DEF InOrder, QueueInOrder
      <4>3. queue'[s] = Tail(queue[s])
        BY <2>1 DEF Reply, TypeInv, TypeOK
      <4>4. Tail(queue[s]) \in Seq(Call) /\ Len(Tail(queue[s])) = 0
        BY <4>1, <4>2, HeadTailProperties, EmptySeq
      <4> QED
        BY <4>3, <4>4, EmptySeq
    <3>4. /\ DOMAIN value = Days /\ DOMAIN weights = Days /\ DOMAIN events = Days
          /\ outcome[w] = "storing" \/ outcome[w] # "storing"
      BY DEF TypeInv, TypeOK
    <3>5. ASSUME NEW ok \in BOOLEAN, Reply(s, ok)
          PROVE  /\ pc'[w] = IF c.tool = "value" /\ ~ok THEN "idle" ELSE NextTool(c.tool)
                 /\ outcome'[w] = LET standing == IF ok THEN outcome[w] ELSE "doubtful"
                                  IN  IF pc'[w] # "idle" THEN standing
                                      ELSE IF standing = "storing" THEN "stored" ELSE "failed"
      BY <2>1, <2>2, <2>4, <2>10, <3>5, ReplyKeepsCalls
    <3>6. Recorded(w)
      BY DEF StoredSoFar
    <3>7. CASE CommitPositions(s)
      <4>1. pc'[w] = "value" /\ outcome'[w] = outcome[w]
        BY <2>2, <3>5, <3>7 DEF CommitPositions, NextTool
      <4> QED
        BY <2>5, <2>8, <4>1 DEF StoredSoFar, Recorded
    <3>8. CASE CommitValue(s)
      <4>1. /\ pc'[w] = "weights" /\ outcome'[w] = outcome[w]
            /\ value' = [value EXCEPT ![Day(c.obs)] = c.obs]
        BY <2>2, <3>5, <3>8 DEF CommitValue, NextTool
      <4>2. value'[d] = t /\ stamp'[w] = t
        BY <3>1, <3>2, <3>4, <4>1
      <4> QED
        BY <2>5, <2>8, <3>2, <4>1, <4>2 DEF StoredSoFar, Recorded
    <3>9. CASE CommitWeights(s)
      <4>1. /\ pc'[w] = "events" /\ outcome'[w] = outcome[w] /\ pc[w] = "weights"
            /\ weights' = [weights EXCEPT ![Day(c.obs)] = c.obs] /\ value' = value
        BY <2>2, <3>1, <3>5, <3>9 DEF CommitWeights, NextTool
      <4>2. weights'[d] = t /\ stamp'[w] = t
        BY <3>1, <3>2, <3>4, <4>1
      <4>3. outcome[w] = "storing" => value[d] = t
        BY <3>2, <3>6, <4>1 DEF Recorded
      <4> QED
        BY <2>5, <2>8, <3>2, <4>1, <4>2, <4>3 DEF StoredSoFar, Recorded
    <3>10. CASE CommitEvents(s)
      <4>1. /\ pc'[w] = "idle" /\ pc[w] = "events"
            /\ events' = [events EXCEPT ![Day(c.obs)] = c.obs]
            /\ value' = value /\ weights' = weights
            /\ outcome'[w] = IF outcome[w] = "storing" THEN "stored" ELSE "failed"
        BY <2>2, <3>1, <3>5, <3>10 DEF CommitEvents, NextTool
      <4>2. events'[d] = t /\ stamp'[w] = t
        BY <3>1, <3>2, <3>4, <4>1
      <4>3. outcome[w] = "storing" => value[d] = t /\ weights[d] = t
        BY <3>2, <3>6, <4>1 DEF Recorded
      <4>4. outcome'[w] \in {"stored", "failed"} /\ (outcome'[w] = "stored" => outcome[w] = "storing")
        BY <4>1
      <4> QED
        BY <1>1, <2>5, <3>2, <3>3, <4>1, <4>2, <4>3, <4>4 DEF StoredSoFar, Recorded
    <3>11. CASE ToolError(s)
      <4>1. outcome'[w] \in {"doubtful", "failed"}
        BY <3>5, <3>11 DEF ToolError
      <4> QED
        BY <2>5, <4>1 DEF StoredSoFar, Recorded
    <3> QED
      BY <1>3, <3>7, <3>8, <3>9, <3>10, <3>11 DEF ServerStep
  <2> QED
    BY <2>6, <2>9, <2>10
<1> QED
  BY <1>2, <1>3

(* The same for the writer's own steps.                                     *)
LEMMA WriterStoredSoFar ==
    ASSUME OneProcess, OneWriter, TypeInv, StoredSoFar, NEW w \in Writers, WriterStep(w)
    PROVE  StoredSoFar'
<1>1. /\ \A v \in Writers : v = w
      /\ DOMAIN pc = Writers /\ DOMAIN outcome = Writers
      /\ value' = value /\ weights' = weights /\ events' = events
  BY DEF OneWriter, TypeInv, TypeOK, WriterStep, Observe, Send, GatewayError, tables
<1>2. CASE Observe(w)
  <2>1. outcome'[w] = "storing" /\ pc'[w] = "positions"
    BY <1>1, <1>2 DEF Observe
  <2> QED
    BY <1>1, <2>1 DEF StoredSoFar, Recorded
<1>3. CASE Send(w)
  <2>1. outcome' = outcome /\ pc' = pc /\ stamp' = stamp /\ pc[w] # "idle"
    BY <1>3 DEF Send, writerVars, Tools
  <2>2. outcome[w] # "stored"
    BY <2>1 DEF StoredSoFar, Recorded
  <2> QED
    BY <1>1, <2>1, <2>2 DEF StoredSoFar, Recorded
<1>4. CASE GatewayError(w)
  <2>1. outcome'[w] = "failed"
    BY <1>1, <1>4 DEF GatewayError
  <2> QED
    BY <1>1, <2>1 DEF StoredSoFar, Recorded
<1> QED
  BY <1>2, <1>3, <1>4 DEF WriterStep

OrderInv == ChangeInv /\ InOrder /\ TimelineOrdered /\ StoredSoFar

(* With one writer and one server process every step preserves the order    *)
(* invariant.                                                               *)
LEMMA NextOrderInv ==
    ASSUME OneProcess, OneWriter, OrderInv, [Next]_vars
    PROVE  OrderInv'
<1>1. /\ ChangeInv' /\ ChangeInv /\ StoreInv /\ TypeInv /\ PositionsOnce /\ StampsKnown
      /\ InOrder /\ StoredSoFar
  BY NextChangeInv DEF OrderInv, ChangeInv, StoreInv, PositionsOnce
<1>2. \A a \in Assets : InsertedOnChange(rows[a]) /\ OnlyLastActive(rows[a])
  BY <1>1, ChangeOnlyLast DEF ChangeInv
<1>3. ASSUME Restart
      PROVE  InOrder' /\ StoredSoFar'
  <2>1. \A s \in Servers : queue'[s] = <<>> /\ Len(queue'[s]) = 0
    BY <1>3, EmptySeq DEF Restart
  <2>2. /\ rows' = rows /\ log' = log /\ stamp' = stamp /\ value' = value
        /\ weights' = weights /\ events' = events /\ lastPositions' = lastPositions
        /\ \A w \in Writers : /\ pc'[w] = "idle"
                              /\ outcome'[w] = IF pc[w] = "idle" THEN outcome[w] ELSE "failed"
    BY <1>3 DEF Restart, tables
  <2>3. InOrder'
    BY <1>1, <2>1, <2>2 DEF InOrder, QueueInOrder, StoredBy, ValueBefore
  <2>4. StoredSoFar'
    BY <1>1, <2>1, <2>2 DEF StoredSoFar, Recorded
  <2> QED
    BY <2>3, <2>4
<1>4. ASSUME UNCHANGED vars
      PROVE  InOrder' /\ StoredSoFar'
  <2>1. /\ rows' = rows /\ log' = log /\ pc' = pc /\ stamp' = stamp /\ queue' = queue
        /\ value' = value /\ weights' = weights /\ events' = events /\ outcome' = outcome
        /\ lastPositions' = lastPositions
    BY <1>4 DEF vars, tables
  <2> QED
    BY <1>1, <2>1 DEF InOrder, QueueInOrder, CallInOrder, StoredBy, ValueBefore, StoredSoFar, Recorded
<1>5. InOrder' /\ StoredSoFar'
  <2>1. ASSUME NEW w \in Writers, WriterStep(w)
        PROVE  InOrder' /\ StoredSoFar'
    BY <1>1, <2>1, WriterInOrder, WriterStoredSoFar
  <2>2. ASSUME NEW s \in Servers, ServerStep(s)
        PROVE  InOrder' /\ StoredSoFar'
    BY <1>1, <1>2, <2>2, ServerInOrder, ServerStoredSoFar
  <2> QED
    BY <1>3, <1>4, <2>1, <2>2 DEF Next
<1>6. TimelineOrdered'
  <2>1. \A a \in Assets : rows[a] \in Seq(Row) /\ Ordered(rows[a])
    BY <1>1 DEF OrderInv, TimelineOrdered, Ordered, TypeInv, TypeOK
  <2>2. ASSUME NEW s \in Servers, CommitPositions(s)
        PROVE  \A a \in Assets : Ordered(rows'[a])
    <3>1. PICK c : c = Serving(s)
      OBVIOUS
    <3>2. /\ c.obs \in Nat /\ c = queue[s][1] /\ 1 \in 1..Len(queue[s])
          /\ \A a \in Assets : /\ rows[a] \in Seq(Row) /\ rows'[a] \in Seq(Row)
                               /\ Grown(rows[a], rows'[a], c.obs)
      BY <1>1, <1>2, <2>2, <3>1, CommitGrows
    <3>3. \E w \in Writers : CallInOrder(w, c)
      BY <1>1, <3>2, Numbers DEF InOrder
    <3>4. \A a \in Assets : \A k \in 1..Len(rows[a]) : rows[a][k].last <= c.obs
      BY <3>3 DEF CallInOrder, StoredBy
    <3> QED
      BY <2>1, <3>2, <3>4, GrownOrdered
  <2>3. \A a \in Assets : Ordered(rows'[a]) /\ DOMAIN rows'[a] = 1..Len(rows'[a])
    <3>1. \A a \in Assets : DOMAIN rows'[a] = 1..Len(rows'[a])
      BY <1>1, LenProperties DEF ChangeInv, StoreInv, TypeInv, TypeOK
    <3> QED
      BY <2>1, <2>2, <3>1, OnlyPositionsChangeRows
  <2> QED
    BY <2>3 DEF TimelineOrdered, Ordered
<1> QED
  BY <1>1, <1>5, <1>6 DEF OrderInv

LEMMA InitOrderInv ==
    ASSUME Init
    PROVE  OrderInv
<1>1. /\ \A s \in Servers : Len(queue[s]) = 0 /\ queue[s] = <<>>
      /\ \A a \in Assets : Len(rows[a]) = 0 /\ rows[a] = <<>> /\ DOMAIN rows[a] = {}
      /\ \A w \in Writers : pc[w] # "positions" /\ stamp[w] = 0 /\ outcome[w] = "none"
      /\ lastPositions = 0 /\ \A d \in Days : value[d] = 0
  BY EmptySeq DEF Init, None
<1>2. InOrder
  BY <1>1 DEF InOrder, QueueInOrder, StoredBy
<1>3. TimelineOrdered /\ StoredSoFar
  BY <1>1 DEF TimelineOrdered, StoredSoFar, Recorded
<1> QED
  BY <1>2, <1>3, InitChangeInv DEF OrderInv

(* With one writer a day's value row is never replaced by an older one. *)
LEMMA ValueGrows ==
    ASSUME OrderInv, [Next]_vars
    PROVE  \A d \in Days : value[d] <= value'[d]
<1> SUFFICES ASSUME NEW d \in Days
             PROVE  value[d] <= value'[d]
  OBVIOUS
<1>1. TypeInv /\ InOrder /\ value[d] \in Nat /\ DOMAIN value = Days
  BY Numbers DEF OrderInv, ChangeInv, StoreInv, TypeInv, TypeOK
<1>2. ASSUME NEW s \in Servers, CommitValue(s)
      PROVE  value[d] <= value'[d]
  <2>1. PICK c : c = Serving(s)
    OBVIOUS
  <2>2. Busy(s) /\ value' = [value EXCEPT ![Day(c.obs)] = c.obs]
    BY <1>2, <2>1 DEF CommitValue
  <2>3. c = queue[s][1] /\ 1 \in 1..Len(queue[s]) /\ c \in Call
    BY <1>1, <2>1, <2>2, QueueSound, ServingResult
  <2>4. \E w \in Writers : CallInOrder(w, c)
    BY <1>1, <2>3, Numbers DEF InOrder
  <2>5. value[d] <= c.obs
    BY <2>4 DEF CallInOrder, StoredBy
  <2> QED
    BY <1>1, <2>2, <2>5
<1>3. CASE ~\E s \in Servers : CommitValue(s)
  <2>1. value' = value
    BY <1>3 DEF Next, WriterStep, ServerStep, Observe, Send, GatewayError, Select,
         SelectPositions, SelectValue, CommitPositions, CommitWeights, CommitEvents,
         ToolError, Restart, vars, tables
  <2> QED
    BY <1>1, <2>1
<1> QED
  BY <1>2, <1>3

(* With one writer and one server process, the rows of an asset tell its     *)
(* history in order: each covers an interval, and the next starts no earlier *)
(* than it ends (upsert_position_states with calls given up and executed     *)
(* late).                                                                   *)
THEOREM TimelineOrderedHolds ==
    ASSUME OneProcess, OneWriter
    PROVE  Spec => []TimelineOrdered
<1>1. Init => OrderInv
  BY InitOrderInv
<1>2. OrderInv /\ [Next]_vars => OrderInv'
  BY NextOrderInv
<1>3. OrderInv => TimelineOrdered
  BY DEF OrderInv
<1> QED
  BY <1>1, <1>2, <1>3, PTL DEF Spec

(* With one writer and one server process, once the writer has reported     *)
(* success and is idle, the value, weight and event rows of its day are of  *)
(* one observation (record_portfolio_value_snapshot and the tools after it). *)
THEOREM DailyViewCoherentHolds ==
    ASSUME OneProcess, OneWriter
    PROVE  Spec => []DailyViewCoherent
<1>1. Init => OrderInv
  BY InitOrderInv
<1>2. OrderInv /\ [Next]_vars => OrderInv'
  BY NextOrderInv
<1>3. OrderInv => DailyViewCoherent
  BY DEF OrderInv, StoredSoFar, Recorded, DailyViewCoherent
<1> QED
  BY <1>1, <1>2, <1>3, PTL DEF Spec

(* With one writer and one server process, a day's value row never goes back *)
(* to an older observation (record_portfolio_value_snapshot).               *)
THEOREM ValueNeverRegressesHolds ==
    ASSUME OneProcess, OneWriter
    PROVE  Spec => ValueNeverRegresses
<1>1. Init => OrderInv
  BY InitOrderInv
<1>2. OrderInv /\ [Next]_vars => OrderInv'
  BY NextOrderInv
<1>3. OrderInv /\ [Next]_vars => [\A d \in Days : value[d] <= value'[d]]_vars
  BY ValueGrows
<1> QED
  BY <1>1, <1>2, <1>3, PTL DEF Spec, ValueNeverRegresses
-----------------------------------------------------------------------------
(* The readers.                                                             *)

(* A set of numbers below a bound has a greatest member. *)
LEMMA GreatestExists ==
    ASSUME NEW S \in SUBSET Nat, NEW m \in Nat, S # {}, \A x \in S : x <= m
    PROVE  \E x \in S : \A y \in S : y <= x
<1> DEFINE T == {m - x : x \in S}
           R == OpToRel(<, Nat)
<1>1. T \subseteq Nat /\ T # {}
  <2>1. \A x \in S : m - x \in Nat
    OBVIOUS
  <2>2. PICK x : x \in S
    OBVIOUS
  <2> QED
    BY <2>1, <2>2
<1>2. IsWellFoundedOn(R, Nat)
  BY NatLessThanWellFounded
<1>3. \A x, y \in Nat : x < y => <<x, y>> \in R
  BY DEF OpToRel
<1> HIDE DEF R
<1>4. PICK t \in T : \A u \in T : ~(<<u, t>> \in R)
  <2> HIDE DEF T
  <2> QED
    BY <1>1, <1>2, WFMin
<1>5. PICK x \in S : t = m - x
  OBVIOUS
<1>6. \A y \in S : m - y \in T /\ ~(m - y < m - x)
  BY <1>1, <1>3, <1>4, <1>5
<1> QED
  BY <1>6

(* The newest value row is the newest. *)
LEMMA LatestResult ==
    ASSUME TypeInv
    PROVE  /\ Latest \in Nat /\ Latest <= Len(log)
           /\ \E d \in Days : Latest = value[d]
           /\ \A d \in Days : value[d] <= Latest
<1> DEFINE S == {value[d] : d \in Days}
<1>1. Len(log) \in Nat /\ \A d \in Days : value[d] \in Nat /\ value[d] <= Len(log)
  BY Numbers
<1>2. Day(0) \in Days
  BY DayInDays, HistoryAssumption
<1>3. S \in SUBSET Nat /\ S # {} /\ \A x \in S : x <= Len(log)
  BY <1>1, <1>2
<1>4. \E x \in S : \A y \in S : y <= x
  <2> HIDE DEF S
  <2> QED
    BY <1>1, <1>3, GreatestExists
<1>5. \E t \in S : \A d \in Days : value[d] <= t
  BY <1>4
<1>6. Latest \in S /\ \A d \in Days : value[d] <= Latest
  BY <1>5 DEF Latest
<1> QED
  BY <1>3, <1>6
-----------------------------------------------------------------------------
(* To the store, a reader does nothing.                                     *)

LEMMA ViewStep ==
    ASSUME [ViewNext]_allVars
    PROVE  [Next]_vars
<1>1. CASE ReaderStep
  BY <1>1 DEF ReaderStep, ReadStatus, ReadState, ReadValue, ReadWeights, ReadPositions, StartOver
<1>2. CASE StoreStep
  BY <1>2 DEF StoreStep, Next
<1>3. CASE RestartAll
  BY <1>3 DEF RestartAll, Next
<1>4. CASE UNCHANGED allVars
  BY <1>4 DEF allVars
<1> QED
  BY <1>1, <1>2, <1>3, <1>4 DEF ViewNext

(* Reading the dashboard is no step of the store: every behaviour with       *)
(* readers is one of PortfolioHistory, and its theorems hold of it           *)
(* (latest_snapshot only SELECTs).                                          *)
THEOREM ReadersAreHarmless == ViewSpec => Spec
<1>1. ViewInit => Init
  BY DEF ViewInit
<1>2. [ViewNext]_allVars => [Next]_vars
  BY ViewStep
<1> QED
  BY <1>1, <1>2, PTL DEF ViewSpec, Spec
-----------------------------------------------------------------------------
(* One writer and one server.                                               *)

(* Only positions of newer observations than v are still to be stored. *)
Settled(v) ==
    /\ v <= Len(log)
    /\ \A w \in Writers : pc[w] = "positions" => v < stamp[w]
    /\ \A s \in Servers : \A i \in 1..Len(queue[s]) :
          queue[s][i].tool = "positions" => v < queue[s][i].obs

(* A value row is stored behind the positions of its observation. *)
LEMMA ValueSettled ==
    ASSUME TypeInv, InOrder, NEW d \in Days
    PROVE  Settled(value[d])
<1>1. value[d] <= Len(log)
  BY Numbers
<1>2. ASSUME NEW w \in Writers, pc[w] = "positions"
      PROVE  value[d] < stamp[w]
  BY <1>2 DEF InOrder, ValueBefore
<1>3. ASSUME NEW s \in Servers, NEW i \in 1..Len(queue[s]), queue[s][i].tool = "positions"
      PROVE  value[d] < queue[s][i].obs
  <2>1. \E w \in Writers : CallInOrder(w, queue[s][i])
    BY Numbers DEF InOrder
  <2> QED
    BY <1>3, <2>1 DEF CallInOrder, ValueBefore
<1> QED
  BY <1>1, <1>2, <1>3 DEF Settled

(* What is settled stays settled. *)
LEMMA SettledStays ==
    ASSUME OneProcess, TypeInv, [Next]_vars, NEW v \in Nat, Settled(v)
    PROVE  Settled(v)'
<1>1. ASSUME NEW w \in Writers, Observe(w)
      PROVE  Settled(v)'
  <2>1. /\ queue' = queue /\ Len(log) \in Nat /\ Len(log') = Len(log) + 1
        /\ DOMAIN stamp = Writers /\ DOMAIN pc = Writers
        /\ pc' = [pc EXCEPT ![w] = "positions"] /\ stamp' = [stamp EXCEPT ![w] = Len(log) + 1]
    BY <1>1, LenProperties DEF Observe, TypeInv, TypeOK
  <2>2. v <= Len(log') /\ v < Len(log) + 1
    BY <2>1 DEF Settled
  <2>3. ASSUME NEW u \in Writers, pc'[u] = "positions"
        PROVE  v < stamp'[u]
    BY <2>1, <2>2, <2>3 DEF Settled
  <2> QED
    BY <2>1, <2>2, <2>3 DEF Settled
<1>2. ASSUME NEW w \in Writers, Send(w)
      PROVE  Settled(v)'
  <2> DEFINE s == ServerOf[w]
             n == Len(queue[s])
  <2>1. /\ log' = log /\ pc' = pc /\ stamp' = stamp /\ s \in Servers
        /\ n \in Nat /\ Len(queue'[s]) = n + 1
        /\ \A i \in 1..n : queue'[s][i] = queue[s][i]
        /\ queue'[s][n + 1].tool = pc[w] /\ queue'[s][n + 1].obs = stamp[w]
    BY <1>2, SendKeepsCalls
  <2>2. \A r \in Servers : r = s
    BY <2>1 DEF OneProcess
  <2>3. \A i \in 1..(n + 1) : i = n + 1 \/ i \in 1..n
    BY <2>1
  <2> HIDE DEF s
  <2>4. \A i \in 1..Len(queue'[s]) : queue'[s][i].tool = "positions" => v < queue'[s][i].obs
    BY <2>1, <2>3 DEF Settled
  <2> QED
    BY <2>1, <2>2, <2>4 DEF Settled
<1>3. ASSUME NEW w \in Writers, GatewayError(w)
      PROVE  Settled(v)'
  <2> DEFINE s == ServerOf[w]
  <2>1. /\ s \in Servers /\ Len(queue'[s]) = Len(queue[s])
        /\ \A i \in 1..Len(queue[s]) : SameCall(queue[s][i], queue'[s][i])
    BY <1>3, GiveUpKeepsCalls
  <2>2. /\ log' = log /\ stamp' = stamp /\ pc' = [pc EXCEPT ![w] = "idle"] /\ DOMAIN pc = Writers
    BY <1>3 DEF GatewayError, TypeInv, TypeOK
  <2>3. \A r \in Servers : r = s
    BY <2>1 DEF OneProcess
  <2> HIDE DEF s
  <2>4. \A i \in 1..Len(queue'[s]) : queue'[s][i].tool = "positions" => v < queue'[s][i].obs
    BY <2>1 DEF Settled, SameCall
  <2> QED
    BY <2>2, <2>3, <2>4 DEF Settled
<1>4. ASSUME NEW s \in Servers, ServerStep(s)
      PROVE  Settled(v)'
  <2>1. \A r \in Servers : r = s
    BY DEF OneProcess
  <2>2. CASE Select(s)
    <3>1. /\ log' = log /\ pc' = pc /\ stamp' = stamp /\ Len(queue'[s]) = Len(queue[s])
          /\ \A i \in 1..Len(queue[s]) : SameCall(queue[s][i], queue'[s][i])
      BY <2>2, SelectKeepsCalls
    <3> QED
      BY <2>1, <3>1 DEF Settled, SameCall
  <2>3. CASE ~Select(s)
    <3>1. PICK ok \in BOOLEAN : Busy(s) /\ Reply(s, ok)
      BY <1>4, <2>3 DEF ServerStep, CommitPositions, CommitValue, CommitWeights,
                        CommitEvents, ToolError
    <3>2. /\ log' = log /\ stamp' = stamp
          /\ \A i \in 1..Len(queue'[s]) :
                i + 1 \in 1..Len(queue[s]) /\ queue'[s][i] = queue[s][i + 1]
          /\ \A w \in Writers : pc'[w] = "positions" => pc[w] = "positions"
      BY <3>1, ReplyShifts
    <3> QED
      BY SMTT(30), <2>1, <3>2 DEF Settled
  <2> QED
    BY <2>2, <2>3
<1>5. CASE Restart
  <2>1. /\ log' = log /\ \A w \in Writers : pc'[w] = "idle"
        /\ \A s \in Servers : Len(queue'[s]) = 0
    BY <1>5, EmptySeq DEF Restart
  <2> QED
    BY <2>1 DEF Settled
<1>6. CASE UNCHANGED vars
  BY <1>6 DEF vars, Settled
<1> QED
  BY <1>1, <1>2, <1>3, <1>4, <1>5, <1>6 DEF Next, WriterStep

(* Positions are committed in the order of their observations. *)
LEMMA LastGrows ==
    ASSUME OneProcess, StoreInv, InOrder, [Next]_vars, NEW v \in Nat, Settled(v)
    PROVE  /\ lastPositions <= lastPositions'
           /\ lastPositions' # lastPositions => v < lastPositions'
<1>1. lastPositions \in Nat /\ TypeInv
  BY Numbers DEF StoreInv
<1>2. ASSUME NEW s \in Servers, CommitPositions(s)
      PROVE  lastPositions <= lastPositions' /\ v < lastPositions'
  <2>1. PICK c : c = Serving(s)
    OBVIOUS
  <2>2. Busy(s) /\ lastPositions' = c.obs /\ c.tool = "positions"
    BY <1>2, <2>1 DEF CommitPositions
  <2>3. c = queue[s][1] /\ 1 \in 1..Len(queue[s])
    BY <1>1, <2>1, <2>2, QueueSound, ServingResult
  <2>4. \E w \in Writers : CallInOrder(w, c)
    BY <1>1, <2>3, Numbers DEF InOrder
  <2> QED
    BY <2>2, <2>3, <2>4 DEF CallInOrder, StoredBy, Settled
<1>3. CASE ~\E s \in Servers : CommitPositions(s)
  <2>1. lastPositions' = lastPositions
    BY <1>3 DEF Next, WriterStep, ServerStep, Observe, Send, GatewayError, Select,
         SelectPositions, SelectValue, CommitValue, CommitWeights, CommitEvents,
         ToolError, Restart, vars, tables
  <2> QED
    BY <1>1, <2>1
<1> QED
  BY <1>2, <1>3

Phases == {"idle", "state", "weights", "positions", "shown", "changes", "packed"}

(* The reader's place: what it has been given, in the order it reads it.    *)
ViewTypes ==
    /\ phase \in Phases /\ status \in Nat
    /\ view \in [value : Nat, weights : Nat, positions : Nat]
    /\ phase \in {"idle", "state"} => view.value = None

KeptInv ==
    /\ \A o \in kept : o \in Nat /\ o <= lastPositions
    /\ lastPositions # None => lastPositions \in kept

(* What was read before still bounds what is read after it. *)
ReadInv ==
    /\ view.value # None => Settled(view.value)
    /\ phase = "state" => \E d \in Days : status <= value[d]
    /\ phase \in {"weights", "positions", "shown"} /\ view.value # None => status <= view.value
    /\ PositionsNotOlder

ViewInv == OrderInv /\ ViewTypes /\ KeptInv /\ ReadInv

LEMMA ReaderInv ==
    ASSUME ViewInv, ReaderStep
    PROVE  ViewTypes' /\ KeptInv' /\ ReadInv'
<1>1. /\ TypeInv /\ InOrder /\ UNCHANGED vars /\ kept' = kept
      /\ lastPositions \in Nat /\ Len(log) \in Nat /\ Len(log) <= MaxObs
      /\ weights \in [Days -> 0..Len(log)]
  BY Numbers DEF ViewInv, OrderInv, ChangeInv, StoreInv, TypeInv, TypeOK, ReaderStep,
                 ReadStatus, ReadState, ReadValue, ReadWeights, ReadPositions, StartOver
<1>2. /\ log' = log /\ pc' = pc /\ stamp' = stamp /\ queue' = queue /\ value' = value
      /\ lastPositions' = lastPositions
  BY <1>1 DEF vars, tables
<1>3. KeptInv'
  BY <1>1, <1>2 DEF ViewInv, KeptInv
<1>4. /\ Latest \in Nat /\ Latest <= Len(log) /\ Settled(Latest)
      /\ \E d \in Days : Latest = value[d]
      /\ \A d \in Days : value[d] <= Latest
  BY <1>1, LatestResult, ValueSettled
<1>5. \A v : Settled(v) => Settled(v)'
  BY <1>2 DEF Settled
<1>6. ASSUME NEW t \in Nat, t <= Len(log)
      PROVE  weights[Day(t)] \in Nat
  <2>1. t <= MaxObs
    BY <1>1, <1>6, HistoryAssumption
  <2>2. Day(t) \in Days
    BY <2>1, DayInDays
  <2> QED
    BY <1>1, <2>2
<1>7. /\ phase \in Phases /\ status \in Nat /\ view \in [value : Nat, weights : Nat, positions : Nat]
      /\ view.value \in Nat /\ view.positions \in Nat /\ view.weights \in Nat
  BY DEF ViewInv, ViewTypes
<1>8. NoView \in [value : Nat, weights : Nat, positions : Nat] /\ NoView.value = None
  BY DEF NoView, None
<1>9. ASSUME view.value # None
      PROVE  view.value <= Len(log) /\ Settled(view.value)
  BY <1>9 DEF ViewInv, ReadInv, Settled
<1>10. \A o \in kept : o <= lastPositions
  BY DEF ViewInv, KeptInv
<1>11. CASE ReadStatus
  <2>1. phase = "idle" /\ status' = Latest /\ phase' = "state" /\ view' = view /\ view.value = None
    BY <1>11 DEF ReadStatus, ViewInv, ViewTypes
  <2>2. ViewTypes'
    BY <1>4, <1>7, <2>1 DEF ViewTypes, Phases
  <2>3. \E d \in Days : status' <= value'[d]
    BY <1>2, <1>4, <2>1
  <2>4. ReadInv'
    BY <2>1, <2>3 DEF ReadInv, PositionsNotOlder, Shown
  <2> QED
    BY <1>3, <2>2, <2>4
<1>12. CASE ReadState
  <2>1. /\ phase = "state" /\ phase' = "shown" /\ status' = status
        /\ view' = IF Latest = None THEN NoView
                   ELSE [value |-> Latest, weights |-> weights[Day(Latest)],
                         positions |-> lastPositions]
    BY <1>12 DEF ReadState
  <2>2. view' \in [value : Nat, weights : Nat, positions : Nat]
    BY <1>1, <1>4, <1>6, <1>8, <2>1
  <2>3. /\ view'.value = None \/ (view'.value = Latest /\ view'.positions = lastPositions)
    BY <1>8, <2>1
  <2>4. status <= Latest
    BY <1>1, <1>4, <1>7, <2>1, Numbers DEF ViewInv, ReadInv
  <2>5. ViewTypes'
    BY <1>7, <2>1, <2>2 DEF ViewTypes, Phases
  <2>6. ReadInv'
    <3>1. view'.value # None => Settled(view.value)'
      BY <1>2, <1>4, <2>3 DEF Settled
    <3>2. PositionsNotOlder'
      BY <1>1, <1>4, <1>10, <2>3 DEF PositionsNotOlder, Shown
    <3> QED
      BY <2>1, <2>3, <2>4, <3>1, <3>2 DEF ReadInv
  <2> QED
    BY <1>3, <2>5, <2>6
<1>13. CASE ReadValue
  <2>1. /\ phase = "state" /\ phase' \in {"shown", "weights"} /\ status' = status
        /\ view' = [NoView EXCEPT !.value = Latest]
        /\ phase' = "shown" => Latest = None
    BY <1>13 DEF ReadValue
  <2>2. view' \in [value : Nat, weights : Nat, positions : Nat] /\ view'.value = Latest
    BY <1>4, <1>8, <2>1
  <2>3. status <= Latest
    BY <1>1, <1>4, <1>7, <2>1, Numbers DEF ViewInv, ReadInv
  <2>4. ViewTypes'
    BY <1>7, <2>1, <2>2 DEF ViewTypes, Phases
  <2>5. ReadInv'
    <3>1. Settled(view.value)'
      BY <1>2, <1>4, <2>2 DEF Settled
    <3>2. PositionsNotOlder'
      BY <2>1, <2>2 DEF PositionsNotOlder, Shown
    <3> QED
      BY <2>1, <2>2, <2>3, <3>1, <3>2 DEF ReadInv
  <2> QED
    BY <1>3, <2>4, <2>5
<1>14. CASE ReadWeights
  <2>1. /\ phase = "weights" /\ phase' = "positions" /\ status' = status
        /\ view' = [view EXCEPT !.weights = weights[Day(view.value)]]
    BY <1>14 DEF ReadWeights
  <2>2. weights[Day(view.value)] \in Nat
    <3>1. view.value <= Len(log)
      BY <1>1, <1>7, <1>9 DEF None
    <3> QED
      BY <1>6, <1>7, <3>1
  <2>3. view' \in [value : Nat, weights : Nat, positions : Nat] /\ view'.value = view.value
    BY <1>7, <2>1, <2>2
  <2>4. ViewTypes'
    BY <1>7, <2>1, <2>3 DEF ViewTypes, Phases
  <2>5. view'.value # None => Settled(view.value)'
    BY <1>2, <1>9, <2>3 DEF Settled
  <2>6. PositionsNotOlder'
    BY <2>1 DEF PositionsNotOlder, Shown
  <2>7. ReadInv'
    BY <2>1, <2>3, <2>5, <2>6 DEF ReadInv, ViewInv
  <2> QED
    BY <1>3, <2>4, <2>7
<1>15. CASE ReadPositions
  <2>1. /\ phase = "positions" /\ phase' = "shown" /\ status' = status
        /\ view' = [view EXCEPT !.positions = lastPositions]
    BY <1>15 DEF ReadPositions
  <2>2. /\ view' \in [value : Nat, weights : Nat, positions : Nat] /\ view'.value = view.value
        /\ view'.positions = lastPositions
    BY <1>1, <1>7, <2>1
  <2>3. ViewTypes'
    BY <1>7, <2>1, <2>2 DEF ViewTypes, Phases
  <2>4. view'.value # None => Settled(view.value)'
    BY <1>2, <1>9, <2>2 DEF Settled
  <2>5. PositionsNotOlder'
    BY <1>1, <1>7, <1>10, <2>2 DEF PositionsNotOlder, Shown
  <2>6. ReadInv'
    BY <2>1, <2>2, <2>4, <2>5 DEF ReadInv, ViewInv
  <2> QED
    BY <1>3, <2>3, <2>6
<1>16. CASE StartOver
  <2>1. phase' = "idle" /\ status' = None /\ view' = NoView
    BY <1>16 DEF StartOver
  <2>2. ViewTypes'
    BY <1>8, <2>1 DEF ViewTypes, Phases, None
  <2>3. ReadInv'
    BY <1>8, <2>1 DEF ReadInv, PositionsNotOlder, Shown
  <2> QED
    BY <1>3, <2>2, <2>3
<1> QED
  BY <1>11, <1>12, <1>13, <1>14, <1>15, <1>16 DEF ReaderStep

(* A step of the store takes nothing away from what was read. *)
LEMMA StoreInvStep ==
    ASSUME OneProcess, ViewInv, [Next]_vars,
           phase' = phase, status' = status, view' = view,
           \/ kept' = kept /\ lastPositions' = lastPositions
           \/ kept' = kept \cup ({lastPositions'} \ {None})
    PROVE  ViewTypes' /\ KeptInv' /\ ReadInv'
<1>1. /\ TypeInv /\ StoreInv /\ InOrder /\ OrderInv
      /\ lastPositions \in Nat /\ lastPositions' \in Nat
      /\ view.value \in Nat /\ view.positions \in Nat
  <2>1. TypeInv /\ StoreInv /\ InOrder /\ OrderInv
    BY DEF ViewInv, OrderInv, ChangeInv, StoreInv
  <2>2. TypeInv'
    BY <2>1, NextTypeInv
  <2>3. lastPositions' \in Nat
    BY <2>2, LenProperties DEF TypeInv, TypeOK
  <2> QED
    BY <2>1, <2>3, Numbers DEF ViewInv, ViewTypes
<1>2. ViewTypes'
  BY DEF ViewInv, ViewTypes
<1>3. \A v \in Nat : Settled(v) =>
         /\ lastPositions <= lastPositions'
         /\ lastPositions' # lastPositions => v < lastPositions'
  BY <1>1, LastGrows
<1>4. lastPositions <= lastPositions'
  <2>1. PICK d \in Days : Latest = value[d]
    BY <1>1, LatestResult
  <2>2. Settled(value[d]) /\ value[d] \in Nat
    BY <1>1, ValueSettled, Numbers
  <2> QED
    BY <1>3, <2>2
<1>5. /\ \A o \in kept : o \in Nat /\ o <= lastPositions
      /\ lastPositions # None => lastPositions \in kept
  BY DEF ViewInv, KeptInv
<1>6. KeptInv'
  BY <1>1, <1>4, <1>5 DEF KeptInv
<1>7. \A v \in Nat : Settled(v) => Settled(v)'
  BY <1>1, SettledStays
<1>8. ReadInv'
  <2>1. view'.value # None => Settled(view.value)'
    <3> SUFFICES ASSUME view.value # None
                 PROVE  Settled(view.value)'
      OBVIOUS
    <3>1. PICK v \in Nat : v = view.value /\ Settled(v)
      BY <1>1 DEF ViewInv, ReadInv
    <3>2. Settled(v)'
      BY <1>7, <3>1
    <3> QED
      BY <3>1, <3>2 DEF Settled
  <2>2. phase' = "state" => \E d \in Days : status' <= value'[d]
    <3> SUFFICES ASSUME phase = "state"
                 PROVE  \E d \in Days : status <= value'[d]
      OBVIOUS
    <3>1. PICK d \in Days : status <= value[d]
      BY DEF ViewInv, ReadInv
    <3>2. value[d] <= value'[d] /\ value[d] \in Nat /\ value'[d] \in Nat
      <4>1. TypeInv'
        BY <1>1, NextTypeInv
      <4>2. value'[d] \in Nat
        BY <4>1, LenProperties DEF TypeInv, TypeOK
      <4> QED
        BY <1>1, <4>2, ValueGrows, Numbers
    <3>3. status \in Nat
      BY DEF ViewInv, ViewTypes
    <3> QED
      BY <3>1, <3>2, <3>3
  <2>3. PositionsNotOlder'
    <3> SUFFICES ASSUME phase = "shown", view.value # None, view.value \in kept'
                 PROVE  view.positions >= view.value
      BY DEF PositionsNotOlder, Shown
    <3>1. PICK v \in Nat : v = view.value /\ Settled(v)
      BY <1>1 DEF ViewInv, ReadInv
    <3>2. v \in kept
      BY <1>3, <1>5, <3>1
    <3> QED
      BY <3>1, <3>2 DEF ViewInv, ReadInv, PositionsNotOlder, Shown
  <2> QED
    BY <2>1, <2>2, <2>3 DEF ViewInv, ReadInv
<1> QED
  BY <1>2, <1>6, <1>8

(* With one writer and one server process every step, a reader's included,  *)
(* preserves the view's invariant.                                          *)
LEMMA NextViewInv ==
    ASSUME OneProcess, OneWriter, ViewInv, [ViewNext]_allVars
    PROVE  ViewInv'
<1>1. [Next]_vars /\ OrderInv'
  BY ViewStep, NextOrderInv DEF ViewInv
<1>2. CASE ReaderStep
  BY <1>1, <1>2, ReaderInv DEF ViewInv
<1>3. CASE StoreStep
  <2>1. phase' = phase /\ status' = status /\ view' = view
    BY <1>3 DEF StoreStep, readerVars
  <2>2. CASE \E w \in Writers : WriterStep(w) /\ kept' = kept
    <3>1. kept' = kept /\ lastPositions' = lastPositions
      BY <2>2 DEF WriterStep, Observe, Send, GatewayError, tables
    <3> QED
      BY <1>1, <2>1, <3>1, StoreInvStep DEF ViewInv
  <2>3. CASE kept' = kept \cup ({lastPositions'} \ {None})
    BY <1>1, <2>1, <2>3, StoreInvStep DEF ViewInv
  <2> QED
    BY <1>3, <2>2, <2>3 DEF StoreStep
<1>4. CASE RestartAll
  <2>1. /\ phase' = "idle" /\ status' = None /\ view' = NoView /\ kept' = kept
        /\ lastPositions' = lastPositions
    BY <1>4 DEF RestartAll, Restart, tables
  <2>2. ViewTypes'
    BY <2>1 DEF ViewTypes, Phases, NoView, None
  <2>3. KeptInv' /\ ReadInv'
    BY <2>1 DEF ViewInv, KeptInv, ReadInv, PositionsNotOlder, Shown, NoView
  <2> QED
    BY <1>1, <2>2, <2>3 DEF ViewInv
<1>5. CASE UNCHANGED allVars
  <2>1. /\ phase' = phase /\ status' = status /\ view' = view /\ kept' = kept
        /\ lastPositions' = lastPositions
    BY <1>5 DEF allVars, readerVars, vars, tables
  <2> QED
    BY <1>1, <2>1, StoreInvStep DEF ViewInv
<1> QED
  BY <1>2, <1>3, <1>4, <1>5 DEF ViewNext

LEMMA InitViewInv ==
    ASSUME ViewInit
    PROVE  ViewInv
<1>1. OrderInv /\ lastPositions = None
  BY InitOrderInv DEF ViewInit, Init
<1>2. phase = "idle" /\ status = None /\ view = NoView /\ kept = {}
  BY DEF ViewInit
<1> QED
  BY <1>1, <1>2 DEF ViewInv, ViewTypes, Phases, KeptInv, ReadInv, PositionsNotOlder, Shown,
                    NoView, None

(* With one writer and one SQL server process the positions that the        *)
(* dashboard shows are never older than its value row, when the positions   *)
(* of that row's observation were stored: from whichever server, between    *)
(* whichever steps, and after whatever was given up (latest_portfolio_state).*)
THEOREM PositionsNotOlderHolds ==
    ASSUME OneProcess, OneWriter
    PROVE  ViewSpec => []PositionsNotOlder
<1>1. ViewInit => ViewInv
  BY InitViewInv
<1>2. ViewInv /\ [ViewNext]_allVars => ViewInv'
  BY NextViewInv
<1>3. ViewInv => PositionsNotOlder
  BY DEF ViewInv, ReadInv
<1> QED
  BY <1>1, <1>2, <1>3, PTL DEF ViewSpec

(* With one writer and one SQL server process, the freshness label is never *)
(* computed from a row newer than the one that is shown, although the two   *)
(* are read by two calls (history_status before latest_portfolio_state).    *)
THEOREM StatusNotNewerHolds ==
    ASSUME OneProcess, OneWriter
    PROVE  ViewSpec => []StatusNotNewer
<1>1. ViewInit => ViewInv
  BY InitViewInv
<1>2. ViewInv /\ [ViewNext]_allVars => ViewInv'
  BY NextViewInv
<1>3. ViewInv => StatusNotNewer
  BY DEF ViewInv, ReadInv, StatusNotNewer, Shown
<1> QED
  BY <1>1, <1>2, <1>3, PTL DEF ViewSpec
-----------------------------------------------------------------------------
(* What a row tells: it speaks for an interval of the kept observations.     *)

(* The observations a row speaks for: from its first to the one that closed  *)
(* it, or to the end.                                                        *)
Covers(r, o) == r.first <= o /\ (o < r.last \/ r.active)

(* A closed row speaks for one observation at least. *)
Lasting(rs) == \A k \in 1..Len(rs) : ~rs[k].active => rs[k].first < rs[k].last

(* The rows of an asset tell what the observations K reported of it: they    *)
(* begin and end at some of them, and speak for those that held it.          *)
Tells(rs, K, reports, a) ==
    /\ \A k \in 1..Len(rs) : rs[k].first \in K /\ rs[k].last \in K
    /\ Lasting(rs)
    /\ \A o \in K : \A k \in 1..Len(rs) :
          Covers(rs[k], o) => reports[o][a] # NotHeld /\ reports[o][a].qty = rs[k].qty
    /\ \A o \in K : reports[o][a] # NotHeld => \E k \in 1..Len(rs) : Covers(rs[k], o)

(* The numbers of a row. *)
LEMMA RowNumbers ==
    ASSUME NEW rs \in Seq(Row)
    PROVE  /\ Len(rs) \in Nat /\ DOMAIN rs = 1..Len(rs)
           /\ \A k \in 1..Len(rs) :
                 rs[k].first \in Nat /\ rs[k].last \in Nat /\ rs[k].active \in BOOLEAN
<1>1. Len(rs) \in Nat /\ DOMAIN rs = 1..Len(rs)
  BY LenProperties
<1>2. \A k \in 1..Len(rs) : rs[k] \in Row
  OBVIOUS
<1> QED
  BY <1>1, <1>2 DEF Row

(* A row speaks for the same earlier observations after a table has grown,   *)
(* and for the new one if it is active.                                      *)
LEMMA GrownCovers ==
    ASSUME NEW rs \in Seq(Row), NEW new \in Seq(Row), NEW t \in Nat, Grown(rs, new, t),
           NEW K \in SUBSET Nat, \A o \in K : o < t,
           \A k \in 1..Len(rs) : rs[k].first \in K /\ rs[k].last \in K,
           NEW k \in 1..Len(new)
    PROVE  /\ \A o \in K : Covers(new[k], o) <=> k \in 1..Len(rs) /\ Covers(rs[k], o)
           /\ Covers(new[k], t) <=> new[k].active
           /\ k \in 1..Len(rs) => /\ new[k].qty = rs[k].qty /\ new[k].first = rs[k].first
                                  /\ new[k] = rs[k] \/ new[k].last = t
           /\ k \notin 1..Len(rs) => new[k].active /\ new[k].first = t /\ new[k].last = t
<1>1. Len(rs) \in Nat /\ Len(new) \in {Len(rs), Len(rs) + 1}
  BY LenProperties DEF Grown
<1>2. CASE k \in 1..Len(rs)
  <2>1. rs[k].first \in Nat /\ rs[k].last \in Nat /\ rs[k].first < t /\ rs[k].last < t
    BY <1>2
  <2>2. CASE new[k] = rs[k]
    <3>1. Covers(new[k], t) <=> new[k].active
      BY <2>1, <2>2 DEF Covers
    <3> QED
      BY <1>2, <2>2, <3>1, Zenon
  <2>3. CASE rs[k].active /\ Restamped(rs[k], new[k], t)
    <3>1. new[k].qty = rs[k].qty /\ new[k].first = rs[k].first /\ new[k].last = t
      BY <2>3 DEF Restamped
    <3>2. \A o \in K : Covers(new[k], o) <=> Covers(rs[k], o)
      BY <2>1, <2>3, <3>1 DEF Covers
    <3>3. Covers(new[k], t) <=> new[k].active
      BY <2>1, <3>1 DEF Covers
    <3> QED
      BY <1>2, <3>1, <3>2, <3>3, Zenon
  <2> QED
    BY <1>2, <2>2, <2>3 DEF Grown
<1>3. CASE k \notin 1..Len(rs)
  <2>1. k = Len(new) /\ Len(new) = Len(rs) + 1
    BY <1>1, <1>3
  <2>2. new[k].active /\ new[k].first = t /\ new[k].last = t
    BY <1>1, <2>1 DEF Grown
  <2>3. \A o \in K : ~Covers(new[k], o)
    BY <2>2 DEF Covers
  <2>4. Covers(new[k], t)
    BY <2>2 DEF Covers
  <2> QED
    BY <1>3, <2>2, <2>3, <2>4, Zenon
<1> QED
  BY <1>2, <1>3

(* What the rows tell stays true when an observation is stored. *)
LEMMA GrownTells ==
    ASSUME NEW rs \in Seq(Row), NEW new \in Seq(Row), NEW t \in Nat, Grown(rs, new, t),
           NEW K \in SUBSET Nat, \A o \in K : o < t,
           NEW reports, NEW a, Tells(rs, K, reports, a), OnlyLastActive(new),
           IF reports[t][a] = NotHeld THEN ActiveOf(new) = {} ELSE Reports(new, reports[t][a])
    PROVE  Tells(new, K \cup {t}, reports, a)
<1>1. /\ \A k \in 1..Len(rs) : rs[k].first \in K /\ rs[k].last \in K
      /\ Lasting(rs)
      /\ \A o \in K : \A k \in 1..Len(rs) :
            Covers(rs[k], o) => reports[o][a] # NotHeld /\ reports[o][a].qty = rs[k].qty
      /\ \A o \in K : reports[o][a] # NotHeld => \E k \in 1..Len(rs) : Covers(rs[k], o)
  BY DEF Tells
<1>2. \A k \in 1..Len(new) :
         /\ \A o \in K : Covers(new[k], o) <=> k \in 1..Len(rs) /\ Covers(rs[k], o)
         /\ Covers(new[k], t) <=> new[k].active
         /\ k \in 1..Len(rs) => /\ new[k].qty = rs[k].qty /\ new[k].first = rs[k].first
                                /\ new[k] = rs[k] \/ new[k].last = t
         /\ k \notin 1..Len(rs) => new[k].active /\ new[k].first = t /\ new[k].last = t
  BY <1>1, GrownCovers
<1>3. /\ Len(rs) \in Nat /\ Len(new) \in Nat /\ Len(rs) <= Len(new)
      /\ DOMAIN new = 1..Len(new)
  BY LenProperties DEF Grown
<1>4. \A k \in 1..Len(new) : new[k].first \in K \cup {t} /\ new[k].last \in K \cup {t}
  BY <1>1, <1>2
<1>5. Lasting(new)
  <2> SUFFICES ASSUME NEW k \in 1..Len(new), ~new[k].active
               PROVE  new[k].first < new[k].last
    BY DEF Lasting
  <2>1. k \in 1..Len(rs) /\ new[k].first = rs[k].first /\ (new[k] = rs[k] \/ new[k].last = t)
    BY <1>2
  <2>2. rs[k].first < t
    BY <1>1, <2>1
  <2> QED
    BY <1>1, <2>1, <2>2 DEF Lasting
<1>6. ASSUME NEW o \in K \cup {t}, NEW k \in 1..Len(new), Covers(new[k], o)
      PROVE  reports[o][a] # NotHeld /\ reports[o][a].qty = new[k].qty
  <2>1. CASE o \in K
    <3>1. k \in 1..Len(rs) /\ Covers(rs[k], o) /\ new[k].qty = rs[k].qty
      BY <1>2, <1>6, <2>1
    <3> QED
      BY <1>1, <2>1, <3>1
  <2>2. CASE o = t
    <3>1. new[k].active /\ k \in ActiveOf(new)
      BY <1>2, <1>3, <1>6, <2>2 DEF ActiveOf
    <3>2. PICK i \in ActiveOf(new) : reports[t][a] # NotHeld /\ SamePosition(new[i], reports[t][a])
      BY <3>1 DEF Reports
    <3>3. i = k
      BY <1>3, <3>1, <3>2 DEF ActiveOf, OnlyLastActive
    <3> QED
      BY <2>2, <3>2, <3>3 DEF SamePosition
  <2> QED
    BY <2>1, <2>2
<1>7. ASSUME NEW o \in K \cup {t}, reports[o][a] # NotHeld
      PROVE  \E k \in 1..Len(new) : Covers(new[k], o)
  <2>1. CASE o \in K
    <3>1. PICK k \in 1..Len(rs) : Covers(rs[k], o)
      BY <1>1, <1>7, <2>1
    <3>2. k \in 1..Len(new)
      BY <1>3
    <3> QED
      BY <1>2, <2>1, <3>1, <3>2
  <2>2. CASE o = t
    <3>1. PICK i \in ActiveOf(new) : SamePosition(new[i], reports[t][a])
      BY <1>7, <2>2 DEF Reports
    <3>2. i \in 1..Len(new) /\ new[i].active
      BY <1>3 DEF ActiveOf
    <3> QED
      BY <1>2, <2>2, <3>2
  <2> QED
    BY <2>1, <2>2
<1> QED
  BY <1>4, <1>5, <1>6, <1>7 DEF Tells

(* Rows that follow one another do not overlap, and begin one after another. *)
LEMMA RowsApart ==
    ASSUME NEW rs \in Seq(Row), Ordered(rs), OnlyLastActive(rs), Lasting(rs),
           NEW i \in 1..Len(rs), NEW j \in 1..Len(rs), i < j
    PROVE  ~rs[i].active /\ rs[i].first < rs[i].last /\ rs[i].last <= rs[j].first
<1>1. /\ Len(rs) \in Nat
      /\ \A k \in 1..Len(rs) : rs[k].first \in Nat /\ rs[k].last \in Nat
  BY RowNumbers
<1>2. ~rs[i].active /\ rs[i].first < rs[i].last
  BY <1>1 DEF OnlyLastActive, Lasting
<1> DEFINE Z == {d \in Nat : i + 1 + d <= Len(rs) => rs[i].last <= rs[i + 1 + d].first}
<1>3. \A k \in 2..Len(rs) : rs[k - 1].last <= rs[k].first
  BY DEF Ordered
<1>4. \A k \in 1..Len(rs) : rs[k].first <= rs[k].last
  BY DEF Ordered
<1>5. 0 \in Z
  <2>1. CASE i + 1 <= Len(rs)
    <3>1. i + 1 \in 2..Len(rs) /\ (i + 1) - 1 = i /\ i + 1 + 0 = i + 1
      BY <1>1, <2>1
    <3> QED
      BY <1>3, <3>1
  <2> QED
    BY <1>1, <2>1
<1>6. ASSUME NEW d \in Z
      PROVE  d + 1 \in Z
  <2>1. CASE i + 1 + (d + 1) <= Len(rs)
    <3>1. /\ i + 1 + (d + 1) \in 2..Len(rs) /\ (i + 1 + (d + 1)) - 1 = i + 1 + d
          /\ i + 1 + d \in 1..Len(rs) /\ i + 1 + d <= Len(rs) /\ i + 1 + (d + 1) \in 1..Len(rs)
      BY <1>1, <2>1
    <3>2. rs[i].last <= rs[i + 1 + d].first
      BY <3>1
    <3>3. rs[i + 1 + d].last <= rs[i + 1 + (d + 1)].first
      BY <1>3, <3>1
    <3>4. rs[i + 1 + d].first <= rs[i + 1 + d].last
      BY <1>4, <3>1
    <3>5. rs[i].last \in Nat /\ rs[i + 1 + d].first \in Nat /\ rs[i + 1 + d].last \in Nat
          /\ rs[i + 1 + (d + 1)].first \in Nat
      BY <1>1, <3>1
    <3>6. \A u, v, w, x \in Nat : u <= v /\ v <= w /\ w <= x => u <= x
      OBVIOUS
    <3>7. rs[i].last <= rs[i + 1 + (d + 1)].first
      BY <3>2, <3>3, <3>4, <3>5, <3>6, Zenon
    <3> QED
      BY <3>7
  <2> QED
    BY <2>1
<1>7. \A d \in Nat : d \in Z
  <2> HIDE DEF Z
  <2>1. Z \in SUBSET Nat
    BY DEF Z
  <2> QED
    BY <1>5, <1>6, <2>1, NumbersFromZero
<1>8. j - i - 1 \in Nat /\ i + 1 + (j - i - 1) = j /\ j <= Len(rs)
  BY <1>1
<1>9. rs[i].last <= rs[j].first
  BY <1>7, <1>8
<1> QED
  BY <1>2, <1>9

(* Rows that follow one another are read in the order of the table. *)
LEMMA InTimeOrderOfOrdered ==
    ASSUME NEW rs \in Seq(Row), Ordered(rs), OnlyLastActive(rs), Lasting(rs)
    PROVE  InTimeOrder(rs) = rs
<1>1. /\ Len(rs) \in Nat /\ DOMAIN rs = 1..Len(rs)
      /\ \A k \in 1..Len(rs) : rs[k].first \in Nat /\ rs[k].last \in Nat
  BY RowNumbers
<1>2. ASSUME NEW i \in 1..Len(rs), NEW j \in 1..Len(rs), i < j
      PROVE  rs[i].first < rs[j].first
  <2>1. rs[i].first < rs[i].last /\ rs[i].last <= rs[j].first
    BY <1>2, RowsApart
  <2> QED
    BY <1>1, <2>1
<1>3. ASSUME NEW k \in 1..Len(rs)
      PROVE  {i \in DOMAIN rs : Precedes(rs, i, k)} = 1..(k - 1)
  <2>1. ASSUME NEW i \in 1..Len(rs)
        PROVE  Precedes(rs, i, k) <=> i < k
    <3>1. CASE i < k
      BY <1>1, <1>2, <3>1 DEF Precedes
    <3>2. CASE i = k
      BY <1>1, <3>2 DEF Precedes
    <3>3. CASE k < i
      <4>1. rs[k].first < rs[i].first
        BY <1>2, <3>3
      <4> QED
        BY <1>1, <3>3, <4>1 DEF Precedes
    <3> QED
      BY <1>1, <3>1, <3>2, <3>3
  <2> QED
    BY <1>1, <2>1
<1>4. ASSUME NEW k \in 1..Len(rs)
      PROVE  Cardinality({i \in DOMAIN rs : Precedes(rs, i, k)}) = k - 1
  <2>1. Cardinality(1..(k - 1)) = k - 1
    <3>1. 1 \in Int /\ k - 1 \in Int /\ ~(1 > k - 1 /\ k - 1 # 0)
      BY <1>1
    <3>2. Cardinality(1..(k - 1)) = IF 1 > k - 1 THEN 0 ELSE (k - 1) - 1 + 1
      BY <3>1, FS_Interval
    <3> QED
      BY <3>1, <3>2
  <2> QED
    BY <1>3, <2>1
<1> DEFINE rank(k) == Cardinality({i \in DOMAIN rs : Precedes(rs, i, k)})
           nth(n) == CHOOSE k \in DOMAIN rs : rank(k) = n - 1
<1>5. ASSUME NEW n \in 1..Len(rs)
      PROVE  nth(n) = n
  <2>1. \A k \in DOMAIN rs : rank(k) = k - 1
    BY <1>1, <1>4
  <2> HIDE DEF rank
  <2>2. n \in DOMAIN rs /\ rank(n) = n - 1
    BY <1>1, <2>1
  <2>3. nth(n) \in DOMAIN rs /\ rank(nth(n)) = n - 1
    BY <2>2
  <2> HIDE DEF nth
  <2>4. nth(n) - 1 = n - 1
    BY <2>1, <2>3
  <2> QED
    BY <1>1, <2>3, <2>4
<1>6. InTimeOrder(rs) = [n \in DOMAIN rs |-> rs[nth(n)]]
  BY DEF InTimeOrder
<1>7. \A n \in DOMAIN rs : rs[nth(n)] = rs[n]
  <2> HIDE DEF nth
  <2> QED
    BY <1>1, <1>5
<1>8. rs = [n \in DOMAIN rs |-> rs[n]]
  OBVIOUS
<1> HIDE DEF nth
<1> QED
  BY <1>6, <1>7, <1>8, Zenon

-----------------------------------------------------------------------------
(* The history and its readers.                                              *)

(* The rows tell what was observed, and positions are committed in order.    *)
KeptTold ==
    /\ \A o \in kept : o # None
    /\ Settled(lastPositions)
    /\ \A a \in Assets : Tells(rows[a], kept, log, a)

(* What holds of the history while a load reads it.                          *)
HistInv == ViewInv /\ KeptTold

(* What an observation reported is not rewritten. *)
LEMMA KeptReports ==
    ASSUME TypeInv, [Next]_vars, NEW o \in Nat, o # None, o <= Len(log)
    PROVE  log'[o] = log[o]
<1>1. log \in Seq(Snapshots) /\ Len(log) \in Nat /\ o \in 1..Len(log)
  BY LenProperties DEF TypeInv, TypeOK, None
<1>2. CASE \E w \in Writers : Observe(w)
  <2>1. PICK content \in Snapshots : log' = Append(log, content)
    BY <1>2 DEF Observe
  <2> QED
    BY <1>1, <2>1, AppendProperties
<1>3. CASE ~\E w \in Writers : Observe(w)
  BY <1>3 DEF Next, WriterStep, ServerStep, Send, GatewayError, Select,
       SelectPositions, SelectValue, CommitPositions, CommitValue, CommitWeights,
       CommitEvents, Reply, ToolError, Restart, vars, writerVars
<1> QED
  BY <1>2, <1>3

(* Behind the positions that were committed last only newer ones are to be   *)
(* stored.                                                                   *)
LEMMA CommitSettles ==
    ASSUME OneProcess, OneWriter, TypeInv, InOrder, NEW s \in Servers, CommitPositions(s)
    PROVE  Settled(lastPositions)'
<1> DEFINE c == Serving(s)
           u == c.writer
<1>1. /\ Busy(s) /\ Reply(s, TRUE) /\ c.tool = "positions" /\ lastPositions' = c.obs
  BY DEF CommitPositions
<1>2. c = queue[s][1] /\ 1 \in 1..Len(queue[s])
  BY <1>1, QueueSound, ServingResult
<1>3. /\ log' = log /\ stamp' = stamp
      /\ \A i \in 1..Len(queue'[s]) :
            i + 1 \in 1..Len(queue[s]) /\ queue'[s][i] = queue[s][i + 1]
      /\ \A w \in Writers : pc'[w] = "positions" => pc[w] = "positions"
  BY <1>1, ReplyShifts
<1>4. c.obs \in Nat /\ c.obs <= Len(log) /\ u \in Writers /\ c.live \in BOOLEAN
  BY <1>2, Numbers
<1>5. ASSUME NEW w \in Writers, pc'[w] = "positions"
      PROVE  c.obs < stamp'[w]
  <2>1. CallInOrder(w, c) /\ pc[w] = "positions"
    BY <1>2, <1>3, <1>5 DEF InOrder
  <2>2. CASE c.live
    <3>1. u = w /\ DOMAIN pc = Writers
      BY <1>4 DEF OneWriter, TypeInv, TypeOK
    <3>2. pc' = [pc EXCEPT ![u] = "value"]
      BY <1>1, <2>2 DEF Reply, NextTool
    <3>3. pc'[w] = "value"
      BY <1>4, <3>1, <3>2
    <3> QED
      BY <1>5, <3>3
  <2>3. CASE ~c.live
    BY <1>3, <2>1, <2>3 DEF CallInOrder
  <2> QED
    BY <1>4, <2>2, <2>3
<1>6. ASSUME NEW i \in 1..Len(queue'[s]), queue'[s][i].tool = "positions"
      PROVE  c.obs < queue'[s][i].obs
  <2>1. /\ i + 1 \in 1..Len(queue[s]) /\ 1 < i + 1
        /\ queue'[s][i] = queue[s][i + 1]
    <3>1. i + 1 \in 1..Len(queue[s]) /\ queue'[s][i] = queue[s][i + 1]
      BY <1>3
    <3>2. i \in Nat \ {0}
      BY ONLY <1>6
    <3> QED
      BY <3>1, <3>2
  <2>2. QueueInOrder(s)
    BY DEF InOrder
  <2> QED
    BY <1>2, <1>6, <2>1, <2>2 DEF QueueInOrder
<1>7. \A r \in Servers : r = s
  BY DEF OneProcess
<1> HIDE DEF c
<1>8. /\ lastPositions' <= Len(log')
      /\ \A w \in Writers : pc'[w] = "positions" => lastPositions' < stamp'[w]
      /\ \A r \in Servers : \A i \in 1..Len(queue'[r]) :
            queue'[r][i].tool = "positions" => lastPositions' < queue'[r][i].obs
  BY <1>1, <1>3, <1>4, <1>5, <1>6, <1>7
<1> QED
  BY <1>8 DEF Settled

(* Behind the positions committed last only newer ones are ever to be        *)
(* stored.                                                                   *)
LEMMA LastSettled ==
    ASSUME OneProcess, OneWriter, TypeInv, InOrder, [Next]_vars, Settled(lastPositions)
    PROVE  Settled(lastPositions)'
<1>1. CASE \E s \in Servers : CommitPositions(s)
  BY <1>1, CommitSettles
<1>2. CASE ~\E s \in Servers : CommitPositions(s)
  <2>1. lastPositions' = lastPositions
    BY <1>2 DEF Next, WriterStep, ServerStep, Observe, Send, GatewayError, Select,
         SelectPositions, SelectValue, CommitValue, CommitWeights, CommitEvents,
         ToolError, Restart, vars, tables
  <2>2. PICK v \in Nat : v = lastPositions
    BY Numbers
  <2>3. Settled(v)'
    BY <2>2, SettledStays
  <2> QED
    BY <2>1, <2>2, <2>3 DEF Settled
<1> QED
  BY <1>1, <1>2

(* Every step of the store keeps what the rows tell. *)
LEMMA StoreTells ==
    ASSUME OneProcess, OneWriter, HistInv, [Next]_vars,
           \/ kept' = kept /\ lastPositions' = lastPositions
           \/ kept' = kept \cup ({lastPositions'} \ {None})
    PROVE  KeptTold'
<1>1. /\ TypeInv /\ StoreInv /\ InOrder /\ OrderInv /\ ChangeInv /\ ViewInv
      /\ lastPositions \in Nat /\ Len(log) \in Nat /\ lastPositions <= Len(log)
      /\ Settled(lastPositions)
      /\ \A o \in kept : o # None /\ o \in Nat /\ o <= lastPositions
      /\ \A a \in Assets : Tells(rows[a], kept, log, a)
      /\ lastPositions # None => lastPositions \in kept
  <2>1. TypeInv /\ StoreInv /\ InOrder /\ OrderInv /\ ChangeInv /\ ViewInv
    BY DEF HistInv, ViewInv, OrderInv, ChangeInv, StoreInv
  <2> QED
    BY <2>1, Numbers DEF HistInv, KeptTold, ViewInv, KeptInv
<1>2. Settled(lastPositions)'
  BY <1>1, LastSettled
<1>3. \A o \in kept : log'[o] = log[o]
  BY <1>1, KeptReports
<1>4. CASE \E s \in Servers : CommitPositions(s)
  <2>1. PICK s \in Servers : CommitPositions(s)
    BY <1>4
  <2>2. PICK c : c = Serving(s)
    OBVIOUS
  <2>3. \A a \in Assets : OnlyLastActive(rows[a])
    BY <1>1, ChangeOnlyLast DEF ChangeInv
  <2>4. /\ c.obs \in 1..Len(log) /\ c.obs \in Nat /\ c.tool = "positions"
        /\ c = queue[s][1] /\ 1 \in 1..Len(queue[s])
        /\ lastPositions' = c.obs /\ log' = log
        /\ \A a \in Assets :
              /\ rows[a] \in Seq(Row) /\ rows'[a] \in Seq(Row)
              /\ Grown(rows[a], rows'[a], c.obs)
              /\ IF log[c.obs][a] = NotHeld THEN ActiveOf(rows'[a]) = {}
                                            ELSE Reports(rows'[a], log[c.obs][a])
    BY <1>1, <2>1, <2>2, <2>3, CommitGrows
  <2>5. lastPositions < c.obs /\ c.obs # None
    BY <1>1, <2>1, <2>4 DEF Settled, None
  <2>6. kept' = kept \cup {c.obs}
    BY <1>1, <2>4, <2>5
  <2>7. \A a \in Assets : OnlyLastActive(rows'[a])
    <3>1. TypeInv' /\ InsertOnlyOnChange'
      BY <1>1, NextChangeInv DEF ChangeInv, StoreInv
    <3>2. \A a \in Assets : InsertedOnChange(rows'[a])
      BY <3>1 DEF InsertOnlyOnChange, InsertedOnChange
    <3> QED
      BY <2>4, <3>2, InsertedOnlyLast
  <2>8. kept \in SUBSET Nat /\ \A o \in kept : o < c.obs
    BY <1>1, <2>4, <2>5
  <2>9. ASSUME NEW a \in Assets
        PROVE  Tells(rows'[a], kept', log', a)
    BY <1>1, <2>4, <2>6, <2>7, <2>8, GrownTells
  <2> QED
    BY <1>1, <1>2, <2>5, <2>6, <2>9 DEF KeptTold, Tells, Lasting, Covers
<1>5. CASE ~\E s \in Servers : CommitPositions(s)
  <2>1. rows' = rows /\ lastPositions' = lastPositions
    BY <1>5, OnlyPositionsChangeRows
       DEF Next, WriterStep, ServerStep, Observe, Send, GatewayError, Select,
           SelectPositions, SelectValue, CommitValue, CommitWeights, CommitEvents,
           ToolError, Restart, vars, tables
  <2>2. kept' = kept
    BY <1>1, <2>1
  <2>3. ASSUME NEW a \in Assets
        PROVE  Tells(rows[a], kept, log', a)
    BY <1>1, <1>3 DEF Tells
  <2> QED
    BY <1>1, <1>2, <2>1, <2>2, <2>3 DEF KeptTold, Tells, Lasting, Covers
<1> QED
  BY <1>4, <1>5

(* A load reads the history and changes nothing in it. *)
LEMMA DashboardStepIsView ==
    ASSUME [BaselineNext]_baselineVars
    PROVE  \/ [ViewNext]_allVars
           \/ UNCHANGED <<vars, at, kept>> /\ (ReadGrowth \/ ReadChanges)
  BY DEF BaselineNext, DashboardStep, ReadGrowth, ReadChanges, baselineVars, allVars

(* Every step, a read of a load included, keeps the history as it was told.  *)
LEMMA NextHistInv ==
    ASSUME OneProcess, OneWriter, HistInv, [BaselineNext]_baselineVars
    PROVE  HistInv'
<1>1. CASE [ViewNext]_allVars
  <2>1. ViewInv' /\ [Next]_vars
    BY <1>1, NextViewInv, ViewStep DEF HistInv
  <2>2. \/ kept' = kept /\ lastPositions' = lastPositions
        \/ kept' = kept \cup ({lastPositions'} \ {None})
    BY <1>1 DEF ViewNext, StoreStep, ReaderStep, RestartAll, ReadStatus, ReadState, ReadValue,
         ReadWeights, ReadPositions, StartOver, WriterStep, Observe, Send, GatewayError,
         Restart, allVars, vars, tables
  <2> QED
    BY <2>1, <2>2, StoreTells DEF HistInv
<1>2. CASE UNCHANGED <<vars, at, kept>> /\ (ReadGrowth \/ ReadChanges)
  <2>1. [Next]_vars /\ OrderInv'
    BY <1>2, NextOrderInv DEF HistInv, ViewInv
  <2>2. /\ kept' = kept /\ lastPositions' = lastPositions /\ log' = log /\ pc' = pc
        /\ stamp' = stamp /\ queue' = queue
    BY <1>2 DEF vars, tables
  <2>3. KeptTold'
    BY <2>1, <2>2, StoreTells
  <2>4. /\ phase' \in {"changes", "packed"} /\ status' \in Nat
        /\ view' \in [value : Nat, weights : Nat, positions : Nat] /\ view'.value = view.value
    BY <1>2 DEF ReadGrowth, ReadChanges, HistInv, ViewInv, ViewTypes, NoView, None
  <2>5. ViewTypes'
    BY <2>4 DEF ViewTypes, Phases
  <2>6. KeptInv'
    BY <2>2 DEF HistInv, ViewInv, KeptInv
  <2>7. view'.value # None => Settled(view.value)'
    BY <2>2, <2>4 DEF HistInv, ViewInv, ReadInv, Settled
  <2>8. ReadInv'
    BY <2>4, <2>7 DEF ReadInv, PositionsNotOlder, Shown
  <2> QED
    BY <2>1, <2>3, <2>5, <2>6, <2>8 DEF HistInv, ViewInv
<1> QED
  BY <1>1, <1>2, DashboardStepIsView

(* Before anything is stored there is nothing to tell.                       *)
LEMMA InitHistInv ==
    ASSUME BaselineInit
    PROVE  HistInv
<1>1. ViewInv
  BY InitViewInv DEF BaselineInit
<1>2. /\ kept = {} /\ lastPositions = 0 /\ \A a \in Assets : Len(rows[a]) = 0
      /\ \A w \in Writers : pc[w] # "positions"
      /\ \A s \in Servers : Len(queue[s]) = 0 
      /\ Len(log) = 0
  BY EmptySeq DEF BaselineInit, ViewInit, Init, None
<1>3. Settled(lastPositions)
  BY <1>2 DEF Settled
<1>4. \A a \in Assets : Tells(rows[a], kept, log, a)
  BY <1>2 DEF Tells, Lasting
<1> QED
  BY <1>1, <1>2, <1>3, <1>4 DEF HistInv, KeptTold

-----------------------------------------------------------------------------
(* The changes of an asset are the turns of its rows.                        *)

(* The rows of an asset that tell what was kept of it. *)
Telling(rs, K, reports, a) ==
    Ordered(rs) /\ OnlyLastActive(rs) /\ Tells(rs, K, reports, a)

(* The changes between rows are numbered by the later row, the closing of    *)
(* the last row by the number behind it.                                     *)
Turns(rs) == {i \in 2..(Len(rs) + 1) : i <= Len(rs) \/ ~rs[Len(rs)].active}

TurnAt(rs, i) == IF i <= Len(rs) THEN rs[i].first ELSE rs[Len(rs)].last

After(rs, i) == IF i <= Len(rs) THEN {rs[i].qty} ELSE {}

IsTurn(c, rs, i) ==
    c.at = TurnAt(rs, i) /\ c.before = {rs[i - 1].qty} /\ c.after = After(rs, i)

(* The changes of an asset are the turns of its rows. *)
LEMMA ChangesAreTurns ==
    ASSUME NEW rs \in Seq(Row), InTimeOrder(rs) = rs, NEW a
    PROVE  /\ \A c \in AssetChanges(a, rs, FALSE) : \E i \in Turns(rs) : IsTurn(c, rs, i)
           /\ \A i \in Turns(rs) : \E c \in AssetChanges(a, rs, FALSE) : IsTurn(c, rs, i)
<1>1. Len(rs) \in Nat /\ DOMAIN rs = 1..Len(rs)
  BY RowNumbers
<1> DEFINE deltas == {DeltaChange(a, rs[i - 1], rs[i]) : i \in 2..Len(rs)}
<1>2. AssetChanges(a, rs, FALSE) = deltas \cup Closed(a, rs)
  BY DEF AssetChanges
<1>3. ASSUME NEW i \in 2..Len(rs)
      PROVE  IsTurn(DeltaChange(a, rs[i - 1], rs[i]), rs, i) /\ i \in Turns(rs)
  BY <1>1 DEF IsTurn, DeltaChange, Change, TurnAt, After, Turns
<1>4. ASSUME Len(rs) \in 1..Len(rs), ~rs[Len(rs)].active
      PROVE  /\ IsTurn(ClosedChange(a, rs[Len(rs)]), rs, Len(rs) + 1)
             /\ Len(rs) + 1 \in Turns(rs) /\ ClosedChange(a, rs[Len(rs)]) \in Closed(a, rs)
  <2>1. /\ ~(Len(rs) + 1 <= Len(rs)) /\ (Len(rs) + 1) - 1 = Len(rs)
        /\ Len(rs) + 1 \in 2..(Len(rs) + 1)
    BY <1>1, <1>4
  <2>2. IsTurn(ClosedChange(a, rs[Len(rs)]), rs, Len(rs) + 1)
    BY <2>1 DEF IsTurn, ClosedChange, Change, TurnAt, After
  <2>3. Len(rs) \in {k \in DOMAIN rs : k = Len(rs) /\ ~rs[k].active}
    BY <1>1, <1>4
  <2> QED
    BY <1>4, <2>1, <2>2, <2>3 DEF Turns, Closed
<1>5. ASSUME NEW c \in AssetChanges(a, rs, FALSE)
      PROVE  \E i \in Turns(rs) : IsTurn(c, rs, i)
  <2>1. CASE c \in deltas
    <3>1. PICK i \in 2..Len(rs) : c = DeltaChange(a, rs[i - 1], rs[i])
      BY <2>1
    <3> QED
      BY <1>3, <3>1
  <2>2. CASE c \in Closed(a, rs)
    <3>1. /\ Len(rs) \in 1..Len(rs) /\ ~rs[Len(rs)].active
          /\ c = ClosedChange(a, rs[Len(rs)])
      BY <1>1, <2>2 DEF Closed
    <3> QED
      BY <1>4, <3>1
  <2> QED
    BY <1>2, <1>5, <2>1, <2>2
<1>6. ASSUME NEW i \in Turns(rs)
      PROVE  \E c \in AssetChanges(a, rs, FALSE) : IsTurn(c, rs, i)
  <2>1. i \in 2..(Len(rs) + 1) /\ (i <= Len(rs) \/ ~rs[Len(rs)].active)
    BY DEF Turns
  <2>2. CASE i <= Len(rs)
    <3>1. i \in 2..Len(rs)
      BY <1>1, <2>1, <2>2
    <3>2. DeltaChange(a, rs[i - 1], rs[i]) \in deltas
      BY <3>1
    <3> HIDE DEF deltas
    <3> QED
      BY <1>2, <1>3, <3>1, <3>2
  <2>3. CASE ~(i <= Len(rs))
    <3>1. i = Len(rs) + 1 /\ Len(rs) \in 1..Len(rs) /\ ~rs[Len(rs)].active
      BY <1>1, <2>1, <2>3
    <3> QED
      BY <1>2, <1>4, <3>1
  <2> QED
    BY <2>2, <2>3
<1> QED
  BY <1>5, <1>6

(* Where a turn lies: behind the beginning of the row before it, at a time   *)
(* that was kept.                                                            *)
LEMMA TurnPlace ==
    ASSUME NEW rs \in Seq(Row), NEW K \in SUBSET Nat, NEW reports, NEW a,
           Telling(rs, K, reports, a), NEW i \in Turns(rs)
    PROVE  /\ i \in Nat /\ i - 1 \in 1..Len(rs) /\ TurnAt(rs, i) \in K
           /\ rs[i - 1].first \in K /\ rs[i - 1].first < TurnAt(rs, i)
           /\ Covers(rs[i - 1], rs[i - 1].first)
           /\ \A k \in 1..Len(rs) : k < i => ~rs[k].active /\ rs[k].last <= TurnAt(rs, i)
           /\ i <= Len(rs) => i \in 1..Len(rs) /\ TurnAt(rs, i) = rs[i].first
<1>1. /\ Len(rs) \in Nat
      /\ \A k \in 1..Len(rs) :
            rs[k].first \in Nat /\ rs[k].last \in Nat /\ rs[k].active \in BOOLEAN
  BY RowNumbers
<1>2. /\ Ordered(rs) /\ OnlyLastActive(rs) /\ Lasting(rs)
      /\ \A k \in 1..Len(rs) : rs[k].first \in K /\ rs[k].last \in K
  BY DEF Telling, Tells
<1>3. i \in 2..(Len(rs) + 1) /\ (i <= Len(rs) \/ ~rs[Len(rs)].active)
  BY DEF Turns
<1>4. i \in Nat /\ i - 1 \in 1..Len(rs) /\ i - 1 < i /\ Len(rs) \in 1..Len(rs)
      /\ (i <= Len(rs) => i \in 1..Len(rs)) /\ (~(i <= Len(rs)) => i = Len(rs) + 1)
  BY <1>1, <1>3
<1>5. TurnAt(rs, i) \in K
  BY <1>2, <1>4 DEF TurnAt
<1>6. ASSUME NEW k \in 1..Len(rs), k < i
      PROVE  ~rs[k].active /\ rs[k].first < rs[k].last /\ rs[k].last <= TurnAt(rs, i)
  <2>1. CASE i <= Len(rs)
    <3>1. ~rs[k].active /\ rs[k].first < rs[k].last /\ rs[k].last <= rs[i].first
      BY <1>2, <1>4, <1>6, <2>1, RowsApart
    <3> QED
      BY <2>1, <3>1 DEF TurnAt
  <2>2. CASE ~(i <= Len(rs)) /\ k = Len(rs)
    <3>1. ~rs[k].active /\ rs[k].first < rs[k].last
      BY <1>2, <1>3, <2>2 DEF Lasting
    <3> QED
      BY <1>1, <2>2, <3>1 DEF TurnAt
  <2>3. CASE ~(i <= Len(rs)) /\ k # Len(rs)
    <3>1. k < Len(rs)
      BY <1>1, <2>3
    <3>2. ~rs[k].active /\ rs[k].first < rs[k].last /\ rs[k].last <= rs[Len(rs)].first
      BY <1>2, <1>4, <3>1, RowsApart
    <3>3. rs[Len(rs)].first <= rs[Len(rs)].last
      BY <1>2, <1>4 DEF Ordered
    <3>4. rs[k].last <= rs[Len(rs)].last
      BY <1>1, <1>4, <3>2, <3>3
    <3> QED
      BY <2>3, <3>2, <3>4 DEF TurnAt
  <2> QED
    BY <2>1, <2>2, <2>3
<1>7. rs[i - 1].first < rs[i - 1].last /\ rs[i - 1].last <= TurnAt(rs, i)
  BY <1>4, <1>6
<1>8. rs[i - 1].first < TurnAt(rs, i)
  <2>1. rs[i - 1].first \in Nat /\ rs[i - 1].last \in Nat /\ TurnAt(rs, i) \in Nat
    BY <1>1, <1>4, <1>5
  <2> QED
    BY <1>7, <2>1
<1>9. Covers(rs[i - 1], rs[i - 1].first)
  BY <1>1, <1>4, <1>7 DEF Covers
<1> QED
  BY <1>2, <1>4, <1>5, <1>6, <1>8, <1>9 DEF TurnAt

(* The turns come one after another. *)
LEMMA TurnsInOrder ==
    ASSUME NEW rs \in Seq(Row), NEW K \in SUBSET Nat, NEW reports, NEW a,
           Telling(rs, K, reports, a), NEW i \in Turns(rs), NEW j \in Turns(rs), i < j
    PROVE  TurnAt(rs, i) < TurnAt(rs, j)
<1>1. i \in Nat /\ j \in Nat /\ TurnAt(rs, i) \in K /\ TurnAt(rs, j) \in K
      /\ j - 1 \in 1..Len(rs) /\ rs[j - 1].first < TurnAt(rs, j) /\ rs[j - 1].first \in K
      /\ (i <= Len(rs) => i \in 1..Len(rs) /\ TurnAt(rs, i) = rs[i].first)
      /\ Len(rs) \in Nat
  BY TurnPlace, RowNumbers
<1>2. i \in 1..Len(rs) /\ TurnAt(rs, i) = rs[i].first
  BY <1>1
<1>3. CASE i = j - 1
  BY <1>1, <1>2, <1>3
<1>4. CASE i # j - 1
  <2>1. i < j - 1
    BY <1>1, <1>4
  <2>2. rs[i].first < rs[i].last /\ rs[i].last <= rs[j - 1].first
    BY <1>1, <1>2, <2>1, RowsApart DEF Telling, Tells
  <2>3. rs[i].first \in Nat /\ rs[i].last \in Nat /\ rs[j - 1].first \in Nat /\ TurnAt(rs, j) \in Nat
    BY <1>1, <1>2, RowNumbers
  <2> QED
    BY <1>1, <1>2, <2>2, <2>3
<1> QED
  BY <1>3, <1>4

(* The row that speaks for an observation lies on the same side of a turn.   *)
LEMMA CoveringSide ==
    ASSUME NEW rs \in Seq(Row), NEW K \in SUBSET Nat, NEW reports, NEW a,
           Telling(rs, K, reports, a), NEW i \in Turns(rs),
           NEW o \in K, NEW k \in 1..Len(rs), Covers(rs[k], o)
    PROVE  IF TurnAt(rs, i) <= o THEN i <= k ELSE k < i
<1>1. /\ i \in Nat /\ TurnAt(rs, i) \in Nat /\ Len(rs) \in Nat
      /\ (i <= Len(rs) => i \in 1..Len(rs) /\ TurnAt(rs, i) = rs[i].first)
      /\ \A j \in 1..Len(rs) : j < i => ~rs[j].active /\ rs[j].last <= TurnAt(rs, i)
  BY TurnPlace, RowNumbers
<1>2. /\ o \in Nat /\ k \in Nat /\ rs[k].first \in Nat /\ rs[k].last \in Nat
      /\ rs[k].first <= o /\ (o < rs[k].last \/ rs[k].active)
  <2>1. o \in Nat /\ k \in Nat
    OBVIOUS
  <2>2. rs[k].first \in Nat /\ rs[k].last \in Nat
    BY RowNumbers
  <2>3. rs[k].first <= o /\ (o < rs[k].last \/ rs[k].active)
    BY DEF Covers
  <2> QED
    BY <2>1, <2>2, <2>3, Zenon
<1>3. ASSUME TurnAt(rs, i) <= o, k < i
      PROVE  FALSE
  BY <1>1, <1>2, <1>3
<1>4. ASSUME ~(TurnAt(rs, i) <= o), i <= k
      PROVE  FALSE
  <2>1. i \in 1..Len(rs) /\ TurnAt(rs, i) = rs[i].first
    BY <1>1, <1>4
  <2>2. CASE i = k
    BY <1>1, <1>2, <1>4, <2>1, <2>2
  <2>3. CASE i # k
    <3>1. i < k
      BY <1>1, <1>2, <1>4, <2>3
    <3>2. rs[i].first < rs[i].last /\ rs[i].last <= rs[k].first
      BY <2>1, <3>1, RowsApart DEF Telling, Tells
    <3>3. rs[i].first \in Nat /\ rs[i].last \in Nat
      BY <2>1, RowNumbers
    <3> QED
      BY <1>1, <1>2, <1>4, <2>1, <3>2, <3>3
  <2> QED
    BY <2>2, <2>3
<1> QED
  BY <1>1, <1>2, <1>3, <1>4

-----------------------------------------------------------------------------
(* The changes, replayed.                                                    *)

(* The invariant, per asset. *)
LEMMA HistTelling ==
    ASSUME HistInv
    PROVE  /\ kept \in SUBSET Nat /\ \A o \in kept : o <= lastPositions
           /\ lastPositions \in Nat
           /\ \A a \in Assets : /\ rows[a] \in Seq(Row)
                                /\ Telling(rows[a], kept, log, a)
                                /\ InTimeOrder(rows[a]) = rows[a]
<1>1. /\ TypeInv /\ OrderInv /\ KeptInv /\ InsertOnlyOnChange /\ TimelineOrdered /\ KeptTold
  BY DEF HistInv, ViewInv, OrderInv, ChangeInv, StoreInv
<1>2. kept \in SUBSET Nat /\ (\A o \in kept : o <= lastPositions) /\ lastPositions \in Nat
  BY <1>1, Numbers DEF KeptInv
<1>3. ASSUME NEW a \in Assets
      PROVE  /\ rows[a] \in Seq(Row) /\ Telling(rows[a], kept, log, a)
             /\ InTimeOrder(rows[a]) = rows[a]
  <2>1. rows[a] \in Seq(Row)
    BY <1>1 DEF TypeInv, TypeOK
  <2>2. OnlyLastActive(rows[a])
    BY <1>1, ChangeOnlyLast
  <2>3. Ordered(rows[a])
    BY <1>1, <2>1, LenProperties DEF TimelineOrdered, Ordered
  <2>4. Tells(rows[a], kept, log, a) /\ Lasting(rows[a])
    BY <1>1 DEF KeptTold, Tells
  <2> QED
    BY <2>1, <2>2, <2>3, <2>4, InTimeOrderOfOrdered DEF Telling
<1> QED
  BY <1>2, <1>3

(* The latest of a bounded set of observations is its greatest.              *)
LEMMA LatestOf ==
    ASSUME NEW S \in SUBSET Nat, NEW m \in Nat, S # {}, \A x \in S : x <= m
    PROVE  B!Latest(S) \in S /\ \A x \in S : x <= B!Latest(S)
<1>1. \E x \in S : \A y \in S : y <= x
  BY GreatestExists
<1> QED
  BY <1>1 DEF B!Latest

(* What was held at a time was told by the newest observation kept by then.  *)
LEMMA HeldAtResult ==
    ASSUME HistInv, NEW a \in Assets, NEW t \in Nat, NEW p \in kept, p <= t
    PROVE  \E o \in kept :
              /\ o <= t /\ \A q \in kept : q <= t => q <= o
              /\ HeldAt(a, t) = IF log[o][a] = NotHeld THEN {} ELSE {log[o][a].qty}
<1> DEFINE past == {o \in kept : o <= t}
           o == B!Latest(past)
<1>1. past \in SUBSET Nat /\ past # {} /\ \A x \in past : x <= t
  BY HistTelling
<1>2. o \in past /\ \A q \in past : q <= o
  <2> HIDE DEF past
  <2> QED
    BY <1>1, LatestOf
<1>3. HeldAt(a, t) = IF past = {} \/ log[o][a] = NotHeld THEN {} ELSE {log[o][a].qty}
  BY DEF HeldAt
<1>4. HeldAt(a, t) = IF log[o][a] = NotHeld THEN {} ELSE {log[o][a].qty}
  <2> HIDE DEF past, o
  <2> QED
    BY <1>1, <1>3
<1>5. o \in kept /\ o <= t /\ \A q \in kept : q <= t => q <= o
  <2> HIDE DEF o
  <2> QED
    BY <1>2
<1> HIDE DEF o
<1> QED
  BY <1>4, <1>5

(* The last turn of an asset's rows, or its first row if there is no turn.   *)
LastPlace(rs) == IF rs[Len(rs)].active THEN Len(rs) ELSE Len(rs) + 1

(* The rows told back from the first on end with the last turn. *)
LEMMA LastChange ==
    ASSUME NEW rs \in Seq(Row), NEW K \in SUBSET Nat, NEW reports, NEW a,
           Telling(rs, K, reports, a), InTimeOrder(rs) = rs, rs # <<>>
    PROVE  /\ \E c \in AssetChanges(a, rs, TRUE) : c.at = TurnAt(rs, LastPlace(rs))
           /\ TurnAt(rs, LastPlace(rs)) \in Nat
           /\ \A c \in AssetChanges(a, rs, TRUE) :
                 /\ c.at \in Nat /\ c.at <= TurnAt(rs, LastPlace(rs))
                 /\ c.at = TurnAt(rs, LastPlace(rs)) => c.after = After(rs, LastPlace(rs))
<1> DEFINE n == Len(rs)
           j == LastPlace(rs)
           ic == InitialChange(a, rs[1])
<1>1. /\ n \in Nat /\ n # 0 /\ 1 \in 1..n /\ n \in 1..n
      /\ \A k \in 1..n : rs[k].first \in Nat /\ rs[k].last \in Nat
  <2>1. n \in Nat /\ \A k \in 1..n : rs[k].first \in Nat /\ rs[k].last \in Nat
    BY RowNumbers
  <2>2. n # 0
    BY EmptySeq
  <2> QED
    BY <2>1, <2>2
<1>2. /\ ic.at = rs[1].first /\ ic.after = {rs[1].qty}
      /\ AssetChanges(a, rs, TRUE) = AssetChanges(a, rs, FALSE) \cup {ic}
  BY DEF InitialChange, Change, AssetChanges
<1>3. /\ j \in Nat /\ j \in 1..(n + 1)
      /\ j # 1 => j \in Turns(rs)
      /\ \A i \in Turns(rs) : i <= j
  <2>1. CASE rs[n].active
    <3>1. j = n /\ \A i \in Turns(rs) : i \in 2..(n + 1) /\ i <= n
      BY <2>1 DEF LastPlace, Turns
    <3>2. n # 1 => n \in 2..(n + 1) /\ n <= n
      <4>1. \A m \in Nat : m # 0 /\ m # 1 => m \in 2..(m + 1) /\ m <= m
        OBVIOUS
      <4> QED
        BY <1>1, <4>1, Zenon
    <3>3. n # 1 => n \in Turns(rs)
      BY <3>2 DEF Turns
    <3> QED
      BY <1>1, <3>1, <3>3
  <2>2. CASE ~rs[n].active
    <3>1. j = n + 1 /\ \A i \in Turns(rs) : i \in 2..(n + 1)
      BY <2>2 DEF LastPlace, Turns
    <3>2. n + 1 \in 2..(n + 1)
      BY <1>1
    <3>3. n + 1 \in Turns(rs)
      BY <2>2, <3>2 DEF Turns
    <3> QED
      BY <1>1, <3>1, <3>3
  <2> QED
    BY <2>1, <2>2
<1>4. \A c \in AssetChanges(a, rs, FALSE) : \E i \in Turns(rs) : IsTurn(c, rs, i)
  BY ChangesAreTurns
<1>5. \A i \in Turns(rs) : \E c \in AssetChanges(a, rs, FALSE) : IsTurn(c, rs, i)
  BY ChangesAreTurns
<1>6. j = 1 => TurnAt(rs, j) = rs[1].first /\ After(rs, j) = {rs[1].qty}
  BY <1>1 DEF TurnAt, After
<1> HIDE DEF ic, j, n
<1>7. TurnAt(rs, j) \in Nat
  BY <1>1, <1>3, <1>6, TurnPlace DEF j
<1>8. ASSUME j # 1
      PROVE  rs[1].first < TurnAt(rs, j)
  <2>1. j \in Turns(rs) /\ j - 1 \in 1..n /\ rs[j - 1].first < TurnAt(rs, j)
    BY <1>3, <1>8, TurnPlace DEF n
  <2>2. CASE j - 1 = 1
    BY <2>1, <2>2
  <2>3. CASE j - 1 # 1
    <3>1. 1 < j - 1
      <4>1. \A m \in 1..n : m # 1 => 1 < m
        BY <1>1
      <4> QED
        BY <2>1, <2>3, <4>1, Zenon
    <3>2. rs[1].first < rs[1].last /\ rs[1].last <= rs[j - 1].first
      BY <1>1, <2>1, <3>1, RowsApart DEF Telling, Tells, n
    <3>3. rs[1].first \in Nat /\ rs[1].last \in Nat /\ rs[j - 1].first \in Nat
      BY <1>1, <2>1
    <3> QED
      BY <1>7, <2>1, <3>2, <3>3
  <2> QED
    BY <2>2, <2>3
<1>9. \E c \in AssetChanges(a, rs, TRUE) : c.at = TurnAt(rs, j)
  BY <1>2, <1>3, <1>5, <1>6 DEF IsTurn
<1>10. ASSUME NEW c \in AssetChanges(a, rs, TRUE)
       PROVE  /\ c.at \in Nat /\ c.at <= TurnAt(rs, j)
              /\ c.at = TurnAt(rs, j) => c.after = After(rs, j)
  <2>1. CASE c = ic
    <3>1. CASE j = 1
      <4>1. c.at = TurnAt(rs, j) /\ c.after = After(rs, j)
        BY <1>2, <1>6, <2>1, <3>1
      <4> QED
        BY <1>7, <4>1
    <3>2. CASE j # 1
      BY <1>1, <1>2, <1>7, <1>8, <2>1, <3>2
    <3> QED
      BY <3>1, <3>2
  <2>2. CASE c \in AssetChanges(a, rs, FALSE)
    <3>1. PICK i \in Turns(rs) : IsTurn(c, rs, i)
      BY <1>4, <2>2
    <3>2. c.at = TurnAt(rs, i) /\ c.after = After(rs, i) /\ i <= j
      BY <1>3, <3>1 DEF IsTurn
    <3>3. i \in Nat /\ 2 <= i /\ TurnAt(rs, i) \in Nat
      <4>1. TurnAt(rs, i) \in Nat
        BY TurnPlace
      <4>2. i \in 2..(Len(rs) + 1)
        BY DEF Turns
      <4> QED
        BY <1>1, <4>1, <4>2 DEF n
    <3>4. CASE i = j
      BY <3>2, <3>3, <3>4
    <3>5. CASE i # j
      <4>1. i < j /\ j # 1
        BY <1>3, <3>2, <3>3, <3>5
      <4>2. TurnAt(rs, i) < TurnAt(rs, j)
        BY <1>3, <4>1, TurnsInOrder
      <4> QED
        BY <1>7, <3>2, <3>3, <4>2
    <3> QED
      BY <3>4, <3>5
  <2> QED
    BY <1>2, <1>10, <2>1, <2>2
<1> QED
  BY <1>7, <1>9, <1>10 DEF j

(* Replayed from the first row on, the changes of an asset end with its      *)
(* present.                                                                  *)
LEMMA ReplayEnds ==
    ASSUME HistInv
    PROVE  ChangesReplay
<1> SUFFICES ASSUME lastPositions # None, NEW a \in Assets
             PROVE  LET changes == AssetChanges(a, rows[a], TRUE)
                        last == CHOOSE c \in changes : \A d \in changes : c.at >= d.at
                    IN IF changes = {} THEN HeldAt(a, lastPositions) = {}
                       ELSE last.after = HeldAt(a, lastPositions)
  BY DEF ChangesReplay
<1> DEFINE rs == rows[a]
           P == lastPositions
           changes == AssetChanges(a, rs, TRUE)
           last == CHOOSE c \in changes : \A d \in changes : c.at >= d.at
<1>1. /\ kept \in SUBSET Nat /\ (\A o \in kept : o <= P) /\ P \in Nat
      /\ rs \in Seq(Row) /\ Telling(rs, kept, log, a) /\ InTimeOrder(rs) = rs
  BY HistTelling
<1>2. P \in kept
  BY DEF HistInv, ViewInv, KeptInv
<1>3. IF log[P][a] = NotHeld THEN ActiveOf(rs) = {}
      ELSE \E i \in ActiveOf(rs) : SamePosition(rs[i], log[P][a])
  BY DEF HistInv, ViewInv, OrderInv, ChangeInv, ActiveRowsMatchSnapshot
<1>4. HeldAt(a, P) = IF log[P][a] = NotHeld THEN {} ELSE {log[P][a].qty}
  <2>1. PICK o \in kept :
           /\ o <= P /\ \A q \in kept : q <= P => q <= o
           /\ HeldAt(a, P) = IF log[o][a] = NotHeld THEN {} ELSE {log[o][a].qty}
    BY <1>1, <1>2, HeldAtResult
  <2>2. o = P
    BY <1>1, <1>2, <2>1
  <2> QED
    BY <2>1, <2>2
<1>5. Len(rs) \in Nat /\ DOMAIN rs = 1..Len(rs)
  BY <1>1, RowNumbers
<1> HIDE DEF rs, P
<1>6. CASE rs = <<>>
  <2>1. Len(rs) = 0
    BY <1>6, EmptySeq
  <2>2. Turns(rs) = {}
    BY <2>1 DEF Turns
  <2>3. AssetChanges(a, rs, FALSE) = {}
    BY <1>1, <2>2, ChangesAreTurns
  <2>4. changes = {}
    BY <1>6, <2>3 DEF AssetChanges
  <2>5. ActiveOf(rs) = {}
    BY <1>5, <2>1 DEF ActiveOf
  <2>6. HeldAt(a, P) = {}
    BY <1>3, <1>4, <2>5
  <2> QED
    BY <2>4, <2>6 DEF rs, P
<1>7. CASE rs # <<>>
  <2> DEFINE z == TurnAt(rs, LastPlace(rs))
  <2>1. /\ \E c \in changes : c.at = z
        /\ z \in Nat
        /\ \A c \in changes : /\ c.at \in Nat /\ c.at <= z
                              /\ c.at = z => c.after = After(rs, LastPlace(rs))
    BY <1>1, <1>7, LastChange
  <2> HIDE DEF changes, z
  <2>2. last \in changes /\ \A d \in changes : last.at >= d.at
    <3>1. \E c \in changes : \A d \in changes : c.at >= d.at
      BY <2>1
    <3> QED
      BY <3>1
  <2> HIDE DEF last
  <2>3. last.at = z
    BY <2>1, <2>2
  <2>4. last.after = After(rs, LastPlace(rs))
    BY <2>1, <2>2, <2>3
  <2>5. Len(rs) \in 1..Len(rs) /\ ~(Len(rs) + 1 <= Len(rs)) /\ Len(rs) <= Len(rs)
    BY <1>1, <1>5, <1>7, EmptySeq
  <2>6. \A i \in ActiveOf(rs) : i = Len(rs) /\ rs[i].active
    BY <1>1, <1>5 DEF ActiveOf, Telling, OnlyLastActive
  <2>7. After(rs, LastPlace(rs)) = HeldAt(a, P)
    <3>1. CASE rs[Len(rs)].active
      <4>1. Len(rs) \in ActiveOf(rs)
        BY <1>5, <2>5, <3>1 DEF ActiveOf
      <4>2. log[P][a] # NotHeld /\ SamePosition(rs[Len(rs)], log[P][a])
        BY <1>3, <2>6, <4>1
      <4>3. After(rs, LastPlace(rs)) = {rs[Len(rs)].qty}
        BY <2>5, <3>1 DEF After, LastPlace
      <4> QED
        BY <1>4, <4>2, <4>3 DEF SamePosition
    <3>2. CASE ~rs[Len(rs)].active
      <4>1. log[P][a] = NotHeld
        BY <1>3, <2>6, <3>2
      <4>2. After(rs, LastPlace(rs)) = {}
        BY <2>5, <3>2 DEF After, LastPlace
      <4> QED
        BY <1>4, <4>1, <4>2
    <3> QED
      BY <3>1, <3>2
  <2>8. changes # {} /\ last.after = HeldAt(a, P)
    BY <2>2, <2>4, <2>7
  <2> QED
    BY <2>8 DEF last, changes, rs, P
<1> QED
  BY <1>6, <1>7

(* With one writer and one SQL server process, the changes read back of an   *)
(* asset from the first row on end with what the last stored observation     *)
(* held of it: nothing at all if its row was closed, or its quantity         *)
(* otherwise (position_state_changes over the rows of                        *)
(* upsert_position_states).                                                  *)
THEOREM ChangesReplayHolds ==
    ASSUME OneProcess, OneWriter
    PROVE  BaselineSpec => []ChangesReplay
<1>1. BaselineInit => HistInv
  BY InitHistInv
<1>2. HistInv /\ [BaselineNext]_baselineVars => HistInv'
  BY NextHistInv
<1>3. HistInv => ChangesReplay
  BY ReplayEnds
<1> QED
  BY <1>1, <1>2, <1>3, PTL DEF BaselineSpec

(* A load is no step of the store either: every behaviour with loads is one  *)
(* of PortfolioHistory, and its theorems hold of it                          *)
(* (PortfolioBaselineService.load only SELECTs).                             *)
THEOREM LoadsAreHarmless == BaselineSpec => Spec
<1>1. BaselineInit => Init
  BY DEF BaselineInit, ViewInit
<1>2. [BaselineNext]_baselineVars => [Next]_vars
  <2> SUFFICES ASSUME [BaselineNext]_baselineVars
               PROVE  [Next]_vars
    OBVIOUS
  <2>1. CASE [ViewNext]_allVars
    BY <2>1, ViewStep
  <2>2. CASE UNCHANGED vars
    BY <2>2
  <2> QED
    BY <2>1, <2>2, DashboardStepIsView
<1> QED
  BY <1>1, <1>2, PTL DEF BaselineSpec, Spec

(* What the dashboard shows is as coherent when loads are read as well: its  *)
(* positions are not older than its value row, when the positions of that    *)
(* row's observation were stored, and its label is not newer                 *)
(* (latest_portfolio_state, history_status).                                 *)
THEOREM LoadsKeepTheView ==
    ASSUME OneProcess, OneWriter
    PROVE  BaselineSpec => [](PositionsNotOlder /\ StatusNotNewer)
<1>1. BaselineInit => HistInv
  BY InitHistInv
<1>2. HistInv /\ [BaselineNext]_baselineVars => HistInv'
  BY NextHistInv
<1>3. HistInv => PositionsNotOlder /\ StatusNotNewer
  BY DEF HistInv, ViewInv, ReadInv, StatusNotNewer, Shown
<1> QED
  BY <1>1, <1>2, <1>3, PTL DEF BaselineSpec

-----------------------------------------------------------------------------
(* The changes in the window of a packet.                                    *)

(* The window a packet covers: back to its age, and behind the anchor.       *)
Recent(x) == view.value - AnchorAge <= x /\ \A t \in anchor : x > t

CoveredTurns(a) ==
    {i \in Turns(rows[a]) : TurnAt(rows[a], i) <= view.value /\ Recent(TurnAt(rows[a], i))}

(* The first and the last turn of a packet's window.                         *)
FirstTurn(a, i) ==
    i \in CoveredTurns(a) /\
    \A k \in CoveredTurns(a) : TurnAt(rows[a], i) <= TurnAt(rows[a], k)

FinalTurn(a, i) ==
    i \in CoveredTurns(a) /\
    \A k \in CoveredTurns(a) : TurnAt(rows[a], k) <= TurnAt(rows[a], i)

(* A load whose growth was read. *)
Loading == HistInv /\ view.value \in Nat /\ anchor \in SUBSET Nat

(* A set of numbers that is not empty has a least member.                    *)
LEMMA LeastExists ==
    ASSUME NEW S \in SUBSET Nat, S # {}
    PROVE  \E x \in S : \A y \in S : x <= y
<1> DEFINE R == OpToRel(<, Nat)
<1>1. IsWellFoundedOn(R, Nat)
  BY NatLessThanWellFounded
<1>2. \A x, y \in Nat : x < y => <<x, y>> \in R
  BY DEF OpToRel
<1> HIDE DEF R
<1>3. PICK x \in S : \A y \in S : ~(<<y, x>> \in R)
  BY <1>1, WFMin
<1>4. \A y \in S : ~(y < x)
  BY <1>2, <1>3, Zenon
<1>5. \A y \in S : x <= y
  BY <1>4
<1> QED
  BY <1>3, <1>5

(* What comes behind a recent time is recent. *)
LEMMA RecentUpward ==
    ASSUME Loading, NEW x \in Nat, NEW y \in Nat, x <= y, Recent(x)
    PROVE  Recent(y)
<1>1. view.value \in Int /\ AnchorAge \in Int /\ \A t \in anchor : t \in Nat
  BY AnchorAssumption DEF Loading
<1>2. view.value - AnchorAge \in Int /\ view.value - AnchorAge <= x /\ \A t \in anchor : x > t
  BY <1>1 DEF Recent
<1>3. view.value - AnchorAge <= y
  BY <1>2
<1>4. \A t \in anchor : y > t
  BY <1>1, <1>2
<1> QED
  BY <1>3, <1>4 DEF Recent

(* The row of an asset in the packet is made of its first and its last turn  *)
(* in the window.                                                            *)
LEMMA RowOfTurns ==
    ASSUME Loading, NEW a \in Assets, NEW cs, cs = CoveredChanges(a), cs # {}
    PROVE  \E i, j \in CoveredTurns(a) :
              /\ FirstTurn(a, i) /\ ChangeRow(a, cs).before = {rows[a][i - 1].qty}
              /\ FinalTurn(a, j) /\ ChangeRow(a, cs).after = After(rows[a], j)
<1> DEFINE rs == rows[a]
           times == {c.at : c \in cs}
           first == CHOOSE c \in cs : \A d \in cs : c.at <= d.at
           last == CHOOSE c \in cs : \A d \in cs : c.at >= d.at
<1>1. /\ rs \in Seq(Row) /\ Telling(rs, kept, log, a) /\ InTimeOrder(rs) = rs
      /\ kept \in SUBSET Nat
  BY HistTelling DEF Loading
<1>2. \A c : c \in cs <=> /\ c \in AssetChanges(a, rs, FALSE)
                          /\ c.at <= view.value /\ Recent(c.at)
  BY DEF CoveredChanges, InRange, Recent
<1>3. ASSUME NEW c \in cs
      PROVE  /\ \E i \in CoveredTurns(a) : IsTurn(c, rs, i)
             /\ c.at \in Nat /\ c.at <= view.value
  <2>1. PICK i \in Turns(rs) : IsTurn(c, rs, i)
    BY <1>1, <1>2, ChangesAreTurns
  <2>2. c.at = TurnAt(rs, i) /\ c.at <= view.value /\ Recent(c.at)
    BY <1>2, <2>1 DEF IsTurn
  <2>3. c.at \in Nat
    BY <1>1, <2>2, TurnPlace
  <2>4. i \in CoveredTurns(a)
    BY <2>2 DEF CoveredTurns
  <2> QED
    BY <2>1, <2>2, <2>3, <2>4
<1>4. ASSUME NEW k \in CoveredTurns(a)
      PROVE  \E c \in cs : c.at = TurnAt(rs, k)
  <2>1. k \in Turns(rs) /\ TurnAt(rs, k) <= view.value /\ Recent(TurnAt(rs, k))
    BY DEF CoveredTurns
  <2>2. PICK c \in AssetChanges(a, rs, FALSE) : IsTurn(c, rs, k)
    BY <1>1, <2>1, ChangesAreTurns
  <2> QED
    BY <1>2, <2>1, <2>2 DEF IsTurn
<1> HIDE DEF rs
<1>5. times \in SUBSET Nat /\ times # {} /\ \A x \in times : x <= view.value
  BY <1>3
<1>6. first \in cs /\ \A d \in cs : first.at <= d.at
  <2>1. \E x \in times : \A y \in times : x <= y
    <3> HIDE DEF times
    <3> QED
      BY <1>5, LeastExists
  <2>2. \E c \in cs : \A d \in cs : c.at <= d.at
    BY <2>1
  <2> QED
    BY <2>2
<1>7. last \in cs /\ \A d \in cs : last.at >= d.at
  <2>1. \E x \in times : \A y \in times : y <= x
    <3> HIDE DEF times
    <3>1. view.value \in Nat
      BY DEF Loading
    <3> QED
      BY <1>5, <3>1, GreatestExists
  <2>2. PICK c \in cs : \A d \in cs : d.at <= c.at
    BY <2>1
  <2>3. \A d \in cs : c.at >= d.at
    BY <1>3, <2>2
  <2> QED
    BY <2>3
<1>8. ChangeRow(a, cs).before = first.before /\ ChangeRow(a, cs).after = last.after
  BY DEF ChangeRow
<1> HIDE DEF first, last
<1>9. PICK i \in CoveredTurns(a) : IsTurn(first, rs, i)
  BY <1>3, <1>6
<1>10. PICK j \in CoveredTurns(a) : IsTurn(last, rs, j)
  BY <1>3, <1>7
<1>11. FirstTurn(a, i)
  <2> SUFFICES ASSUME NEW k \in CoveredTurns(a)
               PROVE  TurnAt(rs, i) <= TurnAt(rs, k)
    BY DEF FirstTurn, rs
  <2>1. PICK c \in cs : c.at = TurnAt(rs, k)
    BY <1>4
  <2> QED
    BY <1>6, <1>9, <2>1 DEF IsTurn
<1>12. FinalTurn(a, j)
  <2> SUFFICES ASSUME NEW k \in CoveredTurns(a)
               PROVE  TurnAt(rs, k) <= TurnAt(rs, j)
    BY DEF FinalTurn, rs
  <2>1. PICK c \in cs : c.at = TurnAt(rs, k)
    BY <1>4
  <2>2. last.at = TurnAt(rs, j) /\ last.at >= c.at /\ last.at \in Nat /\ c.at \in Nat
    BY <1>3, <1>7, <1>10, <2>1 DEF IsTurn
  <2> QED
    BY <2>1, <2>2
<1> QED
  BY <1>8, <1>9, <1>10, <1>11, <1>12 DEF IsTurn, rs

(* The first change starts with what was held last before the window.        *)
LEMMA BeforeTrue ==
    ASSUME Loading, NEW a \in Assets, NEW i \in CoveredTurns(a), FirstTurn(a, i)
    PROVE  QuantityBefore(a) = {rows[a][i - 1].qty}
<1> DEFINE rs == rows[a]
           z == TurnAt(rs, i)
           holding == {o \in kept : o <= view.value /\ log[o][a] # NotHeld}
           outside == {o \in holding : o < view.value - AnchorAge \/ \E t \in anchor : o <= t}
           o0 == IF outside = {} THEN CHOOSE p \in holding : \A r \in holding : p <= r
                 ELSE B!Latest(outside)
           b == rs[i - 1].first
<1>1. /\ rs \in Seq(Row) /\ Telling(rs, kept, log, a) /\ kept \in SUBSET Nat
      /\ view.value \in Nat /\ AnchorAge \in Nat /\ anchor \in SUBSET Nat
  BY HistTelling, AnchorAssumption DEF Loading
<1>2. i \in Turns(rs) /\ z <= view.value /\ Recent(z)
  BY DEF CoveredTurns
<1>3. /\ i \in Nat /\ i - 1 \in 1..Len(rs) /\ z \in kept
      /\ b \in kept /\ b < z /\ Covers(rs[i - 1], b)
  BY <1>1, <1>2, TurnPlace
<1>4. \A o \in kept : \A k \in 1..Len(rs) :
         Covers(rs[k], o) => log[o][a] # NotHeld /\ log[o][a].qty = rs[k].qty
  BY <1>1 DEF Telling, Tells
<1>5. \A o \in kept : log[o][a] # NotHeld => \E k \in 1..Len(rs) : Covers(rs[k], o)
  BY <1>1 DEF Telling, Tells
<1>6. Len(rs) \in Nat
  BY <1>1, RowNumbers
<1> HIDE DEF rs, z, b
<1>7. b \in holding
  <2>1. b <= view.value /\ log[b][a] # NotHeld
    BY <1>1, <1>2, <1>3, <1>4
  <2> QED
    BY <1>3, <2>1
<1>8. holding \in SUBSET Nat /\ \A o \in holding : o <= view.value /\ o \in kept
  BY <1>1
<1>9. \A o \in holding : o \in outside <=> ~Recent(o)
  <2> SUFFICES ASSUME NEW o \in holding
               PROVE  (o < view.value - AnchorAge \/ \E t \in anchor : o <= t) <=> ~Recent(o)
    OBVIOUS
  <2>1. o \in Nat /\ view.value - AnchorAge \in Int /\ \A t \in anchor : t \in Nat
    BY <1>1, <1>8
  <2>2. ~(view.value - AnchorAge <= o) <=> o < view.value - AnchorAge
    BY <2>1
  <2>3. \A t \in anchor : o <= t <=> ~(o > t)
    BY <2>1
  <2> QED
    BY <2>2, <2>3, Zenon DEF Recent
<1>10. \A o \in outside : o \in holding
  OBVIOUS
<1> HIDE DEF holding
<1>11. ASSUME i - 1 # 1
       PROVE  b \in outside
  <2>1. i - 1 \in Turns(rs) /\ TurnAt(rs, i - 1) = b
    <3>1. i - 1 \in 2..(Len(rs) + 1) /\ i - 1 <= Len(rs)
      <4>1. \A m \in 1..Len(rs) : m # 1 => m \in 2..(Len(rs) + 1) /\ m <= Len(rs)
        BY <1>6
      <4> QED
        BY <1>3, <1>11, <4>1, Zenon
    <3> QED
      BY <3>1 DEF Turns, TurnAt, b
  <2>2. i - 1 \notin CoveredTurns(a)
    <3>1. ~(z <= b)
      BY <1>1, <1>3
    <3> QED
      BY <2>1, <3>1 DEF FirstTurn, rs, z
  <2>3. ~Recent(b)
    BY <1>7, <1>8, <2>1, <2>2 DEF CoveredTurns, rs
  <2> QED
    BY <1>7, <1>9, <2>3
<1>12. o0 \in holding /\ o0 < z /\ (i - 1 # 1 => b <= o0)
  <2>1. CASE outside = {}
    <3>1. \E p \in holding : \A r \in holding : p <= r
      BY <1>7, <1>8, LeastExists
    <3>2. o0 \in holding /\ \A r \in holding : o0 <= r
      BY <2>1, <3>1
    <3> HIDE DEF o0, outside
    <3>3. o0 <= b /\ i - 1 = 1
      BY <1>7, <1>11, <2>1, <3>2
    <3> QED
      BY <1>1, <1>3, <1>8, <3>2, <3>3
  <2>2. CASE outside # {}
    <3>1. o0 = B!Latest(outside)
      BY <2>2
    <3>2. outside \in SUBSET Nat /\ \A x \in outside : x <= view.value
      BY <1>8, <1>10
    <3> HIDE DEF o0, outside
    <3>3. o0 \in outside /\ \A x \in outside : x <= o0
      BY <1>1, <2>2, <3>1, <3>2, LatestOf
    <3>4. o0 \in holding /\ ~Recent(o0) /\ o0 \in Nat
      BY <1>8, <1>9, <1>10, <3>3
    <3>5. z \in Nat
      BY <1>1, <1>3
    <3>6. ~(z <= o0)
      BY <1>2, <3>4, <3>5, RecentUpward
    <3>7. o0 < z
      BY <3>4, <3>5, <3>6
    <3>8. i - 1 # 1 => b <= o0
      BY <1>11, <3>3
    <3> QED
      BY <3>4, <3>7, <3>8
  <2> QED
    BY <2>1, <2>2
<1>13. QuantityBefore(a) = {log[o0][a].qty}
  BY DEF QuantityBefore, holding
<1> HIDE DEF o0, outside
<1>14. o0 \in kept /\ log[o0][a] # NotHeld
  BY <1>12 DEF holding
<1>15. PICK k \in 1..Len(rs) : Covers(rs[k], o0)
  BY <1>5, <1>14
<1>16. k < i
  <2>1. ~(z <= o0)
    BY <1>1, <1>3, <1>12, <1>14
  <2> QED
    BY <1>1, <1>2, <1>14, <1>15, <2>1, CoveringSide DEF z
<1>17. i - 1 # 1 => i - 1 <= k
  <2> SUFFICES ASSUME i - 1 # 1
               PROVE  i - 1 <= k
    OBVIOUS
  <2>1. i - 1 \in Turns(rs) /\ TurnAt(rs, i - 1) = b
    <3>1. i - 1 \in 2..(Len(rs) + 1) /\ i - 1 <= Len(rs)
      <4>1. \A m \in 1..Len(rs) : m # 1 => m \in 2..(Len(rs) + 1) /\ m <= Len(rs)
        BY <1>6
      <4> QED
        BY <1>3, <4>1, Zenon
    <3> QED
      BY <3>1 DEF Turns, TurnAt, b
  <2> QED
    BY <1>1, <1>12, <1>14, <1>15, <2>1, CoveringSide
<1>18. k = i - 1
  BY <1>3, <1>6, <1>15, <1>16, <1>17
<1>19. log[o0][a].qty = rs[i - 1].qty
  BY <1>4, <1>14, <1>15, <1>18
<1> QED
  BY <1>13, <1>19 DEF rs

-----------------------------------------------------------------------------
(* The end of a reported change, and what is stored during a load.           *)

(* What a row says at the end of the window is what was held at its end, or, *)
(* of a position that was gone and came back later, what was held before.    *)
EndsTrue(a, after) ==
    LET now == HeldAt(a, view.value)
    IN \/ after = now
       \/ /\ now = {} /\ HeldLater(a, view.value)
          /\ after = QuantityHeld(a)

(* The last change ends with what was held at the snapshot. *)
LEMMA AfterTrue ==
    ASSUME Loading, NEW a \in Assets, NEW j \in CoveredTurns(a), FinalTurn(a, j)
    PROVE  EndsTrue(a, After(rows[a], j))
<1> DEFINE rs == rows[a]
           z == TurnAt(rs, j)
           v == view.value
           holding == {p \in kept : p <= v /\ log[p][a] # NotHeld}
<1>1. /\ rs \in Seq(Row) /\ Telling(rs, kept, log, a) /\ kept \in SUBSET Nat
      /\ v \in Nat
  BY HistTelling DEF Loading
<1>2. j \in Turns(rs) /\ z <= v /\ Recent(z)
  BY DEF CoveredTurns
<1>3. /\ j \in Nat /\ z \in kept /\ Len(rs) \in Nat
      /\ j <= Len(rs) => j \in 1..Len(rs) /\ z = rs[j].first
      /\ j \in 2..(Len(rs) + 1)
  <2>1. j \in 2..(Len(rs) + 1)
    BY <1>2 DEF Turns
  <2> QED
    BY <1>1, <1>2, <2>1, TurnPlace, RowNumbers
<1>4. \A o \in kept : \A k \in 1..Len(rs) :
         Covers(rs[k], o) => log[o][a] # NotHeld /\ log[o][a].qty = rs[k].qty
  BY <1>1 DEF Telling, Tells
<1>5. \A o \in kept : log[o][a] # NotHeld => \E k \in 1..Len(rs) : Covers(rs[k], o)
  BY <1>1 DEF Telling, Tells
<1>6. \A k \in 1..Len(rs) :
         rs[k].first \in Nat /\ rs[k].last \in Nat /\ rs[k].active \in BOOLEAN
  BY <1>1, RowNumbers
<1>7. PICK o \in kept :
         /\ o <= v /\ \A q \in kept : q <= v => q <= o
         /\ HeldAt(a, v) = IF log[o][a] = NotHeld THEN {} ELSE {log[o][a].qty}
  BY <1>1, <1>2, <1>3, HeldAtResult DEF Loading
<1>8. z <= o /\ o \in Nat /\ z \in Nat
  BY <1>1, <1>2, <1>3, <1>7
(* No later turn lies in the window. *)
<1>9. ASSUME NEW k \in Turns(rs), j < k
      PROVE  ~(TurnAt(rs, k) <= v) /\ TurnAt(rs, k) \in Nat
  <2>1. z < TurnAt(rs, k) /\ TurnAt(rs, k) \in Nat
    BY <1>1, <1>2, <1>9, TurnsInOrder, TurnPlace
  <2>2. Recent(TurnAt(rs, k))
    BY <1>2, <1>8, <2>1, RecentUpward
  <2>3. ~(TurnAt(rs, k) <= z)
    BY <1>8, <2>1
  <2> QED
    BY <2>1, <2>2, <2>3 DEF FinalTurn, CoveredTurns
(* A row that speaks for an observation of the window behind the turn is     *)
(* the turn's.                                                               *)
<1>10. ASSUME NEW p \in kept, z <= p, p <= v, NEW k \in 1..Len(rs), Covers(rs[k], p)
       PROVE  k = j
  <2>1. j <= k
    BY <1>1, <1>2, <1>10, CoveringSide
  <2>2. CASE j < k
    <3>1. k \in 2..(Len(rs) + 1) /\ k <= Len(rs)
      BY <1>3, <2>2
    <3>2. k \in Turns(rs) /\ TurnAt(rs, k) = rs[k].first
      BY <3>1 DEF Turns, TurnAt
    <3>3. ~(rs[k].first <= v)
      BY <1>9, <2>2, <3>2
    <3>4. rs[k].first <= p
      BY <1>10 DEF Covers
    <3> QED
      BY <1>1, <1>6, <1>10, <3>3, <3>4
  <2> QED
    BY <1>3, <2>1, <2>2
<1> HIDE DEF rs, z
<1>11. CASE log[o][a] # NotHeld
  <2>1. PICK k \in 1..Len(rs) : Covers(rs[k], o)
    BY <1>5, <1>11
  <2>2. k = j /\ j <= Len(rs)
    BY <1>3, <1>7, <1>8, <1>10, <2>1
  <2>3. log[o][a].qty = rs[j].qty
    BY <1>4, <2>1, <2>2
  <2>4. After(rs, j) = HeldAt(a, v)
    BY <1>7, <1>11, <2>2, <2>3 DEF After
  <2> QED
    BY <2>4 DEF EndsTrue, rs
<1>12. CASE log[o][a] = NotHeld /\ j <= Len(rs)
  <2>1. j \in 1..Len(rs) /\ z = rs[j].first
    BY <1>3, <1>12
  <2>2. ~rs[j].active /\ rs[j].last <= o
    <3>1. ~Covers(rs[j], o)
      BY <1>4, <1>12, <2>1
    <3> QED
      BY <1>6, <1>8, <2>1, <3>1 DEF Covers
  <2>3. j # Len(rs)
    <3> SUFFICES ASSUME j = Len(rs)
                 PROVE  FALSE
      OBVIOUS
    <3>1. j + 1 \in Turns(rs) /\ TurnAt(rs, j + 1) = rs[j].last
      <4>1. ~(j + 1 <= Len(rs)) /\ j + 1 \in 2..(Len(rs) + 1)
        BY <1>3
      <4> QED
        BY <2>2, <4>1 DEF Turns, TurnAt
    <3>2. ~(rs[j].last <= v)
      BY <1>3, <1>9, <3>1 DEF rs
    <3> QED
      BY <1>1, <1>6, <1>7, <1>8, <2>1, <2>2, <3>2
  <2>4. /\ j + 1 \in Turns(rs) /\ TurnAt(rs, j + 1) = rs[j + 1].first
        /\ j + 1 \in 1..Len(rs) /\ j < j + 1
    <3>1. j + 1 \in 2..(Len(rs) + 1) /\ j + 1 <= Len(rs) /\ j + 1 \in 1..Len(rs) /\ j < j + 1
      BY <1>3, <2>1, <2>3
    <3> QED
      BY <3>1 DEF Turns, TurnAt
  <2>5. ~(rs[j + 1].first <= v)
    BY <1>9, <2>4 DEF rs
  <2>6. HeldLater(a, v)
    <3>1. rs[j + 1].first \in kept /\ (~rs[j + 1].active => rs[j + 1].first < rs[j + 1].last)
      BY <1>1, <2>4 DEF Telling, Tells, Lasting, rs
    <3>2. Covers(rs[j + 1], rs[j + 1].first)
      <4>1. rs[j + 1].first \in Nat
        BY <1>6, <2>4
      <4> QED
        BY <3>1, <4>1 DEF Covers
    <3>3. log[rs[j + 1].first][a] # NotHeld
      BY <1>4, <2>4, <3>1, <3>2
    <3>4. rs[j + 1].first > v
      BY <1>1, <1>6, <2>4, <2>5
    <3> QED
      BY <3>1, <3>3, <3>4 DEF HeldLater
  <2> DEFINE p == B!Latest(holding)
  <2>7. z \in holding
    <3>1. ~rs[j].active => rs[j].first < rs[j].last
      BY <1>1, <2>1 DEF Telling, Tells, Lasting, rs
    <3>2. Covers(rs[j], z)
      BY <1>6, <1>8, <2>1, <2>2, <3>1 DEF Covers
    <3>3. log[z][a] # NotHeld
      BY <1>3, <1>4, <2>1, <3>2
    <3> QED
      BY <1>2, <1>3, <3>3 DEF z, rs
  <2>8. holding \in SUBSET Nat /\ \A x \in holding : x <= v
    BY <1>1
  <2>9. p \in holding /\ z <= p
    <3> HIDE DEF holding
    <3> QED
      BY <1>1, <2>7, <2>8, LatestOf
  <2>10. QuantityHeld(a) = {log[p][a].qty}
    BY DEF QuantityHeld
  <2> HIDE DEF p
  <2>11. p \in kept /\ p <= v /\ log[p][a] # NotHeld
    BY <2>9
  <2>12. PICK k \in 1..Len(rs) : Covers(rs[k], p)
    BY <1>5, <2>11
  <2>13. k = j
    BY <1>10, <2>9, <2>11, <2>12 DEF rs, z
  <2>14. QuantityHeld(a) = After(rs, j)
    BY <1>4, <1>12, <2>10, <2>11, <2>12, <2>13 DEF After
  <2>15. HeldAt(a, v) = {}
    BY <1>7, <1>12
  <2> QED
    BY <2>6, <2>14, <2>15 DEF EndsTrue, rs
<1>13. CASE log[o][a] = NotHeld /\ ~(j <= Len(rs))
  <2>1. After(rs, j) = {} /\ HeldAt(a, v) = {}
    BY <1>7, <1>13 DEF After
  <2> QED
    BY <2>1 DEF EndsTrue, rs
<1> QED
  BY <1>11, <1>12, <1>13

(* A reported asset was held at some time up to the snapshot. *)
ReportedHeld ==
    Packed => \A r \in reported :
        r.asset \in Assets /\ \E o \in kept : o <= view.value /\ log[o][r.asset] # NotHeld

(* What a load has read, and the rows it reports. *)
PackInv ==
    /\ anchor \in SUBSET Nat
    /\ phase \in {"changes", "packed"} => view.value # None
    /\ ReportedChangesTrue /\ ReportedHeld

(* What the value row was read with bounds what is kept later. *)
LEMMA KeptBelow ==
    ASSUME OneProcess, OneWriter, HistInv, [ViewNext]_allVars, NEW v \in Nat, Settled(v)
    PROVE  /\ kept \subseteq kept'
           /\ \A o \in kept' : o <= v => o \in kept
           /\ \A o \in kept : log'[o] = log[o]
<1>1. /\ TypeInv /\ StoreInv /\ InOrder
      /\ lastPositions # None => lastPositions \in kept
      /\ \A o \in kept : o # None /\ o \in Nat /\ o <= lastPositions
      /\ lastPositions \in Nat /\ Len(log) \in Nat /\ lastPositions <= Len(log)
  <2>1. TypeInv /\ StoreInv /\ InOrder
    BY DEF HistInv, ViewInv, OrderInv, ChangeInv, StoreInv
  <2> QED
    BY <2>1, Numbers DEF HistInv, ViewInv, KeptInv, KeptTold
<1>2. [Next]_vars
  BY ViewStep
<1>3. lastPositions' # lastPositions => v < lastPositions'
  BY <1>1, <1>2, LastGrows
<1>4. \/ kept' = kept
      \/ kept' = kept \cup ({lastPositions'} \ {None})
  BY DEF ViewNext, StoreStep, ReaderStep, RestartAll, ReadStatus, ReadState, ReadValue,
         ReadWeights, ReadPositions, StartOver, allVars
<1>5. \A o \in kept : log'[o] = log[o]
  BY <1>1, <1>2, KeptReports
<1>6. ASSUME NEW o \in kept', o <= v
      PROVE  o \in kept
  <2>1. CASE o \notin kept
    <3>1. o = lastPositions' /\ o # None
      BY <1>4, <1>6, <2>1
    <3>2. lastPositions' = lastPositions
      <4>1. TypeInv'
        BY <1>1, <1>2, NextTypeInv
      <4>2. lastPositions' \in Nat
        BY <4>1, LenProperties DEF TypeInv, TypeOK
      <4> QED
        BY <1>3, <1>6, <3>1, <4>2
    <3> QED
      BY <1>1, <2>1, <3>1, <3>2
  <2> QED
    BY <2>1
<1> QED
  BY <1>4, <1>5, <1>6

(* What was held up to the snapshot stays what it was while more is stored.  *)
LEMMA SameHistory ==
    ASSUME anchor' = anchor, view' = view, NEW v \in Nat, v = view.value, kept \in SUBSET Nat,
           kept \subseteq kept', \A o \in kept' : o <= v => o \in kept,
           \A o \in kept : log'[o] = log[o],
           NEW a, \E o \in kept : o <= v /\ log[o][a] # NotHeld
    PROVE  /\ HeldAt(a, view.value)' = HeldAt(a, view.value)
           /\ QuantityHeld(a)' = QuantityHeld(a)
           /\ QuantityBefore(a)' = QuantityBefore(a)
           /\ HeldLater(a, view.value) => HeldLater(a, view.value)'
<1> DEFINE past == {o \in kept : o <= v}
           past2 == {o \in kept' : o <= v}
           holding == {o \in kept : o <= v /\ log[o][a] # NotHeld}
           holding2 == {o \in kept' : o <= v /\ log'[o][a] # NotHeld}
           early(o) == o < v - AnchorAge \/ \E t \in anchor : o <= t
           outside == {o \in holding : early(o)}
           outside2 == {o \in holding2 : early(o)}
           choice(H, O) == IF O = {} THEN CHOOSE p \in H : \A r \in H : p <= r
                           ELSE B!Latest(O)
           before == choice(holding, outside)
           before2 == choice(holding2, outside2)
<1>1. past2 = past
  OBVIOUS
<1>2. holding2 = holding
  <2>1. \A o : o \in holding2 <=> o \in kept' /\ o <= v /\ log'[o][a] # NotHeld
    OBVIOUS
  <2>2. \A o : o \in holding <=> o \in kept /\ o <= v /\ log[o][a] # NotHeld
    OBVIOUS
  <2> HIDE DEF holding, holding2
  <2>3. \A o : o \in holding2 <=> o \in holding
    BY <2>1, <2>2, Zenon
  <2> QED
    BY <2>3
<1>3. /\ past \in SUBSET Nat /\ holding \in SUBSET past /\ holding # {}
      /\ \A x \in past : x <= v /\ x \in kept
  OBVIOUS
<1>4. \A o \in outside : o \in holding
  OBVIOUS
<1>5. outside2 = outside
  <2> HIDE DEF holding, holding2
  <2> QED
    BY <1>2, Zenon
<1>6. HeldAt(a, v) = IF past = {} \/ log[B!Latest(past)][a] = NotHeld THEN {}
                     ELSE {log[B!Latest(past)][a].qty}
  BY DEF HeldAt
<1>7. HeldAt(a, v)' = IF past2 = {} \/ log'[B!Latest(past2)][a] = NotHeld THEN {}
                      ELSE {log'[B!Latest(past2)][a].qty}
  BY DEF HeldAt
<1>8. QuantityHeld(a) = {log[B!Latest(holding)][a].qty}
  BY DEF QuantityHeld
<1>9. QuantityHeld(a)' = {log'[B!Latest(holding2)][a].qty}
  BY DEF QuantityHeld
<1>10. QuantityBefore(a) = {log[before][a].qty}
  BY DEF QuantityBefore
<1>11. QuantityBefore(a)' = {log'[before2][a].qty}
  BY DEF QuantityBefore
<1>12. HeldLater(a, v) => HeldLater(a, v)'
  BY DEF HeldLater
<1> HIDE DEF past, past2, holding, holding2, outside, outside2
<1>13. B!Latest(past) \in past
  BY <1>3, LatestOf
<1>14. B!Latest(holding) \in holding
  BY <1>3, LatestOf
<1>15. before \in holding
  <2>1. CASE outside = {}
    <3>1. \E p \in holding : \A r \in holding : p <= r
      BY <1>3, LeastExists
    <3> QED
      BY <2>1, <3>1
  <2>2. CASE outside # {}
    <3>1. outside \in SUBSET Nat /\ \A x \in outside : x <= v
      BY <1>3, <1>4
    <3>2. B!Latest(outside) \in outside
      BY <2>2, <3>1, LatestOf
    <3> QED
      BY <1>4, <2>2, <3>2
  <2> QED
    BY <2>1, <2>2
<1>16. before2 = before
  <2> HIDE DEF choice
  <2> QED
    BY <1>2, <1>5, Zenon
<1> HIDE DEF before, before2
<1>17. HeldAt(a, v)' = HeldAt(a, v)
  <2>1. log'[B!Latest(past)] = log[B!Latest(past)]
    BY <1>3, <1>13
  <2> QED
    BY <1>1, <1>6, <1>7, <2>1, Zenon
<1>18. QuantityHeld(a)' = QuantityHeld(a)
  <2>1. log'[B!Latest(holding)] = log[B!Latest(holding)]
    BY <1>3, <1>14
  <2> QED
    BY <1>2, <1>8, <1>9, <2>1, Zenon
<1>19. QuantityBefore(a)' = QuantityBefore(a)
  <2>1. log'[before] = log[before]
    BY <1>3, <1>15
  <2> QED
    BY <1>10, <1>11, <1>16, <2>1, Zenon
<1> QED
  BY <1>12, <1>17, <1>18, <1>19, Zenon

(* A packet's rows stay true while more is stored. *)
LEMMA PackedStays ==
    ASSUME Packed, ReportedChangesTrue, ReportedHeld,
           anchor' = anchor, reported' = reported, view' = view, view.value \in Nat,
           kept \in SUBSET Nat, kept \subseteq kept',
           \A o \in kept' : o <= view.value => o \in kept,
           \A o \in kept : log'[o] = log[o]
    PROVE  ReportedChangesTrue' /\ ReportedHeld'
<1>1. ASSUME NEW r \in reported
      PROVE  /\ r.asset \in Assets /\ \E o \in kept' : o <= view.value /\ log'[o][r.asset] # NotHeld
             /\ r.before = QuantityBefore(r.asset)'
             /\ EndsTrue(r.asset, r.after)'
  <2>1. r.asset \in Assets /\ \E o \in kept : o <= view.value /\ log[o][r.asset] # NotHeld
    BY DEF ReportedHeld
  <2>2. /\ HeldAt(r.asset, view.value)' = HeldAt(r.asset, view.value)
        /\ QuantityHeld(r.asset)' = QuantityHeld(r.asset)
        /\ QuantityBefore(r.asset)' = QuantityBefore(r.asset)
        /\ HeldLater(r.asset, view.value) => HeldLater(r.asset, view.value)'
    BY <2>1, SameHistory
  <2>3. r.before = QuantityBefore(r.asset) /\ EndsTrue(r.asset, r.after)
    BY DEF ReportedChangesTrue, EndsTrue
  <2>4. EndsTrue(r.asset, r.after)'
    <3>1. CASE r.after = HeldAt(r.asset, view.value)
      BY <2>2, <3>1, Zenon DEF EndsTrue
    <3>2. CASE /\ HeldAt(r.asset, view.value) = {} /\ HeldLater(r.asset, view.value)
               /\ r.after = QuantityHeld(r.asset)
      <4>1. /\ HeldAt(r.asset, view.value)' = {} /\ HeldLater(r.asset, view.value)'
            /\ r.after = QuantityHeld(r.asset)'
        BY <2>2, <3>2, Zenon
      <4> QED
        BY <4>1, Zenon DEF EndsTrue
    <3> QED
      BY <2>3, <3>1, <3>2, Zenon DEF EndsTrue
  <2>5. \E o \in kept' : o <= view.value /\ log'[o][r.asset] # NotHeld
    <3>1. PICK o \in kept : o <= view.value /\ log[o][r.asset] # NotHeld
      BY <2>1
    <3>2. o \in kept' /\ log'[o] = log[o]
      OBVIOUS
    <3>3. log'[o][r.asset] # NotHeld
      BY <3>1, <3>2, Zenon
    <3> QED
      BY <3>1, <3>2, <3>3, Zenon
  <2> QED
    BY <2>1, <2>2, <2>3, <2>4, <2>5, Zenon
<1>2. ReportedHeld'
  BY <1>1 DEF ReportedHeld
<1>3. ReportedChangesTrue'
  BY <1>1, Zenon DEF ReportedChangesTrue, EndsTrue
<1> QED
  BY <1>2, <1>3

-----------------------------------------------------------------------------
(* A load.                                                                   *)

(* The history, and what a load has read of it.                              *)
LoadInv == HistInv /\ PackInv

(* The anchor is a value row. *)
LEMMA GrowthRead ==
    ASSUME HistInv, PackInv, ReadGrowth
    PROVE  PackInv'
<1>1. /\ anchor' = B!ComparisonAnchor(ValueTimes, Latest, AnchorAge, AnchorSlack)
      /\ phase' = "changes" /\ view'.value = view.value /\ view.value # None
  BY DEF ReadGrowth, NoView
<1> DEFINE end == Latest
           candidates == {t \in ValueTimes : t <= end - AnchorAge}
<1>2. TypeInv
  BY DEF HistInv, ViewInv, OrderInv, ChangeInv, StoreInv
<1>3. ValueTimes \in SUBSET Nat /\ \A x \in ValueTimes : x <= Len(log)
  BY <1>2, Numbers DEF ValueTimes
<1>4. candidates \in SUBSET Nat /\ (\A x \in candidates : x <= Len(log)) /\ Len(log) \in Nat
  BY <1>2, <1>3, Numbers
<1>5. anchor' = {} \/ (candidates # {} /\ anchor' = {B!Latest(candidates)})
  BY <1>1 DEF B!ComparisonAnchor
<1> HIDE DEF candidates
<1>6. anchor' \in SUBSET Nat
  <2>1. CASE candidates # {} /\ anchor' = {B!Latest(candidates)}
    <3>1. B!Latest(candidates) \in candidates
      BY <1>4, <2>1, LatestOf
    <3> QED
      BY <1>4, <2>1, <3>1
  <2>2. CASE anchor' = {}
    BY <2>2
  <2> QED
    BY <1>5, <2>1, <2>2
<1> QED
  BY <1>1, <1>6 DEF PackInv, ReportedChangesTrue, ReportedHeld, Packed

(* The rows of a packet are true when they are read. *)
LEMMA ChangesRead ==
    ASSUME HistInv, PackInv, ReadChanges
    PROVE  PackInv'
<1>1. /\ phase = "changes" /\ phase' = "packed" /\ view' = view /\ anchor' = anchor
      /\ kept' = kept /\ log' = log
      /\ reported' \in {{}, {ChangeRow(a, CoveredChanges(a)) :
                                a \in {b \in Assets : CoveredChanges(b) # {}}}}
  BY DEF ReadChanges, vars
<1>2. Loading
  BY <1>1 DEF Loading, PackInv, HistInv, ViewInv, ViewTypes
<1>3. ASSUME NEW r \in reported'
      PROVE  /\ r.asset \in Assets
             /\ \E o \in kept : o <= view.value /\ log[o][r.asset] # NotHeld
             /\ r.before = QuantityBefore(r.asset) /\ EndsTrue(r.asset, r.after)
  <2>1. PICK a \in Assets : CoveredChanges(a) # {} /\ r = ChangeRow(a, CoveredChanges(a))
    BY <1>1
  <2>2. PICK cs : cs = CoveredChanges(a)
    OBVIOUS
  <2>3. PICK i, j \in CoveredTurns(a) :
           /\ FirstTurn(a, i) /\ ChangeRow(a, cs).before = {rows[a][i - 1].qty}
           /\ FinalTurn(a, j) /\ ChangeRow(a, cs).after = After(rows[a], j)
    BY <1>2, <2>1, <2>2, RowOfTurns
  <2>4. r.asset = a /\ r.before = {rows[a][i - 1].qty} /\ r.after = After(rows[a], j)
    <3>1. r = ChangeRow(a, cs)
      BY <2>1, <2>2
    <3>2. ChangeRow(a, cs).asset = a
      BY DEF ChangeRow
    <3> QED
      BY <2>3, <3>1, <3>2, Zenon
  <2>5. QuantityBefore(a) = {rows[a][i - 1].qty}
    BY <1>2, <2>3, BeforeTrue
  <2>6. EndsTrue(a, After(rows[a], j))
    BY <1>2, <2>3, AfterTrue
  <2>7. \E o \in kept : o <= view.value /\ log[o][a] # NotHeld
    <3>1. /\ rows[a] \in Seq(Row) /\ Telling(rows[a], kept, log, a) /\ kept \in SUBSET Nat
          /\ view.value \in Nat
      BY <1>2, HistTelling DEF Loading
    <3>2. i \in Turns(rows[a]) /\ TurnAt(rows[a], i) <= view.value
      BY DEF CoveredTurns
    <3>3. /\ i - 1 \in 1..Len(rows[a]) /\ rows[a][i - 1].first \in kept
          /\ rows[a][i - 1].first < TurnAt(rows[a], i) /\ TurnAt(rows[a], i) \in kept
          /\ Covers(rows[a][i - 1], rows[a][i - 1].first)
      BY <3>1, <3>2, TurnPlace
    <3>4. log[rows[a][i - 1].first][a] # NotHeld
      BY <3>1, <3>3 DEF Telling, Tells
    <3>5. rows[a][i - 1].first <= view.value
      <4>1. \A x, y, z \in Nat : x < y /\ y <= z => x <= z
        OBVIOUS
      <4>2. rows[a][i - 1].first \in Nat /\ TurnAt(rows[a], i) \in Nat
        BY <3>1, <3>3, Zenon
      <4> QED
        BY <3>1, <3>2, <3>3, <4>1, <4>2, Zenon
    <3> QED
      BY <3>3, <3>4, <3>5
  <2> QED
    BY <2>4, <2>5, <2>6, <2>7, Zenon
<1>4. ReportedHeld'
  BY <1>1, <1>3 DEF ReportedHeld
<1>5. ASSUME NEW a
      PROVE  /\ QuantityBefore(a)' = QuantityBefore(a) /\ QuantityHeld(a)' = QuantityHeld(a)
             /\ HeldAt(a, view.value)' = HeldAt(a, view.value)
             /\ HeldLater(a, view.value)' = HeldLater(a, view.value)
  BY <1>1, Zenon DEF QuantityBefore, QuantityHeld, HeldAt, HeldLater
<1>6. ReportedChangesTrue'
  BY <1>3, <1>5, Zenon DEF ReportedChangesTrue, EndsTrue
<1> QED
  BY <1>1, <1>4, <1>6 DEF PackInv

(* Every step keeps the packet of a load true.                               *)
LEMMA NextLoadInv ==
    ASSUME OneProcess, OneWriter, LoadInv, [BaselineNext]_baselineVars
    PROVE  LoadInv'
<1>1. HistInv'
  BY NextHistInv DEF LoadInv
<1>2. ASSUME DashboardStep \/ UNCHANGED baselineVars
      PROVE  PackInv'
  <2>1. [ViewNext]_allVars
    BY <1>2 DEF DashboardStep, baselineVars
  <2>2. CASE phase' = "idle" /\ anchor' = {}
    BY <2>2 DEF PackInv, ReportedChangesTrue, ReportedHeld, Packed
  <2>3. CASE anchor' = anchor /\ reported' = reported /\ phase' = phase /\ view' = view
    <3>1. CASE Packed
      <4>1. view.value \in Nat /\ Settled(view.value) /\ kept \in SUBSET Nat
        BY <3>1, HistTelling DEF LoadInv, PackInv, HistInv, ViewInv, ViewTypes, ReadInv, Packed
      <4>2. /\ kept \subseteq kept'
            /\ \A o \in kept' : o <= view.value => o \in kept
            /\ \A o \in kept : log'[o] = log[o]
        BY <2>1, <4>1, KeptBelow DEF LoadInv
      <4>3. ReportedChangesTrue' /\ ReportedHeld'
        BY <2>3, <3>1, <4>1, <4>2, PackedStays DEF LoadInv, PackInv
      <4> QED
        BY <2>3, <4>3 DEF LoadInv, PackInv
    <3>2. CASE ~Packed
      BY <2>3, <3>2 DEF LoadInv, PackInv, ReportedChangesTrue, ReportedHeld, Packed
    <3> QED
      BY <3>1, <3>2
  <2>4. CASE anchor' = anchor /\ phase' \in {"state", "weights", "positions", "shown"}
    BY <2>4 DEF LoadInv, PackInv, ReportedChangesTrue, ReportedHeld, Packed
  <2>5. \/ phase' = "idle" /\ anchor' = {}
        \/ anchor' = anchor /\ reported' = reported /\ phase' = phase /\ view' = view
        \/ anchor' = anchor /\ phase' \in {"state", "weights", "positions", "shown"}
    <3>1. CASE DashboardStep
      <4>1. \/ phase' = phase /\ view' = view
            \/ phase' \in {"idle", "state", "weights", "positions", "shown"}
        BY <3>1 DEF DashboardStep, ViewNext, StoreStep, ReaderStep, RestartAll, ReadStatus,
             ReadState, ReadValue, ReadWeights, ReadPositions, StartOver, readerVars
      <4>2. IF phase' = "idle" THEN anchor' = {} /\ reported' = {}
            ELSE anchor' = anchor /\ reported' = reported
        BY <3>1 DEF DashboardStep, loadVars
      <4> QED
        BY <4>1, <4>2
    <3>2. CASE UNCHANGED baselineVars
      BY <3>2 DEF baselineVars, allVars, readerVars, loadVars
    <3> QED
      BY <1>2, <3>1, <3>2
  <2> QED
    BY <2>2, <2>3, <2>4, <2>5
<1>3. ASSUME ReadGrowth
      PROVE  PackInv'
  BY <1>3, GrowthRead DEF LoadInv
<1>4. ASSUME ReadChanges
      PROVE  PackInv'
  BY <1>4, ChangesRead DEF LoadInv
<1> QED
  BY <1>1, <1>2, <1>3, <1>4 DEF BaselineNext, LoadInv

(* With one writer and one SQL server process, a change that a packet        *)
(* reports starts with the quantity last held before its window and ends     *)
(* with that of its snapshot, whatever is stored while the packet is read;   *)
(* only a position gone at the snapshot and stored again since ends with     *)
(* what it had before it went (PortfolioBaselineService.load,                *)
(* _add_position_changes).                                                   *)
THEOREM ReportedChangesTrueHolds ==
    ASSUME OneProcess, OneWriter
    PROVE  BaselineSpec => []ReportedChangesTrue
<1>1. BaselineInit => LoadInv
  <2> SUFFICES ASSUME BaselineInit
               PROVE  LoadInv
    OBVIOUS
  <2>1. HistInv
    BY InitHistInv
  <2>2. anchor = {} /\ phase = "idle"
    BY DEF BaselineInit, ViewInit
  <2> QED
    BY <2>1, <2>2 DEF LoadInv, PackInv, ReportedChangesTrue, ReportedHeld, Packed
<1>2. LoadInv /\ [BaselineNext]_baselineVars => LoadInv'
  BY NextLoadInv
<1>3. LoadInv => ReportedChangesTrue
  BY DEF LoadInv, PackInv
<1> QED
  BY <1>1, <1>2, <1>3, PTL DEF BaselineSpec
=============================================================================
