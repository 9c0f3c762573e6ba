------------------------ MODULE ObservabilityProofs ------------------------
(***************************************************************************)
(* The safety properties of Observability, for any threads, any retention  *)
(* and any graph.                                                          *)
(*                                                                         *)
(* The with-blocks are a stack (StackInv): only the innermost block can    *)
(* have been ended, and then its status tells what its body raised.  The   *)
(* list of threads holds each thread once and exactly those that have      *)
(* summaries (KeptInv).                                                    *)
(***************************************************************************)
EXTENDS Observability, SequenceTheorems, TLAPS

Frame == [kind : {"run", "node", "llm"}, exported : BOOLEAN, ended : BOOLEAN,
          status : {"started", "completed", "failed"}]

Span == [status : {"started", "completed", "failed"}, lost : BOOLEAN,
         raised : {"none", "body", "export", "checkpoint"}]

\* How a body that raised x, or nothing, is told.
Told(x) == IF x = "none" THEN "completed" ELSE "failed"

(* Every variable stays in its domain. *)
ObservabilityTypes ==
  /\ pc \in {"idle", "open", "body", "leave", "finish"}
  /\ thread \in Threads /\ at \in Nat
  /\ traced \in [{"investment", "portfolio"} -> BOOLEAN]
  /\ frames \in Seq(Frame)
  /\ raised \in {"none", "body", "export", "checkpoint"}
  /\ opened \in Nat /\ spans \in Seq(Span)
  /\ calls \in Seq({"started", "completed", "failed"}) /\ counted \in Nat
  /\ failures \in Nat /\ bodyFailed \in BOOLEAN
  /\ outcome \in {"none", "answered", "failed"} /\ degraded \in BOOLEAN
  /\ order \in Seq(Threads) /\ summaries \subseteq Threads /\ raw \subseteq Threads
  /\ broken \in BOOLEAN /\ unpruned \subseteq Threads

(* The run's block is the outermost, then a node's, then a call's.  Blocks  *)
(* are open while the body runs or is left.                                 *)
StackInv ==
  /\ \A i \in DOMAIN frames :
       /\ frames[i].kind = IF i = 1 THEN "run" ELSE IF i = 2 THEN "node" ELSE "llm"
       /\ frames[i].ended =>
            pc = "leave" /\ i = Len(frames) /\ frames[i].status = Told(raised)
  /\ pc \in {"body", "leave"} <=> frames # <<>>
  /\ Len(frames) <= 3

(* What is on its way out while the run goes on, and how it ended. *)
RaisedInv ==
  /\ pc \in {"open", "body"} => raised = "none"
  /\ raised = "body" => bodyFailed
  /\ raised = "checkpoint" => broken
  /\ broken /\ pc = "leave" /\ Len(frames) = 1 => raised # "none"
  /\ broken /\ pc = "finish" => raised # "none"
  /\ broken /\ outcome # "none" => outcome = "failed"
  /\ pc # "idle" => outcome = "none"
  /\ outcome = "failed" => raised # "none"

(* The blocks of the list that have a span in the sink.  *)
Weight(q, i) == IF i \in DOMAIN q /\ q[i].exported THEN 1 ELSE 0
Exported(q)  == Weight(q, 1) + Weight(q, 2) + Weight(q, 3)

(* As long as nothing of tracing failed, every block that was to be traced  *)
(* is in the trace or still open; a run that ended without the warning had  *)
(* no such failure.                                                         *)
TraceInv ==
  /\ failures = 0 =>
       /\ opened = Len(spans) + Exported(frames)
       /\ \A i \in DOMAIN spans : ~spans[i].lost
  /\ outcome # "none" /\ ~degraded => failures = 0

(* A call of a model is under way while its block is the innermost one. *)
Calling == pc = "body" /\ Top.kind = "llm"

CallsInv ==
  /\ Len(calls) = IF Calling THEN 2 * counted + 1 ELSE 2 * counted
  /\ \A i \in DOMAIN calls : (calls[i] = "started") <=> (i % 2 = 1)

(* The retained threads, and the one that runs. *)
KeptInv ==
  /\ \A i, j \in DOMAIN order : order[i] = order[j] => i = j
  /\ Len(order) <= Retention
  /\ summaries = ToSet(order)
  /\ raw \subseteq ToSet(order) \cup unpruned
  /\ at > 0 /\ pc # "idle" => thread \in summaries
  /\ outcome # "none" /\ thread \in raw => degraded

ObservabilityInv ==
  /\ ObservabilityTypes /\ StackInv /\ RaisedInv /\ TraceInv /\ SpansTellTheEnd
  /\ CallsInv /\ KeptInv
-----------------------------------------------------------------------------
(* Stacks: pushing a block, leaving the last, changing the last. *)

LEMMA Pushed ==
  ASSUME NEW S, NEW q \in Seq(S), NEW e \in S, NEW r, r = Append(q, e)
  PROVE  /\ r \in Seq(S) /\ r # <<>> /\ Len(r) = Len(q) + 1
         /\ DOMAIN r = DOMAIN q \cup {Len(r)}
         /\ \A i \in DOMAIN q : i \in Nat /\ i < Len(r) /\ r[i] = q[i]
         /\ r[Len(r)] = e
  <1>1. /\ r \in Seq(S) /\ r # <<>> /\ Len(r) = Len(q) + 1
        /\ \A i \in 1..Len(q) : r[i] = q[i]
        /\ r[Len(q) + 1] = e
    BY AppendProperties
  <1>2. Len(q) \in Nat /\ DOMAIN q = 1..Len(q) /\ DOMAIN r = 1..Len(r)
    BY <1>1, LenProperties
  <1> QED
    BY <1>1, <1>2

LEMMA LastResult ==
  ASSUME NEW S, NEW q \in Seq(S), q # <<>>
  PROVE  /\ Len(q) \in Nat \ {0} /\ Len(q) \in DOMAIN q /\ DOMAIN q = 1..Len(q)
         /\ Last(q) \in S /\ Last(q) = q[Len(q)]
  <1>1. Len(q) \in Nat \ {0} /\ DOMAIN q = 1..Len(q)
    BY EmptySeq, LenProperties
  <1> QED
    BY <1>1, ElementOfSeq DEF Last

LEMMA FrontResult ==
  ASSUME NEW S, NEW q \in Seq(S), q # <<>>, NEW r, r = Front(q)
  PROVE  /\ r \in Seq(S) /\ Len(r) = Len(q) - 1 /\ DOMAIN r = 1..(Len(q) - 1)
         /\ \A i \in DOMAIN r : i \in DOMAIN q /\ i < Len(q) /\ r[i] = q[i]
         /\ r = <<>> <=> Len(q) = 1
  <1> DEFINE n == Len(q) - 1
  <1>1. Len(q) \in Nat \ {0} /\ DOMAIN q = 1..Len(q)
    BY LastResult
  <1>2. n \in Nat /\ \A i \in 1..n : q[i] \in S
    BY <1>1, ElementOfSeq
  <1>3. r = SubSeq(q, 1, n)
    BY DEF Front
  <1> HIDE DEF n
  <1>4. /\ r \in Seq(S) /\ Len(r) = (IF 1 <= n THEN n - 1 + 1 ELSE 0)
        /\ \A i \in 1..(n - 1 + 1) : r[i] = q[1 + i - 1]
    BY <1>2, <1>3, SubSeqProperties
  <1>5. Len(r) = n /\ \A i \in 1..n : r[i] = q[i]
    BY <1>2, <1>4
  <1>6. DOMAIN r = 1..n
    BY <1>4, <1>5, LenProperties
  <1>7. r \in Seq(S) /\ (r = <<>> <=> n = 0)
    BY <1>4, <1>5, EmptySeq
  <1>8. n = Len(q) - 1 /\ (n = 0 <=> Len(q) = 1)
    BY <1>1 DEF n
  <1>9. \A i \in DOMAIN r : i \in DOMAIN q /\ i < Len(q) /\ r[i] = q[i]
    BY <1>1, <1>5, <1>6, <1>8
  <1> QED
    BY <1>5, <1>6, <1>7, <1>8, <1>9

(* The same list, but for its last element. *)
ChangedIs(q, e, r) ==
  /\ r # <<>> /\ Len(r) = Len(q) /\ DOMAIN r = DOMAIN q
  /\ \A i \in DOMAIN q : i # Len(q) => r[i] = q[i]
  /\ r[Len(q)] = e

LEMMA ChangedLast ==
  ASSUME NEW S, NEW q \in Seq(S), q # <<>>, NEW e \in S, NEW r, r = Front(q) \o <<e>>
  PROVE  r \in Seq(S) /\ ChangedIs(q, e, r)
  <1> DEFINE f == Front(q)
  <1>1. /\ f \in Seq(S) /\ Len(f) = Len(q) - 1
        /\ DOMAIN f = 1..(Len(q) - 1) /\ \A i \in DOMAIN f : f[i] = q[i]
    BY FrontResult
  <1>2. Len(q) \in Nat \ {0} /\ DOMAIN q = 1..Len(q)
    BY LastResult
  <1>3. r = Append(f, e)
    BY <1>1, AppendIsConcat
  <1> HIDE DEF f
  <1>3a. f \in Seq(S) /\ r = Append(f, e)
    BY <1>1, <1>3
  <1>4. /\ r \in Seq(S) /\ r # <<>> /\ Len(r) = Len(f) + 1
        /\ DOMAIN r = DOMAIN f \cup {Len(r)}
        /\ \A i \in DOMAIN f : r[i] = f[i]
        /\ r[Len(r)] = e
    BY ONLY <1>3a, e \in S, Pushed
  <1>5. Len(r) = Len(q) /\ DOMAIN q = DOMAIN f \cup {Len(q)}
    BY <1>1, <1>2, <1>4
  <1> QED
    BY <1>1, <1>4, <1>5 DEF ChangedIs

-----------------------------------------------------------------------------
(* Spans. *)

LEMMA EnterSpanResult ==
  ASSUME ObservabilityTypes, NEW kind \in {"run", "node", "llm"},
         NEW id \in {"investment", "portfolio"}, EnterSpan(kind, id)
  PROVE  /\ \E b \in Frame :
               /\ frames' = Append(frames, b) /\ b.kind = kind /\ ~b.ended
               /\ failures' = 0 =>
                    failures = 0 /\ opened' = opened + (IF b.exported THEN 1 ELSE 0)
         /\ failures' \in Nat /\ opened' \in Nat
  <1>1. failures \in Nat /\ opened \in Nat /\ traced[id] \in BOOLEAN
    BY DEF ObservabilityTypes
  <1>2. opened' = IF traced[id] THEN opened + 1 ELSE opened
    BY DEF EnterSpan
  <1>3. /\ Block(kind, traced[id]) \in Frame /\ Block(kind, FALSE) \in Frame
        /\ \A x : /\ Block(kind, x).kind = kind /\ ~Block(kind, x).ended
                 /\ Block(kind, x).exported = x
    BY <1>1 DEF Block, Frame
  <1>4. CASE frames' = Append(frames, Block(kind, traced[id])) /\ UNCHANGED failures
    <2>1. opened' = opened + (IF Block(kind, traced[id]).exported THEN 1 ELSE 0)
      BY <1>1, <1>2, <1>3
    <2> QED
      BY <1>1, <1>2, <1>3, <1>4, <2>1
  <1>5. CASE frames' = Append(frames, Block(kind, FALSE)) /\ failures' = failures + 1
    <2>1. failures' \in Nat /\ failures' # 0
      BY <1>1, <1>5
    <2>2. PICK b \in Frame : b = Block(kind, FALSE)
      BY <1>3
    <2>3. frames' = Append(frames, b) /\ b.kind = kind /\ ~b.ended
      BY <1>3, <1>5, <2>2
    <2>4. opened' \in Nat
      BY <1>1, <1>2
    <2> QED
      BY <2>1, <2>3, <2>4
  <1> QED
    BY <1>4, <1>5 DEF EnterSpan

(* The sink has one more span, x. *)
OneMore(x) ==
  /\ spans' = Append(spans, x)
  /\ x.lost \/ x.status = Told(x.raised)
  /\ failures' = 0 => ~x.lost /\ Top.exported

(* A span that is left was ended with what its body raised, or is lost. *)
LEMMA LeaveSpanResult ==
  ASSUME ObservabilityTypes, frames # <<>>, LeaveSpan,
         Top.ended => Top.status = Told(raised)
  PROVE  /\ frames' = Front(frames) /\ opened' = opened
         /\ failures' \in Nat
         /\ \/ spans' = spans /\ (failures' = 0 => ~Top.exported)
            \/ \E x \in Span : OneMore(x)
         /\ failures' = 0 => failures = 0
  <1>1. Top \in Frame /\ failures \in Nat
    BY LastResult DEF ObservabilityTypes, Top
  <1>2. opened' = opened /\ frames' = Front(frames)
    BY DEF LeaveSpan
  <1>3. PICK end \in Ends, exit \in Exits :
           /\ spans' = IF Top.exported /\ exit = 0
                         THEN Append(spans, [status |-> end[1].status, lost |-> end[2] = 1, raised |-> raised])
                         ELSE spans
           /\ failures' = failures + end[2] + exit
    BY DEF LeaveSpan
  <1>4. end = <<IF Top.ended THEN Top ELSE Ended(Top), 0>> \/ end = <<Top, 1>>
    BY DEF Ends
  <1>5. Ended(Top) \in Frame /\ Ended(Top).status = Told(raised)
    BY <1>1 DEF Frame, Ended, Told
  <1>6. /\ end[1].status \in {"started", "completed", "failed"} /\ end[2] \in {0, 1}
        /\ end[2] = 1 \/ end[1].status = Told(raised)
    BY <1>1, <1>4, <1>5 DEF Frame
  <1>7. exit \in {0, 1}
    BY DEF Exits
  <1> DEFINE x == [status |-> end[1].status, lost |-> end[2] = 1, raised |-> raised]
  <1>8. x \in Span
    <2>1. (end[2] = 1) \in BOOLEAN
      BY Zenon
    <2> QED
      BY <1>6, <2>1 DEF Span, ObservabilityTypes
  <1>9. (x.lost \/ x.status = Told(x.raised)) /\ (x.lost <=> end[2] = 1)
    BY <1>6
  <1>10. /\ failures' \in Nat
         /\ failures' = 0 => failures = 0 /\ end[2] = 0 /\ exit = 0
    BY <1>1, <1>3, <1>6, <1>7
  <1>11. CASE Top.exported /\ exit = 0
    <2>1. spans' = Append(spans, x)
      BY <1>3, <1>11
    <2> HIDE DEF x
    <2>2. failures' = 0 => ~x.lost /\ Top.exported
      BY <1>9, <1>10, <1>11
    <2> QED
      BY <1>2, <1>8, <1>9, <1>10, <2>1, <2>2 DEF OneMore
  <1>12. CASE ~(Top.exported /\ exit = 0)
    BY <1>2, <1>3, <1>10, <1>12
  <1> QED
    BY <1>11, <1>12

-----------------------------------------------------------------------------
(* The list of threads. *)

Injective(q) == \A i, j \in DOMAIN q : q[i] = q[j] => i = j

(* The list without its first b elements, which go. *)
CutIs(k, b, r, gone) ==
  /\ Len(r) = Len(k) - b /\ Injective(r)
  /\ ToSet(r) = ToSet(k) \ gone
  /\ gone = {k[i] : i \in 1..b}

LEMMA CutResult ==
  ASSUME NEW S, NEW k \in Seq(S), Injective(k), NEW b \in 0..Len(k),
         NEW r, r = SubSeq(k, b + 1, Len(k)), NEW gone, gone = ToSet(SubSeq(k, 1, b))
  PROVE  r \in Seq(S) /\ CutIs(k, b, r, gone)
  <1> DEFINE n == Len(k)
             f == SubSeq(k, 1, b)
  <1>1. n \in Nat /\ DOMAIN k = 1..n /\ b \in 0..n /\ \A i \in 1..n : k[i] \in S
    BY LenProperties, ElementOfSeq
  <1>2. r \in Seq(S) /\ Len(r) = n - b /\ \A i \in 1..(n - b) : r[i] = k[i + b]
    <2>1. b + 1 \in Int /\ n \in Int /\ \A i \in (b + 1)..n : k[i] \in S
      BY <1>1
    <2>2. /\ r \in Seq(S) /\ Len(r) = (IF b + 1 <= n THEN n - (b + 1) + 1 ELSE 0)
          /\ \A i \in 1..(n - (b + 1) + 1) : r[i] = k[b + 1 + i - 1]
      BY <2>1, SubSeqProperties
    <2> HIDE DEF n
    <2> QED
      BY <1>1, <2>2
  <1>3. f \in Seq(S) /\ Len(f) = b /\ \A i \in 1..b : f[i] = k[i]
    <2>1. 1 \in Int /\ b \in Int /\ \A i \in 1..b : k[i] \in S
      BY <1>1
    <2>2. /\ f \in Seq(S) /\ Len(f) = (IF 1 <= b THEN b - 1 + 1 ELSE 0)
          /\ \A i \in 1..(b - 1 + 1) : f[i] = k[1 + i - 1]
      BY <2>1, SubSeqProperties
    <2> HIDE DEF n, f
    <2> QED
      BY <1>1, <2>2
  <1>4. DOMAIN r = 1..(n - b) /\ DOMAIN f = 1..b
    BY <1>2, <1>3, LenProperties
  <1>5. gone = {k[i] : i \in 1..b}
    BY <1>3, <1>4 DEF ToSet
  <1> HIDE DEF n, f
  <1>6. Injective(r)
    <2>1. \A i \in DOMAIN r : i + b \in DOMAIN k /\ r[i] = k[i + b] /\ i \in Int
      BY <1>1, <1>2, <1>4
    <2>2. \A i, j \in DOMAIN r : i + b = j + b => i = j
      BY <1>1, <1>4
    <2> QED
      BY <2>1, <2>2 DEF Injective
  <1>7. ToSet(r) = ToSet(k) \ gone
    <2>1. ASSUME NEW i \in DOMAIN r
          PROVE  r[i] \in ToSet(k) /\ r[i] \notin gone
      <3>1. i + b \in DOMAIN k /\ r[i] = k[i + b] /\ i + b \notin 1..b /\ 1..b \subseteq DOMAIN k
        BY <1>1, <1>2, <1>4
      <3> QED
        BY <1>5, <3>1 DEF ToSet, Injective
    <2>2. ASSUME NEW j \in DOMAIN k, k[j] \notin gone
          PROVE  k[j] \in ToSet(r)
      <3>1. j \notin 1..b
        BY <1>5, <2>2
      <3>2. j - b \in 1..(n - b) /\ (j - b) + b = j
        BY <1>1, <3>1
      <3> QED
        BY <1>2, <1>4, <3>2 DEF ToSet
    <2> QED
      <3>1. \A x \in ToSet(r) : x \in ToSet(k) \ gone
      BY <2>1 DEF ToSet
    <3>2. \A x \in ToSet(k) \ gone : x \in ToSet(r)
      BY <2>2 DEF ToSet
    <3> QED
      BY <3>1, <3>2
  <1> QED
    BY <1>2, <1>5, <1>6, <1>7 DEF CutIs, n

(* A thread is known, or is put at the end of the list; the oldest may be  *)
(* one too many.                                                           *)
LEMMA KnownResult ==
  ASSUME ObservabilityTypes, KeptInv, NEW known, known = Known,
         NEW beyond, beyond = IF Len(known) > Retention THEN Len(known) - Retention ELSE 0
  PROVE  /\ known \in Seq(Threads) /\ Injective(known)
         /\ ToSet(known) = ToSet(order) \cup {thread}
         /\ beyond \in {0, 1} /\ beyond <= Len(known) /\ Len(known) - beyond <= Retention
         /\ thread \notin {known[i] : i \in 1..beyond}
  <1>2. /\ order \in Seq(Threads) /\ Len(order) \in Nat /\ DOMAIN order = 1..Len(order)
        /\ thread \in Threads /\ Len(order) <= Retention /\ Injective(order)
    BY LenProperties DEF ObservabilityTypes, KeptInv, Injective
  <1>3. /\ known \in Seq(Threads) /\ Injective(known)
        /\ ToSet(known) = ToSet(order) \cup {thread}
        /\ beyond \in {0, 1} /\ beyond <= Len(known) /\ Len(known) - beyond <= Retention
        /\ thread \notin {known[i] : i \in 1..beyond}
    <2>1. CASE Contains(order, thread)
      <3>1. known = order /\ beyond = 0
        <4>1. known = order
          BY <2>1 DEF Known
        <4>2. ~(Len(known) > Retention)
          <5>1. Len(known) \in Nat /\ Len(known) <= Retention
            BY <1>2, <4>1
          <5> QED
            BY ONLY <5>1, RetentionAssumption
        <4> QED
          BY <4>1, <4>2
      <3>2. thread \in ToSet(order)
        BY <1>2, <2>1 DEF Contains, ToSet
      <3>3. ToSet(order) = ToSet(order) \cup {thread}
        BY <3>2
      <3>4. {known[i] : i \in 1..0} = {}
        OBVIOUS
      <3> QED
        BY <1>2, <3>1, <3>3, <3>4
    <2>2. CASE ~Contains(order, thread)
      <3>1. known = Append(order, thread)
        BY <2>2 DEF Known
      <3>2. /\ known \in Seq(Threads) /\ Len(known) = Len(order) + 1
            /\ DOMAIN known = DOMAIN order \cup {Len(known)}
            /\ \A i \in DOMAIN order : i \in Nat /\ i < Len(known) /\ known[i] = order[i]
            /\ known[Len(known)] = thread
        BY ONLY <1>2, <3>1, Pushed
      <3>3. \A i \in DOMAIN order : order[i] # thread
        BY <1>2, <2>2 DEF Contains
      <3>4. Injective(known)
        BY <1>2, <3>2, <3>3 DEF Injective
      <3>5. ToSet(known) = ToSet(order) \cup {thread}
        BY <3>2 DEF ToSet
      <3>6. /\ beyond \in {0, 1} /\ Len(known) - beyond <= Retention
            /\ beyond = 1 => Len(order) >= 1
        <4>1. CASE Len(known) > Retention
          <5>1. Len(known) = Retention + 1 /\ Len(order) = Retention
            <6> DEFINE l == Len(known)
                       m == Len(order)
            <6>1. l = m + 1 /\ m \in Nat /\ m <= Retention /\ l > Retention
              BY <1>2, <3>2, <4>1
            <6> HIDE DEF l, m
            <6>2. l = Retention + 1 /\ m = Retention
              BY <6>1, RetentionAssumption
            <6> QED
              BY <6>2 DEF l, m
          <5>2. beyond = Len(known) - Retention
            BY <4>1
          <5> QED
            BY <5>1, <5>2, RetentionAssumption
        <4>2. CASE ~(Len(known) > Retention)
          <5>1. beyond = 0
            BY <4>2
          <5> QED
            BY <1>2, <3>2, <4>2, <5>1, RetentionAssumption
        <4> QED
          BY <4>1, <4>2
      <3>7. \A i \in 1..beyond : i \in DOMAIN order
        <4>1. CASE beyond = 0
          BY <4>1
        <4>2. CASE beyond = 1
          BY <1>2, <3>6, <4>2
        <4> QED
          BY <3>6, <4>1, <4>2
      <3>8. thread \notin {known[i] : i \in 1..beyond}
        BY <3>2, <3>3, <3>7
      <3>9. beyond \in {0, 1} /\ beyond <= Len(known)
        BY <1>2, <3>2, <3>6
      <3> QED
        BY <3>2, <3>4, <3>5, <3>6, <3>8, <3>9
    <2> QED
      BY <2>1, <2>2
  <1> QED
    BY <1>3

(* The oldest thread goes, if there are too many: with its checkpoints, or  *)
(* leaving them behind.                                                     *)
LEMMA CheckpointResult ==
  ASSUME ObservabilityTypes, KeptInv, Checkpoint
  PROVE  /\ order' \in Seq(Threads) /\ Injective(order') /\ Len(order') <= Retention
         /\ summaries' = ToSet(order') /\ raw' \subseteq ToSet(order') \cup unpruned'
         /\ thread \in summaries'
         /\ summaries' \subseteq Threads /\ raw' \subseteq Threads
         /\ broken' \in BOOLEAN /\ unpruned' \subseteq Threads
  <1> DEFINE known  == Known
             beyond == IF Len(known) > Retention THEN Len(known) - Retention ELSE 0
             gone   == ToSet(SubSeq(known, 1, beyond))
  <1>1. /\ order \in Seq(Threads) /\ thread \in Threads /\ Injective(order)
        /\ summaries = ToSet(order) /\ raw \subseteq ToSet(order) \cup unpruned
        /\ summaries \subseteq Threads /\ raw \subseteq Threads
        /\ unpruned \subseteq Threads /\ broken \in BOOLEAN
    BY DEF ObservabilityTypes, KeptInv, Injective
  <1>2. /\ known \in Seq(Threads) /\ Injective(known)
        /\ ToSet(known) = ToSet(order) \cup {thread}
        /\ beyond \in {0, 1} /\ beyond <= Len(known) /\ Len(known) - beyond <= Retention
        /\ thread \notin {known[i] : i \in 1..beyond}
    BY KnownResult
  <1>3. ASSUME NEW b \in {0, 1}, b = beyond, NEW q, q = SubSeq(known, b + 1, Len(known)),
               NEW g, g = {known[i] : i \in 1..b}
        PROVE  /\ q \in Seq(Threads) /\ Injective(q) /\ Len(q) <= Retention
               /\ ToSet(q) = (ToSet(order) \cup {thread}) \ g /\ thread \notin g
               /\ g = ToSet(SubSeq(known, 1, b)) /\ g \subseteq Threads
    <2> HIDE DEF known, beyond
    <2>1. b \in 0..Len(known) /\ Len(known) \in Nat /\ DOMAIN known = 1..Len(known)
      BY <1>2, <1>3, LenProperties
    <2>2. q \in Seq(Threads) /\ CutIs(known, b, q, ToSet(SubSeq(known, 1, b)))
      BY ONLY <1>2, <1>3, <2>1, CutResult
    <2>3. g = ToSet(SubSeq(known, 1, b))
      BY <1>3, <2>2 DEF CutIs
    <2>4. Len(q) = Len(known) - b /\ Injective(q) /\ ToSet(q) = ToSet(known) \ g
      BY <2>2, <2>3 DEF CutIs
    <2>5. g \subseteq Threads
      BY <1>2, <1>3, <2>1, ElementOfSeq
    <2> QED
      BY <1>2, <1>3, <2>2, <2>3, <2>4, <2>5
  <1>4. CASE Put
    <2>1. /\ order' = SubSeq(known, beyond + 1, Len(known))
          /\ summaries' = (summaries \cup {thread}) \ gone
          /\ raw' = (raw \ gone) \cup {thread}
          /\ unpruned' = unpruned \ {thread} /\ broken' = broken
      BY <1>4 DEF Put
    <2> HIDE DEF known, beyond, gone
    <2>2. PICK g : g = {known[i] : i \in 1..beyond}
      OBVIOUS
    <2>3. /\ order' \in Seq(Threads) /\ Injective(order') /\ Len(order') <= Retention
          /\ ToSet(order') = (ToSet(order) \cup {thread}) \ g /\ thread \notin g
          /\ g = ToSet(SubSeq(known, 1, beyond))
      BY <1>2, <1>3, <2>1, <2>2
    <2>4. g = gone
      BY <2>3 DEF gone
    <2> QED
      BY <1>1, <2>1, <2>3, <2>4
  <1>5. CASE PruneFails
    <2>1. /\ Len(known) > Retention /\ order' = Tail(known)
          /\ summaries' = (summaries \cup {thread}) \ {Head(known)}
          /\ raw' = raw /\ broken' = TRUE
          /\ unpruned' = unpruned \cup {Head(known)}
      BY <1>5 DEF PruneFails
    <2>2. Len(known) \in Nat /\ Len(known) # 0 /\ known # <<>>
      BY <1>2, <2>1, LenProperties, EmptySeq, RetentionAssumption
    <2>3. beyond = 1
      BY <1>2, <2>1, <2>2, RetentionAssumption
    <2>4. /\ Tail(known) = SubSeq(known, 2, Len(known)) /\ Head(known) = known[1]
      BY <1>2, <2>2, TailIsSubSeq
    <2>5. {known[i] : i \in 1..1} = {Head(known)}
      BY <2>4
    <2> HIDE DEF known, beyond, gone
    <2>6. order' = SubSeq(known, 1 + 1, Len(known))
      BY <2>1, <2>4
    <2>7. /\ order' \in Seq(Threads) /\ Injective(order') /\ Len(order') <= Retention
          /\ ToSet(order') = (ToSet(order) \cup {thread}) \ {Head(known)}
          /\ thread \notin {Head(known)} /\ {Head(known)} \subseteq Threads
      <3>1. PICK g : g = {known[i] : i \in 1..1}
        OBVIOUS
      <3>2. 1 \in {0, 1} /\ 1 = beyond
        BY <2>3
      <3> QED
        BY <1>3, <2>5, <2>6, <3>1, <3>2
    <2> QED
      BY <1>1, <2>1, <2>7
  <1> QED
    BY <1>4, <1>5 DEF Checkpoint

(* The list without one thread. *)
LEMMA WithoutResult ==
  ASSUME NEW S, NEW q \in Seq(S), Injective(q), NEW t
  PROVE  /\ Without(q, t) \in Seq(S) /\ Injective(Without(q, t))
         /\ Len(Without(q, t)) <= Len(q)
         /\ ToSet(Without(q, t)) = ToSet(q) \ {t}
  <1>0. Len(q) \in Nat /\ DOMAIN q = 1..Len(q) /\ \A i \in 1..Len(q) : q[i] \in S
    BY LenProperties, ElementOfSeq
  <1>1. CASE ~Contains(q, t)
    <2>1. Without(q, t) = q /\ t \notin ToSet(q)
      BY <1>0, <1>1 DEF Without, Contains, ToSet
    <2> QED
      BY <1>0, <2>1
  <1>2. CASE Contains(q, t)
    <2> DEFINE k == CHOOSE i \in DOMAIN q : q[i] = t
               n == Len(q)
               a == SubSeq(q, 1, k - 1)
               z == SubSeq(q, k + 1, n)
               r == a \o z
    <2>1. k \in 1..n /\ q[k] = t /\ n \in Nat
      BY <1>0, <1>2 DEF Contains
    <2>2. Without(q, t) = r
      BY <1>2 DEF Without, RemoveAt
    <2> HIDE DEF k
    <2>3. a \in Seq(S) /\ Len(a) = k - 1 /\ \A i \in 1..(k - 1) : a[i] = q[i]
      <3>1. 1 \in Int /\ k - 1 \in Int /\ \A i \in 1..(k - 1) : q[i] \in S
        BY <1>0, <2>1
      <3>2. /\ a \in Seq(S) /\ Len(a) = (IF 1 <= k - 1 THEN k - 1 - 1 + 1 ELSE 0)
            /\ \A i \in 1..(k - 1 - 1 + 1) : a[i] = q[1 + i - 1]
        BY <3>1, SubSeqProperties
      <3> HIDE DEF a
      <3> QED
        BY <2>1, <3>2
    <2>4. z \in Seq(S) /\ Len(z) = n - k /\ \A i \in 1..(n - k) : z[i] = q[k + i]
      <3>1. k + 1 \in Int /\ n \in Int /\ \A i \in (k + 1)..n : q[i] \in S
        BY <1>0, <2>1
      <3>2. /\ z \in Seq(S) /\ Len(z) = (IF k + 1 <= n THEN n - (k + 1) + 1 ELSE 0)
            /\ \A i \in 1..(n - (k + 1) + 1) : z[i] = q[k + 1 + i - 1]
        BY <3>1, SubSeqProperties
      <3> HIDE DEF z, n
      <3> QED
        BY <2>1, <3>2
    <2> HIDE DEF a, z
    <2>5. /\ r \in Seq(S) /\ Len(r) = Len(a) + Len(z)
          /\ \A i \in 1 .. Len(a) + Len(z) : r[i] = IF i <= Len(a) THEN a[i] ELSE z[i - Len(a)]
      BY <2>3, <2>4, ConcatProperties
    <2> HIDE DEF r
    <2>6. Len(r) = n - 1 /\ DOMAIN r = 1..(n - 1)
      <3>1. DOMAIN r = 1..Len(r)
        BY <2>5, LenProperties
      <3> HIDE DEF n
      <3> QED
        BY <2>1, <2>3, <2>4, <2>5, <3>1
    <2>7. \A i \in 1..(n - 1) : r[i] = q[IF i < k THEN i ELSE i + 1]
      <3> HIDE DEF n
      <3> SUFFICES ASSUME NEW i \in 1..(n - 1)
                   PROVE  r[i] = q[IF i < k THEN i ELSE i + 1]
        OBVIOUS
      <3>1. i \in 1 .. Len(a) + Len(z)
        BY <2>1, <2>3, <2>4
      <3>2. CASE i < k
        BY <2>1, <2>3, <2>5, <3>1, <3>2
      <3>3. CASE ~(i < k)
        <4>1. i - (k - 1) \in 1..(n - k) /\ k + (i - (k - 1)) = i + 1
          BY <2>1, <3>3
        <4>2. r[i] = z[i - (k - 1)]
          BY <2>1, <2>3, <2>5, <3>1, <3>3
        <4> QED
          BY <2>4, <3>3, <4>1, <4>2
      <3> QED
        BY <3>2, <3>3
    <2> HIDE DEF n
    <2>8. Injective(r)
      <3> SUFFICES ASSUME NEW i \in 1..(n - 1), NEW j \in 1..(n - 1), r[i] = r[j]
                   PROVE  i = j
        BY <2>6 DEF Injective
      <3> DEFINE x == IF i < k THEN i ELSE i + 1
                 y == IF j < k THEN j ELSE j + 1
      <3>1. x \in 1..n /\ y \in 1..n /\ (x = y => i = j)
        BY <2>1
      <3>2. q[x] = q[y]
        BY <2>7
      <3> HIDE DEF x, y
      <3> QED
        BY <1>0, <3>1, <3>2 DEF Injective, n
    <2>9. ToSet(r) = ToSet(q) \ {t}
      <3>1. ASSUME NEW i \in 1..(n - 1)
            PROVE  r[i] \in ToSet(q) /\ r[i] # t
        <4> DEFINE x == IF i < k THEN i ELSE i + 1
        <4>1. x \in 1..n /\ x # k
          BY <2>1
        <4>2. r[i] = q[x]
          BY <2>7
        <4> HIDE DEF x
        <4> QED
          BY <1>0, <2>1, <4>1, <4>2 DEF Injective, ToSet, n
      <3>2. ASSUME NEW j \in 1..n, q[j] # t
            PROVE  q[j] \in ToSet(r)
        <4> DEFINE i == IF j < k THEN j ELSE j - 1
        <4>1. i \in 1..(n - 1) /\ (IF i < k THEN i ELSE i + 1) = j
          BY <2>1, <3>2
        <4>2. r[i] = q[j]
          BY <2>7, <4>1
        <4> QED
          BY <2>6, <4>1, <4>2 DEF ToSet
      <3> QED
        BY <1>0, <2>6, <3>1, <3>2 DEF ToSet, n
    <2>10. Len(r) <= Len(q)
      BY <2>1, <2>6 DEF n
    <2> QED
      BY <2>2, <2>5, <2>8, <2>9, <2>10
  <1> QED
    BY <1>1, <1>2
-----------------------------------------------------------------------------
(* What a step does to the blocks. *)

LEMMA EmptyResult ==
  /\ \A S : <<>> \in Seq(S)
  /\ Len(<<>>) = 0 /\ DOMAIN <<>> = {} /\ ToSet(<<>>) = {}
  <1>1. DOMAIN <<>> = {}
    OBVIOUS
  <1> QED
    BY <1>1, EmptySeq DEF ToSet

LEMMA TopResult ==
  ASSUME ObservabilityTypes, StackInv, frames # <<>>
  PROVE  /\ Top \in Frame /\ Len(frames) \in {1, 2, 3}
         /\ Top = frames[Len(frames)] /\ Len(frames) \in DOMAIN frames
         /\ Top.kind = "run" <=> Len(frames) = 1
         /\ Top.kind = "node" <=> Len(frames) = 2
         /\ Top.ended => pc = "leave" /\ Top.status = Told(raised)
  <1>1. /\ Len(frames) \in Nat \ {0} /\ Len(frames) \in DOMAIN frames
        /\ Top \in Frame /\ Top = frames[Len(frames)]
    BY LastResult DEF ObservabilityTypes, Top
  <1>2. Len(frames) \in {1, 2, 3}
    <2>1. Len(frames) \in Nat \ {0} /\ Len(frames) <= 3
      BY <1>1 DEF StackInv
    <2>2. \A n \in Nat \ {0} : n <= 3 => n \in {1, 2, 3}
      OBVIOUS
    <2> QED
      BY ONLY <2>1, <2>2, Zenon
  <1>3. /\ Top.kind = IF Len(frames) = 1 THEN "run" ELSE IF Len(frames) = 2 THEN "node" ELSE "llm"
        /\ Top.ended => pc = "leave" /\ Top.status = Told(raised)
    BY <1>1 DEF StackInv
  <1>4. (Top.kind = "run" <=> Len(frames) = 1) /\ (Top.kind = "node" <=> Len(frames) = 2)
    BY ONLY <1>2, <1>3
  <1> QED
    BY <1>1, <1>2, <1>3, <1>4

(* A block is opened inside the innermost one. *)
LEMMA OpenedBlock ==
  ASSUME ObservabilityTypes, StackInv, pc # "leave", pc' = "body", NEW b \in Frame,
         frames' = Append(frames, b), ~b.ended,
         \/ Len(frames) = 0 /\ b.kind = "run"
         \/ Len(frames) = 1 /\ b.kind = "node"
         \/ Len(frames) = 2 /\ b.kind = "llm"
  PROVE  frames' \in Seq(Frame) /\ StackInv' /\ Top' = b
  <1>1. /\ frames' \in Seq(Frame) /\ frames' # <<>> /\ Len(frames') = Len(frames) + 1
        /\ DOMAIN frames' = DOMAIN frames \cup {Len(frames')}
        /\ \A i \in DOMAIN frames : i \in Nat /\ i < Len(frames') /\ frames'[i] = frames[i]
        /\ frames'[Len(frames')] = b
    <2>1. frames \in Seq(Frame)
      BY DEF ObservabilityTypes
    <2> QED
      BY <2>1, Pushed
  <1>2. Top' = b
    BY <1>1 DEF Top, Last
  <1>3. \A i \in DOMAIN frames : ~frames[i].ended
    BY DEF StackInv
  <1>4. ASSUME NEW i \in DOMAIN frames'
        PROVE  /\ frames'[i].kind = IF i = 1 THEN "run" ELSE IF i = 2 THEN "node" ELSE "llm"
               /\ ~frames'[i].ended
    <2>1. CASE i \in DOMAIN frames
      BY <1>1, <1>3, <2>1 DEF StackInv
    <2>2. CASE i = Len(frames')
      BY <1>1, <2>2
    <2> QED
      BY <1>1, <2>1, <2>2
  <1>5. Len(frames') <= 3
    BY <1>1
  <1> QED
    BY <1>1, <1>2, <1>4, <1>5 DEF StackInv

(* The innermost block is left: that of the run is the last. *)
LEMMA LeftBlock ==
  ASSUME ObservabilityTypes, StackInv, pc = "leave", frames' = Front(frames),
         \/ Top.kind = "run" /\ pc' = "finish"
         \/ Top.kind # "run" /\ pc' \in {"body", "leave"}
  PROVE  frames' \in Seq(Frame) /\ StackInv' /\ ~Calling'
  <1>1. frames # <<>> /\ frames \in Seq(Frame)
    BY DEF StackInv, ObservabilityTypes
  <1>2. /\ frames' \in Seq(Frame) /\ Len(frames') = Len(frames) - 1
        /\ \A i \in DOMAIN frames' : i \in DOMAIN frames /\ i < Len(frames) /\ frames'[i] = frames[i]
        /\ frames' = <<>> <=> Len(frames) = 1
    BY <1>1, FrontResult
  <1>3. Len(frames) \in {1, 2, 3} /\ (Top.kind = "run" <=> Len(frames) = 1)
    BY <1>1, TopResult
  <1>4. pc' \in {"body", "leave"} <=> frames' # <<>>
    BY <1>2, <1>3
  <1>5. Len(frames') <= 3
    BY <1>2, <1>3
  <1>6. ASSUME NEW i \in DOMAIN frames'
        PROVE  /\ frames'[i].kind = IF i = 1 THEN "run" ELSE IF i = 2 THEN "node" ELSE "llm"
               /\ ~frames'[i].ended
    BY <1>2, <1>3 DEF StackInv
  <1>7. StackInv'
    BY <1>4, <1>5, <1>6 DEF StackInv
  <1>8. ~Calling'
    <2>1. CASE frames' = <<>>
      BY <1>4, <2>1 DEF Calling
    <2>2. CASE frames' # <<>>
      <3>1. Len(frames') \in {1, 2}
        BY <1>2, <1>3, <2>2
      <3>2. Top' = frames'[Len(frames')] /\ Len(frames') \in DOMAIN frames'
        BY <1>2, <2>2, LastResult DEF Top
      <3>3. Top'.kind # "llm"
        BY <1>6, <3>1, <3>2
      <3> QED
        BY <3>3 DEF Calling
    <2> QED
      BY <2>1, <2>2
  <1> QED
    BY <1>2, <1>7, <1>8

(* The body ends: its block stays the innermost one, ended or not. *)
LEMMA EndedBody ==
  ASSUME ObservabilityTypes, StackInv, pc = "body", pc' = "leave",
         \/ frames' = frames
         \/ \E s \in {"completed", "failed"} :
              /\ frames' = Front(frames) \o <<[Top EXCEPT !.ended = TRUE, !.status = s]>>
              /\ s = Told(raised')
  PROVE  frames' \in Seq(Frame) /\ StackInv' /\ ~Calling'
  <1>1. frames # <<>> /\ frames \in Seq(Frame)
    BY DEF StackInv, ObservabilityTypes
  <1>2. ~Calling'
    BY DEF Calling
  <1>3. \A i \in DOMAIN frames : ~frames[i].ended
    BY DEF StackInv
  <1>4. CASE frames' = frames
    BY <1>1, <1>2, <1>3, <1>4 DEF StackInv
  <1>5. CASE frames' # frames
    <2>1. PICK s \in {"completed", "failed"} :
            /\ frames' = Front(frames) \o <<[Top EXCEPT !.ended = TRUE, !.status = s]>>
            /\ s = Told(raised')
      BY <1>5
    <2> DEFINE e == [Top EXCEPT !.ended = TRUE, !.status = s]
    <2>2. Top \in Frame /\ Top = frames[Len(frames)] /\ Len(frames) \in DOMAIN frames
      BY <1>1, TopResult
    <2>3. e \in Frame /\ e.kind = Top.kind /\ e.status = s
      BY <2>2 DEF Frame
    <2>4. frames' = Front(frames) \o <<e>>
      BY <2>1
    <2> HIDE DEF e
    <2>5. /\ frames' \in Seq(Frame) /\ frames' # <<>> /\ Len(frames') = Len(frames)
          /\ DOMAIN frames' = DOMAIN frames
          /\ \A i \in DOMAIN frames : i # Len(frames) => frames'[i] = frames[i]
          /\ frames'[Len(frames)] = e
      <3> DEFINE r == frames'
      <3>1. frames \in Seq(Frame) /\ frames # <<>> /\ e \in Frame /\ r = Front(frames) \o <<e>>
        BY <1>1, <2>3, <2>4
      <3> HIDE DEF r
      <3>2. r \in Seq(Frame) /\ ChangedIs(frames, e, r)
        BY ONLY <3>1, ChangedLast
      <3> QED
        BY <3>2 DEF r, ChangedIs
    <2>6. \A i \in DOMAIN frames' : frames'[i].kind = frames[i].kind
      BY <2>2, <2>3, <2>5
    <2>7. \A i \in DOMAIN frames' : frames'[i].ended => i = Len(frames') /\ frames'[i].status = Told(raised')
      BY <1>3, <2>1, <2>3, <2>5
    <2>8. \A i \in DOMAIN frames' :
            frames'[i].kind = IF i = 1 THEN "run" ELSE IF i = 2 THEN "node" ELSE "llm"
      BY <2>5, <2>6 DEF StackInv
    <2>9. Len(frames') <= 3 /\ pc' = "leave"
      BY <2>5 DEF StackInv
    <2>10. StackInv'
      BY ONLY <2>5, <2>7, <2>8, <2>9 DEF StackInv
    <2> QED
      BY <1>2, <2>5, <2>10
  <1> QED
    BY <1>4, <1>5

-----------------------------------------------------------------------------
(* What a step does to the number of blocks that have a span. *)

LEMMA ExportedPushed ==
  ASSUME NEW q \in Seq(Frame), Len(q) \in {0, 1, 2}, NEW b \in Frame, NEW r, r = Append(q, b)
  PROVE  Exported(r) = Exported(q) + (IF b.exported THEN 1 ELSE 0)
  <1>1. DOMAIN q = 1..Len(q)
    BY LenProperties
  <1>2. /\ DOMAIN r = DOMAIN q \cup {Len(q) + 1}
        /\ \A i \in DOMAIN q : r[i] = q[i]
        /\ r[Len(q) + 1] = b
    BY Pushed
  <1>3. \A i \in DOMAIN q : Weight(r, i) = Weight(q, i)
    BY <1>2 DEF Weight
  <1>4. \A i : i \notin DOMAIN q => Weight(q, i) = 0
    BY DEF Weight
  <1>5. \A i : i \notin DOMAIN r => Weight(r, i) = 0
    BY DEF Weight
  <1>6. Weight(r, Len(q) + 1) = IF b.exported THEN 1 ELSE 0
    BY <1>2 DEF Weight
  <1>7. \A i : Weight(q, i) \in {0, 1}
    BY DEF Weight
  <1>8. CASE Len(q) = 0
    BY <1>1, <1>2, <1>4, <1>5, <1>6, <1>8 DEF Exported
  <1>9. CASE Len(q) = 1
    BY <1>1, <1>2, <1>3, <1>4, <1>5, <1>6, <1>7, <1>9 DEF Exported
  <1>10. CASE Len(q) = 2
    BY <1>1, <1>2, <1>3, <1>4, <1>5, <1>6, <1>7, <1>10 DEF Exported
  <1> QED
    BY <1>8, <1>9, <1>10

LEMMA ExportedFront ==
  ASSUME NEW q \in Seq(Frame), Len(q) \in {1, 2, 3}, NEW r, r = Front(q)
  PROVE  Exported(q) = Exported(r) + (IF q[Len(q)].exported THEN 1 ELSE 0)
  <1>1. q # <<>> /\ DOMAIN q = 1..Len(q)
    BY EmptySeq, LenProperties
  <1>2. DOMAIN r = 1..(Len(q) - 1) /\ \A i \in DOMAIN r : r[i] = q[i]
    BY <1>1, FrontResult
  <1>3. \A i \in DOMAIN r : Weight(r, i) = Weight(q, i)
    BY <1>1, <1>2 DEF Weight
  <1>4. \A i : i \notin DOMAIN q => Weight(q, i) = 0
    BY DEF Weight
  <1>5. \A i : i \notin DOMAIN r => Weight(r, i) = 0
    BY DEF Weight
  <1>6. Weight(q, Len(q)) = IF q[Len(q)].exported THEN 1 ELSE 0
    BY <1>1 DEF Weight
  <1>7. \A i : Weight(q, i) \in {0, 1}
    BY DEF Weight
  <1>8. CASE Len(q) = 1
    BY <1>1, <1>2, <1>4, <1>5, <1>6, <1>8 DEF Exported
  <1>9. CASE Len(q) = 2
    BY <1>1, <1>2, <1>3, <1>4, <1>5, <1>6, <1>7, <1>9 DEF Exported
  <1>10. CASE Len(q) = 3
    BY <1>1, <1>2, <1>3, <1>4, <1>5, <1>6, <1>7, <1>10 DEF Exported
  <1> QED
    BY <1>8, <1>9, <1>10

LEMMA ExportedNat == \A q : Exported(q) \in Nat
  BY DEF Exported, Weight

(* One more block is open, or tracing has failed. *)
LEMMA OpenedTrace ==
  ASSUME ObservabilityTypes, TraceInv, Len(frames) \in {0, 1, 2}, outcome' = "none",
         NEW b \in Frame, frames' = Append(frames, b), spans' = spans,
         failures' = 0 => failures = 0 /\ opened' = opened + (IF b.exported THEN 1 ELSE 0)
  PROVE  TraceInv'
  <1>1. frames \in Seq(Frame) /\ opened \in Nat /\ Len(spans) \in Nat
    BY LenProperties DEF ObservabilityTypes
  <1>2. Exported(frames') = Exported(frames) + (IF b.exported THEN 1 ELSE 0)
    BY <1>1, ExportedPushed
  <1>3. Exported(frames) \in Nat
    BY ExportedNat
  <1>4. ASSUME failures' = 0
        PROVE  opened' = Len(spans) + Exported(frames') /\ \A i \in DOMAIN spans : ~spans[i].lost
    <2>1. opened = Len(spans) + Exported(frames) /\ \A i \in DOMAIN spans : ~spans[i].lost
      BY <1>4 DEF TraceInv
    <2>2. opened' = opened + (IF b.exported THEN 1 ELSE 0)
      BY <1>4
    <2> HIDE DEF Exported
    <2> QED
      BY <1>1, <1>2, <1>3, <2>1, <2>2
  <1> QED
    BY <1>4 DEF TraceInv

-----------------------------------------------------------------------------
(* The steps, one by one. *)

LEMMA InitStep == ObservabilityInit => ObservabilityInv
  <1> SUFFICES ASSUME ObservabilityInit PROVE ObservabilityInv
    OBVIOUS
  <1> USE EmptyResult, RetentionAssumption DEF ObservabilityInit
  <1>1. ObservabilityTypes
    BY DEF ObservabilityTypes
  <1>2. StackInv
    BY DEF StackInv
  <1>3. RaisedInv /\ TraceInv /\ SpansTellTheEnd
    BY DEF RaisedInv, TraceInv, SpansTellTheEnd, Exported, Weight
  <1>4. CallsInv
    BY DEF CallsInv, Calling
  <1>5. KeptInv
    BY DEF KeptInv
  <1> QED
    BY <1>1, <1>2, <1>3, <1>4, <1>5 DEF ObservabilityInv

LEMMA StartRunStep ==
  ASSUME ObservabilityInv, StartRun
  PROVE  ObservabilityInv'
  <1> USE EmptyResult DEF ObservabilityInv, StartRun, kept
  <1>1. ObservabilityTypes'
    BY DEF ObservabilityTypes
  <1>2. StackInv'
    BY DEF StackInv
  <1>3. RaisedInv' /\ TraceInv' /\ SpansTellTheEnd'
    BY DEF RaisedInv, TraceInv, SpansTellTheEnd, Exported, Weight
  <1>4. CallsInv'
    BY DEF CallsInv, Calling
  <1>5. KeptInv'
    BY DEF KeptInv
  <1> QED
    BY <1>1, <1>2, <1>3, <1>4, <1>5

LEMMA OpenRunStep ==
  ASSUME ObservabilityInv, OpenRun
  PROVE  ObservabilityInv'
  <1>0. /\ ObservabilityTypes /\ StackInv /\ RaisedInv /\ TraceInv /\ SpansTellTheEnd
        /\ CallsInv /\ KeptInv
    BY DEF ObservabilityInv
  <1>1. /\ pc = "open" /\ pc' = "body" /\ EnterSpan("run", "investment")
        /\ UNCHANGED <<thread, traced, at, raised, spans, calls, counted, bodyFailed, outcome,
                       degraded, order, summaries, raw, broken, unpruned>>
    BY DEF OpenRun, run, llm, kept
  <1>2. failures' \in Nat /\ opened' \in Nat
    BY <1>0, <1>1, EnterSpanResult
  <1>3. PICK b \in Frame :
          /\ frames' = Append(frames, b) /\ b.kind = "run" /\ ~b.ended
          /\ failures' = 0 => failures = 0 /\ opened' = opened + (IF b.exported THEN 1 ELSE 0)
    BY <1>0, <1>1, EnterSpanResult
  <1>4. Len(frames) = 0
    BY <1>0, <1>1, EmptyResult DEF StackInv
  <1>5. frames' \in Seq(Frame) /\ StackInv' /\ Top' = b
    BY <1>0, <1>1, <1>3, <1>4, OpenedBlock
  <1>6. ObservabilityTypes'
    BY <1>0, <1>1, <1>2, <1>5 DEF ObservabilityTypes
  <1>7. RaisedInv' /\ SpansTellTheEnd'
    BY <1>0, <1>1 DEF RaisedInv, SpansTellTheEnd
  <1>7a. TraceInv'
    <2>1. outcome' = "none"
      BY <1>0, <1>1 DEF RaisedInv
    <2> QED
      BY <1>0, <1>1, <1>3, <1>4, <2>1, OpenedTrace
  <1>8. CallsInv'
    BY <1>0, <1>1, <1>3, <1>5 DEF CallsInv, Calling
  <1>9. KeptInv'
    BY <1>0, <1>1 DEF KeptInv
  <1> QED
    BY <1>5, <1>6, <1>7, <1>7a, <1>8, <1>9 DEF ObservabilityInv

LEMMA EnterNodeStep ==
  ASSUME ObservabilityInv, EnterNode
  PROVE  ObservabilityInv'
  <1>0. /\ ObservabilityTypes /\ StackInv /\ RaisedInv /\ TraceInv /\ SpansTellTheEnd
        /\ CallsInv /\ KeptInv
    BY DEF ObservabilityInv
  <1>1. /\ pc = "body" /\ pc' = "body" /\ Top.kind = "run" /\ at' = at + 1
        /\ Checkpoint /\ EnterSpan("node", "investment")
        /\ UNCHANGED <<thread, traced, raised, spans, calls, counted, bodyFailed, outcome, degraded>>
    BY DEF EnterNode, llm
  <1>2. failures' \in Nat /\ opened' \in Nat
    BY <1>0, <1>1, EnterSpanResult
  <1>3. PICK b \in Frame :
          /\ frames' = Append(frames, b) /\ b.kind = "node" /\ ~b.ended
          /\ failures' = 0 => failures = 0 /\ opened' = opened + (IF b.exported THEN 1 ELSE 0)
    BY <1>0, <1>1, EnterSpanResult
  <1>4. Len(frames) = 1
    <2>1. frames # <<>>
      BY <1>0, <1>1 DEF StackInv
    <2> QED
      BY <1>0, <1>1, <2>1, TopResult
  <1>5. frames' \in Seq(Frame) /\ StackInv' /\ Top' = b
    BY <1>0, <1>1, <1>3, <1>4, OpenedBlock
  <1>6. /\ order' \in Seq(Threads) /\ Injective(order') /\ Len(order') <= Retention
        /\ summaries' = ToSet(order') /\ raw' \subseteq ToSet(order') \cup unpruned'
        /\ thread \in summaries' /\ summaries' \subseteq Threads /\ raw' \subseteq Threads
        /\ broken' \in BOOLEAN /\ unpruned' \subseteq Threads
    BY <1>0, <1>1, CheckpointResult
  <1>7. ObservabilityTypes'
    BY <1>0, <1>1, <1>2, <1>5, <1>6 DEF ObservabilityTypes
  <1>8. RaisedInv' /\ SpansTellTheEnd'
    BY <1>0, <1>1 DEF RaisedInv, SpansTellTheEnd
  <1>8a. TraceInv'
    <2>1. outcome' = "none"
      BY <1>0, <1>1 DEF RaisedInv
    <2> QED
      BY <1>0, <1>1, <1>3, <1>4, <2>1, OpenedTrace
  <1>9. CallsInv'
    BY <1>0, <1>1, <1>3, <1>5 DEF CallsInv, Calling
  <1>10. KeptInv'
    BY <1>0, <1>1, <1>6 DEF KeptInv, RaisedInv, Injective
  <1> QED
    BY <1>5, <1>7, <1>8, <1>8a, <1>9, <1>10 DEF ObservabilityInv

LEMMA EndGraphStep ==
  ASSUME ObservabilityInv, EndGraph
  PROVE  ObservabilityInv'
  <1>0. /\ ObservabilityTypes /\ StackInv /\ RaisedInv /\ TraceInv /\ SpansTellTheEnd
        /\ CallsInv /\ KeptInv
    BY DEF ObservabilityInv
  <1>1. /\ pc = "body" /\ pc' = "leave" /\ Top.kind = "run" /\ Checkpoint
        /\ raised' = IF broken' THEN "checkpoint" ELSE "none"
        /\ UNCHANGED <<thread, traced, at, frames, opened, spans, failures, calls, counted,
                       bodyFailed, outcome, degraded>>
    BY DEF EndGraph, run, body, llm
  <1>2. frames' \in Seq(Frame) /\ StackInv' /\ ~Calling'
    <2>1. frames' = frames
      BY <1>1
    <2> QED
      BY <1>0, <1>1, <2>1, EndedBody
  <1>3. /\ order' \in Seq(Threads) /\ Injective(order') /\ Len(order') <= Retention
        /\ summaries' = ToSet(order') /\ raw' \subseteq ToSet(order') \cup unpruned'
        /\ thread \in summaries' /\ summaries' \subseteq Threads /\ raw' \subseteq Threads
        /\ broken' \in BOOLEAN /\ unpruned' \subseteq Threads
    BY <1>0, <1>1, CheckpointResult
  <1>4. ObservabilityTypes'
    BY <1>0, <1>1, <1>3 DEF ObservabilityTypes
  <1>5. RaisedInv' /\ TraceInv' /\ SpansTellTheEnd'
    BY <1>0, <1>1, <1>3 DEF RaisedInv, TraceInv, SpansTellTheEnd
  <1>6. CallsInv'
    BY <1>0, <1>1, <1>2 DEF CallsInv, Calling
  <1>7. KeptInv'
    BY <1>0, <1>1, <1>3 DEF KeptInv, RaisedInv, Injective
  <1> QED
    BY <1>2, <1>4, <1>5, <1>6, <1>7 DEF ObservabilityInv

LEMMA StopGraphStep ==
  ASSUME ObservabilityInv, StopGraph
  PROVE  ObservabilityInv'
  <1>0. /\ ObservabilityTypes /\ StackInv /\ RaisedInv /\ TraceInv /\ SpansTellTheEnd
        /\ CallsInv /\ KeptInv
    BY DEF ObservabilityInv
  <1>1. /\ pc = "body" /\ pc' = "leave" /\ Top.kind = "run" /\ broken
        /\ raised' = "checkpoint"
        /\ UNCHANGED <<thread, traced, at, frames, opened, spans, failures, calls, counted,
                       bodyFailed, outcome, degraded, order, summaries, raw, broken, unpruned>>
    BY DEF StopGraph, run, llm, kept
  <1>2. frames' \in Seq(Frame) /\ StackInv' /\ ~Calling'
    <2>1. frames' = frames
      BY <1>1
    <2> QED
      BY <1>0, <1>1, <2>1, EndedBody
  <1>4. ObservabilityTypes'
    BY <1>0, <1>1 DEF ObservabilityTypes
  <1>5. RaisedInv' /\ TraceInv' /\ SpansTellTheEnd'
    BY <1>0, <1>1 DEF RaisedInv, TraceInv, SpansTellTheEnd
  <1>6. CallsInv'
    BY <1>0, <1>1, <1>2 DEF CallsInv, Calling
  <1>7. KeptInv'
    BY <1>0, <1>1 DEF KeptInv, RaisedInv, Injective
  <1> QED
    BY <1>2, <1>4, <1>5, <1>6, <1>7 DEF ObservabilityInv

LEMMA LeaveNodeStep ==
  ASSUME ObservabilityInv, LeaveNode
  PROVE  ObservabilityInv'
  <1>0. /\ ObservabilityTypes /\ StackInv /\ RaisedInv /\ TraceInv /\ SpansTellTheEnd
        /\ CallsInv /\ KeptInv
    BY DEF ObservabilityInv
  <1>1. /\ pc = "body" /\ pc' = "leave" /\ Top.kind = "node"
        /\ UNCHANGED <<thread, traced, at, frames, opened, spans, failures, calls, counted, outcome,
                       degraded, order, summaries, raw, broken, unpruned>>
        /\ UNCHANGED <<raised, bodyFailed>> \/ (raised' = "body" /\ bodyFailed' = TRUE)
    BY DEF LeaveNode, run, llm, kept
  <1>2. frames' \in Seq(Frame) /\ StackInv' /\ ~Calling'
    BY <1>0, <1>1, EndedBody
  <1>3. ObservabilityTypes'
    BY <1>0, <1>1 DEF ObservabilityTypes
  <1>4. RaisedInv' /\ TraceInv' /\ SpansTellTheEnd'
    <2>1. Len(frames) # 1
      <3>1. frames # <<>>
        BY <1>0, <1>1 DEF StackInv
      <3> QED
        BY <1>0, <1>1, <3>1, TopResult
    <2>2. RaisedInv'
      BY <1>0, <1>1, <2>1 DEF RaisedInv
    <2> QED
      BY <1>0, <1>1, <2>2 DEF TraceInv, SpansTellTheEnd
  <1>5. CallsInv'
    BY <1>0, <1>1, <1>2 DEF CallsInv, Calling
  <1>6. KeptInv'
    BY <1>0, <1>1 DEF KeptInv, RaisedInv
  <1> QED
    BY <1>2, <1>3, <1>4, <1>5, <1>6 DEF ObservabilityInv

LEMMA LeaveStep ==
  ASSUME ObservabilityInv, Leave
  PROVE  ObservabilityInv'
  <1>0. /\ ObservabilityTypes /\ StackInv /\ RaisedInv /\ TraceInv /\ SpansTellTheEnd
        /\ CallsInv /\ KeptInv
    BY DEF ObservabilityInv
  <1>1. /\ pc = "leave" /\ LeaveSpan
        /\ \/ Top.kind = "run" /\ pc' = "finish" /\ UNCHANGED raised
           \/ Top.kind # "run" /\ raised = "none" /\ pc' = "body" /\ UNCHANGED raised
           \/ Top.kind # "run" /\ raised # "none" /\ pc' = "leave" /\ UNCHANGED raised
           \/ Top.kind = "llm" /\ raised # "none" /\ pc' = "body" /\ raised' = "none"
        /\ UNCHANGED <<thread, traced, at, calls, counted, bodyFailed, outcome, degraded,
                       order, summaries, raw, broken, unpruned>>
    BY DEF Leave, run, llm, kept
  <1>2. frames # <<>> /\ (Top.ended => Top.status = Told(raised))
    <2>1. frames # <<>>
      BY <1>0, <1>1 DEF StackInv
    <2> QED
      BY <1>0, <2>1, TopResult
  <1>3. /\ frames' = Front(frames) /\ opened' = opened /\ failures' \in Nat
        /\ \/ spans' = spans /\ (failures' = 0 => ~Top.exported)
           \/ \E x \in Span : OneMore(x)
        /\ failures' = 0 => failures = 0
    BY <1>0, <1>1, <1>2, LeaveSpanResult
  <1>4. frames' \in Seq(Frame) /\ StackInv' /\ ~Calling'
    BY <1>0, <1>1, <1>3, LeftBlock
  <1>5. /\ spans' \in Seq(Span) /\ SpansTellTheEnd'
        /\ failures' = 0 =>
             /\ Len(spans') = Len(spans) + (IF Top.exported THEN 1 ELSE 0)
             /\ \A i \in DOMAIN spans' : ~spans'[i].lost
    <2>0. spans \in Seq(Span) /\ Len(spans) \in Nat
      BY <1>0, LenProperties DEF ObservabilityTypes
    <2>1. CASE spans' = spans /\ (failures' = 0 => ~Top.exported)
      BY <1>0, <1>3, <2>0, <2>1 DEF SpansTellTheEnd, TraceInv
    <2>2. CASE \E x \in Span : OneMore(x)
      <3>1. PICK x \in Span : OneMore(x)
        BY <2>2
      <3>1a. /\ spans' = Append(spans, x)
             /\ x.lost \/ x.status = Told(x.raised)
             /\ failures' = 0 => ~x.lost /\ Top.exported
        BY <3>1 DEF OneMore
      <3>2. /\ spans' \in Seq(Span) /\ Len(spans') = Len(spans) + 1
            /\ DOMAIN spans' = DOMAIN spans \cup {Len(spans')}
            /\ \A i \in DOMAIN spans : spans'[i] = spans[i]
            /\ spans'[Len(spans')] = x
        BY <2>0, <3>1a, Pushed
      <3>3. SpansTellTheEnd'
        BY <1>0, <3>1a, <3>2 DEF SpansTellTheEnd, Told
      <3>4. failures' = 0 => \A i \in DOMAIN spans' : ~spans'[i].lost
        BY <1>0, <1>3, <3>1a, <3>2 DEF TraceInv
      <3> QED
        BY <3>1a, <3>2, <3>3, <3>4
    <2> QED
      BY <1>3, <2>1, <2>2
  <1>6. ObservabilityTypes'
    BY <1>0, <1>1, <1>3, <1>4, <1>5 DEF ObservabilityTypes
  <1>7. RaisedInv'
    <2>1. /\ Len(frames') = Len(frames) - 1 /\ Len(frames) \in {1, 2, 3}
          /\ Top.kind = "run" <=> Len(frames) = 1
      BY <1>0, <1>2, <1>3, FrontResult, TopResult DEF ObservabilityTypes
    <2> QED
      BY <1>0, <1>1, <2>1 DEF RaisedInv
  <1>7a. TraceInv'
    <2>1. outcome' = "none"
      BY <1>0, <1>1 DEF RaisedInv
    <2>2. ASSUME failures' = 0
          PROVE  opened' = Len(spans') + Exported(frames')
      <3>1. /\ opened = Len(spans) + Exported(frames) /\ opened' = opened
            /\ Len(spans') = Len(spans) + (IF Top.exported THEN 1 ELSE 0)
            /\ Len(spans) \in Nat
        BY <1>0, <1>3, <1>5, <2>2, LenProperties DEF TraceInv, ObservabilityTypes
      <3>2. Exported(frames) = Exported(frames') + (IF Top.exported THEN 1 ELSE 0)
        <4>1. frames \in Seq(Frame) /\ Len(frames) \in {1, 2, 3} /\ Top = frames[Len(frames)]
          BY <1>0, <1>2, TopResult DEF ObservabilityTypes
        <4> QED
          BY <1>3, <4>1, ExportedFront
      <3>3. Exported(frames') \in Nat
        BY ExportedNat
      <3> QED
        BY <3>1, <3>2, <3>3
    <2> QED
      BY <1>5, <2>1, <2>2 DEF TraceInv
  <1>8. CallsInv'
    BY <1>0, <1>1, <1>4 DEF CallsInv, Calling
  <1>9. KeptInv'
    BY <1>0, <1>1 DEF KeptInv, RaisedInv
  <1> QED
    BY <1>4, <1>5, <1>6, <1>7, <1>7a, <1>8, <1>9 DEF ObservabilityInv

LEMMA FinishRunStep ==
  ASSUME ObservabilityInv, FinishRun
  PROVE  ObservabilityInv'
  <1>0. /\ ObservabilityTypes /\ StackInv /\ RaisedInv /\ TraceInv /\ SpansTellTheEnd
        /\ CallsInv /\ KeptInv
    BY DEF ObservabilityInv
  <1>1. /\ pc = "finish" /\ pc' = "idle" /\ Finalized
        /\ degraded' = (failures' > 0)
        /\ outcome' = IF raised = "none" THEN "answered" ELSE "failed"
        /\ UNCHANGED <<thread, traced, at, frames, raised, spans, calls, counted, bodyFailed,
                       opened, order, summaries, broken, unpruned>>
    BY DEF FinishRun, run, llm
  <1>2. /\ raw' \subseteq raw /\ failures' \in Nat
        /\ thread \in raw' => failures' > 0
        /\ failures' = 0 => failures = 0
    BY <1>0, <1>1 DEF Finalized, ObservabilityTypes
  <1>3. degraded' \in BOOLEAN /\ (degraded' <=> failures' > 0)
    <2>1. CASE failures' > 0
      <3>1. degraded' = TRUE
        BY <1>1, <2>1
      <3> QED
        BY <2>1, <3>1
    <2>2. CASE ~(failures' > 0)
      <3>1. (failures' > 0) = FALSE
        BY <1>2, <2>2
      <3>2. degraded' = (failures' > 0)
        BY <1>1
      <3>3. degraded' = FALSE
        BY ONLY <3>1, <3>2, Zenon
      <3> QED
        BY <2>2, <3>3
    <2> QED
      BY <2>1, <2>2
  <1>4. ObservabilityTypes'
    BY <1>0, <1>1, <1>2, <1>3 DEF ObservabilityTypes
  <1>5. StackInv'
    BY <1>0, <1>1 DEF StackInv
  <1>6. RaisedInv' /\ SpansTellTheEnd'
    BY <1>0, <1>1 DEF RaisedInv, SpansTellTheEnd
  <1>7. TraceInv'
    BY <1>0, <1>1, <1>2, <1>3 DEF TraceInv
  <1>8. CallsInv'
    BY <1>0, <1>1 DEF CallsInv, Calling
  <1>9. KeptInv'
    <2>1. thread' \in raw' => degraded'
      BY <1>1, <1>2, <1>3
    <2> QED
      BY <1>0, <1>1, <1>2, <2>1 DEF KeptInv
  <1> QED
    BY <1>4, <1>5, <1>6, <1>7, <1>8, <1>9 DEF ObservabilityInv

(* One more event in the list of events. *)
LEMMA NextEvent ==
  ASSUME ObservabilityTypes, CallsInv,
         NEW e \in {"started", "completed", "failed"}, calls' = Append(calls, e),
         (e = "started") <=> ~Calling
  PROVE  /\ calls' \in Seq({"started", "completed", "failed"}) /\ Len(calls') = Len(calls) + 1
         /\ \A i \in DOMAIN calls' : (calls'[i] = "started") <=> (i % 2 = 1)
  <1>1. calls \in Seq({"started", "completed", "failed"}) /\ counted \in Nat
    BY DEF ObservabilityTypes
  <1>2. /\ calls' \in Seq({"started", "completed", "failed"}) /\ Len(calls') = Len(calls) + 1
        /\ DOMAIN calls' = DOMAIN calls \cup {Len(calls')}
        /\ \A i \in DOMAIN calls : calls'[i] = calls[i]
        /\ calls'[Len(calls')] = e
    BY <1>1, Pushed
  <1>3. \A c \in Nat : (2 * c + 1) % 2 = 1 /\ (2 * c + 2) % 2 = 0
    OBVIOUS
  <1>4. (e = "started") <=> (Len(calls') % 2 = 1)
    <2>1. CASE Calling
      <3>1. Len(calls) = 2 * counted + 1
        BY <2>1 DEF CallsInv
      <3>2. Len(calls') = 2 * counted + 2
        BY <1>1, <1>2, <3>1
      <3> QED
        BY <1>1, <1>3, <2>1, <3>2
    <2>2. CASE ~Calling
      <3>1. Len(calls) = 2 * counted
        BY <2>2 DEF CallsInv
      <3>2. Len(calls') = 2 * counted + 1
        BY <1>2, <3>1
      <3> QED
        BY <1>1, <1>3, <2>2, <3>2
    <2> QED
      BY <2>1, <2>2
  <1> QED
    BY <1>2, <1>4 DEF CallsInv

LEMMA StartCallStep ==
  ASSUME ObservabilityInv, StartCall
  PROVE  ObservabilityInv'
  <1>0. /\ ObservabilityTypes /\ StackInv /\ RaisedInv /\ TraceInv /\ SpansTellTheEnd
        /\ CallsInv /\ KeptInv
    BY DEF ObservabilityInv
  <1> DEFINE id == IF Nodes[at] = "call_portfolio" THEN "portfolio" ELSE "investment"
  <1>1. /\ pc = "body" /\ pc' = "body" /\ Top.kind = "node"
        /\ calls' = Append(calls, "started") /\ EnterSpan("llm", id)
        /\ UNCHANGED <<thread, traced, at, raised, spans, counted, bodyFailed, outcome, degraded,
                       order, summaries, raw, broken, unpruned>>
    BY DEF StartCall, run, kept
  <1>1a. id \in {"investment", "portfolio"}
    OBVIOUS
  <1> HIDE DEF id
  <1>2. failures' \in Nat /\ opened' \in Nat
    BY <1>0, <1>1, <1>1a, EnterSpanResult
  <1>3. PICK b \in Frame :
          /\ frames' = Append(frames, b) /\ b.kind = "llm" /\ ~b.ended
          /\ failures' = 0 => failures = 0 /\ opened' = opened + (IF b.exported THEN 1 ELSE 0)
    BY <1>0, <1>1, <1>1a, EnterSpanResult
  <1>4. Len(frames) = 2
    <2>1. frames # <<>>
      BY <1>0, <1>1 DEF StackInv
    <2> QED
      BY <1>0, <1>1, <2>1, TopResult
  <1>5. frames' \in Seq(Frame) /\ StackInv' /\ Top' = b
    BY <1>0, <1>1, <1>3, <1>4, OpenedBlock
  <1>6. ~Calling /\ Calling'
    BY <1>1, <1>3, <1>5 DEF Calling
  <1>7. /\ calls' \in Seq({"started", "completed", "failed"}) /\ Len(calls') = Len(calls) + 1
        /\ \A i \in DOMAIN calls' : (calls'[i] = "started") <=> (i % 2 = 1)
    BY <1>0, <1>1, <1>6, NextEvent
  <1>8. ObservabilityTypes'
    BY <1>0, <1>1, <1>2, <1>5, <1>7 DEF ObservabilityTypes
  <1>9. RaisedInv' /\ SpansTellTheEnd'
    BY <1>0, <1>1 DEF RaisedInv, SpansTellTheEnd
  <1>9a. TraceInv'
    <2>1. outcome' = "none"
      BY <1>0, <1>1 DEF RaisedInv
    <2> QED
      BY <1>0, <1>1, <1>3, <1>4, <2>1, OpenedTrace
  <1>10. CallsInv'
    BY <1>0, <1>1, <1>6, <1>7 DEF CallsInv
  <1>11. KeptInv'
    BY <1>0, <1>1 DEF KeptInv, RaisedInv
  <1> QED
    BY <1>5, <1>8, <1>9, <1>9a, <1>10, <1>11 DEF ObservabilityInv

LEMMA EndCallStep ==
  ASSUME ObservabilityInv, pc = "body", Top.kind = "llm",
         NEW s \in {"completed", "failed"}, EndCall(s),
         \/ s = "completed" /\ UNCHANGED bodyFailed
         \/ s = "failed" /\ bodyFailed' = TRUE
  PROVE  ObservabilityInv'
  <1>0. /\ ObservabilityTypes /\ StackInv /\ RaisedInv /\ TraceInv /\ SpansTellTheEnd
        /\ CallsInv /\ KeptInv
    BY DEF ObservabilityInv
  <1>1. /\ pc' = "leave" /\ calls' = Append(calls, s) /\ counted' = counted + 1
        /\ \/ /\ frames' = Front(frames) \o <<[Top EXCEPT !.ended = TRUE, !.status = s]>>
              /\ raised' = IF s = "failed" THEN "body" ELSE "none"
           \/ /\ raised' = "export" /\ UNCHANGED frames
        /\ UNCHANGED <<thread, traced, at, opened, spans, failures, outcome, degraded,
                       order, summaries, raw, broken, unpruned>>
    BY DEF EndCall, run, kept
  <1>2. frames' \in Seq(Frame) /\ StackInv' /\ ~Calling'
    <2>1. \/ frames' = frames
          \/ /\ frames' = Front(frames) \o <<[Top EXCEPT !.ended = TRUE, !.status = s]>>
             /\ s = Told(raised')
      BY <1>1 DEF Told
    <2> QED
      BY <1>0, <1>1, <2>1, EndedBody
  <1>2a. Len(frames') = Len(frames) /\ Exported(frames') = Exported(frames)
    <2>1. CASE frames' = frames
      BY <2>1
    <2>2. CASE frames' # frames
      <3> DEFINE e == [Top EXCEPT !.ended = TRUE, !.status = s]
      <3>1. frames' = Front(frames) \o <<e>>
        BY <1>1, <2>2
      <3>2. frames \in Seq(Frame) /\ frames # <<>>
        BY <1>0 DEF StackInv, ObservabilityTypes
      <3>3. Top \in Frame /\ Top = frames[Len(frames)]
        BY <1>0, <3>2, TopResult
      <3>4. e \in Frame /\ e.exported = Top.exported
        BY <3>3 DEF Frame
      <3> HIDE DEF e
      <3>5. PICK r : r = frames'
        OBVIOUS
      <3>6. r \in Seq(Frame) /\ ChangedIs(frames, e, r)
        BY ONLY <3>1, <3>2, <3>4, <3>5, ChangedLast
      <3>7. /\ DOMAIN r = DOMAIN frames /\ Len(r) = Len(frames)
            /\ \A i \in DOMAIN frames : r[i].exported = frames[i].exported
        BY <3>3, <3>4, <3>6 DEF ChangedIs
      <3>8. \A i : Weight(r, i) = Weight(frames, i)
        BY <3>7 DEF Weight
      <3>9. Exported(r) = Exported(frames)
        BY <3>8 DEF Exported
      <3> QED
        BY <3>5, <3>7, <3>9
    <2> QED
      BY <2>1, <2>2
  <1>3. Calling /\ counted \in Nat
    BY <1>0 DEF Calling, ObservabilityTypes
  <1>4. /\ calls' \in Seq({"started", "completed", "failed"}) /\ Len(calls') = Len(calls) + 1
        /\ \A i \in DOMAIN calls' : (calls'[i] = "started") <=> (i % 2 = 1)
    BY <1>0, <1>1, <1>3, NextEvent
  <1>5. raised' \in {"none", "body", "export"} /\ (raised' = "body" => bodyFailed')
    BY <1>1
  <1>6. bodyFailed' \in BOOLEAN
    BY <1>0 DEF ObservabilityTypes
  <1>7. ObservabilityTypes'
    BY <1>0, <1>1, <1>2, <1>4, <1>5, <1>6 DEF ObservabilityTypes
  <1>8. RaisedInv' /\ SpansTellTheEnd'
    <2>1. Len(frames') # 1
      <3>1. frames # <<>> /\ Len(frames') = Len(frames)
        BY <1>0, <1>1, <1>2a DEF StackInv
      <3> QED
        BY <1>0, <3>1, TopResult
    <2> QED
      BY <1>0, <1>1, <1>5, <2>1 DEF RaisedInv, SpansTellTheEnd
  <1>8a. TraceInv'
    BY <1>0, <1>1, <1>2a DEF TraceInv
  <1>9. CallsInv'
    <2>1. Len(calls) = 2 * counted + 1
      BY <1>0, <1>3 DEF CallsInv
    <2>2. Len(calls') = 2 * counted'
      BY <1>1, <1>3, <1>4, <2>1
    <2> QED
      BY <1>2, <1>4, <2>2 DEF CallsInv
  <1>10. KeptInv'
    BY <1>0, <1>1 DEF KeptInv, RaisedInv
  <1> QED
    BY <1>2, <1>7, <1>8, <1>8a, <1>9, <1>10 DEF ObservabilityInv

LEMMA CleanupStep ==
  ASSUME ObservabilityInv, Cleanup
  PROVE  ObservabilityInv'
  <1>0. /\ ObservabilityTypes /\ StackInv /\ RaisedInv /\ TraceInv /\ SpansTellTheEnd
        /\ CallsInv /\ KeptInv
    BY DEF ObservabilityInv
  <1>1. /\ pc = "idle" /\ pc' = "idle"
        /\ UNCHANGED <<thread, traced, at, frames, raised, opened, spans, failures, calls, counted,
                       bodyFailed, outcome, degraded, broken, unpruned>>
    BY DEF Cleanup, run, body, llm
  <1>2. order \in Seq(Threads) /\ Injective(order)
    BY <1>0 DEF ObservabilityTypes, KeptInv, Injective
  <1>3. /\ order' \in Seq(Threads) /\ Injective(order') /\ Len(order') <= Retention
        /\ summaries' = ToSet(order') /\ raw' \subseteq ToSet(order') \cup unpruned
        /\ raw' \subseteq raw
    <2>1. CASE order' = <<>> /\ summaries' = {} /\ raw' = raw \ summaries
      <3>1. raw \subseteq summaries \cup unpruned
        BY <1>0 DEF KeptInv
      <3> QED
        BY <2>1, <3>1, EmptyResult, RetentionAssumption DEF Injective
    <2>2. CASE \E t \in Threads :
                 /\ order' = Without(order, t)
                 /\ summaries' = summaries \ {t} /\ raw' = raw \ {t}
      <3>1. PICK t \in Threads :
              /\ order' = Without(order, t)
              /\ summaries' = summaries \ {t} /\ raw' = raw \ {t}
        BY <2>2
      <3>2. /\ Without(order, t) \in Seq(Threads) /\ Injective(Without(order, t))
            /\ Len(Without(order, t)) <= Len(order)
            /\ ToSet(Without(order, t)) = ToSet(order) \ {t}
        BY <1>2, WithoutResult
      <3>3. Len(order') <= Retention
        <4>1. Len(order') \in Nat /\ Len(order) \in Nat
          BY <1>2, <3>1, <3>2, LenProperties
        <4>2. Len(order) <= Retention
          BY <1>0 DEF KeptInv
        <4> QED
          BY <3>1, <3>2, <4>1, <4>2, RetentionAssumption
      <3> QED
        BY <1>0, <3>1, <3>2, <3>3 DEF KeptInv
    <2>3. CASE \E done \in SUBSET summaries : raw' = raw \ done /\ UNCHANGED <<order, summaries>>
      BY <1>0, <1>2, <2>3 DEF KeptInv
    <2> QED
      BY <2>1, <2>2, <2>3 DEF Cleanup
  <1>4. ObservabilityTypes'
    <2>1. summaries' \subseteq Threads
      BY <1>3, EmptyResult, ElementOfSeq, LenProperties DEF ToSet
    <2> QED
      BY <1>0, <1>1, <1>3, <2>1 DEF ObservabilityTypes
  <1>5. StackInv'
    BY <1>0, <1>1 DEF StackInv
  <1>6. RaisedInv' /\ TraceInv' /\ SpansTellTheEnd'
    BY <1>0, <1>1 DEF RaisedInv, TraceInv, SpansTellTheEnd
  <1>7. CallsInv'
    BY <1>0, <1>1 DEF CallsInv, Calling, Top
  <1>8. KeptInv'
    BY <1>0, <1>1, <1>3 DEF KeptInv, Injective
  <1> QED
    BY <1>4, <1>5, <1>6, <1>7, <1>8 DEF ObservabilityInv

LEMMA NextStep ==
  ASSUME ObservabilityInv, [ObservabilityNext]_vars
  PROVE  ObservabilityInv'
  <1>1. CASE StartRun
    BY <1>1, StartRunStep
  <1>2. CASE OpenRun
    BY <1>2, OpenRunStep
  <1>3. CASE EnterNode
    BY <1>3, EnterNodeStep
  <1>4. CASE EndGraph
    BY <1>4, EndGraphStep
  <1>4a. CASE StopGraph
    BY <1>4a, StopGraphStep
  <1>5. CASE LeaveNode
    BY <1>5, LeaveNodeStep
  <1>6. CASE Leave
    BY <1>6, LeaveStep
  <1>7. CASE FinishRun
    BY <1>7, FinishRunStep
  <1>8. CASE StartCall
    BY <1>8, StartCallStep
  <1>9. CASE ProviderAnswers
    BY <1>9, EndCallStep DEF ProviderAnswers
  <1>10. CASE ProviderFails
    BY <1>10, EndCallStep DEF ProviderFails
  <1>11. CASE Cleanup
    BY <1>11, CleanupStep
  <1>12. CASE UNCHANGED vars
    BY <1>12 DEF ObservabilityInv, ObservabilityTypes, StackInv, RaisedInv, TraceInv,
                 SpansTellTheEnd, CallsInv, Calling, KeptInv, Top, vars, run, body, llm, kept
  <1> QED
    BY <1>1, <1>2, <1>3, <1>4, <1>4a, <1>5, <1>6, <1>7, <1>8, <1>9, <1>10, <1>11, <1>12
       DEF ObservabilityNext

-----------------------------------------------------------------------------
(* The inductive invariant holds in every state of every run: the blocks   *)
(* of observability.py 346-400 nest, and the checkpoint lists agree.       *)
THEOREM ObservabilityInvariance == ObservabilitySpec => []ObservabilityInv
  <1>1. ObservabilityInit => ObservabilityInv
    BY InitStep
  <1>2. ObservabilityInv /\ [ObservabilityNext]_vars => ObservabilityInv'
    BY NextStep
  <1> QED
    BY <1>1, <1>2, PTL DEF ObservabilitySpec

(* Every variable stays in its domain, whatever the sink, the providers and *)
(* the nodes do.                                                            *)
THEOREM ObservabilityTypeCorrect == ObservabilitySpec => []ObservabilityTypes
  <1>1. ObservabilityInv => ObservabilityTypes
    BY DEF ObservabilityInv
  <1> QED
    BY <1>1, ObservabilityInvariance, PTL

(* A run fails only if a provider or a node failed, at the unguarded end of *)
(* a model call's span or when a put could not prune: every other failure   *)
(* of tracing is contained (observability.py 346-400).                      *)
THEOREM TracingHarmlessHolds == ObservabilitySpec => []TracingHarmless
  <1>1. ObservabilityInv => TracingHarmless
    BY DEF ObservabilityInv, ObservabilityTypes, RaisedInv, TracingHarmless
  <1> QED
    BY <1>1, ObservabilityInvariance, PTL

(* A run that ended without observability_degraded has left its whole       *)
(* trace, each block's span with its end, and no native checkpoint.         *)
THEOREM FailuresToldHolds == ObservabilitySpec => []FailuresTold
  <1>1. ObservabilityInv => FailuresTold
    <2> SUFFICES ASSUME ObservabilityInv, outcome # "none", ~degraded
                 PROVE  /\ Len(spans) = opened /\ \A i \in DOMAIN spans : ~spans[i].lost
                        /\ thread \notin raw
      BY DEF FailuresTold
    <2>1. /\ opened = Len(spans) + Exported(frames) /\ \A i \in DOMAIN spans : ~spans[i].lost
          /\ thread \notin raw
      BY DEF ObservabilityInv, TraceInv, KeptInv
    <2>2. frames = <<>>
      BY DEF ObservabilityInv, RaisedInv, StackInv
    <2>3. Exported(frames) = 0
      BY <2>2, EmptyResult DEF Exported, Weight
    <2>4. Len(spans) \in Nat
      BY LenProperties DEF ObservabilityInv, ObservabilityTypes
    <2> QED
      BY <2>1, <2>3, <2>4
  <1> QED
    BY <1>1, ObservabilityInvariance, PTL

(* A span the sink accepted tells how its body ended, unless ending it was  *)
(* what failed.                                                             *)
THEOREM SpansTellTheEndHolds == ObservabilitySpec => []SpansTellTheEnd
  <1>1. ObservabilityInv => SpansTellTheEnd
    BY DEF ObservabilityInv
  <1> QED
    BY <1>1, ObservabilityInvariance, PTL

(* The lifecycle events of model calls alternate, and the count that is     *)
(* shown is that of the terminal events.                                    *)
THEOREM CallsPairedHolds == ObservabilitySpec => []CallsPaired
  <1>1. ObservabilityInv => CallsPaired
    BY DEF ObservabilityInv, ObservabilityTypes, RaisedInv, CallsInv, Calling, CallsPaired
  <1> QED
    BY <1>1, ObservabilityInvariance, PTL

(* Checkpoints are bounded by the retention, and native entries are those   *)
(* of retained threads, but for threads whose pruning failed: such a run    *)
(* does not end with an answer (observability.py 277-319).                  *)
THEOREM CheckpointsBoundedHolds == ObservabilitySpec => []CheckpointsBounded
  <1>1. ObservabilityInv => CheckpointsBounded
    BY DEF ObservabilityInv, RaisedInv, KeptInv, CheckpointsBounded
  <1> QED
    BY <1>1, ObservabilityInvariance, PTL
=============================================================================
