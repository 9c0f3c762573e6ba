-------------------------- MODULE ChatServicesProofs --------------------------
(***************************************************************************)
(* What the unlocked lazy creation in ChatService still guarantees, for    *)
(* any number of request threads and of requests, however they overlap.  A *)
(* slot that is filled is never emptied (HandedOver), and as long as no    *)
(* thread makes a gateway beside another one, or beside or after close(),  *)
(* there is one gateway and everybody has it (UnracedInv).                 *)
(***************************************************************************)
EXTENDS ChatServices, SequenceTheorems, TLAPS

(* Nobody is handed a None: what a thread is about to return was made. *)
HandedOver ==
    \A t \in Threads :
        /\ step[t] = "return gateway" => gateway # NoneYet
        /\ step[t] = "make service" => result[t] # NoneYet
        /\ step[t] = "return service" => service[making[t]] # NoneYet
        /\ step[t] \in {"check service", "make service", "return service"} =>
               making[t] \in Services

(* One thread at most makes a gateway, while there is none. *)
OneMaker ==
    /\ \A t, u \in Threads :
           step[t] = "make gateway" /\ step[u] = "make gateway" => t = u
    /\ BeingMade => gateway = NoneYet /\ server = "serving"

OneGateway == Gateways = {gateway} \ {NoneYet}

ClosedWithServer == server # "serving" => \A g \in Gateways : ~isOpen[g]

UnracedInv == ~raced => OneMaker /\ OneGateway /\ ClosedWithServer

ServicesInv == TypeOK /\ HandedOver /\ UnracedInv

-----------------------------------------------------------------------------
LEMMA OneMore ==
  ASSUME NEW n \in Nat
  PROVE  1..n \subseteq 1..(n + 1) /\ n + 1 \in 1..(n + 1)
  OBVIOUS

LEMMA NoneLeft ==
  ASSUME NEW n \in Nat, 1..n = {}
  PROVE  n = 0
  OBVIOUS

LEMMA AddNothing == 0 + 1 = 1
  OBVIOUS

(* A new gateway is open and has the next number. *)
LEMMA NewGateway ==
  ASSUME isOpen \in Seq(BOOLEAN), isOpen' = Append(isOpen, TRUE)
  PROVE  /\ isOpen' \in Seq(BOOLEAN)
         /\ Len(isOpen') = Len(isOpen) + 1
         /\ Gateways \subseteq Gateways'
         /\ Len(isOpen') \in Gateways'
         /\ Len(isOpen') # NoneYet
  <1>1. isOpen' \in Seq(BOOLEAN) /\ Len(isOpen') = Len(isOpen) + 1
    BY AppendProperties
  <1>2. Len(isOpen) \in Nat
    BY LenProperties
  <1>3. Gateways' = 1..(Len(isOpen) + 1)
    BY <1>1 DEF Gateways
  <1>4. Gateways \subseteq Gateways' /\ Len(isOpen) + 1 \in Gateways'
    BY <1>2, <1>3, OneMore DEF Gateways
  <1> QED
    BY <1>1, <1>2, <1>4 DEF NoneYet

(* close() opens and makes no gateway. *)
LEMMA ClosedGateways ==
  ASSUME isOpen \in Seq(BOOLEAN),
         isOpen' = [g \in Gateways |-> isOpen[g] /\ g # gateway]
  PROVE  /\ isOpen' \in Seq(BOOLEAN)
         /\ Len(isOpen') = Len(isOpen)
         /\ Gateways' = Gateways
         /\ \A g \in Gateways : isOpen'[g] => g # gateway
  <1> DEFINE n == Len(isOpen)
  <1>1. n \in Nat /\ DOMAIN isOpen = 1..n /\ \A g \in 1..n : isOpen[g] \in BOOLEAN
    BY LenProperties, ElementOfSeq
  <1>2. isOpen' \in [1..n -> BOOLEAN]
    BY <1>1 DEF Gateways
  <1>3. isOpen' \in Seq(BOOLEAN) /\ Len(isOpen') = n
    BY <1>1, <1>2, SeqDef
  <1>4. \A g \in Gateways : isOpen'[g] => g # gateway
    BY Zenon
  <1> QED
    BY <1>3, <1>4 DEF Gateways

-----------------------------------------------------------------------------
(* Types. *)
LEMMA TypeStep ==
  ASSUME TypeOK, HandedOver, [Next]_vars
  PROVE  TypeOK'
  <1>1. ASSUME NEW t \in Threads, Arrive(t)
        PROVE  TypeOK'
    <2>1. served' \in [Threads -> 0..MaxRequests]
      <3>1. served[t] + 1 \in 0..MaxRequests
        <4>1. served[t] \in 0..MaxRequests /\ served[t] < MaxRequests
          BY <1>1 DEF TypeOK, Arrive
        <4> QED
          BY <4>1, ThreadsAssumption
      <3> QED
        BY <1>1, <3>1 DEF TypeOK, Arrive
    <2>2. uses' \in [Threads -> SUBSET Gateways'] /\ Gateways' = Gateways
      BY <1>1 DEF TypeOK, Arrive, Gateways
    <2> QED
      BY <1>1, <2>1, <2>2 DEF TypeOK, Arrive, Goes, Services
  <1>2. ASSUME NEW t \in Threads, CheckService(t)
        PROVE  TypeOK'
    BY <1>2 DEF TypeOK, HandedOver, CheckService, Goes, Gateways, Services, NoneYet
  <1>3. ASSUME NEW t \in Threads, CheckGateway(t)
        PROVE  TypeOK'
    <2>1. raced' \in BOOLEAN
      BY <1>3, Zenon DEF TypeOK, CheckGateway
    <2> QED
      BY <1>3, <2>1 DEF TypeOK, HandedOver, CheckGateway, Goes, Gateways, Services, NoneYet
  <1>4. ASSUME NEW t \in Threads, MakeGateway(t)
        PROVE  TypeOK'
    <2> isOpen \in Seq(BOOLEAN) /\ isOpen' = Append(isOpen, TRUE)
      BY <1>4 DEF TypeOK, MakeGateway
    <2>1. /\ isOpen' \in Seq(BOOLEAN)
          /\ Gateways \subseteq Gateways'
          /\ Len(isOpen') \in Gateways'
      BY NewGateway
    <2>2. gateway' \in Gateways'
      BY <1>4, <2>1 DEF MakeGateway
    <2> QED
      BY <1>4, <2>1, <2>2 DEF TypeOK, MakeGateway, Goes
  <1>5. ASSUME NEW t \in Threads, ReturnGateway(t)
        PROVE  TypeOK'
    <2>1. Gateways' = Gateways
      BY <1>5 DEF ReturnGateway, Gateways
    <2>2. gateway \in Gateways
      BY <1>5 DEF TypeOK, HandedOver, ReturnGateway, Goes
    <2>3. making' \in [Threads -> Services \cup {"run"}]
      <3>1. making \in [Threads -> Services \cup {"run"}] /\ "baseline" \in Services
        BY DEF TypeOK, Services
      <3>2. making' \in {making, [making EXCEPT ![t] = "baseline"]}
        BY <1>5 DEF ReturnGateway
      <3> QED
        BY <3>1, <3>2
    <2>4. result' \in [Threads -> Gateways \cup {NoneYet}]
      BY <1>5, <2>2 DEF TypeOK, ReturnGateway
    <2>5. uses' \in [Threads -> SUBSET Gateways]
      <3>1. uses[t] \cup {gateway} \in SUBSET Gateways
        BY <2>2 DEF TypeOK
      <3> QED
        BY <1>5, <3>1 DEF TypeOK, ReturnGateway
    <2> QED
      BY <1>5, <2>1, <2>3, <2>4, <2>5 DEF TypeOK, ReturnGateway, Goes
  <1>6. ASSUME NEW t \in Threads, MakeService(t)
        PROVE  TypeOK'
    BY <1>6 DEF TypeOK, HandedOver, MakeService, Goes, Gateways, Services, NoneYet
  <1>7. ASSUME NEW t \in Threads, ReturnService(t)
        PROVE  TypeOK'
    <2>1. Gateways' = Gateways
      BY <1>7 DEF ReturnService, Gateways
    <2>2. service[making[t]] \in Gateways
      BY <1>7 DEF TypeOK, HandedOver, ReturnService, Goes
    <2>3. uses' \in [Threads -> SUBSET Gateways]
      BY <1>7, <2>2 DEF TypeOK, ReturnService
    <2> QED
      BY <1>7, <2>1, <2>3 DEF TypeOK, ReturnService, Goes
  <1>8. ASSUME NEW t \in Threads, Respond(t)
        PROVE  TypeOK'
    BY <1>8 DEF TypeOK, HandedOver, Respond, Goes, Gateways, Services, NoneYet
  <1>9. CASE Close
    <2> isOpen \in Seq(BOOLEAN) /\ isOpen' = [g \in Gateways |-> isOpen[g] /\ g # gateway]
      BY <1>9 DEF TypeOK, Close
    <2>1. isOpen' \in Seq(BOOLEAN) /\ Gateways' = Gateways
      BY ClosedGateways
    <2>2. raced' \in BOOLEAN
      BY <1>9, Zenon DEF TypeOK, Close
    <2> QED
      BY <1>9, <2>1, <2>2 DEF TypeOK, Close, threadVars
  <1>10. CASE Exit
    BY <1>10 DEF TypeOK, Exit, threadVars, Gateways
  <1>11. CASE UNCHANGED vars
    BY <1>11 DEF TypeOK, vars, threadVars, Gateways
  <1> QED
    BY <1>1, <1>2, <1>3, <1>4, <1>5, <1>6, <1>7, <1>8, <1>9, <1>10, <1>11 DEF Next, ThreadStep

(* Once handed over, a gateway or a service is never None again. *)
LEMMA HandedOverStep ==
  ASSUME TypeOK, HandedOver, [Next]_vars
  PROVE  HandedOver'
  <1>1. ASSUME NEW t \in Threads, Arrive(t)
        PROVE  HandedOver'
    BY <1>1 DEF TypeOK, HandedOver, Arrive, Goes, Services, NoneYet
  <1>2. ASSUME NEW t \in Threads, CheckService(t)
        PROVE  HandedOver'
    BY <1>2 DEF TypeOK, HandedOver, CheckService, Goes, Services, NoneYet
  <1>3. ASSUME NEW t \in Threads, CheckGateway(t)
        PROVE  HandedOver'
    BY <1>3 DEF TypeOK, HandedOver, CheckGateway, Goes, Services, NoneYet
  <1>4. ASSUME NEW t \in Threads, MakeGateway(t)
        PROVE  HandedOver'
    <2>1. gateway' # NoneYet
      BY <1>4, NewGateway DEF TypeOK, MakeGateway
    <2> QED
      BY <1>4, <2>1 DEF TypeOK, HandedOver, MakeGateway, Goes, Services
  <1>5. ASSUME NEW t \in Threads, ReturnGateway(t)
        PROVE  HandedOver'
    BY <1>5 DEF TypeOK, HandedOver, ReturnGateway, Goes, Services, NoneYet
  <1>6. ASSUME NEW t \in Threads, MakeService(t)
        PROVE  HandedOver'
    BY <1>6 DEF TypeOK, HandedOver, MakeService, Goes, Services, NoneYet
  <1>7. ASSUME NEW t \in Threads, ReturnService(t)
        PROVE  HandedOver'
    BY <1>7 DEF TypeOK, HandedOver, ReturnService, Goes, Services, NoneYet
  <1>8. ASSUME NEW t \in Threads, Respond(t)
        PROVE  HandedOver'
    BY <1>8 DEF TypeOK, HandedOver, Respond, Goes, Services, NoneYet
  <1>9. CASE Close \/ Exit \/ UNCHANGED vars
    BY <1>9 DEF HandedOver, Close, Exit, vars, threadVars
  <1> QED
    BY <1>1, <1>2, <1>3, <1>4, <1>5, <1>6, <1>7, <1>8, <1>9 DEF Next, ThreadStep

(* One gateway is made, if nobody makes one beside or after another. *)
LEMMA UnracedStep ==
  ASSUME ServicesInv, TypeOK', [Next]_vars
  PROVE  UnracedInv'
  <1> SUFFICES ASSUME ~raced'
               PROVE  OneMaker' /\ OneGateway' /\ ClosedWithServer'
    BY DEF UnracedInv
  <1> TypeOK /\ HandedOver
    BY DEF ServicesInv
  <1>0. ~raced
    BY DEF TypeOK, Next, ThreadStep, vars, threadVars, Close, Exit, Arrive, CheckService,
       CheckGateway, MakeGateway, ReturnGateway, MakeService, ReturnService, Respond
  <1>o. OneMaker /\ OneGateway /\ ClosedWithServer
    BY <1>0 DEF ServicesInv, UnracedInv
  <1>1. ASSUME NEW t \in Threads,
               Arrive(t) \/ CheckService(t) \/ ReturnGateway(t) \/ MakeService(t)
                   \/ ReturnService(t) \/ Respond(t)
        PROVE  OneMaker' /\ OneGateway' /\ ClosedWithServer'
    <2>1. UNCHANGED <<gateway, isOpen, server>>
      BY <1>1 DEF Arrive, CheckService, ReturnGateway, MakeService, ReturnService, Respond
    <2>2. \A u \in Threads : step'[u] = "make gateway" => step[u] = "make gateway"
      <3>1. PICK to \in {"check service", "check gateway", "return gateway",
                           "make service", "return service", "work", "out"} :
                step' = [step EXCEPT ![t] = to]
        BY <1>1 DEF Arrive, CheckService, ReturnGateway, MakeService, ReturnService,
           Respond, Goes
      <3>2. DOMAIN step = Threads
        BY DEF TypeOK
      <3> QED
        BY <3>1, <3>2
    <2>3. OneMaker'
      BY <1>o, <2>1, <2>2 DEF OneMaker, BeingMade
    <2> QED
      BY <1>o, <2>1, <2>3 DEF OneGateway, ClosedWithServer, Gateways
  <1>2. ASSUME NEW t \in Threads, CheckGateway(t)
        PROVE  OneMaker' /\ OneGateway' /\ ClosedWithServer'
    <2>1. UNCHANGED <<gateway, isOpen, server>>
      BY <1>2 DEF CheckGateway
    <2>2. CASE gateway = NoneYet
      <3>1. ~BeingMade /\ server = "serving"
        BY <1>2, <2>2 DEF CheckGateway, Goes, TypeOK
      <3>2. \A u \in Threads : step'[u] = "make gateway" => u = t
        BY <1>2, <3>1 DEF CheckGateway, Goes, TypeOK, BeingMade
      <3> QED
        BY <1>o, <2>1, <2>2, <3>1, <3>2
           DEF OneMaker, BeingMade, OneGateway, ClosedWithServer, Gateways
    <2>3. CASE gateway # NoneYet
      <3>1. \A u \in Threads : step'[u] = "make gateway" => step[u] = "make gateway"
        BY <1>2, <2>3 DEF CheckGateway, Goes, TypeOK
      <3> QED
        BY <1>o, <2>1, <3>1
           DEF OneMaker, BeingMade, OneGateway, ClosedWithServer, Gateways
    <2> QED
      BY <2>2, <2>3
  <1>3. ASSUME NEW t \in Threads, MakeGateway(t)
        PROVE  OneMaker' /\ OneGateway' /\ ClosedWithServer'
    <2>1. step[t] = "make gateway" /\ step'[t] = "return gateway"
          /\ \A u \in Threads : u # t => step'[u] = step[u]
      BY <1>3 DEF MakeGateway, Goes, TypeOK
    <2>2. ~BeingMade'
      BY <1>o, <2>1 DEF OneMaker, BeingMade
    <2>3. gateway = NoneYet /\ Gateways = {} /\ server' = "serving"
      BY <1>3, <1>o, <2>1 DEF OneMaker, OneGateway, BeingMade, MakeGateway
    <2>4. OneGateway'
      <3>1. isOpen' \in Seq(BOOLEAN) /\ Len(isOpen') = Len(isOpen) + 1 /\ Len(isOpen) \in Nat
        BY <1>3, NewGateway, LenProperties DEF MakeGateway, TypeOK
      <3>2. Len(isOpen) = 0
        BY <2>3, <3>1, NoneLeft DEF Gateways
      <3>3. Len(isOpen') = 1
        BY <3>1, <3>2, Zenon, AddNothing
      <3>4. gateway' = 1 /\ Gateways' = 1..1
        BY <1>3, <3>3 DEF MakeGateway, Gateways
      <3>5. 1..1 = {1} \ {NoneYet}
        BY DEF NoneYet
      <3> QED
        BY <3>4, <3>5 DEF OneGateway
    <2> QED
      BY <2>2, <2>3, <2>4 DEF OneMaker, BeingMade, ClosedWithServer
  <1>4. CASE Close
    <2>1. ~BeingMade /\ UNCHANGED <<step, gateway>>
      BY <1>4 DEF Close, threadVars, TypeOK
    <2> isOpen \in Seq(BOOLEAN) /\ isOpen' = [g \in Gateways |-> isOpen[g] /\ g # gateway]
      BY <1>4 DEF TypeOK, Close
    <2>2. Gateways' = Gateways /\ \A g \in Gateways : isOpen'[g] => g # gateway
      BY ClosedGateways
    <2> QED
      BY <1>o, <2>1, <2>2 DEF OneMaker, BeingMade, OneGateway, ClosedWithServer
  <1>5. CASE Exit \/ UNCHANGED vars
    <2>1. /\ UNCHANGED <<step, gateway, isOpen>>
          /\ server' # "serving" => server # "serving" /\ ~BeingMade
          /\ server' = "serving" => server = "serving"
      BY <1>5, <1>o DEF Exit, vars, threadVars, OneMaker
    <2> QED
      BY <1>o, <2>1 DEF OneMaker, BeingMade, OneGateway, ClosedWithServer, Gateways
  <1> QED
    BY <1>1, <1>2, <1>3, <1>4, <1>5 DEF Next, ThreadStep

-----------------------------------------------------------------------------
LEMMA ServicesInvInit == Init => ServicesInv
  <1> SUFFICES ASSUME Init PROVE ServicesInv
    OBVIOUS
  <1>1. isOpen \in Seq(BOOLEAN) /\ Len(isOpen) = 0
    BY EmptySeq DEF Init
  <1>2. Gateways = {}
    BY <1>1 DEF Gateways
  <1>3. TypeOK
    <2>1. raced \in BOOLEAN
      BY Zenon DEF Init
    <2>2. served \in [Threads -> 0..MaxRequests]
      BY ThreadsAssumption DEF Init
    <2> QED
      BY <1>1, <1>2, <2>1, <2>2 DEF Init, TypeOK, Services, NoneYet
  <1>4. HandedOver
    BY DEF Init, HandedOver
  <1>5. UnracedInv
    BY <1>2 DEF Init, UnracedInv, OneMaker, BeingMade, OneGateway, ClosedWithServer
  <1> QED
    BY <1>3, <1>4, <1>5 DEF ServicesInv

(* Each slot is only ever filled, and what is known of it stays true. *)
THEOREM ServicesInvariance == Spec => []ServicesInv
  <1>1. ServicesInv /\ [Next]_vars => ServicesInv'
    BY TypeStep, HandedOverStep, UnracedStep DEF ServicesInv
  <1> QED
    BY <1>1, ServicesInvInit, PTL DEF Spec

(* Every variable of the shared services stays in its domain, and no thread *)
(* is handed a None by mcp_gateway() or portfolio_data_service(), whatever  *)
(* the interleaving.                                                        *)
THEOREM ServicesTypeCorrect == Spec => []TypeOK
  <1>1. ServicesInv => TypeOK
    BY DEF ServicesInv
  <1> QED
    BY <1>1, ServicesInvariance, PTL

(* serve_chat.py closes what it opened, however requests overlap each other  *)
(* and close(): the process exits with a gateway open only if one was being  *)
(* made beside another one, or beside or after close().                      *)
THEOREM CleanShutdownHolds == Spec => []CleanShutdown
  <1>1. ServicesInv => CleanShutdown
    BY DEF ServicesInv, UnracedInv, ClosedWithServer, CleanShutdown
  <1> QED
    BY <1>1, ServicesInvariance, PTL

(* The shared gateway needs no lock but for its making: however requests     *)
(* overlap, two services, or a request, have different gateways only if one  *)
(* thread began to make a gateway while another was, or at or after close(). *)
THEOREM SharedUnlessRaced == Spec => [](~raced => SharedGateway)
  <1>1. ServicesInv => (~raced => SharedGateway)
    <2> SUFFICES ASSUME ServicesInv, ~raced PROVE SharedGateway
      OBVIOUS
    <2>1. Gateways \subseteq {gateway}
      BY DEF ServicesInv, UnracedInv, OneGateway
    <2>2. /\ \A x \in Services : service[x] \in Gateways \cup {NoneYet}
          /\ \A t \in Threads : uses[t] \subseteq Gateways
      BY DEF ServicesInv, TypeOK
    <2> QED
      BY <2>1, <2>2 DEF SharedGateway
  <1> QED
    BY <1>1, ServicesInvariance, PTL

(* However requests overlap, the race ends with the first gateway that is    *)
(* made and not being made twice: from then on none is made or replaced,     *)
(* not even after close().                                                   *)
THEOREM NoGatewayOnceSettledHolds == Spec => NoGatewayOnceSettled
  <1>1. TypeOK /\ Settled /\ [Next]_vars
          => Settled' /\ gateway' = gateway /\ Len(isOpen') = Len(isOpen)
    <2> SUFFICES ASSUME TypeOK, Settled, [Next]_vars
                 PROVE  Settled' /\ gateway' = gateway /\ Len(isOpen') = Len(isOpen)
      OBVIOUS
    <2>1. ASSUME NEW t \in Threads, ThreadStep(t)
          PROVE  Settled' /\ gateway' = gateway /\ Len(isOpen') = Len(isOpen)
      BY <2>1 DEF TypeOK, Settled, ThreadStep, Goes, MakeGateway, Arrive, CheckService,
         CheckGateway, ReturnGateway, MakeService, ReturnService, Respond
    <2>2. CASE Close
      <3> isOpen \in Seq(BOOLEAN) /\ isOpen' = [g \in Gateways |-> isOpen[g] /\ g # gateway]
        BY <2>2 DEF TypeOK, Close
      <3>1. Len(isOpen') = Len(isOpen)
        BY ClosedGateways
      <3> QED
        BY <2>2, <3>1 DEF Settled, Close, threadVars
    <2>3. CASE Exit \/ UNCHANGED vars
      BY <2>3 DEF Settled, Exit, vars, threadVars
    <2> QED
      BY <2>1, <2>2, <2>3 DEF Next
  <1> QED
    BY <1>1, ServicesTypeCorrect, PTL DEF Spec, NoGatewayOnceSettled
=============================================================================
