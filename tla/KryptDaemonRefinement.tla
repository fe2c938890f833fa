------------------------ MODULE KryptDaemonRefinement ------------------------
(***************************************************************************)
(* KryptDaemon implements VmService: a request that is served over several  *)
(* awaits, under a lock, with xl processes and domains, is one atomic step  *)
(* of the service.                                                          *)
(***************************************************************************)
EXTENDS KryptDaemonProofs

(* The state functions substituted for the variables of VmService.           *)
PhaseBar  == [c \in Client |-> Phase(pc[c])]
AnswerBar == [c \in Client |-> [tag |-> reply[c].tag, running |-> reply[c].running]]

Seen(r) == [tag |-> r.tag, running |-> r.running]

LEMMA PhaseValues ==
  /\ Phase("closed") = "closed" /\ Phase("idle") = "ready" /\ Phase("reply") = "answered"
  /\ \A p \in Pcs \ {"closed", "idle", "reply"} : Phase(p) = "pending"
  BY DEF Phase, Pcs, XlPc

LEMMA PhaseAt == \A c \in Client : PhaseBar[c] = Phase(pc[c])
  BY DEF PhaseBar

(* A step of one task moves one phase.                                       *)
LEMMA PhaseMoves ==
  ASSUME TypeOK, NEW c \in Client, NEW q, pc' = [pc EXCEPT ![c] = q]
  PROVE  PhaseBar' = [PhaseBar EXCEPT ![c] = Phase(q)]
  BY DEF TypeOK, PhaseBar

LEMMA AnswerMoves ==
  ASSUME TypeOK, NEW c \in Client, NEW r, reply' = [reply EXCEPT ![c] = r]
  PROVE  AnswerBar' = [AnswerBar EXCEPT ![c] = Seen(r)]
  BY DEF TypeOK, AnswerBar, Seen

(* What a client sees of an answer.                                          *)
LEMMA SeenValues ==
  /\ \A t : Seen(Plain(t)) = Service!Say(t)
  /\ \A d : Seen(Started(d)) = Service!Say("started")
  /\ \A t, S : Seen(Shown(t, S)) = Service!Show(t, S)
  BY DEF Seen, Plain, Started, Shown, Service!Say, Service!Show

LEMMA RefineInit == Init => Service!Init
  BY PhaseValues, SeenValues DEF Init, Service!Init, PhaseBar, AnswerBar, Seen, NoRequest, Service!NoRequest

LEMMA SameRequests == Request = Service!Request /\ NoRequest = Service!NoRequest
  BY DEF Request, Name, WriteOps, Service!Request, Service!Name, NoRequest, Service!NoRequest

-----------------------------------------------------------------------------
(* Steps of the connection itself.                                          *)
LEMMA RefineConnection ==
  ASSUME TypeOK, NEW c \in Client, Accept(c) \/ Recv(c) \/ HangUp(c) \/ Send(c)
  PROVE  [Service!Next]_(Service!vars)
<1> USE DEF ipcVars, lockVars, vmVars, xenVars
<1>1. CASE Accept(c)
  <2>1. PhaseBar' = [PhaseBar EXCEPT ![c] = "ready"] /\ PhaseBar[c] = "closed"
    <3>1. pc' = [pc EXCEPT ![c] = "idle"] /\ pc[c] = "closed"
      BY <1>1 DEF Accept
    <3>2. PhaseBar' = [PhaseBar EXCEPT ![c] = Phase("idle")]
      BY <3>1, PhaseMoves
    <3>3. QED
      BY <3>1, <3>2, PhaseAt, PhaseValues
  <2>2. UNCHANGED <<vmState, req, AnswerBar>>
    BY <1>1 DEF Accept, AnswerBar
  <2>3. Service!Open(c)
    BY <2>1, <2>2 DEF Service!Open, PhaseBar, AnswerBar
  <2>4. QED
    BY <2>3 DEF Service!Next
<1>2. CASE Recv(c)
  <2>1. PICK r \in Request, q \in {"dispatch", "wait"} :
          req' = [req EXCEPT ![c] = r] /\ pc' = [pc EXCEPT ![c] = q]
    BY <1>2 DEF Recv
  <2>2. Phase(q) = "pending"
    BY PhaseValues DEF Pcs
  <2>3. PhaseBar' = [PhaseBar EXCEPT ![c] = "pending"] /\ PhaseBar[c] = "ready"
    <3>1. PhaseBar' = [PhaseBar EXCEPT ![c] = Phase(q)]
      BY <2>1, PhaseMoves
    <3>2. pc[c] = "idle"
      BY <1>2 DEF Recv
    <3>3. QED
      BY <2>2, <3>1, <3>2, PhaseAt, PhaseValues
  <2>4. UNCHANGED <<vmState, AnswerBar>>
    BY <1>2 DEF Recv, AnswerBar
  <2>5. Service!Invoke(c)
    BY <2>1, <2>3, <2>4, SameRequests DEF Service!Invoke, PhaseBar, AnswerBar
  <2>6. QED
    BY <2>5 DEF Service!Next
<1>3. CASE HangUp(c)
  <2>1. UNCHANGED <<vmState, req, AnswerBar>>
    BY <1>3 DEF HangUp, AnswerBar
  <2>2. CASE pc[c] = "idle" /\ pc' = [pc EXCEPT ![c] = "closed"]
    <3>1. PhaseBar' = [PhaseBar EXCEPT ![c] = "closed"] /\ PhaseBar[c] = "ready"
      <4>1. PhaseBar' = [PhaseBar EXCEPT ![c] = Phase("closed")]
        BY <2>2, PhaseMoves
      <4>2. QED
        BY <2>2, <4>1, PhaseAt, PhaseValues
    <3>2. Service!Drop(c)
      BY <2>1, <3>1 DEF Service!Drop, PhaseBar, AnswerBar
    <3>3. QED
      BY <3>2 DEF Service!Next
  <2>3. CASE UNCHANGED pc
    BY <2>1, <2>3 DEF Service!vars, PhaseBar, AnswerBar
  <2>4. QED
    BY <1>3, <2>2, <2>3 DEF HangUp
<1>4. CASE Send(c)
  <2>1. PICK q \in {"idle", "closed"} : pc' = [pc EXCEPT ![c] = q]
    BY <1>4 DEF Send
  <2>2. Phase(q) \in {"ready", "closed"}
    BY PhaseValues
  <2>3. PhaseBar[c] = "answered" /\ PhaseBar' \in {[PhaseBar EXCEPT ![c] = "ready"], [PhaseBar EXCEPT ![c] = "closed"]}
    <3>1. PhaseBar' = [PhaseBar EXCEPT ![c] = Phase(q)]
      BY <2>1, PhaseMoves
    <3>2. pc[c] = "reply"
      BY <1>4 DEF Send
    <3>3. QED
      BY <2>2, <3>1, <3>2, PhaseAt, PhaseValues
  <2>4. AnswerBar' = [AnswerBar EXCEPT ![c] = Service!Say("none")]
    <3>1. reply' = [reply EXCEPT ![c] = Plain("none")]
      BY <1>4 DEF Send
    <3>2. AnswerBar' = [AnswerBar EXCEPT ![c] = Seen(Plain("none"))]
      BY <3>1, AnswerMoves
    <3>3. QED
      BY <3>2, SeenValues
  <2>5. req' = [req EXCEPT ![c] = Service!NoRequest] /\ UNCHANGED vmState
    BY <1>4, SameRequests DEF Send
  <2>6. Service!Return(c)
    BY <2>3, <2>4, <2>5 DEF Service!Return, PhaseBar, AnswerBar
  <2>7. QED
    BY <2>6 DEF Service!Next
<1>5. QED
  BY <1>1, <1>2, <1>3, <1>4

(* A task that answers a request it was serving.                             *)
LEMMA RefineRespond ==
  ASSUME TypeOK, NEW c \in Client, NEW r, Respond(c, r), pc[c] \notin {"closed", "idle", "reply"}
  PROVE  /\ PhaseBar[c] = "pending"
         /\ PhaseBar' = [PhaseBar EXCEPT ![c] = "answered"]
         /\ AnswerBar' = [AnswerBar EXCEPT ![c] = Seen(r)]
<1>1. PhaseBar' = [PhaseBar EXCEPT ![c] = Phase("reply")]
  BY PhaseMoves DEF Respond
<1>2. AnswerBar' = [AnswerBar EXCEPT ![c] = Seen(r)]
  BY AnswerMoves DEF Respond
<1>3. Phase(pc[c]) = "pending"
  BY PhaseValues DEF TypeOK
<1>4. QED
  BY <1>1, <1>2, <1>3, PhaseAt, PhaseValues

(* A request answered without the lock is not about the table.               *)
Routed ==
  \A c \in Client : pc[c] = "dispatch" => req[c].op \in {"policy", "other"} /\ req[c].vm = Unknown

LEMMA RoutedStep == TypeOK /\ Routed /\ [Next]_vars => Routed'
<1> SUFFICES ASSUME TypeOK, Routed, [Next]_vars, NEW e \in Client, pc'[e] = "dispatch"
             PROVE  req'[e].op \in {"policy", "other"} /\ req'[e].vm = Unknown
  BY DEF Routed
<1> USE DEF ipcVars, lockVars, vmVars, xenVars
<1>1. CASE UNCHANGED <<pc, req>>
  BY <1>1 DEF Routed
<1>2. ASSUME NEW c \in Client, Recv(c) PROVE req'[e].op \in {"policy", "other"} /\ req'[e].vm = Unknown
  <2>1. PICK r \in Request :
          /\ req' = [req EXCEPT ![c] = r]
          /\ IF r.op \in ReadOps \cup WriteOps THEN pc' = [pc EXCEPT ![c] = "wait"]
                                               ELSE pc' = [pc EXCEPT ![c] = "dispatch"]
    BY <1>2 DEF Recv
  <2>2. CASE e = c
    <3>1. r.op \notin ReadOps \cup WriteOps
      BY <2>1, <2>2 DEF TypeOK
    <3>2. r.op \in {"policy", "other"} /\ r.vm = Unknown
      BY <3>1 DEF Request, ReadOps, WriteOps
    <3>3. QED
      BY <2>1, <2>2, <3>2 DEF TypeOK
  <2>3. CASE e # c
    BY <2>1, <2>3 DEF Routed, TypeOK
  <2>4. QED
    BY <2>2, <2>3
<1>3. ASSUME NEW c \in Client, NEW q \in Pcs \ {"dispatch"}, pc' = [pc EXCEPT ![c] = q],
             \A d \in Client : d # c => req'[d] = req[d]
      PROVE  req'[e].op \in {"policy", "other"} /\ req'[e].vm = Unknown
  BY <1>3 DEF Routed, TypeOK
<1>4. ASSUME NEW c \in Client, Accept(c) \/ HangUp(c) \/ Send(c)
      PROVE  req'[e].op \in {"policy", "other"} /\ req'[e].vm = Unknown
  <2>1. \A d \in Client : d # c => req'[d] = req[d]
    BY <1>4 DEF Accept, HangUp, Send, TypeOK
  <2>2. UNCHANGED <<pc, req>> \/ \E q \in Pcs \ {"dispatch"} : pc' = [pc EXCEPT ![c] = q]
    BY <1>4 DEF Accept, HangUp, Send, Pcs
  <2>3. QED
    BY <1>1, <1>3, <2>1, <2>2
<1>5. ASSUME NEW c \in Client, TaskStep(c), ~Send(c)
      PROVE  req'[e].op \in {"policy", "other"} /\ req'[e].vm = Unknown
  <2>1. UNCHANGED req
    BY <1>5 DEF TaskStep, AnswerUnlocked, Query, Refuse, BeginXl, XlFails, CreateDone, DomidDone,
                DomidFails, ShutdownDone, DestroyDone
  <2>2. CASE \E r : Respond(c, r)
    <3>1. pc' = [pc EXCEPT ![c] = "reply"] /\ "reply" \in Pcs \ {"dispatch"}
      BY <2>2 DEF Respond, Pcs
    <3>2. QED
      BY <1>3, <2>1, <3>1
  <2>3. CASE BeginXl(c)
    <3>1. pc' = [pc EXCEPT ![c] = XlStep(req[c].op)] /\ XlStep(req[c].op) \in Pcs \ {"dispatch"}
      BY <2>3 DEF BeginXl, XlStep, Pcs, XlPc
    <3>2. QED
      BY <1>3, <2>1, <3>1
  <2>4. CASE CreateDone(c)
    <3>1. pc' = [pc EXCEPT ![c] = "domid"] /\ "domid" \in Pcs \ {"dispatch"}
      BY <2>4 DEF CreateDone, Pcs, XlPc
    <3>2. QED
      BY <1>3, <2>1, <3>1
  <2>5. QED
    BY <1>5, <2>2, <2>3, <2>4
       DEF TaskStep, AnswerUnlocked, Query, Refuse, XlFails, DomidDone,
           DomidFails, ShutdownDone, DestroyDone, Respond
<1>6. ASSUME NEW v \in VM, GuestExit(v) \/ GuestReboots(v) \/ GuestReturns(v) PROVE UNCHANGED <<pc, req>>
  BY <1>6 DEF GuestExit, GuestReboots, GuestReturns
<1>7. CASE Stop
  BY <1>7 DEF Stop
<1>8. CASE Start
  BY <1>1, <1>8 DEF Start
<1>9. QED
  BY <1>1, <1>2, <1>4, <1>5, <1>6, <1>7, <1>8 DEF Next, ClientStep, TaskStep, vars

LEMMA RoutedAlways == Spec => []Routed
<1>1. Init => Routed
  BY DEF Init, Routed
<1>2. QED
  BY <1>1, RoutedStep, TypeCorrect, PTL DEF Spec
-----------------------------------------------------------------------------
(* The answering steps are the service's Effect.                             *)

(* An answer that leaves the table as it is.                                 *)
LEMMA PlainEffect ==
  ASSUME TypeOK, NEW c \in Client, NEW r, Respond(c, r), pc[c] \notin {"closed", "idle", "reply"},
         UNCHANGED <<req, vmState>>,
         \/ req[c].op = "policy" /\ Seen(r) = Service!Say("policy")
         \/ req[c].op = "list" /\ Seen(r) = Service!Show("list", VM)
         \/ req[c].op = "status" /\ req[c].vm \in VM /\ Seen(r) = Service!Show("status", {req[c].vm})
         \/ /\ req[c].op \in {"other", "status", "start", "stop", "destroy"}
            /\ req[c].vm \in VM => \/ req[c].op \in {"start", "stop"}
                                   \/ req[c].op = "destroy" /\ vmState[req[c].vm] # "Halted"
            /\ Seen(r) = Service!Say("error")
  PROVE  Service!Effect(c)
<1>1. /\ PhaseBar[c] = "pending"
      /\ PhaseBar' = [PhaseBar EXCEPT ![c] = "answered"]
      /\ AnswerBar' = [AnswerBar EXCEPT ![c] = Seen(r)]
  BY RefineRespond
<1>2. QED
  BY <1>1 DEF Service!Effect, PhaseBar, AnswerBar

(* An answer that writes one entry of the table.                             *)
LEMMA SetEffect ==
  ASSUME TypeOK, NEW c \in Client, NEW r, Respond(c, r), pc[c] \notin {"closed", "idle", "reply"},
         UNCHANGED req, NEW s, vmState' = [vmState EXCEPT ![req[c].vm] = s], req[c].vm \in VM,
         \/ /\ req[c].op = "start" /\ vmState[req[c].vm] # "Running"
            /\ s = "Running" /\ Seen(r) = Service!Say("started")
         \/ /\ req[c].op = "stop" /\ vmState[req[c].vm] = "Running"
            /\ s = "Halted" /\ Seen(r) = Service!Say("stopped")
         \/ /\ req[c].op = "destroy"
            /\ s = "Halted" /\ Seen(r) = Service!Say("stopped")
  PROVE  Service!Effect(c)
<1>1. /\ PhaseBar[c] = "pending"
      /\ PhaseBar' = [PhaseBar EXCEPT ![c] = "answered"]
      /\ AnswerBar' = [AnswerBar EXCEPT ![c] = Seen(r)]
  BY RefineRespond
<1>2. QED
  BY <1>1 DEF Service!Effect, PhaseBar, AnswerBar

LEMMA RefineUnlocked ==
  ASSUME TypeOK, Routed, NEW c \in Client, AnswerUnlocked(c)
  PROVE  Service!Effect(c)
<1> DEFINE r == Plain(IF req[c].op = "policy" THEN "policy" ELSE "error")
<1>1. /\ Respond(c, r) /\ pc[c] = "dispatch" /\ UNCHANGED <<req, vmState>>
      /\ req[c].op \in {"policy", "other"} /\ req[c].vm \notin VM
  BY NameAssumption DEF AnswerUnlocked, Respond, vmVars, Routed
<1>2. CASE req[c].op = "policy"
  <2>1. Seen(r) = Service!Say("policy")
    BY <1>2, SeenValues
  <2>2. QED
    BY <1>1, <1>2, <2>1, PlainEffect
<1>3. CASE req[c].op = "other"
  <2>1. Seen(r) = Service!Say("error")
    BY <1>3, SeenValues
  <2>2. QED
    BY <1>1, <1>3, <2>1, PlainEffect
<1>4. QED
  BY <1>1, <1>2, <1>3

LEMMA RefineQuery ==
  ASSUME TypeOK, NEW c \in Client, Query(c)
  PROVE  Service!Effect(c)
<1>1. pc[c] = "wait" /\ UNCHANGED <<req, vmState>> /\ req[c].op \in {"list", "status"}
  BY DEF Query, Granted, vmVars, ReadOps
<1>2. CASE req[c].op = "list"
  <2>1. Respond(c, Shown("list", VM))
    BY <1>2 DEF Query
  <2>2. QED
    BY <1>1, <1>2, <2>1, SeenValues, PlainEffect
<1>3. CASE req[c].op = "status" /\ req[c].vm \in VM
  <2>1. Respond(c, Shown("status", {req[c].vm}))
    BY <1>3 DEF Query
  <2>2. QED
    BY <1>1, <1>3, <2>1, SeenValues, PlainEffect
<1>4. CASE req[c].op = "status" /\ req[c].vm \notin VM
  <2>1. Respond(c, Plain("error"))
    BY <1>4 DEF Query
  <2>2. QED
    BY <1>1, <1>4, <2>1, SeenValues, PlainEffect
<1>5. QED
  BY <1>1, <1>2, <1>3, <1>4

LEMMA RefineRefuse ==
  ASSUME TypeOK, NEW c \in Client, Refuse(c)
  PROVE  Service!Effect(c)
<1>1. pc[c] = "wait" /\ UNCHANGED <<req, vmState>> /\ req[c].op \in {"start", "stop", "destroy"}
  BY DEF Refuse, Granted, vmVars, WriteOps
<1>2. CASE /\ Respond(c, Plain("error"))
           /\ req[c].vm \in VM => req[c].op \in {"start", "stop"}
  BY <1>1, <1>2, SeenValues, PlainEffect
<1>3. CASE /\ Respond(c, Plain("stopped"))
           /\ req[c].vm \in VM /\ req[c].op = "destroy" /\ vmState[req[c].vm] = "Halted"
  <2>1. vmState' = [vmState EXCEPT ![req[c].vm] = "Halted"]
    BY <1>1, <1>3 DEF TypeOK
  <2>2. Seen(Plain("stopped")) = Service!Say("stopped")
    BY SeenValues
  <2>3. QED
    BY <1>1, <1>3, <2>1, <2>2, SetEffect
<1>4. QED
  BY <1>2, <1>3 DEF Refuse

(* A failed xl process: the guard that let it start still holds, so the       *)
(* service may answer an error.                                              *)
LEMMA RefineFailure ==
  ASSUME IInv, NEW c \in Client, XlFails(c) \/ DomidFails(c)
  PROVE  Service!Effect(c)
<1>1. /\ pc[c] \in {"create", "domid", "shutdown", "destroy"}
      /\ Respond(c, Plain("error")) /\ UNCHANGED <<req, vmState>>
  BY DEF XlFails, DomidFails, vmVars
<1>2. TypeOK /\ req[c].vm \in VM /\ Allowed(req[c].op, vmState[req[c].vm])
  BY <1>1, HolderFacts DEF XlPc, IInv, TypeInv
<1>3. req[c].op \in {"start", "stop", "destroy"}
  BY <1>1 DEF IInv, XlMatches
<1>4. req[c].op = "destroy" => vmState[req[c].vm] # "Halted"
  BY <1>2 DEF Allowed
<1>5. QED
  BY <1>1, <1>2, <1>3, <1>4, SeenValues, PlainEffect

LEMMA RefineSuccess ==
  ASSUME IInv, NEW c \in Client, DomidDone(c) \/ ShutdownDone(c) \/ DestroyDone(c)
  PROVE  Service!Effect(c)
<1>1. pc[c] \in {"domid", "shutdown", "destroy"}
  BY DEF DomidDone, ShutdownDone, DestroyDone
<1>2. TypeOK /\ req[c].vm \in VM /\ Allowed(req[c].op, vmState[req[c].vm])
  BY <1>1, HolderFacts DEF XlPc, IInv, TypeInv
<1>3. CASE DomidDone(c)
  <2>1. PICK d : Respond(c, Started(d))
    BY <1>3 DEF DomidDone
  <2>2. vmState' = [vmState EXCEPT ![req[c].vm] = "Running"] /\ UNCHANGED req
    BY <1>3 DEF DomidDone
  <2>3. req[c].op = "start" /\ vmState[req[c].vm] # "Running"
    BY <1>2, <1>3 DEF DomidDone, IInv, XlMatches, Allowed
  <2>4. Seen(Started(d)) = Service!Say("started")
    BY SeenValues
  <2>5. QED
    BY <1>1, <1>2, <2>1, <2>2, <2>3, <2>4, SetEffect
<1>4. CASE ShutdownDone(c) \/ DestroyDone(c)
  <2>1. /\ Respond(c, Plain("stopped")) /\ UNCHANGED req
        /\ vmState' = [vmState EXCEPT ![req[c].vm] = "Halted"]
    BY <1>4 DEF ShutdownDone, DestroyDone, Halt
  <2>2. \/ req[c].op = "stop" /\ vmState[req[c].vm] = "Running"
        \/ req[c].op = "destroy"
    BY <1>2, <1>4 DEF ShutdownDone, DestroyDone, IInv, XlMatches, Allowed
  <2>3. Seen(Plain("stopped")) = Service!Say("stopped")
    BY SeenValues
  <2>4. QED
    BY <1>1, <1>2, <2>1, <2>2, <2>3, SetEffect
<1>5. QED
  BY <1>3, <1>4

(* Steps the client cannot see.                                              *)
LEMMA RefineHidden ==
  ASSUME IInv, NEW c \in Client, BeginXl(c) \/ CreateDone(c)
  PROVE  UNCHANGED (Service!vars)
<1>1. TypeOK
  BY DEF IInv, TypeInv
<1>2. UNCHANGED <<req, reply, vmState>>
  BY DEF BeginXl, CreateDone, vmVars
<1>3. PICK p \in XlPc : pc' = [pc EXCEPT ![c] = p]
  BY DEF BeginXl, CreateDone, XlStep, XlPc
<1>4. Phase(p) = "pending" /\ Phase(pc[c]) = "pending"
  BY PhaseValues DEF XlPc, Pcs, BeginXl, CreateDone, Granted
<1>5. \A e \in Client : Phase(pc'[e]) = Phase(pc[e])
  BY <1>1, <1>3, <1>4 DEF TypeOK
<1>6. PhaseBar' = PhaseBar /\ AnswerBar' = AnswerBar
  BY <1>2, <1>5 DEF PhaseBar, AnswerBar
<1>7. QED
  BY <1>2, <1>6 DEF Service!vars, PhaseBar, AnswerBar

LEMMA RefineOutside ==
  ASSUME TypeOK,
         \/ \E v \in VM : GuestExit(v) \/ GuestReboots(v) \/ GuestReturns(v)
         \/ Stop \/ Start \/ UNCHANGED vars
  PROVE  [Service!Next]_(Service!vars)
<1>1. CASE Stop
  <2>1. PhaseBar' = [c \in Client |-> "closed"]
    BY <1>1, PhaseValues DEF Stop, PhaseBar
  <2>2. AnswerBar' = [c \in Client |-> Service!Say("none")]
    BY <1>1, SeenValues DEF Stop, AnswerBar, Seen
  <2>3. Service!Reset
    BY <1>1, <2>1, <2>2, SameRequests DEF Stop, Service!Reset, PhaseBar, AnswerBar
  <2>4. QED
    BY <2>3 DEF Service!Next
<1>2. CASE \/ \E v \in VM : GuestExit(v) \/ GuestReboots(v) \/ GuestReturns(v)
           \/ Start \/ UNCHANGED vars
  <2>1. UNCHANGED <<pc, req, reply, vmState>>
    BY <1>2 DEF GuestExit, GuestReboots, GuestReturns, Start, vars, ipcVars, vmVars
  <2>2. QED
    BY <2>1 DEF Service!vars
<1>3. QED
  BY <1>1, <1>2

LEMMA RefineStep == IInv /\ Routed /\ [Next]_vars => [Service!Next]_(Service!vars)
<1> SUFFICES ASSUME IInv, Routed, [Next]_vars PROVE [Service!Next]_(Service!vars)
  OBVIOUS
<1>t. TypeOK
  BY DEF IInv, TypeInv
<1>1. ASSUME NEW c \in Client, ClientStep(c) \/ TaskStep(c) PROVE [Service!Next]_(Service!vars)
  <2>1. CASE Service!Effect(c)
    BY <2>1 DEF Service!Next
  <2>2. CASE Accept(c) \/ Recv(c) \/ HangUp(c) \/ Send(c)
    BY <1>t, <2>2, RefineConnection
  <2>3. CASE AnswerUnlocked(c)
    BY <1>t, <2>1, <2>3, RefineUnlocked
  <2>4. CASE Query(c) \/ Refuse(c)
    BY <1>t, <2>1, <2>4, RefineQuery, RefineRefuse
  <2>5. CASE BeginXl(c) \/ CreateDone(c)
    BY <2>5, RefineHidden
  <2>6. CASE XlFails(c) \/ DomidFails(c)
    BY <2>1, <2>6, RefineFailure
  <2>7. CASE DomidDone(c) \/ ShutdownDone(c) \/ DestroyDone(c)
    BY <2>1, <2>7, RefineSuccess
  <2>8. QED
    BY <1>1, <2>2, <2>3, <2>4, <2>5, <2>6, <2>7 DEF ClientStep, TaskStep
<1>2. CASE \/ \E v \in VM : GuestExit(v) \/ GuestReboots(v) \/ GuestReturns(v)
           \/ Stop \/ Start \/ UNCHANGED vars
  BY <1>2, <1>t, RefineOutside
<1>3. QED
  BY <1>1, <1>2 DEF Next

(* Every behaviour of the daemon is one of the atomic service: each request   *)
(* takes effect in one step, between its arrival and its answer.              *)
THEOREM Refinement == Spec => AtomicService
  BY RefineInit, RefineStep, Invariance, RoutedAlways, PTL DEF Spec, AtomicService, Service!Spec
==============================================================================
