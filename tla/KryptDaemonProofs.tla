-------------------------- MODULE KryptDaemonProofs --------------------------
(***************************************************************************)
(* Proofs about KryptDaemon for any number of clients and VMs and any bound *)
(* on domain ids.                                                           *)
(***************************************************************************)
EXTENDS KryptDaemon, QueueProofs, TLAPS

(* A task that awaits an xl process holds the write guard, only that task    *)
(* does, and it serves a registered VM.                                      *)
Holder ==
  \A c \in Client :
    /\ pc[c] \in XlPc <=> writer = c
    /\ pc[c] \in XlPc => req[c].vm \in VM

(* The xl process is the one its request asks for.                          *)
XlMatches ==
  \A c \in Client :
    /\ pc[c] \in {"create", "domid"} => req[c].op = "start"
    /\ pc[c] = "shutdown" => req[c].op = "stop"
    /\ pc[c] = "destroy" => req[c].op = "destroy"

(* Domain ids grow, those in the table included, and no answer names the     *)
(* domain a start is still about to look up.                                 *)
FreshIds ==
  /\ \A v \in VM : dom[v] <= nextDomid /\ vmDomid[v] <= nextDomid
  /\ \A c \in Client : reply[c].domid <= nextDomid
  /\ \A c \in Client : pc[c] = "domid" =>
       /\ req[c].vm \notin lost
       /\ dom[req[c].vm] # 0 => \A d \in Client : reply[d].domid # dom[req[c].vm]

(* Between two lives a guest has no domain.                                  *)
Between == \A v \in VM : watch[v] = "between" => dom[v] = 0

TypeInv == TypeOK /\ Holder

(* The inductive invariant.                                                 *)
IInv ==
  /\ TypeInv
  /\ XlMatches
  /\ GuardStillHolds
  /\ DomidCurrent
  /\ LossAccounted
  /\ FreshIds
  /\ Between
  /\ NoSharedDomain

-----------------------------------------------------------------------------
(* The responses are well formed.                                           *)
LEMMA ReplyTypes ==
  ASSUME TypeOK
  PROVE  /\ \A t \in Tags : Plain(t) \in Reply
         /\ \A t \in Tags, S \in SUBSET VM : Shown(t, S) \in Reply
         /\ \A d \in Nat : Started(d) \in Reply
  BY DEF Plain, Shown, Started, Reply, Tags

(* Handing a response to conn.send.                                         *)
LEMMA RespondType ==
  ASSUME TypeOK, NEW c \in Client, NEW r \in Reply, Respond(c, r)
  PROVE  /\ pc' \in [Client -> Pcs]
         /\ reply' \in [Client -> Reply]
  BY DEF TypeOK, Respond, Pcs

(* What being granted the lock does to the queue.                           *)
LEMMA GrantedType ==
  ASSUME TypeOK, NEW c \in Client, Granted(c)
  PROVE  queue' \in Seq(Client)
  BY DEF TypeOK, Granted

LEMMA TypeStep == TypeInv /\ [Next]_vars => TypeOK'
<1> SUFFICES ASSUME TypeOK, Holder, [Next]_vars PROVE TypeOK'
  BY DEF TypeInv
<1>tags. \A t \in Tags : Plain(t) \in Reply
  BY ReplyTypes
<1>strs. {"none", "error", "policy", "status", "list", "started", "stopped"} \subseteq Tags
  BY DEF Tags
<1> USE DEF ipcVars, lockVars, vmVars, xenVars
<1>1. ASSUME NEW c \in Client, Accept(c) PROVE TypeOK'
  BY <1>1 DEF TypeOK, Accept, Pcs
<1>2. ASSUME NEW c \in Client, Recv(c) PROVE TypeOK'
  <2>1. req' \in [Client -> Request \cup {NoRequest}]
    <3>1. PICK r \in Request : req' = [req EXCEPT ![c] = r]
      BY <1>2 DEF Recv
    <3>2. QED
      BY <3>1 DEF TypeOK
  <2>2. pc' \in [Client -> Pcs]
    BY <1>2 DEF TypeOK, Recv, Pcs
  <2>3. queue' = queue \/ queue' = Append(queue, c)
    BY <1>2 DEF Recv
  <2>4. queue' \in Seq(Client)
    <3>1. queue \in Seq(Client)
      BY DEF TypeOK
    <3>2. Append(queue, c) \in Seq(Client)
      BY <3>1, AppendProperties
    <3>3. QED
      BY <2>3, <3>1, <3>2
  <2>5. QED
    BY <1>2, <2>1, <2>2, <2>4 DEF TypeOK, Recv
<1>3. ASSUME NEW c \in Client, HangUp(c) PROVE TypeOK'
  BY <1>3 DEF TypeOK, HangUp, Pcs
<1>4. ASSUME NEW c \in Client, Send(c) PROVE TypeOK'
  BY <1>4, <1>tags, <1>strs DEF TypeOK, Send, Pcs
<1>5. ASSUME NEW c \in Client, AnswerUnlocked(c) PROVE TypeOK'
  BY <1>5, <1>tags, <1>strs DEF TypeOK, AnswerUnlocked, Pcs
<1>6. ASSUME NEW c \in Client, Query(c) PROVE TypeOK'
  <2>1. PICK r \in Reply : Respond(c, r)
    <3>1. CASE req[c].op = "list"
      BY <1>6, <3>1, <1>strs, ReplyTypes DEF Query
    <3>2. CASE req[c].op # "list" /\ req[c].vm \in VM
      BY <1>6, <3>2, <1>strs, ReplyTypes DEF Query
    <3>3. CASE req[c].op # "list" /\ req[c].vm \notin VM
      BY <1>6, <3>3, <1>strs, ReplyTypes DEF Query
    <3>4. QED
      BY <3>1, <3>2, <3>3
  <2>2. queue' \in Seq(Client)
    BY <1>6, GrantedType DEF Query
  <2>3. QED
    BY <1>6, <2>1, <2>2, RespondType DEF Query, TypeOK
<1>7. ASSUME NEW c \in Client, Refuse(c) PROVE TypeOK'
  <2>1. PICK r \in Reply : Respond(c, r)
    BY <1>7, <1>tags, <1>strs DEF Refuse
  <2>2. queue' \in Seq(Client)
    BY <1>7, GrantedType DEF Refuse
  <2>3. QED
    BY <1>7, <2>1, <2>2, RespondType DEF Refuse, TypeOK
<1>8. ASSUME NEW c \in Client, BeginXl(c) PROVE TypeOK'
  <2>1. queue' \in Seq(Client)
    BY <1>8, GrantedType DEF BeginXl
  <2>2. QED
    BY <1>8, <2>1 DEF BeginXl, TypeOK, Pcs, XlPc, XlStep
<1>9. ASSUME NEW c \in Client, XlFails(c) PROVE TypeOK'
  <2>1. Plain("error") \in Reply /\ Respond(c, Plain("error"))
    BY <1>9, <1>tags, <1>strs DEF XlFails
  <2>2. QED
    BY <1>9, <2>1, RespondType DEF XlFails, TypeOK
<1>10. ASSUME NEW c \in Client, CreateDone(c) PROVE TypeOK'
  <2>1. nextDomid + 1 \in Nat
    BY DEF TypeOK
  <2>2. nextDomid' \in Nat /\ dom' \in [VM -> Nat]
    BY <1>10, <2>1, Zenon DEF CreateDone, TypeOK
  <2>3. watch' \in [VM -> {"none", "first", "between", "later"}] /\ lost' \in SUBSET VM
    BY <1>10 DEF CreateDone, TypeOK
  <2>4. QED
    BY <1>10, <2>2, <2>3 DEF CreateDone, TypeOK, Pcs, XlPc
<1>11. ASSUME NEW c \in Client, DomidDone(c) PROVE TypeOK'
  <2>1. req[c].vm \in VM
    BY <1>11 DEF DomidDone, Holder, XlPc
  <2>2. /\ vmState' \in [VM -> {"Halted", "Running"}]
        /\ vmDomid' \in [VM -> Nat]
    BY <1>11, <2>1 DEF DomidDone, TypeOK
  <2>3. Started(vmDomid'[req[c].vm]) \in Reply
    BY <2>1, <2>2, ReplyTypes
  <2>4. QED
    BY <1>11, <2>2, <2>3, RespondType DEF DomidDone, TypeOK
<1>12. ASSUME NEW c \in Client, DomidFails(c) PROVE TypeOK'
  BY <1>12, <1>tags, <1>strs, RespondType DEF DomidFails, Leak, TypeOK, Holder, XlPc
<1>13. ASSUME NEW c \in Client, ShutdownDone(c) PROVE TypeOK'
  BY <1>13, <1>tags, <1>strs, RespondType DEF ShutdownDone, Halt, Leak, TypeOK, Holder, XlPc
<1>14. ASSUME NEW c \in Client, DestroyDone(c) PROVE TypeOK'
  BY <1>14, <1>tags, <1>strs, RespondType DEF DestroyDone, Halt, TypeOK
<1>15. ASSUME NEW v \in VM, GuestExit(v) \/ GuestReboots(v) \/ GuestReturns(v) PROVE TypeOK'
  <2>1. nextDomid + 1 \in Nat
    BY DEF TypeOK
  <2>2. nextDomid' \in Nat /\ dom' \in [VM -> Nat]
    <3>1. CASE GuestExit(v) \/ GuestReboots(v)
      BY <3>1 DEF GuestExit, GuestReboots, TypeOK
    <3>2. CASE GuestReturns(v)
      <4>1. dom \in [VM -> Nat] /\ nextDomid \in Nat
        BY DEF TypeOK
      <4>2. \/ nextDomid' = nextDomid + 1 /\ dom' = [dom EXCEPT ![v] = nextDomid + 1]
            \/ UNCHANGED <<dom, nextDomid>>
        BY <3>2 DEF GuestReturns
      <4>3. QED
        BY <2>1, <4>1, <4>2
    <3>3. QED
      BY <1>15, <3>1, <3>2
  <2>3. watch' \in [VM -> {"none", "first", "between", "later"}] /\ lost' \in SUBSET VM
    BY <1>15 DEF GuestExit, GuestReboots, GuestReturns, TypeOK
  <2>4. QED
    BY <1>15, <2>2, <2>3 DEF TypeOK, GuestExit, GuestReboots, GuestReturns
<1>16. CASE Stop
  <2>1. Plain("none") \in Reply
    BY <1>tags, <1>strs
  <2>2. reply' \in [Client -> Reply]
    BY <1>16, <2>1 DEF Stop
  <2>3. lost' \in SUBSET VM /\ queue' \in Seq(Client)
    BY <1>16 DEF Stop, Leak, TypeOK
  <2>4. QED
    BY <1>16, <2>2, <2>3 DEF Stop, TypeOK, Pcs
<1>17. CASE Start
  BY <1>17 DEF Start, TypeOK
<1>18. CASE UNCHANGED vars
  BY <1>18 DEF vars, TypeOK
<1>19. QED
  BY <1>1, <1>2, <1>3, <1>4, <1>5, <1>6, <1>7, <1>8, <1>9, <1>10, <1>11, <1>12, <1>13, <1>14,
     <1>15, <1>16, <1>17, <1>18 DEF Next, ClientStep, TaskStep
-----------------------------------------------------------------------------
(* Steps that touch neither the VM table, nor the domains, nor the guard.    *)

Quiet(c) ==
  /\ pc[c] \notin XlPc
  /\ \A d \in Client : d # c => pc'[d] = pc[d] /\ req'[d] = req[d]
  /\ pc'[c] \notin XlPc
  /\ \A d \in Client : reply'[d].domid \in {0, reply[d].domid}
  /\ UNCHANGED <<writer, vmState, vmDomid, dom, nextDomid, watch, lost>>

(* A quiet step preserves everything but the types.                          *)
LEMMA QuietStep ==
  ASSUME IInv, TypeOK', NEW c \in Client, Quiet(c)
  PROVE  IInv'
<1> USE DEF IInv, TypeInv, Quiet
<1>x. \A d \in Client : pc'[d] \in XlPc => d # c /\ pc[d] = pc'[d] /\ req'[d] = req[d]
  OBVIOUS
<1>1. Holder'
  BY <1>x DEF Holder
<1>2. XlMatches'
  BY <1>x DEF XlMatches, XlPc
<1>3. GuardStillHolds'
  BY <1>x DEF GuardStillHolds, Allowed
<1>4. DomidCurrent'
  BY DEF DomidCurrent
<1>5. LossAccounted'
  BY <1>x DEF LossAccounted, Alive, XlPc
<1>6. FreshIds'
  <2>1. \A v \in VM : dom'[v] <= nextDomid' /\ vmDomid'[v] <= nextDomid'
    BY DEF FreshIds
  <2>2. ASSUME NEW d \in Client PROVE reply'[d].domid <= nextDomid'
    <3>1. reply[d].domid <= nextDomid
      BY DEF FreshIds
    <3>2. nextDomid \in Nat
      BY DEF TypeOK
    <3>3. reply'[d].domid \in {0, reply[d].domid} /\ nextDomid' = nextDomid
      OBVIOUS
    <3>4. QED
      BY <3>1, <3>2, <3>3
  <2>3. ASSUME NEW d \in Client, pc'[d] = "domid"
        PROVE  /\ req'[d].vm \notin lost'
               /\ dom'[req'[d].vm] # 0 => \A e \in Client : reply'[e].domid # dom'[req'[d].vm]
    BY <2>3, <1>x DEF FreshIds, XlPc
  <2>4. QED
    BY <2>1, <2>2, <2>3 DEF FreshIds
<1>7. NoSharedDomain' /\ Between'
  BY DEF NoSharedDomain, Between
<1>8. QED
  BY <1>1, <1>2, <1>3, <1>4, <1>5, <1>6, <1>7
-----------------------------------------------------------------------------
(* Steps by which the holder of the guard answers and drops it.              *)

Finish(c, d) ==
  /\ pc[c] \in XlPc
  /\ pc' = [pc EXCEPT ![c] = "reply"]
  /\ reply'[c].domid = d
  /\ \A e \in Client : e # c => reply'[e] = reply[e]
  /\ writer' = NoClient
  /\ UNCHANGED <<req, nextDomid>>

DomainsOnlyEnd ==
  \A v \in VM : dom'[v] \in {0, dom[v]} /\ vmDomid'[v] \in {0, dom[v], vmDomid[v]}
                /\ watch'[v] \in {watch[v], "none"}

(* d may be given in an answer.                                              *)
Unclaimed(d) ==
  \/ d = 0
  \/ d <= nextDomid /\ \A e \in Client : reply[e].domid # d

(* Once the guard is dropped no task awaits an xl process, so what is left    *)
(* of the invariant is what it says of the table and the domains.             *)
LEMMA FinishStep ==
  ASSUME IInv, TypeOK', NEW c \in Client, NEW d \in Nat, Finish(c, d), Unclaimed(d),
         DomidCurrent', LossAccounted', DomainsOnlyEnd
  PROVE  IInv'
<1> USE DEF IInv, TypeInv, Finish, Unclaimed, DomainsOnlyEnd
<1>x. \A e \in Client : pc'[e] \notin XlPc
  BY DEF Holder, TypeOK, XlPc
<1>n. nextDomid \in Nat
  BY DEF TypeOK
<1>1. Holder'
  BY <1>x, ClientAssumption DEF Holder
<1>2. XlMatches'
  BY <1>x DEF XlMatches, XlPc
<1>3. GuardStillHolds'
  BY <1>x DEF GuardStillHolds
<1>4. FreshIds'
  <2>1. \A v \in VM : dom'[v] <= nextDomid' /\ vmDomid'[v] <= nextDomid'
    BY <1>n DEF FreshIds
  <2>2. ASSUME NEW e \in Client PROVE reply'[e].domid <= nextDomid'
    <3>1. reply[e].domid <= nextDomid
      BY DEF FreshIds
    <3>2. QED
      BY <3>1, <1>n
  <2>3. QED
    BY <2>1, <2>2, <1>x DEF FreshIds, XlPc
<1>5. NoSharedDomain' /\ Between'
  BY DEF NoSharedDomain, Between
<1>6. QED
  BY <1>1, <1>2, <1>3, <1>4, <1>5

LEMMA FinishPlainStep ==
  ASSUME IInv, TypeOK', NEW c \in Client, Finish(c, 0),
         DomidCurrent', LossAccounted', DomainsOnlyEnd
  PROVE  IInv'
<1>1. \E d \in Nat : Finish(c, d) /\ Unclaimed(d)
  <2>1. Unclaimed(0)
    BY DEF Unclaimed
  <2>2. QED
    BY <2>1
<1>2. QED
  BY <1>1, FinishStep
-----------------------------------------------------------------------------
(* The steps of Next that are quiet.                                         *)
LEMMA QuietActions ==
  ASSUME IInv, TypeOK', NEW c \in Client,
         \/ Accept(c) \/ Recv(c) \/ HangUp(c) \/ Send(c)
         \/ AnswerUnlocked(c) \/ Query(c) \/ Refuse(c)
  PROVE  IInv'
<1> USE DEF IInv, TypeInv, ipcVars, lockVars, vmVars, xenVars
<1>d. \A t \in Tags : Plain(t).domid = 0 /\ \A S \in SUBSET VM : Shown(t, S).domid = 0
  BY DEF Plain, Shown
<1>1. CASE Accept(c)
  BY <1>1, QuietStep DEF Accept, Quiet, TypeOK, XlPc
<1>2. CASE Recv(c)
  <2>1. pc[c] = "idle" /\ (pc'[c] = "wait" \/ pc'[c] = "dispatch")
    BY <1>2 DEF Recv, TypeOK
  <2>2. \A d \in Client : d # c => pc'[d] = pc[d] /\ req'[d] = req[d]
    BY <1>2 DEF Recv, TypeOK
  <2>3. UNCHANGED <<reply, writer, vmState, vmDomid, dom, nextDomid, watch, lost>>
    BY <1>2 DEF Recv
  <2>4. Quiet(c)
    BY <2>1, <2>2, <2>3 DEF Quiet, XlPc
  <2>5. QED
    BY <2>4, QuietStep
<1>3. CASE HangUp(c)
  <2>1. CASE pc[c] = "idle"
    BY <1>3, <2>1, QuietStep DEF HangUp, Quiet, TypeOK, XlPc
  <2>2. CASE UNCHANGED pc
    <3>1. UNCHANGED <<pc, req, reply, writer, vmState, vmDomid, dom, nextDomid, watch, lost>>
      BY <1>3, <2>2 DEF HangUp
    <3>2. QED
      BY <3>1 DEF Holder, XlMatches, GuardStillHolds, DomidCurrent, LossAccounted, Alive, FreshIds,
                  Between, NoSharedDomain
  <2>3. QED
    BY <1>3, <2>1, <2>2 DEF HangUp
<1>4. CASE Send(c)
  BY <1>4, QuietStep DEF Send, Quiet, TypeOK, XlPc, Plain
<1>5. CASE AnswerUnlocked(c)
  BY <1>5, QuietStep DEF AnswerUnlocked, Quiet, TypeOK, XlPc, Plain
<1>6. CASE Query(c) \/ Refuse(c)
  <2>1. PICK r \in Reply : Respond(c, r) /\ r.domid = 0
    <3>t. {"error", "status", "list", "stopped"} \subseteq Tags
      BY DEF Tags
    <3>1. CASE Query(c) /\ req[c].op = "list"
      BY <3>1, <1>d, <3>t, ReplyTypes DEF Query
    <3>2. CASE Query(c) /\ req[c].op # "list"
      <4>1. CASE req[c].vm \in VM
        BY <3>2, <4>1, <1>d, <3>t, ReplyTypes DEF Query
      <4>2. CASE req[c].vm \notin VM
        BY <3>2, <4>2, <1>d, <3>t, ReplyTypes DEF Query
      <4>3. QED
        BY <4>1, <4>2
    <3>3. CASE Refuse(c)
      BY <3>3, <1>d, <3>t, ReplyTypes DEF Refuse
    <3>4. QED
      BY <1>6, <3>1, <3>2, <3>3
  <2>2. /\ pc[c] = "wait"
        /\ UNCHANGED <<req, writer, vmState, vmDomid, dom, nextDomid, watch, lost>>
    BY <1>6 DEF Query, Refuse, Granted
  <2>3. Quiet(c)
    BY <2>1, <2>2 DEF Quiet, Respond, TypeOK, XlPc
  <2>4. QED
    BY <2>3, QuietStep
<1>7. QED
  BY <1>1, <1>2, <1>3, <1>4, <1>5, <1>6
(* Taking the guard: nobody held it, so the state just read is still there.   *)
LEMMA BeginXlStep ==
  ASSUME IInv, TypeOK', NEW c \in Client, BeginXl(c)
  PROVE  IInv'
<1> USE DEF IInv, TypeInv, vmVars, xenVars
<1>1. /\ \A d \in Client : pc[d] \notin XlPc
      /\ \A d \in Client : d # c => pc'[d] = pc[d]
      /\ pc'[c] = XlStep(req[c].op)
      /\ writer' = c
      /\ req[c].op \in WriteOps /\ req[c].vm \in VM
      /\ Allowed(req[c].op, vmState[req[c].vm])
      /\ UNCHANGED <<req, reply, vmState, vmDomid, dom, nextDomid, watch, lost>>
  BY ClientAssumption DEF BeginXl, Granted, Holder, TypeOK
<1>2. pc'[c] \in {"create", "shutdown", "destroy"}
  BY <1>1 DEF XlStep
<1>3. Holder'
  BY <1>1, <1>2 DEF Holder, XlPc
<1>4. XlMatches'
  BY <1>1 DEF XlMatches, XlStep, XlPc, WriteOps
<1>5. GuardStillHolds'
  BY <1>1 DEF GuardStillHolds, Allowed
<1>6. DomidCurrent' /\ NoSharedDomain' /\ Between'
  BY <1>1 DEF DomidCurrent, NoSharedDomain, Between
<1>7. LossAccounted'
  BY <1>1 DEF LossAccounted, Alive, XlPc
<1>8. FreshIds'
  BY <1>1, <1>2 DEF FreshIds, XlPc
<1>9. QED
  BY <1>3, <1>4, <1>5, <1>6, <1>7, <1>8

(* `xl create` gives the name a new id, while the table says Halted.          *)
LEMMA CreateStep ==
  ASSUME IInv, TypeOK', NEW c \in Client, CreateDone(c)
  PROVE  IInv'
<1> DEFINE v == req[c].vm
<1> USE DEF IInv, TypeInv, lockVars, vmVars
<1>1. /\ v \in VM /\ req[c].op = "start"
      /\ pc[c] \in XlPc
      /\ writer = c
      /\ nextDomid \in Nat
      /\ nextDomid + 1 # 0
      /\ vmState[v] = "Halted" /\ vmDomid[v] = 0
  <2>1. v \in VM /\ req[c].op = "start" /\ writer = c /\ pc[c] \in XlPc
    BY DEF CreateDone, Holder, XlMatches, XlPc
  <2>2. vmState[v] = "Halted"
    BY <2>1 DEF CreateDone, GuardStillHolds, Allowed, TypeOK
  <2>3. vmDomid[v] = 0
    BY <2>1, <2>2 DEF DomidCurrent
  <2>4. nextDomid \in Nat
    BY DEF TypeOK
  <2>5. QED
    BY <2>1, <2>2, <2>3, <2>4
<1>2. /\ nextDomid' = nextDomid + 1
      /\ dom'[v] = nextDomid + 1
      /\ \A w \in VM : w # v => dom'[w] = dom[w] /\ watch'[w] = watch[w]
      /\ watch'[v] = "first" /\ lost' = lost \ {v}
      /\ pc' = [pc EXCEPT ![c] = "domid"]
      /\ UNCHANGED <<req, reply, writer, vmState, vmDomid>>
  BY <1>1 DEF CreateDone, TypeOK
<1>3. /\ \A d \in Client : d # c => pc'[d] = pc[d] /\ pc'[d] \notin XlPc
      /\ pc'[c] = "domid"
  BY <1>1, <1>2 DEF Holder, TypeOK
<1>4. Holder'
  BY <1>1, <1>2, <1>3 DEF Holder, XlPc
<1>5. XlMatches'
  BY <1>1, <1>2, <1>3 DEF XlMatches, XlPc
<1>6. GuardStillHolds'
  BY <1>1, <1>2, <1>3 DEF GuardStillHolds, Allowed
<1>7. DomidCurrent'
  BY <1>1, <1>2 DEF DomidCurrent
<1>8. LossAccounted'
  BY <1>1, <1>2, <1>3 DEF LossAccounted, Alive, XlPc
<1>9. FreshIds'
  <2>1. ASSUME NEW w \in VM PROVE dom'[w] <= nextDomid' /\ vmDomid'[w] <= nextDomid'
    <3>1. /\ dom[w] <= nextDomid /\ dom[w] \in Nat
          /\ vmDomid[w] <= nextDomid /\ vmDomid[w] \in Nat
      BY DEF FreshIds, TypeOK
    <3>2. dom'[w] = nextDomid + 1 \/ dom'[w] = dom[w]
      BY <1>2
    <3>3. QED
      BY <3>1, <3>2, <1>1, <1>2
  <2>2. ASSUME NEW d \in Client
        PROVE  reply'[d].domid <= nextDomid' /\ reply'[d].domid # nextDomid + 1
    <3>1. reply[d].domid <= nextDomid /\ reply[d].domid \in Nat
      BY DEF FreshIds, TypeOK, Reply
    <3>2. reply'[d].domid = reply[d].domid
      BY <1>2
    <3>3. QED
      BY <3>1, <3>2, <1>1, <1>2
  <2>3. QED
    BY <2>1, <2>2, <1>1, <1>2, <1>3 DEF FreshIds, XlPc
<1>10. NoSharedDomain' /\ Between'
  BY <1>2 DEF NoSharedDomain, Between
<1>11. QED
  BY <1>4, <1>5, <1>6, <1>7, <1>8, <1>9, <1>10
-----------------------------------------------------------------------------
(* What the holder of the guard knows of its VM.                             *)
LEMMA HolderFacts ==
  ASSUME IInv, NEW c \in Client, pc[c] \in XlPc
  PROVE  /\ req[c].vm \in VM
         /\ writer = c
         /\ Allowed(req[c].op, vmState[req[c].vm])
         /\ pc \in [Client -> Pcs]
         /\ reply \in [Client -> Reply]
         /\ \A e \in Client : e # c => pc[e] \notin XlPc
  BY DEF IInv, TypeInv, Holder, GuardStillHolds, TypeOK

(* The error answer and the plain confirmation name no domain.               *)
LEMMA RespondFinishes ==
  ASSUME IInv, NEW c \in Client, pc[c] \in XlPc, NEW r, Respond(c, r),
         writer' = NoClient, UNCHANGED <<req, nextDomid>>
  PROVE  Finish(c, r.domid)
  BY HolderFacts DEF Respond, Finish

LEMMA XlFailsStep ==
  ASSUME IInv, TypeOK', NEW c \in Client, XlFails(c)
  PROVE  IInv'
<1> USE DEF vmVars, xenVars
<1>1. Finish(c, 0)
  BY RespondFinishes DEF XlFails, XlPc, Plain
<1>2. DomidCurrent'
  BY DEF XlFails, IInv, DomidCurrent
<1>3. LossAccounted'
  <2>1. ASSUME NEW e \in Client, pc[e] = "domid" PROVE FALSE
    BY <2>1, HolderFacts DEF XlFails, XlPc
  <2>2. QED
    BY <2>1 DEF XlFails, IInv, LossAccounted, Alive
<1>4. DomainsOnlyEnd
  BY DEF XlFails, DomainsOnlyEnd
<1>5. QED
  BY <1>1, <1>2, <1>3, <1>4, FinishPlainStep

(* The domain that was created keeps running under a Halted entry: lost.      *)
LEMMA DomidFailsStep ==
  ASSUME IInv, TypeOK', NEW c \in Client, DomidFails(c)
  PROVE  IInv'
<1> USE DEF vmVars, xenVars
<1>1. Finish(c, 0)
  BY RespondFinishes DEF DomidFails, XlPc, Plain
<1>2. DomidCurrent'
  BY DEF DomidFails, IInv, DomidCurrent
<1>3. vmState[req[c].vm] = "Halted" /\ req[c].vm \in VM
  BY HolderFacts DEF DomidFails, XlPc, IInv, TypeInv, TypeOK, XlMatches, Allowed
<1>4. LossAccounted'
  <2>1. ASSUME NEW e \in Client, pc[e] = "domid" PROVE e = c
    BY <2>1, HolderFacts DEF DomidFails, XlPc
  <2>2. lost' = lost \cup {w \in {req[c].vm} : Alive(w)}
    BY DEF DomidFails, Leak
  <2>3. UNCHANGED <<vmState, dom, watch>>
    BY DEF DomidFails
  <2>4. QED
    BY <1>3, <2>1, <2>2, <2>3 DEF IInv, LossAccounted, Alive
<1>5. DomainsOnlyEnd
  BY DEF DomidFails, DomainsOnlyEnd
<1>6. QED
  BY <1>1, <1>2, <1>4, <1>5, FinishPlainStep

(* The answer to a start names the domain it created: the entry had no id     *)
(* before, and no earlier answer names this one.                             *)
LEMMA DomidDoneStep ==
  ASSUME IInv, TypeOK', NEW c \in Client, DomidDone(c)
  PROVE  IInv'
<1> DEFINE v == req[c].vm
<1> USE DEF xenVars
<1>1. /\ v \in VM /\ vmState[v] = "Halted" /\ vmDomid[v] = 0 /\ v \notin lost
      /\ pc[c] \in XlPc /\ vmDomid \in [VM -> Nat] /\ vmState \in [VM -> {"Halted", "Running"}]
      /\ nextDomid \in Nat /\ dom[v] \in Nat /\ dom[v] <= nextDomid
  <2>1. pc[c] \in XlPc
    BY DEF DomidDone, XlPc
  <2>2. v \in VM /\ Allowed(req[c].op, vmState[v]) /\ req[c].op = "start"
    BY <2>1, HolderFacts DEF DomidDone, IInv, XlMatches
  <2>3. vmState[v] = "Halted"
    BY <2>2 DEF Allowed, IInv, TypeInv, TypeOK
  <2>4. vmDomid[v] = 0
    BY <2>2, <2>3 DEF IInv, DomidCurrent
  <2>5. v \notin lost
    BY DEF DomidDone, IInv, FreshIds
  <2>6. dom[v] <= nextDomid
    BY <2>2 DEF IInv, FreshIds
  <2>7. QED
    BY <2>1, <2>2, <2>3, <2>4, <2>5, <2>6 DEF IInv, TypeInv, TypeOK
<1>2. /\ vmDomid'[v] \in {0, dom[v]}
      /\ \A w \in VM : w # v => vmDomid'[w] = vmDomid[w] /\ vmState'[w] = vmState[w]
      /\ vmState'[v] = "Running"
      /\ UNCHANGED <<dom, watch, lost>>
  BY <1>1 DEF DomidDone
<1>3. Finish(c, vmDomid'[v])
  <2>1. /\ Respond(c, Started(vmDomid'[v]))
        /\ writer' = NoClient /\ UNCHANGED <<req, nextDomid>>
    BY DEF DomidDone
  <2>2. Finish(c, Started(vmDomid'[v]).domid)
    BY <1>1, <2>1, RespondFinishes
  <2>3. QED
    BY <2>2 DEF Started
<1>4. DomidCurrent'
  BY <1>2 DEF IInv, DomidCurrent
<1>5. LossAccounted'
  <2>1. ASSUME NEW e \in Client, pc[e] = "domid" PROVE e = c
    BY <2>1, <1>1, HolderFacts DEF XlPc
  <2>2. QED
    BY <1>1, <1>2, <2>1 DEF IInv, LossAccounted, Alive
<1>6. vmDomid'[v] \in Nat /\ Unclaimed(vmDomid'[v])
  <2>1. dom[v] # 0 => \A e \in Client : reply[e].domid # dom[v]
    BY DEF DomidDone, IInv, FreshIds
  <2>2. CASE vmDomid'[v] = 0
    BY <2>2 DEF Unclaimed
  <2>3. CASE vmDomid'[v] = dom[v] /\ dom[v] # 0
    BY <1>1, <2>1, <2>3 DEF Unclaimed
  <2>4. QED
    BY <1>2, <2>2, <2>3
<1>7. DomainsOnlyEnd
  BY <1>2 DEF DomainsOnlyEnd
<1>8. \E d \in Nat : Finish(c, d) /\ Unclaimed(d)
  BY <1>3, <1>6
<1>9. QED
  BY <1>4, <1>5, <1>7, <1>8, FinishStep

LEMMA ShutdownStep ==
  ASSUME IInv, TypeOK', NEW c \in Client, ShutdownDone(c)
  PROVE  IInv'
<1> DEFINE v == req[c].vm
<1>1. pc[c] \in XlPc /\ v \in VM
  BY HolderFacts DEF ShutdownDone, XlPc
<1>2. Finish(c, 0)
  BY <1>1, RespondFinishes DEF ShutdownDone, Plain
<1>3. /\ vmState'[v] = "Halted" /\ vmDomid'[v] = 0
      /\ \A w \in VM : w # v => vmDomid'[w] = vmDomid[w] /\ vmState'[w] = vmState[w]
      /\ lost' = lost \cup {v} /\ dom[v] # 0 /\ dom' = dom /\ watch' = watch
  BY <1>1 DEF ShutdownDone, Halt, Leak, Alive, IInv, TypeInv, TypeOK
<1>4. DomidCurrent'
  BY <1>3 DEF IInv, DomidCurrent
<1>5. LossAccounted'
  <2>1. ASSUME NEW e \in Client, pc[e] = "domid" PROVE FALSE
    BY <2>1, <1>1, HolderFacts DEF ShutdownDone, XlPc
  <2>2. QED
    BY <1>1, <1>3, <2>1 DEF IInv, LossAccounted, Alive
<1>6. DomainsOnlyEnd
  BY <1>3, <1>1 DEF DomainsOnlyEnd
<1>7. QED
  BY <1>2, <1>4, <1>5, <1>6, FinishPlainStep

LEMMA DestroyStep ==
  ASSUME IInv, TypeOK', NEW c \in Client, DestroyDone(c)
  PROVE  IInv'
<1> DEFINE v == req[c].vm
<1>1. pc[c] \in XlPc /\ v \in VM
  BY HolderFacts DEF DestroyDone, XlPc
<1>2. Finish(c, 0)
  BY <1>1, RespondFinishes DEF DestroyDone, Plain
<1>3. /\ vmState'[v] = "Halted" /\ vmDomid'[v] = 0 /\ dom'[v] = 0
      /\ \A w \in VM : w # v => /\ vmDomid'[w] = vmDomid[w] /\ vmState'[w] = vmState[w]
                                /\ dom'[w] = dom[w] /\ watch'[w] = watch[w]
      /\ watch'[v] = "none"
      /\ lost' = lost \ {v}
  BY <1>1 DEF DestroyDone, Halt, IInv, TypeInv, TypeOK
<1>4. DomidCurrent'
  BY <1>3 DEF IInv, DomidCurrent
<1>5. LossAccounted'
  <2>1. ASSUME NEW e \in Client, pc[e] = "domid" PROVE FALSE
    BY <2>1, <1>1, HolderFacts DEF DestroyDone, XlPc
  <2>2. QED
    BY <1>1, <1>3, <2>1 DEF IInv, LossAccounted, Alive
<1>6. DomainsOnlyEnd
  BY <1>3 DEF DomainsOnlyEnd
<1>7. QED
  BY <1>2, <1>4, <1>5, <1>6, FinishPlainStep

(* A guest that ends takes its domain along, and nothing else.               *)
LEMMA GuestExitStep ==
  ASSUME IInv, TypeOK', NEW v \in VM, GuestExit(v) \/ GuestReboots(v)
  PROVE  IInv'
<1> USE DEF ipcVars, lockVars, vmVars
<1>1. /\ dom'[v] = 0 /\ dom[v] # 0
      /\ \/ watch'[v] = "none" /\ lost' = lost \ {v}
         \/ watch'[v] = "between" /\ lost' = lost
      /\ \A w \in VM : w # v => dom'[w] = dom[w] /\ watch'[w] = watch[w]
      /\ UNCHANGED <<pc, req, reply, writer, vmState, vmDomid, nextDomid>>
  BY DEF GuestExit, GuestReboots, IInv, TypeInv, TypeOK
<1>2. Holder' /\ XlMatches' /\ GuardStillHolds' /\ NoSharedDomain' /\ Between'
  BY <1>1 DEF IInv, TypeInv, Holder, XlMatches, GuardStillHolds, NoSharedDomain, Between
<1>3. DomidCurrent' /\ LossAccounted'
  BY <1>1 DEF IInv, DomidCurrent, LossAccounted, Alive
<1>4. FreshIds'
  <2>1. nextDomid \in Nat
    BY DEF IInv, TypeInv, TypeOK
  <2>2. \A w \in VM : dom'[w] <= nextDomid' /\ vmDomid'[w] <= nextDomid'
    BY <1>1, <2>1 DEF IInv, FreshIds
  <2>3. \A w \in VM : dom'[w] # 0 => dom'[w] = dom[w]
    BY <1>1
  <2>4. \A e \in Client : pc[e] = "domid" => req[e].vm \in VM
    BY DEF IInv, TypeInv, Holder, XlPc
  <2>5. QED
    BY <1>1, <2>2, <2>3, <2>4 DEF IInv, FreshIds
<1>5. QED
  BY <1>2, <1>3, <1>4 DEF IInv, TypeInv

(* A guest that comes back has a new id, later than those in the table and in *)
(* the answers; what was lost is lost still.                                 *)
LEMMA GuestReturnsStep ==
  ASSUME IInv, TypeOK', NEW v \in VM, GuestReturns(v)
  PROVE  IInv'
<1> USE DEF ipcVars, lockVars, vmVars
<1>1. /\ watch[v] = "between"
      /\ \A w \in VM : w # v => dom'[w] = dom[w] /\ watch'[w] = watch[w]
      /\ UNCHANGED <<pc, req, reply, writer, vmState, vmDomid>>
  BY DEF GuestReturns, IInv, TypeInv, TypeOK
<1>2. /\ nextDomid \in Nat
      /\ \A w \in VM : /\ dom[w] \in Nat /\ dom[w] <= nextDomid
                       /\ vmDomid[w] \in Nat /\ vmDomid[w] <= nextDomid
      /\ \A e \in Client : reply[e].domid \in Nat /\ reply[e].domid <= nextDomid
  BY DEF IInv, TypeInv, TypeOK, FreshIds, Reply
<1>3. Holder' /\ XlMatches' /\ GuardStillHolds' /\ NoSharedDomain'
  BY <1>1 DEF IInv, TypeInv, Holder, XlMatches, GuardStillHolds, NoSharedDomain
<1>b. Between'
  BY <1>1 DEF GuestReturns, IInv, TypeInv, TypeOK, Between
<1>4. CASE /\ nextDomid' = nextDomid + 1 /\ dom'[v] = nextDomid + 1
           /\ watch'[v] = "later" /\ lost' = lost
  <2>1. vmDomid[v] < dom'[v] /\ dom'[v] # 0
    BY <1>2, <1>4
  <2>2. DomidCurrent'
    BY <1>1, <1>4, <2>1 DEF IInv, DomidCurrent
  <2>3. LossAccounted'
    BY <1>1, <1>4, <2>1 DEF IInv, LossAccounted, Alive
  <2>4. ASSUME NEW w \in VM PROVE dom'[w] <= nextDomid' /\ vmDomid'[w] <= nextDomid'
    BY <1>1, <1>2, <1>4
  <2>5. ASSUME NEW e \in Client PROVE reply'[e].domid <= nextDomid' /\ reply'[e].domid # dom'[v]
    BY <1>1, <1>2, <1>4
  <2>6. \A e \in Client : pc[e] = "domid" => req[e].vm \in VM
    BY DEF IInv, TypeInv, Holder, XlPc
  <2>7. FreshIds'
    BY <1>1, <1>4, <2>4, <2>5, <2>6 DEF IInv, FreshIds
  <2>8. QED
    BY <1>3, <1>b, <2>2, <2>3, <2>7 DEF IInv, TypeInv
<1>5. CASE /\ nextDomid' = nextDomid /\ dom' = dom
           /\ watch'[v] = "none" /\ lost' = lost \ {v}
  <2>1. DomidCurrent'
    BY <1>1, <1>5 DEF IInv, DomidCurrent
  <2>2. dom[v] = 0
    BY <1>1 DEF IInv, Between
  <2>3. LossAccounted'
    BY <1>1, <1>5, <2>2 DEF IInv, LossAccounted, Alive
  <2>4. FreshIds'
    BY <1>1, <1>5 DEF IInv, FreshIds
  <2>5. QED
    BY <1>3, <1>b, <2>1, <2>3, <2>4 DEF IInv, TypeInv
<1>6. QED
  BY <1>4, <1>5 DEF GuestReturns, IInv, TypeInv, TypeOK

(* The process ends: no task, no guard, an empty table; every live domain is  *)
(* lost.                                                                     *)
LEMMA StopStep ==
  ASSUME IInv, TypeOK', Stop
  PROVE  IInv'
<1>1. /\ \A c \in Client : pc'[c] = "closed" /\ reply'[c].domid = 0
      /\ writer' = NoClient
      /\ \A v \in VM : vmState'[v] = "Halted" /\ vmDomid'[v] = 0
      /\ \A v \in VM : watch'[v] = "none"
      /\ UNCHANGED <<dom, nextDomid>>
      /\ lost' = {v \in VM : dom[v] # 0}
  BY DEF Stop, Plain
<1>2. nextDomid \in Nat /\ lost \in SUBSET VM
  BY DEF IInv, TypeInv, TypeOK
<1>3. Holder' /\ XlMatches' /\ GuardStillHolds' /\ NoSharedDomain' /\ DomidCurrent' /\ Between'
  BY <1>1, ClientAssumption
     DEF Holder, XlMatches, GuardStillHolds, NoSharedDomain, DomidCurrent, Between, XlPc
<1>4. LossAccounted'
  BY <1>1, <1>2 DEF IInv, LossAccounted, Alive
<1>5. FreshIds'
  BY <1>1, <1>2 DEF IInv, FreshIds
<1>6. QED
  BY <1>3, <1>4, <1>5 DEF IInv, TypeInv

LEMMA InvStep == IInv /\ [Next]_vars => IInv'
<1> SUFFICES ASSUME IInv, [Next]_vars PROVE IInv'
  OBVIOUS
<1>t. TypeOK'
  BY TypeStep DEF IInv
<1>1. ASSUME NEW c \in Client, ClientStep(c) \/ TaskStep(c) PROVE IInv'
  BY <1>1, <1>t, QuietActions, BeginXlStep, CreateStep, XlFailsStep, DomidDoneStep,
     DomidFailsStep, ShutdownStep, DestroyStep DEF ClientStep, TaskStep
<1>2. ASSUME NEW v \in VM, GuestExit(v) \/ GuestReboots(v) \/ GuestReturns(v) PROVE IInv'
  BY <1>2, <1>t, GuestExitStep, GuestReturnsStep
<1>3. CASE Stop
  BY <1>3, <1>t, StopStep
<1>4. CASE Start \/ UNCHANGED vars
  <2>1. UNCHANGED <<pc, req, reply, writer, vmState, vmDomid, dom, nextDomid, watch, lost>>
    BY <1>4 DEF Start, vars, ipcVars, lockVars, vmVars, xenVars
  <2>2. QED
    BY <1>t, <2>1 DEF IInv, TypeInv, Holder, XlMatches, GuardStillHolds, DomidCurrent,
                      LossAccounted, Alive, FreshIds, Between, NoSharedDomain
<1>5. QED
  BY <1>1, <1>2, <1>3, <1>4 DEF Next

LEMMA InitInv == Init => IInv
<1> SUFFICES ASSUME Init PROVE IInv
  OBVIOUS
<1>1. Plain("none") \in Reply /\ Plain("none").domid = 0
  BY DEF Plain, Reply, Tags
<1>2. TypeOK
  BY <1>1 DEF Init, TypeOK, Pcs
<1>3. \A c \in Client : pc[c] = "closed" /\ reply[c].domid = 0
  BY <1>1 DEF Init
<1>4. Holder
  BY <1>3, ClientAssumption DEF Init, Holder, XlPc
<1>5. QED
  BY <1>2, <1>3, <1>4 DEF Init, IInv, TypeInv, XlMatches, GuardStillHolds, DomidCurrent,
       LossAccounted, Alive, FreshIds, Between, NoSharedDomain, XlPc

LEMMA Invariance == Spec => []IInv
  BY InitInv, InvStep, PTL DEF Spec

-----------------------------------------------------------------------------
(* Every state of every run is well typed, domain ids and table included.     *)
THEOREM TypeCorrect == Spec => []TypeOK
<1>1. IInv => TypeOK
  BY DEF IInv, TypeInv
<1>2. QED
  BY <1>1, Invariance, PTL

(* However many requests overlap, two xl processes never run at once.         *)
THEOREM XlIsExclusive == Spec => []OneXlAtATime
<1>1. IInv => OneXlAtATime
  BY DEF IInv, TypeInv, Holder, OneXlAtATime
<1>2. QED
  BY <1>1, Invariance, PTL

(* The state a mutating request checked cannot change before it commits.      *)
THEOREM GuardIsStable == Spec => []GuardStillHolds
<1>1. IInv => GuardStillHolds
  BY DEF IInv
<1>2. QED
  BY <1>1, Invariance, PTL

(* The table never holds the id of a domain of an earlier life of the VM.     *)
THEOREM DomidIsCurrent == Spec => []DomidCurrent
<1>1. IInv => DomidCurrent
  BY DEF IInv
<1>2. QED
  BY <1>1, Invariance, PTL

(* Two starts are never answered with one domain.                            *)
THEOREM DomainNotShared == Spec => []NoSharedDomain
<1>1. IInv => NoSharedDomain
  BY DEF IInv
<1>2. QED
  BY <1>1, Invariance, PTL

(* The daemon loses live domains in the three listed ways only.               *)
THEOREM LossIsAccounted == Spec => []LossAccounted
<1>1. IInv => LossAccounted
  BY DEF IInv
<1>2. QED
  BY <1>1, Invariance, PTL

-----------------------------------------------------------------------------
(* The lock's queue                                                          *)

LEMMA QueueKept ==
  ASSUME WaitersQueued, IInv', queue' = queue, \A c \in Client : pc'[c] = "wait" <=> pc[c] = "wait"
  PROVE  WaitersQueued'
<1>1. \A e \in Client : pc'[e] \in XlPc <=> writer' = e
  BY DEF IInv, TypeInv, Holder
<1>2. QED
  BY <1>1 DEF WaitersQueued

LEMMA QueueJoined ==
  ASSUME WaitersQueued, TypeOK, IInv', NEW c \in Client, pc[c] # "wait",
         pc' = [pc EXCEPT ![c] = "wait"], queue' = Append(queue, c)
  PROVE  WaitersQueued'
<1>1. /\ queue \in Seq(Client) /\ Len(queue) \in Nat
      /\ \A d \in Client : pc'[d] = IF d = c THEN "wait" ELSE pc[d]
  BY LenProperties DEF TypeOK
<1>2. /\ \A i \in 1 .. Len(queue) : i \in 1 .. Len(queue') /\ queue'[i] = queue[i]
      /\ Len(queue) + 1 \in 1 .. Len(queue') /\ queue'[Len(queue) + 1] = c
      /\ \A i \in 1 .. Len(queue') : i \in 1 .. Len(queue) \/ i = Len(queue) + 1
  BY <1>1, AppendPlaces
<1>3. \A i \in 1 .. Len(queue) : queue[i] # c
  BY DEF WaitersQueued
<1>4. \A d \in Client : pc'[d] = "wait" <=> \E i \in 1 .. Len(queue') : queue'[i] = d
  BY <1>1, <1>2 DEF WaitersQueued
<1>5. \A i, j \in 1 .. Len(queue') : queue'[i] = queue'[j] => i = j
  BY <1>2, <1>3 DEF WaitersQueued
<1>6. \A e \in Client : pc'[e] \in XlPc <=> writer' = e
  BY DEF IInv, TypeInv, Holder
<1>7. QED
  BY <1>4, <1>5, <1>6 DEF WaitersQueued

LEMMA QueueLeft ==
  ASSUME WaitersQueued, TypeOK, IInv', NEW c \in Client, Granted(c),
         pc'[c] # "wait", \A d \in Client : d # c => pc'[d] = pc[d]
  PROVE  WaitersQueued'
<1>1. queue \in Seq(Client) /\ queue # <<>> /\ queue' = Tail(queue) /\ Head(queue) = c
  BY DEF TypeOK, Granted
<1>2. /\ 1 \in 1 .. Len(queue) /\ queue[1] = c
      /\ \A i \in 1 .. Len(queue') : i + 1 \in 1 .. Len(queue) /\ queue'[i] = queue[i + 1] /\ i + 1 # 1
      /\ \A i \in 1 .. Len(queue) :
           i = 1 \/ (i - 1 \in 1 .. Len(queue') /\ queue'[i - 1] = queue[i])
  BY <1>1, TailPlaces
<1>3. \A i \in 1 .. Len(queue') : queue'[i] # c
  BY <1>2 DEF WaitersQueued
<1>4. ASSUME NEW d \in Client
      PROVE  pc'[d] = "wait" <=> \E i \in 1 .. Len(queue') : queue'[i] = d
  <2>1. CASE d = c
    BY <1>3, <2>1
  <2>2. CASE d # c
    <3>1. ASSUME NEW i \in 1 .. Len(queue'), queue'[i] = d
          PROVE  \E j \in 1 .. Len(queue) : queue[j] = d
      BY <1>2, <3>1
    <3>2. ASSUME NEW i \in 1 .. Len(queue), queue[i] = d
          PROVE  \E j \in 1 .. Len(queue') : queue'[j] = d
      <4>1. i # 1
        BY <1>2, <2>2, <3>2
      <4>2. QED
        BY <1>2, <3>2, <4>1
    <3>3. QED
      BY <2>2, <3>1, <3>2 DEF WaitersQueued
  <2>3. QED
    BY <2>1, <2>2
<1>5. ASSUME NEW i \in 1 .. Len(queue'), NEW j \in 1 .. Len(queue'), queue'[i] = queue'[j]
      PROVE  i = j
  <2>1. i + 1 = j + 1
    BY <1>2, <1>5 DEF WaitersQueued
  <2>2. QED
    BY <2>1
<1>6. \A e \in Client : pc'[e] \in XlPc <=> writer' = e
  BY DEF IInv, TypeInv, Holder
<1>7. QED
  BY <1>4, <1>5, <1>6 DEF WaitersQueued

(* A step of a client or of its connection's task.                           *)
LEMMA QueueStep ==
  ASSUME WaitersQueued, IInv, IInv', NEW c \in Client, ClientStep(c) \/ TaskStep(c)
  PROVE  WaitersQueued'
<1>t. TypeOK /\ pc \in [Client -> Pcs]
  BY DEF IInv, TypeInv, TypeOK
<1> USE DEF ipcVars, lockVars, vmVars, xenVars
<1>1. CASE Recv(c)
  <2>1. CASE queue' = queue /\ pc' = [pc EXCEPT ![c] = "dispatch"]
    BY <1>1, <1>t, <2>1, QueueKept DEF Recv
  <2>2. CASE queue' = Append(queue, c) /\ pc' = [pc EXCEPT ![c] = "wait"]
    <3>1. pc[c] # "wait"
      BY <1>1 DEF Recv
    <3>2. QED
      BY <1>t, <2>2, <3>1, QueueJoined
  <2>3. QED
    BY <1>1, <2>1, <2>2 DEF Recv
<1>2. CASE Accept(c) \/ HangUp(c) \/ Send(c) \/ AnswerUnlocked(c)
  <2>1. /\ queue' = queue
        /\ \/ pc' = pc
           \/ pc[c] # "wait" /\ pc'[c] # "wait" /\ \A d \in Client : d # c => pc'[d] = pc[d]
    BY <1>2, <1>t DEF Accept, HangUp, Send, AnswerUnlocked
  <2>2. QED
    BY <2>1, QueueKept
<1>3. CASE Query(c) \/ Refuse(c) \/ BeginXl(c)
  <2>1. Granted(c)
    BY <1>3 DEF Query, Refuse, BeginXl
  <2>2. PICK p : pc' = [pc EXCEPT ![c] = p] /\ p # "wait"
    BY <1>3 DEF Query, Refuse, BeginXl, Respond, XlStep
  <2>3. pc'[c] # "wait" /\ \A d \in Client : d # c => pc'[d] = pc[d]
    BY <1>t, <2>2
  <2>4. QED
    BY <1>t, <2>1, <2>3, QueueLeft
<1>4. CASE \/ XlFails(c) \/ CreateDone(c) \/ DomidDone(c) \/ DomidFails(c)
          \/ ShutdownDone(c) \/ DestroyDone(c)
  <2>1. queue' = queue /\ pc[c] \in XlPc /\ (pc' = [pc EXCEPT ![c] = "reply"] \/ pc' = [pc EXCEPT ![c] = "domid"])
    BY <1>4 DEF XlFails, CreateDone, DomidDone, DomidFails, ShutdownDone, DestroyDone, Respond, XlPc
  <2>2. \A d \in Client : pc'[d] = "wait" <=> pc[d] = "wait"
    BY <1>t, <2>1 DEF XlPc
  <2>3. QED
    BY <2>1, <2>2, QueueKept
<1>5. QED
  BY <1>1, <1>2, <1>3, <1>4 DEF ClientStep, TaskStep

(* Nobody waits for the lock without a place in its queue, no place is left   *)
(* behind by a task that went on or died, and the write guard is never kept   *)
(* past an answer: with any number of connections the lock is granted on.    *)
THEOREM LockNeverStuck == Spec => []WaitersQueued
<1>1. Init => WaitersQueued
  BY ClientAssumption DEF Init, WaitersQueued, XlPc
<1>2. WaitersQueued /\ IInv /\ IInv' /\ [Next]_vars => WaitersQueued'
  <2> SUFFICES ASSUME WaitersQueued, IInv, IInv', [Next]_vars PROVE WaitersQueued'
    OBVIOUS
  <2>1. ASSUME NEW c \in Client, ClientStep(c) \/ TaskStep(c) PROVE WaitersQueued'
    BY <2>1, QueueStep
  <2>2. CASE (\E v \in VM : GuestExit(v) \/ GuestReboots(v) \/ GuestReturns(v)) \/ Start \/ UNCHANGED vars
    <3>1. pc' = pc /\ queue' = queue
      BY <2>2 DEF GuestExit, GuestReboots, GuestReturns, Start, vars, ipcVars, lockVars
    <3>2. QED
      BY <3>1, QueueKept
  <2>3. CASE Stop
    BY <2>3, ClientAssumption DEF Stop, WaitersQueued, XlPc
  <2>4. QED
    BY <2>1, <2>2, <2>3 DEF Next
<1>3. QED
  BY <1>1, <1>2, Invariance, PTL DEF Spec
=============================================================================
