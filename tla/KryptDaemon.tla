----------------------------- MODULE KryptDaemon -----------------------------
(***************************************************************************)
(* krypt-daemon's VM manager behind its IPC socket (vm-daemon/src/main.rs,  *)
(* vm.rs, ipc.rs): one task per connection, all sharing the VM table under  *)
(* one tokio RwLock, and the `xl` processes a request starts while it holds *)
(* that lock.  The Xen domains live outside the daemon: they survive it,    *)
(* and a guest may end or reboot on its own.                                *)
(*                                                                         *)
(* A step of a connection task is what it runs between two awaits that      *)
(* other tasks can observe.  Reads of the table hold the read guard over no *)
(* contended await, so a query is one step; the two mutating requests hold  *)
(* the write guard across every `xl` await.                                 *)
(***************************************************************************)
EXTENDS Naturals, Sequences

CONSTANTS Client,   \* connections (an accept slot: it may be reused once closed)
          VM,       \* names in daemon.toml's [[vms]]
          Unknown,  \* a name that is not in it
          NoClient, \* nobody holds the write guard
          MaxDomid  \* bound: Xen hands out at most this many domain ids

ASSUME ClientAssumption == NoClient \notin Client
ASSUME NameAssumption   == Unknown \notin VM
ASSUME DomidAssumption  == MaxDomid \in Nat

VARIABLES up,       \* is a daemon process running?
          pc,       \* Client -> where the connection's task stands
          req,      \* Client -> the request being dispatched
          reply,    \* Client -> the response handed to conn.send
          gone,     \* clients that hung up while their request was being served
          queue,    \* tokio's FIFO of tasks waiting for the RwLock
          writer,   \* the task holding the write guard, or NoClient
          vmState,  \* VM -> Vm.state ("Paused" and "Crashed" are never assigned)
          vmDomid,  \* VM -> Vm.domain_id, 0 for None
          dom,      \* VM -> id of the live Xen domain of that name, 0 if there is none
          nextDomid,\* ids handed out so far
          watch,    \* VM -> what the process `xl create` left behind for it is doing
          lost      \* history: live domains the daemon let go of (see Leak)

ipcVars == <<pc, req, reply, gone>>
lockVars == <<queue, writer>>
vmVars   == <<vmState, vmDomid>>
xenVars  == <<dom, nextDomid, watch, lost>>
vars == <<up, pc, req, reply, gone, queue, writer, vmState, vmDomid, dom, nextDomid,
          watch, lost>>

Name     == VM \cup {Unknown}
ReadOps  == {"status", "list"}
WriteOps == {"start", "stop", "destroy"}   \* destroy is VmStopRequest with force = true
Request  == [op : {"policy", "other", "list"}, vm : {Unknown}]
              \cup [op : {"status"} \cup WriteOps, vm : Name]
NoRequest == [op |-> "none", vm |-> Unknown]

Tags     == {"none", "error", "policy", "status", "list", "started", "stopped"}
Reply    == [tag : Tags, running : SUBSET VM, domid : Nat]
Plain(t) == [tag |-> t, running |-> {}, domid |-> 0]
Started(d) == [tag |-> "started", running |-> {}, domid |-> d]
Shown(t, S) == [tag |-> t, running |-> {v \in S : vmState[v] = "Running"}, domid |-> 0]

(* An xl process is running, and the task that awaits it holds the guard.   *)
XlPc == {"create", "domid", "shutdown", "destroy"}
Pcs  == {"closed", "idle", "dispatch", "wait", "reply"} \cup XlPc

TypeOK ==
  /\ up \in BOOLEAN
  /\ pc \in [Client -> Pcs]
  /\ req \in [Client -> Request \cup {NoRequest}]
  /\ reply \in [Client -> Reply]
  /\ gone \in SUBSET Client
  /\ queue \in Seq(Client)
  /\ writer \in Client \cup {NoClient}
  /\ vmState \in [VM -> {"Halted", "Running"}]
  /\ vmDomid \in [VM -> Nat]
  /\ dom \in [VM -> Nat]
  /\ nextDomid \in Nat
  /\ watch \in [VM -> {"none", "first", "between", "later"}]
  /\ lost \in SUBSET VM

Init ==
  /\ up = TRUE
  /\ pc = [c \in Client |-> "closed"]
  /\ req = [c \in Client |-> NoRequest]
  /\ reply = [c \in Client |-> Plain("none")]
  /\ gone = {}
  /\ queue = <<>>
  /\ writer = NoClient
  /\ vmState = [v \in VM |-> "Halted"]
  /\ vmDomid = [v \in VM |-> 0]
  /\ dom = [v \in VM |-> 0]
  /\ nextDomid = 0
  /\ watch = [v \in VM |-> "none"]
  /\ lost = {}

-----------------------------------------------------------------------------
(* An operator named X_Y is a variant of X with the fault named by Y.  No     *)
(* specification uses it: substituted for X it makes one property fail, which *)
(* shows that the property watches that part of the code.                    *)
-----------------------------------------------------------------------------
(* Connections                                                              *)

Accept(c) ==
  /\ up /\ pc[c] = "closed"
  /\ pc' = [pc EXCEPT ![c] = "idle"]
  /\ UNCHANGED <<up, req, reply, gone, lockVars, vmVars, xenVars>>

(* conn.recv yields a request.  Those that need the VM table join the       *)
(* lock's queue at once; the others go straight to their match arm.         *)
Recv(c) ==
  /\ pc[c] = "idle"
  /\ \E r \in Request :
       /\ req' = [req EXCEPT ![c] = r]
       /\ IF r.op \in ReadOps \cup WriteOps
            THEN /\ pc' = [pc EXCEPT ![c] = "wait"]
                 /\ queue' = Append(queue, c)
            ELSE /\ pc' = [pc EXCEPT ![c] = "dispatch"]
                 /\ UNCHANGED queue
  /\ UNCHANGED <<up, reply, gone, writer, vmVars, xenVars>>

(* The client closes, or recv fails on a malformed frame: the task ends.     *)
(* While a request is being served nobody reads the socket, so a client that *)
(* gave up is only noticed when the response cannot be sent.                 *)
HangUp(c) ==
  /\ \/ /\ pc[c] = "idle"
        /\ pc' = [pc EXCEPT ![c] = "closed"]
        /\ UNCHANGED gone
     \/ /\ pc[c] \notin {"closed", "idle"} /\ c \notin gone
        /\ gone' = gone \cup {c}
        /\ UNCHANGED pc
  /\ UNCHANGED <<up, req, reply, lockVars, vmVars, xenVars>>

(* conn.send: an error ends the task.  A VM list can exceed MAX_FRAME, and so *)
(* can an answer that echoes the names its request held.                     *)
Send(c) ==
  /\ pc[c] = "reply"
  /\ \/ c \notin gone /\ pc' = [pc EXCEPT ![c] = "idle"]
     \/ (c \in gone \/ reply[c].tag \in {"list", "policy", "error"}) /\ pc' = [pc EXCEPT ![c] = "closed"]
  /\ req' = [req EXCEPT ![c] = NoRequest]
  /\ reply' = [reply EXCEPT ![c] = Plain("none")]
  /\ gone' = gone \ {c}
  /\ UNCHANGED <<up, lockVars, vmVars, xenVars>>

(* PolicyCheck reads a table nobody writes after start-up; a message of a    *)
(* response type is refused.                                                 *)
AnswerUnlocked(c) ==
  /\ pc[c] = "dispatch"
  /\ pc' = [pc EXCEPT ![c] = "reply"]
  /\ reply' = [reply EXCEPT ![c] = Plain(IF req[c].op = "policy" THEN "policy" ELSE "error")]
  /\ UNCHANGED <<up, req, gone, lockVars, vmVars, xenVars>>

-----------------------------------------------------------------------------
(* Requests under the lock                                                  *)

(* Variant: the head of the queue does not wait for the writer.              *)
Granted_NoWait(c) ==
  /\ pc[c] = "wait"
  /\ queue # <<>> /\ Head(queue) = c
  /\ queue' = Tail(queue)

(* c is at the head of the lock's queue and no writer holds it.             *)
Granted(c) ==
  /\ pc[c] = "wait"
  /\ queue # <<>> /\ Head(queue) = c
  /\ writer = NoClient
  /\ queue' = Tail(queue)

Respond(c, r) ==
  /\ pc' = [pc EXCEPT ![c] = "reply"]
  /\ reply' = [reply EXCEPT ![c] = r]

(* VmStatusQuery, ListVmsQuery                                              *)
Query(c) ==
  /\ req[c].op \in ReadOps
  /\ Granted(c)
  /\ IF req[c].op = "list" THEN Respond(c, Shown("list", VM))
     ELSE IF req[c].vm \in VM THEN Respond(c, Shown("status", {req[c].vm}))
     ELSE Respond(c, Plain("error"))
  /\ UNCHANGED <<up, req, gone, writer, vmVars, xenVars>>

(* The part of a mutating request before its first xl process: unknown name, *)
(* the state guards, and (for start) a configuration file that cannot be     *)
(* written all answer at once and drop the guard.                            *)
Refuse(c) ==
  LET v == req[c].vm IN
  /\ req[c].op \in WriteOps
  /\ Granted(c)
  /\ \/ /\ \/ v \notin VM
           \/ req[c].op = "start"
           \/ v \in VM /\ req[c].op = "stop" /\ vmState[v] # "Running"
        /\ Respond(c, Plain("error"))
     \/ /\ v \in VM /\ req[c].op = "destroy" /\ vmState[v] = "Halted"
        /\ Respond(c, Plain("stopped"))
  /\ UNCHANGED <<up, req, gone, writer, vmVars, xenVars>>

XlStep(op) == IF op = "start" THEN "create" ELSE IF op = "stop" THEN "shutdown" ELSE "destroy"

(* The state guards of start, shutdown and destroy.                         *)
Allowed(op, s) == IF op = "start" THEN s # "Running"
                  ELSE IF op = "stop" THEN s = "Running"
                  ELSE s # "Halted"

(* Variant: start and stop do not look at the state first.                   *)
BeginXl_Unchecked(c) ==
  /\ req[c].op \in WriteOps /\ req[c].vm \in VM
  /\ Granted(c)
  /\ writer' = c
  /\ pc' = [pc EXCEPT ![c] = XlStep(req[c].op)]
  /\ UNCHANGED <<up, req, reply, gone, vmVars, xenVars>>

BeginXl(c) ==
  /\ req[c].op \in WriteOps /\ req[c].vm \in VM
  /\ Granted(c)
  /\ Allowed(req[c].op, vmState[req[c].vm])
  /\ writer' = c
  /\ pc' = [pc EXCEPT ![c] = XlStep(req[c].op)]
  /\ UNCHANGED <<up, req, reply, gone, vmVars, xenVars>>

(* Variant: an early return that keeps the guard.                            *)
XlFails_KeepsGuard(c) ==
  /\ pc[c] \in {"create", "shutdown", "destroy"}
  /\ Respond(c, Plain("error"))
  /\ UNCHANGED <<up, req, gone, lockVars, vmVars, xenVars>>

(* Variant: the state is written before the exit status is looked at.         *)
XlFails_AlreadyHalted(c) ==
  /\ pc[c] \in {"create", "shutdown", "destroy"}
  /\ Respond(c, Plain("error"))
  /\ writer' = NoClient
  /\ vmState' = [vmState EXCEPT ![req[c].vm] = "Halted"]
  /\ vmDomid' = [vmDomid EXCEPT ![req[c].vm] = 0]
  /\ UNCHANGED <<up, req, gone, queue, xenVars>>

(* An xl process could not be spawned or exited non-zero: the error is       *)
(* returned, the table is as it was.  `xl create` refuses a name in use.     *)
XlFails(c) ==
  /\ pc[c] \in {"create", "shutdown", "destroy"}
  /\ Respond(c, Plain("error"))
  /\ writer' = NoClient
  /\ UNCHANGED <<up, req, gone, queue, vmVars, xenVars>>

(* Variant: a refused name counts as created.                                *)
CreateDone_StatusIgnored(c) ==
  LET v == req[c].vm IN
  /\ pc[c] = "create"
  /\ IF dom[v] = 0
       THEN /\ nextDomid < MaxDomid
            /\ nextDomid' = nextDomid + 1
            /\ dom' = [dom EXCEPT ![v] = nextDomid + 1]
       ELSE UNCHANGED <<dom, nextDomid>>
  /\ watch' = [watch EXCEPT ![v] = "first"]
  /\ pc' = [pc EXCEPT ![c] = "domid"]
  /\ lost' = lost \ {v}
  /\ UNCHANGED <<up, req, reply, gone, lockVars, vmVars>>

(* The domain exists.  No on_reboot is configured, so `xl create` leaves a   *)
(* process behind that waits for the domain's end and restarts a guest that  *)
(* reboots.  A guest of that name that was about to come back does so no     *)
(* more: the name is in use.                                                 *)
CreateDone(c) ==
  LET v == req[c].vm IN
  /\ pc[c] = "create"
  /\ dom[v] = 0 /\ nextDomid < MaxDomid
  /\ nextDomid' = nextDomid + 1
  /\ dom' = [dom EXCEPT ![v] = nextDomid + 1]
  /\ watch' = [watch EXCEPT ![v] = "first"]
  /\ pc' = [pc EXCEPT ![c] = "domid"]
  /\ lost' = lost \ {v}
  /\ UNCHANGED <<up, req, reply, gone, lockVars, vmVars>>

(* Variant: a domain whose id is unknown is taken to be paused.              *)
DomidDone_Paused(c) ==
  LET v == req[c].vm IN
  /\ pc[c] = "domid"
  /\ vmState' = [vmState EXCEPT ![v] = IF dom[v] = 0 THEN "Paused" ELSE "Running"]
  /\ vmDomid' = [vmDomid EXCEPT ![v] = dom[v]]
  /\ Respond(c, Started(dom[v]))
  /\ writer' = NoClient
  /\ UNCHANGED <<up, req, gone, queue, xenVars>>

(* `xl domid` ran: its answer, when it has one, becomes domain_id; the state *)
(* becomes Running either way.                                               *)
DomidDone(c) ==
  LET v == req[c].vm IN
  /\ pc[c] = "domid"
  /\ \E found \in BOOLEAN :
       /\ found => dom[v] # 0
       /\ vmDomid' = IF found THEN [vmDomid EXCEPT ![v] = dom[v]] ELSE vmDomid
  /\ vmState' = [vmState EXCEPT ![v] = "Running"]
  /\ Respond(c, Started(vmDomid'[v]))
  /\ writer' = NoClient
  /\ UNCHANGED <<up, req, gone, queue, xenVars>>

(* The guest of that name lives, or is about to come back.                   *)
Alive(v) == dom[v] # 0 \/ watch[v] = "between"

(* The guests of S the daemon stops accounting for.                          *)
Leak(S) == lost' = lost \cup {v \in S : Alive(v)}

(* `xl domid` could not be spawned: start returns the error through `?`,     *)
(* with the domain already created and the table unchanged.                  *)
DomidFails(c) ==
  /\ pc[c] = "domid"
  /\ Respond(c, Plain("error"))
  /\ writer' = NoClient
  /\ Leak({req[c].vm})
  /\ UNCHANGED <<up, req, gone, queue, vmVars, dom, nextDomid, watch>>

(* Variant: domain_id is not reset.                                          *)
Halt_KeepsId(v) ==
  /\ vmState' = [vmState EXCEPT ![v] = "Halted"]
  /\ UNCHANGED vmDomid

Halt(v) ==
  /\ vmState' = [vmState EXCEPT ![v] = "Halted"]
  /\ vmDomid' = [vmDomid EXCEPT ![v] = 0]

(* `xl shutdown` exited zero: the guest was asked to stop and may, later.    *)
ShutdownDone(c) ==
  LET v == req[c].vm IN
  /\ pc[c] = "shutdown"
  /\ dom[v] # 0
  /\ Halt(v)
  /\ Respond(c, Plain("stopped"))
  /\ writer' = NoClient
  /\ Leak({v})
  /\ UNCHANGED <<up, req, gone, queue, dom, nextDomid, watch>>

DestroyDone(c) ==
  LET v == req[c].vm IN
  /\ pc[c] = "destroy"
  /\ dom[v] # 0
  /\ dom' = [dom EXCEPT ![v] = 0]
  /\ watch' = [watch EXCEPT ![v] = "none"]
  /\ lost' = lost \ {v}
  /\ Halt(v)
  /\ Respond(c, Plain("stopped"))
  /\ writer' = NoClient
  /\ UNCHANGED <<up, req, gone, queue, nextDomid>>

-----------------------------------------------------------------------------
(* Outside the connection tasks                                             *)

(* A guest powers off, finishes a requested shutdown, crashes or is destroyed *)
(* by somebody else, and its domain disappears.                              *)
GuestExit(v) ==
  /\ dom[v] # 0
  /\ dom' = [dom EXCEPT ![v] = 0]
  /\ watch' = [watch EXCEPT ![v] = "none"]
  /\ lost' = lost \ {v}
  /\ UNCHANGED <<up, ipcVars, lockVars, vmVars, nextDomid>>

(* A guest reboots: xl's waiting process destroys the domain and is about to  *)
(* create another one of that name.                                          *)
GuestReboots(v) ==
  /\ dom[v] # 0 /\ watch[v] \in {"first", "later"}
  /\ dom' = [dom EXCEPT ![v] = 0]
  /\ watch' = [watch EXCEPT ![v] = "between"]
  /\ UNCHANGED <<up, ipcVars, lockVars, vmVars, nextDomid, lost>>

(* It has done so: the guest lives under its name and an id of its own, of   *)
(* which the daemon hears nothing.  Or it could not, and the guest is gone.   *)
GuestReturns(v) ==
  /\ watch[v] = "between"
  /\ \/ /\ nextDomid < MaxDomid
        /\ nextDomid' = nextDomid + 1
        /\ dom' = [dom EXCEPT ![v] = nextDomid + 1]
        /\ watch' = [watch EXCEPT ![v] = "later"]
        /\ UNCHANGED lost
     \/ /\ watch' = [watch EXCEPT ![v] = "none"]
        /\ lost' = lost \ {v}
        /\ UNCHANGED <<dom, nextDomid>>
  /\ UNCHANGED <<up, ipcVars, lockVars, vmVars>>

(* SIGTERM, SIGINT, a closed USB channel or a crash: the process ends at any *)
(* await, and every task, guard, connection and table with it.  systemd kills *)
(* what else is in its control group, xl's waiting processes included: the   *)
(* domains live on, but none is restarted any more.                          *)
Stop ==
  /\ up
  /\ up' = FALSE
  /\ pc' = [c \in Client |-> "closed"]
  /\ req' = [c \in Client |-> NoRequest]
  /\ reply' = [c \in Client |-> Plain("none")]
  /\ gone' = {}
  /\ queue' = <<>>
  /\ writer' = NoClient
  /\ vmState' = [v \in VM |-> "Halted"]
  /\ vmDomid' = [v \in VM |-> 0]
  /\ watch' = [v \in VM |-> "none"]
  /\ lost' = {v \in VM : dom[v] # 0}
  /\ UNCHANGED <<dom, nextDomid>>

(* systemd (or the administrator) starts it again: main registers every VM   *)
(* afresh, Halted and without a domain id.                                   *)
Start ==
  /\ ~up
  /\ up' = TRUE
  /\ UNCHANGED <<ipcVars, lockVars, vmVars, xenVars>>

ClientStep(c) == Accept(c) \/ Recv(c) \/ HangUp(c)

TaskStep(c) ==
  \/ Send(c) \/ AnswerUnlocked(c)
  \/ Query(c) \/ Refuse(c) \/ BeginXl(c)
  \/ XlFails(c) \/ CreateDone(c) \/ DomidDone(c) \/ DomidFails(c)
  \/ ShutdownDone(c) \/ DestroyDone(c)

Next ==
  \/ \E c \in Client : ClientStep(c) \/ TaskStep(c)
  \/ \E v \in VM : GuestExit(v) \/ GuestReboots(v) \/ GuestReturns(v)
  \/ Stop \/ Start

Spec == Init /\ [][Next]_vars

(* tokio runs a runnable task and the lock's queue is fair, so each task     *)
(* that can go on does; every xl process is taken to exit.  Clients, guests  *)
(* and whoever stops the daemon owe nothing.                                 *)
FairSpec == Spec /\ \A c \in Client : WF_vars(TaskStep(c))

-----------------------------------------------------------------------------
(* Properties                                                               *)

(* At most one connection task has an xl process running: the write guard    *)
(* of main.rs is held over every await of vm.start, shutdown and destroy, so *)
(* two requests never interleave their xl calls.                             *)
OneXlAtATime ==
  \A c, d \in Client : pc[c] \in XlPc /\ pc[d] \in XlPc => c = d

(* The lock is never stuck: whoever waits for it has one place in its queue,  *)
(* every place is that of a task that still waits, also when its client hung  *)
(* up meanwhile, and the write guard is held by the one task that is inside   *)
(* an xl call, and by nobody else.                                          *)
WaitersQueued ==
  /\ \A c \in Client : pc[c] = "wait" <=> \E i \in 1 .. Len(queue) : queue[i] = c
  /\ \A i, j \in 1 .. Len(queue) : queue[i] = queue[j] => i = j
  /\ \A c \in Client : pc[c] \in XlPc <=> writer = c

(* Check-then-act across awaits: whatever start, shutdown or destroy found   *)
(* in the state field before its first await still holds when its xl process *)
(* returns and the field is overwritten.                                     *)
GuardStillHolds ==
  \A c \in Client : pc[c] \in XlPc => Allowed(req[c].op, vmState[req[c].vm])

(* A domain id in the table belongs to a VM held to be Running, and it is     *)
(* the id of the live domain of that name, unless the guest rebooted since    *)
(* the start that looked the id up; it is then an older one.  Nothing the     *)
(* daemon does itself leaves an id of an earlier life of the VM behind.  That *)
(* it names the Xen domain at all times, as vm.rs:62 reads, is not so.        *)
DomidCurrent ==
  \A v \in VM : vmDomid[v] # 0 =>
    /\ vmState[v] = "Running"
    /\ \/ dom[v] \in {0, vmDomid[v]}
       \/ watch[v] = "later" /\ vmDomid[v] < dom[v]

(* Two start requests are never both answered with the same domain, however  *)
(* they overlap (two clicks in the launcher).                                *)
NoSharedDomain ==
  \A c, d \in Client :
    reply[c].domid # 0 /\ reply[c].domid = reply[d].domid => c = d

(* The daemon loses sight of a live guest only by a graceful shutdown that   *)
(* the guest has not finished, by restarting, or by failing to spawn `xl     *)
(* domid`; and it never gets a lost one back, its VM stays Halted until the  *)
(* guest ends by itself, through however many reboots.                       *)
LossAccounted ==
  \A v \in VM :
    /\ Alive(v) /\ vmState[v] = "Halted" =>
         \/ v \in lost
         \/ \E c \in Client : pc[c] = "domid" /\ req[c].vm = v
    /\ v \in lost => Alive(v) /\ vmState[v] = "Halted"

(* ipc.rs: "force=true -> xl destroy"; vm.rs: "Halted -> kein xl-Aufruf       *)
(* noetig".  A forced stop that is answered with VmStopResponse leaves no     *)
(* domain of that name behind.                                               *)
ForceStopKills ==
  [][\A c \in Client :
       req[c].op = "destroy" /\ pc[c] # "reply" /\ reply'[c].tag = "stopped"
         => dom'[req[c].vm] = 0]_vars

Serving(c) == pc[c] \notin {"closed", "idle"}

(* Every request that was received is answered, or its connection ends: the   *)
(* lock is released on every path and granted in order.                      *)
EveryRequestAnswered == \A c \in Client : Serving(c) ~> ~Serving(c)

-----------------------------------------------------------------------------
(* The multi-step, locked implementation implements the atomic service.     *)

Phase(p) == CASE p = "closed" -> "closed"
              [] p = "idle"   -> "ready"
              [] p = "reply"  -> "answered"
              [] OTHER        -> "pending"

Service == INSTANCE VmService WITH
  table  <- vmState,
  phase  <- [c \in Client |-> Phase(pc[c])],
  call   <- req,
  answer <- [c \in Client |-> [tag |-> reply[c].tag, running |-> reply[c].running]]

(* Requests on the VM table are atomic as seen through their answers: each    *)
(* takes effect in one step between its arrival and its answer, although its  *)
(* guard, its xl calls and its commit are separated by awaits.               *)
AtomicService == Service!Spec
==============================================================================
