------------------------------ MODULE VmService ------------------------------
(***************************************************************************)
(* What krypt-daemon's IPC endpoint promises about the VM table: every      *)
(* request that is answered takes effect on the table in one indivisible    *)
(* step between its arrival and its answer, and the answer tells what that  *)
(* step saw or did.  There is no lock, no xl process and no domain here:     *)
(* KryptDaemon.tla has them and is shown to implement this module.           *)
(***************************************************************************)
CONSTANTS Client,   \* connections to /run/krypt/ipc.sock
          VM,       \* names of the registered VMs
          Unknown   \* a name that is not registered

VARIABLES table,    \* VM -> "Halted" or "Running": the state the daemon reports
          phase,    \* Client -> where its current request stands
          call,     \* Client -> the request being served
          answer    \* Client -> the answer being returned

vars == <<table, phase, call, answer>>

Name    == VM \cup {Unknown}
Request == [op : {"policy", "other", "list"}, vm : {Unknown}]
             \cup [op : {"status", "start", "stop", "destroy"}, vm : Name]

NoRequest == [op |-> "none", vm |-> Unknown]
Answer    == [tag : {"none", "error", "policy", "status", "list", "started", "stopped"},
              running : SUBSET VM]

Say(t)     == [tag |-> t, running |-> {}]
Show(t, S) == [tag |-> t, running |-> {v \in S : table[v] = "Running"}]

Init ==
  /\ table  = [v \in VM |-> "Halted"]
  /\ phase  = [c \in Client |-> "closed"]
  /\ call   = [c \in Client |-> NoRequest]
  /\ answer = [c \in Client |-> Say("none")]

Open(c) ==
  /\ phase[c] = "closed"
  /\ phase' = [phase EXCEPT ![c] = "ready"]
  /\ UNCHANGED <<table, call, answer>>

Invoke(c) ==
  /\ phase[c] = "ready"
  /\ phase' = [phase EXCEPT ![c] = "pending"]
  /\ \E r \in Request : call' = [call EXCEPT ![c] = r]
  /\ UNCHANGED <<table, answer>>

(* The single step at which the request takes effect.                       *)
Effect(c) ==
  /\ phase[c] = "pending"
  /\ phase' = [phase EXCEPT ![c] = "answered"]
  /\ LET v        == call[c].vm
         Reply(a) == answer' = [answer EXCEPT ![c] = a]
         Set(s)   == table' = [table EXCEPT ![v] = s]
     IN \/ call[c].op = "policy" /\ Reply(Say("policy")) /\ UNCHANGED table
        \/ call[c].op = "list" /\ Reply(Show("list", VM)) /\ UNCHANGED table
        \/ call[c].op = "status" /\ v \in VM /\ Reply(Show("status", {v})) /\ UNCHANGED table
        \/ /\ call[c].op \in {"other", "status", "start", "stop", "destroy"}
           /\ v \in VM => \/ call[c].op \in {"start", "stop"}
                          \/ call[c].op = "destroy" /\ table[v] # "Halted"
           /\ Reply(Say("error"))
           /\ UNCHANGED table
        \/ /\ call[c].op = "start" /\ v \in VM /\ table[v] # "Running"
           /\ Reply(Say("started")) /\ Set("Running")
        \/ /\ call[c].op = "stop" /\ v \in VM /\ table[v] = "Running"
           /\ Reply(Say("stopped")) /\ Set("Halted")
        \/ /\ call[c].op = "destroy" /\ v \in VM
           /\ Reply(Say("stopped")) /\ Set("Halted")
  /\ UNCHANGED call

Return(c) ==
  /\ phase[c] = "answered"
  /\ phase'  \in {[phase EXCEPT ![c] = "ready"], [phase EXCEPT ![c] = "closed"]}
  /\ call'   = [call EXCEPT ![c] = NoRequest]
  /\ answer' = [answer EXCEPT ![c] = Say("none")]
  /\ UNCHANGED table

Drop(c) ==
  /\ phase[c] = "ready"
  /\ phase' = [phase EXCEPT ![c] = "closed"]
  /\ UNCHANGED <<table, call, answer>>

(* The daemon ends: connections and table are gone; the next one starts     *)
(* from the registered VMs, all Halted.                                     *)
Reset ==
  /\ table'  = [v \in VM |-> "Halted"]
  /\ phase'  = [c \in Client |-> "closed"]
  /\ call'   = [c \in Client |-> NoRequest]
  /\ answer' = [c \in Client |-> Say("none")]

Next ==
  \/ \E c \in Client : Open(c) \/ Invoke(c) \/ Effect(c) \/ Return(c) \/ Drop(c)
  \/ Reset

Spec == Init /\ [][Next]_vars
==============================================================================
