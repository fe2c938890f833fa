----------------------------- MODULE IpcFraming -----------------------------
(***************************************************************************)
(* The framed transport of krypt-daemon (vm-daemon/src/ipc.rs): a request    *)
(* or reply is a length and a body, written with write_all and read with     *)
(* read_exact over a stream whose kernel buffers are small and give up their *)
(* bytes in pieces.  A client calls request() again and again, also after an *)
(* error, leaves when it likes and connects anew; the accept loop backs off  *)
(* while there are no descriptors.  A byte is a "cell": cells of a header    *)
(* hold the length, cells of a body the message they belong to.              *)
(***************************************************************************)
EXTENDS Integers, Sequences

CONSTANTS Call,      \* requests
          CallLen, ReplyLen, \* their bodies' length, and that of their replies
          Garbled,   \* requests whose body serde_json does not accept
          Unchecked, \* requests of clients that send without a look at MAX_FRAME (krypt-vms.py)
          MaxFrame,  \* MAX_FRAME
          HeaderLen, \* bytes of the length (4)
          Cap,       \* bytes a socket buffer holds
          MaxBackoff, \* doublings after which the accept delay stays (30 s)
          MaxCalls,  \* bound: calls in a behaviour
          None

ASSUME LengthAssumption == /\ MaxFrame \in Nat /\ HeaderLen \in Nat \ {0} /\ Cap \in Nat \ {0}
                           /\ MaxBackoff \in Nat /\ MaxCalls \in Nat
                           /\ CallLen \in [Call -> Nat \ {0}] /\ ReplyLen \in [Call -> Nat \ {0}]
ASSUME CallAssumption == Garbled \subseteq Call /\ Unchecked \subseteq Call /\ None \notin Call

VARIABLES client,  \* "away", "idle", "write", "head" or "body"
          task,    \* the connection in the daemon: "none", "backlog", "head", "body", "serve", "write", "ended"
          c2s, s2c, \* what the socket holds in each direction
          cOut, sOut, \* what write_all has yet to write
          cGot, sGot, \* what read_exact has read so far
          cLen, sLen, \* the length the last header gave
          req,     \* the request the daemon dispatches
          backoff, \* doublings of the accept loop's delay
          asked, served, results \* history, as in RpcCalls

clientVars == <<client, cOut, cGot, cLen>>
taskVars   == <<task, sOut, sGot, sLen, req, backoff>>
history    == <<asked, served, results>>
vars       == <<clientVars, taskVars, c2s, s2c, history>>

Cell  == [len : Nat, msg : Call \cup {None}]

Header(n)  == [i \in 1 .. HeaderLen |-> [len |-> n, msg |-> None]]
Body(m, n) == [i \in 1 .. n |-> [len |-> 0, msg |-> m]]

TypeOK ==
  /\ client \in {"away", "idle", "write", "head", "body"}
  /\ task \in {"none", "backlog", "head", "body", "serve", "write", "ended"}
  /\ \A q \in {c2s, s2c} : q \in Seq(Cell) /\ Len(q) <= Cap
  /\ \A q \in {cOut, sOut} : q \in Seq(Cell)
  /\ \A q \in {cGot, sGot} : q \in Seq(Cell) /\ (Len(q) <= HeaderLen \/ Len(q) <= MaxFrame)
  /\ cLen \in 0 .. MaxFrame /\ sLen \in 0 .. MaxFrame
  /\ req \in Call \cup {None} /\ backoff \in 0 .. MaxBackoff
  /\ asked \in Seq(Call) /\ Len(results) <= Len(asked) /\ Len(served) <= Len(asked)

Init ==
  /\ client = "away" /\ task = "none" /\ c2s = <<>> /\ s2c = <<>>
  /\ cOut = <<>> /\ sOut = <<>> /\ cGot = <<>> /\ sGot = <<>> /\ cLen = 0 /\ sLen = 0
  /\ req = None /\ backoff = 0
  /\ asked = <<>> /\ served = <<>> /\ results = <<>>

(* write_frame: a body that is too long is refused before a byte is written.  *)
Frame(m, n) == IF n > MaxFrame THEN <<>> ELSE Header(n) \o Body(m, n)

Message(cells) == IF cells = <<>> THEN None ELSE cells[1].msg
Whole(cells)   == cells # <<>> /\ \A i \in 1 .. Len(cells) : cells[i] = cells[1] /\ cells[i].msg # None

----------------------------------------------------------------------------
(* The client                                                                *)

Connect ==
  /\ client = "away" /\ task \in {"none", "ended"}
  /\ client' = "idle" /\ task' = "backlog"
  /\ c2s' = <<>> /\ s2c' = <<>>
  /\ UNCHANGED <<cOut, cGot, cLen, sOut, sGot, sLen, req, backoff, history>>

Result(r) == results' = Append(results, r) /\ UNCHANGED <<asked, served>>

Request(m) ==               \* request(): send ...
  /\ client = "idle" /\ Len(asked) < MaxCalls
  /\ asked' = Append(asked, m)
  /\ LET f == IF m \in Unchecked THEN Header(CallLen[m]) \o Body(m, CallLen[m]) ELSE Frame(m, CallLen[m]) IN
       IF f = <<>> THEN results' = Append(results, "error") /\ UNCHANGED <<client, cOut>>
                   ELSE client' = "write" /\ cOut' = f /\ UNCHANGED results
  /\ UNCHANGED <<cGot, cLen, taskVars, c2s, s2c, served>>

ClientWrites ==
  /\ client = "write" /\ task # "ended" /\ Len(c2s) < Cap
  /\ c2s' = Append(c2s, Head(cOut)) /\ cOut' = Tail(cOut)
  /\ client' = IF Tail(cOut) = <<>> THEN "head" ELSE "write"
  /\ cGot' = <<>>
  /\ UNCHANGED <<cLen, taskVars, s2c, history>>

ClientReads ==              \* ... then recv: a piece of the header or the body
  /\ client \in {"head", "body"} /\ s2c # <<>>
  /\ Len(cGot) < (IF client = "head" THEN HeaderLen ELSE cLen)
  /\ cGot' = Append(cGot, Head(s2c)) /\ s2c' = Tail(s2c)
  /\ UNCHANGED <<client, cOut, cLen, taskVars, c2s, history>>

ClientHasHeader ==
  /\ client = "head" /\ Len(cGot) = HeaderLen
  /\ IF cGot[1].len > MaxFrame THEN client' = "idle" /\ Result("error") /\ UNCHANGED cLen
                               ELSE client' = "body" /\ cLen' = cGot[1].len /\ UNCHANGED history
  /\ cGot' = <<>>
  /\ UNCHANGED <<cOut, taskVars, c2s, s2c>>

ClientHasReply ==
  /\ client = "body" /\ Len(cGot) = cLen
  /\ client' = "idle"
  /\ Result(IF Whole(cGot) THEN Message(cGot) ELSE "error")
  /\ cGot' = <<>>
  /\ UNCHANGED <<cOut, cLen, taskVars, c2s, s2c>>

ClientFails_TimesOut ==
  /\ client \in {"write", "head", "body"}
  /\ client' = "idle" /\ cOut' = <<>> /\ cGot' = <<>>
  /\ Result("error")
  /\ UNCHANGED <<cLen, taskVars, c2s, s2c>>

(* EPIPE while writing, the end of the stream or a reset while reading.       *)
ClientFails ==
  /\ task = "ended"
  /\ \/ client = "write"
     \/ client \in {"head", "body"} /\ s2c = <<>> /\ Len(cGot) < (IF client = "head" THEN HeaderLen ELSE cLen)
  /\ client' = "idle" /\ cOut' = <<>> /\ cGot' = <<>>
  /\ Result("error")
  /\ UNCHANGED <<cLen, taskVars, c2s, s2c>>

Leave ==                    \* it gives up (a timeout, a kill) or is done
  /\ client # "away"
  /\ client' = "away" /\ cOut' = <<>> /\ cGot' = <<>> /\ s2c' = <<>>
  /\ IF client = "idle" THEN UNCHANGED results ELSE results' = Append(results, "left")
  /\ UNCHANGED <<cLen, taskVars, c2s, asked, served>>

----------------------------------------------------------------------------
(* The daemon                                                                *)

Accept ==
  /\ task = "backlog"
  /\ task' = "head" /\ backoff' = 0 /\ sGot' = <<>>
  /\ UNCHANGED <<clientVars, sOut, sLen, req, c2s, s2c, history>>

AcceptFails_Uncapped ==
  /\ task = "backlog"
  /\ backoff' = backoff + 1
  /\ UNCHANGED <<clientVars, task, sOut, sGot, sLen, req, c2s, s2c, history>>

AcceptFails ==              \* wait, then twice as long, 30 s at most
  /\ task = "backlog"
  /\ backoff' = IF backoff < MaxBackoff THEN backoff + 1 ELSE MaxBackoff
  /\ UNCHANGED <<clientVars, task, sOut, sGot, sLen, req, c2s, s2c, history>>

TaskReads ==
  /\ task \in {"head", "body"} /\ c2s # <<>>
  /\ Len(sGot) < (IF task = "head" THEN HeaderLen ELSE sLen)
  /\ sGot' = Append(sGot, Head(c2s)) /\ c2s' = Tail(c2s)
  /\ UNCHANGED <<clientVars, task, sOut, sLen, req, backoff, s2c, history>>

End == task' = "ended" /\ sGot' = <<>> /\ sOut' = <<>> /\ req' = None /\ c2s' = <<>> /\ UNCHANGED s2c

TaskHasHeader ==
  /\ task = "head" /\ Len(sGot) = HeaderLen
  /\ IF sGot[1].len > MaxFrame
     THEN End /\ UNCHANGED sLen
     ELSE /\ task' = "body" /\ sLen' = sGot[1].len /\ sGot' = <<>>
          /\ UNCHANGED <<sOut, req, c2s, s2c>>
  /\ UNCHANGED <<clientVars, backoff, history>>

Dispatch ==                 \* recv returns; a body that is no message ends the task
  /\ task = "body" /\ Len(sGot) = sLen
  /\ IF Whole(sGot) /\ Message(sGot) \notin Garbled
     THEN /\ task' = "serve" /\ req' = Message(sGot)
          /\ served' = Append(served, [call |-> Len(asked), msg |-> Message(sGot)])
          /\ sGot' = <<>> /\ UNCHANGED <<sOut, c2s, s2c>>
     ELSE End /\ UNCHANGED served
  /\ UNCHANGED <<clientVars, sLen, backoff, asked, results>>

Reply_KeepsTask ==
  /\ task = "serve"
  /\ LET f == Frame(req, ReplyLen[req]) IN
       IF f = <<>> THEN task' = "head" /\ req' = None /\ UNCHANGED <<sOut, sGot, c2s, s2c>>
                   ELSE task' = "write" /\ sOut' = f /\ UNCHANGED <<sGot, req, c2s, s2c>>
  /\ UNCHANGED <<clientVars, sLen, backoff, history>>

Reply ==                    \* send: a reply that is too long ends the connection
  /\ task = "serve"
  /\ LET f == Frame(req, ReplyLen[req]) IN
       IF f = <<>> THEN End
                   ELSE task' = "write" /\ sOut' = f /\ UNCHANGED <<sGot, req, c2s, s2c>>
  /\ UNCHANGED <<clientVars, sLen, backoff, history>>

TaskWrites ==
  /\ task = "write" /\ client # "away" /\ Len(s2c) < Cap
  /\ s2c' = Append(s2c, Head(sOut)) /\ sOut' = Tail(sOut)
  /\ IF Tail(sOut) = <<>> THEN task' = "head" /\ req' = None ELSE UNCHANGED <<task, req>>
  /\ UNCHANGED <<clientVars, sGot, sLen, backoff, c2s, history>>

TaskFails_WriteOnly ==
  /\ client = "away" /\ task = "write"
  /\ End
  /\ UNCHANGED <<clientVars, sLen, backoff, history>>

TaskFails ==                \* the peer left: the end of the stream, or EPIPE
  /\ client = "away"
  /\ \/ task = "write"
     \/ task \in {"head", "body"} /\ c2s = <<>> /\ Len(sGot) < (IF task = "head" THEN HeaderLen ELSE sLen)
  /\ End
  /\ UNCHANGED <<clientVars, sLen, backoff, history>>

ClientStep == ClientWrites \/ ClientReads \/ ClientHasHeader \/ ClientHasReply \/ ClientFails
TaskStep   == TaskReads \/ TaskHasHeader \/ Dispatch \/ Reply \/ TaskWrites \/ TaskFails

Next == Connect \/ (\E m \in Call : Request(m)) \/ Leave \/ ClientStep
          \/ Accept \/ AcceptFails \/ TaskStep

(* Both ends run on and descriptors come free in the end; nobody need leave.  *)
Spec     == Init /\ [][Next]_vars
FairSpec == Spec /\ WF_vars(ClientStep) /\ WF_vars(TaskStep) /\ WF_vars(Accept)

----------------------------------------------------------------------------
(* Properties                                                                *)

Calls == INSTANCE RpcCalls

(* Frames never slip: whatever the pieces the bytes come in, whatever failed  *)
(* before on the same connection and whoever left, each call is dispatched at *)
(* most once, while its caller waits, and answered by its own reply alone.   *)
CallsAreOnce == Calls!Spec

ClientCan ==
  \/ client = "write" /\ (task = "ended" \/ Len(c2s) < Cap)
  \/ client \in {"head", "body"} /\ (task = "ended" \/ s2c # <<>>)
  \/ client = "head" /\ Len(cGot) = HeaderLen
  \/ client = "body" /\ Len(cGot) = cLen

TaskCan ==
  \/ task \in {"backlog", "serve"}
  \/ task \in {"head", "body"} /\ c2s # <<>>
  \/ task = "head" /\ Len(sGot) = HeaderLen
  \/ task = "body" /\ Len(sGot) = sLen
  \/ task = "write" /\ Len(s2c) < Cap

(* While a call is under way one of the two ends can go on: they never both   *)
(* wait for bytes that nobody has to write, nor both write into full buffers. *)
NoGridlock == client \in {"write", "head", "body"} => ClientCan \/ TaskCan

(* request() always returns: neither the two ends' full buffers nor a reply   *)
(* that MAX_FRAME refuses leaves the caller waiting.                         *)
CallsReturn == (client \in {"write", "head", "body"}) ~> (client \in {"idle", "away"})

(* No task outlives its client: every connection that is left is cleaned up.  *)
TasksEnd == (client = "away" /\ task # "none") ~> (task = "ended" \/ client # "away")
=============================================================================
