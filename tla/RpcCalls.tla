------------------------------ MODULE RpcCalls ------------------------------
(***************************************************************************)
(* What a connection to /run/krypt/ipc.sock promises its client: one call at *)
(* a time, each dispatched by the daemon at most once and only while the     *)
(* caller waits or after it left, and answered by its own reply alone.  There*)
(* are no frames here; IpcFraming has them and implements this module.       *)
(***************************************************************************)
EXTENDS Naturals, Sequences

CONSTANTS Call     \* what can be asked

VARIABLES asked,   \* the calls so far, in order
          served,  \* those the daemon dispatched
          results  \* per finished call: whose reply it got, "error", or "left"

vars == <<asked, served, results>>

Init == asked = <<>> /\ served = <<>> /\ results = <<>>

Waiting == Len(asked) = Len(results) + 1

Ask(m) ==
  /\ ~Waiting
  /\ asked' = Append(asked, m)
  /\ UNCHANGED <<served, results>>

Refuse(m) ==     \* too long: it never leaves the client
  /\ ~Waiting
  /\ asked' = Append(asked, m) /\ results' = Append(results, "error")
  /\ UNCHANGED served

(* A call that failed before it was dispatched never is; of one whose caller  *)
(* just left, the request may still be on its way.                           *)
Serve ==
  /\ Waiting \/ (asked # <<>> /\ results[Len(results)] = "left")
  /\ served' = Append(served, [call |-> Len(asked), msg |-> asked[Len(asked)]])
  /\ \A i \in 1 .. Len(served) : served[i].call # Len(asked)
  /\ UNCHANGED <<asked, results>>

Return ==
  /\ Waiting
  /\ \E i \in 1 .. Len(served) : served[i].call = Len(asked)
  /\ results' = Append(results, asked[Len(asked)])
  /\ UNCHANGED <<asked, served>>

Fail ==
  /\ Waiting
  /\ \E r \in {"error", "left"} : results' = Append(results, r)
  /\ UNCHANGED <<asked, served>>

Next == (\E m \in Call : Ask(m) \/ Refuse(m)) \/ Serve \/ Return \/ Fail

Spec == Init /\ [][Next]_vars
=============================================================================
