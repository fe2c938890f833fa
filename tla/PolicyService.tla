---------------------------- MODULE PolicyService ----------------------------
(***************************************************************************)
(* What krypt-daemon's configuration promises the administrator: a daemon    *)
(* looks at its file once, serves that reading to its end or not at all, and *)
(* gives the answers the reading itself states, whatever is written over the *)
(* file meanwhile.  There are no loops, no tables and no look-ups here:       *)
(* KryptConfig.tla has them and is shown to implement this module.           *)
(***************************************************************************)
EXTENDS Integers

CONSTANTS Name,     \* VM names that occur
          Files,    \* the well-typed contents the file may have
          Valid,    \* those of them a daemon may serve
          Default,  \* the configuration of a daemon without a file
          Missing, Garbled, NoAnswer

Contents == Files \cup {Missing, Garbled}

VARIABLES file,   \* the file as it is now
          phase,  \* "down", "reading", "accepted", "serving" or "failed"
          taken,  \* the configuration this daemon took
          answer  \* the last answer of this daemon

vars == <<file, phase, taken, answer>>

(* Of a configuration: the first rule for a pair, and the trust level of a   *)
(* name, 0 for one that no block has.                                        *)
FirstRule(c, s, d, k) ==
  /\ c.policy[k].source = s /\ c.policy[k].target = d
  /\ \A l \in 1 .. (k - 1) : c.policy[l].source # s \/ c.policy[l].target # d

HasLevel(c, n, t) ==
  \/ \E k \in DOMAIN c.vms : c.vms[k].name = n /\ c.vms[k].trust = t
  \/ t = 0 /\ \A k \in DOMAIN c.vms : c.vms[k].name # n

Verdict(c, s, d, a) ==
  \/ \E k \in DOMAIN c.policy : FirstRule(c, s, d, k) /\ a = c.policy[k].action
  \/ /\ \A k \in DOMAIN c.policy : c.policy[k].source # s \/ c.policy[k].target # d
     /\ \E t, u \in 0 .. 4 :
          /\ HasLevel(c, s, t) /\ HasLevel(c, d, u)
          /\ a = IF t >= u THEN "AskUser" ELSE "Deny"

Init ==
  /\ file \in Contents
  /\ phase = "down" /\ taken = Default /\ answer = NoAnswer

Look ==
  /\ phase \in {"down", "failed"}
  /\ \/ file \in Files /\ phase' = "reading" /\ taken' = file
     \/ file = Missing /\ phase' = "accepted" /\ taken' = Default
     \/ file = Garbled /\ phase' = "failed" /\ UNCHANGED taken
  /\ UNCHANGED <<file, answer>>

Judge ==
  /\ phase = "reading"
  /\ phase' = IF taken \in Valid THEN "accepted" ELSE "failed"
  /\ UNCHANGED <<file, taken, answer>>

Serve ==
  /\ phase = "accepted"
  /\ phase' = "serving"
  /\ UNCHANGED <<file, taken, answer>>

Answer(s, d) ==
  /\ phase = "serving"
  /\ \E a \in {"Allow", "Deny", "AskUser"} :
       Verdict(taken, s, d, a) /\ answer' = [src |-> s, dst |-> d, decision |-> a]
  /\ UNCHANGED <<file, phase, taken>>

Edit == file' \in Contents /\ UNCHANGED <<phase, taken, answer>>

End ==
  /\ phase = "serving"
  /\ phase' \in {"down", "failed"} /\ answer' = NoAnswer
  /\ UNCHANGED <<file, taken>>

Next ==
  \/ Look \/ Judge \/ Serve \/ Edit \/ End
  \/ \E s, d \in Name : Answer(s, d)

Spec == Init /\ [][Next]_vars
==============================================================================
