------------------------------ MODULE StickGuard ------------------------------
(***************************************************************************)
(* What the kill switch promises its user, without devices, tasks, channels  *)
(* and processes: a pull that is noticed raises one alarm; the alarm deals   *)
(* with every guest it listed before it does to the system the one thing its *)
(* level names; one alarm is over before the next begins.  Alarms may be     *)
(* lost, start over, fail or be cut short, but only like this.               *)
(* KillSwitch.tla is shown to implement this module.                         *)
(***************************************************************************)
EXTENDS Naturals

CONSTANTS VM,     \* the guests
          Levels  \* what an alarm may do: "lock", "suspend" or "nuke"

VARIABLES armed,   \* is the daemon running?
          level,   \* what its alarms do
          pending, \* pulls noticed that raised no alarm yet
          stage,   \* of the alarm: "calm", "raised", or "listed"
          owed,    \* guests it listed and has not dealt with yet
          dom,     \* VM -> "absent", "running" or "paused"
          sys,     \* "on", "asleep" or "off"
          asked,   \* a suspend was asked for that has not happened yet
          locked   \* was the user's session locked?

vars == <<armed, level, pending, stage, owed, dom, sys, asked, locked>>

Live == {v \in VM : dom[v] # "absent"}

Init ==
  /\ armed = TRUE /\ level \in Levels
  /\ pending = 0 /\ stage = "calm" /\ owed = {}
  /\ dom \in [VM -> {"absent", "running"}]
  /\ sys = "on" /\ asked = FALSE /\ locked = FALSE

Notice ==
  /\ armed /\ sys # "off"
  /\ pending' = pending + 1
  /\ UNCHANGED <<armed, level, stage, owed, dom, sys, asked, locked>>

Lose ==
  /\ armed /\ sys = "on"
  /\ pending' \in 0 .. pending
  /\ UNCHANGED <<armed, level, stage, owed, dom, sys, asked, locked>>

Raise ==
  /\ armed /\ sys = "on" /\ stage = "calm"
  /\ pending > 0 /\ pending' = pending - 1
  /\ stage' = "raised"
  /\ UNCHANGED <<armed, level, owed, dom, sys, asked, locked>>

(* A listing that fails names nobody.                                       *)
List ==
  /\ sys = "on" /\ stage = "raised" /\ level # "lock"
  /\ owed' \in {Live, {}}
  /\ stage' = "listed"
  /\ UNCHANGED <<armed, level, pending, dom, sys, asked, locked>>

Deal(v) ==
  /\ sys = "on" /\ v \in owed
  /\ owed' = owed \ {v}
  /\ \/ UNCHANGED dom
     \/ v \in Live /\ dom' = [dom EXCEPT ![v] = "paused"]
     \/ v \in Live /\ level = "nuke" /\ dom' = [dom EXCEPT ![v] = "absent"]
  /\ UNCHANGED <<armed, level, pending, stage, sys, asked, locked>>

(* The alarm starts over, with a listing of its own.                        *)
Falter ==
  /\ sys = "on" /\ stage = "listed"
  /\ stage' = "raised" /\ owed' = {}
  /\ UNCHANGED <<armed, level, pending, dom, sys, asked, locked>>

Prepared ==
  /\ sys = "on"
  /\ IF level = "lock" THEN stage = "raised" ELSE stage = "listed" /\ owed = {}

Act ==
  /\ Prepared
  /\ \/ level = "lock" /\ locked' = TRUE /\ UNCHANGED <<sys, asked>>
     \/ level = "suspend" /\ sys' = "asleep" /\ UNCHANGED <<asked, locked>>
     \/ level = "suspend" /\ asked' = TRUE /\ UNCHANGED <<sys, locked>>
     \/ level = "nuke" /\ sys' = "off" /\ UNCHANGED <<asked, locked>>
  /\ stage' = "calm"
  /\ UNCHANGED <<armed, level, pending, owed, dom>>

GiveUp ==
  /\ Prepared /\ stage' = "calm"
  /\ UNCHANGED <<armed, level, pending, owed, dom, sys, asked, locked>>

End ==
  /\ armed /\ sys = "on"
  /\ armed' = FALSE /\ pending' = 0 /\ stage' = "calm" /\ owed' = {}
  /\ UNCHANGED <<level, dom, sys, asked, locked>>

Start ==
  /\ ~armed /\ sys = "on"
  /\ armed' = TRUE /\ level' \in Levels
  /\ UNCHANGED <<pending, stage, owed, dom, sys, asked, locked>>

GuestStarts(v) ==
  /\ armed /\ sys = "on" /\ dom[v] = "absent"
  /\ dom' = [dom EXCEPT ![v] = "running"]
  /\ UNCHANGED <<armed, level, pending, stage, owed, sys, asked, locked>>

GuestEnds(v) ==
  /\ sys = "on" /\ v \in Live
  /\ dom' = [dom EXCEPT ![v] = "absent"]
  /\ UNCHANGED <<armed, level, pending, stage, owed, sys, asked, locked>>

(* The suspend that was asked for takes place, or it fails.                  *)
Sleep ==
  /\ sys = "on" /\ asked
  /\ sys' \in {"asleep", "on"} /\ asked' = FALSE
  /\ UNCHANGED <<armed, level, pending, stage, owed, dom, locked>>

Wake ==
  /\ sys = "asleep" /\ sys' = "on"
  /\ UNCHANGED <<armed, level, pending, stage, owed, dom, asked, locked>>

Next ==
  \/ Notice \/ Lose
  \/ Raise \/ List \/ Falter \/ Act \/ GiveUp
  \/ End \/ Start \/ Sleep \/ Wake
  \/ \E v \in VM : Deal(v) \/ GuestStarts(v) \/ GuestEnds(v)

Spec == Init /\ [][Next]_vars
==============================================================================
