------------------------------ MODULE KillSwitch ------------------------------
(***************************************************************************)
(* The kill switch: from a USB device leaving its port to the locked,        *)
(* suspended or powered-off system.  udev's socket, the monitor task         *)
(* (vm-daemon/src/usb.rs), the bounded channel to the daemon's main loop and *)
(* its inline fallback (vm-daemon/src/main.rs), the krypt-panic process      *)
(* (panic/src/main.rs) and the systemd unit around them all               *)
(* (init/krypt-daemon.service) run side by side with guests that start and   *)
(* end.  Every command they spawn may fail.                                  *)
(***************************************************************************)
EXTENDS Naturals, Sequences, FiniteSets, Queues

CONSTANTS Dev,       \* USB devices
          Auth,      \* those whose serial is in daemon.toml's [[auth_sticks]]
          VM,        \* names of Xen domains other than Domain-0
          Levels,    \* the panic_level values daemon.toml may hold
          Cap,       \* capacity of the event channel (32 in main.rs)
          KernelCap, \* events the udev socket buffers
          MaxPull    \* bound: a registered stick is pulled at most this often

ASSUME DevAssumption   == Auth \subseteq Dev
ASSUME LevelAssumption == Levels \subseteq {"lock", "suspend", "nuke"}
ASSUME SizeAssumption  == Cap \in Nat \ {0} /\ KernelCap \in Nat \ {0} /\ MaxPull \in Nat

VARIABLES unit,     \* systemd's view of krypt-daemon.service
          level,    \* panic_level read at start-up
          term,     \* a SIGTERM or SIGINT that main's select has not seen yet
          attached, \* devices in their ports
          kq,       \* udev events not yet read by the monitor
          mon,      \* the monitor task
          held,     \* the classified event the monitor is sending
          chan,     \* the mpsc channel
          main,     \* the main loop: at its select, or inside trigger_panic
          panic,    \* the krypt-panic process
          todo,     \* listed domains that are still to be paused or destroyed
          dom,      \* VM -> "absent", "running" or "paused"
          sys,      \* "on", "asleep" (S3) or "off"
          queued,   \* systemd holds a suspend job that has not run yet
          locked,   \* did a lock of the user's session go through?
          wiped,    \* krypt-panic is past wipe_sensitive_memory
          born,     \* history: domains created during the panic under way, since its `xl list`;
                    \* a panic is under way until the suspend it queued has run
          missed,   \* history: live domains its listing or its loop failed on
          pulled, fired, dropped  \* history: sticks pulled, panics begun, removals lost

devVars   == <<attached, kq>>
monVars   == <<mon, held>>
unitVars  == <<unit, level, term>>
panicVars == <<panic, todo, wiped, missed>>
xenVars   == <<dom, born>>
sysVars   == <<sys, queued, locked>>
counters  == <<pulled, fired, dropped>>
vars == <<unitVars, devVars, monVars, chan, main, panicVars, xenVars, sysVars, counters>>

Event     == [dev : Dev, add : BOOLEAN]
UsbEvent  == {"connected", "removed", "unknown"}
Live      == {v \in VM : dom[v] # "absent"}

PanicPc == {"lock", "hypr", "list", "vms", "power", "wipe", "off"}

TypeOK ==
  /\ unit \in {"active", "failed", "inactive"}
  /\ level \in Levels
  /\ term \in BOOLEAN
  /\ attached \in SUBSET Dev
  /\ kq \in Seq(Event)
  /\ mon \in {"reading", "sending", "ended"}
  /\ held \in UsbEvent \cup {"none"}
  /\ chan \in Seq(UsbEvent)
  /\ main \in {"select", "primary", "list", "pause", "act", "stopped"}
  /\ panic \in PanicPc \cup {"none", "done", "failed"}
  /\ todo \in SUBSET VM
  /\ dom \in [VM -> {"absent", "running", "paused"}]
  /\ sys \in {"on", "asleep", "off"}
  /\ queued \in BOOLEAN
  /\ locked \in BOOLEAN
  /\ wiped \in BOOLEAN
  /\ born \in SUBSET VM
  /\ missed \in SUBSET VM
  /\ pulled \in 0..MaxPull /\ fired \in 0..MaxPull /\ dropped \in 0..MaxPull

Init ==
  /\ unit = "active" /\ level \in Levels /\ term = FALSE
  /\ attached = Auth /\ kq = <<>>
  /\ mon = "reading" /\ held = "none" /\ chan = <<>>
  /\ main = "select"
  /\ panic = "none" /\ todo = {} /\ wiped = FALSE /\ missed = {}
  /\ dom \in [VM -> {"absent", "running"}] /\ born = {}
  /\ sys = "on" /\ queued = FALSE /\ locked = FALSE
  /\ pulled = 0 /\ fired = 0 /\ dropped = 0

-----------------------------------------------------------------------------
(* Removals of registered sticks on their way from the port to the main loop *)

Pull == [dev : Auth, add : {FALSE}]

InFlight == Count(kq, Pull) + Hit(held, {"removed"}) + Count(chan, {"removed"})

(* A uevent for device d.  It is lost when nobody listens, and when the       *)
(* socket's buffer is full (the monitor logs the read error and goes on).    *)
Notify(d, add) ==
  LET e == [dev |-> d, add |-> add] IN
  IF unit = "active" /\ mon # "ended" /\ Len(kq) < KernelCap
    THEN kq' = Append(kq, e) /\ UNCHANGED dropped
    ELSE dropped' = dropped + Hit(e, Pull) /\ UNCHANGED kq

Plug(d) ==
  /\ sys # "off" /\ d \notin attached
  /\ attached' = attached \cup {d}
  /\ Notify(d, TRUE)
  /\ UNCHANGED <<unitVars, monVars, chan, main, panicVars, xenVars, sysVars, pulled, fired>>

Unplug(d) ==
  /\ sys # "off" /\ d \in attached
  /\ d \in Auth => pulled < MaxPull
  /\ attached' = attached \ {d}
  /\ pulled' = pulled + Hit(d, Auth)
  /\ Notify(d, FALSE)
  /\ UNCHANGED <<unitVars, monVars, chan, main, panicVars, xenVars, sysVars, fired>>

-----------------------------------------------------------------------------
(* An operator named X_Y is a variant of X with the fault named by Y.  No     *)
(* specification uses it: substituted for X it makes one property fail, which *)
(* shows that the property watches that part of the code.                    *)
-----------------------------------------------------------------------------
(* The monitor task (usb.rs run and classify)                               *)

(* Variant: no type check, an insertion looks like a removal.                *)
Classify_AnyAction(e, readable) ==
  IF e.dev \in Auth /\ readable THEN "removed" ELSE "unknown"

(* The serial is read from sysfs while the event is handled.  A device that   *)
(* has left may have taken the attribute along: the event is then Unknown.   *)
Classify(e, readable) ==
  IF e.dev \in Auth /\ readable THEN (IF e.add THEN "connected" ELSE "removed")
  ELSE "unknown"

MonitorRead ==
  /\ unit = "active" /\ sys = "on"
  /\ mon = "reading" /\ kq # <<>>
  /\ kq' = Tail(kq)
  /\ \E readable \in BOOLEAN :
       /\ held' = Classify(Head(kq), readable)
       /\ dropped' = IF held' = "removed" THEN dropped ELSE dropped + Hit(Head(kq), Pull)
  /\ mon' = "sending"
  /\ UNCHANGED <<unitVars, attached, chan, main, panicVars, xenVars, sysVars, pulled, fired>>

(* Variant: try_send, which gives up when the channel is full.               *)
MonitorSend_Try ==
  /\ unit = "active" /\ sys = "on"
  /\ mon = "sending"
  /\ chan' = IF Len(chan) < Cap THEN Append(chan, held) ELSE chan
  /\ held' = "none" /\ mon' = "reading"
  /\ UNCHANGED <<unitVars, devVars, main, panicVars, xenVars, sysVars, counters>>

(* tx.send(usb_event).await: waits for room.                                 *)
MonitorSend ==
  /\ unit = "active" /\ sys = "on"
  /\ mon = "sending" /\ Len(chan) < Cap
  /\ chan' = Append(chan, held)
  /\ held' = "none" /\ mon' = "reading"
  /\ UNCHANGED <<unitVars, devVars, main, panicVars, xenVars, sysVars, counters>>

(* listen() failed, or the socket's stream ended: run returns, tx is dropped *)
(* and with the socket the events nobody read.                               *)
MonitorEnds ==
  /\ unit = "active" /\ sys = "on"
  /\ mon = "reading"
  /\ mon' = "ended"
  /\ kq' = <<>>
  /\ dropped' = dropped + Count(kq, Pull)
  /\ UNCHANGED <<unitVars, attached, held, chan, main, panicVars, xenVars, sysVars, pulled, fired>>
-----------------------------------------------------------------------------
(* The main loop (main.rs main, trigger_panic)                              *)

SpawnPanic ==
  \/ panic' = IF level = "lock" THEN "lock" ELSE "list"
  \/ panic' = "failed"    \* not installed, or it could not be spawned

MainReceives ==
  /\ unit = "active" /\ sys = "on" /\ main = "select"
  /\ chan # <<>>
  /\ chan' = Tail(chan)
  /\ IF Head(chan) = "removed"
       THEN main' = "primary" /\ SpawnPanic /\ fired' = fired + 1
       ELSE UNCHANGED <<main, panic, fired>>
  /\ UNCHANGED <<unitVars, devVars, monVars, todo, wiped, missed, xenVars, sysVars, pulled, dropped>>

(* The histories of a panic that is over, unless its suspend is pending.      *)
Forget(pending) == IF pending THEN UNCHANGED <<born, missed>> ELSE born' = {} /\ missed' = {}

(* The process is gone: with it the channel, the socket, and, through the     *)
(* unit's control group, a krypt-panic that was running.                     *)
Die(u) ==
  /\ unit' = u /\ term' = FALSE
  /\ kq' = <<>> /\ held' = "none" /\ chan' = <<>> /\ mon' = "ended"
  /\ main' = "stopped"
  /\ panic' = "none" /\ todo' = {} /\ wiped' = FALSE
  /\ Forget(queued)
  /\ dropped' = dropped + InFlight
  /\ UNCHANGED <<level, attached, dom, sysVars, pulled, fired>>

(* The select sees a signal, or that the monitor is gone: the loop ends and  *)
(* main returns Ok, which Restart=on-failure does not restart.               *)
MainEnds ==
  /\ unit = "active" /\ sys = "on" /\ main = "select"
  /\ term \/ (mon = "ended" /\ chan = <<>>)
  /\ Die("inactive")

(* Variant: only a successful krypt-panic is waited for to its end.           *)
PrimaryReturns_OnSuccess ==
  /\ unit = "active" /\ sys = "on" /\ main = "primary"
  /\ panic = "done"
  /\ main' = "select"
  /\ panic' = "none" /\ wiped' = FALSE
  /\ Forget(queued)
  /\ UNCHANGED <<unitVars, devVars, monVars, chan, todo, dom, sysVars, counters>>

(* krypt-panic's exit status decides whether trigger_panic is done.          *)
PrimaryReturns ==
  /\ unit = "active" /\ sys = "on" /\ main = "primary"
  /\ panic \in {"done", "failed"}
  /\ main' = IF panic = "done" THEN "select" ELSE IF level = "lock" THEN "act" ELSE "list"
  /\ panic' = "none" /\ wiped' = FALSE
  /\ IF panic = "done" THEN Forget(queued) ELSE UNCHANGED <<born, missed>>
  /\ UNCHANGED <<unitVars, devVars, monVars, chan, todo, dom, sysVars, counters>>

(* `xl list`: every live domain is on the list; when it fails, none is.      *)
TakeList ==
  /\ \/ todo' = Live /\ missed' = IF queued THEN missed ELSE {}
     \/ todo' = {} /\ missed' = IF queued THEN missed \cup Live ELSE Live
  /\ born' = IF queued THEN born ELSE {}

(* Variant: the first failure ends the loop.                                 *)
Handle_StopsAtFailure(v, result) ==
  /\ v \in todo
  /\ \/ /\ v \in Live /\ dom' = [dom EXCEPT ![v] = result]
        /\ todo' = todo \ {v}
        /\ UNCHANGED missed
     \/ /\ missed' = missed \cup ({v} \cap Live)
        /\ todo' = {}
        /\ UNCHANGED dom

(* `xl pause`, or `xl destroy`, of one listed domain; a failure is passed over. *)
Handle(v, result) ==
  /\ v \in todo
  /\ todo' = todo \ {v}
  /\ \/ v \in Live /\ dom' = [dom EXCEPT ![v] = result] /\ UNCHANGED missed
     \/ missed' = missed \cup ({v} \cap Live) /\ UNCHANGED dom

FallbackList ==
  /\ unit = "active" /\ sys = "on" /\ main = "list"
  /\ TakeList
  /\ main' = "pause"
  /\ UNCHANGED <<unitVars, devVars, monVars, chan, panic, wiped, dom, sysVars, counters>>

FallbackPause ==
  /\ unit = "active" /\ sys = "on" /\ main = "pause"
  /\ IF todo = {} THEN main' = "act" /\ UNCHANGED <<todo, dom, missed>>
     ELSE (\E v \in todo : Handle(v, "paused")) /\ UNCHANGED main
  /\ UNCHANGED <<unitVars, devVars, monVars, chan, panic, wiped, born, sysVars, counters>>

(* Variant: the arms of lock and suspend run into one another.               *)
FallbackAct_SuspendsAtLock ==
  /\ unit = "active" /\ sys = "on" /\ main = "act"
  /\ \/ level # "nuke" /\ queued' = TRUE /\ UNCHANGED <<sys, locked>>
     \/ level = "nuke" /\ sys' = "off" /\ UNCHANGED <<queued, locked>>
     \/ UNCHANGED sysVars
  /\ main' = "select"
  /\ Forget(queued')
  /\ UNCHANGED <<unitVars, devVars, monVars, chan, panic, todo, wiped, dom, counters>>

(* loginctl lock-sessions, systemctl suspend or poweroff: done, or failed    *)
(* and logged.  systemctl suspend returns once the job is queued.            *)
FallbackAct ==
  /\ unit = "active" /\ sys = "on" /\ main = "act"
  /\ \/ level = "lock" /\ locked' = TRUE /\ UNCHANGED <<sys, queued>>
     \/ level = "suspend" /\ queued' = TRUE /\ UNCHANGED <<sys, locked>>
     \/ level = "nuke" /\ sys' = "off" /\ UNCHANGED <<queued, locked>>
     \/ UNCHANGED sysVars
  /\ main' = "select"
  /\ Forget(queued')
  /\ UNCHANGED <<unitVars, devVars, monVars, chan, panic, todo, wiped, dom, counters>>

-----------------------------------------------------------------------------
(* The krypt-panic process (panic/src/main.rs)                              *)

Runs(p) == sys = "on" /\ panic = p

LockSessions ==
  /\ Runs("lock")
  /\ \/ locked' = TRUE /\ panic' = "done"
     \/ panic' = "hypr" /\ UNCHANGED locked
  /\ UNCHANGED <<unitVars, devVars, monVars, chan, main, todo, wiped, missed, xenVars, sys, queued, counters>>

Hyprlock ==
  /\ Runs("hypr")
  /\ locked' \in {locked, TRUE}
  /\ panic' = "done"
  /\ UNCHANGED <<unitVars, devVars, monVars, chan, main, todo, wiped, missed, xenVars, sys, queued, counters>>

ListVms ==
  /\ Runs("list")
  /\ TakeList
  /\ panic' = "vms"
  /\ UNCHANGED <<unitVars, devVars, monVars, chan, main, wiped, dom, sysVars, counters>>

(* freeze_all_vms, kill_all_vms                                              *)
StopVms ==
  /\ Runs("vms")
  /\ IF todo = {}
       THEN /\ panic' = IF level = "suspend" THEN "power" ELSE "wipe"
            /\ UNCHANGED <<todo, dom, missed>>
       ELSE /\ \E v \in todo : Handle(v, IF level = "suspend" THEN "paused" ELSE "absent")
            /\ UNCHANGED panic
  /\ UNCHANGED <<unitVars, devVars, monVars, chan, main, wiped, born, sysVars, counters>>

(* "mem" is written to /sys/power/state; an error is thrown away.  Under the *)
(* shipped unit it always is one: ProtectKernelTunables=yes mounts /sys      *)
(* read-only.  The write returns after the system woke up.                   *)
WriteState ==
  /\ Runs("power")
  /\ sys' \in {"asleep", "on"}
  /\ panic' = "done"
  /\ UNCHANGED <<unitVars, devVars, monVars, chan, main, todo, wiped, missed, xenVars, queued, locked,
                 counters>>

(* Variant: a wipe step that fails ends the process.                         *)
Wipe_Fails ==
  /\ Runs("wipe")
  /\ \/ wiped' = TRUE /\ panic' = "off"
     \/ panic' = "done" /\ UNCHANGED wiped
  /\ UNCHANGED <<unitVars, devVars, monVars, chan, main, todo, missed, xenVars, sysVars, counters>>

(* drop_caches, swapoff -a, sync: best effort, whatever fails.               *)
Wipe ==
  /\ Runs("wipe")
  /\ wiped' = TRUE
  /\ panic' = "off"
  /\ UNCHANGED <<unitVars, devVars, monVars, chan, main, todo, missed, xenVars, sysVars, counters>>

(* systemctl poweroff --force, and reboot(2) if that returns.                *)
PowerOff ==
  /\ Runs("off")
  /\ sys' = "off"
  /\ UNCHANGED <<unitVars, devVars, monVars, chan, main, panicVars, xenVars, queued, locked, counters>>

-----------------------------------------------------------------------------
(* The rest of the system                                                   *)

(* A client of the IPC socket starts a VM; the daemon's other tasks go on    *)
(* while trigger_panic waits.  Or a guest that rebooted comes back: xl's      *)
(* process that restarts it lives in the unit's control group.               *)
VmStarts(v) ==
  /\ unit = "active" /\ sys = "on" /\ dom[v] = "absent"
  /\ dom' = [dom EXCEPT ![v] = "running"]
  /\ born' = IF main = "select" /\ ~queued THEN born ELSE born \cup {v}
  /\ UNCHANGED <<unitVars, devVars, monVars, chan, main, panicVars, sysVars, counters>>

(* A guest ends, or is destroyed.                                           *)
VmEnds(v) ==
  /\ sys = "on" /\ dom[v] # "absent"
  /\ dom' = [dom EXCEPT ![v] = "absent"]
  /\ UNCHANGED <<unitVars, devVars, monVars, chan, main, panicVars, born, sysVars, counters>>

(* systemctl stop signals every process of the control group, krypt-panic    *)
(* too; a plain kill or SIGINT reaches the daemon alone.                     *)
Signal ==
  /\ unit = "active" /\ sys = "on" /\ ~term
  /\ term' = TRUE
  /\ \/ UNCHANGED panic
     \/ panic \in PanicPc /\ panic' = "failed"
  /\ UNCHANGED <<unit, level, devVars, monVars, chan, main, todo, wiped, missed, xenVars, sysVars,
                 counters>>

(* The daemon crashes; or it is killed because it did not stop in time.      *)
Crash ==
  /\ unit = "active" /\ sys = "on"
  /\ Die(IF term THEN "inactive" ELSE "failed")

(* systemd restarts a failed unit, the administrator an inactive one.  main   *)
(* reads the configuration again and does not look which sticks are there.   *)
Start ==
  /\ unit # "active" /\ sys = "on"
  /\ unit' = "active" /\ level' \in Levels
  /\ mon' = "reading" /\ main' = "select"
  /\ UNCHANGED <<term, devVars, held, chan, panicVars, xenVars, sysVars, counters>>

(* systemd runs the suspend job: the system sleeps, or the job fails.        *)
Sleeps ==
  /\ sys = "on" /\ queued
  /\ sys' \in {"asleep", "on"} /\ queued' = FALSE
  /\ IF main \in {"select", "stopped"} THEN Forget(FALSE) ELSE UNCHANGED <<born, missed>>
  /\ UNCHANGED <<unitVars, devVars, monVars, chan, main, panic, todo, wiped, dom, locked, counters>>

Wake ==
  /\ sys = "asleep"
  /\ sys' = "on"
  /\ UNCHANGED <<unitVars, devVars, monVars, chan, main, panicVars, xenVars, queued, locked, counters>>

MonitorStep == MonitorRead \/ MonitorSend
MainStep    == MainReceives \/ MainEnds \/ PrimaryReturns
                 \/ FallbackList \/ FallbackPause \/ FallbackAct
PanicStep   == LockSessions \/ Hyprlock \/ ListVms \/ StopVms \/ WriteState \/ Wipe \/ PowerOff

Next ==
  \/ \E d \in Dev : Plug(d) \/ Unplug(d)
  \/ MonitorStep \/ MonitorEnds
  \/ MainStep \/ PanicStep
  \/ \E v \in VM : VmStarts(v) \/ VmEnds(v)
  \/ Signal \/ Crash \/ Start \/ Sleeps \/ Wake

Spec == Init /\ [][Next]_vars

(* The executor runs both tasks, and every spawned process is taken to exit. *)
(* Users, guests, signals and the wake-up owe nothing.                       *)
FairSpec == Spec /\ WF_vars(MonitorStep) /\ WF_vars(MainStep) /\ WF_vars(PanicStep)

-----------------------------------------------------------------------------
(* Properties                                                               *)

(* Every pull of a registered stick is either still on its way, or began      *)
(* exactly one panic, or was lost in one of the named ways: unreadable       *)
(* serial, full socket, no monitor, end of the daemon.  A full channel loses *)
(* none, and nothing else than a pull begins a panic.                        *)
RemovalsAccounted == pulled = fired + dropped + InFlight

(* When a panic puts the system to sleep or switches it off, by krypt-panic  *)
(* or by the inline path, at once or through a job that runs later, every     *)
(* domain of its `xl list` was dealt with: one still running was created      *)
(* afterwards or could not be paused, and before krypt-panic's power-off none *)
(* is even paused and the wipe is done.  This is the code's order; by         *)
(* daemon.toml.example:20 the pause comes after the suspend, by the comment   *)
(* on trigger_panic the inline path pauses nobody.                           *)
ListedVmsFirst ==
  [][sys = "on" /\ sys' # "on" =>
       /\ \A v \in VM : dom[v] = "running" => v \in born \cup missed
       /\ panic = "off" => wiped /\ Live \subseteq born \cup missed]_vars

(* Level lock leaves the AppVMs running (docs/usb-kill-switch.md), on the     *)
(* inline path as well.                                                     *)
LockSparesVms ==
  [][\A v \in VM : dom[v] = "running" /\ dom'[v] = "paused" => level # "lock"]_vars

MonitorCan ==
  \/ mon = "reading" /\ kq # <<>>
  \/ mon = "sending" /\ Len(chan) < Cap

MainCan ==
  \/ main = "select" /\ (chan # <<>> \/ term \/ mon = "ended")
  \/ main = "primary" /\ panic \in {"done", "failed"}
  \/ main \in {"list", "pause", "act"}

(* A removal that was noticed is never stuck: the monitor may wait for room   *)
(* in the channel, and the main loop for krypt-panic, but then krypt-panic is *)
(* there and has a step to do.                                               *)
NeverStuck ==
  (unit = "active" /\ sys = "on" /\ InFlight > 0) => MonitorCan \/ MainCan \/ panic \in PanicPc

(* The alarm under way, whichever of krypt-panic and the inline path it is.  *)
PanicStage ==
  CASE panic \in {"lock", "hypr", "list", "failed"} -> "raised"
    [] panic \in {"vms", "power", "wipe", "off"}    -> "listed"
    [] OTHER                                       -> "calm"

Stage ==
  CASE sys = "off" \/ main \in {"select", "stopped"} -> "calm"
    [] sys # "off" /\ main = "primary"               -> PanicStage
    [] sys # "off" /\ main = "list"                  -> "raised"
    [] sys # "off" /\ main = "pause"                 -> "listed"
    [] sys # "off" /\ main = "act"                   -> IF level = "lock" THEN "raised" ELSE "listed"

Owed == IF Stage = "listed" THEN todo ELSE {}

Guard == INSTANCE StickGuard WITH
           armed <- (unit = "active"), pending <- InFlight, stage <- Stage, owed <- Owed,
           asked <- queued

(* Monitor, channel, main loop, krypt-panic, inline path and unit together   *)
(* implement the abstract kill switch: one alarm for one pull, never two at  *)
(* once, nothing done to the system but what the level says and nothing      *)
(* before each listed guest had its turn, wherever a part fails or dies.     *)
OneAlarmPerPull == Guard!Spec

(* A removal that was noticed leads to a panic, or is lost, unless the        *)
(* daemon or the system stops first: neither a full channel nor a panic       *)
(* under way blocks the two tasks for ever.                                  *)
RemovalsHandled == InFlight > 0 ~> InFlight = 0 \/ sys # "on" \/ unit # "active"

(* krypt-panic at level nuke ends in power-off whatever fails on the way,     *)
(* unless it is killed, the daemon dies, or the suspend job of a panic from   *)
(* before a restart holds it up.                                             *)
NukeEndsOff ==
  level = "nuke" /\ panic \in PanicPc ~>
    \/ sys = "off" \/ panic = "failed" \/ unit # "active"
    \/ sys = "asleep" /\ panic \in PanicPc

(* README.md: "Stick raus = alle VMs sofort eingefroren".  No domain runs     *)
(* when a panic suspends the system, those apart that xl failed on.          *)
AllVmsFrozen ==
  [][sys = "on" /\ sys' = "asleep" => \A v \in VM : dom[v] = "running" => v \in missed]_vars

(* panic/src/main.rs: "suspend -> VMs einfrieren, System suspenden".  When    *)
(* krypt-panic is done at level suspend, the system was suspended.           *)
SuspendSuspends ==
  [][panic = "power" /\ panic' = "done" => sys' = "asleep"]_vars

(* daemon.toml.example: of the registered sticks, "Mindestens einer muss      *)
(* angesteckt sein - sonst loest panic_level aus".  A panic begins only when  *)
(* none is left.                                                            *)
PanicNeedsNoStick ==
  [][main = "select" /\ main' = "primary" => attached \cap Auth = {}]_vars
==============================================================================
