--------------------------- MODULE KillSwitchProofs ---------------------------
(***************************************************************************)
(* Safety of the kill switch for every set of devices and domains and every  *)
(* capacity of the channel and the socket.                                   *)
(***************************************************************************)
EXTENDS KillSwitch, QueueProofs, SequenceTheorems, FiniteSetTheorems, TLAPS

-----------------------------------------------------------------------------
(* The inductive invariant                                                  *)

(* Who can be active together, at which level, and what a unit that is not    *)
(* running has kept: nothing.                                                *)
Control ==
  /\ unit # "active" => /\ main = "stopped" /\ mon = "ended" /\ held = "none"
                        /\ kq = <<>> /\ chan = <<>>
  /\ unit = "active" => main # "stopped"
  /\ main # "primary" => panic = "none"
  /\ held = "none" <=> mon # "sending"
  /\ main \in {"list", "pause"} \/ panic \in {"list", "vms"} => level # "lock"
  /\ panic \in {"lock", "hypr"} => level = "lock"
  /\ panic = "power" => level = "suspend"
  /\ panic \in {"wipe", "off"} => level = "nuke"
  /\ panic = "off" => wiped

(* What a panic still owes, phase by phase: each domain is on its list, was   *)
(* dealt with, was created since the listing, or was failed on; and the loop  *)
(* over the list ran to its end before the system action.  A suspend that     *)
(* waits in systemd's queue finds it so whenever it runs.                    *)
Running == {v \in VM : dom[v] = "running"}

Listed ==
  /\ queued => Running \subseteq born \cup missed
  /\ main = "pause" \/ panic = "vms" => Running \subseteq todo \cup born \cup missed
  /\ (main = "act" /\ level # "lock") \/ panic = "power" => Running \subseteq born \cup missed
  /\ panic = "vms" /\ level = "nuke" => Live \subseteq todo \cup born \cup missed
  /\ panic \in {"wipe", "off"} => Live \subseteq born \cup missed
  /\ (main = "act" /\ level # "lock") \/ panic \in {"power", "wipe", "off"} => todo = {}

IInv == TypeOK /\ RemovalsAccounted /\ Control /\ Listed

-----------------------------------------------------------------------------
(* Three families of steps: those around the port and the monitor, those that *)
(* end the process, and those of a panic and of the guests.                  *)
UsbStep   == (\E d \in Dev : Plug(d) \/ Unplug(d)) \/ MonitorStep \/ MonitorEnds
EndStep   == MainEnds \/ Crash
PanicSide == \/ PrimaryReturns \/ FallbackList \/ FallbackPause \/ FallbackAct
             \/ PanicStep
             \/ \E v \in VM : VmStarts(v) \/ VmEnds(v)
             \/ Signal \/ Sleeps \/ Wake

LEMMA NextFamilies ==
  ASSUME [Next]_vars
  PROVE  UsbStep \/ EndStep \/ PanicSide \/ MainReceives \/ Start \/ UNCHANGED vars
  BY DEF Next, UsbStep, EndStep, PanicSide, MainStep

LEMMA UsbFrame ==
  ASSUME UsbStep
  PROVE  UNCHANGED <<unitVars, main, panicVars, xenVars, sysVars, fired>>
  BY DEF UsbStep, MonitorStep, Plug, Unplug, Notify, MonitorRead, MonitorSend, MonitorEnds,
         counters

LEMMA PanicFrame ==
  ASSUME PanicSide
  PROVE  UNCHANGED <<unit, level, devVars, monVars, chan, counters>>
<1>1. ASSUME PanicStep PROVE UNCHANGED <<unit, level, devVars, monVars, chan, counters>>
  BY <1>1 DEF PanicStep, LockSessions, Hyprlock, ListVms, StopVms, WriteState, Wipe, PowerOff,
              unitVars
<1>2. ASSUME PrimaryReturns \/ FallbackList \/ FallbackPause \/ FallbackAct
      PROVE  UNCHANGED <<unit, level, devVars, monVars, chan, counters>>
  BY <1>2 DEF PrimaryReturns, FallbackList, FallbackPause, FallbackAct, unitVars
<1>3. ASSUME NEW v \in VM, VmStarts(v) \/ VmEnds(v)
      PROVE  UNCHANGED <<unit, level, devVars, monVars, chan, counters>>
  BY <1>3 DEF VmStarts, VmEnds, unitVars
<1>4. ASSUME Signal \/ Sleeps \/ Wake
      PROVE  UNCHANGED <<unit, level, devVars, monVars, chan, counters>>
  BY <1>4 DEF Signal, Sleeps, Wake, unitVars
<1>5. QED
  BY <1>1, <1>2, <1>3, <1>4 DEF PanicSide

LEMMA EndFacts ==
  ASSUME EndStep
  PROVE  \E u \in {"inactive", "failed"} : Die(u)
  BY DEF EndStep, MainEnds, Crash

-----------------------------------------------------------------------------
(* The queues and the counters                                              *)

(* The part of TypeOK these steps change, without the bounds of the counters.  *)
QueueTypes ==
  /\ attached \in SUBSET Dev
  /\ kq \in Seq(Event)
  /\ mon \in {"reading", "sending", "ended"}
  /\ held \in UsbEvent \cup {"none"}
  /\ chan \in Seq(UsbEvent)
  /\ pulled \in 0..MaxPull
  /\ fired \in Nat
  /\ dropped \in Nat

LEMMA QueueTypesHold ==
  ASSUME TypeOK
  PROVE  /\ QueueTypes
         /\ Count(kq, Pull) \in Nat
         /\ Count(chan, {"removed"}) \in Nat
<1>1. QueueTypes
  BY SizeAssumption DEF TypeOK, QueueTypes
<1>2. QED
  BY <1>1, CountType DEF QueueTypes

(* Where a removal may be on its way.                                       *)
Socket  == Count(kq, Pull)
Hand    == Hit(held, {"removed"})
Channel == Count(chan, {"removed"})

LEMMA PartTypes ==
  ASSUME QueueTypes
  PROVE  /\ Socket \in Nat /\ Hand \in Nat /\ Channel \in Nat
         /\ pulled \in Nat /\ fired \in Nat /\ dropped \in Nat
<1>1. Socket \in Nat /\ Hand \in Nat /\ Channel \in Nat
  BY CountType, HitType DEF QueueTypes, Socket, Hand, Channel
<1>2. QED
  BY <1>1, SizeAssumption DEF QueueTypes

LEMMA PartTypesNext ==
  ASSUME QueueTypes'
  PROVE  /\ Socket' \in Nat /\ Hand' \in Nat /\ Channel' \in Nat
         /\ pulled' \in Nat /\ fired' \in Nat /\ dropped' \in Nat
<1>1. Socket' \in Nat /\ Hand' \in Nat /\ Channel' \in Nat
  BY CountType, HitType DEF QueueTypes, Socket, Hand, Channel
<1>2. QED
  BY <1>1, SizeAssumption DEF QueueTypes

(* An event for a registered stick that left enters the socket or is lost.    *)
LEMMA NotifyStep ==
  ASSUME TypeOK, NEW d \in Dev, NEW add \in BOOLEAN, Notify(d, add),
         NEW h, h = IF add THEN 0 ELSE Hit(d, Auth)
  PROVE  /\ kq' \in Seq(Event) /\ dropped' \in Nat
         /\ \/ Socket' = Socket + h /\ dropped' = dropped
            \/ Socket' = Socket /\ dropped' = dropped + h
<1> DEFINE e == [dev |-> d, add |-> add]
<1>1. e \in Event
  BY DEF Event
<1>2. Hit(e, Pull) = h /\ h \in Nat
  <2>1. e \in Pull <=> d \in Auth /\ ~add
    BY DEF Pull
  <2>2. QED
    BY <2>1 DEF Hit
<1>3. kq \in Seq(Event) /\ dropped \in Nat
  BY QueueTypesHold DEF QueueTypes
<1>4. CASE kq' = Append(kq, e) /\ UNCHANGED dropped
  <2>1. Socket' = Socket + h
    BY <1>1, <1>2, <1>3, <1>4, CountAppend DEF Socket
  <2>2. kq' \in Seq(Event)
    BY <1>1, <1>3, <1>4, AppendProperties
  <2>3. QED
    BY <1>3, <1>4, <2>1, <2>2
<1>5. CASE dropped' = dropped + Hit(e, Pull) /\ UNCHANGED kq
  <2>1. Socket' = Socket
    BY <1>5 DEF Socket
  <2>2. QED
    BY <1>2, <1>3, <1>5, <2>1
<1>6. QED
  BY <1>4, <1>5 DEF Notify

(* The steps at the port and of the monitor keep the account balanced.        *)
LEMMA UsbAccounts ==
  ASSUME TypeOK, Control, RemovalsAccounted, UsbStep
  PROVE  QueueTypes' /\ RemovalsAccounted'
<1>1. QueueTypes /\ Socket \in Nat /\ Channel \in Nat /\ Hand \in Nat
  BY QueueTypesHold, PartTypes
<1>2. pulled = fired + dropped + Socket + Hand + Channel
  <2>1. pulled = fired + dropped + (Socket + Hand + Channel)
    BY DEF RemovalsAccounted, InFlight, Socket, Hand, Channel
  <2>2. QED
    BY <1>1, <2>1 DEF QueueTypes
<1>3. fired' = fired
  BY UsbFrame
<1>0. pulled \in Nat /\ fired \in Nat /\ dropped \in Nat
  BY <1>1, PartTypes
<1>4. SUFFICES /\ QueueTypes'
               /\ pulled' = fired' + dropped' + Socket' + Hand' + Channel'
  <2>1. ASSUME QueueTypes', pulled' = fired' + dropped' + Socket' + Hand' + Channel'
        PROVE  pulled' = fired' + dropped' + (Socket' + Hand' + Channel')
    <3>1. QED
      BY <2>1, PartTypesNext
  <2>2. QED
    BY <2>1 DEF RemovalsAccounted, InFlight, Socket, Hand, Channel
<1>5. ASSUME NEW d \in Dev, Plug(d)
      PROVE  QueueTypes' /\ pulled' = fired' + dropped' + Socket' + Hand' + Channel'
  <2>1. /\ kq' \in Seq(Event) /\ dropped' \in Nat
        /\ \/ Socket' = Socket + 0 /\ dropped' = dropped
           \/ Socket' = Socket /\ dropped' = dropped + 0
    BY <1>5, NotifyStep DEF Plug
  <2>3. attached' \in SUBSET Dev /\ UNCHANGED <<mon, held, chan, pulled>>
    BY <1>1, <1>5 DEF Plug, monVars, QueueTypes
  <2>4. QueueTypes'
    BY <1>1, <1>3, <2>1, <2>3 DEF QueueTypes
  <2>5. Socket' \in Nat
    BY <2>1, CountType DEF Socket
  <2>6. Hand' = Hand /\ Channel' = Channel
    BY <2>3 DEF Hand, Channel
  <2>7. Socket' \in Nat /\ Hand' \in Nat /\ Channel' \in Nat /\ dropped' \in Nat
    BY <2>4, PartTypesNext
  <2>8. pulled' = fired' + dropped' + Socket' + Hand' + Channel'
    <3>1. Socket' = Socket /\ dropped' = dropped
      BY <1>0, <1>1, <2>1
    <3>2. QED
      BY ONLY <1>2, <1>3, <2>3, <2>6, <3>1
  <2>9. QED
    BY <2>4, <2>8
<1>6. ASSUME NEW d \in Dev, Unplug(d)
      PROVE  QueueTypes' /\ pulled' = fired' + dropped' + Socket' + Hand' + Channel'
  <2>1. /\ kq' \in Seq(Event) /\ dropped' \in Nat
        /\ \/ Socket' = Socket + Hit(d, Auth) /\ dropped' = dropped
           \/ Socket' = Socket /\ dropped' = dropped + Hit(d, Auth)
    BY <1>6, NotifyStep DEF Unplug
  <2>2. Hit(d, Auth) \in {0, 1} /\ (Hit(d, Auth) = 1 => d \in Auth)
    BY DEF Hit
  <2>3. /\ attached' \in SUBSET Dev
        /\ pulled' = pulled + Hit(d, Auth)
        /\ UNCHANGED <<mon, held, chan>>
    BY <1>1, <1>6 DEF Unplug, monVars, QueueTypes
  <2>4. pulled' \in 0..MaxPull
    BY <1>1, <1>6, <2>2, <2>3, SizeAssumption DEF Unplug, QueueTypes
  <2>5. QueueTypes'
    BY <1>1, <1>3, <2>1, <2>3, <2>4 DEF QueueTypes
  <2>6. Socket' \in Nat
    BY <2>1, CountType DEF Socket
  <2>7. Hand' = Hand /\ Channel' = Channel
    BY <2>3 DEF Hand, Channel
  <2>8. Socket' \in Nat /\ Hand' \in Nat /\ Channel' \in Nat /\ dropped' \in Nat
    BY <2>5, PartTypesNext
  <2>9. Hit(d, Auth) \in Nat
    BY HitType
  <2>10. pulled' = fired' + dropped' + Socket' + Hand' + Channel'
    <3>1. /\ \/ Socket' = Socket + Hit(d, Auth) /\ dropped' = dropped
             \/ Socket' = Socket /\ dropped' = dropped + Hit(d, Auth)
          /\ pulled' = pulled + Hit(d, Auth)
          /\ Hand' = Hand /\ Channel' = Channel
          /\ Socket \in Nat /\ Hand \in Nat /\ Channel \in Nat
      BY <1>1, <2>1, <2>3, <2>7
    <3>2. QED
      BY ONLY <1>0, <1>2, <1>3, <2>8, <2>9, <3>1
  <2>11. QED
    BY <2>5, <2>10
<1>7. CASE MonitorRead
  <2> DEFINE e == Head(kq)
  <2>1. kq # <<>> /\ kq' = Tail(kq) /\ mon' = "sending"
        /\ UNCHANGED <<attached, chan, pulled>>
    BY <1>7 DEF MonitorRead
  <2>2. kq' \in Seq(Event) /\ Socket = Socket' + Hit(e, Pull) /\ e \in Event
    BY <1>1, <2>1, CountTail, HeadTailProperties DEF QueueTypes, Socket
  <2>3. Hand = 0
    <3>1. held = "none"
      BY <1>7 DEF MonitorRead, Control
    <3>2. QED
      BY <3>1 DEF Hit, Hand
  <2>4. /\ held' \in UsbEvent
        /\ held' = "removed" => e \in Pull
        /\ dropped' = IF held' = "removed" THEN dropped ELSE dropped + Hit(e, Pull)
    <3>1. PICK readable \in BOOLEAN : held' = Classify(e, readable)
      BY <1>7 DEF MonitorRead
    <3>2. held' \in UsbEvent
      BY <3>1 DEF Classify, UsbEvent
    <3>3. held' = "removed" => e.dev \in Auth /\ ~e.add
      BY <3>1 DEF Classify
    <3>4. e.add \in BOOLEAN /\ e = [dev |-> e.dev, add |-> e.add]
      BY <2>2 DEF Event
    <3>5. ASSUME held' = "removed" PROVE e \in Pull
      <4>1. e.dev \in Auth /\ e.add = FALSE
        BY <3>3, <3>4, <3>5
      <4>2. QED
        BY <4>1, <3>4 DEF Pull
    <3>6. QED
      BY <1>7, <3>2, <3>5 DEF MonitorRead
  <2>5. \/ Hand' = Hit(e, Pull) /\ dropped' = dropped
        \/ Hand' = 0 /\ dropped' = dropped + Hit(e, Pull)
    <3>1. CASE held' = "removed"
      BY <3>1, <2>4 DEF Hit, Hand
    <3>2. CASE held' # "removed"
      BY <3>2, <2>4, HitType DEF Hand
    <3>3. QED
      BY <3>1, <3>2
  <2>6. Hit(e, Pull) \in Nat /\ Hand' \in Nat /\ Socket' \in Nat
    BY <2>2, HitType, CountType DEF Hand, Socket
  <2>7. Channel' = Channel
    BY <2>1 DEF Channel
  <2>8. QueueTypes'
    BY <1>1, <1>3, <2>1, <2>2, <2>4, <2>6 DEF QueueTypes
  <2>9. Socket' \in Nat /\ Hand' \in Nat /\ Channel' \in Nat /\ dropped' \in Nat
    BY <2>8, PartTypesNext
  <2>10. pulled' = fired' + dropped' + Socket' + Hand' + Channel'
    <3>1. /\ pulled' = pulled /\ Hand = 0 /\ Channel' = Channel
          /\ Socket = Socket' + Hit(e, Pull) /\ Hit(e, Pull) \in Nat
          /\ Channel \in Nat
      BY <1>1, <2>1, <2>2, <2>3, <2>6, <2>7
    <3>2. QED
      BY ONLY <1>0, <1>2, <1>3, <2>5, <2>9, <3>1
  <2>11. QED
    BY <2>8, <2>10
<1>8. CASE MonitorSend
  <2>1. /\ chan' = Append(chan, held) /\ held' = "none" /\ mon' = "reading"
        /\ UNCHANGED <<attached, kq, pulled, dropped>>
    BY <1>8 DEF MonitorSend, devVars, counters
  <2>2. held \in UsbEvent
    BY <1>1, <1>8 DEF MonitorSend, Control, QueueTypes
  <2>3. chan' \in Seq(UsbEvent) /\ Channel' = Channel + Hit(held, {"removed"})
    BY <1>1, <2>1, <2>2, CountAppend, AppendProperties DEF QueueTypes, Channel
  <2>4. Hit(held, {"removed"}) = Hand /\ Hand' = 0
    BY <2>1 DEF Hit, Hand
  <2>5. Socket' = Socket
    BY <2>1 DEF Socket
  <2>6. QueueTypes'
    BY <1>1, <1>3, <2>1, <2>3 DEF QueueTypes
  <2>7. Socket' \in Nat /\ Hand' \in Nat /\ Channel' \in Nat /\ dropped' \in Nat
    BY <2>6, PartTypesNext
  <2>8. pulled' = fired' + dropped' + Socket' + Hand' + Channel'
    <3>1. /\ pulled' = pulled /\ dropped' = dropped /\ Socket' = Socket
          /\ Hand' = 0 /\ Channel' = Channel + Hand
          /\ Socket \in Nat /\ Hand \in Nat /\ Channel \in Nat
      BY <1>1, <2>1, <2>3, <2>4, <2>5
    <3>2. pulled = fired + dropped + Socket + Hand' + Channel'
      BY ONLY <1>0, <1>2, <2>7, <3>1
    <3>3. QED
      BY ONLY <1>3, <3>1, <3>2
  <2>9. QED
    BY <2>6, <2>8
<1>9. CASE MonitorEnds
  <2>1. /\ mon' = "ended" /\ kq' = <<>> /\ dropped' = dropped + Socket
        /\ UNCHANGED <<attached, held, chan, pulled>>
    BY <1>9 DEF MonitorEnds, Socket
  <2>2. Socket' = 0
    BY <2>1, CountEmpty DEF Socket
  <2>3. Hand' = Hand /\ Channel' = Channel
    BY <2>1 DEF Hand, Channel
  <2>4. QueueTypes'
    BY <1>1, <1>3, <2>1 DEF QueueTypes
  <2>5. Socket' \in Nat /\ Hand' \in Nat /\ Channel' \in Nat /\ dropped' \in Nat
    BY <2>4, PartTypesNext
  <2>6. pulled' = fired' + dropped' + Socket' + Hand' + Channel'
    <3>1. /\ pulled' = pulled /\ dropped' = dropped + Socket /\ Socket' = 0
          /\ Hand' = Hand /\ Channel' = Channel
          /\ Socket \in Nat /\ Hand \in Nat /\ Channel \in Nat
      BY <1>1, <2>1, <2>2, <2>3
    <3>2. QED
      BY ONLY <1>0, <1>2, <1>3, <2>5, <3>1
  <2>7. QED
    BY <2>4, <2>6
<1>10. QED
  BY <1>5, <1>6, <1>7, <1>8, <1>9 DEF UsbStep, MonitorStep

(* The end of the process loses what is in flight; a receive moves one entry   *)
(* from the channel to the panics begun; the other steps touch no part of it. *)
LEMMA EndAccounts ==
  ASSUME TypeOK, RemovalsAccounted, NEW u, Die(u)
  PROVE  QueueTypes' /\ RemovalsAccounted'
<1>1. QueueTypes /\ InFlight \in Nat
  <2>1. QueueTypes /\ Socket \in Nat /\ Hand \in Nat /\ Channel \in Nat
    BY QueueTypesHold, PartTypes
  <2>2. QED
    BY <2>1 DEF InFlight, Socket, Hand, Channel
<1>2. /\ kq' = <<>> /\ held' = "none" /\ chan' = <<>> /\ mon' = "ended"
      /\ dropped' = dropped + InFlight
      /\ UNCHANGED <<attached, pulled, fired>>
  BY DEF Die
<1>3. QueueTypes'
  BY <1>1, <1>2 DEF QueueTypes
<1>4. InFlight' = 0
  <2>1. Socket' = 0 /\ Hand' = 0 /\ Channel' = 0
    BY <1>2, CountEmpty DEF Socket, Hand, Channel, Hit
  <2>2. QED
    BY <2>1 DEF InFlight, Socket, Hand, Channel
<1>5. pulled = fired + dropped + InFlight /\ fired \in Nat /\ dropped \in Nat
  BY <1>1, PartTypes DEF RemovalsAccounted
<1>6. pulled' = fired' + dropped' + InFlight'
  BY <1>1, <1>2, <1>4, <1>5
<1>7. QED
  BY <1>3, <1>6 DEF RemovalsAccounted

LEMMA ReceiveAccounts ==
  ASSUME TypeOK, RemovalsAccounted, MainReceives
  PROVE  QueueTypes' /\ RemovalsAccounted'
<1> DEFINE e == Head(chan)
           h == Hit(e, {"removed"})
<1>1. /\ QueueTypes /\ Socket \in Nat /\ Hand \in Nat /\ Channel \in Nat
      /\ pulled \in Nat /\ fired \in Nat /\ dropped \in Nat
  BY QueueTypesHold, PartTypes
<1>2. /\ chan # <<>> /\ chan' = Tail(chan)
      /\ UNCHANGED <<attached, kq, mon, held, pulled, dropped>>
  BY DEF MainReceives, devVars, monVars
<1>3. chan' \in Seq(UsbEvent) /\ Channel = Channel' + h
  BY <1>1, <1>2, CountTail, HeadTailProperties DEF QueueTypes, Channel
<1>4. fired' = fired + h /\ h \in Nat
  BY <1>1 DEF MainReceives, Hit
<1>5. QueueTypes'
  BY <1>1, <1>2, <1>3, <1>4 DEF QueueTypes
<1>6. Socket' = Socket /\ Hand' = Hand /\ Channel' \in Nat
  BY <1>2, <1>5, PartTypesNext DEF Socket, Hand
<1>7. pulled = fired + dropped + (Socket + Hand + Channel)
  BY DEF RemovalsAccounted, InFlight, Socket, Hand, Channel
<1>8. pulled' = fired' + dropped' + (Socket' + Hand' + Channel')
  <2>1. pulled' = pulled /\ dropped' = dropped
    BY <1>2
  <2>2. h \in Nat /\ fired' = fired + h /\ Channel = Channel' + h
    BY <1>3, <1>4
  <2> HIDE DEF h
  <2>3. QED
    BY ONLY <1>1, <1>6, <1>7, <2>1, <2>2
<1>9. QED
  BY <1>5, <1>8 DEF RemovalsAccounted, InFlight, Socket, Hand, Channel

LEMMA StillAccounts ==
  ASSUME TypeOK, RemovalsAccounted, UNCHANGED <<kq, held, chan, counters>>
  PROVE  RemovalsAccounted'
  BY DEF RemovalsAccounted, InFlight, counters

-----------------------------------------------------------------------------
(* Types                                                                    *)

(* The rest of TypeOK.                                                      *)
OtherTypes ==
  /\ unit \in {"active", "failed", "inactive"}
  /\ level \in Levels
  /\ term \in BOOLEAN
  /\ main \in {"select", "primary", "list", "pause", "act", "stopped"}
  /\ panic \in PanicPc \cup {"none", "done", "failed"}
  /\ todo \in SUBSET VM
  /\ dom \in [VM -> {"absent", "running", "paused"}]
  /\ sys \in {"on", "asleep", "off"}
  /\ queued \in BOOLEAN
  /\ locked \in BOOLEAN
  /\ wiped \in BOOLEAN
  /\ born \in SUBSET VM
  /\ missed \in SUBSET VM

(* What balances the account keeps every counter within its bound.            *)
LEMMA TypeOKNext ==
  ASSUME QueueTypes', RemovalsAccounted', OtherTypes'
  PROVE  TypeOK'
<1>1. fired' \in 0..MaxPull /\ dropped' \in 0..MaxPull
  <2>1. /\ Socket' \in Nat /\ Hand' \in Nat /\ Channel' \in Nat
        /\ pulled' \in Nat /\ fired' \in Nat /\ dropped' \in Nat
    BY PartTypesNext
  <2>2. InFlight' \in Nat
    BY <2>1 DEF InFlight, Socket, Hand, Channel
  <2>3. pulled' \in 0..MaxPull
    BY DEF QueueTypes
  <2>4. pulled' = fired' + dropped' + InFlight'
    BY DEF RemovalsAccounted
  <2>5. \A f, d, i \in Nat, p \in 0..MaxPull :
           p = f + d + i => f \in 0..MaxPull /\ d \in 0..MaxPull
    BY SizeAssumption
  <2>6. QED
    BY ONLY <2>1, <2>2, <2>3, <2>4, <2>5, Zenon
<1>2. QED
  BY <1>1 DEF TypeOK, QueueTypes, OtherTypes

LEMMA TypeParts ==
  ASSUME TypeOK
  PROVE  OtherTypes
  BY DEF TypeOK, OtherTypes

-----------------------------------------------------------------------------
(* Control and Listed                                                       *)

Rest == OtherTypes /\ Control /\ Listed

LEMMA UsbRest ==
  ASSUME Rest, UsbStep
  PROVE  Rest'
<1>1. /\ UNCHANGED <<unit, level, term, main, panic, todo, wiped, missed, dom, born, sys, queued,
                  locked>>
  BY UsbFrame DEF unitVars, panicVars, xenVars, sysVars
<1>2. OtherTypes'
  BY <1>1 DEF Rest, OtherTypes
<1>3. Control'
  <2>1. ASSUME NEW d \in Dev, Plug(d) \/ Unplug(d) PROVE Control'
    BY <1>1, <2>1 DEF Rest, Control, Plug, Unplug, Notify, monVars
  <2>2. ASSUME MonitorRead PROVE Control'
    <3>1. held' # "none"
      BY <2>2 DEF MonitorRead, Classify
    <3>2. QED
      BY <1>1, <2>2, <3>1 DEF Rest, Control, MonitorRead
  <2>3. ASSUME MonitorSend \/ MonitorEnds PROVE Control'
    BY <1>1, <2>3 DEF Rest, Control, MonitorSend, MonitorEnds
  <2>4. QED
    BY <2>1, <2>2, <2>3 DEF UsbStep, MonitorStep
<1>4. Listed'
  BY <1>1 DEF Rest, Listed, Live, Running
<1>5. QED
  BY <1>2, <1>3, <1>4 DEF Rest

LEMMA EndRest ==
  ASSUME Rest, NEW u \in {"inactive", "failed"}, Die(u)
  PROVE  Rest'
<1>1. OtherTypes'
  BY DEF Rest, OtherTypes, Die, Forget, sysVars
<1>2. Running' = Running /\ queued' = queued /\ (queued => born' = born /\ missed' = missed)
  BY DEF Die, Forget, Running, sysVars
<1>3. Control' /\ Listed'
  BY <1>2 DEF Rest, Die, Control, Listed
<1>4. QED
  BY <1>1, <1>3 DEF Rest

LEMMA ReceiveRest ==
  ASSUME Rest, MainReceives
  PROVE  Rest'
<1>1. OtherTypes'
  BY DEF Rest, OtherTypes, MainReceives, SpawnPanic, PanicPc, unitVars, xenVars, sysVars
<1>2. Control'
  BY DEF Rest, Control, MainReceives, SpawnPanic, unitVars, devVars, monVars
<1>3. Listed'
  BY DEF Rest, Listed, Control, Live, Running, MainReceives, SpawnPanic, unitVars, xenVars, sysVars
<1>4. QED
  BY <1>1, <1>2, <1>3 DEF Rest

LEMMA StartRest ==
  ASSUME Rest, Start
  PROVE  Rest'
<1>1. OtherTypes'
  BY DEF Rest, OtherTypes, Start, panicVars, xenVars, sysVars
<1>2. Running' = Running
  BY DEF Start, Running, xenVars
<1>3. Control' /\ Listed'
  BY <1>2 DEF Rest, Control, Listed, Start, devVars, panicVars, xenVars, sysVars
<1>4. QED
  BY <1>1, <1>3 DEF Rest

(* Handling one domain keeps every domain on one of the three lists.          *)
LEMMA HandleCovers ==
  ASSUME OtherTypes, NEW v, NEW result \in {"paused", "absent"}, Handle(v, result),
         UNCHANGED born
  PROVE  /\ todo' \in SUBSET VM /\ missed' \in SUBSET VM
         /\ dom' \in [VM -> {"absent", "running", "paused"}]
         /\ Running \subseteq todo \cup born \cup missed
              => Running' \subseteq todo' \cup born' \cup missed'
         /\ Running \subseteq born \cup missed => Running' \subseteq born' \cup missed'
         /\ result = "absent" /\ Live \subseteq todo \cup born \cup missed
              => Live' \subseteq todo' \cup born' \cup missed'
<1>1. v \in todo /\ todo' = todo \ {v} /\ v \in VM
  BY DEF Handle, OtherTypes
<1>2. CASE v \in Live /\ dom' = [dom EXCEPT ![v] = result] /\ UNCHANGED missed
  <2>1. /\ dom' \in [VM -> {"absent", "running", "paused"}]
        /\ missed' \in SUBSET VM
    BY <1>2 DEF OtherTypes
  <2>2. \A w \in VM : dom'[w] = IF w = v THEN result ELSE dom[w]
    BY <1>2 DEF OtherTypes
  <2>3. Running' = Running \ {v}
    BY <2>2 DEF Running
  <2>4. result = "absent" => Live' = Live \ {v}
    BY <2>2 DEF Live
  <2>5. QED
    BY <1>1, <1>2, <2>1, <2>3, <2>4 DEF OtherTypes
<1>3. CASE missed' = missed \cup ({v} \cap Live) /\ UNCHANGED dom
  <2>1. Running' = Running /\ Live' = Live /\ Running \subseteq Live
    BY <1>3 DEF Running, Live
  <2>2. QED
    BY <1>1, <1>3, <2>1 DEF OtherTypes
<1>4. QED
  BY <1>2, <1>3 DEF Handle

LEMMA TakeListCovers ==
  ASSUME OtherTypes, TakeList, UNCHANGED dom
  PROVE  /\ todo' \in SUBSET VM /\ missed' \in SUBSET VM /\ born' \in SUBSET VM
         /\ Running' \subseteq Live' /\ Live' \subseteq todo' \cup born' \cup missed'
         /\ queued /\ Running \subseteq born \cup missed => Running' \subseteq born' \cup missed'
<1>1. Live' = Live /\ Live \in SUBSET VM
  BY DEF Live
<1>2. Running' \subseteq Live' /\ Running' = Running
  BY DEF Running, Live
<1>3. todo' \in SUBSET VM /\ missed' \in SUBSET VM /\ born' \in SUBSET VM
  BY <1>1 DEF TakeList, OtherTypes
<1>4. QED
  BY <1>1, <1>2, <1>3 DEF TakeList

LEMMA PrimaryReturnsRest ==
  ASSUME Rest, PrimaryReturns
  PROVE  Rest'
<1>1. OtherTypes'
  BY DEF Rest, OtherTypes, PrimaryReturns, Forget, unitVars, sysVars
<1>2. Control' /\ Listed'
  <2>1. Running' = Running
    BY DEF PrimaryReturns, Running
  <2>2. queued' = queued /\ (queued => born' = born /\ missed' = missed)
    BY DEF PrimaryReturns, Forget, sysVars
  <2>3. Control'
    BY DEF Rest, Control, PrimaryReturns, unitVars, devVars, monVars
  <2>4. Listed'
    BY <2>1, <2>2 DEF Rest, Control, Listed, PrimaryReturns, unitVars
  <2>5. QED
    BY <2>3, <2>4
<1>3. QED
  BY <1>1, <1>2 DEF Rest

LEMMA FallbackRest ==
  ASSUME Rest, FallbackList \/ FallbackPause \/ FallbackAct
  PROVE  Rest'
<1>1. CASE FallbackList
  <2>1. /\ OtherTypes' /\ Running' \subseteq todo' \cup born' \cup missed'
        /\ queued /\ Running \subseteq born \cup missed => Running' \subseteq born' \cup missed'
    BY <1>1, TakeListCovers DEF Rest, OtherTypes, FallbackList, unitVars, sysVars
  <2>2. Control' /\ Listed'
    BY <1>1, <2>1 DEF Rest, Control, Listed, FallbackList, unitVars, devVars, monVars, sysVars
  <2>3. QED
    BY <2>1, <2>2 DEF Rest
<1>2. CASE FallbackPause
  <2>1. panic = "none" /\ panic' = panic /\ main = "pause"
    BY <1>2 DEF Rest, Control, FallbackPause
  <2>2. Control'
    BY <1>2, <2>1 DEF Rest, Control, FallbackPause, unitVars, devVars, monVars
  <2>3. Running \subseteq todo \cup born \cup missed
    BY <2>1 DEF Rest, Listed
  <2>4. CASE todo = {}
    <3>1. main' = "act" /\ UNCHANGED <<todo, dom, missed, born>>
      BY <1>2, <2>4 DEF FallbackPause
    <3>2. Running' = Running
      BY <3>1 DEF Running
    <3>3. OtherTypes'
      BY <1>2, <3>1 DEF Rest, OtherTypes, FallbackPause, unitVars, sysVars
    <3>4. Listed'
      BY <1>2, <2>1, <2>3, <2>4, <3>1, <3>2 DEF Rest, Listed, FallbackPause, sysVars
    <3>5. QED
      BY <2>2, <3>3, <3>4 DEF Rest
  <2>5. CASE todo # {}
    <3>1. PICK v \in todo : Handle(v, "paused")
      BY <1>2, <2>5 DEF FallbackPause
    <3>2. main' = "pause" /\ UNCHANGED born
      BY <1>2, <2>1, <2>5 DEF FallbackPause
    <3>3. /\ todo' \in SUBSET VM /\ missed' \in SUBSET VM
          /\ dom' \in [VM -> {"absent", "running", "paused"}]
          /\ Running' \subseteq todo' \cup born' \cup missed'
          /\ Running \subseteq born \cup missed => Running' \subseteq born' \cup missed'
      BY <2>3, <3>1, <3>2, HandleCovers DEF Rest
    <3>4. OtherTypes'
      BY <1>2, <3>2, <3>3 DEF Rest, OtherTypes, FallbackPause, unitVars, sysVars
    <3>5. Listed'
      BY <1>2, <2>1, <3>2, <3>3 DEF Rest, Listed, FallbackPause, sysVars
    <3>6. QED
      BY <2>2, <3>4, <3>5 DEF Rest
  <2>6. QED
    BY <2>4, <2>5
<1>3. CASE FallbackAct
  <2>1. OtherTypes'
    BY <1>3 DEF Rest, OtherTypes, FallbackAct, Forget, unitVars, sysVars
  <2>2. Control'
    BY <1>3 DEF Rest, Control, FallbackAct, unitVars, devVars, monVars
  <2>3. Running' = Running /\ (queued' => born' = born /\ missed' = missed)
    BY <1>3 DEF FallbackAct, Forget, Running
  <2>4. queued' => queued \/ (main = "act" /\ level # "lock")
    BY <1>3 DEF FallbackAct, sysVars
  <2>5. Listed'
    BY <1>3, <2>3, <2>4 DEF Rest, Control, Listed, FallbackAct
  <2>6. QED
    BY <2>1, <2>2, <2>5 DEF Rest
<1>4. QED
  BY <1>1, <1>2, <1>3

LEMMA StopVmsRest ==
  ASSUME Rest, StopVms
  PROVE  Rest'
<1>1. /\ panic = "vms" /\ main = "primary" /\ level \in {"suspend", "nuke"}
      /\ UNCHANGED <<unitVars, devVars, monVars, chan, main, wiped, born, sysVars>>
  BY LevelAssumption DEF Rest, OtherTypes, Control, StopVms, Runs
<1>2. /\ Running \subseteq todo \cup born \cup missed
      /\ level = "nuke" => Live \subseteq todo \cup born \cup missed
  BY <1>1 DEF Rest, Listed
<1>3. CASE todo = {}
  <2>1. /\ panic' = IF level = "suspend" THEN "power" ELSE "wipe"
        /\ UNCHANGED <<todo, dom, missed>>
    BY <1>3 DEF StopVms
  <2>2. OtherTypes' /\ Control'
    BY <1>1, <2>1 DEF Rest, OtherTypes, Control, PanicPc, unitVars, devVars, monVars, sysVars
  <2>3. Running' = Running /\ Live' = Live
    BY <2>1 DEF Running, Live
  <2>4. Listed'
    BY <1>1, <1>2, <1>3, <2>1, <2>3 DEF Rest, Listed, unitVars, sysVars
  <2>5. QED
    BY <2>2, <2>4 DEF Rest
<1>4. CASE todo # {}
  <2> DEFINE result == IF level = "suspend" THEN "paused" ELSE "absent"
  <2>1. PICK v \in todo : Handle(v, result)
    BY <1>4 DEF StopVms
  <2>2. panic' = panic
    BY <1>4 DEF StopVms
  <2>3. /\ todo' \in SUBSET VM /\ missed' \in SUBSET VM
        /\ dom' \in [VM -> {"absent", "running", "paused"}]
        /\ Running' \subseteq todo' \cup born' \cup missed'
        /\ Running \subseteq born \cup missed => Running' \subseteq born' \cup missed'
        /\ level = "nuke" => Live' \subseteq todo' \cup born' \cup missed'
    BY <1>1, <1>2, <2>1, HandleCovers DEF Rest
  <2>4. OtherTypes' /\ Control'
    BY <1>1, <2>2, <2>3 DEF Rest, OtherTypes, Control, unitVars, devVars, monVars, sysVars
  <2>5. Listed'
    BY <1>1, <2>2, <2>3 DEF Rest, Listed, unitVars, sysVars
  <2>6. QED
    BY <2>4, <2>5 DEF Rest
<1>5. QED
  BY <1>3, <1>4

LEMMA PanicRest ==
  ASSUME Rest, PanicStep
  PROVE  Rest'
<1>1. CASE LockSessions \/ Hyprlock
  <2>1. /\ UNCHANGED <<unitVars, devVars, monVars, chan, main, todo, wiped, missed, xenVars, sys, queued>>
        /\ panic' \in {"hypr", "done"} /\ locked' \in BOOLEAN /\ main = "primary" /\ level = "lock"
    BY <1>1 DEF Rest, OtherTypes, Control, LockSessions, Hyprlock, Runs
  <2>2. OtherTypes' /\ Control' /\ Listed'
    BY <2>1 DEF Rest, OtherTypes, Control, Listed, Running, PanicPc, unitVars, devVars, monVars, xenVars
  <2>3. QED
    BY <2>2 DEF Rest
<1>2. CASE ListVms
  <2>1. /\ OtherTypes'
        /\ Running' \subseteq todo' \cup born' \cup missed'
        /\ Live' \subseteq todo' \cup born' \cup missed'
        /\ queued /\ Running \subseteq born \cup missed => Running' \subseteq born' \cup missed'
    BY <1>2, TakeListCovers DEF Rest, OtherTypes, ListVms, PanicPc, unitVars, sysVars
  <2>2. Control' /\ Listed'
    BY <1>2, <2>1 DEF Rest, Control, Listed, ListVms, Runs, unitVars, devVars, monVars, sysVars
  <2>3. QED
    BY <2>1, <2>2 DEF Rest
<1>3. CASE StopVms
  BY <1>3, StopVmsRest
<1>4. CASE WriteState
  <2>1. OtherTypes' /\ Control' /\ Listed'
    BY <1>4 DEF Rest, OtherTypes, Control, Listed, Running, WriteState, Runs, PanicPc,
                unitVars, devVars, monVars, xenVars
  <2>2. QED
    BY <2>1 DEF Rest
<1>5. CASE Wipe
  <2>1. Live' = Live /\ Running' = Running
    BY <1>5 DEF Wipe, xenVars, Live, Running
  <2>2. OtherTypes' /\ Control' /\ Listed'
    BY <1>5, <2>1 DEF Rest, OtherTypes, Control, Listed, Wipe, Runs, PanicPc,
                      unitVars, devVars, monVars, xenVars, sysVars
  <2>3. QED
    BY <2>2 DEF Rest
<1>6. CASE PowerOff
  <2>1. Live' = Live /\ Running' = Running
    BY <1>6 DEF PowerOff, xenVars, Live, Running
  <2>2. OtherTypes' /\ Control' /\ Listed'
    BY <1>6, <2>1 DEF Rest, OtherTypes, Control, Listed, PowerOff,
                      unitVars, devVars, monVars, panicVars, xenVars
  <2>3. QED
    BY <2>2 DEF Rest
<1>7. QED
  BY <1>1, <1>2, <1>3, <1>4, <1>5, <1>6 DEF PanicStep

LEMMA GuestRest ==
  ASSUME Rest, NEW v \in VM, VmStarts(v) \/ VmEnds(v)
  PROVE  Rest'
<1>1. UNCHANGED <<unitVars, devVars, monVars, chan, main, panicVars, sysVars>>
  BY DEF VmStarts, VmEnds
<1>2. CASE VmStarts(v)
  <2>1. /\ dom' = [dom EXCEPT ![v] = "running"]
        /\ born' = IF main = "select" /\ ~queued THEN born ELSE born \cup {v}
    BY <1>2 DEF VmStarts
  <2>2. \A w \in VM : dom'[w] = IF w = v THEN "running" ELSE dom[w]
    BY <2>1 DEF Rest, OtherTypes
  <2>3. Running' = Running \cup {v} /\ Live' = Live \cup {v}
    BY <2>2 DEF Running, Live
  <2>4. main = "select" => panic = "none"
    BY DEF Rest, Control
  <2>5. OtherTypes' /\ Control'
    BY <1>1, <2>1 DEF Rest, OtherTypes, Control, unitVars, devVars, monVars, panicVars, sysVars
  <2>6. Listed'
    BY <1>1, <2>1, <2>3, <2>4 DEF Rest, Listed, unitVars, panicVars, sysVars
  <2>7. QED
    BY <2>5, <2>6 DEF Rest
<1>3. CASE VmEnds(v)
  <2>1. dom' = [dom EXCEPT ![v] = "absent"] /\ born' = born
    BY <1>3 DEF VmEnds
  <2>2. \A w \in VM : dom'[w] = IF w = v THEN "absent" ELSE dom[w]
    BY <2>1 DEF Rest, OtherTypes
  <2>3. Running' \subseteq Running /\ Live' \subseteq Live
    BY <2>2 DEF Running, Live
  <2>4. OtherTypes' /\ Control'
    BY <1>1, <2>1 DEF Rest, OtherTypes, Control, unitVars, devVars, monVars, panicVars, sysVars
  <2>5. Listed'
    BY <1>1, <2>1, <2>3 DEF Rest, Listed, unitVars, panicVars, sysVars
  <2>6. QED
    BY <2>4, <2>5 DEF Rest
<1>4. QED
  BY <1>2, <1>3

LEMMA OutsideRest ==
  ASSUME Rest, Signal \/ Sleeps \/ Wake
  PROVE  Rest'
<1>1. CASE Sleeps
  <2>1. /\ UNCHANGED <<unitVars, devVars, monVars, chan, main, panic, todo, wiped, dom, locked>>
        /\ sys' \in {"asleep", "on"} /\ queued' = FALSE
        /\ \/ main \in {"select", "stopped"} /\ born' = {} /\ missed' = {}
           \/ UNCHANGED <<born, missed>>
    BY <1>1 DEF Sleeps, Forget
  <2>2. main \in {"select", "stopped"} => panic = "none"
    BY DEF Rest, Control
  <2>3. Live' = Live /\ Running' = Running
    BY <2>1 DEF Live, Running
  <2>4. OtherTypes' /\ Control'
    BY <2>1 DEF Rest, OtherTypes, Control, unitVars, devVars, monVars
  <2>5. Listed'
    BY <2>1, <2>2, <2>3 DEF Rest, Listed, unitVars
  <2>6. QED
    BY <2>4, <2>5 DEF Rest
<1>2. SUFFICES ASSUME Signal \/ Wake PROVE Rest'
  BY <1>1
<1>3. /\ UNCHANGED <<unit, level, devVars, monVars, chan, main, todo, wiped, missed, xenVars, queued, locked>>
      /\ term' \in BOOLEAN /\ sys' \in {"on", "asleep", "off"}
      /\ panic' = panic \/ (panic \in PanicPc /\ panic' = "failed")
  BY <1>2 DEF Rest, OtherTypes, Signal, Wake, unitVars, panicVars, sysVars
<1>4. Live' = Live /\ Running' = Running
  BY <1>3 DEF xenVars, Live, Running
<1>5. OtherTypes' /\ Control' /\ Listed'
  BY <1>3, <1>4 DEF Rest, OtherTypes, Control, Listed, PanicPc, devVars, monVars, xenVars
<1>6. QED
  BY <1>5 DEF Rest

LEMMA StutterRest ==
  ASSUME Rest, UNCHANGED vars
  PROVE  Rest'
<1>1. UNCHANGED <<unit, level, term, kq, mon, held, chan, main, panic, todo, wiped, missed, dom,
                  born, sys, queued, locked>>
  BY DEF vars, unitVars, devVars, monVars, panicVars, xenVars, sysVars
<1>2. Live' = Live /\ Running' = Running
  BY <1>1 DEF Live, Running
<1>3. QED
  BY <1>1, <1>2 DEF Rest, OtherTypes, Control, Listed

-----------------------------------------------------------------------------
(* The invariant                                                            *)

LEMMA InitInv ==
  ASSUME Init
  PROVE  IInv
<1>1. QueueTypes /\ OtherTypes /\ fired \in 0..MaxPull /\ dropped \in 0..MaxPull
  <2>1. dom \in [VM -> {"absent", "running", "paused"}]
    BY DEF Init
  <2>2. kq \in Seq(Event) /\ chan \in Seq(UsbEvent)
    BY EmptySeq DEF Init
  <2>3. 0 \in 0..MaxPull
    BY SizeAssumption
  <2>4. OtherTypes
    BY <2>1 DEF Init, OtherTypes
  <2>5. QueueTypes
    BY <2>2, <2>3, DevAssumption DEF Init, QueueTypes
  <2>6. QED
    BY <2>3, <2>4, <2>5 DEF Init
<1>2. TypeOK
  BY <1>1 DEF TypeOK, QueueTypes, OtherTypes
<1>3. RemovalsAccounted
  <2>1. Socket = 0 /\ Hand = 0 /\ Channel = 0
    BY CountEmpty DEF Init, Socket, Hand, Channel, Hit
  <2>2. InFlight = 0
    BY <2>1 DEF InFlight, Socket, Hand, Channel
  <2>3. QED
    BY <2>2 DEF Init, RemovalsAccounted
<1>4. Control /\ Listed
  BY DEF Init, Control, Listed
<1>5. QED
  BY <1>2, <1>3, <1>4 DEF IInv

LEMMA InvStep ==
  ASSUME IInv, [Next]_vars
  PROVE  IInv'
<1>1. TypeOK /\ RemovalsAccounted /\ Rest /\ QueueTypes
  BY TypeParts, QueueTypesHold DEF IInv, Rest
<1>2. SUFFICES QueueTypes' /\ RemovalsAccounted' /\ Rest'
  BY <1>2, TypeOKNext DEF IInv, Rest
<1>3. CASE UsbStep
  BY <1>1, <1>3, UsbAccounts, UsbRest DEF Rest
<1>4. CASE EndStep
  <2>1. PICK u \in {"inactive", "failed"} : Die(u)
    BY <1>4, EndFacts
  <2>2. QED
    BY <1>1, <2>1, EndAccounts, EndRest
<1>5. CASE MainReceives
  BY <1>1, <1>5, ReceiveAccounts, ReceiveRest
<1>6. CASE PanicSide
  <2>1. QueueTypes' /\ RemovalsAccounted'
    <3>1. UNCHANGED <<devVars, monVars, chan, counters>>
      BY <1>6, PanicFrame
    <3>2. RemovalsAccounted'
      BY <1>1, <3>1, StillAccounts DEF devVars, monVars
    <3>3. QueueTypes'
      BY <1>1, <3>1 DEF QueueTypes, devVars, monVars, counters
    <3>4. QED
      BY <3>2, <3>3
  <2>2. Rest'
    BY <1>1, <1>6, PrimaryReturnsRest, FallbackRest, PanicRest, GuestRest, OutsideRest
       DEF PanicSide
  <2>3. QED
    BY <2>1, <2>2
<1>7. CASE Start
  <2>1. UNCHANGED <<devVars, held, chan, counters>> /\ mon' = "reading"
    BY <1>7 DEF Start
  <2>2. RemovalsAccounted'
    BY <1>1, <2>1, StillAccounts DEF devVars
  <2>3. QueueTypes'
    BY <1>1, <2>1 DEF QueueTypes, devVars, counters
  <2>4. QED
    BY <1>1, <1>7, <2>2, <2>3, StartRest
<1>8. CASE UNCHANGED vars
  <2>1. UNCHANGED <<devVars, monVars, chan, counters>>
    BY <1>8 DEF vars
  <2>2. RemovalsAccounted'
    BY <1>1, <2>1, StillAccounts DEF devVars, monVars
  <2>3. QueueTypes'
    BY <1>1, <2>1 DEF QueueTypes, devVars, monVars, counters
  <2>4. QED
    BY <1>1, <1>8, <2>2, <2>3, StutterRest
<1>9. QED
  BY <1>3, <1>4, <1>5, <1>6, <1>7, <1>8, NextFamilies

LEMMA Invariance == Spec => []IInv
<1>1. Init => IInv
  BY InitInv
<1>2. IInv /\ [Next]_vars => IInv'
  BY InvStep
<1>3. QED
  BY <1>1, <1>2, PTL DEF Spec

-----------------------------------------------------------------------------
(* Results                                                                  *)

(* Every variable of the kill switch keeps its type; no more panics begin, and *)
(* no more removals are lost, than sticks were pulled.                       *)
THEOREM KillSwitchTypeCorrect == Spec => []TypeOK
<1>1. IInv => TypeOK
  BY DEF IInv
<1>2. QED
  BY <1>1, Invariance, PTL

(* For every number of sticks and every capacity of the channel and of the     *)
(* socket, and whatever crashes, restarts or ends in between: each pull of a   *)
(* registered stick began one panic, was lost in a named way or is in flight. *)
THEOREM KillSwitchAccounts == Spec => []RemovalsAccounted
<1>1. IInv => RemovalsAccounted
  BY DEF IInv
<1>2. QED
  BY <1>1, Invariance, PTL

(* trigger_panic and krypt-panic pause no guest at panic_level "lock", at any  *)
(* failure of a command, any crash and any number of guests.                 *)
THEOREM KillSwitchLockSparesVms == Spec => LockSparesVms
<1>1. ASSUME IInv, [Next]_vars, NEW v \in VM, dom[v] = "running", dom'[v] = "paused"
      PROVE  level # "lock"
  <2>1. UNCHANGED dom \/ FallbackPause \/ StopVms \/ \E w \in VM : VmStarts(w) \/ VmEnds(w)
    <3>1. CASE UsbStep
      BY <3>1, UsbFrame DEF xenVars
    <3>2. CASE EndStep
      BY <3>2, EndFacts DEF Die
    <3>3. CASE MainReceives \/ Start
      BY <3>3 DEF MainReceives, Start, xenVars
    <3>4. CASE PanicSide
      BY <3>4 DEF PanicSide, PanicStep, PrimaryReturns, FallbackList, FallbackAct,
                  LockSessions, Hyprlock, ListVms, WriteState, Wipe, PowerOff, Signal, Sleeps, Wake, xenVars
    <3>5. CASE UNCHANGED vars
      BY <3>5 DEF vars, xenVars
    <3>6. QED
      BY <1>1, <3>1, <3>2, <3>3, <3>4, <3>5, NextFamilies
  <2>2. CASE UNCHANGED dom
    BY <1>1, <2>2
  <2>3. CASE FallbackPause \/ StopVms
    BY <1>1, <2>3 DEF FallbackPause, StopVms, Runs, IInv, Control
  <2>4. ASSUME NEW w \in VM, VmStarts(w) \/ VmEnds(w) PROVE FALSE
    BY <1>1, <2>4 DEF VmStarts, VmEnds, IInv, TypeOK
  <2>5. QED
    BY <2>1, <2>2, <2>3, <2>4
<1>2. IInv /\ [Next]_vars =>
        [\A v \in VM : dom[v] = "running" /\ dom'[v] = "paused" => level # "lock"]_vars
  BY <1>1
<1>3. QED
  BY <1>2, Invariance, PTL DEF Spec, LockSparesVms

(* Whatever panic_level, guests, commands and failures: when a panic suspends  *)
(* or powers off the system, each domain of its listing was dealt with, and   *)
(* krypt-panic's power-off comes after the wipe.                             *)
THEOREM KillSwitchListedVmsFirst == Spec => ListedVmsFirst
<1>1. ASSUME IInv, [Next]_vars, sys = "on", sys' # "on"
      PROVE  /\ \A v \in VM : dom[v] = "running" => v \in born \cup missed
             /\ panic = "off" => wiped /\ Live \subseteq born \cup missed
  <2>1. FallbackAct \/ WriteState \/ PowerOff \/ Sleeps
    <3>1. CASE UsbStep
      BY <1>1, <3>1, UsbFrame DEF sysVars
    <3>2. CASE EndStep
      BY <1>1, <3>2, EndFacts DEF Die, sysVars
    <3>3. CASE MainReceives \/ Start
      BY <1>1, <3>3 DEF MainReceives, Start, sysVars
    <3>4. CASE PanicSide
      BY <1>1, <3>4 DEF PanicSide, PanicStep, PrimaryReturns, FallbackList, FallbackPause,
                  LockSessions, Hyprlock, ListVms, StopVms, Wipe, VmStarts, VmEnds, Signal, Wake,
                  sysVars
    <3>5. CASE UNCHANGED vars
      BY <1>1, <3>5 DEF vars, sysVars
    <3>6. QED
      BY <1>1, <3>1, <3>2, <3>3, <3>4, <3>5, NextFamilies
  <2>2. CASE FallbackAct
    <3>1. main = "act" /\ level # "lock" /\ panic = "none"
      BY <1>1, <2>2 DEF FallbackAct, IInv, Control, sysVars
    <3>2. Running \subseteq born \cup missed
      BY <1>1, <3>1 DEF IInv, Listed
    <3>3. QED
      BY <3>1, <3>2 DEF Running
  <2>3. CASE WriteState
    BY <1>1, <2>3 DEF WriteState, Runs, IInv, Listed, Running
  <2>4. CASE PowerOff
    BY <1>1, <2>4 DEF PowerOff, Runs, IInv, Control, Listed, Live
  <2>5. CASE Sleeps
    <3>1. Running \subseteq born \cup missed
      BY <1>1, <2>5 DEF Sleeps, IInv, Listed
    <3>2. panic = "off" => wiped /\ Live \subseteq born \cup missed
      BY <1>1 DEF IInv, Control, Listed
    <3>3. QED
      BY <3>1, <3>2 DEF Running
  <2>6. QED
    BY <2>1, <2>2, <2>3, <2>4, <2>5
<1>2. IInv /\ [Next]_vars =>
        [sys = "on" /\ sys' # "on" =>
           /\ \A v \in VM : dom[v] = "running" => v \in born \cup missed
           /\ panic = "off" => wiped /\ Live \subseteq born \cup missed]_vars
  BY <1>1
<1>3. QED
  BY <1>2, Invariance, PTL DEF Spec, ListedVmsFirst

-----------------------------------------------------------------------------
(* KillSwitch implements StickGuard                                         *)

(* What of the state an alarm's stage and list are made of.                  *)
LEMMA SameAlarm ==
  ASSUME UNCHANGED <<level, main, panic, todo, sys>>
  PROVE  Stage' = Stage /\ Owed' = Owed
BY DEF Stage, Owed, PanicStage

(* The pending pulls are the balance of the three counters.                  *)
LEMMA Balance ==
  ASSUME IInv, IInv'
  PROVE  /\ InFlight \in Nat /\ InFlight' \in Nat
         /\ pulled = fired + dropped + InFlight
         /\ pulled' = fired' + dropped' + InFlight'
         /\ {pulled, fired, dropped, pulled', fired', dropped'} \subseteq Nat
<1>1. QueueTypes
  BY QueueTypesHold DEF IInv
<1>2. QueueTypes'
  BY SizeAssumption DEF IInv, TypeOK, QueueTypes
<1>3. InFlight = Socket + Hand + Channel /\ InFlight' = Socket' + Hand' + Channel'
  BY DEF InFlight, Socket, Hand, Channel
<1>4. QED
  BY <1>1, <1>2, <1>3, PartTypes, PartTypesNext DEF IInv, RemovalsAccounted

(* Around the port and the monitor a pull is noticed, or some are lost.      *)
LEMMA UsbGuards ==
  ASSUME IInv, IInv', UsbStep
  PROVE  [Guard!Next]_(Guard!vars)
<1>1. UNCHANGED <<unit, level, dom, sys, queued, locked, Stage, Owed, fired>>
  BY UsbFrame, SameAlarm DEF unitVars, panicVars, xenVars, sysVars
<1>2. PICK b \in Nat, b1 \in Nat : b = InFlight /\ b1 = InFlight'
  BY Balance
<1>3. CASE b1 = b
  BY <1>1, <1>2, <1>3 DEF Guard!vars
<1>4. CASE b1 < b
  <2>1. unit = "active" /\ sys = "on"
    <3>1. ASSUME NEW d \in Dev, Plug(d) \/ Unplug(d) PROVE b1 >= b
      <4>1. PICK n \in Nat, n1 \in Nat, f \in Nat : n = dropped /\ n1 = dropped' /\ f = fired
        BY Balance
      <4>2. PICK q \in Nat, q1 \in Nat : q = pulled /\ q1 = pulled'
        BY Balance
      <4>3. q = f + n + b /\ q1 = f + n1 + b1
        BY <1>1, <1>2, <4>1, <4>2, Balance
      <4>4. q1 - q >= n1 - n
        <5>1. CASE Plug(d)
          <6>1. n1 = n
            <7>1. Hit([dev |-> d, add |-> TRUE], Pull) = 0
              BY DEF Hit, Pull
            <7>2. QED
              BY <4>1, <5>1, <7>1 DEF Plug, Notify
          <6>2. QED
            BY <4>1, <4>2, <5>1, <6>1 DEF Plug
        <5>2. CASE Unplug(d)
          <6>1. PICK h \in Nat : h = Hit(d, Auth)
            BY HitType
          <6>2. n1 = n \/ n1 = n + h
            BY <4>1, <5>2, <6>1, NotifyStep DEF Unplug, IInv
          <6>3. q1 = q + h
            BY <4>2, <5>2, <6>1 DEF Unplug
          <6>4. QED
            BY <4>1, <4>2, <6>1, <6>2, <6>3
        <5>3. QED
          BY <3>1, <5>1, <5>2
      <4>5. {b, b1, f, n, n1, q, q1} \subseteq Nat
        BY <1>2, <4>1, <4>2
      <4>6. QED
        BY ONLY <4>3, <4>4, <4>5
    <3>2. QED
      BY <1>2, <1>4, <3>1 DEF UsbStep, MonitorStep, MonitorRead, MonitorSend, MonitorEnds
  <2>2. b1 \in 0 .. b
    BY <1>2, <1>4
  <2>3. Guard!Lose
    BY <1>1, <1>2, <2>1, <2>2 DEF Guard!Lose
  <2>4. QED
    BY <2>3 DEF Guard!Next
<1>5. CASE b1 > b
  <2>1. PICK n \in Nat, n1 \in Nat, f \in Nat : n = dropped /\ n1 = dropped' /\ f = fired
    BY Balance
  <2>2. PICK q \in Nat, q1 \in Nat : q = pulled /\ q1 = pulled'
    BY Balance
  <2>3. q = f + n + b /\ q1 = f + n1 + b1
    BY <1>1, <1>2, <2>1, <2>2, Balance
  <2>4. ASSUME pulled' = pulled, dropped' >= dropped PROVE FALSE
    <3>1. q1 = q /\ n1 >= n
      BY <2>1, <2>2, <2>4
    <3>2. {b, b1, f, n, n1, q, q1} \subseteq Nat
      BY <1>2, <2>1, <2>2
    <3>3. QED
      BY ONLY <1>5, <2>3, <3>1, <3>2
  <2>5. PICK d \in Dev : Unplug(d)
    <3>1. CASE MonitorStep \/ MonitorEnds
      <4>1. pulled' = pulled
        BY <3>1 DEF MonitorStep, MonitorRead, MonitorSend, MonitorEnds, counters
      <4>2. n1 >= n
        <5>1. PICK c \in Nat : c = Count(kq, Pull)
          BY QueueTypesHold DEF IInv
        <5>2. PICK g \in Nat : g = Hit(Head(kq), Pull)
          BY HitType
        <5>3. n1 = n \/ n1 = n + c \/ n1 = n + g
          BY <2>1, <3>1, <5>1, <5>2 DEF MonitorStep, MonitorRead, MonitorSend, MonitorEnds, counters
        <5>4. QED
          BY <2>1, <5>1, <5>2, <5>3
      <4>3. QED
        BY <2>1, <2>4, <4>1, <4>2
    <3>2. ASSUME NEW d \in Dev, Plug(d) PROVE FALSE
      <4>1. Hit([dev |-> d, add |-> TRUE], Pull) = 0
        BY DEF Hit, Pull
      <4>2. pulled' = pulled /\ n1 = n
        BY <2>1, <3>2, <4>1 DEF Plug, Notify
      <4>3. QED
        BY <2>1, <2>4, <4>2
    <3>3. QED
      BY <3>1, <3>2 DEF UsbStep
  <2>6. PICK h \in {0, 1} : h = Hit(d, Auth)
    BY DEF Hit
  <2>7. n1 = n \/ n1 = n + h
    BY <2>1, <2>5, <2>6, NotifyStep DEF Unplug, IInv
  <2>8. q1 = q + h
    BY <2>2, <2>5, <2>6 DEF Unplug
  <2>9. b1 = b + 1 /\ n1 = n /\ h = 1
    <3>1. {b, b1, f, n, n1, q, q1} \subseteq Nat /\ h \in {0, 1}
      BY <1>2, <2>1, <2>2, <2>6
    <3>2. QED
      BY ONLY <1>5, <2>3, <2>7, <2>8, <3>1
  <2>10. unit = "active" /\ sys # "off"
    <3>1. sys # "off"
      BY <2>5 DEF Unplug
    <3>2. CASE unit # "active"
      <4>1. Hit([dev |-> d, add |-> FALSE], Pull) = 1
        BY <2>6, <2>9 DEF Hit, Pull
      <4>2. n1 = n + 1
        BY <2>1, <2>5, <3>2, <4>1 DEF Unplug, Notify
      <4>3. QED
        BY <2>1, <2>9, <4>2
    <3>3. QED
      BY <3>1, <3>2
  <2>11. Guard!Notice
    BY <1>1, <1>2, <2>9, <2>10 DEF Guard!Notice
  <2>12. QED
    BY <2>11 DEF Guard!Next
<1>6. QED
  BY <1>2, <1>3, <1>4, <1>5

(* The end of the process ends the alarm and what was pending.               *)
LEMMA EndGuards ==
  ASSUME IInv, IInv', EndStep
  PROVE  Guard!Next
<1>1. unit = "active" /\ sys = "on"
  BY DEF EndStep, MainEnds, Crash
<1>2. PICK u \in {"inactive", "failed"} : Die(u)
  BY EndFacts
<1>3. unit' # "active" /\ UNCHANGED <<level, dom, sys, queued, locked>>
  BY <1>2 DEF Die, sysVars
<1>4. Stage' = "calm" /\ Owed' = {}
  BY <1>2 DEF Die, Stage, Owed
<1>5. InFlight' = 0
  <2>1. kq' = <<>> /\ held' = "none" /\ chan' = <<>>
    BY <1>2 DEF Die
  <2>2. Socket' = 0 /\ Hand' = 0 /\ Channel' = 0
    BY <2>1, CountEmpty DEF Socket, Hand, Channel, Hit
  <2>3. QED
    BY <2>2 DEF InFlight, Socket, Hand, Channel
<1>6. Guard!End
  BY <1>1, <1>3, <1>4, <1>5 DEF Guard!End
<1>7. QED
  BY <1>6 DEF Guard!Next

(* A receive begins the alarm of the pull it took from the channel.          *)
LEMMA ReceiveGuards ==
  ASSUME IInv, IInv', MainReceives
  PROVE  [Guard!Next]_(Guard!vars)
<1>1. unit = "active" /\ sys = "on" /\ main = "select" /\ UNCHANGED <<unit, level, dom, sys, queued, locked, todo>>
  BY DEF MainReceives, unitVars, xenVars, sysVars
<1>2. Stage = "calm" /\ Owed = {}
  BY <1>1 DEF Stage, Owed
<1>3. PICK b \in Nat, b1 \in Nat, f \in Nat, f1 \in Nat :
        b = InFlight /\ b1 = InFlight' /\ f = fired /\ f1 = fired'
  BY Balance
<1>4. PICK n \in Nat, q \in Nat : n = dropped /\ q = pulled
  BY Balance
<1>5. q = f + n + b /\ q = f1 + n + b1
  BY <1>3, <1>4, Balance DEF MainReceives
<1>0. {b, b1, f, f1, n, q} \subseteq Nat
  BY <1>3, <1>4
<1>6. CASE Head(chan) # "removed"
  <2>1. UNCHANGED <<main, panic>> /\ f1 = f
    BY <1>3, <1>6 DEF MainReceives
  <2>2. b1 = b
    BY ONLY <1>0, <1>5, <2>1
  <2>3. UNCHANGED <<Stage, Owed>>
    BY <1>1, <2>1, SameAlarm
  <2>4. QED
    BY <1>1, <1>3, <2>2, <2>3 DEF Guard!vars
<1>7. CASE Head(chan) = "removed"
  <2>1. main' = "primary" /\ panic' \in {"lock", "list", "failed"} /\ f1 = f + 1
    BY <1>3, <1>7 DEF MainReceives, SpawnPanic
  <2>2. f1 = f + 1
    BY <2>1
  <2>3. b > 0 /\ b1 = b - 1
    BY ONLY <1>0, <1>5, <2>2
  <2>4. Stage' = "raised" /\ Owed' = {}
    BY <1>1, <2>1 DEF Stage, Owed, PanicStage
  <2>5. Guard!Raise
    BY <1>1, <1>2, <1>3, <2>3, <2>4 DEF Guard!Raise
  <2>6. QED
    BY <2>5 DEF Guard!Next
<1>8. QED
  BY <1>6, <1>7

(* How krypt-panic and the inline path take an alarm from stage to stage.     *)
LEMMA PrimaryGuards ==
  ASSUME IInv, PrimaryReturns
  PROVE  UNCHANGED <<Stage, Owed, dom, sys, queued, locked>>
<1>1. sys = "on" /\ main = "primary" /\ UNCHANGED <<level, sys, queued, locked, dom, todo>>
  BY DEF PrimaryReturns, unitVars, sysVars
<1>2. CASE panic = "done"
  <2>1. Stage = "calm" /\ Stage' = "calm"
    BY <1>1, <1>2 DEF PrimaryReturns, Stage, PanicStage
  <2>2. QED
    BY <1>1, <2>1 DEF Owed
<1>3. CASE panic = "failed"
  <2>1. Stage = "raised" /\ Stage' = "raised"
    BY <1>1, <1>3 DEF PrimaryReturns, Stage, PanicStage
  <2>2. QED
    BY <1>1, <2>1 DEF Owed
<1>4. QED
  BY <1>2, <1>3 DEF PrimaryReturns

LEMMA ListGuards ==
  ASSUME IInv, FallbackList \/ ListVms, UNCHANGED <<unit, level, InFlight>>
  PROVE  Guard!List
<1>1. sys = "on" /\ level # "lock" /\ UNCHANGED <<dom, sys, queued, locked>>
  BY DEF FallbackList, ListVms, Runs, IInv, Control, sysVars
<1>2. Stage = "raised" /\ Stage' = "listed"
  <2>1. CASE FallbackList
    BY <2>1 DEF FallbackList, sysVars, Stage
  <2>2. CASE ListVms
    BY <2>2 DEF ListVms, Runs, sysVars, Stage, PanicStage, IInv, Control
  <2>3. QED
    BY <2>1, <2>2
<1>3. Owed' \in {Live, {}}
  BY <1>2 DEF FallbackList, ListVms, TakeList, Owed
<1>4. Live = Guard!Live
  BY DEF Live, Guard!Live
<1>5. QED
  BY <1>1, <1>2, <1>3, <1>4 DEF Guard!List

LEMMA HandleGuards ==
  ASSUME IInv, FallbackPause \/ StopVms, UNCHANGED <<unit, level, InFlight>>
  PROVE  [Guard!Next]_(Guard!vars)
<1>1. sys = "on" /\ level # "lock" /\ UNCHANGED <<sys, queued, locked>>
  BY DEF FallbackPause, StopVms, Runs, IInv, Control, sysVars
<1>2. Stage = "listed" /\ Stage' = "listed"
  <2>1. CASE FallbackPause
    <3>1. main = "pause" /\ main' \in {"pause", "act"}
      BY <2>1 DEF FallbackPause
    <3>2. QED
      BY <1>1, <3>1 DEF Stage
  <2>2. CASE StopVms
    <3>1. main = "primary" /\ main' = main /\ panic = "vms" /\ panic' \in {"vms", "power", "wipe"}
      BY <2>2 DEF StopVms, Runs, IInv, Control
    <3>2. QED
      BY <1>1, <3>1 DEF Stage, PanicStage
  <2>3. QED
    BY <2>1, <2>2
<1>3. Owed = todo /\ Owed' = todo'
  BY <1>2 DEF Owed
<1>4. CASE todo = {}
  <2>1. UNCHANGED <<todo, dom>>
    BY <1>4 DEF FallbackPause, StopVms
  <2>2. QED
    BY <1>1, <1>2, <1>3, <2>1 DEF Guard!vars
<1>5. CASE todo # {}
  <2>1. PICK v \in todo, r \in {"paused", "absent"} :
          Handle(v, r) /\ (r = "absent" => level = "nuke")
    <3>1. level \in {"suspend", "nuke"}
      BY <1>1, LevelAssumption DEF IInv, TypeOK
    <3>2. QED
      BY <1>5, <3>1 DEF FallbackPause, StopVms
  <2>2. v \in VM /\ Live = Guard!Live
    BY DEF IInv, TypeOK, Live, Guard!Live
  <2>3. Guard!Deal(v)
    BY <1>1, <1>2, <1>3, <2>1, <2>2 DEF Handle, Guard!Deal
  <2>4. QED
    BY <2>2, <2>3 DEF Guard!Next
<1>6. QED
  BY <1>4, <1>5

(* The system action, of the inline path and of krypt-panic: done or failed. *)
LEMMA ActGuards ==
  ASSUME IInv, FallbackAct \/ LockSessions \/ Hyprlock \/ WriteState \/ PowerOff,
         UNCHANGED <<unit, level, InFlight>>
  PROVE  [Guard!Next]_(Guard!vars)
<1> DEFINE Done == \/ level = "lock" /\ locked' = TRUE /\ UNCHANGED <<sys, queued>>
                   \/ level = "suspend" /\ sys' = "asleep" /\ UNCHANGED <<queued, locked>>
                   \/ level = "suspend" /\ queued' = TRUE /\ UNCHANGED <<sys, locked>>
                   \/ level = "nuke" /\ sys' = "off" /\ UNCHANGED <<queued, locked>>
                   \/ UNCHANGED <<sys, queued, locked>>
<1>1. sys = "on" /\ UNCHANGED <<dom, todo>>
  BY DEF FallbackAct, LockSessions, Hyprlock, WriteState, PowerOff, Runs, xenVars, panicVars
<1>2. level \in {"lock", "suspend", "nuke"} /\ locked \in BOOLEAN
  BY LevelAssumption DEF IInv, TypeOK
<1>3. CASE LockSessions /\ panic' = "hypr"
  <2>1. Stage = "raised" /\ Stage' = "raised" /\ UNCHANGED <<sys, queued, locked>>
    BY <1>1, <1>3 DEF LockSessions, Runs, Stage, PanicStage, IInv, Control
  <2>2. QED
    BY <1>1, <2>1 DEF Owed, Guard!vars
<1>4. CASE ~(LockSessions /\ panic' = "hypr")
  <2>1. Done /\ Stage' = "calm" /\ IF level = "lock" THEN Stage = "raised"
                                                     ELSE Stage = "listed" /\ todo = {}
    <3>1. CASE FallbackAct
      <4>1. Done
        BY <3>1 DEF FallbackAct, sysVars
      <4>2. main = "act" /\ main' = "select" /\ (level # "lock" => todo = {})
        BY <3>1 DEF FallbackAct, IInv, Listed
      <4>3. QED
        BY <1>1, <4>1, <4>2 DEF Stage
    <3>2. CASE LockSessions \/ Hyprlock
      <4>1. main = "primary" /\ main' = main /\ panic \in {"lock", "hypr"} /\ panic' = "done"
            /\ level = "lock" /\ UNCHANGED <<sys, queued>> /\ locked' \in {locked, TRUE}
        BY <1>4, <3>2 DEF LockSessions, Hyprlock, Runs, IInv, Control
      <4>2. QED
        BY <1>1, <4>1 DEF Stage, PanicStage
    <3>3. CASE WriteState
      <4>1. main = "primary" /\ main' = main /\ panic = "power" /\ panic' = "done"
            /\ level = "suspend" /\ todo = {} /\ sys' \in {"asleep", "on"} /\ UNCHANGED <<queued, locked>>
        BY <3>3 DEF WriteState, Runs, IInv, Control, Listed
      <4>2. QED
        BY <1>1, <4>1 DEF Stage, PanicStage
    <3>4. CASE PowerOff
      <4>1. main = "primary" /\ panic = "off" /\ level = "nuke" /\ todo = {} /\ sys' = "off"
            /\ UNCHANGED <<queued, locked>>
        BY <3>4 DEF PowerOff, Runs, IInv, Control, Listed
      <4>2. QED
        BY <1>1, <4>1 DEF Stage, PanicStage
    <3>5. QED
      BY <3>1, <3>2, <3>3, <3>4
  <2>2. Owed = {} /\ Owed' = {}
    BY <2>1 DEF Owed
  <2>3. Guard!Prepared
    BY <1>1, <2>1, <2>2 DEF Guard!Prepared
  <2>4. Guard!Act \/ Guard!GiveUp
    BY <1>1, <2>1, <2>2, <2>3 DEF Guard!Act, Guard!GiveUp
  <2>5. QED
    BY <2>4 DEF Guard!Next
<1>5. QED
  BY <1>3, <1>4

LEMMA WipeGuards ==
  ASSUME IInv, Wipe
  PROVE  UNCHANGED <<Stage, Owed, dom, sys, queued, locked>>
<1>1. /\ sys = "on" /\ main = "primary" /\ panic = "wipe" /\ panic' = "off"
      /\ UNCHANGED <<main, todo, dom, sys, queued, locked>>
  BY DEF Wipe, Runs, IInv, Control, xenVars, sysVars
<1>2. Stage = "listed" /\ Stage' = "listed"
  BY <1>1 DEF Stage, PanicStage
<1>3. QED
  BY <1>1, <1>2 DEF Owed

(* Everybody else: guests, signals, the wake-up and the restart.             *)
LEMMA OutsideGuards ==
  ASSUME IInv, UNCHANGED InFlight,
         (\E v \in VM : VmStarts(v) \/ VmEnds(v)) \/ Signal \/ Sleeps \/ Wake \/ Start
  PROVE  [Guard!Next]_(Guard!vars)
<1>1. ASSUME NEW v \in VM, VmStarts(v) \/ VmEnds(v) PROVE Guard!Next
  <2>1. UNCHANGED <<unit, level, main, panic, todo, sys, queued, locked>>
    BY <1>1 DEF VmStarts, VmEnds, unitVars, panicVars, sysVars
  <2>2. UNCHANGED <<Stage, Owed>>
    BY <2>1, SameAlarm
  <2>3. Guard!GuestStarts(v) \/ Guard!GuestEnds(v)
    BY <1>1, <2>1, <2>2 DEF VmStarts, VmEnds, Guard!GuestStarts, Guard!GuestEnds, Guard!Live
  <2>4. QED
    BY <2>3 DEF Guard!Next
<1>2. ASSUME Signal PROVE [Guard!Next]_(Guard!vars)
  <2>1. sys = "on" /\ UNCHANGED <<unit, level, main, todo, dom, sys, queued, locked>>
    BY <1>2 DEF Signal, xenVars, sysVars
  <2>2. CASE panic' = panic
    <3>1. UNCHANGED <<Stage, Owed>>
      BY <2>1, <2>2, SameAlarm
    <3>2. QED
      BY <2>1, <3>1 DEF Guard!vars
  <2>3. CASE panic \in PanicPc /\ panic' = "failed"
    <3>1. main = "primary" /\ Stage \in {"raised", "listed"} /\ Stage' = "raised"
      BY <2>1, <2>3 DEF PanicPc, Stage, PanicStage, IInv, Control
    <3>2. Owed' = {}
      BY <3>1 DEF Owed
    <3>3. CASE Stage = "raised"
      BY <2>1, <3>1, <3>2, <3>3 DEF Owed, Guard!vars
    <3>4. CASE Stage = "listed"
      <4>1. Guard!Falter
        BY <2>1, <3>1, <3>2, <3>4 DEF Guard!Falter
      <4>2. QED
        BY <4>1 DEF Guard!Next
    <3>5. QED
      BY <3>1, <3>3, <3>4
  <2>4. QED
    BY <1>2, <2>2, <2>3 DEF Signal
<1>3. ASSUME Wake PROVE Guard!Next
  <2>1. sys = "asleep" /\ sys' = "on" /\ UNCHANGED <<unit, level, main, panic, todo, dom, queued, locked>>
    BY <1>3 DEF Wake, unitVars, panicVars, xenVars
  <2>2. UNCHANGED <<Stage, Owed>>
    BY <2>1 DEF Stage, Owed, PanicStage
  <2>3. QED
    BY <2>1, <2>2 DEF Guard!Wake, Guard!Next
<1>4. ASSUME Start PROVE Guard!Next
  <2>1. /\ unit # "active" /\ unit' = "active" /\ sys = "on" /\ level' \in Levels
        /\ main = "stopped" /\ main' = "select" /\ UNCHANGED <<todo, dom, sys, queued, locked>>
    BY <1>4 DEF Start, panicVars, xenVars, sysVars, IInv, Control
  <2>2. UNCHANGED <<Stage, Owed>>
    BY <2>1 DEF Stage, Owed
  <2>3. QED
    BY <2>1, <2>2 DEF Guard!Start, Guard!Next
<1>5. ASSUME Sleeps PROVE Guard!Next
  <2>1. /\ sys = "on" /\ queued /\ sys' \in {"asleep", "on"} /\ queued' = FALSE
        /\ UNCHANGED <<unit, level, main, panic, todo, dom, locked>>
    BY <1>5 DEF Sleeps, unitVars
  <2>2. UNCHANGED <<Stage, Owed>>
    BY <2>1 DEF Stage, Owed, PanicStage
  <2>3. QED
    BY <2>1, <2>2 DEF Guard!Sleep, Guard!Next
<1>6. QED
  BY <1>1, <1>2, <1>3, <1>4, <1>5

LEMMA GuardInit == Init => Guard!Init
<1> SUFFICES ASSUME Init PROVE Guard!Init
  OBVIOUS
<1>1. Stage = "calm" /\ Owed = {}
  BY DEF Init, Stage, Owed
<1>2. InFlight = 0
  <2>1. Socket = 0 /\ Hand = 0 /\ Channel = 0
    BY CountEmpty DEF Init, Socket, Hand, Channel, Hit
  <2>2. QED
    BY <2>1 DEF InFlight, Socket, Hand, Channel
<1>3. QED
  BY <1>1, <1>2 DEF Init, Guard!Init

LEMMA GuardStep ==
  ASSUME IInv, IInv', [Next]_vars
  PROVE  [Guard!Next]_(Guard!vars)
<1>1. CASE UsbStep
  BY <1>1, UsbGuards
<1>2. CASE EndStep
  BY <1>2, EndGuards
<1>3. CASE MainReceives
  BY <1>3, ReceiveGuards
<1>4. CASE PanicSide
  <2>1. UNCHANGED <<unit, level, InFlight>>
    BY <1>4, PanicFrame DEF InFlight, devVars, monVars
  <2>2. CASE PrimaryReturns \/ Wipe
    BY <2>1, <2>2, PrimaryGuards, WipeGuards DEF Guard!vars
  <2>3. CASE FallbackList \/ ListVms
    BY <2>1, <2>3, ListGuards DEF Guard!Next
  <2>4. CASE ~(PrimaryReturns \/ Wipe \/ FallbackList \/ ListVms)
    BY <1>4, <2>1, <2>4, HandleGuards, ActGuards, OutsideGuards DEF PanicSide, PanicStep
  <2>5. QED
    BY <2>2, <2>3, <2>4
<1>5. CASE Start
  <2>1. UNCHANGED InFlight
    BY <1>5 DEF Start, InFlight, devVars
  <2>2. QED
    BY <1>5, <2>1, OutsideGuards
<1>6. CASE UNCHANGED vars
  <2>1. UNCHANGED <<unit, level, main, panic, todo, sys, queued, locked, dom, kq, held, chan>>
    BY <1>6 DEF vars, unitVars, panicVars, sysVars, xenVars, devVars, monVars
  <2>2. UNCHANGED <<Stage, Owed, InFlight>>
    BY <2>1, SameAlarm DEF InFlight
  <2>3. QED
    BY <2>1, <2>2 DEF Guard!vars
<1>7. QED
  BY <1>1, <1>2, <1>3, <1>4, <1>5, <1>6, NextFamilies

(* For every number of sticks and guests, every capacity and every set of      *)
(* levels: from the port to the power switch the parts implement the abstract *)
(* kill switch, whichever of them fails, is killed or starts over.            *)
THEOREM KillSwitchGuards == Spec => OneAlarmPerPull
<1>1. IInv /\ IInv' /\ [Next]_vars => [Guard!Next]_(Guard!vars)
  BY GuardStep
<1>2. QED
  BY <1>1, GuardInit, Invariance, PTL DEF Spec, OneAlarmPerPull, Guard!Spec

-----------------------------------------------------------------------------
(* Nothing is stuck                                                         *)

(* Whom the main loop waits for is there, or left an exit status.             *)
Awaited == main = "primary" => panic # "none"

LEMMA AwaitedStep ==
  ASSUME Awaited, [Next]_vars
  PROVE  Awaited'
<1>1. CASE UsbStep
  BY <1>1, UsbFrame DEF Awaited, panicVars
<1>2. CASE EndStep
  BY <1>2, EndFacts DEF Awaited, Die
<1>3. CASE MainReceives
  BY <1>3 DEF Awaited, MainReceives, SpawnPanic
<1>4. CASE Start
  BY <1>4 DEF Awaited, Start
<1>5. CASE PanicSide
  <2>1. CASE PrimaryReturns \/ FallbackList \/ FallbackPause \/ FallbackAct
    BY <2>1 DEF Awaited, PrimaryReturns, FallbackList, FallbackPause, FallbackAct
  <2>2. CASE PanicStep
    BY <2>2 DEF Awaited, PanicStep, Runs, LockSessions, Hyprlock, ListVms, StopVms, WriteState, Wipe,
                PowerOff, panicVars
  <2>3. ASSUME NEW v \in VM, VmStarts(v) \/ VmEnds(v) PROVE Awaited'
    BY <2>3 DEF Awaited, VmStarts, VmEnds, panicVars
  <2>4. CASE Signal \/ Sleeps \/ Wake
    BY <2>4 DEF Awaited, Signal, Sleeps, Wake, panicVars
  <2>5. QED
    BY <1>5, <2>1, <2>2, <2>3, <2>4 DEF PanicSide
<1>6. CASE UNCHANGED vars
  BY <1>6 DEF Awaited, vars, panicVars
<1>7. QED
  BY <1>1, <1>2, <1>3, <1>4, <1>5, <1>6, NextFamilies

(* The safety half of "every removal is handled", for channel and socket of    *)
(* every capacity: monitor and main loop never both wait with nobody to end   *)
(* the wait.                                                                *)
THEOREM KillSwitchNeverStuck == Spec => []NeverStuck
<1>1. Init => Awaited
  BY DEF Init, Awaited
<1>2. Spec => []Awaited
  BY <1>1, AwaitedStep, PTL DEF Spec
<1>3. ASSUME IInv, Awaited PROVE NeverStuck
  <2>1. SUFFICES ASSUME unit = "active", InFlight > 0, ~MainCan PROVE MonitorCan \/ panic \in PanicPc
    BY DEF NeverStuck
  <2>2. /\ main \in {"select", "primary", "list", "pause", "act", "stopped"}
        /\ panic \in PanicPc \cup {"none", "done", "failed"}
        /\ mon \in {"reading", "sending", "ended"}
    BY <1>3 DEF IInv, TypeOK
  <2>3. CASE main = "primary"
    BY <1>3, <2>1, <2>2, <2>3 DEF Awaited, MainCan
  <2>4. CASE main = "select"
    <3>1. chan = <<>> /\ mon # "ended"
      BY <2>1, <2>4 DEF MainCan
    <3>2. CASE mon = "sending"
      BY <3>1, <3>2, SizeAssumption DEF MonitorCan
    <3>3. CASE mon = "reading"
      <4>1. held = "none"
        BY <1>3, <3>3 DEF IInv, Control
      <4>2. kq # <<>>
        BY <2>1, <3>1, <4>1, CountEmpty DEF InFlight, Hit
      <4>3. QED
        BY <3>3, <4>2 DEF MonitorCan
    <3>4. QED
      BY <2>2, <3>1, <3>2, <3>3
  <2>5. QED
    BY <1>3, <2>1, <2>2, <2>3, <2>4 DEF MainCan, IInv, Control
<1>4. QED
  BY <1>2, <1>3, Invariance, PTL
==============================================================================
