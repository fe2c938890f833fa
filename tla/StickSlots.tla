------------------------------ MODULE StickSlots ------------------------------
(***************************************************************************)
(* krypt-stick: 64 random bytes are written to a stick at offset 512 and,    *)
(* with a second command, put into a free key slot of the LUKS header.       *)
(* Several administrators may run setup, add-backup and revoke at once; a    *)
(* run is a chain of system calls and cryptsetup processes, each of which    *)
(* may fail, between which sticks are pulled and the power may go.  A key is *)
(* a number, drawn once: all that counts is where copies of it are.          *)
(***************************************************************************)
EXTENDS Integers, FiniteSets

CONSTANTS Stick,   \* the USB sticks
          Run,     \* processes of krypt-stick that can be alive at one time
          SlotMax, \* the highest slot number (31 in luks.rs)
          MaxKey,  \* bound: keys drawn from /dev/urandom
          Gpt, Blank, \* offset 512 of a stick holds a GPT header, or neither that nor a key
          None

Key        == 1 .. MaxKey
Passphrase == 0          \* the installer's own key, in slot 0 and on no stick
Slot       == 0 .. SlotMax
Contents   == Key \cup {Gpt, Blank}

ASSUME SizeAssumption  == SlotMax \in Nat /\ MaxKey \in Nat
ASSUME FreshAssumption == Gpt # Blank /\ {Gpt, Blank, None} \cap Nat = {} /\ None \notin Stick
                            /\ None \notin {Gpt, Blank}

VARIABLES header, \* slot -> its key, or None
          media,  \* stick -> what offset 512 durably holds
          cache,  \* stick -> the block in the page cache that is not yet written back, or None
          port,   \* the sticks that are plugged in
          run,    \* run -> where it is, its stick, key and slot
          made,   \* number of keys drawn
          home,   \* history: key -> the stick it was drawn for
          told,   \* history: keys whose run reported success
          written_over, \* history: keys some write has replaced on their stick
          revoked \* history: keys in slots that luksKillSlot was reported to have removed

runVars == <<run, made, home>>
diskVars == <<media, cache, port>>
history == <<told, written_over, revoked>>
stickVars == <<header, diskVars, runVars, history>>

Record(pc, st, k, s) == [pc |-> pc, stick |-> st, key |-> k, slot |-> s]
Idle == Record("idle", None, None, None)
Pcs  == {"idle", "checked", "sync", "slot", "add", "report", "kill"}

StickTypeOK ==
  /\ header \in [Slot -> Key \cup {Passphrase, None}]
  /\ media \in [Stick -> Contents]
  /\ cache \in [Stick -> Contents \cup {None}]
  /\ port \subseteq Stick
  /\ run \in [Run -> [pc : Pcs, stick : Stick \cup {None}, key : Key \cup {None}, slot : Slot \cup {None}]]
  /\ made \in 0 .. MaxKey
  /\ home \in [Key -> Stick \cup {None}]
  /\ told \subseteq Key /\ written_over \subseteq Key /\ revoked \subseteq Key \cup {Passphrase}

StickInit ==
  /\ header = [s \in Slot |-> IF s = 0 THEN Passphrase ELSE None]
  /\ media \in [Stick -> {Gpt, Blank}]
  /\ cache = [st \in Stick |-> None]
  /\ port \in SUBSET Stick
  /\ run = [r \in Run |-> Idle]
  /\ made = 0 /\ home = [k \in Key |-> None]
  /\ told = {} /\ written_over = {} /\ revoked = {}

View(st) == IF cache[st] # None THEN cache[st] ELSE media[st]  \* what a read returns
Goto(r, pc) == run' = [run EXCEPT ![r].pc = pc]

----------------------------------------------------------------------------
(* create::run_setup and backup::add                                         *)

CheckGpt(r, st) ==                    \* setup: exists, has_gpt_at_offset_512
  /\ run[r].pc = "idle" /\ st \in port
  /\ View(st) # Gpt
  /\ run' = [run EXCEPT ![r] = Record("checked", st, None, None)]
  /\ UNCHANGED <<header, diskVars, made, home, history>>

DrawAndWrite(r, st) ==                \* the key replaces what is at offset 512, in the cache
  /\ st \in port /\ made < MaxKey
  /\ made' = made + 1
  /\ home' = [home EXCEPT ![made + 1] = st]
  /\ cache' = [cache EXCEPT ![st] = made + 1]
  /\ written_over' = written_over \cup (({View(st)} \cup {media[st]}) \cap Key)
  /\ run' = [run EXCEPT ![r] = Record("sync", st, made + 1, None)]
  /\ UNCHANGED <<header, media, port, told, revoked>>

Confirm(r) == run[r].pc = "checked" /\ DrawAndWrite(r, run[r].stick)

AddBackup(r, st) == run[r].pc = "idle" /\ DrawAndWrite(r, st)  \* no look at what is there

Sync_IgnoresFailure(r) ==
  /\ run[r].pc = "sync"
  /\ \/ media' = [media EXCEPT ![run[r].stick] = View(run[r].stick)]
        /\ cache' = [cache EXCEPT ![run[r].stick] = None]
     \/ UNCHANGED <<media, cache>>
  /\ Goto(r, "slot")
  /\ UNCHANGED <<header, port, made, home, history>>

Sync(r) ==                            \* fsync succeeds
  /\ run[r].pc = "sync"
  /\ media' = [media EXCEPT ![run[r].stick] = View(run[r].stick)]
  /\ cache' = [cache EXCEPT ![run[r].stick] = None]
  /\ Goto(r, "slot")
  /\ UNCHANGED <<header, port, made, home, history>>

Free == {s \in Slot : header[s] = None}

PickSlot(r) ==                        \* next_free_slot: one luksDump
  /\ run[r].pc = "slot"
  /\ \E s \in Free :
       /\ \A t \in Free : s <= t
       /\ run' = [run EXCEPT ![r].pc = "add", ![r].slot = s]
  /\ UNCHANGED <<header, diskVars, made, home, history>>

AddKey_ReplacesTaken(r) ==
  /\ run[r].pc = "add"
  /\ header' = [header EXCEPT ![run[r].slot] = run[r].key]
  /\ Goto(r, "report")
  /\ UNCHANGED <<diskVars, made, home, history>>

AddKey_IgnoresStatus(r) ==
  /\ run[r].pc = "add"
  /\ header' = [header EXCEPT ![run[r].slot] = IF header[run[r].slot] = None THEN run[r].key ELSE @]
  /\ Goto(r, "report")
  /\ UNCHANGED <<diskVars, made, home, history>>

AddKey(r) ==                          \* luksAddKey --key-slot: refuses a slot in use
  /\ run[r].pc = "add"
  /\ header[run[r].slot] = None
  /\ header' = [header EXCEPT ![run[r].slot] = run[r].key]
  /\ Goto(r, "report")
  /\ UNCHANGED <<diskVars, made, home, history>>

Report(r) ==                          \* exit status 0
  /\ run[r].pc = "report"
  /\ told' = told \cup {run[r].key}
  /\ run' = [run EXCEPT ![r] = Idle]
  /\ UNCHANGED <<header, diskVars, made, home, written_over, revoked>>

----------------------------------------------------------------------------
(* revoke::slot                                                              *)

BeginRevoke(r, s) ==                  \* the list before
  /\ run[r].pc = "idle"
  /\ run' = [run EXCEPT ![r] = Record("kill", None, None, s)]
  /\ UNCHANGED <<header, diskVars, made, home, history>>

KillSlot_IgnoresStatus(r) ==
  /\ run[r].pc = "kill"
  /\ \/ header' = [header EXCEPT ![run[r].slot] = None]
     \/ UNCHANGED header
  /\ revoked' = revoked \cup ({header[run[r].slot]} \ {None})
  /\ run' = [run EXCEPT ![r] = Idle]
  /\ UNCHANGED <<diskVars, made, home, told, written_over>>

KillSlot(r) ==  \* luksKillSlot refuses an empty slot, not the last one; the list after it changes nothing
  /\ run[r].pc = "kill"
  /\ header[run[r].slot] # None
  /\ header' = [header EXCEPT ![run[r].slot] = None]
  /\ revoked' = revoked \cup {header[run[r].slot]}
  /\ run' = [run EXCEPT ![r] = Idle]
  /\ UNCHANGED <<diskVars, made, home, told, written_over>>

Fail(r) ==     \* any error return, a declined prompt, or the process is killed
  /\ run[r].pc # "idle"
  /\ run' = [run EXCEPT ![r] = Idle]
  /\ UNCHANGED <<header, diskVars, made, home, history>>

----------------------------------------------------------------------------
(* The kernel, the user's hands and the power                                *)

WriteBack(st) ==
  /\ cache[st] # None
  /\ media' = [media EXCEPT ![st] = cache[st]]
  /\ cache' = [cache EXCEPT ![st] = None]
  /\ UNCHANGED <<header, port, runVars, history>>

Plug(st) ==
  /\ st \notin port
  /\ port' = port \cup {st}
  /\ UNCHANGED <<header, media, cache, runVars, history>>

(* Unwritten data is lost; a run between write and fsync gets an I/O error.   *)
Unplug(st) ==
  /\ st \in port
  /\ port' = port \ {st}
  /\ cache' = [cache EXCEPT ![st] = None]
  /\ run' = [r \in Run |-> IF run[r].stick = st /\ run[r].pc \in {"checked", "sync"} THEN Idle ELSE run[r]]
  /\ UNCHANGED <<header, media, made, home, history>>

PowerLoss ==
  /\ run' = [r \in Run |-> Idle]
  /\ cache' = [st \in Stick |-> None]
  /\ UNCHANGED <<header, media, port, made, home, history>>

RunStep(r) ==
  \/ Confirm(r) \/ Sync(r) \/ PickSlot(r) \/ AddKey(r) \/ Report(r)
  \/ KillSlot(r) \/ Fail(r)

StickNext ==
  \/ \E r \in Run : RunStep(r)
  \/ \E r \in Run, st \in Stick : CheckGpt(r, st) \/ AddBackup(r, st)
  \/ \E r \in Run, s \in Slot : BeginRevoke(r, s)
  \/ \E st \in Stick : WriteBack(st)

HandsNext == \E st \in Stick : Plug(st) \/ Unplug(st)

StickSpec == StickInit /\ [][StickNext \/ HandsNext \/ PowerLoss]_stickVars

----------------------------------------------------------------------------
(* Properties                                                                *)

(* No slot is ever dead from the start (the hazard of backup.rs:26-29): a key *)
(* in the header is durably on the stick it was drawn for, whatever fails and *)
(* whenever the power goes, unless a later run wrote over that stick.        *)
NoDeadSlot ==
  \A s \in Slot : header[s] \in Key =>
    media[home[header[s]]] = header[s] \/ header[s] \in written_over

(* A run that reported success left a stick that opens the disk: its key is   *)
(* in the header until it is revoked, and on the stick until that is written  *)
(* over.  In particular two runs that chose the same free slot at once do    *)
(* not both report it.                                                       *)
ReportedStickOpens ==
  \A k \in told :
    /\ k \in revoked \/ \E s \in Slot : header[s] = k
    /\ k \in written_over \/ media[home[k]] = k

(* Once a revoke said so, the key is in no slot, and never again: neither a   *)
(* later run nor one under way brings it back, so that the stick never opens  *)
(* the system again (docs/usb-kill-switch.md:158).                           *)
RevokedStaysOut ==
  \A k \in revoked : \A s \in Slot : header[s] # k
=============================================================================
