------------------------------ MODULE BootHook ------------------------------
(***************************************************************************)
(* The initramfs hook (initramfs/hooks/krypt) over the sticks and the LUKS   *)
(* header that krypt-stick left: turn by turn it offers the key of every     *)
(* stick in a port to cryptsetup, until the device is open or the turns      *)
(* reach krypt_timeout and the passphrase prompt takes over.  Sticks come    *)
(* and go during a turn, the LUKS device may appear late or go away, and dd  *)
(* and cryptsetup may fail on a stick that is good.  The system that comes   *)
(* up is where krypt-stick runs again, until it is switched off or the power *)
(* fails.                                                                    *)
(***************************************************************************)
EXTENDS StickSlots

CONSTANT Timeouts  \* the values krypt_timeout may have; 0 means no fallback

ASSUME TimeoutAssumption == Timeouts \subseteq Nat

VARIABLES boot,    \* "glob", "try", "turn", "prompt", "up"
          todo,    \* sticks of this turn's glob that are still to be tried
          timeout, \* krypt_timeout of this boot's kernel command line
          elapsed, \* the turns so far
          disk,    \* is the LUKS device there, as a block device?
          key,     \* the key that opened the device, None before
          steady   \* history: sticks in a port, beside the device, ever since this
                   \* turn's glob, and no tool failed on them

bootVars == <<boot, todo, timeout, elapsed, disk, key, steady>>
vars     == <<stickVars, bootVars>>

TypeOK ==
  /\ StickTypeOK
  /\ boot \in {"glob", "try", "turn", "prompt", "up"}
  /\ todo \subseteq Stick /\ steady \subseteq port
  /\ timeout \in Timeouts /\ elapsed \in 0 .. timeout
  /\ disk \in BOOLEAN
  /\ key \in Key \cup {Passphrase, None}

PowerOn ==
  /\ timeout' \in Timeouts /\ disk' \in BOOLEAN
  /\ boot' = "glob" /\ todo' = {} /\ elapsed' = 0 /\ key' = None /\ steady' = {}

Init ==
  /\ StickInit
  /\ timeout \in Timeouts /\ disk = TRUE
  /\ boot = "up" /\ todo = {} /\ elapsed = 0 /\ key = Passphrase /\ steady = {}

Opens(st) == media[st] \in {header[s] : s \in Slot}

Return == todo' = {} /\ elapsed' = 0 /\ steady' = {}   \* the hook's function is over

Glob ==
  /\ boot = "glob"
  /\ \/ /\ ~disk                          \* return 1: no stick is looked at
        /\ boot' = "turn" /\ steady' = {} /\ UNCHANGED <<todo, elapsed>>
     \/ /\ disk /\ key # None              \* return 0: the mapper is open already
        /\ boot' = "up" /\ Return
     \/ /\ disk /\ key = None              \* for dev in /dev/disk/by-id/usb-*
        /\ boot' = "try" /\ todo' = port /\ steady' = port /\ UNCHANGED elapsed
  /\ UNCHANGED <<stickVars, timeout, disk, key>>

CanOpen(st) == st \in port /\ disk /\ key = None /\ Opens(st)

TryStick_EndsAtFailure(st) ==
  /\ boot = "try" /\ st \in todo
  /\ IF CanOpen(st)
     THEN boot' = "up" /\ key' = media[st] /\ Return
     ELSE todo' = {} /\ UNCHANGED <<boot, elapsed, key, steady>>
  /\ UNCHANGED <<stickVars, timeout, disk>>

TryStick(st) ==             \* [ -b ] || continue; dd | cryptsetup open
  /\ boot = "try" /\ st \in todo
  /\ IF CanOpen(st)
     THEN boot' = "up" /\ key' = media[st] /\ Return
     ELSE todo' = todo \ {st} /\ UNCHANGED <<boot, elapsed, key, steady>>
  /\ UNCHANGED <<stickVars, timeout, disk>>

ToolFails(st) ==            \* a read error, or cryptsetup fails, with the device open or not
  /\ boot = "try" /\ st \in todo /\ CanOpen(st)
  /\ todo' = todo \ {st} /\ steady' = steady \ {st}
  /\ key' \in {None, media[st]}
  /\ UNCHANGED <<stickVars, boot, timeout, elapsed, disk>>

NoneOpened ==
  /\ boot = "try" /\ todo = {}
  /\ boot' = "turn"
  /\ UNCHANGED <<stickVars, todo, timeout, elapsed, disk, key, steady>>

TimedOut_OffByOne == timeout > 0 /\ elapsed > timeout

TimedOut == timeout > 0 /\ elapsed >= timeout

Wait_KeepsGlob ==
  /\ boot = "turn" /\ ~TimedOut
  /\ boot' = "try"
  /\ elapsed' = IF timeout = 0 THEN elapsed ELSE elapsed + 1
  /\ UNCHANGED <<stickVars, todo, timeout, disk, key, steady>>

Wait ==                     \* sleep 1, udevadm settle
  /\ boot = "turn" /\ ~TimedOut
  /\ boot' = "glob"
  /\ elapsed' = IF timeout = 0 THEN elapsed ELSE elapsed + 1 \* compared to nothing if 0
  /\ UNCHANGED <<stickVars, todo, timeout, disk, key, steady>>

Fallback ==                 \* return 1: the encrypt hook asks for the passphrase
  /\ boot = "turn" /\ TimedOut
  /\ boot' = "prompt" /\ Return
  /\ UNCHANGED <<stickVars, timeout, disk, key>>

Hook == Glob \/ (\E st \in Stick : TryStick(st)) \/ NoneOpened \/ Wait \/ Fallback

Prompt ==                   \* cryptsetup refuses a name that is in use
  /\ boot = "prompt" /\ disk /\ key = None
  /\ \E s \in Slot : header[s] = Passphrase
  /\ boot' = "up" /\ key' = Passphrase
  /\ UNCHANGED <<stickVars, todo, timeout, elapsed, disk, steady>>

Tool == boot = "up" /\ StickNext /\ UNCHANGED bootVars

Hands ==
  /\ HandsNext
  /\ steady' = steady \cap port'
  /\ UNCHANGED <<boot, todo, timeout, elapsed, disk, key>>

DiskComesOrGoes ==
  /\ boot # "up"
  /\ disk' = ~disk /\ steady' = {}
  /\ UNCHANGED <<stickVars, boot, todo, timeout, elapsed, key>>

Off == PowerLoss /\ PowerOn

Fault == \E st \in Stick : ToolFails(st)

Next == Hook \/ Fault \/ Prompt \/ Tool \/ Hands \/ DiskComesOrGoes \/ Off

Spec     == Init /\ [][Next]_vars
FairSpec == Spec /\ WF_vars(Hook)   \* the hook's loop runs on by itself

----------------------------------------------------------------------------
(* Properties                                                                *)

Good(st) == disk /\ st \in port /\ Opens(st)

(* The hook gives up only after krypt_timeout turns, never if that is 0, and, *)
(* while the disk is closed, not past a stick that opens it: one that was in  *)
(* its port for the whole last turn, the LUKS device being there all the      *)
(* while and no tool failing on it.                                          *)
GivesUpRightly ==
  [][boot' = "prompt" /\ boot # "prompt" =>
       /\ timeout > 0 /\ elapsed >= timeout
       /\ key = None => \A st \in steady : ~Opens(st)]_vars

(* Once the power stays on and dd and cryptsetup no longer fail on a good     *)
(* stick, a boot with a good stick that is left in its port ends with the     *)
(* disk open or at the prompt, as long as the LUKS device is there; with      *)
(* krypt_timeout=0 it ends with the disk open.                               *)
GoodStickBoots ==
  <>[][~Off /\ ~Fault]_vars =>
    \A st \in Stick :
      (boot # "up" /\ Good(st)) ~> (boot = "up" \/ (timeout > 0 /\ boot = "prompt") \/ ~Good(st))

Made       == 1 .. made                          \* the keys drawn so far
InSlot(k)  == \E s \in Slot : header[s] = k
Carried(k) == \E r \in Run : run[r].key = k       \* its run is not over

Life(k) ==
  IF k \notin Made THEN "new"
  ELSE IF InSlot(k) THEN "enrolled"
  ELSE IF k \in revoked THEN "revoked"
  ELSE IF Carried(k) THEN "drawn" ELSE "void"

CopyOf(k) ==
  IF k \in written_over THEN "over"
  ELSE IF k \in Made /\ media[home[k]] = k THEN "safe" ELSE "none"

Ledger == INSTANCE KeyLedger WITH
            life <- [k \in Key |-> Life(k)], copy <- [k \in Key |-> CopyOf(k)],
            pass <- Passphrase \notin revoked

(* Tools, header, sticks and hook implement the ledger of keys: no key is in *)
(* the header before it is safe on a stick, none enters twice or after its   *)
(* run ended, and the disk opens only with a key that is enrolled, whatever  *)
(* runs at once, fails, is pulled or loses power.                            *)
KeysLiveOnce == Ledger!Spec
=============================================================================
