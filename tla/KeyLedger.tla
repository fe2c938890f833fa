------------------------------ MODULE KeyLedger ------------------------------
(***************************************************************************)
(* What krypt-stick and the boot hook promise together, key by key: a key is *)
(* drawn once, enters the header once and only after a copy of it is safely  *)
(* on a stick, leaves it for ever, and no other key opens the disk.  There   *)
(* are no slots, processes, caches or ports here: BootHook.tla has them and  *)
(* is shown to implement this module.                                        *)
(***************************************************************************)
CONSTANTS Key,        \* the keys of sticks
          Passphrase, \* the key of the installer
          None

VARIABLES life,   \* key -> "new", "drawn", "enrolled", "revoked" or "void"
          copy,   \* key -> "none", "safe" on its stick, or "over": a write has replaced it
          told,   \* keys reported to be set up
          pass,   \* is the passphrase in the header?
          key     \* what opened the disk, None while it is closed

vars == <<life, copy, told, pass, key>>

Init ==
  /\ life = [k \in Key |-> "new"] /\ copy = [k \in Key |-> "none"]
  /\ told = {} /\ pass = TRUE /\ key = Passphrase

Open == key # None

Draw(k) ==                              \* and the keys W are written over
  /\ Open /\ life[k] = "new"
  /\ life' = [life EXCEPT ![k] = "drawn"]
  /\ \E W \in SUBSET {j \in Key : life[j] # "new"} :
       copy' = [j \in Key |-> IF j \in W THEN "over" ELSE copy[j]]
  /\ UNCHANGED <<told, pass, key>>

Store(k) ==
  /\ Open /\ life[k] # "new" /\ copy[k] = "none"
  /\ copy' = [copy EXCEPT ![k] = "safe"]
  /\ UNCHANGED <<life, told, pass, key>>

Enroll(k) ==
  /\ Open /\ life[k] = "drawn" /\ copy[k] # "none"
  /\ life' = [life EXCEPT ![k] = "enrolled"]
  /\ UNCHANGED <<copy, told, pass, key>>

Tell(k) ==
  /\ Open /\ life[k] \in {"enrolled", "revoked"}
  /\ told' = told \cup {k}
  /\ UNCHANGED <<life, copy, pass, key>>

Revoke(k) ==
  /\ Open /\ life[k] = "enrolled"
  /\ life' = [life EXCEPT ![k] = "revoked"]
  /\ UNCHANGED <<copy, told, pass, key>>

RevokePassphrase ==
  /\ Open /\ pass /\ pass' = FALSE
  /\ UNCHANGED <<life, copy, told, key>>

(* Runs that fail, lose their stick or the power: their keys are lost.       *)
Lost(K) == life' = [k \in Key |-> IF k \in K THEN "void" ELSE life[k]]

Void ==
  /\ \E K \in SUBSET {k \in Key : life[k] = "drawn"} : Lost(K)
  /\ UNCHANGED <<copy, told, pass, key>>

PowerOff ==
  /\ Lost({k \in Key : life[k] = "drawn"})
  /\ key' = None
  /\ UNCHANGED <<copy, told, pass>>

Unlock ==
  /\ ~Open
  /\ \/ \E k \in Key : life[k] = "enrolled" /\ copy[k] # "none" /\ key' = k
     \/ pass /\ key' = Passphrase
  /\ UNCHANGED <<life, copy, told, pass>>

Next ==
  \/ \E k \in Key : Draw(k) \/ Store(k) \/ Enroll(k) \/ Tell(k) \/ Revoke(k)
  \/ RevokePassphrase \/ Void \/ PowerOff \/ Unlock

Spec == Init /\ [][Next]_vars
==============================================================================
