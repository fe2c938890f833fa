--------------------------- MODULE MCKryptConfig ---------------------------
(* Files of KryptConfig for TLC.  Each family varies one list of the file     *)
(* over all its short sequences and fixes the others.                        *)
EXTENDS KryptConfig

CONSTANTS a, b, bad, s1, s2, badSerial

VM(n, t)  == [name |-> n, trust |-> t, kernel |-> "clean", ramdisk |-> "none", root_disk |-> "clean"]
VmChoices == {VM(a, 1), VM(a, 4), VM(b, 3), VM(bad, 2)}
               \cup {[VM(b, 0) EXCEPT ![f] = "quoted"] : f \in {"kernel", "ramdisk", "root_disk"}}
Sticks    == [serial : {s1}, luks_slot : {1, 2}]
               \cup {[serial |-> s2, luks_slot |-> 3], [serial |-> badSerial, luks_slot |-> 4]}
Rules     == {[source |-> a, target |-> b, action |-> "Allow"], [source |-> a, target |-> b, action |-> "Deny"],
              [source |-> b, target |-> a, action |-> "AskUser"], [source |-> a, target |-> a, action |-> "Deny"],
              [source |-> b, target |-> bad, action |-> "Allow"]}

UpTo(S, n) == UNION {[1 .. k -> S] : k \in 0 .. n}
Low_High   == <<VM(a, 1), VM(b, 3)>>

Rewritten ==
  [vms : {Low_High, <<VM(a, 1), VM(a, 4)>>}, auth_sticks : {<<[serial |-> s1, luks_slot |-> 1]>>},
   policy : {<<[source |-> a, target |-> b, action |-> "Allow"]>>}]
MCEdits == {Missing, Garbled} \cup Rewritten

MCFiles ==
  Rewritten
    \cup [vms : UpTo(VmChoices, 3), auth_sticks : {<<>>}, policy : {<<>>}]
    \cup [vms : {<<VM(a, 4)>>}, auth_sticks : UpTo(Sticks, 2), policy : {<<>>}]
    \cup [vms : {Low_High, <<VM(a, 1)>>}, auth_sticks : {<<>>}, policy : UpTo(Rules, 3)]
=============================================================================
