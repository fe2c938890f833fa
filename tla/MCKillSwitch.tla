---------------------------- MODULE MCKillSwitch ----------------------------
(* Instances of KillSwitch for TLC.                                        *)
EXTENDS KillSwitch, TLC

AllLevels == {"lock", "suspend", "nuke"}
Symmetry  == Permutations(VM)
=============================================================================
