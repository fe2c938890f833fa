--------------------------- MODULE MCKryptDaemon ---------------------------
(* Instances of KryptDaemon for TLC.                                       *)
EXTENDS KryptDaemon, TLC

Symmetry == Permutations(Client) \cup Permutations(VM)
=============================================================================
