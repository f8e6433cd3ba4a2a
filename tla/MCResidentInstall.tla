------------------------- MODULE MCResidentInstall --------------------------
(* Instance of ResidentInstall for TLC: the accounts other than root are
   interchangeable, and so are the deletions. *)
EXTENDS ResidentInstall, TLC

Symmetry == Permutations(Accounts \ {Root}) \cup Permutations(Deleters)
============================================================================
