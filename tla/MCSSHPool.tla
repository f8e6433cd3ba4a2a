----------------------------- MODULE MCSSHPool -----------------------------
(* Model-checking instances of SSHPool. *)
EXTENDS SSHPool, TLC

(* The identities are interchangeable; no liveness run uses this. *)
Symmetry == Permutations(Borrowers) \cup Permutations(Clients)
              \cup Permutations(Entries) \cup Permutations(Fingerprints)
============================================================================
