---------------------------- MODULE MCSSHRoutes ----------------------------
(* An instance of SSHRoutes: two servers, each on a host of its own at first. *)
EXTENDS SSHRoutes, TLC
CONSTANTS a, j, h1, h2

MCHome == (a :> h1) @@ (j :> h2)
============================================================================
