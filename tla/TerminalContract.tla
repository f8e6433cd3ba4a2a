-------------------------- MODULE TerminalContract --------------------------
(***************************************************************************)
(* What a terminal session promises to its surroundings: to the SSH pool,  *)
(* that it touches a transport only while it holds the lease; to the       *)
(* registry, that it reports Done when nothing of it is left; to the HTTP  *)
(* owner, one answer, the final one only after Done.                       *)
(***************************************************************************)
VARIABLES phase,      \* "live", "ending", "done"
          transport,  \* "none", "ours", "pooled", "gone"
          use,        \* what the session has done to the transport
          answer      \* "waiting", "pending", "returned"

contractVars == <<phase, transport, use, answer>>

Init == phase = "live" /\ transport = "none" /\ answer = "waiting"

Finish == phase = "live" /\ phase' = "ending" /\ UNCHANGED <<transport, use, answer>>

(* The lease arrives, also when the end is already known. *)
Acquire == phase # "done" /\ transport = "none" /\ transport' = "ours" /\ UNCHANGED <<phase, answer>>

(* Only the holder of the lease works on the transport, and the last thing it may
   do is to close it when it gives the lease up. *)
Work == transport = "ours" /\ UNCHANGED <<transport, answer>> /\ phase' \in {phase, "ending"}
Pool ==
  phase = "ending" /\ transport = "ours" /\ transport' = "pooled" /\ UNCHANGED <<phase, use, answer>>
Drop == phase = "ending" /\ transport = "ours" /\ transport' = "gone" /\ UNCHANGED <<phase, answer>>

Report ==
  phase = "ending" /\ transport # "ours" /\ phase' = "done" /\ UNCHANGED <<transport, use, answer>>

Answer == /\ answer = "waiting"
          /\ \/ answer' = "pending" /\ phase = "ending"
             \/ answer' = "returned" /\ phase = "done"
          /\ UNCHANGED <<phase, transport, use>>

Next == Finish \/ Acquire \/ Work \/ Pool \/ Drop \/ Report \/ Answer
Spec == Init /\ [][Next]_contractVars
=============================================================================
