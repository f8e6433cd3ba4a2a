----------------------------- MODULE LeaseProofs -----------------------------
(* Proofs about what borrowers do with a leased connection.  TerminalSession: what a
   session leaves behind, and that it keeps TerminalContract.  CommandLease: what
   commands and uploads leave behind, for any number of them on one lease. *)
EXTENDS TerminalSession, CommandLease, TLAPS

-----------------------------------------------------------------------------
(* Terminal sessions *)
Starting == Setup \cup {"opened", "check"}
Ended    == {"unwind", "settle", "done"}

(* An end has a cause and the context is done; the pumps run only while runSession
   waits for them, and the output pump leaves with a cause. *)
EndsKnown ==
  /\ event # "none" => cancelled
  /\ wf \in Ended => event # "none"
  /\ wf \in Starting => \A p \in Pumps : at[p] = "off"
  /\ wf \in Ended => \A p \in Pumps : at[p] \in {"off", "done"}
  /\ at["output"] \notin {"ctx", "timeout"} /\ at["input"] # "timeout"
  /\ at["output"] = "done" => event # "none"

(* The helpers exist once the supervisor has seen the end.  The joiner seals after
   the closer, which has closed the socket, and the supervisor waits for the joiner. *)
HelpersOrdered ==
  /\ sup = "watch" <=> joiner = "off"
  /\ sup = "watch" <=> closer = "off"
  /\ sup = "watch" <=> notifier = "off"
  /\ sup # "watch" => cancelled
  /\ closer \in {"snapshot", "channel", "done"} => socket = "closed"
  /\ sealed <=> joiner \in {"transport", "done"}
  /\ sealed => closer = "done" /\ wf \in Ended
  /\ sup = "done" => joiner = "done"
  /\ wf \in {"settle", "done"} => sup = "done"
  /\ registered <=> wf # "done"

(* The lease comes with a transport, is there while the workflow works, and is
   settled by the deferred function only. *)
LeaseFollowsWorkflow ==
  /\ wf = "acquire" => lease = "none"
  /\ wf \in (Starting \ {"acquire"}) \cup {"run"} => lease = "held"
  /\ wf = "settle" => lease # "held"
  /\ wf = "done" => lease \notin {"held", "settling"}
  /\ lease \in {"settling", "released", "discarded"} => wf \in {"settle", "done"}
  /\ lease = "none" <=> client = "none"

(* The transport is being closed exactly when it was forced after it arrived, and
   closed only by that Close or by the pool that discards it. *)
ClosedByForce ==
  /\ closing # "none" <=> forced /\ client # "none"
  /\ closing = "done" => client = "closed"
  /\ client = "closed" => closing = "done" \/ lease = "discarded"
  /\ joiner = "done" => closing # "running"
  /\ lease = "released" => ~forced /\ channel # "open"

(* A channel the closer did not see belongs to a workflow that has still to look at
   the context, or its transport is being closed. *)
ChannelAccounted ==
  /\ channel # "none" => lease # "none"
  /\ wf = "opened" \/ session \/ closer = "channel" => channel # "none"
  /\ channel = "open" /\ ~session => wf = "opened"
  /\ closer = "done" /\ channel = "open" => wf \in {"opened", "check"} \/ closing # "none"

(* The inductive strengthening of ReleasedWhole and DoneMeansReclaimed *)
SessionInv ==
  TypeOK /\ EndsKnown /\ HelpersOrdered /\ LeaseFollowsWorkflow /\ ClosedByForce /\ ChannelAccounted

(* Where a pump goes next is a place of that pump. *)
LEMMA PumpPlaces ==
  /\ \A q \in Places : Cycle["keepalive"][q] \in Places /\ Cycle["input"][q] \in Places
  /\ \A q \in {"socket", "remote"} : Cycle["output"][q] \in {"socket", "remote"}
<1>1. /\ Cycle["keepalive"]["ctx"] = "socket" /\ Cycle["keepalive"]["socket"] = "remote"
      /\ Cycle["keepalive"]["remote"] = "ctx"
  BY DEF Cycle
<1>2. /\ Cycle["input"]["ctx"] = "remote" /\ Cycle["input"]["socket"] = "ctx"
      /\ Cycle["input"]["remote"] = "socket"
  BY DEF Cycle
<1>3. Cycle["output"]["remote"] = "socket" /\ Cycle["output"]["socket"] = "remote"
  BY DEF Cycle
<1> QED BY <1>1, <1>2, <1>3 DEF Places

(* What end and force leave in the variables they change. *)
LEMMA EndType ==
  ASSUME TypeOK, NEW o \in {"succeeded", "failed", "cancelled"}, End(o)
  PROVE  event' \in {"succeeded", "failed", "cancelled"} /\ cancelled' = TRUE
BY DEF TypeOK, End

(* forceClose starts at most one closing goroutine. *)
LEMMA ForceType ==
  ASSUME TypeOK, force
  PROVE  forced' \in BOOLEAN /\ closing' \in {"none", "running", "done"}
<1>1. CASE sealed
  BY <1>1 DEF TypeOK, force, forceVars
<1>2. CASE ~sealed
  <2>1. forced' \in BOOLEAN
    BY Zenon, <1>2 DEF force
  <2>2. closing' \in {"none", "running", "done"}
    BY <1>2 DEF TypeOK, force, ClosingOf
  <2> QED BY <2>1, <2>2
<1> QED BY <1>1, <1>2

(* The session starts with nothing acquired. *)
LEMMA SessionInit == Init => SessionInv
BY Zenon
DEF Init, SessionInv, TypeOK, EndsKnown, HelpersOrdered, LeaseFollowsWorkflow, ClosedByForce,
    ChannelAccounted, Setup, Starting, Ended, Pumps, Places

(* A session is marked, cancelled or forced; a Close comes back. *)
LEMMA RevocationStep ==
  ASSUME SessionInv, MarkRevoked \/ Cancel \/ AwaitForces \/ ForceRuns \/ CloseReturns
  PROVE  SessionInv'
<1> USE DEF SessionInv, Setup, Starting, Ended, Places, endVars, forceVars, supVars, chanVars,
            leaseVars
<1>0. TypeOK
  OBVIOUS
<1>1. ASSUME CloseReturns PROVE SessionInv'
  <2>1. TypeOK'
    BY <1>1, <1>0 DEF TypeOK, CloseReturns
  <2>2. /\ EndsKnown' /\ HelpersOrdered' /\ LeaseFollowsWorkflow' /\ ClosedByForce'
        /\ ChannelAccounted'
    BY <2>1, <1>1, <1>0
    DEF TypeOK, CloseReturns, EndsKnown, HelpersOrdered, LeaseFollowsWorkflow,
        ClosedByForce, ChannelAccounted
  <2> QED BY <2>1, <2>2
<1>2. ASSUME MarkRevoked PROVE SessionInv'
  <2>1. TypeOK'
    BY <1>2, <1>0 DEF TypeOK, MarkRevoked
  <2>2. /\ EndsKnown' /\ HelpersOrdered' /\ LeaseFollowsWorkflow' /\ ClosedByForce'
        /\ ChannelAccounted'
    BY <2>1, <1>2, <1>0
    DEF TypeOK, MarkRevoked, EndsKnown, HelpersOrdered, LeaseFollowsWorkflow,
        ClosedByForce, ChannelAccounted
  <2> QED BY <2>1, <2>2
<1>3. ASSUME Cancel PROVE SessionInv'
  <2>1. TypeOK'
    BY <1>3, <1>0 DEF TypeOK, Cancel
  <2>2. /\ EndsKnown' /\ HelpersOrdered' /\ LeaseFollowsWorkflow' /\ ClosedByForce'
        /\ ChannelAccounted'
    BY <2>1, <1>3, <1>0
    DEF TypeOK, Cancel, EndsKnown, HelpersOrdered, LeaseFollowsWorkflow, ClosedByForce,
        ChannelAccounted
  <2> QED BY <2>1, <2>2
<1>4. ASSUME AwaitForces PROVE SessionInv'
  <2>1. TypeOK'
    BY <1>4, <1>0 DEF TypeOK, AwaitForces
  <2>2. /\ EndsKnown' /\ HelpersOrdered' /\ LeaseFollowsWorkflow' /\ ClosedByForce'
        /\ ChannelAccounted'
    BY <2>1, <1>4, <1>0
    DEF TypeOK, AwaitForces, EndsKnown, HelpersOrdered, LeaseFollowsWorkflow,
        ClosedByForce, ChannelAccounted
  <2> QED BY <2>1, <2>2
<1>5. ASSUME ForceRuns PROVE SessionInv'
  <2>1. TypeOK'
    <3>1. forced' \in BOOLEAN /\ closing' \in {"none", "running", "done"}
      BY <1>5, <1>0, ForceType DEF ForceRuns
    <3>2. forcing' \in BOOLEAN
      BY Zenon, <1>5 DEF ForceRuns
    <3> QED BY <1>5, <1>0, <3>1, <3>2 DEF TypeOK, ForceRuns
  <2>2. /\ EndsKnown' /\ HelpersOrdered' /\ LeaseFollowsWorkflow' /\ ClosedByForce'
        /\ ChannelAccounted'
    BY <2>1, <1>5, <1>0
    DEF TypeOK, ForceRuns, force, ClosingOf, EndsKnown, HelpersOrdered,
        LeaseFollowsWorkflow, ClosedByForce, ChannelAccounted
  <2> QED BY <2>1, <2>2
<1> QED BY Zenon, <1>1, <1>2, <1>3, <1>4, <1>5

(* runSession itself, from the lease that arrives to Done *)
LEMMA WorkflowStep ==
  ASSUME SessionInv, Workflow
  PROVE  SessionInv'
<1> USE DEF SessionInv, Setup, Starting, Ended, Places, endVars, forceVars, supVars, chanVars,
            leaseVars
<1>0. TypeOK
  OBVIOUS
<1>1. ASSUME SetupFails PROVE SessionInv'
  <2>1. TypeOK'
    <3>1. event' \in {"succeeded", "failed", "cancelled"} /\ cancelled' = TRUE
      BY Zenon, <1>1, <1>0, EndType DEF SetupFails, StartFailed
    <3> QED BY <1>1, <1>0, <3>1 DEF TypeOK, SetupFails
  <2>2. /\ EndsKnown' /\ HelpersOrdered' /\ LeaseFollowsWorkflow' /\ ClosedByForce'
        /\ ChannelAccounted'
    BY <2>1, <1>1, <1>0
    DEF TypeOK, SetupFails, StartFailed, End, EndsKnown, HelpersOrdered,
        LeaseFollowsWorkflow, ClosedByForce, ChannelAccounted
  <2> QED BY <2>1, <2>2
<1>2. ASSUME AcquireLease PROVE SessionInv'
  <2>1. TypeOK'
    BY <1>2, <1>0 DEF TypeOK, AcquireLease, ClosingOf
  <2>2. /\ EndsKnown' /\ HelpersOrdered' /\ LeaseFollowsWorkflow' /\ ClosedByForce'
        /\ ChannelAccounted'
    BY <2>1, <1>2, <1>0
    DEF TypeOK, AcquireLease, ClosingOf, EndsKnown, HelpersOrdered,
        LeaseFollowsWorkflow, ClosedByForce, ChannelAccounted
  <2> QED BY <2>1, <2>2
<1>3. ASSUME NewSession PROVE SessionInv'
  <2>1. TypeOK'
    BY <1>3, <1>0 DEF TypeOK, NewSession
  <2>2. /\ EndsKnown' /\ HelpersOrdered' /\ LeaseFollowsWorkflow' /\ ClosedByForce'
        /\ ChannelAccounted'
    BY <2>1, <1>3, <1>0
    DEF TypeOK, NewSession, EndsKnown, HelpersOrdered, LeaseFollowsWorkflow,
        ClosedByForce, ChannelAccounted
  <2> QED BY <2>1, <2>2
<1>4. ASSUME SetSession PROVE SessionInv'
  <2>1. TypeOK'
    BY <1>4, <1>0 DEF TypeOK, SetSession
  <2>2. /\ EndsKnown' /\ HelpersOrdered' /\ LeaseFollowsWorkflow' /\ ClosedByForce'
        /\ ChannelAccounted'
    BY <2>1, <1>4, <1>0
    DEF TypeOK, SetSession, EndsKnown, HelpersOrdered, LeaseFollowsWorkflow,
        ClosedByForce, ChannelAccounted
  <2> QED BY <2>1, <2>2
<1>5. ASSUME CheckCancelled PROVE SessionInv'
  <2>1. TypeOK'
    <3>1. CASE ~cancelled
      BY <1>5, <1>0, <3>1 DEF TypeOK, CheckCancelled
    <3>2. CASE cancelled
      <4>1. event' \in {"succeeded", "failed", "cancelled"} /\ cancelled' = TRUE
        BY <1>5, <1>0, <3>2, EndType DEF CheckCancelled, StartFailed
      <4>2. forced' \in BOOLEAN /\ closing' \in {"none", "running", "done"}
        BY <1>5, <1>0, <3>2, ForceType DEF CheckCancelled
      <4>3. wf' = "unwind"
        BY <1>5, <3>2 DEF CheckCancelled
      <4> QED BY <1>5, <1>0, <4>1, <4>2, <4>3 DEF TypeOK, CheckCancelled
    <3> QED BY <3>1, <3>2
  <2>2. /\ EndsKnown' /\ HelpersOrdered' /\ LeaseFollowsWorkflow' /\ ClosedByForce'
        /\ ChannelAccounted'
    BY <2>1, <1>5, <1>0
    DEF TypeOK, CheckCancelled, StartFailed, End, force, ClosingOf, EndsKnown,
        HelpersOrdered, LeaseFollowsWorkflow, ClosedByForce, ChannelAccounted
  <2> QED BY <2>1, <2>2
<1>6. ASSUME StartShell PROVE SessionInv'
  <2>1. TypeOK'
    BY <1>6, <1>0 DEF TypeOK, StartShell
  <2>2. /\ EndsKnown' /\ HelpersOrdered' /\ LeaseFollowsWorkflow' /\ ClosedByForce'
        /\ ChannelAccounted'
    BY <2>1, <1>6, <1>0
    DEF TypeOK, StartShell, EndsKnown, HelpersOrdered, LeaseFollowsWorkflow,
        ClosedByForce, ChannelAccounted
  <2> QED BY <2>1, <2>2
<1>7. ASSUME AdmitReady PROVE SessionInv'
  <2>1. TypeOK'
    BY <1>7, <1>0 DEF TypeOK, AdmitReady
  <2>2. /\ EndsKnown' /\ HelpersOrdered' /\ LeaseFollowsWorkflow' /\ ClosedByForce'
        /\ ChannelAccounted'
    BY <2>1, <1>7, <1>0
    DEF TypeOK, AdmitReady, EndsKnown, HelpersOrdered, LeaseFollowsWorkflow,
        ClosedByForce, ChannelAccounted
  <2> QED BY <2>1, <2>2
<1>8. ASSUME Connected PROVE SessionInv'
  <2>1. TypeOK'
    BY <1>8, <1>0 DEF TypeOK, Connected, Pumps
  <2>2. /\ EndsKnown' /\ HelpersOrdered' /\ LeaseFollowsWorkflow' /\ ClosedByForce'
        /\ ChannelAccounted'
    BY <2>1, <1>8, <1>0
    DEF TypeOK, Connected, Pumps, EndsKnown, HelpersOrdered, LeaseFollowsWorkflow,
        ClosedByForce, ChannelAccounted
  <2> QED BY <2>1, <2>2
<1>9. ASSUME PumpsJoin PROVE SessionInv'
  <2>1. TypeOK'
    <3>1. event # "none"
      BY <1>9, <1>0 DEF EndsKnown, PumpsJoin, Pumps
    <3> QED BY <1>9, <1>0, <3>1 DEF TypeOK, PumpsJoin
  <2>2. /\ EndsKnown' /\ HelpersOrdered' /\ LeaseFollowsWorkflow' /\ ClosedByForce'
        /\ ChannelAccounted'
    BY <2>1, <1>9, <1>0
    DEF TypeOK, PumpsJoin, Pumps, EndsKnown, HelpersOrdered, LeaseFollowsWorkflow,
        ClosedByForce, ChannelAccounted
  <2> QED BY <2>1, <2>2
<1>10. ASSUME SettleLease PROVE SessionInv'
  <2>1. TypeOK'
    BY <1>10, <1>0 DEF TypeOK, SettleLease
  <2>2. /\ EndsKnown' /\ HelpersOrdered' /\ LeaseFollowsWorkflow' /\ ClosedByForce'
        /\ ChannelAccounted'
    BY <2>1, <1>10, <1>0
    DEF TypeOK, SettleLease, EndsKnown, HelpersOrdered, LeaseFollowsWorkflow,
        ClosedByForce, ChannelAccounted
  <2> QED BY <2>1, <2>2
<1>11. ASSUME LeaseDone PROVE SessionInv'
  <2>1. TypeOK'
    BY <1>11, <1>0 DEF TypeOK, LeaseDone, Healthy
  <2>2. /\ EndsKnown' /\ HelpersOrdered' /\ LeaseFollowsWorkflow' /\ ClosedByForce'
        /\ ChannelAccounted'
    BY <2>1, <1>11, <1>0
    DEF TypeOK, LeaseDone, Healthy, EndsKnown, HelpersOrdered, LeaseFollowsWorkflow,
        ClosedByForce, ChannelAccounted
  <2> QED BY <2>1, <2>2
<1>12. ASSUME Done PROVE SessionInv'
  <2>1. TypeOK'
    <3>1. registered' \in BOOLEAN
      BY Zenon, <1>12 DEF Done
    <3> QED BY <1>12, <1>0, <3>1 DEF TypeOK, Done
  <2>2. /\ EndsKnown' /\ HelpersOrdered' /\ LeaseFollowsWorkflow' /\ ClosedByForce'
        /\ ChannelAccounted'
    BY <2>1, <1>12, <1>0
    DEF TypeOK, Done, EndsKnown, HelpersOrdered, LeaseFollowsWorkflow, ClosedByForce,
        ChannelAccounted
  <2> QED BY <2>1, <2>2
<1>13. ASSUME Return PROVE SessionInv'
  <2>1. TypeOK'
    BY <1>13, <1>0 DEF TypeOK, Return
  <2>2. /\ EndsKnown' /\ HelpersOrdered' /\ LeaseFollowsWorkflow' /\ ClosedByForce'
        /\ ChannelAccounted'
    BY <2>1, <1>13, <1>0
    DEF TypeOK, Return, EndsKnown, HelpersOrdered, LeaseFollowsWorkflow, ClosedByForce,
        ChannelAccounted
  <2> QED BY <2>1, <2>2
<1> QED BY Zenon, <1>1, <1>2, <1>3, <1>4, <1>5, <1>6, <1>7, <1>8, <1>9, <1>10, <1>11,
        <1>12, <1>13 DEF Workflow

(* The pumps, which go on, stop or find that a ping timed out *)
LEMMA PumpingStep ==
  ASSUME SessionInv, Pumping
  PROVE  SessionInv'
<1> USE DEF SessionInv, Setup, Starting, Ended, Places, endVars, forceVars, supVars, chanVars,
            leaseVars
<1>0. TypeOK
  OBVIOUS
<1>1. ASSUME NEW p \in Pumps, PumpGoesOn(p) PROVE SessionInv'
  <2>1. TypeOK'
    <3>1. at' \in [Pumps -> Places \cup {"off", "timeout", "done"}]
      BY <1>1, <1>0, PumpPlaces DEF TypeOK, EndsKnown, PumpGoesOn, Pumps
    <3> QED BY <1>1, <1>0, <3>1 DEF TypeOK, PumpGoesOn
  <2>2. EndsKnown' /\ HelpersOrdered'
    BY Zenon, <2>1, <1>1, <1>0, PumpPlaces DEF TypeOK, PumpGoesOn, Pumps, EndsKnown, HelpersOrdered
  <2>3. LeaseFollowsWorkflow' /\ ClosedByForce' /\ ChannelAccounted'
    BY Zenon, <1>1
    DEF PumpGoesOn, LeaseFollowsWorkflow, ClosedByForce, ChannelAccounted
  <2> QED BY <2>1, <2>2, <2>3
<1>2. ASSUME NEW p \in Pumps, NEW o \in {"succeeded", "failed", "cancelled"}, PumpStops(p, o)
      PROVE  SessionInv'
  <2>1. TypeOK'
    <3>1. at' \in [Pumps -> Places \cup {"off", "timeout", "done"}]
      BY <1>2, <1>0 DEF TypeOK, PumpStops
    <3>2. wf = "run"
      BY <1>2, <1>0 DEF TypeOK, EndsKnown, PumpStops
    <3>3. event' \in {"none", "succeeded", "failed", "cancelled"} /\ cancelled' \in BOOLEAN
      BY Zenon, <1>2, <1>0, EndType DEF TypeOK, PumpStops
    <3> QED BY <1>2, <1>0, <3>1, <3>2, <3>3 DEF TypeOK, PumpStops
  <2>2. /\ EndsKnown' /\ HelpersOrdered' /\ LeaseFollowsWorkflow' /\ ClosedByForce'
        /\ ChannelAccounted'
    BY <2>1, <1>2, <1>0
    DEF TypeOK, PumpStops, End, Pumps, EndsKnown, HelpersOrdered, LeaseFollowsWorkflow,
        ClosedByForce, ChannelAccounted
  <2> QED BY <2>1, <2>2
<1>3. ASSUME KeepaliveTimeout PROVE SessionInv'
  <2>1. TypeOK'
    BY <1>3, <1>0 DEF TypeOK, KeepaliveTimeout, End, Pumps
  <2>2. /\ EndsKnown' /\ HelpersOrdered' /\ LeaseFollowsWorkflow' /\ ClosedByForce'
        /\ ChannelAccounted'
    BY <2>1, <1>3, <1>0
    DEF TypeOK, KeepaliveTimeout, End, Pumps, EndsKnown, HelpersOrdered,
        LeaseFollowsWorkflow, ClosedByForce, ChannelAccounted
  <2> QED BY <2>1, <2>2
<1>4. ASSUME KeepaliveForces PROVE SessionInv'
  <2>1. TypeOK'
    <3>1. at' \in [Pumps -> Places \cup {"off", "timeout", "done"}]
      BY Zenon, <1>4, <1>0 DEF TypeOK, KeepaliveForces
    <3>2. forced' \in BOOLEAN /\ closing' \in {"none", "running", "done"}
      BY <1>4, <1>0, ForceType DEF KeepaliveForces
    <3> QED BY <1>4, <1>0, <3>1, <3>2 DEF TypeOK, KeepaliveForces
  <2>2. /\ EndsKnown' /\ HelpersOrdered' /\ LeaseFollowsWorkflow' /\ ClosedByForce'
        /\ ChannelAccounted'
    BY <2>1, <1>4, <1>0
    DEF TypeOK, KeepaliveForces, Pumps, force, ClosingOf, EndsKnown, HelpersOrdered,
        LeaseFollowsWorkflow, ClosedByForce, ChannelAccounted
  <2> QED BY <2>1, <2>2
<1> QED BY Zenon, <1>1, <1>2, <1>3, <1>4 DEF Pumping

(* The goroutines that tear a session down *)
LEMMA TeardownStep ==
  ASSUME SessionInv, Teardown
  PROVE  SessionInv'
<1> USE DEF SessionInv, Setup, Starting, Ended, Places, endVars, forceVars, supVars, chanVars,
            leaseVars
<1>0. TypeOK
  OBVIOUS
<1>1. ASSUME BeginCleanup PROVE SessionInv'
  <2>1. TypeOK'
    BY <1>1, <1>0 DEF TypeOK, BeginCleanup, End
  <2>2. /\ EndsKnown' /\ HelpersOrdered' /\ LeaseFollowsWorkflow' /\ ClosedByForce'
        /\ ChannelAccounted'
    BY <2>1, <1>1, <1>0
    DEF TypeOK, BeginCleanup, End, EndsKnown, HelpersOrdered, LeaseFollowsWorkflow,
        ClosedByForce, ChannelAccounted
  <2> QED BY <2>1, <2>2
<1>2. ASSUME NotifyPending \/ NotifierLeaves PROVE SessionInv'
  <2>1. TypeOK'
    BY <1>2, <1>0 DEF TypeOK, NotifyPending, NotifierLeaves
  <2>2. /\ EndsKnown' /\ HelpersOrdered' /\ LeaseFollowsWorkflow' /\ ClosedByForce'
        /\ ChannelAccounted'
    BY <2>1, <1>2, <1>0
    DEF TypeOK, NotifyPending, NotifierLeaves, EndsKnown, HelpersOrdered,
        LeaseFollowsWorkflow, ClosedByForce, ChannelAccounted
  <2> QED BY <2>1, <2>2
<1>3. ASSUME CloseSocket PROVE SessionInv'
  <2>1. TypeOK'
    BY <1>3, <1>0 DEF TypeOK, CloseSocket
  <2>2. EndsKnown' /\ LeaseFollowsWorkflow'
    BY Zenon, <1>3 DEF CloseSocket, EndsKnown, LeaseFollowsWorkflow
  <2>3. HelpersOrdered' /\ ClosedByForce' /\ ChannelAccounted'
    BY <2>1, <1>3, <1>0
    DEF TypeOK, CloseSocket, HelpersOrdered, LeaseFollowsWorkflow, ClosedByForce, ChannelAccounted
  <2> QED BY <2>1, <2>2, <2>3
<1>4. ASSUME TakeSnapshot PROVE SessionInv'
  <2>1. TypeOK'
    BY <1>4, <1>0 DEF TypeOK, TakeSnapshot
  <2>2. EndsKnown' /\ LeaseFollowsWorkflow'
    BY Zenon, <1>4 DEF TakeSnapshot, EndsKnown, LeaseFollowsWorkflow
  <2>3. HelpersOrdered' /\ ClosedByForce' /\ ChannelAccounted'
    BY <2>1, <1>4, <1>0
    DEF TypeOK, TakeSnapshot, HelpersOrdered, LeaseFollowsWorkflow, ClosedByForce, ChannelAccounted
  <2> QED BY <2>1, <2>2, <2>3
<1>5. ASSUME CloseChannel PROVE SessionInv'
  <2>1. TypeOK'
    BY <1>5, <1>0 DEF TypeOK, CloseChannel
  <2>2. EndsKnown' /\ LeaseFollowsWorkflow'
    BY Zenon, <1>5 DEF CloseChannel, EndsKnown, LeaseFollowsWorkflow
  <2>3. HelpersOrdered' /\ ClosedByForce' /\ ChannelAccounted'
    BY <2>1, <1>5, <1>0
    DEF TypeOK, CloseChannel, HelpersOrdered, LeaseFollowsWorkflow, ClosedByForce, ChannelAccounted
  <2> QED BY <2>1, <2>2, <2>3
<1>6. ASSUME Seal PROVE SessionInv'
  <2>1. TypeOK'
    BY <1>6, <1>0 DEF TypeOK, Seal
  <2>2. EndsKnown' /\ LeaseFollowsWorkflow'
    BY Zenon, <1>6 DEF Seal, EndsKnown, LeaseFollowsWorkflow
  <2>3. HelpersOrdered' /\ ClosedByForce' /\ ChannelAccounted'
    BY <2>1, <1>6, <1>0
    DEF TypeOK, Seal, HelpersOrdered, LeaseFollowsWorkflow, ClosedByForce, ChannelAccounted
  <2> QED BY <2>1, <2>2, <2>3
<1>7. ASSUME JoinTransport PROVE SessionInv'
  <2>1. TypeOK'
    BY <1>7, <1>0 DEF TypeOK, JoinTransport
  <2>2. EndsKnown' /\ LeaseFollowsWorkflow'
    BY Zenon, <1>7 DEF JoinTransport, EndsKnown, LeaseFollowsWorkflow
  <2>3. HelpersOrdered' /\ ClosedByForce' /\ ChannelAccounted'
    BY <2>1, <1>7, <1>0
    DEF TypeOK, JoinTransport, HelpersOrdered, LeaseFollowsWorkflow, ClosedByForce,
        ChannelAccounted
  <2> QED BY <2>1, <2>2, <2>3
<1>8. ASSUME GraceEnds PROVE SessionInv'
  <2>1. TypeOK'
    BY <1>8, <1>0 DEF TypeOK, GraceEnds
  <2>2. EndsKnown' /\ LeaseFollowsWorkflow'
    BY Zenon, <1>8 DEF GraceEnds, EndsKnown, LeaseFollowsWorkflow
  <2>3. HelpersOrdered' /\ ClosedByForce' /\ ChannelAccounted'
    BY <2>1, <1>8, <1>0
    DEF TypeOK, GraceEnds, HelpersOrdered, LeaseFollowsWorkflow, ClosedByForce, ChannelAccounted
  <2> QED BY <2>1, <2>2, <2>3
<1>9. ASSUME TeardownDone PROVE SessionInv'
  <2>1. TypeOK'
    BY <1>9, <1>0 DEF TypeOK, TeardownDone
  <2>2. EndsKnown' /\ LeaseFollowsWorkflow'
    BY Zenon, <1>9 DEF TeardownDone, EndsKnown, LeaseFollowsWorkflow
  <2>3. HelpersOrdered' /\ ClosedByForce' /\ ChannelAccounted'
    BY <2>1, <1>9, <1>0
    DEF TypeOK, TeardownDone, HelpersOrdered, LeaseFollowsWorkflow, ClosedByForce, ChannelAccounted
  <2> QED BY <2>1, <2>2, <2>3
<1> QED BY Zenon, <1>1, <1>2, <1>3, <1>4, <1>5, <1>6, <1>7, <1>8, <1>9 DEF Teardown

(* Every step keeps the invariant. *)
LEMMA SessionStep == SessionInv /\ [Next]_vars => SessionInv'
<1> SUFFICES ASSUME SessionInv, [Next]_vars PROVE SessionInv'
  OBVIOUS
<1>1. CASE UNCHANGED vars
  <2> USE DEF SessionInv, endVars, forceVars, supVars, chanVars, leaseVars
  <2>1. TypeOK'
    BY <1>1 DEF vars, TypeOK
  <2>2. EndsKnown' /\ HelpersOrdered'
    BY <1>1 DEF vars, EndsKnown, HelpersOrdered
  <2>3. LeaseFollowsWorkflow' /\ ClosedByForce' /\ ChannelAccounted'
    BY <1>1 DEF vars, LeaseFollowsWorkflow, ClosedByForce, ChannelAccounted
  <2> QED BY <2>1, <2>2, <2>3
<1> QED BY Zenon, <1>1, RevocationStep, WorkflowStep, PumpingStep, TeardownStep DEF Next

(* A transport that went back to the pool has no channel of this session on it and
   nobody closes it; a channel that the closer missed takes its transport with it. *)
THEOREM ReleasesWhole == Spec => []ReleasedWhole
<1>1. SessionInv => ReleasedWhole
  BY DEF SessionInv, TypeOK, ReleasedWhole, HelpersOrdered, LeaseFollowsWorkflow, ClosedByForce,
         ChannelAccounted, Ended
<1> QED BY SessionInit, SessionStep, <1>1, PTL DEF Spec

(* runSession reports Done only with the lease settled, no Close running, and every
   pump and helper gone. *)
THEOREM DoneComesLast == Spec => []DoneMeansReclaimed
<1>1. SessionInv => DoneMeansReclaimed
  BY DEF SessionInv, TypeOK, DoneMeansReclaimed, EndsKnown, HelpersOrdered,
         LeaseFollowsWorkflow, ClosedByForce, Ended
<1> QED BY SessionInit, SessionStep, <1>1, PTL DEF Spec

(* The session implements TerminalContract: it works on the transport only while it
   holds the lease, gives it back once and ended, reports Done after that, and
   answers its HTTP owner once. *)
THEOREM ContractKept == Spec => KeepsContract
<1> USE DEF endVars, forceVars, supVars, chanVars, leaseVars, Phase, Transport
<1>1. Init => Contract!Init
  BY DEF Init, Contract!Init
<1>2. SessionInv /\ [Next]_vars => [Contract!Next]_(Contract!contractVars)
  <2> SUFFICES ASSUME SessionInv, [Next]_vars
               PROVE  Contract!Next \/ UNCHANGED Contract!contractVars
    OBVIOUS
  <2> USE DEF SessionInv, Contract!contractVars
  <2>0. TypeOK
    OBVIOUS
  <2>1. CASE CloseReturns
    <3>1. Contract!Work
      BY <2>0, <2>1 DEF TypeOK, CloseReturns, HelpersOrdered, LeaseFollowsWorkflow,
                        ClosedByForce, Contract!Work
    <3> QED BY <3>1 DEF Contract!Next
  <2>2. CASE Cancel
    <3>1. CASE registered
      BY <2>0, <2>2, <3>1 DEF TypeOK, Cancel, Contract!Finish, Contract!Next
    <3>2. CASE ~registered
      BY <2>0, <2>2, <3>2 DEF TypeOK, Cancel
    <3> QED BY <3>1, <3>2
  <2>3. CASE AcquireLease
    <3>1. Contract!Acquire
      BY <2>0, <2>3
      DEF TypeOK, AcquireLease, HelpersOrdered, LeaseFollowsWorkflow, Contract!Acquire
    <3> QED BY <3>1 DEF Contract!Next
  <2>4. CASE NewSession \/ CloseChannel
    <3>1. lease = "held"
      BY <2>0, <2>4 DEF TypeOK, NewSession, CloseChannel, HelpersOrdered, LeaseFollowsWorkflow,
                        ChannelAccounted, Setup, Starting
    <3>2. Contract!Work
      BY <2>0, <2>4, <3>1 DEF TypeOK, NewSession, CloseChannel, Contract!Work
    <3> QED BY <3>2 DEF Contract!Next
  <2>5. CASE ForceRuns \/ KeepaliveForces \/ CheckCancelled
    <3>1. CASE lease = "held"
      <4>1. Contract!Work
        BY <2>0, <2>5, <3>1 DEF TypeOK, ForceRuns, KeepaliveForces, CheckCancelled, StartFailed,
                                End, HelpersOrdered, Contract!Work
      <4> QED BY <4>1 DEF Contract!Next
    <3>2. CASE lease # "held"
      <4>1. ForceRuns
        BY <2>0, <2>5, <3>2 DEF TypeOK, KeepaliveForces, CheckCancelled, EndsKnown,
                                LeaseFollowsWorkflow, Setup, Starting, Ended, Pumps
      <4>2. sealed \/ client = "none"
        BY <2>0, <3>2 DEF TypeOK, HelpersOrdered, LeaseFollowsWorkflow
      <4> QED BY <2>0, <4>1, <4>2 DEF TypeOK, ForceRuns, force, ClosingOf
    <3> QED BY <3>1, <3>2
  <2>6. ASSUME \/ SetupFails \/ KeepaliveTimeout \/ BeginCleanup
               \/ \E p \in Pumps, o \in {"succeeded", "failed", "cancelled"} : PumpStops(p, o)
        PROVE  Contract!Next \/ UNCHANGED Contract!contractVars
    <3>1. /\ registered /\ UNCHANGED <<registered, lease, channel, closing, client, caller>>
          /\ cancelled' \/ UNCHANGED cancelled
      BY Zenon, <2>0, <2>6
      DEF TypeOK, SetupFails, KeepaliveTimeout, BeginCleanup, PumpStops, StartFailed, End,
          HelpersOrdered, EndsKnown, Setup, Ended, Pumps, Places
    <3> QED BY <2>0, <3>1 DEF TypeOK, Contract!Finish, Contract!Next
  <2>7. CASE NotifyPending \/ Return
    <3>1. CASE NotifyPending
      BY <2>0, <3>1 DEF TypeOK, NotifyPending, HelpersOrdered, Contract!Answer, Contract!Next
    <3>2. CASE Return
      BY <2>0, <3>2 DEF TypeOK, Return, HelpersOrdered, Contract!Answer, Contract!Next
    <3> QED BY Zenon, <2>7, <3>1, <3>2
  <2>8. CASE LeaseDone
    <3>1. cancelled /\ registered
      BY <2>0, <2>8 DEF TypeOK, LeaseDone, HelpersOrdered
    <3>2. Contract!Pool \/ Contract!Drop
      BY <2>0, <2>8, <3>1 DEF TypeOK, LeaseDone, Contract!Pool, Contract!Drop
    <3> QED BY <3>2 DEF Contract!Next
  <2>9. CASE Done
    <3>1. Contract!Report
      BY <2>0, <2>9 DEF TypeOK, Done, HelpersOrdered, LeaseFollowsWorkflow, Contract!Report
    <3> QED BY <3>1 DEF Contract!Next
  <2>10. ASSUME UNCHANGED <<registered, cancelled, lease, channel, closing, client, caller>>
         PROVE  UNCHANGED Contract!contractVars
    BY <2>10
  <2>11. ASSUME \/ MarkRevoked \/ AwaitForces \/ SetSession \/ StartShell \/ AdmitReady
                \/ Connected \/ PumpsJoin \/ \E p \in Pumps : PumpGoesOn(p)
         PROVE  UNCHANGED <<registered, cancelled, lease, channel, closing, client, caller>>
    <3>1. CASE MarkRevoked \/ AwaitForces \/ SetSession \/ StartShell
      BY Zenon, <3>1 DEF MarkRevoked, AwaitForces, SetSession, StartShell
    <3>2. CASE AdmitReady \/ Connected \/ PumpsJoin \/ \E p \in Pumps : PumpGoesOn(p)
      BY Zenon, <3>2 DEF AdmitReady, Connected, PumpsJoin, PumpGoesOn
    <3> QED BY Zenon, <2>11, <3>1, <3>2
  <2>12. ASSUME \/ NotifierLeaves \/ CloseSocket \/ TakeSnapshot \/ Seal \/ JoinTransport
                \/ GraceEnds \/ TeardownDone \/ UNCHANGED vars
         PROVE  UNCHANGED <<registered, cancelled, lease, channel, closing, client, caller>>
    <3>1. CASE NotifierLeaves \/ CloseSocket \/ TakeSnapshot \/ Seal
      BY Zenon, <3>1 DEF NotifierLeaves, CloseSocket, TakeSnapshot, Seal
    <3>2. CASE JoinTransport \/ GraceEnds \/ TeardownDone \/ UNCHANGED vars
      BY Zenon, <3>2 DEF JoinTransport, GraceEnds, TeardownDone, vars
    <3> QED BY Zenon, <2>12, <3>1, <3>2
  <2>13. CASE SettleLease
    BY <2>13 DEF SettleLease
  <2> QED BY Zenon, <2>1, <2>2, <2>3, <2>4, <2>5, <2>6, <2>7, <2>8, <2>9, <2>10, <2>11,
          <2>12, <2>13
          DEF Next, Teardown, Workflow, Pumping
<1> QED BY SessionInit, SessionStep, <1>1, <1>2, PTL DEF Spec, KeepsContract, Contract!Spec

-----------------------------------------------------------------------------
(* Commands and uploads on a lease *)
USE MaxOpsNat, NoneIsNoOutcome

Supervising == {"select", "grace", "budget"}

(* An operation is active exactly while its supervisor has not come back or a
   goroutine waits for its late cleanup; the lease is closing exactly when its owner
   has given it back, and is on its way to the pool only without an operation. *)
ActiveWhileUsed ==
  /\ sshLease.active <=> owner \in Supervising \/ pending
  /\ pending => owner \notin Supervising /\ op.result = "pending"
  /\ sshLease.closing <=> owner \in {"wait", "returned"}
  /\ sshLease.state # "held" => sshLease.closing /\ ~sshLease.active

(* The transport is open until the grace period ends, and is then being closed.  An
   operation that ended left nobody on it, and it is open or known to be broken. *)
TransportKnown ==
  /\ owner \in {"select", "grace"} => transport = "open"
  /\ owner = "budget" \/ pending => transport \in {"closing", "closed"}
  /\ ~sshLease.active => Quiet /\ opChannel # "open"
  /\ ~sshLease.active /\ sshLease.state \in {"held", "settling"} =>
       transport = "open" \/ sshLease.unhealthy
  /\ sshLease.state = "released" => transport = "open"

(* The closer is through only when no channel was opened and the worker will not
   open one any more, or after it closed the channel. *)
ChannelTracked ==
  /\ worker \in {"start", "opening"} => opChannel = "none"
  /\ owner = "select" => chanCloser = "off"
  /\ chanCloser = "closing" => opChannel # "none"
  /\ chanCloser = "closed" => opChannel = "closed" \/ (opChannel = "none" /\ worker = "joined")

(* The inductive strengthening of Settlement *)
LeaseInv == LeaseTypeOK /\ ActiveWhileUsed /\ TransportKnown /\ ChannelTracked /\ OutcomeReported

(* What the owner is told.  An exit status wins; a transfer succeeds only if its
   context is not done and the transport was not closed. *)
LEMMA OutcomeFacts ==
  ASSUME LeaseTypeOK, NEW closed \in BOOLEAN
  PROVE  /\ Outcome(closed) \in {None, "success", "error", "ctx", "cancelled", "timeout"}
         /\ op.kind = "exec" => (Outcome(closed) = "success" <=> op.published = "success")
         /\ op.kind = "upload" /\ Outcome(closed) = "success" => ~closed /\ ~CtxDone
<1>1. /\ op.published \in {None, "ctx", "success", "error"}
      /\ op.cancellation \in {None, "cancelled", "timeout"}
      /\ ExecCancellation \in {"cancelled", "timeout"}
  BY DEF LeaseTypeOK, Op, ExecCancellation
<1>2. CASE op.kind = "exec"
  BY <1>1, <1>2 DEF Outcome, ExecOutcome
<1>3. CASE op.kind # "exec"
  <2>1. Outcome(closed) = UploadOutcome(closed)
    BY <1>3 DEF Outcome
  <2>2. CASE CtxDone
    BY Zenon, <1>1, <1>3, <2>1, <2>2 DEF UploadOutcome
  <2>3. CASE ~CtxDone /\ closed /\ op.published = "success"
    BY Zenon, <1>1, <1>3, <2>1, <2>3 DEF UploadOutcome
  <2>4. CASE ~CtxDone /\ ~(closed /\ op.published = "success")
    <3>1. Outcome(closed) = op.published
      BY Zenon, <2>1, <2>4 DEF UploadOutcome
    <3> QED BY <3>1, <1>1, <1>3, <2>4
  <2> QED BY <2>2, <2>3, <2>4
<1> QED BY <1>2, <1>3

(* Field updates stay in the record types. *)
LEMMA LeaseUpdates ==
  ASSUME NEW l \in Lease, NEW x \in BOOLEAN, NEW y \in BOOLEAN
  PROVE  /\ [l EXCEPT !.active = x] \in Lease
         /\ [l EXCEPT !.closing = x] \in Lease
         /\ [l EXCEPT !.unhealthy = x] \in Lease
         /\ [l EXCEPT !.active = x, !.unhealthy = y] \in Lease
         /\ [l EXCEPT !.closing = x, !.unhealthy = y] \in Lease
         /\ SettleLocked(l) \in Lease
         /\ \A z : (l.unhealthy \/ z) \in BOOLEAN
BY Zenon DEF Lease, SettleLocked

(* A change of one field of an operation leaves it an operation. *)
LEMMA OpUpdates ==
  ASSUME NEW o \in Op
  PROVE  /\ \A x \in BOOLEAN :
              [o EXCEPT !.parentDone = x] \in Op /\ [o EXCEPT !.timedOut = x] \in Op
         /\ \A x \in {"ctx", "success", "error"} : [o EXCEPT !.published = x] \in Op
         /\ \A x \in {None, "cancelled", "timeout"} : [o EXCEPT !.cancellation = x] \in Op
         /\ \A x \in {None, "success", "error", "ctx", "cancelled", "timeout", "pending"} :
              [o EXCEPT !.result = x] \in Op
BY DEF Op

(* Settling a lease and handing over a result keep the types. *)
LEMMA EndOperationType ==
  ASSUME LeaseTypeOK, NEW unhealthy,
         NEW result \in {None, "success", "error", "ctx", "cancelled", "timeout", "pending"},
         EndOperation(unhealthy, result)
  PROVE  sshLease' \in Lease /\ op' \in Op
<1>1. sshLease \in Lease /\ op \in Op
  BY DEF LeaseTypeOK
<1>2. (sshLease.unhealthy \/ unhealthy) \in BOOLEAN
  BY Zenon, <1>1, LeaseUpdates
<1>3. [sshLease EXCEPT !.active = FALSE, !.unhealthy = @ \/ unhealthy] \in Lease
  BY Zenon, <1>1, <1>2, LeaseUpdates
<1>4. sshLease' \in Lease
  BY Zenon, <1>3, LeaseUpdates DEF EndOperation
<1>5. op' \in Op
  BY Zenon, <1>1, OpUpdates DEF EndOperation
<1> QED BY <1>4, <1>5

(* So does the end of Run, with either outcome of the forced close. *)
LEMMA ConcludeType ==
  ASSUME LeaseTypeOK, NEW closed \in BOOLEAN, Conclude(closed)
  PROVE  sshLease' \in Lease /\ op' \in Op
<1>1. PICK connection \in BOOLEAN : EndOperation(Unhealthy(closed, connection), Outcome(closed))
  BY DEF Conclude
<1> QED BY <1>1, OutcomeFacts, EndOperationType

(* A fresh lease with no operation *)
LEMMA LeaseInvInit == LeaseInit => LeaseInv
<1> SUFFICES ASSUME LeaseInit PROVE LeaseInv
  OBVIOUS
<1>1. sshLease \in Lease /\ op \in Op /\ ops \in 0 .. MaxOps
  BY DEF LeaseInit, Lease, Op
<1>2. LeaseTypeOK
  BY Zenon, <1>1 DEF LeaseInit, LeaseTypeOK
<1> QED BY <1>2 DEF LeaseInit, LeaseInv, ActiveWhileUsed, TransportKnown, ChannelTracked,
               OutcomeReported, Supervising, Quiet

(* One step per action of the operation, of its parent and of the users of the lease *)
LEMMA LeaseStep == LeaseInv /\ [LeaseNext]_opVars => LeaseInv'
<1> SUFFICES ASSUME LeaseInv, [LeaseNext]_opVars PROVE LeaseInv'
  OBVIOUS
<1> USE DEF LeaseInv, Supervising, Quiet
<1>0. LeaseTypeOK
  OBVIOUS
<1>1. ASSUME NEW kind \in Kinds, Begin(kind) PROVE LeaseInv'
  <2>1. LeaseTypeOK'
    <3>1. sshLease' \in Lease
      BY Zenon, <1>1, <1>0, LeaseUpdates DEF LeaseTypeOK, Begin
    <3>2. op' \in Op /\ ops' \in 0 .. MaxOps
      BY <1>1, <1>0 DEF LeaseTypeOK, Begin, Op
    <3> QED BY Zenon, <1>1, <1>0, <3>1, <3>2 DEF LeaseTypeOK, Begin
  <2>2. /\ ActiveWhileUsed' /\ TransportKnown' /\ ChannelTracked'
        /\ OutcomeReported'
    BY <2>1, <1>1, <1>0
    DEF LeaseTypeOK, Begin, MayBegin, BeginUnlocked, ActiveWhileUsed, TransportKnown,
        ChannelTracked, OutcomeReported, CtxDone, Lease
  <2> QED BY <2>1, <2>2
<1>2. ASSUME BeginRefused PROVE LeaseInv'
  <2>1. LeaseTypeOK'
    <3>1. (sshLease.unhealthy \/ (BeginUnlocked /\ ~current)) \in BOOLEAN
      BY Zenon, <1>0, LeaseUpdates DEF LeaseTypeOK
    <3>2. sshLease' \in Lease
      BY Zenon, <1>2, <1>0, <3>1, LeaseUpdates DEF LeaseTypeOK, BeginRefused
    <3>3. ops' \in 0 .. MaxOps
      BY <1>2, <1>0 DEF LeaseTypeOK, BeginRefused
    <3> QED BY Zenon, <1>2, <1>0, <3>2, <3>3 DEF LeaseTypeOK, BeginRefused
  <2>2. /\ ActiveWhileUsed' /\ TransportKnown' /\ ChannelTracked'
        /\ OutcomeReported'
    BY <2>1, <1>2, <1>0
    DEF LeaseTypeOK, BeginRefused, MayBegin, BeginUnlocked, ActiveWhileUsed, TransportKnown,
        ChannelTracked, OutcomeReported, CtxDone, Lease
  <2> QED BY <2>1, <2>2
<1>3. ASSUME WorkerStart PROVE LeaseInv'
  <2>1. LeaseTypeOK'
    <3>1. op' \in Op
      BY Zenon, <1>3, <1>0, OpUpdates DEF LeaseTypeOK, WorkerStart
    <3> QED BY Zenon, <1>3, <1>0, <3>1 DEF LeaseTypeOK, WorkerStart
  <2>2. /\ ActiveWhileUsed' /\ TransportKnown' /\ ChannelTracked'
        /\ OutcomeReported'
    BY <2>1, <1>3, <1>0
    DEF LeaseTypeOK, WorkerStart, ActiveWhileUsed, TransportKnown, ChannelTracked,
        OutcomeReported, CtxDone, Op
  <2> QED BY <2>1, <2>2
<1>4. ASSUME OpenSession \/ OpenSessionFails PROVE LeaseInv'
  <2>1. LeaseTypeOK'
    <3>1. op' \in Op
      BY Zenon, <1>4, <1>0, OpUpdates DEF LeaseTypeOK, OpenSession, OpenSessionFails
    <3> QED BY ZenonT(40), <1>4, <1>0, <3>1 DEF LeaseTypeOK, OpenSession, OpenSessionFails
  <2>2. /\ ActiveWhileUsed' /\ TransportKnown' /\ ChannelTracked'
        /\ OutcomeReported'
    BY <2>1, <1>4, <1>0
    DEF LeaseTypeOK, OpenSession, OpenSessionFails, ActiveWhileUsed, TransportKnown,
        ChannelTracked, OutcomeReported, CtxDone, Op
  <2> QED BY <2>1, <2>2
<1>5. ASSUME WorkerCheck PROVE LeaseInv'
  <2>1. LeaseTypeOK'
    <3>1. op' \in Op
      BY Zenon, <1>5, <1>0, OpUpdates DEF LeaseTypeOK, WorkerCheck
    <3> QED BY Zenon, <1>5, <1>0, <3>1 DEF LeaseTypeOK, WorkerCheck
  <2>2. /\ ActiveWhileUsed' /\ TransportKnown' /\ ChannelTracked'
        /\ OutcomeReported'
    BY <2>1, <1>5, <1>0
    DEF LeaseTypeOK, WorkerCheck, ActiveWhileUsed, TransportKnown, ChannelTracked,
        OutcomeReported, CtxDone, Op
  <2> QED BY <2>1, <2>2
<1>6. ASSUME NEW outcome \in {"success", "error"}, RunReturns(outcome) PROVE LeaseInv'
  <2>1. LeaseTypeOK'
    <3>1. op' \in Op
      BY Zenon, <1>6, <1>0, OpUpdates DEF LeaseTypeOK, RunReturns
    <3> QED BY Zenon, <1>6, <1>0, <3>1 DEF LeaseTypeOK, RunReturns
  <2>2. /\ ActiveWhileUsed' /\ TransportKnown' /\ ChannelTracked'
        /\ OutcomeReported'
    BY <2>1, <1>6, <1>0
    DEF LeaseTypeOK, RunReturns, ActiveWhileUsed, TransportKnown, ChannelTracked,
        OutcomeReported, CtxDone, Op
  <2> QED BY <2>1, <2>2
<1>7. ASSUME WorkerLeaves PROVE LeaseInv'
  <2>1. LeaseTypeOK'
    <3> QED BY Zenon, <1>7, <1>0 DEF LeaseTypeOK, WorkerLeaves
  <2>2. /\ ActiveWhileUsed' /\ TransportKnown' /\ ChannelTracked'
        /\ OutcomeReported'
    BY Zenon, <2>1, <1>7, <1>0
    DEF LeaseTypeOK, WorkerLeaves, ActiveWhileUsed, TransportKnown, ChannelTracked,
        OutcomeReported, CtxDone
  <2> QED BY <2>1, <2>2
<1>8. ASSUME TakeResult \/ SeeCancelled PROVE LeaseInv'
  <2>1. LeaseTypeOK'
    <3>1. op' \in Op
      BY Zenon, <1>8, <1>0, OpUpdates DEF LeaseTypeOK, TakeResult, SeeCancelled, ExecCancellation
    <3> QED BY Zenon, <1>8, <1>0, <3>1 DEF LeaseTypeOK, TakeResult, SeeCancelled
  <2>2. /\ ActiveWhileUsed' /\ TransportKnown' /\ ChannelTracked'
        /\ OutcomeReported'
    BY <2>1, <1>8, <1>0
    DEF LeaseTypeOK, TakeResult, SeeCancelled, ActiveWhileUsed, TransportKnown,
        ChannelTracked, OutcomeReported, CtxDone, Op
  <2> QED BY <2>1, <2>2
<1>9. ASSUME SourceFails PROVE LeaseInv'
  <2>1. LeaseTypeOK'
    <3>1. sshLease' \in Lease /\ op' \in Op
      BY Zenon, <1>9, <1>0, EndOperationType DEF SourceFails
    <3> QED BY Zenon, <1>9, <1>0, <3>1 DEF LeaseTypeOK, SourceFails, EndOperation
  <2>2. /\ ActiveWhileUsed' /\ TransportKnown' /\ ChannelTracked'
        /\ OutcomeReported'
    BY <2>1, <1>9, <1>0
    DEF LeaseTypeOK, SourceFails, EndOperation, SettleLocked, ActiveWhileUsed, TransportKnown,
        ChannelTracked, OutcomeReported, CtxDone, Op, Lease
  <2> QED BY <2>1, <2>2
<1>10. ASSUME CloserFinds \/ SessionClosed PROVE LeaseInv'
  <2>1. LeaseTypeOK'
    <3> QED BY Zenon, <1>10, <1>0 DEF LeaseTypeOK, CloserFinds, SessionClosed
  <2>2. ActiveWhileUsed' /\ OutcomeReported'
    BY <2>1, <1>10, <1>0
    DEF LeaseTypeOK, CloserFinds, SessionClosed, ActiveWhileUsed, OutcomeReported, CtxDone
  <2>3. TransportKnown'
    BY <2>1, <1>10, <1>0
    DEF LeaseTypeOK, CloserFinds, SessionClosed, ActiveWhileUsed, TransportKnown
  <2>4. ChannelTracked'
    BY <2>1, <1>10, <1>0 DEF LeaseTypeOK, CloserFinds, SessionClosed, ChannelTracked
  <2> QED BY <2>1, <2>2, <2>3, <2>4
<1>11. ASSUME Joined PROVE LeaseInv'
  <2>1. LeaseTypeOK'
    <3>1. sshLease' \in Lease /\ op' \in Op
      BY Zenon, <1>11, <1>0, ConcludeType DEF Joined
    <3> QED BY Zenon, <1>11, <1>0, <3>1 DEF LeaseTypeOK, Joined, Conclude, EndOperation
  <2>2. ActiveWhileUsed'
    BY Zenon, <2>1, <1>11, <1>0
    DEF LeaseTypeOK, ActiveWhileUsed, Joined, AllJoined, Conclude, EndOperation, SettleLocked,
        Unhealthy, Op, Lease
  <2>3. TransportKnown'
    BY <2>1, <1>11, <1>0
    DEF LeaseTypeOK, TransportKnown, Joined, AllJoined, Conclude, EndOperation, SettleLocked,
        Unhealthy, ActiveWhileUsed, ChannelTracked, Lease, Op
  <2>4. OutcomeReported'
    BY ZenonT(60), <2>1, <1>11, <1>0, OutcomeFacts
    DEF LeaseTypeOK, OutcomeReported, CtxDone, Joined, AllJoined, Conclude, EndOperation,
        SettleLocked, Unhealthy, TransportKnown, Op
  <2>5. ChannelTracked'
    BY <2>1, <1>11, <1>0
    DEF LeaseTypeOK, Joined, AllJoined, Conclude, EndOperation, SettleLocked, Unhealthy,
        ChannelTracked
  <2> QED BY <2>1, <2>2, <2>3, <2>4, <2>5
<1>12. ASSUME CleanupGraceEnds \/ TransportClosed PROVE LeaseInv'
  <2>1. LeaseTypeOK'
    <3> QED BY Zenon, <1>12, <1>0 DEF LeaseTypeOK, CleanupGraceEnds, TransportClosed
  <2>2. ActiveWhileUsed' /\ OutcomeReported'
    BY <2>1, <1>12, <1>0
    DEF LeaseTypeOK, CleanupGraceEnds, TransportClosed, ActiveWhileUsed, OutcomeReported, CtxDone
  <2>3. TransportKnown'
    BY <2>1, <1>12, <1>0
    DEF LeaseTypeOK, CleanupGraceEnds, TransportClosed, ActiveWhileUsed, TransportKnown
  <2>4. ChannelTracked'
    BY <2>1, <1>12, <1>0 DEF LeaseTypeOK, CleanupGraceEnds, TransportClosed, ChannelTracked
  <2> QED BY <2>1, <2>2, <2>3, <2>4
<1>13. ASSUME JoinedLate PROVE LeaseInv'
  <2>1. LeaseTypeOK'
    <3>1. sshLease' \in Lease /\ op' \in Op
      BY Zenon, <1>13, <1>0, ConcludeType DEF JoinedLate
    <3> QED BY Zenon, <1>13, <1>0, <3>1 DEF LeaseTypeOK, JoinedLate, Conclude, EndOperation
  <2>2. ActiveWhileUsed'
    BY ZenonT(60), <2>1, <1>13, <1>0
    DEF LeaseTypeOK, ActiveWhileUsed, JoinedLate, Settled, AllJoined, Conclude, EndOperation,
        SettleLocked, Unhealthy, Op, Lease
  <2>3. TransportKnown'
    BY <2>1, <1>13, <1>0
    DEF LeaseTypeOK, TransportKnown, JoinedLate, Settled, AllJoined, Conclude, EndOperation,
        SettleLocked, Unhealthy, ActiveWhileUsed, ChannelTracked, Lease, Op
  <2>4. OutcomeReported'
    BY ZenonT(40), <2>1, <1>13, <1>0, OutcomeFacts
    DEF LeaseTypeOK, OutcomeReported, CtxDone, JoinedLate, Settled, AllJoined, Conclude,
        EndOperation,
        SettleLocked, Unhealthy, TransportKnown, Op
  <2>5. ChannelTracked'
    BY <2>1, <1>13, <1>0
    DEF LeaseTypeOK, JoinedLate, Settled, AllJoined, Conclude, EndOperation, SettleLocked,
        Unhealthy,
        ChannelTracked
  <2> QED BY <2>1, <2>2, <2>3, <2>4, <2>5
<1>14. ASSUME BudgetEnds PROVE LeaseInv'
  <2>1. LeaseTypeOK'
    <3>1. op' \in Op
      BY Zenon, <1>14, <1>0, OpUpdates DEF LeaseTypeOK, BudgetEnds
    <3> QED BY Zenon, <1>14, <1>0, <3>1 DEF LeaseTypeOK, BudgetEnds, EndLater
  <2>2. /\ ActiveWhileUsed' /\ TransportKnown' /\ ChannelTracked'
        /\ OutcomeReported'
    BY <2>1, <1>14, <1>0
    DEF LeaseTypeOK, BudgetEnds, EndLater, ActiveWhileUsed, TransportKnown, ChannelTracked,
        OutcomeReported, CtxDone, Op
  <2> QED BY <2>1, <2>2
<1>15. ASSUME PendingEnds PROVE LeaseInv'
  <2>1. LeaseTypeOK'
    <3>1. sshLease' \in Lease
      BY Zenon, <1>15, <1>0, LeaseUpdates DEF LeaseTypeOK, PendingEnds
    <3> QED BY ZenonT(60), <1>15, <1>0, <3>1 DEF LeaseTypeOK, PendingEnds
  <2>2. /\ ActiveWhileUsed' /\ TransportKnown' /\ ChannelTracked'
        /\ OutcomeReported'
    BY <2>1, <1>15, <1>0
    DEF LeaseTypeOK, PendingEnds, Settled, AllJoined, SettleLocked, ActiveWhileUsed,
        TransportKnown, ChannelTracked, OutcomeReported, CtxDone, Lease
  <2> QED BY <2>1, <2>2
<1>16. ASSUME Release PROVE LeaseInv'
  <2>1. LeaseTypeOK'
    <3>1. sshLease' \in Lease
      BY Zenon, <1>16, <1>0, LeaseUpdates DEF LeaseTypeOK, Release
    <3> QED BY Zenon, <1>16, <1>0, <3>1 DEF LeaseTypeOK, Release
  <2>2. /\ ActiveWhileUsed' /\ TransportKnown' /\ ChannelTracked'
        /\ OutcomeReported'
    BY <2>1, <1>16, <1>0
    DEF LeaseTypeOK, Release, SettleLocked, ActiveWhileUsed, TransportKnown, ChannelTracked,
        OutcomeReported, CtxDone, Lease, Op
  <2> QED BY <2>1, <2>2
<1>17. ASSUME Discard PROVE LeaseInv'
  <2>1. LeaseTypeOK'
    <3>1. sshLease' \in Lease
      BY Zenon, <1>17, <1>0, LeaseUpdates DEF LeaseTypeOK, Discard
    <3>2. (op.parentDone \/ sshLease.active) \in BOOLEAN
      OBVIOUS
    <3>3. op' \in Op
      BY Zenon, <1>17, <1>0, <3>2, OpUpdates DEF LeaseTypeOK, Discard
    <3> QED BY Zenon, <1>17, <1>0, <3>1, <3>3 DEF LeaseTypeOK, Discard
  <2>2. /\ ActiveWhileUsed' /\ TransportKnown' /\ ChannelTracked'
        /\ OutcomeReported'
    BY <2>1, <1>17, <1>0
    DEF LeaseTypeOK, Discard, SettleLocked, ActiveWhileUsed, TransportKnown, ChannelTracked,
        OutcomeReported, CtxDone, Lease, Op
  <2> QED BY <2>1, <2>2
<1>18. ASSUME PoolSettles PROVE LeaseInv'
  <2>1. LeaseTypeOK'
    <3>1. sshLease' \in Lease
      BY <1>18, <1>0 DEF LeaseTypeOK, PoolSettles, Lease
    <3> QED BY ZenonT(60), <1>18, <1>0, <3>1 DEF LeaseTypeOK, PoolSettles
  <2>2. /\ ActiveWhileUsed' /\ TransportKnown' /\ ChannelTracked'
        /\ OutcomeReported'
    BY <2>1, <1>18, <1>0
    DEF LeaseTypeOK, PoolSettles, ActiveWhileUsed, TransportKnown, ChannelTracked,
        OutcomeReported, CtxDone, Lease
  <2> QED BY <2>1, <2>2
<1>19. ASSUME WaitEnds \/ WaitGivesUp PROVE LeaseInv'
  <2>1. LeaseTypeOK'
    <3> QED BY ZenonT(60), <1>19, <1>0 DEF LeaseTypeOK, WaitEnds, WaitGivesUp
  <2>2. ActiveWhileUsed' /\ OutcomeReported'
    BY <2>1, <1>19, <1>0
    DEF LeaseTypeOK, WaitEnds, WaitGivesUp, ActiveWhileUsed, OutcomeReported, CtxDone
  <2>3. TransportKnown'
    BY <2>1, <1>19, <1>0 DEF LeaseTypeOK, WaitEnds, WaitGivesUp, ActiveWhileUsed, TransportKnown
  <2>4. ChannelTracked'
    BY <2>1, <1>19, <1>0 DEF LeaseTypeOK, WaitEnds, WaitGivesUp, ChannelTracked
  <2> QED BY <2>1, <2>2, <2>3, <2>4
<1>20. ASSUME ParentCancels \/ TimesOut PROVE LeaseInv'
  <2>1. LeaseTypeOK'
    <3>1. op' \in Op
      BY Zenon, <1>20, <1>0, OpUpdates DEF LeaseTypeOK, ParentCancels, TimesOut
    <3>2. UNCHANGED <<sshLease, current, transport, opChannel, worker, chanCloser, owner,
                      pending, ops>>
      BY <1>20 DEF ParentCancels, TimesOut
    <3> QED BY ZenonT(60), <1>0, <3>1, <3>2 DEF LeaseTypeOK
  <2>2. /\ ActiveWhileUsed' /\ TransportKnown' /\ ChannelTracked'
        /\ OutcomeReported'
    BY <2>1, <1>20, <1>0
    DEF LeaseTypeOK, ParentCancels, TimesOut, ActiveWhileUsed, TransportKnown,
        ChannelTracked, OutcomeReported, CtxDone, Op
  <2> QED BY <2>1, <2>2
<1>21. ASSUME Invalidate PROVE LeaseInv'
  <2>1. LeaseTypeOK'
    <3> QED BY ZenonT(60), <1>21, <1>0 DEF LeaseTypeOK, Invalidate
  <2>2. /\ ActiveWhileUsed' /\ TransportKnown' /\ ChannelTracked'
        /\ OutcomeReported'
    BY Zenon, <2>1, <1>21, <1>0
    DEF LeaseTypeOK, Invalidate, ActiveWhileUsed, TransportKnown, ChannelTracked,
        OutcomeReported, CtxDone
  <2> QED BY <2>1, <2>2
<1>22. CASE UNCHANGED opVars
  <2>1. LeaseTypeOK' /\ ChannelTracked'
    BY <1>22, <1>0 DEF opVars, LeaseTypeOK, ChannelTracked
  <2>2. ActiveWhileUsed' /\ TransportKnown' /\ OutcomeReported'
    BY Zenon, <1>22 DEF opVars, ActiveWhileUsed, TransportKnown, OutcomeReported, CtxDone
  <2> QED BY <2>1, <2>2
<1> QED BY Zenon, <1>1, <1>2, <1>3, <1>4, <1>5, <1>6, <1>7, <1>8, <1>9, <1>10, <1>11, <1>12,
        <1>13, <1>14, <1>15, <1>16, <1>17, <1>18, <1>19, <1>20, <1>21, <1>22
        DEF LeaseNext, OwnerSteps, WorkerSteps

(* A lease that is on its way to the pool, or in it, has no worker, no closer and no
   pending cleanup on its transport, a released one is whole, and the owner of an
   operation was told the exit status that the command had reported, or success of a
   transfer only with the lease still working. *)
THEOREM SettlementHolds == LeaseSpec => []Settlement
<1>1. LeaseInv => Settlement
  BY DEF LeaseInv, Settlement, SettledWhole, ActiveWhileUsed, TransportKnown, Quiet
<1> QED BY LeaseInvInit, LeaseStep, <1>1, PTL DEF LeaseSpec

(* begin lets an operation start only on an open transport that nothing of an earlier
   operation uses: one whose cleanup is late keeps the lease active, and one that had
   its transport closed left the lease unhealthy. *)
THEOREM OperationsStayApart == LeaseSpec => OperationsApart
<1> DEFINE Apart == owner = "idle" /\ owner' = "select" =>
                      transport = "open" /\ opChannel # "open" /\ Quiet
<1>1. LeaseInv /\ [LeaseNext]_opVars => [Apart]_opVars
  <2> SUFFICES ASSUME LeaseInv, LeaseNext, owner = "idle", owner' = "select"
               PROVE  transport = "open" /\ opChannel # "open" /\ Quiet
    OBVIOUS
  <2>1. PICK kind \in Kinds : Begin(kind)
    BY DEF LeaseNext, OwnerSteps, WorkerSteps, Begin, BeginRefused, Release, Discard, WaitEnds,
           WaitGivesUp, WorkerStart, OpenSession, OpenSessionFails, WorkerCheck, WorkerLeaves,
           RunReturns, TakeResult, SeeCancelled, SourceFails, CloserFinds, SessionClosed, Joined,
           CleanupGraceEnds, TransportClosed, JoinedLate, BudgetEnds, PendingEnds, PoolSettles,
           ParentCancels, TimesOut, Invalidate
  <2> QED BY <2>1 DEF Begin, MayBegin, BeginUnlocked, LeaseInv, TransportKnown
<1>2. OperationsApart <=> [][Apart]_opVars
  BY DEF OperationsApart
<1> QED BY LeaseInvInit, LeaseStep, <1>1, <1>2, PTL DEF LeaseSpec
==============================================================================
