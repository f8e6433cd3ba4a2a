-------------------------- MODULE TerminalSession --------------------------
(***************************************************************************)
(* One admitted terminal session from its registration to its end          *)
(* (service/terminal.go, terminal_transport.go): the workflow of           *)
(* runSession, its three pumps, and the goroutines that tear it down.      *)
(*                                                                         *)
(* The SSH peer and the browser may stop answering at any moment: a call   *)
(* on the SSH transport is certain to return only once the transport is    *)
(* closed, a call on the websocket once the socket is closed.  Admission   *)
(* and revocation themselves are in AccessGate; here `revoked' is the mark *)
(* that MarkRevoked leaves.                                                *)
(***************************************************************************)
EXTENDS Naturals

VARIABLES
  wf,          \* runSession itself
  at,          \* where each pump is
  event,       \* the cause that ended the session, "none" before
  cancelled,   \* sessionCtx is done
  revoked,     \* gate.StateRevoked
  sup,         \* the teardown supervisor
  closer,      \* the worker that closes the socket and the channel
  joiner,      \* the worker that waits for everybody
  notifier,    \* the worker that reports an exhausted budget
  dispatched,  \* Session.ForceOnce is used up
  forcing,     \* a force call started by Session.Force has not run yet
  forced, sealed,
  client,      \* the transport: "none" before the lease, "open", "closed"
  closing,     \* transportDone: "none", "running", "done"
  session,     \* the variable session is set
  channel,     \* the SSH channel: "none", "open", "closed"
  snap,        \* the session the closer saw
  socket,      \* the websocket
  lease,       \* "none", "held", "settling", "released", "discarded"
  registered,  \* in the registry, that is, not Done
  caller       \* StartSessionWithResult: "waiting", "pending", "returned"

endVars   == <<event, cancelled>>
forceVars == <<forced, closing>>
supVars   == <<sup, closer, joiner, notifier>>
chanVars  == <<session, channel, snap>>
leaseVars == <<lease, registered, caller>>
vars == <<wf, at, endVars, revoked, supVars, dispatched, forcing, forceVars, sealed, client,
          chanVars, socket, leaseVars>>

Pumps == {"keepalive", "output", "input"}

(* What a pump does next.  It waits on the context ("ctx": the ticker, or the gate),
   on the websocket or on the SSH transport. *)
Cycle == [keepalive |-> [ctx |-> "socket", socket |-> "remote", remote |-> "ctx"],
          output    |-> [remote |-> "socket", socket |-> "remote"],
          input     |-> [socket |-> "ctx", ctx |-> "remote", remote |-> "socket"]]
Places == {"ctx", "socket", "remote"}

Init ==
  /\ wf = "acquire" /\ at = [p \in Pumps |-> "off"]
  /\ event = "none" /\ cancelled = FALSE /\ revoked = FALSE
  /\ sup = "watch" /\ closer = "off" /\ joiner = "off" /\ notifier = "off"
  /\ dispatched = FALSE /\ forcing = FALSE /\ forced = FALSE /\ sealed = FALSE
  /\ client = "none" /\ closing = "none"
  /\ session = FALSE /\ channel = "none" /\ snap = FALSE /\ socket = "open"
  /\ lease = "none" /\ registered = TRUE /\ caller = "waiting"

(* end: the first cause wins.  It closes `ended' and cancels the context; nobody
   who calls it can be overtaken between the two in a way that matters, because
   the session variable is set by then, or the caller is the workflow itself. *)
End(outcome) ==
  /\ event' = IF event = "none" THEN outcome ELSE event
  /\ cancelled' = TRUE
StartFailed == End(IF revoked \/ cancelled THEN "cancelled" ELSE "failed")

(* closeTransport and force. *)
ClosingOf(c) == IF c # "none" /\ closing = "none" THEN "running" ELSE closing
forceUnsealed ==
  forced' = TRUE /\ closing' = ClosingOf(client)
force ==
  IF sealed THEN UNCHANGED forceVars ELSE forced' = TRUE /\ closing' = ClosingOf(client)

CloseReturns ==
  /\ closing = "running"
  /\ closing' = "done" /\ client' = "closed"
  /\ UNCHANGED <<wf, at, endVars, revoked, supVars, dispatched, forcing, forced, sealed,
                 chanVars, socket, leaseVars>>

----------------------------------------------------------------------------
(* The client goes away, or the registry cancels the session it has marked. *)
MarkRevoked ==
  /\ registered /\ ~revoked /\ revoked' = TRUE
  /\ UNCHANGED <<wf, at, endVars, supVars, dispatched, forcing, forceVars, sealed, client,
                 chanVars, socket, leaseVars>>
Cancel ==
  /\ ~cancelled /\ cancelled' = TRUE
  /\ UNCHANGED <<wf, at, event, revoked, supVars, dispatched, forcing, forceVars, sealed,
                 client, chanVars, socket, leaseVars>>

(* Session.Force, by the supervisor or by Await, whose timer may win against Done;
   the call runs later. *)
AwaitForces ==
  /\ revoked /\ ~dispatched
  /\ dispatched' = TRUE /\ forcing' = TRUE
  /\ UNCHANGED <<wf, at, endVars, revoked, supVars, forceVars, sealed, client, chanVars,
                 socket, leaseVars>>
ForceRuns ==
  /\ forcing /\ forcing' = FALSE /\ force
  /\ UNCHANGED <<wf, at, endVars, revoked, supVars, dispatched, sealed, client, chanVars,
                 socket, leaseVars>>

----------------------------------------------------------------------------
(* The workflow fails in any of its calls before the pumps run. *)
Setup == {"acquire", "open", "setup", "admit", "connect"}
SetupFails ==
  /\ wf \in Setup /\ wf' = "unwind"
  /\ IF wf = "admit" THEN End("cancelled") ELSE StartFailed
  /\ UNCHANGED <<at, revoked, supVars, dispatched, forcing, forceVars, sealed, client,
                 chanVars, socket, leaseVars>>

AcquireLease ==
  /\ wf = "acquire" /\ wf' = "open"
  /\ lease' = "held" /\ client' = "open"
  /\ closing' = IF forced THEN ClosingOf("open") ELSE closing
  /\ UNCHANGED <<at, endVars, revoked, supVars, dispatched, forcing, forced, sealed, chanVars,
                 socket, registered, caller>>

NewSession ==
  /\ wf = "open" /\ client = "open" /\ wf' = "opened"
  /\ channel' = "open"
  /\ UNCHANGED <<at, endVars, revoked, supVars, dispatched, forcing, forceVars, sealed, client,
                 session, snap, socket, leaseVars>>

SetSession ==
  /\ wf = "opened" /\ wf' = "check"
  /\ session' = TRUE
  /\ UNCHANGED <<at, endVars, revoked, supVars, dispatched, forcing, forceVars, sealed, client,
                 channel, snap, socket, leaseVars>>

(* A session that arrives after the cancellation takes the transport with it. *)
CheckCancelledQuietly ==
  /\ wf = "check"
  /\ IF cancelled THEN wf' = "unwind" /\ StartFailed ELSE wf' = "setup" /\ UNCHANGED endVars
  /\ UNCHANGED <<at, revoked, supVars, dispatched, forcing, forceVars, sealed, client,
                 chanVars, socket, leaseVars>>
CheckCancelled ==
  /\ wf = "check"
  /\ IF cancelled THEN wf' = "unwind" /\ force /\ StartFailed
                  ELSE wf' = "setup" /\ UNCHANGED <<forceVars, endVars>>
  /\ UNCHANGED <<at, revoked, supVars, dispatched, forcing, sealed, client, chanVars, socket,
                 leaseVars>>

(* PTY, pipes and shell; admission to ready; the "connected" message; the pumps. *)
StartShell ==
  /\ wf = "setup" /\ client = "open" /\ wf' = "admit"
  /\ UNCHANGED <<at, endVars, revoked, supVars, dispatched, forcing, forceVars, sealed, client,
                 chanVars, socket, leaseVars>>
AdmitReady ==
  /\ wf = "admit" /\ ~revoked /\ ~cancelled /\ wf' = "connect"
  /\ UNCHANGED <<at, endVars, revoked, supVars, dispatched, forcing, forceVars, sealed, client,
                 chanVars, socket, leaseVars>>
Connected ==
  /\ wf = "connect" /\ socket = "open" /\ wf' = "run"
  /\ at' = [keepalive |-> "ctx", output |-> "remote", input |-> "socket"]
  /\ UNCHANGED <<endVars, revoked, supVars, dispatched, forcing, forceVars, sealed, client,
                 chanVars, socket, leaseVars>>

----------------------------------------------------------------------------
(* A pump's call succeeds.  The gate admits no input of a revoked session. *)
PumpGoesOn(p) ==
  /\ at[p] \in Places /\ at' = [at EXCEPT ![p] = Cycle[p][at[p]]]
  /\ at[p] = "socket" => socket = "open"
  /\ at[p] = "remote" => client = "open"
  /\ p = "keepalive" => ~cancelled
  /\ p = "input" /\ at[p] = "ctx" => ~revoked /\ ~cancelled
  /\ UNCHANGED <<wf, endVars, revoked, supVars, dispatched, forcing, forceVars, sealed, client,
                 chanVars, socket, leaseVars>>

(* It fails or reports the end.  A cancelled keepalive leaves without a cause. *)
Causes(p) == CASE p = "output" /\ at[p] = "remote" -> {"succeeded", "failed"}
               [] p = "input"  /\ at[p] = "socket" -> {"succeeded", "failed"}
               [] p = "input"  /\ at[p] = "ctx"    -> {"cancelled"}
               [] OTHER                            -> {"failed"}
PumpStops(p, outcome) ==
  /\ at[p] \in Places /\ outcome \in Causes(p)
  /\ p = "keepalive" /\ at[p] = "ctx" => cancelled
  /\ at' = [at EXCEPT ![p] = "done"]
  /\ IF p = "keepalive" /\ cancelled THEN UNCHANGED endVars ELSE End(outcome)
  /\ UNCHANGED <<wf, revoked, supVars, dispatched, forcing, forceVars, sealed, client,
                 chanVars, socket, leaseVars>>

(* The keepalive request times out: the session fails, the transport is forced, and
   the request is joined. *)
KeepaliveTimeout ==
  /\ at["keepalive"] = "remote" /\ ~cancelled
  /\ at' = [at EXCEPT !["keepalive"] = "timeout"]
  /\ End("failed")
  /\ UNCHANGED <<wf, revoked, supVars, dispatched, forcing, forceVars, sealed, client,
                 chanVars, socket, leaseVars>>
KeepaliveForces ==
  /\ at["keepalive"] = "timeout"
  /\ at' = [at EXCEPT !["keepalive"] = "remote"]
  /\ force
  /\ UNCHANGED <<wf, endVars, revoked, supVars, dispatched, forcing, sealed, client, chanVars,
                 socket, leaseVars>>

PumpsJoin ==
  /\ wf = "run" /\ \A p \in Pumps : at[p] = "done"
  /\ wf' = "unwind"
  /\ UNCHANGED <<at, endVars, revoked, supVars, dispatched, forcing, forceVars, sealed, client,
                 chanVars, socket, leaseVars>>

----------------------------------------------------------------------------
(* The supervisor sees the end, fixes the deadlines and starts its helpers. *)
BeginCleanup ==
  /\ sup = "watch" /\ cancelled
  /\ End("cancelled")
  /\ sup' = "grace" /\ closer' = "notice" /\ joiner' = "wait" /\ notifier' = "armed"
  /\ UNCHANGED <<wf, at, revoked, dispatched, forcing, forceVars, sealed, client, chanVars,
                 socket, leaseVars>>

(* The budget is used up before runSession has returned; or it has returned. *)
NotifyPending ==
  /\ notifier = "armed" /\ wf # "done"
  /\ notifier' = "done"
  /\ caller' = IF caller = "waiting" THEN "pending" ELSE caller
  /\ UNCHANGED <<wf, at, endVars, revoked, sup, closer, joiner, dispatched, forcing, forceVars,
                 sealed, client, chanVars, socket, lease, registered>>
NotifierLeaves ==
  /\ notifier = "armed" /\ wf = "done"
  /\ notifier' = "done"
  /\ UNCHANGED <<wf, at, endVars, revoked, sup, closer, joiner, dispatched, forcing, forceVars,
                 sealed, client, chanVars, socket, leaseVars>>

(* The closer: a bounded notice, then the socket; then the session it can see. *)
CloseSocketAfterNotice ==
  /\ closer = "notice" /\ wf # "connect" /\ at["output"] # "socket"
  /\ closer' = "snapshot" /\ socket' = "closed"
  /\ UNCHANGED <<wf, at, endVars, revoked, sup, joiner, notifier, dispatched, forcing,
                 forceVars, sealed, client, chanVars, leaseVars>>
CloseSocket ==
  /\ closer = "notice"
  /\ closer' = "snapshot" /\ socket' = "closed"
  /\ UNCHANGED <<wf, at, endVars, revoked, sup, joiner, notifier, dispatched, forcing,
                 forceVars, sealed, client, chanVars, leaseVars>>
TakeSnapshot ==
  /\ closer = "snapshot"
  /\ snap' = session
  /\ closer' = IF session THEN "channel" ELSE "done"
  /\ UNCHANGED <<wf, at, endVars, revoked, sup, joiner, notifier, dispatched, forcing,
                 forceVars, sealed, client, session, channel, socket, leaseVars>>
CloseChannel ==
  /\ closer = "channel"
  /\ channel' = "closed" /\ closer' = "done"
  /\ UNCHANGED <<wf, at, endVars, revoked, sup, joiner, notifier, dispatched, forcing,
                 forceVars, sealed, client, session, snap, socket, leaseVars>>

(* The joiner: workflow and closer first, then it seals, then the transport. *)
Seal ==
  /\ joiner = "wait" /\ wf = "unwind" /\ closer = "done"
  /\ sealed' = TRUE
  /\ joiner' = IF closing = "none" THEN "done" ELSE "transport"
  /\ UNCHANGED <<wf, at, endVars, revoked, sup, closer, notifier, dispatched, forcing,
                 forceVars, client, chanVars, socket, leaseVars>>
JoinTransportAtOnce ==
  /\ joiner = "transport" /\ joiner' = "done"
  /\ UNCHANGED <<wf, at, endVars, revoked, sup, closer, notifier, dispatched, forcing,
                 forceVars, sealed, client, chanVars, socket, leaseVars>>
JoinTransport ==
  /\ joiner = "transport" /\ closing = "done" /\ joiner' = "done"
  /\ UNCHANGED <<wf, at, endVars, revoked, sup, closer, notifier, dispatched, forcing,
                 forceVars, sealed, client, chanVars, socket, leaseVars>>

(* The grace period ends before everybody has joined: Session.Force. *)
GraceEnds ==
  /\ sup = "grace" /\ sup' = "forced"
  /\ dispatched' = TRUE /\ forcing' = (forcing \/ ~dispatched)
  /\ UNCHANGED <<wf, at, endVars, revoked, closer, joiner, notifier, forceVars, sealed, client,
                 chanVars, socket, leaseVars>>
TeardownDone ==
  /\ sup \in {"grace", "forced"} /\ joiner = "done"
  /\ sup' = "done"
  /\ UNCHANGED <<wf, at, endVars, revoked, closer, joiner, notifier, dispatched, forcing,
                 forceVars, sealed, client, chanVars, socket, leaseVars>>

----------------------------------------------------------------------------
(* The deferred function: settle the lease, wait for it, report Done. *)
Healthy == ~forced /\ event = "succeeded"
SettleLease ==
  /\ wf = "unwind" /\ sup = "done" /\ wf' = "settle"
  /\ lease' = IF lease = "held" THEN "settling" ELSE lease
  /\ UNCHANGED <<at, endVars, revoked, supVars, dispatched, forcing, forceVars, sealed, client,
                 chanVars, socket, registered, caller>>
LeaseDone ==
  /\ wf = "settle" /\ lease = "settling"
  /\ lease' = IF Healthy THEN "released" ELSE "discarded"
  /\ client' = IF Healthy THEN client ELSE "closed"
  /\ UNCHANGED <<wf, at, endVars, revoked, supVars, dispatched, forcing, forceVars, sealed,
                 chanVars, socket, registered, caller>>
Done ==
  /\ wf = "settle" /\ lease # "settling" /\ wf' = "done"
  /\ registered' = FALSE
  /\ UNCHANGED <<at, endVars, revoked, supVars, dispatched, forcing, forceVars, sealed, client,
                 chanVars, socket, lease, caller>>
Return ==
  /\ wf = "done" /\ caller = "waiting" /\ caller' = "returned"
  /\ UNCHANGED <<wf, at, endVars, revoked, supVars, dispatched, forcing, forceVars, sealed,
                 client, chanVars, socket, lease, registered>>

Teardown ==
  \/ BeginCleanup \/ NotifyPending \/ NotifierLeaves
  \/ CloseSocket \/ TakeSnapshot \/ CloseChannel \/ Seal \/ JoinTransport
  \/ GraceEnds \/ TeardownDone
Workflow ==
  \/ SetupFails \/ AcquireLease \/ NewSession \/ SetSession \/ CheckCancelled
  \/ StartShell \/ AdmitReady \/ Connected \/ PumpsJoin
  \/ SettleLease \/ LeaseDone \/ Done \/ Return
Pumping ==
  \/ \E p \in Pumps : \/ PumpGoesOn(p)
                      \/ \E o \in {"succeeded", "failed", "cancelled"} : PumpStops(p, o)
  \/ KeepaliveTimeout \/ KeepaliveForces
Next == \/ Teardown \/ Workflow \/ Pumping
        \/ MarkRevoked \/ Cancel \/ AwaitForces \/ ForceRuns \/ CloseReturns

Spec == Init /\ [][Next]_vars

(* What the Hub's own goroutines and timers guarantee. *)
Timers == GraceEnds \/ TeardownDone
HubFairness ==
  /\ WF_vars(BeginCleanup) /\ WF_vars(NotifyPending \/ NotifierLeaves) /\ WF_vars(Timers)
  /\ WF_vars(TeardownDone) /\ WF_vars(CloseSocket) /\ WF_vars(TakeSnapshot) /\ WF_vars(Seal)
  /\ WF_vars(JoinTransport) /\ WF_vars(revoked /\ Cancel) /\ WF_vars(ForceRuns)
  /\ WF_vars(KeepaliveForces) /\ WF_vars(PumpsJoin) /\ WF_vars(SetSession \/ CheckCancelled)
  /\ WF_vars(SettleLease) /\ WF_vars(Done) /\ WF_vars(Return)

(* A blocked call returns once the thing it waits for is closed or cancelled (a
   ping has a deadline of its own), and closing a transport takes finite time. *)
Woken(place) == CASE place = "ctx"    -> cancelled
                  [] place = "socket" -> socket = "closed"
                  [] place = "remote" -> client = "closed"
WaitsFor == [acquire |-> "ctx", open |-> "remote", setup |-> "remote", admit |-> "ctx",
             connect |-> "socket"]
PeerFairness ==
  /\ WF_vars(wf \in Setup /\ Woken(WaitsFor[wf]) /\ SetupFails)
  /\ \A p \in Pumps : WF_vars(/\ at[p] \in Places
                              /\ Woken(at[p]) \/ (p = "keepalive" /\ at[p] = "socket")
                              /\ \E o \in Causes(p) : PumpStops(p, o))
  /\ WF_vars(client = "closed" /\ CloseChannel)
  /\ WF_vars(CloseReturns) /\ WF_vars(LeaseDone)

HubSpec == Spec /\ HubFairness

----------------------------------------------------------------------------
TypeOK ==
  /\ wf \in Setup \cup {"opened", "check", "run", "unwind", "settle", "done"}
  /\ at \in [Pumps -> Places \cup {"off", "timeout", "done"}]
  /\ event \in {"none", "succeeded", "failed", "cancelled"}
  /\ cancelled \in BOOLEAN /\ revoked \in BOOLEAN /\ dispatched \in BOOLEAN
  /\ forcing \in BOOLEAN /\ forced \in BOOLEAN /\ sealed \in BOOLEAN
  /\ session \in BOOLEAN /\ snap \in BOOLEAN /\ registered \in BOOLEAN
  /\ sup \in {"watch", "grace", "forced", "done"}
  /\ closer \in {"off", "notice", "snapshot", "channel", "done"}
  /\ joiner \in {"off", "wait", "transport", "done"}
  /\ notifier \in {"off", "armed", "done"}
  /\ client \in {"none", "open", "closed"} /\ closing \in {"none", "running", "done"}
  /\ channel \in {"none", "open", "closed"} /\ socket \in {"open", "closed"}
  /\ lease \in {"none", "held", "settling", "released", "discarded"}
  /\ caller \in {"waiting", "pending", "returned"}
  /\ wf \in {"unwind", "settle", "done"} => event # "none"

(* A transport that went back to the pool is whole: no channel of this session is
   left on it and nobody closes it, also when Await's or the supervisor's force
   runs after the session has ended.  A channel that opened while the session was
   being cancelled, after the closer had looked for one, does not survive either. *)
ReleasedWhole ==
  /\ lease = "released" => client = "open" /\ closing = "none" /\ channel # "open"
  /\ sealed /\ channel = "open" => closing # "none"

(* Done is never reported early ("prevents Done or pool settlement from overtaking
   a slow Close"): the lease is settled, no Close of the transport is running, and
   no pump or helper uses the session any more. *)
DoneMeansReclaimed ==
  /\ TypeOK
  /\ ~registered =>
       /\ lease \notin {"held", "settling"} /\ closing # "running"
       /\ \A p \in Pumps : at[p] \in {"off", "done"}
       /\ sup = "done" /\ closer = "done" /\ joiner = "done" /\ socket = "closed"

(* The session keeps its promises to the pool, the registry and the HTTP owner: with
   `use' the marks it leaves on the transport (an open channel, a running or
   finished Close), every step is a step of TerminalContract. *)
Phase     == IF ~registered THEN "done" ELSE IF cancelled THEN "ending" ELSE "live"
Transport == IF lease \in {"held", "settling"} THEN "ours"
             ELSE IF lease = "released" THEN "pooled"
             ELSE IF lease = "discarded" THEN "gone" ELSE "none"
Contract == INSTANCE TerminalContract WITH
  phase <- Phase, transport <- Transport, use <- <<channel, closing, client = "closed">>,
  answer <- caller
KeepsContract == Contract!Spec

(* The HTTP owner gets its answer within the budget even if no peer ever answers
   and closing the transport hangs.  Every ended or revoked session is reclaimed
   and reported Done, and leaves no goroutine behind, although the peers may never
   answer: it is enough that a call returns once the thing it waits for is closed,
   and that Close returns. *)
Reclaimed ==
  /\ cancelled ~> caller # "waiting"
  /\ PeerFairness => (cancelled \/ revoked ~> ~registered /\ notifier = "done" /\ ~forcing)
============================================================================
