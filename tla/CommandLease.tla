---------------------------- MODULE CommandLease ----------------------------
(* A lease of an SSH connection and the operations that its owner runs on it one
   after the other (service/lease.go, ssh.go): a worker makes the calls on the
   transport, the owner's goroutine supervises it, closes the channel, and closes
   the transport when the worker does not come back.  The owner is answered within
   a budget; the lease goes back to the pool only when everybody has left it.

   The peer may stop answering at any moment: a call on the transport is certain to
   return only once the transport is closed, and closing it may take long.  The
   supervision of the calls of an upload is the one of RemoteFiles. *)
EXTENDS Naturals

CONSTANTS MaxOps,   \* bound: operations on one lease
          None

ASSUME MaxOpsNat == MaxOps \in Nat
ASSUME NoneIsNoOutcome ==
  None \notin {"exec", "upload", "success", "error", "ctx", "cancelled", "timeout", "pending"}

VARIABLES sshLease,
          current,     \* pool.IsCurrent for the generation of the lease
          transport,
          opChannel,   \* the channel of the last operation
          op,          \* the last operation: its kind, its context and its outcome
          worker, chanCloser,
          owner,       \* the owner's goroutine, which supervises the operation
          pending,     \* a goroutine waits for a late cleanup, to end the operation
          ops

opVars == <<sshLease, current, transport, opChannel, op, worker, chanCloser, owner, pending, ops>>

Kinds == {"exec", "upload"}

LeaseInit ==
  /\ sshLease = [active |-> FALSE, closing |-> FALSE, unhealthy |-> FALSE, state |-> "held"]
  /\ current = TRUE
  /\ transport = "open" /\ opChannel = "none"
  /\ op = [kind |-> None, parentDone |-> FALSE, timedOut |-> FALSE, published |-> None,
           cancellation |-> None, result |-> None]
  /\ worker = "off" /\ chanCloser = "off"
  /\ owner = "idle" /\ pending = FALSE /\ ops = 0

CtxDone == op.parentDone \/ op.timedOut
ExecCancellation == IF op.parentDone THEN "cancelled" ELSE "timeout"

(* settleLocked: from here on a goroutine gives the handle back. *)
SettleLocked(l) ==
  IF l.closing /\ ~l.active /\ l.state = "held" THEN [l EXCEPT !.state = "settling"] ELSE l

----------------------------------------------------------------------------
(* begin refuses a lease that is closing or broken, whose target has changed, or
   that still has an operation; refusing a context that is done changes nothing. *)
BeginUnlocked == sshLease.state = "held" /\ ~sshLease.closing /\ ~sshLease.unhealthy
MayBegin == BeginUnlocked /\ current /\ ~sshLease.active
Begin(kind) ==
  /\ owner = "idle" /\ ops < MaxOps /\ MayBegin
  /\ ops' = ops + 1
  /\ sshLease' = [sshLease EXCEPT !.active = TRUE]
  /\ op' = [kind |-> kind, parentDone |-> FALSE, timedOut |-> FALSE, published |-> None,
            cancellation |-> None, result |-> None]
  /\ opChannel' = "none" /\ worker' = "start" /\ chanCloser' = "off" /\ owner' = "select"
  /\ UNCHANGED <<current, transport, pending>>

BeginRefused ==
  /\ owner = "idle" /\ ops < MaxOps /\ ~MayBegin
  /\ ops' = ops + 1
  /\ sshLease' = [sshLease EXCEPT !.unhealthy = @ \/ (BeginUnlocked /\ ~current)]
  /\ UNCHANGED <<current, transport, opChannel, op, worker, chanCloser, owner, pending>>

(* end of the operation, with what the owner is told *)
EndOperation(unhealthy, result) ==
  /\ sshLease' = SettleLocked([sshLease EXCEPT !.active = FALSE, !.unhealthy = @ \/ unhealthy])
  /\ op' = [op EXCEPT !.result = result]
  /\ owner' = "idle"

----------------------------------------------------------------------------
(* The worker *)
WorkerStart ==
  /\ worker = "start"
  /\ IF CtxDone /\ op.kind = "exec"
       THEN op' = [op EXCEPT !.published = "ctx"] /\ worker' = "joined"
       ELSE worker' = "opening" /\ UNCHANGED op
  /\ UNCHANGED <<sshLease, current, transport, opChannel, chanCloser, owner, pending, ops>>

OpenSession ==
  /\ worker = "opening" /\ transport = "open"
  /\ opChannel' = "open" /\ worker' = "ready"
  /\ UNCHANGED <<sshLease, current, transport, op, chanCloser, owner, pending, ops>>

OpenSessionFails ==
  /\ worker = "opening"
  /\ op' = [op EXCEPT !.published = "error"] /\ worker' = "joined"
  /\ UNCHANGED <<sshLease, current, transport, opChannel, chanCloser, owner, pending, ops>>

WorkerCheck ==
  /\ worker = "ready"
  /\ IF CtxDone THEN /\ op' = [op EXCEPT !.published = "ctx"]
                     /\ worker' = IF op.kind = "exec" THEN "joined" ELSE "leaving"
                ELSE worker' = "running" /\ UNCHANGED op
  /\ UNCHANGED <<sshLease, current, transport, opChannel, chanCloser, owner, pending, ops>>

(* The exit status (or the end of the transfer) arrives, or the call fails. *)
RunReturns(outcome) ==
  /\ worker = "running"
  /\ outcome = "success" => transport # "closed"
  /\ op' = [op EXCEPT !.published = outcome]
  /\ worker' = IF op.kind = "exec" THEN "joined" ELSE "leaving"
  /\ UNCHANGED <<sshLease, current, transport, opChannel, chanCloser, owner, pending, ops>>

(* The worker of an upload closes its channel itself. *)
WorkerLeaves ==
  /\ worker = "leaving"
  /\ worker' = "joined" /\ opChannel' = "closed"
  /\ UNCHANGED <<sshLease, current, transport, op, chanCloser, owner, pending, ops>>

----------------------------------------------------------------------------
(* The supervisor.  The reason of a cancellation is fixed before the teardown. *)
TakeResult ==
  /\ owner = "select" /\ op.published # None
  /\ op' = [op EXCEPT !.cancellation = IF op.published = "ctx" THEN ExecCancellation ELSE None]
  /\ owner' = "grace" /\ chanCloser' = "waiting"
  /\ UNCHANGED <<sshLease, current, transport, opChannel, worker, pending, ops>>

SeeCancelled ==
  /\ owner = "select" /\ CtxDone
  /\ op' = [op EXCEPT !.cancellation = ExecCancellation]
  /\ owner' = "grace" /\ chanCloser' = "waiting"
  /\ UNCHANGED <<sshLease, current, transport, opChannel, worker, pending, ops>>

(* An upload whose local file cannot be read makes no call. *)
SourceFails ==
  /\ owner = "select" /\ op.kind = "upload" /\ worker = "start"
  /\ worker' = "off"
  /\ EndOperation(FALSE, "error")
  /\ UNCHANGED <<current, transport, opChannel, chanCloser, pending, ops>>

CloserFinds ==
  /\ chanCloser = "waiting"
  /\ opChannel = "none" => worker = "joined"
  /\ chanCloser' = IF opChannel = "none" THEN "closed" ELSE "closing"
  /\ UNCHANGED <<sshLease, current, transport, opChannel, op, worker, owner, pending, ops>>

SessionClosed ==
  /\ chanCloser = "closing"
  /\ chanCloser' = "closed" /\ opChannel' = "closed"
  /\ UNCHANGED <<sshLease, current, transport, op, worker, owner, pending, ops>>

AllJoined == worker = "joined" /\ chanCloser = "closed"

(* An exit status wins, also one that came during the teardown.  A transfer fails if
   its context is done, or if the transport had to be closed. *)
ExecOutcome ==
  IF op.published = "success" THEN "success"
  ELSE IF op.cancellation # None THEN op.cancellation ELSE "error"
UploadOutcome(closed) ==
  CASE CtxDone                                -> ExecCancellation
    [] closed /\ op.published = "success"     -> "error"
    [] OTHER                                  -> op.published
Outcome(closed) == IF op.kind = "exec" THEN ExecOutcome ELSE UploadOutcome(closed)

UnhealthyOnError(closed, connection) == connection
Unhealthy(closed, connection) == closed \/ connection
Conclude(closed) ==
  LET result == Outcome(closed)
  IN \E connection \in BOOLEAN :
       /\ op.kind = "exec" => connection = (result = "error")
       /\ connection => result = "error"
       /\ EndOperation(Unhealthy(closed, connection), result)

Joined ==
  /\ owner = "grace" /\ AllJoined
  /\ Conclude(FALSE)
  /\ UNCHANGED <<current, transport, opChannel, worker, chanCloser, pending, ops>>

CleanupGraceEnds ==
  /\ owner = "grace" /\ ~AllJoined
  /\ transport' = "closing" /\ owner' = "budget"
  /\ UNCHANGED <<sshLease, current, opChannel, op, worker, chanCloser, pending, ops>>

TransportClosed ==
  /\ transport = "closing" /\ transport' = "closed"
  /\ UNCHANGED <<sshLease, current, opChannel, op, worker, chanCloser, owner, pending, ops>>

Settled == AllJoined /\ transport = "closed"
JoinedLate ==
  /\ owner = "budget" /\ Settled
  /\ Conclude(TRUE)
  /\ UNCHANGED <<current, transport, opChannel, worker, chanCloser, pending, ops>>

(* The budget ends: the owner is told, and the operation stays active. *)
EndAtOnce ==
  /\ sshLease' = SettleLocked([sshLease EXCEPT !.active = FALSE, !.unhealthy = TRUE])
  /\ UNCHANGED pending
EndLater == pending' = TRUE /\ UNCHANGED sshLease
BudgetEnds ==
  /\ owner = "budget"
  /\ EndLater
  /\ op' = [op EXCEPT !.result = "pending"]
  /\ owner' = "idle"
  /\ UNCHANGED <<current, transport, opChannel, worker, chanCloser, ops>>

PendingEndsUnsettled ==
  /\ pending /\ Settled
  /\ pending' = FALSE
  /\ sshLease' = [sshLease EXCEPT !.active = FALSE, !.unhealthy = TRUE]
  /\ UNCHANGED <<current, transport, opChannel, op, worker, chanCloser, owner, ops>>
PendingEnds ==
  /\ pending /\ Settled
  /\ pending' = FALSE
  /\ sshLease' = SettleLocked([sshLease EXCEPT !.active = FALSE, !.unhealthy = TRUE])
  /\ UNCHANGED <<current, transport, opChannel, op, worker, chanCloser, owner, ops>>

----------------------------------------------------------------------------
(* The owner gives the lease back: releaseAndWait, or Discard, which also cancels an
   operation that is still active. *)
Release ==
  /\ owner = "idle"
  /\ sshLease' = SettleLocked([sshLease EXCEPT !.closing = TRUE])
  /\ owner' = "wait"
  /\ UNCHANGED <<current, transport, opChannel, op, worker, chanCloser, pending, ops>>

Discard ==
  /\ owner = "idle"
  /\ sshLease' = SettleLocked([sshLease EXCEPT !.closing = TRUE, !.unhealthy = TRUE])
  /\ op' = [op EXCEPT !.parentDone = @ \/ sshLease.active]
  /\ owner' = "returned"
  /\ UNCHANGED <<current, transport, opChannel, worker, chanCloser, pending, ops>>

(* The pool takes the handle: ReleaseHandle closes a stale one. *)
PoolSettles ==
  /\ sshLease.state = "settling"
  /\ LET keeps == current /\ ~sshLease.unhealthy
     IN /\ sshLease' = [sshLease EXCEPT !.state = IF keeps THEN "released" ELSE "discarded"]
        /\ transport' = IF keeps THEN transport ELSE "closed"
  /\ UNCHANGED <<current, opChannel, op, worker, chanCloser, owner, pending, ops>>

WaitEnds ==
  /\ owner = "wait" /\ sshLease.state \in {"released", "discarded"}
  /\ owner' = "returned"
  /\ UNCHANGED <<sshLease, current, transport, opChannel, op, worker, chanCloser, pending, ops>>
WaitGivesUp ==
  /\ owner = "wait"
  /\ owner' = "returned"
  /\ UNCHANGED <<sshLease, current, transport, opChannel, op, worker, chanCloser, pending, ops>>

----------------------------------------------------------------------------
(* The caller goes away, the operation's own timeout passes, the server is changed. *)
ParentCancels ==
  /\ owner \in {"select", "grace", "budget"} /\ ~op.parentDone
  /\ op' = [op EXCEPT !.parentDone = TRUE]
  /\ UNCHANGED <<sshLease, current, transport, opChannel, worker, chanCloser, owner, pending, ops>>
TimesOut ==
  /\ owner \in {"select", "grace", "budget"} /\ ~op.timedOut
  /\ op' = [op EXCEPT !.timedOut = TRUE]
  /\ UNCHANGED <<sshLease, current, transport, opChannel, worker, chanCloser, owner, pending, ops>>
Invalidate ==
  /\ current /\ sshLease.state # "released" /\ current' = FALSE
  /\ UNCHANGED <<sshLease, transport, opChannel, op, worker, chanCloser, owner, pending, ops>>

WorkerSteps == WorkerStart \/ OpenSession \/ OpenSessionFails \/ WorkerCheck \/ WorkerLeaves
                 \/ \E outcome \in {"success", "error"} : RunReturns(outcome)
(* Exec and CopyFile run one operation, a workflow several; then the lease goes back. *)
OwnerSteps == \/ \E kind \in Kinds : Begin(kind)
              \/ BeginRefused \/ Release \/ Discard \/ WaitEnds \/ WaitGivesUp
LeaseNext ==
  \/ OwnerSteps \/ WorkerSteps
  \/ TakeResult \/ SeeCancelled \/ SourceFails \/ CloserFinds \/ SessionClosed
  \/ Joined \/ CleanupGraceEnds \/ TransportClosed \/ JoinedLate \/ BudgetEnds \/ PendingEnds
  \/ PoolSettles \/ ParentCancels \/ TimesOut \/ Invalidate
LeaseSpec == LeaseInit /\ [][LeaseNext]_opVars

(* Goroutines of the Hub that wait for nobody, and timers *)
LeaseHubFairness ==
  /\ WF_opVars(WorkerStart \/ WorkerCheck) /\ WF_opVars(CloserFinds)
  /\ WF_opVars(TakeResult \/ SeeCancelled \/ SourceFails)
  /\ WF_opVars(Joined \/ CleanupGraceEnds) /\ WF_opVars(JoinedLate \/ BudgetEnds)
  /\ WF_opVars(PendingEnds)
  /\ WF_opVars(TimesOut) /\ WF_opVars(WaitEnds \/ WaitGivesUp)
(* A call returns once the transport is closed; closing it takes finite time. *)
LeasePeerFairness ==
  /\ WF_opVars(transport = "closed" /\ (OpenSessionFails \/ RunReturns("error") \/ WorkerLeaves))
  /\ WF_opVars(transport = "closed" /\ SessionClosed)
  /\ WF_opVars(TransportClosed) /\ WF_opVars(PoolSettles)
LeaseHubSpec == LeaseSpec /\ LeaseHubFairness

----------------------------------------------------------------------------
Lease == [active : BOOLEAN, closing : BOOLEAN, unhealthy : BOOLEAN,
          state : {"held", "settling", "released", "discarded"}]
Op == [kind : Kinds \cup {None}, parentDone : BOOLEAN, timedOut : BOOLEAN,
       published : {None, "ctx", "success", "error"},
       cancellation : {None, "cancelled", "timeout"},
       result : {None, "success", "error", "ctx", "cancelled", "timeout", "pending"}]
LeaseTypeOK ==
  /\ sshLease \in Lease /\ op \in Op
  /\ current \in BOOLEAN /\ pending \in BOOLEAN /\ ops \in 0 .. MaxOps
  /\ transport \in {"open", "closing", "closed"} /\ opChannel \in {"none", "open", "closed"}
  /\ worker \in {"off", "start", "opening", "ready", "running", "leaving", "joined"}
  /\ chanCloser \in {"off", "waiting", "closing", "closed"}
  /\ owner \in {"idle", "select", "grace", "budget", "wait", "returned"}

Quiet == worker \in {"off", "joined"} /\ chanCloser \in {"off", "closed"} /\ transport # "closing"

(* "It must never expose an in-use client to another borrower just to satisfy a
   response deadline": from the moment the handle is on its way to the pool nobody
   uses the transport, and a handle that was released is whole. *)
SettledWhole ==
  /\ sshLease.state # "held" => Quiet /\ ~pending
  /\ sshLease.state = "released" => transport = "open" /\ opChannel # "open"

(* An operation starts only on a whole transport that nothing of an earlier operation
   uses any more (begin: one operation at a time, and none after a broken one). *)
OperationsApart ==
  [][owner = "idle" /\ owner' = "select" =>
       transport = "open" /\ opChannel # "open" /\ Quiet]_opVars

(* What the owner learns: the exit status if the command has reported one ("read it
   after joining instead of losing that exit status"), success of a transfer only on
   a lease that still works ("must not observe success with a dead lease"). *)
OutcomeReported ==
  owner = "idle" /\ op.result \notin {None, "pending"} =>
    /\ op.kind = "exec" => (op.result = "success" <=> op.published = "success")
    /\ op.kind = "upload" /\ op.result = "success" => transport = "open" /\ ~CtxDone

(* What an operation leaves behind, to the pool and to its owner. *)
Settlement == LeaseTypeOK /\ SettledWhole /\ OutcomeReported

(* The owner of an operation is answered although the peer may never answer and the
   transport may not close, and the lease is settled if only closing it ends. *)
OwnerAnswered ==
  /\ owner \in {"select", "grace", "budget", "wait"} ~> owner \in {"idle", "returned"}
  /\ LeasePeerFairness => (sshLease.closing ~> sshLease.state \in {"released", "discarded"})
=============================================================================
