---------------------------- MODULE UsageHistory ----------------------------
(***************************************************************************)
(* The operation history: the recorder of the Hub (usage/recorder.go and   *)
(* usage/operation.go) over the store of UsageStore.                       *)
(*                                                                         *)
(* The goroutines that write a row are the request's own (one for each     *)
(* operation: Begin and Finish), the retry loop ("loop": phases and        *)
(* pending results) and the heartbeat loop ("heart": restored rows).  Each *)
(* takes its snapshot under the recorder's lock, writes without the lock,  *)
(* and applies the answer under the lock again.  The maintenance loop      *)
(* (reconciliation, cleanup) takes its view of the tracked operations      *)
(* inside the transaction.                                                 *)
(***************************************************************************)
EXTENDS UsageStore

ASSUME OpsAreOps == Ops \cap {None, "loop", "heart"} = {}

VARIABLES op,         \* per operation: how far it is, StateSeq and OwnerInstanceID
          owner,      \* the recorder's instance identity
          confirmed,  \* now is before leaseConfirmedUntil
          active,     \* operations in r.active
          pending,    \* operations with a result in r.pending
          phases,     \* phase changes queued for the retry loop
          restore,    \* what OwnerUnknown returned and the heartbeat still has to do
          job,        \* per goroutine: the write in flight
          lost        \* results counted in FinalizationLost

recVars == <<op, owner, confirmed, active, pending, phases, restore, job, lost>>
vars == <<row, inst, aged, stale, op, owner, confirmed, active, pending, phases, restore, job, lost>>

Goroutines == Ops \cup {"loop", "heart"}
NoJob == [op |-> None]
Finished == {"finishing", "over"}

Init ==
  /\ StoreInit
  /\ op = [o \in Ops |-> [pc |-> "new", seq |-> 0, owner |-> None]]
  /\ owner \in Instances
  /\ confirmed = FALSE
  /\ active = {} /\ pending = {} /\ phases = {} /\ restore = {} /\ lost = {}
  /\ job = [g \in Goroutines |-> NoJob]

TypeOK ==
  /\ StoreTypeOK
  /\ op \in [Ops -> [pc : {"new", "skipped", "starting", "open", "finishing", "over", "dead"},
                     seq : 0..MaxSeq, owner : Instances \cup {None}]]
  /\ owner \in Instances /\ confirmed \in BOOLEAN
  /\ active \subseteq Ops /\ pending \subseteq Ops /\ phases \subseteq Ops
  /\ restore \subseteq Ops /\ lost \subseteq Ops
  /\ job \in [Goroutines -> Snapshot \cup {NoJob}]
  /\ active \cap pending = {}

SnapshotOf(o, outcome) ==
  [op |-> o, outcome |-> outcome, seq |-> op[o].seq, owner |-> op[o].owner]
Idle(g) == job[g] = NoJob
TrackedActive == active
TrackedOperations == active \cup pending
-----------------------------------------------------------------------------
(* Operations.  Begin admits a long operation and makes its running row; without a
   confirmed lease, or over a budget, the operation is not recorded. *)
Begin(o) ==
  /\ op[o].pc = "new" /\ confirmed
  /\ op' = [op EXCEPT ![o] = [pc |-> "starting", seq |-> 1, owner |-> owner]]
  /\ active' = active \cup {o}
  /\ job' = [job EXCEPT ![o] = [op |-> o, outcome |-> "running", seq |-> 1, owner |-> owner]]
  /\ UNCHANGED <<storeVars, owner, confirmed, pending, phases, restore, lost>>

SkipCapture(o) ==
  /\ op[o].pc = "new"
  /\ op' = [op EXCEPT ![o].pc = "skipped"]
  /\ UNCHANGED <<storeVars, owner, confirmed, active, pending, phases, restore, job, lost>>

Begun(o) ==
  /\ op[o].pc = "starting"
  /\ \E seen \in {"ok", "permanent", "transient"} : Upsert(job[o], seen)
  /\ op' = [op EXCEPT ![o].pc = "open"]
  /\ job' = [job EXCEPT ![o] = NoJob]
  /\ UNCHANGED <<owner, confirmed, active, pending, phases, restore, lost>>

(* The queue of phase changes may be full. *)
SchedulePhase(o) == phases' \in {phases, phases \cup {o}}
SetPhase(o) ==
  /\ op[o].pc = "open" /\ op[o].seq + 1 < MaxSeq
  /\ op' = [op EXCEPT ![o].seq = @ + 1]
  /\ SchedulePhase(o)
  /\ UNCHANGED <<storeVars, owner, confirmed, active, pending, restore, job, lost>>

(* Finish of a long operation, or of a short one that is recorded only now. *)
Finish(o) ==
  /\ op[o].pc \in {"new", "open"}
  /\ op' = [op EXCEPT ![o].pc = "finishing", ![o].seq = @ + 1]
  /\ job' = [job EXCEPT ![o] = [op |-> o, outcome |-> "final", seq |-> op[o].seq + 1,
                                owner |-> op[o].owner]]
  /\ UNCHANGED <<storeVars, owner, confirmed, active, pending, phases, restore, lost>>

(* enqueueUsageLocked: the results of other operations may fill the queue, by number
   or by size. *)
Enqueue(o) == \/ pending' = pending \cup {o} /\ UNCHANGED lost
              \/ lost' = lost \cup {o} /\ UNCHANGED pending

(* The answer to the final write, and the operation leaves the active table, in one
   critical section. *)
Conclude(o, seen) ==
  CASE seen = "ok"                          -> UNCHANGED <<pending, lost>>
    [] seen = "transient" /\ o \notin stale -> Enqueue(o)
    [] OTHER                                -> lost' = lost \cup {o} /\ UNCHANGED pending
Untracked(o) == active \ {o}
FinishWritten(o) ==
  /\ op[o].pc = "finishing"
  /\ \E seen \in {"ok", "permanent", "transient"} : Upsert(job[o], seen) /\ Conclude(o, seen)
  /\ active' = Untracked(o)
  /\ op' = [op EXCEPT ![o].pc = "over"]
  /\ job' = [job EXCEPT ![o] = NoJob]
  /\ UNCHANGED <<owner, confirmed, phases, restore>>
-----------------------------------------------------------------------------
(* The retry loop. *)
PersistPhase(o) ==
  /\ Idle("loop") /\ o \in phases
  /\ phases' = phases \ {o}
  /\ job' = IF o \in active /\ op[o].pc \notin Finished
              THEN [job EXCEPT !["loop"] = SnapshotOf(o, "running")] ELSE job
  /\ UNCHANGED <<storeVars, op, owner, confirmed, active, pending, restore, lost>>

RetryPending(o) ==
  /\ Idle("loop") /\ o \in pending /\ o \notin stale
  /\ job' = [job EXCEPT !["loop"] = SnapshotOf(o, "final")]
  /\ UNCHANGED <<storeVars, op, owner, confirmed, active, pending, phases, restore, lost>>

(* RetryLifetime or the retention period is over. *)
GiveUpPending(o) ==
  /\ Idle("loop") /\ o \in pending
  /\ pending' = pending \ {o} /\ lost' = lost \cup {o}
  /\ UNCHANGED <<storeVars, op, owner, confirmed, active, phases, restore, job>>

LoopWritten ==
  /\ ~Idle("loop")
  /\ \E seen \in {"ok", "permanent", "transient"} :
       /\ Upsert(job["loop"], seen)
       /\ LET o == job["loop"].op
              final == job["loop"].outcome = "final"
          IN /\ pending' = IF final /\ seen # "transient" THEN pending \ {o} ELSE pending
             /\ lost' = IF final /\ seen = "permanent" THEN lost \cup {o} ELSE lost
  /\ job' = [job EXCEPT !["loop"] = NoJob]
  /\ UNCHANGED <<op, owner, confirmed, active, phases, restore>>
-----------------------------------------------------------------------------
(* The heartbeat loop.  Fresh identities are those nothing refers to. *)
Fresh(i) ==
  /\ inst[i] = "absent"
  /\ \A o \in Ops : row[o].owner # i /\ op[o].owner # i

(* registerOwner for identity i, as seen by the recorder. *)
RegisterOwner(i) ==
  /\ owner' = i
  /\ \/ Register(i) /\ confirmed' \in BOOLEAN
     \/ UNCHANGED storeVars /\ confirmed' = FALSE

HeartIdle == Idle("heart") /\ restore = {}

(* What the query OwnerUnknown returns; a failed query returns nothing. *)
OwnerUnknown == {o \in Ops : row[o].owner = owner /\ LeaseUnknown(row[o])}

(* Heartbeat commits; its answer may not arrive. *)
Heartbeat ==
  /\ HeartIdle /\ inst[owner] \in {"valid", "expired"}
  /\ Renew(owner)
  /\ \/ confirmed' = TRUE /\ restore' \in {OwnerUnknown, {}}
     \/ UNCHANGED <<confirmed, restore>>
  /\ UNCHANGED <<op, owner, active, pending, phases, job, lost>>

(* The heartbeat finds its owner row missing or retired. *)
ReplaceOwner(i) ==
  /\ HeartIdle /\ inst[owner] \in {"absent", "retired"} /\ Fresh(i)
  /\ RegisterOwner(i)
  /\ UNCHANGED <<op, active, pending, phases, restore, job, lost>>

RestoreUnknown(o) ==
  /\ Idle("heart") /\ o \in restore
  /\ restore' = restore \ {o}
  /\ IF o \in active /\ op[o].pc \notin Finished /\ op[o].seq + 1 < MaxSeq
       THEN /\ op' = [op EXCEPT ![o].seq = @ + 1]
            /\ job' = [job EXCEPT !["heart"] = [op |-> o, outcome |-> "running",
                                                seq |-> op[o].seq + 1, owner |-> op[o].owner]]
       ELSE UNCHANGED <<op, job>>
  /\ UNCHANGED <<storeVars, owner, confirmed, active, pending, phases, lost>>

HeartWritten ==
  /\ ~Idle("heart")
  /\ \E seen \in {"ok", "permanent", "transient"} : Upsert(job["heart"], seen)
  /\ job' = [job EXCEPT !["heart"] = NoJob]
  /\ UNCHANGED <<op, owner, confirmed, active, pending, phases, restore, lost>>

(* leaseConfirmedUntil passes. *)
Unconfirm ==
  /\ confirmed /\ confirmed' = FALSE
  /\ UNCHANGED <<storeVars, op, owner, active, pending, phases, restore, job, lost>>
-----------------------------------------------------------------------------
(* The maintenance loop. *)
Reconcile(o) == ReconcileRow(o, owner, TrackedOperations) /\ UNCHANGED recVars
Cleanup(o) == CleanupRow(o) /\ UNCHANGED recVars
CleanupInstances(i) == CleanupInstance(i) /\ UNCHANGED recVars

(* Time.  A retention period lasts far longer than a write: no running snapshot of
   an operation that has ended is still being written when one is over. *)
Settled(o) ==
  op[o].pc \notin {"starting", "open"} =>
    \A g \in Goroutines : job[g].op = o => job[g].outcome = "final"
LeaseExpires(i) == Expire(i) /\ UNCHANGED recVars
RowAges(o) == Settled(o) /\ AgeRow(o) /\ UNCHANGED recVars
ResultAges(o) ==
  /\ op[o].pc \in Finished /\ o \notin stale /\ Settled(o)
  /\ stale' = stale \cup {o}
  /\ UNCHANGED <<row, inst, aged, recVars>>

(* The process ends, planned or not, and a new one starts with a new identity. *)
Crash(i) ==
  /\ Fresh(i)
  /\ RegisterOwner(i)
  /\ op' = [o \in Ops |-> IF op[o].pc \in {"new", "skipped"} THEN op[o]
                          ELSE [pc |-> "dead", seq |-> 0, owner |-> None]]
  /\ active' = {} /\ pending' = {} /\ phases' = {} /\ restore' = {} /\ lost' = {}
  /\ job' = [g \in Goroutines |-> NoJob]
-----------------------------------------------------------------------------
(* The select of a loop takes one case at a time, in any order. *)
RetryLoop ==
  \/ \E o \in Ops : PersistPhase(o) \/ RetryPending(o) \/ GiveUpPending(o)
  \/ LoopWritten
HeartbeatLoop ==
  \/ Heartbeat \/ HeartWritten
  \/ \E i \in Instances : ReplaceOwner(i)
  \/ \E o \in Ops : RestoreUnknown(o)
MaintenanceLoop ==
  \/ \E o \in Ops : Reconcile(o) \/ Cleanup(o)
  \/ \E i \in Instances : CleanupInstances(i)

Next ==
  \/ \E o \in Ops :
       \/ Begin(o) \/ SkipCapture(o) \/ Begun(o) \/ SetPhase(o) \/ Finish(o) \/ FinishWritten(o)
       \/ RowAges(o) \/ ResultAges(o)
  \/ RetryLoop \/ HeartbeatLoop \/ MaintenanceLoop \/ Unconfirm
  \/ \E i \in Instances : LeaseExpires(i) \/ Crash(i)

Spec == Init /\ [][Next]_vars

(* The maintenance ticker keeps reconciling (with a database that answers), the
   leases of processes that are gone run out, a result is not retried for ever. *)
FairSpec ==
  /\ Spec
  /\ \A i \in Instances : WF_vars(i # owner /\ LeaseExpires(i))
  /\ \A o \in Ops : WF_vars(Reconcile(o)) /\ SF_vars(GiveUpPending(o)) /\ WF_vars(FinishWritten(o))
  /\ WF_vars(LoopWritten)
-----------------------------------------------------------------------------
(* The result of a finished operation is never lost silently: it is stored, or
   waits in the retry queue, or was counted in FinalizationLost, or is older than
   its retention period (Finish, retryPending, Upsert answering success without
   a write).  Reconciliation never declares a result unavailable while the process
   still tracks the operation: it runs, its final write is in flight, or its result
   waits for a retry (ReconcileTracked reads the tracked operations after it has
   locked the owner). *)
ResultAccounted ==
  /\ TypeOK
  /\ \A o \in Ops :
       op[o].pc = "over" =>
         \/ o \in pending \cup lost
         \/ row[o].outcome \in {"final", "deleted"} \/ o \in stale
  /\ \A o \in Ops :
       /\ row[o].outcome = "unknown" /\ row[o].reason = "finalization_unavailable"
       /\ op[o].owner = row[o].owner
       => o \notin active \cup pending

(* A stored result never changes again, and a row that was written off never shows
   the operation as running again, though older running snapshots may still be in
   flight: only a row that lost its lease may go back (Upsert).  A row that
   retention cleanup has deleted comes back neither with a result nor for an
   operation that is still tracked (Cleanup retires the owner of a row whose lease
   has expired; Upsert stores no result older than its retention).  What can still
   appear is a running snapshot that was in flight when the result of its operation
   was given up, and RunningEnds is about that. *)
ResultsFinal ==
  [][\A o \in Ops :
       /\ row[o].outcome = "final" => row'[o].outcome \in {"final", "deleted"}
       /\ row[o].outcome = "unknown" /\ row'[o].outcome = "running"
            => row[o].reason = "owner_lease_expired"
       /\ row[o].outcome = "deleted" /\ row'[o].outcome # "deleted"
            => row'[o].outcome = "running" /\ o \in lost]_vars

(* The history does not show an operation as running for ever: once the operation
   has ended, or its process has, its row leaves running. *)
RunningEnds ==
  \A o \in Ops : row[o].outcome = "running" /\ op[o].pc \in {"over", "dead"}
                  ~> row[o].outcome # "running"
=============================================================================
