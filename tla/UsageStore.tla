----------------------------- MODULE UsageStore -----------------------------
(***************************************************************************)
(* The operation history in the database (repository/usage_log.go): one    *)
(* row for each recorded operation, written by the Hub process that owns   *)
(* it, and one row for each Hub process, with a lease.                     *)
(*                                                                         *)
(* Every operator below is one transaction.  Upsert holds the owner's row  *)
(* in SHARE mode, reconciliation, heartbeat and cleanup hold it in UPDATE  *)
(* mode, so that they do not interleave.  Time is abstracted: a lease may  *)
(* run out, and a retention period may end, at any moment.                 *)
(***************************************************************************)
EXTENDS Naturals, FiniteSets

CONSTANTS Ops,        \* operations
          Instances,  \* identities of Hub processes (newUUID)
          MaxSeq,     \* bound on StateSeq
          None

ASSUME NoneIsNoInstance == None \notin Instances
ASSUME StartAndResult == MaxSeq \in Nat \ {0, 1}   \* a long operation has two states at least

VARIABLES row,      \* usage_logs
          inst,     \* usage_log_instances
          aged,     \* rows whose retention period is over
          stale     \* operations that finished a retention period ago

storeVars == <<row, inst, aged, stale>>

Outcomes == {"absent", "running", "final", "unknown", "deleted"}
Reasons  == {"", "owner_lease_expired", "finalization_unavailable", "owner_missing"}
Row == [outcome : Outcomes, reason : Reasons, seq : 0..MaxSeq, owner : Instances \cup {None}]
NoRow == [outcome |-> "absent", reason |-> "", seq |-> 0, owner |-> None]

StoreInit ==
  /\ row = [o \in Ops |-> NoRow]
  /\ inst = [i \in Instances |-> "absent"]
  /\ aged = {} /\ stale = {}

StoreTypeOK ==
  /\ row \in [Ops -> Row]
  /\ inst \in [Instances -> {"absent", "valid", "expired", "retired"}]
  /\ aged \subseteq Ops /\ stale \subseteq Ops

Stored(o) == row[o].outcome \notin {"absent", "deleted"}
RecoveryUnknown(r) ==
  r.outcome = "unknown" /\ r.reason \in {"owner_lease_expired", "finalization_unavailable"}

(* What the Hub wants to store; a short operation has no owner (None). *)
Snapshot == [op : Ops, outcome : {"running", "final"}, seq : 0..MaxSeq,
             owner : Instances \cup {None}]

(* What Upsert answers, and whether it changes the row. *)
Verdict(v) ==
  CASE v.owner # None /\ inst[v.owner] \in {"absent", "retired"} -> "permanent"
    [] v.owner # None /\ inst[v.owner] = "expired"             -> "transient"
    [] Stored(v.op) /\ row[v.op].owner # v.owner               -> "permanent"
    [] OTHER                                                   -> "ok"
Replaces(v) ==
  LET old == row[v.op]
  IN IF Stored(v.op)
       THEN /\ old.outcome = "running" \/ RecoveryUnknown(old)
            /\ v.seq > old.seq
            /\ v.outcome = "running" /\ RecoveryUnknown(old) => old.reason = "owner_lease_expired"
       ELSE ~(v.outcome = "final" /\ v.op \in stale)

Commit(v) ==
  IF Replaces(v)
    THEN /\ row' = [row EXCEPT ![v.op] = [outcome |-> v.outcome, reason |-> "", seq |-> v.seq,
                                          owner |-> v.owner]]
         /\ aged' = aged \ {v.op}
    ELSE UNCHANGED <<row, aged>>

(* One call of Upsert and what the caller sees.  It may fail before it reaches the
   database (no write slot), or in it, or its commit may get no answer. *)
Upsert(v, seen) ==
  /\ \/ seen = Verdict(v) /\ IF seen = "ok" THEN Commit(v) ELSE UNCHANGED <<row, aged>>
     \/ seen = "transient" /\ Verdict(v) = "ok" /\ Commit(v)
     \/ seen = "transient" /\ UNCHANGED <<row, aged>>
  /\ UNCHANGED <<inst, stale>>

(* RegisterInstance and Heartbeat, when they commit. *)
Register(i) ==
  /\ inst[i] = "absent" /\ \A o \in Ops : Stored(o) => row[o].owner # i
  /\ inst' = [inst EXCEPT ![i] = "valid"]
  /\ UNCHANGED <<row, aged, stale>>
Renew(i) ==
  /\ inst[i] \in {"valid", "expired"}
  /\ inst' = [inst EXCEPT ![i] = "valid"]
  /\ UNCHANGED <<row, aged, stale>>

(* ReconcileTracked for one row, by the process that runs as self and tracks the
   operations in tracked.  A batch is a sequence of such steps: an operation that
   is not tracked is never tracked again. *)
LeaseUnknown(r) == r.outcome = "unknown" /\ r.reason = "owner_lease_expired"
ReconcileOwnRow(o, self, tracked) ==
  /\ row[o].owner = self /\ row[o].outcome = "running" /\ o \notin tracked
  /\ row' = [row EXCEPT ![o].outcome = "unknown", ![o].reason = "finalization_unavailable"]
  /\ UNCHANGED <<inst, aged, stale>>
ReconcileRow(o, self, tracked) ==
  LET i == row[o].owner
      gone == inst[i] # "valid"
  IN /\ i # None
     /\ \/ gone /\ row[o].outcome = "running"
        \/ /\ i = self /\ ~gone /\ o \notin tracked
           /\ row[o].outcome = "running" \/ LeaseUnknown(row[o])
     /\ row' = [row EXCEPT ![o].outcome = "unknown",
                           ![o].reason = CASE inst[i] = "absent" -> "owner_missing"
                                           [] gone               -> "owner_lease_expired"
                                           [] OTHER              -> "finalization_unavailable"]
     /\ UNCHANGED <<inst, aged, stale>>

(* Cleanup of one row, and of an instance nothing refers to. *)
CleanupRowOfExpired(o) ==
  /\ row[o].outcome \in {"final", "unknown"} /\ o \in aged
  /\ row' = [row EXCEPT ![o] = [NoRow EXCEPT !.outcome = "deleted"]]
  /\ aged' = aged \ {o}
  /\ UNCHANGED <<inst, stale>>
CleanupRow(o) ==
  LET leased == LeaseUnknown(row[o])
      i == row[o].owner
  IN /\ row[o].outcome \in {"final", "unknown"} /\ o \in aged
     /\ leased => inst[i] # "valid"
     /\ inst' = IF leased /\ inst[i] = "expired" THEN [inst EXCEPT ![i] = "retired"] ELSE inst
     /\ row' = [row EXCEPT ![o] = [NoRow EXCEPT !.outcome = "deleted"]]
     /\ aged' = aged \ {o}
     /\ UNCHANGED stale
CleanupInstance(i) ==
  /\ inst[i] \in {"expired", "retired"} /\ \A o \in Ops : Stored(o) => row[o].owner # i
  /\ inst' = [inst EXCEPT ![i] = "absent"]
  /\ UNCHANGED <<row, aged, stale>>

(* Time passes: a lease runs out, a row or a result reaches the end of its retention. *)
Expire(i) ==
  /\ inst[i] = "valid"
  /\ inst' = [inst EXCEPT ![i] = "expired"]
  /\ UNCHANGED <<row, aged, stale>>
AgeRow(o) ==
  /\ row[o].outcome \in {"final", "unknown"} /\ o \notin aged
  /\ row[o].outcome = "final" => o \in stale
  /\ aged' = aged \cup {o}
  /\ UNCHANGED <<row, inst, stale>>
=============================================================================
