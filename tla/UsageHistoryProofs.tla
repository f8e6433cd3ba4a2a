------------------------- MODULE UsageHistoryProofs -------------------------
(* Proofs about UsageHistory for any operations, any identities of Hub processes and
   any number of state changes. *)
EXTENDS UsageHistory, TLAPS

USE NoneIsNoInstance, StartAndResult, OpsAreOps

Recorded == {"starting", "open", "finishing", "over"}
Gone == {"absent", "retired"}

(* What the recorder remembers of an operation, by how far it is: a long operation is
   in the active table until its final write was answered, and only then its result
   can wait in the queue. *)
Tracked(o) ==
  LET c == op[o]
  IN /\ c.pc \in {"new", "skipped"} => c.seq = 0 /\ c.owner = None
     /\ c.pc \in {"starting", "open"} => o \in active /\ c.seq < MaxSeq
     /\ o \in active => c.pc \in {"starting", "open", "finishing"} /\ c.owner # None
     /\ c.pc = "finishing" /\ o \notin active => c.owner = None
     /\ o \in pending => c.pc = "over"
     /\ o \in stale => c.pc \in Finished \cup {"dead"}

(* A row was written by its operation.  It has a smaller state number than the result
   has unless it is the result, and its owner is registered. *)
RowKnown(o) ==
  LET c == op[o]
      r == row[o]
  IN /\ c.pc \in {"new", "skipped"} \/ (c.pc = "finishing" /\ o \notin active)
          => r.outcome = "absent"
     /\ Stored(o) /\ c.pc # "dead" => r.owner = c.owner
     /\ r.outcome \in {"running", "unknown"} /\ c.pc # "dead" =>
          r.seq <= c.seq /\ (c.pc \in Finished => r.seq < c.seq)
     /\ r.outcome = "final" => c.pc \in {"over", "dead"}
     /\ r.outcome = "unknown" =>
          r.owner # None /\ r.reason \in {"owner_lease_expired", "finalization_unavailable"}
     /\ Stored(o) /\ r.owner # None => inst[r.owner] # "absent"
     /\ o \in aged /\ r.outcome = "final" => o \in stale

(* Nothing of a finished operation is forgotten; a row written off for want of a result
   belongs to one that is not tracked; and a deleted row is not written again with a
   result, because its owner is gone, or the result too old or given up. *)
ResultKnown(o) ==
  LET c == op[o]
      r == row[o]
  IN /\ c.pc = "over" => o \in pending \cup lost \cup stale \/ r.outcome = "final"
     /\ r.outcome = "unknown" /\ r.reason = "finalization_unavailable" /\ c.pc # "dead" =>
          c.pc = "over" /\ o \notin pending
     /\ r.outcome = "deleted" /\ c.pc # "dead" =>
          \/ c.owner # None /\ inst[c.owner] \in Gone
          \/ o \in stale
          \/ c.pc = "over" /\ o \in lost \ pending

(* A write in flight is of the operation's owner, and older than its result unless it
   is the result.  A result is written by the operation itself, and then by the retry
   loop for as long as it is queued. *)
Written(v) ==
  LET c == op[v.op]
  IN /\ v.owner = c.owner /\ c.pc \in Recorded
     /\ v.outcome = "running" =>
          /\ v.owner # None /\ v.op \notin stale
          /\ v.seq <= c.seq /\ (c.pc \in Finished => v.seq < c.seq)
     /\ v.outcome = "final" => v.seq = c.seq
InFlight(g) ==
  LET v == job[g]
  IN v # NoJob =>
       /\ Written(v)
       /\ g \in Ops => v.op = g
       /\ g = "heart" => v.outcome = "running"
       /\ g = "loop" /\ v.outcome = "final" => v.op \in pending
OwnWrite(o) ==
  /\ op[o].pc = "starting" => job[o] # NoJob /\ job[o].outcome = "running"
  /\ op[o].pc = "finishing" => job[o] # NoJob /\ job[o].outcome = "final"
  /\ job[o] # NoJob => op[o].pc \in {"starting", "finishing"}

(* The inductive strengthening of ResultAccounted and of what ResultsFinal says of a
   step *)
HistoryInv ==
  /\ TypeOK
  /\ \A o \in Ops : Tracked(o) /\ RowKnown(o) /\ ResultKnown(o) /\ OwnWrite(o)
  /\ \A g \in Goroutines : InFlight(g)
-----------------------------------------------------------------------------
(* NoJob is no snapshot: a snapshot is of an operation. *)
LEMMA NoJobIsNoSnapshot == NoJob \notin Snapshot
BY DEF NoJob, Snapshot

(* A write that is accepted has a registered owner with a valid lease, or none, and is
   of the owner of the row. *)
LEMMA VerdictOk ==
  ASSUME NEW v, Verdict(v) = "ok"
  PROVE  /\ v.owner # None => inst[v.owner] \notin {"absent", "retired", "expired"}
         /\ Stored(v.op) => row[v.op].owner = v.owner
BY Zenon DEF Verdict

(* What one call of Upsert does to the rows: nothing, or it writes the snapshot in
   place of a row it may replace. *)
LEMMA UpsertWrites ==
  ASSUME StoreTypeOK, NEW v \in Snapshot, NEW seen, Upsert(v, seen)
  PROVE  /\ StoreTypeOK' /\ inst' = inst /\ stale' = stale
         /\ \A o \in Ops \ {v.op} : row'[o] = row[o] /\ (o \in aged' <=> o \in aged)
         /\ \/ row' = row /\ aged' = aged /\ (seen = "ok" => ~Replaces(v))
            \/ /\ Replaces(v) /\ v.op \notin aged'
               /\ v.owner # None => inst[v.owner] = "valid"
               /\ Stored(v.op) => row[v.op].owner = v.owner
               /\ row'[v.op].outcome = v.outcome /\ row'[v.op].seq = v.seq
               /\ row'[v.op].owner = v.owner
         /\ seen = "ok" => (Stored(v.op) => row[v.op].owner = v.owner)
<1>1. inst' = inst /\ stale' = stale
  BY DEF Upsert
<1>2. \/ row' = row /\ aged' = aged /\ (seen = "ok" => ~Replaces(v))
      \/ Verdict(v) = "ok" /\ Replaces(v) /\ Commit(v)
  BY Zenon DEF Upsert, Commit
<1>3. seen = "ok" => Verdict(v) = "ok"
  BY Zenon DEF Upsert
<1>4. v.op \in Ops /\ v.owner \in Instances \cup {None} /\ v.seq \in 0..MaxSeq
      /\ v.outcome \in {"running", "final"}
  BY DEF Snapshot
<1>5. seen = "ok" => (Stored(v.op) => row[v.op].owner = v.owner)
  BY <1>3, VerdictOk
<1>6. CASE row' = row /\ aged' = aged /\ (seen = "ok" => ~Replaces(v))
  BY <1>1, <1>5, <1>6 DEF StoreTypeOK
<1>7. CASE Verdict(v) = "ok" /\ Replaces(v) /\ Commit(v)
  <2> DEFINE r == [outcome |-> v.outcome, reason |-> "", seq |-> v.seq, owner |-> v.owner]
  <2>1. row' = [row EXCEPT ![v.op] = r] /\ aged' = aged \ {v.op}
    BY Zenon, <1>7 DEF Commit
  <2>2. r \in Row /\ r.outcome = v.outcome /\ r.seq = v.seq /\ r.owner = v.owner
    BY <1>4 DEF Row, Outcomes, Reasons
  <2> HIDE DEF r
  <2>3. row' \in [Ops -> Row] /\ row'[v.op] = r /\ \A o \in Ops \ {v.op} : row'[o] = row[o]
    BY <1>4, <2>1, <2>2 DEF StoreTypeOK
  <2>4. StoreTypeOK'
    BY <1>1, <2>1, <2>3 DEF StoreTypeOK
  <2>5. /\ v.owner # None => inst[v.owner] = "valid"
        /\ Stored(v.op) => row[v.op].owner = v.owner
    BY <1>4, <1>7, VerdictOk DEF StoreTypeOK
  <2> QED BY <1>1, <1>5, <1>7, <2>1, <2>2, <2>3, <2>4, <2>5
<1> QED BY <1>2, <1>6, <1>7

(* What an answer of the store says of the row of the operation *)
Upserted(v, seen, o) ==
  /\ Stored(o)' => row'[o].owner = op[o].owner
  /\ row'[o].outcome \in {"running", "unknown"} =>
       /\ row'[o].seq <= op[o].seq
       /\ op[o].pc \in Finished => row'[o].seq < op[o].seq
  /\ row'[o].outcome = "final" => op[o].pc = "over" \/ v.outcome = "final"
  /\ row'[o].outcome \in {"absent", "deleted", "unknown"} => row'[o] = row[o]
  /\ Stored(o)' /\ row'[o].owner # None => inst'[row'[o].owner] # "absent"
  /\ o \in aged' /\ row'[o].outcome = "final" => o \in stale
  /\ row[o].outcome = "final" => row'[o] = row[o]
  /\ row[o].outcome = "unknown" /\ row'[o].outcome = "running"
       => row[o].reason = "owner_lease_expired"
  /\ row[o].outcome = "deleted" /\ row'[o].outcome # "deleted"
       => row'[o].outcome = "running" /\ o \in lost
  /\ seen = "ok" /\ v.outcome = "final" => row'[o].outcome = "final" \/ o \in stale

(* The row of an operation after a write of it, compared with what the recorder knows:
   the write is of the operation's owner, no snapshot replaces a result or revives a
   row that was written off, and a deleted row comes back only for a result that was
   given up. *)
LEMMA UpsertedRow ==
  ASSUME HistoryInv, NEW v \in Snapshot, Written(v), NEW seen, Upsert(v, seen),
         v.outcome = "final" => op[v.op].pc = "finishing" \/ v.op \in pending,
         NEW o, o = v.op
  PROVE  Upserted(v, seen, o)
<1>1. o \in Ops /\ v.owner \in Instances \cup {None} /\ v.seq \in 0..MaxSeq
      /\ v.outcome \in {"running", "final"}
  BY DEF Snapshot
<1>2. StoreTypeOK /\ Tracked(o) /\ RowKnown(o) /\ ResultKnown(o)
  BY <1>1 DEF HistoryInv, TypeOK
<1>3. /\ op[o].seq \in Nat /\ op[o].owner \in Instances \cup {None}
      /\ op[o].pc \in {"new", "skipped", "starting", "open", "finishing", "over", "dead"}
      /\ row[o].seq \in Nat /\ row[o].outcome \in Outcomes
  BY <1>1 DEF HistoryInv, TypeOK, StoreTypeOK, Row
<1>4. /\ inst' = inst /\ stale' = stale
      /\ \/ row' = row /\ aged' = aged /\ (seen = "ok" => ~Replaces(v))
         \/ /\ Replaces(v) /\ o \notin aged'
            /\ v.owner # None => inst[v.owner] = "valid"
            /\ Stored(o) => row[o].owner = v.owner
            /\ row'[o].outcome = v.outcome /\ row'[o].seq = v.seq
            /\ row'[o].owner = v.owner
  BY <1>2, UpsertWrites
<1>5. op[o].pc \in Recorded /\ v.owner = op[o].owner
  BY DEF Written
<1>6. CASE row' = row /\ aged' = aged /\ (seen = "ok" => ~Replaces(v))
  <2>1. seen = "ok" /\ v.outcome = "final" => row[o].outcome = "final" \/ o \in stale
    BY <1>2, <1>3, <1>5, <1>6
       DEF Replaces, RecoveryUnknown, RowKnown, Tracked, Stored, Outcomes, Written, Recorded,
           Finished
  <2> QED
    BY <1>2, <1>3, <1>4, <1>5, <1>6, <2>1 DEF Upserted, RowKnown, Stored, Recorded
<1>7. CASE /\ Replaces(v) /\ o \notin aged'
           /\ v.owner # None => inst[v.owner] = "valid"
           /\ Stored(o) => row[o].owner = v.owner
           /\ row'[o].outcome = v.outcome /\ row'[o].seq = v.seq
           /\ row'[o].owner = v.owner
  <2>1. row[o].outcome # "final"
    BY <1>7 DEF Replaces, RecoveryUnknown, Stored
  <2>2. row[o].outcome = "unknown" /\ v.outcome = "running"
          => row[o].reason = "owner_lease_expired"
    BY <1>7 DEF Replaces, RecoveryUnknown, Stored
  <2>3. row[o].outcome = "deleted" => v.outcome = "running" /\ o \in lost
    <3> SUFFICES ASSUME row[o].outcome = "deleted"
                 PROVE  v.outcome = "running" /\ o \in lost
      OBVIOUS
    <3>1. \/ op[o].owner # None /\ inst[op[o].owner] \in Gone
          \/ o \in stale
          \/ op[o].pc = "over" /\ o \in lost \ pending
      BY <1>2, <1>5 DEF ResultKnown, Recorded
    <3>2. ~(op[o].owner # None /\ inst[op[o].owner] \in Gone)
      BY <1>5, <1>7 DEF Gone
    <3>3. o \notin stale
      BY <1>1, <1>7 DEF Replaces, Stored, Written
    <3> QED BY <1>1, <3>1, <3>2, <3>3
  <2>4. v.outcome = "running" =>
          v.seq <= op[o].seq /\ (op[o].pc \in Finished => v.seq < op[o].seq)
    BY DEF Written
  <2> QED
    BY <1>1, <1>3, <1>4, <1>5, <1>7, <2>1, <2>2, <2>3, <2>4 DEF Upserted, Stored
<1> QED BY <1>4, <1>6, <1>7
-----------------------------------------------------------------------------
(* An operation that a step does not touch keeps its part of the invariant. *)
OpInv(o) == Tracked(o) /\ RowKnown(o) /\ ResultKnown(o)
LEMMA OpFrame ==
  ASSUME NEW o \in Ops, OpInv(o), op'[o] = op[o], row'[o] = row[o], inst' = inst,
         o \in active' <=> o \in active, o \in pending' <=> o \in pending,
         o \in lost => o \in lost', o \in stale' <=> o \in stale, o \in aged' <=> o \in aged
  PROVE  OpInv(o)'
<1>1. Tracked(o)'
  BY DEF OpInv, Tracked
<1>2. RowKnown(o)'
  BY DEF OpInv, RowKnown, Stored
<1>3. ResultKnown(o)'
  BY DEF OpInv, ResultKnown
<1> QED BY <1>1, <1>2, <1>3 DEF OpInv

(* A step that touches one operation keeps the invariant, when it keeps the type
   invariant, the operation's part, and that of the writes of this operation. *)
LEMMA OneOperation ==
  ASSUME HistoryInv, TypeOK', NEW o \in Ops, inst' = inst, OpInv(o)', OwnWrite(o)',
         \A p \in Ops \ {o} :
           /\ op'[p] = op[p] /\ row'[p] = row[p] /\ job'[p] = job[p]
           /\ (p \in active' <=> p \in active) /\ (p \in pending' <=> p \in pending)
           /\ (p \in lost => p \in lost')
           /\ (p \in stale' <=> p \in stale) /\ (p \in aged' <=> p \in aged),
         \A g \in Goroutines :
           job'[g] # job[g] \/ (job[g] # NoJob /\ job[g].op = o) => InFlight(g)'
  PROVE  HistoryInv'
<1>1. ASSUME NEW p \in Ops, p # o
      PROVE  OpInv(p)' /\ OwnWrite(p)'
  <2>1. OpInv(p) /\ OwnWrite(p)
    BY <1>1 DEF HistoryInv, OpInv
  <2>2. OpInv(p)'
    BY <1>1, <2>1, OpFrame
  <2>3. OwnWrite(p)'
    BY <1>1, <2>1 DEF OwnWrite
  <2> QED BY <2>2, <2>3
<1>2. ASSUME NEW g \in Goroutines, job'[g] = job[g], job[g] = NoJob \/ job[g].op # o
      PROVE  InFlight(g)'
  <2>1. CASE job[g] = NoJob
    BY <1>2, <2>1 DEF InFlight
  <2>2. CASE job[g] # NoJob
    <3>1. job[g] \in Snapshot /\ job[g].op \in Ops /\ job[g].op # o
      BY <1>2, <2>2 DEF HistoryInv, TypeOK, Snapshot
    <3>2. InFlight(g)
      BY DEF HistoryInv
    <3> DEFINE v == job[g]
    <3>3. Written(v) /\ v.op \in Ops \ {o} /\ job'[g] = v /\ v' = v
      BY <1>2, <2>2, <3>1, <3>2 DEF InFlight
    <3>4. (g \in Ops => v.op = g) /\ (g = "heart" => v.outcome = "running")
          /\ (g = "loop" /\ v.outcome = "final" => v.op \in pending)
      BY <2>2, <3>2 DEF InFlight
    <3> HIDE DEF v
    <3>5. Written(v)'
      BY <3>3 DEF Written
    <3> QED BY <3>3, <3>4, <3>5 DEF InFlight
  <2> QED BY <2>1, <2>2
<1>3. \A g \in Goroutines : InFlight(g)'
  BY <1>2
<1> QED BY <1>1, <1>3 DEF HistoryInv, OpInv
-----------------------------------------------------------------------------
(* What is known of the operations and writes in each state, for the steps below *)
LEMMA Known ==
  ASSUME HistoryInv, NEW o \in Ops
  PROVE  /\ Tracked(o) /\ RowKnown(o) /\ ResultKnown(o) /\ OwnWrite(o)
         /\ op[o].seq \in 0..MaxSeq /\ op[o].owner \in Instances \cup {None}
         /\ op[o].pc \in {"new", "skipped", "starting", "open", "finishing", "over", "dead"}
         /\ row[o] \in Row
         /\ row[o].seq \in 0..MaxSeq /\ row[o].outcome \in Outcomes
         /\ row[o].owner \in Instances \cup {None}
         /\ o \in Goroutines /\ o # "loop" /\ o # "heart"
<1>1. row[o] \in Row
  BY DEF HistoryInv, TypeOK, StoreTypeOK
<1>2. /\ row[o].seq \in 0..MaxSeq /\ row[o].outcome \in Outcomes
      /\ row[o].owner \in Instances \cup {None}
  BY <1>1 DEF Row
<1>3. /\ op[o].seq \in 0..MaxSeq /\ op[o].owner \in Instances \cup {None}
      /\ op[o].pc \in {"new", "skipped", "starting", "open", "finishing", "over", "dead"}
  BY DEF HistoryInv, TypeOK
<1> QED BY <1>1, <1>2, <1>3 DEF HistoryInv, Goroutines

(* What is known of a write in flight: it is of an operation that is recorded, and a
   result is in flight only while the operation finishes or its result is queued. *)
LEMMA KnownWrite ==
  ASSUME HistoryInv, NEW g \in Goroutines, job[g] # NoJob
  PROVE  /\ job[g] \in Snapshot /\ job[g].op \in Ops /\ Written(job[g])
         /\ job[g].seq \in 0..MaxSeq /\ job[g].outcome \in {"running", "final"}
         /\ g \in Ops => job[g].op = g
         /\ g = "heart" => job[g].outcome = "running"
         /\ g = "loop" /\ job[g].outcome = "final" => job[g].op \in pending
         /\ job[g].outcome = "final" => op[job[g].op].pc = "finishing" \/ job[g].op \in pending
<1>1. job[g] \in Snapshot /\ InFlight(g)
  BY DEF HistoryInv, TypeOK
<1>2. /\ job[g].op \in Ops /\ job[g].seq \in 0..MaxSeq
      /\ job[g].outcome \in {"running", "final"}
  BY <1>1 DEF Snapshot
<1>3. /\ Written(job[g])
      /\ g \in Ops => job[g].op = g
      /\ g = "heart" => job[g].outcome = "running"
      /\ g = "loop" /\ job[g].outcome = "final" => job[g].op \in pending
  BY <1>1 DEF InFlight
<1>4. g \in Ops => (job[g].outcome = "final" => op[g].pc = "finishing")
  BY DEF HistoryInv, OwnWrite
<1> QED BY <1>1, <1>2, <1>3, <1>4 DEF Goroutines

(* Begin: the running row of a new operation is about to be written. *)
LEMMA BeginStep ==
  ASSUME HistoryInv, NEW o \in Ops, Begin(o)
  PROVE  HistoryInv'
<1> DEFINE c == [pc |-> "starting", seq |-> 1, owner |-> owner]
           v == [op |-> o, outcome |-> "running", seq |-> 1, owner |-> owner]
<1>1. /\ op[o].pc = "new" /\ op' = [op EXCEPT ![o] = c] /\ active' = active \cup {o}
      /\ job' = [job EXCEPT ![o] = v]
      /\ UNCHANGED <<row, inst, aged, stale, owner, confirmed, pending, phases, restore, lost>>
  BY DEF Begin, storeVars
<1>2. owner \in Instances /\ owner # None
  BY DEF HistoryInv, TypeOK
<1>3. c.pc = "starting" /\ c.seq = 1 /\ c.owner = owner
      /\ v.op = o /\ v.outcome = "running" /\ v.seq = 1 /\ v.owner = owner
  OBVIOUS
<1>4. c \in [pc : {"new", "skipped", "starting", "open", "finishing", "over", "dead"},
             seq : 0..MaxSeq, owner : Instances \cup {None}]
  BY <1>2
<1>5. v \in Snapshot
  BY <1>2 DEF Snapshot
<1> HIDE DEF c, v
<1>6. Tracked(o) /\ RowKnown(o) /\ o \in Goroutines
  BY Known
<1>7. o \notin stale /\ o \notin pending /\ row[o].outcome = "absent"
  BY <1>1, <1>6 DEF Tracked, RowKnown, Finished
<1>8. TypeOK'
  <2>1. StoreTypeOK'
    BY <1>1 DEF HistoryInv, TypeOK, StoreTypeOK
  <2>2. op' \in [Ops -> [pc : {"new", "skipped", "starting", "open", "finishing", "over", "dead"},
                         seq : 0..MaxSeq, owner : Instances \cup {None}]]
    BY <1>1, <1>4 DEF HistoryInv, TypeOK
  <2>3. job' \in [Goroutines -> Snapshot \cup {NoJob}]
    BY Zenon, <1>1, <1>5 DEF HistoryInv, TypeOK
  <2> QED BY <1>1, <1>7, <2>1, <2>2, <2>3 DEF HistoryInv, TypeOK
<1>9. op'[o] = c /\ job'[o] = v
      /\ (\A p \in Ops \ {o} : op'[p] = op[p] /\ job'[p] = job[p])
      /\ (\A g \in Goroutines \ {o} : job'[g] = job[g])
  BY <1>1, <1>6 DEF HistoryInv, TypeOK, Goroutines
<1>10. OpInv(o)'
  <2>1. Tracked(o)'
    BY <1>1, <1>2, <1>3, <1>7, <1>9 DEF Tracked
  <2>2. RowKnown(o)'
    BY <1>1, <1>3, <1>7, <1>9 DEF RowKnown, Stored
  <2>3. ResultKnown(o)'
    BY <1>1, <1>3, <1>7, <1>9 DEF ResultKnown
  <2> QED BY <2>1, <2>2, <2>3 DEF OpInv
<1>11. v # NoJob
  BY <1>5, NoJobIsNoSnapshot
<1>12. OwnWrite(o)'
  BY <1>3, <1>9, <1>11 DEF OwnWrite
<1>13. InFlight(o)'
  <2>1. v' = v
    BY <1>1 DEF v
  <2>2. Written(v)'
    BY <1>1, <1>2, <1>3, <1>7, <1>9, <2>1 DEF Written, Recorded, Finished
  <2> QED BY <1>3, <1>6, <1>9, <2>1, <2>2, Known DEF InFlight
<1>14. ASSUME NEW g \in Goroutines, g # o, job[g] # NoJob
       PROVE  job[g].op # o
  BY <1>1, <1>14, KnownWrite DEF Written, Recorded
<1> QED BY <1>1, <1>8, <1>9, <1>10, <1>12, <1>13, <1>14, OneOperation

(* skipCapture: the operation is not recorded. *)
LEMMA SkipCaptureStep ==
  ASSUME HistoryInv, NEW o \in Ops, SkipCapture(o)
  PROVE  HistoryInv'
<1>1. /\ op[o].pc = "new" /\ op' = [op EXCEPT ![o].pc = "skipped"]
      /\ UNCHANGED <<row, inst, aged, stale, owner, confirmed, active, pending, phases, restore,
                     job, lost>>
  BY DEF SkipCapture, storeVars
<1>2. TypeOK' /\ op'[o].pc = "skipped" /\ op'[o].seq = op[o].seq /\ op'[o].owner = op[o].owner
      /\ (\A p \in Ops \ {o} : op'[p] = op[p])
  BY <1>1 DEF HistoryInv, TypeOK, StoreTypeOK
<1>3. OpInv(o) /\ OwnWrite(o)
  BY Known DEF OpInv
<1>4. OpInv(o)'
  <2>1. Tracked(o)'
    BY <1>1, <1>2, <1>3 DEF OpInv, Tracked, Finished
  <2>2. RowKnown(o)'
    BY <1>1, <1>2, <1>3 DEF OpInv, RowKnown, Stored
  <2>3. ResultKnown(o)'
    BY <1>1, <1>2, <1>3 DEF OpInv, ResultKnown, RowKnown
  <2> QED BY <2>1, <2>2, <2>3 DEF OpInv
<1>5. OwnWrite(o)'
  BY <1>1, <1>2, <1>3 DEF OwnWrite
<1>6. ASSUME NEW g \in Goroutines, job[g] # NoJob
      PROVE  job[g].op # o
  BY <1>1, <1>6, KnownWrite DEF Written, Recorded
<1> QED BY <1>1, <1>2, <1>4, <1>5, <1>6, OneOperation

(* A write in flight stays as it should be while its operation goes on: its result has
   a state number of its own. *)
LEMMA WriteKept ==
  ASSUME HistoryInv, NEW g \in Goroutines, job[g] # NoJob, job'[g] = job[g],
         NEW o, o = job[g].op, stale' = stale,
         op'[o].owner = op[o].owner, op'[o].pc \in Recorded,
         op'[o].seq \in Nat, op'[o].seq >= op[o].seq,
         op'[o].pc \in Finished => op[o].pc \in Finished \/ op'[o].seq > op[o].seq,
         job[g].outcome = "final" => op'[o].seq = op[o].seq,
         g = "loop" /\ job[g].outcome = "final" => o \in pending'
  PROVE  InFlight(g)'
<1> DEFINE v == job[g]
<1>1. /\ v.op = o /\ o \in Ops /\ Written(v) /\ v.seq \in Nat /\ v' = v /\ job'[g] = v
      /\ g \in Ops => v.op = g
      /\ g = "heart" => v.outcome = "running"
      /\ g = "loop" /\ v.outcome = "final" => v.op \in pending'
      /\ v.outcome = "final" => op'[o].seq = op[o].seq
  BY KnownWrite
<1>2. op[o].seq \in Nat
  BY <1>1, Known
<1> HIDE DEF v
<1>3. Written(v)'
  BY <1>1, <1>2 DEF Written
<1> QED BY <1>1, <1>3 DEF InFlight

(* So it does when the step leaves the operation as it is. *)
LEMMA WriteUntouched ==
  ASSUME HistoryInv, NEW g \in Goroutines, job[g] # NoJob, job'[g] = job[g],
         NEW o, o = job[g].op, stale' = stale, op'[o] = op[o],
         g = "loop" /\ job[g].outcome = "final" => o \in pending'
  PROVE  InFlight(g)'
<1>1. o \in Ops /\ op[o].pc \in Recorded
  BY Zenon, KnownWrite DEF Written
<1>2. op[o].seq \in Nat
  BY <1>1, Known
<1>3. op'[o].seq \in Nat /\ op'[o].seq >= op[o].seq
  BY <1>2
<1> QED BY Zenon, <1>1, <1>3, WriteKept

(* SetPhase: the operation reports another state. *)
LEMMA SetPhaseStep ==
  ASSUME HistoryInv, NEW o \in Ops, SetPhase(o)
  PROVE  HistoryInv'
<1>1. /\ op[o].pc = "open" /\ op[o].seq + 1 < MaxSeq
      /\ op' = [op EXCEPT ![o].seq = op[o].seq + 1]
      /\ phases' \in {phases, phases \cup {o}}
      /\ UNCHANGED <<row, inst, aged, stale, owner, confirmed, active, pending, restore, job, lost>>
  BY DEF SetPhase, SchedulePhase, storeVars
<1>2. OpInv(o) /\ OwnWrite(o) /\ op[o].seq \in 0..MaxSeq /\ row[o].seq \in 0..MaxSeq
  BY Known DEF OpInv
<1>3. TypeOK' /\ op'[o].pc = "open" /\ op'[o].seq = op[o].seq + 1 /\ op'[o].owner = op[o].owner
      /\ (\A p \in Ops \ {o} : op'[p] = op[p])
  BY <1>1, <1>2 DEF HistoryInv, TypeOK, StoreTypeOK
<1>4. OpInv(o)'
  <2>1. Tracked(o)'
    BY <1>1, <1>2, <1>3 DEF OpInv, Tracked
  <2>2. RowKnown(o)'
    BY <1>1, <1>2, <1>3 DEF OpInv, RowKnown, Stored, Finished
  <2>3. ResultKnown(o)'
    BY <1>1, <1>2, <1>3 DEF OpInv, ResultKnown
  <2> QED BY <2>1, <2>2, <2>3 DEF OpInv
<1>5. OwnWrite(o)'
  BY <1>1, <1>2, <1>3 DEF OwnWrite
<1>6. ASSUME NEW g \in Goroutines, job[g] # NoJob, job[g].op = o
      PROVE  InFlight(g)'
  <2>1. job[g].outcome # "final"
    BY <1>1, <1>2, <1>6, KnownWrite DEF OpInv, Tracked
  <2> QED BY <1>1, <1>2, <1>3, <1>6, <2>1, WriteKept DEF Recorded, Finished
<1> QED BY <1>1, <1>3, <1>4, <1>5, <1>6, OneOperation

(* Finish: the result has the next state number, and its write is about to start. *)
LEMMA FinishStep ==
  ASSUME HistoryInv, NEW o \in Ops, Finish(o)
  PROVE  HistoryInv'
<1> DEFINE v == [op |-> o, outcome |-> "final", seq |-> op[o].seq + 1, owner |-> op[o].owner]
<1>1. /\ op[o].pc \in {"new", "open"}
      /\ op' = [op EXCEPT ![o].pc = "finishing", ![o].seq = op[o].seq + 1]
      /\ job' = [job EXCEPT ![o] = v]
      /\ UNCHANGED <<row, inst, aged, stale, owner, confirmed, active, pending, phases, restore,
                     lost>>
  BY DEF Finish, storeVars
<1>2. /\ OpInv(o) /\ OwnWrite(o) /\ op[o].seq \in 0..MaxSeq /\ row[o].seq \in 0..MaxSeq
      /\ op[o].owner \in Instances \cup {None} /\ o \in Goroutines /\ o # "loop" /\ o # "heart"
  BY Known DEF OpInv
<1>3. op[o].seq < MaxSeq /\ op[o].seq + 1 \in 0..MaxSeq
  BY <1>1, <1>2 DEF OpInv, Tracked
<1>4. /\ v.op = o /\ v.outcome = "final" /\ v.seq = op[o].seq + 1 /\ v.owner = op[o].owner
      /\ v \in Snapshot
  BY <1>2, <1>3 DEF Snapshot
<1>5. v # NoJob
  BY <1>4, NoJobIsNoSnapshot
<1> HIDE DEF v
<1>6. /\ op'[o].pc = "finishing" /\ op'[o].seq = op[o].seq + 1 /\ op'[o].owner = op[o].owner
      /\ (\A p \in Ops \ {o} : op'[p] = op[p])
      /\ op' \in [Ops -> [pc : {"new", "skipped", "starting", "open", "finishing", "over", "dead"},
                          seq : 0..MaxSeq, owner : Instances \cup {None}]]
  BY <1>1, <1>3 DEF HistoryInv, TypeOK
<1>7. /\ job' \in [Goroutines -> Snapshot \cup {NoJob}] /\ job'[o] = v
      /\ (\A p \in Ops \ {o} : job'[p] = job[p])
      /\ (\A g \in Goroutines \ {o} : job'[g] = job[g])
  BY <1>1, <1>2, <1>4 DEF HistoryInv, TypeOK, Goroutines
<1>8. TypeOK'
  BY <1>1, <1>6, <1>7 DEF HistoryInv, TypeOK, StoreTypeOK
<1>9. OpInv(o)'
  <2>1. Tracked(o)'
    BY <1>1, <1>2, <1>6 DEF OpInv, Tracked, Finished
  <2>2. RowKnown(o)'
    BY <1>1, <1>2, <1>6 DEF OpInv, RowKnown, Stored, Finished, Tracked
  <2>3. ResultKnown(o)'
    BY <1>1, <1>2, <1>6 DEF OpInv, ResultKnown
  <2> QED BY <2>1, <2>2, <2>3 DEF OpInv
<1>10. OwnWrite(o)'
  BY <1>4, <1>5, <1>6, <1>7 DEF OwnWrite
<1>11. InFlight(o)'
  BY <1>2, <1>4, <1>6, <1>7 DEF InFlight, Written, Recorded
<1>12. ASSUME NEW g \in Goroutines, g # o, job[g] # NoJob, job[g].op = o
       PROVE  InFlight(g)'
  <2>1. job[g].outcome # "final"
    BY <1>1, <1>2, <1>12, KnownWrite DEF OpInv, Tracked
  <2> QED BY <1>1, <1>2, <1>6, <1>7, <1>12, <2>1, WriteKept DEF Recorded
<1> QED BY <1>1, <1>6, <1>7, <1>8, <1>9, <1>10, <1>11, <1>12, OneOperation

(* Begun: the answer to the first write arrived. *)
LEMMA BegunStep ==
  ASSUME HistoryInv, NEW o \in Ops, Begun(o)
  PROVE  HistoryInv'
<1>1. PICK seen \in {"ok", "permanent", "transient"} : Upsert(job[o], seen)
  BY DEF Begun
<1>2. /\ op[o].pc = "starting" /\ op' = [op EXCEPT ![o].pc = "open"]
      /\ job' = [job EXCEPT ![o] = NoJob]
      /\ UNCHANGED <<owner, confirmed, active, pending, phases, restore, lost>>
  BY DEF Begun
<1>3. OpInv(o) /\ OwnWrite(o) /\ o \in Goroutines /\ op[o].seq \in 0..MaxSeq
  BY Known DEF OpInv
<1>4. job[o] # NoJob
  BY <1>2, <1>3 DEF OwnWrite
<1>5. /\ job[o] \in Snapshot /\ job[o].op = o /\ Written(job[o])
      /\ job[o].outcome = "running"
      /\ job[o].outcome = "final" => op[job[o].op].pc = "finishing" \/ job[o].op \in pending
  BY <1>2, <1>3, <1>4, KnownWrite DEF OwnWrite
<1>6. /\ StoreTypeOK' /\ inst' = inst /\ stale' = stale
      /\ \A p \in Ops \ {o} : row'[p] = row[p] /\ (p \in aged' <=> p \in aged)
  BY Zenon, <1>1, <1>5, UpsertWrites DEF HistoryInv, TypeOK
<1>7. /\ Stored(o)' => row'[o].owner = op[o].owner
      /\ row'[o].outcome \in {"running", "unknown"} => row'[o].seq <= op[o].seq
      /\ row'[o].outcome # "final"
      /\ row'[o].outcome \in {"absent", "deleted", "unknown"} => row'[o] = row[o]
      /\ Stored(o)' /\ row'[o].owner # None => inst'[row'[o].owner] # "absent"
  <2>1. Upserted(job[o], seen, o)
    BY Zenon, <1>1, <1>5, UpsertedRow
  <2> QED BY Zenon, <1>2, <1>5, <2>1 DEF Upserted
<1>8. /\ TypeOK'
      /\ op'[o].pc = "open" /\ op'[o].seq = op[o].seq /\ op'[o].owner = op[o].owner
      /\ (\A p \in Ops \ {o} : op'[p] = op[p] /\ job'[p] = job[p])
      /\ job'[o] = NoJob /\ (\A g \in Goroutines \ {o} : job'[g] = job[g])
  BY <1>2, <1>3, <1>6 DEF HistoryInv, TypeOK, Goroutines
<1>9. OpInv(o)'
  <2>1. Tracked(o)'
    BY <1>2, <1>3, <1>6, <1>8 DEF OpInv, Tracked, Finished
  <2>2. RowKnown(o)'
    BY <1>2, <1>3, <1>6, <1>7, <1>8 DEF OpInv, RowKnown, Stored, Finished
  <2>3. ResultKnown(o)'
    BY <1>2, <1>3, <1>6, <1>7, <1>8 DEF OpInv, ResultKnown
  <2> QED BY <2>1, <2>2, <2>3 DEF OpInv
<1>10. OwnWrite(o)'
  BY <1>8 DEF OwnWrite
<1>11. InFlight(o)'
  BY <1>8 DEF InFlight
<1>12. ASSUME NEW g \in Goroutines, g # o, job[g] # NoJob, job[g].op = o
       PROVE  InFlight(g)'
  <2>1. job[g].outcome # "final"
    BY <1>2, <1>3, <1>12, KnownWrite DEF OpInv, Tracked
  <2> QED BY <1>3, <1>6, <1>8, <1>12, <2>1, WriteKept DEF Recorded, Finished
<1> QED BY <1>2, <1>6, <1>8, <1>9, <1>10, <1>11, <1>12, OneOperation

(* What Finish does with the answer to the final write: the result waits or is counted
   as lost unless it was stored. *)
LEMMA Concluded ==
  ASSUME NEW o \in Ops, NEW seen, Conclude(o, seen)
  PROVE  /\ \/ pending' = pending /\ lost' = lost
            \/ pending' = pending \cup {o} /\ lost' = lost
            \/ lost' = lost \cup {o} /\ pending' = pending
         /\ seen # "ok" => o \in pending' \cup lost'
<1>1. \/ seen = "ok" /\ pending' = pending /\ lost' = lost
      \/ pending' = pending \cup {o} /\ lost' = lost
      \/ lost' = lost \cup {o} /\ pending' = pending
  BY Zenon DEF Conclude, Enqueue
<1> QED BY <1>1

(* FinishWritten: the answer to the final write arrived. *)
LEMMA FinishWrittenStep ==
  ASSUME HistoryInv, NEW o \in Ops, FinishWritten(o)
  PROVE  HistoryInv'
<1>1. PICK seen \in {"ok", "permanent", "transient"} : Upsert(job[o], seen) /\ Conclude(o, seen)
  BY DEF FinishWritten
<1>2. /\ op[o].pc = "finishing" /\ op' = [op EXCEPT ![o].pc = "over"]
      /\ job' = [job EXCEPT ![o] = NoJob] /\ active' = active \ {o}
      /\ UNCHANGED <<owner, confirmed, phases, restore>>
  BY DEF FinishWritten, Untracked
<1>3. OpInv(o) /\ OwnWrite(o) /\ o \in Goroutines /\ op[o].seq \in 0..MaxSeq
  BY Known DEF OpInv
<1>4. job[o] # NoJob
  BY <1>2, <1>3 DEF OwnWrite
<1>5. /\ job[o] \in Snapshot /\ job[o].op = o /\ Written(job[o])
      /\ job[o].outcome = "final"
      /\ job[o].outcome = "final" => op[job[o].op].pc = "finishing" \/ job[o].op \in pending
  BY <1>2, <1>3, <1>4, KnownWrite DEF OwnWrite
<1>6. /\ StoreTypeOK' /\ inst' = inst /\ stale' = stale
      /\ \A p \in Ops \ {o} : row'[p] = row[p] /\ (p \in aged' <=> p \in aged)
  BY <1>1, <1>5, UpsertWrites DEF HistoryInv, TypeOK
<1>7. /\ Stored(o)' => row'[o].owner = op[o].owner
      /\ row'[o].outcome \in {"running", "unknown"} =>
           /\ row'[o].seq <= op[o].seq
           /\ op[o].pc \in Finished => row'[o].seq < op[o].seq
      /\ row'[o].outcome \in {"absent", "deleted", "unknown"} => row'[o] = row[o]
      /\ Stored(o)' /\ row'[o].owner # None => inst'[row'[o].owner] # "absent"
      /\ o \in aged' /\ row'[o].outcome = "final" => o \in stale
      /\ seen = "ok" => row'[o].outcome = "final" \/ o \in stale
  <2>1. Upserted(job[o], seen, o)
    BY Zenon, <1>1, <1>5, UpsertedRow
  <2> QED BY Zenon, <1>2, <1>5, <2>1 DEF Upserted
<1>8. /\ \/ pending' = pending /\ lost' = lost
         \/ pending' = pending \cup {o} /\ lost' = lost
         \/ lost' = lost \cup {o} /\ pending' = pending
      /\ seen # "ok" => o \in pending' \cup lost'
  BY <1>1, Concluded
<1>9. /\ op'[o].pc = "over" /\ op'[o].seq = op[o].seq /\ op'[o].owner = op[o].owner
      /\ (\A p \in Ops \ {o} : op'[p] = op[p] /\ job'[p] = job[p])
      /\ job'[o] = NoJob /\ (\A g \in Goroutines \ {o} : job'[g] = job[g])
  BY <1>2, <1>3 DEF HistoryInv, TypeOK, Goroutines
<1>10. TypeOK'
  <2>1. /\ op' \in [Ops -> [pc : {"new", "skipped", "starting", "open", "finishing", "over", "dead"},
                            seq : 0..MaxSeq, owner : Instances \cup {None}]]
        /\ job' \in [Goroutines -> Snapshot \cup {NoJob}]
    BY Zenon, <1>2 DEF HistoryInv, TypeOK
  <2>2. /\ active' \subseteq Ops /\ pending' \subseteq Ops /\ lost' \subseteq Ops
        /\ active' \cap pending' = {}
    BY <1>2, <1>8 DEF HistoryInv, TypeOK
  <2> QED BY <1>2, <1>6, <2>1, <2>2 DEF HistoryInv, TypeOK
<1>11. OpInv(o)'
  <2>1. Tracked(o)'
    BY <1>2, <1>3, <1>6, <1>9 DEF OpInv, Tracked, Finished
  <2>2. RowKnown(o)'
    BY <1>2, <1>3, <1>6, <1>7, <1>9 DEF OpInv, RowKnown, Stored, Finished
  <2>3. ResultKnown(o)'
    BY <1>2, <1>3, <1>6, <1>7, <1>8, <1>9 DEF OpInv, ResultKnown
  <2> QED BY <2>1, <2>2, <2>3 DEF OpInv
<1>12. OwnWrite(o)'
  BY <1>9 DEF OwnWrite
<1>13. InFlight(o)'
  BY <1>9 DEF InFlight
<1>14. ASSUME NEW g \in Goroutines, g # o, job[g] # NoJob, job[g].op = o
       PROVE  InFlight(g)'
  <2>1. g = "loop" /\ job[g].outcome = "final" => o \in pending'
    BY <1>8, <1>14, KnownWrite
  <2> QED BY <1>2, <1>3, <1>6, <1>9, <1>14, <2>1, WriteKept DEF Recorded, Finished
<1> QED BY <1>2, <1>6, <1>8, <1>9, <1>10, <1>11, <1>12, <1>13, <1>14, OneOperation
-----------------------------------------------------------------------------
(* persistPhase and retryPending: the retry loop takes up a write. *)
LEMMA TakeUpStep ==
  ASSUME HistoryInv, TypeOK', NEW o \in Ops, NEW g \in {"loop", "heart"}, NEW v \in Snapshot,
         job'[g] = v, \A h \in Goroutines \ {g} : job'[h] = job[h],
         v.op = o, v.owner = op[o].owner, v.seq = op'[o].seq,
         \/ v.outcome = "running" /\ o \in active /\ op[o].pc \notin Finished
         \/ v.outcome = "final" /\ g = "loop" /\ o \in pending /\ op'[o] = op[o],
         op'[o].pc = op[o].pc, op'[o].owner = op[o].owner, op'[o].seq >= op[o].seq,
         op[o].pc \in {"starting", "open"} => op'[o].seq < MaxSeq,
         \A p \in Ops \ {o} : op'[p] = op[p],
         row' = row, inst' = inst, aged' = aged, stale' = stale,
         active' = active, pending' = pending, lost' = lost
  PROVE  HistoryInv'
<1>1. OpInv(o) /\ OwnWrite(o) /\ op[o].seq \in 0..MaxSeq /\ row[o].seq \in 0..MaxSeq
  BY Known DEF OpInv
<1>2. g \in Goroutines /\ g \notin Ops
  BY DEF Goroutines
<1>3. \A p \in Ops : job'[p] = job[p]
  BY <1>2 DEF Goroutines
<1>4. op'[o].seq \in Nat
  BY DEF TypeOK
<1>5. /\ v.outcome = "running" =>
           op[o].pc \in {"starting", "open"} /\ o \notin stale /\ op[o].owner # None
      /\ v.outcome = "final" => op[o].pc = "over"
  BY <1>1 DEF OpInv, Tracked, Finished
<1>6. op[o].pc \in Finished => op'[o] = op[o]
  BY <1>5 DEF Finished
<1>7. OpInv(o)'
  <2>1. Tracked(o)'
    BY <1>1, <1>5 DEF OpInv, Tracked
  <2>2. RowKnown(o)'
    BY <1>1, <1>4, <1>5, <1>6 DEF OpInv, RowKnown, Stored
  <2>3. ResultKnown(o)'
    BY Zenon, <1>1 DEF OpInv, ResultKnown
  <2> QED BY <2>1, <2>2, <2>3 DEF OpInv
<1>8. OwnWrite(o)'
  BY Zenon, <1>1, <1>3 DEF OwnWrite
<1>9. InFlight(g)'
  <2>1. /\ v.owner = op'[o].owner /\ op'[o].pc \in Recorded /\ v.seq \in Nat
        /\ v.outcome = "running" =>
             /\ v.owner # None /\ o \notin stale'
             /\ v.seq <= op'[o].seq /\ (op'[o].pc \in Finished => v.seq < op'[o].seq)
        /\ v.outcome = "final" => v.seq = op'[o].seq /\ g = "loop" /\ o \in pending'
    BY <1>4, <1>5 DEF Recorded, Finished
  <2>2. v.outcome \in {"running", "final"} /\ v.op = o
    BY DEF Snapshot
  <2> QED BY <1>2, <1>3, <2>1, <2>2 DEF InFlight, Written
<1>10. ASSUME NEW h \in Goroutines, h # g, job[h] # NoJob, job[h].op = o
       PROVE  InFlight(h)'
  <2>1. /\ op[o].pc \in Recorded
        /\ job[h].outcome = "final" => op[o].pc = "finishing" \/ o \in pending
        /\ h = "loop" /\ job[h].outcome = "final" => o \in pending
    BY <1>10, KnownWrite DEF Written
  <2>2. job[h].outcome = "final" => op'[o].seq = op[o].seq
    BY <1>1, <1>6, <2>1 DEF OpInv, Tracked, Finished
  <2>3. /\ op'[o].pc \in Recorded /\ job'[h] = job[h]
        /\ h = "loop" /\ job[h].outcome = "final" => o \in pending'
    BY Zenon, <1>10, <2>1
  <2> QED BY Zenon, <1>4, <1>10, <2>2, <2>3, WriteKept
<1> QED BY <1>3, <1>7, <1>8, <1>9, <1>10, OneOperation

(* A step that changes no operation, row or write keeps the invariant, when it brings
   back no owner that is gone and removes none that a row refers to. *)
LEMMA OwnersStep ==
  ASSUME HistoryInv, TypeOK', UNCHANGED <<row, aged, stale, op, active, pending, job, lost>>,
         \A o \in Ops : op[o].owner # None /\ inst[op[o].owner] \in Gone
                          => inst'[op[o].owner] \in Gone,
         \A o \in Ops : Stored(o) /\ row[o].owner # None /\ inst[row[o].owner] # "absent"
                          => inst'[row[o].owner] # "absent"
  PROVE  HistoryInv'
<1>1. ASSUME NEW o \in Ops
      PROVE  (Tracked(o) /\ RowKnown(o) /\ ResultKnown(o) /\ OwnWrite(o))'
  <2>1. Tracked(o) /\ RowKnown(o) /\ ResultKnown(o) /\ OwnWrite(o)
    BY DEF HistoryInv
  <2>2. Tracked(o)' /\ OwnWrite(o)'
    BY <2>1 DEF Tracked, OwnWrite
  <2>3. RowKnown(o)'
    BY <2>1 DEF RowKnown, Stored
  <2>4. ResultKnown(o)'
    BY Zenon, <2>1 DEF ResultKnown
  <2> QED BY Zenon, <2>2, <2>3, <2>4
<1>2. ASSUME NEW g \in Goroutines
      PROVE  InFlight(g)'
  BY Zenon DEF HistoryInv, InFlight, Written
<1> QED BY Zenon, <1>1, <1>2 DEF HistoryInv

(* PersistPhase: the queue hands out one phase change. *)
LEMMA PersistPhaseStep ==
  ASSUME HistoryInv, NEW o \in Ops, PersistPhase(o)
  PROVE  HistoryInv'
<1>1. /\ UNCHANGED <<row, inst, aged, stale, op, owner, confirmed, active, pending, restore, lost>>
      /\ phases' = phases \ {o}
  BY DEF PersistPhase, storeVars
<1>2. CASE o \in active /\ op[o].pc \notin Finished
  <2> DEFINE v == SnapshotOf(o, "running")
  <2>1. /\ Tracked(o) /\ op[o].seq \in 0..MaxSeq /\ op[o].owner \in Instances \cup {None}
        /\ op[o].pc \in {"new", "skipped", "starting", "open", "finishing", "over", "dead"}
    BY Known
  <2>2. /\ v \in Snapshot /\ v.op = o /\ v.outcome = "running" /\ v.seq = op[o].seq
        /\ v.owner = op[o].owner
    BY <2>1 DEF SnapshotOf, Snapshot
  <2>3. job' = [job EXCEPT !["loop"] = v]
    BY <1>2 DEF PersistPhase
  <2>4. op[o].pc \in {"starting", "open"} => op[o].seq < MaxSeq
    BY <2>1 DEF Tracked
  <2> HIDE DEF v
  <2>5. TypeOK' /\ job'["loop"] = v /\ \A h \in Goroutines \ {"loop"} : job'[h] = job[h]
    BY Zenon, <1>1, <2>2, <2>3 DEF HistoryInv, TypeOK, StoreTypeOK, Goroutines
  <2> QED BY <1>1, <1>2, <2>1, <2>2, <2>4, <2>5, TakeUpStep
<1>3. CASE ~(o \in active /\ op[o].pc \notin Finished)
  <2>1. job' = job
    BY <1>3 DEF PersistPhase
  <2>2. TypeOK'
    BY <1>1, <2>1 DEF HistoryInv, TypeOK, StoreTypeOK
  <2> QED BY <1>1, <2>1, <2>2, OwnersStep
<1> QED BY <1>2, <1>3

(* RetryPending: a queued result is written once more. *)
LEMMA RetryPendingStep ==
  ASSUME HistoryInv, NEW o \in Ops, RetryPending(o)
  PROVE  HistoryInv'
<1> DEFINE v == SnapshotOf(o, "final")
<1>1. /\ o \in pending /\ job' = [job EXCEPT !["loop"] = v]
      /\ UNCHANGED <<row, inst, aged, stale, op, owner, confirmed, active, pending, phases, restore,
                     lost>>
  BY DEF RetryPending, storeVars
<1>2. /\ Tracked(o) /\ op[o].seq \in 0..MaxSeq /\ op[o].owner \in Instances \cup {None}
  BY Known
<1>3. /\ v \in Snapshot /\ v.op = o /\ v.outcome = "final" /\ v.seq = op[o].seq
      /\ v.owner = op[o].owner
  BY <1>2 DEF SnapshotOf, Snapshot
<1>4. op[o].pc \in {"starting", "open"} => op[o].seq < MaxSeq
  BY <1>2 DEF Tracked
<1> HIDE DEF v
<1>5. TypeOK' /\ job'["loop"] = v /\ \A h \in Goroutines \ {"loop"} : job'[h] = job[h]
  BY Zenon, <1>1, <1>3 DEF HistoryInv, TypeOK, StoreTypeOK, Goroutines
<1> QED BY <1>1, <1>2, <1>3, <1>4, <1>5, TakeUpStep DEF Tracked

(* RestoreUnknown: a row that lost its lease is about to be written as running again,
   with a new state number. *)
LEMMA RestoreUnknownStep ==
  ASSUME HistoryInv, NEW o \in Ops, RestoreUnknown(o)
  PROVE  HistoryInv'
<1>1. /\ UNCHANGED <<row, inst, aged, stale, owner, confirmed, active, pending, phases, lost>>
      /\ restore' = restore \ {o}
  BY DEF RestoreUnknown, storeVars
<1>2. CASE o \in active /\ op[o].pc \notin Finished /\ op[o].seq + 1 < MaxSeq
  <2> DEFINE v == [op |-> o, outcome |-> "running", seq |-> op[o].seq + 1, owner |-> op[o].owner]
  <2>1. op[o].seq \in 0..MaxSeq /\ op[o].owner \in Instances \cup {None}
    BY Known
  <2>2. op' = [op EXCEPT ![o].seq = op[o].seq + 1] /\ job' = [job EXCEPT !["heart"] = v]
    BY <1>2 DEF RestoreUnknown
  <2>3. /\ v \in Snapshot /\ v.op = o /\ v.outcome = "running" /\ v.seq = op[o].seq + 1
        /\ v.owner = op[o].owner
    BY <1>2, <2>1 DEF Snapshot
  <2> HIDE DEF v
  <2>4. /\ op' \in [Ops -> [pc : {"new", "skipped", "starting", "open", "finishing", "over", "dead"},
                            seq : 0..MaxSeq, owner : Instances \cup {None}]]
        /\ op'[o].pc = op[o].pc /\ op'[o].seq = op[o].seq + 1 /\ op'[o].owner = op[o].owner
        /\ \A p \in Ops \ {o} : op'[p] = op[p]
    <3>1. op[o].seq + 1 \in 0..MaxSeq
      BY <1>2, <2>1
    <3> QED BY <2>2, <3>1 DEF HistoryInv, TypeOK
  <2>5. job'["heart"] = v /\ \A h \in Goroutines \ {"heart"} : job'[h] = job[h]
    BY <2>2 DEF HistoryInv, TypeOK, Goroutines
  <2>6. TypeOK'
    BY Zenon, <1>1, <2>2, <2>3, <2>4 DEF HistoryInv, TypeOK, StoreTypeOK
  <2> QED BY <1>1, <1>2, <2>1, <2>3, <2>4, <2>5, <2>6, TakeUpStep
<1>3. CASE ~(o \in active /\ op[o].pc \notin Finished /\ op[o].seq + 1 < MaxSeq)
  <2>1. job' = job /\ op' = op
    BY <1>3 DEF RestoreUnknown
  <2>2. TypeOK'
    BY <1>1, <2>1 DEF HistoryInv, TypeOK, StoreTypeOK
  <2> QED BY <1>1, <2>1, <2>2, OwnersStep
<1> QED BY <1>2, <1>3

(* GiveUpPending: a queued result is counted as lost. *)
LEMMA GiveUpPendingStep ==
  ASSUME HistoryInv, NEW o \in Ops, GiveUpPending(o)
  PROVE  HistoryInv'
<1>1. /\ job["loop"] = NoJob /\ o \in pending /\ pending' = pending \ {o} /\ lost' = lost \cup {o}
      /\ UNCHANGED <<row, inst, aged, stale, op, owner, confirmed, active, phases, restore, job>>
  BY DEF GiveUpPending, Idle, storeVars
<1>2. OpInv(o) /\ OwnWrite(o) /\ op[o].seq \in 0..MaxSeq
  BY Known DEF OpInv
<1>3. TypeOK'
  BY Zenon, <1>1 DEF HistoryInv, TypeOK, StoreTypeOK
<1>4. OpInv(o)'
  <2>1. Tracked(o)'
    BY Zenon, <1>1, <1>2 DEF OpInv, Tracked
  <2>2. RowKnown(o)'
    BY Zenon, <1>1, <1>2 DEF OpInv, RowKnown, Stored
  <2>3. ResultKnown(o)'
    BY Zenon, <1>1, <1>2 DEF OpInv, ResultKnown
  <2> QED BY <2>1, <2>2, <2>3 DEF OpInv
<1>5. OwnWrite(o)'
  BY Zenon, <1>1, <1>2 DEF OwnWrite
<1>6. ASSUME NEW g \in Goroutines, job[g] # NoJob, job[g].op = o
      PROVE  InFlight(g)'
  <2>1. g # "loop"
    BY Zenon, <1>1, <1>6
  <2>2. job'[g] = job[g] /\ stale' = stale /\ op'[o] = op[o]
    BY Zenon, <1>1
  <2> QED BY Zenon, <1>6, <2>1, <2>2, WriteUntouched
<1> QED BY <1>1, <1>3, <1>4, <1>5, <1>6, OneOperation

(* LoopWritten and HeartWritten: the answer to a write of a loop arrived.  Only a queued
   result has anything to apply. *)
LEMMA LoopAnswered ==
  ASSUME HistoryInv, NEW g \in {"loop", "heart"}, job[g] # NoJob, NEW seen, Upsert(job[g], seen),
         NEW o, o = job[g].op, job' = [job EXCEPT ![g] = NoJob],
         \/ pending' = pending /\ lost' = lost
         \/ /\ g = "loop" /\ job[g].outcome = "final"
            /\ \/ seen = "ok" /\ pending' = pending \ {o} /\ lost' = lost
               \/ pending' = pending \ {o} /\ lost' = lost \cup {o},
         op' = op, owner' = owner, confirmed' = confirmed, active' = active,
         phases' = phases, restore' = restore
  PROVE  HistoryInv'
<1>1. /\ g \in Goroutines /\ g \notin Ops
      /\ (\A p \in Ops : p \in Goroutines /\ p # g)
  BY Zenon DEF Goroutines
<1>2. /\ job[g] \in Snapshot /\ o \in Ops /\ Written(job[g])
      /\ job[g].outcome \in {"running", "final"}
      /\ g = "loop" /\ job[g].outcome = "final" => o \in pending
      /\ job[g].outcome = "final" => g = "loop" /\ o \in pending
      /\ job[g].outcome = "final" => op[job[g].op].pc = "finishing" \/ job[g].op \in pending
  BY <1>1, KnownWrite
<1>3. /\ OpInv(o) /\ OwnWrite(o) /\ op[o].seq \in 0..MaxSeq
      /\ op[o].pc \in {"new", "skipped", "starting", "open", "finishing", "over", "dead"}
  BY Zenon, <1>2, Known DEF OpInv
<1>4. /\ StoreTypeOK' /\ inst' = inst /\ stale' = stale
      /\ \A p \in Ops \ {o} : row'[p] = row[p] /\ (p \in aged' <=> p \in aged)
  BY Zenon, <1>2, UpsertWrites DEF HistoryInv, TypeOK
<1>5. /\ Stored(o)' => row'[o].owner = op[o].owner
      /\ row'[o].outcome \in {"running", "unknown"} =>
           /\ row'[o].seq <= op[o].seq
           /\ op[o].pc \in Finished => row'[o].seq < op[o].seq
      /\ row'[o].outcome = "final" => op[o].pc = "over" \/ job[g].outcome = "final"
      /\ row'[o].outcome \in {"absent", "deleted", "unknown"} => row'[o] = row[o]
      /\ Stored(o)' /\ row'[o].owner # None => inst'[row'[o].owner] # "absent"
      /\ o \in aged' /\ row'[o].outcome = "final" => o \in stale
      /\ row[o].outcome = "final" => row'[o] = row[o]
      /\ seen = "ok" /\ job[g].outcome = "final" => row'[o].outcome = "final" \/ o \in stale
  <2>1. Upserted(job[g], seen, o)
    BY Zenon, <1>2, UpsertedRow
  <2> QED BY Zenon, <2>1 DEF Upserted
<1>6. /\ job' \in [Goroutines -> Snapshot \cup {NoJob}] /\ job'[g] = NoJob
      /\ \A h \in Goroutines \ {g} : job'[h] = job[h]
  BY Zenon, <1>1 DEF HistoryInv, TypeOK
<1>7. /\ TypeOK'
      /\ \A p \in Ops \ {o} : (p \in pending' <=> p \in pending) /\ (p \in lost => p \in lost')
  BY Zenon, <1>2, <1>4, <1>6 DEF HistoryInv, TypeOK
<1>8. OpInv(o)'
  <2>1. Tracked(o)'
    BY Zenon, <1>3, <1>4 DEF OpInv, Tracked
  <2>2. RowKnown(o)'
    <3>1. op[o].pc \in {"new", "skipped"} \/ (op[o].pc = "finishing" /\ o \notin active)
            => row'[o].outcome = "absent"
      BY Zenon, <1>2, <1>3, <1>5 DEF OpInv, Tracked, RowKnown, Written, Recorded
    <3>2. row'[o].outcome = "final" => op[o].pc \in {"over", "dead"}
      BY Zenon, <1>2, <1>3, <1>5 DEF OpInv, Tracked
    <3> QED BY Zenon, <1>3, <1>4, <1>5, <3>1, <3>2 DEF OpInv, RowKnown, Stored
  <2>3. ResultKnown(o)'
    <3>1. op[o].pc = "over" => o \in pending' \cup lost' \cup stale \/ row'[o].outcome = "final"
      BY Zenon, <1>3, <1>5 DEF OpInv, ResultKnown
    <3>2. o \in pending' => o \in pending
      OBVIOUS
    <3>3. o \in lost => o \in lost'
      OBVIOUS
    <3> QED BY Zenon, <1>3, <1>4, <1>5, <3>1, <3>2, <3>3 DEF OpInv, ResultKnown
  <2> QED BY Zenon, <2>1, <2>2, <2>3 DEF OpInv
<1>9. OwnWrite(o)'
  BY Zenon, <1>1, <1>2, <1>3, <1>6 DEF OwnWrite
<1>10. InFlight(g)'
  BY <1>6 DEF InFlight
<1>11. ASSUME NEW h \in Goroutines, h # g, job[h] # NoJob, job[h].op = o
       PROVE  InFlight(h)'
  <2>1. h = "loop" /\ job[h].outcome = "final" => o \in pending'
    BY Zenon, <1>11, KnownWrite
  <2>2. job'[h] = job[h] /\ stale' = stale /\ op'[o] = op[o]
    BY Zenon, <1>4, <1>6, <1>11
  <2> QED BY Zenon, <1>11, <2>1, <2>2, WriteUntouched
<1>12. \A p \in Ops \ {o} :
         /\ op'[p] = op[p] /\ row'[p] = row[p] /\ job'[p] = job[p]
         /\ (p \in active' <=> p \in active) /\ (p \in pending' <=> p \in pending)
         /\ (p \in lost => p \in lost')
         /\ (p \in stale' <=> p \in stale) /\ (p \in aged' <=> p \in aged)
  BY Zenon, <1>1, <1>4, <1>6, <1>7
<1>13. \A h \in Goroutines :
         job'[h] # job[h] \/ (job[h] # NoJob /\ job[h].op = o) => InFlight(h)'
  BY Zenon, <1>6, <1>10, <1>11
<1> QED BY Zenon, <1>2, <1>4, <1>7, <1>8, <1>9, <1>12, <1>13, OneOperation

(* LoopWritten: the answer to a phase change or to a queued result arrived. *)
LEMMA LoopWrittenStep ==
  ASSUME HistoryInv, LoopWritten
  PROVE  HistoryInv'
<1> DEFINE o == job["loop"].op
           final == job["loop"].outcome = "final"
<1>1. PICK seen \in {"ok", "permanent", "transient"} :
        /\ Upsert(job["loop"], seen)
        /\ pending' = IF final /\ seen # "transient" THEN pending \ {o} ELSE pending
        /\ lost' = IF final /\ seen = "permanent" THEN lost \cup {o} ELSE lost
  BY DEF LoopWritten
<1>2. /\ job["loop"] # NoJob /\ job' = [job EXCEPT !["loop"] = NoJob]
      /\ op' = op /\ owner' = owner /\ confirmed' = confirmed /\ active' = active
      /\ phases' = phases /\ restore' = restore
  BY DEF LoopWritten, Idle
<1>3. \/ pending' = pending /\ lost' = lost
      \/ /\ job["loop"].outcome = "final"
         /\ \/ seen = "ok" /\ pending' = pending \ {o} /\ lost' = lost
            \/ pending' = pending \ {o} /\ lost' = lost \cup {o}
  BY <1>1
<1> QED BY <1>1, <1>2, <1>3, LoopAnswered

(* HeartWritten: the answer to a restored row arrived. *)
LEMMA HeartWrittenStep ==
  ASSUME HistoryInv, HeartWritten
  PROVE  HistoryInv'
<1>1. PICK seen \in {"ok", "permanent", "transient"} : Upsert(job["heart"], seen)
  BY DEF HeartWritten
<1>2. /\ job["heart"] # NoJob /\ job' = [job EXCEPT !["heart"] = NoJob]
      /\ op' = op /\ owner' = owner /\ confirmed' = confirmed /\ active' = active
      /\ phases' = phases /\ restore' = restore /\ pending' = pending /\ lost' = lost
  BY DEF HeartWritten, Idle
<1> QED BY <1>1, <1>2, LoopAnswered
-----------------------------------------------------------------------------
(* Heartbeat: it renews the lease of an owner that is registered, and brings back none
   that is gone. *)
LEMMA HeartbeatStep ==
  ASSUME HistoryInv, Heartbeat
  PROVE  HistoryInv'
<1>1. /\ inst[owner] \in {"valid", "expired"} /\ inst' = [inst EXCEPT ![owner] = "valid"]
      /\ UNCHANGED <<row, aged, stale, op, owner, active, pending, phases, job, lost>>
      /\ confirmed' \in {confirmed, TRUE} /\ restore' \in {OwnerUnknown, {}, restore}
  BY Zenon DEF Heartbeat, Renew
<1>2. TypeOK'
  BY Zenon, <1>1 DEF HistoryInv, TypeOK, StoreTypeOK, OwnerUnknown
<1>3. \A i \in Instances : inst'[i] = IF i = owner THEN "valid" ELSE inst[i]
  BY <1>1 DEF HistoryInv, TypeOK, StoreTypeOK
<1>4. ASSUME NEW o \in Ops
      PROVE  op[o].owner \in Instances \cup {None} /\ row[o].owner \in Instances \cup {None}
  BY Known
<1> QED BY <1>1, <1>2, <1>3, <1>4, OwnersStep DEF Gone

(* ReplaceOwner: the new identity is one that no operation has had. *)
LEMMA ReplaceOwnerStep ==
  ASSUME HistoryInv, NEW i \in Instances, ReplaceOwner(i)
  PROVE  HistoryInv'
<1>1. /\ owner' = i /\ confirmed' \in BOOLEAN
      /\ inst' = inst \/ inst' = [inst EXCEPT ![i] = "valid"]
      /\ UNCHANGED <<row, aged, stale, op, active, pending, phases, restore, job, lost>>
      /\ \A o \in Ops : op[o].owner # i /\ row[o].owner # i
  BY Zenon DEF ReplaceOwner, RegisterOwner, Register, Fresh, storeVars
<1>2. TypeOK'
  BY Zenon, <1>1 DEF HistoryInv, TypeOK, StoreTypeOK
<1>3. \A j \in Instances : j # i => inst'[j] = inst[j]
  BY Zenon, <1>1 DEF HistoryInv, TypeOK, StoreTypeOK
<1>4. ASSUME NEW o \in Ops
      PROVE  op[o].owner \in Instances \cup {None} /\ row[o].owner \in Instances \cup {None}
  BY Known
<1> QED BY Zenon, <1>1, <1>2, <1>3, <1>4, OwnersStep

(* CleanupInstances: no row refers to an instance that is removed. *)
LEMMA CleanupInstancesStep ==
  ASSUME HistoryInv, NEW i \in Instances, CleanupInstances(i)
  PROVE  HistoryInv'
<1>1. /\ inst' = [inst EXCEPT ![i] = "absent"] /\ UNCHANGED <<row, aged, stale, recVars>>
      /\ \A o \in Ops : Stored(o) => row[o].owner # i
  BY DEF CleanupInstances, CleanupInstance
<1>2. UNCHANGED <<op, owner, confirmed, active, pending, phases, restore, job, lost>>
  BY <1>1 DEF recVars
<1>3. TypeOK'
  BY Zenon, <1>1, <1>2 DEF HistoryInv, TypeOK, StoreTypeOK
<1>4. \A j \in Instances : inst'[j] = IF j = i THEN "absent" ELSE inst[j]
  BY Zenon, <1>1 DEF HistoryInv, TypeOK, StoreTypeOK
<1>5. ASSUME NEW o \in Ops
      PROVE  op[o].owner \in Instances \cup {None} /\ row[o].owner \in Instances \cup {None}
  BY Known
<1> QED BY Zenon, <1>1, <1>2, <1>3, <1>4, <1>5, OwnersStep DEF Gone

(* A lease ends: the owner is still registered. *)
LEMMA LeaseExpiresStep ==
  ASSUME HistoryInv, NEW i \in Instances, LeaseExpires(i)
  PROVE  HistoryInv'
<1>1. /\ inst[i] = "valid" /\ inst' = [inst EXCEPT ![i] = "expired"]
      /\ UNCHANGED <<row, aged, stale, recVars>>
  BY DEF LeaseExpires, Expire
<1>2. UNCHANGED <<op, owner, confirmed, active, pending, phases, restore, job, lost>>
  BY <1>1 DEF recVars
<1>3. TypeOK'
  BY Zenon, <1>1, <1>2 DEF HistoryInv, TypeOK, StoreTypeOK
<1>4. \A j \in Instances : inst'[j] = IF j = i THEN "expired" ELSE inst[j]
  BY Zenon, <1>1 DEF HistoryInv, TypeOK, StoreTypeOK
<1>5. ASSUME NEW o \in Ops
      PROVE  op[o].owner \in Instances \cup {None} /\ row[o].owner \in Instances \cup {None}
  BY Known
<1> QED BY <1>1, <1>2, <1>3, <1>4, <1>5, OwnersStep DEF Gone

(* What reconciliation makes of a row: it is unknown, because its owner lost the lease,
   or because the process that owns it does not track the operation any more. *)
LEMMA Reconciled ==
  ASSUME StoreTypeOK, NEW o \in Ops, NEW self, NEW tracked, ReconcileRow(o, self, tracked),
         inst[row[o].owner] # "absent"
  PROVE  /\ row[o].owner # None /\ row[o].outcome \in {"running", "unknown"}
         /\ row' \in [Ops -> Row] /\ \A p \in Ops \ {o} : row'[p] = row[p]
         /\ row'[o].outcome = "unknown" /\ row'[o].seq = row[o].seq /\ row'[o].owner = row[o].owner
         /\ \/ row'[o].reason = "owner_lease_expired" /\ row[o].outcome = "running"
            \/ row'[o].reason = "finalization_unavailable" /\ o \notin tracked
         /\ inst' = inst /\ aged' = aged /\ stale' = stale
<1> DEFINE i == row[o].owner
           gone == inst[i] # "valid"
           why == CASE inst[i] = "absent" -> "owner_missing"
                    [] gone               -> "owner_lease_expired"
                    [] OTHER              -> "finalization_unavailable"
<1>1. /\ i # None
      /\ \/ gone /\ row[o].outcome = "running"
         \/ /\ i = self /\ ~gone /\ o \notin tracked
            /\ row[o].outcome = "running" \/ LeaseUnknown(row[o])
      /\ row' = [row EXCEPT ![o].outcome = "unknown", ![o].reason = why]
      /\ inst' = inst /\ aged' = aged /\ stale' = stale
  BY Zenon DEF ReconcileRow
<1>2. (gone => why = "owner_lease_expired") /\ (~gone => why = "finalization_unavailable")
  BY Zenon
<1> HIDE DEF why
<1>3. why \in Reasons
  BY Zenon, <1>2 DEF Reasons
<1>4. /\ row' \in [Ops -> Row] /\ \A p \in Ops \ {o} : row'[p] = row[p]
      /\ row'[o].outcome = "unknown" /\ row'[o].seq = row[o].seq /\ row'[o].owner = row[o].owner
      /\ row'[o].reason = why
  <2>1. row \in [Ops -> Row] /\ row[o] \in Row
    BY DEF StoreTypeOK
  <2>2. [row[o] EXCEPT !.outcome = "unknown", !.reason = why] \in Row
    BY Zenon, <1>3, <2>1 DEF Row, Outcomes
  <2>3. row' = [row EXCEPT ![o] = [row[o] EXCEPT !.outcome = "unknown", !.reason = why]]
    BY Zenon, <1>1
  <2> QED BY <2>1, <2>2, <2>3 DEF Row
<1>5. row[o].outcome \in {"running", "unknown"}
  BY <1>1 DEF LeaseUnknown
<1> QED BY <1>1, <1>2, <1>4, <1>5

(* Reconcile: only a row whose operation is not tracked is written off for want of a
   result. *)
LEMMA ReconcileStep ==
  ASSUME HistoryInv, NEW o \in Ops, Reconcile(o)
  PROVE  HistoryInv'
<1>1. ReconcileRow(o, owner, active \cup pending)
      /\ UNCHANGED <<op, owner, confirmed, active, pending, phases, restore, job, lost>>
  BY DEF Reconcile, recVars, TrackedOperations
<1>2. /\ OpInv(o) /\ OwnWrite(o) /\ op[o].seq \in 0..MaxSeq /\ row[o].seq \in 0..MaxSeq
      /\ op[o].pc \in {"new", "skipped", "starting", "open", "finishing", "over", "dead"}
  BY Known DEF OpInv
<1>3. row[o].owner # None /\ row[o].outcome \in {"running", "unknown"}
  <2>1. row[o].owner # None /\ (row[o].outcome = "running" \/ LeaseUnknown(row[o]))
    BY <1>1, Zenon DEF ReconcileRow
  <2> QED BY <2>1 DEF LeaseUnknown
<1>4. inst[row[o].owner] # "absent" /\ StoreTypeOK
  BY Zenon, <1>2, <1>3 DEF OpInv, RowKnown, Stored, HistoryInv, TypeOK
<1>5. /\ row' \in [Ops -> Row] /\ \A p \in Ops \ {o} : row'[p] = row[p]
      /\ row'[o].outcome = "unknown" /\ row'[o].seq = row[o].seq /\ row'[o].owner = row[o].owner
      /\ \/ row'[o].reason = "owner_lease_expired" /\ row[o].outcome = "running"
         \/ row'[o].reason = "finalization_unavailable" /\ o \notin active \cup pending
      /\ inst' = inst /\ aged' = aged /\ stale' = stale
  BY Zenon, <1>1, <1>4, Reconciled
<1>6. TypeOK'
  BY Zenon, <1>1, <1>5 DEF HistoryInv, TypeOK, StoreTypeOK
<1>7. o \notin active \cup pending => op[o].pc \in {"over", "dead"}
  BY <1>2, <1>3 DEF OpInv, Tracked, RowKnown
<1>8. OpInv(o)'
  <2>1. Tracked(o)'
    BY Zenon, <1>1, <1>2, <1>5 DEF OpInv, Tracked
  <2>2. RowKnown(o)'
    BY Zenon, <1>1, <1>2, <1>3, <1>4, <1>5 DEF OpInv, RowKnown, Stored
  <2>3. ResultKnown(o)'
    BY Zenon, <1>1, <1>2, <1>3, <1>5, <1>7 DEF OpInv, ResultKnown
  <2> QED BY <2>1, <2>2, <2>3 DEF OpInv
<1>9. OwnWrite(o)'
  BY <1>1, <1>2 DEF OwnWrite
<1>10. ASSUME NEW g \in Goroutines, job[g] # NoJob, job[g].op = o
       PROVE  InFlight(g)'
  <2>1. g = "loop" /\ job[g].outcome = "final" => o \in pending'
    BY Zenon, <1>1, <1>10, KnownWrite
  <2>2. job'[g] = job[g] /\ stale' = stale /\ op'[o] = op[o]
    BY Zenon, <1>1, <1>5
  <2> QED BY Zenon, <1>10, <2>1, <2>2, WriteUntouched
<1> QED BY <1>1, <1>5, <1>6, <1>8, <1>9, <1>10, OneOperation

(* Cleanup: a deleted row had an owner that cannot write any more, or its operation no
   result to write. *)
LEMMA CleanupStep ==
  ASSUME HistoryInv, NEW o \in Ops, Cleanup(o)
  PROVE  HistoryInv'
<1> DEFINE leased == LeaseUnknown(row[o])
           i == row[o].owner
           gap == [NoRow EXCEPT !.outcome = "deleted"]
<1>1. /\ row[o].outcome \in {"final", "unknown"} /\ o \in aged
      /\ leased => inst[i] # "valid"
      /\ inst' = IF leased /\ inst[i] = "expired" THEN [inst EXCEPT ![i] = "retired"] ELSE inst
      /\ row' = [row EXCEPT ![o] = gap] /\ aged' = aged \ {o}
      /\ UNCHANGED <<stale, op, owner, confirmed, active, pending, phases, restore, job, lost>>
  BY DEF Cleanup, CleanupRow, recVars
<1>2. /\ OpInv(o) /\ OwnWrite(o) /\ i \in Instances \cup {None}
      /\ op[o].pc \in {"new", "skipped", "starting", "open", "finishing", "over", "dead"}
  BY Known DEF OpInv
<1>3. gap \in Row /\ gap.outcome = "deleted"
  <2>1. NoRow \in Row
    BY DEF NoRow, Row, Outcomes, Reasons
  <2> QED BY <2>1 DEF Row, Outcomes
<1> HIDE DEF gap
<1>4. row' \in [Ops -> Row] /\ row'[o] = gap /\ \A p \in Ops \ {o} : row'[p] = row[p]
  BY Zenon, <1>1, <1>3 DEF HistoryInv, TypeOK, StoreTypeOK
<1>5. /\ inst' \in [Instances -> {"absent", "valid", "expired", "retired"}]
      /\ \A j \in Instances : inst'[j] = inst[j] \/ (inst[j] = "expired" /\ inst'[j] = "retired")
      /\ leased /\ i \in Instances /\ inst[i] = "expired" => inst'[i] = "retired"
  BY Zenon, <1>1 DEF HistoryInv, TypeOK, StoreTypeOK
<1>6. TypeOK'
  BY Zenon, <1>1, <1>4, <1>5 DEF HistoryInv, TypeOK, StoreTypeOK
<1>7. ASSUME NEW p \in Ops, p # o
      PROVE  OpInv(p)'
  <2>1. OpInv(p) /\ op[p].owner \in Instances \cup {None} /\ row[p].owner \in Instances \cup {None}
    BY Known DEF OpInv
  <2>2. row'[p] = row[p] /\ (p \in aged' <=> p \in aged)
    BY <1>1, <1>4, <1>7
  <2>3. Tracked(p)'
    BY Zenon, <1>1, <2>1 DEF OpInv, Tracked
  <2>4. RowKnown(p)'
    BY Zenon, <1>1, <1>5, <2>1, <2>2 DEF OpInv, RowKnown, Stored
  <2>5. ResultKnown(p)'
    BY Zenon, <1>1, <1>5, <2>1, <2>2 DEF OpInv, ResultKnown, Gone
  <2> QED BY <2>3, <2>4, <2>5 DEF OpInv
<1>8. OpInv(o)'
  <2>1. Tracked(o)'
    BY Zenon, <1>1, <1>2 DEF OpInv, Tracked
  <2>2. RowKnown(o)'
    BY Zenon, <1>1, <1>2, <1>3, <1>4 DEF OpInv, RowKnown, Stored
  <2>3. ASSUME op[o].pc # "dead"
        PROVE  \/ op[o].owner # None /\ inst'[op[o].owner] \in Gone
               \/ o \in stale
               \/ op[o].pc = "over" /\ o \in lost \ pending
    <3>1. CASE row[o].outcome = "final"
      BY Zenon, <1>1, <1>2, <3>1 DEF OpInv, RowKnown
    <3>2. CASE leased
      <4>1. row[o].owner = op[o].owner /\ i \in Instances /\ inst[i] # "absent"
        BY Zenon, <1>2, <2>3, <3>2 DEF OpInv, RowKnown, Stored, LeaseUnknown
      <4>2. inst[i] \in {"expired", "retired"}
        BY Zenon, <1>1, <3>2, <4>1 DEF HistoryInv, TypeOK, StoreTypeOK
      <4> QED BY Zenon, <1>5, <3>2, <4>1, <4>2 DEF Gone
    <3>3. CASE row[o].outcome = "unknown" /\ ~leased
      BY Zenon, <1>2, <2>3, <3>3 DEF OpInv, RowKnown, ResultKnown, LeaseUnknown
    <3> QED BY Zenon, <1>1, <3>1, <3>2, <3>3
  <2>4. op[o].pc = "over" => o \in pending \cup lost \cup stale
    BY Zenon, <1>1, <1>2 DEF OpInv, RowKnown, ResultKnown
  <2>5. ResultKnown(o)'
    BY Zenon, <1>1, <1>3, <1>4, <2>3, <2>4 DEF ResultKnown
  <2> QED BY <2>1, <2>2, <2>5 DEF OpInv
<1>9. ASSUME NEW p \in Ops
      PROVE  OwnWrite(p)'
  BY Zenon, <1>1 DEF HistoryInv, OwnWrite
<1>10. ASSUME NEW g \in Goroutines
       PROVE  InFlight(g)'
  BY Zenon, <1>1 DEF HistoryInv, InFlight, Written
<1> QED BY <1>6, <1>7, <1>8, <1>9, <1>10 DEF HistoryInv, OpInv
-----------------------------------------------------------------------------
(* A row reaches the end of its retention period: a result there is stale already. *)
LEMMA RowAgesStep ==
  ASSUME HistoryInv, NEW o \in Ops, RowAges(o)
  PROVE  HistoryInv'
<1>1. /\ aged' = aged \cup {o} /\ (row[o].outcome = "final" => o \in stale)
      /\ UNCHANGED <<row, inst, stale, op, owner, confirmed, active, pending, phases, restore, job,
                     lost>>
  BY Zenon DEF RowAges, AgeRow, recVars
<1>2. TypeOK'
  BY Zenon, <1>1 DEF HistoryInv, TypeOK, StoreTypeOK
<1>3. OpInv(o) /\ OwnWrite(o) /\ op[o].seq \in 0..MaxSeq
  BY Known DEF OpInv
<1>4. OpInv(o)'
  <2>1. Tracked(o)' /\ ResultKnown(o)'
    BY Zenon, <1>1, <1>3 DEF OpInv, Tracked, ResultKnown
  <2>2. RowKnown(o)'
    BY Zenon, <1>1, <1>3 DEF OpInv, RowKnown, Stored
  <2> QED BY <2>1, <2>2 DEF OpInv
<1>5. OwnWrite(o)'
  BY Zenon, <1>1, <1>3 DEF OwnWrite
<1>6. ASSUME NEW g \in Goroutines, job[g] # NoJob, job[g].op = o
      PROVE  InFlight(g)'
  <2>1. g = "loop" /\ job[g].outcome = "final" => o \in pending'
    BY Zenon, <1>1, <1>6, KnownWrite
  <2>2. job'[g] = job[g] /\ stale' = stale /\ op'[o] = op[o]
    BY Zenon, <1>1
  <2> QED BY Zenon, <1>6, <2>1, <2>2, WriteUntouched
<1> QED BY Zenon, <1>1, <1>2, <1>4, <1>5, <1>6, OneOperation

(* A result reaches the end of the retention period: it is not stored any more. *)
LEMMA ResultAgesStep ==
  ASSUME HistoryInv, NEW o \in Ops, ResultAges(o)
  PROVE  HistoryInv'
<1>1. /\ op[o].pc \in Finished /\ Settled(o) /\ stale' = stale \cup {o}
      /\ UNCHANGED <<row, inst, aged, op, owner, confirmed, active, pending, phases, restore, job,
                     lost>>
  BY DEF ResultAges, recVars
<1>2. TypeOK'
  BY Zenon, <1>1 DEF HistoryInv, TypeOK, StoreTypeOK
<1>3. OpInv(o) /\ OwnWrite(o)
  BY Known DEF OpInv
<1>4. OpInv(o)'
  <2>1. Tracked(o)' /\ ResultKnown(o)'
    BY Zenon, <1>1, <1>3 DEF OpInv, Tracked, ResultKnown
  <2>2. RowKnown(o)'
    BY Zenon, <1>1, <1>3 DEF OpInv, RowKnown, Stored
  <2> QED BY <2>1, <2>2 DEF OpInv
<1>5. OwnWrite(o)'
  BY Zenon, <1>1, <1>3 DEF OwnWrite
<1>6. ASSUME NEW g \in Goroutines, job[g] # NoJob, job[g].op = o
      PROVE  InFlight(g)'
  <2>1. job[g].outcome = "final"
    BY <1>1, <1>6 DEF Settled, Finished
  <2>2. InFlight(g) /\ job'[g] = job[g]
    BY <1>1 DEF HistoryInv
  <2> QED BY Zenon, <1>1, <1>6, <2>1, <2>2 DEF InFlight, Written
<1> QED BY Zenon, <1>1, <1>2, <1>4, <1>5, <1>6, OneOperation

(* A process ends and another starts: nothing of the recorder is left, and its rows have
   an owner that the new process does not have. *)
LEMMA CrashStep ==
  ASSUME HistoryInv, NEW i \in Instances, Crash(i)
  PROVE  HistoryInv'
<1> DEFINE d == [pc |-> "dead", seq |-> 0, owner |-> None]
<1>1. /\ owner' = i /\ confirmed' \in BOOLEAN
      /\ inst' = inst \/ inst' = [inst EXCEPT ![i] = "valid"]
      /\ UNCHANGED <<row, aged, stale>>
      /\ active' = {} /\ pending' = {} /\ phases' = {} /\ restore' = {} /\ lost' = {}
      /\ job' = [g \in Goroutines |-> NoJob]
  BY Zenon DEF Crash, RegisterOwner, Register, storeVars
<1>2. op' = [o \in Ops |-> IF op[o].pc \in {"new", "skipped"} THEN op[o] ELSE d]
  BY DEF Crash
<1>3. d.pc = "dead" /\ d \in [pc : {"new", "skipped", "starting", "open", "finishing", "over", "dead"},
                              seq : 0..MaxSeq, owner : Instances \cup {None}]
  OBVIOUS
<1> HIDE DEF d
<1>4. op' \in [Ops -> [pc : {"new", "skipped", "starting", "open", "finishing", "over", "dead"},
                       seq : 0..MaxSeq, owner : Instances \cup {None}]]
  BY Zenon, <1>2, <1>3 DEF HistoryInv, TypeOK
<1>5. /\ inst' \in [Instances -> {"absent", "valid", "expired", "retired"}]
      /\ \A j \in Instances : inst[j] # "absent" => inst'[j] # "absent"
  BY Zenon, <1>1 DEF HistoryInv, TypeOK, StoreTypeOK
<1>6. TypeOK'
  BY Zenon, <1>1, <1>4, <1>5 DEF HistoryInv, TypeOK, StoreTypeOK
<1>7. ASSUME NEW o \in Ops
      PROVE  (Tracked(o) /\ RowKnown(o) /\ ResultKnown(o) /\ OwnWrite(o))'
  <2>1. /\ OpInv(o) /\ row[o].owner \in Instances \cup {None} /\ o \in Goroutines
        /\ row[o].outcome \in Outcomes
    BY Known DEF OpInv
  <2>2. \/ op[o].pc \in {"new", "skipped"} /\ op'[o] = op[o] /\ row[o].outcome = "absent"
        \/ op'[o].pc = "dead"
    BY Zenon, <1>2, <1>3, <2>1 DEF OpInv, RowKnown
  <2>3. o \in stale => op'[o].pc = "dead"
    BY <2>1, <2>2 DEF OpInv, Tracked, Finished
  <2>4. Tracked(o)'
    BY Zenon, <1>1, <2>1, <2>2, <2>3 DEF OpInv, Tracked
  <2>5. RowKnown(o)'
    BY Zenon, <1>1, <1>5, <2>1, <2>2 DEF OpInv, RowKnown, Stored
  <2>6. ResultKnown(o)'
    BY <1>1, <2>2 DEF ResultKnown
  <2>7. OwnWrite(o)'
    BY <1>1, <2>1, <2>2 DEF OwnWrite
  <2> QED BY <2>4, <2>5, <2>6, <2>7
<1>8. ASSUME NEW g \in Goroutines
      PROVE  InFlight(g)'
  BY <1>1 DEF InFlight
<1> QED BY <1>6, <1>7, <1>8 DEF HistoryInv
-----------------------------------------------------------------------------
(* The inductive invariant holds initially *)
LEMMA HistoryInit ==
  ASSUME Init
  PROVE  HistoryInv
<1>1. NoRow \in Row /\ NoRow.outcome = "absent"
  BY DEF NoRow, Row, Outcomes, Reasons
<1>2. TypeOK
  <2>1. StoreTypeOK
    BY <1>1 DEF Init, StoreInit, StoreTypeOK
  <2>2. op \in [Ops -> [pc : {"new", "skipped", "starting", "open", "finishing", "over", "dead"},
                        seq : 0..MaxSeq, owner : Instances \cup {None}]]
    BY DEF Init
  <2>3. job \in [Goroutines -> Snapshot \cup {NoJob}]
    BY DEF Init
  <2> QED BY Zenon, <2>1, <2>2, <2>3 DEF Init, TypeOK
<1>3. ASSUME NEW o \in Ops
      PROVE  Tracked(o) /\ RowKnown(o) /\ ResultKnown(o) /\ OwnWrite(o)
  <2>1. /\ op[o].pc = "new" /\ op[o].seq = 0 /\ op[o].owner = None /\ row[o].outcome = "absent"
        /\ job[o] = NoJob
    BY <1>1 DEF Init, StoreInit, Goroutines
  <2>2. o \notin active /\ o \notin pending /\ o \notin stale /\ o \notin aged
    BY DEF Init, StoreInit
  <2> QED BY Zenon, <2>1, <2>2 DEF Tracked, RowKnown, ResultKnown, OwnWrite, Stored
<1>4. ASSUME NEW g \in Goroutines
      PROVE  InFlight(g)
  BY DEF Init, InFlight
<1> QED BY <1>2, <1>3, <1>4 DEF HistoryInv

(* and every step keeps it. *)
LEMMA HistoryStep ==
  ASSUME HistoryInv, [Next]_vars
  PROVE  HistoryInv'
<1>1. CASE UNCHANGED vars
  <2>1. UNCHANGED <<row, inst, aged, stale, op, owner, confirmed, active, pending, phases, restore,
                    job, lost>>
    BY <1>1 DEF vars
  <2>2. TypeOK'
    BY Zenon, <2>1 DEF HistoryInv, TypeOK, StoreTypeOK
  <2> QED BY <2>1, <2>2, OwnersStep
<1>2. CASE Unconfirm
  <2>1. /\ UNCHANGED <<row, inst, aged, stale, op, owner, active, pending, phases, restore, job,
                       lost>>
        /\ confirmed' = FALSE
    BY <1>2 DEF Unconfirm, storeVars
  <2>2. TypeOK'
    BY Zenon, <2>1 DEF HistoryInv, TypeOK, StoreTypeOK
  <2> QED BY <2>1, <2>2, OwnersStep
<1>3. CASE \E o \in Ops :
             \/ Begin(o) \/ SkipCapture(o) \/ Begun(o) \/ SetPhase(o) \/ Finish(o)
             \/ FinishWritten(o) \/ RowAges(o) \/ ResultAges(o)
  BY <1>3, BeginStep, SkipCaptureStep, BegunStep, SetPhaseStep, FinishStep, FinishWrittenStep,
     RowAgesStep, ResultAgesStep
<1>4. CASE RetryLoop
  BY <1>4, PersistPhaseStep, RetryPendingStep, GiveUpPendingStep, LoopWrittenStep DEF RetryLoop
<1>5. CASE HeartbeatLoop
  BY <1>5, HeartbeatStep, HeartWrittenStep, ReplaceOwnerStep, RestoreUnknownStep DEF HeartbeatLoop
<1>6. CASE MaintenanceLoop
  BY <1>6, ReconcileStep, CleanupStep, CleanupInstancesStep DEF MaintenanceLoop
<1>7. CASE \E i \in Instances : LeaseExpires(i) \/ Crash(i)
  BY <1>7, LeaseExpiresStep, CrashStep
<1> QED BY <1>1, <1>2, <1>3, <1>4, <1>5, <1>6, <1>7 DEF Next

(* The inductive invariant implies what the run checks. *)
LEMMA Accounted == ASSUME HistoryInv PROVE ResultAccounted
<1>1. ASSUME NEW o \in Ops
      PROVE  /\ op[o].pc = "over" =>
                  \/ o \in pending \cup lost
                  \/ row[o].outcome \in {"final", "deleted"} \/ o \in stale
             /\ /\ row[o].outcome = "unknown" /\ row[o].reason = "finalization_unavailable"
                /\ op[o].owner = row[o].owner
                => o \notin active \cup pending
  <2>1. Tracked(o) /\ RowKnown(o) /\ ResultKnown(o)
    BY Zenon, Known
  <2> QED BY Zenon, <2>1 DEF Tracked, RowKnown, ResultKnown
<1> QED BY <1>1 DEF ResultAccounted, HistoryInv

(* What a step may make of the row of an operation *)
Kept(o) ==
  /\ row[o].outcome = "final" => row'[o].outcome \in {"final", "deleted"}
  /\ row[o].outcome = "unknown" /\ row'[o].outcome = "running"
       => row[o].reason = "owner_lease_expired"
  /\ row[o].outcome = "deleted" /\ row'[o].outcome # "deleted"
       => row'[o].outcome = "running" /\ o \in lost

(* A write of any goroutine keeps to it. *)
LEMMA UpsertKeeps ==
  ASSUME HistoryInv, NEW g \in Goroutines, job[g] # NoJob, NEW seen, Upsert(job[g], seen),
         NEW o \in Ops
  PROVE  Kept(o)
<1>1. /\ job[g] \in Snapshot /\ Written(job[g])
      /\ job[g].outcome = "final" => op[job[g].op].pc = "finishing" \/ job[g].op \in pending
  BY KnownWrite
<1>2. CASE o = job[g].op
  <2>1. Upserted(job[g], seen, o)
    BY Zenon, <1>1, <1>2, UpsertedRow
  <2> QED BY <2>1 DEF Kept, Upserted
<1>3. CASE o # job[g].op
  <2>1. row'[o] = row[o]
    BY Zenon, <1>1, <1>3, UpsertWrites DEF HistoryInv, TypeOK
  <2> QED BY <2>1 DEF Kept
<1> QED BY <1>2, <1>3

(* No step changes a result, revives a row that was written off, or brings a deleted row
   back except for a result that was given up. *)
LEMMA RowsKept ==
  ASSUME HistoryInv, [Next]_vars, NEW o \in Ops
  PROVE  Kept(o)
<1>1. CASE row' = row
  BY <1>1 DEF Kept
<1>2. ASSUME NEW p \in Ops, Begun(p) \/ FinishWritten(p)
      PROVE  Kept(o)
  <2>1. PICK seen \in {"ok", "permanent", "transient"} : Upsert(job[p], seen)
    BY <1>2, Zenon DEF Begun, FinishWritten
  <2>2. op[p].pc \in {"starting", "finishing"}
    BY <1>2 DEF Begun, FinishWritten
  <2>3. p \in Goroutines /\ job[p] # NoJob
    BY <2>2, Known DEF OwnWrite
  <2> QED BY <2>1, <2>3, UpsertKeeps
<1>3. CASE LoopWritten
  <2>1. PICK seen \in {"ok", "permanent", "transient"} : Upsert(job["loop"], seen)
    BY <1>3, Zenon DEF LoopWritten
  <2>2. "loop" \in Goroutines /\ job["loop"] # NoJob
    BY <1>3 DEF LoopWritten, Idle, Goroutines
  <2> QED BY <2>1, <2>2, UpsertKeeps
<1>4. CASE HeartWritten
  <2>1. PICK seen \in {"ok", "permanent", "transient"} : Upsert(job["heart"], seen)
    BY <1>4, Zenon DEF HeartWritten
  <2>2. "heart" \in Goroutines /\ job["heart"] # NoJob
    BY <1>4 DEF HeartWritten, Idle, Goroutines
  <2> QED BY <2>1, <2>2, UpsertKeeps
<1>5. ASSUME NEW p \in Ops, Reconcile(p)
      PROVE  Kept(o)
  <2>1. ReconcileRow(p, owner, active \cup pending)
    BY <1>5 DEF Reconcile, TrackedOperations
  <2>2. row[p].owner # None /\ (row[p].outcome = "running" \/ LeaseUnknown(row[p]))
    BY <2>1, Zenon DEF ReconcileRow
  <2>3. inst[row[p].owner] # "absent" /\ StoreTypeOK
    BY Zenon, <2>2, Known DEF RowKnown, Stored, LeaseUnknown, HistoryInv, TypeOK
  <2>4. /\ row[p].outcome \in {"running", "unknown"} /\ row'[p].outcome = "unknown"
        /\ \A q \in Ops \ {p} : row'[q] = row[q]
    BY Zenon, <2>1, <2>3, Reconciled
  <2> QED BY <2>4 DEF Kept
<1>6. ASSUME NEW p \in Ops, Cleanup(p)
      PROVE  Kept(o)
  <2> DEFINE gap == [NoRow EXCEPT !.outcome = "deleted"]
  <2>1. row[p].outcome \in {"final", "unknown"} /\ row' = [row EXCEPT ![p] = gap]
    BY <1>6 DEF Cleanup, CleanupRow
  <2>2. gap.outcome = "deleted"
    <3>1. NoRow \in Row
      BY DEF NoRow, Row, Outcomes, Reasons
    <3> QED BY <3>1 DEF Row
  <2> HIDE DEF gap
  <2>3. row'[p] = gap /\ \A q \in Ops \ {p} : row'[q] = row[q]
    BY Zenon, <2>1 DEF HistoryInv, TypeOK, StoreTypeOK
  <2> QED BY <2>1, <2>2, <2>3 DEF Kept
<1>7. \/ row' = row
      \/ \E p \in Ops : Begun(p) \/ FinishWritten(p) \/ Reconcile(p) \/ Cleanup(p)
      \/ LoopWritten \/ HeartWritten
  <2>1. CASE UNCHANGED vars
    BY <2>1 DEF vars
  <2>2. CASE Next
    <3>1. CASE \E p \in Ops :
                 \/ Begin(p) \/ SkipCapture(p) \/ SetPhase(p) \/ Finish(p) \/ RowAges(p)
                 \/ ResultAges(p) \/ PersistPhase(p) \/ RetryPending(p) \/ GiveUpPending(p)
                 \/ RestoreUnknown(p)
      BY <3>1, Zenon DEF Begin, SkipCapture, SetPhase, Finish, RowAges, AgeRow, ResultAges,
         PersistPhase, RetryPending, GiveUpPending, RestoreUnknown, storeVars
    <3>2. CASE Heartbeat \/ Unconfirm
      BY <3>2, Zenon DEF Heartbeat, Renew, Unconfirm, storeVars
    <3>3. CASE \E i \in Instances :
                 ReplaceOwner(i) \/ CleanupInstances(i) \/ LeaseExpires(i) \/ Crash(i)
      BY <3>3, Zenon DEF ReplaceOwner, RegisterOwner, Register, CleanupInstances, CleanupInstance,
         LeaseExpires, Expire, Crash, storeVars
    <3> QED BY Zenon, <2>2, <3>1, <3>2, <3>3 DEF Next, RetryLoop, HeartbeatLoop, MaintenanceLoop
  <2> QED BY <2>1, <2>2
<1> QED BY <1>1, <1>2, <1>3, <1>4, <1>5, <1>6, <1>7
-----------------------------------------------------------------------------
(* For any operations and any identities of the Hub, whatever the order of the writes,
   the answers, the lease, the clean-up and the restarts: no result is lost silently, and
   none is declared unavailable while the process tracks the operation. *)
THEOREM EveryResultIsAccounted == Spec => []ResultAccounted
<1>1. Init => HistoryInv
  BY HistoryInit
<1>2. HistoryInv /\ [Next]_vars => HistoryInv'
  BY HistoryStep
<1>3. HistoryInv => ResultAccounted
  BY Accounted
<1> QED BY <1>1, <1>2, <1>3, PTL DEF Spec

(* A stored result never changes; a row that was written off is not shown as running
   again, unless it only lost its lease; and a row that clean-up deleted comes back only
   as the running snapshot of an operation whose result was given up. *)
THEOREM ResultsStayFinal == Spec => ResultsFinal
<1>1. Init => HistoryInv
  BY HistoryInit
<1>2. HistoryInv /\ [Next]_vars => HistoryInv'
  BY HistoryStep
<1>3. ASSUME HistoryInv, [Next]_vars
      PROVE  [\A o \in Ops :
       /\ row[o].outcome = "final" => row'[o].outcome \in {"final", "deleted"}
       /\ row[o].outcome = "unknown" /\ row'[o].outcome = "running"
            => row[o].reason = "owner_lease_expired"
       /\ row[o].outcome = "deleted" /\ row'[o].outcome # "deleted"
            => row'[o].outcome = "running" /\ o \in lost]_vars
  BY Zenon, <1>3, RowsKept DEF Kept
<1> QED BY <1>1, <1>2, <1>3, PTL DEF Spec, ResultsFinal
=============================================================================
