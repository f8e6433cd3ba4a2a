----------------------------- MODULE AgentSpool -----------------------------
(***************************************************************************)
(* The resident agent's outbox and its upload loop                         *)
(* (internal/agentclient/spool.go, client.go).                             *)
(*                                                                         *)
(* Samples are files in the state directory.  Two goroutines use the spool *)
(* under its mutex: the collector (Add) and the uploader (Batch, Ack,      *)
(* Reject).  The agent may crash at any step.  A file that was removed     *)
(* but whose directory was not synced yet may be back after the crash.     *)
(* Sizes are abstracted: every sample takes one unit of the queue limit.   *)
(* The agent's clock is not related to the Hub's, so that the age limit    *)
(* may strike at any moment.                                               *)
(***************************************************************************)
EXTENDS AgentWire

CONSTANTS None,
          MaxQueue,     \* queue limit, in samples
          MaxBatch,     \* samples per request
          MaxFaults     \* bound on crashes and failed removals, the faults after
                        \* which a loss may be counted again

ASSUME SpoolBounds == MaxQueue \in Nat /\ MaxBatch \in Nat \ {0} /\ MaxFaults \in Nat

VARIABLES up,        \* the agent process runs
          files,     \* .sample files in the state directory
          unsynced,  \* removed files that a crash may bring back
          onDisk,    \* the number in dropped.json
          entries,   \* Spool.entries
          dropped,   \* Spool.dropped
          step, job, \* what the holder of the spool's mutex is doing, and for whom
          batch,     \* the entries it is removing
          await,     \* the request whose reply the uploader waits for
          todo,      \* rejected samples of the last reply, still to be dropped
          faults,    \* crashes and failed removals so far
          captured   \* samples that reached the disk for good at some time

procVars  == <<entries, step, job, batch, await, todo>>
diskVars  == <<files, unsynced, onDisk>>
spoolVars == <<up, diskVars, procVars, dropped, faults, captured>>

(* free       the mutex is free
   pruning    in pruneLocked, at the head of its loop
   dropping   the loss of the sample in batch is recorded, its file still there
   rejecting  the loss of the samples in batch is recorded, their files still there
   syncing    files removed by ackLocked, the directory not synced yet *)
Steps == {"free", "pruning", "dropping", "rejecting", "syncing"}
Jobs  == {"none", "open", "add", "batch"}

SpoolInit ==
  /\ up = FALSE
  /\ files = {} /\ unsynced = {} /\ onDisk = 0 /\ captured = {} /\ faults = 0
  /\ entries = {} /\ dropped = 0
  /\ step = "free" /\ job = "none" /\ batch = {} /\ await = None /\ todo = {}

SpoolTypeOK ==
  /\ up \in BOOLEAN
  /\ files \in SUBSET Samples /\ unsynced \in SUBSET Samples
  /\ captured \in SUBSET Samples /\ entries \in SUBSET Samples
  /\ onDisk \in Nat /\ dropped \in Nat
  /\ step \in Steps /\ job \in Jobs
  /\ batch \in SUBSET Samples /\ todo \in SUBSET Samples
  /\ await \in Reqs \cup {None}
  /\ faults \in 0..MaxFaults

Oldest(s, S) == s \in S /\ \A t \in S : stime[s] <= stime[t]
Newest(s, S) == s \in S /\ \A t \in S : stime[t] <= stime[s]

(* Batch: the newest sample, then the oldest ones, MaxBatch in all. *)
IsBatch(B, S) ==
  \E n \in S :
    /\ Newest(n, S) /\ n \in B /\ B \subseteq S
    /\ Cardinality(B) = IF Cardinality(S) < MaxBatch THEN Cardinality(S) ELSE MaxBatch
    /\ \A s \in B \ {n}, t \in S \ B : stime[s] <= stime[t]

(* syncDirectory succeeds when F are the files: none comes back or disappears. *)
DirSynced(F) == unsynced' = {} /\ captured' = captured \cup F
SyncDirectory(synced) ==
  IF synced THEN DirSynced(files) ELSE UNCHANGED <<unsynced, captured>>

----------------------------------------------------------------------------
(* OpenSpool: read the state directory, then prune. *)
Restart ==
  /\ ~up
  /\ up' = TRUE
  /\ entries' = files
  /\ dropped' = onDisk
  /\ step' = "pruning" /\ job' = "open"
  /\ UNCHANGED <<faults, diskVars, batch, await, todo, captured, wireVars>>

(* The process or the machine dies.  Removals that were not synced may be undone
   (back); a file whose creation was reported as failed may be gone (gone). *)
Crash(back, gone) ==
  /\ up /\ faults < MaxFaults /\ faults' = faults + 1
  /\ back \subseteq unsynced /\ gone \subseteq files \ captured
  /\ up' = FALSE
  /\ files' = (files \cup back) \ gone
  /\ unsynced' = {}
  /\ entries' = {} /\ step' = "free" /\ job' = "none" /\ batch' = {} /\ await' = None /\ todo' = {}
  /\ UNCHANGED <<onDisk, dropped, captured, wireVars>>

(* The ID of a sample is new. *)
NewID(s) ==
  /\ s \notin captured \cup files
  /\ s = CHOOSE new \in Samples : new \notin captured \cup files

(* Add: the sample is written durably, queued, and the queue pruned. *)
Add(s, t) ==
  /\ up /\ step = "free" /\ NewID(s)
  /\ stime' = [stime EXCEPT ![s] = t]
  /\ files' = files \cup {s} /\ DirSynced(files \cup {s})
  /\ entries' = entries \cup {s}
  /\ step' = "pruning" /\ job' = "add"
  /\ UNCHANGED <<faults, up, onDisk, dropped, batch, await, todo, now, req>>

(* Add fails after the rename, in the directory sync: the file is there, but
   neither queued nor certain to survive. *)
AddUnsynced(s, t) ==
  /\ up /\ step = "free" /\ NewID(s)
  /\ stime' = [stime EXCEPT ![s] = t]
  /\ files' = files \cup {s}
  /\ UNCHANGED <<faults, up, unsynced, onDisk, dropped, procVars, captured, now, req>>

(* pruneLocked, one turn of its loop: first the loss counter ... *)
RecordLossInMemory(s) ==
  /\ step = "pruning"
  /\ Oldest(s, entries)
  /\ dropped' = dropped + 1
  /\ batch' = {s} /\ step' = "dropping"
  /\ UNCHANGED <<faults, up, diskVars, entries, job, await, todo, captured, wireVars>>

RecordLoss(s) ==
  /\ step = "pruning"
  /\ Oldest(s, entries)
  /\ onDisk' = dropped + 1 /\ dropped' = dropped + 1
  /\ DirSynced(files)
  /\ batch' = {s} /\ step' = "dropping"
  /\ UNCHANGED <<faults, up, files, entries, job, await, todo, wireVars>>

(* ... which may fail, before or after the new count is in place (OpenSpool then
   exits, which is a crash) ... *)
RecordLossFails ==
  /\ step = "pruning" /\ job # "open"
  /\ entries # {}
  /\ onDisk' \in {onDisk, dropped + 1}
  /\ step' = "free" /\ job' = "none"
  /\ UNCHANGED <<faults, up, files, unsynced, dropped, entries, batch, await, todo, captured, wireVars>>

(* ... then the file, whose removal may fail as well. *)
DropOldest ==
  /\ step = "dropping"
  /\ files' = files \ batch /\ entries' = entries \ batch
  /\ unsynced' = unsynced \cup batch
  /\ batch' = {} /\ step' = "pruning"
  /\ UNCHANGED <<faults, up, onDisk, dropped, job, await, todo, captured, wireVars>>

DropOldestFails ==
  /\ step = "dropping" /\ job # "open"
  /\ faults < MaxFaults /\ faults' = faults + 1
  /\ batch' = {} /\ step' = "free" /\ job' = "none"
  /\ UNCHANGED <<up, diskVars, dropped, entries, await, todo, captured, wireVars>>

WithinLimit == Cardinality(entries) <= MaxQueue

(* The loop ends and syncs the directory; Add and OpenSpool are done. *)
PruneEnds(synced) ==
  /\ step = "pruning" /\ job # "batch"
  /\ WithinLimit
  /\ SyncDirectory(synced) /\ (synced \/ job # "open")
  /\ step' = "free" /\ job' = "none"
  /\ UNCHANGED <<faults, up, files, onDisk, dropped, entries, batch, await, todo, wireVars>>

(* The uploader's turn: Batch prunes ... *)
StartBatch ==
  /\ up /\ step = "free" /\ await = None /\ todo = {}
  /\ step' = "pruning" /\ job' = "batch"
  /\ UNCHANGED <<faults, up, diskVars, dropped, entries, batch, await, todo, captured, wireVars>>

(* ... and, if the directory sync succeeds, hands out samples that are sent. *)
SendBatch(r, B) ==
  /\ step = "pruning" /\ job = "batch"
  /\ WithinLimit
  /\ IsBatch(B, entries)
  /\ req[r].pc = "free"
  /\ DirSynced(files)
  /\ step' = "free" /\ job' = "none" /\ await' = r
  /\ req' = [req EXCEPT ![r] = [NoRequest EXCEPT !.pc = "sent", !.samples = B]]
  /\ UNCHANGED <<faults, up, files, onDisk, dropped, entries, batch, todo, now, stime>>

(* Batch returns nothing: the queue is empty, or the sync failed. *)
SendNothing(synced) ==
  /\ step = "pruning" /\ job = "batch"
  /\ WithinLimit
  /\ synced => entries = {}
  /\ SyncDirectory(synced)
  /\ step' = "free" /\ job' = "none"
  /\ UNCHANGED <<faults, up, files, onDisk, dropped, entries, batch, await, todo, wireVars>>

(* The request fails or times out; the Hub may still be working on it. *)
AbandonRequest ==
  /\ up /\ await # None
  /\ await' = None
  /\ UNCHANGED <<faults, up, diskVars, dropped, entries, step, job, batch, todo, captured, wireVars>>

(* Ack(reply.Ack): the files that could be removed are (gone); after an error
   the rejected samples are left for the next reply. *)
TakeReply(gone) ==
  /\ up /\ step = "free" /\ await # None
  /\ req[await].pc = "replied"
  /\ gone \subseteq req[await].ack \cap entries
  /\ files' = files \ gone /\ entries' = entries \ gone
  /\ unsynced' = unsynced \cup gone
  /\ todo' = IF gone = req[await].ack \cap entries THEN req[await].rejected ELSE {}
  /\ req' = [req EXCEPT ![await] = NoRequest]
  /\ await' = None /\ step' = "syncing"
  /\ UNCHANGED <<faults, up, onDisk, dropped, job, batch, captured, now, stime>>

(* The directory sync that ends ackLocked. *)
SyncRemovals(synced) ==
  /\ step = "syncing"
  /\ SyncDirectory(synced)
  /\ todo' = IF synced THEN todo ELSE {}
  /\ step' = "free"
  /\ UNCHANGED <<faults, up, files, onDisk, dropped, entries, job, batch, await, wireVars>>

(* Reject: record the losses, then remove the files. *)
RecordRejected ==
  /\ up /\ step = "free" /\ todo # {}
  /\ LET n == Cardinality(todo \cap entries)
     IN /\ dropped' = dropped + n
        /\ onDisk' = IF n = 0 THEN onDisk ELSE dropped + n
  /\ SyncDirectory(todo \cap entries # {})
  /\ batch' = todo \cap entries /\ todo' = {} /\ step' = "rejecting"
  /\ UNCHANGED <<faults, up, files, entries, job, await, wireVars>>

RecordRejectedFails ==
  /\ up /\ step = "free" /\ todo \cap entries # {}
  /\ onDisk' \in {onDisk, dropped + Cardinality(todo \cap entries)}
  /\ todo' = {}
  /\ UNCHANGED <<faults, up, files, unsynced, dropped, entries, step, job, batch, await, captured,
                 wireVars>>

DropRejected(gone) ==
  /\ step = "rejecting"
  /\ gone \subseteq batch
  /\ faults' = IF gone = batch THEN faults ELSE faults + 1
  /\ faults' <= MaxFaults
  /\ files' = files \ gone /\ entries' = entries \ gone
  /\ unsynced' = unsynced \cup gone
  /\ batch' = {} /\ step' = "syncing"
  /\ UNCHANGED <<up, onDisk, dropped, job, await, todo, captured, wireVars>>

(* The steps of the uploader when nothing fails: each file operation succeeds, and
   it gives up a request only when its reply can no longer come. *)
SpoolStep ==
  \/ Restart \/ DropOldest \/ StartBatch \/ RecordRejected
  \/ \E s \in Samples : RecordLoss(s)
  \/ \E r \in Reqs, B \in SUBSET Samples : SendBatch(r, B)
  \/ PruneEnds(TRUE) \/ SendNothing(TRUE) \/ SyncRemovals(TRUE)
  \/ DropRejected(batch)
  \/ \E r \in Reqs : /\ await = r
                    /\ \/ TakeReply(req[r].ack \cap entries)
                       \/ req[r].pc = "free" /\ AbandonRequest

Collect == \E s \in Samples, t \in 0..MaxNow : Add(s, t)

SpoolFault ==
  \/ \E back, gone \in SUBSET Samples : Crash(back, gone)
  \/ \E s \in Samples, t \in 0..MaxNow : AddUnsynced(s, t)
  \/ RecordLossFails \/ DropOldestFails \/ AbandonRequest \/ RecordRejectedFails
  \/ PruneEnds(FALSE) \/ SendNothing(FALSE) \/ SyncRemovals(FALSE)
  \/ \E gone \in SUBSET Samples : TakeReply(gone) \/ (gone # batch /\ DropRejected(gone))

SpoolNext == SpoolStep \/ Collect \/ SpoolFault
=============================================================================
