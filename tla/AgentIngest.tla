---------------------------- MODULE AgentIngest ----------------------------
(***************************************************************************)
(* The Hub's side of sample delivery: ResidentMonitor.receive              *)
(* (service/resident_monitor.go) and AgentNodeRepo.Ingest and Cleanup      *)
(* (repository/agent_node.go).                                             *)
(*                                                                         *)
(* Several requests of one agent may be in the Hub at the same time: the   *)
(* agent gives up after ten seconds and sends the samples again while the  *)
(* Hub still works on the first request.  Ingest is one database           *)
(* transaction.                                                            *)
(***************************************************************************)
EXTENDS AgentWire

CONSTANTS NoReceipt,   \* a sample without a receipt
          Retention    \* how long Cleanup keeps receipts

ASSUME NoReceiptIsNoTime == NoReceipt \notin Nat

(* The receipts (48 hours) outlive the window in which the Hub accepts a sample
   (24 hours plus one, plus five minutes of clock skew). *)
ASSUME ReceiptsOutliveWindow == Retention \in Nat /\ Retention >= Past + Future

VARIABLES receipt,   \* agent_receipts.received_at
          rows       \* metric rows written for a sample

ingestVars == <<receipt, rows>>

IngestInit ==
  /\ receipt = [s \in Samples |-> NoReceipt]
  /\ rows = [s \in Samples |-> 0]

IngestTypeOK ==
  /\ receipt \in [Samples -> 0..MaxNow \cup {NoReceipt}]
  /\ rows \in [Samples -> Nat]

(* Time passes on the Hub. *)
Tick ==
  /\ now < MaxNow
  /\ now' = now + 1
  /\ UNCHANGED <<stime, req, ingestVars>>

(* receive, up to the write: the samples outside the window are set aside. *)
ReceiveAllOrNothing(r) ==
  LET valid == {s \in req[r].samples : Valid(s, now)}
  IN /\ req[r].pc = "sent"
     /\ req' = [req EXCEPT ![r] = IF valid # req[r].samples THEN Reply({}, {}) ELSE
                  [NoRequest EXCEPT !.pc = "admitted", !.valid = valid]]
     /\ UNCHANGED <<now, stime, ingestVars>>

Receive(r) ==
  LET valid == {s \in req[r].samples : Valid(s, now)}
  IN /\ req[r].pc = "sent"
     /\ req' = [req EXCEPT ![r] = IF valid = {} THEN Reply({}, req[r].samples) ELSE
                  [NoRequest EXCEPT !.pc = "admitted", !.valid = valid,
                                    !.rejected = req[r].samples \ valid]]
     /\ UNCHANGED <<now, stime, ingestVars>>

(* receive refuses early: closed, revoked, another token or connection. *)
RefuseRequest(r) ==
  /\ req[r].pc = "sent"
  /\ req' = [req EXCEPT ![r] = Reply({}, {})]
  /\ UNCHANGED <<now, stime, ingestVars>>

(* The samples of a batch that Ingest writes a metric row for. *)
NewIgnoringReceipts(V) == V
New(V) == {s \in V : receipt[s] = NoReceipt}

(* The transaction commits.  All samples are acknowledged, the known ones too;
   the reply says so unless the commit's own answer is lost or the node was
   replaced meanwhile (answered). *)
Ingest(r, answered) ==
  /\ req[r].pc = "admitted"
  /\ \A s \in req[r].valid : Valid(s, now)
  /\ rows' = [s \in Samples |-> IF s \in New(req[r].valid) THEN rows[s] + 1 ELSE rows[s]]
  /\ receipt' = [s \in Samples |-> IF s \in New(req[r].valid) THEN now ELSE receipt[s]]
  /\ req' = [req EXCEPT ![r] = Reply(IF answered THEN req[r].valid ELSE {}, req[r].rejected)]
  /\ UNCHANGED <<now, stime>>

(* No write slot, a sample that left the window since receive, a database error:
   nothing is written, and only the rejections are answered. *)
IngestFails(r) ==
  /\ req[r].pc = "admitted"
  /\ req' = [req EXCEPT ![r] = Reply({}, req[r].rejected)]
  /\ UNCHANGED <<now, stime, ingestVars>>

(* Cleanup deletes old receipts. *)
Cleanup ==
  /\ \E s \in Samples : receipt[s] # NoReceipt /\ receipt[s] < now - Retention
  /\ receipt' = [s \in Samples |->
       IF receipt[s] # NoReceipt /\ receipt[s] < now - Retention
         THEN NoReceipt ELSE receipt[s]]
  /\ UNCHANGED <<rows, wireVars>>

(* The Hub restarts: the requests it was working on are gone. *)
HubRestart ==
  /\ \E r \in Reqs : req[r].pc \in {"sent", "admitted"}
  /\ req' = [r \in Reqs |-> IF req[r].pc \in {"sent", "admitted"} THEN NoRequest ELSE req[r]]
  /\ UNCHANGED <<now, stime, ingestVars>>

(* The Hub handles a request without a fault: only a sample that has left the
   window since receive makes the transaction fail. *)
Serve(r) ==
  \/ Receive(r) \/ Ingest(r, TRUE)
  \/ (\E s \in req[r].valid : ~Valid(s, now)) /\ IngestFails(r)

Unserved(r) == Lose(r) /\ UNCHANGED <<now, stime, ingestVars>>

IngestFault ==
  \/ HubRestart
  \/ \E r \in Reqs : RefuseRequest(r) \/ IngestFails(r) \/ Ingest(r, FALSE) \/ Unserved(r)

IngestNext == Tick \/ Cleanup \/ (\E r \in Reqs : Serve(r)) \/ IngestFault
============================================================================
