--------------------------- MODULE AgentDelivery ---------------------------
(***************************************************************************)
(* Delivery of resident samples end to end: one agent with its spool, the  *)
(* network between them, and the Hub's ingest.                             *)
(***************************************************************************)
EXTENDS AgentSpool, AgentIngest

vars == <<wireVars, spoolVars, ingestVars>>

Init == WireInit /\ SpoolInit /\ IngestInit

Agent(A) == UNCHANGED ingestVars /\ A
Hub(A)   == UNCHANGED spoolVars /\ A

Next == Agent(SpoolNext) \/ Hub(IngestNext)

Spec == Init /\ [][Next]_vars

(* Fairness.  Nothing is assumed but that the system does not stop while the agent
   has a step to take (its service manager restarts it) or the Hub a request to
   handle, and that from some time on nothing fails: no file operation, no crash,
   no restart, no refusal and no lost message, except for requests that the agent no
   longer waits for.  The collector may stop, and so may the clock. *)
Handle(r) == Serve(r) \/ (await # r /\ Unserved(r))
Works == Agent(SpoolStep) \/ Hub(\E r \in Reqs : Handle(r))
FairSpec ==
  /\ Spec
  /\ WF_vars(Works)
  /\ <>[][Works \/ Agent(Collect) \/ Hub(Tick \/ Cleanup)]_vars

----------------------------------------------------------------------------
TypeOK == WireTypeOK /\ SpoolTypeOK /\ IngestTypeOK

Stored == {s \in Samples : rows[s] > 0}

(* A sample becomes at most one metric row, however often it is sent: when an
   acknowledgement is lost, when the agent or the Hub restarts, when two
   requests with the same sample are in the Hub at once, and when Cleanup has
   deleted its receipt. *)
StoredOnce == TypeOK /\ \A s \in Samples : rows[s] <= 1

(* "A crash may over-count a loss, but may never silently erase an
   unacknowledged sample": every sample that reached the outbox is still there,
   or stored by the Hub, or among the losses in dropped.json. *)
Lost == {s \in captured : s \notin files /\ rows[s] = 0}
NoSilentLoss == Cardinality(Lost) <= onDisk

(* Queued samples are delivered or accounted for: again and again the outbox of the
   running agent is empty.  Neither a sample that the Hub rejects for its time, nor
   lost messages and crashes of the past keep it filled for ever. *)
Settles == []<>(up /\ entries = {})
============================================================================
