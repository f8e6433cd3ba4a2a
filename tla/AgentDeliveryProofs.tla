------------------------ MODULE AgentDeliveryProofs -------------------------
(* Proofs about AgentDelivery for any samples, requests, limits, clocks and windows
   such that receipts outlive the window. *)
EXTENDS AgentDelivery, FiniteSetTheorems, TLAPS

USE WindowNat, SpoolBounds, NoReceiptIsNoTime, ReceiptsOutliveWindow
    DEF wireVars, procVars, diskVars, spoolVars, ingestVars, TypeOK

(* The queue in memory names files that exist; the samples that the holder of the
   mutex is about to remove are in it; a dead process holds nothing. *)
QueueOnDisk ==
  /\ entries \subseteq files /\ batch \subseteq entries
  /\ step \notin {"dropping", "rejecting"} => batch = {}
  /\ ~up => entries = {} /\ step = "free"

(* A sample is durable before it is sent, and stored before it is acknowledged. *)
SentDurable ==
  /\ \A r \in Reqs :
       req[r].samples \cup req[r].valid \cup req[r].rejected \cup req[r].ack \subseteq captured
  /\ \A r \in Reqs : \A s \in req[r].ack : rows[s] > 0
  /\ \A s \in Samples : rows[s] > 0 => s \in captured

(* A sample with a receipt is stored and was not ahead of the Hub's clock; one that
   is stored has its receipt still, or is too old to be accepted again. *)
ReceiptsCover ==
  \A s \in Samples :
    /\ rows[s] <= 1
    /\ receipt[s] # NoReceipt => rows[s] > 0 /\ stime[s] <= receipt[s] + Future
    /\ rows[s] > 0 => receipt[s] # NoReceipt \/ stime[s] < now - Past

(* The losses, those about to happen included, are counted: in memory while the agent
   runs, and on disk at any time. *)
LossesCounted ==
  /\ up => dropped <= onDisk
  /\ Cardinality(Lost \cup batch) <= IF up THEN dropped ELSE onDisk

(* The inductive strengthening of StoredOnce and NoSilentLoss *)
DeliveryInv == TypeOK /\ QueueOnDisk /\ SentDurable /\ ReceiptsCover /\ LossesCounted

(* The losses are finitely many, and fewer samples to count are no larger number. *)
LEMMA LossesFinite ==
  ASSUME TypeOK
  PROVE  /\ IsFiniteSet(Lost \cup batch) /\ Cardinality(Lost \cup batch) \in Nat
         /\ \A S \in SUBSET (Lost \cup batch) :
              Cardinality(S) \in Nat /\ Cardinality(S) <= Cardinality(Lost \cup batch)
<1>1. IsFiniteSet(Lost \cup batch)
  BY SamplesFinite, FS_Subset DEF SpoolTypeOK, Lost
<1> QED BY <1>1, FS_Subset, FS_CardinalityType

(* An empty request, and a reply, are well-formed requests with just the fields given. *)
LEMMA RequestTypes ==
  /\ NoRequest \in Request
  /\ NoRequest.samples = {} /\ NoRequest.valid = {} /\ NoRequest.rejected = {} /\ NoRequest.ack = {}
  /\ \A ack, rejected \in SUBSET Samples :
       LET p == Reply(ack, rejected)
       IN p \in Request /\ p.samples = {} /\ p.valid = {} /\ p.rejected = rejected /\ p.ack = ack
BY Zenon DEF NoRequest, Request, ReqPCs, Reply

(* So are a request with a batch, and one past the checks of receive. *)
LEMMA BatchTypes ==
  ASSUME NEW B \in SUBSET Samples, NEW X \in SUBSET Samples
  PROVE  /\ LET q == [NoRequest EXCEPT !.pc = "sent", !.samples = B]
            IN q \in Request /\ q.samples = B /\ q.valid = {} /\ q.rejected = {} /\ q.ack = {}
         /\ LET q == [NoRequest EXCEPT !.pc = "admitted", !.valid = B, !.rejected = X]
            IN q \in Request /\ q.samples = {} /\ q.valid = B /\ q.rejected = X /\ q.ack = {}
BY Zenon DEF NoRequest, Request, ReqPCs

(* What is asked of the one request that a step changes, and the samples it names. *)
Fits(q) == q \in Request /\ (q.valid \cup q.ack) \cap q.rejected = {}
Mentions(q) == q.samples \cup q.valid \cup q.rejected \cup q.ack

(* The requests stay well-formed, name durable samples only and acknowledge stored
   ones only, if the one that changes does. *)
LEMMA RequestKept ==
  ASSUME TypeOK, SentDurable, NEW r \in Reqs, NEW q, Fits(q), req' = [req EXCEPT ![r] = q],
         Mentions(q) \subseteq captured', captured \subseteq captured',
         \A s \in Samples : rows'[s] = rows[s] \/ (rows'[s] = rows[s] + 1 /\ s \in captured'),
         \A s \in q.ack : rows'[s] > 0, UNCHANGED <<now, stime>>
  PROVE  WireTypeOK' /\ SentDurable'
<1>1. WireTypeOK'
  BY DEF WireTypeOK, Fits
<1>2. \A x \in Reqs : req'[x] = IF x = r THEN q ELSE req[x]
  BY DEF WireTypeOK
<1>3. \A s \in Samples : rows[s] \in Nat /\ rows'[s] \in Nat /\ (rows[s] > 0 => rows'[s] > 0)
  BY DEF IngestTypeOK
<1>4. \A x \in Reqs : req[x].ack \subseteq Samples
  BY DEF WireTypeOK, Request
<1>5. \A x \in Reqs : Mentions(req'[x]) \subseteq captured'
  BY <1>2 DEF SentDurable, Mentions
<1>6. \A x \in Reqs : \A s \in req'[x].ack : rows'[s] > 0
  BY <1>2, <1>3, <1>4 DEF SentDurable
<1>7. \A s \in Samples : rows'[s] > 0 => s \in captured'
  BY <1>3 DEF SentDurable
<1>8. SentDurable'
  BY <1>5, <1>6, <1>7 DEF SentDurable, Mentions
<1> QED BY <1>1, <1>8

(* What the agent has counted. *)
Tally == IF up THEN dropped ELSE onDisk

(* No more samples to count, and no smaller tally: the losses stay counted. *)
LEMMA LossesKept ==
  ASSUME TypeOK, LossesCounted, SpoolTypeOK', (Lost \cup batch)' \subseteq Lost \cup batch,
         Tally <= Tally', up' => dropped' <= onDisk'
  PROVE  LossesCounted'
<1>1. /\ Cardinality((Lost \cup batch)') \in Nat
      /\ Cardinality((Lost \cup batch)') <= Cardinality(Lost \cup batch)
  BY LossesFinite
<1>2. Cardinality(Lost \cup batch) \in Nat /\ Cardinality(Lost \cup batch) <= Tally
  BY LossesFinite DEF LossesCounted, Tally
<1>3. Tally \in Nat /\ Tally' \in Nat
  BY DEF Tally, SpoolTypeOK
<1>4. Cardinality((Lost \cup batch)') <= Tally'
  BY <1>1, <1>2, <1>3
<1> QED BY <1>4 DEF LossesCounted, Tally

(* Some more samples to count, with the tally raised by as many. *)
LEMMA LossesAdded ==
  ASSUME TypeOK, LossesCounted, up, UNCHANGED up, NEW S \in SUBSET Samples,
         (Lost \cup batch)' \subseteq (Lost \cup batch) \cup S,
         dropped' = dropped + Cardinality(S), dropped' <= onDisk'
  PROVE  LossesCounted'
<1> DEFINE L == Lost \cup batch
           M == (Lost \cup batch)'
<1>1. IsFiniteSet(S) /\ IsFiniteSet(L)
  BY SamplesFinite, FS_Subset, LossesFinite
<1>2. Cardinality(L) \in Nat /\ Cardinality(L) <= dropped
  BY LossesFinite DEF LossesCounted
<1> HIDE DEF L, M
<1>3. /\ IsFiniteSet(L \cup S) /\ Cardinality(L \cup S) \in Nat /\ Cardinality(S) \in Nat
      /\ Cardinality(L \cup S) <= Cardinality(L) + Cardinality(S)
  <2>1. IsFiniteSet(L \cup S) /\ IsFiniteSet(L \cap S)
    BY Zenon, <1>1, FS_Union, FS_Subset
  <2>2. /\ Cardinality(L \cup S) \in Nat /\ Cardinality(S) \in Nat /\ Cardinality(L \cap S) \in Nat
    BY <1>1, <2>1, FS_CardinalityType
  <2>3. Cardinality(L \cup S) = Cardinality(L) + Cardinality(S) - Cardinality(L \cap S)
    BY <1>1, FS_Union
  <2> QED BY <1>2, <2>1, <2>2, <2>3
<1>4. M \subseteq L \cup S
  BY DEF L, M
<1>5. Cardinality(M) \in Nat /\ Cardinality(M) <= Cardinality(L \cup S)
  BY <1>3, <1>4, FS_Subset, FS_CardinalityType
<1>6. dropped \in Nat
  BY DEF SpoolTypeOK
<1>7. Cardinality(M) <= dropped'
  BY <1>2, <1>3, <1>5, <1>6
<1> QED BY <1>7 DEF LossesCounted, M

(* How many of the samples in the queue are rejected is a number. *)
LEMMA RejectedFinite ==
  ASSUME TypeOK PROVE Cardinality(todo \cap entries) \in Nat
BY SamplesFinite, FS_Subset, FS_CardinalityType DEF SpoolTypeOK

(* At the start nothing is queued, sent, stored or lost. *)
LEMMA DeliveryInit == Init => DeliveryInv
<1> SUFFICES ASSUME Init PROVE DeliveryInv
  OBVIOUS
<1> USE DEF Init, WireInit, SpoolInit, IngestInit
<1>1. WireTypeOK /\ IngestTypeOK
  BY RequestTypes DEF WireTypeOK, IngestTypeOK
<1>2. SpoolTypeOK
  <2>1. up \in BOOLEAN
    BY Zenon
  <2> QED BY <2>1 DEF SpoolTypeOK, Steps, Jobs
<1>3. QueueOnDisk /\ ReceiptsCover
  BY DEF QueueOnDisk, ReceiptsCover
<1>4. SentDurable
  BY RequestTypes DEF SentDurable
<1>5. Lost \cup batch = {}
  BY DEF Lost
<1>6. LossesCounted
  BY <1>5, FS_EmptySet DEF LossesCounted
<1> QED BY <1>1, <1>2, <1>3, <1>4, <1>6 DEF DeliveryInv
(* A step of the Hub leaves the agent's state alone, and makes no row disappear. *)
LEMMA HubKept ==
  ASSUME DeliveryInv, UNCHANGED spoolVars, WireTypeOK', IngestTypeOK', SentDurable', ReceiptsCover',
         \A s \in Samples : rows'[s] = 0 => rows[s] = 0
  PROVE  DeliveryInv'
<1>1. SpoolTypeOK' /\ QueueOnDisk'
  BY DEF DeliveryInv, SpoolTypeOK, QueueOnDisk
<1>2. (Lost \cup batch)' \subseteq Lost \cup batch
  BY DEF DeliveryInv, SpoolTypeOK, Lost
<1>3. dropped \in Nat /\ onDisk \in Nat /\ (up' => dropped' <= onDisk')
  BY DEF DeliveryInv, SpoolTypeOK, LossesCounted
<1>4. Tally <= Tally'
  BY <1>3 DEF Tally
<1>5. LossesCounted'
  BY <1>1, <1>2, <1>3, <1>4, LossesKept DEF DeliveryInv
<1> QED BY <1>1, <1>5 DEF DeliveryInv

(* As long as no row is written, only the request that changes matters. *)
LEMMA HubReplies ==
  ASSUME DeliveryInv, UNCHANGED spoolVars, UNCHANGED <<now, stime, ingestVars>>,
         WireTypeOK', SentDurable'
  PROVE  DeliveryInv'
<1>1. IngestTypeOK' /\ ReceiptsCover' /\ \A s \in Samples : rows'[s] = 0 => rows[s] = 0
  BY DEF DeliveryInv, IngestTypeOK, ReceiptsCover
<1> QED BY <1>1, HubKept

(* Every step of the Hub keeps the invariant. *)
LEMMA HubStep == DeliveryInv /\ Hub(IngestNext) => DeliveryInv'
<1> SUFFICES ASSUME DeliveryInv, IngestNext, UNCHANGED spoolVars PROVE DeliveryInv'
  BY DEF Hub
<1>0. TypeOK /\ QueueOnDisk /\ SentDurable /\ ReceiptsCover
  BY DEF DeliveryInv
<1>1. ASSUME Tick PROVE DeliveryInv'
  <2>1. WireTypeOK' /\ IngestTypeOK'
    BY <1>1, <1>0 DEF WireTypeOK, IngestTypeOK, Tick
  <2>2. SentDurable' /\ UNCHANGED rows
    BY <1>1, <1>0 DEF SentDurable, Tick
  <2>3. ReceiptsCover'
    <3> SUFFICES ASSUME NEW s \in Samples
                 PROVE  /\ rows'[s] <= 1
                        /\ receipt'[s] # NoReceipt => rows'[s] > 0 /\ stime'[s] <= receipt'[s] + Future
                        /\ rows'[s] > 0 => receipt'[s] # NoReceipt \/ stime'[s] < now' - Past
      BY DEF ReceiptsCover
    <3>1. /\ now \in Nat /\ stime[s] \in Nat /\ rows[s] \in Nat
          /\ receipt[s] # NoReceipt => receipt[s] \in Nat
      BY <1>0 DEF WireTypeOK, IngestTypeOK
    <3>2. now' = now + 1 /\ UNCHANGED <<stime, receipt, rows>>
      BY <1>1 DEF Tick
    <3> QED BY <1>0, <3>1, <3>2 DEF ReceiptsCover
  <2> QED BY <2>1, <2>2, <2>3, HubKept
<1>2. ASSUME Cleanup PROVE DeliveryInv'
  <2>1. WireTypeOK' /\ IngestTypeOK'
    BY Zenon, <1>2, <1>0 DEF WireTypeOK, IngestTypeOK, Cleanup
  <2>2. SentDurable' /\ UNCHANGED rows
    BY <1>2, <1>0 DEF SentDurable, Cleanup
  <2>3. ReceiptsCover'
    <3> SUFFICES ASSUME NEW s \in Samples
                 PROVE  /\ rows'[s] <= 1
                        /\ receipt'[s] # NoReceipt => rows'[s] > 0 /\ stime'[s] <= receipt'[s] + Future
                        /\ rows'[s] > 0 => receipt'[s] # NoReceipt \/ stime'[s] < now' - Past
      BY DEF ReceiptsCover
    <3>1. /\ now \in Nat /\ stime[s] \in Nat /\ rows[s] \in Nat
          /\ receipt[s] # NoReceipt => receipt[s] \in Nat
      BY <1>0 DEF WireTypeOK, IngestTypeOK
    <3>2. /\ UNCHANGED <<now, stime, rows>>
          /\ receipt'[s] = IF receipt[s] # NoReceipt /\ receipt[s] < now - Retention
                             THEN NoReceipt ELSE receipt[s]
      BY <1>2 DEF Cleanup
    <3> QED BY <1>0, <3>1, <3>2 DEF ReceiptsCover
  <2> QED BY <2>1, <2>2, <2>3, HubKept
<1>3. ASSUME NEW r \in Reqs, Receive(r) PROVE DeliveryInv'
  <2>1. WireTypeOK' /\ SentDurable'
    <3> DEFINE valid == {s \in req[r].samples : Valid(s, now)}
               q == IF valid = {} THEN Reply({}, req[r].samples)
                    ELSE [NoRequest EXCEPT !.pc = "admitted", !.valid = valid,
                                           !.rejected = req[r].samples \ valid]
    <3>1. req' = [req EXCEPT ![r] = q] /\ UNCHANGED <<now, stime, rows, captured>>
      BY <1>3 DEF Receive
    <3>2. req[r].samples \in SUBSET Samples /\ req[r].samples \subseteq captured
      BY <1>0 DEF WireTypeOK, Request, SentDurable
    <3>3. valid \in SUBSET req[r].samples
      OBVIOUS
    <3> HIDE DEF valid
    <3>4. CASE valid = {}
      <4>1. Fits(q) /\ Mentions(q) = req[r].samples /\ q.ack = {}
        BY Zenon, <3>2, <3>4 DEF Fits, Mentions, Reply, NoRequest, Request, ReqPCs
      <4> HIDE DEF q
      <4> QED BY Zenon, <1>0, <3>1, <3>2, <4>1, RequestKept
    <3>5. CASE valid # {}
      <4>1. Fits(q) /\ Mentions(q) \subseteq req[r].samples /\ q.ack = {}
        BY Zenon, <3>2, <3>3, <3>5 DEF Fits, Mentions, Reply, NoRequest, Request, ReqPCs
      <4> HIDE DEF q
      <4> QED BY Zenon, <1>0, <3>1, <3>2, <4>1, RequestKept
    <3> QED BY <3>4, <3>5
  <2>2. UNCHANGED <<now, stime, ingestVars>>
    BY <1>3 DEF Receive
  <2> QED BY <2>1, <2>2, HubReplies
<1>4. ASSUME NEW r \in Reqs, NEW answered \in BOOLEAN, Ingest(r, answered) PROVE DeliveryInv'
  <2>1. WireTypeOK' /\ SentDurable'
    <3> DEFINE q == Reply(IF answered THEN req[r].valid ELSE {}, req[r].rejected)
    <3>1. req' = [req EXCEPT ![r] = q] /\ UNCHANGED <<now, stime, captured>>
      BY Zenon, <1>4 DEF Ingest
    <3>2. /\ req[r].valid \in SUBSET Samples /\ req[r].rejected \in SUBSET Samples
          /\ req[r].valid \cap req[r].rejected = {}
      BY <1>0 DEF WireTypeOK, Request
    <3>3. /\ Fits(q) /\ Mentions(q) \subseteq req[r].valid \cup req[r].rejected
          /\ q.ack \subseteq req[r].valid
      BY Zenon, <3>2 DEF Fits, Mentions, Reply, NoRequest, Request, ReqPCs
    <3>4. \A s \in Samples : rows'[s] = IF s \in New(req[r].valid) THEN rows[s] + 1 ELSE rows[s]
      BY Zenon, <1>4 DEF Ingest
    <3>5. req[r].valid \cup req[r].rejected \subseteq captured
      BY <1>0 DEF SentDurable
    <3>6. \A s \in Samples : rows'[s] = rows[s] \/ (rows'[s] = rows[s] + 1 /\ s \in captured')
      BY <3>1, <3>4, <3>5 DEF New
    <3>7. \A s \in req[r].valid : rows'[s] > 0
      BY <1>0, <3>2, <3>4 DEF New, ReceiptsCover, IngestTypeOK
    <3> HIDE DEF q
    <3> QED BY Zenon, <1>0, <3>1, <3>3, <3>5, <3>6, <3>7, RequestKept
  <2>2. IngestTypeOK'
    <3>1. \A s \in Samples : rows[s] + 1 \in Nat /\ now \in 0..MaxNow \cup {NoReceipt}
      BY <1>0 DEF IngestTypeOK, WireTypeOK
    <3> QED BY Zenon, <1>4, <1>0, <3>1 DEF IngestTypeOK, Ingest
  <2>3. ReceiptsCover'
    <3> SUFFICES ASSUME NEW s \in Samples
                 PROVE  /\ rows'[s] <= 1
                        /\ receipt'[s] # NoReceipt => rows'[s] > 0 /\ stime'[s] <= receipt'[s] + Future
                        /\ rows'[s] > 0 => receipt'[s] # NoReceipt \/ stime'[s] < now' - Past
      BY Zenon DEF ReceiptsCover
    <3>1. /\ now \in Nat /\ stime[s] \in Nat /\ rows[s] \in Nat
          /\ receipt[s] # NoReceipt => receipt[s] \in Nat
      BY <1>0 DEF WireTypeOK, IngestTypeOK
    <3>2. /\ UNCHANGED <<now, stime>>
          /\ rows'[s] = IF s \in New(req[r].valid) THEN rows[s] + 1 ELSE rows[s]
          /\ receipt'[s] = IF s \in New(req[r].valid) THEN now ELSE receipt[s]
          /\ s \in req[r].valid => Valid(s, now)
      BY Zenon, <1>4 DEF Ingest
    <3>3. CASE s \in New(req[r].valid)
      <4>1. receipt[s] = NoReceipt /\ stime[s] >= now - Past /\ stime[s] <= now + Future
        BY Zenon, <3>2, <3>3 DEF New, Valid
      <4>2. rows[s] = 0
        BY <1>0, <3>1, <4>1 DEF ReceiptsCover
      <4> QED BY <3>1, <3>2, <3>3, <4>1, <4>2
    <3>4. CASE s \notin New(req[r].valid)
      BY Zenon, <1>0, <3>2, <3>4 DEF ReceiptsCover
    <3> QED BY Zenon, <3>3, <3>4
  <2>4. \A s \in Samples : rows'[s] = 0 => rows[s] = 0
    <3>1. \A s \in Samples : rows'[s] \in {rows[s], rows[s] + 1}
      BY Zenon, <1>4 DEF Ingest
    <3>2. \A s \in Samples : rows[s] \in Nat
      BY <1>0 DEF IngestTypeOK
    <3> QED BY <3>1, <3>2
  <2> QED BY Zenon, <2>1, <2>2, <2>3, <2>4, HubKept
<1>5. ASSUME NEW r \in Reqs, RefuseRequest(r) \/ IngestFails(r) \/ Unserved(r) PROVE DeliveryInv'
  <2>1. WireTypeOK' /\ SentDurable'
    <3>1. UNCHANGED <<now, stime, rows, captured>>
      BY Zenon, <1>5 DEF RefuseRequest, IngestFails, Unserved
    <3>2. req[r].rejected \in SUBSET Samples /\ req[r].rejected \subseteq captured
      BY <1>0 DEF WireTypeOK, Request, SentDurable
    <3>3. PICK q \in {Reply({}, {}), Reply({}, req[r].rejected), NoRequest} :
            req' = [req EXCEPT ![r] = q]
      BY Zenon, <1>5 DEF RefuseRequest, IngestFails, Unserved, Lose
    <3>4. Fits(q) /\ Mentions(q) \subseteq req[r].rejected /\ q.ack = {}
      <4>1. CASE q = Reply({}, {})
        BY Zenon, <4>1 DEF Fits, Mentions, Reply, NoRequest, Request, ReqPCs
      <4>2. CASE q = Reply({}, req[r].rejected)
        BY Zenon, <3>2, <4>2 DEF Fits, Mentions, Reply, NoRequest, Request, ReqPCs
      <4>3. CASE q = NoRequest
        BY Zenon, <4>3 DEF Fits, Mentions, NoRequest, Request, ReqPCs
      <4> QED BY Zenon, <3>3, <4>1, <4>2, <4>3
    <3> QED BY Zenon, <1>0, <3>1, <3>2, <3>3, <3>4, RequestKept
  <2>2. UNCHANGED <<now, stime, ingestVars>>
    BY Zenon, <1>5 DEF RefuseRequest, IngestFails, Unserved
  <2> QED BY <2>1, <2>2, HubReplies
<1>6. ASSUME HubRestart PROVE DeliveryInv'
  <2>1. WireTypeOK' /\ SentDurable'
    <3>1. /\ UNCHANGED <<now, stime, rows, captured>>
          /\ req' = [r \in Reqs |-> IF req[r].pc \in {"sent", "admitted"} THEN NoRequest ELSE req[r]]
      BY <1>6 DEF HubRestart
    <3>2. WireTypeOK'
      BY Zenon, <1>0, <3>1, RequestTypes DEF WireTypeOK
    <3>3. SentDurable'
      BY Zenon, <1>0, <3>1, RequestTypes DEF SentDurable
    <3> QED BY <3>2, <3>3
  <2>2. UNCHANGED <<now, stime, ingestVars>>
    BY <1>6 DEF HubRestart
  <2> QED BY <2>1, <2>2, HubReplies
<1> QED BY Zenon, <1>1, <1>2, <1>3, <1>4, <1>5, <1>6 DEF IngestNext, Serve, IngestFault

(* What a step that counts a loss has to show for: the Hub's state is untouched. *)
LEMMA HubUntouched ==
  ASSUME DeliveryInv, SpoolTypeOK', QueueOnDisk', LossesCounted', captured \subseteq captured',
         UNCHANGED <<now, stime, req, receipt, rows>>
  PROVE  DeliveryInv'
<1>1. WireTypeOK' /\ IngestTypeOK'
  BY DEF DeliveryInv, WireTypeOK, IngestTypeOK
<1>2. SentDurable'
  BY DEF DeliveryInv, SentDurable
<1>3. ReceiptsCover'
  BY DEF DeliveryInv, ReceiptsCover
<1> QED BY <1>1, <1>2, <1>3 DEF DeliveryInv

(* A step of the agent that leaves the requests alone, and loses nothing it has not
   counted yet. *)
LEMMA AgentKept ==
  ASSUME DeliveryInv, SpoolTypeOK', QueueOnDisk', UNCHANGED <<wireVars, ingestVars>>,
         captured \subseteq captured', (Lost \cup batch)' \subseteq Lost \cup batch,
         Tally <= Tally', up' => dropped' <= onDisk'
  PROVE  DeliveryInv'
<1>1. LossesCounted'
  BY LossesKept DEF DeliveryInv
<1> QED BY <1>1, HubUntouched

(* A step of the agent that sends a request or takes a reply, and loses nothing. *)
LEMMA AgentAsks ==
  ASSUME DeliveryInv, WireTypeOK', SentDurable', SpoolTypeOK', QueueOnDisk',
         UNCHANGED <<now, stime, ingestVars>>, UNCHANGED <<up, dropped, onDisk>>,
         (Lost \cup batch)' \subseteq Lost \cup batch
  PROVE  DeliveryInv'
<1>1. IngestTypeOK' /\ ReceiptsCover'
  BY DEF DeliveryInv, IngestTypeOK, ReceiptsCover
<1>2. dropped \in Nat /\ onDisk \in Nat /\ (up' => dropped' <= onDisk')
  BY DEF DeliveryInv, SpoolTypeOK, LossesCounted
<1>3. Tally <= Tally'
  BY <1>2 DEF Tally
<1>4. LossesCounted'
  BY <1>2, <1>3, LossesKept DEF DeliveryInv
<1> QED BY <1>1, <1>4 DEF DeliveryInv

(* Every step of the agent keeps the invariant. *)
LEMMA AgentStep == DeliveryInv /\ Agent(SpoolNext) => DeliveryInv'
<1> SUFFICES ASSUME DeliveryInv, SpoolNext, UNCHANGED ingestVars PROVE DeliveryInv'
  BY DEF Agent
<1>0. TypeOK /\ QueueOnDisk /\ SentDurable /\ ReceiptsCover /\ LossesCounted
  BY DEF DeliveryInv
<1>1. ASSUME Restart PROVE DeliveryInv'
  <2>1. SpoolTypeOK'
    <3>1. up' \in BOOLEAN
      BY Zenon, <1>1 DEF Restart
    <3> QED BY <1>1, <1>0, <3>1 DEF SpoolTypeOK, Steps, Jobs, Restart
  <2>2. QueueOnDisk'
    BY <1>1, <1>0, <2>1 DEF QueueOnDisk, Restart
  <2>3. /\ UNCHANGED <<wireVars, ingestVars>> /\ captured \subseteq captured'
        /\ (Lost \cup batch)' \subseteq Lost \cup batch
    BY <1>1, <1>0 DEF QueueOnDisk, SpoolTypeOK, Lost, Restart
  <2>4. Tally <= Tally' /\ (up' => dropped' <= onDisk')
    BY <1>1, <1>0 DEF Tally, LossesCounted, QueueOnDisk, SpoolTypeOK, Restart
  <2> QED BY <2>1, <2>2, <2>3, <2>4, AgentKept
<1>2. ASSUME NEW back, NEW gone, Crash(back, gone) PROVE DeliveryInv'
  <2>1. SpoolTypeOK'
    <3>1. up' \in BOOLEAN
      BY Zenon, <1>2 DEF Crash
    <3> QED BY <1>2, <1>0, <3>1 DEF SpoolTypeOK, Steps, Jobs, Crash
  <2>2. QueueOnDisk'
    BY <1>2, <1>0, <2>1 DEF QueueOnDisk, Crash
  <2>3. /\ UNCHANGED <<wireVars, ingestVars>> /\ captured \subseteq captured'
        /\ (Lost \cup batch)' \subseteq Lost \cup batch
    BY <1>2, <1>0 DEF QueueOnDisk, SpoolTypeOK, Lost, Crash
  <2>4. Tally <= Tally' /\ (up' => dropped' <= onDisk')
    BY <1>2, <1>0 DEF Tally, LossesCounted, QueueOnDisk, SpoolTypeOK, Crash
  <2> QED BY <2>1, <2>2, <2>3, <2>4, AgentKept
<1>3. ASSUME NEW s \in Samples, NEW t \in 0..MaxNow, Add(s, t) PROVE DeliveryInv'
  <2>0. /\ s \notin captured /\ rows[s] = 0 /\ captured \subseteq captured'
        /\ stime' = [stime EXCEPT ![s] = t] /\ UNCHANGED <<now, req, receipt, rows>>
    BY <1>3, <1>0 DEF Add, NewID, DirSynced, SentDurable, IngestTypeOK
  <2>1. WireTypeOK' /\ IngestTypeOK'
    BY <1>3, <1>0, <2>0 DEF WireTypeOK, IngestTypeOK
  <2>2. SpoolTypeOK'
    BY <1>3, <1>0 DEF SpoolTypeOK, Steps, Jobs, Add, NewID, DirSynced
  <2>3. QueueOnDisk'
    BY <1>3, <1>0, <2>2 DEF QueueOnDisk, Add, NewID, DirSynced
  <2>4. SentDurable'
    BY <1>0, <2>0 DEF SentDurable
  <2>5. ReceiptsCover'
    <3>1. \A x \in Samples : stime'[x] = IF x = s THEN t ELSE stime[x]
      BY <1>0, <2>0 DEF WireTypeOK
    <3> QED BY <1>0, <2>0, <3>1 DEF ReceiptsCover
  <2>6. LossesCounted'
    <3>1. (Lost \cup batch)' \subseteq Lost \cup batch
      BY <1>3, <1>0, <2>0 DEF Lost, SpoolTypeOK, Add, NewID, DirSynced
    <3>2. UNCHANGED <<up, dropped, onDisk>> /\ dropped \in Nat /\ onDisk \in Nat
      BY <1>3, <1>0 DEF SpoolTypeOK, Add, NewID, DirSynced
    <3>3. Tally <= Tally' /\ (up' => dropped' <= onDisk')
      BY <1>0, <3>2 DEF Tally, LossesCounted
    <3> QED BY <1>0, <2>2, <3>1, <3>3, LossesKept
  <2> QED BY <2>1, <2>2, <2>3, <2>4, <2>5, <2>6 DEF DeliveryInv
<1>4. ASSUME NEW s \in Samples, NEW t \in 0..MaxNow, AddUnsynced(s, t) PROVE DeliveryInv'
  <2>0. /\ s \notin captured /\ rows[s] = 0 /\ captured \subseteq captured'
        /\ stime' = [stime EXCEPT ![s] = t] /\ UNCHANGED <<now, req, receipt, rows>>
    BY <1>4, <1>0 DEF AddUnsynced, NewID, SentDurable, IngestTypeOK
  <2>1. WireTypeOK' /\ IngestTypeOK'
    BY <1>4, <1>0, <2>0 DEF WireTypeOK, IngestTypeOK
  <2>2. SpoolTypeOK'
    BY <1>4, <1>0 DEF SpoolTypeOK, Steps, Jobs, AddUnsynced, NewID
  <2>3. QueueOnDisk'
    BY <1>4, <1>0, <2>2 DEF QueueOnDisk, AddUnsynced, NewID
  <2>4. SentDurable'
    BY <1>0, <2>0 DEF SentDurable
  <2>5. ReceiptsCover'
    <3>1. \A x \in Samples : stime'[x] = IF x = s THEN t ELSE stime[x]
      BY <1>0, <2>0 DEF WireTypeOK
    <3> QED BY <1>0, <2>0, <3>1 DEF ReceiptsCover
  <2>6. LossesCounted'
    <3>1. (Lost \cup batch)' \subseteq Lost \cup batch
      BY <1>4, <1>0, <2>0 DEF Lost, SpoolTypeOK, AddUnsynced, NewID
    <3>2. UNCHANGED <<up, dropped, onDisk>> /\ dropped \in Nat /\ onDisk \in Nat
      BY <1>4, <1>0 DEF SpoolTypeOK, AddUnsynced, NewID
    <3>3. Tally <= Tally' /\ (up' => dropped' <= onDisk')
      BY <1>0, <3>2 DEF Tally, LossesCounted
    <3> QED BY <1>0, <2>2, <3>1, <3>3, LossesKept
  <2> QED BY <2>1, <2>2, <2>3, <2>4, <2>5, <2>6 DEF DeliveryInv
<1>5. ASSUME NEW s \in Samples, RecordLoss(s) PROVE DeliveryInv'
  <2>1. /\ UNCHANGED <<now, stime, req, receipt, rows>> /\ captured \subseteq captured'
        /\ (Lost \cup batch)' \subseteq (Lost \cup batch) \cup {s}
    BY <1>5, <1>0 DEF RecordLoss, DirSynced, Lost, SpoolTypeOK
  <2>2. SpoolTypeOK'
    BY <1>5, <1>0 DEF SpoolTypeOK, Steps, Jobs, RecordLoss, DirSynced
  <2>3. QueueOnDisk'
    BY <1>5, <1>0, <2>2 DEF QueueOnDisk, RecordLoss, Oldest
  <2>4. LossesCounted'
    <3>1. up /\ UNCHANGED up /\ dropped' = dropped + 1 /\ dropped' <= onDisk'
      BY <1>5, <1>0, <2>2 DEF RecordLoss, QueueOnDisk, SpoolTypeOK
    <3>2. Cardinality({s}) = 1
      BY Zenon, FS_Singleton
    <3> QED BY <1>0, <2>1, <3>1, <3>2, LossesAdded
  <2> QED BY <2>1, <2>2, <2>3, <2>4, HubUntouched
<1>6. ASSUME RecordLossFails PROVE DeliveryInv'
  <2>1. SpoolTypeOK'
    BY <1>6, <1>0 DEF SpoolTypeOK, Steps, Jobs, RecordLossFails
  <2>2. QueueOnDisk'
    BY <1>6, <1>0, <2>1 DEF QueueOnDisk, RecordLossFails
  <2>3. /\ UNCHANGED <<wireVars, ingestVars>> /\ captured \subseteq captured'
        /\ (Lost \cup batch)' \subseteq Lost \cup batch
    BY <1>6, <1>0 DEF QueueOnDisk, SpoolTypeOK, Lost, RecordLossFails
  <2>4. Tally <= Tally' /\ (up' => dropped' <= onDisk')
    BY <1>6, <1>0 DEF Tally, LossesCounted, QueueOnDisk, SpoolTypeOK, RecordLossFails
  <2> QED BY <2>1, <2>2, <2>3, <2>4, AgentKept
<1>7. ASSUME DropOldest PROVE DeliveryInv'
  <2>1. SpoolTypeOK'
    BY <1>7, <1>0 DEF SpoolTypeOK, Steps, Jobs, DropOldest
  <2>2. QueueOnDisk'
    BY <1>7, <1>0, <2>1 DEF QueueOnDisk, DropOldest
  <2>3. /\ UNCHANGED <<wireVars, ingestVars>> /\ captured \subseteq captured'
        /\ (Lost \cup batch)' \subseteq Lost \cup batch
    BY <1>7, <1>0 DEF QueueOnDisk, SpoolTypeOK, Lost, DropOldest
  <2>4. Tally <= Tally' /\ (up' => dropped' <= onDisk')
    BY <1>7, <1>0 DEF Tally, LossesCounted, QueueOnDisk, SpoolTypeOK, DropOldest
  <2> QED BY <2>1, <2>2, <2>3, <2>4, AgentKept
<1>8. ASSUME DropOldestFails PROVE DeliveryInv'
  <2>1. SpoolTypeOK'
    BY <1>8, <1>0 DEF SpoolTypeOK, Steps, Jobs, DropOldestFails
  <2>2. QueueOnDisk'
    BY <1>8, <1>0, <2>1 DEF QueueOnDisk, DropOldestFails
  <2>3. /\ UNCHANGED <<wireVars, ingestVars>> /\ captured \subseteq captured'
        /\ (Lost \cup batch)' \subseteq Lost \cup batch
    BY <1>8, <1>0 DEF QueueOnDisk, SpoolTypeOK, Lost, DropOldestFails
  <2>4. Tally <= Tally' /\ (up' => dropped' <= onDisk')
    BY <1>8, <1>0 DEF Tally, LossesCounted, QueueOnDisk, SpoolTypeOK, DropOldestFails
  <2> QED BY <2>1, <2>2, <2>3, <2>4, AgentKept
<1>9. ASSUME NEW synced \in BOOLEAN, PruneEnds(synced) \/ SendNothing(synced) PROVE DeliveryInv'
  <2>1. SpoolTypeOK'
    BY <1>9, <1>0 DEF SpoolTypeOK, Steps, Jobs, PruneEnds, SendNothing, SyncDirectory, DirSynced
  <2>2. QueueOnDisk'
    BY <1>9, <1>0, <2>1 DEF QueueOnDisk, PruneEnds, SendNothing, SyncDirectory, DirSynced
  <2>3. /\ UNCHANGED <<wireVars, ingestVars>> /\ captured \subseteq captured'
        /\ (Lost \cup batch)' \subseteq Lost \cup batch
    BY <1>9, <1>0 DEF QueueOnDisk, SpoolTypeOK, Lost, PruneEnds, SendNothing, SyncDirectory,
        DirSynced
  <2>4. Tally <= Tally' /\ (up' => dropped' <= onDisk')
    BY <1>9, <1>0 DEF Tally, LossesCounted, QueueOnDisk, SpoolTypeOK, PruneEnds, SendNothing,
        SyncDirectory, DirSynced
  <2> QED BY <2>1, <2>2, <2>3, <2>4, AgentKept
<1>10. ASSUME StartBatch \/ AbandonRequest PROVE DeliveryInv'
  <2>1. SpoolTypeOK'
    BY <1>10, <1>0 DEF SpoolTypeOK, Steps, Jobs, StartBatch, AbandonRequest
  <2>2. QueueOnDisk'
    BY <1>10, <1>0, <2>1 DEF QueueOnDisk, StartBatch, AbandonRequest
  <2>3. /\ UNCHANGED <<wireVars, ingestVars>> /\ captured \subseteq captured'
        /\ (Lost \cup batch)' \subseteq Lost \cup batch
    BY <1>10, <1>0 DEF QueueOnDisk, SpoolTypeOK, Lost, StartBatch, AbandonRequest
  <2>4. Tally <= Tally' /\ (up' => dropped' <= onDisk')
    BY <1>10, <1>0 DEF Tally, LossesCounted, QueueOnDisk, SpoolTypeOK, StartBatch,
        AbandonRequest
  <2> QED BY <2>1, <2>2, <2>3, <2>4, AgentKept
<1>11. ASSUME NEW r \in Reqs, NEW B \in SUBSET Samples, SendBatch(r, B) PROVE DeliveryInv'
  <2>1. WireTypeOK' /\ SentDurable'
    <3> DEFINE q == [NoRequest EXCEPT !.pc = "sent", !.samples = B]
    <3>1. q \in Request /\ Mentions(q) = B /\ q.valid = {} /\ q.rejected = {} /\ q.ack = {}
      BY Zenon, BatchTypes DEF Mentions
    <3>2. B \subseteq captured' /\ captured \subseteq captured'
      BY <1>11, <1>0 DEF SendBatch, IsBatch, DirSynced, QueueOnDisk
    <3>3. req' = [req EXCEPT ![r] = q] /\ UNCHANGED <<now, stime, rows>>
      BY <1>11 DEF SendBatch
    <3> HIDE DEF q
    <3> QED BY Zenon, <1>0, <3>1, <3>2, <3>3, RequestKept DEF Fits
  <2>2. SpoolTypeOK'
    BY <1>11, <1>0 DEF SpoolTypeOK, Steps, Jobs, SendBatch, DirSynced
  <2>3. QueueOnDisk'
    BY <1>11, <1>0, <2>2 DEF QueueOnDisk, SendBatch
  <2>4. UNCHANGED <<now, stime, ingestVars>> /\ (Lost \cup batch)' \subseteq Lost \cup batch
    BY <1>11, <1>0 DEF SendBatch, DirSynced, Lost, SpoolTypeOK
  <2>5. UNCHANGED <<up, dropped, onDisk>>
    BY <1>11 DEF SendBatch
  <2> QED BY <2>1, <2>2, <2>3, <2>4, <2>5, AgentAsks
<1>12. ASSUME NEW gone, TakeReply(gone) PROVE DeliveryInv'
  <2>0. await \in Reqs
    BY <1>12, <1>0 DEF TakeReply, SpoolTypeOK
  <2>1. WireTypeOK' /\ SentDurable'
    <3>1. req' = [req EXCEPT ![await] = NoRequest] /\ UNCHANGED <<now, stime, rows, captured>>
      BY <1>12 DEF TakeReply
    <3>2. Fits(NoRequest) /\ Mentions(NoRequest) = {} /\ NoRequest.ack = {}
      BY RequestTypes DEF Fits, Mentions
    <3> QED BY Zenon, <1>0, <2>0, <3>1, <3>2, RequestKept
  <2>2. SpoolTypeOK'
    <3>1. req[await].rejected \in SUBSET Samples
      BY <1>0, <2>0 DEF WireTypeOK, Request
    <3> QED BY <1>12, <1>0, <3>1 DEF SpoolTypeOK, Steps, Jobs, TakeReply
  <2>3. QueueOnDisk'
    BY <1>12, <1>0, <2>2 DEF QueueOnDisk, TakeReply
  <2>4. UNCHANGED <<now, stime, ingestVars>> /\ (Lost \cup batch)' \subseteq Lost \cup batch
    <3>1. \A s \in gone : rows[s] > 0 /\ rows[s] \in Nat
      BY Zenon, <1>12, <1>0, <2>0 DEF TakeReply, SentDurable, SpoolTypeOK, IngestTypeOK
    <3>2. files' = files \ gone /\ UNCHANGED <<now, stime, captured, batch, rows>>
      BY Zenon, <1>12 DEF TakeReply
    <3> QED BY <3>1, <3>2 DEF Lost
  <2>5. UNCHANGED <<up, dropped, onDisk>>
    BY <1>12 DEF TakeReply
  <2> QED BY <2>1, <2>2, <2>3, <2>4, <2>5, AgentAsks
<1>13. ASSUME NEW synced \in BOOLEAN, SyncRemovals(synced) PROVE DeliveryInv'
  <2>1. SpoolTypeOK'
    BY <1>13, <1>0 DEF SpoolTypeOK, Steps, Jobs, SyncRemovals, SyncDirectory, DirSynced
  <2>2. QueueOnDisk'
    BY <1>13, <1>0, <2>1 DEF QueueOnDisk, SyncRemovals, SyncDirectory, DirSynced
  <2>3. /\ UNCHANGED <<wireVars, ingestVars>> /\ captured \subseteq captured'
        /\ (Lost \cup batch)' \subseteq Lost \cup batch
    BY <1>13, <1>0 DEF QueueOnDisk, SpoolTypeOK, Lost, SyncRemovals, SyncDirectory, DirSynced
  <2>4. Tally <= Tally' /\ (up' => dropped' <= onDisk')
    BY <1>13, <1>0 DEF Tally, LossesCounted, QueueOnDisk, SpoolTypeOK, SyncRemovals,
        SyncDirectory, DirSynced
  <2> QED BY <2>1, <2>2, <2>3, <2>4, AgentKept
<1>14. ASSUME RecordRejected PROVE DeliveryInv'
  <2> DEFINE S == todo \cap entries
  <2>1. /\ UNCHANGED <<now, stime, req, receipt, rows>> /\ captured \subseteq captured'
        /\ (Lost \cup batch)' \subseteq (Lost \cup batch) \cup S
        /\ up /\ UNCHANGED up /\ S \in SUBSET Samples
    BY <1>14, <1>0 DEF RecordRejected, SyncDirectory, DirSynced, Lost, SpoolTypeOK
  <2>2. SpoolTypeOK'
    BY <1>14, <1>0, RejectedFinite
    DEF SpoolTypeOK, Steps, Jobs, RecordRejected, SyncDirectory, DirSynced
  <2>3. QueueOnDisk'
    BY <1>14, <1>0, <2>2 DEF QueueOnDisk, RecordRejected
  <2>4. LossesCounted'
    <3>1. Cardinality(S) \in Nat /\ dropped \in Nat /\ onDisk \in Nat /\ dropped <= onDisk
      BY <1>0, <2>1, RejectedFinite DEF SpoolTypeOK, LossesCounted
    <3>2. /\ dropped' = dropped + Cardinality(S)
          /\ onDisk' = IF Cardinality(S) = 0 THEN onDisk ELSE dropped + Cardinality(S)
      BY <1>14 DEF RecordRejected
    <3> HIDE DEF S
    <3>3. dropped' <= onDisk'
      BY <3>1, <3>2
    <3> QED BY <1>0, <2>1, <3>2, <3>3, LossesAdded
  <2> QED BY <2>1, <2>2, <2>3, <2>4, HubUntouched
<1>15. ASSUME RecordRejectedFails PROVE DeliveryInv'
  <2>1. SpoolTypeOK'
    BY <1>15, <1>0, RejectedFinite DEF SpoolTypeOK, Steps, Jobs, RecordRejectedFails
  <2>2. QueueOnDisk'
    BY <1>15, <1>0, <2>1 DEF QueueOnDisk, RecordRejectedFails
  <2>3. /\ UNCHANGED <<wireVars, ingestVars>> /\ captured \subseteq captured'
        /\ (Lost \cup batch)' \subseteq Lost \cup batch
    BY <1>15, <1>0 DEF QueueOnDisk, SpoolTypeOK, Lost, RecordRejectedFails
  <2>4. Tally <= Tally' /\ (up' => dropped' <= onDisk')
    BY <1>15, <1>0, RejectedFinite DEF Tally, LossesCounted, QueueOnDisk, SpoolTypeOK,
        RecordRejectedFails
  <2> QED BY <2>1, <2>2, <2>3, <2>4, AgentKept
<1>16. ASSUME NEW gone, DropRejected(gone) PROVE DeliveryInv'
  <2>1. SpoolTypeOK'
    BY <1>16, <1>0 DEF SpoolTypeOK, Steps, Jobs, DropRejected
  <2>2. QueueOnDisk'
    BY <1>16, <1>0, <2>1 DEF QueueOnDisk, DropRejected
  <2>3. /\ UNCHANGED <<wireVars, ingestVars>> /\ captured \subseteq captured'
        /\ (Lost \cup batch)' \subseteq Lost \cup batch
    BY <1>16, <1>0 DEF QueueOnDisk, SpoolTypeOK, Lost, DropRejected
  <2>4. Tally <= Tally' /\ (up' => dropped' <= onDisk')
    BY <1>16, <1>0 DEF Tally, LossesCounted, QueueOnDisk, SpoolTypeOK, DropRejected
  <2> QED BY <2>1, <2>2, <2>3, <2>4, AgentKept
<1> QED BY Zenon, <1>1, <1>2, <1>3, <1>4, <1>5, <1>6, <1>7, <1>8, <1>9, <1>10, <1>11, <1>12,
        <1>13, <1>14, <1>15, <1>16 DEF SpoolNext, SpoolStep, Collect, SpoolFault

(* Every step, of the agent or of the Hub, keeps the invariant. *)
LEMMA DeliveryStep == DeliveryInv /\ [Next]_vars => DeliveryInv'
<1>1. ASSUME DeliveryInv, UNCHANGED vars PROVE DeliveryInv'
  BY Zenon, <1>1
  DEF vars, DeliveryInv, WireTypeOK, SpoolTypeOK, IngestTypeOK, QueueOnDisk, SentDurable,
      ReceiptsCover, LossesCounted, Lost
<1> QED BY <1>1, AgentStep, HubStep DEF Next

(* A sample becomes at most one metric row, for any number of samples and of
   requests under way and any clock: Ingest skips the samples that have a receipt,
   and a receipt outlives the window in which its sample is valid. *)
THEOREM StoredAtMostOnce == Spec => []StoredOnce
<1>1. DeliveryInv => StoredOnce
  BY DEF DeliveryInv, ReceiptsCover, StoredOnce
<1> QED BY <1>1, DeliveryInit, DeliveryStep, PTL DEF Spec

(* "A crash may over-count a loss, but may never silently erase an unacknowledged
   sample": what the outbox lost is never more than dropped.json admits, whatever
   the crashes, the failed writes and the rejected samples. *)
THEOREM LossesNeverSilent == Spec => []NoSilentLoss
<1>1. ASSUME DeliveryInv PROVE NoSilentLoss
  <2>1. /\ Cardinality(Lost) \in Nat /\ Cardinality(Lost \cup batch) \in Nat
        /\ Cardinality(Lost) <= Cardinality(Lost \cup batch)
    BY <1>1, LossesFinite DEF DeliveryInv
  <2>2. onDisk \in Nat /\ dropped \in Nat
    BY <1>1 DEF DeliveryInv, SpoolTypeOK
  <2>3. Cardinality(Lost \cup batch) <= onDisk
    BY <1>1, <2>1, <2>2 DEF DeliveryInv, LossesCounted
  <2> QED BY <2>1, <2>2, <2>3 DEF NoSilentLoss
<1> QED BY <1>1, DeliveryInit, DeliveryStep, PTL DEF Spec
=============================================================================
