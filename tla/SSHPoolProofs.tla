--------------------------- MODULE SSHPoolProofs ---------------------------
(* Proofs about SSHPool for every number of servers, borrowers, entries,
   clients and configurations and every bound. *)
EXTENDS SSHPool, FiniteSetTheorems, TLAPS

USE NoneIsNoValue DEF poolVars

(* Attached: a borrower refers to an entry exactly while it waits for or holds
   one of its slots. *)
Attached ==
  \A b \in Borrowers :
    IF pc[b] \in Waiting \cup Holding
      THEN lease[b].entry \in Entries /\ lease[b].server \in Servers
      ELSE lease[b].entry = None

(* The inductive strengthening of Accounting, EntryPinned and TypeOK: the
   decrements of the counters stay in range because the counters are exact, and
   eviction spares an attended entry because they are. *)
SlotInv == TypeOK /\ Attached /\ Accounting /\ EntryPinned

(* Which borrowers the three counters count, as sets. *)
LEMMA SetsFinite ==
  /\ \A e : IsFiniteSet(Holders(e)) /\ IsFiniteSet(Waiters(e))
  /\ IsFiniteSet({b \in Borrowers : pc[b] \in Counted})
BY BorrowersFinite, FS_Subset DEF Holders, Waiters

(* A quiet step moves no borrower in or out of a counted set or between
   entries, and touches neither a counter nor the registered entries. *)
Quiet ==
  /\ \A b \in Borrowers :
       /\ pc'[b] \in Waiting <=> pc[b] \in Waiting
       /\ pc'[b] \in Holding <=> pc[b] \in Holding
       /\ pc'[b] \in Counted <=> pc[b] \in Counted
       /\ lease'[b].entry = lease[b].entry /\ lease'[b].server = lease[b].server
  /\ \A e \in Entries : ent'[e].sem = ent[e].sem /\ ent'[e].waiters = ent[e].waiters
  /\ gauge' = gauge /\ conns' = conns /\ closed' = closed

(* Such a step cannot disturb the accounts. *)
LEMMA QuietKeeps == SlotInv /\ Quiet => Attached' /\ Accounting' /\ EntryPinned'
<1> SUFFICES ASSUME SlotInv, Quiet PROVE Attached' /\ Accounting' /\ EntryPinned'
  OBVIOUS
<1>1. \A e \in Entries : Holders(e)' = Holders(e) /\ Waiters(e)' = Waiters(e)
  BY DEF Holders, Waiters, Quiet
<1>2. {b \in Borrowers : pc[b] \in Counted}' = {b \in Borrowers : pc[b] \in Counted}
  BY DEF Quiet
<1>3. Accounting'
  BY ZenonT(30), <1>1, <1>2 DEF Accounting, Quiet, SlotInv
<1>4. Attached' /\ EntryPinned'
  BY DEF Attached, EntryPinned, Quiet, SlotInv
<1> QED BY <1>3, <1>4

(* A new entry and an empty lease have their types. *)
LEMMA BlankTypes ==
  /\ \A f \in Fingerprints \cup {None} : NewEntry(f) \in Entry
  /\ NoLease \in Lease
<1>1. 1 \in 1..MaxGeneration /\ 0 \in 0..MaxConns /\ 0 \in 0..MaxGeneration /\ 0 \in Nat
  BY MaxConnsPositive, MaxGenerationPositive
<1>2. \A f \in Fingerprints \cup {None} : NewEntry(f) \in Entry
  BY <1>1 DEF NewEntry, Entry
<1>3. NoLease \in Lease
  BY <1>1 DEF NoLease, Lease
<1> QED BY <1>2, <1>3

(* A pool that was just created *)
LEMMA SlotInit == Init => SlotInv
<1> SUFFICES ASSUME Init PROVE SlotInv
  OBVIOUS
<1>1. TypeOK
  BY ZenonT(30), BlankTypes DEF Init, TypeOK, PCs
<1>2. Attached
  BY DEF Init, Attached, NoLease, Waiting, Holding
<1>3. EntryPinned
  BY DEF Init, EntryPinned, Waiting, Holding
<1>4. \A e \in Entries : Holders(e) = {} /\ Waiters(e) = {}
  BY DEF Init, Holders, Waiters, Waiting, Holding
<1>5. {b \in Borrowers : pc[b] \in Counted} = {}
  BY DEF Init, Counted
<1>6. Accounting
  BY ZenonT(30), <1>4, <1>5, FS_EmptySet DEF Accounting, Init, NewEntry
<1> QED BY <1>1, <1>2, <1>3, <1>6 DEF SlotInv

(* A counted borrower keeps its counter positive. *)
LEMMA Positive ==
  ASSUME SlotInv, NEW b \in Borrowers
  PROVE  /\ pc[b] \in Waiting => ent[lease[b].entry].waiters >= 1
         /\ pc[b] \in Holding => ent[lease[b].entry].sem >= 1
         /\ pc[b] \in Counted => gauge >= 1
<1>1. \A S : IsFiniteSet(S) /\ b \in S => Cardinality(S) \in Nat /\ Cardinality(S) >= 1
  BY FS_EmptySet, FS_CardinalityType
<1>2. pc[b] \in Waiting => b \in Waiters(lease[b].entry) /\ lease[b].entry \in Entries
  BY DEF Waiters, SlotInv, Attached
<1>3. pc[b] \in Holding => b \in Holders(lease[b].entry) /\ lease[b].entry \in Entries
  BY DEF Holders, SlotInv, Attached
<1>4. pc[b] \in Counted => b \in {x \in Borrowers : pc[x] \in Counted}
  OBVIOUS
<1> HIDE DEF Waiters, Holders
<1> QED BY <1>1, <1>2, <1>3, <1>4, SetsFinite DEF SlotInv, Accounting

(* Field updates stay in the record types. *)
LEMMA EntryUpdates ==
  ASSUME NEW x \in Entry
  PROVE  /\ \A c \in Clients \cup {None} : [x EXCEPT !.client = c] \in Entry
         /\ \A f \in Fingerprints \cup {None} : [x EXCEPT !.fingerprint = f] \in Entry
         /\ \A g \in 1..MaxGeneration : [x EXCEPT !.generation = g] \in Entry
         /\ \A n \in 0..MaxConns : [x EXCEPT !.sem = n] \in Entry
         /\ \A n \in Nat : [x EXCEPT !.waiters = n] \in Entry
BY DEF Entry

(* A change of one field of a lease leaves it a lease. *)
LEMMA LeaseUpdates ==
  ASSUME NEW x \in Lease
  PROVE  /\ \A c \in Clients \cup {None} : [x EXCEPT !.client = c] \in Lease
         /\ \A f \in Fingerprints \cup {None} : [x EXCEPT !.fingerprint = f] \in Lease
         /\ \A g \in 0..MaxGeneration : [x EXCEPT !.generation = g] \in Lease
         /\ \A n \in BOOLEAN : [x EXCEPT !.cacheable = n] \in Lease
BY DEF Lease

(* Every action of a borrower or of the pool keeps the types. *)
LEMMA TypeStep == SlotInv /\ [Next]_vars => TypeOK'
<1> SUFFICES ASSUME SlotInv, [Next]_vars PROVE TypeOK'
  OBVIOUS
<1> USE DEF TypeOK
<1>0. TypeOK /\ Attached
  BY DEF SlotInv
<1>p. ASSUME NEW b \in Borrowers, NEW p \in PCs
      PROVE  [pc EXCEPT ![b] = p] \in [Borrowers -> PCs]
  BY <1>0
<1>l. ASSUME NEW b \in Borrowers, NEW l \in Lease
      PROVE  [lease EXCEPT ![b] = l] \in [Borrowers -> Lease]
  BY <1>0
<1>e. ASSUME NEW e \in Entries, NEW x \in Entry
      PROVE  [ent EXCEPT ![e] = x] \in [Entries -> Entry]
  BY <1>0
<1>1. CASE UNCHANGED vars
  BY <1>1, <1>0 DEF vars
<1>2. ASSUME NEW b \in Borrowers, NEW s \in Servers, NEW f \in Fingerprints,
             NEW isFresh \in BOOLEAN, NEW e \in Entries, Enter(b, s, f, isFresh, e)
      PROVE  TypeOK'
  <2>1. ent' \in [Entries -> Entry]
    <3>1. CASE conns[s] = None
      BY <1>2, <3>1, <1>0, BlankTypes DEF Enter, Entry
    <3>2. CASE conns[s] # None /\ ent[e].fingerprint = f
      <4>1. [ent[e] EXCEPT !.waiters = @ + 1] \in Entry
        BY <1>0 DEF Entry
      <4> QED BY <1>2, <3>2, <1>0, <4>1 DEF Enter
    <3>3. CASE conns[s] # None /\ ent[e].fingerprint # f
      <4>0. ent[e].generation < MaxGeneration
        BY <1>2, <3>3 DEF Enter
      <4>1. ent[e] \in Entry /\ ent[e].generation + 1 \in 1..MaxGeneration
        BY <1>0, <4>0, MaxGenerationPositive DEF Entry
      <4>2. Adopt(e, f) \in Entry
        BY ZenonT(30), <4>1 DEF Adopt, Entry
      <4>3. [Adopt(e, f) EXCEPT !.waiters = @ + 1] \in Entry
        BY <4>2 DEF Entry
      <4> QED BY <1>2, <3>3, <1>0, <4>3 DEF Enter
    <3> QED BY <3>1, <3>2, <3>3
  <2>2. lease' \in [Borrowers -> Lease]
    <3>1. ent'[e].generation \in 0..MaxGeneration
      BY <2>1 DEF Entry
    <3> QED BY <1>2, <1>0, <3>1 DEF Enter, Lease
  <2>3. pc' \in [Borrowers -> PCs]
    BY <1>2, <1>0 DEF Enter, PCs, Waiting
  <2>4. conns' \in [Servers -> Entries \cup {None}] /\ retired' \in SUBSET Clients
    BY <1>2, <1>0 DEF Enter, Retire, Entry
  <2> QED BY <1>2, <1>0, <2>1, <2>2, <2>3, <2>4 DEF Enter
<1>3. ASSUME NEW b \in Borrowers, TakeSlot(b) PROVE TypeOK'
  <2>1. ent[lease[b].entry] \in Entry /\ ent[lease[b].entry].sem + 1 \in 0..MaxConns
    BY <1>3, <1>0, MaxConnsPositive DEF TakeSlot, Vacant, Entry, Waiting, Attached
  <2>2. [ent[lease[b].entry] EXCEPT !.sem = @ + 1] \in Entry
    BY <2>1, EntryUpdates
  <2> QED BY ZenonT(30), <1>3, <1>0, <2>2 DEF TakeSlot, PCs, Holding
<1>4. ASSUME NEW b \in Borrowers, pc[b] \in {"waiting", "counted"}, LeaveQueue(b) \/ RefuseSlot(b)
      PROVE  TypeOK'
  <2>1. ent[lease[b].entry] \in Entry /\ ent[lease[b].entry].waiters - 1 \in Nat
    BY <1>4, <1>0, Positive DEF Entry, Waiting, Attached
  <2>2. [ent[lease[b].entry] EXCEPT !.waiters = @ - 1] \in Entry
    BY <2>1, EntryUpdates
  <2> QED BY <1>4, <1>0, <2>2, BlankTypes DEF LeaveQueue, RefuseSlot, PCs, Holding
<1>5. ASSUME NEW b \in Borrowers, TakeCached(b) PROVE TypeOK'
  <2>1. ent[lease[b].entry] \in Entry /\ ent[lease[b].entry].waiters - 1 \in Nat
    BY <1>5, <1>0, Positive DEF TakeCached, Entry, Waiting, Attached
  <2>2. Taken(lease[b].entry) \in Entry
    BY ZenonT(30), <2>1 DEF Taken, Entry
  <2>3. ent[lease[b].entry].client \in Clients \cup {None}
    BY <2>1 DEF Entry
  <2>4. [lease[b] EXCEPT !.client = ent[lease[b].entry].client] \in Lease
    BY <2>3, <1>0, LeaseUpdates
  <2> QED BY ZenonT(30), <1>5, <1>0, <2>2, <2>4 DEF TakeCached, Own, PCs, Holding
<1>6. ASSUME NEW b \in Borrowers, ProbeHealthy(b) \/ ProbeAbandoned(b) \/ Grant(b) \/ RefuseLease(b)
      PROVE  TypeOK'
  BY <1>6, <1>0 DEF ProbeHealthy, ProbeAbandoned, Grant, RefuseLease, PCs, Holding
<1>7. ASSUME NEW b \in Borrowers, ProbeUnhealthy(b) \/ CloseHeld(b) PROVE TypeOK'
  <2>1. [lease[b] EXCEPT !.client = None] \in Lease
    BY <1>0, LeaseUpdates
  <2> QED BY <1>7, <1>0, <2>1 DEF ProbeUnhealthy, CloseHeld, CloseClients, PCs, Holding
<1>8. ASSUME NEW b \in Borrowers, NEW c \in Clients, StartDial(b, c) PROVE TypeOK'
  <2>1. lease[b].fingerprint \in Fingerprints \cup {None}
    BY <1>0 DEF Lease
  <2> QED BY <1>8, <1>0, <2>1 DEF StartDial
<1>9. ASSUME NEW b \in Borrowers, DialSucceeds(b) \/ DialFails(b) PROVE TypeOK'
  BY <1>9, <1>0 DEF DialSucceeds, DialFails
<1>10. ASSUME NEW b \in Borrowers, SetClient(b) PROVE TypeOK'
  <2>1. /\ [lease[b] EXCEPT !.client = None] \in Lease
        /\ [lease[b] EXCEPT !.client = dial[b]] \in Lease
    BY <1>0, LeaseUpdates
  <2>2. lease' \in [Borrowers -> Lease]
    BY <1>10, <1>0, <2>1 DEF SetClient
  <2>3. retired' \in SUBSET Clients
    BY SMTT(30), <1>10, <1>0 DEF SetClient, Retire, Lease
  <2> QED BY <1>10, <1>0, <2>2, <2>3 DEF SetClient
<1>11. ASSUME NEW b \in Borrowers, NEW f \in Fingerprints, RebindFingerprint(b, f)
       PROVE  TypeOK'
  <2> DEFINE e == lease[b].entry
             g == ent[e].generation + 1
  <2>1. e \in Entries /\ ent[e] \in Entry /\ ent[e].generation = lease[b].generation
    BY SMTT(30), <1>11, <1>0 DEF RebindFingerprint, Attached, Holding, Current, SameGeneration, Own
  <2>2. g \in 1..MaxGeneration
    <3>1. ent[e].generation \in 1..MaxGeneration
      BY <2>1 DEF Entry
    <3>2. ent[e].generation < MaxGeneration
      BY Zenon, <1>11 DEF RebindFingerprint, Own
    <3> HIDE DEF e
    <3> QED BY <3>1, <3>2, MaxGenerationPositive
  <2>3. [[[ent[e] EXCEPT !.client = None] EXCEPT !.fingerprint = f] EXCEPT !.generation = g] \in Entry
    BY ZenonT(30), <2>1, <2>2 DEF Entry
  <2>4. [[[lease[b] EXCEPT !.fingerprint = f] EXCEPT !.cacheable = FALSE] EXCEPT !.generation = g] \in Lease
    <3>1. g \in 0..MaxGeneration
      BY <2>2
    <3> HIDE DEF g
    <3>2. [lease[b] EXCEPT !.fingerprint = f] \in Lease
      BY <1>0, LeaseUpdates
    <3>3. [[lease[b] EXCEPT !.fingerprint = f] EXCEPT !.cacheable = FALSE] \in Lease
      BY ZenonT(30), <3>2, LeaseUpdates
    <3> QED BY ZenonT(30), <3>1, <3>3, LeaseUpdates
  <2>5. ent' \in [Entries -> Entry]
    BY ZenonT(30), <1>11, <1>0, <2>1, <2>3 DEF RebindFingerprint
  <2>6. lease' \in [Borrowers -> Lease]
    BY <1>11, <1>0, <2>1, <2>4 DEF RebindFingerprint
  <2>7. retired' \in SUBSET Clients
    BY <1>11, <1>0, <2>1 DEF RebindFingerprint, Retire, Own, Entry
  <2> QED BY SMTT(90), <1>11, <1>0, <2>5, <2>6, <2>7 DEF RebindFingerprint
<1>12. ASSUME NEW b \in Borrowers, NEW discard \in BOOLEAN, Finish(b, discard) PROVE TypeOK'
  <2>1. (lease[b].cacheable /\ ~discard) \in BOOLEAN
    OBVIOUS
  <2>2. [lease[b] EXCEPT !.cacheable = lease[b].cacheable /\ ~discard] \in Lease
    BY ZenonT(30), <1>0, <2>1, LeaseUpdates
  <2> QED BY <1>12, <1>0, <2>2 DEF Finish, PCs, Holding
<1>13. ASSUME NEW b \in Borrowers, Return(b) PROVE TypeOK'
  <2>1. ent[lease[b].entry] \in Entry /\ lease[b].client \in Clients \cup {None}
    BY <1>13, <1>0 DEF Return, Attached, Holding, Lease
  <2>2. [ent[lease[b].entry] EXCEPT !.client = lease[b].client] \in Entry
    BY <2>1, EntryUpdates
  <2>3. [lease[b] EXCEPT !.client = None] \in Lease
    BY <1>0, LeaseUpdates
  <2> QED BY <1>13, <1>0, <2>2, <2>3 DEF Return, PCs, Holding
<1>14. ASSUME NEW b \in Borrowers, ReleaseSlot(b) PROVE TypeOK'
  <2>1. ent[lease[b].entry] \in Entry /\ ent[lease[b].entry].sem >= 1
    BY <1>14, <1>0, Positive DEF ReleaseSlot, Holding, Attached
  <2>2. ent[lease[b].entry].sem - 1 \in 0..MaxConns
    BY <2>1, MaxConnsPositive DEF Entry
  <2>3. [ent[lease[b].entry] EXCEPT !.sem = @ - 1] \in Entry
    BY <2>1, <2>2, EntryUpdates
  <2> QED BY ZenonT(30), <1>14, <1>0, <2>3, BlankTypes DEF ReleaseSlot, ReceiveSlot, PCs, Counted
<1>15. ASSUME NEW b \in Borrowers, ReportTaken(b) \/ ReportReleased(b) PROVE TypeOK'
  <2>1. pc[b] = "reporting" => gauge >= 1
    BY Positive DEF Counted
  <2> QED BY <1>15, <1>0, <2>1 DEF ReportTaken, ReportReleased, PCs, Holding
<1>16. ASSUME NEW s \in Servers, Invalidate(s) PROVE TypeOK'
  <2> DEFINE e == conns[s]
             g == ent[e].generation + 1
  <2>1. e \in Entries /\ ent[e] \in Entry /\ g \in 1..MaxGeneration
    BY <1>16, <1>0, MaxGenerationPositive DEF Invalidate, Entry
  <2>2. [[[ent[e] EXCEPT !.client = None] EXCEPT !.fingerprint = None] EXCEPT !.generation = g] \in Entry
    BY ZenonT(30), <2>1 DEF Entry
  <2>3. ent' \in [Entries -> Entry]
    BY <1>16, <1>0, <2>1, <2>2 DEF Invalidate
  <2>4. retired' \in SUBSET Clients
    BY <1>16, <1>0, <2>1 DEF Invalidate, Retire, Entry
  <2> QED BY <1>16, <1>0, <2>3, <2>4 DEF Invalidate
<1>17. ASSUME NEW expired \in SUBSET Servers, Evict(expired) PROVE TypeOK'
  <2>1. \A e \in Entries : [ent[e] EXCEPT !.client = None] \in Entry
    BY <1>0, EntryUpdates
  <2>2. ent' \in [Entries -> Entry]
    BY <1>17, <1>0, <2>1, BlankTypes DEF Evict
  <2>3. \A e \in Entries : ent[e].client \in Clients \cup {None}
    BY <1>0 DEF Entry
  <2>4. retired' \in SUBSET Clients
    BY <1>17, <1>0, <2>3 DEF Evict
  <2>5. conns' \in [Servers -> Entries \cup {None}]
    BY <1>17, <1>0 DEF Evict
  <2> QED BY <1>17, <1>0, <2>2, <2>4, <2>5 DEF Evict
<1>18. ASSUME Close PROVE TypeOK'
  <2>1. \A e \in Entries : [ent[e] EXCEPT !.client = None] \in Entry
    BY <1>0, EntryUpdates
  <2>2. ent' \in [Entries -> Entry]
    BY <1>18, <1>0, <2>1 DEF Close
  <2>3. \A e \in Entries : ent[e].client \in Clients \cup {None}
    BY <1>0 DEF Entry
  <2>4. retired' \in SUBSET Clients
    BY <1>18, <1>0, <2>3 DEF Close
  <2> QED BY <1>18, <1>0, <2>2, <2>4 DEF Close
<1>19. ASSUME \/ CancelShutdown \/ (\E b \in Borrowers : CloseLease(b))
              \/ \E c \in Clients : CloseRetired(c)
       PROVE  TypeOK'
  BY ZenonT(30), <1>19, <1>0 DEF CancelShutdown, CloseLease, CloseRetired, CloseClients
<1>20. ASSUME NEW b \in Borrowers, BorrowerStep(b) PROVE TypeOK'
  BY ZenonT(30), <1>20, <1>2, <1>3, <1>4, <1>5, <1>6, <1>7, <1>8, <1>9, <1>10, <1>11, <1>12,
     <1>13, <1>14, <1>15, <1>19 DEF BorrowerStep, GiveUp, RefuseSlot
<1>21. ASSUME PoolStep PROVE TypeOK'
  BY <1>21, <1>16, <1>17, <1>18, <1>19 DEF PoolStep
<1> QED BY <1>1, <1>20, <1>21 DEF Next

(* The borrower's steps between taking a slot and returning it *)
LEMMA QuietSteps ==
  ASSUME SlotInv, NEW b \in Borrowers
  PROVE  /\ ProbeHealthy(b) \/ ProbeUnhealthy(b) \/ ProbeAbandoned(b) => Quiet
         /\ Grant(b) \/ RefuseLease(b) \/ CloseHeld(b) => Quiet
         /\ \A c \in Clients : StartDial(b, c) => Quiet
         /\ DialSucceeds(b) \/ DialFails(b) \/ CloseLease(b) => Quiet
         /\ SetClient(b) => Quiet
         /\ \A f \in Fingerprints : RebindFingerprint(b, f) => Quiet
         /\ \A discard \in BOOLEAN : Finish(b, discard) => Quiet
         /\ Return(b) => Quiet
<1> USE DEF Quiet, Waiting, Holding, Counted
<1>0. /\ pc \in [Borrowers -> PCs] /\ lease \in [Borrowers -> Lease]
      /\ ent \in [Entries -> Entry] /\ conns \in [Servers -> Entries \cup {None}]
  BY DEF SlotInv, TypeOK
<1>1. pc[b] \in Holding => lease[b].entry \in Entries
  BY DEF SlotInv, Attached
<1>2. ProbeHealthy(b) \/ ProbeUnhealthy(b) \/ ProbeAbandoned(b) => Quiet
  BY <1>0 DEF ProbeHealthy, ProbeUnhealthy, ProbeAbandoned, Lease
<1>3. Grant(b) \/ RefuseLease(b) \/ CloseHeld(b) => Quiet
  BY <1>0 DEF Grant, RefuseLease, CloseHeld, Lease
<1>4. \A c \in Clients : StartDial(b, c) => Quiet
  BY DEF StartDial
<1>5. DialSucceeds(b) \/ DialFails(b) \/ CloseLease(b) => Quiet
  BY DEF DialSucceeds, DialFails, CloseLease
<1>6. SetClient(b) => Quiet
  BY SMTT(30), <1>0 DEF SetClient, Lease
<1>7. \A f \in Fingerprints : RebindFingerprint(b, f) => Quiet
  BY SMTT(60), <1>0, <1>1 DEF RebindFingerprint, Lease, Entry
<1>8. \A discard \in BOOLEAN : Finish(b, discard) => Quiet
  BY <1>0 DEF Finish, Lease
<1>9. Return(b) => Quiet
  <2>1. CASE MayCache(b)
    BY <1>0, <1>1, <2>1 DEF Return, Lease, Entry
  <2>2. CASE ~MayCache(b)
    BY <1>0, <1>1, <2>2 DEF Return
  <2> QED BY <2>1, <2>2
<1> HIDE DEF Quiet
<1> QED BY <1>2, <1>3, <1>4, <1>5, <1>6, <1>7, <1>8, <1>9

(* The invalidation of a server and the closing of connections *)
LEMMA QuietPoolSteps ==
  ASSUME SlotInv
  PROVE  /\ \A s \in Servers : Invalidate(s) => Quiet
         /\ \A c \in Clients : CloseRetired(c) => Quiet
         /\ CancelShutdown => Quiet
         /\ UNCHANGED vars => Quiet
<1> USE DEF Quiet
<1>0. ent \in [Entries -> Entry] /\ conns \in [Servers -> Entries \cup {None}]
  BY DEF SlotInv, TypeOK
<1>1. \A s \in Servers : Invalidate(s) => Quiet
  BY <1>0 DEF Invalidate, Entry
<1>2. \A c \in Clients : CloseRetired(c) => Quiet
  BY DEF CloseRetired
<1>3. CancelShutdown => Quiet
  BY DEF CancelShutdown
<1>4. UNCHANGED vars => Quiet
  BY DEF vars
<1> HIDE DEF Quiet
<1> QED BY <1>1, <1>2, <1>3, <1>4

(* The counters after a borrower joins or leaves one of the counted sets. *)
LEMMA CountAdd ==
  ASSUME NEW S, IsFiniteSet(S), NEW x, x \notin S
  PROVE  Cardinality(S \cup {x}) = Cardinality(S) + 1
BY ZenonT(30), FS_AddElement

(* Taking an element out of a finite set lowers its cardinality by one. *)
LEMMA CountRemove ==
  ASSUME NEW S, IsFiniteSet(S), NEW x \in S
  PROVE  Cardinality(S \ {x}) = Cardinality(S) - 1
BY ZenonT(30), FS_RemoveElement

(* The counters are exact after a step that changes those of entry e at most, and
   leaves them exact. *)
LEMMA AccountingAt ==
  ASSUME Accounting, NEW e \in Entries,
         \A d \in Entries \ {e} : /\ ent'[d] = ent[d]
                                  /\ Holders(d)' = Holders(d) /\ Waiters(d)' = Waiters(d),
         ent'[e].sem = Cardinality(Holders(e)'),
         ent'[e].waiters = Cardinality(Waiters(e)'),
         gauge' = Cardinality({x \in Borrowers : pc[x] \in Counted}')
  PROVE  Accounting'
<1>1. \A d \in Entries : /\ ent'[d].sem = Cardinality(Holders(d)')
                         /\ ent'[d].waiters = Cardinality(Waiters(d)')
  BY DEF Accounting
<1> QED BY <1>1 DEF Accounting

(* A borrower that joins an entry, an existing or a new one, counts as one waiter of it. *)
LEMMA EnterKeeps ==
  ASSUME SlotInv, NEW b \in Borrowers, NEW s \in Servers, NEW f \in Fingerprints,
         NEW isFresh \in BOOLEAN, NEW e \in Entries, Enter(b, s, f, isFresh, e)
  PROVE  Attached' /\ Accounting' /\ EntryPinned'
<1>0. /\ pc \in [Borrowers -> PCs] /\ lease \in [Borrowers -> Lease]
      /\ ent \in [Entries -> Entry] /\ conns \in [Servers -> Entries \cup {None}]
  BY DEF SlotInv, TypeOK
<1>1. /\ pc[b] = "idle" /\ pc' = [pc EXCEPT ![b] = "waiting"]
      /\ ~closed /\ closed' = closed /\ gauge' = gauge
  BY DEF Enter
<1>2. /\ \A x \in Borrowers \ {b} : lease'[x] = lease[x]
      /\ lease'[b].entry = e /\ lease'[b].server = s
  BY <1>0 DEF Enter
<1>3. conns'[s] = e /\ (\A t \in Servers : conns[t] # None => conns'[t] = conns[t])
  BY <1>0 DEF Enter
<1>4. Attached'
  BY <1>0, <1>1, <1>2 DEF SlotInv, Attached, Waiting, Holding
<1>5. EntryPinned'
  BY <1>0, <1>1, <1>2, <1>3 DEF SlotInv, EntryPinned, Attached, Waiting, Holding
<1>6. /\ \A d \in Entries \ {e} : ent'[d] = ent[d]
      /\ ent'[e].sem = Cardinality(Holders(e))
      /\ ent'[e].waiters = Cardinality(Waiters(e)) + 1
  <2>1. CASE conns[s] = None
    <3>1. Holders(e) = {} /\ Waiters(e) = {}
      BY <2>1 DEF Enter, UnusedEntry, Holders, Waiters
    <3>2. ent' = [ent EXCEPT ![e] = [NewEntry(f) EXCEPT !.waiters = 1]]
      BY <2>1 DEF Enter
    <3> QED BY <3>1, <3>2, <1>0, FS_EmptySet DEF NewEntry
  <2>2. CASE conns[s] # None /\ ent[e].fingerprint = f
    <3>1. ent' = [ent EXCEPT ![e].waiters = @ + 1]
      BY <2>2 DEF Enter
    <3> QED BY <3>1, <1>0 DEF SlotInv, Accounting, Entry
  <2>3. CASE conns[s] # None /\ ent[e].fingerprint # f
    <3>1. ent' = [ent EXCEPT ![e] = [Adopt(e, f) EXCEPT !.waiters = @ + 1]]
      BY <2>3 DEF Enter
    <3>2. ent[e] \in Entry
      BY <1>0
    <3>3. /\ [Adopt(e, f) EXCEPT !.waiters = @ + 1].sem = ent[e].sem
          /\ [Adopt(e, f) EXCEPT !.waiters = @ + 1].waiters = ent[e].waiters + 1
      BY <3>2 DEF Adopt, Entry
    <3> QED BY <3>1, <3>3, <1>0 DEF SlotInv, Accounting
  <2> QED BY <2>1, <2>2, <2>3
<1>7. /\ \A d \in Entries : Holders(d)' = Holders(d)
      /\ \A d \in Entries \ {e} : Waiters(d)' = Waiters(d)
      /\ Waiters(e)' = Waiters(e) \cup {b} /\ b \notin Waiters(e)
  BY <1>0, <1>1, <1>2 DEF SlotInv, Attached, Holders, Waiters, Waiting, Holding
<1>8. {x \in Borrowers : pc[x] \in Counted}' = {x \in Borrowers : pc[x] \in Counted}
  BY <1>0, <1>1 DEF Counted
<1>9. Cardinality(Waiters(e) \cup {b}) = Cardinality(Waiters(e)) + 1
  BY <1>7, SetsFinite, CountAdd
<1>10. Accounting'
  <2>1. Accounting /\ gauge' = Cardinality({x \in Borrowers : pc[x] \in Counted}')
    BY ZenonT(30), <1>1, <1>8 DEF SlotInv, Accounting
  <2> QED BY ZenonT(30), <2>1, <1>6, <1>7, <1>9, AccountingAt
<1> QED BY <1>4, <1>5, <1>10

(* The steps of one borrower that change a counter. *)
LEMMA CountingSteps ==
  ASSUME SlotInv, NEW b \in Borrowers,
         \/ TakeSlot(b) \/ GiveUp(b) \/ ReportTaken(b) \/ TakeCached(b)
         \/ RefuseSlot(b) \/ ReleaseSlot(b) \/ ReportReleased(b)
  PROVE  Attached' /\ Accounting' /\ EntryPinned'
<1> DEFINE C == {x \in Borrowers : pc[x] \in Counted}
<1>0. /\ pc \in [Borrowers -> PCs] /\ lease \in [Borrowers -> Lease]
      /\ ent \in [Entries -> Entry]
      /\ Attached /\ EntryPinned /\ Accounting
  BY DEF SlotInv, TypeOK
<1>1. conns' = conns /\ closed' = closed
  BY DEF TakeSlot, GiveUp, LeaveQueue, ReportTaken, TakeCached, RefuseSlot,
         ReleaseSlot, ReceiveSlot, ReportReleased
<1>2. \A x \in Borrowers \ {b} : pc'[x] = pc[x] /\ lease'[x] = lease[x]
  BY <1>0 DEF TakeSlot, GiveUp, LeaveQueue, ReportTaken, TakeCached, RefuseSlot,
         ReleaseSlot, ReceiveSlot, ReportReleased
<1>3. \/ /\ pc'[b] \in Waiting \cup Holding /\ pc[b] \in Waiting \cup Holding
         /\ lease'[b].entry = lease[b].entry /\ lease'[b].server = lease[b].server
      \/ pc'[b] \notin Waiting \cup Holding /\ lease'[b].entry = None
  BY SMTT(30), <1>0 DEF TakeSlot, GiveUp, LeaveQueue, ReportTaken, TakeCached, RefuseSlot,
     ReleaseSlot, ReceiveSlot, ReportReleased, Waiting, Holding, NoLease, Lease, Attached
<1>4. Attached' /\ EntryPinned'
  BY <1>0, <1>1, <1>2, <1>3 DEF Attached, EntryPinned
<1>e. PICK e : e = lease[b].entry
  OBVIOUS
<1>5. \A d \in Entries \ {e} : Holders(d)' = Holders(d) /\ Waiters(d)' = Waiters(d)
  BY <1>2, <1>3, <1>e DEF Holders, Waiters
<1>6. /\ IsFiniteSet(C) /\ IsFiniteSet(Holders(e)) /\ IsFiniteSet(Waiters(e))
      /\ gauge = Cardinality(C)
  BY <1>0, SetsFinite DEF Accounting
<1>7. CASE TakeSlot(b)
  <2>1. /\ e \in Entries /\ gauge' = gauge
        /\ \A d \in Entries \ {e} : ent'[d] = ent[d]
        /\ ent'[e].sem = ent[e].sem + 1 /\ ent'[e].waiters = ent[e].waiters
    <3>1. e \in Entries /\ ent[e] \in Entry /\ gauge' = gauge /\ ent' = [ent EXCEPT ![e].sem = @ + 1]
      BY <1>7, <1>e, <1>0 DEF TakeSlot, Attached, Waiting
    <3> QED BY <3>1, <1>0 DEF Entry
  <2>2. Holders(e)' = Holders(e) \cup {b} /\ b \notin Holders(e) /\ Waiters(e)' = Waiters(e) /\ C' = C
    BY <1>7, <1>e, <1>0, <1>2 DEF TakeSlot, Holders, Waiters, Waiting, Holding, Counted
  <2>3. Cardinality(Holders(e) \cup {b}) = Cardinality(Holders(e)) + 1
    BY SMTT(30), <2>2, <1>6, CountAdd
  <2>4. ent'[e].sem = Cardinality(Holders(e)') /\ ent'[e].waiters = Cardinality(Waiters(e)')
    BY SMTT(30), <1>0, <2>1, <2>2, <2>3 DEF Accounting
  <2>5. Accounting'
    BY ZenonT(30), <1>0, <1>5, <1>6, <2>1, <2>2, <2>4, AccountingAt
  <2> QED BY <1>4, <2>5
<1>8. CASE GiveUp(b)
  <2>1. /\ e \in Entries /\ gauge' = gauge
        /\ \A d \in Entries \ {e} : ent'[d] = ent[d]
        /\ ent'[e].sem = ent[e].sem /\ ent'[e].waiters = ent[e].waiters - 1
    <3>1. e \in Entries /\ ent[e] \in Entry /\ gauge' = gauge /\ ent' = [ent EXCEPT ![e].waiters = @ - 1]
      BY <1>8, <1>e, <1>0 DEF GiveUp, LeaveQueue, Attached, Waiting
    <3> QED BY <3>1, <1>0 DEF Entry
  <2>2. Holders(e)' = Holders(e) /\ Waiters(e)' = Waiters(e) \ {b} /\ b \in Waiters(e) /\ C' = C
    BY <1>8, <1>e, <1>0, <1>2 DEF GiveUp, LeaveQueue, Holders, Waiters, Waiting, Holding, Counted
  <2>3. Cardinality(Waiters(e) \ {b}) = Cardinality(Waiters(e)) - 1
    BY SMTT(30), <2>2, <1>6, CountRemove
  <2>4. ent'[e].sem = Cardinality(Holders(e)') /\ ent'[e].waiters = Cardinality(Waiters(e)')
    BY SMTT(30), <1>0, <2>1, <2>2, <2>3 DEF Accounting
  <2>5. Accounting'
    BY ZenonT(30), <1>0, <1>5, <1>6, <2>1, <2>2, <2>4, AccountingAt
  <2> QED BY <1>4, <2>5
<1>9. CASE TakeCached(b) \/ RefuseSlot(b)
  <2>1. /\ e \in Entries /\ gauge' = gauge
        /\ \A d \in Entries \ {e} : ent'[d] = ent[d]
        /\ ent'[e].sem = ent[e].sem /\ ent'[e].waiters = ent[e].waiters - 1
    <3>1. e \in Entries /\ ent[e] \in Entry /\ gauge' = gauge
      BY <1>9, <1>e, <1>0 DEF TakeCached, RefuseSlot, Attached, Waiting
    <3>2. \/ ent' = [ent EXCEPT ![e] = Taken(e)]
          \/ ent' = [ent EXCEPT ![e] = [ent[e] EXCEPT !.waiters = @ - 1]]
      BY <1>9, <1>e DEF TakeCached, RefuseSlot
    <3>3. /\ Taken(e).sem = ent[e].sem /\ Taken(e).waiters = ent[e].waiters - 1
          /\ [ent[e] EXCEPT !.waiters = @ - 1].sem = ent[e].sem
          /\ [ent[e] EXCEPT !.waiters = @ - 1].waiters = ent[e].waiters - 1
      BY <3>1 DEF Taken, Entry
    <3> QED BY ZenonT(30), <3>1, <3>2, <3>3, <1>0
  <2>2. Holders(e)' = Holders(e) /\ Waiters(e)' = Waiters(e) \ {b} /\ b \in Waiters(e) /\ C' = C
    BY SMTT(30), <1>9, <1>e, <1>0, <1>2, <1>3
       DEF TakeCached, RefuseSlot, Holders, Waiters, Waiting, Holding, Counted
  <2>3. Cardinality(Waiters(e) \ {b}) = Cardinality(Waiters(e)) - 1
    BY <2>2, <1>6, CountRemove
  <2>4. ent'[e].sem = Cardinality(Holders(e)') /\ ent'[e].waiters = Cardinality(Waiters(e)')
    BY <1>0, <2>1, <2>2, <2>3 DEF Accounting
  <2>5. Accounting'
    BY ZenonT(30), <1>0, <1>5, <1>6, <2>1, <2>2, <2>4, AccountingAt
  <2> QED BY <1>4, <2>5
<1>10. CASE ReleaseSlot(b)
  <2>1. /\ e \in Entries /\ gauge' = gauge
        /\ \A d \in Entries \ {e} : ent'[d] = ent[d]
        /\ ent'[e].sem = ent[e].sem - 1 /\ ent'[e].waiters = ent[e].waiters
    <3>1. e \in Entries /\ ent[e] \in Entry /\ gauge' = gauge /\ ent' = [ent EXCEPT ![e].sem = @ - 1]
      BY <1>10, <1>e, <1>0 DEF ReleaseSlot, ReceiveSlot, Attached, Holding
    <3> QED BY <3>1, <1>0 DEF Entry
  <2>2. Holders(e)' = Holders(e) \ {b} /\ b \in Holders(e) /\ Waiters(e)' = Waiters(e) /\ C' = C
    BY SMTT(30), <1>10, <1>e, <1>0, <1>2
       DEF ReleaseSlot, ReceiveSlot, Holders, Waiters, Waiting, Holding, Counted
  <2>3. Cardinality(Holders(e) \ {b}) = Cardinality(Holders(e)) - 1
    BY SMTT(30), <2>2, <1>6, CountRemove
  <2>4. ent'[e].sem = Cardinality(Holders(e)') /\ ent'[e].waiters = Cardinality(Waiters(e)')
    BY SMTT(30), <1>0, <2>1, <2>2, <2>3 DEF Accounting
  <2>5. Accounting'
    BY ZenonT(30), <1>0, <1>5, <1>6, <2>1, <2>2, <2>4, AccountingAt
  <2> QED BY <1>4, <2>5
<1>11. CASE ReportTaken(b) \/ ReportReleased(b)
  <2>1. ent' = ent /\ \A d \in Entries : Holders(d)' = Holders(d) /\ Waiters(d)' = Waiters(d)
    BY <1>11, <1>0, <1>2
       DEF ReportTaken, ReportReleased, Holders, Waiters, Waiting, Holding
  <2>2. \/ gauge' = gauge + 1 /\ C' = C \cup {b} /\ b \notin C
        \/ gauge' = gauge - 1 /\ C' = C \ {b} /\ b \in C
    BY <1>11, <1>0, <1>2 DEF ReportTaken, ReportReleased, Counted
  <2>3. Cardinality(C') = gauge'
    BY SMTT(30), <2>2, <1>6, CountAdd, CountRemove
  <2>4. Accounting'
    BY <1>0, <2>1, <2>3 DEF Accounting
  <2> QED BY <1>4, <2>4
<1> QED BY <1>7, <1>8, <1>9, <1>10, <1>11

(* Eviction deletes an entry, and forgets its counters, only when the counters
   are zero; they are exact, so no borrower is attached to it. *)
LEMMA EvictKeeps ==
  ASSUME SlotInv, NEW expired \in SUBSET Servers, Evict(expired)
  PROVE  Attached' /\ Accounting' /\ EntryPinned'
<1> DEFINE dead == {s \in Servers : conns[s] # None /\ Unattended(conns[s])}
<1>0. /\ ent \in [Entries -> Entry] /\ conns \in [Servers -> Entries \cup {None}]
      /\ Attached /\ EntryPinned /\ Accounting
  BY DEF SlotInv, TypeOK
<1>1. pc' = pc /\ lease' = lease /\ gauge' = gauge /\ ~closed /\ closed' = closed
  BY DEF Evict
<1>2. \A s \in Servers : conns'[s] = conns[s] \/ s \in dead
  BY <1>0 DEF Evict
<1>3. \A e \in Entries :
        \/ ent'[e].sem = ent[e].sem /\ ent'[e].waiters = ent[e].waiters
        \/ ent'[e].sem = 0 /\ ent'[e].waiters = 0 /\ Unattended(e)
  <2> SUFFICES ASSUME NEW e \in Entries
               PROVE  \/ ent'[e].sem = ent[e].sem /\ ent'[e].waiters = ent[e].waiters
                      \/ ent'[e].sem = 0 /\ ent'[e].waiters = 0 /\ Unattended(e)
    OBVIOUS
  <2>1. \/ ent'[e] = [ent[e] EXCEPT !.client = None] \/ ent'[e] = ent[e]
        \/ ent'[e] = NewEntry(None) /\ Unattended(e)
    BY <1>0 DEF Evict
  <2> QED BY <2>1, <1>0 DEF NewEntry, Entry
<1>4. \A e \in Entries : Unattended(e) => ent[e].sem = 0 /\ ent[e].waiters = 0
  BY DEF Unattended
<1>5. \A e \in Entries : Unattended(e) => Holders(e) = {} /\ Waiters(e) = {}
  BY SMTT(30), <1>0, <1>4, SetsFinite, FS_EmptySet DEF Accounting
<1>6. \A e \in Entries : Holders(e)' = Holders(e) /\ Waiters(e)' = Waiters(e)
  BY SMTT(30), <1>1 DEF Holders, Waiters
<1>7. Accounting'
  <2>1. \A e \in Entries : /\ ent'[e].sem = Cardinality(Holders(e))
                          /\ ent'[e].waiters = Cardinality(Waiters(e))
    BY SMTT(30), <1>0, <1>3, <1>4 DEF Accounting
  <2> QED BY SMTT(30), <1>0, <1>1, <1>6, <2>1 DEF Accounting
<1>8. EntryPinned'
  <2> SUFFICES ASSUME NEW b \in Borrowers, pc[b] \in Waiting \cup Holding
               PROVE  lease[b].server \in Servers /\ conns'[lease[b].server] = lease[b].entry
    BY <1>1 DEF EntryPinned
  <2>1. /\ lease[b].server \in Servers /\ lease[b].entry \in Entries
        /\ conns[lease[b].server] = lease[b].entry
    BY <1>0, <1>1 DEF EntryPinned, Attached
  <2>2. b \in Holders(lease[b].entry) \cup Waiters(lease[b].entry)
    BY DEF Holders, Waiters
  <2>3. lease[b].server \notin dead
    BY SMTT(30), <2>1, <2>2, <1>5
  <2> QED BY <2>1, <2>3, <1>2
<1> QED BY <1>0, <1>1, <1>7, <1>8 DEF Attached

(* Close detaches every entry and its cached client, and leaves the accounts alone. *)
LEMMA CloseKeeps ==
  ASSUME SlotInv, Close
  PROVE  Attached' /\ Accounting' /\ EntryPinned'
<1>0. ent \in [Entries -> Entry] /\ Attached /\ Accounting
  BY DEF SlotInv, TypeOK
<1>1. pc' = pc /\ lease' = lease /\ gauge' = gauge /\ closed'
  BY DEF Close
<1>2. \A e \in Entries : ent'[e].sem = ent[e].sem /\ ent'[e].waiters = ent[e].waiters
  BY <1>0 DEF Close, Entry
<1>3. \A e \in Entries : Holders(e)' = Holders(e) /\ Waiters(e)' = Waiters(e)
  BY <1>1 DEF Holders, Waiters
<1> QED BY <1>0, <1>1, <1>2, <1>3 DEF Attached, Accounting, EntryPinned

(* All the steps together *)
LEMMA SlotStep == SlotInv /\ [Next]_vars => SlotInv'
<1> SUFFICES ASSUME SlotInv, [Next]_vars PROVE Attached' /\ Accounting' /\ EntryPinned'
  BY TypeStep DEF SlotInv
<1>1. ASSUME NEW b \in Borrowers, BorrowerStep(b)
      PROVE  Attached' /\ Accounting' /\ EntryPinned'
  BY <1>1, QuietSteps, QuietKeeps, EnterKeeps, CountingSteps DEF BorrowerStep
<1>2. ASSUME PoolStep PROVE Attached' /\ Accounting' /\ EntryPinned'
  BY <1>2, QuietPoolSteps, QuietKeeps, EvictKeeps, CloseKeeps DEF PoolStep
<1> QED BY <1>1, <1>2, QuietPoolSteps, QuietKeeps DEF Next

(* Every variable keeps its type: in particular no counter is ever decremented
   below zero and no semaphore holds more than MaxConns tokens. *)
THEOREM TypeCorrect == Spec => []TypeOK
<1>1. SlotInv => TypeOK
  BY DEF SlotInv
<1> QED BY SlotInit, SlotStep, <1>1, PTL DEF Spec

(* The semaphores, the waiter counts and the quota gauge are exact. *)
THEOREM AccountingExact == Spec => []Accounting
<1>1. SlotInv => Accounting
  BY DEF SlotInv
<1> QED BY SlotInit, SlotStep, <1>1, PTL DEF Spec

(* evict never deletes an entry that a borrower waits on or holds a slot of. *)
THEOREM EntriesPinned == Spec => []EntryPinned
<1>1. SlotInv => EntryPinned
  BY DEF SlotInv
<1> QED BY SlotInit, SlotStep, <1>1, PTL DEF Spec

(* The concurrency limit holds per server, across eviction and re-creation of
   its entry: the holders of a server all hold tokens of one semaphore. *)
THEOREM ServerLimited == Spec => []ServerLimit
<1>1. SlotInv => ServerLimit
  <2> SUFFICES ASSUME SlotInv, ~closed, NEW s \in Servers
               PROVE  Cardinality({b \in Borrowers : pc[b] \in Holding /\ lease[b].server = s})
                        <= MaxConns
    BY DEF ServerLimit
  <2> DEFINE H == {b \in Borrowers : pc[b] \in Holding /\ lease[b].server = s}
  <2>1. CASE H = {}
    BY <2>1, FS_EmptySet, MaxConnsPositive
  <2>2. CASE H # {}
    <3>1. PICK b \in H : TRUE
      BY <2>2
    <3>2. conns[s] \in Entries
      BY <3>1 DEF SlotInv, EntryPinned, Attached
    <3>3. H \subseteq Holders(conns[s])
      BY DEF SlotInv, EntryPinned, Holders
    <3>4. Cardinality(H) <= Cardinality(Holders(conns[s]))
      BY <3>3, SetsFinite, FS_Subset
    <3>5. Cardinality(Holders(conns[s])) <= MaxConns
      BY SMTT(30), <3>2, MaxConnsPositive DEF SlotInv, Accounting, TypeOK, Entry
    <3>6. Cardinality(H) \in Nat /\ Cardinality(Holders(conns[s])) \in Nat
      BY SMTT(30), <3>3, SetsFinite, FS_Subset, FS_CardinalityType
    <3> QED BY <3>4, <3>5, <3>6, MaxConnsPositive
  <2> QED BY <2>1, <2>2
<1> QED BY SlotInit, SlotStep, <1>1, PTL DEF Spec

(* The books of the pool are in order for any number of borrowers, entries and
   clients: types, counters, registered entries and the limit per server. *)
THEOREM SlotsAlwaysExact == Spec => []SlotsExact
<1>1. TypeOK /\ Accounting /\ EntryPinned /\ ServerLimit => SlotsExact
  BY DEF SlotsExact
<1> QED BY TypeCorrect, AccountingExact, EntriesPinned, ServerLimited, <1>1, PTL

----------------------------------------------------------------------------
(* Generations.  A lease is never ahead of its entry, and agrees with it on the
   configuration when it agrees on the generation: the comparison of generations
   alone would do. *)
Generations ==
  \A b \in Borrowers : pc[b] \in Waiting \cup Holding =>
    /\ lease[b].generation <= ent[lease[b].entry].generation
    /\ lease[b].generation = ent[lease[b].entry].generation
         => lease[b].fingerprint = ent[lease[b].entry].fingerprint

(* An entry with borrowers attached either keeps generation and configuration
   or moves on to a later generation. *)
EntryAdvances ==
  \A b \in Borrowers : pc[b] \in Waiting \cup Holding =>
    LET e == lease[b].entry
    IN \/ ent'[e].generation > ent[e].generation
       \/ ent'[e].generation = ent[e].generation /\ ent'[e].fingerprint = ent[e].fingerprint

(* A changed configuration, a rebinding and an invalidation touch an entry that is in use,
   and each raises its generation. *)
LEMMA EntryAdvancesStep == SlotInv /\ [Next]_vars => EntryAdvances
<1> SUFFICES ASSUME SlotInv, [Next]_vars,
                    NEW x \in Borrowers, pc[x] \in Waiting \cup Holding,
                    NEW d \in Entries, d = lease[x].entry
             PROVE  \/ ent'[d].generation > ent[d].generation
                    \/ ent'[d].generation = ent[d].generation /\ ent'[d].fingerprint = ent[d].fingerprint
  BY DEF EntryAdvances, SlotInv, Attached
<1> DEFINE Good == \/ ent'[d].generation > ent[d].generation
                   \/ ent'[d].generation = ent[d].generation /\ ent'[d].fingerprint = ent[d].fingerprint
<1>0. /\ ent \in [Entries -> Entry] /\ ent[d] \in Entry /\ ent[d].generation \in Nat
      /\ conns \in [Servers -> Entries \cup {None}]
      /\ Attached
  BY DEF SlotInv, TypeOK, Entry
<1>1. CASE ent' = ent
  BY SMTT(30), <1>1
<1>2. ASSUME NEW b \in Borrowers, NEW s \in Servers, NEW f \in Fingerprints,
             NEW isFresh \in BOOLEAN, NEW e \in Entries, Enter(b, s, f, isFresh, e)
      PROVE  Good
  <2>1. CASE conns[s] = None
    <3>1. d # e
      BY SMTT(30), <1>2, <2>1 DEF Enter, UnusedEntry
    <3> QED BY <1>0, <1>2, <2>1, <3>1 DEF Enter
  <2>2. CASE conns[s] # None /\ ent[e].fingerprint = f
    BY <1>0, <1>2, <2>2 DEF Enter, Entry
  <2>3. CASE conns[s] # None /\ ent[e].fingerprint # f
    <3>1. ent' = [ent EXCEPT ![e] = [Adopt(e, f) EXCEPT !.waiters = @ + 1]]
      BY <1>2, <2>3 DEF Enter
    <3>2. e = d => [Adopt(e, f) EXCEPT !.waiters = @ + 1].generation = ent[d].generation + 1
      BY SMTT(30), <1>0 DEF Adopt, Entry
    <3> QED BY <1>0, <3>1, <3>2
  <2> QED BY <2>1, <2>2, <2>3
<1>3. ASSUME NEW b \in Borrowers, TakeSlot(b) \/ GiveUp(b) \/ RefuseSlot(b) \/ ReleaseSlot(b)
      PROVE  Good
  <2>1. \/ ent' = [ent EXCEPT ![lease[b].entry].sem = @ + 1]
        \/ ent' = [ent EXCEPT ![lease[b].entry].sem = @ - 1]
        \/ ent' = [ent EXCEPT ![lease[b].entry].waiters = @ - 1]
    BY SMTT(30), <1>3 DEF TakeSlot, GiveUp, LeaveQueue, RefuseSlot, ReleaseSlot, ReceiveSlot
  <2> QED BY SMTT(30), <1>0, <2>1 DEF Entry
<1>4. ASSUME NEW b \in Borrowers, TakeCached(b) PROVE Good
  <2>1. ent' = [ent EXCEPT ![lease[b].entry] = Taken(lease[b].entry)]
    BY <1>4 DEF TakeCached
  <2>2. Taken(d).generation = ent[d].generation /\ Taken(d).fingerprint = ent[d].fingerprint
    BY SMTT(30), <1>0 DEF Taken, Entry
  <2> QED BY <1>0, <2>1, <2>2
<1>5. ASSUME NEW b \in Borrowers, Return(b) PROVE Good
  <2>1. CASE MayCache(b)
    BY <1>0, <1>5, <2>1 DEF Return, Entry
  <2>2. CASE ~MayCache(b)
    BY SMTT(30), <1>5, <2>2 DEF Return
  <2> QED BY <2>1, <2>2
<1>6. ASSUME NEW b \in Borrowers, NEW f \in Fingerprints, RebindFingerprint(b, f) PROVE Good
  <2>1. ent' = [ent EXCEPT ![lease[b].entry].client = None,
                           ![lease[b].entry].fingerprint = f,
                           ![lease[b].entry].generation = @ + 1]
    BY SMTT(30), <1>6 DEF RebindFingerprint
  <2>2. CASE d = lease[b].entry
    <3>1. ent'[d].generation = ent[d].generation + 1
      BY ZenonT(30), <1>0, <2>1, <2>2 DEF Entry
    <3> QED BY SMTT(30), <1>0, <3>1
  <2>3. CASE d # lease[b].entry
    <3>1. ent'[d] = ent[d]
      BY ZenonT(30), <1>0, <2>1, <2>3
    <3> QED BY <1>0, <3>1
  <2> QED BY <2>2, <2>3
<1>7. ASSUME NEW s \in Servers, Invalidate(s) PROVE Good
  BY SMTT(60), <1>0, <1>7 DEF Invalidate, Entry
<1>8. ASSUME NEW expired \in SUBSET Servers, Evict(expired) PROVE Good
  <2>1. x \in Holders(d) \cup Waiters(d)
    BY DEF Holders, Waiters
  <2>2. ~Unattended(d)
    BY SMTT(30), <2>1, SetsFinite, FS_EmptySet DEF SlotInv, Accounting, Unattended
  <2>3. ent'[d] = ent[d] \/ ent'[d] = [ent[d] EXCEPT !.client = None]
    BY SMTT(30), <1>0, <1>8, <2>2 DEF Evict
  <2> QED BY <1>0, <2>3 DEF Entry
<1>9. ASSUME Close PROVE Good
  <2>1. ent'[d] = ent[d] \/ ent'[d] = [ent[d] EXCEPT !.client = None]
    BY SMTT(30), <1>0, <1>9 DEF Close
  <2> QED BY <1>0, <2>1 DEF Entry
<1>10. ASSUME NEW b \in Borrowers, BorrowerStep(b) PROVE Good
  <2>1. \/ ProbeHealthy(b) \/ ProbeUnhealthy(b) \/ ProbeAbandoned(b) \/ Grant(b)
        \/ RefuseLease(b) \/ (\E c \in Clients : StartDial(b, c)) \/ DialSucceeds(b)
        \/ DialFails(b) \/ SetClient(b) \/ (\E discard \in BOOLEAN : Finish(b, discard))
        \/ CloseHeld(b) \/ ReportTaken(b) \/ ReportReleased(b) \/ CloseLease(b)
        => ent' = ent
    BY SMTT(30) DEF ProbeHealthy, ProbeUnhealthy, ProbeAbandoned, Grant, RefuseLease, StartDial,
       DialSucceeds, DialFails, SetClient, Finish, CloseHeld, ReportTaken, ReportReleased,
       CloseLease
  <2> QED BY ZenonT(30), <1>10, <2>1, <1>1, <1>2, <1>3, <1>4, <1>5, <1>6 DEF BorrowerStep
<1>11. ASSUME PoolStep PROVE Good
  <2>1. CancelShutdown \/ (\E c \in Clients : CloseRetired(c)) => ent' = ent
    BY ZenonT(30) DEF CancelShutdown, CloseRetired
  <2> QED BY ZenonT(30), <1>11, <2>1, <1>1, <1>7, <1>8, <1>9 DEF PoolStep
<1>12. UNCHANGED vars => ent' = ent
  BY ZenonT(30) DEF vars
<1> QED BY ZenonT(30), <1>1, <1>10, <1>11, <1>12 DEF Next

(* Leases.  A step leaves the generation and configuration of a lease alone,
   creates it in step with its entry, drops it, or is its own rebinding. *)
LeaseMoves(b) ==
  \/ lease'[b].generation = lease[b].generation /\ lease'[b].fingerprint = lease[b].fingerprint
       /\ lease'[b].entry = lease[b].entry /\ lease'[b].server = lease[b].server
       /\ (pc[b] \in Waiting \cup Holding <=> pc'[b] \in Waiting \cup Holding)
  \/ pc'[b] \notin Waiting \cup Holding
  \/ /\ pc[b] = "idle" \/ (pc[b] = "leased" /\ Current(b))
     /\ lease'[b].entry \in Entries
     /\ lease'[b].generation = ent'[lease'[b].entry].generation
     /\ lease'[b].fingerprint = ent'[lease'[b].entry].fingerprint

(* Only entering the pool and a rebinding set them. *)
LEMMA LeaseMovesStep ==
  ASSUME SlotInv, [Next]_vars, NEW x \in Borrowers PROVE LeaseMoves(x)
<1>0. /\ pc \in [Borrowers -> PCs] /\ lease \in [Borrowers -> Lease]
      /\ ent \in [Entries -> Entry] /\ Attached
  BY DEF SlotInv, TypeOK
<1> USE DEF LeaseMoves
<1>1. CASE pc' = pc /\ lease' = lease
  BY SMTT(30), <1>1
<1>2. ASSUME NEW b \in Borrowers, NEW s \in Servers, NEW f \in Fingerprints,
             NEW isFresh \in BOOLEAN, NEW e \in Entries, Enter(b, s, f, isFresh, e)
      PROVE  LeaseMoves(x)
  <2>1. CASE x # b
    BY <1>0, <1>2, <2>1 DEF Enter
  <2>2. CASE x = b
    <3>1. /\ lease'[x].entry = e /\ lease'[x].generation = ent'[e].generation
          /\ lease'[x].fingerprint = f /\ pc[x] = "idle"
      BY <1>0, <1>2, <2>2 DEF Enter
    <3>2. ent'[e].fingerprint = f
      <4>1. CASE conns[s] = None
        BY <1>0, <1>2, <4>1 DEF Enter, NewEntry
      <4>2. CASE conns[s] # None /\ ent[e].fingerprint = f
        BY <1>0, <1>2, <4>2 DEF Enter, Entry
      <4>3. CASE conns[s] # None /\ ent[e].fingerprint # f
        <5>1. ent' = [ent EXCEPT ![e] = [Adopt(e, f) EXCEPT !.waiters = @ + 1]]
          BY <1>2, <4>3 DEF Enter
        <5>2. [Adopt(e, f) EXCEPT !.waiters = @ + 1].fingerprint = f
          BY SMTT(30), <1>0 DEF Adopt, Entry
        <5> QED BY <1>0, <5>1, <5>2
      <4> QED BY <4>1, <4>2, <4>3
    <3> QED BY <3>1, <3>2
  <2> QED BY <2>1, <2>2
<1>3. ASSUME NEW b \in Borrowers, NEW f \in Fingerprints, RebindFingerprint(b, f)
      PROVE  LeaseMoves(x)
  <2>1. CASE x # b
    <3>1. lease'[x] = lease[x] /\ pc'[x] = pc[x]
      BY ZenonT(30), <1>0, <1>3, <2>1 DEF RebindFingerprint
    <3> QED BY ZenonT(30), <3>1
  <2>2. CASE x = b
    <3>1. /\ pc[x] = "leased" /\ Current(x) /\ lease[x].entry \in Entries
          /\ lease[x].generation = ent[lease[x].entry].generation
      BY <1>0, <1>3, <2>2
         DEF RebindFingerprint, Attached, Holding, Current, SameGeneration, Own
    <3>2. /\ lease'[x].entry = lease[x].entry /\ lease'[x].fingerprint = f
          /\ lease'[x].generation = lease[x].generation + 1
      BY SMTT(30), <1>0, <1>3, <2>2 DEF RebindFingerprint, Lease
    <3>3. /\ ent'[lease[x].entry].generation = ent[lease[x].entry].generation + 1
          /\ ent'[lease[x].entry].fingerprint = f
      BY SMTT(30), <1>0, <1>3, <2>2, <3>1 DEF RebindFingerprint, Entry
    <3>4. /\ lease'[x].entry \in Entries
          /\ lease'[x].generation = ent'[lease'[x].entry].generation
          /\ lease'[x].fingerprint = ent'[lease'[x].entry].fingerprint
      BY <3>1, <3>2, <3>3
    <3> QED BY <3>1, <3>4
  <2> QED BY <2>1, <2>2
<1>4. ASSUME NEW b \in Borrowers, TakeSlot(b) \/ ReportTaken(b) \/ RefuseSlot(b)
                                  \/ ProbeHealthy(b) \/ ProbeAbandoned(b) \/ Grant(b) \/ RefuseLease(b)
      PROVE  LeaseMoves(x)
  BY <1>0, <1>4 DEF TakeSlot, ReportTaken, RefuseSlot, ProbeHealthy, ProbeAbandoned, Grant,
     RefuseLease, Waiting, Holding
<1>5. ASSUME NEW b \in Borrowers, GiveUp(b) \/ ReleaseSlot(b) \/ ReportReleased(b)
      PROVE  LeaseMoves(x)
  BY <1>0, <1>5 DEF GiveUp, LeaveQueue, ReleaseSlot, ReceiveSlot, ReportReleased,
     Waiting, Holding
<1>6. ASSUME NEW b \in Borrowers, TakeCached(b) \/ ProbeUnhealthy(b) \/ CloseHeld(b)
      PROVE  LeaseMoves(x)
  BY <1>0, <1>6 DEF TakeCached, ProbeUnhealthy, CloseHeld, Waiting, Holding, Lease
<1>7. ASSUME NEW b \in Borrowers, SetClient(b) PROVE LeaseMoves(x)
  BY <1>0, <1>7 DEF SetClient, Lease
<1>8. ASSUME NEW b \in Borrowers, NEW discard \in BOOLEAN, Finish(b, discard) PROVE LeaseMoves(x)
  BY <1>0, <1>8 DEF Finish, Holding, Lease
<1>9. ASSUME NEW b \in Borrowers, Return(b) PROVE LeaseMoves(x)
  BY SMTT(30), <1>0, <1>9 DEF Return, Holding, Lease
<1>10. ASSUME NEW b \in Borrowers, BorrowerStep(b) PROVE LeaseMoves(x)
  <2>1. (\E c \in Clients : StartDial(b, c)) \/ DialSucceeds(b) \/ DialFails(b) \/ CloseLease(b)
          => pc' = pc /\ lease' = lease
    BY ZenonT(30) DEF StartDial, DialSucceeds, DialFails, CloseLease
  <2> QED BY ZenonT(30), <1>10, <2>1, <1>1, <1>2, <1>3, <1>4, <1>5, <1>6, <1>7, <1>8, <1>9
        DEF BorrowerStep
<1>11. PoolStep \/ UNCHANGED vars => pc' = pc /\ lease' = lease
  BY ZenonT(30) DEF PoolStep, Invalidate, Evict, Close, CancelShutdown, CloseRetired, vars
<1> QED BY ZenonT(30), <1>1, <1>10, <1>11 DEF Next

(* A closed pool is never opened again. *)
LEMMA ClosedStays == closed /\ [Next]_vars => closed'
<1> SUFFICES ASSUME closed, [Next]_vars PROVE closed'
  OBVIOUS
<1>1. UNCHANGED vars => closed'
  BY SMTT(30) DEF vars
<1>2. PoolStep => closed'
  BY ZenonT(30) DEF PoolStep, Invalidate, Evict, Close, CancelShutdown, CloseRetired
<1>3. ASSUME NEW b \in Borrowers, BorrowerStep(b) PROVE closed'
  <2>1. (\E s \in Servers, f \in Fingerprints, isFresh \in BOOLEAN, e \in Entries :
           Enter(b, s, f, isFresh, e)) => closed'
    BY DEF Enter
  <2>2. TakeSlot(b) \/ GiveUp(b) \/ ReportTaken(b) \/ TakeCached(b) \/ RefuseSlot(b) => closed'
    BY ZenonT(30) DEF TakeSlot, GiveUp, LeaveQueue, ReportTaken, TakeCached, RefuseSlot
  <2>3. ProbeHealthy(b) \/ ProbeUnhealthy(b) \/ ProbeAbandoned(b) \/ Grant(b) \/ RefuseLease(b)
          => closed'
    BY ZenonT(30) DEF ProbeHealthy, ProbeUnhealthy, ProbeAbandoned, Grant, RefuseLease
  <2>4. (\E c \in Clients : StartDial(b, c)) \/ DialSucceeds(b) \/ DialFails(b) \/ SetClient(b)
          \/ (\E f \in Fingerprints : RebindFingerprint(b, f)) => closed'
    BY ZenonT(30) DEF StartDial, DialSucceeds, DialFails, SetClient, RebindFingerprint
  <2>5. (\E discard \in BOOLEAN : Finish(b, discard)) \/ Return(b) \/ CloseHeld(b)
          \/ ReleaseSlot(b) \/ ReportReleased(b) \/ CloseLease(b) => closed'
    BY ZenonT(30) DEF Finish, Return, CloseHeld, ReleaseSlot, ReceiveSlot, ReportReleased, CloseLease
  <2> QED BY <1>3, <2>1, <2>2, <2>3, <2>4, <2>5 DEF BorrowerStep
<1> QED BY <1>1, <1>2, <1>3 DEF Next

(* The generations a lease and an entry carry are numbers, before and after. *)
LEMMA GenerationTypes ==
  ASSUME SlotInv, TypeOK', NEW b \in Borrowers, pc[b] \in Waiting \cup Holding
  PROVE  /\ lease[b].entry \in Entries /\ lease[b].generation \in Nat
         /\ ent[lease[b].entry].generation \in Nat /\ ent'[lease[b].entry].generation \in Nat
<1>1. lease[b] \in Lease /\ lease[b].entry \in Entries
  BY DEF SlotInv, TypeOK, Attached
<1>2. ent[lease[b].entry] \in Entry /\ ent'[lease[b].entry] \in Entry
  BY SMTT(30), <1>1 DEF SlotInv, TypeOK
<1> QED BY <1>1, <1>2 DEF Lease, Entry

(* A lease never runs ahead of its entry. *)
LEMMA GenerationsStep == SlotInv /\ Generations /\ [Next]_vars => Generations'
<1> SUFFICES ASSUME SlotInv, Generations, [Next]_vars, NEW b \in Borrowers,
                    pc'[b] \in Waiting \cup Holding
             PROVE  /\ lease'[b].generation <= ent'[lease'[b].entry].generation
                    /\ lease'[b].generation = ent'[lease'[b].entry].generation
                         => lease'[b].fingerprint = ent'[lease'[b].entry].fingerprint
  BY DEF Generations
<1>1. LeaseMoves(b) /\ EntryAdvances /\ TypeOK'
  BY LeaseMovesStep, EntryAdvancesStep, TypeStep
<1>2. CASE lease'[b].entry = lease[b].entry /\ pc[b] \in Waiting \cup Holding
           /\ lease'[b].generation = lease[b].generation /\ lease'[b].fingerprint = lease[b].fingerprint
  <2> PICK e : e = lease[b].entry
    BY SMTT(30)
  <2>1. /\ e \in Entries /\ lease[b].generation \in Nat
        /\ ent[e].generation \in Nat /\ ent'[e].generation \in Nat
    BY ZenonT(30), <1>1, <1>2, GenerationTypes
  <2>2. /\ lease[b].generation <= ent[e].generation
        /\ lease[b].generation = ent[e].generation => lease[b].fingerprint = ent[e].fingerprint
    BY SMTT(30), <1>2 DEF Generations
  <2>3. \/ ent'[e].generation > ent[e].generation
        \/ ent'[e].generation = ent[e].generation /\ ent'[e].fingerprint = ent[e].fingerprint
    BY SMTT(30), <1>1, <1>2 DEF EntryAdvances
  <2>4. /\ lease[b].generation <= ent'[e].generation
        /\ lease[b].generation = ent'[e].generation => lease[b].fingerprint = ent'[e].fingerprint
    BY SMTT(30), <2>1, <2>2, <2>3
  <2> QED BY <1>2, <2>4
<1>3. CASE lease'[b].entry \in Entries /\ lease'[b].generation = ent'[lease'[b].entry].generation
           /\ lease'[b].fingerprint = ent'[lease'[b].entry].fingerprint
  BY SMTT(60), <1>1, <1>3 DEF TypeOK, Entry
<1> QED BY ZenonT(30), <1>1, <1>2, <1>3 DEF LeaseMoves

(* A lease that has become stale stays stale: its generation is behind its
   entry's, entries with borrowers only move forward, and only a current lease
   may move itself. *)
THEOREM StaleStaysStale == Spec => StaleForever
<1>1. Init => SlotInv /\ Generations
  BY SlotInit DEF Init, Generations, Waiting, Holding
<1>2. SlotInv /\ Generations /\ [Next]_vars => (SlotInv /\ Generations)'
  BY SlotStep, GenerationsStep
<1>3. SlotInv /\ Generations /\ [Next]_vars
        => [\A b \in Borrowers :
              pc[b] = "leased" /\ pc'[b] = "leased" /\ ~Current(b) => ~Current(b)']_vars
  <2> SUFFICES ASSUME SlotInv, Generations, [Next]_vars, NEW b \in Borrowers,
                      pc[b] = "leased", pc'[b] = "leased", ~Current(b)
               PROVE  ~Current(b)'
    OBVIOUS
  <2>1. LeaseMoves(b) /\ EntryAdvances /\ TypeOK'
    BY LeaseMovesStep, EntryAdvancesStep, TypeStep
  <2>2. pc[b] \in Holding /\ pc'[b] \in Holding
    BY DEF Holding
  <2>3. /\ lease'[b].generation = lease[b].generation /\ lease'[b].fingerprint = lease[b].fingerprint
        /\ lease'[b].entry = lease[b].entry
    BY <2>1, <2>2 DEF LeaseMoves
  <2>4. CASE closed
    <3>1. closed'
      BY SMTT(30), <2>4, ClosedStays
    <3> QED BY <3>1 DEF Current
  <2>5. CASE ~closed
    <3> PICK e : e = lease[b].entry
      OBVIOUS
    <3>1. /\ e \in Entries /\ lease[b].generation \in Nat
          /\ ent[e].generation \in Nat /\ ent'[e].generation \in Nat
      BY <2>1, <2>2, GenerationTypes
    <3>2. ~SameGeneration(b)
      BY SMTT(30), <2>2, <2>5 DEF Current, SlotInv, EntryPinned
    <3>3. lease[b].generation < ent[e].generation
      BY SMTT(30), <2>2, <3>1, <3>2 DEF SameGeneration, Own, Generations
    <3>4. ent'[e].generation >= ent[e].generation
      BY SMTT(30), <2>1, <2>2, <3>1 DEF EntryAdvances
    <3>5. lease[b].generation # ent'[e].generation
      BY <3>1, <3>3, <3>4
    <3> QED BY <2>3, <3>5 DEF Current, SameGeneration, Own
  <2> QED BY <2>4, <2>5
<1> QED BY <1>1, <1>2, <1>3, PTL DEF Spec, StaleForever
=============================================================================
