------------------------------ MODULE SSHPool ------------------------------
(***************************************************************************)
(* The Hub's SSH connection pool (backend/internal/pkg/sshpool/pool.go).   *)
(*                                                                         *)
(* The pool keeps, for every server, one entry: an idle cached transport,  *)
(* the configuration fingerprint and generation it belongs to, a channel   *)
(* used as a counting semaphore, and a count of the callers waiting on it. *)
(* A borrower is one goroutine inside acquireContext or owning the Lease   *)
(* it returned.  pool.mu protects the entries and lease.mu one lease; one  *)
(* action stands for one critical section or one blocking call, so that    *)
(* the interleavings are those of the unlocked gaps.  A call to            *)
(* ssh.Client.Close happens outside the lock and is a step of its own.     *)
(*                                                                         *)
(* Context cancellation, timers, idle expiry, probe results and dial       *)
(* results come from the environment and are nondeterministic.             *)
(***************************************************************************)
EXTENDS Integers, FiniteSets

CONSTANTS Servers,        \* server IDs
          Borrowers,      \* goroutines that acquire leases
          Entries,        \* identities of connEntry objects
          Clients,        \* identities of *ssh.Client objects
          Fingerprints,   \* configuration fingerprints (never "")
          None,           \* nil, and the empty fingerprint of an invalidated entry
          MaxConns,       \* capacity of an entry's semaphore
          MaxGeneration   \* bound on an entry's generation

ASSUME BorrowersFinite == IsFiniteSet(Borrowers)
ASSUME MaxConnsPositive == MaxConns \in Nat \ {0}
ASSUME MaxGenerationPositive == MaxGeneration \in Nat \ {0}
ASSUME NoneIsNoValue == None \notin Entries \cup Clients \cup Fingerprints

VARIABLES
  conns,     \* Pool.conns: server -> entry (all None once Close made it nil)
  closed,    \* Pool.closed, and the closed channel Pool.done
  shutdown,  \* Pool.shutdown has been cancelled
  sweep,     \* leases that Close snapshotted and has still to close
  ent,       \* connEntry objects
  pc,        \* where each borrower is (see PCs)
  lease,     \* the arguments of its acquireContext call, then its Lease
  dial,      \* the client a lease is dialling, or has dialled and not yet set
  open,      \* clients that are connected and not yet closed by the Hub
  dialled,   \* configuration each client was dialled under
  retired,   \* clients detached from the pool that some goroutine will close
  gauge      \* slots in use according to the quota observer

poolVars == <<conns, closed, shutdown, sweep>>
vars == <<poolVars, ent, pc, lease, dial, open, dialled, retired, gauge>>

(* pc values, in the order acquireContext and finish go through them:
   waiting    in the select on the semaphore, counted in waiters
   slotted    slot taken, gauge not yet told
   counted    gauge told, about to re-lock and leave waiters
   probing    owns the cached client it took, probing (or closing) it
   granting   about to re-lock for the last check
   leased     the Lease exists and is not done
   returning  finish has set done and taken Lease.Client
   closing    about to close the client it holds, if any
   dropping   about to receive from the semaphore
   reporting  slot given back, gauge not yet told                          *)
Waiting == {"waiting", "slotted", "counted"}
Holding == {"slotted", "counted", "probing", "granting", "leased",
            "returning", "closing", "dropping"}
Counted == {"counted", "probing", "granting", "leased", "returning",
            "closing", "dropping", "reporting"}
PCs == {"idle"} \cup Waiting \cup Holding \cup Counted

Entry == [client : Clients \cup {None}, fingerprint : Fingerprints \cup {None},
          generation : 1..MaxGeneration, sem : 0..MaxConns, waiters : Nat]
Lease == [server : Servers \cup {None}, entry : Entries \cup {None},
          fingerprint : Fingerprints \cup {None}, generation : 0..MaxGeneration,
          fresh : BOOLEAN, client : Clients \cup {None}, cacheable : BOOLEAN]

NewEntry(f) == [client |-> None, fingerprint |-> f, generation |-> 1,
                sem |-> 0, waiters |-> 0]
NoLease == [server |-> None, entry |-> None, fingerprint |-> None,
            generation |-> 0, fresh |-> FALSE, client |-> None,
            cacheable |-> FALSE]

----------------------------------------------------------------------------
(* An operator that stands directly before another one and bears its name with
   a suffix is a faulty variant of it.  No specification uses the variants;
   each shows that a property below would notice the fault. *)
Own(b) == ent[lease[b].entry]

(* entry.generation == generation && entry.fingerprint == fingerprint *)
SameGeneration(b) ==
  /\ Own(b).generation = lease[b].generation
  /\ Own(b).fingerprint = lease[b].fingerprint

(* The test that Valid (apart from done), RebindFingerprint and finish make *)
Current(b) ==
  /\ ~closed
  /\ conns[lease[b].server] = lease[b].entry
  /\ SameGeneration(b)

(* The channel has room for one more. *)
Vacant(e) == ent[e].sem < MaxConns

(* evict deletes an entry only when nobody holds or awaits one of its slots. *)
UnattendedButAwaited(e) == ent[e].sem = 0
Unattended(e) == ent[e].sem = 0 /\ ent[e].waiters = 0

(* The conditions under which finish puts the client back into the entry. *)
MayCacheStale(b) == lease[b].cacheable /\ ~closed /\ Own(b).client = None
MayCache(b) == lease[b].cacheable /\ Current(b) /\ Own(b).client = None

(* acquireContext meets an entry of another configuration. *)
AdoptSameGeneration(e, f) == [ent[e] EXCEPT !.client = None, !.fingerprint = f]
Adopt(e, f) == [ent[e] EXCEPT !.client = None, !.fingerprint = f,
                              !.generation = @ + 1]

(* The second critical section leaves the waiters and empties the cache. *)
Taken(e) == [ent[e] EXCEPT !.waiters = @ - 1, !.client = None]

(* SetClient keeps the client only in a live lease of an open pool. *)
KeepsDialledUntilDone(b) == pc[b] = "leased"
KeepsDialled(b) == pc[b] = "leased" /\ ~closed

(* ssh.Client.Close; a closed client is garbage once nobody refers to it. *)
CloseClients(cs) ==
  /\ open' = open \ cs
  /\ dialled' = [c \in Clients |-> IF c \in cs THEN None ELSE dialled[c]]

(* What becomes of a client detached from the pool: some goroutine closes it. *)
RetireForgotten(c) == retired
Retire(c) == retired \cup ({c} \ {None})

UnusedClient(c) ==
  /\ c \notin open \cup retired
  /\ \A e \in Entries : ent[e].client # c
  /\ \A b \in Borrowers : lease[b].client # c /\ dial[b] # c

UnusedEntry(e) ==
  /\ \A s \in Servers : conns[s] # e
  /\ \A b \in Borrowers : lease[b].entry # e

Init ==
  /\ conns = [s \in Servers |-> None]
  /\ closed = FALSE /\ shutdown = FALSE /\ sweep = {}
  /\ ent = [e \in Entries |-> NewEntry(None)]
  /\ pc = [b \in Borrowers |-> "idle"]
  /\ lease = [b \in Borrowers |-> NoLease]
  /\ dial = [b \in Borrowers |-> None]
  /\ open = {} /\ retired = {} /\ gauge = 0
  /\ dialled = [c \in Clients |-> None]

----------------------------------------------------------------------------
(* acquireContext, the first critical section: find or create the entry,
   adopt a changed configuration, join the waiters. *)
Enter(b, s, f, isFresh, e) ==
  /\ pc[b] = "idle" /\ dial[b] = None
  /\ ~closed
  /\ IF conns[s] = None
       THEN /\ UnusedEntry(e)
            /\ conns' = [conns EXCEPT ![s] = e]
            /\ ent' = [ent EXCEPT ![e] = [NewEntry(f) EXCEPT !.waiters = 1]]
            /\ UNCHANGED retired
       ELSE /\ conns[s] = e
            /\ UNCHANGED conns
            /\ IF ent[e].fingerprint = f
                 THEN /\ ent' = [ent EXCEPT ![e].waiters = @ + 1]
                      /\ UNCHANGED retired
                 ELSE /\ ent[e].generation < MaxGeneration
                      /\ retired' = Retire(ent[e].client)
                      /\ ent' = [ent EXCEPT ![e] =
                           [Adopt(e, f) EXCEPT !.waiters = @ + 1]]
  /\ pc' = [pc EXCEPT ![b] = "waiting"]
  /\ lease' = [lease EXCEPT ![b] =
       [server |-> s, entry |-> e, fingerprint |-> f,
        generation |-> ent'[e].generation, fresh |-> isFresh,
        client |-> None, cacheable |-> TRUE]]
  /\ UNCHANGED <<closed, shutdown, sweep, dial, open, dialled, gauge>>

(* The select: the send on the semaphore wins. *)
TakeSlot(b) ==
  /\ pc[b] = "waiting"
  /\ Vacant(lease[b].entry)
  /\ ent' = [ent EXCEPT ![lease[b].entry].sem = @ + 1]
  /\ pc' = [pc EXCEPT ![b] = "slotted"]
  /\ UNCHANGED <<poolVars, lease, dial, open, dialled, retired, gauge>>

(* The select: the timer, the context or the closed pool wins. *)
LeaveQueue(b) ==
  /\ ent' = [ent EXCEPT ![lease[b].entry].waiters = @ - 1]
  /\ pc' = [pc EXCEPT ![b] = "idle"]
  /\ lease' = [lease EXCEPT ![b] = NoLease]
  /\ UNCHANGED <<poolVars, dial, open, dialled, retired, gauge>>
GiveUp(b) == pc[b] = "waiting" /\ LeaveQueue(b)

(* notifyQuota(consumer, 1) *)
ReportTaken(b) ==
  /\ pc[b] = "slotted"
  /\ gauge' = gauge + 1
  /\ pc' = [pc EXCEPT ![b] = "counted"]
  /\ UNCHANGED <<poolVars, ent, lease, dial, open, dialled, retired>>

(* The second critical section, when the request is still good: leave the
   waiters and take the cached client out of the entry. *)
TakeCached(b) ==
  /\ pc[b] = "counted"
  /\ ~closed /\ SameGeneration(b)
  /\ ent' = [ent EXCEPT ![lease[b].entry] = Taken(lease[b].entry)]
  /\ lease' = [lease EXCEPT ![b].client = Own(b).client]
  /\ pc' = [pc EXCEPT ![b] = IF Own(b).client = None THEN "granting" ELSE "probing"]
  /\ UNCHANGED <<poolVars, dial, open, dialled, retired, gauge>>

(* The second critical section, when the context is done (at any moment), the
   pool is closed or the configuration moved on: only the slot goes back. *)
RefuseSlot(b) ==
  /\ pc[b] = "counted"
  /\ ent' = [ent EXCEPT ![lease[b].entry].waiters = @ - 1]
  /\ pc' = [pc EXCEPT ![b] = "closing"]
  /\ UNCHANGED <<poolVars, lease, dial, open, dialled, retired, gauge>>

(* The probe of a cached client succeeds. *)
ProbeHealthy(b) ==
  /\ pc[b] = "probing" /\ ~lease[b].fresh
  /\ pc' = [pc EXCEPT ![b] = "granting"]
  /\ UNCHANGED <<poolVars, ent, lease, dial, open, dialled, retired, gauge>>

(* The probe fails or times out, or a fresh acquisition skips it: the client is
   closed and the borrower goes on with a vacant slot. *)
ProbeUnhealthy(b) ==
  /\ pc[b] = "probing"
  /\ CloseClients({lease[b].client})
  /\ lease' = [lease EXCEPT ![b].client = None]
  /\ pc' = [pc EXCEPT ![b] = "granting"]
  /\ UNCHANGED <<poolVars, ent, dial, retired, gauge>>

(* Context done or pool closed while the probe runs. *)
ProbeAbandoned(b) ==
  /\ pc[b] = "probing" /\ ~lease[b].fresh
  /\ pc' = [pc EXCEPT ![b] = "closing"]
  /\ UNCHANGED <<poolVars, ent, lease, dial, open, dialled, retired, gauge>>

(* The last critical section: the Lease is created and registered. *)
Grant(b) ==
  /\ pc[b] = "granting"
  /\ ~closed /\ SameGeneration(b)
  /\ pc' = [pc EXCEPT ![b] = "leased"]
  /\ UNCHANGED <<poolVars, ent, lease, dial, open, dialled, retired, gauge>>

(* The last critical section refuses: the client is closed, the slot returned. *)
RefuseLease(b) ==
  /\ pc[b] = "granting"
  /\ pc' = [pc EXCEPT ![b] = "closing"]
  /\ UNCHANGED <<poolVars, ent, lease, dial, open, dialled, retired, gauge>>

----------------------------------------------------------------------------
(* A holder dials a transport for its slot.  DialContext refuses once the pool
   is shutting down; a dial already under way may still succeed. *)
StartDial(b, c) ==
  /\ pc[b] = "leased" /\ dial[b] = None
  /\ ~shutdown
  /\ UnusedClient(c)
  /\ dial' = [dial EXCEPT ![b] = c]
  /\ dialled' = [dialled EXCEPT ![c] = lease[b].fingerprint]
  /\ UNCHANGED <<poolVars, ent, pc, lease, open, retired, gauge>>

DialSucceeds(b) ==
  /\ dial[b] \in Clients \ open
  /\ open' = open \cup {dial[b]}
  /\ UNCHANGED <<poolVars, ent, pc, lease, dial, dialled, retired, gauge>>

DialFails(b) ==
  /\ dial[b] \in Clients \ open
  /\ dial' = [dial EXCEPT ![b] = None]
  /\ dialled' = [dialled EXCEPT ![dial[b]] = None]
  /\ UNCHANGED <<poolVars, ent, pc, lease, open, retired, gauge>>

(* SetClient.  A lease that is already done, or a closed pool, does not adopt
   the client; a client it replaces is closed. *)
SetClient(b) ==
  /\ dial[b] \in open
  /\ dial' = [dial EXCEPT ![b] = None]
  /\ IF KeepsDialled(b)
       THEN /\ retired' = Retire(lease[b].client)
            /\ lease' = [lease EXCEPT ![b].client = dial[b]]
     ELSE IF pc[b] = "leased"
       THEN /\ retired' = Retire(dial[b]) \cup ({lease[b].client} \cap open)
            /\ lease' = [lease EXCEPT ![b].client = None]
     ELSE retired' = Retire(dial[b]) /\ UNCHANGED lease
  /\ UNCHANGED <<poolVars, ent, pc, open, dialled, gauge>>

(* RebindFingerprint: only the current generation may move its entry on, and
   the transport that did so is never cached.  An unchanged fingerprint is a
   no-op, a stale lease is refused; neither changes anything. *)
RebindFingerprint(b, f) ==
  /\ pc[b] = "leased" /\ Current(b)
  /\ f # lease[b].fingerprint
  /\ Own(b).generation < MaxGeneration
  /\ retired' = Retire(Own(b).client)
  /\ ent' = [ent EXCEPT ![lease[b].entry].client = None,
                        ![lease[b].entry].fingerprint = f,
                        ![lease[b].entry].generation = @ + 1]
  /\ lease' = [lease EXCEPT ![b].fingerprint = f, ![b].cacheable = FALSE,
                            ![b].generation = @ + 1]
  /\ UNCHANGED <<poolVars, pc, dial, open, dialled, gauge>>

(* finish, under lease.mu: done is set and Lease.Client taken.  Discard is
   remembered in cacheable, which nothing reads before the next step. *)
Finish(b, discard) ==
  /\ pc[b] = "leased"
  /\ pc' = [pc EXCEPT ![b] = "returning"]
  /\ lease' = [lease EXCEPT ![b].cacheable = @ /\ ~discard]
  /\ UNCHANGED <<poolVars, ent, dial, open, dialled, retired, gauge>>

(* finish, under pool.mu: cache the client if everything still matches. *)
Return(b) ==
  /\ pc[b] = "returning"
  /\ IF MayCache(b)
       THEN /\ ent' = [ent EXCEPT ![lease[b].entry].client = lease[b].client]
            /\ lease' = [lease EXCEPT ![b].client = None]
       ELSE UNCHANGED <<ent, lease>>
  /\ pc' = [pc EXCEPT ![b] = "closing"]
  /\ UNCHANGED <<poolVars, dial, open, dialled, retired, gauge>>

(* Every path that gives a slot back first closes the client it still holds. *)
CloseHeld(b) ==
  /\ pc[b] = "closing"
  /\ CloseClients({lease[b].client})
  /\ lease' = [lease EXCEPT ![b].client = None]
  /\ pc' = [pc EXCEPT ![b] = "dropping"]
  /\ UNCHANGED <<poolVars, ent, dial, retired, gauge>>

(* releaseSlot: receive from the semaphore, then tell the observer. *)
ReceiveSlot(b) ==
  /\ ent' = [ent EXCEPT ![lease[b].entry].sem = @ - 1]
  /\ pc' = [pc EXCEPT ![b] = "reporting"]
  /\ lease' = [lease EXCEPT ![b] = NoLease]
  /\ UNCHANGED <<poolVars, dial, open, dialled, retired, gauge>>
ReleaseSlot(b) == pc[b] = "dropping" /\ ReceiveSlot(b)

ReportReleased(b) ==
  /\ pc[b] = "reporting"
  /\ gauge' = gauge - 1
  /\ pc' = [pc EXCEPT ![b] = "idle"]
  /\ UNCHANGED <<poolVars, ent, lease, dial, open, dialled, retired>>

----------------------------------------------------------------------------
Invalidate(s) ==
  /\ conns[s] # None
  /\ ent[conns[s]].generation < MaxGeneration
  /\ retired' = Retire(ent[conns[s]].client)
  /\ ent' = [ent EXCEPT ![conns[s]].client = None,
                        ![conns[s]].fingerprint = None,
                        ![conns[s]].generation = @ + 1]
  /\ UNCHANGED <<poolVars, pc, lease, dial, open, dialled, gauge>>

(* evict drops the transports that have been idle too long and every entry
   nobody holds or waits for.  It runs until the pool is closed. *)
Evict(expired) ==
  LET live == {s \in Servers : conns[s] # None}
      dead == {s \in live : /\ s \in expired \/ ent[conns[s]].client = None
                            /\ Unattended(conns[s])}
      idle == {conns[s] : s \in live \cap expired}
  IN /\ ~closed
     /\ retired' = retired \cup ({ent[e].client : e \in idle} \ {None})
     /\ ent' = [e \in Entries |->
                  IF e \in {conns[s] : s \in dead} THEN NewEntry(None)
                  ELSE IF e \in idle THEN [ent[e] EXCEPT !.client = None] ELSE ent[e]]
     /\ conns' = [s \in Servers |-> IF s \in dead THEN None ELSE conns[s]]
     /\ UNCHANGED <<closed, shutdown, sweep, pc, lease, dial, open, dialled,
                    gauge>>

(* Close, under pool.mu: the cached clients are taken and the registered leases
   snapshotted (a lease whose finish has not reached pool.mu still is one). *)
Close ==
  LET live == {conns[s] : s \in Servers} \ {None}
  IN /\ ~closed
     /\ closed' = TRUE
     /\ retired' = retired \cup ({ent[e].client : e \in live} \ {None})
     /\ ent' = [e \in Entries |->
                  IF e \in live THEN [ent[e] EXCEPT !.client = None] ELSE ent[e]]
     /\ sweep' = {b \in Borrowers : pc[b] \in {"leased", "returning"}}
     /\ conns' = [s \in Servers |-> None]
     /\ UNCHANGED <<shutdown, pc, lease, dial, open, dialled, gauge>>

CancelShutdown ==
  /\ closed /\ ~shutdown
  /\ shutdown' = TRUE
  /\ UNCHANGED <<conns, closed, sweep, ent, pc, lease, dial, open, dialled,
                 retired, gauge>>

(* Close closes the transport of a lease that is still in use; Lease.Client is
   nil once finish has taken it. *)
CloseLease(b) ==
  /\ shutdown /\ b \in sweep
  /\ sweep' = sweep \ {b}
  /\ CloseClients(IF pc[b] = "leased" THEN {lease[b].client} ELSE {})
  /\ UNCHANGED <<conns, closed, shutdown, ent, pc, lease, dial,
                 retired, gauge>>

(* A goroutine closes a client it detached from the pool. *)
CloseRetired(c) ==
  /\ c \in retired
  /\ retired' = retired \ {c}
  /\ CloseClients({c})
  /\ UNCHANGED <<poolVars, ent, pc, lease, dial, gauge>>

BorrowerStep(b) ==
  \/ \E s \in Servers, f \in Fingerprints, isFresh \in BOOLEAN, e \in Entries :
       Enter(b, s, f, isFresh, e)
  \/ TakeSlot(b) \/ GiveUp(b) \/ ReportTaken(b)
  \/ TakeCached(b) \/ RefuseSlot(b)
  \/ ProbeHealthy(b) \/ ProbeUnhealthy(b) \/ ProbeAbandoned(b)
  \/ Grant(b) \/ RefuseLease(b)
  \/ \E c \in Clients : StartDial(b, c)
  \/ DialSucceeds(b) \/ DialFails(b) \/ SetClient(b)
  \/ \E f \in Fingerprints : RebindFingerprint(b, f)
  \/ \E discard \in BOOLEAN : Finish(b, discard)
  \/ Return(b) \/ CloseHeld(b) \/ ReleaseSlot(b) \/ ReportReleased(b)
  \/ CloseLease(b)

PoolStep ==
  \/ \E s \in Servers : Invalidate(s)
  \/ \E expired \in SUBSET Servers : Evict(expired)
  \/ Close \/ CancelShutdown
  \/ \E c \in Clients : CloseRetired(c)

Next == PoolStep \/ \E b \in Borrowers : BorrowerStep(b)

Spec == Init /\ [][Next]_vars

(* Fairness.  A goroutine inside acquireContext or finish keeps running: its
   critical sections are short, the select has a timer, the probe has
   probeTimeout and a dial has its context.  Close runs to its end, and a
   goroutine closes the client it detached.  Nothing is assumed about callers:
   whether they acquire, dial, rebind or ever finish a lease is up to them. *)
CallProgress(b) ==
  \/ TakeSlot(b) \/ GiveUp(b) \/ ReportTaken(b) \/ TakeCached(b)
  \/ RefuseSlot(b) \/ ProbeHealthy(b) \/ ProbeUnhealthy(b)
  \/ ProbeAbandoned(b) \/ Grant(b) \/ RefuseLease(b)
  \/ Return(b) \/ CloseHeld(b) \/ ReleaseSlot(b) \/ ReportReleased(b)
DialProgress(b) == DialSucceeds(b) \/ DialFails(b) \/ SetClient(b)

FairSpec ==
  /\ Spec
  /\ WF_vars(CancelShutdown)
  /\ \A b \in Borrowers : /\ WF_vars(CallProgress(b))
                          /\ WF_vars(DialProgress(b))
                          /\ WF_vars(CloseLease(b))
  /\ \A c \in Clients : WF_vars(CloseRetired(c))

----------------------------------------------------------------------------
TypeOK ==
  /\ conns \in [Servers -> Entries \cup {None}]
  /\ closed \in BOOLEAN /\ shutdown \in BOOLEAN /\ sweep \in SUBSET Borrowers
  /\ ent \in [Entries -> Entry]
  /\ pc \in [Borrowers -> PCs]
  /\ lease \in [Borrowers -> Lease]
  /\ dial \in [Borrowers -> Clients \cup {None}]
  /\ open \in SUBSET Clients /\ retired \in SUBSET Clients
  /\ dialled \in [Clients -> Fingerprints \cup {None}]
  /\ gauge \in Nat

Waiters(e) == {b \in Borrowers : pc[b] \in Waiting /\ lease[b].entry = e}
Holders(e) == {b \in Borrowers : pc[b] \in Holding /\ lease[b].entry = e}

(* The three counters of the pool tell the truth at every moment: an entry's
   semaphore holds one token per borrower between the send in acquireContext
   and the receive in releaseSlot, waiters counts the borrowers that may still
   send on it, and the quota gauge counts the slots reported and not yet
   unreported, whichever error path a borrower takes. *)
Accounting ==
  /\ \A e \in Entries : /\ ent[e].sem = Cardinality(Holders(e))
                        /\ ent[e].waiters = Cardinality(Waiters(e))
  /\ gauge = Cardinality({b \in Borrowers : pc[b] \in Counted})

(* A borrower that waits for or holds a slot is attached to the entry the pool
   has for its server, until the pool is closed: evict never deletes an entry
   from under it, so the semaphore it uses is the one later callers use. *)
EntryPinned ==
  \A b \in Borrowers : pc[b] \in Waiting \cup Holding /\ ~closed =>
    /\ lease[b].server \in Servers
    /\ conns[lease[b].server] = lease[b].entry

(* At most MaxConns borrowers hold a slot for one server at a time, even when
   eviction deletes and acquireContext re-creates the server's entry. *)
ServerLimit ==
  ~closed => \A s \in Servers :
    Cardinality({b \in Borrowers : pc[b] \in Holding /\ lease[b].server = s})
      <= MaxConns

(* The pool's books are in order, whichever error path a borrower takes. *)
SlotsExact == TypeOK /\ Accounting /\ EntryPinned /\ ServerLimit

(* Where a client can be: cached in a registered entry, with a borrower, with
   a dialler, or in the hands of a goroutine that is about to close it. *)
Places(c) ==
  {<<"cache", s>> : s \in {t \in Servers : conns[t] # None /\ ent[conns[t]].client = c}}
    \cup {<<"lease", b>> : b \in {x \in Borrowers : lease[x].client = c}}
    \cup {<<"dial", b>> : b \in {x \in Borrowers : dial[x] = c}}
    \cup (IF c \in retired THEN {<<"retired", c>>} ELSE {})

(* A transport is owned by exactly one party as long as it is open: none is
   handed to two borrowers, and none is dropped without being closed.  Before
   shutdown, nobody closes a transport a lease still uses: Invalidate, eviction
   and other borrowers retire it "without interrupting an operation already
   using a lease". *)
SoleOwner ==
  /\ \A c \in open : Cardinality(Places(c)) = 1
  /\ \A b \in Borrowers :
       ~closed /\ pc[b] = "leased" /\ lease[b].client # None => lease[b].client \in open

(* A transport waiting in the cache is open and was dialled under the very
   configuration its entry has now, so that acquireContext never hands out a
   connection to a previous configuration of the server. *)
CacheMatchesConfiguration ==
  \A e \in Entries : ent[e].client # None =>
    ent[e].client \in open /\ dialled[ent[e].client] = ent[e].fingerprint

(* A lease that Valid once called stale never becomes current again, whatever
   configurations the server goes through (it may return to the old one). *)
StaleForever ==
  [][\A b \in Borrowers :
       pc[b] = "leased" /\ pc'[b] = "leased" /\ ~Current(b) => ~Current(b)']_vars

(* Every call ends: an acquisition with a lease, or with an error and nothing
   held, and a finished lease gives its slot back.  After Close every transport
   gets closed, those being dialled or returned while Close ran included, even if
   no caller ever finishes its lease. *)
Drains ==
  /\ \A b \in Borrowers : pc[b] \notin {"idle", "leased"} ~> pc[b] \in {"idle", "leased"}
  /\ closed ~> [](open = {})
============================================================================
