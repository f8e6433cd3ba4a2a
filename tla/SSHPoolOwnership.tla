-------------------------- MODULE SSHPoolOwnership --------------------------
(* Proofs about who owns a transport of SSHPool, for every number of servers,
   borrowers, entries, clients and configurations and every bound. *)
EXTENDS SSHPoolProofs

USE NoneIsNoValue DEF poolVars

(* No client is in two of the places it can be: an entry's cache, a borrower's
   lease, a borrower's dial, or the hands of a goroutine that will close it. *)
CachesApart ==
  /\ \A e, f \in Entries : ent[e].client # None /\ ent[e].client = ent[f].client => e = f
  /\ \A e \in Entries, b \in Borrowers :
       ent[e].client # None => ent[e].client # lease[b].client /\ ent[e].client # dial[b]
  /\ \A e \in Entries : ent[e].client \notin retired
HandsApart ==
  /\ \A a, b \in Borrowers : lease[a].client # None /\ lease[a].client = lease[b].client => a = b
  /\ \A a, b \in Borrowers : dial[a] # None /\ dial[a] = dial[b] => a = b
  /\ \A a, b \in Borrowers : lease[a].client # None => lease[a].client # dial[b]
  /\ \A b \in Borrowers : lease[b].client \notin retired /\ dial[b] \notin retired
Unshared == CachesApart /\ HandsApart

(* An open client is in one of them. *)
Owned ==
  \A c \in open : \/ c \in retired
                  \/ \E e \in Entries : ent[e].client = c
                  \/ \E b \in Borrowers : lease[b].client = c \/ dial[b] = c

(* Only a registered entry caches a client, and no two servers share an entry. *)
CachesRegistered ==
  /\ \A s, t \in Servers : conns[s] # None /\ conns[s] = conns[t] => s = t
  /\ \A e \in Entries : ent[e].client # None => \E s \in Servers : conns[s] = e
  /\ closed => \A s \in Servers : conns[s] = None
  /\ shutdown => closed

(* A borrower has a client only between the moment it takes the cached one and the
   moment it has closed or cached it. *)
InUse == {"probing", "granting", "leased", "returning", "closing"}
HeldInUse == \A b \in Borrowers : lease[b].client # None => pc[b] \in InUse

(* A borrower's client is open until Close sweeps the leases, and one that finish may
   cache was dialled under the configuration of its lease. *)
HeldCurrent ==
  /\ \A b \in Borrowers : ~closed /\ lease[b].client # None =>
       /\ lease[b].client \in open
       /\ lease[b].cacheable => dialled[lease[b].client] = lease[b].fingerprint
  /\ \A b \in Borrowers : lease[b].cacheable /\ dial[b] # None =>
       dialled[dial[b]] = lease[b].fingerprint

(* The inductive strengthening of SoleOwner and CacheMatchesConfiguration *)
OwnerInv == /\ SlotInv /\ Unshared /\ Owned /\ CachesRegistered /\ HeldInUse /\ HeldCurrent
            /\ CacheMatchesConfiguration

(* What the invariant is for: an open client has exactly one place. *)
LEMMA OwnedAlone == OwnerInv => SoleOwner
<1> SUFFICES ASSUME OwnerInv PROVE SoleOwner
  OBVIOUS
<1>0. CachesApart /\ HandsApart /\ CachesRegistered /\ Owned
  BY DEF OwnerInv, Unshared
<1>1. ASSUME NEW c \in open PROVE Cardinality(Places(c)) = 1
  <2>0. c # None /\ \A s \in Servers : conns[s] # None => conns[s] \in Entries
    BY DEF OwnerInv, SlotInv, TypeOK
  <2> SUFFICES \E x : Places(c) = {x}
    BY FS_Singleton
  <2>1. CASE c \in retired
    <3>1. Places(c) = {<<"retired", c>>}
      BY <1>0, <2>0, <2>1 DEF Places, CachesApart, HandsApart
    <3> QED BY Zenon, <3>1
  <2>2. ASSUME NEW e \in Entries, ent[e].client = c PROVE \E x : Places(c) = {x}
    <3>1. PICK s \in Servers : conns[s] = e
      BY Zenon, <1>0, <2>0, <2>2 DEF CachesRegistered
    <3>2. \A t \in Servers : conns[t] # None /\ ent[conns[t]].client = c => t = s
      BY <1>0, <2>0, <2>2, <3>1 DEF CachesRegistered, CachesApart
    <3>3. c \notin retired /\ \A b \in Borrowers : lease[b].client # c /\ dial[b] # c
      BY <1>0, <2>0, <2>2 DEF CachesApart
    <3>4. Places(c) = {<<"cache", s>>}
      BY <2>0, <2>2, <3>1, <3>2, <3>3 DEF Places
    <3> QED BY Zenon, <3>4
  <2>3. ASSUME NEW b \in Borrowers, lease[b].client = c PROVE \E x : Places(c) = {x}
    <3>1. Places(c) = {<<"lease", b>>}
      BY <1>0, <2>0, <2>3 DEF Places, CachesApart, HandsApart
    <3> QED BY Zenon, <3>1
  <2>4. ASSUME NEW b \in Borrowers, dial[b] = c PROVE \E x : Places(c) = {x}
    <3>1. Places(c) = {<<"dial", b>>}
      BY <1>0, <2>0, <2>4 DEF Places, CachesApart, HandsApart
    <3> QED BY Zenon, <3>1
  <2> QED BY Zenon, <1>0, <2>1, <2>2, <2>3, <2>4 DEF Owned
<1>2. \A b \in Borrowers :
        ~closed /\ pc[b] = "leased" /\ lease[b].client # None => lease[b].client \in open
  BY DEF OwnerInv, HeldCurrent
<1> QED BY <1>1, <1>2 DEF SoleOwner

OwnersKept == /\ Unshared /\ Owned /\ HeldInUse /\ HeldCurrent /\ CacheMatchesConfiguration

(* The steps that move one client from a place to the next, or close it. *)
LEMMA ReturnKeeps ==
  ASSUME OwnerInv, NEW b \in Borrowers, Return(b) PROVE OwnersKept'
<1>0. TypeOK /\ lease[b].entry \in Entries
  BY DEF OwnerInv, SlotInv, Attached, Return, Holding
<1> DEFINE e == lease[b].entry
<1>1. /\ UNCHANGED <<closed, dial, open, dialled, retired>> /\ pc'[b] \in InUse
      /\ \A x \in Borrowers \ {b} : lease'[x] = lease[x] /\ pc'[x] = pc[x]
  BY <1>0 DEF TypeOK, Return, InUse
<1>2. /\ None \notin open /\ None \notin retired
  BY <1>0 DEF TypeOK
<1>3. CASE MayCache(b)
  <2>1. /\ \A x \in Entries \ {e} : ent'[x] = ent[x]
        /\ ent'[e].client = lease[b].client /\ ent'[e].fingerprint = ent[e].fingerprint
    BY <1>0, <1>3 DEF TypeOK, Entry, Return
  <2>2. /\ lease'[b].client = None /\ lease'[b].cacheable = lease[b].cacheable
        /\ lease'[b].fingerprint = lease[b].fingerprint
    BY <1>0, <1>3 DEF TypeOK, Lease, Return
  <2>3. /\ ent[e].client = None /\ ~closed /\ lease[b].cacheable
        /\ ent[e].fingerprint = lease[b].fingerprint
    BY <1>3 DEF MayCache, Current, SameGeneration, Own
  <2>4. Unshared'
    <3>1. CachesApart'
      BY <1>0, <1>1, <1>2, <2>1, <2>2, <2>3 DEF OwnerInv, Unshared, CachesApart, HandsApart
    <3>2. HandsApart'
      BY <1>1, <1>2, <2>2 DEF OwnerInv, Unshared, HandsApart
    <3> QED BY <3>1, <3>2 DEF Unshared
  <2>5. Owned'
    BY <1>0, <1>1, <1>2, <2>1, <2>2, <2>3 DEF OwnerInv, Owned
  <2>6. HeldInUse' /\ HeldCurrent'
    BY <1>1, <2>2 DEF OwnerInv, HeldInUse, HeldCurrent
  <2>7. CacheMatchesConfiguration'
    BY <1>0, <1>1, <2>1, <2>3 DEF OwnerInv, HeldCurrent, CacheMatchesConfiguration
  <2> QED BY <2>4, <2>5, <2>6, <2>7 DEF OwnersKept
<1>4. CASE ~MayCache(b)
  <2>1. UNCHANGED <<ent, lease>>
    BY <1>4 DEF Return
  <2>2. Unshared'
    BY Zenon, <1>1, <2>1 DEF OwnerInv, Unshared, CachesApart, HandsApart
  <2>3. Owned'
    BY <1>1, <2>1 DEF OwnerInv, Owned
  <2>4. HeldInUse'
    BY <1>1, <2>1 DEF OwnerInv, HeldInUse
  <2>5. HeldCurrent'
    BY <1>1, <2>1 DEF OwnerInv, HeldCurrent
  <2>6. CacheMatchesConfiguration'
    BY <1>1, <2>1 DEF OwnerInv, CacheMatchesConfiguration
  <2> QED BY <2>2, <2>3, <2>4, <2>5, <2>6 DEF OwnersKept
<1> QED BY <1>3, <1>4

(* The cached client moves from the entry into the lease that takes it. *)
LEMMA TakeCachedKeeps ==
  ASSUME OwnerInv, NEW b \in Borrowers, TakeCached(b) PROVE OwnersKept'
<1>0. TypeOK /\ lease[b].entry \in Entries
  BY DEF OwnerInv, SlotInv, Attached, TakeCached, Waiting
<1> DEFINE e == lease[b].entry
<1>1. /\ \A x \in Entries \ {e} : ent'[x] = ent[x]
      /\ ent'[e].client = None
  BY <1>0 DEF TypeOK, Entry, TakeCached, Taken
<1>2. /\ \A x \in Borrowers \ {b} : lease'[x] = lease[x] /\ pc'[x] = pc[x]
      /\ lease'[b].client = ent[e].client /\ lease'[b].cacheable = lease[b].cacheable
      /\ lease'[b].fingerprint = lease[b].fingerprint
  BY <1>0 DEF TypeOK, Lease, TakeCached, Own
<1>3. /\ lease[b].fingerprint = ent[e].fingerprint
      /\ UNCHANGED <<closed, dial, open, dialled, retired>>
  BY DEF TakeCached, SameGeneration, Own
<1>14. lease[b].client = None
  BY DEF TakeCached, OwnerInv, HeldInUse, InUse
<1>4. pc'[b] \in InUse
  BY <1>0 DEF TypeOK, TakeCached, InUse
<1>5. None \notin open /\ None \notin retired
  BY <1>0 DEF TypeOK
<1>6. Unshared'
  <2>1. CachesApart'
    BY <1>0, <1>1, <1>2, <1>3, <1>5 DEF OwnerInv, Unshared, CachesApart, HandsApart
  <2>2. HandsApart'
    BY <1>0, <1>1, <1>2, <1>3, <1>5 DEF OwnerInv, Unshared, CachesApart, HandsApart
  <2> QED BY <2>1, <2>2 DEF Unshared
<1>7. Owned'
  BY <1>0, <1>1, <1>2, <1>3, <1>14, <1>5 DEF OwnerInv, Owned
<1>8. HeldInUse'
  BY <1>2, <1>4 DEF OwnerInv, HeldInUse
<1>9. HeldCurrent'
  BY <1>0, <1>1, <1>2, <1>3, <1>5 DEF OwnerInv, HeldCurrent, CacheMatchesConfiguration
<1>10. CacheMatchesConfiguration'
  BY <1>0, <1>1, <1>3 DEF OwnerInv, CacheMatchesConfiguration
<1> QED BY <1>6, <1>7, <1>8, <1>9, <1>10 DEF OwnersKept

(* A lease closes the client it holds itself: after a failed probe, or when finish did
   not cache it. *)
LEMMA CloseOwnKeeps ==
  ASSUME OwnerInv, NEW b \in Borrowers, ProbeUnhealthy(b) \/ CloseHeld(b) PROVE OwnersKept'
<1>0. TypeOK
  BY DEF OwnerInv, SlotInv
<1>1. /\ \A x \in Borrowers \ {b} : lease'[x] = lease[x] /\ pc'[x] = pc[x]
      /\ lease'[b].client = None /\ lease'[b].cacheable = lease[b].cacheable
      /\ lease'[b].fingerprint = lease[b].fingerprint
  BY <1>0 DEF TypeOK, Lease, ProbeUnhealthy, CloseHeld
<1>2. /\ UNCHANGED <<closed, dial, ent, retired>> /\ open' = open \ {lease[b].client}
      /\ \A c \in Clients \ {lease[b].client} : dialled'[c] = dialled[c]
  BY <1>0 DEF TypeOK, ProbeUnhealthy, CloseHeld, CloseClients
<1>3. /\ None \notin open /\ None \notin retired
      /\ \A x \in Entries : ent[x].client # None => ent[x].client \in Clients
      /\ \A x \in Borrowers : /\ lease[x].client # None => lease[x].client \in Clients
                              /\ dial[x] # None => dial[x] \in Clients
  BY <1>0 DEF TypeOK, Entry, Lease
<1>4. Unshared'
  <2>1. CachesApart'
    BY <1>1, <1>2, <1>3 DEF OwnerInv, Unshared, CachesApart, HandsApart
  <2>2. HandsApart'
    BY <1>1, <1>2, <1>3 DEF OwnerInv, Unshared, CachesApart, HandsApart
  <2> QED BY <2>1, <2>2 DEF Unshared
<1>5. Owned'
  BY <1>1, <1>2, <1>3 DEF OwnerInv, Owned
<1>6. HeldInUse'
  BY <1>1 DEF OwnerInv, HeldInUse
<1>7. HeldCurrent'
  BY <1>1, <1>2, <1>3 DEF OwnerInv, Unshared, HandsApart, HeldCurrent
<1>8. CacheMatchesConfiguration'
  BY <1>1, <1>2, <1>3 DEF OwnerInv, Unshared, CachesApart, CacheMatchesConfiguration
<1> QED BY <1>4, <1>5, <1>6, <1>7, <1>8 DEF OwnersKept

(* A dialled client belongs to its borrower until SetClient. *)
LEMMA DialKeeps ==
  ASSUME OwnerInv, NEW b \in Borrowers,
         (\E c \in Clients : StartDial(b, c)) \/ DialSucceeds(b) \/ DialFails(b)
  PROVE  OwnersKept'
<1>0. TypeOK
  BY DEF OwnerInv, SlotInv
<1>1. UNCHANGED <<closed, ent, lease, pc, retired>>
  BY DEF StartDial, DialSucceeds, DialFails
<1>2. \A x \in Borrowers \ {b} : dial'[x] = dial[x]
  BY <1>0 DEF TypeOK, StartDial, DialSucceeds, DialFails
<1>3. /\ None \notin open /\ None \notin retired
      /\ \A x \in Entries : ent[x].client # None => ent[x].client \in Clients
      /\ \A x \in Borrowers : /\ lease[x].client # None => lease[x].client \in Clients
                              /\ dial[x] # None => dial[x] \in Clients
  BY <1>0 DEF TypeOK, Entry, Lease
<1>4. HeldInUse'
  BY <1>1 DEF OwnerInv, HeldInUse
<1>5. ASSUME NEW c \in Clients, StartDial(b, c) PROVE OwnersKept'
  <2>1. /\ dial'[b] = c /\ dialled'[c] = lease[b].fingerprint /\ open' = open
        /\ \A x \in Clients \ {c} : dialled'[x] = dialled[x]
    BY <1>0, <1>5 DEF TypeOK, StartDial
  <2>2. /\ c \notin open \cup retired /\ dial[b] = None
        /\ \A e \in Entries : ent[e].client # c
        /\ \A x \in Borrowers : lease[x].client # c /\ dial[x] # c
    BY <1>5 DEF StartDial, UnusedClient
  <2>3. Unshared'
    <3>1. CachesApart'
      BY <1>1, <1>2, <1>3, <2>1, <2>2 DEF OwnerInv, Unshared, CachesApart, HandsApart
    <3>2. HandsApart'
      BY <1>1, <1>2, <1>3, <2>1, <2>2 DEF OwnerInv, Unshared, CachesApart, HandsApart
    <3> QED BY <3>1, <3>2 DEF Unshared
  <2>4. Owned'
    BY <1>1, <1>2, <1>3, <2>1, <2>2 DEF OwnerInv, Owned
  <2>5. HeldCurrent'
    BY <1>1, <1>2, <1>3, <2>1, <2>2 DEF OwnerInv, HeldCurrent
  <2>6. CacheMatchesConfiguration'
    BY <1>1, <1>2, <1>3, <2>1, <2>2 DEF OwnerInv, CacheMatchesConfiguration
  <2> QED BY <1>4, <2>3, <2>4, <2>5, <2>6 DEF OwnersKept
<1>6. CASE DialSucceeds(b)
  <2>1. UNCHANGED <<dial, dialled>> /\ open' = open \cup {dial[b]}
    BY <1>6 DEF DialSucceeds
  <2>2. Unshared'
    BY <1>1, <2>1 DEF OwnerInv, Unshared, CachesApart, HandsApart
  <2>3. Owned'
    BY <1>1, <2>1 DEF OwnerInv, Owned
  <2>4. HeldCurrent'
    BY <1>1, <2>1 DEF OwnerInv, HeldCurrent
  <2>5. CacheMatchesConfiguration'
    BY <1>1, <2>1 DEF OwnerInv, CacheMatchesConfiguration
  <2> QED BY <1>4, <2>2, <2>3, <2>4, <2>5 DEF OwnersKept
<1>7. CASE DialFails(b)
  <2>1. /\ dial[b] \in Clients \ open /\ open' = open /\ dial'[b] = None
        /\ \A x \in Clients \ {dial[b]} : dialled'[x] = dialled[x]
    BY <1>0, <1>7 DEF TypeOK, DialFails
  <2>2. Unshared'
    <3>1. CachesApart'
      BY <1>1, <1>2, <1>3, <2>1 DEF OwnerInv, Unshared, CachesApart, HandsApart
    <3>2. HandsApart'
      BY <1>1, <1>2, <1>3, <2>1 DEF OwnerInv, Unshared, CachesApart, HandsApart
    <3> QED BY <3>1, <3>2 DEF Unshared
  <2>3. Owned'
    BY <1>1, <1>2, <1>3, <2>1 DEF OwnerInv, Owned
  <2>4. HeldCurrent'
    BY <1>1, <1>2, <1>3, <2>1 DEF OwnerInv, Unshared, HandsApart, HeldCurrent
  <2>5. CacheMatchesConfiguration'
    BY <1>1, <1>3, <2>1 DEF OwnerInv, Unshared, CachesApart, CacheMatchesConfiguration
  <2> QED BY <1>4, <2>2, <2>3, <2>4, <2>5 DEF OwnersKept
<1> QED BY <1>5, <1>6, <1>7

(* SetClient moves the dialled client into the lease, or retires it when the lease is
   stale. *)
LEMMA SetClientKeeps ==
  ASSUME OwnerInv, NEW b \in Borrowers, SetClient(b) PROVE OwnersKept'
<1>0. TypeOK
  BY DEF OwnerInv, SlotInv
<1>1. /\ UNCHANGED <<closed, ent, pc, open, dialled>> /\ dial[b] \in open /\ dial'[b] = None
      /\ \A x \in Borrowers \ {b} : dial'[x] = dial[x] /\ lease'[x] = lease[x]
  BY <1>0 DEF TypeOK, SetClient
<1>2. lease'[b].cacheable = lease[b].cacheable /\ lease'[b].fingerprint = lease[b].fingerprint
  BY <1>0 DEF TypeOK, Lease, SetClient
<1>3. /\ None \notin open /\ None \notin retired
      /\ \A x \in Entries : ent[x].client # None => ent[x].client \in Clients
      /\ \A x \in Borrowers : /\ lease[x].client # None => lease[x].client \in Clients
                              /\ dial[x] # None => dial[x] \in Clients
  BY <1>0 DEF TypeOK, Entry, Lease
<1>4. CASE pc[b] = "leased" /\ ~closed
  <2>1. lease'[b].client = dial[b] /\ retired' = Retire(lease[b].client)
    BY <1>0, <1>4 DEF TypeOK, Lease, SetClient, KeepsDialled
  <2>2. Unshared'
    <3>1. CachesApart'
      BY <1>1, <1>3, <2>1 DEF OwnerInv, Unshared, CachesApart, HandsApart, Retire
    <3>2. HandsApart'
      BY <1>1, <1>3, <2>1 DEF OwnerInv, Unshared, CachesApart, HandsApart, Retire
    <3> QED BY <3>1, <3>2 DEF Unshared
  <2>3. Owned'
    BY <1>1, <1>3, <2>1 DEF OwnerInv, Owned, Retire
  <2>4. HeldInUse'
    BY <1>1, <1>4 DEF OwnerInv, HeldInUse, InUse
  <2>5. HeldCurrent'
    BY <1>1, <1>2, <1>3, <1>4, <2>1 DEF OwnerInv, HeldCurrent
  <2> QED BY <1>1, <2>2, <2>3, <2>4, <2>5 DEF OwnersKept, OwnerInv, CacheMatchesConfiguration
<1>5. CASE pc[b] = "leased" /\ closed
  <2>1. lease'[b].client = None /\ retired' = Retire(dial[b]) \cup ({lease[b].client} \cap open)
    BY <1>0, <1>5 DEF TypeOK, Lease, SetClient, KeepsDialled
  <2>2. Unshared'
    <3>1. CachesApart'
      BY <1>1, <1>3, <2>1 DEF OwnerInv, Unshared, CachesApart, HandsApart, Retire
    <3>2. HandsApart'
      BY <1>1, <1>3, <2>1 DEF OwnerInv, Unshared, CachesApart, HandsApart, Retire
    <3> QED BY <3>1, <3>2 DEF Unshared
  <2>3. Owned'
    BY <1>1, <1>3, <2>1 DEF OwnerInv, Owned, Retire
  <2>4. HeldInUse' /\ HeldCurrent'
    BY <1>1, <1>2, <1>3, <1>5, <2>1 DEF OwnerInv, HeldInUse, HeldCurrent, InUse
  <2> QED BY <1>1, <2>2, <2>3, <2>4 DEF OwnersKept, OwnerInv, CacheMatchesConfiguration
<1>6. CASE pc[b] # "leased"
  <2>1. lease' = lease /\ retired' = Retire(dial[b])
    BY <1>6 DEF SetClient, KeepsDialled
  <2>2. Unshared'
    <3>1. CachesApart'
      BY <1>1, <1>3, <2>1 DEF OwnerInv, Unshared, CachesApart, HandsApart, Retire
    <3>2. HandsApart'
      BY <1>1, <1>3, <2>1 DEF OwnerInv, Unshared, CachesApart, HandsApart, Retire
    <3> QED BY <3>1, <3>2 DEF Unshared
  <2>3. Owned'
    BY <1>1, <1>3, <2>1 DEF OwnerInv, Owned, Retire
  <2>4. HeldInUse' /\ HeldCurrent'
    BY <1>1, <2>1 DEF OwnerInv, HeldInUse, HeldCurrent
  <2> QED BY <1>1, <2>2, <2>3, <2>4 DEF OwnersKept, OwnerInv, CacheMatchesConfiguration
<1> QED BY <1>4, <1>5, <1>6

(* Close closes the client of a lease it found registered; a detached client is closed by
   the goroutine that was given it. *)
LEMMA ClosingKeeps ==
  ASSUME OwnerInv, (\E b \in Borrowers : CloseLease(b)) \/ (\E c \in Clients : CloseRetired(c))
  PROVE  OwnersKept'
<1>0. TypeOK
  BY DEF OwnerInv, SlotInv
<1>3. /\ None \notin open /\ None \notin retired
      /\ \A x \in Entries : ent[x].client # None => ent[x].client \in Clients
      /\ \A x \in Borrowers : /\ lease[x].client # None => lease[x].client \in Clients
                              /\ dial[x] # None => dial[x] \in Clients
  BY <1>0 DEF TypeOK, Entry, Lease
<1>4. ASSUME NEW b \in Borrowers, CloseLease(b) PROVE OwnersKept'
  <2>1. /\ UNCHANGED <<closed, dial, ent, retired, lease, pc>> /\ closed
        /\ open' = open \ {lease[b].client} \/ open' = open
        /\ \A c \in Clients \ {lease[b].client} : dialled'[c] = dialled[c]
    BY Zenon, <1>0, <1>4 DEF TypeOK, CloseLease, CloseClients, OwnerInv, CachesRegistered
  <2>2. Unshared'
    BY <2>1 DEF OwnerInv, Unshared, CachesApart, HandsApart
  <2>5. Owned' /\ HeldInUse'
    BY <2>1 DEF OwnerInv, Owned, HeldInUse
  <2>3. HeldCurrent'
    BY <1>3, <2>1 DEF OwnerInv, Unshared, HandsApart, HeldCurrent
  <2>4. CacheMatchesConfiguration'
    BY <1>3, <2>1 DEF OwnerInv, Unshared, CachesApart, CacheMatchesConfiguration
  <2> QED BY <2>2, <2>3, <2>4, <2>5 DEF OwnersKept
<1>5. ASSUME NEW c \in Clients, CloseRetired(c) PROVE OwnersKept'
  <2>1. /\ UNCHANGED <<closed, dial, ent, lease, pc>> /\ c \in retired
        /\ retired' = retired \ {c} /\ open' = open \ {c}
        /\ \A x \in Clients \ {c} : dialled'[x] = dialled[x]
    BY <1>0, <1>5 DEF TypeOK, CloseRetired, CloseClients
  <2>2. Unshared'
    BY Zenon, <2>1 DEF OwnerInv, Unshared, CachesApart, HandsApart
  <2>5. Owned' /\ HeldInUse'
    BY <2>1 DEF OwnerInv, Owned, HeldInUse
  <2>3. HeldCurrent'
    BY <1>3, <2>1 DEF OwnerInv, Unshared, HandsApart, HeldCurrent
  <2>4. CacheMatchesConfiguration'
    BY <1>3, <2>1 DEF OwnerInv, Unshared, CachesApart, CacheMatchesConfiguration
  <2> QED BY <2>2, <2>3, <2>4, <2>5 DEF OwnersKept
<1> QED BY <1>4, <1>5

(* A step that takes clients out of caches, if anything, and hands each of them to a
   goroutine that closes it.  The steps that move no client are of this kind too. *)
CachesShrink ==
  /\ \A e \in Entries : ent'[e].client # None =>
       ent'[e].client = ent[e].client /\ ent'[e].fingerprint = ent[e].fingerprint
  /\ \A e \in Entries : ent[e].client # None /\ ent'[e].client = None => ent[e].client \in retired'
  /\ \A c \in retired' : c \in retired \/ \E e \in Entries : ent[e].client = c /\ ent'[e].client = None
  /\ retired \subseteq retired'
  /\ \A b \in Borrowers :
       /\ lease'[b].client = lease[b].client
       /\ lease'[b].cacheable /\ (lease[b].client # None \/ dial[b] # None) =>
            lease[b].cacheable /\ lease'[b].fingerprint = lease[b].fingerprint
       /\ lease[b].client # None => pc'[b] \in InUse
  /\ closed => closed'
  /\ UNCHANGED <<dial, open, dialled>>

(* Emptying caches breaks no ownership. *)
LEMMA ShrinkKeeps == OwnerInv /\ TypeOK' /\ CachesShrink => OwnersKept'
<1> SUFFICES ASSUME OwnerInv, TypeOK', CachesShrink PROVE OwnersKept'
  OBVIOUS
<1>0. None \notin retired' /\ None \notin open
  BY DEF TypeOK, OwnerInv, SlotInv
<1>1. Unshared'
  <2>1. \A e \in Entries, b \in Borrowers :
          ent[e].client # None => ent[e].client # lease[b].client /\ ent[e].client # dial[b]
    BY DEF OwnerInv, Unshared, CachesApart
  <2>2. \A e, f \in Entries : ent'[e].client # None /\ ent'[e].client = ent'[f].client => e = f
    BY DEF OwnerInv, Unshared, CachesApart, CachesShrink
  <2>3. \A e \in Entries : ent'[e].client \notin retired'
    BY <1>0 DEF OwnerInv, Unshared, CachesApart, CachesShrink
  <2>4. \A b \in Borrowers : lease'[b].client \notin retired' /\ dial'[b] \notin retired'
    BY <1>0, <2>1 DEF OwnerInv, Unshared, HandsApart, CachesShrink
  <2>5. CachesApart'
    BY <2>1, <2>2, <2>3 DEF CachesApart, CachesShrink
  <2>6. HandsApart'
    BY <2>4 DEF OwnerInv, Unshared, HandsApart, CachesShrink
  <2> QED BY <2>5, <2>6 DEF Unshared
<1>2. Owned'
  BY <1>0 DEF OwnerInv, Owned, CachesShrink
<1>3. HeldInUse' /\ HeldCurrent'
  BY DEF OwnerInv, HeldInUse, HeldCurrent, CachesShrink
<1>4. CacheMatchesConfiguration'
  BY DEF OwnerInv, CacheMatchesConfiguration, CachesShrink
<1> QED BY <1>1, <1>2, <1>3, <1>4 DEF OwnersKept

(* The steps that move no client. *)
LEMMA StillSteps ==
  ASSUME OwnerInv, NEW b \in Borrowers,
         \/ TakeSlot(b) \/ GiveUp(b) \/ ReportTaken(b) \/ RefuseSlot(b) \/ ProbeHealthy(b)
         \/ ProbeAbandoned(b) \/ Grant(b) \/ RefuseLease(b) \/ ReleaseSlot(b) \/ ReportReleased(b)
         \/ \E discard \in BOOLEAN : Finish(b, discard)
  PROVE  CachesShrink
<1>0. TypeOK /\ Attached
  BY DEF OwnerInv, SlotInv
<1>1. UNCHANGED <<dial, open, dialled, retired, closed>>
  BY DEF TakeSlot, GiveUp, LeaveQueue, ReportTaken, RefuseSlot, ProbeHealthy, ProbeAbandoned, Grant,
         RefuseLease, ReleaseSlot, ReceiveSlot, ReportReleased, Finish
<1>2. \A e \in Entries : ent'[e].client = ent[e].client /\ ent'[e].fingerprint = ent[e].fingerprint
  BY SMTT(60), <1>0 DEF TypeOK, Entry, TakeSlot, GiveUp, LeaveQueue, ReportTaken,
         RefuseSlot, ProbeHealthy, ProbeAbandoned, Grant, RefuseLease, ReleaseSlot, ReceiveSlot, ReportReleased, Finish
<1>3. \A x \in Borrowers :
       /\ lease'[x].client = lease[x].client
       /\ lease'[x].cacheable => lease[x].cacheable /\ lease'[x].fingerprint = lease[x].fingerprint
  BY <1>0 DEF OwnerInv, HeldInUse, InUse, NoLease, TypeOK, Lease, TakeSlot, GiveUp,
         LeaveQueue, ReportTaken, RefuseSlot, ProbeHealthy,
         ProbeAbandoned, Grant, RefuseLease, ReleaseSlot, ReceiveSlot, ReportReleased, Finish
<1>4. \A x \in Borrowers : lease[x].client # None => pc'[x] \in InUse
  BY <1>0 DEF OwnerInv, HeldInUse, InUse, TypeOK, TakeSlot, GiveUp, LeaveQueue,
         ReportTaken, RefuseSlot, ProbeHealthy,
         ProbeAbandoned, Grant, RefuseLease, ReleaseSlot, ReceiveSlot, ReportReleased, Finish
<1> QED BY <1>1, <1>2, <1>3, <1>4 DEF CachesShrink

(* The steps that empty caches: a new configuration, an invalidation, the eviction of
   what has been idle, and the end of the pool. *)
LEMMA EnterShrinks ==
  ASSUME OwnerInv, NEW b \in Borrowers, NEW s \in Servers, NEW f \in Fingerprints,
         NEW isFresh \in BOOLEAN, NEW e \in Entries, Enter(b, s, f, isFresh, e)
  PROVE  CachesShrink
<1>0. TypeOK
  BY DEF OwnerInv, SlotInv
<1>1. UNCHANGED <<dial, open, dialled, closed>>
  BY DEF Enter
<1>2. \A x \in Borrowers \ {b} : lease'[x] = lease[x] /\ pc'[x] = pc[x]
  BY <1>0 DEF TypeOK, Enter
<1>3. lease[b].client = None /\ dial[b] = None /\ lease'[b].client = None
  BY <1>0 DEF TypeOK, Enter, OwnerInv, HeldInUse, InUse
<1>4. \A x \in Borrowers :
       /\ lease'[x].client = lease[x].client
       /\ lease'[x].cacheable /\ (lease[x].client # None \/ dial[x] # None) =>
            lease[x].cacheable /\ lease'[x].fingerprint = lease[x].fingerprint
       /\ lease[x].client # None => pc'[x] \in InUse
  BY <1>2, <1>3 DEF OwnerInv, HeldInUse
<1>5. \A x \in Entries \ {e} : ent'[x] = ent[x]
  BY <1>0 DEF TypeOK, Enter
<1>6. CASE conns[s] = None
  <2>1. ent[e].client = None /\ ent'[e].client = None
    BY <1>0, <1>6 DEF TypeOK, Enter, NewEntry, UnusedEntry, OwnerInv, CachesRegistered
  <2> QED BY <1>1, <1>4, <1>5, <1>6, <2>1 DEF CachesShrink, Enter
<1>7. CASE conns[s] # None /\ ent[e].fingerprint = f
  <2>1. ent'[e].client = ent[e].client /\ ent'[e].fingerprint = ent[e].fingerprint
    BY <1>0, <1>7 DEF TypeOK, Entry, Enter
  <2> QED BY <1>1, <1>4, <1>5, <1>7, <2>1 DEF CachesShrink, Enter
<1>8. CASE conns[s] # None /\ ent[e].fingerprint # f
  <2>1. ent'[e] = [Adopt(e, f) EXCEPT !.waiters = @ + 1] /\ retired' = Retire(ent[e].client)
    BY <1>0, <1>8 DEF TypeOK, Enter
  <2>2. ent'[e].client = None
    BY <1>0, <2>1 DEF TypeOK, Entry, Adopt
  <2> QED BY Zenon, <1>1, <1>4, <1>5, <2>1, <2>2 DEF CachesShrink, Retire
<1> QED BY <1>6, <1>7, <1>8

(* A rebinding retires the cached client of the old configuration. *)
LEMMA RebindShrinks ==
  ASSUME OwnerInv, NEW b \in Borrowers, NEW f \in Fingerprints, RebindFingerprint(b, f)
  PROVE  CachesShrink
<1>0. TypeOK /\ lease[b].entry \in Entries
  BY DEF OwnerInv, SlotInv, Attached, RebindFingerprint, Holding
<1> DEFINE e == lease[b].entry
<1>1. \A x \in Entries \ {e} : ent'[x] = ent[x]
  BY <1>0 DEF TypeOK, RebindFingerprint
<1>2. ent'[e].client = None /\ retired' = Retire(ent[e].client)
  BY <1>0 DEF TypeOK, Entry, RebindFingerprint, Own
<1>3. \A x \in Borrowers :
       /\ lease'[x].client = lease[x].client
       /\ lease'[x].cacheable => lease[x].cacheable /\ lease'[x].fingerprint = lease[x].fingerprint
       /\ lease[x].client # None => pc'[x] \in InUse
  BY <1>0 DEF TypeOK, Lease, RebindFingerprint, OwnerInv, HeldInUse
<1> QED BY Zenon, <1>0, <1>1, <1>2, <1>3 DEF CachesShrink, Retire, RebindFingerprint

(* Invalidation, eviction and Close retire or forget cached clients. *)
LEMMA PoolShrinks ==
  ASSUME OwnerInv, \/ \E s \in Servers : Invalidate(s)
                   \/ \E expired \in SUBSET Servers : Evict(expired)
                   \/ Close \/ CancelShutdown \/ UNCHANGED vars
  PROVE  CachesShrink
<1>0. TypeOK
  BY DEF OwnerInv, SlotInv
<1>1. UNCHANGED <<lease, pc, dial, open, dialled>> /\ (closed => closed')
  <2>1. UNCHANGED <<lease, pc, dial, open, dialled>>
    BY Zenon DEF Invalidate, Evict, Close, CancelShutdown, vars
  <2>2. closed => closed'
    BY ClosedStays DEF Next, PoolStep
  <2> QED BY <2>1, <2>2
<1>2. \A x \in Borrowers : lease[x].client # None => pc'[x] \in InUse
  BY <1>1 DEF OwnerInv, HeldInUse
<1>3. ASSUME NEW s \in Servers, Invalidate(s) PROVE CachesShrink
  <2> DEFINE e == conns[s]
  <2>1. e \in Entries /\ \A x \in Entries \ {e} : ent'[x] = ent[x]
    BY Zenon, <1>0, <1>3 DEF TypeOK, Invalidate
  <2>2. ent'[e] = [ent[e] EXCEPT !.client = None, !.fingerprint = None, !.generation = @ + 1]
    BY Zenon, <1>0, <1>3, <2>1 DEF TypeOK, Invalidate
  <2>3. ent'[e].client = None
    BY <1>0, <2>1, <2>2 DEF TypeOK, Entry
  <2>4. retired' = Retire(ent[e].client)
    BY Zenon, <1>3 DEF Invalidate
  <2> QED BY <1>1, <1>2, <2>1, <2>3, <2>4 DEF CachesShrink, Retire
<1>4. ASSUME NEW expired \in SUBSET Servers, Evict(expired) PROVE CachesShrink
  <2> DEFINE live == {s \in Servers : conns[s] # None}
             dead == {s \in live : /\ s \in expired \/ ent[conns[s]].client = None
                                   /\ Unattended(conns[s])}
             idle == {conns[s] : s \in live \cap expired}
             gone == {conns[s] : s \in dead}
  <2>1. /\ retired' = retired \cup ({ent[e].client : e \in idle} \ {None})
        /\ ent' = [e \in Entries |->
                     IF e \in gone THEN NewEntry(None)
                     ELSE IF e \in idle THEN [ent[e] EXCEPT !.client = None] ELSE ent[e]]
    BY <1>4 DEF Evict
  <2>2. idle \subseteq Entries /\ \A e \in gone : e \in idle \/ ent[e].client = None
    BY <1>0 DEF TypeOK
  <2> HIDE DEF idle, gone
  <2>3. \A e \in Entries : IF e \in gone \cup idle THEN ent'[e].client = None ELSE ent'[e] = ent[e]
    BY <1>0, <2>1 DEF TypeOK, Entry, NewEntry
  <2>4. \A c \in retired' : c \in retired \/ \E e \in idle : ent[e].client = c
    BY <2>1
  <2>5. \A e \in idle : ent[e].client # None => ent[e].client \in retired'
    BY <2>1
  <2> QED BY Zenon, <1>1, <1>2, <2>1, <2>2, <2>3, <2>4, <2>5 DEF CachesShrink
<1>5. CASE Close
  <2> DEFINE live == {conns[s] : s \in Servers} \ {None}
  <2>1. /\ retired' = retired \cup ({ent[e].client : e \in live} \ {None})
        /\ ent' = [e \in Entries |->
                     IF e \in live THEN [ent[e] EXCEPT !.client = None] ELSE ent[e]]
    BY <1>5 DEF Close
  <2>2. live \subseteq Entries
    BY <1>0 DEF TypeOK
  <2> HIDE DEF live
  <2>3. \A e \in Entries : IF e \in live THEN ent'[e].client = None ELSE ent'[e] = ent[e]
    BY <1>0, <2>1 DEF TypeOK, Entry
  <2>4. \A c \in retired' : c \in retired \/ \E e \in live : ent[e].client = c
    BY <2>1
  <2>5. \A e \in live : ent[e].client # None => ent[e].client \in retired'
    BY <2>1
  <2> QED BY <1>1, <1>2, <2>1, <2>2, <2>3, <2>4, <2>5 DEF CachesShrink
<1>6. CASE CancelShutdown \/ UNCHANGED vars
  BY <1>1, <1>2, <1>6 DEF CachesShrink, CancelShutdown, vars
<1> QED BY <1>3, <1>4, <1>5, <1>6

(* Which entries are registered: acquireContext adds one nobody used, evict removes
   those it has emptied, Close removes all. *)
LEMMA RegisteredStep == OwnerInv /\ [Next]_vars => CachesRegistered'
<1> SUFFICES ASSUME OwnerInv, [Next]_vars PROVE CachesRegistered'
  OBVIOUS
<1>0. TypeOK /\ Attached /\ CachesRegistered
  BY DEF OwnerInv, SlotInv
<1>1. ASSUME UNCHANGED <<conns, closed, shutdown>>,
             \A e \in Entries : ent'[e].client # None =>
               ent[e].client # None \/ \E s \in Servers : conns[s] = e
      PROVE  CachesRegistered'
  BY Zenon, <1>0, <1>1 DEF CachesRegistered
<1>2. ASSUME CachesShrink, UNCHANGED <<conns, closed, shutdown>> PROVE CachesRegistered'
  BY Zenon, <1>1, <1>2 DEF CachesShrink
<1>3. ASSUME NEW b \in Borrowers, NEW s \in Servers, NEW f \in Fingerprints,
             NEW isFresh \in BOOLEAN, NEW e \in Entries, Enter(b, s, f, isFresh, e)
      PROVE  CachesRegistered'
  <2>1. CachesShrink /\ ~closed /\ UNCHANGED <<closed, shutdown>>
    BY Zenon, <1>3, EnterShrinks DEF Enter
  <2>2. CASE conns[s] # None
    <3>1. UNCHANGED conns
      BY <1>3, <2>2 DEF Enter
    <3> QED BY <1>2, <2>1, <3>1
  <2>3. CASE conns[s] = None
    <3>1. UnusedEntry(e) /\ conns' = [conns EXCEPT ![s] = e]
      BY <1>3, <2>3 DEF Enter
    <3>2. \A t \in Servers : conns'[t] = IF t = s THEN e ELSE conns[t]
      BY <1>0, <3>1 DEF TypeOK
    <3>3. \A t \in Servers : conns[t] # e
      BY <3>1 DEF UnusedEntry
    <3>4. \A x \in Entries : ent'[x].client # None => ent[x].client # None
      BY <2>1 DEF CachesShrink
    <3> QED BY <1>0, <2>1, <2>3, <3>2, <3>3, <3>4 DEF CachesRegistered
  <2> QED BY <2>2, <2>3
<1>4. ASSUME NEW b \in Borrowers,
             \/ TakeSlot(b) \/ GiveUp(b) \/ ReportTaken(b) \/ RefuseSlot(b) \/ ProbeHealthy(b)
             \/ ProbeAbandoned(b) \/ Grant(b) \/ RefuseLease(b) \/ ReleaseSlot(b) \/ ReportReleased(b)
             \/ \E discard \in BOOLEAN : Finish(b, discard)
      PROVE  CachesRegistered'
  <2>1. UNCHANGED <<conns, closed, shutdown>>
    BY <1>4 DEF TakeSlot, GiveUp, LeaveQueue, ReportTaken, RefuseSlot, ProbeHealthy, ProbeAbandoned,
                Grant, RefuseLease, ReleaseSlot, ReceiveSlot, ReportReleased, Finish
  <2> QED BY <1>2, <1>4, <2>1, StillSteps
<1>5. ASSUME NEW b \in Borrowers, TakeCached(b) PROVE CachesRegistered'
  <2>1. \A e \in Entries : ent'[e].client # None => ent[e].client # None
    BY <1>0, <1>5 DEF TypeOK, Entry, TakeCached, Taken, Attached, Waiting
  <2> QED BY <1>1, <1>5, <2>1 DEF TakeCached
<1>6. ASSUME NEW b \in Borrowers,
             \/ ProbeUnhealthy(b) \/ CloseHeld(b) \/ (\E c \in Clients : StartDial(b, c))
             \/ DialSucceeds(b) \/ DialFails(b) \/ SetClient(b) \/ CloseLease(b)
      PROVE  CachesRegistered'
  <2>1. UNCHANGED <<conns, closed, shutdown, ent>>
    BY <1>6 DEF ProbeUnhealthy, CloseHeld, StartDial, DialSucceeds, DialFails, SetClient, CloseLease
  <2> QED BY <1>1, <2>1
<1>13. ASSUME (\E c \in Clients : CloseRetired(c)) \/ UNCHANGED vars PROVE CachesRegistered'
  <2>1. UNCHANGED <<conns, closed, shutdown, ent>>
    BY Zenon, <1>13 DEF CloseRetired, vars
  <2> QED BY <1>1, <2>1
<1>7. ASSUME NEW b \in Borrowers, NEW f \in Fingerprints, RebindFingerprint(b, f)
      PROVE  CachesRegistered'
  BY Zenon, <1>2, <1>7, RebindShrinks DEF RebindFingerprint
<1>8. ASSUME NEW b \in Borrowers, Return(b) PROVE CachesRegistered'
  <2>1. UNCHANGED <<conns, closed, shutdown>>
    BY <1>8 DEF Return
  <2>2. \A e \in Entries : e # lease[b].entry => ent'[e] = ent[e]
    BY <1>0, <1>8 DEF TypeOK, Return
  <2>3. MayCache(b) => lease[b].server \in Servers /\ conns[lease[b].server] = lease[b].entry
    BY <1>0, <1>8 DEF MayCache, Current, Attached, Return, Holding
  <2>4. ~MayCache(b) => ent' = ent
    BY <1>8 DEF Return
  <2> QED BY <1>1, <2>1, <2>2, <2>3, <2>4
<1>9. ASSUME NEW s \in Servers, Invalidate(s) PROVE CachesRegistered'
  BY Zenon, <1>2, <1>9, PoolShrinks DEF Invalidate
<1>10. ASSUME NEW expired \in SUBSET Servers, Evict(expired) PROVE CachesRegistered'
  <2> DEFINE live == {s \in Servers : conns[s] # None}
             dead == {s \in live : /\ s \in expired \/ ent[conns[s]].client = None
                                   /\ Unattended(conns[s])}
  <2>1. /\ conns' = [s \in Servers |-> IF s \in dead THEN None ELSE conns[s]]
        /\ UNCHANGED <<closed, shutdown>>
        /\ \A e \in Entries : e \in {conns[s] : s \in dead} => ent'[e] = NewEntry(None)
    BY <1>10 DEF Evict
  <2>2. \A s \in dead : conns[s] \in Entries
    BY <1>0 DEF TypeOK
  <2> HIDE DEF dead
  <2>3. \A e \in Entries : ent'[e].client # None => ent[e].client # None
    BY Zenon, <1>10, PoolShrinks DEF CachesShrink
  <2>4. \A s \in dead : ent'[conns[s]].client = None
    BY <2>1, <2>2 DEF NewEntry
  <2> QED BY <1>0, <2>1, <2>3, <2>4 DEF CachesRegistered
<1>11. CASE Close
  <2>1. \A s \in Servers : conns'[s] = None
    BY <1>11 DEF Close
  <2>2. closed'
    BY Zenon, <1>11 DEF Close
  <2>3. \A e \in Entries : ent'[e].client = None
    <3>1. \A e \in Entries : IF e \in {conns[s] : s \in Servers} \ {None}
                               THEN ent'[e] = [ent[e] EXCEPT !.client = None] ELSE ent'[e] = ent[e]
      BY <1>11 DEF Close
    <3>2. \A e \in Entries : e \notin {conns[s] : s \in Servers} => ent[e].client = None
      BY <1>0 DEF CachesRegistered
    <3>3. \A e \in Entries : [ent[e] EXCEPT !.client = None].client = None
      BY <1>0 DEF TypeOK, Entry
    <3> QED BY Zenon, <3>1, <3>2, <3>3
  <2> QED BY <2>1, <2>2, <2>3 DEF CachesRegistered
<1>12. CASE CancelShutdown
  BY <1>0, <1>12 DEF CancelShutdown, CachesRegistered
<1> QED BY <1>3, <1>4, <1>5, <1>6, <1>13, <1>7, <1>8, <1>9, <1>10, <1>11, <1>12
        DEF Next, PoolStep, BorrowerStep

(* The ownership invariant holds at the start and every step keeps it. *)
LEMMA OwnerInit == Init => OwnerInv
<1> SUFFICES ASSUME Init PROVE OwnerInv
  OBVIOUS
<1>1. SlotInv
  BY SlotInit
<1>2. /\ \A e \in Entries : ent[e].client = None
      /\ \A b \in Borrowers : lease[b].client = None /\ dial[b] = None /\ ~lease[b].cacheable
      /\ \A s \in Servers : conns[s] = None
      /\ open = {} /\ retired = {} /\ ~closed /\ ~shutdown
  BY DEF Init, NewEntry, NoLease
<1> QED BY Zenon, <1>1, <1>2
        DEF OwnerInv, Unshared, CachesApart, HandsApart, Owned, CachesRegistered, HeldInUse,
            HeldCurrent, CacheMatchesConfiguration

(* One lemma per kind of step, put together *)
LEMMA OwnerStep == OwnerInv /\ [Next]_vars => OwnerInv'
<1> SUFFICES ASSUME OwnerInv, [Next]_vars PROVE OwnerInv'
  OBVIOUS
<1>1. SlotInv' /\ TypeOK'
  BY SlotStep DEF OwnerInv, SlotInv
<1>2. CachesRegistered'
  BY RegisteredStep
<1>3. OwnersKept'
  BY <1>1, ShrinkKeeps, StillSteps, EnterShrinks, RebindShrinks, PoolShrinks, TakeCachedKeeps,
     CloseOwnKeeps, DialKeeps, SetClientKeeps, ReturnKeeps, ClosingKeeps
     DEF Next, PoolStep, BorrowerStep
<1> QED BY <1>1, <1>2, <1>3 DEF OwnerInv, OwnersKept

(* An open transport is in exactly one place, whatever acquireContext, finish,
   Invalidate, eviction, dials and Close do at the same time, and nobody but Close
   closes the transport of a lease in use. *)
THEOREM TransportsOwned == Spec => []SoleOwner
<1> QED BY OwnerInit, OwnerStep, OwnedAlone, PTL DEF Spec

(* A cached transport is open and of its entry's configuration, so that no later
   caller gets a connection to a previous configuration of the server. *)
THEOREM CacheAlwaysCurrent == Spec => []CacheMatchesConfiguration
<1>1. OwnerInv => CacheMatchesConfiguration
  BY DEF OwnerInv
<1> QED BY OwnerInit, OwnerStep, <1>1, PTL DEF Spec
=============================================================================
