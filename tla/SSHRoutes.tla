------------------------------ MODULE SSHRoutes ------------------------------
(***************************************************************************)
(* How the Hub reaches a server over SSH, and how the configuration of the *)
(* servers changes while it does: service/ssh_route.go and                 *)
(* repository/ssh_route.go (a lease for a verified route),                 *)
(* service/server_connection.go and service/credential.go (the edits).     *)
(*                                                                         *)
(* A getter is one goroutine in getLeaseWithSnapshot.  It reads the route, *)
(* borrows from the pool, dials, reads again, commits what the handshake   *)
(* showed about host keys, and reads once more.  An editor is one request  *)
(* of an administrator.  One action is one database transaction, one       *)
(* critical section of the pool or one dial; everything in between         *)
(* interleaves.  The pool is reduced to the entry of each server; its      *)
(* slots, probes and eviction are the subject of SSHPool.                  *)
(***************************************************************************)
EXTENDS Integers, FiniteSets

CONSTANTS Servers,    \* server IDs
          Creds,      \* credential IDs
          Hosts,      \* endpoints (host and port)
          Home,       \* the endpoint each server is created with
          Requested,  \* the servers that leases are requested for
          Getters,    \* goroutines in getLeaseWithSnapshot
          Testers,    \* those of them that run TestConnection
          Editors,    \* goroutines of administrative requests
          None,       \* NULL, and a server not created yet
          Deleted,    \* a soft-deleted server
          Direct,     \* connection mode direct (no configuration row)
          Proxies,    \* SOCKS5 configurations
          MaxWrites   \* bound on the committed transactions

ASSUME Sentinels == {None, Deleted, Direct} \cap (Servers \cup Creds \cup Hosts \cup Proxies) = {}

VARIABLES
  srv,      \* servers rows
  cfg,      \* server_connection_configs: Direct, a SOCKS5 proxy or the jump server
  cred,     \* ssh_credentials: the stored secret, or None once deleted
  writes,   \* transactions committed so far; a new secret is named by it
  pool,     \* Pool.conns: entry of each server
  get,      \* local state of the getters
  edit      \* local state of the editors

db == <<srv, cfg, cred, writes>>
vars == <<db, pool, get, edit>>

(* No two hosts share a key; a host may come to present another key of its own. *)
KeysOf(h) == {h} \X {1, 2}
Keys == UNION {KeysOf(h) : h \in Hosts}
Revisions == 1..(MaxWrites + 1)
Row == [host : Hosts, cred : Creds \cup {None}, key : Keys \cup {None},
        seen : Keys \cup {None}, rev : Revisions]

Live(s) == srv[s] \notin {None, Deleted}
Dependents(s) == {t \in Servers : Live(t) /\ cfg[t] = s}

(* validSSHCredential *)
Usable(s) == srv[s].cred # None /\ cred[srv[s].cred] # None

(* readRoute, and validateJump for a new configuration of s *)
ValidJump(s, j) == j # s /\ Live(j) /\ Usable(j) /\ cfg[j] = Direct
Readable(s) ==
  /\ Live(s) /\ Usable(s)
  /\ cfg[s] \in Servers => ValidJump(s, cfg[s])

(* The fingerprint covers the row, the stored secret and the whole route. *)
ServerView(s) == [row |-> srv[s], secret |-> cred[srv[s].cred]]
Fingerprint(s) ==
  [target |-> ServerView(s), mode |-> cfg[s],
   jump |-> IF cfg[s] \in Servers THEN ServerView(cfg[s]) ELSE None]

NoEntry == [fp |-> None, current |-> {}, client |-> None]
NoCall == [pc |-> "idle", id |-> None, attempt |-> 0,
           snap |-> None, client |-> None,
           dialled |-> FALSE, changed |-> FALSE, role |-> None, warn |-> None,
           hop |-> None, news |-> {},
           outdated |-> FALSE]   \* history: a change of the route in snap was answered
NoEdit == [pc |-> "idle", id |-> None, todo |-> {}, deps |-> {}, news |-> {}]

(* What a committed change is about: the row of a server at revision n, the same row
   as a jump of others, or secret n of a credential. *)
News(of, id, n) == [of |-> of, id |-> id, n |-> n]
RowNews(s, n) == {News("target", s, n), News("jump", s, n)}

(* The changes that the author of a request is told of outdate the routes read before:
   that of the server itself, and, as long as the row of the server is what it was, those
   with the jump or the secret. *)
Outdates(n, call) ==
  /\ call.snap # None
  /\ \/ /\ n.of = "target" /\ n.id = call.id
        /\ call.snap.target.row.rev < n.n
     \/ /\ call.snap.target.row = srv[call.id]
        /\ \/ n.of = "jump" /\ n.id = call.snap.mode /\ call.snap.jump.row.rev < n.n
           \/ /\ n.of = "secret" /\ n.id = call.snap.target.row.cred
              /\ call.snap.target.secret < n.n
Told(calls, news) ==
  [g \in Getters |-> [calls[g] EXCEPT !.outdated =
                        @ \/ \E n \in news : Outdates(n, calls[g])]]

NewRow(h, c) == [host |-> h, cred |-> c, key |-> None, seen |-> None,
                 rev |-> 1]

(* Either a new installation, with only the servers that leases are requested for
   and no host key accepted yet, or an established one. *)
Init ==
  /\ \E established \in BOOLEAN, bound \in [Servers -> Creds] :
       srv = [s \in Servers |->
                IF established
                  THEN [NewRow(Home[s], bound[s]) EXCEPT !.key = <<Home[s], 1>>]
                ELSE IF s \in Requested THEN NewRow(Home[s], bound[s]) ELSE None]
  /\ cfg = [s \in Servers |-> Direct]
  /\ cred = [c \in Creds |-> 0] /\ writes = 0
  /\ pool = [s \in Servers |-> NoEntry]
  /\ get = [g \in Getters |-> NoCall]
  /\ edit = [e \in Editors |-> NoEdit]

Write == writes < MaxWrites /\ writes' = writes + 1

----------------------------------------------------------------------------
(* An operator that stands directly before another one and bears its name with
   a suffix is a faulty variant of it; no specification uses it. *)

(* The pool, as far as the routes depend on it.  An entry's generation is kept as
   the set of the leases that belong to it: a new generation empties the set.  An
   entry without a lease and a transport is as good as no entry. *)
Valid(g) == g \in pool[get[g].id].current

Left(g) ==
  [s \in Servers |->
     LET rest == [pool[s] EXCEPT !.current = @ \ {g}]
     IN IF rest.current = {} /\ rest.client = None THEN NoEntry ELSE rest]

(* Pool.Invalidate *)
InvalidatedCache(ids) ==
  [s \in Servers |-> IF s \in ids THEN [pool[s] EXCEPT !.client = None] ELSE pool[s]]
Invalidated(ids) == [s \in Servers |-> IF s \in ids THEN NoEntry ELSE pool[s]]

(* The call ends without a lease: any lease was discarded. *)
Fail(g) == get' = [get EXCEPT ![g] = NoCall] /\ pool' = Left(g)

(* The lease was discarded and the loop goes round, at most twice. *)
Again(g) ==
  /\ get' = [get EXCEPT ![g] =
       IF @.attempt = 2 THEN NoCall
       ELSE [NoCall EXCEPT !.pc = "retrying", !.id = get[g].id,
                           !.attempt = get[g].attempt]]
  /\ pool' = Left(g)

(* AcquireLease, GetLease or TestConnection; each of the two attempts begins
   with readRoute. *)
ReadRoute(g, s) ==
  /\ get[g].pc \in {"idle", "retrying"}
  /\ get[g].pc = "retrying" => s = get[g].id
  /\ IF Readable(s)
       THEN get' = [get EXCEPT ![g] = [NoCall EXCEPT !.pc = "acquiring", !.id = s,
              !.attempt = get[g].attempt + 1, !.snap = Fingerprint(s)]]
       ELSE get' = [get EXCEPT ![g] = NoCall]
  /\ UNCHANGED <<db, pool, edit>>

(* acquireContext, the first critical section: another configuration than the
   entry's starts a new generation. *)
Acquire(g) ==
  LET snap == get[g].snap
  IN /\ get[g].pc = "acquiring"
     /\ pool' = [pool EXCEPT ![get[g].id] =
                   IF @.fp = snap THEN [@ EXCEPT !.current = @ \cup {g}]
                   ELSE [fp |-> snap, current |-> {g}, client |-> None]]
     /\ get' = [get EXCEPT ![g].pc = "granting"]
     /\ UNCHANGED <<db, edit>>

(* TestConnection never substitutes a cached connection, and discards its own. *)
Fresh(g) == g \in Testers

(* A cached transport may be used only when the route is all trusted. *)
Trusted(view) == IF view = None THEN TRUE ELSE view.row.key # None
AllTrusted(g) == Trusted(get[g].snap.target) /\ Trusted(get[g].snap.jump)
MayReuse(g) == ~Fresh(g) /\ AllTrusted(g)

(* acquireContext, the later critical sections: ErrStaleLease, or a lease with
   the cached transport (if it may be used and answers the probe) or none. *)
Grant(g) ==
  LET s == get[g].id
      cached == pool[s].client
  IN /\ get[g].pc = "granting"
     /\ IF Valid(g)
          THEN /\ pool' = [pool EXCEPT ![s].client = None]
               /\ \/ /\ cached # None /\ MayReuse(g)
                     /\ get' = [get EXCEPT ![g].pc = "checking", ![g].client = cached]
                  \/ get' = [get EXCEPT ![g].pc = "dialling"]
          ELSE Again(g)
     /\ UNCHANGED <<db, edit>>

----------------------------------------------------------------------------
(* dialRoute and DialRouteContext: the jump's handshake, then the target's.  A
   handshake that is presented another key than the pinned one stops before it
   authenticates; every other failure ends the call. *)
Accepts(view, k) == view.row.key = k
Dialled(call, kt, kj) ==
  IF call.snap.jump # None /\ ~Accepts(call.snap.jump, kj)
    THEN [call EXCEPT !.pc = "warning", !.role = "jump", !.warn = kj]
  ELSE IF ~Accepts(call.snap.target, kt)
    THEN [call EXCEPT !.pc = "warning", !.role = "target", !.warn = kt]
  ELSE [call EXCEPT !.pc = "checking", !.dialled = TRUE,
                    !.client = [route |-> call.snap, keys |-> {kt, kj} \ {None}]]
Dial(g) ==
  LET snap == get[g].snap
      jumpKeys == IF snap.jump = None THEN {None} ELSE KeysOf(snap.jump.row.host)
  IN /\ get[g].pc = "dialling"
     /\ \/ \E kt \in KeysOf(snap.target.row.host), kj \in jumpKeys :
             get' = [get EXCEPT ![g] = Dialled(@, kt, kj)] /\ UNCHANGED pool
        \/ Fail(g)
     /\ UNCHANGED <<db, edit>>

Hop(g, role) == IF role = "target" THEN get[g].id ELSE get[g].snap.mode

(* CommitSSHRouteHostKey: the complete route is still the expected one *)
SameRouteMode(g) == Readable(get[g].id) /\ cfg[get[g].id] = get[g].snap.mode
SameRoute(g) == Readable(get[g].id) /\ Fingerprint(get[g].id) = get[g].snap

(* CommitSSHHostKey: a warning is recorded (mismatch) or cleared (clear). *)
CommitHostKey(s, seen) == srv' = [srv EXCEPT ![s].seen = seen, ![s].rev = @ + 1]

(* recordMismatch, after the lease was discarded; then invalidateRouteIdentity of
   the hop, and the target.  Here and below a transaction may report an error although
   it was applied; nothing is invalidated then. *)
RecordMismatch(g) ==
  LET h == Hop(g, get[g].role)
  IN /\ get[g].pc = "warning"
     /\ pool' = Left(g)
     /\ IF get[g].snap[get[g].role].row.seen # get[g].warn /\ SameRoute(g)
          THEN /\ Write
               /\ CommitHostKey(h, get[g].warn)
               /\ \/ get' = [get EXCEPT ![g] = [NoCall EXCEPT !.pc = "sweeping",
                       !.id = get[g].id, !.hop = h, !.news = RowNews(h, srv[h].rev + 1)]]
                  \/ get' = [get EXCEPT ![g] = NoCall]
          ELSE get' = [get EXCEPT ![g] = NoCall] /\ UNCHANGED <<srv, writes>>
     /\ UNCHANGED <<cfg, cred, edit>>

(* An error of the look-up of the dependents is ignored. *)
SweepMismatch(g) ==
  LET own == {get[g].id, get[g].hop}
  IN /\ get[g].pc = "sweeping"
     /\ \/ /\ pool' = Invalidated(own \cup Dependents(get[g].hop))
           /\ get' = Told([get EXCEPT ![g] = NoCall], get[g].news)
        \/ /\ pool' = Invalidated(own)
           /\ get' = Told([get EXCEPT ![g] = NoCall],
                          {n \in get[g].news : n.of = "target"})
     /\ UNCHANGED <<db, edit>>

(* The re-read after the dial: another route or a deleted server is retried. *)
Recheck(g) ==
  /\ get[g].pc = "checking"
  /\ IF SameRoute(g) /\ Valid(g)
       THEN get' = [get EXCEPT ![g].pc = "confirming"] /\ UNCHANGED pool
     ELSE IF Live(get[g].id) /\ ~Readable(get[g].id) THEN Fail(g)
     ELSE Again(g)
  /\ UNCHANGED <<db, edit>>

(* confirmHostKeys, one hop at a time: a warning is cleared by a handshake with
   the pinned key, if the route has not changed or only by the same clear. *)
Warned(g, role) ==
  /\ get[g].dialled
  /\ get[g].snap[role] # None /\ get[g].snap[role].row.seen # None
ConfirmHostKey(g) ==
  LET role == IF Warned(g, "jump") THEN "jump" ELSE "target"
      h == Hop(g, role)
      confirmed == [get[g].snap EXCEPT ![role].row.seen = None, ![role].row.rev = @ + 1]
      adopt == get' = [get EXCEPT ![g].snap = confirmed, ![g].changed = TRUE]
  IN /\ get[g].pc = "confirming"
     /\ IF get[g].dialled /\ ~AllTrusted(g) THEN Fail(g) /\ UNCHANGED <<srv, writes>>
        ELSE IF ~Warned(g, role)
          THEN /\ get' = [get EXCEPT ![g].pc = "verifying", ![g].dialled = FALSE]
               /\ UNCHANGED <<srv, writes, pool>>
        ELSE IF SameRoute(g)
          THEN /\ Write
               /\ CommitHostKey(h, None)
               /\ (adopt /\ UNCHANGED pool) \/ Fail(g)
        ELSE IF Readable(get[g].id) /\ Fingerprint(get[g].id) = confirmed
          THEN adopt /\ UNCHANGED <<srv, writes, pool>>
        ELSE Again(g) /\ UNCHANGED <<srv, writes>>
     /\ UNCHANGED <<cfg, cred, edit>>

(* The lease is returned; its holder has no further use for the loop's state. *)
HandedOut(call) == [call EXCEPT !.pc = "held", !.attempt = 0]

(* The last re-read; a lease whose own commit moved the route is rebound. *)
Verify(g) ==
  /\ get[g].pc = "verifying"
  /\ IF SameRoute(g) /\ Valid(g)
       THEN /\ get' = [get EXCEPT ![g] = IF @.changed THEN [@ EXCEPT !.pc = "rebinding"]
                                          ELSE HandedOut(@)]
            /\ UNCHANGED pool
       ELSE Again(g)
  /\ UNCHANGED <<db, edit>>

Rebind(g) ==
  /\ get[g].pc = "rebinding"
  /\ IF Valid(g)
       THEN /\ pool' = [pool EXCEPT ![get[g].id] =
                          [fp |-> get[g].snap, current |-> {g}, client |-> None]]
            /\ get' = [get EXCEPT ![g] = HandedOut(@)]
       ELSE Again(g)
  /\ UNCHANGED <<db, edit>>

(* The context ends: the lease is discarded. *)
Cancel(g) ==
  /\ get[g].pc \in {"retrying", "acquiring", "granting", "checking", "confirming",
                    "verifying"}
  /\ Fail(g)
  /\ UNCHANGED <<db, edit>>

(* Lease.finish: a connection test and a rebound lease are never cached. *)
MayCacheStale(g) ==
  ~Fresh(g) /\ ~get[g].changed /\ pool[get[g].id].client = None
MayCache(g) ==
  ~Fresh(g) /\ ~get[g].changed /\ Valid(g) /\ pool[get[g].id].client = None
Release(g) ==
  /\ get[g].pc = "held"
  /\ IF MayCache(g)
       THEN pool' = [pool EXCEPT ![get[g].id].client = get[g].client,
                                 ![get[g].id].current = @ \ {g}]
       ELSE pool' = Left(g)
  /\ get' = [get EXCEPT ![g] = NoCall]
  /\ UNCHANGED <<db, edit>>

----------------------------------------------------------------------------
(* The edits.  A request names the revision, and for a host key the fingerprint,
   that its author saw; one that names another than the row has is refused, and a
   request that is refused changes nothing.  After the
   commit the servers in ids are invalidated, unless it reported an error. *)
Sweeping(e, ids, news) ==
  IF ids = {}
    THEN edit' = [edit EXCEPT ![e] = NoEdit] /\ get' = Told(get, news)
    ELSE /\ edit' = [edit EXCEPT ![e] = [NoEdit EXCEPT !.pc = "sweeping", !.todo = ids,
                                                      !.news = news]]
         /\ UNCHANGED get
Broken(e) == edit' = [edit EXCEPT ![e] = NoEdit] /\ UNCHANGED get

(* createServer *)
CreateServer(e, s, c, mode) ==
  /\ edit[e].pc = "idle" /\ srv[s] = None
  /\ mode \in Servers => ValidJump(s, mode)
  /\ Write
  /\ srv' = [srv EXCEPT ![s] = NewRow(Home[s], c)]
  /\ cfg' = [cfg EXCEPT ![s] = mode]
  /\ UNCHANGED <<cred, pool, get, edit>>

(* updateServer *)
MayConfigure(s, mode) ==
  /\ mode # Direct => Dependents(s) = {}
  /\ mode \in Servers => ValidJump(s, mode)
Edited(s, h, c) ==
  [srv[s] EXCEPT !.host = h, !.cred = c, !.rev = @ + 1,
                 !.key = IF h = srv[s].host THEN @ ELSE None,
                 !.seen = IF h = srv[s].host THEN @ ELSE None]
UpdateServer(e, s, h, c, mode) ==
  /\ edit[e].pc = "idle" /\ Live(s)
  /\ mode # cfg[s] => MayConfigure(s, mode)
  /\ <<h, c, mode>> # <<srv[s].host, srv[s].cred, cfg[s]>>
  /\ Write
  /\ srv' = [srv EXCEPT ![s] = Edited(s, h, c)]
  /\ cfg' = [cfg EXCEPT ![s] = mode]
  /\ Sweeping(e, {s}, RowNews(s, srv[s].rev + 1)) \/ Broken(e)
  /\ UNCHANGED <<cred, pool>>

(* deleteServer *)
DeleteServer(e, s) ==
  /\ edit[e].pc = "idle" /\ Live(s) /\ Dependents(s) = {}
  /\ Write
  /\ srv' = [srv EXCEPT ![s] = Deleted]
  /\ cfg' = [cfg EXCEPT ![s] = Direct]
  /\ Sweeping(e, {s}, RowNews(s, srv[s].rev + 1)) \/ Broken(e)
  /\ UNCHANGED <<cred, pool>>

(* trustHostKey *)
TrustHostKey(e, s) ==
  /\ edit[e].pc = "idle" /\ Live(s) /\ srv[s].seen # None
  /\ Write
  /\ srv' = [srv EXCEPT ![s].key = srv[s].seen, ![s].seen = None, ![s].rev = @ + 1]
  /\ Sweeping(e, {s}, RowNews(s, srv[s].rev + 1)) \/ Broken(e)
  /\ UNCHANGED <<cfg, cred, pool>>

Bound(c) == {s \in Servers : Live(s) /\ srv[s].cred = c}

(* CredentialService.Update: the row is read, then saved whole with a new
   secret, then the servers bound to it are looked up. *)
ReadCredential(e, c) ==
  /\ edit[e].pc = "idle" /\ cred[c] # None
  /\ edit' = [edit EXCEPT ![e] = [NoEdit EXCEPT !.pc = "saving", !.id = c]]
  /\ UNCHANGED <<db, pool, get>>

SaveCredential(e) ==
  LET news == {News("secret", edit[e].id, writes')}
  IN /\ edit[e].pc = "saving"
     /\ Write
     /\ cred' = [cred EXCEPT ![edit[e].id] = writes']
     /\ \/ /\ edit' = [edit EXCEPT ![e].pc = "finding", ![e].news = news]
           /\ UNCHANGED get
        \/ Broken(e)
     /\ UNCHANGED <<srv, cfg, pool>>

(* invalidateServers; an error of the look-up is ignored. *)
FindBound(e) ==
  /\ edit[e].pc = "finding"
  /\ Sweeping(e, Bound(edit[e].id), edit[e].news) \/ Sweeping(e, {}, {})
  /\ UNCHANGED <<db, pool>>

(* CredentialService.Delete: the bound servers are collected first.  Its author is
   told about those that it unbinds. *)
CollectBound(e, c) ==
  /\ edit[e].pc = "idle" /\ cred[c] # None
  /\ edit' = [edit EXCEPT ![e] = [NoEdit EXCEPT !.pc = "deleting", !.id = c,
                !.todo = Bound(c), !.news = UNION {RowNews(s, 0) : s \in Bound(c)}]]
  /\ UNCHANGED <<db, pool, get>>

DeleteAndUnbind(e) ==
  LET c == edit[e].id
      unbound == {n \in edit[e].news : n.id \in Bound(c)}
  IN /\ edit[e].pc = "deleting"
     /\ Write
     /\ srv' = [s \in Servers |-> IF s \in Bound(c)
                  THEN [srv[s] EXCEPT !.cred = None, !.rev = @ + 1] ELSE srv[s]]
     /\ cred' = [cred EXCEPT ![c] = None]
     /\ \/ Sweeping(e, edit[e].todo, {[n EXCEPT !.n = srv[n.id].rev + 1] : n \in unbound})
        \/ Broken(e)
     /\ UNCHANGED <<cfg, pool>>

(* invalidateWithDependents: the server, then those that jump through it; an
   error of the second look-up is ignored.  The request is answered after the last. *)
Sweep(e, s) ==
  /\ edit[e].pc = "sweeping" /\ s \in edit[e].todo
  /\ pool' = Invalidated({s})
  /\ edit' = [edit EXCEPT ![e].todo = @ \ {s}, ![e].deps = @ \cup {s}]
  /\ UNCHANGED <<db, get>>

Swept(e, s, news) ==
  LET rest == [edit[e] EXCEPT !.deps = @ \ {s}, !.news = news]
      last == rest.todo \cup rest.deps = {}
  IN /\ edit' = [edit EXCEPT ![e] = IF last THEN NoEdit ELSE rest]
     /\ get' = IF last THEN Told(get, news) ELSE get
SweepDependents(e, s) ==
  /\ edit[e].pc = "sweeping" /\ s \in edit[e].deps
  /\ \/ pool' = Invalidated(Dependents(s)) /\ Swept(e, s, edit[e].news)
     \/ UNCHANGED pool /\ Swept(e, s, {n \in edit[e].news : n.of # "jump" \/ n.id # s})
  /\ UNCHANGED db

----------------------------------------------------------------------------
(* The configurations that validate and buildConnectionConfig let through. *)
Modes == {Direct} \cup Proxies \cup Servers

GetterStep(g) ==
  \/ \E s \in Requested : ReadRoute(g, s)
  \/ Acquire(g) \/ Grant(g) \/ Dial(g)
  \/ RecordMismatch(g) \/ SweepMismatch(g)
  \/ Recheck(g) \/ ConfirmHostKey(g) \/ Verify(g) \/ Rebind(g)
  \/ Cancel(g) \/ Release(g)

(* Bound on the requests: each changes the endpoint, the credential or the mode. *)
Requests(s) ==
  (Hosts \X {srv[s].cred} \X {cfg[s]}) \cup
  ({srv[s].host} \X (Creds \cup {None}) \X {cfg[s]}) \cup
  ({srv[s].host} \X {srv[s].cred} \X Modes)

EditorStep(e) ==
  \/ \E s \in Servers, c \in Creds, mode \in Modes : CreateServer(e, s, c, mode)
  \/ \E s \in Servers :
       Live(s) /\ \E r \in Requests(s) : UpdateServer(e, s, r[1], r[2], r[3])
  \/ \E s \in Servers : TrustHostKey(e, s) \/ DeleteServer(e, s)
  \/ \E s \in Servers : Sweep(e, s) \/ SweepDependents(e, s)
  \/ \E c \in Creds : ReadCredential(e, c) \/ CollectBound(e, c)
  \/ SaveCredential(e) \/ FindBound(e) \/ DeleteAndUnbind(e)

Next ==
  \/ \E g \in Getters : GetterStep(g)
  \/ \E e \in Editors : EditorStep(e)

Spec == Init /\ [][Next]_vars

----------------------------------------------------------------------------
(* Every row is well formed, a jump server exists and is itself reached
   directly, and a host key that is pinned or pending for a server was presented
   by the endpoint the row has now: the result of a dial that was under way when
   the endpoint was edited is never recorded against the new endpoint. *)
RowsConsistent ==
  \A s \in Servers : Live(s) =>
    /\ srv[s] \in Row
    /\ {srv[s].key, srv[s].seen} \subseteq {None} \cup KeysOf(srv[s].host)
    /\ cfg[s] \in Servers =>
         cfg[s] # s /\ Live(cfg[s]) /\ cfg[cfg[s]] = Direct

(* What authenticates a hop: a cleared warning is not part of it. *)
Identity(view) ==
  IF view = None THEN None
  ELSE [host |-> view.row.host, key |-> view.row.key, cred |-> view.row.cred,
        secret |-> view.secret]

(* getLeaseWithSnapshot "returns the exact route verified for the borrowed
   client": the transport of a lease it hands out, dialled now or taken from the
   cache, was dialled through the hosts and with the secrets of the returned
   snapshot, and every hop presented the key that is pinned there. *)
HandedOutVerified ==
  \A g \in Getters : get[g].pc = "held" =>
    LET snap == get[g].snap
        route == get[g].client.route
    IN /\ route.mode = snap.mode
       /\ Identity(route.target) = Identity(snap.target)
       /\ Identity(route.jump) = Identity(snap.jump)
       /\ get[g].client.keys = {v.row.key : v \in {snap.target, snap.jump} \ {None}}

(* Once a change was answered, the pool calls no lease current that was verified
   before it, so that no holder starts another command on one: not for a server that
   was edited, deleted, unbound from its credential or got another host key, and,
   while the row of the server has stayed as it was, neither when its jump server
   changed so nor when its credential got another secret.  (A look-up of dependents or
   of bound servers whose error the code ignores answers for nothing.) *)
HeldLeaseCurrent ==
  \A g \in Getters : get[g].pc = "held" /\ get[g].outdated => ~Valid(g)
==============================================================================
