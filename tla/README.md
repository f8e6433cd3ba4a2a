# Talus: TLA+ specifications

Talus is a Hub (Go, `src/backend`, with a web interface in `src/frontend`) that
reaches servers over SSH: terminals, commands, file transfers, HTTP relays and
metrics.  A resident agent on the servers collects samples and uploads them to
the Hub.  This directory holds the specifications of the parts in which several
goroutines, processes or machines meet, the TLC models that check them, and
proofs of their safety properties for seven of the components.

`PROJECT.json` holds the details that this file leaves out: the source lines
behind every definition (`map`), the hazards and the properties that cover them,
the properties of every run, and the mutated definition that breaks each
property.  Source paths below are relative to `src/backend/internal/`.

## 1. The system and its parts

| part | source | state | operations | module |
| --- | --- | --- | --- | --- |
| SSH connection pool | `pkg/sshpool/pool.go` | entries (cached transport, fingerprint, generation, semaphore, waiters), leases, quota gauge | acquire, dial/set, rebind, finish, invalidate, evict, close | `SSHPool` |
| Agent wire | `agentwire/` | samples, requests and replies | validate, request, reply | `AgentWire` |
| Agent outbox and uploader | `agentclient/spool.go`, `client.go` | files, directory sync, loss count, batch in flight | add, prune, batch, ack, reject, crash, restart | `AgentSpool` |
| Resident ingest | `service/resident_monitor.go`, `repository/agent_node.go` | receipts, metric rows | receive, ingest, cleanup | `AgentIngest` |
| Access gate and registry | `gate/gate.go`, `gate/registry.go` | per-user lock, uncertainty fence, registered sessions | admit, update, recover, mark revoked, await | `AccessGate` |
| Passwords, tokens, API keys | `service/auth.go`, `service/apikey*.go`, `server/middleware/auth.go` | user and key rows with versions | change password, update permissions, rotate, delete, authenticate | `AccessGate` |
| Terminal sessions | `service/terminal.go`, `terminal_transport.go` | workflow, pumps, teardown workers, lease, websocket | start, pump, keepalive, force, tear down, settle | `TerminalSession`, `TerminalContract` |
| Operation history | `usage/`, `repository/usage_log.go` | rows, instance leases, active table, retry queue | begin, phase, finish, retry, heartbeat, restore, reconcile, clean up | `UsageStore`, `UsageHistory` |
| Routes and host keys | `service/ssh_route.go`, `repository/ssh_route.go` | rows, secrets, route modes, pool entries, calls in progress | read, borrow, dial, confirm host keys, retry, release | `SSHRoutes` |
| Servers and credentials | `service/server*.go`, `service/credential.go` | the same rows | create, edit, delete, trust a host key, change or delete a credential, invalidate | `SSHRoutes` |
| Operations on a lease | `service/lease.go`, `service/ssh.go` | operations under way, settlement | begin, end, run, upload, time out, clean up, settle | `CommandLease` |
| Remote files | `service/sftp*.go`, `handler/sftp.go` | destination, temporary files, tickets, the reservation and its workers | list, read, inspect, resume, save, rename, remove, download, archive | `RemoteFiles` |
| Installation of agents | `service/resident_deploy.go`, `resident_scheduler.go`, `resident_layout_discovery.go`, `resident_windows_deploy.go` | node row with layouts, job, fence, files and agents on the host | reconcile, install, activate, retire, remove | `ResidentInstall` |
| Rollups, retention, budget | `repository/metric_*.go`, `service/metrics_maintenance.go` | raw samples, buckets, checkpoint | refresh, aggregate, prune, stitched query | `MetricHistory` |
| Startup, migrations, settings | `cmd/server/main.go`, `repository/*migration*.go`, `service/system_settings.go` | schema, keys, users, settings, Hubs | prepare, migrate, serve, change, refresh, stop | `HubStartup` |
| Presence, on-demand deployment, relay, rate limits, telemetry, cryptography, handlers, models, collectors, web interface | see `PROJECT.json` | | | not modelled |

**How the parts meet.**  A request is authenticated and admitted through the gate;
a terminal registers its session there, so that a change of the password or of the
key can revoke it.  A terminal, a command or a transfer takes a lease from the
pool, works on its transport, and returns or discards it.  Each of them is recorded
in the operation history.  A lease is handed out only for a route whose host keys were
verified and whose rows did not change meanwhile; edits of servers and credentials
invalidate the pool.  The installer runs over such a lease, and the deletion of a
server fences it.  The agent's uploader and the Hub's ingest meet only in
requests that may be lost, duplicated or answered too late; the samples it stored are
aggregated and pruned by the maintenance.  Several Hubs may run on one database
while a container is replaced.

**What makes them hard.**  Contexts cancel a caller between any two steps.  Locks are
released around dials, probes, writes and `Close`.  An entry, a row or a receipt
may be deleted while somebody still refers to it.  A commit may get no answer.
The agent and the Hub crash between a file operation and its sync, or between
a row and its result.  Peers stop answering in the middle of a teardown.

## 2. Modules

An action stands for one critical section, one transaction or one blocking call.
Timers, cancellation, results of dials and probes and of database calls are
nondeterministic.  Payloads, messages, sizes and formats are left out where no
property distinguishes them.

**`SSHPool`.**  A borrower (`pc`) is a goroutine in `acquireContext` or the owner of
a lease.  `ent` holds the `connEntry` objects and `conns` the map of the pool;
`Enter` ... `Grant` follow `acquireContext` through each unlock, `Return`,
`CloseHeld`, `ReleaseSlot` and `ReportReleased` follow `finish`.  `Close` takes a
snapshot of the leases (`sweep`) and closes them one by one.  A client that was
detached under the lock is closed later by somebody (`retired`).  The legacy
`Get`/`Release` interface by server ID is not modelled.

**`AgentWire`, `AgentSpool`, `AgentIngest`, `AgentDelivery`.**  The first has the
clock, the samples and the requests; the second the agent (two goroutines under
the mutex of the spool, a disk on which a removal can be undone by a crash until
the directory is synced); the third the Hub (overlapping requests of one agent,
one transaction for the write, the cleanup of receipts).  `AgentDelivery`
composes them.

**`AccessGate`.**  One subject, a user or an API key, with its row, an unresolved
transaction (`tx`) whose commit got no answer, the lock of `userState` and its fence,
mutators, requests and terminal sessions.  `Kinds` chooses between the password
of a user and the permissions, the rotation and the deletion of a key.  A browser opens a
terminal with a token that has not been to the gate, so that `Register` meets any version.

**`TerminalSession`, `TerminalContract`.**  One session with its workflow, three pumps,
the supervisor, and the closer, joiner and notifier that the teardown starts.
`TerminalContract` is what the pool, the registry and the HTTP owner rely on;
`KeepsContract` is the refinement.

**`UsageStore`, `UsageHistory`.**  `UsageStore` has the transactions on the history:
`Upsert`, the instance leases, reconciliation and retention cleanup.  `UsageHistory`
has the recorder: the request's goroutine, the retry loop and the heartbeat loop
each take a snapshot under the lock, write without it, and apply the answer under
the lock.  `Crash` ends the process at any step and starts one with a new identity.
Rate budgets and the limit of active operations appear as `SkipCapture`.
A retention period or a lease may end at any time, with one restriction
(`Settled`): a running snapshot of an operation that has ended is not in flight for
as long as a retention period.  The audit retry queue and the legacy backfill are
left out.

**`SSHRoutes`.**  A getter is a goroutine in `getLeaseWithSnapshot`: it reads the route,
borrows from the pool, dials, reads again, commits what the handshake showed, and
reads once more.  An editor is a request of an administrator.  A transport is
represented by the endpoints and keys it was dialled with, and the pool by one
entry for each server.  `news` is a ghost: what a request has changed and will be answered
for.  When it is answered, `Told` marks the leases whose route was read before the change.

**`CommandLease`.**  One lease of a transport: the owner's goroutine, the operation it
runs, the worker that waits for the peer, the bounded teardown and the late
cleanup that goes on after the owner was answered.

**`RemoteFiles`.**  One destination on one server with its temporary files, two
workers under the reservation of the supervisor, and the owner of the host, who may
edit the file.  A file is its bytes and a stamp for its attributes.  A request may
be cancelled at any step and a reply may be lost after the server applied the call;
a call is not applied after its channel was closed.  The comparison of attributes and that of
the content are separate steps where the code separates them, and `raced` records which of the
two the owner has changed since the worker last compared it.  Byte ranges of a download and
the tree of an archive are data.

**`ResidentInstall`.**  One server: a pass of the reconciler (`snap`), the job, the
deletions with their fence, the `agent_nodes` row, and on the host the agent and
the staged files of every layout and the scripts, which outlive the Hub's
connection.  `receipt` is `None` on Linux.  On Windows there is one layout, and
activation and removal are scheduled tasks; a pending receipt counts as success, as in
the code.  A removal before a reinstallation is strict and fails unless the unit stops; that of a
deletion ignores a failed stop, and may report success while the agent runs on without its
files (`src/README.md:625`: it "attempts" to uninstall).  Assumptions about time: a pass that read the row before a job ended
schedules nothing (retries wait 30 s or more, and an installation takes longer than
a pass needs from `Ensure` to `scheduleInstall`), and a Windows activation task has
its lock, or has given up on it, before another attempt is prepared.  Settings versions
only grow.  The replacement of tokens, the slots shared with other servers and
retry times are left out.

**`MetricHistory`.**  One server with a clock of small steps: samples that arrive late or a step
ahead of the clock, a reboot, a counter that starts again, samples without the counter,
the refresh of a window with its checkpoint, aggregation and chunked pruning, and a
query that reads pruned, aggregated and raw spans in statements of its own.  A rollup
is the set of intervals between samples that it accounts for.  `excused` is a ghost
for the third observation below.  A range within the budget is read without a second probe;
otherwise probe and read of one span are one step.  So are validation and the first probe.

**`HubStartup`.**  Hubs on one database: the schema steps, the locked migration of
secrets, the first user, the owner backfill, changes to keys, and settings with
revisions.  All tables with secrets are represented by two API keys.  A row has the
`version` of its encryption and `cipher`, the version that its ciphertext really has: `None` for a key
whose raw value cannot be recovered, which the migration skips.  An old key may have scopes, or none,
and an owner, or none.  Until it is stopped, a Hub of the older version rotates and creates keys
in its own format, past the lock (`OlderHubRotates`, `OlderHubCreates`; `src/README.md:635`); the
ghost `overwritten` has the records that it wrote behind a Hub's back.  A Hub of another version
may save a settings document that this one does not accept (`SaveUnacceptable`): at the start it is ignored
or ends the process, and `Refresh` keeps the last valid configuration.

`MC...` modules add the symmetry sets for TLC where a run uses symmetry.

## 3. What TLC checks

| run | instance | shows |
| --- | --- | --- |
| `pool_clients` | 2 borrowers, 2 slots, 2 transports, 2 configurations, 3 generations | `SlotsExact`, `SoleOwner`, `CacheMatchesConfiguration`, `StaleForever` |
| `pool_liveness` | 2 borrowers, 1 slot | `Drains`: acquisitions end, slots come back, `Close` closes everything |
| `delivery` | 2 samples, 2 requests, a queue of 1, one crash or I/O fault, clock up to 1 | `StoredOnce`, `NoSilentLoss`, `Settles` |
| `access_gate` | a user or a key; 2 mutators, 1 request, 1 session, 3 versions, 2 policies | `Fenced`, `SessionsFollowRow`, `UsedWhileCurrent`, `ChangeEnds` |
| `terminal_session` | one session | `ReleasedWhole`, `DoneMeansReclaimed`, `KeepsContract`, `Reclaimed` |
| `usage_history` | 1 operation, 3 identities, 4 state numbers | `ResultAccounted`, `ResultsFinal`, `RunningEnds` |
| `ssh_routes` | a server and a possible jump server, 2 endpoints, 2 getters, 1 editor, 2 writes | `RowsConsistent`, `HandedOutVerified`, `HeldLeaseCurrent` |
| `remote_files` | an upload of 2 chunks, a write, 2 workers, one edit by the owner | `Reservation`, `PublishedWhole`, `ReplacesOnlyWhatItSaw`, `ReservationReturned` |
| `resident_install` | Linux and Windows, 3 accounts, 2 attempts, 2 deletions, 1 change or restart | `RemovalWorksAlone`, `EvidenceKept`, `OneAgent`, `RemovedStaysRemoved` |
| `metric_history` | clock up to 7, buckets of 2, retention of 6, 2 samples, 1 reboot, 1 reset of the counter, samples without it | `RollupsSound`, `NothingDropped`, `HistoryKept` |
| `hub_startup` | 2 Hubs, 2 starts, 2 changes, three kinds of database, old keys with and without raw value, scopes and owner | `ChoicesKept`, `ServesMigrated`, `SettingsCommitted`, `SettingsArrive` |
| `command_lease` | 3 operations on one lease | `Settlement`, `OperationsApart`, `OwnerAnswered` |

**Bounds.**  `pool_clients` has two configurations and three generations, so that a server
returns to a configuration it had; what it shows of slots and of generations is
proved for every instance.  `delivery` accepts a sample only in the tick in which it
was taken and keeps its receipt no longer than needed, so that samples and receipts
expire within the clock, and its queue holds one sample fewer than there are, so that one is
pruned; the fault may strike at any step.  `access_gate` has two changes, so that one meets what the other
left behind.  `usage_history` has state numbers for a start, a phase, a restored row and
a result; other operations matter to it only by filling the retry queue, which
may therefore be full at any time.  With three identities there is always one that
nothing refers to.  In `ssh_routes` two getters share an entry, and two writes let
an edit fall between any two reads of a call and be followed by another.
`remote_files` has a file of two chunks, so that an upload is resumed
half-way, and two workers, one of which has given up its reservation.  In
`resident_install` two attempts let the script of the first outlive it; a second
change was tried once without result.  In `metric_history` the clock passes retention
and lateness with room for a bucket in between (a clock up to 9 was tried once).  In `hub_startup`
two starts let two Hubs run beside each other, or one come back after a crash; changes by an older
Hub count among the two changes, and what it shows is proved for any number of both.  `MaxGeneration`, `MaxNow`,
`MaxFaults`, `MaxVersion`, `MaxSeq`, `MaxWrites`, `MaxOwner`, `MaxAttempts`, `MaxChanges`,
`MaxTime`, `MaxSamples`, `MaxStarts` and `MaxOps` are bounds of the models.

Deadlock is not checked where the system may really stop: a closed pool, samples
that are all settled, a session that is done, calls that have all returned, a
server that is deleted, a bound that is used up.  The history has no final state and
is checked for deadlock.

**Fairness.**  *Pool*: a goroutine inside `acquireContext` or `finish` goes on (its
waits have timers), dials end with their context, `Close` runs to its end; callers
are not assumed to do anything.  *Delivery*: the two processes do not stop, and from some time
on there are no more faults; the service manager restarts the agent.  *Gate*: every
wait of a change has a deadline.  *Terminal*: the answer to the caller assumes only
that the Hub's own goroutines run; `Reclaimed` states its further assumptions
(`PeerFairness`): a call returns once the thing it waits for is closed, and `Close`
of a transport returns.  *Leases*: `OwnerAnswered` assumes that the Hub's goroutines and timers
run, and nothing of the peer.  *History*: writes end with `WriteTimeout`, the maintenance
ticker goes on and its database answers, leases of processes that are gone
run out, and a result is not retried past `RetryLifetime` (strong fairness, because
retries come between).  *Files*: workers and the supervisor take steps, since every call
has a deadline; requests and the owner of the host need not.  *Settings*: `Poll` runs
every five seconds until the Hub stops.

**Where the code and its comments part.**  Three places, found while modelling; the
properties are stated so that they hold of the code as it is.

- `service/credential.go:231`: `Delete` looks up the bound servers before the
  transaction that unbinds them, so a server bound in between loses its credential
  without being invalidated, while the comment at line 227 has the bound servers
  invalidated.  `HeldLeaseCurrent` is about the servers that the request had collected, and about
  requests that were answered: a commit that took effect but was reported as an error
  leaves leases current until a later change of the same rows is answered.
- `service/sftp_resume.go:373`: a completion that linked the file but could not
  remove its temporary name answers `sftp_exists` when it is tried again, while
  `src/README.md:507` calls it safe to retry after a lost acknowledgement.
- `service/metrics_maintenance.go:85`: after a failed first backfill the next refresh covers
  48 hours and sets the checkpoint past samples that were never materialized, while the comment at line 105
  says that a failed cycle leaves the checkpoint alone.  `MetricHistory` excuses those samples.

**Two observations made while modelling the history.**  A restored running row
that is still in flight when the final write fails can overwrite `unknown` with
`running` after the operation has ended; the pending result or reconciliation
then replaces it (`RunningEnds`).  The same write can bring back a row that was deleted
by retention in between, as a running row that reconciliation writes off again;
`ResultsFinal` says that this is the only way.

## 4. What TLAPS proves

TLC explores the instances of section 3.  The theorems below hold for every value of
the constants that satisfies the named assumptions, which the runs also evaluate.  For
each of these components every safety invariant and action property of its run is
proved; `PROJECT.json` pairs theorems with properties.

| proofs | theorems | for any | assumptions | inductive invariant |
| --- | --- | --- | --- | --- |
| `SSHPoolProofs` | `SlotsAlwaysExact` (from `TypeCorrect`, `AccountingExact`, `EntriesPinned`, `ServerLimited`), `StaleStaysStale` | servers, borrowers, entries, clients, configurations, capacity | finitely many borrowers, positive bounds, `None` is no value | `SlotInv`, `Generations` |
| `SSHPoolOwnership` | `TransportsOwned`, `CacheAlwaysCurrent` | the same | the same | `OwnerInv` |
| `AgentDeliveryProofs` | `StoredAtMostOnce`, `LossesNeverSilent` | samples, requests, faults, queue and batch sizes, clock, window | finitely many samples; receipts outlive the window | `DeliveryInv` |
| `AccessGateProofs` | `FenceHolds`, `SessionsKeepUp`, `AdmittedWhileCurrent` | changes, requests, sessions, policies, versions | the actors are distinct, there is a policy | `GateInv` |
| `LeaseProofs` | of terminals: `ReleasesWhole`, `DoneComesLast`, `ContractKept` | (no constants) | none | `SessionInv` |
| `LeaseProofs` | of operations: `SettlementHolds`, `OperationsStayApart` | operations on a lease | `None` is no outcome | `LeaseInv` |
| `UsageHistoryProofs` | `EveryResultIsAccounted`, `ResultsStayFinal` | operations, identities of Hub processes, states of an operation | an operation has at least two states; names differ | `HistoryInv` |
| `HubStartupProofs` | `ChoicesStay`, `MigratedBeforeServing`, `SettingsStayCommitted` | Hubs, starts, changes | the two keys differ, `None` and `Bad` are no values | `StartupInv` |
| `RemoteFilesProofs` | `OneOperationPerServer`, `PublishedStaysWhole`, `ReplacesWhatItSaw` | uploads, writes, requests under way, size of an upload, changes by the owner | names differ | `FilesInv` |

Every proof has the same shape: the invariant holds initially (`...Init`), a lemma for each
kind of step shows that the step keeps it (`...Step`), it implies the property, and PTL
combines them.  Action properties follow from the invariant before the step.  Each invariant
was checked by TLC on the instance of its run before it was proved.

*Slots of the pool.*  `SlotInv` is `TypeOK`, `Accounting`, `EntryPinned` and
`Attached` (a borrower that waits or holds has an entry and a server, any other has
no entry).  They need each other.  Types need the accounting, because a
decrement stays in its type only if somebody is counted.  Pinning needs
it, because eviction looks at the counters and not at the borrowers.  The
accounting needs `Attached`, to know which counter a step changes.  Steps that touch
neither counters nor membership are `Quiet` and handled together; the others
(`CountingSteps`, `EnterKeeps`, `EvictKeeps`, `CloseKeeps`) add or remove one element
of one counted set.  `ServerLimit` follows: the holders of a server are the holders
of its one entry.  `StaleForever` uses `Generations`: the generation of a lease is not
ahead of that of its entry, which never goes back while a lease refers to it.

*Transports of the pool.*  `OwnerInv` adds to `SlotInv` that no client is in two places
(`CachesApart`, `HandsApart`), that an open one is in some place (`Owned`), that only registered
entries cache, that a borrower has a client only while it uses or returns it, and that a client
which may be cached was dialled with the configuration of its lease.  The last part is what
makes `CacheMatchesConfiguration` inductive: `finish` compares generations, and equal
generations mean equal configurations.

*Delivery.*  `ReceiptsCover`: a stored sample has its receipt still, or is too old to be
accepted again.  It rests on the assumption `ReceiptsOutliveWindow`, which the constants of the
code satisfy (48 hours against 25 hours and five minutes).  `LossesCounted` counts, besides what
is lost, the batch that is about to be removed, because the loss is recorded before the files go.

*Gate.*  `HolderCurrent`: whoever is inside the gate, and has not committed a change, has read
the version of the committed row, and no transaction is left that could change it.  It needs
the fence (`Fenced`), and the fence needs it for the change that is inside.  `UnresolvedNewer` and
`ReadRowsOlder` say that a version names one row, so that comparing versions is enough.

*Leases and terminals.*  `LeaseInv` relates the lease's `active` flag, the supervisor, the
worker, the closer and the channel: an operation is active exactly while something of it may
still touch the transport.  `SessionInv` does the same for the helpers of a terminal.
`ContractKept` is the refinement of `TerminalContract`: every action of the
session is shown to be a step of the contract or a stutter under the mapping in `KeepsContract`.

*History.*  An operation's row is written by four goroutines whose writes reach the store
in any order.  `HistoryInv` says what each of them may still have in flight
(`InFlight`, `OwnWrite`): a running snapshot has a smaller state number than the result,
and a result is written by its operation first, and then by the retry loop for as
long as it is queued.  `Tracked` says in which tables an operation is, `RowKnown` that its row
is no newer than the operation, and `ResultKnown` why a deleted row is not written again:
its owner is gone, the result is past its retention, or it was given up.  A write is decided by the
state number, the owner's registration and the age of the result, so each part is needed for
the others.  `Upserted` collects what one write makes of a row, and `OneOperation` reduces a
step to the operation that it touches.  The proofs use the restriction `Settled` of section 2.

*Startup.*  `HubPrepared` says what each Hub may rely on at the step it is at: the columns it has
prepared, and that every record is `Handled` (current, without a raw value, or overwritten by
the older Hub after this one had read it) or still `Awaits` its turn, in the batch or in a later one.
Other Hubs only add columns and only upgrade records (`Grown`), and what the older Hub writes is noted
by every Hub that has read the record, so that it stays true under their steps.  `SavedInOrder` and `HubSettings` relate a Hub's settings to the sequence of committed
documents.

*Files.*  `Exclusive`: at most one worker is under way, and the server is reserved exactly
then.  All the rest relies on it: what a worker has compared or verified (`Established`) is
undone by nobody but the host's owner, whose changes since that comparison it notes (`raced`).
`PublishedIssued` keeps a new upload from getting the name of a file that was already published.

**Only model-checked.**  All liveness properties (`Drains`, `Settles`, `ChangeEnds`,
`Reclaimed`, `RunningEnds`, `ReservationReturned`, `SettingsArrive`, `OwnerAnswered`): fairness and
ENABLED are beyond this prover.  The properties of `SSHRoutes`, `ResidentInstall`
and `MetricHistory` have no proofs.  Those of `MetricHistory` are about unions over
spans of buckets, for which the argument is an induction over data that the
prover cannot do; the other two have no such obstacle, and only their invariants have not
been worked out.

## 5. Not modelled

- *Presence* (`service/resident_monitor.go`: websocket and polling connections, status).  It
  decides what is displayed.  `AgentWebSocket` does not compare the token again when it
  registers, so a connection of an older token can take the place of a newer one until the
  next contact; samples and receipts do not depend on it.
- *On-demand deployment and SSH sampling* (`service/agent_deploy*.go`, `monitor*.go`).  Only
  `NewMonitorService` starts them, which the Hub does not wire.
- *The legacy interface of the pool* by server ID, the audit retry queue and the
  legacy backfill of the history, storage reports, the choice of a query interval and
  the averages in rollups.
- *Artifacts, relay, rate limits, telemetry, update check*: caches and counters of one
  mutex each, or requests without state between them.
- *Cryptography, encodings, SQL text, HTTP forwarding, operating system counters*: data or
  I/O.  Handlers and models add no state, and the web interface is one browser's view.
- *External*: the SSH handshake, SFTP servers, systemd, Task Scheduler and PostgreSQL appear as
  results and as atomic steps.

`PROJECT.json` lists every part with its reason.
