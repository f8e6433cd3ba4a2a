--------------------------- MODULE ResidentInstall ---------------------------
(* Installation and removal of the resident agent of one server: the reconciler
   and its installation job (resident_deploy.go, resident_scheduler.go), the
   deletions that fence and join the job and uninstall the agent, the layouts
   kept in the agent_nodes row, and what the scripts do on the host.

   A layout (account, directory and unit) is named by its account; a Windows host
   has one, which only administrators reach.  A script that the Hub started may
   go on after its connection or the Hub is gone; the scripts of one layout
   exclude each other through its lock file. *)
EXTENDS Naturals, FiniteSets

CONSTANTS Accounts,     \* the accounts that the SSH credential may log in as
          Root,         \* the one that reaches every layout
          Deleters,     \* concurrent DELETE requests for the server
          None,
          MaxAttempts,  \* bound: installations scheduled
          MaxChanges    \* bound: settings, credential changes and Hub restarts

VARIABLES live,         \* the server's row is not deleted
          row,          \* its agent_nodes row: recorded and pending layouts
          account,      \* the account the current credential logs in as
          config,       \* version of the desired settings
          seen,         \* ... the reconciler has acted upon (lastSettings)
          snap,         \* the reconciler's pass: what it read
          job,          \* installJobs of the server
          fence,        \* removing of the server: the owning deletion
          del,          \* the deletions
          host,         \* the agent of each layout: whether it runs and has its files
          staged,       \* the attempts whose files are staged in each layout
          act,          \* the activation script of each attempt, on the host
          receipt,      \* the receipt of the removal task on Windows; None on Linux
          attempts, changes,
          removed       \* a removal reported success

hub == <<live, row, account, config, seen, attempts, changes, removed>>
remote == <<host, staged, act, receipt>>
vars == <<live, row, account, config, seen, snap, job, fence, del, host, staged, act,
          receipt, attempts, changes, removed>>

Attempts == 1 .. MaxAttempts
NewRow == [recorded |-> None, pending |-> {}, ready |-> FALSE, config |-> 0]
NoSnap == [pc |-> "idle", fresh |-> FALSE, config |-> 0, node |-> NewRow]
NoDel == [pc |-> "idle", err |-> FALSE, todo |-> {}, lease |-> None, node |-> NewRow]
Agent(c) == [config |-> c, runs |-> TRUE, files |-> TRUE]
Installed == {l \in Accounts : IF host[l] = None THEN FALSE ELSE host[l].files}
Windows == receipt # None
Running == {l \in Accounts : IF host[l] = None THEN FALSE ELSE host[l].runs}

(* knownInstallLayouts *)
KnownInstallLayouts(n) == n.pending \cup ({n.recorded} \ {None})

(* discoverInstallLayouts: root finds every layout; another account its own and
   root's, and finding none where an agent was installed is an error. *)
Discovered(who) == IF who = Root THEN Installed ELSE Installed \cap {who, Root}
MayTrust(who, n) == who = Root \/ Discovered(who) # {} \/ (~n.ready /\ n.config = 0)

(* A row written before layouts were tracked, which only Linux hosts have, may
   describe a running agent of the account that the credential logs in as. *)
Init ==
  /\ live = TRUE /\ config = 1 /\ seen = 1
  /\ account \in Accounts
  /\ \/ row = None /\ host = [l \in Accounts |-> None] /\ receipt \in {None, "absent"}
     \/ /\ receipt = None
        /\ row = [NewRow EXCEPT !.ready = TRUE, !.config = 1]
        /\ host = [l \in Accounts |-> IF l = account THEN Agent(1) ELSE None]
  /\ snap = NoSnap /\ job = None /\ fence = None
  /\ del = [d \in Deleters |-> NoDel]
  /\ staged = [l \in Accounts |-> {}]
  /\ act = [i \in Attempts |-> None]
  /\ attempts = 0 /\ changes = 0 /\ removed = FALSE

Cancelled(j) == IF j = None THEN None ELSE [j EXCEPT !.cancelled = TRUE]

----------------------------------------------------------------------------
(* A job of a server that the pass does not list is cancelled. *)
Swept(j) == IF live THEN j ELSE Cancelled(j)

(* Start: one pass of the reconciler.  A change of the settings starts a new
   epoch and cancels the job; fresh means that the epoch read is the current. *)
List ==
  /\ snap.pc = "idle"
  /\ seen' = config
  /\ job' = Swept(IF seen # config THEN Cancelled(job) ELSE job)
  /\ snap' = IF live THEN [pc |-> "listed", fresh |-> TRUE, config |-> config, node |-> NewRow]
             ELSE NoSnap
  /\ UNCHANGED <<live, row, account, config, fence, del, remote, attempts, changes, removed>>

InstallAllowed == fence = None /\ snap.fresh

EnsuredRow == IF row = None THEN NewRow ELSE row
Ensure ==
  /\ snap.pc = "listed"
  /\ IF InstallAllowed /\ live
       THEN /\ row' = EnsuredRow
            /\ snap' = [snap EXCEPT !.pc = "ensured", !.node = row']
       ELSE snap' = NoSnap /\ UNCHANGED row
  /\ UNCHANGED <<live, account, config, seen, job, fence, del, remote, attempts, changes, removed>>

ResidentInstallNeeded(n, c) ==
  ~(n.recorded # None /\ n.pending = {} /\ n.ready /\ n.config = c)

(* An agent without contact for long, another manifest or a retry that is due makes
   an installation needed at any time; one job of a server runs at a time. *)
Admitted == job = None /\ InstallAllowed /\ attempts < MaxAttempts
ScheduleInstall ==
  /\ snap.pc = "ensured"
  /\ snap' = NoSnap
  /\ \/ /\ Admitted
        /\ attempts' = attempts + 1
        /\ job' = [pc |-> "queued", no |-> attempts', node |-> snap.node, config |-> snap.config,
                   as |-> None, todo |-> {}, slot |-> None, cancelled |-> FALSE]
     \/ UNCHANGED <<job, attempts>>
  /\ UNCHANGED <<live, row, account, config, seen, fence, del, remote, changes, removed>>

----------------------------------------------------------------------------
(* installJob and install, on one lease *)
At(pc) == job # None /\ job.pc = pc
Ready == ~job.cancelled
StoreDeployment(ready) ==    \* an error is ignored
  \/ row # None /\ row' = [row EXCEPT !.ready = ready, !.config = IF ready THEN job.config ELSE @]
  \/ UNCHANGED row
JobKeeps == UNCHANGED <<live, account, config, seen, fence, del, attempts, changes, removed>>
JobOnly == JobKeeps /\ UNCHANGED snap
(* The end of a job: a pass that read the row before it schedules nothing, since
   a failure is not due again within the pass and an installation takes longer
   than a pass needs from Ensure to scheduleInstall. *)
JobEnds ==
  /\ job' = None
  /\ snap' = [snap EXCEPT !.fresh = FALSE]
  /\ JobKeeps

(* beginInstall waits for one of the transfer slots; then the state is "installing". *)
TransferSlot(j) == [j EXCEPT !.slot = "transfer"]
BeginInstall ==
  /\ At("queued") /\ Ready
  /\ job' = [TransferSlot(job) EXCEPT !.pc = "probe"]
  /\ StoreDeployment(FALSE)
  /\ UNCHANGED remote /\ JobOnly

(* AcquireLease and Probe: the account of the login fixes the layout. *)
Administers == Windows => account = Root
Probe ==
  /\ At("probe") /\ Ready /\ Administers
  /\ job' = [job EXCEPT !.pc = "plan", !.as = account]
  /\ UNCHANGED <<row, remote>> /\ JobOnly

(* residentInstallRetirements; clashing directories are an error. *)
Retirements(previous, current) == previous \ {current}
PlanRetirements ==
  LET known == KnownInstallLayouts(job.node)
  IN /\ At("plan") /\ Ready /\ ~Windows
     /\ known # {} \/ MayTrust(job.as, job.node)
     /\ job' = [job EXCEPT !.pc = "track",
                 !.todo = Retirements(IF known # {} THEN known ELSE Discovered(job.as), job.as)]
     /\ UNCHANGED <<row, remote>> /\ JobOnly

(* installWindows keeps to the one layout. *)
PlanWindows ==
  /\ At("plan") /\ Ready /\ Windows
  /\ KnownInstallLayouts(job.node) \subseteq {job.as}
  /\ job' = [job EXCEPT !.pc = "track"]
  /\ UNCHANGED <<row, remote>> /\ JobOnly

(* TrackInstallLayouts: every location is stored before the host is touched. *)
TrackNew(n) == n.pending \cup {job.as}
Track(n) == n.pending \cup KnownInstallLayouts(n) \cup job.todo \cup {job.as}
TrackInstallLayouts ==
  /\ At("track") /\ Ready /\ row # None
  /\ row' = [row EXCEPT !.pending = Track(row)]
  /\ job' = [job EXCEPT !.pc = "setup"]
  /\ UNCHANGED remote /\ JobOnly

(* The setup script removes what earlier attempts staged. *)
Setup(l) == [staged EXCEPT ![l] = {}]
PrepareDirectory ==
  /\ At("setup") /\ Ready /\ ~Windows
  /\ staged' = Setup(job.as)
  /\ job' = [job EXCEPT !.pc = "stage"]
  /\ UNCHANGED <<row, host, act, receipt>> /\ JobOnly

(* The lock of a layout's unit is held by an activation that is under way. *)
Locked(l) == \E i \in Attempts : IF act[i] = None THEN FALSE
                                 ELSE act[i].at = l /\ act[i].phase = "holding"

(* The preparation on Windows takes the lock and leaves recent stages alone; the
   task of an earlier attempt has the lock or has given up waiting for it (ten
   seconds) before another attempt is prepared. *)
PrepareWindows ==
  /\ At("setup") /\ Ready /\ Windows /\ ~Locked(job.as)
  /\ act' = [i \in Attempts |-> None]
  /\ job' = [job EXCEPT !.pc = "stage"]
  /\ UNCHANGED <<row, host, staged, receipt>> /\ JobOnly

(* stageArtifact: a pull into the cache, or an upload when it is unavailable *)
StageArtifact ==
  /\ At("stage") /\ Ready /\ ~Windows
  /\ staged' = [staged EXCEPT ![job.as] = @ \cup {job.no}]
  /\ job' = [job EXCEPT !.pc = "configure"]
  /\ UNCHANGED <<row, host, act, receipt>> /\ JobOnly

(* The configuration and the unit, each verified by its digest *)
StageConfiguration ==
  /\ At("configure") /\ Ready
  /\ job' = [job EXCEPT !.pc = "staged"]
  /\ UNCHANGED <<row, remote>> /\ JobOnly

(* On Windows the binary, the configuration and the script of the task *)
StageWindows ==
  /\ At("stage") /\ Ready /\ Windows
  /\ staged' = [staged EXCEPT ![job.as] = @ \cup {job.no}]
  /\ job' = [job EXCEPT !.pc = "staged"]
  /\ UNCHANGED <<row, host, act, receipt>> /\ JobOnly

(* beginActivation gives the transfer slot back before it waits for the other. *)
BeginActivation ==
  /\ At("staged")
  /\ \/ job.slot = "transfer" /\ job' = [job EXCEPT !.slot = None]
     \/ job.slot = None /\ Ready /\ job' = [job EXCEPT !.slot = "activation", !.pc = "activate"]
  /\ UNCHANGED <<row, remote>> /\ JobOnly

Launch ==
  /\ act' = [act EXCEPT ![job.no] = [at |-> job.as, config |-> job.config,
                                     phase |-> "waiting", prev |-> None]]
  /\ job' = [job EXCEPT !.pc = "await"]
  /\ UNCHANGED <<row, host, staged, receipt>> /\ JobOnly
Activate == At("activate") /\ Ready /\ ~Windows /\ Launch

(* activateWindowsAgent: Launch verifies the script and registers a task that
   outlives the channel; there is time for it, or the installation fails. *)
ActivateWindows == At("activate") /\ Ready /\ Windows /\ job.no \in staged[job.as] /\ Launch

Activated ==
  /\ At("await") /\ act[job.no] # None /\ act[job.no].phase = "healthy"
  /\ act' = [act EXCEPT ![job.no] = None]
  /\ job' = [job EXCEPT !.pc = "retire"]
  /\ UNCHANGED <<row, host, staged, receipt>> /\ JobOnly

(* residentRemovalScript stops the unit and removes the files.  The strict one fails
   unless the unit is stopped; the other ignores a failed stop and can leave the agent
   running without its files. *)
Stopped(agent) == {None}
StoppedOrNot(agent) ==
  {None} \cup IF agent = None \/ ~agent.runs THEN {} ELSE {[agent EXCEPT !.files = FALSE]}
Left(agent, strict) == IF strict THEN Stopped(agent) ELSE StoppedOrNot(agent)

(* uninstallLayout by a login that reaches the layout's account *)
UninstallUnit(who, l, strict) ==
  /\ ~Locked(l) /\ who \in {Root, l}
  /\ host' = [host EXCEPT ![l] = None]
  /\ UNCHANGED <<staged, act, receipt>>
Uninstall(who, l, strict) ==
  /\ ~Locked(l) /\ who \in {Root, l}
  /\ \E agent \in Left(host[l], strict) : host' = [host EXCEPT ![l] = agent]
  /\ staged' = [staged EXCEPT ![l] = {}]
  /\ UNCHANGED <<act, receipt>>

(* Another login fails, or finds no file to remove where it need not stop the unit. *)
NothingThere(who, l) == who \notin {Root, l} /\ l \notin Installed /\ staged[l] = {}

(* The script fails, perhaps after it stopped the unit. *)
UninstallFails(who, l) ==
  /\ \/ UNCHANGED host
     \/ /\ who \in {Root, l} /\ ~Locked(l) /\ l \in Running
        /\ host' = [host EXCEPT ![l].runs = FALSE]
  /\ UNCHANGED <<staged, act, receipt>>

Retire ==
  /\ At("retire") /\ Ready
  /\ \E l \in job.todo :
       /\ Uninstall(job.as, l, TRUE)
       /\ job' = [job EXCEPT !.todo = @ \ {l}]
  /\ UNCHANGED row /\ JobOnly
RetireFails ==
  /\ At("retire")
  /\ \E l \in job.todo : UninstallFails(job.as, l)
  /\ StoreDeployment(FALSE) /\ JobEnds

(* SetInstallLayout, the final deployment state, stages.finish; neither store
   is bound to the job's context. *)
RetiredLater == TRUE
Retired == job.todo = {}
SetInstallLayout ==
  /\ At("retire") /\ Retired /\ row # None
  /\ row' = [row EXCEPT !.recorded = job.as, !.pending = {}]
  /\ job' = [job EXCEPT !.pc = "recorded"]
  /\ UNCHANGED remote /\ JobOnly

Finish ==
  /\ At("recorded")
  /\ StoreDeployment(TRUE)
  /\ UNCHANGED remote /\ JobEnds

(* Any step may fail, and a cancelled job stops; finish returns its slots.  The
   script it waited for is left to itself. *)
Fail ==
  /\ job # None
  /\ StoreDeployment(FALSE)
  /\ act' = [act EXCEPT ![job.no] = IF @ = None THEN None
                                    ELSE IF @.phase \in {"healthy", "failed"} THEN None ELSE @]
  /\ UNCHANGED <<host, staged, receipt>> /\ JobEnds

----------------------------------------------------------------------------
(* residentActivationScript on the host: lock, keep the previous version, move
   the staged files into place, restart, wait for an authenticated contact. *)
Done(i, phase) ==
  act' = [act EXCEPT ![i] = IF At("await") /\ job.no = i THEN [@ EXCEPT !.phase = phase] ELSE None]
RemoteOnly == UNCHANGED <<hub, snap, job, fence, del>>
ScriptOnly == RemoteOnly /\ UNCHANGED receipt
Phase(i) == IF act[i] = None THEN "none" ELSE act[i].phase

(* The rollback of a failed activation: systemd restarts the previous version;
   Windows leaves it as it was and removes a service that is new. *)
RolledBack(new, previous) ==
  IF previous = None \/ ~previous.files THEN {IF Windows THEN None ELSE [new EXCEPT !.runs = FALSE]}
  ELSE IF Windows THEN {previous} \cup {none \in {None} : ~previous.runs}
  ELSE {[previous EXCEPT !.runs = TRUE]}

ScriptLocks(i) ==
  /\ Phase(i) = "waiting"
  /\ LET l == act[i].at
     IN \/ /\ ~Locked(l) /\ i \in staged[l]
           /\ act' = [act EXCEPT ![i].phase = "holding", ![i].prev = host[l]]
           /\ host' = [host EXCEPT ![l] = Agent(act[i].config)]
           /\ staged' = [staged EXCEPT ![l] = @ \ {i}]
        \/ Done(i, "failed") /\ staged' = [staged EXCEPT ![l] = @ \ {i}] /\ UNCHANGED host
  /\ ScriptOnly

ScriptEnds(i) ==
  /\ Phase(i) = "holding"
  /\ LET l == act[i].at
     IN \/ Done(i, "healthy") /\ UNCHANGED host
        \/ /\ Done(i, "failed")
           /\ \E agent \in RolledBack(host[l], act[i].prev) : host' = [host EXCEPT ![l] = agent]
        \/ /\ Done(i, "failed")              \* killed, or the host restarted
           /\ \E runs \in BOOLEAN : host' = [host EXCEPT ![l].runs = runs]
  /\ UNCHANGED staged /\ ScriptOnly

----------------------------------------------------------------------------
(* ServerService.Delete with PrepareAgentRemoval, Remove and Close *)
DelOnly == UNCHANGED <<account, config, seen, attempts, changes>>
Go(d, pc) == del' = [del EXCEPT ![d].pc = pc]

FenceRemoval(d) ==
  /\ del[d].pc = "idle" /\ fence = None
  /\ fence' = d
  /\ snap' = [snap EXCEPT !.fresh = FALSE]
  /\ job' = Cancelled(job)
  /\ Go(d, "joining")
  /\ UNCHANGED <<live, row, removed, remote>> /\ DelOnly

(* Another deletion owns the fence and this one gave up waiting: it commits
   nothing. *)
NotOwner(d) ==
  /\ del[d].pc = "idle" /\ fence # None
  /\ Go(d, "done")
  /\ UNCHANGED <<live, row, removed, remote, snap, job, fence>> /\ DelOnly

JoinedAnyway == TRUE
JoinedJob == job = None
Join(d) ==
  /\ del[d].pc = "joining"
  /\ \/ JoinedJob /\ Go(d, "joined")
     \/ del' = [del EXCEPT ![d].pc = "commit", ![d].err = TRUE]     \* timeout
  /\ UNCHANGED <<live, row, removed, remote, snap, job, fence>> /\ DelOnly

PrepareAgentRemoval(d) ==
  /\ del[d].pc = "joined"
  /\ IF row = None THEN Go(d, "commit")
     ELSE \/ del' = [del EXCEPT ![d].pc = "commit", ![d].lease = account,
                                ![d].node = row, ![d].todo = KnownInstallLayouts(row)]
          \/ del' = [del EXCEPT ![d].pc = "commit", ![d].err = TRUE]
  /\ UNCHANGED <<live, row, removed, remote, snap, job, fence>> /\ DelOnly

DeleteServer(d) ==
  /\ del[d].pc = "commit"
  /\ \/ live /\ live' = FALSE /\ Go(d, IF del[d].lease # None /\ del[d].todo = {} THEN "discover"
                                       ELSE "remove")
     \/ UNCHANGED live /\ Go(d, "close")
  /\ UNCHANGED <<row, removed, remote, snap, job, fence>> /\ DelOnly

DiscoverLayouts(d) ==
  /\ del[d].pc = "discover"
  /\ del' = IF ~Windows /\ MayTrust(del[d].lease, del[d].node)
              THEN [del EXCEPT ![d].pc = "remove", ![d].todo = Discovered(del[d].lease)]
              ELSE [del EXCEPT ![d].pc = "remove", ![d].err = TRUE]
  /\ UNCHANGED <<live, row, removed, remote, snap, job, fence>> /\ DelOnly

RemoveLayout(d) ==
  /\ del[d].pc = "remove" /\ del[d].lease # None
  /\ \E l \in del[d].todo :
       \/ /\ ~Windows
          /\ \/ Uninstall(del[d].lease, l, FALSE)
             \/ NothingThere(del[d].lease, l) /\ UNCHANGED remote
          /\ del' = [del EXCEPT ![d].todo = @ \ {l}]
       \/ /\ IF Windows THEN UNCHANGED remote ELSE UninstallFails(del[d].lease, l)
          /\ del' = [del EXCEPT ![d].todo = @ \ {l}, ![d].err = TRUE]
  /\ UNCHANGED <<live, row, removed, snap, job, fence>> /\ DelOnly

(* uninstallWindows: a scheduled task removes the installation; the deletion
   waits two seconds for its receipt and takes a pending one for success. *)
RemoveDetached == receipt' = "pending"
RemovalReported == receipt # "failed"
ScheduleRemoval(d) ==
  /\ del[d].pc = "remove" /\ Windows /\ del[d].lease = Root /\ del[d].todo # {}
  /\ RemoveDetached
  /\ \/ Go(d, "await")
     \/ del' = [del EXCEPT ![d].todo = {}, ![d].err = TRUE]
  /\ UNCHANGED <<live, row, removed, host, staged, act, snap, job, fence>> /\ DelOnly

AwaitRemoval(d) ==
  /\ del[d].pc = "await"
  /\ \/ RemovalReported /\ del' = [del EXCEPT ![d].pc = "remove", ![d].todo = {}]
     \/ del' = [del EXCEPT ![d].pc = "remove", ![d].todo = {}, ![d].err = TRUE]
  /\ UNCHANGED <<live, row, removed, remote, snap, job, fence>> /\ DelOnly

(* The task on the host waits for the lock and tries several times. *)
RemovalTask ==
  /\ receipt \in {"pending", "failed"}
  /\ \/ /\ ~Locked(Root)
        /\ host' = [host EXCEPT ![Root] = None]
        /\ staged' = [staged EXCEPT ![Root] = {}]
        /\ receipt' = "succeeded"
     \/ /\ receipt' = "failed"
        /\ \/ UNCHANGED host
           \/ Root \in Running /\ ~Locked(Root) /\ host' = [host EXCEPT ![Root].runs = FALSE]
        /\ UNCHANGED staged
  /\ UNCHANGED act /\ RemoteOnly

DropRow(d) ==
  /\ del[d].pc = "remove" /\ del[d].todo = {}
  /\ row' \in {row, None}
  /\ removed' = (removed \/ (del[d].lease # None /\ ~del[d].err))
  /\ Go(d, "close")
  /\ UNCHANGED <<live, remote, snap, job, fence>> /\ DelOnly

Close(d) ==
  /\ del[d].pc = "close"
  /\ fence' = None
  /\ snap' = [snap EXCEPT !.fresh = FALSE]
  /\ del' = [del EXCEPT ![d] = [NoDel EXCEPT !.pc = "done"]]
  /\ UNCHANGED <<live, row, removed, remote, job>> /\ DelOnly

----------------------------------------------------------------------------
(* Cleanup drops the rows of deleted servers. *)
Cleanup ==
  /\ ~live /\ row # None
  /\ row' = None
  /\ UNCHANGED <<live, account, config, seen, snap, job, fence, del, remote, attempts, changes, removed>>

Changing == changes < MaxChanges /\ changes' = changes + 1
ChangeSettings ==
  /\ Changing /\ config' = config + 1
  /\ UNCHANGED <<live, row, account, seen, snap, job, fence, del, remote, attempts, removed>>
SwitchCredential ==
  /\ Changing /\ live
  /\ \E a \in Accounts \ {account} : account' = a
  /\ UNCHANGED <<live, row, config, seen, snap, job, fence, del, remote, attempts, removed>>

(* The Hub stops or crashes: jobs and deletions end where they are. *)
RestartHub ==
  /\ Changing
  /\ snap' = NoSnap /\ job' = None /\ fence' = None /\ seen' = config
  /\ del' = [d \in Deleters |-> IF del[d].pc = "idle" THEN NoDel ELSE [NoDel EXCEPT !.pc = "done"]]
  /\ act' = [i \in Attempts |-> IF Phase(i) \in {"healthy", "failed"} THEN None ELSE act[i]]
  /\ UNCHANGED <<live, row, account, config, host, staged, receipt, attempts, removed>>

JobStep ==
  \/ BeginInstall \/ Probe \/ PlanRetirements \/ PlanWindows \/ TrackInstallLayouts
  \/ PrepareDirectory \/ PrepareWindows \/ StageArtifact \/ StageConfiguration \/ StageWindows
  \/ BeginActivation \/ Activate \/ ActivateWindows \/ Activated \/ Retire
  \/ RetireFails \/ SetInstallLayout \/ Finish \/ Fail
DeleteStep(d) ==
  \/ FenceRemoval(d) \/ NotOwner(d) \/ Join(d) \/ PrepareAgentRemoval(d) \/ DeleteServer(d)
  \/ DiscoverLayouts(d) \/ RemoveLayout(d) \/ ScheduleRemoval(d)
  \/ AwaitRemoval(d) \/ DropRow(d) \/ Close(d)
Next ==
  \/ List \/ Ensure \/ ScheduleInstall \/ JobStep \/ Cleanup
  \/ \E i \in Attempts : ScriptLocks(i) \/ ScriptEnds(i)
  \/ RemovalTask
  \/ \E d \in Deleters : DeleteStep(d)
  \/ ChangeSettings \/ SwitchCredential \/ RestartHub

Spec == Init /\ [][Next]_vars

----------------------------------------------------------------------------
(* A deletion that joined the installer without an error works alone: no job of
   the server is under way until the fence is given up, and no stale pass of the
   reconciler admits one. *)
RemovalWorksAlone ==
  /\ job # None => job.as \in Accounts \cup {None}
  /\ \A d \in Deleters : del[d].pc \in {"joined", "commit", "discover", "remove", "await"} =>
       fence = d /\ (del[d].err \/ job = None)

(* "Persist every location before touching the remote filesystem": once the row
   names layouts at all, it names every layout that has files on the host, so that
   a retry, a migration or the deletion can find them, also after a failure or a
   restart of the Hub between any two steps. *)
EvidenceKept ==
  row # None /\ KnownInstallLayouts(row) # {} =>
    \A l \in Accounts : l \in Installed \/ staged[l] # {} => l \in KnownInstallLayouts(row)

(* "two agents cannot report for one server": when the row records a finished
   installation, no other layout has an agent running, and while the reconciler
   takes it for settled that agent runs with the desired settings; the script of
   an earlier attempt that is still on the host can undo neither. *)
OneAgent ==
  live /\ row # None /\ row.recorded # None /\ row.pending = {} =>
    /\ Running \subseteq {row.recorded}
    /\ ~ResidentInstallNeeded(row, config) =>
         row.recorded \in Running /\ host[row.recorded].config = config

(* After a removal that reported success no installation is left on the host and
   none comes back, also if the activation script of a cancelled job was still
   waiting for its lock: an agent whose stop failed may run on, without files and
   without a unit.  On Windows the receipt says when the removal is done, and until
   then its task stays on the host. *)
RemovedStaysRemoved ==
  /\ removed => Installed = {} \/ receipt \in {"pending", "failed"}
  /\ receipt = "succeeded" => Installed = {} /\ Running = {}
============================================================================
