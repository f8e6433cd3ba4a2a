----------------------------- MODULE AccessGate -----------------------------
(***************************************************************************)
(* Admission and revocation for one subject: a user, whose version changes *)
(* with the password (service/auth.go), or an API key, whose revision      *)
(* changes with its permissions and its secret (service/apikey*.go).       *)
(* gate.Gate serialises every admission with the changes, gate.Registry    *)
(* holds the subject's terminal sessions.                                  *)
(*                                                                         *)
(* A transaction whose COMMIT got no answer stays unresolved in the        *)
(* database (tx), also after the Hub died, and commits or rolls back       *)
(* later.  An ordinary read ignores it, a locking read waits for it.       *)
(***************************************************************************)
EXTENDS Integers, FiniteSets

CONSTANTS Mutators,    \* calls that change the subject
          Requests,    \* authenticated requests
          Sessions,    \* terminal sessions
          Policies,    \* scopes and servers of an API key
          MaxVersion,  \* bound on the subject's version
          None

ASSUME ActorsDistinct == /\ Mutators \cap Requests = {} /\ Mutators \cap Sessions = {}
                         /\ Requests \cap Sessions = {}
                         /\ None \notin Mutators \cup Requests \cup Sessions
ASSUME MaxVersionPositive == MaxVersion \in Nat \ {0}
ASSUME PoliciesExist == Policies # {}

Actors == Mutators \cup Requests \cup Sessions

(* The subject's row; a secret is named after the version it came with.  A missing
   row has version 0. *)
Row == [version : 0..MaxVersion, secret : 0..MaxVersion, policy : Policies]
ASSUME NoneIsNoValue == None \notin Row /\ None \notin {"preparing", "ready", "revoked"}

VARIABLES
  subject,      \* "user" or "key"
  row,          \* the committed row
  tx,           \* the row an unresolved transaction would commit, or None
  holder,       \* the owner of userState.lock
  ver,          \* the version it has read
  initialized,  \* userState.initialized
  pending,      \* userState.pending, the uncertainty fence
  pc,           \* where every call is
  unknown,      \* mutators whose COMMIT got no answer
  key,          \* of a request: the row found by the secret it presented
  version,      \* of a session: the version it was opened under
  reg,          \* of a session: its state in the registry, None if not in it
  revoked       \* of a mutator: the sessions MarkRevoked returned

gateVars == <<holder, ver, initialized, pending>>
vars == <<subject, row, tx, gateVars, pc, unknown, key, version, reg, revoked>>

(* Mutators: idle, calling, [mutating, revoking], awaiting
   Requests: idle, looked, [checking], admitted
   Sessions: idle, opened, [registering], setup, [readying], running,
             [permitting], writing, closing, done
   in brackets: holding the gate. *)
PCs == {"idle", "calling", "mutating", "revoking", "awaiting", "looked", "checking",
        "admitted", "opened", "registering", "setup", "readying", "running",
        "permitting", "writing", "closing", "done"}
Inside == {"mutating", "revoking", "checking", "registering", "readying", "permitting"}

Init ==
  /\ subject \in {"user", "key"}
  /\ row = [version |-> 1, secret |-> 1, policy |-> CHOOSE p \in Policies : TRUE]
  /\ tx = None
  /\ holder = None /\ ver = 0 /\ initialized = FALSE /\ pending = FALSE
  /\ pc = [a \in Actors |-> "idle"]
  /\ unknown = {}
  /\ key = [r \in Requests |-> None]
  /\ version = [s \in Sessions |-> 0]
  /\ reg = [s \in Sessions |-> None]
  /\ revoked = [m \in Mutators |-> {}]

Goto(a, p) == pc' = [pc EXCEPT ![a] = p]

----------------------------------------------------------------------------
(* withUser up to the callback: the lock, then the version.  The first read of a
   process and every read behind the fence locks the row. *)
MustLock == ~initialized \/ pending
Readable(lock) == lock => tx = None
EnterGate(a, from, to) ==
  /\ pc[a] = from /\ Goto(a, to)
  /\ holder = None /\ holder' = a
  /\ Readable(MustLock)
  /\ ver' = row.version
  /\ initialized' = TRUE /\ pending' = FALSE
  /\ UNCHANGED <<subject, row, tx, unknown, key, version, reg, revoked>>

(* withUser fails: the budget is used up, or the database does not answer. *)
Refused(a, from, to) ==
  /\ pc[a] = from /\ Goto(a, to)
  /\ UNCHANGED <<subject, row, tx, gateVars, unknown, key, version, reg, revoked>>

LeaveGate(a, to) ==
  /\ holder' = None /\ ver' = 0 /\ Goto(a, to)
  /\ UNCHANGED initialized

(* Recover, in the background after an unknown commit. *)
Recover ==
  /\ pending /\ holder = None /\ Readable(TRUE)
  /\ initialized' = TRUE /\ pending' = FALSE
  /\ UNCHANGED <<subject, row, tx, holder, ver, pc, unknown, key, version, reg, revoked>>

(* The database ends the unresolved transaction. *)
Resolve(commits) ==
  /\ tx # None
  /\ row' = IF commits THEN tx ELSE row
  /\ tx' = None
  /\ UNCHANGED <<subject, gateVars, pc, unknown, key, version, reg, revoked>>

----------------------------------------------------------------------------
(* ChangePassword, UpdatePermissions, Rotate, Delete. *)
Call(m) ==
  /\ pc[m] = "idle" /\ Goto(m, "calling")
  /\ UNCHANGED <<subject, row, tx, gateVars, unknown, key, version, reg, revoked>>

(* What the transaction finds in the locked row, and what it makes of it: change k
   to policy p, asked for by somebody who had seen revision e. *)
Allowed(k, p, e) ==
  CASE k = "password"    -> row.version > 0
    [] k = "rotate"      -> row.version > 0 /\ e = row.version
    [] k = "permissions" -> row.version > 0 /\ e = row.version /\ p # row.policy
    [] k = "delete"      -> TRUE
Deleted == [row EXCEPT !.version = 0]
GenerateKey == row.version + 1
Changed(k, p) ==
  CASE k = "delete"      -> Deleted
    [] k = "permissions" -> [row EXCEPT !.version = @ + 1, !.policy = p]
    [] OTHER             -> [row EXCEPT !.version = @ + 1, !.secret = GenerateKey]
Kinds == IF subject = "user" THEN {"password"} ELSE {"permissions", "rotate", "delete"}
Outcomes == {Changed(c[1], c[2]) : c \in {d \in Kinds \X Policies :
               \E e \in 0..MaxVersion : Allowed(d[1], d[2], e)}} \cap Row

(* The transaction commits; or its COMMIT gets no answer; or it fails, finds
   another revision, or has nothing to change. *)
Commit(m) ==
  /\ pc[m] = "mutating" /\ holder = m
  /\ tx = None /\ row' \in Outcomes
  /\ Goto(m, "revoking")
  /\ UNCHANGED <<subject, tx, gateVars, unknown, key, version, reg, revoked>>

CommitUnknown(m) ==
  /\ pc[m] = "mutating" /\ holder = m
  /\ tx = None /\ tx' \in Outcomes
  /\ unknown' = unknown \cup {m}
  /\ Goto(m, "revoking")
  /\ UNCHANGED <<subject, row, gateVars, key, version, reg, revoked>>

RollBack(m) ==
  /\ pc[m] = "mutating" /\ holder = m
  /\ LeaveGate(m, "idle")
  /\ UNCHANGED <<subject, row, tx, pending, unknown, key, version, reg, revoked>>

(* MarkRevoked, and the fence if the outcome is unknown, before the gate opens. *)
RevokableReady == {s \in Sessions : reg[s] = "ready"}
Revokable == {s \in Sessions : reg[s] # None}

RevokeUnfenced(m) ==
  /\ pc[m] = "revoking" /\ holder = m /\ unknown' = unknown \ {m}
  /\ reg' = [s \in Sessions |-> IF s \in Revokable THEN "revoked" ELSE reg[s]]
  /\ revoked' = [revoked EXCEPT ![m] = Revokable]
  /\ LeaveGate(m, "awaiting")
  /\ UNCHANGED <<subject, row, tx, pending, key, version>>

Revoke(m) ==
  /\ pc[m] = "revoking" /\ holder = m
  /\ reg' = [s \in Sessions |-> IF s \in Revokable THEN "revoked" ELSE reg[s]]
  /\ revoked' = [revoked EXCEPT ![m] = Revokable]
  /\ pending' = (m \in unknown) /\ unknown' = unknown \ {m}
  /\ LeaveGate(m, "awaiting")
  /\ UNCHANGED <<subject, row, tx, key, version>>

(* Await: every session has reported Done, or the frozen budget is used up. *)
Joined(m) == \A s \in revoked[m] : pc[s] = "done"
AwaitOnlyJoined(m, expired) ==
  /\ pc[m] = "awaiting" /\ Joined(m)
  /\ Goto(m, "idle")
  /\ revoked' = [revoked EXCEPT ![m] = {}]
  /\ UNCHANGED <<subject, row, tx, gateVars, unknown, key, version, reg>>
Await(m, expired) ==
  /\ pc[m] = "awaiting" /\ (Joined(m) \/ expired)
  /\ Goto(m, "idle")
  /\ revoked' = [revoked EXCEPT ![m] = {}]
  /\ UNCHANGED <<subject, row, tx, gateVars, unknown, key, version, reg>>

----------------------------------------------------------------------------
(* A request finds the row by its secret (Validate), or a token was issued from it
   at login; then anything may happen before it is admitted. *)
Lookup(r) ==
  /\ pc[r] = "idle" /\ row.version > 0 /\ Goto(r, "looked")
  /\ key' = [key EXCEPT ![r] = row]
  /\ UNCHANGED <<subject, row, tx, gateVars, unknown, version, reg, revoked>>

(* The callback: a token needs the current version; a key with another revision is
   read again by its ID, and must still have the secret that was presented. *)
AcceptsAnyVersion(r) == ver > 0
Accepts(r) == \/ subject = "user" /\ key[r].version = ver
              \/ /\ subject = "key" /\ ver > 0
                 /\ ver # key[r].version => row.version > 0 /\ key[r].secret = row.secret

Check(r) ==
  /\ pc[r] = "checking" /\ holder = r
  /\ LeaveGate(r, IF Accepts(r) THEN "admitted" ELSE "idle")
  /\ key' = [key EXCEPT ![r] = IF ~Accepts(r) THEN None ELSE
                               IF ver # @.version THEN row ELSE @]
  /\ UNCHANGED <<subject, row, tx, pending, unknown, version, reg, revoked>>

Finish(r) ==
  /\ pc[r] \in {"looked", "admitted"} /\ Goto(r, "idle")
  /\ key' = [key EXCEPT ![r] = None]
  /\ UNCHANGED <<subject, row, tx, gateVars, unknown, version, reg, revoked>>

----------------------------------------------------------------------------
(* runSession: a terminal is opened with the version of an admitted request or, by the
   first message of a browser, with that of a token, which has not been to the gate. *)
Open(s, r) ==
  /\ pc[s] = "idle" /\ (pc[r] = "admitted" \/ (pc[r] = "looked" /\ subject = "user"))
  /\ pc' = [pc EXCEPT ![s] = "opened", ![r] = "idle"]
  /\ version' = [version EXCEPT ![s] = key[r].version]
  /\ key' = [key EXCEPT ![r] = None]
  /\ UNCHANGED <<subject, row, tx, gateVars, unknown, reg, revoked>>

(* The three callbacks: Register, Admit to ready, InputPermit. *)
Register(s) ==
  /\ pc[s] = "registering" /\ holder = s
  /\ LeaveGate(s, IF version[s] = ver THEN "setup" ELSE "done")
  /\ reg' = [reg EXCEPT ![s] = IF version[s] = ver THEN "preparing" ELSE None]
  /\ UNCHANGED <<subject, row, tx, pending, unknown, key, version, revoked>>

Ready(s) ==
  /\ pc[s] = "readying" /\ holder = s
  /\ LET ok == version[s] = ver /\ reg[s] = "preparing"
     IN /\ LeaveGate(s, IF ok THEN "running" ELSE "closing")
        /\ reg' = [reg EXCEPT ![s] = IF ok THEN "ready" ELSE @]
  /\ UNCHANGED <<subject, row, tx, pending, unknown, key, version, revoked>>

Permit(s) ==
  /\ pc[s] = "permitting" /\ holder = s
  /\ LeaveGate(s, IF version[s] = ver /\ reg[s] = "ready" THEN "writing" ELSE "closing")
  /\ UNCHANGED <<subject, row, tx, pending, unknown, key, version, reg, revoked>>

(* The write itself, outside the gate; the end of the session for any reason, a
   cancelled context included; Done once its resources are reclaimed. *)
Write(s) ==
  /\ pc[s] = "writing" /\ Goto(s, "running")
  /\ UNCHANGED <<subject, row, tx, gateVars, unknown, key, version, reg, revoked>>
End(s) ==
  /\ pc[s] \in {"setup", "running", "writing"} /\ Goto(s, "closing")
  /\ UNCHANGED <<subject, row, tx, gateVars, unknown, key, version, reg, revoked>>
Done(s) ==
  /\ pc[s] = "closing" /\ Goto(s, "done")
  /\ reg' = [reg EXCEPT ![s] = None]
  /\ version' = [version EXCEPT ![s] = 0]
  /\ UNCHANGED <<subject, row, tx, gateVars, unknown, key, revoked>>

(* The Hub restarts.  A transaction it was committing may stay behind, and users
   keep their tokens. *)
Restart ==
  /\ tx' \in {tx} \cup {t \in Outcomes : tx = None /\ \E m \in Mutators : pc[m] = "mutating"}
  /\ holder' = None /\ ver' = 0 /\ initialized' = FALSE /\ pending' = FALSE
  /\ pc' = [a \in Actors |-> IF a \in Sessions /\ pc[a] # "idle" THEN "done" ELSE
                             IF pc[a] = "looked" /\ subject = "user" THEN "looked" ELSE "idle"]
  /\ key' = [r \in Requests |-> IF pc'[r] = "looked" THEN key[r] ELSE None]
  /\ unknown' = {}
  /\ version' = [s \in Sessions |-> 0] /\ reg' = [s \in Sessions |-> None]
  /\ revoked' = [m \in Mutators |-> {}]
  /\ UNCHANGED <<subject, row>>

MutatorStep(m) ==
  \/ Call(m) \/ EnterGate(m, "calling", "mutating") \/ Refused(m, "calling", "idle")
  \/ Commit(m) \/ CommitUnknown(m) \/ RollBack(m) \/ Revoke(m)
  \/ \E expired \in BOOLEAN : Await(m, expired)
RequestStep(r) ==
  \/ Lookup(r) \/ Check(r) \/ Finish(r)
  \/ EnterGate(r, "looked", "checking")
SessionStep(s) ==
  \/ \E r \in Requests : Open(s, r)
  \/ EnterGate(s, "opened", "registering") \/ Refused(s, "opened", "done")
  \/ EnterGate(s, "setup", "readying")     \/ Refused(s, "setup", "closing")
  \/ EnterGate(s, "running", "permitting") \/ Refused(s, "running", "closing")
  \/ Register(s) \/ Ready(s) \/ Permit(s) \/ Write(s) \/ End(s) \/ Done(s)
Next ==
  \/ Restart \/ Recover \/ \E commits \in BOOLEAN : Resolve(commits)
  \/ \E m \in Mutators : MutatorStep(m)
  \/ \E r \in Requests : RequestStep(r)
  \/ \E s \in Sessions : SessionStep(s)

Spec == Init /\ [][Next]_vars

(* Every wait of a change is bounded: withUser and the transaction by contexts with
   deadlines, Await by the budget. *)
Bounded(m) ==
  \/ EnterGate(m, "calling", "mutating") \/ Refused(m, "calling", "idle")
  \/ Commit(m) \/ CommitUnknown(m) \/ RollBack(m) \/ Revoke(m)
  \/ \E expired \in BOOLEAN : Await(m, expired)
FairSpec == Spec /\ \A m \in Mutators : WF_vars(Bounded(m))

----------------------------------------------------------------------------
TypeOK ==
  /\ subject \in {"user", "key"} /\ row \in Row /\ tx \in Row \cup {None}
  /\ holder \in Actors \cup {None} /\ ver \in 0..MaxVersion
  /\ initialized \in BOOLEAN /\ pending \in BOOLEAN
  /\ pc \in [Actors -> PCs]
  /\ unknown \subseteq Mutators /\ key \in [Requests -> Row \cup {None}]
  /\ version \in [Sessions -> 0..MaxVersion]
  /\ reg \in [Sessions -> {None, "preparing", "ready", "revoked"}]
  /\ revoked \in [Mutators -> SUBSET Sessions]
  /\ \A a \in Actors : pc[a] \in Inside <=> holder = a

(* As long as a transaction may still commit, nobody is admitted on an ordinary
   read: the fence is up, or the process has not read the row yet, or the change
   that left it behind still holds the gate.  Restarts do not lose the fence. *)
Fenced == TypeOK /\ (tx # None => MustLock \/ \E m \in Mutators : pc[m] = "revoking")

(* Whenever the gate is open to others, a terminal that is not revoked belongs to
   the committed version, and no unresolved transaction can take it away. *)
SessionsFollowRow ==
  \A s \in Sessions : reg[s] \in {"preparing", "ready"} =>
    \/ version[s] = row.version /\ tx = None
    \/ \E m \in Mutators : pc[m] = "revoking"

(* Input is permitted only to a terminal of the committed version: never after the
   password or the permissions it was opened under have changed.  A request is
   admitted with the row as it is now, under its present secret: not with
   permissions or a secret it read before the gate, or before a rotation. *)
UsedWhileCurrent ==
  [][/\ \A s \in Sessions : pc[s] = "permitting" /\ pc'[s] = "writing" =>
          version[s] = row.version
     /\ \A r \in Requests : pc[r] = "checking" /\ pc'[r] = "admitted" =>
          key'[r] = row /\ key[r].secret = row.secret /\ row.version > 0]_vars

(* A change returns, whatever the terminals it revokes do. *)
ChangeEnds == \A m \in Mutators : pc[m] = "calling" ~> pc[m] = "idle"
============================================================================
