-------------------------- MODULE AccessGateProofs --------------------------
(* Proofs about AccessGate for any number of calls, requests and sessions, any
   policies and any bound on the versions. *)
EXTENDS AccessGate, TLAPS

USE ActorsDistinct, MaxVersionPositive, NoneIsNoValue DEF Actors, gateVars

(* Whoever is inside the gate, and has not committed a change, has read the
   version of the committed row, and no transaction is left that could change it:
   the read was a locking one, or there was nothing to wait for. *)
HolderCurrent ==
  \A a \in Actors : holder = a /\ pc[a] # "revoking" => tx = None /\ ver = row.version

(* Every session in the registry has registered and is not done yet. *)
OnlyOpenRegistered ==
  \A s \in Sessions : pc[s] \in {"idle", "opened", "registering", "done"} => reg[s] = None

(* A request works with a row that it has read. *)
RequestsHaveRows ==
  \A r \in Requests : pc[r] \in {"looked", "checking", "admitted"} => key[r] # None

(* A version names one committed row: what a request has read is the row of today,
   or has a smaller version, or the row was deleted. *)
ReadRowsOlder ==
  \A r \in Requests : key[r] # None =>
    /\ key[r].version > 0
    /\ row.version = 0 \/ key[r].version < row.version \/ key[r] = row

(* An unresolved transaction deletes the row or gives it the next version. *)
NextVersion(new) == new.version = 0 \/ (row.version > 0 /\ new.version = row.version + 1)
UnresolvedNewer == tx # None => NextVersion(tx)

(* The change that left a transaction unresolved knows that it has no answer. *)
UnansweredKnown ==
  \A m \in Mutators : pc[m] = "revoking" /\ tx # None => m \in unknown

(* The inductive strengthening of Fenced and SessionsFollowRow *)
GateInv ==
  /\ Fenced /\ SessionsFollowRow
  /\ HolderCurrent /\ OnlyOpenRegistered /\ RequestsHaveRows
  /\ ReadRowsOlder /\ UnresolvedNewer /\ UnansweredKnown

(* Nobody but the callbacks Permit and Check takes an actor where it may write or
   is admitted. *)
LEMMA OnlyCallbacksAdmit ==
  ASSUME TypeOK, Next
  PROVE  /\ \A s \in Sessions : pc[s] = "permitting" /\ pc'[s] = "writing" => Permit(s)
         /\ \A r \in Requests : pc[r] = "checking" /\ pc'[r] = "admitted" => Check(r)
<1> USE DEF TypeOK, Goto, LeaveGate
<1>1. CASE Restart \/ Recover \/ \E commits \in BOOLEAN : Resolve(commits)
  BY Zenon, <1>1 DEF Restart, Recover, Resolve
<1>2. ASSUME NEW m \in Mutators, MutatorStep(m)
      PROVE  \A a \in Sessions \cup Requests : pc'[a] = pc[a]
  BY <1>2
  DEF MutatorStep, Call, EnterGate, Refused, Commit, CommitUnknown, RollBack, Revoke, Await
<1>3. ASSUME NEW r \in Requests, RequestStep(r)
      PROVE  /\ \A a \in Sessions \cup (Requests \ {r}) : pc'[a] = pc[a]
             /\ pc[r] = "checking" /\ pc'[r] = "admitted" => Check(r)
  BY <1>3 DEF RequestStep, Lookup, Check, Finish, EnterGate
<1>4. ASSUME NEW s \in Sessions, SessionStep(s)
      PROVE  /\ \A a \in Sessions \ {s} : pc'[a] = pc[a]
             /\ \A r \in Requests : pc'[r] \in {pc[r], "idle"}
             /\ pc[s] = "permitting" /\ pc'[s] = "writing" => Permit(s)
  BY <1>4
  DEF SessionStep, Open, EnterGate, Refused, Register, Ready, Permit, Write, End, Done
<1> QED BY <1>1, <1>2, <1>3, <1>4 DEF Next

(* What a change makes of the row: the row of a deleted subject, or the next
   version of it. *)
LEMMA OutcomesNext ==
  ASSUME TypeOK, NEW new \in Outcomes
  PROVE  new \in Row /\ NextVersion(new)
<1>1. new \in Row
  BY DEF Outcomes
<1>2. PICK k \in Kinds, p \in Policies, e \in 0..MaxVersion :
        Allowed(k, p, e) /\ new = Changed(k, p)
  BY DEF Outcomes
<1>3. row \in Row /\ k \in {"password", "permissions", "rotate", "delete"}
  BY DEF TypeOK, Kinds
<1>4. CASE k = "delete"
  <2>1. new = [row EXCEPT !.version = 0]
    BY Zenon, <1>2, <1>4 DEF Changed, Deleted
  <2> QED BY <1>1, <1>3, <2>1 DEF NextVersion, Row
<1>5. CASE k = "permissions"
  <2>1. row.version > 0 /\ new = [row EXCEPT !.version = row.version + 1, !.policy = p]
    BY Zenon, <1>2, <1>5 DEF Allowed, Changed
  <2> QED BY <1>1, <1>3, <2>1 DEF NextVersion, Row
<1>6. CASE k \in {"password", "rotate"}
  <2>1. row.version > 0 /\ new = [row EXCEPT !.version = row.version + 1, !.secret = GenerateKey]
    BY Zenon, <1>2, <1>6 DEF Allowed, Changed
  <2> QED BY <1>1, <1>3, <2>1 DEF NextVersion, Row
<1> QED BY <1>1, <1>3, <1>4, <1>5, <1>6

(* When the Hub starts nothing is under way and every session is of the stored row. *)
LEMMA GateInit == Init => GateInv
<1> SUFFICES ASSUME Init PROVE GateInv
  OBVIOUS
<1>1. row \in Row
  BY PoliciesExist DEF Init, Row
<1>2. "idle" \in PCs /\ "idle" \notin Inside /\ 0 \in 0..MaxVersion
  BY DEF PCs, Inside
<1>3. TypeOK
  BY Zenon, <1>1, <1>2 DEF Init, TypeOK
<1>4. \A a \in Actors : pc[a] = "idle" /\ holder # a
  BY DEF Init
<1>5. (\A s \in Sessions : reg[s] = None) /\ (\A r \in Requests : key[r] = None) /\ tx = None
  BY DEF Init
<1>6. Fenced
  BY <1>3, <1>5 DEF Fenced
<1>7. SessionsFollowRow
  BY <1>5 DEF SessionsFollowRow
<1> QED BY <1>4, <1>5, <1>6, <1>7
        DEF GateInv, HolderCurrent, OnlyOpenRegistered, RequestsHaveRows, ReadRowsOlder,
            UnresolvedNewer, UnansweredKnown

(* Every step of the Hub and the database preserves it: one case per action, and
   in each the conjuncts that the action can disturb. *)
LEMMA GateStep == GateInv /\ [Next]_vars => GateInv'
<1> SUFFICES ASSUME GateInv, [Next]_vars PROVE GateInv'
  OBVIOUS
<1> USE DEF GateInv
<1>0. TypeOK
  BY DEF Fenced
<1>1. ASSUME Restart PROVE GateInv'
  <2>1. TypeOK'
    <3>1. tx' \in Row \cup {None}
      BY <1>1, <1>0, OutcomesNext DEF TypeOK, Restart
    <3>2. /\ pc' \in [Actors -> PCs]
          /\ \A a \in Actors : pc'[a] \notin Inside
      BY <1>1 DEF Restart, PCs, Inside
    <3>3. key' \in [Requests -> Row \cup {None}]
      BY <1>1, <1>0 DEF TypeOK, Restart
    <3>4. 0 \in 0..MaxVersion
      OBVIOUS
    <3>5. \A a \in Actors : pc'[a] \in Inside <=> holder' = a
      BY Zenon, <1>1, <3>2 DEF Restart
    <3> QED BY Zenon, <1>1, <1>0, <3>1, <3>2, <3>3, <3>4, <3>5 DEF TypeOK, Restart
  <2>2. Fenced'
    BY <2>1, <1>1, <1>0 DEF TypeOK, Fenced, Restart, Inside, MustLock
  <2>3. UnresolvedNewer'
    BY <2>1, <1>1, <1>0, OutcomesNext
    DEF TypeOK, UnresolvedNewer, NextVersion, Restart, Inside
  <2>4. /\ SessionsFollowRow' /\ HolderCurrent' /\ OnlyOpenRegistered'
        /\ RequestsHaveRows' /\ ReadRowsOlder' /\ UnansweredKnown'
    BY <2>1, <1>1, <1>0
    DEF TypeOK, Restart, Inside, SessionsFollowRow, HolderCurrent, OnlyOpenRegistered,
        RequestsHaveRows, ReadRowsOlder, UnansweredKnown
  <2> QED BY <2>2, <2>3, <2>4
<1>2. ASSUME Recover PROVE GateInv'
  <2>1. TypeOK'
    BY Zenon, <1>2, <1>0 DEF TypeOK, Recover, Readable, MustLock, PCs, Inside
  <2>2. Fenced'
    BY <2>1, <1>2, <1>0 DEF TypeOK, Fenced, Recover, Readable, MustLock, Inside
  <2>3. /\ SessionsFollowRow' /\ HolderCurrent' /\ OnlyOpenRegistered'
        /\ RequestsHaveRows' /\ ReadRowsOlder' /\ UnresolvedNewer' /\ UnansweredKnown'
    BY <2>1, <1>2, <1>0
    DEF TypeOK, Recover, Readable, MustLock, Inside, SessionsFollowRow, HolderCurrent,
        OnlyOpenRegistered, RequestsHaveRows, ReadRowsOlder, UnresolvedNewer,
        UnansweredKnown, NextVersion
  <2> QED BY <2>2, <2>3
<1>3. ASSUME NEW commits \in BOOLEAN, Resolve(commits) PROVE GateInv'
  <2>1. TypeOK'
    BY <1>3, <1>0 DEF TypeOK, Resolve, PCs, Inside
  <2>2. SessionsFollowRow'
    BY <2>1, <1>3, <1>0 DEF TypeOK, SessionsFollowRow, Resolve, Inside, Fenced
  <2>3. HolderCurrent'
    BY <2>1, <1>3, <1>0 DEF TypeOK, HolderCurrent, Resolve, Inside
  <2>4. ReadRowsOlder'
    BY <2>1, <1>3, <1>0
    DEF TypeOK, ReadRowsOlder, Resolve, Inside, UnresolvedNewer, NextVersion, Row
  <2>5. /\ Fenced' /\ OnlyOpenRegistered'
        /\ RequestsHaveRows' /\ UnresolvedNewer' /\ UnansweredKnown'
    BY <2>1, <1>3, <1>0
    DEF TypeOK, Resolve, Inside, MustLock, Fenced, OnlyOpenRegistered,
        RequestsHaveRows, UnresolvedNewer, UnansweredKnown, NextVersion
  <2> QED BY <2>2, <2>3, <2>4, <2>5
<1>4. ASSUME NEW m \in Mutators, Call(m) PROVE GateInv'
  <2>1. TypeOK'
    BY <1>4, <1>0 DEF TypeOK, Call, Goto, PCs, Inside
  <2>2. /\ Fenced' /\ SessionsFollowRow' /\ HolderCurrent' /\ OnlyOpenRegistered'
        /\ RequestsHaveRows' /\ ReadRowsOlder' /\ UnresolvedNewer' /\ UnansweredKnown'
    BY <2>1, <1>4, <1>0
    DEF TypeOK, Call, Goto, Inside, MustLock, Fenced, SessionsFollowRow, HolderCurrent,
        OnlyOpenRegistered, RequestsHaveRows, ReadRowsOlder, UnresolvedNewer,
        UnansweredKnown, NextVersion
  <2> QED BY <2>2
<1>5. ASSUME NEW m \in Mutators, EnterGate(m, "calling", "mutating") PROVE GateInv'
  <2>1. TypeOK'
    BY Zenon, <1>5, <1>0 DEF TypeOK, EnterGate, Goto, Readable, MustLock, PCs, Inside, Row
  <2>2. Fenced'
    BY <2>1, <1>5, <1>0 DEF TypeOK, Fenced, EnterGate, Goto, Readable, MustLock, Inside
  <2>3. HolderCurrent'
    BY <2>1, <1>5, <1>0
    DEF TypeOK, HolderCurrent, EnterGate, Goto, Readable, MustLock, Inside, Fenced
  <2>4. /\ SessionsFollowRow' /\ OnlyOpenRegistered' /\ RequestsHaveRows'
        /\ ReadRowsOlder' /\ UnresolvedNewer' /\ UnansweredKnown'
    BY <2>1, <1>5, <1>0
    DEF TypeOK, EnterGate, Goto, Readable, MustLock, Inside, SessionsFollowRow,
        OnlyOpenRegistered, RequestsHaveRows, ReadRowsOlder, UnresolvedNewer,
        UnansweredKnown, NextVersion
  <2> QED BY <2>2, <2>3, <2>4
<1>6. ASSUME NEW m \in Mutators, Refused(m, "calling", "idle") PROVE GateInv'
  <2>1. TypeOK'
    BY <1>6, <1>0 DEF TypeOK, Refused, Goto, PCs, Inside
  <2>2. /\ Fenced' /\ SessionsFollowRow' /\ HolderCurrent' /\ OnlyOpenRegistered'
        /\ RequestsHaveRows' /\ ReadRowsOlder' /\ UnresolvedNewer' /\ UnansweredKnown'
    BY <2>1, <1>6, <1>0
    DEF TypeOK, Refused, Goto, Inside, MustLock, Fenced, SessionsFollowRow,
        HolderCurrent, OnlyOpenRegistered, RequestsHaveRows, ReadRowsOlder,
        UnresolvedNewer, UnansweredKnown, NextVersion
  <2> QED BY <2>2
<1>7. ASSUME NEW m \in Mutators, Commit(m) PROVE GateInv'
  <2>1. TypeOK'
    BY <1>7, <1>0, OutcomesNext DEF TypeOK, Commit, Goto, PCs, Inside
  <2>2. SessionsFollowRow'
    BY <2>1, <1>7, <1>0 DEF TypeOK, SessionsFollowRow, Commit, Goto, Inside
  <2>3. HolderCurrent'
    BY <2>1, <1>7, <1>0 DEF TypeOK, HolderCurrent, Commit, Goto, Inside
  <2>4. ReadRowsOlder'
    BY <2>1, <1>7, <1>0, OutcomesNext
    DEF TypeOK, ReadRowsOlder, Commit, Goto, Inside, NextVersion, Row
  <2>5. /\ Fenced' /\ OnlyOpenRegistered'
        /\ RequestsHaveRows' /\ UnresolvedNewer' /\ UnansweredKnown'
    BY <2>1, <1>7, <1>0
    DEF TypeOK, Commit, Goto, Inside, MustLock, Fenced, OnlyOpenRegistered,
        RequestsHaveRows, UnresolvedNewer, UnansweredKnown, NextVersion
  <2> QED BY <2>2, <2>3, <2>4, <2>5
<1>8. ASSUME NEW m \in Mutators, CommitUnknown(m) PROVE GateInv'
  <2>1. TypeOK'
    BY <1>8, <1>0, OutcomesNext DEF TypeOK, CommitUnknown, Goto, PCs, Inside
  <2>2. Fenced'
    BY <2>1, <1>8, <1>0 DEF TypeOK, Fenced, CommitUnknown, Goto, Inside, MustLock
  <2>3. SessionsFollowRow'
    BY <2>1, <1>8, <1>0 DEF TypeOK, SessionsFollowRow, CommitUnknown, Goto, Inside
  <2>4. HolderCurrent'
    BY <2>1, <1>8, <1>0 DEF TypeOK, HolderCurrent, CommitUnknown, Goto, Inside
  <2>5. UnresolvedNewer'
    BY <2>1, <1>8, <1>0, OutcomesNext
    DEF TypeOK, UnresolvedNewer, NextVersion, CommitUnknown, Goto, Inside
  <2>6. UnansweredKnown'
    BY <2>1, <1>8, <1>0 DEF TypeOK, UnansweredKnown, CommitUnknown, Goto, Inside
  <2>7. OnlyOpenRegistered' /\ RequestsHaveRows' /\ ReadRowsOlder'
    BY <2>1, <1>8, <1>0
    DEF TypeOK, CommitUnknown, Goto, Inside, OnlyOpenRegistered, RequestsHaveRows,
        ReadRowsOlder
  <2> QED BY <2>2, <2>3, <2>4, <2>5, <2>6, <2>7
<1>9. ASSUME NEW m \in Mutators, RollBack(m) PROVE GateInv'
  <2>1. TypeOK'
    BY <1>9, <1>0 DEF TypeOK, RollBack, LeaveGate, Goto, PCs, Inside
  <2>2. /\ Fenced' /\ SessionsFollowRow' /\ HolderCurrent' /\ OnlyOpenRegistered'
        /\ RequestsHaveRows' /\ ReadRowsOlder' /\ UnresolvedNewer' /\ UnansweredKnown'
    BY <2>1, <1>9, <1>0
    DEF TypeOK, RollBack, LeaveGate, Goto, Inside, MustLock, Fenced, SessionsFollowRow,
        HolderCurrent, OnlyOpenRegistered, RequestsHaveRows, ReadRowsOlder,
        UnresolvedNewer, UnansweredKnown, NextVersion
  <2> QED BY <2>2
<1>10. ASSUME NEW m \in Mutators, Revoke(m) PROVE GateInv'
  <2>1. TypeOK'
    BY <1>10, <1>0 DEF TypeOK, Revoke, Revokable, LeaveGate, Goto, PCs, Inside
  <2>2. Fenced'
    BY <2>1, <1>10, <1>0
    DEF TypeOK, Fenced, Revoke, Revokable, LeaveGate, Goto, Inside, MustLock,
        UnansweredKnown
  <2>3. SessionsFollowRow'
    BY <2>1, <1>10, <1>0
    DEF TypeOK, SessionsFollowRow, Revoke, Revokable, LeaveGate, Goto, Inside
  <2>4. UnansweredKnown'
    BY <2>1, <1>10, <1>0
    DEF TypeOK, UnansweredKnown, Revoke, Revokable, LeaveGate, Goto, Inside
  <2>5. /\ HolderCurrent' /\ OnlyOpenRegistered'
        /\ RequestsHaveRows' /\ ReadRowsOlder' /\ UnresolvedNewer'
    BY <2>1, <1>10, <1>0
    DEF TypeOK, Revoke, Revokable, LeaveGate, Goto, Inside, HolderCurrent,
        OnlyOpenRegistered, RequestsHaveRows, ReadRowsOlder, UnresolvedNewer,
        NextVersion
  <2> QED BY <2>2, <2>3, <2>4, <2>5
<1>11. ASSUME NEW m \in Mutators, NEW expired \in BOOLEAN, Await(m, expired)
      PROVE  GateInv'
  <2>1. TypeOK'
    BY <1>11, <1>0 DEF TypeOK, Await, Goto, PCs, Inside
  <2>2. /\ Fenced' /\ SessionsFollowRow' /\ HolderCurrent' /\ OnlyOpenRegistered'
        /\ RequestsHaveRows' /\ ReadRowsOlder' /\ UnresolvedNewer' /\ UnansweredKnown'
    BY SMTT(60), <2>1, <1>11, <1>0
    DEF TypeOK, Await, Goto, Inside, MustLock, Fenced, SessionsFollowRow,
        HolderCurrent, OnlyOpenRegistered, RequestsHaveRows, ReadRowsOlder,
        UnresolvedNewer, UnansweredKnown, NextVersion
  <2> QED BY <2>2
<1>12. ASSUME NEW r \in Requests, Lookup(r) PROVE GateInv'
  <2>1. TypeOK'
    BY <1>12, <1>0 DEF TypeOK, Lookup, Goto, PCs, Inside
  <2>2. RequestsHaveRows'
    BY <2>1, <1>12, <1>0 DEF TypeOK, RequestsHaveRows, Lookup, Goto, Inside
  <2>3. ReadRowsOlder'
    BY <2>1, <1>12, <1>0 DEF TypeOK, ReadRowsOlder, Lookup, Goto, Inside, Row
  <2>4. /\ Fenced' /\ SessionsFollowRow' /\ HolderCurrent'
        /\ OnlyOpenRegistered' /\ UnresolvedNewer' /\ UnansweredKnown'
    BY <2>1, <1>12, <1>0
    DEF TypeOK, Lookup, Goto, Inside, MustLock, Fenced, SessionsFollowRow,
        HolderCurrent, OnlyOpenRegistered, UnresolvedNewer, UnansweredKnown, NextVersion
  <2> QED BY <2>2, <2>3, <2>4
<1>13. ASSUME NEW r \in Requests, Check(r) PROVE GateInv'
  <2>1. TypeOK'
    BY <1>13, <1>0 DEF TypeOK, Check, LeaveGate, Goto, PCs, Inside
  <2>2. RequestsHaveRows'
    BY <2>1, <1>13, <1>0 DEF TypeOK, RequestsHaveRows, Check, LeaveGate, Goto, Inside
  <2>3. ReadRowsOlder'
    BY SMTT(60), <2>1, <1>13, <1>0
    DEF TypeOK, ReadRowsOlder, Check, LeaveGate, Goto, Inside, Accepts, HolderCurrent,
        RequestsHaveRows, Row
  <2>4. /\ Fenced' /\ SessionsFollowRow' /\ HolderCurrent'
        /\ OnlyOpenRegistered' /\ UnresolvedNewer' /\ UnansweredKnown'
    BY SMTT(60), <2>1, <1>13, <1>0
    DEF TypeOK, Check, LeaveGate, Goto, Inside, MustLock, Fenced, SessionsFollowRow,
        HolderCurrent, OnlyOpenRegistered, UnresolvedNewer, UnansweredKnown, NextVersion
  <2> QED BY <2>2, <2>3, <2>4
<1>14. ASSUME NEW r \in Requests, Finish(r) PROVE GateInv'
  <2>1. TypeOK'
    BY <1>14, <1>0 DEF TypeOK, Finish, Goto, PCs, Inside
  <2>2. /\ Fenced' /\ SessionsFollowRow' /\ HolderCurrent' /\ OnlyOpenRegistered'
        /\ RequestsHaveRows' /\ ReadRowsOlder' /\ UnresolvedNewer' /\ UnansweredKnown'
    BY SMTT(60), <2>1, <1>14, <1>0
    DEF TypeOK, Finish, Goto, Inside, MustLock, Fenced, SessionsFollowRow,
        HolderCurrent, OnlyOpenRegistered, RequestsHaveRows, ReadRowsOlder,
        UnresolvedNewer, UnansweredKnown, NextVersion
  <2> QED BY <2>2
<1>15. ASSUME NEW r \in Requests, EnterGate(r, "looked", "checking") PROVE GateInv'
  <2>1. TypeOK'
    BY Zenon, <1>15, <1>0 DEF TypeOK, EnterGate, Goto, Readable, MustLock, PCs, Inside, Row
  <2>2. Fenced'
    BY <2>1, <1>15, <1>0 DEF TypeOK, Fenced, EnterGate, Goto, Readable, MustLock, Inside
  <2>3. HolderCurrent'
    BY <2>1, <1>15, <1>0
    DEF TypeOK, HolderCurrent, EnterGate, Goto, Readable, MustLock, Inside, Fenced
  <2>4. /\ SessionsFollowRow' /\ OnlyOpenRegistered' /\ RequestsHaveRows'
        /\ ReadRowsOlder' /\ UnresolvedNewer' /\ UnansweredKnown'
    BY <2>1, <1>15, <1>0
    DEF TypeOK, EnterGate, Goto, Readable, MustLock, Inside, SessionsFollowRow,
        OnlyOpenRegistered, RequestsHaveRows, ReadRowsOlder, UnresolvedNewer,
        UnansweredKnown, NextVersion
  <2> QED BY <2>2, <2>3, <2>4
<1>16. ASSUME NEW s \in Sessions, NEW r \in Requests, Open(s, r) PROVE GateInv'
  <2>1. TypeOK'
    BY <1>16, <1>0 DEF TypeOK, Open, PCs, Inside, RequestsHaveRows, Row
  <2>2. SessionsFollowRow'
    BY <2>1, <1>16, <1>0 DEF TypeOK, SessionsFollowRow, Open, Inside, OnlyOpenRegistered
  <2>3. /\ Fenced' /\ HolderCurrent' /\ OnlyOpenRegistered'
        /\ RequestsHaveRows' /\ ReadRowsOlder' /\ UnresolvedNewer' /\ UnansweredKnown'
    BY SMTT(60), <2>1, <1>16, <1>0
    DEF TypeOK, Open, Inside, MustLock, Fenced, HolderCurrent, OnlyOpenRegistered,
        RequestsHaveRows, ReadRowsOlder, UnresolvedNewer, UnansweredKnown, NextVersion
  <2> QED BY <2>2, <2>3
<1>17. ASSUME NEW s \in Sessions,
             \/ EnterGate(s, "opened", "registering")
             \/ EnterGate(s, "setup", "readying")
             \/ EnterGate(s, "running", "permitting")
      PROVE  GateInv'
  <2>1. TypeOK'
    <3>1. PICK from \in PCs \ Inside, to \in Inside : EnterGate(s, from, to)
      BY <1>17 DEF PCs, Inside
    <3> QED BY Zenon, <3>1, <1>0 DEF TypeOK, EnterGate, Goto, PCs, Inside, Row
  <2>2. Fenced'
    BY <2>1, <1>17, <1>0 DEF TypeOK, Fenced, EnterGate, Goto, Readable, MustLock, Inside
  <2>3. HolderCurrent'
    BY SMTT(60), <2>1, <1>17, <1>0
    DEF TypeOK, HolderCurrent, EnterGate, Goto, Readable, MustLock, Inside, Fenced
  <2>4. /\ SessionsFollowRow' /\ OnlyOpenRegistered' /\ RequestsHaveRows'
        /\ ReadRowsOlder' /\ UnresolvedNewer' /\ UnansweredKnown'
    BY SMTT(60), <2>1, <1>17, <1>0
    DEF TypeOK, EnterGate, Goto, Readable, MustLock, Inside, SessionsFollowRow,
        OnlyOpenRegistered, RequestsHaveRows, ReadRowsOlder, UnresolvedNewer,
        UnansweredKnown, NextVersion
  <2> QED BY <2>2, <2>3, <2>4
<1>18. ASSUME NEW s \in Sessions,
             \/ Refused(s, "opened", "done")
             \/ Refused(s, "setup", "closing")
             \/ Refused(s, "running", "closing")
      PROVE  GateInv'
  <2>1. TypeOK'
    BY <1>18, <1>0 DEF TypeOK, Refused, Goto, PCs, Inside
  <2>2. Fenced' /\ SessionsFollowRow' /\ HolderCurrent' /\ OnlyOpenRegistered'
    BY <2>1, <1>18, <1>0
    DEF TypeOK, Refused, Goto, Inside, MustLock, Fenced, SessionsFollowRow, HolderCurrent,
        OnlyOpenRegistered, NextVersion
  <2>3. RequestsHaveRows' /\ ReadRowsOlder' /\ UnresolvedNewer' /\ UnansweredKnown'
    BY <2>1, <1>18, <1>0
    DEF TypeOK, Refused, Goto, Inside, RequestsHaveRows, ReadRowsOlder, UnresolvedNewer,
        UnansweredKnown, NextVersion
  <2> QED BY <2>2, <2>3
<1>19. ASSUME NEW s \in Sessions, Register(s) PROVE GateInv'
  <2>1. TypeOK'
    BY <1>19, <1>0 DEF TypeOK, Register, LeaveGate, Goto, PCs, Inside
  <2>2. SessionsFollowRow'
    BY <2>1, <1>19, <1>0
    DEF TypeOK, SessionsFollowRow, Register, LeaveGate, Goto, Inside, HolderCurrent
  <2>3. OnlyOpenRegistered'
    BY <2>1, <1>19, <1>0
    DEF TypeOK, OnlyOpenRegistered, Register, LeaveGate, Goto, Inside
  <2>4. /\ Fenced' /\ HolderCurrent' /\ RequestsHaveRows'
        /\ ReadRowsOlder' /\ UnresolvedNewer' /\ UnansweredKnown'
    BY Zenon, <2>1, <1>19, <1>0
    DEF TypeOK, Register, LeaveGate, Goto, Inside, MustLock, Fenced, HolderCurrent,
        RequestsHaveRows, ReadRowsOlder, UnresolvedNewer, UnansweredKnown, NextVersion
  <2> QED BY <2>2, <2>3, <2>4
<1>20. ASSUME NEW s \in Sessions, Ready(s) PROVE GateInv'
  <2>1. TypeOK'
    BY <1>20, <1>0 DEF TypeOK, Ready, LeaveGate, Goto, PCs, Inside
  <2>2. SessionsFollowRow'
    BY <2>1, <1>20, <1>0
    DEF TypeOK, SessionsFollowRow, Ready, LeaveGate, Goto, Inside, HolderCurrent
  <2>3. OnlyOpenRegistered'
    BY <2>1, <1>20, <1>0 DEF TypeOK, OnlyOpenRegistered, Ready, LeaveGate, Goto, Inside
  <2>4. /\ Fenced' /\ HolderCurrent' /\ RequestsHaveRows'
        /\ ReadRowsOlder' /\ UnresolvedNewer' /\ UnansweredKnown'
    BY Zenon, <2>1, <1>20, <1>0
    DEF TypeOK, Ready, LeaveGate, Goto, Inside, MustLock, Fenced, HolderCurrent,
        RequestsHaveRows, ReadRowsOlder, UnresolvedNewer, UnansweredKnown, NextVersion
  <2> QED BY <2>2, <2>3, <2>4
<1>21. ASSUME NEW s \in Sessions, Permit(s) PROVE GateInv'
  <2>1. TypeOK'
    BY <1>21, <1>0 DEF TypeOK, Permit, LeaveGate, Goto, PCs, Inside
  <2>2. OnlyOpenRegistered'
    BY <2>1, <1>21, <1>0 DEF TypeOK, OnlyOpenRegistered, Permit, LeaveGate, Goto, Inside
  <2>3. /\ Fenced' /\ SessionsFollowRow' /\ HolderCurrent'
        /\ RequestsHaveRows' /\ ReadRowsOlder' /\ UnresolvedNewer' /\ UnansweredKnown'
    BY Zenon, <2>1, <1>21, <1>0
    DEF TypeOK, Permit, LeaveGate, Goto, Inside, MustLock, Fenced, SessionsFollowRow,
        HolderCurrent, RequestsHaveRows, ReadRowsOlder, UnresolvedNewer,
        UnansweredKnown, NextVersion
  <2> QED BY <2>2, <2>3
<1>22. ASSUME NEW s \in Sessions, Write(s) \/ End(s) PROVE GateInv'
  <2>1. TypeOK'
    BY <1>22, <1>0 DEF TypeOK, Write, End, Goto, PCs, Inside
  <2>2. Fenced' /\ SessionsFollowRow' /\ HolderCurrent' /\ OnlyOpenRegistered'
    BY <2>1, <1>22, <1>0
    DEF TypeOK, Write, End, Goto, Inside, MustLock, Fenced, SessionsFollowRow, HolderCurrent,
        OnlyOpenRegistered, NextVersion
  <2>3. RequestsHaveRows' /\ ReadRowsOlder' /\ UnresolvedNewer' /\ UnansweredKnown'
    BY <2>1, <1>22, <1>0
    DEF TypeOK, Write, End, Goto, Inside, RequestsHaveRows, ReadRowsOlder, UnresolvedNewer,
        UnansweredKnown, NextVersion
  <2> QED BY <2>2, <2>3
<1>23. ASSUME NEW s \in Sessions, Done(s) PROVE GateInv'
  <2>1. TypeOK'
    BY <1>23, <1>0 DEF TypeOK, Done, Goto, PCs, Inside
  <2>2. SessionsFollowRow'
    BY <2>1, <1>23, <1>0 DEF TypeOK, SessionsFollowRow, Done, Goto, Inside
  <2>3. OnlyOpenRegistered'
    BY <2>1, <1>23, <1>0 DEF TypeOK, OnlyOpenRegistered, Done, Goto, Inside
  <2>4. /\ Fenced' /\ HolderCurrent' /\ RequestsHaveRows'
        /\ ReadRowsOlder' /\ UnresolvedNewer' /\ UnansweredKnown'
    BY Zenon, <2>1, <1>23, <1>0
    DEF TypeOK, Done, Goto, Inside, MustLock, Fenced, HolderCurrent, RequestsHaveRows,
        ReadRowsOlder, UnresolvedNewer, UnansweredKnown, NextVersion
  <2> QED BY <2>2, <2>3, <2>4
<1>24. CASE UNCHANGED vars
  BY Zenon, <1>24, <1>0
  DEF vars, TypeOK, MustLock, NextVersion, Fenced, SessionsFollowRow, HolderCurrent,
    OnlyOpenRegistered, RequestsHaveRows, ReadRowsOlder, UnresolvedNewer,
    UnansweredKnown
<1> QED BY Zenon, <1>1, <1>2, <1>3, <1>4, <1>5, <1>6, <1>7, <1>8, <1>9, <1>10, <1>11,
        <1>12, <1>13, <1>14, <1>15, <1>16, <1>17, <1>18, <1>19, <1>20, <1>21, <1>22, <1>23, <1>24
        DEF Next, MutatorStep, RequestStep, SessionStep

(* As long as a transaction may still commit, nobody passes the gate on an ordinary
   read: userState.pending is set before the gate opens, initialized is FALSE in a
   new process, or the change is still inside. *)
THEOREM FenceHolds == Spec => []Fenced
<1>1. GateInv => Fenced
  BY DEF GateInv
<1> QED BY GateInit, GateStep, <1>1, PTL DEF Spec

(* A terminal in the registry that MarkRevoked has not marked belongs to the
   version of the committed row, which no unresolved transaction can change, except
   while a change is on its way to MarkRevoked. *)
THEOREM SessionsKeepUp == Spec => []SessionsFollowRow
<1>1. GateInv => SessionsFollowRow
  BY DEF GateInv
<1> QED BY GateInit, GateStep, <1>1, PTL DEF Spec

(* InputPermit lets only terminals of the committed version write, and a request is
   admitted with the committed row under the secret it presented: the version that
   withUser read stays the committed one for as long as the gate is held. *)
THEOREM AdmittedWhileCurrent == Spec => UsedWhileCurrent
<1> DEFINE Used ==
      /\ \A s \in Sessions : pc[s] = "permitting" /\ pc'[s] = "writing" =>
            version[s] = row.version
      /\ \A r \in Requests : pc[r] = "checking" /\ pc'[r] = "admitted" =>
            key'[r] = row /\ key[r].secret = row.secret /\ row.version > 0
<1>1. GateInv /\ [Next]_vars => [Used]_vars
  <2> SUFFICES ASSUME GateInv, Next PROVE Used
    OBVIOUS
  <2>0. TypeOK
    BY DEF GateInv, Fenced
  <2>1. ASSUME NEW s \in Sessions, pc[s] = "permitting", pc'[s] = "writing"
        PROVE  version[s] = row.version
    <3>1. Permit(s)
      BY <2>0, <2>1, OnlyCallbacksAdmit
    <3> QED BY <3>1, <2>0, <2>1 DEF Permit, LeaveGate, Goto, GateInv, HolderCurrent, TypeOK
  <2>2. ASSUME NEW r \in Requests, pc[r] = "checking", pc'[r] = "admitted"
        PROVE  key'[r] = row /\ key[r].secret = row.secret /\ row.version > 0
    <3>1. Check(r)
      BY <2>0, <2>2, OnlyCallbacksAdmit
    <3>2. Accepts(r) /\ ver = row.version /\ key[r] # None /\ row \in Row
      BY <3>1, <2>0, <2>2 DEF Check, LeaveGate, Goto, GateInv, HolderCurrent, RequestsHaveRows,
                              TypeOK
    <3>3. ver # key[r].version \/ key[r] = row
      BY <3>2, <2>0 DEF GateInv, ReadRowsOlder, TypeOK, Row
    <3> QED BY Zenon, <3>1, <3>2, <3>3, <2>0
            DEF Check, Accepts, GateInv, ReadRowsOlder, TypeOK, Row
  <2> QED BY <2>1, <2>2
<1>2. UsedWhileCurrent <=> [][Used]_vars
  BY DEF UsedWhileCurrent
<1> QED BY GateInit, GateStep, <1>1, <1>2, PTL DEF Spec
=============================================================================
