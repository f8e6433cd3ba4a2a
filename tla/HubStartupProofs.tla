--------------------------- MODULE HubStartupProofs ---------------------------
(* Proofs about HubStartup for any number of Hubs, of starts and of changes. *)
EXTENDS HubStartup, TLAPS

Columns == {"api_keys", "binding", "scopes", "retired", "tokens"}
Choice == [scopes : {None, Baseline, Narrow}, owner : {0, 1}, secret : Nat, legacy : BOOLEAN]
Documents == UNION {[S -> {1}] : S \in SUBSET Settings}

(* The steps of a start after AutoMigrate, and those after MigrateSecrets *)
Upgraded == {"settings", "lock", "migrate", "fresh", "serving", "stopping"}
Migrated == {"fresh", "serving", "stopping"}

(* The rows have the columns of their table. *)
KeysTyped ==
  /\ schema \in SUBSET Columns /\ users \in {0, 1}
  /\ keys \in [Keys -> Row \cup {None}] /\ chosen \in [Keys -> Choice]
  /\ Rows # {} => "api_keys" \in schema

(* A key has the secret and the owner that were chosen, but for an owner that the
   backfill gave to a key that had none when the column was added; it has the chosen
   scopes as soon as there are scopes, and nothing was chosen before. *)
KeysAsChosen ==
  \A k \in Rows :
    /\ keys[k].secret = chosen[k].secret
    /\ IF "scopes" \in schema THEN keys[k].scopes = chosen[k].scopes ELSE chosen[k].scopes = Baseline
    /\ chosen[k].legacy => "binding" \in schema
    /\ keys[k].binding = 0 => chosen[k].legacy
    /\ \/ keys[k].owner = chosen[k].owner
       \/ chosen[k].legacy /\ chosen[k].owner = 0 /\ keys[k].owner = 1

(* A record is migrated, or an older Hub wrote it after this one had read it, or it is
   still to be read, or to be rewritten. *)
Handled(c, k, row) == k \in c.overwritten \/ Current(row)
Awaits(c, k) == k \notin c.done /\ (k \in DOMAIN c.rows => ~Current(c.rows[k]))

(* What a Hub has prepared stays prepared: the columns by the step it is at, and the
   records, those that it still has to rewrite excepted. *)
HubPrepared(h) ==
  LET c == hub[h]
  IN /\ c.prepared => {"scopes", "retired"} \subseteq schema
     /\ c.pc \in Upgraded \cup {"automigrate"} => "tokens" \in schema
     /\ c.pc \in Upgraded => {"api_keys", "binding", "scopes"} \subseteq schema
     /\ c.pc \in {"serving", "stopping"} => "retired" \in schema
     /\ DOMAIN c.rows \subseteq Rows /\ (c.done # {} => c.pc = "migrate")
     /\ c.pc = "migrate" => \A k \in Rows : Handled(c, k, keys[k]) \/ Awaits(c, k)
     /\ c.pc \in Migrated => \A k \in Rows : Handled(c, k, keys[k])

(* A Hub past NewSystemSettingsService has the settings of a committed revision. *)
HubSettings(h) ==
  LET c == hub[h]
  IN /\ c.revision \in 0 .. Len(saved)
     /\ c.pc \in Upgraded \ {"settings"} => c.revision > 0
     /\ c.revision > 0 =>
          /\ c.overrides = Sparse(saved[c.revision])
          /\ DOMAIN c.boot = Settings
          /\ c.runtime["live"] = MergeSettings(c.overrides)["live"]
          /\ c.runtime["restart"] = c.boot["restart"]

(* The revisions are the documents saved one after the other. *)
SavedInOrder ==
  /\ saved \in Seq(Documents \cup {Bad}) /\ Len(saved) > 0
  /\ settings = [revision |-> Len(saved), overrides |-> saved[Len(saved)]]
  /\ \A r \in 2 .. Len(saved) : saved[r] # Bad =>
       \E s \in Settings : \A o \in Settings \ {s} :
         MergeSettings(saved[r])[o] = MergeSettings(Sparse(saved[r - 1]))[o]

(* The record of a Hub has the fields of Down. *)
Shaped(c) == c = [f \in DOMAIN Down |-> c[f]]
HubsShaped == hub = [h \in Hubs |-> hub[h]] /\ \A h \in Hubs : Shaped(hub[h])

(* The inductive strengthening of ChoicesKept, ServesMigrated and SettingsCommitted *)
StartupInv ==
  /\ KeysTyped /\ KeysAsChosen /\ SavedInOrder /\ HubsShaped
  /\ \A h \in Hubs : HubPrepared(h) /\ HubSettings(h)

----------------------------------------------------------------------------
(* The records and columns that a step of a Hub leaves: nothing is taken away, and no
   record goes back to the old version. *)
Grown ==
  /\ schema \subseteq schema' /\ Rows \subseteq Rows'
  /\ \A k \in Rows : Current(keys[k]) => Current(keys'[k])
  /\ \A k \in Rows' \ Rows : Current(keys'[k])

(* The committed revisions are only ever added to. *)
SavedOn ==
  /\ Len(saved) \in Nat /\ Len(saved') \in Nat /\ Len(saved) <= Len(saved')
  /\ \A r \in 1 .. Len(saved) : saved'[r] = saved[r]

OthersRest(h) == \A x \in Hubs \ {h} : hub'[x] = hub[x]

(* What a Hub has prepared is not undone by another one. *)
LEMMA PreparedKept ==
  ASSUME NEW h \in Hubs, HubPrepared(h), Grown, hub'[h] = hub[h]
  PROVE  HubPrepared(h)'
BY Zenon DEF HubPrepared, Handled, Awaits, Grown, Upgraded, Migrated

(* Nor do the settings that a Hub runs on cease to be committed. *)
LEMMA SettingsKept ==
  ASSUME NEW h \in Hubs, HubSettings(h), SavedOn, hub'[h] = hub[h]
  PROVE  HubSettings(h)'
BY DEF HubSettings, SavedOn

(* The settings of a Hub are those of its revision after a step that leaves them. *)
LEMMA SettingsFollow ==
  ASSUME NEW h \in Hubs, HubSettings(h), SavedOn,
         hub'[h].pc \in Upgraded \ {"settings"} => hub[h].pc \in Upgraded \ {"settings"},
         hub'[h].revision = hub[h].revision, hub'[h].overrides = hub[h].overrides,
         hub'[h].boot = hub[h].boot, hub'[h].runtime = hub[h].runtime
  PROVE  HubSettings(h)'
BY DEF HubSettings, SavedOn

(* Publish leaves a Hub with the settings of the revision that it publishes. *)
LEMMA SettingsPublished ==
  ASSUME NEW h \in Hubs, NEW n \in 1 .. Len(saved'), Len(saved') \in Nat, NEW o,
         o = Sparse(saved'[n]), DOMAIN hub[h].boot = Settings,
         hub'[h].revision = n, hub'[h].overrides = o, hub'[h].boot = hub[h].boot,
         hub'[h].runtime = ApplyLive(MergeSettings(o), hub[h].boot)
  PROVE  HubSettings(h)'
<1>1. /\ hub'[h].runtime["live"] = MergeSettings(o)["live"]
      /\ hub'[h].runtime["restart"] = hub[h].boot["restart"]
  BY DEF ApplyLive, MergeSettings, Settings
<1> QED BY <1>1 DEF HubSettings

(* One record less to rewrite: it has been migrated, or needed not be. *)
LEMMA RowHandled ==
  ASSUME NEW h \in Hubs, HubPrepared(h), hub[h].pc = "migrate", hub'[h].pc = "migrate",
         hub'[h].prepared = hub[h].prepared, UNCHANGED schema, Rows' = Rows, NEW k \in Rows,
         DOMAIN hub'[h].rows = DOMAIN hub[h].rows \ {k},
         \A r \in DOMAIN hub'[h].rows : hub'[h].rows[r] = hub[h].rows[r],
         hub'[h].done = hub[h].done \cup {k}, hub'[h].overwritten = hub[h].overwritten,
         \A r \in Rows : Current(keys[r]) => Current(keys'[r]),
         k \in DOMAIN hub[h].rows, Current(keys'[k]) \/ Current(hub[h].rows[k])
  PROVE  HubPrepared(h)'
<1> DEFINE c == hub[h]
           d == hub'[h]
<1>1. ASSUME NEW r \in Rows PROVE Handled(d, r, keys'[r]) \/ Awaits(d, r)
  <2>1. Handled(c, r, keys[r]) \/ Awaits(c, r)
    BY Zenon DEF HubPrepared
  <2>2. CASE r = k
    BY Zenon, <2>1, <2>2 DEF Handled, Awaits
  <2>3. CASE r # k
    <3>1. r \notin c.done => r \notin d.done
      BY <2>3
    <3>2. r \in DOMAIN d.rows => r \in DOMAIN c.rows /\ d.rows[r] = c.rows[r]
      OBVIOUS
    <3> QED BY Zenon, <2>1, <3>1, <3>2 DEF Handled, Awaits
  <2> QED BY <2>2, <2>3
<1>2. DOMAIN d.rows \subseteq Rows
  BY DEF HubPrepared
<1> QED BY Zenon, <1>1, <1>2 DEF HubPrepared, Upgraded, Migrated

(* A step of one Hub keeps the invariant, if it does so for the database and itself. *)
LEMMA OneHub ==
  ASSUME StartupInv, NEW h \in Hubs, OthersRest(h), HubsShaped', Grown, SavedOn,
         KeysTyped', KeysAsChosen', SavedInOrder', HubPrepared(h)', HubSettings(h)'
  PROVE  StartupInv'
<1>1. ASSUME NEW x \in Hubs PROVE HubPrepared(x)' /\ HubSettings(x)'
  <2>1. CASE x = h
    BY <2>1
  <2>2. CASE x # h
    <3>1. hub'[x] = hub[x]
      BY <2>2 DEF OthersRest
    <3> QED BY <3>1, PreparedKept, SettingsKept DEF StartupInv
  <2> QED BY <2>1, <2>2
<1> QED BY <1>1 DEF StartupInv

(* A step that leaves the records alone *)
LEMMA KeysRest ==
  ASSUME KeysTyped, KeysAsChosen, UNCHANGED <<schema, keys, users, chosen>>
  PROVE  KeysTyped' /\ KeysAsChosen' /\ Grown
BY DEF KeysTyped, KeysAsChosen, Grown, Rows

(* The same for the revisions of the settings *)
LEMMA SavedRest ==
  ASSUME SavedInOrder, UNCHANGED <<settings, saved>>
  PROVE  SavedInOrder' /\ SavedOn
BY DEF SavedInOrder, SavedOn

(* One record is changed as its key's choice is. *)
LEMMA RowChanged ==
  ASSUME KeysTyped, KeysAsChosen, UNCHANGED <<schema, users>>,
         NEW k \in Rows, NEW d \in Row, NEW v \in Choice,
         keys' = [x \in Keys |-> IF x = k THEN d ELSE keys[x]],
         chosen' = [x \in Keys |-> IF x = k THEN v ELSE chosen[x]],
         d.secret = v.secret, v.owner = chosen[k].owner, v.legacy = chosen[k].legacy,
         d.owner = keys[k].owner, d.binding = keys[k].binding,
         \/ "scopes" \in schema /\ d.scopes = v.scopes
         \/ d.scopes = keys[k].scopes /\ v.scopes = chosen[k].scopes
  PROVE  /\ KeysTyped' /\ KeysAsChosen' /\ Rows' = Rows /\ keys'[k] = d
         /\ \A x \in Rows \ {k} : keys'[x] = keys[x]
<1> USE NoneIsNoValue
<1>1. KeysTyped' /\ Rows' = Rows
  BY DEF KeysTyped, Rows
<1>2. /\ keys'[k] = d /\ chosen'[k] = v
      /\ \A x \in Rows \ {k} : keys'[x] = keys[x] /\ chosen'[x] = chosen[x]
  BY Zenon DEF Rows
<1>3. KeysAsChosen'
  <2>1. ASSUME NEW x \in Rows, x # k
        PROVE  keys'[x] = keys[x] /\ chosen'[x] = chosen[x]
    BY Zenon, <1>2, <2>1
  <2> QED BY <1>1, <1>2, <2>1 DEF KeysAsChosen
<1> QED BY <1>1, <1>2, <1>3

(* Nothing but that record changes, and it does not go back to the old version. *)
LEMMA GrownAt ==
  ASSUME UNCHANGED schema, Rows' = Rows, NEW k \in Rows,
         Current(keys[k]) => Current(keys'[k]), \A x \in Rows \ {k} : keys'[x] = keys[x]
  PROVE  Grown
<1>1. \A x \in Rows : Current(keys[x]) => Current(keys'[x])
  BY Zenon
<1> QED BY Zenon, <1>1 DEF Grown

(* A record is added for a key as it was chosen. *)
LEMMA RowAdded ==
  ASSUME KeysTyped, KeysAsChosen, UNCHANGED <<schema, users>>, "api_keys" \in schema,
         keys[Later] = None, NEW d \in Row, NEW v \in Choice,
         keys' = [keys EXCEPT ![Later] = d], chosen' = [chosen EXCEPT ![Later] = v],
         d.secret = v.secret, d.owner = v.owner, d.binding # 0, ~v.legacy,
         IF "scopes" \in schema THEN d.scopes = v.scopes ELSE v.scopes = Baseline
  PROVE  /\ KeysTyped' /\ KeysAsChosen' /\ Rows' = Rows \cup {Later} /\ keys'[Later] = d
         /\ \A x \in Rows : keys'[x] = keys[x]
<1>1. d # None
  BY NoneIsNoValue
<1>2. /\ keys' \in [Keys -> Row \cup {None}] /\ chosen' \in [Keys -> Choice]
      /\ keys'[Later] = d /\ chosen'[Later] = v
      /\ \A x \in Keys \ {Later} : keys'[x] = keys[x] /\ chosen'[x] = chosen[x]
  BY Zenon DEF KeysTyped, Keys
<1>3. Rows' = Rows \cup {Later} /\ \A x \in Rows : x \in Keys \ {Later}
  BY <1>1, <1>2 DEF Rows, Keys
<1>4. KeysTyped'
  BY <1>2 DEF KeysTyped
<1>5. KeysAsChosen'
  BY <1>2, <1>3 DEF KeysAsChosen
<1> QED BY <1>2, <1>3, <1>4, <1>5

(* An older Hub writes one record: the Hubs that have read it do not answer for it. *)
LEMMA OlderWrites ==
  ASSUME StartupInv, NEW k \in Keys, Overwrites(k), UNCHANGED schema, Rows \subseteq Rows',
         \A x \in Rows' \ {k} : x \in Rows /\ keys'[x] = keys[x],
         KeysTyped', KeysAsChosen', SavedInOrder', SavedOn
  PROVE  StartupInv'
<1>1. ASSUME NEW h \in Hubs
      PROVE  /\ Shaped(hub'[h]) /\ hub'[h].pc = hub[h].pc /\ hub'[h].prepared = hub[h].prepared
             /\ hub'[h].rows = hub[h].rows /\ hub'[h].done = hub[h].done
             /\ hub'[h].overwritten = hub[h].overwritten \cup (IF HasRead(h, k) THEN {k} ELSE {})
             /\ hub'[h].revision = hub[h].revision /\ hub'[h].overrides = hub[h].overrides
             /\ hub'[h].boot = hub[h].boot /\ hub'[h].runtime = hub[h].runtime
  <2> DEFINE c == hub[h]
             d == hub'[h]
             o == c.overwritten \cup {k}
  <2>1. Shaped(c) /\ IF HasRead(h, k) THEN d = [c EXCEPT !.overwritten = o] ELSE d = c
    BY DEF Overwrites, StartupInv, HubsShaped
  <2>2. CASE HasRead(h, k)
    <3>1. d = [c EXCEPT !.overwritten = o] /\ Shaped(c)
      BY <2>1, <2>2
    <3> HIDE DEF c, d, o
    <3>2. /\ Shaped(d) /\ d.pc = c.pc /\ d.prepared = c.prepared
          /\ d.rows = c.rows /\ d.done = c.done /\ d.overwritten = o
          /\ d.revision = c.revision /\ d.overrides = c.overrides
          /\ d.boot = c.boot /\ d.runtime = c.runtime
      BY <3>1 DEF Shaped, Down
    <3> QED BY <2>2, <3>2 DEF c, d, o
  <2>3. CASE ~HasRead(h, k)
    BY <2>1, <2>3
  <2> QED BY <2>2, <2>3
<1>2. HubsShaped'
  BY <1>1 DEF HubsShaped, Overwrites
<1>3. ASSUME NEW h \in Hubs PROVE HubPrepared(h)'
  <2> DEFINE c == hub[h]
             d == hub'[h]
  <2>1. /\ d.pc = c.pc /\ d.prepared = c.prepared /\ d.rows = c.rows /\ d.done = c.done
        /\ c.overwritten \subseteq d.overwritten /\ (HasRead(h, k) => k \in d.overwritten)
    BY <1>1
  <2>2. HubPrepared(h)
    BY DEF StartupInv
  <2>3. ASSUME NEW x \in Rows', x # k
        PROVE  /\ Handled(c, x, keys[x]) => Handled(d, x, keys'[x])
               /\ Awaits(c, x) => Awaits(d, x)
    BY <2>1, <2>3 DEF Handled, Awaits
  <2>4. c.pc \in Migrated => Handled(d, k, keys'[k])
    BY <2>1 DEF Handled, HasRead, Migrated
  <2>5. c.pc = "migrate" => Handled(d, k, keys'[k]) \/ Awaits(d, k)
    BY <2>1 DEF Handled, Awaits, HasRead
  <2>6. /\ c.pc = "migrate" => \A x \in Rows' : Handled(d, x, keys'[x]) \/ Awaits(d, x)
        /\ c.pc \in Migrated => \A x \in Rows' : Handled(d, x, keys'[x])
    BY Zenon, <2>2, <2>3, <2>4, <2>5 DEF HubPrepared
  <2>7. DOMAIN d.rows \subseteq Rows'
    BY <2>1, <2>2 DEF HubPrepared
  <2> QED BY Zenon, <2>1, <2>2, <2>6, <2>7 DEF HubPrepared
<1>4. ASSUME NEW h \in Hubs PROVE HubSettings(h)'
  BY <1>1, SettingsFollow DEF StartupInv
<1> QED BY <1>2, <1>3, <1>4 DEF StartupInv

(* The fields of a Hub that goes to its next step *)
LEMMA Moved ==
  ASSUME HubsShaped, NEW h \in Hubs, NEW pc, Goto(h, pc)
  PROVE  /\ HubsShaped' /\ OthersRest(h)
         /\ hub'[h].pc = pc /\ hub'[h].prepared = hub[h].prepared /\ hub'[h].rows = hub[h].rows
         /\ hub'[h].done = hub[h].done /\ hub'[h].overwritten = hub[h].overwritten
         /\ hub'[h].revision = hub[h].revision /\ hub'[h].overrides = hub[h].overrides
         /\ hub'[h].boot = hub[h].boot /\ hub'[h].runtime = hub[h].runtime
BY DEF HubsShaped, Shaped, Down, Goto, OthersRest

(* Its settings are not affected. *)
LEMMA MovedSettings ==
  ASSUME HubsShaped, NEW h \in Hubs, NEW pc, Goto(h, pc), HubSettings(h), SavedOn,
         pc \in Upgraded \ {"settings"} => hub[h].pc \in Upgraded \ {"settings"}
  PROVE  HubSettings(h)'
BY Moved DEF HubSettings, SavedOn

(* The empty document of overrides *)
LEMMA Emptiness == <<>> \in Documents
<1>1. <<>> \in [{} -> {1}]
  OBVIOUS
<1>2. [{} -> {1}] \in {[S -> {1}] : S \in SUBSET Settings}
  OBVIOUS
<1> QED BY Zenon, <1>1, <1>2 DEF Documents

(* An update writes a document that differs in the updated setting alone. *)
LEMMA Overridden ==
  ASSUME NEW old \in Documents, NEW s \in Settings, NEW value \in {1, None}
  PROVE  LET D == IF value = None THEN DOMAIN old \ {s} ELSE DOMAIN old \cup {s}
             next == [k \in D |-> IF k = s THEN value ELSE old[k]]
         IN /\ next \in Documents
            /\ \A o \in Settings \ {s} : MergeSettings(next)[o] = MergeSettings(old)[o]
<1> DEFINE D == IF value = None THEN DOMAIN old \ {s} ELSE DOMAIN old \cup {s}
           next == [k \in D |-> IF k = s THEN value ELSE old[k]]
<1>1. PICK S \in SUBSET Settings : old \in [S -> {1}]
  BY DEF Documents
<1>2. D \in SUBSET Settings
  BY <1>1
<1>3. next \in [D -> {1}]
  BY <1>1
<1>4. \A o \in Settings \ {s} : MergeSettings(next)[o] = MergeSettings(old)[o]
  BY <1>1 DEF MergeSettings
<1> HIDE DEF D
<1>5. [D -> {1}] \in {[T -> {1}] : T \in SUBSET Settings}
  BY <1>2
<1>6. next \in Documents
  BY Zenon, <1>3, <1>5 DEF Documents
<1> QED BY <1>4, <1>6 DEF D

(* The row of the settings is the last revision, and every revision is a document. *)
LEMMA SavedFacts ==
  ASSUME SavedInOrder
  PROVE  /\ settings.revision = Len(saved) /\ settings.overrides = saved[Len(saved)]
         /\ Len(saved) \in Nat /\ Len(saved) > 0
         /\ \A r \in 1 .. Len(saved) : saved[r] \in Documents \cup {Bad}
<1>1. /\ saved \in Seq(Documents \cup {Bad}) /\ Len(saved) > 0
      /\ settings = [revision |-> Len(saved), overrides |-> saved[Len(saved)]]
  BY DEF SavedInOrder
<1> QED BY <1>1

(* What a Hub writes is a document that parses. *)
LEMMA DocumentsParse == Bad \notin Documents
BY BadIsNoDocument DEF Documents

(* The fields of a Hub that has prepared the permissions *)
LEMMA PreparedMoved ==
  ASSUME HubsShaped, NEW h \in Hubs, NEW p, hub' = [hub EXCEPT ![h].prepared = p, ![h].pc = "tokens"]
  PROVE  /\ HubsShaped' /\ OthersRest(h)
         /\ hub'[h].pc = "tokens" /\ hub'[h].prepared = p /\ hub'[h].rows = hub[h].rows
         /\ hub'[h].done = hub[h].done /\ hub'[h].overwritten = hub[h].overwritten
         /\ hub'[h].revision = hub[h].revision /\ hub'[h].overrides = hub[h].overrides
         /\ hub'[h].boot = hub[h].boot /\ hub'[h].runtime = hub[h].runtime
<1>1. HubsShaped' /\ OthersRest(h)
  BY DEF HubsShaped, Shaped, Down, OthersRest
<1> DEFINE c == hub[h]
           d == hub'[h]
<1>2. d = [c EXCEPT !.prepared = p, !.pc = "tokens"] /\ Shaped(c)
  BY DEF HubsShaped
<1> HIDE DEF c, d
<1>3. /\ d.pc = "tokens" /\ d.prepared = p /\ d.rows = c.rows /\ d.done = c.done /\ d.overwritten = c.overwritten
      /\ d.revision = c.revision /\ d.overrides = c.overrides
      /\ d.boot = c.boot /\ d.runtime = c.runtime
  BY <1>2 DEF Shaped, Down
<1> QED BY <1>1, <1>3 DEF c, d

(* The fields of a Hub that has published other settings *)
LEMMA Published ==
  ASSUME HubsShaped, NEW h \in Hubs, NEW rev, NEW o, Publish(h, rev, o)
  PROVE  /\ HubsShaped' /\ OthersRest(h)
         /\ hub'[h].pc = hub[h].pc /\ hub'[h].prepared = hub[h].prepared /\ hub'[h].rows = hub[h].rows
         /\ hub'[h].done = hub[h].done /\ hub'[h].overwritten = hub[h].overwritten
         /\ hub'[h].revision = rev /\ hub'[h].overrides = o /\ hub'[h].boot = hub[h].boot
         /\ hub'[h].runtime = ApplyLive(MergeSettings(o), hub[h].boot)
<1> DEFINE rt == ApplyLive(MergeSettings(o), hub[h].boot)
<1>0. hub' = [hub EXCEPT ![h].revision = rev, ![h].overrides = o, ![h].runtime = rt]
  BY DEF Publish
<1> HIDE DEF rt
<1>1. HubsShaped' /\ OthersRest(h)
  BY <1>0 DEF HubsShaped, Shaped, Down, OthersRest
<1>2. /\ hub'[h] = [hub[h] EXCEPT !.revision = rev, !.overrides = o, !.runtime = rt]
      /\ Shaped(hub[h])
  BY <1>0 DEF HubsShaped
<1>3. /\ hub'[h].pc = hub[h].pc /\ hub'[h].prepared = hub[h].prepared /\ hub'[h].rows = hub[h].rows
      /\ hub'[h].done = hub[h].done /\ hub'[h].overwritten = hub[h].overwritten
      /\ hub'[h].revision = rev /\ hub'[h].overrides = o /\ hub'[h].boot = hub[h].boot
      /\ hub'[h].runtime = rt
  BY <1>2 DEF Shaped, Down
<1> QED BY <1>1, <1>3 DEF rt

(* A Hub that publishes a committed revision keeps the invariant. *)
LEMMA PublishKeeps ==
  ASSUME StartupInv, KeysTyped', KeysAsChosen', Grown, SavedInOrder', SavedOn,
         UNCHANGED <<schema, keys>>, NEW h \in Hubs, NEW n \in 1 .. Len(saved'), NEW o,
         o = Sparse(saved'[n]), DOMAIN hub[h].boot = Settings, Publish(h, n, o)
  PROVE  StartupInv'
<1>1. /\ HubsShaped' /\ OthersRest(h)
      /\ hub'[h].pc = hub[h].pc /\ hub'[h].prepared = hub[h].prepared /\ hub'[h].rows = hub[h].rows
      /\ hub'[h].done = hub[h].done /\ hub'[h].overwritten = hub[h].overwritten
      /\ hub'[h].revision = n /\ hub'[h].overrides = o /\ hub'[h].boot = hub[h].boot
      /\ hub'[h].runtime = ApplyLive(MergeSettings(o), hub[h].boot)
  BY Published DEF StartupInv
<1>2. HubPrepared(h)'
  BY Zenon, <1>1 DEF StartupInv, HubPrepared, Handled, Awaits, Rows
<1>3. HubSettings(h)'
  BY <1>1, SettingsPublished DEF SavedOn
<1> QED BY <1>1, <1>2, <1>3, OneHub

(* The fields of a Hub that works on its copy of the records *)
LEMMA RowsMoved ==
  ASSUME HubsShaped, NEW h \in Hubs, NEW rows, NEW pc,
         hub' = [hub EXCEPT ![h].rows = rows, ![h].pc = pc]
  PROVE  /\ HubsShaped' /\ OthersRest(h)
         /\ hub'[h].pc = pc /\ hub'[h].prepared = hub[h].prepared /\ hub'[h].rows = rows
         /\ hub'[h].done = hub[h].done /\ hub'[h].overwritten = hub[h].overwritten
         /\ hub'[h].revision = hub[h].revision /\ hub'[h].overrides = hub[h].overrides
         /\ hub'[h].boot = hub[h].boot /\ hub'[h].runtime = hub[h].runtime
<1>1. HubsShaped' /\ OthersRest(h)
  BY DEF HubsShaped, Shaped, Down, OthersRest
<1> DEFINE c == hub[h]
           d == hub'[h]
<1>2. d = [c EXCEPT !.rows = rows, !.pc = pc] /\ Shaped(c)
  BY DEF HubsShaped
<1> HIDE DEF c, d
<1>3. /\ d.pc = pc /\ d.prepared = c.prepared /\ d.rows = rows /\ d.done = c.done /\ d.overwritten = c.overwritten
      /\ d.revision = c.revision /\ d.overrides = c.overrides
      /\ d.boot = c.boot /\ d.runtime = c.runtime
  BY <1>2 DEF Shaped, Down
<1> QED BY <1>1, <1>3 DEF c, d

(* The fields of a Hub that has dealt with one of the records *)
LEMMA RowTaken ==
  ASSUME HubsShaped, NEW h \in Hubs, NEW rows, NEW done,
         hub' = [hub EXCEPT ![h].rows = rows, ![h].done = done]
  PROVE  /\ HubsShaped' /\ OthersRest(h)
         /\ hub'[h].pc = hub[h].pc /\ hub'[h].prepared = hub[h].prepared /\ hub'[h].rows = rows
         /\ hub'[h].done = done /\ hub'[h].overwritten = hub[h].overwritten
         /\ hub'[h].revision = hub[h].revision /\ hub'[h].overrides = hub[h].overrides
         /\ hub'[h].boot = hub[h].boot /\ hub'[h].runtime = hub[h].runtime
<1>1. HubsShaped' /\ OthersRest(h)
  BY DEF HubsShaped, Shaped, Down, OthersRest
<1> DEFINE c == hub[h]
           d == hub'[h]
<1>2. d = [c EXCEPT !.rows = rows, !.done = done] /\ Shaped(c)
  BY DEF HubsShaped
<1> HIDE DEF c, d
<1>3. /\ d.pc = c.pc /\ d.prepared = c.prepared /\ d.rows = rows
      /\ d.done = done /\ d.overwritten = c.overwritten
      /\ d.revision = c.revision /\ d.overrides = c.overrides
      /\ d.boot = c.boot /\ d.runtime = c.runtime
  BY <1>2 DEF Shaped, Down
<1> QED BY <1>1, <1>3 DEF c, d

(* The fields of a Hub that has dealt with all of them *)
LEMMA AllDone ==
  ASSUME HubsShaped, NEW h \in Hubs, NEW pc,
         hub' = [hub EXCEPT ![h].done = {}, ![h].pc = pc]
  PROVE  /\ HubsShaped' /\ OthersRest(h)
         /\ hub'[h].pc = pc /\ hub'[h].prepared = hub[h].prepared /\ hub'[h].rows = hub[h].rows
         /\ hub'[h].done = {} /\ hub'[h].overwritten = hub[h].overwritten
         /\ hub'[h].revision = hub[h].revision /\ hub'[h].overrides = hub[h].overrides
         /\ hub'[h].boot = hub[h].boot /\ hub'[h].runtime = hub[h].runtime
<1>1. HubsShaped' /\ OthersRest(h)
  BY Zenon DEF HubsShaped, Shaped, Down, OthersRest
<1> DEFINE c == hub[h]
           d == hub'[h]
<1>2. d = [c EXCEPT !.done = {}, !.pc = pc] /\ Shaped(c)
  BY DEF HubsShaped
<1> HIDE DEF c, d
<1>3. /\ d.pc = pc /\ d.prepared = c.prepared /\ d.rows = c.rows
      /\ d.done = {} /\ d.overwritten = c.overwritten
      /\ d.revision = c.revision /\ d.overrides = c.overrides
      /\ d.boot = c.boot /\ d.runtime = c.runtime
  BY <1>2 DEF Shaped, Down
<1> QED BY Zenon, <1>1, <1>3 DEF c, d

(* The fields of a Hub whose setup flag changes *)
LEMMA SetupMoved ==
  ASSUME HubsShaped, NEW h \in Hubs, NEW setup, hub' = [hub EXCEPT ![h].setup = setup]
  PROVE  /\ HubsShaped' /\ OthersRest(h)
         /\ hub'[h].pc = hub[h].pc /\ hub'[h].prepared = hub[h].prepared /\ hub'[h].rows = hub[h].rows
         /\ hub'[h].done = hub[h].done /\ hub'[h].overwritten = hub[h].overwritten
         /\ hub'[h].revision = hub[h].revision /\ hub'[h].overrides = hub[h].overrides
         /\ hub'[h].boot = hub[h].boot /\ hub'[h].runtime = hub[h].runtime
<1>1. HubsShaped' /\ OthersRest(h)
  BY DEF HubsShaped, Shaped, Down, OthersRest
<1>2. hub'[h] = [hub[h] EXCEPT !.setup = setup] /\ Shaped(hub[h])
  BY DEF HubsShaped
<1> QED BY <1>1, <1>2 DEF Shaped, Down

(* A process that ended has prepared nothing and runs on no settings. *)
LEMMA DownHolds ==
  ASSUME NEW h \in Hubs, hub'[h] = Down, Len(saved') \in Nat
  PROVE  HubPrepared(h)' /\ HubSettings(h)'
<1> DEFINE d == hub'[h]
<1>1. /\ d.pc = "down" /\ d.prepared = FALSE /\ d.rows = <<>> /\ d.done = {} /\ d.revision = 0
      /\ DOMAIN d.rows = {}
  BY DEF Down
<1>2. d.pc \notin Upgraded \cup {"automigrate"} /\ d.pc \notin Migrated /\ d.pc # "migrate"
  BY <1>1 DEF Upgraded, Migrated
<1> HIDE DEF d
<1>3. HubPrepared(h)'
  BY Zenon, <1>1, <1>2 DEF HubPrepared, Upgraded, d
<1>4. 0 \in 0 .. Len(saved') /\ ~(0 > 0)
  OBVIOUS
<1>5. HubSettings(h)'
  BY Zenon, <1>1, <1>2, <1>4 DEF HubSettings, d
<1> QED BY <1>3, <1>5

(* A step on the database alone *)
LEMMA NoHub ==
  ASSUME StartupInv, UNCHANGED hub, Grown, SavedOn, KeysTyped', KeysAsChosen', SavedInOrder'
  PROVE  StartupInv'
<1>1. ASSUME NEW x \in Hubs PROVE HubPrepared(x)' /\ HubSettings(x)'
  BY PreparedKept, SettingsKept DEF StartupInv
<1>2. HubsShaped'
  BY DEF StartupInv, HubsShaped
<1> QED BY <1>1, <1>2 DEF StartupInv

(* A database of an older version, or an empty one, and no Hub *)
LEMMA StartupInit == Init => StartupInv
<1> SUFFICES ASSUME Init PROVE StartupInv
  OBVIOUS
<1> USE KeysDiffer, NoneIsNoValue DEF Init
<1>1. KeysTyped /\ KeysAsChosen
  <2> DEFINE unknown == [scopes |-> Baseline, owner |-> 0, secret |-> 0, legacy |-> FALSE]
  <2>0. unknown \in Choice /\ users \in {0, 1}
    BY DEF Choice
  <2>1. PICK columns \in {{}, {"api_keys"}, {"api_keys", "scopes"}}, cipher \in {None, 1},
             scopes \in {None, Narrow}, owner \in 0 .. users :
          LET row == [scopes |-> IF "scopes" \in columns THEN scopes ELSE None, owner |-> owner,
                      binding |-> None, version |-> 1, cipher |-> cipher, secret |-> 0]
              choice == [scopes |-> IF "scopes" \in columns THEN scopes ELSE Baseline,
                         owner |-> owner, secret |-> 0, legacy |-> FALSE]
          IN /\ schema = columns
             /\ IF "api_keys" \in columns
                  THEN /\ keys = [k \in Keys |-> IF k = Legacy THEN row ELSE None]
                       /\ chosen = [k \in Keys |-> IF k = Legacy THEN choice ELSE unknown]
                  ELSE keys = [k \in Keys |-> None] /\ chosen = [k \in Keys |-> unknown]
    BY Zenon
  <2> DEFINE s == IF "scopes" \in columns THEN scopes ELSE None
             t == IF "scopes" \in columns THEN scopes ELSE Baseline
             row == [scopes |-> s, owner |-> owner,
                     binding |-> None, version |-> 1, cipher |-> cipher, secret |-> 0]
             choice == [scopes |-> t, owner |-> owner, secret |-> 0, legacy |-> FALSE]
  <2>2. /\ row \in Row /\ choice \in Choice /\ row.secret = choice.secret /\ row.owner = choice.owner
        /\ ~choice.legacy /\ row.binding = None
        /\ IF "scopes" \in columns THEN row.scopes = choice.scopes ELSE choice.scopes = Baseline
    BY <2>0, <2>1 DEF Row, Choice
  <2>3. /\ schema = columns
        /\ IF "api_keys" \in columns
             THEN /\ keys = [k \in Keys |-> IF k = Legacy THEN row ELSE None]
                  /\ chosen = [k \in Keys |-> IF k = Legacy THEN choice ELSE unknown]
             ELSE keys = [k \in Keys |-> None] /\ chosen = [k \in Keys |-> unknown]
    BY Zenon, <2>1
  <2> HIDE DEF unknown, row, choice
  <2>4. row # None /\ schema \in SUBSET Columns
    BY <2>1, <2>2, <2>3 DEF Columns
  <2>5. CASE "api_keys" \in columns
    <3>1. Rows = {Legacy} /\ keys[Legacy] = row /\ chosen[Legacy] = choice
      BY <2>3, <2>4, <2>5 DEF Rows, Keys
    <3>2. KeysTyped
      BY <2>0, <2>2, <2>3, <2>4, <2>5 DEF KeysTyped
    <3>3. KeysAsChosen
      BY <2>2, <2>3, <3>1 DEF KeysAsChosen
    <3> QED BY <3>2, <3>3
  <2>6. CASE "api_keys" \notin columns
    <3>1. Rows = {}
      BY <2>3, <2>6 DEF Rows
    <3> QED BY <2>0, <2>3, <2>4, <2>6, <3>1 DEF KeysTyped, KeysAsChosen
  <2> QED BY <2>5, <2>6
<1>3. SavedInOrder
  <2>1. saved = <<<<>>>> /\ settings = [revision |-> 1, overrides |-> <<>>] /\ <<>> \in Documents
    BY Emptiness
  <2>2. saved \in Seq(Documents \cup {Bad}) /\ Len(saved) = 1 /\ saved[1] = <<>>
    BY <2>1
  <2> QED BY <2>1, <2>2 DEF SavedInOrder
<1>4. HubsShaped
  BY DEF HubsShaped, Shaped, Down
<1>5. ASSUME NEW h \in Hubs PROVE HubPrepared(h) /\ HubSettings(h)
  BY <1>3 DEF HubPrepared, HubSettings, Down, Upgraded, Migrated, SavedInOrder
<1> QED BY <1>1, <1>3, <1>4, <1>5 DEF StartupInv

(* The scopes and other columns are added: the rows get the baseline or keep what they
   have. *)
LEMMA ScopesAdded ==
  ASSUME KeysTyped, KeysAsChosen, UNCHANGED <<users, chosen>>, schema \subseteq schema',
         schema' \in SUBSET Columns, {"api_keys", "scopes"} \subseteq schema',
         keys' = [k \in Keys |-> keys'[k]], \A k \in Keys \ Rows : keys'[k] = None,
         \A k \in Rows :
           /\ keys'[k] \in Row
           /\ keys'[k].secret = keys[k].secret /\ keys'[k].owner = keys[k].owner
           /\ keys'[k].version = keys[k].version /\ keys'[k].cipher = keys[k].cipher
           /\ keys'[k].scopes = IF "scopes" \in schema THEN keys[k].scopes ELSE Baseline
           /\ keys'[k].binding \in {keys[k].binding, 1}
  PROVE  KeysTyped' /\ KeysAsChosen' /\ Grown
<1>1. \A k \in Rows : keys'[k] # None
  BY NoneIsNoValue
<1>2. Rows' = Rows
  BY Zenon, <1>1 DEF Rows
<1>3. KeysTyped'
  <2>1. keys' \in [Keys -> Row \cup {None}]
    BY Zenon DEF Rows
  <2> QED BY <2>1 DEF KeysTyped
<1>4. KeysAsChosen'
  BY <1>2 DEF KeysAsChosen
<1>5. Grown
  BY Zenon, <1>2 DEF Grown, Current
<1> QED BY <1>3, <1>4, <1>5

(* A step that only moves one Hub on *)
LEMMA OnlyMoved ==
  ASSUME StartupInv, NEW h \in Hubs, NEW pc, Goto(h, pc),
         UNCHANGED <<schema, keys, users, chosen, settings, saved>>,
         pc \in Upgraded \ {"settings"} => hub[h].pc \in Upgraded \ {"settings"},
         pc = "automigrate" => "tokens" \in schema, pc \notin {"settings", "migrate"},
         hub[h].pc # "migrate", pc \in Migrated => hub[h].pc \in Migrated,
         pc \in {"serving", "stopping"} => "retired" \in schema
  PROVE  StartupInv'
<1>1. KeysTyped' /\ KeysAsChosen' /\ Grown /\ SavedInOrder' /\ SavedOn
  BY KeysRest, SavedRest DEF StartupInv
<1>2. HubsShaped' /\ OthersRest(h) /\ HubSettings(h)'
  BY <1>1, Moved, MovedSettings DEF StartupInv
<1>3. HubPrepared(h)'
  <2>1. /\ hub'[h].pc = pc /\ hub'[h].prepared = hub[h].prepared
        /\ hub'[h].rows = hub[h].rows /\ hub'[h].done = hub[h].done
        /\ hub'[h].overwritten = hub[h].overwritten
    BY Zenon, Moved DEF StartupInv
  <2>2. Rows' = Rows /\ keys' = keys /\ schema' = schema /\ HubPrepared(h)
    BY DEF Rows, StartupInv
  <2> QED BY <2>1, <2>2 DEF HubPrepared, Handled, Upgraded, Migrated
<1> QED BY <1>1, <1>2, <1>3, OneHub

(* Every step of every Hub keeps the invariant. *)
LEMMA StartupStep == StartupInv /\ [Next]_vars => StartupInv'
<1> SUFFICES ASSUME StartupInv, [Next]_vars PROVE StartupInv'
  OBVIOUS
<1> USE KeysDiffer, NoneIsNoValue
<1>0. KeysTyped /\ KeysAsChosen /\ SavedInOrder /\ HubsShaped
  BY DEF StartupInv
<1>1. ASSUME NEW h \in Hubs, Start(h) PROVE StartupInv'
  BY <1>1, OnlyMoved DEF Start, Upgraded, Migrated
<1>2. ASSUME NEW h \in Hubs, Exit(h) PROVE StartupInv'
  <2>1. KeysTyped' /\ KeysAsChosen' /\ Grown /\ SavedInOrder' /\ SavedOn
    BY <1>0, <1>2, KeysRest, SavedRest DEF Exit
  <2>2. HubsShaped' /\ OthersRest(h) /\ hub'[h] = Down
    BY Zenon, <1>0, <1>2 DEF Exit, HubsShaped, Shaped, Down, OthersRest
  <2>3. HubPrepared(h)' /\ HubSettings(h)'
    BY Zenon, <2>1, <2>2, DownHolds DEF SavedOn
  <2> QED BY <2>1, <2>2, <2>3, OneHub
<1>3. ASSUME NEW h \in Hubs, Shutdown(h) PROVE StartupInv'
  <2>1. /\ hub[h].pc = "serving" /\ Goto(h, "stopping")
        /\ UNCHANGED <<schema, keys, users, chosen, settings, saved>>
    BY Zenon, <1>3 DEF Shutdown
  <2>2. "retired" \in schema
    BY Zenon, <2>1 DEF StartupInv, HubPrepared
  <2> QED BY <2>1, <2>2, OnlyMoved DEF Upgraded, Migrated
<1>4. ASSUME NEW h \in Hubs, PrepareLegacyOwnerBinding(h) PROVE StartupInv'
  <2>1. ASSUME "api_keys" \in schema, "binding" \notin schema PROVE KeysTyped' /\ KeysAsChosen' /\ Grown
    <3>0. /\ schema' = schema \cup {"binding"} /\ UNCHANGED users
          /\ keys' = [k \in Keys |-> IF k \notin Rows THEN None
                        ELSE [keys[k] EXCEPT !.binding = IF keys[k].owner = 0 THEN 0 ELSE 1]]
          /\ chosen' = [k \in Keys |-> IF k \notin Rows THEN chosen[k]
                          ELSE [chosen[k] EXCEPT !.legacy = keys[k].owner = 0]]
      BY Zenon, <1>4, <2>1 DEF PrepareLegacyOwnerBinding
    <3>1. ASSUME NEW k \in Rows
          PROVE  /\ keys[k] \in Row /\ keys'[k] \in Row /\ chosen[k] \in Choice /\ chosen'[k] \in Choice
                 /\ keys'[k].secret = keys[k].secret /\ keys'[k].owner = keys[k].owner
                 /\ keys'[k].version = keys[k].version /\ keys'[k].cipher = keys[k].cipher
                 /\ keys'[k].scopes = keys[k].scopes
                 /\ keys'[k].binding = IF keys[k].owner = 0 THEN 0 ELSE 1
                 /\ chosen'[k].secret = chosen[k].secret /\ chosen'[k].owner = chosen[k].owner
                 /\ chosen'[k].scopes = chosen[k].scopes
                 /\ chosen'[k].legacy <=> keys[k].owner = 0
      <4> DEFINE c == keys[k]
                 d == keys'[k]
                 w == chosen[k]
                 v == chosen'[k]
                 n == IF c.owner = 0 THEN 0 ELSE 1
                 l == c.owner = 0
      <4>1. c \in Row /\ w \in Choice /\ n \in {None, 0, 1} /\ l \in BOOLEAN
        BY <1>0 DEF KeysTyped, Rows
      <4>2. d = [c EXCEPT !.binding = n] /\ v = [w EXCEPT !.legacy = l]
        BY Zenon, <3>0 DEF Rows
      <4> HIDE DEF c, d, w, v, n, l
      <4>3. /\ d \in Row /\ d.secret = c.secret /\ d.owner = c.owner /\ d.version = c.version
            /\ d.cipher = c.cipher /\ d.scopes = c.scopes /\ d.binding = n
        BY Zenon, <4>1, <4>2 DEF Row
      <4>4. v \in Choice /\ v.secret = w.secret /\ v.owner = w.owner /\ v.scopes = w.scopes /\ v.legacy = l
        BY Zenon, <4>1, <4>2 DEF Choice
      <4> QED BY Zenon, <4>1, <4>3, <4>4 DEF c, d, w, v, n, l
    <3>2. \A k \in Keys \ Rows : keys'[k] = None /\ chosen'[k] = chosen[k]
      BY Zenon, <3>0
    <3>3. \A k \in Rows : keys'[k] # None
      BY <3>1
    <3>4. Rows' = Rows
      BY Zenon, <3>2, <3>3 DEF Rows
    <3>5. KeysTyped'
      <4>1. keys' \in [Keys -> Row \cup {None}] /\ chosen' \in [Keys -> Choice]
        BY Zenon, <1>0, <3>0, <3>1, <3>2 DEF KeysTyped
      <4> QED BY <1>0, <3>0, <3>4, <4>1 DEF KeysTyped, Columns
    <3>6. KeysAsChosen'
      <4>1. ASSUME NEW k \in Rows
            PROVE  /\ keys[k].secret = chosen[k].secret /\ keys[k].owner = chosen[k].owner
                   /\ IF "scopes" \in schema THEN keys[k].scopes = chosen[k].scopes
                                              ELSE chosen[k].scopes = Baseline
        BY Zenon, <1>0, <2>1 DEF KeysAsChosen
      <4>2. "binding" \in schema' /\ ("scopes" \in schema' <=> "scopes" \in schema)
        BY <3>0
      <4>3. ASSUME NEW k \in Rows
            PROVE  /\ keys'[k].secret = chosen'[k].secret
                   /\ IF "scopes" \in schema' THEN keys'[k].scopes = chosen'[k].scopes
                                               ELSE chosen'[k].scopes = Baseline
                   /\ keys'[k].binding = 0 => chosen'[k].legacy
                   /\ keys'[k].owner = chosen'[k].owner
        <5>1. keys'[k].binding = 0 => keys[k].owner = 0
          BY <3>1
        <5>2. /\ keys'[k].secret = chosen'[k].secret /\ keys'[k].owner = chosen'[k].owner
              /\ keys'[k].scopes = keys[k].scopes /\ chosen'[k].scopes = chosen[k].scopes
          BY Zenon, <3>1, <4>1
        <5>3. chosen'[k].legacy <=> keys[k].owner = 0
          BY Zenon, <3>1
        <5> QED BY Zenon, <4>1, <4>2, <5>1, <5>2, <5>3
      <4> QED BY Zenon, <3>4, <4>2, <4>3 DEF KeysAsChosen
    <3>7. Grown
      BY Zenon, <3>0, <3>1, <3>4 DEF Grown, Current
    <3> QED BY <3>5, <3>6, <3>7
  <2>2. ASSUME "api_keys" \notin schema \/ "binding" \in schema PROVE KeysTyped' /\ KeysAsChosen' /\ Grown
    BY <1>0, <1>4, <2>2, KeysRest DEF PrepareLegacyOwnerBinding
  <2>3. SavedInOrder' /\ SavedOn
    BY <1>0, <1>4, SavedRest DEF PrepareLegacyOwnerBinding
  <2>4. HubsShaped' /\ OthersRest(h) /\ HubSettings(h)'
    BY <1>0, <1>4, <2>3, Moved, MovedSettings DEF PrepareLegacyOwnerBinding, StartupInv, Upgraded
  <2>5. HubPrepared(h)'
    BY <1>0, <1>4, <2>1, <2>2, Moved
    DEF PrepareLegacyOwnerBinding, StartupInv, HubPrepared, Upgraded, Migrated, Grown
  <2> QED BY <2>1, <2>2, <2>3, <2>4, <2>5, OneHub
<1>5. ASSUME NEW h \in Hubs, PrepareAPIKeyPermissionsSchema(h) PROVE StartupInv'
  <2>1. ASSUME "api_keys" \in schema, "scopes" \notin schema PROVE KeysTyped' /\ KeysAsChosen' /\ Grown
    <3>1. /\ schema' = schema \cup {"scopes", "retired"} /\ UNCHANGED <<users, chosen>>
          /\ keys' = [k \in Keys |-> IF k \in Rows THEN [keys[k] EXCEPT !.scopes = Baseline] ELSE None]
      BY Zenon, <1>5, <2>1 DEF PrepareAPIKeyPermissionsSchema, PreparedKeys
    <3>2. ASSUME NEW k \in Rows
          PROVE  /\ keys'[k] \in Row
                 /\ keys'[k].secret = keys[k].secret /\ keys'[k].owner = keys[k].owner
                 /\ keys'[k].version = keys[k].version /\ keys'[k].cipher = keys[k].cipher
                 /\ keys'[k].scopes = Baseline /\ keys'[k].binding = keys[k].binding
      <4> DEFINE c == keys[k]
                 d == keys'[k]
      <4>1. c \in Row /\ d = [c EXCEPT !.scopes = Baseline]
        BY Zenon, <1>0, <3>1 DEF KeysTyped, Rows
      <4> HIDE DEF c, d
      <4>2. /\ d \in Row /\ d.secret = c.secret /\ d.owner = c.owner /\ d.version = c.version
            /\ d.cipher = c.cipher /\ d.scopes = Baseline /\ d.binding = c.binding
        BY Zenon, <4>1 DEF Row
      <4> QED BY <4>2 DEF c, d
    <3>3. keys' = [k \in Keys |-> keys'[k]] /\ \A k \in Keys \ Rows : keys'[k] = None
      BY Zenon, <3>1
    <3>4. /\ schema \subseteq schema' /\ schema' \in SUBSET Columns
          /\ {"api_keys", "scopes"} \subseteq schema'
      BY <1>0, <2>1, <3>1 DEF KeysTyped, Columns
    <3> QED BY <1>0, <2>1, <3>1, <3>2, <3>3, <3>4, ScopesAdded
  <2>2. ASSUME "api_keys" \notin schema \/ "scopes" \in schema PROVE KeysTyped' /\ KeysAsChosen' /\ Grown
    <3>1. /\ UNCHANGED <<keys, users, chosen>>
          /\ schema' = schema \/ ("api_keys" \in schema /\ schema' = schema \cup {"scopes", "retired"})
      BY <1>5, <2>2 DEF PrepareAPIKeyPermissionsSchema, PreparedKeys
    <3>2. Rows' = Rows /\ schema \subseteq schema' /\ schema' \in SUBSET Columns
      BY Zenon, <1>0, <3>1 DEF KeysTyped, Columns, Rows
    <3>3. ("api_keys" \in schema' <=> "api_keys" \in schema) /\ ("scopes" \in schema' <=> "scopes" \in schema)
      BY <2>2, <3>1
    <3> QED BY <1>0, <3>1, <3>2, <3>3 DEF KeysTyped, KeysAsChosen, Grown
  <2>3. SavedInOrder' /\ SavedOn
    BY <1>0, <1>5, SavedRest DEF PrepareAPIKeyPermissionsSchema
  <2> DEFINE found == "api_keys" \in schema
  <2>4. PICK p : p = found /\ hub' = [hub EXCEPT ![h].prepared = p, ![h].pc = "tokens"]
    BY Zenon, <1>5 DEF PrepareAPIKeyPermissionsSchema
  <2>5. hub' = [hub EXCEPT ![h].prepared = p, ![h].pc = "tokens"]
    BY Zenon, <2>4
  <2>6. /\ HubsShaped' /\ OthersRest(h) /\ hub'[h].pc = "tokens" /\ hub'[h].rows = hub[h].rows
        /\ hub'[h].done = hub[h].done /\ hub'[h].overwritten = hub[h].overwritten
        /\ hub'[h].revision = hub[h].revision /\ hub'[h].overrides = hub[h].overrides
        /\ hub'[h].boot = hub[h].boot /\ hub'[h].runtime = hub[h].runtime
    BY Zenon, <1>0, <2>5, PreparedMoved
  <2>7. hub'[h].prepared = p
    BY Zenon, <1>0, <2>5, PreparedMoved
  <2>8. hub'[h].prepared => "api_keys" \in schema
    BY Zenon, <2>4, <2>7
  <2>9. HubPrepared(h)'
    BY Zenon, <1>5, <2>1, <2>2, <2>6, <2>8
    DEF PrepareAPIKeyPermissionsSchema, StartupInv, HubPrepared, Upgraded, Migrated, Grown
  <2>10. HubSettings(h)'
    BY <2>3, <2>6 DEF StartupInv, HubSettings, SavedOn, Upgraded
  <2> QED BY <2>1, <2>2, <2>3, <2>6, <2>9, <2>10, OneHub
<1>6. ASSUME NEW h \in Hubs, PrepareUserTokenVersionSchema(h) PROVE StartupInv'
  <2>1. KeysTyped' /\ KeysAsChosen' /\ Grown
    BY <1>0, <1>6
    DEF PrepareUserTokenVersionSchema, ApplyOnce, KeysTyped, KeysAsChosen, Grown, Columns, Rows
  <2>2. SavedInOrder' /\ SavedOn
    BY <1>0, <1>6, SavedRest DEF PrepareUserTokenVersionSchema
  <2>3. HubsShaped' /\ OthersRest(h) /\ HubSettings(h)'
    BY <1>0, <1>6, <2>2, Moved, MovedSettings DEF PrepareUserTokenVersionSchema, StartupInv, Upgraded
  <2>4. HubPrepared(h)'
    <3>1. hub[h].pc = "tokens" /\ Goto(h, "automigrate") /\ schema' = schema \cup {"tokens"}
      BY Zenon, <1>6 DEF PrepareUserTokenVersionSchema, ApplyOnce
    <3>2. /\ hub'[h].pc = "automigrate" /\ hub'[h].prepared = hub[h].prepared
          /\ hub'[h].rows = hub[h].rows /\ hub'[h].done = hub[h].done
      BY Zenon, <1>0, <3>1, Moved
    <3> QED BY Zenon, <2>1, <3>1, <3>2 DEF StartupInv, HubPrepared, Upgraded, Migrated, Grown
  <2> QED BY <2>1, <2>2, <2>3, <2>4, OneHub
<1>7. ASSUME NEW h \in Hubs, AutoMigrate(h) PROVE StartupInv'
  <2>0. /\ schema' = schema \cup {"api_keys", "binding", "scopes"} /\ UNCHANGED <<users, chosen>>
        /\ \A k \in Keys \ Rows : keys'[k] = None
        /\ \A k \in Rows :
             keys'[k] = [keys[k] EXCEPT !.scopes = IF "scopes" \in schema THEN @ ELSE Baseline,
                                        !.binding = IF "binding" \in schema THEN @ ELSE 1]
    BY Zenon, <1>7 DEF AutoMigrate, Rows
  <2>1. ASSUME NEW k \in Rows
        PROVE  /\ keys'[k] \in Row
               /\ keys'[k].secret = keys[k].secret /\ keys'[k].owner = keys[k].owner
               /\ keys'[k].version = keys[k].version /\ keys'[k].cipher = keys[k].cipher
               /\ keys'[k].scopes = IF "scopes" \in schema THEN keys[k].scopes ELSE Baseline
               /\ keys'[k].binding \in {keys[k].binding, 1}
    <3> DEFINE c == keys[k]
               d == keys'[k]
               s == IF "scopes" \in schema THEN c.scopes ELSE Baseline
               b == IF "binding" \in schema THEN c.binding ELSE 1
    <3>1. c \in Row
      BY <1>0 DEF KeysTyped, Rows
    <3>2. s \in {None, Baseline, Narrow} /\ b \in {None, 0, 1} /\ b \in {c.binding, 1}
      BY <3>1 DEF Row
    <3>3. d = [c EXCEPT !.scopes = s, !.binding = b]
      BY Zenon, <2>0
    <3> HIDE DEF c, d, s, b
    <3>4. /\ d \in Row /\ d.secret = c.secret /\ d.owner = c.owner /\ d.version = c.version
          /\ d.cipher = c.cipher /\ d.scopes = s /\ d.binding = b
      BY Zenon, <3>1, <3>2, <3>3 DEF Row
    <3> QED BY <3>2, <3>4 DEF c, d, s
  <2>2. keys' = [k \in Keys |-> keys'[k]]
    BY Zenon, <1>7 DEF AutoMigrate
  <2>3. /\ schema \subseteq schema' /\ schema' \in SUBSET Columns
        /\ {"api_keys", "scopes"} \subseteq schema'
    BY Zenon, <1>0, <2>0 DEF KeysTyped, Columns
  <2>4. KeysTyped' /\ KeysAsChosen' /\ Grown
    BY Zenon, <1>0, <2>0, <2>1, <2>2, <2>3, ScopesAdded
  <2>5. SavedInOrder' /\ SavedOn
    BY Zenon, <1>0, <1>7, SavedRest DEF AutoMigrate
  <2>6. HubsShaped' /\ OthersRest(h) /\ HubSettings(h)'
    BY Zenon, <1>0, <1>7, <2>5, Moved, MovedSettings DEF AutoMigrate, StartupInv, Upgraded
  <2>7. HubPrepared(h)'
    <3>1. hub[h].pc = "automigrate" /\ Goto(h, "settings")
      BY Zenon, <1>7 DEF AutoMigrate
    <3>2. hub'[h].pc = "settings" /\ hub'[h].prepared = hub[h].prepared /\ hub'[h].rows = hub[h].rows
                                  /\ hub'[h].done = hub[h].done /\ hub'[h].overwritten = hub[h].overwritten
      BY <1>0, <3>1, Moved
    <3> QED BY Zenon, <2>0, <2>4, <3>1, <3>2 DEF StartupInv, HubPrepared, Upgraded, Migrated, Grown
  <2> QED BY <2>4, <2>5, <2>6, <2>7, OneHub
<1>8. ASSUME NEW h \in Hubs, NewSystemSettingsService(h) PROVE StartupInv'
  <2> DEFINE o == Sparse(settings.overrides)
             m == MergeSettings(o)
  <2>1. KeysTyped' /\ KeysAsChosen' /\ Grown /\ SavedInOrder' /\ SavedOn
    BY <1>0, <1>8, KeysRest, SavedRest DEF NewSystemSettingsService
  <2>2. hub' = [hub EXCEPT ![h].revision = settings.revision, ![h].overrides = o,
                           ![h].boot = m, ![h].runtime = m, ![h].pc = "lock"]
    BY <1>8 DEF NewSystemSettingsService
  <2>3. settings.revision = Len(saved) /\ Len(saved) \in Nat /\ Len(saved) > 0
    BY <1>0, SavedFacts
  <2>4. o = Sparse(saved'[Len(saved)])
    BY <1>0, <2>1, <2>3, SavedFacts DEF SavedOn
  <2>5. DOMAIN m = Settings
    BY DEF MergeSettings
  <2> HIDE DEF o
  <2>6. m = MergeSettings(o)
    OBVIOUS
  <2> HIDE DEF m
  <2>7. /\ HubsShaped' /\ OthersRest(h)
        /\ hub'[h].pc = "lock" /\ hub'[h].prepared = hub[h].prepared /\ hub'[h].rows = hub[h].rows
        /\ hub'[h].done = hub[h].done /\ hub'[h].overwritten = hub[h].overwritten
        /\ hub'[h].revision = settings.revision /\ hub'[h].overrides = o
        /\ hub'[h].boot = m /\ hub'[h].runtime = m
    <3> DEFINE c == hub[h]
               d == hub'[h]
               rev == settings.revision
    <3>1. HubsShaped' /\ OthersRest(h)
      BY Zenon, <1>0, <2>2 DEF HubsShaped, Shaped, Down, OthersRest
    <3>2. /\ d = [c EXCEPT !.revision = rev, !.overrides = o, !.boot = m, !.runtime = m, !.pc = "lock"]
          /\ Shaped(c)
      BY <1>0, <2>2 DEF HubsShaped
    <3> HIDE DEF c, d, rev
    <3>3. /\ d.pc = "lock" /\ d.prepared = c.prepared /\ d.rows = c.rows
          /\ d.done = c.done /\ d.overwritten = c.overwritten
          /\ d.revision = rev /\ d.overrides = o /\ d.boot = m /\ d.runtime = m
      BY <3>2 DEF Shaped, Down
    <3> QED BY <3>1, <3>3 DEF c, d, rev
  <2>8. HubPrepared(h)'
    BY Zenon, <1>8, <2>1, <2>7
    DEF NewSystemSettingsService, StartupInv, HubPrepared, Upgraded, Migrated, Grown
  <2>9. HubSettings(h)'
    BY <2>1, <2>3, <2>4, <2>5, <2>6, <2>7 DEF HubSettings, SavedOn
  <2> QED BY <2>1, <2>7, <2>8, <2>9, OneHub
<1>9. ASSUME NEW h \in Hubs, ReadSecrets(h) PROVE StartupInv'
  <2> DEFINE batch == Rows \ hub[h].done
             rows == [k \in batch |-> Secrets(k)]
  <2>1. KeysTyped' /\ KeysAsChosen' /\ Grown /\ SavedInOrder' /\ SavedOn
    BY <1>0, <1>9, KeysRest, SavedRest DEF ReadSecrets
  <2>2. hub' = [hub EXCEPT ![h].rows = rows, ![h].pc = "migrate"]
    BY <1>9 DEF ReadSecrets
  <2>3. /\ DOMAIN rows = Rows \ hub[h].done
        /\ \A k \in DOMAIN rows : Current(rows[k]) <=> Current(keys[k])
    BY DEF Secrets, Current
  <2> HIDE DEF rows
  <2>4. /\ HubsShaped' /\ OthersRest(h)
        /\ hub'[h].pc = "migrate" /\ hub'[h].prepared = hub[h].prepared /\ hub'[h].rows = rows
        /\ hub'[h].done = hub[h].done /\ hub'[h].overwritten = hub[h].overwritten
        /\ hub'[h].revision = hub[h].revision /\ hub'[h].overrides = hub[h].overrides
        /\ hub'[h].boot = hub[h].boot /\ hub'[h].runtime = hub[h].runtime
    BY Zenon, <1>0, <2>2, RowsMoved
  <2>5. hub[h].pc \in {"lock", "migrate"} /\ UNCHANGED <<schema, keys>> /\ Rows' = Rows
    BY <1>9 DEF ReadSecrets, Rows
  <2>6. HubPrepared(h)'
    <3>1. ASSUME NEW k \in Rows PROVE Handled(hub'[h], k, keys'[k]) \/ Awaits(hub'[h], k)
      <4>1. CASE k \in hub[h].done
        <5>1. Handled(hub[h], k, keys[k])
          BY <2>5, <4>1 DEF StartupInv, HubPrepared, Awaits
        <5> QED BY <2>4, <2>5, <5>1 DEF Handled
      <4>2. CASE k \notin hub[h].done
        BY <2>3, <2>4, <2>5, <4>2 DEF Handled, Awaits
      <4> QED BY <4>1, <4>2
    <3>2. DOMAIN hub'[h].rows \subseteq Rows'
      BY <2>3, <2>4, <2>5
    <3> QED BY Zenon, <2>4, <2>5, <3>1, <3>2 DEF StartupInv, HubPrepared, Upgraded, Migrated
  <2>7. HubSettings(h)'
    BY <2>1, <2>4, <2>5, SettingsFollow DEF StartupInv, Upgraded
  <2> QED BY <2>1, <2>4, <2>6, <2>7, OneHub
<1>10. ASSUME NEW h \in Hubs, MigrateSecretRow(h) PROVE StartupInv'
  <2>1. SavedInOrder' /\ SavedOn
    BY <1>0, <1>10, SavedRest DEF MigrateSecretRow
  <2>2. PICK k \in DOMAIN hub[h].rows :
          LET row == hub[h].rows[k]
          IN \/ Readable(row) /\ Settled(row) /\ Taken(h, k) /\ UNCHANGED keys
             \/ /\ Secrets(k) = row /\ Taken(h, k)
                /\ keys' = [keys EXCEPT ![k].version = 2, ![k].cipher = 2, ![k].secret = row.secret]
             \/ hub' = [hub EXCEPT ![h] = Down] /\ UNCHANGED keys
    BY Zenon, <1>10 DEF MigrateSecretRow, UnchangedSince
  <2>3. /\ hub[h].pc = "migrate" /\ UNCHANGED <<schema, users, chosen>>
        /\ k \in Rows /\ keys[k] \in Row
    BY <1>0, <1>10 DEF MigrateSecretRow, StartupInv, HubPrepared, KeysTyped, Rows
  <2> DEFINE rest == [r \in DOMAIN hub[h].rows \ {k} |-> hub[h].rows[r]]
             done == hub[h].done \cup {k}
  <2>4. DOMAIN rest = DOMAIN hub[h].rows \ {k} /\ \A r \in DOMAIN rest : rest[r] = hub[h].rows[r]
    OBVIOUS
  <2>5. ASSUME Taken(h, k)
        PROVE  /\ HubsShaped' /\ OthersRest(h) /\ HubSettings(h)'
               /\ hub'[h].pc = "migrate" /\ hub'[h].prepared = hub[h].prepared /\ hub'[h].rows = rest
               /\ hub'[h].done = done /\ hub'[h].overwritten = hub[h].overwritten
    <3>0. hub' = [hub EXCEPT ![h].rows = rest, ![h].done = done]
      BY <2>5 DEF Taken
    <3> HIDE DEF rest, done
    <3>1. /\ HubsShaped' /\ OthersRest(h)
          /\ hub'[h].pc = hub[h].pc /\ hub'[h].prepared = hub[h].prepared /\ hub'[h].rows = rest
          /\ hub'[h].done = done /\ hub'[h].overwritten = hub[h].overwritten
          /\ hub'[h].revision = hub[h].revision /\ hub'[h].overrides = hub[h].overrides
          /\ hub'[h].boot = hub[h].boot /\ hub'[h].runtime = hub[h].runtime
      BY Zenon, <1>0, <3>0, RowTaken
    <3>2. HubSettings(h)'
      BY <2>1, <3>1, SettingsFollow DEF StartupInv
    <3> QED BY <2>3, <3>1, <3>2
  <2> HIDE DEF rest
  <2>6. ASSUME Readable(hub[h].rows[k]), Settled(hub[h].rows[k]), Taken(h, k), UNCHANGED keys
        PROVE  StartupInv'
    <3>1. KeysTyped' /\ KeysAsChosen' /\ Grown
      BY <1>0, <2>3, <2>6, KeysRest
    <3>2. Current(hub[h].rows[k])
      BY <2>6 DEF Readable, Settled, Current
    <3>3. Rows' = Rows /\ HubPrepared(h) /\ \A r \in Rows : Current(keys[r]) => Current(keys'[r])
      BY <2>6 DEF StartupInv, Rows
    <3>4. HubPrepared(h)'
      BY Zenon, <2>3, <2>4, <2>5, <2>6, <3>2, <3>3, RowHandled
    <3> QED BY <2>1, <2>5, <2>6, <3>1, <3>4, OneHub
  <2>7. ASSUME Secrets(k) = hub[h].rows[k], Taken(h, k),
               keys' = [keys EXCEPT ![k].version = 2, ![k].cipher = 2, ![k].secret = hub[h].rows[k].secret]
        PROVE  StartupInv'
    <3> DEFINE c == keys[k]
               d == keys'[k]
               n == c.secret
    <3>1. c \in Row /\ d = [c EXCEPT !.version = 2, !.cipher = 2, !.secret = n]
      <4>1. keys[k].secret = hub[h].rows[k].secret
        BY <2>7 DEF Secrets
      <4>2. keys' = [keys EXCEPT ![k].version = 2, ![k].cipher = 2, ![k].secret = keys[k].secret]
        BY <2>7, <4>1
      <4> QED BY Zenon, <1>0, <2>3, <4>2 DEF KeysTyped, Rows
    <3>2. keys' = [x \in Keys |-> IF x = k THEN d ELSE keys[x]]
      BY Zenon, <1>0, <2>7 DEF KeysTyped
    <3>3. n \in Nat
      BY <3>1 DEF Row
    <3> HIDE DEF c, d, n
    <3>4. /\ d \in Row /\ d.version = 2 /\ d.cipher = 2 /\ d.secret = n /\ d.scopes = c.scopes
          /\ d.owner = c.owner /\ d.binding = c.binding
      BY Zenon, <3>1, <3>3 DEF Row
    <3>5. /\ chosen[k] \in Choice /\ chosen' = [x \in Keys |-> IF x = k THEN chosen[k] ELSE chosen[x]]
          /\ d.secret = chosen[k].secret
      <4>1. chosen \in [Keys -> Choice] /\ chosen' = chosen /\ k \in Keys
        BY <1>0, <2>3 DEF KeysTyped, Rows
      <4>2. keys[k].secret = chosen[k].secret
        BY <1>0, <2>3 DEF KeysAsChosen
      <4> QED BY <3>4, <4>1, <4>2 DEF n, c
    <3>6. /\ KeysTyped' /\ KeysAsChosen' /\ Rows' = Rows /\ keys'[k] = d
          /\ \A x \in Rows \ {k} : keys'[x] = keys[x]
      BY <1>0, <2>3, <3>2, <3>4, <3>5, RowChanged DEF c
    <3>7. Current(keys'[k])
      BY <3>4, <3>6 DEF Current
    <3>8. Grown
      BY Zenon, <2>3, <3>6, <3>7, GrownAt
    <3>9. HubPrepared(h) /\ \A r \in Rows : Current(keys[r]) => Current(keys'[r])
      BY <3>8 DEF StartupInv, Grown
    <3>10. HubPrepared(h)'
      BY Zenon, <2>3, <2>4, <2>5, <2>7, <3>6, <3>7, <3>9, RowHandled
    <3> QED BY <2>1, <2>5, <2>7, <3>6, <3>8, <3>10, OneHub
  <2>8. ASSUME hub' = [hub EXCEPT ![h] = Down], UNCHANGED keys PROVE StartupInv'
    <3>1. KeysTyped' /\ KeysAsChosen' /\ Grown
      BY <1>0, <2>3, <2>8, KeysRest
    <3>2. HubsShaped' /\ OthersRest(h) /\ hub'[h] = Down
      BY Zenon, <1>0, <2>8 DEF HubsShaped, Shaped, Down, OthersRest
    <3>3. HubPrepared(h)' /\ HubSettings(h)'
      BY Zenon, <2>1, <3>2, DownHolds DEF SavedOn
    <3> QED BY <2>1, <3>1, <3>2, <3>3, OneHub
  <2> QED BY Zenon, <2>2, <2>6, <2>7, <2>8
<1>11. ASSUME NEW h \in Hubs, SecretsMigrated(h) PROVE StartupInv'
  <2> DEFINE pc == AfterMigration(h)
  <2>1. /\ pc \in {"serving", "fresh"} /\ hub' = [hub EXCEPT ![h].done = {}, ![h].pc = pc]
        /\ hub[h].pc = "migrate" /\ Rows \subseteq hub[h].done
        /\ UNCHANGED <<schema, keys, users, chosen, settings, saved>>
    BY <1>11 DEF SecretsMigrated, AfterMigration
  <2>2. KeysTyped' /\ KeysAsChosen' /\ Grown /\ SavedInOrder' /\ SavedOn
    BY <1>0, <2>1, KeysRest, SavedRest
  <2>3. pc = "serving" => "retired" \in schema
    <3>1. hub[h].prepared => "retired" \in schema
      BY Zenon DEF StartupInv, HubPrepared
    <3> QED BY Zenon, <3>1 DEF AfterMigration
  <2> HIDE DEF pc
  <2>4. /\ HubsShaped' /\ OthersRest(h)
        /\ hub'[h].pc = pc /\ hub'[h].prepared = hub[h].prepared /\ hub'[h].rows = hub[h].rows
        /\ hub'[h].done = {} /\ hub'[h].overwritten = hub[h].overwritten
        /\ hub'[h].revision = hub[h].revision /\ hub'[h].overrides = hub[h].overrides
        /\ hub'[h].boot = hub[h].boot /\ hub'[h].runtime = hub[h].runtime
    BY Zenon, <1>0, <2>1, AllDone
  <2>5. HubPrepared(h)'
    <3>1. Rows' = Rows /\ \A k \in Rows : Handled(hub'[h], k, keys'[k])
      BY Zenon, <2>1, <2>4 DEF StartupInv, HubPrepared, Handled, Awaits, Rows
    <3> QED BY Zenon, <2>1, <2>3, <2>4, <3>1 DEF StartupInv, HubPrepared, Upgraded, Migrated
  <2>6. HubSettings(h)'
    BY Zenon, <2>1, <2>2, <2>4, SettingsFollow DEF StartupInv, Upgraded
  <2> QED BY <2>2, <2>4, <2>5, <2>6, OneHub
<1>12. ASSUME NEW h \in Hubs, PrepareFreshPermissions(h) PROVE StartupInv'
  <2>1. hub[h].pc = "fresh" /\ Goto(h, "serving") /\ UNCHANGED <<users, chosen>>
    BY <1>12 DEF PrepareFreshPermissions
  <2>2. schema' = schema \cup {"scopes", "retired"} /\ UNCHANGED keys
    BY <1>12, <2>1 DEF PrepareFreshPermissions, PreparedKeys, StartupInv, HubPrepared, Upgraded
  <2>3. KeysTyped' /\ KeysAsChosen' /\ Grown
    BY Zenon, <1>0, <2>1, <2>2
    DEF StartupInv, HubPrepared, Upgraded, KeysTyped, KeysAsChosen, Grown, Columns, Rows
  <2>4. SavedInOrder' /\ SavedOn
    BY <1>0, <1>12, SavedRest DEF PrepareFreshPermissions
  <2>5. HubsShaped' /\ OthersRest(h) /\ HubSettings(h)'
    BY <1>0, <2>1, <2>4, Moved, MovedSettings DEF StartupInv, Upgraded
  <2>6. HubPrepared(h)'
    BY Zenon, <1>0, <2>1, <2>2, <2>3, Moved
    DEF StartupInv, HubPrepared, Handled, Upgraded, Migrated, Grown
  <2> QED BY <2>3, <2>4, <2>5, <2>6, OneHub
<1>13. ASSUME NEW h \in Hubs, Bootstrap(h) \/ CreateFirstUser(h) PROVE StartupInv'
  <2>1. KeysTyped' /\ KeysAsChosen' /\ Grown
    BY <1>0, <1>13
    DEF Bootstrap, CreateFirstUser, FirstUser, KeysTyped, KeysAsChosen, Grown, Rows
  <2>2. SavedInOrder' /\ SavedOn
    BY <1>0, <1>13, SavedRest DEF Bootstrap, CreateFirstUser
  <2>3. PICK setup : hub' = [hub EXCEPT ![h].setup = setup]
    BY Zenon, <1>13 DEF Bootstrap, CreateFirstUser
  <2>4. /\ HubsShaped' /\ OthersRest(h)
        /\ hub'[h].pc = hub[h].pc /\ hub'[h].prepared = hub[h].prepared /\ hub'[h].rows = hub[h].rows
        /\ hub'[h].done = hub[h].done /\ hub'[h].overwritten = hub[h].overwritten
        /\ hub'[h].revision = hub[h].revision /\ hub'[h].overrides = hub[h].overrides
        /\ hub'[h].boot = hub[h].boot /\ hub'[h].runtime = hub[h].runtime
    BY Zenon, <1>0, <2>3, SetupMoved
  <2>5. UNCHANGED <<schema, keys>>
    BY <1>13 DEF Bootstrap, CreateFirstUser
  <2>6. HubPrepared(h)'
    BY Zenon, <2>4, <2>5 DEF StartupInv, HubPrepared, Handled, Awaits, Rows
  <2>7. HubSettings(h)'
    BY Zenon, <2>2, <2>4, SettingsFollow DEF StartupInv
  <2> QED BY Zenon, <2>1, <2>2, <2>4, <2>6, <2>7, OneHub
<1>14. ASSUME NEW h \in Hubs, BindUnownedToDefaultAdmin(h) PROVE StartupInv'
  <2>1. ASSUME NEW k \in Rows
        PROVE  /\ keys[k] \in Row /\ keys'[k] \in Row
               /\ keys'[k].version = keys[k].version /\ keys'[k].cipher = keys[k].cipher
               /\ keys'[k].secret = keys[k].secret /\ keys'[k].scopes = keys[k].scopes
               /\ \/ keys'[k] = keys[k]
                  \/ /\ keys[k].binding = 0 /\ keys[k].owner = 0
                     /\ keys'[k].binding = 1 /\ keys'[k].owner = 1
    <3> DEFINE c == keys[k]
               d == keys'[k]
    <3>1. /\ c \in Row
          /\ d = c \/ (c.binding = 0 /\ c.owner = 0 /\ d = [c EXCEPT !.owner = 1, !.binding = 1])
      BY Zenon, <1>0, <1>14, <2>1 DEF BindUnownedToDefaultAdmin, Bound, KeysTyped, Rows
    <3> HIDE DEF c, d
    <3>2. ASSUME d = [c EXCEPT !.owner = 1, !.binding = 1]
          PROVE  /\ d \in Row /\ d.version = c.version /\ d.cipher = c.cipher /\ d.secret = c.secret
                 /\ d.scopes = c.scopes /\ d.owner = 1 /\ d.binding = 1
      BY ZenonT(60), <3>1, <3>2 DEF Row
    <3>3. /\ d \in Row /\ d.version = c.version /\ d.cipher = c.cipher /\ d.secret = c.secret
          /\ d.scopes = c.scopes
          /\ d = c \/ (c.binding = 0 /\ c.owner = 0 /\ d.binding = 1 /\ d.owner = 1)
      BY Zenon, <3>1, <3>2
    <3> QED BY <3>1, <3>3 DEF c, d
  <2>2. \A k \in Keys \ Rows : keys'[k] = None
    BY Zenon, <1>14 DEF BindUnownedToDefaultAdmin, Bound, Rows
  <2>3. keys' \in [Keys -> Row \cup {None}] /\ Rows' = Rows
    BY <1>14, <2>1, <2>2 DEF BindUnownedToDefaultAdmin, Rows
  <2>4. UNCHANGED <<schema, users, chosen, hub, settings, saved>>
    BY <1>14 DEF BindUnownedToDefaultAdmin
  <2>5. KeysTyped' /\ Grown
    BY <1>0, <2>1, <2>3, <2>4 DEF KeysTyped, Grown, Current
  <2>6. KeysAsChosen'
    BY <1>0, <2>1, <2>3, <2>4 DEF KeysAsChosen
  <2> QED BY <1>0, <2>4, <2>5, <2>6, SavedRest, NoHub
<1>15. ASSUME NEW h \in Hubs, NEW owner \in {0, 1}, Create(h, owner) PROVE StartupInv'
  <2> DEFINE row == [scopes |-> Narrow, owner |-> owner, binding |-> 1, version |-> 2,
                     cipher |-> 2, secret |-> 0]
             choice == [scopes |-> Narrow, owner |-> owner, secret |-> 0, legacy |-> FALSE]
  <2>1. /\ keys' = [keys EXCEPT ![Later] = row] /\ chosen' = [chosen EXCEPT ![Later] = choice]
        /\ keys[Later] = None /\ UNCHANGED <<schema, users, hub, settings, saved>>
    BY <1>15 DEF Create
  <2>2. {"api_keys", "scopes"} \subseteq schema
    BY Zenon, <1>15 DEF Create, Serves, StartupInv, HubPrepared, Upgraded
  <2>3. /\ row \in Row /\ row.version = 2 /\ row.cipher = 2 /\ row.secret = choice.secret
        /\ row.scopes = choice.scopes /\ row.owner = choice.owner /\ row.binding # 0
        /\ choice \in Choice /\ ~choice.legacy
    BY DEF Row, Choice
  <2> HIDE DEF row, choice
  <2>4. /\ KeysTyped' /\ KeysAsChosen' /\ Rows' = Rows \cup {Later} /\ keys'[Later] = row
        /\ \A x \in Rows : keys'[x] = keys[x]
    BY Zenon, <1>0, <2>1, <2>2, <2>3, RowAdded
  <2>5. Grown
    BY <2>1, <2>3, <2>4 DEF Grown, Current
  <2> QED BY <1>0, <2>1, <2>4, <2>5, SavedRest, NoHub
<1>16. ASSUME NEW h \in Hubs, NEW k \in Keys, UpdatePermissions(h, k) PROVE StartupInv'
  <2> DEFINE c == keys[k]
             d == keys'[k]
             w == chosen[k]
             v == chosen'[k]
  <2>1. /\ k \in Rows /\ "scopes" \in schema /\ UNCHANGED <<schema, users, hub, settings, saved>>
    BY <1>16 DEF UpdatePermissions, Serves, StartupInv, HubPrepared, Upgraded
  <2>2. /\ c \in Row /\ d = [c EXCEPT !.scopes = Narrow]
        /\ w \in Choice /\ v = [w EXCEPT !.scopes = Narrow]
    BY <1>0, <1>16, <2>1 DEF UpdatePermissions, KeysTyped, Rows
  <2>3. /\ keys' = [x \in Keys |-> IF x = k THEN d ELSE keys[x]]
        /\ chosen' = [x \in Keys |-> IF x = k THEN v ELSE chosen[x]]
    BY Zenon, <1>0, <1>16 DEF UpdatePermissions, KeysTyped
  <2> HIDE DEF c, d, w, v
  <2>4. /\ d \in Row /\ d.scopes = Narrow /\ d.version = c.version /\ d.cipher = c.cipher
        /\ d.secret = c.secret /\ d.owner = c.owner /\ d.binding = c.binding
        /\ v \in Choice /\ v.scopes = Narrow /\ v.secret = w.secret /\ v.owner = w.owner
        /\ v.legacy = w.legacy
    BY <2>2 DEF Row, Choice
  <2>5. d.secret = v.secret
    BY <1>0, <2>1, <2>4 DEF KeysAsChosen, c, w
  <2>6. /\ KeysTyped' /\ KeysAsChosen' /\ Rows' = Rows /\ keys'[k] = d
        /\ \A x \in Rows \ {k} : keys'[x] = keys[x]
    <3>1. v.owner = chosen[k].owner /\ v.legacy = chosen[k].legacy
      BY <2>4 DEF w
    <3>2. d.owner = keys[k].owner /\ d.binding = keys[k].binding /\ d.scopes = v.scopes
      BY <2>4 DEF c
    <3> QED BY Zenon, <1>0, <2>1, <2>3, <2>4, <2>5, <3>1, <3>2, RowChanged
  <2>7. Current(keys[k]) => Current(keys'[k])
    BY <2>4, <2>6 DEF Current, c
  <2>8. Grown
    BY Zenon, <2>1, <2>6, <2>7, GrownAt
  <2> QED BY <1>0, <2>1, <2>6, <2>8, SavedRest, NoHub
<1>17. ASSUME NEW k \in Keys, OlderHubRotates(k) \/ \E h \in Hubs : Rotate(h, k) PROVE StartupInv'
  <2> DEFINE c == keys[k]
             d == keys'[k]
             w == chosen[k]
             v == chosen'[k]
             n == c.secret + 1
             m == w.secret + 1
  <2>1. k \in Rows /\ UNCHANGED <<schema, users, settings, saved>>
    BY <1>17 DEF OlderHubRotates, Rotate
  <2>2. /\ c \in Row /\ w \in Choice /\ v = [w EXCEPT !.secret = m]
        /\ \/ d = [c EXCEPT !.cipher = 1, !.secret = n] /\ Overwrites(k)
           \/ d = [c EXCEPT !.version = 2, !.cipher = 2, !.secret = n] /\ UNCHANGED hub
    BY Zenon, <1>0, <1>17, <2>1 DEF OlderHubRotates, Rotate, KeysTyped, Rows
  <2>3. /\ keys' = [x \in Keys |-> IF x = k THEN d ELSE keys[x]]
        /\ chosen' = [x \in Keys |-> IF x = k THEN v ELSE chosen[x]]
    BY <1>0, <1>17 DEF OlderHubRotates, Rotate, KeysTyped
  <2>4. n \in Nat /\ m \in Nat /\ n = m
    BY <1>0, <2>1, <2>2 DEF Row, Choice, KeysAsChosen
  <2> HIDE DEF c, d, w, v, n, m
  <2>5. ASSUME d = [c EXCEPT !.cipher = 1, !.secret = n]
        PROVE  /\ d \in Row /\ d.scopes = c.scopes /\ d.secret = n
               /\ d.owner = c.owner /\ d.binding = c.binding
    BY Zenon, <2>2, <2>4, <2>5 DEF Row
  <2>6. ASSUME d = [c EXCEPT !.version = 2, !.cipher = 2, !.secret = n]
        PROVE  /\ d \in Row /\ d.scopes = c.scopes /\ d.secret = n
               /\ d.owner = c.owner /\ d.binding = c.binding /\ d.version = 2 /\ d.cipher = 2
    BY Zenon, <2>2, <2>4, <2>6 DEF Row
  <2>7. /\ d \in Row /\ d.scopes = c.scopes /\ d.secret = n
        /\ d.owner = c.owner /\ d.binding = c.binding
    BY Zenon, <2>2, <2>5, <2>6
  <2>8. /\ v \in Choice /\ v.scopes = w.scopes /\ v.secret = m /\ v.owner = w.owner
        /\ v.legacy = w.legacy
    BY Zenon, <2>2, <2>4 DEF Choice
  <2>9. /\ KeysTyped' /\ KeysAsChosen' /\ Rows' = Rows /\ keys'[k] = d
        /\ \A x \in Rows \ {k} : keys'[x] = keys[x]
    <3>1. v.owner = chosen[k].owner /\ v.legacy = chosen[k].legacy /\ v.scopes = chosen[k].scopes
      BY Zenon, <2>8 DEF w
    <3>2. d.owner = keys[k].owner /\ d.binding = keys[k].binding /\ d.scopes = keys[k].scopes
      BY Zenon, <2>7 DEF c
    <3>3. d.secret = v.secret
      BY Zenon, <2>4, <2>7, <2>8
    <3> QED BY Zenon, <1>0, <2>1, <2>3, <2>7, <2>8, <3>1, <3>2, <3>3, RowChanged
  <2>10. SavedInOrder' /\ SavedOn
    BY <1>0, <2>1, SavedRest
  <2>11. CASE Overwrites(k)
    BY Zenon, <2>1, <2>9, <2>10, <2>11, OlderWrites
  <2>12. CASE d = [c EXCEPT !.version = 2, !.cipher = 2, !.secret = n] /\ UNCHANGED hub
    <3>1. Current(keys'[k])
      BY <2>6, <2>9, <2>12 DEF Current
    <3>2. Grown
      BY Zenon, <2>1, <2>9, <3>1, GrownAt
    <3> QED BY <2>9, <2>10, <2>12, <3>2, NoHub
  <2> QED BY Zenon, <2>2, <2>11, <2>12
<1>21. ASSUME NEW owner \in {0, 1}, OlderHubCreates(owner) PROVE StartupInv'
  <2> DEFINE s == IF "scopes" \in schema THEN Baseline ELSE None
             b == IF "binding" \in schema THEN 1 ELSE None
             row == [scopes |-> s, owner |-> owner, binding |-> b, version |-> 1,
                     cipher |-> 1, secret |-> 0]
             choice == [scopes |-> Baseline, owner |-> owner, secret |-> 0, legacy |-> FALSE]
  <2>1. /\ keys' = [keys EXCEPT ![Later] = row] /\ chosen' = [chosen EXCEPT ![Later] = choice]
        /\ keys[Later] = None /\ "api_keys" \in schema /\ Overwrites(Later)
        /\ UNCHANGED <<schema, users, settings, saved>>
    BY <1>21 DEF OlderHubCreates
  <2>2. /\ row \in Row /\ row.secret = choice.secret /\ row.owner = choice.owner /\ row.binding # 0
        /\ IF "scopes" \in schema THEN row.scopes = choice.scopes ELSE choice.scopes = Baseline
        /\ choice \in Choice /\ ~choice.legacy
    BY DEF Row, Choice
  <2> HIDE DEF row, choice
  <2>3. /\ KeysTyped' /\ KeysAsChosen' /\ Rows' = Rows \cup {Later}
        /\ \A x \in Rows : keys'[x] = keys[x]
    BY Zenon, <1>0, <2>1, <2>2, RowAdded
  <2>4. SavedInOrder' /\ SavedOn
    BY <1>0, <2>1, SavedRest
  <2>5. \A x \in Rows' \ {Later} : x \in Rows /\ keys'[x] = keys[x]
    BY <2>3
  <2> QED BY <2>1, <2>3, <2>4, <2>5, OlderWrites DEF Keys
<1>22. ASSUME SaveUnacceptable PROVE StartupInv'
  <2>1. KeysTyped' /\ KeysAsChosen' /\ Grown /\ UNCHANGED hub
    BY <1>0, <1>22, KeysRest DEF SaveUnacceptable
  <2>2. /\ saved' = Append(saved, Bad) /\ settings' = [revision |-> Len(saved) + 1, overrides |-> Bad]
        /\ saved \in Seq(Documents \cup {Bad})
    BY <1>0, <1>22, SavedFacts DEF SaveUnacceptable, SavedInOrder
  <2>3. /\ saved' \in Seq(Documents \cup {Bad}) /\ Len(saved') = Len(saved) + 1 /\ Len(saved) \in Nat
        /\ saved'[Len(saved) + 1] = Bad /\ \A r \in 1 .. Len(saved) : saved'[r] = saved[r]
    BY <2>2
  <2>4. SavedOn
    BY <2>3 DEF SavedOn
  <2>5. SavedInOrder'
    <3>1. ASSUME NEW r \in 2 .. Len(saved'), saved'[r] # Bad
          PROVE  \E s \in Settings : \A o \in Settings \ {s} :
                   MergeSettings(saved'[r])[o] = MergeSettings(Sparse(saved'[r - 1]))[o]
      <4>1. r \in 2 .. Len(saved) /\ saved'[r] = saved[r] /\ saved'[r - 1] = saved[r - 1]
        BY <2>3, <3>1
      <4> QED BY <1>0, <3>1, <4>1 DEF SavedInOrder
    <3>2. Len(saved') > 0 /\ settings' = [revision |-> Len(saved'), overrides |-> saved'[Len(saved')]]
      BY <2>2, <2>3
    <3> QED BY <2>3, <3>1, <3>2 DEF SavedInOrder
  <2> QED BY <2>1, <2>4, <2>5, NoHub
<1>18. ASSUME NEW h \in Hubs, NEW s \in Settings, NEW value \in {1, None}, NEW answered \in BOOLEAN,
              Update(h, s, value, answered)
       PROVE  StartupInv'
  <2> DEFINE old == hub[h].overrides
             D == IF value = None THEN DOMAIN old \ {s} ELSE DOMAIN old \cup {s}
             next == [k \in D |-> IF k = s THEN value ELSE old[k]]
             n == hub[h].revision
  <2>1. KeysTyped' /\ KeysAsChosen' /\ Grown /\ UNCHANGED <<schema, keys>>
    BY <1>0, <1>18, KeysRest DEF Update, Change
  <2>2. CASE ~SameRevision(h)
    <3>1. UNCHANGED <<settings, saved, hub>>
      BY <1>18, <2>2 DEF Update
    <3> QED BY <1>0, <2>1, <3>1, SavedRest, NoHub
  <2>3. CASE SameRevision(h)
    <3>1. /\ n = Len(saved) /\ n \in Nat \ {0} /\ old = Sparse(saved[n])
          /\ DOMAIN hub[h].boot = Settings
      <4>1. hub[h].pc \in Upgraded \ {"settings"} /\ n = settings.revision
        BY <1>18, <2>3 DEF Update, Serves, SameRevision, Upgraded
      <4>2. HubSettings(h)
        BY DEF StartupInv
      <4>3. n > 0 /\ n \in 0 .. Len(saved)
        BY Zenon, <4>1, <4>2 DEF HubSettings
      <4>4. old = Sparse(saved[n]) /\ DOMAIN hub[h].boot = Settings
        BY Zenon, <4>2, <4>3 DEF HubSettings
      <4>5. n = Len(saved) /\ Len(saved) \in Nat
        BY Zenon, <1>0, <4>1, SavedFacts
      <4> HIDE DEF n, old
      <4>6. n \in Nat \ {0}
        BY <4>3, <4>5
      <4> QED BY <4>4, <4>5, <4>6
    <3>2. old \in Documents
      <4>1. saved[n] \in Documents \cup {Bad}
        BY <1>0, <3>1, SavedFacts
      <4> QED BY Zenon, <3>1, <4>1, Emptiness DEF Sparse
    <3>3. /\ next \in Documents
          /\ \A o \in Settings \ {s} : MergeSettings(next)[o] = MergeSettings(old)[o]
      BY Zenon, <3>2, Overridden
    <3>4. /\ settings' = [revision |-> n + 1, overrides |-> next]
          /\ saved' = [r \in 1 .. n + 1 |-> IF r <= Len(saved) /\ r <= n THEN saved[r] ELSE next]
          /\ IF answered THEN Publish(h, n + 1, next) ELSE UNCHANGED hub
      BY Zenon, <1>18, <2>3 DEF Update
    <3> HIDE DEF old, next, n
    <3>5. saved' \in Seq(Documents \cup {Bad}) /\ Len(saved') = n + 1 /\ saved'[n + 1] = next
      <4>1. n \in Nat /\ \A r \in 1 .. n : saved[r] \in Documents \cup {Bad}
        BY <1>0, <3>1, SavedFacts
      <4>2. saved' \in [1 .. n + 1 -> Documents \cup {Bad}]
        BY <3>1, <3>3, <3>4, <4>1
      <4>3. saved' \in Seq(Documents \cup {Bad})
        BY <4>1, <4>2
      <4>4. Len(saved') = n + 1
        BY <4>1, <4>2, <4>3
      <4>5. saved'[n + 1] = next
        BY <3>4, <4>1
      <4> QED BY <4>3, <4>4, <4>5
    <3>6. \A r \in 1 .. n : saved'[r] = saved[r]
      BY <3>1, <3>4
    <3>7. SavedOn
      BY <3>1, <3>5, <3>6 DEF SavedOn
    <3>8. SavedInOrder'
      <4>1. ASSUME NEW r \in 2 .. n + 1, saved'[r] # Bad
            PROVE  \E x \in Settings : \A o \in Settings \ {x} :
                     MergeSettings(saved'[r])[o] = MergeSettings(Sparse(saved'[r - 1]))[o]
        <5>1. CASE r = n + 1
          BY <3>1, <3>3, <3>5, <3>6, <5>1
        <5>2. CASE r # n + 1
          <6>1. r \in 2 .. Len(saved) /\ saved'[r] = saved[r] /\ saved'[r - 1] = saved[r - 1]
            BY <3>1, <3>6, <4>1, <5>2
          <6> QED BY <1>0, <4>1, <6>1 DEF SavedInOrder
        <5> QED BY <5>1, <5>2
      <4>2. settings' = [revision |-> Len(saved'), overrides |-> saved'[Len(saved')]] /\ Len(saved') > 0
        BY <3>1, <3>4, <3>5
      <4>3. \A r \in 2 .. Len(saved') : saved'[r] # Bad =>
              \E x \in Settings : \A o \in Settings \ {x} :
                MergeSettings(saved'[r])[o] = MergeSettings(Sparse(saved'[r - 1]))[o]
        BY <3>5, <4>1
      <4> QED BY Zenon, <3>5, <4>2, <4>3 DEF SavedInOrder
    <3>9. CASE answered
      <4>1. Publish(h, n + 1, next)
        BY <3>4, <3>9
      <4>2. next = Sparse(saved'[n + 1])
        BY <3>3, <3>5, DocumentsParse DEF Sparse
      <4>3. n + 1 \in 1 .. Len(saved')
        BY <3>1, <3>5
      <4> QED BY Zenon, <2>1, <3>1, <3>7, <3>8, <4>1, <4>2, <4>3, PublishKeeps
    <3>10. CASE ~answered
      BY <2>1, <3>4, <3>7, <3>8, <3>10, NoHub
    <3> QED BY <3>9, <3>10
  <2> QED BY <2>2, <2>3
<1>19. ASSUME NEW h \in Hubs, Refresh(h) PROVE StartupInv'
  <2> DEFINE n == settings.revision
             next == settings.overrides
  <2>1. KeysTyped' /\ KeysAsChosen' /\ Grown /\ SavedInOrder' /\ SavedOn /\ UNCHANGED <<schema, keys>>
    BY <1>0, <1>19, KeysRest, SavedRest DEF Refresh
  <2>2. /\ n = Len(saved) /\ n \in Nat /\ n > 0 /\ next = saved[n] /\ next # Bad /\ UNCHANGED saved
        /\ DOMAIN hub[h].boot = Settings
    <3>1. /\ hub[h].pc \in Upgraded \ {"settings"} /\ settings.overrides # Bad
          /\ UNCHANGED saved
      BY <1>19 DEF Refresh, Outdated, Serves, Upgraded
    <3>2. n = Len(saved) /\ n \in Nat /\ n > 0 /\ next = saved[n]
      BY <1>0, SavedFacts
    <3>3. /\ hub[h].revision \in 0 .. Len(saved) /\ hub[h].revision > 0
          /\ DOMAIN hub[h].boot = Settings
      BY <3>1 DEF StartupInv, HubSettings
    <3> QED BY <3>1, <3>2, <3>3
  <2>3. next = Sparse(saved'[n])
    BY <2>2 DEF Sparse
  <2>4. Publish(h, n, next)
    BY <1>19 DEF Refresh
  <2> HIDE DEF n, next
  <2>5. n \in 1 .. Len(saved')
    BY <2>2
  <2> QED BY <2>1, <2>2, <2>3, <2>4, <2>5, PublishKeeps
<1>20. CASE UNCHANGED vars
  BY <1>0, <1>20, KeysRest, SavedRest, NoHub DEF vars
<1> QED BY <1>1, <1>2, <1>3, <1>4, <1>5, <1>6, <1>7, <1>8, <1>9, <1>10, <1>11, <1>12,
        <1>13, <1>14, <1>15, <1>16, <1>17, <1>18, <1>19, <1>20, <1>21, <1>22 DEF Next

(* "Permission preparation, ciphertext migration and owner backfill are independent",
   for any number of Hubs that start, stop and serve beside each other: a key keeps
   the scopes and the secret last chosen, only a key that had no owner when the upgrade
   began is given one, and there is one first user. *)
THEOREM ChoicesStay == Spec => []ChoicesKept
<1>1. ASSUME StartupInv PROVE ChoicesKept
  <2>1. users <= 1
    BY <1>1 DEF StartupInv, KeysTyped
  <2> QED BY Zenon, <1>1, <2>1 DEF StartupInv, KeysAsChosen, ChoicesKept
<1> QED BY <1>1, StartupInit, StartupStep, PTL DEF Spec

(* Records are upgraded "before starting HTTP, connection pools or any background
   writer", for any number of Hubs that start, crash and serve beside each other: a Hub
   that serves finds every column, and every record that has a raw value is readable and
   of the current version, unless a Hub of the older version wrote it after this Hub had
   read it. *)
THEOREM MigratedBeforeServing == Spec => []ServesMigrated
<1>1. StartupInv => ServesMigrated
  BY Zenon DEF StartupInv, HubPrepared, Handled, Upgraded, Migrated, ServesMigrated, Serves
<1> QED BY <1>1, StartupInit, StartupStep, PTL DEF Spec

(* A Hub runs on settings that were committed under the revision it reports, and no
   revision loses an update of another Hub. *)
THEOREM SettingsStayCommitted == Spec => []SettingsCommitted
<1>1. ASSUME StartupInv PROVE SettingsCommitted
  <2>1. settings.revision = Len(saved)
    BY <1>1, SavedFacts DEF StartupInv
  <2>2. ASSUME NEW h \in Hubs, hub[h].revision > 0
        PROVE  /\ hub[h].overrides = Sparse(saved[hub[h].revision])
               /\ hub[h].runtime["live"] = MergeSettings(hub[h].overrides)["live"]
               /\ hub[h].runtime["restart"] = hub[h].boot["restart"]
    BY Zenon, <1>1, <2>2 DEF StartupInv, HubSettings
  <2>3. \A r \in 2 .. Len(saved) : saved[r] # Bad =>
          \E s \in Settings : \A o \in Settings \ {s} :
            MergeSettings(saved[r])[o] = MergeSettings(Sparse(saved[r - 1]))[o]
    BY <1>1 DEF StartupInv, SavedInOrder
  <2> QED BY <2>1, <2>2, <2>3 DEF SettingsCommitted
<1> QED BY <1>1, StartupInit, StartupStep, PTL DEF Spec
===============================================================================
