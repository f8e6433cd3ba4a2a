----------------------------- MODULE HubStartup -----------------------------
(* Hubs that start, serve and stop on one database (cmd/server/main.go): the schema
   preparation for API keys, the migration of encrypted records, the first
   administrator, the owner backfill and the system settings.  A replaced container
   may start while its predecessor still serves, so that the steps of several Hubs
   interleave; every statement or transaction is one action.

   The records of all tables that hold secrets are represented by API keys: Legacy
   exists before the upgrade, Later is created during it, by a Hub that serves or by
   one of the older version that has not been stopped. *)
EXTENDS Naturals, Sequences

CONSTANTS Hubs, Legacy, Later,
          Baseline,     \* the scopes that keys get when the column is added
          Narrow,       \* scopes that somebody chose
          None,
          Bad,          \* a settings document that does not parse
          MaxChanges, MaxStarts     \* bounds: changes by users, starts of Hubs

Keys == {Legacy, Later}
Settings == {"live", "restart"}
(* A key without scopes has no restriction of its own.  Its ciphertext is of the
   version in its row, unless an older Hub wrote it, which does not know that column;
   cipher = None stands for a key whose raw value cannot be recovered. *)
Row == [scopes : {None, Baseline, Narrow}, owner : {0, 1}, binding : {None, 0, 1},
        version : {1, 2}, cipher : {None, 1, 2}, secret : Nat]

ASSUME KeysDiffer == Legacy # Later
ASSUME NoneIsNoValue == None \notin {Baseline, Narrow, 0, 1, 2} \cup Row
ASSUME BadIsNoDocument == \A S \in SUBSET Settings : Bad \notin [S -> {1}]

VARIABLES schema,    \* the columns that the database has
          keys,      \* the rows of api_keys; None without one
          users,     \* the number of users
          settings,  \* the system_settings row
          lock,      \* holder of the migration's advisory lock
          hub,
          chosen,    \* what users last decided about a key; legacy: it had no owner
                     \* when the column for that was added
          saved,     \* the overrides of every revision that was committed
          changes, starts

vars == <<schema, keys, users, settings, lock, hub, chosen, saved, changes, starts>>

(* rows: the batch that is being migrated; done: the records before it; overwritten:
   those that an older Hub wrote after this one had read them *)
Down == [pc |-> "down", prepared |-> FALSE, rows |-> <<>>, done |-> {}, overwritten |-> {},
         setup |-> FALSE, revision |-> 0, overrides |-> <<>>, boot |-> <<>>, runtime |-> <<>>]

(* A sparse document of overrides: a missing key inherits the deployment's value (0). *)
Sparse(overrides) == IF overrides = Bad THEN <<>> ELSE overrides
MergeSettings(values) == [s \in Settings |-> IF s \in DOMAIN values THEN values[s] ELSE 0]
ApplyLive(desired, boot) == [desired EXCEPT !["restart"] = boot["restart"]]

(* A fresh database, or one of an older version: its key has no ciphertext of the
   current version, or none at all; scopes that were chosen, or none; and an owner, if
   somebody gave it one. *)
Init ==
  /\ users \in {0, 1}
  /\ \E columns \in {{}, {"api_keys"}, {"api_keys", "scopes"}}, cipher \in {None, 1},
        scopes \in {None, Narrow}, owner \in 0 .. users :
       LET unknown == [scopes |-> Baseline, owner |-> 0, secret |-> 0, legacy |-> FALSE]
           choice == [scopes |-> IF "scopes" \in columns THEN scopes ELSE Baseline,
                      owner |-> owner, secret |-> 0, legacy |-> FALSE]
           row == [scopes |-> IF "scopes" \in columns THEN scopes ELSE None, owner |-> owner,
                   binding |-> None, version |-> 1, cipher |-> cipher, secret |-> 0]
       IN /\ schema = columns
          /\ IF "api_keys" \in columns
               THEN /\ keys = [k \in Keys |-> IF k = Legacy THEN row ELSE None]
                    /\ chosen = [k \in Keys |-> IF k = Legacy THEN choice ELSE unknown]
               ELSE keys = [k \in Keys |-> None] /\ chosen = [k \in Keys |-> unknown]
  /\ settings = [revision |-> 1, overrides |-> <<>>]
  /\ saved = <<<<>>>>
  /\ lock = None
  /\ hub = [h \in Hubs |-> Down]
  /\ changes = 0 /\ starts = 0

Rows == {k \in Keys : keys[k] # None}
Goto(h, pc) == hub' = [hub EXCEPT ![h].pc = pc]

----------------------------------------------------------------------------
Start(h) ==
  /\ hub[h].pc = "down" /\ starts < MaxStarts
  /\ starts' = starts + 1
  /\ Goto(h, "owners")
  /\ UNCHANGED <<schema, keys, users, settings, lock, chosen, saved, changes>>

(* An error of any step ends the process, and so does a crash; the advisory lock
   ends with the connection. *)
Exit(h) ==
  /\ hub[h].pc # "down"
  /\ hub' = [hub EXCEPT ![h] = Down]
  /\ lock' = IF lock = h THEN None ELSE lock
  /\ UNCHANGED <<schema, keys, users, settings, chosen, saved, changes, starts>>

PrepareLegacyOwnerBinding(h) ==
  /\ hub[h].pc = "owners"
  /\ IF "api_keys" \in schema /\ "binding" \notin schema
       THEN /\ schema' = schema \cup {"binding"}
            /\ keys' = [k \in Keys |-> IF k \notin Rows THEN None
                          ELSE [keys[k] EXCEPT !.binding = IF keys[k].owner = 0 THEN 0 ELSE 1]]
            /\ chosen' = [k \in Keys |-> IF k \notin Rows THEN chosen[k]
                            ELSE [chosen[k] EXCEPT !.legacy = keys[k].owner = 0]]
       ELSE UNCHANGED <<schema, keys, chosen>>
  /\ Goto(h, "permissions")
  /\ UNCHANGED <<users, settings, lock, saved, changes, starts>>

(* The column gets the frozen baseline only when it is absent; an existing choice is
   never changed, and the old grant is marked as retired. *)
PreparedKeys ==
  IF "scopes" \in schema THEN keys
  ELSE [k \in Keys |-> IF k \in Rows THEN [keys[k] EXCEPT !.scopes = Baseline] ELSE None]
PrepareAPIKeyPermissionsSchema(h) ==
  /\ hub[h].pc = "permissions"
  /\ IF "api_keys" \in schema
       THEN schema' = schema \cup {"scopes", "retired"} /\ keys' = PreparedKeys
       ELSE UNCHANGED <<schema, keys>>
  /\ hub' = [hub EXCEPT ![h].prepared = "api_keys" \in schema, ![h].pc = "tokens"]
  /\ UNCHANGED <<users, settings, lock, chosen, saved, changes, starts>>

(* The statements of a migration and its marker commit together, once. *)
ApplyOnce(id) == schema' = schema \cup {id}
PrepareUserTokenVersionSchema(h) ==
  /\ hub[h].pc = "tokens"
  /\ ApplyOnce("tokens")
  /\ Goto(h, "automigrate")
  /\ UNCHANGED <<keys, users, settings, lock, chosen, saved, changes, starts>>

(* AutoMigrate creates what is missing with today's defaults. *)
AutoMigrate(h) ==
  /\ hub[h].pc = "automigrate"
  /\ schema' = schema \cup {"api_keys", "binding", "scopes"}
  /\ keys' = [k \in Keys |-> IF k \notin Rows THEN None
                ELSE [keys[k] EXCEPT !.scopes = IF "scopes" \in schema THEN @ ELSE Baseline,
                                     !.binding = IF "binding" \in schema THEN @ ELSE 1]]
  /\ Goto(h, "settings")
  /\ UNCHANGED <<users, settings, lock, chosen, saved, changes, starts>>

(* A document that does not parse is ignored, in memory, if the deployment says so;
   otherwise the process exits. *)
NewSystemSettingsService(h) ==
  /\ hub[h].pc = "settings"
  /\ hub' = [hub EXCEPT ![h].revision = settings.revision,
                        ![h].overrides = Sparse(settings.overrides),
                        ![h].boot = MergeSettings(Sparse(settings.overrides)),
                        ![h].runtime = MergeSettings(Sparse(settings.overrides)),
                        ![h].pc = "lock"]
  /\ UNCHANGED <<schema, keys, users, settings, lock, chosen, saved, changes, starts>>

----------------------------------------------------------------------------
(* MigrateSecrets: one Hub at a time reads a batch and then rewrites row by row, until
   there is no record after the last one. *)
Secrets(k) == [version |-> keys[k].version, cipher |-> keys[k].cipher, secret |-> keys[k].secret]
ReadSecrets(h) ==
  LET batch == Rows \ hub[h].done
  IN /\ \/ hub[h].pc = "lock" /\ lock = None
        \/ hub[h].pc = "migrate" /\ DOMAIN hub[h].rows = {} /\ batch # {}
     /\ lock' = h
     /\ hub' = [hub EXCEPT ![h].rows = [k \in batch |-> Secrets(k)], ![h].pc = "migrate"]
     /\ UNCHANGED <<schema, keys, users, settings, chosen, saved, changes, starts>>

ReadableUnchecked(row) == TRUE
Readable(row) == row.cipher \in {None, row.version}
Settled(row) == row.cipher = None \/ row.version = 2
Taken(h, k) ==
  hub' = [hub EXCEPT ![h].rows = [r \in DOMAIN @ \ {k} |-> @[r]], ![h].done = @ \cup {k}]

(* A key without a raw value stays as it is, and so does a record of the current
   version.  The whole encrypted snapshot is compared, and only the encrypted columns
   are written; a row that changed meanwhile, or that cannot be read, ends the process. *)
UnchangedUnchecked(h, k) == TRUE
UnchangedSince(h, k) == Secrets(k) = hub[h].rows[k]
MigrateSecretRow(h) ==
  /\ hub[h].pc = "migrate"
  /\ \E k \in DOMAIN hub[h].rows :
       LET row == hub[h].rows[k]
       IN /\ k = Later => Legacy \notin DOMAIN hub[h].rows
          /\ \/ Readable(row) /\ Settled(row) /\ Taken(h, k) /\ UNCHANGED <<keys, lock>>
             \/ /\ Readable(row) /\ ~Settled(row) /\ UnchangedSince(h, k)
                /\ keys' = [keys EXCEPT ![k].version = 2, ![k].cipher = 2, ![k].secret = row.secret]
                /\ Taken(h, k) /\ UNCHANGED lock
             \/ /\ ~Readable(row) \/ (~Settled(row) /\ ~UnchangedSince(h, k))
                /\ hub' = [hub EXCEPT ![h] = Down] /\ lock' = None /\ UNCHANGED keys
  /\ UNCHANGED <<schema, users, settings, chosen, saved, changes, starts>>

AfterMigration(h) == IF hub[h].prepared THEN "serving" ELSE "fresh"
SecretsMigrated(h) ==
  /\ hub[h].pc = "migrate" /\ DOMAIN hub[h].rows = {} /\ Rows \subseteq hub[h].done
  /\ lock' = None
  /\ hub' = [hub EXCEPT ![h].done = {}, ![h].pc = AfterMigration(h)]
  /\ UNCHANGED <<schema, keys, users, settings, chosen, saved, changes, starts>>

(* A fresh installation had no table during the preparation. *)
PrepareFreshPermissions(h) ==
  /\ hub[h].pc = "fresh"
  /\ schema' = schema \cup {"scopes", "retired"}
  /\ keys' = PreparedKeys
  /\ Goto(h, "serving")
  /\ UNCHANGED <<users, settings, lock, chosen, saved, changes, starts>>

(* A signal stops the background work; requests are served until the Hub exits. *)
Shutdown(h) ==
  /\ hub[h].pc = "serving"
  /\ Goto(h, "stopping")
  /\ UNCHANGED <<schema, keys, users, settings, lock, chosen, saved, changes, starts>>

Serves(h) == hub[h].pc \in {"serving", "stopping"}

----------------------------------------------------------------------------
(* Bootstrap counts the users, and createFirstUser counts again under a lock. *)
Bootstrap(h) ==
  /\ Serves(h) /\ ~hub[h].setup /\ users = 0
  /\ hub' = [hub EXCEPT ![h].setup = TRUE]
  /\ UNCHANGED <<schema, keys, users, settings, lock, chosen, saved, changes, starts>>

FirstUser == users = 0
CreateFirstUser(h) ==
  /\ Serves(h) /\ hub[h].setup
  /\ users' = IF FirstUser THEN users + 1 ELSE users
  /\ hub' = [hub EXCEPT ![h].setup = FALSE]
  /\ UNCHANGED <<schema, keys, settings, lock, chosen, saved, changes, starts>>

(* The owner backfill, after the start, after the first user and from time to time *)
Bound(k) == IF k \in Rows /\ keys[k].binding = 0 /\ keys[k].owner = 0
              THEN [keys[k] EXCEPT !.owner = 1, !.binding = 1] ELSE keys[k]
BindUnownedToDefaultAdmin(h) ==
  /\ Serves(h) /\ users > 0
  /\ keys' = [k \in Keys |-> Bound(k)]
  /\ UNCHANGED <<schema, users, settings, lock, hub, chosen, saved, changes, starts>>

Change == changes < MaxChanges /\ changes' = changes + 1

Create(h, owner) ==
  /\ Serves(h) /\ Change /\ keys[Later] = None /\ owner <= users
  /\ keys' = [keys EXCEPT ![Later] = [scopes |-> Narrow, owner |-> owner, binding |-> 1,
                                      version |-> 2, cipher |-> 2, secret |-> 0]]
  /\ chosen' = [chosen EXCEPT ![Later] = [scopes |-> Narrow, owner |-> owner, secret |-> 0,
                                          legacy |-> FALSE]]
  /\ UNCHANGED <<schema, users, settings, lock, hub, saved, starts>>

UpdatePermissions(h, k) ==
  /\ Serves(h) /\ Change /\ k \in Rows
  /\ keys' = [keys EXCEPT ![k].scopes = Narrow]
  /\ chosen' = [chosen EXCEPT ![k].scopes = Narrow]
  /\ UNCHANGED <<schema, users, settings, lock, hub, saved, starts>>

Rotate(h, k) ==
  /\ Serves(h) /\ Change /\ k \in Rows
  /\ keys' = [keys EXCEPT ![k].version = 2, ![k].cipher = 2, ![k].secret = @ + 1]
  /\ chosen' = [chosen EXCEPT ![k].secret = @ + 1]
  /\ UNCHANGED <<schema, users, settings, lock, hub, saved, starts>>

----------------------------------------------------------------------------
Publish(h, revision, overrides) ==
  hub' = [hub EXCEPT ![h].revision = revision, ![h].overrides = overrides,
                     ![h].runtime = ApplyLive(MergeSettings(overrides), hub[h].boot)]

(* Update of one setting, for a client that has seen this Hub's revision: a value, or
   null, which removes the override.  The row is replaced if it still has that
   revision.  Its commit may be reported as an error although it took effect
   (answered = FALSE). *)
SameRevisionUnchecked(h) == TRUE
SameRevision(h) == settings.revision = hub[h].revision
Update(h, s, value, answered) ==
  LET old == hub[h].overrides
      next == [k \in IF value = None THEN DOMAIN old \ {s} ELSE DOMAIN old \cup {s} |->
                 IF k = s THEN value ELSE old[k]]
  IN /\ Serves(h) /\ Change
     /\ IF SameRevision(h)
          THEN /\ settings' = [revision |-> hub[h].revision + 1, overrides |-> next]
               /\ saved' = [r \in 1 .. hub[h].revision + 1 |->
                              IF r <= Len(saved) /\ r <= hub[h].revision THEN saved[r] ELSE next]
               /\ IF answered THEN Publish(h, hub[h].revision + 1, next) ELSE UNCHANGED hub
          ELSE UNCHANGED <<settings, saved, hub>>
     /\ UNCHANGED <<schema, keys, users, lock, chosen, starts>>

(* By Get, and by Poll of a Hub that has not been told to stop.  With a document that it
   does not accept, a Hub retains its last valid configuration. *)
OutdatedBy2(h) == settings.revision > hub[h].revision + 1
Outdated(h) == settings.revision # hub[h].revision
Refresh(h) ==
  /\ Serves(h) /\ Outdated(h) /\ settings.overrides # Bad
  /\ Publish(h, settings.revision, settings.overrides)
  /\ UNCHANGED <<schema, keys, users, settings, lock, chosen, saved, changes, starts>>

----------------------------------------------------------------------------
(* A document that this version does not accept, committed by a Hub of another one *)
SaveUnacceptable ==
  /\ Change /\ settings.overrides # Bad
  /\ settings' = [revision |-> settings.revision + 1, overrides |-> Bad]
  /\ saved' = Append(saved, Bad)
  /\ UNCHANGED <<schema, keys, users, lock, hub, chosen, starts>>

(* "A database advisory lock serializes migration by new Hubs, but cannot stop an older
   binary from writing": until it is stopped, a Hub of the older version may create a
   key or replace a secret.  It knows neither the version of a ciphertext nor the owner
   binding, so that these columns keep their value, or get their default. *)
HasRead(h, k) ==
  \/ hub[h].pc = "migrate" /\ k \in DOMAIN hub[h].rows \cup hub[h].done
  \/ hub[h].pc \in {"fresh", "serving", "stopping"}
Overwrites(k) ==
  hub' = [h \in Hubs |-> IF HasRead(h, k) THEN [hub[h] EXCEPT !.overwritten = @ \cup {k}]
                           ELSE hub[h]]
OlderHubRotates(k) ==
  /\ Change /\ k \in Rows
  /\ keys' = [keys EXCEPT ![k].cipher = 1, ![k].secret = @ + 1]
  /\ chosen' = [chosen EXCEPT ![k].secret = @ + 1]
  /\ Overwrites(k)
  /\ UNCHANGED <<schema, users, settings, lock, saved, starts>>
OlderHubCreates(owner) ==
  /\ Change /\ "api_keys" \in schema /\ keys[Later] = None /\ owner <= users
  /\ keys' = [keys EXCEPT ![Later] = [scopes |-> IF "scopes" \in schema THEN Baseline ELSE None,
                                      owner |-> owner,
                                      binding |-> IF "binding" \in schema THEN 1 ELSE None,
                                      version |-> 1, cipher |-> 1, secret |-> 0]]
  /\ chosen' = [chosen EXCEPT ![Later] = [scopes |-> Baseline, owner |-> owner, secret |-> 0,
                                          legacy |-> FALSE]]
  /\ Overwrites(Later)
  /\ UNCHANGED <<schema, users, settings, lock, saved, starts>>

Next ==
  \/ SaveUnacceptable
  \/ \E k \in Keys : OlderHubRotates(k)
  \/ \E owner \in {0, 1} : OlderHubCreates(owner)
  \/ \E h \in Hubs :
    \/ Start(h) \/ Exit(h) \/ Shutdown(h)
    \/ PrepareLegacyOwnerBinding(h) \/ PrepareAPIKeyPermissionsSchema(h)
    \/ PrepareUserTokenVersionSchema(h) \/ AutoMigrate(h) \/ NewSystemSettingsService(h)
    \/ ReadSecrets(h) \/ MigrateSecretRow(h) \/ SecretsMigrated(h) \/ PrepareFreshPermissions(h)
    \/ Bootstrap(h) \/ CreateFirstUser(h) \/ BindUnownedToDefaultAdmin(h)
    \/ \E owner \in {0, 1} : Create(h, owner)
    \/ \E k \in Keys : UpdatePermissions(h, k) \/ Rotate(h, k)
    \/ \E s \in Settings, value \in {1, None}, answered \in BOOLEAN : Update(h, s, value, answered)
    \/ Refresh(h)

(* Poll runs every five seconds for as long as the Hub is not stopped. *)
Poll(h) == hub[h].pc = "serving" /\ Refresh(h)
Fairness == \A h \in Hubs : WF_vars(Poll(h))
Spec == Init /\ [][Next]_vars /\ Fairness

----------------------------------------------------------------------------
(* "Permission preparation, ciphertext migration and owner backfill are independent":
   through restarts, Hubs that start beside each other and changes by users, a key
   keeps the scopes (also none) and the secret that were last chosen, and an owner is
   only ever given to a key that had none when the upgrade began: "Later inserts can
   never enter the legacy set".  "Initialized instances
   cannot be claimed": there is one first user, also when Hubs race for it. *)
ChoicesKept ==
  /\ users <= 1
  /\ \A k \in Rows :
       /\ keys[k].secret = chosen[k].secret
       /\ "scopes" \in schema => keys[k].scopes = chosen[k].scopes
       /\ keys[k].owner # chosen[k].owner =>
            chosen[k].legacy /\ chosen[k].owner = 0 /\ keys[k].owner = 1

(* Records are upgraded "before starting HTTP, connection pools or any background
   writer": a Hub that serves finds every column, and every record is encrypted as its
   version says and with the current version, or has no raw value to encrypt, unless a
   Hub of the older version wrote it after this Hub had read it, or created it after
   this Hub had read all. *)
Current(row) == row.cipher = None \/ (row.cipher = 2 /\ row.version = 2)
ServesMigrated ==
  \A h \in Hubs : Serves(h) =>
    /\ {"api_keys", "binding", "scopes", "retired", "tokens"} \subseteq schema
    /\ \A k \in Rows \ hub[h].overwritten : Current(keys[k])

(* A Hub runs on settings that were committed under the revision it reports, except
   for values that wait for a restart, and a revision differs from its predecessor
   in the one setting that was saved, unless it is a document of another version: no
   update of another Hub is lost. *)
SettingsCommitted ==
  /\ settings.revision = Len(saved)
  /\ \A h \in Hubs : hub[h].revision > 0 =>
       /\ hub[h].overrides = Sparse(saved[hub[h].revision])
       /\ hub[h].runtime["live"] = MergeSettings(hub[h].overrides)["live"]
       /\ hub[h].runtime["restart"] = hub[h].boot["restart"]
  /\ \A r \in 2 .. Len(saved) : saved[r] # Bad =>
       \E s \in Settings : \A o \in Settings \ {s} :
         MergeSettings(saved[r])[o] = MergeSettings(Sparse(saved[r - 1]))[o]

(* "Poll also propagates changes made by another Hub": a Hub that serves comes to run
   on the settings that were committed last, unless it cannot accept them. *)
SettingsArrive ==
  \A h \in Hubs : (hub[h].pc = "serving" /\ hub[h].revision # settings.revision)
                    ~> \/ hub[h].pc # "serving" \/ hub[h].revision = settings.revision
                       \/ settings.overrides = Bad
=============================================================================
