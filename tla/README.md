# Verification of postgresql-operator

TLA+ models, TLC runs and TLAPS proofs kept beside the Kubernetes operator in
`src/`. The operator reconciles four custom resources with PostgreSQL engines:
it validates engines, provisions databases with owner, writer and reader roles,
keeps login roles with generated or imported credentials, and logical
replication publications.

## 1. Inventory

| Component | Code | State it keeps | Operations | What makes it correct |
|---|---|---|---|---|
| User role reconciliation | `internal/controller/postgresql/postgresqluserrole_controller.go` | status (phase, ready, current role, old roles, prefix, date of the password), work secret, generated secrets, login roles with their memberships and settings | one pass of `mainReconcile`: deletion, work secret (managed / provided), drop of old roles, login roles, rights, secrets, status | published credentials work; no role in use is broken; no role is forgotten; rights are exactly those asked for; it converges and deletions complete |
| Role statements | `postgres/role.go` | roles of an engine | CREATE / ALTER / DROP ROLE, GRANT, REVOKE, settings, REASSIGN and DROP OWNED | used through the others |
| Pool manager | `postgres/pool_manager.go` | `poolManagerStorage`, process-wide, without a lock | `getOrOpenPool`, `CloseAllSavedPoolsForName`, `CloseDatabaseSavedPoolsForName` | nobody gets a closed pool or one with other credentials; no pool is lost open |
| Database reconciliation | `postgresqldatabase_controller.go`, `postgres/database.go` | status (database, roles, schemas, extensions), databases, group roles | adopt, rename, change owner, schemas, extensions, drop with or without waiting for linked resources | Ready means in place and stays so; a rename or a drop interrupted anywhere can be resumed; a drop leaves nothing and takes nothing of others |
| Engine configuration reconciliation | `postgresqlengineconfiguration_controller.go` | status (hash, last validation) | validate at an interval, close pools on a change, wait for linked databases | a changed configuration or a failure is noticed, no pool of the former address survives, linked databases are waited for |
| Publication reconciliation | `postgresqlpublication_controller.go`, `postgres/publication.go`, the two builders | status (name, hash, all tables), publication and replication slot | create, update by hash or by difference, rename, change owner, drop | what is reported is published; no publication or slot is left behind; no idle updates; it converges |
| Reconcile wrapper | `Reconcile` of each controller | one goroutine per pass | run, time out | a statement of a timed out pass does no harm |
| Providers | `postgres/postgres.go`, `aws.go`, `azure.go` | memberships of the operator's user for the length of a statement | grant, statement, revoke | the membership does not outlive the statement |
| Helpers, start-up, API types | `utils/`, `cmd/main.go`, `api/` | none | pure functions, registration | |

How they interact: a user role names databases, a database names an engine
configuration, a publication names a database. The controllers share no memory
except the pool manager; they meet in the API server (each reads the others'
status) and in the engine (group roles made by the database controller are
granted by the user role controller and own publications). Applications read
generated secrets and connect to the engine at any time.

What is hard: a pass is a long series of writes to three stores (Kubernetes
secrets, PostgreSQL, the status) without a transaction; the status is written
once, at the end; the pass may stop anywhere with an error, a crash, a timeout
or a lost leader lease; the resource and the secrets are edited meanwhile; the
copy that was read may be old; applications open and close sessions; four
controllers race on the pool manager. `PROJECT.json` lists the hazards line by
line.

## 2. Modules

| Module | Models | Extends |
|---|---|---|
| `PgRoles` | what each statement on login roles does to one engine | - |
| `UserRole` | the reconciliation of one user role among its environment | `PgRoles` |
| `PgDatabase` | what each statement on group roles, databases, schemas, extensions does to one engine, and when it fails | - |
| `Database` | the reconciliation of the databases of one engine | `PgDatabase` |
| `Publication` | the reconciliation of one publication and its slot | - |
| `EngineConfiguration` | the reconciliation of one engine configuration, and the pools of the other controllers | - |
| `PoolManager` | the pools of one engine name, any number of goroutines | - |
| `PoolCache` | what the pool manager promises, abstractly | - |
| `MC...` | small instances for TLC | the module of that name |
| `UserRoleProofs`, `PublicationProofs`, `EngineConfigurationProofs`, `PoolManagerProofs` | theorems | the module of that name, `TLAPS` |
| `UserRoleReadyProofs` | what is in place when a pass reports Ready | `UserRoleProofs` |
| `UserRoleRotationProofs` | what passes leave on the engines over time | `UserRoleReadyProofs` |
| `DatabaseProofs` | the types, and what a pass has put in place | `Database`, `TLAPS` |
| `DatabaseLifeProofs` | databases and group roles from pass to pass, with and without crashes | `DatabaseProofs` |

The four reconciliation modules share their shape. `cr`, `st` are the resource
and its status in the API server; `seen` and `orig` (in `Database`, `read`) the
copy the pass read (`instance`, `originalPatch`); `mem` is `instance.Status` as
the pass changes it in memory; `w` is the position of the pass in
`mainReconcile` with its local variables. One action is one write or one
decision of the pass, in the order of the code; a check and the statement it
decides on are one action where nothing else in the model could come between
them with another result. A status patch is a JSON merge patch against the copy
that was read: fields the pass did not change keep the stored value
(`StatusPatch`, `Merged`). An update of the resource (finalizer, defaults)
carries the resource version, and is refused when the copy is not the stored
one. Every error of a call or statement ends in `manageError`.

The environment is part of each module. A scenario is a member of the constant
`Plans`: the initial resources and stores, the kinds of edits and of faults
that may happen, and how many of each. The counters `edits.left` and
`faults.left` are the only bounds besides `MaxClock` (time, in `UserRole`) and
`MaxCalls` (`PoolManager`). Faults are

| Kind | What happens |
|---|---|
| `error` | a call or statement fails without effect |
| `crash` | the pass ends with nothing written; a refused status patch looks the same |
| `lost` | (publication) the statement takes effect, the pass sees an error |
| `timeout` | (database) the deadline ends the pass, its statement is on the way and lands later or never |
| `stale` | passes may read the copy of the pass before (any number of times) |
| `reopen`, `session`, `consumer` | another controller's pool, an application, a replication client has a session |

### UserRole

`work`, `gen`, `import` are the work secret, the generated secrets, the import
secret; `dbs` what the controller sees of the databases it names; `pg`, `sess`
the roles of every engine and the open client sessions.

    Begin*            166-299   deletion, missing database, wait, finalizer
    Managed*          942-1092  the work secret in managed mode
    Provided*        1094-1180  the work secret in provided mode
    Proceed           301-338   a changed username joins the old roles, in memory
    Drop*            1207-1282  each old role on each engine; check, then drop
    StopOnOldRoles, GoFinalize, GoManageRoles, Finalize   204-221, 343-352
    RoleCreate, RoleAlter, RolePassword, RecordRole       857-940, 357-365
    RightsOn, RightsFail, RevokeOn                        643-756
    SecretOn, CleanOldSecrets, ManageSuccess              399-548, 1604-1630
    ManageError      1575-1602  patch of the status, end of the pass

`Unprovisioned` makes `REASSIGN OWNED BY x TO ""` and `GRANT ""` fail: a
database that was never provisioned has no roles in its status. Abstractions:

- A username is a pair of a prefix and a suffix, `-0` or `-1`; in provided mode
  the suffix is empty. `HasSuffix` and concatenation are about the pair.
- A random password is one that nothing uses. `Passwords` is large enough for
  one to exist in every run.
- Connection limit, replication and bypass RLS are one value. `diffAttributes`
  writes the difference, so the value afterwards is the one asked for.
- A session belongs to a role: when the role goes, `pg_stat_activity` no
  longer shows its name, so the session leaves `sess`.
- The privilege of a database has one generated secret, named after it.
- The rejections of `validateInstance` and `validateInstanceWithClusterInfo`
  are passes that end in `manageError` before any other write; they are left
  out. So are the checks for an empty username (302-308), that validation
  makes unreachable, and a REASSIGN OWNED that misses a database.

### PgDatabase and Database

`PgDatabase` describes one engine: group roles, those the operator is a member
of, and per name a database with its owner, schemas, one table and one type per
schema (enough for "somebody else owns an object here"), extensions, grants and
default privileges, and who has a session. A statement is a record; `Works`
says when PostgreSQL accepts it (a role that owns something cannot be dropped,
a database with sessions can be neither renamed nor dropped, `DROP SCHEMA`
without CASCADE wants it empty) and `After` what it leaves, the session of the
operator's own pool included. `Database` runs one worker over all
`PostgresqlDatabase` resources of the engine, as the controller does.

    Begin*                  130-215, 451-560   deletion, links, engine, finalizer
    RenameOldRole, CreateRole, GrantToOperator   717-874
    CloseOldPools, RenameBase, OwnBase           274-337
    *Extension*             667-715
    *Schema*, ReaderPrivileges ... OwnTypes      563-665
    SkipRole ... DropBase   339-449   manageDropDatabase
    ManageError, ManageSuccess, Finalize         876-932, 130-170

`Interrupted` is the end of `Reconcile` by deadline (or of the process) with a
statement on its way: it stays in `late` until it lands or is lost. `links` are
the user roles and publications that name the resource. `CreateDB` is never
reached, see `bug_missing_database`; databases are created by somebody else
and adopted. What a spec says of dropping modules that left the list, with or
without cascade, is one flag for schemas and extensions alike.

### Publication

`pubs` and `slots` are the publications of the database by name and the
replication slots (of this database and plugin, or somebody else's); `db` is
the `PostgresqlDatabase` the publication names: its phase, the owner role its
status names, and the role that owns the database by now, which differ while
the database controller renames it. A selection is all tables, schemas, tables
each with or without a filter, and parameters.

    Begin*                       128-224    deletion, validation, database, defaults
    FindPublication              226-281    lookup, hash
    IsReconcileOnPGNecessary     339-500    comparison with the engine
    CreatePublication, OwnNew    553-596    manageCreate, and the owner of what was made
    UpdatePublication            502-551    manageUpdate, one transaction
    ChangePublicationOwner       282-293
    ManageSlot                   295-324
    Drop*, Finalize              705-780, 147-159
    ManageSuccess, ManageError   326-337, 782-837

`IsReconcileOnPGNecessary` compares as the code does: parameters, then either
the schemas, by table names without their schema and one schema at a time, or
the tables, whose filters are compared as pointers. Columns are left out.

### EngineConfiguration

`secret`, `up`, `linked` are the secret's content, the addresses where an
engine answers and the databases linked to the resource. `cache` is what the
pool manager holds for this name in one step per lookup (`Connected`,
`LeadsTo`; `PoolManager` has the steps in between): credentials, and the
address each pool was opened at. Passes of other controllers connect through
it, at once (`Connect`) or with a copy they fetched earlier (`Fetch`,
`ConnectLate`). `since` records the databases linked after the running pass
looked for them.

    Begin*                            135-218   deletion, links, interval, hash, defaults
    ClosePools, ReadSecret, Ping      220-266
    CloseAll, Finalize                153-169
    ManageSuccess, ManageError        end of the pass

`host` stands for every field whose change must reach the pools. The last
validation is recent or older than the interval; an interval that is unset, a
duration, or unreadable.

### PoolManager and PoolCache

One step per `Load`, `Store`, `Delete` and `Close`. `storage` is the entry of
the engine's name in `poolManagerStorage`; `savs` are the `poolSaved`
structures, which goroutines keep hold of after they left the storage. `Range`
visits at least what was there when it started (`due`) and may visit what is
stored meanwhile, as `sync.Map` documents. `got` is the result of the last call
of a goroutine, until its next call. Each call comes with credentials of its
own, because the secret is read at the beginning of a pass and may have
changed. Closing an already closed `sql.DB` is not an error; `CloseErrors` says
whether the first `Close` of a pool may return one, and `failed` which did.

`PoolCache` has three variables: the credentials, the pools, and how many were
opened. Pools join a cache of their credentials, or start a new cache, or never
enter it; a pool that left does not come back. `ImplementsCache` maps the
structure in the storage to that cache. Pools outside the storage are not part
of it: that they are closed in the end is `NoLeakedPool`, which fails.

## 3. Properties

| Property | Says |
|---|---|
| `UserRole` | |
| `PublishedWorks` | when a pass reports Ready, every published secret opens its engine |
| `SecretsMatch` | ... and there is exactly one per privilege, for the current role |
| `NoOrphanRole` | ... and a login role that exists is current or remembered as old |
| `RightsMatch`, `SettingsMatch` | ... and memberships and default roles are those the privileges name |
| `NothingLeft` | a resource that is gone left no login role |
| `CurrentRoleKept` | the role of the work secret is not dropped, deletion aside |
| `LiveRoleUntouched` | no rotation changes the password of a role with sessions |
| `NoDropUnderSession`, `PublishedRoleKept` | a role with sessions, or one that a generated secret publishes, is not dropped (fail) |
| `EditsSettle` | once edits are over, memberships and secrets are for good those of the last edit, wherever in a pass it came |
| `Converges`, `ConvergesUnused`, `DeletionCompletes` | everything asked for ends up in place, old roles go, a deletion completes once applications left |
| `Database` | |
| `Provisioned` | when a pass reports Ready, owner, roles, schemas, grants, default privileges and extensions are in place |
| `ReadyInPlace` | what a status reports stays in place, whatever happens to the other resource |
| `NoOrphanGroupRole` | when a pass reports Ready, every group role is named by a status |
| `NothingLeft` | a resource deleted with its database leaves neither database nor group role |
| `DeletionCompletes` | once faults are over, a deletion whose database is still there removes the resource, wherever earlier drops were cut off |
| `Converges` | everything asked for ends up in place |
| `GetsCreated` | a database asked for comes into being (fails) |
| `Publication` | |
| `PublishedAsAsked` | when a pass reports Ready, publication, owner and slot are those asked for, whoever altered them before; the selection is, or the status says so and the comparison sees no difference, and where it is `Watched` there is none |
| `NoOrphanPublication` | ... and none is left under a former name |
| `NothingLeft` | a deletion leaves neither publication nor slot |
| `NoIdleUpdate` | a publication that is as asked for is not altered |
| `DeletionCompletes`, `Converges` | as above |
| `EngineConfiguration` | |
| `PoolsFollow` | once Ready for the spec as it is, no saved pool leads to a former address |
| `PingedAsAsked` | what was validated is the address and the credentials that were read, not a pool saved for others |
| `NoPoolLeft` | a deletion that waited for its databases leaves no pool |
| `WaitHonoured` | with the flag set when the resource goes, only databases linked after the check are left behind |
| `DeletionCompletes`, `Converges` | as above |
| `FailureNoticed` | an engine that is gone, or refuses the credentials, for good ends up not Ready although hash and pools say nothing changed |
| `PoolManager` | |
| `ReachableMatch` | pools in the storage have the credentials of their structure |
| `NoClosedPoolServed` | no closed pool is left to later calls, those whose Close returned an error apart |
| `NoLeakedPool` | an open pool can still be reached when every call has returned (fails) |
| `OwnCredentials` | a call gets a pool opened with its credentials (fails) |
| `ImplementsCache` | the shared maps behave as `PoolCache` |

The Ready properties look at the state just before the patch of
`manageSuccess`, where the pass has the last word on everything it wrote.
Exemptions are operators with a name and a comment: `Calm` (no failed call
between two names), `Smooth` (no pass fails after its first change), `Lost`
(the name in the status is gone from the engine), `Recovered` (no fault or stale
copy to come), `Refused` (the next pass must refuse), `Watched` and `Plain`
(what the comparison with the engine can see), `Straight` (no old copy and no
address that comes back). Each leaves out something that fails on the code; section 4
lists the traces.

## 4. Runs

Passing runs. Each is one question about one component, and its plans cover
the cases; a plan is written as edits + faults with their numbers.

| Run | Instance | Plans | States |
|---|---|---|---|
| `user_rotation` | 2 engines, 2 databases, clock 3 | 1 error or crash | 156 thousand |
| `user_recovers` | 1 engine, clock 3, import of 2 users and 2 passwords | rotation + 3 errors; 3 edits of generated or work secret + stale; provided mode, 1 edit of import or work secret | 82 thousand |
| `user_edits` | 2 databases on 1 engine, 2 prefixes | 2 edits of privileges, attributes, prefix + 1 error; 2 edits of privileges or deletion + stale, databases absent at first | 215 thousand |
| `pool` | 3 goroutines, 2 databases, 2 credentials, Close may fail | 4 calls | 1.6 million |
| `database` | 2 resources, 2 names, 1 master role, 2 schemas, 1 extension | twelve plans, up to 2 edits and 1 fault, among them: adoption with 2 edits of name or master; the same once provisioned; 1 edit or deletion + lost, late, failed statement or crash; sessions, reopened pools and links at a deletion; edits of the name and a deletion with stale copies; two resources side by side; adoption with 1 edit of schemas that stay when they leave the list + lost, late, failed statement or crash | 143 thousand |
| `publication` | 2 names, 3 slots, 3 tables in 2 schemas, 8 selections, 2 owners | eleven plans, up to 2 edits and 2 faults, with another publication or slot of that name at first in three of them | 41 thousand |
| `engine` | 2 addresses, 2 secrets (one refused), 2 databases, 1 client | five plans, up to 3 edits and 2 faults | 73 thousand |

Why the bounds are enough: a pass keeps nothing in memory for the next one, so
a fault or an edit matters through what it leaves in the stores for the next
passes; two of them reach every pair of leftovers. The suffix of a username
alternates between two values: with a clock of 3 the role `-0` is rotated out
and comes back. Two names and two addresses suffice for there and back, two
resources for one taking from the other. Four calls on the pool manager give a
first open, a change of credentials, a close and a late store. Deadlock is
checked everywhere.

Runs that end in a counterexample show where the code does not do what its
comments or documentation say; `PROJECT.json` quotes each under `findings`.

| Run | Trace, in short |
|---|---|
| `bug_rotation_stuck` | rotate, error before the new role is published; every later pass stops on the old role as long as it is in use |
| `bug_lost_password` | work secret regenerated, error, next pass does not write the password |
| `bug_settings` | privilege removed, its setting is reset on the group role |
| `bug_pool_leak` | two calls with different credentials: the second pool is unreachable |
| `bug_missing_database` | no database of that name: every pass fails asking whether it exists |

Other departures TLC finds on instances that no run keeps. "Without" names the
exemption or conjunct to take out of the property:

| Property | Plan | Trace, in short |
|---|---|---|
| `UserRole!LiveRoleUntouched` | rotation + 1 crash | rotate, crash; next period rotates back to the role in use and changes its password |
| `UserRole!PublishedWorks` | provided, 2 edits of the import | import `u/2`, `v/1`, `u/1` while `u` has sessions: `u` keeps password 2 |
| `UserRole!NothingLeft` | deletion + 1 error | CREATE ROLE, error, deletion: the role stays |
| the same | absent databases, 2 edits of the privileges, deletion | the privilege moves to a database that is absent: the deletion finds no engine to clean |
| the same | 2 engines, 1 edit of the privileges, deletion | the privilege on the second engine goes: the deletion does not look there |
| `UserRole!NoOrphanRole` | 2 engines, rotation, 1 edit of the privileges | likewise: the rotation drops the old role on the engine that is left only |
| `UserRole!PublishedWorks` | 2 engines, rotation, 2 edits of the privileges | ... and when the privilege and the username come back, the role has its former password |
| the same | rotation + 1 crash + 1 error | rotate, crash; next pass rotates back to the role in use with a new password, error; the next does not write it |
| `UserRole!NoOrphanRole` | rotation, 1 edit of the work secret | the username removed when `-1` is current: `-0` is made anew, and `-1` is not put among the old roles |
| `UserRole!CurrentRoleKept` | 2 edits of the prefix | prefix A, B, A with sessions on A: the current role is an old one too, and is dropped when they end |
| `UserRole!NoOrphanRole` | 1 edit of the prefix + 1 crash | prefix edited, crash after the work secret is renamed: the former role is forgotten |
| `UserRole!NoDropUnderSession` | rotation | session opened between the check and DROP ROLE |
| `UserRole!PublishedRoleKept` | rotation | the former role, without sessions, is dropped before the new one is created and the secrets are written |
| `UserRole!Converges` | rotation, 1 edit of the work secret | the work secret is replaced when `-1` is current: `-0` is then current and among the old roles |
| `PoolManager!OwnCredentials` | the run `pool` | a structure loaded for other credentials is closed, a goroutine that loaded it before stores its pool there, and the first one is served it |
| `Database!Converges` without `Lost` | 1 edit of the name + 1 crash | crash after RENAME: the status names a database that is gone, every pass fails |
| `Database!DeletionCompletes` without `Exists(pg, cr[r].name)` | deletion + 1 crash | crash after DROP DATABASE: asking whether it exists fails for ever |
| the same without `"stale" \notin faults.kinds` | deletion + 1 session, stale copies | the drop fails on the session, an old copy is read again: the database is dropped, the update that removes the finalizer conflicts, later passes fail |
| the same without both conditions on the name | name, deletion | the drop works on the new name, which is not there |
| `Database!NoOrphanGroupRole` without `Calm` | first pass, 1 edit of the name + 1 error | role created, error, name edited: the role is in no status |
| `Database!NothingLeft` | first pass, deletion + 1 error | CREATE ROLE, error, deletion: the status does not name the role, the drop skips it |
| `Database!Provisioned`, `ReadyInPlace` | 2 edits of the schemas + 1 timeout | schema off the list, its DROP CASCADE times out, schema back on the list; the DROP lands when the pass has just found it in place. `Converges` holds |
| `Database!ReadyInPlace`, `DeletionCompletes`, `Converges` | two resources with the same master role, one deleted | the drop reassigns what the role owns, the other database included, and fails for ever on its schemas |
| `Database!ReadyInPlace` | the same, master role of one edited | the shared role is renamed under the other |
| `Publication!Converges` without `Refused` | 1 edit of the name + 1 lost answer | renamed, answer lost: the former name is looked up, CREATE is refused for ever |
| the same | name and owner edited, no fault | the publication is renamed, then its owner is to be changed under the former name: the pass fails, and CREATE is refused for ever |
| `Publication!NoOrphanPublication` without `Calm` | 1 edit of the name + 1 crash | created, crash, name edited: the first one stays |
| the same | name and owner edited, no fault | created, owner role renamed so that ALTER OWNER fails, name edited: the first one stays |
| `Publication!NothingLeft` without the condition on the name | name, deletion | the drop goes by the new name |
| `Publication!NothingLeft`, all slots | slot, deletion | the former slot stays; so does it when the field is emptied before the deletion |
| `Publication!NoIdleUpdate` without `Plain` | none | a filter, or two schemas, is updated by every pass |
| `Publication!PublishedAsAsked` without `Watched` | schema and table selected, drift | a table that somebody takes out is not put back |
| the same | 2 edits of the selection + 1 lost answer, or an owner role renamed | a table added, the update goes through and the pass fails, the table taken back: hash and comparison see no difference, it stays published |
| `EngineConfiguration!PoolsFollow`, `PingedAsAsked` without `Straight` | address edited and edited back, or 1 edit + stale | a pool opened for the address in between, or with an old copy, stays behind an equal hash, and is what the ping tests |

The passing runs leave out exactly what these need. A property that fails in
one of these instances holds where the run says.

### Fairness

`FairSpec` adds, in the four reconciliation modules, weak fairness of a pass
(the manager resyncs every resource each minute by default, and
controller-runtime requeues a pass that returned an error) and strong fairness
of a pass that reads the stored copy (`BeginFresh`: the informer's watch
delivers, so passes cannot read stale copies for ever). In `Database` it is per
resource, since the work queue serves each. Weak fairness of the environment is
that of things that do happen by themselves: time, databases created and
provisioned, an engine becoming ready, the check interval going by, a session
ending (a client that reconnects for ever is still possible), pools whose
connections live a minute at most, linked resources being unlinked in the end,
a statement on its way landing or being lost. Edits, errors, crashes, outages
have no fairness, and databases linked to an engine configuration need not go:
`DeletionCompletes` there says what happens if they do. `ConvergesUnused` and
`UserRole!DeletionCompletes` assume in their statement that sessions end for
good, since code cannot make a role idle that applications keep using.

## 5. Proofs

The theorems hold for every value of the constants that meets the assumptions
in the modules (in particular no bound on edits, faults, time, calls,
goroutines, engines, addresses, secrets, databases).

- `UserRoleProofs!TypeCorrect`, `Spec => []TypeOK`. `TypeOK` is not inductive:
  `RoleCreate` needs the pass to hold a real username, and that comes from the
  work secret. `Held` adds that a pass past the work secret has a username and
  password in hand (`UserInHand`), that the databases in hand are databases
  (`DatabasesInHand`) and that what was published has a user
  (`PublishedUsers`).
- `UserRoleProofs!RotationKeepsTheCurrentRole`: if every plan is a
  `RotationPlan`, `Spec => CurrentRoleKept`. Such plans are in managed mode,
  without edits of the prefix or the work secret and without stale reads
  (privileges, attributes and generated secrets may be edited, databases
  appear, the resource be deleted, passes fail and crash, all without bound):
  no step drops the role of the work secret unless the pass deletes the
  resource. The inductive invariant `RInv` adds to `Held`: the budgets stay of
  these kinds (`RotationOnly`), the copy a pass works on agrees with the store
  (`Copies`), the username in hand is the one of the work secret
  (`WorkSecretKept`), and the old roles, stored, in memory and still to be
  examined, never contain it (`CurrentNotOld`). The rotation preserves the last
  part only because `RotationBlocked` refuses a username that is among the old
  ones; the mutant that drops this guard breaks the run. The departure with the
  prefix edited back shows that the assumption is needed.
- `UserRoleReadyProofs!ReadyWithItsRights`, `Spec => []RightsMatch`, without an
  assumption, and `ReadyWithItsSecrets`, `Spec => []SecretsMatch` when nobody
  deletes generated secrets (nothing writes them again between the deletion and
  the end of the pass). `ReadyInv` adds to `Held` what the running pass has
  brought about, position by position: all privileges it read are in its list
  (`AllPrivileges`), the role it works on has the memberships of the databases
  it is done with, and on the engines it is done with no others
  (`RightsInPlace`), and likewise the secrets (`SecretsInHand`). What earlier
  passes left is not in it, because a pass grants, revokes and writes anew.
- `UserRoleRotationProofs!NoRoleForgotten`, `Spec => []NoOrphanRole`, if every
  plan is a `RemembersPlan`: no edit of the work secret and no stale read;
  crashes only where there are rotations and no edit of the prefix; privileges
  edited only when all databases are on one engine. Its invariant `MInv` says
  for each login role that exists who remembers it (`Known`): the work secret or
  the old roles in the status between passes, the memory of the pass or its list
  of roles to examine meanwhile. After a crash between the work secret and the
  status it may be nobody. Then the rotation is still due (`Owed`), the next
  pass takes the role back into the work secret, since the two usernames
  alternate (`Alternates`), and the property holds at its success after all.
- `UserRoleRotationProofs!PublishedCredentialsOpen` and
  `RotationLeavesLiveRoles`, `Spec => []PublishedWorks` and `Spec =>
  LiveRoleUntouched`, if every plan is a `SteadyPlan`: a `RotationPlan` without
  crashes, one engine where privileges are edited. `SInv` adds to the two
  invariants `RInv` and `MInv` that the current role, where it exists, has the
  password of the work secret (`Clean`). This survives a rotation because the
  username that is taken up is nobody's: a role of that name would be known, so
  it would be an old one, and `RotationBlocked` refuses that.
- `UserRoleRotationProofs!DeletionLeavesNothing`, `Spec => []NothingLeft`, if
  nothing fails, nobody edits the work secret, and privileges are edited only
  with one engine whose databases exist from the beginning (`DeletionPlan`).
  `LInv` says that each role is in the status between passes (`Recorded`) and
  that the resource reaches its engine (`Reachable`), so that the deletion
  examines it.
- `DatabaseProofs!TypeCorrect`, `Spec => []TypeOK`. The invariant `TInv` says
  besides what a statement on the way names (`Sound`), since it takes effect
  when its pass is long over.
- `DatabaseProofs!SuccessIsProvisioned`, `Spec => []Provisioned`, if no plan has
  timeouts or crashes (`PromptPlans`; a late `DROP SCHEMA` is the departure).
  `PInv` is what the pass has put in place so far (`Placed`), role by role,
  extension by extension, schema by schema; `Keeps` is what every other step
  leaves of it. Other resources may ask for the same database.
- The first part of `DatabaseLifeProofs` is about plans without timeouts,
  crashes and stale reads (`PunctualPlans`, which also start from a sensible status). There every step
  has one of seven shapes (`StepShapes`), by which the invariants are proved.
  `NoGroupRoleForgotten`, `Spec => []NoOrphanGroupRole`, if also no call fails
  and every role at first is in a status (`RecordedPlans`): by `OInv` a group
  role is named by a status, by the memory of the pass, or is the one it has
  made and is about to record.
- `DatabaseLifeProofs!ReadyStaysInPlace`, `Spec => []ReadyInPlace`, calls may
  fail. It takes resources of which only one is ever used, or whose names
  differ in every role and are not edited (`SeparatePlans`; the departures with
  a shared master role show why), and statuses that are true at first
  (`StandingPlans`). `Standing` has what each resource was last read to ask for
  in place; `Spares` says of a step of another resource that it touches none of
  it.
- `DatabaseLifeProofs!DeletionLeavesNothing`, `Spec => []NothingLeft`, if no
  call fails, the resources are separate, and those that do not exist at first
  were not deleted with a finalizer (`AbsentPlans`, which only says that the
  scenario does not begin after the end). `Emptied` is what the running drop has
  dropped so far; that the status names every role it has to drop is `OInv`.
- The second part is about plans with any faults, in any number, in which
  nothing is renamed, removed or deleted (`AddingPlans`: resources with
  different names, edits of schemas and extensions only where they stay on the
  engine when they leave the list, and statuses that are true at first). There
  `AInv` holds: statuses, their stale copies and the memory of the pass say
  nothing that is not so (`Honest`), and a statement that is still on its way
  adds or hands a database to its own owner (`Additive`), so that it harms no
  pass whenever it lands (`LateSpared`). This gives `ProvisionedDespiteCrashes`,
  `Spec => []Provisioned`; `ReadyDespiteCrashes`, `Spec => []ReadyInPlace`; and
  `OnlyAdditions`, that every step lets the engine only grow (`Grows`). The
  restriction is needed: a `DROP SCHEMA` that lands late takes away what a
  later pass has made (see the departures). `NoGroupRoleForgottenInCrashes`,
  `Spec => []NoOrphanGroupRole`, also asks that one resource has the engine for
  itself (`SolePlans`), because a first pass of another resource that is cut off
  leaves roles that its status does not name yet.
- `PublicationProofs!TypeCorrect`, `Spec => []TypeOK`, which is inductive.
- `PublicationProofs!ReadyAsAsked`, `NoneOrphaned`, `NothingIsLeft`, `Spec =>
  []PublishedAsAsked`, `[]NoOrphanPublication` and `[]NothingLeft`, without an
  assumption on the plans, from `IInv`. `Life` and `Memory` say on which copies
  a pass works and that name and hash enter the status together; `OwnersKnown`,
  that a role which lost its name to the database controller owns nothing under
  that name; `Hand`, what the pass has brought about so far, position by
  position. These make owner and slot right at success. That the selection is,
  needs history: `OneSelection` where it is not edited, and where it is,
  `SmoothInv`: a pass that cannot fail after its first change keeps the hash in
  the status true (`HashTrue`, up to what others took away, `Drifted`) and the
  publication under one name (`Named`); to know that it cannot fail, the owner
  of every publication the status may name is the owner role (`SmoothPass`).
  `ComparisonFinds` then shows that a comparison without a difference is an
  equality. `Gone` keeps what a deletion has taken away from coming back.
- `PublicationProofs!NotAlteredAgain`, `Spec => NoIdleUpdate`, from `Memory` and
  `ComparisonRests`: a `Plain` selection never differs from itself.
- `EngineConfigurationProofs!TypeCorrect`, `Spec => []TypeOK`, which is
  inductive here: a cache without credentials has no pools, whoever changed it.
- `EngineConfigurationProofs!PoolsFollowTheSpec` and `PingedWhatWasAsked`,
  `Spec => []PoolsFollow` and `Spec => []PingedAsAsked`, from `HInv`. For a plan
  without stale copies and without an address that comes back (`Straight`; the
  departures show that both are needed) it orders the addresses: hash in the
  status and hash in memory <= the address the pass read <= the one in the spec
  (`NotAhead`), and each saved pool lies between both hashes and the spec
  (`NotBehind`). The order survives because a pass closes the pools before it
  takes the new hash into memory (`HashInMemory`), and because a pool that
  another controller opens leads to the spec as it is.
- `EngineConfigurationProofs!DatabasesAreWaitedFor`, `Spec => WaitHonoured`,
  from `WInv`: a pass that deletes found no database linked, so those there
  came later, and Finalize refuses a resource that is not the one that was read.
  It needs no assumption on stale copies.
- `EngineConfigurationProofs!NoPoolIsLeft`, `Spec => []NoPoolLeft`, from `NInv`:
  without new links no database is linked from the check to the end, and then
  only the pass itself could open a pool.
- `PoolManagerProofs!TypeCorrect`, `Spec => []TypeOK`.
- `PoolManagerProofs!ReachablePoolsMatch`, `Spec => []ReachableMatch`, from the
  invariant `IInv`, which adds `StoresMatch`: a goroutine about to store a
  pool in the structure that is in the storage has the credentials of that
  structure. A goroutine with other credentials has removed the structure
  before, and a structure that left the storage never comes back.
- `PoolManagerProofs!RefinesCache`, `Spec => ImplementsCache`, from the same
  invariant: `Fresh` is `Renew`; `OpenNew` is `Add` when the structure is still
  the one in the storage, by `StoresMatch` with the credentials of the cache,
  and `OpenApart` otherwise; deletions are `Remove` or, for a structure that
  left, nothing; `DeleteName` is `Clear`; all other steps stutter.
- `PoolManagerProofs!ClosedPoolsAreRemoved`, `~CloseErrors => (Spec =>
  []NoClosedPoolServed)`, from `CInv`: identities of pools are fresh
  (`Numbered`), each pool is in one structure at one database (`OnePlace`,
  `HeldPlace`), and for every closed pool that is still in the storage some
  goroutine is about to delete it (`ClosedInCharge`).

Every safety invariant and every action property of the passing runs is stated
by one of these theorems. Only model-checked are:

- liveness (`DeletionCompletes`, `Converges`, `ConvergesUnused`, `EditsSettle`,
  `FailureNoticed`), which is beyond the prover;
- `NoClosedPoolServed` with Close errors;
- those plans of the runs that a theorem leaves out. For `UserRole`: the
  plans with stale reads or edits of the work or import secret, in all but
  rights and secrets; provided mode and the single crash in `PublishedWorks`;
  databases that appear late in `NothingLeft`. For `Database`: timeouts,
  crashes and stale reads where something is renamed, removed or deleted;
  errors in `NothingLeft`, and in `NoOrphanGroupRole` where there are several
  resources or edits of names.

## 6. Plan

1. Proofs: `PublishedWorks` in provided mode; `NothingLeft` of `Database` with
   failed calls.
2. `UserRole` with two resources (prefix uniqueness) and with group roles that
   the database controller renames and drops.
3. The goroutine of a timed out pass that goes on beside the retry.
4. The provider variants of `postgres/aws.go` and `azure.go`.

## 7. Not modelled

- The AWS and Azure variants of the PG interface.
- The goroutine of a timed out pass beyond its statement on the way.
- `CreateDB`: unreachable in this code.
- The rejections of `validateInstance` and of identifiers that are too long:
  passes that end in `manageError` before any write.
- Lists of columns of a publication, and resources moved to another database or
  engine.
- Two user roles that share a prefix.
- Lookups, hashes, random strings as such; start-up and flags; API boilerplate;
  Helm charts, dashboards, CRD manifests and samples. They keep no state of
  their own.
