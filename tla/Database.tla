------------------------------ MODULE Database ------------------------------
(***************************************************************************)
(* The reconciliation of the PostgresqlDatabase resources of one engine    *)
(* (internal/controller/postgresql/postgresqldatabase_controller.go).  One *)
(* worker takes the resources in turn; a pass is a sequence of statements  *)
(* (see PgDatabase), and between two of them the administrator edits       *)
(* resources, other controllers open pools, applications come and go, a    *)
(* call fails, the process crashes, or the pass runs into its deadline     *)
(* while its statement is still on the way to the engine.                  *)
(***************************************************************************)
EXTENDS PgDatabase, Naturals, FiniteSets

CONSTANTS
    Resources,  \* PostgresqlDatabase resources
    Names,      \* values of spec.database
    Masters,    \* values of spec.masterRole, when it is set
    Schemas,    \* schemas a resource may list
    Extensions, \* extensions a resource may list
    Plans       \* the scenarios: resources, statuses and engine, edits, faults

Kinds == {"owner", "reader", "writer"}
NoMaster == ""
Roles == (Names \X Kinds) \union (Masters \X {"master"})

NoBase == [own |-> NoRole,
           schemas |-> [s \in Schemas |-> NoRole],
           tables |-> [s \in Schemas |-> NoRole],
           types |-> [s \in Schemas |-> NoRole],
           exts |-> {}, privs |-> {}, defaults |-> {}]

Links == {"user role", "publication"}
EditKinds == {"name", "master", "schemas", "extensions", "delete", "link", "objects",
              "engine"}
FaultKinds == {"error", "crash", "timeout", "stale", "reopen", "session"}
Budgets(K) == [kinds : SUBSET K, left : Nat]

Resource == [exists : BOOLEAN, deleting : BOOLEAN, finalizer : BOOLEAN,
             name : Names, master : Masters \union {NoMaster},
             drop : BOOLEAN, wait : BOOLEAN,
             schemas : SUBSET Schemas, exts : SUBSET Extensions,
             dropModules : BOOLEAN, cascade : BOOLEAN]

(* What the group role of a kind may be called.                            *)
RolesNamed(kind) ==
    (Names \X {kind}) \union (IF kind = "owner" THEN Masters \X {"master"} ELSE {})

Statuses == [phase : {"", "Created", "Failed"}, ready : BOOLEAN,
             db : Names \union {NoName},
             owner : RolesNamed("owner") \union {NoRole},
             reader : RolesNamed("reader") \union {NoRole},
             writer : RolesNamed("writer") \union {NoRole},
             schemas : SUBSET Schemas, exts : SUBSET Extensions]
Owners == Roles \union {NoRole, Operator, Outsider}
Bases == [own : Owners, schemas : [Schemas -> Owners], tables : [Schemas -> Owners],
          types : [Schemas -> Owners], exts : SUBSET Extensions,
          privs : SUBSET (Schemas \X Roles),
          defaults : SUBSET (Roles \X Schemas \X Roles)]
EngineStates == [roles : SUBSET Roles, member : SUBSET Roles, base : [Names -> Bases],
                 sessions : SUBSET Names, apps : SUBSET Names]

ASSUME ResourcesAssumption == Resources # {}
ASSUME NamesAssumption == NoName \notin Names /\ NoMaster \notin Masters
ASSUME SchemasAssumption == Public \in Schemas /\ NoName \notin Schemas \union Extensions
ASSUME PlansAssumption ==
    \A plan \in Plans :
        /\ plan.cr \in [Resources -> Resource]
        /\ plan.st \in [Resources -> Statuses]
        /\ plan.pg \in EngineStates
        /\ \A n \in plan.pg.sessions \union plan.pg.apps : Exists(plan.pg, n)
        /\ plan.edits \in Budgets(EditKinds)
        /\ plan.faults \in Budgets(FaultKinds)

VARIABLES
    cr,     \* resource -> its spec and metadata, as stored
    st,     \* resource -> its status subresource, as stored
    links,  \* resource -> what else refers to it
    engine, \* the engine configuration: "pending", "ready" or "gone"
    pg,     \* the engine (see PgDatabase)
    late,   \* a statement whose pass is over, or Nothing
    read,   \* resource -> what the last pass on it read
    mem,    \* the status in the memory of the running pass
    w,      \* the position and the local variables of the running pass
    edits,  \* the kinds of edits made, and how many are left
    faults  \* the kinds of faults, and how many are left

clusterVars == <<cr, links, engine>>
boundVars == <<edits, faults>>
vars == <<cr, st, links, engine, pg, late, read, mem, w, edits, faults>>

-----------------------------------------------------------------------------
(* Values.                                                                 *)

NoStatus == [phase |-> "", ready |-> FALSE, db |-> NoName,
             owner |-> NoRole, reader |-> NoRole, writer |-> NoRole,
             schemas |-> {}, exts |-> {}]

NoPass == [pc |-> "idle", r |-> CHOOSE r \in Resources : TRUE, kind |-> "owner",
           todo |-> {}, item |-> NoName]

(* Mutant: the name of the owner role does not tell databases apart.       *)
RoleForShared(c, kind) ==
    IF kind = "owner" THEN <<CHOOSE n \in Names : TRUE, "owner">> ELSE <<c.name, kind>>

RoleFor(c, kind) ==
    IF kind = "owner" /\ c.master # NoMaster THEN <<c.master, "master">>
    ELSE <<c.name, kind>>

(* updateInstance: no schema means the schema public.                      *)
ListedSchemas(c) == IF c.schemas = {} THEN {Public} ELSE c.schemas

Run(s) == After(pg, s, NoBase)

-----------------------------------------------------------------------------
(* Status writes: the fields that differ from the copy that was read.      *)

Merged(o, m, stored) == IF m = o THEN stored ELSE m

StatusPatch(r, o, m) ==
    IF ~cr[r].exists THEN st
    ELSE [st EXCEPT ![r] = [f \in DOMAIN @ |-> Merged(o[f], m[f], @[f])]]

EndPass == mem' = NoStatus /\ w' = NoPass

ManageError(r, o, m) ==
    /\ st' = StatusPatch(r, o, [m EXCEPT !.ready = FALSE, !.phase = "Failed"])
    /\ EndPass

(* The running pass ends in manageError.                                   *)
Stop == ManageError(w.r, read[w.r].st, mem)

HasFault(kind) == kind \in faults.kinds /\ faults.left > 0
Spend(budget) == [budget EXCEPT !.left = @ - 1]

(* The deadline passes, or the process stops, before the engine answered:  *)
(* the statement may still take effect.                                    *)
Interrupted(s) ==
    /\ late = Nothing
    /\ late' = s
    /\ faults' = Spend(faults)
    /\ \/ HasFault("timeout") /\ Stop
       \/ HasFault("crash") /\ EndPass /\ UNCHANGED st
    /\ UNCHANGED <<clusterVars, pg, read, edits>>

(* One statement of the running pass.                                      *)
Execute(s, status, next) ==
    \/ /\ Works(pg, s)
       /\ pg' = Run(s)
       /\ mem' = status
       /\ w' = next
       /\ UNCHANGED <<clusterVars, st, late, read, boundVars>>
    \/ /\ ~Works(pg, s)
       /\ Stop
       /\ UNCHANGED <<clusterVars, pg, late, read, boundVars>>
    \/ s # Nothing /\ Interrupted(s)

Quietly(status, next) ==
    /\ mem' = status
    /\ w' = next
    /\ UNCHANGED <<clusterVars, st, pg, late, read, boundVars>>

Reject ==
    /\ Stop
    /\ UNCHANGED <<clusterVars, pg, late, read, boundVars>>

At(position) == w.pc = position
Goto(position) == [w EXCEPT !.pc = position]
Asked == read[w.r].cr
Wanted == RoleFor(Asked, w.kind)

(* CloseDatabaseSavedPoolsForName                                          *)
Closed(n) == [pg EXCEPT !.sessions = @ \ {n}]

-----------------------------------------------------------------------------
(* The start of a pass: the copy read from the cache decides.              *)

Stored(r) == [cr |-> cr[r], st |-> st[r]]
CacheCopies(r) == {Stored(r)} \union (IF "stale" \in faults.kinds THEN {read[r]} ELSE {})

Read(r, copy) ==
    /\ At("idle")
    /\ read' = [read EXCEPT ![r] = copy]
    /\ UNCHANGED <<links, engine, late, boundVars>>

(* The first step of the pass that goes on.                                *)
Start(r, copy, position) ==
    /\ mem' = copy.st
    /\ w' = [NoPass EXCEPT !.pc = position, !.r = r]

BeginNotFound(r, copy) ==
    /\ Read(r, copy)
    /\ ~copy.cr.exists
    /\ UNCHANGED <<cr, st, pg, mem, w>>

Deleting(copy) == copy.cr.exists /\ copy.cr.deleting
HeldBack(r, copy) == copy.cr.wait /\ links[r] # {}

BeginWaitLinked(r, copy) ==
    /\ Read(r, copy)
    /\ Deleting(copy) /\ HeldBack(r, copy)
    /\ ManageError(r, copy.st, copy.st)
    /\ UNCHANGED <<cr, pg>>

BeginDrop(r, copy) ==
    /\ Read(r, copy)
    /\ Deleting(copy) /\ ~HeldBack(r, copy)
    /\ copy.cr.drop
    /\ Start(r, copy, IF engine = "gone" THEN "finalize" ELSE "drop owned")
    /\ UNCHANGED <<cr, st, pg>>

BeginKeep(r, copy) ==
    /\ Read(r, copy)
    /\ Deleting(copy) /\ ~HeldBack(r, copy)
    /\ ~copy.cr.drop
    /\ pg' = Closed(copy.cr.name)
    /\ Start(r, copy, "finalize")
    /\ UNCHANGED <<cr, st>>

Living(copy) == copy.cr.exists /\ ~copy.cr.deleting
Waits(copy) == copy.st.phase = "" /\ engine = "pending"

BeginNoEngine(r, copy) ==
    /\ Read(r, copy)
    /\ Living(copy) /\ engine = "gone"
    /\ ManageError(r, copy.st, copy.st)
    /\ UNCHANGED <<cr, pg>>

BeginWait(r, copy) ==
    /\ Read(r, copy)
    /\ Living(copy) /\ Waits(copy)
    /\ UNCHANGED <<cr, st, pg, mem, w>>

(* The update carries the resource version that was read.                  *)
BeginFinalizer(r, copy) ==
    /\ Read(r, copy)
    /\ Living(copy) /\ engine # "gone" /\ ~Waits(copy)
    /\ ~copy.cr.finalizer
    /\ UNCHANGED pg
    /\ IF copy = Stored(r)
       THEN /\ cr' = [cr EXCEPT ![r].finalizer = TRUE, ![r].schemas = ListedSchemas(cr[r])]
            /\ UNCHANGED <<st, mem, w>>
       ELSE ManageError(r, copy.st, copy.st) /\ UNCHANGED cr

BeginWork(r, copy) ==
    /\ Read(r, copy)
    /\ Living(copy) /\ engine # "gone" /\ ~Waits(copy)
    /\ copy.cr.finalizer
    /\ Start(r, copy, "rename role")
    /\ UNCHANGED <<cr, st, pg>>

-----------------------------------------------------------------------------
(* manageOwnerRole, manageReaderRole and manageWriterRole.  The check that *)
(* decides on a statement is one step with it: only a late statement could *)
(* come in between, and then the statement fails or is not needed.         *)

(* Mutants: the old role is left alone; it is renamed without a look at    *)
(* the engine.                                                             *)
RenameOldRoleNot ==
    /\ At("rename role")
    /\ Quietly(mem, Goto("create role"))
RenameOldRoleAlways ==
    /\ At("rename role")
    /\ Execute(IF mem[w.kind] \notin {NoRole, Wanted}
               THEN RenameRole(mem[w.kind], Wanted) ELSE Nothing,
               mem, Goto("create role"))

RenameOldRole ==
    /\ At("rename role")
    /\ Execute(IF IsRoleExist(pg, mem[w.kind]) /\ mem[w.kind] # Wanted
               THEN RenameRole(mem[w.kind], Wanted) ELSE Nothing,
               mem, Goto("create role"))

CreateRole ==
    /\ At("create role")
    /\ Execute(IF IsRoleExist(pg, Wanted) THEN Nothing ELSE CreateGroupRole(Wanted),
               mem, Goto("grant role"))

AfterGrant ==
    CASE w.kind = "owner" -> Goto("close old")
      [] w.kind = "reader" -> [Goto("rename role") EXCEPT !.kind = "writer"]
      [] w.kind = "writer" -> Goto("extensions")

GrantToOperator ==
    /\ At("grant role")
    /\ Execute(GrantRole(Wanted), [mem EXCEPT ![w.kind] = Wanted], AfterGrant)

-----------------------------------------------------------------------------
(* manageDBCreationOrUpdate.  IsDatabaseExist returns an error, never      *)
(* false, when there is no such database (GetDatabaseOwner wants exactly   *)
(* one row): CreateDB is never called.                                     *)

CloseOldPools ==
    /\ At("close old")
    /\ \/ /\ mem.db \in {NoName, Asked.name}
          /\ mem.db # NoName => Exists(pg, mem.db)
          /\ Quietly(mem, Goto("own base"))
       \/ /\ mem.db \notin {NoName, Asked.name}
          /\ Exists(pg, mem.db)
          /\ pg' = Closed(mem.db)
          /\ w' = Goto("rename base")
          /\ UNCHANGED <<clusterVars, st, late, read, mem, boundVars>>
       \/ /\ mem.db # NoName
          /\ ~Exists(pg, mem.db)
          /\ Reject

RenameBase ==
    /\ At("rename base")
    /\ Execute(RenameDatabase(mem.db, Asked.name), mem, Goto("own base"))

OwnBase ==
    /\ At("own base")
    /\ \/ /\ Exists(pg, Asked.name)
          /\ Execute(IF pg.base[Asked.name].own = mem.owner THEN Nothing
                     ELSE ChangeDBOwner(Asked.name, mem.owner),
                     [mem EXCEPT !.db = Asked.name],
                     [Goto("rename role") EXCEPT !.kind = "reader"])
       \/ ~Exists(pg, Asked.name) /\ Reject

-----------------------------------------------------------------------------
(* manageExtensions and manageSchemas: first the modules that left the     *)
(* list, if they are to be dropped, then those of the list.                *)

Base == pg.base[Asked.name]
Removed(known, listed) == IF Asked.dropModules THEN known \ listed ELSE {}
Kept(known, listed) == IF Asked.dropModules THEN known \intersect listed ELSE known

ToExtensions == [Goto("drop extensions") EXCEPT !.todo = Removed(mem.exts, Asked.exts)]
ToSchemas == [Goto("drop schemas") EXCEPT
                !.todo = Removed(mem.schemas, ListedSchemas(Asked))]

GoExtensions ==
    /\ At("extensions")
    /\ Quietly(mem, ToExtensions)

DropOneExtension(x) ==
    /\ At("drop extensions") /\ x \in w.todo
    /\ Execute(DropExtension(Asked.name, x), mem, [w EXCEPT !.todo = @ \ {x}])

ListExtensions ==
    /\ At("drop extensions") /\ w.todo = {}
    /\ Execute(ListIn(Asked.name),
               [mem EXCEPT !.exts = Kept(@, Asked.exts)],
               [Goto("create extensions") EXCEPT !.todo = Asked.exts])

CreateOneExtension(x) ==
    /\ At("create extensions") /\ x \in w.todo
    /\ Execute(IF x \in Base.exts THEN Nothing ELSE CreateExtension(Asked.name, x),
               [mem EXCEPT !.exts = @ \union {x}],
               [w EXCEPT !.todo = @ \ {x}])

GoSchemas ==
    /\ At("create extensions") /\ w.todo = {}
    /\ Quietly(mem, ToSchemas)

DropOneSchema(s) ==
    /\ At("drop schemas") /\ s \in w.todo
    /\ Execute(DropSchema(Asked.name, s, Asked.cascade), mem, [w EXCEPT !.todo = @ \ {s}])

ListSchema ==
    /\ At("drop schemas") /\ w.todo = {}
    /\ Execute(ListIn(Asked.name),
               [mem EXCEPT !.schemas = Kept(@, ListedSchemas(Asked))],
               [Goto("create schemas") EXCEPT !.todo = ListedSchemas(Asked)])

(* Mutant: the schema is not handed on to the steps that follow.           *)
CreateOneSchemaUnnamed(s) ==
    /\ At("create schemas") /\ s \in w.todo
    /\ Quietly(mem, Goto("reader privileges"))

CreateOneSchema(s) ==
    /\ At("create schemas") /\ s \in w.todo
    /\ Execute(IF Base.schemas[s] # NoRole THEN Nothing
               ELSE CreateSchema(Asked.name, mem.owner, s),
               mem, [Goto("reader privileges") EXCEPT !.item = s])

ReaderPrivileges ==
    /\ At("reader privileges")
    /\ Execute(SetSchemaPrivileges(Asked.name, mem.owner, mem.reader, w.item),
               mem, Goto("writer privileges"))

(* Mutant: the privileges of the reader a second time.                     *)
WriterPrivilegesOfReader ==
    /\ At("writer privileges")
    /\ Execute(SetSchemaPrivileges(Asked.name, mem.owner, mem.reader, w.item),
               mem, Goto("tables"))

WriterPrivileges ==
    /\ At("writer privileges")
    /\ Execute(SetSchemaPrivileges(Asked.name, mem.owner, mem.writer, w.item),
               mem, Goto("tables"))

OwnTables ==
    /\ At("tables")
    /\ Execute(IF Base.tables[w.item] \in {NoRole, mem.owner} THEN ListIn(Asked.name)
               ELSE ChangeTableOwner(Asked.name, mem.owner),
               mem, Goto("types"))

OwnTypes ==
    /\ At("types")
    /\ Execute(IF Base.types[w.item] \in {NoRole, mem.owner} THEN ListIn(Asked.name)
               ELSE ChangeTypeOwnerInSchema(Asked.name, w.item, mem.owner),
               [mem EXCEPT !.schemas = @ \union {w.item}],
               [Goto("create schemas") EXCEPT !.todo = @ \ {w.item}, !.item = NoName])

GoSuccess ==
    /\ At("create schemas") /\ w.todo = {}
    /\ Quietly(mem, Goto("success"))

ManageSuccess ==
    /\ At("success")
    /\ st' = StatusPatch(w.r, read[w.r].st,
                         [mem EXCEPT !.ready = TRUE, !.phase = "Created"])
    /\ EndPass
    /\ UNCHANGED <<clusterVars, pg, late, read, boundVars>>

-----------------------------------------------------------------------------
(* manageDropDatabase: the roles first, owner, writer, reader.             *)

(* Mutant: the writer role is left out.                                    *)
AfterDropNoWriter ==
    IF w.kind = "owner" THEN [Goto("drop owned") EXCEPT !.kind = "reader"] ELSE Goto("close")

AfterDrop ==
    CASE w.kind = "owner" -> [Goto("drop owned") EXCEPT !.kind = "writer"]
      [] w.kind = "writer" -> [Goto("drop owned") EXCEPT !.kind = "reader"]
      [] w.kind = "reader" -> Goto("close")

Forgotten == [mem EXCEPT ![w.kind] = NoRole]

SkipRole ==
    /\ At("drop owned")
    /\ ~IsRoleExist(pg, mem[w.kind])
    /\ Quietly(Forgotten, AfterDrop)

DropOwned ==
    /\ At("drop owned")
    /\ IsRoleExist(pg, mem[w.kind])
    /\ Execute(ChangeAndDropOwnedBy(mem[w.kind], Asked.name), mem, Goto("drop role"))

DropGroupRole ==
    /\ At("drop role")
    /\ Execute(DropRole(mem[w.kind]), Forgotten, AfterDrop)

ClosePools ==
    /\ At("close")
    /\ pg' = Closed(Asked.name)
    /\ w' = Goto("drop base")
    /\ UNCHANGED <<clusterVars, st, late, read, mem, boundVars>>

DropBase ==
    /\ At("drop base")
    /\ \/ /\ Exists(pg, Asked.name)
          /\ Execute(DropDatabase(Asked.name), mem, Goto("finalize"))
       \/ ~Exists(pg, Asked.name) /\ Reject

(* Mutant: the finalizer is removed from the copy in memory alone.         *)
FinalizeInMemory ==
    /\ At("finalize")
    /\ EndPass
    /\ UNCHANGED <<clusterVars, st, pg, late, read, boundVars>>

(* The finalizer is removed and the resource goes.                         *)
Finalize ==
    /\ At("finalize")
    /\ IF read[w.r] = Stored(w.r)
       THEN /\ cr' = [cr EXCEPT ![w.r].exists = FALSE]
            /\ EndPass
            /\ UNCHANGED <<st, links, engine>>
       ELSE Stop /\ UNCHANGED clusterVars
    /\ UNCHANGED <<pg, late, read, boundVars>>

-----------------------------------------------------------------------------
(* Faults.                                                                 *)

(* A call returns an error.                                                *)
Fail ==
    /\ HasFault("error")
    /\ w.pc \notin {"idle", "success"}
    /\ faults' = Spend(faults)
    /\ Stop
    /\ UNCHANGED <<clusterVars, pg, late, read, edits>>

(* The process stops between two statements, or its last patch fails.      *)
Crash ==
    /\ HasFault("crash")
    /\ w.pc # "idle"
    /\ faults' = Spend(faults)
    /\ EndPass
    /\ UNCHANGED <<clusterVars, st, pg, late, read, edits>>

LateLands ==
    /\ late # Nothing
    /\ Works(pg, late)
    /\ pg' = Run(late)
    /\ late' = Nothing
    /\ UNCHANGED <<clusterVars, st, read, mem, w, boundVars>>

LateLost ==
    /\ late # Nothing
    /\ late' = Nothing
    /\ UNCHANGED <<clusterVars, st, pg, read, mem, w, boundVars>>

-----------------------------------------------------------------------------
(* The rest of the cluster: the administrator, other controllers,          *)
(* applications.                                                           *)

Engine(g) ==
    /\ pg' = g
    /\ UNCHANGED <<clusterVars, st, late, read, mem, w, edits>>

(* A user role or publication pass connects to the database.               *)
Reopen(n) ==
    /\ HasFault("reopen") /\ Exists(pg, n) /\ n \notin pg.sessions
    /\ faults' = Spend(faults)
    /\ Engine([pg EXCEPT !.sessions = @ \union {n}])

(* Connections live for a minute at most.                                  *)
Expire(n) ==
    /\ n \in pg.sessions
    /\ Engine([pg EXCEPT !.sessions = @ \ {n}])
    /\ UNCHANGED faults

Connect(n) ==
    /\ HasFault("session") /\ Exists(pg, n) /\ n \notin pg.apps
    /\ faults' = Spend(faults)
    /\ Engine([pg EXCEPT !.apps = @ \union {n}])

Disconnect(n) ==
    /\ n \in pg.apps
    /\ Engine([pg EXCEPT !.apps = @ \ {n}])
    /\ UNCHANGED faults

Edit(kind) ==
    /\ kind \in edits.kinds /\ edits.left > 0
    /\ edits' = Spend(edits)
    /\ UNCHANGED <<st, late, read, mem, w, faults>>

EditSpec(r, kind, c) ==
    /\ Edit(kind)
    /\ cr[r].exists /\ ~cr[r].deleting
    /\ c # cr[r]
    /\ cr' = [cr EXCEPT ![r] = c]
    /\ UNCHANGED <<links, engine, pg>>

SetName(r, n) == EditSpec(r, "name", [cr[r] EXCEPT !.name = n])
SetMaster(r, m) == EditSpec(r, "master", [cr[r] EXCEPT !.master = m])
SetSchemas(r, S) == EditSpec(r, "schemas", [cr[r] EXCEPT !.schemas = S])
SetExtensions(r, X) == EditSpec(r, "extensions", [cr[r] EXCEPT !.exts = X])

(* Without a finalizer the resource is gone at once.                       *)
DeleteResource(r) ==
    EditSpec(r, "delete", [cr[r] EXCEPT !.deleting = TRUE, !.exists = cr[r].finalizer])

Link(r, kind) ==
    /\ Edit("link")
    /\ links' = [links EXCEPT ![r] = @ \union {kind}]
    /\ UNCHANGED <<cr, engine, pg>>

Unlink(r, kind) ==
    /\ kind \in links[r]
    /\ links' = [links EXCEPT ![r] = @ \ {kind}]
    /\ UNCHANGED <<cr, st, engine, pg, late, read, mem, w, boundVars>>

(* An application creates a table and a type with a role of its own.       *)
AddObjects(n, s) ==
    /\ Edit("objects")
    /\ pg.base[n].schemas[s] # NoRole
    /\ pg' = [pg EXCEPT !.base[n].tables[s] = Outsider, !.base[n].types[s] = Outsider]
    /\ UNCHANGED clusterVars

RemoveEngine ==
    /\ Edit("engine")
    /\ engine' = "gone"
    /\ UNCHANGED <<cr, links, pg>>

EngineReady ==
    /\ engine = "pending"
    /\ engine' = "ready"
    /\ UNCHANGED <<cr, st, links, pg, late, read, mem, w, boundVars>>

-----------------------------------------------------------------------------
Init ==
    /\ \E plan \in Plans :
         /\ cr = plan.cr
         /\ st = plan.st
         /\ pg = plan.pg
         /\ edits = plan.edits
         /\ faults = plan.faults
    /\ links = [r \in Resources |-> {}]
    /\ engine = "pending"
    /\ late = Nothing
    /\ read = [r \in Resources |-> Stored(r)]
    /\ mem = NoStatus
    /\ w = NoPass

BeginWith(r, copy) ==
    \/ BeginNotFound(r, copy)
    \/ BeginWaitLinked(r, copy)
    \/ BeginDrop(r, copy)
    \/ BeginKeep(r, copy)
    \/ BeginNoEngine(r, copy)
    \/ BeginWait(r, copy)
    \/ BeginFinalizer(r, copy)
    \/ BeginWork(r, copy)

Begin == \E r \in Resources : \E copy \in CacheCopies(r) : BeginWith(r, copy)

ManageRoles == RenameOldRole \/ CreateRole \/ GrantToOperator
ManageBase == CloseOldPools \/ RenameBase \/ OwnBase
ManageExtensions ==
    \/ GoExtensions
    \/ \E x \in Extensions : DropOneExtension(x) \/ CreateOneExtension(x)
    \/ ListExtensions
    \/ GoSchemas
ManageSchemas ==
    \/ \E s \in Schemas : DropOneSchema(s) \/ CreateOneSchema(s)
    \/ ListSchema
    \/ ReaderPrivileges
    \/ WriterPrivileges
    \/ OwnTables
    \/ OwnTypes
    \/ GoSuccess
    \/ ManageSuccess
ManageDrop == SkipRole \/ DropOwned \/ DropGroupRole \/ ClosePools \/ DropBase \/ Finalize

Pass == Begin \/ ManageRoles \/ ManageBase \/ ManageExtensions \/ ManageSchemas \/ ManageDrop

Faulty ==
    \/ Fail
    \/ Crash
    \/ LateLands
    \/ LateLost
    \/ \E n \in Names : Reopen(n) \/ Connect(n)

Environment ==
    \/ \E r \in Resources :
         \/ \E n \in Names : SetName(r, n)
         \/ \E m \in Masters \union {NoMaster} : SetMaster(r, m)
         \/ \E S \in SUBSET Schemas : SetSchemas(r, S)
         \/ \E X \in SUBSET Extensions : SetExtensions(r, X)
         \/ DeleteResource(r)
         \/ \E kind \in Links : Link(r, kind) \/ Unlink(r, kind)
    \/ \E n \in Names : Expire(n) \/ Disconnect(n)
    \/ \E n \in Names, s \in Schemas : AddObjects(n, s)
    \/ RemoveEngine
    \/ EngineReady

Next == Pass \/ Faulty \/ Environment

Spec == Init /\ [][Next]_vars

(* The watch delivers in the end: a pass reads the stored copy.            *)
BeginFresh(r) == BeginWith(r, Stored(r))

(* The manager resyncs every resource and retries a pass that failed;      *)
(* sessions end, linked resources get deleted, the engine configuration    *)
(* becomes ready.                                                          *)
Fairness ==
    /\ WF_vars(Pass)
    /\ \A r \in Resources : SF_vars(BeginFresh(r))
    /\ \A n \in Names : WF_vars(Expire(n)) /\ WF_vars(Disconnect(n))
    /\ \A r \in Resources, kind \in Links : WF_vars(Unlink(r, kind))
    /\ WF_vars(LateLands \/ LateLost)
    /\ WF_vars(EngineReady)

FairSpec == Spec /\ Fairness

-----------------------------------------------------------------------------
(* Properties.                                                             *)

Positions == {"idle", "rename role", "create role", "grant role", "close old",
              "rename base", "own base", "extensions", "drop extensions",
              "create extensions", "drop schemas", "create schemas",
              "reader privileges", "writer privileges", "tables", "types", "success",
              "drop owned", "drop role", "close", "drop base", "finalize"}

Passes == [pc : Positions, r : Resources, kind : Kinds,
           todo : SUBSET (Schemas \union Extensions), item : Schemas \union {NoName}]
Statements == [op : Operations, role : Owners, to : Owners, base : Names \union {NoName},
               item : Names \union Schemas \union Extensions \union {NoName}]

(* Every variable keeps its type, no session is on a database that does    *)
(* not exist, and a step that works on a schema has one at hand.           *)
TypeOK ==
    /\ cr \in [Resources -> Resource]
    /\ st \in [Resources -> Statuses]
    /\ links \in [Resources -> SUBSET Links]
    /\ engine \in {"pending", "ready", "gone"}
    /\ pg \in EngineStates
    /\ \A n \in pg.sessions \union pg.apps : Exists(pg, n)
    /\ late \in Statements
    /\ read \in [Resources -> [cr : Resource, st : Statuses]]
    /\ mem \in Statuses
    /\ w \in Passes
    /\ w.pc \in {"reader privileges", "writer privileges", "tables", "types"}
         => w.item \in Schemas
    /\ edits \in Budgets(EditKinds)
    /\ faults \in Budgets(FaultKinds)

(* What a resource asks for is in place on the engine.                     *)
InPlace(c) ==
    LET b == pg.base[c.name]
        owner == RoleFor(c, "owner")
    IN  /\ b.own = owner
        /\ \A kind \in Kinds : RoleFor(c, kind) \in pg.roles \intersect pg.member
        /\ c.exts \subseteq b.exts
        /\ \A s \in ListedSchemas(c), kind \in {"reader", "writer"} :
             /\ b.schemas[s] # NoRole
             /\ <<s, RoleFor(c, kind)>> \in b.privs
             /\ <<owner, s, RoleFor(c, kind)>> \in b.defaults

(* When a pass is about to report Ready, everything its resource asks for  *)
(* is in place.                                                            *)
Provisioned == At("success") => InPlace(Asked)

(* The roles a status names.                                               *)
RolesOf(s) == {s.owner, s.reader, s.writer}

(* No call fails between two edits of a name.                              *)
Calm ==
    \/ faults.kinds \intersect {"error", "crash", "timeout"} = {}
    \/ edits.kinds \intersect {"name", "master"} = {}

(* ... and every group role on the engine is named by a status.            *)
NoOrphanGroupRole ==
    (At("success") /\ Calm) => pg.roles \subseteq
        RolesOf(mem) \union UNION {RolesOf(st[r]) : r \in Resources \ {w.r}}

(* The last pass read the resource as it now is, and the status says that  *)
(* it has been provisioned.                                                *)
Reported(r) ==
    /\ At("idle") \/ w.r # r
    /\ cr[r].exists /\ ~cr[r].deleting /\ st[r].ready
    /\ st[r].db = cr[r].name
    /\ \A kind \in Kinds : st[r][kind] = RoleFor(cr[r], kind)
    /\ read[r].cr = cr[r]
    /\ ListedSchemas(cr[r]) \subseteq st[r].schemas
    /\ cr[r].exts \subseteq st[r].exts

(* What a status reports stays in place, whatever happens to the other     *)
(* resources.                                                              *)
ReadyInPlace == \A r \in Resources : Reported(r) => InPlace(cr[r])

(* A resource that was deleted with its database leaves neither the        *)
(* database nor a group role.                                              *)
NothingLeft ==
    \A r \in Resources :
        (~cr[r].exists /\ cr[r].finalizer /\ cr[r].drop /\ engine # "gone") =>
            /\ ~Exists(pg, cr[r].name)
            /\ \A kind \in Kinds : RoleFor(cr[r], kind) \notin pg.roles

(* No pass is cut off, fails or reads an old copy from now on, and no      *)
(* statement of an earlier one is on its way.                              *)
Recovered ==
    /\ late = Nothing
    /\ "stale" \notin faults.kinds
    /\ faults.left = 0 \/ faults.kinds \intersect {"error", "crash", "timeout"} = {}

(* A deletion that was asked for once the name had been applied completes: *)
(* the finalizer goes and the resource with it, although earlier drops     *)
(* were cut off anywhere before the database was gone, pools are opened    *)
(* again and applications connect in between.                              *)
DeletionCompletes ==
    \A r \in Resources :
        (/\ cr[r].deleting /\ st[r].db = cr[r].name
         /\ Exists(pg, cr[r].name) /\ Recovered) ~> ~cr[r].exists

(* The database the next pass would start from is not there: the pass      *)
(* fails, and so does every later one.                                     *)
Lost(r) == ~Exists(pg, IF st[r].db = NoName THEN cr[r].name ELSE st[r].db)

Healthy(r) == st[r].ready /\ InPlace(cr[r])

(* Once edits and faults are over, everything asked for is in place,       *)
(* unless the status names a database that is no longer there.             *)
Converges ==
    \A r \in Resources :
        \/ []<>(~cr[r].exists \/ cr[r].deleting \/ engine = "gone")
        \/ []<>Lost(r)
        \/ <>[]Healthy(r)

(* What README.md and the comment above manageDBCreationOrUpdate promise:  *)
(* a database that is asked for and that is not there is created.          *)
GetsCreated ==
    \A r \in Resources :
        (cr[r].exists /\ ~cr[r].deleting) ~>
            (Exists(pg, cr[r].name) \/ cr[r].deleting \/ engine = "gone")
=============================================================================
