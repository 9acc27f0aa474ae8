---------------------------- MODULE Publication ----------------------------
(***************************************************************************)
(* The reconciliation of one PostgresqlPublication resource (internal/     *)
(* controller/postgresql/postgresqlpublication_controller.go): a logical   *)
(* replication publication in the database of a PostgresqlDatabase, owned  *)
(* by the owner role that the database's status names, and a replication   *)
(* slot.  A pass is a sequence of statements; between two of them the      *)
(* administrator edits the resource, the database controller changes the   *)
(* owner role, a consumer connects to the slot, a call fails, the answer   *)
(* to a statement is lost, or the process stops.                           *)
(***************************************************************************)
EXTENDS Naturals

CONSTANTS
    PubNames,   \* values of spec.name
    SlotNames,  \* values of spec.replicationSlotName, when it is set
    Schemas,    \* schemas of the database
    Tables,     \* its tables: pairs <<schema, name>>
    Selections, \* what a resource may select
    Owners,     \* roles the status of the database may name as the owner
    Plans       \* the scenarios: resource, publications, slots, edits, faults

NoName == ""
NoOwner == "none"
Operator == "operator"

(* A table is published whole or with a filter; with stands for the        *)
(* publication parameters.                                                 *)
Items == Tables \X BOOLEAN
Selection == [all : BOOLEAN, schemas : SUBSET Schemas, items : SUBSET Items,
              with : {"default", "custom"}]
NoSelection == [all |-> FALSE, schemas |-> {}, items |-> {}, with |-> "default"]

Specs == [name : PubNames, sel : Selection, slot : SlotNames \union {NoName}]
Resource == [exists : BOOLEAN, deleting : BOOLEAN, finalizer : BOOLEAN, drop : BOOLEAN,
             spec : Specs]
NoHash == [name |-> NoName, sel |-> NoSelection, slot |-> NoName]
Statuses == [phase : {"", "Created", "Failed"}, ready : BOOLEAN,
             name : PubNames \union {NoName}, hash : Specs \union {NoHash},
             all : {"unset", "yes", "no"}]

Publications == [owner : Owners \union {NoOwner, Operator}, sel : Selection]
NoPublication == [owner |-> NoOwner, sel |-> NoSelection]
(* Where a replication slot is: nowhere, in the database with the plugin   *)
(* of the resource, or elsewhere or with another plugin.                   *)
Slots == {"none", "own", "other"}

EditKinds == {"name", "selection", "slot", "delete", "owner", "drift", "database"}
FaultKinds == {"error", "crash", "lost", "stale", "consumer"}
Budgets(K) == [kinds : SUBSET K, left : Nat]

Positions == {"idle", "find", "create", "own new", "update", "owner", "slot", "success",
              "drop publication", "drop slot", "finalize"}
(* search is the name the publication is looked up by, owner the role the  *)
(* status of the database named when the pass began.                       *)
Passes == [pc : Positions, search : PubNames \union {NoName}, found : Publications,
           owner : Owners \union {NoOwner}]

ASSUME NamesAssumption == NoName \notin PubNames \union SlotNames
ASSUME SlotNamesAssumption == PubNames \subseteq SlotNames
ASSUME OwnersAssumption == NoOwner \notin Owners /\ Operator \notin Owners
ASSUME SelectionsAssumption == Selections \subseteq Selection /\ Tables \subseteq Schemas \X STRING
ASSUME PlansAssumption ==
    \A plan \in Plans :
        /\ plan.cr \in Resource /\ plan.cr.exists /\ ~plan.cr.deleting
        /\ plan.pubs \in [PubNames -> Publications]
        /\ plan.slots \in [SlotNames -> Slots]
        /\ plan.edits \in Budgets(EditKinds)
        /\ plan.faults \in Budgets(FaultKinds)

VARIABLES
    cr,      \* spec and metadata of the PostgresqlPublication, as stored
    st,      \* its status subresource, as stored
    db,      \* the PostgresqlDatabase: its phase, the owner role its status
             \* names, and the role that owns the database by now
    foreign, \* the publications and the slots of others that were there before
    pubs,    \* publication name -> publication
    slots,   \* slot name -> where it is
    active,  \* the slots with a consumer
    seen,    \* the spec and metadata the last pass read
    orig,    \* the status the last pass read
    mem,     \* the status in the memory of the running pass
    w,       \* the position and the local variables of the running pass
    edits,   \* the kinds of edits, and how many are left
    faults   \* the kinds of faults, and how many are left

crVars == <<cr, st>>
engineVars == <<pubs, slots, active>>
boundVars == <<edits, faults>>
vars == <<cr, st, db, foreign, pubs, slots, active, seen, orig, mem, w, edits, faults>>

-----------------------------------------------------------------------------
NoStatus == [phase |-> "", ready |-> FALSE, name |-> NoName, hash |-> NoHash, all |-> "unset"]

NoPass == [pc |-> "idle", search |-> NoName, found |-> NoPublication, owner |-> NoOwner]

(* updateInstance: the slot is named after the publication.                *)
Filled(spec) == IF spec.slot = NoName THEN [spec EXCEPT !.slot = spec.name] ELSE spec
AllFlag(sel) == IF sel.all THEN "yes" ELSE "no"
Asked == Filled(seen.spec)

Exists(name) == pubs[name].owner # NoOwner

-----------------------------------------------------------------------------
(* Status writes: the fields that differ from the copy that was read.      *)

Merged(o, m, stored) == IF m = o THEN stored ELSE m

StatusPatch(o, m) ==
    IF ~cr.exists THEN st ELSE [f \in DOMAIN st |-> Merged(o[f], m[f], st[f])]

EndPass == mem' = NoStatus /\ w' = NoPass

ManageError(o, m) ==
    /\ st' = StatusPatch(o, [m EXCEPT !.ready = FALSE, !.phase = "Failed"])
    /\ EndPass

(* The running pass ends in manageError.                                   *)
Stop == ManageError(orig, mem)

Allowed(kind, budget) == kind \in budget.kinds /\ budget.left > 0
Spend(budget) == [budget EXCEPT !.left = @ - 1]

(* What a pass leaves alone between its start and its end.                 *)
Steady == UNCHANGED <<cr, db, foreign, active, seen, orig, edits>>

(* A statement of the running pass: it fails, or it takes effect and the   *)
(* pass goes on, unless the answer is lost.                                *)
Execute(works, effect, next) ==
    \/ /\ works /\ effect
       /\ \/ w' = next /\ UNCHANGED <<st, mem, faults>>
          \/ Allowed("lost", faults) /\ faults' = Spend(faults) /\ Stop
    \/ ~works /\ Stop /\ UNCHANGED <<pubs, slots, faults>>

Quietly(next) == w' = next /\ UNCHANGED <<st, pubs, slots, mem, faults>>

At(position) == w.pc = position
Goto(position) == [w EXCEPT !.pc = position]

-----------------------------------------------------------------------------
(* The start of a pass: the copy read from the cache decides.              *)

CacheCopies == {<<cr, st>>} \union (IF "stale" \in faults.kinds THEN {<<seen, orig>>} ELSE {})

Read(c, s) ==
    /\ At("idle")
    /\ seen' = c
    /\ orig' = s
    /\ UNCHANGED <<db, foreign, engineVars, boundVars>>

Start(s, position) ==
    /\ mem' = s
    /\ w' = [NoPass EXCEPT !.pc = position, !.owner = db.owner]

BeginNotFound(c, s) ==
    /\ Read(c, s)
    /\ ~c.exists
    /\ UNCHANGED <<crVars, mem, w>>

(* Without its database, or without dropOnDelete, only the finalizer goes. *)
BeginDeletion(c, s) ==
    /\ Read(c, s)
    /\ c.exists /\ c.deleting
    /\ Start(s, IF c.drop /\ db.phase # "gone" THEN "drop publication" ELSE "finalize")
    /\ UNCHANGED crVars

Valid(c, s) ==
    /\ c.spec.sel.all \/ c.spec.sel.schemas # {} \/ c.spec.sel.items # {}
    /\ c.spec.sel.all => c.spec.sel.schemas = {} /\ c.spec.sel.items = {}
    /\ s.all \in {"unset", AllFlag(c.spec.sel)}

(* validate, or the lookup of the PostgresqlDatabase, refuses.             *)
BeginRefused(c, s) ==
    /\ Read(c, s)
    /\ c.exists /\ ~c.deleting
    /\ ~Valid(c, s) \/ db.phase = "gone"
    /\ ManageError(s, s)
    /\ UNCHANGED cr

Living(c, s) == c.exists /\ ~c.deleting /\ Valid(c, s) /\ db.phase # "gone"
Waits(s) == s.phase = "" /\ db.phase = "pending"

BeginWait(c, s) ==
    /\ Read(c, s)
    /\ Living(c, s) /\ Waits(s)
    /\ UNCHANGED <<crVars, mem, w>>

(* The update carries the resource version that was read.                  *)
BeginFinalizer(c, s) ==
    /\ Read(c, s)
    /\ Living(c, s) /\ ~Waits(s) /\ ~c.finalizer
    /\ IF c = cr /\ s = st
       THEN /\ cr' = [cr EXCEPT !.finalizer = TRUE, !.spec = Filled(@)]
            /\ UNCHANGED <<st, mem, w>>
       ELSE ManageError(s, s) /\ UNCHANGED cr

BeginWork(c, s) ==
    /\ Read(c, s)
    /\ Living(c, s) /\ ~Waits(s) /\ c.finalizer
    /\ Start(s, "find")
    /\ UNCHANGED crVars
-----------------------------------------------------------------------------
(* isReconcileOnPGNecessary: does the publication on the engine differ     *)
(* from the selection?                                                     *)

TablesIn(S) == {t \in Tables : t[1] \in S}
NamesOf(T) == {t[2] : t \in T}
Details(pub) == pub.sel.items \union (TablesIn(pub.sel.schemas) \X {FALSE})
Published(pub) == {i[1] : i \in Details(pub)}

(* The names are compared without their schema, one schema at a time.      *)
SchemasDiffer(sel, pub) ==
    \/ ~({t[1] : t \in Published(pub)} \subseteq sel.schemas)
    \/ \E s \in sel.schemas : NamesOf(TablesIn({s})) # NamesOf(Published(pub))

(* Filters are compared as pointers: two filters always differ.            *)
ItemsDiffer(sel, pub) ==
    \E i \in sel.items :
        \/ i[1] \notin Published(pub)
        \/ \E d \in Details(pub) : d[1] = i[1] /\ (i[2] \/ d[2])

(* Mutants: the engine is not looked at; parameters that are set are not   *)
(* compared.                                                               *)
IsReconcileOnPGNecessaryNever(sel, pub) == FALSE
IsReconcileOnPGNecessaryWith(sel, pub) ==
    \/ sel.with = "custom" \/ sel.with # pub.sel.with
    \/ /\ ~sel.all
       /\ IF sel.schemas # {} THEN SchemasDiffer(sel, pub) ELSE ItemsDiffer(sel, pub)

IsReconcileOnPGNecessary(sel, pub) ==
    \/ sel.with # pub.sel.with
    \/ /\ ~sel.all
       /\ IF sel.schemas # {} THEN SchemasDiffer(sel, pub) ELSE ItemsDiffer(sel, pub)

-----------------------------------------------------------------------------
(* The pass.                                                               *)

(* Mutants: the name in the status is carried on even when there is none;  *)
(* the publication is looked up by the name in the spec; one that is there *)
(* before the first success is not adopted.                                *)
FindPublicationUnnamed ==
    LET name == IF mem.name = NoName THEN Asked.name ELSE mem.name
        next == IF ~Exists(name) THEN "create" ELSE "update"
    IN  /\ At("find")
        /\ Quietly([w EXCEPT !.pc = next, !.search = mem.name, !.found = pubs[name]])
        /\ Steady
FindPublicationBySpec ==
    /\ At("find")
    /\ Quietly([w EXCEPT !.pc = IF Exists(Asked.name) THEN "update" ELSE "create",
                         !.search = Asked.name, !.found = pubs[Asked.name]])
    /\ Steady
FindPublicationUnadopted ==
    /\ At("find")
    /\ IF mem.name = NoName \/ ~Exists(mem.name)
       THEN Quietly([Goto("create") EXCEPT !.search = Asked.name])
       ELSE Quietly([w EXCEPT !.pc = "update", !.search = mem.name, !.found = pubs[mem.name]])
    /\ Steady

FindPublication ==
    LET name == IF mem.name = NoName THEN Asked.name ELSE mem.name
        next == IF ~Exists(name) THEN "create"
                ELSE IF Asked # mem.hash \/ IsReconcileOnPGNecessary(Asked.sel, pubs[name])
                THEN "update" ELSE "owner"
    IN  /\ At("find")
        /\ Quietly([w EXCEPT !.pc = next, !.search = name, !.found = pubs[name]])
        /\ Steady

CreatePublication ==
    /\ At("create")
    /\ Execute(~Exists(Asked.name),
               /\ pubs' = [pubs EXCEPT ![Asked.name] = [owner |-> Operator, sel |-> Asked.sel]]
               /\ UNCHANGED slots,
               Goto("own new"))
    /\ Steady

(* ALTER PUBLICATION OWNER TO: the role must exist under that name.        *)
Owned(name) ==
    /\ pubs' = [pubs EXCEPT ![name].owner = w.owner]
    /\ UNCHANGED slots

OwnNew ==
    /\ At("own new")
    /\ Execute(w.owner = db.role, Owned(Asked.name), Goto("slot"))
    /\ Steady

(* One transaction: parameters, tables, and the new name last.             *)
Updated ==
    /\ pubs' = [n \in PubNames |->
                   IF n = Asked.name THEN [pubs[w.search] EXCEPT !.sel = Asked.sel]
                   ELSE IF n = w.search THEN NoPublication
                   ELSE pubs[n]]
    /\ UNCHANGED slots

UpdatePublication ==
    /\ At("update")
    /\ Execute(/\ w.found.sel.all = Asked.sel.all
               /\ Exists(w.search)
               /\ Asked.name = w.search \/ ~Exists(Asked.name),
               Updated, Goto("owner"))
    /\ Steady

ChangePublicationOwner ==
    /\ At("owner")
    /\ IF w.found.owner = w.owner
       THEN Quietly(Goto("slot"))
       ELSE Execute(Exists(w.search) /\ w.owner = db.role, Owned(w.search), Goto("slot"))
    /\ Steady

ManageSlot ==
    /\ At("slot")
    /\ IF slots[Asked.slot] = "own"
       THEN Quietly(Goto("success"))
       ELSE Execute(slots[Asked.slot] = "none",
                    /\ slots' = [slots EXCEPT ![Asked.slot] = "own"]
                    /\ UNCHANGED pubs,
                    Goto("success"))
    /\ Steady

ManageSuccess ==
    /\ At("success")
    /\ st' = StatusPatch(orig, [phase |-> "Created", ready |-> TRUE, name |-> Asked.name,
                                hash |-> Asked, all |-> AllFlag(Asked.sel)])
    /\ EndPass
    /\ UNCHANGED <<pubs, slots, faults>>
    /\ Steady

-----------------------------------------------------------------------------
(* manageDropPublication goes by the names in the spec.                    *)

DropPublication ==
    /\ At("drop publication")
    /\ Execute(TRUE,
               /\ pubs' = [pubs EXCEPT ![seen.spec.name] = NoPublication]
               /\ UNCHANGED slots,
               Goto("drop slot"))
    /\ Steady

(* Mutants: a slot in use is left alone; one that is gone is an error.     *)
DropReplicationSlotUnused ==
    LET slot == seen.spec.slot
    IN  /\ At("drop slot")
        /\ IF slot = NoName \/ slot \in active
           THEN Quietly(Goto("finalize"))
           ELSE Execute(TRUE, slots' = [slots EXCEPT ![slot] = "none"] /\ UNCHANGED pubs,
                        Goto("finalize"))
        /\ Steady
DropReplicationSlotOnce ==
    LET slot == seen.spec.slot
    IN  /\ At("drop slot")
        /\ IF slot = NoName
           THEN Quietly(Goto("finalize"))
           ELSE Execute(slots[slot] # "none" /\ slot \notin active,
                        slots' = [slots EXCEPT ![slot] = "none"] /\ UNCHANGED pubs,
                        Goto("finalize"))
        /\ Steady

DropReplicationSlot ==
    LET slot == seen.spec.slot
    IN  /\ At("drop slot")
        /\ IF slot = NoName
           THEN Quietly(Goto("finalize"))
           ELSE Execute(slots[slot] = "none" \/ slot \notin active,
                        /\ slots' = [slots EXCEPT ![slot] = "none"]
                        /\ UNCHANGED pubs,
                        Goto("finalize"))
        /\ Steady

(* The finalizer is removed and the resource goes.                         *)
Finalize ==
    /\ At("finalize")
    /\ IF seen = cr /\ orig = st
       THEN /\ cr' = [cr EXCEPT !.exists = FALSE]
            /\ EndPass
            /\ UNCHANGED st
       ELSE Stop /\ UNCHANGED cr
    /\ UNCHANGED <<db, foreign, engineVars, seen, orig, boundVars>>

-----------------------------------------------------------------------------
(* Faults.                                                                 *)

(* A call returns an error and has had no effect.                          *)
Fail ==
    /\ Allowed("error", faults)
    /\ w.pc \notin {"idle", "success"}
    /\ Stop
    /\ faults' = Spend(faults)
    /\ UNCHANGED <<pubs, slots>>
    /\ Steady

(* The process stops, or the last status patch fails.                      *)
Crash ==
    /\ Allowed("crash", faults)
    /\ ~At("idle")
    /\ EndPass
    /\ faults' = Spend(faults)
    /\ UNCHANGED <<st, pubs, slots>>
    /\ Steady

-----------------------------------------------------------------------------
(* The rest of the cluster.                                                *)

Edit(kind) ==
    /\ Allowed(kind, edits)
    /\ edits' = Spend(edits)
    /\ UNCHANGED <<st, foreign, slots, active, seen, orig, mem, w, faults>>

EditSpec(kind, c) ==
    /\ Edit(kind)
    /\ cr.exists /\ ~cr.deleting
    /\ c # cr
    /\ cr' = c
    /\ UNCHANGED <<db, pubs>>

SetName(name) == EditSpec("name", [cr EXCEPT !.spec.name = name])
SetSelection(sel) == EditSpec("selection", [cr EXCEPT !.spec.sel = sel])
SetSlot(slot) == EditSpec("slot", [cr EXCEPT !.spec.slot = slot])

(* Without a finalizer the resource is gone at once.                       *)
DeleteResource ==
    EditSpec("delete", [cr EXCEPT !.deleting = TRUE, !.exists = cr.finalizer])

(* The database controller renames the owner role; what it owns follows.   *)
RenameOwner(role) ==
    /\ Edit("owner")
    /\ role # db.role
    /\ db' = [db EXCEPT !.role = role]
    /\ pubs' = [n \in PubNames |->
                  IF pubs[n].owner = db.role THEN [pubs[n] EXCEPT !.owner = role] ELSE pubs[n]]
    /\ UNCHANGED cr

(* ... and says so in its status when its pass succeeds.                   *)
ReportDatabase ==
    /\ db.phase # "gone"
    /\ db.phase = "pending" \/ db.owner # db.role
    /\ db' = [db EXCEPT !.phase = "ready", !.owner = db.role]
    /\ UNCHANGED <<crVars, foreign, engineVars, seen, orig, mem, w, boundVars>>

RemoveDatabase ==
    /\ Edit("database")
    /\ db' = [db EXCEPT !.phase = "gone"]
    /\ UNCHANGED <<cr, pubs>>

(* Somebody else alters the publication, between two passes: its           *)
(* parameters, or a table less.                                            *)
Drift(name) ==
    /\ Edit("drift")
    /\ At("idle") /\ Exists(name)
    /\ \/ pubs' = [pubs EXCEPT ![name].sel.with = IF @ = "default" THEN "custom" ELSE "default"]
       \/ \E i \in pubs[name].sel.items : pubs' = [pubs EXCEPT ![name].sel.items = @ \ {i}]
    /\ UNCHANGED <<cr, db>>

(* A consumer of the slot connects, and leaves.                            *)
Consume(slot) ==
    /\ Allowed("consumer", faults)
    /\ faults' = Spend(faults)
    /\ slots[slot] # "none" /\ slot \notin active
    /\ active' = active \union {slot}
    /\ UNCHANGED <<crVars, db, foreign, pubs, slots, seen, orig, mem, w, edits>>

Release(slot) ==
    /\ slot \in active
    /\ active' = active \ {slot}
    /\ UNCHANGED <<crVars, db, foreign, pubs, slots, seen, orig, mem, w, boundVars>>

-----------------------------------------------------------------------------
Init ==
    /\ \E plan \in Plans :
         /\ cr = plan.cr
         /\ pubs = plan.pubs
         /\ slots = plan.slots
         /\ edits = plan.edits
         /\ faults = plan.faults
    /\ \E role \in Owners : db = [phase |-> "pending", owner |-> role, role |-> role]
    /\ foreign = [pubs |-> {n \in PubNames : Exists(n)},
                  slots |-> {s \in SlotNames : slots[s] = "other"}]
    /\ st = NoStatus
    /\ active = {}
    /\ seen = cr
    /\ orig = NoStatus
    /\ mem = NoStatus
    /\ w = NoPass

BeginWith(c, s) ==
    \/ BeginNotFound(c, s)
    \/ BeginDeletion(c, s)
    \/ BeginRefused(c, s)
    \/ BeginWait(c, s)
    \/ BeginFinalizer(c, s)
    \/ BeginWork(c, s)

Begin == \E copy \in CacheCopies : BeginWith(copy[1], copy[2])

Pass ==
    \/ Begin
    \/ FindPublication
    \/ CreatePublication
    \/ OwnNew
    \/ UpdatePublication
    \/ ChangePublicationOwner
    \/ ManageSlot
    \/ ManageSuccess
    \/ DropPublication
    \/ DropReplicationSlot
    \/ Finalize

Environment ==
    \/ \E name \in PubNames : SetName(name) \/ Drift(name)
    \/ \E sel \in Selections : SetSelection(sel)
    \/ \E slot \in SlotNames \union {NoName} : SetSlot(slot)
    \/ DeleteResource
    \/ \E role \in Owners : RenameOwner(role)
    \/ ReportDatabase
    \/ RemoveDatabase
    \/ \E slot \in SlotNames : Consume(slot) \/ Release(slot)

Next == Pass \/ Fail \/ Crash \/ Environment

Spec == Init /\ [][Next]_vars

(* The watch delivers in the end: a pass reads the stored copy.            *)
BeginFresh == BeginWith(cr, st)

(* The manager resyncs the resource and retries a pass that failed; the    *)
(* database gets provisioned, and consumers leave.                         *)
Fairness ==
    /\ WF_vars(Pass)
    /\ SF_vars(BeginFresh)
    /\ WF_vars(ReportDatabase)
    /\ \A slot \in SlotNames : WF_vars(Release(slot))

FairSpec == Spec /\ Fairness

-----------------------------------------------------------------------------
(* Properties.                                                             *)

(* Every variable keeps its type; a pass past the lookup has a publication *)
(* name at hand, and no consumer is on a slot that does not exist.         *)
TypeOK ==
    /\ cr \in Resource /\ seen \in Resource
    /\ st \in Statuses /\ orig \in Statuses /\ mem \in Statuses
    /\ db \in [phase : {"pending", "ready", "gone"}, owner : Owners, role : Owners]
    /\ foreign \in [pubs : SUBSET PubNames, slots : SUBSET SlotNames]
    /\ pubs \in [PubNames -> Publications]
    /\ slots \in [SlotNames -> Slots]
    /\ active \subseteq SlotNames /\ \A slot \in active : slots[slot] # "none"
    /\ w \in Passes
    /\ w.pc \in {"create", "own new", "update", "owner"} => w.search \in PubNames
    /\ edits \in Budgets(EditKinds)
    /\ faults \in Budgets(FaultKinds)

InPlace(spec) ==
    /\ pubs[spec.name] = [owner |-> db.role, sel |-> spec.sel]
    /\ slots[spec.slot] = "own"

(* No pass fails once it has changed something: nothing breaks, the owner  *)
(* role keeps its name, and no slot is somebody else's.                    *)
Smooth ==
    /\ faults.kinds \subseteq {"stale", "consumer"}
    /\ "owner" \notin edits.kinds
    /\ foreign.slots = {}

(* What the comparison with the engine can see.  Of schemas and tables     *)
(* only the schemas are compared, so a table that somebody else takes away *)
(* is not missed; and what a pass left of another selection, when it       *)
(* failed, may pass for this one once the edit is taken back.              *)
Watched(sel) ==
    /\ sel.schemas = {} \/ sel.items = {} \/ "drift" \notin edits.kinds
    /\ Smooth \/ "selection" \notin edits.kinds

(* When a pass is about to report Ready, the publication belongs to the    *)
(* owner role and has its slot, whatever pass failed before and whoever    *)
(* altered it.  It selects what was asked for, or the status says it does  *)
(* and the comparison sees no difference: where it is Watched there is     *)
(* none.                                                                   *)
PublishedAsAsked ==
    At("success") =>
        /\ pubs[Asked.name].owner = db.role
        /\ slots[Asked.slot] = "own"
        /\ \/ pubs[Asked.name].sel = Asked.sel
           \/ /\ Asked = mem.hash
              /\ ~IsReconcileOnPGNecessary(Asked.sel, pubs[Asked.name])
        /\ Watched(Asked.sel) => InPlace(Asked)

(* No pass fails between two edits of the name.                            *)
Calm == Smooth \/ "name" \notin edits.kinds

(* ... and no publication is left under a former name.                     *)
NoOrphanPublication ==
    (At("success") /\ Calm) =>
        {n \in PubNames : Exists(n)} \subseteq foreign.pubs \union {Asked.name}

(* A resource that was deleted with dropOnDelete, when its status named    *)
(* what its spec names, leaves neither its publication nor its slot.       *)
NothingLeft ==
    (/\ ~cr.exists /\ cr.finalizer /\ cr.drop /\ db.phase # "gone"
     /\ st.name \in {NoName, cr.spec.name} /\ Calm) =>
        /\ {n \in PubNames : Exists(n)} \subseteq foreign.pubs \ {cr.spec.name}
        /\ cr.spec.slot # NoName => slots[cr.spec.slot] = "none"

(* A selection whose comparison with the engine is exact.                  *)
Plain(sel) ==
    /\ \A s, t \in sel.schemas : s = t
    /\ sel.schemas = {} \/ sel.items = {}
    /\ \A i \in sel.items : ~i[2]

(* A publication that already is what was asked for, and that the status   *)
(* says so of, is not altered again.                                       *)
NoIdleUpdate ==
    [][\A n \in PubNames :
         (/\ At("find") /\ w'.pc = "update"
          /\ Asked = mem.hash /\ Plain(Asked.sel))
            => pubs[mem.name].sel # Asked.sel]_vars

(* The next pass is bound to fail: the selection does not fit what the     *)
(* status or the engine holds, another publication has the name, the slot  *)
(* is somebody else's, or an update went through that the status misses.   *)
Refused ==
    LET name == IF st.name = NoName THEN cr.spec.name ELSE st.name
    IN  \/ ~Valid(cr, st)
        \/ Exists(name) /\ pubs[name].sel.all # cr.spec.sel.all
        \/ name # cr.spec.name /\ Exists(cr.spec.name)
        \/ slots[Filled(cr.spec).slot] = "other"

(* A deletion that was asked for completes.                                *)
DeletionCompletes == cr.deleting ~> ~cr.exists

Healthy == st.ready /\ InPlace(Filled(cr.spec))

(* Once edits and faults are over, what was asked for is in place.         *)
Converges ==
    \/ []<>(~cr.exists \/ cr.deleting \/ db.phase = "gone")
    \/ []<>(Refused \/ ~Watched(cr.spec.sel))
    \/ <>[]Healthy
=============================================================================
