------------------------- MODULE DatabaseLifeProofs -------------------------
(***************************************************************************)
(* Proofs about Database from pass to pass: which group roles there are,   *)
(* what stays in place, what a deletion leaves.  The first part is about   *)
(* plans whose passes read what is stored and leave no statement on the    *)
(* way to the engine: no timeout, no crash, no stale read.  There every    *)
(* step has one of seven shapes (StepShapes), and the invariants are       *)
(* proved shape by shape.  The second part (Additions) is about any        *)
(* faults, but plans in which nothing is renamed, removed or deleted:      *)
(* there the engine only grows, whenever a statement lands.                *)
(***************************************************************************)
EXTENDS DatabaseProofs

Punctual == late = Nothing /\ faults.kinds \intersect {"timeout", "crash", "stale"} = {}

Making == {"create role", "grant role"}
DropSteps == {"drop owned", "drop role", "close", "drop base"}
Dropping == DropSteps \union {"finalize"}

-----------------------------------------------------------------------------
(* What a step of a running pass may be.                                   *)

(* It goes on at the position next ...                                     *)
Onward(next) ==
    /\ next.r = w.r /\ next.pc # "idle"
    /\ next.pc \in Dropping <=> w.pc \in Dropping
    /\ next.pc \in DropSteps => w.pc \in DropSteps

Frame == /\ Onward(w')
         /\ UNCHANGED <<cr, st, links, engine, late, read, edits, faults>>

(* ... or ends in manageError, which no statement about the role that is   *)
(* being made can cause.                                                   *)
Halt == /\ Stop
        /\ UNCHANGED <<cr, links, engine, pg, late, read, edits, faults>>
        /\ ~At("create role")
        /\ At("grant role") => Wanted \notin pg.roles

RenameMove ==
    /\ At("rename role") /\ w' = Goto("create role") /\ mem' = mem
    /\ \/ pg' = pg /\ (mem[w.kind] \notin pg.roles \/ mem[w.kind] = Wanted)
       \/ /\ mem[w.kind] \in pg.roles /\ mem[w.kind] # Wanted
          /\ pg' = After(pg, RenameRole(mem[w.kind], Wanted), NoBase)

CreateMove ==
    /\ At("create role") /\ w' = Goto("grant role") /\ mem' = mem
    /\ \/ pg' = pg /\ Wanted \in pg.roles
       \/ pg' = After(pg, CreateGroupRole(Wanted), NoBase)

GrantMove ==
    /\ At("grant role") /\ w' = AfterGrant /\ mem' = [mem EXCEPT ![w.kind] = Wanted]
    /\ pg' = After(pg, GrantRole(Wanted), NoBase)

SkipMove ==
    /\ At("drop owned") /\ w' = AfterDrop /\ mem' = Forgotten
    /\ pg' = pg /\ mem[w.kind] \notin pg.roles

OwnedMove ==
    /\ At("drop owned") /\ w' = Goto("drop role") /\ mem' = mem
    /\ mem[w.kind] \in pg.roles
    /\ pg' = After(pg, ChangeAndDropOwnedBy(mem[w.kind], Asked.name), NoBase)

DropMove ==
    /\ At("drop role") /\ w' = AfterDrop /\ mem' = Forgotten
    /\ pg' = After(pg, DropRole(mem[w.kind]), NoBase)

RoleMove == RenameMove \/ CreateMove \/ GrantMove \/ SkipMove \/ OwnedMove \/ DropMove

(* The engines g and h differ in the database n and in sessions alone.     *)
Elsewhere(g, h, n) ==
    /\ h.roles = g.roles /\ h.member = g.member
    /\ \A m \in Names : m # n => h.base[m] = g.base[m]

(* Only the database asked for changes, or, when it is renamed, the one    *)
(* that takes its name.                                                    *)
LocalMove ==
    /\ w.pc \notin RoleSteps \union {"drop owned", "drop role"}
    /\ w'.pc \notin Making \union {"drop owned", "drop role"}
    /\ w'.pc \in {"close", "drop base"} => w.pc = "close"
    /\ w'.pc = "finalize" => ~Exists(pg', Asked.name) /\ w.pc = "drop base"
    /\ w'.pc = "rename base" => mem.db \notin {NoName, Asked.name}
    /\ \A kind \in Kinds : mem'[kind] = mem[kind]
    /\ mem'.db = mem.db \/ mem'.db = Asked.name
    /\ pg'.roles = pg.roles /\ pg'.member = pg.member
    /\ ~At("rename base") => Elsewhere(pg, pg', Asked.name)

Move == Frame /\ (RoleMove \/ LocalMove)

-----------------------------------------------------------------------------
LEMMA PunctualSpares == Punctual => LateSpares
BY DEF Punctual, LateSpares, LateLands

LEMMA ExecuteMoves ==
    ASSUME Punctual, NEW s, NEW status, NEW next, Execute(s, status, next)
    PROVE  /\ UNCHANGED <<cr, links, engine, late, read, edits, faults>>
           /\ \/ /\ Works(pg, s) /\ pg' = After(pg, s, NoBase)
                 /\ mem' = status /\ w' = next /\ st' = st
              \/ ~Works(pg, s) /\ pg' = pg /\ Stop
<1>1. ~Interrupted(s)
  BY DEF Interrupted, HasFault, Punctual
<1> QED BY <1>1 DEF Execute, clusterVars, boundVars, Run

LEMMA RejectHalts ==
    ASSUME Reject, ~At("create role"), ~At("grant role")
    PROVE  Halt
BY DEF Reject, Halt, clusterVars, boundVars

LEMMA RolesMove ==
    ASSUME TInv, Punctual, ManageRoles
    PROVE  Halt \/ Move
<1>0. TypeOK /\ w \in Passes /\ w.kind \in Kinds
  BY PassValues DEF TInv
<1>p. RoleSteps \union {"close old", "extensions"} \subseteq Positions
  BY DEF RoleSteps, Positions
<1>g. \A p \in Positions : Goto(p) \in Passes /\ Goto(p).pc = p /\ Goto(p).r = w.r
  BY <1>0, GotoType
<1>a. w.pc \in RoleSteps
  BY DEF ManageRoles, RenameOldRole, CreateRole, GrantToOperator, At, RoleSteps
<1>o. ASSUME NEW next, next.r = w.r, next.pc \in RoleSteps \union {"close old", "extensions"}
      PROVE  Onward(next)
  BY <1>a, <1>o DEF Onward, RoleSteps, Dropping, DropSteps
<1>1. CASE RenameOldRole
  <2> DEFINE old == mem[w.kind]
             s == IF IsRoleExist(pg, old) /\ old # Wanted THEN RenameRole(old, Wanted) ELSE Nothing
             next == Goto("create role")
  <2>1. Execute(s, mem, next) /\ At("rename role")
    BY <1>1 DEF RenameOldRole
  <2>2. Onward(next)
    BY <1>g, <1>o, <1>p DEF RoleSteps
  <2>3. /\ UNCHANGED <<cr, links, engine, late, read, edits, faults>>
        /\ \/ /\ Works(pg, s) /\ pg' = After(pg, s, NoBase)
              /\ mem' = mem /\ w' = next /\ st' = st
           \/ ~Works(pg, s) /\ pg' = pg /\ Stop
    <3> HIDE DEF s, next
    <3> QED BY <2>1, ExecuteMoves
  <2>4. CASE Stop /\ pg' = pg
    BY <2>1, <2>3, <2>4 DEF Halt, At
  <2>5. CASE w' = next /\ st' = st /\ mem' = mem /\ pg' = After(pg, s, NoBase)
    <3>1. Frame
      BY <2>2, <2>3, <2>5 DEF Frame
    <3>2. RenameMove
      <4>1. CASE s = Nothing /\ (old \notin pg.roles \/ old = Wanted)
        BY <2>1, <2>5, <4>1, NothingDone DEF RenameMove
      <4>2. CASE s = RenameRole(old, Wanted) /\ old \in pg.roles /\ old # Wanted
        BY <2>1, <2>5, <4>2 DEF RenameMove
      <4> QED BY <4>1, <4>2 DEF IsRoleExist
    <3> QED BY <3>1, <3>2 DEF Move, RoleMove
  <2> QED BY <2>3, <2>4, <2>5
<1>2. CASE CreateRole
  <2> DEFINE s == IF IsRoleExist(pg, Wanted) THEN Nothing ELSE CreateGroupRole(Wanted)
             next == Goto("grant role")
  <2>1. Execute(s, mem, next) /\ At("create role")
    BY <1>2 DEF CreateRole
  <2>2. Onward(next)
    BY <1>g, <1>o, <1>p DEF RoleSteps
  <2>3. Works(pg, s)
    <3>1. s.op = "nothing" \/ s.op = "create role"
      BY DEF Nothing, CreateGroupRole
    <3> HIDE DEF s
    <3> QED BY <3>1 DEF Works, Inside
  <2>4. /\ UNCHANGED <<cr, links, engine, late, read, edits, faults>>
        /\ pg' = After(pg, s, NoBase) /\ mem' = mem /\ w' = next /\ st' = st
    <3> HIDE DEF s, next
    <3> QED BY <2>1, <2>3, ExecuteMoves
  <2>5. Frame
    BY <2>2, <2>4 DEF Frame
  <2>6. CreateMove
    <3>1. CASE s = Nothing /\ Wanted \in pg.roles
      BY <2>1, <2>4, <3>1, NothingDone DEF CreateMove
    <3>2. CASE s = CreateGroupRole(Wanted)
      BY <2>1, <2>4, <3>2 DEF CreateMove
    <3> QED BY <3>1, <3>2 DEF IsRoleExist
  <2> QED BY <2>5, <2>6 DEF Move, RoleMove
<1>3. CASE GrantToOperator
  <2> DEFINE status == [mem EXCEPT ![w.kind] = Wanted]
  <2>1. Execute(GrantRole(Wanted), status, AfterGrant) /\ At("grant role")
    BY <1>3 DEF GrantToOperator
  <2>2. Onward(AfterGrant)
    <3>1. /\ Goto("close old").pc = "close old" /\ Goto("close old").r = w.r
          /\ Goto("extensions").pc = "extensions" /\ Goto("extensions").r = w.r
          /\ Goto("rename role") \in Passes /\ Goto("rename role").r = w.r
          /\ Goto("rename role").pc = "rename role"
      BY <1>g, <1>p DEF RoleSteps
    <3>2. /\ [Goto("rename role") EXCEPT !.kind = "writer"].pc = "rename role"
          /\ [Goto("rename role") EXCEPT !.kind = "writer"].r = w.r
      BY <3>1 DEF Passes
    <3>3. w.kind = "owner" \/ w.kind = "reader" \/ w.kind = "writer"
      BY <1>0 DEF Kinds
    <3>4. AfterGrant.r = w.r /\ AfterGrant.pc \in RoleSteps \union {"close old", "extensions"}
      BY <3>1, <3>2, <3>3 DEF AfterGrant, RoleSteps
    <3> QED BY <1>o, <3>4
  <2> HIDE DEF status
  <2>3. /\ UNCHANGED <<cr, links, engine, late, read, edits, faults>>
        /\ \/ /\ Works(pg, GrantRole(Wanted)) /\ pg' = After(pg, GrantRole(Wanted), NoBase)
              /\ mem' = status /\ w' = AfterGrant /\ st' = st
           \/ ~Works(pg, GrantRole(Wanted)) /\ pg' = pg /\ Stop
    BY <2>1, ExecuteMoves
  <2>4. CASE ~Works(pg, GrantRole(Wanted))
    <3>1. GrantRole(Wanted).op = "grant role" /\ GrantRole(Wanted).role = Wanted
      BY DEF GrantRole, Nothing
    <3>2. Wanted \notin pg.roles
      BY <2>4, <3>1 DEF Works, Inside
    <3> QED BY <2>1, <2>3, <2>4, <3>2 DEF Halt, At
  <2>5. CASE Works(pg, GrantRole(Wanted))
    BY <2>1, <2>2, <2>3, <2>5 DEF Move, Frame, RoleMove, GrantMove, status
  <2> QED BY <2>4, <2>5
<1> QED BY <1>1, <1>2, <1>3 DEF ManageRoles

(* A statement about one database leaves the roles and the others alone.   *)
Record(h) == h = [roles |-> h.roles, member |-> h.member, base |-> h.base,
                  sessions |-> h.sessions, apps |-> h.apps]

LEMMA ChangedElsewhere ==
    ASSUME NEW g \in EngineStates, NEW n \in Names, NEW c, NEW h, h = Changed(g, n, c)
    PROVE  Elsewhere(g, h, n) /\ Record(h)
<1>1. /\ h.roles = g.roles /\ h.member = g.member
      /\ h.base = [g.base EXCEPT ![n] = c]
      /\ h.sessions = g.sessions /\ h.apps = g.apps
      /\ g.base \in [Names -> Bases]
  BY DEF Changed, EngineStates
<1>2. \A m \in Names : m # n => h.base[m] = g.base[m]
  BY <1>1
<1>3. h = [roles |-> h.roles, member |-> h.member, base |-> h.base,
           sessions |-> h.sessions, apps |-> h.apps]
  BY <1>1 DEF Changed, EngineStates
<1> QED BY <1>1, <1>2, <1>3 DEF Elsewhere, Record

LEMMA DoneElsewhere ==
    ASSUME NEW g \in EngineStates, NEW q, NEW n \in Names, q.base = n,
           q.op \in (Inside \ {"drop owned"}) \union {"own base", "drop base"},
           NEW h, h = Done(g, q, NoBase)
    PROVE  Elsewhere(g, h, n) /\ Record(h)
<1>g. g.base \in [Names -> Bases] /\ g.base[n] \in Bases
  BY DEF EngineStates
<1>1. Elsewhere(g, g, n) /\ Record(g)
  BY DEF EngineStates, Elsewhere, Record
<1>2. CASE q.op = "list"
  <2>1. h = g
    BY <1>2 DEF Done
  <2> QED BY <2>1, <1>1
<1>3. CASE q.op = "own base"
  <2> DEFINE c == [g.base[n] EXCEPT !.own = q.role]
  <2>1. h = Changed(g, n, c)
    BY <1>g, <1>3 DEF Done, Changed, EngineStates, Bases
  <2> HIDE DEF c
  <2> QED BY <2>1, ChangedElsewhere
<1>4. CASE q.op = "drop base"
  <2> DEFINE c == NoBase
  <2>1. h = Changed(g, n, c)
    BY <1>g, <1>4 DEF Done, Changed, EngineStates, Bases
  <2> HIDE DEF c
  <2> QED BY <2>1, ChangedElsewhere
<1>5. CASE q.op = "create extension"
  <2> DEFINE c == [g.base[n] EXCEPT !.exts = @ \union {q.item}]
  <2>1. h = Changed(g, n, c)
    BY <1>g, <1>5 DEF Done, Changed, EngineStates, Bases
  <2> HIDE DEF c
  <2> QED BY <2>1, ChangedElsewhere
<1>6. CASE q.op = "drop extension"
  <2> DEFINE c == [g.base[n] EXCEPT !.exts = @ \ {q.item}]
  <2>1. h = Changed(g, n, c)
    BY <1>g, <1>6 DEF Done, Changed, EngineStates, Bases
  <2> HIDE DEF c
  <2> QED BY <2>1, ChangedElsewhere
<1>7. CASE q.op = "create schema"
  <2> DEFINE c == [g.base[n] EXCEPT !.schemas[q.item] = IF @ = NoRole THEN q.role ELSE @]
  <2>1. h = Changed(g, n, c)
    BY <1>g, <1>7 DEF Done, Changed, EngineStates, Bases
  <2> HIDE DEF c
  <2> QED BY <2>1, ChangedElsewhere
<1>8. CASE q.op = "own type"
  <2> DEFINE c == [g.base[n] EXCEPT !.types[q.item] = q.role]
  <2>1. h = Changed(g, n, c)
    BY <1>g, <1>8 DEF Done, Changed, EngineStates, Bases
  <2> HIDE DEF c
  <2> QED BY <2>1, ChangedElsewhere
<1>9. CASE q.op \in {"drop schema", "drop schema cascade"}
  <2> DEFINE c == WithoutSchema(g.base[n], q.item)
  <2>1. h = SchemaDropped(g, n, q.item)
    BY <1>9 DEF Done
  <2>2. h = Changed(g, n, c)
    BY <1>g, <2>1 DEF SchemaDropped, Changed, EngineStates
  <2> HIDE DEF c
  <2> QED BY <2>2, ChangedElsewhere
<1>10. CASE q.op = "privileges"
  <2> DEFINE c == [g.base[n] EXCEPT !.privs = @ \union {<<q.item, q.to>>},
                                  !.defaults = @ \union {<<q.role, q.item, q.to>>}]
  <2>1. h = PrivilegesSet(g, n, q.role, q.to, q.item)
    BY <1>10 DEF Done
  <2>2. PrivilegesSet(g, n, q.role, q.to, q.item) = Changed(g, n, c)
    BY <1>g DEF PrivilegesSet, Changed, EngineStates, Bases
  <2> HIDE DEF c
  <2> QED BY <2>1, <2>2, ChangedElsewhere
<1>11. CASE q.op = "own table"
  <2> DEFINE c == [g.base[n] EXCEPT !.tables[Public] = q.role]
  <2>1. h = TableOwned(g, n, q.role)
    BY <1>11 DEF Done
  <2>2. h = g \/ h = Changed(g, n, c)
    BY <1>g, <2>1 DEF TableOwned, Changed, EngineStates, Bases
  <2> HIDE DEF c
  <2> QED BY <1>1, <2>2, ChangedElsewhere
<1> QED BY <1>2, <1>3, <1>4, <1>5, <1>6, <1>7, <1>8, <1>9, <1>10, <1>11 DEF Inside

LEMMA LocalAfter ==
    ASSUME NEW g \in EngineStates, NEW q, NEW n \in Names,
           q.op = "nothing" \/ q.base = n,
           q.op \in (Inside \ {"drop owned"}) \union {"nothing", "own base", "drop base"},
           NEW k, k = After(g, q, NoBase)
    PROVE  Elsewhere(g, k, n) /\ (q.op = "drop base" => ~Exists(k, n))
<1>g. g.base \in [Names -> Bases] /\ g.base[n] \in Bases
  BY DEF EngineStates
<1>1. CASE q.op = "nothing"
  <2>1. k = g
    BY <1>1 DEF After, Done, Inside
  <2> QED BY <1>1, <2>1 DEF Elsewhere
<1>2. CASE q.op # "nothing"
  <2> DEFINE h == Done(g, q, NoBase)
  <2>1. Elsewhere(g, h, n) /\ Record(h)
    <3>1. q.op \in (Inside \ {"drop owned"}) \union {"own base", "drop base"}
      BY <1>2
    <3> QED BY <1>2, <3>1, DoneElsewhere
  <2>2. q.op = "drop base" => h.base[n].own = NoRole
    BY <1>g, <1>2, NoBaseType DEF Done, EngineStates
  <2>3. k = h \/ k = [h EXCEPT !.sessions = @ \union {q.base}]
    BY DEF After
  <2> HIDE DEF h
  <2>4. k.roles = h.roles /\ k.member = h.member /\ k.base = h.base
    BY <2>1, <2>3 DEF Record
  <2> QED BY <2>1, <2>2, <2>4 DEF Elsewhere, Exists
<1> QED BY <1>1, <1>2

(* The positions at which a pass works on the database it asks for.        *)
Working == ModuleSteps \union {"close old", "rename base", "own base"}

LEMMA WorkingSteps ==
    ASSUME NEW p, p.pc \in Working
    PROVE  /\ p.pc \notin RoleSteps \union Dropping /\ p.pc # "idle"
           /\ p.pc \in ModuleSteps \/ p.pc = "own base" => p.pc # "rename base"
BY DEF Working, RoleSteps, Dropping, DropSteps, ModuleSteps, LateSteps, SchemaSteps, WithSchema

LEMMA ExecuteLocally ==
    ASSUME TInv, Punctual, w.pc \in Working, ~At("rename base"),
           NEW q, NEW status, NEW next, Execute(q, status, next),
           q.op = "nothing" \/ q.base = Asked.name,
           q.op \in (Inside \ {"drop owned"}) \union {"nothing", "own base"},
           next.r = w.r, next.pc \in ModuleSteps \union {"own base", "rename role"},
           \A kind \in Kinds : status[kind] = mem[kind],
           status.db = mem.db \/ status.db = Asked.name
    PROVE  Halt \/ Move
<1>1. /\ UNCHANGED <<cr, links, engine, late, read, edits, faults>>
      /\ \/ /\ Works(pg, q) /\ pg' = After(pg, q, NoBase)
            /\ mem' = status /\ w' = next /\ st' = st
         \/ ~Works(pg, q) /\ pg' = pg /\ Stop
  BY ExecuteMoves
<1>2. w.pc \notin RoleSteps \union Dropping
  BY WorkingSteps
<1>3. CASE pg' = pg /\ Stop
  BY <1>1, <1>2, <1>3 DEF Halt, At, RoleSteps
<1>4. CASE w' = next /\ st' = st /\ mem' = status /\ pg' = After(pg, q, NoBase)
  <2>1. pg \in EngineStates /\ Asked.name \in Names
    BY PassValues DEF TInv, TypeOK, Resource
  <2>2. Elsewhere(pg, pg', Asked.name)
    <3>1. q.op \in (Inside \ {"drop owned"}) \union {"nothing", "own base", "drop base"}
      OBVIOUS
    <3> QED BY <1>4, <2>1, <3>1, LocalAfter
  <2>3. next.pc \notin Making \union {"drop owned", "drop role", "close", "drop base", "finalize",
                                       "rename base", "idle"}
    BY DEF ModuleSteps, LateSteps, SchemaSteps, WithSchema, Making
  <2>4. Onward(next)
    BY <1>2, <2>3 DEF Onward, Dropping, DropSteps
  <2>5. Frame
    BY <1>1, <1>4, <2>4 DEF Frame
  <2>6. LocalMove
    BY <1>2, <1>4, <2>2, <2>3 DEF LocalMove, Elsewhere, Dropping, DropSteps
  <2> QED BY <2>5, <2>6 DEF Move
<1> QED BY <1>1, <1>3, <1>4

LEMMA QuietlyLocally ==
    ASSUME w.pc \in Working, ~At("rename base"),
           NEW next, Quietly(mem, next),
           next.r = w.r, next.pc \in ModuleSteps \union {"own base", "rename role"}
    PROVE  Move
<1>1. /\ UNCHANGED <<cr, st, links, engine, late, read, edits, faults>>
      /\ pg' = pg /\ mem' = mem /\ w' = next
  BY DEF Quietly, clusterVars, boundVars
<1>2. w.pc \notin RoleSteps \union Dropping
  BY WorkingSteps
<1>3. next.pc \notin Making \union {"drop owned", "drop role", "close", "drop base", "finalize",
                                     "rename base", "idle"}
  BY DEF ModuleSteps, LateSteps, SchemaSteps, WithSchema, Making
<1>4. Onward(next)
  BY <1>2, <1>3 DEF Onward, Dropping, DropSteps
<1>5. Frame
  BY <1>1, <1>4 DEF Frame
<1>6. LocalMove
  BY <1>1, <1>2, <1>3 DEF LocalMove, Elsewhere, Dropping, DropSteps
<1> QED BY <1>5, <1>6 DEF Move

LEMMA BaseMoves ==
    ASSUME TInv, Punctual, ManageBase
    PROVE  Halt \/ Move
<1>v. /\ TypeOK /\ pg \in EngineStates /\ mem \in Statuses /\ w \in Passes
      /\ Asked.name \in Names
  BY PassValues DEF TInv, TypeOK, Resource
<1>g. \A p \in Positions : Goto(p) \in Passes /\ Goto(p).pc = p /\ Goto(p).r = w.r
  BY <1>v, GotoType
<1>p. RoleSteps \union {"rename base", "own base"} \subseteq Positions
  BY DEF RoleSteps, Positions
<1>a. /\ w.pc \in {"close old", "rename base", "own base"}
      /\ w.pc \notin RoleSteps \union Dropping
  BY DEF ManageBase, CloseOldPools, RenameBase, OwnBase, At, RoleSteps, Dropping, DropSteps
<1>w. w.pc \in Working
  BY <1>a DEF Working
<1>r. Reject => Halt
  BY <1>a, RejectHalts DEF At, RoleSteps
<1>1. CASE CloseOldPools
  <2>1. CASE Quietly(mem, Goto("own base"))
    <3>1. Goto("own base").pc = "own base" /\ Goto("own base").r = w.r /\ ~At("rename base")
      BY <1>1, <1>g, <1>p DEF CloseOldPools, At
    <3> QED BY <1>w, <2>1, <3>1, QuietlyLocally
  <2>2. CASE /\ mem.db \notin {NoName, Asked.name}
             /\ pg' = Closed(mem.db) /\ w' = Goto("rename base")
             /\ UNCHANGED <<clusterVars, st, late, read, mem, boundVars>>
    <3>1. w'.pc = "rename base" /\ w'.r = w.r
      BY <1>g, <1>p, <2>2
    <3>2. pg'.roles = pg.roles /\ pg'.member = pg.member /\ pg'.base = pg.base
      BY <1>v, <2>2 DEF Closed, EngineStates
    <3>3. Frame
      BY <1>a, <2>2, <3>1 DEF Frame, Onward, clusterVars, boundVars, Dropping, DropSteps
    <3>4. LocalMove
      BY <1>a, <2>2, <3>1, <3>2 DEF LocalMove, Elsewhere, Making, Dropping, DropSteps
    <3> QED BY <3>3, <3>4 DEF Move
  <2> QED BY <1>1, <1>r, <2>1, <2>2 DEF CloseOldPools
<1>2. CASE RenameBase
  <2> DEFINE k == After(pg, RenameDatabase(mem.db, Asked.name), NoBase)
  <2>0. At("rename base")
    BY <1>2 DEF RenameBase
  <2>1. mem.db \in Names
    BY <1>2 DEF TInv, RenameBase, At
  <2>2. k.roles = pg.roles /\ k.member = pg.member
    BY <1>v, <2>1, DatabaseRenamed
  <2>3. Goto("own base").pc = "own base" /\ Goto("own base").r = w.r
    BY <1>g, <1>p
  <2>4. Execute(RenameDatabase(mem.db, Asked.name), mem, Goto("own base"))
    BY <1>2 DEF RenameBase
  <2>5. /\ UNCHANGED <<cr, links, engine, late, read, edits, faults>>
        /\ \/ /\ Works(pg, RenameDatabase(mem.db, Asked.name)) /\ pg' = k
              /\ mem' = mem /\ w' = Goto("own base") /\ st' = st
           \/ ~Works(pg, RenameDatabase(mem.db, Asked.name)) /\ pg' = pg /\ Stop
    BY <2>4, ExecuteMoves
  <2> HIDE DEF k
  <2>6. CASE pg' = pg /\ Stop
    BY <1>a, <2>5, <2>6 DEF Halt, At, RoleSteps
  <2>7. CASE pg' = k /\ mem' = mem /\ w' = Goto("own base") /\ st' = st
    <3>1. Frame
      BY <1>a, <2>3, <2>5, <2>7 DEF Frame, Onward, Dropping, DropSteps
    <3>2. LocalMove
      BY <1>a, <2>0, <2>2, <2>3, <2>7 DEF LocalMove, Making, Dropping, DropSteps, At
    <3> QED BY <3>1, <3>2 DEF Move
  <2> QED BY <2>5, <2>6, <2>7
<1>3. CASE OwnBase
  <2>1. CASE Reject
    BY <1>r, <2>1
  <2>2. CASE ~Reject
    <3> DEFINE q == IF pg.base[Asked.name].own = mem.owner THEN Nothing
                    ELSE ChangeDBOwner(Asked.name, mem.owner)
               next == [Goto("rename role") EXCEPT !.kind = "reader"]
               status == [mem EXCEPT !.db = Asked.name]
    <3>1. Goto("rename role") \in Passes /\ Goto("rename role").pc = "rename role"
          /\ Goto("rename role").r = w.r
      BY <1>g, <1>p DEF RoleSteps
    <3>2. next.pc = "rename role" /\ next.r = w.r
      BY <3>1 DEF Passes
    <3>3. status.db = Asked.name /\ \A kind \in Kinds : status[kind] = mem[kind]
      BY <1>v DEF Statuses, Kinds
    <3>4. Execute(q, status, next) /\ ~At("rename base")
      BY <1>3, <2>2 DEF OwnBase, At
    <3>5. /\ q.op = "nothing" \/ q.base = Asked.name
          /\ q.op = "nothing" \/ q.op = "own base"
      BY DEF Nothing, ChangeDBOwner
    <3> HIDE DEF q, next, status
    <3> QED BY <1>w, <3>2, <3>3, <3>4, <3>5, ExecuteLocally
  <2> QED BY <2>1, <2>2
<1> QED BY <1>1, <1>2, <1>3 DEF ManageBase

LEMMA ExtensionsMoves ==
    ASSUME TInv, Punctual, ManageExtensions
    PROVE  Halt \/ Move
<1>v. /\ TypeOK /\ mem \in Statuses /\ w \in Passes
  BY PassValues DEF TInv, TypeOK
<1>g. /\ Goto("drop extensions") \in Passes /\ Goto("drop extensions").pc = "drop extensions"
      /\ Goto("create extensions") \in Passes /\ Goto("create extensions").pc = "create extensions"
      /\ Goto("drop schemas") \in Passes /\ Goto("drop schemas").pc = "drop schemas"
      /\ Goto("drop extensions").r = w.r /\ Goto("create extensions").r = w.r
      /\ Goto("drop schemas").r = w.r
  BY <1>v, GotoType DEF Positions
<1>a. w.pc \in {"extensions", "drop extensions", "create extensions"}
  BY DEF ManageExtensions, GoExtensions, DropOneExtension, CreateOneExtension, ListExtensions,
     GoSchemas, At
<1>w. w.pc \in Working /\ ~At("rename base")
  BY <1>a DEF Working, ModuleSteps, At
<1>e. ASSUME NEW X
      PROVE  /\ \A kind \in Kinds : [mem EXCEPT !.exts = X][kind] = mem[kind]
             /\ [mem EXCEPT !.exts = X].db = mem.db
  BY <1>v DEF Kinds, Statuses
<1>m. {"drop extensions", "create extensions", "drop schemas"} \subseteq ModuleSteps
  BY DEF ModuleSteps, LateSteps
<1>i. {"list", "create extension", "drop extension"} \subseteq Inside \ {"drop owned"}
  BY DEF Inside
<1>1. CASE GoExtensions
  <2>1. ToExtensions.pc = "drop extensions" /\ ToExtensions.r = w.r
    BY <1>g DEF ToExtensions, Passes
  <2> QED BY <1>1, <1>m, <1>w, <2>1, QuietlyLocally DEF GoExtensions
<1>2. ASSUME NEW x \in Extensions, DropOneExtension(x)
      PROVE  Halt \/ Move
  <2> DEFINE next == [w EXCEPT !.todo = @ \ {x}]
             q == DropExtension(Asked.name, x)
  <2>1. next.pc = "drop extensions" /\ next.r = w.r
    BY <1>2, <1>v DEF DropOneExtension, At, Passes
  <2>2. Execute(q, mem, next)
    BY <1>2 DEF DropOneExtension
  <2>3. q.op = "drop extension" /\ q.base = Asked.name
    BY DEF Nothing, DropExtension
  <2> HIDE DEF next, q
  <2> QED BY <1>i, <1>m, <1>w, <2>1, <2>2, <2>3, ExecuteLocally
<1>3. ASSUME NEW x \in Extensions, CreateOneExtension(x)
      PROVE  Halt \/ Move
  <2> DEFINE next == [w EXCEPT !.todo = @ \ {x}]
             status == [mem EXCEPT !.exts = @ \union {x}]
             q == IF x \in Base.exts THEN Nothing ELSE CreateExtension(Asked.name, x)
  <2>1. next.pc = "create extensions" /\ next.r = w.r
    BY <1>3, <1>v DEF CreateOneExtension, At, Passes
  <2>2. Execute(q, status, next)
    BY <1>3 DEF CreateOneExtension
  <2>3. /\ q.op = "nothing" \/ q.base = Asked.name
        /\ q.op = "nothing" \/ q.op = "create extension"
    BY DEF Nothing, CreateExtension
  <2>4. status.db = mem.db /\ \A kind \in Kinds : status[kind] = mem[kind]
    BY <1>e
  <2> HIDE DEF next, q, status
  <2> QED BY <1>i, <1>m, <1>w, <2>1, <2>2, <2>3, <2>4, ExecuteLocally
<1>4. CASE ListExtensions
  <2> DEFINE next == [Goto("create extensions") EXCEPT !.todo = Asked.exts]
             status == [mem EXCEPT !.exts = Kept(@, Asked.exts)]
             q == ListIn(Asked.name)
  <2>1. next.pc = "create extensions" /\ next.r = w.r
    BY <1>g DEF Passes
  <2>2. Execute(q, status, next)
    BY <1>4 DEF ListExtensions
  <2>3. q.base = Asked.name /\ q.op = "list"
    BY DEF Nothing, ListIn
  <2>4. status.db = mem.db /\ \A kind \in Kinds : status[kind] = mem[kind]
    BY <1>e
  <2> HIDE DEF next, q, status
  <2> QED BY <1>i, <1>m, <1>w, <2>1, <2>2, <2>3, <2>4, ExecuteLocally
<1>5. CASE GoSchemas
  <2>1. ToSchemas.pc = "drop schemas" /\ ToSchemas.r = w.r
    BY <1>g DEF ToSchemas, Passes
  <2> QED BY <1>5, <1>m, <1>w, <2>1, QuietlyLocally DEF GoSchemas
<1> QED BY <1>1, <1>2, <1>3, <1>4, <1>5 DEF ManageExtensions

LEMMA SchemasMoves ==
    ASSUME TInv, Punctual, ManageSchemas
    PROVE  Halt \/ Move \/ ManageSuccess
<1>v. /\ TypeOK /\ mem \in Statuses /\ w \in Passes
  BY PassValues DEF TInv, TypeOK
<1>g. \A p \in Positions : Goto(p) \in Passes /\ Goto(p).pc = p /\ Goto(p).r = w.r
  BY <1>v, GotoType
<1>p. {"create schemas", "reader privileges", "writer privileges", "tables", "types", "success"}
         \subseteq Positions
  BY DEF Positions
<1>m. {"drop schemas", "create schemas", "reader privileges", "writer privileges", "tables",
       "types", "success"} \subseteq ModuleSteps
  BY DEF ModuleSteps, LateSteps, SchemaSteps, WithSchema
<1>a. w.pc \in LateSteps
  BY DEF ManageSchemas, DropOneSchema, CreateOneSchema, ListSchema, ReaderPrivileges,
     WriterPrivileges, OwnTables, OwnTypes, GoSuccess, ManageSuccess, At, LateSteps, SchemaSteps,
     WithSchema
<1>w. w.pc \in Working /\ ~At("rename base")
  BY <1>a DEF Working, ModuleSteps, LateSteps, SchemaSteps, WithSchema, At
<1>e. ASSUME NEW X
      PROVE  /\ \A kind \in Kinds : [mem EXCEPT !.schemas = X][kind] = mem[kind]
             /\ [mem EXCEPT !.schemas = X].db = mem.db
  BY <1>v DEF Kinds, Statuses
<1>i. {"list", "create schema", "drop schema", "drop schema cascade", "privileges", "own table",
       "own type"} \subseteq Inside \ {"drop owned"}
  BY DEF Inside
<1>x. ASSUME NEW q, NEW next, Execute(q, mem, next), q.op = "nothing" \/ q.base = Asked.name,
             q.op \in (Inside \ {"drop owned"}) \union {"nothing"},
             next.r = w.r, next.pc \in ModuleSteps
      PROVE  Halt \/ Move
  BY <1>w, <1>x, ExecuteLocally
<1>1. ASSUME NEW x \in Schemas, DropOneSchema(x)
      PROVE  Halt \/ Move
  <2> DEFINE next == [w EXCEPT !.todo = @ \ {x}]
             q == DropSchema(Asked.name, x, Asked.cascade)
  <2>1. next.pc = "drop schemas" /\ next.r = w.r
    BY <1>1, <1>v DEF DropOneSchema, At, Passes
  <2>2. Execute(q, mem, next)
    BY <1>1 DEF DropOneSchema
  <2>3. (q.op = "drop schema" \/ q.op = "drop schema cascade") /\ q.base = Asked.name
    BY DEF Nothing, DropSchema
  <2> HIDE DEF next, q
  <2> QED BY <1>i, <1>m, <1>x, <2>1, <2>2, <2>3
<1>2. ASSUME NEW x \in Schemas, CreateOneSchema(x)
      PROVE  Halt \/ Move
  <2> DEFINE next == [Goto("reader privileges") EXCEPT !.item = x]
             q == IF Base.schemas[x] # NoRole THEN Nothing
                  ELSE CreateSchema(Asked.name, mem.owner, x)
  <2>1. Goto("reader privileges") \in Passes /\ Goto("reader privileges").pc = "reader privileges"
        /\ Goto("reader privileges").r = w.r
    BY <1>g, <1>p
  <2>2. next.pc = "reader privileges" /\ next.r = w.r
    BY <2>1 DEF Passes
  <2>3. Execute(q, mem, next)
    BY <1>2 DEF CreateOneSchema
  <2>4. /\ q.op = "nothing" \/ q.base = Asked.name
        /\ q.op = "nothing" \/ q.op = "create schema"
    BY DEF Nothing, CreateSchema
  <2> HIDE DEF next, q
  <2> QED BY <1>i, <1>m, <1>x, <2>2, <2>3, <2>4
<1>3. CASE ListSchema
  <2> DEFINE next == [Goto("create schemas") EXCEPT !.todo = ListedSchemas(Asked)]
             status == [mem EXCEPT !.schemas = Kept(@, ListedSchemas(Asked))]
             q == ListIn(Asked.name)
  <2>1. Goto("create schemas") \in Passes /\ Goto("create schemas").pc = "create schemas"
        /\ Goto("create schemas").r = w.r
    BY <1>g, <1>p
  <2>2. next.pc = "create schemas" /\ next.r = w.r
    BY <2>1 DEF Passes
  <2>3. Execute(q, status, next)
    BY <1>3 DEF ListSchema
  <2>4. q.base = Asked.name /\ q.op = "list"
    BY DEF Nothing, ListIn
  <2>5. status.db = mem.db /\ \A kind \in Kinds : status[kind] = mem[kind]
    BY <1>e
  <2> HIDE DEF next, q, status
  <2> QED BY <1>i, <1>m, <1>w, <2>2, <2>3, <2>4, <2>5, ExecuteLocally
<1>4. CASE ReaderPrivileges
  <2> DEFINE q == SetSchemaPrivileges(Asked.name, mem.owner, mem.reader, w.item)
  <2>1. Execute(q, mem, Goto("writer privileges"))
    BY <1>4 DEF ReaderPrivileges
  <2>2. q.op = "privileges" /\ q.base = Asked.name
    BY DEF Nothing, SetSchemaPrivileges
  <2>3. Goto("writer privileges").pc = "writer privileges" /\ Goto("writer privileges").r = w.r
    BY <1>g, <1>p
  <2> HIDE DEF q
  <2> QED BY <1>i, <1>m, <1>x, <2>1, <2>2, <2>3
<1>5. CASE WriterPrivileges
  <2> DEFINE q == SetSchemaPrivileges(Asked.name, mem.owner, mem.writer, w.item)
  <2>1. Execute(q, mem, Goto("tables"))
    BY <1>5 DEF WriterPrivileges
  <2>2. q.op = "privileges" /\ q.base = Asked.name
    BY DEF Nothing, SetSchemaPrivileges
  <2>3. Goto("tables").pc = "tables" /\ Goto("tables").r = w.r
    BY <1>g, <1>p
  <2> HIDE DEF q
  <2> QED BY <1>i, <1>m, <1>x, <2>1, <2>2, <2>3
<1>6. CASE OwnTables
  <2> DEFINE q == IF Base.tables[w.item] \in {NoRole, mem.owner} THEN ListIn(Asked.name)
                  ELSE ChangeTableOwner(Asked.name, mem.owner)
  <2>1. Execute(q, mem, Goto("types"))
    BY <1>6 DEF OwnTables
  <2>2. (q.op = "list" \/ q.op = "own table") /\ q.base = Asked.name
    BY DEF Nothing, ListIn, ChangeTableOwner
  <2>3. Goto("types").pc = "types" /\ Goto("types").r = w.r
    BY <1>g, <1>p
  <2> HIDE DEF q
  <2> QED BY <1>i, <1>m, <1>x, <2>1, <2>2, <2>3
<1>7. CASE OwnTypes
  <2> DEFINE next == [Goto("create schemas") EXCEPT !.todo = @ \ {w.item}, !.item = NoName]
             q == IF Base.types[w.item] \in {NoRole, mem.owner} THEN ListIn(Asked.name)
                  ELSE ChangeTypeOwnerInSchema(Asked.name, w.item, mem.owner)
             status == [mem EXCEPT !.schemas = @ \union {w.item}]
  <2>1. Goto("create schemas") \in Passes /\ Goto("create schemas").pc = "create schemas"
        /\ Goto("create schemas").r = w.r
    BY <1>g, <1>p
  <2>2. next.pc = "create schemas" /\ next.r = w.r
    BY <2>1 DEF Passes
  <2>3. Execute(q, status, next)
    BY <1>7 DEF OwnTypes
  <2>4. (q.op = "list" \/ q.op = "own type") /\ q.base = Asked.name
    BY DEF Nothing, ListIn, ChangeTypeOwnerInSchema
  <2>5. status.db = mem.db /\ \A kind \in Kinds : status[kind] = mem[kind]
    BY <1>e
  <2> HIDE DEF next, q, status
  <2> QED BY <1>i, <1>m, <1>w, <2>2, <2>3, <2>4, <2>5, ExecuteLocally
<1>8. CASE GoSuccess
  <2>1. Goto("success").pc = "success" /\ Goto("success").r = w.r
    BY <1>g, <1>p
  <2> QED BY <1>8, <1>m, <1>w, <2>1, QuietlyLocally DEF GoSuccess
<1> QED BY <1>1, <1>2, <1>3, <1>4, <1>5, <1>6, <1>7, <1>8 DEF ManageSchemas

LEMMA DropMoves ==
    ASSUME TInv, Punctual, ManageDrop
    PROVE  Halt \/ Move \/ Finalize
<1>v. /\ TypeOK /\ pg \in EngineStates /\ w \in Passes /\ w.kind \in Kinds
      /\ Asked.name \in Names
  BY PassValues DEF TInv, TypeOK, Resource
<1>g. \A p \in Positions : Goto(p) \in Passes /\ Goto(p).pc = p /\ Goto(p).r = w.r
  BY <1>v, GotoType
<1>p. DropSteps \union {"finalize"} \subseteq Positions
  BY DEF DropSteps, Positions
<1>k. w.kind = "owner" \/ w.kind = "reader" \/ w.kind = "writer"
  BY <1>v DEF Kinds
<1>d. /\ AfterDrop.r = w.r
      /\ w.kind = "reader" => AfterDrop.pc = "close"
      /\ w.kind # "reader" => AfterDrop.pc = "drop owned"
  <2>1. /\ Goto("drop owned") \in Passes /\ Goto("drop owned").pc = "drop owned"
        /\ Goto("drop owned").r = w.r
        /\ Goto("close").pc = "close" /\ Goto("close").r = w.r
    BY <1>g, <1>p DEF DropSteps
  <2>2. ASSUME NEW kind
        PROVE  /\ [Goto("drop owned") EXCEPT !.kind = kind].pc = "drop owned"
               /\ [Goto("drop owned") EXCEPT !.kind = kind].r = w.r
    BY <2>1 DEF Passes
  <2> QED BY <1>k, <2>1, <2>2 DEF AfterDrop
<1>o. ASSUME NEW next, next.r = w.r, w.pc \in DropSteps,
             next.pc \in DropSteps \union {"finalize"}
      PROVE  Onward(next)
  BY <1>o DEF Onward, Dropping, DropSteps
<1>1. CASE SkipRole
  <2>1. At("drop owned") /\ mem[w.kind] \notin pg.roles /\ Quietly(Forgotten, AfterDrop)
    BY <1>1 DEF SkipRole, IsRoleExist
  <2>2. Onward(AfterDrop)
    BY <1>d, <1>o, <2>1 DEF At, DropSteps
  <2>3. Frame
    BY <2>1, <2>2 DEF Frame, Quietly, clusterVars, boundVars
  <2>4. SkipMove
    BY <2>1 DEF SkipMove, Quietly
  <2> QED BY <2>3, <2>4 DEF Move, RoleMove
<1>2. CASE DropOwned
  <2> DEFINE q == ChangeAndDropOwnedBy(mem[w.kind], Asked.name)
  <2>1. At("drop owned") /\ mem[w.kind] \in pg.roles /\ Execute(q, mem, Goto("drop role"))
    BY <1>2 DEF DropOwned, IsRoleExist
  <2>2. Onward(Goto("drop role"))
    BY <1>g, <1>o, <1>p, <2>1 DEF At, DropSteps
  <2>3. /\ UNCHANGED <<cr, links, engine, late, read, edits, faults>>
        /\ \/ /\ Works(pg, q) /\ pg' = After(pg, q, NoBase)
              /\ mem' = mem /\ w' = Goto("drop role") /\ st' = st
           \/ ~Works(pg, q) /\ pg' = pg /\ Stop
    <3> HIDE DEF q
    <3> QED BY <2>1, ExecuteMoves
  <2>4. CASE pg' = pg /\ Stop
    BY <2>1, <2>3, <2>4 DEF Halt, At
  <2>5. CASE pg' = After(pg, q, NoBase) /\ mem' = mem /\ w' = Goto("drop role") /\ st' = st
    BY <2>1, <2>2, <2>3, <2>5 DEF Move, Frame, RoleMove, OwnedMove
  <2> QED BY <2>3, <2>4, <2>5
<1>3. CASE DropGroupRole
  <2> DEFINE q == DropRole(mem[w.kind])
  <2>1. At("drop role") /\ Execute(q, Forgotten, AfterDrop)
    BY <1>3 DEF DropGroupRole
  <2>2. Onward(AfterDrop)
    BY <1>d, <1>o, <2>1 DEF At, DropSteps
  <2>3. /\ UNCHANGED <<cr, links, engine, late, read, edits, faults>>
        /\ \/ /\ Works(pg, q) /\ pg' = After(pg, q, NoBase)
              /\ mem' = Forgotten /\ w' = AfterDrop /\ st' = st
           \/ ~Works(pg, q) /\ pg' = pg /\ Stop
    <3> HIDE DEF q
    <3> QED BY <2>1, ExecuteMoves
  <2>4. CASE pg' = pg /\ Stop
    BY <2>1, <2>3, <2>4 DEF Halt, At
  <2>5. CASE pg' = After(pg, q, NoBase) /\ mem' = Forgotten /\ w' = AfterDrop /\ st' = st
    BY <2>1, <2>2, <2>3, <2>5 DEF Move, Frame, RoleMove, DropMove
  <2> QED BY <2>3, <2>4, <2>5
<1>4. CASE ClosePools
  <2>1. /\ At("close") /\ pg' = Closed(Asked.name) /\ w' = Goto("drop base")
        /\ UNCHANGED <<cr, st, links, engine, late, read, mem, edits, faults>>
    BY <1>4 DEF ClosePools, clusterVars, boundVars
  <2>2. w'.pc = "drop base" /\ w'.r = w.r
    BY <1>g, <1>p, <2>1 DEF DropSteps
  <2>3. pg'.roles = pg.roles /\ pg'.member = pg.member /\ pg'.base = pg.base
    BY <1>v, <2>1 DEF Closed, EngineStates
  <2>4. Frame
    BY <1>o, <2>1, <2>2 DEF Frame, At, DropSteps
  <2>5. LocalMove
    BY <2>1, <2>2, <2>3 DEF LocalMove, Elsewhere, Making, RoleSteps, At
  <2> QED BY <2>4, <2>5 DEF Move
<1>5. CASE DropBase
  <2> DEFINE q == DropDatabase(Asked.name)
  <2>1. At("drop base") /\ (Reject \/ Execute(q, mem, Goto("finalize")))
    BY <1>5 DEF DropBase
  <2>2. CASE Reject
    BY <2>1, <2>2, RejectHalts DEF At
  <2>3. CASE Execute(q, mem, Goto("finalize"))
    <3>1. Goto("finalize").pc = "finalize" /\ Goto("finalize").r = w.r
      BY <1>g, <1>p
    <3>2. Onward(Goto("finalize"))
      BY <1>o, <2>1, <3>1 DEF At, DropSteps
    <3>3. q.op = "drop base" /\ q.base = Asked.name
      BY DEF DropDatabase, Nothing
    <3> HIDE DEF q
    <3>4. /\ UNCHANGED <<cr, links, engine, late, read, edits, faults>>
          /\ \/ /\ Works(pg, q) /\ pg' = After(pg, q, NoBase)
                /\ mem' = mem /\ w' = Goto("finalize") /\ st' = st
             \/ ~Works(pg, q) /\ pg' = pg /\ Stop
      BY <2>3, ExecuteMoves
    <3>5. CASE pg' = pg /\ Stop
      BY <2>1, <3>4, <3>5 DEF Halt, At
    <3>6. CASE pg' = After(pg, q, NoBase) /\ mem' = mem /\ w' = Goto("finalize") /\ st' = st
      <4>1. Frame
        BY <3>2, <3>4, <3>6 DEF Frame
      <4>2. Elsewhere(pg, pg', Asked.name) /\ ~Exists(pg', Asked.name)
        <5>1. q.op \in (Inside \ {"drop owned"}) \union {"nothing", "own base", "drop base"}
          BY <3>3
        <5> QED BY <1>v, <3>3, <3>6, <5>1, LocalAfter
      <4>3. LocalMove
        BY <2>1, <3>1, <3>6, <4>2 DEF LocalMove, Elsewhere, Making, RoleSteps, At
      <4> QED BY <4>1, <4>3 DEF Move
    <3> QED BY <3>4, <3>5, <3>6
  <2> QED BY <2>1, <2>2, <2>3
<1> QED BY <1>1, <1>2, <1>3, <1>4, <1>5 DEF ManageDrop

LEMMA PassMoves ==
    ASSUME TInv, Punctual, Pass
    PROVE  Begin \/ Halt \/ Move \/ ManageSuccess \/ Finalize
BY RolesMove, BaseMoves, ExtensionsMoves, SchemasMoves, DropMoves DEF Pass

-----------------------------------------------------------------------------
(* What holds between the stored copies and what the running pass knows.   *)
Coherent ==
    /\ Punctual
    /\ \A r \in Resources : st[r].ready => st[r].phase = "Created" /\ cr[r].finalizer
    /\ ~At("idle") =>
         /\ read[w.r].st = st[w.r]
         /\ cr[w.r].exists
         /\ w.pc \in DropSteps => Asked.drop
         /\ \/ w.pc \in Dropping /\ Asked = cr[w.r] /\ Asked.deleting
            \/ w.pc \notin Dropping /\ cr[w.r].finalizer /\ ~Asked.deleting

(* Then a step of the system is one of the following seven.                *)
SameNames(c, d) == c.name = d.name /\ c.master = d.master
Alike(c, d) ==
    SameNames(c, d) /\ c.drop = d.drop /\ c.finalizer = d.finalizer /\ c.deleting = d.deleting
NamesKept(s, t) == s.db = t.db /\ \A kind \in Kinds : s[kind] = t[kind]
OthersKept(r) ==
    \A q \in Resources : q # r => cr'[q] = cr[q] /\ st'[q] = st[q] /\ read'[q] = read[q]
Bounded == late' = late /\ edits'.kinds = edits.kinds /\ faults'.kinds = faults.kinds

(* Nothing that a resource asks for is lost or gained.                     *)
Held(g, h) ==
    /\ h.roles = g.roles /\ h.member = g.member
    /\ \A n \in Names :
         /\ h.base[n].own = g.base[n].own
         /\ h.base[n].exts = g.base[n].exts
         /\ h.base[n].schemas = g.base[n].schemas
         /\ h.base[n].privs = g.base[n].privs
         /\ h.base[n].defaults = g.base[n].defaults

(* The cluster changes around the controller.                              *)
Altered(c, d) ==
    /\ c.exists /\ ~c.deleting
    /\ d.finalizer = c.finalizer /\ d.drop = c.drop /\ d.exists \in {TRUE, c.finalizer}
    /\ SameNames(c, d) \/ edits.kinds \intersect {"name", "master"} # {}

Outside ==
    /\ UNCHANGED <<st, read, mem, w>> /\ Bounded /\ Held(pg, pg')
    /\ engine' # "gone" => engine # "gone"
    /\ \A r \in Resources : cr'[r] = cr[r] \/ Altered(cr[r], cr'[r])

(* A pass reads r and has nothing to do for it, or cannot.                 *)
Looking(r) ==
    /\ At("idle") /\ w'.pc = "idle" /\ OthersKept(r) /\ Bounded
    /\ pg' = pg /\ engine' = engine
    /\ read'[r] = Stored(r)
    /\ NamesKept(st'[r], st[r])
    /\ st'[r].ready => ~cr[r].exists /\ st'[r] = st[r]
    /\ \/ cr'[r] = cr[r]
       \/ cr[r].exists /\ cr'[r].exists /\ cr'[r].finalizer /\ SameNames(cr[r], cr'[r])

(* A pass on r begins.                                                     *)
Opening(r) ==
    /\ At("idle") /\ w'.r = r /\ w'.kind = "owner" /\ mem' = st[r]
    /\ OthersKept(r) /\ cr'[r] = cr[r] /\ st'[r] = st[r] /\ Bounded
    /\ Held(pg, pg') /\ engine' = engine
    /\ read'[r] = Stored(r)
    /\ cr[r].exists
    /\ \/ w'.pc = "rename role" /\ cr[r].finalizer /\ ~cr[r].deleting
       \/ w'.pc = "drop owned" /\ cr[r].deleting /\ cr[r].drop
       \/ w'.pc = "finalize" /\ cr[r].deleting /\ (cr[r].drop => engine = "gone")

(* The running pass fails.                                                 *)
Stopped ==
    /\ ~At("idle") /\ w'.pc = "idle" /\ OthersKept(w.r) /\ Bounded
    /\ cr' = cr /\ read' = read /\ pg' = pg /\ engine' = engine
    /\ NamesKept(st'[w.r], mem) /\ ~st'[w.r].ready
    /\ "error" \notin faults.kinds =>
         ~At("create role") /\ (At("grant role") => Wanted \notin pg.roles)

(* The running pass succeeds.                                              *)
Succeeded ==
    /\ At("success") /\ w'.pc = "idle" /\ OthersKept(w.r) /\ Bounded
    /\ cr' = cr /\ read' = read /\ pg' = pg /\ engine' = engine
    /\ NamesKept(st'[w.r], mem) /\ st'[w.r].phase = "Created"

(* The resource of the running pass goes.                                  *)
Departed ==
    /\ At("finalize") /\ w'.pc = "idle" /\ OthersKept(w.r) /\ Bounded
    /\ st' = st /\ read' = read /\ pg' = pg /\ engine' = engine
    /\ Alike(cr[w.r], cr'[w.r]) /\ ~cr'[w.r].exists

LEMMA FreshPatch ==
    ASSUME TypeOK, NEW r \in Resources, cr[r].exists, NEW m \in Statuses,
           st' = StatusPatch(r, st[r], m)
    PROVE  st'[r] = m /\ \A q \in Resources : q # r => st'[q] = st[q]
<1> DEFINE owners == RolesNamed("owner") \union {NoRole}
           readers == RolesNamed("reader") \union {NoRole}
           writers == RolesNamed("writer") \union {NoRole}
           bases == Names \union {NoName}
<1>1. Statuses = [phase : {"", "Created", "Failed"}, ready : BOOLEAN, db : bases,
                  owner : owners, reader : readers, writer : writers,
                  schemas : SUBSET Schemas, exts : SUBSET Extensions]
  BY DEF Statuses
<1> HIDE DEF owners, readers, writers, bases
<1>2. st \in [Resources -> Statuses] /\ st[r] \in Statuses
  BY DEF TypeOK
<1>3. [f \in DOMAIN st[r] |-> Merged(st[r][f], m[f], st[r][f])] = m
  <2>1. [f \in DOMAIN st[r] |-> Merged(st[r][f], m[f], st[r][f])] = [f \in DOMAIN st[r] |-> m[f]]
    BY DEF Merged
  <2>2. DOMAIN st[r] = DOMAIN m
    BY <1>1, <1>2
  <2>3. m = [f \in DOMAIN m |-> m[f]]
    BY <1>1
  <2> QED BY <2>1, <2>2, <2>3
<1>4. st' = [st EXCEPT ![r] = m]
  BY <1>2, <1>3 DEF StatusPatch
<1> QED BY <1>2, <1>4

LEMMA FreshError ==
    ASSUME TypeOK, NEW r \in Resources, cr[r].exists, NEW m \in Statuses,
           ManageError(r, st[r], m)
    PROVE  /\ NamesKept(st'[r], m) /\ ~st'[r].ready /\ w'.pc = "idle"
           /\ \A q \in Resources : q # r => st'[q] = st[q]
<1> DEFINE n == [m EXCEPT !.ready = FALSE, !.phase = "Failed"]
<1>1. n \in Statuses /\ ~n.ready /\ NamesKept(n, m)
  BY DEF Statuses, NamesKept, Kinds
<1>2. st' = StatusPatch(r, st[r], n) /\ w' = NoPass
  BY DEF ManageError, EndPass
<1> HIDE DEF n
<1>3. st'[r] = n /\ \A q \in Resources : q # r => st'[q] = st[q]
  BY <1>1, <1>2, FreshPatch
<1> QED BY <1>1, <1>2, <1>3, StartValues

LEMMA StopStops ==
    ASSUME TInv, Coherent, ~At("idle"), Stop
    PROVE  /\ NamesKept(st'[w.r], mem) /\ ~st'[w.r].ready /\ w'.pc = "idle"
           /\ \A q \in Resources : q # w.r => st'[q] = st[q]
<1>1. TypeOK /\ w.r \in Resources /\ mem \in Statuses
  BY PassValues DEF TInv
<1>2. cr[w.r].exists /\ ManageError(w.r, st[w.r], mem)
  BY DEF Coherent, Stop
<1> QED BY <1>1, <1>2, FreshError

LEMMA FailStops ==
    ASSUME TInv, Coherent, Fail
    PROVE  Stopped
<1>1. /\ "error" \in faults.kinds /\ ~At("idle") /\ Stop /\ faults' = Spend(faults)
      /\ UNCHANGED <<cr, links, engine, pg, late, read, edits>>
  BY DEF Fail, HasFault, At, clusterVars
<1>2. faults'.kinds = faults.kinds
  BY <1>1 DEF Spend, TInv, TypeOK, Budgets
<1> QED BY <1>1, <1>2, StopStops DEF Stopped, OthersKept, Bounded

LEMMA HaltStops ==
    ASSUME TInv, Coherent, ~At("idle"), Halt
    PROVE  Stopped
BY StopStops DEF Halt, Stopped, OthersKept, Bounded

LEMMA SuccessSucceeds ==
    ASSUME TInv, Coherent, ManageSuccess
    PROVE  Succeeded
<1> DEFINE n == [mem EXCEPT !.ready = TRUE, !.phase = "Created"]
<1>1. /\ TypeOK /\ w.r \in Resources /\ mem \in Statuses
  BY PassValues DEF TInv
<1>2. /\ At("success") /\ st' = StatusPatch(w.r, read[w.r].st, n) /\ w' = NoPass
      /\ UNCHANGED <<cr, links, engine, pg, late, read, edits, faults>>
  BY DEF ManageSuccess, EndPass, clusterVars, boundVars
<1>3. n \in Statuses /\ n.phase = "Created" /\ NamesKept(n, mem)
  BY <1>1 DEF Statuses, NamesKept, Kinds
<1> HIDE DEF n
<1>4. cr[w.r].exists /\ read[w.r].st = st[w.r]
  BY <1>2 DEF Coherent, At
<1>5. st'[w.r] = n /\ \A q \in Resources : q # w.r => st'[q] = st[q]
  BY <1>1, <1>2, <1>3, <1>4, FreshPatch
<1> QED BY <1>2, <1>3, <1>5, StartValues DEF Succeeded, OthersKept, Bounded

LEMMA FinalizeDeparts ==
    ASSUME TInv, Coherent, Finalize
    PROVE  Departed
<1>1. /\ w.r \in Resources /\ read[w.r] \in [cr : Resource, st : Statuses]
      /\ cr \in [Resources -> Resource]
  BY PassValues DEF TInv, TypeOK
<1>2. read[w.r].cr = cr[w.r] /\ read[w.r].st = st[w.r] /\ At("finalize")
  BY DEF Coherent, Finalize, At, Dropping, Asked
<1>3. read[w.r] = Stored(w.r)
  BY <1>1, <1>2 DEF Stored
<1>4. /\ cr' = [cr EXCEPT ![w.r].exists = FALSE] /\ w' = NoPass
      /\ UNCHANGED <<st, engine, pg, late, read, edits, faults>>
  BY <1>3 DEF Finalize, EndPass, boundVars
<1>5. /\ ~cr'[w.r].exists /\ Alike(cr[w.r], cr'[w.r])
      /\ \A q \in Resources : q # w.r => cr'[q] = cr[q]
  BY <1>1, <1>4 DEF Resource, Alike, SameNames
<1> QED BY <1>2, <1>4, <1>5, StartValues DEF Departed, OthersKept, Bounded

LEMMA ReadStored ==
    ASSUME TInv, NEW r \in Resources, NEW copy \in CacheCopies(r), Punctual, Read(r, copy)
    PROVE  /\ copy = Stored(r) /\ copy.cr = cr[r] /\ copy.st = st[r] /\ At("idle")
           /\ read'[r] = Stored(r) /\ \A q \in Resources : q # r => read'[q] = read[q]
           /\ UNCHANGED <<links, engine, late, edits, faults>>
<1>1. read \in [Resources -> [cr : Resource, st : Statuses]]
  BY DEF TInv, TypeOK
<1>2. copy = Stored(r)
  BY DEF CacheCopies, Punctual
<1> QED BY <1>1, <1>2 DEF Read, Stored, boundVars

LEMMA SessionsHeld ==
    ASSUME NEW g \in EngineStates, NEW S, NEW h,
           h = [g EXCEPT !.sessions = S] \/ h = [g EXCEPT !.apps = S]
    PROVE  Held(g, h)
BY DEF Held, EngineStates

LEMMA SameHeld == \A g : Held(g, g)
BY DEF Held

LEMMA BeginShapes ==
    ASSUME TInv, Coherent, NEW r \in Resources, NEW copy \in CacheCopies(r), BeginWith(r, copy)
    PROVE  Looking(r) \/ Opening(r)
<1>0. TypeOK /\ pg \in EngineStates /\ cr \in [Resources -> Resource] /\ cr[r] \in Resource
      /\ st[r] \in Statuses
  BY DEF TInv, TypeOK
<1>1. Read(r, copy)
  BY DEF BeginWith, BeginNotFound, BeginWaitLinked, BeginDrop, BeginKeep, BeginNoEngine, BeginWait,
     BeginFinalizer, BeginWork
<1>2. /\ copy = Stored(r) /\ copy.cr = cr[r] /\ copy.st = st[r] /\ At("idle")
      /\ read'[r] = Stored(r) /\ \A q \in Resources : q # r => read'[q] = read[q]
      /\ UNCHANGED <<links, engine, late, edits, faults>>
  BY <1>1, ReadStored DEF Coherent
<1>3. ASSUME UNCHANGED <<cr, st, pg, w>>, ~cr[r].exists \/ ~st[r].ready
      PROVE  Looking(r)
  BY <1>2, <1>3 DEF Looking, OthersKept, Bounded, NamesKept, At
<1>4. ASSUME ManageError(r, st[r], st[r]), UNCHANGED <<cr, pg>>, cr[r].exists
      PROVE  Looking(r)
  <2>1. /\ NamesKept(st'[r], st[r]) /\ ~st'[r].ready /\ w'.pc = "idle"
        /\ \A q \in Resources : q # r => st'[q] = st[q]
    BY <1>0, <1>4, FreshError
  <2> QED BY <1>2, <1>4, <2>1 DEF Looking, OthersKept, Bounded
<1>5. ASSUME NEW position, Start(r, copy, position), UNCHANGED <<cr, st>>, Held(pg, pg'),
             cr[r].exists,
             \/ position = "rename role" /\ cr[r].finalizer /\ ~cr[r].deleting
             \/ position = "drop owned" /\ cr[r].deleting /\ cr[r].drop
             \/ position = "finalize" /\ cr[r].deleting /\ (cr[r].drop => engine = "gone")
      PROVE  Opening(r)
  <2>1. w'.pc = position /\ w'.r = r /\ w'.kind = "owner" /\ mem' = st[r]
    BY <1>2, <1>5 DEF Start, NoPass
  <2> QED BY <1>2, <1>5, <2>1 DEF Opening, OthersKept, Bounded
<1>6. CASE BeginNotFound(r, copy)
  BY <1>2, <1>3, <1>6 DEF BeginNotFound
<1>7. CASE BeginWaitLinked(r, copy)
  BY <1>2, <1>4, <1>7 DEF BeginWaitLinked, Deleting
<1>8. CASE BeginDrop(r, copy)
  BY <1>2, <1>5, <1>8, SameHeld DEF BeginDrop, Deleting
<1>9. CASE BeginKeep(r, copy)
  <2>1. Held(pg, pg')
    BY <1>0, <1>9, SessionsHeld DEF BeginKeep, Closed
  <2> QED BY <1>2, <1>5, <1>9, <2>1 DEF BeginKeep, Deleting
<1>10. CASE BeginNoEngine(r, copy)
  BY <1>2, <1>4, <1>10 DEF BeginNoEngine, Living
<1>11. CASE BeginWait(r, copy)
  <2>1. st[r].phase = "" /\ UNCHANGED <<cr, st, pg, w>>
    BY <1>2, <1>11 DEF BeginWait, Waits
  <2>2. ~st[r].ready
    BY <2>1 DEF Coherent
  <2> QED BY <1>3, <2>1, <2>2
<1>12. CASE BeginFinalizer(r, copy)
  <2>1. /\ cr' = [cr EXCEPT ![r].finalizer = TRUE, ![r].schemas = ListedSchemas(cr[r])]
        /\ UNCHANGED <<st, w, pg>> /\ cr[r].exists /\ ~cr[r].finalizer
    BY <1>2, <1>12 DEF BeginFinalizer, Living
  <2>2. ~st[r].ready
    BY <2>1 DEF Coherent
  <2>3. /\ cr'[r].exists /\ cr'[r].finalizer /\ SameNames(cr[r], cr'[r])
        /\ \A q \in Resources : q # r => cr'[q] = cr[q]
    BY <1>0, <2>1 DEF Resource, SameNames
  <2> QED BY <1>2, <2>1, <2>2, <2>3 DEF Looking, OthersKept, Bounded, NamesKept, At
<1>13. CASE BeginWork(r, copy)
  BY <1>2, <1>5, <1>13, SameHeld DEF BeginWork, Living
<1> QED BY <1>6, <1>7, <1>8, <1>9, <1>10, <1>11, <1>12, <1>13 DEF BeginWith

LEMMA FaultyShapes ==
    ASSUME TInv, Coherent, Faulty
    PROVE  Outside \/ Stopped
<1>0. late = Nothing /\ ~HasFault("crash") /\ pg \in EngineStates /\ faults \in Budgets(FaultKinds)
  BY DEF Coherent, Punctual, HasFault, TInv, TypeOK
<1>1. CASE Fail
  BY <1>1, FailStops
<1>2. ASSUME NEW n \in Names, Reopen(n) \/ Connect(n)
      PROVE  Outside
  <2>1. /\ UNCHANGED <<cr, engine, st, late, read, mem, w, edits>> /\ faults' = Spend(faults)
    BY <1>2 DEF Reopen, Connect, Engine, clusterVars
  <2>2. Held(pg, pg')
    BY <1>0, <1>2, SessionsHeld DEF Reopen, Connect, Engine
  <2>3. faults'.kinds = faults.kinds
    BY <1>0, <2>1 DEF Spend, Budgets
  <2> QED BY <2>1, <2>2, <2>3 DEF Outside, Bounded
<1> QED BY <1>0, <1>1, <1>2 DEF Faulty, Crash, LateLands, LateLost

LEMMA EnvironmentShapes ==
    ASSUME TInv, Environment
    PROVE  Outside
<1>0. /\ pg \in EngineStates /\ edits \in Budgets(EditKinds) /\ cr \in [Resources -> Resource]
  BY DEF TInv, TypeOK
<1>e. ASSUME NEW kind, Edit(kind)
      PROVE  /\ kind \in edits.kinds /\ edits'.kinds = edits.kinds
             /\ UNCHANGED <<st, late, read, mem, w, faults>>
  BY <1>0, <1>e DEF Edit, Spend, Budgets
<1>1. ASSUME NEW kind, NEW r \in Resources, NEW c, EditSpec(r, kind, c),
             \/ /\ c.finalizer = cr[r].finalizer /\ c.drop = cr[r].drop
                /\ c.exists \in {TRUE, cr[r].finalizer} /\ SameNames(cr[r], c)
             \/ /\ c.finalizer = cr[r].finalizer /\ c.drop = cr[r].drop
                /\ c.exists = cr[r].exists /\ kind \in {"name", "master"}
      PROVE  Outside
  <2>1. /\ cr[r].exists /\ ~cr[r].deleting /\ Edit(kind) /\ cr' = [cr EXCEPT ![r] = c]
        /\ UNCHANGED <<engine, pg>>
    BY <1>1 DEF EditSpec
  <2>2. Altered(cr[r], c)
    BY <1>1, <1>e, <2>1 DEF Altered
  <2>3. \A q \in Resources : cr'[q] = cr[q] \/ Altered(cr[q], cr'[q])
    BY <1>0, <2>1, <2>2
  <2> QED BY <1>e, <2>1, <2>3, SameHeld DEF Outside, Bounded
<1>2. ASSUME NEW r \in Resources
      PROVE  cr[r] \in Resource
  BY <1>0
<1>4. ASSUME NEW r \in Resources, NEW n \in Names, SetName(r, n)
      PROVE  Outside
  <2> DEFINE c == [cr[r] EXCEPT !.name = n]
  <2>1. c.finalizer = cr[r].finalizer /\ c.drop = cr[r].drop /\ c.exists = cr[r].exists
    BY <1>2 DEF Resource
  <2>2. EditSpec(r, "name", c)
    BY <1>4 DEF SetName
  <2> HIDE DEF c
  <2> QED BY <1>1, <2>1, <2>2
<1>5. ASSUME NEW r \in Resources, NEW m \in Masters \union {NoMaster}, SetMaster(r, m)
      PROVE  Outside
  <2> DEFINE c == [cr[r] EXCEPT !.master = m]
  <2>1. c.finalizer = cr[r].finalizer /\ c.drop = cr[r].drop /\ c.exists = cr[r].exists
    BY <1>2 DEF Resource
  <2>2. EditSpec(r, "master", c)
    BY <1>5 DEF SetMaster
  <2> HIDE DEF c
  <2> QED BY <1>1, <2>1, <2>2
<1>6. ASSUME NEW r \in Resources, NEW S \in SUBSET Schemas, SetSchemas(r, S)
      PROVE  Outside
  <2> DEFINE c == [cr[r] EXCEPT !.schemas = S]
  <2>1. /\ c.finalizer = cr[r].finalizer /\ c.drop = cr[r].drop /\ c.exists = cr[r].exists
        /\ SameNames(cr[r], c)
    BY <1>2 DEF Resource, SameNames
  <2>2. EditSpec(r, "schemas", c) /\ cr[r].exists
    BY <1>6 DEF SetSchemas, EditSpec
  <2> HIDE DEF c
  <2> QED BY <1>1, <2>1, <2>2
<1>7. ASSUME NEW r \in Resources, NEW X \in SUBSET Extensions, SetExtensions(r, X)
      PROVE  Outside
  <2> DEFINE c == [cr[r] EXCEPT !.exts = X]
  <2>1. /\ c.finalizer = cr[r].finalizer /\ c.drop = cr[r].drop /\ c.exists = cr[r].exists
        /\ SameNames(cr[r], c)
    BY <1>2 DEF Resource, SameNames
  <2>2. EditSpec(r, "extensions", c) /\ cr[r].exists
    BY <1>7 DEF SetExtensions, EditSpec
  <2> HIDE DEF c
  <2> QED BY <1>1, <2>1, <2>2
<1>8. ASSUME NEW r \in Resources, DeleteResource(r)
      PROVE  Outside
  <2> DEFINE c == [cr[r] EXCEPT !.deleting = TRUE, !.exists = cr[r].finalizer]
  <2>1. /\ c.finalizer = cr[r].finalizer /\ c.drop = cr[r].drop /\ c.exists = cr[r].finalizer
        /\ SameNames(cr[r], c)
    BY <1>2 DEF Resource, SameNames
  <2>2. EditSpec(r, "delete", c)
    BY <1>8 DEF DeleteResource
  <2> HIDE DEF c
  <2> QED BY <1>1, <2>1, <2>2
<1>9. ASSUME NEW r \in Resources, NEW kind \in Links, Link(r, kind) \/ Unlink(r, kind)
      PROVE  Outside
  <2>1. UNCHANGED <<cr, engine, pg, st, late, read, mem, w, faults>> /\ edits'.kinds = edits.kinds
    BY <1>9, <1>e DEF Link, Unlink, boundVars
  <2> QED BY <2>1, SameHeld DEF Outside, Bounded
<1>10. ASSUME NEW n \in Names, Expire(n) \/ Disconnect(n)
       PROVE  Outside
  <2>1. Held(pg, pg')
    BY <1>0, <1>10, SessionsHeld DEF Expire, Disconnect, Engine
  <2>2. UNCHANGED <<cr, st, engine, late, read, mem, w, edits, faults>>
    BY <1>10 DEF Expire, Disconnect, Engine, clusterVars
  <2> QED BY <2>1, <2>2 DEF Outside, Bounded
<1>11. ASSUME NEW n \in Names, NEW s \in Schemas, AddObjects(n, s)
       PROVE  Outside
  <2> DEFINE b == pg.base[n]
             c == [b EXCEPT !.tables[s] = Outsider, !.types[s] = Outsider]
  <2>1. pg.base \in [Names -> Bases] /\ b \in Bases
    BY <1>0 DEF EngineStates
  <2>2. /\ c.own = b.own /\ c.exts = b.exts /\ c.schemas = b.schemas
        /\ c.privs = b.privs /\ c.defaults = b.defaults
    BY <2>1 DEF Bases
  <2>3. pg' = [pg EXCEPT !.base = [pg.base EXCEPT ![n] = c]]
    BY <1>0, <1>11, <2>1 DEF AddObjects, EngineStates, Bases
  <2> HIDE DEF c
  <2>4. /\ pg'.roles = pg.roles /\ pg'.member = pg.member
        /\ \A m \in Names : m # n => pg'.base[m] = pg.base[m]
        /\ pg'.base[n] = c
    BY <1>0, <2>1, <2>3 DEF EngineStates
  <2>5. Held(pg, pg')
    BY <2>2, <2>4 DEF Held
  <2>6. Edit("objects") /\ UNCHANGED <<cr, engine>>
    BY <1>11 DEF AddObjects, clusterVars
  <2> QED BY <1>e, <2>5, <2>6 DEF Outside, Bounded
<1>12. CASE RemoveEngine
  <2>1. Edit("engine") /\ engine' = "gone" /\ UNCHANGED <<cr, pg>>
    BY <1>12 DEF RemoveEngine
  <2> QED BY <1>e, <2>1, SameHeld DEF Outside, Bounded
<1>13. CASE EngineReady
  <2>1. engine = "pending" /\ UNCHANGED <<cr, st, pg, late, read, mem, w, edits, faults>>
    BY <1>13 DEF EngineReady, boundVars
  <2> QED BY <2>1, SameHeld DEF Outside, Bounded
<1> QED BY <1>4, <1>5, <1>6, <1>7, <1>8, <1>9, <1>10, <1>11, <1>12, <1>13 DEF Environment

LEMMA StepShapes ==
    ASSUME TInv, Coherent, [Next]_vars
    PROVE  \/ Outside \/ (Move /\ ~At("idle")) \/ Stopped \/ Succeeded \/ Departed
           \/ \E r \in Resources : Looking(r) \/ Opening(r)
<1>1. CASE Begin
  BY <1>1, BeginShapes DEF Begin
<1>2. CASE Pass /\ ~Begin
  <2>1. Halt \/ Move \/ ManageSuccess \/ Finalize
    BY <1>2, PassMoves DEF Coherent
  <2>2. ~At("idle")
    BY <1>2 DEF Pass, ManageRoles, RenameOldRole, CreateRole, GrantToOperator, ManageBase,
       CloseOldPools, RenameBase, OwnBase, ManageExtensions, GoExtensions, DropOneExtension,
       CreateOneExtension, ListExtensions, GoSchemas, ManageSchemas, DropOneSchema,
       CreateOneSchema, ListSchema, ReaderPrivileges, WriterPrivileges, OwnTables, OwnTypes,
       GoSuccess, ManageSuccess, ManageDrop, SkipRole, DropOwned, DropGroupRole, ClosePools,
       DropBase, Finalize, At
  <2> QED BY <2>1, <2>2, HaltStops, SuccessSucceeds, FinalizeDeparts
<1>3. CASE Faulty
  BY <1>3, FaultyShapes
<1>4. CASE Environment
  BY <1>4, EnvironmentShapes
<1>5. CASE UNCHANGED vars
  BY <1>5, SameHeld DEF Outside, Bounded, vars
<1> QED BY <1>1, <1>2, <1>3, <1>4, <1>5 DEF Next

LEMMA CoherentStep ==
    ASSUME TInv, Coherent, [Next]_vars
    PROVE  Coherent'
<1>0. w.r \in Resources
  BY PassValues DEF TInv
<1>1. Punctual'
  BY StepShapes DEF Coherent, Punctual, Outside, Move, Frame, Stopped, Succeeded, Departed,
     Looking, Opening, Bounded
<1>2. CASE Outside
  <2>1. /\ UNCHANGED <<st, read, mem, w>> /\ Asked' = Asked
        /\ \A r \in Resources : cr'[r] = cr[r] \/ Altered(cr[r], cr'[r])
    BY <1>2 DEF Outside, Asked
  <2>2. \A r \in Resources : cr'[r].finalizer = cr[r].finalizer
    BY <2>1 DEF Altered
  <2>3. ASSUME ~At("idle")
        PROVE  cr'[w.r].exists /\ (w.pc \in Dropping => cr'[w.r] = cr[w.r])
    BY <1>0, <2>1, <2>3 DEF Coherent, Altered
  <2> QED BY <1>0, <1>1, <2>1, <2>2, <2>3 DEF Coherent, At
<1>3. CASE Move /\ ~At("idle")
  <2>1. /\ Onward(w') /\ UNCHANGED <<cr, st, read>>
    BY <1>3 DEF Move, Frame
  <2>2. Asked' = Asked
    BY <2>1 DEF Asked, Onward
  <2> QED BY <1>0, <1>1, <1>3, <2>1, <2>2 DEF Coherent, Onward, At
<1>4. CASE Stopped
  BY <1>0, <1>1, <1>4 DEF Coherent, Stopped, OthersKept, At
<1>5. CASE Succeeded
  <2>1. cr[w.r].finalizer
    BY <1>5 DEF Coherent, Succeeded, At, Dropping, DropSteps
  <2> QED BY <1>0, <1>1, <1>5, <2>1 DEF Coherent, Succeeded, OthersKept, At
<1>6. CASE Departed
  BY <1>0, <1>1, <1>6 DEF Coherent, Departed, OthersKept, At, Alike
<1>7. ASSUME NEW r \in Resources, Looking(r)
      PROVE  Coherent'
  BY <1>1, <1>7 DEF Coherent, Looking, OthersKept, At
<1>8. ASSUME NEW r \in Resources, Opening(r)
      PROVE  Coherent'
  <2>s. read'[r] = Stored(r) /\ w'.r = r /\ cr'[r] = cr[r] /\ st'[r] = st[r]
    BY <1>8 DEF Opening
  <2>0. read'[r].cr = cr[r] /\ read'[r].st = st[r]
    BY <2>s DEF Stored
  <2>1. read'[r].st = st'[r] /\ Asked' = cr'[r] /\ w'.r = r
    BY <2>s, <2>0 DEF Asked
  <2>2. \A q \in Resources : st'[q] = st[q] /\ cr'[q] = cr[q]
    BY <1>8 DEF Opening, OthersKept
  <2>3. cr[r].exists /\ (w'.pc \in DropSteps => cr[r].drop)
    BY <1>8 DEF Opening, DropSteps
  <2>4. \/ w'.pc \in Dropping /\ cr[r].deleting
        \/ w'.pc \notin Dropping /\ cr[r].finalizer /\ ~cr[r].deleting
    BY <1>8 DEF Opening, Dropping, DropSteps
  <2> QED BY <1>1, <2>1, <2>2, <2>3, <2>4 DEF Coherent
<1> QED BY <1>2, <1>3, <1>4, <1>5, <1>6, <1>7, <1>8, StepShapes

-----------------------------------------------------------------------------
(* NoOrphanGroupRole.  Every group role on the engine is named by a        *)
(* status, or by the memory of the running pass, or is the one it has just *)
(* made and is about to record.                                            *)
Named == UNION {RolesOf(st[r]) : r \in Resources}
NamedByOthers == UNION {RolesOf(st[r]) : r \in Resources \ {w.r}}
Fresh == IF w.pc \in Making THEN {Wanted} ELSE {}

OInv ==
    /\ "error" \notin faults.kinds
    /\ At("idle") => pg.roles \subseteq Named
    /\ ~At("idle") => pg.roles \subseteq RolesOf(mem) \union NamedByOthers \union Fresh
    /\ w.pc \in Making => mem[w.kind] = Wanted \/ mem[w.kind] \notin pg.roles
    /\ At("grant role") => Wanted \in pg.roles
    /\ w.pc \in Dropping => \A kind \in Kinds : mem[kind] \in {st[w.r][kind], NoRole}

LEMMA RolesOfKinds ==
    /\ \A s : RolesOf(s) = {s[kind] : kind \in Kinds}
    /\ \A s, t : NamesKept(s, t) => RolesOf(s) = RolesOf(t)
BY DEF RolesOf, Kinds, NamesKept

(* The positions a role statement leads to.                                *)
LEMMA RoleMoveNext ==
    ASSUME TInv
    PROVE  /\ RenameMove => w'.pc = "create role" /\ w'.kind = w.kind
           /\ CreateMove => w'.pc = "grant role" /\ w'.kind = w.kind
           /\ GrantMove => w'.pc = "close old" \/ w'.pc = "rename role" \/ w'.pc = "extensions"
           /\ OwnedMove => w'.pc = "drop role" /\ w'.kind = w.kind
           /\ SkipMove \/ DropMove =>
                \/ w.kind = "owner" /\ w'.pc = "drop owned" /\ w'.kind = "writer"
                \/ w.kind = "writer" /\ w'.pc = "drop owned" /\ w'.kind = "reader"
                \/ w.kind = "reader" /\ w'.pc = "close"
<1>1. w \in Passes /\ w.kind \in Kinds
  BY PassValues DEF TInv
<1>g. \A p \in Positions : Goto(p) \in Passes /\ Goto(p).pc = p /\ Goto(p).kind = w.kind
  BY <1>1, GotoType
<1>2. /\ Goto("create role").pc = "create role" /\ Goto("create role").kind = w.kind
      /\ Goto("grant role").pc = "grant role" /\ Goto("grant role").kind = w.kind
      /\ Goto("drop role").pc = "drop role" /\ Goto("drop role").kind = w.kind
      /\ Goto("close").pc = "close" /\ Goto("close old").pc = "close old"
      /\ Goto("extensions").pc = "extensions"
      /\ Goto("drop owned") \in Passes /\ Goto("drop owned").pc = "drop owned"
      /\ Goto("rename role") \in Passes /\ Goto("rename role").pc = "rename role"
  BY <1>g DEF Positions
<1>3. ASSUME NEW kind
      PROVE  /\ [Goto("drop owned") EXCEPT !.kind = kind].pc = "drop owned"
             /\ [Goto("drop owned") EXCEPT !.kind = kind].kind = kind
             /\ [Goto("rename role") EXCEPT !.kind = kind].pc = "rename role"
  BY <1>2 DEF Passes
<1>4. w.kind = "owner" \/ w.kind = "reader" \/ w.kind = "writer"
  BY <1>1 DEF Kinds
<1>5. AfterGrant.pc = "close old" \/ AfterGrant.pc = "rename role" \/ AfterGrant.pc = "extensions"
  BY <1>2, <1>3, <1>4 DEF AfterGrant
<1>6. \/ w.kind = "owner" /\ AfterDrop.pc = "drop owned" /\ AfterDrop.kind = "writer"
      \/ w.kind = "writer" /\ AfterDrop.pc = "drop owned" /\ AfterDrop.kind = "reader"
      \/ w.kind = "reader" /\ AfterDrop.pc = "close"
  BY <1>2, <1>3, <1>4 DEF AfterDrop
<1> QED BY <1>2, <1>5, <1>6 DEF RenameMove, CreateMove, GrantMove, SkipMove, OwnedMove, DropMove

(* What the statements about roles do to the roles.                        *)
LEMMA RolesRenamed ==
    ASSUME NEW g \in EngineStates, NEW a, NEW b, NEW k, k = After(g, RenameRole(a, b), NoBase)
    PROVE  k.roles = (g.roles \ {a}) \union {b}
BY DEF RenameRole, Nothing, After, Done, Inside, RoleRenamed, EngineStates

LEMMA RolesCreated ==
    ASSUME NEW g \in EngineStates, NEW a, NEW k, k = After(g, CreateGroupRole(a), NoBase)
    PROVE  k.roles = g.roles \union {a}
BY DEF CreateGroupRole, Nothing, After, Done, Inside, EngineStates

LEMMA RolesGranted ==
    ASSUME NEW g \in EngineStates, NEW a, NEW k, k = After(g, GrantRole(a), NoBase)
    PROVE  k.roles = g.roles
BY DEF GrantRole, Nothing, After, Done, Inside, EngineStates

LEMMA RolesOwning ==
    ASSUME NEW g \in EngineStates, NEW a, NEW n,
           NEW k, k = After(g, ChangeAndDropOwnedBy(a, n), NoBase)
    PROVE  k.roles = g.roles /\ k.member = g.member
BY DEF ChangeAndDropOwnedBy, Nothing, After, Done, Inside, OwnedDropped, EngineStates

LEMMA RolesDropped ==
    ASSUME NEW g \in EngineStates, NEW a, NEW k, k = After(g, DropRole(a), NoBase)
    PROVE  /\ k.roles = g.roles \ {a} /\ k.member = g.member \ {a}
           /\ k.base = g.base
BY DEF DropRole, Nothing, After, Done, Inside, EngineStates

LEMMA RoleRecorded ==
    ASSUME TInv, NEW a
    PROVE  /\ [mem EXCEPT ![w.kind] = a].db = mem.db
           /\ [mem EXCEPT ![w.kind] = a][w.kind] = a
           /\ \A kind \in Kinds : kind # w.kind => [mem EXCEPT ![w.kind] = a][kind] = mem[kind]
<1>1. mem \in Statuses /\ w.kind \in Kinds
  BY PassValues DEF TInv
<1>2. w.kind = "owner" \/ w.kind = "reader" \/ w.kind = "writer"
  BY <1>1 DEF Kinds
<1> QED BY <1>1, <1>2 DEF Statuses, Kinds

LEMMA RolesStepOwned ==
    ASSUME TInv, OInv, RoleMove, Frame
    PROVE  /\ pg'.roles \subseteq RolesOf(mem') \union NamedByOthers \union Fresh'
           /\ w'.pc \in Making => mem'[w'.kind] = Wanted' \/ mem'[w'.kind] \notin pg'.roles
           /\ w'.pc = "grant role" => Wanted' \in pg'.roles
           /\ w'.pc \in Dropping => \A kind \in Kinds : mem'[kind] \in {mem[kind], NoRole}
<1>0. pg \in EngineStates /\ w.kind \in Kinds
  BY PassValues DEF TInv, TypeOK
<1>1. pg.roles \subseteq RolesOf(mem) \union NamedByOthers \union Fresh
  BY DEF OInv, RoleMove, RenameMove, CreateMove, GrantMove, SkipMove, OwnedMove, DropMove, At
<1>2. w'.kind = w.kind => Wanted' = Wanted
  BY DEF Frame, Onward, Wanted, Asked
<1>k. RolesOf(mem) = {mem[kind] : kind \in Kinds} /\ RolesOf(mem') = {mem'[kind] : kind \in Kinds}
  BY RolesOfKinds
<1>3. CASE RenameMove
  <2>1. w'.pc = "create role" /\ w'.kind = w.kind /\ mem' = mem /\ w.pc = "rename role"
    BY <1>3, RoleMoveNext DEF RenameMove, At
  <2>2. pg.roles \subseteq RolesOf(mem) \union NamedByOthers
    BY <1>1, <2>1 DEF Fresh, Making
  <2>3. \/ pg'.roles = pg.roles /\ (mem[w.kind] \notin pg.roles \/ mem[w.kind] = Wanted)
        \/ mem[w.kind] # Wanted /\ pg'.roles = (pg.roles \ {mem[w.kind]}) \union {Wanted}
    <3>1. \/ pg' = pg /\ (mem[w.kind] \notin pg.roles \/ mem[w.kind] = Wanted)
          \/ mem[w.kind] # Wanted /\ pg' = After(pg, RenameRole(mem[w.kind], Wanted), NoBase)
      BY <1>3 DEF RenameMove
    <3> QED BY <1>0, <3>1, RolesRenamed
  <2>4. Fresh' = {Wanted}
    BY <1>2, <2>1 DEF Fresh, Making
  <2> QED BY <1>2, <2>1, <2>2, <2>3, <2>4 DEF Dropping, DropSteps
<1>4. CASE CreateMove
  <2>1. w'.pc = "grant role" /\ w'.kind = w.kind /\ mem' = mem /\ w.pc = "create role"
    BY <1>4, RoleMoveNext DEF CreateMove, At
  <2>2. pg'.roles = pg.roles \union {Wanted}
    BY <1>0, <1>4, RolesCreated DEF CreateMove
  <2>3. Fresh' = {Wanted} /\ Fresh = {Wanted}
    BY <1>2, <2>1 DEF Fresh, Making
  <2>4. mem[w.kind] = Wanted \/ mem[w.kind] \notin pg.roles
    BY <2>1 DEF OInv, Making
  <2> QED BY <1>1, <1>2, <2>1, <2>2, <2>3, <2>4 DEF Dropping, DropSteps
<1>5. CASE GrantMove
  <2>1. /\ w'.pc = "close old" \/ w'.pc = "rename role" \/ w'.pc = "extensions"
        /\ w.pc = "grant role" /\ mem' = [mem EXCEPT ![w.kind] = Wanted]
    BY <1>5, RoleMoveNext DEF GrantMove, At
  <2>2. pg'.roles = pg.roles
    BY <1>0, <1>5, RolesGranted DEF GrantMove
  <2>3. Fresh = {Wanted} /\ Fresh' = {}
    BY <2>1 DEF Fresh, Making
  <2>4. mem[w.kind] = Wanted \/ mem[w.kind] \notin pg.roles
    BY <2>1 DEF OInv, Making
  <2>5. mem'[w.kind] = Wanted /\ \A kind \in Kinds : kind # w.kind => mem'[kind] = mem[kind]
    BY <2>1, RoleRecorded
  <2>6. pg'.roles \subseteq RolesOf(mem') \union NamedByOthers
    BY <1>0, <1>1, <1>k, <2>2, <2>3, <2>4, <2>5
  <2> QED BY <2>1, <2>6 DEF Making, Dropping, DropSteps
<1>6. CASE SkipMove \/ DropMove
  <2>1. /\ w'.pc = "drop owned" \/ w'.pc = "close"
        /\ w.pc = "drop owned" \/ w.pc = "drop role"
        /\ mem' = [mem EXCEPT ![w.kind] = NoRole]
    BY <1>6, RoleMoveNext DEF SkipMove, DropMove, At, Forgotten
  <2>2. pg'.roles \subseteq pg.roles \ {mem[w.kind]}
    BY <1>0, <1>6, RolesDropped DEF SkipMove, DropMove
  <2>3. Fresh = {}
    BY <2>1 DEF Fresh, Making
  <2>4. mem'[w.kind] = NoRole /\ \A kind \in Kinds : kind # w.kind => mem'[kind] = mem[kind]
    BY <2>1, RoleRecorded
  <2>5. pg'.roles \subseteq RolesOf(mem') \union NamedByOthers
    BY <1>0, <1>1, <1>k, <2>2, <2>3, <2>4
  <2> QED BY <2>1, <2>4, <2>5 DEF Making, Dropping, DropSteps
<1>7. CASE OwnedMove
  <2>1. w'.pc = "drop role" /\ w.pc = "drop owned" /\ mem' = mem
    BY <1>7, RoleMoveNext DEF OwnedMove, At
  <2>2. pg'.roles = pg.roles
    <3>1. pg' = After(pg, ChangeAndDropOwnedBy(mem[w.kind], Asked.name), NoBase)
      BY <1>7 DEF OwnedMove
    <3> QED BY <1>0, <3>1, RolesOwning
  <2>3. Fresh = {}
    BY <2>1 DEF Fresh, Making
  <2> QED BY <1>1, <2>1, <2>2, <2>3 DEF Making, Dropping, DropSteps
<1> QED BY <1>3, <1>4, <1>5, <1>6, <1>7 DEF RoleMove

LEMMA OStep ==
    ASSUME TInv, Coherent, OInv, [Next]_vars
    PROVE  OInv'
<1>0. w.r \in Resources /\ NoRole \notin pg.roles
  BY PassValues, RoleValues DEF TInv, TypeOK, EngineStates
<1>e. "error" \notin faults'.kinds
  BY StepShapes DEF OInv, Outside, Move, Frame, Stopped, Succeeded, Departed, Looking, Opening,
     Bounded
<1>k. RolesOf(mem) = {mem[kind] : kind \in Kinds} /\ RolesOf(mem') = {mem'[kind] : kind \in Kinds}
  BY RolesOfKinds
<1>n. "idle" \notin Making \union Dropping /\ "grant role" # "idle"
  BY DEF Making, Dropping, DropSteps
<1>1. CASE Outside
  <2>1. UNCHANGED <<st, read, mem, w>> /\ pg'.roles = pg.roles
    BY <1>1 DEF Outside, Held
  <2>2. Wanted' = Wanted /\ Named' = Named /\ NamedByOthers' = NamedByOthers /\ Fresh' = Fresh
    BY <2>1 DEF Wanted, Asked, Named, NamedByOthers, Fresh
  <2> QED BY <1>e, <2>1, <2>2 DEF OInv, At
<1>2. CASE Move /\ ~At("idle")
  <2>1. Frame /\ UNCHANGED <<st, read>> /\ w'.r = w.r /\ w'.pc # "idle"
        /\ (w'.pc \in Dropping => w.pc \in Dropping)
    BY <1>2 DEF Move, Frame, Onward
  <2>2. NamedByOthers' = NamedByOthers
    BY <2>1 DEF NamedByOthers
  <2>3. w'.pc \in Dropping => \A kind \in Kinds : mem[kind] \in {st[w.r][kind], NoRole}
    BY <2>1 DEF OInv
  <2>4. CASE RoleMove
    BY <1>e, <2>1, <2>2, <2>3, <2>4, RolesStepOwned DEF OInv, At
  <2>5. CASE LocalMove
    <3>1. /\ pg'.roles = pg.roles /\ \A kind \in Kinds : mem'[kind] = mem[kind]
          /\ w.pc \notin Making /\ w'.pc \notin Making
      BY <2>5 DEF LocalMove, RoleSteps, Making
    <3>2. pg.roles \subseteq RolesOf(mem) \union NamedByOthers
      BY <1>2, <3>1 DEF OInv, Fresh
    <3>3. RolesOf(mem') = RolesOf(mem)
      BY <1>k, <3>1
    <3>4. w'.pc \in Dropping => \A kind \in Kinds : mem'[kind] \in {st'[w'.r][kind], NoRole}
      BY <2>1, <2>3, <3>1
    <3>5. pg'.roles \subseteq RolesOf(mem') \union NamedByOthers'
      BY <2>2, <3>1, <3>2, <3>3
    <3> QED BY <1>e, <2>1, <3>1, <3>4, <3>5 DEF OInv, At, Making
  <2> QED BY <1>2, <2>4, <2>5 DEF Move
<1>d. ASSUME \A q \in Resources : q # w.r => st'[q] = st[q],
             pg.roles \subseteq RolesOf(st'[w.r]) \union NamedByOthers
      PROVE  pg.roles \subseteq Named'
  <2>1. ASSUME NEW a \in pg.roles
        PROVE  \E q \in Resources : a \in RolesOf(st'[q])
    <3>1. CASE a \in RolesOf(st'[w.r])
      BY <1>0, <3>1
    <3>2. CASE a \in NamedByOthers
      <4>1. PICK q \in Resources \ {w.r} : a \in RolesOf(st[q])
        BY <3>2 DEF NamedByOthers
      <4> QED BY <1>d, <4>1
    <3> QED BY <1>d, <3>1, <3>2
  <2> QED BY <2>1 DEF Named
<1>3. CASE Stopped \/ Succeeded
  <2>1. /\ ~At("idle") /\ w'.pc = "idle" /\ pg' = pg /\ NamesKept(st'[w.r], mem)
        /\ \A q \in Resources : q # w.r => st'[q] = st[q]
    BY <1>3 DEF Stopped, Succeeded, OthersKept, At
  <2>2. Fresh \subseteq RolesOf(mem)
    <3>1. w.pc \notin Making
      BY <1>3 DEF Stopped, Succeeded, OInv, Making, At
    <3> QED BY <3>1 DEF Fresh
  <2>n. RolesOf(st'[w.r]) = RolesOf(mem)
    BY <2>1, RolesOfKinds
  <2>3. pg.roles \subseteq RolesOf(st'[w.r]) \union NamedByOthers
    BY <2>1, <2>2, <2>n DEF OInv
  <2>4. pg.roles \subseteq Named'
    BY <1>d, <2>1, <2>3
  <2> QED BY <1>e, <1>n, <2>1, <2>4 DEF OInv, At
<1>4. CASE Departed
  <2>1. w.pc = "finalize" /\ w'.pc = "idle" /\ pg' = pg /\ st' = st
    BY <1>4 DEF Departed, At
  <2>2. \A kind \in Kinds : mem[kind] \in {st[w.r][kind], NoRole}
    BY <2>1 DEF OInv, Dropping
  <2>3. pg.roles \subseteq RolesOf(mem) \union NamedByOthers
    BY <2>1 DEF OInv, Fresh, Making, At
  <2>4. RolesOf(st[w.r]) = {st[w.r][kind] : kind \in Kinds}
    BY RolesOfKinds
  <2>5. pg.roles \subseteq RolesOf(st'[w.r]) \union NamedByOthers
    BY <1>0, <1>k, <2>1, <2>2, <2>3, <2>4
  <2>6. pg.roles \subseteq Named'
    BY <1>d, <2>1, <2>5
  <2> QED BY <1>e, <1>n, <2>1, <2>6 DEF OInv, At
<1>5. ASSUME NEW r \in Resources, Looking(r)
      PROVE  OInv'
  <2>1. /\ At("idle") /\ w'.pc = "idle" /\ pg' = pg /\ NamesKept(st'[r], st[r])
        /\ \A q \in Resources : q # r => st'[q] = st[q]
    BY <1>5 DEF Looking, OthersKept
  <2>2. \A q \in Resources : RolesOf(st'[q]) = RolesOf(st[q])
    BY <2>1, RolesOfKinds
  <2>3. Named' = Named
    BY <2>2 DEF Named
  <2> QED BY <1>e, <1>n, <2>1, <2>3 DEF OInv, At
<1>6. ASSUME NEW r \in Resources, Opening(r)
      PROVE  OInv'
  <2>1. /\ At("idle") /\ w'.r = r /\ pg'.roles = pg.roles /\ mem' = st[r] /\ st'[r] = st[r]
        /\ \A q \in Resources : st'[q] = st[q]
        /\ w'.pc \notin Making /\ w'.pc # "idle"
    BY <1>6 DEF Opening, OthersKept, Held, Making
  <2>2. pg.roles \subseteq Named
    BY <2>1 DEF OInv
  <2>3. NamedByOthers' = UNION {RolesOf(st[q]) : q \in Resources \ {r}}
    BY <2>1 DEF NamedByOthers
  <2>4. Named \subseteq RolesOf(st[r]) \union NamedByOthers'
    BY <2>3 DEF Named
  <2> QED BY <1>e, <2>1, <2>2, <2>4 DEF OInv, At, Making
<1> QED BY <1>1, <1>2, <1>3, <1>4, <1>5, <1>6, StepShapes

(* A plan of this module: no timeout, no crash, no stale read, and a       *)
(* status is ready only once the resource has its finalizer.               *)
PunctualPlans ==
    \A plan \in Plans :
        /\ plan.faults.kinds \intersect {"timeout", "crash", "stale"} = {}
        /\ \A r \in Resources :
             plan.st[r].ready => plan.st[r].phase = "Created" /\ plan.cr[r].finalizer

LEMMA CoherentInit ==
    ASSUME PunctualPlans, Init
    PROVE  Coherent
<1>1. PICK plan \in Plans : cr = plan.cr /\ st = plan.st /\ faults = plan.faults
  BY DEF Init
<1>2. Punctual /\ At("idle")
  BY <1>1, StartValues DEF Init, PunctualPlans, Punctual, At
<1>3. \A r \in Resources : st[r].ready => st[r].phase = "Created" /\ cr[r].finalizer
  BY <1>1 DEF PunctualPlans
<1> QED BY <1>2, <1>3 DEF Coherent

(* Nor does a call fail, and every group role there is at first is named   *)
(* by a status.                                                            *)
RecordedPlans ==
    \A plan \in Plans :
        /\ "error" \notin plan.faults.kinds
        /\ plan.pg.roles \subseteq UNION {RolesOf(plan.st[r]) : r \in Resources}

LEMMA OwnedInit ==
    ASSUME RecordedPlans, Init
    PROVE  OInv
<1>1. PICK plan \in Plans : st = plan.st /\ pg = plan.pg /\ faults = plan.faults
  BY DEF Init
<1>2. w.pc = "idle"
  BY StartValues DEF Init
<1>3. "error" \notin faults.kinds /\ pg.roles \subseteq Named
  BY <1>1 DEF RecordedPlans, Named
<1> QED BY <1>2, <1>3 DEF OInv, At, Making, Dropping, DropSteps

(* No group role is forgotten: when a pass succeeds, every group role on   *)
(* the engine is named by the status of the resource it is for or by that  *)
(* of another one.  For any number of resources, sharing names or not, and *)
(* any edits, of database names and master roles too, deletions, sessions  *)
(* and passes that stop at a refused statement.                            *)
THEOREM NoGroupRoleForgotten ==
    ASSUME PunctualPlans, RecordedPlans
    PROVE  Spec => []NoOrphanGroupRole
<1>1. Init => OInv
  BY OwnedInit
<1>2. OInv => NoOrphanGroupRole
  <2> SUFFICES ASSUME OInv, At("success") PROVE pg.roles \subseteq RolesOf(mem) \union NamedByOthers
    BY DEF NoOrphanGroupRole, NamedByOthers
  <2> QED BY DEF OInv, At, Fresh, Making
<1>3. Init => Coherent
  BY CoherentInit
<1>4. TInv /\ Coherent /\ [Next]_vars => Coherent'
  BY CoherentStep
<1>5. TInv /\ Coherent /\ OInv /\ [Next]_vars => OInv'
  BY OStep
<1> QED BY <1>1, <1>2, <1>3, <1>4, <1>5, TInit, TStep, PTL DEF Spec

-----------------------------------------------------------------------------
(* What a resource asks for, on the engine g: all of it, or nothing.       *)
InPlaceOn(g, c) ==
    /\ g.base[c.name].own = RoleFor(c, "owner")
    /\ \A kind \in Kinds : RoleFor(c, kind) \in g.roles \intersect g.member
    /\ c.exts \subseteq g.base[c.name].exts
    /\ \A s \in ListedSchemas(c), kind \in {"reader", "writer"} :
         /\ g.base[c.name].schemas[s] # NoRole
         /\ <<s, RoleFor(c, kind)>> \in g.base[c.name].privs
         /\ <<RoleFor(c, "owner"), s, RoleFor(c, kind)>> \in g.base[c.name].defaults

GoneFrom(g, c) ==
    /\ ~Exists(g, c.name)
    /\ \A kind \in Kinds : RoleFor(c, kind) \notin g.roles

LEMMA InPlaceHere == \A c : InPlace(c) <=> InPlaceOn(pg, c)
BY DEF InPlace, InPlaceOn

(* Two resources are apart when neither their databases nor their owner    *)
(* roles have a name in common.                                            *)
ApartNames(c, d) == c.name # d.name /\ (c.master = NoMaster \/ c.master # d.master)

LEMMA ApartRoles ==
    ASSUME NEW c, NEW d, ApartNames(c, d), NEW k \in Kinds, NEW l \in Kinds
    PROVE  RoleFor(c, k) # RoleFor(d, l)
BY DEF ApartNames, RoleFor, Kinds

LEMMA SameGone ==
    ASSUME NEW g, NEW c, NEW d, SameNames(c, d), GoneFrom(g, c)
    PROVE  GoneFrom(g, d)
BY DEF SameNames, RoleFor, GoneFrom

(* From g to h nothing of what c asks for is lost, and nothing is made of  *)
(* it when nothing is there.                                               *)
Spares(g, h, c) ==
    /\ \A kind \in Kinds : RoleFor(c, kind) \in h.roles <=> RoleFor(c, kind) \in g.roles
    /\ \A kind \in Kinds : RoleFor(c, kind) \in g.member => RoleFor(c, kind) \in h.member
    /\ g.base[c.name].own \in {NoRole, RoleFor(c, "owner")}
         => h.base[c.name].own = g.base[c.name].own
    /\ h.base[c.name].exts = g.base[c.name].exts
    /\ h.base[c.name].schemas = g.base[c.name].schemas
    /\ h.base[c.name].privs = g.base[c.name].privs
    /\ h.base[c.name].defaults = g.base[c.name].defaults

LEMMA SparedInPlace ==
    ASSUME NEW g, NEW h, NEW c, Spares(g, h, c), InPlaceOn(g, c)
    PROVE  InPlaceOn(h, c)
BY DEF Spares, InPlaceOn

LEMMA SparedGone ==
    ASSUME NEW g, NEW h, NEW c, Spares(g, h, c), GoneFrom(g, c)
    PROVE  GoneFrom(h, c)
BY DEF Spares, GoneFrom, Exists

LEMMA HeldSpares ==
    ASSUME NEW g, NEW h, Held(g, h), NEW c \in Resource
    PROVE  Spares(g, h, c)
BY DEF Held, Spares, Resource

LEMMA ElsewhereSpares ==
    ASSUME NEW g, NEW h, NEW n, Elsewhere(g, h, n), NEW c \in Resource, c.name # n
    PROVE  Spares(g, h, c)
BY DEF Elsewhere, Spares, Resource

(* What the statements of a pass leave of the other databases.             *)
LEMMA OwnedElsewhere ==
    ASSUME NEW g \in EngineStates, NEW a \in Owners, NEW n \in Names, NEW m \in Names, m # n,
           NEW k, k = After(g, ChangeAndDropOwnedBy(a, n), NoBase)
    PROVE  /\ k.base[m].own = Renamed(a, Operator, g.base[m].own)
           /\ k.base[m].exts = g.base[m].exts
           /\ k.base[m].schemas = g.base[m].schemas
           /\ k.base[m].privs = g.base[m].privs
           /\ k.base[m].defaults = g.base[m].defaults
<1> DEFINE h == OwnedDropped(g, a, n)
<1>1. k = [h EXCEPT !.sessions = @ \union {n}]
  BY DEF ChangeAndDropOwnedBy, Nothing, After, Done, Inside
<1>2. h = [g EXCEPT !.base = h.base] /\ h.base[m] = OwnerMoved(g.base[m], a)
  BY OwnedDroppedBase
<1> HIDE DEF h
<1>3. k.base = h.base
  BY <1>1, <1>2 DEF EngineStates
<1>4. g.base[m] \in Bases
  BY DEF EngineStates
<1> QED BY <1>2, <1>3, <1>4 DEF OwnerMoved, Bases

LEMMA RoleMadeSpares ==
    ASSUME NEW g \in EngineStates, NEW a, NEW c \in Resource,
           \A kind \in Kinds : RoleFor(c, kind) # a,
           NEW k, k = After(g, CreateGroupRole(a), NoBase) \/ k = After(g, GrantRole(a), NoBase)
    PROVE  Spares(g, k, c)
<1>1. k = [g EXCEPT !.roles = @ \union {a}] \/ k = [g EXCEPT !.member = @ \union {a}]
  BY DEF CreateGroupRole, GrantRole, Nothing, After, Done, Inside
<1> QED BY <1>1 DEF Spares, EngineStates

LEMMA RoleDroppedSpares ==
    ASSUME NEW g \in EngineStates, NEW a, NEW c \in Resource,
           \A kind \in Kinds : RoleFor(c, kind) # a,
           NEW k, k = After(g, DropRole(a), NoBase)
    PROVE  Spares(g, k, c)
<1>1. k.roles = g.roles \ {a} /\ k.member = g.member \ {a} /\ k.base = g.base
  BY RolesDropped
<1> QED BY <1>1 DEF Spares

LEMMA OwnedSpares ==
    ASSUME NEW g \in EngineStates, NEW a \in Roles, NEW n \in Names,
           NEW c \in Resource, c.name # n, \A kind \in Kinds : RoleFor(c, kind) # a,
           NEW k, k = After(g, ChangeAndDropOwnedBy(a, n), NoBase)
    PROVE  Spares(g, k, c)
<1>1. a \in Owners /\ c.name \in Names /\ a # NoRole
  BY RoleValues DEF Owners, Resource
<1>2. k.roles = g.roles /\ k.member = g.member
  BY RolesOwning
<1>3. /\ k.base[c.name].own = Renamed(a, Operator, g.base[c.name].own)
      /\ k.base[c.name].exts = g.base[c.name].exts
      /\ k.base[c.name].schemas = g.base[c.name].schemas
      /\ k.base[c.name].privs = g.base[c.name].privs
      /\ k.base[c.name].defaults = g.base[c.name].defaults
  BY <1>1, OwnedElsewhere
<1>4. "owner" \in Kinds
  BY DEF Kinds
<1>5. g.base[c.name].own \in {NoRole, RoleFor(c, "owner")}
        => k.base[c.name].own = g.base[c.name].own
  BY <1>1, <1>3, <1>4 DEF Renamed
<1> QED BY <1>2, <1>3, <1>5 DEF Spares

(* A status names nothing but what its resource asks for.                  *)
OwnNames(s, c) ==
    /\ s.db \in {NoName, c.name}
    /\ \A kind \in Kinds : s[kind] \in {NoRole, RoleFor(c, kind)}

(* The pass of a resource whose name was never edited spares what every    *)
(* other one asks for.                                                     *)
LEMMA MoveSpares ==
    ASSUME TInv, Move, OwnNames(mem, Asked), ~At("rename base"),
           NEW c \in Resource, ApartNames(c, Asked)
    PROVE  Spares(pg, pg', c)
<1>0. /\ pg \in EngineStates /\ w.kind \in Kinds /\ Asked.name \in Names /\ Wanted \in Roles
      /\ NoRole \notin pg.roles
  BY PassValues, RoleValues DEF TInv, TypeOK, EngineStates
<1>1. c.name # Asked.name /\ \A kind \in Kinds : RoleFor(c, kind) # Wanted
  BY <1>0, ApartRoles DEF ApartNames, Wanted
<1>2. mem[w.kind] = NoRole \/ mem[w.kind] = Wanted
  BY <1>0 DEF OwnNames, Wanted
<1>3. Spares(pg, pg, c)
  BY DEF Spares
<1>4. CASE RenameMove
  <2>1. pg' = pg
    BY <1>0, <1>2, <1>4 DEF RenameMove
  <2> QED BY <1>3, <2>1
<1>5. CASE CreateMove \/ GrantMove
  <2>1. \/ pg' = pg
        \/ pg' = After(pg, CreateGroupRole(Wanted), NoBase)
        \/ pg' = After(pg, GrantRole(Wanted), NoBase)
    BY <1>5 DEF CreateMove, GrantMove
  <2> QED BY <1>0, <1>1, <1>3, <2>1, RoleMadeSpares
<1>6. CASE SkipMove
  BY <1>3, <1>6 DEF SkipMove
<1>7. CASE OwnedMove
  <2>1. mem[w.kind] = Wanted
    BY <1>0, <1>2, <1>7 DEF OwnedMove
  <2>2. pg' = After(pg, ChangeAndDropOwnedBy(Wanted, Asked.name), NoBase)
    BY <1>7, <2>1 DEF OwnedMove
  <2> QED BY <1>0, <1>1, <2>2, OwnedSpares
<1>8. CASE DropMove
  <2>1. pg' = After(pg, DropRole(mem[w.kind]), NoBase)
    BY <1>8 DEF DropMove
  <2>2. \A kind \in Kinds : RoleFor(c, kind) # mem[w.kind]
    <3>1. \A kind \in Kinds : RoleFor(c, kind) \in Roles
      BY RoleForType, RoleValues
    <3> QED BY <1>1, <1>2, <3>1, RoleValues
  <2> QED BY <1>0, <2>1, <2>2, RoleDroppedSpares
<1>9. CASE LocalMove
  <2>1. Elsewhere(pg, pg', Asked.name)
    BY <1>9 DEF LocalMove
  <2> QED BY <1>1, <2>1, ElsewhereSpares
<1> QED BY <1>4, <1>5, <1>6, <1>7, <1>8, <1>9 DEF Move, RoleMove

-----------------------------------------------------------------------------
(* Resources do not get in each other's way: there is one, or their names  *)
(* are apart and are never edited.                                         *)
Blank(c, s) ==
    /\ ~c.exists /\ ~c.finalizer /\ ~s.ready
    /\ \A kind \in Kinds : s[kind] = NoRole

Alone ==
    \A r, q \in Resources : r # q => Blank(cr[r], st[r]) \/ Blank(cr[q], st[q])

Apart ==
    /\ edits.kinds \intersect {"name", "master"} = {}
    /\ \A r, q \in Resources : r # q => ApartNames(cr[r], cr[q])
    /\ \A r \in Resources : SameNames(read[r].cr, cr[r]) /\ OwnNames(st[r], cr[r])
    /\ ~At("idle") => OwnNames(mem, Asked) /\ ~At("rename base")

Separate == Alone \/ Apart

LEMMA BlankStep ==
    ASSUME TInv, Coherent, [Next]_vars, NEW r \in Resources, Blank(cr[r], st[r])
    PROVE  Blank(cr'[r], st'[r])
<1>1. CASE Outside
  <2>1. st' = st /\ (cr'[r] = cr[r] \/ Altered(cr[r], cr'[r]))
    BY <1>1 DEF Outside
  <2> QED BY <2>1 DEF Altered, Blank
<1>2. CASE Move
  BY <1>2 DEF Move, Frame
<1>3. CASE Stopped \/ Succeeded \/ Departed
  <2>1. OthersKept(w.r) /\ w.r # r
    BY <1>3 DEF Stopped, Succeeded, Departed, Coherent, Blank, At
  <2> QED BY <2>1 DEF OthersKept
<1>4. ASSUME NEW q \in Resources, Looking(q)
      PROVE  Blank(cr'[r], st'[r])
  <2>1. CASE q = r
    <3>1. cr'[r] = cr[r] /\ ~st'[r].ready /\ NamesKept(st'[r], st[r])
      BY <1>4, <2>1 DEF Looking, Blank
    <3> QED BY <3>1 DEF NamesKept, Blank
  <2>2. CASE q # r
    BY <1>4, <2>2 DEF Looking, OthersKept
  <2> QED BY <2>1, <2>2
<1>5. ASSUME NEW q \in Resources, Opening(q)
      PROVE  Blank(cr'[r], st'[r])
  BY <1>5 DEF Opening, OthersKept, Blank
<1> QED BY <1>1, <1>2, <1>3, <1>4, <1>5, StepShapes

LEMMA AloneStep ==
    ASSUME TInv, Coherent, Alone, [Next]_vars
    PROVE  Alone'
<1> SUFFICES ASSUME NEW r \in Resources, NEW q \in Resources, r # q
             PROVE  Blank(cr'[r], st'[r]) \/ Blank(cr'[q], st'[q])
  BY DEF Alone
<1>1. Blank(cr[r], st[r]) \/ Blank(cr[q], st[q])
  BY DEF Alone
<1> QED BY <1>1, BlankStep

LEMMA NamesTransfer ==
    /\ \A s, t, c : NamesKept(s, t) /\ OwnNames(t, c) => OwnNames(s, c)
    /\ \A s, c, d : SameNames(c, d) /\ OwnNames(s, c) => OwnNames(s, d)
    /\ \A c, d, e : SameNames(c, d) /\ SameNames(d, e) => SameNames(c, e)
    /\ \A c, d : SameNames(c, d) => SameNames(d, c)
    /\ \A c : SameNames(c, c)
    /\ \A s : NamesKept(s, s)
BY DEF NamesKept, OwnNames, SameNames, RoleFor, Kinds

LEMMA MoveNames ==
    ASSUME TInv, Move, OwnNames(mem, Asked), ~At("rename base")
    PROVE  OwnNames(mem', Asked) /\ w'.pc # "rename base"
<1>0. w.kind \in Kinds
  BY PassValues DEF TInv
<1>1. CASE RenameMove \/ CreateMove \/ OwnedMove
  BY <1>1, RoleMoveNext DEF RenameMove, CreateMove, OwnedMove
<1>2. CASE GrantMove \/ SkipMove \/ DropMove
  <2>1. /\ w'.pc # "rename base"
        /\ mem' = [mem EXCEPT ![w.kind] = Wanted] \/ mem' = [mem EXCEPT ![w.kind] = NoRole]
    BY <1>2, RoleMoveNext DEF GrantMove, SkipMove, DropMove, Forgotten
  <2>2. /\ mem'.db = mem.db /\ mem'[w.kind] \in {Wanted, NoRole}
        /\ \A kind \in Kinds : kind # w.kind => mem'[kind] = mem[kind]
    <3>1. CASE mem' = [mem EXCEPT ![w.kind] = Wanted]
      BY <3>1, RoleRecorded
    <3>2. CASE mem' = [mem EXCEPT ![w.kind] = NoRole]
      BY <3>2, RoleRecorded
    <3> QED BY <2>1, <3>1, <3>2
  <2> QED BY <1>0, <2>1, <2>2 DEF OwnNames, Wanted
<1>3. CASE LocalMove
  <2>1. /\ \A kind \in Kinds : mem'[kind] = mem[kind]
        /\ mem'.db = mem.db \/ mem'.db = Asked.name
        /\ w'.pc = "rename base" => mem.db \notin {NoName, Asked.name}
    BY <1>3 DEF LocalMove
  <2> QED BY <2>1 DEF OwnNames
<1> QED BY <1>1, <1>2, <1>3 DEF Move, RoleMove

LEMMA ApartSame ==
    ASSUME TInv, Coherent, Apart, [Next]_vars
    PROVE  /\ edits'.kinds \intersect {"name", "master"} = {}
           /\ \A r \in Resources : SameNames(cr[r], cr'[r])
<1>s. \A c : SameNames(c, c)
  BY NamesTransfer
<1>1. CASE Outside
  BY <1>1, <1>s DEF Outside, Bounded, Altered, Apart
<1>2. CASE Move
  BY <1>2, <1>s DEF Move, Frame, Apart
<1>3. CASE Stopped \/ Succeeded
  BY <1>3, <1>s DEF Stopped, Succeeded, Bounded, Apart
<1>4. CASE Departed
  BY <1>4, <1>s DEF Departed, OthersKept, Alike, Bounded, Apart
<1>5. ASSUME NEW q \in Resources, Looking(q) \/ Opening(q)
      PROVE  /\ edits'.kinds \intersect {"name", "master"} = {}
             /\ \A r \in Resources : SameNames(cr[r], cr'[r])
  BY <1>5, <1>s DEF Looking, Opening, OthersKept, Bounded, Apart
<1> QED BY <1>1, <1>2, <1>3, <1>4, <1>5, StepShapes

LEMMA StoredCopy == \A r : Stored(r).cr = cr[r] /\ Stored(r).st = st[r]
BY DEF Stored

LEMMA ApartRead ==
    ASSUME TInv, Coherent, Apart, [Next]_vars, NEW r \in Resources
    PROVE  SameNames(read'[r].cr, cr[r]) /\ OwnNames(st'[r], cr[r])
<1>0. SameNames(read[r].cr, cr[r]) /\ OwnNames(st[r], cr[r]) /\ SameNames(cr[r], cr[r])
  BY NamesTransfer DEF Apart
<1>1. CASE Outside
  BY <1>0, <1>1 DEF Outside
<1>2. CASE Move
  BY <1>0, <1>2 DEF Move, Frame
<1>3. CASE Stopped \/ Succeeded
  <2>1. OthersKept(w.r) /\ NamesKept(st'[w.r], mem) /\ read' = read /\ ~At("idle")
    BY <1>3 DEF Stopped, Succeeded, At
  <2>2. OwnNames(mem, Asked) /\ Asked = read[w.r].cr
    BY <2>1 DEF Apart, Asked
  <2>3. CASE r = w.r
    <3>1. OwnNames(mem, cr[r])
      BY <1>0, <2>2, <2>3, NamesTransfer
    <3>2. OwnNames(st'[r], cr[r])
      BY <2>1, <2>3, <3>1, NamesTransfer
    <3> QED BY <1>0, <2>1, <3>2
  <2> QED BY <1>0, <2>1, <2>3 DEF OthersKept
<1>4. CASE Departed
  BY <1>0, <1>4 DEF Departed
<1>5. ASSUME NEW q \in Resources, Looking(q) \/ Opening(q)
      PROVE  SameNames(read'[r].cr, cr[r]) /\ OwnNames(st'[r], cr[r])
  <2>1. /\ OthersKept(q) /\ read'[q] = Stored(q)
        /\ NamesKept(st'[q], st[q]) \/ st'[q] = st[q]
    BY <1>5 DEF Looking, Opening
  <2>2. Stored(q).cr = cr[q]
    BY StoredCopy
  <2>3. CASE q = r
    <3>1. OwnNames(st'[r], cr[r])
      BY <1>0, <2>1, <2>3, NamesTransfer
    <3> QED BY <1>0, <2>1, <2>2, <2>3, <3>1
  <2> QED BY <1>0, <2>1, <2>3 DEF OthersKept
<1> QED BY <1>1, <1>2, <1>3, <1>4, <1>5, StepShapes

LEMMA ApartPass ==
    ASSUME TInv, Coherent, Apart, [Next]_vars, w'.pc # "idle"
    PROVE  OwnNames(mem', Asked') /\ w'.pc # "rename base"
<1>1. CASE Outside
  BY <1>1 DEF Outside, Apart, Asked, At
<1>2. CASE Move /\ ~At("idle")
  <2>1. Asked' = Asked
    BY <1>2 DEF Move, Frame, Onward, Asked
  <2> QED BY <1>2, <2>1, MoveNames DEF Apart
<1>3. CASE Stopped \/ Succeeded \/ Departed
  BY <1>3 DEF Stopped, Succeeded, Departed
<1>4. ASSUME NEW q \in Resources, Looking(q)
      PROVE  FALSE
  BY <1>4 DEF Looking
<1>5. ASSUME NEW q \in Resources, Opening(q)
      PROVE  OwnNames(mem', Asked') /\ w'.pc # "rename base"
  <2>1. /\ w'.r = q /\ mem' = st[q] /\ read'[q] = Stored(q) /\ w'.pc # "rename base"
    BY <1>5 DEF Opening
  <2>2. Asked' = cr[q]
    <3>1. read'[q].cr = cr[q]
      BY <2>1, StoredCopy
    <3> QED BY <2>1, <3>1 DEF Asked
  <2> QED BY <2>1, <2>2 DEF Apart
<1> QED BY <1>1, <1>2, <1>3, <1>4, <1>5, StepShapes

LEMMA ApartStep ==
    ASSUME TInv, Coherent, Apart, [Next]_vars
    PROVE  Apart'
<1>1. /\ edits'.kinds \intersect {"name", "master"} = {}
      /\ \A r \in Resources : SameNames(cr[r], cr'[r])
  BY ApartSame
<1>2. ASSUME NEW r \in Resources, NEW q \in Resources, r # q
      PROVE  ApartNames(cr'[r], cr'[q])
  <2>1. ApartNames(cr[r], cr[q])
    BY <1>2 DEF Apart
  <2> QED BY <1>1, <2>1 DEF ApartNames, SameNames
<1>3. ASSUME NEW r \in Resources
      PROVE  SameNames(read'[r].cr, cr'[r]) /\ OwnNames(st'[r], cr'[r])
  <2>1. SameNames(read'[r].cr, cr[r]) /\ OwnNames(st'[r], cr[r])
    BY ApartRead
  <2> QED BY <1>1, <2>1, NamesTransfer
<1>4. w'.pc # "idle" => OwnNames(mem', Asked') /\ w'.pc # "rename base"
  BY ApartPass
<1> QED BY <1>1, <1>2, <1>3, <1>4 DEF Apart, At

LEMMA SeparateStep ==
    ASSUME TInv, Coherent, Separate, [Next]_vars
    PROVE  Separate'
BY AloneStep, ApartStep DEF Separate

-----------------------------------------------------------------------------
(* ReadyInPlace.  What the last pass read is in place on the engine, when  *)
(* the status says ready; a running pass takes nothing away but what its   *)
(* own resource asks for.                                                  *)
Standing ==
    \A r \in Resources :
        ((At("idle") \/ w.r # r) /\ read[r].cr.exists /\ ~read[r].cr.deleting /\ st[r].ready)
            => InPlaceOn(pg, read[r].cr)

LEMMA OthersApart ==
    ASSUME TInv, Coherent, Separate, ~At("idle"),
           NEW q \in Resources, q # w.r, ~Blank(cr[q], st[q])
    PROVE  Apart /\ ApartNames(cr[q], cr[w.r]) /\ ApartNames(read[q].cr, Asked)
<1>0. w.r \in Resources
  BY PassValues DEF TInv
<1>1. ~Blank(cr[w.r], st[w.r])
  BY DEF Coherent, Blank
<1>2. Apart
  BY <1>0, <1>1 DEF Separate, Alone
<1>3. /\ ApartNames(cr[q], cr[w.r])
      /\ SameNames(read[q].cr, cr[q]) /\ SameNames(Asked, cr[w.r])
  BY <1>0, <1>2 DEF Apart, Asked
<1> QED BY <1>2, <1>3 DEF ApartNames, SameNames

LEMMA StandingStep ==
    ASSUME TInv, Coherent, PInv, Separate, Standing, [Next]_vars
    PROVE  Standing'
<1> SUFFICES ASSUME NEW r \in Resources, w'.pc = "idle" \/ w'.r # r,
                    read'[r].cr.exists, ~read'[r].cr.deleting, st'[r].ready
             PROVE  InPlaceOn(pg', read'[r].cr)
  BY DEF Standing, At
<1>0. read[r].cr \in Resource /\ cr[r] \in Resource
  BY DEF TInv, TypeOK
<1>h. ASSUME NEW c \in Resource, Held(pg, pg'), InPlaceOn(pg, c)
      PROVE  InPlaceOn(pg', c)
  BY <1>h, HeldSpares, SparedInPlace
<1>1. CASE Outside
  <2>1. /\ st' = st /\ read' = read /\ w' = w /\ Held(pg, pg')
    BY <1>1 DEF Outside
  <2>2. InPlaceOn(pg, read[r].cr)
    BY <2>1 DEF Standing, At
  <2> QED BY <1>0, <1>h, <2>1, <2>2
<1>2. CASE Move /\ ~At("idle")
  <2>1. st' = st /\ read' = read /\ w'.r = w.r /\ w'.pc # "idle"
    BY <1>2 DEF Move, Frame, Onward
  <2>2. InPlaceOn(pg, read[r].cr) /\ w.r # r
    BY <2>1 DEF Standing
  <2>3. ~Blank(cr[r], st[r])
    BY <2>1 DEF Blank
  <2>4. Apart /\ ApartNames(read[r].cr, Asked)
    BY <1>2, <2>2, <2>3, OthersApart
  <2>5. OwnNames(mem, Asked) /\ ~At("rename base")
    BY <1>2, <2>4 DEF Apart
  <2>6. Spares(pg, pg', read[r].cr)
    BY <1>0, <1>2, <2>4, <2>5, MoveSpares
  <2> QED BY <2>1, <2>2, <2>6, SparedInPlace
<1>3. CASE Stopped
  <2>1. r # w.r /\ OthersKept(w.r) /\ pg' = pg
    BY <1>3 DEF Stopped
  <2> QED BY <2>1 DEF OthersKept, Standing
<1>4. CASE Succeeded
  <2>1. OthersKept(w.r) /\ pg' = pg /\ read' = read /\ At("success")
    BY <1>4 DEF Succeeded
  <2>2. CASE r = w.r
    <3>1. InPlace(Asked)
      BY <2>1, PlacedProvides DEF Provisioned
    <3> QED BY <2>1, <2>2, <3>1, InPlaceHere DEF Asked
  <2> QED BY <2>1, <2>2 DEF OthersKept, Standing
<1>5. CASE Departed
  <2>1. OthersKept(w.r) /\ pg' = pg /\ read' = read /\ At("finalize") /\ st' = st
    BY <1>5 DEF Departed
  <2>2. Asked.deleting
    BY <2>1 DEF Coherent, At, Dropping, DropSteps
  <2>3. r # w.r
    BY <2>1, <2>2 DEF Asked
  <2> QED BY <2>1, <2>3 DEF Standing
<1>6. ASSUME NEW q \in Resources, Looking(q)
      PROVE  InPlaceOn(pg', read'[r].cr)
  <2>1. /\ At("idle") /\ OthersKept(q) /\ pg' = pg /\ read'[q] = Stored(q)
        /\ st'[q].ready => ~cr[q].exists
    BY <1>6 DEF Looking
  <2>2. r # q
    <3>1. read'[q].cr = cr[q]
      BY <2>1, StoredCopy
    <3> QED BY <2>1, <3>1
  <2> QED BY <2>1, <2>2 DEF OthersKept, Standing
<1>7. ASSUME NEW q \in Resources, Opening(q)
      PROVE  InPlaceOn(pg', read'[r].cr)
  <2>1. /\ At("idle") /\ OthersKept(q) /\ Held(pg, pg') /\ w'.r = q /\ w'.pc # "idle"
    BY <1>7 DEF Opening
  <2>2. InPlaceOn(pg, read[r].cr) /\ read'[r] = read[r]
    BY <2>1 DEF OthersKept, Standing
  <2> QED BY <1>0, <1>h, <2>1, <2>2
<1> QED BY <1>1, <1>2, <1>3, <1>4, <1>5, <1>6, <1>7, StepShapes

(* A plan whose resources do not get in each other's way: there is one, or *)
(* their names are apart, no edit is about names and no status names       *)
(* anything else.                                                          *)
SeparatePlans ==
    \A plan \in Plans :
        \/ \A r, q \in Resources :
             r # q => Blank(plan.cr[r], plan.st[r]) \/ Blank(plan.cr[q], plan.st[q])
        \/ /\ plan.edits.kinds \intersect {"name", "master"} = {}
           /\ \A r, q \in Resources : r # q => ApartNames(plan.cr[r], plan.cr[q])
           /\ \A r \in Resources : OwnNames(plan.st[r], plan.cr[r])

(* What a status reports at first is there.                                *)
StandingPlans ==
    \A plan \in Plans, r \in Resources :
        (plan.cr[r].exists /\ ~plan.cr[r].deleting /\ plan.st[r].ready)
            => InPlaceOn(plan.pg, plan.cr[r])

LEMMA SeparateInit ==
    ASSUME SeparatePlans, Init
    PROVE  Separate
<1>1. PICK plan \in Plans : cr = plan.cr /\ st = plan.st /\ edits = plan.edits
  BY DEF Init
<1>2. w.pc = "idle"
  BY StartValues DEF Init
<1>3. \A r \in Resources : read[r].cr = cr[r]
  BY DEF Init, Stored
<1>4. CASE \A r, q \in Resources :
             r # q => Blank(plan.cr[r], plan.st[r]) \/ Blank(plan.cr[q], plan.st[q])
  BY <1>1, <1>4 DEF Separate, Alone
<1>5. CASE /\ plan.edits.kinds \intersect {"name", "master"} = {}
           /\ \A r, q \in Resources : r # q => ApartNames(plan.cr[r], plan.cr[q])
           /\ \A r \in Resources : OwnNames(plan.st[r], plan.cr[r])
  BY <1>1, <1>2, <1>3, <1>5, NamesTransfer DEF Separate, Apart, At
<1> QED BY <1>4, <1>5 DEF SeparatePlans

(* What a status reports stays in place: no pass of another resource, no   *)
(* edit of another one, its deletion included, and no failed pass takes    *)
(* the database, its owner, a group role, an extension or a privilege from *)
(* a resource that is ready and whose spec is the one the last pass read.  *)
(* For any number of resources with names of their own, or for one whose   *)
(* name and master role are edited too; calls may fail, sessions come and  *)
(* go.                                                                     *)
THEOREM ReadyStaysInPlace ==
    ASSUME PunctualPlans, SeparatePlans, StandingPlans
    PROVE  Spec => []ReadyInPlace
<1>1. Init => Standing
  <2> SUFFICES ASSUME Init PROVE Standing
    OBVIOUS
  <2>1. PICK plan \in Plans : cr = plan.cr /\ st = plan.st /\ pg = plan.pg
    BY DEF Init
  <2>2. \A r \in Resources : read[r].cr = cr[r]
    BY DEF Init, Stored
  <2> QED BY <2>1, <2>2 DEF StandingPlans, Standing
<1>2. TypeOK /\ Standing => ReadyInPlace
  <2> SUFFICES ASSUME TypeOK, Standing, NEW r \in Resources, Reported(r)
               PROVE  InPlace(cr[r])
    BY DEF ReadyInPlace
  <2>1. InPlaceOn(pg, cr[r])
    BY DEF Standing, Reported
  <2> QED BY <2>1, InPlaceHere
<1>3. Init => Coherent /\ Separate
  BY CoherentInit, SeparateInit
<1>4. TInv /\ Coherent /\ [Next]_vars => Coherent'
  BY CoherentStep
<1>5. TInv /\ Coherent /\ Separate /\ [Next]_vars => Separate'
  BY SeparateStep
<1>6. TInv /\ Coherent /\ PInv /\ Separate /\ Standing /\ [Next]_vars => Standing'
  BY StandingStep
<1>7. TInv => TypeOK
  BY DEF TInv
<1>8. Coherent => LateSpares
  BY PunctualSpares DEF Coherent
<1> QED BY <1>1, <1>2, <1>3, <1>4, <1>5, <1>6, <1>7, <1>8, TInit, TStep, PInit, PStep, PTL DEF Spec

-----------------------------------------------------------------------------
(* NothingLeft.  What a pass that drops a database has dropped so far.     *)
Emptied ==
    w.pc \in Dropping /\ Asked.drop /\ engine # "gone" =>
        /\ w.pc \notin {"drop owned", "drop role"} => \A kind \in Kinds : mem[kind] = NoRole
        /\ w.pc \in {"drop owned", "drop role"} => /\ w.kind # "owner" => mem.owner = NoRole
                                                   /\ w.kind = "reader" => mem.writer = NoRole
        /\ w.pc = "finalize" => ~Exists(pg, Asked.name)

LEMMA EmptiedMove ==
    ASSUME TInv, Emptied, Move, w'.pc \in Dropping, Asked.drop, engine # "gone"
    PROVE  /\ w'.pc \notin {"drop owned", "drop role"} => \A kind \in Kinds : mem'[kind] = NoRole
           /\ w'.pc \in {"drop owned", "drop role"} => /\ w'.kind # "owner" => mem'.owner = NoRole
                                                       /\ w'.kind = "reader" => mem'.writer = NoRole
           /\ w'.pc = "finalize" => ~Exists(pg', Asked.name)
<1>0. w.kind \in Kinds /\ w.pc \in Dropping
  BY PassValues DEF TInv, Move, Frame, Onward
<1>k. w.kind = "owner" \/ w.kind = "reader" \/ w.kind = "writer"
  BY <1>0 DEF Kinds
<1>1. CASE RenameMove \/ CreateMove \/ GrantMove
  BY <1>0, <1>1 DEF RenameMove, CreateMove, GrantMove, At, Dropping, DropSteps
<1>2. CASE OwnedMove
  <2>1. w'.pc = "drop role" /\ w'.kind = w.kind /\ mem' = mem /\ w.pc = "drop owned"
    BY <1>2, RoleMoveNext DEF OwnedMove, At
  <2> QED BY <1>0, <2>1 DEF Emptied
<1>3. CASE SkipMove \/ DropMove
  <2>1. /\ \/ w.kind = "owner" /\ w'.pc = "drop owned" /\ w'.kind = "writer"
           \/ w.kind = "writer" /\ w'.pc = "drop owned" /\ w'.kind = "reader"
           \/ w.kind = "reader" /\ w'.pc = "close"
        /\ w.pc = "drop owned" \/ w.pc = "drop role"
        /\ mem' = [mem EXCEPT ![w.kind] = NoRole]
    BY <1>3, RoleMoveNext DEF SkipMove, DropMove, Forgotten, At
  <2>2. mem'[w.kind] = NoRole /\ \A kind \in Kinds : kind # w.kind => mem'[kind] = mem[kind]
    BY <2>1, RoleRecorded
  <2>3. /\ w.kind # "owner" => mem.owner = NoRole
        /\ w.kind = "reader" => mem.writer = NoRole
    BY <1>0, <2>1 DEF Emptied
  <2>4. /\ w.kind # "owner" => mem["owner"] = NoRole
        /\ w.kind = "reader" => mem["writer"] = NoRole
    BY <2>3
  <2>5. "owner" \in Kinds /\ "writer" \in Kinds /\ Kinds = {"owner", "reader", "writer"}
    BY DEF Kinds
  <2> QED BY <2>1, <2>2, <2>4, <2>5
<1>4. CASE LocalMove
  <2>1. /\ w.pc \notin {"drop owned", "drop role"} /\ w'.pc \notin {"drop owned", "drop role"}
        /\ \A kind \in Kinds : mem'[kind] = mem[kind]
        /\ w'.pc = "finalize" => ~Exists(pg', Asked.name)
    BY <1>4 DEF LocalMove
  <2> QED BY <1>0, <2>1 DEF Emptied
<1> QED BY <1>1, <1>2, <1>3, <1>4 DEF Move, RoleMove

LEMMA EmptiedStep ==
    ASSUME TInv, Coherent, Emptied, [Next]_vars
    PROVE  Emptied'
<1>1. CASE Outside
  <2>1. /\ UNCHANGED <<read, mem, w>> /\ Held(pg, pg') /\ Asked' = Asked
        /\ engine' # "gone" => engine # "gone"
    BY <1>1 DEF Outside, Asked
  <2>2. Exists(pg', Asked.name) <=> Exists(pg, Asked.name)
    BY <2>1, PassValues DEF Held, Exists, TInv
  <2> QED BY <2>1, <2>2 DEF Emptied
<1>2. CASE Move /\ ~At("idle")
  <2>1. Asked' = Asked /\ engine' = engine
    BY <1>2 DEF Move, Frame, Onward, Asked
  <2>2. Asked.drop /\ engine # "gone" /\ w'.pc \in Dropping =>
          /\ w'.pc \notin {"drop owned", "drop role"} => \A kind \in Kinds : mem'[kind] = NoRole
          /\ w'.pc \in {"drop owned", "drop role"} => /\ w'.kind # "owner" => mem'.owner = NoRole
                                                      /\ w'.kind = "reader" => mem'.writer = NoRole
          /\ w'.pc = "finalize" => ~Exists(pg', Asked.name)
    BY <1>2, EmptiedMove
  <2> QED BY <2>1, <2>2 DEF Emptied
<1>3. CASE w'.pc = "idle"
  BY <1>3 DEF Emptied, Dropping, DropSteps
<1>4. ASSUME NEW r \in Resources, Opening(r)
      PROVE  Emptied'
  <2>1. /\ w'.r = r /\ w'.kind = "owner" /\ read'[r] = Stored(r) /\ engine' = engine
        /\ \/ w'.pc = "rename role"
           \/ w'.pc = "drop owned"
           \/ w'.pc = "finalize" /\ (cr[r].drop => engine = "gone")
    BY <1>4 DEF Opening
  <2>2. Asked' = cr[r]
    <3>1. read'[r].cr = cr[r]
      BY <2>1, StoredCopy
    <3> QED BY <2>1, <3>1 DEF Asked
  <2> QED BY <2>1, <2>2 DEF Emptied, Dropping, DropSteps
<1> QED BY <1>1, <1>2, <1>3, <1>4, StepShapes DEF Stopped, Succeeded, Departed, Looking

LEMMA NothingLeftGone ==
    NothingLeft <=>
        \A r \in Resources :
            (~cr[r].exists /\ cr[r].finalizer /\ cr[r].drop /\ engine # "gone")
                => GoneFrom(pg, cr[r])
BY DEF NothingLeft, GoneFrom

(* The pass that ends a deletion leaves nothing of what it was for.        *)
LEMMA DepartedGone ==
    ASSUME TInv, Coherent, Separate, OInv, Emptied, At("finalize"), Asked.drop, engine # "gone"
    PROVE  GoneFrom(pg, cr[w.r])
<1>0. w.r \in Resources /\ w.pc = "finalize" /\ w.pc \in Dropping /\ NoRole \notin pg.roles
  BY PassValues, RoleValues DEF TInv, TypeOK, EngineStates, At, Dropping
<1>1. Asked = cr[w.r] /\ cr[w.r].exists
  BY <1>0 DEF Coherent, At
<1>2. ~Exists(pg, Asked.name) /\ \A kind \in Kinds : mem[kind] = NoRole
  BY <1>0 DEF Emptied
<1>3. pg.roles \subseteq NamedByOthers
  <2>1. pg.roles \subseteq RolesOf(mem) \union NamedByOthers
    BY <1>0 DEF OInv, At, Fresh, Making
  <2>2. RolesOf(mem) = {mem[kind] : kind \in Kinds}
    BY RolesOfKinds
  <2> QED BY <1>0, <1>2, <2>1, <2>2
<1>4. ASSUME NEW kind \in Kinds, RoleFor(cr[w.r], kind) \in pg.roles
      PROVE  FALSE
  <2>1. PICK q \in Resources \ {w.r} : RoleFor(cr[w.r], kind) \in RolesOf(st[q])
    BY <1>3, <1>4 DEF NamedByOthers
  <2>2. PICK l \in Kinds : st[q][l] = RoleFor(cr[w.r], kind)
    BY <2>1, RolesOfKinds
  <2>3. ~Blank(cr[q], st[q])
    BY <1>0, <1>4, <2>2 DEF Blank
  <2>4. Apart /\ ApartNames(cr[q], cr[w.r])
    BY <1>0, <2>3, OthersApart DEF At
  <2>5. st[q][l] = RoleFor(cr[q], l)
    BY <1>0, <1>4, <2>2, <2>4 DEF Apart, OwnNames
  <2> QED BY <2>2, <2>4, <2>5, ApartRoles
<1> QED BY <1>1, <1>2, <1>4 DEF GoneFrom

LEMMA NothingLeftStep ==
    ASSUME TInv, Coherent, Separate, OInv, Emptied, NothingLeft, [Next]_vars
    PROVE  NothingLeft'
<1> SUFFICES ASSUME NEW r \in Resources, ~cr'[r].exists, cr'[r].finalizer, cr'[r].drop,
                    engine' # "gone"
             PROVE  GoneFrom(pg', cr'[r])
  BY DEF NothingLeft, GoneFrom
<1>0. cr[r] \in Resource
  BY DEF TInv, TypeOK
<1>g. ~cr[r].exists /\ cr[r].finalizer /\ cr[r].drop /\ engine # "gone" => GoneFrom(pg, cr[r])
  BY NothingLeftGone
<1>1. CASE Outside
  <2>1. /\ Held(pg, pg') /\ engine # "gone"
        /\ cr'[r] = cr[r] \/ Altered(cr[r], cr'[r])
    BY <1>1 DEF Outside
  <2>2. cr'[r] = cr[r]
    BY <2>1 DEF Altered
  <2> QED BY <1>0, <1>g, <2>1, <2>2, HeldSpares, SparedGone
<1>2. CASE Move /\ ~At("idle")
  <2>1. cr' = cr /\ engine' = engine
    BY <1>2 DEF Move, Frame
  <2>2. GoneFrom(pg, cr[r]) /\ r # w.r
    BY <1>2, <1>g, <2>1 DEF Coherent
  <2>3. ~Blank(cr[r], st[r])
    BY <2>1 DEF Blank
  <2>4. Apart /\ ApartNames(cr[r], cr[w.r])
    BY <1>2, <2>2, <2>3, OthersApart
  <2>5. OwnNames(mem, Asked) /\ ~At("rename base") /\ ApartNames(cr[r], Asked)
    <3>1. SameNames(Asked, cr[w.r])
      BY <2>4, PassValues DEF Apart, Asked, TInv
    <3> QED BY <1>2, <2>4, <3>1 DEF Apart, ApartNames, SameNames
  <2>6. Spares(pg, pg', cr[r])
    BY <1>0, <1>2, <2>5, MoveSpares
  <2> QED BY <2>1, <2>2, <2>6, SparedGone
<1>3. CASE Stopped \/ Succeeded
  <2>1. cr' = cr /\ engine' = engine /\ pg' = pg
    BY <1>3 DEF Stopped, Succeeded
  <2> QED BY <1>g, <2>1
<1>4. CASE Departed
  <2>1. /\ OthersKept(w.r) /\ pg' = pg /\ engine' = engine /\ At("finalize")
        /\ Alike(cr[w.r], cr'[w.r])
    BY <1>4 DEF Departed
  <2>2. CASE r = w.r
    <3>1. Asked = cr[r]
      BY <2>1, <2>2 DEF Coherent, At, Dropping
    <3>2. Asked.drop
      BY <2>1, <2>2, <3>1 DEF Alike
    <3>3. SameNames(cr[r], cr'[r])
      BY <2>1, <2>2 DEF Alike
    <3>4. GoneFrom(pg, cr[r])
      BY <2>1, <2>2, <3>2, DepartedGone
    <3> QED BY <2>1, <3>3, <3>4, SameGone
  <2> QED BY <1>g, <2>1, <2>2 DEF OthersKept
<1>5. ASSUME NEW q \in Resources, Looking(q) \/ Opening(q)
      PROVE  GoneFrom(pg', cr'[r])
  <2>1. /\ Held(pg, pg') /\ engine' = engine /\ OthersKept(q)
        /\ cr'[q] = cr[q] \/ cr'[q].exists
    BY <1>5, SameHeld DEF Looking, Opening
  <2>2. cr'[r] = cr[r]
    BY <2>1 DEF OthersKept
  <2> QED BY <1>0, <1>g, <2>1, <2>2, HeldSpares, SparedGone
<1> QED BY <1>1, <1>2, <1>3, <1>4, <1>5, StepShapes

(* A resource that is not there at first never had a finalizer.            *)
AbsentPlans ==
    \A plan \in Plans, r \in Resources : plan.cr[r].exists \/ ~plan.cr[r].finalizer

(* A deletion leaves nothing: once a resource whose database was to be     *)
(* dropped is gone, there is no database of its name, and none of its      *)
(* three group roles, as long as the engine configuration is there; and    *)
(* the passes of the other resources do not bring them back.  For any      *)
(* number of resources with names of their own, or for one whose name and  *)
(* master role are edited before it is deleted; passes may stop at a       *)
(* refused statement, but no call fails.                                   *)
THEOREM DeletionLeavesNothing ==
    ASSUME PunctualPlans, RecordedPlans, SeparatePlans, AbsentPlans
    PROVE  Spec => []NothingLeft
<1>1. Init => NothingLeft /\ Emptied
  <2> SUFFICES ASSUME Init PROVE NothingLeft /\ Emptied
    OBVIOUS
  <2>1. PICK plan \in Plans : cr = plan.cr
    BY DEF Init
  <2>2. \A r \in Resources : cr[r].exists \/ ~cr[r].finalizer
    BY <2>1 DEF AbsentPlans
  <2>3. w.pc = "idle"
    BY StartValues DEF Init
  <2> QED BY <2>2, <2>3 DEF NothingLeft, Emptied, Dropping, DropSteps
<1>2. Init => Coherent /\ Separate /\ OInv
  BY CoherentInit, SeparateInit, OwnedInit
<1>3. TInv /\ Coherent /\ [Next]_vars => Coherent'
  BY CoherentStep
<1>4. TInv /\ Coherent /\ Separate /\ [Next]_vars => Separate'
  BY SeparateStep
<1>5. TInv /\ Coherent /\ OInv /\ [Next]_vars => OInv'
  BY OStep
<1>6. TInv /\ Coherent /\ Emptied /\ [Next]_vars => Emptied'
  BY EmptiedStep
<1>7. TInv /\ Coherent /\ Separate /\ OInv /\ Emptied /\ NothingLeft /\ [Next]_vars
        => NothingLeft'
  BY NothingLeftStep
<1> QED BY <1>1, <1>2, <1>3, <1>4, <1>5, <1>6, <1>7, TInit, TStep, PTL DEF Spec

-----------------------------------------------------------------------------
(* Additions.  The rest is about plans with any faults, whose edits ask for *)
(* more and for nothing less.                                              *)

(* The statements that add and take nothing, but for the one that makes a  *)
(* role the owner of a database.                                           *)
Adding == {"nothing", "create role", "grant role", "list", "create extension",
           "create schema", "privileges", "own table", "own type"}

(* The group roles of the resources C, and the owner one of them asks for. *)
OwnRoles(C) ==
    UNION {{RoleFor(C[r], kind) : kind \in Kinds} : r \in {q \in Resources : C[q].exists}}
OwnerFor(C, n, a) ==
    \E r \in Resources : C[r].exists /\ C[r].name = n /\ a = RoleFor(C[r], "owner")

Additive(C, s) ==
    \/ s.op \in Adding /\ (s.op = "create role" => s.role \in OwnRoles(C))
    \/ s.op = "own base" /\ OwnerFor(C, s.base, s.role)

(* From g to h nothing is lost, no role appears that no resource asks for, *)
(* and a database changes hands only to the owner that is asked for.       *)
Larger(b, c) ==
    /\ b.exts \subseteq c.exts
    /\ \A s \in Schemas : b.schemas[s] # NoRole => c.schemas[s] # NoRole
    /\ b.privs \subseteq c.privs /\ b.defaults \subseteq c.defaults

Grows(C, g, h) ==
    /\ g.roles \subseteq h.roles /\ g.member \subseteq h.member
    /\ h.roles \subseteq g.roles \union OwnRoles(C)
    /\ \A n \in Names :
         /\ Larger(g.base[n], h.base[n])
         /\ h.base[n].own = g.base[n].own \/ OwnerFor(C, n, h.base[n].own)

(* What does not change in the spec of a resource.                         *)
Steady(c, d) ==
    /\ SameNames(c, d) /\ d.exists = c.exists /\ d.dropModules = c.dropModules
    /\ c.exists => ~c.deleting /\ ~d.deleting
    /\ c.dropModules => d.exts = c.exts /\ ListedSchemas(d) = ListedSchemas(c)

Distinct(C) ==
    \A r, q \in Resources : r # q /\ C[r].exists /\ C[q].exists => C[r].name # C[q].name

(* The status s of the resource c says nothing but what is so on the       *)
(* engine g, and leaves nothing to remove.                                 *)
Honest(c, g, s) ==
    /\ s.db = NoName \/ (s.db = c.name /\ g.base[c.name].own = RoleFor(c, "owner"))
    /\ \A kind \in Kinds :
         \/ s[kind] = NoRole
         \/ s[kind] = RoleFor(c, kind) /\ RoleFor(c, kind) \in g.roles \intersect g.member
    /\ s.exts \subseteq g.base[c.name].exts
    /\ \A x \in s.schemas : SchemaInPlace(c, g.base[c.name], x)
    /\ c.dropModules => s.exts \subseteq c.exts /\ s.schemas \subseteq ListedSchemas(c)

(* The positions of a pass that drops and renames nothing.                 *)
Building == RoleSteps \union ModuleSteps \union {"close old", "own base"}

Builds(c, p) ==
    /\ p.pc \in Building
    /\ p.pc \in {"drop extensions", "drop schemas"} => p.todo = {}
    /\ p.pc = "create extensions" => p.todo \subseteq c.exts
    /\ p.pc \in SchemaSteps => p.todo \subseteq ListedSchemas(c)
    /\ p.pc \in WithSchema => p.item \in ListedSchemas(c)

AInv ==
    /\ edits.kinds \intersect {"name", "master", "delete"} = {}
    /\ \A r \in Resources :
         /\ Steady(cr[r], read[r].cr)
         /\ cr[r].exists => Honest(cr[r], pg, st[r]) /\ Honest(cr[r], pg, read[r].st)
         /\ cr[r].exists /\ cr[r].dropModules => edits.kinds \intersect {"schemas", "extensions"} = {}
    /\ Distinct(cr)
    /\ w.pc # "idle" => cr[w.r].exists /\ Builds(Asked, w) /\ Honest(Asked, pg, mem)
    /\ Additive(cr, late)

(* A step that keeps it, and by which the engine only grows.               *)
Added == AInv' /\ Grows(cr, pg, pg') /\ \A r \in Resources : Steady(cr[r], cr'[r])

-----------------------------------------------------------------------------
(* What an additive statement leaves.                                      *)
LEMMA GrowsSelf == \A C, g : Grows(C, g, g)
BY DEF Grows, Larger

LEMMA HeldGrows ==
    ASSUME NEW C, NEW g, NEW h, Held(g, h)
    PROVE  Grows(C, g, h)
BY DEF Held, Grows, Larger

LEMMA InsideGrows ==
    ASSUME NEW C, NEW g \in EngineStates, NEW q, q.op \in Inside, NEW n \in Names,
           q.base = n, NEW c, Done(g, q, NoBase) = Changed(g, n, c),
           Larger(g.base[n], c), c.own = g.base[n].own,
           NEW k, k = After(g, q, NoBase)
    PROVE  Grows(C, g, k)
<1> DEFINE h == Changed(g, n, c)
<1>1. Elsewhere(g, h, n) /\ Record(h) /\ h.base[n] = c
  <2>1. h.base = [g.base EXCEPT ![n] = c] /\ g.base \in [Names -> Bases]
    BY DEF Changed, EngineStates
  <2>2. h.base[n] = c
    BY <2>1
  <2> QED BY <2>2, ChangedElsewhere
<1>2. k = [h EXCEPT !.sessions = @ \union {n}]
  BY DEF After
<1> HIDE DEF h
<1>3. k.roles = h.roles /\ k.member = h.member /\ k.base = h.base
  BY <1>1, <1>2 DEF Record
<1>4. \A m \in Names : m # n => k.base[m] = g.base[m]
  BY <1>1, <1>3 DEF Elsewhere
<1>5. \A m \in Names : Larger(g.base[m], k.base[m]) /\ k.base[m].own = g.base[m].own
  BY <1>1, <1>3, <1>4 DEF Larger
<1>6. k.roles = g.roles /\ k.member = g.member
  BY <1>1, <1>3 DEF Elsewhere
<1> QED BY <1>5, <1>6 DEF Grows

LEMMA PrivilegesChange ==
    ASSUME NEW g \in EngineStates, NEW n \in Names, NEW o, NEW a, NEW x
    PROVE  \E c : /\ PrivilegesSet(g, n, o, a, x) = Changed(g, n, c)
                 /\ Larger(g.base[n], c) /\ c.own = g.base[n].own
<1> DEFINE c == [g.base[n] EXCEPT !.privs = @ \union {<<x, a>>},
                                  !.defaults = @ \union {<<o, x, a>>}]
<1>1. g.base \in [Names -> Bases] /\ g.base[n] \in Bases
  BY DEF EngineStates
<1>2. PrivilegesSet(g, n, o, a, x) = Changed(g, n, c)
  BY <1>1 DEF PrivilegesSet, Changed, EngineStates, Bases
<1>3. Larger(g.base[n], c) /\ c.own = g.base[n].own
  BY <1>1 DEF Larger, Bases
<1> QED BY <1>2, <1>3

LEMMA AdditiveGrows ==
    ASSUME NEW C, NEW g \in EngineStates, NEW q, Sound(q), Additive(C, q), Works(g, q),
           NEW k, k = After(g, q, NoBase)
    PROVE  Grows(C, g, k)
<1> DEFINE n == q.base
           b == g.base[n]
<1>1. CASE q.op = "nothing"
  <2>1. k = g
    BY <1>1 DEF After, Done, Inside
  <2> QED BY <2>1, GrowsSelf
<1>2. CASE q.op = "create role"
  <2>1. k = [g EXCEPT !.roles = @ \union {q.role}] /\ q.role \in OwnRoles(C)
    BY <1>2 DEF After, Done, Inside, Additive
  <2>2. k.roles = g.roles \union {q.role} /\ k.member = g.member /\ k.base = g.base
    BY <2>1 DEF EngineStates
  <2> QED BY <2>1, <2>2 DEF Grows, Larger
<1>3. CASE q.op = "grant role"
  <2>1. k = [g EXCEPT !.member = @ \union {q.role}]
    BY <1>3 DEF After, Done, Inside
  <2>2. k.roles = g.roles /\ k.member = g.member \union {q.role} /\ k.base = g.base
    BY <2>1 DEF EngineStates
  <2> QED BY <2>2 DEF Grows, Larger
<1>4. CASE q.op = "own base"
  <2>1. n \in Names /\ OwnerFor(C, n, q.role)
    BY <1>4 DEF Sound, Additive, Adding
  <2>2. g.base \in [Names -> Bases] /\ b \in Bases
    BY <2>1 DEF EngineStates
  <2>3. k = [g EXCEPT !.base[n].own = q.role]
    BY <1>4 DEF After, Done, Inside
  <2> DEFINE c == [b EXCEPT !.own = q.role]
  <2>4. k = Changed(g, n, c)
    BY <2>2, <2>3 DEF Changed, EngineStates, Bases
  <2>5. /\ c.own = q.role /\ c.exts = b.exts /\ c.schemas = b.schemas
        /\ c.privs = b.privs /\ c.defaults = b.defaults
    BY <2>2 DEF Bases
  <2> HIDE DEF c
  <2>6. Elsewhere(g, k, n) /\ k.base[n] = c
    <3>1. k.base = [g.base EXCEPT ![n] = c]
      BY <2>4 DEF Changed, EngineStates
    <3>2. k.base[n] = c
      BY <2>1, <2>2, <3>1
    <3> QED BY <2>1, <2>4, <3>2, ChangedElsewhere
  <2>7. \A m \in Names : Larger(g.base[m], k.base[m])
                         /\ (k.base[m].own = g.base[m].own \/ OwnerFor(C, m, k.base[m].own))
    BY <2>1, <2>5, <2>6 DEF Larger, Elsewhere
  <2> QED BY <2>6, <2>7 DEF Grows, Elsewhere
<1>5. CASE q.op \in Adding \ {"nothing", "create role", "grant role"}
  <2>0. q.op \in Inside /\ n \in Names
    BY <1>5 DEF Adding, Inside, Sound
  <2>b. g.base \in [Names -> Bases] /\ b \in Bases
    BY <2>0 DEF EngineStates
  <2>s. Changed(g, n, b) = g
    BY <2>b DEF Changed, EngineStates
  <2>i. ASSUME NEW c, Done(g, q, NoBase) = Changed(g, n, c), Larger(b, c), c.own = b.own
        PROVE  Grows(C, g, k)
    BY <2>0, <2>i, InsideGrows
  <2>1. CASE q.op = "list"
    <3>1. Done(g, q, NoBase) = Changed(g, n, b)
      BY <2>1, <2>s DEF Done
    <3>2. Larger(b, b)
      BY DEF Larger
    <3> HIDE DEF b, n
    <3> QED BY <2>i, <3>1, <3>2
  <2>2. CASE q.op = "create extension"
    <3> DEFINE c == [b EXCEPT !.exts = @ \union {q.item}]
    <3>1. Done(g, q, NoBase) = Changed(g, n, c)
      BY <2>b, <2>2 DEF Done, Changed, EngineStates, Bases
    <3>2. Larger(b, c) /\ c.own = b.own
      BY <2>b DEF Larger, Bases
    <3> HIDE DEF b, c, n
    <3> QED BY <2>i, <3>1, <3>2
  <2>3. CASE q.op = "create schema"
    <3> DEFINE c == [b EXCEPT !.schemas[q.item] = IF @ = NoRole THEN q.role ELSE @]
    <3>1. Done(g, q, NoBase) = Changed(g, n, c)
      BY <2>b, <2>3 DEF Done, Changed, EngineStates, Bases
    <3>2. q.role # NoRole
      <4>1. q.role \in g.roles /\ g.roles \subseteq Roles
        BY <2>3 DEF Works, EngineStates
      <4> QED BY <4>1, RoleValues
    <3>3. Larger(b, c) /\ c.own = b.own
      BY <2>b, <3>2 DEF Larger, Bases
    <3> HIDE DEF b, c, n
    <3> QED BY <2>i, <3>1, <3>3
  <2>4. CASE q.op = "privileges"
    <3>1. Done(g, q, NoBase) = PrivilegesSet(g, n, q.role, q.to, q.item)
      BY <2>4 DEF Done
    <3> HIDE DEF n
    <3>2. PICK c : /\ PrivilegesSet(g, n, q.role, q.to, q.item) = Changed(g, n, c)
                   /\ Larger(b, c) /\ c.own = b.own
      BY <2>0, PrivilegesChange
    <3> QED BY <2>i, <3>1, <3>2
  <2>5. CASE q.op = "own table"
    <3> DEFINE c == [b EXCEPT !.tables[Public] = q.role]
    <3>1. Done(g, q, NoBase) = TableOwned(g, n, q.role)
      BY <2>5 DEF Done
    <3>2. \/ TableOwned(g, n, q.role) = Changed(g, n, b)
          \/ TableOwned(g, n, q.role) = Changed(g, n, c)
      BY <2>b, <2>s DEF TableOwned, Changed, EngineStates, Bases
    <3>3. Larger(b, c) /\ c.own = b.own /\ Larger(b, b)
      BY <2>b DEF Larger, Bases
    <3> HIDE DEF b, c, n
    <3> QED BY <2>i, <3>1, <3>2, <3>3
  <2>6. CASE q.op = "own type"
    <3> DEFINE c == [b EXCEPT !.types[q.item] = q.role]
    <3>1. Done(g, q, NoBase) = Changed(g, n, c)
      BY <2>b, <2>6 DEF Done, Changed, EngineStates, Bases
    <3>2. Larger(b, c) /\ c.own = b.own
      BY <2>b DEF Larger, Bases
    <3> HIDE DEF b, c, n
    <3> QED BY <2>i, <3>1, <3>2
  <2> QED BY <1>5, <2>1, <2>2, <2>3, <2>4, <2>5, <2>6 DEF Adding
<1> QED BY <1>1, <1>2, <1>3, <1>4, <1>5 DEF Additive

-----------------------------------------------------------------------------
(* What keeps a status honest.                                             *)
LEMMA SteadyRoles ==
    ASSUME NEW c, NEW d, Steady(c, d)
    PROVE  \A kind : RoleFor(d, kind) = RoleFor(c, kind)
BY DEF Steady, SameNames, RoleFor

LEMMA SteadySelf == \A c : (c.exists => ~c.deleting) => Steady(c, c)
BY DEF Steady, SameNames

LEMMA SteadyTurned == \A c, d : Steady(c, d) => Steady(d, c)
BY DEF Steady, SameNames

LEMMA SteadyOn == \A c, d, e : Steady(c, d) /\ Steady(d, e) => Steady(c, e)
BY DEF Steady, SameNames

LEMMA HonestSteady ==
    ASSUME NEW c, NEW d, Steady(c, d), NEW g, NEW s, Honest(c, g, s)
    PROVE  Honest(d, g, s)
<1>1. /\ \A kind : RoleFor(d, kind) = RoleFor(c, kind)
      /\ d.name = c.name /\ d.dropModules = c.dropModules
      /\ c.dropModules => d.exts = c.exts /\ ListedSchemas(d) = ListedSchemas(c)
  BY SteadyRoles DEF Steady, SameNames
<1>2. \A b, x : SchemaInPlace(c, b, x) => SchemaInPlace(d, b, x)
  BY <1>1 DEF SchemaInPlace, Served
<1> QED BY <1>1, <1>2 DEF Honest

LEMMA SchemaGrows ==
    ASSUME NEW c, NEW b, NEW d, Larger(b, d), NEW x \in Schemas, SchemaInPlace(c, b, x)
    PROVE  SchemaInPlace(c, d, x)
BY DEF SchemaInPlace, Served, Larger

LEMMA HonestGrows ==
    ASSUME NEW C, Distinct(C), NEW r \in Resources, C[r].exists, NEW c, Steady(C[r], c),
           c.name \in Names, NEW s \in Statuses,
           NEW g, NEW h, Grows(C, g, h), Honest(c, g, s)
    PROVE  Honest(c, h, s)
<1> DEFINE b == g.base[c.name]
           d == h.base[c.name]
<1>1. /\ Larger(b, d) /\ g.roles \subseteq h.roles /\ g.member \subseteq h.member
      /\ d.own = b.own \/ OwnerFor(C, c.name, d.own)
  BY DEF Grows
<1>2. s.schemas \subseteq Schemas
  BY DEF Statuses
<1> HIDE DEF b, d
<1>3. b.own = RoleFor(c, "owner") => d.own = RoleFor(c, "owner")
  <2>1. CASE d.own = b.own
    BY <2>1
  <2>2. CASE OwnerFor(C, c.name, d.own)
    <3>1. PICK q \in Resources : C[q].exists /\ C[q].name = c.name /\ d.own = RoleFor(C[q], "owner")
      BY <2>2 DEF OwnerFor
    <3>2. q = r
      BY <3>1 DEF Distinct, Steady, SameNames
    <3> QED BY <3>1, <3>2, SteadyRoles
  <2> QED BY <1>1, <2>1, <2>2
<1>4. /\ s.db = NoName \/ (s.db = c.name /\ b.own = RoleFor(c, "owner"))
      /\ s.exts \subseteq b.exts
      /\ \A x \in s.schemas : SchemaInPlace(c, b, x)
  BY DEF Honest, b
<1>5. \A x \in s.schemas : SchemaInPlace(c, d, x)
  BY <1>1, <1>2, <1>4, SchemaGrows
<1>6. s.exts \subseteq d.exts
  BY <1>1, <1>4 DEF Larger
<1> QED BY <1>1, <1>3, <1>4, <1>5, <1>6 DEF Honest, d

(* A status each of whose fields is from one of two.                       *)
Mixed(u, s, t) ==
    /\ u.db = s.db \/ u.db = t.db
    /\ \A kind \in Kinds : u[kind] = s[kind] \/ u[kind] = t[kind]
    /\ u.schemas = s.schemas \/ u.schemas = t.schemas
    /\ u.exts = s.exts \/ u.exts = t.exts

LEMMA HonestMixed ==
    ASSUME NEW c, NEW g, NEW s, NEW t, NEW u, Honest(c, g, s), Honest(c, g, t), Mixed(u, s, t)
    PROVE  Honest(c, g, u)
BY DEF Honest, Mixed

LEMMA PatchHonest ==
    ASSUME TypeOK, NEW r \in Resources, NEW o, NEW m, st' = StatusPatch(r, o, m),
           NEW g, cr[r].exists => Honest(cr[r], g, st[r]) /\ Honest(cr[r], g, m)
    PROVE  /\ cr[r].exists => Honest(cr[r], g, st'[r])
           /\ \A q \in Resources : q # r => st'[q] = st[q]
<1>1. CASE ~cr[r].exists
  BY <1>1 DEF StatusPatch
<1>2. CASE cr[r].exists
  <2> DEFINE u == [f \in DOMAIN st[r] |-> Merged(o[f], m[f], st[r][f])]
  <2>1. st \in [Resources -> Statuses] /\ st[r] \in Statuses
    BY DEF TypeOK
  <2>2. DOMAIN st[r] = {"phase", "ready", "db", "owner", "reader", "writer", "schemas", "exts"}
    BY <2>1 DEF Statuses
  <2>3. \A f \in DOMAIN st[r] : u[f] = m[f] \/ u[f] = st[r][f]
    BY DEF Merged
  <2>4. st' = [st EXCEPT ![r] = u]
    BY <1>2, <2>1 DEF StatusPatch
  <2> HIDE DEF u
  <2>5. st'[r] = u /\ \A q \in Resources : q # r => st'[q] = st[q]
    BY <2>1, <2>4
  <2>6. Mixed(u, m, st[r])
    BY <2>2, <2>3 DEF Mixed, Kinds
  <2> QED BY <1>2, <2>5, <2>6, HonestMixed
<1> QED BY <1>1, <1>2

-----------------------------------------------------------------------------
(* The invariant from step to step.                                        *)
LEMMA SteadyResources ==
    ASSUME NEW C, NEW D, \A r \in Resources : Steady(C[r], D[r])
    PROVE  /\ OwnRoles(D) = OwnRoles(C)
           /\ \A n, a : OwnerFor(C, n, a) => OwnerFor(D, n, a)
           /\ Distinct(C) => Distinct(D)
           /\ \A s : Additive(C, s) => Additive(D, s)
<1>1. \A r \in Resources : /\ D[r].exists = C[r].exists /\ D[r].name = C[r].name
                           /\ \A kind : RoleFor(D[r], kind) = RoleFor(C[r], kind)
  BY SteadyRoles DEF Steady, SameNames
<1>2. OwnRoles(D) = OwnRoles(C)
  BY <1>1 DEF OwnRoles
<1>3. \A n, a : OwnerFor(C, n, a) => OwnerFor(D, n, a)
  BY <1>1 DEF OwnerFor
<1>4. Distinct(C) => Distinct(D)
  BY <1>1 DEF Distinct
<1>5. \A s : Additive(C, s) => Additive(D, s)
  BY <1>2, <1>3 DEF Additive
<1> QED BY <1>2, <1>3, <1>4, <1>5

LEMMA AddingStep ==
    ASSUME TInv, AInv, Grows(cr, pg, pg'), edits'.kinds = edits.kinds,
           \A r \in Resources : Steady(cr[r], cr'[r]),
           \A r \in Resources : cr[r].exists => Honest(cr[r], pg', st'[r]),
           \A r \in Resources : read'[r] = read[r] \/ read'[r] = Stored(r),
           w'.pc # "idle" => w'.r \in Resources /\ cr[w'.r].exists /\ Builds(Asked', w')
                             /\ Honest(Asked', pg', mem'),
           Additive(cr, late')
    PROVE  Added
<1>0. /\ cr \in [Resources -> Resource] /\ st \in [Resources -> Statuses]
      /\ read \in [Resources -> [cr : Resource, st : Statuses]]
  BY DEF TInv, TypeOK
<1>1. Distinct(cr) /\ Distinct(cr') /\ Additive(cr', late')
  BY SteadyResources DEF AInv
<1>2. ASSUME NEW r \in Resources
      PROVE  /\ Steady(cr'[r], read'[r].cr)
             /\ cr'[r].exists => Honest(cr'[r], pg', st'[r]) /\ Honest(cr'[r], pg', read'[r].st)
             /\ cr'[r].exists /\ cr'[r].dropModules
                  => edits'.kinds \intersect {"schemas", "extensions"} = {}
  <2>1. /\ Steady(cr[r], cr'[r]) /\ Steady(cr[r], read[r].cr) /\ cr'[r].exists = cr[r].exists
        /\ cr'[r].dropModules = cr[r].dropModules
        /\ cr[r].exists => Honest(cr[r], pg, st[r]) /\ Honest(cr[r], pg, read[r].st)
    BY DEF AInv, Steady
  <2>2. \/ read'[r].cr = read[r].cr /\ read'[r].st = read[r].st
        \/ read'[r].cr = cr[r] /\ read'[r].st = st[r]
    BY StoredCopy
  <2>3. Steady(cr'[r], read'[r].cr)
    BY <2>1, <2>2, SteadyTurned, SteadyOn
  <2>4. ASSUME cr[r].exists
        PROVE  Honest(cr'[r], pg', st'[r]) /\ Honest(cr'[r], pg', read'[r].st)
    <3>1. Honest(cr'[r], pg', st'[r])
      BY <2>1, <2>4, HonestSteady
    <3>2. Steady(cr[r], cr[r]) /\ cr[r].name \in Names /\ st[r] \in Statuses
          /\ read[r].st \in Statuses
      BY <1>0, <2>1, SteadySelf DEF Steady, Resource
    <3>3. Honest(cr[r], pg', st[r]) /\ Honest(cr[r], pg', read[r].st)
      BY <1>1, <2>1, <2>4, <3>2, HonestGrows
    <3>4. Honest(cr[r], pg', read'[r].st)
      BY <2>2, <3>3
    <3> QED BY <2>1, <3>1, <3>4, HonestSteady
  <2> QED BY <2>1, <2>3, <2>4 DEF AInv
<1>3. w'.pc # "idle" => cr'[w'.r].exists
  BY DEF Steady
<1> QED BY <1>1, <1>2, <1>3 DEF AInv, Added

(* What a running pass knows of its resource.                              *)
LEMMA AddingValues ==
    ASSUME TInv, AInv, ~At("idle")
    PROVE  /\ w.r \in Resources /\ cr[w.r].exists /\ Steady(cr[w.r], Asked)
           /\ Asked.name = cr[w.r].name /\ Asked.name \in Names
           /\ Builds(Asked, w) /\ Honest(Asked, pg, mem) /\ Honest(cr[w.r], pg, mem)
           /\ \A kind \in Kinds : RoleFor(Asked, kind) \in OwnRoles(cr)
           /\ OwnerFor(cr, Asked.name, RoleFor(Asked, "owner"))
<1>1. w.r \in Resources /\ Asked.name \in Names
  BY PassValues DEF TInv
<1>2. cr[w.r].exists /\ Steady(cr[w.r], Asked) /\ Builds(Asked, w) /\ Honest(Asked, pg, mem)
  BY <1>1 DEF AInv, Asked, At
<1>3. Asked.name = cr[w.r].name /\ \A kind : RoleFor(Asked, kind) = RoleFor(cr[w.r], kind)
  BY <1>2, SteadyRoles DEF Steady, SameNames
<1>4. Honest(cr[w.r], pg, mem)
  BY <1>2, SteadyTurned, HonestSteady
<1>5. \A kind \in Kinds : RoleFor(Asked, kind) \in OwnRoles(cr)
  BY <1>1, <1>2, <1>3 DEF OwnRoles
<1>6. OwnerFor(cr, Asked.name, RoleFor(Asked, "owner"))
  BY <1>1, <1>2, <1>3 DEF OwnerFor
<1> QED BY <1>1, <1>2, <1>3, <1>4, <1>5, <1>6

(* The pass ends: manageError, or the process stops.                       *)
LEMMA StopHonest ==
    ASSUME TInv, AInv, NEW r \in Resources, NEW o, NEW m \in Statuses,
           ManageError(r, o, m), cr[r].exists => Honest(cr[r], pg, m)
    PROVE  /\ \A q \in Resources : cr[q].exists => Honest(cr[q], pg, st'[q])
           /\ w'.pc = "idle"
<1>1. TypeOK /\ \A q \in Resources : cr[q].exists => Honest(cr[q], pg, st[q])
  BY DEF TInv, AInv
<1> DEFINE n == [m EXCEPT !.ready = FALSE, !.phase = "Failed"]
<1>2. st' = StatusPatch(r, o, n) /\ w'.pc = "idle"
  BY StartValues DEF ManageError, EndPass
<1>3. cr[r].exists => Honest(cr[r], pg, n)
  <2>1. Mixed(n, m, m)
    BY DEF Statuses, Mixed, Kinds
  <2> HIDE DEF n
  <2> QED BY <2>1, HonestMixed
<1> HIDE DEF n
<1>4. /\ cr[r].exists => Honest(cr[r], pg, st'[r])
      /\ \A q \in Resources : q # r => st'[q] = st[q]
  BY <1>1, <1>2, <1>3, PatchHonest
<1> QED BY <1>1, <1>2, <1>4

LEMMA EndAdds ==
    ASSUME TInv, AInv, ~At("idle"), UNCHANGED <<cr, pg, read>>, edits'.kinds = edits.kinds,
           Additive(cr, late'), Stop \/ (EndPass /\ UNCHANGED st)
    PROVE  Added
<1>1. \A r \in Resources : Steady(cr[r], cr'[r])
  BY SteadySelf DEF AInv, Steady
<1>2. Grows(cr, pg, pg')
  BY GrowsSelf
<1>3. /\ \A r \in Resources : cr[r].exists => Honest(cr[r], pg, st'[r])
      /\ w'.pc = "idle"
  <2>1. CASE Stop
    <3>1. mem \in Statuses /\ w.r \in Resources /\ Honest(cr[w.r], pg, mem)
      BY AddingValues, PassValues DEF TInv
    <3> QED BY <2>1, <3>1, StopHonest DEF Stop
  <2>2. CASE EndPass /\ UNCHANGED st
    BY <2>2, StartValues DEF EndPass, AInv
  <2> QED BY <2>1, <2>2
<1> QED BY <1>1, <1>2, <1>3, AddingStep

LEMMA NothingAdditive == \A C : Additive(C, Nothing)
BY DEF Additive, Adding, Nothing

LEMMA AfterAdds ==
    ASSUME TInv, AInv, ~At("idle"), NEW s, Sound(s), Additive(cr, s), Works(pg, s),
           NEW k, k = After(pg, s, NoBase)
    PROVE  /\ Grows(cr, pg, k) /\ Honest(Asked, k, mem)
           /\ \A r \in Resources : cr[r].exists => Honest(cr[r], k, st[r])
<1>0. /\ pg \in EngineStates /\ mem \in Statuses /\ cr \in [Resources -> Resource]
      /\ st \in [Resources -> Statuses]
  BY DEF TInv, TypeOK
<1>1. Grows(cr, pg, k)
  BY <1>0, AdditiveGrows
<1>2. Honest(Asked, k, mem)
  BY <1>0, <1>1, AddingValues, HonestGrows DEF AInv
<1>3. ASSUME NEW r \in Resources, cr[r].exists
      PROVE  Honest(cr[r], k, st[r])
  <2>1. Steady(cr[r], cr[r]) /\ cr[r].name \in Names /\ st[r] \in Statuses
    BY <1>0, <1>3, SteadySelf DEF AInv, Steady, Resource
  <2> QED BY <1>1, <1>3, <2>1, HonestGrows DEF AInv
<1> QED BY <1>1, <1>2, <1>3

LEMMA ExecuteAdds ==
    ASSUME TInv, AInv, ~At("idle"), NEW s, Sound(s), Additive(cr, s), NEW status, NEW next,
           Execute(s, status, next), next.r = w.r, Builds(Asked, next),
           Works(pg, s) => Honest(Asked, After(pg, s, NoBase), status)
    PROVE  Added
<1>0. Additive(cr, late)
  BY DEF AInv
<1>f. /\ \A r \in Resources : Steady(cr[r], cr[r])
      /\ w.r \in Resources /\ cr[w.r].exists
  BY AddingValues, SteadySelf DEF AInv, Steady
<1>1. CASE Works(pg, s) /\ pg' = Run(s) /\ mem' = status /\ w' = next
           /\ UNCHANGED <<clusterVars, st, late, read, boundVars>>
  <2> DEFINE k == After(pg, s, NoBase)
  <2>1. pg' = k
    BY <1>1 DEF Run
  <2>2. /\ Grows(cr, pg, k)
        /\ \A r \in Resources : cr[r].exists => Honest(cr[r], k, st[r])
    BY <1>1, AfterAdds
  <2>3. Asked' = Asked /\ UNCHANGED <<cr, st, late, read, edits>>
    BY <1>1 DEF Asked, clusterVars, boundVars
  <2>4. Honest(Asked, k, status)
    BY <1>1
  <2> HIDE DEF k
  <2>5. /\ \A r \in Resources : Steady(cr[r], cr'[r])
        /\ \A r \in Resources : cr[r].exists => Honest(cr[r], pg', st'[r])
        /\ w'.r \in Resources /\ cr[w'.r].exists /\ Builds(Asked', w')
        /\ Honest(Asked', pg', mem')
    BY <1>1, <1>f, <2>1, <2>2, <2>3, <2>4
  <2> QED BY <1>0, <2>1, <2>2, <2>3, <2>5, AddingStep
<1>2. CASE Stop /\ UNCHANGED <<clusterVars, pg, late, read, boundVars>>
  <2>1. UNCHANGED <<cr, pg, read, late, edits>>
    BY <1>2 DEF clusterVars, boundVars
  <2> QED BY <1>0, <1>2, <2>1, EndAdds
<1>3. CASE Interrupted(s)
  <2>1. UNCHANGED <<cr, pg, read, edits>> /\ late' = s /\ (Stop \/ (EndPass /\ UNCHANGED st))
    BY <1>3 DEF Interrupted, clusterVars
  <2> QED BY <2>1, EndAdds
<1> QED BY <1>1, <1>2, <1>3 DEF Execute

LEMMA QuietlyAdds ==
    ASSUME TInv, AInv, ~At("idle"), NEW next, Quietly(mem, next), next.r = w.r,
           Builds(Asked, next)
    PROVE  Added
<1>1. /\ UNCHANGED <<cr, st, pg, late, read, edits>> /\ mem' = mem /\ w' = next
  BY DEF Quietly, clusterVars, boundVars
<1>2. Asked' = Asked
  BY <1>1 DEF Asked
<1>3. /\ \A r \in Resources : Steady(cr[r], cr'[r])
      /\ \A r \in Resources : cr[r].exists => Honest(cr[r], pg', st'[r])
      /\ Grows(cr, pg, pg') /\ Additive(cr, late')
  BY <1>1, SteadySelf, GrowsSelf DEF AInv, Steady
<1>4. w.r \in Resources /\ cr[w.r].exists /\ Honest(Asked, pg, mem)
  BY AddingValues
<1>5. w'.r \in Resources /\ cr[w'.r].exists /\ Builds(Asked', w') /\ Honest(Asked', pg', mem')
  BY <1>1, <1>2, <1>4
<1> QED BY <1>1, <1>3, <1>5, AddingStep

LEMMA RejectAdds ==
    ASSUME TInv, AInv, ~At("idle"), Reject
    PROVE  Added
<1>1. UNCHANGED <<cr, pg, read, late, edits>> /\ Stop /\ Additive(cr, late)
  BY DEF Reject, clusterVars, boundVars, AInv
<1> QED BY <1>1, EndAdds

(* What a status may come to say.                                          *)
LEMMA HonestRole ==
    ASSUME NEW c, NEW g, NEW s \in Statuses, NEW kind \in Kinds, Honest(c, g, s),
           RoleFor(c, kind) \in g.roles, RoleFor(c, kind) \in g.member
    PROVE  Honest(c, g, [s EXCEPT ![kind] = RoleFor(c, kind)])
<1> DEFINE t == [s EXCEPT ![kind] = RoleFor(c, kind)]
<1>1. /\ t[kind] = RoleFor(c, kind) /\ \A other \in Kinds \ {kind} : t[other] = s[other]
      /\ t.db = s.db /\ t.schemas = s.schemas /\ t.exts = s.exts
  BY NamedRole
<1> HIDE DEF t
<1>2. Honest(c, g, t)
  BY <1>1 DEF Honest
<1> QED BY <1>2 DEF t

LEMMA HonestDb ==
    ASSUME NEW c, NEW g, NEW s \in Statuses, Honest(c, g, s),
           g.base[c.name].own = RoleFor(c, "owner"), NEW t, t = [s EXCEPT !.db = c.name]
    PROVE  Honest(c, g, t)
<1>1. /\ t.db = c.name /\ t.schemas = s.schemas /\ t.exts = s.exts
      /\ \A kind \in Kinds : t[kind] = s[kind]
  BY DEF Statuses, Kinds
<1> QED BY <1>1 DEF Honest

LEMMA HonestExts ==
    ASSUME NEW c, NEW g, NEW s \in Statuses, Honest(c, g, s), NEW X,
           X \subseteq g.base[c.name].exts, c.dropModules => X \subseteq c.exts,
           NEW t, t = [s EXCEPT !.exts = X]
    PROVE  Honest(c, g, t)
<1>1. /\ t.db = s.db /\ t.schemas = s.schemas /\ t.exts = X
      /\ \A kind \in Kinds : t[kind] = s[kind]
  BY DEF Statuses, Kinds
<1> QED BY <1>1 DEF Honest

LEMMA HonestSchemas ==
    ASSUME NEW c, NEW g, NEW s \in Statuses, Honest(c, g, s), NEW X,
           \A x \in X : SchemaInPlace(c, g.base[c.name], x),
           c.dropModules => X \subseteq ListedSchemas(c),
           NEW t, t = [s EXCEPT !.schemas = X]
    PROVE  Honest(c, g, t)
<1>1. /\ t.db = s.db /\ t.schemas = X /\ t.exts = s.exts
      /\ \A kind \in Kinds : t[kind] = s[kind]
  BY DEF Statuses, Kinds
<1> QED BY <1>1 DEF Honest

LEMMA RolesAdd ==
    ASSUME TInv, AInv, ManageRoles
    PROVE  Added
<1>0. TypeOK /\ w \in Passes /\ w.kind \in Kinds /\ mem \in Statuses /\ pg \in EngineStates
  BY PassValues DEF TInv, TypeOK
<1>i. ~At("idle")
  BY DEF ManageRoles, RenameOldRole, CreateRole, GrantToOperator, At
<1>p. RoleSteps \union {"close old", "extensions"} \subseteq Positions
  BY DEF RoleSteps, Positions
<1>g. \A p \in Positions : Goto(p) \in Passes /\ Goto(p).pc = p /\ Goto(p).r = w.r
  BY <1>0, GotoType
<1>b. ASSUME NEW next, next.pc \in RoleSteps \union {"close old", "extensions"}
      PROVE  Builds(Asked, next)
  BY <1>b DEF Builds, Building, RoleSteps, ModuleSteps, SchemaSteps, WithSchema
<1>h. Honest(Asked, pg, mem) /\ Wanted \in OwnRoles(cr) /\ Wanted \in Roles
  BY <1>0, <1>i, AddingValues, PassValues DEF Wanted
<1>1. CASE RenameOldRole
  <2>1. ~(IsRoleExist(pg, mem[w.kind]) /\ mem[w.kind] # Wanted)
    <3>1. NoRole \notin pg.roles
      BY <1>0, RoleValues DEF EngineStates
    <3> QED BY <1>0, <1>h, <3>1 DEF Honest, IsRoleExist, Wanted
  <2>2. Execute(Nothing, mem, Goto("create role"))
    BY <1>1, <2>1 DEF RenameOldRole
  <2>3. Goto("create role").r = w.r /\ Builds(Asked, Goto("create role"))
    BY <1>b, <1>g, <1>p DEF RoleSteps
  <2>4. Honest(Asked, After(pg, Nothing, NoBase), mem)
    BY <1>h, NothingDone
  <2> QED BY <1>i, <2>2, <2>3, <2>4, NothingAdditive, SoundStatements, ExecuteAdds
<1>2. CASE CreateRole
  <2> DEFINE s == IF IsRoleExist(pg, Wanted) THEN Nothing ELSE CreateGroupRole(Wanted)
  <2>1. Execute(s, mem, Goto("grant role"))
    BY <1>2 DEF CreateRole
  <2>2. Goto("grant role").r = w.r /\ Builds(Asked, Goto("grant role"))
    BY <1>b, <1>g, <1>p DEF RoleSteps
  <2>3. Sound(s)
    BY <1>h, SoundStatements
  <2>4. Additive(cr, s)
    <3>1. Additive(cr, CreateGroupRole(Wanted))
      BY <1>h DEF Additive, Adding, CreateGroupRole, Nothing
    <3> QED BY <3>1, NothingAdditive
  <2> HIDE DEF s
  <2> QED BY <1>i, <2>1, <2>2, <2>3, <2>4, AfterAdds, ExecuteAdds
<1>3. CASE GrantToOperator
  <2> DEFINE s == GrantRole(Wanted)
             k == After(pg, s, NoBase)
             status == [mem EXCEPT ![w.kind] = Wanted]
  <2>1. Execute(s, status, AfterGrant)
    BY <1>3 DEF GrantToOperator
  <2>2. AfterGrant.r = w.r /\ Builds(Asked, AfterGrant)
    <3>1. /\ Goto("close old").pc = "close old" /\ Goto("close old").r = w.r
          /\ Goto("extensions").pc = "extensions" /\ Goto("extensions").r = w.r
          /\ Goto("rename role") \in Passes /\ Goto("rename role").r = w.r
          /\ Goto("rename role").pc = "rename role"
      BY <1>g, <1>p DEF RoleSteps
    <3>2. /\ [Goto("rename role") EXCEPT !.kind = "writer"].pc = "rename role"
          /\ [Goto("rename role") EXCEPT !.kind = "writer"].r = w.r
      BY <3>1 DEF Passes
    <3>3. w.kind = "owner" \/ w.kind = "reader" \/ w.kind = "writer"
      BY <1>0 DEF Kinds
    <3>4. AfterGrant.r = w.r /\ AfterGrant.pc \in RoleSteps \union {"close old", "extensions"}
      BY <3>1, <3>2, <3>3 DEF AfterGrant, RoleSteps
    <3> QED BY <1>b, <3>4
  <2>3. Sound(s) /\ Additive(cr, s)
    BY <1>h, SoundStatements DEF Owners, Additive, Adding, GrantRole, Nothing
  <2>4. Works(pg, s) => Honest(Asked, After(pg, s, NoBase), status)
    <3>0. HAVE Works(pg, s)
    <3>1. Honest(Asked, k, mem)
      BY <1>i, <2>3, <3>0, AfterAdds
    <3>2. Wanted \in k.roles /\ Wanted \in k.member
      BY <1>0, <3>0, RoleGranted
    <3> HIDE DEF k
    <3>3. Honest(Asked, k, status)
      BY <1>0, <3>1, <3>2, HonestRole DEF Wanted
    <3> QED BY <3>3 DEF k
  <2> HIDE DEF status, s
  <2> QED BY <1>i, <2>1, <2>2, <2>3, <2>4, ExecuteAdds
<1> QED BY <1>1, <1>2, <1>3 DEF ManageRoles

LEMMA BaseAdds ==
    ASSUME TInv, AInv, PInv, ManageBase
    PROVE  Added
<1>0. TypeOK /\ w \in Passes /\ mem \in Statuses /\ pg \in EngineStates
      /\ mem.owner \in Owners /\ Asked.name \in Names
  BY PassValues DEF TInv, TypeOK
<1>i. ~At("idle")
  BY DEF ManageBase, CloseOldPools, RenameBase, OwnBase, At
<1>g. /\ Goto("own base").pc = "own base" /\ Goto("own base").r = w.r
      /\ Goto("rename role") \in Passes /\ Goto("rename role").pc = "rename role"
      /\ Goto("rename role").r = w.r
  BY <1>0, GotoType DEF Positions
<1>h. /\ Honest(Asked, pg, mem) /\ Builds(Asked, w)
      /\ OwnerFor(cr, Asked.name, RoleFor(Asked, "owner"))
  BY <1>i, AddingValues
<1>b. ASSUME NEW next, next.pc = "own base" \/ next.pc = "rename role"
      PROVE  Builds(Asked, next)
  BY <1>b DEF Builds, Building, RoleSteps, ModuleSteps, SchemaSteps, WithSchema
<1>1. CASE CloseOldPools
  <2>1. mem.db \in {NoName, Asked.name}
    BY <1>h DEF Honest
  <2>2. Quietly(mem, Goto("own base")) \/ Reject
    BY <1>1, <2>1 DEF CloseOldPools
  <2>3. Builds(Asked, Goto("own base"))
    BY <1>b, <1>g
  <2> QED BY <1>g, <1>i, <2>2, <2>3, QuietlyAdds, RejectAdds
<1>2. CASE RenameBase
  BY <1>2, <1>h DEF RenameBase, At, Builds, Building, RoleSteps, ModuleSteps, LateSteps,
     SchemaSteps, WithSchema
<1>3. CASE OwnBase /\ ~Reject
  <2> DEFINE s == IF pg.base[Asked.name].own = mem.owner THEN Nothing
                  ELSE ChangeDBOwner(Asked.name, mem.owner)
             k == After(pg, s, NoBase)
             status == [mem EXCEPT !.db = Asked.name]
             next == [Goto("rename role") EXCEPT !.kind = "reader"]
  <2>1. Execute(s, status, next) /\ w.pc = "own base"
    BY <1>3 DEF OwnBase, At
  <2>2. next.r = w.r /\ next.pc = "rename role"
    BY <1>g DEF Passes
  <2>3. mem.owner = RoleFor(Asked, "owner")
    <3>1. "owner" \in RolesDone(w)
      BY <2>1 DEF RolesDone, Kinds
    <3>2. RoleInPlace(Asked, pg, mem, "owner")
      BY <3>1 DEF PInv, Placed
    <3>3. mem["owner"] = RoleFor(Asked, "owner")
      BY <3>2 DEF RoleInPlace
    <3> QED BY <3>3
  <2>4. Sound(s)
    BY <1>0, SoundStatements
  <2>5. Additive(cr, s)
    <3>1. Additive(cr, ChangeDBOwner(Asked.name, mem.owner))
      BY <1>h, <2>3 DEF Additive, ChangeDBOwner, Nothing
    <3> QED BY <3>1, NothingAdditive
  <2>6. k.base[Asked.name].own = mem.owner
    <3>1. CASE s = Nothing /\ pg.base[Asked.name].own = mem.owner
      BY <3>1, NothingDone
    <3>2. CASE s = ChangeDBOwner(Asked.name, mem.owner)
      BY <1>0, <3>2, DatabaseOwned
    <3> QED BY <3>1, <3>2
  <2> HIDE DEF s
  <2>7. Works(pg, s) => Honest(Asked, After(pg, s, NoBase), status)
    <3>0. HAVE Works(pg, s)
    <3>1. Honest(Asked, k, mem)
      BY <1>i, <2>4, <2>5, <3>0, AfterAdds
    <3> HIDE DEF k
    <3>2. Honest(Asked, k, status)
      BY <1>0, <2>3, <2>6, <3>1, HonestDb
    <3> QED BY <3>2 DEF k
  <2>8. Builds(Asked, next)
    BY <1>b, <2>2
  <2> HIDE DEF status, next, k
  <2> QED BY <1>i, <2>1, <2>2, <2>4, <2>5, <2>7, <2>8, ExecuteAdds
<1>4. CASE Reject
  BY <1>4, <1>i, RejectAdds
<1> QED BY <1>1, <1>2, <1>3, <1>4 DEF ManageBase

LEMMA AdditiveStatements ==
    ASSUME NEW C, NEW n, NEW x, NEW a, NEW b
    PROVE  /\ Additive(C, ListIn(n)) /\ Additive(C, CreateExtension(n, x))
           /\ Additive(C, CreateSchema(n, a, x)) /\ Additive(C, SetSchemaPrivileges(n, a, b, x))
           /\ Additive(C, ChangeTableOwner(n, a)) /\ Additive(C, ChangeTypeOwnerInSchema(n, x, a))
BY DEF Additive, Adding, ListIn, CreateExtension, CreateSchema, SetSchemaPrivileges,
       ChangeTableOwner, ChangeTypeOwnerInSchema, Nothing

(* A pass at a position of manageExtensions or manageSchemas.              *)
LEMMA BuildsModules ==
    ASSUME NEW c, NEW p, p.pc \in ModuleSteps,
           p.pc = "drop extensions" \/ p.pc = "drop schemas" => p.todo = {},
           p.pc = "create extensions" => p.todo \subseteq c.exts,
           p.pc \in SchemaSteps => p.todo \subseteq ListedSchemas(c),
           p.pc \in WithSchema => p.item \in ListedSchemas(c)
    PROVE  Builds(c, p)
BY DEF Builds, Building

LEMMA ExtensionsAdd ==
    ASSUME TInv, AInv, ManageExtensions
    PROVE  Added
<1> DEFINE n == Asked.name
           b == pg.base[n]
<1>0. /\ TypeOK /\ w \in Passes /\ mem \in Statuses /\ pg \in EngineStates /\ n \in Names
      /\ mem.exts \subseteq Extensions /\ Asked.exts \subseteq Extensions
  BY PassValues DEF TInv, TypeOK
<1>i. ~At("idle")
  BY DEF ManageExtensions, GoExtensions, DropOneExtension, ListExtensions, CreateOneExtension,
     GoSchemas, At
<1>g. /\ Goto("drop extensions") \in Passes /\ Goto("drop extensions").pc = "drop extensions"
      /\ Goto("create extensions") \in Passes /\ Goto("create extensions").pc = "create extensions"
      /\ Goto("drop schemas") \in Passes /\ Goto("drop schemas").pc = "drop schemas"
      /\ Goto("drop extensions").r = w.r /\ Goto("create extensions").r = w.r
      /\ Goto("drop schemas").r = w.r
  BY <1>0, GotoType DEF Positions
<1>h. Honest(Asked, pg, mem) /\ Builds(Asked, w)
  BY <1>i, AddingValues
<1>b. ASSUME NEW next,
             \/ next.pc = "drop extensions" /\ next.todo = {}
             \/ next.pc = "create extensions" /\ next.todo \subseteq Asked.exts
             \/ next.pc = "drop schemas" /\ next.todo = {}
      PROVE  Builds(Asked, next)
  BY <1>b, BuildsModules DEF ModuleSteps, LateSteps, SchemaSteps, WithSchema
<1>1. CASE GoExtensions
  <2>1. Removed(mem.exts, Asked.exts) = {}
    BY <1>h DEF Honest, Removed
  <2>2. ToExtensions.pc = "drop extensions" /\ ToExtensions.r = w.r /\ ToExtensions.todo = {}
    BY <1>g, <2>1 DEF ToExtensions, Passes
  <2>3. Builds(Asked, ToExtensions)
    BY <1>b, <2>2
  <2> QED BY <1>1, <1>i, <2>2, <2>3, QuietlyAdds DEF GoExtensions
<1>2. ASSUME NEW x \in Extensions, DropOneExtension(x)
      PROVE  Added
  BY <1>2, <1>h DEF DropOneExtension, At, Builds
<1>3. CASE ListExtensions
  <2> DEFINE next == [Goto("create extensions") EXCEPT !.todo = Asked.exts]
             X == Kept(mem.exts, Asked.exts)
             status == [mem EXCEPT !.exts = X]
             s == ListIn(n)
             k == After(pg, s, NoBase)
  <2>1. next.pc = "create extensions" /\ next.r = w.r /\ next.todo = Asked.exts
    BY <1>g DEF Passes
  <2>2. Execute(s, status, next)
    BY <1>3 DEF ListExtensions
  <2>3. Sound(s) /\ Additive(cr, s)
    BY <1>0, SoundStatements, AdditiveStatements
  <2> HIDE DEF next, s
  <2>4. Works(pg, s) => Honest(Asked, After(pg, s, NoBase), status)
    <3>0. HAVE Works(pg, s)
    <3>1. Honest(Asked, k, mem)
      BY <1>i, <2>3, <3>0, AfterAdds
    <3> HIDE DEF k
    <3>2. X \subseteq k.base[n].exts /\ (Asked.dropModules => X \subseteq Asked.exts)
      BY <3>1 DEF Honest, Kept
    <3> HIDE DEF X
    <3>3. Honest(Asked, k, status)
      BY <1>0, <3>1, <3>2, HonestExts
    <3> QED BY <3>3 DEF k
  <2>5. Builds(Asked, next)
    BY <1>b, <2>1
  <2> HIDE DEF status, k
  <2> QED BY <1>i, <2>1, <2>2, <2>3, <2>4, <2>5, ExecuteAdds
<1>4. ASSUME NEW x \in Extensions, CreateOneExtension(x)
      PROVE  Added
  <2> DEFINE next == [w EXCEPT !.todo = @ \ {x}]
             X == mem.exts \union {x}
             status == [mem EXCEPT !.exts = X]
             s == IF x \in Base.exts THEN Nothing ELSE CreateExtension(n, x)
             k == After(pg, s, NoBase)
  <2>1. next.pc = "create extensions" /\ next.r = w.r /\ next.todo = w.todo \ {x}
        /\ w.pc = "create extensions" /\ x \in w.todo
    BY <1>4, <1>0 DEF CreateOneExtension, At, Passes
  <2>2. Execute(s, status, next)
    BY <1>4 DEF CreateOneExtension
  <2>3. Sound(s) /\ Additive(cr, s)
    <3>1. Sound(CreateExtension(n, x)) /\ Sound(Nothing)
      BY <1>0, SoundStatements
    <3>2. Additive(cr, CreateExtension(n, x)) /\ Additive(cr, Nothing)
      BY AdditiveStatements, NothingAdditive
    <3> QED BY <3>1, <3>2
  <2>4. x \in k.base[n].exts
    <3>1. CASE x \in b.exts
      BY <3>1, NothingDone DEF Base
    <3>2. CASE x \notin b.exts
      <4>1. k = After(pg, CreateExtension(n, x), NoBase)
        BY <3>2 DEF Base
      <4> HIDE DEF k, n
      <4> QED BY <1>0, <4>1, ExtensionCreated
    <3> QED BY <3>1, <3>2
  <2>t. w.todo \subseteq Asked.exts
    BY <1>h, <2>1 DEF Builds
  <2> HIDE DEF next, s
  <2>5. Works(pg, s) => Honest(Asked, After(pg, s, NoBase), status)
    <3>0. HAVE Works(pg, s)
    <3>1. Honest(Asked, k, mem)
      BY <1>i, <2>3, <3>0, AfterAdds
    <3> HIDE DEF k
    <3>2. X \subseteq k.base[n].exts /\ (Asked.dropModules => X \subseteq Asked.exts)
      BY <2>1, <2>t, <2>4, <3>1 DEF Honest
    <3> HIDE DEF X
    <3>3. Honest(Asked, k, status)
      BY <1>0, <3>1, <3>2, HonestExts
    <3> QED BY <3>3 DEF k
  <2>6. Builds(Asked, next)
    BY <1>b, <2>1, <2>t
  <2> HIDE DEF status, k
  <2> QED BY <1>i, <2>1, <2>2, <2>3, <2>5, <2>6, ExecuteAdds
<1>5. CASE GoSchemas
  <2>1. Removed(mem.schemas, ListedSchemas(Asked)) = {}
    BY <1>h DEF Honest, Removed
  <2>2. ToSchemas.pc = "drop schemas" /\ ToSchemas.r = w.r /\ ToSchemas.todo = {}
    BY <1>g, <2>1 DEF ToSchemas, Passes
  <2>3. Builds(Asked, ToSchemas)
    BY <1>b, <2>2
  <2> QED BY <1>5, <1>i, <2>2, <2>3, QuietlyAdds DEF GoSchemas
<1> QED BY <1>1, <1>2, <1>3, <1>4, <1>5 DEF ManageExtensions

LEMMA SchemaStepAdds ==
    ASSUME TInv, AInv, ~At("idle"), NEW s, Sound(s), Additive(cr, s), NEW next,
           Execute(s, mem, next), next.r = w.r, Builds(Asked, next)
    PROVE  Added
<1>1. Works(pg, s) => Honest(Asked, After(pg, s, NoBase), mem)
  BY AfterAdds
<1> QED BY <1>1, ExecuteAdds

LEMMA SchemasAdd ==
    ASSUME TInv, AInv, PInv, ManageSchemas
    PROVE  Added
<1> DEFINE n == Asked.name
           b == pg.base[n]
<1>0. /\ TypeOK /\ w \in Passes /\ mem \in Statuses /\ pg \in EngineStates /\ n \in Names
      /\ ListedSchemas(Asked) \subseteq Schemas
      /\ mem.owner \in Owners /\ mem.reader \in Owners /\ mem.writer \in Owners
  BY PassValues DEF TInv, TypeOK
<1>i. ~At("idle")
  BY DEF ManageSchemas, DropOneSchema, CreateOneSchema, ListSchema, ReaderPrivileges,
     WriterPrivileges, OwnTables, OwnTypes, GoSuccess, ManageSuccess, At
<1>g. \A p \in Positions : Goto(p) \in Passes /\ Goto(p).pc = p /\ Goto(p).r = w.r
                           /\ Goto(p).todo = w.todo /\ Goto(p).item = w.item
  BY <1>0, GotoType
<1>p. {"create schemas", "reader privileges", "writer privileges", "tables", "types", "success"}
        \subseteq Positions
  BY DEF Positions
<1>h. /\ Honest(Asked, pg, mem) /\ Builds(Asked, w)
      /\ w.pc \in SchemaSteps => w.todo \subseteq ListedSchemas(Asked)
      /\ w.pc \in WithSchema => w.item \in ListedSchemas(Asked)
  BY <1>i, AddingValues DEF Builds
<1>s. WithSchema \subseteq SchemaSteps /\ "create schemas" \in SchemaSteps
      /\ SchemaSteps \subseteq ModuleSteps /\ "success" \in ModuleSteps
      /\ "success" \notin SchemaSteps /\ "create schemas" \notin WithSchema
      /\ "drop schemas" \notin SchemaSteps /\ "drop schemas" \in ModuleSteps
      /\ "create extensions" \notin SchemaSteps /\ "drop extensions" \notin SchemaSteps
  BY DEF ModuleSteps, LateSteps, SchemaSteps, WithSchema
<1>b. ASSUME NEW next, next.pc \in SchemaSteps, next.todo \subseteq ListedSchemas(Asked),
             next.pc \in WithSchema => next.item \in ListedSchemas(Asked)
      PROVE  Builds(Asked, next)
  BY <1>b, <1>s, BuildsModules
<1>1. ASSUME NEW x \in Schemas, DropOneSchema(x)
      PROVE  Added
  BY <1>1, <1>h DEF DropOneSchema, At, Builds
<1>2. ASSUME NEW x \in Schemas, CreateOneSchema(x)
      PROVE  Added
  <2> DEFINE next == [Goto("reader privileges") EXCEPT !.item = x]
             s == IF Base.schemas[x] # NoRole THEN Nothing ELSE CreateSchema(n, mem.owner, x)
  <2>0. Goto("reader privileges") \in Passes /\ Goto("reader privileges").pc = "reader privileges"
        /\ Goto("reader privileges").r = w.r /\ Goto("reader privileges").todo = w.todo
    BY <1>g, <1>p
  <2>1. next.pc = "reader privileges" /\ next.r = w.r /\ next.todo = w.todo /\ next.item = x
    BY <2>0 DEF Passes
  <2>2. Execute(s, mem, next) /\ w.pc = "create schemas" /\ x \in w.todo
    BY <1>2 DEF CreateOneSchema, At
  <2>3. Sound(s) /\ Additive(cr, s)
    <3>1. Sound(CreateSchema(n, mem.owner, x)) /\ Sound(Nothing)
      BY <1>0, SoundStatements
    <3>2. Additive(cr, CreateSchema(n, mem.owner, x)) /\ Additive(cr, Nothing)
      BY AdditiveStatements, NothingAdditive
    <3> QED BY <3>1, <3>2
  <2> HIDE DEF next, s
  <2>4. Builds(Asked, next)
    BY <1>b, <1>h, <1>s, <2>1, <2>2 DEF WithSchema
  <2> QED BY <1>i, <2>1, <2>2, <2>3, <2>4, SchemaStepAdds
<1>3. CASE ListSchema
  <2> DEFINE next == [Goto("create schemas") EXCEPT !.todo = ListedSchemas(Asked)]
             X == Kept(mem.schemas, ListedSchemas(Asked))
             status == [mem EXCEPT !.schemas = X]
             s == ListIn(n)
             k == After(pg, s, NoBase)
  <2>0. Goto("create schemas") \in Passes /\ Goto("create schemas").pc = "create schemas"
        /\ Goto("create schemas").r = w.r
    BY <1>g, <1>p
  <2>1. next.pc = "create schemas" /\ next.r = w.r /\ next.todo = ListedSchemas(Asked)
    BY <2>0 DEF Passes
  <2>2. Execute(s, status, next)
    BY <1>3 DEF ListSchema
  <2>3. Sound(s) /\ Additive(cr, s)
    BY <1>0, SoundStatements, AdditiveStatements
  <2> HIDE DEF next, s
  <2>4. Works(pg, s) => Honest(Asked, After(pg, s, NoBase), status)
    <3>0. HAVE Works(pg, s)
    <3>1. Honest(Asked, k, mem)
      BY <1>i, <2>3, <3>0, AfterAdds
    <3> HIDE DEF k
    <3>2. /\ \A x \in X : SchemaInPlace(Asked, k.base[n], x)
          /\ Asked.dropModules => X \subseteq ListedSchemas(Asked)
      BY <3>1 DEF Honest, Kept
    <3> HIDE DEF X
    <3>3. Honest(Asked, k, status)
      BY <1>0, <3>1, <3>2, HonestSchemas
    <3> QED BY <3>3 DEF k
  <2>5. Builds(Asked, next)
    BY <1>b, <1>s, <2>1
  <2> HIDE DEF status, k
  <2> QED BY <1>i, <2>1, <2>2, <2>3, <2>4, <2>5, ExecuteAdds
<1>4. CASE ReaderPrivileges
  <2> DEFINE s == SetSchemaPrivileges(n, mem.owner, mem.reader, w.item)
             next == Goto("writer privileges")
  <2>1. Execute(s, mem, next) /\ w.pc = "reader privileges"
    BY <1>4 DEF ReaderPrivileges, At
  <2>2. w.item \in ListedSchemas(Asked) /\ w.item \in Schemas /\ w.todo \subseteq ListedSchemas(Asked)
    BY <1>0, <1>h, <1>s, <2>1 DEF WithSchema
  <2>3. Sound(s) /\ Additive(cr, s)
    BY <1>0, <2>2, SoundStatements, AdditiveStatements
  <2>4. next.pc = "writer privileges" /\ next.r = w.r /\ next.todo = w.todo /\ next.item = w.item
    BY <1>g, <1>p
  <2> HIDE DEF next, s
  <2>5. Builds(Asked, next)
    BY <1>b, <1>s, <2>2, <2>4 DEF WithSchema
  <2> QED BY <1>i, <2>1, <2>3, <2>4, <2>5, SchemaStepAdds
<1>5. CASE WriterPrivileges
  <2> DEFINE s == SetSchemaPrivileges(n, mem.owner, mem.writer, w.item)
             next == Goto("tables")
  <2>1. Execute(s, mem, next) /\ w.pc = "writer privileges"
    BY <1>5 DEF WriterPrivileges, At
  <2>2. w.item \in ListedSchemas(Asked) /\ w.item \in Schemas /\ w.todo \subseteq ListedSchemas(Asked)
    BY <1>0, <1>h, <1>s, <2>1 DEF WithSchema
  <2>3. Sound(s) /\ Additive(cr, s)
    BY <1>0, <2>2, SoundStatements, AdditiveStatements
  <2>4. next.pc = "tables" /\ next.r = w.r /\ next.todo = w.todo /\ next.item = w.item
    BY <1>g, <1>p
  <2> HIDE DEF next, s
  <2>5. Builds(Asked, next)
    BY <1>b, <1>s, <2>2, <2>4 DEF WithSchema
  <2> QED BY <1>i, <2>1, <2>3, <2>4, <2>5, SchemaStepAdds
<1>6. CASE OwnTables
  <2> DEFINE s == IF Base.tables[w.item] \in {NoRole, mem.owner} THEN ListIn(n)
                  ELSE ChangeTableOwner(n, mem.owner)
             next == Goto("types")
  <2>1. Execute(s, mem, next) /\ w.pc = "tables"
    BY <1>6 DEF OwnTables, At
  <2>2. w.item \in ListedSchemas(Asked) /\ w.todo \subseteq ListedSchemas(Asked)
    BY <1>0, <1>h, <1>s, <2>1 DEF WithSchema
  <2>3. Sound(s) /\ Additive(cr, s)
    <3>1. Sound(ListIn(n)) /\ Sound(ChangeTableOwner(n, mem.owner))
      BY <1>0, SoundStatements
    <3>2. Additive(cr, ListIn(n)) /\ Additive(cr, ChangeTableOwner(n, mem.owner))
      BY AdditiveStatements
    <3> QED BY <3>1, <3>2
  <2>4. next.pc = "types" /\ next.r = w.r /\ next.todo = w.todo /\ next.item = w.item
    BY <1>g, <1>p
  <2> HIDE DEF next, s
  <2>5. Builds(Asked, next)
    BY <1>b, <1>s, <2>2, <2>4 DEF WithSchema
  <2> QED BY <1>i, <2>1, <2>3, <2>4, <2>5, SchemaStepAdds
<1>7. CASE OwnTypes
  <2> DEFINE next == [Goto("create schemas") EXCEPT !.todo = @ \ {w.item}, !.item = NoName]
             s == IF Base.types[w.item] \in {NoRole, mem.owner} THEN ListIn(n)
                  ELSE ChangeTypeOwnerInSchema(n, w.item, mem.owner)
             X == mem.schemas \union {w.item}
             status == [mem EXCEPT !.schemas = X]
             k == After(pg, s, NoBase)
  <2>0. Goto("create schemas") \in Passes /\ Goto("create schemas").pc = "create schemas"
        /\ Goto("create schemas").r = w.r /\ Goto("create schemas").todo = w.todo
    BY <1>g, <1>p
  <2>1. next.pc = "create schemas" /\ next.r = w.r /\ next.todo = w.todo \ {w.item}
    BY <2>0 DEF Passes
  <2>2. Execute(s, status, next) /\ w.pc = "types"
    BY <1>7 DEF OwnTypes, At
  <2>3. w.item \in ListedSchemas(Asked) /\ w.item \in Schemas /\ w.todo \subseteq ListedSchemas(Asked)
    BY <1>0, <1>h, <1>s, <2>2 DEF WithSchema
  <2>4. Sound(s) /\ Additive(cr, s)
    <3>1. Sound(ListIn(n)) /\ Sound(ChangeTypeOwnerInSchema(n, w.item, mem.owner))
      BY <1>0, <2>3, SoundStatements
    <3>2. Additive(cr, ListIn(n)) /\ Additive(cr, ChangeTypeOwnerInSchema(n, w.item, mem.owner))
      BY AdditiveStatements
    <3> QED BY <3>1, <3>2
  <2>5. SchemaInPlace(Asked, b, w.item)
    BY <2>2 DEF PInv, Placed, ModulesPlaced, WithSchema, SchemaInPlace
  <2> HIDE DEF next, s
  <2>6. Works(pg, s) => Honest(Asked, After(pg, s, NoBase), status)
    <3>0. HAVE Works(pg, s)
    <3>1. Honest(Asked, k, mem) /\ Grows(cr, pg, k)
      BY <1>i, <2>4, <3>0, AfterAdds
    <3> HIDE DEF k
    <3>2. Larger(b, k.base[n])
      BY <1>0, <3>1 DEF Grows
    <3>3. SchemaInPlace(Asked, k.base[n], w.item)
      BY <2>3, <2>5, <3>2, SchemaGrows
    <3>4. /\ \A x \in X : SchemaInPlace(Asked, k.base[n], x)
          /\ Asked.dropModules => X \subseteq ListedSchemas(Asked)
      BY <2>3, <3>1, <3>3 DEF Honest
    <3> HIDE DEF X
    <3>5. Honest(Asked, k, status)
      BY <1>0, <3>1, <3>4, HonestSchemas
    <3> QED BY <3>5 DEF k
  <2>7. Builds(Asked, next)
    BY <1>b, <1>s, <2>1, <2>3
  <2> HIDE DEF status, k
  <2> QED BY <1>i, <2>1, <2>2, <2>4, <2>6, <2>7, ExecuteAdds
<1>8. CASE GoSuccess
  <2>1. Quietly(mem, Goto("success")) /\ Goto("success").pc = "success" /\ Goto("success").r = w.r
    BY <1>8, <1>g, <1>p DEF GoSuccess
  <2>2. Builds(Asked, Goto("success"))
    BY <1>s, <2>1, BuildsModules
  <2> QED BY <1>i, <2>1, <2>2, QuietlyAdds
<1>9. CASE ManageSuccess
  <2> DEFINE m == [mem EXCEPT !.ready = TRUE, !.phase = "Created"]
  <2>1. /\ st' = StatusPatch(w.r, read[w.r].st, m) /\ w'.pc = "idle"
        /\ UNCHANGED <<cr, pg, late, read, edits>>
    BY <1>9, StartValues DEF ManageSuccess, EndPass, clusterVars, boundVars
  <2>2. w.r \in Resources /\ cr[w.r].exists /\ Honest(cr[w.r], pg, mem)
    BY <1>i, AddingValues
  <2>3. Mixed(m, mem, mem)
    BY <1>0 DEF Statuses, Mixed, Kinds
  <2> HIDE DEF m
  <2>4. Honest(cr[w.r], pg, m)
    BY <2>2, <2>3, HonestMixed
  <2>5. /\ \A r \in Resources : cr[r].exists => Honest(cr[r], pg, st[r])
        /\ \A r \in Resources : Steady(cr[r], cr[r])
        /\ Additive(cr, late) /\ Grows(cr, pg, pg)
    BY SteadySelf, GrowsSelf DEF AInv, Steady
  <2>6. /\ cr[w.r].exists => Honest(cr[w.r], pg, st'[w.r])
        /\ \A q \in Resources : q # w.r => st'[q] = st[q]
    BY <1>0, <2>1, <2>2, <2>4, <2>5, PatchHonest
  <2>7. \A r \in Resources : cr[r].exists => Honest(cr[r], pg', st'[r])
    BY <2>1, <2>5, <2>6
  <2> QED BY <2>1, <2>5, <2>7, AddingStep
<1> QED BY <1>1, <1>2, <1>3, <1>4, <1>5, <1>6, <1>7, <1>8, <1>9 DEF ManageSchemas

(* Nothing is deleted.                                                     *)
LEMMA DropAdds ==
    ASSUME TInv, AInv, ManageDrop
    PROVE  FALSE
<1>1. w.pc \in {"drop owned", "drop role", "close", "drop base", "finalize"}
  BY DEF ManageDrop, SkipRole, DropOwned, DropGroupRole, ClosePools, DropBase, Finalize, At
<1>2. ~At("idle")
  BY <1>1 DEF At
<1>3. w.pc \in Building
  BY <1>2, AddingValues DEF Builds
<1> QED BY <1>1, <1>3 DEF Building, RoleSteps, ModuleSteps, LateSteps, SchemaSteps, WithSchema

LEMMA CopyHonest ==
    ASSUME TInv, AInv, NEW r \in Resources, NEW copy \in CacheCopies(r)
    PROVE  /\ Steady(cr[r], copy.cr) /\ copy.st \in Statuses /\ ~Deleting(copy)
           /\ copy.cr.exists => cr[r].exists
           /\ cr[r].exists => Honest(cr[r], pg, copy.st) /\ Honest(copy.cr, pg, copy.st)
<1>1. \/ copy.cr = cr[r] /\ copy.st = st[r]
      \/ copy.cr = read[r].cr /\ copy.st = read[r].st
  <2>1. copy = Stored(r) \/ copy = read[r]
    BY DEF CacheCopies
  <2> QED BY <2>1, StoredCopy
<1>2. Steady(cr[r], copy.cr)
  BY <1>1, SteadySelf DEF AInv, Steady
<1>3. cr[r].exists => Honest(cr[r], pg, copy.st)
  BY <1>1 DEF AInv
<1>4. cr[r].exists => Honest(copy.cr, pg, copy.st)
  BY <1>2, <1>3, HonestSteady
<1>5. copy.st \in Statuses
  BY CopyType DEF TInv
<1> QED BY <1>2, <1>3, <1>4, <1>5 DEF Steady, Deleting

LEMMA CopyRead ==
    ASSUME TInv, NEW r \in Resources, NEW copy \in CacheCopies(r), Read(r, copy)
    PROVE  /\ At("idle") /\ read'[r] = copy /\ UNCHANGED <<late, edits>>
           /\ \A q \in Resources : read'[q] = read[q] \/ read'[q] = Stored(q)
<1>1. read \in [Resources -> [cr : Resource, st : Statuses]]
  BY DEF TInv, TypeOK
<1>2. /\ read' = [read EXCEPT ![r] = copy] /\ At("idle") /\ UNCHANGED <<late, edits>>
  BY DEF Read, boundVars
<1>3. copy = Stored(r) \/ copy = read[r]
  BY DEF CacheCopies
<1>4. read'[r] = copy /\ \A q \in Resources : q # r => read'[q] = read[q]
  BY <1>1, <1>2
<1> QED BY <1>2, <1>3, <1>4

LEMMA BeginAdds ==
    ASSUME TInv, AInv, NEW r \in Resources, NEW copy \in CacheCopies(r), BeginWith(r, copy)
    PROVE  Added
<1>r. Read(r, copy)
  BY DEF BeginWith, BeginNotFound, BeginWaitLinked, BeginDrop, BeginKeep, BeginNoEngine, BeginWait,
     BeginFinalizer, BeginWork
<1>0. /\ At("idle") /\ read'[r] = copy /\ UNCHANGED <<late, edits>>
      /\ \A q \in Resources : read'[q] = read[q] \/ read'[q] = Stored(q)
  BY <1>r, CopyRead
<1>c. /\ Steady(cr[r], copy.cr) /\ copy.st \in Statuses /\ ~Deleting(copy)
      /\ copy.cr.exists => cr[r].exists
      /\ cr[r].exists => Honest(cr[r], pg, copy.st) /\ Honest(copy.cr, pg, copy.st)
  BY CopyHonest
<1>s. /\ \A q \in Resources : Steady(cr[q], cr[q])
      /\ Grows(cr, pg, pg) /\ Additive(cr, late)
      /\ \A q \in Resources : cr[q].exists => Honest(cr[q], pg, st[q])
  BY SteadySelf, GrowsSelf DEF AInv, Steady
<1>1. CASE UNCHANGED <<cr, st, pg, w>>
  BY <1>0, <1>1, <1>s, AddingStep DEF At
<1>2. CASE ManageError(r, copy.st, copy.st) /\ UNCHANGED <<cr, pg>>
  <2>1. (\A q \in Resources : cr[q].exists => Honest(cr[q], pg, st'[q])) /\ w'.pc = "idle"
    BY <1>2, <1>c, StopHonest
  <2> QED BY <1>0, <1>2, <1>s, <2>1, AddingStep
<1>3. CASE BeginFinalizer(r, copy) /\ copy = Stored(r)
  <2>1. /\ cr' = [cr EXCEPT ![r].finalizer = TRUE, ![r].schemas = ListedSchemas(cr[r])]
        /\ UNCHANGED <<st, w, pg>>
    BY <1>3 DEF BeginFinalizer
  <2>2. cr \in [Resources -> Resource] /\ cr[r] \in Resource
    BY DEF TInv, TypeOK
  <2>3. /\ cr'[r].name = cr[r].name /\ cr'[r].master = cr[r].master
        /\ cr'[r].exists = cr[r].exists /\ cr'[r].deleting = cr[r].deleting
        /\ cr'[r].dropModules = cr[r].dropModules /\ cr'[r].exts = cr[r].exts
        /\ cr'[r].schemas = ListedSchemas(cr[r])
        /\ \A q \in Resources : q # r => cr'[q] = cr[q]
    BY <2>1, <2>2 DEF Resource
  <2>4. ListedSchemas(cr'[r]) = ListedSchemas(cr[r])
    BY <2>3 DEF ListedSchemas
  <2>5. Steady(cr[r], cr'[r])
    BY <1>s, <2>3, <2>4 DEF Steady, SameNames
  <2>6. \A q \in Resources : Steady(cr[q], cr'[q])
    BY <1>s, <2>3, <2>5
  <2> QED BY <1>0, <1>s, <2>1, <2>6, AddingStep DEF At
<1>4. CASE BeginWork(r, copy)
  <2>1. mem' = copy.st /\ w'.pc = "rename role" /\ w'.r = r /\ UNCHANGED <<cr, st, pg>>
        /\ cr[r].exists
    BY <1>4, <1>c DEF BeginWork, Start, NoPass, Living
  <2>2. Asked' = copy.cr
    BY <1>0, <2>1 DEF Asked
  <2>3. Builds(Asked', w')
    BY <2>1 DEF Builds, Building, RoleSteps, ModuleSteps, LateSteps, SchemaSteps, WithSchema
  <2>4. Honest(Asked', pg', mem')
    BY <1>c, <2>1, <2>2
  <2> QED BY <1>0, <1>s, <2>1, <2>3, <2>4, AddingStep
<1>5. ~BeginWaitLinked(r, copy) /\ ~BeginDrop(r, copy) /\ ~BeginKeep(r, copy)
  BY <1>c DEF BeginWaitLinked, BeginDrop, BeginKeep
<1>6. CASE BeginNotFound(r, copy) \/ BeginWait(r, copy)
  BY <1>1, <1>6 DEF BeginNotFound, BeginWait
<1>7. CASE BeginNoEngine(r, copy)
  BY <1>2, <1>7 DEF BeginNoEngine
<1>8. CASE BeginFinalizer(r, copy) /\ copy # Stored(r)
  BY <1>2, <1>8 DEF BeginFinalizer
<1> QED BY <1>3, <1>4, <1>5, <1>6, <1>7, <1>8 DEF BeginWith

(* The engine grows, or a resource is edited, and the pass is where it was. *)
LEMMA GrownAdds ==
    ASSUME TInv, AInv, UNCHANGED <<st, read, mem, w>>, edits'.kinds = edits.kinds,
           \A r \in Resources : Steady(cr[r], cr'[r]), Grows(cr, pg, pg'), Additive(cr, late')
    PROVE  Added
<1>0. pg \in EngineStates /\ st \in [Resources -> Statuses] /\ cr \in [Resources -> Resource]
  BY DEF TInv, TypeOK
<1>s. /\ \A r \in Resources : Steady(cr[r], cr[r])
      /\ \A r \in Resources : cr[r].exists => Honest(cr[r], pg, st[r])
      /\ Distinct(cr)
  BY SteadySelf DEF AInv, Steady
<1>1. ASSUME NEW r \in Resources, cr[r].exists
      PROVE  Honest(cr[r], pg', st'[r])
  <2>1. cr[r].name \in Names /\ st[r] \in Statuses
    BY <1>0 DEF Resource
  <2>2. Honest(cr[r], pg', st[r])
    BY <1>1, <1>s, <2>1, HonestGrows
  <2> QED BY <2>2
<1>2. w'.pc # "idle" => w'.r \in Resources /\ cr[w'.r].exists /\ Builds(Asked', w')
                        /\ Honest(Asked', pg', mem')
  <2> SUFFICES ASSUME ~At("idle")
               PROVE  /\ w'.r \in Resources /\ cr[w'.r].exists /\ Builds(Asked', w')
                      /\ Honest(Asked', pg', mem')
    BY DEF At
  <2>1. /\ w.r \in Resources /\ cr[w.r].exists /\ Steady(cr[w.r], Asked)
        /\ Asked.name \in Names /\ Builds(Asked, w) /\ Honest(Asked, pg, mem)
    BY AddingValues
  <2>2. mem \in Statuses
    BY DEF TInv, TypeOK
  <2>3. Honest(Asked, pg', mem)
    BY <1>s, <2>1, <2>2, HonestGrows
  <2>4. Asked' = Asked
    BY DEF Asked
  <2> QED BY <2>1, <2>3, <2>4
<1> QED BY <1>s, <1>1, <1>2, AddingStep

LEMMA FaultyAdds ==
    ASSUME TInv, AInv, Faulty
    PROVE  Added
<1>0. pg \in EngineStates /\ st \in [Resources -> Statuses] /\ cr \in [Resources -> Resource]
      /\ Sound(late)
  BY DEF TInv, TypeOK
<1>s. /\ \A r \in Resources : Steady(cr[r], cr[r])
      /\ Additive(cr, late)
      /\ \A r \in Resources : cr[r].exists => Honest(cr[r], pg, st[r])
      /\ Distinct(cr)
  BY SteadySelf DEF AInv, Steady
<1>1. CASE Fail
  <2>1. UNCHANGED <<cr, pg, read, late, edits>> /\ Stop /\ ~At("idle")
    BY <1>1 DEF Fail, clusterVars, At
  <2> QED BY <1>s, <2>1, EndAdds
<1>2. CASE Crash
  <2>1. UNCHANGED <<cr, pg, read, late, edits>> /\ EndPass /\ UNCHANGED st /\ ~At("idle")
    BY <1>2 DEF Crash, clusterVars, At
  <2> QED BY <1>s, <2>1, EndAdds
<1>4. CASE LateLands
  <2>1. /\ UNCHANGED <<cr, st, read, mem, w, edits>> /\ late' = Nothing /\ Works(pg, late)
        /\ pg' = After(pg, late, NoBase)
    BY <1>4 DEF LateLands, Run, clusterVars, boundVars
  <2>2. Grows(cr, pg, pg')
    BY <1>0, <1>s, <2>1, AdditiveGrows
  <2> QED BY <1>s, <2>1, <2>2, NothingAdditive, GrownAdds
<1>5. CASE LateLost
  <2>1. UNCHANGED <<cr, st, read, mem, w, edits, pg>> /\ late' = Nothing
    BY <1>5 DEF LateLost, clusterVars, boundVars
  <2> QED BY <1>s, <2>1, NothingAdditive, GrowsSelf, GrownAdds
<1>6. ASSUME NEW n \in Names, Reopen(n) \/ Connect(n)
      PROVE  Added
  <2>1. UNCHANGED <<cr, st, late, read, mem, w, edits>>
    BY <1>6 DEF Reopen, Connect, Engine, clusterVars
  <2>2. Held(pg, pg')
    BY <1>0, <1>6, SessionsHeld DEF Reopen, Connect, Engine
  <2> QED BY <1>s, <2>1, <2>2, HeldGrows, GrownAdds
<1> QED BY <1>1, <1>2, <1>4, <1>5, <1>6 DEF Faulty

LEMMA EnvironmentAdds ==
    ASSUME TInv, AInv, Environment
    PROVE  Added
<1>0. cr \in [Resources -> Resource] /\ edits.kinds \intersect {"name", "master", "delete"} = {}
  BY DEF TInv, TypeOK, AInv
<1>s. /\ \A r \in Resources : Steady(cr[r], cr[r])
      /\ \A r \in Resources : cr[r].exists /\ cr[r].dropModules
                                => edits.kinds \intersect {"schemas", "extensions"} = {}
      /\ Additive(cr, late)
  BY SteadySelf DEF AInv, Steady
<1>1. Outside
  BY EnvironmentShapes
<1>2. ASSUME NEW r \in Resources, NEW c, cr' = [cr EXCEPT ![r] = c], Steady(cr[r], c)
      PROVE  \A q \in Resources : Steady(cr[q], cr'[q])
  BY <1>0, <1>2, <1>s
<1>3. \A r \in Resources : Steady(cr[r], cr'[r])
  <2>1. ASSUME NEW r \in Resources
        PROVE  /\ \A n \in Names : ~SetName(r, n)
               /\ \A m \in Masters \union {NoMaster} : ~SetMaster(r, m)
               /\ ~DeleteResource(r)
    BY <1>0 DEF SetName, SetMaster, DeleteResource, EditSpec, Edit
  <2>2. ASSUME NEW r \in Resources, NEW S \in SUBSET Schemas, SetSchemas(r, S)
        PROVE  \A q \in Resources : Steady(cr[q], cr'[q])
    <3> DEFINE c == [cr[r] EXCEPT !.schemas = S]
    <3>1. /\ cr[r].exists /\ ~cr[r].deleting /\ "schemas" \in edits.kinds
          /\ cr' = [cr EXCEPT ![r] = c]
      BY <2>2 DEF SetSchemas, EditSpec, Edit
    <3>2. ~cr[r].dropModules
      BY <1>s, <3>1
    <3>3. Steady(cr[r], c)
      BY <1>0, <3>1, <3>2 DEF Steady, SameNames, Resource
    <3> QED BY <1>2, <3>1, <3>3
  <2>3. ASSUME NEW r \in Resources, NEW X \in SUBSET Extensions, SetExtensions(r, X)
        PROVE  \A q \in Resources : Steady(cr[q], cr'[q])
    <3> DEFINE c == [cr[r] EXCEPT !.exts = X]
    <3>1. /\ cr[r].exists /\ ~cr[r].deleting /\ "extensions" \in edits.kinds
          /\ cr' = [cr EXCEPT ![r] = c]
      BY <2>3 DEF SetExtensions, EditSpec, Edit
    <3>2. ~cr[r].dropModules
      BY <1>s, <3>1
    <3>3. Steady(cr[r], c)
      BY <1>0, <3>1, <3>2 DEF Steady, SameNames, Resource
    <3> QED BY <1>2, <3>1, <3>3
  <2>4. CASE UNCHANGED cr
    BY <1>s, <2>4
  <2> QED BY <2>1, <2>2, <2>3, <2>4
          DEF Environment, Link, Unlink, Expire, Disconnect, Engine, AddObjects, RemoveEngine,
              EngineReady, clusterVars
<1>4. Grows(cr, pg, pg')
  BY <1>1, HeldGrows DEF Outside
<1>5. UNCHANGED <<st, read, mem, w, late>> /\ edits'.kinds = edits.kinds
  BY <1>1 DEF Outside, Bounded
<1> QED BY <1>s, <1>3, <1>4, <1>5, GrownAdds

LEMMA AStep ==
    ASSUME TInv, AInv, PInv, [Next]_vars
    PROVE  Added
<1>1. CASE Begin
  BY <1>1, BeginAdds DEF Begin
<1>2. CASE Next /\ ~Begin
  BY <1>2, RolesAdd, BaseAdds, ExtensionsAdd, SchemasAdd, DropAdds, FaultyAdds, EnvironmentAdds
     DEF Next, Pass
<1>3. CASE UNCHANGED vars
  <2>1. UNCHANGED <<cr, st, read, mem, w, late, pg>> /\ edits' = edits
    BY <1>3 DEF vars
  <2>2. /\ \A r \in Resources : Steady(cr[r], cr[r])
        /\ Additive(cr, late) /\ Grows(cr, pg, pg)
    BY SteadySelf, GrowsSelf DEF AInv, Steady
  <2> QED BY <2>1, <2>2, GrownAdds
<1> QED BY <1>1, <1>2, <1>3

(* What a late statement leaves of a running pass.                         *)
LEMMA LateSpared ==
    ASSUME TInv, PInv, AInv
    PROVE  LateSpares
<1> SUFFICES ASSUME LateLands
             PROVE  Placed(Asked, pg', mem, w)
  BY DEF LateSpares
<1>0. /\ pg \in EngineStates /\ Sound(late) /\ Additive(cr, late) /\ Distinct(cr)
      /\ Asked \in Resource /\ w \in Passes /\ (w.pc \in WithSchema => w.item \in Schemas)
      /\ mem \in Statuses
  BY PassValues DEF TInv, TypeOK, AInv, WithSchema
<1>1. Grows(cr, pg, pg')
  <2>1. Works(pg, late) /\ pg' = After(pg, late, NoBase)
    BY DEF LateLands, Run
  <2> QED BY <1>0, <2>1, AdditiveGrows
<1>2. CASE At("idle")
  BY <1>2, RestingPlaced DEF At, Resting
<1>3. CASE ~At("idle")
  <2>1. /\ w.r \in Resources /\ cr[w.r].exists /\ Steady(cr[w.r], Asked)
        /\ Asked.name \in Names /\ Asked.name = cr[w.r].name /\ Builds(Asked, w)
    BY <1>3, AddingValues
  <2>2. CASE Owned(w)
    <3>1. pg.base[Asked.name].own = RoleFor(Asked, "owner")
      BY <2>2 DEF PInv, Placed
    <3>2. pg'.base[Asked.name].own = pg.base[Asked.name].own
      <4>1. CASE OwnerFor(cr, Asked.name, pg'.base[Asked.name].own)
        <5>1. PICK q \in Resources : /\ cr[q].exists /\ cr[q].name = Asked.name
                                     /\ pg'.base[Asked.name].own = RoleFor(cr[q], "owner")
          BY <4>1 DEF OwnerFor
        <5>2. q = w.r
          BY <1>0, <2>1, <5>1 DEF Distinct
        <5>3. RoleFor(cr[w.r], "owner") = RoleFor(Asked, "owner")
          BY <2>1, SteadyRoles
        <5> QED BY <3>1, <5>1, <5>2, <5>3
      <4> QED BY <1>1, <2>1, <4>1 DEF Grows
    <3>3. Keeps(pg, pg', Asked.name)
      BY <1>1, <2>1, <3>2 DEF Keeps, Grows, Larger
    <3> QED BY <1>0, <3>3, PlacedKept DEF PInv
  <2>3. CASE ~Owned(w)
    <3>1. w.pc \in RoleSteps \union {"close old", "rename base", "own base", "extensions",
                                     "drop extensions"}
      BY <2>1, <2>3 DEF Builds, Building, Owned
    <3>2. \A kind \in RolesDone(w) : RoleInPlace(Asked, pg', mem, kind)
      BY <1>1 DEF PInv, Placed, RoleInPlace, Grows
    <3> QED BY <2>3, <3>1, <3>2, EarlyPlaced
  <2> QED BY <2>2, <2>3
<1> QED BY <1>2, <1>3

(* The scenarios in which resources are created and extended, but nothing  *)
(* is renamed, removed or deleted.                                         *)
AddingPlans ==
    \A plan \in Plans :
        /\ plan.edits.kinds \intersect {"name", "master", "delete"} = {}
        /\ Distinct(plan.cr)
        /\ \A r \in Resources : plan.cr[r].exists =>
             /\ ~plan.cr[r].deleting
             /\ Honest(plan.cr[r], plan.pg, plan.st[r])
             /\ plan.cr[r].dropModules => plan.edits.kinds \intersect {"schemas", "extensions"} = {}

LEMMA AInit ==
    ASSUME AddingPlans, Init
    PROVE  AInv
<1>1. PICK plan \in Plans : /\ cr = plan.cr /\ st = plan.st /\ pg = plan.pg /\ edits = plan.edits
  BY DEF Init
<1>2. w.pc = "idle" /\ late = Nothing /\ \A r \in Resources : read[r] = Stored(r)
  BY StartValues DEF Init
<1>3. \A r \in Resources : read[r].cr = cr[r] /\ read[r].st = st[r]
  BY <1>2, StoredCopy
<1>4. /\ edits.kinds \intersect {"name", "master", "delete"} = {} /\ Distinct(cr)
      /\ \A r \in Resources : cr[r].exists => /\ ~cr[r].deleting
                                              /\ Honest(cr[r], pg, st[r])
                                              /\ cr[r].dropModules =>
                                                   edits.kinds \intersect {"schemas", "extensions"} = {}
  BY <1>1 DEF AddingPlans
<1>5. Additive(cr, late)
  BY <1>2, NothingAdditive
<1> QED BY <1>2, <1>3, <1>4, <1>5, SteadySelf DEF AInv

(* As long as nothing is renamed, removed or deleted, a pass that reaches  *)
(* its success has put in place all it read, whatever its predecessors     *)
(* left behind: statements that the engine carries out when their pass has *)
(* run into its deadline or its process has crashed, failed calls, stale   *)
(* reads.                                                                  *)
THEOREM ProvisionedDespiteCrashes ==
    ASSUME AddingPlans
    PROVE  Spec => []Provisioned
<1>1. Init => AInv
  BY AInit
<1>2. TInv /\ PInv /\ AInv /\ [Next]_vars => AInv'
  BY AStep DEF Added
<1>3. TInv /\ PInv /\ AInv => LateSpares
  BY LateSpared
<1> QED BY <1>1, <1>2, <1>3, PlacedProvides, TInit, TStep, PInit, PStep, PTL DEF Spec

LEMMA HonestInPlace ==
    ASSUME TInv, AInv, NEW r \in Resources, Reported(r)
    PROVE  InPlace(cr[r])
<1> DEFINE b == pg.base[cr[r].name]
<1>1. /\ cr[r].exists /\ st[r].db = cr[r].name /\ \A kind \in Kinds : st[r][kind] = RoleFor(cr[r], kind)
      /\ ListedSchemas(cr[r]) \subseteq st[r].schemas /\ cr[r].exts \subseteq st[r].exts
  BY DEF Reported
<1>2. Honest(cr[r], pg, st[r])
  BY <1>1 DEF AInv
<1>3. cr[r] \in Resource /\ cr[r].name \in Names
  BY DEF TInv, TypeOK, Resource
<1>4. cr[r].name # NoName /\ \A kind \in Kinds : RoleFor(cr[r], kind) # NoRole
  BY <1>3, NamesAssumption, RoleForType, RoleValues
<1>5. /\ b.own = RoleFor(cr[r], "owner")
      /\ \A kind \in Kinds : RoleFor(cr[r], kind) \in pg.roles \intersect pg.member
      /\ cr[r].exts \subseteq b.exts
      /\ \A s \in ListedSchemas(cr[r]) : SchemaInPlace(cr[r], b, s)
  BY <1>1, <1>2, <1>4 DEF Honest
<1>6. \A s \in ListedSchemas(cr[r]), kind \in {"reader", "writer"} :
        /\ b.schemas[s] # NoRole
        /\ <<s, RoleFor(cr[r], kind)>> \in b.privs
        /\ <<RoleFor(cr[r], "owner"), s, RoleFor(cr[r], kind)>> \in b.defaults
  BY <1>5 DEF SchemaInPlace, Served
<1> QED BY <1>5, <1>6 DEF InPlace

(* Nor does a status ever promise what the engine does not hold: what a    *)
(* resource that is reported ready asks for is in place, through every     *)
(* timeout, crash and stale read, although the status is patched field by  *)
(* field, by passes that saw older ones.                                   *)
THEOREM ReadyDespiteCrashes ==
    ASSUME AddingPlans
    PROVE  Spec => []ReadyInPlace
<1>1. Init => AInv
  BY AInit
<1>2. TInv /\ PInv /\ AInv /\ [Next]_vars => AInv'
  BY AStep DEF Added
<1>3. TInv /\ PInv /\ AInv => LateSpares
  BY LateSpared
<1>4. TInv /\ AInv => ReadyInPlace
  BY HonestInPlace DEF ReadyInPlace
<1> QED BY <1>1, <1>2, <1>3, <1>4, TInit, TStep, PInit, PStep, PTL DEF Spec

(* The engine only grows.  No step, the late end of an interrupted         *)
(* statement included, takes back a role, a grant, an extension, a schema  *)
(* or a privilege, makes a role that no resource asks for, or hands a      *)
(* database to anyone but the owner that is asked for.                     *)
THEOREM OnlyAdditions ==
    ASSUME AddingPlans
    PROVE  Spec => [][Grows(cr, pg, pg')]_vars
<1>1. Init => AInv
  BY AInit
<1>2. TInv /\ PInv /\ AInv /\ [Next]_vars => AInv' /\ Grows(cr, pg, pg')
  BY AStep DEF Added
<1>3. TInv /\ PInv /\ AInv => LateSpares
  BY LateSpared
<1> QED BY <1>1, <1>2, <1>3, TInit, TStep, PInit, PStep, PTL DEF Spec

-----------------------------------------------------------------------------
(* One resource has the engine for itself, from its creation on.           *)
SolePlans ==
    \A plan \in Plans :
        /\ \A r, q \in Resources : plan.cr[r].exists /\ plan.cr[q].exists => r = q
        /\ plan.pg.roles \subseteq OwnRoles(plan.cr)

Sole ==
    /\ \A r, q \in Resources : cr[r].exists /\ cr[q].exists => r = q
    /\ pg.roles \subseteq OwnRoles(cr)

LEMMA SoleStep ==
    ASSUME Added, Sole
    PROVE  Sole'
<1>1. \A r \in Resources : Steady(cr[r], cr'[r])
  BY DEF Added
<1>2. OwnRoles(cr') = OwnRoles(cr)
  BY <1>1, SteadyResources
<1>3. pg'.roles \subseteq OwnRoles(cr')
  BY <1>2 DEF Added, Grows, Sole
<1>4. \A r, q \in Resources : cr'[r].exists /\ cr'[q].exists => r = q
  BY <1>1 DEF Sole, Steady
<1> QED BY <1>3, <1>4 DEF Sole

LEMMA SoleNames ==
    ASSUME TInv, PInv, AInv, Sole
    PROVE  NoOrphanGroupRole
<1> SUFFICES ASSUME At("success")
             PROVE  pg.roles \subseteq RolesOf(mem)
  BY DEF NoOrphanGroupRole
<1>1. /\ w.r \in Resources /\ cr[w.r].exists /\ Steady(cr[w.r], Asked)
  BY AddingValues DEF At
<1>2. pg.roles \subseteq {RoleFor(cr[w.r], kind) : kind \in Kinds}
  BY <1>1 DEF Sole, OwnRoles
<1>3. RolesDone(w) = Kinds
  BY DEF At, RolesDone, ModuleSteps, LateSteps
<1>4. \A kind \in Kinds : mem[kind] = RoleFor(cr[w.r], kind)
  BY <1>1, <1>3, SteadyRoles DEF PInv, Placed, RoleInPlace
<1>5. \A kind \in Kinds : mem[kind] \in RolesOf(mem)
  BY DEF Kinds, RolesOf
<1> QED BY <1>2, <1>4, <1>5

(* Passes that are cut off forget no group role either: a later pass finds *)
(* the roles that one of them made, and its success names every group role *)
(* on the engine.  Here the resource has the engine for itself: another    *)
(* one's first pass, cut off, leaves roles that its status does not name   *)
(* yet.                                                                    *)
THEOREM NoGroupRoleForgottenInCrashes ==
    ASSUME AddingPlans, SolePlans
    PROVE  Spec => []NoOrphanGroupRole
<1>1. Init => AInv
  BY AInit
<1>2. Init => Sole
  BY DEF Init, SolePlans, Sole
<1>3. TInv /\ PInv /\ AInv /\ Sole /\ [Next]_vars => AInv' /\ Sole'
  BY AStep, SoleStep DEF Added
<1>4. TInv /\ PInv /\ AInv => LateSpares
  BY LateSpared
<1>5. TInv /\ PInv /\ AInv /\ Sole => NoOrphanGroupRole
  BY SoleNames
<1> QED BY <1>1, <1>2, <1>3, <1>4, <1>5, TInit, TStep, PInit, PStep, PTL DEF Spec
=============================================================================
