--------------------------- MODULE DatabaseProofs ---------------------------
(***************************************************************************)
(* Proofs about Database and the statements of PgDatabase, for any         *)
(* resources, names, schemas, extensions, edits and faults: the types of   *)
(* all variables, and what a pass has put in place when it succeeds (there *)
(* without timeouts and crashes).                                          *)
(***************************************************************************)
EXTENDS Database, TLAPS

-----------------------------------------------------------------------------
(* The values.                                                             *)

LEMMA RoleValues ==
    /\ NoRole \notin Roles /\ Operator \notin Roles /\ Outsider \notin Roles
    /\ Operator # NoRole /\ Outsider # NoRole
    /\ \A kind \in Kinds : RolesNamed(kind) \subseteq Roles
    /\ \A a, b \in Kinds : a # b => RolesNamed(a) \intersect RolesNamed(b) = {}
BY DEF NoRole, Operator, Outsider, Roles, RolesNamed, Kinds

LEMMA RoleForType ==
    ASSUME NEW c \in Resource, NEW kind \in Kinds
    PROVE  RoleFor(c, kind) \in RolesNamed(kind)
BY DEF RoleFor, RolesNamed, Resource

LEMMA NoBaseType == NoBase \in Bases /\ NoBase.own = NoRole
<1>1. NoRole \in Owners
  BY DEF Owners
<1>2. [s \in Schemas |-> NoRole] \in [Schemas -> Owners]
  BY <1>1
<1> QED BY <1>1, <1>2 DEF NoBase, Bases

LEMMA StartValues ==
    /\ NoStatus \in Statuses
    /\ NoPass \in Passes /\ NoPass.pc = "idle"
    /\ Nothing \in Statements
<1>1. NoStatus \in Statuses
  BY DEF NoStatus, Statuses
<1>2. (CHOOSE r \in Resources : TRUE) \in Resources
  BY ResourcesAssumption
<1>3. NoPass \in Passes /\ NoPass.pc = "idle"
  BY <1>2 DEF NoPass, Passes, Positions, Kinds
<1>4. NoRole \in Owners
  BY DEF Owners
<1>5. Nothing \in Statements
  BY <1>4 DEF Nothing, Statements, Operations
<1> QED BY <1>1, <1>3, <1>5

-----------------------------------------------------------------------------
(* What a statement needs for its effect to have a type.                   *)
Sound(s) ==
    /\ s \in Statements
    /\ s.op = "rename role" => s.to \in Roles
    /\ s.op = "create role" => s.role \in Roles
    /\ s.op \in Inside \union {"rename base", "own base", "drop base"} => s.base \in Names
    /\ s.op = "rename base" => s.item \in Names
    /\ s.op = "create extension" => s.item \in Extensions
    /\ s.op = "privileges" => s.item \in Schemas

OnDatabases(g) == \A n \in g.sessions \union g.apps : Exists(g, n)

LEMMA OwnersKept ==
    ASSUME NEW g \in EngineStates, NEW h \in EngineStates, OnDatabases(g),
           h.sessions = g.sessions, h.apps = g.apps,
           \A n \in g.sessions \union g.apps : g.base[n].own # NoRole => h.base[n].own # NoRole
    PROVE  OnDatabases(h)
BY DEF OnDatabases, Exists

LEMMA RenamedType ==
    /\ \A a, b, x \in Owners : Renamed(a, b, x) \in Owners
    /\ \A a, b \in Owners, f \in [Schemas -> Owners] : RenamedAll(a, b, f) \in [Schemas -> Owners]
BY DEF Renamed, RenamedAll

LEMMA RoleRenamedType ==
    ASSUME NEW g \in EngineStates, OnDatabases(g), NEW a \in Roles, NEW b \in Roles
    PROVE  RoleRenamed(g, a, b) \in EngineStates /\ OnDatabases(RoleRenamed(g, a, b))
<1> DEFINE h == RoleRenamed(g, a, b)
<1>1. a \in Owners /\ b \in Owners
  BY DEF Owners
<1>2. ASSUME NEW x \in Bases
      PROVE  BaseRenamed(x, a, b) \in Bases
  <2>1. x.own \in Owners /\ x.exts \subseteq Extensions /\ x.schemas \in [Schemas -> Owners]
        /\ x.tables \in [Schemas -> Owners] /\ x.types \in [Schemas -> Owners]
        /\ x.privs \subseteq Schemas \X Roles /\ x.defaults \subseteq Roles \X Schemas \X Roles
    BY <1>2 DEF Bases
  <2>2. {<<p[1], Renamed(a, b, p[2])>> : p \in x.privs} \subseteq Schemas \X Roles
    BY <2>1 DEF Renamed
  <2>3. {<<Renamed(a, b, d[1]), d[2], Renamed(a, b, d[3])>> : d \in x.defaults}
          \subseteq Roles \X Schemas \X Roles
    BY <2>1 DEF Renamed
  <2> QED BY <1>1, <2>1, <2>2, <2>3, RenamedType DEF BaseRenamed, Bases
<1>3. \A n \in Names : BaseRenamed(g.base[n], a, b) \in Bases
  BY <1>2 DEF EngineStates
<1>4. /\ h.roles = (g.roles \ {a}) \union {b}
      /\ h.member = {Renamed(a, b, x) : x \in g.member}
      /\ h.base = [n \in Names |-> BaseRenamed(g.base[n], a, b)]
      /\ h.sessions = g.sessions /\ h.apps = g.apps
      /\ h \in [roles : {h.roles}, member : {h.member}, base : {h.base},
                sessions : {g.sessions}, apps : {g.apps}]
  BY DEF RoleRenamed, EngineStates
<1>5. h.roles \subseteq Roles /\ h.member \subseteq Roles
  BY <1>4 DEF EngineStates, Renamed
<1> HIDE DEF h
<1>6. h \in EngineStates
  BY <1>3, <1>4, <1>5 DEF EngineStates
<1>7. ASSUME NEW n \in g.sessions \union g.apps
      PROVE  Exists(h, n)
  <2>1. n \in Names /\ g.base[n].own # NoRole
    BY DEF OnDatabases, Exists, EngineStates
  <2>2. h.base[n].own = Renamed(a, b, g.base[n].own)
    BY <1>4, <2>1 DEF BaseRenamed
  <2> QED BY <2>1, <2>2, RoleValues DEF Exists, Renamed
<1>8. OnDatabases(h)
  BY <1>4, <1>7 DEF OnDatabases
<1> QED BY <1>6, <1>8 DEF h

LEMMA MovedType ==
    ASSUME NEW a \in Owners, NEW x \in Bases
    PROVE  /\ OwnerMoved(x, a) \in Bases
           /\ InsideMoved(x, a) \in Bases
           /\ OwnerMoved(x, a).own = Renamed(a, Operator, x.own)
           /\ InsideMoved(x, a).own = x.own
<1>1. /\ x.own \in Owners /\ x.schemas \in [Schemas -> Owners]
      /\ x.tables \in [Schemas -> Owners] /\ x.types \in [Schemas -> Owners]
      /\ Operator \in Owners
  BY DEF Bases, Owners
<1>2. /\ Renamed(a, Operator, x.own) \in Owners
      /\ RenamedAll(a, Operator, x.schemas) \in [Schemas -> Owners]
      /\ RenamedAll(a, Operator, x.tables) \in [Schemas -> Owners]
      /\ RenamedAll(a, Operator, x.types) \in [Schemas -> Owners]
  BY <1>1, RenamedType
<1>3. /\ OwnerMoved(x, a) \in Bases
      /\ OwnerMoved(x, a).own = Renamed(a, Operator, x.own)
  BY <1>2 DEF Bases, OwnerMoved
<1>4. InsideMoved(x, a) \in Bases /\ InsideMoved(x, a).own = x.own
  BY <1>2 DEF Bases, InsideMoved
<1> QED BY <1>3, <1>4

LEMMA OwnedDroppedBase ==
    ASSUME NEW g \in EngineStates, NEW a \in Owners, NEW n \in Names
    PROVE  /\ OwnedDropped(g, a, n) =
                [g EXCEPT !.base = OwnedDropped(g, a, n).base]
           /\ OwnedDropped(g, a, n).base \in [Names -> Bases]
           /\ \A m \in Names : OwnedDropped(g, a, n).base[m] =
                IF m = n THEN InsideMoved(OwnerMoved(g.base[m], a), a)
                ELSE OwnerMoved(g.base[m], a)
<1> DEFINE bases == [m \in Names |-> IF m = n THEN InsideMoved(OwnerMoved(g.base[m], a), a)
                                     ELSE OwnerMoved(g.base[m], a)]
<1>1. OwnedDropped(g, a, n) = [g EXCEPT !.base = bases]
  BY DEF OwnedDropped, EngineStates
<1>2. bases \in [Names -> Bases]
  BY MovedType DEF EngineStates
<1>3. OwnedDropped(g, a, n).base = bases
  BY <1>1 DEF EngineStates
<1> QED BY <1>1, <1>2, <1>3

LEMMA OwnedDroppedType ==
    ASSUME NEW g \in EngineStates, OnDatabases(g), NEW a \in Owners, NEW n \in Names
    PROVE  OwnedDropped(g, a, n) \in EngineStates /\ OnDatabases(OwnedDropped(g, a, n))
<1> DEFINE h == OwnedDropped(g, a, n)
<1>1. /\ h = [g EXCEPT !.base = h.base]
      /\ h.base \in [Names -> Bases]
      /\ \A m \in Names : h.base[m] = IF m = n THEN InsideMoved(OwnerMoved(g.base[m], a), a)
                                      ELSE OwnerMoved(g.base[m], a)
  BY OwnedDroppedBase
<1> HIDE DEF h
<1>2. h \in EngineStates /\ h.sessions = g.sessions /\ h.apps = g.apps
  BY <1>1 DEF EngineStates
<1>3. ASSUME NEW m \in g.sessions \union g.apps
      PROVE  Exists(h, m)
  <2>1. m \in Names /\ g.base[m].own # NoRole /\ g.base[m] \in Bases
    BY DEF OnDatabases, Exists, EngineStates
  <2>2. h.base[m].own = Renamed(a, Operator, g.base[m].own)
    BY <1>1, <2>1, MovedType
  <2> QED BY <2>1, <2>2, RoleValues DEF Exists, Renamed
<1>4. OnDatabases(h)
  BY <1>2, <1>3 DEF OnDatabases
<1> QED BY <1>2, <1>4 DEF h

(* RENAME DATABASE: no session is left on the old name, none can be on the *)
(* new one.                                                                *)
LEMMA BaseMovedType ==
    ASSUME NEW g \in EngineStates, OnDatabases(g), NEW n \in Names, NEW m \in Names,
           n \notin g.sessions \union g.apps, Exists(g, n), n # m
    PROVE  /\ BaseMoved(g, n, m, NoBase) \in EngineStates
           /\ OnDatabases(BaseMoved(g, n, m, NoBase))
           /\ BaseMoved(g, n, m, NoBase).sessions = g.sessions
           /\ BaseMoved(g, n, m, NoBase).roles = g.roles
           /\ BaseMoved(g, n, m, NoBase).member = g.member
           /\ \A x \in Names : BaseMoved(g, n, m, NoBase).base[x] =
                IF x = m THEN g.base[n] ELSE IF x = n THEN NoBase ELSE g.base[x]
<1> DEFINE bases == [x \in Names |-> IF x = m THEN g.base[n]
                                     ELSE IF x = n THEN NoBase ELSE g.base[x]]
           h == BaseMoved(g, n, m, NoBase)
<1>1. g.base \in [Names -> Bases]
  BY DEF EngineStates
<1>2. bases \in [Names -> Bases]
  BY <1>1, NoBaseType
<1>3. [[g.base EXCEPT ![m] = g.base[n]] EXCEPT ![n] = NoBase] = bases
  BY <1>1
<1>4. h = [g EXCEPT !.base = [[@ EXCEPT ![m] = g.base[n]] EXCEPT ![n] = NoBase]]
  BY DEF BaseMoved, EngineStates
<1>5. h = [g EXCEPT !.base = bases]
  BY <1>3, <1>4
<1> HIDE DEF bases, h
<1>6. /\ h \in EngineStates
      /\ h.base = bases /\ h.sessions = g.sessions /\ h.apps = g.apps
      /\ h.roles = g.roles /\ h.member = g.member
  BY <1>2, <1>5 DEF EngineStates
<1>7. ASSUME NEW x \in g.sessions \union g.apps
      PROVE  bases[x].own # NoRole
  <2>1. x \in Names /\ g.base[x].own # NoRole /\ x # n /\ g.base[n].own # NoRole
    BY DEF OnDatabases, Exists, EngineStates
  <2> QED BY <2>1 DEF bases
<1>8. OnDatabases(h)
  BY <1>6, <1>7 DEF OnDatabases, Exists
<1>9. \A x \in Names : bases[x] =
        IF x = m THEN g.base[n] ELSE IF x = n THEN NoBase ELSE g.base[x]
  BY DEF bases
<1> QED BY <1>6, <1>8, <1>9 DEF h

(* What a statement leaves has a type and keeps sessions on databases.     *)
LEMMA DoneType ==
    ASSUME NEW g \in EngineStates, OnDatabases(g), NEW s, Sound(s), Works(g, s),
           NEW h, h = Done(g, s, NoBase)
    PROVE  /\ h \in EngineStates /\ OnDatabases(h)
           /\ h.sessions = g.sessions
           /\ s.op \in Inside => Exists(h, s.base)
<1>g. /\ g.base \in [Names -> Bases] /\ g.roles \subseteq Roles /\ g.member \subseteq Roles
  BY DEF EngineStates
<1>s. s \in Statements /\ s.role \in Owners /\ s.to \in Owners /\ s.op \in Operations
  BY DEF Sound, Statements
<1>o. s.op \in Inside => s.base \in Names /\ g.base[s.base].own # NoRole
  BY DEF Sound, Works, Exists
<1>1. CASE s.op = "rename role"
  <2>1. h = RoleRenamed(g, s.role, s.to) /\ s.role \in Roles /\ s.to \in Roles
    BY <1>1, <1>g DEF Done, Sound, Works
  <2>2. h.sessions = g.sessions
    BY <2>1 DEF RoleRenamed, EngineStates
  <2> QED BY <1>1, <2>1, <2>2, RoleRenamedType DEF Inside
<1>2. CASE s.op \in {"create role", "grant role", "drop role"}
  <2>1. /\ h \in EngineStates
        /\ h.base = g.base /\ h.sessions = g.sessions /\ h.apps = g.apps
    BY <1>2, <1>g DEF Done, Sound, Works, EngineStates
  <2> QED BY <1>2, <2>1, OwnersKept DEF Inside
<1>5. CASE s.op = "drop owned"
  <2>1. h = OwnedDropped(g, s.role, s.base) /\ s.base \in Names
    BY <1>5 DEF Done, Sound, Inside
  <2>2. h.sessions = g.sessions
    BY <2>1 DEF OwnedDropped, EngineStates
  <2>3. h.base[s.base].own = Renamed(s.role, Operator, g.base[s.base].own)
    BY <1>g, <1>s, <2>1, OwnedDroppedBase, MovedType
  <2>4. Exists(h, s.base)
    BY <1>o, <1>5, <2>3, RoleValues DEF Exists, Renamed, Inside
  <2> QED BY <1>s, <2>1, <2>2, <2>4, OwnedDroppedType
<1>6. CASE s.op = "rename base"
  <2>1. /\ h = BaseMoved(g, s.base, s.item, NoBase) /\ s.base \in Names /\ s.item \in Names
        /\ s.base \notin g.sessions \union g.apps /\ Exists(g, s.base) /\ s.base # s.item
    BY <1>6 DEF Done, Sound, Works
  <2>2. /\ BaseMoved(g, s.base, s.item, NoBase) \in EngineStates
        /\ OnDatabases(BaseMoved(g, s.base, s.item, NoBase))
        /\ BaseMoved(g, s.base, s.item, NoBase).sessions = g.sessions
    BY <2>1, BaseMovedType
  <2>3. s.op \notin Inside
    BY <1>6 DEF Inside
  <2> QED BY <2>1, <2>2, <2>3
<1> DEFINE n == s.base
           b == g.base[n]
(* The rest changes one database at most, and leaves its owner or sets it. *)
<1>7. ASSUME h \in EngineStates, h.sessions = g.sessions, h.apps = g.apps,
             \A m \in Names \ {n} : h.base[m] = g.base[m],
             n \in Names,
             h.base[n].own = NoRole => s.op \notin Inside /\ n \notin g.sessions \union g.apps
      PROVE  /\ h \in EngineStates /\ OnDatabases(h) /\ h.sessions = g.sessions
             /\ s.op \in Inside => Exists(h, n)
  <2>1. \A m \in g.sessions \union g.apps : g.base[m].own # NoRole => h.base[m].own # NoRole
    BY <1>7 DEF EngineStates
  <2> QED BY <1>7, <2>1, OwnersKept DEF Exists
<1>n. s.op \in Inside \union {"own base", "drop base"} => n \in Names /\ b \in Bases /\ b.own \in Owners
  BY <1>g DEF Sound, Bases
<1>8. CASE s.op = "own base"
  <2> DEFINE c == [b EXCEPT !.own = s.role]
  <2>1. /\ n \in Names /\ b \in Bases
        /\ s.role \in Roles
    BY <1>8, <1>g, <1>n DEF Inside, Sound, Works
  <2>2. c \in Bases /\ c.own = s.role
    BY <1>s, <2>1, NoBaseType, RoleValues DEF Bases, Owners
  <2>3. h = [g EXCEPT !.base = [g.base EXCEPT ![n] = c]]
    BY <1>8, <1>g, <2>1 DEF Done, EngineStates, Bases
  <2> HIDE DEF c
  <2>4. /\ h \in EngineStates /\ h.sessions = g.sessions /\ h.apps = g.apps
        /\ \A m \in Names \ {n} : h.base[m] = g.base[m]
        /\ h.base[n] = c
    BY <1>g, <2>1, <2>2, <2>3 DEF EngineStates
  <2>5. c.own = NoRole => s.op \notin Inside /\ n \notin g.sessions \union g.apps
    BY <1>8, <1>o, <2>1, <2>2, RoleValues DEF Inside, Works
  <2> QED BY <1>7, <2>1, <2>4, <2>5
<1>9. CASE s.op = "drop base"
  <2> DEFINE c == NoBase
  <2>1. n \in Names /\ b \in Bases
    BY <1>9, <1>g, <1>n DEF Inside, Sound, Works
  <2>2. c \in Bases /\ c.own = NoRole
    BY <1>s, <2>1, NoBaseType, RoleValues DEF Bases, Owners
  <2>3. h = [g EXCEPT !.base = [g.base EXCEPT ![n] = c]]
    BY <1>9, <1>g, <2>1 DEF Done, EngineStates, Bases
  <2> HIDE DEF c
  <2>4. /\ h \in EngineStates /\ h.sessions = g.sessions /\ h.apps = g.apps
        /\ \A m \in Names \ {n} : h.base[m] = g.base[m]
        /\ h.base[n] = c
    BY <1>g, <2>1, <2>2, <2>3 DEF EngineStates
  <2>5. c.own = NoRole => s.op \notin Inside /\ n \notin g.sessions \union g.apps
    BY <1>9, <1>o, <2>1, <2>2, RoleValues DEF Inside, Works
  <2> QED BY <1>7, <2>1, <2>4, <2>5
<1>10. CASE s.op = "create extension"
  <2> DEFINE c == [b EXCEPT !.exts = @ \union {s.item}]
  <2>1. /\ n \in Names /\ b \in Bases
        /\ s.item \in Extensions
    BY <1>10, <1>g, <1>n DEF Inside, Sound, Works
  <2>2. c \in Bases /\ c.own = b.own
    BY <1>s, <2>1, NoBaseType, RoleValues DEF Bases, Owners
  <2>3. h = [g EXCEPT !.base = [g.base EXCEPT ![n] = c]]
    BY <1>10, <1>g, <2>1 DEF Done, EngineStates, Bases
  <2> HIDE DEF c
  <2>4. /\ h \in EngineStates /\ h.sessions = g.sessions /\ h.apps = g.apps
        /\ \A m \in Names \ {n} : h.base[m] = g.base[m]
        /\ h.base[n] = c
    BY <1>g, <2>1, <2>2, <2>3 DEF EngineStates
  <2>5. c.own = NoRole => s.op \notin Inside /\ n \notin g.sessions \union g.apps
    BY <1>10, <1>o, <2>1, <2>2, RoleValues DEF Inside, Works
  <2> QED BY <1>7, <2>1, <2>4, <2>5
<1>11. CASE s.op = "drop extension"
  <2> DEFINE c == [b EXCEPT !.exts = @ \ {s.item}]
  <2>1. n \in Names /\ b \in Bases
    BY <1>11, <1>g, <1>n DEF Inside, Sound, Works
  <2>2. c \in Bases /\ c.own = b.own
    BY <1>s, <2>1, NoBaseType, RoleValues DEF Bases, Owners
  <2>3. h = [g EXCEPT !.base = [g.base EXCEPT ![n] = c]]
    BY <1>11, <1>g, <2>1 DEF Done, EngineStates, Bases
  <2> HIDE DEF c
  <2>4. /\ h \in EngineStates /\ h.sessions = g.sessions /\ h.apps = g.apps
        /\ \A m \in Names \ {n} : h.base[m] = g.base[m]
        /\ h.base[n] = c
    BY <1>g, <2>1, <2>2, <2>3 DEF EngineStates
  <2>5. c.own = NoRole => s.op \notin Inside /\ n \notin g.sessions \union g.apps
    BY <1>11, <1>o, <2>1, <2>2, RoleValues DEF Inside, Works
  <2> QED BY <1>7, <2>1, <2>4, <2>5
<1>12. CASE s.op = "create schema"
  <2> DEFINE c == [b EXCEPT !.schemas[s.item] = IF @ = NoRole THEN s.role ELSE @]
  <2>1. n \in Names /\ b \in Bases
    BY <1>12, <1>g, <1>n DEF Inside, Sound, Works
  <2>2. c \in Bases /\ c.own = b.own
    BY <1>s, <2>1, NoBaseType, RoleValues DEF Bases, Owners
  <2>3. h = [g EXCEPT !.base = [g.base EXCEPT ![n] = c]]
    BY <1>12, <1>g, <2>1 DEF Done, EngineStates, Bases
  <2> HIDE DEF c
  <2>4. /\ h \in EngineStates /\ h.sessions = g.sessions /\ h.apps = g.apps
        /\ \A m \in Names \ {n} : h.base[m] = g.base[m]
        /\ h.base[n] = c
    BY <1>g, <2>1, <2>2, <2>3 DEF EngineStates
  <2>5. c.own = NoRole => s.op \notin Inside /\ n \notin g.sessions \union g.apps
    BY <1>12, <1>o, <2>1, <2>2, RoleValues DEF Inside, Works
  <2> QED BY <1>7, <2>1, <2>4, <2>5
<1>13. CASE s.op \in {"drop schema", "drop schema cascade"}
  <2> DEFINE c == WithoutSchema(b, s.item)
  <2>1. n \in Names /\ b \in Bases
    BY <1>13, <1>g, <1>n DEF Inside, Sound, Works
  <2>2. c \in Bases /\ c.own = b.own
    BY <2>1 DEF Bases, Owners, WithoutSchema
  <2>3. h = [g EXCEPT !.base = [g.base EXCEPT ![n] = c]]
    BY <1>13, <1>g, <2>1 DEF Done, EngineStates, SchemaDropped
  <2> HIDE DEF c
  <2>4. /\ h \in EngineStates /\ h.sessions = g.sessions /\ h.apps = g.apps
        /\ \A m \in Names \ {n} : h.base[m] = g.base[m]
        /\ h.base[n] = c
    BY <1>g, <2>1, <2>2, <2>3 DEF EngineStates
  <2>5. c.own = NoRole => s.op \notin Inside /\ n \notin g.sessions \union g.apps
    BY <1>13, <1>o, <2>1, <2>2, RoleValues DEF Inside, Works
  <2> QED BY <1>7, <2>1, <2>4, <2>5
<1>14. CASE s.op = "privileges"
  <2> DEFINE c == [b EXCEPT !.privs = @ \union {<<s.item, s.to>>},
                             !.defaults = @ \union {<<s.role, s.item, s.to>>}]
  <2>1. /\ n \in Names /\ b \in Bases
        /\ s.item \in Schemas /\ s.role \in Roles /\ s.to \in Roles
    BY <1>14, <1>g, <1>n DEF Inside, Sound, Works
  <2>2. c \in Bases /\ c.own = b.own
    <3>1. <<s.item, s.to>> \in Schemas \X Roles /\ <<s.role, s.item, s.to>> \in Roles \X Schemas \X Roles
      BY <2>1
    <3> QED BY <2>1, <3>1 DEF Bases
  <2>3. h = [g EXCEPT !.base = [g.base EXCEPT ![n] = c]]
    BY <1>14, <1>g, <2>1 DEF Done, EngineStates, PrivilegesSet, Bases
  <2> HIDE DEF c
  <2>4. /\ h \in EngineStates /\ h.sessions = g.sessions /\ h.apps = g.apps
        /\ \A m \in Names \ {n} : h.base[m] = g.base[m]
        /\ h.base[n] = c
    BY <1>g, <2>1, <2>2, <2>3 DEF EngineStates
  <2>5. c.own = NoRole => s.op \notin Inside /\ n \notin g.sessions \union g.apps
    BY <1>14, <1>o, <2>1, <2>2, RoleValues DEF Inside, Works
  <2> QED BY <1>7, <2>1, <2>4, <2>5
<1>15. CASE s.op = "own type"
  <2> DEFINE c == [b EXCEPT !.types[s.item] = s.role]
  <2>1. n \in Names /\ b \in Bases
    BY <1>15, <1>g, <1>n DEF Inside, Sound, Works
  <2>2. c \in Bases /\ c.own = b.own
    BY <1>s, <2>1, NoBaseType, RoleValues DEF Bases, Owners
  <2>3. h = [g EXCEPT !.base = [g.base EXCEPT ![n] = c]]
    BY <1>15, <1>g, <2>1 DEF Done, EngineStates, Bases
  <2> HIDE DEF c
  <2>4. /\ h \in EngineStates /\ h.sessions = g.sessions /\ h.apps = g.apps
        /\ \A m \in Names \ {n} : h.base[m] = g.base[m]
        /\ h.base[n] = c
    BY <1>g, <2>1, <2>2, <2>3 DEF EngineStates
  <2>5. c.own = NoRole => s.op \notin Inside /\ n \notin g.sessions \union g.apps
    BY <1>15, <1>o, <2>1, <2>2, RoleValues DEF Inside, Works
  <2> QED BY <1>7, <2>1, <2>4, <2>5
<1>16. CASE s.op = "own table"
  <2>1. n \in Names /\ b \in Bases
    BY <1>16, <1>n DEF Inside
  <2>2. CASE b.tables[Public] = NoRole
    BY <1>16, <1>o, <2>1, <2>2 DEF Done, TableOwned, Inside, Exists
  <2>3. CASE b.tables[Public] # NoRole
    <3> DEFINE c == [b EXCEPT !.tables[Public] = s.role]
    <3>1. c \in Bases /\ c.own = b.own
      BY <1>s, <2>1 DEF Bases
    <3>2. h = [g EXCEPT !.base = [g.base EXCEPT ![n] = c]]
      BY <1>16, <1>g, <2>1, <2>3 DEF Done, EngineStates, TableOwned, Bases
    <3> HIDE DEF c
    <3>3. /\ h \in EngineStates /\ h.sessions = g.sessions /\ h.apps = g.apps
          /\ \A m \in Names \ {n} : h.base[m] = g.base[m]
          /\ h.base[n] = c
      BY <1>g, <2>1, <3>1, <3>2 DEF EngineStates
    <3>4. c.own # NoRole
      BY <1>16, <1>o, <3>1 DEF Inside
    <3> QED BY <1>7, <2>1, <3>3, <3>4
  <2> QED BY <2>2, <2>3
<1>17. CASE s.op \in {"list", "nothing"}
  <2>1. h = g
    BY <1>17 DEF Done
  <2> QED BY <1>17, <1>o, <2>1 DEF Inside, Exists
<1> QED BY <1>s, <1>1, <1>2, <1>5, <1>6, <1>8, <1>9, <1>10, <1>11, <1>12, <1>13, <1>14, <1>15, <1>16,
           <1>17 DEF Operations, Inside

LEMMA AfterType ==
    ASSUME NEW g \in EngineStates, OnDatabases(g), NEW s, Sound(s), Works(g, s),
           NEW k, k = After(g, s, NoBase)
    PROVE  k \in EngineStates /\ OnDatabases(k)
<1> DEFINE h == Done(g, s, NoBase)
<1>1. /\ h \in EngineStates /\ OnDatabases(h)
      /\ s.op \in Inside => Exists(h, s.base) /\ s.base \in Names
  BY DoneType DEF Sound
<1> HIDE DEF h
<1>2. CASE s.op \in Inside
  <2>1. k = [h EXCEPT !.sessions = @ \union {s.base}]
    BY <1>2 DEF After, h
  <2>2. /\ k \in EngineStates /\ k.base = h.base /\ k.apps = h.apps
        /\ k.sessions = h.sessions \union {s.base}
    BY <1>1, <1>2, <2>1 DEF EngineStates
  <2> QED BY <1>1, <1>2, <2>2 DEF OnDatabases, Exists
<1>3. CASE s.op \notin Inside
  <2>1. k = h
    BY <1>3 DEF After, h
  <2> QED BY <1>1, <2>1
<1> QED BY <1>2, <1>3

(* The statements the passes send.                                         *)
LEMMA SoundStatements ==
    /\ Sound(Nothing)
    /\ \A a \in Owners, b \in Roles : Sound(RenameRole(a, b))
    /\ \A a \in Roles : Sound(CreateGroupRole(a))
    /\ \A a \in Owners : Sound(GrantRole(a)) /\ Sound(DropRole(a))
    /\ \A a \in Owners, n \in Names : Sound(ChangeAndDropOwnedBy(a, n)) /\ Sound(ChangeDBOwner(n, a))
                                      /\ Sound(ChangeTableOwner(n, a))
    /\ \A n, m \in Names : Sound(RenameDatabase(n, m))
    /\ \A n \in Names : Sound(DropDatabase(n)) /\ Sound(ListIn(n))
    /\ \A n \in Names, x \in Extensions : Sound(CreateExtension(n, x)) /\ Sound(DropExtension(n, x))
    /\ \A n \in Names, a \in Owners, s \in Schemas :
         Sound(CreateSchema(n, a, s)) /\ Sound(ChangeTypeOwnerInSchema(n, s, a))
    /\ \A n \in Names, s \in Schemas, cascade \in BOOLEAN : Sound(DropSchema(n, s, cascade))
    /\ \A n \in Names, a, b \in Owners, s \in Schemas : Sound(SetSchemaPrivileges(n, a, b, s))
<1>1. NoRole \in Owners /\ Roles \subseteq Owners
  BY DEF Owners
<1> USE <1>1 DEF Nothing, Sound, Statements, Operations, Inside
<1>2. Sound(Nothing)
  OBVIOUS
<1>3. ASSUME NEW a \in Owners, NEW b \in Roles
      PROVE  Sound(RenameRole(a, b))
  BY DEF RenameRole
<1>4. ASSUME NEW a \in Roles
      PROVE  Sound(CreateGroupRole(a))
  BY DEF CreateGroupRole
<1>5. ASSUME NEW a \in Owners
      PROVE  Sound(GrantRole(a)) /\ Sound(DropRole(a))
  BY DEF GrantRole, DropRole
<1>6. ASSUME NEW a \in Owners, NEW n \in Names
      PROVE  /\ Sound(ChangeAndDropOwnedBy(a, n))
             /\ Sound(ChangeDBOwner(n, a))
             /\ Sound(ChangeTableOwner(n, a))
  <2>1. Sound(ChangeAndDropOwnedBy(a, n))
    BY DEF ChangeAndDropOwnedBy
  <2>2. Sound(ChangeDBOwner(n, a))
    BY DEF ChangeDBOwner
  <2>3. Sound(ChangeTableOwner(n, a))
    BY DEF ChangeTableOwner
  <2> QED BY <2>1, <2>2, <2>3
<1>7. ASSUME NEW n \in Names, NEW m \in Names
      PROVE  Sound(RenameDatabase(n, m))
  BY DEF RenameDatabase
<1>8. ASSUME NEW n \in Names
      PROVE  Sound(DropDatabase(n)) /\ Sound(ListIn(n))
  BY DEF DropDatabase, ListIn
<1>9. ASSUME NEW n \in Names, NEW x \in Extensions
      PROVE  Sound(CreateExtension(n, x)) /\ Sound(DropExtension(n, x))
  BY DEF CreateExtension, DropExtension
<1>10. ASSUME NEW n \in Names, NEW a \in Owners, NEW s \in Schemas
       PROVE  Sound(CreateSchema(n, a, s)) /\ Sound(ChangeTypeOwnerInSchema(n, s, a))
  BY DEF CreateSchema, ChangeTypeOwnerInSchema
<1>11. ASSUME NEW n \in Names, NEW s \in Schemas, NEW cascade \in BOOLEAN
       PROVE  Sound(DropSchema(n, s, cascade))
  <2>1. CASE cascade
    BY <2>1 DEF DropSchema
  <2>2. CASE ~cascade
    BY <2>2 DEF DropSchema
  <2> QED BY <2>1, <2>2
<1>12. ASSUME NEW n \in Names, NEW a \in Owners, NEW b \in Owners, NEW s \in Schemas
       PROVE  Sound(SetSchemaPrivileges(n, a, b, s))
  BY DEF SetSchemaPrivileges
<1> HIDE DEF Nothing, Sound, Statements, Operations, Inside
<1> QED BY <1>2, <1>3, <1>4, <1>5, <1>6, <1>7, <1>8, <1>9, <1>10, <1>11, <1>12

-----------------------------------------------------------------------------
(* The type invariant needs a late statement that is sound, and a database *)
(* to rename when a pass renames one.                                      *)
TInv ==
    /\ TypeOK
    /\ Sound(late)
    /\ w.pc = "rename base" => mem.db \in Names

WithSchema == {"reader privileges", "writer privileges", "tables", "types"}

LEMMA MergedType ==
    ASSUME NEW o \in Statuses, NEW m \in Statuses, NEW t \in Statuses
    PROVE  [f \in DOMAIN t |-> Merged(o[f], m[f], t[f])] \in Statuses
<1> DEFINE owners == RolesNamed("owner") \union {NoRole}
           readers == RolesNamed("reader") \union {NoRole}
           writers == RolesNamed("writer") \union {NoRole}
           bases == Names \union {NoName}
<1>1. Statuses = [phase : {"", "Created", "Failed"}, ready : BOOLEAN, db : bases,
                  owner : owners, reader : readers, writer : writers,
                  schemas : SUBSET Schemas, exts : SUBSET Extensions]
  BY DEF Statuses
<1> HIDE DEF owners, readers, writers, bases
<1> QED BY <1>1 DEF Merged

LEMMA StatusPatchType ==
    ASSUME TypeOK, NEW r \in Resources, NEW o \in Statuses, NEW m \in Statuses
    PROVE  StatusPatch(r, o, m) \in [Resources -> Statuses]
<1>1. st \in [Resources -> Statuses] /\ st[r] \in Statuses
  BY DEF TypeOK
<1> DEFINE n == [f \in DOMAIN st[r] |-> Merged(o[f], m[f], st[r][f])]
<1>2. n \in Statuses
  BY <1>1, MergedType
<1>3. StatusPatch(r, o, m) = IF ~cr[r].exists THEN st ELSE [st EXCEPT ![r] = n]
  BY <1>1 DEF StatusPatch
<1> HIDE DEF n
<1> QED BY <1>1, <1>2, <1>3

LEMMA ManageErrorType ==
    ASSUME TypeOK, NEW r \in Resources, NEW o \in Statuses, NEW m \in Statuses,
           ManageError(r, o, m)
    PROVE  st' \in [Resources -> Statuses] /\ mem' \in Statuses /\ w' = NoPass
<1>1. [m EXCEPT !.ready = FALSE, !.phase = "Failed"] \in Statuses
  BY DEF Statuses
<1> QED BY <1>1, StatusPatchType, StartValues DEF ManageError, EndPass

LEMMA StopType ==
    ASSUME TypeOK, Stop
    PROVE  st' \in [Resources -> Statuses] /\ mem' \in Statuses /\ w' = NoPass
<1>1. w.r \in Resources /\ read[w.r].st \in Statuses /\ mem \in Statuses
  BY DEF TypeOK, Passes
<1> QED BY <1>1, ManageErrorType DEF Stop

LEMMA SpendType ==
    ASSUME NEW K, NEW budget \in Budgets(K), budget.left > 0
    PROVE  Spend(budget) \in Budgets(K)
BY DEF Spend, Budgets

(* A step of a pass that touches neither the cluster nor the bounds.       *)
LEMMA PassType ==
    ASSUME TInv, UNCHANGED <<cr, links, engine, edits>>,
           read' \in [Resources -> [cr : Resource, st : Statuses]],
           faults' \in Budgets(FaultKinds), Sound(late'),
           st' \in [Resources -> Statuses], pg' \in EngineStates, OnDatabases(pg'),
           mem' \in Statuses, w' \in Passes,
           w'.pc \in WithSchema => w'.item \in Schemas,
           w'.pc = "rename base" => mem'.db \in Names
    PROVE  TInv'
BY DEF TInv, TypeOK, OnDatabases, WithSchema, Sound

LEMMA ExecuteType ==
    ASSUME TInv, NEW s, Sound(s), NEW status \in Statuses, NEW next \in Passes,
           next.pc \in WithSchema => next.item \in Schemas,
           next.pc = "rename base" => status.db \in Names,
           Execute(s, status, next)
    PROVE  TInv'
<1> USE DEF clusterVars, boundVars
<1>0. /\ TypeOK /\ Sound(late) /\ OnDatabases(pg) /\ pg \in EngineStates
      /\ st \in [Resources -> Statuses] /\ read \in [Resources -> [cr : Resource, st : Statuses]]
      /\ faults \in Budgets(FaultKinds)
  BY DEF TInv, TypeOK, OnDatabases
<1>n. /\ NoPass \in Passes /\ NoPass.pc = "idle"
      /\ "idle" \notin WithSchema /\ NoStatus \in Statuses
  BY StartValues DEF WithSchema
<1>1. CASE Works(pg, s) /\ pg' = Run(s) /\ mem' = status /\ w' = next
           /\ UNCHANGED <<clusterVars, st, late, read, boundVars>>
  <2>1. pg' \in EngineStates /\ OnDatabases(pg')
    BY <1>0, <1>1, AfterType DEF Run
  <2> QED BY <1>0, <1>1, <2>1, PassType
<1>2. CASE Stop /\ UNCHANGED <<clusterVars, pg, late, read, boundVars>>
  <2>1. st' \in [Resources -> Statuses] /\ mem' \in Statuses /\ w' = NoPass
    BY <1>0, <1>2, StopType
  <2> QED BY <1>0, <1>n, <1>2, <2>1, PassType
<1>3. CASE Interrupted(s)
  <2>1. /\ late' = s /\ faults' = Spend(faults) /\ faults.left > 0
        /\ Stop \/ (EndPass /\ UNCHANGED st)
        /\ UNCHANGED <<cr, links, engine, pg, read, edits>>
    BY <1>3 DEF Interrupted, HasFault
  <2>2. st' \in [Resources -> Statuses] /\ mem' \in Statuses /\ w' = NoPass
    BY <1>0, <1>n, <2>1, StopType DEF EndPass
  <2>3. faults' \in Budgets(FaultKinds)
    BY <1>0, <2>1, SpendType
  <2> QED BY <1>0, <1>n, <2>1, <2>2, <2>3, PassType
<1> QED BY <1>1, <1>2, <1>3 DEF Execute

(* The role a status names for a kind.                                     *)
LEMMA NamedRole ==
    ASSUME NEW m \in Statuses, NEW kind \in Kinds
    PROVE  /\ m[kind] \in RolesNamed(kind) \union {NoRole}
           /\ m[kind] \in Owners
           /\ \A a \in RolesNamed(kind) \union {NoRole} : [m EXCEPT ![kind] = a] \in Statuses
           /\ \A a : /\ [m EXCEPT ![kind] = a][kind] = a
                     /\ \A other \in Kinds \ {kind} : [m EXCEPT ![kind] = a][other] = m[other]
                     /\ [m EXCEPT ![kind] = a].db = m.db
                     /\ [m EXCEPT ![kind] = a].schemas = m.schemas
                     /\ [m EXCEPT ![kind] = a].exts = m.exts
<1> DEFINE owners == RolesNamed("owner") \union {NoRole}
           readers == RolesNamed("reader") \union {NoRole}
           writers == RolesNamed("writer") \union {NoRole}
           bases == Names \union {NoName}
<1>1. Statuses = [phase : {"", "Created", "Failed"}, ready : BOOLEAN, db : bases,
                  owner : owners, reader : readers, writer : writers,
                  schemas : SUBSET Schemas, exts : SUBSET Extensions]
  BY DEF Statuses
<1>2. kind = "owner" \/ kind = "reader" \/ kind = "writer"
  BY DEF Kinds
<1>3. m.owner \in owners /\ m.reader \in readers /\ m.writer \in writers
  BY <1>1
<1>4. m[kind] \in RolesNamed(kind) \union {NoRole}
  BY <1>2, <1>3
<1>5. m[kind] \in Owners
  BY <1>4, RoleValues DEF Owners
<1>6. ASSUME NEW a
      PROVE  /\ [m EXCEPT ![kind] = a][kind] = a
             /\ \A other \in Kinds \ {kind} : [m EXCEPT ![kind] = a][other] = m[other]
             /\ [m EXCEPT ![kind] = a].db = m.db
             /\ [m EXCEPT ![kind] = a].schemas = m.schemas
             /\ [m EXCEPT ![kind] = a].exts = m.exts
  <2> HIDE DEF owners, readers, writers, bases
  <2> QED BY <1>1, <1>2 DEF Kinds
<1>7. ASSUME NEW a \in RolesNamed(kind) \union {NoRole}
      PROVE  [m EXCEPT ![kind] = a] \in Statuses
  <2>1. CASE kind = "owner"
    <3>1. a \in owners
      BY <2>1, <1>7
    <3> HIDE DEF owners, readers, writers, bases
    <3> QED BY <1>1, <2>1, <3>1
  <2>2. CASE kind = "reader"
    <3>1. a \in readers
      BY <2>2, <1>7
    <3> HIDE DEF owners, readers, writers, bases
    <3> QED BY <1>1, <2>2, <3>1
  <2>3. CASE kind = "writer"
    <3>1. a \in writers
      BY <2>3, <1>7
    <3> HIDE DEF owners, readers, writers, bases
    <3> QED BY <1>1, <2>3, <3>1
  <2> QED BY <1>2, <2>1, <2>2, <2>3
<1> QED BY <1>4, <1>5, <1>6, <1>7

LEMMA GotoType ==
    ASSUME w \in Passes, NEW p \in Positions
    PROVE  /\ Goto(p) \in Passes /\ Goto(p).pc = p /\ Goto(p).r = w.r /\ Goto(p).kind = w.kind
           /\ Goto(p).todo = w.todo /\ Goto(p).item = w.item
BY DEF Goto, Passes

(* The values of a running pass.                                           *)
LEMMA PassValues ==
    ASSUME TypeOK
    PROVE  /\ w \in Passes /\ w.r \in Resources /\ w.kind \in Kinds /\ mem \in Statuses
           /\ Asked \in Resource /\ Asked.name \in Names
           /\ Asked.schemas \subseteq Schemas /\ Asked.exts \subseteq Extensions
           /\ Asked.cascade \in BOOLEAN /\ Asked.drop \in BOOLEAN
           /\ read[w.r].st \in Statuses /\ read[w.r] \in [cr : Resource, st : Statuses]
           /\ Wanted \in RolesNamed(w.kind) /\ Wanted \in Roles
           /\ mem[w.kind] \in Owners
           /\ mem.owner \in Owners /\ mem.reader \in Owners /\ mem.writer \in Owners
           /\ mem.db \in Names \union {NoName}
           /\ mem.schemas \subseteq Schemas /\ mem.exts \subseteq Extensions
           /\ ListedSchemas(Asked) \subseteq Schemas
<1>1. /\ w \in Passes /\ w.r \in Resources /\ w.kind \in Kinds /\ mem \in Statuses
      /\ read[w.r] \in [cr : Resource, st : Statuses]
  BY DEF TypeOK, Passes
<1>2. Asked \in Resource /\ read[w.r].st \in Statuses
  BY <1>1 DEF Asked
<1>3. /\ Asked.name \in Names /\ Asked.schemas \subseteq Schemas /\ Asked.exts \subseteq Extensions
      /\ Asked.cascade \in BOOLEAN /\ Asked.drop \in BOOLEAN
  BY <1>2 DEF Resource
<1>4. Wanted \in RolesNamed(w.kind) /\ Wanted \in Roles
  BY <1>1, <1>2, RoleForType, RoleValues DEF Wanted
<1>5. "owner" \in Kinds /\ "reader" \in Kinds /\ "writer" \in Kinds
  BY DEF Kinds
<1>6. /\ mem[w.kind] \in Owners
      /\ mem.owner \in Owners /\ mem.reader \in Owners /\ mem.writer \in Owners
  BY <1>1, <1>5, NamedRole
<1>7. mem.db \in Names \union {NoName} /\ mem.schemas \subseteq Schemas /\ mem.exts \subseteq Extensions
  BY <1>1 DEF Statuses
<1>8. ListedSchemas(Asked) \subseteq Schemas
  BY <1>3, SchemasAssumption DEF ListedSchemas
<1> QED BY <1>1, <1>2, <1>3, <1>4, <1>6, <1>7, <1>8

LEMMA QuietlyType ==
    ASSUME TInv, NEW status \in Statuses, NEW next \in Passes,
           next.pc \in WithSchema => next.item \in Schemas,
           next.pc = "rename base" => status.db \in Names,
           Quietly(status, next)
    PROVE  TInv'
<1>1. TypeOK /\ Sound(late) /\ OnDatabases(pg)
  BY DEF TInv, TypeOK, OnDatabases
<1> QED BY <1>1, PassType DEF TInv, TypeOK, Quietly, clusterVars, boundVars

LEMMA ClosedType ==
    ASSUME TypeOK, NEW n
    PROVE  Closed(n) \in EngineStates /\ OnDatabases(Closed(n))
BY DEF TypeOK, Closed, EngineStates, OnDatabases, Exists

LEMMA RolesStepType ==
    ASSUME TInv, ManageRoles
    PROVE  TInv'
<1>0. TypeOK
  BY DEF TInv
<1>1. CASE RenameOldRole
  <2> DEFINE s == IF IsRoleExist(pg, mem[w.kind]) /\ mem[w.kind] # Wanted
                  THEN RenameRole(mem[w.kind], Wanted) ELSE Nothing
  <2>1. Sound(s)
    BY <1>0, PassValues, SoundStatements
  <2>2. Execute(s, mem, Goto("create role"))
    BY <1>1 DEF RenameOldRole
  <2>3. Goto("create role") \in Passes /\ Goto("create role").pc = "create role"
    BY <1>0, PassValues, GotoType DEF Positions
  <2> HIDE DEF s
  <2> QED BY <1>0, <2>1, <2>2, <2>3, PassValues, ExecuteType DEF WithSchema
<1>2. CASE CreateRole
  <2> DEFINE s == IF IsRoleExist(pg, Wanted) THEN Nothing ELSE CreateGroupRole(Wanted)
  <2>1. Sound(s)
    BY <1>0, PassValues, SoundStatements
  <2>2. Execute(s, mem, Goto("grant role"))
    BY <1>2 DEF CreateRole
  <2>3. Goto("grant role") \in Passes /\ Goto("grant role").pc = "grant role"
    BY <1>0, PassValues, GotoType DEF Positions
  <2> HIDE DEF s
  <2> QED BY <1>0, <2>1, <2>2, <2>3, PassValues, ExecuteType DEF WithSchema
<1>3. CASE GrantToOperator
  <2>1. Sound(GrantRole(Wanted))
    BY <1>0, PassValues, SoundStatements, RoleValues DEF Owners
  <2>2. Execute(GrantRole(Wanted), [mem EXCEPT ![w.kind] = Wanted], AfterGrant)
    BY <1>3 DEF GrantToOperator
  <2>3. AfterGrant \in Passes /\ AfterGrant.pc \in {"close old", "rename role", "extensions"}
    <3>1. Goto("close old") \in Passes /\ Goto("extensions") \in Passes /\ Goto("rename role") \in Passes
          /\ Goto("close old").pc = "close old" /\ Goto("extensions").pc = "extensions"
          /\ Goto("rename role").pc = "rename role"
      BY <1>0, PassValues, GotoType DEF Positions
    <3>2. /\ [Goto("rename role") EXCEPT !.kind = "writer"] \in Passes
          /\ [Goto("rename role") EXCEPT !.kind = "writer"].pc = "rename role"
      BY <3>1 DEF Passes, Kinds
    <3>3. w.kind = "owner" \/ w.kind = "reader" \/ w.kind = "writer"
      BY <1>0, PassValues DEF Kinds
    <3> QED BY <3>1, <3>2, <3>3 DEF AfterGrant
  <2>4. [mem EXCEPT ![w.kind] = Wanted] \in Statuses
    BY <1>0, PassValues, NamedRole
  <2> QED BY <2>1, <2>2, <2>3, <2>4, ExecuteType DEF WithSchema
<1> QED BY <1>1, <1>2, <1>3 DEF ManageRoles

LEMMA BaseStepType ==
    ASSUME TInv, ManageBase
    PROVE  TInv'
<1>0. TypeOK
  BY DEF TInv
<1>1. CASE CloseOldPools
  <2>1. CASE Quietly(mem, Goto("own base"))
    <3>1. Goto("own base") \in Passes /\ Goto("own base").pc = "own base"
      BY <1>0, PassValues, GotoType DEF Positions
    <3> QED BY <1>0, <2>1, <3>1, PassValues, QuietlyType DEF WithSchema
  <2>2. CASE /\ mem.db \notin {NoName, Asked.name} /\ pg' = Closed(mem.db)
             /\ w' = Goto("rename base")
             /\ UNCHANGED <<clusterVars, st, late, read, mem, boundVars>>
    <3>1. Goto("rename base") \in Passes /\ Goto("rename base").pc = "rename base"
      BY <1>0, PassValues, GotoType DEF Positions
    <3>2. pg' \in EngineStates /\ OnDatabases(pg')
      BY <1>0, <2>2, ClosedType
    <3>3. mem'.db \in Names
      BY <1>0, <2>2, PassValues
    <3> QED BY <1>0, <2>2, <3>1, <3>2, <3>3, PassType
            DEF WithSchema, TInv, TypeOK, clusterVars, boundVars
  <2>3. CASE Reject
    BY <1>0, <2>3, StopType, StartValues, PassType
       DEF Reject, WithSchema, TInv, TypeOK, clusterVars, boundVars, OnDatabases
  <2> QED BY <1>1, <2>1, <2>2, <2>3 DEF CloseOldPools
<1>2. CASE RenameBase
  <2>1. mem.db \in Names
    BY <1>2 DEF TInv, RenameBase, At
  <2>2. Goto("own base") \in Passes /\ Goto("own base").pc = "own base"
    BY <1>0, PassValues, GotoType DEF Positions
  <2>3. Sound(RenameDatabase(mem.db, Asked.name))
    BY <1>0, <2>1, PassValues, SoundStatements
  <2>4. Execute(RenameDatabase(mem.db, Asked.name), mem, Goto("own base"))
    BY <1>2 DEF RenameBase
  <2> QED BY <1>0, <2>2, <2>3, <2>4, PassValues, ExecuteType DEF WithSchema
<1>3. CASE OwnBase
  <2>1. CASE Reject
    BY <1>0, <2>1, StopType, StartValues, PassType
       DEF Reject, WithSchema, TInv, TypeOK, clusterVars, boundVars, OnDatabases
  <2>2. CASE ~Reject
    <3> DEFINE s == IF pg.base[Asked.name].own = mem.owner THEN Nothing
                    ELSE ChangeDBOwner(Asked.name, mem.owner)
               next == [Goto("rename role") EXCEPT !.kind = "reader"]
               status == [mem EXCEPT !.db = Asked.name]
    <3>1. Sound(s)
      BY <1>0, PassValues, SoundStatements
    <3>2. Goto("rename role") \in Passes /\ Goto("rename role").pc = "rename role"
      BY <1>0, PassValues, GotoType DEF Positions
    <3>3. next \in Passes /\ next.pc = "rename role"
      BY <3>2 DEF Passes, Kinds
    <3>4. status \in Statuses
      BY <1>0, PassValues DEF Statuses
    <3>5. Execute(s, status, next)
      BY <1>3, <2>2 DEF OwnBase
    <3> HIDE DEF s, next, status
    <3> QED BY <3>1, <3>3, <3>4, <3>5, ExecuteType DEF WithSchema
  <2> QED BY <2>1, <2>2
<1> QED BY <1>1, <1>2, <1>3 DEF ManageBase

LEMMA ExtensionsStepType ==
    ASSUME TInv, ManageExtensions
    PROVE  TInv'
<1>0. TypeOK
  BY DEF TInv
<1>g. /\ Goto("drop extensions") \in Passes /\ Goto("drop extensions").pc = "drop extensions"
      /\ Goto("create extensions") \in Passes /\ Goto("create extensions").pc = "create extensions"
      /\ Goto("drop schemas") \in Passes /\ Goto("drop schemas").pc = "drop schemas"
  BY <1>0, PassValues, GotoType DEF Positions
<1>1. CASE GoExtensions
  <2>1. ToExtensions \in Passes /\ ToExtensions.pc = "drop extensions"
    BY <1>0, <1>g, PassValues DEF ToExtensions, Removed, Passes
  <2> QED BY <1>0, <1>1, <2>1, PassValues, QuietlyType DEF GoExtensions, WithSchema
<1>2. ASSUME NEW x \in Extensions, DropOneExtension(x)
      PROVE  TInv'
  <2> DEFINE next == [w EXCEPT !.todo = @ \ {x}]
  <2>1. next \in Passes /\ next.pc = "drop extensions"
    BY <1>0, <1>2, PassValues DEF DropOneExtension, At, Passes
  <2>2. Sound(DropExtension(Asked.name, x)) /\ mem \in Statuses
    BY <1>0, PassValues, SoundStatements
  <2>3. Execute(DropExtension(Asked.name, x), mem, next)
    BY <1>2 DEF DropOneExtension
  <2> HIDE DEF next
  <2> QED BY <2>1, <2>2, <2>3, ExecuteType DEF WithSchema
<1>3. ASSUME NEW x \in Extensions, CreateOneExtension(x)
      PROVE  TInv'
  <2> DEFINE next == [w EXCEPT !.todo = @ \ {x}]
             status == [mem EXCEPT !.exts = @ \union {x}]
             s == IF x \in Base.exts THEN Nothing ELSE CreateExtension(Asked.name, x)
  <2>1. next \in Passes /\ next.pc = "create extensions"
    BY <1>0, <1>3, PassValues DEF CreateOneExtension, At, Passes
  <2>2. Sound(s)
    BY <1>0, PassValues, SoundStatements
  <2>3. status \in Statuses
    BY <1>0, PassValues DEF Statuses
  <2>4. Execute(s, status, next)
    BY <1>3 DEF CreateOneExtension
  <2> HIDE DEF next, status, s
  <2> QED BY <2>1, <2>2, <2>3, <2>4, ExecuteType DEF WithSchema
<1>4. CASE ListExtensions
  <2> DEFINE next == [Goto("create extensions") EXCEPT !.todo = Asked.exts]
             status == [mem EXCEPT !.exts = Kept(@, Asked.exts)]
  <2>1. next \in Passes /\ next.pc = "create extensions"
    BY <1>0, <1>g, PassValues DEF Passes
  <2>2. Sound(ListIn(Asked.name))
    BY <1>0, PassValues, SoundStatements
  <2>3. status \in Statuses
    BY <1>0, PassValues DEF Statuses, Kept
  <2>4. Execute(ListIn(Asked.name), status, next)
    BY <1>4 DEF ListExtensions
  <2> HIDE DEF next, status
  <2> QED BY <2>1, <2>2, <2>3, <2>4, ExecuteType DEF WithSchema
<1>5. CASE GoSchemas
  <2>1. ToSchemas \in Passes /\ ToSchemas.pc = "drop schemas"
    BY <1>0, <1>g, PassValues DEF ToSchemas, Removed, Passes
  <2> QED BY <1>0, <1>5, <2>1, PassValues, QuietlyType DEF GoSchemas, WithSchema
<1> QED BY <1>1, <1>2, <1>3, <1>4, <1>5 DEF ManageExtensions

LEMMA SchemasStepType ==
    ASSUME TInv, ManageSchemas
    PROVE  TInv'
<1>0. TypeOK /\ mem \in Statuses
  BY PassValues DEF TInv
<1>g. \A p \in Positions : Goto(p) \in Passes /\ Goto(p).pc = p /\ Goto(p).item = w.item
  BY <1>0, PassValues, GotoType
<1>p. /\ {"reader privileges", "writer privileges", "tables", "types", "create schemas",
          "drop schemas", "success"} \subseteq Positions
      /\ "create schemas" \notin WithSchema /\ "drop schemas" \notin WithSchema
      /\ "success" \notin WithSchema /\ "rename base" \notin WithSchema
  BY DEF Positions, WithSchema
<1>i. w.pc \in WithSchema => w.item \in Schemas
  BY <1>0 DEF TypeOK, WithSchema
<1>1. ASSUME NEW x \in Schemas, DropOneSchema(x)
      PROVE  TInv'
  <2> DEFINE next == [w EXCEPT !.todo = @ \ {x}]
  <2>1. next \in Passes /\ next.pc = "drop schemas"
    BY <1>0, <1>1, PassValues DEF DropOneSchema, At, Passes
  <2>2. Sound(DropSchema(Asked.name, x, Asked.cascade))
    BY <1>0, PassValues, SoundStatements
  <2>3. Execute(DropSchema(Asked.name, x, Asked.cascade), mem, next)
    BY <1>1 DEF DropOneSchema
  <2> HIDE DEF next
  <2> QED BY <1>0, <1>p, <2>1, <2>2, <2>3, ExecuteType
<1>2. ASSUME NEW x \in Schemas, CreateOneSchema(x)
      PROVE  TInv'
  <2> DEFINE next == [Goto("reader privileges") EXCEPT !.item = x]
             s == IF Base.schemas[x] # NoRole THEN Nothing
                  ELSE CreateSchema(Asked.name, mem.owner, x)
  <2>0. Goto("reader privileges") \in Passes /\ Goto("reader privileges").pc = "reader privileges"
    BY <1>g, <1>p
  <2>1. next \in Passes /\ next.pc = "reader privileges" /\ next.item = x
    BY <2>0 DEF Passes
  <2>2. Sound(s)
    BY <1>0, PassValues, SoundStatements
  <2>3. Execute(s, mem, next)
    BY <1>2 DEF CreateOneSchema
  <2> HIDE DEF next, s
  <2> QED BY <1>0, <1>2, <2>1, <2>2, <2>3, ExecuteType
<1>3. CASE ListSchema
  <2> DEFINE next == [Goto("create schemas") EXCEPT !.todo = ListedSchemas(Asked)]
             status == [mem EXCEPT !.schemas = Kept(@, ListedSchemas(Asked))]
  <2>1. next \in Passes /\ next.pc = "create schemas"
    BY <1>0, <1>g, <1>p, PassValues DEF Passes
  <2>2. Sound(ListIn(Asked.name))
    BY <1>0, PassValues, SoundStatements
  <2>3. status \in Statuses
    BY <1>0, PassValues DEF Statuses, Kept
  <2>4. Execute(ListIn(Asked.name), status, next)
    BY <1>3 DEF ListSchema
  <2> HIDE DEF next, status
  <2> QED BY <1>p, <2>1, <2>2, <2>3, <2>4, ExecuteType
<1>4. CASE ReaderPrivileges
  <2>1. w.item \in Schemas
    BY <1>4, <1>i DEF ReaderPrivileges, At, WithSchema
  <2>2. Sound(SetSchemaPrivileges(Asked.name, mem.owner, mem.reader, w.item))
    BY <1>0, <2>1, PassValues, SoundStatements
  <2>3. Execute(SetSchemaPrivileges(Asked.name, mem.owner, mem.reader, w.item), mem,
                Goto("writer privileges"))
    BY <1>4 DEF ReaderPrivileges
  <2> QED BY <1>0, <1>g, <1>p, <2>1, <2>2, <2>3, ExecuteType
<1>5. CASE WriterPrivileges
  <2>1. w.item \in Schemas
    BY <1>5, <1>i DEF WriterPrivileges, At, WithSchema
  <2>2. Sound(SetSchemaPrivileges(Asked.name, mem.owner, mem.writer, w.item))
    BY <1>0, <2>1, PassValues, SoundStatements
  <2>3. Execute(SetSchemaPrivileges(Asked.name, mem.owner, mem.writer, w.item), mem,
                Goto("tables"))
    BY <1>5 DEF WriterPrivileges
  <2> QED BY <1>0, <1>g, <1>p, <2>1, <2>2, <2>3, ExecuteType
<1>6. CASE OwnTables
  <2> DEFINE s == IF Base.tables[w.item] \in {NoRole, mem.owner} THEN ListIn(Asked.name)
                  ELSE ChangeTableOwner(Asked.name, mem.owner)
  <2>1. w.item \in Schemas
    BY <1>6, <1>i DEF OwnTables, At, WithSchema
  <2>2. Sound(s)
    BY <1>0, PassValues, SoundStatements
  <2>3. Execute(s, mem, Goto("types"))
    BY <1>6 DEF OwnTables
  <2> HIDE DEF s
  <2> QED BY <1>0, <1>g, <1>p, <2>1, <2>2, <2>3, ExecuteType
<1>7. CASE OwnTypes
  <2> DEFINE s == IF Base.types[w.item] \in {NoRole, mem.owner} THEN ListIn(Asked.name)
                  ELSE ChangeTypeOwnerInSchema(Asked.name, w.item, mem.owner)
             next == [Goto("create schemas") EXCEPT !.todo = @ \ {w.item}, !.item = NoName]
             status == [mem EXCEPT !.schemas = @ \union {w.item}]
  <2>1. w.item \in Schemas
    BY <1>7, <1>i DEF OwnTypes, At, WithSchema
  <2>2. Sound(s)
    BY <1>0, <2>1, PassValues, SoundStatements
  <2>0. Goto("create schemas") \in Passes /\ Goto("create schemas").pc = "create schemas"
    BY <1>g, <1>p
  <2>3. next \in Passes /\ next.pc = "create schemas"
    BY <2>0 DEF Passes
  <2>4. status \in Statuses
    BY <1>0, <2>1 DEF Statuses
  <2>5. Execute(s, status, next)
    BY <1>7 DEF OwnTypes
  <2> HIDE DEF s, next, status
  <2> QED BY <1>p, <2>2, <2>3, <2>4, <2>5, ExecuteType
<1>8. CASE GoSuccess
  <2>1. Quietly(mem, Goto("success")) /\ Goto("success") \in Passes /\ Goto("success").pc = "success"
    BY <1>8, <1>g, <1>p DEF GoSuccess
  <2> QED BY <1>0, <1>p, <2>1, QuietlyType
<1>9. CASE ManageSuccess
  <2> DEFINE m == [mem EXCEPT !.ready = TRUE, !.phase = "Created"]
  <2>1. m \in Statuses
    BY <1>0 DEF Statuses
  <2>2. st' = StatusPatch(w.r, read[w.r].st, m)
    BY <1>9 DEF ManageSuccess
  <2> HIDE DEF m
  <2>3. st' \in [Resources -> Statuses]
    BY <1>0, <2>1, <2>2, PassValues, StatusPatchType
  <2> QED BY <1>9, <2>3, StartValues, PassType
          DEF ManageSuccess, EndPass, WithSchema, TInv, TypeOK, clusterVars, boundVars, OnDatabases
<1> QED BY <1>1, <1>2, <1>3, <1>4, <1>5, <1>6, <1>7, <1>8, <1>9 DEF ManageSchemas

LEMMA DropStepType ==
    ASSUME TInv, ManageDrop
    PROVE  TInv'
<1>0. TypeOK /\ mem \in Statuses
  BY PassValues DEF TInv
<1>g. \A p \in Positions : Goto(p) \in Passes /\ Goto(p).pc = p
  BY <1>0, PassValues, GotoType
<1>p. /\ {"drop owned", "drop role", "close", "drop base", "finalize"} \subseteq Positions
      /\ {"drop owned", "drop role", "close", "drop base", "finalize"} \intersect WithSchema = {}
  BY DEF Positions, WithSchema
<1>a. AfterDrop \in Passes /\ AfterDrop.pc \in {"drop owned", "close"}
  <2>1. /\ Goto("drop owned") \in Passes /\ Goto("drop owned").pc = "drop owned"
        /\ Goto("close") \in Passes /\ Goto("close").pc = "close"
    BY <1>g, <1>p
  <2>2. ASSUME NEW k \in Kinds
        PROVE  [Goto("drop owned") EXCEPT !.kind = k] \in Passes
               /\ [Goto("drop owned") EXCEPT !.kind = k].pc = "drop owned"
    BY <2>1 DEF Passes
  <2>3. /\ [Goto("drop owned") EXCEPT !.kind = "writer"] \in Passes
        /\ [Goto("drop owned") EXCEPT !.kind = "writer"].pc = "drop owned"
        /\ [Goto("drop owned") EXCEPT !.kind = "reader"] \in Passes
        /\ [Goto("drop owned") EXCEPT !.kind = "reader"].pc = "drop owned"
    BY <2>2 DEF Kinds
  <2>4. w.kind = "owner" \/ w.kind = "reader" \/ w.kind = "writer"
    BY <1>0, PassValues DEF Kinds
  <2> QED BY <2>1, <2>3, <2>4 DEF AfterDrop
<1>f. Forgotten \in Statuses
  BY <1>0, PassValues, NamedRole DEF Forgotten
<1>r. Reject => TInv'
  BY <1>0, StopType, StartValues, PassType
     DEF Reject, WithSchema, TInv, TypeOK, clusterVars, boundVars, OnDatabases
<1>1. CASE SkipRole
  BY <1>1, <1>a, <1>f, <1>p, QuietlyType DEF SkipRole
<1>2. CASE DropOwned
  <2>1. Sound(ChangeAndDropOwnedBy(mem[w.kind], Asked.name))
    BY <1>0, PassValues, SoundStatements
  <2>2. Goto("drop role") \in Passes /\ Goto("drop role").pc = "drop role"
    BY <1>g, <1>p
  <2>3. Execute(ChangeAndDropOwnedBy(mem[w.kind], Asked.name), mem, Goto("drop role"))
    BY <1>2 DEF DropOwned
  <2> QED BY <1>0, <1>p, <2>1, <2>2, <2>3, ExecuteType
<1>3. CASE DropGroupRole
  <2>1. Sound(DropRole(mem[w.kind]))
    BY <1>0, PassValues, SoundStatements
  <2> QED BY <1>3, <1>a, <1>f, <1>p, <2>1, ExecuteType DEF DropGroupRole
<1>4. CASE ClosePools
  <2>1. Goto("drop base") \in Passes /\ Goto("drop base").pc = "drop base"
    BY <1>g, <1>p
  <2>2. pg' \in EngineStates /\ OnDatabases(pg')
    BY <1>0, <1>4, ClosedType DEF ClosePools
  <2> QED BY <1>4, <1>p, <2>1, <2>2, PassType DEF ClosePools, TInv, TypeOK, clusterVars, boundVars
<1>5. CASE DropBase
  <2>1. CASE Reject
    BY <1>r, <2>1
  <2>2. CASE Execute(DropDatabase(Asked.name), mem, Goto("finalize"))
    <3>1. Sound(DropDatabase(Asked.name))
      BY <1>0, PassValues, SoundStatements
    <3>2. Goto("finalize") \in Passes /\ Goto("finalize").pc = "finalize"
      BY <1>g, <1>p
    <3> QED BY <1>0, <1>p, <2>2, <3>1, <3>2, ExecuteType
  <2> QED BY <1>5, <2>1, <2>2 DEF DropBase
<1>6. CASE Finalize
  <2>1. CASE read[w.r] = Stored(w.r)
    <3>1. /\ cr' = [cr EXCEPT ![w.r].exists = FALSE] /\ mem' = NoStatus /\ w' = NoPass
          /\ UNCHANGED <<st, links, engine, pg, late, read, edits, faults>>
      BY <1>6, <2>1 DEF Finalize, EndPass, boundVars
    <3>2. w.r \in Resources /\ cr \in [Resources -> Resource]
      BY <1>0, PassValues DEF TypeOK
    <3> DEFINE gone == [cr[w.r] EXCEPT !.exists = FALSE]
    <3>0. cr[w.r] \in Resource
      BY <3>2
    <3>3. gone \in Resource
      BY <3>0 DEF Resource
    <3>4. cr' = [cr EXCEPT ![w.r] = gone]
      BY <3>1, <3>2
    <3> HIDE DEF gone
    <3>5. cr' \in [Resources -> Resource]
      BY <3>2, <3>3, <3>4
    <3> QED BY <3>1, <3>5, StartValues DEF TInv, TypeOK
  <2>2. CASE read[w.r] # Stored(w.r)
    <3>1. Reject
      BY <1>6, <2>2 DEF Finalize, Reject
    <3> QED BY <1>r, <3>1
  <2> QED BY <2>1, <2>2
<1> QED BY <1>1, <1>2, <1>3, <1>4, <1>5, <1>6 DEF ManageDrop

(* The copy a pass starts from.                                            *)
LEMMA CopyType ==
    ASSUME TypeOK, NEW r \in Resources, NEW copy \in CacheCopies(r)
    PROVE  copy \in [cr : Resource, st : Statuses] /\ copy.cr \in Resource /\ copy.st \in Statuses
<1>1. cr[r] \in Resource /\ st[r] \in Statuses /\ read[r] \in [cr : Resource, st : Statuses]
  BY DEF TypeOK
<1>2. copy = [cr |-> cr[r], st |-> st[r]] \/ copy = read[r]
  BY DEF CacheCopies, Stored
<1> QED BY <1>1, <1>2

LEMMA StartType ==
    ASSUME NEW r \in Resources, NEW position \in Positions
    PROVE  /\ [NoPass EXCEPT !.pc = position, !.r = r] \in Passes
           /\ [NoPass EXCEPT !.pc = position, !.r = r].pc = position
BY StartValues DEF Passes

LEMMA ResourceEdited ==
    ASSUME TypeOK, NEW r \in Resources, NEW c \in Resource, cr' = [cr EXCEPT ![r] = c]
    PROVE  cr' \in [Resources -> Resource]
BY DEF TypeOK

LEMMA BeginStepType ==
    ASSUME TInv, NEW r \in Resources, NEW copy \in CacheCopies(r), BeginWith(r, copy)
    PROVE  TInv'
<1> USE DEF boundVars
<1>0. /\ TypeOK /\ Sound(late) /\ OnDatabases(pg) /\ pg \in EngineStates /\ w.pc = "idle"
      /\ st \in [Resources -> Statuses] /\ mem \in Statuses /\ w \in Passes
      /\ faults \in Budgets(FaultKinds)
      /\ copy \in [cr : Resource, st : Statuses] /\ copy.cr \in Resource /\ copy.st \in Statuses
  BY CopyType DEF TInv, TypeOK, OnDatabases, BeginWith, Read, At, BeginNotFound, BeginWaitLinked,
     BeginDrop, BeginKeep, BeginNoEngine, BeginWait, BeginFinalizer, BeginWork
<1>1. /\ read' = [read EXCEPT ![r] = copy]
      /\ UNCHANGED <<links, engine, late, edits, faults>>
  BY DEF BeginWith, Read, BeginNotFound, BeginWaitLinked, BeginDrop, BeginKeep, BeginNoEngine,
     BeginWait, BeginFinalizer, BeginWork
<1>2. read' \in [Resources -> [cr : Resource, st : Statuses]]
  BY <1>0, <1>1 DEF TypeOK
<1>n. "idle" \notin WithSchema /\ "rename base" # "idle"
  BY DEF WithSchema
<1>3. CASE UNCHANGED <<cr, st, pg, mem, w>>
  BY <1>0, <1>1, <1>2, <1>3, <1>n, PassType
<1>4. CASE ManageError(r, copy.st, copy.st) /\ UNCHANGED <<cr, pg>>
  <2>1. st' \in [Resources -> Statuses] /\ mem' \in Statuses /\ w' = NoPass
    BY <1>0, <1>4, ManageErrorType
  <2> QED BY <1>0, <1>1, <1>2, <1>4, <1>n, <2>1, StartValues, PassType
<1>5. ASSUME NEW position \in {"rename role", "drop owned", "finalize"},
             Start(r, copy, position), UNCHANGED <<cr, st>>,
             pg' \in EngineStates, OnDatabases(pg')
      PROVE  TInv'
  <2>1. position \in Positions /\ position \notin WithSchema /\ position # "rename base"
    BY DEF Positions, WithSchema
  <2>2. w' \in Passes /\ w'.pc = position /\ mem' \in Statuses
    BY <1>0, <1>5, <2>1, StartType DEF Start
  <2> QED BY <1>0, <1>1, <1>2, <1>5, <2>1, <2>2, PassType
<1>6. CASE BeginDrop(r, copy)
  <2>1. CASE engine = "gone"
    BY <1>0, <1>5, <1>6, <2>1 DEF BeginDrop
  <2>2. CASE engine # "gone"
    BY <1>0, <1>5, <1>6, <2>2 DEF BeginDrop
  <2> QED BY <2>1, <2>2
<1>7. CASE BeginKeep(r, copy)
  <2>1. pg' \in EngineStates /\ OnDatabases(pg')
    BY <1>0, <1>7, ClosedType DEF BeginKeep
  <2> QED BY <1>5, <1>7, <2>1 DEF BeginKeep
<1>8. CASE BeginWork(r, copy)
  BY <1>0, <1>5, <1>8 DEF BeginWork
<1>9. CASE BeginFinalizer(r, copy)
  <2>1. CASE copy = Stored(r)
    <3> DEFINE c == [cr[r] EXCEPT !.finalizer = TRUE, !.schemas = ListedSchemas(cr[r])]
    <3>1. cr[r] \in Resource
      BY <1>0 DEF TypeOK
    <3>2. ListedSchemas(cr[r]) \subseteq Schemas
      BY <3>1, SchemasAssumption DEF Resource, ListedSchemas
    <3>3. c \in Resource
      BY <3>1, <3>2 DEF Resource
    <3>4. /\ cr' = [cr EXCEPT ![r].finalizer = TRUE, ![r].schemas = ListedSchemas(cr[r])]
          /\ UNCHANGED <<st, mem, w, pg>>
      BY <1>9, <2>1 DEF BeginFinalizer
    <3>5. cr' = [cr EXCEPT ![r] = c]
      BY <1>0, <3>4 DEF TypeOK
    <3> HIDE DEF c
    <3>6. cr' \in [Resources -> Resource]
      BY <1>0, <3>3, <3>5, ResourceEdited
    <3> QED BY <1>0, <1>1, <1>2, <3>4, <3>6 DEF TInv, TypeOK
  <2>2. CASE copy # Stored(r)
    BY <1>4, <1>9, <2>2 DEF BeginFinalizer
  <2> QED BY <2>1, <2>2
<1> QED BY <1>3, <1>4, <1>6, <1>7, <1>8, <1>9
        DEF BeginWith, BeginNotFound, BeginWaitLinked, BeginNoEngine, BeginWait

LEMMA FaultyStepType ==
    ASSUME TInv, Faulty
    PROVE  TInv'
<1>0. /\ TypeOK /\ Sound(late) /\ OnDatabases(pg) /\ pg \in EngineStates
      /\ st \in [Resources -> Statuses] /\ read \in [Resources -> [cr : Resource, st : Statuses]]
      /\ faults \in Budgets(FaultKinds) /\ mem \in Statuses /\ w \in Passes
      /\ w.pc \in WithSchema => w.item \in Schemas
      /\ w.pc = "rename base" => mem.db \in Names
  BY DEF TInv, TypeOK, OnDatabases, WithSchema
<1>n. "idle" \notin WithSchema /\ "rename base" # "idle"
  BY DEF WithSchema
<1>1. CASE Fail
  <2>1. faults' \in Budgets(FaultKinds)
    BY <1>0, <1>1, SpendType DEF Fail, HasFault
  <2>2. st' \in [Resources -> Statuses] /\ mem' \in Statuses /\ w' = NoPass
    BY <1>0, <1>1, StopType DEF Fail
  <2> QED BY <1>0, <1>1, <1>n, <2>1, <2>2, StartValues, PassType DEF Fail, clusterVars
<1>2. CASE Crash
  <2>1. faults' \in Budgets(FaultKinds)
    BY <1>0, <1>2, SpendType DEF Crash, HasFault
  <2> QED BY <1>0, <1>2, <1>n, <2>1, StartValues, PassType DEF Crash, EndPass, clusterVars
<1>3. CASE LateLands
  <2>1. pg' \in EngineStates /\ OnDatabases(pg')
    BY <1>0, <1>3, AfterType DEF LateLands, Run
  <2> QED BY <1>0, <1>3, <2>1, SoundStatements, PassType DEF LateLands, clusterVars, boundVars
<1>4. CASE LateLost
  BY <1>0, <1>4, SoundStatements, PassType DEF LateLost, clusterVars, boundVars
<1>5. ASSUME NEW n \in Names, Reopen(n)
      PROVE  TInv'
  <2>1. faults' \in Budgets(FaultKinds)
    BY <1>0, <1>5, SpendType DEF Reopen, HasFault
  <2>2. pg' \in EngineStates /\ OnDatabases(pg')
    BY <1>0, <1>5 DEF Reopen, Engine, EngineStates, OnDatabases, Exists
  <2> QED BY <1>0, <1>5, <2>1, <2>2, PassType DEF Reopen, Engine, clusterVars
<1>6. ASSUME NEW n \in Names, Connect(n)
      PROVE  TInv'
  <2>1. faults' \in Budgets(FaultKinds)
    BY <1>0, <1>6, SpendType DEF Connect, HasFault
  <2>2. pg' \in EngineStates /\ OnDatabases(pg')
    BY <1>0, <1>6 DEF Connect, Engine, EngineStates, OnDatabases, Exists
  <2> QED BY <1>0, <1>6, <2>1, <2>2, PassType DEF Connect, Engine, clusterVars
<1> QED BY <1>1, <1>2, <1>3, <1>4, <1>5, <1>6 DEF Faulty

LEMMA EnvironmentStepType ==
    ASSUME TInv, Environment
    PROVE  TInv'
<1>0. /\ TypeOK /\ OnDatabases(pg) /\ pg \in EngineStates
      /\ edits \in Budgets(EditKinds) /\ faults \in Budgets(FaultKinds)
  BY DEF TInv, TypeOK, OnDatabases
<1>1. ASSUME NEW g \in EngineStates, OnDatabases(g), pg' = g,
             UNCHANGED <<cr, st, links, engine, late, read, mem, w>>,
             edits' \in Budgets(EditKinds), faults' \in Budgets(FaultKinds)
      PROVE  TInv'
  BY <1>1 DEF TInv, TypeOK, OnDatabases
<1>2. ASSUME NEW kind, NEW r \in Resources, NEW c \in Resource, EditSpec(r, kind, c)
      PROVE  TInv'
  <2>1. edits' \in Budgets(EditKinds)
    BY <1>0, <1>2, SpendType DEF EditSpec, Edit
  <2>2. cr' \in [Resources -> Resource]
    BY <1>0, <1>2, ResourceEdited DEF EditSpec
  <2> QED BY <1>2, <2>1, <2>2 DEF EditSpec, Edit, TInv, TypeOK
<1>3. ASSUME NEW r \in Resources
      PROVE  cr[r] \in Resource /\ cr[r].finalizer \in BOOLEAN
  BY <1>0 DEF TypeOK, Resource
<1>4. ASSUME NEW r \in Resources, NEW n \in Names, SetName(r, n)
      PROVE  TInv'
  <2>1. [cr[r] EXCEPT !.name = n] \in Resource
    BY <1>3 DEF Resource
  <2> QED BY <1>2, <1>4, <2>1 DEF SetName
<1>5. ASSUME NEW r \in Resources, NEW m \in Masters \union {NoMaster}, SetMaster(r, m)
      PROVE  TInv'
  <2>1. [cr[r] EXCEPT !.master = m] \in Resource
    BY <1>3 DEF Resource
  <2> QED BY <1>2, <1>5, <2>1 DEF SetMaster
<1>6. ASSUME NEW r \in Resources, NEW S \in SUBSET Schemas, SetSchemas(r, S)
      PROVE  TInv'
  <2>1. [cr[r] EXCEPT !.schemas = S] \in Resource
    BY <1>3 DEF Resource
  <2> QED BY <1>2, <1>6, <2>1 DEF SetSchemas
<1>7. ASSUME NEW r \in Resources, NEW X \in SUBSET Extensions, SetExtensions(r, X)
      PROVE  TInv'
  <2>1. [cr[r] EXCEPT !.exts = X] \in Resource
    BY <1>3 DEF Resource
  <2> QED BY <1>2, <1>7, <2>1 DEF SetExtensions
<1>8. ASSUME NEW r \in Resources, DeleteResource(r)
      PROVE  TInv'
  <2>1. [cr[r] EXCEPT !.deleting = TRUE, !.exists = cr[r].finalizer] \in Resource
    BY <1>3 DEF Resource
  <2> QED BY <1>2, <1>8, <2>1 DEF DeleteResource
<1>9. ASSUME NEW r \in Resources, NEW kind \in Links, Link(r, kind) \/ Unlink(r, kind)
      PROVE  TInv'
  <2>1. edits' \in Budgets(EditKinds)
    BY <1>0, <1>9, SpendType DEF Link, Edit, Unlink, boundVars
  <2>0. links \in [Resources -> SUBSET Links] /\ links[r] \subseteq Links
    BY <1>0 DEF TypeOK
  <2>2. links' \in [Resources -> SUBSET Links]
    <3>1. links' = [links EXCEPT ![r] = links[r] \union {kind}]
          \/ links' = [links EXCEPT ![r] = links[r] \ {kind}]
      BY <1>9 DEF Link, Unlink
    <3> HIDE DEF Links
    <3> QED BY <2>0, <3>1
  <2> QED BY <1>9, <2>1, <2>2 DEF Link, Edit, Unlink, boundVars, TInv, TypeOK
<1>10. ASSUME NEW n \in Names, Expire(n) \/ Disconnect(n)
       PROVE  TInv'
  <2> DEFINE f == [pg EXCEPT !.sessions = @ \ {n}]
             g == [pg EXCEPT !.apps = @ \ {n}]
  <2>1. f \in EngineStates /\ OnDatabases(f) /\ g \in EngineStates /\ OnDatabases(g)
    BY <1>0 DEF EngineStates, OnDatabases, Exists
  <2>2. pg' = f \/ pg' = g
    BY <1>10 DEF Expire, Disconnect, Engine
  <2>3. UNCHANGED <<cr, st, links, engine, late, read, mem, w, edits, faults>>
    BY <1>10 DEF Expire, Disconnect, Engine, clusterVars
  <2> HIDE DEF f, g
  <2> QED BY <1>0, <1>1, <2>1, <2>2, <2>3
<1>11. ASSUME NEW n \in Names, NEW s \in Schemas, AddObjects(n, s)
       PROVE  TInv'
  <2> DEFINE b == pg.base[n]
             c == [b EXCEPT !.tables[s] = Outsider, !.types[s] = Outsider]
  <2>1. pg.base \in [Names -> Bases] /\ b \in Bases /\ Outsider \in Owners
    BY <1>0 DEF EngineStates, Owners
  <2>2. c \in Bases /\ c.own = b.own
    BY <2>1 DEF Bases
  <2>3. pg' = [pg EXCEPT !.base = [pg.base EXCEPT ![n] = c]]
    BY <1>0, <1>11, <2>1 DEF AddObjects, EngineStates, Bases
  <2> HIDE DEF c
  <2>4. /\ pg' \in EngineStates /\ pg'.sessions = pg.sessions /\ pg'.apps = pg.apps
        /\ \A m \in Names \ {n} : pg'.base[m] = pg.base[m]
        /\ pg'.base[n] = c
    BY <1>0, <2>1, <2>2, <2>3 DEF EngineStates
  <2>5. OnDatabases(pg')
    BY <1>0, <2>2, <2>4, OwnersKept DEF EngineStates
  <2>6. edits' \in Budgets(EditKinds)
    BY <1>0, <1>11, SpendType DEF AddObjects, Edit
  <2> QED BY <1>0, <1>1, <1>11, <2>4, <2>5, <2>6 DEF AddObjects, Edit, clusterVars
<1>12. CASE RemoveEngine
  <2>1. edits' \in Budgets(EditKinds)
    BY <1>0, <1>12, SpendType DEF RemoveEngine, Edit
  <2> QED BY <1>12, <2>1 DEF RemoveEngine, Edit, TInv, TypeOK
<1>13. CASE EngineReady
  BY <1>13 DEF EngineReady, TInv, TypeOK, boundVars
<1> QED BY <1>4, <1>5, <1>6, <1>7, <1>8, <1>9, <1>10, <1>11, <1>12, <1>13 DEF Environment

LEMMA TInit == Init => TInv
<1> SUFFICES ASSUME Init PROVE TInv
  OBVIOUS
<1>1. PICK plan \in Plans : /\ cr = plan.cr /\ st = plan.st /\ pg = plan.pg
                            /\ edits = plan.edits /\ faults = plan.faults
  BY DEF Init
<1>2. /\ cr \in [Resources -> Resource] /\ st \in [Resources -> Statuses]
      /\ pg \in EngineStates /\ \A n \in pg.sessions \union pg.apps : Exists(pg, n)
      /\ edits \in Budgets(EditKinds) /\ faults \in Budgets(FaultKinds)
  BY <1>1, PlansAssumption
<1>3. /\ links = [r \in Resources |-> {}] /\ engine = "pending" /\ late = Nothing
      /\ read = [r \in Resources |-> Stored(r)] /\ mem = NoStatus /\ w = NoPass
  BY DEF Init
<1>4. read \in [Resources -> [cr : Resource, st : Statuses]]
  BY <1>2, <1>3 DEF Stored
<1>5. links \in [Resources -> SUBSET Links]
  BY <1>3
<1> QED BY <1>2, <1>3, <1>4, <1>5, StartValues, SoundStatements DEF TInv, TypeOK

LEMMA TStep == TInv /\ [Next]_vars => TInv'
<1> SUFFICES ASSUME TInv, [Next]_vars PROVE TInv'
  OBVIOUS
<1>1. CASE Begin
  BY <1>1, BeginStepType DEF Begin
<1>2. CASE Next /\ ~Begin
  BY <1>2, RolesStepType, BaseStepType, ExtensionsStepType, SchemasStepType, DropStepType,
     FaultyStepType, EnvironmentStepType DEF Next, Pass
<1>3. CASE UNCHANGED vars
  BY <1>3 DEF vars, TInv, TypeOK
<1> QED BY <1>1, <1>2, <1>3

(* Every variable of Database keeps its type, no session is ever on a      *)
(* database that does not exist (so dropping, renaming and losing one are  *)
(* all covered), and a step on a schema has one at hand: for any           *)
(* resources, edits and faults.                                            *)
THEOREM TypeCorrect == Spec => []TypeOK
<1>1. TInv => TypeOK
  BY DEF TInv
<1> QED BY <1>1, TInit, TStep, PTL DEF Spec

-----------------------------------------------------------------------------
(* Provisioned.  What a pass has put in place, position by position: c is  *)
(* the copy it read, g the engine, m its status in memory, p its position. *)
RoleInPlace(c, g, m, kind) ==
    /\ RoleFor(c, kind) \in g.roles \intersect g.member
    /\ m[kind] = RoleFor(c, kind)

Served(c, b, s, kind) ==
    /\ <<s, RoleFor(c, kind)>> \in b.privs
    /\ <<RoleFor(c, "owner"), s, RoleFor(c, kind)>> \in b.defaults

SchemaInPlace(c, b, s) ==
    b.schemas[s] # NoRole /\ Served(c, b, s, "reader") /\ Served(c, b, s, "writer")

RoleSteps == {"rename role", "create role", "grant role"}
SchemaSteps == {"create schemas"} \union WithSchema
LateSteps == {"drop schemas", "success"} \union SchemaSteps
ModuleSteps == {"extensions", "drop extensions", "create extensions"} \union LateSteps

(* The kinds of roles that are done.                                       *)
RolesDone(p) ==
    {kind \in Kinds :
        \/ p.pc \in ModuleSteps
        \/ p.pc \in RoleSteps /\ p.kind = "reader" /\ kind = "owner"
        \/ p.pc \in RoleSteps /\ p.kind = "writer" /\ kind # "writer"
        \/ p.pc \in {"close old", "rename base", "own base"} /\ kind = "owner"}

Owned(p) == p.pc \in ModuleSteps \/ (p.pc \in RoleSteps /\ p.kind # "owner")

ModulesPlaced(c, b, p) ==
    /\ p.pc = "create extensions" => c.exts \subseteq b.exts \union p.todo
    /\ p.pc \in LateSteps => c.exts \subseteq b.exts
    /\ p.pc \in SchemaSteps => \A s \in ListedSchemas(c) \ p.todo : SchemaInPlace(c, b, s)
    /\ p.pc = "success" => \A s \in ListedSchemas(c) : SchemaInPlace(c, b, s)
    /\ p.pc \in WithSchema => b.schemas[p.item] # NoRole
    /\ p.pc \in {"writer privileges", "tables", "types"} => Served(c, b, p.item, "reader")
    /\ p.pc \in {"tables", "types"} => Served(c, b, p.item, "writer")

Placed(c, g, m, p) ==
    /\ \A kind \in RolesDone(p) : RoleInPlace(c, g, m, kind)
    /\ Owned(p) => g.base[c.name].own = RoleFor(c, "owner")
    /\ ModulesPlaced(c, g.base[c.name], p)

PInv == Placed(Asked, pg, mem, w)

(* The engine lost nothing of what a pass may have put in place for the    *)
(* database n.                                                             *)
Keeps(g, h, n) ==
    /\ g.roles \subseteq h.roles /\ g.member \subseteq h.member
    /\ h.base[n].own = g.base[n].own
    /\ g.base[n].exts \subseteq h.base[n].exts
    /\ \A s \in Schemas : g.base[n].schemas[s] # NoRole => h.base[n].schemas[s] # NoRole
    /\ g.base[n].privs \subseteq h.base[n].privs
    /\ g.base[n].defaults \subseteq h.base[n].defaults

LEMMA PlacedKept ==
    ASSUME NEW c \in Resource, NEW p \in Passes, p.pc \in WithSchema => p.item \in Schemas,
           NEW g, NEW h, NEW m, Placed(c, g, m, p), Keeps(g, h, c.name)
    PROVE  Placed(c, h, m, p)
<1> DEFINE a == g.base[c.name]
           b == h.base[c.name]
<1>1. /\ a.exts \subseteq b.exts /\ a.privs \subseteq b.privs /\ a.defaults \subseteq b.defaults
      /\ \A s \in Schemas : a.schemas[s] # NoRole => b.schemas[s] # NoRole
      /\ b.own = a.own /\ g.roles \subseteq h.roles /\ g.member \subseteq h.member
  BY DEF Keeps
<1>2. /\ \A kind \in RolesDone(p) : RoleInPlace(c, g, m, kind)
      /\ Owned(p) => a.own = RoleFor(c, "owner")
      /\ ModulesPlaced(c, a, p)
  BY DEF Placed
<1> HIDE DEF a, b
<1>3. ASSUME NEW s, NEW kind, Served(c, a, s, kind)
      PROVE  Served(c, b, s, kind)
  BY <1>1, <1>3 DEF Served
<1>4. ASSUME NEW s \in Schemas, SchemaInPlace(c, a, s)
      PROVE  SchemaInPlace(c, b, s)
  BY <1>1, <1>3, <1>4 DEF SchemaInPlace
<1>5. ListedSchemas(c) \subseteq Schemas
  BY SchemasAssumption DEF ListedSchemas, Resource
<1>6. ModulesPlaced(c, b, p)
  BY <1>1, <1>2, <1>3, <1>4, <1>5 DEF ModulesPlaced
<1>7. \A kind \in RolesDone(p) : RoleInPlace(c, h, m, kind)
  BY <1>1, <1>2 DEF RoleInPlace
<1> QED BY <1>1, <1>2, <1>6, <1>7 DEF Placed, a, b

(* What the statements leave, as far as a pass relies on it.               *)
LEMMA NothingDone ==
    ASSUME NEW g, NEW n
    PROVE  After(g, Nothing, NoBase) = g /\ Keeps(g, g, n)
BY DEF Nothing, After, Done, Inside, Keeps

LEMMA RoleAdded ==
    ASSUME NEW g \in EngineStates, NEW a, NEW n, NEW k,
           \/ k = After(g, CreateGroupRole(a), NoBase)
           \/ k = After(g, GrantRole(a), NoBase)
    PROVE  Keeps(g, k, n) /\ k.base = g.base
<1>1. k = [g EXCEPT !.roles = @ \union {a}] \/ k = [g EXCEPT !.member = @ \union {a}]
  BY DEF CreateGroupRole, GrantRole, Nothing, After, Done, Inside
<1> QED BY <1>1 DEF Keeps, EngineStates

LEMMA RoleGranted ==
    ASSUME NEW g \in EngineStates, NEW a, Works(g, GrantRole(a)),
           NEW k, k = After(g, GrantRole(a), NoBase)
    PROVE  a \in k.roles /\ a \in k.member
<1>1. k = [g EXCEPT !.member = @ \union {a}]
  BY DEF GrantRole, Nothing, After, Done, Inside
<1>2. a \in g.roles
  BY DEF Works, GrantRole, Nothing
<1> QED BY <1>1, <1>2 DEF EngineStates

LEMMA OthersRenamed ==
    ASSUME NEW g \in EngineStates, NEW a, NEW b, NEW n \in Names,
           NEW k, k = After(g, RenameRole(a, b), NoBase)
    PROVE  /\ g.roles \ {a} \subseteq k.roles /\ g.member \ {a} \subseteq k.member
           /\ g.base[n].own # a => k.base[n].own = g.base[n].own
<1>1. k = RoleRenamed(g, a, b)
  BY DEF RenameRole, Nothing, After, Done, Inside
<1>2. /\ k.roles = (g.roles \ {a}) \union {b}
      /\ k.member = {Renamed(a, b, x) : x \in g.member}
      /\ k.base[n] = BaseRenamed(g.base[n], a, b)
  BY <1>1 DEF RoleRenamed, EngineStates
<1>3. k.base[n].own = Renamed(a, b, g.base[n].own)
  BY <1>2 DEF BaseRenamed
<1>4. \A x \in g.member \ {a} : Renamed(a, b, x) = x
  BY DEF Renamed
<1> QED BY <1>2, <1>3, <1>4 DEF Renamed

LEMMA DatabaseOwned ==
    ASSUME NEW g \in EngineStates, NEW a, NEW n \in Names,
           NEW k, k = After(g, ChangeDBOwner(n, a), NoBase)
    PROVE  k.roles = g.roles /\ k.member = g.member /\ k.base[n].own = a
<1>1. k = [g EXCEPT !.base[n].own = a]
  BY DEF ChangeDBOwner, Nothing, After, Done, Inside
<1> QED BY <1>1 DEF EngineStates, Bases

LEMMA DatabaseRenamed ==
    ASSUME NEW g \in EngineStates, NEW n \in Names, NEW m \in Names,
           NEW k, k = After(g, RenameDatabase(n, m), NoBase)
    PROVE  k.roles = g.roles /\ k.member = g.member
<1>1. k = BaseMoved(g, n, m, NoBase)
  BY DEF RenameDatabase, Nothing, After, Done, Inside
<1> QED BY <1>1 DEF BaseMoved, EngineStates

(* A statement run inside a database changes that database and the         *)
(* sessions.                                                               *)
Changed(g, n, c) == [g EXCEPT !.base = [g.base EXCEPT ![n] = c]]

LEMMA InsideAfter ==
    ASSUME NEW g \in EngineStates, NEW q, q.op \in Inside, NEW n \in Names, NEW d,
           Done(g, q, NoBase) = Changed(g, n, d)
    PROVE  /\ After(g, q, NoBase).roles = g.roles
           /\ After(g, q, NoBase).member = g.member
           /\ After(g, q, NoBase).base[n] = d
<1> DEFINE h == Changed(g, n, d)
           k == After(g, q, NoBase)
<1>1. h.roles = g.roles /\ h.member = g.member /\ h.base = [g.base EXCEPT ![n] = d]
  BY DEF EngineStates, Changed
<1>2. h = [roles |-> h.roles, member |-> h.member, base |-> h.base, sessions |-> g.sessions,
           apps |-> g.apps]
  BY DEF EngineStates, Changed
<1>3. k = [h EXCEPT !.sessions = @ \union {q.base}]
  BY DEF After
<1> HIDE DEF h, k
<1>4. k.roles = h.roles /\ k.member = h.member /\ k.base = h.base
  BY <1>2, <1>3
<1>5. k.roles = g.roles /\ k.member = g.member /\ k.base[n] = d
  BY <1>1, <1>4 DEF EngineStates
<1> QED BY <1>5 DEF k

LEMMA Listed ==
    ASSUME NEW g \in EngineStates, NEW n \in Names, NEW k, k = After(g, ListIn(n), NoBase)
    PROVE  Keeps(g, k, n)
<1>1. k = [g EXCEPT !.sessions = @ \union {n}]
  BY DEF ListIn, Nothing, After, Done, Inside
<1> QED BY <1>1 DEF Keeps, EngineStates

LEMMA ExtensionCreated ==
    ASSUME NEW g \in EngineStates, NEW n \in Names, NEW x,
           NEW k, k = After(g, CreateExtension(n, x), NoBase)
    PROVE  Keeps(g, k, n) /\ x \in k.base[n].exts
<1> DEFINE s == CreateExtension(n, x)
           b == g.base[n]
           c == [b EXCEPT !.exts = @ \union {x}]
<1>0. k = After(g, s, NoBase)
  OBVIOUS
<1>1. s.op = "create extension" /\ s.base = n /\ s.item = x /\ s.op \in Inside
  BY DEF CreateExtension, Nothing, Inside
<1>2. b \in Bases
  BY DEF EngineStates
<1>3. Done(g, s, NoBase) = Changed(g, n, c)
  <2> HIDE DEF s
  <2> QED BY <1>1, <1>2 DEF Done, EngineStates, Bases, Changed
<1>4. /\ c.own = b.own /\ c.exts = b.exts \union {x} /\ c.schemas = b.schemas
      /\ c.privs = b.privs /\ c.defaults = b.defaults
  BY <1>2 DEF Bases
<1> HIDE DEF c, s
<1>5. k.roles = g.roles /\ k.member = g.member /\ k.base[n] = c
  <2>1. Done(g, s, NoBase) = Changed(g, n, c) /\ s.op \in Inside
    BY <1>1, <1>3
  <2>2. /\ After(g, s, NoBase).roles = g.roles
        /\ After(g, s, NoBase).member = g.member
        /\ After(g, s, NoBase).base[n] = c
    BY <2>1, InsideAfter
  <2> QED BY <1>0, <2>2
<1> QED BY <1>4, <1>5 DEF Keeps

LEMMA SchemaCreated ==
    ASSUME NEW g \in EngineStates, NEW n \in Names, NEW a, NEW x \in Schemas,
           Works(g, CreateSchema(n, a, x)), NEW k, k = After(g, CreateSchema(n, a, x), NoBase)
    PROVE  Keeps(g, k, n) /\ k.base[n].schemas[x] # NoRole
<1> DEFINE s == CreateSchema(n, a, x)
           b == g.base[n]
           c == [b EXCEPT !.schemas[x] = IF @ = NoRole THEN a ELSE @]
<1>0. k = After(g, s, NoBase)
  OBVIOUS
<1>1. s.op = "create schema" /\ s.base = n /\ s.item = x /\ s.role = a /\ s.op \in Inside
  BY DEF CreateSchema, Nothing, Inside
<1>2. b \in Bases
  BY DEF EngineStates
<1>3. Done(g, s, NoBase) = Changed(g, n, c)
  <2> HIDE DEF s
  <2> QED BY <1>1, <1>2 DEF Done, EngineStates, Bases, Changed
<1>4. a \in g.roles /\ g.roles \subseteq Roles
  BY <1>1 DEF Works, EngineStates
<1>5. a # NoRole
  BY <1>4, RoleValues
<1>6. /\ c.own = b.own /\ c.exts = b.exts /\ c.privs = b.privs /\ c.defaults = b.defaults
      /\ c.schemas[x] # NoRole
      /\ \A y \in Schemas : y # x => c.schemas[y] = b.schemas[y]
  BY <1>2, <1>5 DEF Bases
<1> HIDE DEF c, s
<1>7. k.roles = g.roles /\ k.member = g.member /\ k.base[n] = c
  <2>1. Done(g, s, NoBase) = Changed(g, n, c) /\ s.op \in Inside
    BY <1>1, <1>3
  <2>2. /\ After(g, s, NoBase).roles = g.roles
        /\ After(g, s, NoBase).member = g.member
        /\ After(g, s, NoBase).base[n] = c
    BY <2>1, InsideAfter
  <2> QED BY <1>0, <2>2
<1> QED BY <1>6, <1>7 DEF Keeps

LEMMA PrivilegesGiven ==
    ASSUME NEW g \in EngineStates, NEW n \in Names, NEW a, NEW x, NEW o,
           NEW k, k = After(g, SetSchemaPrivileges(n, o, a, x), NoBase)
    PROVE  Keeps(g, k, n) /\ <<x, a>> \in k.base[n].privs /\ <<o, x, a>> \in k.base[n].defaults
<1> DEFINE s == SetSchemaPrivileges(n, o, a, x)
           b == g.base[n]
           c == [b EXCEPT !.privs = @ \union {<<x, a>>},
                          !.defaults = @ \union {<<o, x, a>>}]
<1>0. k = After(g, s, NoBase)
  OBVIOUS
<1>1. /\ s.op = "privileges" /\ s.base = n /\ s.item = x /\ s.role = o /\ s.to = a
      /\ s.op \in Inside
  BY DEF SetSchemaPrivileges, Nothing, Inside
<1>2. b \in Bases /\ g.base \in [Names -> Bases]
  BY DEF EngineStates
<1>3. Done(g, s, NoBase) = PrivilegesSet(g, n, o, a, x)
  <2> HIDE DEF s
  <2> QED BY <1>1 DEF Done
<1>4. PrivilegesSet(g, n, o, a, x) = Changed(g, n, c)
  BY <1>2 DEF PrivilegesSet, EngineStates, Bases, Changed
<1>5. /\ c.own = b.own /\ c.exts = b.exts /\ c.schemas = b.schemas
      /\ c.privs = b.privs \union {<<x, a>>} /\ c.defaults = b.defaults \union {<<o, x, a>>}
  BY <1>2 DEF Bases
<1> HIDE DEF c, s
<1>6. k.roles = g.roles /\ k.member = g.member /\ k.base[n] = c
  <2>1. Done(g, s, NoBase) = Changed(g, n, c) /\ s.op \in Inside
    BY <1>1, <1>3, <1>4
  <2>2. /\ After(g, s, NoBase).roles = g.roles
        /\ After(g, s, NoBase).member = g.member
        /\ After(g, s, NoBase).base[n] = c
    BY <2>1, InsideAfter
  <2> QED BY <1>0, <2>2
<1> QED BY <1>5, <1>6 DEF Keeps

LEMMA TableGiven ==
    ASSUME NEW g \in EngineStates, NEW n \in Names, NEW a,
           NEW k, k = After(g, ChangeTableOwner(n, a), NoBase)
    PROVE  Keeps(g, k, n)
<1> DEFINE s == ChangeTableOwner(n, a)
           b == g.base[n]
           c == IF b.tables[Public] = NoRole THEN b ELSE [b EXCEPT !.tables[Public] = a]
<1>0. k = After(g, s, NoBase)
  OBVIOUS
<1>1. s.op = "own table" /\ s.base = n /\ s.role = a /\ s.op \in Inside
  BY DEF ChangeTableOwner, Nothing, Inside
<1>2. b \in Bases /\ g.base \in [Names -> Bases]
  BY DEF EngineStates
<1>3. Done(g, s, NoBase) = TableOwned(g, n, a)
  <2> HIDE DEF s
  <2> QED BY <1>1 DEF Done
<1>4. TableOwned(g, n, a) = Changed(g, n, c)
  <2>1. CASE b.tables[Public] = NoRole
    <3>1. [g.base EXCEPT ![n] = c] = g.base
      BY <1>2, <2>1
    <3>2. [g EXCEPT !.base = g.base] = g
      BY DEF EngineStates
    <3> QED BY <2>1, <3>1, <3>2 DEF TableOwned, Changed
  <2>2. CASE b.tables[Public] # NoRole
    BY <1>2, <2>2 DEF TableOwned, EngineStates, Bases, Changed
  <2> QED BY <2>1, <2>2
<1>5. /\ c.own = b.own /\ c.exts = b.exts /\ c.schemas = b.schemas
      /\ c.privs = b.privs /\ c.defaults = b.defaults
  BY <1>2 DEF Bases
<1> HIDE DEF c, s
<1>6. k.roles = g.roles /\ k.member = g.member /\ k.base[n] = c
  <2>1. Done(g, s, NoBase) = Changed(g, n, c) /\ s.op \in Inside
    BY <1>1, <1>3, <1>4
  <2>2. /\ After(g, s, NoBase).roles = g.roles
        /\ After(g, s, NoBase).member = g.member
        /\ After(g, s, NoBase).base[n] = c
    BY <2>1, InsideAfter
  <2> QED BY <1>0, <2>2
<1> QED BY <1>5, <1>6 DEF Keeps

LEMMA TypeGiven ==
    ASSUME NEW g \in EngineStates, NEW n \in Names, NEW a, NEW x,
           NEW k, k = After(g, ChangeTypeOwnerInSchema(n, x, a), NoBase)
    PROVE  Keeps(g, k, n)
<1> DEFINE s == ChangeTypeOwnerInSchema(n, x, a)
           b == g.base[n]
           c == [b EXCEPT !.types[x] = a]
<1>0. k = After(g, s, NoBase)
  OBVIOUS
<1>1. s.op = "own type" /\ s.base = n /\ s.item = x /\ s.role = a /\ s.op \in Inside
  BY DEF ChangeTypeOwnerInSchema, Nothing, Inside
<1>2. b \in Bases /\ g.base \in [Names -> Bases]
  BY DEF EngineStates
<1>3. Done(g, s, NoBase) = Changed(g, n, c)
  <2> HIDE DEF s
  <2> QED BY <1>1, <1>2 DEF Done, EngineStates, Bases, Changed
<1>4. /\ c.own = b.own /\ c.exts = b.exts /\ c.schemas = b.schemas
      /\ c.privs = b.privs /\ c.defaults = b.defaults
  BY <1>2 DEF Bases
<1> HIDE DEF c, s
<1>5. k.roles = g.roles /\ k.member = g.member /\ k.base[n] = c
  <2>1. Done(g, s, NoBase) = Changed(g, n, c) /\ s.op \in Inside
    BY <1>1, <1>3
  <2>2. /\ After(g, s, NoBase).roles = g.roles
        /\ After(g, s, NoBase).member = g.member
        /\ After(g, s, NoBase).base[n] = c
    BY <2>1, InsideAfter
  <2> QED BY <1>0, <2>2
<1> QED BY <1>4, <1>5 DEF Keeps

(* Dropping a module takes neither roles nor the owner of the database,    *)
(* and dropping a schema takes no extension.                               *)
LEMMA ExtensionDropped ==
    ASSUME NEW g \in EngineStates, NEW n \in Names, NEW x,
           NEW k, k = After(g, DropExtension(n, x), NoBase)
    PROVE  k.roles = g.roles /\ k.member = g.member /\ k.base[n].own = g.base[n].own
<1> DEFINE s == DropExtension(n, x)
           b == g.base[n]
           c == [b EXCEPT !.exts = @ \ {x}]
<1>0. k = After(g, s, NoBase)
  OBVIOUS
<1>1. s.op = "drop extension" /\ s.base = n /\ s.item = x /\ s.op \in Inside
  BY DEF DropExtension, Nothing, Inside
<1>2. b \in Bases
  BY DEF EngineStates
<1>3. Done(g, s, NoBase) = Changed(g, n, c)
  <2> HIDE DEF s
  <2> QED BY <1>1, <1>2 DEF Done, EngineStates, Bases, Changed
<1>4. c.own = b.own
  BY <1>2 DEF Bases
<1> HIDE DEF c, s
<1>5. k.roles = g.roles /\ k.member = g.member /\ k.base[n] = c
  <2>1. Done(g, s, NoBase) = Changed(g, n, c) /\ s.op \in Inside
    BY <1>1, <1>3
  <2>2. /\ After(g, s, NoBase).roles = g.roles
        /\ After(g, s, NoBase).member = g.member
        /\ After(g, s, NoBase).base[n] = c
    BY <2>1, InsideAfter
  <2> QED BY <1>0, <2>2
<1> QED BY <1>4, <1>5

LEMMA SchemaTaken ==
    ASSUME NEW g \in EngineStates, NEW n \in Names, NEW x, NEW cascade \in BOOLEAN,
           NEW k, k = After(g, DropSchema(n, x, cascade), NoBase)
    PROVE  /\ k.roles = g.roles /\ k.member = g.member /\ k.base[n].own = g.base[n].own
           /\ k.base[n].exts = g.base[n].exts
<1> DEFINE s == DropSchema(n, x, cascade)
           b == g.base[n]
           c == WithoutSchema(b, x)
<1>0. k = After(g, s, NoBase)
  OBVIOUS
<1>1. s.op \in {"drop schema", "drop schema cascade"} /\ s.base = n /\ s.item = x
  <2>1. CASE cascade
    BY <2>1 DEF DropSchema, Nothing
  <2>2. CASE ~cascade
    BY <2>2 DEF DropSchema, Nothing
  <2> QED BY <2>1, <2>2
<1>2. b \in Bases
  BY DEF EngineStates
<1> HIDE DEF s
<1>3. Done(g, s, NoBase) = SchemaDropped(g, n, x)
  BY <1>1 DEF Done
<1>4. SchemaDropped(g, n, x) = Changed(g, n, c)
  BY <1>2 DEF SchemaDropped, EngineStates, Changed
<1>5. c.own = b.own /\ c.exts = b.exts
  BY <1>2 DEF Bases, WithoutSchema
<1> HIDE DEF c
<1>6. k.roles = g.roles /\ k.member = g.member /\ k.base[n] = c
  <2>1. Done(g, s, NoBase) = Changed(g, n, c) /\ s.op \in Inside
    BY <1>1, <1>3, <1>4 DEF Inside
  <2>2. /\ After(g, s, NoBase).roles = g.roles
        /\ After(g, s, NoBase).member = g.member
        /\ After(g, s, NoBase).base[n] = c
    BY <2>1, InsideAfter
  <2> QED BY <1>0, <2>2
<1> QED BY <1>5, <1>6

(* Positions and the two halves of Placed.                                 *)
Resting == {"idle", "drop owned", "drop role", "close", "drop base", "finalize"}

LEMMA RestingPlaced ==
    ASSUME NEW c, NEW g, NEW m, NEW p,
           p.pc \in Resting \/ (p.pc = "rename role" /\ p.kind = "owner")
    PROVE  Placed(c, g, m, p)
BY DEF Placed, RolesDone, Owned, ModulesPlaced, Resting, RoleSteps, ModuleSteps, LateSteps,
       SchemaSteps, WithSchema

LEMMA EarlyPlaced ==
    ASSUME NEW c, NEW g, NEW m, NEW p,
           p.pc \in RoleSteps \union {"close old", "rename base", "own base", "extensions",
                                      "drop extensions"},
           \A kind \in RolesDone(p) : RoleInPlace(c, g, m, kind),
           Owned(p) => g.base[c.name].own = RoleFor(c, "owner")
    PROVE  Placed(c, g, m, p)
BY DEF Placed, ModulesPlaced, RoleSteps, LateSteps, SchemaSteps, WithSchema

LEMMA ModulePlaced ==
    ASSUME NEW c, NEW g, NEW m, NEW n, NEW p, NEW q, Placed(c, g, m, p),
           p.pc \in ModuleSteps, q.pc \in ModuleSteps,
           \A kind \in Kinds : n[kind] = m[kind],
           ModulesPlaced(c, g.base[c.name], q)
    PROVE  Placed(c, g, n, q)
<1>1. RolesDone(p) = Kinds /\ RolesDone(q) = Kinds /\ Owned(p)
  BY DEF RolesDone, Owned
<1> QED BY <1>1 DEF Placed, RoleInPlace

(* A statement works or the pass is over.                                  *)
LEMMA ExecuteEnds ==
    ASSUME NEW s, NEW status, NEW next, Execute(s, status, next)
    PROVE  /\ read' = read
           /\ \/ Works(pg, s) /\ pg' = After(pg, s, NoBase) /\ mem' = status /\ w' = next
              \/ pg' = pg /\ w' = NoPass
<1>1. Stop \/ EndPass => w' = NoPass
  BY DEF Stop, ManageError, EndPass
<1> QED BY <1>1 DEF Execute, Interrupted, Run

LEMMA ExecutePlaced ==
    ASSUME PInv, NEW s, NEW status, NEW next, Execute(s, status, next),
           next.pc \in Resting \/ next.r = w.r,
           Works(pg, s) => Placed(Asked, After(pg, s, NoBase), status, next)
    PROVE  PInv'
<1>1. /\ read' = read
      /\ \/ Works(pg, s) /\ pg' = After(pg, s, NoBase) /\ mem' = status /\ w' = next
         \/ pg' = pg /\ w' = NoPass
  BY ExecuteEnds
<1>2. CASE w' = NoPass
  <2>1. w'.pc \in Resting
    BY <1>2 DEF NoPass, Resting
  <2>2. Placed(Asked', pg', mem', w')
    BY <2>1, RestingPlaced
  <2> QED BY <1>1, <2>2 DEF PInv
<1>3. CASE next.pc \in Resting /\ w' = next
  <2>1. Placed(Asked', pg', mem', w')
    BY <1>3, RestingPlaced
  <2> QED BY <1>1, <2>1 DEF PInv
<1>4. CASE w' # NoPass /\ next.r = w.r
  <2>1. Works(pg, s) /\ pg' = After(pg, s, NoBase) /\ mem' = status /\ w' = next /\ Asked' = Asked
    BY <1>1, <1>4 DEF Asked
  <2>2. Placed(Asked', pg', mem', w')
    BY <2>1
  <2> QED BY <1>1, <2>2 DEF PInv
<1> QED BY <1>1, <1>2, <1>3, <1>4

LEMMA QuietlyPlaced ==
    ASSUME PInv, NEW status, NEW next, Quietly(status, next),
           next.pc \in Resting \/ next.r = w.r, Placed(Asked, pg, status, next)
    PROVE  PInv'
<1>1. pg' = pg /\ read' = read /\ mem' = status /\ w' = next
  BY DEF Quietly
<1>2. Placed(Asked', pg', mem', w')
  <2>1. CASE next.pc \in Resting
    BY <1>1, <2>1, RestingPlaced
  <2>2. CASE next.r = w.r
    <3>1. Asked' = Asked
      BY <1>1, <2>2 DEF Asked
    <3> QED BY <1>1, <3>1
  <2> QED BY <2>1, <2>2
<1> QED BY <1>1, <1>2 DEF PInv

(* A step that ends the pass, or changes nothing a pass relies on.         *)
LEMMA EndPlaced ==
    ASSUME w'.pc \in Resting
    PROVE  PInv'
<1>1. Placed(Asked', pg', mem', w')
  BY RestingPlaced
<1> QED BY <1>1 DEF PInv

LEMMA SamePlaced ==
    ASSUME TInv, PInv, UNCHANGED <<read, mem, w>>, Keeps(pg, pg', Asked.name)
    PROVE  PInv'
<1>1. Asked \in Resource /\ w \in Passes /\ (w.pc \in WithSchema => w.item \in Schemas)
  BY PassValues DEF TInv, TypeOK, WithSchema
<1>2. Placed(Asked, pg', mem, w)
  BY <1>1, PlacedKept DEF PInv
<1>3. Asked' = Asked
  BY DEF Asked
<1>4. Placed(Asked', pg', mem', w')
  BY <1>2, <1>3
<1> QED BY <1>4 DEF PInv

LEMMA RolesPlaced ==
    ASSUME TInv, PInv, ManageRoles
    PROVE  PInv'
<1>0. TypeOK /\ pg \in EngineStates /\ Placed(Asked, pg, mem, w)
  BY DEF TInv, TypeOK, PInv
<1>v. /\ w.kind \in Kinds /\ mem \in Statuses /\ w \in Passes /\ Asked \in Resource
      /\ Asked.name \in Names /\ Wanted \in RolesNamed(w.kind)
  BY <1>0, PassValues
<1>g. \A p \in Positions : Goto(p) \in Passes /\ Goto(p).pc = p /\ Goto(p).r = w.r /\ Goto(p).kind = w.kind
  BY <1>v, GotoType
<1>p. RoleSteps \union {"close old", "extensions"} \subseteq Positions
  BY DEF RoleSteps, Positions
<1>a. w.pc \in RoleSteps
  BY DEF ManageRoles, RenameOldRole, CreateRole, GrantToOperator, At, RoleSteps
<1>d. /\ \A kind \in RolesDone(w) : RoleInPlace(Asked, pg, mem, kind) /\ kind \in Kinds /\ kind # w.kind
      /\ Owned(w) => pg.base[Asked.name].own = RoleFor(Asked, "owner") /\ w.kind # "owner"
  BY <1>0, <1>a DEF Placed, RolesDone, Owned, RoleSteps, ModuleSteps, LateSteps, SchemaSteps, WithSchema
<1>s. ASSUME NEW p \in Passes, p.pc \in RoleSteps, p.kind = w.kind
      PROVE  RolesDone(p) = RolesDone(w) /\ (Owned(p) <=> Owned(w))
  BY <1>a, <1>s DEF RolesDone, Owned, RoleSteps, ModuleSteps, LateSteps, SchemaSteps, WithSchema
<1>1. CASE RenameOldRole
  <2> DEFINE old == mem[w.kind]
             s == IF IsRoleExist(pg, old) /\ old # Wanted THEN RenameRole(old, Wanted) ELSE Nothing
             next == Goto("create role")
             k == After(pg, s, NoBase)
  <2>1. Execute(s, mem, next)
    BY <1>1 DEF RenameOldRole
  <2>2. next \in Passes /\ next.pc \in RoleSteps /\ next.kind = w.kind /\ next.r = w.r
    BY <1>g, <1>p DEF RoleSteps
  <2>3. /\ \A kind \in RolesDone(w) : RoleInPlace(Asked, k, mem, kind)
        /\ Owned(w) => k.base[Asked.name].own = RoleFor(Asked, "owner")
    <3>1. CASE s = Nothing
      BY <1>d, <3>1, NothingDone
    <3>2. CASE s # Nothing
      <4>1. s = RenameRole(old, Wanted) /\ old \in RolesNamed(w.kind)
        <5>1. s = RenameRole(old, Wanted) /\ old \in Roles
          BY <1>0, <3>2 DEF IsRoleExist, EngineStates
        <5>2. old \in RolesNamed(w.kind) \union {NoRole}
          BY <1>v, NamedRole
        <5> QED BY <5>1, <5>2, RoleValues
      <4>2. /\ pg.roles \ {old} \subseteq k.roles /\ pg.member \ {old} \subseteq k.member
            /\ pg.base[Asked.name].own # old => k.base[Asked.name].own = pg.base[Asked.name].own
        <5>1. k = After(pg, RenameRole(old, Wanted), NoBase)
          BY <4>1
        <5> HIDE DEF old, k
        <5> QED BY <1>0, <1>v, <5>1, OthersRenamed
      <4>3. ASSUME NEW kind \in Kinds, kind # w.kind
            PROVE  RoleFor(Asked, kind) # old
        BY <1>v, <4>1, <4>3, RoleForType, RoleValues
      <4>4. "owner" \in Kinds
        BY DEF Kinds
      <4> HIDE DEF old, s, k
      <4>5. ASSUME NEW kind \in RolesDone(w)
            PROVE  RoleInPlace(Asked, k, mem, kind)
        BY <1>d, <4>2, <4>3, <4>5 DEF RoleInPlace
      <4>6. Owned(w) => k.base[Asked.name].own = RoleFor(Asked, "owner")
        BY <1>d, <4>2, <4>3, <4>4
      <4> QED BY <4>5, <4>6
    <3> QED BY <3>1, <3>2
  <2> HIDE DEF s, next, k
  <2>4. Placed(Asked, k, mem, next)
    BY <1>s, <2>2, <2>3, EarlyPlaced
  <2> QED BY <2>1, <2>2, <2>4, ExecutePlaced DEF k
<1>2. CASE CreateRole
  <2> DEFINE s == IF IsRoleExist(pg, Wanted) THEN Nothing ELSE CreateGroupRole(Wanted)
             next == Goto("grant role")
             k == After(pg, s, NoBase)
  <2>1. Execute(s, mem, next)
    BY <1>2 DEF CreateRole
  <2>2. next \in Passes /\ next.pc \in RoleSteps /\ next.kind = w.kind /\ next.r = w.r
    BY <1>g, <1>p DEF RoleSteps
  <2>3. Keeps(pg, k, Asked.name)
    <3>1. CASE s = Nothing
      BY <3>1, NothingDone
    <3>2. CASE s # Nothing
      <4>1. k = After(pg, CreateGroupRole(Wanted), NoBase)
        BY <3>2
      <4> QED BY <1>0, <4>1, RoleAdded
    <3> QED BY <3>1, <3>2
  <2> HIDE DEF s, next, k
  <2>4. /\ \A kind \in RolesDone(w) : RoleInPlace(Asked, k, mem, kind)
        /\ Owned(w) => k.base[Asked.name].own = RoleFor(Asked, "owner")
    BY <1>d, <2>3 DEF Keeps, RoleInPlace
  <2>5. Placed(Asked, k, mem, next)
    BY <1>s, <2>2, <2>4, EarlyPlaced
  <2> QED BY <2>1, <2>2, <2>5, ExecutePlaced DEF k
<1>3. CASE GrantToOperator
  <2> DEFINE status == [mem EXCEPT ![w.kind] = Wanted]
             k == After(pg, GrantRole(Wanted), NoBase)
  <2>1. Execute(GrantRole(Wanted), status, AfterGrant)
    BY <1>3 DEF GrantToOperator
  <2>2. Keeps(pg, k, Asked.name)
    BY <1>0, RoleAdded
  <2>3. status[w.kind] = Wanted /\ \A kind \in Kinds \ {w.kind} : status[kind] = mem[kind]
    BY <1>v, NamedRole
  <2>4. Works(pg, GrantRole(Wanted)) => Wanted \in k.roles /\ Wanted \in k.member
    BY <1>0, RoleGranted
  <2>5. /\ AfterGrant.r = w.r
        /\ AfterGrant.pc \in RoleSteps \union {"close old", "extensions"}
        /\ RolesDone(AfterGrant) \subseteq RolesDone(w) \union {w.kind}
        /\ Owned(AfterGrant) => Owned(w)
    <3>1. /\ Goto("close old").pc = "close old" /\ Goto("close old").r = w.r
          /\ Goto("extensions").pc = "extensions" /\ Goto("extensions").r = w.r
          /\ Goto("rename role") \in Passes /\ Goto("rename role").r = w.r
          /\ Goto("rename role").pc = "rename role"
      BY <1>g, <1>p DEF RoleSteps
    <3> DEFINE writing == [Goto("rename role") EXCEPT !.kind = "writer"]
    <3>2. writing.r = w.r /\ writing.kind = "writer" /\ writing.pc = "rename role"
      BY <3>1 DEF Passes
    <3> HIDE DEF writing
    <3>3. w.kind = "owner" \/ w.kind = "reader" \/ w.kind = "writer"
      BY <1>v DEF Kinds
    <3> USE <1>a DEF RolesDone, Owned, RoleSteps, ModuleSteps, LateSteps, SchemaSteps, WithSchema, Kinds
    <3>4. CASE w.kind = "owner"
      <4>1. AfterGrant = Goto("close old")
        BY <3>4 DEF AfterGrant
      <4> QED BY <3>1, <3>4, <4>1
    <3>5. CASE w.kind = "reader"
      <4>1. AfterGrant = writing
        BY <3>5 DEF AfterGrant, writing
      <4> QED BY <3>2, <3>5, <4>1
    <3>6. CASE w.kind = "writer"
      <4>1. AfterGrant = Goto("extensions")
        BY <3>6 DEF AfterGrant
      <4> QED BY <3>1, <3>6, <4>1
    <3> QED BY <3>3, <3>4, <3>5, <3>6
  <2> HIDE DEF status, k
  <2>6. ASSUME Works(pg, GrantRole(Wanted))
        PROVE  Placed(Asked, k, status, AfterGrant)
    <3>1. ASSUME NEW kind \in RolesDone(AfterGrant)
          PROVE  RoleInPlace(Asked, k, status, kind)
      <4>1. CASE kind = w.kind
        BY <2>3, <2>4, <2>6, <4>1 DEF RoleInPlace, Wanted
      <4>2. CASE kind # w.kind
        <5>1. kind \in RolesDone(w)
          BY <2>5, <3>1, <4>2
        <5>2. RoleInPlace(Asked, pg, mem, kind) /\ kind \in Kinds
          BY <1>d, <5>1
        <5> QED BY <2>2, <2>3, <4>2, <5>2 DEF RoleInPlace, Keeps
      <4> QED BY <4>1, <4>2
    <3>2. Owned(AfterGrant) => k.base[Asked.name].own = RoleFor(Asked, "owner")
      BY <1>d, <2>2, <2>5 DEF Keeps
    <3> QED BY <2>5, <3>1, <3>2, EarlyPlaced
  <2> QED BY <2>1, <2>5, <2>6, ExecutePlaced DEF k
<1> QED BY <1>1, <1>2, <1>3 DEF ManageRoles

LEMMA BasePlaced ==
    ASSUME TInv, PInv, ManageBase
    PROVE  PInv'
<1>0. TypeOK /\ pg \in EngineStates /\ Placed(Asked, pg, mem, w)
  BY DEF TInv, TypeOK, PInv
<1>v. /\ mem \in Statuses /\ w \in Passes /\ Asked \in Resource
      /\ Asked.name \in Names
  BY <1>0, PassValues
<1>g. \A p \in Positions : Goto(p) \in Passes /\ Goto(p).pc = p /\ Goto(p).r = w.r /\ Goto(p).kind = w.kind
  BY <1>v, GotoType
<1>p. RoleSteps \union {"rename base", "own base"} \subseteq Positions
  BY DEF RoleSteps, Positions
<1>a. w.pc \in {"close old", "rename base", "own base"}
  BY DEF ManageBase, CloseOldPools, RenameBase, OwnBase, At
<1>d. RoleInPlace(Asked, pg, mem, "owner")
  BY <1>0, <1>a DEF Placed, RolesDone, Kinds
<1>s. ASSUME NEW g, NEW p, p.pc = "rename base" \/ p.pc = "own base",
             g.roles = pg.roles, g.member = pg.member
      PROVE  Placed(Asked, g, mem, p)
  <2>1. RolesDone(p) = {"owner"} /\ ~Owned(p)
    BY <1>s DEF RolesDone, Owned, RoleSteps, ModuleSteps, LateSteps, SchemaSteps, WithSchema, Kinds
  <2>2. RoleInPlace(Asked, g, mem, "owner")
    BY <1>d, <1>s DEF RoleInPlace
  <2> QED BY <1>s, <2>1, <2>2, EarlyPlaced
<1>r. Reject => PInv'
  <2> SUFFICES ASSUME Reject PROVE PInv'
    OBVIOUS
  <2>1. w' = NoPass
    BY DEF Reject, Stop, ManageError, EndPass
  <2> QED BY <2>1, EndPlaced DEF NoPass, Resting
<1>1. CASE CloseOldPools
  <2>1. CASE Quietly(mem, Goto("own base"))
    <3>1. Goto("own base").pc = "own base" /\ Goto("own base").r = w.r
      BY <1>g, <1>p
    <3>2. Placed(Asked, pg, mem, Goto("own base"))
      BY <1>s, <3>1
    <3> QED BY <2>1, <3>1, <3>2, QuietlyPlaced
  <2>2. CASE /\ pg' = Closed(mem.db) /\ w' = Goto("rename base")
             /\ UNCHANGED <<clusterVars, st, late, read, mem, boundVars>>
    <3>1. w'.pc = "rename base" /\ w'.r = w.r
      BY <1>g, <1>p, <2>2
    <3>2. pg'.roles = pg.roles /\ pg'.member = pg.member
      BY <1>0, <2>2 DEF Closed, EngineStates
    <3>3. Placed(Asked, pg', mem, w')
      BY <1>s, <3>1, <3>2
    <3>4. Asked' = Asked
      BY <2>2, <3>1 DEF Asked
    <3>5. Placed(Asked', pg', mem', w')
      BY <2>2, <3>3, <3>4
    <3> QED BY <3>5 DEF PInv
  <2>3. CASE Reject
    BY <1>r, <2>3
  <2> QED BY <1>1, <2>1, <2>2, <2>3 DEF CloseOldPools
<1>2. CASE RenameBase
  <2> DEFINE k == After(pg, RenameDatabase(mem.db, Asked.name), NoBase)
  <2>1. mem.db \in Names
    BY <1>2 DEF TInv, RenameBase, At
  <2>2. k.roles = pg.roles /\ k.member = pg.member
    BY <1>0, <1>v, <2>1, DatabaseRenamed
  <2>3. Goto("own base").pc = "own base" /\ Goto("own base").r = w.r
    BY <1>g, <1>p
  <2>4. Placed(Asked, k, mem, Goto("own base"))
    BY <1>s, <2>2, <2>3
  <2> QED BY <1>2, <2>3, <2>4, ExecutePlaced DEF RenameBase
<1>3. CASE OwnBase
  <2>1. CASE Reject
    BY <1>r, <2>1
  <2>2. CASE ~Reject
    <3> DEFINE s == IF pg.base[Asked.name].own = mem.owner THEN Nothing
                    ELSE ChangeDBOwner(Asked.name, mem.owner)
               next == [Goto("rename role") EXCEPT !.kind = "reader"]
               status == [mem EXCEPT !.db = Asked.name]
               k == After(pg, s, NoBase)
    <3>1. Goto("rename role") \in Passes /\ Goto("rename role").pc = "rename role"
          /\ Goto("rename role").r = w.r
      BY <1>g, <1>p DEF RoleSteps
    <3>2. next.pc = "rename role" /\ next.kind = "reader" /\ next.r = w.r
      BY <3>1 DEF Passes
    <3>3. status.owner = mem.owner
      BY <1>v DEF Statuses
    <3>4. Execute(s, status, next)
      BY <1>3, <2>2 DEF OwnBase
    <3>5. k.roles = pg.roles /\ k.member = pg.member /\ k.base[Asked.name].own = mem.owner
      <4>1. CASE pg.base[Asked.name].own = mem.owner
        BY <4>1, NothingDone
      <4>2. CASE pg.base[Asked.name].own # mem.owner
        <5>1. k = After(pg, ChangeDBOwner(Asked.name, mem.owner), NoBase)
          BY <4>2
        <5> HIDE DEF k
        <5> QED BY <1>0, <1>v, <5>1, DatabaseOwned
      <4> QED BY <4>1, <4>2
    <3> HIDE DEF s, next, status, k
    <3>6. RolesDone(next) = {"owner"}
      BY <3>2 DEF RolesDone, RoleSteps, ModuleSteps, LateSteps, SchemaSteps, WithSchema, Kinds
    <3>7. RoleInPlace(Asked, k, status, "owner") /\ mem.owner = RoleFor(Asked, "owner")
      BY <1>d, <3>3, <3>5 DEF RoleInPlace
    <3>8. Placed(Asked, k, status, next)
      BY <3>2, <3>5, <3>6, <3>7, EarlyPlaced DEF RoleSteps
    <3> QED BY <3>2, <3>4, <3>8, ExecutePlaced DEF k
  <2> QED BY <2>1, <2>2
<1> QED BY <1>1, <1>2, <1>3 DEF ManageBase

LEMMA ExtensionsPlaced ==
    ASSUME TInv, PInv, ManageExtensions
    PROVE  PInv'
<1> DEFINE n == Asked.name
           b == pg.base[n]
<1>0. TypeOK /\ pg \in EngineStates /\ Placed(Asked, pg, mem, w)
  BY DEF TInv, TypeOK, PInv
<1>v. /\ mem \in Statuses /\ w \in Passes /\ Asked \in Resource /\ n \in Names
      /\ Asked.exts \subseteq Extensions
  BY <1>0, PassValues
<1>g. /\ Goto("drop extensions") \in Passes /\ Goto("drop extensions").pc = "drop extensions"
      /\ Goto("create extensions") \in Passes /\ Goto("create extensions").pc = "create extensions"
      /\ Goto("drop schemas") \in Passes /\ Goto("drop schemas").pc = "drop schemas"
      /\ Goto("drop extensions").r = w.r /\ Goto("create extensions").r = w.r
      /\ Goto("drop schemas").r = w.r
  BY <1>v, GotoType DEF Positions
<1>a. w.pc \in {"extensions", "drop extensions", "create extensions"}
  BY DEF ManageExtensions, GoExtensions, DropOneExtension, CreateOneExtension, ListExtensions,
     GoSchemas, At
<1>d. /\ \A kind \in Kinds : RoleInPlace(Asked, pg, mem, kind)
      /\ b.own = RoleFor(Asked, "owner")
      /\ w.pc = "create extensions" => Asked.exts \subseteq b.exts \union w.todo
  <2>1. RolesDone(w) = Kinds /\ Owned(w)
    BY <1>a DEF RolesDone, Owned, ModuleSteps
  <2> QED BY <1>0, <2>1 DEF Placed, ModulesPlaced
<1>s. ASSUME NEW g, NEW m, NEW p,
             p.pc = "drop extensions" \/ p.pc = "create extensions" \/ p.pc = "drop schemas",
             \A kind \in Kinds : m[kind] = mem[kind],
             pg.roles \subseteq g.roles, pg.member \subseteq g.member, g.base[n].own = b.own,
             p.pc = "create extensions" => Asked.exts \subseteq g.base[n].exts \union p.todo,
             p.pc = "drop schemas" => Asked.exts \subseteq g.base[n].exts
      PROVE  Placed(Asked, g, m, p)
  <2>1. ModulesPlaced(Asked, g.base[n], p)
    BY <1>s DEF ModulesPlaced, LateSteps, SchemaSteps, WithSchema
  <2>2. \A kind \in Kinds : RoleInPlace(Asked, g, m, kind)
    BY <1>d, <1>s DEF RoleInPlace
  <2> QED BY <1>d, <1>s, <2>1, <2>2 DEF Placed, RolesDone
<1>e. ASSUME NEW X
      PROVE  \A kind \in Kinds : [mem EXCEPT !.exts = X][kind] = mem[kind]
  BY <1>v DEF Kinds, Statuses
<1>1. CASE GoExtensions
  <2>1. ToExtensions.pc = "drop extensions" /\ ToExtensions.r = w.r
    BY <1>g DEF ToExtensions, Passes
  <2>2. Placed(Asked, pg, mem, ToExtensions)
    BY <1>s, <2>1
  <2> QED BY <1>1, <2>1, <2>2, QuietlyPlaced DEF GoExtensions
<1>2. ASSUME NEW x \in Extensions, DropOneExtension(x)
      PROVE  PInv'
  <2> DEFINE next == [w EXCEPT !.todo = @ \ {x}]
             k == After(pg, DropExtension(n, x), NoBase)
  <2>1. next.pc = "drop extensions" /\ next.r = w.r
    BY <1>2, <1>v DEF DropOneExtension, At, Passes
  <2>2. Execute(DropExtension(n, x), mem, next)
    BY <1>2 DEF DropOneExtension
  <2>3. k.roles = pg.roles /\ k.member = pg.member /\ k.base[n].own = b.own
    BY <1>0, <1>v, ExtensionDropped
  <2> HIDE DEF next, k
  <2>4. Placed(Asked, k, mem, next)
    BY <1>s, <2>1, <2>3
  <2> QED BY <2>1, <2>2, <2>4, ExecutePlaced DEF k
<1>3. ASSUME NEW x \in Extensions, CreateOneExtension(x)
      PROVE  PInv'
  <2> DEFINE next == [w EXCEPT !.todo = @ \ {x}]
             status == [mem EXCEPT !.exts = @ \union {x}]
             s == IF x \in Base.exts THEN Nothing ELSE CreateExtension(n, x)
             k == After(pg, s, NoBase)
  <2>1. next.pc = "create extensions" /\ next.r = w.r /\ next.todo = w.todo \ {x}
        /\ w.pc = "create extensions"
    BY <1>3, <1>v DEF CreateOneExtension, At, Passes
  <2>2. Execute(s, status, next)
    BY <1>3 DEF CreateOneExtension
  <2>3. Keeps(pg, k, n) /\ x \in k.base[n].exts
    <3>1. CASE x \in b.exts
      BY <3>1, NothingDone DEF Base
    <3>2. CASE x \notin b.exts
      <4>1. k = After(pg, CreateExtension(n, x), NoBase)
        BY <3>2 DEF Base
      <4> HIDE DEF k, n
      <4> QED BY <1>0, <1>v, <4>1, ExtensionCreated
    <3> QED BY <3>1, <3>2
  <2>4. \A kind \in Kinds : status[kind] = mem[kind]
    BY <1>e
  <2> HIDE DEF next, status, s, k
  <2>5. Asked.exts \subseteq k.base[n].exts \union next.todo
    BY <1>d, <2>1, <2>3 DEF Keeps
  <2>6. Placed(Asked, k, status, next)
    BY <1>s, <2>1, <2>3, <2>4, <2>5 DEF Keeps
  <2> QED BY <2>1, <2>2, <2>6, ExecutePlaced DEF k
<1>4. CASE ListExtensions
  <2> DEFINE next == [Goto("create extensions") EXCEPT !.todo = Asked.exts]
             status == [mem EXCEPT !.exts = Kept(@, Asked.exts)]
             k == After(pg, ListIn(n), NoBase)
  <2>1. next.pc = "create extensions" /\ next.r = w.r /\ next.todo = Asked.exts
    BY <1>g DEF Passes
  <2>2. Execute(ListIn(n), status, next)
    BY <1>4 DEF ListExtensions
  <2>3. Keeps(pg, k, n)
    BY <1>0, <1>v, Listed
  <2>4. \A kind \in Kinds : status[kind] = mem[kind]
    BY <1>e
  <2> HIDE DEF next, status, k
  <2>5. Placed(Asked, k, status, next)
    BY <1>s, <2>1, <2>3, <2>4 DEF Keeps
  <2> QED BY <2>1, <2>2, <2>5, ExecutePlaced DEF k
<1>5. CASE GoSchemas
  <2>1. ToSchemas.pc = "drop schemas" /\ ToSchemas.r = w.r
    BY <1>g DEF ToSchemas, Passes
  <2>2. Asked.exts \subseteq b.exts
    BY <1>5, <1>d DEF GoSchemas, At
  <2>3. Placed(Asked, pg, mem, ToSchemas)
    BY <1>s, <2>1, <2>2
  <2> QED BY <1>5, <2>1, <2>3, QuietlyPlaced DEF GoSchemas
<1> QED BY <1>1, <1>2, <1>3, <1>4, <1>5 DEF ManageExtensions

LEMMA SchemasPlaced ==
    ASSUME TInv, PInv, ManageSchemas
    PROVE  PInv'
<1> DEFINE n == Asked.name
           b == pg.base[n]
           owner == RoleFor(Asked, "owner")
<1>0. TypeOK /\ pg \in EngineStates /\ Placed(Asked, pg, mem, w)
  BY DEF TInv, TypeOK, PInv
<1>v. /\ mem \in Statuses /\ w \in Passes /\ Asked \in Resource /\ n \in Names
      /\ Asked.cascade \in BOOLEAN /\ ListedSchemas(Asked) \subseteq Schemas
  BY <1>0, PassValues
<1>g. \A p \in Positions : Goto(p) \in Passes /\ Goto(p).pc = p /\ Goto(p).r = w.r
                           /\ Goto(p).todo = w.todo /\ Goto(p).item = w.item
  BY <1>v, GotoType
<1>p. {"drop schemas", "create schemas", "reader privileges", "writer privileges", "tables",
       "types", "success"} \subseteq Positions
  BY DEF Positions
<1>a. w.pc \in LateSteps
  BY DEF ManageSchemas, DropOneSchema, CreateOneSchema, ListSchema, ReaderPrivileges,
     WriterPrivileges, OwnTables, OwnTypes, GoSuccess, ManageSuccess, At, LateSteps, SchemaSteps,
     WithSchema
<1>m. LateSteps \subseteq ModuleSteps /\ SchemaSteps \subseteq LateSteps /\ WithSchema \subseteq SchemaSteps
  BY DEF ModuleSteps, LateSteps, SchemaSteps
<1>d. /\ \A kind \in Kinds : RoleInPlace(Asked, pg, mem, kind)
      /\ b.own = owner
      /\ ModulesPlaced(Asked, b, w)
      /\ mem.owner = owner /\ mem.reader = RoleFor(Asked, "reader")
      /\ mem.writer = RoleFor(Asked, "writer")
  <2>1. RolesDone(w) = Kinds /\ Owned(w)
    BY <1>a, <1>m DEF RolesDone, Owned
  <2> QED BY <1>0, <2>1 DEF Placed, RoleInPlace, Kinds
<1>e. ASSUME NEW X
      PROVE  \A kind \in Kinds : [mem EXCEPT !.schemas = X][kind] = mem[kind]
  BY <1>v DEF Kinds, Statuses
<1>i. w.pc \in WithSchema => w.item \in Schemas
  BY <1>0 DEF TypeOK, WithSchema
(* An engine that kept everything, or lost modules only.                   *)
<1>k. ASSUME NEW k, Keeps(pg, k, n)
      PROVE  ModulesPlaced(Asked, k.base[n], w) /\ k.base[n].own = owner
             /\ pg.roles \subseteq k.roles /\ pg.member \subseteq k.member
  <2>1. Placed(Asked, k, mem, w)
    BY <1>0, <1>v, <1>i, <1>k, PlacedKept
  <2> QED BY <1>d, <1>k, <2>1 DEF Placed, Keeps
<1>s. ASSUME NEW g, NEW m, NEW p, p.pc \in LateSteps,
             \A kind \in Kinds : m[kind] = mem[kind],
             pg.roles \subseteq g.roles, pg.member \subseteq g.member, g.base[n].own = owner,
             ModulesPlaced(Asked, g.base[n], p)
      PROVE  Placed(Asked, g, m, p)
  <2>1. \A kind \in Kinds : RoleInPlace(Asked, g, m, kind)
    BY <1>d, <1>s DEF RoleInPlace
  <2> QED BY <1>s, <2>1 DEF Placed, RolesDone
<1> HIDE DEF n
<1>1. ASSUME NEW x \in Schemas, DropOneSchema(x)
      PROVE  PInv'
  <2> DEFINE next == [w EXCEPT !.todo = @ \ {x}]
             s == DropSchema(n, x, Asked.cascade)
             k == After(pg, s, NoBase)
  <2>1. next.pc = "drop schemas" /\ next.r = w.r /\ w.pc = "drop schemas"
    BY <1>1, <1>v DEF DropOneSchema, At, Passes
  <2>2. Execute(s, mem, next)
    BY <1>1 DEF DropOneSchema, n
  <2>3. k.roles = pg.roles /\ k.member = pg.member /\ k.base[n].own = b.own
        /\ k.base[n].exts = b.exts
    BY <1>0, <1>v, SchemaTaken
  <2> HIDE DEF next, s, k
  <2>4. ModulesPlaced(Asked, k.base[n], next)
    BY <1>d, <2>1, <2>3 DEF ModulesPlaced, LateSteps, SchemaSteps, WithSchema
  <2>5. Placed(Asked, k, mem, next)
    BY <1>d, <1>s, <2>1, <2>3, <2>4 DEF LateSteps
  <2> QED BY <2>1, <2>2, <2>5, ExecutePlaced DEF k
<1>2. ASSUME NEW x \in Schemas, CreateOneSchema(x)
      PROVE  PInv'
  <2> DEFINE next == [Goto("reader privileges") EXCEPT !.item = x]
             s == IF Base.schemas[x] # NoRole THEN Nothing ELSE CreateSchema(n, mem.owner, x)
             k == After(pg, s, NoBase)
  <2>0. Goto("reader privileges") \in Passes /\ Goto("reader privileges").pc = "reader privileges"
        /\ Goto("reader privileges").r = w.r /\ Goto("reader privileges").todo = w.todo
    BY <1>g, <1>p
  <2>1. next.pc = "reader privileges" /\ next.r = w.r /\ next.todo = w.todo /\ next.item = x
    BY <2>0 DEF Passes
  <2>2. Execute(s, mem, next) /\ w.pc = "create schemas"
    BY <1>2 DEF CreateOneSchema, n, At
  <2> HIDE DEF next
  <2>3. ASSUME Works(pg, s)
        PROVE  Keeps(pg, k, n) /\ k.base[n].schemas[x] # NoRole
    <3>1. CASE b.schemas[x] # NoRole
      BY <3>1, NothingDone DEF Base, n
    <3>2. CASE b.schemas[x] = NoRole
      <4>1. s = CreateSchema(n, mem.owner, x)
        BY <3>2 DEF Base, n
      <4> HIDE DEF s
      <4>2. Works(pg, CreateSchema(n, mem.owner, x)) /\ k = After(pg, CreateSchema(n, mem.owner, x), NoBase)
        BY <2>3, <4>1
      <4> HIDE DEF k
      <4> QED BY <1>0, <1>v, <4>2, SchemaCreated
    <3> QED BY <3>1, <3>2
  <2> HIDE DEF s, k
  <2>4. ASSUME Works(pg, s)
        PROVE  Placed(Asked, k, mem, next)
    <3>1. ModulesPlaced(Asked, k.base[n], next)
      BY <1>k, <2>1, <2>2, <2>3, <2>4 DEF ModulesPlaced, LateSteps, SchemaSteps, WithSchema
    <3> QED BY <1>k, <1>s, <2>1, <2>3, <2>4, <3>1 DEF LateSteps, SchemaSteps, WithSchema
  <2> QED BY <2>1, <2>2, <2>4, ExecutePlaced DEF k
<1>3. CASE ListSchema
  <2> DEFINE next == [Goto("create schemas") EXCEPT !.todo = ListedSchemas(Asked)]
             status == [mem EXCEPT !.schemas = Kept(@, ListedSchemas(Asked))]
             k == After(pg, ListIn(n), NoBase)
  <2>0. Goto("create schemas") \in Passes /\ Goto("create schemas").pc = "create schemas"
        /\ Goto("create schemas").r = w.r
    BY <1>g, <1>p
  <2>1. next.pc = "create schemas" /\ next.r = w.r /\ next.todo = ListedSchemas(Asked)
    BY <2>0 DEF Passes
  <2>2. Execute(ListIn(n), status, next) /\ w.pc = "drop schemas"
    BY <1>3 DEF ListSchema, n, At
  <2>3. Keeps(pg, k, n)
    BY <1>0, <1>v, Listed
  <2>4. \A kind \in Kinds : status[kind] = mem[kind]
    BY <1>e
  <2> HIDE DEF next, status, k
  <2>5. ModulesPlaced(Asked, k.base[n], next)
    BY <1>k, <2>1, <2>2, <2>3 DEF ModulesPlaced, LateSteps, SchemaSteps, WithSchema
  <2>6. Placed(Asked, k, status, next)
    BY <1>k, <1>s, <2>1, <2>3, <2>4, <2>5 DEF LateSteps, SchemaSteps
  <2> QED BY <2>1, <2>2, <2>6, ExecutePlaced DEF k
<1>4. CASE ReaderPrivileges
  <2> DEFINE next == Goto("writer privileges")
             s == SetSchemaPrivileges(n, mem.owner, mem.reader, w.item)
             k == After(pg, s, NoBase)
  <2>1. next.pc = "writer privileges" /\ next.r = w.r /\ next.todo = w.todo /\ next.item = w.item
    BY <1>g, <1>p
  <2>2. Execute(s, mem, next) /\ w.pc = "reader privileges"
    BY <1>4 DEF ReaderPrivileges, n, At
  <2>3. Keeps(pg, k, n) /\ <<w.item, mem.reader>> \in k.base[n].privs
        /\ <<mem.owner, w.item, mem.reader>> \in k.base[n].defaults
    BY <1>0, <1>v, PrivilegesGiven
  <2> HIDE DEF next, s, k
  <2>4. Served(Asked, k.base[n], w.item, "reader")
    BY <1>d, <2>3 DEF Served
  <2>5. ModulesPlaced(Asked, k.base[n], next)
    BY <1>k, <2>1, <2>2, <2>3, <2>4 DEF ModulesPlaced, LateSteps, SchemaSteps, WithSchema
  <2>6. Placed(Asked, k, mem, next)
    BY <1>k, <1>s, <2>1, <2>3, <2>5 DEF LateSteps, SchemaSteps, WithSchema
  <2> QED BY <2>1, <2>2, <2>6, ExecutePlaced DEF k
<1>5. CASE WriterPrivileges
  <2> DEFINE next == Goto("tables")
             s == SetSchemaPrivileges(n, mem.owner, mem.writer, w.item)
             k == After(pg, s, NoBase)
  <2>1. next.pc = "tables" /\ next.r = w.r /\ next.todo = w.todo /\ next.item = w.item
    BY <1>g, <1>p
  <2>2. Execute(s, mem, next) /\ w.pc = "writer privileges"
    BY <1>5 DEF WriterPrivileges, n, At
  <2>3. Keeps(pg, k, n) /\ <<w.item, mem.writer>> \in k.base[n].privs
        /\ <<mem.owner, w.item, mem.writer>> \in k.base[n].defaults
    BY <1>0, <1>v, PrivilegesGiven
  <2> HIDE DEF next, s, k
  <2>4. Served(Asked, k.base[n], w.item, "writer")
    BY <1>d, <2>3 DEF Served
  <2>5. ModulesPlaced(Asked, k.base[n], next)
    BY <1>k, <2>1, <2>2, <2>3, <2>4 DEF ModulesPlaced, LateSteps, SchemaSteps, WithSchema
  <2>6. Placed(Asked, k, mem, next)
    BY <1>k, <1>s, <2>1, <2>3, <2>5 DEF LateSteps, SchemaSteps, WithSchema
  <2> QED BY <2>1, <2>2, <2>6, ExecutePlaced DEF k
<1>6. CASE OwnTables
  <2> DEFINE next == Goto("types")
             s == IF Base.tables[w.item] \in {NoRole, mem.owner} THEN ListIn(n)
                  ELSE ChangeTableOwner(n, mem.owner)
             k == After(pg, s, NoBase)
  <2>1. next.pc = "types" /\ next.r = w.r /\ next.todo = w.todo /\ next.item = w.item
    BY <1>g, <1>p
  <2>2. Execute(s, mem, next) /\ w.pc = "tables"
    BY <1>6 DEF OwnTables, n, At
  <2>3. k = After(pg, ListIn(n), NoBase) \/ k = After(pg, ChangeTableOwner(n, mem.owner), NoBase)
    OBVIOUS
  <2> HIDE DEF next, s, k
  <2>4. Keeps(pg, k, n)
    BY <1>0, <1>v, <2>3, Listed, TableGiven
  <2>5. ModulesPlaced(Asked, k.base[n], next)
    BY <1>k, <2>1, <2>2, <2>4 DEF ModulesPlaced, LateSteps, SchemaSteps, WithSchema
  <2>6. Placed(Asked, k, mem, next)
    BY <1>k, <1>s, <2>1, <2>4, <2>5 DEF LateSteps, SchemaSteps, WithSchema
  <2> QED BY <2>1, <2>2, <2>6, ExecutePlaced DEF k
<1>7. CASE OwnTypes
  <2> DEFINE next == [Goto("create schemas") EXCEPT !.todo = @ \ {w.item}, !.item = NoName]
             s == IF Base.types[w.item] \in {NoRole, mem.owner} THEN ListIn(n)
                  ELSE ChangeTypeOwnerInSchema(n, w.item, mem.owner)
             status == [mem EXCEPT !.schemas = @ \union {w.item}]
             k == After(pg, s, NoBase)
  <2>0. Goto("create schemas") \in Passes /\ Goto("create schemas").pc = "create schemas"
        /\ Goto("create schemas").r = w.r /\ Goto("create schemas").todo = w.todo
    BY <1>g, <1>p
  <2>1. next.pc = "create schemas" /\ next.r = w.r /\ next.todo = w.todo \ {w.item}
    BY <2>0 DEF Passes
  <2>2. Execute(s, status, next) /\ w.pc = "types"
    BY <1>7 DEF OwnTypes, n, At
  <2>3. k = After(pg, ListIn(n), NoBase)
        \/ k = After(pg, ChangeTypeOwnerInSchema(n, w.item, mem.owner), NoBase)
    OBVIOUS
  <2>4. \A kind \in Kinds : status[kind] = mem[kind]
    BY <1>e
  <2> HIDE DEF next, status, s, k
  <2>5. Keeps(pg, k, n)
    BY <1>0, <1>v, <2>3, Listed, TypeGiven
  <2>6. ModulesPlaced(Asked, k.base[n], w)
    BY <1>k, <2>5
  <2>7. /\ \A x \in ListedSchemas(Asked) \ w.todo : SchemaInPlace(Asked, k.base[n], x)
        /\ SchemaInPlace(Asked, k.base[n], w.item)
        /\ Asked.exts \subseteq k.base[n].exts
    BY <2>2, <2>6 DEF ModulesPlaced, LateSteps, SchemaSteps, WithSchema, SchemaInPlace
  <2>8. ModulesPlaced(Asked, k.base[n], next)
    <3>1. \A x \in ListedSchemas(Asked) \ next.todo : SchemaInPlace(Asked, k.base[n], x)
      BY <2>1, <2>7
    <3> QED BY <2>1, <2>7, <3>1 DEF ModulesPlaced, LateSteps, SchemaSteps, WithSchema
  <2>9. Placed(Asked, k, status, next)
    BY <1>k, <1>s, <2>1, <2>4, <2>5, <2>8 DEF LateSteps, SchemaSteps
  <2> QED BY <2>1, <2>2, <2>9, ExecutePlaced DEF k
<1>8. CASE GoSuccess
  <2>1. /\ Quietly(mem, Goto("success")) /\ w.pc = "create schemas" /\ w.todo = {}
    BY <1>8 DEF GoSuccess, At
  <2>2. Goto("success").pc = "success" /\ Goto("success").r = w.r
    BY <1>g, <1>p
  <2>3. ModulesPlaced(Asked, b, Goto("success"))
    BY <1>d, <2>1, <2>2 DEF ModulesPlaced, LateSteps, SchemaSteps, WithSchema
  <2>4. Placed(Asked, pg, mem, Goto("success"))
    BY <1>d, <1>s, <2>2, <2>3 DEF LateSteps
  <2> QED BY <2>1, <2>2, <2>4, QuietlyPlaced
<1>9. CASE ManageSuccess
  <2>1. w' = NoPass
    BY <1>9 DEF ManageSuccess, EndPass
  <2> QED BY <2>1, EndPlaced DEF NoPass, Resting
<1> QED BY <1>1, <1>2, <1>3, <1>4, <1>5, <1>6, <1>7, <1>8, <1>9 DEF ManageSchemas

LEMMA DropPlaced ==
    ASSUME TInv, PInv, ManageDrop
    PROVE  PInv'
<1>0. w \in Passes /\ w.kind \in Kinds
  BY PassValues DEF TInv
<1>1. /\ Goto("drop role").pc = "drop role" /\ Goto("close").pc = "close"
      /\ Goto("drop base").pc = "drop base" /\ Goto("finalize").pc = "finalize"
  BY <1>0, GotoType DEF Positions
<1>2. AfterDrop.pc \in Resting
  <2>1. Goto("drop owned") \in Passes /\ Goto("drop owned").pc = "drop owned"
    BY <1>0, GotoType DEF Positions
  <2>2. [Goto("drop owned") EXCEPT !.kind = "writer"].pc = "drop owned"
        /\ [Goto("drop owned") EXCEPT !.kind = "reader"].pc = "drop owned"
    BY <2>1 DEF Passes
  <2>3. w.kind = "owner" \/ w.kind = "reader" \/ w.kind = "writer"
    BY <1>0 DEF Kinds
  <2> QED BY <1>1, <2>2, <2>3 DEF AfterDrop, Resting
<1>3. ASSUME NEW s, NEW status, NEW next, Execute(s, status, next), next.pc \in Resting
      PROVE  PInv'
  <2>1. Placed(Asked, After(pg, s, NoBase), status, next)
    BY <1>3, RestingPlaced
  <2> QED BY <1>3, <2>1, ExecutePlaced
<1>4. w'.pc \in Resting => PInv'
  BY EndPlaced
<1>5. NoPass.pc \in Resting
  BY DEF NoPass, Resting
<1>6. Reject => PInv'
  BY <1>4, <1>5 DEF Reject, Stop, ManageError, EndPass
<1>7. CASE SkipRole
  BY <1>2, <1>4, <1>7 DEF SkipRole, Quietly
<1>8. CASE DropOwned
  BY <1>1, <1>3, <1>8 DEF DropOwned, Resting
<1>9. CASE DropGroupRole
  BY <1>2, <1>3, <1>9 DEF DropGroupRole
<1>10. CASE ClosePools
  BY <1>1, <1>4, <1>10 DEF ClosePools, Resting
<1>11. CASE DropBase
  BY <1>1, <1>3, <1>6, <1>11 DEF DropBase, Resting
<1>12. CASE Finalize
  BY <1>4, <1>5, <1>12 DEF Finalize, Stop, ManageError, EndPass
<1> QED BY <1>7, <1>8, <1>9, <1>10, <1>11, <1>12 DEF ManageDrop

LEMMA BeginPlaced ==
    ASSUME TInv, PInv, NEW r, NEW copy, BeginWith(r, copy)
    PROVE  PInv'
<1>1. w.pc = "idle"
  BY DEF BeginWith, Read, At, BeginNotFound, BeginWaitLinked, BeginDrop, BeginKeep, BeginNoEngine,
     BeginWait, BeginFinalizer, BeginWork
<1>2. NoPass.pc \in Resting /\ "idle" \in Resting
  BY DEF NoPass, Resting
<1>3. CASE UNCHANGED w
  BY <1>1, <1>2, <1>3, EndPlaced
<1>4. CASE ManageError(r, copy.st, copy.st)
  BY <1>1, <1>2, <1>4, EndPlaced DEF ManageError, EndPass
<1>5. ASSUME NEW position, Start(r, copy, position), position \in Resting \/ position = "rename role"
      PROVE  PInv'
  <2>1. w'.pc = position /\ w'.kind = "owner"
    BY <1>5 DEF Start, NoPass
  <2>2. Placed(Asked', pg', mem', w')
    BY <1>5, <2>1, RestingPlaced
  <2> QED BY <1>1, <2>2 DEF PInv
<1>6. CASE BeginDrop(r, copy) \/ BeginKeep(r, copy) \/ BeginWork(r, copy)
  BY <1>5, <1>6 DEF BeginDrop, BeginKeep, BeginWork, Resting
<1> QED BY <1>3, <1>4, <1>6
        DEF BeginWith, BeginNotFound, BeginWaitLinked, BeginNoEngine, BeginWait, BeginFinalizer

LEMMA SessionsKept ==
    ASSUME NEW g \in EngineStates, NEW n, NEW h, NEW S,
           h = [g EXCEPT !.sessions = S] \/ h = [g EXCEPT !.apps = S]
    PROVE  Keeps(g, h, n)
BY DEF Keeps, EngineStates

(* A late statement leaves what the running pass has put in place.         *)
LateSpares == LateLands => Placed(Asked, pg', mem, w)

LEMMA FaultyPlaced ==
    ASSUME TInv, PInv, LateSpares, Faulty
    PROVE  PInv'
<1>0. pg \in EngineStates
  BY DEF TInv, TypeOK
<1>1. CASE Fail \/ Crash
  <2>1. w' = NoPass
    BY <1>1 DEF Fail, Crash, Stop, ManageError, EndPass
  <2> QED BY <2>1, EndPlaced DEF NoPass, Resting
<1>2. ASSUME NEW n \in Names, Reopen(n) \/ Connect(n)
      PROVE  PInv'
  <2>1. UNCHANGED <<read, mem, w>>
    BY <1>2 DEF Reopen, Connect, Engine
  <2>2. Keeps(pg, pg', Asked.name)
    BY <1>0, <1>2, SessionsKept DEF Reopen, Connect, Engine
  <2> QED BY <2>1, <2>2, SamePlaced
<1>3. CASE LateLands
  <2>1. Placed(Asked, pg', mem, w)
    BY <1>3 DEF LateSpares
  <2>2. mem' = mem /\ w' = w /\ Asked' = Asked
    BY <1>3 DEF LateLands, Asked
  <2> QED BY <2>1, <2>2 DEF PInv
<1>4. CASE LateLost
  <2>1. UNCHANGED <<read, mem, w, pg>>
    BY <1>4 DEF LateLost
  <2>2. Keeps(pg, pg', Asked.name)
    BY <2>1 DEF Keeps
  <2> QED BY <2>1, <2>2, SamePlaced
<1> QED BY <1>1, <1>2, <1>3, <1>4 DEF Faulty

LEMMA EnvironmentPlaced ==
    ASSUME TInv, PInv, Environment
    PROVE  PInv'
<1>0. pg \in EngineStates
  BY DEF TInv, TypeOK
<1>1. UNCHANGED <<read, mem, w>>
  BY DEF Environment, SetName, SetMaster, SetSchemas, SetExtensions, DeleteResource, EditSpec, Edit,
     Link, Unlink, Expire, Disconnect, Engine, AddObjects, RemoveEngine, EngineReady, boundVars
<1>2. Keeps(pg, pg', Asked.name)
  <2>1. CASE UNCHANGED pg
    BY <2>1 DEF Keeps
  <2>2. ASSUME NEW n \in Names, Expire(n) \/ Disconnect(n)
        PROVE  Keeps(pg, pg', Asked.name)
    BY <1>0, <2>2, SessionsKept DEF Expire, Disconnect, Engine
  <2>3. ASSUME NEW n \in Names, NEW s \in Schemas, AddObjects(n, s)
        PROVE  Keeps(pg, pg', Asked.name)
    <3> DEFINE b == pg.base[n]
               c == [b EXCEPT !.tables[s] = Outsider, !.types[s] = Outsider]
    <3>1. pg.base \in [Names -> Bases] /\ b \in Bases
      BY <1>0 DEF EngineStates
    <3>2. /\ c.own = b.own /\ c.exts = b.exts /\ c.schemas = b.schemas
          /\ c.privs = b.privs /\ c.defaults = b.defaults
      BY <3>1 DEF Bases
    <3>3. pg' = [pg EXCEPT !.base = [pg.base EXCEPT ![n] = c]]
      BY <1>0, <2>3, <3>1 DEF AddObjects, EngineStates, Bases
    <3> HIDE DEF c
    <3>4. /\ pg'.roles = pg.roles /\ pg'.member = pg.member
          /\ \A m \in Names : pg'.base[m] = IF m = n THEN c ELSE pg.base[m]
      BY <1>0, <3>1, <3>3 DEF EngineStates
    <3>5. Asked.name \in Names
      BY PassValues DEF TInv
    <3>6. Asked.name = n \/ Asked.name # n
      OBVIOUS
    <3> QED BY <3>2, <3>4, <3>5, <3>6 DEF Keeps
  <2> QED BY <2>1, <2>2, <2>3
          DEF Environment, SetName, SetMaster, SetSchemas, SetExtensions, DeleteResource, EditSpec,
              Link, Unlink, RemoveEngine, EngineReady
<1> QED BY <1>1, <1>2, SamePlaced

LEMMA PStep == TInv /\ PInv /\ LateSpares /\ [Next]_vars => PInv'
<1> SUFFICES ASSUME TInv, PInv, LateSpares, [Next]_vars PROVE PInv'
  OBVIOUS
<1>1. CASE Begin
  BY <1>1, BeginPlaced DEF Begin
<1>2. CASE Next /\ ~Begin
  BY <1>2, RolesPlaced, BasePlaced, ExtensionsPlaced, SchemasPlaced, DropPlaced,
     FaultyPlaced, EnvironmentPlaced DEF Next, Pass
<1>3. CASE UNCHANGED vars
  <2>1. UNCHANGED <<read, mem, w>> /\ pg' = pg
    BY <1>3 DEF vars
  <2>2. Keeps(pg, pg', Asked.name)
    BY <2>1 DEF Keeps
  <2> QED BY <2>1, <2>2, SamePlaced
<1> QED BY <1>1, <1>2, <1>3

LEMMA PInit == Init => PInv
<1> SUFFICES ASSUME Init PROVE PInv
  OBVIOUS
<1>1. w.pc \in Resting
  BY DEF Init, NoPass, Resting
<1> QED BY <1>1, RestingPlaced DEF PInv

(* Nothing is ever on the way to the engine when its pass is over.         *)
Prompt == late = Nothing /\ faults.kinds \intersect {"timeout", "crash"} = {}
PromptPlans == \A plan \in Plans : plan.faults.kinds \intersect {"timeout", "crash"} = {}

(* The kinds of edits and faults stay those of the plan, and only an       *)
(* interrupted pass leaves a statement.                                    *)
Bounds ==
    /\ edits'.kinds = edits.kinds /\ faults'.kinds = faults.kinds
    /\ late' = late \/ late' = Nothing \/ faults.kinds \intersect {"timeout", "crash"} # {}

LEMMA StepBounds == TInv /\ [Next]_vars => Bounds
<1> SUFFICES ASSUME TInv, [Next]_vars PROVE Bounds
  OBVIOUS
<1>0. edits \in Budgets(EditKinds) /\ faults \in Budgets(FaultKinds)
  BY DEF TInv, TypeOK
<1>f. faults' = Spend(faults) => faults'.kinds = faults.kinds
  BY <1>0 DEF Spend, Budgets
<1>d. edits' = Spend(edits) => edits'.kinds = edits.kinds
  BY <1>0 DEF Spend, Budgets
<1>s. UNCHANGED <<late, boundVars>> => Bounds
  BY DEF Bounds, boundVars
<1>e. ASSUME NEW s, NEW status, NEW next, Execute(s, status, next)
      PROVE  Bounds
  BY <1>e, <1>f DEF Execute, Interrupted, HasFault, Bounds, boundVars
<1>q. ASSUME NEW status, NEW next, Quietly(status, next)
      PROVE  Bounds
  BY <1>q, <1>s DEF Quietly
<1>1. CASE Begin
  BY <1>1, <1>s DEF Begin, BeginWith, BeginNotFound, BeginWaitLinked, BeginDrop, BeginKeep,
     BeginNoEngine, BeginWait, BeginFinalizer, BeginWork, Read
<1>2. CASE ManageRoles
  BY <1>2, <1>e DEF ManageRoles, RenameOldRole, CreateRole, GrantToOperator
<1>3. CASE ManageBase
  BY <1>3, <1>e, <1>q, <1>s DEF ManageBase, CloseOldPools, RenameBase, OwnBase, Reject
<1>4. CASE ManageExtensions
  BY <1>4, <1>e, <1>q DEF ManageExtensions, GoExtensions, DropOneExtension, CreateOneExtension,
     ListExtensions, GoSchemas
<1>5. CASE ManageSchemas
  <2>1. CASE \E s \in Schemas : DropOneSchema(s) \/ CreateOneSchema(s)
    BY <2>1, <1>e DEF DropOneSchema, CreateOneSchema
  <2>2. CASE ListSchema \/ ReaderPrivileges \/ WriterPrivileges \/ OwnTables \/ OwnTypes
    BY <2>2, <1>e DEF ListSchema, ReaderPrivileges, WriterPrivileges, OwnTables, OwnTypes
  <2>3. CASE GoSuccess \/ ManageSuccess
    BY <2>3, <1>q, <1>s DEF GoSuccess, ManageSuccess
  <2> QED BY <1>5, <2>1, <2>2, <2>3 DEF ManageSchemas
<1>6. CASE ManageDrop
  BY <1>6, <1>e, <1>q, <1>s DEF ManageDrop, SkipRole, DropOwned, DropGroupRole, ClosePools,
     DropBase, Finalize, Reject
<1>7. CASE Faulty
  BY <1>7, <1>f, <1>s DEF Faulty, Fail, Crash, LateLands, LateLost, Reopen, Connect, Engine,
     Bounds, boundVars
<1>8. CASE Environment
  BY <1>8, <1>d, <1>s DEF Environment, SetName, SetMaster, SetSchemas, SetExtensions,
     DeleteResource, EditSpec, Edit, Link, Unlink, Expire, Disconnect, Engine, AddObjects,
     RemoveEngine, EngineReady, Bounds, boundVars
<1>9. CASE UNCHANGED vars
  BY <1>9, <1>s DEF vars, boundVars
<1> QED BY <1>1, <1>2, <1>3, <1>4, <1>5, <1>6, <1>7, <1>8, <1>9 DEF Next, Pass

LEMMA PromptStep == TInv /\ Prompt /\ [Next]_vars => Prompt' /\ LateSpares
BY StepBounds DEF Bounds, Prompt, LateSpares, LateLands
LEMMA PlacedProvides == PInv => Provisioned
<1> SUFFICES ASSUME PInv, At("success") PROVE InPlace(Asked)
  BY DEF Provisioned
<1>1. RolesDone(w) = Kinds /\ Owned(w)
  BY DEF At, RolesDone, Owned, ModuleSteps, LateSteps
<1>2. /\ \A kind \in Kinds : RoleInPlace(Asked, pg, mem, kind)
      /\ pg.base[Asked.name].own = RoleFor(Asked, "owner")
      /\ ModulesPlaced(Asked, pg.base[Asked.name], w)
  BY <1>1 DEF PInv, Placed
<1>3. Asked.exts \subseteq pg.base[Asked.name].exts
      /\ \A s \in ListedSchemas(Asked) : SchemaInPlace(Asked, pg.base[Asked.name], s)
  BY <1>2 DEF ModulesPlaced, At, LateSteps
<1>4. \A s \in ListedSchemas(Asked), kind \in {"reader", "writer"} :
        /\ pg.base[Asked.name].schemas[s] # NoRole
        /\ <<s, RoleFor(Asked, kind)>> \in pg.base[Asked.name].privs
        /\ <<RoleFor(Asked, "owner"), s, RoleFor(Asked, kind)>> \in pg.base[Asked.name].defaults
  BY <1>3 DEF SchemaInPlace, Served
<1> QED BY <1>2, <1>3, <1>4 DEF InPlace, RoleInPlace

(* A pass that reaches its success has put in place all it read: the       *)
(* database and its owner, the three roles, granted to the operator, the   *)
(* extensions, the schemas and the privileges in them.  For any resources  *)
(* (two of them may ask for the same database), edits, stale reads, calls  *)
(* that fail, sessions and objects of others, as long as no statement is   *)
(* left behind by a timeout or a crash.                                    *)
THEOREM SuccessIsProvisioned ==
    ASSUME PromptPlans
    PROVE  Spec => []Provisioned
<1>1. Init => Prompt
  BY DEF Init, Prompt, PromptPlans
<1> QED BY <1>1, PlacedProvides, TInit, TStep, PInit, PStep, PromptStep, PTL DEF Spec
=============================================================================
