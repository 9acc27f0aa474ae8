----------------------------- MODULE PgDatabase -----------------------------
(***************************************************************************)
(* The statements of internal/controller/postgresql/postgres that the      *)
(* database controller sends to one PostgreSQL engine.  An engine is a     *)
(* record:                                                                 *)
(*   roles    : the group roles                                            *)
(*   member   : those granted to the operator's user                       *)
(*   base     : name -> database, whose own is NoRole when there is none   *)
(*   sessions : databases on which a pool of the operator has a session    *)
(*   apps     : databases on which somebody else has one                   *)
(* and a database is a record:                                             *)
(*   own       : its owner                                                 *)
(*   schemas, tables, types : schema -> owner of the schema, of the table  *)
(*               and of the type in it, NoRole when there is none          *)
(*   exts      : its extensions                                            *)
(*   privs     : pairs <<schema, role>> of the grants on the schema and on *)
(*               its tables                                                *)
(*   defaults  : triples <<creator, schema, role>> of default privileges   *)
(* A statement is a record, so that one can still be on its way when the   *)
(* pass that sent it is over.  Works says whether it succeeds, After what  *)
(* it leaves.                                                              *)
(***************************************************************************)
NoName == ""
Public == "public"
NoRole == <<"", "">>
Operator == <<"", "operator">>
Outsider == <<"", "outsider">>

Nothing == [op |-> "nothing", role |-> NoRole, to |-> NoRole, base |-> NoName,
            item |-> NoName]

RenameRole(a, b) == [Nothing EXCEPT !.op = "rename role", !.role = a, !.to = b]
CreateGroupRole(a) == [Nothing EXCEPT !.op = "create role", !.role = a]
GrantRole(a) == [Nothing EXCEPT !.op = "grant role", !.role = a]
ChangeAndDropOwnedBy(a, n) ==
    [Nothing EXCEPT !.op = "drop owned", !.role = a, !.base = n]
DropRole(a) == [Nothing EXCEPT !.op = "drop role", !.role = a]
RenameDatabase(n, m) == [Nothing EXCEPT !.op = "rename base", !.base = n, !.item = m]
ChangeDBOwner(n, a) == [Nothing EXCEPT !.op = "own base", !.base = n, !.role = a]
DropDatabase(n) == [Nothing EXCEPT !.op = "drop base", !.base = n]
(* ListExtensions, ListSchema, GetTablesInSchema and GetTypesInSchema.     *)
ListIn(n) == [Nothing EXCEPT !.op = "list", !.base = n]
CreateExtension(n, x) == [Nothing EXCEPT !.op = "create extension", !.base = n, !.item = x]
DropExtension(n, x) == [Nothing EXCEPT !.op = "drop extension", !.base = n, !.item = x]
CreateSchema(n, a, s) ==
    [Nothing EXCEPT !.op = "create schema", !.base = n, !.role = a, !.item = s]
DropSchema(n, s, cascade) ==
    [Nothing EXCEPT !.op = IF cascade THEN "drop schema cascade" ELSE "drop schema",
                    !.base = n, !.item = s]
SetSchemaPrivileges(n, creator, a, s) ==
    [Nothing EXCEPT !.op = "privileges", !.base = n, !.role = creator, !.to = a, !.item = s]
ChangeTableOwner(n, a) == [Nothing EXCEPT !.op = "own table", !.base = n, !.role = a]
ChangeTypeOwnerInSchema(n, s, a) ==
    [Nothing EXCEPT !.op = "own type", !.base = n, !.role = a, !.item = s]

-----------------------------------------------------------------------------
IsRoleExist(g, a) == a \in g.roles
Exists(g, n) == g.base[n].own # NoRole

(* A role that owns something or has been granted something in a database. *)
UsedIn(b, a) ==
    \/ b.own = a
    \/ \E s \in DOMAIN b.schemas : a \in {b.schemas[s], b.tables[s], b.types[s]}
    \/ \E p \in b.privs : p[2] = a
    \/ \E d \in b.defaults : a \in {d[1], d[3]}

(* The statements that connect to the database they are about.             *)
Inside == {"drop owned", "list", "create extension", "drop extension", "create schema",
           "drop schema", "drop schema cascade", "privileges", "own table", "own type"}

Operations == Inside \union {"nothing", "rename role", "create role", "grant role", "drop role",
                             "rename base", "own base", "drop base"}

Works(g, s) ==
    /\ s.op \in Inside \union {"rename base", "own base"} => Exists(g, s.base)
    /\ s.op \in {"rename base", "drop base"} => s.base \notin g.sessions \union g.apps
    /\ s.op = "rename base" => ~Exists(g, s.item)
    /\ s.op \in {"rename role", "grant role", "own base", "create schema", "privileges",
                 "own table", "own type"} => s.role \in g.roles
    /\ s.op = "rename role" => s.to \notin g.roles
    /\ s.op = "privileges" => s.to \in g.roles
    /\ s.op \in {"privileges", "own type"} => g.base[s.base].schemas[s.item] # NoRole
    /\ s.op = "drop role" => \A n \in DOMAIN g.base : ~UsedIn(g.base[n], s.role)
    /\ s.op = "drop schema" => /\ g.base[s.base].tables[s.item] = NoRole
                               /\ g.base[s.base].types[s.item] = NoRole

Renamed(a, b, x) == IF x = a THEN b ELSE x
RenamedAll(a, b, f) == [s \in DOMAIN f |-> Renamed(a, b, f[s])]

BaseRenamed(base, a, b) ==
    [own |-> Renamed(a, b, base.own),
     schemas |-> RenamedAll(a, b, base.schemas),
     tables |-> RenamedAll(a, b, base.tables),
     types |-> RenamedAll(a, b, base.types),
     exts |-> base.exts,
     privs |-> {<<p[1], Renamed(a, b, p[2])>> : p \in base.privs},
     defaults |-> {<<Renamed(a, b, d[1]), d[2], Renamed(a, b, d[3])>> : d \in base.defaults}]

RoleRenamed(g, a, b) ==
    [g EXCEPT !.roles = (@ \ {a}) \union {b},
              !.member = {Renamed(a, b, x) : x \in @},
              !.base = [n \in DOMAIN @ |-> BaseRenamed(@[n], a, b)]]

(* REASSIGN OWNED BY moves every database the role owns, but what is       *)
(* inside a database only in the one it is run in; DROP OWNED BY then      *)
(* takes the grants there.                                                 *)
OwnerMoved(base, a) == [base EXCEPT !.own = Renamed(a, Operator, @)]
InsideMoved(base, a) ==
    [base EXCEPT !.schemas = RenamedAll(a, Operator, @),
                 !.tables = RenamedAll(a, Operator, @),
                 !.types = RenamedAll(a, Operator, @),
                 !.privs = {p \in @ : p[2] # a},
                 !.defaults = {d \in @ : a \notin {d[1], d[3]}}]

OwnedDropped(g, a, n) ==
    [g EXCEPT !.base = [m \in DOMAIN @ |->
        IF m = n THEN InsideMoved(OwnerMoved(@[m], a), a) ELSE OwnerMoved(@[m], a)]]

BaseMoved(g, n, m, absent) == [g EXCEPT !.base[m] = g.base[n], !.base[n] = absent]

WithoutSchema(base, s) ==
    [base EXCEPT !.schemas[s] = NoRole,
                 !.tables[s] = NoRole,
                 !.types[s] = NoRole,
                 !.privs = {p \in @ : p[1] # s},
                 !.defaults = {d \in @ : d[2] # s}]

SchemaDropped(g, n, s) == [g EXCEPT !.base[n] = WithoutSchema(@, s)]

PrivilegesSet(g, n, creator, a, s) ==
    [g EXCEPT !.base[n].privs = @ \union {<<s, a>>},
              !.base[n].defaults = @ \union {<<creator, s, a>>}]

(* The table is named without its schema, IF EXISTS: only the search path  *)
(* of the operator decides which one it is.                                *)
TableOwned(g, n, a) ==
    IF g.base[n].tables[Public] = NoRole THEN g
    ELSE [g EXCEPT !.base[n].tables[Public] = a]

Done(g, s, absent) ==
    CASE s.op = "rename role" -> RoleRenamed(g, s.role, s.to)
      [] s.op = "create role" -> [g EXCEPT !.roles = @ \union {s.role}]
      [] s.op = "grant role" -> [g EXCEPT !.member = @ \union {s.role}]
      [] s.op = "drop owned" -> OwnedDropped(g, s.role, s.base)
      [] s.op = "drop role" -> [g EXCEPT !.roles = @ \ {s.role}, !.member = @ \ {s.role}]
      [] s.op = "rename base" -> BaseMoved(g, s.base, s.item, absent)
      [] s.op = "own base" -> [g EXCEPT !.base[s.base].own = s.role]
      [] s.op = "drop base" -> [g EXCEPT !.base[s.base] = absent]
      [] s.op = "create extension" -> [g EXCEPT !.base[s.base].exts = @ \union {s.item}]
      [] s.op = "drop extension" -> [g EXCEPT !.base[s.base].exts = @ \ {s.item}]
      [] s.op = "create schema" ->
           [g EXCEPT !.base[s.base].schemas[s.item] = IF @ = NoRole THEN s.role ELSE @]
      [] s.op \in {"drop schema", "drop schema cascade"} -> SchemaDropped(g, s.base, s.item)
      [] s.op = "privileges" -> PrivilegesSet(g, s.base, s.role, s.to, s.item)
      [] s.op = "own table" -> TableOwned(g, s.base, s.role)
      [] s.op = "own type" -> [g EXCEPT !.base[s.base].types[s.item] = s.role]
      [] OTHER -> g

(* A statement sent inside a database leaves a session of its pool there.  *)
After(g, s, absent) ==
    LET h == Done(g, s, absent)
    IN  IF s.op \in Inside THEN [h EXCEPT !.sessions = @ \union {s.base}] ELSE h
=============================================================================
