----------------------------- MODULE MCDatabase -----------------------------
(* Small instances of Database for TLC. *)
EXTENDS Database

(* A resource with a finalizer, and the one it was before its first pass.  *)
Asks(name, master, schemas) ==
    [exists |-> TRUE, deleting |-> FALSE, finalizer |-> TRUE, name |-> name,
     master |-> master, drop |-> TRUE, wait |-> TRUE, schemas |-> schemas, exts |-> {},
     dropModules |-> TRUE, cascade |-> TRUE]
New(c) == [c EXCEPT !.finalizer = FALSE]
Absent == [New(Asks("a", NoMaster, {})) EXCEPT !.exists = FALSE]
First(c, d) == [r \in Resources |-> IF r = "r1" THEN c ELSE d]

(* A database somebody else created, and one that was provisioned.         *)
OtherBase == [NoBase EXCEPT !.own = Outsider, !.schemas[Public] = Outsider]
ProvidedBase(c) ==
    [OtherBase EXCEPT
       !.own = RoleFor(c, "owner"),
       !.schemas = [s \in Schemas |-> IF s = Public THEN Outsider
                                      ELSE IF s \in c.schemas THEN RoleFor(c, "owner")
                                      ELSE NoRole],
       !.privs = ListedSchemas(c) \X {RoleFor(c, "reader"), RoleFor(c, "writer")},
       !.defaults = {RoleFor(c, "owner")} \X ListedSchemas(c)
                      \X {RoleFor(c, "reader"), RoleFor(c, "writer")}]
ProvidedStatus(c) ==
    [phase |-> "Created", ready |-> TRUE, db |-> c.name, owner |-> RoleFor(c, "owner"),
     reader |-> RoleFor(c, "reader"), writer |-> RoleFor(c, "writer"),
     schemas |-> ListedSchemas(c), exts |-> {}]

Engine1(roles, base) ==
    [roles |-> roles, member |-> roles, base |-> base, sessions |-> {}, apps |-> {}]
Budget(kinds, left) == [kinds |-> kinds, left |-> left]
Plan(resources, status, g, edit, fault) ==
    [cr |-> resources, st |-> status, pg |-> g, edits |-> edit, faults |-> fault]

(* One resource, before its first pass or once provisioned.                *)
Start1(c, names, edit, fault) ==
    Plan(First(New(c), Absent), [r \in Resources |-> NoStatus],
         Engine1({}, [n \in Names |-> IF n \in names THEN OtherBase ELSE NoBase]),
         edit, fault)
Ready1(c, edit, fault) ==
    Plan(First(c, Absent), First(ProvidedStatus(c), NoStatus),
         Engine1({RoleFor(c, kind) : kind \in Kinds},
                 [n \in Names |-> IF n = c.name THEN ProvidedBase(c) ELSE NoBase]),
         edit, fault)
Ready2(c, d, edit, fault) ==
    Plan(First(c, d), First(ProvidedStatus(c), ProvidedStatus(d)),
         Engine1({RoleFor(c, kind) : kind \in Kinds} \union {RoleFor(d, kind) : kind \in Kinds},
                 [n \in Names |-> IF n = c.name THEN ProvidedBase(c)
                                  ELSE IF n = d.name THEN ProvidedBase(d) ELSE NoBase]),
         edit, fault)

A == Asks("a", NoMaster, {Public})
B == Asks("b", NoMaster, {"s"})

(* What leaves the lists is not dropped.                                   *)
Keeping(c) == [c EXCEPT !.dropModules = FALSE]

None == Budget({}, 0)
Lossy(n) == Budget({"timeout", "error", "crash"}, n)

(* A resource that adopts a database, alone, with a fault, and when what   *)
(* leaves its list of schemas stays on the engine; one that is edited and  *)
(* deleted while all goes well; the same edits, one at a time, with a      *)
(* fault; sessions; stale reads; extensions and the engine; two resources. *)
DatabasePlans ==
    {Start1(A, {"a"}, Budget({"name", "master"}, 2), None),
     Start1(A, {"a"}, Budget({"schemas"}, 1), Lossy(1)),
     Start1(Keeping(A), {"a"}, Budget({"schemas"}, 1), Lossy(1)),
     Ready1(A, Budget({"name", "master", "delete"}, 2), None),
     Ready1(A, Budget({"delete"}, 1), Lossy(1)),
     Ready1(A, Budget({"schemas", "objects"}, 2), Budget({"error"}, 1)),
     Ready1(A, Budget({"master"}, 1), Lossy(1)),
     Ready1(A, Budget({"name"}, 1), Lossy(1)),
     Ready1(A, Budget({"name", "delete", "link"}, 2), Budget({"reopen", "session"}, 1)),
     Ready1(A, Budget({"name", "delete", "link"}, 2), Budget({"stale"}, 0)),
     Ready1(A, Budget({"extensions", "engine", "delete"}, 2), None),
     Ready2(A, B, Budget({"schemas", "delete"}, 1), None)}

(* No database of that name is there; nothing is edited, nothing fails.    *)
MissingPlans == {Start1(A, {}, None, None)}
=============================================================================
