------------------------------ MODULE UserRole ------------------------------
(***************************************************************************)
(* The reconciliation of one PostgresqlUserRole resource (internal/        *)
(* controller/postgresql/postgresqluserrole_controller.go): the login      *)
(* roles it keeps on every engine its privileges reach, the work secret    *)
(* that remembers the current username and password, and one generated     *)
(* secret per privilege, the only thing applications read.                 *)
(*                                                                         *)
(* One pass of mainReconcile is a sequence of steps of the worker, each of *)
(* which makes at most one group of writes: between two steps the          *)
(* administrator edits resources, applications connect, the process        *)
(* crashes or a call fails.                                                *)
(***************************************************************************)
EXTENDS PgRoles, FiniteSets

CONSTANTS
    Engines,        \* PostgresqlEngineConfiguration resources
    Databases,      \* PostgresqlDatabase resources the privileges may name
    EngineOf,       \* database -> the engine it lives on
    Prefixes,       \* values of spec.rolePrefix (managed mode)
    ImportUsers,    \* usernames an import secret may hold (provided mode)
    Attributes,     \* values of spec.roleAttributes
    Passwords,      \* passwords; large enough for a fresh one to exist
    ImportPasswords, \* passwords an import secret may hold
    MaxClock,       \* bound on time
    Plans           \* the scenarios: resource, import secret, databases,
                    \* edits and faults

Privileges == {"OWNER", "WRITER", "READER"}
NoPrivilege == "NONE"

Suffixes == {"-0", "-1"}
Users == (Prefixes \X Suffixes) \union (ImportUsers \X {""})
NoUser == <<"", "">>
NoPrefix == ""
Groups == Databases \X Privileges
Never == 0

Credentials == [user : Users \union {NoUser}, pwd : Passwords \union {NoPassword}]
Modes == IF ImportUsers = {} THEN {"MANAGED"} ELSE {"MANAGED", "PROVIDED"}
Resources == [exists : BOOLEAN, deleting : BOOLEAN, finalizer : BOOLEAN,
              mode : Modes, period : Nat, prefix : Prefixes, attr : Attributes,
              privs : [Databases -> Privileges \union {NoPrivilege}]]
Presence == {"absent", "pending", "ready"}

(* The kinds of edits or faults that a scenario has, and how many.         *)
EditKinds == {"prefix", "privileges", "attributes", "delete", "work", "workuser",
              "generated", "import"}
FaultKinds == {"error", "crash", "stale"}
Budgets(K) == [kinds : SUBSET K, left : Nat]

ASSUME EngineOfAssumption == EngineOf \in [Databases -> Engines]
ASSUME PasswordsAssumption == Passwords \subseteq Nat \ {NoPassword}
ASSUME PrefixesAssumption ==
    /\ NoPrefix \notin Prefixes
    /\ NoUser \notin Users
    /\ \A u \in ImportUsers \X {""} : u \notin Prefixes \X Suffixes
ASSUME AttributesAssumption == Attributes # {} /\ NoAttributes \notin Attributes
ASSUME ImportAssumption == ImportPasswords \subseteq Passwords
ASSUME BoundsAssumption == MaxClock \in Nat
ASSUME PlansAssumption ==
    \A plan \in Plans :
        /\ plan.cr \in Resources
        /\ ~plan.cr.deleting
        /\ plan.import \in Credentials
        /\ ImportUsers # {} => plan.import.user \in Users
        /\ plan.dbs \in [Databases -> Presence]
        /\ plan.edits \in Budgets(EditKinds)
        /\ plan.faults \in Budgets(FaultKinds)

VARIABLES
    cr,      \* spec and metadata of the PostgresqlUserRole, as stored
    st,      \* its status subresource, as stored
    work,    \* the work secret
    gen,     \* database -> content of the generated secret of its privilege
    import,  \* the import secret, read in provided mode
    dbs,     \* database -> "absent", "pending" (never provisioned) or "ready"
    pg,      \* engine -> its roles (see PgRoles)
    sess,    \* pairs <<engine, login role>> with an open client session
    clock,   \* the time
    seen,    \* the spec and metadata the last pass read from its cache
    orig,    \* the status the last pass read from its cache
    mem,     \* the status in the memory of the running pass
    w,       \* the position and the local variables of the running pass
    edits,   \* the kinds of edits, and how many are left
    faults   \* the kinds of faults, and how many errors and crashes are left

crVars == <<cr, st>>
secretVars == <<work, gen, import>>
engineVars == <<pg, sess>>
passVars == <<seen, orig, mem, w>>
boundVars == <<edits, faults>>
vars == <<cr, st, work, gen, import, dbs, pg, sess, clock, seen, orig, mem, w,
          edits, faults>>

-----------------------------------------------------------------------------
(* Values.                                                                 *)

NoCredentials == [user |-> NoUser, pwd |-> NoPassword]
NoWorkSecret == [exists |-> FALSE, user |-> NoUser, pwd |-> NoPassword]

NoStatus == [phase |-> "", ready |-> FALSE, role |-> NoUser, old |-> {},
             prefix |-> NoPrefix, last |-> Never]

EmptyEngine == [pwd |-> [u \in Users |-> NoPassword],
                attr |-> [u \in Users |-> NoAttributes],
                member |-> {}, granted |-> {}, setting |-> {}]

NoPass == [pc |-> "idle", user |-> NoUser, pwd |-> NoPassword,
           pwChanged |-> FALSE, userChanged |-> FALSE, rotErr |-> FALSE,
           dbs |-> {}, ready |-> {}, pairs |-> {}, kept |-> {},
           todo |-> {}, left |-> {}, at |-> <<>>]

GroupRole(d, privilege) == <<d, privilege>>

PrivilegedDatabases(c) == {d \in Databases : c.privs[d] # NoPrivilege}
EnginesOf(D) == {EngineOf[d] : d \in D}

PasswordsInUse ==
    {work.pwd, import.pwd, w.pwd} \union {gen[d].pwd : d \in Databases}
      \union UNION {{pg[e].pwd[u] : u \in Users} : e \in Engines}

FreshPassword == CHOOSE p \in Passwords \ PasswordsInUse : TRUE

-----------------------------------------------------------------------------
(* Status writes.                                                          *)

(* client.MergeFrom(original) sends the fields that differ from the copy   *)
(* the pass read and leaves the others as they are stored.                 *)
Merged(o, m, stored) == IF m = o THEN stored ELSE m

StatusPatch(o, m) ==
    IF ~cr.exists THEN st
    ELSE [phase  |-> Merged(o.phase, m.phase, st.phase),
          ready  |-> Merged(o.ready, m.ready, st.ready),
          role   |-> Merged(o.role, m.role, st.role),
          old    |-> Merged(o.old, m.old, st.old),
          prefix |-> Merged(o.prefix, m.prefix, st.prefix),
          last   |-> Merged(o.last, m.last, st.last)]

EndPass == mem' = NoStatus /\ w' = NoPass

ManageError(o, m) ==
    /\ st' = StatusPatch(o, [m EXCEPT !.ready = FALSE, !.phase = "Failed"])
    /\ EndPass

-----------------------------------------------------------------------------
(* The start of a pass: the copy read from the cache decides.              *)

CacheCopies ==
    {<<cr, st>>} \union (IF "stale" \in faults.kinds THEN {<<seen, orig>>} ELSE {})

Read(c, s) ==
    /\ w.pc = "idle"
    /\ <<c, s>> \in CacheCopies
    /\ seen' = c
    /\ orig' = s
    /\ UNCHANGED <<secretVars, dbs, engineVars, clock, boundVars>>

ExistingDatabases(c) == {d \in PrivilegedDatabases(c) : dbs[d] # "absent"}
ReadyDatabases(c) == {d \in PrivilegedDatabases(c) : dbs[d] = "ready"}

NewPass(pc, c, old) ==
    [NoPass EXCEPT !.pc = pc,
                   !.dbs = ExistingDatabases(c),
                   !.ready = ReadyDatabases(c),
                   !.pairs = old \X EnginesOf(ExistingDatabases(c))]

BeginNotFound(c, s) ==
    /\ Read(c, s)
    /\ ~c.exists
    /\ UNCHANGED <<crVars, mem, w>>

(* Mutant: the current role does not join the old ones.                    *)
BeginDeletionForgetting(c, s) ==
    /\ Read(c, s)
    /\ c.exists /\ c.deleting
    /\ mem' = s
    /\ w' = NewPass("drop", c, s.old)
    /\ UNCHANGED crVars

(* The current role joins the old ones; databases and engines that no      *)
(* longer exist are skipped.                                               *)
BeginDeletion(c, s) ==
    LET old == s.old \union ({s.role} \ {NoUser})
    IN  /\ Read(c, s)
        /\ c.exists /\ c.deleting
        /\ mem' = [s EXCEPT !.old = old]
        /\ w' = NewPass("drop", c, old)
        /\ UNCHANGED crVars

BeginMissing(c, s) ==
    /\ Read(c, s)
    /\ c.exists /\ ~c.deleting
    /\ ExistingDatabases(c) # PrivilegedDatabases(c)
    /\ ManageError(s, s)
    /\ UNCHANGED cr

Waits(c, s) == s.phase = "" /\ ReadyDatabases(c) # PrivilegedDatabases(c)

(* The first pass waits for the databases: no write, no error.             *)
BeginWait(c, s) ==
    /\ Read(c, s)
    /\ c.exists /\ ~c.deleting
    /\ ExistingDatabases(c) = PrivilegedDatabases(c)
    /\ Waits(c, s)
    /\ UNCHANGED <<crVars, mem, w>>

(* The finalizer is added and the pass stops.  r.Update carries the        *)
(* resource version that was read: on a stale copy it is refused.          *)
BeginFinalizer(c, s) ==
    /\ Read(c, s)
    /\ c.exists /\ ~c.deleting /\ ~c.finalizer
    /\ ExistingDatabases(c) = PrivilegedDatabases(c)
    /\ ~Waits(c, s)
    /\ IF c = cr /\ s = st
       THEN /\ cr' = [cr EXCEPT !.finalizer = TRUE]
            /\ UNCHANGED <<st, mem, w>>
       ELSE ManageError(s, s) /\ UNCHANGED cr

BeginWork(c, s) ==
    /\ Read(c, s)
    /\ c.exists /\ ~c.deleting /\ c.finalizer
    /\ ExistingDatabases(c) = PrivilegedDatabases(c)
    /\ ~Waits(c, s)
    /\ mem' = s
    /\ w' = NewPass("work", c, {})
    /\ UNCHANGED crVars

-----------------------------------------------------------------------------
(* The work secret: the only place a new username and password are chosen. *)

ManagedUser(prefix) == <<prefix, "-0">>
(* Mutant: the suffix goes after the old username instead of the prefix.   *)
NextUserAppended(prefix, u) == <<prefix, IF u[2] = "-0" THEN "-0-1" ELSE "-1-0">>

NextUser(prefix, u) == <<prefix, IF u[2] = "-0" THEN "-1" ELSE "-0">>

PrefixChanged == mem.prefix # NoPrefix /\ seen.prefix # mem.prefix

(* Mutant: an emptied password goes unnoticed.                             *)
WorkSecretEditedUserOnly == work.user = NoUser

WorkSecretEdited == work.user = NoUser \/ work.pwd = NoPassword

RotationDue ==
    /\ seen.period # 0
    /\ mem.last # Never
    /\ clock - mem.last >= seen.period

(* Mutant: the rotation does not look at the old roles.                    *)
RotationBlockedNever(u) == FALSE

(* The new username is still waiting to be dropped: no rotation.           *)
RotationBlocked(u) == u \in mem.old

(* Mutant: the previous username is forgotten.                             *)
ProceedForgetting(user, pwd, oldUser, pwChanged, rotErr) ==
    /\ mem' = mem
    /\ w' = [w EXCEPT !.pc = "drop",
                      !.user = user,
                      !.pwd = pwd,
                      !.pwChanged = pwChanged,
                      !.userChanged = oldUser \notin {user, NoUser},
                      !.rotErr = rotErr,
                      !.pairs = mem.old \X EnginesOf(w.dbs)]

(* What follows the work secret: a changed username sends the previous one *)
(* to the list of the roles to drop, in memory only.                       *)
Proceed(user, pwd, oldUser, pwChanged, rotErr) ==
    LET userChanged == oldUser \notin {user, NoUser}
        old == IF userChanged THEN mem.old \union {oldUser} ELSE mem.old
    IN  /\ mem' = [mem EXCEPT !.old = old]
        /\ w' = [w EXCEPT !.pc = "drop",
                          !.user = user,
                          !.pwd = pwd,
                          !.pwChanged = pwChanged,
                          !.userChanged = userChanged,
                          !.rotErr = rotErr,
                          !.pairs = old \X EnginesOf(w.dbs)]

WriteWorkSecret(user, pwd) == work' = [exists |-> TRUE, user |-> user, pwd |-> pwd]

AtWorkSecret == 
    /\ w.pc = "work"
    /\ UNCHANGED <<crVars, gen, import, dbs, engineVars, clock, seen, orig, boundVars>>

(* The secret is gone although the role was managed before: the status     *)
(* tells whether the username changes; if not, the password does.          *)
CreateWorkSecret(user, pwd) ==
    LET managed == mem.phase # ""
        renamed == managed /\ mem.role \notin {NoUser, user}
    IN  /\ AtWorkSecret
        /\ ~work.exists
        /\ WriteWorkSecret(user, pwd)
        /\ Proceed(user, pwd, IF renamed THEN mem.role ELSE NoUser,
                   managed /\ ~renamed, FALSE)

ManagedCreate ==
    /\ seen.mode = "MANAGED"
    /\ Passwords \ PasswordsInUse # {}
    /\ CreateWorkSecret(ManagedUser(seen.prefix), FreshPassword)

(* Another prefix, or a key of the secret emptied: new credentials.        *)
ManagedReplace ==
    LET user == ManagedUser(seen.prefix)
    IN  /\ seen.mode = "MANAGED"
        /\ AtWorkSecret
        /\ work.exists
        /\ PrefixChanged \/ WorkSecretEdited
        /\ Passwords \ PasswordsInUse # {}
        /\ WriteWorkSecret(user, FreshPassword)
        /\ Proceed(user, FreshPassword, work.user, TRUE, FALSE)

ManagedRotate ==
    LET user == NextUser(seen.prefix, work.user)
    IN  /\ seen.mode = "MANAGED"
        /\ AtWorkSecret
        /\ work.exists
        /\ ~PrefixChanged /\ ~WorkSecretEdited
        /\ RotationDue
        /\ ~RotationBlocked(user)
        /\ Passwords \ PasswordsInUse # {}
        /\ WriteWorkSecret(user, FreshPassword)
        /\ Proceed(user, FreshPassword, work.user, TRUE, FALSE)

ManagedBlocked ==
    /\ seen.mode = "MANAGED"
    /\ AtWorkSecret
    /\ work.exists
    /\ ~PrefixChanged /\ ~WorkSecretEdited
    /\ RotationDue
    /\ RotationBlocked(NextUser(seen.prefix, work.user))
    /\ Proceed(work.user, work.pwd, NoUser, FALSE, TRUE)
    /\ UNCHANGED work

ManagedKeep ==
    /\ seen.mode = "MANAGED"
    /\ AtWorkSecret
    /\ work.exists
    /\ ~PrefixChanged /\ ~WorkSecretEdited /\ ~RotationDue
    /\ Proceed(work.user, work.pwd, NoUser, FALSE, FALSE)
    /\ UNCHANGED work

ProvidedCreate ==
    /\ seen.mode = "PROVIDED"
    /\ CreateWorkSecret(import.user, import.pwd)

ProvidedReplace ==
    /\ seen.mode = "PROVIDED"
    /\ AtWorkSecret
    /\ work.exists
    /\ work.user # import.user \/ work.pwd # import.pwd
    /\ WriteWorkSecret(import.user, import.pwd)
    /\ Proceed(import.user, import.pwd, work.user, work.pwd # import.pwd, FALSE)

ProvidedKeep ==
    /\ seen.mode = "PROVIDED"
    /\ AtWorkSecret
    /\ work.exists
    /\ work.user = import.user /\ work.pwd = import.pwd
    /\ Proceed(work.user, work.pwd, NoUser, FALSE, FALSE)
    /\ UNCHANGED work

-----------------------------------------------------------------------------
(* manageActiveSessionsAndDropOldRoles: every old role on every engine the *)
(* privileges still reach.                                                 *)

OldRoles == UNCHANGED <<crVars, secretVars, dbs, clock, seen, orig, boundVars>>

Examine(u, e) == w.pc = "drop" /\ <<u, e>> \in w.pairs /\ OldRoles

DropAbsent(u, e) ==
    /\ Examine(u, e)
    /\ ~IsRoleExist(pg[e], u)
    /\ w' = [w EXCEPT !.pairs = @ \ {<<u, e>>}]
    /\ UNCHANGED <<engineVars, mem>>

(* Mutant: the session of any user counts.                                 *)
DoesRoleHaveActiveSessionAny(e, u) == TRUE

DoesRoleHaveActiveSession(e, u) == <<e, u>> \in sess

DropPostponed(u, e) ==
    /\ Examine(u, e)
    /\ IsRoleExist(pg[e], u)
    /\ DoesRoleHaveActiveSession(e, u)
    /\ w' = [w EXCEPT !.pairs = @ \ {<<u, e>>}, !.kept = @ \union {u}]
    /\ UNCHANGED <<engineVars, mem>>

DropDecided(u, e) ==
    /\ Examine(u, e)
    /\ IsRoleExist(pg[e], u)
    /\ ~DoesRoleHaveActiveSession(e, u)
    /\ w' = [w EXCEPT !.pc = "dropping", !.at = <<u, e>>]
    /\ UNCHANGED <<engineVars, mem>>

(* A database never provisioned has no owner role to reassign to: its      *)
(* REASSIGN OWNED is an SQL error.                                         *)
Unprovisioned(e) == \E d \in w.dbs \ w.ready : EngineOf[d] = e

DropNow ==
    LET u == w.at[1]
        e == w.at[2]
    IN  /\ w.pc = "dropping"
        /\ ~Unprovisioned(e)
        /\ pg' = [pg EXCEPT ![e] = DropRole(@, u)]
        /\ sess' = sess \ {<<e, u>>}
        /\ w' = [w EXCEPT !.pc = "drop", !.at = <<>>, !.pairs = @ \ {w.at}]
        /\ OldRoles
        /\ UNCHANGED mem

DropFails ==
    /\ w.pc = "dropping"
    /\ Unprovisioned(w.at[2])
    /\ ManageError(orig, mem)
    /\ UNCHANGED <<cr, secretVars, dbs, engineVars, clock, seen, orig, boundVars>>

AllExamined == w.pc = "drop" /\ w.pairs = {}

(* Roles are left: a deletion, or a rotation that found its next username  *)
(* taken, stops here.                                                      *)
StopOnOldRoles ==
    /\ AllExamined
    /\ w.kept # {}
    /\ seen.deleting \/ w.rotErr
    /\ ManageError(orig, [mem EXCEPT !.old = w.kept])
    /\ UNCHANGED <<cr, secretVars, dbs, engineVars, clock, seen, orig, boundVars>>

GoFinalize ==
    /\ AllExamined
    /\ seen.deleting /\ w.kept = {}
    /\ mem' = [mem EXCEPT !.old = w.kept]
    /\ w' = [w EXCEPT !.pc = "finalize"]
    /\ OldRoles
    /\ UNCHANGED engineVars

GoManageRoles ==
    /\ AllExamined
    /\ ~seen.deleting
    /\ ~(w.rotErr /\ w.kept # {})
    /\ mem' = [mem EXCEPT !.old = w.kept]
    /\ w' = [w EXCEPT !.pc = "role", !.kept = {}, !.todo = EnginesOf(w.dbs)]
    /\ OldRoles
    /\ UNCHANGED engineVars

(* The finalizer is removed with the version that was read.  Kubernetes    *)
(* then removes the resource and collects the secrets it owns.             *)
Finalize ==
    /\ w.pc = "finalize"
    /\ IF seen = cr /\ orig = st
       THEN /\ cr' = [cr EXCEPT !.exists = FALSE, !.finalizer = FALSE]
            /\ st' = NoStatus
            /\ work' = NoWorkSecret
            /\ gen' = [d \in Databases |-> NoCredentials]
            /\ EndPass
       ELSE /\ ManageError(orig, mem)
            /\ UNCHANGED <<cr, work, gen>>
    /\ UNCHANGED <<import, dbs, engineVars, clock, seen, orig, boundVars>>

-----------------------------------------------------------------------------
(* managePGUserRoles                                                       *)

OnEngines ==
    UNCHANGED <<crVars, secretVars, dbs, sess, clock, seen, orig, boundVars>>

RoleCreate(e) ==
    /\ w.pc = "role" /\ e \in w.todo
    /\ ~IsRoleExist(pg[e], w.user)
    /\ pg' = [pg EXCEPT ![e] = CreateUserRole(@, w.user, w.pwd, seen.attr)]
    /\ w' = [w EXCEPT !.todo = @ \ {e}]
    /\ OnEngines /\ UNCHANGED mem

RoleAlter(e) ==
    /\ w.pc = "role" /\ e \in w.todo
    /\ IsRoleExist(pg[e], w.user)
    /\ pg' = [pg EXCEPT ![e] = AlterRoleAttributes(@, w.user, seen.attr)]
    /\ w' = [w EXCEPT !.pc = "password", !.at = <<w.user, e>>]
    /\ OnEngines /\ UNCHANGED mem

(* Mutant: the password of a role that exists is written only once.        *)
PasswordEnsuredOnce == mem.phase = ""

(* On a role that exists the password is written only when this very pass  *)
(* changed it, or when no pass ever completed.                             *)
PasswordEnsured == w.pwChanged \/ mem.phase = ""

RolePassword ==
    LET e == w.at[2]
    IN  /\ w.pc = "password"
        /\ pg' = [pg EXCEPT ![e] =
                    GrantToOperator(IF PasswordEnsured
                                    THEN UpdatePassword(@, w.user, w.pwd)
                                    ELSE @, w.user)]
        /\ w' = [w EXCEPT !.pc = "role", !.at = <<>>, !.todo = @ \ {e}]
        /\ OnEngines /\ UNCHANGED mem

(* The status fields a later deletion or rotation relies on, in memory.    *)
RecordRole ==
    /\ w.pc = "role" /\ w.todo = {}
    /\ mem' = [mem EXCEPT !.role = w.user,
                          !.prefix = seen.prefix,
                          !.last = IF w.pwChanged \/ w.userChanged \/ @ = Never
                                   THEN clock ELSE @]
    /\ w' = [w EXCEPT !.pc = "rights", !.todo = EnginesOf(w.dbs), !.left = w.dbs]
    /\ OnEngines /\ UNCHANGED pg

-----------------------------------------------------------------------------
(* managePGUserRights                                                      *)

DatabasesOn(e) == {d \in w.dbs : EngineOf[d] = e}
WantedGroup(d) == GroupRole(d, seen.privs[d])
WantedGroups(e) == {WantedGroup(d) : d \in DatabasesOn(e)}

(* The group role of a database never provisioned has no name yet.         *)
RightsOn(d) ==
    LET e == EngineOf[d]
        r == WantedGroup(d)
    IN  /\ w.pc = "rights" /\ d \in w.left
        /\ d \in w.ready
        /\ pg' = [pg EXCEPT ![e] =
                    AlterDefaultLoginRoleOnDatabase(GrantRole(@, r, w.user), w.user, r, d)]
        /\ w' = [w EXCEPT !.left = @ \ {d}]
        /\ OnEngines /\ UNCHANGED mem

RightsFail(d) ==
    /\ w.pc = "rights" /\ d \in w.left
    /\ d \notin w.ready
    /\ ManageError(orig, mem)
    /\ UNCHANGED <<cr, secretVars, dbs, engineVars, clock, seen, orig, boundVars>>

(* Mutant: memberships are only ever added.                                *)
LeftoverRolesNone(e) == {}

(* Mutant: of the databases that the privileges still name alone.          *)
LeftoverRolesListed(e) ==
    {g \in GetRoleMembership(pg[e], w.user) \ WantedGroups(e) :
       \E d \in w.dbs, p \in Privileges : g = GroupRole(d, p)}

(* What the user still has on the engine and is not wanted.  The settings  *)
(* left over are reset on the group role they name.                        *)
LeftoverRoles(e) == GetRoleMembership(pg[e], w.user) \ WantedGroups(e)
LeftoverSettings(e) ==
    {s \in GetSetRoleOnDatabasesRoleSettings(pg[e], w.user) : s[2] \notin w.dbs}
SettingsToReset(e) == {<<s[3], s[2]>> : s \in LeftoverSettings(e)}

RevokeOn(e) ==
    /\ w.pc = "rights" /\ e \in w.todo
    /\ DatabasesOn(e) \intersect w.left = {}
    /\ pg' = [pg EXCEPT ![e] =
                RevokeUserSetRoleOnDatabases(RevokeRoles(@, LeftoverRoles(e), w.user),
                                             SettingsToReset(e))]
    /\ w' = [w EXCEPT !.todo = @ \ {e}]
    /\ OnEngines /\ UNCHANGED mem

GoManageSecrets ==
    /\ w.pc = "rights" /\ w.todo = {}
    /\ w' = [w EXCEPT !.pc = "secrets", !.left = w.dbs]
    /\ OnEngines /\ UNCHANGED <<mem, pg>>

-----------------------------------------------------------------------------
(* manageSecrets, cleanOldSecrets and manageSuccess                        *)

(* Mutant: a secret that exists is left alone.                             *)
SecretOnCreateOnly(d) ==
    /\ w.pc = "secrets"
    /\ d \in w.left
    /\ gen' = [gen EXCEPT ![d] = IF @ = NoCredentials
                                 THEN [user |-> w.user, pwd |-> w.pwd] ELSE @]
    /\ w' = [w EXCEPT !.left = @ \ {d}]
    /\ UNCHANGED <<crVars, work, import, dbs, engineVars, clock, seen, orig, mem, boundVars>>

SecretOn(d) ==
    /\ w.pc = "secrets"
    /\ d \in w.left
    /\ gen' = [gen EXCEPT ![d] = [user |-> w.user, pwd |-> w.pwd]]
    /\ w' = [w EXCEPT !.left = @ \ {d}]
    /\ UNCHANGED <<crVars, work, import, dbs, engineVars, clock, seen, orig, mem, boundVars>>

(* Mutant: the secrets of removed privileges stay.                         *)
CleanOldSecretsKept ==
    /\ w.pc = "secrets"
    /\ w.left = {}
    /\ w' = [w EXCEPT !.pc = "success"]
    /\ UNCHANGED <<crVars, secretVars, dbs, engineVars, clock, seen, orig, mem, boundVars>>

CleanOldSecrets ==
    /\ w.pc = "secrets"
    /\ w.left = {}
    /\ gen' = [d \in Databases |-> IF d \in w.dbs THEN gen[d] ELSE NoCredentials]
    /\ w' = [w EXCEPT !.pc = "success"]
    /\ UNCHANGED <<crVars, work, import, dbs, engineVars, clock, seen, orig, mem, boundVars>>

ManageSuccess ==
    /\ w.pc = "success"
    /\ st' = StatusPatch(orig, [mem EXCEPT !.ready = TRUE, !.phase = "Created"])
    /\ EndPass
    /\ UNCHANGED <<cr, secretVars, dbs, engineVars, clock, seen, orig, boundVars>>

-----------------------------------------------------------------------------
(* Faults.  An SQL statement or a Kubernetes call returns an error: the    *)
(* pass ends in manageError.  A crash, a lost leader lease, or a status    *)
(* patch that fails loses everything the pass held in memory.              *)

Allowed(kind, budget) == kind \in budget.kinds /\ budget.left > 0
Spend(budget) == [budget EXCEPT !.left = @ - 1]

Fail ==
    /\ Allowed("error", faults)
    /\ w.pc \notin {"idle", "success"}
    /\ ManageError(orig, mem)
    /\ faults' = Spend(faults)
    /\ UNCHANGED <<cr, secretVars, dbs, engineVars, clock, seen, orig, edits>>

Crash ==
    /\ Allowed("crash", faults)
    /\ w.pc # "idle"
    /\ EndPass
    /\ faults' = Spend(faults)
    /\ UNCHANGED <<crVars, secretVars, dbs, engineVars, clock, seen, orig, edits>>

-----------------------------------------------------------------------------
(* The rest of the cluster: the administrator, the database controller,    *)
(* the applications and time.                                              *)

Edit(kind) ==
    /\ Allowed(kind, edits)
    /\ edits' = Spend(edits)
    /\ UNCHANGED <<st, pg, sess, clock, passVars, faults>>

EditSpec == cr.exists /\ ~cr.deleting /\ UNCHANGED <<secretVars, dbs>>

SetPrefix(prefix) ==
    /\ Edit("prefix") /\ EditSpec
    /\ cr' = [cr EXCEPT !.prefix = prefix]

SetPrivilege(d, privilege) ==
    /\ Edit("privileges") /\ EditSpec
    /\ cr' = [cr EXCEPT !.privs[d] = privilege]
    /\ PrivilegedDatabases(cr') # {}

SetAttributes(attr) ==
    /\ Edit("attributes") /\ EditSpec
    /\ cr' = [cr EXCEPT !.attr = attr]

(* Without a finalizer the resource is gone at once.                       *)
DeleteResource ==
    /\ Edit("delete") /\ EditSpec
    /\ cr' = [cr EXCEPT !.deleting = TRUE, !.exists = cr.finalizer]

DeleteWorkSecret ==
    /\ Edit("work") /\ work.exists
    /\ work' = NoWorkSecret
    /\ UNCHANGED <<cr, gen, import, dbs>>

RemoveWorkPassword ==
    /\ Edit("work") /\ work.exists
    /\ work' = [work EXCEPT !.pwd = NoPassword]
    /\ UNCHANGED <<cr, gen, import, dbs>>

RemoveWorkUser ==
    /\ Edit("workuser") /\ work.exists
    /\ work' = [work EXCEPT !.user = NoUser]
    /\ UNCHANGED <<cr, gen, import, dbs>>

DeleteGeneratedSecret(d) ==
    /\ Edit("generated")
    /\ gen[d] # NoCredentials
    /\ gen' = [gen EXCEPT ![d] = NoCredentials]
    /\ UNCHANGED <<cr, work, import, dbs>>

SetImport(user, pwd) ==
    /\ Edit("import")
    /\ import' = [user |-> user, pwd |-> pwd]
    /\ UNCHANGED <<cr, work, gen, dbs>>

CreateDatabase(d) ==
    /\ dbs[d] = "absent"
    /\ dbs' = [dbs EXCEPT ![d] = "pending"]
    /\ UNCHANGED <<crVars, secretVars, engineVars, clock, passVars, boundVars>>

ProvisionDatabase(d) ==
    /\ dbs[d] = "pending"
    /\ dbs' = [dbs EXCEPT ![d] = "ready"]
    /\ UNCHANGED <<crVars, secretVars, engineVars, clock, passVars, boundVars>>

Opens(e, c) == c.pwd # NoPassword /\ pg[e].pwd[c.user] = c.pwd

(* An application connects with what the generated secret holds.           *)
Connect(d) ==
    /\ gen[d] # NoCredentials
    /\ Opens(EngineOf[d], gen[d])
    /\ sess' = sess \union {<<EngineOf[d], gen[d].user>>}
    /\ UNCHANGED <<crVars, secretVars, dbs, pg, clock, passVars, boundVars>>

Disconnect(e, u) ==
    /\ <<e, u>> \in sess
    /\ sess' = sess \ {<<e, u>>}
    /\ UNCHANGED <<crVars, secretVars, dbs, pg, clock, passVars, boundVars>>

Tick ==
    /\ clock < MaxClock
    /\ clock' = clock + 1
    /\ UNCHANGED <<crVars, secretVars, dbs, engineVars, passVars, boundVars>>

-----------------------------------------------------------------------------
Init ==
    /\ \E plan \in Plans :
         /\ cr = plan.cr
         /\ import = plan.import
         /\ dbs = plan.dbs
         /\ edits = plan.edits
         /\ faults = plan.faults
    /\ st = NoStatus
    /\ work = NoWorkSecret
    /\ gen = [d \in Databases |-> NoCredentials]
    /\ pg = [e \in Engines |-> EmptyEngine]
    /\ sess = {}
    /\ clock = 1
    /\ seen = cr
    /\ orig = NoStatus
    /\ mem = NoStatus
    /\ w = NoPass

Begin == \E copy \in CacheCopies :
    \/ BeginNotFound(copy[1], copy[2])
    \/ BeginDeletion(copy[1], copy[2])
    \/ BeginMissing(copy[1], copy[2])
    \/ BeginWait(copy[1], copy[2])
    \/ BeginFinalizer(copy[1], copy[2])
    \/ BeginWork(copy[1], copy[2])

WorkSecret ==
    \/ ManagedCreate
    \/ ManagedReplace
    \/ ManagedRotate
    \/ ManagedBlocked
    \/ ManagedKeep
    \/ ProvidedCreate
    \/ ProvidedReplace
    \/ ProvidedKeep

DropOldRoles ==
    \/ \E u \in Users, e \in Engines :
         \/ DropAbsent(u, e)
         \/ DropPostponed(u, e)
         \/ DropDecided(u, e)
    \/ DropNow
    \/ DropFails
    \/ StopOnOldRoles
    \/ GoFinalize
    \/ GoManageRoles
    \/ Finalize

ManageRoles ==
    \/ \E e \in Engines : RoleCreate(e) \/ RoleAlter(e)
    \/ RolePassword
    \/ RecordRole

ManageRights ==
    \/ \E d \in Databases : RightsOn(d) \/ RightsFail(d)
    \/ \E e \in Engines : RevokeOn(e)
    \/ GoManageSecrets

ManageSecrets ==
    \/ \E d \in Databases : SecretOn(d)
    \/ CleanOldSecrets
    \/ ManageSuccess

Pass == Begin \/ WorkSecret \/ DropOldRoles \/ ManageRoles \/ ManageRights \/ ManageSecrets

Environment ==
    \/ \E prefix \in Prefixes : SetPrefix(prefix)
    \/ \E d \in Databases, p \in Privileges \union {NoPrivilege} : SetPrivilege(d, p)
    \/ \E attr \in Attributes : SetAttributes(attr)
    \/ DeleteResource
    \/ DeleteWorkSecret
    \/ RemoveWorkPassword
    \/ RemoveWorkUser
    \/ \E d \in Databases : DeleteGeneratedSecret(d)
    \/ \E u \in ImportUsers \X {""}, p \in ImportPasswords : SetImport(u, p)
    \/ \E d \in Databases : CreateDatabase(d) \/ ProvisionDatabase(d) \/ Connect(d)
    \/ \E e \in Engines, u \in Users : Disconnect(e, u)
    \/ Tick

Next == Pass \/ Fail \/ Crash \/ Environment

Spec == Init /\ [][Next]_vars

(* The watch delivers in the end: a pass reads the stored copy.            *)
BeginFresh == Begin /\ seen' = cr /\ orig' = st

(* The manager resyncs every resource once a minute and retries a pass     *)
(* that returned an error; databases get provisioned, time passes, and a   *)
(* client session ends.                                                    *)
Fairness ==
    /\ WF_vars(Pass)
    /\ SF_vars(BeginFresh)
    /\ WF_vars(Tick)
    /\ WF_vars(\E d \in Databases : CreateDatabase(d) \/ ProvisionDatabase(d))
    /\ \A e \in Engines, u \in Users : WF_vars(Disconnect(e, u))

FairSpec == Spec /\ Fairness

-----------------------------------------------------------------------------
(* Properties.                                                             *)

Statuses == [phase : {"", "Created", "Failed"}, ready : BOOLEAN,
             role : Users \union {NoUser}, old : SUBSET Users,
             prefix : Prefixes \union {NoPrefix}, last : Nat]
WorkSecrets == [exists : BOOLEAN, user : Users \union {NoUser},
                pwd : Passwords \union {NoPassword}]
EngineStates == [pwd : [Users -> Passwords \union {NoPassword}],
                 attr : [Users -> Attributes \union {NoAttributes}],
                 member : SUBSET (Users \X Groups),
                 granted : SUBSET Users,
                 setting : SUBSET (Users \X Databases \X Groups)]
Positions == {"idle", "work", "drop", "dropping", "role", "password", "rights",
              "secrets", "success", "finalize"}
Passes == [pc : Positions, user : Users \union {NoUser},
           pwd : Passwords \union {NoPassword},
           pwChanged : BOOLEAN, userChanged : BOOLEAN, rotErr : BOOLEAN,
           dbs : SUBSET Databases, ready : SUBSET Databases,
           pairs : SUBSET (Users \X Engines), kept : SUBSET Users,
           todo : SUBSET Engines, left : SUBSET Databases,
           at : (Users \X Engines) \union {<<>>}]

(* Every variable keeps its type; a step that has its role and engine at   *)
(* hand really has one.                                                    *)
TypeOK ==
    /\ cr \in Resources /\ seen \in Resources
    /\ st \in Statuses /\ orig \in Statuses /\ mem \in Statuses
    /\ work \in WorkSecrets
    /\ gen \in [Databases -> Credentials]
    /\ import \in Credentials
    /\ dbs \in [Databases -> Presence]
    /\ pg \in [Engines -> EngineStates]
    /\ sess \subseteq Engines \X Users
    /\ clock \in Nat
    /\ w \in Passes
    /\ w.pc \in {"dropping", "password"} => w.at \in Users \X Engines
    /\ edits \in Budgets(EditKinds)
    /\ faults \in Budgets(FaultKinds)

(* A pass about to report Ready.                                           *)
Succeeding == w.pc = "success"

(* When a pass reports Ready, the credentials in every published secret    *)
(* open the engine of its database.                                        *)
PublishedWorks ==
    Succeeding => \A d \in Databases :
                    gen[d] # NoCredentials => Opens(EngineOf[d], gen[d])

(* ... every privilege has its secret, for the role the status is about to *)
(* call current, and no other secret is left.                              *)
SecretsMatch ==
    Succeeding => \A d \in Databases :
                    gen[d].user = IF d \in PrivilegedDatabases(seen)
                                  THEN mem.role ELSE NoUser

(* ... every login role left on an engine is the current role or one the   *)
(* status still remembers to drop.                                         *)
NoOrphanRole ==
    Succeeding => \A e \in Engines, u \in Users :
                    IsRoleExist(pg[e], u) => u \in mem.old \union {mem.role}

WantedOn(e) == {d \in PrivilegedDatabases(seen) : EngineOf[d] = e}

(* ... the current role is a member of exactly the group roles that the    *)
(* privileges name.                                                        *)
RightsMatch ==
    Succeeding => \A e \in EnginesOf(PrivilegedDatabases(seen)) :
                    GetRoleMembership(pg[e], mem.role) =
                      {GroupRole(d, seen.privs[d]) : d \in WantedOn(e)}

(* ... and the default role of its sessions is set on these databases only.*)
SettingsMatch ==
    Succeeding => \A e \in EnginesOf(PrivilegedDatabases(seen)) :
                    GetSetRoleOnDatabasesRoleSettings(pg[e], mem.role) =
                      {<<mem.role, d, GroupRole(d, seen.privs[d])>> : d \in WantedOn(e)}

(* A deleted resource leaves no login role behind.                         *)
NothingLeft ==
    ~cr.exists => \A e \in Engines, u \in Users : ~IsRoleExist(pg[e], u)

(* A rotation never changes the password of a role that has open sessions: *)
(* only an edit of a secret does.                                          *)
LiveRoleUntouched ==
    [][edits.kinds = {} => \A s \in sess \intersect sess' :
          pg'[s[1]].pwd[s[2]] = pg[s[1]].pwd[s[2]]]_vars

Dropped(e, u) == IsRoleExist(pg[e], u) /\ pg'[e].pwd[u] = NoPassword

(* No role is dropped under an open session.                               *)
NoDropUnderSession ==
    [][\A e \in Engines, u \in Users : Dropped(e, u) => <<e, u>> \notin sess]_vars

(* No role is dropped as long as a generated secret publishes it, unless   *)
(* the resource is being deleted.                                          *)
PublishedRoleKept ==
    [][\A d \in Databases :
          gen[d] # NoCredentials /\ Dropped(EngineOf[d], gen[d].user) => seen.deleting]_vars

(* Unless the resource is being deleted, the role the work secret holds is *)
(* never dropped.                                                          *)
CurrentRoleKept ==
    [][\A e \in Engines, u \in Users :
          Dropped(e, u) => (seen.deleting \/ u # work.user)]_vars

(* What the resource asks for is in place.                                 *)
Healthy ==
    /\ st.ready
    /\ \A d \in PrivilegedDatabases(cr) :
         /\ gen[d] = [user |-> work.user, pwd |-> work.pwd]
         /\ Opens(EngineOf[d], gen[d])
         /\ pg[EngineOf[d]].attr[work.user] = cr.attr
         /\ <<work.user, GroupRole(d, cr.privs[d])>> \in pg[EngineOf[d]].member

(* Once edits, rotations and faults are over, everything ends up in place, *)
(* and the old roles go.                                                   *)
Converges == []<>Healthy /\ <>[](st.old = {})

(* ... with rotations at least when the applications leave the engine      *)
(* alone.                                                                  *)
ConvergesUnused == (cr.period # 0 => <>[](sess = {})) => Converges

(* Secrets and memberships are those of the privileges as they now are.    *)
Settled ==
    /\ \A d \in Databases :
         gen[d].user = IF d \in PrivilegedDatabases(cr) THEN work.user ELSE NoUser
    /\ \A e \in Engines :
         GetRoleMembership(pg[e], work.user) =
           {GroupRole(d, cr.privs[d]) : d \in {x \in PrivilegedDatabases(cr) : EngineOf[x] = e}}

(* Privileges and prefix may be edited at any point of a pass, also after  *)
(* it has computed what to revoke or has written its secrets, and the pass *)
(* may fail: once the edits are over, what the last one took away is gone  *)
(* for good, and what it asks for is there for good.                       *)
EditsSettle == []<>cr.deleting \/ <>[]Settled

(* A deletion that was asked for completes, if the applications end up     *)
(* leaving the engine alone.                                               *)
DeletionCompletes == <>[](sess = {}) => (cr.deleting ~> ~cr.exists)
=============================================================================
