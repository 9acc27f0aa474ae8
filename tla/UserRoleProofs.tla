--------------------------- MODULE UserRoleProofs ---------------------------
(***************************************************************************)
(* Proofs about UserRole, for any engines, databases, prefixes, edits and  *)
(* faults.                                                                 *)
(***************************************************************************)
EXTENDS UserRole, TLAPS

-----------------------------------------------------------------------------
(* The role statements map an engine to an engine.                         *)

LEMMA RoleStatementsType ==
    ASSUME NEW g \in EngineStates, NEW u \in Users
    PROVE  /\ \A password \in Passwords \union {NoPassword}, attributes \in Attributes :
                CreateUserRole(g, u, password, attributes) \in EngineStates
           /\ \A attributes \in Attributes : AlterRoleAttributes(g, u, attributes) \in EngineStates
           /\ \A password \in Passwords \union {NoPassword} :
                UpdatePassword(g, u, password) \in EngineStates
           /\ GrantToOperator(g, u) \in EngineStates
           /\ DropRole(g, u) \in EngineStates
BY DEF EngineStates, CreateUserRole, AlterRoleAttributes, UpdatePassword,
       GrantToOperator, DropRole

LEMMA RightStatementsType ==
    ASSUME NEW g \in EngineStates, NEW u \in Users, NEW d \in Databases, NEW r \in Groups
    PROVE  /\ GrantRole(g, r, u) \in EngineStates
           /\ AlterDefaultLoginRoleOnDatabase(g, u, r, d) \in EngineStates
<1>1. <<u, r>> \in Users \X Groups /\ <<u, d, r>> \in Users \X Databases \X Groups
  OBVIOUS
<1>2. GrantRole(g, r, u) \in EngineStates
  BY <1>1 DEF EngineStates, GrantRole
<1>3. AlterDefaultLoginRoleOnDatabase(g, u, r, d) \in EngineStates
  BY <1>1 DEF EngineStates, AlterDefaultLoginRoleOnDatabase
<1> QED BY <1>2, <1>3

LEMMA RevokeStatementsType ==
    ASSUME NEW g \in EngineStates, NEW u \in Users, NEW R, NEW P
    PROVE  RevokeUserSetRoleOnDatabases(RevokeRoles(g, R, u), P) \in EngineStates
<1>1. RevokeRoles(g, R, u) \in EngineStates
  BY DEF EngineStates, RevokeRoles
<1>2. ASSUME NEW h \in EngineStates PROVE RevokeUserSetRoleOnDatabases(h, P) \in EngineStates
  BY DEF EngineStates, RevokeUserSetRoleOnDatabases
<1> QED BY <1>1, <1>2

-----------------------------------------------------------------------------
(* A pass that writes roles has a username at hand.                        *)
UserInHand ==
    /\ ImportUsers # {} => import.user \in Users
    /\ w.pc \in {"role", "password", "rights", "secrets", "success"} => w.user \in Users
    /\ w.pc \in {"drop", "dropping"} /\ ~seen.deleting => w.user \in Users
    /\ w.pc \in {"work", "role", "password", "rights", "secrets", "success"} => ~seen.deleting

TInv == TypeOK /\ UserInHand

LEMMA ValuesType ==
    /\ NoStatus \in Statuses
    /\ NoPass \in Passes /\ NoPass.pc = "idle"
    /\ NoWorkSecret \in WorkSecrets
    /\ NoCredentials \in Credentials
    /\ EmptyEngine \in EngineStates
BY DEF NoStatus, Statuses, Never, NoPass, Passes, Positions, NoWorkSecret, WorkSecrets,
       NoCredentials, Credentials, EmptyEngine, EngineStates

LEMMA StatusPatchType ==
    ASSUME TypeOK, NEW o \in Statuses, NEW m \in Statuses
    PROVE  StatusPatch(o, m) \in Statuses
BY DEF TypeOK, StatusPatch, Merged, Statuses

LEMMA ManageErrorType ==
    ASSUME TypeOK, NEW o \in Statuses, NEW m \in Statuses, ManageError(o, m)
    PROVE  st' \in Statuses /\ mem' \in Statuses /\ w' \in Passes /\ w'.pc = "idle"
<1>1. [m EXCEPT !.ready = FALSE, !.phase = "Failed"] \in Statuses
  BY DEF Statuses
<1> QED BY <1>1, StatusPatchType, ValuesType DEF ManageError, EndPass

LEMMA ExistingDatabasesType ==
    ASSUME NEW c
    PROVE  /\ ExistingDatabases(c) \in SUBSET Databases
           /\ ReadyDatabases(c) \in SUBSET Databases
           /\ EnginesOf(ExistingDatabases(c)) \in SUBSET Engines
BY EngineOfAssumption DEF ExistingDatabases, ReadyDatabases, PrivilegedDatabases, EnginesOf

LEMMA EnginesOfType ==
    ASSUME NEW D \in SUBSET Databases
    PROVE  EnginesOf(D) \in SUBSET Engines
BY EngineOfAssumption DEF EnginesOf

LEMMA NewPassType ==
    ASSUME NEW c, NEW old \in SUBSET Users, NEW pc \in Positions
    PROVE  NewPass(pc, c, old) \in Passes /\ NewPass(pc, c, old).pc = pc
<1>1. old \X EnginesOf(ExistingDatabases(c)) \in SUBSET (Users \X Engines)
  BY ExistingDatabasesType
<1> QED BY <1>1, ExistingDatabasesType, ValuesType DEF NewPass, Passes, NoPass

LEMMA InitType == Init => TInv
<1> SUFFICES ASSUME Init PROVE TInv
  OBVIOUS
<1>1. PICK plan \in Plans :
        /\ cr = plan.cr /\ import = plan.import /\ dbs = plan.dbs
        /\ edits = plan.edits /\ faults = plan.faults
  BY DEF Init
<1>2. /\ cr \in Resources /\ import \in Credentials
      /\ ImportUsers # {} => import.user \in Users
      /\ dbs \in [Databases -> Presence]
      /\ edits \in Budgets(EditKinds) /\ faults \in Budgets(FaultKinds)
  BY <1>1, PlansAssumption
<1>3. TypeOK
  <2>1. seen = cr /\ st = NoStatus /\ orig = NoStatus /\ mem = NoStatus /\ w = NoPass
    BY DEF Init
  <2>2. /\ work = NoWorkSecret /\ sess = {} /\ clock = 1
        /\ gen = [d \in Databases |-> NoCredentials]
        /\ pg = [e \in Engines |-> EmptyEngine]
    BY DEF Init
  <2>5. gen \in [Databases -> Credentials] /\ pg \in [Engines -> EngineStates]
    BY <2>2, ValuesType
  <2>6. w.pc \in {"dropping", "password"} => w.at \in Users \X Engines
    BY <2>1, ValuesType
  <2> QED BY <1>2, <2>1, <2>2, <2>5, <2>6, ValuesType DEF TypeOK
<1>4. UserInHand
  BY <1>2, ValuesType DEF Init, UserInHand
<1> QED BY <1>3, <1>4 DEF TInv

(* A pass that ends leaves the types in place.                             *)
LEMMA EndsWithError ==
    ASSUME TInv, NEW o \in Statuses, NEW m \in Statuses, ManageError(o, m),
           seen' \in Resources, orig' \in Statuses, cr' \in Resources,
           work' \in WorkSecrets, gen' \in [Databases -> Credentials],
           UNCHANGED <<import, dbs, engineVars, clock, edits>>, faults' \in Budgets(FaultKinds)
    PROVE  TInv'
<1>1. st' \in Statuses /\ mem' \in Statuses /\ w' \in Passes /\ w'.pc = "idle"
  BY ManageErrorType DEF TInv
<1> QED BY <1>1 DEF TInv, TypeOK, UserInHand, engineVars

LEMMA CacheCopiesType ==
    ASSUME TypeOK, NEW copy \in CacheCopies
    PROVE  copy[1] \in Resources /\ copy[2] \in Statuses
<1>1. copy = <<cr, st>> \/ copy = <<seen, orig>>
  BY DEF CacheCopies
<1>2. (copy[1] = cr /\ copy[2] = st) \/ (copy[1] = seen /\ copy[2] = orig)
  BY <1>1
<1> QED BY <1>2 DEF TypeOK

LEMMA BeginType ==
    ASSUME TInv, NEW c \in Resources, NEW s \in Statuses,
           \/ BeginNotFound(c, s) \/ BeginDeletion(c, s) \/ BeginMissing(c, s)
           \/ BeginWait(c, s) \/ BeginFinalizer(c, s) \/ BeginWork(c, s)
    PROVE  TInv'
<1> USE DEF Read, secretVars, engineVars, boundVars, crVars
<1>r. w.pc = "idle" /\ seen' = c /\ orig' = s
  BY DEF BeginNotFound, BeginDeletion, BeginMissing, BeginWait, BeginFinalizer, BeginWork
<1>1. CASE BeginNotFound(c, s)
  BY <1>1, <1>r DEF BeginNotFound, TInv, TypeOK, UserInHand
<1>2. CASE BeginDeletion(c, s)
  <2> DEFINE old == s.old \union ({s.role} \ {NoUser})
  <2>1. old \in SUBSET Users
    BY DEF Statuses
  <2>2. mem' \in Statuses
    BY <1>2, <2>1 DEF BeginDeletion, Statuses
  <2>3. w' \in Passes /\ w'.pc = "drop"
    <3>1. w' = NewPass("drop", c, old) /\ "drop" \in Positions
      BY <1>2 DEF BeginDeletion, Positions
    <3> QED BY <2>1, <3>1, NewPassType
  <2>4. c.deleting
    BY <1>2 DEF BeginDeletion
  <2> QED BY <1>2, <1>r, <2>2, <2>3, <2>4 DEF BeginDeletion, TInv, TypeOK, UserInHand
<1>3. CASE BeginMissing(c, s)
  BY <1>3, <1>r, EndsWithError DEF BeginMissing, TInv, TypeOK
<1>4. CASE BeginWait(c, s)
  BY <1>4, <1>r DEF BeginWait, TInv, TypeOK, UserInHand
<1>5. CASE BeginFinalizer(c, s)
  <2>1. CASE c = cr /\ s = st
    <3>1. cr' \in Resources
      <4>1. cr' = [cr EXCEPT !.finalizer = TRUE] /\ cr \in Resources
        BY <1>5, <2>1 DEF BeginFinalizer, TInv, TypeOK
      <4> QED BY <4>1 DEF Resources
    <3> QED BY <1>5, <1>r, <2>1, <3>1 DEF BeginFinalizer, TInv, TypeOK, UserInHand
  <2>2. CASE ~(c = cr /\ s = st)
    BY <1>5, <1>r, <2>2, EndsWithError DEF BeginFinalizer, TInv, TypeOK
  <2> QED BY <2>1, <2>2
<1>6. CASE BeginWork(c, s)
  <2>1. w' \in Passes /\ w'.pc = "work" /\ ~c.deleting
    <3>1. w' = NewPass("work", c, {}) /\ "work" \in Positions /\ ~c.deleting
      BY <1>6 DEF BeginWork, Positions
    <3>2. {} \in SUBSET Users
      OBVIOUS
    <3>3. NewPass("work", c, {}) \in Passes /\ NewPass("work", c, {}).pc = "work"
      BY <3>1, <3>2, NewPassType
    <3> QED BY <3>1, <3>3
  <2> QED BY <1>6, <1>r, <2>1 DEF BeginWork, TInv, TypeOK, UserInHand
<1> QED BY <1>1, <1>2, <1>3, <1>4, <1>5, <1>6

LEMMA ProceedType ==
    ASSUME TInv, w.pc = "work", NEW user \in Users, NEW pwd \in Passwords \union {NoPassword},
           NEW oldUser \in Users \union {NoUser}, NEW pwChanged \in BOOLEAN,
           NEW rotErr \in BOOLEAN, Proceed(user, pwd, oldUser, pwChanged, rotErr),
           work' \in WorkSecrets,
           UNCHANGED <<crVars, gen, import, dbs, engineVars, clock, seen, orig, boundVars>>
    PROVE  TInv'
<1> DEFINE userChanged == oldUser \notin {user, NoUser}
<1> DEFINE old == IF userChanged THEN mem.old \union {oldUser} ELSE mem.old
<1>1. mem \in Statuses /\ w \in Passes /\ w.dbs \in SUBSET Databases
  BY DEF TInv, TypeOK, Passes
<1>2. old \in SUBSET Users /\ userChanged \in BOOLEAN
  BY <1>1 DEF Statuses
<1>3. mem' \in Statuses
  BY <1>1, <1>2 DEF Proceed, Statuses
<1>4. old \X EnginesOf(w.dbs) \in SUBSET (Users \X Engines)
  BY <1>1, <1>2, EnginesOfType
<1>5. w' \in Passes /\ w'.pc = "drop" /\ w'.user = user
  <2> DEFINE w1 == [w EXCEPT !.pc = "drop", !.user = user, !.pwd = pwd]
             w2 == [w1 EXCEPT !.pwChanged = pwChanged, !.userChanged = userChanged]
             w3 == [w2 EXCEPT !.rotErr = rotErr, !.pairs = old \X EnginesOf(w.dbs)]
  <2>1. w' = w3
    BY DEF Proceed
  <2> HIDE DEF old, userChanged
  <2>2. w1 \in Passes /\ w1.pc = "drop" /\ w1.user = user
    BY <1>1 DEF Passes, Positions
  <2> HIDE DEF w1
  <2>3. w2 \in Passes /\ w2.pc = "drop" /\ w2.user = user
    BY <1>2, <2>2 DEF Passes
  <2> HIDE DEF w2
  <2>4. w3 \in Passes /\ w3.pc = "drop" /\ w3.user = user
    BY <1>4, <2>3 DEF Passes
  <2> QED BY <2>1, <2>4
<1> QED BY <1>3, <1>5 DEF TInv, TypeOK, UserInHand, crVars, engineVars, boundVars

LEMMA FreshPasswordType == Passwords \ PasswordsInUse # {} => FreshPassword \in Passwords
BY DEF FreshPassword

LEMMA WorkSecretType ==
    ASSUME TInv, WorkSecret
    PROVE  TInv'
<1> USE DEF TInv
<1>1. ASSUME AtWorkSecret
      PROVE  /\ w.pc = "work"
             /\ UNCHANGED <<crVars, gen, import, dbs, engineVars, clock, seen, orig, boundVars>>
  BY <1>1 DEF AtWorkSecret
<1>2. ASSUME NEW user \in Users \union {NoUser}, NEW pwd \in Passwords \union {NoPassword},
             WriteWorkSecret(user, pwd)
      PROVE  work' \in WorkSecrets
  BY <1>2 DEF WriteWorkSecret, WorkSecrets
<1>3. /\ work.user \in Users \union {NoUser} /\ work.pwd \in Passwords \union {NoPassword}
      /\ work \in WorkSecrets
      /\ seen.prefix \in Prefixes
      /\ mem.role \in Users \union {NoUser}
      /\ import.user \in Users \union {NoUser} /\ import.pwd \in Passwords \union {NoPassword}
      /\ seen.mode = "PROVIDED" => import.user \in Users
      /\ NoUser \in Users \union {NoUser}
  BY DEF TypeOK, WorkSecrets, Resources, Modes, Statuses, Credentials, UserInHand
<1>4. /\ ManagedUser(seen.prefix) \in Users
      /\ NextUser(seen.prefix, work.user) \in Users
  BY <1>3 DEF ManagedUser, NextUser, Users, Suffixes
<1>5. ASSUME NEW user \in Users, NEW pwd \in Passwords \union {NoPassword},
             CreateWorkSecret(user, pwd)
      PROVE  TInv'
  <2> DEFINE renamed == mem.phase # "" /\ mem.role \notin {NoUser, user}
  <2>1. /\ AtWorkSecret /\ WriteWorkSecret(user, pwd)
        /\ Proceed(user, pwd, IF renamed THEN mem.role ELSE NoUser,
                   mem.phase # "" /\ ~renamed, FALSE)
    BY <1>5 DEF CreateWorkSecret
  <2>2. (IF renamed THEN mem.role ELSE NoUser) \in Users \union {NoUser}
    BY <1>3
  <2> QED BY <1>1, <1>2, <2>1, <2>2, ProceedType
<1>6. CASE ManagedCreate
  BY <1>4, <1>5, <1>6, FreshPasswordType DEF ManagedCreate
<1>7. CASE ManagedReplace
  BY <1>1, <1>2, <1>3, <1>4, <1>7, FreshPasswordType, ProceedType DEF ManagedReplace
<1>8. CASE ManagedRotate
  BY <1>1, <1>2, <1>3, <1>4, <1>8, FreshPasswordType, ProceedType DEF ManagedRotate
<1>9. CASE ManagedBlocked
  BY <1>1, <1>3, <1>9, ProceedType DEF ManagedBlocked, WorkSecretEdited
<1>10. CASE ManagedKeep
  BY <1>1, <1>3, <1>10, ProceedType DEF ManagedKeep, WorkSecretEdited
<1>11. CASE ProvidedCreate
  BY <1>3, <1>5, <1>11 DEF ProvidedCreate
<1>12. CASE ProvidedReplace
  <2>1. (work.pwd # import.pwd) \in BOOLEAN
    OBVIOUS
  <2> QED BY <1>1, <1>2, <1>3, <1>12, <2>1, ProceedType DEF ProvidedReplace
<1>13. CASE ProvidedKeep
  BY <1>1, <1>3, <1>13, ProceedType DEF ProvidedKeep
<1> QED BY <1>6, <1>7, <1>8, <1>9, <1>10, <1>11, <1>12, <1>13 DEF WorkSecret

LEMMA DropOldRolesType ==
    ASSUME TInv, DropOldRoles
    PROVE  TInv'
<1> USE DEF TInv, OldRoles, crVars, secretVars, engineVars, boundVars
<1>w. w \in Passes /\ mem \in Statuses
  BY DEF TypeOK
<1>1. ASSUME NEW u \in Users, NEW e \in Engines, DropAbsent(u, e)
      PROVE  TInv'
  <2>1. w' \in Passes /\ w'.pc = "drop" /\ w'.user = w.user /\ w.pc = "drop"
    BY <1>w, <1>1 DEF DropAbsent, Examine, Passes
  <2> QED BY <1>1, <2>1 DEF DropAbsent, Examine, TypeOK, UserInHand
<1>2. ASSUME NEW u \in Users, NEW e \in Engines, DropPostponed(u, e)
      PROVE  TInv'
  <2>1. w' \in Passes /\ w'.pc = "drop" /\ w'.user = w.user /\ w.pc = "drop"
    BY <1>w, <1>2 DEF DropPostponed, Examine, Passes
  <2> QED BY <1>2, <2>1 DEF DropPostponed, Examine, TypeOK, UserInHand
<1>3. ASSUME NEW u \in Users, NEW e \in Engines, DropDecided(u, e)
      PROVE  TInv'
  <2>1. w' = [w EXCEPT !.pc = "dropping", !.at = <<u, e>>] /\ w.pc = "drop"
    BY <1>3 DEF DropDecided, Examine
  <2>2. <<u, e>> \in Users \X Engines
    OBVIOUS
  <2>3. w' \in Passes /\ w'.pc = "dropping" /\ w'.user = w.user /\ w'.at = <<u, e>>
    BY <1>w, <2>1, <2>2 DEF Passes, Positions
  <2> QED BY <1>3, <2>1, <2>2, <2>3 DEF DropDecided, Examine, TypeOK, UserInHand
<1>4. CASE DropNow
  <2>1. w.at \in Users \X Engines /\ w.pc = "dropping"
    BY <1>4 DEF DropNow, TypeOK
  <2>2. PICK u \in Users, e \in Engines : u = w.at[1] /\ e = w.at[2]
    BY <2>1
  <2>3. pg' = [pg EXCEPT ![e] = DropRole(@, u)] /\ sess' = sess \ {<<e, u>>}
    BY <1>4, <2>2 DEF DropNow
  <2>4. pg' \in [Engines -> EngineStates]
    BY <2>3, RoleStatementsType DEF TypeOK
  <2>5. w' \in Passes /\ w'.pc = "drop" /\ w'.user = w.user
    BY <1>w, <1>4 DEF DropNow, Passes, Positions
  <2> QED BY <1>4, <2>1, <2>3, <2>4, <2>5 DEF DropNow, TypeOK, UserInHand
<1>5. CASE DropFails
  BY <1>5, EndsWithError DEF DropFails, TypeOK
<1>6. CASE StopOnOldRoles
  <2>1. [mem EXCEPT !.old = w.kept] \in Statuses
    BY <1>w DEF Passes, Statuses
  <2> QED BY <1>6, <2>1, EndsWithError DEF StopOnOldRoles, TypeOK
<1>7. CASE GoFinalize
  <2>1. mem' \in Statuses
    BY <1>w, <1>7 DEF GoFinalize, Passes, Statuses
  <2>2. w' \in Passes /\ w'.pc = "finalize"
    BY <1>w, <1>7 DEF GoFinalize, Passes, Positions
  <2> QED BY <1>7, <2>1, <2>2 DEF GoFinalize, TypeOK, UserInHand
<1>8. CASE GoManageRoles
  <2>1. mem' \in Statuses
    BY <1>w, <1>8 DEF GoManageRoles, Passes, Statuses
  <2>2. EnginesOf(w.dbs) \in SUBSET Engines
    BY <1>w, EnginesOfType DEF Passes
  <2>3. w' \in Passes /\ w'.pc = "role" /\ w'.user = w.user
    BY <1>w, <1>8, <2>2 DEF GoManageRoles, Passes, Positions
  <2>4. w.user \in Users /\ ~seen.deleting
    BY <1>8 DEF GoManageRoles, AllExamined, UserInHand
  <2> QED BY <1>8, <2>1, <2>3, <2>4 DEF GoManageRoles, TypeOK, UserInHand
<1>9. CASE Finalize
  <2>1. CASE seen = cr /\ orig = st
    <3>1. cr' = [cr EXCEPT !.exists = FALSE, !.finalizer = FALSE] /\ cr \in Resources
      BY <1>9, <2>1 DEF Finalize, TypeOK
    <3>2. cr' \in Resources
      BY <3>1 DEF Resources
    <3>3. gen' \in [Databases -> Credentials]
      BY <1>9, <2>1, ValuesType DEF Finalize
    <3> QED BY <1>9, <2>1, <3>2, <3>3, ValuesType DEF Finalize, EndPass, TypeOK, UserInHand
  <2>2. CASE ~(seen = cr /\ orig = st)
    BY <1>9, <2>2, EndsWithError DEF Finalize, TypeOK
  <2> QED BY <2>1, <2>2
<1> QED BY <1>1, <1>2, <1>3, <1>4, <1>5, <1>6, <1>7, <1>8, <1>9 DEF DropOldRoles

LEMMA ManageRolesType ==
    ASSUME TInv, ManageRoles
    PROVE  TInv'
<1> USE DEF TInv, OnEngines, crVars, secretVars, engineVars, boundVars
<1>w. w \in Passes /\ mem \in Statuses /\ seen.attr \in Attributes
  BY DEF TypeOK, Resources
<1>p. w.pwd \in Passwords \union {NoPassword} /\ w.todo \in SUBSET Engines
  BY <1>w DEF Passes
<1>1. ASSUME NEW e \in Engines, RoleCreate(e)
      PROVE  TInv'
  <2>1. w.pc = "role" /\ w.user \in Users /\ ~seen.deleting
    BY <1>1 DEF RoleCreate, UserInHand
  <2>2. pg' \in [Engines -> EngineStates]
    BY <1>1, <1>w, <1>p, <2>1, RoleStatementsType DEF RoleCreate, TypeOK
  <2>3. w' \in Passes /\ w'.pc = "role" /\ w'.user = w.user
    BY <1>1, <1>w DEF RoleCreate, Passes
  <2> QED BY <1>1, <2>1, <2>2, <2>3 DEF RoleCreate, TypeOK, UserInHand
<1>2. ASSUME NEW e \in Engines, RoleAlter(e)
      PROVE  TInv'
  <2>1. w.pc = "role" /\ w.user \in Users /\ ~seen.deleting
    BY <1>2 DEF RoleAlter, UserInHand
  <2>2. pg' \in [Engines -> EngineStates]
    BY <1>2, <1>w, <2>1, RoleStatementsType DEF RoleAlter, TypeOK
  <2>3. <<w.user, e>> \in Users \X Engines
    BY <2>1
  <2>4. w' \in Passes /\ w'.pc = "password" /\ w'.user = w.user /\ w'.at = <<w.user, e>>
    BY <1>2, <1>w, <2>3 DEF RoleAlter, Passes, Positions
  <2> QED BY <1>2, <2>1, <2>2, <2>3, <2>4 DEF RoleAlter, TypeOK, UserInHand
<1>3. CASE RolePassword
  <2>1. w.pc = "password" /\ w.user \in Users /\ ~seen.deleting
    BY <1>3 DEF RolePassword, UserInHand
  <2>2. PICK e \in Engines : e = w.at[2]
    BY <2>1 DEF TypeOK
  <2>3. pg' = [pg EXCEPT ![e] =
                 GrantToOperator(IF PasswordEnsured THEN UpdatePassword(@, w.user, w.pwd)
                                 ELSE @, w.user)]
    BY <1>3, <2>2 DEF RolePassword
  <2>4. pg' \in [Engines -> EngineStates]
    BY <1>p, <2>1, <2>3, RoleStatementsType DEF TypeOK
  <2>5. w' \in Passes /\ w'.pc = "role" /\ w'.user = w.user
    BY <1>3, <1>w DEF RolePassword, Passes, Positions
  <2> QED BY <1>3, <2>1, <2>4, <2>5 DEF RolePassword, TypeOK, UserInHand
<1>4. CASE RecordRole
  <2>1. w.pc = "role" /\ w.user \in Users /\ ~seen.deleting
    BY <1>4 DEF RecordRole, UserInHand
  <2>2. seen.prefix \in Prefixes /\ clock \in Nat
    BY DEF TypeOK, Resources
  <2>3. mem' \in Statuses
    BY <1>4, <1>w, <2>1, <2>2 DEF RecordRole, Statuses
  <2>4. EnginesOf(w.dbs) \in SUBSET Engines
    BY <1>w, EnginesOfType DEF Passes
  <2>5. w' \in Passes /\ w'.pc = "rights" /\ w'.user = w.user
    BY <1>4, <1>w, <2>4 DEF RecordRole, Passes, Positions
  <2> QED BY <1>4, <2>1, <2>3, <2>5 DEF RecordRole, TypeOK, UserInHand
<1> QED BY <1>1, <1>2, <1>3, <1>4 DEF ManageRoles

(* The databases a pass works on are those of the privileges it read.      *)
DatabasesInHand ==
    w.pc # "idle" =>
        /\ w.dbs \subseteq PrivilegedDatabases(seen)
        /\ w.pc = "rights" => w.left \subseteq w.dbs

(* Published credentials name a user.                                      *)
PublishedUsers == \A d \in Databases : gen[d] # NoCredentials => gen[d].user \in Users

LEMMA ManageRightsType ==
    ASSUME TInv, DatabasesInHand, ManageRights
    PROVE  TInv'
<1> USE DEF TInv, OnEngines, crVars, secretVars, engineVars, boundVars
<1>w. w \in Passes /\ mem \in Statuses /\ w.dbs \in SUBSET Databases
  BY DEF TypeOK, Passes
<1>1. ASSUME NEW d \in Databases, RightsOn(d)
      PROVE  TInv'
  <2>1. w.pc = "rights" /\ w.user \in Users /\ ~seen.deleting /\ d \in w.left
    BY <1>1 DEF RightsOn, UserInHand
  <2>2. d \in PrivilegedDatabases(seen)
    BY <2>1 DEF DatabasesInHand
  <2>3. seen.privs[d] \in Privileges
    BY <2>2 DEF PrivilegedDatabases, TypeOK, Resources
  <2>4. WantedGroup(d) \in Groups
    BY <2>3 DEF WantedGroup, GroupRole, Groups
  <2>5. PICK e \in Engines, r \in Groups : e = EngineOf[d] /\ r = WantedGroup(d)
    BY <2>4, EngineOfAssumption
  <2>6. pg' = [pg EXCEPT ![e] =
                 AlterDefaultLoginRoleOnDatabase(GrantRole(@, r, w.user), w.user, r, d)]
    BY <1>1, <2>5 DEF RightsOn
  <2>7. pg' \in [Engines -> EngineStates]
    BY <2>1, <2>6, RightStatementsType DEF TypeOK
  <2>8. w' \in Passes /\ w'.pc = "rights" /\ w'.user = w.user
    BY <1>1, <1>w DEF RightsOn, Passes
  <2> QED BY <1>1, <2>1, <2>7, <2>8 DEF RightsOn, TypeOK, UserInHand
<1>2. ASSUME NEW d \in Databases, RightsFail(d)
      PROVE  TInv'
  BY <1>2, EndsWithError DEF RightsFail, TypeOK
<1>3. ASSUME NEW e \in Engines, RevokeOn(e)
      PROVE  TInv'
  <2>1. w.pc = "rights" /\ w.user \in Users /\ ~seen.deleting
    BY <1>3 DEF RevokeOn, UserInHand
  <2>2. pg' \in [Engines -> EngineStates]
    BY <1>3, <2>1, RevokeStatementsType DEF RevokeOn, TypeOK
  <2>3. w' \in Passes /\ w'.pc = "rights" /\ w'.user = w.user
    BY <1>3, <1>w DEF RevokeOn, Passes
  <2> QED BY <1>3, <2>1, <2>2, <2>3 DEF RevokeOn, TypeOK, UserInHand
<1>4. CASE GoManageSecrets
  <2>1. w.pc = "rights" /\ w.user \in Users /\ ~seen.deleting
    BY <1>4 DEF GoManageSecrets, UserInHand
  <2>2. w' \in Passes /\ w'.pc = "secrets" /\ w'.user = w.user
    BY <1>4, <1>w DEF GoManageSecrets, Passes, Positions
  <2> QED BY <1>4, <2>1, <2>2 DEF GoManageSecrets, TypeOK, UserInHand
<1> QED BY <1>1, <1>2, <1>3, <1>4 DEF ManageRights

LEMMA ManageSecretsType ==
    ASSUME TInv, ManageSecrets
    PROVE  TInv'
<1> USE DEF TInv, crVars, secretVars, engineVars, boundVars
<1>w. w \in Passes /\ mem \in Statuses
  BY DEF TypeOK
<1>1. ASSUME NEW d \in Databases, SecretOn(d)
      PROVE  TInv'
  <2>1. w.pc = "secrets" /\ w.user \in Users /\ ~seen.deleting
    BY <1>1 DEF SecretOn, UserInHand
  <2>2. [user |-> w.user, pwd |-> w.pwd] \in Credentials
    BY <1>w DEF Credentials, Passes
  <2>3. gen' \in [Databases -> Credentials]
    BY <1>1, <2>2 DEF SecretOn, TypeOK
  <2>4. w' \in Passes /\ w'.pc = "secrets" /\ w'.user = w.user
    BY <1>1, <1>w DEF SecretOn, Passes
  <2> QED BY <1>1, <2>1, <2>3, <2>4 DEF SecretOn, TypeOK, UserInHand
<1>2. CASE CleanOldSecrets
  <2>1. w.pc = "secrets" /\ w.user \in Users /\ ~seen.deleting
    BY <1>2 DEF CleanOldSecrets, UserInHand
  <2>2. gen' \in [Databases -> Credentials]
    BY <1>2, ValuesType DEF CleanOldSecrets, TypeOK
  <2>3. w' \in Passes /\ w'.pc = "success" /\ w'.user = w.user
    BY <1>2, <1>w DEF CleanOldSecrets, Passes, Positions
  <2> QED BY <1>2, <2>1, <2>2, <2>3 DEF CleanOldSecrets, TypeOK, UserInHand
<1>3. CASE ManageSuccess
  <2>1. [mem EXCEPT !.ready = TRUE, !.phase = "Created"] \in Statuses /\ orig \in Statuses
    BY <1>w DEF Statuses, TypeOK
  <2>2. st' \in Statuses
    BY <1>3, <2>1, StatusPatchType DEF ManageSuccess
  <2> QED BY <1>3, <2>2, ValuesType DEF ManageSuccess, EndPass, TypeOK, UserInHand
<1> QED BY <1>1, <1>2, <1>3 DEF ManageSecrets

LEMMA SpendType ==
    ASSUME NEW K, NEW budget \in Budgets(K), budget.left > 0
    PROVE  Spend(budget) \in Budgets(K) /\ Spend(budget).kinds = budget.kinds
BY DEF Budgets, Spend

LEMMA FaultsType ==
    ASSUME TInv, Fail \/ Crash
    PROVE  TInv'
<1> USE DEF TInv, crVars, secretVars, engineVars
<1>1. faults' \in Budgets(FaultKinds)
  <2>1. faults \in Budgets(FaultKinds) /\ faults.left > 0 /\ faults' = Spend(faults)
    BY DEF Fail, Crash, Allowed, TypeOK
  <2> QED BY <2>1, SpendType
<1>2. CASE Fail
  BY <1>1, <1>2, EndsWithError DEF Fail, TypeOK
<1>3. CASE Crash
  BY <1>1, <1>3, ValuesType DEF Crash, EndPass, TypeOK, UserInHand
<1> QED BY <1>2, <1>3

LEMMA EnvironmentType ==
    ASSUME TInv, PublishedUsers, Environment
    PROVE  TInv'
<1> USE DEF TInv, crVars, secretVars, engineVars, boundVars, passVars
<1>e. ASSUME NEW kind, Edit(kind)
      PROVE  /\ edits' \in Budgets(EditKinds)
             /\ UNCHANGED <<st, pg, sess, clock, seen, orig, mem, w, faults>>
  <2>1. edits \in Budgets(EditKinds) /\ edits.left > 0 /\ edits' = Spend(edits)
    BY <1>e DEF Edit, Allowed, TypeOK
  <2>2. edits' \in Budgets(EditKinds)
    BY <2>1, SpendType
  <2> QED BY <1>e, <2>2 DEF Edit
<1>s. ASSUME EditSpec
      PROVE  UNCHANGED <<work, gen, import, dbs>>
  BY <1>s DEF EditSpec
<1>r. cr \in Resources /\ work \in WorkSecrets
  BY DEF TypeOK
<1>c. ASSUME cr' \in Resources, UNCHANGED <<work, gen, import, dbs>>, edits' \in Budgets(EditKinds),
             UNCHANGED <<st, pg, sess, clock, seen, orig, mem, w, faults>>
      PROVE  TInv'
  BY <1>c DEF TypeOK, UserInHand
<1>1. ASSUME NEW prefix \in Prefixes, SetPrefix(prefix)
      PROVE  TInv'
  <2>1. cr' \in Resources
    BY <1>1, <1>r DEF SetPrefix, Resources
  <2> QED BY <1>1, <1>e, <1>s, <1>c, <2>1 DEF SetPrefix
<1>2. ASSUME NEW d \in Databases, NEW p \in Privileges \union {NoPrivilege}, SetPrivilege(d, p)
      PROVE  TInv'
  <2>1. cr' = [cr EXCEPT !.privs = [cr.privs EXCEPT ![d] = p]]
    BY <1>2, <1>r DEF SetPrivilege, Resources
  <2>2. [cr.privs EXCEPT ![d] = p] \in [Databases -> Privileges \union {NoPrivilege}]
    BY <1>r DEF Resources
  <2>3. cr' \in Resources
    BY <1>r, <2>1, <2>2 DEF Resources
  <2> QED BY <1>2, <1>e, <1>s, <1>c, <2>3 DEF SetPrivilege
<1>3. ASSUME NEW attr \in Attributes, SetAttributes(attr)
      PROVE  TInv'
  <2>1. cr' \in Resources
    BY <1>3, <1>r DEF SetAttributes, Resources
  <2> QED BY <1>3, <1>e, <1>s, <1>c, <2>1 DEF SetAttributes
<1>4. CASE DeleteResource
  <2>1. cr' \in Resources
    BY <1>4, <1>r DEF DeleteResource, Resources
  <2> QED BY <1>4, <1>e, <1>s, <1>c, <2>1 DEF DeleteResource
<1>5. ASSUME work' \in WorkSecrets, UNCHANGED <<cr, gen, import, dbs>>, edits' \in Budgets(EditKinds),
             UNCHANGED <<st, pg, sess, clock, seen, orig, mem, w, faults>>
      PROVE  TInv'
  BY <1>5 DEF TypeOK, UserInHand
<1>6. CASE DeleteWorkSecret
  BY <1>5, <1>6, <1>e, ValuesType DEF DeleteWorkSecret
<1>7. CASE RemoveWorkPassword
  <2>1. work' \in WorkSecrets
    BY <1>7, <1>r DEF RemoveWorkPassword, WorkSecrets
  <2> QED BY <1>5, <1>7, <1>e, <2>1 DEF RemoveWorkPassword
<1>8. CASE RemoveWorkUser
  <2>1. work' \in WorkSecrets
    BY <1>8, <1>r DEF RemoveWorkUser, WorkSecrets
  <2> QED BY <1>5, <1>8, <1>e, <2>1 DEF RemoveWorkUser
<1>9. ASSUME NEW d \in Databases, DeleteGeneratedSecret(d)
      PROVE  TInv'
  <2>1. gen' \in [Databases -> Credentials]
    BY <1>9, ValuesType DEF DeleteGeneratedSecret, TypeOK
  <2> QED BY <1>9, <1>e, <2>1 DEF DeleteGeneratedSecret, TypeOK, UserInHand
<1>10. ASSUME NEW u \in ImportUsers \X {""}, NEW p \in Passwords, SetImport(u, p)
       PROVE  TInv'
  <2>1. u \in Users
    BY DEF Users
  <2>2. import' \in Credentials /\ import'.user \in Users
    BY <1>10, <2>1 DEF SetImport, Credentials
  <2> QED BY <1>10, <1>e, <2>2 DEF SetImport, TypeOK, UserInHand
<1>11. ASSUME NEW d \in Databases, CreateDatabase(d) \/ ProvisionDatabase(d)
       PROVE  TInv'
  <2>1. dbs' \in [Databases -> Presence]
    BY <1>11 DEF CreateDatabase, ProvisionDatabase, Presence, TypeOK
  <2> QED BY <1>11, <2>1 DEF CreateDatabase, ProvisionDatabase, TypeOK, UserInHand
<1>12. ASSUME NEW d \in Databases, Connect(d)
       PROVE  TInv'
  <2>1. gen[d].user \in Users /\ EngineOf[d] \in Engines
    BY <1>12, EngineOfAssumption DEF Connect, PublishedUsers
  <2>2. sess' \subseteq Engines \X Users
    BY <1>12, <2>1 DEF Connect, TypeOK
  <2> QED BY <1>12, <2>2 DEF Connect, TypeOK, UserInHand
<1>13. ASSUME NEW e \in Engines, NEW u \in Users, Disconnect(e, u)
       PROVE  TInv'
  <2>1. sess' \subseteq Engines \X Users
    BY <1>13 DEF Disconnect, TypeOK
  <2> QED BY <1>13, <2>1 DEF Disconnect, TypeOK, UserInHand
<1>14. CASE Tick
  BY <1>14 DEF Tick, TypeOK, UserInHand
<1> QED BY <1>1, <1>2, <1>3, <1>4, <1>6, <1>7, <1>8, <1>9, <1>10, <1>11, <1>12, <1>13, <1>14,
           ImportAssumption DEF Environment

-----------------------------------------------------------------------------
Held == TInv /\ DatabasesInHand /\ PublishedUsers

(* A pass that goes on keeps its databases; one that ends has none.        *)
LEMMA HeldByPass ==
    ASSUME DatabasesInHand, PublishedUsers, UNCHANGED <<seen, gen>>,
           \/ w'.pc = "idle"
           \/ w' = w
           \/ /\ w.pc # "idle" /\ w'.dbs = w.dbs
              /\ w'.pc = "rights" => w'.left \subseteq w.dbs
    PROVE  DatabasesInHand' /\ PublishedUsers'
BY DEF DatabasesInHand, PublishedUsers, PrivilegedDatabases

LEMMA HeldByBegin ==
    ASSUME Held, NEW c \in Resources, NEW s \in Statuses,
           \/ BeginNotFound(c, s) \/ BeginDeletion(c, s) \/ BeginMissing(c, s)
           \/ BeginWait(c, s) \/ BeginFinalizer(c, s) \/ BeginWork(c, s)
    PROVE  DatabasesInHand' /\ PublishedUsers'
<1> USE DEF Held, Read, secretVars
<1>1. w.pc = "idle" /\ seen' = c /\ gen' = gen
  BY DEF BeginNotFound, BeginDeletion, BeginMissing, BeginWait, BeginFinalizer, BeginWork
<1>2. PublishedUsers'
  BY <1>1 DEF PublishedUsers
<1>3. \/ w'.pc = "idle"
      \/ \E old : w' = NewPass("drop", c, old)
      \/ \E old : w' = NewPass("work", c, old)
  BY <1>1, ValuesType
  DEF BeginNotFound, BeginDeletion, BeginMissing, BeginWait, BeginFinalizer, BeginWork,
      ManageError, EndPass
<1>4. ASSUME NEW old, NEW pc \in {"drop", "work"}, w' = NewPass(pc, c, old)
      PROVE  w'.dbs = ExistingDatabases(c) /\ w'.pc # "rights"
  BY <1>4 DEF NewPass, NoPass
<1>5. ExistingDatabases(c) \subseteq PrivilegedDatabases(c)
  BY DEF ExistingDatabases
<1>6. DatabasesInHand'
  BY <1>1, <1>3, <1>4, <1>5 DEF DatabasesInHand, PrivilegedDatabases
<1> QED BY <1>2, <1>6

LEMMA HeldByWorkSecret ==
    ASSUME Held, WorkSecret
    PROVE  DatabasesInHand' /\ PublishedUsers'
<1>1. w.pc = "work" /\ UNCHANGED <<seen, gen>>
  BY DEF WorkSecret, ManagedCreate, ManagedReplace, ManagedRotate, ManagedBlocked, ManagedKeep,
         ProvidedCreate, ProvidedReplace, ProvidedKeep, CreateWorkSecret, AtWorkSecret
<1>2. PICK user, pwd, oldUser, pwChanged, rotErr : Proceed(user, pwd, oldUser, pwChanged, rotErr)
  BY DEF WorkSecret, ManagedCreate, ManagedReplace, ManagedRotate, ManagedBlocked, ManagedKeep,
         ProvidedCreate, ProvidedReplace, ProvidedKeep, CreateWorkSecret
<1>3. w'.dbs = w.dbs /\ w'.pc = "drop"
  BY <1>2 DEF Held, TInv, TypeOK, Passes, Proceed
<1> QED BY <1>1, <1>3, HeldByPass DEF Held

LEMMA HeldByDropOldRoles ==
    ASSUME Held, DropOldRoles
    PROVE  DatabasesInHand' /\ PublishedUsers'
<1> USE DEF Held, OldRoles, secretVars
<1>w. w \in Passes
  BY DEF TInv, TypeOK
<1>1. ASSUME NEW u \in Users, NEW e \in Engines, DropAbsent(u, e)
      PROVE  DatabasesInHand' /\ PublishedUsers'
  BY <1>1, <1>w, HeldByPass DEF DropAbsent, Examine, Passes
<1>2. ASSUME NEW u \in Users, NEW e \in Engines, DropPostponed(u, e)
      PROVE  DatabasesInHand' /\ PublishedUsers'
  BY <1>2, <1>w, HeldByPass DEF DropPostponed, Examine, Passes
<1>3. ASSUME NEW u \in Users, NEW e \in Engines, DropDecided(u, e)
      PROVE  DatabasesInHand' /\ PublishedUsers'
  BY <1>3, <1>w, HeldByPass DEF DropDecided, Examine, Passes
<1>4. CASE DropNow
  BY <1>4, <1>w, HeldByPass DEF DropNow, Passes
<1>5. CASE DropFails \/ StopOnOldRoles
  BY <1>5, HeldByPass, ValuesType DEF DropFails, StopOnOldRoles, ManageError, EndPass
<1>6. CASE GoFinalize
  BY <1>6, <1>w, HeldByPass DEF GoFinalize, AllExamined, Passes
<1>7. CASE GoManageRoles
  BY <1>7, <1>w, HeldByPass DEF GoManageRoles, AllExamined, Passes
<1>8. CASE Finalize
  <2>1. w'.pc = "idle"
    BY <1>8, ValuesType DEF Finalize, ManageError, EndPass
  <2>2. PublishedUsers'
    BY <1>8 DEF Finalize, PublishedUsers
  <2> QED BY <2>1, <2>2 DEF DatabasesInHand
<1> QED BY <1>1, <1>2, <1>3, <1>4, <1>5, <1>6, <1>7, <1>8 DEF DropOldRoles

LEMMA HeldByManageRoles ==
    ASSUME Held, ManageRoles
    PROVE  DatabasesInHand' /\ PublishedUsers'
<1> USE DEF Held, OnEngines, secretVars
<1>w. w \in Passes
  BY DEF TInv, TypeOK
<1>1. ASSUME NEW e \in Engines, RoleCreate(e)
      PROVE  DatabasesInHand' /\ PublishedUsers'
  BY <1>1, <1>w, HeldByPass DEF RoleCreate, Passes
<1>2. ASSUME NEW e \in Engines, RoleAlter(e)
      PROVE  DatabasesInHand' /\ PublishedUsers'
  BY <1>2, <1>w, HeldByPass DEF RoleAlter, Passes
<1>3. CASE RolePassword
  BY <1>3, <1>w, HeldByPass DEF RolePassword, Passes
<1>4. CASE RecordRole
  BY <1>4, <1>w, HeldByPass DEF RecordRole, Passes
<1> QED BY <1>1, <1>2, <1>3, <1>4 DEF ManageRoles

LEMMA HeldByManageRights ==
    ASSUME Held, ManageRights
    PROVE  DatabasesInHand' /\ PublishedUsers'
<1> USE DEF Held, OnEngines, secretVars
<1>w. w \in Passes
  BY DEF TInv, TypeOK
<1>1. ASSUME NEW d \in Databases, RightsOn(d)
      PROVE  DatabasesInHand' /\ PublishedUsers'
  BY <1>1, <1>w, HeldByPass DEF RightsOn, Passes, DatabasesInHand
<1>2. ASSUME NEW d \in Databases, RightsFail(d)
      PROVE  DatabasesInHand' /\ PublishedUsers'
  BY <1>2, HeldByPass, ValuesType DEF RightsFail, ManageError, EndPass
<1>3. ASSUME NEW e \in Engines, RevokeOn(e)
      PROVE  DatabasesInHand' /\ PublishedUsers'
  BY <1>3, <1>w, HeldByPass DEF RevokeOn, Passes, DatabasesInHand
<1>4. CASE GoManageSecrets
  BY <1>4, <1>w, HeldByPass DEF GoManageSecrets, Passes
<1> QED BY <1>1, <1>2, <1>3, <1>4 DEF ManageRights

LEMMA HeldByManageSecrets ==
    ASSUME Held, ManageSecrets
    PROVE  DatabasesInHand' /\ PublishedUsers'
<1> USE DEF Held, secretVars
<1>w. w \in Passes
  BY DEF TInv, TypeOK
<1>1. ASSUME NEW d \in Databases, SecretOn(d)
      PROVE  DatabasesInHand' /\ PublishedUsers'
  <2>1. w.user \in Users
    BY <1>1 DEF SecretOn, TInv, UserInHand
  <2>2. PublishedUsers'
    BY <1>1, <2>1 DEF SecretOn, PublishedUsers, TInv, TypeOK
  <2>3. w.pc = "secrets" /\ w'.pc = "secrets" /\ w'.dbs = w.dbs /\ seen' = seen
    BY <1>1, <1>w DEF SecretOn, Passes
  <2> QED BY <2>2, <2>3 DEF DatabasesInHand, PrivilegedDatabases
<1>2. CASE CleanOldSecrets
  <2>1. PublishedUsers'
    BY <1>2 DEF CleanOldSecrets, PublishedUsers
  <2>2. w.pc = "secrets" /\ w'.pc = "success" /\ w'.dbs = w.dbs /\ seen' = seen
    BY <1>2, <1>w DEF CleanOldSecrets, Passes
  <2> QED BY <2>1, <2>2 DEF DatabasesInHand, PrivilegedDatabases
<1>3. CASE ManageSuccess
  BY <1>3, HeldByPass, ValuesType DEF ManageSuccess, EndPass
<1> QED BY <1>1, <1>2, <1>3 DEF ManageSecrets

LEMMA HeldByEnvironment ==
    ASSUME Held, Environment
    PROVE  DatabasesInHand' /\ PublishedUsers'
<1>1. UNCHANGED <<seen, w>>
  BY DEF Environment, SetPrefix, SetPrivilege, SetAttributes, DeleteResource, DeleteWorkSecret,
         RemoveWorkPassword, RemoveWorkUser, DeleteGeneratedSecret, SetImport, Edit, EditSpec,
         CreateDatabase, ProvisionDatabase, Connect, Disconnect, Tick, passVars
<1>2. gen' = gen \/ \E d \in Databases : gen' = [gen EXCEPT ![d] = NoCredentials]
  BY DEF Environment, SetPrefix, SetPrivilege, SetAttributes, DeleteResource, DeleteWorkSecret,
         RemoveWorkPassword, RemoveWorkUser, DeleteGeneratedSecret, SetImport, Edit, EditSpec,
         CreateDatabase, ProvisionDatabase, Connect, Disconnect, Tick, secretVars
<1>3. PublishedUsers'
  BY <1>2 DEF PublishedUsers, Held, TInv, TypeOK
<1> QED BY <1>1, <1>3 DEF Held, DatabasesInHand, PrivilegedDatabases

LEMMA HeldStep == Held /\ [Next]_vars => Held'
<1> SUFFICES ASSUME Held, [Next]_vars PROVE Held'
  OBVIOUS
<1>1. CASE Begin
  <2>1. PICK copy \in CacheCopies :
          \/ BeginNotFound(copy[1], copy[2]) \/ BeginDeletion(copy[1], copy[2])
          \/ BeginMissing(copy[1], copy[2]) \/ BeginWait(copy[1], copy[2])
          \/ BeginFinalizer(copy[1], copy[2]) \/ BeginWork(copy[1], copy[2])
    BY <1>1 DEF Begin
  <2>2. copy[1] \in Resources /\ copy[2] \in Statuses
    BY CacheCopiesType DEF Held, TInv
  <2>3. TInv'
    BY <2>1, <2>2, BeginType DEF Held
  <2> QED BY <2>1, <2>2, <2>3, HeldByBegin DEF Held
<1>2. CASE WorkSecret
  BY <1>2, WorkSecretType, HeldByWorkSecret DEF Held
<1>3. CASE DropOldRoles
  BY <1>3, DropOldRolesType, HeldByDropOldRoles DEF Held
<1>4. CASE ManageRoles
  BY <1>4, ManageRolesType, HeldByManageRoles DEF Held
<1>5. CASE ManageRights
  BY <1>5, ManageRightsType, HeldByManageRights DEF Held
<1>6. CASE ManageSecrets
  BY <1>6, ManageSecretsType, HeldByManageSecrets DEF Held
<1>7. CASE Fail \/ Crash
  <2>1. w'.pc = "idle" /\ gen' = gen /\ seen' = seen
    BY <1>7, ValuesType DEF Fail, Crash, ManageError, EndPass, secretVars
  <2>2. DatabasesInHand' /\ PublishedUsers'
    BY <2>1, HeldByPass DEF Held
  <2> QED BY <1>7, <2>2, FaultsType DEF Held
<1>8. CASE Environment
  BY <1>8, EnvironmentType, HeldByEnvironment DEF Held
<1>9. CASE UNCHANGED vars
  BY <1>9 DEF vars, Held, TInv, TypeOK, UserInHand, DatabasesInHand, PublishedUsers,
              PrivilegedDatabases
<1> QED BY <1>1, <1>2, <1>3, <1>4, <1>5, <1>6, <1>7, <1>8, <1>9 DEF Next, Pass

LEMMA HeldInit == Init => Held
<1> SUFFICES ASSUME Init PROVE Held
  OBVIOUS
<1>1. TInv
  BY InitType
<1>2. DatabasesInHand /\ PublishedUsers
  BY ValuesType DEF Init, DatabasesInHand, PublishedUsers
<1> QED BY <1>1, <1>2 DEF Held

(* The variables keep their types through every pass, edit and fault: in   *)
(* particular a pass never reaches an SQL statement without a username, a  *)
(* privilege or an engine.                                                 *)
THEOREM TypeCorrect == Spec => []TypeOK
<1>1. Held => TypeOK
  BY DEF Held, TInv
<1> QED BY HeldInit, HeldStep, <1>1, PTL DEF Spec

-----------------------------------------------------------------------------
(* The rotation never drops the role the work secret holds.  What makes it *)
(* true: the current user is never among the old roles, in the stored      *)
(* status or in the memory of a pass, because a rotation to a user that is *)
(* still among them is refused, and because an interrupted pass can only   *)
(* forget old roles.  It takes a work secret that nobody edits, a prefix   *)
(* that does not change, and a status that is not stale.                   *)

RotationOnly ==
    /\ cr.mode = "MANAGED" /\ seen.mode = "MANAGED"
    /\ edits.kinds \intersect {"prefix", "work", "workuser"} = {}
    /\ "stale" \notin faults.kinds

RotationPlan(plan) ==
    /\ plan.cr.mode = "MANAGED"
    /\ plan.edits.kinds \intersect {"prefix", "work", "workuser"} = {}
    /\ "stale" \notin plan.faults.kinds

(* What the pass knows of the resource is not contradicted by the resource.*)
Copies ==
    /\ seen.prefix = cr.prefix
    /\ seen.deleting => cr.deleting
    /\ w.pc # "idle" => orig = st
    /\ w.pc = "work" => mem.old = st.old
    /\ w.pc = "finalize" => seen.deleting
    /\ st.prefix \in {NoPrefix, cr.prefix}
    /\ mem.prefix \in {NoPrefix, cr.prefix}

(* Without a work secret no role was ever made.                            *)
WorkSecretKept ==
    /\ work.exists => work.user \in Prefixes \X Suffixes /\ work.pwd \in Passwords
    /\ (~work.exists /\ ~cr.deleting) => st.role = NoUser /\ st.old = {}
    /\ (~work.exists /\ w.pc # "idle" /\ ~seen.deleting) => mem.role = NoUser /\ mem.old = {}
    /\ (w.pc \notin {"idle", "work"} /\ ~seen.deleting) => work.exists /\ w.pwd \in Passwords

CurrentNotOld ==
    /\ ~cr.deleting => work.user \notin st.old
    /\ w.pc = "work" => w.kept = {}
    /\ (w.pc # "idle" /\ ~seen.deleting) =>
         /\ work.user \notin mem.old \union w.kept
         /\ \A u \in Users, e \in Engines : <<u, e>> \in w.pairs => u # work.user
         /\ w.pc = "dropping" => w.at[1] # work.user

RInv == Held /\ Copies /\ WorkSecretKept /\ CurrentNotOld

LEMMA StatusPatchFrom ==
    ASSUME NEW o, NEW m
    PROVE  /\ StatusPatch(o, m).role \in {st.role, m.role}
           /\ StatusPatch(o, m).old \in {st.old, m.old}
           /\ StatusPatch(o, m).prefix \in {st.prefix, m.prefix}
BY DEF StatusPatch, Merged

LEMMA NoPassFields == NoPass.pc = "idle" /\ NoStatus.prefix = NoPrefix
BY DEF NoPass, NoStatus

(* A pass that goes on after the work secret.                              *)
LEMMA RotationByPass ==
    ASSUME RInv, UNCHANGED <<cr, st, work, seen, orig>>,
           w.pc \notin {"idle", "work"}, w'.pc \notin {"idle", "work"},
           w'.pwd = w.pwd, w'.pairs \subseteq w.pairs,
           mem'.prefix \in {NoPrefix, cr.prefix},
           w'.pc = "finalize" => seen.deleting,
           ~seen.deleting => work.user \notin mem'.old \union w'.kept,
           (~seen.deleting /\ w'.pc = "dropping") => w'.at[1] # work.user
    PROVE  Copies' /\ WorkSecretKept' /\ CurrentNotOld'
BY DEF RInv, Copies, WorkSecretKept, CurrentNotOld

(* A pass that is over.                                                    *)
LEMMA RotationByEnd ==
    ASSUME RInv, UNCHANGED <<cr, work>>, EndPass,
           seen'.prefix = cr.prefix, seen'.deleting => cr.deleting,
           st'.prefix \in {NoPrefix, cr.prefix},
           ~cr.deleting => work.user \notin st'.old,
           (~cr.deleting /\ ~work.exists) => st'.role = NoUser /\ st'.old = {}
    PROVE  Copies' /\ WorkSecretKept' /\ CurrentNotOld'
BY NoPassFields DEF RInv, EndPass, Copies, WorkSecretKept, CurrentNotOld

(* A pass that ends with a status patch.                                   *)
LEMMA RotationByPatch ==
    ASSUME RInv, UNCHANGED <<cr, work, seen, orig>>, EndPass, w.pc # "idle",
           NEW m, st' = StatusPatch(orig, m), m.prefix = mem.prefix, m.role = mem.role,
           m.old = mem.old \/ (w.pc = "drop" /\ m.old = w.kept)
    PROVE  Copies' /\ WorkSecretKept' /\ CurrentNotOld'
<1>1. /\ st'.role \in {st.role, mem.role} /\ st'.prefix \in {st.prefix, mem.prefix}
      /\ st'.old \in {st.old, m.old}
  BY StatusPatchFrom
<1>2. ~cr.deleting => ~seen.deleting
  BY DEF RInv, Copies
<1>3. ~cr.deleting => work.user \notin st'.old
  BY <1>1, <1>2 DEF RInv, CurrentNotOld
<1>4. (~cr.deleting /\ ~work.exists) => st'.role = NoUser /\ st'.old = {}
  BY <1>1, <1>2 DEF RInv, WorkSecretKept
<1>5. st'.prefix \in {NoPrefix, cr.prefix}
  BY <1>1 DEF RInv, Copies
<1> QED BY <1>3, <1>4, <1>5, RotationByEnd DEF RInv, Copies

LEMMA RotationByError ==
    ASSUME RInv, UNCHANGED <<cr, work, seen, orig>>, w.pc # "idle",
           NEW old, old = mem.old \/ (w.pc = "drop" /\ old = w.kept),
           NEW m \in Statuses, ManageError(orig, m),
           m.prefix = mem.prefix, m.role = mem.role, m.old = old
    PROVE  Copies' /\ WorkSecretKept' /\ CurrentNotOld'
<1> DEFINE n == [m EXCEPT !.ready = FALSE, !.phase = "Failed"]
<1>1. st' = StatusPatch(orig, n) /\ EndPass
  BY DEF ManageError
<1>2. n.prefix = mem.prefix /\ n.role = mem.role /\ n.old = old
  BY DEF Statuses
<1> HIDE DEF n
<1> QED BY <1>1, <1>2, RotationByPatch

LEMMA RotationByBegin ==
    ASSUME RInv, RotationOnly, Begin
    PROVE  Copies' /\ WorkSecretKept' /\ CurrentNotOld'
<1> DEFINE c == cr
           s == st
<1>1. \/ BeginNotFound(c, s) \/ BeginDeletion(c, s) \/ BeginMissing(c, s)
      \/ BeginWait(c, s) \/ BeginFinalizer(c, s) \/ BeginWork(c, s)
  <2>1. PICK copy \in CacheCopies :
          \/ BeginNotFound(copy[1], copy[2]) \/ BeginDeletion(copy[1], copy[2])
          \/ BeginMissing(copy[1], copy[2]) \/ BeginWait(copy[1], copy[2])
          \/ BeginFinalizer(copy[1], copy[2]) \/ BeginWork(copy[1], copy[2])
    BY DEF Begin
  <2>2. copy = <<cr, st>>
    BY DEF CacheCopies, RotationOnly
  <2>3. copy[1] = cr /\ copy[2] = st
    BY <2>2
  <2> QED BY <2>1, <2>3
<1>2. w.pc = "idle" /\ seen' = cr /\ orig' = st /\ UNCHANGED work
  BY <1>1 DEF BeginNotFound, BeginDeletion, BeginMissing, BeginWait, BeginFinalizer, BeginWork,
              Read, secretVars
<1>t. st \in Statuses /\ cr \in Resources /\ w \in Passes
  BY DEF RInv, Held, TInv, TypeOK
<1>3. ASSUME UNCHANGED <<st, mem, w>>, cr'.prefix = cr.prefix, cr'.deleting = cr.deleting
      PROVE  Copies' /\ WorkSecretKept' /\ CurrentNotOld'
  BY <1>2, <1>3 DEF RInv, Copies, WorkSecretKept, CurrentNotOld
<1>4. ASSUME ManageError(s, s), UNCHANGED cr
      PROVE  Copies' /\ WorkSecretKept' /\ CurrentNotOld'
  <2> DEFINE n == [s EXCEPT !.ready = FALSE, !.phase = "Failed"]
  <2>1. st' = StatusPatch(s, n) /\ EndPass
    BY <1>4 DEF ManageError
  <2>2. n.prefix = st.prefix /\ n.role = st.role /\ n.old = st.old
    BY <1>t DEF Statuses
  <2> HIDE DEF n
  <2>3. st'.prefix = st.prefix /\ st'.role = st.role /\ st'.old = st.old
    BY <2>1, <2>2, StatusPatchFrom
  <2> QED
    BY <1>2, <1>4, <2>1, <2>3, RotationByEnd DEF RInv, Copies, WorkSecretKept, CurrentNotOld
<1>5. CASE BeginNotFound(c, s)
  BY <1>3, <1>5 DEF BeginNotFound, crVars
<1>6. CASE BeginDeletion(c, s)
  <2> DEFINE old == st.old \union ({st.role} \ {NoUser})
  <2>1. w' = NewPass("drop", cr, old) /\ cr.deleting /\ UNCHANGED <<cr, st>>
        /\ mem' = [st EXCEPT !.old = old]
    BY <1>6 DEF BeginDeletion, crVars
  <2>2. w'.pc = "drop" /\ mem'.prefix = st.prefix
    BY <1>t, <2>1 DEF NewPass, NoPass, Statuses
  <2> QED BY <1>2, <2>1, <2>2 DEF RInv, Copies, WorkSecretKept, CurrentNotOld
<1>7. CASE BeginMissing(c, s)
  BY <1>4, <1>7 DEF BeginMissing
<1>8. CASE BeginWait(c, s)
  BY <1>3, <1>8 DEF BeginWait, crVars
<1>9. CASE BeginFinalizer(c, s)
  <2>1. cr' = [cr EXCEPT !.finalizer = TRUE] /\ UNCHANGED <<st, mem, w>>
    BY <1>9 DEF BeginFinalizer
  <2>2. cr'.prefix = cr.prefix /\ cr'.deleting = cr.deleting
    BY <1>t, <2>1 DEF Resources
  <2> QED BY <1>3, <2>1, <2>2
<1>10. CASE BeginWork(c, s)
  <2>1. w' = NewPass("work", cr, {}) /\ ~cr.deleting /\ UNCHANGED <<cr, st>> /\ mem' = st
    BY <1>10 DEF BeginWork, crVars
  <2>2. w'.pc = "work" /\ w'.kept = {} /\ w'.pairs = {}
    BY <2>1 DEF NewPass, NoPass
  <2> QED BY <1>2, <2>1, <2>2 DEF RInv, Copies, WorkSecretKept, CurrentNotOld
<1> QED BY <1>1, <1>5, <1>6, <1>7, <1>8, <1>9, <1>10

(* The new username, if any, is not among the old ones, which the previous *)
(* username joins.                                                         *)
LEMMA RotationByProceed ==
    ASSUME RInv, w.pc = "work", UNCHANGED <<cr, st, seen, orig>>,
           NEW user \in Prefixes \X Suffixes, NEW pwd \in Passwords,
           NEW oldUser \in Users \union {NoUser}, NEW pwChanged, NEW rotErr,
           Proceed(user, pwd, oldUser, pwChanged, rotErr),
           user \notin mem.old,
           work'.exists, work'.user = user, work'.pwd = pwd
    PROVE  Copies' /\ WorkSecretKept' /\ CurrentNotOld'
<1> DEFINE old == IF oldUser \notin {user, NoUser} THEN mem.old \union {oldUser} ELSE mem.old
<1>1. mem \in Statuses /\ w \in Passes
  BY DEF RInv, Held, TInv, TypeOK
<1>2. user \notin old
  OBVIOUS
<1>3. mem'.old = old /\ mem'.prefix = mem.prefix
  BY <1>1 DEF Proceed, Statuses
<1>4. w'.pc = "drop" /\ w'.pwd = pwd /\ w'.kept = w.kept /\ w'.pairs = old \X EnginesOf(w.dbs)
  BY <1>1 DEF Proceed, Passes
<1>5. w.kept = {}
  BY DEF RInv, CurrentNotOld
<1>6. \A u \in Users, e \in Engines : <<u, e>> \in w'.pairs => u # user
  BY <1>2, <1>4
<1>7. user \notin st.old
  BY DEF RInv, Copies
<1> HIDE DEF old
<1>8. Copies' /\ WorkSecretKept'
  BY <1>3, <1>4 DEF RInv, Copies, WorkSecretKept
<1>9. CurrentNotOld'
  BY <1>2, <1>3, <1>4, <1>5, <1>6, <1>7 DEF RInv, CurrentNotOld
<1> QED BY <1>8, <1>9

LEMMA RotationByWorkSecret ==
    ASSUME RInv, RotationOnly, WorkSecret
    PROVE  Copies' /\ WorkSecretKept' /\ CurrentNotOld'
<1>1. w.pc = "work" /\ UNCHANGED <<cr, st, seen, orig>>
  BY DEF WorkSecret, ManagedCreate, ManagedReplace, ManagedRotate, ManagedBlocked, ManagedKeep,
         ProvidedCreate, ProvidedReplace, ProvidedKeep, CreateWorkSecret, AtWorkSecret, crVars
<1>2. seen.mode = "MANAGED" /\ seen.mode # "PROVIDED"
  BY DEF RotationOnly
<1>3. ~seen.deleting
  BY <1>1 DEF RInv, Held, TInv, UserInHand
<1>4. /\ work.user \in Users \union {NoUser} /\ seen.prefix \in Prefixes
      /\ mem \in Statuses
  BY DEF RInv, Held, TInv, TypeOK, WorkSecrets, Resources
<1>5. NoUser \in Users \union {NoUser} /\ NoUser \notin Prefixes \X Suffixes
  BY PrefixesAssumption DEF Users
<1>6. work.exists => /\ ~PrefixChanged /\ ~WorkSecretEdited
                     /\ work.user \in Prefixes \X Suffixes /\ work.pwd \in Passwords
                     /\ work.user \notin mem.old
  <2>1. work.exists => work.user \in Prefixes \X Suffixes /\ work.pwd \in Passwords
    BY DEF RInv, WorkSecretKept
  <2>2. ~PrefixChanged
    BY DEF PrefixChanged, RInv, Copies
  <2>3. work.exists => ~WorkSecretEdited
    BY <1>5, <2>1, PasswordsAssumption DEF WorkSecretEdited
  <2>4. work.user \notin mem.old
    BY <1>1, <1>3 DEF RInv, CurrentNotOld
  <2> QED BY <2>1, <2>2, <2>3, <2>4
<1>7. CASE ManagedCreate
  <2> DEFINE user == ManagedUser(seen.prefix)
             pwd == FreshPassword
  <2>1. pwd \in Passwords
    BY <1>7, FreshPasswordType DEF ManagedCreate
  <2>2. user \in Prefixes \X Suffixes
    BY <1>4 DEF ManagedUser, Suffixes
  <2>3. mem.role = NoUser /\ mem.old = {}
    BY <1>1, <1>3, <1>7 DEF ManagedCreate, CreateWorkSecret, RInv, WorkSecretKept
  <2>4. PICK pwChanged, rotErr : Proceed(user, pwd, NoUser, pwChanged, rotErr)
    BY <1>7, <2>3 DEF ManagedCreate, CreateWorkSecret
  <2>5. work'.exists /\ work'.user = user /\ work'.pwd = pwd
    BY <1>7 DEF ManagedCreate, CreateWorkSecret, WriteWorkSecret
  <2> HIDE DEF user, pwd
  <2> QED BY <1>1, <1>5, <2>1, <2>2, <2>3, <2>4, <2>5, RotationByProceed
<1>8. CASE ManagedRotate
  <2> DEFINE user == NextUser(seen.prefix, work.user)
             pwd == FreshPassword
  <2>1. pwd \in Passwords
    BY <1>8, FreshPasswordType DEF ManagedRotate
  <2>2. user \in Prefixes \X Suffixes
    BY <1>4 DEF NextUser, Suffixes
  <2>3. user \notin mem.old
    BY <1>8 DEF ManagedRotate, RotationBlocked
  <2>4. Proceed(user, pwd, work.user, TRUE, FALSE)
    BY <1>8 DEF ManagedRotate
  <2>5. work'.exists /\ work'.user = user /\ work'.pwd = pwd
    BY <1>8 DEF ManagedRotate, WriteWorkSecret
  <2> HIDE DEF user, pwd
  <2> QED BY <1>1, <1>4, <2>1, <2>2, <2>3, <2>4, <2>5, RotationByProceed
<1>9. CASE ManagedBlocked
  <2>1. work' = work /\ work.exists /\ Proceed(work.user, work.pwd, NoUser, FALSE, TRUE)
    BY <1>9 DEF ManagedBlocked
  <2> QED BY <1>1, <1>5, <1>6, <2>1, RotationByProceed
<1>10. CASE ManagedKeep
  <2>1. work' = work /\ work.exists /\ Proceed(work.user, work.pwd, NoUser, FALSE, FALSE)
    BY <1>10 DEF ManagedKeep
  <2> QED BY <1>1, <1>5, <1>6, <2>1, RotationByProceed
<1>11. CASE ManagedReplace
  BY <1>6, <1>11 DEF ManagedReplace
<1> QED BY <1>2, <1>7, <1>8, <1>9, <1>10, <1>11
        DEF WorkSecret, ProvidedCreate, ProvidedReplace, ProvidedKeep

LEMMA RotationByDropOldRoles ==
    ASSUME RInv, DropOldRoles
    PROVE  Copies' /\ WorkSecretKept' /\ CurrentNotOld'
<1> USE DEF OldRoles, crVars, secretVars
<1>w. w \in Passes /\ mem \in Statuses
  BY DEF RInv, Held, TInv, TypeOK
<1>m. /\ mem.prefix \in {NoPrefix, cr.prefix}
      /\ w.pc # "idle" /\ ~seen.deleting => work.user \notin mem.old \union w.kept
  BY DEF RInv, Copies, CurrentNotOld
<1>1. ASSUME NEW u \in Users, NEW e \in Engines, DropAbsent(u, e)
      PROVE  Copies' /\ WorkSecretKept' /\ CurrentNotOld'
  <2>1. /\ w.pc = "drop" /\ w'.pc = "drop" /\ w'.pwd = w.pwd /\ w'.kept = w.kept
        /\ w'.pairs \subseteq w.pairs /\ mem' = mem
    BY <1>1, <1>w DEF DropAbsent, Examine, Passes
  <2> QED BY <1>1, <1>m, <2>1, RotationByPass DEF DropAbsent, Examine
<1>2. ASSUME NEW u \in Users, NEW e \in Engines, DropPostponed(u, e)
      PROVE  Copies' /\ WorkSecretKept' /\ CurrentNotOld'
  <2>1. /\ w.pc = "drop" /\ w'.pc = "drop" /\ w'.pwd = w.pwd /\ w'.kept = w.kept \union {u}
        /\ w'.pairs \subseteq w.pairs /\ mem' = mem /\ <<u, e>> \in w.pairs
    BY <1>2, <1>w DEF DropPostponed, Examine, Passes
  <2>2. ~seen.deleting => u # work.user
    BY <2>1 DEF RInv, CurrentNotOld
  <2> QED BY <1>2, <1>m, <2>1, <2>2, RotationByPass DEF DropPostponed, Examine
<1>3. ASSUME NEW u \in Users, NEW e \in Engines, DropDecided(u, e)
      PROVE  Copies' /\ WorkSecretKept' /\ CurrentNotOld'
  <2>1. /\ w.pc = "drop" /\ w'.pc = "dropping" /\ w'.pwd = w.pwd /\ w'.kept = w.kept
        /\ w'.pairs = w.pairs /\ mem' = mem /\ <<u, e>> \in w.pairs /\ w'.at = <<u, e>>
    BY <1>3, <1>w DEF DropDecided, Examine, Passes
  <2>2. ~seen.deleting => u # work.user
    BY <2>1 DEF RInv, CurrentNotOld
  <2>3. w'.at[1] = u
    BY <2>1
  <2> QED BY <1>3, <1>m, <2>1, <2>2, <2>3, RotationByPass DEF DropDecided, Examine
<1>4. CASE DropNow
  <2>1. /\ w.pc = "dropping" /\ w'.pc = "drop" /\ w'.pwd = w.pwd /\ w'.kept = w.kept
        /\ w'.pairs \subseteq w.pairs /\ mem' = mem
    BY <1>4, <1>w DEF DropNow, Passes
  <2> QED BY <1>4, <1>m, <2>1, RotationByPass DEF DropNow
<1>5. CASE DropFails
  BY <1>5, <1>w, RotationByError DEF DropFails
<1>6. CASE StopOnOldRoles
  <2>1. [mem EXCEPT !.old = w.kept] \in Statuses
    BY <1>w DEF Passes, Statuses
  <2>2. /\ [mem EXCEPT !.old = w.kept].prefix = mem.prefix
        /\ [mem EXCEPT !.old = w.kept].role = mem.role
        /\ [mem EXCEPT !.old = w.kept].old = w.kept
    BY <1>w DEF Statuses
  <2> QED BY <1>6, <2>1, <2>2, RotationByError DEF StopOnOldRoles, AllExamined
<1>7. CASE GoFinalize
  <2>1. /\ w.pc = "drop" /\ w'.pc = "finalize" /\ w'.pwd = w.pwd /\ w'.kept = w.kept
        /\ w'.pairs = w.pairs /\ mem'.prefix = mem.prefix /\ mem'.old = w.kept
        /\ seen.deleting
    BY <1>7, <1>w DEF GoFinalize, AllExamined, Passes, Statuses
  <2> QED BY <1>7, <1>m, <2>1, RotationByPass DEF GoFinalize
<1>8. CASE GoManageRoles
  <2>1. /\ w.pc = "drop" /\ w'.pc = "role" /\ w'.pwd = w.pwd /\ w'.kept = {}
        /\ w'.pairs = w.pairs /\ mem'.prefix = mem.prefix /\ mem'.old = w.kept
    BY <1>8, <1>w DEF GoManageRoles, AllExamined, Passes, Statuses
  <2> QED BY <1>8, <1>m, <2>1, RotationByPass DEF GoManageRoles
<1>9. CASE Finalize
  <2>1. CASE seen = cr /\ orig = st
    <3>1. /\ cr' = [cr EXCEPT !.exists = FALSE, !.finalizer = FALSE]
          /\ st' = NoStatus /\ work' = NoWorkSecret /\ EndPass /\ UNCHANGED <<seen, orig>>
          /\ seen.deleting
      BY <1>9, <2>1 DEF Finalize, RInv, Copies
    <3>2. cr'.prefix = cr.prefix /\ cr'.deleting = cr.deleting /\ cr.deleting
      BY <2>1, <3>1 DEF RInv, Held, TInv, TypeOK, Resources
    <3>3. ~work'.exists
      BY <3>1 DEF NoWorkSecret
    <3> QED BY <2>1, <3>1, <3>2, <3>3, NoPassFields
            DEF EndPass, RInv, Copies, WorkSecretKept, CurrentNotOld
  <2>2. CASE ~(seen = cr /\ orig = st)
    BY <1>9, <1>w, <2>2, RotationByError DEF Finalize
  <2> QED BY <2>1, <2>2
<1> QED BY <1>1, <1>2, <1>3, <1>4, <1>5, <1>6, <1>7, <1>8, <1>9 DEF DropOldRoles

LEMMA RotationByRolesAndRights ==
    ASSUME RInv, ManageRoles \/ ManageRights
    PROVE  Copies' /\ WorkSecretKept' /\ CurrentNotOld'
<1> USE DEF OnEngines, crVars, secretVars
<1>w. w \in Passes /\ mem \in Statuses
  BY DEF RInv, Held, TInv, TypeOK
<1>m. /\ mem.prefix \in {NoPrefix, cr.prefix} /\ seen.prefix = cr.prefix
      /\ w.pc # "idle" /\ ~seen.deleting => work.user \notin mem.old \union w.kept
  BY DEF RInv, Copies, CurrentNotOld
<1>1. ASSUME NEW e \in Engines, RoleCreate(e)
      PROVE  Copies' /\ WorkSecretKept' /\ CurrentNotOld'
  <2>1. w.pc = "role" /\ w'.pc = "role" /\ w'.pwd = w.pwd /\ w'.kept = w.kept /\ w'.pairs = w.pairs
    BY <1>1, <1>w DEF RoleCreate, Passes
  <2> QED BY <1>1, <1>m, <2>1, RotationByPass DEF RoleCreate
<1>2. ASSUME NEW e \in Engines, RoleAlter(e)
      PROVE  Copies' /\ WorkSecretKept' /\ CurrentNotOld'
  <2>1. w.pc = "role" /\ w'.pc = "password" /\ w'.pwd = w.pwd /\ w'.kept = w.kept
        /\ w'.pairs = w.pairs
    BY <1>2, <1>w DEF RoleAlter, Passes
  <2> QED BY <1>2, <1>m, <2>1, RotationByPass DEF RoleAlter
<1>3. CASE RolePassword
  <2>1. w.pc = "password" /\ w'.pc = "role" /\ w'.pwd = w.pwd /\ w'.kept = w.kept
        /\ w'.pairs = w.pairs
    BY <1>3, <1>w DEF RolePassword, Passes
  <2> QED BY <1>3, <1>m, <2>1, RotationByPass DEF RolePassword
<1>4. CASE RecordRole
  <2>1. w.pc = "role" /\ w'.pc = "rights" /\ w'.pwd = w.pwd /\ w'.kept = w.kept
        /\ w'.pairs = w.pairs
    BY <1>4, <1>w DEF RecordRole, Passes
  <2>2. mem'.prefix = seen.prefix /\ mem'.old = mem.old
    BY <1>4, <1>w DEF RecordRole, Statuses
  <2> QED BY <1>4, <1>m, <2>1, <2>2, RotationByPass DEF RecordRole
<1>5. ASSUME NEW d \in Databases, RightsOn(d)
      PROVE  Copies' /\ WorkSecretKept' /\ CurrentNotOld'
  <2>1. w.pc = "rights" /\ w'.pc = "rights" /\ w'.pwd = w.pwd /\ w'.kept = w.kept
        /\ w'.pairs = w.pairs
    BY <1>5, <1>w DEF RightsOn, Passes
  <2> QED BY <1>5, <1>m, <2>1, RotationByPass DEF RightsOn
<1>6. ASSUME NEW d \in Databases, RightsFail(d)
      PROVE  Copies' /\ WorkSecretKept' /\ CurrentNotOld'
  BY <1>6, <1>w, RotationByError DEF RightsFail
<1>7. ASSUME NEW e \in Engines, RevokeOn(e)
      PROVE  Copies' /\ WorkSecretKept' /\ CurrentNotOld'
  <2>1. w.pc = "rights" /\ w'.pc = "rights" /\ w'.pwd = w.pwd /\ w'.kept = w.kept
        /\ w'.pairs = w.pairs
    BY <1>7, <1>w DEF RevokeOn, Passes
  <2> QED BY <1>7, <1>m, <2>1, RotationByPass DEF RevokeOn
<1>8. CASE GoManageSecrets
  <2>1. w.pc = "rights" /\ w'.pc = "secrets" /\ w'.pwd = w.pwd /\ w'.kept = w.kept
        /\ w'.pairs = w.pairs
    BY <1>8, <1>w DEF GoManageSecrets, Passes
  <2> QED BY <1>8, <1>m, <2>1, RotationByPass DEF GoManageSecrets
<1> QED BY <1>1, <1>2, <1>3, <1>4, <1>5, <1>6, <1>7, <1>8 DEF ManageRoles, ManageRights

LEMMA RotationBySecrets ==
    ASSUME RInv, ManageSecrets
    PROVE  Copies' /\ WorkSecretKept' /\ CurrentNotOld'
<1> USE DEF crVars, secretVars
<1>w. w \in Passes /\ mem \in Statuses
  BY DEF RInv, Held, TInv, TypeOK
<1>m. /\ mem.prefix \in {NoPrefix, cr.prefix}
      /\ w.pc # "idle" /\ ~seen.deleting => work.user \notin mem.old \union w.kept
  BY DEF RInv, Copies, CurrentNotOld
<1>1. ASSUME NEW d \in Databases, SecretOn(d)
      PROVE  Copies' /\ WorkSecretKept' /\ CurrentNotOld'
  <2>1. w.pc = "secrets" /\ w'.pc = "secrets" /\ w'.pwd = w.pwd /\ w'.kept = w.kept
        /\ w'.pairs = w.pairs
    BY <1>1, <1>w DEF SecretOn, Passes
  <2> QED BY <1>1, <1>m, <2>1, RotationByPass DEF SecretOn
<1>2. CASE CleanOldSecrets
  <2>1. w.pc = "secrets" /\ w'.pc = "success" /\ w'.pwd = w.pwd /\ w'.kept = w.kept
        /\ w'.pairs = w.pairs
    BY <1>2, <1>w DEF CleanOldSecrets, Passes
  <2> QED BY <1>2, <1>m, <2>1, RotationByPass DEF CleanOldSecrets
<1>3. CASE ManageSuccess
  <2> DEFINE n == [mem EXCEPT !.ready = TRUE, !.phase = "Created"]
  <2>1. st' = StatusPatch(orig, n) /\ EndPass /\ w.pc # "idle" /\ UNCHANGED <<cr, work, seen, orig>>
    BY <1>3 DEF ManageSuccess
  <2>2. n.prefix = mem.prefix /\ n.role = mem.role /\ n.old = mem.old
    BY <1>w DEF Statuses
  <2> HIDE DEF n
  <2> QED BY <2>1, <2>2, RotationByPatch
<1> QED BY <1>1, <1>2, <1>3 DEF ManageSecrets

LEMMA RotationByFault ==
    ASSUME RInv, Fail \/ Crash
    PROVE  Copies' /\ WorkSecretKept' /\ CurrentNotOld'
<1> USE DEF crVars, secretVars
<1>1. CASE Fail
  <2>1. mem \in Statuses
    BY DEF RInv, Held, TInv, TypeOK
  <2> QED BY <1>1, <2>1, RotationByError DEF Fail
<1>2. CASE Crash
  <2>1. EndPass /\ UNCHANGED <<cr, st, work, seen, orig>>
    BY <1>2 DEF Crash
  <2> QED BY <2>1, RotationByEnd DEF RInv, Copies, WorkSecretKept, CurrentNotOld
<1> QED BY <1>1, <1>2

LEMMA RotationByEnvironment ==
    ASSUME RInv, RotationOnly, Environment
    PROVE  Copies' /\ WorkSecretKept' /\ CurrentNotOld'
<1>1. UNCHANGED <<st, work, seen, orig, mem, w>>
  BY DEF RotationOnly, Environment, SetPrefix, SetPrivilege, SetAttributes, DeleteResource,
         DeleteWorkSecret, RemoveWorkPassword, RemoveWorkUser, DeleteGeneratedSecret, SetImport,
         Edit, Allowed, EditSpec, CreateDatabase, ProvisionDatabase, Connect, Disconnect, Tick,
         passVars, crVars, secretVars
<1>2. cr'.prefix = cr.prefix /\ (cr.deleting => cr'.deleting)
  <2>1. cr \in Resources
    BY DEF RInv, Held, TInv, TypeOK
  <2>2. \/ cr' = cr
        \/ \E d \in Databases, p \in Privileges \union {NoPrivilege} : SetPrivilege(d, p)
        \/ \E attr \in Attributes : SetAttributes(attr)
        \/ DeleteResource
    BY DEF RotationOnly, Environment, SetPrefix, DeleteWorkSecret, RemoveWorkPassword,
           RemoveWorkUser, DeleteGeneratedSecret, SetImport, Edit, Allowed, CreateDatabase,
           ProvisionDatabase, Connect, Disconnect, Tick, crVars
  <2> QED BY <2>1, <2>2 DEF SetPrivilege, SetAttributes, DeleteResource, Resources
<1> QED BY <1>1, <1>2 DEF RInv, Copies, WorkSecretKept, CurrentNotOld

(* The mode of the resource, the kinds of edits and those of faults stay.  *)
LEMMA RotationOnlyKept ==
    ASSUME RInv, RotationOnly, [Next]_vars
    PROVE  RotationOnly'
<1>1. cr \in Resources /\ edits \in Budgets(EditKinds) /\ faults \in Budgets(FaultKinds)
  BY DEF RInv, Held, TInv, TypeOK
<1>2. CASE Begin
  <2>1. PICK copy \in CacheCopies :
          \/ BeginNotFound(copy[1], copy[2]) \/ BeginDeletion(copy[1], copy[2])
          \/ BeginMissing(copy[1], copy[2]) \/ BeginWait(copy[1], copy[2])
          \/ BeginFinalizer(copy[1], copy[2]) \/ BeginWork(copy[1], copy[2])
    BY <1>2 DEF Begin
  <2>2. seen' = copy[1] /\ UNCHANGED <<edits, faults>>
    BY <2>1 DEF BeginNotFound, BeginDeletion, BeginMissing, BeginWait, BeginFinalizer,
                BeginWork, Read, boundVars
  <2>3. copy[1] = cr \/ copy[1] = seen
    BY DEF CacheCopies
  <2>4. cr' = cr \/ cr' = [cr EXCEPT !.finalizer = TRUE]
    BY <2>1 DEF BeginNotFound, BeginDeletion, BeginMissing, BeginWait, BeginFinalizer,
                BeginWork, crVars
  <2>5. cr'.mode = cr.mode
    BY <1>1, <2>4 DEF Resources
  <2> QED BY <2>2, <2>3, <2>5 DEF RotationOnly
<1>3. CASE WorkSecret
  <2>1. UNCHANGED <<cr, seen, edits, faults>>
    BY <1>3 DEF WorkSecret, ManagedCreate, ManagedReplace, ManagedRotate, ManagedBlocked,
                ManagedKeep, ProvidedCreate, ProvidedReplace, ProvidedKeep, CreateWorkSecret,
                AtWorkSecret, crVars, boundVars
  <2> QED BY <2>1 DEF RotationOnly
<1>4. CASE DropOldRoles
  <2>1. UNCHANGED <<seen, edits, faults>>
    BY <1>4 DEF DropOldRoles, DropAbsent, DropPostponed, DropDecided, DropNow, DropFails,
                StopOnOldRoles, GoFinalize, GoManageRoles, Finalize, Examine, OldRoles, boundVars
  <2>2. cr' = cr \/ cr' = [cr EXCEPT !.exists = FALSE, !.finalizer = FALSE]
    BY <1>4 DEF DropOldRoles, DropAbsent, DropPostponed, DropDecided, DropNow, DropFails,
                StopOnOldRoles, GoFinalize, GoManageRoles, Finalize, Examine, OldRoles, crVars
  <2>3. cr'.mode = cr.mode
    BY <1>1, <2>2 DEF Resources
  <2> QED BY <2>1, <2>3 DEF RotationOnly
<1>5. CASE ManageRoles \/ ManageRights \/ ManageSecrets
  <2>1. UNCHANGED <<cr, seen, edits, faults>>
    BY <1>5 DEF ManageRoles, RoleCreate, RoleAlter, RolePassword, RecordRole, ManageRights,
                RightsOn, RightsFail, RevokeOn, GoManageSecrets, ManageSecrets, SecretOn,
                CleanOldSecrets, ManageSuccess, OnEngines, crVars, boundVars
  <2> QED BY <2>1 DEF RotationOnly
<1>6. CASE Fail \/ Crash
  <2>1. UNCHANGED <<cr, seen, edits>> /\ faults' = Spend(faults) /\ faults.left > 0
    BY <1>6 DEF Fail, Crash, Allowed, crVars
  <2> QED BY <1>1, <2>1, SpendType DEF RotationOnly
<1>7. CASE Environment
  <2>1. UNCHANGED <<seen, faults>>
    BY <1>7 DEF Environment, SetPrefix, SetPrivilege, SetAttributes, DeleteResource,
                DeleteWorkSecret, RemoveWorkPassword, RemoveWorkUser, DeleteGeneratedSecret,
                SetImport, Edit, CreateDatabase, ProvisionDatabase, Connect, Disconnect, Tick,
                passVars, boundVars
  <2>2. UNCHANGED edits \/ (edits' = Spend(edits) /\ edits.left > 0)
    BY <1>7 DEF Environment, SetPrefix, SetPrivilege, SetAttributes, DeleteResource,
                DeleteWorkSecret, RemoveWorkPassword, RemoveWorkUser, DeleteGeneratedSecret,
                SetImport, Edit, Allowed, CreateDatabase, ProvisionDatabase, Connect,
                Disconnect, Tick, boundVars
  <2>3. \/ cr' = cr
        \/ \E prefix \in Prefixes : SetPrefix(prefix)
        \/ \E d \in Databases, p \in Privileges \union {NoPrivilege} : SetPrivilege(d, p)
        \/ \E attr \in Attributes : SetAttributes(attr)
        \/ DeleteResource
    BY <1>7 DEF Environment, DeleteWorkSecret, RemoveWorkPassword, RemoveWorkUser,
                DeleteGeneratedSecret, SetImport, CreateDatabase, ProvisionDatabase, Connect,
                Disconnect, Tick, crVars
  <2>4. cr'.mode = cr.mode
    BY <1>1, <2>3 DEF SetPrefix, SetPrivilege, SetAttributes, DeleteResource, Resources
  <2>5. edits'.kinds = edits.kinds
    BY <1>1, <2>2, SpendType
  <2> QED BY <2>1, <2>4, <2>5 DEF RotationOnly
<1>8. CASE UNCHANGED vars
  BY <1>8 DEF vars, RotationOnly
<1> QED BY <1>2, <1>3, <1>4, <1>5, <1>6, <1>7, <1>8 DEF Next, Pass

LEMMA RotationStep == RInv /\ RotationOnly /\ [Next]_vars => (RInv /\ RotationOnly)'
<1> SUFFICES ASSUME RotationOnly, RInv, [Next]_vars
             PROVE  Copies' /\ WorkSecretKept' /\ CurrentNotOld'
  BY HeldStep, RotationOnlyKept DEF RInv
<1>1. CASE UNCHANGED vars
  BY <1>1 DEF vars, RInv, Copies, WorkSecretKept, CurrentNotOld
<1> QED BY <1>1, RotationByBegin, RotationByWorkSecret, RotationByDropOldRoles,
           RotationByRolesAndRights, RotationBySecrets, RotationByFault, RotationByEnvironment
        DEF Next, Pass

LEMMA RotationInit ==
    ASSUME \A plan \in Plans : RotationPlan(plan), Init
    PROVE  RInv /\ RotationOnly
<1>1. PICK plan \in Plans : cr = plan.cr /\ edits = plan.edits /\ faults = plan.faults
  BY DEF Init
<1>2. /\ seen = cr /\ st = NoStatus /\ mem = NoStatus /\ w = NoPass /\ work = NoWorkSecret
      /\ ~cr.deleting
  BY <1>1, PlansAssumption DEF Init
<1>3. NoStatus.role = NoUser /\ NoStatus.old = {} /\ NoStatus.prefix = NoPrefix
      /\ NoPass.pc = "idle" /\ ~NoWorkSecret.exists
  BY DEF NoStatus, NoPass, NoWorkSecret
<1>4. RInv
  BY <1>2, <1>3, HeldInit DEF RInv, Copies, WorkSecretKept, CurrentNotOld
<1> QED BY <1>1, <1>2, <1>4 DEF RotationOnly, RotationPlan

(* Only a drop that was decided on takes the password of a role away.      *)
LEMMA OnlyOldRolesAreDropped ==
    ASSUME RotationOnly, RInv, [Next]_vars,
           NEW e \in Engines, NEW u \in Users, Dropped(e, u), ~seen.deleting
    PROVE  u # work.user
<1> USE DEF Dropped, IsRoleExist
<1>t. pg \in [Engines -> EngineStates] /\ w \in Passes
  BY DEF RInv, Held, TInv, TypeOK
<1>p. w.pc \in {"role", "password"} => w.pwd \in Passwords /\ w.pwd # NoPassword
  BY PasswordsAssumption DEF RInv, WorkSecretKept
<1>1. pg'[e].pwd[u] # pg[e].pwd[u]
  OBVIOUS
<1>2. CASE DropNow
  <2>1. w.at \in Users \X Engines /\ w.pc = "dropping"
    BY <1>2 DEF DropNow, RInv, Held, TInv, TypeOK
  <2>2. PICK v \in Users, f \in Engines : v = w.at[1] /\ f = w.at[2]
    BY <2>1
  <2>3. pg' = [pg EXCEPT ![f] = DropRole(@, v)]
    BY <1>2, <2>2 DEF DropNow
  <2>4. \A x \in Users : x # v => DropRole(pg[f], v).pwd[x] = pg[f].pwd[x]
    BY <1>t DEF DropRole, EngineStates
  <2>5. u = v
    BY <1>1, <1>t, <2>3, <2>4
  <2> QED BY <2>1, <2>2, <2>5 DEF RInv, CurrentNotOld
<1>3. ASSUME NEW f \in Engines, RoleCreate(f)
      PROVE  FALSE
  <2>1. /\ pg' = [pg EXCEPT ![f] = CreateUserRole(@, w.user, w.pwd, seen.attr)]
        /\ pg[f].pwd[w.user] = NoPassword /\ w.pc = "role"
    BY <1>3 DEF RoleCreate
  <2>2. CreateUserRole(pg[f], w.user, w.pwd, seen.attr).pwd = [pg[f].pwd EXCEPT ![w.user] = w.pwd]
    BY <1>t DEF CreateUserRole, EngineStates
  <2>3. pg[f].pwd \in [Users -> Passwords \union {NoPassword}]
    BY <1>t DEF EngineStates
  <2> QED BY <1>1, <1>t, <1>p, <2>1, <2>2, <2>3
<1>4. ASSUME NEW f \in Engines, RoleAlter(f)
      PROVE  FALSE
  <2>1. pg' = [pg EXCEPT ![f] = AlterRoleAttributes(@, w.user, seen.attr)]
    BY <1>4 DEF RoleAlter
  <2>2. AlterRoleAttributes(pg[f], w.user, seen.attr).pwd = pg[f].pwd
    BY <1>t DEF AlterRoleAttributes, EngineStates
  <2> QED BY <1>1, <1>t, <2>1, <2>2
<1>5. CASE RolePassword
  <2>1. w.pc = "password" /\ w.at[2] \in Engines
    BY <1>5 DEF RolePassword, RInv, Held, TInv, TypeOK
  <2>2. PICK f \in Engines : f = w.at[2]
    BY <2>1
  <2>3. pg[f].pwd \in [Users -> Passwords \union {NoPassword}]
    BY <1>t DEF EngineStates
  <2>4. pg'[f].pwd = pg[f].pwd \/ pg'[f].pwd = [pg[f].pwd EXCEPT ![w.user] = w.pwd]
    BY <1>5, <1>t, <2>2 DEF RolePassword, GrantToOperator, UpdatePassword, EngineStates
  <2>5. e = f
    BY <1>1, <1>5, <1>t, <2>2 DEF RolePassword
  <2> QED BY <1>p, <2>1, <2>3, <2>4, <2>5
<1>6. ASSUME NEW d \in Databases, RightsOn(d)
      PROVE  FALSE
  <2>0. PICK f \in Engines :
          \E r : pg' = [pg EXCEPT ![f] =
                   AlterDefaultLoginRoleOnDatabase(GrantRole(@, r, w.user), w.user, r, d)]
    BY <1>6, EngineOfAssumption DEF RightsOn
  <2>1. PICK r :
          pg' = [pg EXCEPT ![f] =
                   AlterDefaultLoginRoleOnDatabase(GrantRole(@, r, w.user), w.user, r, d)]
    BY <2>0
  <2>2. GrantRole(pg[f], r, w.user) = [pg[f] EXCEPT !.member = @ \union {<<w.user, r>>}]
    BY DEF GrantRole
  <2>3. AlterDefaultLoginRoleOnDatabase(GrantRole(pg[f], r, w.user), w.user, r, d).pwd = pg[f].pwd
    BY <1>t DEF GrantRole, AlterDefaultLoginRoleOnDatabase, EngineStates
  <2> QED BY <1>1, <1>t, <2>1, <2>3
<1>7. ASSUME NEW f \in Engines, RevokeOn(f)
      PROVE  FALSE
  <2>1. PICK R, P : pg' = [pg EXCEPT ![f] = RevokeUserSetRoleOnDatabases(RevokeRoles(@, R, w.user), P)]
    BY <1>7 DEF RevokeOn
  <2>2. RevokeUserSetRoleOnDatabases(RevokeRoles(pg[f], R, w.user), P).pwd = pg[f].pwd
    BY <1>t DEF RevokeUserSetRoleOnDatabases, RevokeRoles, EngineStates
  <2> QED BY <1>1, <1>t, <2>1, <2>2
<1>8. pg' # pg
  BY <1>1
<1>9. CASE Begin
  BY <1>8, <1>9 DEF Begin, BeginNotFound, BeginDeletion, BeginMissing, BeginWait, BeginFinalizer,
                    BeginWork, Read, engineVars
<1>10. CASE WorkSecret
  BY <1>8, <1>10
  DEF WorkSecret, ManagedCreate, ManagedReplace, ManagedRotate, ManagedBlocked, ManagedKeep,
      ProvidedCreate, ProvidedReplace, ProvidedKeep, CreateWorkSecret, AtWorkSecret, engineVars
<1>11. CASE DropOldRoles
  BY <1>2, <1>8, <1>11
  DEF DropOldRoles, DropAbsent, DropPostponed, DropDecided, DropFails, StopOnOldRoles, GoFinalize,
      GoManageRoles, Finalize, engineVars
<1>12. CASE ManageRoles
  BY <1>3, <1>4, <1>5, <1>8, <1>12 DEF ManageRoles, RecordRole
<1>13. CASE ManageRights
  BY <1>6, <1>7, <1>8, <1>13 DEF ManageRights, RightsFail, GoManageSecrets, engineVars
<1>14. CASE ManageSecrets
  BY <1>8, <1>14 DEF ManageSecrets, SecretOn, CleanOldSecrets, ManageSuccess, engineVars
<1>15. CASE Fail \/ Crash
  BY <1>8, <1>15 DEF Fail, Crash, engineVars
<1>16. CASE Environment
  BY <1>8, <1>16
  DEF Environment, SetPrefix, SetPrivilege, SetAttributes, DeleteResource, DeleteWorkSecret,
      RemoveWorkPassword, RemoveWorkUser, DeleteGeneratedSecret, SetImport, Edit, EditSpec,
      CreateDatabase, ProvisionDatabase, Connect, Disconnect, Tick, engineVars
<1>17. CASE UNCHANGED vars
  BY <1>8, <1>17 DEF vars
<1> QED BY <1>9, <1>10, <1>11, <1>12, <1>13, <1>14, <1>15, <1>16, <1>17 DEF Next, Pass

(* In managed mode, whatever fails or crashes and whatever else is edited, *)
(* no rotation drops the role whose credentials the work secret holds.     *)
THEOREM RotationKeepsTheCurrentRole ==
    ASSUME \A plan \in Plans : RotationPlan(plan)
    PROVE  Spec => CurrentRoleKept
<1>1. Init => RInv /\ RotationOnly
  BY RotationInit
<1>2. (RInv /\ RotationOnly) /\ [Next]_vars => (RInv /\ RotationOnly)'
  BY RotationStep
<1>3. (RInv /\ RotationOnly) /\ [Next]_vars =>
        [\A e \in Engines, u \in Users : Dropped(e, u) => (seen.deleting \/ u # work.user)]_vars
  BY OnlyOldRolesAreDropped
<1> QED BY <1>1, <1>2, <1>3, PTL DEF Spec, CurrentRoleKept
=============================================================================
