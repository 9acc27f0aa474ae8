----------------------- MODULE UserRoleRotationProofs -----------------------
(***************************************************************************)
(* Proofs about UserRole: what the passes leave on the engines over time,  *)
(* for any engines, databases and rotations.  No theorem here lets anybody *)
(* edit the work secret or a pass work on an old copy.  That no role is    *)
(* forgotten holds with errors at any step, and with crashes when there    *)
(* are rotations only; that the published credentials work and that live   *)
(* roles are left alone, with errors but no crash; that a deletion leaves  *)
(* nothing, when nothing fails.  TLC has a counterexample for each of      *)
(* these conditions.                                                       *)
(***************************************************************************)
EXTENDS UserRoleReadyProofs

-----------------------------------------------------------------------------
(* The steps that write the password of a role: it is dropped, created, or *)
(* altered by the pass that works on it.                                   *)
LEMMA PasswordStep ==
    ASSUME Held, [Next]_vars, NEW e \in Engines, NEW u \in Users,
           pg'[e].pwd[u] # pg[e].pwd[u]
    PROVE  \/ /\ DropNow /\ w.at = <<u, e>> /\ pg'[e].pwd[u] = NoPassword
           \/ /\ RoleCreate(e) /\ u = w.user /\ pg'[e].pwd[u] = w.pwd
           \/ /\ RolePassword /\ e = w.at[2] /\ u = w.user /\ pg'[e].pwd[u] = w.pwd
<1>t. pg \in [Engines -> EngineStates] /\ w \in Passes
  BY DEF Held, TInv, TypeOK
<1>1. ASSUME DropNow
      PROVE  w.at = <<u, e>> /\ pg'[e].pwd[u] = NoPassword
  <2>1. w.at \in Users \X Engines
    BY <1>1 DEF DropNow, Held, TInv, TypeOK
  <2>2. PICK v \in Users, f \in Engines : v = w.at[1] /\ f = w.at[2]
    BY <2>1
  <2>3. pg' = [pg EXCEPT ![f] = DropRole(@, v)]
    BY <1>1, <2>2 DEF DropNow
  <2>4. DropRole(pg[f], v).pwd = [pg[f].pwd EXCEPT ![v] = NoPassword]
    BY <1>t DEF DropRole, EngineStates
  <2>5. pg[f].pwd \in [Users -> Passwords \union {NoPassword}]
    BY <1>t DEF EngineStates
  <2>6. e = f
    BY <1>t, <2>3
  <2>7. u = v /\ pg'[e].pwd[u] = NoPassword
    BY <1>t, <2>3, <2>4, <2>5, <2>6
  <2> QED BY <2>1, <2>2, <2>6, <2>7
<1>2. ASSUME NEW f \in Engines, RoleCreate(f)
      PROVE  e = f /\ u = w.user /\ pg'[e].pwd[u] = w.pwd
  <2>1. pg' = [pg EXCEPT ![f] = CreateUserRole(@, w.user, w.pwd, seen.attr)]
    BY <1>2 DEF RoleCreate
  <2>2. CreateUserRole(pg[f], w.user, w.pwd, seen.attr).pwd = [pg[f].pwd EXCEPT ![w.user] = w.pwd]
    BY <1>t DEF CreateUserRole, EngineStates
  <2>3. pg[f].pwd \in [Users -> Passwords \union {NoPassword}]
    BY <1>t DEF EngineStates
  <2> QED BY <1>t, <2>1, <2>2, <2>3
<1>3. ASSUME NEW f \in Engines, RoleAlter(f)
      PROVE  FALSE
  <2>1. pg' = [pg EXCEPT ![f] = AlterRoleAttributes(@, w.user, seen.attr)]
    BY <1>3 DEF RoleAlter
  <2>2. AlterRoleAttributes(pg[f], w.user, seen.attr).pwd = pg[f].pwd
    BY <1>t DEF AlterRoleAttributes, EngineStates
  <2> QED BY <1>t, <2>1, <2>2
<1>4. ASSUME RolePassword
      PROVE  e = w.at[2] /\ u = w.user /\ pg'[e].pwd[u] = w.pwd
  <2>1. w.at[2] \in Engines
    BY <1>4 DEF RolePassword, Held, TInv, TypeOK
  <2>2. PICK f \in Engines : f = w.at[2]
    BY <2>1
  <2>3. pg[f].pwd \in [Users -> Passwords \union {NoPassword}]
    BY <1>t DEF EngineStates
  <2>4. pg'[f].pwd = pg[f].pwd \/ pg'[f].pwd = [pg[f].pwd EXCEPT ![w.user] = w.pwd]
    BY <1>4, <1>t, <2>2 DEF RolePassword, GrantToOperator, UpdatePassword, EngineStates
  <2>5. e = f
    BY <1>4, <1>t, <2>2 DEF RolePassword
  <2> QED BY <2>2, <2>3, <2>4, <2>5
<1>5. ASSUME NEW d \in Databases, RightsOn(d)
      PROVE  FALSE
  <2>1. PICK f \in Engines :
          \E r : pg' = [pg EXCEPT ![f] =
                   AlterDefaultLoginRoleOnDatabase(GrantRole(@, r, w.user), w.user, r, d)]
    BY <1>5, EngineOfAssumption DEF RightsOn
  <2>2. PICK r :
          pg' = [pg EXCEPT ![f] =
                   AlterDefaultLoginRoleOnDatabase(GrantRole(@, r, w.user), w.user, r, d)]
    BY <2>1
  <2>3. AlterDefaultLoginRoleOnDatabase(GrantRole(pg[f], r, w.user), w.user, r, d).pwd = pg[f].pwd
    BY <1>t DEF GrantRole, AlterDefaultLoginRoleOnDatabase, EngineStates
  <2> QED BY <1>t, <2>2, <2>3
<1>6. ASSUME NEW f \in Engines, RevokeOn(f)
      PROVE  FALSE
  <2>1. PICK R, P : pg' = [pg EXCEPT ![f] = RevokeUserSetRoleOnDatabases(RevokeRoles(@, R, w.user), P)]
    BY <1>6 DEF RevokeOn
  <2>2. RevokeUserSetRoleOnDatabases(RevokeRoles(pg[f], R, w.user), P).pwd = pg[f].pwd
    BY <1>t DEF RevokeUserSetRoleOnDatabases, RevokeRoles, EngineStates
  <2> QED BY <1>t, <2>1, <2>2
<1>7. pg' # pg
  OBVIOUS
<1>8. ~Begin
  BY <1>7 DEF Begin, BeginNotFound, BeginDeletion, BeginMissing, BeginWait, BeginFinalizer,
              BeginWork, Read, engineVars
<1>9. ~WorkSecret
  BY <1>7 DEF WorkSecret, ManagedCreate, ManagedReplace, ManagedRotate, ManagedBlocked, ManagedKeep,
              ProvidedCreate, ProvidedReplace, ProvidedKeep, CreateWorkSecret, AtWorkSecret, engineVars
<1>10. DropOldRoles => DropNow
  BY <1>7 DEF DropOldRoles, DropAbsent, DropPostponed, DropDecided, DropFails, StopOnOldRoles,
              GoFinalize, GoManageRoles, Finalize, engineVars
<1>11. ManageRoles => \/ \E f \in Engines : RoleCreate(f) \/ RoleAlter(f)
                      \/ RolePassword
  BY <1>7 DEF ManageRoles, RecordRole
<1>12. ~ManageRights
  BY <1>5, <1>6, <1>7 DEF ManageRights, RightsFail, GoManageSecrets, engineVars
<1>13. ~ManageSecrets /\ ~Fail /\ ~Crash /\ ~UNCHANGED vars
  BY <1>7 DEF ManageSecrets, SecretOn, CleanOldSecrets, ManageSuccess, Fail, Crash, engineVars, vars
<1>14. ~Environment
  BY <1>7, EnvironmentFrame
<1> QED BY <1>1, <1>2, <1>3, <1>4, <1>8, <1>9, <1>10, <1>11, <1>12, <1>13, <1>14 DEF Next, Pass

(* A role that exists did before, or the pass that works on it made it.    *)
LEMMA RoleMade ==
    ASSUME Held, [Next]_vars, NEW e \in Engines, NEW u \in Users,
           IsRoleExist(pg[e], u)', ~IsRoleExist(pg[e], u)
    PROVE  u = w.user /\ \/ RoleCreate(e)
                         \/ RolePassword /\ e = w.at[2]
<1>1. pg'[e].pwd[u] # pg[e].pwd[u] /\ pg'[e].pwd[u] # NoPassword
  BY DEF IsRoleExist
<1> QED BY <1>1, PasswordStep

-----------------------------------------------------------------------------
(* The plans.                                                              *)

OneEngine == \E e \in Engines : \A d \in Databases : EngineOf[d] = e

RemembersPlan(plan) ==
    /\ plan.edits.kinds \intersect {"work", "workuser"} = {}
    /\ "stale" \notin plan.faults.kinds
    /\ "privileges" \in plan.edits.kinds => OneEngine
    /\ "crash" \in plan.faults.kinds => RotationPlan(plan)

Crashes == "crash" \in faults.kinds

Remembers ==
    /\ edits.kinds \intersect {"work", "workuser"} = {}
    /\ "stale" \notin faults.kinds
    /\ "privileges" \in edits.kinds => OneEngine
    /\ Crashes => RotationOnly

(* What no step changes, or only in one way.                               *)
LEMMA Onward ==
    ASSUME TypeOK, [Next]_vars
    PROVE  /\ cr'.period = cr.period
           /\ cr.deleting => cr'.deleting
           /\ clock' \in {clock, clock + 1}
           /\ "prefix" \notin edits.kinds => cr'.prefix = cr.prefix
           /\ w.pc # "idle" => UNCHANGED seen
<1>t. cr \in Resources
  BY DEF TypeOK
<1>1. CASE Begin
  <2>1. PICK copy \in CacheCopies :
          \/ BeginNotFound(copy[1], copy[2]) \/ BeginDeletion(copy[1], copy[2])
          \/ BeginMissing(copy[1], copy[2]) \/ BeginWait(copy[1], copy[2])
          \/ BeginFinalizer(copy[1], copy[2]) \/ BeginWork(copy[1], copy[2])
    BY <1>1 DEF Begin
  <2>2. /\ seen' = copy[1] /\ w.pc = "idle" /\ UNCHANGED clock
        /\ cr' = cr \/ cr' = [cr EXCEPT !.finalizer = TRUE]
    BY <2>1 DEF BeginNotFound, BeginDeletion, BeginMissing, BeginWait, BeginFinalizer, BeginWork,
                Read, crVars
  <2> QED BY <1>t, <2>2 DEF Resources
<1>2. CASE WorkSecret \/ ManageRoles \/ ManageRights \/ ManageSecrets \/ Fail \/ Crash \/ UNCHANGED vars
  <2>1. UNCHANGED <<cr, clock, seen>>
    BY <1>2 DEF WorkSecret, ManagedCreate, ManagedReplace, ManagedRotate, ManagedBlocked,
                ManagedKeep, ProvidedCreate, ProvidedReplace, ProvidedKeep, CreateWorkSecret,
                AtWorkSecret, ManageRoles, RoleCreate, RoleAlter, RolePassword, RecordRole,
                ManageRights, RightsOn, RightsFail, RevokeOn, GoManageSecrets, ManageSecrets,
                SecretOn, CleanOldSecrets, ManageSuccess, OnEngines, Fail, Crash, crVars, vars
  <2> QED BY <2>1
<1>3. CASE DropOldRoles
  <2>1. /\ UNCHANGED <<clock, seen>>
        /\ cr' = cr \/ cr' = [cr EXCEPT !.exists = FALSE, !.finalizer = FALSE]
    BY <1>3 DEF DropOldRoles, DropAbsent, DropPostponed, DropDecided, DropNow, DropFails,
                StopOnOldRoles, GoFinalize, GoManageRoles, Finalize, Examine, OldRoles, crVars
  <2> QED BY <1>t, <2>1 DEF Resources
<1>4. CASE Environment
  <2>1. UNCHANGED seen
    BY <1>4, EnvironmentFrame
  <2>2. clock' \in {clock, clock + 1}
    BY <1>4 DEF Environment, SetPrefix, SetPrivilege, SetAttributes, DeleteResource,
                DeleteWorkSecret, RemoveWorkPassword, RemoveWorkUser, DeleteGeneratedSecret,
                SetImport, Edit, CreateDatabase, ProvisionDatabase, Connect, Disconnect, Tick
  <2>3. \/ cr' = cr
        \/ \E prefix \in Prefixes : SetPrefix(prefix)
        \/ \E d \in Databases, p \in Privileges \union {NoPrivilege} : SetPrivilege(d, p)
        \/ \E attr \in Attributes : SetAttributes(attr)
        \/ DeleteResource
    BY <1>4 DEF Environment, DeleteWorkSecret, RemoveWorkPassword, RemoveWorkUser,
                DeleteGeneratedSecret, SetImport, CreateDatabase, ProvisionDatabase, Connect,
                Disconnect, Tick, crVars
  <2>4. cr'.period = cr.period /\ (cr.deleting => cr'.deleting)
    BY <1>t, <2>3 DEF SetPrefix, SetPrivilege, SetAttributes, DeleteResource, Resources
  <2>5. "prefix" \notin edits.kinds => cr'.prefix = cr.prefix
    BY <1>t, <2>3 DEF SetPrefix, SetPrivilege, SetAttributes, DeleteResource, Edit, Allowed, Resources
  <2> QED BY <2>1, <2>2, <2>4, <2>5
<1> QED BY <1>1, <1>2, <1>3, <1>4 DEF Next, Pass

(* A pass that starts found the resource as it is stored.                  *)
LEMMA StartsFresh ==
    ASSUME TypeOK, Remembers, [Next]_vars, w.pc = "idle", w'.pc # "idle", ~seen'.deleting
    PROVE  ~cr.deleting
<1>1. ~WorkSecret /\ ~DropOldRoles /\ ~ManageRoles /\ ~ManageRights /\ ~ManageSecrets /\ ~Fail /\ ~Crash
  BY DEF WorkSecret, ManagedCreate, ManagedReplace, ManagedRotate, ManagedBlocked, ManagedKeep,
         ProvidedCreate, ProvidedReplace, ProvidedKeep, CreateWorkSecret, AtWorkSecret,
         DropOldRoles, DropAbsent, DropPostponed, DropDecided, DropNow, DropFails,
         StopOnOldRoles, GoFinalize, GoManageRoles, Finalize, Examine, AllExamined,
         ManageRoles, RoleCreate, RoleAlter, RolePassword, RecordRole, ManageRights,
         RightsOn, RightsFail, RevokeOn, GoManageSecrets, ManageSecrets, SecretOn,
         CleanOldSecrets, ManageSuccess, Fail, Crash
<1>2. ~Environment /\ ~UNCHANGED vars
  BY EnvironmentFrame DEF vars
<1>3. Begin
  BY <1>1, <1>2 DEF Next, Pass
<1>4. PICK copy \in CacheCopies :
        \/ BeginNotFound(copy[1], copy[2]) \/ BeginDeletion(copy[1], copy[2])
        \/ BeginMissing(copy[1], copy[2]) \/ BeginWait(copy[1], copy[2])
        \/ BeginFinalizer(copy[1], copy[2]) \/ BeginWork(copy[1], copy[2])
  BY <1>3 DEF Begin
<1>5. seen' = copy[1]
  BY <1>4 DEF BeginNotFound, BeginDeletion, BeginMissing, BeginWait, BeginFinalizer, BeginWork, Read
<1>6. copy[1] = cr
  BY DEF CacheCopies, Remembers
<1> QED BY <1>5, <1>6

(* The status says that a rotation is due; after a crash it may be due     *)
(* again, and take back the role it took out of the work secret.           *)
Due == cr.period # 0 /\ st.last # Never /\ clock - st.last >= cr.period
Owed == Crashes /\ Due

LEMMA OwedKept ==
    ASSUME TypeOK, [Next]_vars, st'.last = st.last, Owed
    PROVE  Owed'
<1>1. /\ st.last \in Nat /\ clock \in Nat /\ cr.period \in Nat
      /\ cr'.period = cr.period /\ clock' \in {clock, clock + 1}
  BY Onward DEF TypeOK, Statuses, Resources
<1>2. Due'
  BY <1>1 DEF Owed, Due
<1>3. Crashes'
  BY KindsKept DEF Owed, Crashes
<1> QED BY <1>2, <1>3 DEF Owed

(* What a pass knows is not contradicted by what is stored.                *)
Faithful ==
    /\ seen.deleting => cr.deleting
    /\ (seen.exists /\ ~cr.deleting) => cr.exists
    /\ EnginesOf(PrivilegedDatabases(seen)) \subseteq EnginesOf(PrivilegedDatabases(cr))
    /\ w.pc # "idle" => seen.exists /\ orig = st
    /\ w.pc = "finalize" => seen.deleting
    /\ ~work.exists => work.user = NoUser
    /\ (w.pc \notin {"idle", "work"} /\ ~seen.deleting) =>
         work.exists /\ w.user = work.user /\ w.pwd = work.pwd
    /\ w.pc \in {"role", "password"} => w.todo \subseteq EnginesOf(w.dbs)
    /\ w.pc = "password" => w.at[2] \in EnginesOf(w.dbs)
    /\ seen.period = cr.period
    /\ w.pc = "work" => mem.last = st.last

(* Where the role u of the engine e is remembered: the work secret holds   *)
(* it, or the old roles do, those in memory while a pass runs; if not, a   *)
(* crash lost it and a rotation is due.  A pass that drops has it still to *)
(* examine, or keeps it.                                                   *)
Known(e, u) ==
    /\ ~cr.deleting => e \in EnginesOf(PrivilegedDatabases(cr))
    /\ ((w.pc = "idle" \/ Crashes) /\ ~cr.deleting) => u \in {work.user} \union st.old \/ Owed
    /\ (w.pc # "idle" /\ ~seen.deleting) =>
         /\ e \in EnginesOf(w.dbs)
         /\ u \in {work.user} \union mem.old \/ (w.pc = "work" /\ Owed)
    /\ (w.pc \in {"drop", "dropping"} /\ ~seen.deleting) =>
         u = work.user \/ <<u, e>> \in w.pairs \/ u \in w.kept

AllKnown == \A e \in Engines, u \in Users : IsRoleExist(pg[e], u) => Known(e, u)

(* Without a work secret there is no role yet.                             *)
NoneYet ==
    (~work.exists /\ (~cr.deleting \/ (w.pc # "idle" /\ ~seen.deleting))) =>
        \A e \in Engines, u \in Users : ~IsRoleExist(pg[e], u)

(* A resource that only rotates has the two usernames of its prefix.       *)
Alternates ==
    Crashes =>
        /\ RInv
        /\ work.exists => work.user \in {cr.prefix} \X Suffixes
        /\ \A e \in Engines, u \in Users : IsRoleExist(pg[e], u) => u \in {cr.prefix} \X Suffixes

MInv == ReadyInv /\ Faithful /\ AllKnown /\ NoneYet /\ Alternates

LEMMA Reach ==
    /\ \A D, E : D \subseteq E => EnginesOf(D) \subseteq EnginesOf(E)
    /\ MInv /\ w.pc # "idle" /\ ~seen.deleting =>
         EnginesOf(w.dbs) \subseteq EnginesOf(PrivilegedDatabases(cr))
<1>1. \A D, E : D \subseteq E => EnginesOf(D) \subseteq EnginesOf(E)
  BY DEF EnginesOf
<1>2. MInv /\ w.pc # "idle" /\ ~seen.deleting => w.dbs = PrivilegedDatabases(seen)
  BY DEF MInv, ReadyInv, InHand, AllPrivileges
<1> QED BY <1>1, <1>2 DEF MInv, Faithful

(* The patch of a pass that read what is stored leaves what it means to.   *)
LEMMA PatchExact ==
    ASSUME cr.exists, orig = st, NEW n
    PROVE  /\ StatusPatch(orig, n).old = n.old
           /\ StatusPatch(orig, n).role = n.role
           /\ StatusPatch(orig, n).last = n.last
BY DEF StatusPatch, Merged

LEMMA ErrorPatch ==
    ASSUME NEW o, NEW m \in Statuses, ManageError(o, m)
    PROVE  /\ w'.pc = "idle"
           /\ \E n : st' = StatusPatch(o, n) /\ n.old = m.old /\ n.role = m.role /\ n.last = m.last
<1> DEFINE n == [m EXCEPT !.ready = FALSE, !.phase = "Failed"]
<1>1. st' = StatusPatch(o, n) /\ w'.pc = "idle"
  BY ValuesType DEF ManageError, EndPass
<1>2. n.old = m.old /\ n.role = m.role /\ n.last = m.last
  BY DEF Statuses
<1> HIDE DEF n
<1> QED BY <1>1, <1>2

(* A pass that ends writes the old roles it has, or those it kept.         *)
LEMMA KnownAtEnd ==
    ASSUME MInv, [Next]_vars, w.pc # "idle", w'.pc = "idle", UNCHANGED <<cr, work, pg, seen>>,
           NEW n, st' = StatusPatch(orig, n), n.last = mem.last,
           n.old = mem.old \/ (w.pc = "drop" /\ w.pairs = {} /\ n.old = w.kept)
    PROVE  Faithful' /\ AllKnown'
<1>1. Faithful'
  BY DEF MInv, Faithful, EnginesOf, PrivilegedDatabases
<1>2. ASSUME NEW e \in Engines, NEW u \in Users, IsRoleExist(pg[e], u), ~cr.deleting
      PROVE  /\ e \in EnginesOf(PrivilegedDatabases(cr))
             /\ u \in {work.user} \union st'.old \/ Owed'
  <2>1. ~seen.deleting /\ orig = st /\ cr.exists
    BY <1>2 DEF MInv, Faithful
  <2>2. st'.old = n.old /\ st'.last = mem.last
    BY <2>1, PatchExact
  <2>3. Known(e, u)
    BY <1>2 DEF MInv, AllKnown
  <2>4. CASE w.pc = "work" /\ Owed
    <3>1. st'.last = st.last
      BY <2>2, <2>4 DEF MInv, Faithful
    <3>2. Owed'
      BY <2>4, <3>1, OwedKept DEF MInv, ReadyInv, Held, TInv
    <3> QED BY <1>2, <2>3, <3>2 DEF Known
  <2> QED BY <1>2, <2>1, <2>2, <2>3, <2>4 DEF Known
<1>3. AllKnown'
  BY <1>2 DEF AllKnown, Known, IsRoleExist, EnginesOf, PrivilegedDatabases
<1> QED BY <1>1, <1>3

(* A pass past the old roles that goes on.                                 *)
LEMMA KnownByPass ==
    ASSUME MInv, [Next]_vars, UNCHANGED <<cr, st, work, seen, orig>>,
           w.pc \notin {"idle", "work", "drop", "dropping"},
           w'.pc \notin {"idle", "work", "drop", "dropping", "finalize"},
           w'.dbs = w.dbs, w'.user = w.user, w'.pwd = w.pwd, mem'.old = mem.old,
           w'.pc \in {"role", "password"} => w'.todo \subseteq EnginesOf(w.dbs),
           w'.pc = "password" => w'.at[2] \in EnginesOf(w.dbs)
    PROVE  Faithful' /\ AllKnown'
<1>0. Crashes' = Crashes /\ (Owed => Owed')
  BY OwedKept, KindsKept DEF MInv, ReadyInv, Held, TInv, Crashes
<1>1. EnginesOf(w.dbs)' = EnginesOf(w.dbs)
      /\ EnginesOf(PrivilegedDatabases(cr))' = EnginesOf(PrivilegedDatabases(cr))
      /\ EnginesOf(PrivilegedDatabases(seen))' = EnginesOf(PrivilegedDatabases(seen))
  BY DEF EnginesOf, PrivilegedDatabases
<1>2. Faithful'
  BY <1>1 DEF MInv, Faithful
<1>3. ASSUME NEW e \in Engines, NEW u \in Users, IsRoleExist(pg[e], u)'
      PROVE  Known(e, u)'
  <2>1. CASE IsRoleExist(pg[e], u)
    <3>1. Known(e, u)
      BY <2>1 DEF MInv, AllKnown
    <3> QED BY <1>0, <1>1, <3>1 DEF Known
  <2>2. CASE ~IsRoleExist(pg[e], u)
    <3>1. /\ u = w.user
          /\ \/ w.pc = "role" /\ e \in w.todo
             \/ w.pc = "password" /\ e = w.at[2]
      BY <1>3, <2>2, RoleMade DEF MInv, ReadyInv, RoleCreate, RolePassword
    <3>2. ~seen.deleting
      BY <3>1 DEF MInv, ReadyInv, Held, TInv, UserInHand
    <3>3. e \in EnginesOf(w.dbs) /\ u = work.user
      BY <3>1, <3>2 DEF MInv, Faithful
    <3>4. e \in EnginesOf(PrivilegedDatabases(cr))
      BY <3>1, <3>2, <3>3, Reach
    <3> QED BY <1>1, <3>3, <3>4 DEF Known
  <2> QED BY <2>1, <2>2
<1>4. AllKnown'
  BY <1>3 DEF AllKnown
<1> QED BY <1>2, <1>4

LEMMA KnownByManageRoles ==
    ASSUME MInv, [Next]_vars, ManageRoles
    PROVE  Faithful' /\ AllKnown'
<1> USE DEF OnEngines, crVars, secretVars
<1>w. w \in Passes /\ mem \in Statuses
  BY DEF MInv, ReadyInv, Held, TInv, TypeOK
<1>t. w.pc \in {"role", "password"} => w.todo \subseteq EnginesOf(w.dbs)
  BY DEF MInv, Faithful
<1>1. ASSUME NEW e \in Engines, RoleCreate(e)
      PROVE  Faithful' /\ AllKnown'
  <2>1. /\ w.pc = "role" /\ w'.pc = "role" /\ w'.dbs = w.dbs /\ w'.user = w.user /\ w'.pwd = w.pwd
        /\ w'.todo \subseteq w.todo
    BY <1>1, <1>w DEF RoleCreate, Passes
  <2> QED BY <1>1, <1>t, <2>1, KnownByPass DEF RoleCreate
<1>2. ASSUME NEW e \in Engines, RoleAlter(e)
      PROVE  Faithful' /\ AllKnown'
  <2>1. /\ w.pc = "role" /\ w'.pc = "password" /\ w'.dbs = w.dbs /\ w'.user = w.user
        /\ w'.pwd = w.pwd /\ w'.todo = w.todo /\ w'.at = <<w.user, e>> /\ e \in w.todo
    BY <1>2, <1>w DEF RoleAlter, Passes
  <2>2. w'.at[2] \in EnginesOf(w.dbs)
    BY <1>t, <2>1
  <2> QED BY <1>2, <1>t, <2>1, <2>2, KnownByPass DEF RoleAlter
<1>3. CASE RolePassword
  <2>1. /\ w.pc = "password" /\ w'.pc = "role" /\ w'.dbs = w.dbs /\ w'.user = w.user
        /\ w'.pwd = w.pwd /\ w'.todo \subseteq w.todo
    BY <1>3, <1>w DEF RolePassword, Passes
  <2> QED BY <1>3, <1>t, <2>1, KnownByPass DEF RolePassword
<1>4. CASE RecordRole
  <2>1. /\ w.pc = "role" /\ w'.pc = "rights" /\ w'.dbs = w.dbs /\ w'.user = w.user
        /\ w'.pwd = w.pwd
    BY <1>4, <1>w DEF RecordRole, Passes
  <2>2. mem'.old = mem.old
    BY <1>4, <1>w DEF RecordRole, Statuses
  <2> QED BY <1>4, <2>1, <2>2, KnownByPass DEF RecordRole
<1> QED BY <1>1, <1>2, <1>3, <1>4 DEF ManageRoles

LEMMA KnownByRightsAndSecrets ==
    ASSUME MInv, [Next]_vars, ManageRights \/ ManageSecrets
    PROVE  Faithful' /\ AllKnown'
<1> USE DEF OnEngines, crVars, secretVars, engineVars
<1>w. w \in Passes /\ mem \in Statuses
  BY DEF MInv, ReadyInv, Held, TInv, TypeOK
<1>1. ASSUME NEW d \in Databases, RightsOn(d)
      PROVE  Faithful' /\ AllKnown'
  <2>1. /\ w.pc = "rights" /\ w'.pc = "rights" /\ w'.dbs = w.dbs /\ w'.user = w.user
        /\ w'.pwd = w.pwd
    BY <1>1, <1>w DEF RightsOn, Passes
  <2> QED BY <1>1, <2>1, KnownByPass DEF RightsOn
<1>2. ASSUME NEW d \in Databases, RightsFail(d)
      PROVE  Faithful' /\ AllKnown'
  <2>1. w.pc = "rights" /\ UNCHANGED <<cr, work, pg, seen>> /\ ManageError(orig, mem)
    BY <1>2 DEF RightsFail
  <2> QED BY <1>w, <2>1, ErrorPatch, KnownAtEnd
<1>3. ASSUME NEW e \in Engines, RevokeOn(e)
      PROVE  Faithful' /\ AllKnown'
  <2>1. /\ w.pc = "rights" /\ w'.pc = "rights" /\ w'.dbs = w.dbs /\ w'.user = w.user
        /\ w'.pwd = w.pwd
    BY <1>3, <1>w DEF RevokeOn, Passes
  <2> QED BY <1>3, <2>1, KnownByPass DEF RevokeOn
<1>4. CASE GoManageSecrets
  <2>1. /\ w.pc = "rights" /\ w'.pc = "secrets" /\ w'.dbs = w.dbs /\ w'.user = w.user
        /\ w'.pwd = w.pwd
    BY <1>4, <1>w DEF GoManageSecrets, Passes
  <2> QED BY <1>4, <2>1, KnownByPass DEF GoManageSecrets
<1>5. ASSUME NEW d \in Databases, SecretOn(d)
      PROVE  Faithful' /\ AllKnown'
  <2>1. /\ w.pc = "secrets" /\ w'.pc = "secrets" /\ w'.dbs = w.dbs /\ w'.user = w.user
        /\ w'.pwd = w.pwd
    BY <1>5, <1>w DEF SecretOn, Passes
  <2> QED BY <1>5, <2>1, KnownByPass DEF SecretOn
<1>6. CASE CleanOldSecrets
  <2>1. /\ w.pc = "secrets" /\ w'.pc = "success" /\ w'.dbs = w.dbs /\ w'.user = w.user
        /\ w'.pwd = w.pwd
    BY <1>6, <1>w DEF CleanOldSecrets, Passes
  <2> QED BY <1>6, <2>1, KnownByPass DEF CleanOldSecrets
<1>7. CASE ManageSuccess
  <2> DEFINE n == [mem EXCEPT !.ready = TRUE, !.phase = "Created"]
  <2>1. /\ w.pc = "success" /\ w'.pc = "idle" /\ UNCHANGED <<cr, work, pg, seen>>
        /\ st' = StatusPatch(orig, n)
    BY <1>7, ValuesType DEF ManageSuccess, EndPass
  <2>2. n.old = mem.old /\ n.last = mem.last
    BY <1>w DEF Statuses
  <2> HIDE DEF n
  <2> QED BY <2>1, <2>2, KnownAtEnd
<1> QED BY <1>1, <1>2, <1>3, <1>4, <1>5, <1>6, <1>7 DEF ManageRights, ManageSecrets

(* A pass that is still with the old roles: a role left the pairs to       *)
(* examine because it is gone or is kept.                                  *)
LEMMA KnownByDrop ==
    ASSUME MInv, [Next]_vars, UNCHANGED <<cr, st, work, seen, orig, mem>>,
           w.pc \in {"drop", "dropping"}, w'.pc \in {"drop", "dropping"},
           w'.dbs = w.dbs, w'.user = w.user, w'.pwd = w.pwd, w.kept \subseteq w'.kept,
           \A e \in Engines, u \in Users :
             IsRoleExist(pg[e], u)' => /\ IsRoleExist(pg[e], u)
                                       /\ <<u, e>> \in w.pairs => <<u, e>> \in w'.pairs \/ u \in w'.kept
    PROVE  Faithful' /\ AllKnown'
<1>0. Crashes' = Crashes /\ (Owed => Owed')
  BY OwedKept, KindsKept DEF MInv, ReadyInv, Held, TInv, Crashes
<1>1. EnginesOf(w.dbs)' = EnginesOf(w.dbs)
      /\ EnginesOf(PrivilegedDatabases(cr))' = EnginesOf(PrivilegedDatabases(cr))
      /\ EnginesOf(PrivilegedDatabases(seen))' = EnginesOf(PrivilegedDatabases(seen))
  BY DEF EnginesOf, PrivilegedDatabases
<1>2. Faithful'
  BY <1>1 DEF MInv, Faithful
<1>3. ASSUME NEW e \in Engines, NEW u \in Users, IsRoleExist(pg[e], u)'
      PROVE  Known(e, u)'
  <2>1. IsRoleExist(pg[e], u)
    BY <1>3
  <2>2. Known(e, u)
    BY <2>1 DEF MInv, AllKnown
  <2>3. <<u, e>> \in w.pairs => <<u, e>> \in w'.pairs \/ u \in w'.kept
    BY <1>3
  <2> QED BY <1>0, <1>1, <2>2, <2>3 DEF Known
<1>4. AllKnown'
  BY <1>3 DEF AllKnown
<1> QED BY <1>2, <1>4

LEMMA KnownByDropOldRoles ==
    ASSUME MInv, [Next]_vars, DropOldRoles
    PROVE  Faithful' /\ AllKnown'
<1> USE DEF OldRoles, crVars, secretVars, engineVars
<1>w. /\ w \in Passes /\ mem \in Statuses /\ pg \in [Engines -> EngineStates]
      /\ w.pc = "dropping" => w.at \in Users \X Engines
  BY DEF MInv, ReadyInv, Held, TInv, TypeOK
<1>0. Crashes' = Crashes /\ (st' = st /\ Owed => Owed')
  BY OwedKept, KindsKept DEF MInv, ReadyInv, Held, TInv, Crashes
<1>p. pg' = pg => \A e \in Engines, u \in Users : IsRoleExist(pg[e], u)' => IsRoleExist(pg[e], u)
  BY DEF IsRoleExist
<1>1. ASSUME NEW v \in Users, NEW f \in Engines, DropAbsent(v, f)
      PROVE  Faithful' /\ AllKnown'
  <2>1. /\ w.pc = "drop" /\ w'.pc = "drop" /\ w'.dbs = w.dbs /\ w'.user = w.user
        /\ w'.pwd = w.pwd /\ w'.kept = w.kept /\ w'.pairs = w.pairs \ {<<v, f>>}
        /\ UNCHANGED <<cr, st, work, seen, orig, mem, pg>>
    BY <1>1, <1>w DEF DropAbsent, Examine, Passes
  <2>2. ~IsRoleExist(pg[f], v)
    BY <1>1 DEF DropAbsent
  <2>3. ASSUME NEW e \in Engines, NEW u \in Users, IsRoleExist(pg[e], u), <<u, e>> \in w.pairs
        PROVE  <<u, e>> \in w'.pairs
    BY <2>1, <2>2, <2>3
  <2> QED BY <1>p, <2>1, <2>3, KnownByDrop
<1>2. ASSUME NEW v \in Users, NEW f \in Engines, DropPostponed(v, f)
      PROVE  Faithful' /\ AllKnown'
  <2>1. /\ w.pc = "drop" /\ w'.pc = "drop" /\ w'.dbs = w.dbs /\ w'.user = w.user
        /\ w'.pwd = w.pwd /\ w'.kept = w.kept \union {v} /\ w'.pairs = w.pairs \ {<<v, f>>}
        /\ UNCHANGED <<cr, st, work, seen, orig, mem, pg>>
    BY <1>2, <1>w DEF DropPostponed, Examine, Passes
  <2>2. ASSUME NEW e \in Engines, NEW u \in Users, <<u, e>> \in w.pairs
        PROVE  <<u, e>> \in w'.pairs \/ u \in w'.kept
    BY <2>1, <2>2
  <2> QED BY <1>p, <2>1, <2>2, KnownByDrop
<1>3. ASSUME NEW v \in Users, NEW f \in Engines, DropDecided(v, f)
      PROVE  Faithful' /\ AllKnown'
  <2>1. /\ w.pc = "drop" /\ w'.pc = "dropping" /\ w'.dbs = w.dbs /\ w'.user = w.user
        /\ w'.pwd = w.pwd /\ w'.kept = w.kept /\ w'.pairs = w.pairs
        /\ UNCHANGED <<cr, st, work, seen, orig, mem, pg>>
    BY <1>3, <1>w DEF DropDecided, Examine, Passes
  <2> QED BY <1>p, <2>1, KnownByDrop
<1>4. CASE DropNow
  <2>1. /\ w.pc = "dropping" /\ w'.pc = "drop" /\ w'.dbs = w.dbs /\ w'.user = w.user
        /\ w'.pwd = w.pwd /\ w'.kept = w.kept /\ w'.pairs = w.pairs \ {w.at}
        /\ UNCHANGED <<cr, st, work, seen, orig, mem>>
    BY <1>4, <1>w DEF DropNow, Passes
  <2>2. ASSUME NEW e \in Engines, NEW u \in Users, IsRoleExist(pg[e], u)'
        PROVE  IsRoleExist(pg[e], u) /\ <<u, e>> # w.at
    <3>1. IsRoleExist(pg[e], u)
      <4>1. w.pc # "role" /\ w.pc # "password"
        BY <2>1
      <4> QED BY <2>2, <4>1, RoleMade DEF MInv, ReadyInv, RoleCreate, RolePassword
    <3>2. ASSUME w.at = <<u, e>>
          PROVE  FALSE
      <4>1. pg' = [pg EXCEPT ![e] = DropRole(@, u)]
        BY <1>4, <3>2 DEF DropNow
      <4>2. pg'[e].pwd[u] = NoPassword
        BY <1>w, <4>1 DEF DropRole, EngineStates
      <4> QED BY <2>2, <4>2 DEF IsRoleExist
    <3> QED BY <3>1, <3>2
  <2>3. \A e \in Engines, u \in Users :
          IsRoleExist(pg[e], u)' => /\ IsRoleExist(pg[e], u)
                                    /\ <<u, e>> \in w.pairs => <<u, e>> \in w'.pairs
    BY <2>1, <2>2
  <2> QED BY <2>1, <2>3, KnownByDrop
<1>5. CASE DropFails
  <2>1. w.pc = "dropping" /\ UNCHANGED <<cr, work, pg, seen>> /\ ManageError(orig, mem)
    BY <1>5 DEF DropFails
  <2> QED BY <1>w, <2>1, ErrorPatch, KnownAtEnd
<1>6. CASE StopOnOldRoles
  <2> DEFINE m == [mem EXCEPT !.old = w.kept]
  <2>1. w.pc = "drop" /\ w.pairs = {} /\ UNCHANGED <<cr, work, pg, seen>> /\ ManageError(orig, m)
    BY <1>6 DEF StopOnOldRoles, AllExamined
  <2>2. m \in Statuses /\ m.old = w.kept /\ m.last = mem.last
    BY <1>w DEF Statuses, Passes
  <2> HIDE DEF m
  <2> QED BY <2>1, <2>2, ErrorPatch, KnownAtEnd
<1>7. CASE GoFinalize
  <2>1. seen.deleting /\ cr.deleting /\ UNCHANGED <<cr, st, work, seen, orig>>
    BY <1>7 DEF GoFinalize, MInv, Faithful
  <2>2. w.pc = "drop" /\ w'.pc = "finalize"
    BY <1>7, <1>w DEF GoFinalize, AllExamined, Passes
  <2>3. EnginesOf(PrivilegedDatabases(seen))' \subseteq EnginesOf(PrivilegedDatabases(cr))'
    BY <2>1 DEF MInv, Faithful, EnginesOf, PrivilegedDatabases
  <2>4. Faithful'
    BY <2>1, <2>2, <2>3 DEF MInv, Faithful
  <2>5. AllKnown'
    BY <2>1, <2>2 DEF AllKnown, Known
  <2> QED BY <2>4, <2>5
<1>8. CASE GoManageRoles
  <2>1. /\ ~seen.deleting /\ UNCHANGED <<cr, st, work, seen, orig, pg>>
        /\ w.pc = "drop" /\ w.pairs = {}
    BY <1>8 DEF GoManageRoles, AllExamined
  <2>2. /\ w'.pc = "role" /\ w'.dbs = w.dbs /\ w'.user = w.user /\ w'.pwd = w.pwd
        /\ w'.todo = EnginesOf(w.dbs)
    BY <1>8, <1>w DEF GoManageRoles, Passes
  <2>3. mem'.old = w.kept
    BY <1>8, <1>w DEF GoManageRoles, Statuses
  <2>4. EnginesOf(w.dbs)' = EnginesOf(w.dbs)
        /\ EnginesOf(PrivilegedDatabases(cr))' = EnginesOf(PrivilegedDatabases(cr))
        /\ EnginesOf(PrivilegedDatabases(seen))' = EnginesOf(PrivilegedDatabases(seen))
    BY <2>1, <2>2 DEF EnginesOf, PrivilegedDatabases
  <2>5. Faithful'
    BY <2>1, <2>2, <2>4 DEF MInv, Faithful
  <2>6. ASSUME NEW e \in Engines, NEW u \in Users, IsRoleExist(pg[e], u)'
        PROVE  Known(e, u)'
    <3>1. Known(e, u)
      BY <1>p, <2>1, <2>6 DEF MInv, AllKnown
    <3> QED BY <1>0, <2>1, <2>2, <2>3, <2>4, <3>1 DEF Known
  <2>7. AllKnown'
    BY <2>6 DEF AllKnown
  <2> QED BY <2>5, <2>7
<1>9. CASE Finalize
  <2>1. seen.deleting /\ cr.deleting /\ UNCHANGED seen /\ w'.pc = "idle"
    BY <1>9, ValuesType DEF Finalize, MInv, Faithful, ManageError, EndPass
  <2>2. CASE seen = cr /\ orig = st
    <3>1. cr' = [cr EXCEPT !.exists = FALSE, !.finalizer = FALSE] /\ work' = NoWorkSecret
      BY <1>9, <2>2 DEF Finalize
    <3>2. cr'.deleting = cr.deleting /\ cr'.privs = cr.privs /\ cr'.period = cr.period
      BY <3>1 DEF MInv, ReadyInv, Held, TInv, TypeOK, Resources
    <3>3. work'.user = NoUser
      BY <3>1 DEF NoWorkSecret
    <3>4. EnginesOf(PrivilegedDatabases(seen))' \subseteq EnginesOf(PrivilegedDatabases(cr))'
      BY <2>1, <3>2 DEF MInv, Faithful, EnginesOf, PrivilegedDatabases
    <3> QED BY <2>1, <3>2, <3>3, <3>4 DEF MInv, Faithful, AllKnown, Known
  <2>3. CASE ~(seen = cr /\ orig = st)
    <3>1. w.pc = "finalize" /\ UNCHANGED <<cr, work, pg, seen>> /\ ManageError(orig, mem)
      BY <1>9, <2>3 DEF Finalize
    <3> QED BY <1>w, <3>1, ErrorPatch, KnownAtEnd
  <2> QED BY <2>2, <2>3
<1> QED BY <1>1, <1>2, <1>3, <1>4, <1>5, <1>6, <1>7, <1>8, <1>9 DEF DropOldRoles

(* A role that only the rotation remembers is the one it takes next.       *)
LEMMA OwedReturns ==
    ASSUME MInv, Remembers, w.pc = "work", NEW e \in Engines, NEW u \in Users,
           IsRoleExist(pg[e], u), u \notin {work.user} \union mem.old
    PROVE  Owed /\ RotationDue /\ work.exists /\ u = NextUser(seen.prefix, work.user)
<1>1. ~seen.deleting
  BY DEF MInv, ReadyInv, Held, TInv, UserInHand
<1>2. Known(e, u)
  BY DEF MInv, AllKnown
<1>3. Owed
  BY <1>1, <1>2 DEF Known
<1>4. work.exists
  BY <1>1 DEF MInv, NoneYet
<1>5. mem.last = st.last /\ seen.period = cr.period
  BY DEF MInv, Faithful
<1>6. RotationDue
  BY <1>3, <1>5 DEF Owed, Due, RotationDue
<1>7. /\ work.user \in {cr.prefix} \X Suffixes /\ u \in {cr.prefix} \X Suffixes
      /\ seen.prefix = cr.prefix
  BY <1>3, <1>4 DEF Owed, MInv, Alternates, RInv, Copies
<1>8. PICK x \in Suffixes, y \in Suffixes : work.user = <<cr.prefix, x>> /\ u = <<cr.prefix, y>>
  BY <1>7
<1>9. x # y /\ work.user[2] = x
  BY <1>8
<1>10. u = NextUser(seen.prefix, work.user)
  BY <1>7, <1>8, <1>9 DEF NextUser, Suffixes
<1> QED BY <1>3, <1>4, <1>6, <1>10

(* The username that leaves the work secret joins the old ones.            *)
LEMMA KnownByProceed ==
    ASSUME MInv, [Next]_vars, AtWorkSecret, NEW user \in Users, NEW pwd, NEW oldUser, NEW pwChanged,
           NEW rotErr, Proceed(user, pwd, oldUser, pwChanged, rotErr),
           work'.exists, work'.user = user, work'.pwd = pwd,
           \A e \in Engines, u \in Users :
             IsRoleExist(pg[e], u) => /\ u \in {user, oldUser} \union mem.old
                                      /\ Crashes => u \in {user} \union mem.old \/ Owed
    PROVE  Faithful' /\ AllKnown'
<1>0. UNCHANGED st /\ Crashes' = Crashes /\ (Owed => Owed')
  BY OwedKept, KindsKept DEF AtWorkSecret, crVars, MInv, ReadyInv, Held, TInv, Crashes
<1>w. w \in Passes /\ mem \in Statuses /\ w.pc = "work" /\ ~seen.deleting
      /\ UNCHANGED <<cr, st, pg, seen, orig>>
  BY DEF AtWorkSecret, MInv, ReadyInv, Held, TInv, TypeOK, UserInHand, crVars, engineVars
<1>c. Crashes => mem.old = st.old
  BY <1>w DEF MInv, Alternates, RInv, Copies
<1> DEFINE old == IF oldUser \notin {user, NoUser} THEN mem.old \union {oldUser} ELSE mem.old
<1>1. /\ w'.pc = "drop" /\ w'.dbs = w.dbs /\ w'.user = user /\ w'.pwd = pwd
      /\ w'.pairs = old \X EnginesOf(w.dbs)
  BY <1>w DEF Proceed, Passes
<1>2. mem'.old = old
  BY <1>w DEF Proceed, Statuses
<1>3. EnginesOf(w.dbs)' = EnginesOf(w.dbs)
      /\ EnginesOf(PrivilegedDatabases(cr))' = EnginesOf(PrivilegedDatabases(cr))
      /\ EnginesOf(PrivilegedDatabases(seen))' = EnginesOf(PrivilegedDatabases(seen))
  BY <1>w, <1>1 DEF EnginesOf, PrivilegedDatabases
<1>4. Faithful'
  BY <1>w, <1>1, <1>3 DEF MInv, Faithful
<1>5. ASSUME NEW e \in Engines, NEW u \in Users, IsRoleExist(pg[e], u)'
      PROVE  Known(e, u)'
  <2>1. Known(e, u) /\ IsRoleExist(pg[e], u)
    BY <1>w, <1>5 DEF MInv, AllKnown, IsRoleExist
  <2>2. e \in EnginesOf(w.dbs)
    BY <1>w, <2>1 DEF Known
  <2>3. u \in {user} \union old
    BY <2>1, PrefixesAssumption
  <2>4. u = user \/ <<u, e>> \in old \X EnginesOf(w.dbs)
    BY <2>2, <2>3
  <2>5. Crashes => u \in {user} \union st.old \/ Owed
    BY <1>c, <2>1
  <2>6. ~cr.deleting => e \in EnginesOf(PrivilegedDatabases(cr))
    BY <2>1 DEF Known
  <2> HIDE DEF old
  <2> QED BY <1>0, <1>w, <1>1, <1>2, <1>3, <2>2, <2>3, <2>4, <2>5, <2>6 DEF Known
<1>6. AllKnown'
  BY <1>5 DEF AllKnown
<1> QED BY <1>4, <1>6

LEMMA KnownByWorkSecret ==
    ASSUME MInv, Remembers, [Next]_vars, WorkSecret
    PROVE  Faithful' /\ AllKnown'
<1>1. /\ work \in WorkSecrets /\ import.user \in Users \union {NoUser}
      /\ seen.mode = "PROVIDED" => import.user \in Users
      /\ ManagedUser(seen.prefix) \in Users
      /\ NextUser(seen.prefix, work.user) \in Users
  BY DEF MInv, ReadyInv, Held, TInv, UserInHand, TypeOK, WorkSecrets, Resources, Modes,
         Credentials, ManagedUser, NextUser, Users, Suffixes
<1>2. ASSUME NEW user, NEW pwd, WriteWorkSecret(user, pwd)
      PROVE  work'.exists /\ work'.user = user /\ work'.pwd = pwd
  BY <1>2 DEF WriteWorkSecret
<1>w. w.pc = "work" /\ ~seen.deleting
  BY DEF WorkSecret, ManagedCreate, ManagedReplace, ManagedRotate, ManagedBlocked, ManagedKeep,
         ProvidedCreate, ProvidedReplace, ProvidedKeep, CreateWorkSecret, AtWorkSecret,
         MInv, ReadyInv, Held, TInv, UserInHand
<1>k. ASSUME NEW e \in Engines, NEW u \in Users, IsRoleExist(pg[e], u),
             u \notin {work.user} \union mem.old
      PROVE  Owed /\ RotationDue /\ work.exists /\ u = NextUser(seen.prefix, work.user)
  BY <1>w, <1>k, OwedReturns
<1>3. ASSUME NEW user \in Users, NEW pwd, CreateWorkSecret(user, pwd)
      PROVE  Faithful' /\ AllKnown'
  <2>1. /\ AtWorkSecret /\ ~work.exists /\ WriteWorkSecret(user, pwd)
        /\ \E oldUser, pwChanged : Proceed(user, pwd, oldUser, pwChanged, FALSE)
    BY <1>3 DEF CreateWorkSecret
  <2>2. \A e \in Engines, u \in Users : ~IsRoleExist(pg[e], u)
    BY <1>w, <2>1 DEF MInv, NoneYet
  <2> QED BY <1>2, <2>1, <2>2, KnownByProceed
<1>4. CASE ManagedCreate
  BY <1>1, <1>3, <1>4 DEF ManagedCreate
<1>5. CASE ManagedReplace
  <2>1. /\ AtWorkSecret /\ WriteWorkSecret(ManagedUser(seen.prefix), FreshPassword)
        /\ Proceed(ManagedUser(seen.prefix), FreshPassword, work.user, TRUE, FALSE)
        /\ work.exists /\ (PrefixChanged \/ WorkSecretEdited)
    BY <1>5 DEF ManagedReplace
  <2>2. ~Crashes
    <3>1. SUFFICES ASSUME Crashes PROVE FALSE
      OBVIOUS
    <3>2. RInv
      BY <3>1 DEF MInv, Alternates
    <3>3. ~PrefixChanged
      BY <3>2 DEF PrefixChanged, RInv, Copies
    <3>4. work.user \in Prefixes \X Suffixes /\ work.pwd \in Passwords
      BY <2>1, <3>2 DEF RInv, WorkSecretKept
    <3>5. ~WorkSecretEdited
      BY <3>4, PrefixesAssumption, PasswordsAssumption DEF WorkSecretEdited, Users
    <3> QED BY <2>1, <3>3, <3>5
  <2>3. \A e \in Engines, u \in Users : IsRoleExist(pg[e], u) => u \in {work.user} \union mem.old
    BY <1>k, <2>2 DEF Owed
  <2> QED BY <1>1, <1>2, <2>1, <2>2, <2>3, KnownByProceed
<1>6. CASE ManagedRotate
  <2> DEFINE user == NextUser(seen.prefix, work.user)
  <2>1. /\ AtWorkSecret /\ WriteWorkSecret(user, FreshPassword) /\ RotationDue
        /\ Proceed(user, FreshPassword, work.user, TRUE, FALSE)
    BY <1>6 DEF ManagedRotate
  <2>2. Crashes => Owed
    <3>1. mem.last = st.last /\ seen.period = cr.period
      BY <1>w DEF MInv, Faithful
    <3> QED BY <2>1, <3>1 DEF Owed, Due, RotationDue
  <2>3. \A e \in Engines, u \in Users : IsRoleExist(pg[e], u) => u \in {user, work.user} \union mem.old
    BY <1>k
  <2>4. user \in Users
    BY <1>1
  <2> HIDE DEF user
  <2> QED BY <1>2, <2>1, <2>2, <2>3, <2>4, KnownByProceed
<1>7. ASSUME AtWorkSecret, UNCHANGED work, work.exists, work.user \in Users,
             NEW rotErr, Proceed(work.user, work.pwd, NoUser, FALSE, rotErr),
             ~RotationDue \/ NextUser(seen.prefix, work.user) \in mem.old
      PROVE  Faithful' /\ AllKnown'
  <2>1. \A e \in Engines, u \in Users : IsRoleExist(pg[e], u) => u \in {work.user} \union mem.old
    BY <1>k, <1>7
  <2> QED BY <1>7, <2>1, KnownByProceed
<1>8. CASE ManagedBlocked \/ ManagedKeep
  <2>1. /\ AtWorkSecret /\ work.exists /\ work.user # NoUser /\ UNCHANGED work
        /\ \E rotErr : Proceed(work.user, work.pwd, NoUser, FALSE, rotErr)
        /\ ~RotationDue \/ NextUser(seen.prefix, work.user) \in mem.old
    BY <1>8 DEF ManagedBlocked, ManagedKeep, WorkSecretEdited, RotationBlocked
  <2>2. work.user \in Users
    BY <1>1, <2>1 DEF WorkSecrets
  <2> QED BY <1>7, <2>1, <2>2
<1>9. CASE ProvidedCreate
  BY <1>1, <1>3, <1>9 DEF ProvidedCreate
<1>10. CASE ProvidedReplace \/ ProvidedKeep
  <2>1. seen.mode = "PROVIDED" /\ AtWorkSecret
    BY <1>10 DEF ProvidedReplace, ProvidedKeep
  <2>2. ~Crashes
    BY <2>1 DEF Remembers, RotationOnly
  <2>3. \A e \in Engines, u \in Users : IsRoleExist(pg[e], u) => u \in {work.user} \union mem.old
    BY <1>k, <2>2 DEF Owed
  <2>4. CASE ProvidedReplace
    BY <1>1, <1>2, <2>1, <2>2, <2>3, <2>4, KnownByProceed DEF ProvidedReplace
  <2>5. CASE ProvidedKeep
    BY <1>1, <2>1, <2>2, <2>3, <2>5, KnownByProceed DEF ProvidedKeep
  <2> QED BY <1>10, <2>4, <2>5
<1> QED BY <1>4, <1>5, <1>6, <1>8, <1>9, <1>10 DEF WorkSecret

LEMMA KnownByBegin ==
    ASSUME MInv, Remembers, [Next]_vars, Begin
    PROVE  Faithful' /\ AllKnown'
<1>0. Crashes' = Crashes /\ (st'.last = st.last /\ Owed => Owed')
  BY OwedKept, KindsKept DEF MInv, ReadyInv, Held, TInv, Crashes
<1>1. CacheCopies = {<<cr, st>>}
  BY DEF CacheCopies, Remembers
<1>2. \/ BeginNotFound(cr, st) \/ BeginDeletion(cr, st) \/ BeginMissing(cr, st)
      \/ BeginWait(cr, st) \/ BeginFinalizer(cr, st) \/ BeginWork(cr, st)
  BY <1>1 DEF Begin
<1>3. /\ w.pc = "idle" /\ seen' = cr /\ orig' = st /\ UNCHANGED <<work, pg>>
      /\ cr \in Resources /\ st \in Statuses
  BY <1>2 DEF BeginNotFound, BeginDeletion, BeginMissing, BeginWait, BeginFinalizer, BeginWork, Read,
              secretVars, engineVars, MInv, ReadyInv, Held, TInv, TypeOK
<1>4. \A e \in Engines, u \in Users :
        IsRoleExist(pg[e], u)' =>
          /\ ~cr.deleting => e \in EnginesOf(PrivilegedDatabases(cr))
          /\ ~cr.deleting => u \in {work.user} \union st.old \/ Owed
  BY <1>3 DEF MInv, AllKnown, Known, IsRoleExist
<1>p. cr'.period = cr.period
  BY Onward DEF MInv, ReadyInv, Held, TInv
<1>5. ASSUME w'.pc = "idle", cr'.deleting = cr.deleting, cr'.exists = cr.exists,
             cr'.privs = cr.privs, ~cr.deleting => st'.old = st.old /\ st'.last = st.last
      PROVE  Faithful' /\ AllKnown'
  <2>1. /\ EnginesOf(PrivilegedDatabases(cr))' = EnginesOf(PrivilegedDatabases(cr))
        /\ EnginesOf(PrivilegedDatabases(seen))' = EnginesOf(PrivilegedDatabases(cr))
    BY <1>3, <1>5 DEF EnginesOf, PrivilegedDatabases
  <2>2. Faithful'
    BY <1>3, <1>5, <1>p, <2>1 DEF MInv, Faithful
  <2>3. AllKnown'
    BY <1>0, <1>3, <1>4, <1>5, <2>1 DEF AllKnown, Known
  <2> QED BY <2>2, <2>3
<1>6. CASE BeginNotFound(cr, st) \/ BeginWait(cr, st)
  BY <1>3, <1>5, <1>6 DEF BeginNotFound, BeginWait, crVars
<1>7. CASE BeginMissing(cr, st) \/ BeginFinalizer(cr, st)
  <2>1. CASE ManageError(st, st) /\ UNCHANGED cr /\ cr.exists
    <3>1. w'.pc = "idle" /\ \E n : st' = StatusPatch(st, n) /\ n.old = st.old /\ n.last = st.last
      BY <1>3, <2>1, ErrorPatch
    <3>2. st'.old = st.old /\ st'.last = st.last
      BY <2>1, <3>1 DEF StatusPatch, Merged
    <3> QED BY <1>5, <2>1, <3>1, <3>2
  <2>2. CASE cr' = [cr EXCEPT !.finalizer = TRUE] /\ UNCHANGED <<st, mem, w>>
    <3>1. cr'.deleting = cr.deleting /\ cr'.exists = cr.exists /\ cr'.privs = cr.privs
      BY <1>3, <2>2 DEF Resources
    <3> QED BY <1>3, <1>5, <2>2, <3>1
  <2> QED BY <1>7, <2>1, <2>2 DEF BeginMissing, BeginFinalizer
<1>8. CASE BeginDeletion(cr, st)
  <2>1. cr.exists /\ cr.deleting /\ UNCHANGED <<cr, st>>
    BY <1>8 DEF BeginDeletion, crVars
  <2>2. w'.pc = "drop"
    BY <1>8 DEF BeginDeletion, NewPass, NoPass
  <2>3. /\ EnginesOf(PrivilegedDatabases(cr))' = EnginesOf(PrivilegedDatabases(cr))
        /\ EnginesOf(PrivilegedDatabases(seen))' = EnginesOf(PrivilegedDatabases(cr))
    BY <1>3, <2>1 DEF EnginesOf, PrivilegedDatabases
  <2>4. Faithful'
    BY <1>3, <2>1, <2>2, <2>3 DEF MInv, Faithful
  <2>5. AllKnown'
    BY <1>3, <2>1, <2>2 DEF AllKnown, Known
  <2> QED BY <2>4, <2>5
<1>9. CASE BeginWork(cr, st)
  <2>1. cr.exists /\ ~cr.deleting /\ UNCHANGED <<cr, st>> /\ mem' = st
    BY <1>9 DEF BeginWork, crVars
  <2>2. w'.pc = "work" /\ w'.dbs = PrivilegedDatabases(cr)
    BY <1>9 DEF BeginWork, NewPass, NoPass
  <2>3. /\ EnginesOf(PrivilegedDatabases(cr))' = EnginesOf(PrivilegedDatabases(cr))
        /\ EnginesOf(PrivilegedDatabases(seen))' = EnginesOf(PrivilegedDatabases(cr))
        /\ EnginesOf(w.dbs)' = EnginesOf(PrivilegedDatabases(cr))
    BY <1>3, <2>1, <2>2 DEF EnginesOf, PrivilegedDatabases
  <2>4. Faithful'
    BY <1>3, <2>1, <2>2, <2>3 DEF MInv, Faithful
  <2>5. AllKnown'
    BY <1>0, <1>3, <1>4, <2>1, <2>2, <2>3 DEF AllKnown, Known
  <2> QED BY <2>4, <2>5
<1> QED BY <1>2, <1>6, <1>7, <1>8, <1>9

(* What the administrator does to the resource: it never comes back from a *)
(* deletion, and with one engine its privileges reach what they reached.   *)
LEMMA EditFrame ==
    ASSUME TypeOK, Remembers, Environment
    PROVE  /\ UNCHANGED work
           /\ cr.deleting => cr'.deleting
           /\ ~cr'.deleting => cr'.exists = cr.exists
           /\ EnginesOf(PrivilegedDatabases(cr)) \subseteq EnginesOf(PrivilegedDatabases(cr'))
<1>t. cr \in Resources
  BY DEF TypeOK
<1>1. ~DeleteWorkSecret /\ ~RemoveWorkPassword /\ ~RemoveWorkUser
  BY DEF Remembers, DeleteWorkSecret, RemoveWorkPassword, RemoveWorkUser, Edit, Allowed
<1>2. UNCHANGED work
  BY <1>1 DEF Environment, SetPrefix, SetPrivilege, SetAttributes, DeleteResource,
              DeleteGeneratedSecret, SetImport, EditSpec, CreateDatabase, ProvisionDatabase, Connect,
              Disconnect, Tick, secretVars
<1>3. \/ UNCHANGED cr
      \/ \E prefix \in Prefixes : SetPrefix(prefix)
      \/ \E d \in Databases, p \in Privileges \union {NoPrivilege} : SetPrivilege(d, p)
      \/ \E attr \in Attributes : SetAttributes(attr)
      \/ DeleteResource
  BY DEF Environment, DeleteWorkSecret, RemoveWorkPassword, RemoveWorkUser,
         DeleteGeneratedSecret, SetImport, CreateDatabase, ProvisionDatabase, Connect,
         Disconnect, Tick, crVars
<1> SUFFICES /\ cr.deleting => cr'.deleting
             /\ ~cr'.deleting => cr'.exists = cr.exists
             /\ EnginesOf(PrivilegedDatabases(cr)) \subseteq EnginesOf(PrivilegedDatabases(cr'))
  BY <1>2
<1>4. ASSUME cr'.privs = cr.privs
      PROVE  EnginesOf(PrivilegedDatabases(cr)) \subseteq EnginesOf(PrivilegedDatabases(cr'))
  BY <1>4 DEF EnginesOf, PrivilegedDatabases
<1>5. CASE UNCHANGED cr
  BY <1>4, <1>5
<1>6. ASSUME NEW prefix \in Prefixes, SetPrefix(prefix)
      PROVE  cr'.deleting = cr.deleting /\ cr'.exists = cr.exists /\ cr'.privs = cr.privs
  BY <1>t, <1>6 DEF SetPrefix, Resources
<1>7. ASSUME NEW attr \in Attributes, SetAttributes(attr)
      PROVE  cr'.deleting = cr.deleting /\ cr'.exists = cr.exists /\ cr'.privs = cr.privs
  BY <1>t, <1>7 DEF SetAttributes, Resources
<1>8. CASE DeleteResource
  <2>1. cr'.deleting /\ cr'.privs = cr.privs
    BY <1>t, <1>8 DEF DeleteResource, Resources
  <2> QED BY <1>4, <2>1
<1>9. ASSUME NEW d \in Databases, NEW p, SetPrivilege(d, p)
      PROVE  /\ cr'.deleting = cr.deleting /\ cr'.exists = cr.exists
             /\ EnginesOf(PrivilegedDatabases(cr)) \subseteq EnginesOf(PrivilegedDatabases(cr'))
  <2>1. cr'.deleting = cr.deleting /\ cr'.exists = cr.exists /\ PrivilegedDatabases(cr') # {}
    BY <1>t, <1>9 DEF SetPrivilege, Resources
  <2>2. OneEngine
    BY <1>9 DEF SetPrivilege, Edit, Allowed, Remembers
  <2>3. PICK e \in Engines : \A x \in Databases : EngineOf[x] = e
    BY <2>2 DEF OneEngine
  <2>4. PrivilegedDatabases(cr) \subseteq Databases /\ PrivilegedDatabases(cr') \subseteq Databases
    BY DEF PrivilegedDatabases
  <2>5. e \in EnginesOf(PrivilegedDatabases(cr'))
    BY <2>1, <2>3, <2>4 DEF EnginesOf
  <2>6. EnginesOf(PrivilegedDatabases(cr)) \subseteq {e}
    BY <2>3, <2>4 DEF EnginesOf
  <2> QED BY <2>1, <2>5, <2>6
<1> QED BY <1>3, <1>4, <1>5, <1>6, <1>7, <1>8, <1>9

LEMMA KnownByEnvironment ==
    ASSUME MInv, Remembers, [Next]_vars, Environment
    PROVE  Faithful' /\ AllKnown'
<1>1. UNCHANGED <<st, pg, seen, orig, mem, w>>
  BY EnvironmentFrame
<1>0. /\ Crashes' = Crashes /\ (Owed => Owed')
      /\ cr'.period = cr.period
  BY <1>1, Onward, OwedKept, KindsKept DEF MInv, ReadyInv, Held, TInv, Crashes
<1>2. /\ UNCHANGED work
      /\ cr.deleting => cr'.deleting
      /\ ~cr'.deleting => cr'.exists = cr.exists
      /\ EnginesOf(PrivilegedDatabases(cr)) \subseteq EnginesOf(PrivilegedDatabases(cr'))
  BY EditFrame DEF MInv, ReadyInv, Held, TInv
<1>3. /\ EnginesOf(w.dbs)' = EnginesOf(w.dbs)
      /\ EnginesOf(PrivilegedDatabases(seen))' = EnginesOf(PrivilegedDatabases(seen))
      /\ EnginesOf(PrivilegedDatabases(cr))' = EnginesOf(PrivilegedDatabases(cr'))
  BY <1>1 DEF EnginesOf, PrivilegedDatabases
<1>4. Faithful'
  BY <1>0, <1>1, <1>2, <1>3 DEF MInv, Faithful
<1>5. ASSUME NEW e \in Engines, NEW u \in Users, IsRoleExist(pg[e], u)'
      PROVE  Known(e, u)'
  <2>1. Known(e, u)
    BY <1>1, <1>5 DEF MInv, AllKnown, IsRoleExist
  <2> QED BY <1>0, <1>1, <1>2, <1>3, <2>1 DEF Known
<1>6. AllKnown'
  BY <1>5 DEF AllKnown
<1> QED BY <1>4, <1>6

(* A crash loses what the pass had in memory; the rotation it was at stays *)
(* due.                                                                    *)
LEMMA KnownByCrash ==
    ASSUME MInv, Remembers, [Next]_vars, Crash
    PROVE  Faithful' /\ AllKnown'
<1>1. /\ Crashes /\ w.pc # "idle" /\ w'.pc = "idle"
      /\ UNCHANGED <<cr, st, work, pg, seen, orig>>
  BY ValuesType DEF Crash, Allowed, Crashes, EndPass, crVars, secretVars, engineVars
<1>2. Owed => Owed'
  BY <1>1, OwedKept DEF MInv, ReadyInv, Held, TInv
<1>3. /\ EnginesOf(PrivilegedDatabases(seen))' = EnginesOf(PrivilegedDatabases(seen))
      /\ EnginesOf(PrivilegedDatabases(cr))' = EnginesOf(PrivilegedDatabases(cr))
  BY <1>1 DEF EnginesOf, PrivilegedDatabases
<1>4. Faithful'
  BY <1>1, <1>3 DEF MInv, Faithful
<1>5. ASSUME NEW e \in Engines, NEW u \in Users, IsRoleExist(pg[e], u)'
      PROVE  Known(e, u)'
  <2>1. Known(e, u)
    BY <1>1, <1>5 DEF MInv, AllKnown, IsRoleExist
  <2> QED BY <1>1, <1>2, <1>3, <2>1 DEF Known
<1>6. AllKnown'
  BY <1>5 DEF AllKnown
<1> QED BY <1>4, <1>6

(* The credentials that are chosen.                                        *)
LEMMA Chosen ==
    ASSUME WorkSecret, work' # work
    PROVE  /\ work'.exists
           /\ \/ work'.user = ManagedUser(seen.prefix)
              \/ work'.user = NextUser(seen.prefix, work.user)
              \/ seen.mode = "PROVIDED"
<1>1. \A user, pwd : WriteWorkSecret(user, pwd) => work'.exists /\ work'.user = user
  BY DEF WriteWorkSecret
<1>2. CASE ManagedCreate \/ ManagedReplace \/ ManagedRotate
  <2>1. \/ WriteWorkSecret(ManagedUser(seen.prefix), FreshPassword)
        \/ WriteWorkSecret(NextUser(seen.prefix, work.user), FreshPassword)
    BY <1>2 DEF ManagedCreate, ManagedReplace, ManagedRotate, CreateWorkSecret
  <2> QED BY <1>1, <2>1
<1>3. CASE ProvidedCreate \/ ProvidedReplace
  <2>1. seen.mode = "PROVIDED" /\ WriteWorkSecret(import.user, import.pwd)
    BY <1>3 DEF ProvidedCreate, ProvidedReplace, CreateWorkSecret
  <2> QED BY <1>1, <2>1
<1> QED BY <1>2, <1>3 DEF WorkSecret, ManagedBlocked, ManagedKeep, ProvidedKeep

(* The work secret is only written by the step that chooses, and goes with *)
(* the resource.                                                           *)
LEMMA WorkSecretFrame ==
    ASSUME TypeOK, Remembers, [Next]_vars, work' # work
    PROVE  \/ WorkSecret /\ work'.exists
           \/ DropOldRoles /\ w.pc = "finalize" /\ w'.pc = "idle" /\ ~work'.exists /\ UNCHANGED cr.deleting
<1>1. ~Environment
  BY EditFrame
<1>2. ~Begin /\ ~ManageRoles /\ ~ManageRights /\ ~ManageSecrets /\ ~Fail /\ ~Crash /\ ~UNCHANGED vars
  BY DEF Begin, BeginNotFound, BeginDeletion, BeginMissing, BeginWait, BeginFinalizer, BeginWork,
         Read, ManageRoles, RoleCreate, RoleAlter, RolePassword, RecordRole, ManageRights, RightsOn,
         RightsFail, RevokeOn, GoManageSecrets, ManageSecrets, SecretOn, CleanOldSecrets,
         ManageSuccess, OnEngines, Fail, Crash, secretVars, vars
<1>3. ASSUME WorkSecret
      PROVE  work'.exists
  BY <1>3, Chosen
<1>4. ASSUME DropOldRoles
      PROVE  w.pc = "finalize" /\ w'.pc = "idle" /\ ~work'.exists /\ UNCHANGED cr.deleting
  <2>1. Finalize
    BY <1>4 DEF DropOldRoles, DropAbsent, DropPostponed, DropDecided, DropNow, DropFails,
                StopOnOldRoles, GoFinalize, GoManageRoles, Examine, OldRoles, secretVars
  <2>2. /\ cr' = [cr EXCEPT !.exists = FALSE, !.finalizer = FALSE] /\ work' = NoWorkSecret
        /\ EndPass /\ w.pc = "finalize"
    BY <2>1 DEF Finalize
  <2>3. cr'.deleting = cr.deleting
    BY <2>2 DEF TypeOK, Resources
  <2> QED BY <2>2, <2>3, ValuesType DEF EndPass, NoWorkSecret
<1> QED BY <1>1, <1>2, <1>3, <1>4 DEF Next, Pass

LEMMA NoneYetKept ==
    ASSUME MInv, Remembers, [Next]_vars
    PROVE  NoneYet'
<1>t. TypeOK
  BY DEF MInv, ReadyInv, Held, TInv
<1> SUFFICES ASSUME ~work'.exists, ~cr'.deleting \/ (w'.pc # "idle" /\ ~seen'.deleting),
                    NEW e \in Engines, NEW u \in Users, IsRoleExist(pg[e], u)'
             PROVE  FALSE
  BY DEF NoneYet
<1>1. work' = work
  <2>1. SUFFICES ASSUME work' # work PROVE FALSE
    OBVIOUS
  <2>2. w.pc = "finalize" /\ w'.pc = "idle" /\ cr'.deleting = cr.deleting
    BY <1>t, <2>1, WorkSecretFrame
  <2> QED BY <2>2 DEF MInv, Faithful
<1>2. ~cr.deleting \/ (w.pc # "idle" /\ ~seen.deleting)
  <2>1. CASE ~cr'.deleting
    BY <1>t, <2>1, Onward
  <2>2. CASE w'.pc # "idle" /\ ~seen'.deleting
    <3>1. CASE w.pc # "idle"
      BY <1>t, <2>2, <3>1, Onward
    <3>2. CASE w.pc = "idle"
      BY <1>t, <2>2, <3>2, StartsFresh
    <3> QED BY <3>1, <3>2
  <2> QED BY <2>1, <2>2
<1>3. ~IsRoleExist(pg[e], u)
  BY <1>1, <1>2 DEF MInv, NoneYet
<1>4. u = w.user /\ w.pc \in {"role", "password"}
  BY <1>3, RoleMade DEF MInv, ReadyInv, RoleCreate, RolePassword
<1>5. ~seen.deleting
  BY <1>4 DEF MInv, ReadyInv, Held, TInv, UserInHand
<1>6. work.exists
  BY <1>4, <1>5 DEF MInv, Faithful
<1> QED BY <1>1, <1>6

LEMMA AlternatesKept ==
    ASSUME MInv, Remembers, [Next]_vars
    PROVE  Alternates'
<1>t. TypeOK
  BY DEF MInv, ReadyInv, Held, TInv
<1> SUFFICES ASSUME Crashes
             PROVE  /\ RInv'
                    /\ work'.exists => work'.user \in {cr'.prefix} \X Suffixes
                    /\ \A e \in Engines, u \in Users :
                         IsRoleExist(pg[e], u)' => u \in {cr'.prefix} \X Suffixes
  BY <1>t, KindsKept DEF Alternates, Crashes
<1>1. RInv /\ RotationOnly
  BY DEF MInv, Alternates, Remembers
<1>2. RInv'
  BY <1>1, RotationStep
<1>3. cr'.prefix = cr.prefix /\ seen.prefix = cr.prefix
  BY <1>t, <1>1, Onward DEF RotationOnly, RInv, Copies
<1>4. work.exists => work.user \in {cr.prefix} \X Suffixes
  BY DEF MInv, Alternates
<1>5. work'.exists => work'.user \in {cr'.prefix} \X Suffixes
  <2>1. CASE work' = work
    BY <1>3, <1>4, <2>1
  <2>2. CASE work' # work /\ WorkSecret
    <3>1. seen.mode = "MANAGED" /\ seen.mode # "PROVIDED"
      BY <1>1 DEF RotationOnly
    <3>2. work'.user = ManagedUser(seen.prefix) \/ work'.user = NextUser(seen.prefix, work.user)
      BY <2>2, <3>1, Chosen
    <3> QED BY <1>3, <3>2 DEF ManagedUser, NextUser, Suffixes
  <2> QED BY <1>t, <2>1, <2>2, WorkSecretFrame
<1>6. ASSUME NEW e \in Engines, NEW u \in Users, IsRoleExist(pg[e], u)'
      PROVE  u \in {cr.prefix} \X Suffixes
  <2>1. CASE IsRoleExist(pg[e], u)
    BY <2>1 DEF MInv, Alternates
  <2>2. CASE ~IsRoleExist(pg[e], u)
    <3>1. u = w.user /\ w.pc \in {"role", "password"}
      BY <1>6, <2>2, RoleMade DEF MInv, ReadyInv, RoleCreate, RolePassword
    <3>2. ~seen.deleting
      BY <3>1 DEF MInv, ReadyInv, Held, TInv, UserInHand
    <3> QED BY <1>4, <3>1, <3>2 DEF MInv, Faithful
  <2> QED BY <2>1, <2>2
<1> QED BY <1>2, <1>3, <1>5, <1>6

LEMMA RemembersKept ==
    ASSUME MInv, Remembers, [Next]_vars
    PROVE  Remembers'
<1>1. edits'.kinds = edits.kinds /\ faults'.kinds = faults.kinds
  BY KindsKept DEF MInv, ReadyInv, Held, TInv
<1>2. Crashes => RotationOnly'
  BY RotationStep DEF MInv, Alternates, Remembers
<1> QED BY <1>1, <1>2 DEF Remembers, Crashes, OneEngine

LEMMA MStep == MInv /\ Remembers /\ [Next]_vars => (MInv /\ Remembers)'
<1> SUFFICES ASSUME MInv, Remembers, [Next]_vars PROVE MInv' /\ Remembers'
  OBVIOUS
<1>1. ReadyInv' /\ Remembers' /\ NoneYet' /\ Alternates'
  BY ReadyStep, RemembersKept, NoneYetKept, AlternatesKept DEF MInv
<1> SUFFICES Faithful' /\ AllKnown'
  BY <1>1 DEF MInv
<1>2. CASE Fail
  <2>1. w.pc # "idle" /\ UNCHANGED <<cr, work, pg, seen>> /\ ManageError(orig, mem)
    BY <1>2 DEF Fail, secretVars, engineVars
  <2>2. mem \in Statuses
    BY DEF MInv, ReadyInv, Held, TInv, TypeOK
  <2> QED BY <2>1, <2>2, ErrorPatch, KnownAtEnd
<1>3. CASE UNCHANGED vars
  <2>1. UNCHANGED <<cr, st, work, pg, seen, orig, mem, w>>
    BY <1>3 DEF vars
  <2>2. Crashes' = Crashes /\ (Owed => Owed')
    BY <2>1, OwedKept, KindsKept DEF MInv, ReadyInv, Held, TInv, Crashes
  <2>3. /\ EnginesOf(w.dbs)' = EnginesOf(w.dbs)
        /\ EnginesOf(PrivilegedDatabases(seen))' = EnginesOf(PrivilegedDatabases(seen))
        /\ EnginesOf(PrivilegedDatabases(cr))' = EnginesOf(PrivilegedDatabases(cr))
    BY <2>1 DEF EnginesOf, PrivilegedDatabases
  <2>4. Faithful'
    BY <2>1, <2>3 DEF MInv, Faithful
  <2>5. AllKnown'
    BY <2>1, <2>2, <2>3 DEF MInv, AllKnown, Known, IsRoleExist
  <2> QED BY <2>4, <2>5
<1>4. CASE ManageRights \/ ManageSecrets
  BY <1>4, KnownByRightsAndSecrets
<1> QED BY <1>2, <1>3, <1>4, KnownByBegin, KnownByWorkSecret, KnownByDropOldRoles,
           KnownByManageRoles, KnownByCrash, KnownByEnvironment DEF Next, Pass

LEMMA MInit ==
    ASSUME Init, \A plan \in Plans : RemembersPlan(plan)
    PROVE  MInv /\ Remembers
<1>1. PICK plan \in Plans : cr = plan.cr /\ edits = plan.edits /\ faults = plan.faults
  BY DEF Init
<1>2. /\ seen = cr /\ w.pc = "idle" /\ ~work.exists /\ work.user = NoUser
      /\ st = NoStatus /\ mem = NoStatus /\ w = NoPass /\ work = NoWorkSecret
      /\ pg = [e \in Engines |-> EmptyEngine] /\ ~cr.deleting
  BY <1>1, ValuesType, PlansAssumption DEF Init, NoWorkSecret
<1>3. Faithful
  BY <1>2 DEF Faithful
<1>4. \A e \in Engines, u \in Users : ~IsRoleExist(pg[e], u)
  BY <1>2 DEF IsRoleExist, EmptyEngine
<1>5. Crashes => RInv /\ RotationOnly
  <2> SUFFICES ASSUME Crashes PROVE RInv /\ RotationOnly
    OBVIOUS
  <2>1. RotationPlan(plan)
    BY <1>1 DEF Crashes, RemembersPlan
  <2>2. RotationOnly
    BY <1>1, <1>2, <2>1 DEF RotationOnly, RotationPlan
  <2>3. NoStatus.role = NoUser /\ NoStatus.old = {} /\ NoStatus.prefix = NoPrefix
        /\ NoPass.pc = "idle" /\ ~NoWorkSecret.exists
    BY DEF NoStatus, NoPass, NoWorkSecret
  <2>4. RInv
    BY <1>2, <2>3, HeldInit DEF RInv, Copies, WorkSecretKept, CurrentNotOld
  <2> QED BY <2>2, <2>4
<1>6. Remembers
  BY <1>1, <1>5 DEF Remembers, RemembersPlan, Crashes
<1> QED BY <1>2, <1>3, <1>4, <1>5, <1>6, ReadyInit DEF MInv, AllKnown, NoneYet, Alternates

(* When a pass reports Ready, every login role left on an engine is the    *)
(* current one or is remembered as one to drop: rotations, prefix edits,   *)
(* sessions that keep old roles alive and calls that fail at any step do   *)
(* not make the operator forget one.  Nor does a crash in a rotation.      *)
THEOREM NoRoleForgotten ==
    ASSUME \A plan \in Plans : RemembersPlan(plan)
    PROVE  Spec => []NoOrphanRole
<1>1. Init => MInv /\ Remembers
  BY MInit
<1>2. MInv => NoOrphanRole
  <2> SUFFICES ASSUME MInv, w.pc = "success", NEW e \in Engines, NEW u \in Users,
                      IsRoleExist(pg[e], u)
               PROVE  u \in mem.old \union {mem.role}
    BY DEF NoOrphanRole, Succeeding
  <2>1. ~seen.deleting
    BY DEF MInv, ReadyInv, Held, TInv, UserInHand
  <2>2. u \in {work.user} \union mem.old
    BY <2>1 DEF MInv, AllKnown, Known
  <2>3. work.user = w.user /\ mem.role = w.user
    BY <2>1 DEF MInv, Faithful, ReadyInv, InHand, RoleRecorded
  <2> QED BY <2>2, <2>3
<1> QED BY <1>1, <1>2, MStep, PTL DEF Spec

-----------------------------------------------------------------------------
(* The passwords.  A crash between the work secret and the engine loses a  *)
(* password, so the plans of this part have none.                          *)

SteadyPlan(plan) ==
    /\ RotationPlan(plan)
    /\ "crash" \notin plan.faults.kinds
    /\ "privileges" \in plan.edits.kinds => OneEngine

Steady == Remembers /\ RotationOnly /\ ~Crashes

(* Where the current role exists, it has the password of the work secret.  *)
Clean == work.exists => \A e \in Engines : pg[e].pwd[work.user] \in {NoPassword, work.pwd}

(* The engines a pass is done with have the current role.                  *)
RolesInPlace ==
    /\ w.pc \in {"role", "password"} =>
         \A e \in EnginesOf(w.dbs) \ w.todo : IsRoleExist(pg[e], w.user)
    /\ w.pc = "password" => IsRoleExist(pg[w.at[2]], w.user)
    /\ w.pc \in {"rights", "secrets", "success"} =>
         \A e \in EnginesOf(w.dbs) : IsRoleExist(pg[e], w.user)

(* A session is one of a role that exists.                                 *)
SessionsHaveRoles == \A e \in Engines, u \in Users : <<e, u>> \in sess => IsRoleExist(pg[e], u)

SInv == RInv /\ MInv /\ Clean /\ RolesInPlace /\ SessionsHaveRoles

LEMMA InHandNow ==
    ASSUME RInv, MInv, w.pc \in {"role", "password", "rights", "secrets", "success"}
    PROVE  /\ ~seen.deleting /\ work.exists /\ w.user = work.user /\ w.pwd = work.pwd
           /\ w.user \in Users /\ w.pwd \in Passwords /\ w.pwd # NoPassword
           /\ EnginesOf(w.dbs) \subseteq Engines
<1>1. ~seen.deleting /\ w.user \in Users /\ w.dbs \in SUBSET Databases
  BY DEF RInv, Held, TInv, TypeOK, UserInHand, Passes
<1>2. work.exists /\ w.user = work.user /\ w.pwd = work.pwd
  BY <1>1 DEF MInv, Faithful
<1>3. w.pwd \in Passwords /\ w.pwd # NoPassword
  BY <1>1, PasswordsAssumption DEF RInv, WorkSecretKept
<1> QED BY <1>1, <1>2, <1>3, EnginesOfType

(* Only DROP ROLE takes a role away.                                       *)
LEMMA RoleLost ==
    ASSUME RInv, MInv, [Next]_vars, NEW e \in Engines, NEW u \in Users,
           IsRoleExist(pg[e], u), ~IsRoleExist(pg[e], u)'
    PROVE  DropNow /\ w.at = <<u, e>>
<1>1. pg'[e].pwd[u] # pg[e].pwd[u] /\ pg'[e].pwd[u] = NoPassword
  BY DEF IsRoleExist
<1>2. w.pc \in {"role", "password"} => w.pwd # NoPassword
  BY InHandNow
<1> QED BY <1>1, <1>2, PasswordStep DEF RInv, RoleCreate, RolePassword

LEMMA CleanKept ==
    ASSUME SInv, Steady, [Next]_vars
    PROVE  Clean'
<1>t. TypeOK /\ Remembers /\ RInv /\ MInv
  BY DEF SInv, Steady, RInv, Held, TInv
<1> SUFFICES ASSUME work'.exists, NEW e \in Engines
             PROVE  pg'[e].pwd[work'.user] \in {NoPassword, work'.pwd}
  BY DEF Clean
<1>1. CASE work' = work
  <2>1. work.user \in Users
    BY <1>1, <1>t DEF RInv, WorkSecretKept, Users
  <2>2. pg[e].pwd[work.user] \in {NoPassword, work.pwd}
    BY <1>1 DEF SInv, Clean
  <2>3. CASE pg'[e].pwd[work.user] = pg[e].pwd[work.user]
    BY <1>1, <2>2, <2>3
  <2>4. CASE pg'[e].pwd[work.user] # pg[e].pwd[work.user]
    <3>1. \/ pg'[e].pwd[work.user] = NoPassword
          \/ w.pc \in {"role", "password"} /\ pg'[e].pwd[work.user] = w.pwd
      BY <1>t, <2>1, <2>4, PasswordStep DEF RInv, RoleCreate, RolePassword
    <3> QED BY <1>1, <1>t, <3>1, InHandNow
  <2> QED BY <2>3, <2>4
<1>2. CASE work' # work
  <2>1. WorkSecret
    BY <1>2, <1>t, WorkSecretFrame
  <2>2. w.pc = "work" /\ UNCHANGED pg /\ ~seen.deleting
    BY <1>t, <2>1 DEF WorkSecret, ManagedCreate, ManagedReplace, ManagedRotate, ManagedBlocked,
           ManagedKeep, ProvidedCreate, ProvidedReplace, ProvidedKeep, CreateWorkSecret,
           AtWorkSecret, engineVars, RInv, Held, TInv, UserInHand
  <2>3. work'.user \in Users /\ ~IsRoleExist(pg[e], work'.user)
    <3>1. \A u \in Users : IsRoleExist(pg[e], u) => u \in {work.user} \union mem.old
      BY <1>t, <2>2 DEF Steady, Owed, MInv, AllKnown, Known
    <3>2. CASE ~work.exists
      <4>1. RInv'
        BY <1>t, RotationStep DEF Steady
      <4>2. work'.user \in Users
        BY <4>1 DEF RInv, WorkSecretKept, Users
      <4> QED BY <1>t, <2>2, <3>2, <4>2 DEF MInv, NoneYet
    <3>3. CASE work.exists
      <4>1. ManagedRotate
        <5>1. seen.mode = "MANAGED" /\ seen.mode # "PROVIDED"
          BY DEF Steady, RotationOnly
        <5>2. ~PrefixChanged
          BY <1>t DEF PrefixChanged, RInv, Copies
        <5>3. work.user \in Prefixes \X Suffixes /\ work.pwd \in Passwords
          BY <1>t, <3>3 DEF RInv, WorkSecretKept
        <5>4. ~WorkSecretEdited
          BY <5>3, PrefixesAssumption, PasswordsAssumption DEF WorkSecretEdited, Users
        <5> QED BY <1>2, <2>1, <3>3, <5>1, <5>2, <5>4
                DEF WorkSecret, ManagedCreate, ManagedReplace, ManagedBlocked, ManagedKeep,
                    ProvidedCreate, ProvidedReplace, ProvidedKeep, CreateWorkSecret
      <4> DEFINE user == NextUser(seen.prefix, work.user)
      <4>2. work'.user = user /\ user \notin mem.old
        BY <4>1 DEF ManagedRotate, WriteWorkSecret, RotationBlocked
      <4>3. user # work.user
        BY <1>t, <3>3 DEF NextUser, RInv, WorkSecretKept
      <4>4. user \in Users
        BY <1>t DEF NextUser, Users, Suffixes, TypeOK, Resources
      <4> QED BY <3>1, <4>2, <4>3, <4>4
    <3> QED BY <3>2, <3>3
  <2> QED BY <2>2, <2>3 DEF IsRoleExist
<1> QED BY <1>1, <1>2

LEMMA SessionsKept ==
    ASSUME SInv, [Next]_vars
    PROVE  SessionsHaveRoles'
<1> SUFFICES ASSUME NEW e \in Engines, NEW u \in Users, <<e, u>> \in sess'
             PROVE  IsRoleExist(pg[e], u)'
  BY DEF SessionsHaveRoles
<1>t. RInv /\ MInv /\ gen \in [Databases -> Credentials]
  BY DEF SInv, RInv, Held, TInv, TypeOK
<1>1. CASE <<e, u>> \in sess
  <2>1. IsRoleExist(pg[e], u)
    BY <1>1 DEF SInv, SessionsHaveRoles
  <2>2. ASSUME DropNow, w.at = <<u, e>>
        PROVE  FALSE
    <3>1. sess' = sess \ {<<e, u>>}
      BY <2>2 DEF DropNow
    <3> QED BY <3>1
  <2> QED BY <1>t, <2>1, <2>2, RoleLost
<1>2. CASE <<e, u>> \notin sess
  <2>1. ~Begin /\ ~WorkSecret /\ ~DropOldRoles /\ ~ManageRoles /\ ~ManageRights /\ ~ManageSecrets
        /\ ~Fail /\ ~Crash /\ ~UNCHANGED vars
    BY <1>2 DEF Begin, BeginNotFound, BeginDeletion, BeginMissing, BeginWait, BeginFinalizer, BeginWork,
         Read, WorkSecret, ManagedCreate, ManagedReplace, ManagedRotate, ManagedBlocked,
         ManagedKeep, ProvidedCreate, ProvidedReplace, ProvidedKeep, CreateWorkSecret, AtWorkSecret,
         DropOldRoles, DropAbsent, DropPostponed, DropDecided, DropNow, DropFails,
         StopOnOldRoles, GoFinalize, GoManageRoles, Finalize, ManageRoles, RoleCreate, RoleAlter,
         RolePassword, RecordRole, ManageRights, RightsOn,
         RightsFail, RevokeOn, GoManageSecrets, ManageSecrets, SecretOn, CleanOldSecrets,
         ManageSuccess, OnEngines, Fail, Crash, engineVars, vars
  <2>2. \E d \in Databases : Connect(d)
    BY <1>2, <2>1 DEF Next, Pass, Environment, SetPrefix, SetPrivilege, SetAttributes, DeleteResource,
                DeleteWorkSecret, RemoveWorkPassword, RemoveWorkUser, DeleteGeneratedSecret,
                SetImport, Edit, CreateDatabase, ProvisionDatabase, Disconnect, Tick, engineVars
  <2>3. PICK d \in Databases : Connect(d)
    BY <2>2
  <2>4. <<e, u>> = <<EngineOf[d], gen[d].user>> /\ Opens(EngineOf[d], gen[d]) /\ UNCHANGED pg
    BY <1>2, <2>3 DEF Connect
  <2>5. EngineOf[d] = e /\ gen[d].user = u
    BY <2>4
  <2> QED BY <2>4, <2>5 DEF Opens, IsRoleExist
<1> QED BY <1>1, <1>2

(* A pass past the old roles that makes no role.                           *)
LEMMA RolesInPlaceByPass ==
    ASSUME SInv, [Next]_vars, w.pc \in {"rights", "secrets"}, w'.pc \in {"rights", "secrets", "success"},
           w'.dbs = w.dbs, w'.user = w.user
    PROVE  RolesInPlace'
<1>1. RInv /\ MInv
  BY DEF SInv
<1>2. EnginesOf(w.dbs) \subseteq Engines /\ w.user \in Users
  BY <1>1, InHandNow
<1>3. ~DropNow
  BY DEF DropNow
<1>4. PICK u \in Users : u = w.user
  BY <1>2
<1>5. ASSUME NEW e \in EnginesOf(w.dbs)
      PROVE  IsRoleExist(pg[e], u)'
  <2>1. IsRoleExist(pg[e], u)
    BY <1>4 DEF SInv, RolesInPlace
  <2> QED BY <1>1, <1>2, <1>3, <2>1, RoleLost
<1>6. EnginesOf(w.dbs)' = EnginesOf(w.dbs) /\ u = w'.user
  BY <1>4 DEF EnginesOf
<1> QED BY <1>5, <1>6 DEF RolesInPlace

LEMMA RolesInPlaceKept ==
    ASSUME SInv, [Next]_vars
    PROVE  RolesInPlace'
<1> USE DEF OnEngines
<1>t. RInv /\ MInv /\ w \in Passes /\ pg \in [Engines -> EngineStates]
  BY DEF SInv, RInv, Held, TInv, TypeOK
<1>i. CASE w'.pc \notin {"role", "password", "rights", "secrets", "success"}
  BY <1>i DEF RolesInPlace
<1>s. CASE UNCHANGED <<w, pg>>
  <2>1. EnginesOf(w.dbs)' = EnginesOf(w.dbs)
    BY <1>s DEF EnginesOf
  <2> QED BY <1>s, <2>1 DEF SInv, RolesInPlace, IsRoleExist
<1>k. ASSUME NEW e \in Engines, NEW u \in Users, IsRoleExist(pg[e], u), w.pc # "dropping"
      PROVE  IsRoleExist(pg[e], u)'
  BY <1>k, <1>t, RoleLost DEF DropNow
<1>1. ASSUME NEW f \in Engines, RoleCreate(f)
      PROVE  RolesInPlace'
  <2>1. /\ w.pc = "role" /\ w'.pc = "role" /\ w'.dbs = w.dbs /\ w'.user = w.user
        /\ w'.todo = w.todo \ {f}
    BY <1>1, <1>t DEF RoleCreate, Passes
  <2>2. EnginesOf(w.dbs)' = EnginesOf(w.dbs)
    BY <2>1 DEF EnginesOf
  <2>3. w.user \in Users /\ w.pwd # NoPassword /\ EnginesOf(w.dbs) \subseteq Engines
    BY <1>t, <2>1, InHandNow
  <2>u. PICK u \in Users : u = w.user /\ u = w'.user
    BY <2>1, <2>3
  <2>4. IsRoleExist(pg[f], u)'
    <3>1. pg'[f] = CreateUserRole(pg[f], w.user, w.pwd, seen.attr)
      BY <1>1, <1>t DEF RoleCreate
    <3>2. pg'[f].pwd[w.user] = w.pwd
      BY <1>t, <2>3, <3>1 DEF CreateUserRole, EngineStates
    <3> QED BY <2>3, <2>u, <3>2 DEF IsRoleExist
  <2>5. ASSUME NEW e \in EnginesOf(w.dbs) \ w'.todo
        PROVE  IsRoleExist(pg[e], u)'
    <3>1. CASE e = f
      BY <2>4, <3>1
    <3>2. CASE e # f
      <4>1. IsRoleExist(pg[e], u)
        BY <2>1, <2>5, <2>u, <3>2 DEF SInv, RolesInPlace
      <4> QED BY <1>k, <2>1, <2>3, <4>1
    <3> QED BY <3>1, <3>2
  <2>6. \A e \in EnginesOf(w.dbs)' \ w'.todo : IsRoleExist(pg[e], w.user)'
    BY <2>2, <2>5, <2>u
  <2> QED BY <2>1, <2>6 DEF RolesInPlace
<1>2. ASSUME NEW f \in Engines, RoleAlter(f)
      PROVE  RolesInPlace'
  <2>1. /\ w.pc = "role" /\ w'.pc = "password" /\ w'.dbs = w.dbs /\ w'.user = w.user
        /\ w'.todo = w.todo /\ w'.at = <<w.user, f>> /\ IsRoleExist(pg[f], w.user)
    BY <1>2, <1>t DEF RoleAlter, Passes
  <2>2. EnginesOf(w.dbs)' = EnginesOf(w.dbs) /\ w'.at[2] = f
    BY <2>1 DEF EnginesOf
  <2>3. EnginesOf(w.dbs) \subseteq Engines
    BY <1>t, <2>1, InHandNow
  <2>4. PICK u \in Users : u = w.user
    BY <1>t, <2>1, InHandNow
  <2>5. \A e \in EnginesOf(w.dbs) \ w.todo : IsRoleExist(pg[e], u)'
    BY <1>k, <2>1, <2>3, <2>4 DEF SInv, RolesInPlace
  <2>6. IsRoleExist(pg[f], u)'
    BY <1>k, <2>1, <2>4
  <2>7. u = w'.user /\ f = w'.at[2]
    BY <2>1, <2>2, <2>4
  <2> QED BY <2>1, <2>2, <2>5, <2>6, <2>7 DEF RolesInPlace
<1>3. CASE RolePassword
  <2>1. /\ w.pc = "password" /\ w'.pc = "role" /\ w'.dbs = w.dbs /\ w'.user = w.user
        /\ w'.todo = w.todo \ {w.at[2]}
    BY <1>3, <1>t DEF RolePassword, Passes
  <2>2. EnginesOf(w.dbs)' = EnginesOf(w.dbs)
    BY <2>1 DEF EnginesOf
  <2>3. EnginesOf(w.dbs) \subseteq Engines
    BY <1>t, <2>1, InHandNow
  <2>4. PICK u \in Users : u = w.user
    BY <1>t, <2>1, InHandNow
  <2>5. \A e \in EnginesOf(w.dbs) \ w'.todo : IsRoleExist(pg[e], u)
    BY <2>1, <2>4 DEF SInv, RolesInPlace
  <2>6. \A e \in EnginesOf(w.dbs) \ w'.todo : IsRoleExist(pg[e], u)'
    BY <1>k, <2>1, <2>3, <2>5
  <2>7. u = w'.user
    BY <2>1, <2>4
  <2> QED BY <2>1, <2>2, <2>6, <2>7 DEF RolesInPlace
<1>4. CASE RecordRole
  <2>1. /\ w.pc = "role" /\ w.todo = {} /\ w'.pc = "rights" /\ w'.dbs = w.dbs /\ w'.user = w.user
        /\ UNCHANGED pg
    BY <1>4, <1>t DEF RecordRole, Passes
  <2>2. EnginesOf(w.dbs)' = EnginesOf(w.dbs)
    BY <2>1 DEF EnginesOf
  <2> QED BY <2>1, <2>2 DEF SInv, RolesInPlace, IsRoleExist
<1>5. CASE GoManageRoles
  <2>1. w'.pc = "role" /\ w'.dbs = w.dbs /\ w'.todo = EnginesOf(w.dbs)
    BY <1>5, <1>t DEF GoManageRoles, AllExamined, Passes
  <2> QED BY <2>1 DEF RolesInPlace, EnginesOf
<1>6. CASE ManageRights \/ ManageSecrets
  <2>1. ASSUME w'.pc \in {"role", "password", "rights", "secrets", "success"}
        PROVE  /\ w.pc \in {"rights", "secrets"} /\ w'.pc \in {"rights", "secrets", "success"}
               /\ w'.dbs = w.dbs /\ w'.user = w.user
    BY <1>6, <1>t, <2>1, ValuesType
       DEF ManageRights, RightsOn, RightsFail, RevokeOn, GoManageSecrets, ManageSecrets, SecretOn,
           CleanOldSecrets, ManageSuccess, ManageError, EndPass, Passes
  <2> QED BY <1>i, <2>1, RolesInPlaceByPass
<1>7. CASE Begin
  <2>1. w'.pc \in {"idle", "drop", "work"}
    <3>1. PICK copy \in CacheCopies :
            \/ BeginNotFound(copy[1], copy[2]) \/ BeginDeletion(copy[1], copy[2])
            \/ BeginMissing(copy[1], copy[2]) \/ BeginWait(copy[1], copy[2])
            \/ BeginFinalizer(copy[1], copy[2]) \/ BeginWork(copy[1], copy[2])
      BY <1>7 DEF Begin
    <3> QED BY <3>1, ValuesType
            DEF BeginNotFound, BeginDeletion, BeginMissing, BeginWait, BeginFinalizer,
                BeginWork, Read, ManageError, EndPass, NewPass, NoPass
  <2> QED BY <1>i, <2>1
<1>8. CASE WorkSecret
  <2>1. PICK user, pwd, oldUser, pwChanged, rotErr : Proceed(user, pwd, oldUser, pwChanged, rotErr)
    BY <1>8 DEF WorkSecret, ManagedCreate, ManagedReplace, ManagedRotate, ManagedBlocked, ManagedKeep,
         ProvidedCreate, ProvidedReplace, ProvidedKeep, CreateWorkSecret
  <2>2. w'.pc = "drop"
    BY <1>t, <2>1 DEF Proceed, Passes
  <2> QED BY <1>i, <2>2
<1>9. CASE DropOldRoles
  <2>1. GoManageRoles \/ w'.pc \in {"idle", "drop", "dropping", "finalize"}
    BY <1>9, <1>t, ValuesType
       DEF DropOldRoles, DropAbsent, DropPostponed, DropDecided, DropNow, DropFails,
           StopOnOldRoles, GoFinalize, Finalize, Examine, AllExamined, ManageError, EndPass, Passes
  <2> QED BY <1>i, <1>5, <2>1
<1>10. CASE Fail \/ Crash
  BY <1>i, <1>10, ValuesType DEF Fail, Crash, ManageError, EndPass
<1>11. CASE Environment
  BY <1>s, <1>11, EnvironmentFrame
<1>12. CASE UNCHANGED vars
  BY <1>s, <1>12 DEF vars
<1>13. CASE ManageRoles
  BY <1>1, <1>2, <1>3, <1>4, <1>13 DEF ManageRoles
<1> QED BY <1>6, <1>7, <1>8, <1>9, <1>10, <1>11, <1>12, <1>13 DEF Next, Pass

LEMMA SStep == SInv /\ Steady /\ [Next]_vars => (SInv /\ Steady)'
<1> SUFFICES ASSUME SInv, Steady, [Next]_vars PROVE SInv' /\ Steady'
  OBVIOUS
<1>1. RInv' /\ RotationOnly'
  BY RotationStep DEF SInv, Steady
<1>2. MInv' /\ Remembers'
  BY MStep DEF SInv, Steady
<1>3. ~Crashes'
  BY KindsKept DEF SInv, RInv, Held, TInv, Steady, Crashes
<1>4. Clean' /\ RolesInPlace' /\ SessionsHaveRoles'
  BY CleanKept, RolesInPlaceKept, SessionsKept
<1> QED BY <1>1, <1>2, <1>3, <1>4 DEF SInv, Steady

LEMMA SInit ==
    ASSUME Init, \A plan \in Plans : SteadyPlan(plan)
    PROVE  SInv /\ Steady
<1>1. \A plan \in Plans : RemembersPlan(plan) /\ RotationPlan(plan)
  BY DEF SteadyPlan, RemembersPlan, RotationPlan
<1>2. MInv /\ Remembers /\ RInv /\ RotationOnly
  BY <1>1, MInit, RotationInit
<1>3. ~Crashes
  <2>1. PICK plan \in Plans : faults = plan.faults
    BY DEF Init
  <2> QED BY <2>1 DEF Crashes, SteadyPlan
<1>4. ~work.exists /\ w.pc = "idle" /\ sess = {}
  BY ValuesType DEF Init, NoWorkSecret
<1> QED BY <1>2, <1>3, <1>4 DEF SInv, Steady, Clean, RolesInPlace, SessionsHaveRoles

(* In managed mode, unless somebody edits the prefix or the work secret:   *)
(* when a pass reports Ready, the credentials of every published secret    *)
(* open the engine of its database, whatever rotations, errors, sessions   *)
(* and edits of attributes, privileges or generated secrets went before.   *)
THEOREM PublishedCredentialsOpen ==
    ASSUME \A plan \in Plans : SteadyPlan(plan)
    PROVE  Spec => []PublishedWorks
<1>1. Init => SInv /\ Steady
  BY SInit
<1>2. SInv => PublishedWorks
  <2> SUFFICES ASSUME SInv, w.pc = "success", NEW d \in Databases, gen[d] # NoCredentials
               PROVE  Opens(EngineOf[d], gen[d])
    BY DEF PublishedWorks, Succeeding
  <2>1. d \in w.dbs /\ gen[d] = [user |-> w.user, pwd |-> w.pwd]
    BY DEF SInv, MInv, ReadyInv, InHand, SecretsInHand, Written
  <2>2. /\ work.exists /\ w.user = work.user /\ w.pwd = work.pwd /\ w.pwd # NoPassword
        /\ EnginesOf(w.dbs) \subseteq Engines
    BY InHandNow DEF SInv
  <2>3. EngineOf[d] \in EnginesOf(w.dbs)
    BY <2>1 DEF EnginesOf
  <2>4. IsRoleExist(pg[EngineOf[d]], w.user)
    BY <2>3 DEF SInv, RolesInPlace
  <2>5. pg[EngineOf[d]].pwd[work.user] \in {NoPassword, work.pwd}
    BY <2>2, <2>3 DEF SInv, Clean
  <2>6. pg[EngineOf[d]].pwd[w.user] = w.pwd
    BY <2>2, <2>4, <2>5 DEF IsRoleExist
  <2> QED BY <2>1, <2>2, <2>6 DEF Opens
<1> QED BY <1>1, <1>2, SStep, PTL DEF Spec

(* ... and no pass changes the password of a role that has an open session:*)
(* a rotation never takes up a username that somebody still uses.          *)
THEOREM RotationLeavesLiveRoles ==
    ASSUME \A plan \in Plans : SteadyPlan(plan)
    PROVE  Spec => LiveRoleUntouched
<1>1. Init => SInv /\ Steady
  BY SInit
<1>2. ASSUME SInv, [Next]_vars, NEW s \in sess \intersect sess'
      PROVE  pg'[s[1]].pwd[s[2]] = pg[s[1]].pwd[s[2]]
  <2>0. sess \subseteq Engines \X Users
    BY <1>2 DEF SInv, RInv, Held, TInv, TypeOK
  <2>1. PICK e \in Engines, u \in Users : s = <<e, u>>
    BY <2>0
  <2>t. SInv /\ [Next]_vars /\ s \in sess /\ s \in sess'
    BY <1>2
  <2>2. IsRoleExist(pg[e], u)
    BY <2>1, <2>t DEF SInv, SessionsHaveRoles
  <2> SUFFICES ASSUME pg'[e].pwd[u] # pg[e].pwd[u] PROVE FALSE
    BY <2>1
  <2>3. ASSUME DropNow, w.at = <<u, e>>
        PROVE  FALSE
    <3>1. sess' = sess \ {<<e, u>>}
      BY <2>3 DEF DropNow
    <3> QED BY <2>1, <2>t, <3>1
  <2>4. ~(RoleCreate(e) /\ u = w.user)
    BY <2>2 DEF RoleCreate
  <2>5. RolePassword /\ u = w.user /\ pg'[e].pwd[u] = w.pwd
    BY <2>3, <2>4, <2>t, PasswordStep DEF SInv, RInv
  <2>6. work.exists /\ w.user = work.user /\ w.pwd = work.pwd
    BY <2>5, <2>t, InHandNow DEF SInv, RolePassword
  <2>7. pg[e].pwd[u] = work.pwd
    BY <2>2, <2>5, <2>6, <2>t DEF SInv, Clean, IsRoleExist
  <2> QED BY <2>5, <2>6, <2>7
<1>3. (SInv /\ Steady) /\ [Next]_vars =>
        [edits.kinds = {} => \A s \in sess \intersect sess' :
            pg'[s[1]].pwd[s[2]] = pg[s[1]].pwd[s[2]]]_vars
  BY <1>2
<1> QED BY <1>1, <1>3, SStep, PTL DEF Spec, LiveRoleUntouched

-----------------------------------------------------------------------------
(* The deletion.  It goes by the status, so it misses a role whose pass    *)
(* ended before the status had it, and it goes by the engines that the     *)
(* privileges reach at that time.                                          *)

DeletionPlan(plan) ==
    /\ plan.edits.kinds \intersect {"work", "workuser"} = {}
    /\ plan.faults.kinds = {}
    /\ "privileges" \in plan.edits.kinds => OneEngine /\ \A d \in Databases : plan.dbs[d] # "absent"

Faultless ==
    /\ Remembers
    /\ faults.kinds = {}
    /\ "privileges" \in edits.kinds => \A d \in Databases : dbs[d] # "absent"

(* The resource is there as long as a role is, and reaches it.             *)
Reachable ==
    /\ w.pc # "idle" => cr.exists
    /\ (w.pc # "idle" /\ ~seen.deleting) =>
         cr.finalizer /\ EnginesOf(w.dbs) \subseteq EnginesOf(ExistingDatabases(cr))
    /\ \A e \in Engines, u \in Users :
         IsRoleExist(pg[e], u) => cr.exists /\ cr.finalizer /\ e \in EnginesOf(ExistingDatabases(cr))

(* The status has every role, or a pass has it still to examine.           *)
Recorded(e, u) ==
    /\ w.pc = "idle" => u \in st.old \union {st.role}
    /\ w.pc = "work" => u \in mem.old \union {mem.role}
    /\ w.pc \in {"drop", "dropping"} =>
         <<u, e>> \in w.pairs \/ u \in w.kept \/ (~seen.deleting /\ u = mem.role)
    /\ w.pc # "finalize"

AllRecorded == \A e \in Engines, u \in Users : IsRoleExist(pg[e], u) => Recorded(e, u)

(* A pass only examines old roles.                                         *)
OldExamined ==
    w.pc \in {"work", "drop", "dropping"} =>
        w.kept \subseteq mem.old /\ \A u, e : <<u, e>> \in w.pairs => u \in mem.old

LInv == MInv /\ Reachable /\ AllRecorded /\ OldExamined

(* A pass that ends writes what it has to the status.                      *)
LEMMA RecordedAtEnd ==
    ASSUME LInv, w.pc # "idle", w'.pc = "idle", UNCHANGED pg,
           NEW n, st' = StatusPatch(orig, n),
           \A e \in Engines, u \in Users : IsRoleExist(pg[e], u) => u \in n.old \union {n.role}
    PROVE  AllRecorded' /\ OldExamined'
<1>1. cr.exists /\ orig = st
  BY DEF LInv, Reachable, MInv, Faithful
<1>2. st'.old = n.old /\ st'.role = n.role
  BY <1>1, PatchExact
<1>3. AllRecorded'
  BY <1>2 DEF AllRecorded, Recorded, IsRoleExist
<1> QED BY <1>3 DEF OldExamined

LEMMA RecordedPast ==
    ASSUME LInv, w.pc \in {"rights", "secrets", "success"}, NEW e \in Engines, NEW u \in Users,
           IsRoleExist(pg[e], u)
    PROVE  u \in mem.old \union {mem.role}
<1>1. ~seen.deleting /\ mem.role = w.user
  BY DEF LInv, MInv, ReadyInv, Held, TInv, UserInHand, InHand, RoleRecorded
<1>2. w.user = work.user
  BY <1>1 DEF LInv, MInv, Faithful
<1>3. Known(e, u)
  BY DEF LInv, MInv, AllKnown
<1> QED BY <1>1, <1>2, <1>3 DEF Known

LEMMA RecordedByBegin ==
    ASSUME LInv, Faultless, Begin
    PROVE  Reachable' /\ AllRecorded' /\ OldExamined'
<1>1. CacheCopies = {<<cr, st>>}
  BY DEF CacheCopies, Faultless
<1>2. \/ BeginNotFound(cr, st) \/ BeginDeletion(cr, st) \/ BeginMissing(cr, st)
      \/ BeginWait(cr, st) \/ BeginFinalizer(cr, st) \/ BeginWork(cr, st)
  BY <1>1 DEF Begin
<1>3. /\ w.pc = "idle" /\ seen' = cr /\ orig' = st /\ UNCHANGED <<work, pg, dbs>>
      /\ cr \in Resources /\ st \in Statuses
  BY <1>2 DEF BeginNotFound, BeginDeletion, BeginMissing, BeginWait, BeginFinalizer, BeginWork, Read,
              secretVars, engineVars, LInv, MInv, ReadyInv, Held, TInv, TypeOK
<1>4. \A e \in Engines, u \in Users :
        IsRoleExist(pg[e], u)' =>
          /\ u \in st.old \union {st.role}
          /\ cr.exists /\ cr.finalizer /\ e \in EnginesOf(ExistingDatabases(cr))
  BY <1>3 DEF LInv, AllRecorded, Recorded, Reachable, IsRoleExist
<1>5. ASSUME w'.pc = "idle", cr'.exists = cr.exists, cr.finalizer => cr'.finalizer,
             cr'.privs = cr.privs, cr.exists => st'.old = st.old /\ st'.role = st.role
      PROVE  Reachable' /\ AllRecorded' /\ OldExamined'
  <2>1. EnginesOf(ExistingDatabases(cr))' = EnginesOf(ExistingDatabases(cr))
    BY <1>3, <1>5 DEF EnginesOf, ExistingDatabases, PrivilegedDatabases
  <2>2. Reachable'
    BY <1>4, <1>5, <2>1 DEF Reachable
  <2>3. AllRecorded' /\ OldExamined'
    BY <1>4, <1>5 DEF AllRecorded, Recorded, OldExamined
  <2> QED BY <2>2, <2>3
<1>6. CASE BeginNotFound(cr, st) \/ BeginWait(cr, st)
  BY <1>3, <1>5, <1>6 DEF BeginNotFound, BeginWait, crVars
<1>7. CASE BeginMissing(cr, st) \/ BeginFinalizer(cr, st)
  <2>1. CASE ManageError(st, st) /\ UNCHANGED cr /\ cr.exists
    <3>1. w'.pc = "idle" /\ \E n : st' = StatusPatch(st, n) /\ n.old = st.old /\ n.role = st.role
      BY <1>3, <2>1, ErrorPatch
    <3>2. st'.old = st.old /\ st'.role = st.role
      BY <2>1, <3>1 DEF StatusPatch, Merged
    <3> QED BY <1>5, <2>1, <3>1, <3>2
  <2>2. CASE cr' = [cr EXCEPT !.finalizer = TRUE] /\ UNCHANGED <<st, mem, w>>
    <3>1. cr'.exists = cr.exists /\ cr'.finalizer /\ cr'.privs = cr.privs
      BY <1>3, <2>2 DEF Resources
    <3> QED BY <1>3, <1>5, <2>2, <3>1
  <2> QED BY <1>7, <2>1, <2>2 DEF BeginMissing, BeginFinalizer
<1>8. CASE BeginDeletion(cr, st)
  <2> DEFINE old == st.old \union ({st.role} \ {NoUser})
  <2>1. /\ cr.exists /\ cr.deleting /\ UNCHANGED <<cr, st>>
        /\ mem' = [st EXCEPT !.old = old] /\ w' = NewPass("drop", cr, old)
    BY <1>8 DEF BeginDeletion, crVars
  <2>2. /\ w'.pc = "drop" /\ w'.kept = {}
        /\ w'.pairs = old \X EnginesOf(ExistingDatabases(cr))
    BY <2>1 DEF NewPass, NoPass
  <2>3. mem'.old = old
    BY <1>3, <2>1 DEF Statuses
  <2>4. EnginesOf(ExistingDatabases(cr))' = EnginesOf(ExistingDatabases(cr))
    BY <1>3, <2>1 DEF EnginesOf, ExistingDatabases, PrivilegedDatabases
  <2>5. Reachable'
    BY <1>3, <1>4, <2>1, <2>4 DEF Reachable
  <2>6. \A e \in Engines, u \in Users : IsRoleExist(pg[e], u)' => <<u, e>> \in w'.pairs
    BY <1>4, <2>2, PrefixesAssumption
  <2>7. AllRecorded'
    BY <2>2, <2>6 DEF AllRecorded, Recorded
  <2>8. OldExamined'
    BY <2>2, <2>3 DEF OldExamined
  <2> QED BY <2>5, <2>7, <2>8
<1>9. CASE BeginWork(cr, st)
  <2>1. /\ cr.exists /\ cr.finalizer /\ ~cr.deleting /\ UNCHANGED <<cr, st>> /\ mem' = st
        /\ w' = NewPass("work", cr, {})
    BY <1>9 DEF BeginWork, crVars
  <2>2. w'.pc = "work" /\ w'.dbs = ExistingDatabases(cr) /\ w'.kept = {} /\ w'.pairs = {}
    BY <2>1 DEF NewPass, NoPass
  <2>3. /\ EnginesOf(ExistingDatabases(cr))' = EnginesOf(ExistingDatabases(cr))
        /\ EnginesOf(w.dbs)' = EnginesOf(ExistingDatabases(cr))
    BY <1>3, <2>1, <2>2 DEF EnginesOf, ExistingDatabases, PrivilegedDatabases
  <2>4. Reachable'
    BY <1>3, <1>4, <2>1, <2>2, <2>3 DEF Reachable
  <2>5. AllRecorded' /\ OldExamined'
    BY <1>4, <2>1, <2>2 DEF AllRecorded, Recorded, OldExamined
  <2> QED BY <2>4, <2>5
<1> QED BY <1>2, <1>6, <1>7, <1>8, <1>9

LEMMA RecordedByProceed ==
    ASSUME LInv, AtWorkSecret, NEW user, NEW pwd, NEW oldUser, NEW pwChanged,
           NEW rotErr, Proceed(user, pwd, oldUser, pwChanged, rotErr)
    PROVE  AllRecorded' /\ OldExamined'
<1>w. w \in Passes /\ mem \in Statuses /\ w.pc = "work" /\ ~seen.deleting /\ UNCHANGED <<pg, seen>>
  BY DEF AtWorkSecret, LInv, MInv, ReadyInv, Held, TInv, TypeOK, UserInHand, engineVars
<1> DEFINE old == IF oldUser \notin {user, NoUser} THEN mem.old \union {oldUser} ELSE mem.old
<1>1. w'.pc = "drop" /\ w'.kept = w.kept /\ w'.pairs = old \X EnginesOf(w.dbs)
  BY <1>w DEF Proceed, Passes
<1>2. mem'.old = old /\ mem'.role = mem.role
  BY <1>w DEF Proceed, Statuses
<1>3. mem.old \subseteq old
  OBVIOUS
<1> HIDE DEF old
<1>4. OldExamined'
  BY <1>w, <1>1, <1>2, <1>3 DEF LInv, OldExamined
<1>5. ASSUME NEW e \in Engines, NEW u \in Users, IsRoleExist(pg[e], u)'
      PROVE  <<u, e>> \in w'.pairs \/ u = mem'.role
  <2>1. IsRoleExist(pg[e], u)
    BY <1>w, <1>5
  <2>2. u \in mem.old \union {mem.role}
    BY <1>w, <2>1 DEF LInv, AllRecorded, Recorded
  <2>3. e \in EnginesOf(w.dbs)
    BY <1>w, <2>1 DEF LInv, MInv, AllKnown, Known
  <2> QED BY <1>1, <1>2, <1>3, <2>2, <2>3
<1>6. AllRecorded'
  BY <1>w, <1>1, <1>5 DEF AllRecorded, Recorded
<1> QED BY <1>4, <1>6

LEMMA RecordedByWorkSecret ==
    ASSUME LInv, WorkSecret
    PROVE  Reachable' /\ AllRecorded' /\ OldExamined'
<1>1. AtWorkSecret
  BY DEF WorkSecret, ManagedCreate, ManagedReplace, ManagedRotate, ManagedBlocked, ManagedKeep,
         ProvidedCreate, ProvidedReplace, ProvidedKeep, CreateWorkSecret
<1>2. PICK user, pwd, oldUser, pwChanged, rotErr : Proceed(user, pwd, oldUser, pwChanged, rotErr)
  BY DEF WorkSecret, ManagedCreate, ManagedReplace, ManagedRotate, ManagedBlocked, ManagedKeep,
         ProvidedCreate, ProvidedReplace, ProvidedKeep, CreateWorkSecret
<1>3. /\ w'.dbs = w.dbs /\ w.pc = "work" /\ UNCHANGED <<cr, pg, dbs, seen>>
      /\ w \in Passes
  BY <1>1, <1>2 DEF LInv, MInv, ReadyInv, Held, TInv, TypeOK, Passes, Proceed, AtWorkSecret, crVars, engineVars
<1>4. /\ EnginesOf(ExistingDatabases(cr))' = EnginesOf(ExistingDatabases(cr))
      /\ EnginesOf(w.dbs)' = EnginesOf(w.dbs)
  BY <1>3 DEF EnginesOf, ExistingDatabases, PrivilegedDatabases
<1>5. Reachable'
  BY <1>3, <1>4 DEF LInv, Reachable, IsRoleExist
<1> QED BY <1>1, <1>2, <1>5, RecordedByProceed

(* A pass that is still with the old roles.                                *)
LEMMA RecordedByDrop ==
    ASSUME LInv, UNCHANGED <<cr, dbs, seen, mem>>,
           w.pc \in {"drop", "dropping"}, w'.pc \in {"drop", "dropping"},
           w'.dbs = w.dbs, w'.pairs \subseteq w.pairs, w.kept \subseteq w'.kept,
           w'.kept \subseteq mem.old,
           \A e \in Engines, u \in Users :
             IsRoleExist(pg[e], u)' => /\ IsRoleExist(pg[e], u)
                                       /\ <<u, e>> \in w.pairs => <<u, e>> \in w'.pairs \/ u \in w'.kept
    PROVE  Reachable' /\ AllRecorded' /\ OldExamined'
<1>1. /\ EnginesOf(ExistingDatabases(cr))' = EnginesOf(ExistingDatabases(cr))
      /\ EnginesOf(w.dbs)' = EnginesOf(w.dbs)
  BY DEF EnginesOf, ExistingDatabases, PrivilegedDatabases
<1>2. Reachable'
  BY <1>1 DEF LInv, Reachable
<1>3. ASSUME NEW e \in Engines, NEW u \in Users, IsRoleExist(pg[e], u)'
      PROVE  Recorded(e, u)'
  <2>1. Recorded(e, u)
    BY <1>3 DEF LInv, AllRecorded
  <2>2. <<u, e>> \in w.pairs => <<u, e>> \in w'.pairs \/ u \in w'.kept
    BY <1>3
  <2> QED BY <2>1, <2>2 DEF Recorded
<1>4. AllRecorded'
  BY <1>3 DEF AllRecorded
<1>5. OldExamined'
  BY DEF LInv, OldExamined
<1> QED BY <1>2, <1>4, <1>5

(* A pass that ends leaves the resource as it found it.                    *)
LEMMA ReachableAtEnd ==
    ASSUME LInv, w'.pc = "idle", UNCHANGED <<cr, dbs, pg>>
    PROVE  Reachable'
<1>1. EnginesOf(ExistingDatabases(cr))' = EnginesOf(ExistingDatabases(cr))
  BY DEF EnginesOf, ExistingDatabases, PrivilegedDatabases
<1> QED BY <1>1 DEF LInv, Reachable, IsRoleExist

LEMMA RecordedByDropOldRoles ==
    ASSUME LInv, [Next]_vars, DropOldRoles
    PROVE  Reachable' /\ AllRecorded' /\ OldExamined'
<1> USE DEF OldRoles, crVars, secretVars, engineVars
<1>w. /\ w \in Passes /\ mem \in Statuses /\ pg \in [Engines -> EngineStates]
      /\ w.pc = "dropping" => w.at \in Users \X Engines
  BY DEF LInv, MInv, ReadyInv, Held, TInv, TypeOK
<1>x. w.pc \in {"work", "drop", "dropping"} =>
        w.kept \subseteq mem.old /\ \A u, e : <<u, e>> \in w.pairs => u \in mem.old
  BY DEF LInv, OldExamined
<1>p. pg' = pg => \A e \in Engines, u \in Users : IsRoleExist(pg[e], u)' => IsRoleExist(pg[e], u)
  BY DEF IsRoleExist
<1>1. ASSUME NEW v \in Users, NEW f \in Engines, DropAbsent(v, f)
      PROVE  Reachable' /\ AllRecorded' /\ OldExamined'
  <2>1. /\ w.pc = "drop" /\ w'.pc = "drop" /\ w'.dbs = w.dbs
        /\ w'.kept = w.kept /\ w'.pairs = w.pairs \ {<<v, f>>}
        /\ UNCHANGED <<cr, dbs, seen, mem, pg>>
    BY <1>1, <1>w DEF DropAbsent, Examine, Passes
  <2>2. ~IsRoleExist(pg[f], v)
    BY <1>1 DEF DropAbsent
  <2>3. ASSUME NEW e \in Engines, NEW u \in Users, IsRoleExist(pg[e], u), <<u, e>> \in w.pairs
        PROVE  <<u, e>> \in w'.pairs
    BY <2>1, <2>2, <2>3
  <2> QED BY <1>p, <1>x, <2>1, <2>3, RecordedByDrop
<1>2. ASSUME NEW v \in Users, NEW f \in Engines, DropPostponed(v, f)
      PROVE  Reachable' /\ AllRecorded' /\ OldExamined'
  <2>1. /\ w.pc = "drop" /\ w'.pc = "drop" /\ w'.dbs = w.dbs
        /\ w'.kept = w.kept \union {v} /\ w'.pairs = w.pairs \ {<<v, f>>}
        /\ UNCHANGED <<cr, dbs, seen, mem, pg>>
    BY <1>2, <1>w DEF DropPostponed, Examine, Passes
  <2>2. ASSUME NEW e \in Engines, NEW u \in Users, <<u, e>> \in w.pairs
        PROVE  <<u, e>> \in w'.pairs \/ u \in w'.kept
    BY <2>1, <2>2
  <2>3. v \in mem.old
    BY <1>2, <1>x DEF DropPostponed, Examine
  <2> QED BY <1>p, <1>x, <2>1, <2>2, <2>3, RecordedByDrop
<1>3. ASSUME NEW v \in Users, NEW f \in Engines, DropDecided(v, f)
      PROVE  Reachable' /\ AllRecorded' /\ OldExamined'
  <2>1. /\ w.pc = "drop" /\ w'.pc = "dropping" /\ w'.dbs = w.dbs
        /\ w'.kept = w.kept /\ w'.pairs = w.pairs
        /\ UNCHANGED <<cr, dbs, seen, mem, pg>>
    BY <1>3, <1>w DEF DropDecided, Examine, Passes
  <2> QED BY <1>p, <1>x, <2>1, RecordedByDrop
<1>4. CASE DropNow
  <2>1. /\ w.pc = "dropping" /\ w'.pc = "drop" /\ w'.dbs = w.dbs
        /\ w'.kept = w.kept /\ w'.pairs = w.pairs \ {w.at}
        /\ UNCHANGED <<cr, dbs, seen, mem>>
    BY <1>4, <1>w DEF DropNow, Passes
  <2>2. ASSUME NEW e \in Engines, NEW u \in Users, IsRoleExist(pg[e], u)'
        PROVE  IsRoleExist(pg[e], u) /\ <<u, e>> # w.at
    <3>1. IsRoleExist(pg[e], u)
      <4>1. w.pc # "role" /\ w.pc # "password"
        BY <2>1
      <4> QED BY <2>2, <4>1, RoleMade DEF LInv, MInv, ReadyInv, RoleCreate, RolePassword
    <3>2. ASSUME w.at = <<u, e>>
          PROVE  FALSE
      <4>1. pg' = [pg EXCEPT ![e] = DropRole(@, u)]
        BY <1>4, <3>2 DEF DropNow
      <4>2. pg'[e].pwd[u] = NoPassword
        BY <1>w, <4>1 DEF DropRole, EngineStates
      <4> QED BY <2>2, <4>2 DEF IsRoleExist
    <3> QED BY <3>1, <3>2
  <2>3. \A e \in Engines, u \in Users :
          IsRoleExist(pg[e], u)' => /\ IsRoleExist(pg[e], u)
                                    /\ <<u, e>> \in w.pairs => <<u, e>> \in w'.pairs \/ u \in w'.kept
    BY <2>1, <2>2
  <2> QED BY <1>x, <2>1, <2>3, RecordedByDrop
<1>5. CASE DropFails
  <2>1. w.pc = "dropping" /\ UNCHANGED <<cr, dbs, pg>> /\ ManageError(orig, mem)
    BY <1>5 DEF DropFails
  <2>2. PICK n : st' = StatusPatch(orig, n) /\ n.old = mem.old /\ n.role = mem.role
    BY <1>w, <2>1, ErrorPatch
  <2>3. w'.pc = "idle"
    BY <1>w, <2>1, ErrorPatch
  <2>4. \A e \in Engines, u \in Users : IsRoleExist(pg[e], u) => u \in n.old \union {n.role}
    BY <1>x, <2>1, <2>2 DEF LInv, AllRecorded, Recorded
  <2> QED BY <2>1, <2>2, <2>3, <2>4, RecordedAtEnd, ReachableAtEnd
<1>6. CASE StopOnOldRoles
  <2> DEFINE m == [mem EXCEPT !.old = w.kept]
  <2>1. w.pc = "drop" /\ w.pairs = {} /\ UNCHANGED <<cr, dbs, pg>> /\ ManageError(orig, m)
    BY <1>6 DEF StopOnOldRoles, AllExamined
  <2>2. m \in Statuses /\ m.old = w.kept /\ m.role = mem.role
    BY <1>w DEF Statuses, Passes
  <2> HIDE DEF m
  <2>3. PICK n : st' = StatusPatch(orig, n) /\ n.old = w.kept /\ n.role = mem.role
    BY <2>1, <2>2, ErrorPatch
  <2>4. w'.pc = "idle"
    BY <2>1, <2>2, ErrorPatch
  <2>5. \A e \in Engines, u \in Users : IsRoleExist(pg[e], u) => u \in n.old \union {n.role}
    BY <2>1, <2>3 DEF LInv, AllRecorded, Recorded
  <2> QED BY <2>1, <2>3, <2>4, <2>5, RecordedAtEnd, ReachableAtEnd
<1>7. CASE GoFinalize
  <2>1. /\ w.pc = "drop" /\ w.pairs = {} /\ w.kept = {} /\ seen.deleting
        /\ w'.pc = "finalize" /\ UNCHANGED <<cr, dbs, seen, pg>>
    BY <1>7, <1>w DEF GoFinalize, AllExamined, Passes
  <2>2. \A e \in Engines, u \in Users : ~IsRoleExist(pg[e], u)'
    BY <2>1 DEF LInv, AllRecorded, Recorded, IsRoleExist
  <2>3. Reachable' /\ AllRecorded' /\ OldExamined'
    BY <2>1, <2>2 DEF LInv, Reachable, AllRecorded, OldExamined
  <2> QED BY <2>3
<1>8. CASE GoManageRoles
  <2>1. /\ w.pc = "drop" /\ ~seen.deleting
        /\ w'.pc = "role" /\ w'.dbs = w.dbs /\ UNCHANGED <<cr, dbs, seen, pg>>
    BY <1>8, <1>w DEF GoManageRoles, AllExamined, Passes
  <2>2. /\ EnginesOf(ExistingDatabases(cr))' = EnginesOf(ExistingDatabases(cr))
        /\ EnginesOf(w.dbs)' = EnginesOf(w.dbs)
    BY <2>1 DEF EnginesOf, ExistingDatabases, PrivilegedDatabases
  <2>3. Reachable'
    BY <2>1, <2>2 DEF LInv, Reachable, IsRoleExist
  <2> QED BY <2>1, <2>3 DEF AllRecorded, Recorded, OldExamined
<1>9. CASE Finalize
  <2>1. w.pc = "finalize" /\ UNCHANGED pg /\ w'.pc = "idle"
    BY <1>9, ValuesType DEF Finalize, ManageError, EndPass
  <2>2. \A e \in Engines, u \in Users : ~IsRoleExist(pg[e], u)'
    BY <2>1 DEF LInv, AllRecorded, Recorded, IsRoleExist
  <2> QED BY <2>1, <2>2 DEF Reachable, AllRecorded, OldExamined
<1> QED BY <1>1, <1>2, <1>3, <1>4, <1>5, <1>6, <1>7, <1>8, <1>9 DEF DropOldRoles

(* A pass past the old roles that goes on: a role it makes is its own, on  *)
(* an engine that the stored privileges reach.                             *)
LEMMA RecordedByPass ==
    ASSUME LInv, [Next]_vars, UNCHANGED <<cr, dbs, seen>>,
           w.pc \notin {"idle", "work", "drop", "dropping"},
           w'.pc \notin {"idle", "work", "drop", "dropping", "finalize"},
           w'.dbs = w.dbs
    PROVE  Reachable' /\ AllRecorded' /\ OldExamined'
<1>1. /\ EnginesOf(ExistingDatabases(cr))' = EnginesOf(ExistingDatabases(cr))
      /\ EnginesOf(w.dbs)' = EnginesOf(w.dbs)
  BY DEF EnginesOf, ExistingDatabases, PrivilegedDatabases
<1>2. ASSUME NEW e \in Engines, NEW u \in Users, IsRoleExist(pg[e], u)'
      PROVE  cr.exists /\ cr.finalizer /\ e \in EnginesOf(ExistingDatabases(cr))
  <2>1. CASE IsRoleExist(pg[e], u)
    BY <2>1 DEF LInv, Reachable
  <2>2. CASE ~IsRoleExist(pg[e], u)
    <3>1. \/ w.pc = "role" /\ e \in w.todo
          \/ w.pc = "password" /\ e = w.at[2]
      BY <1>2, <2>2, RoleMade DEF LInv, MInv, ReadyInv, RoleCreate, RolePassword
    <3>2. ~seen.deleting
      BY <3>1 DEF LInv, MInv, ReadyInv, Held, TInv, UserInHand
    <3>3. e \in EnginesOf(w.dbs)
      BY <3>1 DEF LInv, MInv, Faithful
    <3> QED BY <3>2, <3>3 DEF LInv, Reachable
  <2> QED BY <2>1, <2>2
<1>3. Reachable'
  BY <1>1, <1>2 DEF LInv, Reachable
<1>4. AllRecorded' /\ OldExamined'
  BY DEF AllRecorded, Recorded, OldExamined
<1> QED BY <1>3, <1>4

LEMMA RecordedByRoles ==
    ASSUME LInv, [Next]_vars, ManageRoles
    PROVE  Reachable' /\ AllRecorded' /\ OldExamined'
<1>w. w \in Passes
  BY DEF LInv, MInv, ReadyInv, Held, TInv, TypeOK
<1>1. UNCHANGED <<cr, dbs, seen>> /\ w.pc \in {"role", "password"}
  BY DEF ManageRoles, RoleCreate, RoleAlter, RolePassword, RecordRole, OnEngines, crVars
<1>2. w'.dbs = w.dbs /\ w'.pc \in {"role", "password", "rights"}
  BY <1>w DEF ManageRoles, RoleCreate, RoleAlter, RolePassword, RecordRole, Passes
<1> QED BY <1>1, <1>2, RecordedByPass

LEMMA RecordedByRightsAndSecrets ==
    ASSUME LInv, [Next]_vars, ManageRights \/ ManageSecrets
    PROVE  Reachable' /\ AllRecorded' /\ OldExamined'
<1>w. w \in Passes /\ mem \in Statuses
  BY DEF LInv, MInv, ReadyInv, Held, TInv, TypeOK
<1>1. UNCHANGED <<cr, dbs, seen>> /\ w.pc \in {"rights", "secrets", "success"}
  BY DEF ManageRights, RightsOn, RightsFail, RevokeOn, GoManageSecrets, ManageSecrets, SecretOn,
         CleanOldSecrets, ManageSuccess, OnEngines, crVars
<1>2. \A e \in Engines, u \in Users : IsRoleExist(pg[e], u) => u \in mem.old \union {mem.role}
  BY <1>1, RecordedPast
<1>3. CASE \E d \in Databases : RightsFail(d)
  <2>1. UNCHANGED pg /\ ManageError(orig, mem)
    BY <1>3 DEF RightsFail, engineVars
  <2>2. PICK n : st' = StatusPatch(orig, n) /\ n.old = mem.old /\ n.role = mem.role
    BY <1>w, <2>1, ErrorPatch
  <2>3. w'.pc = "idle"
    BY <1>w, <2>1, ErrorPatch
  <2> QED BY <1>1, <1>2, <2>1, <2>2, <2>3, RecordedAtEnd, ReachableAtEnd
<1>4. CASE ManageSuccess
  <2> DEFINE n == [mem EXCEPT !.ready = TRUE, !.phase = "Created"]
  <2>1. w'.pc = "idle" /\ UNCHANGED pg /\ st' = StatusPatch(orig, n)
    BY <1>4, ValuesType DEF ManageSuccess, EndPass, engineVars
  <2>2. n.old = mem.old /\ n.role = mem.role
    BY <1>w DEF Statuses
  <2> HIDE DEF n
  <2> QED BY <1>1, <1>2, <2>1, <2>2, RecordedAtEnd, ReachableAtEnd
<1>5. ASSUME ~(\E d \in Databases : RightsFail(d)), ~ManageSuccess
      PROVE  w'.dbs = w.dbs /\ w'.pc \in {"rights", "secrets", "success"}
  BY <1>w, <1>5 DEF ManageRights, RightsOn, RevokeOn, GoManageSecrets, ManageSecrets, SecretOn,
                    CleanOldSecrets, Passes
<1> QED BY <1>1, <1>3, <1>4, <1>5, RecordedByPass

(* What the cluster does to the resource and its databases: a resource     *)
(* with its finalizer stays, and the engines that were reached still are.  *)
LEMMA EnvironmentReach ==
    ASSUME TypeOK, Faultless, Environment
    PROVE  /\ cr.exists /\ (cr.finalizer \/ cr.deleting) => cr'.exists
           /\ cr'.finalizer = cr.finalizer
           /\ EnginesOf(ExistingDatabases(cr)) \subseteq EnginesOf(ExistingDatabases(cr))'
           /\ \A d \in Databases : dbs[d] # "absent" => dbs'[d] # "absent"
<1>t. cr \in Resources /\ dbs \in [Databases -> Presence]
  BY DEF TypeOK
<1>1. \/ UNCHANGED dbs
      \/ \E d \in Databases : CreateDatabase(d) \/ ProvisionDatabase(d)
  BY DEF Environment, SetPrefix, SetPrivilege, SetAttributes, DeleteResource, DeleteWorkSecret,
         RemoveWorkPassword, RemoveWorkUser, DeleteGeneratedSecret, SetImport, EditSpec, Connect,
         Disconnect, Tick
<1>2. \A d \in Databases : dbs[d] # "absent" => dbs'[d] # "absent"
  BY <1>t, <1>1 DEF CreateDatabase, ProvisionDatabase, Presence
<1>3. \/ UNCHANGED cr
      \/ \E prefix \in Prefixes : SetPrefix(prefix)
      \/ \E d \in Databases, p \in Privileges \union {NoPrivilege} : SetPrivilege(d, p)
      \/ \E attr \in Attributes : SetAttributes(attr)
      \/ DeleteResource
  BY DEF Environment, DeleteWorkSecret, RemoveWorkPassword, RemoveWorkUser,
         DeleteGeneratedSecret, SetImport, CreateDatabase, ProvisionDatabase, Connect,
         Disconnect, Tick, crVars
<1>4. ASSUME cr'.privs = cr.privs
      PROVE  EnginesOf(ExistingDatabases(cr)) \subseteq EnginesOf(ExistingDatabases(cr))'
  BY <1>2, <1>4 DEF EnginesOf, ExistingDatabases, PrivilegedDatabases
<1> SUFFICES /\ cr.exists /\ (cr.finalizer \/ cr.deleting) => cr'.exists
             /\ cr'.finalizer = cr.finalizer
             /\ EnginesOf(ExistingDatabases(cr)) \subseteq EnginesOf(ExistingDatabases(cr))'
  BY <1>2
<1>5. CASE UNCHANGED cr
  BY <1>4, <1>5
<1>6. ASSUME NEW prefix \in Prefixes, SetPrefix(prefix)
      PROVE  cr'.exists = cr.exists /\ cr'.finalizer = cr.finalizer /\ cr'.privs = cr.privs
  BY <1>t, <1>6 DEF SetPrefix, Resources
<1>7. ASSUME NEW attr \in Attributes, SetAttributes(attr)
      PROVE  cr'.exists = cr.exists /\ cr'.finalizer = cr.finalizer /\ cr'.privs = cr.privs
  BY <1>t, <1>7 DEF SetAttributes, Resources
<1>8. CASE DeleteResource
  <2>1. ~cr.deleting /\ cr'.exists = cr.finalizer /\ cr'.finalizer = cr.finalizer /\ cr'.privs = cr.privs
    BY <1>t, <1>8 DEF DeleteResource, EditSpec, Resources
  <2> QED BY <1>4, <2>1
<1>9. ASSUME NEW d \in Databases, NEW p, SetPrivilege(d, p)
      PROVE  /\ cr'.exists = cr.exists /\ cr'.finalizer = cr.finalizer
             /\ EnginesOf(ExistingDatabases(cr)) \subseteq EnginesOf(ExistingDatabases(cr))'
  <2>1. cr'.exists = cr.exists /\ cr'.finalizer = cr.finalizer /\ PrivilegedDatabases(cr') # {}
    BY <1>t, <1>9 DEF SetPrivilege, Resources
  <2>2. OneEngine /\ \A x \in Databases : dbs[x] # "absent"
    BY <1>9 DEF SetPrivilege, Edit, Allowed, Faultless, Remembers
  <2>3. PICK e \in Engines : \A x \in Databases : EngineOf[x] = e
    BY <2>2 DEF OneEngine
  <2>4. PrivilegedDatabases(cr)' = PrivilegedDatabases(cr')
    BY DEF PrivilegedDatabases
  <2>5. PICK x \in Databases : x \in PrivilegedDatabases(cr')
    BY <2>1 DEF PrivilegedDatabases
  <2>6. x \in ExistingDatabases(cr)'
    BY <1>2, <2>2, <2>4, <2>5 DEF ExistingDatabases
  <2>7. e \in EnginesOf(ExistingDatabases(cr))'
    BY <2>3, <2>6 DEF EnginesOf
  <2>8. EnginesOf(ExistingDatabases(cr)) \subseteq {e}
    BY <2>3 DEF EnginesOf, ExistingDatabases, PrivilegedDatabases
  <2> QED BY <2>1, <2>7, <2>8
<1> QED BY <1>3, <1>4, <1>5, <1>6, <1>7, <1>8, <1>9

LEMMA RecordedByEnvironment ==
    ASSUME LInv, Faultless, Environment
    PROVE  Reachable' /\ AllRecorded' /\ OldExamined'
<1>1. UNCHANGED <<st, pg, seen, mem, w>>
  BY EnvironmentFrame
<1>2. /\ cr.exists /\ (cr.finalizer \/ cr.deleting) => cr'.exists
      /\ cr'.finalizer = cr.finalizer
      /\ EnginesOf(ExistingDatabases(cr)) \subseteq EnginesOf(ExistingDatabases(cr))'
  BY EnvironmentReach DEF LInv, MInv, ReadyInv, Held, TInv
<1>3. EnginesOf(w.dbs)' = EnginesOf(w.dbs)
  BY <1>1 DEF EnginesOf
<1>4. seen.deleting => cr.deleting
  BY DEF LInv, MInv, Faithful
<1>5. Reachable'
  BY <1>1, <1>2, <1>3, <1>4 DEF LInv, Reachable, IsRoleExist
<1>6. AllRecorded' /\ OldExamined'
  BY <1>1 DEF LInv, AllRecorded, Recorded, OldExamined, IsRoleExist
<1> QED BY <1>5, <1>6

LEMMA FaultlessKept ==
    ASSUME LInv, Faultless, [Next]_vars
    PROVE  Faultless'
<1>1. Remembers'
  BY RemembersKept DEF LInv, Faultless
<1>2. edits'.kinds = edits.kinds /\ faults'.kinds = faults.kinds
  BY KindsKept DEF LInv, MInv, ReadyInv, Held, TInv
<1>3. \A d \in Databases : dbs[d] # "absent" => dbs'[d] # "absent"
  <2>1. CASE Environment
    BY <2>1, EnvironmentReach DEF LInv, MInv, ReadyInv, Held, TInv
  <2>2. CASE Pass \/ Fail \/ Crash \/ UNCHANGED vars
    <3>1. UNCHANGED dbs
      BY <2>2 DEF Pass, Begin, BeginNotFound, BeginDeletion, BeginMissing, BeginWait, BeginFinalizer,
                BeginWork, Read, WorkSecret, ManagedCreate, ManagedReplace, ManagedRotate,
                ManagedBlocked, ManagedKeep, ProvidedCreate, ProvidedReplace, ProvidedKeep,
                CreateWorkSecret, AtWorkSecret, DropOldRoles, DropAbsent, DropPostponed,
                DropDecided, DropNow, DropFails, StopOnOldRoles, GoFinalize, GoManageRoles,
                Finalize, Examine, OldRoles, ManageRoles, RoleCreate, RoleAlter, RolePassword,
                RecordRole, ManageRights, RightsOn, RightsFail, RevokeOn, GoManageSecrets,
                ManageSecrets, SecretOn, CleanOldSecrets, ManageSuccess, OnEngines, Fail, Crash, vars
    <3> QED BY <3>1
  <2> QED BY <2>1, <2>2 DEF Next
<1> QED BY <1>1, <1>2, <1>3 DEF Faultless

LEMMA LStep == LInv /\ Faultless /\ [Next]_vars => (LInv /\ Faultless)'
<1> SUFFICES ASSUME LInv, Faultless, [Next]_vars PROVE LInv' /\ Faultless'
  OBVIOUS
<1>1. MInv' /\ Faultless'
  BY MStep, FaultlessKept DEF LInv, Faultless
<1> SUFFICES Reachable' /\ AllRecorded' /\ OldExamined'
  BY <1>1 DEF LInv
<1>2. ~Fail /\ ~Crash
  BY DEF Faultless, Fail, Crash, Allowed
<1>3. CASE UNCHANGED vars
  <2>1. UNCHANGED <<cr, st, dbs, pg, seen, mem, w>>
    BY <1>3 DEF vars
  <2>2. /\ EnginesOf(ExistingDatabases(cr))' = EnginesOf(ExistingDatabases(cr))
        /\ EnginesOf(w.dbs)' = EnginesOf(w.dbs)
    BY <2>1 DEF EnginesOf, ExistingDatabases, PrivilegedDatabases
  <2>3. Reachable'
    BY <2>1, <2>2 DEF LInv, Reachable, IsRoleExist
  <2>4. AllRecorded' /\ OldExamined'
    BY <2>1 DEF LInv, AllRecorded, Recorded, OldExamined, IsRoleExist
  <2> QED BY <2>3, <2>4
<1>4. CASE ManageRights \/ ManageSecrets
  BY <1>4, RecordedByRightsAndSecrets
<1> QED BY <1>2, <1>3, <1>4, RecordedByBegin, RecordedByWorkSecret, RecordedByDropOldRoles,
           RecordedByRoles, RecordedByEnvironment DEF Next, Pass

LEMMA LInit ==
    ASSUME Init, \A plan \in Plans : DeletionPlan(plan)
    PROVE  LInv /\ Faultless
<1>1. PICK plan \in Plans : edits = plan.edits /\ faults = plan.faults /\ dbs = plan.dbs
  BY DEF Init
<1>2. \A q \in Plans : RemembersPlan(q)
  BY DEF DeletionPlan, RemembersPlan
<1>3. MInv /\ Remembers
  BY <1>2, MInit
<1>4. w.pc = "idle"
  BY ValuesType DEF Init
<1>5. \A e \in Engines, u \in Users : ~IsRoleExist(pg[e], u)
  BY DEF Init, IsRoleExist, EmptyEngine
<1>6. Reachable /\ AllRecorded /\ OldExamined
  BY <1>4, <1>5 DEF Reachable, AllRecorded, OldExamined
<1>7. Faultless
  BY <1>1, <1>3 DEF Faultless, DeletionPlan
<1> QED BY <1>3, <1>6, <1>7 DEF LInv

(* A deleted resource leaves no login role on any engine: when the         *)
(* finalizer is removed, every role that a rotation or a prefix edit ever  *)
(* made was in the status or in the pass, and was examined and dropped on  *)
(* each engine; a resource that goes without its finalizer had none.       *)
THEOREM DeletionLeavesNothing ==
    ASSUME \A plan \in Plans : DeletionPlan(plan)
    PROVE  Spec => []NothingLeft
<1>1. Init => LInv /\ Faultless
  BY LInit
<1>2. LInv => NothingLeft
  BY DEF LInv, Reachable, NothingLeft
<1> QED BY <1>1, <1>2, LStep, PTL DEF Spec
=============================================================================
