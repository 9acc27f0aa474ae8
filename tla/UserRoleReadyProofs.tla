------------------------ MODULE UserRoleReadyProofs ------------------------
(***************************************************************************)
(* Proofs about UserRole: what is in place when a pass reports Ready, for  *)
(* any engines, databases, edits and faults.  It needs no assumption on    *)
(* what went before, because a pass does all of it anew: it grants, it     *)
(* revokes what it finds left over, it writes every secret.                *)
(***************************************************************************)
EXTENDS UserRoleProofs

-----------------------------------------------------------------------------
(* The statements on memberships.                                          *)

LEMMA MembershipIs ==
    ASSUME NEW g \in EngineStates, NEW u \in Users
    PROVE  /\ GetRoleMembership(g, u) \subseteq Groups
           /\ \A r : r \in GetRoleMembership(g, u) <=> <<u, r>> \in g.member
<1>1. g.member \subseteq Users \X Groups
  BY DEF EngineStates
<1>2. ASSUME NEW r \in GetRoleMembership(g, u)
      PROVE  <<u, r>> \in g.member /\ r \in Groups
  <2>1. PICK m \in g.member : m[1] = u /\ m[2] = r
    BY <1>2 DEF GetRoleMembership
  <2>2. m = <<m[1], m[2]>> /\ m[2] \in Groups
    BY <1>1, <2>1
  <2> QED BY <2>1, <2>2
<1>3. ASSUME NEW r, <<u, r>> \in g.member
      PROVE  r \in GetRoleMembership(g, u)
  <2>1. <<u, r>>[1] = u /\ <<u, r>>[2] = r
    OBVIOUS
  <2> QED BY <1>3, <2>1 DEF GetRoleMembership
<1> QED BY <1>2, <1>3

(* GRANT adds the role; the default role of the sessions is no membership. *)
LEMMA MembershipAfterGrant ==
    ASSUME NEW g \in EngineStates, NEW u \in Users, NEW d \in Databases, NEW r \in Groups
    PROVE  LET h == AlterDefaultLoginRoleOnDatabase(GrantRole(g, r, u), u, r, d)
           IN  GetRoleMembership(h, u) = GetRoleMembership(g, u) \union {r}
<1> DEFINE h == AlterDefaultLoginRoleOnDatabase(GrantRole(g, r, u), u, r, d)
<1>1. GrantRole(g, r, u) \in EngineStates
  BY RightStatementsType
<1>2. h \in EngineStates
  <2>1. \A k \in EngineStates : AlterDefaultLoginRoleOnDatabase(k, u, r, d) \in EngineStates
    BY RightStatementsType
  <2> QED BY <1>1, <2>1
<1>3. h.member = g.member \union {<<u, r>>}
  <2>1. GrantRole(g, r, u).member = g.member \union {<<u, r>>}
    BY DEF GrantRole, EngineStates
  <2>2. \A k \in EngineStates : AlterDefaultLoginRoleOnDatabase(k, u, r, d).member = k.member
    BY DEF AlterDefaultLoginRoleOnDatabase, EngineStates
  <2> QED BY <1>1, <2>1, <2>2
<1> HIDE DEF h
<1>4. \A x : <<u, x>> = <<u, r>> <=> x = r
  OBVIOUS
<1>5. \A x : x \in GetRoleMembership(h, u) <=> x \in GetRoleMembership(g, u) \/ x = r
  BY <1>2, <1>3, <1>4, MembershipIs
<1>6. GetRoleMembership(h, u) = GetRoleMembership(g, u) \union {r}
  BY <1>5
<1> QED BY <1>6 DEF h

(* REVOKE takes away what it names.                                        *)
LEMMA MembershipAfterRevoke ==
    ASSUME NEW g \in EngineStates, NEW u \in Users, NEW R, NEW P
    PROVE  LET h == RevokeUserSetRoleOnDatabases(RevokeRoles(g, R, u), P)
           IN  GetRoleMembership(h, u) = GetRoleMembership(g, u) \ R
<1> DEFINE h == RevokeUserSetRoleOnDatabases(RevokeRoles(g, R, u), P)
<1>1. h \in EngineStates
  BY RevokeStatementsType
<1>2. h.member = {m \in g.member : ~(m[1] = u /\ m[2] \in R)}
  BY DEF RevokeUserSetRoleOnDatabases, RevokeRoles, EngineStates
<1> HIDE DEF h
<1>3. \A x : <<u, x>>[1] = u /\ <<u, x>>[2] = x
  OBVIOUS
<1>4. \A x : <<u, x>> \in h.member <=> <<u, x>> \in g.member /\ x \notin R
  BY <1>2, <1>3
<1>5. \A x : x \in GetRoleMembership(h, u) <=> x \in GetRoleMembership(g, u) /\ x \notin R
  BY <1>1, <1>4, MembershipIs
<1>6. GetRoleMembership(h, u) = GetRoleMembership(g, u) \ R
  BY <1>5
<1> QED BY <1>6 DEF h

-----------------------------------------------------------------------------
(* The kinds of edits and faults of a scenario do not change.              *)

LEMMA KindsKept ==
    ASSUME TypeOK, [Next]_vars
    PROVE  edits'.kinds = edits.kinds /\ faults'.kinds = faults.kinds
<1>1. edits \in Budgets(EditKinds) /\ faults \in Budgets(FaultKinds)
  BY DEF TypeOK
<1>2. CASE Pass \/ UNCHANGED vars
  <2>1. UNCHANGED <<edits, faults>>
    BY <1>2 DEF Pass, Begin, BeginNotFound, BeginDeletion, BeginMissing, BeginWait, BeginFinalizer,
                BeginWork, Read, WorkSecret, ManagedCreate, ManagedReplace, ManagedRotate,
                ManagedBlocked, ManagedKeep, ProvidedCreate, ProvidedReplace, ProvidedKeep,
                CreateWorkSecret, AtWorkSecret, DropOldRoles, DropAbsent, DropPostponed,
                DropDecided, DropNow, DropFails, StopOnOldRoles, GoFinalize, GoManageRoles,
                Finalize, Examine, OldRoles, ManageRoles, RoleCreate, RoleAlter, RolePassword,
                RecordRole, ManageRights, RightsOn, RightsFail, RevokeOn, GoManageSecrets,
                ManageSecrets, SecretOn, CleanOldSecrets, ManageSuccess, OnEngines, boundVars, vars
  <2> QED BY <2>1
<1>3. CASE Fail \/ Crash
  <2>1. UNCHANGED edits /\ faults' = Spend(faults) /\ faults.left > 0
    BY <1>3 DEF Fail, Crash, Allowed
  <2> QED BY <1>1, <2>1, SpendType
<1>4. CASE Environment
  <2>1. UNCHANGED faults /\ (UNCHANGED edits \/ (edits' = Spend(edits) /\ edits.left > 0))
    BY <1>4 DEF Environment, SetPrefix, SetPrivilege, SetAttributes, DeleteResource,
                DeleteWorkSecret, RemoveWorkPassword, RemoveWorkUser, DeleteGeneratedSecret,
                SetImport, Edit, Allowed, CreateDatabase, ProvisionDatabase, Connect,
                Disconnect, Tick, boundVars
  <2> QED BY <1>1, <2>1, SpendType
<1> QED BY <1>2, <1>3, <1>4 DEF Next

(* The environment writes neither to an engine nor to the memory of the    *)
(* pass, and to a generated secret only to delete it.                      *)
LEMMA EnvironmentFrame ==
    ASSUME Environment
    PROVE  /\ UNCHANGED <<st, pg, seen, orig, mem, w>>
           /\ \/ UNCHANGED gen
              \/ /\ "generated" \in edits.kinds
                 /\ \E d \in Databases : gen' = [gen EXCEPT ![d] = NoCredentials]
<1>1. UNCHANGED <<st, pg, seen, orig, mem, w>>
  BY DEF Environment, SetPrefix, SetPrivilege, SetAttributes, DeleteResource, DeleteWorkSecret,
         RemoveWorkPassword, RemoveWorkUser, DeleteGeneratedSecret, SetImport, Edit,
         CreateDatabase, ProvisionDatabase, Connect, Disconnect, Tick, passVars, crVars, engineVars
<1>2. \/ UNCHANGED gen
      \/ \E d \in Databases : DeleteGeneratedSecret(d)
  BY DEF Environment, SetPrefix, SetPrivilege, SetAttributes, DeleteResource, DeleteWorkSecret,
         RemoveWorkPassword, RemoveWorkUser, SetImport, Edit, EditSpec,
         CreateDatabase, ProvisionDatabase, Connect, Disconnect, Tick, secretVars
<1> QED BY <1>1, <1>2 DEF DeleteGeneratedSecret, Edit, Allowed

-----------------------------------------------------------------------------
(* What a running pass has brought about so far.                           *)

(* A pass that works takes all databases of the privileges, or none.       *)
AllPrivileges == (w.pc # "idle" /\ ~seen.deleting) => w.dbs = PrivilegedDatabases(seen)

(* Granted where the databases are done, revoked where the engines are;    *)
(* an engine is done after its databases.                                  *)
RightsInHand ==
    w.pc = "rights" =>
        /\ \A d \in w.dbs \ w.left : WantedGroup(d) \in GetRoleMembership(pg[EngineOf[d]], w.user)
        /\ \A e \in EnginesOf(w.dbs) \ w.todo :
             /\ DatabasesOn(e) \intersect w.left = {}
             /\ GetRoleMembership(pg[e], w.user) \subseteq WantedGroups(e)

RightsInPlace ==
    w.pc \in {"secrets", "success"} =>
        \A e \in EnginesOf(w.dbs) : GetRoleMembership(pg[e], w.user) = WantedGroups(e)

RoleRecorded == w.pc \in {"rights", "secrets", "success"} => mem.role = w.user

(* What a secret that was written may hold: it may have been deleted.      *)
Written == {[user |-> w.user, pwd |-> w.pwd]}
             \union (IF "generated" \in edits.kinds THEN {NoCredentials} ELSE {})

SecretsInHand ==
    /\ w.pc = "secrets" => \A d \in w.dbs \ w.left : gen[d] \in Written
    /\ w.pc = "success" =>
         \A d \in Databases : gen[d] \in IF d \in w.dbs THEN Written ELSE {NoCredentials}

InHand == AllPrivileges /\ RightsInHand /\ RightsInPlace /\ RoleRecorded /\ SecretsInHand

ReadyInv == Held /\ InHand

(* Before the rights nothing was brought about.                            *)
Early == {"idle", "work", "drop", "dropping", "role", "password", "finalize"}

LEMMA InHandEarly ==
    ASSUME AllPrivileges, UNCHANGED seen, w'.pc \in Early,
           w'.pc # "idle" => w.pc # "idle" /\ w'.dbs = w.dbs
    PROVE  InHand'
<1>1. AllPrivileges'
  BY DEF AllPrivileges, PrivilegedDatabases
<1>2. w'.pc \notin {"rights", "secrets", "success"}
  BY DEF Early
<1> QED BY <1>1, <1>2 DEF InHand, RightsInHand, RightsInPlace, RoleRecorded, SecretsInHand

LEMMA InHandByBegin ==
    ASSUME ReadyInv, Begin
    PROVE  InHand'
<1>1. PICK copy \in CacheCopies :
        \/ BeginNotFound(copy[1], copy[2]) \/ BeginDeletion(copy[1], copy[2])
        \/ BeginMissing(copy[1], copy[2]) \/ BeginWait(copy[1], copy[2])
        \/ BeginFinalizer(copy[1], copy[2]) \/ BeginWork(copy[1], copy[2])
  BY DEF Begin
<1> DEFINE c == copy[1]
           s == copy[2]
<1>2. w.pc = "idle" /\ seen' = c
  BY <1>1 DEF BeginNotFound, BeginDeletion, BeginMissing, BeginWait, BeginFinalizer, BeginWork, Read
<1>3. \/ w'.pc = "idle"
      \/ \E old : w' = NewPass("drop", c, old) /\ c.deleting
      \/ w' = NewPass("work", c, {}) /\ ExistingDatabases(c) = PrivilegedDatabases(c)
  BY <1>1, <1>2, ValuesType
  DEF BeginNotFound, BeginDeletion, BeginMissing, BeginWait, BeginFinalizer, BeginWork,
      ManageError, EndPass
<1> HIDE DEF c, s
<1>4. ASSUME NEW old, NEW pc, w' = NewPass(pc, c, old)
      PROVE  w'.dbs = ExistingDatabases(c) /\ w'.pc = pc
  BY <1>4 DEF NewPass, NoPass
<1>5. w'.pc \in {"idle", "drop", "work"}
  BY <1>3, <1>4
<1>6. AllPrivileges'
  BY <1>2, <1>3, <1>4 DEF AllPrivileges, PrivilegedDatabases
<1> QED BY <1>5, <1>6 DEF InHand, RightsInHand, RightsInPlace, RoleRecorded, SecretsInHand

LEMMA InHandByWorkSecret ==
    ASSUME ReadyInv, WorkSecret
    PROVE  InHand'
<1>1. w.pc = "work" /\ UNCHANGED seen
  BY DEF WorkSecret, ManagedCreate, ManagedReplace, ManagedRotate, ManagedBlocked, ManagedKeep,
         ProvidedCreate, ProvidedReplace, ProvidedKeep, CreateWorkSecret, AtWorkSecret
<1>2. PICK user, pwd, oldUser, pwChanged, rotErr : Proceed(user, pwd, oldUser, pwChanged, rotErr)
  BY DEF WorkSecret, ManagedCreate, ManagedReplace, ManagedRotate, ManagedBlocked, ManagedKeep,
         ProvidedCreate, ProvidedReplace, ProvidedKeep, CreateWorkSecret
<1>3. w'.dbs = w.dbs /\ w'.pc = "drop"
  BY <1>2 DEF ReadyInv, Held, TInv, TypeOK, Passes, Proceed
<1> QED BY <1>1, <1>3, InHandEarly DEF ReadyInv, InHand, Early

LEMMA InHandByDropOldRoles ==
    ASSUME ReadyInv, DropOldRoles
    PROVE  InHand'
<1> USE DEF ReadyInv, InHand, Early, OldRoles
<1>w. w \in Passes
  BY DEF Held, TInv, TypeOK
<1>1. ASSUME NEW u \in Users, NEW e \in Engines, DropAbsent(u, e)
      PROVE  InHand'
  BY <1>1, <1>w, InHandEarly DEF DropAbsent, Examine, Passes
<1>2. ASSUME NEW u \in Users, NEW e \in Engines, DropPostponed(u, e)
      PROVE  InHand'
  BY <1>2, <1>w, InHandEarly DEF DropPostponed, Examine, Passes
<1>3. ASSUME NEW u \in Users, NEW e \in Engines, DropDecided(u, e)
      PROVE  InHand'
  BY <1>3, <1>w, InHandEarly DEF DropDecided, Examine, Passes
<1>4. CASE DropNow
  BY <1>4, <1>w, InHandEarly DEF DropNow, Passes
<1>5. CASE DropFails \/ StopOnOldRoles
  BY <1>5, InHandEarly, ValuesType DEF DropFails, StopOnOldRoles, ManageError, EndPass
<1>6. CASE GoFinalize
  BY <1>6, <1>w, InHandEarly DEF GoFinalize, AllExamined, Passes
<1>7. CASE GoManageRoles
  BY <1>7, <1>w, InHandEarly DEF GoManageRoles, AllExamined, Passes
<1>8. CASE Finalize
  BY <1>8, InHandEarly, ValuesType DEF Finalize, ManageError, EndPass
<1> QED BY <1>1, <1>2, <1>3, <1>4, <1>5, <1>6, <1>7, <1>8 DEF DropOldRoles

LEMMA InHandByManageRoles ==
    ASSUME ReadyInv, ManageRoles
    PROVE  InHand'
<1> USE DEF ReadyInv, InHand, Early, OnEngines
<1>w. w \in Passes /\ mem \in Statuses
  BY DEF Held, TInv, TypeOK
<1>1. ASSUME NEW e \in Engines, RoleCreate(e)
      PROVE  InHand'
  BY <1>1, <1>w, InHandEarly DEF RoleCreate, Passes
<1>2. ASSUME NEW e \in Engines, RoleAlter(e)
      PROVE  InHand'
  BY <1>2, <1>w, InHandEarly DEF RoleAlter, Passes
<1>3. CASE RolePassword
  BY <1>3, <1>w, InHandEarly DEF RolePassword, Passes
<1>4. CASE RecordRole
  <2>1. w.pc = "role" /\ seen' = seen
    BY <1>4 DEF RecordRole
  <2>2. /\ w'.pc = "rights" /\ w'.dbs = w.dbs /\ w'.user = w.user
        /\ w'.left = w.dbs /\ w'.todo = EnginesOf(w.dbs)
    BY <1>4, <1>w DEF RecordRole, Passes
  <2>3. mem'.role = w.user
    BY <1>4, <1>w DEF RecordRole, Statuses
  <2>4. AllPrivileges'
    BY <2>1, <2>2 DEF AllPrivileges, PrivilegedDatabases
  <2>5. RightsInHand'
    BY <2>2 DEF RightsInHand, EnginesOf
  <2> QED BY <2>2, <2>3, <2>4, <2>5 DEF RightsInPlace, RoleRecorded, SecretsInHand
<1> QED BY <1>1, <1>2, <1>3, <1>4 DEF ManageRoles

(* One database more has its membership; no engine that is done loses or   *)
(* gains one.                                                              *)
LEMMA InHandByRightsOn ==
    ASSUME ReadyInv, NEW d \in Databases, RightsOn(d)
    PROVE  InHand'
<1> USE DEF ReadyInv, InHand
<1>w. w \in Passes /\ pg \in [Engines -> EngineStates] /\ w.dbs \subseteq Databases
  BY DEF Held, TInv, TypeOK, Passes
<1>1. w.pc = "rights" /\ d \in w.left /\ w.user \in Users
  BY DEF RightsOn, Held, TInv, UserInHand
<1>2. d \in PrivilegedDatabases(seen) /\ d \in w.dbs
  BY <1>1 DEF Held, DatabasesInHand
<1>3. WantedGroup(d) \in Groups
  BY <1>2 DEF WantedGroup, GroupRole, Groups, PrivilegedDatabases, Held, TInv, TypeOK, Resources
<1>4. PICK e \in Engines, r \in Groups : e = EngineOf[d] /\ r = WantedGroup(d)
  BY <1>3, EngineOfAssumption
<1>5. pg' = [pg EXCEPT ![e] =
               AlterDefaultLoginRoleOnDatabase(GrantRole(@, r, w.user), w.user, r, d)]
  BY <1>4 DEF RightsOn
<1>6. /\ w'.pc = "rights" /\ w'.dbs = w.dbs /\ w'.user = w.user
      /\ w'.left = w.left \ {d} /\ w'.todo = w.todo
      /\ UNCHANGED <<seen, mem>>
  BY <1>w DEF RightsOn, OnEngines, Passes
<1>7. GetRoleMembership(pg'[e], w.user) = GetRoleMembership(pg[e], w.user) \union {r}
  <2>1. pg'[e] = AlterDefaultLoginRoleOnDatabase(GrantRole(pg[e], r, w.user), w.user, r, d)
    BY <1>w, <1>5
  <2>2. pg[e] \in EngineStates
    BY <1>w
  <2> QED BY <1>1, <2>1, <2>2, MembershipAfterGrant
<1>8. \A f \in Engines \ {e} : pg'[f] = pg[f]
  BY <1>w, <1>5
<1>9. e \in w.todo
  <2>1. e \in EnginesOf(w.dbs) /\ d \in DatabasesOn(e)
    BY <1>2, <1>4, <1>w DEF EnginesOf, DatabasesOn
  <2> QED BY <1>1, <2>1 DEF RightsInHand
<1>10. AllPrivileges' /\ RoleRecorded'
  BY <1>1, <1>6 DEF AllPrivileges, PrivilegedDatabases, RoleRecorded
<1>11. \A x \in Databases : WantedGroup(x)' = WantedGroup(x) /\ EngineOf[x] \in Engines
  BY <1>6, EngineOfAssumption DEF WantedGroup, GroupRole
<1>12. RightsInHand'
  <2>1. ASSUME NEW x \in w.dbs \ w'.left
        PROVE  WantedGroup(x) \in GetRoleMembership(pg'[EngineOf[x]], w.user)
    <3>1. CASE x = d
      BY <1>4, <1>7, <3>1
    <3>2. CASE x # d
      <4>1. WantedGroup(x) \in GetRoleMembership(pg[EngineOf[x]], w.user)
        BY <1>1, <1>6, <3>2 DEF RightsInHand
      <4> QED BY <1>7, <1>8, <1>11, <1>w, <4>1
    <3> QED BY <3>1, <3>2
  <2>2. ASSUME NEW f \in EnginesOf(w.dbs) \ w.todo
        PROVE  /\ DatabasesOn(f)' \intersect w'.left = {}
               /\ GetRoleMembership(pg'[f], w.user) \subseteq WantedGroups(f)'
    <3>1. /\ DatabasesOn(f) \intersect w.left = {}
          /\ GetRoleMembership(pg[f], w.user) \subseteq WantedGroups(f)
      BY <1>1 DEF RightsInHand
    <3>2. f \in Engines /\ f # e
      BY <1>9, <1>w, EnginesOfType
    <3>3. DatabasesOn(f)' = DatabasesOn(f) /\ WantedGroups(f)' = WantedGroups(f)
      BY <1>6 DEF DatabasesOn, WantedGroups, WantedGroup, GroupRole
    <3> QED BY <1>6, <1>8, <3>1, <3>2, <3>3
  <2>3. EnginesOf(w.dbs)' = EnginesOf(w.dbs)
    BY <1>6 DEF EnginesOf
  <2> QED BY <1>6, <1>11, <1>w, <2>1, <2>2, <2>3 DEF RightsInHand
<1> QED BY <1>6, <1>10, <1>12 DEF RightsInPlace, SecretsInHand

(* The revocation keeps what is wanted and leaves nothing else.            *)
LEMMA InHandByRevokeOn ==
    ASSUME ReadyInv, NEW e \in Engines, RevokeOn(e)
    PROVE  InHand'
<1> USE DEF ReadyInv, InHand
<1>w. w \in Passes /\ pg \in [Engines -> EngineStates] /\ w.dbs \subseteq Databases
  BY DEF Held, TInv, TypeOK, Passes
<1>1. /\ w.pc = "rights" /\ e \in w.todo /\ w.user \in Users
      /\ DatabasesOn(e) \intersect w.left = {}
  BY DEF RevokeOn, Held, TInv, UserInHand
<1>2. /\ w'.pc = "rights" /\ w'.dbs = w.dbs /\ w'.user = w.user
      /\ w'.left = w.left /\ w'.todo = w.todo \ {e}
      /\ UNCHANGED <<seen, mem>>
  BY <1>1, <1>w DEF RevokeOn, OnEngines, Passes
<1>3. GetRoleMembership(pg'[e], w.user)
        = GetRoleMembership(pg[e], w.user) \intersect WantedGroups(e)
  <2>1. pg'[e] = RevokeUserSetRoleOnDatabases(RevokeRoles(pg[e], LeftoverRoles(e), w.user),
                                              SettingsToReset(e))
    BY <1>w DEF RevokeOn
  <2>2. pg[e] \in EngineStates
    BY <1>w
  <2>3. GetRoleMembership(pg'[e], w.user) = GetRoleMembership(pg[e], w.user) \ LeftoverRoles(e)
    BY <1>1, <2>1, <2>2, MembershipAfterRevoke
  <2> QED BY <2>3 DEF LeftoverRoles
<1>4. \A f \in Engines \ {e} : pg'[f] = pg[f]
  BY <1>w DEF RevokeOn
<1>5. \A x \in Databases : WantedGroup(x)' = WantedGroup(x) /\ EngineOf[x] \in Engines
  BY <1>2, EngineOfAssumption DEF WantedGroup, GroupRole
<1>6. AllPrivileges' /\ RoleRecorded'
  BY <1>1, <1>2 DEF AllPrivileges, PrivilegedDatabases, RoleRecorded
<1>7. RightsInHand'
  <2>1. ASSUME NEW x \in w.dbs \ w.left
        PROVE  WantedGroup(x) \in GetRoleMembership(pg'[EngineOf[x]], w.user)
    <3>1. WantedGroup(x) \in GetRoleMembership(pg[EngineOf[x]], w.user)
      BY <1>1 DEF RightsInHand
    <3>2. CASE EngineOf[x] = e
      <4>1. x \in DatabasesOn(e)
        BY <3>2, <1>w DEF DatabasesOn
      <4>2. WantedGroup(x) \in WantedGroups(e)
        BY <4>1 DEF WantedGroups
      <4> QED BY <1>3, <3>1, <3>2, <4>2
    <3>3. CASE EngineOf[x] # e
      BY <1>4, <1>5, <1>w, <3>1, <3>3
    <3> QED BY <3>2, <3>3
  <2>2. ASSUME NEW f \in EnginesOf(w.dbs) \ w'.todo
        PROVE  /\ DatabasesOn(f) \intersect w.left = {}
               /\ GetRoleMembership(pg'[f], w.user) \subseteq WantedGroups(f)
    <3>1. f \in Engines
      BY <1>w, EnginesOfType
    <3>2. CASE f = e
      BY <1>1, <1>3, <3>2
    <3>3. CASE f # e
      BY <1>1, <1>2, <1>4, <3>1, <3>3 DEF RightsInHand
    <3> QED BY <3>2, <3>3
  <2>3. EnginesOf(w.dbs)' = EnginesOf(w.dbs)
    BY <1>2 DEF EnginesOf
  <2>4. \A f : DatabasesOn(f)' = DatabasesOn(f) /\ WantedGroups(f)' = WantedGroups(f)
    BY <1>2 DEF DatabasesOn, WantedGroups, WantedGroup, GroupRole
  <2> QED BY <1>2, <1>5, <1>w, <2>1, <2>2, <2>3, <2>4 DEF RightsInHand
<1> QED BY <1>2, <1>6, <1>7 DEF RightsInPlace, SecretsInHand

(* When every engine is done, every database is: all is granted that is    *)
(* wanted, and nothing else is left.                                       *)
LEMMA InHandByGoManageSecrets ==
    ASSUME ReadyInv, GoManageSecrets
    PROVE  InHand'
<1> USE DEF ReadyInv, InHand
<1>w. w \in Passes /\ w.dbs \subseteq Databases
  BY DEF Held, TInv, TypeOK, Passes
<1>1. w.pc = "rights" /\ w.todo = {} /\ UNCHANGED <<pg, seen, mem>>
  BY DEF GoManageSecrets, OnEngines
<1>2. w'.pc = "secrets" /\ w'.dbs = w.dbs /\ w'.user = w.user /\ w'.left = w.dbs
  BY <1>w DEF GoManageSecrets, Passes
<1>3. AllPrivileges' /\ RoleRecorded'
  BY <1>1, <1>2 DEF AllPrivileges, PrivilegedDatabases, RoleRecorded
<1>4. ASSUME NEW e \in EnginesOf(w.dbs)
      PROVE  GetRoleMembership(pg[e], w.user) = WantedGroups(e)
  <2>1. /\ DatabasesOn(e) \intersect w.left = {}
        /\ GetRoleMembership(pg[e], w.user) \subseteq WantedGroups(e)
    BY <1>1 DEF RightsInHand
  <2>2. ASSUME NEW r \in WantedGroups(e)
        PROVE  r \in GetRoleMembership(pg[e], w.user)
    <3>1. PICK d \in DatabasesOn(e) : r = WantedGroup(d)
      BY DEF WantedGroups
    <3>2. d \in w.dbs \ w.left /\ EngineOf[d] = e
      BY <2>1 DEF DatabasesOn
    <3> QED BY <1>1, <3>1, <3>2 DEF RightsInHand
  <2> QED BY <2>1, <2>2
<1>5. RightsInPlace'
  <2>1. EnginesOf(w.dbs)' = EnginesOf(w.dbs) /\ (\A e : WantedGroups(e)' = WantedGroups(e))
    BY <1>1, <1>2 DEF EnginesOf, WantedGroups, DatabasesOn, WantedGroup, GroupRole
  <2> QED BY <1>1, <1>2, <1>4, <2>1 DEF RightsInPlace
<1> QED BY <1>2, <1>3, <1>5 DEF RightsInHand, SecretsInHand

(* The secrets are written one by one, then the others are cleaned.        *)
LEMMA InHandBySecrets ==
    ASSUME ReadyInv, ManageSecrets, edits'.kinds = edits.kinds
    PROVE  InHand'
<1> USE DEF ReadyInv, InHand, crVars, secretVars, engineVars, boundVars
<1>w. w \in Passes /\ w.dbs \subseteq Databases /\ gen \in [Databases -> Credentials]
  BY DEF Held, TInv, TypeOK, Passes
<1>1. ASSUME w.pc = "secrets", w'.pc \in {"secrets", "success"}, UNCHANGED <<pg, seen, mem>>,
             w'.dbs = w.dbs, w'.user = w.user, w'.pwd = w.pwd
      PROVE  /\ AllPrivileges' /\ RightsInHand' /\ RightsInPlace' /\ RoleRecorded'
             /\ Written' = Written
  <2>1. EnginesOf(w.dbs)' = EnginesOf(w.dbs) /\ (\A e : WantedGroups(e)' = WantedGroups(e))
    BY <1>1 DEF EnginesOf, WantedGroups, DatabasesOn, WantedGroup, GroupRole
  <2>2. RightsInPlace'
    BY <1>1, <2>1 DEF RightsInPlace
  <2>3. AllPrivileges' /\ RightsInHand' /\ RoleRecorded'
    BY <1>1 DEF AllPrivileges, PrivilegedDatabases, RightsInHand, RoleRecorded
  <2>4. Written' = Written
    BY <1>1 DEF Written
  <2> QED BY <2>2, <2>3, <2>4
<1>2. ASSUME NEW d \in Databases, SecretOn(d)
      PROVE  InHand'
  <2>1. /\ w.pc = "secrets" /\ UNCHANGED <<pg, seen, mem>>
        /\ gen' = [gen EXCEPT ![d] = [user |-> w.user, pwd |-> w.pwd]]
    BY <1>2 DEF SecretOn
  <2>2. /\ w'.pc = "secrets" /\ w'.dbs = w.dbs /\ w'.user = w.user /\ w'.pwd = w.pwd
        /\ w'.left = w.left \ {d}
    BY <1>2, <1>w, <2>1 DEF SecretOn, Passes
  <2>3. /\ AllPrivileges' /\ RightsInHand' /\ RightsInPlace' /\ RoleRecorded'
        /\ Written' = Written
    BY <1>1, <2>1, <2>2
  <2>4. ASSUME NEW x \in w.dbs \ w'.left
        PROVE  gen'[x] \in Written
    <3>1. CASE x = d
      BY <1>w, <2>1, <3>1 DEF Written
    <3>2. CASE x # d
      <4>1. gen[x] \in Written
        BY <2>1, <2>2, <3>2 DEF SecretsInHand
      <4> QED BY <1>w, <2>1, <3>2, <4>1
    <3> QED BY <3>1, <3>2
  <2> QED BY <2>2, <2>3, <2>4 DEF SecretsInHand
<1>3. CASE CleanOldSecrets
  <2>1. /\ w.pc = "secrets" /\ w.left = {} /\ UNCHANGED <<pg, seen, mem>>
        /\ gen' = [d \in Databases |-> IF d \in w.dbs THEN gen[d] ELSE NoCredentials]
    BY <1>3 DEF CleanOldSecrets
  <2>2. w'.pc = "success" /\ w'.dbs = w.dbs /\ w'.user = w.user /\ w'.pwd = w.pwd
    BY <1>3, <1>w DEF CleanOldSecrets, Passes
  <2>3. /\ AllPrivileges' /\ RightsInHand' /\ RightsInPlace' /\ RoleRecorded'
        /\ Written' = Written
    BY <1>1, <2>1, <2>2
  <2>4. \A d \in w.dbs : gen[d] \in Written
    BY <2>1 DEF SecretsInHand
  <2>5. \A d \in Databases : gen'[d] \in IF d \in w.dbs THEN Written ELSE {NoCredentials}
    BY <2>1, <2>4
  <2> QED BY <2>2, <2>3, <2>5 DEF SecretsInHand
<1>4. CASE ManageSuccess
  BY <1>4, InHandEarly, ValuesType DEF ManageSuccess, EndPass, Early
<1> QED BY <1>2, <1>3, <1>4 DEF ManageSecrets

LEMMA InHandByEnvironment ==
    ASSUME ReadyInv, Environment, edits'.kinds = edits.kinds
    PROVE  InHand'
<1> USE DEF ReadyInv, InHand
<1>1. UNCHANGED <<pg, seen, mem, w>>
  BY EnvironmentFrame
<1>2. AllPrivileges' /\ RoleRecorded'
  BY <1>1 DEF AllPrivileges, PrivilegedDatabases, RoleRecorded
<1>3. EnginesOf(w.dbs)' = EnginesOf(w.dbs) /\ (\A e : WantedGroups(e)' = WantedGroups(e))
  BY <1>1 DEF EnginesOf, WantedGroups, DatabasesOn, WantedGroup, GroupRole
<1>4. \A e : DatabasesOn(e)' = DatabasesOn(e)
  BY <1>1 DEF DatabasesOn
<1>5. RightsInHand'
  <2>1. \A d : WantedGroup(d)' = WantedGroup(d)
    BY <1>1 DEF WantedGroup, GroupRole
  <2> QED BY <1>1, <1>3, <1>4, <2>1 DEF RightsInHand
<1>6. RightsInPlace'
  BY <1>1, <1>3 DEF RightsInPlace
<1>7. SecretsInHand'
  <2>1. Written' = Written
    BY <1>1 DEF Written
  <2>2. gen \in [Databases -> Credentials] /\ w.dbs \subseteq Databases
    BY DEF Held, TInv, TypeOK, Passes
  <2>3. \A d \in Databases : gen'[d] = gen[d] \/ (gen'[d] = NoCredentials /\ NoCredentials \in Written)
    BY EnvironmentFrame, <2>2 DEF Written
  <2>4. \A d \in Databases : gen'[d] = gen[d] \/ gen'[d] = NoCredentials
    BY <2>3
  <2> QED BY <1>1, <2>1, <2>2, <2>3, <2>4 DEF SecretsInHand
<1> QED BY <1>2, <1>5, <1>6, <1>7

LEMMA ReadyStep == ReadyInv /\ [Next]_vars => ReadyInv'
<1> SUFFICES ASSUME ReadyInv, [Next]_vars PROVE InHand'
  BY HeldStep DEF ReadyInv
<1>2. edits'.kinds = edits.kinds
  BY KindsKept DEF ReadyInv, Held, TInv
<1>3. CASE ManageRights
  <2>1. ASSUME NEW d \in Databases, RightsFail(d)
        PROVE  InHand'
    BY <2>1, InHandEarly, ValuesType
       DEF RightsFail, ManageError, EndPass, ReadyInv, InHand, Early
  <2> QED BY <1>3, <2>1, InHandByRightsOn, InHandByRevokeOn, InHandByGoManageSecrets
          DEF ManageRights
<1>4. CASE Fail \/ Crash
  <2>1. w'.pc = "idle" /\ UNCHANGED seen
    BY <1>4, ValuesType DEF Fail, Crash, ManageError, EndPass
  <2> QED BY <2>1, InHandEarly DEF ReadyInv, InHand, Early
<1>5. CASE UNCHANGED vars
  <2>1. UNCHANGED <<pg, gen, seen, mem, w, edits>>
    BY <1>5 DEF vars
  <2> QED BY <2>1 DEF ReadyInv, InHand, AllPrivileges, PrivilegedDatabases, RightsInHand,
                      RightsInPlace, RoleRecorded, SecretsInHand, Written, EnginesOf,
                      DatabasesOn, WantedGroups, WantedGroup, GroupRole
<1> QED BY <1>2, <1>3, <1>4, <1>5, InHandByBegin, InHandByWorkSecret, InHandByDropOldRoles,
           InHandByManageRoles, InHandBySecrets, InHandByEnvironment DEF Next, Pass

LEMMA ReadyInit == Init => ReadyInv
<1> SUFFICES ASSUME Init PROVE ReadyInv
  OBVIOUS
<1>1. w.pc = "idle"
  BY ValuesType DEF Init
<1> QED BY <1>1, HeldInit
        DEF ReadyInv, InHand, AllPrivileges, RightsInHand, RightsInPlace, RoleRecorded,
            SecretsInHand

-----------------------------------------------------------------------------
(* When a pass reports Ready, the current role is a member of exactly the  *)
(* group roles that the privileges it read name, whatever other passes,    *)
(* edits, errors and crashes left on the engines before.                   *)
THEOREM ReadyWithItsRights == Spec => []RightsMatch
<1>1. ReadyInv => RightsMatch
  <2> SUFFICES ASSUME ReadyInv, w.pc = "success",
                      NEW e \in EnginesOf(PrivilegedDatabases(seen))
               PROVE  GetRoleMembership(pg[e], mem.role) =
                        {GroupRole(d, seen.privs[d]) : d \in WantedOn(e)}
    BY DEF RightsMatch, Succeeding
  <2>1. w.dbs = PrivilegedDatabases(seen)
    BY DEF ReadyInv, InHand, AllPrivileges, Held, TInv, UserInHand
  <2>2. mem.role = w.user
    BY DEF ReadyInv, InHand, RoleRecorded
  <2>3. GetRoleMembership(pg[e], w.user) = WantedGroups(e)
    BY <2>1 DEF ReadyInv, InHand, RightsInPlace
  <2>4. DatabasesOn(e) = WantedOn(e)
    BY <2>1 DEF DatabasesOn, WantedOn
  <2> QED BY <2>2, <2>3, <2>4 DEF WantedGroups, WantedGroup
<1> QED BY ReadyInit, ReadyStep, <1>1, PTL DEF Spec

(* ... and unless somebody deletes generated secrets, every privilege has  *)
(* its secret, for the current role, and no other secret is left.          *)
THEOREM ReadyWithItsSecrets ==
    ASSUME \A plan \in Plans : "generated" \notin plan.edits.kinds
    PROVE  Spec => []SecretsMatch
<1> DEFINE Undisturbed == "generated" \notin edits.kinds
<1>1. Init => ReadyInv /\ Undisturbed
  <2> SUFFICES ASSUME Init PROVE Undisturbed
    BY ReadyInit
  <2>1. PICK plan \in Plans : edits = plan.edits
    BY DEF Init
  <2> QED BY <2>1
<1>2. (ReadyInv /\ Undisturbed) /\ [Next]_vars => (ReadyInv /\ Undisturbed)'
  BY ReadyStep, KindsKept DEF ReadyInv, Held, TInv
<1>3. ReadyInv /\ Undisturbed => SecretsMatch
  <2> SUFFICES ASSUME ReadyInv, Undisturbed, w.pc = "success", NEW d \in Databases
               PROVE  gen[d].user = IF d \in PrivilegedDatabases(seen) THEN mem.role ELSE NoUser
    BY DEF SecretsMatch, Succeeding
  <2>1. w.dbs = PrivilegedDatabases(seen)
    BY DEF ReadyInv, InHand, AllPrivileges, Held, TInv, UserInHand
  <2>2. mem.role = w.user
    BY DEF ReadyInv, InHand, RoleRecorded
  <2>3. gen[d] \in IF d \in w.dbs THEN {[user |-> w.user, pwd |-> w.pwd]} ELSE {NoCredentials}
    BY DEF ReadyInv, InHand, SecretsInHand, Written
  <2> QED BY <2>1, <2>2, <2>3 DEF NoCredentials
<1> QED BY <1>1, <1>2, <1>3, PTL DEF Spec
=============================================================================
