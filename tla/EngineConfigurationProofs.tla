--------------------- MODULE EngineConfigurationProofs ---------------------
(***************************************************************************)
(* Proofs about EngineConfiguration, for any addresses, secrets, databases,*)
(* clients, edits and faults.                                              *)
(***************************************************************************)
EXTENDS EngineConfiguration, TLAPS

-----------------------------------------------------------------------------
(* Types.                                                                  *)

Caches == [cred : Secrets \union {NoSecret}, pools : [Databases -> Hosts \union {NoHost}]]
Consistent(k) == k \in Caches /\ (k.cred = NoSecret => k.pools = NoPools)

LEMMA ValuesType ==
    /\ NoStatus \in Statuses
    /\ NoPass \in Passes /\ NoPass.pc = "idle"
    /\ Consistent(NoCache) /\ NoCache.pools = NoPools
BY DEF NoStatus, Statuses, NoHash, NoPass, Passes, Positions, Consistent, Caches,
       NoCache, NoPools

(* A lookup by any pass leaves a cache of one secret.                      *)
LEMMA ConnectedType ==
    ASSUME Consistent(cache), NEW d \in Databases, NEW h \in Hosts, NEW c \in Secrets
    PROVE  Consistent(Connected(d, h, c))
<1>1. c # NoSecret
  BY SecretsAssumption
<1>2. [NoPools EXCEPT ![d] = h] \in [Databases -> Hosts \union {NoHost}]
  BY DEF NoPools
<1>3. CASE cache.cred = NoSecret
  BY <1>1, <1>2, <1>3 DEF Connected, Consistent, Caches
<1>4. CASE cache.cred \notin {NoSecret, c}
  BY <1>4, ValuesType DEF Connected
<1>5. CASE cache.cred = c
  BY <1>1, <1>5 DEF Connected, Consistent, Caches
<1> QED BY <1>3, <1>4, <1>5

LEMMA ClosedSomeType ==
    ASSUME Consistent(cache), NEW D \in SUBSET Databases
    PROVE  Consistent(ClosedSome(D))
<1> DEFINE pools == [d \in Databases |-> IF d \in D THEN NoHost ELSE cache.pools[d]]
<1>1. cache \in Caches /\ (cache.cred = NoSecret => cache.pools = NoPools)
  BY DEF Consistent
<1>2. ClosedSome(D) = [cache EXCEPT !.pools = pools]
  BY DEF ClosedSome
<1>3. pools \in [Databases -> Hosts \union {NoHost}]
  BY <1>1 DEF Caches
<1>4. cache.pools = NoPools => pools = NoPools
  BY DEF NoPools
<1> HIDE DEF pools
<1> QED BY <1>1, <1>2, <1>3, <1>4 DEF Consistent, Caches

LEMMA StatusPatchType ==
    ASSUME st \in Statuses, NEW o \in Statuses, NEW m \in Statuses
    PROVE  StatusPatch(o, m) \in Statuses
BY DEF StatusPatch, Merged, Statuses

LEMMA ManageErrorType ==
    ASSUME st \in Statuses, NEW o \in Statuses, NEW m \in Statuses, ManageError(o, m)
    PROVE  st' \in Statuses /\ mem' \in Statuses /\ w' \in Passes /\ w'.pc = "idle"
<1>1. [m EXCEPT !.ready = FALSE, !.phase = "Failed"] \in Statuses
  BY DEF Statuses
<1> QED BY <1>1, StatusPatchType, ValuesType DEF ManageError, EndPass

LEMMA SpendType ==
    ASSUME NEW K, NEW budget \in Budgets(K), NEW kind, Allowed(kind, budget)
    PROVE  /\ Spend(budget) \in Budgets(K)
           /\ Spend(budget).kinds = budget.kinds
BY DEF Budgets, Allowed, Spend

LEMMA CacheCopiesType ==
    ASSUME TypeOK, NEW copy \in CacheCopies
    PROVE  /\ copy[1] \in Resource /\ copy[2] \in Statuses
           /\ "stale" \notin faults.kinds => copy[1] = cr /\ copy[2] = st
<1>1. copy = <<cr, st>> \/ ("stale" \in faults.kinds /\ copy = <<seen, orig>>)
  BY DEF CacheCopies
<1>2. (copy[1] = cr /\ copy[2] = st)
      \/ ("stale" \in faults.kinds /\ copy[1] = seen /\ copy[2] = orig)
  BY <1>1
<1> QED BY <1>2 DEF TypeOK

LEMMA InitType == Init => TypeOK
<1> SUFFICES ASSUME Init PROVE TypeOK
  OBVIOUS
<1>1. PICK plan \in Plans :
        /\ cr = plan.cr /\ linked = plan.linked
        /\ edits = plan.edits /\ faults = plan.faults
  BY DEF Init
<1>2. /\ cr \in Resource /\ linked \subseteq Clients
      /\ edits \in Budgets(EditKinds) /\ faults \in Budgets(FaultKinds)
  BY <1>1, PlansAssumption
<1>3. Consistent(cache)
  BY ValuesType DEF Init
<1> QED BY <1>2, <1>3, ValuesType DEF Init, TypeOK, Consistent, Caches

LEMMA FilledType ==
    ASSUME NEW c \in Resource
    PROVE  [c EXCEPT !.finalizer = TRUE, !.spec = Filled(@)] \in Resource
BY DEF Filled, Resource, Specs, Intervals

LEMMA BeginType ==
    ASSUME TypeOK, NEW c \in Resource, NEW s \in Statuses, BeginWith(c, s)
    PROVE  TypeOK'
<1> USE DEF Read, worldVars, boundVars, crVars
<1>r. /\ seen' = c /\ orig' = s
      /\ UNCHANGED <<secret, up, linked, cache, held, edits, faults>>
  BY DEF BeginWith, BeginNotFound, BeginWaitLinked, BeginDeletion, BeginBadInterval,
         BeginSkip, BeginUpdate, BeginCheck
<1>1. CASE BeginNotFound(c, s) \/ BeginSkip(c, s)
  BY <1>1, <1>r DEF BeginNotFound, BeginSkip, TypeOK
<1>2. CASE BeginWaitLinked(c, s) \/ BeginBadInterval(c, s)
  <2>1. ManageError(s, s) /\ UNCHANGED <<cr, since>>
    BY <1>2 DEF BeginWaitLinked, BeginBadInterval
  <2> QED BY <1>r, <2>1, ManageErrorType DEF TypeOK
<1>3. CASE BeginDeletion(c, s)
  <2>1. w' \in Passes /\ w'.pc = "close all"
    BY <1>3, ValuesType DEF BeginDeletion, Start, Passes, Positions
  <2> QED BY <1>3, <1>r, <2>1 DEF BeginDeletion, Start, TypeOK
<1>4. CASE BeginUpdate(c, s)
  <2>1. CASE c = cr /\ s = st
    <3>1. cr' \in Resource
      BY <1>4, <2>1, FilledType DEF BeginUpdate
    <3> QED BY <1>4, <1>r, <2>1, <3>1 DEF BeginUpdate, TypeOK
  <2>2. CASE ~(c = cr /\ s = st)
    <3>1. ManageError(s, s) /\ UNCHANGED <<cr, since>>
      BY <1>4, <2>2 DEF BeginUpdate
    <3> QED BY <1>r, <3>1, ManageErrorType DEF TypeOK
  <2> QED BY <2>1, <2>2
<1>5. CASE BeginCheck(c, s)
  <2>1. w' \in Passes /\ w'.pc \in {"secret", "close"}
    BY <1>5, ValuesType DEF BeginCheck, Start, Passes, Positions
  <2> QED BY <1>5, <1>r, <2>1 DEF BeginCheck, Start, TypeOK
<1> QED BY <1>1, <1>2, <1>3, <1>4, <1>5 DEF BeginWith

(* What Steady leaves alone, spelled out.                                  *)
LEMMA SteadyFrame ==
    ASSUME Steady
    PROVE  UNCHANGED <<cr, secret, up, linked, since, held, seen, orig, edits>>
BY DEF Steady, worldVars

(* A pass that stops in the middle keeps the types.                        *)
LEMMA StopType ==
    ASSUME TypeOK, Stop, UNCHANGED <<cr, secret, up, linked, since, held, seen, orig, edits>>,
           Consistent(cache'), faults' \in Budgets(FaultKinds)
    PROVE  TypeOK'
<1>1. st' \in Statuses /\ mem' \in Statuses /\ w' \in Passes /\ w'.pc = "idle"
  BY ManageErrorType DEF Stop, TypeOK
<1> QED BY <1>1 DEF TypeOK, Consistent, Caches

-----------------------------------------------------------------------------
(* Steps of the pass, faults, and the environment keep the types.          *)

LEMMA PassType ==
    ASSUME TypeOK, ClosePools \/ ReadSecret \/ Ping \/ ManageSuccess \/ CloseAll \/ Finalize
    PROVE  TypeOK'
<1>c. Consistent(cache)
  BY DEF TypeOK, Consistent, Caches
<1>w. ASSUME NEW pc \in Positions
      PROVE  /\ Goto(pc) \in Passes /\ Goto(pc).pc = pc
             /\ Goto(pc).secret = w.secret
  BY <1>w DEF TypeOK, Goto, Passes
<1>1. CASE ClosePools
  <2>1. UNCHANGED <<cr, secret, up, linked, since, held, seen, orig, edits, st, faults>>
    BY <1>1, SteadyFrame DEF ClosePools
  <2>2. w' \in Passes /\ w'.pc = "secret"
    BY <1>1, <1>w DEF ClosePools, Positions
  <2>3. mem' \in Statuses
    BY <1>1 DEF ClosePools, Asked, TypeOK, Statuses, Resource
  <2>4. Consistent(cache')
    BY <1>1, ValuesType DEF ClosePools
  <2> QED BY <2>1, <2>2, <2>3, <2>4 DEF TypeOK, Consistent, Caches
<1>2. CASE ReadSecret
  <2>1. UNCHANGED <<cr, secret, up, linked, since, held, seen, orig, edits, cache, faults>>
    BY <1>2, SteadyFrame DEF ReadSecret
  <2>2. CASE secret = NoSecret
    <3>1. Stop
      BY <1>2, <2>2 DEF ReadSecret
    <3> QED BY <1>c, <2>1, <3>1, StopType DEF TypeOK
  <2>3. CASE secret # NoSecret
    <3>1. w' = [Goto("ping") EXCEPT !.secret = secret] /\ UNCHANGED <<st, mem>>
      BY <1>2, <2>3 DEF ReadSecret
    <3>2. secret \in Secrets /\ Goto("ping") \in Passes /\ Goto("ping").pc = "ping"
      BY <1>w, <2>3 DEF TypeOK, Positions
    <3>3. w' \in Passes /\ w'.pc = "ping" /\ w'.secret \in Secrets
      BY <3>1, <3>2 DEF Passes
    <3> QED BY <2>1, <3>1, <3>3 DEF TypeOK
  <2> QED BY <2>2, <2>3
<1>3. CASE Ping
  <2> DEFINE to == LeadsTo(DefaultDatabase, Asked.host, w.secret)
  <2>1. UNCHANGED <<cr, secret, up, linked, since, held, seen, orig, edits, faults>>
    BY <1>3, SteadyFrame DEF Ping
  <2>2. Asked.host \in Hosts /\ w.secret \in Secrets
    BY <1>3 DEF Ping, At, Asked, TypeOK, Resource, Specs
  <2>3. cache' = Connected(DefaultDatabase, Asked.host, w.secret)
    BY <1>3 DEF Ping
  <2>4. Consistent(cache')
    BY <1>c, <2>2, <2>3, ConnectedType, DatabasesAssumption
  <2>5. CASE Stop
    BY <2>1, <2>4, <2>5, StopType DEF TypeOK
  <2>6. CASE to[1] \in up /\ to[2] \in GoodSecrets
    <3>1. /\ w' = [Goto("success") EXCEPT !.pinged = to[1], !.as = to[2]]
          /\ UNCHANGED <<st, mem>>
      BY <1>3, <2>6 DEF Ping
    <3>2. to[1] \in Hosts /\ to[2] \in Secrets
      BY <2>6, SecretsAssumption DEF TypeOK
    <3>3. /\ Goto("success") \in Passes /\ Goto("success").pc = "success"
          /\ Goto("success").secret = w.secret
      BY <1>w DEF Positions
    <3> HIDE DEF to
    <3>4. w' \in Passes /\ w'.pc = "success" /\ w'.secret \in Secrets
      BY <2>2, <3>1, <3>2, <3>3 DEF Passes
    <3> QED BY <2>1, <2>4, <3>1, <3>4 DEF TypeOK, Consistent, Caches
  <2> QED BY <1>3, <2>5, <2>6 DEF Ping
<1>4. CASE ManageSuccess
  <2>1. /\ UNCHANGED <<cr, secret, up, linked, since, held, seen, orig, edits>>
        /\ UNCHANGED <<cache, faults>>
    BY <1>4, SteadyFrame DEF ManageSuccess
  <2>2. CASE Asked.interval = "30s"
    <3> DEFINE m == [mem EXCEPT !.phase = "Validated", !.ready = TRUE, !.last = "recent"]
    <3>1. m \in Statuses
      BY DEF TypeOK, Statuses
    <3>2. st' = StatusPatch(orig, m) /\ EndPass
      BY <1>4, <2>2 DEF ManageSuccess
    <3> HIDE DEF m
    <3>3. st' \in Statuses
      BY <3>1, <3>2, StatusPatchType DEF TypeOK
    <3> QED BY <2>1, <3>2, <3>3, ValuesType DEF EndPass, TypeOK
  <2>3. CASE Asked.interval # "30s"
    BY <1>4, <1>c, <2>1, <2>3, StopType DEF ManageSuccess, TypeOK
  <2> QED BY <2>2, <2>3
<1>5. CASE CloseAll
  <2>1. UNCHANGED <<cr, secret, up, linked, since, held, seen, orig, edits, st, mem, faults>>
    BY <1>5, SteadyFrame DEF CloseAll
  <2>2. w' \in Passes /\ w'.pc = "finalize"
    BY <1>5, <1>w DEF CloseAll, Positions
  <2>3. Consistent(cache')
    BY <1>5, ValuesType DEF CloseAll
  <2> QED BY <2>1, <2>2, <2>3 DEF TypeOK, Consistent, Caches
<1>6. CASE Finalize
  <2>1. UNCHANGED <<secret, up, linked, since, cache, held, seen, orig, edits, faults>>
    BY <1>6 DEF Finalize, worldVars, boundVars
  <2>2. CASE seen = cr /\ orig = st
    <3>1. cr' \in Resource /\ UNCHANGED st /\ EndPass
      BY <1>6, <2>2 DEF Finalize, TypeOK, Resource
    <3> QED BY <2>1, <3>1, ValuesType DEF EndPass, TypeOK
  <2>3. CASE ~(seen = cr /\ orig = st)
    <3>1. Stop /\ UNCHANGED cr
      BY <1>6, <2>3 DEF Finalize
    <3> QED BY <1>c, <2>1, <3>1, StopType DEF TypeOK
  <2> QED BY <2>2, <2>3
<1> QED BY <1>1, <1>2, <1>3, <1>4, <1>5, <1>6

LEMMA FaultType ==
    ASSUME TypeOK, Fail \/ PatchFails \/ Crash
    PROVE  TypeOK'
<1>c. Consistent(cache)
  BY DEF TypeOK, Consistent, Caches
<1>f. faults' \in Budgets(FaultKinds)
  <2>1. PICK kind \in {"error", "crash"} : Allowed(kind, faults) /\ faults' = Spend(faults)
    BY DEF Fail, PatchFails, Crash
  <2>2. faults \in Budgets(FaultKinds)
    BY DEF TypeOK
  <2> QED BY <2>1, <2>2, SpendType
<1>1. CASE Fail
  <2>1. Consistent(cache')
    BY <1>1, <1>c, ClosedSomeType DEF Fail
  <2>2. Stop /\ UNCHANGED <<cr, secret, up, linked, since, held, seen, orig, edits>>
    BY <1>1, SteadyFrame DEF Fail
  <2> QED BY <1>f, <2>1, <2>2, StopType
<1>2. CASE PatchFails
  BY <1>2, <1>f, SteadyFrame, ValuesType DEF PatchFails, EndPass, TypeOK
<1>3. CASE Crash
  <2>1. /\ cache' = NoCache /\ held' = {} /\ mem' = NoStatus /\ w' = NoPass
        /\ UNCHANGED <<cr, st, secret, up, linked, since, seen, orig, edits>>
    BY <1>3 DEF Crash, EndPass, crVars, worldVars
  <2> QED BY <1>f, <2>1, ValuesType DEF TypeOK, Consistent, Caches
<1> QED BY <1>1, <1>2, <1>3

(* What an edit of the resource may be.                                    *)
LEMMA EditResourceFrame ==
    ASSUME NEW kind, NEW c, EditResource(kind, c)
    PROVE  /\ kind \in edits.kinds /\ edits.left > 0 /\ edits' = Spend(edits)
           /\ cr.exists /\ cr' = c
           /\ UNCHANGED <<st, cache, held, seen, orig, mem, w, faults>>
           /\ UNCHANGED <<secret, up, linked, since>>
BY DEF EditResource, Edit, Allowed, worldVars

LEMMA EditResourceType ==
    ASSUME TypeOK, NEW kind, NEW c \in Resource, EditResource(kind, c)
    PROVE  TypeOK'
<1>1. edits' \in Budgets(EditKinds)
  BY EditResourceFrame, SpendType DEF TypeOK, Allowed
<1> QED BY <1>1, EditResourceFrame DEF TypeOK

(* The edits of the resource.                                              *)
Edited ==
    \/ \E h \in Hosts : SetHost(h) \/ SetHostBack(h)
    \/ \E i \in Intervals : SetInterval(i)
    \/ SetWait
    \/ DeleteResource

LEMMA EditedType ==
    ASSUME TypeOK, Edited
    PROVE  TypeOK'
<1> USE DEF TypeOK, Resource, Specs
<1>1. ASSUME NEW h \in Hosts, SetHost(h) \/ SetHostBack(h) PROVE TypeOK'
  <2>1. [cr EXCEPT !.spec.host = h] \in Resource
    OBVIOUS
  <2> QED BY <1>1, <2>1, EditResourceType DEF SetHost, SetHostBack
<1>2. ASSUME NEW i \in Intervals, SetInterval(i) PROVE TypeOK'
  <2>1. [cr EXCEPT !.spec.interval = i] \in Resource
    OBVIOUS
  <2> QED BY <1>2, <2>1, EditResourceType DEF SetInterval
<1>3. CASE SetWait
  <2>1. [cr EXCEPT !.spec.wait = ~@] \in Resource
    OBVIOUS
  <2> QED BY <1>3, <2>1, EditResourceType DEF SetWait
<1>4. CASE DeleteResource
  <2>1. [cr EXCEPT !.deleting = TRUE, !.exists = cr.finalizer] \in Resource
    OBVIOUS
  <2> QED BY <1>4, <2>1, EditResourceType DEF DeleteResource
<1> QED BY <1>1, <1>2, <1>3, <1>4 DEF Edited

(* The edits of the world around the resource.                             *)
Moved ==
    \/ \E s \in Secrets \union {NoSecret} : SetSecret(s)
    \/ \E h \in Hosts : GoesDownOrUp(h)
    \/ \E client \in Clients : Link(client) \/ Unlink(client)

LEMMA MovedType ==
    ASSUME TypeOK, Moved
    PROVE  TypeOK'
<1>1. PICK kind : Edit(kind)
  BY DEF Moved, SetSecret, GoesDownOrUp, Link, Unlink
<1>2. /\ edits' \in Budgets(EditKinds)
      /\ UNCHANGED <<st, cache, held, seen, orig, mem, w, faults>>
  BY <1>1, SpendType DEF Edit, TypeOK
<1>3. /\ secret' \in Secrets \union {NoSecret} /\ up' \subseteq Hosts
      /\ linked' \subseteq Clients /\ since' \subseteq Clients /\ cr' = cr
  BY DEF Moved, SetSecret, GoesDownOrUp, Link, Unlink, TypeOK
<1> QED BY <1>2, <1>3 DEF TypeOK

(* The passes of other controllers.                                        *)
Worked == Fetch \/ (\E d \in Databases : Connect(d) \/ ConnectLate(d))

LEMMA WorkedType ==
    ASSUME TypeOK, Worked
    PROVE  TypeOK'
<1>c. Consistent(cache)
  BY DEF TypeOK, Consistent, Caches
<1>1. UNCHANGED <<cr, st, secret, up, linked, since, seen, orig, mem, w, edits, faults>>
  BY DEF Worked, Fetch, Connect, ConnectLate, crVars, worldVars, boundVars
<1>2. CASE Fetch
  <2>1. held' \subseteq Hosts \X Secrets /\ cache' = cache
    BY <1>2 DEF Fetch, Work, TypeOK, Resource, Specs
  <2> QED BY <1>1, <2>1 DEF TypeOK
<1>3. ASSUME NEW d \in Databases, Connect(d) PROVE TypeOK'
  <2>1. cr.spec.host \in Hosts /\ secret \in Secrets
    BY <1>3 DEF Connect, Work, TypeOK, Resource, Specs
  <2>2. Consistent(cache') /\ held' = held
    BY <1>3, <1>c, <2>1, ConnectedType DEF Connect
  <2> QED BY <1>1, <2>2 DEF TypeOK, Consistent, Caches
<1>4. ASSUME NEW d \in Databases, ConnectLate(d) PROVE TypeOK'
  <2>1. PICK copy \in held : cache' = Connected(d, copy[1], copy[2])
    BY <1>4 DEF ConnectLate
  <2>2. copy[1] \in Hosts /\ copy[2] \in Secrets
    BY DEF TypeOK
  <2>3. Consistent(cache') /\ held' = {}
    BY <1>4, <1>c, <2>1, <2>2, ConnectedType DEF ConnectLate
  <2> QED BY <1>1, <2>3 DEF TypeOK, Consistent, Caches
<1> QED BY <1>2, <1>3, <1>4 DEF Worked

LEMMA ElapsesType ==
    ASSUME TypeOK, IntervalElapses
    PROVE  TypeOK'
<1>1. ASSUME NEW s \in Statuses PROVE Older(s) \in Statuses
  BY DEF Older, Statuses
<1> QED BY <1>1 DEF IntervalElapses, worldVars, boundVars, TypeOK

(* The steps of the environment, in the groups of the lemmas above.        *)
LEMMA EnvironmentSteps ==
    ASSUME Environment
    PROVE  IntervalElapses \/ Edited \/ Moved \/ Worked
BY DEF Environment, Edited, Moved, Worked

LEMMA StepType == TypeOK /\ [Next]_vars => TypeOK'
<1> SUFFICES ASSUME TypeOK, [Next]_vars PROVE TypeOK'
  OBVIOUS
<1>1. CASE Begin
  <2>1. PICK copy \in CacheCopies : BeginWith(copy[1], copy[2])
    BY <1>1 DEF Begin
  <2> QED BY <2>1, CacheCopiesType, BeginType
<1>2. CASE Pass /\ ~Begin
  BY <1>2, PassType DEF Pass
<1>3. CASE Fail \/ PatchFails \/ Crash
  BY <1>3, FaultType
<1>4. CASE Environment
  BY <1>4, EnvironmentSteps, ElapsesType, EditedType, MovedType, WorkedType
<1>5. CASE UNCHANGED vars
  BY <1>5 DEF vars, TypeOK
<1> QED BY <1>1, <1>2, <1>3, <1>4, <1>5 DEF Next

(* Every reachable state is of the types the module declares, and a saved  *)
(* pool is always saved with the credentials of all others: getOrOpenPool  *)
(* and the two loops that close pools never leave one without.             *)
THEOREM TypeCorrect == Spec => []TypeOK
<1> QED BY InitType, StepType, PTL DEF Spec

-----------------------------------------------------------------------------
(* Linked databases are waited for.                                        *)

(* A pass that deletes found no database, so those there are came later.   *)
LinkedLater == w.pc \in {"close all", "finalize"} /\ seen.spec.wait => linked \subseteq since

WInv == TypeOK /\ LinkedLater

(* Where a pass that starts goes.                                          *)
LEMMA BeginGoes ==
    ASSUME NEW c, NEW s, BeginWith(c, s)
    PROVE  /\ w.pc = "idle" /\ seen' = c /\ orig' = s
           /\ UNCHANGED <<secret, up, linked, cache, held, edits, faults>>
           /\ \/ w'.pc = "idle"
              \/ /\ w'.pc = "close all" /\ BeginDeletion(c, s)
                 /\ c.exists /\ ~HeldBack(c) /\ since' = {} /\ UNCHANGED <<cr, st>>
              \/ /\ w'.pc \in {"close", "secret"} /\ BeginCheck(c, s) /\ c.exists
                 /\ UNCHANGED <<cr, st>>
<1> USE ValuesType DEF Read, At, worldVars, boundVars, crVars
<1>1. CASE BeginNotFound(c, s)
  BY <1>1 DEF BeginNotFound
<1>2. CASE BeginWaitLinked(c, s)
  BY <1>2 DEF BeginWaitLinked, ManageError, EndPass
<1>3. CASE BeginDeletion(c, s)
  <2>1. w' = [NoPass EXCEPT !.pc = "close all"] /\ NoPass \in Passes
    BY <1>3 DEF BeginDeletion, Start
  <2>2. w'.pc = "close all"
    BY <2>1 DEF Passes
  <2> QED BY <1>3, <2>2 DEF BeginDeletion
<1>4. CASE BeginBadInterval(c, s)
  BY <1>4 DEF BeginBadInterval, ManageError, EndPass
<1>5. CASE BeginSkip(c, s)
  BY <1>5 DEF BeginSkip
<1>6. CASE BeginUpdate(c, s)
  BY <1>6 DEF BeginUpdate, ManageError, EndPass
<1>7. CASE BeginCheck(c, s)
  <2>1. w' = [NoPass EXCEPT !.pc = IF s.hash = c.spec THEN "secret" ELSE "close"]
    BY <1>7 DEF BeginCheck, Start
  <2>2. w'.pc \in {"close", "secret"}
    BY <2>1 DEF Passes
  <2> QED BY <1>7, <2>2 DEF BeginCheck, Checks, Living
<1> QED BY <1>1, <1>2, <1>3, <1>4, <1>5, <1>6, <1>7 DEF BeginWith

(* Where the steps of a pass go.                                           *)
LEMMA StopGoes == Stop => w' = NoPass /\ mem' = NoStatus /\ w'.pc = "idle"
BY ValuesType DEF Stop, ManageError, EndPass

LEMMA GotoIs ==
    ASSUME TypeOK, NEW pc \in Positions
    PROVE  Goto(pc) = [w EXCEPT !.pc = pc] /\ Goto(pc) \in Passes /\ Goto(pc).pc = pc
BY DEF Goto, TypeOK, Passes

LEMMA PassGoes ==
    ASSUME TypeOK, ClosePools \/ ReadSecret \/ Ping \/ ManageSuccess \/ CloseAll \/ Finalize
    PROVE  /\ UNCHANGED <<secret, up, linked, since, held, seen, orig, edits, faults>>
           /\ w'.pc \in {"idle", "secret", "ping", "success", "finalize"}
           /\ w'.pc = "finalize" => CloseAll
           /\ cr' # cr => Finalize
<1>1. CASE ClosePools
  BY <1>1, SteadyFrame, GotoIs DEF ClosePools, Positions
<1>2. CASE ReadSecret
  <2>1. Goto("ping") \in Passes /\ Goto("ping").pc = "ping"
    BY GotoIs DEF Positions
  <2>2. [Goto("ping") EXCEPT !.secret = secret].pc = "ping"
    BY <2>1 DEF Passes
  <2> QED BY <1>2, <2>2, SteadyFrame, StopGoes DEF ReadSecret
<1>3. CASE Ping
  <2> DEFINE to == LeadsTo(DefaultDatabase, Asked.host, w.secret)
  <2>1. Goto("success") \in Passes /\ Goto("success").pc = "success"
    BY GotoIs DEF Positions
  <2>2. [Goto("success") EXCEPT !.pinged = to[1], !.as = to[2]].pc = "success"
    BY <2>1 DEF Passes
  <2> QED BY <1>3, <2>2, SteadyFrame, StopGoes DEF Ping
<1>4. CASE ManageSuccess
  BY <1>4, SteadyFrame, StopGoes, ValuesType DEF ManageSuccess, EndPass
<1>5. CASE CloseAll
  BY <1>5, SteadyFrame, GotoIs DEF CloseAll, Positions
<1>6. CASE Finalize
  BY <1>6, StopGoes, ValuesType DEF Finalize, EndPass, worldVars, boundVars
<1> QED BY <1>1, <1>2, <1>3, <1>4, <1>5, <1>6

LEMMA FaultGoes ==
    ASSUME Fail \/ PatchFails \/ Crash
    PROVE  /\ w'.pc = "idle" /\ mem' = NoStatus
           /\ held' \subseteq held /\ UNCHANGED <<cr, linked, since, seen, edits>>
<1>1. CASE Fail
  BY <1>1, SteadyFrame, StopGoes DEF Fail
<1>2. CASE PatchFails
  BY <1>2, SteadyFrame, ValuesType DEF PatchFails, EndPass
<1>3. CASE Crash
  BY <1>3, ValuesType DEF Crash, EndPass, crVars, worldVars
<1> QED BY <1>1, <1>2, <1>3

(* What an edit of the resource changes.                                   *)
LEMMA EditedFrame ==
    ASSUME TypeOK, Edited
    PROVE  /\ UNCHANGED <<st, cache, held, seen, orig, mem, w, faults>>
           /\ UNCHANGED <<secret, up, linked, since>>
           /\ edits'.kinds = edits.kinds
           /\ cr.exists /\ cr'.finalizer = cr.finalizer
           /\ ~cr'.exists => ~cr.finalizer
           /\ \/ cr'.spec.host >= cr.spec.host
              \/ "host back" \in edits.kinds
<1> DEFINE frame == /\ UNCHANGED <<st, cache, held, seen, orig, mem, w, faults>>
                    /\ UNCHANGED <<secret, up, linked, since>>
                    /\ edits'.kinds = edits.kinds /\ cr.exists
<1>t. cr \in Resource /\ cr.spec.host \in Nat
  BY HostsAssumption DEF TypeOK, Resource, Specs
<1>f. ASSUME NEW kind, NEW c, EditResource(kind, c) PROVE frame
  BY <1>f, EditResourceFrame, SpendType DEF Allowed, TypeOK
<1> USE <1>t DEF Resource, Specs
<1>1. ASSUME NEW h \in Hosts, SetHost(h) PROVE frame /\ h > cr.spec.host
                                        /\ cr' = [cr EXCEPT !.spec.host = h]
  BY <1>1, <1>f, EditResourceFrame DEF SetHost
<1>2. ASSUME NEW h \in Hosts, SetHostBack(h) PROVE frame /\ "host back" \in edits.kinds
                                        /\ cr' = [cr EXCEPT !.spec.host = h]
  BY <1>2, <1>f, EditResourceFrame DEF SetHostBack
<1>3. ASSUME NEW i \in Intervals, SetInterval(i)
      PROVE  frame /\ cr' = [cr EXCEPT !.spec.interval = i]
  BY <1>3, <1>f, EditResourceFrame DEF SetInterval
<1>4. SetWait => frame /\ cr' = [cr EXCEPT !.spec.wait = ~@]
  BY <1>f, EditResourceFrame DEF SetWait
<1>5. DeleteResource => frame /\ cr' = [cr EXCEPT !.deleting = TRUE, !.exists = cr.finalizer]
  BY <1>f, EditResourceFrame DEF DeleteResource
<1> HIDE DEF frame
<1>6. frame
  BY <1>1, <1>2, <1>3, <1>4, <1>5 DEF Edited
<1>7. /\ cr.exists /\ cr'.finalizer = cr.finalizer
      /\ ~cr'.exists => ~cr.finalizer
  <2>1. cr.exists
    BY <1>6 DEF frame
  <2> QED BY <2>1, <1>1, <1>2, <1>3, <1>4, <1>5 DEF Edited
<1>8. cr'.spec.host >= cr.spec.host \/ "host back" \in edits.kinds
  <2>1. ASSUME NEW h \in Hosts, SetHost(h) PROVE cr'.spec.host >= cr.spec.host
    <3>1. h \in Nat /\ h > cr.spec.host /\ cr' = [cr EXCEPT !.spec.host = h]
      BY <1>1, <2>1, HostsAssumption
    <3> QED BY <3>1
  <2>2. ASSUME NEW i \in Intervals, SetInterval(i) PROVE cr'.spec.host = cr.spec.host
    <3>1. cr' = [cr EXCEPT !.spec.interval = i]
      BY <1>3, <2>2
    <3> QED BY <3>1
  <2>3. ASSUME SetWait PROVE cr'.spec.host = cr.spec.host
    <3>1. cr' = [cr EXCEPT !.spec.wait = ~@]
      BY <1>4, <2>3
    <3> QED BY <3>1
  <2>4. ASSUME DeleteResource PROVE cr'.spec.host = cr.spec.host
    <3>1. cr' = [cr EXCEPT !.deleting = TRUE, !.exists = cr.finalizer]
      BY <1>5, <2>4
    <3> QED BY <3>1
  <2>5. cr'.spec.host = cr.spec.host => cr'.spec.host >= cr.spec.host
    BY <1>t
  <2>6. ASSUME NEW h \in Hosts, SetHostBack(h) PROVE "host back" \in edits.kinds
    BY <1>2, <2>6
  <2> QED BY <2>1, <2>2, <2>3, <2>4, <2>5, <2>6 DEF Edited
<1> QED BY <1>6, <1>7, <1>8 DEF frame

LEMMA MovedFrame ==
    ASSUME TypeOK, Moved
    PROVE  /\ UNCHANGED <<cr, st, cache, held, seen, orig, mem, w, faults>>
           /\ edits'.kinds = edits.kinds
           /\ linked \subseteq since => linked' \subseteq since'
           /\ "link" \notin edits.kinds => linked' \subseteq linked
<1>1. PICK kind : Edit(kind)
  BY DEF Moved, SetSecret, GoesDownOrUp, Link, Unlink
<1>2. /\ edits'.kinds = edits.kinds
      /\ UNCHANGED <<st, cache, held, seen, orig, mem, w, faults>>
  BY <1>1, SpendType DEF Edit, TypeOK
<1>3. /\ UNCHANGED cr
      /\ linked \subseteq since => linked' \subseteq since'
      /\ "link" \notin edits.kinds => linked' \subseteq linked
  BY DEF Moved, SetSecret, GoesDownOrUp, Link, Unlink, Edit, Allowed
<1> QED BY <1>2, <1>3

LEMMA WorkedFrame ==
    ASSUME Worked
    PROVE  /\ UNCHANGED <<cr, st, secret, up, linked, since, seen, orig, mem, w, edits, faults>>
           /\ "stale" \notin faults.kinds /\ held = {} =>
                 /\ held' = {}
                 /\ \E d \in Databases : Work /\ cache' = Connected(d, cr.spec.host, secret)
BY DEF Worked, Fetch, Connect, ConnectLate, crVars, worldVars, boundVars

LEMMA ElapsesFrame ==
    ASSUME TypeOK, IntervalElapses
    PROVE  /\ UNCHANGED <<cr, secret, up, linked, since, cache, held, seen, w, edits, faults>>
           /\ st'.hash = st.hash /\ mem'.hash = mem.hash
<1>1. ASSUME NEW s \in Statuses PROVE Older(s).hash = s.hash
  BY DEF Older, Statuses
<1> QED BY <1>1 DEF IntervalElapses, worldVars, boundVars, TypeOK

LEMMA WStep == WInv /\ [Next]_vars => WInv'
<1> SUFFICES ASSUME TypeOK, LinkedLater, [Next]_vars PROVE LinkedLater'
  BY StepType DEF WInv
<1> USE DEF LinkedLater
<1>1. CASE Begin
  <2>1. PICK copy \in CacheCopies : BeginWith(copy[1], copy[2])
    BY <1>1 DEF Begin
  <2> QED BY <2>1, BeginGoes DEF HeldBack
<1>2. CASE Pass /\ ~Begin
  <2>1. ClosePools \/ ReadSecret \/ Ping \/ ManageSuccess \/ CloseAll \/ Finalize
    BY <1>2 DEF Pass
  <2>2. CloseAll => w.pc = "close all"
    BY DEF CloseAll, At
  <2> QED BY <2>1, <2>2, PassGoes
<1>3. CASE Fail \/ PatchFails \/ Crash
  BY <1>3, FaultGoes
<1>4. CASE Environment
  BY <1>4, EnvironmentSteps, ElapsesFrame, EditedFrame, MovedFrame, WorkedFrame
<1>5. CASE UNCHANGED vars
  BY <1>5 DEF vars
<1> QED BY <1>1, <1>2, <1>3, <1>4, <1>5 DEF Next

(* With waitLinkedResourcesDeletion, the removal of the finalizer leaves   *)
(* no database behind that was linked when getAnyDatabaseLinked looked:    *)
(* the pass removes it from the very version that it read, so the flag it  *)
(* acted on is the one that is stored.                                     *)
THEOREM DatabasesAreWaitedFor == Spec => WaitHonoured
<1> DEFINE Leaves == (cr.exists /\ ~cr'.exists /\ cr.finalizer /\ cr.spec.wait)
                        => linked \subseteq since
<1>1. Init => WInv
  <2>1. Init => LinkedLater
    BY ValuesType DEF Init, LinkedLater
  <2> QED BY <2>1, InitType DEF WInv
<1>2. WInv /\ [Next]_vars => Leaves
  <2> SUFFICES ASSUME WInv, [Next]_vars, cr.exists, ~cr'.exists, cr.finalizer, cr.spec.wait
               PROVE  linked \subseteq since
    OBVIOUS
  <2>t. TypeOK /\ LinkedLater
    BY DEF WInv
  <2>1. CASE Begin
    <3>1. PICK copy \in CacheCopies : BeginWith(copy[1], copy[2])
      BY <2>1 DEF Begin
    <3>2. cr'.exists
      BY <2>t, <3>1 DEF BeginWith, BeginNotFound, BeginWaitLinked, BeginDeletion,
         BeginBadInterval, BeginSkip, BeginUpdate, BeginCheck, crVars, TypeOK, Resource
    <3> QED BY <3>2
  <2>2. CASE Pass /\ ~Begin
    <3>1. ClosePools \/ ReadSecret \/ Ping \/ ManageSuccess \/ CloseAll \/ Finalize
      BY <2>2 DEF Pass
    <3>2. Finalize
      BY <2>t, <3>1, PassGoes
    <3>3. w.pc = "finalize" /\ seen = cr
      BY <3>2 DEF Finalize, At
    <3> QED BY <2>t, <3>3 DEF LinkedLater
  <2>3. CASE Fail \/ PatchFails \/ Crash
    BY <2>3, FaultGoes
  <2>4. CASE Environment
    BY <2>4, <2>t, EnvironmentSteps, ElapsesFrame, EditedFrame, MovedFrame, WorkedFrame
  <2>5. CASE UNCHANGED vars
    BY <2>5 DEF vars
  <2> QED BY <2>1, <2>2, <2>3, <2>4, <2>5 DEF Next
<1> QED BY <1>1, <1>2, WStep, PTL DEF Spec, WaitHonoured

-----------------------------------------------------------------------------
(* Pools follow the address.                                               *)

(* Addresses grow: no hash is ahead of the spec, no pool behind a hash.    *)
NotAhead ==
    /\ seen.spec.host <= cr.spec.host
    /\ st.hash.host <= seen.spec.host
    /\ mem.hash.host <= seen.spec.host

NotBehind ==
    \A d \in Databases :
        cache.pools[d] # NoHost =>
            /\ st.hash.host <= cache.pools[d]
            /\ mem.hash.host <= cache.pools[d]
            /\ cache.pools[d] <= cr.spec.host

(* A pass past its comparison of hashes has that of its spec in memory.    *)
HashInMemory == w.pc \in {"secret", "ping", "success"} => mem.hash = seen.spec

PingedInBetween ==
    w.pc = "success" =>
        /\ seen.spec.host <= w.pinged /\ w.pinged <= cr.spec.host
        /\ w.as = w.secret

Ordered == held = {} /\ NotAhead /\ NotBehind /\ HashInMemory /\ PingedInBetween

HInv == TypeOK /\ (Straight => Ordered)

LEMMA Addresses ==
    /\ \A c \in Resource : c.spec.host \in Nat /\ c.spec.host # NoHost
    /\ \A s \in Statuses : s.hash.host \in Nat
    /\ \A pass \in Passes : pass.pinged \in Nat
<1>1. NoHost \in Nat /\ \A h \in Hosts : h \in Nat /\ h # NoHost
  BY HostsAssumption DEF NoHost
<1>2. \A spec \in Specs : spec.host \in Hosts
  BY DEF Specs
<1>3. \A s \in Statuses : s.hash.host \in Nat
  <2>1. ASSUME NEW s \in Statuses PROVE s.hash \in Specs \/ s.hash = NoHash
    BY DEF Statuses
  <2>2. NoHash.host = NoHost
    BY DEF NoHash
  <2> QED BY <1>1, <1>2, <2>1, <2>2
<1>4. \A pass \in Passes : pass.pinged \in Hosts \union {NoHost}
  BY DEF Passes
<1>5. \A c \in Resource : c.spec \in Specs
  BY DEF Resource
<1> QED BY <1>1, <1>2, <1>3, <1>4, <1>5

LEMMA Numbers ==
    ASSUME TypeOK
    PROVE  /\ cr.spec.host \in Nat /\ seen.spec.host \in Nat
           /\ st.hash.host \in Nat /\ mem.hash.host \in Nat /\ w.pinged \in Nat
           /\ \A d \in Databases : cache.pools[d] \in Nat
           /\ cr.spec.host # NoHost /\ seen.spec.host # NoHost
<1>1. cr \in Resource /\ seen \in Resource /\ st \in Statuses /\ mem \in Statuses /\ w \in Passes
  BY DEF TypeOK
<1>2. \A d \in Databases : cache.pools[d] \in Hosts \union {NoHost}
  BY DEF TypeOK
<1> QED BY <1>1, <1>2, Addresses, HostsAssumption DEF NoHost

(* A patch of the status leaves one of the two hashes.                     *)
LEMMA PatchedHash ==
    ASSUME st \in Statuses, NEW o \in Statuses, NEW m \in Statuses
    PROVE  StatusPatch(o, m).hash \in {st.hash, m.hash}
BY DEF StatusPatch, Merged, Statuses

LEMMA ErrorHash ==
    ASSUME st \in Statuses, NEW o \in Statuses, NEW m \in Statuses, ManageError(o, m)
    PROVE  st'.hash \in {st.hash, m.hash} /\ mem'.hash.host = NoHost /\ w'.pc = "idle"
<1> DEFINE n == [m EXCEPT !.ready = FALSE, !.phase = "Failed"]
<1>1. n \in Statuses /\ n.hash = m.hash
  BY DEF Statuses
<1>2. st' = StatusPatch(o, n) /\ mem' = NoStatus /\ w' = NoPass
  BY DEF ManageError, EndPass
<1> HIDE DEF n
<1>3. st'.hash \in {st.hash, m.hash}
  BY <1>1, <1>2, PatchedHash
<1> QED BY <1>2, <1>3, ValuesType DEF NoStatus, NoHash

(* A pass that ends keeps the order.                                       *)
LEMMA EndOrdered ==
    ASSUME TypeOK, TypeOK', Ordered, st'.hash \in {st.hash, mem.hash}, mem'.hash.host = NoHost,
           w'.pc = "idle", held' \subseteq held, seen' = seen, cr'.spec = cr.spec,
           \A d \in Databases : cache'.pools[d] \in {NoHost, cache.pools[d], seen.spec.host}
    PROVE  Ordered'
<1> USE Numbers DEF Ordered, NoHost
<1>n. mem'.hash.host \in Nat /\ st'.hash.host \in Nat
  BY Numbers
<1>1. NotAhead'
  BY <1>n DEF NotAhead
<1>2. NotBehind'
  <2> SUFFICES ASSUME NEW d \in Databases, cache'.pools[d] # NoHost
               PROVE  /\ st'.hash.host <= cache'.pools[d]
                      /\ mem'.hash.host <= cache'.pools[d]
                      /\ cache'.pools[d] <= cr'.spec.host
    BY DEF NotBehind
  <2>1. CASE cache'.pools[d] = cache.pools[d]
    BY <1>n, <2>1 DEF NotBehind
  <2>2. CASE cache'.pools[d] = seen.spec.host
    BY <1>n, <2>2 DEF NotAhead
  <2> QED BY <2>1, <2>2
<1> QED BY <1>1, <1>2 DEF HashInMemory, PingedInBetween

LEMMA ConnectedPools ==
    ASSUME TypeOK, NEW d \in Databases, NEW h, NEW c, NEW e \in Databases
    PROVE  Connected(d, h, c).pools[e] \in {NoHost, cache.pools[e], h}
<1>1. \A x \in Databases : [NoPools EXCEPT ![d] = h][x] \in {NoHost, h}
  BY DEF NoPools
<1>2. \A x \in Databases : NoPools[x] = NoHost
  BY DEF NoPools
<1>3. \A x \in Databases : [cache.pools EXCEPT ![d] = h][x] \in {cache.pools[x], h}
  BY DEF TypeOK
<1>4. [cache EXCEPT !.pools[d] = h].pools = [cache.pools EXCEPT ![d] = h]
  BY DEF TypeOK
<1> QED BY <1>1, <1>2, <1>3, <1>4 DEF Connected, NoCache

LEMMA ClosedSomePools ==
    ASSUME TypeOK, NEW D \in SUBSET Databases, NEW e \in Databases
    PROVE  ClosedSome(D).pools[e] \in {NoHost, cache.pools[e]}
<1> DEFINE pools == [d \in Databases |-> IF d \in D THEN NoHost ELSE cache.pools[d]]
<1>1. ClosedSome(D) = [cache EXCEPT !.pools = pools]
  BY DEF ClosedSome
<1>2. pools[e] \in {NoHost, cache.pools[e]}
  OBVIOUS
<1> HIDE DEF pools
<1> QED BY <1>1, <1>2 DEF TypeOK

(* What may happen in a scenario is given by its plan.                     *)
LEMMA KindsStay ==
    ASSUME TypeOK, [Next]_vars
    PROVE  faults'.kinds = faults.kinds /\ edits'.kinds = edits.kinds
<1>1. faults'.kinds = faults.kinds
  <2>1. CASE Fail \/ PatchFails \/ Crash
    BY <2>1, SpendType DEF Fail, PatchFails, Crash, TypeOK
  <2>2. CASE Environment
    BY <2>2, EnvironmentSteps, ElapsesFrame, EditedFrame, MovedFrame, WorkedFrame
  <2>3. CASE Begin
    BY <2>3, BeginGoes DEF Begin
  <2>4. CASE Pass /\ ~Begin
    BY <2>4, PassGoes DEF Pass
  <2>5. CASE UNCHANGED vars
    BY <2>5 DEF vars
  <2> QED BY <2>1, <2>2, <2>3, <2>4, <2>5 DEF Next
<1>2. edits'.kinds = edits.kinds
  <2>1. CASE Fail \/ PatchFails \/ Crash
    BY <2>1, FaultGoes
  <2>2. CASE Environment
    BY <2>2, EnvironmentSteps, ElapsesFrame, EditedFrame, MovedFrame, WorkedFrame
  <2>3. CASE Begin
    BY <2>3, BeginGoes DEF Begin
  <2>4. CASE Pass /\ ~Begin
    BY <2>4, PassGoes DEF Pass
  <2>5. CASE UNCHANGED vars
    BY <2>5 DEF vars
  <2> QED BY <2>1, <2>2, <2>3, <2>4, <2>5 DEF Next
<1> QED BY <1>1, <1>2

(* The start of a pass: it reads the stored copies.                        *)
LEMMA BeginOrdered ==
    ASSUME TypeOK, TypeOK', Ordered, BeginWith(cr, st)
    PROVE  Ordered'
<1> USE DEF Ordered, NoHost
<1>r. /\ seen' = cr /\ UNCHANGED <<cache, held>> /\ w.pc = "idle"
  BY BeginGoes
<1>n. /\ cr.spec.host \in Nat /\ seen.spec.host \in Nat /\ cr'.spec.host \in Nat
      /\ st.hash.host \in Nat /\ mem.hash.host \in Nat
      /\ st'.hash.host \in Nat /\ mem'.hash.host \in Nat
      /\ \A d \in Databases : cache.pools[d] \in Nat
  <2>1. cr' \in Resource /\ st' \in Statuses /\ mem' \in Statuses
    BY DEF TypeOK
  <2> QED BY <2>1, Numbers, Addresses
<1>1. cr'.spec.host = cr.spec.host
  <2>1. CASE UNCHANGED cr
    BY <2>1
  <2>2. CASE cr' = [cr EXCEPT !.finalizer = TRUE, !.spec = Filled(@)]
    <3>1. cr'.spec = Filled(cr.spec)
      BY <2>2 DEF TypeOK, Resource
    <3>2. Filled(cr.spec).host = cr.spec.host
      BY DEF Filled, TypeOK, Resource, Specs
    <3> QED BY <3>1, <3>2
  <2> QED BY <2>1, <2>2 DEF BeginWith, BeginNotFound, BeginWaitLinked, BeginDeletion,
         BeginBadInterval, BeginSkip, BeginUpdate, BeginCheck, crVars
<1>2. /\ st'.hash = st.hash
      /\ mem'.hash.host \in {mem.hash.host, st.hash.host, NoHost}
      /\ w'.pc = "secret" => mem' = st /\ st.hash = cr.spec
      /\ w'.pc \in {"idle", "close all", "close", "secret"}
  <2>1. CASE ManageError(st, st)
    BY <2>1, ErrorHash DEF TypeOK
  <2>2. CASE BeginNotFound(cr, st) \/ BeginSkip(cr, st)
    BY <1>r, <2>2 DEF BeginNotFound, BeginSkip, crVars
  <2>3. CASE BeginDeletion(cr, st)
    <3>1. w' = [NoPass EXCEPT !.pc = "close all"] /\ mem' = st /\ st' = st
      BY <2>3 DEF BeginDeletion, Start, crVars
    <3>2. w'.pc = "close all"
      BY <3>1, ValuesType DEF Passes
    <3> QED BY <3>1, <3>2
  <2>4. CASE BeginUpdate(cr, st) /\ ~ManageError(st, st)
    BY <1>r, <2>4 DEF BeginUpdate
  <2>5. CASE BeginCheck(cr, st)
    <3>1. /\ w' = [NoPass EXCEPT !.pc = IF st.hash = cr.spec THEN "secret" ELSE "close"]
          /\ mem' = st /\ st' = st
      BY <2>5 DEF BeginCheck, Start, crVars
    <3>2. w'.pc = IF st.hash = cr.spec THEN "secret" ELSE "close"
      BY <3>1, ValuesType DEF Passes
    <3> QED BY <3>1, <3>2
  <2> QED BY <2>1, <2>2, <2>3, <2>4, <2>5
      DEF BeginWith, BeginWaitLinked, BeginBadInterval
<1>a. /\ seen'.spec.host = cr.spec.host /\ cr'.spec.host = cr.spec.host
      /\ st'.hash.host = st.hash.host /\ cache'.pools = cache.pools
  BY <1>r, <1>1, <1>2
<1>b. st.hash.host <= cr.spec.host /\ mem.hash.host <= cr.spec.host
  BY <1>n DEF NotAhead
<1>m. mem'.hash.host = mem.hash.host \/ mem'.hash.host = st.hash.host \/ mem'.hash.host = 0
  BY <1>2
<1>3. NotAhead'
  BY <1>n, <1>a, <1>b, <1>m DEF NotAhead
<1>4. NotBehind'
  BY <1>n, <1>a, <1>m DEF NotBehind
<1>5. HashInMemory' /\ PingedInBetween'
  BY <1>r, <1>2 DEF HashInMemory, PingedInBetween
<1> QED BY <1>r, <1>3, <1>4, <1>5

LEMMA EmptyHash == NoStatus.hash.host = NoHost
BY DEF NoStatus, NoHash

(* The steps of the pass that leave the resource alone.                    *)
LEMMA PassOrdered ==
    ASSUME TypeOK, TypeOK', Ordered,
           ClosePools \/ ReadSecret \/ Ping \/ ManageSuccess \/ CloseAll \/ Finalize
    PROVE  Ordered'
<1> USE DEF Ordered
<1>r. UNCHANGED <<held, seen>>
  BY PassGoes
<1>s. cr'.spec = cr.spec
  <2>1. CASE Finalize
    BY <2>1 DEF Finalize, TypeOK, Resource
  <2> QED BY <2>1, PassGoes
<1>e. \A d \in Databases : cache.pools[d] \in {NoHost, cache.pools[d], seen.spec.host}
  OBVIOUS
<1>0. ASSUME Stop PROVE /\ st'.hash \in {st.hash, mem.hash} /\ mem'.hash.host = NoHost
                        /\ w'.pc = "idle"
  BY <1>0, ErrorHash DEF Stop, TypeOK
<1>1. CASE ClosePools
  <2>1. /\ \A d \in Databases : cache'.pools[d] = NoHost
        /\ mem'.hash = seen.spec /\ st' = st /\ w'.pc = "secret"
    BY <1>1, GotoIs DEF ClosePools, NoCache, NoPools, Asked, TypeOK, Statuses, Positions
  <2>2. NotAhead'
    BY <1>r, <1>s, <2>1, Numbers DEF NotAhead
  <2>3. NotBehind' /\ HashInMemory' /\ PingedInBetween'
    BY <1>r, <2>1 DEF NotBehind, HashInMemory, PingedInBetween
  <2> QED BY <1>r, <2>2, <2>3
<1>2. CASE ReadSecret
  <2>1. cache' = cache
    BY <1>2 DEF ReadSecret
  <2>2. CASE Stop
    BY <1>0, <1>e, <1>r, <1>s, <2>1, <2>2, EndOrdered
  <2>3. CASE w' = [Goto("ping") EXCEPT !.secret = secret] /\ UNCHANGED <<st, mem>>
    <3>1. w'.pc = "ping" /\ w.pc = "secret"
      <4>1. Goto("ping") \in Passes /\ Goto("ping").pc = "ping"
        BY GotoIs DEF Positions
      <4> QED BY <1>2, <2>3, <4>1 DEF Passes, ReadSecret, At
    <3>2. NotAhead'
      BY <1>r, <1>s, <2>3 DEF NotAhead
    <3>3. NotBehind'
      BY <1>s, <2>1, <2>3 DEF NotBehind
    <3> QED BY <1>r, <2>3, <3>1, <3>2, <3>3 DEF HashInMemory, PingedInBetween
  <2> QED BY <1>2, <2>2, <2>3 DEF ReadSecret
<1>3. CASE Ping
  <2> DEFINE to == LeadsTo(DefaultDatabase, Asked.host, w.secret)
  <2>1. \A d \in Databases : cache'.pools[d] \in {NoHost, cache.pools[d], seen.spec.host}
    <3>1. cache' = Connected(DefaultDatabase, Asked.host, w.secret)
      BY <1>3 DEF Ping
    <3> QED BY <3>1, ConnectedPools, DatabasesAssumption DEF Asked
  <2>2. CASE Stop
    BY <1>0, <1>r, <1>s, <2>1, <2>2, EndOrdered
  <2>3. CASE /\ w' = [Goto("success") EXCEPT !.pinged = to[1], !.as = to[2]]
             /\ UNCHANGED <<st, mem>>
    <3>1. /\ w'.pc = "success" /\ w.pc = "ping" /\ w'.secret = w.secret
          /\ w'.pinged = to[1] /\ w'.as = to[2]
      <4>1. /\ Goto("success") \in Passes /\ Goto("success").pc = "success"
            /\ Goto("success").secret = w.secret
        BY GotoIs DEF Positions, Goto, TypeOK, Passes
      <4> HIDE DEF to
      <4> QED BY <1>3, <2>3, <4>1 DEF Passes, Ping, At
    <3>h. mem.hash = seen.spec
      BY <3>1 DEF HashInMemory
    <3>2. NotAhead'
      BY <1>r, <1>s, <2>3 DEF NotAhead
    <3>3. NotBehind'
      <4> SUFFICES ASSUME NEW d \in Databases, cache'.pools[d] # NoHost
                   PROVE  /\ st.hash.host <= cache'.pools[d]
                          /\ mem.hash.host <= cache'.pools[d]
                          /\ cache'.pools[d] <= cr.spec.host
        BY <1>s, <2>3 DEF NotBehind
      <4>1. CASE cache'.pools[d] = cache.pools[d]
        BY <4>1 DEF NotBehind
      <4>2. CASE cache'.pools[d] = seen.spec.host
        BY <4>2 DEF NotAhead
      <4> QED BY <2>1, <4>1, <4>2
    <3>4. to[2] = w.secret /\ seen.spec.host <= to[1] /\ to[1] <= cr.spec.host
      <4>1. CASE cache.cred = w.secret /\ cache.pools[DefaultDatabase] # NoHost
        <5>1. to = <<cache.pools[DefaultDatabase], w.secret>>
          BY <4>1 DEF LeadsTo
        <5> HIDE DEF to
        <5> QED BY <3>h, <4>1, <5>1, DatabasesAssumption DEF NotBehind
      <4>2. CASE ~(cache.cred = w.secret /\ cache.pools[DefaultDatabase] # NoHost)
        <5>1. to = <<seen.spec.host, w.secret>>
          BY <4>2 DEF LeadsTo, Asked
        <5> HIDE DEF to
        <5> QED BY <5>1, Numbers DEF NotAhead
      <4> QED BY <4>1, <4>2
    <3> HIDE DEF to
    <3>5. HashInMemory' /\ PingedInBetween'
      BY <1>r, <1>s, <2>3, <3>1, <3>h, <3>4 DEF HashInMemory, PingedInBetween
    <3> QED BY <1>r, <3>2, <3>3, <3>5
  <2> QED BY <1>3, <2>2, <2>3 DEF Ping
<1>4. CASE ManageSuccess
  <2>1. cache' = cache
    BY <1>4 DEF ManageSuccess
  <2>2. CASE Asked.interval = "30s"
    <3> DEFINE m == [mem EXCEPT !.phase = "Validated", !.ready = TRUE, !.last = "recent"]
    <3>1. m \in Statuses /\ m.hash = mem.hash
      BY DEF TypeOK, Statuses
    <3>2. st' = StatusPatch(orig, m) /\ EndPass
      BY <1>4, <2>2 DEF ManageSuccess
    <3> HIDE DEF m
    <3>3. st'.hash \in {st.hash, mem.hash}
      BY <3>1, <3>2, PatchedHash DEF TypeOK
    <3>4. mem'.hash.host = NoHost /\ w'.pc = "idle"
      BY <3>2, ValuesType DEF EndPass, NoStatus, NoHash
    <3> QED BY <1>e, <1>r, <1>s, <2>1, <3>3, <3>4, EndOrdered
  <2>3. CASE Asked.interval # "30s"
    BY <1>0, <1>4, <1>e, <1>r, <1>s, <2>1, <2>3, EndOrdered DEF ManageSuccess
  <2> QED BY <2>2, <2>3
<1>5. CASE CloseAll
  <2>1. /\ \A d \in Databases : cache'.pools[d] = NoHost
        /\ UNCHANGED <<mem, st>> /\ w'.pc = "finalize"
    BY <1>5, GotoIs DEF CloseAll, NoCache, NoPools, Positions
  <2> QED BY <1>r, <1>s, <2>1 DEF NotAhead, NotBehind, HashInMemory, PingedInBetween
<1>6. CASE Finalize
  <2>1. cache' = cache
    BY <1>6 DEF Finalize
  <2>2. CASE seen = cr /\ orig = st
    <3>1. st' = st /\ mem'.hash.host = NoHost /\ w'.pc = "idle"
      BY <1>6, <2>2, ValuesType, EmptyHash DEF Finalize, EndPass
    <3> QED BY <1>e, <1>r, <1>s, <2>1, <3>1, EndOrdered
  <2>3. CASE ~(seen = cr /\ orig = st)
    BY <1>0, <1>6, <1>e, <1>r, <1>s, <2>1, <2>3, EndOrdered DEF Finalize
  <2> QED BY <2>2, <2>3
<1> QED BY <1>1, <1>2, <1>3, <1>4, <1>5, <1>6

LEMMA FaultOrdered ==
    ASSUME TypeOK, TypeOK', Ordered, Fail \/ PatchFails \/ Crash
    PROVE  Ordered'
<1>1. w'.pc = "idle" /\ mem'.hash.host = NoHost /\ held' \subseteq held /\ UNCHANGED <<cr, seen>>
  BY FaultGoes, EmptyHash
<1>2. st'.hash \in {st.hash, mem.hash}
  <2>1. CASE Fail
    BY <2>1, ErrorHash DEF Fail, Stop, TypeOK
  <2>2. CASE PatchFails \/ Crash
    BY <2>2 DEF PatchFails, Crash, crVars
  <2> QED BY <2>1, <2>2
<1>3. \A d \in Databases : cache'.pools[d] \in {NoHost, cache.pools[d], seen.spec.host}
  <2>1. CASE Fail
    BY <2>1, ClosedSomePools DEF Fail
  <2>2. CASE PatchFails
    BY <2>2 DEF PatchFails
  <2>3. CASE Crash
    BY <2>3 DEF Crash, NoCache, NoPools
  <2> QED BY <2>1, <2>2, <2>3
<1> QED BY <1>1, <1>2, <1>3, EndOrdered

LEMMA EnvironmentOrdered ==
    ASSUME TypeOK, TypeOK', Straight, Ordered, Environment
    PROVE  Ordered'
<1> USE DEF Ordered
<1>1. CASE IntervalElapses
  BY <1>1, ElapsesFrame DEF NotAhead, NotBehind, HashInMemory, PingedInBetween
<1>2. CASE Edited
  <2>1. /\ UNCHANGED <<st, cache, held, seen, mem, w>>
        /\ cr.spec.host <= cr'.spec.host
    <3>1. cr' \in Resource
      BY DEF TypeOK
    <3> QED BY <1>2, <3>1, EditedFrame, Numbers, Addresses DEF Straight
  <2>2. cr'.spec.host \in Nat
    BY Addresses DEF TypeOK
  <2>3. NotAhead'
    BY <2>1, <2>2, Numbers DEF NotAhead
  <2>4. NotBehind'
    BY <2>1, <2>2, Numbers DEF NotBehind
  <2>5. HashInMemory' /\ PingedInBetween'
    BY <2>1, <2>2, Numbers DEF HashInMemory, PingedInBetween
  <2> QED BY <2>1, <2>3, <2>4, <2>5
<1>3. CASE Moved
  BY <1>3, MovedFrame DEF NotAhead, NotBehind, HashInMemory, PingedInBetween
<1>4. CASE Worked
  <2>1. /\ UNCHANGED <<cr, st, seen, mem, w>> /\ held' = {}
        /\ \E d \in Databases : cache' = Connected(d, cr.spec.host, secret)
    BY <1>4, WorkedFrame DEF Straight
  <2>2. \A e \in Databases : cache'.pools[e] \in {NoHost, cache.pools[e], cr.spec.host}
    BY <2>1, ConnectedPools
  <2>3. NotBehind'
    <3> SUFFICES ASSUME NEW e \in Databases, cache'.pools[e] # NoHost
                 PROVE  /\ st.hash.host <= cache'.pools[e]
                        /\ mem.hash.host <= cache'.pools[e]
                        /\ cache'.pools[e] <= cr.spec.host
      BY <2>1 DEF NotBehind
    <3>1. CASE cache'.pools[e] = cache.pools[e]
      BY <3>1 DEF NotBehind
    <3>2. CASE cache'.pools[e] = cr.spec.host
      BY <3>2, Numbers DEF NotAhead
    <3> QED BY <2>2, <3>1, <3>2
  <2> QED BY <2>1, <2>3 DEF NotAhead, HashInMemory, PingedInBetween
<1> QED BY <1>1, <1>2, <1>3, <1>4, EnvironmentSteps

LEMMA HStep == HInv /\ [Next]_vars => HInv'
<1> SUFFICES ASSUME TypeOK, TypeOK', Straight, Ordered, [Next]_vars PROVE Ordered'
  BY StepType, KindsStay DEF HInv, Straight
<1>1. CASE Begin
  <2>1. PICK copy \in CacheCopies : BeginWith(copy[1], copy[2])
    BY <1>1 DEF Begin
  <2>2. copy[1] = cr /\ copy[2] = st
    BY CacheCopiesType DEF Straight
  <2> QED BY <2>1, <2>2, BeginOrdered
<1>2. CASE Pass /\ ~Begin
  BY <1>2, PassOrdered DEF Pass
<1>3. CASE Fail \/ PatchFails \/ Crash
  BY <1>3, FaultOrdered
<1>4. CASE Environment
  BY <1>4, EnvironmentOrdered
<1>5. CASE UNCHANGED vars
  BY <1>5 DEF vars, Ordered, NotAhead, NotBehind, HashInMemory, PingedInBetween
<1> QED BY <1>1, <1>2, <1>3, <1>4, <1>5 DEF Next

LEMMA HInit == Init => HInv
<1> SUFFICES ASSUME Init PROVE Ordered
  BY InitType DEF HInv
<1>1. /\ st.hash.host = 0 /\ mem.hash.host = 0 /\ seen = cr /\ held = {}
      /\ \A d \in Databases : cache.pools[d] = NoHost
      /\ w.pc = "idle"
  BY ValuesType DEF Init, NoStatus, NoHash, NoHost, NoCache, NoPools
<1>2. cr.spec.host \in Nat
  BY InitType, Numbers
<1> QED BY <1>1, <1>2 DEF Ordered, NotAhead, NotBehind, HashInMemory, PingedInBetween

(* When no pass works with an old copy and no address comes back, a status *)
(* that is Ready for the spec as it is implies that every saved pool leads *)
(* to its address: the hash in the status never runs ahead of the pools,   *)
(* because they are closed before the new hash is in memory.               *)
THEOREM PoolsFollowTheSpec == Spec => []PoolsFollow
<1>1. HInv => PoolsFollow
  <2> SUFFICES ASSUME TypeOK, Ordered, st.hash = cr.spec, NEW d \in Databases
               PROVE  cache.pools[d] \in {NoHost, cr.spec.host}
    BY DEF HInv, PoolsFollow
  <2> QED BY Numbers DEF Ordered, NotBehind
<1> QED BY <1>1, HInit, HStep, PTL DEF Spec

(* ... and what a pass reports as validated is the address of the spec and *)
(* the credentials it read from the secret, although it pings through a    *)
(* pool that any other controller may have saved.                          *)
THEOREM PingedWhatWasAsked == Spec => []PingedAsAsked
<1>1. HInv => PingedAsAsked
  <2> SUFFICES ASSUME TypeOK, Ordered, w.pc = "success", seen.spec = cr.spec
               PROVE  w.pinged = seen.spec.host /\ w.as = w.secret
    BY DEF HInv, PingedAsAsked, Asked, At
  <2> QED BY Numbers DEF Ordered, PingedInBetween
<1> QED BY <1>1, HInit, HStep, PTL DEF Spec

-----------------------------------------------------------------------------
(* A deletion that waited leaves no pool.                                  *)

(* From the moment it is found that no database is linked, nobody opens a  *)
(* pool but the pass itself.                                               *)
NobodyLinked == w.pc \in {"close all", "finalize"} /\ seen.spec.wait => linked = {}
PoolsClosed == w.pc = "finalize" /\ seen.spec.wait => cache.pools = NoPools
GoneWithout ==
    ~cr.exists /\ cr.finalizer => w.pc = "idle" /\ (cr.spec.wait => cache.pools = NoPools)

Left == held = {} /\ NobodyLinked /\ PoolsClosed /\ GoneWithout

Unlinked == "stale" \notin faults.kinds /\ "link" \notin edits.kinds

NInv == TypeOK /\ (Unlinked => Left)

LEMMA NStep == NInv /\ [Next]_vars => NInv'
<1> SUFFICES ASSUME TypeOK, Unlinked, Left, [Next]_vars PROVE Left'
  BY StepType, KindsStay DEF NInv, Unlinked
<1> USE DEF Left
<1>1. CASE Begin
  <2>1. PICK copy \in CacheCopies : BeginWith(copy[1], copy[2])
    BY <1>1 DEF Begin
  <2>2. copy[1] = cr /\ copy[2] = st
    BY CacheCopiesType DEF Unlinked
  <2>3. BeginWith(cr, st)
    BY <2>1, <2>2
  <2>4. cr'.exists = cr.exists /\ (~cr.exists => cr' = cr)
    BY <2>3 DEF BeginWith, BeginNotFound, BeginWaitLinked, BeginDeletion, BeginBadInterval,
       BeginSkip, BeginUpdate, BeginCheck, Checks, Living, crVars, TypeOK, Resource
  <2>5. held' = {} /\ NobodyLinked' /\ PoolsClosed'
    BY <2>3, BeginGoes DEF HeldBack, NobodyLinked, PoolsClosed
  <2>6. GoneWithout'
    BY <2>3, <2>4, BeginGoes DEF GoneWithout
  <2> QED BY <2>5, <2>6
<1>2. CASE Pass /\ ~Begin
  <2>1. ClosePools \/ ReadSecret \/ Ping \/ ManageSuccess \/ CloseAll \/ Finalize
    BY <1>2 DEF Pass
  <2>2. UNCHANGED <<held, seen, linked>> /\ w.pc # "idle"
    BY <2>1, PassGoes DEF ClosePools, ReadSecret, Ping, ManageSuccess, CloseAll, Finalize, At
  <2>3. CloseAll => w.pc = "close all" /\ cache'.pools = NoPools
    BY ValuesType DEF CloseAll, At
  <2>4. NobodyLinked' /\ PoolsClosed'
    BY <2>1, <2>2, <2>3, PassGoes DEF NobodyLinked, PoolsClosed
  <2>5. CASE Finalize /\ cr' # cr
    <3>1. /\ seen = cr /\ w.pc = "finalize" /\ cr' = [cr EXCEPT !.exists = FALSE]
          /\ EndPass /\ cache' = cache
      BY <2>5 DEF Finalize, At
    <3>2. cr'.spec = cr.spec /\ w'.pc = "idle"
      BY <3>1, ValuesType DEF EndPass, TypeOK, Resource
    <3> QED BY <2>2, <2>4, <3>1, <3>2 DEF PoolsClosed, GoneWithout
  <2>6. CASE ~(Finalize /\ cr' # cr)
    <3>1. cr' = cr
      BY <2>1, <2>6, PassGoes
    <3> QED BY <2>2, <2>4, <3>1 DEF GoneWithout
  <2> QED BY <2>5, <2>6
<1>3. CASE Fail \/ PatchFails \/ Crash
  <2>1. w'.pc = "idle" /\ held' = {} /\ UNCHANGED cr
    BY <1>3, FaultGoes
  <2>2. w.pc = "idle" => cache' = cache \/ cache'.pools = NoPools
    BY <1>3, ValuesType DEF Fail, PatchFails, Crash, At
  <2> QED BY <2>1, <2>2 DEF NobodyLinked, PoolsClosed, GoneWithout
<1>4. CASE Environment
  <2>1. CASE IntervalElapses
    BY <2>1, ElapsesFrame DEF NobodyLinked, PoolsClosed, GoneWithout
  <2>2. CASE Edited
    BY <2>2, EditedFrame DEF NobodyLinked, PoolsClosed, GoneWithout
  <2>3. CASE Moved
    BY <2>3, MovedFrame DEF Unlinked, NobodyLinked, PoolsClosed, GoneWithout
  <2>4. CASE Worked
    <3>1. /\ UNCHANGED <<cr, linked, seen, w>> /\ held' = {}
          /\ Work
      BY <2>4, WorkedFrame DEF Unlinked
    <3> QED BY <3>1 DEF Work, NobodyLinked, PoolsClosed, GoneWithout
  <2> QED BY <1>4, <2>1, <2>2, <2>3, <2>4, EnvironmentSteps
<1>5. CASE UNCHANGED vars
  BY <1>5 DEF vars, NobodyLinked, PoolsClosed, GoneWithout
<1> QED BY <1>1, <1>2, <1>3, <1>4, <1>5 DEF Next

(* When no database is linked any more and no pass works with an old copy, *)
(* a resource that asked to wait for its databases is gone without a pool: *)
(* the pools are closed after the databases were waited for, and a pass of *)
(* another controller needs a linked database to open one.                 *)
THEOREM NoPoolIsLeft == Spec => []NoPoolLeft
<1>1. Init => NInv
  <2> SUFFICES ASSUME Init PROVE Left
    BY InitType DEF NInv
  <2> QED BY ValuesType DEF Init, Left, NobodyLinked, PoolsClosed, GoneWithout
<1>2. NInv => NoPoolLeft
  BY DEF NInv, Unlinked, Left, GoneWithout, NoPoolLeft
<1> QED BY <1>1, <1>2, NStep, PTL DEF Spec
=============================================================================
