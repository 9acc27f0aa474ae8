------------------------ MODULE EngineConfiguration ------------------------
(***************************************************************************)
(* The reconciliation of one PostgresqlEngineConfiguration (internal/      *)
(* controller/postgresql/postgresqlengineconfiguration_controller.go): the *)
(* address of a PostgreSQL engine and the secret with the credentials of   *)
(* the operator.  A pass closes the saved pools when the spec has changed, *)
(* pings the engine and reports; the passes of the other controllers use   *)
(* the same pools, which are looked up by the name of the resource alone   *)
(* (PoolManager has their steps; here a lookup is one step).               *)
(***************************************************************************)
EXTENDS Naturals, FiniteSets

CONSTANTS
    Hosts,       \* addresses, numbered in the order the spec takes them
    Secrets,     \* contents of the secret, when it has a user and a password
    GoodSecrets, \* those the engine accepts
    Databases,   \* databases a pool is opened on
    DefaultDatabase, \* the one that is pinged
    Clients,     \* PostgresqlDatabase resources that may link to this one
    Plans        \* the scenarios: resource, clients, edits, faults

NoHost == 0
NoSecret == ""

(* spec.checkInterval: unset, a duration, or anything else.                *)
Intervals == {"unset", "30s", "bad"}
Specs == [host : Hosts, interval : Intervals, primary : Hosts \union {NoHost},
          wait : BOOLEAN]
NoHash == [host |-> NoHost, interval |-> "unset", primary |-> NoHost, wait |-> FALSE]
Resource == [exists : BOOLEAN, deleting : BOOLEAN, finalizer : BOOLEAN, spec : Specs]

(* last: status.lastValidatedTime, and whether the check interval is over. *)
Statuses == [phase : {"", "Validated", "Failed"}, ready : BOOLEAN,
             hash : Specs \union {NoHash}, last : {"never", "recent", "old"}]

EditKinds == {"host", "host back", "interval", "wait", "secret", "delete", "link",
              "unlink", "outage"}
FaultKinds == {"error", "crash", "stale"}
Budgets(K) == [kinds : SUBSET K, left : Nat]

ASSUME HostsAssumption == Hosts \subseteq Nat \ {NoHost}
ASSUME SecretsAssumption == NoSecret \notin Secrets /\ GoodSecrets \subseteq Secrets
ASSUME DatabasesAssumption == DefaultDatabase \in Databases
ASSUME PlansAssumption ==
    \A plan \in Plans :
        /\ plan.cr \in Resource
        /\ plan.linked \subseteq Clients
        /\ plan.edits \in Budgets(EditKinds)
        /\ plan.faults \in Budgets(FaultKinds)

VARIABLES
    cr,     \* the PostgresqlEngineConfiguration, as stored
    st,     \* its status, as stored
    secret, \* the content of the secret
    up,     \* the addresses at which an engine answers
    linked, \* the PostgresqlDatabase resources linked to it
    since,  \* those linked since the running pass looked for them
    cache,  \* the saved pools: their credentials, and database -> address
    held,   \* copies of address and credentials in passes of other controllers
    seen,   \* the spec and metadata the last pass read
    orig,   \* the status the last pass read
    mem,    \* the status in the memory of the running pass
    w,      \* the position and the local variables of the running pass
    edits,  \* the kinds of edits, and how many are left
    faults  \* the kinds of faults, and how many are left

crVars == <<cr, st>>
worldVars == <<secret, up, linked>>
boundVars == <<edits, faults>>
vars == <<cr, st, secret, up, linked, since, cache, held, seen, orig, mem, w, edits, faults>>

-----------------------------------------------------------------------------
NoStatus == [phase |-> "", ready |-> FALSE, hash |-> NoHash, last |-> "never"]
NoPass == [pc |-> "idle", secret |-> NoSecret, pinged |-> NoHost, as |-> NoSecret]

(* addDefaultValues: what is unset is written into the spec, once.         *)
Filled(spec) ==
    [spec EXCEPT !.interval = IF @ = "unset" THEN "30s" ELSE @,
                 !.primary = IF @ = NoHost THEN spec.host ELSE @]

-----------------------------------------------------------------------------
(* The saved pools.                                                        *)

NoPools == [d \in Databases |-> NoHost]
NoCache == [cred |-> NoSecret, pools |-> NoPools]

(* Mutant: the credentials are not saved with the first pool.              *)
ConnectedUnknown(d, h, c) ==
    IF cache.cred \notin {NoSecret, c} THEN NoCache
    ELSE IF cache.pools[d] = NoHost THEN [cache EXCEPT !.pools[d] = h]
    ELSE cache

(* getOrOpenPool, for the address h and the credentials c: the cache it    *)
(* leaves.  Only credentials are compared; when they differ, all pools are *)
(* closed and the new one is not saved.                                    *)
Connected(d, h, c) ==
    IF cache.cred = NoSecret THEN [cred |-> c, pools |-> [NoPools EXCEPT ![d] = h]]
    ELSE IF cache.cred # c THEN NoCache
    ELSE IF cache.pools[d] = NoHost THEN [cache EXCEPT !.pools[d] = h]
    ELSE cache

(* Mutant: a saved pool is used whatever its credentials.                  *)
LeadsToWhatever(d, h, c) ==
    IF cache.cred # NoSecret /\ cache.pools[d] # NoHost
    THEN <<cache.pools[d], cache.cred>> ELSE <<h, c>>

(* ... and the address and the credentials of the pool that it returns.    *)
LeadsTo(d, h, c) ==
    IF cache.cred = c /\ cache.pools[d] # NoHost THEN <<cache.pools[d], c>> ELSE <<h, c>>

-----------------------------------------------------------------------------
(* Status writes: the fields that differ from the copy that was read.      *)

Merged(o, m, stored) == IF m = o THEN stored ELSE m

StatusPatch(o, m) ==
    IF ~cr.exists THEN st ELSE [f \in DOMAIN st |-> Merged(o[f], m[f], st[f])]

EndPass == mem' = NoStatus /\ w' = NoPass

ManageError(o, m) ==
    /\ st' = StatusPatch(o, [m EXCEPT !.ready = FALSE, !.phase = "Failed"])
    /\ EndPass

(* The running pass ends in manageError.                                   *)
Stop == ManageError(orig, mem)

Allowed(kind, budget) == kind \in budget.kinds /\ budget.left > 0
Spend(budget) == [budget EXCEPT !.left = @ - 1]

At(position) == w.pc = position
Goto(position) == [w EXCEPT !.pc = position]
Asked == seen.spec

(* What a pass leaves alone between its start and its end.                 *)
Steady == UNCHANGED <<cr, worldVars, since, held, seen, orig, edits>>

-----------------------------------------------------------------------------
(* The start of a pass: the copy read from the cache decides.              *)

CacheCopies == {<<cr, st>>} \union (IF "stale" \in faults.kinds THEN {<<seen, orig>>} ELSE {})

Read(c, s) ==
    /\ At("idle")
    /\ seen' = c
    /\ orig' = s
    /\ UNCHANGED <<worldVars, cache, held, boundVars>>

Start(s, position) ==
    /\ mem' = s
    /\ w' = [NoPass EXCEPT !.pc = position]

BeginNotFound(c, s) ==
    /\ Read(c, s)
    /\ ~c.exists
    /\ UNCHANGED <<crVars, since, mem, w>>

(* Mutant: databases are waited for without the flag.                      *)
HeldBackUnasked(c) == linked # {}

(* getAnyDatabaseLinked, when waitLinkedResourcesDeletion is set.          *)
HeldBack(c) == c.spec.wait /\ linked # {}

BeginWaitLinked(c, s) ==
    /\ Read(c, s)
    /\ c.exists /\ c.deleting
    /\ HeldBack(c)
    /\ ManageError(s, s)
    /\ UNCHANGED <<cr, since>>

BeginDeletion(c, s) ==
    /\ Read(c, s)
    /\ c.exists /\ c.deleting
    /\ ~HeldBack(c)
    /\ Start(s, "close all")
    /\ since' = {}
    /\ UNCHANGED crVars

Living(c) == c.exists /\ ~c.deleting
Validated(s) == s.phase = "Validated" /\ s.last # "never"

(* The interval is parsed before a default is written for it.              *)
BeginBadInterval(c, s) ==
    /\ Read(c, s)
    /\ Living(c) /\ Validated(s)
    /\ c.spec.interval # "30s"
    /\ ManageError(s, s)
    /\ UNCHANGED <<cr, since>>

(* Mutant: a validated spec is never checked again.                        *)
UnchangedForGood(c, s) == Validated(s) /\ s.hash = c.spec

UnchangedRecently(c, s) == Validated(s) /\ s.last = "recent" /\ s.hash = c.spec

BeginSkip(c, s) ==
    /\ Read(c, s)
    /\ Living(c) /\ UnchangedRecently(c, s)
    /\ c.spec.interval = "30s"
    /\ UNCHANGED <<crVars, since, mem, w>>

Checks(c, s) ==
    Living(c) /\ (Validated(s) => c.spec.interval = "30s") /\ ~UnchangedRecently(c, s)

(* Mutant: only a missing finalizer calls for an update.                   *)
CompleteMeta(c) == c.finalizer

Complete(c) == c.finalizer /\ c.spec = Filled(c.spec)

(* The update carries the resource version that was read.                  *)
BeginUpdate(c, s) ==
    /\ Read(c, s)
    /\ Checks(c, s) /\ ~Complete(c)
    /\ IF c = cr /\ s = st
       THEN /\ cr' = [cr EXCEPT !.finalizer = TRUE, !.spec = Filled(@)]
            /\ UNCHANGED <<st, mem, w>>
       ELSE ManageError(s, s) /\ UNCHANGED cr
    /\ UNCHANGED since

(* Mutant: the new hash is in memory before the pools are closed.          *)
BeginCheckHashed(c, s) ==
    /\ Read(c, s)
    /\ Checks(c, s) /\ Complete(c)
    /\ Start([s EXCEPT !.hash = c.spec], IF s.hash = c.spec THEN "secret" ELSE "close")
    /\ UNCHANGED <<crVars, since>>

BeginCheck(c, s) ==
    /\ Read(c, s)
    /\ Checks(c, s) /\ Complete(c)
    /\ Start(s, IF s.hash = c.spec THEN "secret" ELSE "close")
    /\ UNCHANGED <<crVars, since>>

-----------------------------------------------------------------------------
(* The pass.                                                               *)

(* CloseAllSavedPoolsForName, and the new hash in memory.                  *)
ClosePools ==
    /\ At("close")
    /\ cache' = NoCache
    /\ mem' = [mem EXCEPT !.hash = Asked]
    /\ w' = Goto("secret")
    /\ UNCHANGED <<st, faults>>
    /\ Steady

ReadSecret ==
    /\ At("secret")
    /\ IF secret = NoSecret
       THEN Stop
       ELSE w' = [Goto("ping") EXCEPT !.secret = secret] /\ UNCHANGED <<st, mem>>
    /\ UNCHANGED <<cache, faults>>
    /\ Steady

(* A pool is opened, and saved, whether or not the engine answers.         *)
Ping ==
    LET to == LeadsTo(DefaultDatabase, Asked.host, w.secret)
    IN  /\ At("ping")
        /\ cache' = Connected(DefaultDatabase, Asked.host, w.secret)
        /\ IF to[1] \in up /\ to[2] \in GoodSecrets
           THEN /\ w' = [Goto("success") EXCEPT !.pinged = to[1], !.as = to[2]]
                /\ UNCHANGED <<st, mem>>
           ELSE Stop
        /\ UNCHANGED faults
        /\ Steady

ManageSuccess ==
    /\ At("success")
    /\ IF Asked.interval = "30s"
       THEN /\ st' = StatusPatch(orig, [mem EXCEPT !.phase = "Validated", !.ready = TRUE,
                                                   !.last = "recent"])
            /\ EndPass
       ELSE Stop
    /\ UNCHANGED <<cache, faults>>
    /\ Steady

-----------------------------------------------------------------------------
(* The deletion.                                                           *)

(* Mutant: the pools stay.                                                 *)
CloseAllNot ==
    /\ At("close all")
    /\ w' = Goto("finalize")
    /\ UNCHANGED <<st, mem, cache, faults>>
    /\ Steady

CloseAll ==
    /\ At("close all")
    /\ cache' = NoCache
    /\ w' = Goto("finalize")
    /\ UNCHANGED <<st, mem, faults>>
    /\ Steady

(* Mutant: the finalizer is removed from whatever is stored by now.        *)
FinalizeAnyway ==
    /\ At("finalize")
    /\ cr' = [cr EXCEPT !.exists = FALSE]
    /\ EndPass
    /\ UNCHANGED <<st, worldVars, since, cache, held, seen, orig, boundVars>>

(* The finalizer is removed and the resource goes.                         *)
Finalize ==
    /\ At("finalize")
    /\ IF seen = cr /\ orig = st
       THEN /\ cr' = [cr EXCEPT !.exists = FALSE]
            /\ EndPass
            /\ UNCHANGED st
       ELSE Stop /\ UNCHANGED cr
    /\ UNCHANGED <<worldVars, since, cache, held, seen, orig, boundVars>>

-----------------------------------------------------------------------------
(* Faults.                                                                 *)

(* Some of the pools were closed when the Close of one failed.             *)
ClosedSome(D) ==
    [cache EXCEPT !.pools = [d \in Databases |-> IF d \in D THEN NoHost ELSE @[d]]]

(* A call returns an error.                                                *)
Fail ==
    /\ Allowed("error", faults)
    /\ w.pc \notin {"idle", "success"}
    /\ IF w.pc \in {"close", "close all"}
       THEN \E D \in SUBSET Databases : cache' = ClosedSome(D)
       ELSE UNCHANGED cache
    /\ Stop
    /\ faults' = Spend(faults)
    /\ Steady

(* The last status patch fails.  The pools are in the process: when it     *)
(* stops they are gone too.                                                *)
PatchFails ==
    /\ Allowed("error", faults)
    /\ At("success")
    /\ EndPass
    /\ faults' = Spend(faults)
    /\ UNCHANGED <<st, cache>>
    /\ Steady

Crash ==
    /\ Allowed("crash", faults)
    /\ cache' = NoCache
    /\ held' = {}
    /\ EndPass
    /\ faults' = Spend(faults)
    /\ UNCHANGED <<crVars, worldVars, since, seen, orig, edits>>

-----------------------------------------------------------------------------
(* The rest of the cluster.                                                *)

(* The check interval goes by, for every copy of the status.               *)
Older(s) == [s EXCEPT !.last = IF @ = "recent" THEN "old" ELSE @]
IntervalElapses ==
    /\ st.last = "recent"
    /\ st' = Older(st)
    /\ orig' = Older(orig)
    /\ mem' = Older(mem)
    /\ UNCHANGED <<cr, worldVars, since, cache, held, seen, w, boundVars>>

Edit(kind) ==
    /\ Allowed(kind, edits)
    /\ edits' = Spend(edits)
    /\ UNCHANGED <<st, cache, held, seen, orig, mem, w, faults>>

EditResource(kind, c) ==
    /\ Edit(kind)
    /\ cr.exists
    /\ c # cr
    /\ cr' = c
    /\ UNCHANGED <<worldVars, since>>

SetHost(h) == h > cr.spec.host /\ EditResource("host", [cr EXCEPT !.spec.host = h])
SetHostBack(h) == h < cr.spec.host /\ EditResource("host back", [cr EXCEPT !.spec.host = h])
SetInterval(i) == EditResource("interval", [cr EXCEPT !.spec.interval = i])
SetWait == EditResource("wait", [cr EXCEPT !.spec.wait = ~@])

(* Without a finalizer the resource is gone at once.                       *)
DeleteResource ==
    EditResource("delete", [cr EXCEPT !.deleting = TRUE, !.exists = cr.finalizer])

SetSecret(s) ==
    /\ Edit("secret")
    /\ s # secret
    /\ secret' = s
    /\ UNCHANGED <<cr, up, linked, since>>

GoesDownOrUp(h) ==
    /\ Edit("outage")
    /\ up' = (up \ {h}) \union ({h} \ up)
    /\ UNCHANGED <<cr, secret, linked, since>>

Link(client) ==
    /\ Edit("link")
    /\ client \notin linked
    /\ linked' = linked \union {client}
    /\ since' = since \union {client}
    /\ UNCHANGED <<cr, secret, up>>

Unlink(client) ==
    /\ Edit("unlink")
    /\ client \in linked
    /\ linked' = linked \ {client}
    /\ UNCHANGED <<cr, secret, up, since>>

(* The pass of another controller, for a linked database, connects with    *)
(* the address and the credentials as they are ...                         *)
Work == cr.exists /\ linked # {} /\ secret # NoSecret

Connect(d) ==
    /\ Work
    /\ cache' = Connected(d, cr.spec.host, secret)
    /\ UNCHANGED <<crVars, worldVars, since, held, seen, orig, mem, w, boundVars>>

(* ... or as they were when it read them.                                  *)
Fetch ==
    /\ "stale" \in faults.kinds
    /\ Work
    /\ held' = {<<cr.spec.host, secret>>}
    /\ UNCHANGED <<crVars, worldVars, since, cache, seen, orig, mem, w, boundVars>>

ConnectLate(d) ==
    /\ \E copy \in held : cache' = Connected(d, copy[1], copy[2])
    /\ held' = {}
    /\ UNCHANGED <<crVars, worldVars, since, seen, orig, mem, w, boundVars>>

-----------------------------------------------------------------------------
Init ==
    /\ \E plan \in Plans :
         /\ cr = plan.cr
         /\ linked = plan.linked
         /\ edits = plan.edits
         /\ faults = plan.faults
    /\ secret \in Secrets
    /\ up = Hosts
    /\ st = NoStatus
    /\ since = {}
    /\ cache = NoCache
    /\ held = {}
    /\ seen = cr
    /\ orig = NoStatus
    /\ mem = NoStatus
    /\ w = NoPass

BeginWith(c, s) ==
    \/ BeginNotFound(c, s)
    \/ BeginWaitLinked(c, s)
    \/ BeginDeletion(c, s)
    \/ BeginBadInterval(c, s)
    \/ BeginSkip(c, s)
    \/ BeginUpdate(c, s)
    \/ BeginCheck(c, s)

Begin == \E copy \in CacheCopies : BeginWith(copy[1], copy[2])

Pass ==
    \/ Begin
    \/ ClosePools
    \/ ReadSecret
    \/ Ping
    \/ ManageSuccess
    \/ CloseAll
    \/ Finalize

Environment ==
    \/ IntervalElapses
    \/ \E h \in Hosts : SetHost(h) \/ SetHostBack(h) \/ GoesDownOrUp(h)
    \/ \E i \in Intervals : SetInterval(i)
    \/ SetWait
    \/ DeleteResource
    \/ \E s \in Secrets \union {NoSecret} : SetSecret(s)
    \/ \E client \in Clients : Link(client) \/ Unlink(client)
    \/ \E d \in Databases : Connect(d) \/ ConnectLate(d)
    \/ Fetch

Next == Pass \/ Fail \/ PatchFails \/ Crash \/ Environment

Spec == Init /\ [][Next]_vars

(* The watch delivers in the end: a pass reads the stored copy.            *)
BeginFresh == BeginWith(cr, st)

(* A pass that failed is retried, one that succeeded comes back after the  *)
(* check interval.                                                         *)
Fairness == WF_vars(Pass) /\ SF_vars(BeginFresh) /\ WF_vars(IntervalElapses)

FairSpec == Spec /\ Fairness

-----------------------------------------------------------------------------
(* Properties.                                                             *)

Positions == {"idle", "close", "secret", "ping", "success", "close all", "finalize"}
Passes == [pc : Positions, secret : Secrets \union {NoSecret},
           pinged : Hosts \union {NoHost}, as : Secrets \union {NoSecret}]

(* Every variable keeps its type; a pass that pings has credentials, and   *)
(* pools are only saved together with theirs.                              *)
TypeOK ==
    /\ cr \in Resource /\ seen \in Resource
    /\ st \in Statuses /\ orig \in Statuses /\ mem \in Statuses
    /\ secret \in Secrets \union {NoSecret}
    /\ up \subseteq Hosts
    /\ linked \subseteq Clients /\ since \subseteq Clients
    /\ cache \in [cred : Secrets \union {NoSecret}, pools : [Databases -> Hosts \union {NoHost}]]
    /\ cache.cred = NoSecret => cache.pools = NoPools
    /\ held \subseteq Hosts \X Secrets
    /\ w \in Passes
    /\ w.pc \in {"ping", "success"} => w.secret \in Secrets
    /\ edits \in Budgets(EditKinds)
    /\ faults \in Budgets(FaultKinds)

(* Nobody works with an old copy, and no address comes back: a pool for an *)
(* address that the spec had in between escapes the comparison of hashes.  *)
Straight == "stale" \notin faults.kinds /\ "host back" \notin edits.kinds

(* Once the status reports Ready for the spec as it is, no saved pool      *)
(* leads to a former address.                                              *)
PoolsFollow ==
    (Straight /\ cr.exists /\ st.ready /\ st.hash = cr.spec) =>
        \A d \in Databases : cache.pools[d] \in {NoHost, cr.spec.host}

(* A pass that is about to report Ready for the spec as it is has pinged   *)
(* its address with the credentials that the pass read, not a pool that    *)
(* was saved for others.                                                   *)
PingedAsAsked ==
    (Straight /\ At("success") /\ Asked = cr.spec) =>
        w.pinged = Asked.host /\ w.as = w.secret

(* An engine configuration that waited for its databases leaves no pool.   *)
NoPoolLeft ==
    (/\ ~cr.exists /\ cr.finalizer /\ cr.spec.wait
     /\ "stale" \notin faults.kinds /\ "link" \notin edits.kinds) => cache.pools = NoPools

(* With waitLinkedResourcesDeletion, as it is stored when the resource     *)
(* goes, only a database linked after the pass looked is left behind.      *)
WaitHonoured ==
    [][(cr.exists /\ ~cr'.exists /\ cr.finalizer /\ cr.spec.wait) => linked \subseteq since]_vars

(* A deletion that was asked for completes, once no database is waited for.*)
DeletionCompletes ==
    []<>(cr.spec.wait /\ linked # {}) \/ (cr.deleting ~> ~cr.exists)

(* What a pass needs to succeed.                                           *)
Sound == cr.spec.interval # "bad" /\ secret \in GoodSecrets /\ cr.spec.host \in up

Healthy == st.ready /\ st.hash = cr.spec /\ cr.spec = Filled(cr.spec)

(* Once edits and faults are over, a sound configuration is validated.     *)
Converges ==
    \/ []<>(~cr.exists \/ cr.deleting \/ ~Sound)
    \/ ~Straight
    \/ <>[]Healthy

(* An engine that is gone for good, or no longer takes the credentials, is *)
(* reported, although its pools are saved and the spec did not change.     *)
FailureNoticed ==
    \/ []<>(~cr.exists \/ cr.deleting \/ Sound)
    \/ ~Straight
    \/ <>[]~st.ready
=============================================================================
