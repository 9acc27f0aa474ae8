---------------------------- MODULE PoolManager ----------------------------
(***************************************************************************)
(* The connection pools of one engine configuration (internal/controller/  *)
(* postgresql/postgres/pool_manager.go).  A package-level sync.Map holds,  *)
(* per engine name, a poolSaved: the credentials it was made for and a     *)
(* sync.Map from database to *sql.DB.  Every controller of the process     *)
(* works on it without a lock; each Load, Store, Delete and Close is one   *)
(* step here.                                                              *)
(***************************************************************************)
EXTENDS Naturals, FiniteSets

CONSTANTS
    Procs,       \* goroutines running reconciliations of this engine
    Databases,   \* databases they connect to
    Credentials, \* username and password pairs the engine secret has held
    Saved,       \* identities of the poolSaved structures
    NoSaved,     \* no poolSaved
    NoPool,      \* no pool
    CloseErrors, \* whether the Close of a pool may return an error
    MaxCalls     \* bound on the number of calls

Pools == [id : Nat, cred : Credentials]

ASSUME NoSavedAssumption == NoSaved \notin Saved
ASSUME NoPoolAssumption == NoPool \notin Pools
ASSUME NotEmptyAssumption == Databases # {} /\ Credentials # {}
ASSUME BoundsAssumption == CloseErrors \in BOOLEAN /\ MaxCalls \in Nat

VARIABLES
    storage, \* poolManagerStorage at the name of the engine
    savs,    \* the poolSaved structures: credentials and pools
    made,    \* the structures made so far
    opened,  \* the number of pools opened so far
    closed,  \* the identities of the pools closed
    failed,  \* those whose Close returned an error
    calls,   \* the number of calls made so far
    pc,      \* goroutine -> position
    db,      \* goroutine -> database argument
    cred,    \* goroutine -> credentials of its pg value
    sav,     \* goroutine -> the structure getOrOpenPool holds
    ps,      \* goroutine -> the structure a closing function holds
    due,     \* goroutine -> databases its Range has to visit
    keys,    \* goroutine -> databases visited, to be deleted
    got      \* goroutine -> the pool in hand, then the result of the call

sharedVars == <<storage, savs, made, opened, closed, failed>>
localVars == <<db, cred, sav, ps, due, keys, got>>
vars == <<storage, savs, made, opened, closed, failed, calls, pc, db, cred, sav, ps,
          due, keys, got>>

SavedValues == [cred : Credentials, pools : [Databases -> Pools \union {NoPool}]]
NoPools == [d \in Databases |-> NoPool]
AnyCredentials == CHOOSE c \in Credentials : TRUE
AnyDatabase == CHOOSE d \in Databases : TRUE

Init ==
    /\ storage = NoSaved
    /\ savs = [s \in Saved |-> [cred |-> AnyCredentials, pools |-> NoPools]]
    /\ made = {}
    /\ opened = 0
    /\ closed = {}
    /\ failed = {}
    /\ calls = 0
    /\ pc = [p \in Procs |-> "idle"]
    /\ db = [p \in Procs |-> AnyDatabase]
    /\ cred = [p \in Procs |-> AnyCredentials]
    /\ sav = [p \in Procs |-> NoSaved]
    /\ ps = [p \in Procs |-> NoSaved]
    /\ due = [p \in Procs |-> {}]
    /\ keys = [p \in Procs |-> {}]
    /\ got = [p \in Procs |-> NoPool]

-----------------------------------------------------------------------------
At(p, position) == pc[p] = position
Goto(p, position) == pc' = [pc EXCEPT ![p] = position]

(* The call ends with this pool as its result.                             *)
Return(p, pool) ==
    /\ Goto(p, "idle")
    /\ got' = [got EXCEPT ![p] = pool]
    /\ sav' = [sav EXCEPT ![p] = NoSaved]
    /\ ps' = [ps EXCEPT ![p] = NoSaved]
    /\ due' = [due EXCEPT ![p] = {}]
    /\ keys' = [keys EXCEPT ![p] = {}]
    /\ UNCHANGED <<db, cred>>

NewPool(p) == [id |-> opened, cred |-> cred[p]]
PoolOf(s, d) == savs[s].pools[d]
StorePool(s, d, pool) == savs' = [savs EXCEPT ![s].pools[d] = pool]

(* A controller asks for a pool (position "load"), the engine              *)
(* configuration controller closes all of them ("loadAll"), the database   *)
(* controller those of one database ("loadOne").                           *)
Call(p, d, c, position) ==
    /\ At(p, "idle")
    /\ calls < MaxCalls
    /\ calls' = calls + 1
    /\ Goto(p, position)
    /\ db' = [db EXCEPT ![p] = d]
    /\ cred' = [cred EXCEPT ![p] = c]
    /\ got' = [got EXCEPT ![p] = NoPool]
    /\ UNCHANGED <<sharedVars, sav, ps, due, keys>>

-----------------------------------------------------------------------------
(* getOrOpenPool                                                           *)

(* Mutant: a structure made for other credentials is used all the same.    *)
SameCredentialsAlways(p, s) == TRUE

SameCredentials(p, s) == savs[s].cred = cred[p]

LoadNothing(p) ==
    /\ At(p, "load")
    /\ storage = NoSaved
    /\ Goto(p, "fresh")
    /\ UNCHANGED <<sharedVars, calls, localVars>>

(* Mutant: the structure that was loaded is not kept for the lookup.       *)
LoadSavedUnkept(p) ==
    /\ At(p, "load")
    /\ storage # NoSaved
    /\ Goto(p, IF SameCredentials(p, storage) THEN "lookup" ELSE "loadAll")
    /\ UNCHANGED <<sharedVars, calls, localVars>>

(* Other credentials: everything is closed first, then the lookup goes on  *)
(* in the structure that was loaded.                                       *)
LoadSaved(p) ==
    /\ At(p, "load")
    /\ storage # NoSaved
    /\ sav' = [sav EXCEPT ![p] = storage]
    /\ Goto(p, IF SameCredentials(p, storage) THEN "lookup" ELSE "loadAll")
    /\ UNCHANGED <<sharedVars, calls, db, cred, ps, due, keys, got>>

Fresh(p) ==
    LET s == CHOOSE s \in Saved \ made : TRUE
    IN  /\ At(p, "fresh")
        /\ Saved \ made # {}
        /\ opened' = opened + 1
        /\ savs' = [savs EXCEPT ![s] =
                      [cred |-> cred[p], pools |-> [NoPools EXCEPT ![db[p]] = NewPool(p)]]]
        /\ made' = made \union {s}
        /\ storage' = s
        /\ Return(p, NewPool(p))
        /\ UNCHANGED <<closed, failed, calls>>

LookupFound(p) ==
    /\ At(p, "lookup")
    /\ PoolOf(sav[p], db[p]) # NoPool
    /\ Return(p, PoolOf(sav[p], db[p]))
    /\ UNCHANGED <<sharedVars, calls>>

LookupMissing(p) ==
    /\ At(p, "lookup")
    /\ PoolOf(sav[p], db[p]) = NoPool
    /\ Goto(p, "open")
    /\ UNCHANGED <<sharedVars, calls, localVars>>

(* Mutant: the structure is stored again along with its new pool.          *)
OpenNewStored(p) ==
    /\ At(p, "open")
    /\ opened' = opened + 1
    /\ StorePool(sav[p], db[p], NewPool(p))
    /\ storage' = sav[p]
    /\ Return(p, NewPool(p))
    /\ UNCHANGED <<made, closed, failed, calls>>

OpenNew(p) ==
    /\ At(p, "open")
    /\ opened' = opened + 1
    /\ StorePool(sav[p], db[p], NewPool(p))
    /\ Return(p, NewPool(p))
    /\ UNCHANGED <<storage, made, closed, failed, calls>>

OpenFails(p) ==
    /\ pc[p] \in {"fresh", "open"}
    /\ Return(p, NoPool)
    /\ UNCHANGED <<sharedVars, calls>>

-----------------------------------------------------------------------------
(* CloseAllSavedPoolsForName.  Called by getOrOpenPool it returns to the   *)
(* lookup, called by the engine configuration controller to that one.      *)

Nested(p) == sav[p] # NoSaved

AllClosed(p) ==
    IF Nested(p)
    THEN Goto(p, "lookup") /\ UNCHANGED localVars
    ELSE Return(p, NoPool)

LoadAllNothing(p) ==
    /\ At(p, "loadAll")
    /\ storage = NoSaved
    /\ AllClosed(p)
    /\ UNCHANGED <<sharedVars, calls>>

LoadAllSaved(p) ==
    /\ At(p, "loadAll")
    /\ storage # NoSaved
    /\ ps' = [ps EXCEPT ![p] = storage]
    /\ due' = [due EXCEPT ![p] = {d \in Databases : PoolOf(storage, d) # NoPool}]
    /\ Goto(p, "range")
    /\ UNCHANGED <<sharedVars, calls, db, cred, sav, keys, got>>

(* Range visits what was there when it started, and perhaps more.          *)
RangeClose(p, d) ==
    /\ At(p, "range")
    /\ d \notin keys[p]
    /\ PoolOf(ps[p], d) # NoPool
    /\ closed' = closed \union {PoolOf(ps[p], d).id}
    /\ keys' = [keys EXCEPT ![p] = @ \union {d}]
    /\ UNCHANGED <<storage, savs, made, opened, failed, calls, pc, db, cred, sav, ps, due, got>>

(* The pool whose Close returned an error is not among the keys.           *)
RangeFails(p, d) ==
    /\ CloseErrors
    /\ At(p, "range")
    /\ d \notin keys[p]
    /\ PoolOf(ps[p], d) # NoPool
    /\ PoolOf(ps[p], d).id \notin closed
    /\ closed' = closed \union {PoolOf(ps[p], d).id}
    /\ failed' = failed \union {PoolOf(ps[p], d).id}
    /\ Goto(p, "deleteKeysError")
    /\ UNCHANGED <<storage, savs, made, opened, calls, localVars>>

RangeEnd(p) ==
    /\ At(p, "range")
    /\ \A d \in due[p] \ keys[p] : PoolOf(ps[p], d) = NoPool
    /\ Goto(p, "deleteKeys")
    /\ UNCHANGED <<sharedVars, calls, localVars>>

DeleteKey(p, d) ==
    /\ pc[p] \in {"deleteKeys", "deleteKeysError"}
    /\ d \in keys[p]
    /\ StorePool(ps[p], d, NoPool)
    /\ keys' = [keys EXCEPT ![p] = @ \ {d}]
    /\ UNCHANGED <<storage, made, opened, closed, failed, calls, pc, db, cred, sav, ps, due, got>>

DeleteName(p) ==
    /\ At(p, "deleteKeys")
    /\ keys[p] = {}
    /\ storage' = NoSaved
    /\ AllClosed(p)
    /\ UNCHANGED <<savs, made, opened, closed, failed, calls>>

CloseAllError(p) ==
    /\ At(p, "deleteKeysError")
    /\ keys[p] = {}
    /\ Return(p, NoPool)
    /\ UNCHANGED <<sharedVars, calls>>

-----------------------------------------------------------------------------
(* CloseDatabaseSavedPoolsForName                                          *)

LoadOneNothing(p) ==
    /\ \/ At(p, "loadOne") /\ storage = NoSaved
       \/ At(p, "loadPool") /\ PoolOf(ps[p], db[p]) = NoPool
    /\ Return(p, NoPool)
    /\ UNCHANGED <<sharedVars, calls>>

LoadOneSaved(p) ==
    /\ At(p, "loadOne")
    /\ storage # NoSaved
    /\ ps' = [ps EXCEPT ![p] = storage]
    /\ Goto(p, "loadPool")
    /\ UNCHANGED <<sharedVars, calls, db, cred, sav, due, keys, got>>

LoadOnePool(p) ==
    /\ At(p, "loadPool")
    /\ PoolOf(ps[p], db[p]) # NoPool
    /\ got' = [got EXCEPT ![p] = PoolOf(ps[p], db[p])]
    /\ Goto(p, "close")
    /\ UNCHANGED <<sharedVars, calls, db, cred, sav, ps, due, keys>>

CloseOne(p) ==
    /\ At(p, "close")
    /\ closed' = closed \union {got[p].id}
    /\ Goto(p, "deleteOne")
    /\ UNCHANGED <<storage, savs, made, opened, failed, calls, localVars>>

CloseOneFails(p) ==
    /\ CloseErrors
    /\ At(p, "close")
    /\ got[p].id \notin closed
    /\ closed' = closed \union {got[p].id}
    /\ failed' = failed \union {got[p].id}
    /\ Return(p, NoPool)
    /\ UNCHANGED <<storage, savs, made, opened, calls>>

(* Mutant: the closed pool stays in the map.                               *)
DeleteOneNot(p) ==
    /\ At(p, "deleteOne")
    /\ Return(p, NoPool)
    /\ UNCHANGED <<sharedVars, calls>>

DeleteOne(p) ==
    /\ At(p, "deleteOne")
    /\ StorePool(ps[p], db[p], NoPool)
    /\ Return(p, NoPool)
    /\ UNCHANGED <<storage, made, opened, closed, failed, calls>>

-----------------------------------------------------------------------------
GetOrOpenPool(p) ==
    \/ LoadNothing(p)
    \/ LoadSaved(p)
    \/ Fresh(p)
    \/ LookupFound(p)
    \/ LookupMissing(p)
    \/ OpenNew(p)
    \/ OpenFails(p)

CloseAllSavedPools(p) ==
    \/ LoadAllNothing(p)
    \/ LoadAllSaved(p)
    \/ \E d \in Databases : RangeClose(p, d)
    \/ \E d \in Databases : RangeFails(p, d)
    \/ RangeEnd(p)
    \/ \E d \in Databases : DeleteKey(p, d)
    \/ DeleteName(p)
    \/ CloseAllError(p)

CloseDatabaseSavedPools(p) ==
    \/ LoadOneNothing(p)
    \/ LoadOneSaved(p)
    \/ LoadOnePool(p)
    \/ CloseOne(p)
    \/ CloseOneFails(p)
    \/ DeleteOne(p)

AllIdle == \A p \in Procs : pc[p] = "idle"

(* Only the bound on the calls ends a behaviour.                           *)
Finished == AllIdle /\ calls = MaxCalls /\ UNCHANGED vars

Next ==
    \/ \E p \in Procs :
         \/ \E d \in Databases, c \in Credentials, position \in {"load", "loadAll", "loadOne"} :
              Call(p, d, c, position)
         \/ GetOrOpenPool(p)
         \/ CloseAllSavedPools(p)
         \/ CloseDatabaseSavedPools(p)
    \/ Finished

Spec == Init /\ [][Next]_vars

-----------------------------------------------------------------------------
Positions == {"idle", "load", "fresh", "lookup", "open", "loadAll", "range",
              "deleteKeys", "deleteKeysError", "loadOne", "loadPool", "close",
              "deleteOne"}

(* Every variable keeps its type, and a goroutine that works on a          *)
(* structure or on a pool has one.                                         *)
TypeOK ==
    /\ storage \in made \union {NoSaved}
    /\ savs \in [Saved -> SavedValues]
    /\ made \subseteq Saved
    /\ opened \in Nat
    /\ closed \subseteq Nat
    /\ calls \in Nat
    /\ pc \in [Procs -> Positions]
    /\ db \in [Procs -> Databases]
    /\ cred \in [Procs -> Credentials]
    /\ sav \in [Procs -> made \union {NoSaved}]
    /\ ps \in [Procs -> made \union {NoSaved}]
    /\ due \in [Procs -> SUBSET Databases]
    /\ keys \in [Procs -> SUBSET Databases]
    /\ got \in [Procs -> Pools \union {NoPool}]
    /\ \A p \in Procs :
         /\ pc[p] \in {"lookup", "open"} => sav[p] # NoSaved
         /\ pc[p] \in {"range", "deleteKeys", "deleteKeysError", "loadPool", "deleteOne"}
              => ps[p] # NoSaved
         /\ pc[p] = "close" => got[p] # NoPool /\ ps[p] # NoSaved

(* The pools a caller can reach from the storage were opened with the      *)
(* credentials of the structure they are in: a caller whose credentials    *)
(* match that structure, when it loads it, finds none of another's.        *)
ReachableMatch ==
    storage # NoSaved =>
        \A d \in Databases :
            PoolOf(storage, d) # NoPool => PoolOf(storage, d).cred = savs[storage].cred

(* A structure reached from the storage is either made for the credentials *)
(* of the call that will store a pool in it, or no longer in the storage.  *)
StoresMatch ==
    \A p \in Procs :
        (pc[p] \in {"lookup", "open"} /\ sav[p] = storage) =>
            savs[sav[p]].cred = cred[p]

(* Once every call has returned, no closed pool is left for the next ones, *)
(* but for those whose Close returned an error.                            *)
NoClosedPoolServed ==
    (AllIdle /\ storage # NoSaved) =>
        \A d \in Databases :
            PoolOf(storage, d) # NoPool => PoolOf(storage, d).id \notin closed \ failed

Reachable(pool) == storage # NoSaved /\ \E d \in Databases : PoolOf(storage, d) = pool

(* Once every call has returned, the pools that are still open are those   *)
(* the storage leads to, the only ones a later call can close.             *)
NoLeakedPool ==
    AllIdle => \A i \in 0..(opened - 1) :
                 i \in closed \/ \E c \in Credentials : Reachable([id |-> i, cred |-> c])

(* A call gets a pool that was opened with its own credentials.            *)
OwnCredentials ==
    \A p \in Procs : (pc[p] = "idle" /\ got[p] # NoPool) => got[p].cred = cred[p]

-----------------------------------------------------------------------------
(* The cache that the storage leads to.                                    *)
CachedCredentials == IF storage = NoSaved THEN AnyCredentials ELSE savs[storage].cred
CachedPools == IF storage = NoSaved THEN NoPools ELSE savs[storage].pools

Cache == INSTANCE PoolCache WITH cred <- CachedCredentials, pools <- CachedPools

(* Whatever the order in which the goroutines go on, the storage leads to  *)
(* a cache of one pair of credentials, in which no pool comes back.        *)
ImplementsCache == Cache!Spec
=============================================================================
