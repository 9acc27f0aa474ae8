------------------------- MODULE PoolManagerProofs -------------------------
(***************************************************************************)
(* Proofs about PoolManager, for any number of goroutines, databases and   *)
(* credentials, with or without errors of Close.                           *)
(*                                                                         *)
(* ReachableMatch alone is not inductive: a goroutine that looked a        *)
(* structure up earlier may store a pool in it now.  StoresMatch says why  *)
(* that is harmless: it either belongs to the credentials the structure    *)
(* was made for, or the structure has left the storage, where it cannot    *)
(* come back since a new name entry is always a new structure.             *)
(***************************************************************************)
EXTENDS PoolManager, TLAPS

IInv == TypeOK /\ StoresMatch /\ ReachableMatch

USE NoSavedAssumption, NoPoolAssumption, NotEmptyAssumption, BoundsAssumption

(* Storing a pool changes that one entry and no credentials.               *)
LEMMA StorePoolChangesOneEntry ==
    ASSUME savs \in [Saved -> SavedValues],
           NEW s \in Saved, NEW d \in Databases, NEW pool \in Pools \union {NoPool},
           StorePool(s, d, pool)
    PROVE  /\ savs' \in [Saved -> SavedValues]
           /\ \A t \in Saved : savs'[t].cred = savs[t].cred
           /\ \A t \in Saved, e \in Databases :
                savs'[t].pools[e] = IF t = s /\ e = d THEN pool ELSE savs[t].pools[e]
BY DEF StorePool, SavedValues

(* The pool a goroutine would open is a pool.                              *)
LEMMA NewPoolType ==
    ASSUME TypeOK, NEW p \in Procs
    PROVE  NewPool(p) \in Pools
BY DEF TypeOK, NewPool, Pools

(* What a lookup finds is a pool or nothing.                               *)
LEMMA PoolOfType ==
    ASSUME TypeOK, NEW s \in Saved, NEW d \in Databases
    PROVE  PoolOf(s, d) \in Pools \union {NoPool}
BY DEF TypeOK, PoolOf, SavedValues

LEMMA InitHolds == Init => IInv
<1> SUFFICES ASSUME Init PROVE IInv
  OBVIOUS
<1>1. AnyCredentials \in Credentials /\ AnyDatabase \in Databases
  BY DEF AnyCredentials, AnyDatabase
<1>2. NoPools \in [Databases -> Pools \union {NoPool}]
  BY DEF NoPools
<1>3. TypeOK
  BY <1>1, <1>2 DEF Init, TypeOK, SavedValues, Positions
<1>4. StoresMatch /\ ReachableMatch
  BY DEF Init, StoresMatch, ReachableMatch
<1> QED BY <1>3, <1>4 DEF IInv

(* Ending a call keeps the types, whatever happens to the shared part.     *)
LEMMA ReturnType ==
    ASSUME TypeOK, NEW p \in Procs, NEW pool \in Pools \union {NoPool},
           Return(p, pool), UNCHANGED calls,
           made \subseteq made', made' \subseteq Saved,
           storage' \in made' \union {NoSaved},
           savs' \in [Saved -> SavedValues],
           opened' \in Nat, closed' \subseteq Nat
    PROVE  TypeOK'
BY DEF TypeOK, Return, Goto, Positions

LEMMA GetOrOpenPoolType ==
    ASSUME TypeOK, NEW p \in Procs, GetOrOpenPool(p)
    PROVE  TypeOK'
<1>1. CASE LoadNothing(p)
  BY <1>1 DEF LoadNothing, TypeOK, Goto, Positions, sharedVars, localVars
<1>2. CASE LoadSaved(p)
  BY <1>2 DEF LoadSaved, TypeOK, Goto, Positions, sharedVars
<1>3. CASE Fresh(p)
  <2> DEFINE s == CHOOSE s \in Saved \ made : TRUE
  <2>1. s \in Saved \ made
    BY <1>3 DEF Fresh
  <2>2. NewPool(p) \in Pools
    BY NewPoolType
  <2>3. /\ cred[p] \in Credentials
        /\ [NoPools EXCEPT ![db[p]] = NewPool(p)] \in [Databases -> Pools \union {NoPool}]
    BY <2>2 DEF TypeOK, NoPools
  <2>4. savs' \in [Saved -> SavedValues]
    BY <1>3, <2>3 DEF Fresh, TypeOK, SavedValues
  <2> QED
    BY <1>3, <2>1, <2>2, <2>4, ReturnType DEF Fresh, TypeOK
<1>4. CASE LookupFound(p)
  <2>1. sav[p] \in Saved /\ db[p] \in Databases
    BY <1>4 DEF LookupFound, At, TypeOK
  <2> QED
    BY <1>4, <2>1, PoolOfType, ReturnType DEF LookupFound, sharedVars, TypeOK
<1>5. CASE LookupMissing(p)
  BY <1>5 DEF LookupMissing, At, TypeOK, Goto, Positions, sharedVars, localVars
<1>6. CASE OpenNew(p)
  <2>1. sav[p] \in Saved /\ db[p] \in Databases /\ NewPool(p) \in Pools
    BY <1>6, NewPoolType DEF OpenNew, At, TypeOK
  <2>2. savs' \in [Saved -> SavedValues]
    BY <1>6, <2>1, StorePoolChangesOneEntry DEF OpenNew, TypeOK
  <2> QED
    BY <1>6, <2>1, <2>2, ReturnType DEF OpenNew, TypeOK
<1>7. CASE OpenFails(p)
  BY <1>7, ReturnType DEF OpenFails, sharedVars, TypeOK
<1> QED BY <1>1, <1>2, <1>3, <1>4, <1>5, <1>6, <1>7 DEF GetOrOpenPool

LEMMA AllClosedType ==
    ASSUME TypeOK, NEW p \in Procs, AllClosed(p), UNCHANGED <<savs, made, opened, closed, calls>>,
           storage' \in {storage, NoSaved}
    PROVE  TypeOK'
<1>1. CASE Nested(p)
  BY <1>1 DEF AllClosed, Nested, TypeOK, Goto, Positions, localVars
<1>2. CASE ~Nested(p)
  BY <1>2, ReturnType DEF AllClosed, TypeOK
<1> QED BY <1>1, <1>2

LEMMA CloseAllSavedPoolsType ==
    ASSUME TypeOK, NEW p \in Procs, CloseAllSavedPools(p)
    PROVE  TypeOK'
<1>1. CASE LoadAllNothing(p)
  BY <1>1, AllClosedType DEF LoadAllNothing, sharedVars
<1>2. CASE LoadAllSaved(p)
  BY <1>2 DEF LoadAllSaved, TypeOK, Goto, Positions, sharedVars
<1>3. ASSUME NEW d \in Databases, At(p, "range"), PoolOf(ps[p], d) # NoPool
      PROVE  PoolOf(ps[p], d).id \in Nat
  <2>1. ps[p] \in Saved
    BY <1>3 DEF At, TypeOK
  <2> QED BY <1>3, <2>1, PoolOfType DEF Pools
<1>4. ASSUME NEW d \in Databases, RangeClose(p, d)
      PROVE  TypeOK'
  <2>1. PoolOf(ps[p], d).id \in Nat
    BY <1>3, <1>4 DEF RangeClose
  <2> QED BY <1>4, <2>1 DEF RangeClose, TypeOK
<1>5. ASSUME NEW d \in Databases, RangeFails(p, d)
      PROVE  TypeOK'
  <2>1. PoolOf(ps[p], d).id \in Nat
    BY <1>3, <1>5 DEF RangeFails
  <2> QED BY <1>5, <2>1 DEF RangeFails, At, TypeOK, Goto, Positions, localVars
<1>6. CASE RangeEnd(p)
  BY <1>6 DEF RangeEnd, At, TypeOK, Goto, Positions, sharedVars, localVars
<1>7. ASSUME NEW d \in Databases, DeleteKey(p, d)
      PROVE  TypeOK'
  <2>1. ps[p] \in Saved
    BY <1>7 DEF DeleteKey, TypeOK
  <2>2. savs' \in [Saved -> SavedValues]
    BY <1>7, <2>1, StorePoolChangesOneEntry DEF DeleteKey, TypeOK
  <2> QED BY <1>7, <2>2 DEF DeleteKey, TypeOK
<1>8. CASE DeleteName(p)
  BY <1>8, AllClosedType DEF DeleteName
<1>9. CASE CloseAllError(p)
  BY <1>9, ReturnType DEF CloseAllError, sharedVars, TypeOK
<1> QED BY <1>1, <1>2, <1>4, <1>5, <1>6, <1>7, <1>8, <1>9 DEF CloseAllSavedPools

LEMMA CloseDatabaseSavedPoolsType ==
    ASSUME TypeOK, NEW p \in Procs, CloseDatabaseSavedPools(p)
    PROVE  TypeOK'
<1>1. CASE LoadOneNothing(p)
  BY <1>1, ReturnType DEF LoadOneNothing, sharedVars, TypeOK
<1>2. CASE LoadOneSaved(p)
  BY <1>2 DEF LoadOneSaved, TypeOK, Goto, Positions, sharedVars
<1>3. CASE LoadOnePool(p)
  <2>1. ps[p] \in Saved /\ db[p] \in Databases
    BY <1>3 DEF LoadOnePool, At, TypeOK
  <2>2. PoolOf(ps[p], db[p]) \in Pools
    BY <1>3, <2>1, PoolOfType DEF LoadOnePool
  <2> QED BY <1>3, <2>1, <2>2 DEF LoadOnePool, At, TypeOK, Goto, Positions, sharedVars
<1>4. ASSUME At(p, "close")
      PROVE  got[p].id \in Nat
  BY <1>4 DEF At, TypeOK, Pools
<1>5. CASE CloseOne(p)
  <2>1. closed' \subseteq Nat
    BY <1>4, <1>5 DEF CloseOne, TypeOK
  <2> QED BY <1>5, <2>1 DEF CloseOne, At, TypeOK, Goto, Positions, localVars
<1>6. CASE CloseOneFails(p)
  <2>1. closed' \subseteq Nat
    BY <1>4, <1>6 DEF CloseOneFails, TypeOK
  <2> QED BY <1>6, <2>1, ReturnType DEF CloseOneFails, TypeOK
<1>7. CASE DeleteOne(p)
  <2>1. ps[p] \in Saved /\ db[p] \in Databases
    BY <1>7 DEF DeleteOne, At, TypeOK
  <2>2. savs' \in [Saved -> SavedValues]
    BY <1>7, <2>1, StorePoolChangesOneEntry DEF DeleteOne, TypeOK
  <2> QED BY <1>7, <2>2, ReturnType DEF DeleteOne, TypeOK
<1> QED BY <1>1, <1>2, <1>3, <1>5, <1>6, <1>7 DEF CloseDatabaseSavedPools

LEMMA CallType ==
    ASSUME TypeOK, NEW p \in Procs, NEW d \in Databases, NEW c \in Credentials,
           NEW position \in {"load", "loadAll", "loadOne"}, Call(p, d, c, position)
    PROVE  TypeOK'
BY DEF Call, TypeOK, Goto, Positions, sharedVars

LEMMA TypeStep == TypeOK /\ [Next]_vars => TypeOK'
<1> SUFFICES ASSUME TypeOK, [Next]_vars PROVE TypeOK'
  OBVIOUS
<1>1. ASSUME NEW p \in Procs, NEW d \in Databases, NEW c \in Credentials,
             NEW position \in {"load", "loadAll", "loadOne"}, Call(p, d, c, position)
      PROVE  TypeOK'
  BY <1>1, CallType
<1>2. ASSUME NEW p \in Procs, GetOrOpenPool(p)
      PROVE  TypeOK'
  BY <1>2, GetOrOpenPoolType
<1>3. ASSUME NEW p \in Procs, CloseAllSavedPools(p)
      PROVE  TypeOK'
  BY <1>3, CloseAllSavedPoolsType
<1>4. ASSUME NEW p \in Procs, CloseDatabaseSavedPools(p)
      PROVE  TypeOK'
  BY <1>4, CloseDatabaseSavedPoolsType
<1>5. CASE Finished
  BY <1>5 DEF Finished, vars, TypeOK
<1>6. CASE UNCHANGED vars
  BY <1>6 DEF vars, TypeOK
<1> QED BY <1>1, <1>2, <1>3, <1>4, <1>5, <1>6 DEF Next

(* The variables keep their types, and a goroutine that works on a         *)
(* structure has one.                                                      *)
THEOREM TypeCorrect == Spec => []TypeOK
<1>1. Init => TypeOK
  BY InitHolds DEF IInv
<1> QED BY <1>1, TypeStep, PTL DEF Spec

-----------------------------------------------------------------------------
(* A step that stores no pool leaves a structure of the storage, if any,   *)
(* where it was, with what it had.                                         *)
LEMMA MatchKept ==
    ASSUME TypeOK, StoresMatch, ReachableMatch,
           UNCHANGED savs, storage' \in {storage, NoSaved},
           \A q \in Procs : pc'[q] \in {"lookup", "open"} =>
              \/ pc[q] \in {"lookup", "open"} /\ sav'[q] = sav[q] /\ cred'[q] = cred[q]
              \/ sav'[q] # NoSaved /\ storage' = NoSaved
              \/ savs[sav'[q]].cred = cred'[q],
           \A q \in Procs : pc'[q] \in {"lookup", "open"} => sav'[q] # NoSaved
    PROVE  StoresMatch' /\ ReachableMatch'
<1>1. ReachableMatch'
  BY DEF ReachableMatch, PoolOf
<1>2. StoresMatch'
  BY DEF StoresMatch
<1> QED BY <1>1, <1>2

LEMMA GetOrOpenPoolMatch ==
    ASSUME IInv, NEW p \in Procs, GetOrOpenPool(p)
    PROVE  StoresMatch' /\ ReachableMatch'
<1> USE DEF IInv
<1>t. TypeOK'
  BY GetOrOpenPoolType
<1>1. CASE LoadNothing(p)
  BY <1>1, <1>t, MatchKept DEF LoadNothing, Goto, TypeOK, sharedVars, localVars
<1>2. CASE LoadSaved(p)
  BY <1>2, <1>t, MatchKept DEF LoadSaved, SameCredentials, Goto, TypeOK, sharedVars
<1>3. CASE Fresh(p)
  <2> DEFINE s == CHOOSE s \in Saved \ made : TRUE
  <2>1. s \in Saved \ made /\ storage' = s
    BY <1>3 DEF Fresh
  <2>2. savs'[s].cred = cred[p]
    BY <1>3, <2>1 DEF Fresh, TypeOK
  <2>3. /\ db[p] \in Databases
        /\ savs'[s].pools = [NoPools EXCEPT ![db[p]] = NewPool(p)]
    BY <1>3, <2>1 DEF Fresh, TypeOK
  <2>4. \A d \in Databases : savs'[s].pools[d] # NoPool => savs'[s].pools[d].cred = cred[p]
    BY <2>3 DEF NoPools, NewPool
  <2>5. ReachableMatch'
    BY <2>1, <2>2, <2>4 DEF ReachableMatch, PoolOf
  <2>6. \A q \in Procs : pc'[q] \in {"lookup", "open"} => sav'[q] # s
    BY <1>3, <2>1 DEF Fresh, Return, Goto, TypeOK
  <2> QED
    BY <2>1, <2>5, <2>6 DEF StoresMatch
<1>4. CASE LookupFound(p)
  BY <1>4, <1>t, MatchKept DEF LookupFound, Return, Goto, TypeOK, sharedVars
<1>5. CASE LookupMissing(p)
  BY <1>5, <1>t, MatchKept DEF LookupMissing, At, Goto, TypeOK, sharedVars, localVars
<1>6. CASE OpenNew(p)
  <2>1. sav[p] \in Saved /\ db[p] \in Databases /\ NewPool(p) \in Pools
    BY <1>6, NewPoolType DEF OpenNew, At, TypeOK
  <2>2. /\ \A t \in Saved : savs'[t].cred = savs[t].cred
        /\ \A t \in Saved, e \in Databases :
             savs'[t].pools[e] = IF t = sav[p] /\ e = db[p] THEN NewPool(p)
                                 ELSE savs[t].pools[e]
    BY <1>6, <2>1, StorePoolChangesOneEntry DEF OpenNew, TypeOK
  <2>3. sav[p] = storage => savs[storage].cred = cred[p]
    BY <1>6 DEF OpenNew, At, StoresMatch
  <2>4. storage \in Saved \union {NoSaved} /\ storage' = storage
    BY <1>6 DEF OpenNew, TypeOK
  <2>5. ReachableMatch'
    BY <2>2, <2>3, <2>4 DEF ReachableMatch, PoolOf, NewPool
  <2>6. \A q \in Procs : pc'[q] \in {"lookup", "open"} =>
           pc[q] \in {"lookup", "open"} /\ sav'[q] = sav[q] /\ cred'[q] = cred[q]
                                      /\ sav[q] \in Saved
    BY <1>6 DEF OpenNew, Return, Goto, TypeOK
  <2>7. StoresMatch'
    BY <2>2, <2>4, <2>6 DEF StoresMatch
  <2> QED BY <2>5, <2>7
<1>7. CASE OpenFails(p)
  BY <1>7, <1>t, MatchKept DEF OpenFails, Return, Goto, TypeOK, sharedVars
<1> QED BY <1>1, <1>2, <1>3, <1>4, <1>5, <1>6, <1>7 DEF GetOrOpenPool

(* Emptying an entry leaves the credentials of the others.                 *)
LEMMA MatchKeptByDelete ==
    ASSUME TypeOK, StoresMatch, ReachableMatch, UNCHANGED storage,
           NEW s \in Saved, NEW d \in Databases, StorePool(s, d, NoPool),
           \A q \in Procs : pc'[q] \in {"lookup", "open"} =>
              pc[q] \in {"lookup", "open"} /\ sav'[q] = sav[q] /\ cred'[q] = cred[q]
    PROVE  StoresMatch' /\ ReachableMatch'
<1>1. /\ \A t \in Saved : savs'[t].cred = savs[t].cred
      /\ \A t \in Saved, e \in Databases :
           savs'[t].pools[e] = IF t = s /\ e = d THEN NoPool ELSE savs[t].pools[e]
  BY StorePoolChangesOneEntry DEF TypeOK
<1>2. ReachableMatch'
  BY <1>1 DEF ReachableMatch, PoolOf, TypeOK
<1>3. StoresMatch'
  BY <1>1 DEF StoresMatch, TypeOK
<1> QED BY <1>2, <1>3

LEMMA CloseAllSavedPoolsMatch ==
    ASSUME IInv, NEW p \in Procs, CloseAllSavedPools(p)
    PROVE  StoresMatch' /\ ReachableMatch'
<1> USE DEF IInv
<1>t. TypeOK'
  BY CloseAllSavedPoolsType
<1>1. CASE LoadAllNothing(p)
  BY <1>1, <1>t, MatchKept
  DEF LoadAllNothing, AllClosed, Nested, Return, Goto, TypeOK, sharedVars, localVars
<1>2. CASE LoadAllSaved(p)
  BY <1>2, <1>t, MatchKept DEF LoadAllSaved, Goto, TypeOK, sharedVars
<1>3. ASSUME NEW d \in Databases, RangeClose(p, d)
      PROVE  StoresMatch' /\ ReachableMatch'
  BY <1>3, <1>t, MatchKept DEF RangeClose, TypeOK
<1>4. ASSUME NEW d \in Databases, RangeFails(p, d)
      PROVE  StoresMatch' /\ ReachableMatch'
  BY <1>4, <1>t, MatchKept DEF RangeFails, Goto, TypeOK, localVars
<1>5. CASE RangeEnd(p)
  BY <1>5, <1>t, MatchKept DEF RangeEnd, Goto, TypeOK, sharedVars, localVars
<1>6. ASSUME NEW d \in Databases, DeleteKey(p, d)
      PROVE  StoresMatch' /\ ReachableMatch'
  <2>1. ps[p] \in Saved
    BY <1>6 DEF DeleteKey, TypeOK
  <2> QED BY <1>6, <2>1, MatchKeptByDelete DEF DeleteKey
<1>7. CASE DeleteName(p)
  BY <1>7, <1>t, MatchKept
  DEF DeleteName, AllClosed, Nested, Return, Goto, TypeOK, localVars
<1>8. CASE CloseAllError(p)
  BY <1>8, <1>t, MatchKept DEF CloseAllError, Return, Goto, TypeOK, sharedVars
<1> QED BY <1>1, <1>2, <1>3, <1>4, <1>5, <1>6, <1>7, <1>8 DEF CloseAllSavedPools

LEMMA CloseDatabaseSavedPoolsMatch ==
    ASSUME IInv, NEW p \in Procs, CloseDatabaseSavedPools(p)
    PROVE  StoresMatch' /\ ReachableMatch'
<1> USE DEF IInv
<1>t. TypeOK'
  BY CloseDatabaseSavedPoolsType
<1>1. CASE LoadOneNothing(p)
  BY <1>1, <1>t, MatchKept DEF LoadOneNothing, Return, Goto, TypeOK, sharedVars
<1>2. CASE LoadOneSaved(p)
  BY <1>2, <1>t, MatchKept DEF LoadOneSaved, Goto, TypeOK, sharedVars
<1>3. CASE LoadOnePool(p)
  BY <1>3, <1>t, MatchKept DEF LoadOnePool, Goto, TypeOK, sharedVars
<1>4. CASE CloseOne(p)
  BY <1>4, <1>t, MatchKept DEF CloseOne, Goto, TypeOK, localVars
<1>5. CASE CloseOneFails(p)
  BY <1>5, <1>t, MatchKept DEF CloseOneFails, Return, Goto, TypeOK
<1>6. CASE DeleteOne(p)
  <2>1. ps[p] \in Saved /\ db[p] \in Databases
    BY <1>6 DEF DeleteOne, At, TypeOK
  <2>2. \A q \in Procs : pc'[q] \in {"lookup", "open"} =>
           pc[q] \in {"lookup", "open"} /\ sav'[q] = sav[q] /\ cred'[q] = cred[q]
    BY <1>6 DEF DeleteOne, Return, Goto, TypeOK
  <2> QED BY <1>6, <2>1, <2>2, MatchKeptByDelete DEF DeleteOne
<1> QED BY <1>1, <1>2, <1>3, <1>4, <1>5, <1>6 DEF CloseDatabaseSavedPools

LEMMA MatchStep == IInv /\ [Next]_vars => IInv'
<1> SUFFICES ASSUME IInv, [Next]_vars PROVE StoresMatch' /\ ReachableMatch'
  BY TypeStep DEF IInv
<1> USE DEF IInv
<1>t. TypeOK'
  BY TypeStep
<1>1. ASSUME NEW p \in Procs, NEW d \in Databases, NEW c \in Credentials,
             NEW position \in {"load", "loadAll", "loadOne"}, Call(p, d, c, position)
      PROVE  StoresMatch' /\ ReachableMatch'
  BY <1>1, <1>t, MatchKept DEF Call, Goto, TypeOK, sharedVars
<1>2. ASSUME NEW p \in Procs, GetOrOpenPool(p)
      PROVE  StoresMatch' /\ ReachableMatch'
  BY <1>2, GetOrOpenPoolMatch
<1>3. ASSUME NEW p \in Procs, CloseAllSavedPools(p)
      PROVE  StoresMatch' /\ ReachableMatch'
  BY <1>3, CloseAllSavedPoolsMatch
<1>4. ASSUME NEW p \in Procs, CloseDatabaseSavedPools(p)
      PROVE  StoresMatch' /\ ReachableMatch'
  BY <1>4, CloseDatabaseSavedPoolsMatch
<1>5. CASE UNCHANGED vars
  BY <1>5 DEF vars, StoresMatch, ReachableMatch, PoolOf
<1>6. CASE Finished
  BY <1>5, <1>6 DEF Finished
<1> QED BY <1>1, <1>2, <1>3, <1>4, <1>5, <1>6 DEF Next

(* Whatever the interleaving of lookups, credential changes and closings,  *)
(* the pools the storage leads to belong to the credentials of the         *)
(* structure they are in.                                                  *)
THEOREM ReachablePoolsMatch == Spec => []ReachableMatch
<1>1. IInv => ReachableMatch
  BY DEF IInv
<1> QED BY InitHolds, MatchStep, <1>1, PTL DEF Spec

-----------------------------------------------------------------------------
(* No closed pool is left in the storage.  A pool is closed before its     *)
(* entry goes, so the invariant says who will still remove the entry of a  *)
(* closed pool; for that a pool must be in one place only, also the pool a *)
(* goroutine took out of the map before it closes it.                      *)

PoolIn(s, d) == PoolOf(s, d) # NoPool

Numbered ==
    /\ \A s \in Saved, d \in Databases : PoolIn(s, d) => PoolOf(s, d).id < opened
    /\ \A i \in closed : i < opened
    /\ \A p \in Procs : pc[p] = "close" => got[p].id < opened

OnePlace ==
    \A s, t \in Saved, d, e \in Databases :
        (PoolIn(s, d) /\ PoolIn(t, e) /\ PoolOf(s, d).id = PoolOf(t, e).id) => s = t /\ d = e

HeldPlace ==
    \A p \in Procs, s \in Saved, d \in Databases :
        (pc[p] = "close" /\ PoolIn(s, d) /\ PoolOf(s, d).id = got[p].id)
          => s = ps[p] /\ d = db[p]

InCharge(p, s, d) ==
    /\ ps[p] = s
    /\ \/ pc[p] \in {"range", "deleteKeys"} /\ d \in keys[p]
       \/ pc[p] = "deleteOne" /\ db[p] = d

ClosedInCharge ==
    \A s \in Saved, d \in Databases :
        (PoolIn(s, d) /\ PoolOf(s, d).id \in closed) => \E p \in Procs : InCharge(p, s, d)

CInv == TypeOK /\ Numbered /\ OnePlace /\ HeldPlace /\ ClosedInCharge

(* A step that touches no pool, and drops no charge, keeps the invariant.  *)
LEMMA ClosedKept ==
    ASSUME CInv, TypeOK', UNCHANGED <<savs, opened, closed>>,
           \A q \in Procs : pc'[q] = "close" =>
              pc[q] = "close" /\ got'[q] = got[q] /\ ps'[q] = ps[q] /\ db'[q] = db[q],
           \A q \in Procs, s \in Saved, d \in Databases :
              InCharge(q, s, d) => InCharge(q, s, d)'
    PROVE  CInv'
<1>1. \A s \in Saved, d \in Databases : PoolOf(s, d)' = PoolOf(s, d)
  BY DEF PoolOf
<1>2. Numbered' /\ OnePlace' /\ HeldPlace' /\ ClosedInCharge'
  BY <1>1 DEF CInv, Numbered, OnePlace, HeldPlace, ClosedInCharge, PoolIn
<1> QED BY <1>2 DEF CInv

(* A pool put in an entry is a new one: its number was not used before.    *)
LEMMA ClosedKeptByOpen ==
    ASSUME CInv, TypeOK', NEW r \in Saved, NEW c \in Databases,
           opened' = opened + 1, UNCHANGED closed,
           PoolOf(r, c)'.id = opened,
           \A s \in Saved, d \in Databases :
              PoolOf(s, d)' = PoolOf(s, d) \/ PoolOf(s, d)' = NoPool \/ (s = r /\ d = c),
           \A q \in Procs : pc'[q] = "close" =>
              pc[q] = "close" /\ got'[q] = got[q] /\ ps'[q] = ps[q] /\ db'[q] = db[q],
           \A q \in Procs, s \in Saved, d \in Databases :
              InCharge(q, s, d) => InCharge(q, s, d)'
    PROVE  CInv'
<1> USE DEF CInv, PoolIn
<1>1. opened \in Nat /\ \A i \in closed : i < opened
  BY DEF TypeOK, Numbered
<1>2. \A s \in Saved, d \in Databases :
         PoolIn(s, d)' /\ ~(s = r /\ d = c) =>
            PoolIn(s, d) /\ PoolOf(s, d)' = PoolOf(s, d)
  OBVIOUS
<1>p. \A s \in Saved, d \in Databases : PoolIn(s, d) => PoolOf(s, d).id \in Nat
  BY PoolOfType DEF Pools
<1>g. \A q \in Procs : pc[q] = "close" => got[q].id \in Nat
  BY DEF TypeOK, Pools
<1>n. \A i \in closed : i \in Nat
  BY DEF TypeOK
<1>3. Numbered'
  BY <1>1, <1>2, <1>p, <1>g, <1>n DEF Numbered
<1>4. OnePlace'
  BY <1>1, <1>2, <1>p DEF OnePlace, Numbered
<1>5. HeldPlace'
  BY <1>1, <1>2, <1>g DEF HeldPlace, Numbered
<1>6. ClosedInCharge'
  BY <1>1, <1>2 DEF ClosedInCharge
<1> QED BY <1>3, <1>4, <1>5, <1>6

(* An entry that is emptied needs nobody in charge of it any more.         *)
LEMMA ClosedKeptByDelete ==
    ASSUME CInv, TypeOK', NEW r \in Saved, NEW c \in Databases,
           UNCHANGED <<opened, closed>>, StorePool(r, c, NoPool),
           \A q \in Procs : pc'[q] = "close" =>
              pc[q] = "close" /\ got'[q] = got[q] /\ ps'[q] = ps[q] /\ db'[q] = db[q],
           \A q \in Procs, s \in Saved, d \in Databases :
              InCharge(q, s, d) /\ ~(s = r /\ d = c) => InCharge(q, s, d)'
    PROVE  CInv'
<1> USE DEF CInv, PoolIn
<1>1. \A s \in Saved, d \in Databases :
         PoolOf(s, d)' = IF s = r /\ d = c THEN NoPool ELSE PoolOf(s, d)
  BY StorePoolChangesOneEntry DEF TypeOK, PoolOf
<1>2. Numbered' /\ OnePlace' /\ HeldPlace'
  BY <1>1 DEF Numbered, OnePlace, HeldPlace
<1>3. ClosedInCharge'
  BY <1>1 DEF ClosedInCharge
<1> QED BY <1>2, <1>3

LEMMA GetOrOpenPoolClosed ==
    ASSUME CInv, NEW p \in Procs, GetOrOpenPool(p)
    PROVE  CInv'
<1> USE DEF CInv
<1>t. TypeOK'
  BY GetOrOpenPoolType
<1>1. CASE LoadNothing(p)
  BY <1>1, <1>t, ClosedKept
  DEF LoadNothing, At, InCharge, Goto, TypeOK, sharedVars, localVars
<1>2. CASE LoadSaved(p)
  BY <1>2, <1>t, ClosedKept DEF LoadSaved, At, InCharge, Goto, TypeOK, sharedVars
<1>3. CASE Fresh(p)
  <2>1. PICK r \in Saved, c \in Databases :
           r = (CHOOSE s \in Saved \ made : TRUE) /\ c = db[p]
    BY <1>3 DEF Fresh, TypeOK
  <2>2. \A t \in Saved, d \in Databases : t # r => PoolOf(t, d)' = PoolOf(t, d)
    BY <1>3, <2>1 DEF Fresh, PoolOf, TypeOK
  <2>3. savs'[r].pools = [NoPools EXCEPT ![c] = NewPool(p)]
    BY <1>3, <2>1 DEF Fresh, TypeOK
  <2>4. \A d \in Databases : PoolOf(r, d)' = IF d = c THEN NewPool(p) ELSE NoPool
    BY <2>1, <2>3 DEF PoolOf, NoPools
  <2>5. PoolOf(r, c)'.id = opened
    BY <2>1, <2>4 DEF NewPool
  <2>6. \A q \in Procs : pc'[q] = "close" =>
           pc[q] = "close" /\ got'[q] = got[q] /\ ps'[q] = ps[q] /\ db'[q] = db[q]
    BY <1>3 DEF Fresh, Return, Goto, TypeOK
  <2>7. \A q \in Procs, t \in Saved, d \in Databases :
           InCharge(q, t, d) => InCharge(q, t, d)'
    BY <1>3 DEF Fresh, At, Return, Goto, InCharge, TypeOK
  <2>8. opened' = opened + 1 /\ closed' = closed
    BY <1>3 DEF Fresh
  <2> QED
    BY <1>t, <2>2, <2>4, <2>5, <2>6, <2>7, <2>8, ClosedKeptByOpen
<1>4. CASE LookupFound(p)
  BY <1>4, <1>t, ClosedKept DEF LookupFound, At, InCharge, Return, Goto, TypeOK, sharedVars
<1>5. CASE LookupMissing(p)
  BY <1>5, <1>t, ClosedKept
  DEF LookupMissing, At, InCharge, Goto, TypeOK, sharedVars, localVars
<1>6. CASE OpenNew(p)
  <2>1. sav[p] \in Saved /\ db[p] \in Databases /\ NewPool(p) \in Pools
    BY <1>6, NewPoolType DEF OpenNew, At, TypeOK
  <2>2. \A t \in Saved, d \in Databases :
           PoolOf(t, d)' = IF t = sav[p] /\ d = db[p] THEN NewPool(p) ELSE PoolOf(t, d)
    BY <1>6, <2>1, StorePoolChangesOneEntry DEF OpenNew, TypeOK, PoolOf
  <2>4. \A q \in Procs : pc'[q] = "close" =>
           pc[q] = "close" /\ got'[q] = got[q] /\ ps'[q] = ps[q] /\ db'[q] = db[q]
    BY <1>6 DEF OpenNew, Return, Goto, TypeOK
  <2>5. \A q \in Procs, t \in Saved, d \in Databases :
           InCharge(q, t, d) => InCharge(q, t, d)'
    BY <1>6 DEF OpenNew, At, Return, Goto, InCharge, TypeOK
  <2>6. opened' = opened + 1 /\ closed' = closed
    BY <1>6 DEF OpenNew
  <2>7. PICK r \in Saved, c \in Databases : r = sav[p] /\ c = db[p]
    BY <2>1
  <2>8. PoolOf(r, c)'.id = opened
    <3>1. PoolOf(r, c)' = NewPool(p)
      BY <1>6, <2>1, <2>7, StorePoolChangesOneEntry DEF OpenNew, TypeOK, PoolOf
    <3> QED BY <3>1 DEF NewPool
  <2>9. \A t \in Saved, d \in Databases :
           PoolOf(t, d)' = PoolOf(t, d) \/ PoolOf(t, d)' = NoPool \/ (t = r /\ d = c)
    BY <2>2, <2>7
  <2> QED
    BY <1>t, <2>4, <2>5, <2>6, <2>8, <2>9, ClosedKeptByOpen
<1>7. CASE OpenFails(p)
  BY <1>7, <1>t, ClosedKept DEF OpenFails, InCharge, Return, Goto, TypeOK, sharedVars
<1> QED BY <1>1, <1>2, <1>3, <1>4, <1>5, <1>6, <1>7 DEF GetOrOpenPool

LEMMA CloseAllSavedPoolsClosed ==
    ASSUME CInv, ~CloseErrors, NEW p \in Procs, CloseAllSavedPools(p)
    PROVE  CInv'
<1> USE DEF CInv
<1>t. TypeOK'
  BY CloseAllSavedPoolsType
<1>1. CASE LoadAllNothing(p)
  BY <1>1, <1>t, ClosedKept
  DEF LoadAllNothing, At, AllClosed, InCharge, Return, Goto, TypeOK, sharedVars, localVars
<1>2. CASE LoadAllSaved(p)
  BY <1>2, <1>t, ClosedKept DEF LoadAllSaved, At, InCharge, Goto, TypeOK, sharedVars
<1>3. ASSUME NEW d \in Databases, RangeClose(p, d)
      PROVE  CInv'
  <2> DEFINE i == PoolOf(ps[p], d).id
  <2>1. ps[p] \in Saved /\ PoolIn(ps[p], d) /\ pc[p] = "range"
    BY <1>3 DEF RangeClose, At, TypeOK, PoolIn
  <2>2. closed' = closed \union {i} /\ opened' = opened /\ savs' = savs
    BY <1>3 DEF RangeClose
  <2>3. \A s \in Saved, e \in Databases : PoolOf(s, e)' = PoolOf(s, e)
    BY <2>2 DEF PoolOf
  <2>4. Numbered'
    BY <1>3, <2>1, <2>2, <2>3 DEF Numbered, PoolIn, RangeClose
  <2>5. OnePlace' /\ HeldPlace'
    BY <1>3, <2>3 DEF OnePlace, HeldPlace, PoolIn, RangeClose
  <2>6. \A s \in Saved, e \in Databases : s = ps[p] /\ e = d => InCharge(p, s, e)'
    BY <1>3, <2>1 DEF InCharge, RangeClose, TypeOK
  <2>7. \A q \in Procs, s \in Saved, e \in Databases : InCharge(q, s, e) => InCharge(q, s, e)'
    BY <1>3 DEF InCharge, RangeClose, TypeOK
  <2>8. ASSUME NEW s \in Saved, NEW e \in Databases, PoolIn(s, e)', PoolOf(s, e)'.id \in closed'
        PROVE  \E q \in Procs : InCharge(q, s, e)'
    <3>1. PoolIn(s, e) /\ PoolOf(s, e).id \in closed \union {i}
      BY <2>2, <2>3, <2>8 DEF PoolIn
    <3>2. CASE PoolOf(s, e).id \in closed
      BY <2>7, <3>1, <3>2 DEF ClosedInCharge
    <3>3. CASE PoolOf(s, e).id = i
      <4>1. s = ps[p] /\ e = d
        BY <2>1, <3>1, <3>3 DEF OnePlace
      <4> QED BY <2>6, <4>1
    <3> QED BY <3>1, <3>2, <3>3
  <2>9. ClosedInCharge'
    BY <2>8 DEF ClosedInCharge
  <2> QED BY <1>t, <2>4, <2>5, <2>9
<1>4. ASSUME NEW d \in Databases, RangeFails(p, d)
      PROVE  FALSE
  BY <1>4 DEF RangeFails
<1>5. CASE RangeEnd(p)
  BY <1>5, <1>t, ClosedKept DEF RangeEnd, At, InCharge, Goto, TypeOK, sharedVars, localVars
<1>6. ASSUME NEW d \in Databases, DeleteKey(p, d)
      PROVE  CInv'
  <2>1. PICK r \in Saved : r = ps[p]
    BY <1>6 DEF DeleteKey, TypeOK
  <2>2. StorePool(r, d, NoPool) /\ UNCHANGED <<opened, closed>>
    BY <1>6, <2>1 DEF DeleteKey
  <2>3. \A q \in Procs : pc'[q] = "close" =>
           pc[q] = "close" /\ got'[q] = got[q] /\ ps'[q] = ps[q] /\ db'[q] = db[q]
    BY <1>6 DEF DeleteKey
  <2>4. \A q \in Procs, s \in Saved, e \in Databases :
           InCharge(q, s, e) /\ ~(s = r /\ e = d) => InCharge(q, s, e)'
    BY <1>6, <2>1 DEF DeleteKey, InCharge, TypeOK
  <2> QED BY <1>t, <2>2, <2>3, <2>4, ClosedKeptByDelete
<1>7. CASE DeleteName(p)
  BY <1>7, <1>t, ClosedKept
  DEF DeleteName, At, AllClosed, InCharge, Return, Goto, TypeOK, localVars
<1>8. CASE CloseAllError(p)
  BY <1>8, <1>t, ClosedKept DEF CloseAllError, At, InCharge, Return, Goto, TypeOK, sharedVars
<1> QED BY <1>1, <1>2, <1>3, <1>4, <1>5, <1>6, <1>7, <1>8 DEF CloseAllSavedPools

LEMMA CloseDatabaseSavedPoolsClosed ==
    ASSUME CInv, ~CloseErrors, NEW p \in Procs, CloseDatabaseSavedPools(p)
    PROVE  CInv'
<1> USE DEF CInv
<1>t. TypeOK'
  BY CloseDatabaseSavedPoolsType
<1>1. CASE LoadOneNothing(p)
  BY <1>1, <1>t, ClosedKept DEF LoadOneNothing, At, InCharge, Return, Goto, TypeOK, sharedVars
<1>2. CASE LoadOneSaved(p)
  BY <1>2, <1>t, ClosedKept DEF LoadOneSaved, At, InCharge, Goto, TypeOK, sharedVars
<1>3. CASE LoadOnePool(p)
  <2>1. ps[p] \in Saved /\ db[p] \in Databases /\ PoolIn(ps[p], db[p])
    BY <1>3 DEF LoadOnePool, At, TypeOK, PoolIn
  <2>2. savs' = savs /\ closed' = closed /\ opened' = opened /\ ps' = ps /\ db' = db
    BY <1>3 DEF LoadOnePool, sharedVars
  <2>3. \A s \in Saved, d \in Databases : PoolOf(s, d)' = PoolOf(s, d)
    BY <2>2 DEF PoolOf
  <2>4. \A q \in Procs : pc'[q] = "close" =>
           \/ q = p /\ got'[q] = PoolOf(ps[p], db[p])
           \/ pc[q] = "close" /\ got'[q] = got[q]
    BY <1>3 DEF LoadOnePool, Goto, TypeOK
  <2>5. Numbered'
    BY <2>1, <2>2, <2>3, <2>4 DEF Numbered, PoolIn
  <2>6. OnePlace'
    BY <2>3 DEF OnePlace, PoolIn
  <2>7. HeldPlace'
    BY <2>1, <2>2, <2>3, <2>4 DEF HeldPlace, OnePlace, PoolIn
  <2>8. \A q \in Procs, s \in Saved, d \in Databases : InCharge(q, s, d) => InCharge(q, s, d)'
    BY <1>3 DEF LoadOnePool, At, InCharge, Goto, TypeOK
  <2>9. ClosedInCharge'
    BY <2>2, <2>3, <2>8 DEF ClosedInCharge, PoolIn
  <2> QED BY <1>t, <2>5, <2>6, <2>7, <2>9
<1>4. CASE CloseOne(p)
  <2>1. pc[p] = "close" /\ ps[p] \in Saved /\ db[p] \in Databases
    BY <1>4 DEF CloseOne, At, TypeOK
  <2>2. /\ closed' = closed \union {got[p].id}
        /\ savs' = savs /\ opened' = opened /\ ps' = ps /\ db' = db /\ got' = got
    BY <1>4 DEF CloseOne, localVars
  <2>3. \A s \in Saved, d \in Databases : PoolOf(s, d)' = PoolOf(s, d)
    BY <2>2 DEF PoolOf
  <2>4. \A q \in Procs : pc'[q] = "close" => pc[q] = "close"
    BY <1>4 DEF CloseOne, Goto, TypeOK
  <2>5. Numbered'
    BY <2>1, <2>2, <2>3, <2>4 DEF Numbered, PoolIn
  <2>6. OnePlace' /\ HeldPlace'
    BY <2>2, <2>3, <2>4 DEF OnePlace, HeldPlace, PoolIn
  <2>7. \A s \in Saved, d \in Databases : s = ps[p] /\ d = db[p] => InCharge(p, s, d)'
    BY <1>4, <2>1, <2>2 DEF CloseOne, Goto, InCharge, TypeOK
  <2>8. \A q \in Procs, s \in Saved, d \in Databases : InCharge(q, s, d) => InCharge(q, s, d)'
    BY <1>4, <2>1, <2>2 DEF CloseOne, Goto, InCharge, TypeOK, localVars
  <2>9. ASSUME NEW s \in Saved, NEW d \in Databases, PoolIn(s, d)', PoolOf(s, d)'.id \in closed'
        PROVE  \E q \in Procs : InCharge(q, s, d)'
    <3>1. PoolIn(s, d) /\ PoolOf(s, d).id \in closed \union {got[p].id}
      BY <2>2, <2>3, <2>9 DEF PoolIn
    <3>2. CASE PoolOf(s, d).id \in closed
      BY <2>8, <3>1, <3>2 DEF ClosedInCharge
    <3>3. CASE PoolOf(s, d).id = got[p].id
      <4>1. s = ps[p] /\ d = db[p]
        BY <2>1, <3>1, <3>3 DEF HeldPlace
      <4> QED BY <2>7, <4>1
    <3> QED BY <3>1, <3>2, <3>3
  <2>10. ClosedInCharge'
    BY <2>9 DEF ClosedInCharge
  <2> QED BY <1>t, <2>5, <2>6, <2>10
<1>5. CASE CloseOneFails(p)
  BY <1>5 DEF CloseOneFails
<1>6. CASE DeleteOne(p)
  <2>1. PICK r \in Saved, c \in Databases : r = ps[p] /\ c = db[p]
    BY <1>6 DEF DeleteOne, At, TypeOK
  <2>2. StorePool(r, c, NoPool) /\ UNCHANGED <<opened, closed>>
    BY <1>6, <2>1 DEF DeleteOne
  <2>3. \A q \in Procs : pc'[q] = "close" =>
           pc[q] = "close" /\ got'[q] = got[q] /\ ps'[q] = ps[q] /\ db'[q] = db[q]
    BY <1>6 DEF DeleteOne, Return, Goto, TypeOK
  <2>4. \A q \in Procs, s \in Saved, d \in Databases :
           InCharge(q, s, d) /\ ~(s = r /\ d = c) => InCharge(q, s, d)'
    BY <1>6, <2>1 DEF DeleteOne, At, Return, Goto, InCharge, TypeOK
  <2> QED BY <1>t, <2>2, <2>3, <2>4, ClosedKeptByDelete
<1> QED BY <1>1, <1>2, <1>3, <1>4, <1>5, <1>6 DEF CloseDatabaseSavedPools

LEMMA ClosedStep == ~CloseErrors => (CInv /\ [Next]_vars => CInv')
<1> SUFFICES ASSUME ~CloseErrors, CInv, [Next]_vars PROVE CInv'
  OBVIOUS
<1>t. TypeOK'
  BY TypeStep DEF CInv
<1>1. ASSUME NEW p \in Procs, NEW d \in Databases, NEW c \in Credentials,
             NEW position \in {"load", "loadAll", "loadOne"}, Call(p, d, c, position)
      PROVE  CInv'
  BY <1>1, <1>t, ClosedKept DEF CInv, Call, At, InCharge, Goto, TypeOK, sharedVars
<1>2. ASSUME NEW p \in Procs, GetOrOpenPool(p)
      PROVE  CInv'
  BY <1>2, GetOrOpenPoolClosed
<1>3. ASSUME NEW p \in Procs, CloseAllSavedPools(p)
      PROVE  CInv'
  BY <1>3, CloseAllSavedPoolsClosed
<1>4. ASSUME NEW p \in Procs, CloseDatabaseSavedPools(p)
      PROVE  CInv'
  BY <1>4, CloseDatabaseSavedPoolsClosed
<1>5. CASE UNCHANGED vars
  BY <1>5, <1>t, ClosedKept DEF vars, InCharge
<1>6. CASE Finished
  BY <1>5, <1>6 DEF Finished
<1> QED BY <1>1, <1>2, <1>3, <1>4, <1>5, <1>6 DEF Next

(* When Close reports no error, a caller that finds every other call       *)
(* returned is never handed a closed pool.                                 *)
THEOREM ClosedPoolsAreRemoved == ~CloseErrors => (Spec => []NoClosedPoolServed)
<1> SUFFICES ASSUME ~CloseErrors PROVE Spec => []NoClosedPoolServed
  OBVIOUS
<1>1. Init => CInv
  <2> SUFFICES ASSUME Init PROVE CInv
    OBVIOUS
  <2>1. TypeOK
    BY InitHolds DEF IInv
  <2>2. \A s \in Saved, d \in Databases : ~PoolIn(s, d)
    BY DEF Init, PoolIn, PoolOf, NoPools
  <2> QED BY <2>1, <2>2 DEF Init, CInv, Numbered, OnePlace, HeldPlace, ClosedInCharge
<1>2. CInv => NoClosedPoolServed
  <2> SUFFICES ASSUME CInv, AllIdle, storage # NoSaved, NEW d \in Databases,
                      PoolOf(storage, d) # NoPool
               PROVE  PoolOf(storage, d).id \notin closed
    BY DEF NoClosedPoolServed
  <2>1. storage \in Saved
    BY DEF CInv, TypeOK
  <2>2. \A p \in Procs : ~InCharge(p, storage, d)
    BY DEF InCharge, AllIdle
  <2> QED BY <2>1, <2>2 DEF CInv, ClosedInCharge, PoolIn
<1>3. CInv /\ [Next]_vars => CInv'
  BY ClosedStep
<1> QED BY <1>1, <1>2, <1>3, PTL DEF Spec

-----------------------------------------------------------------------------
(* The storage leads to a cache as PoolCache specifies it.                 *)

(* Nothing changes for the cache.                                          *)
LEMMA CacheKept ==
    ASSUME UNCHANGED <<storage, savs, opened>>
    PROVE  UNCHANGED Cache!cacheVars
BY DEF CachedCredentials, CachedPools, Cache!cacheVars

(* Storing a pool in a structure changes the cache only when the storage   *)
(* leads to that structure.                                                *)
LEMMA CacheStore ==
    ASSUME TypeOK, NEW s \in Saved, NEW d \in Databases, NEW pool \in Pools \union {NoPool},
           StorePool(s, d, pool), storage' = storage
    PROVE  /\ CachedCredentials' = CachedCredentials
           /\ s = storage => CachedPools' = [CachedPools EXCEPT ![d] = pool]
           /\ s # storage => CachedPools' = CachedPools
<1>1. savs'[s].pools = [savs[s].pools EXCEPT ![d] = pool]
  BY DEF StorePool, TypeOK, SavedValues
<1>2. \A t \in Saved : /\ savs'[t].cred = savs[t].cred
                       /\ t # s => savs'[t].pools = savs[t].pools
  BY DEF StorePool, TypeOK, SavedValues
<1>3. storage \in Saved \union {NoSaved}
  BY DEF TypeOK
<1> QED BY <1>1, <1>2, <1>3 DEF CachedCredentials, CachedPools

(* A pool is removed from the cache or from a structure apart.             *)
LEMMA CacheRemove ==
    ASSUME TypeOK, NEW s \in Saved, NEW d \in Databases, StorePool(s, d, NoPool),
           UNCHANGED <<storage, opened>>
    PROVE  Cache!Next \/ UNCHANGED Cache!cacheVars
<1>1. CASE s = storage
  <2>1. Cache!Remove(d)
    BY <1>1, CacheStore DEF Cache!Remove
  <2> QED BY <2>1 DEF Cache!Next
<1>2. CASE s # storage
  BY <1>2, CacheStore DEF Cache!cacheVars
<1> QED BY <1>1, <1>2

LEMMA GetOrOpenPoolCache ==
    ASSUME IInv, NEW p \in Procs, GetOrOpenPool(p)
    PROVE  Cache!Next \/ UNCHANGED Cache!cacheVars
<1> USE DEF IInv
<1>1. CASE LoadNothing(p) \/ LoadSaved(p) \/ LookupFound(p) \/ LookupMissing(p) \/ OpenFails(p)
  BY <1>1, CacheKept
  DEF LoadNothing, LoadSaved, LookupFound, LookupMissing, OpenFails, sharedVars
<1>2. CASE Fresh(p)
  <2> DEFINE s == CHOOSE s \in Saved \ made : TRUE
  <2>1. /\ s \in Saved \ made
        /\ storage' = s /\ opened' = opened + 1
        /\ savs' = [savs EXCEPT ![s] =
                      [cred |-> cred[p], pools |-> [NoPools EXCEPT ![db[p]] = NewPool(p)]]]
    BY <1>2 DEF Fresh
  <2> HIDE DEF s
  <2>2. savs'[s] = [cred |-> cred[p], pools |-> [NoPools EXCEPT ![db[p]] = NewPool(p)]]
    BY <2>1 DEF TypeOK
  <2>3. cred[p] \in Credentials /\ db[p] \in Databases
    BY DEF TypeOK
  <2>4. Cache!Renew(cred[p], db[p])
    BY <2>1, <2>2
    DEF Cache!Renew, Cache!Empty, Cache!NewPool, NewPool, NoPools, CachedCredentials, CachedPools
  <2> QED BY <2>3, <2>4 DEF Cache!Next
<1>3. CASE OpenNew(p)
  <2>1. sav[p] \in Saved /\ db[p] \in Databases /\ NewPool(p) \in Pools
    BY <1>3, NewPoolType DEF OpenNew, At, TypeOK
  <2>2. /\ StorePool(sav[p], db[p], NewPool(p)) /\ storage' = storage
        /\ opened' = opened + 1
    BY <1>3 DEF OpenNew
  <2>3. CASE sav[p] = storage
    <3>1. CachedCredentials = cred[p]
      BY <1>3, <2>1, <2>3 DEF OpenNew, At, StoresMatch, CachedCredentials
    <3>2. Cache!Add(db[p])
      BY <2>1, <2>2, <2>3, <3>1, CacheStore DEF Cache!Add, Cache!NewPool, NewPool
    <3> QED BY <2>1, <3>2 DEF Cache!Next
  <2>4. CASE sav[p] # storage
    <3>1. Cache!OpenApart
      BY <2>1, <2>2, <2>4, CacheStore DEF Cache!OpenApart
    <3> QED BY <3>1 DEF Cache!Next
  <2> QED BY <2>3, <2>4
<1> QED BY <1>1, <1>2, <1>3 DEF GetOrOpenPool

LEMMA CloseAllSavedPoolsCache ==
    ASSUME IInv, NEW p \in Procs, CloseAllSavedPools(p)
    PROVE  Cache!Next \/ UNCHANGED Cache!cacheVars
<1> USE DEF IInv
<1>1. CASE LoadAllNothing(p) \/ LoadAllSaved(p) \/ RangeEnd(p) \/ CloseAllError(p)
  BY <1>1, CacheKept DEF LoadAllNothing, LoadAllSaved, RangeEnd, CloseAllError, sharedVars
<1>2. ASSUME NEW d \in Databases, RangeClose(p, d) \/ RangeFails(p, d)
      PROVE  UNCHANGED Cache!cacheVars
  BY <1>2, CacheKept DEF RangeClose, RangeFails
<1>3. ASSUME NEW d \in Databases, DeleteKey(p, d)
      PROVE  Cache!Next \/ UNCHANGED Cache!cacheVars
  <2>1. ps[p] \in Saved
    BY <1>3 DEF DeleteKey, TypeOK
  <2> QED BY <1>3, <2>1, CacheRemove DEF DeleteKey
<1>4. CASE DeleteName(p)
  <2>1. /\ CachedCredentials' = AnyCredentials /\ CachedPools' = NoPools
        /\ AnyCredentials \in Credentials
    BY <1>4 DEF DeleteName, CachedCredentials, CachedPools, AnyCredentials
  <2>2. Cache!Clear
    BY <1>4, <2>1 DEF DeleteName, Cache!Clear, Cache!Empty, NoPools
  <2> QED BY <2>2 DEF Cache!Next
<1> QED BY <1>1, <1>2, <1>3, <1>4 DEF CloseAllSavedPools

LEMMA CloseDatabaseSavedPoolsCache ==
    ASSUME IInv, NEW p \in Procs, CloseDatabaseSavedPools(p)
    PROVE  Cache!Next \/ UNCHANGED Cache!cacheVars
<1> USE DEF IInv
<1>1. CASE \/ LoadOneNothing(p) \/ LoadOneSaved(p) \/ LoadOnePool(p)
           \/ CloseOne(p) \/ CloseOneFails(p)
  BY <1>1, CacheKept
  DEF LoadOneNothing, LoadOneSaved, LoadOnePool, CloseOne, CloseOneFails, sharedVars
<1>2. CASE DeleteOne(p)
  <2>1. ps[p] \in Saved /\ db[p] \in Databases
    BY <1>2 DEF DeleteOne, At, TypeOK
  <2> QED BY <1>2, <2>1, CacheRemove DEF DeleteOne
<1> QED BY <1>1, <1>2 DEF CloseDatabaseSavedPools

LEMMA CacheStep == IInv /\ [Next]_vars => [Cache!Next]_(Cache!cacheVars)
<1> SUFFICES ASSUME IInv, [Next]_vars
             PROVE  Cache!Next \/ UNCHANGED Cache!cacheVars
  OBVIOUS
<1>1. ASSUME NEW p \in Procs, NEW d \in Databases, NEW c \in Credentials,
             NEW position \in {"load", "loadAll", "loadOne"}, Call(p, d, c, position)
      PROVE  UNCHANGED Cache!cacheVars
  BY <1>1, CacheKept DEF Call, sharedVars
<1>2. CASE Finished \/ UNCHANGED vars
  BY <1>2, CacheKept DEF Finished, vars
<1> QED
  BY <1>1, <1>2, GetOrOpenPoolCache, CloseAllSavedPoolsCache, CloseDatabaseSavedPoolsCache
  DEF Next

(* Every interleaving of lookups, credential changes, closings and their   *)
(* errors is one of the abstract cache: it holds pools of one pair of      *)
(* credentials, gains only pools just opened with them, and a pool that    *)
(* left it never comes back.                                               *)
THEOREM RefinesCache == Spec => ImplementsCache
<1>1. Init => Cache!Init
  BY DEF Init, Cache!Init, CachedCredentials, CachedPools, Cache!Empty, NoPools, AnyCredentials
<1> QED BY <1>1, InitHolds, MatchStep, CacheStep, PTL DEF Spec, ImplementsCache, Cache!Spec
=============================================================================
