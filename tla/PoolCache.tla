----------------------------- MODULE PoolCache -----------------------------
(***************************************************************************)
(* What the pool manager promises (internal/controller/postgresql/         *)
(* postgres/pool_manager.go): a cache that at any time is empty or was     *)
(* made for one pair of credentials, and then holds at most one pool per   *)
(* database, each opened with these credentials.  A pool that left the     *)
(* cache never comes back.                                                 *)
(***************************************************************************)
EXTENDS Naturals

CONSTANTS Databases, Credentials, NoPool

VARIABLES
    cred,   \* the credentials the cache was made for, if any pool was stored
    pools,  \* database -> its pool or NoPool
    opened  \* the number of pools opened so far

cacheVars == <<cred, pools, opened>>

Empty == [d \in Databases |-> NoPool]

Init == cred \in Credentials /\ pools = Empty /\ opened = 0

(* The next pool, opened with the credentials c.                           *)
NewPool(c) == [id |-> opened, cred |-> c]

(* The cache is made anew, with one pool in it.                            *)
Renew(c, d) ==
    /\ cred' = c
    /\ pools' = [Empty EXCEPT ![d] = NewPool(c)]
    /\ opened' = opened + 1

(* A pool for the credentials of the cache joins the others; it may take   *)
(* the place of one that another call has stored in the meantime.          *)
Add(d) ==
    /\ pools' = [pools EXCEPT ![d] = NewPool(cred)]
    /\ opened' = opened + 1
    /\ UNCHANGED cred

(* A pool is opened and only its caller knows it.                          *)
OpenApart == opened' = opened + 1 /\ UNCHANGED <<cred, pools>>

Remove(d) ==
    /\ pools' = [pools EXCEPT ![d] = NoPool]
    /\ UNCHANGED <<cred, opened>>

Clear ==
    /\ pools' = Empty
    /\ cred' \in Credentials
    /\ UNCHANGED opened

Next ==
    \/ \E c \in Credentials, d \in Databases : Renew(c, d)
    \/ \E d \in Databases : Add(d) \/ Remove(d)
    \/ OpenApart
    \/ Clear

Spec == Init /\ [][Next]_cacheVars
=============================================================================
