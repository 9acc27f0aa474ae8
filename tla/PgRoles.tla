------------------------------ MODULE PgRoles ------------------------------
(***************************************************************************)
(* What the role statements of internal/controller/postgresql/postgres/    *)
(* role.go do to the roles of one PostgreSQL engine.  An engine is a       *)
(* record:                                                                 *)
(*   pwd     : login role -> password, NoPassword when there is no role    *)
(*   attr    : login role -> attributes (one value for the whole triple of *)
(*             connection limit, replication and bypass RLS)               *)
(*   member  : the pairs <<login role, group role>> of pg_auth_members     *)
(*   granted : the login roles the operator's own user is a member of      *)
(*   setting : the triples <<role, database, group role>> of               *)
(*             pg_db_role_setting whose parameter is "role"                *)
(* An operator returns the engine after the statement.                     *)
(***************************************************************************)
EXTENDS Naturals

NoPassword == 0
NoAttributes == "none"

IsRoleExist(g, u) == g.pwd[u] # NoPassword

CreateUserRole(g, u, password, attributes) ==
    [g EXCEPT !.pwd[u] = password, !.attr[u] = attributes]

AlterRoleAttributes(g, u, attributes) == [g EXCEPT !.attr[u] = attributes]

UpdatePassword(g, u, password) == [g EXCEPT !.pwd[u] = password]

(* GRANT <login role> TO <the operator's user>.                            *)
GrantToOperator(g, u) == [g EXCEPT !.granted = @ \union {u}]

(* GRANT <group role> TO <login role>.                                     *)
GrantRole(g, r, u) == [g EXCEPT !.member = @ \union {<<u, r>>}]

(* REVOKE of every group role of R.                                        *)
RevokeRoles(g, R, u) ==
    [g EXCEPT !.member = {m \in @ : ~(m[1] = u /\ m[2] \in R)}]

GetRoleMembership(g, u) == {m[2] : m \in {n \in g.member : n[1] = u}}

GetSetRoleOnDatabasesRoleSettings(g, u) == {s \in g.setting : s[1] = u}

(* RESET role for every pair <<role, database>> of P.                      *)
RevokeUserSetRoleOnDatabases(g, P) ==
    [g EXCEPT !.setting = {s \in @ : <<s[1], s[2]>> \notin P}]

(* One setting per role and database: SET replaces the previous one.       *)
AlterDefaultLoginRoleOnDatabase(g, u, r, db) ==
    [g EXCEPT !.setting = {s \in @ : ~(s[1] = u /\ s[2] = db)}
                            \union {<<u, db, r>>}]

(* DROP ROLE takes the memberships and the settings of the role with it; a *)
(* role that does not exist is not an error (code 42704 is swallowed).     *)
DropRole(g, u) ==
    [g EXCEPT !.pwd[u] = NoPassword,
              !.attr[u] = NoAttributes,
              !.member = {m \in @ : m[1] # u},
              !.granted = @ \ {u},
              !.setting = {s \in @ : s[1] # u}]
=============================================================================
