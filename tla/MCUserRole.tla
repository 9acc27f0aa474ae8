----------------------------- MODULE MCUserRole -----------------------------
(* Small instances of UserRole for TLC. *)
EXTENDS UserRole

OneDatabase == [d \in {"db1"} |-> "e1"]
TwoDatabases == [d \in {"db1", "db2"} |-> IF d = "db1" THEN "e1" ELSE "e2"]
SharedEngine == [d \in {"db1", "db2"} |-> "e1"]

(* db1 is read, db2 gets another privilege or none.                        *)
ReadFirst(second) == [d \in Databases |-> IF d = "db1" THEN "READER" ELSE second]
Asks(mode, period, second) ==
    [exists |-> TRUE, deleting |-> FALSE, finalizer |-> FALSE,
     mode |-> mode, period |-> period, prefix |-> "A", attr |-> "x",
     privs |-> ReadFirst(second)]
AllAre(presence) == [d \in Databases |-> presence]

Budget(kinds, left) == [kinds |-> kinds, left |-> left]
None == Budget({}, 0)
Plan(resource, secret, present, edit, fault) ==
    [cr |-> resource, import |-> secret, dbs |-> present, edits |-> edit, faults |-> fault]
Managed(period, second, present, edit, fault) ==
    Plan(Asks("MANAGED", period, second),
         IF ImportUsers = {} THEN NoCredentials ELSE [user |-> <<"u", "">>, pwd |-> 1],
         AllAre(present), edit, fault)
Provided(edit, fault) ==
    Plan(Asks("PROVIDED", 0, "NONE"), [user |-> <<"u", "">>, pwd |-> 1],
         AllAre("ready"), edit, fault)

RotationPlans == {Managed(1, "WRITER", "ready", None, Budget({"error", "crash"}, 1))}
RecoveryPlans ==
    {Managed(1, "NONE", "ready", None, Budget({"error"}, 3)),
     Managed(0, "NONE", "ready", Budget({"generated", "work", "workuser"}, 3),
             Budget({"stale"}, 0)),
     Provided(Budget({"import", "work"}, 1), None)}
EditPlans ==
    {Managed(0, "WRITER", "ready", Budget({"privileges", "attributes", "prefix"}, 2),
             Budget({"error"}, 1)),
     Managed(0, "NONE", "absent", Budget({"privileges", "delete"}, 2), Budget({"stale"}, 0))}

StuckPlans == {Managed(1, "NONE", "ready", None, Budget({"error"}, 1))}
LostPlans == {Managed(0, "NONE", "ready", Budget({"work"}, 1), Budget({"error"}, 1))}
SettingsPlans == {Managed(0, "WRITER", "ready", Budget({"privileges"}, 1), None)}
=============================================================================
