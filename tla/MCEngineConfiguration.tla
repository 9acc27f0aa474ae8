----------------------- MODULE MCEngineConfiguration -----------------------
(* Small instances of EngineConfiguration for TLC. *)
EXTENDS EngineConfiguration

Budget(kinds, left) == [kinds |-> kinds, left |-> left]
None == Budget({}, 0)
Asks(wait) ==
    [exists |-> TRUE, deleting |-> FALSE, finalizer |-> FALSE,
     spec |-> [host |-> 1, interval |-> "unset", primary |-> NoHost, wait |-> wait]]
Plan(c, clients, edit, fault) ==
    [cr |-> c, linked |-> clients, edits |-> edit, faults |-> fault]

(* The address and the secret change under databases at work; the interval *)
(* is edited and the engine goes away; the resource is deleted; the same   *)
(* with old copies about.                                                  *)
EnginePlans ==
    {Plan(Asks(FALSE), {"d"}, Budget({"host", "secret"}, 2), Budget({"error", "crash"}, 1)),
     Plan(Asks(FALSE), {}, Budget({"interval", "outage", "secret", "host"}, 3), None),
     Plan(Asks(TRUE), {"d"}, Budget({"delete", "unlink"}, 2), Budget({"error", "crash"}, 2)),
     Plan(Asks(FALSE), {"d"}, Budget({"delete", "link", "unlink", "wait"}, 3), None),
     Plan(Asks(TRUE), {"d"}, Budget({"host", "host back", "delete", "unlink"}, 3),
          Budget({"stale"}, 0))}
=============================================================================
