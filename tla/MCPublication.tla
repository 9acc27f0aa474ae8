--------------------------- MODULE MCPublication ---------------------------
(* Small instances of Publication for TLC. *)
EXTENDS Publication

One == <<"s1", "t1">>
Two == <<"s1", "t2">>
Other == <<"s2", "t1">>
ThreeTables == {One, Two, Other}

Select(schemas, items, with) ==
    [all |-> FALSE, schemas |-> schemas, items |-> items, with |-> with]
Everything == [all |-> TRUE, schemas |-> {}, items |-> {}, with |-> "default"]
OneTable == Select({}, {<<One, FALSE>>}, "default")
TwoTables == Select({}, {<<One, FALSE>>, <<Two, FALSE>>}, "custom")
WiderTables == Select({}, {<<One, FALSE>>, <<Two, FALSE>>}, "default")
Filtered == Select({}, {<<One, TRUE>>}, "default")
OneSchema == Select({"s1"}, {}, "default")
TwoSchemas == Select({"s1", "s2"}, {}, "default")
Mixed == Select({"s1"}, {<<Other, FALSE>>}, "default")
SomeSelections ==
    {Everything, OneTable, TwoTables, WiderTables, Filtered, OneSchema, TwoSchemas, Mixed}

Budget(kinds, left) == [kinds |-> kinds, left |-> left]
None == Budget({}, 0)
Lossy(n) == Budget({"error", "crash", "lost"}, n)

Asks(sel, slot) ==
    [exists |-> TRUE, deleting |-> FALSE, finalizer |-> FALSE, drop |-> TRUE,
     spec |-> [name |-> "p", sel |-> sel, slot |-> slot]]
NoPubs == [n \in PubNames |-> NoPublication]
NoSlots == [s \in SlotNames |-> "none"]
Plan(c, publications, slot, edit, fault) ==
    [cr |-> c, pubs |-> publications, slots |-> slot, edits |-> edit, faults |-> fault]
New(sel, edit, fault) == Plan(Asks(sel, ""), NoPubs, NoSlots, edit, fault)

(* Another publication of that name, or another one's slot, is there.      *)
Adopts(sel, kept, edit) ==
    Plan([Asks(sel, "s") EXCEPT !.drop = FALSE],
         [NoPubs EXCEPT !["p"] = [owner |-> Operator, sel |-> kept]], NoSlots, edit, None)
SlotTaken == Plan(Asks(OneTable, "s"), NoPubs, [NoSlots EXCEPT !["s"] = "other"],
                  Budget({"slot"}, 1), None)

P0 == New(OneTable, Budget({"name", "slot"}, 2), None)
P1 == New(OneTable, Budget({"name"}, 1), Lossy(1))
P2 == New(OneTable, Budget({"owner", "delete"}, 2), Lossy(2))
P3 == New(TwoTables, Budget({"selection", "drift"}, 2), Budget({"stale"}, 1))
P4 == New(OneTable, Budget({"name", "delete"}, 2), Budget({"consumer", "stale"}, 2))
P5 == Adopts(OneTable, Everything, Budget({"selection"}, 1))
P6 == Adopts(TwoTables, OneTable, Budget({"delete", "drift"}, 2))
P7 == SlotTaken
P8 == New(Everything, Budget({"selection", "database", "delete"}, 2), None)
P9 == New(TwoTables, Budget({"drift"}, 2), Lossy(1))
P10 == New(OneTable, Budget({"selection"}, 2), Budget({"lost"}, 1))
PublicationPlans == {P0, P1, P2, P3, P4, P5, P6, P7, P8, P9, P10}
=============================================================================
