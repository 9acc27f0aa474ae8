------------------------- MODULE PublicationProofs -------------------------
(***************************************************************************)
(* Proofs about Publication, for any names, tables, selections, owners,    *)
(* edits and faults.                                                       *)
(***************************************************************************)
EXTENDS Publication, TLAPS

-----------------------------------------------------------------------------
(* Types.                                                                  *)

LEMMA ValuesType ==
    /\ NoSelection \in Selection
    /\ NoStatus \in Statuses /\ NoPublication \in Publications
    /\ NoPass \in Passes /\ NoPass.pc = "idle"
BY DEF NoSelection, Selection, Items, NoStatus, Statuses, NoHash, Publications,
       NoPublication, NoPass, Passes, Positions

(* updateInstance fills in the slot, and nothing else.                     *)
LEMMA FilledType ==
    ASSUME NEW spec \in Specs
    PROVE  /\ Filled(spec) \in Specs /\ Filled(spec).slot \in SlotNames
           /\ Filled(spec).name = spec.name /\ Filled(spec).sel = spec.sel
BY SlotNamesAssumption DEF Filled, Specs

LEMMA AskedType ==
    ASSUME TypeOK
    PROVE  /\ seen.spec \in Specs /\ Asked \in Specs
           /\ Asked.name \in PubNames /\ Asked.name # NoName
           /\ Asked.name = seen.spec.name
           /\ Asked.sel \in Selection /\ Asked.sel = seen.spec.sel
           /\ Asked.slot \in SlotNames
<1>1. seen.spec \in Specs
  BY DEF TypeOK, Resource
<1>2. Asked \in Specs /\ Asked.slot \in SlotNames
      /\ Asked.name = seen.spec.name /\ Asked.sel = seen.spec.sel
  BY <1>1, FilledType DEF Asked
<1>3. Asked.name \in PubNames /\ Asked.sel \in Selection
  BY <1>2 DEF Specs
<1> QED BY <1>1, <1>2, <1>3, NamesAssumption

LEMMA StatusPatchType ==
    ASSUME st \in Statuses, NEW o \in Statuses, NEW m \in Statuses
    PROVE  /\ StatusPatch(o, m) \in Statuses
           /\ m.name = o.name => StatusPatch(o, m).name = st.name
           /\ m.hash = o.hash => StatusPatch(o, m).hash = st.hash
           /\ cr.exists =>
                 /\ m.name # o.name => StatusPatch(o, m).name = m.name
                 /\ m.hash # o.hash => StatusPatch(o, m).hash = m.hash
<1>1. CASE ~cr.exists
  BY <1>1 DEF StatusPatch
<1>2. CASE cr.exists
  <2> DEFINE p == [f \in {"phase", "ready", "name", "hash", "all"} |->
                      IF m[f] = o[f] THEN st[f] ELSE m[f]]
  <2>1. StatusPatch(o, m) = p
    BY <1>2 DEF StatusPatch, Merged, Statuses
  <2>2. p = [phase |-> p.phase, ready |-> p.ready, name |-> p.name, hash |-> p.hash,
             all |-> p.all]
    OBVIOUS
  <2>3. /\ p.phase = IF m.phase = o.phase THEN st.phase ELSE m.phase
        /\ p.ready = IF m.ready = o.ready THEN st.ready ELSE m.ready
        /\ p.name = IF m.name = o.name THEN st.name ELSE m.name
        /\ p.hash = IF m.hash = o.hash THEN st.hash ELSE m.hash
        /\ p.all = IF m.all = o.all THEN st.all ELSE m.all
    OBVIOUS
  <2> HIDE DEF p
  <2>4. p \in Statuses
    BY <2>2, <2>3 DEF Statuses
  <2> QED BY <1>2, <2>1, <2>3, <2>4
<1> QED BY <1>1, <1>2

LEMMA ManageErrorType ==
    ASSUME st \in Statuses, NEW o \in Statuses, NEW m \in Statuses, ManageError(o, m)
    PROVE  /\ st' \in Statuses /\ mem' = NoStatus /\ w' = NoPass
           /\ m = o => st'.name = st.name /\ st'.hash = st.hash
<1> DEFINE n == [m EXCEPT !.ready = FALSE, !.phase = "Failed"]
<1>1. n \in Statuses /\ n.name = m.name /\ n.hash = m.hash
  BY DEF Statuses
<1>2. st' = StatusPatch(o, n) /\ mem' = NoStatus /\ w' = NoPass
  BY DEF ManageError, EndPass
<1> HIDE DEF n
<1> QED BY <1>1, <1>2, StatusPatchType

LEMMA SpendType ==
    ASSUME NEW K, NEW budget \in Budgets(K), NEW kind, Allowed(kind, budget)
    PROVE  /\ Spend(budget) \in Budgets(K)
           /\ Spend(budget).kinds = budget.kinds
           /\ kind \in budget.kinds
BY DEF Budgets, Allowed, Spend

LEMMA CacheCopiesType ==
    ASSUME TypeOK, NEW copy \in CacheCopies
    PROVE  /\ copy[1] \in Resource /\ copy[2] \in Statuses
           /\ (copy[1] = cr /\ copy[2] = st) \/ (copy[1] = seen /\ copy[2] = orig)
<1>1. copy = <<cr, st>> \/ copy = <<seen, orig>>
  BY DEF CacheCopies
<1>2. (copy[1] = cr /\ copy[2] = st) \/ (copy[1] = seen /\ copy[2] = orig)
  BY <1>1
<1> QED BY <1>2 DEF TypeOK

LEMMA InitType == Init => TypeOK
<1> SUFFICES ASSUME Init PROVE TypeOK
  OBVIOUS
<1>1. PICK plan \in Plans :
        /\ cr = plan.cr /\ pubs = plan.pubs /\ slots = plan.slots
        /\ edits = plan.edits /\ faults = plan.faults
  BY DEF Init
<1>2. /\ cr \in Resource /\ pubs \in [PubNames -> Publications]
      /\ slots \in [SlotNames -> Slots]
      /\ edits \in Budgets(EditKinds) /\ faults \in Budgets(FaultKinds)
  BY <1>1, PlansAssumption
<1> QED BY <1>2, ValuesType DEF Init, TypeOK

-----------------------------------------------------------------------------
(* What each step does, in the terms the invariants speak of.              *)

PassFrame ==
    /\ UNCHANGED <<cr, db, foreign, active, seen, orig, edits>>
    /\ faults' \in Budgets(FaultKinds) /\ faults'.kinds = faults.kinds
Moves(pc) ==
    /\ w' \in Passes /\ w'.pc = pc
    /\ w'.search = w.search /\ w'.found = w.found /\ w'.owner = w.owner
    /\ UNCHANGED <<st, mem>>
(* The pass ends, and leaves the name and the hash in the status as they   *)
(* are.                                                                    *)
Ends ==
    /\ st' \in Statuses /\ mem' = NoStatus /\ w' = NoPass
    /\ mem = orig => st'.name = st.name /\ st'.hash = st.hash
(* A statement took effect.                                                *)
GoesOn(pc) == Moves(pc) \/ ("lost" \in faults.kinds /\ Ends)
SearchName == IF mem.name = NoName THEN Asked.name ELSE mem.name

LEMMA GotoMoves ==
    ASSUME TypeOK, NEW pc \in Positions, w' = Goto(pc), UNCHANGED <<st, mem>>
    PROVE  Moves(pc)
BY DEF TypeOK, Passes, Goto, Moves

LEMMA StopEnds == ASSUME TypeOK, Stop PROVE Ends
BY ManageErrorType DEF Stop, Ends, TypeOK

LEMMA LostKeeps ==
    ASSUME TypeOK, NEW kind, Allowed(kind, faults), faults' = Spend(faults)
    PROVE  /\ faults' \in Budgets(FaultKinds) /\ faults'.kinds = faults.kinds
           /\ kind \in faults.kinds
BY SpendType DEF TypeOK

LEMMA FindStep ==
    ASSUME TypeOK, FindPublication
    PROVE  /\ At("find") /\ PassFrame /\ UNCHANGED <<st, mem, pubs, slots>>
           /\ SearchName \in PubNames
           /\ w' \in Passes /\ w'.owner = w.owner
           /\ w'.search = SearchName /\ w'.found = pubs[SearchName]
           /\ \/ w'.pc = "create" /\ ~Exists(SearchName)
              \/ /\ w'.pc \in {"update", "owner"} /\ Exists(SearchName)
                 /\ w'.pc = "owner" <=>
                      /\ Asked = mem.hash
                      /\ ~IsReconcileOnPGNecessary(Asked.sel, pubs[SearchName])
<1> DEFINE next == IF ~Exists(SearchName) THEN "create"
                   ELSE IF Asked # mem.hash \/ IsReconcileOnPGNecessary(Asked.sel, pubs[SearchName])
                   THEN "update" ELSE "owner"
<1>1. /\ At("find") /\ UNCHANGED <<st, pubs, slots, mem, faults>>
      /\ UNCHANGED <<cr, db, foreign, active, seen, orig, edits>>
      /\ w' = [w EXCEPT !.pc = next, !.search = SearchName, !.found = pubs[SearchName]]
  BY DEF FindPublication, Quietly, Steady, SearchName
<1>2. SearchName \in PubNames
  BY AskedType DEF SearchName, TypeOK, Statuses
<1>3. next \in {"create", "update", "owner"} /\ next \in Positions
  BY DEF Positions
<1>4. pubs[SearchName] \in Publications
  BY <1>2 DEF TypeOK
<1>5. /\ next = "create" <=> ~Exists(SearchName)
      /\ next = "owner" <=>
            /\ Exists(SearchName) /\ Asked = mem.hash
            /\ ~IsReconcileOnPGNecessary(Asked.sel, pubs[SearchName])
  OBVIOUS
<1> HIDE DEF next
<1>6. /\ w' \in Passes /\ w'.pc = next /\ w'.owner = w.owner
      /\ w'.search = SearchName /\ w'.found = pubs[SearchName]
  BY <1>1, <1>2, <1>3, <1>4 DEF TypeOK, Passes
<1> QED BY <1>1, <1>2, <1>3, <1>5, <1>6 DEF PassFrame, TypeOK

LEMMA CreateStep ==
    ASSUME TypeOK, CreatePublication
    PROVE  /\ At("create") /\ PassFrame
           /\ \/ Ends /\ UNCHANGED <<pubs, slots>>
              \/ /\ ~Exists(Asked.name)
                 /\ pubs' = [pubs EXCEPT ![Asked.name] = [owner |-> Operator, sel |-> Asked.sel]]
                 /\ UNCHANGED slots
                 /\ GoesOn("own new")
BY StopEnds, GotoMoves, LostKeeps
   DEF CreatePublication, Execute, Steady, PassFrame, GoesOn, TypeOK, Positions

LEMMA OwnNewStep ==
    ASSUME TypeOK, OwnNew
    PROVE  /\ At("own new") /\ PassFrame
           /\ \/ w.owner # db.role /\ Ends /\ UNCHANGED <<pubs, slots>>
              \/ /\ w.owner = db.role
                 /\ pubs' = [pubs EXCEPT ![Asked.name].owner = w.owner]
                 /\ UNCHANGED slots
                 /\ GoesOn("slot")
BY StopEnds, GotoMoves, LostKeeps
   DEF OwnNew, Owned, Execute, Steady, PassFrame, GoesOn, TypeOK, Positions

LEMMA UpdateStep ==
    ASSUME TypeOK, UpdatePublication
    PROVE  /\ At("update") /\ PassFrame
           /\ \/ Ends /\ UNCHANGED <<pubs, slots>>
              \/ /\ Exists(w.search)
                 /\ Asked.name = w.search \/ ~Exists(Asked.name)
                 /\ Updated
                 /\ GoesOn("owner")
BY StopEnds, GotoMoves, LostKeeps
   DEF UpdatePublication, Execute, Steady, PassFrame, GoesOn, TypeOK, Positions

LEMMA OwnerStep ==
    ASSUME TypeOK, ChangePublicationOwner
    PROVE  /\ At("owner") /\ PassFrame
           /\ \/ w.found.owner = w.owner /\ Moves("slot") /\ UNCHANGED <<pubs, slots>>
              \/ /\ w.found.owner # w.owner /\ Exists(w.search) /\ w.owner = db.role
                 /\ pubs' = [pubs EXCEPT ![w.search].owner = w.owner]
                 /\ UNCHANGED slots
                 /\ GoesOn("slot")
              \/ /\ w.found.owner # w.owner /\ ~(Exists(w.search) /\ w.owner = db.role)
                 /\ Ends /\ UNCHANGED <<pubs, slots>>
BY StopEnds, GotoMoves, LostKeeps
   DEF ChangePublicationOwner, Owned, Execute, Quietly, Steady, PassFrame, GoesOn,
       TypeOK, Positions

LEMMA SlotStep ==
    ASSUME TypeOK, ManageSlot
    PROVE  /\ At("slot") /\ PassFrame /\ UNCHANGED pubs
           /\ \/ slots[Asked.slot] = "own" /\ Moves("success") /\ UNCHANGED slots
              \/ /\ slots[Asked.slot] = "none"
                 /\ slots' = [slots EXCEPT ![Asked.slot] = "own"]
                 /\ GoesOn("success")
              \/ slots[Asked.slot] = "other" /\ Ends /\ UNCHANGED slots
<1>1. slots[Asked.slot] \in {"none", "own", "other"}
  BY AskedType DEF TypeOK, Slots
<1> QED
  BY <1>1, StopEnds, GotoMoves, LostKeeps
  DEF ManageSlot, Execute, Quietly, Steady, PassFrame, GoesOn, TypeOK, Positions

LEMMA SuccessStep ==
    ASSUME TypeOK, ManageSuccess
    PROVE  /\ At("success") /\ PassFrame /\ UNCHANGED <<pubs, slots, faults>>
           /\ st' \in Statuses /\ mem' = NoStatus /\ w' = NoPass
           /\ Asked.name = orig.name => st'.name = st.name
           /\ Asked = orig.hash => st'.hash = st.hash
           /\ cr.exists =>
                 /\ Asked.name # orig.name => st'.name = Asked.name
                 /\ Asked # orig.hash => st'.hash = Asked
           /\ ~cr.exists => UNCHANGED st
<1> DEFINE m == [phase |-> "Created", ready |-> TRUE, name |-> Asked.name,
                 hash |-> Asked, all |-> AllFlag(Asked.sel)]
<1>1. m \in Statuses /\ m.name = Asked.name /\ m.hash = Asked
  BY AskedType DEF Statuses, AllFlag
<1>2. st' = StatusPatch(orig, m) /\ EndPass /\ At("success")
      /\ UNCHANGED <<pubs, slots, faults>> /\ Steady
  BY DEF ManageSuccess
<1>3. ~cr.exists => st' = st
  BY <1>2 DEF StatusPatch
<1> HIDE DEF m
<1>4. st \in Statuses /\ orig \in Statuses /\ faults \in Budgets(FaultKinds)
  BY DEF TypeOK
<1> QED BY <1>1, <1>2, <1>3, <1>4, StatusPatchType DEF EndPass, Steady, PassFrame

LEMMA DropPublicationStep ==
    ASSUME TypeOK, DropPublication
    PROVE  /\ At("drop publication") /\ PassFrame
           /\ \/ Ends /\ UNCHANGED <<pubs, slots>>
              \/ /\ pubs' = [pubs EXCEPT ![seen.spec.name] = NoPublication]
                 /\ UNCHANGED slots
                 /\ GoesOn("drop slot")
BY StopEnds, GotoMoves, LostKeeps
   DEF DropPublication, Execute, Steady, PassFrame, GoesOn, TypeOK, Positions

LEMMA DropReplicationSlotStep ==
    ASSUME TypeOK, DropReplicationSlot
    PROVE  /\ At("drop slot") /\ PassFrame /\ UNCHANGED pubs
           /\ \/ seen.spec.slot = NoName /\ Moves("finalize") /\ UNCHANGED slots
              \/ seen.spec.slot # NoName /\ Ends /\ UNCHANGED slots
              \/ /\ seen.spec.slot # NoName
                 /\ slots[seen.spec.slot] = "none" \/ seen.spec.slot \notin active
                 /\ slots' = [slots EXCEPT ![seen.spec.slot] = "none"]
                 /\ GoesOn("finalize")
BY StopEnds, GotoMoves, LostKeeps
   DEF DropReplicationSlot, Execute, Quietly, Steady, PassFrame, GoesOn, TypeOK, Positions

LEMMA FinalizeStep ==
    ASSUME TypeOK, Finalize
    PROVE  /\ At("finalize") /\ Ends
           /\ UNCHANGED <<db, foreign, pubs, slots, active, seen, orig, edits, faults>>
           /\ \/ seen = cr /\ cr' = [cr EXCEPT !.exists = FALSE]
              \/ UNCHANGED cr
<1>1. /\ At("finalize")
      /\ UNCHANGED <<db, foreign, pubs, slots, active, seen, orig, edits, faults>>
  BY DEF Finalize, engineVars, boundVars
<1>2. CASE seen = cr /\ orig = st
  BY <1>1, <1>2 DEF Finalize, EndPass, Ends, TypeOK
<1>3. CASE ~(seen = cr /\ orig = st)
  BY <1>1, <1>3, StopEnds DEF Finalize
<1> QED BY <1>2, <1>3

LEMMA FaultStep ==
    ASSUME TypeOK, Fail \/ Crash
    PROVE  /\ w.pc # "idle" /\ PassFrame /\ UNCHANGED <<pubs, slots>> /\ Ends
           /\ faults.kinds \intersect {"error", "crash"} # {}
<1>1. CASE Fail
  BY <1>1, StopEnds, LostKeeps DEF Fail, Steady, PassFrame
<1>2. CASE Crash
  BY <1>2, LostKeeps DEF Crash, At, EndPass, Steady, PassFrame, Ends, TypeOK
<1> QED BY <1>1, <1>2

(* The start of a pass reads a copy; without the pass going on it changes  *)
(* at most phase and readiness in the status.                              *)
BeginFrame(c, s) ==
    /\ At("idle") /\ seen' = c /\ orig' = s
    /\ UNCHANGED <<db, foreign, pubs, slots, active, edits, faults>>
Starts(s, pc) ==
    /\ mem' = s /\ w' \in Passes /\ w'.pc = pc /\ w'.owner = db.owner
    /\ UNCHANGED <<cr, st>>

LEMMA BeginStep ==
    ASSUME TypeOK, NEW c \in Resource, NEW s \in Statuses, BeginWith(c, s)
    PROVE  /\ BeginFrame(c, s)
           /\ \/ UNCHANGED <<cr, st, mem, w>>
              \/ /\ UNCHANGED cr /\ mem' = NoStatus /\ w' = NoPass
                 /\ st' \in Statuses /\ st'.name = st.name /\ st'.hash = st.hash
              \/ /\ c.exists /\ c.deleting
                 /\ \/ Starts(s, "drop publication")
                    \/ Starts(s, "finalize") /\ (~c.drop \/ db.phase = "gone")
              \/ /\ c = cr /\ s = st /\ c.exists
                 /\ cr' = [cr EXCEPT !.finalizer = TRUE, !.spec = Filled(@)]
                 /\ UNCHANGED <<st, mem, w>>
              \/ /\ c.exists /\ ~c.deleting /\ c.finalizer /\ Valid(c, s)
                 /\ Starts(s, "find")
<1>1. BeginFrame(c, s)
  BY DEF BeginWith, BeginNotFound, BeginDeletion, BeginRefused, BeginWait, BeginFinalizer,
         BeginWork, Read, BeginFrame, engineVars, boundVars
<1>2. ASSUME ManageError(s, s)
      PROVE  /\ mem' = NoStatus /\ w' = NoPass
             /\ st' \in Statuses /\ st'.name = st.name /\ st'.hash = st.hash
  BY <1>2, ManageErrorType DEF TypeOK
<1>3. ASSUME NEW pc \in Positions, Start(s, pc), UNCHANGED <<cr, st>> PROVE Starts(s, pc)
  BY <1>3, ValuesType DEF TypeOK, Start, Starts, Passes
<1>4. CASE BeginNotFound(c, s) \/ BeginWait(c, s)
  BY <1>1, <1>4 DEF BeginNotFound, BeginWait, crVars
<1>5. CASE BeginDeletion(c, s)
  BY <1>1, <1>3, <1>5 DEF BeginDeletion, crVars, Positions
<1>6. CASE BeginRefused(c, s)
  BY <1>1, <1>2, <1>6 DEF BeginRefused
<1>7. CASE BeginFinalizer(c, s)
  BY <1>1, <1>2, <1>7 DEF BeginFinalizer, Living
<1>8. CASE BeginWork(c, s)
  BY <1>1, <1>3, <1>8 DEF BeginWork, Living, crVars, Positions
<1> QED BY <1>4, <1>5, <1>6, <1>7, <1>8 DEF BeginWith

(* An edit of the resource.                                                *)
Edited ==
    \/ \E name \in PubNames : SetName(name)
    \/ \E sel \in Selections : SetSelection(sel)
    \/ \E slot \in SlotNames \union {NoName} : SetSlot(slot)
    \/ DeleteResource

LEMMA EditStep ==
    ASSUME TypeOK, NEW kind, Edit(kind)
    PROVE  /\ kind \in edits.kinds
           /\ edits' \in Budgets(EditKinds) /\ edits'.kinds = edits.kinds
           /\ UNCHANGED <<st, foreign, slots, active, seen, orig, mem, w, faults>>
BY SpendType DEF Edit, TypeOK

LEMMA EditedStep ==
    ASSUME TypeOK, Edited
    PROVE  /\ edits' \in Budgets(EditKinds) /\ edits'.kinds = edits.kinds
           /\ UNCHANGED <<st, foreign, slots, active, seen, orig, mem, w, faults, db, pubs>>
           /\ cr.exists /\ ~cr.deleting
           /\ cr' \in Resource /\ cr'.finalizer = cr.finalizer /\ cr'.drop = cr.drop
           /\ cr'.exists \/ ~cr'.finalizer
           /\ "name" \notin edits.kinds => cr'.spec.name = cr.spec.name
           /\ "selection" \notin edits.kinds => cr'.spec.sel = cr.spec.sel
<1>1. PICK kind \in EditKinds, c \in {cr'} :
        /\ EditSpec(kind, c)
        /\ \/ kind = "name" /\ \E name \in PubNames : c = [cr EXCEPT !.spec.name = name]
           \/ kind = "selection" /\ \E sel \in Selections : c = [cr EXCEPT !.spec.sel = sel]
           \/ /\ kind = "slot"
              /\ \E slot \in SlotNames \union {NoName} : c = [cr EXCEPT !.spec.slot = slot]
           \/ kind = "delete" /\ c = [cr EXCEPT !.deleting = TRUE, !.exists = cr.finalizer]
  BY DEF Edited, SetName, SetSelection, SetSlot, DeleteResource, EditSpec, EditKinds
<1>2. /\ edits' \in Budgets(EditKinds) /\ edits'.kinds = edits.kinds /\ kind \in edits.kinds
      /\ UNCHANGED <<st, foreign, slots, active, seen, orig, mem, w, faults, db, pubs>>
      /\ cr.exists /\ ~cr.deleting /\ cr' = c
  BY <1>1, EditStep DEF EditSpec
<1>3. cr \in Resource /\ cr.spec \in Specs
  BY DEF TypeOK, Resource
<1>4. CASE kind = "name"
  <2>1. PICK name \in PubNames : c = [cr EXCEPT !.spec.name = name]
    BY <1>1, <1>4
  <2>2. /\ c.spec = [cr.spec EXCEPT !.name = name] /\ c.exists = cr.exists
        /\ c.finalizer = cr.finalizer /\ c.drop = cr.drop
    BY <1>3, <2>1 DEF Resource
  <2>3. c.spec \in Specs /\ c.spec.sel = cr.spec.sel
    BY <1>3, <2>2 DEF Specs
  <2>4. c \in Resource
    BY <1>3, <2>1, <2>2, <2>3 DEF Resource
  <2> QED BY <1>2, <1>4, <2>2, <2>3, <2>4
<1>5. CASE kind = "selection"
  <2>1. PICK sel \in Selections : c = [cr EXCEPT !.spec.sel = sel]
    BY <1>1, <1>5
  <2>2. /\ c.spec = [cr.spec EXCEPT !.sel = sel] /\ c.exists = cr.exists
        /\ c.finalizer = cr.finalizer /\ c.drop = cr.drop
    BY <1>3, <2>1 DEF Resource
  <2>3. c.spec \in Specs /\ c.spec.name = cr.spec.name
    BY <1>3, <2>2, SelectionsAssumption DEF Specs
  <2>4. c \in Resource
    BY <1>3, <2>1, <2>2, <2>3 DEF Resource
  <2> QED BY <1>2, <1>5, <2>2, <2>3, <2>4
<1>6. CASE kind = "slot"
  <2>1. PICK slot \in SlotNames \union {NoName} : c = [cr EXCEPT !.spec.slot = slot]
    BY <1>1, <1>6
  <2>2. /\ c.spec = [cr.spec EXCEPT !.slot = slot] /\ c.exists = cr.exists
        /\ c.finalizer = cr.finalizer /\ c.drop = cr.drop
    BY <1>3, <2>1 DEF Resource
  <2>3. c.spec \in Specs /\ c.spec.name = cr.spec.name /\ c.spec.sel = cr.spec.sel
    BY <1>3, <2>2 DEF Specs
  <2>4. c \in Resource
    BY <1>3, <2>1, <2>2, <2>3 DEF Resource
  <2> QED BY <1>2, <1>6, <2>2, <2>3, <2>4
<1>7. CASE kind = "delete"
  <2>1. c = [cr EXCEPT !.deleting = TRUE, !.exists = cr.finalizer]
    BY <1>1, <1>7
  <2>2. /\ c \in Resource /\ c.spec = cr.spec /\ c.exists = cr.finalizer
        /\ c.finalizer = cr.finalizer /\ c.drop = cr.drop
    BY <1>3, <2>1 DEF Resource
  <2> QED BY <1>2, <1>7, <2>2
<1> QED BY <1>1, <1>4, <1>5, <1>6, <1>7

LEMMA RenameStep ==
    ASSUME TypeOK, NEW role \in Owners, RenameOwner(role)
    PROVE  /\ "owner" \in edits.kinds /\ role # db.role
           /\ edits' \in Budgets(EditKinds) /\ edits'.kinds = edits.kinds
           /\ UNCHANGED <<cr, st, foreign, slots, active, seen, orig, mem, w, faults>>
           /\ db'.phase = db.phase /\ db'.owner = db.owner /\ db'.role = role
           /\ db' \in [phase : {"pending", "ready", "gone"}, owner : Owners, role : Owners]
           /\ pubs' \in [PubNames -> Publications]
           /\ \A n \in PubNames :
                 /\ pubs'[n].sel = pubs[n].sel
                 /\ pubs'[n].owner = IF pubs[n].owner = db.role THEN role ELSE pubs[n].owner
<1>1. /\ "owner" \in edits.kinds /\ role # db.role
      /\ edits' \in Budgets(EditKinds) /\ edits'.kinds = edits.kinds
      /\ UNCHANGED <<cr, st, foreign, slots, active, seen, orig, mem, w, faults>>
      /\ db' = [db EXCEPT !.role = role]
      /\ pubs' = [n \in PubNames |->
                    IF pubs[n].owner = db.role THEN [pubs[n] EXCEPT !.owner = role] ELSE pubs[n]]
  BY EditStep DEF RenameOwner
<1>2. \A n \in PubNames : pubs[n] \in Publications
  BY DEF TypeOK
<1>3. ASSUME NEW n \in PubNames
      PROVE  /\ pubs'[n] \in Publications /\ pubs'[n].sel = pubs[n].sel
             /\ pubs'[n].owner = IF pubs[n].owner = db.role THEN role ELSE pubs[n].owner
  BY <1>1, <1>2 DEF Publications
<1> QED BY <1>1, <1>3 DEF TypeOK

(* The database says more about itself, or goes.                           *)
LEMMA DatabaseStep ==
    ASSUME TypeOK, ReportDatabase \/ RemoveDatabase
    PROVE  /\ edits' \in Budgets(EditKinds) /\ edits'.kinds = edits.kinds
           /\ UNCHANGED <<cr, st, foreign, pubs, slots, active, seen, orig, mem, w, faults>>
           /\ db' \in [phase : {"pending", "ready", "gone"}, owner : Owners, role : Owners]
           /\ db'.role = db.role /\ db'.owner \in {db.owner, db.role}
           /\ db.phase = "gone" => db'.phase = "gone"
<1>1. CASE ReportDatabase
  BY <1>1 DEF ReportDatabase, crVars, engineVars, boundVars, TypeOK
<1>2. CASE RemoveDatabase
  BY <1>2, EditStep DEF RemoveDatabase, TypeOK
<1> QED BY <1>1, <1>2

LEMMA DriftStep ==
    ASSUME TypeOK, NEW name \in PubNames, Drift(name)
    PROVE  /\ "drift" \in edits.kinds /\ At("idle") /\ Exists(name)
           /\ edits' \in Budgets(EditKinds) /\ edits'.kinds = edits.kinds
           /\ UNCHANGED <<cr, st, db, foreign, slots, active, seen, orig, mem, w, faults>>
           /\ pubs' \in [PubNames -> Publications]
           /\ \A n \in PubNames :
                 /\ n # name => pubs'[n] = pubs[n]
                 /\ pubs'[n].owner = pubs[n].owner
                 /\ pubs'[n].sel.all = pubs[n].sel.all
                 /\ pubs'[n].sel.schemas = pubs[n].sel.schemas
                 /\ pubs'[n].sel.items \subseteq pubs[n].sel.items
<1>1. /\ "drift" \in edits.kinds /\ At("idle") /\ Exists(name)
      /\ edits' \in Budgets(EditKinds) /\ edits'.kinds = edits.kinds
      /\ UNCHANGED <<cr, st, db, foreign, slots, active, seen, orig, mem, w, faults>>
  BY EditStep DEF Drift
<1>2. pubs[name] \in Publications /\ pubs[name].sel \in Selection
  BY DEF TypeOK, Publications
<1>3. PICK sel \in Selection :
        /\ sel.all = pubs[name].sel.all /\ sel.schemas = pubs[name].sel.schemas
        /\ sel.items \subseteq pubs[name].sel.items
        /\ pubs' = [pubs EXCEPT ![name].sel = sel]
  <2>1. CASE pubs' = [pubs EXCEPT ![name].sel.with = IF @ = "default" THEN "custom" ELSE "default"]
    <3> DEFINE new == IF pubs[name].sel.with = "default" THEN "custom" ELSE "default"
               sel == [pubs[name].sel EXCEPT !.with = new]
    <3>1. /\ sel \in Selection /\ sel.all = pubs[name].sel.all
          /\ sel.schemas = pubs[name].sel.schemas /\ sel.items = pubs[name].sel.items
      BY <1>2 DEF Selection
    <3>2. pubs' = [pubs EXCEPT ![name].sel = sel]
      BY <2>1
    <3> QED BY <3>1, <3>2
  <2>2. CASE \E i \in pubs[name].sel.items :
                pubs' = [pubs EXCEPT ![name].sel.items = @ \ {i}]
    <3>1. PICK i \in pubs[name].sel.items :
            pubs' = [pubs EXCEPT ![name].sel.items = @ \ {i}]
      BY <2>2
    <3> DEFINE sel == [pubs[name].sel EXCEPT !.items = @ \ {i}]
    <3>2. /\ sel \in Selection /\ sel.all = pubs[name].sel.all
          /\ sel.schemas = pubs[name].sel.schemas /\ sel.items \subseteq pubs[name].sel.items
      BY <1>2 DEF Selection
    <3>3. pubs' = [pubs EXCEPT ![name].sel = sel]
      BY <3>1
    <3> QED BY <3>2, <3>3
  <2> QED BY <2>1, <2>2 DEF Drift
<1>4. \A n \in PubNames : pubs[n] \in Publications
  BY DEF TypeOK
<1>5. ASSUME NEW n \in PubNames
      PROVE  /\ pubs'[n] \in Publications /\ pubs'[n].owner = pubs[n].owner
             /\ n # name => pubs'[n] = pubs[n]
             /\ pubs'[n].sel = IF n = name THEN sel ELSE pubs[n].sel
  BY <1>3, <1>4 DEF TypeOK, Publications
<1>6. pubs' \in [PubNames -> Publications]
  BY <1>3, <1>5 DEF TypeOK
<1> QED BY <1>1, <1>3, <1>5, <1>6

LEMMA ConsumerStep ==
    ASSUME TypeOK, NEW slot \in SlotNames, Consume(slot) \/ Release(slot)
    PROVE  /\ UNCHANGED <<cr, st, db, foreign, pubs, slots, seen, orig, mem, w, edits>>
           /\ faults' \in Budgets(FaultKinds) /\ faults'.kinds = faults.kinds
           /\ active' \subseteq SlotNames /\ \A s \in active' : slots[s] # "none"
<1>1. CASE Consume(slot)
  BY <1>1, LostKeeps DEF Consume, crVars, TypeOK
<1>2. CASE Release(slot)
  BY <1>2 DEF Release, crVars, boundVars, TypeOK
<1> QED BY <1>1, <1>2

-----------------------------------------------------------------------------
(* Types are kept.                                                         *)

(* What is left to show of a step of the pass.                             *)
Placed ==
    /\ pubs' \in [PubNames -> Publications]
    /\ slots' \in [SlotNames -> Slots] /\ \A s \in active : slots'[s] # "none"

LEMMA EndsType ==
    ASSUME TypeOK, PassFrame, Placed, Ends
    PROVE  TypeOK'
BY ValuesType DEF TypeOK, PassFrame, Placed, Ends

LEMMA MovesType ==
    ASSUME TypeOK, PassFrame, Placed, NEW pc, Moves(pc),
           pc \in {"create", "own new", "update", "owner"} => w.search \in PubNames
    PROVE  TypeOK'
BY DEF TypeOK, PassFrame, Placed, Moves

LEMMA PublishType ==
    ASSUME TypeOK, FindPublication \/ CreatePublication \/ OwnNew \/ UpdatePublication
                   \/ ChangePublicationOwner \/ ManageSlot \/ ManageSuccess
    PROVE  TypeOK'
<1>p. /\ \A n \in PubNames : pubs[n] \in Publications
      /\ Asked.name \in PubNames /\ Asked.sel \in Selection /\ Asked.slot \in SlotNames
      /\ w.owner \in Owners \union {NoOwner}
  BY AskedType DEF TypeOK, Passes
<1>u. UNCHANGED <<pubs, slots>> => Placed
  BY DEF Placed, TypeOK
<1>s. w.pc \in {"create", "own new", "update", "owner"} => w.search \in PubNames
  BY DEF TypeOK
<1>1. CASE FindPublication
  <2> USE <1>1, FindStep
  <2>1. w' \in Passes /\ w'.search \in PubNames
    OBVIOUS
  <2>2. PassFrame /\ UNCHANGED <<st, mem, pubs, slots>>
    OBVIOUS
  <2> QED BY <2>1, <2>2 DEF PassFrame, TypeOK
<1>2. CASE CreatePublication
  <2>1. [owner |-> Operator, sel |-> Asked.sel] \in Publications
    BY <1>p DEF Publications
  <2>2. pubs' = [pubs EXCEPT ![Asked.name] = [owner |-> Operator, sel |-> Asked.sel]]
        /\ UNCHANGED slots => Placed
    BY <1>p, <2>1 DEF Placed, TypeOK
  <2>3. Placed
    BY <1>2, <1>u, <2>2, CreateStep
  <2> QED BY <1>2, <1>s, <2>3, CreateStep, EndsType, MovesType DEF GoesOn, At
<1>o. ASSUME NEW n \in PubNames, pubs' = [pubs EXCEPT ![n].owner = w.owner], UNCHANGED slots
      PROVE  Placed
  <2>1. [pubs[n] EXCEPT !.owner = w.owner] \in Publications
    BY <1>p DEF Publications
  <2> QED BY <1>o, <2>1 DEF Placed, TypeOK
<1>3. CASE OwnNew
  <2>1. Placed
    BY <1>3, <1>o, <1>p, <1>u, OwnNewStep
  <2> QED BY <1>3, <2>1, OwnNewStep, EndsType, MovesType DEF GoesOn
<1>4. CASE UpdatePublication
  <2>1. w.search \in PubNames
    BY <1>4, <1>s, UpdateStep DEF At
  <2>2. [pubs[w.search] EXCEPT !.sel = Asked.sel] \in Publications
    BY <1>p, <2>1 DEF Publications
  <2>3. Updated => Placed
    BY <1>p, <2>2, ValuesType DEF Updated, Placed, TypeOK
  <2>4. Placed
    BY <1>4, <1>u, <2>3, UpdateStep
  <2> QED BY <1>4, <2>1, <2>4, UpdateStep, EndsType, MovesType DEF GoesOn
<1>5. CASE ChangePublicationOwner
  <2>1. w.search \in PubNames
    BY <1>5, <1>s, OwnerStep DEF At
  <2>2. Placed
    BY <1>5, <1>o, <1>u, <2>1, OwnerStep
  <2> QED BY <1>5, <2>2, OwnerStep, EndsType, MovesType DEF GoesOn
<1>6. CASE ManageSlot
  <2>1. slots' = [slots EXCEPT ![Asked.slot] = "own"] /\ UNCHANGED pubs => Placed
    BY <1>p DEF Placed, TypeOK, Slots
  <2>2. Placed
    BY <1>6, <1>u, <2>1, SlotStep
  <2> QED BY <1>6, <2>2, SlotStep, EndsType, MovesType DEF GoesOn
<1>7. CASE ManageSuccess
  BY <1>7, SuccessStep, ValuesType DEF PassFrame, TypeOK
<1> QED BY <1>1, <1>2, <1>3, <1>4, <1>5, <1>6, <1>7

LEMMA DropType ==
    ASSUME TypeOK, DropPublication \/ DropReplicationSlot \/ Finalize \/ Fail \/ Crash
    PROVE  TypeOK'
<1>p. seen.spec.name \in PubNames /\ seen.spec.slot \in SlotNames \union {NoName}
  BY AskedType DEF Specs
<1>u. UNCHANGED <<pubs, slots>> => Placed
  BY DEF Placed, TypeOK
<1>1. CASE DropPublication
  <2>1. ASSUME pubs' = [pubs EXCEPT ![seen.spec.name] = NoPublication], UNCHANGED slots
        PROVE  Placed
    BY <1>p, <2>1, ValuesType DEF Placed, TypeOK
  <2>2. \/ UNCHANGED <<pubs, slots>>
        \/ pubs' = [pubs EXCEPT ![seen.spec.name] = NoPublication] /\ UNCHANGED slots
    BY <1>1, DropPublicationStep
  <2>3. Placed
    BY <1>u, <2>1, <2>2
  <2> QED BY <1>1, <2>3, DropPublicationStep, EndsType, MovesType DEF GoesOn
<1>2. CASE DropReplicationSlot
  <2>1. ASSUME seen.spec.slot # NoName,
               slots[seen.spec.slot] = "none" \/ seen.spec.slot \notin active,
               slots' = [slots EXCEPT ![seen.spec.slot] = "none"], UNCHANGED pubs
        PROVE  Placed
    BY <1>p, <2>1 DEF Placed, TypeOK, Slots
  <2>2. Placed
    BY <1>2, <1>u, <2>1, DropReplicationSlotStep
  <2> QED BY <1>2, <2>2, DropReplicationSlotStep, EndsType, MovesType DEF GoesOn
<1>3. CASE Finalize
  <2>1. cr' \in Resource
    BY <1>3, FinalizeStep DEF TypeOK, Resource
  <2> QED BY <1>3, <2>1, FinalizeStep, ValuesType DEF Ends, TypeOK
<1>4. CASE Fail \/ Crash
  BY <1>4, <1>u, FaultStep, EndsType
<1> QED BY <1>1, <1>2, <1>3, <1>4

LEMMA BeginType ==
    ASSUME TypeOK, NEW copy \in CacheCopies, BeginWith(copy[1], copy[2])
    PROVE  TypeOK'
<1>1. copy[1] \in Resource /\ copy[2] \in Statuses
  BY CacheCopiesType
<1>2. cr \in Resource /\ cr.spec \in Specs
  BY DEF TypeOK, Resource
<1>3. [cr EXCEPT !.finalizer = TRUE, !.spec = Filled(@)] \in Resource
  BY <1>2, FilledType DEF Resource
<1> QED BY <1>1, <1>3, BeginStep, ValuesType DEF BeginFrame, Starts, TypeOK

LEMMA EnvironmentType ==
    ASSUME TypeOK, Environment
    PROVE  TypeOK'
<1>1. CASE Edited
  BY <1>1, EditedStep DEF TypeOK
<1>2. ASSUME NEW role \in Owners, RenameOwner(role) PROVE TypeOK'
  BY <1>2, RenameStep DEF TypeOK
<1>3. CASE ReportDatabase \/ RemoveDatabase
  BY <1>3, DatabaseStep DEF TypeOK
<1>4. ASSUME NEW name \in PubNames, Drift(name) PROVE TypeOK'
  BY <1>4, DriftStep DEF TypeOK
<1>5. ASSUME NEW slot \in SlotNames, Consume(slot) \/ Release(slot) PROVE TypeOK'
  BY <1>5, ConsumerStep DEF TypeOK
<1> QED BY <1>1, <1>2, <1>3, <1>4, <1>5 DEF Environment, Edited

LEMMA TypeStep == TypeOK /\ [Next]_vars => TypeOK'
<1>1. ASSUME TypeOK, Next PROVE TypeOK'
  BY <1>1, PublishType, DropType, BeginType, EnvironmentType DEF Next, Pass, Begin
<1>2. ASSUME TypeOK, UNCHANGED vars PROVE TypeOK'
  BY <1>2 DEF vars, TypeOK
<1> QED BY <1>1, <1>2

(* Every variable of the reconciliation of a publication keeps its type, a *)
(* pass past the lookup has the name of a publication at hand, and no      *)
(* consumer is on a slot that does not exist.                              *)
THEOREM TypeCorrect == Spec => []TypeOK
BY InitType, TypeStep, PTL DEF Spec

-----------------------------------------------------------------------------
(* The inductive invariants.                                               *)

(* A pass on a resource that lives; a pass past what it changes first; a   *)
(* pass that deletes.                                                      *)
Working == {"find", "create", "own new", "update", "owner", "slot", "success"}
Changed == {"own new", "owner", "slot", "success"}
Dropping == {"drop publication", "drop slot", "finalize"}

(* Finalizers stay; once the resource is gone, any copy is the one that    *)
(* was deleted; a pass works on a copy that lives and that is valid.       *)
Life ==
    /\ seen.finalizer => cr.finalizer
    /\ ~cr.exists /\ cr.finalizer =>
          cr.deleting /\ seen \in {cr, [cr EXCEPT !.exists = TRUE]}
    /\ w.pc \in Working =>
          /\ cr.exists /\ seen.exists /\ ~seen.deleting /\ seen.finalizer
          /\ seen.spec.sel.all => seen.spec.sel.schemas = {} /\ seen.spec.sel.items = {}
    /\ w.pc \in Dropping => seen.exists /\ seen.deleting

(* The status holds what the copy held that was read, or what the spec     *)
(* asked for that was read: name and hash come together.                   *)
Memory ==
    /\ w.pc # "idle" => mem = orig
    /\ orig.name = orig.hash.name
    /\ \/ st.name = orig.name /\ st.hash = orig.hash
       \/ st.name = Asked.name /\ st.hash = Asked

(* A role that does not bear its name any more owns nothing under it.      *)
Former(owner) == owner # db.role => \A n \in PubNames : pubs[n].owner # owner
OwnersKnown ==
    /\ Former(db.owner)
    /\ w.pc # "idle" => w.owner \in Owners /\ Former(w.owner)

(* What the pass has in hand: the name it looked up, and what it brought   *)
(* about so far.                                                           *)
Selected ==
    \/ pubs[Asked.name].sel = Asked.sel
    \/ Asked = mem.hash /\ ~IsReconcileOnPGNecessary(Asked.sel, pubs[Asked.name])
Hand ==
    /\ w.pc \in {"create", "own new", "update", "owner"} =>
          w.search = SearchName
    /\ At("create") => ~Exists(w.search)
    /\ At("own new") => Exists(Asked.name) /\ pubs[Asked.name].sel = Asked.sel
    /\ At("update") => (w.found.owner = w.owner => pubs[w.search].owner = db.role)
    /\ At("owner") =>
          /\ Exists(Asked.name) /\ Selected
          /\ w.search # Asked.name => ~Exists(w.search)
          /\ w.found.owner = w.owner => pubs[Asked.name].owner = db.role
    /\ w.pc \in {"slot", "success"} => Selected /\ pubs[Asked.name].owner = db.role
    /\ At("success") => slots[Asked.slot] = "own"

(* A smooth pass cannot fail once it has changed something.                *)
Known == {st.name, orig.name} \ {NoName}
SmoothPass ==
    /\ db.owner = db.role
    /\ w.pc # "idle" => w.owner = db.role
    /\ \A n \in Known :
          Exists(n) /\ ~(At("own new") /\ n = Asked.name) => pubs[n].owner = db.role
    /\ w.pc \in {"update", "owner"} /\ w.search # Asked.name => w.found.owner = w.owner
    /\ \A s \in SlotNames : slots[s] # "other"

(* What others may have made of a selection that was brought about.        *)
Drifted(sel, of) ==
    /\ sel.all = of.all /\ sel.schemas = of.schemas /\ sel.items \subseteq of.items
    /\ "drift" \notin edits.kinds => sel = of

(* The publication holds what the hash in the status says, or what the     *)
(* pass is about to write there.                                           *)
HashTrue ==
    IF w.pc \in Changed THEN Drifted(pubs[Asked.name].sel, Asked.sel)
    ELSE st.name # NoName /\ Exists(st.name) => Drifted(pubs[st.name].sel, st.hash.sel)

(* Where the publications are that were not there before.                  *)
Added == {n \in PubNames : Exists(n)} \ foreign.pubs
Named == Added \subseteq {IF w.pc \in Changed THEN Asked.name ELSE st.name}

SmoothInv == Smooth => SmoothPass /\ HashTrue /\ Named

(* Without edits of the selection there is only one to be found.           *)
OneSelection ==
    /\ seen.spec.sel = cr.spec.sel
    /\ \A n \in Known : Exists(n) => Drifted(pubs[n].sel, cr.spec.sel)
    /\ w.pc \in Changed => Drifted(pubs[Asked.name].sel, cr.spec.sel)

(* Without edits of the name there is only one.                            *)
OneName ==
    /\ seen.spec.name = cr.spec.name
    /\ orig.name \in {NoName, cr.spec.name}
    /\ Added \subseteq {cr.spec.name}

(* What a deletion has taken away stays away.                              *)
Cleared(spec) ==
    /\ ~Exists(spec.name)
    /\ spec.slot # NoName => slots[spec.slot] = "none"
Gone ==
    /\ At("drop slot") => ~Exists(seen.spec.name)
    /\ At("finalize") /\ seen.drop /\ db.phase # "gone" => Cleared(seen.spec)
    /\ ~cr.exists /\ cr.finalizer /\ cr.drop /\ db.phase # "gone" => Cleared(cr.spec)

PassInv == TypeOK /\ Life /\ Memory /\ OwnersKnown /\ Hand
IInv ==
    /\ PassInv /\ Gone /\ SmoothInv
    /\ "selection" \notin edits.kinds => OneSelection
    /\ "name" \notin edits.kinds => OneName

-----------------------------------------------------------------------------
(* The steps of a pass that keep the status, or end it in an error.        *)
PassStep ==
    \/ FindPublication \/ CreatePublication \/ OwnNew \/ UpdatePublication
    \/ ChangePublicationOwner \/ ManageSlot \/ DropPublication \/ DropReplicationSlot
    \/ Fail \/ Crash

LEMMA PassShape ==
    ASSUME TypeOK, PassStep
    PROVE  /\ PassFrame /\ w.pc # "idle"
           /\ \/ Ends
              \/ /\ UNCHANGED <<st, mem>> /\ w'.owner = w.owner
                 /\ \/ w.pc \in Working /\ w'.pc \in Working
                    \/ w.pc \in Dropping /\ w'.pc \in Dropping
<1> USE DEF At, GoesOn, Moves, Working, Dropping
<1>1. CASE FindPublication
  BY <1>1, FindStep
<1>2. CASE CreatePublication
  BY <1>2, CreateStep
<1>3. CASE OwnNew
  BY <1>3, OwnNewStep
<1>4. CASE UpdatePublication
  BY <1>4, UpdateStep
<1>5. CASE ChangePublicationOwner
  BY <1>5, OwnerStep
<1>6. CASE ManageSlot
  BY <1>6, SlotStep
<1>7. CASE DropPublication
  BY <1>7, DropPublicationStep
<1>8. CASE DropReplicationSlot
  BY <1>8, DropReplicationSlotStep
<1>9. CASE Fail \/ Crash
  BY <1>9, FaultStep
<1> QED BY <1>1, <1>2, <1>3, <1>4, <1>5, <1>6, <1>7, <1>8, <1>9 DEF PassStep

(* Who owns publications after a step of a pass.                           *)
LEMMA PassOwners ==
    ASSUME TypeOK, PassStep, NEW n \in PubNames
    PROVE  \/ pubs'[n].owner \in {NoOwner, Operator, db.role}
           \/ \E m \in PubNames : pubs'[n].owner = pubs[m].owner
<1>u. UNCHANGED pubs => \E m \in PubNames : pubs'[n].owner = pubs[m].owner
  OBVIOUS
<1>o. ASSUME NEW m \in PubNames, w.owner = db.role, pubs' = [pubs EXCEPT ![m].owner = w.owner]
      PROVE  \/ pubs'[n].owner = db.role
             \/ \E k \in PubNames : pubs'[n].owner = pubs[k].owner
  <2>1. pubs[m] \in Publications
    BY DEF TypeOK
  <2>2. CASE n = m
    BY <1>o, <2>1, <2>2 DEF TypeOK, Publications
  <2>3. CASE n # m
    BY <1>o, <2>3 DEF TypeOK
  <2> QED BY <2>2, <2>3
<1>s. w.pc \in {"create", "own new", "update", "owner"} => w.search \in PubNames
  BY DEF TypeOK
<1>1. CASE FindPublication \/ ManageSlot \/ DropReplicationSlot \/ Fail \/ Crash
  <2>1. UNCHANGED pubs
    BY <1>1, FindStep, SlotStep, DropReplicationSlotStep, FaultStep
  <2> QED BY <1>u, <2>1
<1>2. CASE CreatePublication
  <2>1. CASE pubs' = [pubs EXCEPT ![Asked.name] = [owner |-> Operator, sel |-> Asked.sel]]
    BY <2>1 DEF TypeOK
  <2> QED BY <1>2, <1>u, <2>1, CreateStep
<1>3. CASE OwnNew
  BY <1>3, <1>o, <1>u, OwnNewStep, AskedType
<1>4. CASE UpdatePublication
  <2>1. w.search \in PubNames
    BY <1>4, <1>s, UpdateStep DEF At
  <2>2. pubs[w.search] \in Publications
    BY <2>1 DEF TypeOK
  <2>3. ASSUME Updated
        PROVE  \/ pubs'[n].owner = NoOwner
               \/ pubs'[n].owner = pubs[w.search].owner
               \/ pubs'[n].owner = pubs[n].owner
    BY <2>2, <2>3 DEF Updated, NoPublication, Publications
  <2>4. UNCHANGED pubs \/ Updated
    BY <1>4, UpdateStep
  <2> QED BY <1>u, <2>1, <2>3, <2>4
<1>5. CASE ChangePublicationOwner
  BY <1>5, <1>o, <1>s, <1>u, OwnerStep DEF At
<1>6. CASE DropPublication
  <2>1. CASE pubs' = [pubs EXCEPT ![seen.spec.name] = NoPublication]
    BY <2>1 DEF TypeOK, NoPublication
  <2> QED BY <1>6, <1>u, <2>1, DropPublicationStep
<1> QED BY <1>1, <1>2, <1>3, <1>4, <1>5, <1>6 DEF PassStep

(* The cases of a step.                                                    *)
LEMMA NextCases ==
    ASSUME [Next]_vars
    PROVE  \/ UNCHANGED vars
           \/ \E copy \in CacheCopies : BeginWith(copy[1], copy[2])
           \/ PassStep \/ ManageSuccess \/ Finalize
           \/ Edited \/ ReportDatabase \/ RemoveDatabase
           \/ \E role \in Owners : RenameOwner(role)
           \/ \E name \in PubNames : Drift(name)
           \/ \E slot \in SlotNames : Consume(slot) \/ Release(slot)
BY DEF Next, Pass, Begin, Environment, PassStep, Edited

-----------------------------------------------------------------------------
(* Life and Memory.                                                        *)

LEMMA LifeStep ==
    ASSUME TypeOK, Life, [Next]_vars
    PROVE  Life'
<1>i. "idle" \notin Working /\ "idle" \notin Dropping /\ NoPass.pc = "idle"
  BY ValuesType DEF Working, Dropping
<1>d. Working \intersect Dropping = {}
  BY DEF Working, Dropping
<1>c. cr \in Resource
  BY DEF TypeOK
<1>1. CASE UNCHANGED vars
  BY <1>1 DEF vars, Life
<1>2. ASSUME NEW copy \in CacheCopies, BeginWith(copy[1], copy[2]) PROVE Life'
  <2> DEFINE c == copy[1]
             s == copy[2]
  <2>1. /\ c \in Resource /\ s \in Statuses
        /\ c = cr \/ c = seen
    BY CacheCopiesType
  <2>2. BeginWith(c, s)
    BY <1>2
  <2> HIDE DEF c, s
  <2>3. /\ c.finalizer => cr.finalizer
        /\ ~cr.exists /\ cr.finalizer =>
              cr.deleting /\ c \in {cr, [cr EXCEPT !.exists = TRUE]}
    BY <2>1 DEF Life
  <2>4. At("idle") /\ seen' = c
    BY <2>1, <2>2, BeginStep DEF BeginFrame
  <2>5. CASE UNCHANGED <<cr, w>> \/ (UNCHANGED cr /\ w' = NoPass)
    BY <1>i, <2>3, <2>4, <2>5 DEF Life, At
  <2>6. CASE c.exists /\ c.deleting /\ UNCHANGED cr /\ w'.pc \in {"drop publication", "finalize"}
    BY <2>3, <2>4, <2>6 DEF Life, Working
  <2>7. CASE /\ c = cr /\ c.exists
             /\ cr' = [cr EXCEPT !.finalizer = TRUE, !.spec = Filled(@)]
             /\ UNCHANGED w
    <3>1. cr'.exists /\ cr'.finalizer
      BY <1>c, <2>7 DEF Resource
    <3> QED BY <1>i, <2>4, <2>7, <3>1 DEF Life, At
  <2>8. CASE /\ c.exists /\ ~c.deleting /\ c.finalizer /\ Valid(c, s)
             /\ w'.pc = "find" /\ UNCHANGED cr
    <3>1. cr.exists
      BY <1>c, <2>3, <2>8 DEF Resource
    <3>2. c.spec.sel.all => c.spec.sel.schemas = {} /\ c.spec.sel.items = {}
      BY <2>8 DEF Valid
    <3> QED BY <1>d, <2>3, <2>4, <2>8, <3>1, <3>2 DEF Life, Working
  <2> QED BY <2>1, <2>2, <2>5, <2>6, <2>7, <2>8, BeginStep DEF Starts
<1>3. CASE PassStep
  BY <1>3, <1>i, <1>d, PassShape DEF PassFrame, Ends, Life
<1>4. CASE ManageSuccess
  BY <1>4, <1>i, SuccessStep DEF PassFrame, Life
<1>5. CASE Finalize
  <2>1. At("finalize") /\ UNCHANGED seen /\ w' = NoPass /\ seen.exists /\ seen.deleting
    BY <1>5, FinalizeStep DEF Ends, At, Life, Dropping
  <2>2. CASE UNCHANGED cr
    BY <1>i, <2>1, <2>2 DEF Life
  <2>3. CASE seen = cr /\ cr' = [cr EXCEPT !.exists = FALSE]
    <3>1. cr' \in Resource /\ ~cr'.exists /\ cr'.finalizer = cr.finalizer /\ cr'.deleting
      BY <1>c, <2>1, <2>3 DEF Resource
    <3>2. seen = [cr' EXCEPT !.exists = TRUE]
      BY <1>c, <2>1, <2>3 DEF Resource
    <3> QED BY <1>i, <2>1, <2>3, <3>1, <3>2 DEF Life
  <2> QED BY <1>5, <2>2, <2>3, FinalizeStep
<1>6. CASE Edited
  BY <1>6, EditedStep DEF Life
<1>7. CASE ReportDatabase \/ RemoveDatabase
  BY <1>7, DatabaseStep DEF Life
<1>8. ASSUME NEW role \in Owners, RenameOwner(role) PROVE Life'
  BY <1>8, RenameStep DEF Life
<1>9. ASSUME NEW name \in PubNames, Drift(name) PROVE Life'
  BY <1>9, DriftStep DEF Life
<1>10. ASSUME NEW slot \in SlotNames, Consume(slot) \/ Release(slot) PROVE Life'
  BY <1>10, ConsumerStep DEF Life
<1> QED BY <1>1, <1>2, <1>3, <1>4, <1>5, <1>6, <1>7, <1>8, <1>9, <1>10, NextCases

LEMMA StatusNames ==
    ASSUME TypeOK, Memory
    PROVE  st.name = st.hash.name
BY DEF Memory

LEMMA MemoryStep ==
    ASSUME TypeOK, Memory, [Next]_vars
    PROVE  Memory'
<1>i. NoPass.pc = "idle"
  BY ValuesType
<1>a. UNCHANGED seen => UNCHANGED Asked
  BY DEF Asked
<1>1. CASE UNCHANGED vars
  BY <1>1, <1>a DEF vars, Memory
<1>2. ASSUME NEW copy \in CacheCopies, BeginWith(copy[1], copy[2]) PROVE Memory'
  <2> DEFINE c == copy[1]
             s == copy[2]
  <2>1. /\ c \in Resource /\ s \in Statuses
        /\ s = st \/ (c = seen /\ s = orig)
    BY CacheCopiesType
  <2>2. BeginWith(c, s)
    BY <1>2
  <2> HIDE DEF c, s
  <2>3. At("idle") /\ seen' = c /\ orig' = s
    BY <2>1, <2>2, BeginStep DEF BeginFrame
  <2>4. st'.name = st.name /\ st'.hash = st.hash
    BY <2>1, <2>2, BeginStep DEF Starts
  <2>5. w'.pc # "idle" => mem' = s
    BY <1>i, <2>1, <2>2, <2>3, BeginStep DEF Starts, At
  <2>6. s.name = s.hash.name
    BY <2>1, StatusNames DEF Memory
  <2>7. CASE s = st
    BY <2>3, <2>4, <2>5, <2>6, <2>7 DEF Memory
  <2>8. CASE c = seen /\ s = orig
    BY <1>a, <2>3, <2>4, <2>5, <2>6, <2>8 DEF Memory
  <2> QED BY <2>1, <2>7, <2>8
<1>3. CASE PassStep
  BY <1>3, <1>a, <1>i, PassShape DEF PassFrame, Ends, Memory
<1>4. CASE ManageSuccess
  <2>1. UNCHANGED <<orig, seen>> /\ w'.pc = "idle" /\ UNCHANGED Asked
    BY <1>4, <1>a, <1>i, SuccessStep DEF PassFrame
  <2>2. CASE ~cr.exists
    BY <1>4, <2>1, <2>2, SuccessStep DEF Memory
  <2>3. CASE cr.exists /\ Asked = orig.hash
    BY <1>4, <2>1, <2>3, SuccessStep DEF Memory
  <2>4. CASE cr.exists /\ Asked # orig.hash
    <3>1. st'.hash = Asked
      BY <1>4, <2>4, SuccessStep
    <3>2. st'.name = Asked.name
      BY <1>4, <2>4, SuccessStep DEF Memory
    <3> QED BY <2>1, <3>1, <3>2 DEF Memory
  <2> QED BY <2>2, <2>3, <2>4
<1>5. CASE Finalize
  BY <1>5, <1>a, <1>i, FinalizeStep DEF Ends, Memory, At
<1>6. CASE Edited
  BY <1>6, <1>a, EditedStep DEF Memory
<1>7. CASE ReportDatabase \/ RemoveDatabase
  BY <1>7, <1>a, DatabaseStep DEF Memory
<1>8. ASSUME NEW role \in Owners, RenameOwner(role) PROVE Memory'
  BY <1>8, <1>a, RenameStep DEF Memory
<1>9. ASSUME NEW name \in PubNames, Drift(name) PROVE Memory'
  BY <1>9, <1>a, DriftStep DEF Memory
<1>10. ASSUME NEW slot \in SlotNames, Consume(slot) \/ Release(slot) PROVE Memory'
  BY <1>10, <1>a, ConsumerStep DEF Memory
<1> QED BY <1>1, <1>2, <1>3, <1>4, <1>5, <1>6, <1>7, <1>8, <1>9, <1>10, NextCases

-----------------------------------------------------------------------------
(* The owner role.                                                         *)

LEMMA OwnersStep ==
    ASSUME TypeOK, OwnersKnown, [Next]_vars
    PROVE  OwnersKnown'
<1>i. NoPass.pc = "idle"
  BY ValuesType
<1>t. db.owner \in Owners /\ db.role \in Owners
  BY DEF TypeOK
<1>s. ASSUME NEW owner \in Owners, Former(owner), UNCHANGED db,
             \A n \in PubNames :
                 \/ pubs'[n].owner \in {NoOwner, Operator, db.role}
                 \/ \E m \in PubNames : pubs'[n].owner = pubs[m].owner
      PROVE  owner # db'.role => \A n \in PubNames : pubs'[n].owner # owner
  BY <1>s, OwnersAssumption DEF Former
<1>1. CASE UNCHANGED vars
  BY <1>1 DEF vars, OwnersKnown, Former
<1>2. ASSUME NEW copy \in CacheCopies, BeginWith(copy[1], copy[2]) PROVE OwnersKnown'
  <2>1. At("idle") /\ UNCHANGED <<db, pubs>>
    BY <1>2, CacheCopiesType, BeginStep DEF BeginFrame
  <2>2. w'.pc # "idle" => w'.owner = db.owner
    BY <1>2, <1>i, <2>1, CacheCopiesType, BeginStep DEF Starts, At
  <2> QED BY <1>t, <2>1, <2>2 DEF OwnersKnown, Former
<1>3. CASE PassStep
  <2>1. UNCHANGED db /\ (w'.pc # "idle" => w.pc # "idle" /\ w'.owner = w.owner)
    BY <1>3, <1>i, PassShape DEF PassFrame, Ends
  <2>2. \A n \in PubNames :
            \/ pubs'[n].owner \in {NoOwner, Operator, db.role}
            \/ \E m \in PubNames : pubs'[n].owner = pubs[m].owner
    BY <1>3, PassOwners
  <2>3. Former(db.owner)'
    BY <1>s, <1>t, <2>1, <2>2 DEF OwnersKnown, Former
  <2>4. ASSUME w'.pc # "idle" PROVE w'.owner \in Owners /\ Former(w.owner)'
    BY <1>s, <2>1, <2>2, <2>4 DEF OwnersKnown, Former
  <2> QED BY <2>1, <2>3, <2>4 DEF OwnersKnown, Former
<1>4. CASE ManageSuccess
  BY <1>4, <1>i, SuccessStep DEF PassFrame, OwnersKnown, Former
<1>5. CASE Finalize
  BY <1>5, <1>i, FinalizeStep DEF Ends, OwnersKnown, Former
<1>6. CASE Edited
  BY <1>6, EditedStep DEF OwnersKnown, Former
<1>7. CASE ReportDatabase \/ RemoveDatabase
  <2>1. /\ UNCHANGED <<pubs, w>> /\ db'.role = db.role
        /\ db'.owner \in {db.owner, db.role}
    BY <1>7, DatabaseStep
  <2> QED BY <2>1 DEF OwnersKnown, Former
<1>8. ASSUME NEW role \in Owners, RenameOwner(role) PROVE OwnersKnown'
  <2>1. /\ role # db.role /\ UNCHANGED w
        /\ db'.owner = db.owner /\ db'.role = role
        /\ \A n \in PubNames :
              pubs'[n].owner = IF pubs[n].owner = db.role THEN role ELSE pubs[n].owner
    BY <1>8, RenameStep
  <2>2. ASSUME NEW owner \in Owners, Former(owner), owner # db'.role, NEW n \in PubNames
        PROVE  pubs'[n].owner # owner
    BY <2>1, <2>2 DEF Former
  <2> QED BY <1>t, <2>1, <2>2 DEF OwnersKnown, Former
<1>9. ASSUME NEW name \in PubNames, Drift(name) PROVE OwnersKnown'
  BY <1>9, DriftStep DEF OwnersKnown, Former
<1>10. ASSUME NEW slot \in SlotNames, Consume(slot) \/ Release(slot) PROVE OwnersKnown'
  BY <1>10, ConsumerStep DEF OwnersKnown, Former
<1> QED BY <1>1, <1>2, <1>3, <1>4, <1>5, <1>6, <1>7, <1>8, <1>9, <1>10, NextCases

-----------------------------------------------------------------------------
(* What a pass has in hand.                                                *)

(* The comparison looks at the selection of the publication only.          *)
LEMMA ComparesSelections ==
    ASSUME NEW sel, NEW p, NEW q, p.sel = q.sel
    PROVE  IsReconcileOnPGNecessary(sel, p) <=> IsReconcileOnPGNecessary(sel, q)
BY DEF IsReconcileOnPGNecessary, SchemasDiffer, ItemsDiffer, Published, Details

LEMMA SelectedKept ==
    ASSUME TypeOK, Selected, UNCHANGED <<seen, mem>>,
           pubs'[Asked.name].sel = pubs[Asked.name].sel
    PROVE  Selected'
<1>1. UNCHANGED Asked
  BY DEF Asked
<1>2. CASE pubs[Asked.name].sel = Asked.sel
  BY <1>1, <1>2 DEF Selected
<1>3. CASE Asked = mem.hash /\ ~IsReconcileOnPGNecessary(Asked.sel, pubs[Asked.name])
  <2>1. ~IsReconcileOnPGNecessary(Asked.sel, pubs'[Asked.name])
    BY <1>3, ComparesSelections
  <2> QED BY <1>1, <1>3, <2>1 DEF Selected
<1> QED BY <1>2, <1>3 DEF Selected

(* What the status calls the publication is what the spec calls it, when   *)
(* both hashes are the same.                                               *)
LEMMA SameHashSameName ==
    ASSUME TypeOK, Memory, w.pc # "idle", Asked = mem.hash
    PROVE  SearchName = Asked.name /\ mem.name = Asked.name
BY DEF Memory, SearchName

(* A pass that has nothing in hand.                                        *)
LEMMA NothingInHand ==
    ASSUME w'.pc \in {"idle", "find"} \union Dropping
    PROVE  Hand'
BY DEF Hand, At, Dropping

LEMMA HandPass ==
    ASSUME TypeOK, Memory, OwnersKnown, Hand, PassStep
    PROVE  Hand'
<1> USE DEF At
<1>i. Ends => w'.pc = "idle"
  BY ValuesType DEF Ends
<1>e. Ends => Hand'
  BY <1>i, NothingInHand
<1>a. UNCHANGED seen /\ UNCHANGED Asked
  BY PassShape DEF PassFrame, Asked
<1>p. /\ Asked.name \in PubNames /\ pubs[Asked.name] \in Publications
      /\ w.pc \in {"create", "own new", "update", "owner"} =>
            w.search \in PubNames /\ pubs[w.search] \in Publications
  BY AskedType DEF TypeOK
<1>d. UNCHANGED db
  BY PassShape DEF PassFrame
<1>n. UNCHANGED mem => UNCHANGED SearchName
  BY <1>a DEF SearchName
<1>1. CASE FindPublication
  <2> USE <1>1, FindStep
  <2>1. UNCHANGED <<mem, pubs>> /\ w'.search = SearchName /\ w'.found = pubs[SearchName]
        /\ w'.owner = w.owner /\ SearchName \in PubNames /\ w.pc = "find"
    OBVIOUS
  <2>2. w'.found.owner = w'.owner => pubs[SearchName].owner = db.role
    BY <2>1 DEF OwnersKnown, Former
  <2>3. CASE w'.pc \in {"create", "update"}
    <3>1. w'.pc = "create" => ~Exists(SearchName)
      BY <2>3
    <3> QED BY <1>d, <1>n, <2>1, <2>2, <2>3, <3>1 DEF Hand, Exists
  <2>4. CASE w'.pc = "owner"
    <3>1. Exists(SearchName) /\ Asked = mem.hash
          /\ ~IsReconcileOnPGNecessary(Asked.sel, pubs[SearchName])
      BY <2>4
    <3>2. SearchName = Asked.name
      BY <2>1, <3>1, SameHashSameName
    <3>3. Selected'
      BY <1>a, <2>1, <3>1, <3>2, SelectedKept DEF Selected
    <3> QED BY <1>a, <1>d, <2>1, <2>2, <2>4, <3>1, <3>2, <3>3 DEF Hand, SearchName, Exists
  <2> QED BY <2>3, <2>4
<1>2. CASE CreatePublication
  <2>1. CASE Ends
    BY <1>e, <2>1
  <2>2. CASE /\ pubs' = [pubs EXCEPT ![Asked.name] = [owner |-> Operator, sel |-> Asked.sel]]
             /\ Moves("own new")
    <3>1. pubs'[Asked.name] = [owner |-> Operator, sel |-> Asked.sel]
      BY <1>p, <2>2 DEF TypeOK
    <3>2. w.search = SearchName
      BY <1>2, CreateStep DEF Hand
    <3>3. pubs'[Asked.name].owner # NoOwner /\ pubs'[Asked.name].sel = Asked.sel
      BY <3>1 DEF Operator, NoOwner
    <3> QED BY <1>a, <1>n, <2>2, <3>2, <3>3 DEF Hand, Moves, Exists
  <2> QED BY <1>2, <2>1, <2>2, CreateStep DEF GoesOn
<1>3. CASE OwnNew
  <2>1. CASE Ends
    BY <1>e, <2>1
  <2>2. CASE /\ w.owner = db.role /\ pubs' = [pubs EXCEPT ![Asked.name].owner = w.owner]
             /\ Moves("slot")
    <3>1. pubs'[Asked.name].owner = db.role /\ pubs'[Asked.name].sel = pubs[Asked.name].sel
      BY <1>p, <2>2 DEF TypeOK, Publications
    <3>2. Selected'
      BY <1>3, <1>a, <2>2, <3>1, OwnNewStep, SelectedKept DEF Moves, Hand, Selected
    <3> QED BY <1>a, <1>d, <2>2, <3>1, <3>2 DEF Hand, Moves
  <2> QED BY <1>3, <2>1, <2>2, OwnNewStep DEF GoesOn
<1>4. CASE UpdatePublication
  <2>1. CASE Ends
    BY <1>e, <2>1
  <2>2. CASE Exists(w.search) /\ Updated /\ Moves("owner")
    <3>1. w.pc = "update"
      BY <1>4, UpdateStep
    <3>2. /\ pubs'[Asked.name] = [pubs[w.search] EXCEPT !.sel = Asked.sel]
          /\ w.search # Asked.name => pubs'[w.search] = NoPublication
      BY <1>p, <2>2, <3>1 DEF Updated
    <3>3. pubs'[Asked.name].sel = Asked.sel /\ pubs'[Asked.name].owner = pubs[w.search].owner
      BY <1>p, <3>1, <3>2 DEF Publications
    <3>4. Selected'
      BY <1>a, <3>3 DEF Selected
    <3>5. pubs'[Asked.name].owner # NoOwner
          /\ (w.search # Asked.name => pubs'[w.search].owner = NoOwner)
      BY <2>2, <3>2, <3>3 DEF Exists, NoPublication
    <3>6. w.found.owner = w.owner => pubs'[Asked.name].owner = db.role
      BY <3>1, <3>3 DEF Hand
    <3>7. w.search = SearchName
      BY <3>1 DEF Hand
    <3> QED BY <1>a, <1>d, <1>n, <2>2, <3>4, <3>5, <3>6, <3>7 DEF Hand, Moves, Exists
  <2> QED BY <1>4, <2>1, <2>2, UpdateStep DEF GoesOn
<1>5. CASE ChangePublicationOwner
  <2>1. CASE Ends
    BY <1>e, <2>1
  <2>2. CASE w.found.owner = w.owner /\ UNCHANGED pubs /\ Moves("slot")
    <3>1. Selected'
      BY <1>5, <1>a, <2>2, OwnerStep, SelectedKept DEF Moves, Hand
    <3> QED BY <1>5, <1>a, <1>d, <2>2, <3>1, OwnerStep DEF Hand, Moves
  <2>3. CASE /\ Exists(w.search) /\ w.owner = db.role
             /\ pubs' = [pubs EXCEPT ![w.search].owner = w.owner] /\ Moves("slot")
    <3>1. w.pc = "owner" /\ w.search = Asked.name
      BY <1>5, <2>3, OwnerStep DEF Hand
    <3>2. pubs'[Asked.name].owner = db.role /\ pubs'[Asked.name].sel = pubs[Asked.name].sel
      BY <1>p, <2>3, <3>1 DEF TypeOK, Publications
    <3>3. Selected'
      BY <1>a, <2>3, <3>1, <3>2, SelectedKept DEF Moves, Hand
    <3> QED BY <1>a, <1>d, <2>3, <3>2, <3>3 DEF Hand, Moves
  <2> QED BY <1>5, <2>1, <2>2, <2>3, OwnerStep DEF GoesOn
<1>6. CASE ManageSlot
  <2>1. CASE Ends
    BY <1>e, <2>1
  <2>2. CASE Moves("success") /\ slots'[Asked.slot] = "own" /\ UNCHANGED pubs
    <3>1. Selected'
      BY <1>6, <1>a, <2>2, SlotStep, SelectedKept DEF Moves, Hand
    <3> QED BY <1>6, <1>a, <1>d, <2>2, <3>1, SlotStep DEF Hand, Moves
  <2>3. slots' = [slots EXCEPT ![Asked.slot] = "own"] => slots'[Asked.slot] = "own"
    BY AskedType DEF TypeOK
  <2> QED BY <1>6, <2>1, <2>2, <2>3, SlotStep DEF GoesOn
<1>7. CASE DropPublication \/ DropReplicationSlot
  <2>1. Ends \/ w'.pc \in Dropping
    BY <1>7, DropPublicationStep, DropReplicationSlotStep DEF GoesOn, Moves, Dropping
  <2> QED BY <1>e, <2>1, NothingInHand
<1>8. CASE Fail \/ Crash
  BY <1>8, <1>e, FaultStep
<1> QED BY <1>1, <1>2, <1>3, <1>4, <1>5, <1>6, <1>7, <1>8 DEF PassStep

LEMMA HandStep ==
    ASSUME TypeOK, Memory, OwnersKnown, Hand, [Next]_vars
    PROVE  Hand'
<1>i. NoPass.pc = "idle"
  BY ValuesType
<1>a. UNCHANGED seen => UNCHANGED Asked
  BY DEF Asked
<1>n. UNCHANGED <<seen, mem>> => UNCHANGED SearchName
  BY DEF SearchName, Asked
<1>s. ASSUME UNCHANGED <<pubs, slots, seen, mem, w>>, db'.role = db.role
      PROVE  Hand'
  <2>1. UNCHANGED Selected
    BY <1>a, <1>s DEF Selected
  <2> QED BY <1>a, <1>n, <1>s, <2>1 DEF Hand, At, Exists
<1>1. CASE UNCHANGED vars
  BY <1>1, <1>s DEF vars
<1>2. ASSUME NEW copy \in CacheCopies, BeginWith(copy[1], copy[2]) PROVE Hand'
  BY <1>2, <1>i, CacheCopiesType, BeginStep, NothingInHand
     DEF BeginFrame, Starts, At, Dropping
<1>3. CASE PassStep
  BY <1>3, HandPass
<1>4. CASE ManageSuccess
  BY <1>4, <1>i, SuccessStep, NothingInHand
<1>5. CASE Finalize
  BY <1>5, <1>i, FinalizeStep, NothingInHand DEF Ends
<1>6. CASE Edited
  BY <1>6, <1>s, EditedStep
<1>7. CASE ReportDatabase \/ RemoveDatabase
  BY <1>7, <1>s, DatabaseStep
<1>8. ASSUME NEW role \in Owners, RenameOwner(role) PROVE Hand'
  <2>1. /\ UNCHANGED <<slots, seen, mem, w>> /\ UNCHANGED Asked /\ db'.role = role
        /\ \A n \in PubNames :
              /\ pubs'[n].sel = pubs[n].sel
              /\ pubs'[n].owner = IF pubs[n].owner = db.role THEN role ELSE pubs[n].owner
    BY <1>8, <1>a, RenameStep
  <2>2. Asked.name \in PubNames
        /\ (w.pc \in {"create", "own new", "update", "owner"} => w.search \in PubNames)
    BY AskedType DEF TypeOK
  <2>3. Selected => Selected'
    BY <2>1, <2>2, SelectedKept
  <2>4. db.role # NoOwner /\ role # NoOwner
    BY OwnersAssumption DEF TypeOK
  <2>5. \A n \in PubNames : pubs'[n].owner # NoOwner <=> pubs[n].owner # NoOwner
    BY <2>1, <2>4
  <2> QED BY <1>n, <2>1, <2>2, <2>3, <2>5 DEF Hand, At, Exists
<1>9. ASSUME NEW name \in PubNames, Drift(name) PROVE Hand'
  BY <1>9, DriftStep, NothingInHand DEF At
<1>10. ASSUME NEW slot \in SlotNames, Consume(slot) \/ Release(slot) PROVE Hand'
  BY <1>10, <1>s, ConsumerStep
<1> QED BY <1>1, <1>2, <1>3, <1>4, <1>5, <1>6, <1>7, <1>8, <1>9, <1>10, NextCases

-----------------------------------------------------------------------------
(* What the publications become, one by one.                               *)

LEMMA OwnedPoints ==
    ASSUME TypeOK, NEW m \in PubNames, pubs' = [pubs EXCEPT ![m].owner = w.owner],
           NEW n \in PubNames
    PROVE  /\ pubs'[n].sel = pubs[n].sel
           /\ pubs'[n].owner = IF n = m THEN w.owner ELSE pubs[n].owner
<1>1. pubs[m] \in Publications
  BY DEF TypeOK
<1>2. CASE n = m
  BY <1>1, <1>2 DEF TypeOK, Publications
<1>3. CASE n # m
  BY <1>3 DEF TypeOK
<1> QED BY <1>2, <1>3

LEMMA CreatedPoints ==
    ASSUME TypeOK, NEW n \in PubNames,
           pubs' = [pubs EXCEPT ![Asked.name] = [owner |-> Operator, sel |-> Asked.sel]]
    PROVE  /\ n = Asked.name => pubs'[n].sel = Asked.sel /\ pubs'[n].owner = Operator
           /\ n # Asked.name => pubs'[n] = pubs[n]
BY DEF TypeOK

LEMMA UpdatedPoints ==
    ASSUME TypeOK, Updated, NEW n \in PubNames, w.search \in PubNames
    PROVE  /\ n = Asked.name =>
                 pubs'[n].sel = Asked.sel /\ pubs'[n].owner = pubs[w.search].owner
           /\ n # Asked.name /\ n = w.search => pubs'[n].owner = NoOwner
           /\ n # Asked.name /\ n # w.search => pubs'[n] = pubs[n]
<1>1. pubs[w.search] \in Publications
  BY DEF TypeOK
<1>2. CASE n = Asked.name
  <2>1. pubs'[n] = [pubs[w.search] EXCEPT !.sel = Asked.sel]
    BY <1>2 DEF Updated
  <2> QED BY <1>1, <1>2, <2>1 DEF Publications
<1>3. CASE n # Asked.name
  BY <1>3 DEF Updated, NoPublication
<1> QED BY <1>2, <1>3

LEMMA DroppedPoints ==
    ASSUME TypeOK, NEW n \in PubNames,
           pubs' = [pubs EXCEPT ![seen.spec.name] = NoPublication]
    PROVE  /\ n = seen.spec.name => pubs'[n].owner = NoOwner
           /\ n # seen.spec.name => pubs'[n] = pubs[n]
BY DEF TypeOK, NoPublication

(* Owners come and go, publications do not.                                *)
LEMMA RenamedExist ==
    ASSUME TypeOK, NEW role \in Owners, RenameOwner(role), NEW n \in PubNames
    PROVE  Exists(n)' <=> Exists(n)
<1>1. db.role # NoOwner /\ role # NoOwner
  BY OwnersAssumption DEF TypeOK
<1>2. pubs'[n].owner = IF pubs[n].owner = db.role THEN role ELSE pubs[n].owner
  BY RenameStep
<1> QED BY <1>1, <1>2 DEF Exists

(* The kinds of edits and faults stay, and what was there before.          *)
LEMMA KindsKept ==
    ASSUME TypeOK, [Next]_vars
    PROVE  edits'.kinds = edits.kinds /\ faults'.kinds = faults.kinds /\ UNCHANGED foreign
<1>1. ASSUME NEW copy \in CacheCopies, BeginWith(copy[1], copy[2])
      PROVE  UNCHANGED <<edits, faults, foreign>>
  BY <1>1, CacheCopiesType, BeginStep DEF BeginFrame
<1>2. CASE PassStep
  BY <1>2, PassShape DEF PassFrame
<1>3. CASE ManageSuccess \/ Finalize
  BY <1>3, SuccessStep, FinalizeStep DEF PassFrame
<1>4. CASE Edited \/ ReportDatabase \/ RemoveDatabase
  BY <1>4, EditedStep, DatabaseStep
<1>5. ASSUME NEW role \in Owners, RenameOwner(role)
      PROVE  edits'.kinds = edits.kinds /\ UNCHANGED <<faults, foreign>>
  BY <1>5, RenameStep
<1>6. ASSUME NEW name \in PubNames, Drift(name)
      PROVE  edits'.kinds = edits.kinds /\ UNCHANGED <<faults, foreign>>
  BY <1>6, DriftStep
<1>7. ASSUME NEW slot \in SlotNames, Consume(slot) \/ Release(slot)
      PROVE  faults'.kinds = faults.kinds /\ UNCHANGED <<edits, foreign>>
  BY <1>7, ConsumerStep
<1> QED BY <1>1, <1>2, <1>3, <1>4, <1>5, <1>6, <1>7, NextCases DEF vars

(* What success writes.                                                    *)
LEMMA SuccessWrites ==
    ASSUME TypeOK, Memory, ManageSuccess
    PROVE  /\ UNCHANGED <<orig, seen, pubs, slots, cr, db, edits, faults, foreign>>
           /\ UNCHANGED Asked /\ w'.pc = "idle"
           /\ st'.name \in {st.name, Asked.name}
           /\ cr.exists => st'.name = Asked.name /\ st'.hash = Asked
<1>1. /\ UNCHANGED <<orig, seen, pubs, slots, cr, db, edits, faults, foreign>>
      /\ UNCHANGED Asked /\ w'.pc = "idle"
  BY SuccessStep, ValuesType DEF PassFrame, Asked
<1>2. CASE ~cr.exists
  BY <1>1, <1>2, SuccessStep
<1>3. CASE cr.exists /\ Asked = orig.hash
  BY <1>1, <1>3, SuccessStep DEF Memory
<1>4. CASE cr.exists /\ Asked # orig.hash
  <2>1. st'.hash = Asked
    BY <1>4, SuccessStep
  <2>2. st'.name = Asked.name
    BY <1>4, SuccessStep DEF Memory
  <2> QED BY <1>1, <1>4, <2>1, <2>2
<1> QED BY <1>2, <1>3, <1>4

(* A pass that begins: what the invariants see of it.                      *)
LEMMA BeginShape ==
    ASSUME TypeOK, NEW copy \in CacheCopies, BeginWith(copy[1], copy[2])
    PROVE  /\ UNCHANGED <<db, foreign, pubs, slots, active, edits, faults>>
           /\ At("idle") /\ w'.pc \in {"idle", "find"} \union Dropping
           /\ st'.name = st.name /\ st'.hash = st.hash
           /\ w'.pc # "idle" => w'.owner = db.owner
           /\ (orig' = st /\ seen' = cr) \/ (orig' = orig /\ seen' = seen)
           /\ w'.pc # "drop slot"
           /\ w'.pc = "finalize" => ~seen'.drop \/ db.phase = "gone"
           /\ \/ UNCHANGED cr
              \/ cr.exists /\ cr' = [cr EXCEPT !.finalizer = TRUE, !.spec = Filled(@)]
<1> DEFINE c == copy[1]
           s == copy[2]
<1>1. /\ c \in Resource /\ s \in Statuses
      /\ (c = cr /\ s = st) \/ (c = seen /\ s = orig)
  BY CacheCopiesType
<1>2. BeginWith(c, s)
  OBVIOUS
<1> HIDE DEF c, s
<1>3. BeginFrame(c, s)
  BY <1>1, <1>2, BeginStep
<1>4. /\ w'.pc \in {"idle", "find"} \union Dropping /\ w'.pc # "drop slot"
      /\ st'.name = st.name /\ st'.hash = st.hash
      /\ w'.pc # "idle" => w'.owner = db.owner
      /\ w'.pc = "finalize" => ~c.drop \/ db.phase = "gone"
      /\ UNCHANGED cr \/ (cr.exists /\ cr' = [cr EXCEPT !.finalizer = TRUE, !.spec = Filled(@)])
  BY <1>1, <1>2, <1>3, BeginStep, ValuesType DEF BeginFrame, Starts, At, Dropping
<1> QED BY <1>1, <1>3, <1>4 DEF BeginFrame

LEMMA KnownAfterBegin ==
    ASSUME TypeOK, NEW copy \in CacheCopies, BeginWith(copy[1], copy[2])
    PROVE  Known' \subseteq Known
BY BeginShape DEF Known

-----------------------------------------------------------------------------
(* Smooth passes.                                                          *)

LEMMA SmoothMoves ==
    ASSUME Smooth
    PROVE  /\ \A pc : GoesOn(pc) => Moves(pc)
           /\ ~(TypeOK /\ (Fail \/ Crash))
           /\ \A role \in Owners : ~(TypeOK /\ RenameOwner(role))
<1>1. "lost" \notin faults.kinds /\ "error" \notin faults.kinds /\ "crash" \notin faults.kinds
      /\ "owner" \notin edits.kinds
  BY DEF Smooth
<1>2. ~(TypeOK /\ (Fail \/ Crash))
  BY <1>1, FaultStep
<1>3. ASSUME NEW role \in Owners, TypeOK, RenameOwner(role) PROVE FALSE
  BY <1>1, <1>3, RenameStep
<1>4. ASSUME NEW pc PROVE GoesOn(pc) => Moves(pc)
  BY <1>1 DEF GoesOn
<1> QED BY <1>2, <1>3, <1>4

(* The publication that a pass looks up under the name in its status.      *)
LEMMA SearchKnown ==
    ASSUME TypeOK, Memory, w.pc # "idle", SearchName # Asked.name
    PROVE  SearchName \in Known /\ SearchName = orig.name
BY DEF Memory, SearchName, Known

(* What is left to show when a step of a smooth pass goes on.              *)
LEMMA SmoothPassFrom ==
    ASSUME SmoothPass, PassStep, TypeOK, NEW pc, Moves(pc), pc \notin {"update", "owner"},
           \A n \in Known : Exists(n)' /\ ~(pc = "own new" /\ n = Asked.name)
                               => pubs'[n].owner = db.role,
           \A s \in SlotNames : slots'[s] # "other"
    PROVE  SmoothPass'
<1>1. UNCHANGED <<db, seen, orig, st>> /\ w'.pc = pc /\ w'.owner = w.owner /\ w.pc # "idle"
  BY PassShape DEF PassFrame, Moves
<1>2. UNCHANGED Asked /\ UNCHANGED Known
  BY <1>1 DEF Asked, Known
<1>3. (At("own new") <=> pc = "own new")'
  BY <1>1 DEF At
<1> QED BY <1>1, <1>2, <1>3 DEF SmoothPass

LEMMA SmoothPassEnds ==
    ASSUME PassInv, SmoothPass, PassStep, Ends, UNCHANGED <<pubs, slots>>, ~At("own new")
    PROVE  SmoothPass'
<1>1. UNCHANGED <<db, orig>> /\ mem = orig /\ w'.pc = "idle"
  BY PassShape, ValuesType DEF PassInv, Memory, PassFrame, Ends
<1>2. Known' = Known
  BY <1>1 DEF Ends, Known
<1> QED BY <1>1, <1>2 DEF SmoothPass, Exists, At

LEMMA SmoothPassPass ==
    ASSUME PassInv, Smooth, SmoothPass, PassStep
    PROVE  SmoothPass'
<1> USE DEF At
<1>t. TypeOK /\ Life /\ Memory /\ OwnersKnown /\ Hand
  BY DEF PassInv
<1>f. w.pc # "idle" /\ w.owner = db.role
  BY <1>t, PassShape DEF SmoothPass
<1>k. Known \subseteq PubNames
  BY <1>t DEF Known, TypeOK, Statuses
<1>p. /\ Asked.name \in PubNames
      /\ w.pc \in {"create", "own new", "update", "owner"} => w.search \in PubNames
  BY <1>t, AskedType DEF TypeOK
<1>e. Ends /\ UNCHANGED <<pubs, slots>> /\ w.pc # "own new" => SmoothPass'
  BY SmoothPassEnds
<1>s. UNCHANGED slots => \A s \in SlotNames : slots'[s] # "other"
  BY DEF SmoothPass
<1>o. w.pc # "own new" => \A n \in Known : Exists(n) => pubs[n].owner = db.role
  BY DEF SmoothPass
<1>n. UNCHANGED pubs /\ w.pc # "own new" =>
          \A n \in Known : Exists(n)' => pubs'[n].owner = db.role
  BY <1>o DEF Exists
<1>1. CASE FindPublication
  <2>1. /\ UNCHANGED <<st, orig, mem, pubs, slots, db, seen>> /\ w.pc = "find"
        /\ w'.owner = w.owner /\ w'.pc \in {"create", "update", "owner"}
        /\ w'.search = SearchName /\ w'.found = pubs[SearchName]
        /\ w'.pc \in {"update", "owner"} => Exists(SearchName)
    BY <1>1, <1>t, FindStep DEF PassFrame
  <2>2. ASSUME w'.pc \in {"update", "owner"}, SearchName # Asked.name
        PROVE  w'.found.owner = w'.owner
    <3>1. SearchName \in Known /\ Exists(SearchName)
      BY <1>f, <1>t, <2>1, <2>2, SearchKnown
    <3>2. pubs[SearchName].owner = db.role
      BY <1>o, <2>1, <3>1
    <3> QED BY <1>f, <2>1, <3>2
  <2>3. Known' = Known /\ UNCHANGED Asked
    BY <2>1 DEF Known, Asked
  <2> QED BY <1>f, <2>1, <2>2, <2>3 DEF SmoothPass, Exists
<1>2. CASE CreatePublication
  <2>1. w.pc = "create" /\ ((Ends /\ UNCHANGED <<pubs, slots>>)
        \/ /\ pubs' = [pubs EXCEPT ![Asked.name] = [owner |-> Operator, sel |-> Asked.sel]]
           /\ UNCHANGED slots /\ Moves("own new"))
    BY <1>2, <1>t, CreateStep, SmoothMoves
  <2>2. CASE /\ pubs' = [pubs EXCEPT ![Asked.name] = [owner |-> Operator, sel |-> Asked.sel]]
             /\ UNCHANGED slots /\ Moves("own new")
    <3>1. ASSUME NEW n \in Known, Exists(n)', n # Asked.name PROVE pubs'[n].owner = db.role
      <4>1. pubs'[n] = pubs[n]
        BY <1>k, <1>t, <2>2, <3>1, CreatedPoints
      <4> QED BY <1>o, <2>1, <3>1, <4>1 DEF Exists
    <3> QED BY <1>s, <1>t, <2>2, <3>1, SmoothPassFrom
  <2> QED BY <1>e, <2>1, <2>2
<1>3. CASE OwnNew
  <2>1. /\ w.pc = "own new" /\ UNCHANGED slots /\ Moves("slot")
        /\ pubs' = [pubs EXCEPT ![Asked.name].owner = w.owner]
    BY <1>3, <1>f, <1>t, OwnNewStep, SmoothMoves
  <2>2. ASSUME NEW n \in Known, Exists(n)' PROVE pubs'[n].owner = db.role
    <3>1. pubs'[n].owner = IF n = Asked.name THEN w.owner ELSE pubs[n].owner
      BY <1>k, <1>p, <1>t, <2>1, OwnedPoints
    <3> QED BY <1>f, <2>2, <3>1 DEF SmoothPass, Exists
  <2> QED BY <1>s, <1>t, <2>1, <2>2, SmoothPassFrom
<1>4. CASE UpdatePublication
  <2>1. w.pc = "update" /\ ((Ends /\ UNCHANGED <<pubs, slots>>)
        \/ (Exists(w.search) /\ Updated /\ UNCHANGED slots /\ Moves("owner")))
    BY <1>4, <1>t, UpdateStep, SmoothMoves DEF Updated
  <2>2. CASE Exists(w.search) /\ Updated /\ UNCHANGED slots /\ Moves("owner")
    <3>1. w.search \in PubNames /\ w.search = SearchName
      BY <1>p, <1>t, <2>1 DEF Hand
    <3>2. w.search \in Known => pubs[w.search].owner = db.role
      BY <1>o, <2>1, <2>2
    <3>3. w.search # Asked.name => w.search \in Known
      BY <1>f, <1>t, <3>1, SearchKnown
    <3>4. ASSUME NEW n \in Known, Exists(n)' PROVE pubs'[n].owner = db.role
      <4>1. /\ n = Asked.name => pubs'[n].owner = pubs[w.search].owner
            /\ n # Asked.name /\ n = w.search => pubs'[n].owner = NoOwner
            /\ n # Asked.name /\ n # w.search => pubs'[n] = pubs[n]
        BY <1>k, <1>t, <2>2, <3>1, UpdatedPoints
      <4>2. CASE n = Asked.name
        BY <3>2, <3>3, <4>1, <4>2
      <4>3. CASE n # Asked.name
        BY <1>o, <2>1, <3>4, <4>1, <4>3 DEF Exists
      <4> QED BY <4>2, <4>3
    <3>5. UNCHANGED <<db, seen, orig, st>> /\ w'.pc = "owner" /\ w'.owner = w.owner
          /\ w'.search = w.search /\ w'.found = w.found
      BY <1>t, <2>2, PassShape DEF PassFrame, Moves
    <3>6. UNCHANGED Asked /\ UNCHANGED Known
      BY <3>5 DEF Asked, Known
    <3> QED BY <1>f, <2>1, <2>2, <3>4, <3>5, <3>6 DEF SmoothPass
  <2> QED BY <1>e, <2>1, <2>2
<1>5. CASE ChangePublicationOwner
  <2>1. w.pc = "owner" /\ UNCHANGED slots /\ ((Ends /\ UNCHANGED <<pubs, slots>>)
        \/ (UNCHANGED pubs /\ Moves("slot"))
        \/ (pubs' = [pubs EXCEPT ![w.search].owner = w.owner] /\ Moves("slot")))
    BY <1>5, <1>t, OwnerStep, SmoothMoves
  <2>2. CASE UNCHANGED pubs /\ Moves("slot")
    BY <1>n, <1>s, <1>t, <2>1, <2>2, SmoothPassFrom
  <2>3. CASE pubs' = [pubs EXCEPT ![w.search].owner = w.owner] /\ Moves("slot")
    <3>1. ASSUME NEW n \in Known, Exists(n)' PROVE pubs'[n].owner = db.role
      <4>1. pubs'[n].owner = IF n = w.search THEN w.owner ELSE pubs[n].owner
        BY <1>k, <1>p, <1>t, <2>1, <2>3, OwnedPoints
      <4> QED BY <1>f, <1>o, <2>1, <3>1, <4>1 DEF Exists
    <3> QED BY <1>s, <1>t, <2>1, <2>3, <3>1, SmoothPassFrom
  <2> QED BY <1>e, <2>1, <2>2, <2>3
<1>6. CASE ManageSlot
  <2>1. w.pc = "slot" /\ UNCHANGED pubs /\ ((Ends /\ UNCHANGED slots)
        \/ (UNCHANGED slots /\ Moves("success"))
        \/ (slots' = [slots EXCEPT ![Asked.slot] = "own"] /\ Moves("success")))
    BY <1>6, <1>t, SlotStep, SmoothMoves
  <2>2. CASE UNCHANGED slots /\ Moves("success")
    BY <1>n, <1>s, <1>t, <2>1, <2>2, SmoothPassFrom
  <2>3. CASE slots' = [slots EXCEPT ![Asked.slot] = "own"] /\ Moves("success")
    <3>1. \A s \in SlotNames : slots'[s] # "other"
      BY <1>t, <2>3 DEF SmoothPass, TypeOK
    <3> QED BY <1>n, <1>t, <2>1, <2>3, <3>1, SmoothPassFrom
  <2> QED BY <1>e, <2>1, <2>2, <2>3
<1>7. CASE DropPublication
  <2>1. w.pc = "drop publication" /\ UNCHANGED slots /\ ((Ends /\ UNCHANGED pubs)
        \/ (pubs' = [pubs EXCEPT ![seen.spec.name] = NoPublication] /\ Moves("drop slot")))
    BY <1>7, <1>t, DropPublicationStep, SmoothMoves
  <2>2. CASE pubs' = [pubs EXCEPT ![seen.spec.name] = NoPublication] /\ Moves("drop slot")
    <3>1. ASSUME NEW n \in Known, Exists(n)' PROVE pubs'[n].owner = db.role
      <4>1. pubs'[n].owner = NoOwner \/ pubs'[n] = pubs[n]
        BY <1>k, <1>t, <2>2, DroppedPoints
      <4> QED BY <1>o, <2>1, <3>1, <4>1 DEF Exists
    <3> QED BY <1>s, <1>t, <2>1, <2>2, <3>1, SmoothPassFrom
  <2> QED BY <1>e, <2>1, <2>2
<1>8. CASE DropReplicationSlot
  <2>1. w.pc = "drop slot" /\ UNCHANGED pubs /\ ((Ends /\ UNCHANGED slots)
        \/ (UNCHANGED slots /\ Moves("finalize"))
        \/ (slots' = [slots EXCEPT ![seen.spec.slot] = "none"] /\ Moves("finalize")))
    BY <1>8, <1>t, DropReplicationSlotStep, SmoothMoves
  <2>2. CASE UNCHANGED slots /\ Moves("finalize")
    BY <1>n, <1>s, <1>t, <2>1, <2>2, SmoothPassFrom
  <2>3. CASE slots' = [slots EXCEPT ![seen.spec.slot] = "none"] /\ Moves("finalize")
    <3>1. \A s \in SlotNames : slots'[s] # "other"
      BY <1>t, <2>3 DEF SmoothPass, TypeOK
    <3> QED BY <1>n, <1>t, <2>1, <2>3, <3>1, SmoothPassFrom
  <2> QED BY <1>e, <2>1, <2>2, <2>3
<1>9. CASE Fail \/ Crash
  BY <1>9, <1>t, SmoothMoves
<1> QED BY <1>1, <1>2, <1>3, <1>4, <1>5, <1>6, <1>7, <1>8, <1>9 DEF PassStep

LEMMA SmoothPassStep ==
    ASSUME PassInv, Smooth, SmoothPass, [Next]_vars
    PROVE  SmoothPass'
<1>t. TypeOK /\ Life /\ Memory /\ OwnersKnown /\ Hand
  BY DEF PassInv
<1>a. UNCHANGED seen => UNCHANGED Asked
  BY DEF Asked
<1>k. UNCHANGED <<st, orig>> => UNCHANGED Known
  BY DEF Known
<1>n. Known \subseteq PubNames
  BY <1>t DEF Known, TypeOK, Statuses
<1>s. ASSUME UNCHANGED <<st, orig, pubs, slots, seen, w>>, db'.role = db.role,
             db'.owner \in {db.owner, db.role}
      PROVE  SmoothPass'
  BY <1>a, <1>k, <1>s DEF SmoothPass, Exists, At
<1>1. CASE UNCHANGED vars
  BY <1>1, <1>s DEF vars
<1>2. ASSUME NEW copy \in CacheCopies, BeginWith(copy[1], copy[2]) PROVE SmoothPass'
  <2>1. /\ UNCHANGED <<db, pubs, slots>> /\ At("idle")
        /\ w'.pc \in {"idle", "find"} \union Dropping
        /\ w'.pc # "idle" => w'.owner = db.owner
        /\ Known' \subseteq Known
    BY <1>2, <1>t, BeginShape, KnownAfterBegin
  <2> QED BY <2>1 DEF SmoothPass, Exists, At, Dropping
<1>3. CASE PassStep
  BY <1>3, SmoothPassPass
<1>4. CASE ManageSuccess
  <2>1. /\ UNCHANGED <<pubs, slots, db>> /\ w'.pc = "idle" /\ At("success")
        /\ Known' \subseteq Known \union {Asked.name}
    BY <1>4, <1>t, SuccessWrites, SuccessStep DEF Known
  <2>2. pubs[Asked.name].owner = db.role
    BY <1>t, <2>1 DEF Hand, At
  <2> QED BY <2>1, <2>2 DEF SmoothPass, Exists, At
<1>5. CASE Finalize
  <2>1. /\ UNCHANGED <<pubs, slots, db, orig>> /\ w'.pc = "idle" /\ At("finalize")
        /\ mem = orig /\ Known' = Known
    BY <1>5, <1>t, FinalizeStep, ValuesType DEF Ends, Memory, At, Known
  <2> QED BY <2>1 DEF SmoothPass, Exists, At
<1>6. CASE Edited
  BY <1>6, <1>s, <1>t, EditedStep
<1>7. CASE ReportDatabase \/ RemoveDatabase
  BY <1>7, <1>s, <1>t, DatabaseStep
<1>8. ASSUME NEW role \in Owners, RenameOwner(role) PROVE SmoothPass'
  BY <1>8, <1>t, SmoothMoves
<1>9. ASSUME NEW name \in PubNames, Drift(name) PROVE SmoothPass'
  <2>1. /\ UNCHANGED <<st, orig, slots, seen, w, db>> /\ At("idle")
        /\ \A n \in PubNames : pubs'[n].owner = pubs[n].owner
    BY <1>9, <1>t, DriftStep
  <2> QED BY <1>k, <1>n, <2>1 DEF SmoothPass, Exists, At
<1>10. ASSUME NEW slot \in SlotNames, Consume(slot) \/ Release(slot) PROVE SmoothPass'
  BY <1>10, <1>s, <1>t, ConsumerStep
<1> QED BY <1>1, <1>2, <1>3, <1>4, <1>5, <1>6, <1>7, <1>8, <1>9, <1>10, NextCases

-----------------------------------------------------------------------------
(* What a step of a pass makes of the publications.                        *)

LEMMA PassSelections ==
    ASSUME PassInv, PassStep, NEW n \in PubNames
    PROVE  \/ pubs'[n].owner = NoOwner
           \/ n = Asked.name /\ w.pc \in {"create", "update"} /\ pubs'[n].sel = Asked.sel
           \/ pubs'[n].sel = pubs[n].sel /\ Exists(n)
<1> USE DEF At
<1>t. TypeOK /\ Hand
  BY DEF PassInv
<1>p. /\ Asked.name \in PubNames
      /\ w.pc \in {"create", "own new", "update", "owner"} => w.search \in PubNames
  BY <1>t, AskedType DEF TypeOK
<1>u. UNCHANGED pubs => \/ pubs'[n].owner = NoOwner
                        \/ pubs'[n].sel = pubs[n].sel /\ Exists(n)
  BY DEF Exists
<1>o. ASSUME NEW m \in PubNames, Exists(m), pubs' = [pubs EXCEPT ![m].owner = w.owner]
      PROVE  \/ pubs'[n].owner = NoOwner
             \/ pubs'[n].sel = pubs[n].sel /\ Exists(n)
  <2>1. /\ pubs'[n].sel = pubs[n].sel
        /\ pubs'[n].owner = IF n = m THEN w.owner ELSE pubs[n].owner
    BY <1>o, <1>t, OwnedPoints
  <2> QED BY <1>o, <2>1 DEF Exists
<1>1. CASE FindPublication \/ ManageSlot \/ DropReplicationSlot \/ Fail \/ Crash
  <2>1. UNCHANGED pubs
    BY <1>1, <1>t, FindStep, SlotStep, DropReplicationSlotStep, FaultStep
  <2> QED BY <1>u, <2>1
<1>2. CASE CreatePublication
  <2>1. CASE pubs' = [pubs EXCEPT ![Asked.name] = [owner |-> Operator, sel |-> Asked.sel]]
    <3>1. /\ n = Asked.name => pubs'[n].sel = Asked.sel
          /\ n # Asked.name => pubs'[n] = pubs[n]
      BY <1>t, <2>1, CreatedPoints
    <3>2. w.pc = "create"
      BY <1>2, <1>t, CreateStep
    <3> QED BY <3>1, <3>2 DEF Exists
  <2>2. UNCHANGED pubs
        \/ pubs' = [pubs EXCEPT ![Asked.name] = [owner |-> Operator, sel |-> Asked.sel]]
    BY <1>2, <1>t, CreateStep
  <2> QED BY <1>u, <2>1, <2>2
<1>3. CASE OwnNew
  <2>1. Exists(Asked.name)
    BY <1>3, <1>t, OwnNewStep DEF Hand
  <2>2. UNCHANGED pubs \/ pubs' = [pubs EXCEPT ![Asked.name].owner = w.owner]
    BY <1>3, <1>t, OwnNewStep
  <2> QED BY <1>o, <1>p, <1>u, <2>1, <2>2
<1>4. CASE UpdatePublication
  <2>1. w.pc = "update" /\ w.search \in PubNames /\ (UNCHANGED pubs \/ Updated)
    BY <1>4, <1>p, <1>t, UpdateStep
  <2>2. CASE Updated
    <3>1. /\ n = Asked.name => pubs'[n].sel = Asked.sel
          /\ n # Asked.name => pubs'[n].owner = NoOwner \/ pubs'[n] = pubs[n]
      BY <1>t, <2>1, <2>2, UpdatedPoints
    <3> QED BY <2>1, <3>1 DEF Exists
  <2> QED BY <1>u, <2>1, <2>2
<1>5. CASE ChangePublicationOwner
  <2>1. w.search \in PubNames
    BY <1>5, <1>p, <1>t, OwnerStep
  <2>2. \/ UNCHANGED pubs
        \/ Exists(w.search) /\ pubs' = [pubs EXCEPT ![w.search].owner = w.owner]
    BY <1>5, <1>t, OwnerStep
  <2> QED BY <1>o, <1>u, <2>1, <2>2
<1>6. CASE DropPublication
  <2>1. CASE pubs' = [pubs EXCEPT ![seen.spec.name] = NoPublication]
    <3>1. pubs'[n].owner = NoOwner \/ pubs'[n] = pubs[n]
      BY <1>t, <2>1, DroppedPoints
    <3> QED BY <3>1 DEF Exists
  <2>2. UNCHANGED pubs \/ pubs' = [pubs EXCEPT ![seen.spec.name] = NoPublication]
    BY <1>6, <1>t, DropPublicationStep
  <2> QED BY <1>u, <2>1, <2>2
<1> QED BY <1>1, <1>2, <1>3, <1>4, <1>5, <1>6 DEF PassStep

(* When a pass is past its first change, the publication selects what was  *)
(* asked for, or what it did before.                                       *)
LEMMA PassSelected ==
    ASSUME PassInv, PassStep, w'.pc \in Changed
    PROVE  \/ /\ w.pc \in {"create", "update"} /\ pubs'[Asked.name].sel = Asked.sel
              /\ w.pc = "update" => Updated
           \/ w.pc \in Changed /\ pubs'[Asked.name].sel = pubs[Asked.name].sel
           \/ /\ w.pc = "find" /\ UNCHANGED pubs /\ Exists(Asked.name)
              /\ Asked = mem.hash /\ mem.name = Asked.name /\ SearchName = Asked.name
<1> USE DEF At, Changed
<1>t. TypeOK /\ Memory /\ Hand
  BY DEF PassInv
<1>p. /\ Asked.name \in PubNames
      /\ w.pc \in {"create", "own new", "update", "owner"} => w.search \in PubNames
  BY <1>t, AskedType DEF TypeOK
<1>e. ~Ends
  BY ValuesType DEF Ends
<1>1. CASE FindPublication
  <2>1. w.pc = "find" /\ w'.pc = "owner" /\ UNCHANGED pubs
    BY <1>1, <1>t, FindStep
  <2>2. Exists(SearchName) /\ Asked = mem.hash
    BY <1>1, <1>t, <2>1, FindStep
  <2> QED BY <1>t, <2>1, <2>2, SameHashSameName
<1>2. CASE CreatePublication
  <2>1. w.pc = "create"
        /\ pubs' = [pubs EXCEPT ![Asked.name] = [owner |-> Operator, sel |-> Asked.sel]]
    BY <1>2, <1>e, <1>t, CreateStep
  <2> QED BY <1>p, <1>t, <2>1, CreatedPoints
<1>3. CASE OwnNew
  <2>1. w.pc = "own new" /\ pubs' = [pubs EXCEPT ![Asked.name].owner = w.owner]
    BY <1>3, <1>e, <1>t, OwnNewStep
  <2> QED BY <1>p, <1>t, <2>1, OwnedPoints
<1>4. CASE UpdatePublication
  <2>1. w.pc = "update" /\ Updated
    BY <1>4, <1>e, <1>t, UpdateStep
  <2> QED BY <1>p, <1>t, <2>1, UpdatedPoints
<1>5. CASE ChangePublicationOwner
  <2>1. /\ w.pc = "owner"
        /\ UNCHANGED pubs \/ pubs' = [pubs EXCEPT ![w.search].owner = w.owner]
    BY <1>5, <1>e, <1>t, OwnerStep
  <2>2. pubs'[Asked.name].sel = pubs[Asked.name].sel
    BY <1>p, <1>t, <2>1, OwnedPoints
  <2> QED BY <2>1, <2>2
<1>6. CASE ManageSlot
  <2>1. w.pc = "slot" /\ UNCHANGED pubs
    BY <1>6, <1>t, SlotStep
  <2> QED BY <2>1
<1>7. CASE DropPublication
  BY <1>7, <1>e, <1>t, DropPublicationStep DEF GoesOn, Moves
<1>8. CASE DropReplicationSlot
  BY <1>8, <1>e, <1>t, DropReplicationSlotStep DEF GoesOn, Moves
<1>9. CASE Fail \/ Crash
  BY <1>9, <1>e, <1>t, FaultStep
<1> QED BY <1>1, <1>2, <1>3, <1>4, <1>5, <1>6, <1>7, <1>8, <1>9 DEF PassStep

(* A smooth pass goes on once it has changed something ...                 *)
LEMMA SmoothGoesOn ==
    ASSUME PassInv, Smooth, SmoothPass, PassStep, w.pc \in Changed
    PROVE  w'.pc \in Changed /\ UNCHANGED st
<1> USE DEF At, Changed
<1>t. TypeOK /\ Hand /\ w.pc # "idle" /\ w.owner = db.role
  BY DEF PassInv, SmoothPass
<1>1. CASE OwnNew
  BY <1>1, <1>t, OwnNewStep, SmoothMoves DEF Moves
<1>2. CASE ChangePublicationOwner
  <2>1. w.found.owner # w.owner => Exists(w.search)
    BY <1>2, <1>t, OwnerStep DEF SmoothPass, Hand
  <2> QED BY <1>2, <1>t, <2>1, OwnerStep, SmoothMoves DEF Moves
<1>3. CASE ManageSlot
  <2>1. slots[Asked.slot] # "other"
    BY <1>t, AskedType DEF SmoothPass
  <2> QED BY <1>3, <1>t, <2>1, SlotStep, SmoothMoves DEF Moves
<1>4. CASE Fail \/ Crash
  BY <1>4, <1>t, SmoothMoves
<1>5. CASE FindPublication \/ CreatePublication \/ UpdatePublication \/ DropPublication
           \/ DropReplicationSlot
  BY <1>5, <1>t, FindStep, CreateStep, UpdateStep, DropPublicationStep,
     DropReplicationSlotStep
<1> QED BY <1>1, <1>2, <1>3, <1>4, <1>5 DEF PassStep

(* ... and until then leaves publications alone, or drops them.            *)
LEMMA SmoothRest ==
    ASSUME PassInv, Smooth, PassStep, w.pc \notin Changed, w'.pc \notin Changed,
           NEW n \in PubNames
    PROVE  /\ pubs'[n].owner = NoOwner \/ pubs'[n] = pubs[n]
           /\ st'.name = st.name /\ st'.hash = st.hash
<1> USE DEF At, Changed
<1>t. TypeOK /\ Hand
  BY DEF PassInv
<1>s. st'.name = st.name /\ st'.hash = st.hash
  BY PassShape DEF PassInv, Memory, Ends
<1>1. CASE FindPublication \/ DropReplicationSlot \/ Fail \/ Crash
  <2>1. UNCHANGED pubs
    BY <1>1, <1>t, FindStep, DropReplicationSlotStep, FaultStep
  <2> QED BY <1>s, <2>1
<1>2. CASE CreatePublication
  <2>1. UNCHANGED pubs
    BY <1>2, <1>t, CreateStep, SmoothMoves DEF Moves
  <2> QED BY <1>s, <2>1
<1>3. CASE UpdatePublication
  <2>1. UNCHANGED pubs
    BY <1>3, <1>t, UpdateStep, SmoothMoves DEF Moves
  <2> QED BY <1>s, <2>1
<1>4. CASE DropPublication
  <2>1. UNCHANGED pubs \/ pubs' = [pubs EXCEPT ![seen.spec.name] = NoPublication]
    BY <1>4, <1>t, DropPublicationStep
  <2> QED BY <1>s, <1>t, <2>1, DroppedPoints
<1>5. CASE OwnNew \/ ChangePublicationOwner \/ ManageSlot
  BY <1>5, <1>t, OwnNewStep, OwnerStep, SlotStep
<1> QED BY <1>1, <1>2, <1>3, <1>4, <1>5 DEF PassStep

-----------------------------------------------------------------------------
(* The hash of a smooth resource is true.                                  *)

LEMMA HashTruePass ==
    ASSUME PassInv, Smooth, SmoothPass, HashTrue, PassStep
    PROVE  HashTrue'
<1>t. TypeOK /\ Memory /\ w.pc # "idle"
  BY PassShape DEF PassInv
<1>a. UNCHANGED <<seen, edits>> /\ UNCHANGED Asked
  BY <1>t, PassShape DEF PassFrame, Asked
<1>c. {"create", "update", "find"} \intersect Changed = {}
  BY DEF Changed
<1>1. CASE w.pc \in Changed
  <2>1. w'.pc \in Changed /\ pubs'[Asked.name].sel = pubs[Asked.name].sel
    BY <1>1, <1>c, SmoothGoesOn, PassSelected
  <2> QED BY <1>1, <1>a, <2>1 DEF HashTrue, Drifted
<1>2. CASE w.pc \notin Changed /\ w'.pc \in Changed
  <2>1. CASE pubs'[Asked.name].sel = Asked.sel
    BY <1>2, <1>a, <2>1 DEF HashTrue, Drifted
  <2>2. CASE /\ w.pc = "find" /\ UNCHANGED pubs /\ Exists(Asked.name)
             /\ Asked = mem.hash /\ mem.name = Asked.name
    <3>1. st.name = Asked.name /\ st.hash = Asked /\ st.name # NoName
      BY <1>t, <2>2, AskedType DEF Memory
    <3>2. Drifted(pubs[Asked.name].sel, Asked.sel)
      BY <1>2, <2>2, <3>1 DEF HashTrue
    <3> QED BY <1>2, <1>a, <2>2, <3>2 DEF HashTrue, Drifted
  <2> QED BY <1>2, <2>1, <2>2, PassSelected
<1>3. CASE w.pc \notin Changed /\ w'.pc \notin Changed
  <2>1. st'.name = st.name /\ st'.hash = st.hash
    <3> PICK n \in PubNames : n = Asked.name
      BY <1>t, AskedType
    <3> QED BY <1>3, SmoothRest
  <2>2. ASSUME st.name # NoName, Exists(st.name)'
        PROVE  pubs'[st.name] = pubs[st.name] /\ Exists(st.name)
    <3>1. st.name \in PubNames
      BY <1>t, <2>2 DEF TypeOK, Statuses
    <3>2. pubs'[st.name].owner = NoOwner \/ pubs'[st.name] = pubs[st.name]
      BY <1>3, <3>1, SmoothRest
    <3>3. pubs'[st.name].owner # NoOwner
      BY <2>1, <2>2 DEF Exists
    <3> QED BY <3>2, <3>3 DEF Exists
  <2>3. ASSUME st'.name # NoName, Exists(st.name)'
        PROVE  Drifted(pubs[st.name].sel, st.hash.sel) /\ pubs'[st.name] = pubs[st.name]
    BY <1>3, <2>1, <2>2, <2>3 DEF HashTrue
  <2> QED BY <1>3, <1>a, <2>1, <2>3 DEF HashTrue, Drifted
<1> QED BY <1>1, <1>2, <1>3

LEMMA HashTrueStep ==
    ASSUME PassInv, Smooth, SmoothPass, HashTrue, [Next]_vars
    PROVE  HashTrue'
<1>t. TypeOK /\ Life /\ Memory /\ OwnersKnown /\ Hand
  BY DEF PassInv
<1>a. UNCHANGED seen => UNCHANGED Asked
  BY DEF Asked
<1>k. edits'.kinds = edits.kinds
  BY <1>t, KindsKept
<1>i. {"idle", "find", "finalize"} \intersect Changed = {} /\ Dropping \intersect Changed = {}
  BY DEF Changed, Dropping
<1>s. ASSUME UNCHANGED <<st, pubs, seen, w>> PROVE HashTrue'
  BY <1>a, <1>k, <1>s DEF HashTrue, Drifted, Exists
<1>b. ASSUME UNCHANGED pubs, w.pc \notin Changed, w'.pc \notin Changed,
             st'.name = st.name, st'.hash = st.hash
      PROVE  HashTrue'
  BY <1>b, <1>k DEF HashTrue, Drifted, Exists
<1>1. CASE UNCHANGED vars
  BY <1>1, <1>s DEF vars
<1>2. ASSUME NEW copy \in CacheCopies, BeginWith(copy[1], copy[2]) PROVE HashTrue'
  BY <1>2, <1>b, <1>i, <1>t, BeginShape DEF At
<1>3. CASE PassStep
  BY <1>3, HashTruePass
<1>4. CASE ManageSuccess
  <2>1. At("success") /\ Drifted(pubs[Asked.name].sel, Asked.sel)
    BY <1>4, <1>t, SuccessStep DEF HashTrue, At, Changed
  <2>2. cr.exists
    BY <1>t, <2>1 DEF Life, At, Working
  <2>3. UNCHANGED pubs /\ w'.pc = "idle" /\ st'.name = Asked.name /\ st'.hash = Asked
    BY <1>4, <1>t, <2>2, SuccessWrites
  <2> QED BY <1>i, <1>k, <2>1, <2>3 DEF HashTrue, Drifted
<1>5. CASE Finalize
  <2>1. At("finalize") /\ UNCHANGED pubs /\ w'.pc = "idle"
        /\ st'.name = st.name /\ st'.hash = st.hash
    BY <1>5, <1>t, FinalizeStep, ValuesType DEF Ends, Memory, At
  <2> QED BY <1>b, <1>i, <2>1 DEF At
<1>6. CASE Edited
  BY <1>6, <1>s, <1>t, EditedStep
<1>7. CASE ReportDatabase \/ RemoveDatabase
  BY <1>7, <1>s, <1>t, DatabaseStep
<1>8. ASSUME NEW role \in Owners, RenameOwner(role) PROVE HashTrue'
  BY <1>8, <1>t, SmoothMoves
<1>9. ASSUME NEW name \in PubNames, Drift(name) PROVE HashTrue'
  <2>1. UNCHANGED <<st, seen, w>> /\ At("idle") /\ "drift" \in edits.kinds
    BY <1>9, <1>t, DriftStep
  <2>2. ASSUME st.name # NoName, Exists(st.name)'
        PROVE  /\ Exists(st.name)
               /\ pubs'[st.name].sel.all = pubs[st.name].sel.all
               /\ pubs'[st.name].sel.schemas = pubs[st.name].sel.schemas
               /\ pubs'[st.name].sel.items \subseteq pubs[st.name].sel.items
    <3>1. st.name \in PubNames
      BY <1>t, <2>2 DEF TypeOK, Statuses
    <3>2. pubs'[st.name].owner = pubs[st.name].owner
      BY <1>9, <1>t, <3>1, DriftStep
    <3>3. Exists(st.name)
      BY <2>1, <2>2, <3>2 DEF Exists
    <3> QED BY <1>9, <1>t, <3>1, <3>3, DriftStep
  <2>3. w.pc \notin Changed
    BY <1>i, <2>1 DEF At
  <2>4. ASSUME st.name # NoName, Exists(st.name)'
        PROVE  Drifted(pubs[st.name].sel, st.hash.sel)'
    BY <1>k, <2>1, <2>2, <2>3, <2>4 DEF HashTrue, Drifted
  <2> QED BY <2>1, <2>3, <2>4 DEF HashTrue
<1>10. ASSUME NEW slot \in SlotNames, Consume(slot) \/ Release(slot) PROVE HashTrue'
  BY <1>10, <1>s, <1>t, ConsumerStep
<1> QED BY <1>1, <1>2, <1>3, <1>4, <1>5, <1>6, <1>7, <1>8, <1>9, <1>10, NextCases

-----------------------------------------------------------------------------
(* A smooth resource has its publication under one name.                   *)

LEMMA NamedPass ==
    ASSUME PassInv, Smooth, SmoothPass, Named, PassStep
    PROVE  Named'
<1>t. TypeOK /\ Memory /\ Hand /\ w.pc # "idle"
  BY PassShape DEF PassInv
<1>a. UNCHANGED <<seen, foreign>> /\ UNCHANGED Asked
  BY <1>t, PassShape DEF PassFrame, Asked
<1>c. {"create", "update", "find"} \intersect Changed = {}
  BY DEF Changed
<1>n. \A n \in Added' : n \in PubNames /\ pubs'[n].owner # NoOwner /\ n \notin foreign.pubs
  BY <1>a DEF Added, Exists
<1>1. CASE w.pc \in Changed
  <2>1. w'.pc \in Changed
    BY <1>1, SmoothGoesOn
  <2>2. ASSUME NEW n \in Added' PROVE n = Asked.name
    <3>1. n = Asked.name \/ Exists(n)
      BY <1>n, <2>2, PassSelections
    <3> QED BY <1>1, <1>n, <2>2, <3>1 DEF Named, Added
  <2> QED BY <1>a, <2>1, <2>2 DEF Named
<1>2. CASE w.pc \notin Changed /\ w'.pc \in Changed
  <2>1. ASSUME NEW n \in Added', n # Asked.name PROVE FALSE
    <3>1. n = st.name /\ n \in PubNames /\ n # NoName
      <4>1. Exists(n)
        BY <1>n, <2>1, PassSelections
      <4> QED BY <1>2, <1>n, <2>1, <4>1, NamesAssumption DEF Named, Added
    <3>2. mem.name = n /\ SearchName = n
      BY <1>t, <2>1, <3>1 DEF Memory, SearchName
    <3>3. CASE w.pc = "create"
      <4>1. ~Exists(n)
        BY <1>t, <3>2, <3>3 DEF Hand, At
      <4>2. Exists(n)
        BY <1>n, <2>1, PassSelections
      <4> QED BY <4>1, <4>2
    <3>4. CASE w.pc = "update" /\ Updated
      <4>1. w.search = n
        BY <1>t, <3>2, <3>4 DEF Hand
      <4>2. pubs'[n].owner = NoOwner
        BY <1>t, <2>1, <3>1, <3>4, <4>1, UpdatedPoints
      <4> QED BY <1>n, <2>1, <4>2
    <3>5. w.pc # "find"
      BY <1>2, <2>1, <3>2, PassSelected DEF Changed
    <3> QED BY <1>2, <3>3, <3>4, <3>5, PassSelected
  <2> QED BY <1>2, <1>a, <2>1 DEF Named
<1>3. CASE w.pc \notin Changed /\ w'.pc \notin Changed
  <2>1. ASSUME NEW n \in Added' PROVE n = st.name /\ st'.name = st.name
    <3>1. pubs'[n] = pubs[n] /\ st'.name = st.name
      BY <1>3, <1>n, <2>1, SmoothRest
    <3>2. n \in Added
      BY <1>n, <2>1, <3>1 DEF Added, Exists
    <3> QED BY <1>3, <3>1, <3>2 DEF Named
  <2> QED BY <1>3, <2>1 DEF Named
<1> QED BY <1>1, <1>2, <1>3

LEMMA NamedStep ==
    ASSUME PassInv, Smooth, SmoothPass, Named, [Next]_vars
    PROVE  Named'
<1>t. TypeOK /\ Life /\ Memory /\ OwnersKnown /\ Hand
  BY DEF PassInv
<1>a. UNCHANGED seen => UNCHANGED Asked
  BY DEF Asked
<1>f. UNCHANGED foreign
  BY <1>t, KindsKept
<1>u. UNCHANGED pubs => UNCHANGED Added
  BY <1>f DEF Added, Exists
<1>i. {"idle", "find", "finalize"} \intersect Changed = {} /\ Dropping \intersect Changed = {}
  BY DEF Changed, Dropping
<1>s. ASSUME UNCHANGED <<st, pubs, seen, w>> PROVE Named'
  BY <1>a, <1>u, <1>s DEF Named
<1>b. ASSUME UNCHANGED pubs, w.pc \notin Changed, w'.pc \notin Changed, st'.name = st.name
      PROVE  Named'
  BY <1>b, <1>u DEF Named
<1>1. CASE UNCHANGED vars
  BY <1>1, <1>s DEF vars
<1>2. ASSUME NEW copy \in CacheCopies, BeginWith(copy[1], copy[2]) PROVE Named'
  BY <1>2, <1>b, <1>i, <1>t, BeginShape DEF At
<1>3. CASE PassStep
  BY <1>3, NamedPass
<1>4. CASE ManageSuccess
  <2>1. At("success") /\ Added \subseteq {Asked.name}
    BY <1>4, <1>t, SuccessStep DEF Named, At, Changed
  <2>2. cr.exists
    BY <1>t, <2>1 DEF Life, At, Working
  <2>3. UNCHANGED pubs /\ w'.pc = "idle" /\ st'.name = Asked.name
    BY <1>4, <1>t, <2>2, SuccessWrites
  <2> QED BY <1>i, <1>u, <2>1, <2>3 DEF Named
<1>5. CASE Finalize
  <2>1. At("finalize") /\ UNCHANGED pubs /\ w'.pc = "idle" /\ st'.name = st.name
    BY <1>5, <1>t, FinalizeStep, ValuesType DEF Ends, Memory, At
  <2> QED BY <1>b, <1>i, <2>1 DEF At
<1>6. CASE Edited
  BY <1>6, <1>s, <1>t, EditedStep
<1>7. CASE ReportDatabase \/ RemoveDatabase
  BY <1>7, <1>s, <1>t, DatabaseStep
<1>8. ASSUME NEW role \in Owners, RenameOwner(role) PROVE Named'
  BY <1>8, <1>t, SmoothMoves
<1>9. ASSUME NEW name \in PubNames, Drift(name) PROVE Named'
  <2>1. UNCHANGED <<st, seen, w>> /\ \A n \in PubNames : pubs'[n].owner = pubs[n].owner
    BY <1>9, <1>t, DriftStep
  <2>2. UNCHANGED Added
    BY <1>f, <2>1 DEF Added, Exists
  <2> QED BY <1>a, <2>1, <2>2 DEF Named
<1>10. ASSUME NEW slot \in SlotNames, Consume(slot) \/ Release(slot) PROVE Named'
  BY <1>10, <1>s, <1>t, ConsumerStep
<1> QED BY <1>1, <1>2, <1>3, <1>4, <1>5, <1>6, <1>7, <1>8, <1>9, <1>10, NextCases

-----------------------------------------------------------------------------
(* Without edits of the selection, and of the name.                        *)

(* What a step leaves of the spec: updateInstance fills in the slot only.  *)
LEMMA SpecKept ==
    ASSUME TypeOK, [Next]_vars, ~Edited
    PROVE  cr'.spec.sel = cr.spec.sel /\ cr'.spec.name = cr.spec.name
<1>1. cr.spec \in Specs /\ cr \in Resource
  BY DEF TypeOK, Resource
<1>2. ASSUME NEW copy \in CacheCopies, BeginWith(copy[1], copy[2])
      PROVE  cr'.spec = cr.spec \/ cr'.spec = Filled(cr.spec)
  <2>1. UNCHANGED cr \/ cr' = [cr EXCEPT !.finalizer = TRUE, !.spec = Filled(@)]
    BY <1>2, BeginShape
  <2> QED BY <1>1, <2>1 DEF Resource
<1>3. CASE PassStep \/ ManageSuccess
  BY <1>3, PassShape, SuccessStep DEF PassFrame
<1>4. CASE Finalize
  <2>1. UNCHANGED cr \/ cr' = [cr EXCEPT !.exists = FALSE]
    BY <1>4, FinalizeStep
  <2> QED BY <1>1, <2>1 DEF Resource
<1>5. CASE ReportDatabase \/ RemoveDatabase
  BY <1>5, DatabaseStep
<1>6. ASSUME NEW role \in Owners, RenameOwner(role) PROVE UNCHANGED cr
  BY <1>6, RenameStep
<1>7. ASSUME NEW name \in PubNames, Drift(name) PROVE UNCHANGED cr
  BY <1>7, DriftStep
<1>8. ASSUME NEW slot \in SlotNames, Consume(slot) \/ Release(slot) PROVE UNCHANGED cr
  BY <1>8, ConsumerStep
<1> QED BY <1>1, <1>2, <1>3, <1>4, <1>5, <1>6, <1>7, <1>8, NextCases, FilledType DEF vars

LEMMA KnownInPass ==
    ASSUME TypeOK, Memory, PassStep \/ Finalize
    PROVE  Known' = Known /\ UNCHANGED <<orig, seen>> /\ UNCHANGED Asked
<1>1. UNCHANGED <<orig, seen>> /\ w.pc # "idle"
  BY PassShape, FinalizeStep DEF PassFrame, At
<1>2. st'.name = st.name
  BY <1>1, PassShape, FinalizeStep DEF Memory, Ends
<1> QED BY <1>1, <1>2 DEF Known, Asked

LEMMA OneSelectionPass ==
    ASSUME PassInv, "selection" \notin edits.kinds, OneSelection, PassStep
    PROVE  OneSelection'
<1>t. TypeOK /\ Memory /\ w.pc # "idle"
  BY PassShape DEF PassInv
<1>a. UNCHANGED <<cr, seen, edits>> /\ UNCHANGED Asked /\ Known' = Known
  BY <1>t, PassShape, KnownInPass DEF PassFrame
<1>k. Known \subseteq PubNames
  BY <1>t DEF Known, TypeOK, Statuses
<1>q. Asked.sel = cr.spec.sel
  BY <1>t, AskedType DEF OneSelection
<1>1. ASSUME NEW n \in Known, Exists(n)'
      PROVE  pubs'[n].sel = cr.spec.sel \/ (pubs'[n].sel = pubs[n].sel /\ Exists(n))
  <2>1. n \in PubNames /\ pubs'[n].owner # NoOwner
    BY <1>1, <1>k DEF Exists
  <2> QED BY <1>q, <2>1, PassSelections
<1>2. ASSUME NEW n \in Known, Exists(n)' PROVE Drifted(pubs[n].sel, cr.spec.sel)'
  <2>1. CASE pubs'[n].sel = cr.spec.sel
    BY <1>a, <2>1 DEF Drifted
  <2>2. CASE pubs'[n].sel = pubs[n].sel /\ Exists(n)
    <3>1. Drifted(pubs[n].sel, cr.spec.sel)
      BY <2>2 DEF OneSelection
    <3> QED BY <1>a, <2>2, <3>1 DEF Drifted
  <2> QED BY <1>1, <1>2, <2>1, <2>2
<1>3. ASSUME w'.pc \in Changed PROVE Drifted(pubs[Asked.name].sel, cr.spec.sel)'
  <2>1. CASE pubs'[Asked.name].sel = Asked.sel
    BY <1>a, <1>q, <2>1 DEF Drifted
  <2>2. CASE w.pc \in Changed /\ pubs'[Asked.name].sel = pubs[Asked.name].sel
    <3>1. Drifted(pubs[Asked.name].sel, cr.spec.sel)
      BY <2>2 DEF OneSelection
    <3> QED BY <1>a, <2>2, <3>1 DEF Drifted
  <2>3. CASE UNCHANGED pubs /\ Exists(Asked.name) /\ mem.name = Asked.name
    <3>1. Asked.name \in Known
      BY <1>t, <2>3, AskedType DEF Memory, Known
    <3>2. Drifted(pubs[Asked.name].sel, cr.spec.sel)
      BY <2>3, <3>1 DEF OneSelection
    <3> QED BY <1>a, <2>3, <3>2 DEF Drifted
  <2> QED BY <1>3, <2>1, <2>2, <2>3, PassSelected
<1>4. seen'.spec.sel = cr'.spec.sel
  BY <1>a DEF OneSelection
<1> QED BY <1>a, <1>2, <1>3, <1>4 DEF OneSelection

LEMMA OneSelectionStep ==
    ASSUME PassInv, "selection" \notin edits.kinds, OneSelection, [Next]_vars
    PROVE  OneSelection'
<1>t. TypeOK /\ Life /\ Memory /\ OwnersKnown /\ Hand
  BY DEF PassInv
<1>a. UNCHANGED seen => UNCHANGED Asked
  BY DEF Asked
<1>k. edits'.kinds = edits.kinds /\ Known \subseteq PubNames /\ Asked.name \in PubNames
  BY <1>t, KindsKept, AskedType DEF Known, TypeOK, Statuses
<1>i. {"idle", "find", "finalize"} \intersect Changed = {} /\ Dropping \intersect Changed = {}
  BY DEF Changed, Dropping
<1>c. cr'.spec.sel = cr.spec.sel
  BY <1>t, EditedStep, SpecKept
<1>s. ASSUME UNCHANGED <<st, orig, pubs, seen, w>> PROVE OneSelection'
  <2>1. UNCHANGED Known /\ UNCHANGED Asked
    BY <1>a, <1>s DEF Known
  <2> QED BY <1>c, <1>k, <1>s, <2>1 DEF OneSelection, Drifted, Exists
<1>b. ASSUME UNCHANGED pubs, w'.pc \notin Changed, seen'.spec.sel = cr.spec.sel,
             \A n \in Known' : Exists(n) => Drifted(pubs[n].sel, cr.spec.sel)
      PROVE  OneSelection'
  BY <1>b, <1>c, <1>k DEF OneSelection, Drifted, Exists
<1>1. CASE UNCHANGED vars
  BY <1>1, <1>s DEF vars
<1>2. ASSUME NEW copy \in CacheCopies, BeginWith(copy[1], copy[2]) PROVE OneSelection'
  <2>1. UNCHANGED pubs /\ w'.pc \notin Changed /\ seen' \in {cr, seen} /\ Known' \subseteq Known
    BY <1>2, <1>i, <1>t, BeginShape, KnownAfterBegin
  <2> QED BY <1>b, <2>1 DEF OneSelection
<1>3. CASE PassStep
  BY <1>3, OneSelectionPass
<1>4. CASE ManageSuccess
  <2>1. At("success") /\ Drifted(pubs[Asked.name].sel, cr.spec.sel)
    BY <1>4, <1>t, SuccessStep DEF OneSelection, At, Changed
  <2>2. UNCHANGED <<pubs, seen>> /\ w'.pc = "idle" /\ Known' \subseteq Known \union {Asked.name}
    BY <1>4, <1>t, SuccessWrites DEF Known
  <2> QED BY <1>b, <1>i, <2>1, <2>2 DEF OneSelection
<1>5. CASE Finalize
  <2>1. UNCHANGED <<pubs, seen>> /\ w'.pc = "idle" /\ Known' = Known
    BY <1>5, <1>t, FinalizeStep, KnownInPass, ValuesType DEF Ends
  <2> QED BY <1>b, <1>i, <2>1 DEF OneSelection
<1>6. CASE Edited
  BY <1>6, <1>s, <1>t, EditedStep
<1>7. CASE ReportDatabase \/ RemoveDatabase
  BY <1>7, <1>s, <1>t, DatabaseStep
<1>8. ASSUME NEW role \in Owners, RenameOwner(role) PROVE OneSelection'
  <2>1. /\ UNCHANGED <<st, orig, seen, w>>
        /\ \A n \in PubNames : pubs'[n].sel = pubs[n].sel /\ (Exists(n)' <=> Exists(n))
    BY <1>8, <1>t, RenameStep, RenamedExist
  <2>2. UNCHANGED Known /\ UNCHANGED Asked
    BY <1>a, <2>1 DEF Known
  <2>3. \A n \in Known : Exists(n)' => Drifted(pubs[n].sel, cr.spec.sel)'
    BY <1>c, <1>k, <2>1 DEF OneSelection, Drifted
  <2>4. w'.pc \in Changed => Drifted(pubs[Asked.name].sel, cr.spec.sel)'
    BY <1>c, <1>k, <2>1, <2>2 DEF OneSelection, Drifted
  <2> QED BY <1>c, <2>1, <2>2, <2>3, <2>4 DEF OneSelection
<1>9. ASSUME NEW name \in PubNames, Drift(name) PROVE OneSelection'
  <2>1. UNCHANGED <<st, orig, seen, w>> /\ At("idle") /\ "drift" \in edits.kinds
    BY <1>9, <1>t, DriftStep
  <2>2. UNCHANGED Known /\ w'.pc \notin Changed
    BY <1>i, <2>1 DEF Known, At
  <2>3. ASSUME NEW n \in Known, Exists(n)' PROVE Drifted(pubs[n].sel, cr.spec.sel)'
    <3>1. /\ pubs'[n].owner = pubs[n].owner
          /\ pubs'[n].sel.all = pubs[n].sel.all
          /\ pubs'[n].sel.schemas = pubs[n].sel.schemas
          /\ pubs'[n].sel.items \subseteq pubs[n].sel.items
      BY <1>9, <1>k, <1>t, DriftStep
    <3>2. Drifted(pubs[n].sel, cr.spec.sel)
      BY <2>3, <3>1 DEF OneSelection, Exists
    <3> QED BY <1>c, <1>k, <2>1, <3>1, <3>2 DEF Drifted
  <2> QED BY <1>c, <2>1, <2>2, <2>3 DEF OneSelection
<1>10. ASSUME NEW slot \in SlotNames, Consume(slot) \/ Release(slot) PROVE OneSelection'
  BY <1>10, <1>s, <1>t, ConsumerStep
<1> QED BY <1>1, <1>2, <1>3, <1>4, <1>5, <1>6, <1>7, <1>8, <1>9, <1>10, NextCases

LEMMA OneNameStep ==
    ASSUME PassInv, "name" \notin edits.kinds, OneName, [Next]_vars
    PROVE  OneName'
<1>t. TypeOK /\ Life /\ Memory /\ OwnersKnown /\ Hand
  BY DEF PassInv
<1>f. UNCHANGED foreign
  BY <1>t, KindsKept
<1>c. cr'.spec.name = cr.spec.name
  BY <1>t, EditedStep, SpecKept
<1>q. Asked.name = cr.spec.name
  BY <1>t, AskedType DEF OneName
<1>u. (\A n \in PubNames : pubs'[n].owner = pubs[n].owner) => UNCHANGED Added
  BY <1>f DEF Added, Exists
<1>s. ASSUME UNCHANGED Added, seen' \in {cr, seen}, orig' \in {st, orig} PROVE OneName'
  <2>1. st.name \in {NoName, cr.spec.name}
    BY <1>q, <1>t DEF Memory, OneName
  <2> QED BY <1>c, <1>s, <2>1 DEF OneName
<1>1. CASE UNCHANGED vars
  BY <1>1, <1>s, <1>u DEF vars
<1>2. ASSUME NEW copy \in CacheCopies, BeginWith(copy[1], copy[2]) PROVE OneName'
  BY <1>2, <1>s, <1>t, <1>u, BeginShape
<1>3. CASE PassStep
  <2>1. UNCHANGED <<seen, orig>>
    BY <1>3, <1>t, PassShape DEF PassFrame
  <2>2. ASSUME NEW n \in Added' PROVE n = cr.spec.name
    <3>1. n \in PubNames /\ pubs'[n].owner # NoOwner /\ n \notin foreign.pubs
      BY <1>f, <2>2 DEF Added, Exists
    <3>2. n = Asked.name \/ Exists(n)
      BY <1>3, <3>1, PassSelections
    <3> QED BY <1>q, <3>1, <3>2 DEF OneName, Added
  <2> QED BY <1>c, <2>1, <2>2 DEF OneName
<1>4. CASE ManageSuccess
  BY <1>4, <1>s, <1>t, <1>u, SuccessWrites
<1>5. CASE Finalize
  BY <1>5, <1>s, <1>t, <1>u, FinalizeStep
<1>6. CASE Edited
  <2>1. UNCHANGED <<pubs, seen, orig>>
    BY <1>6, <1>t, EditedStep
  <2> QED BY <1>s, <1>u, <2>1
<1>7. CASE ReportDatabase \/ RemoveDatabase
  BY <1>7, <1>s, <1>t, <1>u, DatabaseStep
<1>8. ASSUME NEW role \in Owners, RenameOwner(role) PROVE OneName'
  <2>1. UNCHANGED <<seen, orig>> /\ \A n \in PubNames : Exists(n)' <=> Exists(n)
    BY <1>8, <1>t, RenameStep, RenamedExist
  <2>2. UNCHANGED Added
    BY <1>f, <2>1 DEF Added
  <2> QED BY <1>s, <2>1, <2>2
<1>9. ASSUME NEW name \in PubNames, Drift(name) PROVE OneName'
  <2>1. UNCHANGED <<seen, orig>> /\ \A n \in PubNames : pubs'[n].owner = pubs[n].owner
    BY <1>9, <1>t, DriftStep
  <2> QED BY <1>s, <1>u, <2>1
<1>10. ASSUME NEW slot \in SlotNames, Consume(slot) \/ Release(slot) PROVE OneName'
  BY <1>10, <1>s, <1>t, <1>u, ConsumerStep
<1> QED BY <1>1, <1>2, <1>3, <1>4, <1>5, <1>6, <1>7, <1>8, <1>9, <1>10, NextCases

-----------------------------------------------------------------------------
(* What a deletion has taken away.                                         *)

LEMMA GonePass ==
    ASSUME PassInv, Gone, PassStep
    PROVE  Gone'
<1> USE DEF At
<1>t. TypeOK /\ Life
  BY DEF PassInv
<1>f. UNCHANGED <<cr, seen, db>> /\ seen.spec.name \in PubNames
      /\ seen.spec.slot \in SlotNames \union {NoName}
  BY <1>t, PassShape, AskedType DEF PassFrame, Specs
<1>i. Working \intersect Dropping = {} /\ "idle" \notin Dropping
  BY DEF Working, Dropping
<1>w. CASE w.pc \in Working
  <2>1. cr'.exists /\ w'.pc \notin Dropping
    BY <1>f, <1>i, <1>t, <1>w, PassShape, ValuesType DEF Life, Ends
  <2> QED BY <2>1 DEF Gone, Dropping
<1>g. cr.spec.name \in PubNames /\ cr.spec.slot \in SlotNames \union {NoName}
  BY <1>t DEF TypeOK, Resource, Specs
<1>1. CASE DropPublication
  <2>1. (UNCHANGED pubs /\ w'.pc = "idle")
        \/ pubs' = [pubs EXCEPT ![seen.spec.name] = NoPublication]
    BY <1>1, <1>t, DropPublicationStep, ValuesType DEF Ends
  <2>2. /\ \A n \in PubNames : ~Exists(n) => ~Exists(n)'
        /\ UNCHANGED slots /\ w'.pc \in {"idle", "drop slot"}
    BY <1>1, <1>t, <2>1, DropPublicationStep, DroppedPoints, ValuesType
       DEF Exists, Ends, GoesOn, Moves
  <2>3. w'.pc = "drop slot" => pubs'[seen.spec.name].owner = NoOwner
    BY <1>f, <1>t, <2>1, DroppedPoints
  <2> QED BY <1>f, <1>g, <2>2, <2>3 DEF Gone, Cleared, Exists
<1>2. CASE DropReplicationSlot
  <2> DEFINE slot == seen.spec.slot
  <2>1. w.pc = "drop slot" /\ UNCHANGED pubs /\ w'.pc \in {"idle", "finalize"}
    BY <1>2, <1>t, DropReplicationSlotStep, ValuesType DEF Ends, GoesOn, Moves
  <2>2. \/ UNCHANGED slots
        \/ slot # NoName /\ slots' = [slots EXCEPT ![slot] = "none"]
    BY <1>2, <1>t, DropReplicationSlotStep
  <2>3. w'.pc = "finalize" /\ slot # NoName => slots' = [slots EXCEPT ![slot] = "none"]
    BY <1>2, <1>t, DropReplicationSlotStep, ValuesType DEF Ends
  <2>4. \A s \in SlotNames : slots[s] = "none" => slots'[s] = "none"
    BY <1>f, <1>t, <2>2 DEF TypeOK
  <2>5. w'.pc = "finalize" /\ slot # NoName => slots'[slot] = "none"
    BY <1>f, <1>t, <2>3 DEF TypeOK
  <2> QED BY <1>f, <1>g, <2>1, <2>4, <2>5 DEF Gone, Cleared, Exists
<1>3. CASE Fail \/ Crash
  <2>1. UNCHANGED <<pubs, slots>> /\ w'.pc = "idle"
    BY <1>3, <1>t, FaultStep, ValuesType DEF Ends
  <2> QED BY <1>f, <2>1 DEF Gone, Cleared, Exists
<1>4. CASE FindPublication \/ CreatePublication \/ OwnNew \/ UpdatePublication
           \/ ChangePublicationOwner \/ ManageSlot
  BY <1>4, <1>t, <1>w, FindStep, CreateStep, OwnNewStep, UpdateStep, OwnerStep, SlotStep
     DEF Working
<1> QED BY <1>1, <1>2, <1>3, <1>4 DEF PassStep

LEMMA GoneStep ==
    ASSUME PassInv, Gone, [Next]_vars
    PROVE  Gone'
<1> USE DEF At
<1>t. TypeOK /\ Life /\ Memory /\ OwnersKnown /\ Hand
  BY DEF PassInv
<1>g. /\ cr \in Resource /\ cr.spec.name \in PubNames
      /\ seen.spec.name \in PubNames
  BY <1>t DEF TypeOK, Resource, Specs
<1>s. ASSUME UNCHANGED <<w, seen, cr, slots>>, db'.phase # "gone" => db.phase # "gone",
             \A n \in PubNames : ~Exists(n) => ~Exists(n)'
      PROVE  Gone'
  BY <1>g, <1>s DEF Gone, Cleared
<1>u. UNCHANGED pubs => \A n \in PubNames : ~Exists(n) => ~Exists(n)'
  BY DEF Exists
<1>1. CASE UNCHANGED vars
  BY <1>1, <1>s, <1>u DEF vars
<1>2. ASSUME NEW copy \in CacheCopies, BeginWith(copy[1], copy[2]) PROVE Gone'
  <2>1. /\ UNCHANGED <<db, pubs, slots>> /\ w'.pc # "drop slot"
        /\ w'.pc = "finalize" => ~seen'.drop \/ db.phase = "gone"
    BY <1>2, <1>t, BeginShape
  <2>2. UNCHANGED cr \/ cr'.exists
    BY <1>2, <1>g, <1>t, BeginShape DEF Resource
  <2> QED BY <2>1, <2>2 DEF Gone, Cleared, Exists
<1>3. CASE PassStep
  BY <1>3, GonePass
<1>4. CASE ManageSuccess
  <2>1. w.pc = "success" /\ w'.pc = "idle" /\ UNCHANGED cr
    BY <1>4, <1>t, SuccessStep, SuccessWrites
  <2>2. cr'.exists
    BY <1>t, <2>1 DEF Life, Working
  <2> QED BY <2>1, <2>2 DEF Gone
<1>5. CASE Finalize
  <2>1. w.pc = "finalize" /\ w'.pc = "idle" /\ UNCHANGED <<pubs, slots, db, seen>>
    BY <1>5, <1>t, FinalizeStep, ValuesType DEF Ends
  <2>2. UNCHANGED cr \/ (seen = cr /\ cr' = [cr EXCEPT !.exists = FALSE])
    BY <1>5, <1>t, FinalizeStep
  <2>3. CASE UNCHANGED cr
    BY <2>1, <2>3 DEF Gone, Cleared, Exists
  <2>4. CASE seen = cr /\ cr' = [cr EXCEPT !.exists = FALSE]
    <3>1. cr'.spec = cr.spec /\ cr'.drop = cr.drop
      BY <1>g, <2>4 DEF Resource
    <3> QED BY <2>1, <2>4, <3>1 DEF Gone, Cleared, Exists
  <2> QED BY <2>2, <2>3, <2>4
<1>6. CASE Edited
  <2>1. UNCHANGED <<w, seen, pubs, slots, db>> /\ (cr'.exists \/ ~cr'.finalizer)
    BY <1>6, <1>t, EditedStep
  <2> QED BY <2>1 DEF Gone, Cleared, Exists
<1>7. CASE ReportDatabase \/ RemoveDatabase
  BY <1>7, <1>s, <1>t, <1>u, DatabaseStep
<1>8. ASSUME NEW role \in Owners, RenameOwner(role) PROVE Gone'
  BY <1>8, <1>s, <1>t, RenameStep, RenamedExist
<1>9. ASSUME NEW name \in PubNames, Drift(name) PROVE Gone'
  <2>1. /\ UNCHANGED <<w, seen, cr, slots, db>>
        /\ \A n \in PubNames : pubs'[n].owner = pubs[n].owner
    BY <1>9, <1>t, DriftStep
  <2> QED BY <1>s, <2>1 DEF Exists
<1>10. ASSUME NEW slot \in SlotNames, Consume(slot) \/ Release(slot) PROVE Gone'
  BY <1>10, <1>s, <1>t, <1>u, ConsumerStep
<1> QED BY <1>1, <1>2, <1>3, <1>4, <1>5, <1>6, <1>7, <1>8, <1>9, <1>10, NextCases

-----------------------------------------------------------------------------
(* The invariant is inductive.                                             *)

LEMMA InitIInv == Init => IInv
<1> SUFFICES ASSUME Init PROVE IInv
  OBVIOUS
<1>1. TypeOK
  BY InitType
<1>p. cr.exists /\ seen = cr
  <2>1. PICK plan \in Plans : cr = plan.cr
    BY DEF Init
  <2>2. plan.cr.exists
    BY PlansAssumption
  <2> QED BY <2>1, <2>2 DEF Init
<1>r. db.owner = db.role
  <2>1. PICK role \in Owners : db = [phase |-> "pending", owner |-> role, role |-> role]
    BY DEF Init
  <2> QED BY <2>1
<1>2. /\ cr.exists /\ seen = cr /\ w.pc = "idle" /\ db.owner = db.role
      /\ st = NoStatus /\ orig = NoStatus /\ NoStatus.name = NoName
      /\ NoStatus.hash.name = NoName
      /\ foreign = [pubs |-> {n \in PubNames : Exists(n)},
                    slots |-> {s \in SlotNames : slots[s] = "other"}]
  BY <1>p, <1>r, ValuesType DEF Init, NoStatus, NoHash
<1>3. Known = {} /\ Added = {}
  BY <1>2 DEF Known, Added
<1>4. Life /\ Memory /\ OwnersKnown /\ Hand
  BY <1>2 DEF Life, Memory, OwnersKnown, Former, Hand, At, Working, Dropping
<1>5. Gone
  BY <1>2 DEF Gone, At
<1>6. foreign.slots = {} => \A s \in SlotNames : slots[s] # "other"
  BY <1>2
<1>7. SmoothInv
  BY <1>2, <1>3, <1>6 DEF SmoothInv, Smooth, SmoothPass, HashTrue, Named, Changed
<1>8. OneSelection /\ OneName
  BY <1>2, <1>3 DEF OneSelection, OneName, Changed
<1> QED BY <1>1, <1>4, <1>5, <1>7, <1>8 DEF IInv, PassInv

LEMMA IInvStep == IInv /\ [Next]_vars => IInv'
<1> SUFFICES ASSUME IInv, [Next]_vars PROVE IInv'
  OBVIOUS
<1>1. PassInv /\ TypeOK /\ Life /\ Memory /\ OwnersKnown /\ Hand
  BY DEF IInv, PassInv
<1>2. PassInv'
  BY <1>1, TypeStep, LifeStep, MemoryStep, OwnersStep, HandStep DEF PassInv
<1>3. Gone'
  BY <1>1, GoneStep DEF IInv
<1>4. edits'.kinds = edits.kinds /\ faults'.kinds = faults.kinds /\ UNCHANGED foreign
  BY <1>1, KindsKept
<1>5. SmoothInv'
  <2>1. Smooth' => Smooth
    BY <1>4 DEF Smooth
  <2>2. Smooth => SmoothPass' /\ HashTrue' /\ Named'
    BY <1>1, SmoothPassStep, HashTrueStep, NamedStep DEF IInv, SmoothInv
  <2> QED BY <2>1, <2>2 DEF SmoothInv
<1>6. "selection" \notin edits'.kinds => OneSelection'
  BY <1>1, <1>4, OneSelectionStep DEF IInv
<1>7. "name" \notin edits'.kinds => OneName'
  BY <1>1, <1>4, OneNameStep DEF IInv
<1> QED BY <1>2, <1>3, <1>5, <1>6, <1>7 DEF IInv

(* The facts above hold in every state that the reconciliation reaches.    *)
THEOREM Inductive == Spec => []IInv
BY InitIInv, IInvStep, PTL DEF Spec

-----------------------------------------------------------------------------
(* What the comparison with the engine can tell.                           *)

(* With no schema selected the tables published are those of the items.    *)
LEMMA DetailsOfItems ==
    ASSUME NEW p, p.sel.schemas = {}
    PROVE  Details(p) = p.sel.items
BY DEF Details, TablesIn

(* A selection that others only took from: no difference means none.       *)
LEMMA ComparisonFinds ==
    ASSUME NEW sel \in Selection, NEW p, p.sel \in Selection,
           Drifted(p.sel, sel), ~IsReconcileOnPGNecessary(sel, p),
           sel.schemas = {} \/ sel.items = {} \/ "drift" \notin edits.kinds,
           sel.all => sel.schemas = {} /\ sel.items = {}
    PROVE  p.sel = sel
<1>1. CASE "drift" \notin edits.kinds
  BY <1>1 DEF Drifted
<1>2. /\ p.sel.all = sel.all /\ p.sel.schemas = sel.schemas
      /\ p.sel.items \subseteq sel.items /\ p.sel.with = sel.with
  BY DEF Drifted, IsReconcileOnPGNecessary
<1>3. p.sel.items = sel.items => p.sel = sel
  BY <1>2 DEF Selection
<1>4. CASE sel.items = {}
  BY <1>2, <1>3, <1>4
<1>5. CASE sel.schemas = {} /\ ~sel.all
  <2>1. ~ItemsDiffer(sel, p)
    BY <1>5 DEF IsReconcileOnPGNecessary
  <2>2. Details(p) = p.sel.items
    BY <1>2, <1>5, DetailsOfItems
  <2>3. ASSUME NEW i \in sel.items PROVE i \in p.sel.items
    <3>1. PICK d \in p.sel.items : d[1] = i[1]
      BY <2>1, <2>2 DEF ItemsDiffer, Published
    <3>2. ~i[2] /\ ~d[2]
      BY <2>1, <2>2, <3>1 DEF ItemsDiffer
    <3>3. i \in Tables \X BOOLEAN /\ d \in Tables \X BOOLEAN
      BY <3>1 DEF Selection, Items
    <3>4. i = d
      BY <3>1, <3>2, <3>3
    <3> QED BY <3>1, <3>4
  <2> QED BY <1>2, <1>3, <2>3
<1> QED BY <1>1, <1>4, <1>5

(* A plain selection that is published does not differ.                    *)
LEMMA ComparisonRests ==
    ASSUME NEW sel \in Selection, NEW p, p.sel = sel, Plain(sel)
    PROVE  ~IsReconcileOnPGNecessary(sel, p)
<1>1. CASE sel.schemas = {}
  <2>1. Details(p) = sel.items
    BY <1>1, DetailsOfItems
  <2>2. ~ItemsDiffer(sel, p)
    BY <2>1 DEF ItemsDiffer, Published, Plain
  <2> QED BY <1>1, <2>2 DEF IsReconcileOnPGNecessary
<1>2. CASE sel.schemas # {}
  <2>1. Details(p) = TablesIn(sel.schemas) \X {FALSE}
    BY <1>2 DEF Details, Plain
  <2>2. Published(p) = TablesIn(sel.schemas)
    <3>1. \A d \in Details(p) : d[1] \in TablesIn(sel.schemas)
      BY <2>1
    <3>2. \A t \in TablesIn(sel.schemas) : <<t, FALSE>> \in Details(p) /\ <<t, FALSE>>[1] = t
      BY <2>1
    <3> QED BY <3>1, <3>2 DEF Published
  <2>3. {t[1] : t \in Published(p)} \subseteq sel.schemas
    BY <2>2 DEF TablesIn
  <2>4. \A s \in sel.schemas : sel.schemas = {s}
    BY DEF Plain
  <2>5. \A s \in sel.schemas : TablesIn({s}) = Published(p)
    BY <2>2, <2>4
  <2>6. ~SchemasDiffer(sel, p)
    BY <2>3, <2>5 DEF SchemasDiffer
  <2> QED BY <1>2, <2>6 DEF IsReconcileOnPGNecessary
<1> QED BY <1>1, <1>2

-----------------------------------------------------------------------------
(* The properties.                                                         *)

LEMMA SuccessSelection ==
    ASSUME IInv, At("success"), Watched(Asked.sel)
    PROVE  pubs[Asked.name].sel = Asked.sel
<1>1. TypeOK /\ Life /\ Hand /\ w.pc \in Changed /\ w.pc \in Working
  BY DEF IInv, PassInv, At, Changed, Working
<1>2. Asked.sel \in Selection /\ pubs[Asked.name].sel \in Selection
      /\ Asked.sel = seen.spec.sel
  BY <1>1, AskedType DEF TypeOK, Publications
<1>3. Drifted(pubs[Asked.name].sel, Asked.sel)
  <2>1. CASE Smooth
    BY <1>1, <2>1 DEF IInv, SmoothInv, HashTrue
  <2>2. CASE "selection" \notin edits.kinds
    BY <1>1, <1>2, <2>2 DEF IInv, OneSelection
  <2> QED BY <2>1, <2>2 DEF Watched
<1>4. Selected
  BY <1>1 DEF Hand, At
<1>5. Asked.sel.all => Asked.sel.schemas = {} /\ Asked.sel.items = {}
  BY <1>1, <1>2 DEF Life
<1>6. CASE ~IsReconcileOnPGNecessary(Asked.sel, pubs[Asked.name])
  BY <1>2, <1>3, <1>5, <1>6, ComparisonFinds DEF Watched
<1> QED BY <1>4, <1>6 DEF Selected

(* A pass that is about to report Ready has the publication, owned by the  *)
(* owner role, and its slot in place, with the selection asked for         *)
(* wherever the comparison with the engine can see it: whatever passes     *)
(* failed, crashed or lost an answer before.                               *)
THEOREM ReadyAsAsked == Spec => []PublishedAsAsked
<1>1. IInv => PublishedAsAsked
  <2> SUFFICES ASSUME IInv, At("success") PROVE PublishedAsAsked
    BY DEF PublishedAsAsked
  <2>1. TypeOK /\ Hand
    BY DEF IInv, PassInv
  <2>2. pubs[Asked.name].owner = db.role /\ slots[Asked.slot] = "own" /\ Selected
    BY <2>1 DEF Hand, At
  <2>3. pubs[Asked.name] \in Publications
    BY <2>1, AskedType DEF TypeOK
  <2>4. ASSUME Watched(Asked.sel) PROVE InPlace(Asked)
    <3>1. pubs[Asked.name].sel = Asked.sel
      BY <2>4, SuccessSelection
    <3> QED BY <2>2, <2>3, <3>1 DEF InPlace, Publications
  <2> QED BY <2>2, <2>4 DEF PublishedAsAsked, Selected
<1> QED BY <1>1, Inductive, PTL

(* Where no pass fails between two edits of the name, success leaves no    *)
(* publication under a former name.                                        *)
THEOREM NoneOrphaned == Spec => []NoOrphanPublication
<1>1. IInv => NoOrphanPublication
  <2> SUFFICES ASSUME IInv, At("success"), Calm PROVE Added \subseteq {Asked.name}
    BY DEF NoOrphanPublication, Added
  <2>1. CASE Smooth
    BY <2>1 DEF IInv, SmoothInv, Named, At, Changed
  <2>2. CASE "name" \notin edits.kinds
    BY <2>2, AskedType DEF IInv, PassInv, OneName
  <2> QED BY <2>1, <2>2 DEF Calm
<1> QED BY <1>1, Inductive, PTL

(* A deletion that took the publication away leaves neither the            *)
(* publication nor the slot, when the status named what the spec names.    *)
THEOREM NothingIsLeft == Spec => []NothingLeft
<1>1. IInv => NothingLeft
  <2> SUFFICES ASSUME IInv, ~cr.exists, cr.finalizer, cr.drop, db.phase # "gone",
                      st.name \in {NoName, cr.spec.name}, Calm
               PROVE  /\ {n \in PubNames : Exists(n)} \subseteq foreign.pubs \ {cr.spec.name}
                      /\ cr.spec.slot # NoName => slots[cr.spec.slot] = "none"
    BY DEF NothingLeft
  <2>1. TypeOK /\ Life /\ Cleared(cr.spec)
    BY DEF IInv, PassInv, Gone
  <2>2. w.pc \notin Changed
    BY <2>1 DEF Life, Changed, Working
  <2>3. ASSUME NEW n \in Added PROVE n = cr.spec.name
    <3>1. CASE Smooth
      BY <2>2, <2>3, <3>1, NamesAssumption DEF IInv, SmoothInv, Named, Added
    <3>2. CASE "name" \notin edits.kinds
      BY <2>3, <3>2 DEF IInv, OneName
    <3> QED BY <3>1, <3>2 DEF Calm
  <2>4. ASSUME NEW n \in PubNames, Exists(n) PROVE n \in foreign.pubs \ {cr.spec.name}
    BY <2>1, <2>3, <2>4 DEF Added, Cleared
  <2> QED BY <2>1, <2>4 DEF Cleared
<1> QED BY <1>1, Inductive, PTL

(* A publication with a plain selection, that is what was asked for and    *)
(* that the status says so of, is not altered again.                       *)
THEOREM NotAlteredAgain == Spec => NoIdleUpdate
<1> DEFINE Idle == \A n \in PubNames :
                      (/\ At("find") /\ w'.pc = "update"
                       /\ Asked = mem.hash /\ Plain(Asked.sel))
                         => pubs[mem.name].sel # Asked.sel
<1>1. ASSUME IInv, [Next]_vars PROVE [Idle]_vars
  <2> SUFFICES ASSUME At("find"), w'.pc = "update", Asked = mem.hash, Plain(Asked.sel),
                      pubs[mem.name].sel = Asked.sel
               PROVE  FALSE
    OBVIOUS
  <2>1. TypeOK /\ Memory
    BY <1>1 DEF IInv, PassInv
  <2>2. SearchName = Asked.name /\ mem.name = Asked.name
    BY <2>1, SameHashSameName DEF At
  <2>3. ~IsReconcileOnPGNecessary(Asked.sel, pubs[SearchName])
    BY <2>1, <2>2, AskedType, ComparisonRests
  <2>4. CASE FindPublication
    BY <2>1, <2>3, <2>4, FindStep
  <2>5. CASE PassStep /\ ~FindPublication
    BY <2>1, <2>5, CreateStep, OwnNewStep, UpdateStep, OwnerStep, SlotStep,
       DropPublicationStep, DropReplicationSlotStep, FaultStep, ValuesType
       DEF PassStep, At, Ends
  <2>6. CASE ManageSuccess \/ Finalize
    BY <2>1, <2>6, SuccessStep, FinalizeStep DEF At
  <2>7. ASSUME NEW copy \in CacheCopies, BeginWith(copy[1], copy[2]) PROVE FALSE
    BY <2>1, <2>7, BeginShape DEF At
  <2>8. CASE UNCHANGED w
    BY <2>8 DEF At
  <2>9. CASE Edited \/ ReportDatabase \/ RemoveDatabase
    BY <2>1, <2>8, <2>9, EditedStep, DatabaseStep
  <2>10. ASSUME NEW role \in Owners, RenameOwner(role) PROVE FALSE
    BY <2>1, <2>8, <2>10, RenameStep
  <2>11. ASSUME NEW name \in PubNames, Drift(name) PROVE FALSE
    BY <2>1, <2>8, <2>11, DriftStep
  <2>12. ASSUME NEW slot \in SlotNames, Consume(slot) \/ Release(slot) PROVE FALSE
    BY <2>1, <2>8, <2>12, ConsumerStep
  <2> QED BY <1>1, <2>4, <2>5, <2>6, <2>7, <2>8, <2>9, <2>10, <2>11, <2>12, NextCases DEF vars
<1> QED BY <1>1, Inductive, PTL DEF NoIdleUpdate, Spec
=============================================================================
