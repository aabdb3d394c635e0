----------------------------- MODULE McpScope -----------------------------
(***************************************************************************)
(* Which writes of an MCP client the scene's scope admits                  *)
(* (mcp/authorization.rs) and what the user is shown of them               *)
(* (make_confirmation_preview in mcp/reads.rs), against what the engine    *)
(* then does.  The user has recorded a group of edits, the engine may have *)
(* moved objects by itself, and the client asks for a write of its own, an *)
(* undo or a redo of the group.                                            *)
(*                                                                         *)
(* Values, kinds and names are left out; the tree the checks read is the   *)
(* one the write meets (what changes in between is in McpAuthorization).   *)
(***************************************************************************)
EXTENDS SceneTree

CONSTANTS
    ScScene,        \* objects of the scene at the start, 0 is the scene's root
    ScFresh,        \* ids the engine hands out
    ScComponent,    \* the id of a component
    ScOwners,       \* owners of the component at the start (see scOwner)
    ScScopes,       \* settings tried (see scScope)
    ScMaxRecords,   \* bound: edits recorded in the group
    ScMaxMoves,     \* bound: moves the engine makes by itself
    ScMaxNodes,     \* MAX_SCOPE_NODES
    ScMaxSnapshots  \* MAX_SCOPE_SNAPSHOTS

ASSUME ScopeAssumption ==
    /\ 0 \in ScScene /\ ScScene \cup ScFresh \subseteq Nat /\ ScScene \cap ScFresh = {}
    /\ ScComponent \in Nat \ (ScScene \cup ScFresh)
    /\ ScOwners \cup ScScopes \subseteq ScScene \cup {NoObject}
    /\ ScMaxRecords \in Nat /\ ScMaxMoves \in Nat /\ ScMaxNodes \in Nat /\ ScMaxSnapshots \in Nat

VARIABLES
    scParent,   \* the engine's scene
    scOwner,    \* the object the component belongs to; NoObject when no snapshot says so
    scScope,    \* McpWriteSettings.scene_root_id, NoObject for none
    scGroup,    \* the records of the group at the head, as they were made
    scStack,    \* the stack the group is on: "undo" or "redo"
    scMoves,
    scWrite     \* the client's write: its calls to come, what they may and do touch

scVars == <<scParent, scOwner, scScope, scGroup, scStack, scMoves, scWrite>>

ScIdle == [at |-> "idle", op |-> [do |-> "none"], calls |-> <<>>, inside |-> {}, touched |-> {},
           removed |-> {}, shown |-> {}, confirmed |-> FALSE]

Scenes == {p \in [ScScene -> ScScene \cup {NoObject}] :
              /\ p[0] = NoObject
              /\ Below(p, 0) = ScScene}

ScInit ==
    /\ scParent \in Scenes /\ scOwner \in ScOwners
    /\ scScope \in ScScopes
    /\ scGroup = <<>> /\ scStack = "undo" /\ scMoves = 0 /\ scWrite = ScIdle

Ids == DOMAIN scParent
Free == ScFresh \ (Ids \cup {scGroup[i].id : i \in DOMAIN scGroup})
NextId == {id \in Free : \A other \in Free : id <= other}
OrNone(S) == S \cup {NoObject}

----------------------------------------------------------------------------
(* The engine.                                                             *)

Under(call) == IF call.under = NoObject THEN 0 ELSE call.under

\* The parent of the copy; alongside the original when none is given.
CopyUnder(call) == IF call.under = NoObject THEN scParent[call.of] ELSE call.under

Accepts(call) ==
    CASE call.do = "create" -> Under(call) \in Ids
      [] call.do = "duplicate" -> call.of \in Ids \ {0} /\ CopyUnder(call) \in Ids
      [] call.do = "reparent" -> /\ call.of \in Ids \ {0} /\ Under(call) \in Ids
                                 /\ Under(call) \notin Below(scParent, call.of)
      [] call.do = "delete" -> call.of \in Ids \ {0}
      [] call.do = "set" -> call.of \in Ids \/ (call.of = ScComponent /\ scOwner # NoObject)
      [] call.do = "addComponent" -> call.of \in Ids
      [] call.do = "removeComponent" -> call.of = ScComponent /\ scOwner # NoObject
      [] OTHER -> TRUE

\* The ids of a copied subtree, the copy of its root first.
Copies(call, id) ==
    LET source == Below(scParent, call.of)
        spare == Ascending(Free \ {id})
        inner == Ascending(source \ {call.of})
    IN  [y \in source |-> IF y = call.of THEN id
                          ELSE spare[CHOOSE i \in DOMAIN inner : inner[i] = y]]

EnoughIds(call) ==
    call.do = "duplicate" => Cardinality(Below(scParent, call.of)) - 1 <= Cardinality(Free \ {call.id})

\* The scene after a call the engine accepted.
SceneAfter(call) ==
    CASE call.do = "create" -> [y \in Ids \cup {call.id} |-> IF y = call.id THEN Under(call) ELSE scParent[y]]
      [] call.do = "duplicate" ->
            LET copy == Copies(call, call.id)
                New(y) == CHOOSE z \in DOMAIN copy : copy[z] = y
            IN  [y \in Ids \cup {copy[z] : z \in DOMAIN copy} |->
                    IF y \in Ids THEN scParent[y]
                    ELSE IF New(y) = call.of THEN CopyUnder(call) ELSE copy[scParent[New(y)]]]
      [] call.do = "reparent" -> [scParent EXCEPT ![call.of] = Under(call)]
      [] call.do = "delete" -> [y \in Ids \ Below(scParent, call.of) |-> scParent[y]]
      [] OTHER -> scParent

Removes(call) == IF call.do = "delete" THEN Below(scParent, call.of) ELSE {}

\* Whatever a call reads, moves, changes or hangs something under.
Touches(call) ==
    CASE call.do = "create" -> {Under(call)}
      [] call.do = "duplicate" -> {call.of, CopyUnder(call)}
      [] call.do = "reparent" -> {call.of, scParent[call.of], Under(call)}
      [] call.do = "delete" -> Below(scParent, call.of) \cup {scParent[call.of]}
      [] call.do = "set" -> {IF call.of \in Ids THEN call.of ELSE scOwner}
      [] call.do = "addComponent" -> {call.of}
      [] call.do = "removeComponent" -> {scOwner}
      [] OTHER -> Ids

OwnerAfter(call) ==
    IF (call.do = "delete" /\ scOwner \in Below(scParent, call.of)) \/ call.do = "removeComponent"
    THEN NoObject ELSE scOwner

----------------------------------------------------------------------------
(* The group: what the user's edits record, and what its undo and redo do. *)

Record(call) ==
    CASE call.do = "reparent" -> [do |-> "reparent", id |-> call.of, old |-> scParent[call.of], under |-> call.under]
      [] call.do = "set" -> [do |-> "set", id |-> call.of]
      [] call.do = "duplicate" -> [do |-> "duplicate", id |-> call.id, of |-> call.of, under |-> call.under]
      [] OTHER -> [do |-> "create", id |-> call.id, under |-> call.under]

RecordedCalls ==
    {[do |-> "create", id |-> id, under |-> p] : id \in NextId, p \in OrNone(Ids)}
      \cup {[do |-> "duplicate", id |-> id, of |-> o, under |-> p] : id \in NextId, o \in Ids, p \in OrNone(Ids)}
      \cup {[do |-> "reparent", of |-> o, under |-> p] : o \in Ids, p \in OrNone(Ids)}
      \cup {[do |-> "set", of |-> o] : o \in Ids \cup {ScComponent}}

\* An edit of the screen; it has no scope.
Edit(call) ==
    /\ scWrite.at = "idle" /\ scStack = "undo" /\ Len(scGroup) < ScMaxRecords
    /\ Accepts(call) /\ EnoughIds(call)
    /\ scGroup' = Append(scGroup, Record(call))
    /\ scParent' = SceneAfter(call)
    /\ UNCHANGED <<scOwner, scScope, scStack, scMoves, scWrite>>

\* The game moves an object; nobody is told.
EngineMoves(o, p) ==
    /\ scWrite.at = "idle" /\ scMoves < ScMaxMoves
    /\ Accepts([do |-> "reparent", of |-> o, under |-> p])
    /\ scParent' = [scParent EXCEPT ![o] = p]
    /\ scMoves' = scMoves + 1
    /\ UNCHANGED <<scOwner, scScope, scGroup, scStack, scWrite>>

UndoCall(r) ==
    CASE r.do \in {"create", "duplicate"} -> [do |-> "delete", of |-> r.id]
      [] r.do = "reparent" -> [do |-> "reparent", of |-> r.id, under |-> r.old]
      [] OTHER -> [do |-> "set", of |-> r.id]

\* An object that is created again keeps its number: the group follows its new id.
RedoCall(r) ==
    CASE r.do = "create" -> [do |-> "create", id |-> r.id, under |-> r.under]
      [] r.do = "duplicate" -> [do |-> "duplicate", id |-> r.id, of |-> r.of, under |-> r.under]
      [] r.do = "reparent" -> [do |-> "reparent", of |-> r.id, under |-> r.under]
      [] OTHER -> [do |-> "set", of |-> r.id]

\* McpHistoryAction.records: in the order they are carried out.
ActionRecords == IF scStack = "undo" THEN Reverse(scGroup) ELSE scGroup

Calls(op) ==
    IF op.do # "history" THEN <<op>>
    ELSE [i \in DOMAIN ActionRecords |->
            IF scStack = "undo" THEN UndoCall(ActionRecords[i]) ELSE RedoCall(ActionRecords[i])]

----------------------------------------------------------------------------
(* McpSceneScopeIndex.                                                     *)

FullScene == scScope \in {NoObject, 0}

\* from_result: the subtree of the scope's root.
Allowed == Below(scParent, IF scScope = NoObject THEN 0 ELSE scScope)

\* McpScopeBudget: how many nodes a tree may have, and how many snapshots it may take.
WithinBudget(nodes, snapshots) == nodes <= ScMaxNodes /\ snapshots <= ScMaxSnapshots

\* What check_history changes while it goes through the records.
Index == [parent |-> scParent, allowed |-> Allowed]

CheckObject(index, o) == o \in DOMAIN index.parent /\ o \in index.allowed
CheckParent(index, p) == IF p = NoObject THEN FullScene ELSE CheckObject(index, p)
CheckComponent(o) == o = ScComponent /\ scOwner \in Allowed
CheckObjectOrComponent(index, o) ==
    IF o \in DOMAIN index.parent THEN CheckObject(index, o) ELSE CheckComponent(o)
CheckDeleteSubtree(o) ==
    /\ CheckObject(Index, o) /\ CheckParent(Index, scParent[o])
    /\ Below(scParent, o) \subseteq Allowed

\* add_recreated_node
Recreated(index, id, p) ==
    [parent |-> [y \in DOMAIN index.parent \cup {id} |->
                    IF y = id THEN (IF p = NoObject THEN 0 ELSE p) ELSE index.parent[y]],
     allowed |-> index.allowed \cup {id}]
MayRecreate(index, id, p) ==
    /\ CheckParent(index, p)
    /\ id \notin DOMAIN index.parent \cup {ScComponent}
    /\ WithinBudget(Cardinality(DOMAIN index.parent) + 1, 0)

\* Mutant of CopyParent: the copy's place alongside its source is not looked up.
CopyParentGiven(index, r) == IF r.under = NoObject THEN r.of ELSE r.under

\* Where a copy goes whose parent was left out.
CopyParent(index, r) ==
    IF r.under = NoObject /\ r.of \in DOMAIN index.parent THEN index.parent[r.of] ELSE r.under

\* One record of an undo, against the scene as it is.
UndoAdmitted(r) ==
    CASE r.do \in {"create", "duplicate"} -> CheckDeleteSubtree(r.id)
      [] r.do = "reparent" -> CheckObject(Index, r.id) /\ CheckParent(Index, r.old) /\ CheckParent(Index, r.under)
      [] OTHER -> CheckObjectOrComponent(Index, r.id)

\* One record of a redo, against the scene the records before it leave.
RedoAdmitted(index, r) ==
    CASE r.do = "create" -> MayRecreate(index, r.id, r.under)
      [] r.do = "duplicate" -> CheckObject(index, r.of) /\ MayRecreate(index, r.id, CopyParent(index, r))
      [] r.do = "reparent" -> /\ CheckObject(index, r.id) /\ CheckParent(index, r.old)
                              /\ CheckParent(index, r.under) /\ CheckParent(index, index.parent[r.id])
      [] OTHER -> CheckObjectOrComponent(index, r.id)

Projected(index, r) ==
    CASE r.do = "create" -> Recreated(index, r.id, r.under)
      [] r.do = "duplicate" -> Recreated(index, r.id, CopyParent(index, r))
      [] r.do = "reparent" -> [index EXCEPT !.parent[r.id] = IF r.under = NoObject THEN 0 ELSE r.under]
      [] OTHER -> index

\* check_history
CheckHistory ==
    LET admitted[n \in 0..Len(scGroup)] ==
          IF n = 0 THEN [ok |-> TRUE, index |-> Index]
          ELSE LET before == admitted[n - 1]
                   r == scGroup[n]
               IN  IF before.ok /\ RedoAdmitted(before.index, r)
                   THEN [ok |-> TRUE, index |-> Projected(before.index, r)]
                   ELSE [before EXCEPT !.ok = FALSE]
    IN  /\ scGroup # <<>>
        /\ IF scStack = "undo" THEN \A i \in DOMAIN scGroup : UndoAdmitted(scGroup[i])
           ELSE admitted[Len(scGroup)].ok

CheckReparent(op) ==
    /\ CheckObject(Index, op.of)
    /\ CheckParent(Index, scParent[op.of]) /\ CheckParent(Index, op.under)

CheckOperation(op) ==
    CASE op.do = "set" -> CheckObjectOrComponent(Index, op.of)
      [] op.do = "create" -> CheckParent(Index, op.under)
      [] op.do = "duplicate" -> CheckObject(Index, op.of) /\ CheckParent(Index, CopyParent(Index, op))
      [] op.do = "reparent" -> CheckReparent(op)
      [] op.do = "delete" -> CheckDeleteSubtree(op.of)
      [] op.do = "addComponent" -> CheckObject(Index, op.of)
      [] op.do = "removeComponent" -> CheckComponent(op.of)
      [] op.do = "runtime" -> FullScene
      [] OTHER -> CheckHistory

\* recreates_before: an earlier record of the redo makes the object.
RecreatesBefore(i) ==
    /\ scStack = "redo"
    /\ \E j \in 1..(i - 1) : scGroup[j].do \in {"create", "duplicate"} /\ scGroup[j].id = scGroup[i].id

\* resolve_component_targets: ids that are no objects must be components ...
ComponentTargets(op) ==
    CASE op.do \in {"set", "removeComponent"} -> {op.of} \ Ids
      [] op.do = "history" -> {scGroup[i].id : i \in {j \in DOMAIN scGroup :
                                   scGroup[j].do = "set" /\ ~RecreatesBefore(j)}} \ Ids
      [] OTHER -> {}

\* ... which takes a snapshot of every object, within the budget.
ComponentsFound(op) ==
    ComponentTargets(op) # {} =>
        /\ WithinBudget(Cardinality(Ids), Cardinality(Ids))
        /\ scOwner # NoObject /\ ComponentTargets(op) = {ScComponent}

\* resolve_scene_scope and what resolve_authorization_review does with it.
Admitted(op) ==
    \/ op.do = "runtime" /\ scScope = NoObject
    \/ /\ WithinBudget(Cardinality(Ids), 0)
       /\ scScope \in OrNone(Ids)
       /\ ComponentsFound(op)
       /\ CheckOperation(op)

RequiresConfirmation(op) ==
    \/ op.do \in {"delete", "removeComponent"}
    \/ /\ op.do = "history" /\ scStack = "undo"
       /\ \E i \in DOMAIN scGroup : scGroup[i].do \in {"create", "duplicate"}

----------------------------------------------------------------------------
(* make_confirmation_preview: target_ids.  The list is cut at               *)
(* MAX_CONFIRMATION_TARGETS, which no scene of a run reaches.              *)

\* collect_tree_ids
DeleteTargets(o) == IF o \in Ids THEN Below(scParent, o) ELSE {o}

RecordTargets(r) ==
    {r.id} \cup (IF "of" \in DOMAIN r THEN {r.of} ELSE {})
           \cup (IF "old" \in DOMAIN r THEN {r.old} ELSE {})
           \cup (IF "under" \in DOMAIN r THEN {r.under} ELSE {})

TargetIds(op) ==
    (CASE op.do = "create" -> {op.under}
       [] op.do = "duplicate" -> {op.of, op.under}
       [] op.do = "reparent" -> {op.of, op.under, scParent[op.of]}
       [] op.do = "delete" -> DeleteTargets(op.of)
       [] op.do = "history" -> UNION {RecordTargets(scGroup[i]) : i \in DOMAIN scGroup}
       [] op.do = "runtime" -> {}
       [] OTHER -> {op.of}) \ {NoObject}

----------------------------------------------------------------------------
(* The client.                                                             *)

\* McpWriteOperation::from_bridge_method, and undo or redo.
ClientCalls ==
    {[do |-> "create", id |-> id, under |-> p] : id \in NextId, p \in OrNone(Ids)}
      \cup {[do |-> "duplicate", id |-> id, of |-> o, under |-> p] : id \in NextId, o \in Ids, p \in OrNone(Ids)}
      \cup {[do |-> "reparent", of |-> o, under |-> p] : o \in Ids, p \in OrNone(Ids)}
      \cup {[do |-> do, of |-> o] : do \in {"set", "delete", "addComponent", "removeComponent"},
                                     o \in Ids \cup {ScComponent}}
      \cup {[do |-> "runtime"], [do |-> "history"]}

\* A write that is admitted, and confirmed where it has to be.  Bound: the client
\* asks for a write of its own only where no group is recorded, which it would
\* not depend on.
Write(op) ==
    /\ scWrite.at = "idle" /\ (op.do = "history" \/ scGroup = <<>>)
    /\ Admitted(op)
    /\ scWrite' = [at |-> "running", op |-> op, calls |-> Calls(op), inside |-> Allowed, touched |-> {},
                   removed |-> {}, shown |-> TargetIds(op), confirmed |-> RequiresConfirmation(op)]
    /\ UNCHANGED <<scParent, scOwner, scScope, scGroup, scStack, scMoves>>

\* The next call; one that the engine refuses ends the write.
Execute ==
    /\ scWrite.at = "running" /\ scWrite.calls # <<>>
    /\ LET call == Head(scWrite.calls)
       IN  IF Accepts(call) /\ EnoughIds(call)
           THEN /\ scParent' = SceneAfter(call) /\ scOwner' = OwnerAfter(call)
                /\ scWrite' = [scWrite EXCEPT !.calls = Tail(@),
                                  !.inside = @ \cup (DOMAIN scParent' \ Ids),
                                  !.touched = @ \cup Touches(call), !.removed = @ \cup Removes(call)]
           ELSE /\ scWrite' = [scWrite EXCEPT !.at = "refused"]
                /\ UNCHANGED <<scParent, scOwner>>
    /\ UNCHANGED <<scScope, scGroup, scStack, scMoves>>

\* A group that was undone as a whole may be redone.
Settle ==
    /\ scWrite.at = "running" /\ scWrite.calls = <<>>
    /\ IF scWrite.op.do = "history"
       THEN /\ scStack' = IF scStack = "undo" THEN "redo" ELSE "undo"
            /\ scWrite' = [ScIdle EXCEPT !.at = IF scStack = "undo" THEN "idle" ELSE "over"]
       ELSE scWrite' = [ScIdle EXCEPT !.at = "over"] /\ UNCHANGED scStack
    /\ UNCHANGED <<scParent, scOwner, scScope, scGroup, scMoves>>

ScNext ==
    \/ \E call \in RecordedCalls : Edit(call)
    \/ \E o \in Ids, p \in Ids : EngineMoves(o, p)
    \/ \E op \in ClientCalls : Write(op)
    \/ Execute \/ Settle

ScSpec == ScInit /\ [][ScNext]_scVars

----------------------------------------------------------------------------
(* What the checks promise.                                                *)

\* No call of an admitted write reads, moves, deletes or hangs anything outside
\* the subtree the settings allow, also when the engine has moved objects since
\* the group was recorded and when later records build on earlier ones
\* (check_operation, check_history).
StaysInScope == scWrite.touched \subseteq scWrite.inside

\* Nothing is deleted by a write that needed no confirmation.
DeletionIsConfirmed == scWrite.removed # {} => scWrite.confirmed

\* A client's deletion was shown with every object it took away.
DeletedWasShown == scWrite.op.do = "delete" => scWrite.removed \subseteq scWrite.shown

\* The paged list of the scene a write left behind is the tree in preorder,
\* from every root and to every depth (flatten_scene_tree).
ListIsPreorder ==
    scWrite.at = "over" =>
      \A root \in Ids, limit \in 0..Cardinality(Ids) :
        IsPreorder(scParent, root, limit, FlattenSceneTree(scParent, root, limit))

\* A write stays within what the settings allow and the user was shown, in the
\* tree the client was shown.
WriteStaysInScope ==
    StaysInScope /\ DeletionIsConfirmed /\ DeletedWasShown /\ ListIsPreorder
============================================================================
