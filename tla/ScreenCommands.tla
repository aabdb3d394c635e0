-------------------------- MODULE ScreenCommands --------------------------
(***************************************************************************)
(* The commands the screen invokes on a connection (bridge_state.rs): what *)
(* each sends, how its answer is checked before the screen gets it, what   *)
(* an accepted edit leaves in the history and what the event that goes to  *)
(* every window says about it (edit_event_details in edit_service.rs).     *)
(*                                                                         *)
(* One command at a time: queries do not wait for the edits' queue, whose  *)
(* order and races are in EditQueue and EditService.  The engine has one   *)
(* property, one place of an object and at most one object that the        *)
(* commands made; values and ids are kinds of AnswerShapes, the id the     *)
(* engine gave is "text".                                                  *)
(***************************************************************************)
EXTENDS AnswerShapes

CONSTANTS
    ScrValues,      \* kinds of the values the screen sets
    ScrMaxCommands  \* bound: commands in a row

ASSUME ScreenAssumption == ScrValues \subseteq Kinds /\ ScrMaxCommands \in Nat

VARIABLES
    scrEngine,  \* the property's value, the object's parent ("null" for none), whether the made object exists
    scrRecord,  \* the one entry of the history, on its stack
    scrCall,    \* the command under way, its answer and what came of it
    scrCount

scrVars == <<scrEngine, scrRecord, scrCall, scrCount>>

NoRecord == [do |-> "none"]
NoEvent == [operation |-> "none"]
NoCall == [at |-> "idle"]
Nothing == [k \in {} |-> {}]

ScrInit ==
    /\ scrEngine \in [value : ScrValues, parent : {"null", "text"}, made : {FALSE}]
    /\ scrRecord = NoRecord /\ scrCall = NoCall /\ scrCount = 0

----------------------------------------------------------------------------
(* The commands: the method, how the request travels, what is sent and     *)
(* what the history is told beforehand.                                    *)

Command(method, by, params, told) == [method |-> method, by |-> by, params |-> params, told |-> told]

\* send_method: any time, no history.
Query(method, params) == Command(method, "query", params, NoRecord)

\* enqueue_recorded_from_ui
Recorded(method, params, told) == Command(method, "edit", params, told)

\* enqueue_with_event_from_ui: an event, but nothing to undo.
Announced(method, params, told) == Command(method, "event", params, told)

\* submit_from_ui with RuntimeControl
Control(method) == Command(method, "control", Nothing, NoRecord)

\* insert_optional_string and the like: nothing for None.
Optional(name, kind) == IF kind = "null" THEN Nothing ELSE [f \in {name} |-> Leaf(kind)]

Given(name, kind) == [f \in {name} |-> Leaf(kind)]
Both(f, g) == [x \in DOMAIN f \cup DOMAIN g |-> IF x \in DOMAIN f THEN f[x] ELSE g[x]]
OptionalText == {"null", "text"}

\* bridge_connect asks these two in turn before a connection counts (BridgeSession).
BridgeHello ==
    {Query("hello", [role |-> Leaf("word"), clientName |-> Leaf("text"),
                     protocolVersions |-> List(<<Leaf("word"), Leaf("word")>>)])}
BridgeGetCapabilities == {Query("getCapabilities", Nothing)}

GetStatus == {Query("getStatus", Nothing)}
SceneGetTree == {Query("getTree", Nothing)}
ObjectGetSnapshot == {Query("getSnapshot", Given("objectId", "text"))}
SchemaGetSnapshot == {Query("getSchema", Nothing)}
AssetResolve ==
    {Query("resolve", Both(Given("logicalPath", "text"), Both(Optional("kind", k), Optional("variant", v)))) :
        k \in OptionalText, v \in OptionalText}
AssetGetManifest ==
    {Query("getManifest", Both(Optional("filter", f), Both(Optional("page", p), Optional("pageSize", n)))) :
        f \in OptionalText, p \in {"null", "zero", "int"}, n \in {"null", "int"}}
AssetReloadManifest == {Query("reloadManifest", Nothing)}

\* Through the thumbnail service, which keeps and shares answers (Thumbnails).
ViewportGetThumbnail == {Query("getThumbnail", Nothing)}

\* Nothing is expected of the answer.
FocusViewport == {Query("focusViewport", Nothing)}
RuntimePlay == {Control("play")}
RuntimePause == {Control("pause")}
RuntimeStop == {Control("stop")}

SceneCreateObject ==
    {Recorded("createObject", Both(Optional("parentId", p), Optional("kind", k)),
              [do |-> "create", parent |-> p, kind |-> k]) : p \in OptionalText, k \in OptionalText}
SceneDuplicateObject ==
    {Recorded("duplicateObject", Both(Given("objectId", "text"), Optional("newParentId", p)),
              [do |-> "duplicate", parent |-> p]) : p \in OptionalText}
SceneDeleteObject == {Recorded("deleteObject", Given("objectId", "text"), [do |-> "delete"])}

\* The value the screen showed is the old one, when it showed one (capture).
SceneReparentObject ==
    {Recorded("reparentObject", Both(Given("objectId", "text"), Optional("newParentId", p)),
              [do |-> "reparent", old |-> old, new |-> p]) :
        p \in OptionalText, old \in {scrEngine.parent, "unknown"}}
ObjectSetProperty ==
    {Recorded("setProperty", Both(Given("objectId", "text"), Both(Given("property", "text"), Given("value", v))),
              [do |-> "set", old |-> old, new |-> v]) :
        v \in ScrValues, old \in {scrEngine.value, "unknown"}}

ComponentAdd ==
    {Announced("addComponent", Both(Given("objectId", "text"), Given("kind", "text")), [do |-> "componentAdd"])}
ComponentRemove == {Announced("removeComponent", Given("objectId", "text"), [do |-> "componentRemove"])}

\* run_history_action: what an undo or a redo of the entry sends.
HistoryCall(r) ==
    LET undo == r.on = "undo"
        Sent(method, params) == Command(method, "history", params, r)
    IN  CASE r.do \in {"create", "duplicate"} /\ undo -> Sent("deleteObject", Given("objectId", r.id))
          [] r.do = "create" -> Sent("createObject", Both(Optional("parentId", r.parent), Optional("kind", r.kind)))
          [] r.do = "duplicate" -> Sent("duplicateObject", Both(Given("objectId", "text"), Optional("newParentId", r.parent)))
          [] r.do = "reparent" -> Sent("reparentObject", Both(Given("objectId", "text"),
                                         Optional("newParentId", IF undo THEN r.old ELSE r.new)))
          [] OTHER -> Sent("setProperty", Both(Given("objectId", "text"), Both(Given("property", "text"),
                                    Given("value", IF undo THEN r.old ELSE r.new))))

EditUndo == IF scrRecord # NoRecord /\ scrRecord.on = "undo" THEN {HistoryCall(scrRecord)} ELSE {}
EditRedo == IF scrRecord # NoRecord /\ scrRecord.on = "redo" THEN {HistoryCall(scrRecord)} ELSE {}

Queries == BridgeHello \cup BridgeGetCapabilities \cup GetStatus \cup SceneGetTree \cup ObjectGetSnapshot \cup SchemaGetSnapshot \cup AssetResolve
             \cup AssetGetManifest \cup AssetReloadManifest \cup ViewportGetThumbnail \cup FocusViewport
             \cup RuntimePlay \cup RuntimePause \cup RuntimeStop
Edits == SceneCreateObject \cup SceneDuplicateObject \cup SceneDeleteObject \cup SceneReparentObject
           \cup ObjectSetProperty \cup ComponentAdd \cup ComponentRemove \cup EditUndo \cup EditRedo

\* A command is invoked and its request sent.  Bound: after an edit, undo and redo only.
Invoke(command) ==
    /\ scrCall = NoCall /\ scrCount < ScrMaxCommands
    /\ scrCount = 0 \/ command.by = "history"
    /\ scrCall' = [at |-> "sent", command |-> command]
    /\ UNCHANGED <<scrEngine, scrRecord, scrCount>>

----------------------------------------------------------------------------
(* The schemas of the parameters and which shape a method answers with.    *)

ParamSchemas ==
    LET none == Closed(Nothing)
        id == NonEmpty
    IN  [hello |-> Closed([role |-> Must({"word"}), clientName |-> Must(NonEmpty),
                           protocolVersions |-> Must({"list"}), clientVersion |-> May(NonEmpty),
                           capabilities |-> May({"list"})]),
         getCapabilities |-> none, getStatus |-> none, getTree |-> none, getSchema |-> none, reloadManifest |-> none,
         focusViewport |-> none, play |-> none, pause |-> none, stop |-> none,
         getThumbnail |-> Closed([maxWidth |-> May({"int"}), maxHeight |-> May({"int"})]),
         getSnapshot |-> Closed([objectId |-> Must(id)]), deleteObject |-> Closed([objectId |-> Must(id)]),
         removeComponent |-> Closed([objectId |-> Must(id)]),
         resolve |-> Closed([logicalPath |-> Must(Text), kind |-> May(Text), variant |-> May(Text)]),
         getManifest |-> Closed([filter |-> May(Text), page |-> May(AtLeastZero), pageSize |-> May({"int"})]),
         createObject |-> Closed([parentId |-> May(id), kind |-> May(id)]),
         duplicateObject |-> Closed([objectId |-> Must(id), newParentId |-> May(id)]),
         reparentObject |-> Closed([objectId |-> Must(id), newParentId |-> May(id)]),
         setProperty |-> Closed([objectId |-> Must(id), property |-> Must(id), value |-> Must(AnyKind)]),
         addComponent |-> Closed([objectId |-> Must(id), kind |-> Must(id)])]

\* "" where nothing is expected of the answer.
Answer(method) ==
    CASE method = "hello" -> "hello"                 [] method = "getCapabilities" -> "capabilities"
      [] method = "getStatus" -> "status"            [] method = "getTree" -> "tree"
      [] method = "getSnapshot" -> "snapshot"        [] method = "getSchema" -> "schema"
      [] method = "resolve" -> "resolved"            [] method = "getManifest" -> "manifest"
      [] method = "reloadManifest" -> "reloaded"     [] method = "getThumbnail" -> "thumbnail"
      [] method \in {"createObject", "duplicateObject"} -> "created"
      [] method \in {"deleteObject", "reparentObject"} -> "edited"
      [] method = "setProperty" -> "set"             [] method = "addComponent" -> "componentAdded"
      [] method = "removeComponent" -> "componentRemoved"
      [] OTHER -> ""

----------------------------------------------------------------------------
(* The engine.  It does what it says it accepted, and reports the value it *)
(* stored where that is not the one it was given.  (external)              *)

Says(answer, f) ==
    IF f \in DOMAIN answer.of THEN answer.of[f].k ELSE "absent"
Accepted(answer) == Says(answer, "accepted") = "yes"

\* Commands that make the object or take it away.
Makes(c) == c.method \in {"createObject", "duplicateObject"}
Takes(c) == c.method = "deleteObject"

Stored(c, answer) == IF Says(answer, "appliedValue") = "absent" THEN c.params["value"].k ELSE Says(answer, "appliedValue")

Performed(e, c, answer) ==
    CASE Makes(c) -> [e EXCEPT !.made = TRUE]
      [] Takes(c) -> [e EXCEPT !.made = FALSE]
      [] c.method = "setProperty" -> [e EXCEPT !.value = Stored(c, answer)]
      [] c.method = "reparentObject" ->
            [e EXCEPT !.parent = IF "newParentId" \in DOMAIN c.params THEN c.params["newParentId"].k ELSE "null"]
      [] OTHER -> e

AnswersTo(c) == IF Answer(c.method) = "" THEN {Leaf("null")} ELSE Variants(Answer(c.method), 1)

EngineAnswers(answer) ==
    /\ scrCall.at = "sent"
    /\ scrCall' = [at |-> "answered", command |-> scrCall.command, answer |-> answer]
    /\ scrEngine' = IF Accepted(answer) THEN Performed(scrEngine, scrCall.command, answer) ELSE scrEngine
    /\ UNCHANGED <<scrRecord, scrCount>>

\* A protocol error, a timeout or a lost connection: the edits' side is in EditService.
EngineFails ==
    /\ scrCall.at = "sent" /\ scrCall' = NoCall
    /\ scrRecord' = IF scrCall.command.by = "history" THEN NoRecord ELSE scrRecord
    /\ UNCHANGED <<scrEngine, scrCount>>

----------------------------------------------------------------------------
(* The answer comes back.                                                  *)

\* The command's parse_..._result; validate_history_result for an undo or a redo.
WellFormed(c, answer) == Answer(c.method) = "" \/ Matches(Parsers, Answer(c.method), answer)

\* Mutant of NamesObject: an empty id is taken for the object's.
NamesObjectAny(answer) == Says(answer, "newId") \in Text

\* non_empty_new_id, and the same filter in record_success_in_group.
NamesObject(answer) == Says(answer, "newId") \in NonEmpty

\* record_success_in_group: what can be undone.  Nothing, when the answer names
\* no object, the old value is not known or nothing has changed.
RecordOf(told, answer) ==
    LET applied == IF Says(answer, "appliedValue") = "absent" THEN told.new ELSE Says(answer, "appliedValue")
    IN  CASE told.do \in {"create", "duplicate"} ->
                IF NamesObject(answer) THEN Both([on |-> "undo", id |-> Says(answer, "newId")], told)
                ELSE NoRecord
          [] told.do = "set" ->
                IF told.old \in {"unknown", applied} THEN NoRecord
                ELSE [do |-> "set", on |-> "undo", old |-> told.old, new |-> applied]
          [] told.do = "reparent" ->
                IF told.old \in {"unknown", told.new} THEN NoRecord ELSE Both([on |-> "undo"], told)
          [] OTHER -> NoRecord

\* updated_history_record: a redo must name the object it made.
Unnamed(c, answer) == c.by = "history" /\ Makes(c) /\ ~NamesObject(answer)

Opposite(on) == IF on = "undo" THEN "redo" ELSE "undo"

\* The entry after the command; a new entry makes the others unreachable here.
RecordAfter(c, answer) ==
    CASE c.by = "history" ->
            IF ~WellFormed(c, answer) \/ ~Accepted(answer) \/ Unnamed(c, answer) THEN NoRecord
            ELSE IF Makes(c) THEN [c.told EXCEPT !.on = "undo", !.id = Says(answer, "newId")]
            ELSE [c.told EXCEPT !.on = Opposite(@)]
      [] c.by = "edit" /\ WellFormed(c, answer) /\ Accepted(answer) ->
            IF c.told.do = "delete" THEN NoRecord
            ELSE IF RecordOf(c.told, answer) # NoRecord THEN RecordOf(c.told, answer) ELSE scrRecord
      [] OTHER -> scrRecord

\* The value of the event: the one the engine reports, else the one it was sent.
EventValue(c, answer) ==
    IF Says(answer, "appliedValue") # "absent" THEN Says(answer, "appliedValue")
    ELSE IF c.by = "history" /\ c.told.on = "undo" THEN c.told.old ELSE c.told.new

\* edit_event_details
EventDetails(c, answer) ==
    [operation |-> IF c.by = "history" THEN c.told.on ELSE c.told.do,
     value |-> IF c.told.do \in {"set", "reparent"} THEN EventValue(c, answer)
               ELSE IF c.told.do = "componentAdd" THEN c.params["kind"].k ELSE "absent",
     newId |-> CASE Makes(c) -> Says(answer, "newId")
                 [] c.told.do = "componentAdd" -> Says(answer, "componentId")
                 [] OTHER -> "absent"]

\* finish_action_success: an undo or a redo the engine does not accept, or whose
\* object it does not name, is an error and its entry is gone.
Outcome(c, answer) ==
    CASE ~WellFormed(c, answer) -> "malformed"
      [] c.by = "history" /\ ~Accepted(answer) -> "refused"
      [] Unnamed(c, answer) -> "unnamed"
      [] OTHER -> "forwarded"

\* process_item_inner: only what the engine accepted and the history counted.
EventOf(c, answer) ==
    IF c.by \in {"edit", "event", "history"} /\ Outcome(c, answer) = "forwarded" /\ Accepted(answer)
    THEN EventDetails(c, answer) ELSE NoEvent

\* What is taken over of a parsed object: the fields the parser knows that are not null.
Extracted(shape, v) ==
    Object([f \in {g \in DOMAIN v.of : g \in DOMAIN Parsers[shape].fields /\ v.of[g].k # "null"} |-> v.of[f]])

\* What is passed on: of hello and the capabilities the parsed structure, else
\* the engine's own value.
Shown(c, answer) ==
    CASE c.method = "hello" -> Extracted("hello", answer)
      [] c.method = "getCapabilities" ->
            LET descriptors == Named(ParseCapabilities.order, answer).of["capabilities"].items
                Descriptor(v) == Extracted("descriptor", Named(CapabilityDescriptor.order, v))
            IN  Object([capabilities |-> List([i \in DOMAIN descriptors |-> Descriptor(descriptors[i])])])
      [] OTHER -> answer

\* The screen gets the answer, or an error.
Return ==
    /\ scrCall.at = "answered"
    /\ LET c == scrCall.command
           answer == scrCall.answer
       IN  /\ scrCall' = [at |-> "returned", command |-> c, answer |-> answer,
                          outcome |-> Outcome(c, answer), event |-> EventOf(c, answer),
                          shown |-> IF Outcome(c, answer) = "forwarded" THEN Shown(c, answer) ELSE Leaf("null")]
           /\ scrRecord' = RecordAfter(c, answer)
    /\ scrCount' = scrCount + 1
    /\ UNCHANGED scrEngine

Done == scrCall.at = "returned" /\ scrCall' = NoCall /\ UNCHANGED <<scrEngine, scrRecord, scrCount>>

ScrNext ==
    \/ \E c \in Queries \cup Edits : Invoke(c)
    \/ scrCall.at = "sent" /\ \E answer \in AnswersTo(scrCall.command) : EngineAnswers(answer)
    \/ EngineFails \/ Return \/ Done

ScrSpec == ScrInit /\ [][ScrNext]_scrVars

----------------------------------------------------------------------------
(* What the screen can rely on.                                            *)

\* An answer that conforms to the published schema of its method reaches the
\* screen; the parsers refuse nothing an engine may say (norves-bridge-editor-client).
ConformingIsForwarded ==
    scrCall.at = "returned" /\ scrCall.outcome = "malformed" =>
        ~Matches(Schemas, Answer(scrCall.command.method), scrCall.answer)

\* What reaches the screen has the JSON types of the schema at every depth, also
\* inside lists and nested objects, but for the forms that serde takes besides and
\* that are passed on as they came: {"ready": null} for a state, [true] for a reload.
ForwardedIsTyped ==
    scrCall.at = "returned" /\ scrCall.outcome = "forwarded" /\ Answer(scrCall.command.method) # "" =>
        Matches(SerdeTypes, Answer(scrCall.command.method), scrCall.shown)

\* Every request conforms to the schema of its parameters, also an undo or a
\* redo that is put together from what an earlier answer left in the history.
ParamsConform ==
    scrCall.at = "sent" => Matches(ParamSchemas, scrCall.command.method, Object(scrCall.command.params))

\* An edit, undo or redo that the engine carried out and the screen was told of
\* is announced to every window, with the value and the object the engine has now.
EventTellsEngine ==
    scrCall.at = "returned" /\ scrCall.command.by \in {"edit", "event", "history"} =>
        LET event == scrCall.event
        IN  /\ (event # NoEvent) = (scrCall.outcome = "forwarded" /\ Accepted(scrCall.answer))
            /\ event # NoEvent =>
                /\ scrCall.command.told.do = "set" => event.value = scrEngine.value
                /\ scrCall.command.told.do = "reparent" => event.value = scrEngine.parent
                /\ Makes(scrCall.command) => scrEngine.made
                /\ Takes(scrCall.command) => ~scrEngine.made

\* Engine, history and windows agree through the parsers: what conforms gets in,
\* what gets in is typed, what it leaves behind can be sent back, and what is
\* announced is what the engine has.
CommandsKeepTheSchema ==
    ConformingIsForwarded /\ ForwardedIsTyped /\ ParamsConform /\ EventTellsEngine
============================================================================
