---------------------------- MODULE ToolCatalog ----------------------------
(***************************************************************************)
(* The MCP tools that a connection, the write permission and the edit      *)
(* service allow (McpToolCatalog in mcp/tool_catalog.rs), how a client's   *)
(* list follows them (listen, on_initialized and list_tools in mcp.rs),    *)
(* and the calls that are let through to the engine (call_tool).           *)
(*                                                                         *)
(* Capabilities and methods have the names of the protocol, in short.      *)
(***************************************************************************)
EXTENDS Naturals, FiniteSets

CONSTANTS
    TcOffers,       \* sets of capabilities an engine may advertise
    TcTools,        \* tools the client calls
    TcMaxChanges    \* bound: changes of the catalogue's state

Capabilities == {"sceneQuery", "objectQuery", "sceneEdit", "objectEdit", "componentEdit",
                 "runtimeControl", "assetRead", "thumbnail"}

VARIABLES
    tcState,    \* CatalogState
    tcOffered,  \* what each connection's engine advertised; its domain is the generations so far
    tcSession,  \* generation of the published session, 0 for none
    tcVersion,  \* how often the watch channel was sent to
    tcSetter,   \* a thread inside set_connection, set_write_permission, ...
    tcChanges,
    tcClient,   \* the client's subscription and its list
    tcCall      \* a call of the client

tcVars == <<tcState, tcOffered, tcSession, tcVersion, tcSetter, tcChanges, tcClient, tcCall>>

NoClient == [at |-> "new", seen |-> 0, told |-> FALSE, listed |-> FALSE, tools |-> {}]
NoToolCall == [at |-> "idle", tool |-> "", checked |-> 0, gen |-> 0, lease |-> 0, sent |-> {}]
NoSetter == [at |-> "idle", session |-> 0]
Setters == {"bridge", "settings", "startup"}

TcInit ==
    /\ tcState = [gen |-> 0, caps |-> {}, writes |-> FALSE, ready |-> FALSE]
    /\ tcOffered = <<>> /\ tcSession = 0 /\ tcVersion = 0 /\ tcChanges = 0
    /\ tcSetter = [s \in Setters |-> NoSetter]
    /\ tcClient = NoClient /\ tcCall = NoToolCall

----------------------------------------------------------------------------
(* The tools: the capabilities each needs, and the methods it sends.       *)

ReadTools == [
    engine_get_status |-> {}, bridge_get_capabilities |-> {}, logs_get_recent |-> {},
    scene_get_tree |-> {"sceneQuery"}, scene_get_tree_page |-> {"sceneQuery"},
    object_get_snapshot |-> {"objectQuery"}, schema_get_snapshot |-> {"objectQuery"},
    asset_get_manifest |-> {"assetRead"}, asset_resolve |-> {"assetRead"},
    viewport_get_thumbnail |-> {"thumbnail"}]

WriteTools == [
    object_set_property |-> {"objectEdit", "objectQuery", "sceneQuery"},
    scene_create_object |-> {"sceneEdit", "sceneQuery"}, scene_delete_object |-> {"sceneEdit", "sceneQuery"},
    scene_reparent_object |-> {"sceneEdit", "sceneQuery"}, scene_duplicate_object |-> {"sceneEdit", "sceneQuery"},
    component_add |-> {"componentEdit", "objectQuery", "sceneQuery"},
    component_remove |-> {"componentEdit", "objectQuery", "sceneQuery"},
    runtime_play |-> {"runtimeControl"}, runtime_pause |-> {"runtimeControl"}, runtime_stop |-> {"runtimeControl"},
    edit_undo |-> {"sceneQuery"}, edit_redo |-> {"sceneQuery"},
    edit_begin_group |-> {"objectEdit", "sceneEdit", "componentEdit"},
    edit_end_group |-> {"objectEdit", "sceneEdit", "componentEdit"}]

\* is_implemented_write
ImplementedWrites == {
    "object_set_property", "scene_create_object", "scene_duplicate_object", "scene_reparent_object",
    "scene_delete_object", "component_add", "component_remove", "edit_undo", "edit_redo",
    "edit_begin_group", "edit_end_group", "runtime_play", "runtime_pause", "runtime_stop"}

IsWrite(tool) == tool \in DOMAIN WriteTools
Needs(tool) == IF IsWrite(tool) THEN WriteTools[tool] ELSE ReadTools[tool]

\* is_exposed
IsExposed(tool, state) ==
    /\ state.gen # 0
    /\ Needs(tool) \subseteq state.caps
    /\ IsWrite(tool) => tool \in ImplementedWrites /\ state.writes /\ state.ready

\* list: get and validate_call find a tool the same way.
ListTools(state) == {tool \in DOMAIN ReadTools \cup DOMAIN WriteTools : IsExposed(tool, state)}

\* The method of a read (bridge_read_request).
ReadMethods(tool) ==
    CASE tool = "engine_get_status" -> {"getStatus"}
      [] tool = "bridge_get_capabilities" -> {"getCapabilities"}
      [] tool \in {"scene_get_tree", "scene_get_tree_page"} -> {"getTree"}
      [] tool = "object_get_snapshot" -> {"getSnapshot"}
      [] tool = "schema_get_snapshot" -> {"getSchema"}
      [] tool = "asset_get_manifest" -> {"getManifest"}
      [] tool = "asset_resolve" -> {"resolve"}
      [] tool = "viewport_get_thumbnail" -> {"getThumbnail"}
      [] OTHER -> {}

\* The methods of a write: the scope's reads and the write itself.  A head is what
\* an undo or a redo finds in the history: edits of the scene or of properties.
WriteMethods(tool, head) ==
    CASE tool = "object_set_property" -> {"getTree", "getSnapshot", "setProperty"}
      [] tool = "scene_create_object" -> {"getTree", "createObject"}
      [] tool = "scene_delete_object" -> {"getTree", "deleteObject"}
      [] tool = "scene_reparent_object" -> {"getTree", "reparentObject"}
      [] tool = "scene_duplicate_object" -> {"getTree", "duplicateObject"}
      [] tool = "component_add" -> {"getTree", "addComponent"}
      [] tool = "component_remove" -> {"getTree", "getSnapshot", "removeComponent"}
      [] tool \in {"runtime_play", "runtime_pause", "runtime_stop"} -> {"control"}
      [] tool \in {"edit_undo", "edit_redo"} ->
            {"getTree"} \cup (IF head = "scene" THEN {"createObject", "deleteObject", "reparentObject"}
                              ELSE {"getSnapshot", "setProperty"})
      [] OTHER -> {}

\* required_capabilities and history_required_capabilities.
RequiredCapabilities(tool, head) ==
    CASE tool \in {"edit_undo", "edit_redo"} ->
            {"sceneQuery"} \cup (IF head = "scene" THEN {"sceneEdit"} ELSE {"objectEdit", "objectQuery"})
      [] tool \in {"edit_begin_group", "edit_end_group"} -> {}
      [] OTHER -> WriteTools[tool]

\* The capability that stands for a method (bridge/spec/docs/capabilities.md).
CapabilityOf(method) ==
    CASE method = "getTree" -> {"sceneQuery"}
      [] method \in {"getSnapshot", "getSchema"} -> {"objectQuery"}
      [] method \in {"createObject", "deleteObject", "reparentObject", "duplicateObject"} -> {"sceneEdit"}
      [] method = "setProperty" -> {"objectEdit"}
      [] method \in {"addComponent", "removeComponent"} -> {"componentEdit"}
      [] method = "control" -> {"runtimeControl"}
      [] method \in {"getManifest", "resolve"} -> {"assetRead"}
      [] method = "getThumbnail" -> {"thumbnail"}
      [] OTHER -> {}

----------------------------------------------------------------------------
(* What changes the catalogue.  The state changes under its lock, the      *)
(* channel is sent to after it.                                            *)

\* Mutant of Noticed: a change that offers the same capabilities is not announced.
NoticedCapabilities(next) == next.caps # tcState.caps \/ next.writes # tcState.writes

\* A state that is the same is not announced.
Noticed(next) == next # tcState

Change(setter, next, session) ==
    /\ tcSetter[setter].at = "idle" /\ tcChanges < TcMaxChanges
    /\ tcState' = next
    /\ tcSetter' = [tcSetter EXCEPT ![setter] =
                       [at |-> IF Noticed(next) THEN "notify" ELSE "end", session |-> session]]
    /\ tcChanges' = tcChanges + 1
    /\ UNCHANGED <<tcSession, tcVersion, tcClient, tcCall>>

\* publish_session of a new connection: set_connection, then the session itself.
PublishConnection(offer) ==
    /\ tcSession = 0
    /\ Change("bridge", [tcState EXCEPT !.gen = Cardinality(DOMAIN tcOffered) + 1, !.caps = offer],
              Cardinality(DOMAIN tcOffered) + 1)
    /\ tcOffered' = [g \in 1..(Cardinality(DOMAIN tcOffered) + 1) |->
                        IF g \in DOMAIN tcOffered THEN tcOffered[g] ELSE offer]

PublishNone ==
    /\ tcSession # 0
    /\ Change("bridge", [tcState EXCEPT !.gen = 0, !.caps = {}], 0)
    /\ UNCHANGED tcOffered

SetWritePermission(writes) ==
    /\ Change("settings", [tcState EXCEPT !.writes = writes], 0) /\ UNCHANGED tcOffered

SetWriteHandlersReady ==
    /\ ~tcState.ready
    /\ Change("startup", [tcState EXCEPT !.ready = TRUE], 0) /\ UNCHANGED tcOffered

\* notify_changed.  Two threads may read the same number and send it twice; a
\* receiver is woken by every sending, whatever the number.
NotifyChanged(setter) ==
    /\ tcSetter[setter].at = "notify"
    /\ tcVersion' = tcVersion + 1
    /\ tcSetter' = [tcSetter EXCEPT ![setter].at = "end"]
    /\ UNCHANGED <<tcState, tcOffered, tcSession, tcChanges, tcClient, tcCall>>

\* The setter returns; publish_session has the session to send.
SetterEnds(setter) ==
    /\ tcSetter[setter].at = "end"
    /\ tcSession' = IF setter = "bridge" THEN tcSetter[setter].session ELSE tcSession
    /\ tcSetter' = [tcSetter EXCEPT ![setter] = NoSetter]
    /\ UNCHANGED <<tcState, tcOffered, tcVersion, tcChanges, tcClient, tcCall>>

----------------------------------------------------------------------------
(* The client's list.  It asks for it after it has subscribed, and again   *)
(* whenever it is told of a change.                                        *)

\* listen, or on_initialized for the older protocol: the changes until now count as seen.
Listen ==
    /\ tcClient.at = "new" /\ tcCall = NoToolCall
    /\ tcClient' = [tcClient EXCEPT !.at = "open", !.seen = tcVersion]
    /\ UNCHANGED <<tcState, tcOffered, tcSession, tcVersion, tcSetter, tcChanges, tcCall>>

\* changes.changed(): one notification for all the changes since the last.
Notify ==
    /\ tcClient.at = "open" /\ tcClient.seen # tcVersion
    /\ tcClient' = [tcClient EXCEPT !.seen = tcVersion, !.told = TRUE]
    /\ UNCHANGED <<tcState, tcOffered, tcSession, tcVersion, tcSetter, tcChanges, tcCall>>

\* list_tools
AskForList ==
    /\ tcClient.at = "open" /\ (tcClient.told \/ ~tcClient.listed)
    /\ tcClient' = [tcClient EXCEPT !.told = FALSE, !.listed = TRUE, !.tools = ListTools(tcState)]
    /\ UNCHANGED <<tcState, tcOffered, tcSession, tcVersion, tcSetter, tcChanges, tcCall>>

\* The stream is cancelled or its transport is closed.
StreamEnds ==
    /\ tcClient.at = "open" /\ tcClient' = NoClient
    /\ UNCHANGED <<tcState, tcOffered, tcSession, tcVersion, tcSetter, tcChanges, tcCall>>

----------------------------------------------------------------------------
(* A call.                                                                 *)

CallMoves(call) ==
    /\ tcCall' = call
    /\ UNCHANGED <<tcState, tcOffered, tcSession, tcVersion, tcSetter, tcChanges, tcClient>>

\* call_tool_inner: get_tool for a read, validate_call for a write.  Bound: calls
\* and the list, which share no state, are not looked at together.
CallTool(tool) ==
    /\ tcCall.at = "idle" /\ tcClient.at = "new" /\ IsExposed(tool, tcState)
    /\ CallMoves([NoToolCall EXCEPT !.at = "called", !.tool = tool])

\* The one read that is validated before a connection is chosen for it.
IsImage(tool) == tool = "viewport_get_thumbnail"

CheckImage ==
    /\ tcCall.at = "called" /\ IsImage(tcCall.tool) /\ IsExposed(tcCall.tool, tcState)
    /\ CallMoves([tcCall EXCEPT !.at = "checked", !.checked = tcState.gen])

\* The catalogue's generation, then the session's: pin waits for publish_session.
Catch ==
    /\ tcCall.at = IF IsImage(tcCall.tool) THEN "checked" ELSE "called"
    /\ tcState.gen # 0
    /\ CallMoves([tcCall EXCEPT !.at = "caught", !.gen = tcState.gen])
Pin ==
    /\ tcCall.at = "caught" /\ tcSetter["bridge"].at = "idle"
    /\ CallMoves([tcCall EXCEPT !.at = IF tcSession = tcCall.gen THEN "pinned" ELSE "refused",
                                !.lease = tcSession])

\* has_capabilities: of this connection, not of the one there is by now.
HasCapabilities(gen, needed) == tcState.gen = gen /\ needed \subseteq tcState.caps

\* validate_call looks at the catalogue as it is by now, whatever was pinned.
AdmitRead ==
    /\ tcCall.at = "pinned" /\ ~IsWrite(tcCall.tool) /\ ~IsImage(tcCall.tool)
    /\ IsExposed(tcCall.tool, tcState)
    /\ CallMoves([tcCall EXCEPT !.at = "admitted", !.checked = tcState.gen, !.sent = ReadMethods(tcCall.tool)])

\* get_raw pins again by itself.
AdmitImage ==
    /\ tcCall.at = "pinned" /\ IsImage(tcCall.tool)
    /\ tcSetter["bridge"].at = "idle" /\ tcSession # 0
    /\ CallMoves([tcCall EXCEPT !.at = "admitted", !.lease = tcSession, !.sent = ReadMethods(tcCall.tool)])

\* The first check of resolve_authorization_review, of the pinned connection.
AdmitWrite(head) ==
    /\ tcCall.at = "pinned" /\ IsWrite(tcCall.tool)
    /\ HasCapabilities(tcCall.gen, RequiredCapabilities(tcCall.tool, head))
    /\ CallMoves([tcCall EXCEPT !.at = "admitted", !.checked = tcState.gen, !.sent = WriteMethods(tcCall.tool, head)])

\* send_with_lease asks nothing: the handle of a connection works until it is
\* torn down, which may be after the next connection is there.
SendRequests ==
    /\ tcCall.at = "admitted"
    /\ CallMoves([tcCall EXCEPT !.at = "sent"])

\* A read's answer is passed on if the connection is still the current one; an
\* image's if that it was fetched from is, too.
PassAnswer ==
    /\ tcCall.at = "sent" /\ ~IsWrite(tcCall.tool) /\ tcSetter["bridge"].at = "idle"
    /\ CallMoves([tcCall EXCEPT !.at = IF tcSession = tcCall.gen /\ tcSession = tcCall.lease
                                      THEN "answered" ELSE "refused"])

\* The call returns: with its answer, or with an error on the way.
CallEnds ==
    /\ tcCall.at \in {"called", "checked", "pinned", "sent", "answered", "refused"}
    /\ CallMoves(NoToolCall)

TcNext ==
    \/ \E offer \in TcOffers : PublishConnection(offer)
    \/ PublishNone \/ SetWriteHandlersReady
    \/ \E writes \in BOOLEAN : SetWritePermission(writes)
    \/ \E setter \in Setters : NotifyChanged(setter) \/ SetterEnds(setter)
    \/ Listen \/ Notify \/ AskForList \/ StreamEnds
    \/ \E tool \in TcTools : CallTool(tool)
    \/ \E head \in {"scene", "property"} : AdmitWrite(head)
    \/ CheckImage \/ Catch \/ Pin \/ AdmitRead \/ AdmitImage
    \/ SendRequests \/ PassAnswer \/ CallEnds

TcSpec == TcInit /\ [][TcNext]_tcVars

----------------------------------------------------------------------------
(* What clients and engines can rely on.                                   *)

\* Once no change is being announced and the client has acted on what it was
\* told, its list is the current one, however changes of the connection, of the
\* permission and of the edit service interleave with its requests.
ListCatchesUp ==
    /\ tcClient.listed /\ ~tcClient.told /\ tcClient.seen = tcVersion
    /\ \A s \in Setters : tcSetter[s].at # "notify"
    => tcClient.tools = ListTools(tcState)

\* The engine that the call is sent to advertised what it is asked for.
Advertised(call) == \A m \in call.sent : CapabilityOf(m) \subseteq tcOffered[call.lease]

\* A write sends an engine only methods that engine advertised, also when the
\* connection changes between its checks or an undo meets a history it did not
\* list.  A read that was validated under another connection may be sent to the one
\* before, which is being torn down; but what a read passes on to the client is
\* from an engine that advertised it, except for an image that was validated
\* before its connection was there.
AnswersAreAdvertised ==
    /\ tcCall.at = "sent" /\ IsWrite(tcCall.tool) => Advertised(tcCall)
    /\ tcCall.at = "answered" =>
          Advertised(tcCall) \/ (IsImage(tcCall.tool) /\ tcCall.checked < tcCall.lease)

\* The catalogue is right for the client, which ends up with the current list,
\* and for the engine, which is asked to change nothing it does not offer and
\* whose answers are passed on only to what it offers.
CatalogIsCurrent == ListCatchesUp /\ AnswersAreAdvertised
============================================================================
