----------------------------- MODULE MCBackend -----------------------------
(* The parts of the backend that one lock or one task serializes, for TLC.  *)
(* They share no state, so every behaviour is one of a single part, chosen  *)
(* at the start, while the others rest in one of their initial states.      *)
EXTENDS LogBuffer, ReadSnapshots, Operations, SseWire, Reconnect,
        ScreenCommands, ToolCatalog, McpScope

VARIABLE part

Parts == {"logs", "reads", "operations", "wire", "reconnect", "screen", "catalogue", "scope"}

-----------------------------------------------------------------------------
\* Item sizes: several pages, an item above the response limit, one page.
MCAnswers == {<<1, 2, 1>>, <<1, 3>>, <<1>>}

\* No budget, an initial backoff above the cap, zero backoffs, a long climb.
MCConfigs == [initial_backoff : {0, 1, 9}, max_backoff : {0, 5, 13},
              max_elapsed : {0, 14}, jitter : BOOLEAN]

\* Two responses in a row; the second has up to two frames.
FrameKinds == {"comment", "retry", "event"}
FrameLists == {<<>>} \cup {<<a>> : a \in FrameKinds} \cup {<<a, b>> : a, b \in FrameKinds}
Streams == [kind : {"sse"}, stream : BOOLEAN, frames : FrameLists]
Others == [kind : {"bodyless", "empty", "sized", "interim"}, stream : {FALSE}, frames : {<<>>}]
Short == {r \in Streams : Len(r.frames) <= 1}
MCScripts == {<<>>} \cup {<<a, b>> : a \in Others \cup Short, b \in Streams \cup Others}

\* An engine with everything, with nothing, and some without a part, so that each
\* capability is missing from one that has most others.
MCOffers == {Capabilities, {}} \cup
    {Capabilities \ lacks : lacks \in {{"assetRead", "objectQuery", "runtimeControl"}, {"thumbnail", "sceneQuery"},
                                      {"sceneEdit", "objectEdit"}, {"componentEdit"}}}

\* One tool of each kind: needs, methods and the way it is let through.
MCTools == {"engine_get_status", "scene_get_tree", "object_get_snapshot", "asset_get_manifest",
            "viewport_get_thumbnail", "object_set_property", "scene_create_object", "component_remove",
            "runtime_play", "edit_undo", "edit_begin_group"}

MCOwners == {NoObject, 2}
MCScopes == {NoObject, 1}

-----------------------------------------------------------------------------
\* A part that rests has one initial state.
Rests(p, condition) == part # p => condition

Init ==
    /\ part \in Parts
    /\ LogInit /\ RsInit /\ TcInit
    /\ OpInit /\ Rests("operations", ~opError)
    /\ SwInit /\ Rests("wire", swRest = <<>>)
    /\ BoInit /\ Rests("reconnect", boCfg = CHOOSE c \in BoConfigs : TRUE)
    /\ ScrInit /\ Rests("screen", scrEngine.value = "null" /\ scrEngine.parent = "null")
    /\ ScInit /\ Rests("scope", /\ scParent = CHOOSE s \in Scenes : TRUE
                                /\ scOwner = NoObject /\ scScope = NoObject)

Next ==
    /\ \/ part = "logs" /\ LogNext
          /\ UNCHANGED <<rsVars, opVars, swVars, boVars, scrVars, tcVars, scVars>>
       \/ part = "reads" /\ RsNext
          /\ UNCHANGED <<logVars, opVars, swVars, boVars, scrVars, tcVars, scVars>>
       \/ part = "operations" /\ OpNext
          /\ UNCHANGED <<logVars, rsVars, swVars, boVars, scrVars, tcVars, scVars>>
       \/ part = "wire" /\ SwNext
          /\ UNCHANGED <<logVars, rsVars, opVars, boVars, scrVars, tcVars, scVars>>
       \/ part = "reconnect" /\ BoNext
          /\ UNCHANGED <<logVars, rsVars, opVars, swVars, scrVars, tcVars, scVars>>
       \/ part = "screen" /\ ScrNext
          /\ UNCHANGED <<logVars, rsVars, opVars, swVars, boVars, tcVars, scVars>>
       \/ part = "catalogue" /\ TcNext
          /\ UNCHANGED <<logVars, rsVars, opVars, swVars, boVars, scrVars, scVars>>
       \/ part = "scope" /\ ScNext
          /\ UNCHANGED <<logVars, rsVars, opVars, swVars, boVars, scrVars, tcVars>>
    /\ UNCHANGED part

Spec == Init /\ [][Next]_<<logVars, rsVars, opVars, swVars, boVars, scrVars, tcVars, scVars, part>>
=============================================================================
