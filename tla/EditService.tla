---------------------------- MODULE EditService ----------------------------
(***************************************************************************)
(* The edit actor (edit_service.rs): it takes the queued edits, undos,     *)
(* redos, retries and group controls of the screen and of MCP one at a     *)
(* time, sends each to the engine, and records what came of it in the      *)
(* history.  While a request is in flight the connection can change, MCP's *)
(* authorization can be revoked, and the answer can get lost.              *)
(*                                                                         *)
(* The engine is external.  It applies or refuses a request on its own and *)
(* the actor learns of it later or never.  It clamps a property to its     *)
(* range (appliedValue).  It is assumed to change only on request.         *)
(***************************************************************************)
EXTENDS EditHistory

CONSTANTS
    Existing,      \* objects in the engine's scene when a connection starts
    MaxValue,      \* the engine's upper limit of a property
    UiSlots,       \* slots the screen edits
    UiDirections,  \* history directions the screen asks for
    MaxSequence,   \* bound on edits and groups
    MaxRevision,   \* bound on history_revision
    MaxGeneration  \* bound on connections

ASSUME EditAssumption ==
    /\ Existing \subseteq Objects
    /\ Attributes \subseteq {"property", "parent"} /\ Attributes # {}
    /\ Values \subseteq Nat /\ Root \in Values /\ MaxValue \in Values
    /\ Oversized \subseteq Values
    /\ UiSlots \subseteq Slots /\ UiDirections \subseteq Directions
    /\ MaxCorrections \in Nat \ {0}
    /\ MaxGroupEdits \in Nat \ {0}
    /\ MaxSequence \in Nat /\ MaxRevision \in Nat /\ MaxGeneration \in Nat \ {0}
    /\ None \notin Nat

-----------------------------------------------------------------------------
(* Types.  An object may be missing where an answer may have left it out.  *)

\* Entries of the stacks.
AnyObject == Objects \cup {None}
AnyRecord ==
    [slot : AnyObject \X Attributes, old : Values, new : Values]
        \cup [slot : AnyObject \X {"object"}, old : {"gone"}, new : {"alive"}]
AnyEntry ==
    [id : 1..MaxSequence, gen : 1..MaxGeneration, rec : AnyRecord, named : BOOLEAN,
     key : 1..MaxSequence, count : Nat]
ShownEntry == [id : 1..MaxSequence, rec : AnyRecord]

\* What a capture, an edit and a correction carry for a value.
AnyValue == Values \cup {None}

\* Answers, plans and the actor's items.
Replies == [st : {"accepted", "refused", "error", "unsupported"}, id : AnyObject, val : AnyValue]
Plans ==
    [dir : Directions, key : 1..MaxSequence, named : BOOLEAN, count : Nat, steps : Seq(AnyEntry)]
EditRuns ==
    [kind : {"edit"}, src : {"ui", "mcp"}, gen : 1..MaxGeneration, seq : 1..MaxSequence,
     op : {"set", "create", "delete", "other"}, slot : (AnyObject \X (Attributes \cup {"object"})) \cup {None},
     val : AnyValue, old : AnyValue, token : 1..MaxSequence \cup {None},
     reply : Replies \cup {None}]
HistoryRuns ==
    [kind : {"history"}, src : {"ui", "mcp"}, gen : 1..MaxGeneration, plan : Plans, grouped : BOOLEAN,
     left : Seq(AnyEntry), step : AnyEntry \cup {None}, retry : BOOLEAN, completed : Nat,
     revoked : BOOLEAN, reply : Replies \cup {None}, shown : Seq(ShownEntry)]

\* An absent option is none of the things it may hold.
ASSUME NoneAssumption ==
    /\ None \notin [rev : Nat, val : AnyValue]
    /\ None \notin AnyEntry
    /\ None \notin [token : 1..MaxSequence, entries : Seq(AnyEntry)]
    /\ None \notin [dir : Directions, key : 1..MaxSequence, count : Nat, completed : Nat,
                   unknown : BOOLEAN, retry : BOOLEAN]
    /\ None \notin Replies
    /\ None \notin EditRuns
    /\ None \notin HistoryRuns

VARIABLES
    session,   \* generation of the connection, None when there is none
    lastGen,   \* the last generation handed out
    engine,    \* the value of every slot in the engine of this connection
    history,   \* the HistoryState
    run,       \* the item the actor is working on
    seq,       \* the next sequence number
    capture,   \* an old value the screen has captured, with its revision
    cursor,    \* a history cursor the screen has captured, and what it showed
    gaps,      \* slots changed without a history entry (auxiliary)
    unsure,    \* slots an unanswered request may have changed, until a deletion makes
               \* every earlier capture obsolete (auxiliary)
    orphans    \* objects the history no longer follows (auxiliary)

ui == <<capture, cursor>>
aux == <<gaps, unsure, orphans>>
vars == <<session, lastGen, engine, history, run, seq, ui, aux>>

AllSlots == Objects \X (Attributes \cup {"object"})

NewScene == [s \in AllSlots |->
               IF s[2] # "object" THEN Root
               ELSE IF s[1] \in Existing THEN "alive" ELSE "unborn"]

Alive(o) == engine[<<o, "object">>] = "alive"

Init ==
    /\ session = 1 /\ lastGen = 1
    /\ engine = NewScene
    /\ history = EmptyHistory(1, 0)
    /\ run = None
    /\ seq = 1
    /\ capture = None /\ cursor = None
    /\ gaps = {} /\ unsure = {} /\ orphans = {}

\* The actor is free to take an item of the current connection.
Free == run = None /\ session # None /\ history.rev < MaxRevision

Current == Synchronize(history, session)

-----------------------------------------------------------------------------
(* Connections and the screen.                                              *)

Disconnect ==
    /\ session # None
    /\ session' = None
    /\ UNCHANGED <<lastGen, engine, history, run, seq, ui, aux>>

Connect ==
    /\ session = None /\ lastGen < MaxGeneration
    /\ session' = lastGen + 1 /\ lastGen' = lastGen + 1
    /\ engine' = NewScene
    /\ gaps' = {} /\ unsure' = {} /\ orphans' = {}
    /\ UNCHANGED <<history, run, seq, ui>>

\* sessions.changed() in run_actor and in process_item_inner: an item of another
\* generation is given up.
SessionChanged ==
    /\ history.gen # session
    /\ history' = Current
    /\ run' = IF run # None /\ run.gen # session THEN None ELSE run
    /\ UNCHANGED <<session, lastGen, engine, seq, ui, aux>>

\* The screen reads a value from the engine and stamps it with the last applied revision
\* it has heard of, which may lag behind.
CaptureValue(slot) ==
    /\ session # None /\ history.gen = session
    /\ Alive(slot[1])
    /\ \E rev \in 0..history.applied :
         capture' = [gen |-> session, rev |-> rev, slot |-> slot, val |-> engine[slot]]
    /\ UNCHANGED <<session, lastGen, engine, history, run, seq, cursor, aux>>

Shown(entries) == [i \in 1..Len(entries) |-> [id |-> entries[i].id, rec |-> entries[i].rec]]

\* The screen receives a history summary.
CaptureCursor(dir) ==
    LET stack == VisibleStack(history, dir)
    IN  /\ stack # <<>>
        /\ cursor' = [dir |-> dir, at |-> HistoryCursor(history, dir),
                      shown |-> Shown(TopRun(stack, Top(stack).key))]
        /\ UNCHANGED <<session, lastGen, engine, history, run, seq, capture, aux>>

-----------------------------------------------------------------------------
(* Edits.                                                                   *)

StartEdit(src, op, slot, val, old, token) ==
    run' = [kind |-> "edit", src |-> src, gen |-> session, seq |-> seq, op |-> op,
            slot |-> slot, val |-> val, old |-> old, token |-> token, reply |-> None]

\* What every edit goes through before it is prepared: a pending group refuses it, and it
\* closes the active group unless it belongs to it.
Prepared(token) == CloseGroupUnless(Current, token)

EditRefused ==
    /\ Free
    /\ \E token \in {None} \cup 1..seq :
         \/ Current.pending # None /\ history' = Current
         \/ /\ Current.pending = None
            /\ token # None /\ ~HasGroup(Prepared(token), token)
            /\ history' = Prepared(token)
    /\ UNCHANGED <<session, lastGen, engine, run, seq, ui, aux>>

Accepted(token) ==
    /\ Free /\ seq <= MaxSequence
    /\ Current.pending = None
    /\ token # None => HasGroup(Prepared(token), token)
    /\ history' = Prepared(token)
    /\ seq' = seq + 1
    /\ UNCHANGED <<session, lastGen, engine, ui, aux>>

\* object.setProperty or scene.reparentObject from the screen, with the old value it
\* captured or, when it has none, with none.
SetFromUi(slot, val) ==
    \E known \in {capture, [gen |-> session, rev |-> Current.applied, slot |-> slot, val |-> None]} :
      /\ known # None /\ known.slot = slot
      /\ LET old == ResolveCapture(Prepared(None), known, session)
         IN  \/ /\ old = Refresh
                /\ Free /\ Current.pending = None
                /\ history' = Prepared(None)
                /\ UNCHANGED <<session, lastGen, engine, run, seq, ui, aux>>
             \/ /\ old # Refresh
                /\ Accepted(None)
                /\ StartEdit("ui", "set", slot, val, old, None)

\* Mutant of SetFromMcp: the old value is not read again when the item's turn comes.
SetFromMcpStale(slot, val, token) ==
    /\ Alive(slot[1])
    /\ Accepted(token)
    /\ StartEdit("mcp", "set", slot, val, Root, token)

\* The same from MCP: the old value is read from the engine in the queue.
SetFromMcp(slot, val, token) ==
    /\ Alive(slot[1])
    /\ Accepted(token)
    /\ StartEdit("mcp", "set", slot, val, engine[slot], token)

\* scene.createObject and scene.duplicateObject.
Create(src, token) ==
    /\ src = "ui" => token = None
    /\ Accepted(token)
    /\ StartEdit(src, "create", <<None, "object">>, None, None, token)

\* scene.deleteObject, and component.add and component.remove; MCP's group boundary never
\* keeps a group open for them.
Delete(src, o) ==
    /\ Alive(o)
    /\ Accepted(None)
    /\ StartEdit(src, "delete", <<o, "object">>, None, None, None)

OtherEdit(src) ==
    /\ Accepted(None)
    /\ StartEdit(src, "other", None, None, None, None)

-----------------------------------------------------------------------------
(* The engine.                                                              *)

Request(r) ==
    IF r.kind = "edit" THEN [op |-> r.op, slot |-> r.slot, val |-> r.val]
    ELSE LET rec == r.step.rec
         IN  IF IsCreate(rec)
               THEN [op |-> IF r.plan.dir = "undo" THEN "delete" ELSE "create",
                     slot |-> rec.slot, val |-> None]
               ELSE [op |-> "set", slot |-> rec.slot,
                     val |-> IF r.plan.dir = "undo" THEN rec.old ELSE rec.new]

InFlight == run # None /\ (run.kind = "history" => run.step # None)

Clamp(slot, val) == IF slot[2] = "property" /\ val > MaxValue THEN MaxValue ELSE val

\* run_history_action and send_tracked_mcp reach the engine, which applies the request...
EngineAccepts ==
    /\ InFlight /\ run.reply = None /\ session = run.gen
    /\ LET rq == Request(run)
       IN  \/ /\ rq.op = "set" /\ Alive(rq.slot[1])
              /\ engine' = [engine EXCEPT ![rq.slot] = Clamp(rq.slot, rq.val)]
              /\ run' = [run EXCEPT !.reply = [st |-> "accepted", id |-> None,
                                               val |-> Clamp(rq.slot, rq.val)]]
           \/ /\ rq.op = "delete" /\ Alive(rq.slot[1])
              /\ engine' = [engine EXCEPT ![<<rq.slot[1], "object">>] = "gone"]
              /\ run' = [run EXCEPT !.reply = [st |-> "accepted", id |-> None, val |-> None]]
           \/ /\ rq.op = "create"
              /\ \E o \in Objects, named \in BOOLEAN :
                   /\ engine[<<o, "object">>] = "unborn"
                   /\ engine' = [engine EXCEPT ![<<o, "object">>] = "alive"]
                   /\ run' = [run EXCEPT !.reply = [st |-> "accepted", val |-> None,
                                                    id |-> IF named THEN o ELSE None]]
           \/ /\ rq.op = "other"
              /\ engine' = engine
              /\ run' = [run EXCEPT !.reply = [st |-> "accepted", id |-> None, val |-> None]]
    /\ UNCHANGED <<session, lastGen, history, seq, ui, aux>>

\* ... or does not: accepted:false, an error, or METHOD_NOT_SUPPORTED.
EngineRefuses ==
    /\ InFlight /\ run.reply = None /\ session = run.gen
    /\ \E st \in {"refused", "error", "unsupported"} :
         run' = [run EXCEPT !.reply = [st |-> st, id |-> None, val |-> None]]
    /\ UNCHANGED <<session, lastGen, engine, history, seq, ui, aux>>

-----------------------------------------------------------------------------
(* The end of an edit.                                                      *)

CloseIfGrouped(h) == IF run.token # None THEN CloseActiveGroup(h) ELSE h

StructureEdit == run.op \in {"create", "delete"} \/ (run.op = "set" /\ run.slot[2] = "parent")

\* An answer that arrives after the connection changed is not recorded.
EditAnswered ==
    /\ InFlight /\ run.kind = "edit" /\ run.reply # None
    /\ history' = IF session # run.gen THEN Current
                  ELSE IF run.reply.st = "accepted" THEN RecordSuccess(Current, run, run.reply)
                  ELSE IF run.reply.st = "unsupported" /\ StructureEdit
                    THEN MarkEditUnsupported(CloseIfGrouped(Current))
                  ELSE CloseIfGrouped(Current)
    /\ gaps' = IF session # run.gen \/ run.reply.st # "accepted" THEN gaps
               ELSE IF run.op = "set" /\ run.old = None THEN gaps \cup {run.slot}
               ELSE IF run.op = "delete" THEN {}
               ELSE gaps
    /\ unsure' = IF session = run.gen /\ run.reply.st = "accepted" /\ run.op = "delete" THEN {}
                 ELSE unsure
    /\ run' = None
    /\ UNCHANGED <<session, lastGen, engine, seq, ui, orphans>>

\* The request times out or the transport fails; the engine may or may not have applied it.
\* Only an MCP edit is remembered as unknown.
EditUnanswered ==
    /\ InFlight /\ run.kind = "edit"
    /\ history' = IF session # run.gen THEN Current
                  ELSE IF run.src = "mcp" THEN MarkMcpOutcomeUnknown(CloseIfGrouped(Current), run.seq)
                  ELSE CloseIfGrouped(Current)
    /\ gaps' = IF run.op \in {"set", "delete"} THEN gaps \cup {run.slot} ELSE gaps
    /\ unsure' = IF run.op = "set" THEN unsure \cup {run.slot} ELSE unsure
    /\ orphans' = IF run.op = "delete" THEN orphans \cup {run.slot[1]} ELSE orphans
    /\ run' = None
    /\ UNCHANGED <<session, lastGen, engine, seq, ui>>

-----------------------------------------------------------------------------
(* Undo and redo.                                                           *)

\* A single entry undone from the screen is sent at once; anything else step by step.
Work(src, plan, completed, retry, shown) ==
    LET grouped == plan.named \/ retry \/ src = "mcp"
    IN  [kind |-> "history", src |-> src, gen |-> session, plan |-> plan, grouped |-> grouped,
         left |-> IF grouped THEN plan.steps ELSE <<>>,
         step |-> IF grouped THEN None ELSE plan.steps[1],
         retry |-> retry, completed |-> completed, revoked |-> FALSE, reply |-> None,
         shown |-> shown]

\* A history item: the active group is closed first, and a cursor that was current is
\* carried over the closing.
StartHistory(src, dir, at, shown) ==
    LET closed == CloseActiveGroup(Current)
        now == IF at = HistoryCursor(Current, dir) THEN HistoryCursor(closed, dir) ELSE at
        plan == PrepareAction(closed, dir, now)
    IN  /\ Free
        /\ IF Current.pending # None
             THEN history' = Current /\ run' = run
             ELSE /\ history' = closed
                  /\ run' = IF plan = None THEN run ELSE Work(src, plan, 0, FALSE, shown)
        /\ UNCHANGED <<session, lastGen, engine, seq, ui, aux>>

HistoryFromUi ==
    /\ cursor # None
    /\ StartHistory("ui", cursor.dir, cursor.at, cursor.shown)

\* MCP's cursor is checked again in the queue (current_history), so it is the present one.
HistoryFromMcp(dir) ==
    LET stack == VisibleStack(Current, dir)
    IN  /\ stack # <<>> /\ Current.pending = None
        /\ StartHistory("mcp", dir, HistoryCursor(Current, dir),
                        Shown(TopRun(stack, Top(stack).key)))

StartRetry ==
    LET plan == PrepareRetry(Current)
    IN  /\ Free
        /\ plan # None
        /\ history' = Current
        /\ run' = Work("ui", plan, Current.pending.completed, TRUE, Shown(plan.steps))
        /\ UNCHANGED <<session, lastGen, engine, seq, ui, aux>>

\* The end of the item: process_item_inner synchronizes with the connection once more.
Finished(h) == history' = Synchronize(h, session) /\ run' = None

\* The next step of a grouped undo or redo is looked up again and sent.  A revoked MCP request
\* stops here; what it has done so far stays as a pending group.
SendStep ==
    /\ run # None /\ run.kind = "history" /\ run.step = None /\ run.left # <<>>
    /\ LET id == Head(run.left).id
           stack == Stack(history, run.plan.dir)
           found == {i \in 1..Len(stack) : stack[i].id = id /\ stack[i].key = run.plan.key}
       IN  IF run.revoked
             THEN Finished(IF run.completed = 0 THEN history
                           ELSE StartPendingGroup(history, run.plan, run.completed, FALSE, FALSE))
           ELSE IF session # run.gen \/ found = {}
             THEN Finished(history)
             ELSE /\ run' = [run EXCEPT !.step = stack[CHOOSE i \in found : TRUE],
                                        !.left = Tail(@)]
                  /\ UNCHANGED history
    /\ UNCHANGED <<session, lastGen, engine, seq, ui, aux>>

\* Objects of other groups' entries that a re-created object leaves behind.
LeftBehind(rec) ==
    IF IsCreate(rec) /\ run.plan.dir = "redo"
       /\ \E e \in {history.undo[i] : i \in 1..Len(history.undo)}
                   \cup {history.redo[i] : i \in 1..Len(history.redo)} :
             e.key # run.plan.key /\ e.rec.slot[1] = rec.slot[1]
      THEN {rec.slot[1]} ELSE {}

\* An accepted undo or redo of a single entry from the screen.
SingleApplied ==
    /\ InFlight /\ run.kind = "history" /\ ~run.grouped /\ run.reply # None
    /\ run.reply.st = "accepted"
    /\ Finished(IF session # run.gen THEN Current
                ELSE FinishActionSuccess(Current, run.plan, run.reply))
    /\ orphans' = orphans \cup LeftBehind(run.step.rec)
                   \cup IF Malformed(run.step.rec, run.plan.dir, run.reply)
                          THEN {run.step.rec.slot[1]} ELSE {}
    /\ UNCHANGED <<session, lastGen, engine, seq, ui, gaps, unsure>>

\* A single undo or redo that fails is thrown away: refused, or unanswered.
SingleFails ==
    /\ InFlight /\ run.kind = "history" /\ ~run.grouped
    /\ \E answered \in BOOLEAN :
         /\ answered => run.reply # None /\ run.reply.st # "accepted"
         /\ Finished(IF session # run.gen THEN Current ELSE DiscardAction(Current, run.plan))
         /\ gaps' = gaps \cup {run.step.rec.slot}
         /\ unsure' = IF answered THEN unsure ELSE unsure \cup {run.step.rec.slot}
         /\ orphans' = IF IsCreate(run.step.rec) THEN orphans \cup {run.step.rec.slot[1]}
                       ELSE orphans
    /\ UNCHANGED <<session, lastGen, engine, seq, ui>>

\* One accepted step of a grouped undo or redo.
StepApplied ==
    /\ InFlight /\ run.kind = "history" /\ run.grouped /\ run.reply # None
    /\ run.reply.st = "accepted"
    /\ IF session # run.gen THEN Finished(Current)
       ELSE IF \/ ~OnTop(Current, run.plan.dir, run.step.id, run.plan.key)
               \/ Malformed(run.step.rec, run.plan.dir, run.reply)
         THEN Finished(StartPendingGroup(Current, run.plan, run.completed, TRUE, FALSE))
         ELSE /\ history' = FinishGroupStep(Current, run.plan, run.reply)
              /\ run' = [run EXCEPT !.completed = @ + 1, !.step = None, !.reply = None]
    /\ orphans' = orphans \cup LeftBehind(run.step.rec)
    /\ UNCHANGED <<session, lastGen, engine, seq, ui, gaps, unsure>>

\* A failing step leaves the group pending: it may be retried when the engine said no, and
\* must not be when nothing is known.
StepFails ==
    /\ InFlight /\ run.kind = "history" /\ run.grouped
    /\ \E answered \in BOOLEAN :
         /\ answered => run.reply # None /\ run.reply.st # "accepted"
         /\ Finished(IF session # run.gen THEN Current
                     ELSE StartPendingGroup(Current, run.plan, run.completed,
                                            ~answered, answered))
         /\ gaps' = IF answered THEN gaps ELSE gaps \cup {run.step.rec.slot}
         /\ unsure' = IF answered THEN unsure ELSE unsure \cup {run.step.rec.slot}
         /\ orphans' = IF answered \/ ~IsCreate(run.step.rec) THEN orphans
                       ELSE orphans \cup {run.step.rec.slot[1]}
    /\ UNCHANGED <<session, lastGen, engine, seq, ui>>

\* All steps done.
GroupDone ==
    /\ run # None /\ run.kind = "history" /\ run.step = None /\ run.left = <<>>
    /\ Finished(IF run.retry THEN ClearCompletedPendingGroup(history, run.plan.key) ELSE history)
    /\ UNCHANGED <<session, lastGen, engine, seq, ui, aux>>

-----------------------------------------------------------------------------
(* Controls.                                                                *)

Begin ==
    /\ Free /\ seq <= MaxSequence
    /\ history' = IF Current.pending # None THEN Current ELSE BeginGroup(Current, seq)
    /\ seq' = IF Current.pending # None THEN seq ELSE seq + 1
    /\ UNCHANGED <<session, lastGen, engine, run, ui, aux>>

\* end_named_group, a boundary, CloseFailed, or the group's deadline.
CloseGroup ==
    /\ run = None /\ history.group # None
    /\ history' = CloseActiveGroup(history)
    /\ UNCHANGED <<session, lastGen, engine, run, seq, ui, aux>>

Discard ==
    LET stacks == {Current.undo[i] : i \in 1..Len(Current.undo)}
                    \cup {Current.redo[i] : i \in 1..Len(Current.redo)}
        gone == {e \in stacks : e.key = Current.pending.key}
    IN  /\ Free /\ Current.pending # None
        /\ history' = DiscardPendingGroup(Current)
        /\ gaps' = gaps \cup {e.rec.slot : e \in gone}
        /\ orphans' = orphans \cup {e.rec.slot[1] : e \in {f \in gone : IsCreate(f.rec)}}
        /\ UNCHANGED <<session, lastGen, engine, run, seq, ui, unsure>>

\* McpAuthorization::revoke and the actor's answer to it.
AuthRevoked ==
    /\ history.group # None \/ (run # None /\ run.src = "mcp")
    /\ history' = CloseActiveGroup(history)
    /\ run' = IF run # None /\ run.kind = "history" /\ run.src = "mcp"
                THEN [run EXCEPT !.revoked = TRUE] ELSE run
    /\ UNCHANGED <<session, lastGen, engine, seq, ui, aux>>

Next ==
    \/ Disconnect \/ Connect \/ SessionChanged
    \/ \E slot \in UiSlots : CaptureValue(slot)
    \/ \E dir \in UiDirections : CaptureCursor(dir)
    \/ EditRefused
    \/ \E slot \in UiSlots, val \in Values : SetFromUi(slot, val)
    \/ \E slot \in Slots, val \in Values, token \in {None} \cup 1..MaxSequence :
         SetFromMcp(slot, val, token)
    \/ \E src \in {"ui", "mcp"}, token \in {None} \cup 1..MaxSequence : Create(src, token)
    \/ \E src \in {"ui", "mcp"}, o \in Objects : Delete(src, o)
    \/ \E src \in {"ui", "mcp"} : OtherEdit(src)
    \/ EngineAccepts \/ EngineRefuses
    \/ EditAnswered \/ EditUnanswered
    \/ HistoryFromUi
    \/ \E dir \in Directions : HistoryFromMcp(dir)
    \/ StartRetry \/ SendStep
    \/ SingleApplied \/ SingleFails \/ StepApplied \/ StepFails \/ GroupDone
    \/ Begin \/ CloseGroup \/ Discard \/ AuthRevoked

Spec == Init /\ [][Next]_vars

-----------------------------------------------------------------------------
(* Properties.                                                              *)

Record == [slot : Slots, old : Values, new : Values]
            \cup [slot : Objects \X {"object"}, old : {"gone"}, new : {"alive"}]
Entry == [id : 1..MaxSequence, gen : 1..MaxGeneration, key : 1..MaxSequence,
          named : BOOLEAN, count : 1..MaxGroupEdits, rec : Record]
Entries(s) == \A i \in 1..Len(s) : s[i] \in Entry

\* The history, the engine and the screen's captures keep their types; the cache and a group
\* stay within their limits, and the active group is never as full as its limit.
TypeOK ==
    /\ session \in 1..MaxGeneration \cup {None}
    /\ DOMAIN engine = AllSlots
    /\ \A s \in Slots : engine[s] \in Values
    /\ \A o \in Objects : engine[<<o, "object">>] \in {"unborn", "alive", "gone"}
    /\ history.gen \in 1..MaxGeneration \cup {None}
    /\ history.rev \in Nat /\ history.applied \in Nat /\ history.lost \in 0..history.applied
    /\ Entries(history.undo) /\ Entries(history.redo)
    /\ \A s \in Cached(history) : history.corr[s] \in [rev : 1..history.applied, val : Values]
    /\ Cardinality(Cached(history)) <= MaxCorrections
    /\ history.group # None =>
         /\ Entries(history.group.entries) /\ Len(history.group.entries) < MaxGroupEdits
    /\ history.pending # None => history.pending.completed \in 0..history.pending.count
    /\ seq \in 1..(MaxSequence + 1)
    /\ capture # None => capture.slot \in Slots /\ capture.val \in Values

\* No request is on its way and the history belongs to the connection.
Settled == ~InFlight /\ session # None /\ history.gen = session
Quiet == run = None /\ Settled

\* The old value an edit from the screen is going to record is the value the engine has,
\* however stale the capture, whatever the cache has evicted (resolve_capture), unless the
\* screen is told to refresh.
CaptureIsCurrent ==
    Quiet /\ capture # None /\ capture.slot \notin unsure =>
      ResolveCapture(history, capture, session) \in {Refresh, engine[capture.slot]}

Undoable == history.undo \o (IF history.group = None THEN <<>> ELSE history.group.entries)

\* The history follows the slot: every change of it has an entry, and its object has not
\* come back under another id.
Followed(slot) == slot \notin gaps /\ slot[1] \notin orphans

\* Undoing everything walks the engine back through the values it had: per slot the newest
\* entry's new value is the engine's, and each entry starts where the one before it ended.
UndoChain ==
    Settled => \A i \in 1..Len(Undoable) :
      LET slot == Undoable[i].rec.slot
          later == {j \in (i + 1)..Len(Undoable) : Undoable[j].rec.slot = slot}
      IN  Followed(slot) =>
            Undoable[i].rec.new =
              IF later = {} THEN engine[slot]
              ELSE Undoable[CHOOSE j \in later : \A k \in later : j <= k].rec.old

\* Redoing everything starts from the values the engine has now.
RedoChain ==
    Settled => \A i \in 1..Len(history.redo) :
      LET slot == history.redo[i].rec.slot
          sooner == {j \in (i + 1)..Len(history.redo) : history.redo[j].rec.slot = slot}
      IN  Followed(slot) =>
            history.redo[i].rec.old =
              IF sooner = {} THEN engine[slot]
              ELSE history.redo[CHOOSE j \in sooner : \A k \in sooner : j <= k].rec.new

\* Undo and redo walk the engine through values it really had, in both
\* directions, whoever recorded the entries in between.
HistoryWalks == TypeOK /\ UndoChain /\ RedoChain

\* Every entry acts on an object that exists when its turn comes, although redoing a creation
\* gives the object another id (remap_group_ids) and deletions come in between.
TargetsExist ==
    Settled =>
      /\ \A i \in 1..Len(Undoable) :
           LET o == Undoable[i].rec.slot[1] IN o \in orphans \/ Alive(o)
      /\ \A i \in 1..Len(history.redo) :
           LET o == history.redo[i].rec.slot[1]
           IN  \/ o \in orphans \/ Alive(o)
               \/ \E j \in i..Len(history.redo) : history.redo[j].rec.slot = <<o, "object">>

OfGroup(s, key) == {i \in 1..Len(s) : s[i].key = key}

\* A pending group accounts for every one of its entries: the completed ones have moved to
\* the other stack, the rest lie on top of theirs, ready to be retried in order.
PendingAccounts ==
    Quiet /\ history.pending # None =>
      LET p == history.pending
          here == OfGroup(Stack(history, p.dir), p.key)
      IN  p.retry \/ here # {} =>
            /\ here = (Len(Stack(history, p.dir)) + 1 - Cardinality(here))..Len(Stack(history, p.dir))
            /\ here # {}
            /\ Cardinality(here) + p.completed = p.count
            /\ Cardinality(OfGroup(Stack(history, Opposite(p.dir)), p.key)) = p.completed

\* Without a pending group no group is half undone: its entries lie side by side on one
\* stack, all of them.
GroupWhole ==
    Quiet /\ history.pending = None =>
      \A dir \in Directions : \A i \in 1..Len(Stack(history, dir)) :
        LET e == Stack(history, dir)[i]
            mates == OfGroup(Stack(history, dir), e.key)
        IN  /\ Cardinality(mates) = e.count
            /\ \A j, k \in mates : \A m \in j..k : m \in mates
            /\ OfGroup(Stack(history, Opposite(dir)), e.key) = {}

\* A group is undone and redone as one: whole on one stack, or pending with every
\* entry accounted for, whatever step of it failed (finish_group_step).
GroupsStayWhole == PendingAccounts /\ GroupWhole

\* An undo or redo acts on exactly the entries its requester was shown, although other
\* items ran in between (expected_head_id and expected_revision).
ActsOnWhatWasShown ==
    run # None /\ run.kind = "history" => Shown(run.plan.steps) = run.shown

\* A history holds no entry of another connection: an answer of the old connection is never
\* recorded in the new one's history.
OneGeneration ==
    \A i \in 1..Len(Undoable \o history.redo) :
      (Undoable \o history.redo)[i].gen = history.gen
=============================================================================
