---------------------------- MODULE EditHistory ----------------------------
(***************************************************************************)
(* HistoryState of the edit service (edit_service/history.rs) as a record, *)
(* and its methods as operators from states to states.  The module has no  *)
(* variables: EditService owns the one state, as the actor does.           *)
(*                                                                         *)
(*   gen      the connection generation the history belongs to             *)
(*   rev      history_revision, bumped by every visible change             *)
(*   applied  applied_revision, the number of edits the engine accepted    *)
(*   undo     entries that can be undone, the newest last                  *)
(*   redo     entries that can be redone, the next one last                *)
(*   corr     the correction cache: per slot the last value and revision   *)
(*   lost     lost_through: corrections up to here may have been dropped   *)
(*   unsup    edit_unsupported                                             *)
(*   pending  pending_group, None when `pending` is false (the code sets   *)
(*            and clears the two together)                                 *)
(*   group    active_group with its own entries; only MCP begins groups    *)
(*                                                                         *)
(* A slot <<o, a>> is one thing an edit can change: an attribute of object *)
(* o (a property, or its parent), or with a = "object" its existence.  All *)
(* four record kinds are then one shape: create and duplicate change       *)
(* <<o, "object">> from "gone" to "alive", reparent and set-property       *)
(* change an attribute from old to new.  Names, times and the markers      *)
(* list, which nothing but tests reads back, are left out.                 *)
(***************************************************************************)
EXTENDS Naturals, Sequences, FiniteSets

CONSTANTS
    Objects,         \* object ids the engine can hand out
    Attributes,      \* attributes of an object: "property", "parent"
    Values,          \* values of an attribute, numbers
    Oversized,       \* values whose encoding exceeds MAX_CORRECTION_BYTES
    MaxCorrections,  \* MAX_CORRECTION_ENTRIES
    MaxGroupEdits,   \* groups::MAX_EDITS
    Refresh,         \* the answer "read the object again" (refresh_required)
    None

Slots == Objects \X Attributes
Root == 0            \* the parent and the property value of a new object

Top(s) == s[Len(s)]
Pop(s) == SubSeq(s, 1, Len(s) - 1)
Directions == {"undo", "redo"}
Opposite(dir) == IF dir = "undo" THEN "redo" ELSE "undo"
Larger(m, n) == IF m < n THEN n ELSE m

NoCorrections == [s \in Slots |-> None]

EmptyHistory(gen, rev) ==
    [gen |-> gen, rev |-> rev, applied |-> 0, undo |-> <<>>, redo |-> <<>>,
     corr |-> NoCorrections, lost |-> 0, unsup |-> FALSE, pending |-> None, group |-> None]

Bump(h) == [h EXCEPT !.rev = @ + 1]

\* Mutant of Synchronize: the undo stack survives the connection.
SynchronizeKeepsUndo(h, gen) ==
    IF h.gen = gen THEN h ELSE [EmptyHistory(gen, h.rev + 1) EXCEPT !.undo = h.undo]

\* synchronize: a history never outlives its connection generation.
Synchronize(h, gen) == IF h.gen = gen THEN h ELSE EmptyHistory(gen, h.rev + 1)

-----------------------------------------------------------------------------
(* The correction cache.                                                    *)

\* Mutant of MarkLostThrough: a dropped correction is forgotten.
MarkLostThroughNever(h, rev) == h

MarkLostThrough(h, rev) == [h EXCEPT !.lost = Larger(@, rev)]

Cached(h) == {s \in Slots : h.corr[s] # None}

Oldest(h) == CHOOSE s \in Cached(h) : \A t \in Cached(h) : h.corr[s].rev <= h.corr[t].rev

\* insert drops what the slot had, then the oldest entry when the cache is full.
InsertCorrection(h, slot, val) ==
    LET rest == [h EXCEPT !.corr[slot] = None]
        room == IF Cardinality(Cached(rest)) < MaxCorrections
                  THEN rest
                  ELSE MarkLostThrough([rest EXCEPT !.corr[Oldest(rest)] = None],
                                       rest.corr[Oldest(rest)].rev)
    IN  IF val \in Oversized
          THEN MarkLostThrough(rest, h.applied)
          ELSE [room EXCEPT !.corr[slot] = [rev |-> h.applied, val |-> val]]

RemoveObject(h, o) ==
    IF \E s \in Cached(h) : s[1] = o
      THEN MarkLostThrough(
             [h EXCEPT !.corr = [s \in Slots |-> IF s[1] = o THEN None ELSE @[s]]], h.applied)
      ELSE h

InsertParent(h, o) ==
    IF "parent" \in Attributes THEN InsertCorrection(h, <<o, "parent">>, Root) ELSE h

\* resolve_capture: the old value of an edit the screen asks for.  The screen saw
\* capture.val (None: it had none) at applied revision capture.rev.
ResolveCapture(h, capture, gen) ==
    LET cached == h.corr[capture.slot]
    IN  IF capture.gen # gen \/ h.gen # gen \/ capture.rev > h.applied
          THEN Refresh
        ELSE IF cached # None /\ cached.rev > capture.rev
          THEN cached.val
        ELSE IF capture.val # None /\ capture.rev < h.lost /\ cached = None
          THEN Refresh
        ELSE capture.val

-----------------------------------------------------------------------------
(* Stacks and groups.                                                       *)

Stack(h, dir) == IF dir = "undo" THEN h.undo ELSE h.redo

VisibleStack(h, dir) ==
    IF dir = "undo" /\ h.group # None /\ h.group.entries # <<>>
      THEN h.group.entries
      ELSE Stack(h, dir)

\* history_cursor: what a requester must present to undo or redo.
HistoryCursor(h, dir) ==
    [head |-> IF VisibleStack(h, dir) = <<>> THEN None ELSE Top(VisibleStack(h, dir)).id,
     rev  |-> h.rev]

\* The entries on top of a stack that belong to group key, the top one first.
TopRun(s, key) ==
    LET first == CHOOSE n \in 1..(Len(s) + 1) :
                   /\ \A i \in n..Len(s) : s[i].key = key
                   /\ n = 1 \/ s[n - 1].key # key
    IN  [i \in 1..(Len(s) + 1 - first) |-> s[Len(s) + 1 - i]]

HasGroup(h, token) == h.group # None /\ h.group.token = token

\* Mutant of CloseActiveGroup: the group goes below what was there before it.
CloseActiveGroupBelow(h) ==
    IF h.group = None THEN h
    ELSE LET total == Len(h.group.entries)
             closed == [i \in 1..total |-> [h.group.entries[i] EXCEPT !.count = total]]
         IN  Bump([h EXCEPT !.undo = closed \o @, !.group = None])

CloseActiveGroup(h) ==
    IF h.group = None THEN h
    ELSE LET total == Len(h.group.entries)
             closed == [i \in 1..total |-> [h.group.entries[i] EXCEPT !.count = total]]
         IN  Bump([h EXCEPT !.undo = @ \o closed, !.group = None])

CloseGroupUnless(h, token) == IF HasGroup(h, token) THEN h ELSE CloseActiveGroup(h)

BeginGroup(h, token) ==
    Bump([CloseActiveGroup(h) EXCEPT !.group = [token |-> token, entries |-> <<>>]])

-----------------------------------------------------------------------------
(* Undo and redo.  A plan is what an undo or redo item is going to do.      *)

\* Mutant of PrepareAction: only the head is compared, not the revision.
PrepareActionAnyRevision(h, dir, cursor) ==
    LET stack == VisibleStack(h, dir)
    IN  IF \/ h.unsup \/ h.pending # None \/ stack = <<>>
           \/ cursor.head # HistoryCursor(h, dir).head
          THEN None
          ELSE [dir |-> dir, key |-> Top(stack).key, named |-> Top(stack).named,
                count |-> Top(stack).count, steps |-> TopRun(stack, Top(stack).key)]

\* prepare_action; None when the requester's cursor is out of date.
PrepareAction(h, dir, cursor) ==
    LET stack == VisibleStack(h, dir)
    IN  IF \/ h.unsup \/ h.pending # None \/ stack = <<>>
           \/ cursor # HistoryCursor(h, dir)
          THEN None
          ELSE [dir |-> dir, key |-> Top(stack).key, named |-> Top(stack).named,
                count |-> Top(stack).count, steps |-> TopRun(stack, Top(stack).key)]

\* prepare_retry; None when the pending group must not be sent again.
PrepareRetry(h) ==
    IF h.pending = None \/ ~h.pending.retry \/ h.pending.unknown
       \/ TopRun(Stack(h, h.pending.dir), h.pending.key) = <<>>
      THEN None
      ELSE [dir |-> h.pending.dir, key |-> h.pending.key, named |-> TRUE,
            count |-> h.pending.count,
            steps |-> TopRun(Stack(h, h.pending.dir), h.pending.key)]

SetStack(h, dir, s) == IF dir = "undo" THEN [h EXCEPT !.undo = s] ELSE [h EXCEPT !.redo = s]

OnTop(h, dir, id, key) ==
    /\ Stack(h, dir) # <<>>
    /\ Top(Stack(h, dir)).id = id
    /\ Top(Stack(h, dir)).key = key

\* discard_action and finish_action_failure: a single entry that cannot be
\* undone or redone is thrown away.
DiscardAction(h, plan) ==
    LET id == plan.steps[1].id
    IN  IF OnTop(h, plan.dir, id, plan.key)
          THEN Bump(SetStack(h, plan.dir, Pop(Stack(h, plan.dir))))
          ELSE h

IsCreate(rec) == rec.slot[2] = "object"

\* updated_history_record: redoing a creation gives the object a new id.
UpdatedRecord(rec, dir, reply) ==
    IF IsCreate(rec) /\ dir = "redo" THEN [rec EXCEPT !.slot = <<reply.id, "object">>] ELSE rec

\* A redone creation whose result names no object cannot be recorded.
Malformed(rec, dir, reply) == IsCreate(rec) /\ dir = "redo" /\ reply.id = None

UpdateActionCorrections(h, old, new, dir, reply) ==
    IF ~IsCreate(old)
      THEN InsertCorrection(h, old.slot, reply.val)
    ELSE IF dir = "undo"
      THEN RemoveObject(h, old.slot[1])
      ELSE InsertParent(RemoveObject(h, old.slot[1]), new.slot[1])

\* Mutant of RemapGroupIds: the other records keep the old id.
RemapNothing(s, key, old, new) == s

\* replace_record_ids
ReplaceRecordIds(rec, old, new) ==
    IF rec.slot[1] = old THEN [rec EXCEPT !.slot = <<new, @[2]>>] ELSE rec

\* remap_group_ids: the other records of the group follow the object to its new id.
RemapGroupIds(s, key, old, new) ==
    [i \in 1..Len(s) |->
       IF s[i].key = key THEN [s[i] EXCEPT !.rec = ReplaceRecordIds(@, old, new)] ELSE s[i]]

\* The part finish_action_success and finish_group_step share: the entry moves to the
\* other stack, with its new id, and the corrections follow the engine.
MoveEntry(h, dir, reply) ==
    LET entry == Top(Stack(h, dir))
        rec   == UpdatedRecord(entry.rec, dir, reply)
        h1    == [SetStack(h, dir, Pop(Stack(h, dir))) EXCEPT !.applied = @ + 1]
        h2    == UpdateActionCorrections(h1, entry.rec, rec, dir, reply)
    IN  Bump(SetStack(h2, Opposite(dir),
                      Append(Stack(h2, Opposite(dir)), [entry EXCEPT !.rec = rec])))

FinishActionSuccess(h, plan, reply) ==
    IF Malformed(plan.steps[1].rec, plan.dir, reply) THEN DiscardAction(h, plan)
    ELSE IF OnTop(h, plan.dir, plan.steps[1].id, plan.key) THEN MoveEntry(h, plan.dir, reply)
    ELSE h

HasGroupOnStack(h, dir, key) == \E i \in 1..Len(Stack(h, dir)) : Stack(h, dir)[i].key = key

\* finish_group_step for the step whose entry is on top.
FinishGroupStep(h, plan, reply) ==
    LET rec   == Top(Stack(h, plan.dir)).rec
        moved == MoveEntry(h, plan.dir, reply)
        remap == IF IsCreate(rec) /\ plan.dir = "redo"
                   THEN [moved EXCEPT !.undo = RemapGroupIds(@, plan.key, rec.slot[1], reply.id),
                                      !.redo = RemapGroupIds(@, plan.key, rec.slot[1], reply.id)]
                   ELSE moved
    IN  IF h.pending = None \/ h.pending.key # plan.key THEN remap
        ELSE IF HasGroupOnStack(remap, h.pending.dir, plan.key)
          THEN [remap EXCEPT !.pending.completed = @ + 1]
          ELSE [remap EXCEPT !.pending = None]

\* Mutant of StartPendingGroup: the completed steps are not counted.
StartPendingGroupAtZero(h, plan, completed, unknown, retry) ==
    Bump([h EXCEPT !.pending = [dir |-> plan.dir, key |-> plan.key, count |-> plan.count,
                                completed |-> 0, unknown |-> unknown, retry |-> retry]])

StartPendingGroup(h, plan, completed, unknown, retry) ==
    Bump([h EXCEPT !.pending = [dir |-> plan.dir, key |-> plan.key, count |-> plan.count,
                                completed |-> completed, unknown |-> unknown, retry |-> retry]])

\* mark_mcp_outcome_unknown
MarkMcpOutcomeUnknown(h, key) ==
    Bump([h EXCEPT !.pending = [dir |-> "undo", key |-> key, count |-> 1, completed |-> 0,
                                unknown |-> TRUE, retry |-> FALSE]])

\* clear_completed_pending_group, at the end of a retry.
ClearCompletedPendingGroup(h, key) ==
    IF h.pending # None /\ h.pending.key = key /\ ~HasGroupOnStack(h, h.pending.dir, key)
      THEN Bump([h EXCEPT !.pending = None])
      ELSE h

\* The entries of a stack that are not of group key; a recursive function, which the
\* provers can reason about, where SelectSeq is opaque to them.
Without(s, key) ==
    LET kept[i \in 0..Len(s)] ==
          IF i = 0 THEN <<>>
          ELSE IF s[i].key = key THEN kept[i - 1] ELSE Append(kept[i - 1], s[i])
    IN  kept[Len(s)]

DiscardPendingGroup(h) ==
    Bump([h EXCEPT !.undo = Without(@, h.pending.key), !.redo = Without(@, h.pending.key),
                   !.pending = None])

MarkEditUnsupported(h) == IF h.unsup THEN h ELSE Bump([h EXCEPT !.unsup = TRUE])

-----------------------------------------------------------------------------
(* record_success_in_group and record_untracked_success.                    *)

\* Pushes an entry on the active group (the first one makes redo obsolete, the last one
\* closes it) or, alone, on the undo stack.
PushRecord(h, edit, rec) ==
    LET grouped == HasGroup(h, edit.token)
        entry == [id |-> edit.seq, gen |-> edit.gen, rec |-> rec, named |-> grouped,
                  key |-> IF grouped THEN edit.token ELSE edit.seq,
                  count |-> IF grouped THEN Len(h.group.entries) + 1 ELSE 1]
        into == [h EXCEPT !.group.entries = Append(@, entry),
                          !.redo = IF h.group.entries = <<>> THEN <<>> ELSE @]
    IN  IF ~grouped THEN [h EXCEPT !.undo = Append(@, entry), !.redo = <<>>]
        ELSE IF Len(into.group.entries) >= MaxGroupEdits THEN CloseActiveGroup(into)
        ELSE into

\* edit.op is "set", "create", "delete" or "other" (an edit without a history request:
\* component add and remove); reply.val and reply.id are the engine's result.
RecordSuccess(h, edit, reply) ==
    LET counted == Bump([h EXCEPT !.applied = @ + 1])
        setRec  == [slot |-> edit.slot, old |-> edit.old, new |-> reply.val]
        newRec  == [slot |-> <<reply.id, "object">>, old |-> "gone", new |-> "alive"]
        set     == InsertCorrection(counted, edit.slot, reply.val)
    IN  CASE edit.op = "delete" ->
               [counted EXCEPT !.corr = NoCorrections, !.lost = counted.applied,
                               !.undo = <<>>, !.redo = <<>>]
          [] edit.op = "set" ->
               IF edit.old \in {None, reply.val} THEN set ELSE PushRecord(set, edit, setRec)
          [] edit.op = "create" ->
               IF reply.id = None THEN counted
               ELSE PushRecord(InsertParent(counted, reply.id), edit, newRec)
          [] edit.op = "other" -> counted
=============================================================================
