--------------------------- MODULE ReadSnapshots ---------------------------
(***************************************************************************)
(* The paged reads of the MCP server (McpReadContext::call_tool and        *)
(* ReadSnapshotStore in mcp/reads.rs): a long answer of the engine is kept *)
(* and handed out page by page against single-use cursors, for as long as  *)
(* the connection generation lives.  Reads wait for the engine while       *)
(* other reads page, snapshots expire and the connection is replaced.      *)
(*                                                                         *)
(* An answer is the sequence of the sizes of its items; the pages of an    *)
(* asset manifest are collected before the answer is complete.             *)
(***************************************************************************)
EXTENDS Naturals, Sequences, FiniteSets, SequencesExt, Functions

CONSTANTS
    RsReaders,          \* concurrent MCP requests
    RsAnswers,          \* answers of the engine: sequences of item sizes
    RsPageSizes,        \* page sizes the clients ask for
    RsMaxResponse,      \* MAX_READ_RESPONSE_BYTES without what a page needs around its items
    RsMaxItem,          \* what create_page accepts as one item; a little more
    RsMaxBytes,         \* MAX_READ_SNAPSHOT_BYTES
    RsMaxGeneration,    \* bound on the connections
    RsMaxCursors        \* bound on the cursors drawn

ASSUME RsAssumption ==
    /\ RsMaxResponse \in Nat /\ RsMaxItem \in Nat /\ RsMaxBytes \in Nat
    /\ RsMaxGeneration \in Nat /\ RsMaxCursors \in Nat
    /\ RsPageSizes \subseteq Nat \ {0}
    /\ \A answer \in RsAnswers : answer \in Seq(Nat \ {0})

VARIABLES
    rsGeneration,   \* the bridge's current generation
    rsStored,       \* ReadSnapshotStore.generation, 0 for none
    rsSnapshots,    \* ReadSnapshotStore.snapshots, and cursors by their snapshots
    rsUse,          \* ReadSnapshotStore.use_sequence
    rsDrawn,        \* tokens drawn so far, one of which names each answer; the next is fresh
    rsReader        \* what each client does and has received

rsStore == <<rsStored, rsSnapshots, rsUse, rsDrawn>>
rsVars == <<rsGeneration, rsStore, rsReader>>

\* A client between two reads.  "got" is what it has received: the snapshot
\* and the position of each item.
RsIdle == [at |-> "idle", gen |-> 0, cursor |-> 0, answer |-> <<>>, collected |-> 0, got |-> <<>>]

RsInit ==
    /\ rsGeneration = 1
    /\ rsStored = 0 /\ rsSnapshots = {} /\ rsUse = 0 /\ rsDrawn = 0
    /\ rsReader = [r \in RsReaders |-> RsIdle]

Total(sizes) == SumFunction(sizes)

----------------------------------------------------------------------------
(* ReadSnapshotStore.                                                      *)

\* set_generation: the snapshots left, and prune_expired.
Usable(generation, snapshots) ==
    IF rsStored = generation THEN {s \in snapshots : ~s.expired} ELSE {}

\* page_end: as many items as the page size and the response limit allow; the
\* offset itself when not even one does.
PageEnd(sizes, offset, pageSize) ==
    Max({e \in offset..Len(sizes) : /\ e <= offset + pageSize
                                    /\ Total(SubSeq(sizes, offset + 1, e)) <= RsMaxResponse})

\* evict_until_fits: the snapshots used longest ago make room.
Evicted(snapshots, required) ==
    LET Size(S) == SumFunction([s \in S |-> Total(s.answer)])
        Newer(s) == {t \in snapshots : t.used >= s.used}
    IN  {s \in snapshots : Size(Newer(s)) + required > RsMaxBytes}

\* create_page refuses an answer before it keeps anything.
TooLarge(answer) ==
    Total(answer) > RsMaxBytes \/ \E i \in DOMAIN answer : answer[i] > RsMaxItem

Items(id, from, to) == [i \in 1..(to - from) |-> <<id, from + i>>]

----------------------------------------------------------------------------
(* Requests.                                                               *)

Set(r, value) == rsReader' = [rsReader EXCEPT ![r] = value]

\* call_tool without a cursor: the generation is pinned, the store follows it
\* and the engine is asked.
Ask(r, tool) ==
    /\ rsReader[r].at = "idle"
    /\ Set(r, [RsIdle EXCEPT !.at = tool, !.gen = rsGeneration])
    /\ rsStored' = rsGeneration
    /\ rsSnapshots' = IF rsStored = rsGeneration THEN rsSnapshots ELSE {}
    /\ UNCHANGED <<rsGeneration, rsUse, rsDrawn>>

\* The engine or the transport fails, or the manifest does not add up.
AskFails(r) ==
    /\ rsReader[r].at \in {"answer", "manifest"}
    /\ Set(r, RsIdle)
    /\ UNCHANGED <<rsGeneration, rsStore>>

\* Mutant of Deliver: the connection is not looked at again.
DeliverStale(r, reader) == Set(r, reader)

\* A page reaches its client if the connection it was read from still is the
\* current one.
Deliver(r, reader) == Set(r, IF reader.gen = rsGeneration THEN reader ELSE RsIdle)

\* create_page, under the generation the read was pinned to.
CreatePage(r, answer, pageSize) ==
    LET left == Usable(rsReader[r].gen, rsSnapshots)
        end == PageEnd(answer, 0, pageSize)
        id == rsDrawn + 1
    IN  /\ rsStored' = rsReader[r].gen
        /\ IF TooLarge(answer) \/ end = 0
           THEN /\ Set(r, RsIdle)
                /\ rsSnapshots' = left
                /\ UNCHANGED <<rsUse, rsDrawn>>
           ELSE /\ rsDrawn < RsMaxCursors
                /\ rsDrawn' = id
                /\ IF end = Len(answer)
                   THEN /\ Deliver(r, [rsReader[r] EXCEPT !.at = "done", !.answer = answer,
                                                          !.got = Items(id, 0, end)])
                        /\ rsSnapshots' = left
                        /\ UNCHANGED rsUse
                   ELSE /\ Deliver(r, [rsReader[r] EXCEPT !.at = "paging", !.answer = answer,
                                                          !.cursor = id,
                                                          !.got = Items(id, 0, end)])
                        /\ rsUse' = rsUse + 1
                        /\ rsSnapshots' = (left \ Evicted(left, Total(answer)))
                              \cup {[id |-> id, gen |-> rsReader[r].gen, answer |-> answer,
                                     offset |-> end, cursor |-> id, used |-> rsUse',
                                     expired |-> FALSE]}

Answered(r, answer, pageSize) ==
    /\ rsReader[r].at = "answer"
    /\ CreatePage(r, answer, pageSize)
    /\ UNCHANGED rsGeneration

\* One page of read_asset_manifest; the connection is looked at after each.
\* A total that changes, too many entries and an empty page are errors.
ManifestBatch(r, answer, n, pageSize) ==
    /\ rsReader[r].at = "manifest"
    /\ rsReader[r].collected > 0 => rsReader[r].answer = answer
    /\ LET collected == rsReader[r].collected + n IN
       IF rsReader[r].gen # rsGeneration \/ collected > Len(answer) \/ n = 0
       THEN Set(r, RsIdle) /\ UNCHANGED rsStore
       ELSE IF collected = Len(answer)
       THEN CreatePage(r, answer, pageSize)
       ELSE /\ Set(r, [rsReader[r] EXCEPT !.answer = answer, !.collected = collected])
            /\ UNCHANGED rsStore
    /\ UNCHANGED rsGeneration

\* call_tool with a cursor pins the generation before it locks the store.
PinRead(r) ==
    /\ rsReader[r].at = "paging"
    /\ Set(r, [rsReader[r] EXCEPT !.at = "pinned", !.collected = rsGeneration])
    /\ UNCHANGED <<rsGeneration, rsStore>>

\* The snapshot after a page: a new cursor, or nothing left.
Advanced(s, end, last) ==
    IF last THEN {}
    ELSE {[s EXCEPT !.offset = end, !.cursor = rsDrawn + 1, !.used = rsUse + 1]}

\* continue_page: a cursor that does not name a snapshot of the pinned
\* generation is refused and the client starts over; an item that fits no page
\* is refused and leaves everything as it is.
Continue(r, pageSize) ==
    /\ rsReader[r].at = "pinned"
    /\ LET pin == rsReader[r].collected
           left == Usable(pin, rsSnapshots)
           found == {s \in left : s.cursor = rsReader[r].cursor /\ s.gen = pin}
           again == [rsReader[r] EXCEPT !.at = "paging", !.collected = 0]
       IN  /\ rsStored' = pin
           /\ \/ /\ found = {}
                 /\ Set(r, RsIdle)
                 /\ rsSnapshots' = left
                 /\ UNCHANGED <<rsUse, rsDrawn>>
              \/ \E s \in found :
                    LET end == PageEnd(s.answer, s.offset, pageSize)
                        last == end = Len(s.answer)
                        page == rsReader[r].got \o Items(s.id, s.offset, end)
                    IN  IF end = s.offset
                        THEN /\ Set(r, again)
                             /\ rsSnapshots' = left
                             /\ UNCHANGED <<rsUse, rsDrawn>>
                        ELSE /\ last \/ rsDrawn < RsMaxCursors
                             /\ rsSnapshots' = (left \ {s}) \cup Advanced(s, end, last)
                             /\ rsUse' = IF last THEN rsUse ELSE rsUse + 1
                             /\ rsDrawn' = IF last THEN rsDrawn ELSE rsDrawn + 1
                             /\ \/ Deliver(r, [again EXCEPT
                                         !.at = IF last THEN "done" ELSE "paging",
                                         !.gen = pin, !.got = page,
                                         !.cursor = IF last THEN 0 ELSE rsDrawn'])
                                \* The answer is lost: the client asks again with its cursor.
                                \/ Set(r, again)
    /\ UNCHANGED rsGeneration

ReadDone(r) ==
    /\ rsReader[r].at \in {"done", "paging"}
    /\ Set(r, RsIdle)
    /\ UNCHANGED <<rsGeneration, rsStore>>

----------------------------------------------------------------------------
(* The world around the store.                                             *)

Expires(s) ==
    /\ ~s.expired
    /\ rsSnapshots' = (rsSnapshots \ {s}) \cup {[s EXCEPT !.expired = TRUE]}
    /\ UNCHANGED <<rsGeneration, rsStored, rsUse, rsDrawn, rsReader>>

Reconnects ==
    /\ rsGeneration < RsMaxGeneration
    /\ rsGeneration' = rsGeneration + 1
    /\ UNCHANGED <<rsStore, rsReader>>

RsNext ==
    \/ \E r \in RsReaders :
          \/ \E tool \in {"answer", "manifest"} : Ask(r, tool)
          \/ AskFails(r) \/ PinRead(r) \/ ReadDone(r)
          \/ \E pageSize \in RsPageSizes :
                \/ Continue(r, pageSize)
                \/ \E answer \in RsAnswers :
                      \/ Answered(r, answer, pageSize)
                      \/ \E n \in 0..2 : ManifestBatch(r, answer, n, pageSize)
    \/ \E s \in rsSnapshots : Expires(s)
    \/ Reconnects

RsSpec == RsInit /\ [][RsNext]_rsVars

----------------------------------------------------------------------------
\* The store is consistent and within its limit: every snapshot belongs to the
\* store's generation, has a cursor and a use of its own and items left to
\* hand out, and together they fit.
RsStoreSound ==
    /\ rsStored \in 0..RsMaxGeneration
    /\ \A s \in rsSnapshots :
          /\ s.gen = rsStored
          /\ s.offset \in 1..(Len(s.answer) - 1)
          /\ s.cursor \in 1..rsDrawn
          /\ \A t \in rsSnapshots \ {s} : t.cursor # s.cursor /\ t.used # s.used /\ t.id # s.id
    /\ SumFunction([s \in rsSnapshots |-> Total(s.answer)]) <= RsMaxBytes

\* The pages a client has received join up: the items of one snapshot, each
\* once and in order, and all of them when it is told there are no more;
\* whatever was evicted, expired, asked twice or reset in between.
PagesJoinUp ==
    \A r \in RsReaders :
        LET got == rsReader[r].got IN
        /\ \A i \in DOMAIN got : got[i] = <<got[1][1], i>>
        /\ rsReader[r].at = "done" => Len(got) = Len(rsReader[r].answer)

\* What an old connection answered is never returned after the switch, although
\* a late read puts the store back to the old generation.
NoOldResults ==
    [][\A r \in RsReaders :
          rsReader'[r].got # rsReader[r].got /\ rsReader'[r].got # <<>> =>
              rsReader'[r].gen = rsGeneration]_rsVars

\* A paged read is one consistent snapshot of the connection that is live when a
\* page is handed out, or it is refused.
ReadsAreWhole == [](RsStoreSound /\ PagesJoinUp) /\ NoOldResults
=============================================================================
