----------------------------- MODULE Operations -----------------------------
(***************************************************************************)
(* The record of MCP operations (mcp/operations.rs): the updates of an     *)
(* operation by the HTTP side and by the edit actor, the bounded list and  *)
(* its two files, and the panel that follows it by notifications and one   *)
(* initial request (hooks/useMcpOperations.ts).                            *)
(*                                                                         *)
(* A record is its request and its update; EditQueue models what outcome   *)
(* an update tells.  A line of the file takes one unit of its size.        *)
(***************************************************************************)
EXTENDS Naturals, Sequences, FiniteSets, SequencesExt

CONSTANTS
    OpRequests,      \* operations
    OpMaxRecords,    \* MAX_RECORDS
    OpMaxLines       \* MAX_BYTES, in lines

ASSUME OperationAssumption == OpMaxRecords \in Nat \ {0} /\ OpMaxLines \in Nat \ {0}

VARIABLES
    opState,       \* the handle of each request: its last update and who made it
    opBusy,        \* handles locked by a finish whose notification is still to come
    opRecords,     \* StoreState.records
    opRevision,    \* StoreState.revision
    opPrevious,    \* the rotated file
    opFile,        \* the file
    opError,       \* StoreState.storage_error
    opLog,         \* every line that was saved
    opEvents,      \* notifications on their way to the panel
    opPanel        \* the panel: its subscription, its initial request, what it shows

opVars == <<opState, opBusy, opRecords, opRevision, opPrevious, opFile, opError, opLog, opEvents, opPanel>>

OpNothing == [revision |-> 0, records |-> <<>>]

OpInit ==
    /\ opState = [r \in OpRequests |-> "begun"]
    /\ opBusy = [r \in OpRequests |-> OpNothing]
    /\ opRecords = <<>> /\ opRevision = 0
    /\ opPrevious = <<>> /\ opFile = <<>> /\ opLog = <<>>
    /\ opError \in BOOLEAN
    /\ opEvents = <<>>
    /\ opPanel = [at |-> "closed", reply |-> OpNothing, shown |-> OpNothing]

OpLine(r, update) == [request |-> r, update |-> update]

----------------------------------------------------------------------------
(* finish and publish.                                                     *)

\* Mutant of Unsettled: a late answer of the HTTP side overwrites the actor's.
UnsettledAlways(r) == TRUE

\* What the actor has settled stays.
Unsettled(r) == opState[r] # "actor"

Room == Len(opFile) + 1 <= OpMaxLines

\* The previous file and the file, once there is room for a line.
Rotated == IF Room THEN <<opPrevious, opFile>> ELSE <<opFile, <<>>>>

\* append_record; a failure may come before or after the previous file is removed.
Saved(line) ==
    \/ /\ opPrevious' = Rotated[1] /\ opFile' = Append(Rotated[2], line)
       /\ opLog' = Append(opLog, line)
       /\ opError' = FALSE
    \/ /\ opPrevious' \in {opPrevious} \cup (IF Room THEN {} ELSE {<<>>, opFile})
       /\ opFile' = IF opPrevious' = opFile /\ ~Room THEN <<>> ELSE opFile
       /\ opError' = TRUE
       /\ UNCHANGED opLog

Listed(r, line) ==
    LET all == Append(SelectSeq(opRecords, LAMBDA old : old.request # r), line)
    IN SubSeq(all, 1 + (IF Len(all) > OpMaxRecords THEN Len(all) - OpMaxRecords ELSE 0), Len(all))

\* The handle stays locked until the panel is told, the store does not; each side
\* is bounded to one update.
Finish(r, update) ==
    /\ opBusy[r] = OpNothing
    /\ opState[r] # update
    /\ Unsettled(r)
    /\ opState' = [opState EXCEPT ![r] = update]
    /\ Saved(OpLine(r, update))
    /\ opRecords' = Listed(r, OpLine(r, update))
    /\ opRevision' = opRevision + 1
    /\ opBusy' = [opBusy EXCEPT ![r] = [revision |-> opRevision', records |-> opRecords']]
    /\ UNCHANGED <<opEvents, opPanel>>

\* sink(payload), outside of the store's lock.
Publish(r) ==
    /\ opBusy[r] # OpNothing
    /\ opEvents' = IF opPanel.at = "closed" THEN opEvents ELSE Append(opEvents, opBusy[r])
    /\ opBusy' = [opBusy EXCEPT ![r] = OpNothing]
    /\ UNCHANGED <<opState, opRecords, opRevision, opPrevious, opFile, opError, opLog, opPanel>>

----------------------------------------------------------------------------
(* The panel.                                                              *)

\* apply: an older revision is not taken.
Applied(next) == IF next.revision < opPanel.shown.revision THEN opPanel.shown ELSE next

\* The subscription is awaited before the request is made.
Subscribe ==
    /\ opPanel.at = "closed"
    /\ opPanel' = [opPanel EXCEPT !.at = "subscribed"]
    /\ UNCHANGED <<opState, opBusy, opRecords, opRevision, opPrevious, opFile, opError, opLog, opEvents>>

\* get_mcp_operations takes its snapshot; the answer is on its way.
Asked ==
    /\ opPanel.at = "subscribed"
    /\ opPanel' = [opPanel EXCEPT !.at = "answered",
                                  !.reply = [revision |-> opRevision, records |-> opRecords]]
    /\ UNCHANGED <<opState, opBusy, opRecords, opRevision, opPrevious, opFile, opError, opLog, opEvents>>

InitialReply ==
    /\ opPanel.at = "answered"
    /\ opPanel' = [at |-> "open", reply |-> OpNothing, shown |-> Applied(opPanel.reply)]
    /\ UNCHANGED <<opState, opBusy, opRecords, opRevision, opPrevious, opFile, opError, opLog, opEvents>>

EventArrives ==
    /\ opEvents # <<>>
    /\ opPanel' = [opPanel EXCEPT !.shown = Applied(Head(opEvents))]
    /\ opEvents' = Tail(opEvents)
    /\ UNCHANGED <<opState, opBusy, opRecords, opRevision, opPrevious, opFile, opError, opLog>>

OpNext ==
    \/ \E r \in OpRequests : Publish(r) \/ \E update \in {"http", "actor"} : Finish(r, update)
    \/ Subscribe \/ Asked \/ InitialReply \/ EventArrives

OpSpec == OpInit /\ [][OpNext]_opVars

----------------------------------------------------------------------------
(* What the records promise.                                               *)

\* Once everything under way has arrived the panel shows what the store holds,
\* although notifications of two operations may overtake each other and the
\* initial answer may come after them.
PanelCatchesUp ==
    /\ opPanel.at = "open" /\ opEvents = <<>>
    /\ \A r \in OpRequests : opBusy[r] = OpNothing
    => opPanel.shown = [revision |-> opRevision, records |-> opRecords]

\* While saving works the two files hold at least the last MAX_BYTES of what was
\* saved, in order, across every rotation (append_record).
FilesHoldTheLast ==
    ~opError =>
        LET kept == opPrevious \o opFile
            due == IF Len(opLog) < OpMaxLines THEN Len(opLog) ELSE OpMaxLines
        IN /\ IsSuffix(kept, opLog) /\ Len(kept) >= due
           /\ Len(opFile) <= OpMaxLines /\ Len(opPrevious) <= OpMaxLines

\* The actor's result of an operation is what the list keeps and what the file
\* says last of it: no late answer of the HTTP side comes after it.
ActorsWordIsLast ==
    \A i, j \in DOMAIN opLog :
        i < j /\ opLog[i].request = opLog[j].request => opLog[i].update # "actor"

\* List, files and panel agree on what became of an operation, in whatever order
\* actor, HTTP side, rotation and notifications come.
OperationsAgree == PanelCatchesUp /\ FilesHoldTheLast /\ ActorsWordIsLast
============================================================================
