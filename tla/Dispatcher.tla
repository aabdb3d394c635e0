----------------------------- MODULE Dispatcher -----------------------------
(***************************************************************************)
(* The editor client's dispatcher (norves-bridge-editor-client,            *)
(* dispatcher.rs): callers of DispatchHandle::request talk to one task     *)
(* over a bounded command channel; the task owns the transport and the     *)
(* PendingTable that maps a correlation id to the waiter of the request    *)
(* that currently holds it.                                                *)
(*                                                                         *)
(* A request stands for one call of request().  Its generation token is    *)
(* the request itself: next_token.fetch_add gives every call its own.      *)
(* Events share the task but none of this state and are left out.          *)
(***************************************************************************)
EXTENDS Naturals, Sequences, FiniteSets

CONSTANTS
    Requests,     \* calls of DispatchHandle::request
    Ids,          \* correlation ids
    IdOf,         \* the id each caller put in its envelope
    Capacity,     \* COMMAND_CHANNEL_CAPACITY
    OverlapIds,   \* TRUE: callers may reuse an id that is still in flight
    NoWaiter      \* no request

ASSUME DispatcherAssumption ==
    /\ IdOf \in [Requests -> Ids]
    /\ Capacity \in Nat \ {0}
    /\ OverlapIds \in BOOLEAN
    /\ NoWaiter \notin Requests

VARIABLES
    call,       \* where each request() call stands
    reply,      \* content of the call's oneshot channel
    answers,    \* the engine answers handed to each call
    commands,   \* the mpsc channel from the handles to the task
    pending,    \* PendingTable
    task,       \* "select", "writing" (awaiting transport.send), "stopped"
    writing,    \* the request whose frame is being written
    engine,     \* requests the engine has and has not answered
    inbound,    \* response frames on their way back, each named by its request
    unsent,     \* requests whose frame the transport refused
    shutdown,   \* where the shutdown() call stands
    handles     \* some DispatchHandle is alive

callVars == <<call, reply, answers>>
taskVars == <<pending, task, writing, unsent>>
wireVars == <<engine, inbound>>
vars == <<callVars, commands, taskVars, wireVars, shutdown, handles>>

Returned == {"answered", "closed", "timeout", "refused", "abandoned"}
CallStates == {"idle", "queueing", "waiting", "cancelling"} \cup Returned
Commands == [op : {"send", "cancel"}, req : Requests]
            \cup [op : {"shutdown"}, req : {NoWaiter}]

TypeOK ==
    /\ call \in [Requests -> CallStates]
    /\ reply \in [Requests -> {"empty", "answer", "closed", "dropped"}]
    /\ answers \in [Requests -> SUBSET Requests]
    /\ commands \in Seq(Commands)
    /\ pending \in [Ids -> Requests \cup {NoWaiter}]
    /\ task \in {"select", "writing", "stopped"}
    /\ writing \in IF task = "writing" THEN Requests ELSE {NoWaiter}
    /\ engine \in SUBSET Requests
    /\ inbound \in Seq(Requests)
    /\ unsent \in SUBSET Requests
    /\ shutdown \in {"idle", "queueing", "waiting", "done"}
    /\ handles \in BOOLEAN

Init ==
    /\ call = [r \in Requests |-> "idle"]
    /\ reply = [r \in Requests |-> "empty"]
    /\ answers = [r \in Requests |-> {}]
    /\ commands = <<>>
    /\ pending = [i \in Ids |-> NoWaiter]
    /\ task = "select"
    /\ writing = NoWaiter
    /\ engine = {}
    /\ inbound = <<>>
    /\ unsent = {}
    /\ shutdown = "idle"
    /\ handles = TRUE

-----------------------------------------------------------------------------
(* The callers.                                                            *)

InFlight(r) == call[r] \in {"queueing", "waiting", "cancelling"}

\* The contract of request(): an id is unique among the caller's in-flight
\* requests; reusing it once the earlier request resolved or timed out is allowed.
MayUseId(r) ==
    OverlapIds \/ \A q \in Requests \ {r} :
        IdOf[q] = IdOf[r] => ~InFlight(q) /\ call[q] # "abandoned"

RequestStart(r) ==
    /\ call[r] = "idle"
    /\ handles
    /\ MayUseId(r)
    /\ \/ call' = [call EXCEPT ![r] = "queueing"]
       \/ call' = [call EXCEPT ![r] = "refused"]     \* RequestError::Encode
    /\ UNCHANGED <<reply, answers, commands, taskVars, wireVars, shutdown, handles>>

\* commands.send(..).await completes when there is room, or fails when the
\* task has dropped the receiver.
ChannelHasRoom == task # "stopped" /\ Len(commands) < Capacity

RequestEnqueue(r) ==
    /\ call[r] = "queueing"
    /\ \/ /\ ChannelHasRoom
          /\ commands' = Append(commands, [op |-> "send", req |-> r])
          /\ call' = [call EXCEPT ![r] = "waiting"]
       \/ /\ task = "stopped"
          /\ call' = [call EXCEPT ![r] = "closed"]
          /\ UNCHANGED commands
    /\ UNCHANGED <<reply, answers, taskVars, wireVars, shutdown, handles>>

\* Mutant: a dropped sender is taken for an answer without a payload.
RequestResolveAny(r) ==
    /\ call[r] = "waiting"
    /\ reply[r] # "empty"
    /\ call' = [call EXCEPT ![r] = IF reply[r] # "closed" THEN "answered" ELSE "closed"]
    /\ UNCHANGED <<reply, answers, commands, taskVars, wireVars, shutdown, handles>>

\* The oneshot resolves: a payload, ConnectionClosed, or a dropped sender,
\* which request() also reports as ConnectionClosed.
RequestResolve(r) ==
    /\ call[r] = "waiting"
    /\ reply[r] # "empty"
    /\ call' = [call EXCEPT ![r] = IF reply[r] = "answer" THEN "answered" ELSE "closed"]
    /\ UNCHANGED <<reply, answers, commands, taskVars, wireVars, shutdown, handles>>

\* tokio::time::timeout elapses with an empty oneshot; the receiver is gone.
RequestTimeout(r) ==
    /\ call[r] = "waiting"
    /\ reply[r] = "empty"
    /\ call' = [call EXCEPT ![r] = "cancelling"]
    /\ UNCHANGED <<reply, answers, commands, taskVars, wireVars, shutdown, handles>>

\* Mutant: the timeout arm returns without its Cancel.
RequestCancelSilent(r) ==
    /\ call[r] = "cancelling"
    /\ call' = [call EXCEPT ![r] = "timeout"]
    /\ UNCHANGED <<reply, answers, commands, taskVars, wireVars, shutdown, handles>>

\* The best-effort Cancel, after which request() returns Timeout.
RequestCancel(r) ==
    /\ call[r] = "cancelling"
    /\ \/ /\ ChannelHasRoom
          /\ commands' = Append(commands, [op |-> "cancel", req |-> r])
       \/ /\ task = "stopped"
          /\ UNCHANGED commands
    /\ call' = [call EXCEPT ![r] = "timeout"]
    /\ UNCHANGED <<reply, answers, taskVars, wireVars, shutdown, handles>>

\* The future of request() is dropped at one of its awaits (a select! of the
\* caller took another branch): nothing more is sent, not even a Cancel.
RequestAbandon(r) ==
    /\ InFlight(r)
    /\ call' = [call EXCEPT ![r] = "abandoned"]
    /\ UNCHANGED <<reply, answers, commands, taskVars, wireVars, shutdown, handles>>

ShutdownCall ==
    /\ \/ /\ shutdown = "idle" /\ handles
          /\ shutdown' = "queueing"
          /\ UNCHANGED commands
       \/ /\ shutdown = "queueing" /\ ChannelHasRoom
          /\ commands' = Append(commands, [op |-> "shutdown", req |-> NoWaiter])
          /\ shutdown' = "waiting"
       \/ /\ shutdown = "queueing" /\ task = "stopped"
          /\ shutdown' = "done"
          /\ UNCHANGED commands
    /\ UNCHANGED <<callVars, taskVars, wireVars, handles>>

\* Every clone of the handle is dropped; a call in flight borrows one.
DropHandles ==
    /\ handles
    /\ \A r \in Requests : ~InFlight(r)
    /\ shutdown \in {"idle", "done"}
    /\ handles' = FALSE
    /\ UNCHANGED <<callVars, commands, taskVars, wireVars, shutdown>>

-----------------------------------------------------------------------------
(* The task.                                                               *)

\* A oneshot send to the callers in rs; a dropped receiver ignores it.
Tell(rs, what) ==
    reply' = [r \in Requests |-> IF r \in rs /\ call[r] = "waiting" /\ reply[r] = "empty"
                                 THEN what ELSE reply[r]]

Waiters == {r \in Requests : pending[IdOf[r]] = r}
Queued(op) == {r \in Requests : \E i \in 1..Len(commands) : commands[i] = [op |-> op, req |-> r]}

NextCommand(op) == task = "select" /\ commands # <<>> /\ Head(commands).op = op

\* on_send_request, up to the await of transport.send: register first, and
\* fail the waiter that held the same id.
OnSendRequest ==
    /\ NextCommand("send")
    /\ LET r == Head(commands).req IN
       /\ Tell({pending[IdOf[r]]} \ {NoWaiter}, "closed")
       /\ pending' = [pending EXCEPT ![IdOf[r]] = r]
       /\ writing' = r
    /\ task' = "writing"
    /\ commands' = Tail(commands)
    /\ UNCHANGED <<call, answers, unsent, wireVars, shutdown, handles>>

FrameSent ==
    /\ task = "writing"
    /\ engine' = engine \cup {writing}
    /\ writing' = NoWaiter
    /\ task' = "select"
    /\ UNCHANGED <<callVars, commands, pending, unsent, inbound, shutdown, handles>>

\* Mutant: the failure path forgets that the write is over.
FrameFailedStillWriting ==
    /\ task = "writing"
    /\ Tell({writing}, "closed")
    /\ pending' = [pending EXCEPT ![IdOf[writing]] = NoWaiter]
    /\ unsent' = unsent \cup {writing}
    /\ task' = "select"
    /\ UNCHANGED <<call, answers, commands, writing, wireVars, shutdown, handles>>

\* transport.send failed; the peer may or may not have got the frame.  The
\* task goes on.
FrameFailed ==
    /\ task = "writing"
    /\ IF pending[IdOf[writing]] = writing
       THEN /\ Tell({writing}, "closed")
            /\ pending' = [pending EXCEPT ![IdOf[writing]] = NoWaiter]
       ELSE UNCHANGED <<pending, reply>>
    /\ engine' \in {engine, engine \cup {writing}}
    /\ unsent' = unsent \cup {writing}
    /\ writing' = NoWaiter
    /\ task' = "select"
    /\ UNCHANGED <<call, answers, commands, inbound, shutdown, handles>>

\* Mutant: the token is not compared, whoever holds the id is evicted.
OnCancelAnyToken ==
    /\ NextCommand("cancel")
    /\ LET r == Head(commands).req IN
       /\ Tell({pending[IdOf[r]]} \ {NoWaiter}, "dropped")
       /\ pending' = [pending EXCEPT ![IdOf[r]] = NoWaiter]
    /\ commands' = Tail(commands)
    /\ UNCHANGED <<call, answers, task, writing, unsent, wireVars, shutdown, handles>>

\* on_cancel: only the entry with the canceller's own token is dropped.
OnCancel ==
    /\ NextCommand("cancel")
    /\ LET r == Head(commands).req IN
       IF pending[IdOf[r]] = r
       THEN /\ Tell({r}, "dropped")
            /\ pending' = [pending EXCEPT ![IdOf[r]] = NoWaiter]
       ELSE UNCHANGED <<pending, reply>>
    /\ commands' = Tail(commands)
    /\ UNCHANGED <<call, answers, task, writing, unsent, wireVars, shutdown, handles>>

\* Mutant: the response is handed to some waiter instead of the id's holder.
OnResponseToAnyone ==
    /\ task = "select"
    /\ inbound # <<>>
    /\ \E holder \in Waiters :
         /\ Tell({holder}, "answer")
         /\ answers' = [answers EXCEPT ![holder] = @ \cup {Head(inbound)}]
         /\ pending' = [pending EXCEPT ![IdOf[holder]] = NoWaiter]
    /\ inbound' = Tail(inbound)
    /\ UNCHANGED <<call, commands, task, writing, unsent, engine, shutdown, handles>>

\* on_frame for a response: whoever holds the id gets it, whatever its token.
OnResponse ==
    /\ task = "select"
    /\ inbound # <<>>
    /\ LET r == Head(inbound)
           holder == pending[IdOf[r]] IN
       IF holder # NoWaiter
       THEN /\ Tell({holder}, "answer")
            /\ answers' = [answers EXCEPT ![holder] =
                             IF call[holder] = "waiting" THEN @ \cup {r} ELSE @]
            /\ pending' = [pending EXCEPT ![IdOf[r]] = NoWaiter]
       ELSE UNCHANGED <<pending, reply, answers>>
    /\ inbound' = Tail(inbound)
    /\ UNCHANGED <<call, commands, task, writing, unsent, engine, shutdown, handles>>

\* Mutant: the registered waiters are failed, the queued responders are kept.
StopKeepsQueue ==
    /\ Tell(Waiters, "closed")
    /\ pending' = [i \in Ids |-> NoWaiter]
    /\ task' = "stopped"
    /\ shutdown' = IF shutdown = "waiting" THEN "done" ELSE shutdown
    /\ UNCHANGED <<call, answers, commands, writing, unsent, wireVars, handles>>

\* fail_all_pending and the drop of the command receiver, which drops the
\* responders still queued: the end of the task.
Stop ==
    /\ reply' = [r \in Requests |->
                   IF call[r] = "waiting" /\ reply[r] = "empty"
                   THEN IF r \in Waiters THEN "closed"
                        ELSE IF r \in Queued("send") THEN "dropped" ELSE reply[r]
                   ELSE reply[r]]
    /\ pending' = [i \in Ids |-> NoWaiter]
    /\ commands' = <<>>
    /\ task' = "stopped"
    /\ shutdown' = IF shutdown = "waiting" THEN "done" ELSE shutdown
    /\ UNCHANGED <<call, answers, writing, unsent, wireVars, handles>>

OnShutdown == NextCommand("shutdown") /\ Stop

\* Peer close or transport error while selecting.
OnTransportEnd == task = "select" /\ Stop

OnHandlesDropped == task = "select" /\ ~handles /\ commands = <<>> /\ Stop

-----------------------------------------------------------------------------
(* The engine (external): answers what it received, in any order.          *)

EngineAnswer(r) ==
    /\ r \in engine
    /\ task # "stopped"
    /\ engine' = engine \ {r}
    /\ inbound' = Append(inbound, r)
    /\ UNCHANGED <<callVars, commands, taskVars, shutdown, handles>>

TaskStep == OnSendRequest \/ FrameSent \/ FrameFailed \/ OnCancel \/ OnResponse
            \/ OnShutdown \/ OnHandlesDropped
CallerStep(r) == RequestEnqueue(r) \/ RequestResolve(r) \/ RequestTimeout(r) \/ RequestCancel(r)

Next ==
    \/ \E r \in Requests : RequestStart(r) \/ CallerStep(r) \/ RequestAbandon(r) \/ EngineAnswer(r)
    \/ ShutdownCall
    \/ DropHandles
    \/ TaskStep
    \/ OnTransportEnd

Spec == Init /\ [][Next]_vars

\* The task, the callers and the transport keep moving: the tokio scheduler
\* polls every ready task, timers fire, and a write to the socket finishes.
Fairness ==
    /\ WF_vars(TaskStep)
    /\ \A r \in Requests : WF_vars(CallerStep(r))

FairSpec == Spec /\ Fairness

-----------------------------------------------------------------------------
(* Properties.                                                             *)

\* A caller that is still waiting on an empty oneshot is known to a live task:
\* its command is queued or its waiter holds its id.  So nobody waits on a
\* channel that no code path will ever resolve ("so no caller hangs").
WaiterTracked ==
    \A r \in Requests :
        call[r] = "waiting" /\ reply[r] = "empty" =>
            /\ task # "stopped"
            /\ r \in Queued("send") \cup Waiters

\* request() reports ConnectionClosed only when the connection ended, the
\* transport refused this very frame, or another request took over the id; and a
\* responder is dropped unused only when the task ends, so a stale Cancel never
\* evicts a newer request that reuses its id.
ClosedHasCause ==
    \A r \in Requests :
        /\ call[r] = "closed" => task = "stopped" \/ reply[r] = "closed"
        /\ reply[r] = "dropped" => task = "stopped"
        /\ reply[r] = "closed" =>
              \/ task = "stopped"
              \/ r \in unsent
              \/ \E q \in Requests \ {r} : IdOf[q] = IdOf[r] /\ call[q] # "idle"

\* A PendingTable entry whose caller has given up is on its way out: the caller
\* is about to send its Cancel or the Cancel is queued, so a timed-out request
\* does not leak its entry.  Only a call whose future was dropped leaves one.
TimedOutEntryIsCancelled ==
    \A r \in Waiters :
        \/ call[r] \in {"waiting", "cancelling", "abandoned"}
        \/ call[r] = "timeout" /\ r \in Queued("cancel")

\* A request whose id no other request carries, as allocate_request_id hands them
\* out, gets no answer but its own, whatever ids the others reuse among themselves
\* and however late the answers come.
UniqueIdGetsOwnAnswer ==
    \A r \in Requests :
        (\A q \in Requests \ {r} : IdOf[q] # IdOf[r]) => answers[r] \subseteq {r}

-----------------------------------------------------------------------------
(* The strengthening that makes the safety properties inductive.           *)

\* A request that is registered or about to be is one its caller still counts
\* on, or one whose Cancel follows, and nothing has been told to it yet.
Expecting(r) ==
    /\ reply[r] = "empty"
    /\ \/ call[r] \in {"waiting", "cancelling", "abandoned"}
       \/ call[r] = "timeout" /\ r \in Queued("cancel")

EntriesExpected == \A r \in Waiters \cup Queued("send") : Expecting(r)

HolderOwnsId == \A i \in Ids : pending[i] # NoWaiter => IdOf[pending[i]] = i

RegisteredOnce == \A r \in Waiters : r \notin Queued("send")

CancelAfterTimeout == \A r \in Queued("cancel") : call[r] = "timeout"

FreshReply == \A r \in Requests : call[r] \in {"idle", "queueing"} => reply[r] = "empty"

\* Nothing of a request precedes its SendRequest in the channel.
SendComesFirst ==
    \A i, j \in 1..Len(commands) :
        i < j /\ commands[j].op = "send" => commands[i].req # commands[j].req

\* The task leaves nothing behind.
StoppedIsEmpty ==
    task = "stopped" => commands = <<>> /\ \A i \in Ids : pending[i] = NoWaiter

DispatcherInv ==
    /\ StoppedIsEmpty
    /\ HolderOwnsId
    /\ EntriesExpected
    /\ RegisteredOnce
    /\ CancelAfterTimeout
    /\ FreshReply
    /\ SendComesFirst
    /\ WaiterTracked
    /\ ClosedHasCause
=============================================================================
