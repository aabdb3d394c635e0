--------------------------- MODULE BridgeSession ---------------------------
(***************************************************************************)
(* The backend's connection lifecycle (apps/editor/src-tauri,              *)
(* bridge_state.rs): bridge_connect, bridge_reconnect, bridge_disconnect   *)
(* (and the quiet and exit variants) race over one phase behind a mutex.   *)
(* The mutex is never held across I/O, so a call takes the phase, works on *)
(* the side, and comes back to find out whether it still owns it.          *)
(*                                                                         *)
(* An attempt is one call of connect_service or bridge_reconnect.  It is   *)
(* named by the generation alloc_generation gave it, which also names the  *)
(* dispatcher, the relay and the LiveConnection it builds.                 *)
(***************************************************************************)
EXTENDS Naturals, FiniteSets

CONSTANTS
    Attempts,       \* connect and reconnect calls, and their generations
    Disconnects,    \* bridge_disconnect, stop_engine and exit calls
    NoGen           \* no generation

ASSUME SessionAssumption ==
    /\ NoGen \notin Attempts
    /\ Attempts \cap Disconnects = {}

VARIABLES
    phase,       \* the mutex-guarded Phase
    session,     \* the generation publish_session shows to the other services
    pc,          \* where each call stands
    after,       \* where a call goes on once its tear-down is over
    holds,       \* the connection (dispatcher handle and relay) a call owns
    took,        \* the generation a call removed from the phase
    slot,        \* attempt_cancellation: the attempt that can be cancelled
    cancelled,   \* attempts whose token has been cancelled
    dispatcher,  \* the dispatcher task of each generation
    relay,       \* the relay task of each generation
    log,         \* LogBuffer.active_generation
    sub,         \* each generation's log subscription status
    ui           \* the generation the screen shows as connected

callVars == <<pc, after, holds, took>>
cancelVars == <<slot, cancelled>>
taskVars == <<dispatcher, relay>>
logVars == <<log, sub>>
vars == <<phase, session, callVars, cancelVars, taskVars, logVars, ui>>

Calls == Attempts \cup Disconnects
MaybeGen == Attempts \cup {NoGen}

Disconnected == [kind |-> "disconnected", gen |-> NoGen]
Connecting(g) == [kind |-> "connecting", gen |-> g]
Connected(g) == [kind |-> "connected", gen |-> g]

PCs == {"idle", "retire", "abort", "stop", "join", "dial", "hello", "logs", "subscribe",
        "ack", "finishOk", "commit", "finishErr", "reset", "emit", "returned"}

TypeOK ==
    /\ phase \in [kind : {"connecting", "connected"}, gen : Attempts] \cup {Disconnected}
    /\ session \in MaybeGen
    /\ pc \in [Calls -> PCs]
    /\ after \in [Calls -> {"dial", "finishErr", "returned", "emit"}]
    /\ holds \in [Calls -> MaybeGen]
    /\ took \in [Calls -> MaybeGen]
    /\ slot \in MaybeGen
    /\ cancelled \in SUBSET Attempts
    /\ dispatcher \in [Attempts -> {"none", "running", "ended"}]
    /\ relay \in [Attempts -> {"none", "running", "aborting", "ended"}]
    /\ log \in MaybeGen
    /\ sub \in [Attempts -> {"none", "pending", "subscribed", "unavailable", "cancelled"}]
    /\ ui \in MaybeGen

Init ==
    /\ phase = Disconnected
    /\ session = NoGen
    /\ pc = [c \in Calls |-> "idle"]
    /\ after = [c \in Calls |-> "returned"]
    /\ holds = [c \in Calls |-> NoGen]
    /\ took = [c \in Calls |-> NoGen]
    /\ slot = NoGen
    /\ cancelled = {}
    /\ dispatcher = [g \in Attempts |-> "none"]
    /\ relay = [g \in Attempts |-> "none"]
    /\ log = NoGen
    /\ sub = [g \in Attempts |-> "none"]
    /\ ui = NoGen

-----------------------------------------------------------------------------
(* The small pieces the calls share.                                       *)

Goto(c, p) == pc' = [pc EXCEPT ![c] = p]

\* A rejected command shows as an error, not as connected.
ReturnError(c) == Goto(c, "returned") /\ ui' = NoGen

OwnsPhase(g) == phase.gen = g

\* cancel_attempt: only the attempt that still sits in the slot.
CancelAttempt(g) ==
    IF slot = g THEN cancelled' = cancelled \cup {g} /\ slot' = NoGen
                ELSE UNCHANGED cancelVars

\* Mutant: the active generation ends, whoever asks.
EndAnyLogGeneration(g) ==
    /\ log' = NoGen
    /\ sub' = sub

\* LogBuffer::end_generation.
EndLogGeneration(g) ==
    IF log = g
    THEN /\ log' = NoGen
         /\ sub' = [sub EXCEPT ![g] = IF @ \in {"pending", "subscribed"} THEN "cancelled" ELSE @]
    ELSE UNCHANGED logVars

\* tear_down and tear_down_partial start: the call owns g and goes to p when done.
\* The two differ in the wait for the dispatcher, see StopDispatcher.
TearDown(c, g, p) ==
    /\ Goto(c, "abort")
    /\ holds' = [holds EXCEPT ![c] = g]
    /\ after' = [after EXCEPT ![c] = p]

-----------------------------------------------------------------------------
(* Connect and reconnect.                                                  *)

\* connect_service up to the release of the lock.
ConnectBegin(a) ==
    /\ pc[a] = "idle"
    /\ phase = Disconnected
    /\ phase' = Connecting(a)
    /\ session' = NoGen
    /\ slot' = a /\ log' = a
    /\ Goto(a, "dial")
    /\ UNCHANGED <<after, holds, took, cancelled, taskVars, sub, ui>>

\* bridge_reconnect up to the release of the lock: the live connection is taken
\* out, its log generation retired, and the new attempt installed.
ReconnectBegin(a) ==
    /\ pc[a] = "idle"
    /\ phase.kind = "connected"
    /\ phase' = Connecting(a)
    /\ session' = NoGen
    /\ took' = [took EXCEPT ![a] = phase.gen]
    /\ cancelled' = IF slot = phase.gen THEN cancelled \cup {slot} ELSE cancelled
    /\ sub' = IF log = phase.gen /\ sub[log] \in {"pending", "subscribed"}
              THEN [sub EXCEPT ![log] = "cancelled"] ELSE sub
    /\ slot' = a /\ log' = a
    /\ TearDown(a, phase.gen, "dial")
    /\ UNCHANGED <<taskVars, ui>>

\* AlreadyConnected, or NotConnected for a reconnect: nothing changes but the
\* error on the screen.
BeginRefused(a) ==
    /\ pc[a] = "idle"
    /\ ReturnError(a)
    /\ UNCHANGED <<phase, session, after, holds, took, cancelVars, taskVars, logVars>>

\* connect_with_retry under the attempt's token.  Success starts the relay
\* before the handshake.
Dial(a) ==
    /\ pc[a] = "dial"
    /\ \/ /\ a \notin cancelled
          /\ dispatcher' = [dispatcher EXCEPT ![a] = "running"]
          /\ relay' = [relay EXCEPT ![a] = "running"]
          /\ holds' = [holds EXCEPT ![a] = a]
          /\ Goto(a, "hello")
       \/ /\ Goto(a, "finishErr")
          /\ UNCHANGED <<holds, taskVars>>
    /\ UNCHANGED <<phase, session, after, took, cancelVars, logVars, ui>>

\* complete_connection_setup (hello and capabilities), then the token again.
Hello(a) ==
    /\ pc[a] = "hello"
    /\ \/ /\ a \notin cancelled
          /\ Goto(a, "logs")
          /\ UNCHANGED <<holds, after>>
       \/ TearDown(a, a, "finishErr")
    /\ UNCHANGED <<phase, session, took, cancelVars, taskVars, logVars, ui>>

\* subscribe_log_stream of bridge_state: does the attempt still own the phase?
LogPhaseCheck(a) ==
    /\ pc[a] = "logs"
    /\ IF OwnsPhase(a)
       THEN Goto(a, "subscribe") /\ UNCHANGED <<holds, after>>
       ELSE TearDown(a, a, "finishErr")
    /\ UNCHANGED <<phase, session, took, cancelVars, taskVars, logVars, ui>>

\* subscribe_log_stream of log_buffer, before the request: a status is only
\* written for the active generation, and without log.stream that is all.
SubscribeStart(a) ==
    /\ pc[a] = "subscribe"
    /\ \/ /\ log = a
          /\ sub' = [sub EXCEPT ![a] = "unavailable"]
          /\ Goto(a, "finishOk")
          /\ UNCHANGED <<holds, after>>
       \/ /\ log = a
          /\ sub' = [sub EXCEPT ![a] = "pending"]
          /\ Goto(a, "ack")
          /\ UNCHANGED <<holds, after>>
       \/ /\ log # a
          /\ TearDown(a, a, "finishErr")
          /\ UNCHANGED sub
    /\ UNCHANGED <<phase, session, took, cancelVars, taskVars, log, ui>>

\* Its answer, error or timeout; a cancelled or retired attempt gives up.
SubscribeAck(a) ==
    /\ pc[a] = "ack"
    /\ IF a \notin cancelled /\ log = a
       THEN /\ \E answer \in {"subscribed", "unavailable"} : sub' = [sub EXCEPT ![a] = answer]
            /\ Goto(a, "finishOk")
            /\ UNCHANGED <<holds, after>>
       ELSE TearDown(a, a, "finishErr") /\ UNCHANGED sub
    /\ UNCHANGED <<phase, session, took, cancelVars, taskVars, log, ui>>

\* finish_attempt, before the lock is taken again.
FinishAttempt(a) ==
    /\ pc[a] \in {"finishOk", "finishErr"}
    /\ slot' = IF slot = a THEN NoGen ELSE slot
    /\ Goto(a, IF pc[a] = "finishOk" THEN "commit" ELSE "reset")
    /\ UNCHANGED <<phase, session, after, holds, took, cancelled, taskVars, logVars, ui>>

\* Mutant: the connection is stored without comparing the token.
CommitUnchecked(a) ==
    /\ pc[a] = "commit"
    /\ phase' = Connected(a)
    /\ session' = a
    /\ ui' = a
    /\ holds' = [holds EXCEPT ![a] = NoGen]
    /\ Goto(a, "returned")
    /\ UNCHANGED <<after, took, cancelVars, taskVars, logVars>>

\* Mutant: an overtaken connection is dropped, its relay neither aborted nor joined.
CommitLeaks(a) ==
    /\ pc[a] = "commit"
    /\ IF phase = Connecting(a)
       THEN phase' = Connected(a) /\ session' = a /\ ui' = a
       ELSE UNCHANGED <<phase, session, ui>>
    /\ holds' = [holds EXCEPT ![a] = NoGen]
    /\ Goto(a, "returned")
    /\ UNCHANGED <<after, took, cancelVars, taskVars, logVars>>

\* try_commit_connection with its callback, or the tear-down of a connection
\* whose attempt was overtaken.
Commit(a) ==
    /\ pc[a] = "commit"
    /\ IF phase = Connecting(a)
       THEN /\ phase' = Connected(a)
            /\ session' = a
            /\ ui' = a
            /\ holds' = [holds EXCEPT ![a] = NoGen]
            /\ Goto(a, "returned")
            /\ UNCHANGED after
       ELSE TearDown(a, a, "returned") /\ UNCHANGED <<phase, session, ui>>
    /\ UNCHANGED <<took, cancelVars, taskVars, logVars>>

\* reset_connecting_if_matches, then the error is returned.
Reset(a) ==
    /\ pc[a] = "reset"
    /\ IF phase = Connecting(a)
       THEN /\ phase' = Disconnected
            /\ session' = NoGen
            /\ EndLogGeneration(a)
       ELSE UNCHANGED <<phase, session, logVars>>
    /\ ReturnError(a)
    /\ UNCHANGED <<after, holds, took, cancelVars, taskVars>>

-----------------------------------------------------------------------------
(* Disconnect.                                                             *)

\* The locked part of bridge_disconnect, disconnect_quietly and shutdown_on_exit.
DisconnectTake(d) ==
    /\ pc[d] = "idle"
    /\ took' = [took EXCEPT ![d] = phase.gen]
    /\ holds' = [holds EXCEPT ![d] = IF phase.kind = "connected" THEN phase.gen ELSE NoGen]
    /\ phase' = Disconnected
    /\ session' = NoGen
    /\ Goto(d, "retire")
    /\ UNCHANGED <<after, cancelVars, taskVars, logVars, ui>>

\* cancel_attempt and end_log_generation, after the lock was released.
DisconnectRetire(d) ==
    /\ pc[d] = "retire"
    /\ IF took[d] # NoGen
       THEN CancelAttempt(took[d]) /\ EndLogGeneration(took[d])
       ELSE UNCHANGED <<cancelVars, logVars>>
    /\ IF holds[d] # NoGen
       THEN TearDown(d, holds[d], "emit")
       ELSE Goto(d, "emit") /\ UNCHANGED <<holds, after>>
    /\ UNCHANGED <<phase, session, took, taskVars, ui>>

\* The disconnected connection-state, from the command itself or from
\* stop_engine; an exiting application shows nothing any more.
DisconnectEmit(d) ==
    /\ pc[d] = "emit"
    /\ ui' = NoGen
    /\ Goto(d, "returned")
    /\ UNCHANGED <<phase, session, after, holds, took, cancelVars, taskVars, logVars>>

-----------------------------------------------------------------------------
(* Tearing a connection down.                                              *)

\* Mutant: the relay is left alone.
AbortNothing(c) ==
    /\ pc[c] = "abort"
    /\ Goto(c, "stop")
    /\ UNCHANGED <<phase, session, after, holds, took, cancelVars, taskVars, logVars, ui>>

AbortRelay(c) ==
    /\ pc[c] = "abort"
    /\ relay' = [relay EXCEPT ![holds[c]] = IF @ = "running" THEN "aborting" ELSE @]
    /\ Goto(c, "stop")
    /\ UNCHANGED <<phase, session, after, holds, took, cancelVars, dispatcher, logVars, ui>>

\* Unsubscribe and shutdown().  tear_down waits for at most
\* DISPATCHER_SHUTDOWN_GRACE, tear_down_partial as long as it takes.
StopDispatcher(c) ==
    /\ pc[c] = "stop"
    /\ \/ dispatcher[holds[c]] = "ended"
       \/ after[c] # "finishErr"
    /\ Goto(c, "join")
    /\ UNCHANGED <<phase, session, after, holds, took, cancelVars, taskVars, logVars, ui>>

\* The relay has ended and the handle is dropped.
JoinRelay(c) ==
    /\ pc[c] = "join"
    /\ relay[holds[c]] = "ended"
    /\ holds' = [holds EXCEPT ![c] = NoGen]
    /\ IF after[c] = "returned" THEN ReturnError(c) ELSE Goto(c, after[c]) /\ UNCHANGED ui
    /\ UNCHANGED <<phase, session, after, took, cancelVars, taskVars, logVars>>

-----------------------------------------------------------------------------
(* The tasks of a connection.                                              *)

\* Someone holds a DispatchHandle of g: with it a sender of the broadcast.
HandleHeld(g) == phase = Connected(g) \/ session = g \/ \E c \in Calls : holds[c] = g

\* The dispatcher ends when a shutdown() asks it to or its last handle is gone.
DispatcherStops(g) ==
    /\ dispatcher[g] = "running"
    /\ ~HandleHeld(g) \/ \E c \in Calls : pc[c] = "stop" /\ holds[c] = g
    /\ dispatcher' = [dispatcher EXCEPT ![g] = "ended"]
    /\ UNCHANGED <<phase, session, callVars, cancelVars, relay, logVars, ui>>

\* The peer closes or the transport fails.
PeerCloses(g) ==
    /\ dispatcher[g] = "running"
    /\ dispatcher' = [dispatcher EXCEPT ![g] = "ended"]
    /\ UNCHANGED <<phase, session, callVars, cancelVars, relay, logVars, ui>>

\* An aborted relay ends at its next await.
RelayAborted(g) ==
    /\ relay[g] = "aborting"
    /\ relay' = [relay EXCEPT ![g] = "ended"]
    /\ UNCHANGED <<phase, session, callVars, cancelVars, dispatcher, logVars, ui>>

\* The relay's recv() fails with Closed: the task's sender and the one inside
\* every handle are gone.  RelayOwned says that a running relay never sees it,
\* so its Closed arm, which would reset the phase, is no action here.
BroadcastClosed(g) == dispatcher[g] = "ended" /\ ~HandleHeld(g)

AttemptStep(a) ==
    \/ Dial(a) \/ Hello(a) \/ LogPhaseCheck(a) \/ SubscribeStart(a) \/ SubscribeAck(a)
    \/ FinishAttempt(a) \/ Commit(a) \/ Reset(a)

TearDownStep(c) == AbortRelay(c) \/ StopDispatcher(c) \/ JoinRelay(c)

Begin(a) == ConnectBegin(a) \/ ReconnectBegin(a) \/ BeginRefused(a)

Next ==
    \/ \E a \in Attempts : Begin(a) \/ AttemptStep(a)
    \/ \E d \in Disconnects : DisconnectTake(d) \/ DisconnectRetire(d) \/ DisconnectEmit(d)
    \/ \E c \in Calls : TearDownStep(c)
    \/ \E g \in Attempts : DispatcherStops(g) \/ PeerCloses(g) \/ RelayAborted(g)

Spec == Init /\ [][Next]_vars

\* Every call that is not waiting goes on, timeouts end the requests it waits
\* for, an aborted task ends, and a dispatcher obeys a shutdown.
Fairness ==
    /\ \A a \in Attempts : WF_vars(AttemptStep(a))
    /\ \A d \in Disconnects : WF_vars(DisconnectRetire(d) \/ DisconnectEmit(d))
    /\ \A c \in Calls : WF_vars(TearDownStep(c))
    /\ \A g \in Attempts : WF_vars(DispatcherStops(g)) /\ WF_vars(RelayAborted(g))

FairSpec == Spec /\ Fairness

-----------------------------------------------------------------------------
(* Properties.                                                             *)

\* What the other services see is the generation of the live connection and
\* nothing else: publish_session follows every change of the phase.
SessionIsPhase == session = IF phase.kind = "connected" THEN phase.gen ELSE NoGen

\* A connection that a disconnect or a reconnect took out never comes back: no
\* late attempt commits or publishes it again.
TakenStaysTaken ==
    \A c \in Calls : took[c] # NoGen => phase.gen # took[c] /\ session # took[c]

\* The attempt that owns the phase is not cancelled by the late clean-up of an
\* earlier one (cancel_attempt runs after the lock is released).
OwnerNotCancelled == phase.kind = "connecting" => phase.gen \notin cancelled

\* The live connection's log generation is the active one: the late
\* end_log_generation of an earlier connection leaves it alone.
ConnectedHasLog == phase.kind # "disconnected" => log = phase.gen

\* A log generation stays active only while its attempt owns the phase or the
\* disconnect that took it has still to end it.
LogOwned ==
    log # NoGen => \/ OwnsPhase(log)
                   \/ \E d \in Disconnects : pc[d] = "retire" /\ took[d] = log

\* A running relay has exactly one owner that will abort and join it: the phase
\* or one call.  So none is leaked and none is torn down twice.  The owner's
\* handle keeps the broadcast open: no relay ends on its own.
RelayOwned ==
    \A g \in Attempts : relay[g] = "running" =>
        /\ Cardinality({c \in Calls : holds[c] = g}) + (IF phase = Connected(g) THEN 1 ELSE 0) = 1
        /\ ~BroadcastClosed(g)

\* bridge_reconnect: "No double relay".  The new connection's relay starts
\* only after the one it replaces has ended.
NoDoubleRelay ==
    \A a \in Attempts : took[a] # NoGen /\ relay[a] # "none" => relay[took[a]] = "ended"

\* The screen shows a generation as connected only while it is, or while the
\* call that ended it has still to report.
ShownIsLive ==
    ui # NoGen => \/ phase = Connected(ui)
                  \/ \E c \in Calls : took[c] = ui /\ pc[c] # "returned"

\* What the services and the screen see of a connection is true: the session
\* they are given is the live connection, one that was taken out never comes
\* back, and the screen does not go on showing it (publish_session, commit).
SeenIsLive == TypeOK /\ SessionIsPhase /\ TakenStaysTaken /\ ShownIsLive

\* The clean-up a disconnect does after it released the phase (cancel_attempt,
\* end_log_generation) leaves alone a newer attempt that owns the phase by then.
LateCleanUpIsHarmless == OwnerNotCancelled /\ ConnectedHasLog

\* Whatever an attempt has built has one owner that ends it: relays and log
\* generations are neither leaked nor ended twice, and a reconnect's relay never
\* runs beside the one it replaces.
OneOwner == RelayOwned /\ LogOwned /\ NoDoubleRelay

\* Every connect, reconnect and disconnect call returns.
CallReturns == \A c \in Calls : pc[c] # "idle" ~> pc[c] = "returned"

=============================================================================
