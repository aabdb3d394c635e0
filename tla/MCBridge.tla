----------------------------- MODULE MCBridge -----------------------------
(* The two layers of a connection under fairness, for TLC: the session that   *)
(* opens and closes connections, and the dispatcher of one connection.  The   *)
(* models share no state, so a behaviour is one of either layer, chosen at    *)
(* the start, while the other rests in its initial state, where nothing fair  *)
(* is enabled.                                                                *)
EXTENDS BridgeSession, TLC

CONSTANTS Requests, Ids, IdOf, Capacity, OverlapIds, NoWaiter, r1, r2, x

VARIABLES
    call, reply, answers, commands, pending, task, writing, engine, inbound,
    unsent, shutdown, handles,
    layer

D == INSTANCE DispatcherContract

dispatcherVars == <<call, reply, answers, commands, pending, task, writing, engine,
                    inbound, unsent, shutdown, handles>>

\* Both requests carry one id.
SharedIds == (r1 :> x) @@ (r2 :> x)

BridgeInit == layer \in {"session", "dispatcher"} /\ Init /\ D!Init

BridgeNext ==
    /\ \/ layer = "session" /\ Next /\ UNCHANGED dispatcherVars
       \/ layer = "dispatcher" /\ D!Next /\ UNCHANGED vars
    /\ UNCHANGED layer

BridgeSpec ==
    /\ BridgeInit /\ [][BridgeNext]_<<vars, dispatcherVars, layer>>
    /\ Fairness /\ D!Fairness

\* The dispatcher implements RequestContract: one outcome for each call, in
\* time, each with its cause, and no answer handed out twice.
Contract == D!Contract
=============================================================================
