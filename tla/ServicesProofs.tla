--------------------------- MODULE ServicesProofs ---------------------------
(***************************************************************************)
(* Proofs about the connection lifecycle, for every number of connect,     *)
(* reconnect and disconnect calls that race over the phase; about the      *)
(* tasks beside it: the engine process, the shared thumbnails, the image   *)
(* worker and the retrying of a connection, for every number of launches,  *)
(* callers, fetches, workers and dials; and about what one lock            *)
(* serializes: the tool catalogue, for every set of capabilities an engine *)
(* may offer and all tools, and the record of operations, for all sizes of *)
(* the list and the files.                                                 *)
(***************************************************************************)
EXTENDS BridgeSession, EngineProcess, Thumbnails, ImageWorker, Reconnect, ToolCatalog,
        Operations, FiniteSetTheorems, TLAPS

-----------------------------------------------------------------------------
(* BridgeSession.                                                          *)

Tearing(c) == pc[c] \in {"abort", "stop", "join"}
Replacing(a) == Tearing(a) /\ after[a] = "dial"

\* Nobody knows the generation of an attempt that has not begun, and a call that
\* has not begun took nothing.
NotBegun ==
    /\ \A a \in Attempts : pc[a] = "idle" =>
          /\ phase.gen # a /\ a \notin cancelled
          /\ \A c \in Calls : took[c] # a /\ holds[c] # a
    /\ \A c \in Calls : pc[c] = "idle" => took[c] = NoGen

\* What a call owns at each point: an attempt the connection it builds, from the
\* dial to the commit, and a reconnect at first the one it replaces; a disconnect
\* the one it took.
HoldsFit ==
    /\ \A c \in Calls : Tearing(c) => holds[c] # NoGen
    /\ \A a \in Attempts :
          /\ pc[a] \notin {"retire", "emit"}
          /\ Tearing(a) => /\ after[a] # "emit"
                           /\ holds[a] = IF after[a] = "dial" THEN took[a] ELSE a
          /\ pc[a] \in {"hello", "logs", "subscribe", "ack", "finishOk", "commit"} => holds[a] = a
          /\ pc[a] \in {"idle", "dial", "finishErr", "reset", "returned"} => holds[a] = NoGen
    /\ \A d \in Disconnects :
          /\ pc[d] \in {"idle", "retire", "abort", "stop", "join", "emit", "returned"}
          /\ Tearing(d) => after[d] = "emit" /\ holds[d] = took[d]
          /\ pc[d] = "retire" => holds[d] \in {NoGen, took[d]}
          /\ pc[d] \in {"idle", "emit", "returned"} => holds[d] = NoGen

\* The attempt in the phase is still at work, and one that has committed is over.
PhaseFits ==
    /\ phase.kind = "connecting" =>
          /\ pc[phase.gen] \notin {"idle", "returned"}
          /\ Tearing(phase.gen) => after[phase.gen] \in {"dial", "finishErr"}
    /\ phase.kind = "connected" => pc[phase.gen] = "returned"

\* A connection has one owner at most: the phase or one call, and a call that is
\* not its attempt only when the attempt is over.
SoleHolder ==
    /\ \A c, e \in Calls : holds[c] # NoGen /\ holds[c] = holds[e] => c = e
    /\ \A c \in Calls : holds[c] # NoGen => phase # Connected(holds[c])
    /\ \A c \in Calls, a \in Attempts : holds[c] = a /\ c # a => pc[a] = "returned"

\* A running relay has an owner.
RelayHeld ==
    \A g \in Attempts : relay[g] = "running" => phase = Connected(g) \/ \E c \in Calls : holds[c] = g

\* A relay starts with the dial, and an attempt that replaces a connection dials
\* when the relay of the old one has ended.
RelayFits ==
    \A a \in Attempts :
        /\ relay[a] # "none" => pc[a] \notin {"idle", "dial"} /\ ~Replacing(a)
        /\ took[a] # NoGen => /\ pc[took[a]] = "returned"
                              /\ Replacing(a) \/ relay[took[a]] = "ended"

SessionInv ==
    /\ TypeOK
    /\ NotBegun /\ HoldsFit /\ PhaseFits /\ SoleHolder /\ RelayHeld /\ RelayFits
    /\ SessionIsPhase /\ TakenStaysTaken /\ ShownIsLive
    /\ OwnerNotCancelled /\ ConnectedHasLog
    /\ LogOwned

-----------------------------------------------------------------------------
(* Every step keeps the invariant.                                         *)

\* SessionInv holds at the start, and every step of a connect, a reconnect, a
\* disconnect, a tear-down or a connection's task keeps it.
THEOREM SessionInvariance == Spec => []SessionInv
<1> USE SessionAssumption DEF Calls, MaybeGen, PCs, Disconnected, Connecting, Connected,
        callVars, cancelVars, taskVars, logVars
<1> USE DEF SessionInv, TypeOK, NotBegun, HoldsFit, PhaseFits, SoleHolder, RelayHeld, RelayFits,
        SessionIsPhase, TakenStaysTaken, ShownIsLive, OwnerNotCancelled, ConnectedHasLog, LogOwned,
        Tearing, Replacing, OwnsPhase, Goto
<1>1. Init => SessionInv
  BY DEF Init
<1>2. SessionInv /\ [Next]_vars => SessionInv'
  <2> SUFFICES ASSUME SessionInv, [Next]_vars PROVE SessionInv'
    OBVIOUS
  <2>1. ASSUME NEW a \in Attempts, ConnectBegin(a) PROVE SessionInv'
    BY <2>1 DEF ConnectBegin
  <2>2. ASSUME NEW a \in Attempts, ReconnectBegin(a) PROVE SessionInv'
    BY <2>2 DEF ReconnectBegin, TearDown
  <2>3. ASSUME NEW a \in Attempts, BeginRefused(a) PROVE SessionInv'
    BY <2>3 DEF BeginRefused, ReturnError
  <2>4. ASSUME NEW a \in Attempts, Dial(a) PROVE SessionInv'
    <3>1. TypeOK'
      <4>1. CASE Goto(a, "finishErr") /\ UNCHANGED <<holds, taskVars>>
        BY <2>4, <4>1 DEF Dial
      <4>2. CASE /\ dispatcher' = [dispatcher EXCEPT ![a] = "running"]
                 /\ relay' = [relay EXCEPT ![a] = "running"]
                 /\ holds' = [holds EXCEPT ![a] = a]
                 /\ Goto(a, "hello")
        <5>1. dispatcher' \in [Attempts -> {"none", "running", "ended"}]
          BY <4>2
        <5>2. relay' \in [Attempts -> {"none", "running", "aborting", "ended"}]
          BY <4>2
        <5>3. holds' \in [Calls -> MaybeGen] /\ pc' \in [Calls -> PCs]
          BY <4>2
        <5> QED
          BY <2>4, <5>1, <5>2, <5>3 DEF Dial
      <4> QED
        BY <2>4, <4>1, <4>2 DEF Dial
    <3>2. NotBegun'
      BY <2>4 DEF Dial
    <3>3. HoldsFit'
      BY <2>4 DEF Dial
    <3>4. PhaseFits'
      BY <2>4 DEF Dial
    <3>5. SoleHolder'
      BY SMTT(30), <2>4 DEF Dial
    <3>6. RelayHeld'
      BY <2>4 DEF Dial
    <3>7. RelayFits'
      BY <2>4 DEF Dial
    <3>8. SessionIsPhase'
      BY <2>4 DEF Dial
    <3>9. TakenStaysTaken'
      BY <2>4 DEF Dial
    <3>10. ShownIsLive'
      BY <2>4 DEF Dial
    <3>11. OwnerNotCancelled'
      BY <2>4 DEF Dial
    <3>12. ConnectedHasLog'
      BY <2>4 DEF Dial
    <3>13. LogOwned'
      BY <2>4 DEF Dial
    <3> QED
      BY <3>1, <3>2, <3>3, <3>4, <3>5, <3>6, <3>7, <3>8, <3>9, <3>10, <3>11, <3>12, <3>13
  <2>5. ASSUME NEW a \in Attempts, Hello(a) PROVE SessionInv'
    BY <2>5 DEF Hello, TearDown
  <2>6. ASSUME NEW a \in Attempts, LogPhaseCheck(a) PROVE SessionInv'
    BY SMTT(30), <2>6 DEF LogPhaseCheck, TearDown, OwnsPhase
  <2>7. ASSUME NEW a \in Attempts, SubscribeStart(a) PROVE SessionInv'
    <3>1. TypeOK'
      BY SMTT(30), <2>7 DEF SubscribeStart, TearDown
    <3>2. NotBegun'
      BY <2>7 DEF SubscribeStart, TearDown
    <3>3. HoldsFit'
      BY <2>7 DEF SubscribeStart, TearDown
    <3>4. PhaseFits'
      BY <2>7 DEF SubscribeStart, TearDown
    <3>5. SoleHolder'
      BY <2>7 DEF SubscribeStart, TearDown
    <3>6. RelayHeld'
      BY <2>7 DEF SubscribeStart, TearDown
    <3>7. RelayFits'
      BY <2>7 DEF SubscribeStart, TearDown
    <3>8. SessionIsPhase'
      BY <2>7 DEF SubscribeStart, TearDown
    <3>9. TakenStaysTaken'
      BY <2>7 DEF SubscribeStart, TearDown
    <3>10. ShownIsLive'
      BY <2>7 DEF SubscribeStart, TearDown
    <3>11. OwnerNotCancelled'
      BY <2>7 DEF SubscribeStart, TearDown
    <3>12. ConnectedHasLog'
      BY <2>7 DEF SubscribeStart, TearDown
    <3>13. LogOwned'
      BY <2>7 DEF SubscribeStart, TearDown
    <3> QED
      BY <3>1, <3>2, <3>3, <3>4, <3>5, <3>6, <3>7, <3>8, <3>9, <3>10, <3>11, <3>12, <3>13
  <2>8. ASSUME NEW a \in Attempts, SubscribeAck(a) PROVE SessionInv'
    BY <2>8 DEF SubscribeAck, TearDown
  <2>9. ASSUME NEW a \in Attempts, FinishAttempt(a) PROVE SessionInv'
    BY <2>9 DEF FinishAttempt
  <2>10. ASSUME NEW a \in Attempts, Commit(a) PROVE SessionInv'
    <3>1. TypeOK'
      <4>1. CASE phase = Connecting(a)
        BY <2>10, <4>1 DEF Commit, TearDown
      <4>2. CASE ~(phase = Connecting(a))
        <5>1. /\ phase' \in [kind : {"connecting", "connected"}, gen : Attempts] \cup {Disconnected}
              /\ session' \in MaybeGen /\ ui' \in MaybeGen
          BY <2>10, <4>2 DEF Commit
        <5>2. holds' \in [Calls -> MaybeGen]
          BY <2>10, <4>2 DEF Commit, TearDown
        <5>3. pc' \in [Calls -> PCs] /\ after' \in [Calls -> {"dial", "finishErr", "returned", "emit"}]
          BY <2>10, <4>2 DEF Commit, TearDown
        <5> QED
          BY <2>10, <5>1, <5>2, <5>3 DEF Commit
      <4> QED
        BY <4>1, <4>2
    <3>2. NotBegun'
      BY <2>10 DEF Commit, TearDown
    <3>3. HoldsFit'
      BY <2>10 DEF Commit, TearDown
    <3>4. PhaseFits'
      BY <2>10 DEF Commit, TearDown
    <3>5. SoleHolder'
      BY <2>10 DEF Commit, TearDown
    <3>6. RelayHeld'
      BY <2>10 DEF Commit, TearDown
    <3>7. RelayFits'
      BY <2>10 DEF Commit, TearDown
    <3>8. SessionIsPhase'
      BY <2>10 DEF Commit, TearDown
    <3>9. TakenStaysTaken'
      BY <2>10 DEF Commit, TearDown
    <3>10. ShownIsLive'
      BY <2>10 DEF Commit, TearDown
    <3>11. OwnerNotCancelled'
      BY <2>10 DEF Commit, TearDown
    <3>12. ConnectedHasLog'
      BY <2>10 DEF Commit, TearDown
    <3>13. LogOwned'
      BY <2>10 DEF Commit, TearDown
    <3> QED
      BY <3>1, <3>2, <3>3, <3>4, <3>5, <3>6, <3>7, <3>8, <3>9, <3>10, <3>11, <3>12, <3>13
  <2>11. ASSUME NEW a \in Attempts, Reset(a) PROVE SessionInv'
    BY <2>11 DEF Reset, EndLogGeneration, ReturnError
  <2>12. ASSUME NEW d \in Disconnects, DisconnectTake(d) PROVE SessionInv'
    BY <2>12 DEF DisconnectTake
  <2>13. ASSUME NEW d \in Disconnects, DisconnectRetire(d) PROVE SessionInv'
    <3>1. TypeOK'
      BY SMTT(30), <2>13 DEF DisconnectRetire, TearDown, CancelAttempt, EndLogGeneration
    <3>2. NotBegun'
      BY <2>13 DEF DisconnectRetire, TearDown, CancelAttempt, EndLogGeneration
    <3>3. HoldsFit'
      BY <2>13 DEF DisconnectRetire, TearDown, CancelAttempt, EndLogGeneration
    <3>4. PhaseFits'
      BY <2>13 DEF DisconnectRetire, TearDown, CancelAttempt, EndLogGeneration
    <3>5. SoleHolder'
      BY <2>13 DEF DisconnectRetire, TearDown, CancelAttempt, EndLogGeneration
    <3>6. RelayHeld'
      BY <2>13 DEF DisconnectRetire, TearDown, CancelAttempt, EndLogGeneration
    <3>7. RelayFits'
      BY <2>13 DEF DisconnectRetire, TearDown, CancelAttempt, EndLogGeneration
    <3>8. SessionIsPhase'
      BY <2>13 DEF DisconnectRetire, TearDown, CancelAttempt, EndLogGeneration
    <3>9. TakenStaysTaken'
      BY <2>13 DEF DisconnectRetire, TearDown, CancelAttempt, EndLogGeneration
    <3>10. ShownIsLive'
      BY <2>13 DEF DisconnectRetire, TearDown, CancelAttempt, EndLogGeneration
    <3>11. OwnerNotCancelled'
      BY <2>13 DEF DisconnectRetire, TearDown, CancelAttempt, EndLogGeneration
    <3>12. ConnectedHasLog'
      BY <2>13 DEF DisconnectRetire, TearDown, CancelAttempt, EndLogGeneration
    <3>13. LogOwned'
      BY <2>13 DEF DisconnectRetire, TearDown, CancelAttempt, EndLogGeneration
    <3> QED
      BY <3>1, <3>2, <3>3, <3>4, <3>5, <3>6, <3>7, <3>8, <3>9, <3>10, <3>11, <3>12, <3>13
  <2>14. ASSUME NEW d \in Disconnects, DisconnectEmit(d) PROVE SessionInv'
    BY <2>14 DEF DisconnectEmit
  <2>15. ASSUME NEW c \in Calls, AbortRelay(c) PROVE SessionInv'
    BY <2>15 DEF AbortRelay
  <2>16. ASSUME NEW c \in Calls, StopDispatcher(c) PROVE SessionInv'
    BY <2>16 DEF StopDispatcher
  <2>17. ASSUME NEW c \in Calls, JoinRelay(c) PROVE SessionInv'
    BY <2>17 DEF JoinRelay, ReturnError
  <2>18. ASSUME NEW g \in Attempts, DispatcherStops(g) PROVE SessionInv'
    BY <2>18 DEF DispatcherStops
  <2>19. ASSUME NEW g \in Attempts, PeerCloses(g) PROVE SessionInv'
    BY <2>19 DEF PeerCloses
  <2>20. ASSUME NEW g \in Attempts, RelayAborted(g) PROVE SessionInv'
    BY <2>20 DEF RelayAborted
  <2>21. CASE UNCHANGED vars
    BY <2>21 DEF vars
  <2> QED
    BY <2>1, <2>2, <2>3, <2>4, <2>5, <2>6, <2>7, <2>8, <2>9, <2>10, <2>11, <2>12, <2>13, <2>14, <2>15, <2>16, <2>17, <2>18, <2>19, <2>20, <2>21
    DEF Next, Begin, AttemptStep, TearDownStep
<1> QED
  BY <1>1, <1>2, PTL DEF Spec

\* For every number of racing calls, what the services and the screen see of a
\* connection is the live one, and one that was taken out never comes back.
THEOREM SeenLive == Spec => []SeenIsLive
<1>1. SessionInv => SeenIsLive
  BY DEF SessionInv, SeenIsLive
<1> QED
  BY <1>1, SessionInvariance, PTL

\* For every number of racing calls, the clean-up a disconnect does late leaves
\* alone the attempt that owns the phase by then.
THEOREM LateCleanUp == Spec => []LateCleanUpIsHarmless
<1>1. SessionInv => LateCleanUpIsHarmless
  BY DEF SessionInv, LateCleanUpIsHarmless
<1> QED
  BY <1>1, SessionInvariance, PTL

\* At most one call holds a connection, so the holders can be counted.
LEMMA HoldersCounted ==
    ASSUME SoleHolder, NEW g \in Attempts, SessionAssumption
    PROVE  Cardinality({c \in Calls : holds[c] = g}) = IF \E c \in Calls : holds[c] = g THEN 1 ELSE 0
<1>1. CASE \E c \in Calls : holds[c] = g
  <2>1. PICK c \in Calls : holds[c] = g
    BY <1>1
  <2>2. {e \in Calls : holds[e] = g} = {c}
    BY <2>1 DEF SoleHolder, SessionAssumption
  <2> QED
    BY <1>1, <2>2, FS_Singleton
<1>2. CASE ~\E c \in Calls : holds[c] = g
  <2>1. {c \in Calls : holds[c] = g} = {}
    BY <1>2
  <2> QED
    BY <1>2, <2>1, FS_EmptySet
<1> QED
  BY <1>1, <1>2

\* For every number of racing calls, a relay and a log generation have one owner,
\* and a reconnect's relay never runs beside the one it replaces.
THEOREM OwnedOnce == Spec => []OneOwner
<1>1. SessionInv => OneOwner
  <2> SUFFICES ASSUME SessionInv PROVE OneOwner
    OBVIOUS
  <2>1. RelayOwned
    <3> SUFFICES ASSUME NEW g \in Attempts, relay[g] = "running"
                 PROVE  /\ Cardinality({c \in Calls : holds[c] = g})
                             + (IF phase = Connected(g) THEN 1 ELSE 0) = 1
                        /\ ~BroadcastClosed(g)
      BY DEF RelayOwned
    <3>1. phase = Connected(g) \/ \E c \in Calls : holds[c] = g
      BY DEF SessionInv, RelayHeld
    <3>2. phase = Connected(g) => ~\E c \in Calls : holds[c] = g
      BY SessionAssumption DEF SessionInv, SoleHolder
    <3>3. Cardinality({c \in Calls : holds[c] = g}) = IF \E c \in Calls : holds[c] = g THEN 1 ELSE 0
      BY HoldersCounted, SessionAssumption DEF SessionInv
    <3>4. ~BroadcastClosed(g)
      BY <3>1 DEF BroadcastClosed, HandleHeld
    <3> HIDE DEF Connected
    <3> QED
      BY <3>1, <3>2, <3>3, <3>4
  <2>2. NoDoubleRelay
    BY DEF SessionInv, RelayFits, NoDoubleRelay
  <2> QED
    BY <2>1, <2>2 DEF OneOwner, SessionInv
<1> QED
  BY <1>1, SessionInvariance, PTL

-----------------------------------------------------------------------------
(* EngineProcess.                                                          *)

\* Where a call of launch_engine is before its handle can be in the holder, and
\* after it was stored.
Unstored == {"idle", "checked", "spawned", "ready", "watched"}
Stored == {"stored", "connecting", "rollback", "ok", "failed"}

EpTypeOK ==
    /\ epLaunch \in [Launches -> Unstored \cup Stored]
    /\ epChild \in [Launches -> {"none", "alive", "dead"}]
    /\ epMonitor \in [Launches -> {"none", "waiting", "reaped", "failed", "done", "lost"}]
    /\ epKill \in [Launches -> {"none", "sent", "dropped"}]
    /\ epHolder \in Launches \cup {NoLaunch}
    /\ epStop \in [Launches -> {"none", "taken", "disconnected"}]
    /\ epExit \in [at : {"idle", "joining", "done", "hooked", "gone"}, handle : Launches \cup {NoLaunch}]
    /\ epExited \in [Launches -> Nat] /\ epStopped \in [Launches -> Nat]

\* A child and its monitor exist from their step of the launch on, and a monitor
\* that has reaped or dropped its child leaves it dead.
ChildFollowsLaunch ==
    \A l \in Launches :
        /\ epLaunch[l] \in {"idle", "checked"} => epChild[l] = "none"
        /\ epLaunch[l] \in Unstored \ {"watched"} => epMonitor[l] = "none"
        /\ epLaunch[l] = "failed" /\ epMonitor[l] = "none" => epChild[l] # "alive"
        /\ epLaunch[l] \in {"watched", "stored", "connecting", "rollback", "ok"} => epMonitor[l] # "none"
        /\ epMonitor[l] \in {"reaped", "done", "lost"} => epChild[l] # "alive"

\* A handle is in one place: in the holder, with a stop or with the exit, and in
\* none of them before it was stored.
HandleInOnePlace ==
    \A l \in Launches :
        /\ epHolder = l => epStop[l] = "none" /\ epExit.handle # l
        /\ epStop[l] # "none" => epExit.handle # l
        /\ epHolder = l \/ epStop[l] # "none" \/ epExit.handle = l => epLaunch[l] \in Stored
        /\ epExited[l] + epStopped[l] # 0 => epLaunch[l] \in Stored

\* What the screen was told is final: the handle has left the holder, and one
\* that a stop took will not be reported by the monitor.
ToldIsFinal ==
    \A l \in Launches :
        epExited[l] + epStopped[l] # 0 => epHolder # l /\ epStop[l] = "none"

\* The exit holds a handle while it joins; nothing runs that it has joined.
ExitHasHandle ==
    /\ epExit.at = "idle" => epExit.handle = NoLaunch
    /\ epExit.at = "joining" => epExit.handle \in Launches /\ epKill[epExit.handle] # "none"
    /\ epExit.at \in {"done", "hooked", "gone"} /\ epExit.handle \in Launches =>
          epChild[epExit.handle] # "alive"

\* A launch that stored its handle, before any exit: the handle is held or with a
\* stop, or it was dropped, or the engine's end was told, or its monitor could not
\* wait for it, or the launch has rolled back.
StoredIsKept ==
    \A l \in Launches :
        epLaunch[l] \in {"stored", "connecting", "ok"} /\ epExit.at = "idle" =>
            \/ epHolder = l \/ epStop[l] # "none" \/ epKill[l] = "dropped"
            \/ epExited[l] + epStopped[l] = 1 \/ epMonitor[l] = "lost"

\* What EngineIsOwned rests on, and itself.
EngineInv ==
    /\ EpTypeOK
    /\ ChildFollowsLaunch /\ HandleInOnePlace /\ ToldIsFinal /\ ExitHasHandle /\ StoredIsKept
    /\ EngineIsOwned

\* EngineInv holds at the start and every step of a launch, a monitor, a stop or
\* the exit keeps it.
THEOREM EngineInvariance == EpSpec => []EngineInv
<1> USE ProcessAssumption DEF Unstored, Stored
<1>1. EpInit => EngineInv
  BY DEF EpInit, EngineInv, EngineIsOwned, EpTypeOK, ChildFollowsLaunch, HandleInOnePlace, ToldIsFinal, ExitHasHandle, StoredIsKept, OneExitSignal, NoStrayEngine, ExitLeavesNone, HeldIsWatched,
         Settled, Owned, Alive, Open
<1>2. EngineInv /\ [EpNext]_epVars => EngineInv'
  <2> SUFFICES ASSUME EngineInv, [EpNext]_epVars PROVE EngineInv'
    OBVIOUS
  <2> USE DEF EngineInv, EngineIsOwned, EpTypeOK, ChildFollowsLaunch, HandleInOnePlace, ToldIsFinal, ExitHasHandle, StoredIsKept, OneExitSignal, NoStrayEngine, ExitLeavesNone, HeldIsWatched,
         Settled, Owned, Alive, Open, GoTo, epTold
  <2>1. ASSUME NEW l \in Launches, Open, LaunchCheck(l) PROVE EngineInv'
    BY <2>1 DEF LaunchCheck
  <2>2. ASSUME NEW l \in Launches, Open, LaunchSpawn(l) PROVE EngineInv'
    <3>1. EpTypeOK'
      BY <2>2 DEF LaunchSpawn
    <3>2. ChildFollowsLaunch'
      BY <2>2 DEF LaunchSpawn
    <3>3. HandleInOnePlace'
      BY <2>2 DEF LaunchSpawn
    <3>4. ToldIsFinal'
      BY <2>2 DEF LaunchSpawn
    <3>5. ExitHasHandle'
      BY <2>2 DEF LaunchSpawn
    <3>6. StoredIsKept'
      BY <2>2 DEF LaunchSpawn
    <3>7. OneExitSignal'
      BY <2>2 DEF LaunchSpawn
    <3>8. NoStrayEngine'
      <4>1. ASSUME NEW k \in Launches, Alive(k)' PROVE Owned(k)'
        <5>1. CASE k = l
          <6>1. epLaunch'[l] = "spawned"
            BY <2>2, <4>1, <5>1 DEF LaunchSpawn
          <6> QED
            BY <5>1, <6>1
        <5>2. CASE k # l
          <6>1. epLaunch'[k] = epLaunch[k] /\ epChild'[k] = epChild[k]
            BY <2>2, <5>2 DEF LaunchSpawn
          <6>2. Owned(k)
            BY <2>2, <4>1, <6>1
          <6> QED
            BY <2>2, <6>1, <6>2 DEF LaunchSpawn
        <5> QED
          BY <5>1, <5>2
      <4> QED
        BY <4>1
    <3>9. ExitLeavesNone'
      BY <2>2 DEF LaunchSpawn
    <3>10. HeldIsWatched'
      BY <2>2 DEF LaunchSpawn
    <3> QED
      BY <3>1, <3>2, <3>3, <3>4, <3>5, <3>6, <3>7, <3>8, <3>9, <3>10
  <2>3. ASSUME NEW l \in Launches, Open, LaunchReady(l) PROVE EngineInv'
    <3>1. EpTypeOK'
      <4>1. epLaunch' \in [Launches -> Unstored \cup Stored]
        <5>1. epLaunch' = [epLaunch EXCEPT ![l] = "ready"] \/ epLaunch' = [epLaunch EXCEPT ![l] = "failed"]
          BY <2>3 DEF LaunchReady
        <5> QED
          BY <5>1
      <4>2. epChild' \in [Launches -> {"none", "alive", "dead"}]
        BY <2>3 DEF LaunchReady
      <4> QED
        BY <2>3, <4>1, <4>2 DEF LaunchReady
    <3>2. ChildFollowsLaunch'
      BY <2>3 DEF LaunchReady
    <3>3. HandleInOnePlace'
      BY <2>3 DEF LaunchReady
    <3>4. ToldIsFinal'
      BY <2>3 DEF LaunchReady
    <3>5. ExitHasHandle'
      BY <2>3 DEF LaunchReady
    <3>6. StoredIsKept'
      BY <2>3 DEF LaunchReady
    <3>7. OneExitSignal'
      BY <2>3 DEF LaunchReady
    <3>8. NoStrayEngine'
      BY <2>3 DEF LaunchReady
    <3>9. ExitLeavesNone'
      BY <2>3 DEF LaunchReady
    <3>10. HeldIsWatched'
      BY <2>3 DEF LaunchReady
    <3> QED
      BY <3>1, <3>2, <3>3, <3>4, <3>5, <3>6, <3>7, <3>8, <3>9, <3>10
  <2>4. ASSUME NEW l \in Launches, Open, LaunchWatch(l) PROVE EngineInv'
    BY <2>4 DEF LaunchWatch
  <2>5. ASSUME NEW l \in Launches, Open, LaunchStore(l) PROVE EngineInv'
    BY <2>5 DEF LaunchStore, Replaced
  <2>6. ASSUME NEW l \in Launches, Open, LaunchConnect(l) PROVE EngineInv'
    <3>1. EpTypeOK'
      <4>1. epLaunch' \in [Launches -> Unstored \cup Stored]
        BY <2>6 DEF LaunchConnect
      <4> QED
        BY <2>6, <4>1 DEF LaunchConnect
    <3>2. ChildFollowsLaunch'
      BY <2>6 DEF LaunchConnect
    <3>3. HandleInOnePlace'
      BY <2>6 DEF LaunchConnect
    <3>4. ToldIsFinal'
      BY <2>6 DEF LaunchConnect
    <3>5. ExitHasHandle'
      BY <2>6 DEF LaunchConnect
    <3>6. StoredIsKept'
      BY <2>6 DEF LaunchConnect
    <3>7. OneExitSignal'
      BY <2>6 DEF LaunchConnect
    <3>8. NoStrayEngine'
      BY <2>6 DEF LaunchConnect
    <3>9. ExitLeavesNone'
      BY <2>6 DEF LaunchConnect
    <3>10. HeldIsWatched'
      BY <2>6 DEF LaunchConnect
    <3> QED
      BY <3>1, <3>2, <3>3, <3>4, <3>5, <3>6, <3>7, <3>8, <3>9, <3>10
  <2>7. ASSUME NEW l \in Launches, Open, LaunchConnected(l) PROVE EngineInv'
    <3>1. EpTypeOK'
      BY <2>7 DEF LaunchConnected
    <3>2. ChildFollowsLaunch'
      BY <2>7 DEF LaunchConnected
    <3>3. HandleInOnePlace'
      BY <2>7 DEF LaunchConnected
    <3>4. ToldIsFinal'
      BY <2>7 DEF LaunchConnected
    <3>5. ExitHasHandle'
      BY <2>7 DEF LaunchConnected
    <3>6. StoredIsKept'
      BY <2>7 DEF LaunchConnected
    <3>7. OneExitSignal'
      BY <2>7 DEF LaunchConnected
    <3>8. NoStrayEngine'
      <4>1. \A k \in Launches : epLaunch'[k] = epLaunch[k] \/ epLaunch[k] = "connecting"
        BY <2>7 DEF LaunchConnected
      <4>2. ASSUME NEW k \in Launches, Alive(k)' PROVE Owned(k)'
        <5>1. Owned(k)
          BY <2>7, <4>2 DEF LaunchConnected
        <5> QED
          BY <2>7, <4>1, <5>1 DEF LaunchConnected
      <4> QED
        BY <4>2
    <3>9. ExitLeavesNone'
      BY <2>7 DEF LaunchConnected
    <3>10. HeldIsWatched'
      BY <2>7 DEF LaunchConnected
    <3> QED
      BY <3>1, <3>2, <3>3, <3>4, <3>5, <3>6, <3>7, <3>8, <3>9, <3>10
  <2>8. ASSUME NEW l \in Launches, Open, LaunchRollback(l) PROVE EngineInv'
    <3>1. EpTypeOK'
      BY <2>8 DEF LaunchRollback
    <3>2. ChildFollowsLaunch'
      BY <2>8 DEF LaunchRollback
    <3>3. HandleInOnePlace'
      BY <2>8 DEF LaunchRollback
    <3>4. ToldIsFinal'
      BY <2>8 DEF LaunchRollback
    <3>5. ExitHasHandle'
      BY <2>8 DEF LaunchRollback
    <3>6. StoredIsKept'
      BY <2>8 DEF LaunchRollback
    <3>7. OneExitSignal'
      BY <2>8 DEF LaunchRollback
    <3>8. NoStrayEngine'
      BY <2>8 DEF LaunchRollback
    <3>9. ExitLeavesNone'
      BY <2>8 DEF LaunchRollback
    <3>10. HeldIsWatched'
      BY <2>8 DEF LaunchRollback
    <3> QED
      BY <3>1, <3>2, <3>3, <3>4, <3>5, <3>6, <3>7, <3>8, <3>9, <3>10
  <2>9. ASSUME NEW l \in Launches, Dies(l) PROVE EngineInv'
    BY <2>9 DEF Dies
  <2>10. ASSUME NEW l \in Launches, Open, MonitorReaps(l) PROVE EngineInv'
    BY <2>10 DEF MonitorReaps
  <2>11. ASSUME NEW l \in Launches, Open, MonitorReports(l) PROVE EngineInv'
    <3>1. EpTypeOK'
      BY <2>11 DEF MonitorReports
    <3>2. ChildFollowsLaunch'
      BY <2>11 DEF MonitorReports
    <3>3. HandleInOnePlace'
      BY <2>11 DEF MonitorReports
    <3>4. ToldIsFinal'
      BY <2>11 DEF MonitorReports
    <3>5. ExitHasHandle'
      BY <2>11 DEF MonitorReports
    <3>6. StoredIsKept'
      BY <2>11 DEF MonitorReports
    <3>7. OneExitSignal'
      BY <2>11 DEF MonitorReports
    <3>8. NoStrayEngine'
      BY <2>11 DEF MonitorReports
    <3>9. ExitLeavesNone'
      BY <2>11 DEF MonitorReports
    <3>10. HeldIsWatched'
      BY <2>11 DEF MonitorReports
    <3> QED
      BY <3>1, <3>2, <3>3, <3>4, <3>5, <3>6, <3>7, <3>8, <3>9, <3>10
  <2>12. ASSUME NEW l \in Launches, Open, MonitorFails(l) PROVE EngineInv'
    BY <2>12 DEF MonitorFails
  <2>13. ASSUME NEW l \in Launches, Open, MonitorClears(l) PROVE EngineInv'
    BY <2>13 DEF MonitorClears
  <2>14. ASSUME NEW l \in Launches, Open, StopDisconnect(l) PROVE EngineInv'
    BY <2>14 DEF StopDisconnect
  <2>15. ASSUME NEW l \in Launches, Open, StopKill(l) PROVE EngineInv'
    BY <2>15 DEF StopKill
  <2>16. ASSUME Open, BridgeDrops PROVE EngineInv'
    BY <2>16 DEF BridgeDrops
  <2>17. ASSUME Open, StopTake PROVE EngineInv'
    BY <2>17 DEF StopTake
  <2>18. ASSUME Open, ExitTake PROVE EngineInv'
    <3>1. EpTypeOK'
      <4>1. epKill' \in [Launches -> {"none", "sent", "dropped"}]
        <5>1. epKill' = epKill \/ epKill' = [epKill EXCEPT ![epHolder] = "sent"]
          BY <2>18 DEF ExitTake
        <5> QED
          BY <5>1
      <4>2. epExit' \in [at : {"idle", "joining", "done", "hooked", "gone"}, handle : Launches \cup {NoLaunch}]
        BY <2>18 DEF ExitTake
      <4> QED
        BY <2>18, <4>1, <4>2 DEF ExitTake
    <3>2. ChildFollowsLaunch'
      BY <2>18 DEF ExitTake
    <3>3. HandleInOnePlace'
      BY <2>18 DEF ExitTake
    <3>4. ToldIsFinal'
      BY <2>18 DEF ExitTake
    <3>5. ExitHasHandle'
      BY <2>18 DEF ExitTake
    <3>6. StoredIsKept'
      BY <2>18 DEF ExitTake
    <3>7. OneExitSignal'
      BY <2>18 DEF ExitTake
    <3>8. NoStrayEngine'
      BY <2>18 DEF ExitTake
    <3>9. ExitLeavesNone'
      BY <2>18 DEF ExitTake
    <3>10. HeldIsWatched'
      BY <2>18 DEF ExitTake
    <3> QED
      BY <3>1, <3>2, <3>3, <3>4, <3>5, <3>6, <3>7, <3>8, <3>9, <3>10
  <2>19. ASSUME Open, ExitJoin PROVE EngineInv'
    BY <2>19 DEF ExitJoin
  <2>20. ASSUME Open, ExitHook PROVE EngineInv'
    <3>1. EpTypeOK'
      <4>1. epKill' \in [Launches -> {"none", "sent", "dropped"}]
        BY <2>20 DEF ExitHook
      <4>2. epExit' \in [at : {"idle", "joining", "done", "hooked", "gone"}, handle : Launches \cup {NoLaunch}]
        BY <2>20 DEF ExitHook
      <4> QED
        BY <2>20, <4>1, <4>2 DEF ExitHook
    <3>2. ChildFollowsLaunch'
      BY <2>20 DEF ExitHook
    <3>3. HandleInOnePlace'
      BY <2>20 DEF ExitHook
    <3>4. ToldIsFinal'
      BY <2>20 DEF ExitHook
    <3>5. ExitHasHandle'
      BY <2>20 DEF ExitHook
    <3>6. StoredIsKept'
      BY <2>20 DEF ExitHook
    <3>7. OneExitSignal'
      BY <2>20 DEF ExitHook
    <3>8. NoStrayEngine'
      BY <2>20 DEF ExitHook
    <3>9. ExitLeavesNone'
      BY <2>20 DEF ExitHook
    <3>10. HeldIsWatched'
      BY <2>20 DEF ExitHook
    <3> QED
      BY <3>1, <3>2, <3>3, <3>4, <3>5, <3>6, <3>7, <3>8, <3>9, <3>10
  <2>21. ASSUME Open, EditorEnds PROVE EngineInv'
    <3>1. EpTypeOK'
      BY <2>21 DEF EditorEnds
    <3>2. ChildFollowsLaunch'
      BY <2>21 DEF EditorEnds
    <3>3. HandleInOnePlace'
      BY <2>21 DEF EditorEnds
    <3>4. ToldIsFinal'
      BY <2>21 DEF EditorEnds
    <3>5. ExitHasHandle'
      BY <2>21 DEF EditorEnds
    <3>6. StoredIsKept'
      BY <2>21 DEF EditorEnds
    <3>7. OneExitSignal'
      BY <2>21 DEF EditorEnds
    <3>8. NoStrayEngine'
      BY <2>21 DEF EditorEnds
    <3>9. ExitLeavesNone'
      BY <2>21 DEF EditorEnds
    <3>10. HeldIsWatched'
      BY <2>21 DEF EditorEnds
    <3> QED
      BY <3>1, <3>2, <3>3, <3>4, <3>5, <3>6, <3>7, <3>8, <3>9, <3>10
  <2>22. CASE UNCHANGED epVars
    BY <2>22 DEF epVars
  <2> QED
    BY <2>1, <2>2, <2>3, <2>4, <2>5, <2>6, <2>7, <2>8, <2>9, <2>10, <2>11, <2>12, <2>13, <2>14, <2>15, <2>16, <2>17, <2>18, <2>19, <2>20, <2>21, <2>22
    DEF EpNext, LaunchStep, MonitorStep, StopStep
<1> QED
  BY <1>1, <1>2, PTL DEF EpSpec

\* For every number of overlapping launches, with stops and an exit: while the
\* editor runs no engine runs that nobody can stop, the exit takes with it the
\* engine it found, the end of an engine is told once, and a handle without a
\* monitor is only held until the launch rolls back.
THEOREM EngineOwned == EpSpec => []EngineIsOwned
  BY EngineInvariance, PTL DEF EngineInv

-----------------------------------------------------------------------------
(* ImageWorker.                                                            *)

IwTypeOK ==
    /\ iwCall \in [IwCallers -> [at : {"idle", "raw", "waiting", "locked", "admitted",
                                       "working", "made", "shown"},
                                 snapshot : Nat, image : Nat]]
    /\ iwSnapshot \in Nat /\ iwCache \in Nat /\ iwOrphans \in Nat
    /\ iwDown \in {"up", "stopping", "closed"}

\* Behind the closed semaphores no caller's job and no left-behind job runs.
ClosedIsQuiet ==
    iwDown = "closed" => iwOrphans = 0 /\ \A c \in IwCallers : iwCall[c].at # "working"

\* What ImageJobsAreSafe rests on: the two parts without the count of the jobs.
ImageInv == IwTypeOK /\ ClosedIsQuiet /\ ImageOfOwnSnapshot

\* The jobs are counted by a natural number, and it is 0 exactly when no caller's
\* job and no left-behind job runs: what the shutdown reads off the permits.
LEMMA JobsCounted ==
    ASSUME IwTypeOK
    PROVE  /\ Jobs \in Nat
           /\ Jobs = 0 <=> iwOrphans = 0 /\ \A c \in IwCallers : iwCall[c].at # "working"
<1> DEFINE W == {c \in IwCallers : iwCall[c].at = "working"}
<1>1. IsFiniteSet(W)
  BY ImageAssumption, FS_Subset
<1>2. Cardinality(W) \in Nat /\ (Cardinality(W) = 0 <=> W = {})
  BY <1>1, FS_CardinalityType, FS_EmptySet
<1>3. Jobs = Cardinality(W) + iwOrphans
  BY DEF Jobs
<1>4. iwOrphans \in Nat
  BY DEF IwTypeOK
<1>5. W = {} <=> \A c \in IwCallers : iwCall[c].at # "working"
  OBVIOUS
<1> HIDE DEF W
<1> QED
  BY <1>2, <1>3, <1>4, <1>5

\* ImageInv holds at the start and every step of a call, a job, the connection or
\* the shutdown keeps it.
THEOREM ImageInvariance == IwSpec => []ImageInv
<1>1. IwInit => ImageInv
  BY DEF IwInit, IwIdle, ImageInv, IwTypeOK, ClosedIsQuiet, ImageOfOwnSnapshot
<1>2. ImageInv /\ [IwNext]_iwVars => ImageInv'
  <2> SUFFICES ASSUME ImageInv, [IwNext]_iwVars PROVE ImageInv'
    OBVIOUS
  <2> USE DEF ImageInv, IwTypeOK, ClosedIsQuiet, ImageOfOwnSnapshot, IwIdle, IwMoves, GivesUp,
              Shows
  <2>1. ASSUME NEW c \in IwCallers, TakeSnapshot(c) PROVE ImageInv'
    BY <2>1 DEF TakeSnapshot
  <2>2. ASSUME NEW c \in IwCallers, CheckGeneration(c) PROVE ImageInv'
    <3>1. CASE IsCurrentImage(c)
      BY <2>2, <3>1 DEF CheckGeneration
    <3>2. CASE ~IsCurrentImage(c)
      BY <2>2, <3>2 DEF CheckGeneration
    <3> QED
      BY <3>1, <3>2
  <2>3. ASSUME NEW c \in IwCallers, LockImages(c) PROVE ImageInv'
    BY <2>3 DEF LockImages
  <2>4. ASSUME NEW c \in IwCallers, LookUp(c) PROVE ImageInv'
    BY <2>4 DEF LookUp, ImageFits
  <2>5. ASSUME NEW c \in IwCallers, StartJob(c) PROVE ImageInv'
    BY <2>5 DEF StartJob, Permits
  <2>6. ASSUME NEW c \in IwCallers, EndJob(c) PROVE ImageInv'
    BY <2>6 DEF EndJob
  <2>7. ASSUME NEW c \in IwCallers, StoreImage(c) PROVE ImageInv'
    BY <2>7 DEF StoreImage
  <2>8. ASSUME NEW c \in IwCallers, Answer(c) PROVE ImageInv'
    BY <2>8 DEF Answer
  <2>9. ASSUME NEW c \in IwCallers, Leave(c) PROVE ImageInv'
    BY <2>9 DEF Leave, LeftBehind
  <2>10. CASE OrphanEnds
    BY <2>10 DEF OrphanEnds
  <2>11. CASE NewSnapshot
    BY <2>11 DEF NewSnapshot
  <2>12. CASE LoseConnection
    BY <2>12 DEF LoseConnection
  <2>13. CASE DropImage
    BY <2>13 DEF DropImage
  <2>14. CASE StopWorkers
    BY <2>14 DEF StopWorkers
  <2>15. CASE CloseWorkers
    <3>1. Jobs = 0
      BY <2>15, JobsCounted, ImageAssumption DEF CloseWorkers, AllPermits
    <3> QED
      BY <2>15, <3>1, JobsCounted DEF CloseWorkers
  <2>16. CASE UNCHANGED iwVars
    BY <2>16 DEF iwVars
  <2> QED
    BY <2>1, <2>2, <2>3, <2>4, <2>5, <2>6, <2>7, <2>8, <2>9, <2>10, <2>11, <2>12, <2>13, <2>14,
       <2>15, <2>16
    DEF IwNext, ImageStep
<1> QED
  BY <1>1, <1>2, PTL DEF IwSpec

\* For every number of callers and of workers: a client sees an image of its own
\* snapshot, and no image job runs after the shutdown has returned.
THEOREM ImageJobsSafe == IwSpec => []ImageJobsAreSafe
<1>1. ImageInv => ImageJobsAreSafe
  BY JobsCounted DEF ImageInv, ClosedIsQuiet, ImageJobsAreSafe, ShutdownIsFinal
<1> QED
  BY <1>1, ImageInvariance, PTL

-----------------------------------------------------------------------------
(* Thumbnails: the inductive invariant.                                    *)

\* A call, a fetch and the state they share.
FetchCalls ==
    [at : {"idle", "decide", "waiting", "sleeping", "done"}, gen : Nat, fetch : TnFetches \cup {0}, timer : Nat]
Fetches ==
    [gen : Nat, size : {0} \cup {TnSize[c] : c \in TnCallers}, ui : BOOLEAN,
     result : {"none", "flying", "ok", "error"}, age : Nat]
FetchStates == [gen : Nat, since : 0..TnTtl, cached : TnFetches \cup {0}, flight : TnFetches \cup {0}]

TnTypeOK ==
    /\ tnLive \in Nat /\ tnGens \in Nat
    /\ tnState \in FetchStates
    /\ tnFetch \in [TnFetches -> Fetches]
    /\ tnCall \in [TnCallers -> FetchCalls]
    /\ tnStarts \in [age : 0..TnTtl, reset : BOOLEAN]

\* What the state keeps, a cached snapshot and a fetch in flight, is of its own
\* generation, and only this is looked up for a caller of that generation.
KeptIsOwn ==
    \A i \in {tnState.cached, tnState.flight} \ {0} : tnFetch[i].gen = tnState.gen

\* A caller waits for a fetch of the generation it pinned, and no name of a fetch
\* is used again while somebody refers to it.
WaitsForOwn ==
    \A c \in TnCallers : tnCall[c].at = "waiting" =>
        tnCall[c].fetch # 0 /\ tnFetch[tnCall[c].fetch].gen = tnCall[c].gen
DoneHasFetch == \A c \in TnCallers : tnCall[c].at = "done" => tnCall[c].fetch # 0

\* The age that paces the fetches is never above the age of the connection's last
\* start: a fetch for another generation paces this one too, and only an
\* invalidate makes the state forget.
PacedByState == tnStarts.reset \/ tnState.since <= tnStarts.age

ThumbnailInv ==
    TnTypeOK /\ KeptIsOwn /\ WaitsForOwn /\ DoneHasFetch /\ DeliversWhatWasAsked /\ PacedByState

\* A set of natural numbers that is not empty has a least element.
LEMMA Least ==
    ASSUME NEW T, T \subseteq Nat, T # {}
    PROVE  \E m \in T : \A k \in T : m <= k
<1> DEFINE Below == {1..k : k \in T}
<1>1. Below \subseteq FiniteSubsetsOf(Nat) /\ Below # {}
  <2>1. \A k \in T : IsFiniteSet(1..k) /\ 1..k \in SUBSET Nat
    BY FS_Interval
  <2> QED
    BY <2>1 DEF FiniteSubsetsOf
<1>2. IsWellFoundedOn(StrictSubsetOrdering(Nat), FiniteSubsetsOf(Nat))
  BY FS_StrictSubsetOrderingWellFounded
<1>3. \E x \in Below : \A y \in Below : ~(<<y, x>> \in StrictSubsetOrdering(Nat))
  <2> HIDE DEF Below
  <2> QED
    BY <1>1, <1>2, WFMin
<1>4. PICK m \in T : \A k \in T : ~(<<1..k, 1..m>> \in StrictSubsetOrdering(Nat))
  BY <1>3
<1>5. ASSUME NEW k \in T PROVE m <= k
  <2> SUFFICES ASSUME k < m PROVE FALSE
    OBVIOUS
  <2>1. 1..k \in SUBSET Nat /\ 1..m \in SUBSET Nat /\ 1..k \subseteq 1..m /\ m \in 1..m /\ m \notin 1..k
    OBVIOUS
  <2>2. <<1..k, 1..m>> \in StrictSubsetOrdering(Nat)
    BY <2>1 DEF StrictSubsetOrdering
  <2> QED
    BY <1>4, <2>2
<1> QED
  BY <1>5

\* The name a new fetch gets is one that nothing refers to.
LEMMA UnusedName ==
    ASSUME Unused # {}
    PROVE  Min(Unused) \in Unused
<1>1. Unused \subseteq Nat
  BY ThumbnailAssumption DEF Unused
<1>2. \E m \in Unused : \A k \in Unused : m <= k
  BY <1>1, Least
<1> QED
  BY <1>2 DEF Min

\* Freeing what nothing refers to keeps the rest as it is.
LEMMA HeldFacts ==
    ASSUME TnTypeOK
    PROVE  /\ Held \in [TnFetches -> Fetches]
           /\ \A i \in TnFetches \ Unused : Held[i] = tnFetch[i]
           /\ \A i \in TnFetches : Held[i].result = "flying" => tnFetch[i].result = "flying"
           /\ \A i \in TnFetches : tnFetch[i].result = "flying" => i \notin Unused
           /\ \A c \in TnCallers : tnCall[c].fetch \notin Unused
           /\ tnState.cached \notin Unused /\ tnState.flight \notin Unused
<1>1. TnBlank \in Fetches /\ TnBlank.result = "none"
  BY DEF TnBlank, Fetches
<1>2. \A i \in TnFetches : Held[i] = IF i \in Unused THEN TnBlank ELSE tnFetch[i]
  BY DEF Held
<1>3. Held \in [TnFetches -> Fetches]
  BY <1>1 DEF Held, TnTypeOK
<1>4. /\ \A i \in TnFetches : tnFetch[i].result = "flying" => i \notin Unused
      /\ \A c \in TnCallers : tnCall[c].fetch \notin Unused
      /\ tnState.cached \notin Unused /\ tnState.flight \notin Unused
  BY DEF Unused
<1> QED
  BY <1>1, <1>2, <1>3, <1>4

\* A step of one caller that starts no fetch, and leaves in the state what is of
\* the state's generation, keeps the invariant if what the caller waits for, or
\* has, is what it asked for.
LEMMA OneCallerMoves ==
    ASSUME ThumbnailInv, NEW c \in TnCallers, NEW r \in FetchCalls, Becomes(c, r),
           UNCHANGED <<tnLive, tnGens, tnFetch, tnStarts>>,
           tnState' \in FetchStates, tnState'.since = tnState.since,
           \A i \in {tnState'.cached, tnState'.flight} \ {0} : tnFetch[i].gen = tnState'.gen,
           r.at = "waiting" => r.fetch # 0 /\ tnFetch[r.fetch].gen = r.gen,
           r.at = "done" => /\ r.fetch # 0 /\ tnFetch[r.fetch].gen = r.gen
                            /\ tnFetch[r.fetch].size = TnSize[c]
    PROVE  ThumbnailInv'
<1>1. tnCall' = [tnCall EXCEPT ![c] = r] /\ tnCall \in [TnCallers -> FetchCalls]
  BY DEF Becomes, ThumbnailInv, TnTypeOK, FetchCalls
<1>2. tnCall' \in [TnCallers -> FetchCalls] /\ tnCall'[c] = r /\ \A d \in TnCallers \ {c} : tnCall'[d] = tnCall[d]
  BY <1>1
<1>3. TnTypeOK'
  BY <1>2 DEF ThumbnailInv, TnTypeOK, FetchCalls, FetchStates
<1>4. KeptIsOwn' /\ PacedByState'
  BY DEF ThumbnailInv, KeptIsOwn, PacedByState
<1>5. WaitsForOwn' /\ DoneHasFetch' /\ DeliversWhatWasAsked'
  BY <1>2 DEF ThumbnailInv, WaitsForOwn, DoneHasFetch, DeliversWhatWasAsked
<1> QED
  BY <1>3, <1>4, <1>5 DEF ThumbnailInv

\* ThumbnailInv holds at the start and every step of a caller, a fetch, the
\* connection or the clock keeps it.
THEOREM ThumbnailInvariance == TnSpec => []ThumbnailInv
<1> USE ThumbnailAssumption
<1>1. TnInit => ThumbnailInv
  BY DEF TnInit, TnIdle, TnBlank, TnNever, ThumbnailInv, TnTypeOK, KeptIsOwn, WaitsForOwn, DoneHasFetch,
         DeliversWhatWasAsked, PacedByState, FetchCalls, Fetches, FetchStates
<1>2. ThumbnailInv /\ [TnNext]_tnVars => ThumbnailInv'
  <2> SUFFICES ASSUME ThumbnailInv, [TnNext]_tnVars PROVE ThumbnailInv'
    OBVIOUS
  <2>0. /\ TnTypeOK /\ KeptIsOwn /\ PacedByState
        /\ \A i \in {tnState.cached, tnState.flight} \ {0} : tnFetch[i].gen = tnState.gen
        /\ \A c \in TnCallers : tnCall[c] \in FetchCalls
        /\ TnIdle \in FetchCalls /\ TnIdle.at = "idle"
    BY DEF ThumbnailInv, TnTypeOK, KeptIsOwn, TnIdle, FetchCalls
  <2>1. ASSUME NEW c \in TnCallers, Call(c) PROVE ThumbnailInv'
    <3> DEFINE r == [TnIdle EXCEPT !.at = "decide", !.gen = tnLive]
    <3>1. r \in FetchCalls /\ r.at = "decide"
      BY <2>0 DEF TnTypeOK, TnIdle, FetchCalls
    <3>2. Becomes(c, r) /\ UNCHANGED <<tnLive, tnGens, tnFetch, tnStarts, tnState>>
      BY <2>1 DEF Call
    <3> HIDE DEF r
    <3> QED
      BY <2>0, <3>1, <3>2, OneCallerMoves DEF TnTypeOK
  <2>2. ASSUME NEW c \in TnCallers, Decide(c) PROVE ThumbnailInv'
    <3> DEFINE s == Adopted(tnCall[c].gen)
    <3>1. /\ s \in FetchStates /\ s.gen = tnCall[c].gen /\ s.since = tnState.since
          /\ s.cached \in {0, tnState.cached} /\ s.flight \in {0, tnState.flight}
          /\ \A i \in {s.cached, s.flight} \ {0} : tnFetch[i].gen = s.gen
      BY <2>0 DEF Adopted, TnTypeOK, FetchStates, FetchCalls
    <3>2. tnCall[c].at = "decide" /\ UNCHANGED <<tnLive, tnGens>>
      BY <2>2 DEF Decide
    <3>3. CASE Reusable(s, c) /\ Becomes(c, Given(c, s.cached)) /\ tnState' = s /\ UNCHANGED <<tnFetch, tnStarts>>
      <4> DEFINE r == Given(c, s.cached)
      <4>1. s.cached # 0 /\ s.cached \in TnFetches \cup {0} /\ tnFetch[s.cached].size = TnSize[c]
        BY <3>1, <3>3 DEF Reusable, FetchStates
      <4>2. /\ r \in FetchCalls /\ r.at \in {"done", "idle"}
            /\ r.at = "done" => r.fetch = s.cached /\ r.gen = tnCall[c].gen
        BY <2>0, <4>1 DEF Given, FetchCalls
      <4> HIDE DEF r, s
      <4> QED
        BY <3>1, <3>2, <3>3, <4>1, <4>2, OneCallerMoves DEF r
    <3>4. CASE /\ s.flight # 0
               /\ Becomes(c, [tnCall[c] EXCEPT !.at = "waiting", !.fetch = s.flight])
               /\ tnState' = s /\ UNCHANGED <<tnFetch, tnStarts>>
      <4> DEFINE r == [tnCall[c] EXCEPT !.at = "waiting", !.fetch = s.flight]
      <4>1. r \in FetchCalls /\ r.at = "waiting" /\ r.fetch = s.flight /\ r.gen = tnCall[c].gen
        BY <2>0, <3>1 DEF FetchCalls, FetchStates
      <4> HIDE DEF r, s
      <4> QED
        BY <3>1, <3>2, <3>4, <4>1, OneCallerMoves DEF r
    <3>5. CASE /\ s.since < TnTtl
               /\ Becomes(c, IF c \in TnUi THEN [tnCall[c] EXCEPT !.at = "sleeping", !.timer = TnTtl - s.since]
                             ELSE TnIdle)
               /\ tnState' = s /\ UNCHANGED <<tnFetch, tnStarts>>
      <4> DEFINE r == IF c \in TnUi THEN [tnCall[c] EXCEPT !.at = "sleeping", !.timer = TnTtl - s.since] ELSE TnIdle
      <4>1. s.since \in Nat /\ TnTtl - s.since \in Nat
        BY <3>1, <3>5 DEF FetchStates
      <4>2. r \in FetchCalls /\ r.at \in {"sleeping", "idle"}
        BY <2>0, <4>1 DEF FetchCalls
      <4> HIDE DEF r, s
      <4> QED
        BY <3>1, <3>2, <3>5, <4>2, OneCallerMoves DEF r
    <3>6. ASSUME NEW i \in TnFetches, i = Min(Unused), Unused # {},
                 Becomes(c, [tnCall[c] EXCEPT !.at = "waiting", !.fetch = i]),
                 tnState' = [s EXCEPT !.since = 0, !.flight = i],
                 tnFetch' = [Held EXCEPT ![i] = [gen |-> tnCall[c].gen, size |-> TnSize[c],
                                                 ui |-> c \in TnUi, result |-> "flying", age |-> 0]],
                 tnStarts' = IF tnCall[c].gen = tnLive THEN [age |-> 0, reset |-> FALSE] ELSE tnStarts
          PROVE  ThumbnailInv'
      <4>1. i \in Unused
        BY <3>6, UnusedName
      <4>2. \A j \in TnFetches \ Unused : tnFetch'[j] = tnFetch[j]
        BY <2>0, <3>6, <4>1, HeldFacts
      <4>3. [gen |-> tnCall[c].gen, size |-> TnSize[c], ui |-> c \in TnUi, result |-> "flying", age |-> 0] \in Fetches
        BY <2>0 DEF Fetches, FetchCalls
      <4>4. tnFetch' \in [TnFetches -> Fetches] /\ tnFetch'[i].gen = tnCall[c].gen
        BY <2>0, <3>6, <4>3, HeldFacts
      <4>5. tnState' \in FetchStates /\ tnState'.gen = tnCall[c].gen /\ tnState'.since = 0
            /\ tnState'.cached = s.cached /\ tnState'.flight = i
        <5>1. tnState' = [s EXCEPT !.since = 0, !.flight = i]
          BY <3>6
        <5>2. 0 \in 0..TnTtl
          OBVIOUS
        <5>3. ASSUME NEW x \in FetchStates
              PROVE  LET y == [x EXCEPT !.since = 0, !.flight = i] IN
                        /\ y \in FetchStates /\ y.gen = x.gen /\ y.since = 0
                        /\ y.cached = x.cached /\ y.flight = i
          BY <5>2 DEF FetchStates
        <5> HIDE DEF s
        <5> QED
          BY <3>1, <5>1, <5>3
      <4>6. tnCall \in [TnCallers -> FetchCalls] /\ [tnCall[c] EXCEPT !.at = "waiting", !.fetch = i] \in FetchCalls
        BY <2>0 DEF TnTypeOK, FetchCalls
      <4>7. tnCall' = [tnCall EXCEPT ![c] = [tnCall[c] EXCEPT !.at = "waiting", !.fetch = i]]
        BY <3>6 DEF Becomes
      <4>8. /\ tnCall' \in [TnCallers -> FetchCalls]
            /\ \A d \in TnCallers \ {c} : tnCall'[d] = tnCall[d]
            /\ tnCall'[c].at = "waiting" /\ tnCall'[c].fetch = i /\ tnCall'[c].gen = tnCall[c].gen
        BY <4>6, <4>7 DEF FetchCalls
      <4>9. tnStarts' \in [age : 0..TnTtl, reset : BOOLEAN] /\ tnStarts'.age >= 0
        BY <2>0, <3>6 DEF TnTypeOK
      <4>10. \A d \in TnCallers : tnCall[d].fetch # 0 => tnFetch'[tnCall[d].fetch] = tnFetch[tnCall[d].fetch]
        BY <2>0, <4>2, HeldFacts DEF FetchCalls
      <4>11. s.cached # 0 => tnFetch'[s.cached] = tnFetch[s.cached]
        BY <2>0, <3>1, <4>2, HeldFacts DEF FetchStates
      <4> HIDE DEF s
      <4>12. TnTypeOK'
        BY <2>0, <3>2, <4>4, <4>5, <4>8, <4>9 DEF TnTypeOK
      <4>13. KeptIsOwn'
        BY <3>1, <4>4, <4>5, <4>11 DEF KeptIsOwn
      <4>14. PacedByState'
        BY <4>5, <4>9 DEF PacedByState
      <4>15. WaitsForOwn' /\ DoneHasFetch' /\ DeliversWhatWasAsked'
        BY <4>4, <4>8, <4>10 DEF ThumbnailInv, WaitsForOwn, DoneHasFetch, DeliversWhatWasAsked
      <4> QED
        BY <4>12, <4>13, <4>14, <4>15 DEF ThumbnailInv
    <3>7. CASE Unused # {}
      <4>1. Min(Unused) \in TnFetches
        BY <3>7, UnusedName DEF Unused
      <4> QED
        BY <2>2, <3>3, <3>4, <3>5, <3>6, <4>1 DEF Decide
    <3> QED
      BY <2>2, <3>3, <3>4, <3>5, <3>7 DEF Decide
  <2>3. ASSUME NEW c \in TnCallers, Wake(c) PROVE ThumbnailInv'
    <3> DEFINE r == [tnCall[c] EXCEPT !.at = "decide"]
    <3>1. r \in FetchCalls /\ r.at = "decide"
      BY <2>0 DEF FetchCalls
    <3>2. Becomes(c, r) /\ UNCHANGED <<tnLive, tnGens, tnFetch, tnStarts, tnState>>
      BY <2>3 DEF Wake, Moves
    <3> HIDE DEF r
    <3> QED
      BY <2>0, <3>1, <3>2, OneCallerMoves DEF TnTypeOK
  <2>4. ASSUME NEW c \in TnCallers, Hear(c) PROVE ThumbnailInv'
    <3> DEFINE f == tnFetch[tnCall[c].fetch]
               r == CASE f.result = "ok" /\ f.size = TnSize[c] -> Given(c, tnCall[c].fetch)
                      [] f.result = "ok" /\ f.size # TnSize[c] /\ c \in TnUi -> [tnCall[c] EXCEPT !.at = "decide", !.fetch = 0]
                      [] f.result = "error" /\ c \in TnUi /\ ~f.ui -> [tnCall[c] EXCEPT !.at = "decide", !.fetch = 0]
                      [] OTHER -> TnIdle
    <3>1. /\ Becomes(c, r) /\ UNCHANGED <<tnLive, tnGens, tnFetch, tnStarts, tnState>>
          /\ tnCall[c].at = "waiting"
      BY <2>4 DEF Hear
    <3>2. tnCall[c].fetch # 0 /\ tnFetch[tnCall[c].fetch].gen = tnCall[c].gen
      BY <3>1 DEF ThumbnailInv, WaitsForOwn
    <3>3. [tnCall[c] EXCEPT !.at = "decide", !.fetch = 0] \in FetchCalls
          /\ [tnCall[c] EXCEPT !.at = "decide", !.fetch = 0].at = "decide"
      BY <2>0 DEF FetchCalls
    <3>4. LET g == Given(c, tnCall[c].fetch) IN
             /\ g \in FetchCalls /\ g.at \in {"done", "idle"}
             /\ g.at = "done" => g.fetch = tnCall[c].fetch /\ g.gen = tnCall[c].gen
      BY <2>0 DEF Given, FetchCalls
    <3>5. \/ r = TnIdle \/ r = [tnCall[c] EXCEPT !.at = "decide", !.fetch = 0]
          \/ r = Given(c, tnCall[c].fetch) /\ f.size = TnSize[c]
      OBVIOUS
    <3>6. /\ r \in FetchCalls /\ r.at # "waiting"
          /\ r.at = "done" => r.fetch = tnCall[c].fetch /\ r.gen = tnCall[c].gen /\ f.size = TnSize[c]
      <4> HIDE DEF r
      <4> QED
        BY <2>0, <3>3, <3>4, <3>5
    <3>7. r.at = "done" => /\ r.fetch # 0 /\ tnFetch[r.fetch].gen = r.gen
                           /\ tnFetch[r.fetch].size = TnSize[c]
      <4> HIDE DEF r
      <4> QED
        BY <3>2, <3>6
    <3> HIDE DEF r
    <3> QED
      BY <2>0, <3>1, <3>6, <3>7, OneCallerMoves DEF TnTypeOK
  <2>5. ASSUME NEW c \in TnCallers, Return(c) \/ Abandon(c) PROVE ThumbnailInv'
    <3>1. Becomes(c, TnIdle) /\ UNCHANGED <<tnLive, tnGens, tnFetch, tnStarts, tnState>>
      BY <2>5 DEF Return, Abandon
    <3> QED
      BY <2>0, <3>1, OneCallerMoves DEF TnTypeOK
  <2>6. ASSUME UNCHANGED <<tnLive, tnGens>>,
               tnState' \in FetchStates, tnFetch' \in [TnFetches -> Fetches],
               tnCall' \in [TnCallers -> FetchCalls], tnStarts' \in [age : 0..TnTtl, reset : BOOLEAN],
               \A j \in TnFetches \ Unused : tnFetch'[j].gen = tnFetch[j].gen /\ tnFetch'[j].size = tnFetch[j].size,
               \A d \in TnCallers : /\ tnCall'[d].at = tnCall[d].at /\ tnCall'[d].gen = tnCall[d].gen
                                    /\ tnCall'[d].fetch = tnCall[d].fetch,
               KeptIsOwn', PacedByState'
        PROVE  ThumbnailInv'
    <3>1. TnTypeOK'
      BY <2>0, <2>6 DEF TnTypeOK
    <3>2. \A d \in TnCallers : tnCall[d].fetch # 0 =>
             /\ tnFetch'[tnCall[d].fetch].gen = tnFetch[tnCall[d].fetch].gen
             /\ tnFetch'[tnCall[d].fetch].size = tnFetch[tnCall[d].fetch].size
      BY <2>0, <2>6, HeldFacts DEF FetchCalls
    <3>3. WaitsForOwn' /\ DoneHasFetch' /\ DeliversWhatWasAsked'
      BY <2>6, <3>2 DEF ThumbnailInv, WaitsForOwn, DoneHasFetch, DeliversWhatWasAsked
    <3> QED
      BY <2>6, <3>1, <3>3 DEF ThumbnailInv
  <2>7. ASSUME NEW i \in TnFetches, CompleteFetch(i) PROVE ThumbnailInv'
    <3>1. PICK result \in {"error", "ok"} :
             /\ tnFetch' = Landed(i, result)
             /\ tnState' = IF tnState.gen = tnFetch[i].gen /\ tnState.flight = i
                           THEN [tnState EXCEPT !.flight = 0, !.cached = IF result = "ok" THEN i ELSE @]
                           ELSE tnState
      BY <2>7 DEF CompleteFetch
    <3>2. /\ tnFetch' \in [TnFetches -> Fetches]
          /\ \A j \in TnFetches \ Unused : tnFetch'[j].gen = tnFetch[j].gen /\ tnFetch'[j].size = tnFetch[j].size
      BY <2>0, <3>1, HeldFacts DEF Landed, Fetches
    <3>3. i \notin Unused /\ UNCHANGED <<tnLive, tnGens, tnCall, tnStarts>>
      BY <2>0, <2>7, HeldFacts DEF CompleteFetch
    <3>4. /\ tnState' \in FetchStates /\ tnState'.since = tnState.since /\ tnState'.gen = tnState.gen
          /\ tnState'.flight \in {0, tnState.flight} /\ tnState'.cached \in {tnState.cached, i}
          /\ tnState'.cached = i => tnFetch[i].gen = tnState.gen \/ i = tnState.cached
      BY <2>0, <3>1 DEF TnTypeOK, FetchStates
    <3>5. KeptIsOwn'
      BY <2>0, <3>2, <3>3, <3>4, HeldFacts DEF KeptIsOwn, TnTypeOK, FetchStates
    <3>6. PacedByState' /\ tnCall' \in [TnCallers -> FetchCalls] /\ tnStarts' \in [age : 0..TnTtl, reset : BOOLEAN]
      BY <2>0, <3>3, <3>4 DEF PacedByState, TnTypeOK
    <3> QED
      BY <2>6, <3>2, <3>3, <3>4, <3>5, <3>6
  <2>8. CASE Connect \/ Disconnect \/ Invalidate
    <3>1. TnTypeOK' /\ KeptIsOwn' /\ PacedByState'
      <4> USE DEF TnTypeOK, FetchStates, KeptIsOwn, PacedByState
      <4>1. CASE Connect
        <5>1. tnStarts' = [age |-> TnTtl, reset |-> FALSE] /\ UNCHANGED <<tnState, tnFetch, tnCall>>
              /\ tnGens' \in Nat /\ tnLive' \in Nat
          BY <2>0, <4>1 DEF Connect, TnNever
        <5> QED
          BY <2>0, <5>1
      <4>2. CASE Disconnect
        BY <2>0, <4>2 DEF Disconnect
      <4>3. CASE Invalidate
        <5>1. tnState' = [gen |-> 0, since |-> TnTtl, cached |-> 0, flight |-> 0]
              /\ tnStarts' = [tnStarts EXCEPT !.reset = tnStarts.age < TnTtl]
              /\ UNCHANGED <<tnLive, tnGens, tnFetch, tnCall>>
          BY <4>3 DEF Invalidate
        <5> DEFINE young == tnStarts.age < TnTtl
        <5>2. tnStarts'.age = tnStarts.age /\ tnStarts'.reset = young
              /\ tnStarts' \in [age : 0..TnTtl, reset : BOOLEAN]
          <6>1. tnStarts' = [tnStarts EXCEPT !.reset = young] /\ young \in BOOLEAN
            BY <5>1
          <6> HIDE DEF young
          <6> QED
            BY <2>0, <6>1 DEF TnTypeOK
        <5>3. TnTypeOK'
          BY <2>0, <5>1, <5>2
        <5>4. KeptIsOwn'
          BY <5>1
        <5>5. PacedByState'
          BY <2>0, <5>1, <5>2
        <5> QED
          BY <5>3, <5>4, <5>5
      <4> QED
        BY <2>8, <4>1, <4>2, <4>3
    <3>2. UNCHANGED <<tnFetch, tnCall>>
      BY <2>8 DEF Connect, Disconnect, Invalidate
    <3> QED
      BY <3>1, <3>2 DEF ThumbnailInv, WaitsForOwn, DoneHasFetch, DeliversWhatWasAsked
  <2>9. CASE Tick
    <3>1. tnFetch' = [j \in TnFetches |->
                        IF Held[j].result = "ok" THEN [Held[j] EXCEPT !.age = Older(@, TnTtl + 1)] ELSE Held[j]]
      BY <2>9 DEF Tick
    <3>2. \A j \in TnFetches : Held[j] \in Fetches
      BY <2>0, HeldFacts
    <3>3. \A j \in TnFetches : /\ tnFetch'[j] \in Fetches
                               /\ tnFetch'[j].gen = Held[j].gen /\ tnFetch'[j].size = Held[j].size
      BY <3>1, <3>2 DEF Fetches, Older
    <3>4. tnFetch' \in [TnFetches -> Fetches]
      BY <3>1, <3>3
    <3>5. \A j \in TnFetches \ Unused : tnFetch'[j].gen = tnFetch[j].gen /\ tnFetch'[j].size = tnFetch[j].size
      BY <2>0, <3>3, HeldFacts
    <3>6. tnCall' = [d \in TnCallers |-> [tnCall[d] EXCEPT !.timer = IF @ > 0 THEN @ - 1 ELSE 0]]
      BY <2>9 DEF Tick
    <3>7. \A d \in TnCallers : /\ tnCall'[d] \in FetchCalls
                               /\ tnCall'[d].at = tnCall[d].at /\ tnCall'[d].gen = tnCall[d].gen
                               /\ tnCall'[d].fetch = tnCall[d].fetch
      BY <2>0, <3>6 DEF FetchCalls
    <3>8. tnCall' \in [TnCallers -> FetchCalls]
      BY <3>6, <3>7
    <3>9. tnState' = [tnState EXCEPT !.since = Older(@, TnTtl), !.cached = Fresh(@)]
          /\ tnStarts' = [tnStarts EXCEPT !.age = Older(@, TnTtl)]
          /\ UNCHANGED <<tnLive, tnGens>>
      BY <2>9 DEF Tick
    <3>10. /\ tnState' \in FetchStates /\ tnState'.gen = tnState.gen /\ tnState'.flight = tnState.flight
           /\ tnState'.cached \in {0, tnState.cached} /\ tnState'.since = Older(tnState.since, TnTtl)
      <4>1. Older(tnState.since, TnTtl) \in 0..TnTtl /\ Fresh(tnState.cached) \in {0, tnState.cached}
        BY <2>0 DEF TnTypeOK, FetchStates, Older, Fresh
      <4> QED
        BY <2>0, <3>9, <4>1 DEF TnTypeOK, FetchStates
    <3>11. /\ tnStarts' \in [age : 0..TnTtl, reset : BOOLEAN]
           /\ tnStarts'.reset = tnStarts.reset /\ tnStarts'.age = Older(tnStarts.age, TnTtl)
      BY <2>0, <3>9 DEF TnTypeOK, Older
    <3>12. PacedByState'
      BY <2>0, <3>10, <3>11 DEF PacedByState, Older, TnTypeOK, FetchStates
    <3>13. KeptIsOwn'
      BY <2>0, <3>5, <3>10, HeldFacts DEF KeptIsOwn, TnTypeOK, FetchStates
    <3> QED
      BY <2>6, <3>4, <3>5, <3>7, <3>8, <3>9, <3>10, <3>11, <3>12, <3>13
  <2>10. CASE UNCHANGED tnVars
    BY <2>0, <2>10
    DEF tnVars, ThumbnailInv, TnTypeOK, KeptIsOwn, WaitsForOwn, DoneHasFetch, DeliversWhatWasAsked, PacedByState
  <2> QED
    BY <2>1, <2>2, <2>3, <2>4, <2>5, <2>7, <2>8, <2>9, <2>10 DEF TnNext, CallerStep
<1> QED
  BY <1>1, <1>2, PTL DEF TnSpec

\* For every number of callers, fetches and connections: a call gets a picture of
\* the connection it pinned and of the size it asked for, and the engine is asked
\* no oftener than the cadence allows unless an invalidate came in between.
THEOREM SharedFetches == TnSpec => SharedFetchIsSafe
<1> USE ThumbnailAssumption
<1>1. ThumbnailInv /\ [TnNext]_tnVars
      => [Starts(tnLive) => tnStarts.age = TnTtl \/ tnStarts.reset]_tnVars
  <2> SUFFICES ASSUME ThumbnailInv, TnNext, Starts(tnLive) PROVE tnStarts.age = TnTtl \/ tnStarts.reset
    OBVIOUS
  <2> USE DEF ThumbnailInv
  <2>1. PICK i \in TnFetches : /\ tnFetch[i].result # "flying" /\ tnFetch'[i].result = "flying"
                               /\ tnFetch'[i].gen = tnLive
    BY DEF Starts
  <2>2. tnFetch' # tnFetch
    BY <2>1
  <2>3. ~Tick
    <3> SUFFICES ASSUME Tick PROVE FALSE
      OBVIOUS
    <3>1. tnFetch'[i] = IF Held[i].result = "ok" THEN [Held[i] EXCEPT !.age = Older(@, TnTtl + 1)] ELSE Held[i]
      BY DEF Tick
    <3>2. Held[i] \in Fetches /\ (Held[i].result = "flying" => tnFetch[i].result = "flying")
      BY HeldFacts
    <3>3. tnFetch'[i].result = Held[i].result
      BY <3>1, <3>2 DEF Fetches
    <3> QED
      BY <2>1, <3>2, <3>3
  <2>4. \A j \in TnFetches : ~CompleteFetch(j)
    BY <2>1, HeldFacts DEF CompleteFetch, Landed, TnTypeOK
  <2>5. PICK c \in TnCallers : Decide(c)
    BY <2>2, <2>3, <2>4
    DEF TnNext, CallerStep, Call, Wake, Hear, Return, Abandon, Connect, Disconnect, Invalidate
  <2>6. /\ Adopted(tnCall[c].gen).since = TnTtl /\ Unused # {}
        /\ tnFetch' = [Held EXCEPT ![Min(Unused)] = [gen |-> tnCall[c].gen, size |-> TnSize[c],
                                      ui |-> c \in TnUi, result |-> "flying", age |-> 0]]
    BY <2>2, <2>5 DEF Decide
  <2>7. tnState.since = TnTtl
    BY <2>6 DEF Adopted, TnTypeOK
  <2> QED
    BY <2>7 DEF TnTypeOK, PacedByState
<1>2. ThumbnailInv => DeliversWhatWasAsked
  BY DEF ThumbnailInv
<1> QED
  BY <1>1, <1>2, ThumbnailInvariance, PTL DEF SharedFetchIsSafe, CadenceKept, TnSpec

-----------------------------------------------------------------------------
(* Reconnect: functions defined by recursion.                              *)

\* A step on natural numbers defines a function on the natural numbers.
LEMMA Recursion ==
    ASSUME NEW a \in Nat, NEW step \in [Nat \X Nat -> Nat]
    PROVE  \E f \in [Nat -> Nat] : f[0] = a /\ \A k \in Nat \ {0} : f[k] = step[<<k, f[k - 1]>>]
<1> DEFINE Upto(m, g) == /\ g \in [0..m -> Nat] /\ g[0] = a
                         /\ \A k \in 1..m : g[k] = step[<<k, g[k - 1]>>]
           Bad == {m \in Nat : ~ \E g : Upto(m, g)}
<1>1. ASSUME NEW m \in Bad, \A k \in Bad : m <= k PROVE FALSE
  <2>0. m \in Nat /\ ~ \E g : Upto(m, g)
    BY <1>1
  <2>1. CASE m = 0
    <3>1. Upto(0, [i \in 0..0 |-> a])
      OBVIOUS
    <3> HIDE DEF Upto
    <3> QED
      BY <2>0, <2>1, <3>1
  <2>2. CASE m # 0
    <3>1. m - 1 \in Nat /\ m - 1 \notin Bad
      <4> HIDE DEF Bad
      <4> QED
        BY <1>1, <2>0, <2>2
    <3>2. PICK g : Upto(m - 1, g)
      BY <3>1
    <3> DEFINE h == [i \in 0..m |-> IF i = m THEN step[<<m, g[m - 1]>>] ELSE g[i]]
    <3>3. m - 1 \in 0..(m - 1) /\ g[m - 1] \in Nat /\ <<m, g[m - 1]>> \in Nat \X Nat
      BY <2>0, <3>1, <3>2
    <3>4. \A i \in 0..m : i # m => i \in 0..(m - 1)
      BY <2>0
    <3>5. h \in [0..m -> Nat]
      BY <3>2, <3>3, <3>4
    <3>6. h[0] = a
      BY <2>0, <2>2, <3>2
    <3>7. ASSUME NEW k \in 1..m PROVE h[k] = step[<<k, h[k - 1]>>]
      <4>1. k - 1 \in 0..m /\ k \in 0..m /\ k - 1 # m /\ h[k - 1] = g[k - 1]
        BY <2>0
      <4>2. CASE k = m
        BY <4>1, <4>2
      <4>3. CASE k # m
        <5>1. k \in 1..(m - 1)
          BY <2>0, <4>3
        <5>2. h[k] = g[k]
          BY <4>1, <4>3
        <5> QED
          BY <3>2, <4>1, <5>1, <5>2
      <4> QED
        BY <4>2, <4>3
    <3>8. Upto(m, h)
      <4> HIDE DEF h
      <4> QED
        BY <3>5, <3>6, <3>7
    <3> HIDE DEF Upto, h
    <3> QED
      BY <2>0, <3>8
  <2> QED
    BY <2>1, <2>2
<1>2. \A m \in Nat : \E g : Upto(m, g)
  <2>1. Bad \subseteq Nat
    OBVIOUS
  <2>2. Bad = {}
    <3> HIDE DEF Bad
    <3> QED
      BY <1>1, <2>1, Least
  <2> HIDE DEF Upto
  <2> QED
    BY <2>2
<1>3. ASSUME NEW m \in Nat, NEW n \in Nat, NEW g, NEW h, Upto(m, g), Upto(n, h)
      PROVE  \A k \in Nat : k <= m /\ k <= n => g[k] = h[k]
  <2> DEFINE Apart == {k \in Nat : k <= m /\ k <= n /\ g[k] # h[k]}
  <2>1. ASSUME NEW k \in Apart, \A i \in Apart : k <= i PROVE FALSE
    <3>1. k \in Nat /\ k <= m /\ k <= n /\ g[k] # h[k]
      BY <2>1
    <3>2. k # 0
      BY <1>3, <3>1
    <3>3. k \in 1..m /\ k \in 1..n /\ k - 1 \in Nat /\ k - 1 <= m /\ k - 1 <= n /\ ~(k <= k - 1)
      BY <3>1, <3>2
    <3>4. k - 1 \notin Apart
      <4> HIDE DEF Apart
      <4> QED
        BY <2>1, <3>3
    <3>5. g[k - 1] = h[k - 1]
      BY <3>3, <3>4
    <3>6. g[k] = step[<<k, g[k - 1]>>] /\ h[k] = step[<<k, h[k - 1]>>]
      BY <1>3, <3>3
    <3> QED
      BY <3>1, <3>5, <3>6
  <2>2. Apart \subseteq Nat
    OBVIOUS
  <2>3. Apart = {}
    <3> HIDE DEF Apart
    <3> QED
      BY <2>1, <2>2, Least
  <2> QED
    BY <2>3
<1> DEFINE G == [m \in Nat |-> CHOOSE g : Upto(m, g)]
           f == [m \in Nat |-> G[m][m]]
<1>4. \A m \in Nat : Upto(m, G[m])
  <2> SUFFICES ASSUME NEW m \in Nat PROVE Upto(m, G[m])
    OBVIOUS
  <2>1. G[m] = CHOOSE g : Upto(m, g)
    OBVIOUS
  <2> HIDE DEF Upto, G
  <2> QED
    BY <1>2, <2>1, Zenon
<1>5. \A m \in Nat : f[m] = G[m][m]
  OBVIOUS
<1>6. f \in [Nat -> Nat]
  <2>1. \A m \in Nat : G[m][m] \in Nat
    <3> HIDE DEF G
    <3> QED
      BY <1>4
  <2> HIDE DEF G
  <2> QED
    BY <2>1
<1> HIDE DEF f, G
<1>7. f[0] = a
  BY <1>4, <1>5
<1>8. ASSUME NEW k \in Nat \ {0} PROVE f[k] = step[<<k, f[k - 1]>>]
  <2>1. k - 1 \in Nat /\ k - 1 <= k /\ k \in 1..k
    OBVIOUS
  <2>2. Upto(k, G[k]) /\ Upto(k - 1, G[k - 1])
    BY <1>4, <2>1
  <2>3. G[k][k] = step[<<k, G[k][k - 1]>>]
    BY <2>1, <2>2
  <2>4. G[k][k - 1] = G[k - 1][k - 1]
    <3>1. k \in Nat /\ k - 1 <= k - 1
      BY <2>1
    <3> HIDE DEF Upto
    <3>2. \A i \in Nat : i <= k /\ i <= k - 1 => G[k][i] = G[k - 1][i]
      BY <1>3, <2>1, <2>2, <3>1
    <3> QED
      BY <2>1, <3>1, <3>2
  <2> QED
    BY <1>5, <2>1, <2>3, <2>4
<1> QED
  BY <1>6, <1>7, <1>8

-----------------------------------------------------------------------------
(* Reconnect: what the backoff comes to.                                   *)

LEMMA MinOfTwo ==
    ASSUME NEW a \in Nat, NEW b \in Nat
    PROVE  Min({a, b}) = IF a <= b THEN a ELSE b
<1> DEFINE m == IF a <= b THEN a ELSE b
<1>1. m \in {a, b} /\ \A y \in {a, b} : m <= y
  OBVIOUS
<1>2. \A x \in {a, b} : (\A y \in {a, b} : x <= y) => x = m
  OBVIOUS
<1> QED
  BY <1>1, <1>2 DEF Min

\* The durations of a configuration.
LEMMA ConfigTypes ==
    ASSUME NEW cfg \in BoConfigs
    PROVE  /\ cfg.initial_backoff \in Nat /\ cfg.max_backoff \in Nat /\ cfg.max_elapsed \in Nat
           /\ cfg.jitter \in BOOLEAN
BY BoAssumption DEF BoDurationFields

\* The base doubles with each attempt, up to the cap.
LEMMA BaseDoubles ==
    ASSUME NEW cfg \in BoConfigs
    PROVE  \E d \in [Nat -> Nat] :
              /\ d[0] = cfg.initial_backoff /\ \A k \in Nat : d[k + 1] = 2 * d[k]
              /\ \A n \in Nat \ {0} : DocumentedBase(cfg, n) = Min({d[n - 1], cfg.max_backoff})
<1> DEFINE init == cfg.initial_backoff
           step == [p \in Nat \X Nat |-> 2 * p[2]]
           Rule(f) == f = [k \in Nat |-> IF k = 0 THEN init ELSE 2 * f[k - 1]]
           d == CHOOSE f : Rule(f)
<1>1. init \in Nat
  BY ConfigTypes
<1>2. step \in [Nat \X Nat -> Nat]
  OBVIOUS
<1>3. PICK f \in [Nat -> Nat] : f[0] = init /\ \A k \in Nat \ {0} : f[k] = step[<<k, f[k - 1]>>]
  <2> HIDE DEF step, init
  <2> QED
    BY <1>1, <1>2, Recursion
<1>4. Rule(f)
  <2>1. ASSUME NEW k \in Nat PROVE f[k] = IF k = 0 THEN init ELSE 2 * f[k - 1]
    <3>1. CASE k = 0
      BY <1>3, <3>1
    <3>2. CASE k # 0
      <4>1. k - 1 \in Nat /\ k \in Nat \ {0} /\ f[k - 1] \in Nat
        BY <3>2
      <4> QED
        BY <1>3, <3>2, <4>1
    <3> QED
      BY <3>1, <3>2
  <2> QED
    BY <2>1
<1>5. Rule(d)
  <2> HIDE DEF Rule
  <2> QED
    BY <1>4, Zenon
<1>6. \A n : DocumentedBase(cfg, n) = Min({d[n - 1], cfg.max_backoff})
  BY Zenon DEF DocumentedBase
<1> HIDE DEF d
<1>7. d = [k \in Nat |-> IF k = 0 THEN init ELSE 2 * d[k - 1]]
  BY <1>5
<1>8. d[0] = init /\ \A k \in Nat : d[k + 1] = 2 * d[k]
  <2>1. \A k \in Nat : k + 1 \in Nat /\ k + 1 # 0 /\ (k + 1) - 1 = k
    OBVIOUS
  <2> QED
    BY <1>7, <2>1
<1>9. d \in [Nat -> Nat]
  <2> DEFINE Odd == {k \in Nat : d[k] \notin Nat}
  <2>1. ASSUME NEW k \in Odd, \A i \in Odd : k <= i PROVE FALSE
    <3>1. k \in Nat /\ k # 0 /\ d[k] \notin Nat
      BY <1>1, <1>8, <2>1
    <3>2. k - 1 \in Nat /\ (k - 1) + 1 = k /\ ~(k <= k - 1)
      BY <3>1
    <3>3. k - 1 \notin Odd
      <4> HIDE DEF Odd
      <4> QED
        BY <2>1, <3>2
    <3>4. d[k - 1] \in Nat /\ d[k] = 2 * d[k - 1]
      BY <1>8, <3>2, <3>3
    <3> QED
      BY <3>1, <3>4
  <2>2. Odd \subseteq Nat
    OBVIOUS
  <2>3. Odd = {}
    <3> HIDE DEF Odd
    <3> QED
      BY <2>1, <2>2, Least
  <2>4. \A k \in Nat : d[k] \in Nat
    BY <2>3
  <2> QED
    BY <1>7, <2>4
<1> QED
  BY <1>6, <1>8, <1>9

\* The time the sleeps take grows by the base of each.
LEMMA PacedGrows ==
    ASSUME NEW cfg \in BoConfigs
    PROVE  /\ Paced(cfg, 0) = 0
           /\ \A n \in Nat : /\ Paced(cfg, n) \in Nat
                             /\ Paced(cfg, n + 1) = Paced(cfg, n) + DocumentedBase(cfg, n + 1)
<1> DEFINE base == [k \in Nat |-> DocumentedBase(cfg, k)]
           step == [p \in (Nat \X Nat) |-> IF p[1] = 0 THEN 0 ELSE p[2] + base[p[1]]]
           Rule(f) == f = [k \in Nat |-> IF k = 0 THEN 0 ELSE f[k - 1] + DocumentedBase(cfg, k)]
           s == CHOOSE f : Rule(f)
<1>1. \A k \in Nat \ {0} : DocumentedBase(cfg, k) \in Nat
  <2>1. PICK d \in [Nat -> Nat] : \A n \in Nat \ {0} : DocumentedBase(cfg, n) = Min({d[n - 1], cfg.max_backoff})
    BY BaseDoubles
  <2>2. ASSUME NEW k \in Nat \ {0} PROVE DocumentedBase(cfg, k) \in Nat
    <3>1. k - 1 \in Nat /\ d[k - 1] \in Nat /\ cfg.max_backoff \in Nat
      BY ConfigTypes
    <3>2. Min({d[k - 1], cfg.max_backoff}) \in Nat
      BY <3>1, MinOfTwo
    <3> QED
      BY <2>1, <3>2
  <2> QED
    BY <2>2
<1>2. step \in [Nat \X Nat -> Nat]
  <2>1. ASSUME NEW p \in Nat \X Nat PROVE (IF p[1] = 0 THEN 0 ELSE p[2] + base[p[1]]) \in Nat
    BY <1>1
  <2> HIDE DEF base
  <2> QED
    BY <2>1
<1>3. PICK f \in [Nat -> Nat] : f[0] = 0 /\ \A k \in Nat \ {0} : f[k] = step[<<k, f[k - 1]>>]
  <2>1. 0 \in Nat
    OBVIOUS
  <2> HIDE DEF step
  <2> QED
    BY <1>2, <2>1, Recursion
<1>4. Rule(f)
  <2>1. ASSUME NEW k \in Nat PROVE f[k] = IF k = 0 THEN 0 ELSE f[k - 1] + DocumentedBase(cfg, k)
    <3>1. CASE k = 0
      BY <1>3, <3>1
    <3>2. CASE k # 0
      <4>1. k - 1 \in Nat /\ k \in Nat \ {0} /\ f[k - 1] \in Nat
        BY <3>2
      <4>2. f[k] = step[<<k, f[k - 1]>>]
        BY <1>3, <4>1
      <4>3. step[<<k, f[k - 1]>>] = f[k - 1] + base[k]
        <5> HIDE DEF base
        <5> QED
          BY <3>2, <4>1
      <4>4. base[k] = DocumentedBase(cfg, k)
        OBVIOUS
      <4> QED
        BY <3>2, <4>2, <4>3, <4>4
    <3> QED
      BY <3>1, <3>2
  <2> QED
    BY <2>1
<1>5. Rule(s)
  <2> HIDE DEF Rule
  <2> QED
    BY <1>4, Zenon
<1>6. \A n : Paced(cfg, n) = s[n]
  BY Zenon DEF Paced
<1> HIDE DEF s
<1>7. s = [k \in Nat |-> IF k = 0 THEN 0 ELSE s[k - 1] + DocumentedBase(cfg, k)]
  BY <1>5
<1>8. s[0] = 0 /\ \A k \in Nat : s[k + 1] = s[k] + DocumentedBase(cfg, k + 1)
  <2>1. \A k \in Nat : k + 1 \in Nat /\ k + 1 # 0 /\ (k + 1) - 1 = k
    OBVIOUS
  <2> QED
    BY <1>7, <2>1
<1>9. \A k \in Nat : s[k] \in Nat
  <2> DEFINE Odd == {k \in Nat : s[k] \notin Nat}
  <2>1. ASSUME NEW k \in Odd, \A i \in Odd : k <= i PROVE FALSE
    <3>1. k \in Nat /\ k # 0 /\ s[k] \notin Nat
      BY <1>8, <2>1
    <3>2. k - 1 \in Nat /\ (k - 1) + 1 = k /\ ~(k <= k - 1) /\ k \in Nat \ {0}
      BY <3>1
    <3>3. k - 1 \notin Odd
      <4> HIDE DEF Odd
      <4> QED
        BY <2>1, <3>2
    <3>4. s[k - 1] \in Nat /\ s[k] = s[k - 1] + DocumentedBase(cfg, k)
      BY <1>8, <3>2, <3>3
    <3> QED
      BY <1>1, <3>1, <3>2, <3>4
  <2>2. Odd \subseteq Nat
    OBVIOUS
  <2>3. Odd = {}
    <3> HIDE DEF Odd
    <3> QED
      BY <2>1, <2>2, Least
  <2> QED
    BY <2>3
<1> QED
  BY <1>6, <1>8, <1>9

LEMMA Remainder ==
    ASSUME NEW x \in Nat, NEW m \in Nat \ {0}
    PROVE  x % m \in Nat /\ x % m < m /\ x % m <= x
OBVIOUS

LEMMA Quarter ==
    ASSUME NEW x \in Nat
    PROVE  x \div 4 \in Nat /\ x \div 4 <= x /\ \A y \in Nat : x <= y => x \div 4 <= y \div 4
OBVIOUS

\* The jitter is at most the quarter, also where the product wraps.
LEMMA JitterIsBounded ==
    ASSUME NEW base \in Nat, NEW salt \in Nat
    PROVE  Jitter(base, salt) \in Nat /\ Jitter(base, salt) <= base \div 4
<1> DEFINE M == 2^BoWord
           nanos == (base \div 4) % M
           mixed == (((nanos * salt) % M) + salt) % M
<1>1. M \in Nat \ {0}
  BY BoAssumption
<1>2. base \div 4 \in Nat
  BY Quarter
<1>3. Jitter(base, salt) = IF base \div 4 = 0 THEN 0 ELSE mixed % (nanos + 1)
  BY DEF Jitter
<1> HIDE DEF M
<1>4. nanos \in Nat /\ nanos <= base \div 4
  BY <1>1, <1>2, Remainder
<1>5. mixed \in Nat
  <2> HIDE DEF nanos
  <2>1. nanos * salt \in Nat
    BY <1>4
  <2>2. (nanos * salt) % M \in Nat
    BY <1>1, <2>1, Remainder
  <2>3. ((nanos * salt) % M) + salt \in Nat
    BY <2>2
  <2> QED
    BY <1>1, <2>3, Remainder
<1> HIDE DEF nanos, mixed
<1>6. mixed % (nanos + 1) \in Nat /\ mixed % (nanos + 1) < nanos + 1
  <2>1. nanos + 1 \in Nat \ {0}
    BY <1>4
  <2> QED
    BY <1>5, <2>1, Remainder
<1> QED
  BY <1>2, <1>3, <1>4, <1>6

\* A sleep is the capped backoff, lengthened by at most a quarter.
LEMMA SleepBounds ==
    ASSUME NEW current \in Nat, NEW max \in Nat, NEW jitter \in BOOLEAN, NEW salt \in Nat
    PROVE  LET base == Min({current, max}) IN
           /\ base \in Nat /\ NextBackoff(current, max, jitter, salt) \in Nat
           /\ base <= NextBackoff(current, max, jitter, salt)
           /\ NextBackoff(current, max, jitter, salt) <= base + base \div 4
<1> DEFINE base == Min({current, max})
           sleep == NextBackoff(current, max, jitter, salt)
<1>1. base \in Nat /\ base <= max
  BY MinOfTwo
<1>2. sleep = IF jitter THEN Min({base + Jitter(base, salt), max + max \div 4}) ELSE base
  BY DEF NextBackoff
<1> HIDE DEF base, sleep
<1>3. Jitter(base, salt) \in Nat /\ Jitter(base, salt) <= base \div 4
  BY <1>1, JitterIsBounded
<1>4. base \div 4 \in Nat /\ max \div 4 \in Nat /\ base \div 4 <= max \div 4
  BY <1>1, Quarter
<1>5. base + Jitter(base, salt) \in Nat /\ max + max \div 4 \in Nat
  BY <1>1, <1>3, <1>4
<1>6. Min({base + Jitter(base, salt), max + max \div 4}) =
        IF base + Jitter(base, salt) <= max + max \div 4 THEN base + Jitter(base, salt) ELSE max + max \div 4
  BY <1>5, MinOfTwo
<1>7. sleep \in Nat /\ base <= sleep /\ sleep <= base + base \div 4
  BY <1>1, <1>2, <1>3, <1>4, <1>6
<1> QED
  BY <1>1, <1>7 DEF base, sleep

-----------------------------------------------------------------------------
(* Reconnect: the inductive invariant.                                     *)

RetryTypes ==
    /\ boPhase \in {"idle", "stopping", "dialling", "sleeping", "connected", "timedOut", "dropped"}
    /\ boCfg \in BoConfigs
    /\ boStart \in Nat /\ boNow \in Nat /\ boWake \in Nat /\ boBackoff \in Nat /\ boAttempt \in Nat
    /\ boSlept \in Seq([base : Nat, sleep : Nat]) /\ Len(boSlept) <= 2

\* The base of the next sleep, and of the sleep under way.
BackoffIsBase ==
    /\ boPhase = "dialling" =>
          Min({boBackoff, boCfg.max_backoff}) = DocumentedBase(boCfg, boAttempt + 1)
    /\ boPhase = "sleeping" =>
          /\ boAttempt # 0 /\ boSlept # <<>>
          /\ Min({boBackoff, boCfg.max_backoff}) = DocumentedBase(boCfg, boAttempt)

\* The clock has gone as far as the sleeps so far ask for, and the sleep under
\* way ends no earlier.
PacedSoFar ==
    /\ boPhase = "dialling" => boStart <= boNow
    /\ boPhase = "sleeping" =>
          boWake >= boStart + Min({Paced(boCfg, boAttempt), boCfg.max_elapsed})

\* The dispatchers that live are the manager's or the one reconnect() ends, and
\* these are not two.
OneIsKept ==
    /\ boLive \ boStray \subseteq boHandle \cup boOld
    /\ \E d : boHandle \cup boOld \subseteq {d}
    /\ boPhase \in {"stopping", "dialling", "sleeping"} => boHandle = {}
    /\ boPhase # "stopping" => boOld = {}

RetryInv == RetryTypes /\ BackoffIsBase /\ SleepFollowsBackoff /\ PacedSoFar /\ RetriesArePaced /\ OneIsKept

\* A sequence of the last two.
LEMMA LastTwoOf ==
    ASSUME NEW S, NEW s \in Seq(S), Len(s) <= 2, NEW e \in S
    PROVE  /\ LastTwo(Append(s, e)) \in Seq(S) /\ Len(LastTwo(Append(s, e))) <= 2
           /\ LastTwo(Append(s, e)) # <<>>
           /\ LastTwo(Append(s, e))[Len(LastTwo(Append(s, e)))] = e
<1> DEFINE t == Append(s, e)
<1>1. t \in Seq(S) /\ Len(s) \in Nat /\ Len(t) = Len(s) + 1 /\ t[Len(s) + 1] = e
  OBVIOUS
<1> HIDE DEF t
<1>2. CASE Len(t) > 2
  <2>1. Tail(t) \in Seq(S) /\ Len(Tail(t)) = Len(t) - 1
    BY <1>1, <1>2
  <2>2. Len(t) = 3 /\ Len(Tail(t)) = 2
    BY <1>1, <1>2, <2>1
  <2>3. Tail(t)[2] = t[3]
    BY <1>1, <2>2
  <2>4. Tail(t) # <<>>
    <3>1. Len(<<>>) = 0 /\ Len(Tail(t)) # 0
      BY <2>2
    <3> QED
      BY <3>1, Zenon
  <2> QED
    BY <1>1, <1>2, <2>1, <2>2, <2>3, <2>4 DEF LastTwo, t
<1>3. CASE ~(Len(t) > 2)
  <2>1. t # <<>>
    BY <1>1
  <2> QED
    BY <1>1, <1>3, <2>1 DEF LastTwo, t
<1> QED
  BY <1>2, <1>3

\* A failed dial ends the loop or goes to sleep for what the documentation says.
LEMMA DialFailsKeeps == RetryInv /\ DialFails => RetryInv'
<1> SUFFICES ASSUME RetryInv, DialFails PROVE RetryInv'
  OBVIOUS
<1>1. /\ RetryTypes /\ BackoffIsBase /\ PacedSoFar /\ RetriesArePaced /\ OneIsKept
      /\ boCfg \in BoConfigs /\ boStart \in Nat /\ boNow \in Nat /\ boWake \in Nat
      /\ boBackoff \in Nat /\ boAttempt \in Nat
      /\ boSlept \in Seq([base : Nat, sleep : Nat]) /\ Len(boSlept) <= 2
  BY DEF RetryInv, RetryTypes
<1>2. /\ boCfg.max_backoff \in Nat /\ boCfg.max_elapsed \in Nat /\ boCfg.jitter \in BOOLEAN
  BY <1>1, ConfigTypes
<1>3. /\ boPhase = "dialling" /\ boAttempt' = boAttempt + 1
      /\ UNCHANGED <<boCfg, boStart, boBackoff, boHandle, boOld, boLive, boStray, boDials>>
  BY DEF DialFails, boManager
<1> DEFINE base == Min({boBackoff, boCfg.max_backoff})
           sleep == NextBackoff(boBackoff, boCfg.max_backoff, boCfg.jitter, boAttempt + 1)
<1>4. PICK d \in BoDialTimes :
        LET now == boNow + d
            deadline == boStart + boCfg.max_elapsed
        IN  /\ boNow' = now
            /\ IF now >= deadline
               THEN boPhase' = "timedOut" /\ UNCHANGED <<boWake, boSlept>>
               ELSE /\ boPhase' = "sleeping"
                    /\ boWake' = now + Clamped(sleep, now, deadline)
                    /\ boSlept' = LastTwo(Append(boSlept, [base |-> base, sleep |-> sleep]))
  BY DEF DialFails
<1>5. d \in Nat
  BY BoAssumption
<1>6. boAttempt + 1 \in Nat /\ boNow' = boNow + d /\ boNow' \in Nat
  BY <1>1, <1>4, <1>5
<1>7. OneIsKept'
  BY <1>1, <1>3, <1>4 DEF OneIsKept
<1>8. base \in Nat /\ sleep \in Nat /\ base <= sleep /\ sleep <= base + base \div 4
  BY <1>1, <1>2, <1>6, SleepBounds
<1>9. base = DocumentedBase(boCfg, boAttempt + 1)
  BY <1>1, <1>3 DEF BackoffIsBase
<1> HIDE DEF base, sleep
<1> DEFINE deadline == boStart + boCfg.max_elapsed
<1>10. CASE boNow' >= deadline
  <2>1. boPhase' = "timedOut" /\ UNCHANGED <<boWake, boSlept>>
    BY <1>4, <1>6, <1>10
  <2>2. RetryTypes'
    BY <1>1, <1>3, <1>6, <2>1 DEF RetryTypes
  <2> QED
    BY <1>7, <2>1, <2>2 DEF RetryInv, BackoffIsBase, SleepFollowsBackoff, PacedSoFar, RetriesArePaced
<1>11. CASE ~(boNow' >= deadline)
  <2>1. /\ boPhase' = "sleeping"
        /\ boWake' = boNow' + Clamped(sleep, boNow', deadline)
        /\ boSlept' = LastTwo(Append(boSlept, [base |-> base, sleep |-> sleep]))
    BY <1>4, <1>6, <1>11
  <2>2. deadline \in Nat /\ boNow' < deadline /\ deadline - boNow' \in Nat
    BY <1>1, <1>2, <1>6, <1>11
  <2>3. Clamped(sleep, boNow', deadline) = IF sleep <= deadline - boNow' THEN sleep ELSE deadline - boNow'
    BY <1>8, <2>2, MinOfTwo DEF Clamped
  <2>4. boWake' \in Nat /\ boWake' <= deadline /\ (boWake' = boNow' + sleep \/ boWake' = deadline)
    <3> HIDE DEF deadline
    <3> QED
      BY <1>6, <1>8, <2>1, <2>2, <2>3
  <2>5. [base |-> base, sleep |-> sleep] \in [base : Nat, sleep : Nat]
    BY <1>8
  <2>6. /\ boSlept' \in Seq([base : Nat, sleep : Nat]) /\ Len(boSlept') <= 2 /\ boSlept' # <<>>
        /\ boSlept'[Len(boSlept')] = [base |-> base, sleep |-> sleep]
    <3> DEFINE S == [base : Nat, sleep : Nat]
               e == [base |-> base, sleep |-> sleep]
    <3>1. boSlept \in Seq(S) /\ Len(boSlept) <= 2 /\ e \in S
      BY <1>1, <2>5
    <3>2. boSlept' = LastTwo(Append(boSlept, e))
      BY <2>1
    <3> HIDE DEF S, e
    <3>3. boSlept' \in Seq(S) /\ Len(boSlept') <= 2 /\ boSlept' # <<>> /\ boSlept'[Len(boSlept')] = e
      BY <3>1, <3>2, LastTwoOf
    <3> QED
      BY <3>3 DEF S, e
  <2>7. RetryTypes'
    BY <1>1, <1>3, <1>6, <2>1, <2>4, <2>6 DEF RetryTypes
  <2>8. BackoffIsBase'
    BY <1>1, <1>3, <1>9, <2>1, <2>6 DEF BackoffIsBase, base
  <2>9. SleepFollowsBackoff'
    <3>1. DocumentedBase(boCfg, boAttempt)' = base
      BY <1>3, <1>9
    <3>2. boSlept'[Len(boSlept')].sleep = sleep
      BY <2>6
    <3>3. base \div 4 \in Nat
      BY <1>8, Quarter
    <3>4. sleep \in base..(base + base \div 4)
      BY <1>8, <3>3
    <3> QED
      BY <3>1, <3>2, <3>4 DEF SleepFollowsBackoff
  <2>10. PacedSoFar'
    <3> DEFINE before == Paced(boCfg, boAttempt)
               then == Paced(boCfg, boAttempt + 1)
               elapsed == boCfg.max_elapsed
    <3>1. before \in Nat /\ then \in Nat /\ then = before + base
      BY <1>1, <1>6, <1>9, PacedGrows
    <3>2. boNow - boStart >= Min({before, elapsed}) /\ boStart <= boNow
      BY <1>1, <1>3 DEF RetriesArePaced, PacedSoFar
    <3>3. elapsed \in Nat
      BY <1>2
    <3> HIDE DEF before, then, elapsed
    <3>4. boNow - boStart >= (IF before <= elapsed THEN before ELSE elapsed)
      BY <3>1, <3>2, <3>3, MinOfTwo
    <3>5. Min({then, elapsed}) = IF then <= elapsed THEN then ELSE elapsed
      BY <3>1, <3>3, MinOfTwo
    <3>6. boNow' < boStart + elapsed /\ deadline = boStart + elapsed
      BY <2>2 DEF elapsed
    <3>7. boNow - boStart >= before
      BY <1>1, <1>5, <1>6, <3>1, <3>3, <3>4, <3>6
    <3>8. boNow' + sleep >= boStart + then
      BY <1>1, <1>5, <1>6, <1>8, <3>1, <3>7
    <3>9. boWake' >= boStart + Min({then, elapsed})
      <4> HIDE DEF deadline
      <4> QED
        BY <1>1, <1>6, <1>8, <2>4, <3>1, <3>3, <3>5, <3>6, <3>8
    <3>10. Min({Paced(boCfg, boAttempt), boCfg.max_elapsed})' = Min({then, elapsed})
      BY <1>3 DEF then, elapsed
    <3> QED
      BY <1>3, <2>1, <3>9, <3>10 DEF PacedSoFar
  <2>11. RetriesArePaced'
    BY <1>3, <2>1, <2>4 DEF RetriesArePaced
  <2> QED
    BY <1>7, <2>7, <2>8, <2>9, <2>10, <2>11 DEF RetryInv
<1> QED
  BY <1>10, <1>11

\* After the sleep the backoff has doubled, up to the cap.
LEMMA SleepEndsKeeps == RetryInv /\ SleepEnds => RetryInv'
<1> SUFFICES ASSUME RetryInv, SleepEnds PROVE RetryInv'
  OBVIOUS
<1>1. /\ RetryTypes /\ BackoffIsBase /\ PacedSoFar /\ RetriesArePaced /\ OneIsKept
      /\ boCfg \in BoConfigs /\ boStart \in Nat /\ boWake \in Nat /\ boBackoff \in Nat /\ boAttempt \in Nat
  BY DEF RetryInv, RetryTypes
<1>2. /\ boPhase = "sleeping" /\ boPhase' = "dialling"
      /\ boBackoff' = Grown(boBackoff, boCfg.max_backoff)
      /\ UNCHANGED <<boCfg, boStart, boWake, boAttempt, boSlept, boHandle, boOld, boLive, boStray, boDials>>
  BY DEF SleepEnds, boManager
<1>3. PICK l \in BoLate : boNow' = boWake + l
  BY DEF SleepEnds
<1>4. l \in Nat /\ boNow' \in Nat /\ boNow' >= boWake
  <2>1. l \in Nat
    BY BoAssumption
  <2> QED
    BY <1>1, <1>3, <2>1
<1> DEFINE max == boCfg.max_backoff
<1>5. max \in Nat /\ boCfg.max_elapsed \in Nat
  BY <1>1, ConfigTypes
<1>6. boBackoff' = IF 2 * boBackoff <= max THEN 2 * boBackoff ELSE max
  <2>1. 2 * boBackoff \in Nat
    BY <1>1
  <2> QED
    BY <1>2, <1>5, <2>1, MinOfTwo DEF Grown
<1>7. boBackoff' \in Nat
  <2> HIDE DEF max
  <2> QED
    BY <1>1, <1>5, <1>6
<1>8. RetryTypes'
  BY <1>1, <1>2, <1>4, <1>7 DEF RetryTypes
<1>9. Min({boBackoff', max}) = DocumentedBase(boCfg, boAttempt + 1)
  <2>1. PICK d \in [Nat -> Nat] :
          /\ \A k \in Nat : d[k + 1] = 2 * d[k]
          /\ \A n \in Nat \ {0} : DocumentedBase(boCfg, n) = Min({d[n - 1], max})
    BY <1>1, BaseDoubles
  <2>2. boAttempt # 0 /\ Min({boBackoff, max}) = DocumentedBase(boCfg, boAttempt)
    BY <1>1, <1>2 DEF BackoffIsBase
  <2>3. /\ boAttempt - 1 \in Nat /\ boAttempt \in Nat \ {0} /\ boAttempt + 1 \in Nat \ {0}
        /\ (boAttempt + 1) - 1 = boAttempt /\ (boAttempt - 1) + 1 = boAttempt
    BY <1>1, <2>2
  <2> DEFINE x == d[boAttempt - 1]
             y == d[boAttempt]
  <2>4. x \in Nat /\ y \in Nat /\ y = 2 * x
    <3>1. d[(boAttempt - 1) + 1] = 2 * d[boAttempt - 1]
      BY <2>1, <2>3
    <3> QED
      BY <2>1, <2>3, <3>1
  <2>5. Min({boBackoff, max}) = Min({x, max}) /\ DocumentedBase(boCfg, boAttempt + 1) = Min({y, max})
    <3>1. DocumentedBase(boCfg, boAttempt) = Min({d[boAttempt - 1], max})
      BY <2>1, <2>3
    <3>2. DocumentedBase(boCfg, boAttempt + 1) = Min({d[(boAttempt + 1) - 1], max})
      BY <2>1, <2>3
    <3> QED
      BY <2>2, <2>3, <3>1, <3>2
  <2> HIDE DEF x, y, max
  <2>6. (IF boBackoff <= max THEN boBackoff ELSE max) = (IF x <= max THEN x ELSE max)
    BY SMTT(30), <1>1, <1>5, <2>4, <2>5, MinOfTwo
  <2>7. Min({boBackoff', max}) = IF boBackoff' <= max THEN boBackoff' ELSE max
    BY <1>5, <1>7, MinOfTwo
  <2>8. Min({y, max}) = IF y <= max THEN y ELSE max
    BY <1>5, <2>4, MinOfTwo
  <2> QED
    BY <1>1, <1>5, <1>6, <2>4, <2>5, <2>6, <2>7, <2>8
<1>10. BackoffIsBase'
  BY <1>2, <1>9 DEF BackoffIsBase
<1>11. SleepFollowsBackoff'
  BY <1>2 DEF SleepFollowsBackoff
<1>12. RetriesArePaced' /\ PacedSoFar'
  <2> DEFINE least == Min({Paced(boCfg, boAttempt), boCfg.max_elapsed})
  <2>1. Paced(boCfg, boAttempt) \in Nat
    BY <1>1, PacedGrows
  <2>2. least \in Nat
    BY <1>5, <2>1, MinOfTwo
  <2>3. boWake >= boStart + least
    BY <1>1, <1>2 DEF PacedSoFar
  <2>4. least' = least
    BY <1>2
  <2> HIDE DEF least
  <2>5. boNow' - boStart >= least /\ boStart <= boNow'
    <3>1. boStart \in Nat /\ boWake \in Nat /\ boNow' \in Nat /\ boNow' >= boWake
      BY <1>1, <1>4
    <3>2. boNow' >= boStart + least
      BY <2>2, <2>3, <3>1
    <3>3. boStart <= boNow'
      BY <2>2, <3>1, <3>2
    <3>4. \A a, b, c \in Nat : a >= b + c => a - b >= c
      OBVIOUS
    <3> QED
      BY <2>2, <3>1, <3>2, <3>3, <3>4
  <2> QED
    BY <1>2, <2>4, <2>5 DEF RetriesArePaced, PacedSoFar, least
<1>13. OneIsKept'
  BY <1>1, <1>2 DEF OneIsKept
<1> QED
  BY <1>8, <1>10, <1>11, <1>12, <1>13 DEF RetryInv

\* The end of the old dispatcher starts the loop with the configured backoff.
LEMMA OldStoppedKeeps == RetryInv /\ OldStopped => RetryInv'
<1> SUFFICES ASSUME RetryInv, OldStopped PROVE RetryInv'
  OBVIOUS
<1>1. /\ RetryTypes /\ OneIsKept
      /\ boCfg \in BoConfigs /\ boNow \in Nat
  BY DEF RetryInv, RetryTypes
<1>2. /\ boPhase = "stopping" /\ boPhase' = "dialling"
      /\ boLive' = boLive \ boOld /\ boOld' = {}
      /\ boStart' = boNow /\ boBackoff' = boCfg.initial_backoff /\ boAttempt' = 0
      /\ boSlept' = <<>>
      /\ UNCHANGED <<boCfg, boNow, boWake, boHandle, boStray, boDials>>
  BY DEF OldStopped
<1>3. boCfg.initial_backoff \in Nat /\ boCfg.max_backoff \in Nat /\ boCfg.max_elapsed \in Nat
  BY <1>1, ConfigTypes
<1>4. RetryTypes'
  <2>1. <<>> \in Seq([base : Nat, sleep : Nat]) /\ Len(<<>>) <= 2
    OBVIOUS
  <2> QED
    BY <1>1, <1>2, <1>3, <2>1 DEF RetryTypes
<1>5. BackoffIsBase'
  <2>1. PICK d \in [Nat -> Nat] :
          /\ d[0] = boCfg.initial_backoff
          /\ \A n \in Nat \ {0} : DocumentedBase(boCfg, n) = Min({d[n - 1], boCfg.max_backoff})
    BY <1>1, BaseDoubles
  <2>2. DocumentedBase(boCfg, 1) = Min({d[0], boCfg.max_backoff})
    <3>1. DocumentedBase(boCfg, 1) = Min({d[1 - 1], boCfg.max_backoff})
      BY <2>1
    <3> QED
      BY <3>1
  <2>3. (boAttempt + 1)' = 1
    BY <1>2
  <2>4. Min({boBackoff, boCfg.max_backoff})' = DocumentedBase(boCfg, boAttempt + 1)'
    BY <1>2, <2>1, <2>2, <2>3
  <2> QED
    BY <1>2, <2>4 DEF BackoffIsBase
<1>6. RetriesArePaced' /\ PacedSoFar' /\ SleepFollowsBackoff'
  <2>1. Paced(boCfg, 0) = 0
    BY <1>1, PacedGrows
  <2>2. Min({Paced(boCfg, boAttempt), boCfg.max_elapsed})' = 0
    <3>1. Min({0, boCfg.max_elapsed}) = 0
      BY <1>3, MinOfTwo
    <3> QED
      BY <1>2, <2>1, <3>1
  <2>3. boNow' - boStart' = 0 /\ boStart' <= boNow'
    BY <1>1, <1>2
  <2> QED
    BY <1>2, <2>2, <2>3 DEF RetriesArePaced, PacedSoFar, SleepFollowsBackoff
<1>7. OneIsKept'
  BY <1>1, <1>2 DEF OneIsKept
<1> QED
  BY <1>4, <1>5, <1>6, <1>7 DEF RetryInv

\* RetryInv holds at the start, and every call, dial, sleep and end of a
\* dispatcher keeps it.
THEOREM RetryInvariance == BoSpec => []RetryInv
<1>1. BoInit => RetryInv
  <2> SUFFICES ASSUME BoInit PROVE RetryInv
    OBVIOUS
  <2>1. <<>> \in Seq([base : Nat, sleep : Nat]) /\ Len(<<>>) <= 2
    OBVIOUS
  <2>2. RetryTypes
    BY <2>1 DEF BoInit, RetryTypes
  <2> QED
    BY <2>2 DEF BoInit, RetryInv, BackoffIsBase, SleepFollowsBackoff, PacedSoFar, RetriesArePaced, OneIsKept
<1>2. RetryInv /\ [BoNext]_boVars => RetryInv'
  <2> SUFFICES ASSUME RetryInv, [BoNext]_boVars PROVE RetryInv'
    OBVIOUS
  <2>0. /\ RetryTypes /\ BackoffIsBase /\ SleepFollowsBackoff /\ PacedSoFar /\ RetriesArePaced /\ OneIsKept
    BY DEF RetryInv
  <2>1. ASSUME UNCHANGED <<boCfg, boLoop>>, boPhase' \notin {"dialling", "sleeping"},
               boPhase' \in {"idle", "stopping", "connected", "timedOut", "dropped"}, OneIsKept'
        PROVE  RetryInv'
    <3>1. RetryTypes'
      BY <2>0, <2>1 DEF RetryTypes, boLoop
    <3> QED
      BY <2>1, <3>1 DEF RetryInv, BackoffIsBase, SleepFollowsBackoff, PacedSoFar, RetriesArePaced
  <2>2. CASE ReconnectCall
    <3>1. OneIsKept'
      BY <2>0, <2>2 DEF ReconnectCall, TakeOld, OneIsKept
    <3> QED
      BY <2>1, <2>2, <3>1 DEF ReconnectCall, TakeOld
  <2>3. CASE OldStopped
    BY <2>3, OldStoppedKeeps
  <2>4. CASE DialSucceeds
    <3>1. /\ boPhase = "dialling" /\ boPhase' = "connected"
          /\ boLive' = boLive \cup {boDials} /\ boHandle' = {boDials}
          /\ UNCHANGED <<boCfg, boStart, boWake, boBackoff, boAttempt, boSlept, boOld, boStray, boDials>>
      BY <2>4 DEF DialSucceeds
    <3>2. boNow' \in Nat
      <4>1. PICK d \in BoDialTimes : boNow' = boNow + d
        BY <2>4 DEF DialSucceeds
      <4>2. d \in Nat /\ boNow \in Nat
        BY <2>0, BoAssumption DEF RetryTypes
      <4> QED
        BY <4>1, <4>2
    <3>3. RetryTypes'
      BY <2>0, <3>1, <3>2 DEF RetryTypes
    <3>4. OneIsKept'
      BY <2>0, <3>1 DEF OneIsKept
    <3> QED
      BY <3>1, <3>3, <3>4
      DEF RetryInv, BackoffIsBase, SleepFollowsBackoff, PacedSoFar, RetriesArePaced
  <2>5. CASE DialFails
    BY <2>5, DialFailsKeeps
  <2>6. CASE SleepEnds
    BY <2>6, SleepEndsKeeps
  <2>7. CASE CallDropped
    <3>1. OneIsKept'
      BY <2>0, <2>7 DEF CallDropped, OneIsKept
    <3> QED
      BY <2>1, <2>7, <3>1 DEF CallDropped
  <2>8. CASE PeerHangsUp \/ UNCHANGED boVars
    <3>1. /\ UNCHANGED <<boPhase, boCfg, boStart, boNow, boWake, boBackoff, boAttempt, boSlept>>
          /\ UNCHANGED <<boHandle, boOld, boStray>> /\ boLive' \subseteq boLive
      BY <2>8 DEF PeerHangsUp, boVars, boLoop, boManager
    <3>2. RetryTypes' /\ OneIsKept'
      BY <2>0, <3>1 DEF RetryTypes, OneIsKept
    <3>3. BackoffIsBase' /\ SleepFollowsBackoff' /\ PacedSoFar' /\ RetriesArePaced'
      BY <2>0, <3>1 DEF BackoffIsBase, SleepFollowsBackoff, PacedSoFar, RetriesArePaced
    <3> QED
      BY <3>2, <3>3 DEF RetryInv
  <2> QED
    BY <2>2, <2>3, <2>4, <2>5, <2>6, <2>7, <2>8 DEF BoNext
<1> QED
  BY <1>1, <1>2, PTL DEF BoSpec

\* For every configuration, all dial times and any number of calls: a sleep is the
\* documented backoff lengthened by at most a quarter, also where the product of
\* the jitter wraps, the dials are as far apart as that asks for, no sleep is
\* planned beyond the budget, and reconnect() never has two dispatchers.
THEOREM RetriesKeepPace == BoSpec => []RetryKeepsItsPace
<1>1. RetryInv => RetryKeepsItsPace
  <2> SUFFICES ASSUME RetryInv PROVE NoOverlap
    BY DEF RetryInv, RetryKeepsItsPace
  <2>1. PICK d : boLive \ boStray \subseteq {d}
    BY DEF RetryInv, OneIsKept
  <2>2. IsFiniteSet({d}) /\ Cardinality({d}) = 1
    BY FS_Singleton
  <2>3. Cardinality(boLive \ boStray) <= Cardinality({d})
    BY <2>1, <2>2, FS_Subset
  <2> QED
    BY <2>2, <2>3 DEF NoOverlap
<1> QED
  BY <1>1, RetryInvariance, PTL

-----------------------------------------------------------------------------
(* ToolCatalog: the inductive invariant.                                   *)

AllTools == DOMAIN ReadTools \cup DOMAIN WriteTools
CatalogStates == [gen : Nat, caps : {{}} \cup TcOffers, writes : BOOLEAN, ready : BOOLEAN]
CatalogClients == [at : {"new", "open"}, seen : Nat, told : BOOLEAN, listed : BOOLEAN, tools : SUBSET AllTools]
Methods ==
    {"getStatus", "getCapabilities", "getTree", "getSnapshot", "getSchema", "getManifest", "resolve", "getThumbnail",
     "setProperty", "createObject", "deleteObject", "reparentObject", "duplicateObject", "addComponent",
     "removeComponent", "control"}
CatalogCalls ==
    [at : {"idle", "called", "checked", "caught", "pinned", "admitted", "sent", "answered", "refused"},
     tool : TcTools \cup {""}, checked : Nat, gen : Nat, lease : Nat, sent : SUBSET Methods]

\* The generation of the newest connection.
Newest == Cardinality(DOMAIN tcOffered)

CatalogTypes ==
    /\ tcState \in CatalogStates /\ tcVersion \in Nat /\ tcSession \in Nat
    /\ tcSetter \in [Setters -> [at : {"idle", "notify", "end"}, session : Nat]]
    /\ tcClient \in CatalogClients /\ tcCall \in CatalogCalls
    /\ Newest \in Nat /\ DOMAIN tcOffered = 1..Newest

\* The catalogue offers what the newest connection's engine advertised, or nothing.
OfNewest ==
    /\ tcState.gen \in {0, Newest}
    /\ tcState.gen # 0 => tcState.caps = tcOffered[tcState.gen]

\* A list that is not the current one is going to be renewed: the client has been
\* told, or there is something to tell, or somebody is about to say so.
Announcing == \E s \in Setters : tcSetter[s].at = "notify"
StaleIsKnown ==
    /\ tcClient.seen <= tcVersion
    /\ tcClient.at = "new" => ~tcClient.listed
    /\ tcClient.listed /\ tcClient.tools # ListTools(tcState) =>
          tcClient.told \/ tcClient.seen # tcVersion \/ Announcing

\* The published session is the catalogue's, but while publish_session is between
\* the two.
SessionFits ==
    LET bridge == tcSetter["bridge"]
    IN  tcState.gen = IF bridge.at = "idle" THEN tcSession ELSE bridge.session

\* A call knows generations that there are, and is sent to the one it pinned last.
KnowsItsEngine(call) ==
    /\ call.at \in {"caught", "pinned", "admitted", "sent", "answered"} => call.gen \in 1..Newest
    /\ call.at \in {"pinned", "admitted", "sent", "answered"} =>
          call.lease \in 1..Newest /\ (call.lease = call.gen \/ IsImage(call.tool))

\* A write is let through by its own engine; another read at least if its engine is
\* still the current one, which it will be if its answer is passed on.
LetThrough(call) ==
    call.at \in {"admitted", "sent"} /\ ~IsImage(call.tool) /\ (IsWrite(call.tool) \/ tcState.gen = call.lease) =>
        Advertised(call)

\* An image was validated by an engine that has it, which is not a later one than
\* the one it is asked of.
ImageChecked(call) ==
    IsImage(call.tool) =>
        /\ call.at \in {"checked", "caught", "pinned", "admitted", "sent", "answered"} =>
              call.checked \in 1..Newest /\ Needs(call.tool) \subseteq tcOffered[call.checked]
        /\ call.at \in {"caught", "pinned", "admitted", "sent", "answered"} => call.checked <= call.gen
        /\ call.at \in {"admitted", "sent", "answered"} => call.sent = ReadMethods(call.tool)

Answered(call) ==
    call.at = "answered" => Advertised(call) \/ (IsImage(call.tool) /\ call.checked < call.lease)

CallFits(call) == KnowsItsEngine(call) /\ LetThrough(call) /\ ImageChecked(call) /\ Answered(call)

CatalogInv == CatalogTypes /\ OfNewest /\ SessionFits /\ StaleIsKnown /\ CallFits(tcCall)

-----------------------------------------------------------------------------
(* The tables.                                                             *)

\* A read sends only methods its own needs stand for.
LEMMA ReadsNeedTheirMethods ==
    ASSUME NEW tool, ~IsWrite(tool), NEW m \in ReadMethods(tool)
    PROVE  CapabilityOf(m) \subseteq Needs(tool)
<1>1. CASE tool \in {"engine_get_status", "bridge_get_capabilities"}
  BY <1>1 DEF ReadMethods, CapabilityOf
<1>2. CASE tool \in {"scene_get_tree", "scene_get_tree_page", "object_get_snapshot", "schema_get_snapshot"}
  BY <1>2 DEF ReadMethods, CapabilityOf, Needs, ReadTools
<1>3. CASE tool \in {"asset_get_manifest", "asset_resolve", "viewport_get_thumbnail"}
  BY <1>3 DEF ReadMethods, CapabilityOf, Needs, ReadTools
<1> QED
  BY <1>1, <1>2, <1>3 DEF ReadMethods

\* A write, an undo or a redo sends only methods that its required capabilities
\* stand for, whatever it finds in the history.
LEMMA WritesNeedTheirMethods ==
    ASSUME NEW tool, IsWrite(tool), NEW head, NEW m \in WriteMethods(tool, head)
    PROVE  CapabilityOf(m) \subseteq RequiredCapabilities(tool, head)
<1>1. CASE tool \in {"object_set_property", "component_add", "component_remove"}
  BY <1>1 DEF WriteMethods, CapabilityOf, RequiredCapabilities, WriteTools
<1>2. CASE tool \in {"scene_create_object", "scene_delete_object", "scene_reparent_object", "scene_duplicate_object"}
  BY <1>2 DEF WriteMethods, CapabilityOf, RequiredCapabilities, WriteTools
<1>3. CASE tool \in {"runtime_play", "runtime_pause", "runtime_stop"}
  BY <1>3 DEF WriteMethods, CapabilityOf, RequiredCapabilities, WriteTools
<1>4. CASE tool \in {"edit_undo", "edit_redo"}
  BY <1>4 DEF WriteMethods, CapabilityOf, RequiredCapabilities
<1> QED
  BY <1>1, <1>2, <1>3, <1>4 DEF WriteMethods

\* The methods of a call are methods of the protocol.
LEMMA MethodsAreKnown ==
    ASSUME NEW tool, NEW head
    PROVE  ReadMethods(tool) \subseteq Methods /\ WriteMethods(tool, head) \subseteq Methods
<1>1. ReadMethods(tool) \subseteq Methods
  BY DEF ReadMethods, Methods
<1>2. WriteMethods(tool, head) \subseteq Methods
  <2>1. CASE tool \in {"edit_undo", "edit_redo"}
    BY <2>1 DEF WriteMethods, Methods
  <2>2. CASE tool \notin {"edit_undo", "edit_redo"}
    BY <2>2 DEF WriteMethods, Methods
  <2> QED
    BY <2>1, <2>2
<1> QED
  BY <1>1, <1>2

-----------------------------------------------------------------------------
(* The steps.                                                              *)

\* A change of the catalogue's state: one that changes what is offered is announced.
LEMMA ChangeKeepsKnown ==
    ASSUME CatalogInv, NEW setter \in Setters, NEW next \in CatalogStates, NEW sid \in Nat,
           Change(setter, next, sid)
    PROVE  /\ tcSetter' \in [Setters -> [at : {"idle", "notify", "end"}, session : Nat]]
           /\ tcState' = next /\ UNCHANGED <<tcSession, tcVersion, tcClient, tcCall>>
           /\ StaleIsKnown'
           /\ (IF setter = "bridge" THEN sid = next.gen ELSE next.gen = tcState.gen) => SessionFits'
<1>1. /\ tcState' = next /\ UNCHANGED <<tcSession, tcVersion, tcClient, tcCall>>
      /\ tcSetter[setter].at = "idle"
      /\ tcSetter' = [tcSetter EXCEPT ![setter] = [at |-> IF Noticed(next) THEN "notify" ELSE "end",
                                                   session |-> sid]]
  BY DEF Change
<1>2. tcSetter \in [Setters -> [at : {"idle", "notify", "end"}, session : Nat]]
  BY DEF CatalogInv, CatalogTypes
<1>3. tcSetter' \in [Setters -> [at : {"idle", "notify", "end"}, session : Nat]]
  BY <1>1, <1>2
<1>4. /\ \A s \in Setters : tcSetter[s].at = "notify" => tcSetter'[s].at = "notify"
      /\ next # tcState => tcSetter'[setter].at = "notify"
  BY <1>1, <1>2 DEF Noticed
<1>5. next = tcState => ListTools(tcState)' = ListTools(tcState)
  BY <1>1
<1>6. Announcing => Announcing'
  BY <1>4 DEF Announcing
<1>7. next # tcState => Announcing'
  BY <1>4 DEF Announcing
<1>8. (IF setter = "bridge" THEN sid = next.gen ELSE next.gen = tcState.gen) => SessionFits'
  <2>1. CASE setter = "bridge"
    <3>1. tcSetter'["bridge"].at # "idle" /\ tcSetter'["bridge"].session = sid
      BY <1>1, <1>2, <2>1 DEF Setters
    <3> QED
      BY <1>1, <2>1, <3>1 DEF SessionFits
  <2>2. CASE setter # "bridge"
    <3>1. tcSetter'["bridge"] = tcSetter["bridge"]
      BY <1>1, <1>2, <2>2 DEF Setters
    <3> QED
      BY <1>1, <2>2, <3>1 DEF CatalogInv, SessionFits
  <2> QED
    BY <2>1, <2>2
<1> QED
  BY <1>1, <1>3, <1>5, <1>6, <1>7, <1>8 DEF CatalogInv, StaleIsKnown

\* A call stays what it is when the catalogue changes: an engine that has been
\* there keeps what it advertised, and is never the current one again.
LEMMA CallStays ==
    ASSUME CallFits(tcCall), UNCHANGED tcCall, Newest \in Nat, Newest' \in Nat, Newest <= Newest',
           tcCall.lease \in Nat, \A g \in 1..Newest : tcOffered'[g] = tcOffered[g],
           tcState'.gen = tcState.gen \/ tcState'.gen \notin 1..Newest
    PROVE  CallFits(tcCall)'
<1>1. 1..Newest \subseteq 1..Newest'
  OBVIOUS
<1>2. KnowsItsEngine(tcCall)'
  BY <1>1 DEF CallFits, KnowsItsEngine
<1>3. tcCall.lease \in 1..Newest => Advertised(tcCall)' = Advertised(tcCall)
  BY DEF Advertised
<1>4. LetThrough(tcCall)'
  BY <1>3 DEF CallFits, LetThrough, KnowsItsEngine
<1>5. tcCall.checked \in 1..Newest => tcOffered'[tcCall.checked] = tcOffered[tcCall.checked]
  OBVIOUS
<1>6. ImageChecked(tcCall)'
  BY <1>1, <1>5 DEF CallFits, ImageChecked
<1>7. Answered(tcCall)'
  BY <1>3 DEF CallFits, Answered, KnowsItsEngine
<1> QED
  BY <1>2, <1>4, <1>6, <1>7 DEF CallFits

\* A step of the call leaves the catalogue and the client as they are.
LEMMA CallKeeps ==
    ASSUME CatalogInv, NEW call \in CatalogCalls, CallMoves(call), CallFits(call)
    PROVE  CatalogInv'
<1>1. tcCall' = call /\ UNCHANGED <<tcState, tcOffered, tcSession, tcVersion, tcSetter, tcChanges, tcClient>>
  BY DEF CallMoves
<1>2. Newest' = Newest
  BY <1>1 DEF Newest
<1>3. CatalogTypes'
  BY <1>1, <1>2 DEF CatalogInv, CatalogTypes
<1>4. OfNewest'
  BY <1>1, <1>2 DEF CatalogInv, OfNewest
<1>5. Announcing' = Announcing /\ ListTools(tcState)' = ListTools(tcState)
  BY <1>1 DEF Announcing
<1>6. StaleIsKnown'
  BY <1>1, <1>5 DEF CatalogInv, StaleIsKnown
<1>7. Advertised(call)' = Advertised(call)
  BY <1>1 DEF Advertised
<1>8. CallFits(tcCall)'
  BY <1>1, <1>2, <1>7 DEF CallFits, KnowsItsEngine, LetThrough, ImageChecked, Answered, Advertised
<1>9. SessionFits'
  BY <1>1 DEF CatalogInv, SessionFits
<1> QED
  BY <1>3, <1>4, <1>6, <1>8, <1>9 DEF CatalogInv

\* CatalogInv holds at the start and every step of a setter, the client or a call
\* keeps it.
THEOREM CatalogInvariance == TcSpec => []CatalogInv
<1>1. TcInit => CatalogInv
  <2> SUFFICES ASSUME TcInit PROVE CatalogInv
    OBVIOUS
  <2>1. DOMAIN tcOffered = {} /\ Newest = 0
    <3>1. tcOffered = <<>>
      BY DEF TcInit
    <3>2. DOMAIN tcOffered = {}
      BY <3>1
    <3>3. Cardinality({}) = 0
      BY FS_EmptySet
    <3> QED
      BY <3>2, <3>3 DEF Newest
  <2>2. CatalogTypes
    <3>1. tcState \in CatalogStates /\ tcVersion \in Nat /\ tcSession \in Nat
      BY DEF TcInit, CatalogStates
    <3>2. tcSetter \in [Setters -> [at : {"idle", "notify", "end"}, session : Nat]]
      BY DEF TcInit, NoSetter
    <3>3. tcClient \in CatalogClients
      BY DEF TcInit, CatalogClients, NoClient
    <3>4. tcCall \in CatalogCalls
      BY DEF TcInit, CatalogCalls, NoToolCall
    <3>5. 1..Newest = {}
      BY <2>1
    <3> QED
      BY <2>1, <3>1, <3>2, <3>3, <3>4, <3>5 DEF CatalogTypes
  <2>3. OfNewest
    BY DEF TcInit, OfNewest
  <2>4. StaleIsKnown
    BY DEF TcInit, StaleIsKnown, NoClient
  <2>5. CallFits(tcCall)
    BY DEF TcInit, CallFits, KnowsItsEngine, LetThrough, ImageChecked, Answered, NoToolCall
  <2>6. SessionFits
    BY DEF TcInit, SessionFits, NoSetter, Setters
  <2> QED
    BY <2>2, <2>3, <2>4, <2>5, <2>6 DEF CatalogInv
<1>2. CatalogInv /\ [TcNext]_tcVars => CatalogInv'
  <2> SUFFICES ASSUME CatalogInv, [TcNext]_tcVars PROVE CatalogInv'
    OBVIOUS
  <2>0. /\ CatalogTypes /\ OfNewest /\ SessionFits /\ StaleIsKnown /\ CallFits(tcCall)
        /\ tcState \in CatalogStates /\ tcCall \in CatalogCalls /\ tcClient \in CatalogClients
        /\ tcVersion \in Nat /\ Newest \in Nat
    BY DEF CatalogInv, CatalogTypes
  <2>1. ASSUME NEW offer \in TcOffers, PublishConnection(offer) PROVE CatalogInv'
    <3> DEFINE next == [tcState EXCEPT !.gen = Newest + 1, !.caps = offer]
    <3>1. Change("bridge", next, Newest + 1)
      BY <2>1 DEF PublishConnection, Newest
    <3>2. tcOffered' = [g \in 1..(Newest + 1) |-> IF g \in DOMAIN tcOffered THEN tcOffered[g] ELSE offer]
      BY <2>1 DEF PublishConnection, Newest
    <3>3. next \in CatalogStates /\ next.gen = Newest + 1 /\ next.caps = offer
      <4>1. offer \in {{}} \cup TcOffers /\ Newest + 1 \in Nat
        BY <2>0
      <4>2. ASSUME NEW n \in Nat
            PROVE  LET s == [tcState EXCEPT !.gen = n, !.caps = offer]
                   IN  s \in CatalogStates /\ s.gen = n /\ s.caps = offer
        BY <2>0, <4>1 DEF CatalogStates
      <4> QED
        BY <4>1, <4>2
    <3>4. "bridge" \in Setters /\ Newest + 1 \in Nat
      BY <2>0 DEF Setters
    <3> HIDE DEF next
    <3>5. /\ tcSetter' \in [Setters -> [at : {"idle", "notify", "end"}, session : Nat]]
          /\ tcState' = next /\ UNCHANGED <<tcSession, tcVersion, tcClient, tcCall>>
          /\ StaleIsKnown' /\ SessionFits'
      BY <3>1, <3>3, <3>4, ChangeKeepsKnown
    <3>6. DOMAIN tcOffered = 1..Newest
      BY <2>0 DEF CatalogTypes
    <3>7. DOMAIN tcOffered' = 1..(Newest + 1) /\ Newest' = Newest + 1
      <4>1. DOMAIN tcOffered' = 1..(Newest + 1)
        BY <3>2
      <4>2. Cardinality(1..(Newest + 1)) = Newest + 1
        BY <2>0, FS_Interval
      <4> QED
        BY <4>1, <4>2 DEF Newest
    <3>8. tcOffered'[Newest + 1] = offer /\ \A g \in 1..Newest : tcOffered'[g] = tcOffered[g]
      BY <2>0, <3>2, <3>6
    <3>9. CatalogTypes'
      BY <2>0, <3>3, <3>5, <3>7 DEF CatalogTypes
    <3>10. OfNewest'
      BY <3>3, <3>5, <3>7, <3>8 DEF OfNewest
    <3>11. CallFits(tcCall)'
      <4>1. tcCall.lease \in Nat
        BY <2>0 DEF CatalogCalls
      <4>2. Newest + 1 \notin 1..Newest /\ Newest <= Newest + 1
        BY <2>0
      <4> QED
        BY <2>0, <3>3, <3>4, <3>5, <3>7, <3>8, <4>1, <4>2, CallStays
    <3> QED
      BY <3>5, <3>9, <3>10, <3>11 DEF CatalogInv
  <2>2. ASSUME NEW setter \in Setters, NEW next \in CatalogStates, Change(setter, next, 0), UNCHANGED tcOffered,
               next.gen # 0 => next.gen = tcState.gen /\ next.caps = tcState.caps,
               IF setter = "bridge" THEN next.gen = 0 ELSE next.gen = tcState.gen
        PROVE  CatalogInv'
    <3>1. /\ tcSetter' \in [Setters -> [at : {"idle", "notify", "end"}, session : Nat]]
          /\ tcState' = next /\ UNCHANGED <<tcSession, tcVersion, tcClient, tcCall>>
          /\ StaleIsKnown' /\ SessionFits'
      BY <2>2, ChangeKeepsKnown
    <3>2. Newest' = Newest
      BY <2>2 DEF Newest
    <3>3. CatalogTypes'
      BY <2>0, <2>2, <3>1, <3>2 DEF CatalogTypes
    <3>4. OfNewest'
      BY <2>0, <2>2, <3>1, <3>2 DEF OfNewest
    <3>5. CallFits(tcCall)'
      <4>1. tcCall.lease \in Nat
        BY <2>0 DEF CatalogCalls
      <4>2. 0 \notin 1..Newest /\ Newest <= Newest
        BY <2>0
      <4> QED
        BY <2>0, <2>2, <3>1, <3>2, <4>1, <4>2, CallStays
    <3> QED
      BY <3>1, <3>3, <3>4, <3>5 DEF CatalogInv
  <2>3. CASE PublishNone
    <3>1. [tcState EXCEPT !.gen = 0, !.caps = {}] \in CatalogStates
          /\ [tcState EXCEPT !.gen = 0, !.caps = {}].gen = 0
      BY <2>0 DEF CatalogStates
    <3> QED
      BY <2>2, <2>3, <3>1 DEF PublishNone, Setters
  <2>4. ASSUME NEW writes \in BOOLEAN, SetWritePermission(writes) PROVE CatalogInv'
    <3>1. /\ [tcState EXCEPT !.writes = writes] \in CatalogStates
          /\ [tcState EXCEPT !.writes = writes].gen = tcState.gen
          /\ [tcState EXCEPT !.writes = writes].caps = tcState.caps
      BY <2>0 DEF CatalogStates
    <3> QED
      BY <2>2, <2>4, <3>1 DEF SetWritePermission, Setters
  <2>5. CASE SetWriteHandlersReady
    <3>1. /\ [tcState EXCEPT !.ready = TRUE] \in CatalogStates
          /\ [tcState EXCEPT !.ready = TRUE].gen = tcState.gen
          /\ [tcState EXCEPT !.ready = TRUE].caps = tcState.caps
      BY <2>0 DEF CatalogStates
    <3> QED
      BY <2>2, <2>5, <3>1 DEF SetWriteHandlersReady, Setters
  <2>6. ASSUME UNCHANGED <<tcState, tcOffered, tcCall>>, StaleIsKnown', SessionFits',
               tcVersion' \in Nat, tcSession' \in Nat,
               tcSetter' \in [Setters -> [at : {"idle", "notify", "end"}, session : Nat]],
               tcClient' \in CatalogClients
        PROVE  CatalogInv'
    <3>1. Newest' = Newest
      BY <2>6 DEF Newest
    <3>2. CatalogTypes'
      BY <2>0, <2>6, <3>1 DEF CatalogTypes
    <3>3. OfNewest'
      BY <2>0, <2>6, <3>1 DEF OfNewest
    <3>4. CallFits(tcCall)'
      <4>1. tcCall.lease \in Nat
        BY <2>0 DEF CatalogCalls
      <4> QED
        BY <2>0, <2>6, <3>1, <4>1, CallStays
    <3> QED
      BY <2>6, <3>2, <3>3, <3>4 DEF CatalogInv
  <2>7. ASSUME NEW setter \in Setters, NotifyChanged(setter) PROVE CatalogInv'
    <3>1. /\ tcVersion' = tcVersion + 1 /\ tcSetter' = [tcSetter EXCEPT ![setter].at = "end"]
          /\ UNCHANGED <<tcState, tcOffered, tcSession, tcChanges, tcClient, tcCall>>
      BY <2>7 DEF NotifyChanged
    <3>2. tcSetter' \in [Setters -> [at : {"idle", "notify", "end"}, session : Nat]]
      BY <2>0, <3>1 DEF CatalogTypes
    <3>3. tcClient'.seen <= tcVersion /\ tcClient'.seen \in Nat
      BY <2>0, <3>1 DEF StaleIsKnown, CatalogClients
    <3>4. StaleIsKnown'
      BY <2>0, <3>1, <3>3 DEF StaleIsKnown
    <3>5. SessionFits'
      <4>1. /\ tcSetter'["bridge"].at = "idle" <=> tcSetter["bridge"].at = "idle"
            /\ tcSetter'["bridge"].session = tcSetter["bridge"].session
        BY <2>0, <2>7, <3>1 DEF CatalogTypes, NotifyChanged, Setters
      <4> QED
        BY <2>0, <3>1, <4>1 DEF SessionFits
    <3> QED
      BY <2>0, <2>6, <3>1, <3>2, <3>4, <3>5 DEF CatalogTypes
  <2>8. ASSUME NEW setter \in Setters, SetterEnds(setter) PROVE CatalogInv'
    <3>1. /\ tcSetter[setter].at = "end" /\ tcSetter' = [tcSetter EXCEPT ![setter] = NoSetter]
          /\ UNCHANGED <<tcState, tcOffered, tcVersion, tcChanges, tcClient, tcCall>>
      BY <2>8 DEF SetterEnds
    <3>2. tcSetter' \in [Setters -> [at : {"idle", "notify", "end"}, session : Nat]]
      BY <2>0, <3>1 DEF CatalogTypes, NoSetter
    <3>3. \A s \in Setters : tcSetter[s].at = "notify" => tcSetter'[s].at = "notify"
      BY <2>0, <3>1 DEF CatalogTypes
    <3>4. Announcing => Announcing'
      BY <3>3 DEF Announcing
    <3>5. ListTools(tcState)' = ListTools(tcState)
      BY <3>1
    <3>6. StaleIsKnown'
      BY <2>0, <3>1, <3>4, <3>5 DEF StaleIsKnown
    <3>7. tcSession' = IF setter = "bridge" THEN tcSetter["bridge"].session ELSE tcSession
      BY <2>8 DEF SetterEnds
    <3>8. SessionFits' /\ tcSession' \in Nat
      <4>1. CASE setter = "bridge"
        <5>1. tcSetter["bridge"].at = "end" /\ tcSetter'["bridge"].at = "idle"
              /\ tcSetter["bridge"].session \in Nat
          BY <2>0, <3>1, <4>1 DEF CatalogTypes, NoSetter, Setters
        <5> QED
          BY <2>0, <3>1, <3>7, <4>1, <5>1 DEF SessionFits
      <4>2. CASE setter # "bridge"
        <5>1. tcSetter'["bridge"] = tcSetter["bridge"]
          BY <2>0, <3>1, <4>2 DEF CatalogTypes, Setters
        <5> QED
          BY <2>0, <3>1, <3>7, <4>2, <5>1 DEF SessionFits, CatalogTypes
      <4> QED
        BY <4>1, <4>2
    <3> QED
      BY <2>0, <2>6, <3>1, <3>2, <3>6, <3>8
  <2>9. CASE Listen \/ Notify \/ AskForList \/ StreamEnds
    <3>1. UNCHANGED <<tcState, tcOffered, tcSession, tcVersion, tcSetter, tcChanges, tcCall>>
      BY <2>9 DEF Listen, Notify, AskForList, StreamEnds
    <3>2. ListTools(tcState)' = ListTools(tcState) /\ ListTools(tcState) \subseteq AllTools
      BY <3>1 DEF ListTools, AllTools
    <3>7. SessionFits'
      BY <2>0, <3>1 DEF SessionFits
    <3>3. CASE Listen
      <4>1. tcClient.at = "new" /\ tcClient' = [tcClient EXCEPT !.at = "open", !.seen = tcVersion]
        BY <3>3 DEF Listen
      <4>2. tcClient' \in CatalogClients /\ tcClient'.seen = tcVersion /\ tcClient'.listed = tcClient.listed
            /\ tcClient'.at = "open"
        BY <2>0, <4>1 DEF CatalogClients
      <4>3. StaleIsKnown'
        BY <2>0, <3>1, <4>1, <4>2 DEF StaleIsKnown
      <4> QED
        BY <2>0, <2>6, <3>1, <3>7, <4>2, <4>3 DEF CatalogTypes
    <3>4. CASE Notify
      <4>1. tcClient.at = "open" /\ tcClient' = [tcClient EXCEPT !.seen = tcVersion, !.told = TRUE]
        BY <3>4 DEF Notify
      <4>2. tcClient' \in CatalogClients /\ tcClient'.seen = tcVersion /\ tcClient'.told /\ tcClient'.at = "open"
        BY <2>0, <4>1 DEF CatalogClients
      <4>3. StaleIsKnown'
        BY <2>0, <3>1, <4>2 DEF StaleIsKnown
      <4> QED
        BY <2>0, <2>6, <3>1, <3>7, <4>2, <4>3 DEF CatalogTypes
    <3>5. CASE AskForList
      <4>1. tcClient.at = "open"
            /\ tcClient' = [tcClient EXCEPT !.told = FALSE, !.listed = TRUE, !.tools = ListTools(tcState)]
        BY <3>5 DEF AskForList
      <4>2. tcClient' \in CatalogClients /\ tcClient'.seen = tcClient.seen /\ tcClient'.at = "open"
            /\ tcClient'.tools = ListTools(tcState)
        BY <2>0, <3>2, <4>1 DEF CatalogClients
      <4>3. StaleIsKnown'
        BY <2>0, <3>1, <3>2, <4>2 DEF StaleIsKnown
      <4> QED
        BY <2>0, <2>6, <3>1, <3>7, <4>2, <4>3 DEF CatalogTypes
    <3>6. CASE StreamEnds
      <4>1. tcClient' = [at |-> "new", seen |-> 0, told |-> FALSE, listed |-> FALSE, tools |-> {}]
        BY <3>6 DEF StreamEnds, NoClient
      <4>2. tcClient' \in CatalogClients
        BY <4>1 DEF CatalogClients
      <4>3. StaleIsKnown'
        BY <2>0, <3>1, <4>1 DEF StaleIsKnown
      <4> QED
        BY <2>0, <2>6, <3>1, <3>7, <4>2, <4>3 DEF CatalogTypes
    <3> QED
      BY <2>9, <3>3, <3>4, <3>5, <3>6
  <2> USE DEF CallFits, KnowsItsEngine, LetThrough, ImageChecked, Answered
  <2>10. ASSUME NEW tool \in TcTools, CallTool(tool) PROVE CatalogInv'
    <3> DEFINE call == [NoToolCall EXCEPT !.at = "called", !.tool = tool]
    <3>1. call \in CatalogCalls /\ call.at = "called"
      BY DEF CatalogCalls, NoToolCall
    <3>2. CallMoves(call)
      BY <2>10 DEF CallTool
    <3> HIDE DEF call
    <3>3. CallFits(call)
      BY <3>1
    <3> QED
      BY <3>1, <3>2, <3>3, CallKeeps
  <2>11. CASE CheckImage
    <3> DEFINE call == [tcCall EXCEPT !.at = "checked", !.checked = tcState.gen]
    <3>1. call \in CatalogCalls /\ call.at = "checked" /\ call.checked = tcState.gen /\ call.tool = tcCall.tool
      BY <2>0 DEF CatalogCalls, CatalogStates
    <3>2. CallMoves(call) /\ tcState.gen # 0 /\ Needs(tcCall.tool) \subseteq tcState.caps
      BY <2>11 DEF CheckImage, IsExposed
    <3> HIDE DEF call
    <3>3. call.checked \in 1..Newest /\ Needs(call.tool) \subseteq tcOffered[call.checked]
      BY <2>0, <3>1, <3>2 DEF OfNewest
    <3>4. CallFits(call)
      BY <3>1, <3>3
    <3> QED
      BY <3>1, <3>2, <3>4, CallKeeps
  <2>12. CASE Catch
    <3> DEFINE call == [tcCall EXCEPT !.at = "caught", !.gen = tcState.gen]
    <3>1. /\ call \in CatalogCalls /\ call.at = "caught" /\ call.gen = tcState.gen
          /\ call.tool = tcCall.tool /\ call.checked = tcCall.checked
      BY <2>0 DEF CatalogCalls, CatalogStates
    <3>2. /\ CallMoves(call) /\ call.gen = Newest /\ call.gen \in 1..Newest
          /\ IsImage(tcCall.tool) => tcCall.at = "checked"
      BY <2>0, <2>12, <3>1 DEF Catch, OfNewest
    <3> HIDE DEF call
    <3>3. CallFits(call)
      BY <2>0, <3>1, <3>2
    <3> QED
      BY <3>1, <3>2, <3>3, CallKeeps
  <2>13. CASE Pin
    <3> DEFINE call == [tcCall EXCEPT !.at = IF tcSession = tcCall.gen THEN "pinned" ELSE "refused",
                                      !.lease = tcSession]
    <3>1. /\ call \in CatalogCalls /\ call.at \in {"pinned", "refused"} /\ call.gen = tcCall.gen
          /\ call.at = "pinned" => call.lease = call.gen
          /\ call.tool = tcCall.tool /\ call.checked = tcCall.checked
      BY <2>0 DEF CatalogCalls, CatalogTypes
    <3>2. CallMoves(call) /\ tcCall.at = "caught"
      BY <2>13 DEF Pin
    <3> HIDE DEF call
    <3>3. CallFits(call)
      BY <2>0, <3>1, <3>2
    <3> QED
      BY <3>1, <3>2, <3>3, CallKeeps
  <2>14. CASE AdmitRead
    <3> DEFINE call == [tcCall EXCEPT !.at = "admitted", !.checked = tcState.gen, !.sent = ReadMethods(tcCall.tool)]
    <3>1. ReadMethods(tcCall.tool) \subseteq Methods
      BY MethodsAreKnown
    <3>2. /\ call \in CatalogCalls /\ call.at = "admitted" /\ call.gen = tcCall.gen /\ call.lease = tcCall.lease
          /\ call.sent = ReadMethods(tcCall.tool) /\ call.tool = tcCall.tool
      BY <2>0, <3>1 DEF CatalogCalls, CatalogStates
    <3>3. /\ CallMoves(call) /\ tcCall.at = "pinned" /\ ~IsWrite(tcCall.tool) /\ ~IsImage(tcCall.tool)
          /\ tcState.gen # 0 /\ Needs(tcCall.tool) \subseteq tcState.caps
      BY <2>14 DEF AdmitRead, IsExposed
    <3> HIDE DEF call
    <3>4. tcState.gen = call.lease => Advertised(call)
      BY <2>0, <3>2, <3>3, ReadsNeedTheirMethods DEF OfNewest, Advertised
    <3>5. CallFits(call)
      BY <2>0, <3>2, <3>3, <3>4
    <3> QED
      BY <3>2, <3>3, <3>5, CallKeeps
  <2>15. CASE AdmitImage
    <3> DEFINE call == [tcCall EXCEPT !.at = "admitted", !.lease = tcSession, !.sent = ReadMethods(tcCall.tool)]
    <3>1. ReadMethods(tcCall.tool) \subseteq Methods
      BY MethodsAreKnown
    <3>2. /\ call \in CatalogCalls /\ call.at = "admitted" /\ call.gen = tcCall.gen /\ call.lease = tcSession
          /\ call.sent = ReadMethods(tcCall.tool) /\ call.tool = tcCall.tool /\ call.checked = tcCall.checked
      BY <2>0, <3>1 DEF CatalogCalls, CatalogTypes
    <3>3. /\ CallMoves(call) /\ tcCall.at = "pinned" /\ IsImage(tcCall.tool)
          /\ tcSession = tcState.gen /\ tcSession # 0
      BY <2>0, <2>15 DEF AdmitImage, SessionFits
    <3> HIDE DEF call
    <3>4. call.lease \in 1..Newest
      BY <2>0, <3>2, <3>3 DEF OfNewest
    <3>5. CallFits(call)
      BY <2>0, <3>2, <3>3, <3>4
    <3> QED
      BY <3>2, <3>3, <3>5, CallKeeps
  <2>16. ASSUME NEW head \in {"scene", "property"}, AdmitWrite(head) PROVE CatalogInv'
    <3> DEFINE call == [tcCall EXCEPT !.at = "admitted", !.checked = tcState.gen,
                                      !.sent = WriteMethods(tcCall.tool, head)]
    <3>1. WriteMethods(tcCall.tool, head) \subseteq Methods
      BY MethodsAreKnown
    <3>2. /\ call \in CatalogCalls /\ call.at = "admitted" /\ call.gen = tcCall.gen /\ call.lease = tcCall.lease
          /\ call.sent = WriteMethods(tcCall.tool, head) /\ call.tool = tcCall.tool
      BY <2>0, <3>1 DEF CatalogCalls, CatalogStates
    <3>3. /\ CallMoves(call) /\ tcCall.at = "pinned" /\ IsWrite(tcCall.tool) /\ ~IsImage(tcCall.tool)
          /\ tcState.gen = tcCall.gen /\ RequiredCapabilities(tcCall.tool, head) \subseteq tcState.caps
      BY <2>16 DEF AdmitWrite, HasCapabilities, IsWrite, IsImage, WriteTools
    <3> HIDE DEF call
    <3>4. call.lease = call.gen /\ call.gen \in 1..Newest
      BY <2>0, <3>2, <3>3
    <3>5. Advertised(call)
      BY <2>0, <3>2, <3>3, <3>4, WritesNeedTheirMethods DEF OfNewest, Advertised
    <3>6. CallFits(call)
      BY <3>2, <3>3, <3>4, <3>5
    <3> QED
      BY <3>2, <3>3, <3>6, CallKeeps
  <2>17. CASE SendRequests
    <3> DEFINE call == [tcCall EXCEPT !.at = "sent"]
    <3>1. /\ call \in CatalogCalls /\ call.at = "sent" /\ call.tool = tcCall.tool /\ call.checked = tcCall.checked
          /\ call.gen = tcCall.gen /\ call.lease = tcCall.lease /\ call.sent = tcCall.sent
      BY <2>0 DEF CatalogCalls
    <3>2. tcCall.at = "admitted" /\ CallMoves(call)
      BY <2>17 DEF SendRequests
    <3> HIDE DEF call
    <3>3. Advertised(call) = Advertised(tcCall)
      BY <3>1 DEF Advertised
    <3>4. CallFits(call)
      BY <2>0, <3>1, <3>2, <3>3
    <3> QED
      BY <3>1, <3>2, <3>4, CallKeeps
  <2>18. CASE PassAnswer
    <3> DEFINE call == [tcCall EXCEPT !.at = IF tcSession = tcCall.gen /\ tcSession = tcCall.lease
                                            THEN "answered" ELSE "refused"]
    <3>1. /\ call \in CatalogCalls /\ call.at \in {"answered", "refused"}
          /\ call.at = "answered" => tcSession = tcCall.gen /\ tcSession = tcCall.lease
          /\ call.tool = tcCall.tool /\ call.checked = tcCall.checked
          /\ call.gen = tcCall.gen /\ call.lease = tcCall.lease /\ call.sent = tcCall.sent
      BY <2>0 DEF CatalogCalls
    <3>2. /\ tcCall.at = "sent" /\ ~IsWrite(tcCall.tool) /\ CallMoves(call) /\ tcSession = tcState.gen
      BY <2>0, <2>18 DEF PassAnswer, SessionFits
    <3> HIDE DEF call
    <3>3. Advertised(call) = Advertised(tcCall)
      BY <3>1 DEF Advertised
    <3>4. ASSUME call.at = "answered", IsImage(call.tool), ~(call.checked < call.lease)
          PROVE  Advertised(call)
      <4>1. /\ call.checked <= call.gen /\ call.gen = call.lease /\ call.checked \in Nat /\ call.lease \in Nat
            /\ Needs(call.tool) \subseteq tcOffered[call.checked] /\ call.sent = ReadMethods(call.tool)
        BY <2>0, <3>1, <3>2, <3>4 DEF CatalogCalls
      <4>2. call.checked = call.lease
        BY <3>4, <4>1
      <4> QED
        BY <3>1, <3>2, <4>1, <4>2, ReadsNeedTheirMethods DEF Advertised
    <3>5. Answered(call)
      BY <2>0, <3>1, <3>2, <3>3, <3>4
    <3>6. CallFits(call)
      BY <2>0, <3>1, <3>2, <3>5
    <3> QED
      BY <3>1, <3>2, <3>6, CallKeeps
  <2>19. CASE CallEnds
    <3>1. NoToolCall \in CatalogCalls /\ NoToolCall.at = "idle"
      BY DEF NoToolCall, CatalogCalls
    <3>2. CallFits(NoToolCall)
      BY <3>1
    <3> QED
      BY <2>19, <3>1, <3>2, CallKeeps DEF CallEnds
  <2>20. CASE UNCHANGED tcVars
    <3>1. Newest' = Newest /\ Announcing' = Announcing /\ ListTools(tcState)' = ListTools(tcState)
      BY <2>20 DEF tcVars, Newest, Announcing
    <3> QED
      BY <2>20, <3>1
      DEF tcVars, CatalogInv, CatalogTypes, OfNewest, SessionFits, StaleIsKnown, Advertised
  <2> QED
    BY <2>1, <2>3, <2>4, <2>5, <2>7, <2>8, <2>9, <2>10, <2>11, <2>12, <2>13, <2>14, <2>15,
       <2>16, <2>17, <2>18, <2>19, <2>20 DEF TcNext
<1> QED
  BY <1>1, <1>2, PTL DEF TcSpec

\* For every set of capabilities, all tools and any number of connections: once it
\* has acted on what it was told the client has the current list; a write asks an
\* engine for nothing it did not advertise, and what a read passes on is from an
\* engine that advertised it, except for an image checked under an earlier one.
THEOREM CatalogFollows == TcSpec => []CatalogIsCurrent
<1>1. CatalogInv => CatalogIsCurrent
  <2> SUFFICES ASSUME CatalogInv PROVE CatalogIsCurrent
    OBVIOUS
  <2>1. ListCatchesUp
    BY DEF CatalogInv, StaleIsKnown, Announcing, ListCatchesUp
  <2>2. IsWrite(tcCall.tool) => ~IsImage(tcCall.tool)
    BY DEF IsWrite, IsImage, WriteTools
  <2>3. AnswersAreAdvertised
    BY <2>2 DEF CatalogInv, CallFits, LetThrough, Answered, AnswersAreAdvertised
  <2> QED
    BY <2>1, <2>3 DEF CatalogIsCurrent
<1> QED
  BY <1>1, CatalogInvariance, PTL

-----------------------------------------------------------------------------
(* Operations: the inductive invariant.                                    *)

Lines == [request : OpRequests, update : {"http", "actor"}]
IsSequence(s) == \E S : s \in Seq(S)

\* What the store would tell now.
Latest == [revision |-> opRevision, records |-> opRecords]

\* What is or was told is never newer than the store, and what has the store's
\* revision is what the store holds.
Genuine(told) ==
    /\ told.revision \in Nat /\ told.revision <= opRevision
    /\ told.revision = opRevision => told = Latest
AllGenuine ==
    /\ \A r \in OpRequests : Genuine(opBusy[r])
    /\ \A i \in 1..Len(opEvents) : Genuine(opEvents[i])
    /\ Genuine(opPanel.reply) /\ Genuine(opPanel.shown) /\ Genuine(OpNothing)

OpTypes ==
    /\ opState \in [OpRequests -> {"begun", "http", "actor"}]
    /\ opBusy = [r \in OpRequests |-> opBusy[r]]
    /\ opRevision \in Nat /\ IsSequence(opEvents)
    /\ opPrevious \in Seq(Lines) /\ opFile \in Seq(Lines) /\ opLog \in Seq(Lines)
    /\ opPanel = [at |-> opPanel.at, reply |-> opPanel.reply, shown |-> opPanel.shown]

\* The latest list is shown or still on its way to a panel that has asked.
LatestIsComing ==
    opPanel.at \in {"answered", "open"} =>
        \/ opPanel.shown = Latest
        \/ opPanel.at = "answered" /\ opPanel.reply = Latest
        \/ \E i \in 1..Len(opEvents) : opEvents[i] = Latest
        \/ \E r \in OpRequests : opBusy[r] = Latest

PanelInv == AllGenuine /\ LatestIsComing

\* s is the last part of t.
TailOf(s, t) ==
    Len(s) <= Len(t) /\ \A i \in 1..Len(s) : s[i] = t[Len(t) - Len(s) + i]

\* The files hold the last part of what was saved, whatever failed in between.
FilesFit ==
    /\ TailOf(opPrevious \o opFile, opLog)
    /\ Len(opFile) <= OpMaxLines /\ Len(opPrevious) <= OpMaxLines
    /\ Len(opPrevious) + Len(opFile) >= OpMaxLines \/ Len(opPrevious) + Len(opFile) = Len(opLog)

\* A line of the actor is in the file only for an operation the actor has settled,
\* and it is the last one of its operation.
ActorSettled ==
    \A i \in 1..Len(opLog) : opLog[i].update = "actor" => opState[opLog[i].request] = "actor"

OperationsInv == OpTypes /\ PanelInv /\ FilesFit /\ ActorSettled /\ ActorsWordIsLast

-----------------------------------------------------------------------------
(* Sequences.                                                              *)

LEMMA SequenceAppend ==
    ASSUME NEW s, IsSequence(s), NEW e
    PROVE  /\ IsSequence(Append(s, e)) /\ Len(s) \in Nat /\ Len(Append(s, e)) = Len(s) + 1
           /\ \A i \in 1..Len(s) : Append(s, e)[i] = s[i]
           /\ Append(s, e)[Len(s) + 1] = e
<1>1. PICK S : s \in Seq(S)
  BY DEF IsSequence
<1>2. s \in Seq(S \cup {e})
  BY <1>1
<1>3. /\ Append(s, e) \in Seq(S \cup {e}) /\ Len(s) \in Nat /\ Len(Append(s, e)) = Len(s) + 1
      /\ \A i \in 1..Len(s) : Append(s, e)[i] = s[i]
      /\ Append(s, e)[Len(s) + 1] = e
  BY <1>2
<1> QED
  BY <1>3 DEF IsSequence

LEMMA SequenceTail ==
    ASSUME NEW s, IsSequence(s), s # <<>>
    PROVE  /\ IsSequence(Tail(s)) /\ Len(s) \in Nat \ {0} /\ Len(Tail(s)) = Len(s) - 1
           /\ Head(s) = s[1] /\ \A i \in 1..(Len(s) - 1) : Tail(s)[i] = s[i + 1]
<1>1. PICK S : s \in Seq(S)
  BY DEF IsSequence
<1>2. Tail(s) \in Seq(S)
  BY <1>1
<1> QED
  BY <1>1, <1>2 DEF IsSequence

\* A last part of a sequence is a suffix of it.
LEMMA TailIsSuffix ==
    ASSUME NEW S, NEW s \in Seq(S), NEW t \in Seq(S), TailOf(s, t)
    PROVE  IsSuffix(s, t)
<1>1. Len(s) \in Nat /\ Len(t) \in Nat /\ Len(s) <= Len(t)
  BY DEF TailOf
<1>2. /\ Reverse(s) = [i \in 1..Len(s) |-> s[(Len(s) - i) + 1]]
      /\ Reverse(t) = [i \in 1..Len(t) |-> t[(Len(t) - i) + 1]]
  BY DEF Reverse
<1>3. Reverse(s) \in Seq(S) /\ Reverse(t) \in Seq(S) /\ Len(Reverse(s)) = Len(s) /\ Len(Reverse(t)) = Len(t)
  BY <1>1, <1>2
<1>4. \A i \in 1..Len(s) : Reverse(s)[i] = Reverse(t)[i]
  <2> SUFFICES ASSUME NEW i \in 1..Len(s) PROVE Reverse(s)[i] = Reverse(t)[i]
    OBVIOUS
  <2>1. (Len(s) - i) + 1 \in 1..Len(s) /\ i \in 1..Len(t)
    BY <1>1
  <2>2. s[(Len(s) - i) + 1] = t[Len(t) - Len(s) + ((Len(s) - i) + 1)]
    BY <2>1 DEF TailOf
  <2>3. Len(t) - Len(s) + ((Len(s) - i) + 1) = (Len(t) - i) + 1
    BY <1>1
  <2> QED
    BY <1>2, <2>1, <2>2, <2>3
<1> DEFINE a == SubSeq(Reverse(s), 1, Len(s))
           b == SubSeq(Reverse(t), 1, Len(s))
<1>5. /\ a \in Seq(S) /\ Len(a) = Len(s) /\ \A i \in 1..Len(s) : a[i] = Reverse(s)[i]
      /\ b \in Seq(S) /\ Len(b) = Len(s) /\ \A i \in 1..Len(s) : b[i] = Reverse(t)[i]
  BY <1>1, <1>3
<1>6. a = b
  <2> HIDE DEF a, b
  <2> QED
    BY <1>1, <1>4, <1>5
<1> QED
  BY <1>1, <1>3, <1>6 DEF IsSuffix, IsPrefix

\* s lies in t from position k on.
Placed(s, t, k) == \A i \in 1..Len(s) : s[i] = t[k + i]

LEMMA PlacedAppend ==
    ASSUME NEW S, NEW s \in Seq(S), NEW t \in Seq(S), NEW e \in S, NEW k \in Nat, Placed(s, t, k)
    PROVE  /\ k + Len(s) <= Len(t) => Placed(s, Append(t, e), k)
           /\ k + Len(s) = Len(t) => Placed(Append(s, e), Append(t, e), k)
<1>1. /\ Append(s, e) \in Seq(S) /\ Len(Append(s, e)) = Len(s) + 1 /\ Append(s, e)[Len(s) + 1] = e
      /\ Append(t, e) \in Seq(S) /\ Len(Append(t, e)) = Len(t) + 1 /\ Append(t, e)[Len(t) + 1] = e
      /\ Len(s) \in Nat /\ Len(t) \in Nat
  OBVIOUS
<1>2. /\ \A i \in 1..Len(s) : Append(s, e)[i] = s[i]
      /\ \A i \in 1..Len(t) : Append(t, e)[i] = t[i]
  OBVIOUS
<1>3. ASSUME k + Len(s) <= Len(t), NEW i \in 1..Len(s) PROVE s[i] = Append(t, e)[k + i]
  <2>1. k + i \in 1..Len(t)
    BY <1>1, <1>3
  <2>2. s[i] = t[k + i]
    BY <1>3 DEF Placed
  <2> QED
    BY <1>2, <2>1, <2>2
<1>4. ASSUME k + Len(s) = Len(t), NEW i \in 1..(Len(s) + 1)
      PROVE  Append(s, e)[i] = Append(t, e)[k + i]
  <2>1. CASE i = Len(s) + 1
    <3>1. k + i = Len(t) + 1
      BY <1>1, <1>4, <2>1
    <3> QED
      BY <1>1, <2>1, <3>1
  <2>2. CASE i # Len(s) + 1
    <3>1. i \in 1..Len(s)
      BY <1>1, <1>4, <2>2
    <3> QED
      BY <1>1, <1>2, <1>3, <1>4, <3>1
  <2> QED
    BY <2>1, <2>2
<1>5. k + Len(s) <= Len(t) => Placed(s, Append(t, e), k)
  BY <1>3 DEF Placed
<1>6. k + Len(s) = Len(t) => Placed(Append(s, e), Append(t, e), k)
  BY <1>1, <1>4 DEF Placed
<1> QED
  BY <1>5, <1>6

\* Two sequences in a row are the last part of t when each lies in its place.
LEMMA TailOfTwo ==
    ASSUME NEW S, NEW a \in Seq(S), NEW b \in Seq(S), NEW t \in Seq(S)
    PROVE  TailOf(a \o b, t)
           <=> \E k \in Nat : /\ Placed(a, t, k) /\ Placed(b, t, k + Len(a))
                              /\ k + Len(a) + Len(b) = Len(t)
<1>1. Len(a) \in Nat /\ Len(b) \in Nat /\ Len(t) \in Nat /\ Len(a \o b) = Len(a) + Len(b)
  OBVIOUS
<1>2. /\ \A i \in 1..Len(a) : (a \o b)[i] = a[i]
      /\ \A i \in 1..Len(b) : (a \o b)[Len(a) + i] = b[i]
  OBVIOUS
<1>3. ASSUME TailOf(a \o b, t)
      PROVE  \E k \in Nat : /\ Placed(a, t, k) /\ Placed(b, t, k + Len(a))
                            /\ k + Len(a) + Len(b) = Len(t)
  <2> DEFINE k == Len(t) - (Len(a) + Len(b))
  <2>1. k \in Nat /\ k + Len(a) + Len(b) = Len(t)
    BY <1>1, <1>3 DEF TailOf
  <2>2. \A i \in 1..(Len(a) + Len(b)) : (a \o b)[i] = t[k + i]
    BY <1>1, <1>3 DEF TailOf
  <2> HIDE DEF k
  <2>3. \A i \in 1..Len(a) : i \in 1..(Len(a) + Len(b))
    BY <1>1
  <2>4. \A i \in 1..Len(b) : Len(a) + i \in 1..(Len(a) + Len(b)) /\ k + (Len(a) + i) = (k + Len(a)) + i
    BY <1>1, <2>1
  <2>5. Placed(a, t, k)
    BY <1>2, <2>2, <2>3 DEF Placed
  <2>6. Placed(b, t, k + Len(a))
    BY <1>2, <2>2, <2>4 DEF Placed
  <2> QED
    BY <2>1, <2>5, <2>6
<1>4. ASSUME NEW k \in Nat, Placed(a, t, k), Placed(b, t, k + Len(a)), k + Len(a) + Len(b) = Len(t)
      PROVE  TailOf(a \o b, t)
  <2>1. Len(t) - (Len(a) + Len(b)) = k /\ Len(a) + Len(b) <= Len(t)
    BY <1>1, <1>4
  <2>2. ASSUME NEW i \in 1..(Len(a) + Len(b)) PROVE (a \o b)[i] = t[k + i]
    <3>1. CASE i <= Len(a)
      <4>1. i \in 1..Len(a)
        BY <1>1, <2>2, <3>1
      <4> QED
        BY <1>2, <1>4, <4>1 DEF Placed
    <3>2. CASE ~(i <= Len(a))
      <4>1. PICK j \in 1..Len(b) : i = Len(a) + j
        <5>1. i - Len(a) \in 1..Len(b) /\ i = Len(a) + (i - Len(a))
          BY <1>1, <2>2, <3>2
        <5> QED
          BY <5>1
      <4>2. k + i = (k + Len(a)) + j
        BY <1>1, <4>1
      <4>3. b[j] = t[(k + Len(a)) + j]
        BY <1>4 DEF Placed
      <4> QED
        BY <1>2, <4>1, <4>2, <4>3
    <3> QED
      BY <3>1, <3>2
  <2> QED
    BY <1>1, <2>1, <2>2 DEF TailOf
<1> QED
  BY <1>3, <1>4

-----------------------------------------------------------------------------
(* The steps.                                                              *)

\* Saving a line keeps the last part of the log in the files, also when the file
\* is full and is moved, or when the saving fails half way.
LEMMA SavedKeepsFiles ==
    ASSUME OpTypes, FilesFit, NEW line \in Lines, Saved(line)
    PROVE  /\ opPrevious' \in Seq(Lines) /\ opFile' \in Seq(Lines) /\ opLog' \in Seq(Lines)
           /\ opLog' = opLog \/ opLog' = Append(opLog, line)
           /\ FilesFit'
<1> USE OperationAssumption
<1>1. /\ opPrevious \in Seq(Lines) /\ opFile \in Seq(Lines) /\ opLog \in Seq(Lines)
      /\ Len(opPrevious) \in Nat /\ Len(opFile) \in Nat /\ Len(opLog) \in Nat
      /\ <<>> \in Seq(Lines) /\ Len(<<>>) = 0
  BY DEF OpTypes
<1>2. PICK k \in Nat : /\ Placed(opPrevious, opLog, k) /\ Placed(opFile, opLog, k + Len(opPrevious))
                       /\ k + Len(opPrevious) + Len(opFile) = Len(opLog)
  BY <1>1, TailOfTwo DEF FilesFit
<1>3. /\ Len(opFile) <= OpMaxLines /\ Len(opPrevious) <= OpMaxLines
      /\ Len(opPrevious) + Len(opFile) >= OpMaxLines \/ Len(opPrevious) + Len(opFile) = Len(opLog)
  BY DEF FilesFit
<1>4. ~Room => Len(opFile) = OpMaxLines
  BY <1>1, <1>3 DEF Room
<1>5. \A t, n : Placed(<<>>, t, n)
  BY DEF Placed
<1>6. ASSUME NEW n \in Nat, opPrevious' \in Seq(Lines), opFile' \in Seq(Lines), opLog' \in Seq(Lines),
             Placed(opPrevious', opLog', n), Placed(opFile', opLog', n + Len(opPrevious')),
             n + Len(opPrevious') + Len(opFile') = Len(opLog')
      PROVE  TailOf(opPrevious' \o opFile', opLog')
  BY <1>6, TailOfTwo
<1>7. CASE /\ opPrevious' = Rotated[1] /\ opFile' = Append(Rotated[2], line)
           /\ opLog' = Append(opLog, line)
  <2>1. opLog' \in Seq(Lines) /\ Len(opLog') = Len(opLog) + 1
    BY <1>1, <1>7
  <2>2. CASE Room
    <3>1. opPrevious' = opPrevious /\ opFile' = Append(opFile, line)
      BY <1>7, <2>2 DEF Rotated
    <3>2. opFile' \in Seq(Lines) /\ Len(opFile') = Len(opFile) + 1
      BY <1>1, <3>1
    <3>3. Placed(opPrevious', opLog', k)
      BY <1>1, <1>2, <1>7, <3>1, PlacedAppend
    <3>4. Placed(opFile', opLog', k + Len(opPrevious'))
      <4>1. k + Len(opPrevious) \in Nat /\ (k + Len(opPrevious)) + Len(opFile) = Len(opLog)
        BY <1>1, <1>2
      <4> QED
        BY <1>1, <1>2, <1>7, <3>1, <4>1, PlacedAppend
    <3>5. TailOf(opPrevious' \o opFile', opLog')
      <4>1. k + Len(opPrevious') + Len(opFile') = Len(opLog')
        <5>1. Len(opPrevious') = Len(opPrevious) /\ k + Len(opPrevious) + Len(opFile) = Len(opLog)
          BY <1>2, <3>1
        <5> QED
          BY <1>1, <2>1, <3>2, <5>1
      <4>2. opPrevious' \in Seq(Lines)
        BY <1>1, <3>1
      <4> QED
        BY <1>6, <2>1, <3>2, <3>3, <3>4, <4>1, <4>2
    <3>6. Len(opFile) + 1 <= OpMaxLines
      BY <2>2 DEF Room
    <3>7. Len(opPrevious') = Len(opPrevious) /\ opPrevious' \in Seq(Lines)
      BY <1>1, <3>1
    <3>8. \/ Len(opPrevious') + Len(opFile') >= OpMaxLines
          \/ Len(opPrevious') + Len(opFile') = Len(opLog')
      BY <1>1, <1>3, <2>1, <3>2, <3>7
    <3> QED
      BY <1>3, <1>7, <2>1, <3>2, <3>5, <3>6, <3>7, <3>8 DEF FilesFit
  <2>3. CASE ~Room
    <3>1. opPrevious' = opFile /\ opFile' = Append(<<>>, line)
      BY <1>7, <2>3 DEF Rotated
    <3>2. opFile' \in Seq(Lines) /\ Len(opFile') = 1
      BY <3>1
    <3> DEFINE n == k + Len(opPrevious)
    <3>3. n \in Nat /\ n + Len(opFile) = Len(opLog)
      BY <1>1, <1>2
    <3>4. Placed(opPrevious', opLog', n)
      BY <1>1, <1>2, <1>7, <3>1, <3>3, PlacedAppend
    <3>5. Placed(opFile', opLog', n + Len(opPrevious'))
      <4>1. Placed(<<>>, opLog, Len(opLog)) /\ Len(opLog) + Len(<<>>) = Len(opLog)
        BY <1>1, <1>5
      <4>2. Placed(opFile', opLog', Len(opLog))
        BY <1>1, <1>7, <3>1, <4>1, PlacedAppend
      <4> QED
        BY <3>1, <3>3, <4>2
    <3>6. TailOf(opPrevious' \o opFile', opLog')
      BY <1>1, <1>6, <2>1, <3>1, <3>2, <3>3, <3>4, <3>5
    <3> QED
      BY <1>1, <1>3, <1>4, <1>7, <2>1, <2>3, <3>1, <3>2, <3>6 DEF FilesFit
  <2> QED
    BY <2>2, <2>3
<1>8. CASE /\ opPrevious' \in {opPrevious} \cup (IF Room THEN {} ELSE {<<>>, opFile})
           /\ opFile' = IF opPrevious' = opFile /\ ~Room THEN <<>> ELSE opFile
           /\ UNCHANGED opLog
  <2> DEFINE n == k + Len(opPrevious)
  <2>1. n \in Nat /\ n + Len(opFile) = Len(opLog) /\ Placed(opFile, opLog, n)
    BY <1>1, <1>2
  <2>2. CASE opPrevious' = opFile /\ ~Room
    <3>1. opFile' = <<>> /\ opLog' = opLog
      BY <1>8, <2>2
    <3>2. TailOf(opPrevious' \o opFile', opLog')
      <4> HIDE DEF n
      <4> QED
        BY <1>1, <1>5, <1>6, <2>1, <2>2, <3>1
    <3> QED
      BY <1>1, <1>3, <1>4, <2>2, <3>1, <3>2 DEF FilesFit
  <2>3. CASE opPrevious' = <<>> /\ ~Room /\ opFile' = opFile
    <3>1. opLog' = opLog /\ n + 0 = n
      BY <1>8, <2>1
    <3>2. TailOf(opPrevious' \o opFile', opLog')
      <4> HIDE DEF n
      <4> QED
        BY <1>1, <1>5, <1>6, <2>1, <2>3, <3>1
    <3> QED
      BY <1>1, <1>3, <1>4, <2>3, <3>1, <3>2 DEF FilesFit
  <2>4. CASE opPrevious' = opPrevious /\ opFile' = opFile
    BY <1>1, <1>8, <2>4 DEF FilesFit
  <2> QED
    BY <1>8, <2>2, <2>3, <2>4
<1> QED
  BY <1>7, <1>8 DEF Saved

\* What the panel makes of what it is told is genuine, and it is the latest list
\* when either that or what it showed before is.
LEMMA AppliedIsGenuine ==
    ASSUME NEW next, Genuine(next), Genuine(opPanel.shown), opRevision \in Nat
    PROVE  /\ Genuine(Applied(next))
           /\ next = Latest \/ opPanel.shown = Latest => Applied(next) = Latest
<1>1. Latest.revision = opRevision
  BY DEF Latest
<1>2. CASE next.revision < opPanel.shown.revision
  <2>1. Applied(next) = opPanel.shown
    BY <1>2 DEF Applied
  <2>2. next # Latest
    BY <1>1, <1>2 DEF Genuine
  <2> QED
    BY <2>1, <2>2
<1>3. CASE ~(next.revision < opPanel.shown.revision)
  <2>1. Applied(next) = next
    BY <1>3 DEF Applied
  <2>2. opPanel.shown = Latest => next = Latest
    BY <1>1, <1>3 DEF Genuine
  <2> QED
    BY <2>1, <2>2
<1> QED
  BY <1>2, <1>3

\* A step that leaves the store, the handles and the files as they are keeps what
\* is said of them.
LEMMA PanelStepKeeps ==
    ASSUME OperationsInv, PanelInv', IsSequence(opEvents'),
           opPanel' = [at |-> opPanel'.at, reply |-> opPanel'.reply, shown |-> opPanel'.shown],
           opBusy' = [r \in OpRequests |-> opBusy'[r]],
           UNCHANGED <<opState, opRecords, opRevision, opPrevious, opFile, opError, opLog>>
    PROVE  OperationsInv'
<1>1. OpTypes'
  BY DEF OperationsInv, OpTypes
<1>2. FilesFit'
  BY DEF OperationsInv, FilesFit
<1>3. ActorSettled' /\ ActorsWordIsLast'
  BY DEF OperationsInv, ActorSettled, ActorsWordIsLast
<1> QED
  BY <1>1, <1>2, <1>3 DEF OperationsInv

\* A finish tells the latest list next; whatever is still to be told is older, and
\* the actor's word stays the last one of its operation.
LEMMA FinishKeeps ==
    ASSUME OperationsInv, NEW r \in OpRequests, NEW update \in {"http", "actor"}, Finish(r, update)
    PROVE  OperationsInv'
<1> DEFINE line == OpLine(r, update)
<1>1. /\ opState' = [opState EXCEPT ![r] = update] /\ Saved(line) /\ Unsettled(r)
      /\ opRevision' = opRevision + 1
      /\ opBusy' = [opBusy EXCEPT ![r] = Latest']
      /\ UNCHANGED <<opEvents, opPanel>>
  BY DEF Finish, Latest
<1>2. OpTypes /\ PanelInv /\ FilesFit /\ ActorSettled /\ ActorsWordIsLast /\ opRevision \in Nat
  BY DEF OperationsInv, OpTypes
<1>3. line \in Lines /\ line.request = r /\ line.update = update
  BY DEF OpLine, Lines
<1> HIDE DEF line
<1>4. /\ opPrevious' \in Seq(Lines) /\ opFile' \in Seq(Lines) /\ opLog' \in Seq(Lines)
      /\ opLog' = opLog \/ opLog' = Append(opLog, line)
      /\ FilesFit'
  BY <1>1, <1>2, <1>3, SavedKeepsFiles
<1>5. opState \in [OpRequests -> {"begun", "http", "actor"}] /\ opBusy = [q \in OpRequests |-> opBusy[q]]
  BY <1>2 DEF OpTypes
<1>6. /\ opBusy' = [q \in OpRequests |-> opBusy'[q]] /\ opBusy'[r] = Latest'
      /\ \A q \in OpRequests \ {r} : opBusy'[q] = opBusy[q]
  BY <1>1, <1>5
<1>7. OpTypes'
  <2>1. opState' \in [OpRequests -> {"begun", "http", "actor"}]
    BY <1>1, <1>5
  <2>2. opRevision' \in Nat
    BY <1>1, <1>2
  <2> QED
    BY <1>1, <1>2, <1>4, <1>6, <2>1, <2>2 DEF OpTypes
<1>8. ASSUME NEW told, Genuine(told) PROVE Genuine(told)'
  BY <1>1, <1>2, <1>8 DEF Genuine
<1>9. Genuine(Latest)' /\ Latest'.revision = opRevision'
  BY <1>1, <1>2 DEF Genuine, Latest
<1>10. PanelInv'
  <2>1. AllGenuine
    BY <1>2 DEF PanelInv
  <2>2. \A q \in OpRequests : Genuine(opBusy[q])'
    <3> SUFFICES ASSUME NEW q \in OpRequests PROVE Genuine(opBusy[q])'
      OBVIOUS
    <3>1. CASE q = r
      BY <1>6, <1>9, <3>1 DEF Genuine
    <3>2. CASE q # r
      <4>1. Genuine(opBusy[q])
        BY <2>1 DEF AllGenuine
      <4>2. opBusy'[q] = opBusy[q]
        BY <1>6, <3>2
      <4> QED
        BY <1>1, <1>2, <4>1, <4>2 DEF Genuine
    <3> QED
      BY <3>1, <3>2
  <2>3. \A i \in 1..Len(opEvents) : Genuine(opEvents[i])'
    BY <1>1, <1>2, <2>1 DEF AllGenuine, Genuine
  <2>4. Genuine(opPanel.reply)' /\ Genuine(opPanel.shown)' /\ Genuine(OpNothing)'
    BY <1>1, <1>2, <2>1 DEF AllGenuine, Genuine
  <2>5. AllGenuine'
    BY <1>1, <2>2, <2>3, <2>4 DEF AllGenuine
  <2>6. LatestIsComing'
    BY <1>6 DEF LatestIsComing
  <2> QED
    BY <2>5, <2>6 DEF PanelInv
<1>11. /\ Len(opLog) \in Nat /\ Len(Append(opLog, line)) = Len(opLog) + 1
       /\ Append(opLog, line)[Len(opLog) + 1] = line
       /\ \A i \in 1..Len(opLog) : Append(opLog, line)[i] = opLog[i] /\ opLog[i] \in Lines
       /\ DOMAIN opLog = 1..Len(opLog) /\ DOMAIN Append(opLog, line) = 1..(Len(opLog) + 1)
  BY <1>2, <1>3 DEF OpTypes
<1>12. \A i \in 1..Len(opLog) : opLog[i].update = "actor" => opLog[i].request # r
  BY <1>1, <1>2 DEF ActorSettled, Unsettled
<1>13. \A i \in 1..Len(opLog) : opLog[i].update = "actor" => opState'[opLog[i].request] = "actor"
  <2>1. \A i \in 1..Len(opLog) : opLog[i].request \in OpRequests
    BY <1>11 DEF Lines
  <2> QED
    BY <1>1, <1>2, <1>5, <1>12, <2>1 DEF ActorSettled
<1>14. CASE opLog' = opLog
  BY <1>2, <1>4, <1>7, <1>10, <1>13, <1>14 DEF OperationsInv, ActorSettled, ActorsWordIsLast
<1>15. CASE opLog' = Append(opLog, line)
  <2>1. ActorSettled'
    <3> SUFFICES ASSUME NEW i \in 1..(Len(opLog) + 1), opLog'[i].update = "actor"
                 PROVE  opState'[opLog'[i].request] = "actor"
      BY <1>11, <1>15 DEF ActorSettled
    <3>1. CASE i = Len(opLog) + 1
      BY <1>1, <1>3, <1>5, <1>11, <1>15, <3>1
    <3>2. CASE i \in 1..Len(opLog)
      BY <1>11, <1>13, <1>15, <3>2
    <3> QED
      BY <1>11, <3>1, <3>2
  <2>2. ActorsWordIsLast'
    <3> SUFFICES ASSUME NEW i \in 1..(Len(opLog) + 1), NEW j \in 1..(Len(opLog) + 1),
                        i < j, opLog'[i].request = opLog'[j].request
                 PROVE  opLog'[i].update # "actor"
      BY <1>11, <1>15 DEF ActorsWordIsLast
    <3>1. i \in 1..Len(opLog) /\ opLog'[i] = opLog[i]
      BY <1>11, <1>15
    <3>2. CASE j = Len(opLog) + 1
      BY <1>3, <1>11, <1>12, <1>15, <3>1, <3>2
    <3>3. CASE j \in 1..Len(opLog)
      <4>1. opLog'[j] = opLog[j]
        BY <1>11, <1>15, <3>3
      <4> QED
        BY <1>2, <1>11, <3>1, <3>3, <4>1 DEF ActorsWordIsLast
    <3> QED
      BY <1>11, <3>2, <3>3
  <2> QED
    BY <1>4, <1>7, <1>10, <2>1, <2>2 DEF OperationsInv
<1> QED
  BY <1>4, <1>14, <1>15

\* OperationsInv holds at the start, and every update of an operation, every
\* notification and every step of the panel keeps it.
THEOREM OperationsInvariance == OpSpec => []OperationsInv
<1>1. OpInit => OperationsInv
  <2> SUFFICES ASSUME OpInit PROVE OperationsInv
    OBVIOUS
  <2>1. /\ opState = [r \in OpRequests |-> "begun"] /\ opBusy = [r \in OpRequests |-> OpNothing]
        /\ opRecords = <<>> /\ opRevision = 0 /\ opEvents = <<>>
        /\ opPrevious = <<>> /\ opFile = <<>> /\ opLog = <<>>
        /\ opPanel = [at |-> "closed", reply |-> OpNothing, shown |-> OpNothing]
    BY DEF OpInit
  <2>2. <<>> \in Seq(Lines) /\ IsSequence(<<>>) /\ Len(<<>>) = 0
    <3>1. <<>> \in Seq(Lines) /\ Len(<<>>) = 0
      OBVIOUS
    <3> QED
      BY <3>1 DEF IsSequence
  <2>3. OpTypes
    BY <2>1, <2>2 DEF OpTypes
  <2>4. Genuine(OpNothing) /\ Latest = OpNothing
    BY <2>1 DEF Genuine, Latest, OpNothing
  <2>5. PanelInv
    BY <2>1, <2>2, <2>4 DEF PanelInv, AllGenuine, LatestIsComing
  <2>6. FilesFit
    <3>1. <<>> \o <<>> = <<>>
      OBVIOUS
    <3> QED
      BY <2>1, <2>2, <3>1, OperationAssumption DEF FilesFit, TailOf
  <2>7. ActorSettled /\ ActorsWordIsLast
    BY <2>1, <2>2 DEF ActorSettled, ActorsWordIsLast
  <2> QED
    BY <2>3, <2>5, <2>6, <2>7 DEF OperationsInv
<1>2. OperationsInv /\ [OpNext]_opVars => OperationsInv'
  <2> SUFFICES ASSUME OperationsInv, [OpNext]_opVars PROVE OperationsInv'
    OBVIOUS
  <2>0. /\ OpTypes /\ AllGenuine /\ LatestIsComing /\ opRevision \in Nat /\ IsSequence(opEvents)
        /\ opBusy = [r \in OpRequests |-> opBusy[r]]
        /\ opPanel = [at |-> opPanel.at, reply |-> opPanel.reply, shown |-> opPanel.shown]
    BY DEF OperationsInv, OpTypes, PanelInv
  <2>1. ASSUME UNCHANGED <<opRecords, opRevision>>
        PROVE  Latest' = Latest /\ \A told : Genuine(told)' <=> Genuine(told)
    BY <2>1 DEF Latest, Genuine
  <2>2. ASSUME NEW r \in OpRequests, NEW update \in {"http", "actor"}, Finish(r, update) PROVE OperationsInv'
    BY <2>2, FinishKeeps
  <2>3. ASSUME NEW r \in OpRequests, Publish(r) PROVE OperationsInv'
    <3>1. /\ opEvents' = IF opPanel.at = "closed" THEN opEvents ELSE Append(opEvents, opBusy[r])
          /\ opBusy' = [opBusy EXCEPT ![r] = OpNothing]
          /\ UNCHANGED <<opState, opRecords, opRevision, opPrevious, opFile, opError, opLog, opPanel>>
      BY <2>3 DEF Publish
    <3>2. /\ opBusy' = [q \in OpRequests |-> opBusy'[q]]
          /\ \A q \in OpRequests : opBusy'[q] = IF q = r THEN OpNothing ELSE opBusy[q]
      BY <2>0, <3>1
    <3>3. \A q \in OpRequests : Genuine(opBusy'[q])
      BY <2>0, <3>2 DEF AllGenuine
    <3>4. CASE opPanel.at = "closed"
      <4>1. AllGenuine'
        BY <2>0, <3>1, <3>3, <3>4 DEF AllGenuine, Genuine, Latest
      <4>2. LatestIsComing'
        BY <3>1, <3>4 DEF LatestIsComing
      <4> QED
        BY <2>0, <3>1, <3>2, <3>4, <4>1, <4>2, PanelStepKeeps DEF PanelInv
    <3>5. CASE opPanel.at # "closed"
      <4>1. opEvents' = Append(opEvents, opBusy[r])
        BY <3>1, <3>5
      <4>2. /\ IsSequence(opEvents') /\ Len(opEvents) \in Nat /\ Len(opEvents') = Len(opEvents) + 1
            /\ \A i \in 1..Len(opEvents) : opEvents'[i] = opEvents[i]
            /\ opEvents'[Len(opEvents) + 1] = opBusy[r]
        BY <2>0, <4>1, SequenceAppend
      <4>3. \A i \in 1..Len(opEvents') : Genuine(opEvents'[i])
        <5> SUFFICES ASSUME NEW i \in 1..Len(opEvents') PROVE Genuine(opEvents'[i])
          OBVIOUS
        <5>1. i \in 1..Len(opEvents) \/ i = Len(opEvents) + 1
          BY <4>2
        <5>2. CASE i \in 1..Len(opEvents)
          BY <2>0, <4>2, <5>2 DEF AllGenuine
        <5>3. CASE i = Len(opEvents) + 1
          BY <2>0, <4>2, <5>3 DEF AllGenuine
        <5> QED
          BY <5>1, <5>2, <5>3
      <4>4. AllGenuine'
        BY <2>0, <3>1, <3>3, <4>3 DEF AllGenuine, Genuine, Latest
      <4>5. LatestIsComing'
        <5>0. Latest' = Latest /\ opPanel' = opPanel
          BY <3>1 DEF Latest
        <5>1. ASSUME NEW i \in 1..Len(opEvents), opEvents[i] = Latest
              PROVE  \E n \in 1..Len(opEvents') : opEvents'[n] = Latest
          <6>1. i \in 1..Len(opEvents')
            BY <4>2
          <6> QED
            BY <4>2, <5>1, <6>1
        <5>2. ASSUME NEW q \in OpRequests, opBusy[q] = Latest
              PROVE  \/ \E n \in 1..Len(opEvents') : opEvents'[n] = Latest
                     \/ opBusy'[q] = Latest
          <6>1. Len(opEvents) + 1 \in 1..Len(opEvents')
            BY <4>2
          <6> QED
            BY <3>2, <4>2, <5>2, <6>1
        <5> QED
          BY <2>0, <5>0, <5>1, <5>2 DEF LatestIsComing
      <4> QED
        BY <2>0, <3>1, <3>2, <4>2, <4>4, <4>5, PanelStepKeeps DEF PanelInv
    <3> QED
      BY <3>4, <3>5
  <2>4. CASE Subscribe
    <3>1. /\ opPanel' = [opPanel EXCEPT !.at = "subscribed"]
          /\ UNCHANGED <<opState, opBusy, opRecords, opRevision, opPrevious, opFile, opError, opLog, opEvents>>
      BY <2>4 DEF Subscribe
    <3>2. opPanel' = [at |-> "subscribed", reply |-> opPanel.reply, shown |-> opPanel.shown]
      BY <2>0, <3>1
    <3>3. AllGenuine' /\ LatestIsComing'
      BY <2>0, <3>1, <3>2 DEF AllGenuine, Genuine, Latest, LatestIsComing
    <3> QED
      BY <2>0, <3>1, <3>2, <3>3, PanelStepKeeps DEF PanelInv
  <2>5. CASE Asked
    <3>1. /\ opPanel' = [opPanel EXCEPT !.at = "answered", !.reply = Latest]
          /\ UNCHANGED <<opState, opBusy, opRecords, opRevision, opPrevious, opFile, opError, opLog, opEvents>>
      BY <2>5 DEF Asked, Latest
    <3>2. opPanel' = [at |-> "answered", reply |-> Latest, shown |-> opPanel.shown]
      BY <2>0, <3>1
    <3>3. Genuine(Latest)
      BY <2>0 DEF Genuine, Latest
    <3>4. AllGenuine'
      BY <2>0, <2>1, <3>1, <3>2, <3>3 DEF AllGenuine
    <3>5. LatestIsComing'
      BY <2>1, <3>1, <3>2 DEF LatestIsComing
    <3> QED
      BY <2>0, <3>1, <3>2, <3>4, <3>5, PanelStepKeeps DEF PanelInv
  <2>6. CASE InitialReply
    <3>1. /\ opPanel.at = "answered"
          /\ opPanel' = [at |-> "open", reply |-> OpNothing, shown |-> Applied(opPanel.reply)]
          /\ UNCHANGED <<opState, opBusy, opRecords, opRevision, opPrevious, opFile, opError, opLog, opEvents>>
      BY <2>6 DEF InitialReply
    <3>2. /\ Genuine(Applied(opPanel.reply))
          /\ opPanel.reply = Latest \/ opPanel.shown = Latest => Applied(opPanel.reply) = Latest
      BY <2>0, AppliedIsGenuine DEF AllGenuine
    <3>3. AllGenuine'
      BY <2>0, <2>1, <3>1, <3>2 DEF AllGenuine
    <3>4. LatestIsComing'
      BY <2>0, <2>1, <3>1, <3>2 DEF LatestIsComing
    <3> QED
      BY <2>0, <3>1, <3>3, <3>4, PanelStepKeeps DEF PanelInv
  <2>7. CASE EventArrives
    <3>1. /\ opEvents # <<>> /\ opEvents' = Tail(opEvents)
          /\ opPanel' = [opPanel EXCEPT !.shown = Applied(Head(opEvents))]
          /\ UNCHANGED <<opState, opBusy, opRecords, opRevision, opPrevious, opFile, opError, opLog>>
      BY <2>7 DEF EventArrives
    <3>2. opPanel' = [at |-> opPanel.at, reply |-> opPanel.reply, shown |-> Applied(Head(opEvents))]
      BY <2>0, <3>1
    <3>3. /\ IsSequence(opEvents') /\ Len(opEvents) \in Nat \ {0} /\ Len(opEvents') = Len(opEvents) - 1
          /\ Head(opEvents) = opEvents[1]
          /\ \A i \in 1..(Len(opEvents) - 1) : opEvents'[i] = opEvents[i + 1]
      BY <2>0, <3>1, SequenceTail
    <3>4. 1 \in 1..Len(opEvents)
      BY <3>3
    <3>5. /\ Genuine(Applied(Head(opEvents)))
          /\ Head(opEvents) = Latest \/ opPanel.shown = Latest => Applied(Head(opEvents)) = Latest
      <4>1. Genuine(opEvents[1]) /\ Genuine(opPanel.shown)
        BY <2>0, <3>4 DEF AllGenuine
      <4> QED
        BY <2>0, <3>3, <4>1, AppliedIsGenuine
    <3>6. \A i \in 1..Len(opEvents') : Genuine(opEvents'[i])
      <4>1. \A i \in 1..(Len(opEvents) - 1) : i + 1 \in 1..Len(opEvents)
        BY <3>3
      <4> QED
        BY <2>0, <3>3, <4>1 DEF AllGenuine
    <3>7. AllGenuine'
      BY <2>0, <2>1, <3>1, <3>2, <3>5, <3>6 DEF AllGenuine
    <3>8. LatestIsComing'
      <4>1. ASSUME NEW i \in 1..Len(opEvents), opEvents[i] = Latest
            PROVE  \/ Applied(Head(opEvents)) = Latest
                   \/ \E n \in 1..Len(opEvents') : opEvents'[n] = Latest
        <5>1. CASE i = 1
          BY <3>3, <3>5, <4>1, <5>1
        <5>2. CASE i # 1
          <6>1. i - 1 \in 1..(Len(opEvents) - 1) /\ (i - 1) + 1 = i
            BY <3>3, <5>2
          <6>2. opEvents'[i - 1] = opEvents[i]
            BY <3>3, <6>1
          <6> QED
            BY <3>3, <4>1, <6>1, <6>2
        <5> QED
          BY <5>1, <5>2
      <4> QED
        BY <2>0, <2>1, <3>1, <3>2, <3>5, <4>1 DEF LatestIsComing
    <3> QED
      BY <2>0, <3>1, <3>2, <3>3, <3>7, <3>8, PanelStepKeeps DEF PanelInv
  <2>8. CASE UNCHANGED opVars
    <3>1. AllGenuine' /\ LatestIsComing'
      BY <2>0, <2>8 DEF opVars, AllGenuine, Genuine, Latest, LatestIsComing
    <3> QED
      BY <2>0, <2>8, <3>1, PanelStepKeeps DEF opVars, PanelInv
  <2> QED
    BY <2>2, <2>3, <2>4, <2>5, <2>6, <2>7, <2>8 DEF OpNext
<1> QED
  BY <1>1, <1>2, PTL DEF OpSpec

\* For every number of operations and all sizes of the list and of the files: the
\* panel catches up with the store, the files hold the last of what was saved, and
\* the actor's word on an operation is the last one.
THEOREM OperationsAreTold == OpSpec => []OperationsAgree
<1>1. OperationsInv => OperationsAgree
  <2> SUFFICES ASSUME OperationsInv PROVE OperationsAgree
    OBVIOUS
  <2>1. OpTypes /\ AllGenuine /\ LatestIsComing /\ FilesFit /\ opRevision \in Nat
    BY DEF OperationsInv, OpTypes, PanelInv
  <2>2. PanelCatchesUp
    <3> SUFFICES ASSUME opPanel.at = "open", opEvents = <<>>, \A r \in OpRequests : opBusy[r] = OpNothing
                 PROVE  opPanel.shown = Latest
      BY DEF PanelCatchesUp, Latest
    <3>1. 1..Len(opEvents) = {}
      OBVIOUS
    <3>2. CASE opPanel.shown = Latest
      BY <3>2
    <3>3. CASE Latest = OpNothing
      <4>1. opRevision = 0
        BY <3>3 DEF Latest, OpNothing
      <4> QED
        BY <2>1, <4>1 DEF AllGenuine, Genuine
    <3> QED
      BY <2>1, <3>1, <3>2, <3>3 DEF LatestIsComing
  <2>3. FilesHoldTheLast
    <3>1. /\ opPrevious \in Seq(Lines) /\ opFile \in Seq(Lines) /\ opLog \in Seq(Lines)
          /\ Len(opPrevious) \in Nat /\ Len(opFile) \in Nat /\ Len(opLog) \in Nat
      BY <2>1 DEF OpTypes
    <3> DEFINE kept == opPrevious \o opFile
    <3>2. kept \in Seq(Lines) /\ Len(kept) = Len(opPrevious) + Len(opFile)
      BY <3>1
    <3>3. IsSuffix(kept, opLog)
      BY <2>1, <3>1, <3>2, TailIsSuffix DEF FilesFit
    <3>4. Len(kept) >= IF Len(opLog) < OpMaxLines THEN Len(opLog) ELSE OpMaxLines
      BY <2>1, <3>1, <3>2, OperationAssumption DEF FilesFit
    <3> QED
      BY <2>1, <3>3, <3>4 DEF FilesHoldTheLast, FilesFit
  <2> QED
    BY <2>2, <2>3 DEF OperationsAgree, OperationsInv
<1> QED
  BY <1>1, OperationsInvariance, PTL
=============================================================================
