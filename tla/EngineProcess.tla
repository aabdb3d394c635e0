--------------------------- MODULE EngineProcess ---------------------------
(***************************************************************************)
(* The engine the editor starts (process_runtime.rs): launch_engine from   *)
(* its check to the connection and its rollback, the monitor task that     *)
(* owns the child, stop_engine and the application's exit.  The holder of  *)
(* the handle is locked only for single steps, so launches, monitors,      *)
(* stops and the exit interleave between any two of them.  When the        *)
(* editor's process is gone nothing of it runs on, no future is dropped    *)
(* and no kill is sent: only the engines remain.                           *)
(***************************************************************************)
EXTENDS Naturals

CONSTANTS
    Launches,       \* calls of launch_engine; each has a process generation of its own
    NoLaunch,
    Bound           \* the launches whose child the editor's job takes

ASSUME ProcessAssumption == NoLaunch \notin Launches /\ Bound \subseteq Launches

VARIABLES
    epLaunch,       \* where each call of launch_engine is
    epChild,        \* its child process
    epMonitor,      \* its exit monitor
    epKill,         \* its kill channel: "sent", or "dropped" with a replaced handle
    epHolder,       \* ProcessState.inner: the launch whose handle is held
    epBridge,       \* the launch whose port the bridge connects or is connected to
    epStop,         \* the stop_engine that took its handle
    epExit,         \* the exit and the handle it took
    epExited,       \* engine.processExited events sent of each engine
    epStopped       \* "engine stopped" states sent of each engine

epVars == <<epLaunch, epChild, epMonitor, epKill, epHolder, epBridge, epStop, epExit, epExited, epStopped>>
epTold == <<epExited, epStopped>>

EpInit ==
    /\ epLaunch = [l \in Launches |-> "idle"]
    /\ epChild = [l \in Launches |-> "none"]
    /\ epMonitor = [l \in Launches |-> "none"]
    /\ epKill = [l \in Launches |-> "none"]
    /\ epHolder = NoLaunch /\ epBridge = NoLaunch
    /\ epStop = [l \in Launches |-> "none"]
    /\ epExit = [at |-> "idle", handle |-> NoLaunch]
    /\ epExited = [l \in Launches |-> 0] /\ epStopped = [l \in Launches |-> 0]

GoTo(l, where) == epLaunch' = [epLaunch EXCEPT ![l] = where]

\* The editor's process runs.
Open == epExit.at # "gone"
Alive(l) == epChild[l] = "alive"

----------------------------------------------------------------------------
(* launch_engine.                                                          *)

\* The lock is released after the check.
LaunchCheck(l) ==
    /\ epLaunch[l] = "idle"
    /\ GoTo(l, IF epHolder = NoLaunch THEN "checked" ELSE "failed")
    /\ UNCHANGED <<epChild, epMonitor, epKill, epHolder, epBridge, epStop, epExit, epTold>>

\* The path, the arguments, the port, and the child; any of them may fail.  On
\* Windows the child is put into the editor's job; it is not Bound when that fails.
LaunchSpawn(l) ==
    /\ epLaunch[l] = "checked"
    /\ \/ GoTo(l, "spawned") /\ epChild' = [epChild EXCEPT ![l] = "alive"]
       \/ GoTo(l, "failed") /\ UNCHANGED epChild
    /\ UNCHANGED <<epMonitor, epKill, epHolder, epBridge, epStop, epExit, epTold>>

\* The READY line: end of file, an error, a timeout or another text kill the
\* child that the call still owns.
LaunchReady(l) ==
    /\ epLaunch[l] = "spawned"
    /\ \/ GoTo(l, "ready") /\ UNCHANGED epChild
       \/ GoTo(l, "failed") /\ epChild' = [epChild EXCEPT ![l] = "dead"]
    /\ UNCHANGED <<epMonitor, epKill, epHolder, epBridge, epStop, epExit, epTold>>

\* spawn_exit_monitor takes the child over.
LaunchWatch(l) ==
    /\ epLaunch[l] = "ready"
    /\ GoTo(l, "watched")
    /\ epMonitor' = [epMonitor EXCEPT ![l] = "waiting"]
    /\ UNCHANGED <<epChild, epKill, epHolder, epBridge, epStop, epExit, epTold>>

\* Mutant of Replaced: a monitor does not act on a dropped kill channel.
ReplacedSilently(l) == epKill

\* The handle that was held is dropped, and its kill channel with it.
Replaced(l) ==
    IF epHolder = NoLaunch THEN epKill ELSE [epKill EXCEPT ![epHolder] = "dropped"]

\* The handle is stored whatever is held by now.
LaunchStore(l) ==
    /\ epLaunch[l] = "watched"
    /\ GoTo(l, "stored")
    /\ epHolder' = l
    /\ epKill' = Replaced(l)
    /\ UNCHANGED <<epChild, epMonitor, epBridge, epStop, epExit, epTold>>

\* connect_on_port: refused while the bridge has another connection.
LaunchConnect(l) ==
    /\ epLaunch[l] = "stored"
    /\ IF epBridge = NoLaunch
       THEN GoTo(l, "connecting") /\ epBridge' = l
       ELSE GoTo(l, "rollback") /\ UNCHANGED epBridge
    /\ UNCHANGED <<epChild, epMonitor, epKill, epHolder, epStop, epExit, epTold>>

\* A dead engine cannot be reached; a cancelled attempt fails.
LaunchConnected(l) ==
    /\ epLaunch[l] = "connecting"
    /\ \/ /\ epBridge = l /\ Alive(l)
          /\ GoTo(l, "ok")
          /\ UNCHANGED epBridge
       \/ /\ GoTo(l, "rollback")
          /\ epBridge' = IF epBridge = l THEN NoLaunch ELSE epBridge
    /\ UNCHANGED <<epChild, epMonitor, epKill, epHolder, epStop, epExit, epTold>>

\* The handle is taken and killed if it is this launch's; another's is put back.
LaunchRollback(l) ==
    /\ epLaunch[l] = "rollback"
    /\ GoTo(l, "failed")
    /\ IF epHolder = l
       THEN epHolder' = NoLaunch /\ epKill' = [epKill EXCEPT ![l] = "sent"]
       ELSE UNCHANGED <<epHolder, epKill>>
    /\ UNCHANGED <<epChild, epMonitor, epBridge, epStop, epExit, epTold>>

----------------------------------------------------------------------------
(* The child, its monitor and the relay.                                   *)

\* The engine crashes, ends by itself or is killed from outside.
Dies(l) ==
    /\ Alive(l)
    /\ epChild' = [epChild EXCEPT ![l] = "dead"]
    /\ UNCHANGED <<epLaunch, epMonitor, epKill, epHolder, epBridge, epStop, epExit, epTold>>

\* The natural exit or the kill request; then the child is reaped.
MonitorReaps(l) ==
    /\ epMonitor[l] = "waiting" /\ (epChild[l] = "dead" \/ epKill[l] # "none")
    /\ epChild' = [epChild EXCEPT ![l] = "dead"]
    /\ epMonitor' = [epMonitor EXCEPT ![l] = "reaped"]
    /\ UNCHANGED <<epLaunch, epKill, epHolder, epBridge, epStop, epExit, epTold>>

\* Under the lock, with the generation guard: clear and report, or nothing.
MonitorReports(l) ==
    /\ epMonitor[l] = "reaped"
    /\ epMonitor' = [epMonitor EXCEPT ![l] = "done"]
    /\ IF epHolder = l
       THEN epHolder' = NoLaunch /\ epExited' = [epExited EXCEPT ![l] = @ + 1]
       ELSE UNCHANGED <<epHolder, epExited>>
    /\ UNCHANGED <<epLaunch, epChild, epKill, epBridge, epStop, epExit, epStopped>>

\* The wait for the child fails.
MonitorFails(l) ==
    /\ epMonitor[l] = "waiting"
    /\ epMonitor' = [epMonitor EXCEPT ![l] = "failed"]
    /\ UNCHANGED <<epLaunch, epChild, epKill, epHolder, epBridge, epStop, epExit, epTold>>

\* Nothing is reported, and the task ends and drops the child: kill_on_drop.
MonitorClears(l) ==
    /\ epMonitor[l] = "failed"
    /\ epMonitor' = [epMonitor EXCEPT ![l] = "lost"]
    /\ epChild' = [epChild EXCEPT ![l] = "dead"]
    /\ epHolder' = IF epHolder = l THEN NoLaunch ELSE epHolder
    /\ UNCHANGED <<epLaunch, epKill, epBridge, epStop, epExit, epTold>>

\* The relay sees the closed transport, or the user disconnects, which also
\* cancels an attempt.
BridgeDrops ==
    /\ epBridge # NoLaunch
    /\ epBridge' = NoLaunch
    /\ UNCHANGED <<epLaunch, epChild, epMonitor, epKill, epHolder, epStop, epExit, epTold>>

----------------------------------------------------------------------------
(* stop_engine and the exit.                                               *)

\* A call that finds no handle returns at once.
StopTake ==
    /\ epHolder # NoLaunch
    /\ epStop' = [epStop EXCEPT ![epHolder] = "taken"]
    /\ epHolder' = NoLaunch
    /\ UNCHANGED <<epLaunch, epChild, epMonitor, epKill, epBridge, epExit, epTold>>

\* disconnect_quietly
StopDisconnect(l) ==
    /\ epStop[l] = "taken"
    /\ epStop' = [epStop EXCEPT ![l] = "disconnected"]
    /\ epBridge' = NoLaunch
    /\ UNCHANGED <<epLaunch, epChild, epMonitor, epKill, epHolder, epExit, epTold>>

\* The kill, and the one disconnected state.
StopKill(l) ==
    /\ epStop[l] = "disconnected"
    /\ epStop' = [epStop EXCEPT ![l] = "none"]
    /\ epKill' = [epKill EXCEPT ![l] = "sent"]
    /\ epStopped' = [epStopped EXCEPT ![l] = @ + 1]
    /\ UNCHANGED <<epLaunch, epChild, epMonitor, epHolder, epBridge, epExit, epExited>>

\* shutdown_on_exit, after the bridge's own.
ExitTake ==
    /\ epExit.at = "idle"
    /\ epBridge' = NoLaunch
    /\ IF epHolder = NoLaunch
       THEN epExit' = [epExit EXCEPT !.at = "done"] /\ UNCHANGED <<epHolder, epKill>>
       ELSE /\ epExit' = [at |-> "joining", handle |-> epHolder]
            /\ epHolder' = NoLaunch
            /\ epKill' = [epKill EXCEPT ![epHolder] = "sent"]
    /\ UNCHANGED <<epLaunch, epChild, epMonitor, epStop, epTold>>

\* The monitor ends within the grace, or is aborted and drops its child.
ExitJoin ==
    /\ epExit.at = "joining"
    /\ epExit' = [epExit EXCEPT !.at = "done"]
    /\ epMonitor' = [epMonitor EXCEPT ![epExit.handle] = "done"]
    /\ epChild' = [epChild EXCEPT ![epExit.handle] = "dead"]
    /\ UNCHANGED <<epLaunch, epKill, epHolder, epBridge, epStop, epTold>>

\* kill_engine_on_exit, if the lock is free at that moment; nobody waits for the
\* kill.
ExitHook ==
    /\ epExit.at = "done"
    /\ epExit' = [epExit EXCEPT !.at = "hooked"]
    /\ \/ UNCHANGED <<epHolder, epKill>>
       \/ /\ epHolder # NoLaunch
          /\ epHolder' = NoLaunch /\ epKill' = [epKill EXCEPT ![epHolder] = "sent"]
    /\ UNCHANGED <<epLaunch, epChild, epMonitor, epBridge, epStop, epTold>>

\* The editor's process ends: the system closes the job and ends the engines in
\* it.
EditorEnds ==
    /\ epExit.at = "hooked"
    /\ epExit' = [epExit EXCEPT !.at = "gone"]
    /\ epChild' = [l \in Launches |-> IF Alive(l) /\ l \in Bound THEN "dead" ELSE epChild[l]]
    /\ UNCHANGED <<epLaunch, epMonitor, epKill, epHolder, epBridge, epStop, epTold>>

----------------------------------------------------------------------------
LaunchStep(l) ==
    /\ Open
    /\ \/ LaunchSpawn(l) \/ LaunchReady(l) \/ LaunchWatch(l) \/ LaunchStore(l)
       \/ LaunchConnect(l) \/ LaunchConnected(l) \/ LaunchRollback(l)

MonitorStep(l) == Open /\ (MonitorReaps(l) \/ MonitorReports(l) \/ MonitorClears(l))
StopStep(l) == Open /\ (StopDisconnect(l) \/ StopKill(l))

EpNext ==
    \/ \E l \in Launches : LaunchStep(l) \/ MonitorStep(l) \/ StopStep(l) \/ Dies(l)
    \/ /\ Open
       /\ \/ \E l \in Launches : LaunchCheck(l) \/ MonitorFails(l)
          \/ BridgeDrops \/ StopTake
          \/ ExitTake \/ ExitJoin \/ ExitHook \/ EditorEnds

EpSpec == EpInit /\ [][EpNext]_epVars

\* Spawned tasks and started commands run on; reading READY and connecting end
\* by their timeouts.  No user action is assumed.
EpFairness ==
    \A l \in Launches :
        WF_epVars(LaunchStep(l)) /\ WF_epVars(MonitorStep(l)) /\ WF_epVars(StopStep(l))

EpFairSpec == EpSpec /\ EpFairness

----------------------------------------------------------------------------
\* The end of an engine is settled: its launch had succeeded, its monitor has
\* ended, no stop is under way and the application is not exiting.
Settled(l) ==
    epLaunch[l] = "ok" /\ epMonitor[l] = "done" /\ epStop[l] = "none" /\ epExit.at = "idle"

\* The screen gets one of the two signals per engine, never both and none twice:
\* a stop suppresses the exit event although the monitor sees the child end.
\* And it gets one, unless another launch has replaced the engine's handle: of
\* that engine nothing is said.
OneExitSignal ==
    \A l \in Launches :
        /\ epExited[l] + epStopped[l] <= 1
        /\ Settled(l) => epExited[l] + epStopped[l] = 1 \/ epKill[l] = "dropped"

\* Somebody will end the engine or can be told to: the holder, a stop or the exit
\* has its handle, its monitor has been told, or its launch is before the store.
Owned(l) ==
    \/ epHolder = l \/ epStop[l] # "none" \/ (epExit.at = "joining" /\ epExit.handle = l)
    \/ epMonitor[l] = "failed" \/ (epMonitor[l] = "waiting" /\ epKill[l] # "none")
    \/ epLaunch[l] \in {"spawned", "ready", "watched"}

\* As long as the editor runs, no engine runs that nobody can stop, also when
\* launches overlap and one handle replaces another.
NoStrayEngine == Open => \A l \in Launches : Alive(l) => Owned(l)

\* The engines that outlive the editor are none that its job had, and not the one
\* that the exit found in the holder.  Others may: one in its READY wait, or with
\* a kill sent that its monitor had no time to act on.
ExitLeavesNone ==
    ~Open => \A l \in Launches : Alive(l) => l \notin Bound /\ epExit.handle # l

\* The window between the monitor's start and the store heals itself: a handle
\* whose monitor has already ended is held only until the launch's connect
\* fails and rolls back.
HeldIsWatched ==
    \A l \in Launches :
        epHolder = l /\ epMonitor[l] \in {"done", "lost"} =>
            epLaunch[l] \in {"stored", "connecting", "rollback"}

\* Every engine process has somebody responsible for it while the editor runs,
\* the exit takes with it what it found, and an engine's end is told once,
\* whatever launches, stops and exits overlap.
EngineIsOwned == OneExitSignal /\ NoStrayEngine /\ ExitLeavesNone /\ HeldIsWatched

HoldsDead == epHolder # NoLaunch /\ epChild[epHolder] = "dead"

\* A dead engine does not stay in the holder, where it would refuse every
\* further launch: the monitor clears it, or the rollback when the monitor ran
\* before the handle was stored.
DeadIsReleased == HoldsDead ~> ~HoldsDead \/ ~Open
=============================================================================
