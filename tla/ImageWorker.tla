----------------------------- MODULE ImageWorker -----------------------------
(***************************************************************************)
(* What the MCP tool makes of a thumbnail (get_mcp_image and               *)
(* McpImageProcessor in mcp/thumbnail.rs): one call at a time looks into   *)
(* the image cache or starts a job on a worker, clients go away while      *)
(* their job runs, and the application's exit waits for the jobs.          *)
(*                                                                         *)
(* Snapshots are numbered in the order they were fetched (Thumbnails       *)
(* models how); the last one is the one a new call is handed.              *)
(***************************************************************************)
EXTENDS Naturals, Sequences, FiniteSets

CONSTANTS
    IwCallers,         \* calls of viewport_get_thumbnail
    IwWorkers,         \* MCP_IMAGE_WORKER_COUNT
    IwMaxSnapshot      \* bound on the snapshots

ASSUME ImageAssumption ==
    IsFiniteSet(IwCallers) /\ IwWorkers \in Nat \ {0} /\ IwMaxSnapshot \in Nat

VARIABLES
    iwConnected,   \* the generation of the last snapshot is the current one
    iwSnapshot,    \* the last snapshot, 0 before the first
    iwFirst,       \* the first snapshot of the last connection
    iwCall,        \* every caller: where it is, its snapshot, the snapshot its image shows
    iwCache,       \* image_cache: the snapshot of the image, 0 for none
    iwLock,        \* image_processing: who holds it and who waits for it, in their order
    iwOrphans,     \* jobs whose caller is gone
    iwDown         \* the processor's shutdown

iwVars == <<iwConnected, iwSnapshot, iwFirst, iwCall, iwCache, iwLock, iwOrphans, iwDown>>

IwIdle == [at |-> "idle", snapshot |-> 0, image |-> 0]

IwInit ==
    /\ iwConnected = FALSE /\ iwSnapshot = 0 /\ iwFirst = 1
    /\ iwCall = [c \in IwCallers |-> IwIdle]
    /\ iwCache = 0 /\ iwLock = <<>> /\ iwOrphans = 0 /\ iwDown = "up"

IsCurrentImage(c) == iwConnected /\ iwCall[c].snapshot >= iwFirst
IwMoves(c, where) == iwCall' = [iwCall EXCEPT ![c].at = where]
Unlocked(c) == iwLock' = SelectSeq(iwLock, LAMBDA waiter : waiter # c)
GivesUp(c) == iwCall' = [iwCall EXCEPT ![c] = IwIdle] /\ Unlocked(c)
Shows(c, image) == iwCall' = [iwCall EXCEPT ![c].at = "shown", ![c].image = image] /\ Unlocked(c)
Jobs == Cardinality({c \in IwCallers : iwCall[c].at = "working"}) + iwOrphans

----------------------------------------------------------------------------
(* get_mcp_image.                                                          *)

TakeSnapshot(c) ==
    /\ iwCall[c].at = "idle" /\ iwConnected /\ iwSnapshot >= iwFirst
    /\ iwCall' = [iwCall EXCEPT ![c] = [at |-> "raw", snapshot |-> iwSnapshot, image |-> 0]]
    /\ UNCHANGED <<iwConnected, iwSnapshot, iwFirst, iwCache, iwLock, iwOrphans, iwDown>>

CheckGeneration(c) ==
    /\ iwCall[c].at = "raw"
    /\ IF IsCurrentImage(c) THEN IwMoves(c, "waiting") /\ iwLock' = Append(iwLock, c) ELSE GivesUp(c)
    /\ UNCHANGED <<iwConnected, iwSnapshot, iwFirst, iwCache, iwOrphans, iwDown>>

LockImages(c) ==
    /\ iwCall[c].at = "waiting" /\ Head(iwLock) = c
    /\ IwMoves(c, "locked")
    /\ UNCHANGED <<iwConnected, iwSnapshot, iwFirst, iwCache, iwLock, iwOrphans, iwDown>>

\* Mutant of ImageFits: an image of the same connection is taken for the snapshot's.
ImageFitsConnection(c) == iwCache # 0 /\ (iwCache >= iwFirst) = (iwCall[c].snapshot >= iwFirst)

\* The same generation and the same time of the fetch.
ImageFits(c) == iwCache # 0 /\ iwCache = iwCall[c].snapshot

\* The cache is looked up; without an image the processor must not be stopped.
LookUp(c) ==
    /\ iwCall[c].at = "locked"
    /\ \/ ImageFits(c) /\ Shows(c, iwCache)
       \/ ~ImageFits(c) /\ iwDown = "up" /\ IwMoves(c, "admitted") /\ UNCHANGED iwLock
       \/ ~ImageFits(c) /\ GivesUp(c)      \* stopped, or a snapshot that does not parse
    /\ UNCHANGED <<iwConnected, iwSnapshot, iwFirst, iwCache, iwOrphans, iwDown>>

\* try_acquire_owned; the memory budget suffices for every worker.
Permits == Jobs < IwWorkers /\ iwDown # "closed"

StartJob(c) ==
    /\ iwCall[c].at = "admitted"
    /\ IF Permits THEN IwMoves(c, "working") /\ UNCHANGED iwLock ELSE GivesUp(c)
    /\ UNCHANGED <<iwConnected, iwSnapshot, iwFirst, iwCache, iwOrphans, iwDown>>

\* process_png_thumbnail gives an image or an error; during a shutdown the call
\* waits for the job and may answer with an error instead.
EndJob(c) ==
    /\ iwCall[c].at = "working"
    /\ \/ IsCurrentImage(c) /\ IwMoves(c, "made") /\ UNCHANGED iwLock
       \/ GivesUp(c)
    /\ UNCHANGED <<iwConnected, iwSnapshot, iwFirst, iwCache, iwOrphans, iwDown>>

StoreImage(c) ==
    /\ iwCall[c].at = "made"
    /\ iwCache' = iwCall[c].snapshot
    /\ Shows(c, iwCall[c].snapshot)
    /\ UNCHANGED <<iwConnected, iwSnapshot, iwFirst, iwOrphans, iwDown>>

Answer(c) ==
    /\ iwCall[c].at = "shown"
    /\ iwCall' = [iwCall EXCEPT ![c] = IwIdle]
    /\ UNCHANGED <<iwConnected, iwSnapshot, iwFirst, iwCache, iwLock, iwOrphans, iwDown>>

\* A job that runs is not cancelled and keeps its permits.
LeftBehind(c) == IF iwCall[c].at = "working" THEN 1 ELSE 0

\* The client is gone and its future dropped.
Leave(c) ==
    /\ iwCall[c].at # "idle"
    /\ iwOrphans' = iwOrphans + LeftBehind(c)
    /\ GivesUp(c)
    /\ UNCHANGED <<iwConnected, iwSnapshot, iwFirst, iwCache, iwDown>>

OrphanEnds ==
    /\ iwOrphans > 0
    /\ iwOrphans' = iwOrphans - 1
    /\ UNCHANGED <<iwConnected, iwSnapshot, iwFirst, iwCall, iwCache, iwLock, iwDown>>

----------------------------------------------------------------------------
(* Around it: snapshots, the connection, the age of the cache, the exit.   *)

NewSnapshot ==
    /\ iwSnapshot < IwMaxSnapshot /\ iwDown = "up"
    /\ iwSnapshot' = iwSnapshot + 1
    /\ \/ iwConnected /\ UNCHANGED <<iwConnected, iwFirst, iwCache>>
       \/ ~iwConnected /\ iwConnected' = TRUE /\ iwFirst' = iwSnapshot + 1 /\ iwCache' = 0
    /\ UNCHANGED <<iwCall, iwLock, iwOrphans, iwDown>>

LoseConnection ==
    /\ iwConnected
    /\ iwConnected' = FALSE
    /\ UNCHANGED <<iwSnapshot, iwFirst, iwCall, iwCache, iwLock, iwOrphans, iwDown>>

\* invalidate, at some time after a disconnect; and the end of the image's age.
DropImage ==
    /\ iwCache # 0
    /\ iwCache' = 0
    /\ UNCHANGED <<iwConnected, iwSnapshot, iwFirst, iwCall, iwLock, iwOrphans, iwDown>>

\* shutdown: stopped is set and the calls are told ...
StopWorkers ==
    /\ iwDown = "up" /\ ~iwConnected
    /\ iwDown' = "stopping"
    /\ UNCHANGED <<iwConnected, iwSnapshot, iwFirst, iwCall, iwCache, iwLock, iwOrphans>>

AllPermits == IwWorkers - Jobs >= IwWorkers

\* ... and when every permit is back the semaphores are closed.
CloseWorkers ==
    /\ iwDown = "stopping" /\ AllPermits
    /\ iwDown' = "closed"
    /\ UNCHANGED <<iwConnected, iwSnapshot, iwFirst, iwCall, iwCache, iwLock, iwOrphans>>

ImageStep(c) ==
    \/ CheckGeneration(c) \/ LockImages(c) \/ LookUp(c) \/ StartJob(c)
    \/ EndJob(c) \/ StoreImage(c) \/ Answer(c)

IwNext ==
    \/ \E c \in IwCallers : TakeSnapshot(c) \/ ImageStep(c) \/ Leave(c)
    \/ OrphanEnds \/ NewSnapshot \/ LoseConnection \/ DropImage \/ StopWorkers \/ CloseWorkers

\* Jobs end and tasks are polled.
IwFairness ==
    /\ \A c \in IwCallers : WF_iwVars(ImageStep(c))
    /\ WF_iwVars(OrphanEnds) /\ WF_iwVars(CloseWorkers)

IwSpec == IwInit /\ [][IwNext]_iwVars
IwFairSpec == IwSpec /\ IwFairness

----------------------------------------------------------------------------
(* What the worker promises.                                               *)

\* The image a client is shown was made from the snapshot its own call took,
\* whoever filled the cache in between (get_mcp_image).
ImageOfOwnSnapshot ==
    \A c \in IwCallers : iwCall[c].at = "shown" => iwCall[c].image = iwCall[c].snapshot

\* When the processor's shutdown has returned no image job runs and none begins,
\* also for a call that was past the check of stopped (McpImageProcessor).
ShutdownIsFinal == iwDown = "closed" => Jobs = 0

\* The jobs that run without the lock do no harm: a client sees its own
\* snapshot, and nothing runs on after shutdown.
ImageJobsAreSafe == ImageOfOwnSnapshot /\ ShutdownIsFinal

\* The processor's shutdown returns, whatever the clients that went away have
\* left on the workers.
WorkersClose == iwDown = "stopping" ~> iwDown = "closed"
============================================================================
