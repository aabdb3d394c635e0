------------------------------ MODULE McpHttp ------------------------------
(***************************************************************************)
(* The HTTP front of the MCP server (mcp.rs, mcp/request_lifetime.rs): the *)
(* limits on connections, ordinary requests and long-lived streams, the    *)
(* registry that finds the request a cancellation names, and the watchdog  *)
(* that ends a stream from inside the connection's I/O.                    *)
(*                                                                         *)
(* Two parties release what a request holds: the middleware, for a         *)
(* response that is not an event stream, and the tracker that watches the  *)
(* bytes written, for one that is.  A client may send its next requests    *)
(* without waiting for an answer.  hyper hands them to the middleware one  *)
(* at a time, and here as soon as it has the whole of the last response:   *)
(* the bytes of that response, and of others before it, may be unwritten.  *)
(***************************************************************************)
EXTENDS Naturals, Sequences, FiniteSets

CONSTANTS
    Conns,          \* TCP connections
    Keys,           \* request keys: namespace and id
    NoKey,          \* a message without an id
    MaxConnections, \* MAX_CONNECTIONS
    MaxOrdinary,    \* MAX_ORDINARY_REQUESTS
    MaxStreams,     \* MAX_LONG_LIVED_STREAMS
    MaxRequests     \* bound on the requests taken

ASSUME HttpAssumption ==
    /\ MaxConnections \in Nat \ {0} /\ MaxOrdinary \in Nat \ {0} /\ MaxStreams \in Nat \ {0}
    /\ MaxRequests \in Nat \ {0}
    /\ NoKey \notin Keys

Kinds == {"ordinary", "stream", "cancel"}

VARIABLES
    conn,           \* ConnectionIo, ConnectionState and the middleware's future
    freeConns, freeOrdinary, freeStreams,   \* HttpLimits
    requests        \* the last request's number: McpRequestLease's id

vars == <<conn, freeConns, freeOrdinary, freeStreams, requests>>
limits == <<freeOrdinary, freeStreams>>

\* A connection: the middleware's request (its number, and whether it came
\* behind a response still unwritten), what ConnectionState holds (the active
\* entry is a request's number and key), and the responses not yet written, of
\* which the tracker has read the first one's head when it has begun.  A late
\* response is the event stream of a request that came behind.
Quiet(at) ==
    [at |-> at, id |-> 0, kind |-> "ordinary", key |-> NoKey, lease |-> "none", behind |-> FALSE,
     ordinary |-> FALSE, stream |-> FALSE, deadline |-> FALSE, active |-> 0, activeKey |-> NoKey,
     out |-> <<>>, begun |-> FALSE, owner |-> 0, watchdog |-> "none", woken |-> FALSE]

Init ==
    /\ conn = [c \in Conns |-> Quiet("new")]
    /\ freeConns = MaxConnections
    /\ freeOrdinary = MaxOrdinary /\ freeStreams = MaxStreams
    /\ requests = 0

At(c, where) == conn[c].at = where
One(b) == IF b THEN 1 ELSE 0

\* Both permits of c are dropped: release_ordinary and release_stream.
ReleaseBoth(c) ==
    /\ freeOrdinary' = freeOrdinary + One(conn[c].ordinary)
    /\ freeStreams' = freeStreams + One(conn[c].stream)

\* The same for the connection's record.
Released(k) == [k EXCEPT !.ordinary = FALSE, !.stream = FALSE]

----------------------------------------------------------------------------
(* Connections.                                                            *)

\* ConnectionLimitedListener::accept takes a slot first.
Accept(c) ==
    /\ At(c, "new") /\ freeConns > 0
    /\ freeConns' = freeConns - 1
    /\ conn' = [conn EXCEPT ![c].at = "idle"]
    /\ UNCHANGED <<limits, requests>>

\* The middleware has not handed the request to the handler yet.
Unretained == {"body", "notifying", "admitting", "retaining"}

\* The connection's active request is the one the middleware took last.
ActiveIsLast(k) == k.active # 0 /\ k.active = k.id

\* ConnectionIo::drop cancels the active request; the permits go with the
\* ConnectionState, and a request not yet retained goes with the middleware's
\* future.
Closed(c) ==
    [Quiet("closed") EXCEPT
        !.behind = conn[c].behind,
        !.lease = IF ActiveIsLast(conn[c]) \/ conn[c].at \in Unretained THEN "over" ELSE conn[c].lease]

Close(c) ==
    /\ conn[c].at \notin {"new", "closed"}
    /\ conn' = [conn EXCEPT ![c] = Closed(c)]
    /\ freeConns' = freeConns + 1
    /\ ReleaseBoth(c)
    /\ UNCHANGED requests

----------------------------------------------------------------------------
(* authenticate_and_limit.                                                 *)

\* The middleware returns a response that is no event stream: the request is
\* over, and the response goes behind those hyper still has to write.
Answered(k) ==
    [k EXCEPT !.at = "idle", !.kind = "ordinary", !.key = NoKey, !.lease = "over", !.out = Append(@, "plain")]

\* A refusal before anything is held.
Answer(c) == conn' = [conn EXCEPT ![c] = Answered(conn[c])]

\* hyper hands over the next request: host, origin and token, and the lease of
\* an authorized one.
Arrive(c, kind, key) ==
    /\ At(c, "idle") /\ requests < MaxRequests
    /\ kind = "cancel" => key # NoKey
    /\ LET taken == [conn[c] EXCEPT !.at = "body", !.id = requests + 1, !.kind = kind, !.key = key,
                                    !.lease = "live", !.behind = conn[c].out # <<>>]
       IN \E k \in {taken, Answered(taken)} : conn' = [conn EXCEPT ![c] = k]
    /\ requests' = requests + 1
    /\ UNCHANGED <<freeConns, limits>>

\* The body is too large, too slow, or the lease was revoked meanwhile.
BodyRefused(c) ==
    /\ At(c, "body")
    /\ Answer(c)
    /\ UNCHANGED <<freeConns, limits, requests>>

\* ConnectionRegistry::cancel_request: every active request with the key.
CancelKey(key) ==
    [d \in Conns |-> IF ActiveIsLast(conn[d]) /\ conn[d].activeKey = key
                     THEN [conn[d] EXCEPT !.lease = "over"] ELSE conn[d]]

\* A stateless cancellation acts at once; none takes a permit.
BodyRead(c) ==
    /\ At(c, "body")
    /\ \/ /\ conn[c].kind = "cancel"
          /\ \E after \in {conn, CancelKey(conn[c].key)} :
                conn' = [after EXCEPT ![c].at = "notifying"]
       \/ /\ conn[c].kind # "cancel"
          /\ conn' = [conn EXCEPT ![c].at = "admitting"]
    /\ UNCHANGED <<freeConns, limits, requests>>

Notified(c) ==
    /\ At(c, "notifying")
    /\ Answer(c)
    /\ UNCHANGED <<freeConns, limits, requests>>

\* try_acquire_owned, and retain_stream: a permit for a connection that keeps
\* one is dropped again.
AcquireStream(c) ==
    /\ At(c, "admitting") /\ conn[c].kind = "stream"
    /\ IF freeStreams > 0 /\ ~conn[c].stream
       THEN /\ freeStreams' = freeStreams - 1
            /\ conn' = [conn EXCEPT ![c].at = "retaining", ![c].stream = TRUE]
       ELSE Answer(c) /\ UNCHANGED freeStreams
    /\ UNCHANGED <<freeConns, freeOrdinary, requests>>

\* The same with retain_ordinary.
AcquireOrdinary(c) ==
    /\ At(c, "admitting") /\ conn[c].kind = "ordinary"
    /\ IF freeOrdinary > 0 /\ ~conn[c].ordinary
       THEN /\ freeOrdinary' = freeOrdinary - 1
            /\ conn' = [conn EXCEPT ![c].at = "retaining", ![c].ordinary = TRUE]
       ELSE Answer(c) /\ UNCHANGED freeOrdinary
    /\ UNCHANGED <<freeConns, freeStreams, requests>>

\* An active request, of any connection, has the key.
Taken(key) == key # NoKey /\ \E d \in Conns : conn[d].active # 0 /\ conn[d].activeKey = key

\* The ConnectionState's own retain_request refuses while an entry is there.
Occupied(c) == conn[c].active # 0

\* The entry of the request, and set_request_deadline.
Retained(k) ==
    [k EXCEPT !.at = "running", !.active = k.id, !.activeKey = k.key, !.deadline = TRUE]

\* Mutant of Retain: the permits stay with the connection after a conflict.
RetainConflictKeeps(c) ==
    /\ At(c, "retaining")
    /\ IF Taken(conn[c].key) \/ Occupied(c) THEN Answer(c) ELSE conn' = [conn EXCEPT ![c] = Retained(conn[c])]
    /\ UNCHANGED <<freeConns, limits, requests>>

\* ConnectionRegistry::retain_request; a refusal gives both permits of the
\* connection back, also those an earlier response still holds.
Retain(c) ==
    /\ At(c, "retaining")
    /\ IF Taken(conn[c].key) \/ Occupied(c)
       THEN conn' = [conn EXCEPT ![c] = Answered(Released(conn[c]))] /\ ReleaseBoth(c)
       ELSE conn' = [conn EXCEPT ![c] = Retained(conn[c])] /\ UNCHANGED limits
    /\ UNCHANGED <<freeConns, requests>>

\* request_lifetime: the tool returns, or it is ended by a cancellation, by
\* the authorization that went, or by the deadline.
HandlerEnds(c) ==
    /\ At(c, "running")
    /\ \E lease \in {conn[c].lease, "over"} :
          conn' = [conn EXCEPT ![c].at = "returned", ![c].lease = lease]
    /\ UNCHANGED <<freeConns, limits, requests>>

\* finish_request: only the request's own entry is taken away.
Finished(k, request) ==
    IF k.active = request THEN [k EXCEPT !.active = 0, !.activeKey = NoKey] ELSE k

\* The middleware finishes a request whose response is no event stream.
Finish(c) ==
    /\ conn' = [conn EXCEPT ![c] = Answered(Released(Finished(conn[c], conn[c].id)))]
    /\ ReleaseBoth(c)
    /\ UNCHANGED <<freeConns, requests>>

\* The middleware's own limit passes first: GATEWAY_TIMEOUT.
RequestTimesOut(c) == At(c, "running") /\ Finish(c)

Respond(c) == At(c, "returned") /\ Finish(c)

\* An event stream: everything stays with the connection.
RespondStream(c) ==
    /\ At(c, "returned")
    /\ conn' = [conn EXCEPT ![c].at = "streaming", ![c].kind = "ordinary", ![c].key = NoKey,
                            ![c].out = Append(@, IF conn[c].behind THEN "late" ELSE "stream")]
    /\ UNCHANGED <<freeConns, limits, requests>>

\* The stream's body ends with its handler: hyper has the whole of it.
StreamEnds(c) ==
    /\ At(c, "streaming")
    /\ conn' = [conn EXCEPT ![c].at = "idle", ![c].lease = "over"]
    /\ UNCHANGED <<freeConns, limits, requests>>

----------------------------------------------------------------------------
(* SseWireTracker: what the written bytes say, of the first response that  *)
(* is not yet written.                                                     *)

\* A response's head is being written, or its body is.
HeadNext(c) == conn[c].out # <<>> /\ ~conn[c].begun
IsSse(k) == Head(k.out) # "plain"
Streaming(c) == conn[c].begun /\ IsSse(conn[c])

\* Mutant of WriteHead: the parked read is not woken.
WriteHeadUnwoken(c) ==
    /\ HeadNext(c)
    /\ LET sse == IsSse(conn[c]) IN
       conn' = [conn EXCEPT ![c].begun = TRUE, ![c].owner = conn[c].active,
                            ![c].watchdog = IF sse THEN "unarmed" ELSE "none",
                            ![c].deadline = @ /\ sse]
    /\ UNCHANGED <<freeConns, limits, requests>>

\* begin_response: the response is taken for the active request's.  An event
\* stream gets a watchdog, by the stream's limits or by the request's deadline,
\* and the read that hyper parked is woken so that the timer is polled.
WriteHead(c) ==
    /\ HeadNext(c)
    /\ LET sse == IsSse(conn[c])
           timed == sse /\ (conn[c].stream \/ conn[c].deadline)
       IN conn' = [conn EXCEPT ![c].begun = TRUE, ![c].owner = conn[c].active,
                               ![c].watchdog = IF timed THEN "unarmed" ELSE "none",
                               ![c].woken = timed,
                               ![c].deadline = @ /\ sse]
    /\ UNCHANGED <<freeConns, limits, requests>>

\* begin_response for a status without a body, or for HEAD: the active request
\* is finished and both permits go.
WriteBodyless(c) ==
    /\ HeadNext(c) /\ ~IsSse(conn[c])
    /\ conn' = [conn EXCEPT ![c] =
                    [Released(Finished(conn[c], conn[c].active)) EXCEPT !.out = Tail(@), !.deadline = FALSE]]
    /\ ReleaseBoth(c)
    /\ UNCHANGED <<freeConns, requests>>

\* The woken read polls the watchdog first, which registers its timer.
PollRead(c) ==
    /\ conn[c].woken
    /\ conn' = [conn EXCEPT ![c].watchdog = "armed", ![c].woken = FALSE]
    /\ UNCHANGED <<freeConns, limits, requests>>

\* So does any later write or flush, when there is one.
PollWrite(c) ==
    /\ conn[c].watchdog = "unarmed"
    /\ conn' = [conn EXCEPT ![c].watchdog = "armed"]
    /\ UNCHANGED <<freeConns, limits, requests>>

\* A data line moves the idle deadline; the timer stays registered.
StreamEvent(c) ==
    /\ Streaming(c)
    /\ conn' = [conn EXCEPT ![c].watchdog = IF @ = "none" THEN @ ELSE "armed"]
    /\ UNCHANGED <<freeConns, limits, requests>>

\* The stream of the request the middleware took last is still open.
StillOpen(k) == k.at = "streaming" /\ Len(k.out) = 1

\* finish_response, at the last byte of the body: the request recorded with the
\* head is finished.  Also begin_response for a body of length 0.
WriteEnd(c) ==
    /\ conn[c].begun /\ ~StillOpen(conn[c])
    /\ LET sse == IsSse(conn[c]) IN
       /\ conn' = [conn EXCEPT ![c] =
              [Finished(conn[c], conn[c].owner) EXCEPT
                  !.out = Tail(@), !.begun = FALSE, !.owner = 0, !.watchdog = "none", !.woken = FALSE,
                  !.deadline = FALSE, !.ordinary = FALSE, !.stream = @ /\ ~sse]]
       /\ freeOrdinary' = freeOrdinary + One(conn[c].ordinary)
       /\ freeStreams' = freeStreams + One(conn[c].stream /\ sse)
    /\ UNCHANGED <<freeConns, requests>>

\* The watchdog's timer fires: the I/O fails and hyper drops the connection.
WatchdogFires(c) == conn[c].watchdog = "armed" /\ Close(c)

----------------------------------------------------------------------------
ServerStep(c) ==
    \/ BodyRefused(c) \/ Notified(c) \/ AcquireStream(c) \/ AcquireOrdinary(c) \/ Retain(c) \/ RequestTimesOut(c)
    \/ Respond(c) \/ WriteHead(c) \/ PollRead(c)

Next ==
    \/ \E c \in Conns :
          \/ Accept(c) \/ Close(c) \/ BodyRead(c) \/ HandlerEnds(c) \/ RespondStream(c) \/ StreamEnds(c)
          \/ WriteBodyless(c) \/ PollWrite(c) \/ StreamEvent(c) \/ WriteEnd(c)
          \/ ServerStep(c)
          \/ \E kind \in Kinds, key \in Keys \cup {NoKey} : Arrive(c, kind, key)

Spec == Init /\ [][Next]_vars

\* A response that has a request or another response behind it.
Overtaken(c) == Len(conn[c].out) > 1 \/ conn[c].at \notin {"idle", "streaming"}

\* Tasks are polled, the deadlines of the middleware pass and registered
\* timers fire.  A client that sends ahead reads the responses it has queued;
\* nothing else is assumed of it.
Fairness ==
    \A c \in Conns :
        /\ WF_vars(ServerStep(c)) /\ WF_vars(WatchdogFires(c))
        /\ WF_vars(Overtaken(c) /\ WriteEnd(c))

FairSpec == Spec /\ Fairness

----------------------------------------------------------------------------
\* Every variable has its type, and the semaphores stay within their limits.
TypeOK ==
    /\ DOMAIN conn = Conns
    /\ \A c \in Conns :
          /\ conn[c].at \in {"new", "idle", "body", "notifying", "admitting", "retaining", "running",
                             "returned", "streaming", "closed"}
          /\ conn[c].id \in 0..MaxRequests /\ conn[c].active \in 0..MaxRequests
          /\ conn[c].out \in Seq({"plain", "stream", "late"}) /\ conn[c].begun => conn[c].out # <<>>
          /\ conn[c].key \in Keys \cup {NoKey} /\ conn[c].activeKey \in Keys \cup {NoKey}
          /\ conn[c].lease \in {"none", "live", "over"}
          /\ conn[c].watchdog \in {"none", "unarmed", "armed"}
    /\ freeConns \in 0..MaxConnections
    /\ freeOrdinary \in 0..MaxOrdinary /\ freeStreams \in 0..MaxStreams
    /\ requests \in 0..MaxRequests

\* Every slot and permit is free or held, and by one holder: none is lost, and
\* none comes back twice.
PermitsBalance ==
    /\ freeConns + Cardinality({c \in Conns : conn[c].at \notin {"new", "closed"}}) = MaxConnections
    /\ freeOrdinary + Cardinality({c \in Conns : conn[c].ordinary}) = MaxOrdinary
    /\ freeStreams + Cardinality({c \in Conns : conn[c].stream}) = MaxStreams

Holding(c) == conn[c].ordinary \/ conn[c].stream

\* A permit is held only for a request in progress or for an event stream not
\* yet written: a connection that waits for its next request, or sends answers
\* that are no streams, holds none.
PermitHasRequest ==
    \A c \in Conns :
        Holding(c) => \/ conn[c].at \in {"retaining", "running", "returned", "streaming"}
                      \/ \E i \in DOMAIN conn[c].out : conn[c].out[i] # "plain"

\* A cancellation names at most one request.
OneRequestPerKey ==
    \A c, d \in Conns :
        conn[c].active # 0 /\ conn[d].active # 0 /\ c # d /\ conn[c].activeKey # NoKey =>
            conn[c].activeKey # conn[d].activeKey

\* Whatever still runs for a client can be cancelled: a live lease of an
\* admitted request is the connection's active one, and a client that left
\* leaves none behind.  A request that came behind an unwritten response is
\* excepted: that response's end may take its entry.
LiveIsCancellable ==
    \A c \in Conns :
        conn[c].lease = "live" =>
            conn[c].at \in Unretained \/ ActiveIsLast(conn[c]) \/ conn[c].behind

\* A stream that is being written has a watchdog.  A late one may have none; the
\* connection's last response being such, the connection holds no permit.
StreamIsTimed ==
    \A c \in Conns :
        Streaming(c) /\ conn[c].watchdog = "none" =>
            /\ Head(conn[c].out) = "late"
            /\ Overtaken(c) \/ ~Holding(c)

\* A request runs only when the event streams before it are written, so that the
\* connection's entry, permits and deadline are never shared with one.
StreamsComeFirst ==
    \A c \in Conns :
        conn[c].at \in {"running", "returned"} =>
            \A i \in DOMAIN conn[c].out : conn[c].out[i] # "stream"

\* Permits, keys, leases and watchdogs follow the requests they were taken for,
\* on every path a request can end by and however far ahead the client sends.
RequestsAccounted ==
    /\ TypeOK /\ PermitsBalance /\ PermitHasRequest /\ OneRequestPerKey /\ LiveIsCancellable
    /\ StreamIsTimed /\ StreamsComeFirst

\* Every permit comes back, whatever the client sends and however long the
\* handler takes.
PermitReturns == \A c \in Conns : Holding(c) ~> ~Holding(c)
=============================================================================
