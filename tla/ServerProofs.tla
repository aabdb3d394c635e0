---------------------------- MODULE ServerProofs ----------------------------
(***************************************************************************)
(* Proofs about the MCP server: its HTTP front, for every set of           *)
(* connections and keys and all limits, and the runtime that starts it,    *)
(* for every set of settings, tokens and power failures.                   *)
(***************************************************************************)
EXTENDS McpHttp, McpRuntime, FiniteSetTheorems, TLAPS

-----------------------------------------------------------------------------
(* McpHttp: the inductive invariant.                                       *)

\* The states of one connection.
Places ==
    {"new", "idle", "body", "notifying", "admitting", "retaining", "running", "returned",
     "streaming", "closed"}
Responses == {"plain", "stream", "late"}
Queues == Seq(Responses)
Numbers == 0..MaxRequests

ConnStates ==
    [at : Places, id : Numbers, kind : Kinds, key : Keys \cup {NoKey},
     lease : {"none", "live", "over"}, behind : BOOLEAN,
     ordinary : BOOLEAN, stream : BOOLEAN, deadline : BOOLEAN,
     active : Numbers, activeKey : Keys \cup {NoKey},
     out : Queues, begun : BOOLEAN, owner : Numbers,
     watchdog : {"none", "unarmed", "armed"}, woken : BOOLEAN]

\* An event stream is still to be written.
StreamLeft(k) == \E i \in 1..Len(k.out) : k.out[i] # "plain"

\* Permits follow a request, or an event stream not yet written.
HeldFits(k) ==
    k.ordinary \/ k.stream =>
        k.at \in {"retaining", "running", "returned", "streaming"} \/ StreamLeft(k)

\* A live lease belongs to the active request, but for one that came behind.
LeaseFits(k) ==
    k.lease = "live" => k.at # "idle" /\ (k.at \in Unretained \/ ActiveIsLast(k) \/ k.behind)

\* The tracker has begun with a response that is there; a request that did not
\* come behind has no response before its own.
OutFits(k) ==
    /\ k.begun => Len(k.out) > 0
    /\ ~k.behind => Len(k.out) <= (IF k.at \in {"idle", "streaming"} THEN 1 ELSE 0)

\* A request that runs has its entry and its deadline, as long as no response
\* before it takes them; one that takes the deadline takes the ordinary permit.
RunningFits(k) ==
    k.at \in {"running", "returned"} =>
        /\ ~k.behind => ActiveIsLast(k) /\ k.deadline
        /\ Len(k.out) = 0 /\ k.ordinary => k.deadline

\* An event stream whose request did not come behind is the first response to
\* be written, keeps its entry, and its deadline until the watchdog is there; no
\* other request runs.
StreamFits(k) ==
    \A i \in 1..Len(k.out) :
        k.out[i] = "stream" =>
            /\ i = 1 /\ k.active # 0 /\ k.at \notin {"running", "returned"}
            /\ k.begun => k.watchdog # "none"
            /\ ~k.begun => k.deadline

\* A late stream that is the last response: without deadline or watchdog no permit.
LateFits(k) ==
    k.at \in {"idle", "streaming"} /\ Len(k.out) = 1 /\ k.out[1] = "late" =>
        /\ k.begun /\ k.watchdog = "none" => ~k.ordinary /\ ~k.stream
        /\ ~k.begun /\ k.ordinary => k.deadline

\* A connection not accepted yet has nothing; a request has its number.
StartFits(k) ==
    /\ k.at = "new" => k.lease # "live"
    /\ k.at \in {"new", "closed"} => Len(k.out) = 0
NumberFits(k) == k.at \in Unretained \cup {"running", "returned"} => k.id # 0

\* An open stream is the last response.
EndFits(k) == k.at = "streaming" => Len(k.out) > 0 /\ k.out[Len(k.out)] # "plain"

ConnFits(k) ==
    /\ HeldFits(k) /\ LeaseFits(k) /\ OutFits(k) /\ RunningFits(k) /\ StreamFits(k) /\ LateFits(k)
    /\ StartFits(k) /\ NumberFits(k) /\ EndFits(k)

\* Who holds a slot of the listener and who a permit.
Open(k) == k.at \notin {"new", "closed"}
Slots == {c \in Conns : Open(conn[c])}
Ordinaries == {c \in Conns : conn[c].ordinary}
Streams == {c \in Conns : conn[c].stream}

\* Every permit is free or held, so that none comes back twice.
PermitsCounted ==
    /\ IsFiniteSet(Slots) /\ freeConns \in Nat /\ freeConns + Cardinality(Slots) = MaxConnections
    /\ IsFiniteSet(Ordinaries) /\ freeOrdinary \in Nat
    /\ freeOrdinary + Cardinality(Ordinaries) = MaxOrdinary
    /\ IsFiniteSet(Streams) /\ freeStreams \in Nat /\ freeStreams + Cardinality(Streams) = MaxStreams

HttpInv ==
    /\ conn \in [Conns -> ConnStates] /\ requests \in 0..MaxRequests
    /\ PermitsCounted
    /\ \A c \in Conns : ConnFits(conn[c])
    /\ OneRequestPerKey

-----------------------------------------------------------------------------
(* Counting.                                                               *)

\* A set that gains or loses one element, or neither.
LEMMA OneElement ==
    ASSUME NEW S, IsFiniteSet(S), NEW T, NEW c, T \ {c} = S \ {c}
    PROVE  /\ IsFiniteSet(T) /\ Cardinality(S) \in Nat /\ Cardinality(T) \in Nat
           /\ Cardinality(T) + One(c \in S) = Cardinality(S) + One(c \in T)
<1>0. Cardinality(S) \in Nat
  BY FS_CardinalityType
<1>1. CASE c \in S <=> c \in T
  <2>1. S = T
    BY <1>1
  <2> QED
    BY <1>0, <1>1, <2>1 DEF One
<1>2. CASE c \notin S /\ c \in T
  <2>1. T = S \cup {c}
    BY <1>2
  <2>2. IsFiniteSet(T) /\ Cardinality(T) = Cardinality(S) + 1
    BY <1>2, <2>1, FS_AddElement
  <2> QED
    BY <1>0, <1>2, <2>2 DEF One
<1>3. CASE c \in S /\ c \notin T
  <2>1. T = S \ {c}
    BY <1>3
  <2>2. IsFiniteSet(T) /\ Cardinality(T) = Cardinality(S) - 1
    BY <1>3, <2>1, FS_RemoveElement
  <2>3. Cardinality(T) \in Nat
    BY <2>2, FS_CardinalityType
  <2> QED
    BY <1>0, <1>3, <2>2, <2>3 DEF One
<1> QED
  BY <1>1, <1>2, <1>3

\* Permits that leave the free ones are held, and the other way round.
LEMMA PermitMoves ==
    ASSUME NEW S, IsFiniteSet(S), NEW T, NEW c, T \ {c} = S \ {c},
           NEW max \in Nat, NEW free \in Nat, NEW after \in Nat,
           free + Cardinality(S) = max, after + One(c \in T) = free + One(c \in S)
    PROVE  IsFiniteSet(T) /\ after + Cardinality(T) = max
<1>1. /\ IsFiniteSet(T) /\ Cardinality(S) \in Nat /\ Cardinality(T) \in Nat
      /\ Cardinality(T) + One(c \in S) = Cardinality(S) + One(c \in T)
  BY OneElement
<1> QED
  BY <1>1 DEF One

\* The entry k.active is c's own already, or its key is free.
KeyIsFree(c, k) ==
    k.active # 0 /\ k.activeKey # NoKey =>
        \/ conn[c].active # 0 /\ conn[c].activeKey = k.activeKey
        \/ \A d \in Conns \ {c} : ~(conn[d].active # 0 /\ conn[d].activeKey = k.activeKey)

\* A step of connection c, by which others lose at most their leases, keeps the
\* invariant when c's new state fits, its key is free and the permits add up.
LEMMA ConnectionMoves ==
    ASSUME HttpInv, NEW c \in Conns, NEW k \in ConnStates, ConnFits(k),
           conn' \in [Conns -> ConnStates], conn'[c] = k,
           \A d \in Conns \ {c} :
               conn'[d] = conn[d] \/ conn'[d] = [conn[d] EXCEPT !.lease = "over"],
           KeyIsFree(c, k),
           freeConns' \in Nat, freeConns' + One(Open(k)) = freeConns + One(Open(conn[c])),
           freeOrdinary' \in Nat, freeOrdinary' + One(k.ordinary) = freeOrdinary + One(conn[c].ordinary),
           freeStreams' \in Nat, freeStreams' + One(k.stream) = freeStreams + One(conn[c].stream),
           requests' \in 0..MaxRequests
    PROVE  HttpInv'
<1>0. /\ conn \in [Conns -> ConnStates] /\ PermitsCounted /\ OneRequestPerKey
      /\ \A d \in Conns : ConnFits(conn[d])
  BY DEF HttpInv
<1>1. ASSUME NEW d \in Conns \ {c}
      PROVE  /\ conn'[d].at = conn[d].at /\ conn'[d].ordinary = conn[d].ordinary
             /\ conn'[d].stream = conn[d].stream /\ conn'[d].active = conn[d].active
             /\ conn'[d].activeKey = conn[d].activeKey
             /\ ConnFits(conn'[d])
  <2>1. conn[d] \in ConnStates /\ ConnFits(conn[d])
    BY <1>0
  <2>2. CASE conn'[d] = conn[d]
    BY <2>1, <2>2
  <2>3. CASE conn'[d] = [conn[d] EXCEPT !.lease = "over"]
    <3> DEFINE q == conn'[d]
    <3>1. /\ q.at = conn[d].at /\ q.id = conn[d].id /\ q.behind = conn[d].behind /\ q.ordinary = conn[d].ordinary
          /\ q.stream = conn[d].stream /\ q.deadline = conn[d].deadline /\ q.active = conn[d].active
          /\ q.activeKey = conn[d].activeKey /\ q.out = conn[d].out /\ q.begun = conn[d].begun
          /\ q.watchdog = conn[d].watchdog /\ q.lease = "over"
      BY <2>1, <2>3 DEF ConnStates
    <3> HIDE DEF q
    <3>2. ConnFits(q)
      BY <2>1, <3>1 DEF ConnFits, HeldFits, LeaseFits, OutFits, RunningFits, StreamFits, LateFits, StartFits, NumberFits, EndFits, StreamLeft, ActiveIsLast
    <3> QED
      BY <3>1, <3>2 DEF q
  <2> QED
    BY <2>2, <2>3
<1>2. \A d \in Conns : ConnFits(conn'[d])
  BY <1>1
<1>3. OneRequestPerKey'
  <2> SUFFICES ASSUME NEW a \in Conns, NEW b \in Conns, conn'[a].active # 0, conn'[b].active # 0, a # b,
                      conn'[a].activeKey # NoKey
               PROVE  conn'[a].activeKey # conn'[b].activeKey
    BY DEF OneRequestPerKey
  <2>1. CASE a # c /\ b # c
    BY <1>0, <1>1, <2>1 DEF OneRequestPerKey
  <2>2. CASE a = c
    BY <1>0, <1>1, <2>2 DEF OneRequestPerKey, KeyIsFree
  <2>3. CASE b = c
    BY <1>0, <1>1, <2>3 DEF OneRequestPerKey, KeyIsFree
  <2> QED
    BY <2>1, <2>2, <2>3
<1>4. (\A d \in Conns : ConnFits(conn[d]))'
  BY <1>2 DEF ConnFits, HeldFits, LeaseFits, OutFits, RunningFits, StreamFits, LateFits, StartFits, NumberFits, EndFits, StreamLeft, ActiveIsLast
<1>5. PermitsCounted'
  <2>1. IsFiniteSet(Slots') /\ freeConns' + Cardinality(Slots') = MaxConnections
    <3>1. Slots' \ {c} = Slots \ {c}
      BY <1>1 DEF Slots, Open
    <3>2. (c \in Slots <=> Open(conn[c])) /\ (c \in Slots' <=> Open(k))
      BY DEF Slots, Open
    <3>3. freeConns' + One(c \in Slots') = freeConns + One(c \in Slots)
      BY <3>2 DEF One
    <3>4. IsFiniteSet(Slots) /\ freeConns \in Nat /\ freeConns + Cardinality(Slots) = MaxConnections /\ MaxConnections \in Nat
      BY <1>0, HttpAssumption DEF PermitsCounted
    <3> QED
      BY <3>1, <3>3, <3>4, PermitMoves
  <2>2. IsFiniteSet(Ordinaries') /\ freeOrdinary' + Cardinality(Ordinaries') = MaxOrdinary
    <3>1. Ordinaries' \ {c} = Ordinaries \ {c}
      BY <1>1 DEF Ordinaries
    <3>2. (c \in Ordinaries <=> conn[c].ordinary) /\ (c \in Ordinaries' <=> k.ordinary)
      BY DEF Ordinaries
    <3>3. freeOrdinary' + One(c \in Ordinaries') = freeOrdinary + One(c \in Ordinaries)
      BY <3>2 DEF One
    <3>4. IsFiniteSet(Ordinaries) /\ freeOrdinary \in Nat /\ freeOrdinary + Cardinality(Ordinaries) = MaxOrdinary /\ MaxOrdinary \in Nat
      BY <1>0, HttpAssumption DEF PermitsCounted
    <3> QED
      BY <3>1, <3>3, <3>4, PermitMoves
  <2>3. IsFiniteSet(Streams') /\ freeStreams' + Cardinality(Streams') = MaxStreams
    <3>1. Streams' \ {c} = Streams \ {c}
      BY <1>1 DEF Streams
    <3>2. (c \in Streams <=> conn[c].stream) /\ (c \in Streams' <=> k.stream)
      BY DEF Streams
    <3>3. freeStreams' + One(c \in Streams') = freeStreams + One(c \in Streams)
      BY <3>2 DEF One
    <3>4. IsFiniteSet(Streams) /\ freeStreams \in Nat /\ freeStreams + Cardinality(Streams) = MaxStreams /\ MaxStreams \in Nat
      BY <1>0, HttpAssumption DEF PermitsCounted
    <3> QED
      BY <3>1, <3>3, <3>4, PermitMoves
  <2> QED
    BY <2>1, <2>2, <2>3 DEF PermitsCounted
<1> QED
  BY <1>3, <1>4, <1>5 DEF HttpInv

-----------------------------------------------------------------------------
(* McpHttp: what the steps do to one connection.                           *)

\* A response that joins the others, and the first one that leaves them.
LEMMA ResponseJoins ==
    ASSUME NEW s \in Seq(Responses), NEW r \in Responses
    PROVE  /\ Append(s, r) \in Queues /\ Len(Append(s, r)) = Len(s) + 1 /\ Len(s) \in Nat
           /\ Append(s, r)[Len(s) + 1] = r
           /\ \A i \in 1..Len(s) : Append(s, r)[i] = s[i]
  BY DEF Queues

LEMMA ResponseLeaves ==
    ASSUME NEW s \in Seq(Responses), s # <<>>
    PROVE  /\ Tail(s) \in Queues /\ Tail(s) \in Seq(Responses) /\ Len(Tail(s)) = Len(s) - 1 /\ Len(s) \in Nat /\ Len(s) > 0
           /\ Head(s) = s[1]
           /\ \A i \in 1..Len(Tail(s)) : Tail(s)[i] = s[i + 1]
  BY DEF Queues

\* There is a first response: it is the only one, or there are others.
LEMMA OneOrMore ==
    ASSUME NEW n \in Nat, n > 0
    PROVE  (n <= 1 => n = 1) /\ (n # 1 => n > 1) /\ (~(n > 1) => n = 1)
  OBVIOUS

\* The parts of a connection's state.
LEMMA ConnParts ==
    ASSUME NEW k \in ConnStates
    PROVE  /\ k.at \in Places /\ k.id \in 0..MaxRequests /\ k.kind \in Kinds /\ k.key \in Keys \cup {NoKey}
           /\ k.lease \in {"none", "live", "over"} /\ k.behind \in BOOLEAN
           /\ k.ordinary \in BOOLEAN /\ k.stream \in BOOLEAN /\ k.deadline \in BOOLEAN
           /\ k.active \in 0..MaxRequests /\ k.activeKey \in Keys \cup {NoKey}
           /\ k.out \in Queues /\ k.out \in Seq(Responses) /\ k.begun \in BOOLEAN /\ k.owner \in 0..MaxRequests
           /\ k.watchdog \in {"none", "unarmed", "armed"} /\ k.woken \in BOOLEAN
  BY DEF ConnStates, Queues, Numbers

\* A connection that waits, or is not open, and has nothing to write fits.
LEMMA EmptyFits ==
    ASSUME NEW k \in ConnStates, k.at \in {"new", "idle", "closed"}, Len(k.out) = 0, ~k.begun,
           ~k.ordinary, ~k.stream, k.lease = "live" => k.behind /\ k.at = "closed"
    PROVE  ConnFits(k)
<1>1. HeldFits(k) /\ LeaseFits(k) /\ OutFits(k) /\ RunningFits(k)
  BY DEF HeldFits, LeaseFits, OutFits, RunningFits
<1>2. StreamFits(k) /\ LateFits(k)
  BY DEF StreamFits, LateFits
<1>3. StartFits(k) /\ NumberFits(k) /\ EndFits(k)
  BY DEF StartFits, NumberFits, EndFits, Unretained
<1> QED
  BY <1>1, <1>2, <1>3 DEF ConnFits

\* A connection without a request holds nothing and fits.
LEMMA Resting ==
    ASSUME NEW at \in {"new", "idle", "closed"}
    PROVE  /\ Quiet(at) \in ConnStates /\ ConnFits(Quiet(at)) /\ Quiet(at).at = at
           /\ ~Quiet(at).ordinary /\ ~Quiet(at).stream /\ Quiet(at).active = 0 /\ Quiet(at).out = <<>>
<1>0. 0 \in Numbers /\ <<>> \in Queues
  BY HttpAssumption DEF Numbers, Queues
<1>1. /\ Quiet(at) \in ConnStates /\ Quiet(at).at = at /\ Quiet(at).lease = "none"
      /\ ~Quiet(at).ordinary /\ ~Quiet(at).stream /\ Quiet(at).active = 0
      /\ Quiet(at).out = <<>> /\ ~Quiet(at).begun
  BY <1>0 DEF Quiet, ConnStates, Kinds, Places
<1>2. Len(Quiet(at).out) = 0
  BY <1>1
<1> QED
  BY <1>1, <1>2, EmptyFits

\* A request whose permits are gone, or only an event stream's, may be answered.
LEMMA AnsweredFits ==
    ASSUME NEW k \in ConnStates, OutFits(k), StreamFits(k), k.at \in Places \ {"idle", "streaming"},
           k.ordinary \/ k.stream => StreamLeft(k)
    PROVE  /\ Answered(k) \in ConnStates /\ ConnFits(Answered(k)) /\ Answered(k).at = "idle"
           /\ Answered(k).ordinary = k.ordinary /\ Answered(k).stream = k.stream
           /\ Answered(k).active = k.active /\ Answered(k).activeKey = k.activeKey
<1> DEFINE q == Answered(k)
           s == Append(k.out, "plain")
<1>1. k.out \in Seq(Responses) /\ "plain" \in Responses
  BY ConnParts DEF Responses
<1>2. /\ s \in Queues /\ Len(s) = Len(k.out) + 1 /\ Len(k.out) \in Nat /\ s[Len(k.out) + 1] = "plain"
      /\ \A i \in 1..Len(k.out) : s[i] = k.out[i]
  BY <1>1, ResponseJoins
<1>3. /\ q \in ConnStates /\ q.at = "idle" /\ q.lease = "over" /\ q.out = s /\ q.behind = k.behind
      /\ q.ordinary = k.ordinary /\ q.stream = k.stream /\ q.deadline = k.deadline /\ q.begun = k.begun
      /\ q.active = k.active /\ q.activeKey = k.activeKey /\ q.watchdog = k.watchdog
  <2> HIDE DEF s
  <2>1. q = [k EXCEPT !.at = "idle", !.kind = "ordinary", !.key = NoKey, !.lease = "over", !.out = s]
    BY DEF Answered, s
  <2>2. "idle" \in Places /\ "ordinary" \in Kinds /\ s \in Queues
    BY <1>2 DEF Places, Kinds
  <2>3. q \in ConnStates
    BY <2>1, <2>2 DEF ConnStates
  <2> QED
    BY <2>1, <2>3 DEF ConnStates
<1> HIDE DEF q, s
<1>4. HeldFits(q)
  BY <1>2, <1>3 DEF HeldFits, StreamLeft
<1>5. OutFits(q)
  BY <1>2, <1>3 DEF OutFits
<1>6. StreamFits(q)
  <2> SUFFICES ASSUME NEW i \in 1..Len(s), s[i] = "stream"
               PROVE  /\ i = 1 /\ k.active # 0 /\ (k.begun => k.watchdog # "none") /\ (~k.begun => k.deadline)
    BY <1>3 DEF StreamFits
  <2>1. i \in 1..Len(k.out) /\ k.out[i] = "stream"
    BY <1>2
  <2> QED
    BY <2>1 DEF StreamFits
<1>7. LeaseFits(q) /\ RunningFits(q) /\ LateFits(q) /\ StartFits(q) /\ NumberFits(q) /\ EndFits(q)
  BY <1>2, <1>3 DEF LeaseFits, RunningFits, LateFits, StartFits, NumberFits, EndFits, Unretained
<1> QED
  BY <1>3, <1>4, <1>5, <1>6, <1>7 DEF ConnFits, q

\* A step of c alone.
LEMMA ConnectionAlone ==
    ASSUME HttpInv, NEW c \in Conns, NEW k \in ConnStates, ConnFits(k),
           conn' = [conn EXCEPT ![c] = k], KeyIsFree(c, k),
           freeConns' \in Nat, freeConns' + One(Open(k)) = freeConns + One(Open(conn[c])),
           freeOrdinary' \in Nat, freeOrdinary' + One(k.ordinary) = freeOrdinary + One(conn[c].ordinary),
           freeStreams' \in Nat, freeStreams' + One(k.stream) = freeStreams + One(conn[c].stream),
           requests' \in 0..MaxRequests
    PROVE  HttpInv'
<1>1. /\ conn' \in [Conns -> ConnStates] /\ conn'[c] = k
      /\ \A d \in Conns \ {c} : conn'[d] = conn[d]
  BY DEF HttpInv
<1> QED
  BY <1>1, ConnectionMoves

\* A step that only moves c's request on, with what it holds.
LEMMA RequestGoesOn ==
    ASSUME HttpInv, NEW c \in Conns, NEW k \in ConnStates, ConnFits(k),
           conn' = [conn EXCEPT ![c] = k], UNCHANGED <<freeConns, limits>>, requests' \in 0..MaxRequests,
           Open(conn[c]), Open(k), k.ordinary = conn[c].ordinary, k.stream = conn[c].stream,
           KeyIsFree(c, k)
    PROVE  HttpInv'
<1>1. /\ freeConns' = freeConns /\ freeOrdinary' = freeOrdinary /\ freeStreams' = freeStreams
      /\ freeConns \in Nat /\ freeOrdinary \in Nat /\ freeStreams \in Nat
  BY DEF limits, HttpInv, PermitsCounted
<1>2. Open(k) <=> Open(conn[c])
  OBVIOUS
<1>3. One(Open(k)) = One(Open(conn[c])) /\ One(k.ordinary) = One(conn[c].ordinary) /\ One(k.stream) = One(conn[c].stream)
  BY <1>2 DEF One
<1> QED
  BY <1>1, <1>3, ConnectionAlone

\* The request of c ends, or c's connection does, and both permits are given back.
LEMMA RequestGivesBack ==
    ASSUME HttpInv, NEW c \in Conns, NEW k \in ConnStates, ConnFits(k),
           conn' = [conn EXCEPT ![c] = k], ReleaseBoth(c), Open(conn[c]),
           ~k.ordinary, ~k.stream, KeyIsFree(c, k),
           IF Open(k) THEN freeConns' = freeConns ELSE freeConns' = freeConns + 1,
           requests' = requests
    PROVE  HttpInv'
<1>1. /\ freeConns \in Nat /\ freeOrdinary \in Nat /\ freeStreams \in Nat /\ requests \in 0..MaxRequests
      /\ conn[c] \in ConnStates
  BY DEF HttpInv, PermitsCounted
<1>2. /\ freeConns' \in Nat /\ freeConns' + One(Open(k)) = freeConns + One(Open(conn[c]))
  BY <1>1 DEF One
<1>3. /\ freeOrdinary' \in Nat /\ freeOrdinary' + One(k.ordinary) = freeOrdinary + One(conn[c].ordinary)
  BY <1>1 DEF One, ReleaseBoth
<1>4. /\ freeStreams' \in Nat /\ freeStreams' + One(k.stream) = freeStreams + One(conn[c].stream)
  BY <1>1 DEF One, ReleaseBoth
<1> QED
  BY <1>1, <1>2, <1>3, <1>4, ConnectionAlone

\* A refusal before anything is held.
LEMMA Refused ==
    ASSUME HttpInv, NEW c \in Conns, Answer(c),
           conn[c].at \in {"body", "notifying", "admitting"}, UNCHANGED <<freeConns, limits>>,
           requests' \in 0..MaxRequests
    PROVE  HttpInv'
<1> DEFINE k == Answered(conn[c])
<1>1. conn[c] \in ConnStates /\ ConnFits(conn[c]) /\ conn[c].at \in Places \ {"idle", "streaming"}
  BY DEF HttpInv, Places
<1>2. conn[c].ordinary \/ conn[c].stream => StreamLeft(conn[c])
  BY <1>1 DEF ConnFits, HeldFits
<1>3. /\ k \in ConnStates /\ ConnFits(k) /\ k.at = "idle" /\ k.ordinary = conn[c].ordinary /\ k.stream = conn[c].stream
      /\ k.active = conn[c].active /\ k.activeKey = conn[c].activeKey
  BY <1>1, <1>2, AnsweredFits DEF ConnFits
<1>4. conn' = [conn EXCEPT ![c] = k]
  BY DEF Answer
<1> HIDE DEF k
<1>5. Open(k) /\ Open(conn[c]) /\ KeyIsFree(c, k)
  BY <1>3 DEF Open, KeyIsFree
<1> QED
  BY <1>3, <1>4, <1>5, RequestGoesOn

\* The first response is written, and with it go a permit of its own and the
\* ordinary one, the deadline and perhaps the entry.
LEMMA ResponseGoes ==
    ASSUME NEW k \in ConnStates, ConnFits(k), Len(k.out) > 0, ~StillOpen(k),
           NEW q \in ConnStates, q.at = k.at, q.id = k.id, q.behind = k.behind, q.lease = k.lease,
           q.out = Tail(k.out), ~q.begun, ~q.ordinary,
           q.stream => k.stream /\ k.out[1] = "plain",
           ~k.behind => q.active = k.active \/ k.at \in {"idle", "streaming"}
    PROVE  ConnFits(q)
<1>1. /\ k.out \in Seq(Responses) /\ k.out # <<>> /\ k.at \in Places /\ k.lease \in {"none", "live", "over"}
  BY ConnParts
<1>2. /\ q.out \in Seq(Responses) /\ Len(q.out) = Len(k.out) - 1 /\ Len(k.out) \in Nat
      /\ \A i \in 1..Len(q.out) : q.out[i] = k.out[i + 1]
  BY <1>1, ResponseLeaves
<1>3. \A i \in 1..Len(q.out) : q.out[i] # "stream"
  BY <1>2 DEF ConnFits, StreamFits
<1>4. HeldFits(q)
  <2> SUFFICES ASSUME q.stream, k.at \notin {"retaining", "running", "returned", "streaming"}
               PROVE  StreamLeft(q)
    BY DEF HeldFits
  <2>1. PICK i \in 1..Len(k.out) : k.out[i] # "plain"
    BY DEF ConnFits, HeldFits, StreamLeft
  <2>2. i - 1 \in 1..Len(q.out)
    BY <1>2, <2>1
  <2>3. q.out[i - 1] # "plain"
    BY <1>2, <2>1, <2>2
  <2> QED
    BY <2>2, <2>3 DEF StreamLeft
<1>5. OutFits(q)
  BY <1>2 DEF ConnFits, OutFits
<1>6. ~k.behind => k.at \in {"idle", "streaming"}
  BY <1>2 DEF ConnFits, OutFits
<1>7. LeaseFits(q)
  <2> SUFFICES ASSUME k.lease = "live" PROVE k.at # "idle" /\ (k.at \in Unretained \/ k.behind)
    BY DEF LeaseFits
  <2>1. k.at # "idle"
    BY DEF ConnFits, LeaseFits
  <2>2. CASE ~k.behind
    <3>0. k.at = "streaming" /\ Len(k.out) <= 1
      BY <1>6, <2>1, <2>2 DEF ConnFits, OutFits
    <3>1. k.at = "streaming" /\ Len(k.out) = 1
      BY <1>2, <3>0, OneOrMore
    <3> QED
      BY <3>1 DEF StillOpen
  <2> QED
    BY <2>1, <2>2
<1>8. RunningFits(q) /\ StreamFits(q) /\ LateFits(q) /\ NumberFits(q)
  BY <1>3, <1>6 DEF ConnFits, RunningFits, StreamFits, LateFits, NumberFits
<1>9. StartFits(q)
  BY <1>2 DEF ConnFits, StartFits
<1>10. EndFits(q)
  <2> SUFFICES ASSUME k.at = "streaming" PROVE Len(q.out) > 0 /\ q.out[Len(q.out)] # "plain"
    BY DEF EndFits
  <2>0. Len(k.out) # 1 /\ k.out[Len(k.out)] # "plain"
    BY DEF ConnFits, EndFits, StillOpen
  <2>1. Len(k.out) > 1
    BY <1>2, <2>0, OneOrMore
  <2>2. Len(q.out) \in 1..Len(q.out) /\ Len(q.out) + 1 = Len(k.out)
    BY <1>2, <2>1
  <2> QED
    BY <1>2, <2>0, <2>2
<1> QED
  BY <1>4, <1>5, <1>7, <1>8, <1>9, <1>10 DEF ConnFits

-----------------------------------------------------------------------------
(* McpHttp: the steps.                                                     *)

\* Every step of a connection keeps the invariant.
LEMMA HttpStep ==
    ASSUME HttpInv, Next
    PROVE  HttpInv'
<1>0. /\ conn \in [Conns -> ConnStates] /\ requests \in 0..MaxRequests /\ MaxRequests \in Nat
      /\ \A c \in Conns : conn[c] \in ConnStates /\ ConnFits(conn[c])
      /\ freeConns \in Nat /\ freeOrdinary \in Nat /\ freeStreams \in Nat
  BY HttpAssumption DEF HttpInv, PermitsCounted
<1>a. 0 \in Numbers
  BY HttpAssumption DEF Numbers
<1>1. ASSUME NEW c \in Conns, Accept(c) PROVE HttpInv'
  <2> DEFINE k == [conn[c] EXCEPT !.at = "idle"]
  <2>1. /\ conn[c].at = "new" /\ conn' = [conn EXCEPT ![c] = k] /\ freeConns > 0 /\ freeConns' = freeConns - 1
        /\ freeOrdinary' = freeOrdinary /\ freeStreams' = freeStreams /\ requests' = requests
    BY <1>1 DEF Accept, At, limits
  <2>2. /\ k \in ConnStates /\ k.at = "idle" /\ k.ordinary = conn[c].ordinary /\ k.stream = conn[c].stream
        /\ k.lease = conn[c].lease /\ k.active = conn[c].active /\ k.activeKey = conn[c].activeKey
        /\ k.out = conn[c].out /\ k.begun = conn[c].begun /\ k.behind = conn[c].behind /\ k.id = conn[c].id
    BY <1>0 DEF ConnStates, Places
  <2>a. /\ conn[c].lease # "live" /\ Len(conn[c].out) = 0 /\ ~conn[c].begun
    BY <1>0, <2>1 DEF ConnFits, StartFits, OutFits
  <2>b. ~conn[c].ordinary /\ ~conn[c].stream
    BY <1>0, <2>1, <2>a DEF ConnFits, HeldFits, StreamLeft
  <2> HIDE DEF k
  <2>3. ConnFits(k)
    BY <2>2, <2>a, <2>b, EmptyFits
  <2>4. freeConns' \in Nat /\ freeConns' + One(Open(k)) = freeConns + One(Open(conn[c]))
    BY <1>0, <2>1, <2>2 DEF One, Open
  <2>5. One(k.ordinary) = One(conn[c].ordinary) /\ One(k.stream) = One(conn[c].stream) /\ KeyIsFree(c, k)
    BY <2>2 DEF One, KeyIsFree
  <2> QED
    BY <1>0, <2>1, <2>2, <2>3, <2>4, <2>5, ConnectionAlone
<1>2. ASSUME NEW c \in Conns, Close(c) PROVE HttpInv'
  <2> DEFINE over == IF ActiveIsLast(conn[c]) \/ conn[c].at \in Unretained THEN "over" ELSE conn[c].lease
             k == Closed(c)
  <2>1. /\ conn' = [conn EXCEPT ![c] = k] /\ ReleaseBoth(c) /\ freeConns' = freeConns + 1 /\ requests' = requests
        /\ Open(conn[c])
    BY <1>2 DEF Close, Open
  <2>2. over \in {"none", "live", "over"} /\ (over = "live" => conn[c].behind) /\ conn[c].behind \in BOOLEAN
    <3>1. conn[c].lease \in {"none", "live", "over"} /\ conn[c].behind \in BOOLEAN
      BY <1>0, ConnParts
    <3> QED
      BY <1>0, <3>1 DEF ConnFits, LeaseFits
  <2>3. /\ Quiet("closed") \in ConnStates /\ Quiet("closed").at = "closed" /\ ~Quiet("closed").ordinary
        /\ ~Quiet("closed").stream /\ Quiet("closed").active = 0 /\ Quiet("closed").out = <<>>
        /\ ~Quiet("closed").begun
    BY Resting DEF Quiet
  <2>4. k = [Quiet("closed") EXCEPT !.behind = conn[c].behind, !.lease = over]
    BY DEF Closed
  <2> HIDE DEF over, k
  <2>5. /\ k \in ConnStates /\ k.at = "closed" /\ ~k.ordinary /\ ~k.stream /\ k.active = 0 /\ k.lease = over
        /\ k.out = <<>> /\ ~k.begun /\ k.behind = conn[c].behind
    BY <2>2, <2>3, <2>4 DEF ConnStates
  <2>6. Len(k.out) = 0
    BY <2>5
  <2>7. ConnFits(k)
    BY <2>2, <2>5, <2>6, EmptyFits
  <2>8. ~Open(k) /\ KeyIsFree(c, k)
    BY <2>5 DEF Open, KeyIsFree
  <2> QED
    BY <2>1, <2>5, <2>7, <2>8, RequestGivesBack
<1>3. ASSUME NEW c \in Conns, BodyRefused(c) \/ Notified(c) PROVE HttpInv'
  <2>1. /\ Answer(c) /\ conn[c].at \in {"body", "notifying"} /\ UNCHANGED <<freeConns, limits>> /\ requests' = requests
    BY <1>3 DEF BodyRefused, Notified, At
  <2> QED
    BY <1>0, <2>1, Refused
<1>4. ASSUME NEW c \in Conns, NEW kind \in Kinds, NEW key \in Keys \cup {NoKey}, Arrive(c, kind, key) PROVE HttpInv'
  <2> DEFINE late == conn[c].out # <<>>
             taken == [conn[c] EXCEPT !.at = "body", !.id = requests + 1, !.kind = kind, !.key = key,
                                      !.lease = "live", !.behind = late]
  <2>1. /\ conn[c].at = "idle" /\ requests < MaxRequests /\ requests' = requests + 1 /\ UNCHANGED <<freeConns, limits>>
        /\ conn' \in {[conn EXCEPT ![c] = taken], [conn EXCEPT ![c] = Answered(taken)]}
    BY <1>4 DEF Arrive, At
  <2>2. /\ requests' \in 0..MaxRequests /\ requests + 1 \in Numbers /\ requests + 1 # 0
        /\ late \in BOOLEAN
    BY <1>0, <2>1 DEF Numbers
  <2>3. late <=> Len(conn[c].out) > 0
    BY <1>0, ConnParts
  <2> HIDE DEF late
  <2>a. "body" \in Places /\ "live" \in {"none", "live", "over"} /\ conn[c] \in ConnStates
    BY <1>0 DEF Places
  <2>b. taken \in ConnStates
    BY <2>2, <2>a DEF ConnStates
  <2>4. /\ taken \in ConnStates /\ taken.at = "body" /\ taken.id = requests + 1 /\ taken.lease = "live" /\ taken.behind = late
        /\ taken.ordinary = conn[c].ordinary /\ taken.stream = conn[c].stream /\ taken.out = conn[c].out
        /\ taken.begun = conn[c].begun /\ taken.deadline = conn[c].deadline /\ taken.watchdog = conn[c].watchdog
        /\ taken.active = conn[c].active /\ taken.activeKey = conn[c].activeKey
    BY <2>a, <2>b DEF ConnStates
  <2> HIDE DEF taken
  <2>5. HeldFits(taken) /\ (taken.ordinary \/ taken.stream => StreamLeft(taken))
    BY <1>0, <2>1, <2>4 DEF ConnFits, HeldFits, StreamLeft
  <2>6. OutFits(taken)
    BY <1>0, <2>3, <2>4, ConnParts DEF ConnFits, OutFits
  <2>7. StreamFits(taken)
    BY <1>0, <2>1, <2>4 DEF ConnFits, StreamFits
  <2>8. ConnFits(taken)
    BY <1>0, <2>2, <2>4, <2>5, <2>6, <2>7 DEF ConnFits, LeaseFits, RunningFits, LateFits, StartFits, NumberFits, EndFits, Unretained
  <2>9. /\ Answered(taken) \in ConnStates /\ ConnFits(Answered(taken)) /\ Answered(taken).at = "idle"
        /\ Answered(taken).ordinary = taken.ordinary /\ Answered(taken).stream = taken.stream
        /\ Answered(taken).active = taken.active /\ Answered(taken).activeKey = taken.activeKey
    BY <2>4, <2>5, <2>6, <2>7, AnsweredFits DEF Places
  <2>10. PICK k \in {taken, Answered(taken)} : conn' = [conn EXCEPT ![c] = k]
    BY <2>1
  <2>11. /\ k \in ConnStates /\ ConnFits(k) /\ k.at \in {"body", "idle"}
         /\ k.ordinary = conn[c].ordinary /\ k.stream = conn[c].stream
         /\ k.active = conn[c].active /\ k.activeKey = conn[c].activeKey
    BY <2>4, <2>8, <2>9, <2>10
  <2>12. Open(k) /\ Open(conn[c]) /\ KeyIsFree(c, k)
    BY <2>1, <2>11 DEF Open, KeyIsFree
  <2> QED
    BY <2>1, <2>2, <2>10, <2>11, <2>12, RequestGoesOn
<1>5. ASSUME NEW c \in Conns, BodyRead(c) PROVE HttpInv'
  <2>0. /\ conn[c].at = "body" /\ freeConns' = freeConns /\ freeOrdinary' = freeOrdinary
        /\ freeStreams' = freeStreams /\ requests' = requests
    BY <1>5 DEF BodyRead, At, limits
  <2>1. PICK after \in {conn, CancelKey(conn[c].key)}, at \in {"notifying", "admitting"} :
            conn' = [after EXCEPT ![c].at = at]
    BY <1>5 DEF BodyRead
  <2>2. /\ after \in [Conns -> ConnStates]
        /\ \A d \in Conns : after[d] = conn[d] \/ after[d] = [conn[d] EXCEPT !.lease = "over"]
    <3>1. CASE after = conn
      BY <1>0, <3>1
    <3>2. CASE after = CancelKey(conn[c].key)
      <4>1. \A d \in Conns : conn[d] \in ConnStates /\ [conn[d] EXCEPT !.lease = "over"] \in ConnStates
        BY <1>0 DEF ConnStates
      <4> QED
        BY <3>2, <4>1 DEF CancelKey
    <3> QED
      BY <2>1, <3>1, <3>2
  <2> DEFINE k == [after[c] EXCEPT !.at = at]
  <2>3. conn' = [after EXCEPT ![c] = k] /\ after[c] \in ConnStates
    BY <2>1, <2>2
  <2>4. /\ after[c].ordinary = conn[c].ordinary /\ after[c].stream = conn[c].stream /\ after[c].out = conn[c].out
        /\ after[c].active = conn[c].active /\ after[c].activeKey = conn[c].activeKey
        /\ after[c].id = conn[c].id /\ after[c].behind = conn[c].behind /\ after[c].begun = conn[c].begun
        /\ after[c].deadline = conn[c].deadline /\ after[c].watchdog = conn[c].watchdog
    BY <1>0, <2>2 DEF ConnStates
  <2>5. /\ k \in ConnStates /\ k.at = at /\ k.ordinary = after[c].ordinary /\ k.stream = after[c].stream
        /\ k.out = after[c].out /\ k.active = after[c].active /\ k.activeKey = after[c].activeKey
        /\ k.id = after[c].id /\ k.behind = after[c].behind /\ k.begun = after[c].begun
        /\ k.deadline = after[c].deadline /\ k.watchdog = after[c].watchdog
    BY <2>1, <2>3 DEF ConnStates, Places
  <2> HIDE DEF k
  <2>6. /\ k.out = conn[c].out /\ k.active = conn[c].active /\ k.activeKey = conn[c].activeKey
        /\ k.behind = conn[c].behind /\ k.begun = conn[c].begun /\ k.ordinary = conn[c].ordinary
        /\ k.stream = conn[c].stream /\ k.deadline = conn[c].deadline /\ k.watchdog = conn[c].watchdog
        /\ k.at \in {"notifying", "admitting"} /\ k.id = conn[c].id
    BY <2>1, <2>4, <2>5
  <2>7. ConnFits(k)
    BY <1>0, <2>0, <2>6
       DEF ConnFits, HeldFits, LeaseFits, OutFits, RunningFits, StreamFits, LateFits, StartFits, NumberFits, EndFits, StreamLeft, Unretained
  <2>8. Open(k) /\ Open(conn[c]) /\ KeyIsFree(c, k)
    BY <2>0, <2>6 DEF Open, KeyIsFree
  <2>9. One(Open(k)) = One(Open(conn[c])) /\ One(k.ordinary) = One(conn[c].ordinary) /\ One(k.stream) = One(conn[c].stream)
    BY <2>6, <2>8 DEF One
  <2>10. /\ conn' \in [Conns -> ConnStates] /\ conn'[c] = k
         /\ \A d \in Conns \ {c} : conn'[d] = conn[d] \/ conn'[d] = [conn[d] EXCEPT !.lease = "over"]
    BY <2>2, <2>3, <2>5
  <2> QED
    BY <1>0, <2>0, <2>5, <2>7, <2>8, <2>9, <2>10, ConnectionMoves
<1>6. ASSUME NEW c \in Conns, AcquireStream(c) PROVE HttpInv'
  <2>0. /\ conn[c].at = "admitting" /\ freeConns' = freeConns /\ freeOrdinary' = freeOrdinary /\ requests' = requests
    BY <1>6 DEF AcquireStream, At
  <2>1. CASE freeStreams > 0 /\ ~conn[c].stream
    <3> DEFINE k == [conn[c] EXCEPT !.at = "retaining", !.stream = TRUE]
    <3>1. conn' = [conn EXCEPT ![c] = k] /\ freeStreams' = freeStreams - 1
      BY <1>6, <2>1 DEF AcquireStream
    <3>2. /\ k \in ConnStates /\ k.at = "retaining" /\ k.id = conn[c].id /\ k.ordinary = conn[c].ordinary /\ k.stream
          /\ k.active = conn[c].active /\ k.activeKey = conn[c].activeKey /\ k.out = conn[c].out
          /\ k.behind = conn[c].behind /\ k.begun = conn[c].begun /\ k.deadline = conn[c].deadline
          /\ k.watchdog = conn[c].watchdog
      <4>1. conn[c] \in ConnStates /\ "retaining" \in Places
        BY <1>0 DEF Places
      <4>2. k \in ConnStates
        BY <4>1 DEF ConnStates
      <4> QED
        BY <4>1, <4>2 DEF ConnStates
    <3> HIDE DEF k
    <3>3. ConnFits(k)
      BY <1>0, <2>0, <3>2
         DEF ConnFits, HeldFits, LeaseFits, OutFits, RunningFits, StreamFits, LateFits, StartFits, NumberFits, EndFits, Unretained
    <3>4. Open(k) /\ Open(conn[c]) /\ KeyIsFree(c, k)
      BY <2>0, <3>2 DEF Open, KeyIsFree
    <3>5. One(Open(k)) = One(Open(conn[c])) /\ One(k.ordinary) = One(conn[c].ordinary)
      BY <3>2, <3>4 DEF One
    <3>6. freeStreams' \in Nat /\ freeStreams' + One(k.stream) = freeStreams + One(conn[c].stream)
      BY <1>0, <2>1, <3>1, <3>2 DEF One
    <3> QED
      BY <1>0, <2>0, <3>1, <3>2, <3>3, <3>4, <3>5, <3>6, ConnectionAlone
  <2>2. CASE ~(freeStreams > 0 /\ ~conn[c].stream)
    <3>1. Answer(c) /\ UNCHANGED <<freeConns, limits>>
      BY <1>6, <2>0, <2>2 DEF AcquireStream, limits
    <3> QED
      BY <1>0, <2>0, <3>1, Refused
  <2> QED
    BY <2>1, <2>2
<1>7. ASSUME NEW c \in Conns, AcquireOrdinary(c) PROVE HttpInv'
  <2>0. /\ conn[c].at = "admitting" /\ freeConns' = freeConns /\ freeStreams' = freeStreams /\ requests' = requests
    BY <1>7 DEF AcquireOrdinary, At
  <2>1. CASE freeOrdinary > 0 /\ ~conn[c].ordinary
    <3> DEFINE k == [conn[c] EXCEPT !.at = "retaining", !.ordinary = TRUE]
    <3>1. conn' = [conn EXCEPT ![c] = k] /\ freeOrdinary' = freeOrdinary - 1
      BY <1>7, <2>1 DEF AcquireOrdinary
    <3>2. /\ k \in ConnStates /\ k.at = "retaining" /\ k.id = conn[c].id /\ k.stream = conn[c].stream /\ k.ordinary
          /\ k.active = conn[c].active /\ k.activeKey = conn[c].activeKey /\ k.out = conn[c].out
          /\ k.behind = conn[c].behind /\ k.begun = conn[c].begun /\ k.deadline = conn[c].deadline
          /\ k.watchdog = conn[c].watchdog
      <4>1. conn[c] \in ConnStates /\ "retaining" \in Places
        BY <1>0 DEF Places
      <4>2. k \in ConnStates
        BY <4>1 DEF ConnStates
      <4> QED
        BY <4>1, <4>2 DEF ConnStates
    <3> HIDE DEF k
    <3>3. ConnFits(k)
      BY <1>0, <2>0, <3>2
         DEF ConnFits, HeldFits, LeaseFits, OutFits, RunningFits, StreamFits, LateFits, StartFits, NumberFits, EndFits, Unretained
    <3>4. Open(k) /\ Open(conn[c]) /\ KeyIsFree(c, k)
      BY <2>0, <3>2 DEF Open, KeyIsFree
    <3>5. One(Open(k)) = One(Open(conn[c])) /\ One(k.stream) = One(conn[c].stream)
      BY <3>2, <3>4 DEF One
    <3>6. freeOrdinary' \in Nat /\ freeOrdinary' + One(k.ordinary) = freeOrdinary + One(conn[c].ordinary)
      BY <1>0, <2>1, <3>1, <3>2 DEF One
    <3> QED
      BY <1>0, <2>0, <3>1, <3>2, <3>3, <3>4, <3>5, <3>6, ConnectionAlone
  <2>2. CASE ~(freeOrdinary > 0 /\ ~conn[c].ordinary)
    <3>1. Answer(c) /\ UNCHANGED <<freeConns, limits>>
      BY <1>7, <2>0, <2>2 DEF AcquireOrdinary, limits
    <3> QED
      BY <1>0, <2>0, <3>1, Refused
  <2> QED
    BY <2>1, <2>2
<1>8. ASSUME NEW c \in Conns, Retain(c) PROVE HttpInv'
  <2>0. conn[c].at = "retaining" /\ freeConns' = freeConns /\ requests' = requests /\ Open(conn[c])
    BY <1>8 DEF Retain, At, Open
  <2>1. CASE Taken(conn[c].key) \/ Occupied(c)
    <3> DEFINE f == Released(conn[c])
               k == Answered(f)
    <3>1. conn' = [conn EXCEPT ![c] = k] /\ ReleaseBoth(c)
      BY <1>8, <2>1 DEF Retain
    <3>2. /\ f \in ConnStates /\ f.at = "retaining" /\ ~f.ordinary /\ ~f.stream /\ f.out = conn[c].out
          /\ f.active = conn[c].active /\ f.activeKey = conn[c].activeKey /\ f.behind = conn[c].behind
          /\ f.begun = conn[c].begun /\ f.deadline = conn[c].deadline /\ f.watchdog = conn[c].watchdog
      <4>1. conn[c] \in ConnStates
        BY <1>0
      <4>2. f \in ConnStates
        BY <4>1, <2>0 DEF Released, ConnStates
      <4> QED
        BY <4>1, <4>2, <2>0 DEF Released, ConnStates
    <3> HIDE DEF f
    <3>3. OutFits(f) /\ StreamFits(f)
      BY <1>0, <2>0, <3>2 DEF ConnFits, OutFits, StreamFits
    <3>4. /\ k \in ConnStates /\ ConnFits(k) /\ k.at = "idle" /\ k.ordinary = f.ordinary /\ k.stream = f.stream
          /\ k.active = f.active /\ k.activeKey = f.activeKey
      BY <3>2, <3>3, AnsweredFits DEF Places
    <3> HIDE DEF k
    <3>5. Open(k) /\ KeyIsFree(c, k) /\ ~k.ordinary /\ ~k.stream
      BY <3>2, <3>4 DEF Open, KeyIsFree
    <3> QED
      BY <2>0, <3>1, <3>4, <3>5, RequestGivesBack
  <2>2. CASE ~(Taken(conn[c].key) \/ Occupied(c))
    <3> DEFINE k == Retained(conn[c])
    <3>1. conn' = [conn EXCEPT ![c] = k] /\ UNCHANGED <<freeConns, limits>>
      BY <1>8, <2>0, <2>2 DEF Retain
    <3>2. /\ k \in ConnStates /\ k.at = "running" /\ k.ordinary = conn[c].ordinary /\ k.stream = conn[c].stream
          /\ k.active = conn[c].id /\ k.id = conn[c].id /\ k.deadline /\ k.activeKey = conn[c].key
          /\ k.out = conn[c].out /\ k.behind = conn[c].behind /\ k.begun = conn[c].begun
          /\ k.watchdog = conn[c].watchdog
      <4>1. conn[c] \in ConnStates /\ "running" \in Places
        BY <1>0 DEF Places
      <4>2. k \in ConnStates
        BY <4>1 DEF Retained, ConnStates
      <4> QED
        BY <4>1, <4>2 DEF Retained, ConnStates
    <3>3. conn[c].active = 0 /\ \A d \in Conns : ~(conn[d].active # 0 /\ conn[d].activeKey = conn[c].key /\ conn[c].key # NoKey)
      BY <2>2 DEF Taken, Occupied
    <3> HIDE DEF k
    <3>4. ActiveIsLast(k)
      BY <1>0, <2>0, <3>2 DEF ConnFits, NumberFits, ActiveIsLast, Unretained
    <3>a. HeldFits(k) /\ LeaseFits(k) /\ StartFits(k) /\ EndFits(k) /\ LateFits(k)
      BY <3>2, <3>4 DEF HeldFits, LeaseFits, StartFits, EndFits, LateFits
    <3>b. OutFits(k)
      BY <1>0, <2>0, <3>2 DEF ConnFits, OutFits
    <3>c. RunningFits(k)
      BY <1>0, <2>0, <3>2, <3>4 DEF RunningFits
    <3>d. StreamFits(k)
      BY <1>0, <3>2, <3>3 DEF ConnFits, StreamFits
    <3>e. NumberFits(k)
      BY <1>0, <2>0, <3>2 DEF ConnFits, NumberFits, Unretained
    <3>5. ConnFits(k)
      BY <3>a, <3>b, <3>c, <3>d, <3>e DEF ConnFits
    <3>6. Open(k) /\ KeyIsFree(c, k)
      BY <3>2, <3>3 DEF Open, KeyIsFree
    <3> QED
      BY <1>0, <2>0, <3>1, <3>2, <3>5, <3>6, RequestGoesOn
  <2> QED
    BY <2>1, <2>2
<1>9. ASSUME NEW c \in Conns, HandlerEnds(c) PROVE HttpInv'
  <2>1. PICK lease \in {conn[c].lease, "over"} : conn' = [conn EXCEPT ![c].at = "returned", ![c].lease = lease]
    BY <1>9 DEF HandlerEnds
  <2> DEFINE k == [conn[c] EXCEPT !.at = "returned", !.lease = lease]
  <2>2. conn' = [conn EXCEPT ![c] = k] /\ conn[c].at = "running" /\ UNCHANGED <<freeConns, limits>> /\ requests' = requests
    BY <1>9, <2>1 DEF HandlerEnds, At
  <2>3. lease \in {"none", "live", "over"} /\ (lease = "live" => conn[c].lease = "live")
    BY <1>0, <2>1, ConnParts
  <2>4. /\ k \in ConnStates /\ k.at = "returned" /\ k.ordinary = conn[c].ordinary /\ k.stream = conn[c].stream
        /\ k.active = conn[c].active /\ k.id = conn[c].id /\ k.deadline = conn[c].deadline
        /\ k.activeKey = conn[c].activeKey /\ k.lease = lease /\ k.out = conn[c].out
        /\ k.behind = conn[c].behind /\ k.begun = conn[c].begun /\ k.watchdog = conn[c].watchdog
    <3>1. conn[c] \in ConnStates /\ "returned" \in Places
      BY <1>0 DEF Places
    <3>2. k \in ConnStates
      BY <3>1, <2>3 DEF ConnStates
    <3> QED
      BY <3>1, <3>2, <2>3 DEF ConnStates
  <2> HIDE DEF k
  <2>5. ConnFits(k)
    BY <1>0, <2>2, <2>3, <2>4
       DEF ConnFits, HeldFits, LeaseFits, OutFits, RunningFits, StreamFits, LateFits, StartFits, NumberFits, EndFits, ActiveIsLast, Unretained
  <2>6. Open(k) /\ Open(conn[c]) /\ KeyIsFree(c, k)
    BY <2>2, <2>4 DEF Open, KeyIsFree
  <2> QED
    BY <1>0, <2>2, <2>4, <2>5, <2>6, RequestGoesOn
<1>10. ASSUME NEW c \in Conns, RequestTimesOut(c) \/ Respond(c) PROVE HttpInv'
  <2> DEFINE g == Finished(conn[c], conn[c].id)
             f == Released(g)
             k == Answered(f)
  <2>1. /\ conn' = [conn EXCEPT ![c] = k] /\ ReleaseBoth(c) /\ freeConns' = freeConns /\ requests' = requests
        /\ conn[c].at \in {"running", "returned"}
    BY <1>10 DEF RequestTimesOut, Respond, Finish, At
  <2>2. /\ g \in ConnStates /\ g.at = conn[c].at /\ g.out = conn[c].out /\ g.behind = conn[c].behind /\ g.begun = conn[c].begun
        /\ (g.active # 0 => g.active = conn[c].active /\ g.activeKey = conn[c].activeKey)
    <3>1. g = conn[c] \/ g = [conn[c] EXCEPT !.active = 0, !.activeKey = NoKey]
      BY DEF Finished
    <3>2. LET q == [conn[c] EXCEPT !.active = 0, !.activeKey = NoKey] IN
          /\ q \in ConnStates /\ q.at = conn[c].at /\ q.out = conn[c].out /\ q.behind = conn[c].behind
          /\ q.begun = conn[c].begun /\ q.active = 0
      <4>1. conn[c] \in ConnStates
        BY <1>0
      <4>2. [conn[c] EXCEPT !.active = 0, !.activeKey = NoKey] \in ConnStates
        BY <4>1, <1>a DEF ConnStates
      <4> QED
        BY <4>1, <4>2, <1>a DEF ConnStates
    <3> HIDE DEF g
    <3> QED
      BY <1>0, <3>1, <3>2
  <2> HIDE DEF g
  <2>3. /\ f \in ConnStates /\ f.at = g.at /\ f.out = g.out /\ f.behind = g.behind /\ f.begun = g.begun
        /\ ~f.ordinary /\ ~f.stream /\ f.active = g.active /\ f.activeKey = g.activeKey
    BY <2>2 DEF Released, ConnStates
  <2> HIDE DEF f
  <2>4. OutFits(f)
    BY <1>0, <2>1, <2>2, <2>3 DEF ConnFits, OutFits
  <2>5. StreamFits(f)
    BY <1>0, <2>1, <2>2, <2>3 DEF ConnFits, StreamFits
  <2>6. /\ k \in ConnStates /\ ConnFits(k) /\ k.at = "idle" /\ k.ordinary = f.ordinary /\ k.stream = f.stream
        /\ k.active = f.active /\ k.activeKey = f.activeKey
    BY <2>1, <2>2, <2>3, <2>4, <2>5, AnsweredFits DEF Places
  <2> HIDE DEF k
  <2>7. Open(k) /\ Open(conn[c]) /\ KeyIsFree(c, k) /\ ~k.ordinary /\ ~k.stream
    BY <2>1, <2>2, <2>3, <2>6 DEF Open, KeyIsFree
  <2> QED
    BY <2>1, <2>6, <2>7, RequestGivesBack
<1>11. ASSUME NEW c \in Conns, RespondStream(c) PROVE HttpInv'
  <2> DEFINE r == IF conn[c].behind THEN "late" ELSE "stream"
             s == Append(conn[c].out, r)
             k == [conn[c] EXCEPT !.at = "streaming", !.kind = "ordinary", !.key = NoKey, !.out = s]
  <2>1. conn' = [conn EXCEPT ![c] = k] /\ conn[c].at = "returned" /\ UNCHANGED <<freeConns, limits>> /\ requests' = requests
    BY <1>11 DEF RespondStream, At
  <2>2. /\ conn[c].out \in Seq(Responses) /\ r \in Responses /\ conn[c].behind \in BOOLEAN
        /\ r # "plain" /\ (r = "stream" <=> ~conn[c].behind)
    BY <1>0, ConnParts DEF Responses
  <2> HIDE DEF r
  <2>3. /\ s \in Queues /\ Len(s) = Len(conn[c].out) + 1 /\ Len(conn[c].out) \in Nat
        /\ s[Len(conn[c].out) + 1] = r /\ \A i \in 1..Len(conn[c].out) : s[i] = conn[c].out[i]
    BY <2>2, ResponseJoins
  <2> HIDE DEF s
  <2>b. "streaming" \in Places /\ "ordinary" \in Kinds /\ conn[c] \in ConnStates
    BY <1>0 DEF Places, Kinds
  <2>c. k \in ConnStates
    BY <2>3, <2>b DEF ConnStates
  <2>4. /\ k \in ConnStates /\ k.at = "streaming" /\ k.ordinary = conn[c].ordinary /\ k.stream = conn[c].stream
        /\ k.active = conn[c].active /\ k.id = conn[c].id /\ k.deadline = conn[c].deadline
        /\ k.activeKey = conn[c].activeKey /\ k.lease = conn[c].lease /\ k.out = s
        /\ k.behind = conn[c].behind /\ k.begun = conn[c].begun /\ k.watchdog = conn[c].watchdog
    BY <2>b, <2>c DEF ConnStates
  <2> HIDE DEF k
  <2>5. \A i \in 1..Len(conn[c].out) : s[i] # "stream"
    BY <1>0, <2>1, <2>3 DEF ConnFits, StreamFits
  <2>6. ~conn[c].behind => /\ Len(conn[c].out) = 0 /\ ActiveIsLast(conn[c]) /\ conn[c].deadline
    BY <1>0, <2>1, <2>3 DEF ConnFits, OutFits, RunningFits
  <2>7. Len(conn[c].out) = 0 => ~conn[c].begun
    BY <1>0 DEF ConnFits, OutFits
  <2>8. HeldFits(k) /\ StartFits(k) /\ NumberFits(k) /\ RunningFits(k)
    BY <2>4 DEF HeldFits, StartFits, NumberFits, EndFits, RunningFits, Unretained
  <2>9. LeaseFits(k)
    BY <1>0, <2>1, <2>4 DEF ConnFits, LeaseFits, ActiveIsLast, Unretained
  <2>10. OutFits(k)
    BY <1>0, <2>3, <2>4, <2>6, <2>7 DEF ConnFits, OutFits
  <2>11. StreamFits(k)
    <3> SUFFICES ASSUME NEW i \in 1..Len(s), s[i] = "stream"
                 PROVE  i = 1 /\ k.active # 0 /\ ~k.begun /\ k.deadline
      BY <2>4 DEF StreamFits
    <3>1. i = Len(conn[c].out) + 1 /\ ~conn[c].behind
      BY <2>2, <2>3, <2>5
    <3> QED
      BY <2>4, <2>6, <2>7, <3>1 DEF ActiveIsLast
  <2>12. LateFits(k)
    <3> SUFFICES ASSUME Len(s) = 1 PROVE ~k.begun /\ (k.ordinary => k.deadline)
      BY <2>4 DEF LateFits
    <3> DEFINE m == Len(conn[c].out)
               n == Len(s)
    <3>0. m \in Nat /\ n = m + 1 /\ n = 1
      BY <2>3
    <3> HIDE DEF m, n
    <3>a. m = 0
      BY <3>0
    <3>1. Len(conn[c].out) = 0
      BY <3>a DEF m
    <3>2. conn[c].ordinary => conn[c].deadline
      BY <1>0, <2>1, <3>1 DEF ConnFits, RunningFits
    <3> QED
      BY <2>4, <2>7, <3>1, <3>2
  <2>13. Open(k) /\ Open(conn[c]) /\ KeyIsFree(c, k)
    BY <2>1, <2>4 DEF Open, KeyIsFree
  <2>a. EndFits(k)
    BY <2>2, <2>3, <2>4 DEF EndFits
  <2>14. ConnFits(k)
    BY <2>8, <2>9, <2>10, <2>11, <2>12, <2>a DEF ConnFits
  <2> QED
    BY <1>0, <2>1, <2>4, <2>13, <2>14, RequestGoesOn
<1>12. ASSUME NEW c \in Conns, StreamEnds(c) PROVE HttpInv'
  <2> DEFINE k == [conn[c] EXCEPT !.at = "idle", !.lease = "over"]
  <2>1. conn' = [conn EXCEPT ![c] = k] /\ conn[c].at = "streaming" /\ UNCHANGED <<freeConns, limits>> /\ requests' = requests
    BY <1>12 DEF StreamEnds, At
  <2>2. /\ k \in ConnStates /\ k.at = "idle" /\ k.ordinary = conn[c].ordinary /\ k.stream = conn[c].stream
        /\ k.active = conn[c].active /\ k.deadline = conn[c].deadline
        /\ k.activeKey = conn[c].activeKey /\ k.lease = "over" /\ k.out = conn[c].out
        /\ k.behind = conn[c].behind /\ k.begun = conn[c].begun /\ k.watchdog = conn[c].watchdog
    <3>1. conn[c] \in ConnStates /\ "idle" \in Places
      BY <1>0 DEF Places
    <3>2. k \in ConnStates
      BY <3>1 DEF ConnStates
    <3> QED
      BY <3>1, <3>2 DEF ConnStates
  <2> HIDE DEF k
  <2>3. HeldFits(k)
    BY <1>0, <2>1, <2>2 DEF ConnFits, HeldFits, EndFits, StreamLeft
  <2>4. ConnFits(k)
    BY <1>0, <2>1, <2>2, <2>3
       DEF ConnFits, LeaseFits, OutFits, RunningFits, StreamFits, LateFits, StartFits, NumberFits, EndFits, Unretained
  <2>5. Open(k) /\ Open(conn[c]) /\ KeyIsFree(c, k)
    BY <2>1, <2>2 DEF Open, KeyIsFree
  <2> QED
    BY <1>0, <2>1, <2>2, <2>4, <2>5, RequestGoesOn
<1>13. ASSUME NEW c \in Conns, WriteHead(c) PROVE HttpInv'
  <2> DEFINE sse == IsSse(conn[c])
             timed == sse /\ (conn[c].stream \/ conn[c].deadline)
             dog == IF timed THEN "unarmed" ELSE "none"
             due == conn[c].deadline /\ sse
             k == [conn[c] EXCEPT !.begun = TRUE, !.owner = conn[c].active, !.watchdog = dog,
                                  !.woken = timed, !.deadline = due]
  <2>1. /\ conn' = [conn EXCEPT ![c] = k] /\ conn[c].out # <<>> /\ ~conn[c].begun
        /\ UNCHANGED <<freeConns, limits>> /\ requests' = requests
    BY <1>13 DEF WriteHead, HeadNext
  <2>2. /\ conn[c].out \in Seq(Responses) /\ Len(conn[c].out) > 0 /\ sse = (conn[c].out[1] # "plain")
        /\ conn[c].active \in 0..MaxRequests
    BY <1>0, <2>1, ConnParts, ResponseLeaves DEF IsSse
  <2>3. /\ timed \in BOOLEAN /\ due \in BOOLEAN /\ dog \in {"none", "unarmed", "armed"}
        /\ (dog = "none" <=> ~timed) /\ sse \in BOOLEAN
    BY <2>2
  <2>4. (timed <=> sse /\ (conn[c].stream \/ conn[c].deadline)) /\ (due <=> conn[c].deadline /\ sse)
    OBVIOUS
  <2> HIDE DEF sse, timed, dog, due
  <2>5. /\ k \in ConnStates /\ k.at = conn[c].at /\ k.id = conn[c].id /\ k.ordinary = conn[c].ordinary
        /\ k.stream = conn[c].stream /\ k.active = conn[c].active /\ k.activeKey = conn[c].activeKey
        /\ k.lease = conn[c].lease /\ k.out = conn[c].out /\ k.behind = conn[c].behind
        /\ k.begun /\ k.watchdog = dog /\ k.deadline = due
    <3>1. conn[c] \in ConnStates
      BY <1>0
    <3>2. k \in ConnStates
      BY <3>1, <2>2, <2>3 DEF ConnStates
    <3> QED
      BY <3>1, <3>2, <2>2, <2>3 DEF ConnStates
  <2> HIDE DEF k
  <2>6. HeldFits(k) /\ LeaseFits(k) /\ OutFits(k) /\ StartFits(k) /\ NumberFits(k)
    BY <1>0, <2>2, <2>5 DEF ConnFits, HeldFits, LeaseFits, OutFits, StartFits, NumberFits, EndFits, StreamLeft, ActiveIsLast
  <2>7. RunningFits(k)
    BY <1>0, <2>2, <2>5 DEF ConnFits, OutFits, RunningFits
  <2>8. StreamFits(k)
    <3> SUFFICES ASSUME NEW i \in 1..Len(conn[c].out), conn[c].out[i] = "stream"
                 PROVE  i = 1 /\ conn[c].active # 0 /\ conn[c].at \notin {"running", "returned"} /\ dog # "none"
      BY <2>5 DEF StreamFits
    <3>1. i = 1 /\ conn[c].active # 0 /\ conn[c].at \notin {"running", "returned"} /\ conn[c].deadline
      BY <1>0, <2>1 DEF ConnFits, StreamFits
    <3> QED
      BY <2>2, <2>3, <2>4, <3>1
  <2>9. LateFits(k)
    <3> SUFFICES ASSUME conn[c].at \in {"idle", "streaming"}, Len(conn[c].out) = 1, conn[c].out[1] = "late", dog = "none"
                 PROVE  ~conn[c].ordinary /\ ~conn[c].stream
      BY <2>5 DEF LateFits
    <3>1. conn[c].ordinary => conn[c].deadline
      BY <1>0, <2>1 DEF ConnFits, LateFits
    <3> QED
      BY <2>2, <2>3, <2>4, <3>1
  <2>10. Open(conn[c])
    BY <1>0, <2>2 DEF ConnFits, StartFits, Open
  <2>11. Open(k) /\ KeyIsFree(c, k)
    BY <2>5, <2>10 DEF Open, KeyIsFree
  <2>a. EndFits(k)
    BY <1>0, <2>5 DEF ConnFits, EndFits
  <2>12. ConnFits(k)
    BY <2>6, <2>7, <2>8, <2>9, <2>a DEF ConnFits
  <2> QED
    BY <1>0, <2>1, <2>5, <2>10, <2>11, <2>12, RequestGoesOn
<1>14. ASSUME NEW c \in Conns, PollRead(c) \/ PollWrite(c) \/ StreamEvent(c) PROVE HttpInv'
  <2>1. PICK dog \in {"armed", conn[c].watchdog}, woken \in {FALSE, conn[c].woken} :
            conn' = [conn EXCEPT ![c] = [conn[c] EXCEPT !.watchdog = dog, !.woken = woken]]
    <3>1. conn[c] = [conn[c] EXCEPT !.woken = conn[c].woken]
      BY <1>0 DEF ConnStates
    <3>2. CASE PollRead(c)
      BY <3>2 DEF PollRead
    <3>3. CASE PollWrite(c)
      <4>1. [conn[c] EXCEPT !.watchdog = "armed"] = [conn[c] EXCEPT !.watchdog = "armed", !.woken = conn[c].woken]
        BY <1>0 DEF ConnStates
      <4> QED
        BY <3>3, <4>1 DEF PollWrite
    <3>4. CASE StreamEvent(c)
      <4> DEFINE dog == IF conn[c].watchdog = "none" THEN conn[c].watchdog ELSE "armed"
      <4>1. conn' = [conn EXCEPT ![c] = [conn[c] EXCEPT !.watchdog = dog]]
        BY <3>4 DEF StreamEvent
      <4>2. [conn[c] EXCEPT !.watchdog = dog] = [conn[c] EXCEPT !.watchdog = dog, !.woken = conn[c].woken]
        BY <1>0 DEF ConnStates
      <4> QED
        BY <4>1, <4>2
    <3> QED
      BY <1>14, <3>2, <3>3, <3>4
  <2> DEFINE k == [conn[c] EXCEPT !.watchdog = dog, !.woken = woken]
  <2>2. UNCHANGED <<freeConns, limits>> /\ requests' = requests
    BY <1>14 DEF PollRead, PollWrite, StreamEvent
  <2>3. dog \in {"none", "unarmed", "armed"} /\ woken \in BOOLEAN /\ (conn[c].watchdog # "none" => dog # "none")
    BY <1>0, <2>1, ConnParts
  <2>4. /\ k \in ConnStates /\ k.at = conn[c].at /\ k.id = conn[c].id /\ k.ordinary = conn[c].ordinary
        /\ k.stream = conn[c].stream /\ k.active = conn[c].active /\ k.activeKey = conn[c].activeKey
        /\ k.lease = conn[c].lease /\ k.out = conn[c].out /\ k.behind = conn[c].behind
        /\ k.begun = conn[c].begun /\ k.watchdog = dog /\ k.deadline = conn[c].deadline
        /\ conn' = [conn EXCEPT ![c] = k]
    <3>1. conn[c] \in ConnStates
      BY <1>0
    <3>2. k \in ConnStates
      BY <3>1, <2>1, <2>3 DEF ConnStates
    <3> QED
      BY <3>1, <3>2, <2>1, <2>3 DEF ConnStates
  <2> HIDE DEF k
  <2>5. ConnFits(k)
    BY <1>0, <2>3, <2>4
       DEF ConnFits, HeldFits, LeaseFits, OutFits, RunningFits, StreamFits, LateFits, StartFits, NumberFits, EndFits, StreamLeft, ActiveIsLast
  <2>6. One(Open(k)) = One(Open(conn[c])) /\ One(k.ordinary) = One(conn[c].ordinary) /\ One(k.stream) = One(conn[c].stream)
    BY <2>4 DEF One, Open
  <2>7. KeyIsFree(c, k)
    BY <2>4 DEF KeyIsFree
  <2>8. freeConns' = freeConns /\ freeOrdinary' = freeOrdinary /\ freeStreams' = freeStreams
    BY <2>2 DEF limits
  <2> QED
    BY <1>0, <2>2, <2>4, <2>5, <2>6, <2>7, <2>8, ConnectionAlone
<1>15. ASSUME NEW c \in Conns, WriteBodyless(c) PROVE HttpInv'
  <2> DEFINE g == Finished(conn[c], conn[c].active)
             rest == Tail(conn[c].out)
             k == [Released(g) EXCEPT !.out = rest, !.deadline = FALSE]
  <2>1. /\ conn' = [conn EXCEPT ![c] = [Released(g) EXCEPT !.out = Tail(@), !.deadline = FALSE]]
        /\ conn[c].out # <<>> /\ ~conn[c].begun /\ ~IsSse(conn[c])
        /\ ReleaseBoth(c) /\ freeConns' = freeConns /\ requests' = requests
    BY <1>15 DEF WriteBodyless, HeadNext
  <2>2. /\ conn[c].out \in Seq(Responses) /\ Len(conn[c].out) > 0 /\ conn[c].out[1] = "plain"
        /\ rest \in Queues
    BY <1>0, <2>1, ConnParts, ResponseLeaves DEF IsSse
  <2> HIDE DEF rest
  <2>3. g = [conn[c] EXCEPT !.active = 0, !.activeKey = NoKey]
    BY DEF Finished
  <2> HIDE DEF g
  <2>a. g \in ConnStates /\ g.out = conn[c].out
    <3>1. conn[c] \in ConnStates
      BY <1>0
    <3>2. g \in ConnStates
      BY <3>1, <1>a, <2>3 DEF ConnStates
    <3> QED
      BY <3>1, <3>2, <1>a, <2>3 DEF ConnStates
  <2>b. Released(g) \in ConnStates /\ Released(g).out = conn[c].out
    BY <2>a DEF ConnStates, Released
  <2>c. conn' = [conn EXCEPT ![c] = k]
    <3> DEFINE f == Released(g)
    <3> HIDE DEF f
    <3> QED
      BY <2>1, <2>b DEF f, rest
  <2>4. /\ k \in ConnStates /\ k.at = conn[c].at /\ k.id = conn[c].id /\ ~k.ordinary /\ ~k.stream /\ k.active = 0
        /\ k.lease = conn[c].lease /\ k.out = rest /\ k.behind = conn[c].behind
        /\ ~k.begun /\ k.watchdog = conn[c].watchdog
    <3>1. conn[c] \in ConnStates
      BY <1>0
    <3>2. k \in ConnStates
      BY <3>1, <1>a, <2>1, <2>2, <2>3 DEF ConnStates, Released
    <3> QED
      BY <3>1, <3>2, <1>a, <2>1, <2>2, <2>3 DEF ConnStates, Released
  <2> HIDE DEF k
  <2>6. ~conn[c].behind => conn[c].at \in {"idle", "streaming"}
    BY <1>0, <2>2 DEF ConnFits, OutFits
  <2>7. ~StillOpen(conn[c])
    BY <1>0, <2>2 DEF ConnFits, EndFits, StillOpen
  <2>8. ConnFits(k)
    BY <1>0, <2>2, <2>4, <2>6, <2>7, ResponseGoes DEF rest
  <2>9. Open(conn[c])
    BY <1>0, <2>2 DEF ConnFits, StartFits, Open
  <2>10. Open(k) /\ KeyIsFree(c, k)
    BY <2>4, <2>9 DEF Open, KeyIsFree
  <2> QED
    BY <2>1, <2>4, <2>8, <2>9, <2>10, <2>c, RequestGivesBack
<1>16. ASSUME NEW c \in Conns, WriteEnd(c) PROVE HttpInv'
  <2> DEFINE sse == IsSse(conn[c])
             g == Finished(conn[c], conn[c].owner)
             rest == Tail(conn[c].out)
             kept == conn[c].stream /\ ~sse
             k == [g EXCEPT !.out = rest, !.begun = FALSE, !.owner = 0, !.watchdog = "none", !.woken = FALSE,
                            !.deadline = FALSE, !.ordinary = FALSE, !.stream = kept]
  <2>1. /\ conn[c].begun /\ ~StillOpen(conn[c])
        /\ freeOrdinary' = freeOrdinary + One(conn[c].ordinary)
        /\ freeStreams' = freeStreams + One(conn[c].stream /\ sse)
        /\ freeConns' = freeConns /\ requests' = requests
    BY <1>16 DEF WriteEnd
  <2>2. g = conn[c] \/ g = [conn[c] EXCEPT !.active = 0, !.activeKey = NoKey]
    BY DEF Finished
  <2>3. /\ g \in ConnStates /\ g.at = conn[c].at /\ g.id = conn[c].id /\ g.behind = conn[c].behind
        /\ g.lease = conn[c].lease /\ g.stream = conn[c].stream
        /\ (g.active # 0 => g.active = conn[c].active /\ g.activeKey = conn[c].activeKey)
    <3>1. LET q == [conn[c] EXCEPT !.active = 0, !.activeKey = NoKey] IN
          /\ q \in ConnStates /\ q.at = conn[c].at /\ q.id = conn[c].id /\ q.behind = conn[c].behind
          /\ q.lease = conn[c].lease /\ q.stream = conn[c].stream /\ q.active = 0
      <4>1. conn[c] \in ConnStates
        BY <1>0
      <4>2. [conn[c] EXCEPT !.active = 0, !.activeKey = NoKey] \in ConnStates
        BY <4>1, <1>a DEF ConnStates
      <4> QED
        BY <4>1, <4>2, <1>a DEF ConnStates
    <3> HIDE DEF g
    <3> QED
      BY <1>0, <2>2, <3>1
  <2>4. conn' = [conn EXCEPT ![c] = k]
    <3>1. conn' = [conn EXCEPT ![c] =
              [g EXCEPT !.out = Tail(@), !.begun = FALSE, !.owner = 0, !.watchdog = "none", !.woken = FALSE,
                        !.deadline = FALSE, !.ordinary = FALSE, !.stream = @ /\ ~sse]]
      BY <1>16 DEF WriteEnd
    <3>2. g.out = conn[c].out
      BY <1>0, <2>2 DEF ConnStates
    <3> HIDE DEF g, sse
    <3> QED
      BY <2>3, <3>1, <3>2
  <2> HIDE DEF g
  <2>5. Len(conn[c].out) > 0
    BY <1>0, <2>1 DEF ConnFits, OutFits
  <2>6. /\ conn[c].out \in Seq(Responses) /\ conn[c].out # <<>> /\ rest \in Queues
        /\ sse = (conn[c].out[1] # "plain") /\ conn[c].stream \in BOOLEAN
    BY <1>0, <2>5, ConnParts, ResponseLeaves DEF IsSse
  <2>7. /\ kept \in BOOLEAN /\ (kept => conn[c].stream /\ conn[c].out[1] = "plain")
        /\ One(conn[c].stream /\ sse) + One(kept) = One(conn[c].stream)
    BY <2>6 DEF One
  <2> HIDE DEF sse, kept, rest
  <2>8. /\ k \in ConnStates /\ k.at = conn[c].at /\ k.id = conn[c].id /\ ~k.ordinary /\ k.stream = kept
        /\ k.active = g.active /\ k.activeKey = g.activeKey
        /\ k.lease = conn[c].lease /\ k.out = rest /\ k.behind = conn[c].behind /\ ~k.begun
    <3>1. g \in ConnStates /\ rest \in Queues /\ kept \in BOOLEAN
      BY <2>3, <2>6, <2>7
    <3>2. k \in ConnStates
      BY <3>1, <1>a DEF ConnStates
    <3>3. /\ k.at = g.at /\ k.id = g.id /\ ~k.ordinary /\ k.stream = kept /\ k.active = g.active
          /\ k.activeKey = g.activeKey /\ k.lease = g.lease /\ k.out = rest /\ k.behind = g.behind /\ ~k.begun
      BY <3>1, <3>2 DEF ConnStates
    <3> QED
      BY <2>3, <3>2, <3>3
  <2> HIDE DEF k
  <2>9. ~conn[c].behind => conn[c].at \in {"idle", "streaming"}
    BY <1>0, <2>5 DEF ConnFits, OutFits
  <2>10. ConnFits(k)
    BY <1>0, <2>1, <2>5, <2>7, <2>8, <2>9, ResponseGoes DEF rest
  <2>11. One(Open(k)) = One(Open(conn[c])) /\ KeyIsFree(c, k)
    BY <2>3, <2>8 DEF Open, KeyIsFree, One
  <2>12. freeOrdinary' \in Nat /\ freeOrdinary' + One(k.ordinary) = freeOrdinary + One(conn[c].ordinary)
    BY <1>0, <2>1, <2>8 DEF One
  <2>13. freeStreams' \in Nat /\ freeStreams' + One(k.stream) = freeStreams + One(conn[c].stream)
    <3>1. One(conn[c].stream /\ sse) \in Nat /\ One(kept) \in Nat /\ One(conn[c].stream) \in Nat
      BY DEF One
    <3> QED
      BY <1>0, <2>1, <2>7, <2>8, <3>1
  <2> QED
    BY <1>0, <2>1, <2>4, <2>8, <2>10, <2>11, <2>12, <2>13, ConnectionAlone
<1> QED
  BY <1>1, <1>2, <1>3, <1>4, <1>5, <1>6, <1>7, <1>8, <1>9, <1>10, <1>11, <1>12, <1>13, <1>14, <1>15, <1>16
     DEF Next, ServerStep

-----------------------------------------------------------------------------
(* McpHttp: the theorems.                                                  *)

\* The inductive invariant holds in every state of the HTTP front.
THEOREM HttpInvariance == Spec => []HttpInv
<1>1. Init => HttpInv
  <2> SUFFICES ASSUME Init PROVE HttpInv
    OBVIOUS
  <2>1. Quiet("new") \in ConnStates /\ Quiet("new").at = "new" /\ ConnFits(Quiet("new"))
        /\ ~Quiet("new").ordinary /\ ~Quiet("new").stream /\ Quiet("new").active = 0
    BY Resting
  <2>2. conn \in [Conns -> ConnStates] /\ \A c \in Conns : conn[c] = Quiet("new")
    BY <2>1 DEF Init
  <2>3. Slots = {} /\ Ordinaries = {} /\ Streams = {}
    BY <2>1, <2>2 DEF Slots, Ordinaries, Streams, Open
  <2>4. PermitsCounted
    BY <2>3, FS_EmptySet, HttpAssumption DEF PermitsCounted, Init
  <2>5. requests \in 0..MaxRequests
    BY HttpAssumption DEF Init
  <2> QED
    BY <2>1, <2>2, <2>4, <2>5 DEF HttpInv, OneRequestPerKey
<1>2. HttpInv /\ [Next]_vars => HttpInv'
  <2>1. CASE UNCHANGED vars
    <3>1. conn' = conn /\ freeConns' = freeConns /\ freeOrdinary' = freeOrdinary /\ freeStreams' = freeStreams
          /\ requests' = requests
      BY <2>1 DEF vars
    <3>2. HttpInv => PermitsCounted'
      BY <3>1 DEF HttpInv, PermitsCounted, Slots, Ordinaries, Streams, Open
    <3>3. HttpInv => (\A c \in Conns : ConnFits(conn[c]))'
      BY <3>1 DEF HttpInv, ConnFits, HeldFits, LeaseFits, OutFits, RunningFits, StreamFits, LateFits, StartFits,
                  NumberFits, EndFits, StreamLeft, ActiveIsLast
    <3> QED
      BY <3>1, <3>2, <3>3 DEF HttpInv, OneRequestPerKey
  <2> QED
    BY <2>1, HttpStep
<1> QED
  BY <1>1, <1>2, PTL DEF Spec

\* Permits, keys, leases and watchdogs follow the requests they were taken for,
\* on every path a request can end by and however far ahead a client sends, and
\* every permit is free or held by one connection.
THEOREM AccountsBalance == Spec => []RequestsAccounted
<1>1. HttpInv => RequestsAccounted
  <2> SUFFICES ASSUME HttpInv PROVE RequestsAccounted
    OBVIOUS
  <2>0. \A c \in Conns : conn[c] \in ConnStates /\ ConnFits(conn[c])
    BY DEF HttpInv
  <2>1. /\ freeConns \in 0..MaxConnections /\ freeOrdinary \in 0..MaxOrdinary /\ freeStreams \in 0..MaxStreams
    <3>1. Cardinality(Slots) \in Nat /\ Cardinality(Ordinaries) \in Nat /\ Cardinality(Streams) \in Nat
      BY FS_CardinalityType DEF HttpInv, PermitsCounted
    <3> QED
      BY <3>1, HttpAssumption DEF HttpInv, PermitsCounted
  <2>2. TypeOK
    <3> SUFFICES ASSUME NEW c \in Conns
                 PROVE  conn[c].begun => conn[c].out # <<>>
      BY <2>0, <2>1, ConnParts DEF HttpInv, TypeOK, Places, Responses
    <3>1. conn[c].begun => Len(conn[c].out) > 0
      BY <2>0 DEF ConnFits, OutFits
    <3> QED
      BY <3>1
  <2>3. PermitsBalance
    BY DEF HttpInv, PermitsCounted, PermitsBalance, Slots, Ordinaries, Streams, Open
  <2>4. PermitHasRequest
    <3> SUFFICES ASSUME NEW c \in Conns, StreamLeft(conn[c])
                 PROVE  \E i \in DOMAIN conn[c].out : conn[c].out[i] # "plain"
      BY <2>0 DEF ConnFits, HeldFits, PermitHasRequest, Holding
    <3>1. DOMAIN conn[c].out = 1..Len(conn[c].out)
      BY <2>0, ConnParts
    <3> QED
      BY <3>1 DEF StreamLeft
  <2>5. LiveIsCancellable
    BY <2>0 DEF ConnFits, LeaseFits, LiveIsCancellable
  <2>6. StreamIsTimed
    <3> SUFFICES ASSUME NEW c \in Conns, Streaming(c), conn[c].watchdog = "none"
                 PROVE  Head(conn[c].out) = "late" /\ (Overtaken(c) \/ ~Holding(c))
      BY DEF StreamIsTimed
    <3> DEFINE s == conn[c].out
    <3>1. s \in Seq(Responses) /\ conn[c].begun /\ Head(s) # "plain" /\ ConnFits(conn[c])
      BY <2>0, ConnParts DEF Streaming, IsSse
    <3>2. Len(s) > 0 /\ s # <<>>
      BY <3>1 DEF ConnFits, OutFits
    <3>3. Head(s) = s[1] /\ s[1] \in Responses /\ Len(s) \in Nat
      BY <3>1, <3>2
    <3>4. s[1] # "stream"
      BY <3>1, <3>2, <3>3 DEF ConnFits, StreamFits
    <3>5. s[1] = "late"
      BY <3>1, <3>3, <3>4 DEF Responses
    <3>6. ASSUME ~Overtaken(c) PROVE ~Holding(c)
      <4>1. ~(Len(s) > 1) /\ conn[c].at \in {"idle", "streaming"}
        BY <3>6 DEF Overtaken
      <4>2. Len(s) = 1
        BY <3>2, <3>3, <4>1, OneOrMore
      <4> QED
        BY <3>1, <3>5, <4>1, <4>2 DEF ConnFits, LateFits, Holding
    <3> QED
      BY <3>3, <3>5, <3>6
  <2>7. StreamsComeFirst
    <3> SUFFICES ASSUME NEW c \in Conns, conn[c].at \in {"running", "returned"}, NEW i \in DOMAIN conn[c].out
                 PROVE  conn[c].out[i] # "stream"
      BY DEF StreamsComeFirst
    <3>1. i \in 1..Len(conn[c].out)
      BY <2>0, ConnParts
    <3> QED
      BY <2>0, <3>1 DEF ConnFits, StreamFits
  <2>8. OneRequestPerKey
    BY DEF HttpInv
  <2> QED
    BY <2>2, <2>3, <2>4, <2>5, <2>6, <2>7, <2>8 DEF RequestsAccounted
<1> QED
  BY <1>1, HttpInvariance, PTL

-----------------------------------------------------------------------------
(* McpRuntime: the inductive invariant.                                    *)

\* What may follow what in a command: of its steps, two that are neighbours.
Chain ==
    {<<"initialize", "refresh">>, <<"initialize", "compare">>, <<"initialize", "load">>,
     <<"initialize", "stop">>, <<"stop", "join">>, <<"join", "regenerate">>,
     <<"join", "disabled">>, <<"join", "apply">>, <<"load", "bind">>, <<"create", "bind">>,
     <<"bind", "refresh">>, <<"bind", "compare">>, <<"bind", "load">>, <<"bind", "stop">>,
     <<"save", "stop">>}

Chained(s) == \A i \in 1..Len(s) - 1 : <<s[i], s[i + 1]>> \in Chain

\* The steps of a command that neither saves nor applies settings, and what is
\* left of one that does.
OtherSteps ==
    {"initialize", "refresh", "compare", "stop", "join", "disabled", "load", "bind", "create", "regenerate"}
SavePlan == <<"save", "stop", "join", "apply">>
ApplyPlans == {<<"stop", "join", "apply">>, <<"join", "apply">>, <<"apply">>}

TodoFits == mrTodo \in Seq(OtherSteps) \cup {SavePlan} \cup ApplyPlans /\ Chained(mrTodo)

\* Files and what they hold.
Files == {"settings", "token"}
SettingsValues == MrSettings \cup {Missing, Corrupt}
TokenValues == (Nat \ {0}) \cup {Missing, Corrupt}
Values == SettingsValues \cup TokenValues

RuntimeTypes ==
    /\ mrSettings \in MrSettings /\ mrArg \in MrSettings
    /\ mrServer \in [token : Nat, running : BOOLEAN]
    /\ mrClosing \in BOOLEAN /\ mrAdmitted \in BOOLEAN
    /\ mrTokens \in Nat \ {0} /\ mrTemp \in {"none", "written", "synced", "renamed"}
    /\ mrFile \in [Files -> [seen : Values, safe : Values]]
    /\ mrPromised \in [Files -> SUBSET Values]
    /\ mrPromised["settings"] \subseteq SettingsValues /\ mrPromised["token"] \subseteq TokenValues

\* A write under way is that of the step at the head, whose value may already be
\* found; after the rename it is what a read sees.
WriteFits ==
    mrTemp # "none" =>
        /\ Writing /\ Value \in mrPromised[Target]
        /\ mrTemp = "renamed" => mrFile[Target].seen = Value

\* A server accepts the token of the file; so will the one about to be bound; and
\* while a token is written or a server joined there is none.
ServerReadsFile == mrServer.token # 0 => mrServer.token = mrFile["token"].seen
TokenInHand == Step("bind") => mrToken \in Nat \ {0} /\ mrToken = mrFile["token"].seen
ServerIsDown == Step("join") \/ Step("regenerate") \/ Step("create") => mrServer.token = 0

\* After Shutdown no command has a step that starts a server.
ClosingFits == mrClosing => mrTodo \in Seq({"initialize", "stop", "join", "disabled"})

\* The settings in force are the ones of the file; between the save and the step
\* that applies them the argument is.
SettingsFollow ==
    Corrupt \notin mrPromised["settings"] =>
        (IF mrTodo \in ApplyPlans THEN mrArg ELSE mrSettings) \in {Loaded(s) : s \in mrPromised["settings"]}

RuntimeInv ==
    /\ TodoFits /\ RuntimeTypes /\ AnswersLast /\ WriteFits
    /\ ServerReadsFile /\ TokenInHand /\ ServerIsDown
    /\ ClosingFits /\ ClosedStaysClosed /\ NoRequestWithoutServer /\ SettingsFollow

-----------------------------------------------------------------------------
(* McpRuntime: the steps a command has left.                               *)

\* A command that neither saves nor applies is no plan that does.
LEMMA PlansApart ==
    ASSUME NEW s \in Seq(OtherSteps)
    PROVE  s \notin ApplyPlans /\ s # SavePlan
<1>1. \A i \in 1..Len(s) : s[i] # "apply"
  BY DEF OtherSteps
<1>2. ASSUME s = <<"stop", "join", "apply">> PROVE FALSE
  <2>1. Len(s) = 3 /\ s[3] = "apply"
    BY <1>2
  <2> QED
    BY <1>1, <2>1
<1>3. ASSUME s = <<"join", "apply">> PROVE FALSE
  <2>1. Len(s) = 2 /\ s[2] = "apply"
    BY <1>3
  <2> QED
    BY <1>1, <2>1
<1>4. ASSUME s = <<"apply">> PROVE FALSE
  <2>1. Len(s) = 1 /\ s[1] = "apply"
    BY <1>4
  <2> QED
    BY <1>1, <2>1
<1>5. ASSUME s = SavePlan PROVE FALSE
  <2>1. Len(s) = 4 /\ s[4] = "apply"
    BY <1>5 DEF SavePlan
  <2> QED
    BY <1>1, <2>1
<1> QED
  BY <1>2, <1>3, <1>4, <1>5 DEF ApplyPlans

\* What is left after the first step of a chain is one, and its first step may
\* follow the one that was taken.
LEMMA ChainRest ==
    ASSUME NEW S, NEW s \in Seq(S), s # <<>>, Chained(s)
    PROVE  /\ Tail(s) \in Seq(S) /\ Chained(Tail(s)) /\ Head(s) \in S
           /\ Tail(s) # <<>> => <<Head(s), Head(Tail(s))>> \in Chain
<1>1. /\ Tail(s) \in Seq(S) /\ Len(s) \in Nat /\ Len(s) > 0 /\ Len(Tail(s)) = Len(s) - 1
      /\ \A i \in 1..Len(s) - 1 : Tail(s)[i] = s[i + 1]
  OBVIOUS
<1>2. Chained(Tail(s))
  <2> SUFFICES ASSUME NEW i \in 1..Len(Tail(s)) - 1 PROVE <<Tail(s)[i], Tail(s)[i + 1]>> \in Chain
    BY DEF Chained
  <2>1. i + 1 \in 1..Len(s) - 1 /\ Tail(s)[i] = s[i + 1] /\ Tail(s)[i + 1] = s[i + 1 + 1]
    BY <1>1
  <2> QED
    BY <2>1 DEF Chained
<1>3. ASSUME Tail(s) # <<>> PROVE <<Head(s), Head(Tail(s))>> \in Chain
  <2>1. Len(s) > 1
    BY <1>1, <1>3
  <2>2. Head(s) = s[1] /\ Head(Tail(s)) = s[2] /\ 1 \in 1..Len(s) - 1
    BY <1>1, <2>1
  <2>3. <<s[1], s[1 + 1]>> \in Chain
    BY <2>2 DEF Chained
  <2> QED
    BY <2>2, <2>3
<1> QED
  BY <1>1, <1>2, <1>3

\* A step that may come first joins a chain.
LEMMA ChainOn ==
    ASSUME NEW S, NEW s \in Seq(S), Chained(s), NEW a \in S, s # <<>> => <<a, Head(s)>> \in Chain
    PROVE  /\ <<a>> \o s \in Seq(S) /\ Chained(<<a>> \o s) /\ <<a>> \o s # <<>> /\ Head(<<a>> \o s) = a
<1> DEFINE t == <<a>> \o s
<1>1. t \in Seq(S) /\ Len(t) = Len(s) + 1 /\ t[1] = a /\ Len(s) \in Nat
      /\ \A i \in 1..Len(s) : t[i + 1] = s[i]
  OBVIOUS
<1> HIDE DEF t
<1>2. Chained(t)
  <2> SUFFICES ASSUME NEW i \in 1..Len(t) - 1 PROVE <<t[i], t[i + 1]>> \in Chain
    BY DEF Chained
  <2>1. t[i + 1] = s[i] /\ i \in 1..Len(s)
    BY <1>1
  <2>2. CASE i = 1
    <3>1. s # <<>> /\ Head(s) = s[1]
      BY <2>1, <2>2
    <3> QED
      BY <1>1, <2>1, <2>2, <3>1
  <2>3. CASE i # 1
    <3>1. i - 1 \in 1..Len(s) - 1 /\ t[i] = s[i - 1] /\ (i - 1) + 1 = i
      BY <1>1, <2>1, <2>3
    <3> QED
      BY <2>1, <3>1 DEF Chained
  <2> QED
    BY <2>2, <2>3
<1>3. t # <<>> /\ Head(t) = a
  BY <1>1
<1> QED
  BY <1>1, <1>2, <1>3 DEF t

\* The plans of the commands, and what they become.
FreshPlans ==
    {<<>>, <<"initialize">>, <<"initialize", "refresh">>, <<"initialize", "compare">>,
     <<"initialize", "load">>, <<"initialize", "stop", "join", "regenerate">>,
     <<"stop", "join", "disabled">>, <<"refresh">>, <<"bind">>, <<"disabled">>, <<"load", "bind">>}

\* They are chains, and those of a closing runtime start nothing.
LEMMA Plans ==
    /\ \A s \in FreshPlans : s \in Seq(OtherSteps) /\ Chained(s)
    /\ \A s \in ApplyPlans \cup {SavePlan} : Chained(s)
    /\ \A s \in {<<>>, <<"initialize">>, <<"stop", "join", "disabled">>} :
          s \in Seq({"initialize", "stop", "join", "disabled"})
<1>1. <<>> \in Seq(OtherSteps) /\ Chained(<<>>)
  BY DEF OtherSteps, Chained, Chain
<1>2. <<"initialize">> \in Seq(OtherSteps) /\ Chained(<<"initialize">>)
  BY DEF OtherSteps, Chained, Chain
<1>3. <<"initialize", "refresh">> \in Seq(OtherSteps) /\ Chained(<<"initialize", "refresh">>)
  BY DEF OtherSteps, Chained, Chain
<1>4. <<"initialize", "compare">> \in Seq(OtherSteps) /\ Chained(<<"initialize", "compare">>)
  BY DEF OtherSteps, Chained, Chain
<1>5. <<"initialize", "load">> \in Seq(OtherSteps) /\ Chained(<<"initialize", "load">>)
  BY DEF OtherSteps, Chained, Chain
<1>6. <<"initialize", "stop", "join", "regenerate">> \in Seq(OtherSteps) /\ Chained(<<"initialize", "stop", "join", "regenerate">>)
  BY DEF OtherSteps, Chained, Chain
<1>7. <<"stop", "join", "disabled">> \in Seq(OtherSteps) /\ Chained(<<"stop", "join", "disabled">>)
  BY DEF OtherSteps, Chained, Chain
<1>8. <<"refresh">> \in Seq(OtherSteps) /\ Chained(<<"refresh">>)
  BY DEF OtherSteps, Chained, Chain
<1>9. <<"bind">> \in Seq(OtherSteps) /\ Chained(<<"bind">>)
  BY DEF OtherSteps, Chained, Chain
<1>10. <<"disabled">> \in Seq(OtherSteps) /\ Chained(<<"disabled">>)
  BY DEF OtherSteps, Chained, Chain
<1>11. <<"load", "bind">> \in Seq(OtherSteps) /\ Chained(<<"load", "bind">>)
  BY DEF OtherSteps, Chained, Chain
<1>12. Chained(<<"stop", "join", "apply">>) /\ Chained(<<"join", "apply">>) /\ Chained(<<"apply">>)
  BY DEF Chained, Chain
<1>13. Chained(SavePlan)
  BY DEF Chained, Chain, SavePlan
<1>14. /\ <<>> \in Seq({"initialize", "stop", "join", "disabled"})
       /\ <<"initialize">> \in Seq({"initialize", "stop", "join", "disabled"})
       /\ <<"stop", "join", "disabled">> \in Seq({"initialize", "stop", "join", "disabled"})
  OBVIOUS
<1> QED
  BY <1>1, <1>2, <1>3, <1>4, <1>5, <1>6, <1>7, <1>8, <1>9, <1>10, <1>11, <1>12, <1>13, <1>14, Zenon DEF FreshPlans, ApplyPlans

\* What is left after the step at the head.
LEMMA Onward ==
    ASSUME RuntimeInv, mrTodo # <<>>
    PROVE  /\ Rest \in Seq(OtherSteps) \cup ApplyPlans /\ Chained(Rest)
           /\ Rest # <<>> => <<Head(mrTodo), Head(Rest)>> \in Chain
           /\ Head(mrTodo) \in OtherSteps \cup {"save", "apply"}
           /\ Head(mrTodo) \in OtherSteps \ {"stop", "join"} =>
                  mrTodo \in Seq(OtherSteps) /\ Rest \in Seq(OtherSteps)
           /\ Head(mrTodo) \in {"stop", "join"} => (Rest \in ApplyPlans <=> mrTodo \in ApplyPlans)
           /\ Head(mrTodo) = "apply" => mrTodo = <<"apply">> /\ mrTodo \in ApplyPlans /\ Rest = <<>>
           /\ Head(mrTodo) = "save" => mrTodo = SavePlan /\ Rest \in ApplyPlans
           /\ mrTodo \in ApplyPlans => Head(mrTodo) \in {"stop", "join", "apply"}
           /\ mrClosing => Rest \in Seq({"initialize", "stop", "join", "disabled"})
                           /\ Head(mrTodo) \in {"initialize", "stop", "join", "disabled"}
<1>0. TodoFits /\ ClosingFits
  BY DEF RuntimeInv
<1>1. mrClosing => Rest \in Seq({"initialize", "stop", "join", "disabled"})
                   /\ Head(mrTodo) \in {"initialize", "stop", "join", "disabled"}
  <2>1. \A S : mrTodo \in Seq(S) => Tail(mrTodo) \in Seq(S) /\ Head(mrTodo) \in S
    <3> TAKE S
    <3> QED
      OBVIOUS
  <2> QED
    BY <1>0, <2>1 DEF ClosingFits, Rest
<1>2. CASE mrTodo \in Seq(OtherSteps)
  <2>1. /\ Rest \in Seq(OtherSteps) /\ Chained(Rest) /\ Head(mrTodo) \in OtherSteps
        /\ Rest # <<>> => <<Head(mrTodo), Head(Rest)>> \in Chain
    BY <1>0, <1>2, ChainRest DEF TodoFits, Rest
  <2>2. mrTodo \notin ApplyPlans /\ Rest \notin ApplyPlans
    BY <1>2, <2>1, PlansApart
  <2>3. Head(mrTodo) # "apply" /\ Head(mrTodo) # "save"
    BY <2>1 DEF OtherSteps
  <2> QED
    BY <1>1, <1>2, <2>1, <2>2, <2>3
<1>3. CASE mrTodo = SavePlan
  <2>1. Head(mrTodo) = "save" /\ Rest = <<"stop", "join", "apply">> /\ Head(Rest) = "stop"
    BY <1>3 DEF SavePlan, Rest
  <2>2. Rest \in ApplyPlans /\ Chained(Rest) /\ <<"save", "stop">> \in Chain /\ "save" \notin OtherSteps
    BY <2>1, Plans DEF ApplyPlans, Chain, OtherSteps
  <2>3. mrTodo \notin ApplyPlans
    <3>1. Head(<<"stop", "join", "apply">>) # "save" /\ Head(<<"join", "apply">>) # "save" /\ Head(<<"apply">>) # "save"
      OBVIOUS
    <3> QED
      BY <2>1, <3>1 DEF ApplyPlans
  <2> QED
    BY <1>1, <1>3, <2>1, <2>2, <2>3
<1>4. CASE mrTodo = <<"stop", "join", "apply">>
  <2>1. Head(mrTodo) = "stop" /\ Rest = <<"join", "apply">> /\ Head(Rest) = "join"
    BY <1>4 DEF Rest
  <2>2. mrTodo \in ApplyPlans /\ Rest \in ApplyPlans /\ Chained(Rest) /\ <<"stop", "join">> \in Chain /\ "stop" \in OtherSteps
    BY <1>4, <2>1, Plans DEF ApplyPlans, Chain, OtherSteps
  <2> QED
    BY <1>1, <2>1, <2>2
<1>5. CASE mrTodo = <<"join", "apply">>
  <2>1. Head(mrTodo) = "join" /\ Rest = <<"apply">> /\ Head(Rest) = "apply"
    BY <1>5 DEF Rest
  <2>2. mrTodo \in ApplyPlans /\ Rest \in ApplyPlans /\ Chained(Rest) /\ <<"join", "apply">> \in Chain /\ "join" \in OtherSteps
    BY <1>5, <2>1, Plans DEF ApplyPlans, Chain, OtherSteps
  <2> QED
    BY <1>1, <2>1, <2>2
<1>6. CASE mrTodo = <<"apply">>
  <2>1. Head(mrTodo) = "apply" /\ Rest = <<>>
    BY <1>6 DEF Rest
  <2>2. mrTodo \in ApplyPlans /\ Rest \in Seq(OtherSteps) /\ Chained(Rest) /\ "apply" \notin OtherSteps
    BY <1>6, <2>1, Plans DEF ApplyPlans, OtherSteps, FreshPlans
  <2> QED
    BY <1>1, <1>6, <2>1, <2>2
<1> QED
  BY <1>0, <1>2, <1>3, <1>4, <1>5, <1>6 DEF TodoFits, ApplyPlans

-----------------------------------------------------------------------------
(* McpRuntime: the steps.                                                  *)

\* A step between writes that leaves the disk alone.
LEMMA ControlStep ==
    ASSUME RuntimeInv, ~Writing, UNCHANGED mrDisk,
           TodoFits', ClosingFits',
           mrSettings' \in MrSettings, mrArg' \in MrSettings,
           mrServer' \in [token : Nat, running : BOOLEAN],
           mrClosing' \in BOOLEAN, mrAdmitted' \in BOOLEAN,
           ServerReadsFile', TokenInHand', ServerIsDown',
           ClosedStaysClosed', NoRequestWithoutServer', SettingsFollow'
    PROVE  RuntimeInv'
<1>1. mrTemp = "none" /\ UNCHANGED <<mrTemp, mrFile, mrPromised, mrTokens>>
  BY DEF RuntimeInv, WriteFits, mrDisk
<1>2. RuntimeTypes'
  BY <1>1 DEF RuntimeInv, RuntimeTypes
<1>3. AnswersLast' /\ WriteFits'
  BY <1>1 DEF RuntimeInv, AnswersLast, WriteFits
<1> QED
  BY <1>2, <1>3 DEF RuntimeInv

\* Only a load or a new token comes before the listener is bound, and what else
\* the order of the steps says of a step that takes its name off the list.
LEMMA RestStarts ==
    ASSUME RuntimeInv, mrTodo # <<>>, mrTodo' = Rest
    PROVE  /\ Step("bind")' => Head(mrTodo) \in {"load", "create"}
           /\ Step("regenerate")' => Head(mrTodo) = "join"
           /\ Step("join")' => Head(mrTodo) = "stop"
           /\ ~Step("create")'
           /\ Step("stop")' => Head(mrTodo) \in {"initialize", "bind", "save"}
<1>1. Rest # <<>> => <<Head(mrTodo), Head(Rest)>> \in Chain
  BY Onward
<1> QED
  BY <1>1 DEF Step, Chain

\* A step of a command that only takes its name off the list, outside the plan
\* that applies settings, leaves the order and the shutdown as they were.
LEMMA RestFits ==
    ASSUME RuntimeInv, mrTodo # <<>>, mrTodo' = Rest, mrClosing' = mrClosing
    PROVE  TodoFits' /\ ClosingFits'
<1>1. /\ Rest \in Seq(OtherSteps) \cup ApplyPlans /\ Chained(Rest)
      /\ mrClosing => Rest \in Seq({"initialize", "stop", "join", "disabled"})
  BY Onward
<1> QED
  BY <1>1 DEF TodoFits, ClosingFits

\* A step that replaces what is left by one of the known plans.
LEMMA FreshFits ==
    ASSUME mrTodo' \in FreshPlans,
           mrClosing' => mrTodo' \in {<<>>, <<"initialize">>, <<"stop", "join", "disabled">>}
    PROVE  /\ TodoFits' /\ ClosingFits' /\ mrTodo' \notin ApplyPlans
           /\ Step("bind")' => mrTodo' = <<"bind">>
           /\ ~Step("regenerate")' /\ ~Step("join")' /\ ~Step("create")'
           /\ mrTodo' = <<"stop", "join", "disabled">> => Step("stop")'
<1>1. TodoFits' /\ ClosingFits' /\ mrTodo' \notin ApplyPlans
  BY Plans, PlansApart DEF TodoFits, ClosingFits
<1>2. ASSUME mrTodo' # <<>>
      PROVE  /\ Head(mrTodo') \in {"initialize", "stop", "refresh", "bind", "disabled", "load"}
             /\ Head(mrTodo') = "bind" => mrTodo' = <<"bind">>
  BY <1>2 DEF FreshPlans
<1>3. mrTodo' = <<"stop", "join", "disabled">> => mrTodo' # <<>> /\ Head(mrTodo') = "stop"
  OBVIOUS
<1> QED
  BY <1>1, <1>2, <1>3 DEF Step

\* Every command that gets the lock keeps the invariant.
LEMMA CommandKeeps ==
    ASSUME RuntimeInv, Command
    PROVE  RuntimeInv'
<1>0. /\ mrTodo = <<>> /\ ~Writing /\ UNCHANGED <<mrDisk, mrSettings, mrServer, mrAdmitted>>
      /\ mrArg' \in MrSettings
      /\ mrTodo' \in FreshPlans /\ mrTodo' # <<"bind">>
      /\ \/ mrClosing' = mrClosing /\ (mrClosing => mrTodo' = <<"initialize">>)
         \/ mrClosing' = TRUE /\ mrTodo' = <<"stop", "join", "disabled">>
  <2>1. CASE Shutdown
    BY <2>1 DEF Shutdown, Writing, FreshPlans, RuntimeInv, RuntimeTypes, mrDisk
  <2>2. CASE Initialize
    BY <2>2 DEF Initialize, Takes, Writing, FreshPlans, RuntimeInv, RuntimeTypes, mrDisk, mrControl
  <2>3. CASE GetSettings \/ SetSettings \/ GetToken \/ RegenerateToken
    BY <2>3 DEF GetSettings, SetSettings, GetToken, RegenerateToken, Takes, Writing, FreshPlans, RuntimeInv,
                RuntimeTypes, mrDisk, mrControl
  <2> QED
    BY <2>1, <2>2, <2>3 DEF Command
<1>1. /\ TodoFits' /\ ClosingFits' /\ mrTodo' \notin ApplyPlans /\ ~Step("bind")'
      /\ ~Step("regenerate")' /\ ~Step("join")' /\ ~Step("create")'
      /\ mrTodo' = <<"stop", "join", "disabled">> => Step("stop")'
  BY <1>0, FreshFits
<1>2. ~Step("stop") /\ mrTodo \notin ApplyPlans
  BY <1>0 DEF Step, ApplyPlans
<1>3. ServerReadsFile' /\ TokenInHand' /\ ServerIsDown' /\ NoRequestWithoutServer'
  BY <1>0, <1>1 DEF RuntimeInv, ServerReadsFile, TokenInHand, ServerIsDown, NoRequestWithoutServer, mrDisk
<1>4. ClosedStaysClosed'
  BY <1>0, <1>1, <1>2 DEF RuntimeInv, ClosedStaysClosed
<1>5. SettingsFollow'
  BY <1>0, <1>1, <1>2 DEF RuntimeInv, SettingsFollow, mrDisk
<1>6. /\ mrSettings' \in MrSettings /\ mrServer' \in [token : Nat, running : BOOLEAN]
      /\ mrClosing' \in BOOLEAN /\ mrAdmitted' \in BOOLEAN
  BY <1>0 DEF RuntimeInv, RuntimeTypes
<1> QED
  BY <1>0, <1>1, <1>3, <1>4, <1>5, <1>6, ControlStep

\* Outside the plan that applies them, settings and what is promised of them
\* stay as they are.
LEMMA SettingsKept ==
    ASSUME RuntimeInv, mrTodo \notin ApplyPlans, mrTodo' \notin ApplyPlans,
           mrSettings' = mrSettings, mrPromised' = mrPromised
    PROVE  SettingsFollow'
  BY DEF RuntimeInv, SettingsFollow, Loaded

\* A command's first step that is none of the writes and not of the plan that
\* stops the server finds none of them under way.
LEMMA HeadIs ==
    ASSUME RuntimeInv, NEW name \in {"initialize", "refresh", "compare", "disabled", "load", "bind"}, Step(name)
    PROVE  /\ mrTodo # <<>> /\ Head(mrTodo) = name /\ ~Writing /\ ~Step("stop")
           /\ mrTodo \in Seq(OtherSteps) /\ Rest \in Seq(OtherSteps) /\ Chained(Rest)
           /\ mrTodo \notin ApplyPlans /\ Rest \notin ApplyPlans
           /\ name \notin {"initialize", "disabled"} => ~mrClosing
<1>1. mrTodo # <<>> /\ Head(mrTodo) = name
  BY DEF Step
<1>2. /\ name \in OtherSteps \ {"stop", "join"} /\ name \notin Writes /\ name # "stop"
  BY DEF OtherSteps, Writes
<1>3. ~Writing /\ ~Step("stop")
  BY <1>1, <1>2 DEF Writing, Step
<1>4. /\ mrTodo \in Seq(OtherSteps) /\ Rest \in Seq(OtherSteps) /\ Chained(Rest)
      /\ mrClosing => name \in {"initialize", "stop", "join", "disabled"}
  BY <1>1, <1>2, Onward
<1> QED
  BY <1>1, <1>2, <1>3, <1>4, PlansApart

\* initialize, refresh_finished_server, the comparison of set_settings, and the
\* steps that stop, join, apply and disable keep the invariant.
LEMMA StepsKeep ==
    ASSUME RuntimeInv,
           InitializeLocked \/ Refresh \/ Compare \/ Stop \/ Join \/ Apply \/ Disabled
    PROVE  RuntimeInv'
<1> USE DEF mrControl, mrDisk
<1>0. /\ mrSettings \in MrSettings /\ mrArg \in MrSettings /\ mrServer \in [token : Nat, running : BOOLEAN]
      /\ mrClosing \in BOOLEAN /\ mrAdmitted \in BOOLEAN
      /\ ServerReadsFile /\ ServerIsDown /\ ClosedStaysClosed /\ NoRequestWithoutServer /\ SettingsFollow
      /\ MrDefault \in MrSettings
  BY RuntimeAssumption DEF RuntimeInv, RuntimeTypes
<1>1. NoServer \in [token : Nat, running : BOOLEAN] /\ NoServer.token = 0
  BY DEF NoServer
<1>2. ASSUME InitializeLocked PROVE RuntimeInv'
  <2>0. /\ Step("initialize")
        /\ UNCHANGED <<mrSettings, mrState, mrServer, mrClosing, mrAdmitted, mrArg, mrToken, mrDisk, mrCrashes>>
    BY <1>2 DEF InitializeLocked
  <2>1. /\ mrTodo # <<>> /\ Head(mrTodo) = "initialize" /\ ~Writing /\ ~Step("stop")
        /\ Rest \in Seq(OtherSteps) /\ Chained(Rest) /\ mrTodo \notin ApplyPlans /\ Rest \notin ApplyPlans
    BY <2>0, HeadIs
  <2>2. /\ TodoFits' /\ ClosingFits' /\ mrTodo' \notin ApplyPlans
        /\ ~Step("bind")' /\ ~Step("regenerate")' /\ ~Step("join")' /\ ~Step("create")'
    <3>1. CASE mrTodo' = Rest
      BY <2>0, <2>1, <3>1, RestFits, RestStarts
    <3>2. CASE mrTodo' = Start \o Rest /\ ~mrClosing
      <4>1. Rest # <<>> => <<"bind", Head(Rest)>> \in Chain
        <5>1. Rest # <<>> => <<"initialize", Head(Rest)>> \in Chain
          BY <2>1, Onward
        <5> QED
          BY <5>1 DEF Chain
      <4>2. "bind" \in OtherSteps /\ "load" \in OtherSteps /\ <<"load", "bind">> \in Chain
        BY DEF OtherSteps, Chain
      <4> DEFINE b == <<"bind">> \o Rest
      <4>3. b \in Seq(OtherSteps) /\ Chained(b) /\ b # <<>> /\ Head(b) = "bind"
        BY <2>1, <4>1, <4>2, ChainOn
      <4>4. Start \o Rest = <<"load">> \o b
        BY <2>1 DEF Start
      <4> HIDE DEF b
      <4>5. /\ <<"load">> \o b \in Seq(OtherSteps) /\ Chained(<<"load">> \o b)
            /\ <<"load">> \o b # <<>> /\ Head(<<"load">> \o b) = "load"
        BY <4>2, <4>3, ChainOn
      <4>6. mrTodo' \in Seq(OtherSteps) /\ Chained(mrTodo') /\ mrTodo' # <<>> /\ Head(mrTodo') = "load"
        BY <3>2, <4>4, <4>5
      <4> QED
        BY <2>0, <3>2, <4>6, PlansApart DEF TodoFits, ClosingFits, Step
    <3> QED
      BY <1>2, <3>1, <3>2 DEF InitializeLocked
  <2>3. ServerReadsFile' /\ TokenInHand' /\ ServerIsDown' /\ NoRequestWithoutServer' /\ ClosedStaysClosed'
    BY <1>0, <2>0, <2>1, <2>2 DEF ServerReadsFile, TokenInHand, ServerIsDown, NoRequestWithoutServer, ClosedStaysClosed
  <2>4. SettingsFollow'
    BY <2>0, <2>1, <2>2, SettingsKept
  <2> QED
    BY <1>0, <2>0, <2>1, <2>2, <2>3, <2>4, ControlStep
<1>3. ASSUME Refresh PROVE RuntimeInv'
  <2>0. /\ Step("refresh") /\ mrTodo' = Rest /\ mrArg' = MrDefault
        /\ UNCHANGED <<mrSettings, mrClosing, mrDisk>>
        /\ \/ mrServer' = NoServer /\ mrAdmitted' = FALSE
           \/ UNCHANGED <<mrServer, mrAdmitted>>
    BY <1>3 DEF Refresh, Forget
  <2>1. /\ mrTodo # <<>> /\ Head(mrTodo) = "refresh" /\ ~Writing /\ ~mrClosing
        /\ mrTodo \notin ApplyPlans /\ Rest \notin ApplyPlans
    BY <2>0, HeadIs
  <2>2. /\ TodoFits' /\ ClosingFits' /\ mrTodo' \notin ApplyPlans
        /\ ~Step("bind")' /\ ~Step("regenerate")' /\ ~Step("join")' /\ ~Step("create")'
    BY <2>0, <2>1, RestFits, RestStarts
  <2>3. ServerReadsFile' /\ TokenInHand' /\ ServerIsDown' /\ NoRequestWithoutServer' /\ ClosedStaysClosed'
    BY <1>0, <1>1, <2>0, <2>1, <2>2 DEF ServerReadsFile, TokenInHand, ServerIsDown, NoRequestWithoutServer, ClosedStaysClosed
  <2>4. SettingsFollow'
    BY <2>0, <2>1, <2>2, SettingsKept
  <2>5. mrServer' \in [token : Nat, running : BOOLEAN] /\ mrAdmitted' \in BOOLEAN
    BY <1>0, <1>1, <2>0
  <2> QED
    BY <1>0, <2>0, <2>1, <2>2, <2>3, <2>4, <2>5, ControlStep
<1>4. ASSUME Compare PROVE RuntimeInv'
  <2>0. Step("compare") /\ UNCHANGED <<mrControl, mrArg, mrDisk>>
    BY <1>4 DEF Compare
  <2>1. ~Writing /\ ~mrClosing /\ mrTodo \notin ApplyPlans
    BY <2>0, HeadIs
  <2>2. \/ mrTodo' = <<"refresh">>
        \/ mrTodo' = SavePlan
        \/ mrTodo' = <<"stop", "join", "apply">> /\ mrSettings = mrArg
    <3>1. <<"save">> \o <<"stop", "join", "apply">> = SavePlan
      <4> DEFINE t == <<"stop", "join", "apply">>
                 all == {"save", "stop", "join", "apply"}
      <4>1. t \in Seq(all) /\ Len(t) = 3 /\ t[1] = "stop" /\ t[2] = "join" /\ t[3] = "apply"
        OBVIOUS
      <4>2. /\ SavePlan \in Seq(all) /\ Len(SavePlan) = 4 /\ SavePlan[1] = "save"
            /\ SavePlan[2] = "stop" /\ SavePlan[3] = "join" /\ SavePlan[4] = "apply"
        BY DEF SavePlan
      <4>3. "save" \in all
        OBVIOUS
      <4> HIDE DEF t, all
      <4>4. /\ <<"save">> \o t \in Seq(all) /\ Len(<<"save">> \o t) = 4 /\ (<<"save">> \o t)[1] = "save"
            /\ \A i \in 1..3 : (<<"save">> \o t)[i + 1] = t[i]
        BY <4>1, <4>3
      <4>5. \A i \in 1..4 : (<<"save">> \o t)[i] = SavePlan[i]
        BY <4>1, <4>2, <4>4
      <4>6. <<"save">> \o t = SavePlan
        BY <4>2, <4>4, <4>5
      <4> QED
        BY <4>6 DEF t
    <3>2. /\ <<"stop", "join", "apply">> \in Seq({"stop", "join", "apply"})
          /\ <<>> \o <<"stop", "join", "apply">> = <<"stop", "join", "apply">>
      OBVIOUS
    <3>3. CASE InForce
      BY <1>4, <3>3 DEF Compare
    <3>4. CASE ~InForce /\ NeedsSave
      BY <1>4, <3>1, <3>4 DEF Compare
    <3>5. CASE ~InForce /\ ~NeedsSave
      BY <1>4, <3>2, <3>5 DEF Compare, NeedsSave
    <3> QED
      BY <3>3, <3>4, <3>5
  <2>3. /\ TodoFits' /\ mrTodo' # <<>> /\ Head(mrTodo') \in {"refresh", "save", "stop"}
        /\ mrTodo' \in ApplyPlans => mrSettings = mrArg
    <3>1. CASE mrTodo' = <<"refresh">>
      <4>1. mrTodo' \in FreshPlans
        BY <3>1 DEF FreshPlans
      <4> QED
        BY <3>1, <4>1, Plans, PlansApart DEF TodoFits
    <3>2. CASE mrTodo' = SavePlan
      <4>1. SavePlan # <<>> /\ Head(SavePlan) = "save"
        BY DEF SavePlan
      <4>2. Head(<<"stop", "join", "apply">>) = "stop" /\ Head(<<"join", "apply">>) = "join" /\ Head(<<"apply">>) = "apply"
        OBVIOUS
      <4>3. SavePlan \notin ApplyPlans
        BY <4>1, <4>2 DEF ApplyPlans
      <4> QED
        BY <3>2, <4>1, <4>3, Plans DEF TodoFits
    <3>3. CASE mrTodo' = <<"stop", "join", "apply">> /\ mrSettings = mrArg
      <4>1. mrTodo' \in ApplyPlans
        BY <3>3 DEF ApplyPlans
      <4>2. Head(mrTodo') = "stop" /\ mrTodo' # <<>>
        BY <3>3
      <4> QED
        BY <3>3, <4>1, <4>2, Plans DEF TodoFits
    <3> QED
      BY <2>2, <3>1, <3>2, <3>3
  <2>4. ~Step("bind")' /\ ~Step("regenerate")' /\ ~Step("join")' /\ ~Step("create")' /\ ClosingFits'
    BY <2>0, <2>1, <2>3 DEF Step, ClosingFits
  <2>5. ServerReadsFile' /\ TokenInHand' /\ ServerIsDown' /\ NoRequestWithoutServer' /\ ClosedStaysClosed'
    BY <1>0, <2>0, <2>1, <2>4 DEF ServerReadsFile, TokenInHand, ServerIsDown, NoRequestWithoutServer, ClosedStaysClosed
  <2>6. SettingsFollow'
    BY <1>0, <2>0, <2>1, <2>3 DEF SettingsFollow, Loaded
  <2> QED
    BY <1>0, <2>0, <2>1, <2>3, <2>4, <2>5, <2>6, ControlStep
<1>5. ASSUME Stop \/ Join PROVE RuntimeInv'
  <2>0. /\ mrTodo # <<>> /\ Head(mrTodo) \in {"stop", "join"} /\ mrTodo' = Rest
        /\ UNCHANGED <<mrSettings, mrClosing, mrArg, mrDisk>>
        /\ mrServer' \in [token : Nat, running : BOOLEAN] /\ mrServer'.token = 0 /\ mrAdmitted' = FALSE
    <3>1. CASE Stop
      BY <1>0, <3>1 DEF Stop, Step
    <3>2. CASE Join
      BY <1>0, <1>1, <3>2 DEF Join, Step, ServerIsDown, NoRequestWithoutServer
    <3> QED
      BY <1>5, <3>1, <3>2
  <2>1. ~Writing /\ (Rest \in ApplyPlans <=> mrTodo \in ApplyPlans)
    BY <2>0, Onward DEF Writing, Writes
  <2>2. TodoFits' /\ ClosingFits' /\ ~Step("bind")'
    BY <2>0, RestFits, RestStarts
  <2>3. ServerReadsFile' /\ TokenInHand' /\ ServerIsDown' /\ NoRequestWithoutServer' /\ ClosedStaysClosed'
    BY <2>0, <2>2 DEF ServerReadsFile, TokenInHand, ServerIsDown, NoRequestWithoutServer, ClosedStaysClosed
  <2>4. SettingsFollow'
    BY <1>0, <2>0, <2>1 DEF SettingsFollow, Loaded
  <2> QED
    BY <1>0, <2>0, <2>1, <2>2, <2>3, <2>4, ControlStep
<1>6. ASSUME Apply PROVE RuntimeInv'
  <2>0. /\ Step("apply") /\ mrSettings' = mrArg /\ mrArg' = MrDefault
        /\ mrTodo' \in {<<"load", "bind">>, <<"disabled">>}
        /\ UNCHANGED <<mrServer, mrClosing, mrAdmitted, mrDisk>>
    BY <1>6 DEF Apply, Forget, Start
  <2>1. /\ mrTodo # <<>> /\ Head(mrTodo) = "apply" /\ mrTodo \in ApplyPlans /\ ~mrClosing /\ ~Writing
    BY <2>0, Onward DEF Step, Writing, Writes
  <2>2. /\ TodoFits' /\ ClosingFits' /\ mrTodo' \notin ApplyPlans
        /\ ~Step("bind")' /\ ~Step("regenerate")' /\ ~Step("join")' /\ ~Step("create")'
    <3>1. mrTodo' \in FreshPlans /\ mrTodo' # <<"bind">>
      BY <2>0 DEF FreshPlans
    <3> QED
      BY <2>0, <2>1, <3>1, FreshFits
  <2>3. ServerReadsFile' /\ TokenInHand' /\ ServerIsDown' /\ NoRequestWithoutServer' /\ ClosedStaysClosed'
    BY <1>0, <2>0, <2>1, <2>2 DEF ServerReadsFile, TokenInHand, ServerIsDown, NoRequestWithoutServer, ClosedStaysClosed
  <2>4. SettingsFollow'
    BY <1>0, <2>0, <2>1, <2>2 DEF SettingsFollow, Loaded
  <2> QED
    BY <1>0, <2>0, <2>1, <2>2, <2>3, <2>4, ControlStep
<1>7. ASSUME Disabled PROVE RuntimeInv'
  <2>0. /\ Step("disabled") /\ mrTodo' = Rest
        /\ UNCHANGED <<mrSettings, mrServer, mrClosing, mrAdmitted, mrArg, mrDisk>>
    BY <1>7 DEF Disabled
  <2>1. /\ mrTodo # <<>> /\ Head(mrTodo) = "disabled" /\ ~Writing /\ ~Step("stop")
        /\ mrTodo \notin ApplyPlans /\ Rest \notin ApplyPlans
    BY <2>0, HeadIs
  <2>2. /\ TodoFits' /\ ClosingFits' /\ mrTodo' \notin ApplyPlans
        /\ ~Step("bind")' /\ ~Step("regenerate")' /\ ~Step("join")' /\ ~Step("create")'
    BY <2>0, <2>1, RestFits, RestStarts
  <2>3. ServerReadsFile' /\ TokenInHand' /\ ServerIsDown' /\ NoRequestWithoutServer' /\ ClosedStaysClosed'
    BY <1>0, <2>0, <2>1, <2>2 DEF ServerReadsFile, TokenInHand, ServerIsDown, NoRequestWithoutServer, ClosedStaysClosed
  <2>4. SettingsFollow'
    BY <2>0, <2>1, <2>2, SettingsKept
  <2> QED
    BY <1>0, <2>0, <2>1, <2>2, <2>3, <2>4, ControlStep
<1> QED
  BY <1>2, <1>3, <1>4, <1>5, <1>6, <1>7

\* The token of the file, if a read finds one.
LEMMA FoundToken ==
    ASSUME RuntimeInv, NEW f \in Files
    PROVE  /\ mrFile[f].seen \in mrPromised[f] /\ mrFile[f].safe \in mrPromised[f]
           /\ mrFile["token"].seen \in TokenValues
           /\ mrFile["settings"].safe \in SettingsValues
<1>1. DOMAIN mrFile = Files /\ AnswersLast /\ "token" \in Files /\ "settings" \in Files
  BY DEF RuntimeInv, RuntimeTypes, Files
<1> QED
  BY <1>1 DEF AnswersLast, RuntimeInv, RuntimeTypes

\* Reading the token and binding the listener keep the invariant.
LEMMA StartKeeps ==
    ASSUME RuntimeInv, Load \/ Bind
    PROVE  RuntimeInv'
<1> USE DEF mrControl, mrDisk
<1>0. /\ mrSettings \in MrSettings /\ mrArg \in MrSettings /\ mrServer \in [token : Nat, running : BOOLEAN]
      /\ mrClosing \in BOOLEAN /\ mrAdmitted \in BOOLEAN
      /\ ServerReadsFile /\ ServerIsDown /\ TokenInHand /\ ClosedStaysClosed /\ NoRequestWithoutServer
  BY DEF RuntimeInv, RuntimeTypes
<1>1. PICK name \in {"load", "bind"} :
          /\ Step(name) /\ (name = "load" => Load) /\ (name = "bind" => Bind)
          /\ UNCHANGED <<mrSettings, mrClosing, mrAdmitted, mrArg, mrDisk>>
  BY DEF Load, Bind
<1>2. /\ mrTodo # <<>> /\ Head(mrTodo) = name /\ ~Writing /\ ~mrClosing
      /\ Rest \in Seq(OtherSteps) /\ Chained(Rest) /\ mrTodo \notin ApplyPlans /\ Rest \notin ApplyPlans
      /\ Rest # <<>> => <<name, Head(Rest)>> \in Chain
  BY <1>1, HeadIs, Onward
<1>3. CASE name = "load"
  <2>0. Rest # <<>> => Head(Rest) = "bind"
    BY <1>2, <1>3 DEF Chain
  <2>1. Load /\ mrServer' = mrServer
    BY <1>1, <1>3 DEF Load
  <2>2. CASE \E token \in LoadExisting : mrToken' = (IF Rest = <<>> THEN 0 ELSE token) /\ mrTodo' = Rest
    <3>1. PICK token \in LoadExisting : mrToken' = (IF Rest = <<>> THEN 0 ELSE token) /\ mrTodo' = Rest
      BY <2>2
    <3>2. token = mrFile["token"].seen /\ token \in Nat \ {0}
      <4>1. "token" \in Files
        BY DEF Files
      <4>2. mrFile["token"].seen \in TokenValues
        BY <4>1, FoundToken
      <4> QED
        BY <3>1, <4>2 DEF LoadExisting, TokenValues
    <3>3. /\ TodoFits' /\ ClosingFits' /\ mrTodo' \notin ApplyPlans
          /\ ~Step("regenerate")' /\ ~Step("join")' /\ ~Step("create")'
      BY <1>1, <1>2, <1>3, <3>1, RestFits, RestStarts
    <3>4. ServerReadsFile' /\ TokenInHand' /\ ServerIsDown' /\ NoRequestWithoutServer' /\ ClosedStaysClosed'
      BY <1>0, <1>1, <1>2, <2>1, <3>1, <3>2, <3>3
         DEF ServerReadsFile, TokenInHand, ServerIsDown, NoRequestWithoutServer, ClosedStaysClosed, Step
    <3>5. SettingsFollow'
      BY <1>1, <1>2, <3>3, SettingsKept
    <3> QED
      BY <1>0, <1>1, <1>2, <2>1, <3>3, <3>4, <3>5, ControlStep
  <2>3. CASE mrFile["token"].seen = Missing /\ mrTodo' = <<"create">> \o Rest
    <3>1. "create" \in OtherSteps /\ <<"create", "bind">> \in Chain
      BY DEF OtherSteps, Chain
    <3>2. mrTodo' \in Seq(OtherSteps) /\ Chained(mrTodo') /\ mrTodo' # <<>> /\ Head(mrTodo') = "create"
      BY <1>2, <2>0, <2>3, <3>1, ChainOn
    <3>3. /\ TodoFits' /\ ClosingFits' /\ mrTodo' \notin ApplyPlans /\ ~Step("bind")'
      BY <1>1, <1>2, <3>2, PlansApart DEF TodoFits, ClosingFits, Step
    <3>4. mrServer.token = 0
      BY <1>0, <2>3, RuntimeAssumption DEF ServerReadsFile
    <3>5. ServerReadsFile' /\ TokenInHand' /\ ServerIsDown' /\ NoRequestWithoutServer' /\ ClosedStaysClosed'
      BY <1>0, <1>1, <1>2, <2>1, <3>3, <3>4
         DEF ServerReadsFile, TokenInHand, ServerIsDown, NoRequestWithoutServer, ClosedStaysClosed
    <3>6. SettingsFollow'
      BY <1>1, <1>2, <3>3, SettingsKept
    <3> QED
      BY <1>0, <1>1, <1>2, <2>1, <3>3, <3>5, <3>6, ControlStep
  <2>4. CASE NoToken
    <3>1. /\ mrTodo' \in Seq(OtherSteps) /\ Chained(mrTodo')
          /\ mrTodo' # <<>> => Head(mrTodo') \in {"refresh", "compare", "load", "stop"}
      <4>1. CASE Rest # <<>> /\ Head(Rest) = "bind"
        <5>1. mrTodo' = Tail(Rest)
          BY <2>4, <4>1 DEF NoToken
        <5>2. /\ Tail(Rest) \in Seq(OtherSteps) /\ Chained(Tail(Rest))
              /\ Tail(Rest) # <<>> => <<"bind", Head(Tail(Rest))>> \in Chain
          BY <1>2, <4>1, ChainRest
        <5> QED
          BY <5>1, <5>2 DEF Chain
      <4>2. CASE ~(Rest # <<>> /\ Head(Rest) = "bind")
        <5>1. mrTodo' = <<>> /\ <<>> \in FreshPlans
          BY <2>4, <4>2 DEF NoToken, FreshPlans
        <5> QED
          BY <5>1, Plans
      <4> QED
        BY <4>1, <4>2
    <3>2. /\ TodoFits' /\ ClosingFits' /\ mrTodo' \notin ApplyPlans
          /\ ~Step("bind")' /\ ~Step("regenerate")' /\ ~Step("join")' /\ ~Step("create")'
      BY <1>1, <1>2, <3>1, PlansApart DEF TodoFits, ClosingFits, Step
    <3>3. ServerReadsFile' /\ TokenInHand' /\ ServerIsDown' /\ NoRequestWithoutServer' /\ ClosedStaysClosed'
      BY <1>0, <1>1, <1>2, <2>1, <3>2
         DEF ServerReadsFile, TokenInHand, ServerIsDown, NoRequestWithoutServer, ClosedStaysClosed
    <3>4. SettingsFollow'
      BY <1>1, <1>2, <3>2, SettingsKept
    <3> QED
      BY <1>0, <1>1, <1>2, <2>1, <3>2, <3>3, <3>4, ControlStep
  <2> QED
    BY <2>1, <2>2, <2>3, <2>4 DEF Load
<1>4. CASE name = "bind"
  <2>1. /\ mrTodo' = Rest
        /\ mrServer' = [token |-> mrToken, running |-> TRUE] \/ mrServer' = mrServer
        /\ mrToken \in Nat \ {0} /\ mrToken = mrFile["token"].seen
    BY <1>0, <1>1, <1>4 DEF Bind, TokenInHand
  <2>2. /\ TodoFits' /\ ClosingFits' /\ mrTodo' \notin ApplyPlans
        /\ ~Step("bind")' /\ ~Step("regenerate")' /\ ~Step("join")' /\ ~Step("create")'
    BY <1>1, <1>2, <1>4, <2>1, RestFits, RestStarts
  <2>3. ServerReadsFile' /\ TokenInHand' /\ ServerIsDown' /\ NoRequestWithoutServer' /\ ClosedStaysClosed'
    BY <1>0, <1>1, <1>2, <2>1, <2>2
       DEF ServerReadsFile, TokenInHand, ServerIsDown, NoRequestWithoutServer, ClosedStaysClosed
  <2>4. SettingsFollow'
    BY <1>1, <1>2, <2>2, SettingsKept
  <2>5. mrServer' \in [token : Nat, running : BOOLEAN]
    <3>1. mrToken \in Nat
      BY <2>1
    <3>2. [token |-> mrToken, running |-> TRUE] \in [token : Nat, running : BOOLEAN]
      BY <3>1
    <3> QED
      BY <1>0, <2>1, <3>2
  <2> QED
    BY <1>0, <1>1, <1>2, <2>2, <2>3, <2>4, <2>5, ControlStep
<1> QED
  BY <1>1, <1>3, <1>4

-----------------------------------------------------------------------------
(* McpRuntime: the steps of write_atomically.                              *)

\* A write is of the settings, before the plan that applies them, or of a token,
\* while no server runs.
LEMMA WhatIsWritten ==
    ASSUME RuntimeInv, Writing
    PROVE  /\ mrTodo # <<>> /\ mrTodo \notin ApplyPlans /\ ~mrClosing /\ Target \in Files
           /\ ~Step("bind") /\ ~Step("stop") /\ ~Step("join")
           /\ \/ /\ Head(mrTodo) = "save" /\ Target = "settings" /\ Value = mrArg /\ mrTodo = SavePlan
                 /\ Rest = <<"stop", "join", "apply">>
              \/ /\ Head(mrTodo) \in {"create", "regenerate"} /\ Target = "token" /\ Value = mrTokens
                 /\ Rest \in Seq(OtherSteps) /\ Chained(Rest) /\ mrServer.token = 0
                 /\ Rest # <<>> => Head(Rest) = "bind"
<1>1. mrTodo # <<>> /\ Head(mrTodo) \in {"save", "create", "regenerate"}
  BY DEF Writing, Writes
<1>2. ~Step("bind") /\ ~Step("stop") /\ ~Step("join")
  BY <1>1 DEF Step
<1>3. Target \in Files
  BY DEF Target, Files
<1>4. ~mrClosing /\ mrTodo \notin ApplyPlans
  BY <1>1, Onward
<1>5. CASE Head(mrTodo) = "save"
  <2>1. mrTodo = SavePlan
    BY <1>1, <1>5, Onward
  <2>2. Rest = <<"stop", "join", "apply">>
    BY <2>1 DEF Rest, SavePlan
  <2> QED
    BY <1>1, <1>2, <1>3, <1>4, <1>5, <2>1, <2>2 DEF Target, Value
<1>6. CASE Head(mrTodo) \in {"create", "regenerate"}
  <2>1. Rest \in Seq(OtherSteps) /\ Chained(Rest)
    <3>1. Head(mrTodo) \in OtherSteps \ {"stop", "join"}
      BY <1>6 DEF OtherSteps
    <3> QED
      BY <1>1, <3>1, Onward
  <2>2. Rest # <<>> => Head(Rest) = "bind"
    <3>1. Rest # <<>> => <<Head(mrTodo), Head(Rest)>> \in Chain
      BY <1>1, Onward
    <3> QED
      BY <1>6, <3>1 DEF Chain
  <2>3. mrServer.token = 0
    BY <1>1, <1>6 DEF RuntimeInv, ServerIsDown, Step
  <2> QED
    BY <1>1, <1>2, <1>3, <1>4, <1>6, <2>1, <2>2, <2>3 DEF Target, Value
<1> QED
  BY <1>1, <1>5, <1>6

\* A step of a write that changes the disk and perhaps what is left to do.
LEMMA WriteStep ==
    ASSUME RuntimeInv, Writing, UNCHANGED <<mrSettings, mrServer, mrClosing, mrAdmitted>>,
           mrArg' \in MrSettings, mrTokens' \in Nat \ {0},
           mrTemp' \in {"none", "written", "synced", "renamed"},
           mrFile' \in [Files -> [seen : Values, safe : Values]],
           mrPromised' \in [Files -> SUBSET Values],
           mrPromised["settings"]' \subseteq SettingsValues, mrPromised["token"]' \subseteq TokenValues,
           AnswersLast', WriteFits', TodoFits', SettingsFollow',
           ServerReadsFile', TokenInHand', ServerIsDown'
    PROVE  RuntimeInv'
<1>1. RuntimeTypes'
  BY DEF RuntimeInv, RuntimeTypes
<1>2. ~mrClosing'
  BY WhatIsWritten
<1>3. ClosingFits' /\ ClosedStaysClosed'
  BY <1>2 DEF ClosingFits, ClosedStaysClosed
<1>4. NoRequestWithoutServer'
  BY DEF RuntimeInv, NoRequestWithoutServer
<1> QED
  BY <1>1, <1>3, <1>4 DEF RuntimeInv

\* The value being written is one the file may hold.
LEMMA ValueFits ==
    ASSUME RuntimeInv, Writing
    PROVE  /\ Value \in Values
           /\ Target = "settings" => Value \in SettingsValues
           /\ Target = "token" => Value \in TokenValues
<1>1. mrArg \in SettingsValues /\ mrTokens \in TokenValues
  BY DEF RuntimeInv, RuntimeTypes, SettingsValues, TokenValues
<1> QED
  BY <1>1, WhatIsWritten DEF Values

\* Opening, writing and synchronising the temporary file, and renaming it over
\* the old one, keep the invariant.
LEMMA WritesKeep ==
    ASSUME RuntimeInv, WriteOpen \/ WriteSync \/ WriteRename
    PROVE  RuntimeInv'
<1> USE DEF mrControl
<1>0. Writing /\ UNCHANGED <<mrSettings, mrServer, mrClosing, mrAdmitted, mrTodo, mrArg, mrToken>>
  BY DEF WriteOpen, WriteSync, WriteRename
<1>1. /\ mrArg' \in MrSettings /\ mrTokens \in Nat \ {0}
      /\ mrFile \in [Files -> [seen : Values, safe : Values]] /\ mrPromised \in [Files -> SUBSET Values]
      /\ mrPromised["settings"] \subseteq SettingsValues /\ mrPromised["token"] \subseteq TokenValues
      /\ AnswersLast /\ WriteFits /\ ServerReadsFile /\ SettingsFollow
  BY <1>0 DEF RuntimeInv, RuntimeTypes
<1>2. /\ TodoFits' /\ ServerIsDown' /\ ~Step("bind")' /\ TokenInHand' /\ Writing' /\ Target' = Target
  BY <1>0, WhatIsWritten DEF RuntimeInv, TodoFits, ServerIsDown, TokenInHand, Step, Writing, Target
<1>3. /\ Target \in Files /\ DOMAIN mrFile = Files /\ DOMAIN mrPromised = Files
      /\ "settings" \in Files /\ "token" \in Files
  <2>1. Target \in Files
    BY <1>0, WhatIsWritten
  <2> QED
    BY <1>1, <2>1 DEF Files
<1>4. CASE WriteOpen
  <2>1. /\ mrTemp' = "written" /\ mrFile' = mrFile
        /\ mrTokens' = (IF Target = "token" THEN mrTokens + 1 ELSE mrTokens)
        /\ mrPromised' = [mrPromised EXCEPT ![Target] = @ \cup {IF Target = "token" THEN mrTokens + 1 ELSE mrArg}]
    BY <1>4 DEF WriteOpen
  <2>2. mrTokens' \in Nat \ {0}
    BY <1>1, <2>1
  <2>3. Value' = (IF Target = "token" THEN mrTokens + 1 ELSE mrArg)
    <3>1. CASE Target = "token"
      BY <1>0, <2>1, <3>1 DEF Target, Value
    <3>2. CASE Target # "token"
      BY <1>0, <2>1, <3>2 DEF Target, Value
    <3> QED
      BY <3>1, <3>2
  <2>4. /\ Value' \in Values
        /\ Target = "settings" => Value' \in SettingsValues
        /\ Target = "token" => Value' \in TokenValues
    BY <1>0, <1>1, <2>3, <1>3 DEF Files, SettingsValues, TokenValues, Values
  <2>5. mrPromised' = [mrPromised EXCEPT ![Target] = mrPromised[Target] \cup {Value'}]
    BY <2>1, <2>3
  <2>6. mrPromised' \in [Files -> SUBSET Values] /\ Value' \in mrPromised'[Target]
        /\ \A f \in Files : mrPromised[f] \subseteq mrPromised'[f]
    BY <1>1, <1>3, <2>4, <2>5
  <2>7. mrPromised["settings"]' \subseteq SettingsValues /\ mrPromised["token"]' \subseteq TokenValues
    BY <1>1, <1>3, <2>4, <2>5
  <2>8. AnswersLast' /\ WriteFits' /\ ServerReadsFile'
    BY <1>0, <1>1, <1>2, <1>3, <2>1, <2>6 DEF AnswersLast, WriteFits, ServerReadsFile
  <2>9. SettingsFollow'
    BY <1>0, <1>1, <1>3, <2>6 DEF SettingsFollow, Loaded
  <2> QED
    BY <1>0, <1>1, <1>2, <2>1, <2>2, <2>6, <2>7, <2>8, <2>9, WriteStep
<1>5. CASE WriteSync
  <2>1. /\ mrTemp = "written" /\ mrTemp' = "synced" /\ UNCHANGED <<mrFile, mrPromised, mrTokens>>
    BY <1>5 DEF WriteSync
  <2>2. Value' = Value
    BY <1>0, <2>1 DEF Value
  <2>3. AnswersLast' /\ WriteFits' /\ ServerReadsFile'
    BY <1>0, <1>1, <1>2, <2>1, <2>2 DEF AnswersLast, WriteFits, ServerReadsFile
  <2>4. SettingsFollow'
    BY <1>0, <1>1, <2>1 DEF SettingsFollow, Loaded
  <2> QED
    BY <1>0, <1>1, <1>2, <2>1, <2>3, <2>4, WriteStep
<1>6. CASE WriteRename
  <2>1. /\ mrTemp = "synced" /\ mrTemp' = "renamed" /\ UNCHANGED <<mrPromised, mrTokens>>
        /\ \E safe \in {mrFile[Target].safe, Value} :
              mrFile' = [mrFile EXCEPT ![Target] = [seen |-> Value, safe |-> safe]]
    BY <1>6 DEF WriteRename, RuntimeInv, RuntimeTypes
  <2>2. PICK safe \in {mrFile[Target].safe, Value} :
          mrFile' = [mrFile EXCEPT ![Target] = [seen |-> Value, safe |-> safe]]
    BY <2>1
  <2>3. Value' = Value /\ Value \in mrPromised[Target] /\ Value \in Values
    BY <1>0, <1>1, <2>1, ValueFits DEF Value, WriteFits
  <2>4. safe \in mrPromised[Target] /\ safe \in Values
    BY <1>1, <1>3, <2>2, <2>3 DEF AnswersLast
  <2>5. mrFile' \in [Files -> [seen : Values, safe : Values]]
    BY <1>1, <1>3, <2>2, <2>3, <2>4
  <2>6. /\ mrFile'[Target].seen = Value /\ mrFile'[Target].safe = safe
        /\ \A f \in Files : f # Target => mrFile'[f] = mrFile[f]
    BY <1>1, <1>3, <2>2
  <2>7. AnswersLast'
    BY <1>1, <1>3, <2>1, <2>3, <2>4, <2>5, <2>6 DEF AnswersLast
  <2>8. WriteFits'
    BY <1>2, <2>1, <2>3, <2>6 DEF WriteFits
  <2>9. ServerReadsFile'
    <3>1. CASE Target = "token"
      <4>1. mrServer.token = 0
        BY <1>0, <3>1, WhatIsWritten
      <4> QED
        BY <1>0, <4>1 DEF ServerReadsFile
    <3>2. CASE Target # "token"
      BY <1>0, <1>1, <1>3, <2>6, <3>2 DEF ServerReadsFile
    <3> QED
      BY <3>1, <3>2
  <2>10. SettingsFollow'
    BY <1>0, <1>1, <2>1 DEF SettingsFollow, Loaded
  <2> QED
    BY <1>0, <1>1, <1>2, <2>1, <2>5, <2>7, <2>8, <2>9, <2>10, WriteStep
<1> QED
  BY <1>4, <1>5, <1>6

\* The end of a write: the directory is synchronised and the command goes on
\* with the value in the file and nowhere else.
LEMMA WriteDoneKeeps ==
    ASSUME RuntimeInv, WriteDone
    PROVE  RuntimeInv'
<1> USE DEF mrControl
<1>0. /\ Writing /\ mrTemp = "renamed" /\ mrTemp' = "none" /\ Wrote
      /\ UNCHANGED <<mrSettings, mrServer, mrClosing, mrAdmitted, mrArg, mrTokens>>
      /\ mrFile' = [mrFile EXCEPT ![Target] = DirectorySynced(Target)]
      /\ mrPromised' = [mrPromised EXCEPT ![Target] = {Value}]
  BY DEF WriteDone
<1>1. /\ mrArg' \in MrSettings /\ mrTokens' \in Nat \ {0} /\ mrArg \in MrSettings
      /\ mrFile \in [Files -> [seen : Values, safe : Values]] /\ mrPromised \in [Files -> SUBSET Values]
      /\ mrPromised["settings"] \subseteq SettingsValues /\ mrPromised["token"] \subseteq TokenValues
      /\ AnswersLast /\ WriteFits /\ ServerReadsFile /\ SettingsFollow
  BY <1>0 DEF RuntimeInv, RuntimeTypes
<1>2. /\ Target \in Files /\ mrTodo # <<>> /\ mrTodo \notin ApplyPlans
  BY <1>0, WhatIsWritten
<1>3. /\ Value \in Values /\ mrFile[Target].seen = Value
      /\ Target = "settings" => Value \in SettingsValues
      /\ Target = "token" => Value \in TokenValues
  BY <1>0, <1>1, ValueFits DEF WriteFits
<1>4. DOMAIN mrFile = Files /\ DOMAIN mrPromised = Files /\ "settings" \in Files /\ "token" \in Files
  BY <1>1 DEF Files
<1>5. DirectorySynced(Target) = [seen |-> Value, safe |-> Value]
  <2>1. mrFile[Target] \in [seen : Values, safe : Values]
    BY <1>1, <1>2
  <2> QED
    BY <1>3, <2>1 DEF DirectorySynced
<1>6. /\ mrFile' \in [Files -> [seen : Values, safe : Values]]
      /\ mrFile'[Target] = [seen |-> Value, safe |-> Value]
      /\ \A f \in Files : f # Target => mrFile'[f] = mrFile[f]
  <2>1. [seen |-> Value, safe |-> Value] \in [seen : Values, safe : Values]
    BY <1>3
  <2> QED
    BY <1>0, <1>1, <1>2, <1>5, <2>1
<1>7. /\ mrPromised' \in [Files -> SUBSET Values] /\ mrPromised'[Target] = {Value}
      /\ \A f \in Files : f # Target => mrPromised'[f] = mrPromised[f]
  BY <1>0, <1>1, <1>2, <1>3
<1>8. mrPromised["settings"]' \subseteq SettingsValues /\ mrPromised["token"]' \subseteq TokenValues
  BY <1>1, <1>3, <1>4, <1>7
<1>9. AnswersLast'
  <2> SUFFICES ASSUME NEW f \in Files PROVE {mrFile'[f].seen, mrFile'[f].safe} \subseteq mrPromised'[f]
    BY <1>6 DEF AnswersLast
  <2>1. CASE f = Target
    BY <1>6, <1>7, <2>1
  <2>2. CASE f # Target
    BY <1>1, <1>4, <1>6, <1>7, <2>2 DEF AnswersLast
  <2> QED
    BY <2>1, <2>2
<1>10. WriteFits'
  BY <1>0 DEF WriteFits
<1>11. CASE /\ Head(mrTodo) = "save" /\ Target = "settings" /\ Value = mrArg /\ mrTodo = SavePlan
            /\ Rest = <<"stop", "join", "apply">>
  <2>1. mrTodo' = <<"stop", "join", "apply">>
    BY <1>0, <1>11 DEF Wrote
  <2>2. mrTodo' \in ApplyPlans /\ mrTodo' # <<>> /\ Head(mrTodo') = "stop"
    BY <2>1 DEF ApplyPlans
  <2>3. TodoFits' /\ TokenInHand' /\ ServerIsDown'
    BY <2>2, Plans DEF TodoFits, TokenInHand, ServerIsDown, Step
  <2>4. ServerReadsFile'
    <3>1. mrFile'["token"] = mrFile["token"]
      BY <1>4, <1>6, <1>11
    <3> QED
      BY <1>0, <1>1, <3>1 DEF ServerReadsFile
  <2>5. SettingsFollow'
    <3>1. mrPromised'["settings"] = {mrArg} /\ mrArg' = mrArg
      BY <1>0, <1>7, <1>11
    <3>2. Loaded(mrArg) = mrArg
      BY <1>1, RuntimeAssumption DEF Loaded
    <3>3. mrArg \in {Loaded(x) : x \in {mrArg}}
      BY <3>2
    <3> QED
      BY <2>2, <3>1, <3>3 DEF SettingsFollow, Loaded
  <2> QED
    BY <1>0, <1>1, <1>6, <1>7, <1>8, <1>9, <1>10, <2>3, <2>4, <2>5, WriteStep
<1>12. CASE /\ Head(mrTodo) \in {"create", "regenerate"} /\ Target = "token" /\ Value = mrTokens
            /\ Rest \in Seq(OtherSteps) /\ Chained(Rest) /\ mrServer.token = 0
            /\ Rest # <<>> => Head(Rest) = "bind"
  <2>1. /\ mrTodo' \in Seq(OtherSteps) /\ Chained(mrTodo')
        /\ mrTodo' # <<>> => Head(mrTodo') \in {"bind", "disabled"}
        /\ mrTodo' # <<>> => mrToken' = Value
    <3>1. CASE Head(mrTodo) = "create"
      BY <1>0, <1>12, <3>1 DEF Wrote
    <3>2. CASE Head(mrTodo) = "regenerate"
      <4>1. mrToken' = Value /\ mrTodo' \in {<<"bind">>, <<"disabled">>}
        BY <1>0, <3>2 DEF Wrote
      <4>2. mrTodo' \in FreshPlans /\ Head(mrTodo') \in {"bind", "disabled"}
        BY <4>1 DEF FreshPlans
      <4> QED
        BY <4>1, <4>2, Plans
    <3> QED
      BY <1>12, <3>1, <3>2
  <2>2. TodoFits' /\ mrTodo' \notin ApplyPlans
    BY <2>1, PlansApart DEF TodoFits
  <2>3. Value \in Nat \ {0} /\ mrFile'["token"].seen = Value
    BY <1>0, <1>1, <1>6, <1>12
  <2>4. TokenInHand'
    BY <2>1, <2>3 DEF TokenInHand, Step
  <2>5. ServerIsDown' /\ ServerReadsFile'
    BY <1>0, <1>12 DEF ServerIsDown, ServerReadsFile
  <2>6. mrPromised'["settings"] = mrPromised["settings"]
    BY <1>4, <1>7, <1>12
  <2>7. SettingsFollow'
    BY <1>0, <1>1, <1>2, <2>2, <2>6 DEF SettingsFollow, Loaded
  <2> QED
    BY <1>0, <1>1, <1>6, <1>7, <1>8, <1>9, <1>10, <2>2, <2>4, <2>5, <2>7, WriteStep
<1> QED
  BY <1>0, <1>11, <1>12, WhatIsWritten

\* A write that fails leaves the disk as it is and ends what depended on it.
LEMMA WriteFailsKeeps ==
    ASSUME RuntimeInv, WriteFails
    PROVE  RuntimeInv'
<1>0. /\ Writing /\ mrTemp' = "none"
      /\ UNCHANGED <<mrFile, mrPromised, mrTokens, mrSettings, mrServer, mrClosing, mrAdmitted>>
  BY DEF WriteFails
<1>1. /\ mrTokens' \in Nat \ {0} /\ mrArg \in MrSettings
      /\ mrFile' \in [Files -> [seen : Values, safe : Values]] /\ mrPromised' \in [Files -> SUBSET Values]
      /\ mrPromised["settings"]' \subseteq SettingsValues /\ mrPromised["token"]' \subseteq TokenValues
      /\ AnswersLast' /\ ServerReadsFile' /\ WriteFits'
  BY <1>0 DEF RuntimeInv, RuntimeTypes, AnswersLast, ServerReadsFile, WriteFits
<1>2. Head(mrTodo) \in {"save", "create", "regenerate"} /\ mrTodo \notin ApplyPlans
  BY <1>0, WhatIsWritten DEF Writing, Writes
<1>3. mrArg' \in MrSettings
  <2>1. CASE Head(mrTodo) = "save"
    BY <2>1, RuntimeAssumption DEF WriteFails, Forget
  <2>2. CASE Head(mrTodo) # "save"
    BY <1>1, <1>2, <2>2 DEF WriteFails
  <2> QED
    BY <2>1, <2>2
<1>4. /\ mrTodo' \in Seq(OtherSteps) /\ Chained(mrTodo')
      /\ mrTodo' # <<>> => Head(mrTodo') \in {"refresh", "compare", "load", "stop"}
  <2>1. CASE mrTodo' = <<>>
    <3>1. <<>> \in FreshPlans
      BY DEF FreshPlans
    <3> QED
      BY <2>1, <3>1, Plans
  <2>2. CASE mrTodo' # <<>>
    <3>1. Head(mrTodo) = "create"
      BY <1>2, <2>2 DEF WriteFails
    <3>2. NoToken
      BY <3>1 DEF WriteFails
    <3>3. Rest # <<>> /\ Head(Rest) = "bind" /\ mrTodo' = Tail(Rest)
      BY <2>2, <3>2 DEF NoToken
    <3>4. Rest \in Seq(OtherSteps) /\ Chained(Rest)
      BY <1>0, <3>1, WhatIsWritten
    <3>5. /\ Tail(Rest) \in Seq(OtherSteps) /\ Chained(Tail(Rest))
          /\ Tail(Rest) # <<>> => <<"bind", Head(Tail(Rest))>> \in Chain
      BY <3>3, <3>4, ChainRest
    <3> QED
      BY <3>3, <3>5 DEF Chain
  <2> QED
    BY <2>1, <2>2
<1>5. /\ TodoFits' /\ mrTodo' \notin ApplyPlans
      /\ ~Step("bind")' /\ ~Step("regenerate")' /\ ~Step("join")' /\ ~Step("create")'
  BY <1>4, PlansApart DEF TodoFits, Step
<1>6. TokenInHand' /\ ServerIsDown'
  BY <1>5 DEF TokenInHand, ServerIsDown
<1>7. SettingsFollow'
  BY <1>0, <1>2, <1>5, SettingsKept
<1> QED
  BY <1>0, <1>1, <1>3, <1>5, <1>6, <1>7, WriteStep

\* The end of the server's task, and a request admitted while it runs.
LEMMA ServerTaskKeeps ==
    ASSUME RuntimeInv, ServerEnds \/ Admit
    PROVE  RuntimeInv'
<1>0. /\ UNCHANGED <<mrSettings, mrClosing, mrTodo, mrArg, mrToken, mrTemp, mrFile, mrPromised, mrTokens>>
      /\ mrServer'.token = mrServer.token /\ mrServer' \in [token : Nat, running : BOOLEAN]
      /\ mrAdmitted' \in BOOLEAN /\ (mrAdmitted' => mrAdmitted \/ mrServer.token # 0)
  <2>1. mrServer \in [token : Nat, running : BOOLEAN] /\ mrAdmitted \in BOOLEAN
    BY DEF RuntimeInv, RuntimeTypes
  <2>2. CASE ServerEnds
    BY <2>1, <2>2 DEF ServerEnds, mrDisk
  <2>3. CASE Admit
    BY <2>1, <2>3 DEF Admit, mrDisk
  <2> QED
    BY <2>2, <2>3
<1>1. TodoFits' /\ ClosingFits' /\ TokenInHand' /\ SettingsFollow' /\ AnswersLast'
  BY <1>0 DEF RuntimeInv, TodoFits, ClosingFits, TokenInHand, Step, SettingsFollow, Loaded, AnswersLast
<1>2. WriteFits'
  BY <1>0 DEF RuntimeInv, WriteFits, Writing, Writes, Value, Target
<1>3. ServerReadsFile' /\ ServerIsDown' /\ ClosedStaysClosed' /\ NoRequestWithoutServer'
  BY <1>0 DEF RuntimeInv, ServerReadsFile, ServerIsDown, ClosedStaysClosed, NoRequestWithoutServer, Step
<1>4. RuntimeTypes'
  BY <1>0 DEF RuntimeInv, RuntimeTypes
<1> QED
  BY <1>1, <1>2, <1>3, <1>4 DEF RuntimeInv

\* A power failure leaves what is safe on the disk, which the next start reads.
LEMMA PowerFailsKeeps ==
    ASSUME RuntimeInv, PowerFails
    PROVE  RuntimeInv'
<1>0. /\ mrFile' = [f \in DOMAIN mrFile |-> [mrFile[f] EXCEPT !.seen = mrFile[f].safe]]
      /\ mrSettings' = Loaded(mrFile["settings"].safe) /\ mrServer' = NoServer /\ mrClosing' = FALSE
      /\ mrTodo' = <<>> /\ mrTemp' = "none" /\ mrAdmitted' = FALSE /\ mrArg' = MrDefault
      /\ UNCHANGED <<mrPromised, mrTokens>>
  BY DEF PowerFails, Forget
<1>1. /\ mrFile \in [Files -> [seen : Values, safe : Values]] /\ mrPromised \in [Files -> SUBSET Values]
      /\ mrTokens \in Nat \ {0}
      /\ mrPromised["settings"] \subseteq SettingsValues /\ mrPromised["token"] \subseteq TokenValues
      /\ AnswersLast
  BY DEF RuntimeInv, RuntimeTypes
<1>2. "settings" \in Files /\ "token" \in Files
  BY DEF Files
<1>3. mrFile["settings"].safe \in mrPromised["settings"] /\ mrFile["settings"].safe \in SettingsValues
  BY <1>2, FoundToken
<1>4. mrFile' \in [Files -> [seen : Values, safe : Values]]
      /\ \A f \in Files : mrFile'[f].seen = mrFile[f].safe /\ mrFile'[f].safe = mrFile[f].safe
  BY <1>0, <1>1
<1>5. mrSettings' \in MrSettings /\ mrArg' \in MrSettings
  BY <1>0, <1>3, RuntimeAssumption DEF Loaded, SettingsValues
<1>6. mrServer' \in [token : Nat, running : BOOLEAN] /\ mrServer'.token = 0
  BY <1>0 DEF NoServer
<1>7. RuntimeTypes'
  BY <1>0, <1>1, <1>4, <1>5, <1>6 DEF RuntimeTypes
<1>8. AnswersLast'
  <2> SUFFICES ASSUME NEW f \in Files PROVE {mrFile'[f].seen, mrFile'[f].safe} \subseteq mrPromised'[f]
    BY <1>4 DEF AnswersLast
  <2> QED
    BY <1>0, <1>1, <1>4 DEF AnswersLast
<1>9. <<>> \in FreshPlans /\ mrTodo' = <<>>
  BY <1>0 DEF FreshPlans
<1>10. TodoFits' /\ ClosingFits' /\ mrTodo' \notin ApplyPlans
  BY <1>0, <1>9, FreshFits
<1>11. /\ WriteFits' /\ ServerReadsFile' /\ TokenInHand' /\ ServerIsDown' /\ ClosedStaysClosed'
       /\ NoRequestWithoutServer'
  BY <1>0, <1>6
     DEF WriteFits, ServerReadsFile, TokenInHand, ServerIsDown, ClosedStaysClosed, NoRequestWithoutServer, Step
<1>12. SettingsFollow'
  <2>1. Loaded(mrFile["settings"].safe) \in {Loaded(x) : x \in mrPromised["settings"]}
    BY <1>3
  <2> QED
    BY <1>0, <1>10, <2>1 DEF SettingsFollow, Loaded
<1> QED
  BY <1>7, <1>8, <1>10, <1>11, <1>12 DEF RuntimeInv

\* The first start finds the files in order or not, and promises what it finds.
LEMMA RuntimeStarts ==
    ASSUME MrInit
    PROVE  RuntimeInv
<1>1. PICK s \in MrSettings \cup {Missing, Corrupt}, t \in {1, Missing, Corrupt} :
          mrFile = [f \in {"settings", "token"} |->
                       IF f = "settings" THEN [seen |-> s, safe |-> s] ELSE [seen |-> t, safe |-> t]]
  BY DEF MrInit
<1>2. s \in SettingsValues /\ t \in TokenValues /\ s \in Values /\ t \in Values
  BY DEF SettingsValues, TokenValues, Values
<1>3. /\ mrFile["settings"] = [seen |-> s, safe |-> s] /\ mrFile["token"] = [seen |-> t, safe |-> t]
      /\ DOMAIN mrFile = Files
  BY <1>1 DEF Files
<1>4. mrFile \in [Files -> [seen : Values, safe : Values]]
  <2>1. [seen |-> s, safe |-> s] \in [seen : Values, safe : Values] /\ [seen |-> t, safe |-> t] \in [seen : Values, safe : Values]
    BY <1>2
  <2> QED
    BY <1>1, <2>1 DEF Files
<1>5. mrPromised = [f \in Files |-> {mrFile[f].seen}]
  BY <1>3 DEF MrInit
<1>6. /\ mrPromised["settings"] = {s} /\ mrPromised["token"] = {t}
      /\ mrPromised \in [Files -> SUBSET Values]
  <2>1. "settings" \in Files /\ "token" \in Files
    BY DEF Files
  <2>2. \A f \in Files : mrFile[f].seen \in Values
    BY <1>4
  <2> QED
    BY <1>3, <1>5, <2>1, <2>2
<1>7. mrSettings = Loaded(s) /\ mrSettings \in MrSettings
  <2>1. mrSettings = Loaded(s)
    BY <1>3 DEF MrInit, Boot
  <2> QED
    BY <2>1, RuntimeAssumption DEF Loaded
<1>8. NoServer \in [token : Nat, running : BOOLEAN] /\ NoServer.token = 0
  BY DEF NoServer
<1>9. /\ mrServer = NoServer /\ mrClosing = FALSE /\ mrTodo = <<>> /\ mrArg = MrDefault
      /\ mrTemp = "none" /\ mrAdmitted = FALSE /\ mrTokens = 1
  BY DEF MrInit
<1>10. RuntimeTypes
  <2>1. mrArg \in MrSettings /\ mrServer \in [token : Nat, running : BOOLEAN]
    BY <1>8, <1>9, RuntimeAssumption
  <2>2. /\ mrClosing \in BOOLEAN /\ mrAdmitted \in BOOLEAN
        /\ mrTemp \in {"none", "written", "synced", "renamed"}
    BY <1>9, Zenon
  <2>4. mrTokens \in Nat \ {0}
    BY <1>9
  <2>3. mrPromised["settings"] \subseteq SettingsValues /\ mrPromised["token"] \subseteq TokenValues
    BY <1>2, <1>6
  <2> QED
    BY <1>4, <1>6, <1>7, <2>1, <2>2, <2>3, <2>4 DEF RuntimeTypes
<1>11. AnswersLast
  <2> SUFFICES ASSUME NEW f \in Files PROVE {mrFile[f].seen, mrFile[f].safe} \subseteq mrPromised[f]
    BY <1>3 DEF AnswersLast
  <2>1. mrFile[f].seen = mrFile[f].safe
    BY <1>3 DEF Files
  <2> QED
    BY <1>5, <2>1
<1>12. /\ WriteFits /\ ServerReadsFile /\ TokenInHand /\ ServerIsDown /\ ClosedStaysClosed
       /\ NoRequestWithoutServer /\ ClosingFits
  BY <1>8, <1>9
     DEF WriteFits, ServerReadsFile, TokenInHand, ServerIsDown, ClosedStaysClosed, NoRequestWithoutServer,
         ClosingFits, Step
<1>13. TodoFits /\ mrTodo \notin ApplyPlans
  <2>1. mrTodo \in FreshPlans
    BY <1>9 DEF FreshPlans
  <2>2. mrTodo \in Seq(OtherSteps) /\ Chained(mrTodo)
    BY <2>1, Plans
  <2> QED
    BY <2>2, PlansApart DEF TodoFits
<1>14. SettingsFollow
  BY <1>6, <1>7, <1>13 DEF SettingsFollow
<1> QED
  BY <1>10, <1>11, <1>12, <1>13, <1>14 DEF RuntimeInv

-----------------------------------------------------------------------------
(* McpRuntime: the theorems.                                               *)

\* The inductive invariant holds in every state of the runtime, whatever fails.
THEOREM RuntimeInvariance == MrSpec => []RuntimeInv
<1>1. MrInit => RuntimeInv
  BY RuntimeStarts
<1>2. RuntimeInv /\ [MrNext]_mrVars => RuntimeInv'
  <2> SUFFICES ASSUME RuntimeInv, [MrNext]_mrVars PROVE RuntimeInv'
    OBVIOUS
  <2>1. CASE UNCHANGED mrVars
    <3>1. UNCHANGED <<mrSettings, mrServer, mrClosing, mrAdmitted, mrTodo, mrArg, mrToken, mrTemp, mrFile,
                      mrPromised, mrTokens>>
      BY <2>1 DEF mrVars, mrControl, mrDisk
    <3>2. RuntimeTypes' /\ TodoFits' /\ ClosingFits' /\ AnswersLast'
      BY <3>1 DEF RuntimeInv, RuntimeTypes, TodoFits, ClosingFits, AnswersLast
    <3>3. WriteFits' /\ SettingsFollow' /\ TokenInHand'
      BY <3>1 DEF RuntimeInv, WriteFits, Writing, Writes, Value, Target, SettingsFollow, Loaded, TokenInHand, Step
    <3>4. ServerReadsFile' /\ ServerIsDown' /\ ClosedStaysClosed' /\ NoRequestWithoutServer'
      BY <3>1 DEF RuntimeInv, ServerReadsFile, ServerIsDown, ClosedStaysClosed, NoRequestWithoutServer, Step
    <3> QED
      BY <3>2, <3>3, <3>4 DEF RuntimeInv
  <2>2. CASE Command
    BY <2>2, CommandKeeps
  <2>3. CASE InitializeLocked \/ Refresh \/ Compare \/ Stop \/ Join \/ Apply \/ Disabled
    BY <2>3, StepsKeep
  <2>4. CASE Load \/ Bind
    BY <2>4, StartKeeps
  <2>5. CASE WriteOpen \/ WriteSync \/ WriteRename
    BY <2>5, WritesKeep
  <2>6. CASE WriteDone
    BY <2>6, WriteDoneKeeps
  <2>7. CASE WriteFails
    BY <2>7, WriteFailsKeeps
  <2>8. CASE ServerEnds \/ Admit
    BY <2>8, ServerTaskKeeps
  <2>9. CASE PowerFails
    BY <2>9, PowerFailsKeeps
  <2> QED
    BY <2>1, <2>2, <2>3, <2>4, <2>5, <2>6, <2>7, <2>8, <2>9 DEF MrNext, CommandStep
<1> QED
  BY <1>1, <1>2, PTL DEF MrSpec

\* Answered saves and tokens outlast every failure, replaced tokens are dead, a
\* shut down runtime starts no server and no request outlives its server.
THEOREM WordIsKept == MrSpec => []RuntimeKeepsItsWord
<1>1. RuntimeInv => RuntimeKeepsItsWord
  <2> SUFFICES ASSUME RuntimeInv PROVE RuntimeKeepsItsWord
    OBVIOUS
  <2>1. AnswersLast /\ ClosedStaysClosed /\ NoRequestWithoutServer
    BY DEF RuntimeInv
  <2>2. ReplacedTokenIsDead
    <3>1. "token" \in Files
      BY DEF Files
    <3>2. mrFile["token"].seen \in mrPromised["token"]
      BY <3>1, FoundToken
    <3> QED
      BY <3>2 DEF RuntimeInv, ServerReadsFile, ReplacedTokenIsDead
  <2>3. SettingsAreStored
    <3>1. mrTodo = <<>> => mrTodo \notin ApplyPlans
      BY DEF ApplyPlans
    <3> QED
      BY <3>1 DEF RuntimeInv, SettingsFollow, SettingsAreStored
  <2> QED
    BY <2>1, <2>2, <2>3 DEF RuntimeKeepsItsWord
<1> QED
  BY <1>1, RuntimeInvariance, PTL
=============================================================================
