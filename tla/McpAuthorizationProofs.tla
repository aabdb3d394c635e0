----------------------- MODULE McpAuthorizationProofs -----------------------
(***************************************************************************)
(* Proofs about how an MCP write is allowed, for every set of requests,    *)
(* settings, token changes and scene values, every first mode and every    *)
(* number of disturbances and dialogs.                                     *)
(***************************************************************************)
EXTENDS McpAuthorization, TLAPS

-----------------------------------------------------------------------------
(* The inductive invariant.                                                *)

\* No revision is ahead of the counter.
RevisionsKnown ==
    /\ cleared <= revision
    /\ \A r \in Revokers : revoker[r].mine <= revision

\* A lease that is being taken is no older than the last revocation that went
\* through the list, because the list is locked; one that was taken is in the
\* list or was cancelled; a request that has not begun or is over has none.
LeaseFits(listed, q, f) ==
    /\ f.lease.rev <= revision
    /\ f.at = "leasing" => f.lease.rev >= cleared
    /\ f.at # "leasing" /\ f.lease.rev # 0 => q \in listed \/ f.lease.cancelled
    /\ f.at \in {"none", "refused", "done"} => f.lease.rev = 0
    /\ f.lease.rev \in 1..cleared - 1 => f.lease.cancelled

\* What the user approved (decision d) is the review the request holds until it
\* is permitted, and then its permit.
ApprovalFits(f, d) ==
    /\ f.at = "waiting" /\ d = "approved" => f.approval = f.review
    /\ f.at = "again" => f.approval = f.review
    /\ /\ f.at \in {"queued", "queue", "ready", "running"}
       /\ f.forced \/ f.permit.policy.mode = "confirm" \/ f.dangerous
       => f.approval = f.permit

\* A set_write_settings has written the policy and not yet moved the revision.
SettingsBetween == \E r \in Settings : revoker[r].at = "bump"

\* A permit of a current lease is of the current policy, up to such a change.
PermitFits(f) ==
    f.at \in {"queued", "queue", "ready"} /\ f.lease.rev = revision =>
        f.permit.policy = policy \/ SettingsBetween

\* The three for every request.
FutureFits(listed, q, f, d) == LeaseFits(listed, q, f) /\ ApprovalFits(f, d) /\ PermitFits(f)

FuturesFit == \A q \in Requests : FutureFits(leases, q, request[q], decision[q])

AuthorizationInv == TypeOK /\ RevisionsKnown /\ FuturesFit /\ ShownIsAwaited

-----------------------------------------------------------------------------
(* Types.                                                                  *)

\* Where a request can stand, and the types of its future's parts.
Places == {"none", "leasing", "leased", "first", "confirm", "insert", "waiting", "again",
           "queued", "queue", "ready", "running", "refused", "done"}
Leases == [rev : Nat, cancelled : BOOLEAN, over : BOOLEAN]
Snaps == [policy : Policies, gen : Nat]
Futures ==
    [at : Places, dangerous : BOOLEAN, lease : Leases, snap : Snaps, review : Reviews,
     forced : BOOLEAN, permit : Reviews, confirmed : BOOLEAN, approval : Reviews]
Decisions == {"none", "open", "approved", "rejected", "dropped"}

\* A new future is one, and holds no lease.
LEMMA FutureType ==
    ASSUME NEW at \in Places
    PROVE  /\ Future(at) \in Futures
           /\ Future(at).at = at /\ Future(at).lease.rev = 0
<1>1. NoPolicy \in Policies
  BY DEF NoPolicy, Policies, Modes
<1>2. NoReview \in Reviews
  BY <1>1 DEF NoReview, Reviews
<1>3. NoLease \in Leases /\ NoLease.rev = 0
  BY DEF NoLease, Leases
<1>4. [policy |-> NoPolicy, gen |-> 0] \in Snaps
  BY <1>1 DEF Snaps
<1> QED
  BY <1>2, <1>3, <1>4 DEF Future, Futures

\* The empty snapshot and the empty review have their types.
LEMMA Empties ==
    Future("").snap \in Snaps /\ NoReview \in Reviews
<1>1. NoPolicy \in Policies
  BY DEF NoPolicy, Policies, Modes
<1>2. NoReview \in Reviews
  BY <1>1 DEF NoReview, Reviews
<1>3. [policy |-> NoPolicy, gen |-> 0] \in Snaps
  BY <1>1 DEF Snaps
<1> QED
  BY <1>2, <1>3 DEF Future

\* The parts of a future.
LEMMA FieldTypes ==
    ASSUME NEW f \in Futures
    PROVE  /\ f.at \in Places /\ f.dangerous \in BOOLEAN /\ f.lease \in Leases /\ f.snap \in Snaps
           /\ f.review \in Reviews /\ f.forced \in BOOLEAN /\ f.permit \in Reviews
           /\ f.confirmed \in BOOLEAN /\ f.approval \in Reviews
           /\ f.lease.rev \in Nat /\ f.lease.cancelled \in BOOLEAN /\ f.lease.over \in BOOLEAN
  BY DEF Futures, Leases

\* What TypeOK says of the requests.
LEMMA RequestType ==
    ASSUME TypeOK
    PROVE  request \in [Requests -> Futures] /\ decision \in [Requests -> Decisions]
  BY DEF TypeOK, Futures, Places, Leases, Snaps, Decisions

-----------------------------------------------------------------------------
(* Steps of one request.                                                   *)

\* A step that changes one future keeps the invariant when the new future fits.
LEMMA OneRequest ==
    ASSUME AuthorizationInv, NEW q \in Requests, NEW f \in Futures, NEW d \in Decisions,
           request' = [request EXCEPT ![q] = f], decision' = [decision EXCEPT ![q] = d],
           UNCHANGED <<token, tokenLock, revision, policy, revoker, cleared, session, lastGen>>,
           leases \subseteq leases', leases' \in SUBSET Requests,
           unseen' \in BOOLEAN, observed' \in Nat, item' \in Requests \cup {Nobody},
           pending' \in SUBSET Requests, ids' \in Nat,
           \A p \in Requests \ {q} : p \in pending' => p \in pending,
           q \in pending' => f.at = "waiting" /\ d = "open",
           FutureFits(leases', q, f, d)
    PROVE  AuthorizationInv'
<1>1. /\ TypeOK /\ RevisionsKnown /\ FuturesFit /\ ShownIsAwaited
      /\ request \in [Requests -> Futures] /\ decision \in [Requests -> Decisions]
  BY RequestType DEF AuthorizationInv
<1>2. /\ request' \in [Requests -> Futures] /\ decision' \in [Requests -> Decisions]
      /\ request'[q] = f /\ decision'[q] = d
      /\ \A p \in Requests \ {q} : request'[p] = request[p] /\ decision'[p] = decision[p]
  BY <1>1
<1>3. TypeOK'
  BY <1>1, <1>2 DEF TypeOK, Futures, Places, Leases, Snaps, Decisions
<1>4. RevisionsKnown'
  BY <1>1 DEF RevisionsKnown
<1>5. SettingsBetween' <=> SettingsBetween
  BY DEF SettingsBetween
<1>6. FuturesFit'
  <2> SUFFICES ASSUME NEW p \in Requests PROVE FutureFits(leases, p, request[p], decision[p])'
    BY DEF FuturesFit
  <2>1. FutureFits(leases', p, request'[p], decision'[p])
    <3>1. CASE p = q
      BY <1>2, <3>1
    <3>2. CASE p # q
      <4>1. FutureFits(leases, p, request'[p], decision'[p])
        BY <1>1, <1>2, <3>2 DEF FuturesFit
      <4> QED
        BY <4>1 DEF FutureFits, LeaseFits
    <3> QED
      BY <3>1, <3>2
  <2> QED
    BY <1>5, <2>1 DEF FutureFits, LeaseFits, ApprovalFits, PermitFits
<1>7. ShownIsAwaited'
  BY <1>1, <1>2 DEF ShownIsAwaited, TypeOK
<1> QED
  BY <1>3, <1>4, <1>6, <1>7 DEF AuthorizationInv

\* A future that is over fits, whatever was decided.
LEMMA OverFits ==
    ASSUME AuthorizationInv, NEW q \in Requests, NEW at \in {"refused", "done"}, NEW d, NEW listed
    PROVE  Future(at) \in Futures /\ Future(at).at = at /\ FutureFits(listed, q, Future(at), d)
<1>1. Future(at) \in Futures /\ Future(at).at = at /\ Future(at).lease.rev = 0
  BY FutureType DEF Places
<1>2. revision \in Nat /\ cleared \in Nat
  BY DEF AuthorizationInv, TypeOK
<1> QED
  BY <1>1, <1>2 DEF FutureFits, LeaseFits, ApprovalFits, PermitFits

\* A request that is not waiting for the user takes a step of its own.
LEMMA RequestMoves ==
    ASSUME AuthorizationInv, NEW q \in Requests, NEW f \in Futures,
           request[q].at # "waiting" \/ q \notin pending,
           request' = [request EXCEPT ![q] = f],
           UNCHANGED <<tokenVars, revoker, cleared, brokerVars, worldVars>>,
           unseen' \in BOOLEAN, observed' \in Nat, item' \in Requests \cup {Nobody},
           FutureFits(leases, q, f, decision[q])
    PROVE  AuthorizationInv'
<1>1. /\ decision[q] \in Decisions /\ decision' = [decision EXCEPT ![q] = decision[q]]
      /\ q \notin pending /\ pending \in SUBSET Requests /\ leases \in SUBSET Requests /\ ids \in Nat
  BY DEF AuthorizationInv, TypeOK, ShownIsAwaited, Decisions, brokerVars
<1>2. /\ UNCHANGED <<token, tokenLock, revision, leases, policy, revoker, cleared, session, lastGen>>
      /\ UNCHANGED <<pending, ids>>
  BY DEF tokenVars, worldVars, brokerVars
<1> QED
  BY <1>1, <1>2, OneRequest

\* ... or ends.
LEMMA RequestEnds ==
    ASSUME AuthorizationInv, NEW q \in Requests, NEW at \in {"refused", "done"},
           request[q].at # "waiting" \/ q \notin pending,
           request' = [request EXCEPT ![q] = Future(at)],
           UNCHANGED <<tokenVars, revoker, cleared, brokerVars, worldVars>>,
           unseen' \in BOOLEAN, observed' \in Nat, item' \in Requests \cup {Nobody}
    PROVE  AuthorizationInv'
<1>1. Future(at) \in Futures /\ FutureFits(leases, q, Future(at), decision[q])
  BY OverFits
<1> QED
  BY <1>1, RequestMoves

\* A future that goes on with its lease fits when what the user approved does.
LEMMA GoesOn ==
    ASSUME NEW q, NEW listed, NEW f \in Futures, NEW g \in Futures, NEW d, NEW e,
           FutureFits(listed, q, f, d), g.lease = f.lease,
           f.at \notin {"none", "leasing", "refused", "done"},
           g.at \notin {"none", "leasing", "refused", "done"},
           ApprovalFits(g, e),
           g.at \in {"queued", "queue", "ready"} =>
               \/ g.permit.policy = policy
               \/ f.at \in {"queued", "queue", "ready"} /\ g.permit = f.permit
    PROVE  FutureFits(listed, q, g, e)
  BY DEF FutureFits, LeaseFits, PermitFits

-----------------------------------------------------------------------------
(* The parts of a request's step.                                          *)

\* The review that ends is a review.
LEMMA ReviewType ==
    ASSUME TypeOK, NEW q \in Requests, NEW v \in SceneValues
    PROVE  NewReview(q, v) \in Reviews /\ NewReview(q, v).policy = request[q].snap.policy
<1>1. request[q].snap \in Snaps
  BY RequestType, FieldTypes
<1> QED
  BY <1>1 DEF NewReview, Reviews, Snaps

\* resolve_authorization_review begins: the future moves on or is refused.
LEMMA ResolveMoves ==
    ASSUME TypeOK, NEW q \in Requests, NEW to \in Places, Resolve(q, to)
    PROVE  \/ request' = [request EXCEPT ![q] = Future("refused")]
           \/ \E f \in Futures :
                 /\ request' = [request EXCEPT ![q] = f]
                 /\ f.at = to /\ f.lease = request[q].lease /\ f.review = request[q].review
                 /\ f.permit = request[q].permit /\ f.approval = request[q].approval
                 /\ f.forced = request[q].forced /\ f.dangerous = request[q].dangerous
<1>1. CASE Preflight(q, policy) /\ session # 0
  <2> DEFINE s == [policy |-> policy, gen |-> session]
             f == [request[q] EXCEPT !.at = to, !.snap = s]
  <2>1. s \in Snaps /\ request[q] \in Futures
    BY RequestType DEF TypeOK, Snaps
  <2>2. request' = [request EXCEPT ![q] = f]
    BY <1>1 DEF Resolve
  <2> HIDE DEF s
  <2>3. f \in Futures
    BY <2>1 DEF Futures
  <2>4. /\ f.at = to /\ f.lease = request[q].lease /\ f.review = request[q].review
        /\ f.permit = request[q].permit /\ f.approval = request[q].approval
        /\ f.forced = request[q].forced /\ f.dangerous = request[q].dangerous
    BY <2>1 DEF Futures
  <2> QED
    BY <2>2, <2>3, <2>4
<1>2. CASE ~(Preflight(q, policy) /\ session # 0)
  BY <1>2 DEF Resolve, Refuse
<1> QED
  BY <1>1, <1>2

\* A permit is issued for the current policy, or the request is refused.
LEMMA IssueMoves ==
    ASSUME TypeOK, NEW q \in Requests, NEW r \in Reviews, NEW confirmed \in BOOLEAN, Issue(q, r, confirmed)
    PROVE  \/ request' = [request EXCEPT ![q] = Future("refused")]
           \/ /\ r.policy = policy
              /\ \E f \in Futures :
                    /\ request' = [request EXCEPT ![q] = f]
                    /\ f.at = "queued" /\ f.permit = r
                    /\ f.lease = request[q].lease /\ f.approval = request[q].approval
                    /\ f.forced = request[q].forced /\ f.dangerous = request[q].dangerous
<1>1. CASE MayIssue(q, r.policy, confirmed) /\ ValidatePermit(q, r, confirmed, r.gen)
  <2> DEFINE f == [request[q] EXCEPT !.at = "queued", !.permit = r, !.confirmed = confirmed,
                                     !.snap = Future("").snap, !.review = NoReview]
  <2>1. request[q] \in Futures /\ "queued" \in Places
    BY RequestType DEF Places
  <2>2. request' = [request EXCEPT ![q] = f] /\ r.policy = policy
    BY <1>1 DEF Issue, MayIssue, Preflight
  <2>3. f \in Futures
    BY <2>1, Empties DEF Futures
  <2>4. /\ f.at = "queued" /\ f.permit = r
        /\ f.lease = request[q].lease /\ f.approval = request[q].approval
        /\ f.forced = request[q].forced /\ f.dangerous = request[q].dangerous
    BY <2>1 DEF Futures
  <2> QED
    BY <2>2, <2>3, <2>4
<1>2. CASE ~(MayIssue(q, r.policy, confirmed) /\ ValidatePermit(q, r, confirmed, r.gen))
  BY <1>2 DEF Issue, Refuse
<1> QED
  BY <1>1, <1>2

\* The review is shown to the user.
LEMMA AskMoves ==
    ASSUME TypeOK, NEW q \in Requests, NEW r \in Reviews, AskUser(q, r)
    PROVE  \E f \in Futures : /\ request' = [request EXCEPT ![q] = f]
                              /\ f.at = "confirm" /\ f.lease = request[q].lease
<1> DEFINE f == [request[q] EXCEPT !.at = "confirm", !.review = r, !.snap = Future("").snap]
<1>1. request[q] \in Futures /\ "confirm" \in Places
  BY RequestType DEF Places
<1>2. request' = [request EXCEPT ![q] = f]
  BY DEF AskUser
<1>3. f \in Futures
  BY <1>1, Empties DEF Futures
<1>4. f.at = "confirm" /\ f.lease = request[q].lease
  BY <1>1 DEF Futures
<1> QED
  BY <1>2, <1>3, <1>4

-----------------------------------------------------------------------------
(* Every step.                                                             *)

\* Every step of a request keeps the invariant.
LEMMA RequestSteps ==
    ASSUME AuthorizationInv, NEW q \in Requests,
           \/ \E danger \in BOOLEAN : LeaseBegin(q, danger)
           \/ LeaseOver(q) \/ RequestStep(q)
           \/ \E yes \in BOOLEAN : Decide(q, yes)
    PROVE  AuthorizationInv'
<1> USE DEF tokenVars, brokerVars, worldVars, actorVars
<1>0. /\ TypeOK /\ request \in [Requests -> Futures] /\ request[q] \in Futures
      /\ decision \in [Requests -> Decisions] /\ FutureFits(leases, q, request[q], decision[q])
      /\ ShownIsAwaited
  BY RequestType DEF AuthorizationInv, FuturesFit
<1>1. /\ unseen \in BOOLEAN /\ observed \in Nat /\ item \in Requests \cup {Nobody}
      /\ revision \in Nat /\ cleared \in Nat /\ cleared <= revision
      /\ pending \in SUBSET Requests /\ leases \in SUBSET Requests /\ ids \in Nat
      /\ request[q].lease.rev \in Nat /\ request[q].lease \in Leases
  BY <1>0, FieldTypes DEF TypeOK, AuthorizationInv, RevisionsKnown
<1>2. request[q].at = "none" => request[q].lease.rev = 0
  BY <1>0 DEF FutureFits, LeaseFits
<1>3. ASSUME NEW danger \in BOOLEAN, LeaseBegin(q, danger) PROVE AuthorizationInv'
  <2>1. CASE token
    <3> DEFINE l == [request[q].lease EXCEPT !.rev = revision]
               f == [request[q] EXCEPT !.at = "leasing", !.lease = l, !.dangerous = danger]
    <3>1. request' = [request EXCEPT ![q] = f]
      BY <1>0, <1>3, <2>1 DEF LeaseBegin, Futures
    <3>2. l \in Leases /\ l.rev = revision /\ "leasing" \in Places
      BY <1>1 DEF Leases, Places
    <3> HIDE DEF l
    <3>3. f \in Futures /\ f.at = "leasing" /\ f.lease = l
      BY <1>0, <3>2 DEF Futures
    <3> HIDE DEF f
    <3>4. FutureFits(leases, q, f, decision[q])
      BY <1>1, <3>2, <3>3 DEF FutureFits, LeaseFits, ApprovalFits, PermitFits
    <3> QED
      BY <1>1, <1>3, <3>1, <3>3, <3>4, RequestMoves DEF LeaseBegin
  <2>2. CASE ~token
    <3> DEFINE f == [request[q] EXCEPT !.at = "refused"]
    <3>1. request' = [request EXCEPT ![q] = f] /\ request[q].at = "none"
      BY <1>3, <2>2 DEF LeaseBegin
    <3>2. f \in Futures /\ f.at = "refused" /\ f.lease = request[q].lease
      BY <1>0 DEF Futures, Places
    <3> HIDE DEF f
    <3>3. FutureFits(leases, q, f, decision[q])
      BY <1>1, <1>2, <3>1, <3>2 DEF FutureFits, LeaseFits, ApprovalFits, PermitFits
    <3> QED
      BY <1>1, <1>3, <3>1, <3>2, <3>3, RequestMoves DEF LeaseBegin
  <2> QED
    BY <2>1, <2>2
<1>4. ASSUME LeaseOver(q) PROVE AuthorizationInv'
  <2> DEFINE l == [request[q].lease EXCEPT !.over = TRUE]
             f == [request[q] EXCEPT !.lease = l]
  <2>1. request' = [request EXCEPT ![q] = f] /\ request[q].at \notin {"none", "leasing", "refused", "done"}
    BY <1>0, <1>4 DEF LeaseOver, Futures
  <2>2. l \in Leases /\ l.rev = request[q].lease.rev /\ l.cancelled = request[q].lease.cancelled
    BY <1>1 DEF Leases
  <2> HIDE DEF l
  <2>3. /\ f \in Futures /\ f.at = request[q].at /\ f.lease = l
        /\ f.review = request[q].review /\ f.permit = request[q].permit /\ f.approval = request[q].approval
        /\ f.forced = request[q].forced /\ f.dangerous = request[q].dangerous
    BY <1>0, <2>2 DEF Futures
  <2> HIDE DEF f
  <2>4. FutureFits(leases, q, f, decision[q])
    BY <1>0, <2>2, <2>3 DEF FutureFits, LeaseFits, ApprovalFits, PermitFits
  <2>5. /\ decision[q] \in Decisions /\ decision' = [decision EXCEPT ![q] = decision[q]]
        /\ UNCHANGED <<tokenVars, revoker, cleared, worldVars, actorVars, pending, ids>>
    BY <1>0, <1>4 DEF LeaseOver
  <2>6. q \in pending => f.at = "waiting" /\ decision[q] = "open"
    BY <1>0, <2>3 DEF ShownIsAwaited
  <2> QED
    BY <1>1, <2>1, <2>3, <2>4, <2>5, <2>6, OneRequest
<1>5. ASSUME LeaseRegister(q) PROVE AuthorizationInv'
  <2>0. /\ decision[q] \in Decisions /\ decision' = [decision EXCEPT ![q] = decision[q]]
        /\ UNCHANGED <<token, tokenLock, revision, policy, revoker, cleared, worldVars, actorVars, pending, ids>>
        /\ request[q].at = "leasing" /\ q \notin pending
    BY <1>0, <1>5 DEF LeaseRegister, ShownIsAwaited
  <2>1. CASE request[q].lease.rev = revision
    <3> DEFINE f == [request[q] EXCEPT !.at = "leased"]
    <3>1. request' = [request EXCEPT ![q] = f] /\ leases' = leases \cup {q}
      BY <1>5, <2>1 DEF LeaseRegister
    <3>2. f \in Futures /\ f.at = "leased" /\ f.lease = request[q].lease
      BY <1>0 DEF Futures, Places
    <3> HIDE DEF f
    <3>3. FutureFits(leases', q, f, decision[q])
      BY <1>0, <1>1, <2>1, <3>1, <3>2 DEF FutureFits, LeaseFits, ApprovalFits, PermitFits
    <3> QED
      BY <1>1, <2>0, <3>1, <3>2, <3>3, OneRequest
  <2>2. CASE request[q].lease.rev # revision
    <3> DEFINE l == [request[q].lease EXCEPT !.cancelled = TRUE]
               f == [request[q] EXCEPT !.at = "leased", !.lease = l]
    <3>1. request' = [request EXCEPT ![q] = f] /\ leases' = leases
      BY <1>0, <1>5, <2>2 DEF LeaseRegister, Futures
    <3>2. l \in Leases /\ l.rev = request[q].lease.rev /\ l.cancelled
      BY <1>1 DEF Leases
    <3> HIDE DEF l
    <3>3. f \in Futures /\ f.at = "leased" /\ f.lease = l
      BY <1>0, <3>2 DEF Futures, Places
    <3> HIDE DEF f
    <3>4. FutureFits(leases', q, f, decision[q])
      BY <1>0, <1>1, <3>1, <3>2, <3>3 DEF FutureFits, LeaseFits, ApprovalFits, PermitFits
    <3> QED
      BY <1>1, <2>0, <3>1, <3>3, <3>4, OneRequest
  <2> QED
    BY <2>1, <2>2
<1>6. ASSUME FirstReview(q) PROVE AuthorizationInv'
  <2>1. request[q].at = "leased" /\ Resolve(q, "first") /\ "first" \in Places
    BY <1>6 DEF FirstReview, At, Places
  <2>2. CASE request' = [request EXCEPT ![q] = Future("refused")]
    BY <1>1, <1>6, <2>1, <2>2, RequestEnds DEF FirstReview
  <2>3. ASSUME NEW f \in Futures, request' = [request EXCEPT ![q] = f], f.at = "first", f.lease = request[q].lease
        PROVE  AuthorizationInv'
    <3>1. FutureFits(leases, q, f, decision[q])
      <4>1. ApprovalFits(f, decision[q])
        BY <2>3 DEF ApprovalFits
      <4> QED
        BY <1>0, <2>1, <2>3, <4>1, GoesOn
    <3> QED
      BY <1>1, <1>6, <2>1, <2>3, <3>1, RequestMoves DEF FirstReview
  <2> QED
    BY <1>0, <2>1, <2>2, <2>3, ResolveMoves
<1>7. ASSUME ReviewFails(q) PROVE AuthorizationInv'
  BY <1>1, <1>7, RequestEnds DEF ReviewFails, Refuse, At
<1>8. ASSUME NEW r \in Reviews, AskUser(q, r), request[q].at \in {"first", "again"},
             UNCHANGED <<tokenVars, revoker, cleared, brokerVars, worldVars, actorVars>>
      PROVE  AuthorizationInv'
  <2>1. PICK f \in Futures : /\ request' = [request EXCEPT ![q] = f]
                             /\ f.at = "confirm" /\ f.lease = request[q].lease
    BY <1>0, <1>8, AskMoves
  <2>2. FutureFits(leases, q, f, decision[q])
    <3>1. ApprovalFits(f, decision[q])
      BY <2>1 DEF ApprovalFits
    <3> QED
      BY <1>0, <1>8, <2>1, <3>1, GoesOn
  <2> QED
    BY <1>1, <1>8, <2>1, <2>2, RequestMoves
<1>9. ASSUME NEW r \in Reviews, NEW confirmed \in BOOLEAN, Issue(q, r, confirmed), request[q].at \in {"first", "again"},
             NeedsConfirmation(q, r) => request[q].approval = r,
             UNCHANGED <<tokenVars, revoker, cleared, brokerVars, worldVars, actorVars>>
      PROVE  AuthorizationInv'
  <2>1. CASE request' = [request EXCEPT ![q] = Future("refused")]
    BY <1>1, <1>9, <2>1, RequestEnds
  <2>2. ASSUME r.policy = policy, NEW f \in Futures, request' = [request EXCEPT ![q] = f], f.at = "queued",
               f.permit = r, f.lease = request[q].lease, f.approval = request[q].approval,
               f.forced = request[q].forced, f.dangerous = request[q].dangerous
        PROVE  AuthorizationInv'
    <3>1. ApprovalFits(f, decision[q])
      BY <1>9, <2>2 DEF ApprovalFits, NeedsConfirmation
    <3>2. FutureFits(leases, q, f, decision[q])
      BY <1>0, <1>9, <2>2, <3>1, GoesOn
    <3> QED
      BY <1>1, <1>9, <2>2, <3>2, RequestMoves
  <2> QED
    BY <1>0, <1>9, <2>1, <2>2, IssueMoves
<1>10. ASSUME NEW v \in SceneValues, EndFirstReview(q, v) PROVE AuthorizationInv'
  <2>1. NewReview(q, v) \in Reviews /\ request[q].at = "first"
        /\ UNCHANGED <<tokenVars, revoker, cleared, brokerVars, worldVars, actorVars>>
    BY <1>0, <1>10, ReviewType DEF EndFirstReview, At
  <2>2. CASE NeedsConfirmation(q, NewReview(q, v))
    BY <1>8, <1>10, <2>1, <2>2 DEF EndFirstReview
  <2>3. CASE ~NeedsConfirmation(q, NewReview(q, v))
    <3>1. Issue(q, NewReview(q, v), FALSE) /\ FALSE \in BOOLEAN
      BY <1>10, <2>3 DEF EndFirstReview
    <3> QED
      BY <1>9, <2>1, <2>3, <3>1
  <2> QED
    BY <2>2, <2>3
<1>11. ASSUME NEW v \in SceneValues, EndSecondReview(q, v) PROVE AuthorizationInv'
  <2>1. NewReview(q, v) \in Reviews /\ request[q].at = "again"
        /\ UNCHANGED <<tokenVars, revoker, cleared, brokerVars, worldVars, actorVars>>
    BY <1>0, <1>11, ReviewType DEF EndSecondReview, At
  <2>2. CASE NewReview(q, v) # request[q].review
    BY <1>8, <1>11, <2>1, <2>2 DEF EndSecondReview
  <2>3. CASE NewReview(q, v) = request[q].review
    <3>1. Issue(q, NewReview(q, v), TRUE) /\ TRUE \in BOOLEAN
      BY <1>11, <2>3 DEF EndSecondReview
    <3>2. request[q].approval = NewReview(q, v)
      BY <1>0, <2>1, <2>3 DEF FutureFits, ApprovalFits
    <3> QED
      BY <1>9, <2>1, <3>1, <3>2
  <2> QED
    BY <2>2, <2>3
<1>12. ASSUME CheckConfirmation(q) PROVE AuthorizationInv'
  <2>0. request[q].at = "confirm" /\ UNCHANGED <<tokenVars, revoker, cleared, brokerVars, worldVars, actorVars>>
    BY <1>12 DEF CheckConfirmation, At
  <2>1. CASE IsCurrent(q)
    <3> DEFINE f == [request[q] EXCEPT !.at = "insert"]
    <3>1. request' = [request EXCEPT ![q] = f]
      BY <1>12, <2>1 DEF CheckConfirmation
    <3>2. f \in Futures /\ f.at = "insert" /\ f.lease = request[q].lease
      BY <1>0 DEF Futures, Places
    <3> HIDE DEF f
    <3>3. ApprovalFits(f, decision[q])
      BY <3>2 DEF ApprovalFits
    <3>4. FutureFits(leases, q, f, decision[q])
      BY <1>0, <2>0, <3>2, <3>3, GoesOn
    <3> QED
      BY <1>1, <2>0, <3>1, <3>2, <3>4, RequestMoves
  <2>2. CASE ~IsCurrent(q)
    BY <1>1, <1>12, <2>0, <2>2, RequestEnds DEF CheckConfirmation, Refuse
  <2> QED
    BY <2>1, <2>2
<1>13. ASSUME RegisterConfirmation(q) PROVE AuthorizationInv'
  <2>0. request[q].at = "insert" /\ UNCHANGED <<tokenVars, revoker, cleared, worldVars, actorVars>>
    BY <1>13 DEF RegisterConfirmation, At
  <2>1. CASE request' = [request EXCEPT ![q] = Future("refused")] /\ UNCHANGED brokerVars
    BY <1>1, <2>0, <2>1, RequestEnds
  <2>2. CASE /\ pending' = pending \cup {q} /\ decision' = [decision EXCEPT ![q] = "open"]
             /\ ids' = ids + 1 /\ request' = [request EXCEPT ![q].at = "waiting"]
    <3> DEFINE f == [request[q] EXCEPT !.at = "waiting"]
    <3>1. request' = [request EXCEPT ![q] = f]
      BY <2>2
    <3>2. f \in Futures /\ f.at = "waiting" /\ f.lease = request[q].lease
      BY <1>0 DEF Futures, Places
    <3> HIDE DEF f
    <3>3. ApprovalFits(f, "open")
      BY <3>2 DEF ApprovalFits
    <3>4. FutureFits(leases, q, f, "open")
      BY <1>0, <2>0, <3>2, <3>3, GoesOn
    <3>5. "open" \in Decisions /\ ids' \in Nat /\ pending' \in SUBSET Requests
      BY <1>1, <2>2 DEF Decisions
    <3> QED
      BY <1>1, <2>0, <2>2, <3>1, <3>2, <3>4, <3>5, OneRequest
  <2> QED
    BY <1>13, <2>1, <2>2 DEF RegisterConfirmation, Refuse
<1>14. ASSUME WaitEnds(q) PROVE AuthorizationInv'
  <2>1. /\ request' = [request EXCEPT ![q] = Future("refused")]
        /\ pending' = pending \ {q} /\ decision' = [decision EXCEPT ![q] = "none"]
        /\ UNCHANGED <<tokenVars, revoker, cleared, ids, worldVars, actorVars>>
    BY <1>14 DEF WaitEnds, Refuse
  <2>2. Future("refused") \in Futures /\ FutureFits(leases, q, Future("refused"), "none")
    BY OverFits
  <2>3. "none" \in Decisions /\ pending' \in SUBSET Requests
    BY <1>1, <2>1 DEF Decisions
  <2> QED
    BY <1>1, <2>1, <2>2, <2>3, OneRequest
<1>15. ASSUME WaitApproved(q) PROVE AuthorizationInv'
  <2>1. /\ request[q].at = "waiting" /\ decision[q] = "approved" /\ Resolve(q, "again")
        /\ decision' = [decision EXCEPT ![q] = "none"]
        /\ UNCHANGED <<tokenVars, revoker, cleared, pending, ids, worldVars, actorVars>>
    BY <1>15 DEF WaitApproved, At
  <2>2. q \notin pending /\ request[q].approval = request[q].review /\ "none" \in Decisions /\ "again" \in Places
    BY <1>0, <2>1 DEF ShownIsAwaited, FutureFits, ApprovalFits, Decisions, Places
  <2>3. CASE request' = [request EXCEPT ![q] = Future("refused")]
    <3>1. Future("refused") \in Futures /\ FutureFits(leases, q, Future("refused"), "none")
      BY OverFits
    <3> QED
      BY <1>1, <2>1, <2>2, <2>3, <3>1, OneRequest
  <2>4. ASSUME NEW f \in Futures, request' = [request EXCEPT ![q] = f], f.at = "again", f.lease = request[q].lease,
               f.review = request[q].review, f.approval = request[q].approval
        PROVE  AuthorizationInv'
    <3>1. ApprovalFits(f, "none")
      BY <2>2, <2>4 DEF ApprovalFits
    <3>2. FutureFits(leases, q, f, "none")
      BY <1>0, <2>1, <2>4, <3>1, GoesOn
    <3> QED
      BY <1>1, <2>1, <2>2, <2>4, <3>2, OneRequest
  <2> QED
    BY <1>0, <2>1, <2>2, <2>3, <2>4, ResolveMoves
<1>16. ASSUME GiveUp(q) PROVE AuthorizationInv'
  BY <1>1, <1>16, RequestEnds DEF GiveUp, Refuse
<1>17. ASSUME NEW yes \in BOOLEAN, Decide(q, yes) PROVE AuthorizationInv'
  <2>1. /\ q \in pending /\ pending' = pending \ {q} /\ request[q].at = "waiting"
        /\ UNCHANGED <<tokenVars, revoker, cleared, ids, worldVars, actorVars>>
    BY <1>0, <1>17 DEF Decide, ShownIsAwaited
  <2>2. CASE yes
    <3> DEFINE f == [request[q] EXCEPT !.approval = request[q].review]
    <3>1. request' = [request EXCEPT ![q] = f] /\ decision' = [decision EXCEPT ![q] = "approved"]
      BY <1>17, <2>2 DEF Decide
    <3>2. f \in Futures /\ f.at = "waiting" /\ f.lease = request[q].lease /\ f.approval = f.review
      BY <1>0, <2>1 DEF Futures
    <3> HIDE DEF f
    <3>3. ApprovalFits(f, "approved")
      BY <3>2 DEF ApprovalFits
    <3>4. FutureFits(leases, q, f, "approved")
      BY <1>0, <2>1, <3>2, <3>3, GoesOn
    <3>5. "approved" \in Decisions /\ pending' \in SUBSET Requests
      BY <1>1, <2>1 DEF Decisions
    <3> QED
      BY <1>1, <2>1, <3>1, <3>2, <3>4, <3>5, OneRequest
  <2>3. CASE ~yes
    <3>1. request' = [request EXCEPT ![q] = request[q]] /\ decision' = [decision EXCEPT ![q] = "rejected"]
      BY <1>0, <1>17, <2>3 DEF Decide
    <3>2. ApprovalFits(request[q], "rejected")
      BY <2>1 DEF ApprovalFits
    <3>3. FutureFits(leases, q, request[q], "rejected")
      BY <1>0, <2>1, <3>2, GoesOn
    <3>4. "rejected" \in Decisions /\ pending' \in SUBSET Requests
      BY <1>1, <2>1 DEF Decisions
    <3> QED
      BY <1>0, <1>1, <2>1, <3>1, <3>3, <3>4, OneRequest
  <2> QED
    BY <2>2, <2>3
<1> QED
  BY <1>3, <1>4, <1>5, <1>6, <1>7, <1>10, <1>11, <1>12, <1>13, <1>14, <1>15, <1>16, <1>17 DEF RequestStep

\* Every step of the edit actor with a request keeps the invariant.
LEMMA ActorSteps ==
    ASSUME AuthorizationInv, NEW q \in Requests,
           \/ BeginRevalidation(q) \/ RevalidationFails(q)
           \/ \E v \in SceneValues : EndRevalidation(q, v)
           \/ Start(q) \/ Finish(q) \/ SessionSeenByItem(q)
    PROVE  AuthorizationInv'
<1> USE DEF tokenVars, brokerVars, worldVars
<1>0. /\ TypeOK /\ request \in [Requests -> Futures] /\ request[q] \in Futures
      /\ FutureFits(leases, q, request[q], decision[q]) /\ ApprovalFits(request[q], decision[q])
  BY RequestType DEF AuthorizationInv, FuturesFit, FutureFits
<1>1. unseen \in BOOLEAN /\ observed \in Nat /\ item \in Requests \cup {Nobody} /\ q \in Requests \cup {Nobody}
  BY <1>0 DEF TypeOK
<1>2. ASSUME BeginRevalidation(q) PROVE AuthorizationInv'
  <2>0. /\ request[q].at = "queued" /\ "queue" \in Places
        /\ UNCHANGED <<tokenVars, revoker, cleared, brokerVars, worldVars, unseen, observed>>
        /\ item' \in Requests \cup {Nobody}
    BY <1>2 DEF BeginRevalidation, At, Places
  <2>1. CASE request' = [request EXCEPT ![q] = Future("refused")]
    BY <1>1, <2>0, <2>1, RequestEnds
  <2>2. ASSUME NEW f \in Futures, request' = [request EXCEPT ![q] = f], f.at = "queue", f.lease = request[q].lease,
               f.permit = request[q].permit, f.approval = request[q].approval,
               f.forced = request[q].forced, f.dangerous = request[q].dangerous
        PROVE  AuthorizationInv'
    <3>1. ApprovalFits(f, decision[q])
      BY <1>0, <2>0, <2>2 DEF ApprovalFits
    <3>2. FutureFits(leases, q, f, decision[q])
      BY <1>0, <2>0, <2>2, <3>1, GoesOn
    <3> QED
      BY <1>1, <2>0, <2>2, <3>2, RequestMoves
  <2>3. Refuse(q) \/ Resolve(q, "queue")
    BY <1>2 DEF BeginRevalidation
  <2> QED
    BY <1>0, <2>0, <2>1, <2>2, <2>3, ResolveMoves DEF Refuse
<1>3. ASSUME RevalidationFails(q) PROVE AuthorizationInv'
  BY <1>1, <1>3, RequestEnds DEF RevalidationFails, Refuse, At
<1>4. ASSUME NEW v \in SceneValues, EndRevalidation(q, v) PROVE AuthorizationInv'
  <2>0. /\ request[q].at = "queue"
        /\ UNCHANGED <<tokenVars, revoker, cleared, brokerVars, worldVars, unseen, observed>>
    BY <1>4 DEF EndRevalidation, At
  <2>1. CASE request' = [request EXCEPT ![q].at = "ready"] /\ UNCHANGED item
    <3> DEFINE f == [request[q] EXCEPT !.at = "ready"]
    <3>1. request' = [request EXCEPT ![q] = f]
      BY <2>1
    <3>2. /\ f \in Futures /\ f.at = "ready" /\ f.lease = request[q].lease /\ f.permit = request[q].permit
          /\ f.approval = request[q].approval /\ f.forced = request[q].forced /\ f.dangerous = request[q].dangerous
      BY <1>0 DEF Futures, Places
    <3> HIDE DEF f
    <3>3. ApprovalFits(f, decision[q])
      BY <1>0, <2>0, <3>2 DEF ApprovalFits
    <3>4. FutureFits(leases, q, f, decision[q])
      BY <1>0, <2>0, <3>2, <3>3, GoesOn
    <3> QED
      BY <1>1, <2>0, <2>1, <3>1, <3>2, <3>4, RequestMoves
  <2>2. CASE /\ request' = [request EXCEPT ![q] = [Future("leased") EXCEPT
                 !.lease = request[q].lease, !.dangerous = request[q].dangerous, !.forced = TRUE]]
             /\ item' = Nobody
    <3> DEFINE f == [Future("leased") EXCEPT
                        !.lease = request[q].lease, !.dangerous = request[q].dangerous, !.forced = TRUE]
    <3>1. request' = [request EXCEPT ![q] = f]
      BY <2>2
    <3>2. Future("leased") \in Futures /\ Future("leased").at = "leased"
      BY FutureType DEF Places
    <3>3. f \in Futures /\ f.at = "leased" /\ f.lease = request[q].lease
      BY <1>0, <3>2 DEF Futures
    <3> HIDE DEF f
    <3>4. ApprovalFits(f, decision[q])
      BY <3>3 DEF ApprovalFits
    <3>5. FutureFits(leases, q, f, decision[q])
      BY <1>0, <2>0, <3>3, <3>4, GoesOn
    <3> QED
      BY <1>1, <2>0, <2>2, <3>1, <3>3, <3>5, RequestMoves
  <2> QED
    BY <1>4, <2>1, <2>2 DEF EndRevalidation
<1>5. ASSUME Start(q) PROVE AuthorizationInv'
  <2>0. /\ request[q].at = "ready"
        /\ UNCHANGED <<tokenVars, revoker, cleared, brokerVars, worldVars, unseen, observed>>
    BY <1>5 DEF Start, At
  <2>1. CASE request' = [request EXCEPT ![q].at = "running"] /\ UNCHANGED item
    <3> DEFINE f == [request[q] EXCEPT !.at = "running"]
    <3>1. request' = [request EXCEPT ![q] = f]
      BY <2>1
    <3>2. /\ f \in Futures /\ f.at = "running" /\ f.lease = request[q].lease /\ f.permit = request[q].permit
          /\ f.approval = request[q].approval /\ f.forced = request[q].forced /\ f.dangerous = request[q].dangerous
      BY <1>0 DEF Futures, Places
    <3> HIDE DEF f
    <3>3. ApprovalFits(f, decision[q])
      BY <1>0, <2>0, <3>2 DEF ApprovalFits
    <3>4. FutureFits(leases, q, f, decision[q])
      BY <1>0, <2>0, <3>2, <3>3, GoesOn
    <3> QED
      BY <1>1, <2>0, <2>1, <3>1, <3>2, <3>4, RequestMoves
  <2>2. CASE Refuse(q) /\ item' = Nobody
    BY <1>1, <2>0, <2>2, RequestEnds DEF Refuse
  <2> QED
    BY <1>5, <2>1, <2>2 DEF Start
<1>6. ASSUME Finish(q) PROVE AuthorizationInv'
  BY <1>1, <1>6, RequestEnds DEF Finish, At
<1>7. ASSUME SessionSeenByItem(q) PROVE AuthorizationInv'
  <2>0. /\ request[q].at = "running" /\ unseen' \in BOOLEAN
        /\ UNCHANGED <<tokenVars, revoker, cleared, brokerVars, worldVars, observed>>
    BY <1>7 DEF SessionSeenByItem, At
  <2>1. CASE request' = [request EXCEPT ![q] = Future("done")] /\ item' = Nobody
    BY <1>1, <2>0, <2>1, RequestEnds
  <2>2. CASE UNCHANGED <<request, item>>
    <3>1. request' = [request EXCEPT ![q] = request[q]]
      BY <1>0, <2>2
    <3> QED
      BY <1>0, <1>1, <2>0, <2>2, <3>1, RequestMoves
  <2> QED
    BY <1>7, <2>1, <2>2 DEF SessionSeenByItem
<1> QED
  BY <1>2, <1>3, <1>4, <1>5, <1>6, <1>7

-----------------------------------------------------------------------------
(* Revocation, and the world outside.                                      *)

\* A step that leaves requests, leases and registrations alone keeps the
\* invariant when no permit loses what it rests on: the policy stays, or a
\* change of the settings is between policy and revision, or the revision moves.
LEMMA WorldMoves ==
    ASSUME AuthorizationInv, UNCHANGED <<leases, request, pending, decision, cleared>>,
           TypeOK', RevisionsKnown', revision' >= revision,
           \/ SettingsBetween'
           \/ revision' > revision
           \/ revision' = revision /\ policy' = policy /\ (SettingsBetween => SettingsBetween')
    PROVE  AuthorizationInv'
<1>1. /\ TypeOK /\ FuturesFit /\ ShownIsAwaited /\ request \in [Requests -> Futures]
      /\ revision \in Nat /\ revision' \in Nat /\ cleared \in Nat
  BY RequestType DEF AuthorizationInv, TypeOK
<1>2. ShownIsAwaited'
  BY <1>1 DEF ShownIsAwaited
<1>3. FuturesFit'
  <2> SUFFICES ASSUME NEW q \in Requests PROVE FutureFits(leases, q, request[q], decision[q])'
    BY DEF FuturesFit
  <2>1. FutureFits(leases, q, request[q], decision[q]) /\ request[q].lease.rev \in Nat
    BY <1>1, FieldTypes DEF FuturesFit
  <2>2. LeaseFits(leases, q, request[q])'
    BY <1>1, <2>1 DEF FutureFits, LeaseFits
  <2>3. ApprovalFits(request[q], decision[q])'
    BY <2>1 DEF FutureFits, ApprovalFits
  <2>4. request[q].lease.rev <= revision
    BY <2>1 DEF FutureFits, LeaseFits
  <2>5. PermitFits(request[q])'
    <3>1. CASE SettingsBetween'
      BY <3>1 DEF PermitFits
    <3>2. CASE revision' > revision
      BY <1>1, <2>1, <2>4, <3>2 DEF PermitFits
    <3>3. CASE revision' = revision /\ policy' = policy /\ (SettingsBetween => SettingsBetween')
      BY <2>1, <3>3 DEF FutureFits, PermitFits
    <3> QED
      BY <3>1, <3>2, <3>3
  <2> QED
    BY <2>2, <2>3, <2>5 DEF FutureFits
<1> QED
  BY <1>2, <1>3 DEF AuthorizationInv

\* A revoker that moves, its type and the revision it made.
LEMMA RevokerMoves ==
    ASSUME AuthorizationInv, NEW r \in Revokers,
           NEW at \in {"idle", "bump", "leases", "broker", "done"}, NEW mine \in Nat,
           revoker' = [revoker EXCEPT ![r] = [at |-> at, mine |-> mine]]
    PROVE  /\ revoker' \in [Revokers -> [at : {"idle", "bump", "leases", "broker", "done"}, mine : Nat]]
           /\ revoker'[r] = [at |-> at, mine |-> mine]
           /\ \A p \in Revokers \ {r} : revoker'[p] = revoker[p]
           /\ revoker[r].at # "bump" \/ r \notin Settings => (SettingsBetween => SettingsBetween')
  BY DEF AuthorizationInv, TypeOK, SettingsBetween, Revokers

\* Only its place changes.
LEMMA RevokerPlace ==
    ASSUME AuthorizationInv, NEW r \in Revokers, NEW at
    PROVE  /\ [revoker EXCEPT ![r].at = at] = [revoker EXCEPT ![r] = [at |-> at, mine |-> revoker[r].mine]]
           /\ revoker[r].mine \in Nat /\ revoker[r].mine <= revision
<1>1. revoker[r] \in [at : {"idle", "bump", "leases", "broker", "done"}, mine : Nat] /\ revoker[r].mine <= revision
  BY DEF AuthorizationInv, TypeOK, RevisionsKnown
<1>2. [revoker[r] EXCEPT !.at = at] = [at |-> at, mine |-> revoker[r].mine]
  BY <1>1
<1> QED
  BY <1>1, <1>2

\* set_write_settings, a change of the token and every part of a revocation
\* keep the invariant.
LEMMA RevokerSteps ==
    ASSUME AuthorizationInv, NEW r \in Revokers,
           SetWriteSettings(r) \/ ChangeToken(r) \/ RevokeStep(r)
    PROVE  AuthorizationInv'
<1> USE DEF tokenVars, brokerVars, worldVars, actorVars
<1>0. /\ TypeOK /\ RevisionsKnown /\ FuturesFit /\ ShownIsAwaited
      /\ request \in [Requests -> Futures] /\ decision \in [Requests -> Decisions]
  BY RequestType DEF AuthorizationInv
<1>1. /\ revision \in Nat /\ cleared \in Nat /\ cleared <= revision /\ policy.rev \in Nat
      /\ revoker[r].mine \in Nat /\ revoker[r].mine <= revision
      /\ \A p \in Revokers : revoker[p].mine <= revision /\ revoker[p].mine \in Nat
  BY <1>0, RevokerPlace DEF TypeOK, Policies, RevisionsKnown
<1>2. ASSUME SetWriteSettings(r) PROVE AuthorizationInv'
  <2>0. /\ r \in Settings /\ revoker[r].at = "idle"
        /\ UNCHANGED <<cleared, token, tokenLock, revision, leases, request, brokerVars, worldVars, actorVars>>
    BY <1>2 DEF SetWriteSettings
  <2>1. CASE revoker' = [revoker EXCEPT ![r].at = "done"] /\ UNCHANGED policy
    <3>1. revoker' = [revoker EXCEPT ![r] = [at |-> "done", mine |-> revoker[r].mine]]
      BY <2>1, RevokerPlace
    <3>2. TypeOK'
      BY <1>0, <1>1, <2>0, <2>1, <3>1, RevokerMoves DEF TypeOK
    <3>3. RevisionsKnown' /\ (SettingsBetween => SettingsBetween')
      BY <1>1, <2>0, <3>1, RevokerMoves DEF RevisionsKnown
    <3> QED
      BY <1>1, <2>0, <2>1, <3>2, <3>3, WorldMoves
  <2>2. CASE /\ policy' = [mode |-> NewMode[r], rev |-> policy.rev + 1]
             /\ revoker' = [revoker EXCEPT ![r].at = "bump"]
    <3>1. revoker' = [revoker EXCEPT ![r] = [at |-> "bump", mine |-> revoker[r].mine]]
      BY <2>2, RevokerPlace
    <3>2. policy' \in Policies
      BY <1>1, <2>0, <2>2, AuthorizationAssumption DEF Policies
    <3>3. TypeOK'
      BY <1>0, <1>1, <2>0, <3>1, <3>2, RevokerMoves DEF TypeOK
    <3>4. RevisionsKnown'
      BY <1>1, <2>0, <3>1, RevokerMoves DEF RevisionsKnown
    <3>5. SettingsBetween'
      BY <1>1, <2>0, <3>1, RevokerMoves DEF SettingsBetween
    <3> QED
      BY <1>1, <2>0, <3>3, <3>4, <3>5, WorldMoves
  <2> QED
    BY <1>2, <2>1, <2>2 DEF SetWriteSettings
<1>3. ASSUME ChangeToken(r) PROVE AuthorizationInv'
  <2>0. /\ r \in TokenCalls /\ revoker[r].at = "idle" /\ tokenLock' = r /\ token' \in BOOLEAN
        /\ revoker' = [revoker EXCEPT ![r].at = "bump"]
        /\ UNCHANGED <<cleared, revision, leases, policy, request, brokerVars, worldVars, actorVars>>
    BY <1>3 DEF ChangeToken
  <2>1. revoker' = [revoker EXCEPT ![r] = [at |-> "bump", mine |-> revoker[r].mine]]
    BY <2>0, RevokerPlace
  <2>2. TypeOK'
    BY <1>0, <1>1, <2>0, <2>1, RevokerMoves DEF TypeOK
  <2>3. RevisionsKnown' /\ (SettingsBetween => SettingsBetween')
    <3>1. RevisionsKnown'
      BY <1>1, <2>0, <2>1, RevokerMoves DEF RevisionsKnown
    <3>2. revoker[r].at # "bump"
      BY <2>0
    <3>3. SettingsBetween => SettingsBetween'
      BY <1>1, <2>0, <2>1, <3>2, RevokerMoves
    <3> QED
      BY <3>1, <3>3
  <2> QED
    BY <1>1, <2>0, <2>2, <2>3, WorldMoves
<1>4. ASSUME RevokeBump(r) PROVE AuthorizationInv'
  <2>0. /\ revision' = revision + 1 /\ revision' \in Nat
        /\ revoker' = [revoker EXCEPT ![r] = [at |-> "leases", mine |-> revision']]
        /\ UNCHANGED <<cleared, token, tokenLock, leases, policy, request, brokerVars, worldVars, actorVars>>
    BY <1>1, <1>4 DEF RevokeBump
  <2>1. TypeOK'
    BY <1>0, <1>1, <2>0, RevokerMoves DEF TypeOK
  <2>2. RevisionsKnown'
    BY <1>1, <2>0, RevokerMoves DEF RevisionsKnown
  <2> QED
    BY <1>1, <2>0, <2>1, <2>2, WorldMoves
<1>5. ASSUME RevokeLeases(r) PROVE AuthorizationInv'
  <2> DEFINE Cut(f) == [f EXCEPT !.lease.cancelled = TRUE]
  <2>0. /\ revoker[r].at = "leases" /\ \A q \in Requests : request[q].at # "leasing"
        /\ leases' = Kept(r)
        /\ revoker' = [revoker EXCEPT ![r].at = "broker"]
        /\ cleared' = IF revoker[r].mine > cleared THEN revoker[r].mine ELSE cleared
        /\ UNCHANGED <<token, tokenLock, revision, policy, brokerVars, worldVars, actorVars>>
    BY <1>5 DEF RevokeLeases, NobodyLeases
  <2>1. /\ request' = [q \in Requests |-> IF q \in leases \ Kept(r) /\ ~Ended(q) THEN Cut(request[q]) ELSE request[q]]
        /\ \A q \in Requests : request'[q] = IF q \in leases \ Kept(r) /\ ~Ended(q) THEN Cut(request[q]) ELSE request[q]
    BY <1>5 DEF RevokeLeases
  <2>2. ASSUME NEW f \in Futures
        PROVE  /\ Cut(f) \in Futures /\ Cut(f).lease.cancelled /\ Cut(f).lease.rev = f.lease.rev
               /\ Cut(f).at = f.at /\ Cut(f).review = f.review /\ Cut(f).permit = f.permit
               /\ Cut(f).approval = f.approval /\ Cut(f).forced = f.forced /\ Cut(f).dangerous = f.dangerous
    <3> DEFINE l == [f.lease EXCEPT !.cancelled = TRUE]
               g == [f EXCEPT !.lease = l]
    <3>1. l \in Leases /\ l.cancelled /\ l.rev = f.lease.rev
      BY <2>2 DEF Futures, Leases
    <3>2. Cut(f) = g
      BY <2>2 DEF Futures
    <3> HIDE DEF l
    <3>3. g \in Futures
      BY <2>2, <3>1 DEF Futures
    <3>4. /\ g.lease = l /\ g.at = f.at /\ g.review = f.review /\ g.permit = f.permit
          /\ g.approval = f.approval /\ g.forced = f.forced /\ g.dangerous = f.dangerous
      BY <2>2 DEF Futures
    <3> HIDE DEF g
    <3> QED
      BY <3>1, <3>2, <3>3, <3>4
  <2> HIDE DEF Cut
  <2>3. request' \in [Requests -> Futures]
    <3>1. \A q \in Requests : request[q] \in Futures /\ Cut(request[q]) \in Futures
      BY <1>0, <2>2
    <3> QED
      BY <2>1, <3>1
  <2>4. revoker' = [revoker EXCEPT ![r] = [at |-> "broker", mine |-> revoker[r].mine]]
    BY <2>0, RevokerPlace
  <2>5. cleared' \in Nat /\ cleared' <= revision /\ cleared' >= cleared
    BY <1>1, <2>0
  <2>6. leases' \subseteq Requests
    BY <1>0, <2>0 DEF TypeOK, Kept
  <2>7. TypeOK'
    BY <1>0, <1>1, <2>0, <2>3, <2>4, <2>5, <2>6, RevokerMoves DEF TypeOK, Futures, Places, Leases, Snaps
  <2>8. RevisionsKnown' /\ (SettingsBetween => SettingsBetween')
    <3>1. RevisionsKnown'
      BY <1>1, <2>0, <2>4, <2>5, RevokerMoves DEF RevisionsKnown
    <3>2. revoker[r].at # "bump"
      BY <2>0
    <3>3. SettingsBetween => SettingsBetween'
      BY <1>1, <2>0, <2>4, <2>5, <3>2, RevokerMoves
    <3> QED
      BY <3>1, <3>3
  <2>9. ShownIsAwaited'
    <3> SUFFICES ASSUME NEW q \in pending PROVE request'[q].at = "waiting" /\ decision'[q] = "open"
      BY <2>0 DEF ShownIsAwaited
    <3>1. q \in Requests /\ request[q].at = "waiting" /\ decision[q] = "open" /\ request[q] \in Futures
      BY <1>0 DEF ShownIsAwaited, TypeOK
    <3> QED
      BY <2>0, <2>1, <2>2, <3>1
  <2>10. FuturesFit'
    <3> SUFFICES ASSUME NEW q \in Requests PROVE FutureFits(leases, q, request[q], decision[q])'
      BY DEF FuturesFit
    <3>1. /\ request[q] \in Futures /\ FutureFits(leases, q, request[q], decision[q])
          /\ request[q].lease.rev \in Nat /\ request[q].at # "leasing"
      BY <1>0, <2>0, FieldTypes DEF FuturesFit
    <3>2. /\ request'[q].at = request[q].at /\ request'[q].lease.rev = request[q].lease.rev
          /\ request'[q].review = request[q].review /\ request'[q].permit = request[q].permit
          /\ request'[q].approval = request[q].approval /\ request'[q].forced = request[q].forced
          /\ request'[q].dangerous = request[q].dangerous
      BY <2>1, <2>2, <3>1
    <3>3. request[q].lease.rev # 0 => q \in leases' \/ request'[q].lease.cancelled
      <4>1. CASE q \in leases \ Kept(r) /\ ~Ended(q)
        BY <2>1, <2>2, <3>1, <4>1
      <4>2. CASE q \in leases \ Kept(r) /\ Ended(q)
        BY <3>1, <4>2 DEF FutureFits, LeaseFits, Ended
      <4>3. CASE q \in Kept(r)
        BY <2>0, <4>3
      <4>4. CASE q \notin leases
        BY <2>1, <3>1, <4>4 DEF FutureFits, LeaseFits
      <4> QED
        BY <4>1, <4>2, <4>3, <4>4
    <3>4. request[q].lease.rev \in 1..cleared' - 1 => request'[q].lease.cancelled
      <4>1. CASE q \in leases'
        <5>1. request[q].lease.rev = revoker[r].mine /\ request'[q] = request[q]
          BY <2>0, <2>1, <4>1 DEF Kept
        <5> QED
          BY <1>1, <2>0, <3>1, <5>1 DEF FutureFits, LeaseFits
      <4>2. CASE q \notin leases'
        BY <3>3, <4>2
      <4> QED
        BY <4>1, <4>2
    <3>5. ApprovalFits(request'[q], decision'[q])
      BY <2>0, <3>1, <3>2 DEF FutureFits, ApprovalFits
    <3>6. PermitFits(request[q])'
      BY <2>0, <2>8, <3>1, <3>2 DEF FutureFits, PermitFits
    <3> QED
      BY <2>0, <3>1, <3>2, <3>3, <3>4, <3>5, <3>6 DEF FutureFits, LeaseFits, ApprovalFits
  <2> QED
    BY <2>7, <2>8, <2>9, <2>10 DEF AuthorizationInv
<1>6. ASSUME RevokeBroker(r) PROVE AuthorizationInv'
  <2> DEFINE to == IF r = Actor THEN "idle" ELSE "done"
  <2>0. /\ revoker[r].at = "broker" /\ pending' = pending \ Withdrawn(r)
        /\ decision' = [q \in Requests |-> IF q \in Withdrawn(r) THEN "dropped" ELSE decision[q]]
        /\ revoker' = [revoker EXCEPT ![r] = [at |-> to, mine |-> 0]]
        /\ tokenLock' = IF tokenLock = r THEN Nobody ELSE tokenLock
        /\ UNCHANGED <<cleared, token, revision, leases, policy, request, ids, worldVars, actorVars>>
    BY <1>6 DEF RevokeBroker
  <2>1. to \in {"idle", "bump", "leases", "broker", "done"} /\ 0 \in Nat
    OBVIOUS
  <2> HIDE DEF to
  <2>2. decision' \in [Requests -> Decisions]
    BY <1>0, <2>0 DEF Decisions
  <2>3. TypeOK'
    BY <1>0, <2>0, <2>1, <2>2, RevokerMoves DEF TypeOK, Decisions
  <2>4. RevisionsKnown' /\ (SettingsBetween => SettingsBetween')
    <3>1. RevisionsKnown'
      BY <1>1, <2>0, <2>1, RevokerMoves DEF RevisionsKnown
    <3>2. revoker[r].at # "bump"
      BY <2>0
    <3>3. SettingsBetween => SettingsBetween'
      BY <1>1, <2>0, <2>1, <3>2, RevokerMoves
    <3> QED
      BY <3>1, <3>3
  <2>5. ShownIsAwaited'
    BY <1>0, <2>0 DEF ShownIsAwaited, TypeOK
  <2>6. FuturesFit'
    <3> SUFFICES ASSUME NEW q \in Requests PROVE FutureFits(leases, q, request[q], decision[q])'
      BY DEF FuturesFit
    <3>1. FutureFits(leases, q, request[q], decision[q]) /\ decision'[q] \in {"dropped", decision[q]}
      BY <1>0, <2>0 DEF FuturesFit
    <3>2. ApprovalFits(request[q], decision'[q])
      BY <3>1 DEF FutureFits, ApprovalFits
    <3> QED
      BY <2>0, <2>4, <3>1, <3>2 DEF FutureFits, LeaseFits, ApprovalFits, PermitFits
  <2> QED
    BY <2>3, <2>4, <2>5, <2>6 DEF AuthorizationInv
<1> QED
  BY <1>2, <1>3, <1>4, <1>5, <1>6 DEF RevokeStep

\* The actor sees another connection, the connection changes, or nothing does.
LEMMA ConnectionSteps ==
    ASSUME AuthorizationInv, SessionSeenByActor \/ SessionChanges \/ UNCHANGED vars
    PROVE  AuthorizationInv'
<1> USE DEF tokenVars, brokerVars, worldVars, actorVars
<1>0. /\ TypeOK /\ RevisionsKnown /\ revision \in Nat /\ session \in Nat /\ lastGen \in Nat
      /\ Actor \in Revokers
  BY DEF AuthorizationInv, TypeOK, Revokers
<1>1. CASE SessionSeenByActor
  <2>0. /\ unseen' = FALSE /\ observed' = session /\ UNCHANGED <<tokenVars, cleared, request, brokerVars, worldVars, item>>
        /\ revoker' = revoker \/ revoker' = [revoker EXCEPT ![Actor].at = "bump"]
        /\ revoker[Actor].at = "idle"
    BY <1>1 DEF SessionSeenByActor, ActorFree
  <2>1. CASE revoker' = revoker
    <3>1. TypeOK'
      BY <1>0, <2>0, <2>1 DEF TypeOK
    <3>2. RevisionsKnown' /\ (SettingsBetween => SettingsBetween')
      BY <1>0, <2>0, <2>1 DEF RevisionsKnown, SettingsBetween
    <3> QED
      BY <1>0, <2>0, <3>1, <3>2, WorldMoves
  <2>2. CASE revoker' = [revoker EXCEPT ![Actor].at = "bump"]
    <3>1. /\ revoker' = [revoker EXCEPT ![Actor] = [at |-> "bump", mine |-> revoker[Actor].mine]]
          /\ revoker[Actor].mine \in Nat
      BY <1>0, <2>2, RevokerPlace
    <3>2. TypeOK'
      BY <1>0, <2>0, <3>1, RevokerMoves DEF TypeOK
    <3>3. RevisionsKnown' /\ (SettingsBetween => SettingsBetween')
      BY <1>0, <2>0, <3>1, RevokerMoves DEF RevisionsKnown
    <3> QED
      BY <1>0, <2>0, <3>2, <3>3, WorldMoves
  <2> QED
    BY <2>0, <2>1, <2>2
<1>2. CASE SessionChanges
  <2>1. /\ UNCHANGED <<tokenVars, revoker, cleared, request, brokerVars, observed, item>>
        /\ unseen' \in BOOLEAN /\ session' \in Nat /\ lastGen' \in Nat
    BY <1>0, <1>2 DEF SessionChanges
  <2>2. TypeOK'
    BY <1>0, <2>1 DEF TypeOK
  <2>3. RevisionsKnown' /\ (SettingsBetween => SettingsBetween')
    BY <1>0, <2>1 DEF RevisionsKnown, SettingsBetween
  <2> QED
    BY <1>0, <2>1, <2>2, <2>3, WorldMoves
<1>3. CASE UNCHANGED vars
  <2>1. TypeOK'
    BY <1>0, <1>3 DEF TypeOK, vars
  <2>2. RevisionsKnown' /\ (SettingsBetween => SettingsBetween')
    BY <1>0, <1>3 DEF RevisionsKnown, SettingsBetween, vars
  <2> QED
    BY <1>0, <1>3, <2>1, <2>2, WorldMoves DEF vars
<1> QED
  BY <1>1, <1>2, <1>3

-----------------------------------------------------------------------------
(* The theorems.                                                           *)

\* The inductive invariant holds in every state of every behaviour of the
\* requests, the revocations, the screen and the actor.
THEOREM AuthorizationInvariance == Spec => []AuthorizationInv
<1>1. Init => AuthorizationInv
  <2> SUFFICES ASSUME Init PROVE AuthorizationInv
    OBVIOUS
  <2>1. /\ Future("none") \in Futures /\ Future("none").at = "none" /\ Future("none").lease.rev = 0
    BY FutureType DEF Places
  <2>2. request \in [Requests -> Futures] /\ \A q \in Requests : request[q] = Future("none")
    BY <2>1 DEF Init
  <2>3. policy \in Policies
    BY AuthorizationAssumption DEF Init, Policies
  <2>4. TypeOK
    BY <2>2, <2>3 DEF Init, TypeOK, Futures, Places, Leases, Snaps
  <2>5. RevisionsKnown /\ ShownIsAwaited
    BY DEF Init, RevisionsKnown, ShownIsAwaited
  <2>6. FuturesFit
    <3>1. revision = 1 /\ cleared = 0
      BY DEF Init
    <3> QED
      BY <2>1, <2>2, <3>1 DEF FuturesFit, FutureFits, LeaseFits, ApprovalFits, PermitFits
  <2> QED
    BY <2>4, <2>5, <2>6 DEF AuthorizationInv
<1>2. AuthorizationInv /\ [Next]_vars => AuthorizationInv'
  <2> SUFFICES ASSUME AuthorizationInv, [Next]_vars PROVE AuthorizationInv'
    OBVIOUS
  <2>1. ASSUME NEW q \in Requests, NEW danger \in BOOLEAN, LeaseBegin(q, danger) PROVE AuthorizationInv'
    BY <2>1, RequestSteps
  <2>2. ASSUME NEW q \in Requests, LeaseOver(q) \/ RequestStep(q) PROVE AuthorizationInv'
    BY <2>2, RequestSteps
  <2>3. ASSUME NEW r \in Revokers, SetWriteSettings(r) \/ ChangeToken(r) \/ RevokeStep(r) PROVE AuthorizationInv'
    BY <2>3, RevokerSteps
  <2>4. ASSUME NEW q \in Requests, NEW yes \in BOOLEAN, Decide(q, yes) PROVE AuthorizationInv'
    BY <2>4, RequestSteps
  <2>5. ASSUME ActorStep PROVE AuthorizationInv'
    BY <2>5, ActorSteps, ConnectionSteps DEF ActorStep
  <2>6. CASE SessionChanges \/ Quiet \/ UNCHANGED vars
    BY <2>6, ConnectionSteps DEF Quiet
  <2> QED
    BY <2>1, <2>2, <2>3, <2>4, <2>5, <2>6 DEF Next
<1> QED
  BY <1>1, <1>2, PTL DEF Spec

\* Once a revocation has gone through the lease list, every older lease is
\* cancelled for good, whatever requests were being authenticated meanwhile.
THEOREM RevokedOut == Spec => []RevokedStaysOut
<1>1. AuthorizationInv => RevokedStaysOut
  BY DEF AuthorizationInv, FuturesFit, FutureFits, LeaseFits, RevokedStaysOut
<1> QED
  BY <1>1, AuthorizationInvariance, PTL

\* Nothing is shown to the user that no request waits for, and a write that had
\* to be confirmed starts only as the review the user approved.
THEOREM ConfirmationHolds == Spec => []ConfirmationBinds
<1>1. AuthorizationInv => ConfirmationBinds
  <2> SUFFICES ASSUME AuthorizationInv PROVE ConfirmationBinds
    OBVIOUS
  <2>1. TypeOK /\ ShownIsAwaited
    BY DEF AuthorizationInv
  <2>2. ApprovedIsWhatStarts
    BY DEF AuthorizationInv, FuturesFit, FutureFits, ApprovalFits, ApprovedIsWhatStarts, NeedsConfirmation
  <2> QED
    BY <2>1, <2>2 DEF ConfirmationBinds
<1> QED
  BY <1>1, AuthorizationInvariance, PTL

\* Only Start lets a write run, and only under a current lease.
LEMMA OnlyStartRuns ==
    ASSUME AuthorizationInv, Next, NEW q \in Requests,
           request[q].at # "running", request'[q].at = "running"
    PROVE  request[q].at = "ready" /\ IsCurrent(q)
<1>0. TypeOK /\ request \in [Requests -> Futures]
  BY RequestType DEF AuthorizationInv
<1>1. ASSUME NEW p \in Requests, request' = [request EXCEPT ![p] = Future("refused")] PROVE FALSE
  BY <1>0, <1>1, FutureType DEF Places
<1>2. ASSUME NEW p \in Requests, request' = [request EXCEPT ![p] = Future("done")] PROVE FALSE
  BY <1>0, <1>2, FutureType DEF Places
<1>3. ASSUME NEW p \in Requests, NEW f, request' = [request EXCEPT ![p] = f], f.at # "running" PROVE FALSE
  BY <1>0, <1>3
<1>4. ASSUME NEW p \in Requests, NEW f, request' = [request EXCEPT ![p] = f], f.at = request[p].at PROVE FALSE
  BY <1>0, <1>4
<1>5. request' # request
  BY <1>0
<1>6. ASSUME NEW p \in Requests, NEW to \in Places, to # "running", Resolve(p, to) PROVE FALSE
  BY <1>0, <1>1, <1>3, <1>6, ResolveMoves
<1>7. ASSUME NEW p \in Requests, NEW r \in Reviews, NEW confirmed \in BOOLEAN, Issue(p, r, confirmed) PROVE FALSE
  BY <1>0, <1>1, <1>3, <1>7, IssueMoves
<1>8. ASSUME NEW p \in Requests, NEW r \in Reviews, AskUser(p, r) PROVE FALSE
  BY <1>0, <1>3, <1>8, AskMoves
<1>9. ASSUME NEW p \in Requests, NEW danger \in BOOLEAN, LeaseBegin(p, danger) PROVE FALSE
  BY <1>0, <1>9 DEF LeaseBegin, Futures
<1>10. ASSUME NEW p \in Requests, LeaseOver(p) PROVE FALSE
  BY <1>0, <1>10 DEF LeaseOver, Futures
<1>11. ASSUME NEW p \in Requests, RequestStep(p) PROVE FALSE
  <2>0. ASSUME Refuse(p) PROVE FALSE
    BY <1>1, <2>0 DEF Refuse
  <2>1. ASSUME LeaseRegister(p) PROVE FALSE
    BY <1>0, <2>1 DEF LeaseRegister, Futures
  <2>2. ASSUME FirstReview(p) PROVE FALSE
    BY <1>6, <2>2 DEF FirstReview, Places
  <2>3. ASSUME NEW v \in SceneValues, EndFirstReview(p, v) PROVE FALSE
    <3>1. NewReview(p, v) \in Reviews /\ FALSE \in BOOLEAN
      BY <1>0, ReviewType
    <3> QED
      BY <1>7, <1>8, <2>3, <3>1 DEF EndFirstReview
  <2>4. ASSUME NEW v \in SceneValues, EndSecondReview(p, v) PROVE FALSE
    <3>1. NewReview(p, v) \in Reviews /\ TRUE \in BOOLEAN
      BY <1>0, ReviewType
    <3> QED
      BY <1>7, <1>8, <2>4, <3>1 DEF EndSecondReview
  <2>5. ASSUME CheckConfirmation(p) PROVE FALSE
    BY <1>0, <2>0, <2>5 DEF CheckConfirmation, Futures
  <2>6. ASSUME RegisterConfirmation(p) PROVE FALSE
    BY <1>0, <2>0, <2>6 DEF RegisterConfirmation, Futures
  <2>7. ASSUME WaitApproved(p) PROVE FALSE
    BY <1>6, <2>7 DEF WaitApproved, Places
  <2> QED
    BY <1>11, <2>0, <2>1, <2>2, <2>3, <2>4, <2>5, <2>6, <2>7 DEF RequestStep, ReviewFails, WaitEnds, GiveUp
<1>12. ASSUME NEW p \in Requests, NEW yes \in BOOLEAN, Decide(p, yes) PROVE FALSE
  <2>1. CASE yes
    BY <1>0, <1>12, <2>1 DEF Decide, Futures
  <2>2. CASE ~yes
    BY <1>5, <1>12, <2>2 DEF Decide
  <2> QED
    BY <2>1, <2>2
<1>13. ASSUME NEW r \in Revokers, SetWriteSettings(r) \/ ChangeToken(r) \/ RevokeStep(r) PROVE FALSE
  <2>1. CASE request' = request
    BY <1>5, <2>1
  <2>2. CASE RevokeLeases(r)
    <3>1. request'[q] = IF q \in leases \ Kept(r) /\ ~Ended(q)
                        THEN [request[q] EXCEPT !.lease.cancelled = TRUE] ELSE request[q]
      BY <2>2 DEF RevokeLeases
    <3>2. request'[q].at = request[q].at
      BY <1>0, <3>1 DEF Futures
    <3> QED
      BY <3>2
  <2> QED
    BY <1>13, <2>1, <2>2 DEF SetWriteSettings, ChangeToken, RevokeStep, RevokeBump, RevokeBroker
<1>14. ASSUME SessionChanges \/ Quiet \/ SessionSeenByActor PROVE FALSE
  BY <1>5, <1>14 DEF SessionChanges, Quiet, SessionSeenByActor, vars
<1>15. ASSUME NEW p \in Requests, BeginRevalidation(p) \/ RevalidationFails(p) \/ Finish(p) \/ SessionSeenByItem(p)
       PROVE  FALSE
  BY <1>1, <1>2, <1>5, <1>6, <1>15
     DEF BeginRevalidation, RevalidationFails, Finish, SessionSeenByItem, Refuse, Places
<1>16. ASSUME NEW p \in Requests, NEW v \in SceneValues, EndRevalidation(p, v) PROVE FALSE
  <2>1. CASE request' = [request EXCEPT ![p].at = "ready"]
    BY <1>0, <2>1 DEF Futures
  <2>2. CASE request' = [request EXCEPT ![p] = [Future("leased") EXCEPT
                 !.lease = request[p].lease, !.dangerous = request[p].dangerous, !.forced = TRUE]]
    <3>1. Future("leased") \in Futures /\ Future("leased").at = "leased"
      BY FutureType DEF Places
    <3>2. [Future("leased") EXCEPT !.lease = request[p].lease, !.dangerous = request[p].dangerous,
                                   !.forced = TRUE].at # "running"
      BY <3>1 DEF Futures
    <3> QED
      BY <1>3, <2>2, <3>2
  <2> QED
    BY <1>16, <2>1, <2>2 DEF EndRevalidation
<1>17. PICK p \in Requests : Start(p)
  BY <1>9, <1>10, <1>11, <1>12, <1>13, <1>14, <1>15, <1>16 DEF Next, ActorStep
<1>18. IsCurrent(p) /\ request' = [request EXCEPT ![p].at = "running"] /\ request[p].at = "ready"
  BY <1>1, <1>17 DEF Start, Refuse, At
<1>19. p = q
  BY <1>0, <1>18
<1> QED
  BY <1>18, <1>19

\* No write starts under a policy that is no longer the current one, unless
\* set_write_settings is between the policy and the revision.
THEOREM PolicyAtStart == Spec => StartsUnderCurrentPolicy
<1>1. AuthorizationInv /\ [Next]_vars =>
      [\A q \in Requests :
          request[q].at # "running" /\ request'[q].at = "running"
          => \/ request[q].permit.policy = policy
             \/ \E r \in Settings : revoker[r].at = "bump"]_vars
  <2> SUFFICES ASSUME AuthorizationInv, Next, NEW q \in Requests,
                      request[q].at # "running", request'[q].at = "running"
               PROVE  request[q].permit.policy = policy \/ SettingsBetween
    BY DEF SettingsBetween
  <2>1. request[q].at = "ready" /\ request[q].lease.rev = revision
    BY OnlyStartRuns DEF IsCurrent, AuthorizationCurrent
  <2>2. PermitFits(request[q])
    BY DEF AuthorizationInv, FuturesFit, FutureFits
  <2> QED
    BY <2>1, <2>2 DEF PermitFits
<1> QED
  BY <1>1, AuthorizationInvariance, PTL DEF Spec, StartsUnderCurrentPolicy
=============================================================================
