-------------------------- MODULE McpAuthorization --------------------------
(***************************************************************************)
(* How an MCP write is allowed: the authorization revision and its leases  *)
(* (mcp.rs), the write policy, the scope review taken before, after and    *)
(* again behind the queue (mcp/reads.rs), and the confirmation broker the  *)
(* screen answers (mcp/confirmation.rs).                                   *)
(*                                                                         *)
(* A request is authenticated once and holds a lease of that revision.     *)
(* Three kinds of caller revoke: a change of the write settings, a change  *)
(* of the token (which holds the token's write lock meanwhile) and the     *)
(* edit actor when it sees another connection.  A revocation is several    *)
(* steps on another thread: the revision, the lease list, the broker.      *)
(*                                                                         *)
(* Everything a review reads from the engine and from the history is one   *)
(* value of SceneValues: what the user saw is compared as a whole.  The    *)
(* engine's scene may change at any time, so that a review reads any value.*)
(***************************************************************************)
EXTENDS Naturals, Sequences, FiniteSets

CONSTANTS
    Requests,       \* MCP write calls
    Settings,       \* calls of set_write_settings
    NewMode,        \* the mode each of them writes
    TokenCalls,     \* calls of McpHttpAuth::replace and ::disable
    Disables,       \* those that disable
    Actor,          \* the edit actor
    Nobody,         \* no process, no request
    FirstMode,      \* the mode before any change (ReadOnly in the code: a
                    \* screen has changed it before the behaviour starts)
    SceneValues,    \* what a review can read
    MaxDisturbances,\* bound on changes of settings, token and connection
    MaxPending,     \* MAX_PENDING_CONFIRMATIONS
    MaxDialogs      \* confirmation ids the system's random source yields

Modes == {"readOnly", "enabled", "confirm"}

ASSUME AuthorizationAssumption ==
    /\ NewMode \in [Settings -> Modes]
    /\ Disables \subseteq TokenCalls
    /\ FirstMode \in Modes
    /\ MaxDisturbances \in Nat /\ MaxPending \in Nat /\ MaxDialogs \in Nat
    /\ Settings \cap TokenCalls = {}
    /\ Actor \notin Settings \cup TokenCalls
    /\ Nobody \notin Requests \cup Settings \cup TokenCalls \cup {Actor}

Revokers == Settings \cup TokenCalls \cup {Actor}

VARIABLES
    token,      \* McpHttpAuth.token is Some
    tokenLock,  \* who holds the token's write lock
    revision,   \* McpAuthorizationInner.revision
    leases,     \* requests in McpAuthorizationInner.leases
    policy,     \* WritePolicyState
    revoker,    \* where each revocation stands, and the revision it made
    cleared,    \* newest revision whose revocation is through the lease list
    request,    \* the future of each request, with its McpRequestLease
    pending,    \* requests registered in BrokerInner.requests
    decision,   \* the oneshot of each registration
    ids,        \* confirmation ids drawn so far
    session,    \* generation of the connection; 0 is none
    lastGen,    \* last generation given
    unseen,     \* the actor's session watch has a value it has not seen
    observed,   \* run_actor's observed_generation
    item        \* the request the actor works on

tokenVars == <<token, tokenLock, revision, leases, policy>>
brokerVars == <<pending, decision, ids>>
worldVars == <<session, lastGen>>
actorVars == <<unseen, observed, item>>
vars == <<tokenVars, revoker, cleared, request, brokerVars, worldVars, actorVars>>

NoPolicy == [mode |-> "readOnly", rev |-> 0]
NoReview == [policy |-> NoPolicy, gen |-> 0, seen |-> Nobody]

NoLease == [rev |-> 0, cancelled |-> FALSE, over |-> FALSE]

\* The future of a request: where it stands, whether its operation
\* requires_confirmation(), its lease, the policy and
\* generation its running review started from, the review it holds, force_confirmation,
\* its permit, and the review the user approved last.
Future(at) ==
    [at |-> at, dangerous |-> FALSE, lease |-> NoLease, snap |-> [policy |-> NoPolicy, gen |-> 0], review |-> NoReview,
     forced |-> FALSE, permit |-> NoReview, confirmed |-> FALSE, approval |-> NoReview]

Init ==
    /\ token = TRUE /\ tokenLock = Nobody
    /\ revision = 1 /\ leases = {}
    /\ policy = [mode |-> FirstMode, rev |-> 1]
    /\ revoker = [r \in Revokers |-> [at |-> "idle", mine |-> 0]]
    /\ cleared = 0
    /\ request = [q \in Requests |-> Future("none")]
    /\ pending = {} /\ decision = [q \in Requests |-> "none"] /\ ids = 0
    /\ session = 1 /\ lastGen = 1
    /\ unseen = FALSE /\ observed = 1 /\ item = Nobody

----------------------------------------------------------------------------
(* Leases.                                                                 *)

\* is_authorization_current and is_current.
AuthorizationCurrent(q) == ~request[q].lease.cancelled /\ request[q].lease.rev = revision
IsCurrent(q) == AuthorizationCurrent(q) /\ ~request[q].lease.over

NobodyLeases == \A q \in Requests : request[q].at # "leasing"

\* McpHttpAuth::authorize under the token's read lock, and current_lease up
\* to its first load of the revision, under the lock of the lease list.
LeaseBegin(q, danger) ==
    /\ request[q].at = "none"
    /\ tokenLock = Nobody /\ NobodyLeases
    /\ request' = IF token
                  THEN [request EXCEPT ![q].at = "leasing", ![q].lease.rev = revision,
                                       ![q].dangerous = danger]
                  ELSE [request EXCEPT ![q].at = "refused"]
    /\ UNCHANGED <<tokenVars, revoker, cleared, brokerVars, worldVars, actorVars>>

\* The second load: the lease is registered, or cancelled at once.
LeaseRegister(q) ==
    /\ request[q].at = "leasing"
    /\ IF request[q].lease.rev = revision
       THEN /\ leases' = leases \cup {q}
            /\ request' = [request EXCEPT ![q].at = "leased"]
       ELSE /\ request' = [request EXCEPT ![q].at = "leased", ![q].lease.cancelled = TRUE]
            /\ UNCHANGED leases
    /\ UNCHANGED <<token, tokenLock, revision, policy, revoker, cleared, brokerVars, worldVars,
                   actorVars>>

\* The HTTP request ends or its deadline passes.
LeaseOver(q) ==
    /\ request[q].at \notin {"none", "leasing", "refused", "done"}
    /\ ~request[q].lease.over
    /\ request' = [request EXCEPT ![q].lease.over = TRUE]
    /\ UNCHANGED <<tokenVars, revoker, cleared, brokerVars, worldVars, actorVars>>

----------------------------------------------------------------------------
(* Revocation.                                                             *)

\* Changes so far, each of which revokes.
Disturbances ==
    Cardinality({r \in Settings \cup TokenCalls : revoker[r].at # "idle"}) + lastGen - 1
        + (IF session = 0 THEN 1 ELSE 0)
MayDisturb == Disturbances < MaxDisturbances

\* set_write_settings: an equal setting changes nothing and revokes nothing.
SetWriteSettings(r) ==
    /\ r \in Settings /\ revoker[r].at = "idle" /\ MayDisturb
    /\ IF policy.mode = NewMode[r]
       THEN revoker' = [revoker EXCEPT ![r].at = "done"] /\ UNCHANGED policy
       ELSE /\ policy' = [mode |-> NewMode[r], rev |-> policy.rev + 1]
            /\ revoker' = [revoker EXCEPT ![r].at = "bump"]
    /\ UNCHANGED <<cleared, token, tokenLock, revision, leases, request, brokerVars, worldVars,
                   actorVars>>

\* replace and disable write the token and revoke before they let it go.
ChangeToken(r) ==
    /\ r \in TokenCalls /\ revoker[r].at = "idle" /\ MayDisturb
    /\ tokenLock = Nobody /\ NobodyLeases
    /\ tokenLock' = r
    /\ token' = (r \notin Disables)
    /\ revoker' = [revoker EXCEPT ![r].at = "bump"]
    /\ UNCHANGED <<cleared, revision, leases, policy, request, brokerVars, worldVars, actorVars>>

RevokeBump(r) ==
    /\ revoker[r].at = "bump"
    /\ revision' = revision + 1
    /\ revoker' = [revoker EXCEPT ![r] = [at |-> "leases", mine |-> revision + 1]]
    /\ UNCHANGED <<cleared, token, tokenLock, leases, policy, request, brokerVars, worldVars,
                   actorVars>>

\* The request is over: the list's weak reference to its lease is dead.
Ended(q) == request[q].at \in {"refused", "done"}

\* Mutant of Kept: the previous revision is kept too.
KeptWithPrevious(r) == {q \in leases : request[q].lease.rev + 1 >= revoker[r].mine}

\* The lease list keeps the leases of this revocation's own revision.
Kept(r) == {q \in leases : request[q].lease.rev = revoker[r].mine}

RevokeLeases(r) ==
    /\ revoker[r].at = "leases" /\ NobodyLeases
    /\ leases' = Kept(r)
    /\ request' = [q \in Requests |->
                      IF q \in leases \ Kept(r) /\ ~Ended(q)
                      THEN [request[q] EXCEPT !.lease.cancelled = TRUE]
                      ELSE request[q]]
    /\ revoker' = [revoker EXCEPT ![r].at = "broker"]
    /\ cleared' = IF revoker[r].mine > cleared THEN revoker[r].mine ELSE cleared
    /\ UNCHANGED <<token, tokenLock, revision, policy, brokerVars, worldVars, actorVars>>

\* McpConfirmationBroker::cancel_before_revision: the senders of older
\* registrations are dropped; newer registrations stay.
Withdrawn(r) == {q \in pending : request[q].lease.rev < revoker[r].mine}

RevokeBroker(r) ==
    /\ revoker[r].at = "broker"
    /\ pending' = pending \ Withdrawn(r)
    /\ decision' = [q \in Requests |->
                       IF q \in Withdrawn(r) THEN "dropped" ELSE decision[q]]
    /\ revoker' = [revoker EXCEPT ![r] = [at |-> IF r = Actor THEN "idle" ELSE "done",
                                          mine |-> 0]]
    /\ tokenLock' = IF tokenLock = r THEN Nobody ELSE tokenLock
    /\ UNCHANGED <<cleared, token, revision, leases, policy, request, ids, worldVars,
                   actorVars>>

----------------------------------------------------------------------------
(* Authorization of a request.                                             *)

At(q, where) == request[q].at = where

\* The future returns an error, or is dropped, with all it holds.
Refuse(q) == request' = [request EXCEPT ![q] = Future("refused")]

\* check_write_preflight against a snapshot of the policy.
Preflight(q, snapshot) ==
    /\ IsCurrent(q)
    /\ snapshot = policy
    /\ snapshot.mode # "readOnly"

\* ensure_write_mode.
EnsureWriteMode(q, confirmed) ==
    \/ policy.mode = "confirm" /\ confirmed
    \/ policy.mode = "enabled" /\ (request[q].dangerous => confirmed)

\* validate_write_permit; the permit's operation and request are q's own.
ValidatePermit(q, permit, confirmed, gen) ==
    /\ IsCurrent(q)
    /\ permit.policy.rev = policy.rev
    /\ permit.gen = gen
    /\ EnsureWriteMode(q, confirmed)

\* check_write_request, and check_write_request_after_confirmation.
MayIssue(q, snapshot, confirmed) ==
    /\ Preflight(q, snapshot)
    /\ ~confirmed => snapshot.mode # "confirm" /\ ~request[q].dangerous

NeedsConfirmation(q, r) ==
    request[q].forced \/ r.policy.mode = "confirm" \/ request[q].dangerous

\* resolve_authorization_review up to its first await: a snapshot of the
\* policy and the generation.
Resolve(q, to) ==
    IF Preflight(q, policy) /\ session # 0
    THEN request' = [request EXCEPT ![q].at = to,
                                    ![q].snap = [policy |-> policy, gen |-> session]]
    ELSE Refuse(q)

\* Its end, with what the engine answered: still the same connection, still
\* the same policy.
Resolved(q) == session = request[q].snap.gen /\ Preflight(q, request[q].snap.policy)
NewReview(q, v) ==
    [policy |-> request[q].snap.policy, gen |-> request[q].snap.gen, seen |-> v]

FirstReview(q) ==
    /\ At(q, "leased")
    /\ Resolve(q, "first")
    /\ UNCHANGED <<tokenVars, revoker, cleared, brokerVars, worldVars, actorVars>>

\* The engine may fail, the target be out of scope, the five seconds pass.
ReviewFails(q) ==
    /\ At(q, "first") \/ At(q, "again")
    /\ Refuse(q)
    /\ UNCHANGED <<tokenVars, revoker, cleared, brokerVars, worldVars, actorVars>>

\* The permit is issued, validated and, with the item, enqueued.
Issue(q, r, confirmed) ==
    IF MayIssue(q, r.policy, confirmed) /\ ValidatePermit(q, r, confirmed, r.gen)
    THEN request' = [request EXCEPT ![q] = [@ EXCEPT !.at = "queued", !.permit = r,
                                                     !.confirmed = confirmed,
                                                     !.snap = Future("").snap,
                                                     !.review = NoReview]]
    ELSE Refuse(q)

AskUser(q, r) ==
    request' = [request EXCEPT ![q] = [@ EXCEPT !.at = "confirm", !.review = r,
                                                !.snap = Future("").snap]]

EndFirstReview(q, v) ==
    /\ At(q, "first") /\ Resolved(q)
    /\ IF NeedsConfirmation(q, NewReview(q, v))
       THEN AskUser(q, NewReview(q, v))
       ELSE Issue(q, NewReview(q, v), FALSE)
    /\ UNCHANGED <<tokenVars, revoker, cleared, brokerVars, worldVars, actorVars>>

\* McpConfirmationBroker::request looks at the lease first ...
CheckConfirmation(q) ==
    /\ At(q, "confirm")
    /\ IF IsCurrent(q) THEN request' = [request EXCEPT ![q].at = "insert"] ELSE Refuse(q)
    /\ UNCHANGED <<tokenVars, revoker, cleared, brokerVars, worldVars, actorVars>>

\* ... and registers later, under the broker's lock, with an id from the
\* random source, if a place is free.
RegisterConfirmation(q) ==
    /\ At(q, "insert")
    /\ IF ids < MaxDialogs /\ Cardinality(pending) < MaxPending
       THEN /\ pending' = pending \cup {q}
            /\ decision' = [decision EXCEPT ![q] = "open"]
            /\ ids' = ids + 1
            /\ request' = [request EXCEPT ![q].at = "waiting"]
       ELSE Refuse(q) /\ UNCHANGED brokerVars
    /\ UNCHANGED <<tokenVars, revoker, cleared, worldVars, actorVars>>

\* The user answers a dialog; decide() finds nothing for an id that is no
\* longer registered.
Decide(q, yes) ==
    /\ q \in pending
    /\ pending' = pending \ {q}
    /\ decision' = [decision EXCEPT ![q] = IF yes THEN "approved" ELSE "rejected"]
    /\ request' = IF yes THEN [request EXCEPT ![q].approval = request[q].review] ELSE request
    /\ UNCHANGED <<tokenVars, revoker, cleared, ids, worldVars, actorVars>>

\* The select is biased: cancellation, deadline and another connection come
\* before the decision.
Interrupted(q) == request[q].lease.cancelled \/ request[q].lease.over \/ session # request[q].review.gen

\* Mutant of WaitEnds: only the screen can end the wait.
WaitEndsByScreen(q) ==
    /\ At(q, "waiting")
    /\ decision[q] = "rejected"
    /\ Refuse(q)
    /\ pending' = pending \ {q}
    /\ decision' = [decision EXCEPT ![q] = "none"]
    /\ UNCHANGED <<tokenVars, revoker, cleared, ids, worldVars, actorVars>>

\* The registration is dropped with the future.
WaitEnds(q) ==
    /\ At(q, "waiting")
    /\ Interrupted(q) \/ decision[q] \in {"rejected", "dropped"}
    /\ Refuse(q)
    /\ pending' = pending \ {q}
    /\ decision' = [decision EXCEPT ![q] = "none"]
    /\ UNCHANGED <<tokenVars, revoker, cleared, ids, worldVars, actorVars>>

\* Approved: the same review is taken again.
WaitApproved(q) ==
    /\ At(q, "waiting") /\ decision[q] = "approved"
    /\ ~Interrupted(q)
    /\ Resolve(q, "again")
    /\ decision' = [decision EXCEPT ![q] = "none"]
    /\ UNCHANGED <<tokenVars, revoker, cleared, pending, ids, worldVars, actorVars>>

\* Mutant of EndSecondReview: the approval counts for whatever is there now.
EndSecondReviewBlind(q, v) ==
    /\ At(q, "again") /\ Resolved(q)
    /\ Issue(q, NewReview(q, v), TRUE)
    /\ UNCHANGED <<tokenVars, revoker, cleared, brokerVars, worldVars, actorVars>>

\* A review that differs from the one shown is shown again; an equal one is
\* permitted.
EndSecondReview(q, v) ==
    /\ At(q, "again") /\ Resolved(q)
    /\ IF NewReview(q, v) # request[q].review
       THEN AskUser(q, NewReview(q, v))
       ELSE Issue(q, NewReview(q, v), TRUE)
    /\ UNCHANGED <<tokenVars, revoker, cleared, brokerVars, worldVars, actorVars>>

\* authorize_operation and submit_tracked_mcp race the whole of it against
\* the lease.
GiveUp(q) ==
    /\ request[q].at \in {"leased", "first", "confirm", "insert", "again", "queued"}
    /\ request[q].lease.cancelled \/ request[q].lease.over
    /\ Refuse(q)
    /\ UNCHANGED <<tokenVars, revoker, cleared, brokerVars, worldVars, actorVars>>

----------------------------------------------------------------------------
(* The actor.                                                              *)

ActorFree == item = Nobody /\ revoker[Actor].at = "idle"

\* process_item_inner: the permit and its review are checked behind the
\* queue, against the connection the item was enqueued on.
BeginRevalidation(q) ==
    /\ ActorFree /\ At(q, "queued")
    /\ IF /\ request[q].permit.gen = session
          /\ ValidatePermit(q, request[q].permit, request[q].confirmed, session)
       THEN Resolve(q, "queue")
       ELSE Refuse(q)
    /\ item' = IF request'[q].at = "queue" THEN q ELSE Nobody
    /\ UNCHANGED <<tokenVars, revoker, cleared, brokerVars, worldVars, unseen, observed>>

RevalidationFails(q) ==
    /\ At(q, "queue")
    /\ Refuse(q) /\ item' = Nobody
    /\ UNCHANGED <<tokenVars, revoker, cleared, brokerVars, worldVars, unseen, observed>>

\* revalidate_queued_permit's verdict: the write may start, or the request
\* goes back and must be confirmed.
EndRevalidation(q, v) ==
    /\ At(q, "queue") /\ Resolved(q)
    /\ ValidatePermit(q, request[q].permit, request[q].confirmed, request[q].permit.gen)
    /\ IF NewReview(q, v) = request[q].permit
       THEN request' = [request EXCEPT ![q].at = "ready"] /\ UNCHANGED item
       ELSE /\ request' = [request EXCEPT ![q] = [Future("leased") EXCEPT
                                !.lease = request[q].lease, !.dangerous = request[q].dangerous,
                                !.forced = TRUE]]
            /\ item' = Nobody
    /\ UNCHANGED <<tokenVars, revoker, cleared, brokerVars, worldVars, unseen, observed>>

\* Mutant of Start: no last look at the lease.
StartUnchecked(q) ==
    /\ At(q, "ready")
    /\ request' = [request EXCEPT ![q].at = "running"]
    /\ UNCHANGED <<tokenVars, revoker, cleared, brokerVars, worldVars, actorVars>>

\* The last look at the lease, and the write starts.
Start(q) ==
    /\ At(q, "ready")
    /\ IF IsCurrent(q)
       THEN request' = [request EXCEPT ![q].at = "running"] /\ UNCHANGED item
       ELSE Refuse(q) /\ item' = Nobody
    /\ UNCHANGED <<tokenVars, revoker, cleared, brokerVars, worldVars, unseen, observed>>

Finish(q) ==
    /\ At(q, "running")
    /\ request' = [request EXCEPT ![q] = Future("done")] /\ item' = Nobody
    /\ UNCHANGED <<tokenVars, revoker, cleared, brokerVars, worldVars, unseen, observed>>

\* The running item's select takes the session change: the item ends, and
\* run_actor will not see this change.
SessionSeenByItem(q) ==
    /\ At(q, "running") /\ unseen
    /\ unseen' = FALSE
    /\ IF session # request[q].permit.gen
       THEN request' = [request EXCEPT ![q] = Future("done")] /\ item' = Nobody
       ELSE UNCHANGED <<request, item>>
    /\ UNCHANGED <<tokenVars, revoker, cleared, brokerVars, worldVars, observed>>

\* run_actor takes it: another generation revokes.
SessionSeenByActor ==
    /\ ActorFree /\ unseen
    /\ unseen' = FALSE
    /\ observed' = session
    /\ revoker' = IF session # observed THEN [revoker EXCEPT ![Actor].at = "bump"] ELSE revoker
    /\ UNCHANGED <<tokenVars, cleared, request, brokerVars, worldVars, item>>

----------------------------------------------------------------------------
(* The connection.                                                         *)

SessionChanges ==
    /\ \/ session # 0 /\ MayDisturb /\ session' = 0 /\ UNCHANGED lastGen
       \/ session = 0 /\ session' = lastGen + 1 /\ lastGen' = lastGen + 1
    /\ unseen' = TRUE
    /\ UNCHANGED <<tokenVars, revoker, cleared, request, brokerVars, observed, item>>

----------------------------------------------------------------------------
\* Everything there is to do is done: what is left is waiting for nothing.
Quiet ==
    /\ \A q \in Requests : Ended(q)
    /\ \A r \in Revokers : revoker[r].at \in {"idle", "done"}
    /\ UNCHANGED vars

RequestStep(q) ==
    \/ LeaseRegister(q) \/ FirstReview(q) \/ ReviewFails(q)
    \/ \E v \in SceneValues : EndFirstReview(q, v) \/ EndSecondReview(q, v)
    \/ CheckConfirmation(q) \/ RegisterConfirmation(q) \/ WaitEnds(q) \/ WaitApproved(q)
    \/ GiveUp(q)

ActorStep ==
    \/ \E q \in Requests :
          \/ BeginRevalidation(q) \/ RevalidationFails(q)
          \/ \E v \in SceneValues : EndRevalidation(q, v)
          \/ Start(q) \/ Finish(q) \/ SessionSeenByItem(q)
    \/ SessionSeenByActor

RevokeStep(r) == RevokeBump(r) \/ RevokeLeases(r) \/ RevokeBroker(r)

Next ==
    \/ \E q \in Requests, danger \in BOOLEAN : LeaseBegin(q, danger)
    \/ \E q \in Requests : LeaseOver(q) \/ RequestStep(q)
    \/ \E r \in Revokers : SetWriteSettings(r) \/ ChangeToken(r) \/ RevokeStep(r)
    \/ \E q \in Requests, yes \in BOOLEAN : Decide(q, yes)
    \/ ActorStep
    \/ SessionChanges
    \/ Quiet

Spec == Init /\ [][Next]_vars

\* Tasks and threads are scheduled, the actor works, and deadlines pass.
\* Nothing is assumed of the user, the engine or the connection.
Fairness ==
    /\ \A q \in Requests : WF_vars(RequestStep(q)) /\ WF_vars(LeaseOver(q))
    /\ \A r \in Revokers : WF_vars(RevokeStep(r))
    /\ WF_vars(ActorStep)

FairSpec == Spec /\ Fairness

----------------------------------------------------------------------------
Policies == [mode : Modes, rev : Nat]
Reviews == [policy : Policies, gen : Nat, seen : SceneValues \cup {Nobody}]

\* Every variable has its type.
TypeOK ==
    /\ token \in BOOLEAN /\ tokenLock \in TokenCalls \cup {Nobody}
    /\ revision \in Nat /\ leases \subseteq Requests
    /\ policy \in Policies
    /\ revoker \in [Revokers -> [at : {"idle", "bump", "leases", "broker", "done"}, mine : Nat]]
    /\ cleared \in Nat
    /\ request \in [Requests ->
           [at : {"none", "leasing", "leased", "first", "confirm", "insert", "waiting", "again",
                  "queued", "queue", "ready", "running", "refused", "done"},
            dangerous : BOOLEAN, lease : [rev : Nat, cancelled : BOOLEAN, over : BOOLEAN],
            snap : [policy : Policies, gen : Nat], review : Reviews, forced : BOOLEAN,
            permit : Reviews, confirmed : BOOLEAN, approval : Reviews]]
    /\ pending \subseteq Requests /\ ids \in Nat
    /\ decision \in [Requests -> {"none", "open", "approved", "rejected", "dropped"}]
    /\ session \in Nat /\ lastGen \in Nat
    /\ unseen \in BOOLEAN /\ observed \in Nat /\ item \in Requests \cup {Nobody}

\* Once a revocation is through the lease list, every lease of an older
\* revision is cancelled, so that whoever waits on it is woken: also a lease
\* that was being taken while the revision moved.
RevokedStaysOut ==
    \A q \in Requests : request[q].lease.rev \in 1..cleared - 1 => request[q].lease.cancelled

\* What the screen shows is waited for: every registered confirmation has a
\* request that still waits for its answer.
ShownIsAwaited ==
    \A q \in pending : request[q].at = "waiting" /\ decision[q] = "open"

\* A write that had to be confirmed starts only as the user approved it: the
\* same policy, connection, target and values, read again behind the queue.
ApprovedIsWhatStarts ==
    \A q \in Requests :
        request[q].at \in {"ready", "running"} /\ NeedsConfirmation(q, request[q].permit)
        => request[q].approval = request[q].permit

\* A confirmation binds both sides: nothing is shown to the user that no request
\* waits for, and nothing starts that differs from what the user approved.
ConfirmationBinds == TypeOK /\ ShownIsAwaited /\ ApprovedIsWhatStarts

\* When set_write_settings has returned, no write permitted before it
\* starts.  (While it is between the policy and the revision one still may.)
StartsUnderCurrentPolicy ==
    [][\A q \in Requests :
          request[q].at # "running" /\ request'[q].at = "running"
          => \/ request[q].permit.policy = policy
             \/ \E r \in Settings : revoker[r].at = "bump"]_vars

\* Every authenticated request ends, whatever the user does.
RequestSettles ==
    \A q \in Requests :
        request[q].at \notin {"none", "refused", "done"} ~> request[q].at \in {"refused", "done"}
=============================================================================
