----------------------------- MODULE EditQueue -----------------------------
(***************************************************************************)
(* The edit service's bounded queue and its tickets (edit_service.rs), and *)
(* what an MCP client and the operation panel are told of a write          *)
(* (edit_service/mcp.rs, mcp/writes.rs, mcp/operations.rs).                *)
(*                                                                         *)
(* A caller holds a ticket, the actor the item.  They share an atomic      *)
(* (queue_state) in which the caller's cancellation races the actor's      *)
(* start, and for MCP an McpExecution that both of them write and read.    *)
(* What an edit does to the history is the subject of EditService; here an *)
(* edit is a number of requests to the engine, one or, for the undo of a   *)
(* group, several.  An edit from the screen takes the same path without    *)
(* confirmation, lease or record; it is a write that never gives up.       *)
(***************************************************************************)
EXTENDS Naturals, Sequences, FiniteSets

CONSTANTS
    Writes,         \* MCP write calls
    Controls,       \* those that begin or end a group
    Steps,          \* requests to the engine each write needs; a control takes effect at once
    Capacity,       \* QUEUE_CAPACITY
    MaxReconfirms,  \* bound on reconfirmations of one write (its deadline, in the code)
    Nobody          \* no item

ASSUME QueueAssumption ==
    /\ Controls \subseteq Writes
    /\ Steps \in [Writes -> Nat \ {0}]
    /\ \A r \in Controls : Steps[r] = 1
    /\ Capacity \in Nat \ {0}
    /\ MaxReconfirms \in Nat
    /\ Nobody \notin Writes

VARIABLES
    call,       \* where each caller stands
    success,    \* whether the caller got a result rather than an error
    gone,       \* writes whose HTTP client is gone
    over,       \* writes whose lease is over: deadline, cancellation, revocation
    tries,      \* reconfirmations of each write
    accepting,  \* Admission.accepting
    queue,      \* the mpsc channel
    ticket,     \* queue_state of each request's last ticket
    held,       \* the ticket's cancel sender is alive
    result,     \* the item's oneshot
    actor,      \* where the actor stands
    item,       \* the request it works on
    exec,       \* McpExecution.state
    confirmed,  \* McpExecution.completed: requests the engine confirmed
    record,     \* the operation record of each write
    report,     \* the outcome the MCP client was told
    engine,     \* the request of each item at the engine
    applied,    \* how often the engine (or a group control) changed something
    stop        \* where shutdown() stands

callerVars == <<call, success, gone, over, tries>>
ticketVars == <<accepting, queue, ticket, held, result>>
actorVars == <<actor, item>>
trackVars == <<exec, confirmed, record, report>>
engineVars == <<engine, applied>>
vars == <<callerVars, ticketVars, actorVars, trackVars, engineVars, stop>>

Outcomes == {"unknown", "rejected", "partial", "applied", "noChange", "notApplied"}

Init ==
    /\ call = [r \in Writes |-> "idle"]
    /\ success = [r \in Writes |-> FALSE]
    /\ gone = {} /\ over = {}
    /\ tries = [r \in Writes |-> 0]
    /\ accepting = TRUE
    /\ queue = <<>>
    /\ ticket = [r \in Writes |-> "none"]
    /\ held = [r \in Writes |-> FALSE]
    /\ result = [r \in Writes |-> "none"]
    /\ actor = "idle" /\ item = Nobody
    /\ exec = [r \in Writes |-> "untouched"]
    /\ confirmed = [r \in Writes |-> 0]
    /\ record = [r \in Writes |-> [final |-> FALSE, outcome |-> "notApplied"]]
    /\ report = [r \in Writes |-> "none"]
    /\ engine = [r \in Writes |-> "none"]
    /\ applied = [r \in Writes |-> 0]
    /\ stop = "idle"

-----------------------------------------------------------------------------
(* McpExecution.                                                           *)

\* outcome(success), for a value x of the state.
Outcome(r, x, ok) ==
    CASE x = "sent" -> "unknown"
      [] x = "rejected" -> IF confirmed[r] = 0 THEN "rejected" ELSE "partial"
      [] x = "finished" -> IF ok THEN "applied" ELSE "partial"
      [] x \in {"untouched", "notSent"} /\ ok -> "noChange"
      [] x = "untouched" /\ ~ok -> IF ticket[r] = "started" THEN "unknown" ELSE "notApplied"
      [] x = "notSent" /\ ~ok -> IF confirmed[r] > 0 THEN "partial" ELSE "notApplied"

\* Mutant of AfterActor: the actor's return counts as proof that nothing was sent.
AfterActorBlind(x) == "notSent"

\* The exchange 0 -> 4: once the actor has returned, untouched means never sent.
AfterActor(x) == IF x = "untouched" THEN "notSent" ELSE x

\* record_result and OperationHandle::finish: a final record is never overwritten.
RecordResult(r, x, ok, final) ==
    LET y == IF final THEN AfterActor(x) ELSE x
    IN  /\ exec' = [exec EXCEPT ![r] = y]
        /\ record' = IF record[r].final THEN record
                     ELSE [record EXCEPT ![r] = [final |-> final, outcome |-> Outcome(r, y, ok)]]

-----------------------------------------------------------------------------
(* The callers.                                                            *)

Goto(r, p) == call' = [call EXCEPT ![r] = p]

CancelTicket(r) == ticket' = [ticket EXCEPT ![r] = IF @ = "waiting" THEN "cancelled" ELSE @]

\* An MCP edit is confirmed first; a group control is not.
Submit(r) ==
    /\ call[r] = "idle"
    /\ Goto(r, IF r \notin Controls THEN "confirming" ELSE "submitting")
    /\ UNCHANGED <<success, gone, over, tries, ticketVars, actorVars, trackVars, engineVars, stop>>

\* authorize_write or authorize_history: approved or refused.
Confirm(r) ==
    /\ call[r] = "confirming"
    /\ Goto(r, "submitting") \/ Goto(r, "recording")
    /\ UNCHANGED <<success, gone, over, tries, ticketVars, actorVars, trackVars, engineVars, stop>>

\* Under the admission lock: refused when stopping, disconnected or full.
Enqueue(r) ==
    /\ call[r] = "submitting"
    /\ \E connected \in BOOLEAN :
         IF accepting /\ actor # "stopped" /\ connected /\ Len(queue) < Capacity
         THEN /\ queue' = Append(queue, r)
              /\ ticket' = [ticket EXCEPT ![r] = "waiting"]
              /\ held' = [held EXCEPT ![r] = TRUE]
              /\ result' = [result EXCEPT ![r] = "none"]
              /\ Goto(r, "waiting")
         ELSE Goto(r, "recording") /\ UNCHANGED <<queue, ticket, held, result>>
    /\ UNCHANGED <<success, gone, over, tries, accepting, actorVars, trackVars, engineVars, stop>>

\* The result arrives and the ticket is dropped.
Receive(r) ==
    /\ call[r] = "waiting"
    /\ result[r] # "none"
    /\ CancelTicket(r)
    /\ held' = [held EXCEPT ![r] = FALSE]
    /\ IF result[r] = "reconfirm"
       THEN Goto(r, "confirming") /\ UNCHANGED success
       ELSE Goto(r, "recording") /\ success' = [success EXCEPT ![r] = result[r] = "ok"]
    /\ UNCHANGED <<gone, over, tries, accepting, queue, result, actorVars, trackVars, engineVars, stop>>

\* The deadline passes, the request is cancelled or the authorization revoked.
LeaseEnds(r) ==
    /\ r \notin over
    /\ call[r] \notin {"idle", "returned"}
    /\ over' = over \cup {r}
    /\ UNCHANGED <<call, success, gone, tries, ticketVars, actorVars, trackVars, engineVars, stop>>

\* The caller's wait ends without a result: its lease is over, or the HTTP
\* client went away and the future is dropped.  queue_state is exchanged first.
GiveUp(r) ==
    /\ call[r] \in {"confirming", "waiting"}
    /\ \/ r \in over /\ gone' = gone
       \/ gone' = gone \cup {r}
    /\ IF call[r] = "waiting"
       THEN CancelTicket(r) /\ Goto(r, "dropping")
       ELSE Goto(r, "recording") /\ UNCHANGED ticket
    /\ UNCHANGED <<success, over, tries, accepting, queue, held, result, actorVars, trackVars, engineVars, stop>>

\* Then the cancel sender is dropped.
DropCancel(r) ==
    /\ call[r] = "dropping"
    /\ held' = [held EXCEPT ![r] = FALSE]
    /\ Goto(r, "recording")
    /\ UNCHANGED <<success, gone, over, tries, accepting, queue, ticket, result, actorVars, trackVars, engineVars, stop>>

\* record_result of call_write_tool or WriteCapture: final when nothing was queued.
Record(r) ==
    /\ call[r] = "recording"
    /\ RecordResult(r, exec[r], success[r], ticket[r] = "none")
    /\ Goto(r, IF r \in gone THEN "returned" ELSE "reporting")
    /\ UNCHANGED <<success, gone, over, tries, ticketVars, actorVars, confirmed, report, engineVars, stop>>

\* write_result: a final record overrides what the execution shows.
Report(r) ==
    /\ call[r] = "reporting"
    /\ report' = [report EXCEPT ![r] =
                    IF record[r].final THEN record[r].outcome
                    ELSE IF success[r] /\ r \in Controls THEN "applied"
                    ELSE Outcome(r, exec[r], success[r])]
    /\ Goto(r, "returned")
    /\ UNCHANGED <<success, gone, over, tries, ticketVars, actorVars, exec, confirmed, record, engineVars, stop>>

-----------------------------------------------------------------------------
(* The actor.                                                              *)

Signalled == stop # "idle"
ActorGoes(p) == actor' = p /\ item' = item

\* The end of process_item: the record becomes final, then the caller gets the
\* result.  A reconfirmation is not recorded.
Conclude(res, x, next) ==
    /\ result' = [result EXCEPT ![item] = res]
    /\ IF res = "reconfirm" THEN UNCHANGED <<exec, record>>
       ELSE RecordResult(item, x, res = "ok", TRUE)
    /\ actor' = next /\ item' = Nobody

\* The select of run_actor is biased: a shutdown comes first.
Take ==
    /\ actor = "idle" /\ queue # <<>> /\ ~Signalled
    /\ item' = Head(queue)
    /\ queue' = Tail(queue)
    /\ actor' = "checking"
    /\ UNCHANGED <<callerVars, accepting, ticket, held, result, trackVars, engineVars, stop>>

\* The lease, then the cancel channel, then the connection.
Check ==
    /\ actor = "checking"
    /\ \/ /\ Conclude("err", exec[item], "idle")
       \/ /\ item \notin over /\ held[item]
          /\ ActorGoes(IF item \in Controls THEN "control" ELSE "revalidating")
          /\ UNCHANGED <<result, exec, record>>
    /\ UNCHANGED <<callerVars, accepting, queue, ticket, held, confirmed, report, engineVars, stop>>

\* process_control_item looks at the lease again, and at the connection...
ControlCheck ==
    /\ actor = "control"
    /\ \/ Conclude("err", exec[item], "idle")
       \/ /\ item \notin over
          /\ ActorGoes("controlling")
          /\ UNCHANGED <<result, exec, record>>
    /\ UNCHANGED <<callerVars, accepting, queue, ticket, held, confirmed, report, engineVars, stop>>

\* ... and begins or ends the group.  It never looks at queue_state.
Control ==
    /\ actor = "controlling"
    /\ applied' = [applied EXCEPT ![item] = @ + 1]
    /\ Conclude("ok", "finished", "idle")
    /\ UNCHANGED <<callerVars, accepting, queue, ticket, held, confirmed, report, engine, stop>>

\* revalidate_queued_permit, under every reason to stop waiting for it.
Revalidate ==
    /\ actor = "revalidating"
    /\ \/ /\ Signalled
          /\ Conclude("err", exec[item], "draining") /\ UNCHANGED tries
       \/ /\ ~Signalled
          /\ Conclude("err", exec[item], "idle") /\ UNCHANGED tries
       \/ /\ ~Signalled /\ item \notin over /\ held[item] /\ tries[item] < MaxReconfirms
          /\ tries' = [tries EXCEPT ![item] = @ + 1]
          /\ Conclude("reconfirm", exec[item], "idle")
       \/ /\ ~Signalled /\ item \notin over /\ held[item]
          /\ ActorGoes("prepared")
          /\ UNCHANGED <<tries, result, exec, record>>
    /\ UNCHANGED <<call, success, gone, over, accepting, queue, ticket, held, confirmed, report, engineVars, stop>>

\* Mutant of Start: the item runs and its ticket is still waiting.
StartUnmarked ==
    /\ actor = "prepared"
    /\ item \notin over /\ ticket[item] = "waiting"
    /\ ActorGoes("running")
    /\ UNCHANGED <<callerVars, ticketVars, trackVars, engineVars, stop>>

\* The history refuses the edit or has nothing to undo; otherwise the lease is
\* checked once more and queue_state exchanged from waiting to started.
Start ==
    /\ actor = "prepared"
    /\ \/ /\ \E res \in {"ok", "err"} : Conclude(res, exec[item], "idle")
          /\ UNCHANGED ticket
       \/ /\ ticket[item] # "waiting"
          /\ Conclude("err", exec[item], "idle")
          /\ UNCHANGED ticket
       \/ /\ item \notin over /\ ticket[item] = "waiting"
          /\ ticket' = [ticket EXCEPT ![item] = "started"]
          /\ ActorGoes("running")
          /\ UNCHANGED <<result, exec, record>>
    /\ UNCHANGED <<callerVars, accepting, queue, held, confirmed, report, engineVars, stop>>

\* The next request of the item: not sent when the lease is over or the request
\* cannot be built.  Between two requests the lease ends the item, without notSent.
SendCheck ==
    /\ actor = "running" /\ ~Signalled
    /\ \/ IF confirmed[item] > 0 /\ item \in over
          THEN Conclude("err", exec[item], "idle")
          ELSE Conclude("err", "notSent", "idle")
       \/ /\ item \notin over
          /\ ActorGoes("sending")
          /\ UNCHANGED <<result, exec, record>>
    /\ UNCHANGED <<callerVars, accepting, queue, ticket, held, confirmed, report, engineVars, stop>>

\* From the check to here there is no await, but other threads run.
Send ==
    /\ actor = "sending"
    /\ exec' = [exec EXCEPT ![item] = "sent"]
    /\ engine' = [engine EXCEPT ![item] = "sent"]
    /\ ActorGoes("awaiting")
    /\ UNCHANGED <<callerVars, ticketVars, confirmed, record, report, applied, stop>>

\* The engine's answer: accepted, accepted:false (a result) or an error.
Answer ==
    /\ actor = "awaiting" /\ ~Signalled
    /\ \/ /\ engine[item] = "applied"
          /\ confirmed' = [confirmed EXCEPT ![item] = @ + 1]
          /\ engine' = [engine EXCEPT ![item] = "none"]
          /\ IF confirmed[item] + 1 = Steps[item]
             THEN Conclude("ok", "finished", "idle")
             ELSE /\ exec' = [exec EXCEPT ![item] = "finished"]
                  /\ ActorGoes("running")
                  /\ UNCHANGED <<result, record>>
       \/ /\ engine[item] = "refused"
          /\ engine' = [engine EXCEPT ![item] = "none"]
          /\ \E res \in {"ok", "err"} :
               /\ res = "ok" => Steps[item] = 1
               /\ Conclude(res, "rejected", "idle")
          /\ UNCHANGED confirmed
    /\ UNCHANGED <<callerVars, accepting, queue, ticket, held, report, applied, stop>>

\* No usable answer: timeout, transport, malformed, or the session changed.
Unanswered ==
    /\ actor \in {"running", "awaiting"} /\ ~Signalled
    /\ Conclude("err", exec[item], "idle")
    /\ UNCHANGED <<callerVars, accepting, queue, ticket, held, confirmed, report, engineVars, stop>>

\* A shutdown interrupts the item.
Interrupt ==
    /\ actor \in {"running", "awaiting"} /\ Signalled
    /\ Conclude("err", exec[item], "draining")
    /\ UNCHANGED <<callerVars, accepting, queue, ticket, held, confirmed, report, engineVars, stop>>

InQueue == {queue[i] : i \in 1..Len(queue)}

\* Mutant of Drain: the actor ends and the queued items are never answered.
DrainNothing ==
    /\ actor = "draining" \/ (actor = "idle" /\ Signalled)
    /\ actor' = "stopped"
    /\ UNCHANGED <<callerVars, ticketVars, item, trackVars, engineVars, stop>>

\* The receiver is closed and every queued item told that the service stops.
Drain ==
    /\ actor = "draining" \/ (actor = "idle" /\ Signalled)
    /\ result' = [r \in Writes |-> IF r \in InQueue THEN "err" ELSE result[r]]
    /\ queue' = <<>>
    /\ actor' = "stopped"
    /\ UNCHANGED <<callerVars, accepting, ticket, held, item, trackVars, engineVars, stop>>

ActorStep ==
    \/ Take \/ Check \/ ControlCheck \/ Control \/ Revalidate \/ Start
    \/ SendCheck \/ Send \/ Answer \/ Unanswered \/ Interrupt \/ Drain

-----------------------------------------------------------------------------
(* The engine (external) and the end of the service.                       *)

EngineHandles(r) ==
    /\ engine[r] = "sent"
    /\ \/ /\ engine' = [engine EXCEPT ![r] = "applied"]
          /\ applied' = [applied EXCEPT ![r] = @ + 1]
       \/ /\ engine' = [engine EXCEPT ![r] = "refused"]
          /\ UNCHANGED applied
    /\ UNCHANGED <<callerVars, ticketVars, actorVars, trackVars, stop>>

Shutdown ==
    /\ stop = "idle"
    /\ accepting' = FALSE
    /\ stop' = "joining"
    /\ UNCHANGED <<callerVars, queue, ticket, held, result, actorVars, trackVars, engineVars>>

\* After SHUTDOWN_GRACE the actor is aborted at its await: what it held is dropped.
Abort ==
    /\ stop = "joining" /\ actor \in {"idle", "revalidating", "awaiting"}
    /\ result' = [r \in Writes |-> IF r \in InQueue \cup {item} THEN "err" ELSE result[r]]
    /\ queue' = <<>>
    /\ IF item = Nobody THEN UNCHANGED <<exec, record>>
       ELSE RecordResult(item, exec[item], FALSE, TRUE)
    /\ actor' = "stopped" /\ item' = Nobody
    /\ UNCHANGED <<callerVars, accepting, ticket, held, confirmed, report, engineVars, stop>>

\* Mutant of Joined: shutdown() returns without waiting for the actor.
JoinedAtOnce ==
    /\ stop = "joining"
    /\ stop' = "done"
    /\ UNCHANGED <<callerVars, ticketVars, actorVars, trackVars, engineVars>>

Joined ==
    /\ stop = "joining" /\ actor = "stopped"
    /\ stop' = "done"
    /\ UNCHANGED <<callerVars, ticketVars, actorVars, trackVars, engineVars>>

CallStep(r) ==
    Confirm(r) \/ Enqueue(r) \/ Receive(r) \/ DropCancel(r) \/ Record(r) \/ Report(r)

Next ==
    \/ \E r \in Writes : Submit(r) \/ CallStep(r) \/ LeaseEnds(r) \/ GiveUp(r) \/ EngineHandles(r)
    \/ ActorStep
    \/ Shutdown \/ Abort \/ Joined

Spec == Init /\ [][Next]_vars

\* Every runnable task runs; a request to the engine ends with an answer or
\* with REQUEST_TIMEOUT, a confirmation with an answer or the deadline.
Fairness ==
    /\ \A r \in Writes : WF_vars(CallStep(r))
    /\ WF_vars(ActorStep)
    /\ WF_vars(Joined)

FairSpec == Spec /\ Fairness

-----------------------------------------------------------------------------
(* Properties.                                                             *)

\* Tickets, results and records keep their types; the queue keeps its limit and
\* holds a request at most once, and a group control reaches no engine.
TypeOK ==
    /\ call \in [Writes -> {"idle", "confirming", "submitting", "waiting", "dropping",
                              "recording", "reporting", "returned"}]
    /\ success \in [Writes -> BOOLEAN]
    /\ gone \in SUBSET Writes /\ over \in SUBSET Writes
    /\ tries \in [Writes -> 0..MaxReconfirms]
    /\ accepting \in BOOLEAN
    /\ queue \in Seq(Writes) /\ Len(queue) <= Capacity
    /\ Cardinality(InQueue) = Len(queue)
    /\ ticket \in [Writes -> {"none", "waiting", "started", "cancelled"}]
    /\ held \in [Writes -> BOOLEAN]
    /\ result \in [Writes -> {"none", "ok", "err", "reconfirm"}]
    /\ actor \in {"idle", "checking", "control", "controlling", "revalidating", "prepared",
                  "running", "sending", "awaiting", "draining", "stopped"}
    /\ item \in Writes \cup {Nobody}
    /\ (item = Nobody) <=> (actor \in {"idle", "draining", "stopped"})
    /\ exec \in [Writes -> {"untouched", "sent", "rejected", "finished", "notSent"}]
    /\ confirmed \in [Writes -> Nat]
    /\ record \in [Writes -> [final : BOOLEAN, outcome : Outcomes]]
    /\ report \in [Writes -> Outcomes \cup {"none"}]
    /\ engine \in [Writes -> {"none", "sent", "applied", "refused"}]
    /\ applied \in [Writes -> Nat]
    /\ stop \in {"idle", "joining", "done"}

\* What an outcome says of the engine, now and for ever after.
Truthful(r, outcome) ==
    /\ outcome \in {"notApplied", "rejected", "noChange"} => applied[r] = 0
    /\ outcome = "applied" => applied[r] = Steps[r]
    /\ outcome = "partial" => applied[r] > 0

\* What the MCP client was told is and stays true: a write reported as not
\* applied is never applied later, although its cancellation raced the actor.
ReportIsTrue == \A r \in Writes : report[r] # "none" => Truthful(r, report[r])

\* The same of edits, undos and redos: the writes that exchange queue_state
\* before they start.
EditReportIsTrue == \A r \in Writes \ Controls : report[r] # "none" => Truthful(r, report[r])

\* The same of the operation panel, once the record is final, whether the actor
\* ended the item, was interrupted or was aborted.
RecordIsTrue == \A r \in Writes : record[r].final => Truthful(r, record[r].outcome)

\* shutdown() returns with nothing left: no item is queued or in work and no
\* caller waits for a result that will not come.
ShutdownSettles ==
    stop = "done" => /\ actor = "stopped" /\ queue = <<>>
                     /\ \A r \in Writes : call[r] = "waiting" => result[r] # "none"

\* While the service runs, a record is final when its call has returned and the
\* actor holds nothing of it any more: the panel does not show "confirming the
\* result" for ever.
Settles(r) ==
    call[r] = "returned" /\ r \notin InQueue \cup {item} /\ stop = "idle" => record[r].final

\* The record of a write that was never sent back for confirmation becomes final.
FirstTryRecordSettles == \A r \in Writes : tries[r] = 0 => Settles(r)

\* What the operation panel keeps of a write is true once it is final, and it
\* does become final.
RecordsAreTrue == TypeOK /\ RecordIsTrue /\ FirstTryRecordSettles

\* Every call returns, also one that never gives up (as the screen's, which has
\* no deadline: no fairness is assumed of LeaseEnds and GiveUp).
CallReturns == \A r \in Writes : call[r] = "waiting" ~> call[r] = "returned"

\* shutdown() returns, whatever the actor was doing.
ShutdownReturns == stop = "joining" ~> stop = "done"

\* Nobody waits for the service for ever: neither the callers nor shutdown().
ServiceReturns == CallReturns /\ ShutdownReturns
=============================================================================
