-------------------------- MODULE EditQueueProofs --------------------------
(***************************************************************************)
(* Proofs about the edit queue and what is told of a write, for every set  *)
(* of writes, every number of requests a write needs, every capacity and   *)
(* every number of reconfirmations.                                        *)
(***************************************************************************)
EXTENDS EditQueue, FiniteSetTheorems, TLAPS

-----------------------------------------------------------------------------
(* The inductive invariant, in three layers.                               *)

\* The call has nothing with the actor, and may submit the write (again).
Early == {"idle", "confirming", "submitting"}

\* The items of the actor: what is queued and what it works on.
Active == InQueue \cup {item}

\* No item is queued twice, and the one in work is not queued any more.
QueuedOnce ==
    /\ IsFiniteSet(InQueue)
    /\ \A i, j \in 1..Len(queue) : queue[i] = queue[j] => i = j
    /\ item \notin InQueue

\* Who waits is known to the actor, and what the actor has was not answered yet.
WaitingIsActive ==
    \A r \in Writes :
        /\ call[r] = "waiting" /\ result[r] = "none" => r \in Active
        /\ r \in Active => /\ result[r] = "none" /\ call[r] \notin Early
                           /\ ticket[r] # "none"
                           /\ call[r] = "waiting" => ticket[r] # "cancelled"

\* A ticket waits only while its caller does, and is started by the actor alone.
TicketFits ==
    \A r \in Writes :
        /\ ticket[r] = "none" => result[r] = "none"
        /\ call[r] # "waiting" => ticket[r] # "waiting"
        /\ call[r] \in Early => ticket[r] # "started"
        /\ r \in InQueue => ticket[r] # "started"
        /\ result[r] = "reconfirm" => ticket[r] # "started"
        /\ result[r] = "reconfirm" => tries[r] > 0
        /\ r \in Controls => ticket[r] # "started"

\* The actor runs an edit after it has exchanged queue_state, a group control
\* without; after the shutdown nothing is left to it.
ActorFits ==
    /\ actor \in {"control", "controlling"} => item \in Controls
    /\ item \in Controls => actor \in {"checking", "control", "controlling"}
    /\ actor \in {"running", "sending", "awaiting"} => ticket[item] = "started"
    /\ actor \in {"checking", "revalidating", "prepared"} => ticket[item] # "started"
    /\ actor = "stopped" => queue = <<>>
    /\ stop = "idle" => actor \notin {"draining", "stopped"}
    /\ stop = "done" => actor = "stopped"

\* success is what the caller read off the result.
SuccessFits ==
    \A r \in Writes : success[r] => result[r] = "ok" /\ call[r] \notin Early \cup {"waiting", "dropping"}

QueueInv == TypeOK /\ QueuedOnce /\ WaitingIsActive /\ TicketFits /\ ActorFits /\ SuccessFits

\* What McpExecution says of an edit's requests.  The engine is ahead of what it
\* confirmed by the one request that may be in flight, and that one is marked.
EditFacts ==
    \A r \in Writes \ Controls :
        /\ applied[r] = confirmed[r] + (IF engine[r] = "applied" THEN 1 ELSE 0)
        /\ exec[r] # "sent" => engine[r] = "none"
        /\ exec[r] = "untouched" => confirmed[r] = 0
        /\ exec[r] = "finished" => confirmed[r] > 0
        /\ ticket[r] # "started" => exec[r] \in {"untouched", "notSent"} /\ confirmed[r] = 0
        /\ result[r] = "ok" => /\ exec[r] = "finished" => confirmed[r] = Steps[r]
                               /\ exec[r] \in {"untouched", "notSent"} => confirmed[r] = 0

\* A group control has no request; it is finished when it took effect.
ControlFacts ==
    \A r \in Controls :
        /\ engine[r] = "none" /\ confirmed[r] = 0
        /\ exec[r] \in {"untouched", "notSent", "finished"}
        /\ applied[r] = IF exec[r] = "finished" THEN 1 ELSE 0

\* Where the execution is while the write is still to be done.
ExecFits ==
    /\ \A r \in Writes :
          call[r] \in Early \/ r \in InQueue \/ result[r] = "reconfirm" => exec[r] = "untouched"
    /\ item # Nobody /\ actor \notin {"running", "sending", "awaiting"} => exec[item] = "untouched"
    /\ actor \in {"running", "sending"} => exec[item] \in {"untouched", "finished"}
    /\ actor = "awaiting" => exec[item] = "sent"

ExecInv == EditFacts /\ ControlFacts /\ ExecFits

\* Nothing of the write will be sent any more: the actor has answered it for
\* good, or it has the item under a cancelled ticket.
Quiet(r) ==
    /\ call[r] \notin Early
    /\ ~(call[r] = "waiting" /\ result[r] = "reconfirm")
    /\ r \in Active => ticket[r] \notin {"waiting", "started"}

\* An outcome that is true and stays so.
Lasting(r, outcome) ==
    /\ Truthful(r, outcome)
    /\ outcome \in {"notApplied", "rejected", "noChange", "applied"} => exec[r] # "sent" /\ Quiet(r)

\* The actor is done with the write for good.
Done(r) == r \notin Active /\ call[r] \notin Early /\ result[r] # "reconfirm"

\* A final record lasts; the record is final when the actor has left the write
\* in its first try, and when the write was never queued.
RecordFits ==
    \A r \in Writes :
        /\ record[r].final => Lasting(r, record[r].outcome) /\ Done(r)
        /\ stop = "idle" /\ r \notin Active /\ ticket[r] # "none" /\ tries[r] = 0 => record[r].final
        /\ ticket[r] = "none" /\ call[r] \in {"reporting", "returned"} => record[r].final

\* What was reported of an edit lasts.
ReportFits ==
    \A r \in Writes \ Controls :
        report[r] # "none" => call[r] = "returned" /\ Lasting(r, report[r])

ReportInv == RecordFits /\ ReportFits

-----------------------------------------------------------------------------
(* The queue.                                                              *)

\* A write that was not queued is added once.
LEMMA QueueGrows ==
    ASSUME TypeOK, QueuedOnce, NEW r \in Writes, r \notin InQueue, queue' = Append(queue, r)
    PROVE  /\ InQueue' = InQueue \cup {r} /\ queue' \in Seq(Writes)
           /\ Len(queue') = Len(queue) + 1 /\ queue' # <<>>
           /\ IsFiniteSet(InQueue') /\ Cardinality(InQueue') = Len(queue')
           /\ \A i, j \in 1..Len(queue') : queue'[i] = queue'[j] => i = j
<1>1. queue \in Seq(Writes) /\ Cardinality(InQueue) = Len(queue) /\ IsFiniteSet(InQueue)
  BY DEF TypeOK, QueuedOnce
<1>2. /\ queue' \in Seq(Writes) /\ Len(queue') = Len(queue) + 1 /\ Len(queue) \in Nat
      /\ queue'[Len(queue) + 1] = r
      /\ \A i \in 1..Len(queue) : queue'[i] = queue[i]
  BY <1>1
<1>3. InQueue' = InQueue \cup {r}
  <2>1. \A q : q \in InQueue <=> \E i \in 1..Len(queue) : queue[i] = q
    BY DEF InQueue
  <2>2. \A q : q \in InQueue' <=> \E i \in 1..Len(queue') : queue'[i] = q
    BY DEF InQueue
  <2>3. \A q : q \in InQueue' <=> q \in InQueue \/ q = r
    BY <1>2, <2>1, <2>2
  <2> QED
    BY <2>3
<1>4. IsFiniteSet(InQueue') /\ Cardinality(InQueue') = Len(queue')
  BY <1>1, <1>2, <1>3, FS_AddElement
<1>5. ASSUME NEW i \in 1..Len(queue'), NEW j \in 1..Len(queue'), queue'[i] = queue'[j]
      PROVE  i = j
  <2>1. \A k \in 1..Len(queue) : queue[k] # r
    BY DEF InQueue
  <2> QED
    BY <1>2, <1>5, <2>1 DEF QueuedOnce
<1> QED
  BY <1>2, <1>3, <1>4, <1>5

\* The write that is taken was queued and is not any more.
LEMMA QueueShrinks ==
    ASSUME TypeOK, QueuedOnce, queue # <<>>, queue' = Tail(queue)
    PROVE  /\ Head(queue) \in InQueue /\ Head(queue) \in Writes
           /\ InQueue' = InQueue \ {Head(queue)} /\ queue' \in Seq(Writes)
           /\ Len(queue') = Len(queue) - 1
           /\ IsFiniteSet(InQueue') /\ Cardinality(InQueue') = Len(queue')
           /\ \A i, j \in 1..Len(queue') : queue'[i] = queue'[j] => i = j
<1> DEFINE h == Head(queue)
<1>1. queue \in Seq(Writes) /\ Cardinality(InQueue) = Len(queue) /\ IsFiniteSet(InQueue)
  BY DEF TypeOK, QueuedOnce
<1>2. /\ queue' \in Seq(Writes) /\ Len(queue') = Len(queue) - 1 /\ Len(queue) \in Nat \ {0}
      /\ h = queue[1] /\ h \in Writes
      /\ \A i \in 1..Len(queue') : queue'[i] = queue[i + 1]
  BY <1>1
<1> HIDE DEF h
<1>3. h \in InQueue
  BY <1>2 DEF InQueue
<1>4. InQueue' = InQueue \ {h}
  <2>1. \A q : q \in InQueue <=> \E i \in 1..Len(queue) : queue[i] = q
    BY DEF InQueue
  <2>2. \A q : q \in InQueue' <=> \E i \in 1..Len(queue') : queue'[i] = q
    BY DEF InQueue
  <2>3. ASSUME NEW q, q \in InQueue' PROVE q \in InQueue /\ q # h
    <3>1. PICK i \in 1..Len(queue') : queue'[i] = q
      BY <2>2, <2>3
    <3>2. i + 1 \in 1..Len(queue) /\ 1 \in 1..Len(queue) /\ i + 1 # 1 /\ queue[i + 1] = q
      BY <1>2, <3>1
    <3> QED
      BY <1>2, <2>1, <3>2 DEF QueuedOnce
  <2>4. ASSUME NEW q, q \in InQueue, q # h PROVE q \in InQueue'
    <3>1. PICK i \in 1..Len(queue) : queue[i] = q
      BY <2>1, <2>4
    <3>2. i - 1 \in 1..Len(queue') /\ queue'[i - 1] = q
      BY <1>2, <2>4, <3>1
    <3> QED
      BY <2>2, <3>2
  <2> QED
    BY <2>3, <2>4
<1>5. IsFiniteSet(InQueue') /\ Cardinality(InQueue') = Len(queue')
  BY <1>1, <1>2, <1>3, <1>4, FS_RemoveElement, ZenonT(40)
<1>6. ASSUME NEW i \in 1..Len(queue'), NEW j \in 1..Len(queue'), queue'[i] = queue'[j]
      PROVE  i = j
  <2>1. i + 1 \in 1..Len(queue) /\ j + 1 \in 1..Len(queue) /\ queue[i + 1] = queue[j + 1]
    BY <1>2, <1>6
  <2> QED
    BY <2>1 DEF QueuedOnce
<1> QED
  BY <1>2, <1>3, <1>4, <1>5, <1>6 DEF h

\* An emptied queue has nobody.
LEMMA QueueEmpty ==
    ASSUME queue' = <<>>
    PROVE  /\ InQueue' = {} /\ IsFiniteSet(InQueue') /\ Cardinality(InQueue') = 0
           /\ queue' \in Seq(Writes) /\ Len(queue') = 0
<1>1. InQueue' = {} /\ queue' \in Seq(Writes) /\ Len(queue') = 0
  BY DEF InQueue
<1> QED
  BY <1>1, FS_EmptySet

-----------------------------------------------------------------------------
(* What an item's end writes.                                              *)

ExecStates == {"untouched", "sent", "rejected", "finished", "notSent"}

\* Every state of the execution has an outcome.
LEMMA OutcomeType ==
    ASSUME NEW r, NEW x \in ExecStates, NEW ok \in BOOLEAN
    PROVE  Outcome(r, x, ok) \in Outcomes
  BY DEF Outcome, Outcomes, ExecStates

\* record_result keeps the types of the execution and of the record.
LEMMA RecordTypes ==
    ASSUME TypeOK, NEW r \in Writes, NEW x \in ExecStates, NEW ok \in BOOLEAN, NEW final \in BOOLEAN,
           RecordResult(r, x, ok, final)
    PROVE  exec' \in [Writes -> ExecStates] /\ record' \in [Writes -> [final : BOOLEAN, outcome : Outcomes]]
<1> DEFINE y == IF final THEN AfterActor(x) ELSE x
<1>1. y \in ExecStates
  BY DEF AfterActor, ExecStates
<1>2. Outcome(r, y, ok) \in Outcomes
  BY <1>1, OutcomeType
<1>3. /\ exec' = [exec EXCEPT ![r] = y]
      /\ record' = IF record[r].final THEN record
                   ELSE [record EXCEPT ![r] = [final |-> final, outcome |-> Outcome(r, y, ok)]]
  BY DEF RecordResult
<1> HIDE DEF y
<1>4. [final |-> final, outcome |-> Outcome(r, y, ok)] \in [final : BOOLEAN, outcome : Outcomes]
  BY <1>2, Zenon
<1> QED
  BY <1>1, <1>3, <1>4 DEF TypeOK, ExecStates

\* process_item's end: the item is answered and left, and the types are kept.
LEMMA ConcludeFacts ==
    ASSUME TypeOK, item \in Writes, NEW res \in {"ok", "err", "reconfirm"}, NEW x \in ExecStates,
           NEW next, Conclude(res, x, next)
    PROVE  /\ result' = [result EXCEPT ![item] = res]
           /\ actor' = next /\ item' = Nobody
           /\ exec' \in [Writes -> ExecStates]
           /\ record' \in [Writes -> [final : BOOLEAN, outcome : Outcomes]]
           /\ \A r \in Writes \ {item} : exec'[r] = exec[r] /\ record'[r] = record[r]
           /\ res = "reconfirm" => exec' = exec /\ record' = record
           /\ res # "reconfirm" => exec'[item] = AfterActor(x) /\ record'[item].final
           /\ record[item].final => record'[item] = record[item]
<1>1. CASE res = "reconfirm"
  BY <1>1 DEF Conclude, TypeOK, ExecStates
<1>2. CASE res # "reconfirm"
  <2>1. RecordResult(item, x, res = "ok", TRUE)
    BY <1>2 DEF Conclude
  <2>2. exec' \in [Writes -> ExecStates] /\ record' \in [Writes -> [final : BOOLEAN, outcome : Outcomes]]
    BY <2>1, RecordTypes
  <2>3. /\ exec' = [exec EXCEPT ![item] = AfterActor(x)]
        /\ record' = IF record[item].final THEN record
                     ELSE [record EXCEPT ![item] = [final |-> TRUE, outcome |-> Outcome(item, AfterActor(x), res = "ok")]]
    BY <2>1 DEF RecordResult
  <2> QED
    BY <1>2, <2>2, <2>3 DEF Conclude, TypeOK
<1> QED
  BY <1>1, <1>2

\* The outcome a record gets when its item ends, and no earlier final one.
LEMMA ConcludeOutcome ==
    ASSUME TypeOK, item \in Writes, NEW res \in {"ok", "err"}, NEW x \in ExecStates,
           NEW next, Conclude(res, x, next), ~record[item].final
    PROVE  \E ok \in BOOLEAN : /\ ok <=> res = "ok"
                               /\ record'[item].outcome = Outcome(item, AfterActor(x), ok)
<1>1. RecordResult(item, x, res = "ok", TRUE)
  BY DEF Conclude
<1>2. record' = [record EXCEPT ![item] = [final |-> TRUE, outcome |-> Outcome(item, AfterActor(x), res = "ok")]]
  BY <1>1 DEF RecordResult
<1>3. record'[item] = [final |-> TRUE, outcome |-> Outcome(item, AfterActor(x), res = "ok")]
  BY <1>2 DEF TypeOK
<1>4. record'[item].outcome = Outcome(item, AfterActor(x), res = "ok")
  BY <1>3
<1>5. (res = "ok") \in BOOLEAN
  OBVIOUS
<1> QED
  BY <1>4, <1>5, Zenon

-----------------------------------------------------------------------------
(* The first layer: the queue, the tickets and the actor.                  *)

\* An item that ends leaves the actor with its answer given.
LEMMA QueueConcludes ==
    ASSUME QueueInv, item \in Writes, NEW res \in {"ok", "err", "reconfirm"}, NEW x \in ExecStates,
           NEW next \in {"idle", "draining"}, Conclude(res, x, next),
           UNCHANGED <<call, success, gone, over, accepting, queue, ticket, held, report, stop>>,
           tries' \in [Writes -> 0..MaxReconfirms],
           \A r \in Writes \ {item} : tries'[r] = tries[r],
           confirmed' \in [Writes -> Nat], applied' \in [Writes -> Nat],
           engine' \in [Writes -> {"none", "sent", "applied", "refused"}],
           next = "draining" => stop # "idle",
           res = "reconfirm" => ticket[item] # "started" /\ tries'[item] > 0
    PROVE  QueueInv'
<1> USE QueueAssumption DEF QueueInv
<1>1. /\ result' = [result EXCEPT ![item] = res] /\ actor' = next /\ item' = Nobody
      /\ exec' \in [Writes -> ExecStates]
      /\ record' \in [Writes -> [final : BOOLEAN, outcome : Outcomes]]
  <2>1. TypeOK
    OBVIOUS
  <2> QED
    BY <2>1, ConcludeFacts
<1>2. InQueue' = InQueue /\ \A r \in Writes : r \in Active' <=> r \in Active /\ r # item
  BY <1>1 DEF InQueue, Active, QueuedOnce
<1>3. TypeOK'
  BY <1>1, <1>2 DEF TypeOK, ExecStates
<1>4. QueuedOnce'
  <2>1. Nobody \notin InQueue
    <3>1. \A i \in 1..Len(queue) : queue[i] \in Writes
      BY DEF TypeOK
    <3> QED
      BY <3>1 DEF InQueue
  <2> QED
    BY <1>1, <1>2, <2>1 DEF QueuedOnce
<1>5. /\ result'[item] = res /\ \A r \in Writes \ {item} : result'[r] = result[r]
      /\ item \in Active
  BY <1>1 DEF TypeOK, Active
<1>6. WaitingIsActive'
  BY <1>2, <1>5 DEF WaitingIsActive
<1>7. TicketFits'
  BY <1>2, <1>5 DEF TicketFits, WaitingIsActive
<1>8. ActorFits'
  BY <1>1 DEF ActorFits, TypeOK
<1>9. SuccessFits'
  BY <1>5 DEF SuccessFits, WaitingIsActive
<1> QED
  BY <1>3, <1>4, <1>6, <1>7, <1>8, <1>9

\* Every step keeps the first layer.
LEMMA QueueStep ==
    ASSUME QueueInv, Next
    PROVE  QueueInv'
<1> USE QueueAssumption DEF QueueInv, callerVars, ticketVars, actorVars, trackVars, engineVars
<1>0. ASSUME item \in Writes PROVE exec[item] \in ExecStates /\ item # Nobody
  BY <1>0 DEF TypeOK, ExecStates
<1>1. ASSUME NEW r \in Writes, Submit(r) PROVE QueueInv'
  <2>1. InQueue' = InQueue /\ Active' = Active /\ Cardinality(InQueue)' = Cardinality(InQueue)
    BY <1>1 DEF Submit, InQueue, Active
  <2>2. TypeOK'
    BY <1>1, <2>1, Zenon DEF Submit, Goto, TypeOK
  <2>3. QueuedOnce'
    BY <1>1, <2>1, Zenon DEF Submit, Goto, QueuedOnce, TypeOK, Early, InQueue
  <2>4. WaitingIsActive'
    BY <1>1, <2>1 DEF Submit, Goto, WaitingIsActive, TypeOK, Early
  <2>5. TicketFits'
    BY <1>1, <2>1 DEF Submit, Goto, TicketFits, TypeOK, Early
  <2>6. ActorFits'
    BY <1>1, <2>1 DEF Submit, Goto, ActorFits, TypeOK, Early
  <2>7. SuccessFits'
    BY <1>1, <2>1 DEF Submit, Goto, SuccessFits, TypeOK, Early, WaitingIsActive
  <2> QED
    BY <2>2, <2>3, <2>4, <2>5, <2>6, <2>7
<1>2. ASSUME NEW r \in Writes, Confirm(r) PROVE QueueInv'
  <2>1. InQueue' = InQueue /\ Active' = Active /\ Cardinality(InQueue)' = Cardinality(InQueue)
    BY <1>2 DEF Confirm, InQueue, Active
  <2>2. TypeOK'
    BY <1>2, <2>1 DEF Confirm, Goto, TypeOK
  <2>3. QueuedOnce'
    BY <1>2, <2>1, Zenon DEF Confirm, Goto, QueuedOnce, TypeOK, Early, InQueue
  <2>4. WaitingIsActive'
    BY <1>2, <2>1 DEF Confirm, Goto, WaitingIsActive, TypeOK, Early
  <2>5. TicketFits'
    BY <1>2, <2>1 DEF Confirm, Goto, TicketFits, TypeOK, Early
  <2>6. ActorFits'
    BY <1>2, <2>1 DEF Confirm, Goto, ActorFits, TypeOK, Early
  <2>7. SuccessFits'
    BY SMTT(30), <1>2, <2>1 DEF Confirm, Goto, SuccessFits, TypeOK, Early, WaitingIsActive
  <2> QED
    BY <2>2, <2>3, <2>4, <2>5, <2>6, <2>7
<1>3. ASSUME NEW r \in Writes, Receive(r) PROVE QueueInv'
  <2>1. InQueue' = InQueue /\ Active' = Active /\ Cardinality(InQueue)' = Cardinality(InQueue)
    BY <1>3 DEF Receive, InQueue, Active
  <2>2. TypeOK'
    <3>1. success' \in [Writes -> BOOLEAN] /\ held' \in [Writes -> BOOLEAN]
      BY <1>3 DEF Receive, TypeOK
    <3>2. ticket' \in [Writes -> {"none", "waiting", "started", "cancelled"}]
      BY <1>3 DEF Receive, CancelTicket, TypeOK
    <3> QED
      <4>1. UNCHANGED <<gone, over, tries, accepting, queue, result, actorVars, trackVars, engineVars, stop>>
        BY <1>3 DEF Receive
      <4>2. call' \in [Writes -> {"idle", "confirming", "submitting", "waiting", "dropping",
                                  "recording", "reporting", "returned"}]
        <5>1. \E p \in {"confirming", "recording"} : call' = [call EXCEPT ![r] = p]
          BY <1>3, Zenon DEF Receive, Goto
        <5> QED
          BY <5>1 DEF TypeOK
      <4> QED
        BY <2>1, <3>1, <3>2, <4>1, <4>2 DEF TypeOK
  <2>3. QueuedOnce'
    BY <1>3, <2>1, ZenonT(40) DEF Receive, Goto, CancelTicket, QueuedOnce, TypeOK, Early, InQueue
  <2>4. WaitingIsActive'
    BY SMTT(30), <1>3, <2>1 DEF Receive, Goto, CancelTicket, WaitingIsActive, TypeOK, Early
  <2>5. TicketFits'
    BY SMTT(30), <1>3, <2>1 DEF Receive, Goto, CancelTicket, TicketFits, TypeOK, Early
  <2>6. ActorFits'
    BY <1>3, <2>1 DEF Receive, Goto, CancelTicket, ActorFits, TypeOK, Early
  <2>7. SuccessFits'
    BY <1>3, <2>1 DEF Receive, Goto, CancelTicket, SuccessFits, TypeOK, Early, WaitingIsActive
  <2> QED
    BY <2>2, <2>3, <2>4, <2>5, <2>6, <2>7
<1>4. ASSUME NEW r \in Writes, LeaseEnds(r) PROVE QueueInv'
  <2>1. InQueue' = InQueue /\ Active' = Active /\ Cardinality(InQueue)' = Cardinality(InQueue)
    BY <1>4 DEF LeaseEnds, InQueue, Active
  <2>2. TypeOK'
    BY <1>4, <2>1 DEF LeaseEnds, Goto, TypeOK
  <2>3. QueuedOnce'
    BY <1>4, <2>1, Zenon DEF LeaseEnds, Goto, QueuedOnce, TypeOK, Early, InQueue
  <2>4. WaitingIsActive'
    BY <1>4, <2>1 DEF LeaseEnds, Goto, WaitingIsActive, TypeOK, Early
  <2>5. TicketFits'
    BY <1>4, <2>1 DEF LeaseEnds, Goto, TicketFits, TypeOK, Early
  <2>6. ActorFits'
    BY <1>4, <2>1 DEF LeaseEnds, Goto, ActorFits, TypeOK, Early
  <2>7. SuccessFits'
    BY <1>4, <2>1 DEF LeaseEnds, Goto, SuccessFits, TypeOK, Early, WaitingIsActive
  <2> QED
    BY <2>2, <2>3, <2>4, <2>5, <2>6, <2>7
<1>5. ASSUME NEW r \in Writes, GiveUp(r) PROVE QueueInv'
  <2>1. InQueue' = InQueue /\ Active' = Active /\ Cardinality(InQueue)' = Cardinality(InQueue)
    BY <1>5 DEF GiveUp, InQueue, Active
  <2>2. TypeOK'
    <3>1. \E p \in {"dropping", "recording"} : call' = [call EXCEPT ![r] = p]
      BY <1>5, Zenon DEF GiveUp, Goto
    <3>2. ticket' = ticket \/ CancelTicket(r)
      BY <1>5 DEF GiveUp
    <3>3. ticket' \in [Writes -> {"none", "waiting", "started", "cancelled"}]
      BY ZenonT(40), <3>2 DEF CancelTicket, TypeOK
    <3>4. /\ UNCHANGED <<success, over, tries, accepting, queue, held, result, actorVars, trackVars, engineVars, stop>>
          /\ gone' \in {gone, gone \cup {r}}
      BY <1>5 DEF GiveUp
    <3> QED
      <4>1. call' \in [Writes -> {"idle", "confirming", "submitting", "waiting", "dropping",
                                  "recording", "reporting", "returned"}]
        BY <3>1 DEF TypeOK
      <4>2. gone' \in SUBSET Writes
        BY <3>4 DEF TypeOK
      <4> QED
        BY <2>1, <3>3, <3>4, <4>1, <4>2 DEF TypeOK
  <2>3. QueuedOnce'
    BY <1>5, <2>1, Zenon DEF GiveUp, Goto, CancelTicket, QueuedOnce, TypeOK, Early, InQueue
  <2>4. WaitingIsActive'
    BY <1>5, <2>1 DEF GiveUp, Goto, CancelTicket, WaitingIsActive, TypeOK, Early
  <2>5. TicketFits'
    BY <1>5, <2>1 DEF GiveUp, Goto, CancelTicket, TicketFits, TypeOK, Early
  <2>6. ActorFits'
    BY <1>5, <2>1 DEF GiveUp, Goto, CancelTicket, ActorFits, TypeOK, Early
  <2>7. SuccessFits'
    BY <1>5, <2>1 DEF GiveUp, Goto, CancelTicket, SuccessFits, TypeOK, Early, WaitingIsActive
  <2> QED
    BY <2>2, <2>3, <2>4, <2>5, <2>6, <2>7
<1>6. ASSUME NEW r \in Writes, DropCancel(r) PROVE QueueInv'
  <2>1. InQueue' = InQueue /\ Active' = Active /\ Cardinality(InQueue)' = Cardinality(InQueue)
    BY <1>6 DEF DropCancel, InQueue, Active
  <2>2. TypeOK'
    BY <1>6, <2>1 DEF DropCancel, Goto, TypeOK
  <2>3. QueuedOnce'
    BY <1>6, <2>1, Zenon DEF DropCancel, Goto, QueuedOnce, TypeOK, Early, InQueue
  <2>4. WaitingIsActive'
    BY <1>6, <2>1 DEF DropCancel, Goto, WaitingIsActive, TypeOK, Early
  <2>5. TicketFits'
    BY <1>6, <2>1 DEF DropCancel, Goto, TicketFits, TypeOK, Early
  <2>6. ActorFits'
    BY <1>6, <2>1 DEF DropCancel, Goto, ActorFits, TypeOK, Early
  <2>7. SuccessFits'
    BY <1>6, <2>1 DEF DropCancel, Goto, SuccessFits, TypeOK, Early, WaitingIsActive
  <2> QED
    BY <2>2, <2>3, <2>4, <2>5, <2>6, <2>7
<1>7. ASSUME NEW r \in Writes, Record(r) PROVE QueueInv'
  <2>1. InQueue' = InQueue /\ Active' = Active /\ Cardinality(InQueue)' = Cardinality(InQueue)
    BY <1>7 DEF Record, InQueue, Active
  <2>2. TypeOK'
    <3>1. exec[r] \in ExecStates /\ success[r] \in BOOLEAN /\ (ticket[r] = "none") \in BOOLEAN
      BY DEF TypeOK, ExecStates
    <3>2. exec' \in [Writes -> ExecStates] /\ record' \in [Writes -> [final : BOOLEAN, outcome : Outcomes]]
      BY <1>7, <3>1, RecordTypes, Zenon DEF Record
    <3> QED
      BY <1>7, <2>1, <3>2 DEF Record, Goto, TypeOK, ExecStates
  <2>3. QueuedOnce'
    BY <1>7, <2>1, Zenon DEF Record, Goto, QueuedOnce, TypeOK, Early, InQueue
  <2>4. WaitingIsActive'
    BY <1>7, <2>1 DEF Record, Goto, WaitingIsActive, TypeOK, Early
  <2>5. TicketFits'
    BY <1>7, <2>1 DEF Record, Goto, TicketFits, TypeOK, Early
  <2>6. ActorFits'
    BY <1>7, <2>1 DEF Record, Goto, ActorFits, TypeOK, Early
  <2>7. SuccessFits'
    BY <1>7, <2>1 DEF Record, Goto, SuccessFits, TypeOK, Early, WaitingIsActive
  <2> QED
    BY <2>2, <2>3, <2>4, <2>5, <2>6, <2>7
<1>8. ASSUME NEW r \in Writes, Report(r) PROVE QueueInv'
  <2>1. InQueue' = InQueue /\ Active' = Active /\ Cardinality(InQueue)' = Cardinality(InQueue)
    BY <1>8 DEF Report, InQueue, Active
  <2>2. TypeOK'
    <3>1. Outcome(r, exec[r], success[r]) \in Outcomes
      <4>1. exec[r] \in ExecStates
        BY DEF TypeOK, ExecStates
      <4>2. success[r] \in BOOLEAN
        BY Zenon DEF TypeOK
      <4> QED
        BY <4>1, <4>2, OutcomeType
    <3>2. report' \in [Writes -> Outcomes \cup {"none"}]
      BY <1>8, <3>1 DEF Report, TypeOK, Outcomes
    <3> QED
      BY <1>8, <2>1, <3>2 DEF Report, Goto, TypeOK
  <2>3. QueuedOnce'
    BY <1>8, <2>1, Zenon DEF Report, Goto, QueuedOnce, TypeOK, Early, InQueue
  <2>4. WaitingIsActive'
    BY <1>8, <2>1 DEF Report, Goto, WaitingIsActive, TypeOK, Early
  <2>5. TicketFits'
    BY <1>8, <2>1 DEF Report, Goto, TicketFits, TypeOK, Early
  <2>6. ActorFits'
    BY <1>8, <2>1 DEF Report, Goto, ActorFits, TypeOK, Early
  <2>7. SuccessFits'
    BY <1>8, <2>1 DEF Report, Goto, SuccessFits, TypeOK, Early, WaitingIsActive
  <2> QED
    BY <2>2, <2>3, <2>4, <2>5, <2>6, <2>7
<1>9. ASSUME NEW r \in Writes, EngineHandles(r) PROVE QueueInv'
  <2>1. InQueue' = InQueue /\ Active' = Active /\ Cardinality(InQueue)' = Cardinality(InQueue)
    BY <1>9 DEF EngineHandles, InQueue, Active
  <2>2. TypeOK'
    <3>1. applied' \in [Writes -> Nat]
      <4>1. applied \in [Writes -> Nat]
        BY DEF TypeOK
      <4>2. CASE applied' = applied
        BY <4>1, <4>2
      <4>3. CASE applied' = [applied EXCEPT ![r] = @ + 1]
        BY <4>1, <4>3
      <4> QED
        BY <1>9, <4>2, <4>3 DEF EngineHandles
    <3>2. engine' \in [Writes -> {"none", "sent", "applied", "refused"}]
      BY <1>9, ZenonT(40) DEF EngineHandles, TypeOK
    <3> QED
      BY <1>9, <2>1, <3>1, <3>2 DEF EngineHandles, TypeOK
  <2>3. QueuedOnce'
    BY <1>9, <2>1, ZenonT(40) DEF EngineHandles, Goto, QueuedOnce, TypeOK, Early, InQueue
  <2>4. WaitingIsActive'
    BY <1>9, <2>1 DEF EngineHandles, Goto, WaitingIsActive, TypeOK, Early
  <2>5. TicketFits'
    BY <1>9, <2>1 DEF EngineHandles, Goto, TicketFits, TypeOK, Early
  <2>6. ActorFits'
    BY <1>9, <2>1 DEF EngineHandles, Goto, ActorFits, TypeOK, Early
  <2>7. SuccessFits'
    BY <1>9, <2>1 DEF EngineHandles, Goto, SuccessFits, TypeOK, Early, WaitingIsActive
  <2> QED
    BY <2>2, <2>3, <2>4, <2>5, <2>6, <2>7
<1>10. ASSUME NEW r \in Writes, Enqueue(r) PROVE QueueInv'
  <2>1. CASE queue' = queue
    <3>1. /\ InQueue' = InQueue /\ Active' = Active /\ Cardinality(InQueue)' = Cardinality(InQueue)
          /\ Goto(r, "recording") /\ call[r] = "submitting"
          /\ UNCHANGED <<queue, ticket, held, result, success, gone, over, tries, accepting, actorVars, trackVars,
                         engineVars, stop>>
      <4>1. Append(queue, r) # queue
        BY DEF TypeOK
      <4> QED
        BY <1>10, <2>1, <4>1 DEF Enqueue, InQueue, Active
    <3>2. TypeOK'
      BY <3>1 DEF Goto, TypeOK
    <3>3. QueuedOnce' /\ ActorFits'
      BY <3>1 DEF QueuedOnce, ActorFits
    <3>4. WaitingIsActive'
      BY <3>1 DEF Goto, TypeOK, WaitingIsActive, Early
    <3>5. TicketFits' /\ SuccessFits'
      BY <3>1 DEF Goto, TypeOK, TicketFits, SuccessFits, Early
    <3> QED
      BY <3>2, <3>3, <3>4, <3>5
  <2>2. CASE queue' # queue
    <3>1. /\ queue' = Append(queue, r) /\ Len(queue) < Capacity /\ actor # "stopped"
          /\ ticket' = [ticket EXCEPT ![r] = "waiting"]
          /\ held' = [held EXCEPT ![r] = TRUE]
          /\ result' = [result EXCEPT ![r] = "none"]
          /\ Goto(r, "waiting") /\ call[r] = "submitting"
          /\ UNCHANGED <<success, gone, over, tries, accepting, actorVars, trackVars, engineVars, stop>>
      BY <1>10, <2>2 DEF Enqueue
    <3>2. r \notin InQueue /\ r # item
      BY <3>1 DEF WaitingIsActive, Active, Early
    <3>3. /\ InQueue' = InQueue \cup {r} /\ queue' \in Seq(Writes)
          /\ Len(queue') = Len(queue) + 1 /\ queue' # <<>>
          /\ IsFiniteSet(InQueue') /\ Cardinality(InQueue') = Len(queue')
          /\ \A i, j \in 1..Len(queue') : queue'[i] = queue'[j] => i = j
      BY <3>1, <3>2, QueueGrows
    <3>4. \A q \in Writes : q \in Active' <=> q \in Active \/ q = r
      BY <3>1, <3>3 DEF Active
    <3>5. TypeOK'
      <4>1. held' \in [Writes -> BOOLEAN]
        BY <3>1, Zenon DEF TypeOK
      <4> QED
        BY SMTT(30), <3>1, <3>3, <4>1 DEF Goto, TypeOK
    <3>6. QueuedOnce' /\ ActorFits'
      BY <3>1, <3>2, <3>3 DEF QueuedOnce, ActorFits, TypeOK
    <3>7. WaitingIsActive'
      BY <3>1, <3>4 DEF Goto, TypeOK, WaitingIsActive, Early
    <3>8. TicketFits' /\ SuccessFits'
      BY <3>1, <3>3 DEF Goto, TypeOK, TicketFits, SuccessFits, Early
    <3> QED
      BY <3>5, <3>6, <3>7, <3>8
  <2> QED
    BY <2>1, <2>2
<1>11. ASSUME Shutdown PROVE QueueInv'
  <2>1. InQueue' = InQueue /\ Active' = Active /\ Cardinality(InQueue)' = Cardinality(InQueue)
    BY <1>11 DEF Shutdown, InQueue, Active
  <2>2. TypeOK'
    BY <1>11, <2>1, Zenon DEF Shutdown, TypeOK
  <2>3. QueuedOnce'
    BY <1>11, <2>1, Zenon DEF Shutdown, QueuedOnce, TypeOK, Early, InQueue
  <2>4. WaitingIsActive'
    BY <1>11, <2>1 DEF Shutdown, WaitingIsActive, TypeOK, Early
  <2>5. TicketFits'
    BY <1>11, <2>1 DEF Shutdown, TicketFits, TypeOK, Early
  <2>6. ActorFits'
    BY <1>11, <2>1 DEF Shutdown, ActorFits, TypeOK, Early
  <2>7. SuccessFits'
    BY <1>11, <2>1 DEF Shutdown, SuccessFits, TypeOK, Early, WaitingIsActive
  <2> QED
    BY <2>2, <2>3, <2>4, <2>5, <2>6, <2>7
<1>12. ASSUME Joined PROVE QueueInv'
  <2>1. InQueue' = InQueue /\ Active' = Active /\ Cardinality(InQueue)' = Cardinality(InQueue)
    BY <1>12 DEF Joined, InQueue, Active
  <2>2. TypeOK'
    BY <1>12, <2>1 DEF Joined, TypeOK
  <2>3. QueuedOnce'
    BY <1>12, <2>1, Zenon DEF Joined, QueuedOnce, TypeOK, Early, InQueue
  <2>4. WaitingIsActive'
    BY <1>12, <2>1 DEF Joined, WaitingIsActive, TypeOK, Early
  <2>5. TicketFits'
    BY <1>12, <2>1 DEF Joined, TicketFits, TypeOK, Early
  <2>6. ActorFits'
    BY <1>12, <2>1 DEF Joined, ActorFits, TypeOK, Early
  <2>7. SuccessFits'
    BY <1>12, <2>1 DEF Joined, SuccessFits, TypeOK, Early, WaitingIsActive
  <2> QED
    BY <2>2, <2>3, <2>4, <2>5, <2>6, <2>7
<1>13. ASSUME Take PROVE QueueInv'
  <2>1. /\ Head(queue) \in InQueue /\ Head(queue) \in Writes
        /\ InQueue' = InQueue \ {Head(queue)} /\ queue' \in Seq(Writes)
        /\ Len(queue') = Len(queue) - 1
        /\ IsFiniteSet(InQueue') /\ Cardinality(InQueue') = Len(queue')
        /\ \A i, j \in 1..Len(queue') : queue'[i] = queue'[j] => i = j
    BY <1>13, QueueShrinks DEF Take
  <2>2. /\ item = Nobody /\ item' = Head(queue) /\ actor' = "checking" /\ stop = "idle"
        /\ UNCHANGED <<callerVars, accepting, ticket, held, result, trackVars, engineVars, stop>>
    BY <1>13 DEF Take, Signalled, TypeOK
  <2>3. \A q \in Writes : q \in Active' <=> q \in Active
    BY <2>1, <2>2 DEF Active
  <2>4. TypeOK'
    <3>1. Len(queue') <= Capacity
      BY <2>1 DEF TypeOK
    <3> QED
      BY <2>1, <2>2, <3>1 DEF TypeOK
  <2>5. QueuedOnce' /\ ActorFits'
    BY <2>1, <2>2 DEF QueuedOnce, ActorFits, TicketFits
  <2>6. WaitingIsActive' /\ TicketFits' /\ SuccessFits'
    BY <2>1, <2>2, <2>3 DEF WaitingIsActive, TicketFits, SuccessFits
  <2> QED
    BY <2>4, <2>5, <2>6
<1>14. ASSUME Drain PROVE QueueInv'
  <2>1. /\ InQueue' = {} /\ IsFiniteSet(InQueue') /\ Cardinality(InQueue') = 0
        /\ queue' \in Seq(Writes) /\ Len(queue') = 0 /\ queue' = <<>>
    BY <1>14, QueueEmpty DEF Drain
  <2>2. /\ item = Nobody /\ item' = Nobody /\ actor' = "stopped" /\ stop # "idle"
        /\ result' = [r \in Writes |-> IF r \in InQueue THEN "err" ELSE result[r]]
        /\ UNCHANGED <<callerVars, accepting, ticket, held, trackVars, engineVars, stop>>
    BY <1>14 DEF Drain, Signalled, TypeOK, ActorFits
  <2>3. TypeOK'
    BY <2>1, <2>2 DEF TypeOK
  <2>4. QueuedOnce' /\ ActorFits'
    BY <2>1, <2>2 DEF QueuedOnce, ActorFits, TypeOK
  <2>5. WaitingIsActive'
    BY <2>1, <2>2 DEF WaitingIsActive, Active
  <2>6. TicketFits' /\ SuccessFits'
    BY <2>1, <2>2 DEF WaitingIsActive, TicketFits, SuccessFits, Active, TypeOK
  <2> QED
    BY <2>3, <2>4, <2>5, <2>6
<1>15. ASSUME Abort PROVE QueueInv'
  <2>1. /\ InQueue' = {} /\ IsFiniteSet(InQueue') /\ Cardinality(InQueue') = 0
        /\ queue' \in Seq(Writes) /\ Len(queue') = 0 /\ queue' = <<>>
    BY <1>15, QueueEmpty DEF Abort
  <2>2. /\ item' = Nobody /\ actor' = "stopped" /\ stop = "joining"
        /\ result' = [r \in Writes |-> IF r \in Active THEN "err" ELSE result[r]]
        /\ UNCHANGED <<callerVars, accepting, ticket, held, confirmed, report, engineVars, stop>>
    BY <1>15 DEF Abort, Active
  <2>3. exec' \in [Writes -> ExecStates] /\ record' \in [Writes -> [final : BOOLEAN, outcome : Outcomes]]
    <3>1. CASE item = Nobody
      BY <1>15, <3>1 DEF Abort, TypeOK, ExecStates
    <3>2. CASE item \in Writes
      BY <1>15, <1>0, <3>2, RecordTypes DEF Abort
    <3> QED
      BY <3>1, <3>2 DEF TypeOK
  <2>4. TypeOK'
    BY <2>1, <2>2, <2>3 DEF TypeOK, ExecStates
  <2>5. QueuedOnce' /\ ActorFits'
    BY <2>1, <2>2 DEF QueuedOnce, ActorFits, TypeOK
  <2>6. WaitingIsActive'
    BY <2>1, <2>2 DEF WaitingIsActive, Active
  <2>7. TicketFits' /\ SuccessFits'
    BY <2>1, <2>2 DEF WaitingIsActive, TicketFits, SuccessFits, Active, TypeOK
  <2> QED
    BY <2>4, <2>5, <2>6, <2>7
<1>16. ASSUME ActorGoes(actor'), item \in Writes,
             UNCHANGED <<callerVars, accepting, queue, held, result, exec, confirmed, record, report,
                         applied, stop>>,
             \/ actor = "checking" /\ actor' = (IF item \in Controls THEN "control" ELSE "revalidating")
                /\ UNCHANGED <<ticket, engine>>
             \/ actor = "control" /\ actor' = "controlling" /\ UNCHANGED <<ticket, engine>>
             \/ actor = "revalidating" /\ actor' = "prepared" /\ UNCHANGED <<ticket, engine>>
             \/ /\ actor = "prepared" /\ actor' = "running" /\ ticket[item] = "waiting"
                /\ ticket' = [ticket EXCEPT ![item] = "started"] /\ UNCHANGED engine
             \/ actor = "running" /\ actor' = "sending" /\ UNCHANGED <<ticket, engine>>
      PROVE  QueueInv'
  <2>1. InQueue' = InQueue /\ Active' = Active /\ item' = item /\ item \in Active
    BY <1>16 DEF InQueue, Active, ActorGoes
  <2>2. TypeOK'
    BY <1>16, <2>1 DEF TypeOK
  <2>3. QueuedOnce' /\ ActorFits'
    BY <1>16, <2>1 DEF QueuedOnce, ActorFits, TypeOK
  <2>4. WaitingIsActive' /\ SuccessFits'
    BY <1>16, <2>1 DEF WaitingIsActive, SuccessFits, TypeOK
  <2>5. TicketFits'
    BY SMTT(30), <1>16, <2>1 DEF TicketFits, QueuedOnce, WaitingIsActive, ActorFits, TypeOK, Early
  <2> QED
    BY <2>2, <2>3, <2>4, <2>5
<1>17. ASSUME Check PROVE QueueInv'
  <2>0. item \in Writes /\ exec[item] \in ExecStates
    BY <1>17, <1>0 DEF Check, TypeOK
  <2>1. CASE Conclude("err", exec[item], "idle")
    BY <1>17, <2>0, <2>1, QueueConcludes DEF Check, TypeOK, ExecStates, Signalled
  <2>2. CASE /\ ActorGoes(IF item \in Controls THEN "control" ELSE "revalidating")
             /\ UNCHANGED <<result, exec, record>>
    BY <1>17, <2>0, <2>2, <1>16 DEF Check, ActorGoes
  <2> QED
    BY <1>17, <2>1, <2>2 DEF Check
<1>18. ASSUME ControlCheck PROVE QueueInv'
  <2>0. item \in Writes /\ exec[item] \in ExecStates
    BY <1>18, <1>0 DEF ControlCheck, TypeOK
  <2>1. CASE Conclude("err", exec[item], "idle")
    BY <1>18, <2>0, <2>1, QueueConcludes DEF ControlCheck, TypeOK, ExecStates, Signalled
  <2>2. CASE ActorGoes("controlling") /\ UNCHANGED <<result, exec, record>>
    BY <1>18, <2>0, <2>2, <1>16 DEF ControlCheck, ActorGoes
  <2> QED
    BY <1>18, <2>1, <2>2 DEF ControlCheck
<1>19. ASSUME Control PROVE QueueInv'
  <2>0. item \in Writes /\ exec[item] \in ExecStates
    BY <1>19, <1>0 DEF Control, TypeOK
  <2>1. applied' \in [Writes -> Nat]
    BY <1>19, <2>0 DEF Control, TypeOK
  <2> QED
    BY <1>19, <2>0, <2>1, QueueConcludes DEF Control, TypeOK, ExecStates
<1>20. ASSUME Revalidate PROVE QueueInv'
  <2>0. item \in Writes /\ exec[item] \in ExecStates
    BY <1>20, <1>0 DEF Revalidate, TypeOK
  <2>1. CASE Conclude("err", exec[item], "draining") /\ UNCHANGED tries /\ Signalled
    BY <1>20, <2>0, <2>1, QueueConcludes DEF Revalidate, TypeOK, ExecStates, Signalled
  <2>2. CASE Conclude("err", exec[item], "idle") /\ UNCHANGED tries
    BY ZenonT(40), <1>20, <2>0, <2>2, QueueConcludes DEF Revalidate, TypeOK, ExecStates, Signalled
  <2>3. CASE /\ tries[item] < MaxReconfirms /\ tries' = [tries EXCEPT ![item] = @ + 1]
             /\ Conclude("reconfirm", exec[item], "idle")
    <3>1. tries' \in [Writes -> 0..MaxReconfirms] /\ tries'[item] > 0
          /\ \A r \in Writes \ {item} : tries'[r] = tries[r]
      BY <2>0, <2>3 DEF TypeOK
    <3>2. ticket[item] # "started"
      BY <1>20 DEF Revalidate, ActorFits
    <3> QED
      BY <1>20, <2>0, <2>3, <3>1, <3>2, QueueConcludes DEF Revalidate, TypeOK
  <2>4. CASE ActorGoes("prepared") /\ UNCHANGED <<tries, result, exec, record>>
    BY <1>20, <2>0, <2>4, <1>16 DEF Revalidate, ActorGoes
  <2> QED
    BY <1>20, <2>1, <2>2, <2>3, <2>4 DEF Revalidate
<1>21. ASSUME Start PROVE QueueInv'
  <2>0. item \in Writes /\ exec[item] \in ExecStates
    BY <1>21, <1>0 DEF Start, TypeOK
  <2>1. ASSUME NEW res \in {"ok", "err"}, Conclude(res, exec[item], "idle"), UNCHANGED ticket
        PROVE  QueueInv'
    <3>1. /\ res \in {"ok", "err", "reconfirm"} /\ res # "reconfirm"
          /\ UNCHANGED <<callerVars, accepting, queue, ticket, held, confirmed, report, engineVars, stop>>
      BY <1>21, <2>1 DEF Start
    <3>2. /\ tries \in [Writes -> 0..MaxReconfirms] /\ confirmed \in [Writes -> Nat]
          /\ applied \in [Writes -> Nat] /\ engine \in [Writes -> {"none", "sent", "applied", "refused"}]
      BY DEF TypeOK
    <3> QED
      BY <2>0, <2>1, <3>1, <3>2, QueueConcludes
  <2>2. CASE /\ ticket[item] = "waiting" /\ ticket' = [ticket EXCEPT ![item] = "started"]
             /\ ActorGoes("running") /\ UNCHANGED <<result, exec, record>>
    BY <1>21, <2>0, <2>2, <1>16 DEF Start, ActorGoes
  <2> QED
    BY <1>21, <2>1, <2>2 DEF Start
<1>22. ASSUME SendCheck PROVE QueueInv'
  <2>0. item \in Writes /\ exec[item] \in ExecStates
    BY <1>22, <1>0 DEF SendCheck, TypeOK
  <2>1. CASE Conclude("err", exec[item], "idle")
    BY <1>22, <2>0, <2>1, QueueConcludes DEF SendCheck, TypeOK, ExecStates, Signalled
  <2>2. CASE Conclude("err", "notSent", "idle")
    BY <1>22, <2>0, <2>2, QueueConcludes DEF SendCheck, TypeOK, ExecStates, Signalled
  <2>3. CASE ActorGoes("sending") /\ UNCHANGED <<result, exec, record>>
    BY <1>22, <2>0, <2>3, <1>16 DEF SendCheck, ActorGoes
  <2> QED
    BY <1>22, <2>1, <2>2, <2>3 DEF SendCheck
<1>23. ASSUME Send PROVE QueueInv'
  <2>0. item \in Writes /\ exec[item] \in ExecStates
    BY <1>23, <1>0 DEF Send, TypeOK
  <2>1. InQueue' = InQueue /\ Active' = Active /\ item' = item
    BY <1>23 DEF Send, InQueue, Active, ActorGoes
  <2>2. TypeOK'
    BY <1>23, <2>0, <2>1 DEF Send, ActorGoes, TypeOK
  <2>3. QueuedOnce' /\ ActorFits'
    BY <1>23, <2>1 DEF Send, ActorGoes, QueuedOnce, ActorFits, TypeOK
  <2>4. WaitingIsActive' /\ SuccessFits' /\ TicketFits'
    BY <1>23, <2>1 DEF Send, WaitingIsActive, SuccessFits, TicketFits
  <2> QED
    BY <2>2, <2>3, <2>4
<1>24. ASSUME Answer PROVE QueueInv'
  <2>0. item \in Writes /\ exec[item] \in ExecStates
    BY <1>24, <1>0 DEF Answer, TypeOK
  <2>1. confirmed' \in [Writes -> Nat] /\ engine' \in [Writes -> {"none", "sent", "applied", "refused"}]
    <3>1. CASE engine[item] = "applied"
      <4>1. /\ confirmed' = [confirmed EXCEPT ![item] = @ + 1] /\ confirmed \in [Writes -> Nat]
            /\ engine' = [engine EXCEPT ![item] = "none"]
        BY <1>24, <3>1 DEF Answer, TypeOK
      <4>2. confirmed' \in [Writes -> Nat]
        BY <2>0, <4>1
      <4> QED
        BY <2>0, <4>1, <4>2 DEF TypeOK
    <3>2. CASE engine[item] = "refused"
      BY <1>24, <2>0, <3>2 DEF Answer, TypeOK
    <3> QED
      BY <1>24, <3>1, <3>2 DEF Answer
  <2>2. ASSUME NEW res \in {"ok", "err"}, NEW x \in {"finished", "rejected"}, Conclude(res, x, "idle")
        PROVE  QueueInv'
    <3>1. UNCHANGED <<callerVars, accepting, queue, ticket, held, report, applied, stop>>
      BY <1>24 DEF Answer
    <3>2. /\ tries \in [Writes -> 0..MaxReconfirms] /\ applied \in [Writes -> Nat]
          /\ x \in ExecStates /\ res \in {"ok", "err", "reconfirm"} /\ res # "reconfirm"
      BY DEF TypeOK, ExecStates
    <3> QED
      BY <2>0, <2>1, <2>2, <3>1, <3>2, QueueConcludes
  <2>3. CASE exec' = [exec EXCEPT ![item] = "finished"] /\ ActorGoes("running") /\ UNCHANGED <<result, record>>
    <3>1. InQueue' = InQueue /\ Active' = Active /\ item' = item
      BY <1>24, <2>3 DEF Answer, InQueue, Active, ActorGoes
    <3>2. TypeOK'
      BY <1>24, <2>0, <2>1, <2>3, <3>1 DEF Answer, ActorGoes, TypeOK
    <3>3. QueuedOnce' /\ ActorFits'
      BY <1>24, <2>3, <3>1 DEF Answer, ActorGoes, QueuedOnce, ActorFits, TypeOK
    <3>4. WaitingIsActive' /\ SuccessFits' /\ TicketFits'
      BY <1>24, <2>3, <3>1 DEF Answer, WaitingIsActive, SuccessFits, TicketFits
    <3> QED
      BY <3>2, <3>3, <3>4
  <2> QED
    BY <1>24, <2>2, <2>3 DEF Answer
<1>25. ASSUME Unanswered PROVE QueueInv'
  <2>0. item \in Writes /\ exec[item] \in ExecStates
    BY <1>25, <1>0 DEF Unanswered, TypeOK
  <2> QED
    BY <1>25, <2>0, QueueConcludes DEF Unanswered, TypeOK
<1>26. ASSUME Interrupt PROVE QueueInv'
  <2>0. item \in Writes /\ exec[item] \in ExecStates
    BY <1>26, <1>0 DEF Interrupt, TypeOK
  <2> QED
    BY <1>26, <2>0, QueueConcludes DEF Interrupt, TypeOK, Signalled
<1> QED
  BY <1>1, <1>2, <1>3, <1>4, <1>5, <1>6, <1>7, <1>8, <1>9, <1>10, <1>11, <1>12, <1>13, <1>14, <1>15, <1>17, <1>18, <1>19, <1>20, <1>21, <1>22, <1>23, <1>24, <1>25, <1>26
  DEF Next, CallStep, ActorStep

-----------------------------------------------------------------------------
(* The second layer: what the execution says of the engine.                *)

\* An item that ends keeps the layer when what is known of its requests agrees
\* with the state x it ends in.
LEMMA ExecConcludes ==
    ASSUME QueueInv, QueueInv', ExecInv, item \in Writes,
           NEW res \in {"ok", "err", "reconfirm"}, NEW x \in ExecStates, NEW next \in {"idle", "draining"},
           Conclude(res, x, next), UNCHANGED <<call, queue, ticket>>,
           \A r \in Writes \ {item} : /\ confirmed'[r] = confirmed[r] /\ engine'[r] = engine[r]
                                      /\ applied'[r] = applied[r],
           item \notin Controls =>
               /\ applied'[item] = confirmed'[item] + (IF engine'[item] = "applied" THEN 1 ELSE 0)
               /\ x # "sent" => engine'[item] = "none"
               /\ x = "untouched" => confirmed'[item] = 0
               /\ x = "finished" => confirmed'[item] > 0
               /\ ticket[item] # "started" => x \in {"untouched", "notSent"} /\ confirmed'[item] = 0
               /\ res = "ok" => /\ x = "finished" => confirmed'[item] = Steps[item]
                                /\ x \in {"untouched", "notSent"} => confirmed'[item] = 0,
           item \in Controls =>
               /\ engine'[item] = "none" /\ confirmed'[item] = 0
               /\ x \in {"untouched", "notSent", "finished"}
               /\ applied'[item] = IF x = "finished" THEN 1 ELSE 0,
           res = "reconfirm" => x = "untouched" /\ exec[item] = x
    PROVE  ExecInv'
<1> USE QueueAssumption
<1>1. /\ result' = [result EXCEPT ![item] = res]
      /\ actor' = next /\ item' = Nobody
      /\ \A r \in Writes \ {item} : exec'[r] = exec[r] /\ record'[r] = record[r]
      /\ res = "reconfirm" => exec' = exec /\ record' = record
      /\ res # "reconfirm" => exec'[item] = AfterActor(x) /\ record'[item].final
  BY ConcludeFacts DEF QueueInv
<1>2. /\ exec'[item] \in {x, "notSent"}
      /\ res = "reconfirm" => exec'[item] = "untouched"
      /\ x # "untouched" => exec'[item] = x
  BY <1>1 DEF AfterActor
<1>3. /\ result'[item] = res /\ \A r \in Writes \ {item} : result'[r] = result[r]
      /\ InQueue' = InQueue /\ item \notin InQueue /\ call[item] \notin Early
  <2>1. InQueue' = InQueue
    BY DEF InQueue
  <2> QED
    BY <1>1, <2>1 DEF QueueInv, TypeOK, QueuedOnce, WaitingIsActive, Active
<1>4. EditFacts'
  <2> SUFFICES ASSUME NEW r \in Writes \ Controls
               PROVE  /\ applied'[r] = confirmed'[r] + (IF engine'[r] = "applied" THEN 1 ELSE 0)
                      /\ exec'[r] # "sent" => engine'[r] = "none"
                      /\ exec'[r] = "untouched" => confirmed'[r] = 0
                      /\ exec'[r] = "finished" => confirmed'[r] > 0
                      /\ ticket'[r] # "started" => exec'[r] \in {"untouched", "notSent"} /\ confirmed'[r] = 0
                      /\ result'[r] = "ok" => /\ exec'[r] = "finished" => confirmed'[r] = Steps[r]
                                              /\ exec'[r] \in {"untouched", "notSent"} => confirmed'[r] = 0
    BY DEF EditFacts
  <2>1. CASE r = item
    <3>1. res = "ok" => (exec'[item] \in {"untouched", "notSent"} => x \in {"untouched", "notSent"})
      BY <1>2 DEF ExecStates
    <3> QED
      BY <1>2, <1>3, <2>1, <3>1 DEF ExecStates
  <2>2. CASE r # item
    BY <1>1, <1>3, <2>2 DEF ExecInv, EditFacts
  <2> QED
    BY <2>1, <2>2
<1>5. ControlFacts'
  <2> SUFFICES ASSUME NEW r \in Controls
               PROVE  /\ engine'[r] = "none" /\ confirmed'[r] = 0
                      /\ exec'[r] \in {"untouched", "notSent", "finished"}
                      /\ applied'[r] = IF exec'[r] = "finished" THEN 1 ELSE 0
    BY DEF ControlFacts
  <2>1. CASE r = item
    BY <1>2, <2>1
  <2>2. CASE r # item
    BY <1>1, <2>2 DEF ExecInv, ControlFacts
  <2> QED
    BY <2>1, <2>2
<1>6. ExecFits'
  BY <1>1, <1>2, <1>3 DEF ExecInv, ExecFits
<1> QED
  BY <1>4, <1>5, <1>6 DEF ExecInv

\* Every step keeps the second layer.
LEMMA ExecStep ==
    ASSUME QueueInv, QueueInv', ExecInv, Next
    PROVE  ExecInv'
<1> USE QueueAssumption DEF callerVars, ticketVars, actorVars, trackVars, engineVars
<1>0. /\ item \in Writes \cup {Nobody} /\ Nobody \notin Writes
      /\ \A r \in Writes : exec[r] \in ExecStates /\ confirmed[r] \in Nat /\ applied[r] \in Nat
      /\ item \in Writes => item \notin InQueue /\ call[item] \notin Early /\ result[item] = "none"
  BY DEF QueueInv, TypeOK, ExecStates, QueuedOnce, WaitingIsActive, Active
<1>1. ASSUME NEW r \in Writes, Submit(r) PROVE ExecInv'
  <2>1. InQueue' = InQueue /\ UNCHANGED <<exec, confirmed, engine, applied, actor, item>>
    BY <1>1 DEF Submit, InQueue
  <2>2. EditFacts' /\ ControlFacts'
    BY <1>1, <2>1 DEF Submit, Goto, QueueInv, TypeOK, ExecInv, EditFacts, ControlFacts
  <2>3. ExecFits'
    BY <1>1, <2>1 DEF Submit, Goto, QueueInv, TypeOK, ExecInv, ExecFits, Early
  <2> QED
    BY <2>2, <2>3 DEF ExecInv
<1>2. ASSUME NEW r \in Writes, Confirm(r) PROVE ExecInv'
  <2>1. InQueue' = InQueue /\ UNCHANGED <<exec, confirmed, engine, applied, actor, item>>
    BY <1>2 DEF Confirm, InQueue
  <2>2. EditFacts' /\ ControlFacts'
    BY <1>2, <2>1 DEF Confirm, Goto, QueueInv, TypeOK, ExecInv, EditFacts, ControlFacts
  <2>3. ExecFits'
    BY <1>2, <2>1 DEF Confirm, Goto, QueueInv, TypeOK, ExecInv, ExecFits, Early
  <2> QED
    BY <2>2, <2>3 DEF ExecInv
<1>3. ASSUME NEW r \in Writes, LeaseEnds(r) PROVE ExecInv'
  <2>1. InQueue' = InQueue /\ UNCHANGED <<exec, confirmed, engine, applied, actor, item>>
    BY <1>3 DEF LeaseEnds, InQueue
  <2>2. EditFacts' /\ ControlFacts'
    BY <1>3, <2>1 DEF LeaseEnds, QueueInv, TypeOK, ExecInv, EditFacts, ControlFacts
  <2>3. ExecFits'
    BY <1>3, <2>1 DEF LeaseEnds, QueueInv, TypeOK, ExecInv, ExecFits, Early
  <2> QED
    BY <2>2, <2>3 DEF ExecInv
<1>4. ASSUME NEW r \in Writes, GiveUp(r) PROVE ExecInv'
  <2>1. InQueue' = InQueue /\ UNCHANGED <<exec, confirmed, engine, applied, actor, item>>
    BY <1>4 DEF GiveUp, InQueue
  <2>2. EditFacts' /\ ControlFacts'
    BY <1>4, <2>1 DEF GiveUp, Goto, CancelTicket, QueueInv, TypeOK, ExecInv, EditFacts, ControlFacts
  <2>3. ExecFits'
    BY <1>4, <2>1 DEF GiveUp, Goto, CancelTicket, QueueInv, TypeOK, ExecInv, ExecFits, Early
  <2> QED
    BY <2>2, <2>3 DEF ExecInv
<1>5. ASSUME NEW r \in Writes, DropCancel(r) PROVE ExecInv'
  <2>1. InQueue' = InQueue /\ UNCHANGED <<exec, confirmed, engine, applied, actor, item>>
    BY <1>5 DEF DropCancel, InQueue
  <2>2. EditFacts' /\ ControlFacts'
    BY <1>5, <2>1 DEF DropCancel, Goto, QueueInv, TypeOK, ExecInv, EditFacts, ControlFacts
  <2>3. ExecFits'
    BY <1>5, <2>1 DEF DropCancel, Goto, QueueInv, TypeOK, ExecInv, ExecFits, Early
  <2> QED
    BY <2>2, <2>3 DEF ExecInv
<1>6. ASSUME NEW r \in Writes, Report(r) PROVE ExecInv'
  <2>1. InQueue' = InQueue /\ UNCHANGED <<exec, confirmed, engine, applied, actor, item>>
    BY <1>6 DEF Report, InQueue
  <2>2. EditFacts' /\ ControlFacts'
    BY <1>6, <2>1 DEF Report, Goto, QueueInv, TypeOK, ExecInv, EditFacts, ControlFacts
  <2>3. ExecFits'
    BY <1>6, <2>1 DEF Report, Goto, QueueInv, TypeOK, ExecInv, ExecFits, Early
  <2> QED
    BY <2>2, <2>3 DEF ExecInv
<1>7. ASSUME NEW r \in Writes, Receive(r) PROVE ExecInv'
  <2>1. InQueue' = InQueue /\ UNCHANGED <<exec, confirmed, engine, applied, actor, item>>
    BY <1>7 DEF Receive, InQueue
  <2>2. EditFacts' /\ ControlFacts'
    BY <1>7, <2>1 DEF Receive, Goto, CancelTicket, QueueInv, TypeOK, ExecInv, EditFacts, ControlFacts
  <2>3. ExecFits'
    BY <1>7, <2>1 DEF Receive, Goto, CancelTicket, QueueInv, TypeOK, ExecInv, ExecFits, Early
  <2> QED
    BY <2>2, <2>3 DEF ExecInv
<1>8. ASSUME NEW r \in Writes, Enqueue(r) PROVE ExecInv'
  <2>1. /\ UNCHANGED <<exec, confirmed, engine, applied, actor, item>>
        /\ call[r] = "submitting" /\ exec[r] = "untouched"
        /\ \A q \in Writes \ {r} : /\ call'[q] = call[q] /\ result'[q] = result[q] /\ ticket'[q] = ticket[q]
    BY <1>8 DEF Enqueue, Goto, QueueInv, TypeOK, ExecInv, ExecFits, Early
  <2>2. \A q \in Writes \ {r} : q \in InQueue' => q \in InQueue
    <3>1. CASE queue' = queue
      BY <3>1 DEF InQueue
    <3>2. CASE queue' # queue
      <4>1. queue' = Append(queue, r) /\ r \notin InQueue
        BY <1>8, <3>2 DEF Enqueue, QueueInv, WaitingIsActive, Active, Early
      <4> QED
        BY <4>1, QueueGrows DEF QueueInv
    <3> QED
      BY <3>1, <3>2
  <2>3. r \in Controls \/ confirmed[r] = 0
    BY <2>1 DEF ExecInv, EditFacts
  <2>4. EditFacts'
    BY <2>1, <2>3 DEF ExecInv, EditFacts
  <2>5. ControlFacts'
    BY <2>1 DEF ExecInv, ControlFacts
  <2>6. ExecFits'
    BY <2>1, <2>2 DEF ExecInv, ExecFits
  <2> QED
    BY <2>4, <2>5, <2>6 DEF ExecInv
<1>9. ASSUME NEW r \in Writes, Record(r) PROVE ExecInv'
  <2> DEFINE y == IF ticket[r] = "none" THEN AfterActor(exec[r]) ELSE exec[r]
  <2>1. /\ exec' = [exec EXCEPT ![r] = y]
        /\ UNCHANGED <<queue, ticket, result, confirmed, engine, applied, actor, item>> /\ InQueue' = InQueue
        /\ call' = [call EXCEPT ![r] = IF r \in gone THEN "returned" ELSE "reporting"]
    BY <1>9 DEF Record, RecordResult, Goto, InQueue
  <2>2. /\ y = exec[r] \/ (y = "notSent" /\ exec[r] = "untouched" /\ ticket[r] = "none" /\ result[r] = "none")
        /\ \A q \in Writes : exec'[q] = IF q = r THEN y ELSE exec[q]
    BY <2>1 DEF AfterActor, QueueInv, TypeOK, TicketFits
  <2> HIDE DEF y
  <2>3. EditFacts' /\ ControlFacts'
    BY <2>1, <2>2 DEF ExecInv, EditFacts, ControlFacts
  <2>4. y # exec[r] => r \notin Active
    BY <2>2 DEF QueueInv, WaitingIsActive
  <2>5. ExecFits'
    BY <2>1, <2>2, <2>4 DEF ExecInv, ExecFits, QueueInv, TypeOK, Early, Active
  <2> QED
    BY <2>3, <2>5 DEF ExecInv
<1>10. ASSUME NEW r \in Writes, EngineHandles(r) PROVE ExecInv'
  <2>0. InQueue' = InQueue
    BY <1>10 DEF EngineHandles, InQueue
  <2>1. /\ engine[r] = "sent"
        /\ UNCHANGED <<exec, confirmed, call, ticket, result, actor, item>>
        /\ \A q \in Writes \ {r} : engine'[q] = engine[q] /\ applied'[q] = applied[q]
        /\ \/ engine'[r] = "applied" /\ applied'[r] = applied[r] + 1
           \/ engine'[r] = "refused" /\ applied'[r] = applied[r]
    BY <1>10 DEF EngineHandles, QueueInv, TypeOK
  <2>2. r \notin Controls /\ exec[r] = "sent"
    BY <2>1 DEF ExecInv, ControlFacts, EditFacts
  <2>3. EditFacts'
    BY <1>0, <2>1, <2>2 DEF ExecInv, EditFacts
  <2>4. ControlFacts'
    BY <2>1, <2>2 DEF ExecInv, ControlFacts
  <2>5. ExecFits'
    BY <2>0, <2>1 DEF ExecInv, ExecFits
  <2> QED
    BY <2>3, <2>4, <2>5 DEF ExecInv
<1>11. ASSUME Shutdown PROVE ExecInv'
  <2>1. InQueue' = InQueue /\ UNCHANGED <<call, ticket, result, exec, confirmed, engine, applied, actor, item>>
    BY <1>11 DEF Shutdown, InQueue
  <2> QED
    BY <2>1 DEF ExecInv, EditFacts, ControlFacts, ExecFits
<1>12. ASSUME Joined PROVE ExecInv'
  <2>1. InQueue' = InQueue /\ UNCHANGED <<call, ticket, result, exec, confirmed, engine, applied, actor, item>>
    BY <1>12 DEF Joined, InQueue
  <2> QED
    BY <2>1 DEF ExecInv, EditFacts, ControlFacts, ExecFits
<1>13. ASSUME Take PROVE ExecInv'
  <2>1. Head(queue) \in InQueue /\ Head(queue) \in Writes /\ InQueue' = InQueue \ {Head(queue)}
    BY <1>13, QueueShrinks DEF Take, QueueInv
  <2>2. /\ item' = Head(queue) /\ actor' = "checking"
        /\ UNCHANGED <<call, ticket, result, exec, confirmed, engine, applied>>
    BY <1>13 DEF Take
  <2> QED
    BY <2>1, <2>2 DEF ExecInv, EditFacts, ControlFacts, ExecFits
<1>14. ASSUME Drain PROVE ExecInv'
  <2>1. InQueue' = {} /\ item' = item /\ actor' = "stopped"
        /\ UNCHANGED <<call, ticket, exec, confirmed, engine, applied>>
        /\ \A r \in Writes : result'[r] = IF r \in InQueue THEN "err" ELSE result[r]
    BY <1>14, QueueEmpty DEF Drain
  <2>2. item = Nobody
    BY <1>14 DEF Drain, QueueInv, TypeOK
  <2> QED
    BY <2>1, <2>2 DEF ExecInv, EditFacts, ControlFacts, ExecFits
<1>15. ASSUME Abort PROVE ExecInv'
  <2>1. InQueue' = {} /\ item' = Nobody /\ actor' = "stopped"
        /\ UNCHANGED <<call, ticket, confirmed, engine, applied>>
        /\ \A r \in Writes : result'[r] = IF r \in Active THEN "err" ELSE result[r]
    BY <1>15, QueueEmpty DEF Abort, Active
  <2>2. \A r \in Writes : \/ exec'[r] = exec[r]
                          \/ r = item /\ exec[r] = "untouched" /\ exec'[r] = "notSent"
    <3>1. CASE item = Nobody
      BY <1>15, <3>1 DEF Abort
    <3>2. CASE item # Nobody
      <4>1. exec' = [exec EXCEPT ![item] = AfterActor(exec[item])]
        BY <1>15, <3>2 DEF Abort, RecordResult
      <4> QED
        BY <1>0, <3>2, <4>1 DEF AfterActor, QueueInv, TypeOK
    <3> QED
      BY <3>1, <3>2
  <2>3. item \in Active
    BY DEF Active
  <2>4. EditFacts'
    BY <2>1, <2>2, <2>3 DEF ExecInv, EditFacts
  <2>5. ControlFacts'
    BY <2>1, <2>2 DEF ExecInv, ControlFacts
  <2>6. ExecFits'
    BY <1>0, <2>1, <2>2, <2>3 DEF ExecInv, ExecFits
  <2> QED
    BY <2>4, <2>5, <2>6 DEF ExecInv
<1>16. ASSUME item \in Writes, NEW res \in {"ok", "err", "reconfirm"}, NEW next \in {"idle", "draining"},
             Conclude(res, exec[item], next), UNCHANGED <<call, queue, ticket, confirmed, engine, applied>>,
             res \in {"ok", "reconfirm"} => exec[item] = "untouched"
      PROVE  ExecInv'
  <2>1. item \notin Controls =>
               /\ applied[item] = confirmed[item] + (IF engine[item] = "applied" THEN 1 ELSE 0)
               /\ exec[item] # "sent" => engine[item] = "none"
               /\ exec[item] = "untouched" => confirmed[item] = 0
               /\ exec[item] = "finished" => confirmed[item] > 0
               /\ ticket[item] # "started" => exec[item] \in {"untouched", "notSent"} /\ confirmed[item] = 0
    BY <1>16 DEF ExecInv, EditFacts
  <2>2. item \in Controls =>
               /\ engine[item] = "none" /\ confirmed[item] = 0
               /\ exec[item] \in {"untouched", "notSent", "finished"}
               /\ applied[item] = IF exec[item] = "finished" THEN 1 ELSE 0
    BY <1>16 DEF ExecInv, ControlFacts
  <2>3. exec[item] \in ExecStates
    BY <1>0, <1>16
  <2> QED
    BY <1>16, <2>1, <2>2, <2>3, ExecConcludes
<1>17. ASSUME item \in Writes, item' = item, UNCHANGED <<call, queue, result, exec, confirmed, engine, applied>>,
             \/ ticket' = ticket \/ (ticket' = [ticket EXCEPT ![item] = "started"]),
             actor' # "awaiting",
             \/ exec[item] = "untouched"
             \/ exec[item] = "finished" /\ actor' \in {"running", "sending"}
      PROVE  ExecInv'
  <2>0. InQueue' = InQueue
    BY <1>17 DEF InQueue
  <2>1. \A r \in Writes : ticket'[r] = "started" \/ ticket'[r] = ticket[r]
    BY <1>17 DEF QueueInv, TypeOK
  <2>2. EditFacts'
    BY <1>17, <2>1 DEF ExecInv, EditFacts
  <2>3. ControlFacts'
    BY <1>17 DEF ExecInv, ControlFacts
  <2>4. ExecFits'
    BY <1>17, <2>0, <2>1 DEF ExecInv, ExecFits
  <2> QED
    BY <2>2, <2>3, <2>4 DEF ExecInv
<1>18. ASSUME Check PROVE ExecInv'
  <2>0. item \in Writes /\ exec[item] = "untouched"
    BY <1>18 DEF Check, QueueInv, TypeOK, ExecInv, ExecFits

  <2>1. CASE Conclude("err", exec[item], "idle")
    BY <1>18, <2>0, <2>1, <1>16 DEF Check
  <2>2. CASE /\ ActorGoes(IF item \in Controls THEN "control" ELSE "revalidating")
             /\ UNCHANGED <<result, exec, record>>
    BY <1>18, <2>0, <2>2, <1>17 DEF Check, ActorGoes
  <2> QED
    BY <1>18, <2>1, <2>2 DEF Check
<1>19. ASSUME ControlCheck PROVE ExecInv'
  <2>0. item \in Writes /\ exec[item] = "untouched"
    BY <1>19 DEF ControlCheck, QueueInv, TypeOK, ExecInv, ExecFits

  <2>1. CASE Conclude("err", exec[item], "idle")
    BY <1>19, <2>0, <2>1, <1>16 DEF ControlCheck
  <2>2. CASE ActorGoes("controlling") /\ UNCHANGED <<result, exec, record>>
    BY <1>19, <2>0, <2>2, <1>17 DEF ControlCheck, ActorGoes
  <2> QED
    BY <1>19, <2>1, <2>2 DEF ControlCheck
<1>20. ASSUME Control PROVE ExecInv'
  <2>0. item \in Writes /\ exec[item] = "untouched"
    BY <1>20 DEF Control, QueueInv, TypeOK, ExecInv, ExecFits

  <2>1. item \in Controls
    BY <1>20 DEF Control, QueueInv, ActorFits
  <2>2. engine[item] = "none" /\ confirmed[item] = 0 /\ applied[item] = 0
    BY <2>0, <2>1 DEF ExecInv, ControlFacts
  <2>3. /\ applied'[item] = 1 /\ \A r \in Writes \ {item} : applied'[r] = applied[r]
        /\ Conclude("ok", "finished", "idle") /\ UNCHANGED <<call, queue, ticket, confirmed, engine>>
    BY <1>20, <2>0, <2>2 DEF Control, QueueInv, TypeOK
  <2> QED
    BY <2>0, <2>1, <2>2, <2>3, ExecConcludes DEF ExecStates
<1>21. ASSUME Revalidate PROVE ExecInv'
  <2>0. item \in Writes /\ exec[item] = "untouched"
    BY <1>21 DEF Revalidate, QueueInv, TypeOK, ExecInv, ExecFits

  <2>1. CASE Conclude("err", exec[item], "draining")
    BY <1>21, <2>0, <2>1, <1>16 DEF Revalidate
  <2>2. CASE Conclude("err", exec[item], "idle")
    BY <1>21, <2>0, <2>2, <1>16 DEF Revalidate
  <2>3. CASE Conclude("reconfirm", exec[item], "idle")
    BY <1>21, <2>0, <2>3, <1>16 DEF Revalidate
  <2>4. CASE ActorGoes("prepared") /\ UNCHANGED <<tries, result, exec, record>>
    BY <1>21, <2>0, <2>4, <1>17 DEF Revalidate, ActorGoes
  <2> QED
    BY <1>21, <2>1, <2>2, <2>3, <2>4 DEF Revalidate
<1>22. ASSUME Start PROVE ExecInv'
  <2>0. item \in Writes /\ exec[item] = "untouched"
    BY <1>22 DEF Start, QueueInv, TypeOK, ExecInv, ExecFits

  <2>1. ASSUME NEW res \in {"ok", "err"}, Conclude(res, exec[item], "idle"), UNCHANGED ticket
        PROVE  ExecInv'
    <3>1. UNCHANGED <<call, queue, ticket, confirmed, engine, applied>>
      BY <1>22, <2>1 DEF Start
    <3> QED
      BY <2>0, <2>1, <3>1, <1>16
  <2>2. CASE /\ ticket' = [ticket EXCEPT ![item] = "started"]
             /\ ActorGoes("running") /\ UNCHANGED <<result, exec, record>>
    BY <1>22, <2>0, <2>2, <1>17 DEF Start, ActorGoes
  <2> QED
    BY <1>22, <2>1, <2>2 DEF Start
<1>23. ASSUME SendCheck PROVE ExecInv'
  <2>0. item \in Writes /\ exec[item] \in {"untouched", "finished"} /\ item \notin Controls /\ ticket[item] = "started"
    BY <1>23 DEF SendCheck, QueueInv, TypeOK, ActorFits, ExecInv, ExecFits
  <2>1. CASE Conclude("err", exec[item], "idle")
    BY <1>23, <2>0, <2>1, <1>16 DEF SendCheck
  <2>2. CASE Conclude("err", "notSent", "idle")
    <3>1. engine[item] = "none" /\ applied[item] = confirmed[item] + (IF engine[item] = "applied" THEN 1 ELSE 0)
      BY <2>0 DEF ExecInv, EditFacts
    <3>2. UNCHANGED <<call, queue, ticket, confirmed, engine, applied>>
      BY <1>23 DEF SendCheck
    <3> QED
      BY <2>0, <2>2, <3>1, <3>2, ExecConcludes DEF ExecStates
  <2>3. CASE ActorGoes("sending") /\ UNCHANGED <<result, exec, record>>
    BY <1>23, <2>0, <2>3, <1>17 DEF SendCheck, ActorGoes
  <2> QED
    BY <1>23, <2>1, <2>2, <2>3 DEF SendCheck
<1>24. ASSUME Send PROVE ExecInv'
  <2>0. /\ item \in Writes /\ exec[item] \in {"untouched", "finished"} /\ item \notin Controls
        /\ ticket[item] = "started"
    BY <1>24 DEF Send, QueueInv, TypeOK, ActorFits, ExecInv, ExecFits
  <2>1. /\ exec'[item] = "sent" /\ engine'[item] = "sent" /\ item' = item /\ actor' = "awaiting"
        /\ \A r \in Writes \ {item} : exec'[r] = exec[r] /\ engine'[r] = engine[r]
        /\ UNCHANGED <<call, ticket, result, confirmed, applied>>
    BY <1>24, <2>0 DEF Send, ActorGoes, QueueInv, TypeOK
  <2>6. InQueue' = InQueue
    BY <1>24 DEF Send, InQueue
  <2>2. engine[item] = "none"
    BY <2>0 DEF ExecInv, EditFacts
  <2>3. EditFacts'
    BY <1>0, <2>0, <2>1, <2>2 DEF ExecInv, EditFacts
  <2>4. ControlFacts'
    BY <2>0, <2>1 DEF ExecInv, ControlFacts
  <2>5. ExecFits'
    BY <1>0, <2>0, <2>1, <2>6 DEF ExecInv, ExecFits
  <2> QED
    BY <2>3, <2>4, <2>5 DEF ExecInv
<1>25. ASSUME Answer PROVE ExecInv'
  <2>0. /\ item \in Writes /\ exec[item] = "sent" /\ item \notin Controls /\ ticket[item] = "started"
        /\ result[item] = "none" /\ UNCHANGED <<call, queue, ticket, applied>>
    BY <1>25, <1>0 DEF Answer, QueueInv, TypeOK, ActorFits, ExecInv, ExecFits
  <2>1. applied[item] = confirmed[item] + (IF engine[item] = "applied" THEN 1 ELSE 0)
    BY <2>0 DEF ExecInv, EditFacts
  <2>2. CASE engine[item] = "applied"
    <3>1. /\ confirmed'[item] = confirmed[item] + 1 /\ engine'[item] = "none"
          /\ \A r \in Writes \ {item} : confirmed'[r] = confirmed[r] /\ engine'[r] = engine[r]
      BY <1>25, <2>0, <2>2 DEF Answer, QueueInv, TypeOK
    <3>2. CASE confirmed[item] + 1 = Steps[item]
      <4>1. Conclude("ok", "finished", "idle")
        BY <1>25, <2>2, <3>2 DEF Answer
      <4> QED
        BY <1>0, <2>0, <2>1, <2>2, <3>1, <3>2, <4>1, ExecConcludes DEF ExecStates
    <3>3. CASE confirmed[item] + 1 # Steps[item]
      <4>1. /\ exec'[item] = "finished" /\ item' = item /\ actor' = "running" /\ UNCHANGED result
            /\ \A r \in Writes \ {item} : exec'[r] = exec[r]
        BY <1>25, <2>0, <2>2, <3>3 DEF Answer, ActorGoes, QueueInv, TypeOK
      <4>5. InQueue' = InQueue
        BY <2>0 DEF InQueue
      <4>2. EditFacts'
        BY <1>0, <2>0, <2>1, <2>2, <3>1, <4>1 DEF ExecInv, EditFacts
      <4>3. ControlFacts'
        BY <2>0, <3>1, <4>1 DEF ExecInv, ControlFacts
      <4>4. ExecFits'
        BY <1>0, <2>0, <4>1, <4>5 DEF ExecInv, ExecFits
      <4> QED
        BY <4>2, <4>3, <4>4 DEF ExecInv
    <3> QED
      BY <3>2, <3>3
  <2>3. CASE engine[item] = "refused"
    <3>1. /\ engine'[item] = "none" /\ UNCHANGED confirmed
          /\ \A r \in Writes \ {item} : engine'[r] = engine[r]
      BY <1>25, <2>0, <2>3 DEF Answer, QueueInv, TypeOK
    <3>2. PICK res \in {"ok", "err"} : Conclude(res, "rejected", "idle")
      BY <1>25, <2>3 DEF Answer
    <3> QED
      BY <1>0, <2>0, <2>1, <2>3, <3>1, <3>2, ExecConcludes DEF ExecStates
  <2> QED
    BY <1>25, <2>2, <2>3 DEF Answer
<1>26. ASSUME Unanswered PROVE ExecInv'
  <2>0. item \in Writes
    BY <1>26 DEF Unanswered, QueueInv, TypeOK

  <2> QED
    BY <1>26, <2>0, <1>16 DEF Unanswered
<1>27. ASSUME Interrupt PROVE ExecInv'
  <2>0. item \in Writes
    BY <1>27 DEF Interrupt, QueueInv, TypeOK

  <2> QED
    BY <1>27, <2>0, <1>16 DEF Interrupt
<1> QED
  BY <1>1, <1>2, <1>3, <1>4, <1>5, <1>6, <1>7, <1>8, <1>9, <1>10, <1>11, <1>12, <1>13, <1>14, <1>15, <1>18, <1>19, <1>20, <1>21, <1>22, <1>23, <1>24, <1>25, <1>26, <1>27
  DEF Next, CallStep, ActorStep

-----------------------------------------------------------------------------
(* The third layer: what is told of a write.                               *)

\* What a step does to the place of a write: a write the actor is done with is
\* not taken up again, and no ticket, try or return is taken back.
Progress(r) ==
    /\ Done(r) => Done(r)'
    /\ ticket'[r] = "none" => ticket[r] = "none"
    /\ ticket[r] = "none" /\ ticket'[r] # "none" => r \in Active'
    /\ tries'[r] = 0 => tries[r] = 0
    /\ call[r] = "returned" => call'[r] = "returned"
    /\ call'[r] \in {"reporting", "returned"} => call[r] \in {"reporting", "returned"} \/ Record(r)
    /\ stop' = "idle" => stop = "idle"

\* What a step does at the engine: nothing of a write that is quiet, and nothing
\* is undone.  (A group control in the actor's hands does not look at its ticket.)
Stillness(r) ==
    /\ applied'[r] >= applied[r]
    /\ Quiet(r) /\ exec[r] # "sent" /\ (r \notin Controls \/ r \notin Active) =>
           applied'[r] = applied[r] /\ exec'[r] # "sent" /\ Quiet(r)'

\* What a step writes down: a final record is kept, and an item the actor leaves
\* gets one unless it must be confirmed again or the service stops.
Bookkeeping(r) ==
    /\ record[r].final => record'[r] = record[r]
    /\ r \in Active /\ r \notin Active' => stop # "idle" \/ tries'[r] > 0 \/ record'[r].final
    /\ report'[r] = report[r] \/ Report(r)

\* The end of an item, for the item and for every other write.
LEMMA FrameConcludes ==
    ASSUME QueueInv, QueueInv', ExecInv, ExecInv', item \in Writes,
           NEW res \in {"ok", "err", "reconfirm"}, NEW x \in ExecStates, NEW next \in {"idle", "draining"},
           Conclude(res, x, next), UNCHANGED <<call, queue, ticket, stop, report>>,
           \A q \in Writes \ {item} : applied'[q] = applied[q] /\ tries'[q] = tries[q],
           applied'[item] >= applied[item], tries'[item] >= tries[item],
           res = "reconfirm" => tries'[item] > 0,
           x = "sent" => exec[item] = "sent",
           ticket[item] # "started" /\ item \notin Controls => applied'[item] = applied[item],
           NEW r \in Writes
    PROVE  Progress(r) /\ Stillness(r) /\ Bookkeeping(r)
<1> USE QueueAssumption
<1>0. TypeOK /\ (TypeOK)'
  BY DEF QueueInv
<1>1. /\ result' = [result EXCEPT ![item] = res]
      /\ actor' = next /\ item' = Nobody
      /\ \A q \in Writes \ {item} : exec'[q] = exec[q] /\ record'[q] = record[q]
      /\ res = "reconfirm" => exec' = exec /\ record' = record
      /\ res # "reconfirm" => exec'[item] = AfterActor(x) /\ record'[item].final
      /\ record[item].final => record'[item] = record[item]
  BY <1>0, ConcludeFacts
<1>2. InQueue' = InQueue
  BY DEF InQueue
<1>3. /\ item \in Active /\ call[item] \notin Early /\ item \notin InQueue /\ ticket[item] # "none"
      /\ call[item] = "waiting" => ticket[item] # "cancelled"
  BY DEF QueueInv, QueuedOnce, WaitingIsActive, Active
<1>4. /\ r \in Active' <=> r \in Active /\ r # item
      /\ r # item => result'[r] = result[r]
      /\ result'[item] = res
      /\ exec'[r] = "sent" => exec[r] = "sent"
  BY SMTT(30), <1>0, <1>1, <1>2, <1>3 DEF Active, TypeOK, AfterActor
<1>5. /\ applied[r] \in Nat /\ tries[r] \in Nat /\ applied'[r] \in Nat /\ tries'[r] \in Nat
      /\ ticket[r] \in {"none", "waiting", "started", "cancelled"}
  BY <1>0 DEF TypeOK
<1>6. Progress(r)
  BY <1>3, <1>4, <1>5 DEF Progress, Done
<1>7. Stillness(r)
  BY <1>3, <1>4, <1>5 DEF Stillness, Quiet
<1>8. Bookkeeping(r)
  BY <1>1, <1>4, <1>5 DEF Bookkeeping
<1> QED
  BY <1>6, <1>7, <1>8

\* Every step, for every write.
LEMMA Frame ==
    ASSUME QueueInv, QueueInv', ExecInv, ExecInv', Next, NEW r \in Writes
    PROVE  Progress(r) /\ Stillness(r) /\ Bookkeeping(r)
<1> DEFINE Goal == Progress(r) /\ Stillness(r) /\ Bookkeeping(r)
<1> USE QueueAssumption DEF callerVars, ticketVars, actorVars, trackVars, engineVars
<1>0. /\ item \in Writes \cup {Nobody} /\ Nobody \notin Writes /\ TypeOK /\ (TypeOK)'
      /\ \A q \in Writes : exec[q] \in ExecStates /\ confirmed[q] \in Nat /\ applied[q] \in Nat /\ tries[q] \in Nat
      /\ \A q \in Writes : exec'[q] \in ExecStates /\ confirmed'[q] \in Nat /\ applied'[q] \in Nat /\ tries'[q] \in Nat
      /\ item \in Writes => /\ item \notin InQueue /\ call[item] \notin Early /\ result[item] = "none"
                            /\ item \in Active /\ ticket[item] # "none"
  <2>1. item \in Writes \cup {Nobody} /\ Nobody \notin Writes /\ TypeOK /\ (TypeOK)'
    BY DEF QueueInv, TypeOK
  <2>2. ASSUME NEW q \in Writes
        PROVE  exec[q] \in ExecStates /\ confirmed[q] \in Nat /\ applied[q] \in Nat /\ tries[q] \in Nat
    BY <2>1 DEF TypeOK, ExecStates
  <2>3. ASSUME NEW q \in Writes
        PROVE  exec'[q] \in ExecStates /\ confirmed'[q] \in Nat /\ applied'[q] \in Nat /\ tries'[q] \in Nat
    BY <2>1 DEF TypeOK, ExecStates
  <2>4. item \in Writes => /\ item \notin InQueue /\ call[item] \notin Early /\ result[item] = "none"
                           /\ item \in Active /\ ticket[item] # "none"
    BY DEF QueueInv, QueuedOnce, WaitingIsActive, Active
  <2> QED
    BY <2>1, <2>2, <2>3, <2>4
<1> HIDE DEF Goal
<1>1. ASSUME NEW q \in Writes, Submit(q) PROVE Goal
  <2>1. InQueue' = InQueue /\ Active' = Active
    BY <1>1 DEF Submit, InQueue, Active
  <2>2. UNCHANGED <<exec, confirmed, engine, applied, record, result, tries, stop>>
        /\ report' = report
    BY <1>1 DEF Submit

  <2>3. call \in [Writes -> {"idle", "confirming", "submitting", "waiting", "dropping",
                              "recording", "reporting", "returned"}]
        /\ ticket \in [Writes -> {"none", "waiting", "started", "cancelled"}] /\ report \in [Writes -> Outcomes \cup {"none"}]
    BY <1>0 DEF TypeOK

  <2>7. Progress(r)
    BY <1>1, <1>0, <2>1, <2>2, <2>3 DEF Progress, Done, Early, Submit, Goto
  <2>8. Stillness(r)
    BY <1>1, <1>0, <2>1, <2>2, <2>3 DEF Stillness, Quiet, Early, Submit, Goto
  <2>9. Bookkeeping(r)
    BY <1>1, <1>0, <2>1, <2>2, <2>3 DEF Bookkeeping, Submit, Goto
  <2> QED
    BY <2>7, <2>8, <2>9 DEF Goal
<1>2. ASSUME NEW q \in Writes, Confirm(q) PROVE Goal
  <2>1. InQueue' = InQueue /\ Active' = Active
    BY <1>2 DEF Confirm, InQueue, Active
  <2>2. UNCHANGED <<exec, confirmed, engine, applied, record, result, tries, stop>>
        /\ report' = report
    BY <1>2 DEF Confirm

  <2>3. call \in [Writes -> {"idle", "confirming", "submitting", "waiting", "dropping",
                              "recording", "reporting", "returned"}]
        /\ ticket \in [Writes -> {"none", "waiting", "started", "cancelled"}] /\ report \in [Writes -> Outcomes \cup {"none"}]
    BY <1>0 DEF TypeOK

  <2>7. Progress(r)
    BY <1>2, <1>0, <2>1, <2>2, <2>3 DEF Progress, Done, Early, Confirm, Goto
  <2>8. Stillness(r)
    BY <1>2, <1>0, <2>1, <2>2, <2>3 DEF Stillness, Quiet, Early, Confirm, Goto
  <2>9. Bookkeeping(r)
    BY <1>2, <1>0, <2>1, <2>2, <2>3 DEF Bookkeeping, Confirm, Goto
  <2> QED
    BY <2>7, <2>8, <2>9 DEF Goal
<1>3. ASSUME NEW q \in Writes, LeaseEnds(q) PROVE Goal
  <2>1. InQueue' = InQueue /\ Active' = Active
    BY <1>3 DEF LeaseEnds, InQueue, Active
  <2>2. UNCHANGED <<exec, confirmed, engine, applied, record, result, tries, stop>>
        /\ report' = report
    BY <1>3 DEF LeaseEnds

  <2>3. call \in [Writes -> {"idle", "confirming", "submitting", "waiting", "dropping",
                              "recording", "reporting", "returned"}]
        /\ ticket \in [Writes -> {"none", "waiting", "started", "cancelled"}] /\ report \in [Writes -> Outcomes \cup {"none"}]
    BY <1>0 DEF TypeOK

  <2>7. Progress(r)
    BY <1>3, <1>0, <2>1, <2>2, <2>3 DEF Progress, Done, Early, LeaseEnds
  <2>8. Stillness(r)
    BY <1>3, <1>0, <2>1, <2>2, <2>3 DEF Stillness, Quiet, Early, LeaseEnds
  <2>9. Bookkeeping(r)
    BY <1>3, <1>0, <2>1, <2>2, <2>3 DEF Bookkeeping, LeaseEnds
  <2> QED
    BY <2>7, <2>8, <2>9 DEF Goal
<1>4. ASSUME NEW q \in Writes, GiveUp(q) PROVE Goal
  <2>1. InQueue' = InQueue /\ Active' = Active
    BY <1>4 DEF GiveUp, InQueue, Active
  <2>2. UNCHANGED <<exec, confirmed, engine, applied, record, result, tries, stop>>
        /\ report' = report
    BY <1>4 DEF GiveUp

  <2>3. call \in [Writes -> {"idle", "confirming", "submitting", "waiting", "dropping",
                              "recording", "reporting", "returned"}]
        /\ ticket \in [Writes -> {"none", "waiting", "started", "cancelled"}] /\ report \in [Writes -> Outcomes \cup {"none"}]
    BY <1>0 DEF TypeOK

  <2>7. Progress(r)
    BY <1>4, <1>0, <2>1, <2>2, <2>3 DEF Progress, Done, Early, GiveUp, Goto, CancelTicket
  <2>8. Stillness(r)
    BY <1>4, <1>0, <2>1, <2>2, <2>3 DEF Stillness, Quiet, Early, GiveUp, Goto, CancelTicket
  <2>9. Bookkeeping(r)
    BY <1>4, <1>0, <2>1, <2>2, <2>3 DEF Bookkeeping, GiveUp, Goto, CancelTicket
  <2> QED
    BY <2>7, <2>8, <2>9 DEF Goal
<1>5. ASSUME NEW q \in Writes, DropCancel(q) PROVE Goal
  <2>1. InQueue' = InQueue /\ Active' = Active
    BY <1>5 DEF DropCancel, InQueue, Active
  <2>2. UNCHANGED <<exec, confirmed, engine, applied, record, result, tries, stop>>
        /\ report' = report
    BY <1>5 DEF DropCancel

  <2>3. call \in [Writes -> {"idle", "confirming", "submitting", "waiting", "dropping",
                              "recording", "reporting", "returned"}]
        /\ ticket \in [Writes -> {"none", "waiting", "started", "cancelled"}] /\ report \in [Writes -> Outcomes \cup {"none"}]
    BY <1>0 DEF TypeOK

  <2>7. Progress(r)
    BY <1>5, <1>0, <2>1, <2>2, <2>3 DEF Progress, Done, Early, DropCancel, Goto
  <2>8. Stillness(r)
    BY <1>5, <1>0, <2>1, <2>2, <2>3 DEF Stillness, Quiet, Early, DropCancel, Goto
  <2>9. Bookkeeping(r)
    BY <1>5, <1>0, <2>1, <2>2, <2>3 DEF Bookkeeping, DropCancel, Goto
  <2> QED
    BY <2>7, <2>8, <2>9 DEF Goal
<1>6. ASSUME NEW q \in Writes, Report(q) PROVE Goal
  <2>1. InQueue' = InQueue /\ Active' = Active
    BY <1>6 DEF Report, InQueue, Active
  <2>2. UNCHANGED <<exec, confirmed, engine, applied, record, result, tries, stop>>
        /\ r # q => report'[r] = report[r]
    BY <1>6 DEF Report

  <2>3. call \in [Writes -> {"idle", "confirming", "submitting", "waiting", "dropping",
                              "recording", "reporting", "returned"}]
        /\ ticket \in [Writes -> {"none", "waiting", "started", "cancelled"}] /\ report \in [Writes -> Outcomes \cup {"none"}]
    BY <1>0 DEF TypeOK

  <2>7. Progress(r)
    BY <1>6, <1>0, <2>1, <2>2, <2>3 DEF Progress, Done, Early, Report, Goto
  <2>8. Stillness(r)
    BY <1>6, <1>0, <2>1, <2>2, <2>3 DEF Stillness, Quiet, Early, Report, Goto
  <2>9. Bookkeeping(r)
    BY <1>6, <1>0, <2>1, <2>2, <2>3 DEF Bookkeeping, Report, Goto
  <2> QED
    BY <2>7, <2>8, <2>9 DEF Goal
<1>7. ASSUME NEW q \in Writes, Receive(q) PROVE Goal
  <2>1. InQueue' = InQueue /\ Active' = Active
    BY <1>7 DEF Receive, InQueue, Active
  <2>2. UNCHANGED <<exec, confirmed, engine, applied, record, result, tries, stop>>
        /\ report' = report
    BY <1>7 DEF Receive

  <2>3. call \in [Writes -> {"idle", "confirming", "submitting", "waiting", "dropping",
                              "recording", "reporting", "returned"}]
        /\ ticket \in [Writes -> {"none", "waiting", "started", "cancelled"}] /\ report \in [Writes -> Outcomes \cup {"none"}]
    BY <1>0 DEF TypeOK

  <2>7. Progress(r)
    BY <1>7, <1>0, <2>1, <2>2, <2>3 DEF Progress, Done, Early, Receive, Goto, CancelTicket
  <2>8. Stillness(r)
    BY <1>7, <1>0, <2>1, <2>2, <2>3 DEF Stillness, Quiet, Early, Receive, Goto, CancelTicket
  <2>9. Bookkeeping(r)
    BY <1>7, <1>0, <2>1, <2>2, <2>3 DEF Bookkeeping, Receive, Goto, CancelTicket
  <2> QED
    BY <2>7, <2>8, <2>9 DEF Goal
<1>8. ASSUME NEW q \in Writes, Enqueue(q) PROVE Goal
  <2>1. /\ UNCHANGED <<exec, applied, record, report, tries, stop, item>>
        /\ call[q] = "submitting" /\ call'[q] \in {"waiting", "recording"}
        /\ r # q => call'[r] = call[r] /\ result'[r] = result[r] /\ ticket'[r] = ticket[r]
    BY <1>8, <1>0 DEF Enqueue, Goto, TypeOK
  <2>2. CASE queue' = queue
    <3>1. InQueue' = InQueue /\ Active' = Active
      BY <2>1, <2>2 DEF InQueue, Active
    <3>2. UNCHANGED ticket
      <4>1. Append(queue, q) # queue
        BY <1>0 DEF TypeOK
      <4> QED
        BY <1>8, <2>2, <4>1 DEF Enqueue

    <3>7. Progress(r)
      BY <1>0, <2>1, <3>1, <3>2 DEF Progress, Done, Early
    <3>8. Stillness(r)
      BY <1>0, <2>1, <3>1, <3>2 DEF Stillness, Quiet, Early
    <3>9. Bookkeeping(r)
      BY <1>0, <2>1, <3>1, <3>2 DEF Bookkeeping
    <3> QED
      BY <3>7, <3>8, <3>9 DEF Goal
  <2>3. CASE queue' # queue
    <3>0. queue' = Append(queue, q) /\ q \notin InQueue
      BY <1>8, <2>3 DEF Enqueue, QueueInv, WaitingIsActive, Active, Early
    <3>1. \A p \in Writes : p \in Active' <=> p \in Active \/ p = q
      <4>1. InQueue' = InQueue \cup {q}
        BY <3>0, QueueGrows DEF QueueInv
      <4> QED
        BY <2>1, <4>1 DEF Active
    <3>2. ticket'[q] # "none"
      BY <1>8, <1>0, <2>3 DEF Enqueue, TypeOK
    <3>7. Progress(r)
      BY <1>0, <2>1, <3>1, <3>2 DEF Progress, Done, Early
    <3>8. Stillness(r)
      BY <1>0, <2>1, <3>1 DEF Stillness, Quiet, Early
    <3>9. Bookkeeping(r)
      BY <1>0, <2>1, <3>1 DEF Bookkeeping
    <3> QED
      BY <3>7, <3>8, <3>9 DEF Goal
  <2> QED
    BY <2>2, <2>3
<1>9. ASSUME NEW q \in Writes, Record(q) PROVE Goal
  <2>1. /\ UNCHANGED <<queue, ticket, result, tries, stop, applied, item, report>>
        /\ call[q] = "recording" /\ call'[q] \in {"returned", "reporting"}
        /\ r # q => call'[r] = call[r] /\ exec'[r] = exec[r] /\ record'[r] = record[r]
        /\ record[q].final => record'[q] = record[q]
    BY <1>9, <1>0 DEF Record, RecordResult, Goto, TypeOK
  <2>2. InQueue' = InQueue /\ Active' = Active
    BY <2>1 DEF InQueue, Active
  <2>3. exec'[r] = "sent" => exec[r] = "sent"
    BY <1>9, <1>0, <2>1 DEF Record, RecordResult, AfterActor, TypeOK

  <2>7. Progress(r)
    BY <1>9, <1>0, <2>1, <2>2, <2>3 DEF Progress, Done, Early
  <2>8. Stillness(r)
    BY <1>9, <1>0, <2>1, <2>2, <2>3 DEF Stillness, Quiet, Early
  <2>9. Bookkeeping(r)
    BY <1>9, <1>0, <2>1, <2>2, <2>3 DEF Bookkeeping
  <2> QED
    BY <2>7, <2>8, <2>9 DEF Goal
<1>10. ASSUME NEW q \in Writes, EngineHandles(q) PROVE Goal
  <2>1. /\ engine[q] = "sent"
        /\ UNCHANGED <<queue, call, ticket, result, tries, stop, exec, record, report, item>>
        /\ r # q => applied'[r] = applied[r]
        /\ applied'[q] \in {applied[q], applied[q] + 1}
    BY <1>10, <1>0 DEF EngineHandles, TypeOK
  <2>2. InQueue' = InQueue /\ Active' = Active
    BY <2>1 DEF InQueue, Active
  <2>3. exec[q] = "sent"
    BY <2>1 DEF ExecInv, EditFacts, ControlFacts

  <2>7. Progress(r)
    BY <1>0, <2>1, <2>2, <2>3 DEF Progress, Done, Early
  <2>8. Stillness(r)
    BY <1>0, <2>1, <2>2, <2>3 DEF Stillness, Quiet, Early
  <2>9. Bookkeeping(r)
    BY <1>0, <2>1, <2>2, <2>3 DEF Bookkeeping
  <2> QED
    BY <2>7, <2>8, <2>9 DEF Goal
<1>11. ASSUME Shutdown PROVE Goal
  <2>1. /\ UNCHANGED <<queue, call, ticket, result, tries, exec, record, report, item, applied>>
        /\ stop' # "idle"
    BY <1>11 DEF Shutdown
  <2>2. InQueue' = InQueue /\ Active' = Active
    BY <2>1 DEF InQueue, Active

  <2>7. Progress(r)
    BY <1>0, <2>1, <2>2 DEF Progress, Done, Early
  <2>8. Stillness(r)
    BY <1>0, <2>1, <2>2 DEF Stillness, Quiet, Early
  <2>9. Bookkeeping(r)
    BY <1>0, <2>1, <2>2 DEF Bookkeeping
  <2> QED
    BY <2>7, <2>8, <2>9 DEF Goal
<1>12. ASSUME Joined PROVE Goal
  <2>1. /\ UNCHANGED <<queue, call, ticket, result, tries, exec, record, report, item, applied>>
        /\ stop' # "idle"
    BY <1>12 DEF Joined
  <2>2. InQueue' = InQueue /\ Active' = Active
    BY <2>1 DEF InQueue, Active

  <2>7. Progress(r)
    BY <1>0, <2>1, <2>2 DEF Progress, Done, Early
  <2>8. Stillness(r)
    BY <1>0, <2>1, <2>2 DEF Stillness, Quiet, Early
  <2>9. Bookkeeping(r)
    BY <1>0, <2>1, <2>2 DEF Bookkeeping
  <2> QED
    BY <2>7, <2>8, <2>9 DEF Goal
<1>13. ASSUME Take PROVE Goal
  <2>1. Head(queue) \in InQueue /\ Head(queue) \in Writes /\ InQueue' = InQueue \ {Head(queue)}
    BY <1>13, QueueShrinks DEF Take, QueueInv
  <2>2. /\ item' = Head(queue) /\ item = Nobody
        /\ UNCHANGED <<call, ticket, result, tries, exec, record, report, applied, stop>>
    BY <1>13, <1>0 DEF Take, TypeOK
  <2>3. r \in Active' <=> r \in Active
    BY <1>0, <2>1, <2>2 DEF Active

  <2>7. Progress(r)
    BY <1>0, <2>2, <2>3 DEF Progress, Done, Early
  <2>8. Stillness(r)
    BY <1>0, <2>2, <2>3 DEF Stillness, Quiet, Early
  <2>9. Bookkeeping(r)
    BY <1>0, <2>2, <2>3 DEF Bookkeeping
  <2> QED
    BY <2>7, <2>8, <2>9 DEF Goal
<1>14. ASSUME Drain PROVE Goal
  <2>1. /\ InQueue' = {} /\ item' = item /\ stop # "idle" /\ result'[r] \in {"err", result[r]}
        /\ UNCHANGED <<call, ticket, tries, exec, record, report, applied, stop>>
    BY <1>14, QueueEmpty DEF Drain, Signalled, QueueInv, ActorFits
  <2>2. r \in Active' => r \in Active
    BY <2>1 DEF Active

  <2>7. Progress(r)
    BY <1>0, <2>1, <2>2 DEF Progress, Done, Early
  <2>8. Stillness(r)
    BY <1>0, <2>1, <2>2 DEF Stillness, Quiet, Early
  <2>9. Bookkeeping(r)
    BY <1>0, <2>1, <2>2 DEF Bookkeeping
  <2> QED
    BY <2>7, <2>8, <2>9 DEF Goal
<1>15. ASSUME Abort PROVE Goal
  <2>1. /\ InQueue' = {} /\ item' = Nobody /\ stop # "idle" /\ result'[r] \in {"err", result[r]}
        /\ UNCHANGED <<call, ticket, tries, report, applied, stop>>
    BY <1>15, QueueEmpty DEF Abort
  <2>2. r \notin Active'
    BY <1>0, <2>1 DEF Active
  <2>3. /\ exec'[r] = "sent" => exec[r] = "sent"
        /\ record[r].final => record'[r] = record[r]
    <3>1. CASE item = Nobody
      BY <1>15, <3>1 DEF Abort
    <3>2. CASE item # Nobody
      <4>1. exec' = [exec EXCEPT ![item] = AfterActor(exec[item])]
            /\ (record[item].final => record' = record)
        BY <1>15, <3>2 DEF Abort, RecordResult
      <4>2. r # item => record'[r] = record[r]
        <5>1. RecordResult(item, exec[item], FALSE, TRUE)
          BY <1>15, <3>2 DEF Abort
        <5>2. record' = record \/ \E v : record' = [record EXCEPT ![item] = v]
          BY <5>1 DEF RecordResult
        <5> QED
          BY SMTT(30), <1>0, <3>2, <5>2 DEF TypeOK
      <4> QED
        BY SMTT(30), <1>0, <3>2, <4>1, <4>2 DEF AfterActor, TypeOK
    <3> QED
      BY <3>1, <3>2

  <2>7. Progress(r)
    BY <1>0, <2>1, <2>2, <2>3 DEF Progress, Done, Early
  <2>8. Stillness(r)
    BY <1>0, <2>1, <2>2, <2>3 DEF Stillness, Quiet, Early
  <2>9. Bookkeeping(r)
    BY <1>0, <2>1, <2>2, <2>3 DEF Bookkeeping
  <2> QED
    BY <2>7, <2>8, <2>9 DEF Goal
<1>16. ASSUME item \in Writes, NEW res \in {"ok", "err", "reconfirm"}, NEW x \in ExecStates, NEW next \in {"idle", "draining"},
             Conclude(res, x, next), UNCHANGED <<call, queue, ticket, stop, report, applied>>,
             \A q \in Writes \ {item} : tries'[q] = tries[q], tries'[item] >= tries[item],
             res = "reconfirm" => tries'[item] > 0,
             x = "sent" => exec[item] = "sent"
      PROVE  Goal
  BY <1>16, <1>0, FrameConcludes DEF Goal
<1>17. ASSUME item \in Writes, UNCHANGED tries, NEW res \in {"ok", "err"}, NEW next \in {"idle", "draining"},
             Conclude(res, exec[item], next), UNCHANGED <<call, queue, ticket, stop, report, applied>>
      PROVE  Goal
  <2>1. exec[item] \in ExecStates /\ tries[item] \in Nat /\ res \in {"ok", "err", "reconfirm"} /\ res # "reconfirm"
    BY <1>0, <1>17
  <2> QED
    BY <1>17, <2>1, <1>16
<1>18. ASSUME item \in Writes, item' = item, UNCHANGED <<call, queue, result, record, report, applied, stop, tries>>,
             \/ ticket' = ticket \/ (ticket[item] = "waiting" /\ ticket' = [ticket EXCEPT ![item] = "started"]),
             \A q \in Writes : exec'[q] = "sent" => exec[q] = "sent" \/ (q = item /\ ticket[q] = "started")
      PROVE  Goal
  <2>1. InQueue' = InQueue /\ Active' = Active
    BY <1>18 DEF InQueue, Active
  <2>2. /\ r # item \/ ticket[item] # "waiting" => ticket'[r] = ticket[r]
        /\ ticket'[r] = "none" => ticket[r] = "none"
        /\ ticket[r] = "none" => ticket'[r] = "none"
    BY <1>18, <1>0 DEF TypeOK

  <2>7. Progress(r)
    BY <1>18, <1>0, <2>1, <2>2 DEF Progress, Done, Early
  <2>8. Stillness(r)
    BY <1>18, <1>0, <2>1, <2>2 DEF Stillness, Quiet, Early
  <2>9. Bookkeeping(r)
    BY <1>18, <1>0, <2>1, <2>2 DEF Bookkeeping
  <2> QED
    BY <2>7, <2>8, <2>9 DEF Goal
<1>19. ASSUME Check PROVE Goal
  <2>0. item \in Writes
    BY <1>19, <1>0 DEF Check, TypeOK

  <2>1. CASE Conclude("err", exec[item], "idle")
    BY <1>19, <2>0, <2>1, <1>17 DEF Check
  <2>2. CASE /\ ActorGoes(IF item \in Controls THEN "control" ELSE "revalidating")
             /\ UNCHANGED <<result, exec, record>>
    BY <1>19, <2>0, <2>2, <1>18 DEF Check, ActorGoes
  <2> QED
    BY <1>19, <2>1, <2>2 DEF Check
<1>20. ASSUME ControlCheck PROVE Goal
  <2>0. item \in Writes
    BY <1>20, <1>0 DEF ControlCheck, TypeOK

  <2>1. CASE Conclude("err", exec[item], "idle")
    BY <1>20, <2>0, <2>1, <1>17 DEF ControlCheck
  <2>2. CASE ActorGoes("controlling") /\ UNCHANGED <<result, exec, record>>
    BY <1>20, <2>0, <2>2, <1>18 DEF ControlCheck, ActorGoes
  <2> QED
    BY <1>20, <2>1, <2>2 DEF ControlCheck
<1>21. ASSUME Control PROVE Goal
  <2>0. item \in Writes
    BY <1>21, <1>0 DEF Control, TypeOK

  <2>1. item \in Controls
    BY <1>21 DEF Control, QueueInv, ActorFits
  <2>2. /\ applied'[item] >= applied[item] /\ \A q \in Writes \ {item} : applied'[q] = applied[q]
        /\ Conclude("ok", "finished", "idle")
        /\ UNCHANGED <<call, queue, ticket, stop, report, tries>>
    BY <1>21, <1>0, <2>0 DEF Control, TypeOK
  <2>3. tries[item] >= tries[item]
    BY <1>0, <2>0
  <2> QED
    BY <2>0, <2>1, <2>2, <2>3, FrameConcludes DEF ExecStates, Goal
<1>22. ASSUME Revalidate PROVE Goal
  <2>0. item \in Writes
    BY <1>22, <1>0 DEF Revalidate, TypeOK

  <2>1. CASE Conclude("err", exec[item], "draining") /\ UNCHANGED tries
    BY <1>22, <2>0, <2>1, <1>17 DEF Revalidate
  <2>2. CASE Conclude("err", exec[item], "idle") /\ UNCHANGED tries
    BY <1>22, <2>0, <2>2, <1>17 DEF Revalidate
  <2>3. CASE tries' = [tries EXCEPT ![item] = @ + 1] /\ Conclude("reconfirm", exec[item], "idle")
    <3>1. tries'[item] > 0 /\ tries'[item] >= tries[item] /\ \A q \in Writes \ {item} : tries'[q] = tries[q]
      <4>1. tries \in [Writes -> 0..MaxReconfirms] /\ tries[item] \in Nat
        BY <1>0, <2>0 DEF TypeOK
      <4>2. tries'[item] = tries[item] + 1 /\ \A q \in Writes \ {item} : tries'[q] = tries[q]
        BY <2>0, <2>3, <4>1
      <4> QED
        BY <4>1, <4>2
    <3> QED
      BY <1>22, <1>0, <2>0, <2>3, <3>1, <1>16 DEF Revalidate
  <2>4. CASE ActorGoes("prepared") /\ UNCHANGED <<tries, result, exec, record>>
    BY <1>22, <2>0, <2>4, <1>18 DEF Revalidate, ActorGoes
  <2> QED
    BY <1>22, <2>1, <2>2, <2>3, <2>4 DEF Revalidate
<1>23. ASSUME Start PROVE Goal
  <2>0. item \in Writes
    BY <1>23, <1>0 DEF Start, TypeOK

  <2>1. ASSUME NEW res \in {"ok", "err"}, Conclude(res, exec[item], "idle"), UNCHANGED ticket
        PROVE  Goal
    <3>1. UNCHANGED <<call, queue, ticket, stop, report, applied, tries>>
      BY <1>23, <2>1 DEF Start
    <3> QED
      BY <2>0, <2>1, <3>1, <1>17
  <2>2. CASE /\ ticket[item] = "waiting" /\ ticket' = [ticket EXCEPT ![item] = "started"]
             /\ ActorGoes("running") /\ UNCHANGED <<result, exec, record>>
    BY <1>23, <2>0, <2>2, <1>18 DEF Start, ActorGoes
  <2> QED
    BY <1>23, <2>1, <2>2 DEF Start
<1>24. ASSUME SendCheck PROVE Goal
  <2>0. item \in Writes
    BY <1>24, <1>0 DEF SendCheck, TypeOK

  <2>1. CASE Conclude("err", exec[item], "idle")
    BY <1>24, <2>0, <2>1, <1>17 DEF SendCheck
  <2>2. CASE Conclude("err", "notSent", "idle")
    <3>1. UNCHANGED <<call, queue, ticket, stop, report, applied, tries>> /\ tries[item] >= tries[item]
      BY <1>24, <1>0, <2>0 DEF SendCheck
    <3> QED
      BY <2>0, <2>2, <3>1, <1>16 DEF ExecStates
  <2>3. CASE ActorGoes("sending") /\ UNCHANGED <<result, exec, record>>
    BY <1>24, <2>0, <2>3, <1>18 DEF SendCheck, ActorGoes
  <2> QED
    BY <1>24, <2>1, <2>2, <2>3 DEF SendCheck
<1>25. ASSUME Send PROVE Goal
  <2>0. item \in Writes
    BY <1>25, <1>0 DEF Send, TypeOK

  <2>1. ticket[item] = "started"
    BY <1>25 DEF Send, QueueInv, ActorFits
  <2>2. \A q \in Writes : exec'[q] = "sent" => exec[q] = "sent" \/ q = item
    BY <1>25, <1>0 DEF Send, TypeOK
  <2> QED
    BY <1>25, <2>0, <2>1, <2>2, <1>18 DEF Send, ActorGoes
<1>26. ASSUME Answer PROVE Goal
  <2>0. item \in Writes
    BY <1>26, <1>0 DEF Answer, TypeOK

  <2>1. UNCHANGED <<call, queue, ticket, stop, report, applied, tries>> /\ tries[item] >= tries[item]
    BY <1>26, <1>0, <2>0 DEF Answer
  <2>2. ASSUME NEW res \in {"ok", "err"}, NEW x \in {"finished", "rejected"}, Conclude(res, x, "idle")
        PROVE  Goal
    BY <2>0, <2>1, <2>2, <1>16 DEF ExecStates
  <2>3. CASE exec' = [exec EXCEPT ![item] = "finished"] /\ ActorGoes("running") /\ UNCHANGED <<result, record>>
    <3>1. \A q \in Writes : exec'[q] = "sent" => exec[q] = "sent"
      BY <1>0, <2>3 DEF TypeOK
    <3> QED
      BY <2>0, <2>1, <2>3, <3>1, <1>18 DEF ActorGoes
  <2> QED
    BY <1>26, <2>2, <2>3 DEF Answer
<1>27. ASSUME Unanswered PROVE Goal
  <2>0. item \in Writes
    BY <1>27, <1>0 DEF Unanswered, TypeOK

  <2> QED
    BY <1>27, <2>0, <1>17 DEF Unanswered
<1>28. ASSUME Interrupt PROVE Goal
  <2>0. item \in Writes
    BY <1>28, <1>0 DEF Interrupt, TypeOK

  <2> QED
    BY <1>28, <2>0, <1>17 DEF Interrupt
<1> QED
  <2>1. Goal
    BY <1>1, <1>2, <1>3, <1>4, <1>5, <1>6, <1>7, <1>8, <1>9, <1>10, <1>11, <1>12, <1>13, <1>14, <1>15, <1>19, <1>20, <1>21, <1>22, <1>23, <1>24, <1>25, <1>26, <1>27, <1>28
    DEF Next, CallStep, ActorStep
  <2> QED
    BY <2>1 DEF Goal

\* What the execution shows of a write in the state after a step: the outcome is
\* true, and lasts if the write is quiet whenever the outcome says it is over.
LEMMA OutcomeMeans ==
    ASSUME QueueInv, QueueInv', ExecInv', NEW r \in Writes, NEW y \in ExecStates, NEW ok \in BOOLEAN,
           exec'[r] = y, ok => result'[r] = "ok",
           y # "finished" => confirmed'[r] = confirmed[r],
           NEW o, o = Outcome(r, y, ok)
    PROVE  /\ o \in {"notApplied", "rejected", "noChange"} => applied'[r] = 0
           /\ o = "applied" => applied'[r] = Steps[r]
           /\ o = "partial" => applied'[r] > 0
           /\ o \in {"notApplied", "rejected", "noChange", "applied"} => exec'[r] # "sent"
           /\ o # "none"
<1> USE QueueAssumption
<1>1. confirmed[r] \in Nat /\ confirmed'[r] \in Nat
  BY DEF QueueInv, TypeOK
<1>2. CASE r \in Controls
  <2>1. /\ engine'[r] = "none" /\ confirmed'[r] = 0
        /\ y \in {"untouched", "notSent", "finished"}
        /\ applied'[r] = IF y = "finished" THEN 1 ELSE 0
    BY <1>2 DEF ExecInv, ControlFacts
  <2>2. Steps[r] = 1
    BY <1>2
  <2> QED
    BY <1>1, <2>1, <2>2 DEF Outcome
<1>3. CASE r \notin Controls
  <2>1. /\ applied'[r] = confirmed'[r] + (IF engine'[r] = "applied" THEN 1 ELSE 0)
        /\ y # "sent" => engine'[r] = "none"
        /\ y = "untouched" => confirmed'[r] = 0
        /\ y = "finished" => confirmed'[r] > 0
        /\ ok => /\ y = "finished" => confirmed'[r] = Steps[r]
                 /\ y \in {"untouched", "notSent"} => confirmed'[r] = 0
    BY <1>3 DEF ExecInv, EditFacts
  <2>2. y = "sent" => o = "unknown"
    BY DEF Outcome
  <2>3. y = "rejected" => o \in {"rejected", "partial"} /\ (o = "rejected" <=> confirmed[r] = 0)
    BY DEF Outcome
  <2>4. y = "finished" => o = IF ok THEN "applied" ELSE "partial"
    BY DEF Outcome
  <2>5. y = "untouched" => o \in {"noChange", "unknown", "notApplied"}
    BY DEF Outcome
  <2>6. y = "notSent" => \/ ok /\ o = "noChange"
                         \/ ~ok /\ o = IF confirmed[r] > 0 THEN "partial" ELSE "notApplied"
    BY DEF Outcome
  <2> QED
    BY <1>1, <2>1, <2>2, <2>3, <2>4, <2>5, <2>6 DEF ExecStates
<1> QED
  BY <1>2, <1>3

\* An outcome that lasts survives every step of a write that the actor does not
\* have, and of an edit also in the actor's hands.
LEMMA LastingStays ==
    ASSUME QueueInv, QueueInv', NEW r \in Writes, NEW o, Lasting(r, o), Stillness(r),
           r \notin Controls \/ r \notin Active
    PROVE  /\ o \in {"notApplied", "rejected", "noChange"} => applied'[r] = 0
           /\ o = "applied" => applied'[r] = Steps[r]
           /\ o = "partial" => applied'[r] > 0
           /\ o \in {"notApplied", "rejected", "noChange", "applied"} => exec'[r] # "sent" /\ Quiet(r)'
<1>1. applied[r] \in Nat /\ applied'[r] \in Nat
  BY DEF QueueInv, TypeOK
<1> QED
  BY <1>1 DEF Lasting, Truthful, Stillness

\* A record that becomes final is true and stays so: the write was never queued,
\* or the actor ends it or is aborted with it.
LEMMA FinalIsTrue ==
    ASSUME QueueInv, QueueInv', ExecInv, ExecInv', RecordFits, Next, NEW r \in Writes,
           ~record[r].final, record'[r].final
    PROVE  Lasting(r, record[r].outcome)' /\ Done(r)'
<1> USE QueueAssumption DEF callerVars, ticketVars, actorVars, trackVars, engineVars
<1>0. TypeOK /\ (TypeOK)' /\ item \in Writes \cup {Nobody}
  BY DEF QueueInv, TypeOK
<1>1. ASSUME NEW y \in ExecStates, NEW ok \in BOOLEAN, exec'[r] = y, ok => result'[r] = "ok",
             y # "finished" => confirmed'[r] = confirmed[r],
             record'[r].outcome = Outcome(r, y, ok), Done(r)'
      PROVE  Lasting(r, record[r].outcome)' /\ Done(r)'
  <2>1. Quiet(r)'
    BY <1>1 DEF Done, Quiet
  <2>2. /\ record'[r].outcome \in {"notApplied", "rejected", "noChange"} => applied'[r] = 0
        /\ record'[r].outcome = "applied" => applied'[r] = Steps[r]
        /\ record'[r].outcome = "partial" => applied'[r] > 0
        /\ record'[r].outcome \in {"notApplied", "rejected", "noChange", "applied"} => exec'[r] # "sent"
    BY <1>1, OutcomeMeans
  <2> QED
    BY <1>1, <2>1, <2>2 DEF Lasting, Truthful
<1>2. ASSUME Record(r) PROVE Lasting(r, record[r].outcome)' /\ Done(r)'
  <2> DEFINE y == IF ticket[r] = "none" THEN AfterActor(exec[r]) ELSE exec[r]
  <2>1. /\ exec' = [exec EXCEPT ![r] = y]
        /\ record' = [record EXCEPT ![r] = [final |-> ticket[r] = "none", outcome |-> Outcome(r, y, success[r])]]
        /\ UNCHANGED <<queue, ticket, result, confirmed, item>>
        /\ call'[r] \in {"returned", "reporting"}
    BY <1>0, <1>2 DEF Record, RecordResult, Goto, TypeOK
  <2>2. y \in ExecStates
    BY <1>0, ZenonT(40) DEF TypeOK, AfterActor, ExecStates
  <2> HIDE DEF y
  <2>3. ticket[r] = "none" /\ exec'[r] = y
    <3>3. ASSUME ticket[r] # "none" PROVE FALSE
      <4>1. record' = [record EXCEPT ![r] = [final |-> FALSE, outcome |-> Outcome(r, exec[r], success[r])]]
        BY <1>2, <3>3 DEF Record, RecordResult
      <4> QED
        BY <1>0, <4>1 DEF TypeOK
    <3> QED
      BY <1>0, <2>1, <3>3 DEF TypeOK
  <2>4. r \notin Active /\ result[r] = "none"
    BY <2>3 DEF QueueInv, WaitingIsActive, TicketFits
  <2>5. ~success[r]
    BY <2>4 DEF QueueInv, SuccessFits
  <2>6. Done(r)'
    <3>1. Active' = Active
      BY <2>1 DEF Active, InQueue
    <3> QED
      BY <2>1, <2>4, <3>1 DEF Done, Early
  <2>7. record'[r].outcome = Outcome(r, y, FALSE)
    <3>1. success[r] = FALSE
      BY <1>0, <2>5 DEF TypeOK
    <3>2. record' = [record EXCEPT ![r] = [final |-> ticket[r] = "none", outcome |-> Outcome(r, y, FALSE)]]
      BY <2>1, <3>1, Zenon
    <3>3. record'[r] = [final |-> ticket[r] = "none", outcome |-> Outcome(r, y, FALSE)]
      BY <1>0, <3>2 DEF TypeOK
    <3> QED
      BY <3>3
  <2> QED
    BY <1>1, <2>1, <2>2, <2>3, <2>6, <2>7
<1>3. ASSUME item = r, NEW res \in {"ok", "err"}, NEW x \in ExecStates, NEW next \in {"idle", "draining"},
             Conclude(res, x, next), UNCHANGED <<call, queue>>,
             x # "finished" => UNCHANGED confirmed
      PROVE  Lasting(r, record[r].outcome)' /\ Done(r)'
  <2>1. /\ result' = [result EXCEPT ![item] = res] /\ item' = Nobody
        /\ exec'[item] = AfterActor(x)
    <3>1. res \in {"ok", "err", "reconfirm"} /\ res # "reconfirm" /\ item \in Writes
      BY <1>3
    <3> QED
      BY <1>0, <1>3, <3>1, ConcludeFacts
  <2>2. PICK ok \in BOOLEAN : /\ ok <=> res = "ok"
                              /\ record'[item].outcome = Outcome(item, AfterActor(x), ok)
    BY <1>0, <1>3, ConcludeOutcome
  <2>3. AfterActor(x) \in ExecStates /\ (AfterActor(x) # "finished" => x # "finished")
    BY DEF AfterActor, ExecStates
  <2>4. Done(r)'
    <3>1. r \notin InQueue /\ call[r] \notin Early
      BY <1>3 DEF QueueInv, QueuedOnce, WaitingIsActive, Active
    <3>2. InQueue' = InQueue
      BY <1>3 DEF InQueue
    <3> QED
      BY SMTT(30), <1>0, <1>3, <2>1, <3>1, <3>2 DEF Done, Active, TypeOK
  <2>5. result'[r] = res /\ exec'[r] = AfterActor(x) /\ record'[r].outcome = Outcome(r, AfterActor(x), ok)
    BY <1>0, <1>3, <2>1, <2>2 DEF TypeOK
  <2>6. ok => result'[r] = "ok"
    BY <2>2, <2>5
  <2>7. AfterActor(x) # "finished" => confirmed'[r] = confirmed[r]
    BY <1>3, <2>3
  <2> QED
    BY <1>1, <2>3, <2>4, <2>5, <2>6, <2>7
<1>4. ASSUME Abort PROVE Lasting(r, record[r].outcome)' /\ Done(r)'
  <2>0. item # Nobody
    BY <1>4 DEF Abort
  <2>1. item = r
    <3>1. RecordResult(item, exec[item], FALSE, TRUE)
      BY <1>4, <2>0 DEF Abort
    <3>2. record' = record \/ \E v : record' = [record EXCEPT ![item] = v]
      BY <3>1 DEF RecordResult
    <3>3. r # item => record'[r] = record[r]
      BY <1>0, <3>2 DEF TypeOK
    <3> QED
      BY <3>3
  <2>2. /\ exec'[r] = AfterActor(exec[r]) /\ record'[r].outcome = Outcome(r, AfterActor(exec[r]), FALSE)
        /\ UNCHANGED <<call, confirmed>> /\ item' = Nobody
        /\ result'[r] = "err"
    <3>1. RecordResult(r, exec[r], FALSE, TRUE)
      BY <1>4, <2>0, <2>1 DEF Abort
    <3>2. /\ exec' = [exec EXCEPT ![r] = AfterActor(exec[r])]
          /\ record' = [record EXCEPT ![r] = [final |-> TRUE, outcome |-> Outcome(r, AfterActor(exec[r]), FALSE)]]
      BY <3>1 DEF RecordResult
    <3>3. record'[r] = [final |-> TRUE, outcome |-> Outcome(r, AfterActor(exec[r]), FALSE)]
          /\ exec'[r] = AfterActor(exec[r])
      BY <1>0, <3>2 DEF TypeOK
    <3>4. record'[r].outcome = Outcome(r, AfterActor(exec[r]), FALSE)
      BY <3>3
    <3> QED
      BY <1>4, <2>1, <3>3, <3>4 DEF Abort
  <2>3. AfterActor(exec[r]) \in ExecStates
    BY <1>0 DEF TypeOK, AfterActor, ExecStates
  <2>4. Done(r)'
    <3>1. InQueue' = {}
      BY <1>4, QueueEmpty DEF Abort
    <3>2. call[r] \notin Early
      BY <2>1 DEF QueueInv, WaitingIsActive, Active
    <3> QED
      BY <2>1, <2>2, <3>1, <3>2 DEF Done, Active
  <2> QED
    BY <1>1, <2>2, <2>3, <2>4
<1>5. ASSUME item \in Writes, NEW res \in {"ok", "err", "reconfirm"}, NEW x \in ExecStates, NEW next \in {"idle", "draining"},
             Conclude(res, x, next), UNCHANGED <<call, queue>>,
             x # "finished" => UNCHANGED confirmed
      PROVE  Lasting(r, record[r].outcome)' /\ Done(r)'
  <2>1. item = r /\ res # "reconfirm"
    <3>1. /\ \A q \in Writes \ {item} : record'[q] = record[q]
          /\ res = "reconfirm" => record' = record
      BY <1>5, <1>0, ConcludeFacts
    <3> QED
      BY <3>1
  <2>2. res \in {"ok", "err"}
    BY <2>1
  <2> QED
    BY <1>5, <2>1, <2>2, <1>3
<1>6. ASSUME Check PROVE Lasting(r, record[r].outcome)' /\ Done(r)'
  <2>0. item \in Writes /\ exec[item] \in ExecStates
    BY <1>6, <1>0 DEF Check, TypeOK, ExecStates

  <2>1. CASE Conclude("err", exec[item], "idle")
    BY <1>6, <2>0, <2>1, <1>5 DEF Check

  <2>2. CASE UNCHANGED record
    BY <2>2

  <2> QED
    BY <1>6, <2>1, <2>2 DEF Check
<1>7. ASSUME ControlCheck PROVE Lasting(r, record[r].outcome)' /\ Done(r)'
  <2>0. item \in Writes /\ exec[item] \in ExecStates
    BY <1>7, <1>0 DEF ControlCheck, TypeOK, ExecStates

  <2>1. CASE Conclude("err", exec[item], "idle")
    BY <1>7, <2>0, <2>1, <1>5 DEF ControlCheck

  <2>2. CASE UNCHANGED record
    BY <2>2

  <2> QED
    BY <1>7, <2>1, <2>2 DEF ControlCheck
<1>8. ASSUME Control PROVE Lasting(r, record[r].outcome)' /\ Done(r)'
  <2>0. item \in Writes /\ exec[item] \in ExecStates
    BY <1>8, <1>0 DEF Control, TypeOK, ExecStates

  <2> QED
    BY <1>8, <2>0, <1>5 DEF Control, ExecStates
<1>9. ASSUME Revalidate PROVE Lasting(r, record[r].outcome)' /\ Done(r)'
  <2>0. item \in Writes /\ exec[item] \in ExecStates
    BY <1>9, <1>0 DEF Revalidate, TypeOK, ExecStates

  <2>1. CASE Conclude("err", exec[item], "draining")
    BY <1>9, <2>0, <2>1, <1>5 DEF Revalidate

  <2>2. CASE Conclude("err", exec[item], "idle")
    BY <1>9, <2>0, <2>2, <1>5 DEF Revalidate

  <2>3. CASE Conclude("reconfirm", exec[item], "idle")
    BY <1>9, <2>0, <2>3, <1>5 DEF Revalidate

  <2>4. CASE UNCHANGED record
    BY <2>4

  <2> QED
    BY <1>9, <2>1, <2>2, <2>3, <2>4 DEF Revalidate
<1>10. ASSUME Start PROVE Lasting(r, record[r].outcome)' /\ Done(r)'
  <2>0. item \in Writes /\ exec[item] \in ExecStates
    BY <1>10, <1>0 DEF Start, TypeOK, ExecStates

  <2>1. ASSUME NEW res \in {"ok", "err"}, Conclude(res, exec[item], "idle")
        PROVE  Lasting(r, record[r].outcome)' /\ Done(r)'
    <3>1. UNCHANGED <<call, queue, confirmed>> /\ res \in {"ok", "err", "reconfirm"}
      BY <1>10 DEF Start
    <3> QED
      BY <2>0, <2>1, <3>1, <1>5

  <2>2. CASE UNCHANGED record
    BY <2>2

  <2> QED
    BY <1>10, <2>1, <2>2 DEF Start
<1>11. ASSUME SendCheck PROVE Lasting(r, record[r].outcome)' /\ Done(r)'
  <2>0. item \in Writes /\ exec[item] \in ExecStates
    BY <1>11, <1>0 DEF SendCheck, TypeOK, ExecStates

  <2>1. CASE Conclude("err", exec[item], "idle")
    BY <1>11, <2>0, <2>1, <1>5 DEF SendCheck

  <2>2. CASE Conclude("err", "notSent", "idle")
    BY <1>11, <2>0, <2>2, <1>5 DEF SendCheck, ExecStates

  <2>3. CASE UNCHANGED record
    BY <2>3

  <2> QED
    BY <1>11, <2>1, <2>2, <2>3 DEF SendCheck
<1>12. ASSUME Answer PROVE Lasting(r, record[r].outcome)' /\ Done(r)'
  <2>0. item \in Writes /\ exec[item] \in ExecStates
    BY <1>12, <1>0 DEF Answer, TypeOK, ExecStates

  <2>1. CASE Conclude("ok", "finished", "idle")
    BY <1>12, <2>0, <2>1, <1>5 DEF Answer, ExecStates
  <2>2. ASSUME NEW res \in {"ok", "err"}, Conclude(res, "rejected", "idle"), UNCHANGED confirmed
        PROVE  Lasting(r, record[r].outcome)' /\ Done(r)'
    <3>1. UNCHANGED <<call, queue, confirmed>> /\ res \in {"ok", "err", "reconfirm"} /\ "rejected" \in ExecStates
      BY <1>12, <2>2 DEF Answer, ExecStates
    <3> QED
      BY <2>0, <2>2, <3>1, <1>5

  <2>3. CASE UNCHANGED record
    BY <2>3

  <2> QED
    BY <1>12, <2>1, <2>2, <2>3 DEF Answer
<1>13. ASSUME Unanswered PROVE Lasting(r, record[r].outcome)' /\ Done(r)'
  <2>0. item \in Writes /\ exec[item] \in ExecStates
    BY <1>13, <1>0 DEF Unanswered, TypeOK, ExecStates

  <2> QED
    BY <1>13, <2>0, <1>5 DEF Unanswered
<1>14. ASSUME Interrupt PROVE Lasting(r, record[r].outcome)' /\ Done(r)'
  <2>0. item \in Writes /\ exec[item] \in ExecStates
    BY <1>14, <1>0 DEF Interrupt, TypeOK, ExecStates

  <2> QED
    BY <1>14, <2>0, <1>5 DEF Interrupt
<1>15. ASSUME NEW q \in Writes, q # r, Record(q) PROVE Lasting(r, record[r].outcome)' /\ Done(r)'
  BY <1>15, <1>0 DEF Record, RecordResult, TypeOK
<1>16. ASSUME UNCHANGED record PROVE Lasting(r, record[r].outcome)' /\ Done(r)'
  BY <1>16
<1>17. ASSUME \/ \E q \in Writes : \/ Submit(q) \/ Confirm(q) \/ Enqueue(q) \/ Receive(q) \/ DropCancel(q)
                                   \/ Report(q) \/ LeaseEnds(q) \/ GiveUp(q) \/ EngineHandles(q)
             \/ Take \/ Send \/ Drain \/ Shutdown \/ Joined
      PROVE  UNCHANGED record
  BY <1>17 DEF Submit, Confirm, Enqueue, Receive, DropCancel, Report, LeaseEnds, GiveUp, EngineHandles,
             Take, Send, Drain, Shutdown, Joined
<1> QED
  BY <1>2, <1>4, <1>6, <1>7, <1>8, <1>9, <1>10, <1>11, <1>12, <1>13, <1>14, <1>15, <1>16, <1>17
  DEF Next, CallStep, ActorStep

\* Every step keeps the third layer.
LEMMA ReportStep ==
    ASSUME QueueInv, QueueInv', ExecInv, ExecInv', ReportInv, Next
    PROVE  ReportInv'
<1> USE QueueAssumption
<1>0. RecordFits /\ ReportFits
  BY DEF ReportInv
<1>1. ASSUME NEW r \in Writes PROVE Progress(r) /\ Stillness(r) /\ Bookkeeping(r)
  BY Frame
<1>2. ASSUME NEW r \in Writes, record'[r].final PROVE (Lasting(r, record[r].outcome) /\ Done(r))'
  <2>1. CASE ~record[r].final
    BY <1>0, <1>2, <2>1, FinalIsTrue
  <2>2. CASE record[r].final
    <3>1. Lasting(r, record[r].outcome) /\ Done(r) /\ record'[r] = record[r]
      BY <1>0, <1>1, <2>2 DEF RecordFits, Bookkeeping
    <3>2. r \notin Active /\ Stillness(r)
      BY <1>1, <3>1 DEF Done
    <3>3. /\ record[r].outcome \in {"notApplied", "rejected", "noChange"} => applied'[r] = 0
          /\ record[r].outcome = "applied" => applied'[r] = Steps[r]
          /\ record[r].outcome = "partial" => applied'[r] > 0
          /\ record[r].outcome \in {"notApplied", "rejected", "noChange", "applied"} => exec'[r] # "sent" /\ Quiet(r)'
      BY <3>1, <3>2, LastingStays
    <3>4. Done(r)'
      BY <1>1, <3>1 DEF Progress
    <3> QED
      BY <3>1, <3>3, <3>4 DEF Lasting, Truthful
  <2> QED
    BY <2>1, <2>2
<1>3. ASSUME NEW r \in Writes, (stop = "idle" /\ r \notin Active /\ ticket[r] # "none" /\ tries[r] = 0)'
      PROVE  record'[r].final
  <2>1. stop = "idle" /\ tries[r] = 0 /\ ticket[r] # "none"
    BY <1>1, <1>3 DEF Progress
  <2>2. CASE r \in Active
    <3>1. stop # "idle" \/ tries'[r] > 0 \/ record'[r].final
      BY <1>1, <1>3, <2>2 DEF Bookkeeping
    <3> QED
      BY <1>3, <2>1, <3>1
  <2>3. CASE r \notin Active
    <3>1. record[r].final
      BY <1>0, <2>1, <2>3 DEF RecordFits
    <3> QED
      BY <1>1, <3>1 DEF Bookkeeping
  <2> QED
    BY <2>2, <2>3
<1>4. ASSUME NEW r \in Writes, (ticket[r] = "none" /\ call[r] \in {"reporting", "returned"})'
      PROVE  record'[r].final
  <2>1. ticket[r] = "none" /\ (call[r] \in {"reporting", "returned"} \/ Record(r))
    BY <1>1, <1>4 DEF Progress
  <2>2. CASE record[r].final
    BY <1>1, <2>2 DEF Bookkeeping
  <2>3. CASE ~record[r].final
    <3>1. Record(r)
      BY <1>0, <2>1, <2>3 DEF RecordFits
    <3>2. record' = [record EXCEPT ![r] = [final |-> TRUE, outcome |-> Outcome(r, AfterActor(exec[r]), success[r])]]
      BY <2>1, <2>3, <3>1 DEF Record, RecordResult
    <3> QED
      BY <3>2 DEF QueueInv, TypeOK
  <2> QED
    BY <2>2, <2>3
<1>5. RecordFits'
  BY <1>2, <1>3, <1>4 DEF RecordFits
<1>6. ASSUME NEW r \in Writes \ Controls, report'[r] # "none"
      PROVE  (call[r] = "returned" /\ Lasting(r, report[r]))'
  <2>1. CASE ~Report(r)
    <3>1. report'[r] = report[r]
      BY <1>1, <2>1 DEF Bookkeeping
    <3>2. call[r] = "returned" /\ Lasting(r, report[r])
      BY <1>0, <1>6, <3>1 DEF ReportFits
    <3>3. call'[r] = "returned" /\ Stillness(r)
      BY <1>1, <3>2 DEF Progress
    <3>4. /\ report[r] \in {"notApplied", "rejected", "noChange"} => applied'[r] = 0
          /\ report[r] = "applied" => applied'[r] = Steps[r]
          /\ report[r] = "partial" => applied'[r] > 0
          /\ report[r] \in {"notApplied", "rejected", "noChange", "applied"} => exec'[r] # "sent" /\ Quiet(r)'
      BY <3>2, <3>3, LastingStays
    <3> QED
      BY <3>1, <3>3, <3>4 DEF Lasting, Truthful
  <2>2. CASE Report(r)
    <3>1. /\ call[r] = "reporting" /\ call'[r] = "returned"
          /\ UNCHANGED <<exec, confirmed, record, ticket, result, queue, item, applied, success>>
      BY <2>2 DEF Report, Goto, QueueInv, TypeOK, callerVars, ticketVars, actorVars, engineVars
    <3>2. report'[r] = IF record[r].final THEN record[r].outcome ELSE Outcome(r, exec[r], success[r])
      BY <2>2 DEF Report, QueueInv, TypeOK
    <3>3. CASE record[r].final
      <4>1. record'[r].final /\ report'[r] = record'[r].outcome
        BY <3>1, <3>2, <3>3
      <4> QED
        BY <1>2, <3>1, <4>1 DEF Lasting, Truthful
    <3>4. CASE ~record[r].final
      <4>0. PICK ok \in BOOLEAN : ok = success[r]
        <5>1. success[r] \in BOOLEAN
          BY DEF QueueInv, TypeOK
        <5> QED
          BY <5>1, Zenon
      <4>1. /\ exec[r] \in ExecStates
            /\ ok => result[r] = "ok"
            /\ report'[r] = Outcome(r, exec[r], ok)
        <5>1. exec[r] \in ExecStates
          BY DEF QueueInv, TypeOK, ExecStates
        <5>2. ok => result[r] = "ok"
          BY <4>0 DEF QueueInv, SuccessFits
        <5>3. report'[r] = Outcome(r, exec[r], success[r])
          BY <3>2, <3>4
        <5> QED
          BY <4>0, <5>1, <5>2, <5>3
      <4>2. /\ report'[r] \in {"notApplied", "rejected", "noChange"} => applied'[r] = 0
            /\ report'[r] = "applied" => applied'[r] = Steps[r]
            /\ report'[r] = "partial" => applied'[r] > 0
            /\ report'[r] \in {"notApplied", "rejected", "noChange", "applied"} => exec'[r] # "sent"
        BY <3>1, <4>1, OutcomeMeans
      <4>3. ASSUME report'[r] \in {"notApplied", "rejected", "noChange", "applied"}, r \in Active
            PROVE  ticket[r] \notin {"waiting", "started"}
        <5>1. ticket[r] # "waiting" /\ ~ok
          BY <3>1, <4>1, <4>3 DEF QueueInv, TicketFits, WaitingIsActive
        <5>2. ASSUME ticket[r] = "started" PROVE FALSE
          <6>1. exec[r] \in {"untouched", "finished", "sent"}
            <7>1. r = item
              BY <4>3, <5>2 DEF Active, QueueInv, TicketFits
            <7>2. actor \in {"running", "sending", "awaiting"}
              BY <5>2, <7>1 DEF QueueInv, ActorFits, TypeOK
            <7> QED
              BY <7>1, <7>2 DEF ExecInv, ExecFits
          <6> QED
            BY <4>1, <4>3, <5>1, <5>2, <6>1 DEF Outcome
        <5> QED
          BY <5>1, <5>2
      <4>4. Active' = Active
        BY <3>1 DEF Active, InQueue
      <4>5. report'[r] \in {"notApplied", "rejected", "noChange", "applied"} => Quiet(r)'
        BY <3>1, <4>3, <4>4 DEF Quiet, Early
      <4> QED
        BY <3>1, <4>2, <4>5 DEF Lasting, Truthful
    <3> QED
      BY <3>3, <3>4
  <2> QED
    BY <2>1, <2>2
<1>7. ReportFits'
  BY <1>6 DEF ReportFits
<1> QED
  BY <1>5, <1>7 DEF ReportInv

-----------------------------------------------------------------------------
(* The theorems.                                                           *)

\* All three layers.
EditQueueInv == QueueInv /\ ExecInv /\ ReportInv

\* The service starts empty.
LEMMA QueueStarts ==
    ASSUME Init
    PROVE  EditQueueInv
<1> USE QueueAssumption DEF Init
<1>1. InQueue = {} /\ Len(queue) = 0 /\ queue \in Seq(Writes)
  BY DEF InQueue
<1>2. IsFiniteSet(InQueue) /\ Cardinality(InQueue) = 0
  BY <1>1, FS_EmptySet
<1>3. TypeOK
  <2>1. [final |-> FALSE, outcome |-> "notApplied"] \in [final : BOOLEAN, outcome : Outcomes]
    BY DEF Outcomes
  <2> QED
    BY <1>1, <1>2, <2>1 DEF TypeOK
<1>4. QueuedOnce /\ ActorFits /\ SuccessFits
  BY <1>1, <1>2 DEF QueuedOnce, ActorFits, SuccessFits
<1>5. WaitingIsActive /\ TicketFits
  BY <1>1 DEF WaitingIsActive, TicketFits, Active
<1>6. ExecInv
  BY DEF ExecInv, EditFacts, ControlFacts, ExecFits
<1>7. ReportInv
  <2>1. \A r \in Writes : ~record[r].final /\ ticket[r] = "none" /\ call[r] = "idle" /\ report[r] = "none"
    OBVIOUS
  <2>2. RecordFits /\ ReportFits
    BY <2>1 DEF RecordFits, ReportFits
  <2> QED
    BY <2>2 DEF ReportInv
<1> QED
  BY <1>3, <1>4, <1>5, <1>6, <1>7 DEF EditQueueInv, QueueInv

\* The three layers hold in every reachable state: each layer's step uses the
\* layers before it, in the state before and in the state after.
THEOREM EditQueueInvariance == Spec => []EditQueueInv
<1>1. Init => EditQueueInv
  BY QueueStarts
<1>2. EditQueueInv /\ [Next]_vars => EditQueueInv'
  <2> SUFFICES ASSUME EditQueueInv, [Next]_vars PROVE EditQueueInv'
    OBVIOUS
  <2>1. CASE Next
    <3>1. QueueInv'
      BY <2>1, QueueStep DEF EditQueueInv
    <3>2. ExecInv'
      BY <2>1, <3>1, ExecStep DEF EditQueueInv
    <3>3. ReportInv'
      BY <2>1, <3>1, <3>2, ReportStep DEF EditQueueInv
    <3> QED
      BY <3>1, <3>2, <3>3 DEF EditQueueInv
  <2>2. CASE UNCHANGED vars
    <3>0. /\ UNCHANGED <<call, success, gone, over, tries, accepting, queue, ticket, held, result, actor, item>>
          /\ UNCHANGED <<exec, confirmed, record, report, engine, applied, stop>>
      BY <2>2 DEF vars, callerVars, ticketVars, actorVars, trackVars, engineVars
    <3>1. InQueue' = InQueue /\ Active' = Active
      BY <3>0 DEF InQueue, Active
    <3>2. (TypeOK)' /\ QueuedOnce'
      BY <3>0, <3>1 DEF EditQueueInv, QueueInv, TypeOK, QueuedOnce
    <3>3. WaitingIsActive' /\ TicketFits' /\ ActorFits' /\ SuccessFits'
      BY <3>0, <3>1 DEF EditQueueInv, QueueInv, WaitingIsActive, TicketFits, ActorFits, SuccessFits
    <3>4. ExecInv'
      BY <3>0, <3>1 DEF EditQueueInv, ExecInv, EditFacts, ControlFacts, ExecFits
    <3>5. ReportInv'
      BY <3>0, <3>1 DEF EditQueueInv, ReportInv, RecordFits, ReportFits, Done, Lasting, Truthful, Quiet
    <3> QED
      BY <3>2, <3>3, <3>4, <3>5 DEF EditQueueInv, QueueInv
  <2> QED
    BY <2>1, <2>2
<1> QED
  BY <1>1, <1>2, PTL DEF Spec

\* What an MCP client was told of an edit, an undo or a redo is true and stays
\* so, although its cancellation, its deadline, a reconfirmation and the
\* shutdown race the actor and the engine.
THEOREM EditReports == Spec => []EditReportIsTrue
<1>1. EditQueueInv => EditReportIsTrue
  BY DEF EditQueueInv, ReportInv, ReportFits, Lasting, EditReportIsTrue
<1> QED
  BY <1>1, EditQueueInvariance, PTL

\* What the operation panel keeps of a write, a group control included, is true
\* once the record is final, and the record is final when the actor has left a
\* write that was not sent back for confirmation.
THEOREM OperationRecords == Spec => []RecordsAreTrue
<1>1. EditQueueInv => RecordsAreTrue
  <2> SUFFICES ASSUME EditQueueInv PROVE RecordsAreTrue
    OBVIOUS
  <2>1. TypeOK /\ RecordFits
    BY DEF EditQueueInv, QueueInv, ReportInv
  <2>2. RecordIsTrue
    BY <2>1 DEF RecordFits, Lasting, RecordIsTrue
  <2>3. FirstTryRecordSettles
    <3> SUFFICES ASSUME NEW r \in Writes, tries[r] = 0, call[r] = "returned", r \notin InQueue \cup {item},
                        stop = "idle"
                 PROVE  record[r].final
      BY DEF FirstTryRecordSettles, Settles
    <3>1. r \notin Active
      BY DEF Active
    <3> QED
      BY <2>1, <3>1 DEF RecordFits
  <2> QED
    BY <2>1, <2>2, <2>3 DEF RecordsAreTrue
<1> QED
  BY <1>1, EditQueueInvariance, PTL

\* When shutdown() returns, the actor has ended, the queue is empty and every
\* caller that waits has an answer to take, whether the actor drained the queue
\* or was aborted.
THEOREM ShutdownIsComplete == Spec => []ShutdownSettles
<1>1. EditQueueInv => ShutdownSettles
  <2> SUFFICES ASSUME EditQueueInv, stop = "done"
               PROVE  /\ actor = "stopped" /\ queue = <<>>
                      /\ \A r \in Writes : call[r] = "waiting" => result[r] # "none"
    BY DEF ShutdownSettles
  <2>1. actor = "stopped" /\ queue = <<>> /\ item = Nobody
    BY DEF EditQueueInv, QueueInv, ActorFits, TypeOK
  <2>2. InQueue = {}
    BY <2>1 DEF InQueue
  <2>3. \A r \in Writes : r \notin Active
    BY <2>1, <2>2, QueueAssumption DEF Active
  <2> QED
    BY <2>1, <2>3 DEF EditQueueInv, QueueInv, WaitingIsActive
<1> QED
  BY <1>1, EditQueueInvariance, PTL
=============================================================================
