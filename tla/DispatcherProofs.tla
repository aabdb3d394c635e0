-------------------------- MODULE DispatcherProofs --------------------------
(***************************************************************************)
(* Proofs about Dispatcher, for every set of requests, every assignment of *)
(* correlation ids (shared ones included) and every channel capacity: its  *)
(* own invariants, and that it implements RequestContract.                 *)
(***************************************************************************)
EXTENDS DispatcherContract, TLAPS

\* Appending an element keeps a sequence's type and leaves the old positions.
LEMMA AppendFacts ==
    ASSUME NEW S, NEW s \in Seq(S), NEW e \in S
    PROVE  /\ Append(s, e) \in Seq(S)
           /\ Len(Append(s, e)) = Len(s) + 1
           /\ Append(s, e)[Len(s) + 1] = e
           /\ \A i \in 1..Len(s) : Append(s, e)[i] = s[i]
  OBVIOUS

\* Taking the head of a nonempty sequence shifts the other positions by one.
LEMMA TailFacts ==
    ASSUME NEW S, NEW s \in Seq(S), s # <<>>
    PROVE  /\ Head(s) \in S
           /\ Head(s) = s[1]
           /\ Tail(s) \in Seq(S)
           /\ Len(Tail(s)) = Len(s) - 1
           /\ \A i \in 1..Len(Tail(s)) : Tail(s)[i] = s[i + 1]
  OBVIOUS

\* The commands the callers put in the channel are commands.
LEMMA CommandTypes ==
    /\ \A r \in Requests : [op |-> "send", req |-> r] \in Commands
    /\ \A r \in Requests : [op |-> "cancel", req |-> r] \in Commands
    /\ [op |-> "shutdown", req |-> NoWaiter] \in Commands
    /\ \A c \in Commands : c.op \in {"send", "cancel"} => c.req \in Requests
  BY DEF Commands

\* What is put in or taken from the command channel keeps the channel's type.
LEMMA ChannelType ==
    ASSUME TypeOK, Next
    PROVE  commands' \in Seq(Commands)
<1>0. commands \in Seq(Commands)
  BY DEF TypeOK
<1>1. ASSUME NEW r \in Requests, RequestEnqueue(r) PROVE commands' \in Seq(Commands)
  BY <1>0, <1>1, CommandTypes, AppendFacts DEF RequestEnqueue
<1>2. ASSUME NEW r \in Requests, RequestCancel(r) PROVE commands' \in Seq(Commands)
  BY <1>0, <1>2, CommandTypes, AppendFacts DEF RequestCancel
<1>3. CASE ShutdownCall
  BY <1>0, <1>3, CommandTypes, AppendFacts DEF ShutdownCall
<1>4. CASE OnSendRequest \/ OnCancel
  BY <1>0, <1>4, TailFacts DEF OnSendRequest, OnCancel, NextCommand
<1>5. CASE Stop
  BY <1>5 DEF Stop
<1>6. CASE commands' = commands
  BY <1>0, <1>6
<1> QED
  <2>1. ASSUME NEW r \in Requests,
               RequestStart(r) \/ RequestResolve(r) \/ RequestTimeout(r)
               \/ RequestAbandon(r) \/ EngineAnswer(r)
        PROVE commands' = commands
    BY <2>1 DEF RequestStart, RequestResolve, RequestTimeout, RequestAbandon, EngineAnswer
  <2>2. CASE DropHandles \/ FrameSent \/ FrameFailed \/ OnResponse
    BY <1>6, <2>2 DEF DropHandles, FrameSent, FrameFailed, OnResponse
  <2> QED
    BY <1>1, <1>2, <1>3, <1>4, <1>5, <1>6, <2>1, <2>2
    DEF Next, CallerStep, TaskStep, OnShutdown, OnTransportEnd, OnHandlesDropped

\* Every variable keeps its type: the command channel holds commands and the
\* PendingTable holds requests, through every caller and task step.
THEOREM TypeCorrect == Spec => []TypeOK
<1>1. Init => TypeOK
  BY DispatcherAssumption DEF Init, TypeOK, CallStates, Returned
<1>2. TypeOK /\ [Next]_vars => TypeOK'
  <2> SUFFICES ASSUME TypeOK, [Next]_vars PROVE TypeOK'
    OBVIOUS
  <2> USE DispatcherAssumption DEF CallStates, Returned, callVars, taskVars, wireVars
  <2>0. ASSUME Next PROVE commands' \in Seq(Commands)
    BY <2>0, ChannelType
  <2>1. ASSUME NEW r \in Requests, RequestStart(r) PROVE TypeOK'
    BY <2>1 DEF RequestStart, TypeOK
  <2>2. ASSUME Next, NEW r \in Requests, RequestEnqueue(r) PROVE TypeOK'
    BY <2>0, <2>2 DEF RequestEnqueue, TypeOK
  <2>3. ASSUME NEW r \in Requests, RequestResolve(r) PROVE TypeOK'
    BY <2>3 DEF RequestResolve, TypeOK
  <2>4. ASSUME NEW r \in Requests, RequestTimeout(r) PROVE TypeOK'
    BY <2>4 DEF RequestTimeout, TypeOK
  <2>5. ASSUME Next, NEW r \in Requests, RequestCancel(r) PROVE TypeOK'
    BY <2>0, <2>5 DEF RequestCancel, TypeOK
  <2>6. ASSUME NEW r \in Requests, RequestAbandon(r) PROVE TypeOK'
    BY <2>6 DEF RequestAbandon, TypeOK
  <2>7. ASSUME NEW r \in Requests, EngineAnswer(r) PROVE TypeOK'
    BY <2>7 DEF EngineAnswer, TypeOK
  <2>8. ASSUME Next, ShutdownCall PROVE TypeOK'
    BY <2>0, <2>8 DEF ShutdownCall, TypeOK
  <2>9. CASE DropHandles
    BY <2>9 DEF DropHandles, TypeOK
  <2>10. ASSUME Next, OnSendRequest PROVE TypeOK'
    <3>1. Head(commands).req \in Requests
      BY <2>10, TailFacts, CommandTypes DEF OnSendRequest, NextCommand, TypeOK
    <3> QED
      BY <2>0, <2>10, <3>1 DEF OnSendRequest, Tell, TypeOK
  <2>11. CASE FrameSent
    BY <2>11 DEF FrameSent, TypeOK
  <2>12. CASE FrameFailed
    <3>1. engine' \in SUBSET Requests /\ writing \in Requests
      BY <2>12 DEF FrameFailed, TypeOK
    <3>2. reply' \in [Requests -> {"empty", "answer", "closed", "dropped"}]
      BY <2>12 DEF FrameFailed, Tell, TypeOK
    <3>3. pending' \in [Ids -> Requests \cup {NoWaiter}]
      BY <2>12 DEF FrameFailed, TypeOK
    <3> QED
      BY <2>12, <3>1, <3>2, <3>3 DEF FrameFailed, TypeOK
  <2>13. ASSUME Next, OnCancel PROVE TypeOK'
    <3>1. Head(commands).req \in Requests
      BY <2>13, TailFacts, CommandTypes DEF OnCancel, NextCommand, TypeOK
    <3>2. reply' \in [Requests -> {"empty", "answer", "closed", "dropped"}]
      BY <2>13 DEF OnCancel, Tell, TypeOK
    <3>3. pending' \in [Ids -> Requests \cup {NoWaiter}]
      BY <2>13, <3>1 DEF OnCancel, TypeOK
    <3> QED
      BY <2>0, <2>13, <3>1, <3>2, <3>3 DEF OnCancel, TypeOK
  <2>14. CASE OnResponse
    <3>1. Head(inbound) \in Requests /\ inbound' \in Seq(Requests)
      BY <2>14, TailFacts DEF OnResponse, TypeOK
    <3>2. reply' \in [Requests -> {"empty", "answer", "closed", "dropped"}]
      BY <2>14 DEF OnResponse, Tell, TypeOK
    <3>3. /\ answers' \in [Requests -> SUBSET Requests]
          /\ pending' \in [Ids -> Requests \cup {NoWaiter}]
      BY <2>14, <3>1 DEF OnResponse, TypeOK
    <3> QED
      BY <2>14, <3>1, <3>2, <3>3 DEF OnResponse, TypeOK
  <2>15. ASSUME Next, task = "select", Stop PROVE TypeOK'
    <3>1. reply' \in [Requests -> {"empty", "answer", "closed", "dropped"}]
      BY <2>15 DEF Stop, TypeOK
    <3> QED
      BY <2>0, <2>15, <3>1 DEF Stop, TypeOK
  <2>16. CASE UNCHANGED vars
    BY <2>16 DEF vars, TypeOK
  <2> QED
    BY <2>1, <2>2, <2>3, <2>4, <2>5, <2>6, <2>7, <2>8, <2>9, <2>10, <2>11, <2>12,
       <2>13, <2>14, <2>15, <2>16
    DEF Next, CallerStep, TaskStep, OnShutdown, OnTransportEnd, OnHandlesDropped, NextCommand
<1> QED
  BY <1>1, <1>2, PTL DEF Spec

-----------------------------------------------------------------------------
(* How the channel's contents change.                                      *)

\* A command sent to the channel is queued, and nothing else changes.
LEMMA QueuedAfterSend ==
    ASSUME commands \in Seq(Commands), NEW c \in Commands, commands' = Append(commands, c),
           NEW op, NEW r \in Requests
    PROVE  r \in Queued(op)' <=> (r \in Queued(op) \/ c = [op |-> op, req |-> r])
<1> DEFINE e == [op |-> op, req |-> r]
<1>1. /\ Len(commands') = Len(commands) + 1
      /\ commands'[Len(commands) + 1] = c
      /\ \A i \in 1..Len(commands) : commands'[i] = commands[i]
      /\ Len(commands) \in Nat
  BY AppendFacts
<1> HIDE DEF e
<1>2. (\E i \in 1..Len(commands') : commands'[i] = e)
      <=> ((\E i \in 1..Len(commands) : commands[i] = e) \/ c = e)
  BY <1>1
<1> QED
  BY <1>2 DEF Queued, e

\* The command the task receives leaves the channel, and nothing else changes,
\* except that the head may have a later copy.
LEMMA QueuedAfterReceive ==
    ASSUME commands \in Seq(Commands), commands # <<>>, commands' = Tail(commands),
           NEW op, NEW r \in Requests
    PROVE  /\ r \in Queued(op)' => r \in Queued(op)
           /\ r \in Queued(op) => r \in Queued(op)' \/ Head(commands) = [op |-> op, req |-> r]
<1> DEFINE e == [op |-> op, req |-> r]
<1>1. /\ Len(commands') = Len(commands) - 1
      /\ commands[1] = Head(commands)
      /\ \A i \in 1..Len(commands') : commands'[i] = commands[i + 1]
      /\ Len(commands) \in Nat
  BY TailFacts
<1> HIDE DEF e
<1>2. (\E i \in 1..Len(commands') : commands'[i] = e) => \E i \in 1..Len(commands) : commands[i] = e
  BY <1>1
<1>3. ASSUME NEW i \in 1..Len(commands), commands[i] = e
      PROVE  Head(commands) = e \/ \E k \in 1..Len(commands') : commands'[k] = e
  <2>1. CASE i = 1
    BY <1>1, <1>3, <2>1
  <2>2. CASE i # 1
    <3>1. i - 1 \in 1..Len(commands') /\ commands'[i - 1] = e
      BY <1>1, <1>3, <2>2
    <3> QED
      BY <3>1
  <2> QED
    BY <2>1, <2>2
<1> QED
  BY <1>2, <1>3 DEF Queued, e

\* Sending a command of a request that has none queued before keeps the order.
LEMMA OrderAfterSend ==
    ASSUME commands \in Seq(Commands), NEW c \in Commands, commands' = Append(commands, c),
           SendComesFirst,
           c.op = "send" => \A i \in 1..Len(commands) : commands[i].req # c.req
    PROVE  SendComesFirst'
<1>1. /\ Len(commands') = Len(commands) + 1
      /\ commands'[Len(commands) + 1] = c
      /\ \A i \in 1..Len(commands) : commands'[i] = commands[i]
      /\ Len(commands) \in Nat
  BY AppendFacts
<1> SUFFICES ASSUME NEW i \in 1..Len(commands'), NEW j \in 1..Len(commands'),
                    i < j, commands'[j].op = "send"
             PROVE  commands'[i].req # commands'[j].req
  BY DEF SendComesFirst
<1>2. i \in 1..Len(commands)
  BY <1>1
<1>3. CASE j = Len(commands) + 1
  BY <1>1, <1>2, <1>3
<1>4. CASE j \in 1..Len(commands)
  BY <1>1, <1>2, <1>4 DEF SendComesFirst
<1> QED
  BY <1>1, <1>3, <1>4

\* Receiving a command keeps the order.
LEMMA OrderAfterReceive ==
    ASSUME commands \in Seq(Commands), commands # <<>>, commands' = Tail(commands),
           SendComesFirst
    PROVE  /\ SendComesFirst'
           /\ \A r \in Requests : Head(commands).req = r => r \notin Queued("send")'
<1>1. /\ Len(commands') = Len(commands) - 1
      /\ commands[1] = Head(commands)
      /\ \A i \in 1..Len(commands') : commands'[i] = commands[i + 1]
      /\ Len(commands) \in Nat \ {0}
  BY TailFacts
<1>2. SendComesFirst'
  <2> SUFFICES ASSUME NEW i \in 1..Len(commands'), NEW j \in 1..Len(commands'),
                      i < j, commands'[j].op = "send"
               PROVE  commands'[i].req # commands'[j].req
    BY DEF SendComesFirst
  <2>1. i + 1 \in 1..Len(commands) /\ j + 1 \in 1..Len(commands) /\ i + 1 < j + 1
    BY <1>1
  <2> QED
    BY <1>1, <2>1 DEF SendComesFirst
<1>3. ASSUME NEW r \in Requests, Head(commands).req = r, r \in Queued("send")'
      PROVE  FALSE
  <2>1. PICK i \in 1..Len(commands') : commands'[i] = [op |-> "send", req |-> r]
    BY <1>3 DEF Queued
  <2>2. /\ 1 \in 1..Len(commands) /\ i + 1 \in 1..Len(commands) /\ 1 < i + 1
        /\ commands[i + 1] = [op |-> "send", req |-> r]
    BY <1>1, <2>1
  <2> QED
    BY <1>1, <1>3, <2>2 DEF SendComesFirst
<1> QED
  BY <1>2, <1>3

-----------------------------------------------------------------------------
(* The inductive invariant.                                                *)

\* Every step of a caller, of the task or of the engine preserves it.
LEMMA InvariantStep ==
    ASSUME TypeOK, TypeOK', DispatcherInv, Next
    PROVE  DispatcherInv'
<1> USE DispatcherAssumption DEF DispatcherInv, callVars, taskVars, wireVars
<1>1. ASSUME NEW r \in Requests, RequestStart(r) PROVE DispatcherInv'
  <2>1. \A op : Queued(op)' = Queued(op)
    BY <1>1 DEF RequestStart, Queued
  <2>2. (SendComesFirst /\ StoppedIsEmpty)'
    BY <1>1 DEF RequestStart, SendComesFirst, StoppedIsEmpty
  <2>3. /\ call[r] = "idle" /\ call'[r] \in {"queueing", "refused"}
        /\ \A q \in Requests \ {r} : call'[q] = call[q]
        /\ reply' = reply /\ pending' = pending
    BY <1>1 DEF RequestStart, TypeOK
  <2>4. r \notin Waiters /\ r \notin Queued("send") /\ r \notin Queued("cancel") /\ reply[r] = "empty"
    BY <2>3 DEF EntriesExpected, Expecting, CancelAfterTimeout, FreshReply
  <2>5. (HolderOwnsId /\ EntriesExpected /\ RegisteredOnce)'
    BY <2>1, <2>3, <2>4 DEF HolderOwnsId, EntriesExpected, RegisteredOnce, Expecting, Waiters, Queued
  <2>6. (CancelAfterTimeout /\ FreshReply)'
    BY <2>1, <2>3, <2>4 DEF CancelAfterTimeout, FreshReply, Queued
  <2>7. (WaiterTracked /\ ClosedHasCause)'
    BY <1>1, <2>1 DEF RequestStart, WaiterTracked, ClosedHasCause, Waiters, TypeOK
  <2> QED
    BY <2>2, <2>5, <2>6, <2>7
<1>3. ASSUME NEW r \in Requests, RequestResolve(r) PROVE DispatcherInv'
  <2>1. \A op : Queued(op)' = Queued(op)
    BY <1>3 DEF RequestResolve, Queued
  <2>2. (SendComesFirst /\ StoppedIsEmpty)'
    BY <1>3 DEF RequestResolve, SendComesFirst, StoppedIsEmpty
  <2>3. (HolderOwnsId /\ EntriesExpected /\ RegisteredOnce)'
    BY <1>3, <2>1 DEF RequestResolve, HolderOwnsId, EntriesExpected, RegisteredOnce, Expecting, Waiters, TypeOK
  <2>4. (CancelAfterTimeout /\ FreshReply)'
    BY <1>3, <2>1 DEF RequestResolve, CancelAfterTimeout, FreshReply, TypeOK
  <2>5. (WaiterTracked /\ ClosedHasCause)'
    BY <1>3, <2>1 DEF RequestResolve, WaiterTracked, ClosedHasCause, Waiters, TypeOK, EntriesExpected, Expecting
  <2> QED
    BY <2>2, <2>3, <2>4, <2>5
<1>4. ASSUME NEW r \in Requests, RequestTimeout(r) PROVE DispatcherInv'
  <2>1. \A op : Queued(op)' = Queued(op)
    BY <1>4 DEF RequestTimeout, Queued
  <2>2. (SendComesFirst /\ StoppedIsEmpty)'
    BY <1>4 DEF RequestTimeout, SendComesFirst, StoppedIsEmpty
  <2>3. (HolderOwnsId /\ EntriesExpected /\ RegisteredOnce)'
    BY <1>4, <2>1 DEF RequestTimeout, HolderOwnsId, EntriesExpected, RegisteredOnce, Expecting, Waiters, TypeOK
  <2>4. (CancelAfterTimeout /\ FreshReply)'
    BY <1>4, <2>1 DEF RequestTimeout, CancelAfterTimeout, FreshReply, TypeOK
  <2>5. (WaiterTracked /\ ClosedHasCause)'
    BY <1>4, <2>1 DEF RequestTimeout, WaiterTracked, ClosedHasCause, Waiters, TypeOK, EntriesExpected, Expecting
  <2> QED
    BY <2>2, <2>3, <2>4, <2>5
<1>6. ASSUME NEW r \in Requests, RequestAbandon(r) PROVE DispatcherInv'
  <2>1. \A op : Queued(op)' = Queued(op)
    BY <1>6 DEF RequestAbandon, Queued
  <2>2. (SendComesFirst /\ StoppedIsEmpty)'
    BY <1>6 DEF RequestAbandon, SendComesFirst, StoppedIsEmpty
  <2>3. (HolderOwnsId /\ EntriesExpected /\ RegisteredOnce)'
    BY <1>6, <2>1 DEF RequestAbandon, HolderOwnsId, EntriesExpected, RegisteredOnce, Expecting, Waiters, TypeOK, InFlight
  <2>4. (CancelAfterTimeout /\ FreshReply)'
    BY <1>6, <2>1 DEF RequestAbandon, CancelAfterTimeout, FreshReply, TypeOK, InFlight
  <2>5. (WaiterTracked /\ ClosedHasCause)'
    BY <1>6, <2>1 DEF RequestAbandon, WaiterTracked, ClosedHasCause, Waiters, TypeOK, EntriesExpected, Expecting, InFlight
  <2> QED
    BY <2>2, <2>3, <2>4, <2>5
<1>7. ASSUME NEW r \in Requests, EngineAnswer(r) PROVE DispatcherInv'
  <2>1. \A op : Queued(op)' = Queued(op)
    BY <1>7 DEF EngineAnswer, Queued
  <2>2. (SendComesFirst /\ StoppedIsEmpty)'
    BY <1>7 DEF EngineAnswer, SendComesFirst, StoppedIsEmpty
  <2>3. (HolderOwnsId /\ EntriesExpected /\ RegisteredOnce)'
    BY <1>7, <2>1 DEF EngineAnswer, HolderOwnsId, EntriesExpected, RegisteredOnce, Expecting, Waiters, TypeOK
  <2>4. (CancelAfterTimeout /\ FreshReply)'
    BY <1>7, <2>1 DEF EngineAnswer, CancelAfterTimeout, FreshReply, TypeOK
  <2>5. (WaiterTracked /\ ClosedHasCause)'
    BY <1>7, <2>1 DEF EngineAnswer, WaiterTracked, ClosedHasCause, Waiters, TypeOK, EntriesExpected, Expecting
  <2> QED
    BY <2>2, <2>3, <2>4, <2>5
<1>9. CASE DropHandles
  <2>1. \A op : Queued(op)' = Queued(op)
    BY <1>9 DEF DropHandles, Queued
  <2>2. (SendComesFirst /\ StoppedIsEmpty)'
    BY <1>9 DEF DropHandles, SendComesFirst, StoppedIsEmpty
  <2>3. (HolderOwnsId /\ EntriesExpected /\ RegisteredOnce)'
    BY <1>9, <2>1 DEF DropHandles, HolderOwnsId, EntriesExpected, RegisteredOnce, Expecting, Waiters, TypeOK
  <2>4. (CancelAfterTimeout /\ FreshReply)'
    BY <1>9, <2>1 DEF DropHandles, CancelAfterTimeout, FreshReply, TypeOK
  <2>5. (WaiterTracked /\ ClosedHasCause)'
    BY <1>9, <2>1 DEF DropHandles, WaiterTracked, ClosedHasCause, Waiters, TypeOK, EntriesExpected, Expecting
  <2> QED
    BY <2>2, <2>3, <2>4, <2>5
<1>11. CASE FrameSent
  <2>1. \A op : Queued(op)' = Queued(op)
    BY <1>11 DEF FrameSent, Queued
  <2>2. (SendComesFirst /\ StoppedIsEmpty)'
    BY <1>11 DEF FrameSent, SendComesFirst, StoppedIsEmpty
  <2>3. (HolderOwnsId /\ EntriesExpected /\ RegisteredOnce)'
    BY <1>11, <2>1 DEF FrameSent, HolderOwnsId, EntriesExpected, RegisteredOnce, Expecting, Waiters, TypeOK
  <2>4. (CancelAfterTimeout /\ FreshReply)'
    BY <1>11, <2>1 DEF FrameSent, CancelAfterTimeout, FreshReply, TypeOK
  <2>5. (WaiterTracked /\ ClosedHasCause)'
    BY <1>11, <2>1 DEF FrameSent, WaiterTracked, ClosedHasCause, Waiters, TypeOK, EntriesExpected, Expecting
  <2> QED
    BY <2>2, <2>3, <2>4, <2>5
<1>12. CASE FrameFailed
  <2>1. \A op : Queued(op)' = Queued(op)
    BY <1>12 DEF FrameFailed, Queued
  <2>2. (SendComesFirst /\ StoppedIsEmpty)'
    BY <1>12 DEF FrameFailed, SendComesFirst, StoppedIsEmpty
  <2>3. (HolderOwnsId /\ EntriesExpected /\ RegisteredOnce)'
    <3>1. /\ call' = call
          /\ \A q \in Requests : q \in Waiters' => q \in Waiters
          /\ \A q \in Requests : q \notin Waiters \/ q \in Waiters' => reply'[q] = reply[q]
      BY <1>12 DEF FrameFailed, Tell, Waiters, TypeOK
    <3>2. HolderOwnsId'
      BY <1>12 DEF FrameFailed, HolderOwnsId, TypeOK
    <3>3. (EntriesExpected /\ RegisteredOnce)'
      BY <2>1, <3>1 DEF EntriesExpected, RegisteredOnce, Expecting, Queued, Waiters
    <3> QED
      BY <3>2, <3>3
  <2>4. (CancelAfterTimeout /\ FreshReply)'
    BY <1>12, <2>1 DEF FrameFailed, CancelAfterTimeout, FreshReply, TypeOK, Tell
  <2>5. (WaiterTracked /\ ClosedHasCause)'
    BY <1>12, <2>1 DEF FrameFailed, WaiterTracked, ClosedHasCause, Waiters, TypeOK, EntriesExpected, Expecting, Tell
  <2> QED
    BY <2>2, <2>3, <2>4, <2>5
<1>14. CASE OnResponse
  <2>1. \A op : Queued(op)' = Queued(op)
    BY <1>14 DEF OnResponse, Queued
  <2>2. (SendComesFirst /\ StoppedIsEmpty)'
    BY <1>14 DEF OnResponse, SendComesFirst, StoppedIsEmpty
  <2>3. (HolderOwnsId /\ EntriesExpected /\ RegisteredOnce)'
    <3>1. /\ call' = call
          /\ \A q \in Requests : q \in Waiters' => q \in Waiters
          /\ \A q \in Requests : q \notin Waiters \/ q \in Waiters' => reply'[q] = reply[q]
      <4>1. Head(inbound) \in Requests
        BY <1>14, TailFacts DEF OnResponse, TypeOK
      <4> QED
        BY <1>14, <4>1 DEF OnResponse, Tell, Waiters, HolderOwnsId, TypeOK
    <3>2. HolderOwnsId'
      BY <1>14 DEF OnResponse, HolderOwnsId, TypeOK
    <3>3. (EntriesExpected /\ RegisteredOnce)'
      BY <2>1, <3>1 DEF EntriesExpected, RegisteredOnce, Expecting, Queued, Waiters
    <3> QED
      BY <3>2, <3>3
  <2>4. (CancelAfterTimeout /\ FreshReply)'
    BY <1>14, <2>1 DEF OnResponse, CancelAfterTimeout, FreshReply, TypeOK, Tell
  <2>5. (WaiterTracked /\ ClosedHasCause)'
    BY <1>14, <2>1 DEF OnResponse, WaiterTracked, ClosedHasCause, Waiters, TypeOK, EntriesExpected, Expecting, Tell
  <2> QED
    BY <2>2, <2>3, <2>4, <2>5
<1>2. ASSUME NEW r \in Requests, RequestEnqueue(r) PROVE DispatcherInv'
  <2>1. CASE task = "stopped"
    <3>1. /\ call[r] = "queueing" /\ call'[r] = "closed"
          /\ \A q \in Requests \ {r} : call'[q] = call[q]
          /\ UNCHANGED <<reply, pending, task, unsent, commands>>
      BY <1>2, <2>1 DEF RequestEnqueue, ChannelHasRoom, TypeOK
    <3>2. commands = <<>> /\ Waiters = {}
      BY <2>1 DEF StoppedIsEmpty, Waiters
    <3>3. \A op : Queued(op) = {} /\ Queued(op)' = {}
      BY <3>1, <3>2 DEF Queued
    <3>4. (SendComesFirst /\ StoppedIsEmpty)'
      BY <3>1 DEF SendComesFirst, StoppedIsEmpty
    <3>5. (HolderOwnsId /\ EntriesExpected /\ RegisteredOnce)'
      BY <3>1, <3>2, <3>3 DEF HolderOwnsId, EntriesExpected, RegisteredOnce, Waiters
    <3>6. (CancelAfterTimeout /\ FreshReply)'
      BY <3>1, <3>3 DEF CancelAfterTimeout, FreshReply
    <3>7. (WaiterTracked /\ ClosedHasCause)'
      BY <2>1, <3>1 DEF WaiterTracked, ClosedHasCause
    <3> QED
      BY <3>4, <3>5, <3>6, <3>7
  <2>2. CASE commands' = Append(commands, [op |-> "send", req |-> r])
    <3> DEFINE c == [op |-> "send", req |-> r]
    <3>1. c \in Commands /\ commands \in Seq(Commands) /\ commands' = Append(commands, c)
      BY <2>2, CommandTypes DEF TypeOK
    <3>2. \A op : \A q \in Requests : q \in Queued(op)' <=> (q \in Queued(op) \/ c = [op |-> op, req |-> q])
      <4> HIDE DEF c
      <4> QED
        BY <3>1, QueuedAfterSend
    <3>3. task # "stopped" /\ call[r] = "queueing"
      BY <1>2, <2>2, <3>1, AppendFacts DEF RequestEnqueue, ChannelHasRoom
    <3>4. /\ call'[r] = "waiting" /\ \A q \in Requests \ {r} : call'[q] = call[q]
          /\ reply' = reply /\ pending' = pending /\ task' = task /\ unsent' = unsent
      BY <1>2, <3>3 DEF RequestEnqueue, TypeOK
    <3>5. reply[r] = "empty" /\ r \notin Waiters /\ r \notin Queued("send") /\ r \notin Queued("cancel")
      BY <3>3 DEF EntriesExpected, Expecting, CancelAfterTimeout, FreshReply
    <3>6. /\ \A q \in Requests : q \in Queued("send")' <=> (q \in Queued("send") \/ q = r)
          /\ \A q \in Requests : q \in Queued("cancel")' <=> q \in Queued("cancel")
      BY <3>2
    <3>7. \A i \in 1..Len(commands) : commands[i].req # r
      <4> SUFFICES ASSUME NEW i \in 1..Len(commands), commands[i].req = r PROVE FALSE
        OBVIOUS
      <4>1. commands[i] \in Commands
        BY <3>1
      <4>2. commands[i] \in {[op |-> "send", req |-> r], [op |-> "cancel", req |-> r]}
        BY <4>1 DEF Commands
      <4> QED
        BY <3>5, <4>2 DEF Queued
    <3>8. SendComesFirst'
      BY <3>1, <3>7, OrderAfterSend
    <3>9. Queued("send")' \subseteq Requests /\ Queued("cancel")' \subseteq Requests
      BY DEF Queued
    <3>10. (HolderOwnsId /\ EntriesExpected /\ RegisteredOnce)'
      BY <3>4, <3>5, <3>6, <3>9 DEF HolderOwnsId, EntriesExpected, RegisteredOnce, Expecting, Waiters
    <3>11. (CancelAfterTimeout /\ FreshReply)'
      BY <3>4, <3>5, <3>6, <3>9 DEF CancelAfterTimeout, FreshReply
    <3>12. (WaiterTracked /\ ClosedHasCause)'
      BY <3>3, <3>4, <3>5, <3>6 DEF WaiterTracked, ClosedHasCause, Waiters
    <3> QED
      BY <3>3, <3>4, <3>8, <3>10, <3>11, <3>12 DEF StoppedIsEmpty
  <2> QED
    BY <1>2, <2>1, <2>2 DEF RequestEnqueue, ChannelHasRoom
<1>5. ASSUME NEW r \in Requests, RequestCancel(r) PROVE DispatcherInv'
  <2>1. CASE task = "stopped"
    <3>1. /\ call[r] = "cancelling" /\ call'[r] = "timeout"
          /\ \A q \in Requests \ {r} : call'[q] = call[q]
          /\ UNCHANGED <<reply, pending, task, unsent, commands>>
      BY <1>5, <2>1 DEF RequestCancel, ChannelHasRoom, TypeOK
    <3>2. commands = <<>> /\ Waiters = {}
      BY <2>1 DEF StoppedIsEmpty, Waiters
    <3>3. \A op : Queued(op) = {} /\ Queued(op)' = {}
      BY <3>1, <3>2 DEF Queued
    <3>4. (SendComesFirst /\ StoppedIsEmpty)'
      BY <3>1 DEF SendComesFirst, StoppedIsEmpty
    <3>5. (HolderOwnsId /\ EntriesExpected /\ RegisteredOnce)'
      BY <3>1, <3>2, <3>3 DEF HolderOwnsId, EntriesExpected, RegisteredOnce, Waiters
    <3>6. (CancelAfterTimeout /\ FreshReply)'
      BY <3>1, <3>3 DEF CancelAfterTimeout, FreshReply
    <3>7. (WaiterTracked /\ ClosedHasCause)'
      BY <2>1, <3>1 DEF WaiterTracked, ClosedHasCause
    <3> QED
      BY <3>4, <3>5, <3>6, <3>7
  <2>2. CASE commands' = Append(commands, [op |-> "cancel", req |-> r])
    <3> DEFINE c == [op |-> "cancel", req |-> r]
    <3>1. c \in Commands /\ commands \in Seq(Commands) /\ commands' = Append(commands, c)
      BY <2>2, CommandTypes DEF TypeOK
    <3>2. \A op : \A q \in Requests : q \in Queued(op)' <=> (q \in Queued(op) \/ c = [op |-> op, req |-> q])
      <4> HIDE DEF c
      <4> QED
        BY <3>1, QueuedAfterSend
    <3>3. /\ call[r] = "cancelling"
          /\ call'[r] = "timeout" /\ \A q \in Requests \ {r} : call'[q] = call[q]
          /\ reply' = reply /\ pending' = pending /\ task' = task /\ unsent' = unsent
      BY <1>5 DEF RequestCancel, TypeOK
    <3>4. /\ \A q \in Requests : q \in Queued("cancel")' <=> (q \in Queued("cancel") \/ q = r)
          /\ \A q \in Requests : q \in Queued("send")' <=> q \in Queued("send")
      BY <3>2
    <3>5. SendComesFirst'
      BY <3>1, OrderAfterSend
    <3>6. Queued("send")' \subseteq Requests /\ Queued("cancel")' \subseteq Requests
      BY DEF Queued
    <3>7. (HolderOwnsId /\ EntriesExpected /\ RegisteredOnce)'
      BY <3>3, <3>4, <3>6 DEF HolderOwnsId, EntriesExpected, RegisteredOnce, Expecting, Waiters
    <3>8. (CancelAfterTimeout /\ FreshReply)'
      BY <3>3, <3>4, <3>6 DEF CancelAfterTimeout, FreshReply
    <3>9. (WaiterTracked /\ ClosedHasCause)'
      BY <3>3, <3>4 DEF WaiterTracked, ClosedHasCause, Waiters
    <3>10. StoppedIsEmpty'
      BY <1>5, <2>2, <3>1, <3>3, AppendFacts DEF StoppedIsEmpty, RequestCancel, ChannelHasRoom
    <3> QED
      BY <3>5, <3>7, <3>8, <3>9, <3>10
  <2> QED
    BY <1>5, <2>1, <2>2 DEF RequestCancel, ChannelHasRoom
<1>8. CASE ShutdownCall
  <2>1. CASE commands' = commands
    <3>1. \A op : Queued(op)' = Queued(op)
      BY <2>1 DEF Queued
    <3>2. (SendComesFirst /\ StoppedIsEmpty)'
      BY <1>8, <2>1 DEF SendComesFirst, StoppedIsEmpty, ShutdownCall
    <3>3. (HolderOwnsId /\ EntriesExpected /\ RegisteredOnce)'
      BY <1>8, <3>1 DEF ShutdownCall, HolderOwnsId, EntriesExpected, RegisteredOnce, Expecting, Waiters, TypeOK
    <3>4. (CancelAfterTimeout /\ FreshReply)'
      BY <1>8, <3>1 DEF ShutdownCall, CancelAfterTimeout, FreshReply, TypeOK
    <3>5. (WaiterTracked /\ ClosedHasCause)'
      BY <1>8, <2>1, <3>1 DEF ShutdownCall, WaiterTracked, ClosedHasCause, Waiters, TypeOK, ChannelHasRoom
    <3> QED
      BY <3>2, <3>3, <3>4, <3>5
  <2>2. CASE commands' = Append(commands, [op |-> "shutdown", req |-> NoWaiter])
    <3> DEFINE c == [op |-> "shutdown", req |-> NoWaiter]
    <3>1. c \in Commands /\ commands \in Seq(Commands) /\ commands' = Append(commands, c)
      BY <2>2, CommandTypes DEF TypeOK
    <3>2. \A op : \A q \in Requests : q \in Queued(op)' <=> (q \in Queued(op) \/ c = [op |-> op, req |-> q])
      <4> HIDE DEF c
      <4> QED
        BY <3>1, QueuedAfterSend
    <3>3. UNCHANGED <<call, reply, pending, task, unsent>>
      BY <1>8 DEF ShutdownCall
    <3>4. \A q \in Requests : /\ q \in Queued("cancel")' <=> q \in Queued("cancel")
                              /\ q \in Queued("send")' <=> q \in Queued("send")
      BY <3>2
    <3>5. SendComesFirst'
      BY <3>1, OrderAfterSend
    <3>6. Queued("send")' = Queued("send") /\ Queued("cancel")' = Queued("cancel")
      BY <3>4 DEF Queued
    <3>7. (HolderOwnsId /\ EntriesExpected /\ RegisteredOnce /\ CancelAfterTimeout /\ FreshReply)'
      BY <3>3, <3>6 DEF HolderOwnsId, EntriesExpected, RegisteredOnce, Expecting, Waiters,
                        CancelAfterTimeout, FreshReply
    <3>8. (WaiterTracked /\ ClosedHasCause)'
      BY <3>3, <3>6 DEF WaiterTracked, ClosedHasCause, Waiters
    <3>9. StoppedIsEmpty'
      BY <1>8, <2>2, <3>1, <3>3, AppendFacts DEF StoppedIsEmpty, ShutdownCall, ChannelHasRoom
    <3> QED
      BY <3>5, <3>7, <3>8, <3>9
  <2> QED
    BY <1>8, <2>1, <2>2 DEF ShutdownCall
<1>10. CASE OnSendRequest
  <2> DEFINE r == Head(commands).req
             i == IdOf[r]
  <2>1. /\ commands \in Seq(Commands) /\ commands # <<>> /\ commands' = Tail(commands)
        /\ Head(commands) \in Commands /\ Head(commands).op = "send"
    BY <1>10, TailFacts DEF OnSendRequest, NextCommand, TypeOK
  <2>2. r \in Requests /\ Head(commands) = [op |-> "send", req |-> r]
    BY <2>1 DEF Commands
  <2>3. /\ \A q \in Requests : q \in Queued("cancel")' <=> q \in Queued("cancel")
        /\ \A q \in Requests : q \in Queued("send")' => q \in Queued("send")
        /\ \A q \in Requests : q \in Queued("send") => q \in Queued("send")' \/ q = r
    BY <2>1, <2>2, QueuedAfterReceive
  <2>4. SendComesFirst' /\ r \notin Queued("send")'
    BY <2>1, <2>2, OrderAfterReceive
  <2>5. r \in Queued("send")
    <3>1. commands[1] = [op |-> "send", req |-> r] /\ 1 \in 1..Len(commands)
      BY <2>1, <2>2, TailFacts
    <3> QED
      BY <2>2, <3>1 DEF Queued
  <2>6. Expecting(r) /\ r \notin Waiters
    BY <2>5 DEF EntriesExpected, RegisteredOnce
  <2> HIDE DEF r
  <2>7. /\ pending' = [pending EXCEPT ![i] = r] /\ i \in Ids
        /\ call' = call /\ unsent' = unsent /\ task' = "writing" /\ task # "stopped"
        /\ reply' = [q \in Requests |->
                       IF q \in {pending[i]} \ {NoWaiter} /\ call[q] = "waiting" /\ reply[q] = "empty"
                       THEN "closed" ELSE reply[q]]
    BY <1>10, <2>2 DEF OnSendRequest, NextCommand, Tell, r
  <2>8. \A q \in Requests : q \in Waiters' <=> q = r \/ (q \in Waiters /\ IdOf[q] # i)
    BY <2>2, <2>6, <2>7 DEF Waiters, TypeOK
  <2>9. \A q \in Requests : reply'[q] # reply[q] => q \in Waiters /\ IdOf[q] = i /\ q # r /\ reply'[q] = "closed"
    BY <2>6, <2>7 DEF HolderOwnsId, Waiters, TypeOK
  <2>10. \A q \in Requests : Expecting(q)' <=> Expecting(q) /\ reply'[q] = reply[q]
    BY <2>3, <2>7, <2>9 DEF Expecting
  <2>11. Queued("send") \subseteq Requests /\ Queued("send")' \subseteq Requests /\ Queued("cancel")' \subseteq Requests
    BY DEF Queued
  <2>12. HolderOwnsId'
    BY <2>2, <2>7 DEF HolderOwnsId, TypeOK
  <2>13. (EntriesExpected /\ RegisteredOnce)'
    BY <2>3, <2>4, <2>6, <2>8, <2>9, <2>10, <2>11 DEF EntriesExpected, RegisteredOnce, Waiters
  <2>14. (CancelAfterTimeout /\ FreshReply)'
    <3>1. \A q \in Requests : reply'[q] # reply[q] => call[q] = "waiting"
      BY <2>7
    <3> QED
      BY <2>3, <2>7, <2>11, <3>1 DEF CancelAfterTimeout, FreshReply
  <2>15. WaiterTracked'
    <3> SUFFICES ASSUME NEW q \in Requests, call'[q] = "waiting", reply'[q] = "empty"
                 PROVE  q \in Queued("send")' \cup Waiters'
      BY <2>7 DEF WaiterTracked
    <3>1. reply[q] = "empty"
      BY <2>9
    <3>2. q \in Queued("send") \cup Waiters
      BY <2>7, <3>1 DEF WaiterTracked
    <3>3. q \in Waiters /\ IdOf[q] = i => q = r
      BY <2>2, <2>7, <3>1 DEF Waiters, TypeOK
    <3> QED
      BY <2>3, <2>8, <3>2, <3>3
  <2>16. ClosedHasCause'
    <3> SUFFICES ASSUME NEW q \in Requests, reply'[q] # reply[q]
                 PROVE  \E z \in Requests \ {q} : IdOf[z] = IdOf[q] /\ call[z] # "idle"
      BY <2>7 DEF ClosedHasCause
    <3>1. call[r] # "idle"
      BY <2>6 DEF Expecting
    <3> QED
      BY <2>2, <2>9, <3>1
  <2> QED
    BY <2>4, <2>7, <2>12, <2>13, <2>14, <2>15, <2>16 DEF StoppedIsEmpty
<1>13. CASE OnCancel
  <2> DEFINE r == Head(commands).req
             i == IdOf[r]
  <2>1. /\ commands \in Seq(Commands) /\ commands # <<>> /\ commands' = Tail(commands)
        /\ Head(commands) \in Commands /\ Head(commands).op = "cancel"
    BY <1>13, TailFacts DEF OnCancel, NextCommand, TypeOK
  <2>2. r \in Requests /\ Head(commands) = [op |-> "cancel", req |-> r]
    BY <2>1 DEF Commands
  <2>3. /\ \A q \in Requests : q \in Queued("send")' <=> q \in Queued("send")
        /\ \A q \in Requests : q \in Queued("cancel")' => q \in Queued("cancel")
        /\ \A q \in Requests : q \in Queued("cancel") => q \in Queued("cancel")' \/ q = r
    BY <2>1, <2>2, QueuedAfterReceive
  <2>4. SendComesFirst' /\ r \notin Queued("send")'
    BY <2>1, <2>2, OrderAfterReceive
  <2>5. call[r] = "timeout"
    <3>1. commands[1] = [op |-> "cancel", req |-> r] /\ 1 \in 1..Len(commands)
      BY <2>1, <2>2, TailFacts
    <3> QED
      BY <2>2, <3>1 DEF Queued, CancelAfterTimeout
  <2> HIDE DEF r
  <2>6. /\ call' = call /\ unsent' = unsent /\ task' = task /\ task = "select" /\ i \in Ids
        /\ \A q \in Requests : reply'[q] = reply[q]
        /\ pending' = IF pending[i] = r THEN [pending EXCEPT ![i] = NoWaiter] ELSE pending
    BY <1>13, <2>2, <2>5 DEF OnCancel, NextCommand, Tell, TypeOK, r
  <2>7. \A q \in Requests : q \in Waiters' <=> q \in Waiters /\ q # r
    BY <2>2, <2>6 DEF Waiters, HolderOwnsId, TypeOK
  <2>8. Queued("send") \subseteq Requests /\ Queued("send")' \subseteq Requests /\ Queued("cancel")' \subseteq Requests
    BY DEF Queued
  <2>9. \A q \in Requests \ {r} : Expecting(q) => Expecting(q)'
    BY <2>3, <2>6 DEF Expecting
  <2>10. HolderOwnsId'
    BY <2>6 DEF HolderOwnsId, TypeOK
  <2>11. (EntriesExpected /\ RegisteredOnce)'
    BY <2>3, <2>4, <2>7, <2>8, <2>9 DEF EntriesExpected, RegisteredOnce, Waiters
  <2>12. (CancelAfterTimeout /\ FreshReply)'
    BY <2>3, <2>6, <2>8 DEF CancelAfterTimeout, FreshReply
  <2>13. (WaiterTracked /\ ClosedHasCause)'
    BY <2>3, <2>5, <2>6, <2>7 DEF WaiterTracked, ClosedHasCause
  <2> QED
    BY <2>4, <2>6, <2>10, <2>11, <2>12, <2>13 DEF StoppedIsEmpty
<1>15. CASE Stop
  <2>1. /\ commands' = <<>> /\ \A i \in Ids : pending'[i] = NoWaiter
        /\ task' = "stopped" /\ call' = call
    BY <1>15 DEF Stop
  <2>2. Waiters' = {} /\ \A op : Queued(op)' = {}
    BY <2>1 DEF Waiters, Queued
  <2>3. \A q \in Requests : call[q] = "waiting" => reply'[q] # "empty"
    BY <1>15 DEF Stop, WaiterTracked
  <2>4. \A q \in Requests : call[q] # "waiting" => reply'[q] = reply[q]
    BY <1>15 DEF Stop
  <2> QED
    BY <2>1, <2>2, <2>3, <2>4
    DEF StoppedIsEmpty, HolderOwnsId, EntriesExpected, RegisteredOnce, CancelAfterTimeout,
        FreshReply, SendComesFirst, WaiterTracked, ClosedHasCause
<1> QED
  BY <1>1, <1>2, <1>3, <1>4, <1>5, <1>6, <1>7, <1>8, <1>9, <1>10, <1>11, <1>12, <1>13, <1>14, <1>15
  DEF Next, CallerStep, TaskStep, OnShutdown, OnTransportEnd, OnHandlesDropped

\* The inductive invariant holds in every reachable state.
THEOREM Invariance == Spec => []DispatcherInv
<1>1. Init => DispatcherInv
  <2>1. ASSUME Init PROVE Waiters = {} /\ \A op : Queued(op) = {}
    BY <2>1, DispatcherAssumption DEF Init, Waiters, Queued
  <2> QED
    BY <2>1 DEF Init, DispatcherInv, StoppedIsEmpty, HolderOwnsId, EntriesExpected, RegisteredOnce,
                CancelAfterTimeout, FreshReply, SendComesFirst, WaiterTracked, ClosedHasCause
<1>2. TypeOK /\ TypeOK' /\ DispatcherInv /\ [Next]_vars => DispatcherInv'
  <2>1. ASSUME DispatcherInv, UNCHANGED vars PROVE DispatcherInv'
    <3>1. Waiters' = Waiters /\ \A op : Queued(op)' = Queued(op)
      BY <2>1 DEF vars, callVars, taskVars, Waiters, Queued
    <3>2. \A r \in Requests : Expecting(r)' <=> Expecting(r)
      BY <2>1, <3>1 DEF vars, callVars, Expecting
    <3> QED
      BY <2>1, <3>1, <3>2
      DEF vars, callVars, taskVars, DispatcherInv, StoppedIsEmpty, HolderOwnsId, EntriesExpected,
          RegisteredOnce, CancelAfterTimeout, FreshReply, SendComesFirst, WaiterTracked,
          ClosedHasCause, Waiters, Queued
  <2> QED
    BY <2>1, InvariantStep
<1> QED
  BY <1>1, <1>2, TypeCorrect, PTL DEF Spec

\* No caller of request() waits on a channel that no code path resolves,
\* whatever the ids, the capacity and the number of callers.
THEOREM NoOrphanedWaiter == Spec => []WaiterTracked
  BY Invariance, PTL DEF DispatcherInv

\* ConnectionClosed always has one of its three causes; in particular a stale
\* Cancel never evicts a newer request that reuses the id.
THEOREM NoSpuriousClose == Spec => []ClosedHasCause
  BY Invariance, PTL DEF DispatcherInv

\* The entry of a timed-out request is always on its way out.
THEOREM TimeoutsDoNotLeak == Spec => []TimedOutEntryIsCancelled
<1>1. DispatcherInv => TimedOutEntryIsCancelled
  BY DEF DispatcherInv, EntriesExpected, Expecting, TimedOutEntryIsCancelled
<1> QED
  BY <1>1, Invariance, PTL

\* The answers to requests with other ids never reach a caller: on_frame looks the
\* waiter up by id, and an entry of the table lies under its own id.
THEOREM OwnAnswers == Spec => []UniqueIdGetsOwnAnswer
<1>1. Init => UniqueIdGetsOwnAnswer
  BY DEF Init, UniqueIdGetsOwnAnswer
<1>2. TypeOK /\ DispatcherInv /\ UniqueIdGetsOwnAnswer /\ [Next]_vars => UniqueIdGetsOwnAnswer'
  <2> SUFFICES ASSUME TypeOK, DispatcherInv, UniqueIdGetsOwnAnswer, [Next]_vars
               PROVE  UniqueIdGetsOwnAnswer'
    OBVIOUS
  <2>1. CASE OnResponse
    <3> DEFINE r == Head(inbound)
               holder == pending[IdOf[r]]
    <3>1. r \in Requests
      BY <2>1, TailFacts DEF OnResponse, TypeOK
    <3>2. holder # NoWaiter => holder \in Requests /\ IdOf[holder] = IdOf[r]
      BY <3>1, DispatcherAssumption DEF DispatcherInv, HolderOwnsId, TypeOK
    <3>3. \A q \in Requests : answers'[q] \subseteq answers[q] \cup (IF q = holder THEN {r} ELSE {})
      BY <2>1, <3>1, <3>2 DEF OnResponse, TypeOK
    <3> QED
      BY <3>1, <3>2, <3>3, DispatcherAssumption DEF UniqueIdGetsOwnAnswer
  <2>2. CASE answers' = answers
    BY <2>2 DEF UniqueIdGetsOwnAnswer
  <2> QED
    BY <2>1, <2>2
    DEF Next, vars, callVars, CallerStep, TaskStep, RequestStart, RequestEnqueue, RequestResolve,
        RequestTimeout, RequestCancel, RequestAbandon, EngineAnswer, ShutdownCall, DropHandles,
        OnSendRequest, FrameSent, FrameFailed, OnCancel, OnShutdown, OnTransportEnd,
        OnHandlesDropped, Stop
<1> QED
  BY <1>1, <1>2, TypeCorrect, Invariance, PTL DEF Spec

-----------------------------------------------------------------------------
(* Dispatcher implements the safety part of RequestContract.  The          *)
(* inductive invariant adds to DispatcherInv where the one answer to a     *)
(* request may be.                                                         *)

\* An answer to q is among the frames on their way back, or was handed out.
Inbound(q) == \E i \in 1..Len(inbound) : inbound[i] = q
Handed(q) == \E s \in Requests : q \in answers[s]

\* Only a request whose SendRequest the task has received is written, known to
\* the engine or answered.
SentWasReceived ==
    \A q \in Requests :
        writing = q \/ q \in engine \/ Inbound(q) \/ Handed(q) =>
            call[q] \notin {"idle", "queueing", "refused"} /\ q \notin Queued("send")

\* A frame is in one place at a time: being written, with the engine, on its way
\* back as an answer, or handed out.
OnePlace ==
    \A q \in Requests :
        /\ writing = q => q \notin engine /\ ~Inbound(q) /\ ~Handed(q)
        /\ q \in engine => ~Inbound(q) /\ ~Handed(q)
        /\ Inbound(q) => ~Handed(q)

\* No answer is on its way twice, and none was handed to two calls.
InboundOnce == \A i, j \in 1..Len(inbound) : inbound[i] = inbound[j] => i = j
HandedOnce == \A r, s \in Requests : \A q \in answers[r] : q \in answers[s] => r = s

\* A call's oneshot holds an answer exactly when one was handed to the call, and
\* it is the answer to a request with the call's id.
OneAnswer ==
    \A r \in Requests :
        /\ reply[r] # "answer" => answers[r] = {}
        /\ reply[r] = "answer" =>
              \E q \in Requests : answers[r] = {q} /\ IdOf[q] = IdOf[r] /\ call[q] # "idle"

AnswerInv == SentWasReceived /\ OnePlace /\ InboundOnce /\ HandedOnce /\ OneAnswer

-----------------------------------------------------------------------------
(* How the steps move a frame.                                             *)

\* A step of the callers or of the task that moves no frame, hands out no answer
\* and only empties the channel of sends or fills it with a new call's keeps the
\* places.
LEMMA FramesStay ==
    ASSUME TypeOK, TypeOK', AnswerInv,
           UNCHANGED <<answers, writing, engine, inbound>>,
           \A q \in Requests : reply'[q] # reply[q] => reply[q] = "empty" /\ reply'[q] # "answer",
           \A q \in Requests : call[q] \notin {"idle", "queueing", "refused"} =>
                                  call'[q] \notin {"idle", "queueing", "refused"},
           \A q \in Requests : q \in Queued("send")' => q \in Queued("send") \/ call[q] = "queueing",
           \A q \in Requests : call[q] # "idle" => call'[q] # "idle"
    PROVE  AnswerInv'
<1> USE DEF AnswerInv
<1>1. \A q \in Requests : Inbound(q)' = Inbound(q) /\ Handed(q)' = Handed(q)
  BY DEF Inbound, Handed
<1>2. (SentWasReceived /\ OnePlace)'
  BY <1>1 DEF SentWasReceived, OnePlace
<1>3. (InboundOnce /\ HandedOnce)'
  BY DEF InboundOnce, HandedOnce
<1>4. OneAnswer'
  BY DEF OneAnswer
<1> QED
  BY <1>2, <1>3, <1>4

\* The task takes a request from the channel and starts to write its frame.
LEMMA FrameTaken ==
    ASSUME TypeOK, TypeOK', DispatcherInv, AnswerInv, OnSendRequest
    PROVE  AnswerInv'
<1> USE DispatcherAssumption DEF AnswerInv
<1> DEFINE r == Head(commands).req
<1>1. /\ commands \in Seq(Commands) /\ commands # <<>> /\ commands' = Tail(commands)
      /\ Head(commands) \in Commands /\ Head(commands).op = "send"
  BY TailFacts DEF OnSendRequest, NextCommand, TypeOK
<1>2. r \in Requests /\ Head(commands) = [op |-> "send", req |-> r]
  BY <1>1 DEF Commands
<1>3. \A q \in Requests : q \in Queued("send")' => q \in Queued("send")
  BY <1>1, QueuedAfterReceive
<1>4. r \notin Queued("send")'
  BY <1>1, <1>2, OrderAfterReceive DEF DispatcherInv
<1>5. r \in Queued("send")
  <2>1. commands[1] = [op |-> "send", req |-> r] /\ 1 \in 1..Len(commands)
    BY <1>1, <1>2, TailFacts
  <2> QED
    BY <1>2, <2>1 DEF Queued
<1>6. call[r] \notin {"idle", "queueing", "refused"}
  BY <1>5 DEF DispatcherInv, EntriesExpected, Expecting
<1> HIDE DEF r
<1>7. /\ writing = NoWaiter /\ writing' = r
      /\ UNCHANGED <<call, answers, engine, inbound>>
  BY DEF OnSendRequest, NextCommand, TypeOK, r, wireVars
<1>8. \A q \in Requests : reply'[q] # reply[q] => reply[q] = "empty" /\ reply'[q] # "answer"
  BY DEF OnSendRequest, Tell
<1>9. \A q \in Requests : Inbound(q)' = Inbound(q) /\ Handed(q)' = Handed(q)
  BY <1>7 DEF Inbound, Handed
<1>10. r \notin engine /\ ~Inbound(r) /\ ~Handed(r)
  BY <1>2, <1>5 DEF SentWasReceived
<1>11. SentWasReceived'
  BY <1>3, <1>4, <1>6, <1>7, <1>9 DEF SentWasReceived
<1>12. OnePlace'
  BY <1>7, <1>9, <1>10 DEF OnePlace
<1>13. (InboundOnce /\ HandedOnce)'
  BY <1>7 DEF InboundOnce, HandedOnce
<1>14. OneAnswer'
  BY <1>7, <1>8 DEF OneAnswer
<1> QED
  BY <1>11, <1>12, <1>13, <1>14

\* The write ends: the engine has the frame, or after a failure perhaps not.
LEMMA FrameLeaves ==
    ASSUME TypeOK, TypeOK', AnswerInv, FrameSent \/ FrameFailed
    PROVE  AnswerInv'
<1> USE DispatcherAssumption DEF AnswerInv
<1>1. /\ writing \in Requests /\ writing' = NoWaiter
      /\ engine' \in {engine, engine \cup {writing}}
      /\ UNCHANGED <<call, commands, answers, inbound>>
  BY DEF FrameSent, FrameFailed, TypeOK, callVars
<1>2. \A q \in Requests : reply'[q] # reply[q] => reply[q] = "empty" /\ reply'[q] # "answer"
  BY DEF FrameSent, FrameFailed, Tell, callVars
<1>3. \A q \in Requests : Inbound(q)' = Inbound(q) /\ Handed(q)' = Handed(q)
  BY <1>1 DEF Inbound, Handed
<1>4. Queued("send")' = Queued("send")
  BY <1>1 DEF Queued
<1>5. SentWasReceived'
  BY <1>1, <1>3, <1>4 DEF SentWasReceived
<1>6. OnePlace'
  BY <1>1, <1>3 DEF OnePlace
<1>7. (InboundOnce /\ HandedOnce)'
  BY <1>1 DEF InboundOnce, HandedOnce
<1>8. OneAnswer'
  BY <1>1, <1>2 DEF OneAnswer
<1> QED
  BY <1>5, <1>6, <1>7, <1>8

\* The engine answers a request it has: the answer is on its way, once.
LEMMA FrameAnswered ==
    ASSUME TypeOK, TypeOK', AnswerInv, NEW r \in Requests, EngineAnswer(r)
    PROVE  AnswerInv'
<1> USE DispatcherAssumption DEF AnswerInv
<1>1. /\ r \in engine /\ engine' = engine \ {r}
      /\ inbound \in Seq(Requests) /\ inbound' = Append(inbound, r)
      /\ UNCHANGED <<call, reply, commands, answers, writing>>
  BY DEF EngineAnswer, TypeOK, callVars, taskVars
<1>2. /\ Len(inbound') = Len(inbound) + 1
      /\ inbound'[Len(inbound) + 1] = r
      /\ \A i \in 1..Len(inbound) : inbound'[i] = inbound[i]
      /\ Len(inbound) \in Nat
  BY <1>1, AppendFacts
<1>3. \A q \in Requests : (Inbound(q)' <=> Inbound(q) \/ q = r) /\ Handed(q)' = Handed(q)
  BY <1>1, <1>2 DEF Inbound, Handed
<1>4. Queued("send")' = Queued("send")
  BY <1>1 DEF Queued
<1>5. ~Inbound(r) /\ ~Handed(r) /\ writing # r
  BY <1>1 DEF OnePlace
<1>6. SentWasReceived'
  BY <1>1, <1>3, <1>4 DEF SentWasReceived
<1>7. OnePlace'
  BY <1>1, <1>3, <1>5 DEF OnePlace
<1>8. InboundOnce'
  BY <1>1, <1>2, <1>5 DEF InboundOnce, Inbound
<1>9. (HandedOnce /\ OneAnswer)'
  BY <1>1 DEF HandedOnce, OneAnswer
<1> QED
  BY <1>6, <1>7, <1>8, <1>9

\* An answer reaches the holder of its id, or is dropped: either way it has left
\* the way back, and no other call was given it.
LEMMA AnswerHanded ==
    ASSUME TypeOK, TypeOK', DispatcherInv, AnswerInv, OnResponse
    PROVE  AnswerInv'
<1> USE DispatcherAssumption DEF AnswerInv
<1> DEFINE r == Head(inbound)
           holder == pending[IdOf[r]]
<1>1. /\ inbound \in Seq(Requests) /\ inbound # <<>> /\ inbound' = Tail(inbound)
      /\ UNCHANGED <<call, commands, writing, engine>>
  BY DEF OnResponse, TypeOK
<1>2. /\ Len(inbound') = Len(inbound) - 1
      /\ \A i \in 1..Len(inbound') : inbound'[i] = inbound[i + 1]
      /\ Len(inbound) \in Nat \ {0} /\ inbound[1] = r /\ r \in Requests
  BY <1>1, TailFacts
<1>3. Inbound(r)
  BY <1>2 DEF Inbound
<1>4. \A q \in Requests : Inbound(q)' => Inbound(q) /\ q # r
  <2> SUFFICES ASSUME NEW q \in Requests, NEW i \in 1..Len(inbound'), inbound'[i] = q
               PROVE  Inbound(q) /\ q # r
    BY DEF Inbound
  <2>1. i + 1 \in 1..Len(inbound) /\ inbound[i + 1] = q /\ 1 \in 1..Len(inbound) /\ i + 1 # 1
    BY <1>2
  <2> QED
    BY <1>2, <2>1 DEF Inbound, InboundOnce
<1>5. InboundOnce'
  <2> SUFFICES ASSUME NEW i \in 1..Len(inbound'), NEW j \in 1..Len(inbound'), inbound'[i] = inbound'[j]
               PROVE  i = j
    BY DEF InboundOnce
  <2>1. i + 1 \in 1..Len(inbound) /\ j + 1 \in 1..Len(inbound) /\ inbound[i + 1] = inbound[j + 1]
    BY <1>2
  <2> QED
    BY <2>1 DEF InboundOnce
<1>6. Queued("send")' = Queued("send")
  BY <1>1 DEF Queued
<1>7. writing # r /\ r \notin engine /\ ~Handed(r) /\ call[r] # "idle"
  BY <1>2, <1>3 DEF OnePlace, SentWasReceived
<1>8. CASE \E h \in Requests :
             /\ call[h] = "waiting" /\ reply[h] = "empty" /\ IdOf[h] = IdOf[r]
             /\ reply' = [reply EXCEPT ![h] = "answer"]
             /\ answers' = [answers EXCEPT ![h] = answers[h] \cup {r}]
  <2>1. PICK h \in Requests :
             /\ call[h] = "waiting" /\ reply[h] = "empty" /\ IdOf[h] = IdOf[r]
             /\ reply' = [reply EXCEPT ![h] = "answer"]
             /\ answers' = [answers EXCEPT ![h] = answers[h] \cup {r}]
    BY <1>8
  <2>2. answers[h] = {}
    BY <2>1 DEF OneAnswer
  <2>3. answers'[h] = {r} /\ \A q \in Requests \ {h} : answers'[q] = answers[q] /\ reply'[q] = reply[q]
    BY <2>1, <2>2 DEF TypeOK
  <2>4. \A q \in Requests : Handed(q)' <=> Handed(q) \/ q = r
    BY <2>2, <2>3 DEF Handed
  <2>5. SentWasReceived'
    BY <1>1, <1>2, <1>3, <1>4, <1>6, <2>4 DEF SentWasReceived
  <2>6. OnePlace'
    BY <1>1, <1>4, <1>7, <2>4 DEF OnePlace
  <2>7. HandedOnce'
    BY <1>7, <2>3 DEF HandedOnce, Handed
  <2>8. reply'[h] = "answer"
    BY <2>1 DEF TypeOK
  <2>9. OneAnswer'
    BY <1>1, <1>2, <1>7, <2>1, <2>3, <2>8 DEF OneAnswer
  <2> QED
    BY <1>5, <2>5, <2>6, <2>7, <2>9
<1>9. CASE answers' = answers /\ \A q \in Requests : reply'[q] = reply[q]
  <2>1. \A q \in Requests : Handed(q)' = Handed(q)
    BY <1>9 DEF Handed
  <2>2. (SentWasReceived /\ OnePlace)'
    BY <1>1, <1>4, <1>6, <2>1 DEF SentWasReceived, OnePlace
  <2>3. (HandedOnce /\ OneAnswer)'
    BY <1>1, <1>9 DEF HandedOnce, OneAnswer
  <2> QED
    BY <1>5, <2>2, <2>3
<1>10. CASE holder = NoWaiter
  BY <1>9, <1>10 DEF OnResponse
<1>11. CASE holder # NoWaiter
  <2>1. /\ holder \in Requests /\ IdOf[holder] = IdOf[r] /\ holder \in Waiters
        /\ reply[holder] = "empty"
    BY <1>2, <1>11 DEF TypeOK, DispatcherInv, HolderOwnsId, Waiters, EntriesExpected, Expecting
  <2>2. /\ Tell({holder}, "answer")
        /\ answers' = [answers EXCEPT ![holder] =
                         IF call[holder] = "waiting" THEN @ \cup {r} ELSE @]
    BY <1>11 DEF OnResponse
  <2> HIDE DEF holder, r
  <2>3. CASE call[holder] = "waiting"
    <3>1. reply' = [reply EXCEPT ![holder] = "answer"]
      BY <2>1, <2>2, <2>3 DEF Tell, TypeOK
    <3>2. answers' = [answers EXCEPT ![holder] = answers[holder] \cup {r}]
      BY <2>1, <2>2, <2>3 DEF TypeOK
    <3> QED
      BY <1>8, <2>1, <2>3, <3>1, <3>2
  <2>4. CASE call[holder] # "waiting"
    BY <1>9, <2>1, <2>2, <2>4 DEF Tell, TypeOK
  <2> QED
    BY <2>3, <2>4
<1> QED
  BY <1>10, <1>11

-----------------------------------------------------------------------------
(* The invariant of the answers.                                           *)

\* Every step of a caller, of the task or of the engine keeps an answer in one
\* place.
LEMMA AnswerStep ==
    ASSUME TypeOK, TypeOK', DispatcherInv, AnswerInv, Next
    PROVE  AnswerInv'
<1> USE DEF callVars, taskVars, wireVars
<1>1. ASSUME NEW r \in Requests,
             RequestStart(r) \/ RequestResolve(r) \/ RequestTimeout(r) \/ RequestAbandon(r)
      PROVE  AnswerInv'
  <2>1. Queued("send")' = Queued("send")
    BY <1>1 DEF RequestStart, RequestResolve, RequestTimeout, RequestAbandon, Queued
  <2>2. UNCHANGED <<reply, answers, writing, engine, inbound>>
    BY <1>1 DEF RequestStart, RequestResolve, RequestTimeout, RequestAbandon
  <2>3. \A q \in Requests : call[q] \notin {"idle", "queueing", "refused"} =>
                               call'[q] \notin {"idle", "queueing", "refused"}
    BY <1>1 DEF RequestStart, RequestResolve, RequestTimeout, RequestAbandon, InFlight, TypeOK
  <2>4. \A q \in Requests : call[q] # "idle" => call'[q] # "idle"
    BY <1>1 DEF RequestStart, RequestResolve, RequestTimeout, RequestAbandon, TypeOK
  <2> QED
    BY <2>1, <2>2, <2>3, <2>4, FramesStay
<1>2. ASSUME NEW r \in Requests, RequestEnqueue(r) \/ RequestCancel(r) PROVE AnswerInv'
  <2>1. \A q \in Requests : q \in Queued("send")' => q \in Queued("send") \/ call[q] = "queueing"
    <3>1. CASE commands' = commands
      BY <3>1 DEF Queued
    <3>2. CASE /\ commands' = Append(commands, [op |-> "send", req |-> r])
               /\ call[r] = "queueing"
      <4> DEFINE c == [op |-> "send", req |-> r]
      <4>1. c \in Commands /\ commands \in Seq(Commands) /\ commands' = Append(commands, c)
        BY <3>2, CommandTypes DEF TypeOK
      <4>2. \A q \in Requests : q \in Queued("send")' => q \in Queued("send")
                                                        \/ c = [op |-> "send", req |-> q]
        <5> HIDE DEF c
        <5> QED
          BY <4>1, QueuedAfterSend
      <4> QED
        BY <3>2, <4>2
    <3>3. CASE commands' = Append(commands, [op |-> "cancel", req |-> r])
      <4> DEFINE c == [op |-> "cancel", req |-> r]
      <4>1. c \in Commands /\ commands \in Seq(Commands) /\ commands' = Append(commands, c)
        BY <3>3, CommandTypes DEF TypeOK
      <4>2. \A q \in Requests : q \in Queued("send")' => q \in Queued("send")
                                                        \/ c = [op |-> "send", req |-> q]
        <5> HIDE DEF c
        <5> QED
          BY <4>1, QueuedAfterSend
      <4> QED
        BY <4>2
    <3> QED
      BY <1>2, <3>1, <3>2, <3>3 DEF RequestEnqueue, RequestCancel
  <2>2. UNCHANGED <<reply, answers, writing, engine, inbound>>
    BY <1>2 DEF RequestEnqueue, RequestCancel
  <2>3. \A q \in Requests : call[q] \notin {"idle", "queueing", "refused"} =>
                               call'[q] \notin {"idle", "queueing", "refused"}
    BY <1>2 DEF RequestEnqueue, RequestCancel, TypeOK
  <2>4. \A q \in Requests : call[q] # "idle" => call'[q] # "idle"
    BY <1>2 DEF RequestEnqueue, RequestCancel, TypeOK
  <2> QED
    BY <2>1, <2>2, <2>3, <2>4, FramesStay
<1>3. CASE ShutdownCall \/ DropHandles
  <2>1. \A q \in Requests : q \in Queued("send")' => q \in Queued("send")
    <3>1. CASE commands' = commands
      BY <3>1 DEF Queued
    <3>2. CASE commands' = Append(commands, [op |-> "shutdown", req |-> NoWaiter])
      <4> DEFINE c == [op |-> "shutdown", req |-> NoWaiter]
      <4>1. c \in Commands /\ commands \in Seq(Commands) /\ commands' = Append(commands, c)
        BY <3>2, CommandTypes DEF TypeOK
      <4>2. \A q \in Requests : q \in Queued("send")' => q \in Queued("send")
                                                        \/ c = [op |-> "send", req |-> q]
        <5> HIDE DEF c
        <5> QED
          BY <4>1, QueuedAfterSend
      <4> QED
        BY <4>2
    <3> QED
      BY <1>3, <3>1, <3>2 DEF ShutdownCall, DropHandles
  <2>2. UNCHANGED <<call, reply, answers, writing, engine, inbound>>
    BY <1>3 DEF ShutdownCall, DropHandles
  <2> QED
    BY <2>1, <2>2, FramesStay
<1>4. CASE OnCancel
  <2>1. \A q \in Requests : q \in Queued("send")' => q \in Queued("send")
    BY <1>4, QueuedAfterReceive DEF OnCancel, NextCommand, TypeOK
  <2>2. UNCHANGED <<call, answers, writing, engine, inbound>>
    BY <1>4 DEF OnCancel
  <2>3. \A q \in Requests : reply'[q] # reply[q] => reply[q] = "empty" /\ reply'[q] # "answer"
    BY <1>4 DEF OnCancel, Tell
  <2> QED
    BY <2>1, <2>2, <2>3, FramesStay
<1>5. CASE Stop
  <2>1. Queued("send")' = {}
    BY <1>5 DEF Stop, Queued
  <2>2. UNCHANGED <<call, answers, writing, engine, inbound>>
    BY <1>5 DEF Stop
  <2>3. \A q \in Requests : reply'[q] # reply[q] => reply[q] = "empty" /\ reply'[q] # "answer"
    BY <1>5 DEF Stop
  <2> QED
    BY <2>1, <2>2, <2>3, FramesStay
<1> QED
  BY <1>1, <1>2, <1>3, <1>4, <1>5, FrameTaken, FrameLeaves, FrameAnswered, AnswerHanded
  DEF Next, CallerStep, TaskStep, OnShutdown, OnTransportEnd, OnHandlesDropped

\* In every reachable state the answer to a request is in one place, and a call
\* that has one has the answer to a request with its id.
THEOREM AnswersInvariance == Spec => []AnswerInv
<1>1. Init => AnswerInv
  <2> SUFFICES ASSUME Init PROVE AnswerInv
    OBVIOUS
  <2>1. \A q \in Requests : ~Inbound(q) /\ ~Handed(q) /\ writing # q /\ q \notin engine
    BY DispatcherAssumption DEF Init, Inbound, Handed
  <2> QED
    BY <2>1 DEF Init, AnswerInv, SentWasReceived, OnePlace, InboundOnce, HandedOnce, OneAnswer
<1>2. TypeOK /\ TypeOK' /\ DispatcherInv /\ AnswerInv /\ [Next]_vars => AnswerInv'
  <2>1. ASSUME TypeOK, TypeOK', AnswerInv, UNCHANGED vars PROVE AnswerInv'
    <3>1. Queued("send")' = Queued("send")
      BY <2>1 DEF vars, Queued
    <3>2. UNCHANGED <<call, reply, answers, writing, engine, inbound>>
      BY <2>1 DEF vars, callVars, taskVars, wireVars
    <3> QED
      BY <2>1, <3>1, <3>2, FramesStay
  <2> QED
    BY <2>1, AnswerStep
<1> QED
  BY <1>1, <1>2, TypeCorrect, Invariance, PTL DEF Spec

-----------------------------------------------------------------------------
(* The refinement.                                                         *)

\* When one call moves on and the answers stay, only its own outcome moves.
LEMMA CallMoves ==
    ASSUME TypeOK, NEW r \in Requests, NEW c, call' = [call EXCEPT ![r] = c], answers' = answers
    PROVE  /\ Outcome' = [Outcome EXCEPT ![r] =
                            IF c = "idle" THEN "none"
                            ELSE IF c \in {"queueing", "waiting", "cancelling"} THEN "open" ELSE c]
           /\ Got' = [Got EXCEPT ![r] = IF c = "answered" THEN answers[r] ELSE {}]
  BY DEF TypeOK, Outcome, Got, InFlight

\* What the contract sees of a call is whether it began, is open, or how it ended.
LEMMA OutcomeOf ==
    ASSUME TypeOK, NEW r \in Requests
    PROVE  /\ Outcome[r] = "none" <=> call[r] = "idle"
           /\ Outcome[r] = "open" <=> InFlight(r)
           /\ Outcome[r] = "refused" <=> call[r] = "refused"
  BY DEF TypeOK, CallStates, Returned, Outcome, InFlight

\* What the contract cannot see of a step that leaves the calls, the answers they
\* were given, the refused frames and the end of the task alone.
LEMMA NothingSeen ==
    ASSUME call' = call, unsent' = unsent, Link' = Link,
           \A q \in Requests : call[q] = "answered" => answers'[q] = answers[q]
    PROVE  UNCHANGED RC!vars
  BY DEF RC!vars, Outcome, Got, InFlight

\* A step of the dispatcher is one step of the contract, or none the contract can
\* see.
LEMMA ContractStep ==
    ASSUME TypeOK, TypeOK', DispatcherInv, AnswerInv, [Next]_vars
    PROVE  [RC!Next]_RC!vars
<1> USE DEF callVars, taskVars, wireVars
<1>1. ASSUME NEW r \in Requests, RequestStart(r) PROVE RC!Begin(r)
  <2>1. Outcome[r] = "none" /\ UNCHANGED <<answers, unsent, task>>
    BY <1>1, OutcomeOf DEF RequestStart
  <2>2. PICK c \in {"queueing", "refused"} : call' = [call EXCEPT ![r] = c]
    BY <1>1 DEF RequestStart
  <2>3. /\ Outcome' = [Outcome EXCEPT ![r] = IF c = "queueing" THEN "open" ELSE "refused"]
        /\ Got' = [Got EXCEPT ![r] = {}]
    BY <2>1, <2>2, CallMoves
  <2>4. Got' = Got
    BY <1>1, <2>3 DEF Got, RequestStart
  <2> QED
    BY <2>1, <2>3, <2>4 DEF RC!Begin, Link
<1>2. ASSUME NEW r \in Requests, NEW c \in {"closed", "timeout", "abandoned"},
             InFlight(r), call' = [call EXCEPT ![r] = c], UNCHANGED <<answers, unsent, task>>
      PROVE  RC!Ends(r, c) /\ UNCHANGED <<Got, unsent, Link>>
  <2>1. Outcome[r] = "open" /\ Outcome' = [Outcome EXCEPT ![r] = c]
    BY <1>2, OutcomeOf, CallMoves
  <2>2. Got' = [Got EXCEPT ![r] = {}] /\ Got[r] = {}
    BY <1>2, CallMoves DEF Got, InFlight
  <2>3. Got' = Got
    BY <2>2 DEF Got
  <2> QED
    BY <1>2, <2>1, <2>3 DEF RC!Ends, Link
<1>3. ASSUME NEW r \in Requests, NEW c \in {"waiting", "cancelling"},
             InFlight(r), call' = [call EXCEPT ![r] = c], UNCHANGED <<answers, unsent, task>>
      PROVE  UNCHANGED RC!vars
  <2>1. Outcome' = Outcome
    <3>1. Outcome' = [Outcome EXCEPT ![r] = "open"] /\ Outcome[r] = "open"
      BY <1>3, OutcomeOf, CallMoves
    <3> QED
      BY <3>1 DEF Outcome
  <2>2. Got' = Got
    BY <1>3, CallMoves DEF Got, InFlight
  <2> QED
    BY <1>3, <2>1, <2>2 DEF RC!vars, Link
<1>4. ASSUME NEW r \in Requests, RequestEnqueue(r) PROVE RC!Close(r) \/ UNCHANGED RC!vars
  <2>1. CASE call' = [call EXCEPT ![r] = "waiting"]
    BY <1>3, <1>4, <2>1 DEF RequestEnqueue, InFlight
  <2>2. CASE task = "stopped" /\ call' = [call EXCEPT ![r] = "closed"]
    BY <1>2, <1>4, <2>2 DEF RequestEnqueue, RC!Close, InFlight, Link
  <2> QED
    BY <1>4, <2>1, <2>2 DEF RequestEnqueue
<1>5. ASSUME NEW r \in Requests, RequestResolve(r) PROVE RC!Answer(r) \/ RC!Close(r)
  <2>0. InFlight(r) /\ UNCHANGED <<answers, unsent, task>>
    BY <1>5 DEF RequestResolve, InFlight
  <2>1. CASE reply[r] = "answer"
    <3>1. PICK q \in Requests : answers[r] = {q} /\ IdOf[q] = IdOf[r] /\ call[q] # "idle"
      BY <2>1 DEF AnswerInv, OneAnswer
    <3>2. q \in RC!SameId(r)
      BY <3>1, OutcomeOf DEF RC!SameId
    <3>3. \A other \in Requests : q \notin Got[other]
      BY <1>5, <3>1 DEF AnswerInv, HandedOnce, RequestResolve, Got
    <3>4. call' = [call EXCEPT ![r] = "answered"]
      BY <1>5, <2>1 DEF RequestResolve
    <3>5. Outcome[r] = "open" /\ Outcome' = [Outcome EXCEPT ![r] = "answered"]
      BY <2>0, <3>4, OutcomeOf, CallMoves
    <3>6. Got' = [Got EXCEPT ![r] = {q}]
      BY <2>0, <3>1, <3>4, CallMoves
    <3> QED
      BY <2>0, <3>2, <3>3, <3>5, <3>6 DEF RC!Answer, RC!Ends, Link
  <2>2. CASE reply[r] # "answer"
    <3>1. reply[r] \in {"closed", "dropped"} /\ call' = [call EXCEPT ![r] = "closed"]
      BY <1>5, <2>2 DEF RequestResolve, TypeOK
    <3>2. task = "stopped" \/ r \in unsent
          \/ \E q \in Requests \ {r} : IdOf[q] = IdOf[r] /\ call[q] # "idle"
      BY <3>1 DEF DispatcherInv, ClosedHasCause
    <3>3. ASSUME NEW q \in Requests \ {r}, IdOf[q] = IdOf[r], call[q] # "idle"
          PROVE  RC!SameId(r) # {r}
      <4>1. q \in RC!SameId(r)
        BY <3>3, OutcomeOf DEF RC!SameId
      <4> QED
        BY <4>1
    <3> QED
      BY <1>2, <2>0, <3>1, <3>2, <3>3 DEF RC!Close, Link
  <2> QED
    BY <2>1, <2>2
<1>6. ASSUME NEW r \in Requests, RequestTimeout(r) PROVE UNCHANGED RC!vars
  BY <1>3, <1>6 DEF RequestTimeout, InFlight
<1>7. ASSUME NEW r \in Requests, RequestCancel(r) \/ RequestAbandon(r) PROVE RC!GiveUp(r)
  BY <1>2, <1>7 DEF RequestCancel, RequestAbandon, RC!GiveUp, InFlight
<1>8. CASE FrameFailed
  <2>1. writing \in Requests /\ call[writing] \notin {"idle", "refused"}
    BY <1>8 DEF FrameFailed, TypeOK, AnswerInv, SentWasReceived
  <2>2. Outcome' = Outcome /\ Got' = Got /\ Link' = Link
    BY <1>8 DEF FrameFailed, Outcome, Got, Link, InFlight
  <2>3. RC!Lose(writing)
    BY <1>8, <2>1, <2>2, OutcomeOf DEF FrameFailed, RC!Lose
  <2> QED
    BY <2>1, <2>3 DEF RC!Next
<1>9. CASE OnResponse
  <2>1. call' = call /\ unsent' = unsent /\ task' = task
    BY <1>9 DEF OnResponse
  <2>2. \A q \in Requests : call[q] = "answered" => answers'[q] = answers[q]
    BY <1>9 DEF OnResponse, TypeOK
  <2> QED
    BY <2>1, <2>2, NothingSeen DEF Link
<1>10. CASE Stop /\ task = "select"
  <2>1. Outcome' = Outcome /\ Got' = Got /\ Link' = "down" /\ unsent' = unsent
    BY <1>10 DEF Stop, Outcome, Got, Link, InFlight
  <2> QED
    BY <2>1 DEF RC!Next, RC!LinkDown
<1>11. CASE UNCHANGED <<call, answers, unsent, task>>
  BY <1>11, NothingSeen DEF Link
<1>12. CASE OnSendRequest \/ FrameSent
  BY <1>12, NothingSeen DEF OnSendRequest, NextCommand, FrameSent, Link
<1> QED
  BY <1>1, <1>4, <1>5, <1>6, <1>7, <1>8, <1>9, <1>10, <1>11, <1>12
  DEF Next, CallerStep, TaskStep, EngineAnswer, ShutdownCall, DropHandles, OnCancel, OnShutdown,
      OnTransportEnd, OnHandlesDropped, NextCommand, vars, RC!Next, RC!Settle

\* The dispatcher keeps the promise of request() for any callers, ids and
\* capacity: a call has one outcome, each outcome has its cause, and no answer is
\* given to two calls.  That every call is settled is left to TLC.
THEOREM ImplementsContract == Spec => RC!Init /\ [][RC!Next]_RC!vars
<1>1. Init => RC!Init
  BY DEF Init, RC!Init, Outcome, Got, Link, InFlight
<1>2. TypeOK /\ TypeOK' /\ DispatcherInv /\ AnswerInv /\ [Next]_vars => [RC!Next]_RC!vars
  BY ContractStep
<1> QED
  BY <1>1, <1>2, TypeCorrect, Invariance, AnswersInvariance, PTL DEF Spec
=============================================================================
