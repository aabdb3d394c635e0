------------------------ MODULE DispatcherContract ------------------------
(* The dispatcher implements RequestContract: a call is open from its start *)
(* to its return, the link is down once the task has stopped.               *)
EXTENDS Dispatcher

Outcome ==
    [r \in Requests |-> IF call[r] = "idle" THEN "none" ELSE IF InFlight(r) THEN "open" ELSE call[r]]

Got == [r \in Requests |-> IF call[r] = "answered" THEN answers[r] ELSE {}]

Link == IF task = "stopped" THEN "down" ELSE "up"

RC == INSTANCE RequestContract WITH outcome <- Outcome, got <- Got, lost <- unsent, link <- Link

\* The dispatcher keeps the promise of request(): one outcome for each call, in
\* time, each with its cause, and no answer handed out twice.
Contract == RC!Spec
===========================================================================
