-------------------------- MODULE RequestContract --------------------------
(***************************************************************************)
(* What DispatchHandle::request promises its callers, without channels,    *)
(* task or pending table: every call ends with one outcome, each outcome   *)
(* has its cause, and an answer of the engine is given to one call only.   *)
(***************************************************************************)
EXTENDS Naturals

CONSTANTS
    Requests,   \* calls
    IdOf        \* the id each call carries

VARIABLES
    outcome,    \* "none", "open", or how the call ended
    got,        \* the requests whose answer an answered call was given
    lost,       \* requests whose frame the transport refused
    link        \* "up" or "down"

vars == <<outcome, got, lost, link>>

Init ==
    /\ outcome = [r \in Requests |-> "none"]
    /\ got = [r \in Requests |-> {}]
    /\ lost = {}
    /\ link = "up"

Ends(r, how) ==
    /\ outcome[r] = "open"
    /\ outcome' = [outcome EXCEPT ![r] = how]

\* A call starts, or is refused because its envelope cannot be encoded.
Begin(r) ==
    /\ outcome[r] = "none"
    /\ \E first \in {"open", "refused"} : outcome' = [outcome EXCEPT ![r] = first]
    /\ UNCHANGED <<got, lost, link>>

SameId(r) == {q \in Requests : IdOf[q] = IdOf[r] /\ outcome[q] # "none"}

\* An answer to a call that carried the id, given to nobody before.
Answer(r) ==
    /\ Ends(r, "answered")
    /\ \E q \in SameId(r) :
        /\ \A other \in Requests : q \notin got[other]
        /\ got' = [got EXCEPT ![r] = {q}]
    /\ UNCHANGED <<lost, link>>

\* ConnectionClosed: the link is down, this frame was refused, or another call
\* took the id over.
Close(r) ==
    /\ Ends(r, "closed")
    /\ link = "down" \/ r \in lost \/ SameId(r) # {r}
    /\ UNCHANGED <<got, lost, link>>

\* The timeout passes, or the caller drops the call.
GiveUp(r) ==
    /\ \E how \in {"timeout", "abandoned"} : Ends(r, how)
    /\ UNCHANGED <<got, lost, link>>

Lose(r) ==
    /\ outcome[r] \notin {"none", "refused"}
    /\ lost' = lost \cup {r}
    /\ UNCHANGED <<outcome, got, link>>

LinkDown == link' = "down" /\ UNCHANGED <<outcome, got, lost>>

Settle(r) == Answer(r) \/ Close(r) \/ GiveUp(r)

Next == LinkDown \/ \E r \in Requests : Begin(r) \/ Settle(r) \/ Lose(r)

\* Every open call is settled.
Spec == Init /\ [][Next]_vars /\ \A r \in Requests : WF_vars(Settle(r))
=============================================================================
