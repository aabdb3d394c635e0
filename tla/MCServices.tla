----------------------------- MODULE MCServices -----------------------------
(* The tasks of the backend beside the bridge and the edit actor, for TLC.     *)
(* They share no state, so every behaviour is one of a single service, chosen  *)
(* at the start, while the others rest in an initial state.                    *)
EXTENDS EngineProcess, Thumbnails, ImageWorker

VARIABLE service

\* The Game View asks once, for another size than the tool, which asks twice.
MCSize == [c \in TnCallers |-> IF c = "view" THEN 1 ELSE 2]
MCCalls == [c \in TnCallers |-> IF c = "view" THEN 1 ELSE 2]

Init ==
    /\ service \in {"engine", "thumbnails", "images"}
    /\ EpInit /\ TnInit /\ IwInit

Next ==
    /\ \/ service = "engine" /\ EpNext /\ UNCHANGED <<tnVars, iwVars>>
       \/ service = "thumbnails" /\ TnNext /\ UNCHANGED <<epVars, iwVars>>
       \/ service = "images" /\ IwNext /\ UNCHANGED <<epVars, tnVars>>
    /\ UNCHANGED service

\* In the initial states only what users and clients do is enabled, so the
\* fairness of the services that rest asks for nothing.
Spec ==
    /\ Init /\ [][Next]_<<epVars, tnVars, iwVars, service>>
    /\ EpFairness /\ TnFairness /\ IwFairness

\* Each service comes to rest: a dead engine leaves the holder, every thumbnail
\* call returns, and the image processor's shutdown ends.
ServicesComeToRest == DeadIsReleased /\ CallsReturn /\ WorkersClose
=============================================================================
