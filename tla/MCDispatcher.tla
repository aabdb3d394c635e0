---------------------------- MODULE MCDispatcher ----------------------------
(* Instances of Dispatcher for TLC.                                        *)
EXTENDS Dispatcher, TLC

CONSTANTS r1, r2, r3, x, y

\* Two requests share the id x, the third has its own, as allocate_request_id
\* hands them out.
SharedIds == (r1 :> x) @@ (r2 :> x) @@ (r3 :> y)

\* The two requests that share an id are interchangeable.
Sharers == Permutations({r1, r2})
=============================================================================
