------------------------------ MODULE MCServer ------------------------------
(* The MCP server for TLC: its HTTP connections, and the runtime that starts   *)
(* it, keeps its settings and its token.  The two models share no state, so a  *)
(* behaviour is one of either side, chosen at the start, while the other rests *)
(* in one of its initial states, where nothing fair is enabled.                *)
EXTENDS McpHttp, McpRuntime, TLC

CONSTANTS c1, c2

VARIABLE side

MCConns == {c1, c2}

ServerInit ==
    /\ side \in {"http", "runtime"}
    /\ Init
    /\ MrInit
    /\ side = "http" => \A f \in DOMAIN mrFile : mrFile[f].seen = Missing

ServerNext ==
    /\ \/ side = "http" /\ Next /\ UNCHANGED mrVars
       \/ side = "runtime" /\ MrNext /\ UNCHANGED vars
    /\ UNCHANGED side

ServerSpec ==
    /\ ServerInit /\ [][ServerNext]_<<vars, mrVars, side>>
    /\ Fairness /\ MrFairness

\* The server comes to rest whatever its clients do: every permit is given back
\* and every command of the runtime ends.
ServerComesToRest == PermitReturns /\ CommandEnds
=============================================================================
