------------------------ MODULE MCMcpAuthorization ------------------------
(* Instances of McpAuthorization for TLC. *)
EXTENDS McpAuthorization, TLC

CONSTANTS q1, s1, s2, t1

MCRequests == {q1}
MCSettings == {s1, s2}
MCNewMode == [s \in {s1, s2} |-> IF s = s1 THEN "enabled" ELSE "readOnly"]
MCTokenCalls == {t1}
MCScene == {"v1", "v2"}
===========================================================================
