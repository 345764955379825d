-------------------------- MODULE MCMcpConnections --------------------------
EXTENDS McpConnections

CONSTANTS s1, s2, shared, own, auth1, auth2

(* The servers offer a tool under the same qualified name, and s2 one under  *)
(* the name of the authenticate tool of s1; the one of s2 is its own.        *)
MCOrder    == <<s1, s2>>
MCHttp     == {s1, s2}
MCOffers   == [s \in {s1, s2} |-> IF s = s1 THEN {own, shared} ELSE {shared, auth1}]
MCAuthTool == [s \in {s1, s2} |-> IF s = s1 THEN auth1 ELSE auth2]
=============================================================================
