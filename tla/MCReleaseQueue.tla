--------------------------- MODULE MCReleaseQueue ---------------------------
(* Small instances of ReleaseQueue. *)
EXTENDS ReleaseQueue

CONSTANTS n1, n2, n3

\* Each server has its own priority, or the two highest share one.
MCPriority(f, g, h) ==
  [n \in Server |-> IF n = n1 THEN f ELSE IF n = n2 THEN g ELSE h]
MCPriorities == {MCPriority(0, 1, 2), MCPriority(0, 0, 1)}
=============================================================================
