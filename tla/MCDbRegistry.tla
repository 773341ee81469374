---------------------------- MODULE MCDbRegistry ----------------------------
(* A path by its absolute and by a relative name, and a symbolic link to   *)
(* the same directory.                                                     *)
EXTENDS DbRegistry

CONSTANTS chainAbs, chainRel, chainLink, chainDir

MCPaths == {chainAbs, chainRel, chainLink}

MCJoined == [p \in MCPaths |-> IF p = chainRel THEN chainAbs ELSE p]

MCDir == [p \in MCPaths |-> chainDir]
=============================================================================
