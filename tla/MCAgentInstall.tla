--------------------------- MODULE MCAgentInstall ---------------------------
(***************************************************************************)
(* Small instances of AgentInstall for TLC: two versions of the package,   *)
(* and one uninstaller.                                                    *)
(***************************************************************************)
EXTENDS AgentInstall

CONSTANTS p1, p2, u, v1, v2

Shipping == [p \in {p1, p2} |-> IF p = p1 THEN v1 ELSE v2]
=============================================================================
