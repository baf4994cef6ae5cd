-------------------------- MODULE MCCoverageApproval --------------------------
(***************************************************************************)
(* A small instance of CoverageApproval for TLC: two approvers, an ordinary *)
(* file and a source with a sensitive name.                                *)
(***************************************************************************)
EXTENDS CoverageApproval, TLC

CONSTANTS a, b

ExceptionLists == {{}, {<<1, "flagged">>}}
FirstCheckouts == {[content |-> [p \in Paths |-> c], ignored |-> {}, exceptions |-> e] :
                    c \in {"text", "flagged"}, e \in ExceptionLists}
ApprovalLists == {{}, {<<2, "text">>}}
IgnoreLists == {{}, {1}}
Symmetry == Permutations({a, b})
===============================================================================
