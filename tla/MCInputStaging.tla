---------------------------- MODULE MCInputStaging ----------------------------
(***************************************************************************)
(* Small instances of InputStaging for TLC: an ordinary file, a source with *)
(* a sensitive name, and one in a directory that is denied.                *)
(***************************************************************************)
EXTENDS InputStaging

CONSTANT a

Files == [p \in Paths |-> IF p = 1 THEN "flagged" ELSE "text"]
Reviewed == {<<1, "flagged">>}
ExceptionLists == {{}, Reviewed}
FirstCheckouts == {[content |-> Files, ignored |-> {}, exceptions |-> Reviewed]}
IgnoreLists == {{}, {1}}
ApprovalLists == {{<<2, "text">>}}
===============================================================================
