-------------------------- MODULE MCReleasePublish --------------------------
(***************************************************************************)
(* Small instances of ReleasePublish for TLC: two of the three commits     *)
(* have one and the same safe projection.                                  *)
(***************************************************************************)
EXTENDS ReleasePublish

CONSTANTS c1, c2, c3, s1, s2, r1

Projection == [c \in {c1, c2, c3} |-> IF c = c3 THEN s2 ELSE s1]
=============================================================================
