--------------------------- MODULE MCFleetOperation ---------------------------
(***************************************************************************)
(* A small instance of FleetOperation for TLC: two projects and a third    *)
(* directory, a clone of the first.                                         *)
(***************************************************************************)
EXTENDS FleetOperation

CONSTANTS d1, d2, d3

Opened == [p \in Projects |-> IF p = 1 THEN d1 ELSE d2]
Manifests == { [id |-> 1, uid |-> 1, rev |-> 1], [id |-> 1, uid |-> 1, rev |-> 2],
               [id |-> 2, uid |-> 2, rev |-> 1] }
Written == [d \in Dirs |-> [id |-> IF d = d2 THEN 2 ELSE 1, uid |-> IF d = d2 THEN 2 ELSE 1,
                            rev |-> 1]]
Entered == { [p \in Projects |-> <<Opened[p], 1>>], [p \in Projects |-> <<Opened[p], p - 1>>],
             [p \in {2} |-> <<d2, 1>>] }
===============================================================================
