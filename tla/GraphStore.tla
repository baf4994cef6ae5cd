----------------------------- MODULE GraphStore -----------------------------
(***************************************************************************)
(* What promote_graph (artifacts.py) promises its caller, with no files,   *)
(* journals or renames in sight: the repository holds one graph generation *)
(* (or none), a promotion either installs its candidate as a whole or      *)
(* leaves the graph alone, and what it answers says which of the two       *)
(* happened.  A process that dies in the middle answers nothing.           *)
(***************************************************************************)
CONSTANTS Generations,  \* generation digests of validated candidates
          Absent        \* no graph

VARIABLES graph,      \* the generation a reader finds once the store is at rest
          candidate,  \* the generation of the promotion under way
          status      \* where that promotion stands, or what it answered

vars == <<graph, candidate, status>>

Answers == {"never", "unchanged", "promoted", "failed", "crashed"}

TypeOK == /\ graph \in Generations \cup {Absent}
          /\ candidate \in Generations
          /\ status \in Answers \cup {"working", "committed"}

Init == /\ graph \in Generations \cup {Absent}
        /\ candidate \in Generations
        /\ status = "never"

Begin == /\ status \in Answers
         /\ candidate' \in Generations
         /\ status' = "working"
         /\ UNCHANGED graph

Commit == /\ status = "working"
          /\ graph' = candidate
          /\ status' = "committed"
          /\ UNCHANGED candidate

\* The candidate is already installed: nothing is touched.
Keep == /\ status = "working"
        /\ graph = candidate
        /\ status' = "unchanged"
        /\ UNCHANGED <<graph, candidate>>

Acknowledge == /\ status = "committed"
               /\ status' = "promoted"
               /\ UNCHANGED <<graph, candidate>>

\* A failure is only ever reported by a promotion that changed nothing.
Fail == /\ status = "working"
        /\ status' = "failed"
        /\ UNCHANGED <<graph, candidate>>

Crash == /\ status \in {"working", "committed"}
         /\ status' = "crashed"
         /\ UNCHANGED <<graph, candidate>>

Next == Begin \/ Commit \/ Keep \/ Acknowledge \/ Fail \/ Crash

Spec == Init /\ [][Next]_vars
=============================================================================
