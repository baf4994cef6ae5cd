---------------------------- MODULE GraphDirectory ----------------------------
(***************************************************************************)
(* What the other commands of a checkout can find at graphify-out while    *)
(* promote_graph (artifacts.py) works on it, dies in it or recovers it:    *)
(* the directory itself, and the graph that survives a death now.  The two *)
(* agree unless a promotion is under way or was interrupted.               *)
(***************************************************************************)
CONSTANTS Generations,  \* whole generations
          Absent,       \* no directory
          Torn          \* a directory some of whose files are gone

VARIABLES target,  \* graphify-out
          graph    \* the generation a recovery leaves there, or Absent

vars == <<target, graph>>

Init == /\ target \in Generations \cup {Absent, Torn}
        /\ graph = IF target = Torn THEN Absent ELSE target

SetAside == /\ target # Absent /\ target' = Absent
            /\ UNCHANGED graph

Install(candidate) == /\ target = Absent /\ target' = candidate
                      /\ UNCHANGED graph

\* The journal is unlinked: what is installed is the checkout's graph.
Commit == /\ target \in Generations /\ graph' = target
          /\ UNCHANGED target

\* A directory that is not the surviving graph is removed file by file.
Tear == /\ target \in Generations \ {graph} /\ target' = Torn
        /\ UNCHANGED graph

Remove == /\ target = Torn /\ target' = Absent
          /\ UNCHANGED graph

\* What was set aside is put back, were it a torn directory.
Restore == /\ target = Absent
           /\ target' = IF graph = Absent THEN Torn ELSE graph
           /\ UNCHANGED graph

Next == \/ SetAside \/ (\E g \in Generations : Install(g)) \/ Commit
        \/ Tear \/ Remove \/ Restore

Spec == Init /\ [][Next]_vars
=============================================================================
