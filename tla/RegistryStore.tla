---------------------------- MODULE RegistryStore ----------------------------
(***************************************************************************)
(* What registry.py promises to the projects of one user: a registry that  *)
(* changes by whole generations, each adding or replacing the entry of one *)
(* project, and captures that return the generation current at some moment *)
(* of the call.                                                            *)
(***************************************************************************)
EXTENDS RegistryDocument

CONSTANT Readers

VARIABLES registry,   \* the committed generation
          captured    \* what each reader's last successful capture returned

vars == <<registry, captured>>

Init == /\ registry \in Documents \cup {Absent}
        /\ captured = [r \in Readers |-> Absent]

Commit == /\ \E s \in Snapshots : registry' = Added(registry, s)
          /\ UNCHANGED captured

Capture(r) == /\ registry # Absent
              /\ captured' = [captured EXCEPT ![r] = registry]
              /\ UNCHANGED registry

Next == Commit \/ \E r \in Readers : Capture(r)

Spec == Init /\ [][Next]_vars
=============================================================================
