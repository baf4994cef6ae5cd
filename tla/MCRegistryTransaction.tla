----------------------- MODULE MCRegistryTransaction -----------------------
(***************************************************************************)
(* Small instances of RegistryTransaction for TLC: two projects, one of    *)
(* them with two generations to sync.                                      *)
(***************************************************************************)
EXTENDS RegistryTransaction, TLC

CONSTANTS k1, k2, s1, s2, t1, p1, p2

Checkouts == p1 :> {s1, t1} @@ p2 :> {s2}

TwoProjects == s1 :> k1 @@ s2 :> k1 @@ t1 :> k2

\* A failure once the journal is gone takes the snapshot of a committed entry.
Failures == Critical \ {"verify", "answer"}

\* Elsewhere a death leaves exactly what a failure of the same call does.
Deaths == {"drop"} \cup (Critical \ (Recovery \cup {"inspect", "install"}))

\* One point of each phase of a sync at which Graphify may write.  None from
\* "replace" to "verify": what it writes there is lost, or fails the verification.
Moments == {"idle", "waiting", "project", "backup", "undo", "clean"}
=============================================================================
