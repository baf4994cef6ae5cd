-------------------------- MODULE MCAtlasPromotion --------------------------
(***************************************************************************)
(* Small instances of AtlasPromotion for TLC.                              *)
(***************************************************************************)
EXTENDS AtlasPromotion, TLC

CONSTANTS a1, a2, b1, da, db, e1, e2, t1, t2

\* a1 and a2 differ in generated_at only.
TwoDigests == a1 :> da @@ a2 :> da @@ b1 :> db

\* A fault once the journal says "committed" makes the handler undo it.
UntilCommit == Recovery \cup Before \cup Staging \cup Moving \cup Undo
               \cup {"check_installed", "promote", "commit"} \cup AfterCommit

\* A comparison has yet to be made, or nothing is going to be removed.
BeforeComparison == PCs \ {"check_installed", "promote", "commit", "sync_committed",
                           "undo_target", "recover_target"}

\* The backup is compared for the last time in "check_installed".
BeforeLastLook == Moving \cup {"check_installed", "undo_target", "undo_rename"}

\* The user changes pages that have just been installed.
AfterInstall == {"check_installed"}
=============================================================================
