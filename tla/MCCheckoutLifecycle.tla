------------------------ MODULE MCCheckoutLifecycle ------------------------
(***************************************************************************)
(* Small instances of CheckoutLifecycle for TLC.                           *)
(***************************************************************************)
EXTENDS CheckoutLifecycle

\* A rollback that fails leaves what a death in it does.
Anywhere == Critical \ {"undo"}

\* Elsewhere a death leaves what a failure does.
Deaths == Promoting \cup {"undo", "verify", "record", "waiting_to_record"}
=============================================================================
