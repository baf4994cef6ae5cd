--------------------------- MODULE MCBundleDelivery ---------------------------
(***************************************************************************)
(* Small instances of BundleDelivery for TLC: the projections and the      *)
(* manifests may be exchanged for one another.                             *)
(***************************************************************************)
EXTENDS BundleDelivery, TLC

CONSTANTS i, l, k, f1, f2, m1, m2

Symmetry == Permutations({f1, f2}) \cup Permutations({m1, m2})
=============================================================================
