------------------------ MODULE MCConfigTransaction ------------------------
(***************************************************************************)
(* Small instances of ConfigTransaction for TLC.                           *)
(***************************************************************************)
EXTENDS ConfigTransaction

CONSTANTS p1, p2
=============================================================================
