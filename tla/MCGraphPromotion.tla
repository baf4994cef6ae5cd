-------------------------- MODULE MCGraphPromotion --------------------------
(***************************************************************************)
(* Small instances of GraphPromotion for TLC.                              *)
(***************************************************************************)
EXTENDS GraphPromotion, TLC

CONSTANTS g1, g2, d1, d2, t1, t2, t3, t4

\* Different generations, different graph.json.
OneToOne == g1 :> d1 @@ g2 :> d2

\* The generations differ in GRAPH_REPORT.md only.
SameGraph == g1 :> d1 @@ g2 :> d1

\* Every operation up to the unlinking of the journal can fail.
UntilCommit == BeforeJournal \cup BeforeCommit \cup Recovery \cup Undo

\* ... and so can the cleanup that follows it.
Everywhere == UntilCommit \cup AfterCommit
=============================================================================
