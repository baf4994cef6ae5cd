----------------------------- MODULE AtlasStore -----------------------------
(***************************************************************************)
(* What atlas.promote_atlas promises about Projects/<id>/Generated: it is  *)
(* replaced as a whole, only if it was AtlasWeaver's own, and what a user  *)
(* made of it stays theirs.                                                *)
(***************************************************************************)
CONSTANTS Atlases,  \* trees a promotion may install
          Edits,    \* trees a user has changed
          Absent

VARIABLE pages

Init == pages \in Atlases \cup {Absent}

Replace == pages \notin Edits /\ pages' \in Atlases

\* Also a file the user has put where no pages are.
Change == pages' \in Edits

Next == Replace \/ Change

Spec == Init /\ [][Next]_pages
=============================================================================
