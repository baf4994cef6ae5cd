-------------------------- MODULE RegistryDocument --------------------------
(***************************************************************************)
(* registry.json as registry_sync sees it: a generation number and at most *)
(* one snapshot per project.                                               *)
(***************************************************************************)
EXTENDS Naturals

CONSTANTS Keys,       \* registry keys: atlasweaver/<project_uid>
          Snapshots,  \* snapshot digests
          KeyOf,      \* the project a snapshot was taken of
          NoEntry,    \* no entry under this key
          Absent      \* no file of this name

Documents == [generation: Nat \ {0}, entries: [Keys -> Snapshots \cup {NoEntry}]]

Generation(v) == IF v = Absent THEN 0 ELSE v.generation
Entries(v) == IF v = Absent THEN [k \in Keys |-> NoEntry] ELSE v.entries

\* The document that follows v once snapshot s has been synced.
Added(v, s) == [generation |-> Generation(v) + 1,
                entries |-> [Entries(v) EXCEPT ![KeyOf[s]] = s]]
=============================================================================
