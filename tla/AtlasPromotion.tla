--------------------------- MODULE AtlasPromotion ---------------------------
(***************************************************************************)
(* atlas.promote_atlas: how the pages of a vault are replaced through a    *)
(* journal, a staged copy and a backup, rolled back and recovered, while   *)
(* the vault's user may change those pages at any moment.                  *)
(*                                                                         *)
(* promotion.lock lets one process in, so there is one program counter.    *)
(* The user knows no lock.  Crash ends the process and Fault makes its     *)
(* operation raise, as in GraphPromotion, from which this transaction      *)
(* differs: the journal comes before the stage and is unlinked last, what  *)
(* was scanned is compared with what was moved, and a recovery that does   *)
(* not recognise what it finds refuses and leaves it alone.                *)
(***************************************************************************)
EXTENDS Naturals

CONSTANTS Atlases,      \* whole trees AtlasWeaver owns
          Digests,      \* semantic digests: they leave generated_at out
          AtlasDigest,
          Edits,        \* trees a user has changed
          Transactions,
          Absent,
          Torn,         \* a tree that is being removed
          NoJournal,
          FaultPoints,  \* program points whose operation may raise
          EditPoints,   \* ... at which the user may change the pages,
          LatePoints,   \* or save into the tree that has been moved away
          MaxCrashes, MaxFaults  \* bounds of the environment

\* The program points of promote_atlas: what a failure leaves to undo.
Before == {"inspect", "initialize", "sync_initialized"}
Staging == {"copy", "prepare", "rename_backup"}
Moving == {"check_backup", "put_back", "back_up", "check_before", "rename_candidate"}
Installed == {"check_installed", "promote", "commit", "sync_committed"}
AfterCommit == {"remove_backup", "unlink", "sync_unlinked"}
Undo == {"undo_target", "undo_rename", "undo_stage", "undo_journal"}
Recovery == {"recover", "recover_target", "recover_rename", "recover_backup",
             "recover_stage", "recover_journal"}
PCs == {"idle"} \cup Before \cup Staging \cup Moving \cup Installed \cup AfterCommit
       \cup Undo \cup Recovery

\* _atomic_write_relative is at work on a journal.
Writing == {"initialize", "prepare", "back_up", "promote", "commit"}

Trees == Atlases \cup Edits \cup {Absent, Torn}
States == {"initializing", "prepared", "backed_up", "promoted", "committed"}
Journals == [state: States, digest: Digests, had_target: BOOLEAN]

ASSUME AtlasAssumption ==
         /\ AtlasDigest \in [Atlases -> Digests]
         /\ Atlases \cap Edits = {}
         /\ Absent \notin Atlases \cup Edits /\ Torn \notin Atlases \cup Edits
         /\ Absent # Torn
         /\ NoJournal \notin Journals
         /\ FaultPoints \subseteq PCs
         /\ EditPoints \subseteq PCs /\ LatePoints \subseteq PCs
         /\ MaxCrashes \in Nat /\ MaxFaults \in Nat

VARIABLES target,     \* Generated
          stage,      \* staging/<transaction>
          backup,     \* rollback/<transaction>
          journal,    \* transactions/<transaction>.json
          litter,     \* whether another file is in transactions/
          pc, tx, candidate,
          scanned,    \* current_snapshot
          edits,      \* history: the user's trees nothing has superseded
          crashes, faults

disk == <<target, stage, backup, journal, litter>>
call == <<tx, candidate, scanned>>
env == <<edits, crashes, faults>>
vars == <<disk, pc, call, env>>

Journaled == {t \in Transactions : journal[t] # NoJournal}

\* _owned_digest_at(tree) = digest; a changed or torn tree has no digest.
Owned(tree, digest) == tree \in Atlases /\ AtlasDigest[tree] = digest

Goto(from, to) == pc = from /\ pc' = to

\* The call ends: it returns, raises or its process dies.
Return == pc' = "idle" /\ scanned' = Absent /\ UNCHANGED <<tx, candidate>>

\* It raises with nothing left to undo.
Refuse == Return /\ UNCHANGED disk

-----------------------------------------------------------------------------
Init == /\ target \in Atlases \cup {Absent}
        /\ stage = [t \in Transactions |-> Absent]
        /\ backup = [t \in Transactions |-> Absent]
        /\ journal = [t \in Transactions |-> NoJournal]
        /\ litter = FALSE
        /\ pc = "idle"
        /\ tx \in Transactions /\ candidate \in Atlases /\ scanned = Absent
        /\ edits = {} /\ crashes = 0 /\ faults = 0

\* A validated candidate, and promotion.lock.
Begin == /\ Goto("idle", "recover")
         /\ candidate' \in Atlases
         /\ UNCHANGED <<disk, tx, scanned>>

-----------------------------------------------------------------------------
(* _recover_all_transactions                                               *)

\* An uncommitted transaction that may have moved something.
Undoable(t) == journal[t].state \in {"prepared", "backed_up", "promoted"}

\* The target is taken for the interrupted candidate.
Removes(t) == /\ Undoable(t) /\ target # Absent
              /\ backup[t] # Absent \/ ~journal[t].had_target

Restores(t) == Undoable(t) /\ backup[t] # Absent

\* The pages the transaction found are neither backed up nor back in place.
Missing(t) == IF journal[t].state = "prepared" THEN target = Absent
              ELSE target \notin Atlases \/ Owned(target, journal[t].digest)

\* "atlas transaction state is inconsistent"
Refuses(t) ==
    \/ journal[t].state = "committed" /\ ~Owned(target, journal[t].digest)
    \/ journal[t].state = "initializing" /\ backup[t] # Absent
    \/ Removes(t) /\ ~Owned(target, journal[t].digest)
    \/ Restores(t) /\ ~journal[t].had_target
    \/ Undoable(t) /\ journal[t].had_target /\ backup[t] = Absent /\ Missing(t)

\* "atlas transaction state contains an unknown file": its name sorts first.
RecoverRefused == /\ pc = "recover"
                  /\ litter \/ \E t \in Journaled : Refuses(t)
                  /\ Refuse

\* Mutant: a promotion begins whatever an earlier one has left.
RecoverNot == /\ Goto("recover", "inspect")
              /\ ~litter
              /\ UNCHANGED <<disk, call>>

RecoverNothing == /\ Goto("recover", "inspect")
                  /\ ~litter /\ Journaled = {}
                  /\ UNCHANGED <<disk, call>>

\* Mutant: whatever is in the way of a backup is removed.
RecoverUnowned(t) == /\ pc = "recover" /\ ~litter
                     /\ t \in Journaled
                     /\ Refuses(t) => Removes(t)
                     /\ tx' = t
                     /\ pc' = IF Removes(t) THEN "recover_target"
                              ELSE IF Restores(t) THEN "recover_rename"
                              ELSE IF journal[t].state = "committed" THEN "recover_backup"
                              ELSE "recover_stage"
                     /\ UNCHANGED <<disk, candidate, scanned>>

RecoverOne(t) == /\ pc = "recover" /\ ~litter
                 /\ t \in Journaled /\ ~Refuses(t)
                 /\ tx' = t
                 /\ pc' = IF Removes(t) THEN "recover_target"
                          ELSE IF Restores(t) THEN "recover_rename"
                          ELSE IF journal[t].state = "committed" THEN "recover_backup"
                          ELSE "recover_stage"
                 /\ UNCHANGED <<disk, candidate, scanned>>

\* remove_tree_at empties a directory file by file: it is torn before it goes.
Removed(tree) == IF tree = Torn THEN Absent ELSE Torn

RemoveTarget == /\ target # Absent /\ target' = Removed(target)
                /\ UNCHANGED <<stage, backup, journal, litter>>

RemoveBackup == /\ backup[tx] # Absent
                /\ backup' = [backup EXCEPT ![tx] = Removed(@)]
                /\ UNCHANGED <<target, stage, journal, litter>>

\* os.rename refuses a destination that has files in it.
Restore == /\ target = Absent
           /\ target' = backup[tx]
           /\ backup' = [backup EXCEPT ![tx] = Absent]
           /\ UNCHANGED <<stage, journal, litter>>

RemoveStage == /\ stage' = [stage EXCEPT ![tx] = Absent]
               /\ UNCHANGED <<target, backup, journal, litter>>

UnlinkJournal == /\ journal' = [journal EXCEPT ![tx] = NoJournal]
                 /\ UNCHANGED <<target, stage, backup, litter>>

RecoverTarget == \/ Goto("recover_target", "recover_target") /\ RemoveTarget
                    /\ UNCHANGED call
                 \/ /\ pc = "recover_target" /\ target = Absent
                    /\ pc' = IF Restores(tx) THEN "recover_rename" ELSE "recover_stage"
                    /\ UNCHANGED <<disk, call>>

RecoverRename == \/ Goto("recover_rename", "recover_stage") /\ Restore /\ UNCHANGED call
                 \/ pc = "recover_rename" /\ target # Absent /\ Refuse

RecoverBackup == \/ Goto("recover_backup", "recover_backup") /\ RemoveBackup
                    /\ UNCHANGED call
                 \/ /\ Goto("recover_backup", "recover_stage")
                    /\ backup[tx] = Absent
                    /\ UNCHANGED <<disk, call>>

RecoverStage == Goto("recover_stage", "recover_journal") /\ RemoveStage /\ UNCHANGED call

\* Mutant: a recovered transaction keeps its journal.
RecoverKeepsJournal == Goto("recover_journal", "recover") /\ UNCHANGED <<disk, call>>

RecoverJournal == Goto("recover_journal", "recover") /\ UnlinkJournal /\ UNCHANGED call

Recover == \/ RecoverRefused \/ RecoverNothing
           \/ \E t \in Transactions : RecoverOne(t)
           \/ RecoverTarget \/ RecoverRename \/ RecoverBackup
           \/ RecoverStage \/ RecoverJournal

-----------------------------------------------------------------------------
(* promote_atlas                                                           *)

InspectRefused == /\ pc = "inspect"
                  /\ target \notin Atlases \cup {Absent}
                  /\ Refuse

\* What is there says the same: AtlasPromotionResult(changed=False).
InspectUnchanged == /\ pc = "inspect"
                    /\ Owned(target, AtlasDigest[candidate])
                    /\ Refuse

Inspect == /\ Goto("inspect", "initialize")
           /\ target \in Atlases \cup {Absent}
           /\ ~Owned(target, AtlasDigest[candidate])
           /\ scanned' = target
           /\ tx' \in Transactions
           /\ UNCHANGED <<disk, candidate>>

\* _write_journal_at: a fault of its last fsync is a fault of the next step.
WriteJournal(state) ==
    /\ journal' = [journal EXCEPT ![tx] =
                     [state |-> state, digest |-> AtlasDigest[candidate],
                      had_target |-> scanned # Absent]]
    /\ UNCHANGED <<target, stage, backup, litter, call>>

Initialize == Goto("initialize", "sync_initialized") /\ WriteJournal("initializing")

SyncInitialized == Goto("sync_initialized", "copy") /\ UNCHANGED <<disk, call>>

\* A copy that was cut short is removed like a whole one: Absent stands for it.
Copy == /\ Goto("copy", "prepare")
        /\ stage' = [stage EXCEPT ![tx] = candidate]
        /\ UNCHANGED <<target, backup, journal, litter, call>>

Prepare == /\ pc = "prepare"
           /\ pc' = IF scanned = Absent THEN "check_before" ELSE "rename_backup"
           /\ WriteJournal("prepared")

RenameBackup ==
    /\ pc = "rename_backup"
    /\ pc' = IF target = Absent THEN "undo_rename" ELSE "check_backup"
    /\ backup' = [backup EXCEPT ![tx] = target]
    /\ target' = Absent
    /\ UNCHANGED <<stage, journal, litter, call>>

CheckBackup == /\ pc = "check_backup"
               /\ pc' = IF backup[tx] = scanned THEN "back_up" ELSE "put_back"
               /\ UNCHANGED <<disk, call>>

\* "generated namespace changed after validation"
PutBack == /\ Goto("put_back", "undo_rename")
           /\ Restore \/ (target # Absent /\ UNCHANGED disk)
           /\ UNCHANGED call

BackUp == Goto("back_up", "check_before") /\ WriteJournal("backed_up")

Unmoved == scanned # Absent => backup[tx] = scanned

\* "generated namespace changed before install"
CheckBefore == /\ pc = "check_before"
               /\ pc' = IF Unmoved THEN "rename_candidate" ELSE "undo_rename"
               /\ UNCHANGED <<disk, call>>

RenameCandidate ==
    \/ /\ Goto("rename_candidate", "check_installed")
       /\ target = Absent
       /\ target' = stage[tx]
       /\ stage' = [stage EXCEPT ![tx] = Absent]
       /\ UNCHANGED <<backup, journal, litter, call>>
    \/ /\ Goto("rename_candidate", "undo_rename")
       /\ target # Absent
       /\ UNCHANGED <<disk, call>>

\* Mutant: the backup is not looked at again.
CheckInstalledOnly ==
    /\ pc = "check_installed"
    /\ pc' = IF target = candidate THEN "promote" ELSE "undo_target"
    /\ UNCHANGED <<disk, call>>

\* "staged atlas changed during promotion", and the namespace.
CheckInstalled ==
    /\ pc = "check_installed"
    /\ pc' = IF target = candidate /\ Unmoved THEN "promote" ELSE "undo_target"
    /\ UNCHANGED <<disk, call>>

Promote == Goto("promote", "commit") /\ WriteJournal("promoted")

Commit == Goto("commit", "sync_committed") /\ WriteJournal("committed")

SyncCommitted == /\ pc = "sync_committed"
                 /\ pc' = IF scanned = Absent THEN "unlink" ELSE "remove_backup"
                 /\ UNCHANGED <<disk, call>>

DropBackup == \/ Goto("remove_backup", "remove_backup") /\ RemoveBackup /\ UNCHANGED call
              \/ /\ Goto("remove_backup", "unlink")
                 /\ backup[tx] = Absent
                 /\ UNCHANGED <<disk, call>>

Unlink == Goto("unlink", "sync_unlinked") /\ UnlinkJournal /\ UNCHANGED call

SyncUnlinked == pc = "sync_unlinked" /\ Refuse

-----------------------------------------------------------------------------
(* _rollback_active_transaction                                            *)

UndoTarget == \/ Goto("undo_target", "undo_target") /\ RemoveTarget /\ UNCHANGED call
              \/ /\ Goto("undo_target", "undo_rename")
                 /\ target = Absent
                 /\ UNCHANGED <<disk, call>>

\* If the backup cannot go back, the journal stays.
UndoRename == \/ /\ Goto("undo_rename", "undo_stage")
                 /\ backup[tx] # Absent /\ Restore /\ UNCHANGED call
              \/ /\ Goto("undo_rename", "undo_stage")
                 /\ backup[tx] = Absent /\ UNCHANGED <<disk, call>>
              \/ /\ pc = "undo_rename"
                 /\ backup[tx] # Absent /\ target # Absent /\ Refuse

UndoStage == Goto("undo_stage", "undo_journal") /\ RemoveStage /\ UNCHANGED call

UndoJournal == pc = "undo_journal" /\ UnlinkJournal /\ Return

Process ==
    \/ Recover
    \/ InspectRefused \/ InspectUnchanged \/ Inspect
    \/ Initialize \/ SyncInitialized \/ Copy \/ Prepare
    \/ RenameBackup \/ CheckBackup \/ PutBack \/ BackUp \/ CheckBefore
    \/ RenameCandidate \/ CheckInstalled \/ Promote \/ Commit \/ SyncCommitted
    \/ DropBackup \/ Unlink \/ SyncUnlinked
    \/ UndoTarget \/ UndoRename \/ UndoStage \/ UndoJournal

-----------------------------------------------------------------------------
(* The environment                                                         *)

\* An operation raises: what has been done decides what is undone.
Fault == /\ faults < MaxFaults /\ faults' = faults + 1
         /\ pc \in FaultPoints
         /\ \/ pc \in Before \cup AfterCommit \cup Undo \cup Recovery /\ Return
            \/ pc \in Staging \cup Moving /\ pc' = "undo_rename" /\ UNCHANGED call
            \/ pc \in Installed /\ pc' = "undo_target" /\ UNCHANGED call
         /\ UNCHANGED <<disk, edits, crashes>>

\* A death in _atomic_write_relative may leave its temporary file.
Crash == /\ crashes < MaxCrashes /\ crashes' = crashes + 1
         /\ pc # "idle" /\ Return
         /\ litter' \in IF pc \in Writing THEN {litter, TRUE} ELSE {litter}
         /\ UNCHANGED <<target, stage, backup, journal, edits, faults>>

\* A user changes the pages, or puts some where there are none.
UserEdits(e) == /\ pc \in EditPoints
                /\ e \in Edits \ edits
                /\ target' = e
                /\ edits' = (edits \ {target}) \cup {e}
                /\ UNCHANGED <<stage, backup, journal, litter, pc, call, crashes, faults>>

\* A program that has a file open saves it into the tree that was moved away.
LateWrite(e) == /\ pc \in LatePoints
                /\ e \in Edits \ edits
                /\ backup[tx] \in Atlases \cup Edits
                /\ backup' = [backup EXCEPT ![tx] = e]
                /\ edits' = (edits \ {backup[tx]}) \cup {e}
                /\ UNCHANGED <<target, stage, journal, litter, pc, call, crashes, faults>>

Next == \/ (Begin \/ Process) /\ UNCHANGED env
        \/ Fault \/ Crash
        \/ \E e \in Edits : UserEdits(e) \/ LateWrite(e)

Spec == Init /\ [][Next]_vars

\* A promotion that is being made goes on, and another one follows.
FairSpec == Spec /\ WF_vars(Begin /\ UNCHANGED env) /\ WF_vars(Process /\ UNCHANGED env)

-----------------------------------------------------------------------------
TypeOK == /\ target \in Trees
          /\ stage \in [Transactions -> Atlases \cup {Absent}]
          /\ backup \in [Transactions -> Trees]
          /\ journal \in [Transactions -> Journals \cup {NoJournal}]
          /\ litter \in BOOLEAN
          /\ pc \in PCs /\ tx \in Transactions /\ candidate \in Atlases
          /\ scanned \in Atlases \cup {Absent}
          /\ edits \subseteq Edits
          /\ crashes \in 0..MaxCrashes /\ faults \in 0..MaxFaults

OneJournal == \A s, t \in Journaled : s = t

\* The running transaction's journal.
Wrote(state) == /\ tx \in Journaled
                /\ journal[tx] = [state |-> state, digest |-> AtlasDigest[candidate],
                                  had_target |-> scanned # Absent]

\* What the running transaction has written of itself, and where its
\* candidate and its backup are: a recovery has nothing else to go by.
Progress ==
    /\ pc \in {"inspect", "initialize", "sync_unlinked"} => Journaled = {}
    /\ pc \in {"sync_initialized", "copy", "prepare"} => Wrote("initializing")
    /\ pc \in {"rename_backup", "check_backup", "put_back", "back_up"} => Wrote("prepared")
    /\ pc \in {"check_before", "rename_candidate", "check_installed", "promote"}
         => Wrote(IF scanned = Absent THEN "prepared" ELSE "backed_up")
    /\ pc = "commit" => Wrote("promoted")
    /\ pc \in {"sync_committed", "remove_backup", "unlink"} => Wrote("committed")
    /\ pc \in {"prepare", "rename_backup", "check_backup", "put_back", "back_up",
               "check_before", "rename_candidate"} => stage[tx] = candidate
    /\ pc \in Installed \cup {"remove_backup", "unlink", "undo_journal", "recover_journal"}
         => stage[tx] = Absent
    /\ pc \in {"rename_backup", "check_backup", "put_back", "back_up"} => scanned # Absent
    /\ pc \in Moving \cup Installed => (backup[tx] = Absent <=> scanned = Absent)
    /\ pc \in {"sync_initialized", "copy", "prepare", "rename_backup", "unlink",
               "undo_stage", "undo_journal", "recover_stage", "recover_journal"}
         => backup[tx] = Absent

\* What recovery and rollback rely on.
Undoing ==
    /\ pc \in Undo \cup (Recovery \ {"recover"}) => tx \in Journaled
    /\ pc \in {"recover_target", "recover_rename"} => Undoable(tx)
    /\ pc = "recover_rename" => backup[tx] # Absent
    /\ pc = "recover_backup" => journal[tx].state = "committed"

\* Only a transaction that had pages to move has a backup.
BackupsHadTarget == \A t \in Journaled :
    backup[t] # Absent => journal[t].had_target /\ journal[t].state # "initializing"

\* t's recovery brings back what was there before it.
Supersedes(t) == Undoable(t) /\ (backup[t] # Absent \/ ~journal[t].had_target)

\* There were no pages, and there are none of AtlasWeaver's.
Untouched == target \in Edits \cup {Absent}

\* Where the user's trees are not, and that one coming down is no loss.
Intact ==
    /\ target = Torn => \E t \in Journaled : Supersedes(t)
    /\ \A t \in Journaled : IF journal[t].state = "committed" THEN backup[t] \notin Edits
                            ELSE backup[t] # Torn
    /\ pc \in Installed => target = candidate
    /\ pc \in {"promote", "commit"} => Unmoved
    /\ pc \in {"undo_target", "recover_target"} => target \notin Edits /\ Supersedes(tx)
    /\ pc \in Undo => journal[tx].state # "committed"
    /\ pc \in {"initialize", "sync_initialized"} \cup Staging \cup Moving =>
         (scanned = Absent => Untouched)
    /\ pc \in {"undo_rename", "undo_stage", "undo_journal", "recover_stage",
               "recover_journal"} => (Supersedes(tx) /\ backup[tx] = Absent => Untouched)

\* No staged copy and no backup is left that no journal leads to.
LeftoversJournaled ==
    \A t \in Transactions : stage[t] # Absent \/ backup[t] # Absent => t \in Journaled

\* Whatever step promotion, rollback or recovery dies or fails in, what it
\* has left on disk can be read from a single journal.
Inv == /\ TypeOK /\ OneJournal /\ LeftoversJournaled
       /\ Progress /\ Undoing /\ BackupsHadTarget /\ Intact

\* promote_atlas replaces "only a proven Graphify-owned Generated tree": what
\* a user has made of the pages is in the vault as they left it, in its place
\* or in the backup a journal names.
EditsKept == \A e \in edits :
    target = e \/ \E t \in Journaled : backup[t] = e

\* The pages once a journal, if there is one, has been recovered.
Pages ==
    IF \E t \in Journaled : Supersedes(t)
    THEN LET t == CHOOSE t \in Journaled : Supersedes(t)
         IN IF backup[t] # Absent THEN backup[t]
            ELSE IF target \in Edits THEN target ELSE Absent
    ELSE target

Store == INSTANCE AtlasStore WITH pages <- Pages

\* promote_atlas is atomic, however often it dies: recovery brings back all of
\* the previous pages, or leaves all of the new ones.
ImplementsStore == Store!Spec

\* What the vault is safe under: the user changes no page between its
\* installation and its last comparison or removal, no program saves into a
\* backup after its last comparison, and nothing raises while the handler does
\* not know that the journal says "committed".
Compared ==
    /\ EditPoints \cap (Installed \cup {"undo_target", "recover_target"}) = {}
    /\ LatePoints \subseteq Moving \cup {"check_installed", "undo_target", "undo_rename"}
    /\ "sync_committed" \notin FaultPoints

\* What a promotion refuses to touch until somebody has had a look at it.
Blocked == litter \/ target \in Edits \cup {Torn}

\* While promotions are asked for, an interrupted one is recovered.
JournalsDrain == Journaled # {} ~> Journaled = {} \/ Blocked
=============================================================================
