-------------------------- MODULE UserFilesProofs --------------------------
(***************************************************************************)
(* Machine-checked theorems about two components that replace files a user *)
(* may change at any time: AtlasPromotion, for any trees, edits,           *)
(* transactions and bounds of the environment, and AgentInstall.           *)
(***************************************************************************)
EXTENDS AtlasPromotion, AgentInstall, TLAPS

-----------------------------------------------------------------------------
(* Types                                                                   *)

\* Every statement of promotion, rollback and recovery, and whatever the user
\* does, keeps trees, journals and program counter within their types.
LEMMA TypeStep == ASSUME TypeOK, [Next]_vars PROVE TypeOK'
<1> USE AtlasAssumption
    DEF AtlasAssumption, TypeOK, Trees, States, Journals, PCs, Before, Staging,
        Moving, Installed, AfterCommit, Undo, Recovery, disk, call, env, Goto,
        Return, Refuse
<1>1. CASE Begin /\ UNCHANGED env
  BY <1>1 DEF Begin
<1>2. CASE RecoverRefused /\ UNCHANGED env
  BY <1>2 DEF RecoverRefused
<1>3. CASE RecoverNothing /\ UNCHANGED env
  BY <1>3 DEF RecoverNothing
<1>4. CASE (\E t \in Transactions : RecoverOne(t)) /\ UNCHANGED env
  BY <1>4 DEF RecoverOne
<1>5. CASE RecoverTarget /\ UNCHANGED env
  BY <1>5 DEF RecoverTarget, RemoveTarget, Removed
<1>6. CASE RecoverRename /\ UNCHANGED env
  BY <1>6 DEF RecoverRename, Restore
<1>7. CASE RecoverBackup /\ UNCHANGED env
  BY <1>7 DEF RecoverBackup, RemoveBackup, Removed
<1>8. CASE RecoverStage /\ UNCHANGED env
  BY <1>8 DEF RecoverStage, RemoveStage
<1>9. CASE RecoverJournal /\ UNCHANGED env
  BY <1>9 DEF RecoverJournal, UnlinkJournal
<1>10. CASE InspectRefused /\ UNCHANGED env
  BY <1>10 DEF InspectRefused
<1>11. CASE InspectUnchanged /\ UNCHANGED env
  BY <1>11 DEF InspectUnchanged
<1>12. CASE Inspect /\ UNCHANGED env
  BY <1>12 DEF Inspect
<1>13. CASE Initialize /\ UNCHANGED env
  BY <1>13 DEF Initialize, WriteJournal
<1>14. CASE SyncInitialized /\ UNCHANGED env
  BY <1>14 DEF SyncInitialized
<1>15. CASE Copy /\ UNCHANGED env
  BY <1>15 DEF Copy
<1>16. CASE Prepare /\ UNCHANGED env
  BY <1>16 DEF Prepare, WriteJournal
<1>17. CASE RenameBackup /\ UNCHANGED env
  BY <1>17 DEF RenameBackup
<1>18. CASE CheckBackup /\ UNCHANGED env
  BY <1>18 DEF CheckBackup
<1>19. CASE PutBack /\ UNCHANGED env
  BY <1>19 DEF PutBack, Restore
<1>20. CASE BackUp /\ UNCHANGED env
  BY <1>20 DEF BackUp, WriteJournal
<1>21. CASE CheckBefore /\ UNCHANGED env
  BY <1>21 DEF CheckBefore
<1>22. CASE RenameCandidate /\ UNCHANGED env
  BY <1>22 DEF RenameCandidate
<1>23. CASE CheckInstalled /\ UNCHANGED env
  BY <1>23 DEF CheckInstalled
<1>24. CASE Promote /\ UNCHANGED env
  BY <1>24 DEF Promote, WriteJournal
<1>25. CASE Commit /\ UNCHANGED env
  BY <1>25 DEF Commit, WriteJournal
<1>26. CASE SyncCommitted /\ UNCHANGED env
  BY <1>26 DEF SyncCommitted
<1>27. CASE DropBackup /\ UNCHANGED env
  BY <1>27 DEF DropBackup, RemoveBackup, Removed
<1>28. CASE Unlink /\ UNCHANGED env
  BY <1>28 DEF Unlink, UnlinkJournal
<1>29. CASE SyncUnlinked /\ UNCHANGED env
  BY <1>29 DEF SyncUnlinked
<1>30. CASE UndoTarget /\ UNCHANGED env
  BY <1>30 DEF UndoTarget, RemoveTarget, Removed
<1>31. CASE UndoRename /\ UNCHANGED env
  BY <1>31 DEF UndoRename, Restore
<1>32. CASE UndoStage /\ UNCHANGED env
  BY <1>32 DEF UndoStage, RemoveStage
<1>33. CASE UndoJournal /\ UNCHANGED env
  BY <1>33 DEF UndoJournal, UnlinkJournal
<1>34. CASE Fault BY <1>34 DEF Fault
<1>35. CASE Crash
  <2>1. litter' \in BOOLEAN BY <1>35, Zenon DEF Crash
  <2> QED BY <1>35, <2>1 DEF Crash
<1>36. CASE \E e \in Edits : UserEdits(e) BY <1>36 DEF UserEdits
<1>37. CASE \E e \in Edits : LateWrite(e) BY <1>37 DEF LateWrite
<1>38. CASE UNCHANGED vars BY <1>38 DEF vars
<1> HIDE AtlasAssumption DEF TypeOK, Goto, Return, Refuse, env, PCs, disk, call
<1> QED
  BY <1>1, <1>2, <1>3, <1>4, <1>5, <1>6, <1>7, <1>8, <1>9, <1>10, <1>11, <1>12,
     <1>13, <1>14, <1>15, <1>16, <1>17, <1>18, <1>19, <1>20, <1>21, <1>22,
     <1>23, <1>24, <1>25, <1>26, <1>27, <1>28, <1>29, <1>30, <1>31, <1>32,
     <1>33, <1>34, <1>35, <1>36, <1>37, <1>38
  DEF Next, Process, Recover

\* The type invariant holds of every behaviour of promote_atlas.
THEOREM TypeCorrect == Spec => []TypeOK
<1>1. ASSUME Init PROVE TypeOK
  <2>1. pc \in PCs /\ crashes \in 0..MaxCrashes /\ faults \in 0..MaxFaults
    BY <1>1, AtlasAssumption DEF AtlasAssumption, Init, PCs
  <2> QED BY <1>1, <2>1 DEF Init, TypeOK, Trees
<1>2. ASSUME TypeOK, [Next]_vars PROVE TypeOK'
  BY <1>2, TypeStep
<1> QED BY <1>1, <1>2, PTL DEF Spec

-----------------------------------------------------------------------------
(* One journal, and what it leads to                                       *)

\* What holds whenever and wherever edits, deaths and failures come.
Structure == /\ OneJournal /\ LeftoversJournaled
             /\ Progress /\ Undoing /\ BackupsHadTarget

\* Every step keeps the journals and what they own together.
LEMMA StructureStep == ASSUME TypeOK, Structure, [Next]_vars PROVE Structure'
<1> USE AtlasAssumption
    DEF AtlasAssumption, TypeOK, Trees, States, Journals, Before, Staging,
        Moving, Installed, AfterCommit, Undo, Recovery, disk, call, env, Goto,
        Return, Refuse, Structure, OneJournal, LeftoversJournaled, Progress,
        Undoing, BackupsHadTarget, Wrote, Journaled, Undoable, Removes, Restores,
        Refuses
<1>1. CASE Begin /\ UNCHANGED env
  BY <1>1 DEF Begin
<1>2. CASE RecoverRefused /\ UNCHANGED env
  BY <1>2 DEF RecoverRefused
<1>3. CASE RecoverNothing /\ UNCHANGED env
  BY <1>3 DEF RecoverNothing
<1>4. CASE (\E t \in Transactions : RecoverOne(t)) /\ UNCHANGED env
  BY <1>4 DEF RecoverOne
<1>5. CASE RecoverTarget /\ UNCHANGED env
  BY <1>5 DEF RecoverTarget, RemoveTarget, Removed
<1>6. CASE RecoverRename /\ UNCHANGED env
  BY <1>6 DEF RecoverRename, Restore
<1>7. CASE RecoverBackup /\ UNCHANGED env
  BY <1>7 DEF RecoverBackup, RemoveBackup, Removed
<1>8. CASE RecoverStage /\ UNCHANGED env
  BY <1>8 DEF RecoverStage, RemoveStage
<1>9. CASE RecoverJournal /\ UNCHANGED env
  BY <1>9 DEF RecoverJournal, UnlinkJournal
<1>10. CASE InspectRefused /\ UNCHANGED env
  BY <1>10 DEF InspectRefused
<1>11. CASE InspectUnchanged /\ UNCHANGED env
  BY <1>11 DEF InspectUnchanged
<1>12. CASE Inspect /\ UNCHANGED env
  BY <1>12 DEF Inspect
<1>13. CASE Initialize /\ UNCHANGED env
  <2> DEFINE j == [state |-> "initializing", digest |-> AtlasDigest[candidate],
                   had_target |-> scanned # Absent]
  <2>1. j \in Journals BY DEF Journals
  <2>2. j # NoJournal BY <2>1, AtlasAssumption DEF AtlasAssumption
  <2>3. Journaled = {} /\ backup[tx] = Absent
    BY <1>13 DEF Initialize
  <2>4. /\ journal' = [journal EXCEPT ![tx] = j] /\ pc' = "sync_initialized"
        /\ UNCHANGED <<target, stage, backup, tx, candidate, scanned>>
    BY <1>13 DEF Initialize, WriteJournal
  <2>5. Journaled' = {tx} /\ journal'[tx] = j BY <2>2, <2>3, <2>4
  <2> QED BY <2>3, <2>4, <2>5
<1>14. CASE SyncInitialized /\ UNCHANGED env
  BY <1>14 DEF SyncInitialized
<1>15. CASE Copy /\ UNCHANGED env
  BY <1>15 DEF Copy
<1>16. CASE Prepare /\ UNCHANGED env
  BY <1>16 DEF Prepare, WriteJournal
<1>17. CASE RenameBackup /\ UNCHANGED env
  BY <1>17 DEF RenameBackup
<1>18. CASE CheckBackup /\ UNCHANGED env
  BY <1>18 DEF CheckBackup
<1>19. CASE PutBack /\ UNCHANGED env
  BY <1>19 DEF PutBack, Restore
<1>20. CASE BackUp /\ UNCHANGED env
  BY <1>20 DEF BackUp, WriteJournal
<1>21. CASE CheckBefore /\ UNCHANGED env
  BY <1>21 DEF CheckBefore
<1>22. CASE RenameCandidate /\ UNCHANGED env
  BY <1>22 DEF RenameCandidate
<1>23. CASE CheckInstalled /\ UNCHANGED env
  BY <1>23 DEF CheckInstalled
<1>24. CASE Promote /\ UNCHANGED env
  BY <1>24 DEF Promote, WriteJournal
<1>25. CASE Commit /\ UNCHANGED env
  BY <1>25 DEF Commit, WriteJournal
<1>26. CASE SyncCommitted /\ UNCHANGED env
  BY <1>26 DEF SyncCommitted
<1>27. CASE DropBackup /\ UNCHANGED env
  BY <1>27 DEF DropBackup, RemoveBackup, Removed
<1>28. CASE Unlink /\ UNCHANGED env
  BY <1>28 DEF Unlink, UnlinkJournal
<1>29. CASE SyncUnlinked /\ UNCHANGED env
  BY <1>29 DEF SyncUnlinked
<1>30. CASE UndoTarget /\ UNCHANGED env
  BY <1>30 DEF UndoTarget, RemoveTarget, Removed
<1>31. CASE UndoRename /\ UNCHANGED env
  BY <1>31 DEF UndoRename, Restore
<1>32. CASE UndoStage /\ UNCHANGED env
  BY <1>32 DEF UndoStage, RemoveStage
<1>33. CASE UndoJournal /\ UNCHANGED env
  BY <1>33 DEF UndoJournal, UnlinkJournal
<1>34. CASE Fault BY <1>34 DEF Fault
<1>35. CASE Crash
  <2>1. litter' \in BOOLEAN BY <1>35, Zenon DEF Crash
  <2> QED BY <1>35, <2>1 DEF Crash
<1>36. CASE \E e \in Edits : UserEdits(e) BY <1>36 DEF UserEdits
<1>37. CASE \E e \in Edits : LateWrite(e) BY <1>37 DEF LateWrite
<1>38. CASE UNCHANGED vars BY <1>38 DEF vars
<1> HIDE AtlasAssumption DEF Structure, OneJournal, LeftoversJournaled, Progress, Goto, Return, Refuse, env, disk, call
<1> QED
  BY <1>1, <1>2, <1>3, <1>4, <1>5, <1>6, <1>7, <1>8, <1>9, <1>10, <1>11, <1>12,
     <1>13, <1>14, <1>15, <1>16, <1>17, <1>18, <1>19, <1>20, <1>21, <1>22,
     <1>23, <1>24, <1>25, <1>26, <1>27, <1>28, <1>29, <1>30, <1>31, <1>32,
     <1>33, <1>34, <1>35, <1>36, <1>37, <1>38
  DEF Next, Process, Recover

\* There is none at first.
LEMMA StructureInit == Init => Structure
BY AtlasAssumption
DEF AtlasAssumption, Init, Structure, OneJournal, LeftoversJournaled, Progress,
    Undoing, BackupsHadTarget, Journaled, Staging, Moving, Installed, AfterCommit, Undo,
    Recovery

\* However promotions die, fail and are disturbed, at most one journal is on
\* disk: recovering them one after the other is enough.
THEOREM OneJournalCorrect == Spec => []OneJournal
<1>1. ASSUME TypeOK, Structure, [Next]_vars PROVE Structure'
  BY <1>1, StructureStep
<1>2. Structure => OneJournal BY DEF Structure
<1> QED BY <1>1, <1>2, StructureInit, TypeCorrect, PTL DEF Spec

\* ... and every staged copy and every backup belongs to it: recovery finds
\* whatever _rollback_active_transaction has not removed.
THEOREM LeftoversCorrect == Spec => []LeftoversJournaled
<1>1. ASSUME TypeOK, Structure, [Next]_vars PROVE Structure'
  BY <1>1, StructureStep
<1>2. Structure => LeftoversJournaled BY DEF Structure
<1> QED BY <1>1, <1>2, StructureInit, TypeCorrect, PTL DEF Spec

-----------------------------------------------------------------------------
(* The invariant                                                           *)

\* Under Compared every step keeps what the journal needs.
LEMMA IntactStep ==
    ASSUME TypeOK, Structure, Intact, Compared, TypeOK', Structure', [Next]_vars
    PROVE  Intact'
<1> USE AtlasAssumption
    DEF AtlasAssumption, TypeOK, Trees, Journals, Before, Staging,
        Moving, Installed, AfterCommit, Undo, Recovery, disk, call, env, Goto,
        Return, Refuse, Structure, OneJournal, Progress, Undoing,
        BackupsHadTarget, Wrote, Journaled, Undoable, Removes, Restores,
        Refuses, Owned, Unmoved, Supersedes, Untouched, Intact, Compared
<1>1. CASE Begin /\ UNCHANGED env
  BY <1>1 DEF Begin
<1>2. CASE RecoverRefused /\ UNCHANGED env
  BY <1>2 DEF RecoverRefused
<1>3. CASE RecoverNothing /\ UNCHANGED env
  BY <1>3 DEF RecoverNothing
<1>4. CASE (\E t \in Transactions : RecoverOne(t)) /\ UNCHANGED env
  BY <1>4 DEF RecoverOne
<1>5. CASE RecoverTarget /\ UNCHANGED env
  BY <1>5 DEF RecoverTarget, RemoveTarget, Removed
<1>6. CASE RecoverRename /\ UNCHANGED env
  BY <1>6 DEF RecoverRename, Restore
<1>7. CASE RecoverBackup /\ UNCHANGED env
  BY <1>7 DEF RecoverBackup, RemoveBackup, Removed
<1>8. CASE RecoverStage /\ UNCHANGED env
  BY <1>8 DEF RecoverStage, RemoveStage
<1>9. CASE RecoverJournal /\ UNCHANGED env
  BY <1>9 DEF RecoverJournal, UnlinkJournal
<1>10. CASE InspectRefused /\ UNCHANGED env
  BY <1>10 DEF InspectRefused
<1>11. CASE InspectUnchanged /\ UNCHANGED env
  BY <1>11 DEF InspectUnchanged
<1>12. CASE Inspect /\ UNCHANGED env
  BY <1>12 DEF Inspect
<1>13. CASE Initialize /\ UNCHANGED env
  BY <1>13 DEF Initialize, WriteJournal
<1>14. CASE SyncInitialized /\ UNCHANGED env
  BY <1>14 DEF SyncInitialized
<1>15. CASE Copy /\ UNCHANGED env
  BY <1>15 DEF Copy
<1>16. CASE Prepare /\ UNCHANGED env
  BY <1>16 DEF Prepare, WriteJournal
<1>17. CASE RenameBackup /\ UNCHANGED env
  BY <1>17 DEF RenameBackup
<1>18. CASE CheckBackup /\ UNCHANGED env
  BY <1>18 DEF CheckBackup
<1>19. CASE PutBack /\ UNCHANGED env
  BY <1>19 DEF PutBack, Restore
<1>20. CASE BackUp /\ UNCHANGED env
  BY <1>20 DEF BackUp, WriteJournal
<1>21. CASE CheckBefore /\ UNCHANGED env
  BY <1>21 DEF CheckBefore
<1>22. CASE RenameCandidate /\ UNCHANGED env
  BY <1>22 DEF RenameCandidate
<1>23. CASE CheckInstalled /\ UNCHANGED env
  BY <1>23 DEF CheckInstalled
<1>24. CASE Promote /\ UNCHANGED env
  BY <1>24 DEF Promote, WriteJournal
<1>25. CASE Commit /\ UNCHANGED env
  BY <1>25 DEF Commit, WriteJournal
<1>26. CASE SyncCommitted /\ UNCHANGED env
  BY <1>26 DEF SyncCommitted
<1>27. CASE DropBackup /\ UNCHANGED env
  BY <1>27 DEF DropBackup, RemoveBackup, Removed
<1>28. CASE Unlink /\ UNCHANGED env
  BY <1>28 DEF Unlink, UnlinkJournal
<1>29. CASE SyncUnlinked /\ UNCHANGED env
  BY <1>29 DEF SyncUnlinked
<1>30. CASE UndoTarget /\ UNCHANGED env
  BY <1>30 DEF UndoTarget, RemoveTarget, Removed
<1>31. CASE UndoRename /\ UNCHANGED env
  BY <1>31 DEF UndoRename, Restore
<1>32. CASE UndoStage /\ UNCHANGED env
  BY <1>32 DEF UndoStage, RemoveStage
<1>33. CASE UndoJournal /\ UNCHANGED env
  BY <1>33 DEF UndoJournal, UnlinkJournal
<1>34. CASE Fault BY <1>34 DEF Fault
<1>35. CASE Crash
  <2>1. litter' \in BOOLEAN BY <1>35, Zenon DEF Crash
  <2> QED BY <1>35, <2>1 DEF Crash
<1>36. CASE \E e \in Edits : UserEdits(e) BY <1>36 DEF UserEdits
<1>37. CASE \E e \in Edits : LateWrite(e) BY <1>37 DEF LateWrite
<1>38. CASE UNCHANGED vars BY <1>38 DEF vars
<1> HIDE AtlasAssumption DEF Structure, Intact, Compared, TypeOK, Goto, Return, Refuse, env, disk, call
<1> QED
  BY <1>1, <1>2, <1>3, <1>4, <1>5, <1>6, <1>7, <1>8, <1>9, <1>10, <1>11, <1>12,
     <1>13, <1>14, <1>15, <1>16, <1>17, <1>18, <1>19, <1>20, <1>21, <1>22,
     <1>23, <1>24, <1>25, <1>26, <1>27, <1>28, <1>29, <1>30, <1>31, <1>32,
     <1>33, <1>34, <1>35, <1>36, <1>37, <1>38
  DEF Next, Process, Recover

\* At first nothing is journaled.
LEMMA IntactInit == Init => Intact
BY AtlasAssumption
DEF AtlasAssumption, Init, Intact, Journaled, Before, Staging, Moving, Installed,
    Undo, Recovery

\* Whatever step a promotion, its rollback or its recovery dies or fails in,
\* the disk can be read from one journal, provided that the user's changes
\* come where promote_atlas compares.
THEOREM InvCorrect == Compared => (Spec => []Inv)
<1> SUFFICES ASSUME Compared PROVE Spec => []Inv
  OBVIOUS
<1>1. ASSUME Init PROVE Inv
  <2>1. TypeOK
    <3>1. pc \in PCs /\ crashes \in 0..MaxCrashes /\ faults \in 0..MaxFaults
      BY <1>1, AtlasAssumption DEF AtlasAssumption, Init, PCs
    <3> QED BY <1>1, <3>1 DEF Init, TypeOK, Trees
  <2> QED BY <1>1, <2>1, StructureInit, IntactInit DEF Inv, Structure
<1>2. ASSUME Inv, [Next]_vars PROVE Inv'
  BY <1>2, TypeStep, StructureStep, IntactStep DEF Inv, Structure
<1> QED BY <1>1, <1>2, PTL DEF Spec

-----------------------------------------------------------------------------
(* The user's changes                                                      *)

\* Under Compared no step loses an edit.
LEMMA EditsStep == ASSUME Inv, Inv', Compared, EditsKept, [Next]_vars PROVE EditsKept'
<1> USE AtlasAssumption
    DEF AtlasAssumption, TypeOK, Trees, Journals, Before, Staging,
        Moving, Installed, AfterCommit, Undo, Recovery, disk, call, env, Goto,
        Return, Refuse, Inv, OneJournal, Progress, Undoing,
        BackupsHadTarget, Wrote, Journaled, Undoable, Removes, Restores,
        Refuses, Owned, Unmoved, Supersedes, Untouched, Intact, Compared, EditsKept
<1>1. CASE Begin /\ UNCHANGED env
  BY <1>1 DEF Begin
<1>2. CASE RecoverRefused /\ UNCHANGED env
  BY <1>2 DEF RecoverRefused
<1>3. CASE RecoverNothing /\ UNCHANGED env
  BY <1>3 DEF RecoverNothing
<1>4. CASE (\E t \in Transactions : RecoverOne(t)) /\ UNCHANGED env
  BY <1>4 DEF RecoverOne
<1>5. CASE RecoverTarget /\ UNCHANGED env
  BY <1>5 DEF RecoverTarget, RemoveTarget, Removed
<1>6. CASE RecoverRename /\ UNCHANGED env
  BY <1>6 DEF RecoverRename, Restore
<1>7. CASE RecoverBackup /\ UNCHANGED env
  BY <1>7 DEF RecoverBackup, RemoveBackup, Removed
<1>8. CASE RecoverStage /\ UNCHANGED env
  BY <1>8 DEF RecoverStage, RemoveStage
<1>9. CASE RecoverJournal /\ UNCHANGED env
  BY <1>9 DEF RecoverJournal, UnlinkJournal
<1>10. CASE InspectRefused /\ UNCHANGED env
  BY <1>10 DEF InspectRefused
<1>11. CASE InspectUnchanged /\ UNCHANGED env
  BY <1>11 DEF InspectUnchanged
<1>12. CASE Inspect /\ UNCHANGED env
  BY <1>12 DEF Inspect
<1>13. CASE Initialize /\ UNCHANGED env
  BY <1>13 DEF Initialize, WriteJournal
<1>14. CASE SyncInitialized /\ UNCHANGED env
  BY <1>14 DEF SyncInitialized
<1>15. CASE Copy /\ UNCHANGED env
  BY <1>15 DEF Copy
<1>16. CASE Prepare /\ UNCHANGED env
  BY <1>16 DEF Prepare, WriteJournal
<1>17. CASE RenameBackup /\ UNCHANGED env
  BY <1>17 DEF RenameBackup
<1>18. CASE CheckBackup /\ UNCHANGED env
  BY <1>18 DEF CheckBackup
<1>19. CASE PutBack /\ UNCHANGED env
  BY <1>19 DEF PutBack, Restore
<1>20. CASE BackUp /\ UNCHANGED env
  BY <1>20 DEF BackUp, WriteJournal
<1>21. CASE CheckBefore /\ UNCHANGED env
  BY <1>21 DEF CheckBefore
<1>22. CASE RenameCandidate /\ UNCHANGED env
  BY <1>22 DEF RenameCandidate
<1>23. CASE CheckInstalled /\ UNCHANGED env
  BY <1>23 DEF CheckInstalled
<1>24. CASE Promote /\ UNCHANGED env
  BY <1>24 DEF Promote, WriteJournal
<1>25. CASE Commit /\ UNCHANGED env
  BY <1>25 DEF Commit, WriteJournal
<1>26. CASE SyncCommitted /\ UNCHANGED env
  BY <1>26 DEF SyncCommitted
<1>27. CASE DropBackup /\ UNCHANGED env
  BY <1>27 DEF DropBackup, RemoveBackup, Removed
<1>28. CASE Unlink /\ UNCHANGED env
  BY <1>28 DEF Unlink, UnlinkJournal
<1>29. CASE SyncUnlinked /\ UNCHANGED env
  BY <1>29 DEF SyncUnlinked
<1>30. CASE UndoTarget /\ UNCHANGED env
  BY <1>30 DEF UndoTarget, RemoveTarget, Removed
<1>31. CASE UndoRename /\ UNCHANGED env
  BY <1>31 DEF UndoRename, Restore
<1>32. CASE UndoStage /\ UNCHANGED env
  BY <1>32 DEF UndoStage, RemoveStage
<1>33. CASE UndoJournal /\ UNCHANGED env
  BY <1>33 DEF UndoJournal, UnlinkJournal
<1>34. CASE Fault BY <1>34 DEF Fault
<1>35. CASE Crash
  <2>1. litter' \in BOOLEAN BY <1>35, Zenon DEF Crash
  <2> QED BY <1>35, <2>1 DEF Crash
<1>36. CASE \E e \in Edits : UserEdits(e) BY <1>36 DEF UserEdits
<1>37. CASE \E e \in Edits : LateWrite(e) BY <1>37 DEF LateWrite
<1>38. CASE UNCHANGED vars BY <1>38 DEF vars
<1> HIDE AtlasAssumption DEF Inv, EditsKept, Compared, TypeOK, Goto, Return, Refuse, env, disk, call
<1> QED
  BY <1>1, <1>2, <1>3, <1>4, <1>5, <1>6, <1>7, <1>8, <1>9, <1>10, <1>11, <1>12,
     <1>13, <1>14, <1>15, <1>16, <1>17, <1>18, <1>19, <1>20, <1>21, <1>22,
     <1>23, <1>24, <1>25, <1>26, <1>27, <1>28, <1>29, <1>30, <1>31, <1>32,
     <1>33, <1>34, <1>35, <1>36, <1>37, <1>38
  DEF Next, Process, Recover

\* What a user has made of the pages is never lost: it is where they left it, or
\* in the backup a journal leads to.
THEOREM EditsKeptCorrect == Compared => (Spec => []EditsKept)
<1> SUFFICES ASSUME Compared PROVE Spec => []EditsKept
  OBVIOUS
<1>1. Init => EditsKept BY DEF Init, EditsKept
<1>2. ASSUME Inv, Inv', EditsKept, [Next]_vars PROVE EditsKept'
  BY <1>2, EditsStep
<1> QED BY <1>1, <1>2, InvCorrect, PTL DEF Spec

-----------------------------------------------------------------------------
(* Refinement                                                              *)

\* What the recovery of t would make of the pages.
Read(t) == IF ~Supersedes(t) THEN target
           ELSE IF backup[t] # Absent THEN backup[t]
           ELSE IF target \in Edits THEN target ELSE Absent

\* With one journal on disk, its recovery decides what the pages are.
LEMMA PagesRead ==
  /\ OneJournal => \A t \in Journaled : Pages = Read(t)
  /\ OneJournal' => \A t \in Journaled' : Pages' = Read(t)'
<1>1. ASSUME OneJournal, NEW t \in Journaled PROVE Pages = Read(t)
  <2>1. \A s \in Journaled : s = t BY <1>1 DEF OneJournal
  <2>2. CASE Supersedes(t)
    <3>1. (CHOOSE s \in Journaled : Supersedes(s)) = t BY <2>1, <2>2
    <3> QED BY <2>2, <3>1 DEF Pages, Read
  <2>3. CASE ~Supersedes(t) BY <2>1, <2>3 DEF Pages, Read
  <2> QED BY <2>2, <2>3
<1>2. ASSUME OneJournal', NEW t \in Journaled' PROVE Pages' = Read(t)'
  <2>1. \A s \in Journaled' : s = t BY <1>2 DEF OneJournal
  <2>2. CASE Supersedes(t)'
    <3>1. (CHOOSE s \in Journaled' : Supersedes(s)') = t BY <2>1, <2>2
    <3> QED BY <2>2, <3>1 DEF Pages, Read
  <2>3. CASE ~Supersedes(t)' BY <2>1, <2>3 DEF Pages, Read
  <2> QED BY <2>2, <2>3
<1> QED BY <1>1, <1>2

\* With no journal the pages are those of the vault.
LEMMA PagesAtRest ==
  /\ Journaled = {} => Pages = target
  /\ Journaled' = {} => Pages' = target'
BY DEF Pages

\* What leaves vault, backups and journal alone leaves the pages.
LEMMA PagesStand ==
  ASSUME UNCHANGED <<target, backup, journal>> PROVE Pages' = Pages
BY DEF Pages, Journaled, Supersedes, Undoable

\* Committing replaces the pages, the user changes them, and nothing else does.
LEMMA PagesStep == ASSUME Inv, Inv', Compared, [Next]_vars PROVE [Store!Next]_Pages
<1> USE AtlasAssumption, PagesRead, PagesAtRest
    DEF AtlasAssumption, TypeOK, Trees, Journals, Before, Staging,
        Moving, Installed, AfterCommit, Undo, Recovery, disk, call, env, Goto,
        Return, Refuse, Inv, OneJournal, Progress, Undoing,
        BackupsHadTarget, Wrote, Journaled, Undoable, Removes, Restores,
        Unmoved, Supersedes, Untouched, Intact, Compared, Read,
        Store!Next, Store!Replace, Store!Change
<1>1. CASE UNCHANGED <<target, backup, journal>>
  BY <1>1, PagesStand
<1>2. CASE RecoverTarget /\ UNCHANGED env
  BY <1>2 DEF RecoverTarget, RemoveTarget, Removed
<1>3. CASE RecoverRename /\ UNCHANGED env
  BY <1>3 DEF RecoverRename, Restore
<1>4. CASE RecoverBackup /\ UNCHANGED env
  BY <1>4 DEF RecoverBackup, RemoveBackup, Removed
<1>5. CASE RecoverJournal /\ UNCHANGED env
  BY <1>5 DEF RecoverJournal, UnlinkJournal
<1>6. CASE Initialize /\ UNCHANGED env
  BY <1>6 DEF Initialize, WriteJournal
<1>7. CASE Prepare /\ UNCHANGED env
  BY <1>7 DEF Prepare, WriteJournal
<1>8. CASE RenameBackup /\ UNCHANGED env
  BY <1>8 DEF RenameBackup
<1>9. CASE PutBack /\ UNCHANGED env
  BY <1>9 DEF PutBack, Restore
<1>10. CASE BackUp /\ UNCHANGED env
  BY <1>10 DEF BackUp, WriteJournal
<1>11. CASE RenameCandidate /\ UNCHANGED env
  BY <1>11 DEF RenameCandidate
<1>12. CASE Promote /\ UNCHANGED env
  BY <1>12 DEF Promote, WriteJournal
<1>13. CASE Commit /\ UNCHANGED env
  BY <1>13 DEF Commit, WriteJournal
<1>14. CASE DropBackup /\ UNCHANGED env
  BY <1>14 DEF DropBackup, RemoveBackup, Removed
<1>15. CASE Unlink /\ UNCHANGED env
  BY <1>15 DEF Unlink, UnlinkJournal
<1>16. CASE UndoTarget /\ UNCHANGED env
  BY <1>16 DEF UndoTarget, RemoveTarget, Removed
<1>17. CASE UndoRename /\ UNCHANGED env
  BY <1>17 DEF UndoRename, Restore
<1>18. CASE UndoJournal /\ UNCHANGED env
  BY <1>18 DEF UndoJournal, UnlinkJournal
<1>19. CASE \E e \in Edits : UserEdits(e) BY <1>19 DEF UserEdits
<1>20. CASE \E e \in Edits : LateWrite(e) BY <1>20 DEF LateWrite
<1> HIDE AtlasAssumption, PagesRead, PagesAtRest
    DEF Inv, Compared, Store!Next, TypeOK, Before, Staging, Moving, Installed,
        AfterCommit, Undo, Recovery
<1> QED
     BY <1>1, <1>2, <1>3, <1>4, <1>5, <1>6, <1>7, <1>8, <1>9, <1>10, <1>11,
        <1>12, <1>13, <1>14, <1>15, <1>16, <1>17, <1>18, <1>19, <1>20
     DEF Next, Process, Recover, RecoverRefused, RecoverNothing, RecoverOne, Begin,
         RecoverStage, RemoveStage, InspectRefused, InspectUnchanged, Inspect,
         SyncInitialized, Copy, CheckBackup, CheckBefore, CheckInstalled,
         SyncCommitted, SyncUnlinked, UndoStage, Fault, Crash, vars

\* promote_atlas, its rollback and its recovery implement a store whose pages are
\* replaced as a whole, and only while they are AtlasWeaver's.
THEOREM StoreImplemented == Compared => (Spec => ImplementsStore)
<1> SUFFICES ASSUME Compared PROVE Spec => Store!Spec
  BY DEF ImplementsStore
<1>1. Init => Store!Init BY DEF Init, Store!Init, Pages, Journaled
<1>2. ASSUME Inv, Inv', [Next]_vars PROVE [Store!Next]_Pages
  BY <1>2, PagesStep
<1> QED BY <1>1, <1>2, InvCorrect, PTL DEF Spec, Store!Spec

-----------------------------------------------------------------------------
(***************************************************************************)
(* AgentInstall: any number of installers and uninstallers, a user,        *)
(* failures and deaths on one skill directory.  It is another system: no   *)
(* name of this section is one of the section above, and nothing of that   *)
(* one is used here.                                                       *)
(***************************************************************************)

-----------------------------------------------------------------------------
(* What each command knows of the siblings that are its own                *)

\* The statements after which a committed tree is rolled back.
Late == {"sync", "drop", "sync_dropped"}

\* A command keeps to its kind; its siblings are as it left them.
Own(p) ==
  /\ p \in Installers => at[p] \in {"idle", "done", "dead"} \cup Installing \cup RollingBack
  /\ p \in Uninstallers => at[p] \in {"idle", "done", "dead"} \cup Uninstalling
  /\ at[p] \in {"idle", "delegate", "stage", "move", "u_move"} => tree[Aside(p)] = NoTree
  /\ at[p] \in {"move", "verify", "sync_moved", "install"} => tree[Stage(p)] = Shipped(p)
  /\ tree[Stage(p)] # NoTree => tree[Stage(p)].holds \notin Writings
  /\ at[p] \in Late => committed[p]
  /\ committed[p] => at[p] \in Late \cup RollingBack \cup {"done", "dead"}
  /\ committed[p] /\ at[p] \in RollingBack => struck \cap Late # {}
  /\ tree[Failed(p)] # NoTree => struck \cap Late # {}

\* Where the backup is, and that it is what was found.
Backed(p) ==
  /\ at[p] \in {"idle", "delegate", "stage", "move"} => ~moved[p]
  /\ at[p] \in {"verify", "sync_moved", "drop"} => moved[p]
  /\ at[p] \in {"install", "sync"} => (moved[p] <=> expected[p] # NoTree)
  /\ at[p] \in {"sync_moved", "install", "sync", "drop"} /\ moved[p] =>
       OwnedTree(tree[Aside(p)], TRUE) /\ tree[Aside(p)] = expected[p]
  /\ at[p] \in {"u_sync", "u_drop"} => OwnedTree(tree[Aside(p)], FALSE)
  /\ at[p] = "undo" /\ committed[p] /\ struck \cap {"drop", "sync_dropped"} = {} =>
       /\ "sync" \in struck /\ (moved[p] <=> expected[p] # NoTree)
       /\ moved[p] => OwnedTree(tree[Aside(p)], TRUE)

-----------------------------------------------------------------------------
(* A whole skill                                                           *)

\* What KeepsACopy says nothing about.
Exempt ==
  \/ writings # 0 \/ struck \cap {"drop", "sync_dropped"} # {} \/ ~RollsBackToBackup
  \/ \E p \in Uninstallers : at[p] \notin {"idle", "u_move", "u_verify", "u_sync", "u_drop"}

\* The trees that are, or may come, in place when nobody has touched them.
Sound == {NoTree, Foreign(0), Earlier("current"), Earlier("legacy")}
         \cup {Shipped(p) : p \in Installers}

\* ... and they are what lies there, or was found.
Pristine ==
  /\ Skill \in Sound
  /\ \A p \in Commands : tree[Aside(p)] \in Sound /\ expected[p] \in Sound

\* A name whose tree nobody is about to remove.
Spare(n) ==
  \/ n = Place /\ \A p \in Installers : ~(committed[p] /\ at[p] = "undo")
  \/ \E p \in Commands : n = Aside(p) /\ ~(committed[p] /\ at[p] \in {"sync", "drop"})

SafeCopy(n) == Spare(n) /\ Whole(tree[n])

\* There has been a whole skill.
Due == \E p \in Installers : committed[p] \/ Whole(expected[p])

Copied == ~Exempt => Pristine /\ (Due => \E n \in Names : SafeCopy(n))

-----------------------------------------------------------------------------
(* A command nobody disturbs                                               *)

\* The failures after which an answer promises nothing.
Excused == struck \cap ({"drop", "sync_dropped", "u_drop", "u_sync_dropped", "u_back"}
                        \cup RollingBack) # {}

\* What it found is in place until it moves it, then aside; its own tree is in
\* place from the commit to the rollback.
Undisturbed(p) ==
  LET kept_aside == IF moved[p] THEN tree[Aside(p)] = found[p] ELSE found[p] = NoTree IN
  /\ at[p] \in {"delegate", "stage", "move", "u_move"} => Skill = found[p]
  /\ at[p] \in {"verify", "sync_moved", "u_verify", "u_sync", "u_drop"} =>
       Skill = NoTree /\ tree[Aside(p)] = found[p]
  /\ at[p] = "install" => Skill = NoTree /\ kept_aside
  /\ at[p] \in {"sync", "drop"} => Skill = Shipped(p) /\ kept_aside
  /\ at[p] = "sync_dropped" => Skill = Shipped(p)
  /\ at[p] = "u_sync_dropped" => Skill = NoTree

\* ... and a rollback puts back what was found.
Returning(p) ==
  /\ at[p] = "undo" =>
       IF moved[p] THEN tree[Aside(p)] = found[p] /\ (~committed[p] => Skill = NoTree)
       ELSE IF committed[p] THEN found[p] = NoTree ELSE Skill = found[p]
  /\ at[p] = "undo_restore" =>
       IF moved[p] THEN tree[Aside(p)] = found[p] /\ Skill = NoTree ELSE Skill = found[p]
  /\ at[p] \in {"undo_drop", "undo_stage"} => Skill = found[p]
  /\ at[p] = "u_back" => \/ Skill = found[p] /\ tree[Aside(p)] = NoTree
                         \/ Skill = NoTree /\ tree[Aside(p)] = found[p]

Quiet(p) == /\ at[p] # "idle" => expected[p] = found[p]
            /\ alone[p] => Undisturbed(p) /\ (~Excused => Returning(p))

\* The inductive invariant.
SkillInv == /\ AgentTypeOK /\ WritingsKept /\ Copied
            /\ \A p \in Commands : Own(p) /\ Backed(p) /\ Quiet(p)

-----------------------------------------------------------------------------
(* Lemmas about the operators                                              *)

\* The names of the trees are apart.
LEMMA NamesApart ==
  /\ Place \in Names
  /\ \A p \in Commands : /\ {Stage(p), Aside(p), Failed(p)} \subseteq Names \ {Place}
                         /\ Stage(p) # Aside(p) /\ Stage(p) # Failed(p) /\ Aside(p) # Failed(p)
  /\ \A p, q \in Commands : p # q =>
       {Stage(p), Aside(p), Failed(p)} \cap {Stage(q), Aside(q), Failed(q)} = {}
BY DEF Place, Names, Siblings, Stage, Aside, Failed

\* What Put and Rename change.
LEMMA PutAt == ASSUME AgentTypeOK, NEW n \in Names, NEW t, Put(n, t)
               PROVE tree'[n] = t /\ \A m \in Names : m # n => tree'[m] = tree[m]
BY DEF AgentTypeOK, Put

LEMMA RenameAt == ASSUME AgentTypeOK, NEW a \in Names, NEW b \in Names, a # b, Rename(a, b)
                  PROVE /\ tree'[b] = tree[a] /\ tree'[a] = NoTree
                        /\ \A m \in Names : m # a /\ m # b => tree'[m] = tree[m]
BY DEF AgentTypeOK, Rename

\* The trees of the commands and of the user.
LEMMA TreesTyped ==
  /\ \A p \in Installers : Shipped(p) \in SkillTrees
  /\ \A t \in SkillTrees : TornTree(t) \in SkillTrees
  /\ \A w \in Writings : /\ Foreign(w) \in SkillTrees
                          /\ \A t \in SkillTrees : [t EXCEPT !.holds = w] \in SkillTrees
  /\ Earlier("current") \in SkillTrees /\ Earlier("legacy") \in SkillTrees
BY DEF Shipped, SkillTrees, Inodes, Commands, Resources, TornTree, Foreign, Earlier

\* No tree that a package has made holds what the user wrote.
LEMMA NotWritten ==
  /\ \A t \in SkillTrees, b \in BOOLEAN : OwnedTree(t, b) => t.holds \notin Writings
  /\ \A p \in Installers :
              Shipped(p).holds \notin Writings /\ TornTree(Shipped(p)).holds \notin Writings
  /\ \A t \in SkillTrees : TornTree(t).holds \notin Writings
BY AgentAssumption DEF OwnedTree, SkillTrees, Shipped, TornTree, Resources, Commands

\* What a marker of ours vouches for is whole, and so is what is shipped.
LEMMA OwnedWhole == \A t, b : OwnedTree(t, b) => Whole(t)
BY DEF OwnedTree, Whole

LEMMA ShippedWhole == \A p \in Installers : Whole(Shipped(p))
BY AgentAssumption, TreesTyped DEF Whole, Shipped

-----------------------------------------------------------------------------
(* Who moves                                                               *)

\* A step of p's command, or its death.
Step(p) == /\ p \in Commands
           /\ \/ BeginCommand(p) \/ Die(p)
              \/ p \in Installers /\ InstallAgent(p)
              \/ p \in Uninstallers /\ Uninstall(p)

UserSteps == UserAlters \/ UserReplaces

\* Every step is a command's or the user's.
LEMMA NextCases ==
  ASSUME [AgentNext]_agentVars
  PROVE  (\E p \in Commands : Step(p)) \/ UserSteps \/ UNCHANGED agentVars
BY DEF AgentNext, Step, UserSteps, Commands

\* The program counters are apart.
LEMMA Kinds == /\ Active \subseteq AgentPCs /\ {"idle", "done", "dead"} \cap Active = {}
               /\ Active = Installing \cup RollingBack \cup Uninstalling
BY DEF Active, AgentPCs, Installing, RollingBack, Uninstalling

\* A command moves itself alone, and touches only the place and its own
\* siblings; what it does to the place the others witness.
Alike(p, q) == /\ at'[q] = at[q] /\ expected'[q] = expected[q]
               /\ committed'[q] = committed[q] /\ moved'[q] = moved[q]
               /\ answer'[q] = answer[q] /\ found'[q] = found[q]
               /\ \A n \in {Stage(q), Aside(q), Failed(q)} : tree'[n] = tree[n]
               /\ alone'[q] => alone[q] /\ (at[q] \in Active => Skill' = Skill)

\* The commands write nothing of the user's, and a failure is not forgotten.
LEMMA Steady ==
  ASSUME NEW p, Step(p)
  PROVE kept' = kept /\ writings' = writings /\ struck \subseteq struck'
BY DEF Step, BeginCommand, Die, InstallAgent, Delegate, DelegateFailed, Replace,
   MakeStage, StageFailed, MoveAside, NothingToMove, MoveConflict, Verify, SyncMoved,
   Install, InstallConflict, Sync, ClearBackup, DropFailed, SyncDropped, StepFailed,
   Rollback, UndoInstall, UndoRestore, UndoDrop, UndoStaged, UndoFailed, Uninstall,
   Bury, VerifyBuried, SyncBuried, DropBuried, DropBuriedFailed, SyncUninstalled,
   UninstallFailed, Unbury, UnburyFailed, Fail, calm, agentEnv

LEMMA Framing ==
  ASSUME AgentTypeOK, NEW p \in Commands, Step(p), NEW q \in Commands, q # p
  PROVE Alike(p, q)
<1> USE DEF Alike, agentEnv, local, calm, Skill
<1>0. /\ {Stage(q), Aside(q), Failed(q)} \subseteq Names
      /\ {Stage(q), Aside(q), Failed(q)} \cap {Place, Stage(p), Aside(p), Failed(p)} = {}
  BY NamesApart
<1>1. CASE BeginCommand(p)
  BY <1>1 DEF BeginCommand, AgentTypeOK, End, Advance
<1>2. CASE Die(p)
  BY <1>2 DEF Die, AgentTypeOK
<1>3. CASE Delegate(p) \/ DelegateFailed(p) \/ NothingToMove(p) \/ MoveConflict(p)
           \/ Verify(p) \/ SyncMoved(p) \/ InstallConflict(p) \/ Sync(p)
           \/ SyncDropped(p) \/ StepFailed(p)
  BY <1>3 DEF Delegate, DelegateFailed, NothingToMove, MoveConflict, Verify, SyncMoved,
     InstallConflict, Sync, SyncDropped, StepFailed, Fail, AgentTypeOK, End, Advance
<1>4. CASE MakeStage(p) \/ StageFailed(p) \/ ClearBackup(p) \/ DropFailed(p)
           \/ UndoDrop(p) \/ UndoStaged(p)
  BY <1>0, <1>4, NamesApart DEF MakeStage, StageFailed, ClearBackup, DropFailed,
     UndoDrop, UndoStaged, Put, Fail, AgentTypeOK, End, Advance
<1>5. CASE MoveAside(p) \/ Install(p) \/ UndoInstall(p) \/ UndoRestore(p)
  BY <1>0, <1>5, NamesApart DEF MoveAside, Install, UndoInstall, UndoRestore, Rename,
     Witnessed, Disturbed, AgentTypeOK, Advance
<1>6. CASE UndoFailed(p)
  BY <1>0, <1>6, NamesApart DEF UndoFailed, Fail, AgentTypeOK
<1>7. CASE VerifyBuried(p) \/ SyncBuried(p) \/ SyncUninstalled(p)
           \/ UninstallFailed(p) \/ UnburyFailed(p)
  BY <1>7 DEF VerifyBuried, SyncBuried, SyncUninstalled, UninstallFailed, UnburyFailed,
     Fail, AgentTypeOK, End, Advance
<1>8. CASE DropBuried(p) \/ DropBuriedFailed(p)
  BY <1>0, <1>8, NamesApart DEF DropBuried, DropBuriedFailed, Put, Fail, AgentTypeOK,
     Advance
<1>9. CASE Bury(p) \/ Unbury(p)
  BY <1>0, <1>9, NamesApart DEF Bury, Unbury, Rename, Witnessed, Disturbed, AgentTypeOK,
     End, Advance
<1> QED BY <1>1, <1>2, <1>3, <1>4, <1>5, <1>6, <1>7, <1>8, <1>9 DEF Step, InstallAgent,
       Replace, Rollback, Uninstall

-----------------------------------------------------------------------------
(* Types                                                                   *)

\* What the commands find is a tree.
LEMMA InitTyped == ASSUME AgentInit PROVE AgentTypeOK
<1>1. \A t \in {NoTree, Earlier("current"), Earlier("legacy"), Foreign(0)} :
         t \in SkillTrees \cup {NoTree}
  BY AgentAssumption, TreesTyped DEF Writings
<1>2. 0 \in Writings /\ 0 \in 0 .. MaxFailures /\ 0 \in 0 .. MaxEdits /\ 0 \in 0 .. MaxDeaths
  BY AgentAssumption DEF Writings
<1> QED BY <1>1, <1>2 DEF AgentInit, AgentTypeOK, AgentPCs, Answers

\* Only a removal that fails half-way needs to know that there is a tree.
LEMMA SkillTypeStep ==
  ASSUME AgentTypeOK, \A p \in Commands : Own(p) /\ Backed(p), [AgentNext]_agentVars
  PROVE  AgentTypeOK'
<1> USE DEF agentEnv, local, calm, Skill, AgentTypeOK
<1>0. Commands = Installers \cup Uninstallers /\ Writings = 0 .. MaxEdits
  BY DEF Commands, Writings
<1>b. /\ {"idle", "done", "dead", "delegate", "stage", "move", "verify", "sync_moved", "install",
          "sync", "drop", "sync_dropped", "undo", "undo_restore", "undo_drop", "undo_stage",
          "u_move", "u_verify", "u_sync", "u_drop", "u_sync_dropped", "u_back"} \subseteq AgentPCs
      /\ {"none", "refused", "already_current", "installed", "uninstalled", "failed"} \subseteq Answers
  BY DEF AgentPCs, Answers, Active, Installing, RollingBack, Uninstalling
<1>d. ASSUME NEW p \in Commands, Die(p) PROVE AgentTypeOK'
  BY AgentAssumption, <1>b, <1>d DEF Die
<1> DEFINE Safe == /\ tree' \in [Names -> SkillTrees \cup {NoTree}] /\ at' \in [Commands -> AgentPCs]
                   /\ committed' \in [Commands -> BOOLEAN] /\ moved' \in [Commands -> BOOLEAN]
                   /\ answer' \in [Commands -> Answers] /\ alone' \in [Commands -> BOOLEAN]
                   /\ struck' \subseteq Active /\ failures' \in 0 .. MaxFailures
                   /\ UNCHANGED <<expected, found, agentEnv>>
<1>f. ASSUME NEW p \in Commands, Fail(p)
      PROVE struck' \subseteq Active /\ failures' \in 0 .. MaxFailures
  BY AgentAssumption, <1>f DEF Fail
<1>t. \A n \in Names, t \in SkillTrees \cup {NoTree} :
         Put(n, t) => tree' \in [Names -> SkillTrees \cup {NoTree}]
  BY DEF Put
<1>r. \A a, b \in Names : Rename(a, b) => tree' \in [Names -> SkillTrees \cup {NoTree}]
  BY DEF Rename
<1>g. \A p \in Commands, k, l \in AgentPCs : Advance(p, k, l) => at' \in [Commands -> AgentPCs]
  BY DEF Advance
<1>e. \A p \in Commands, k \in AgentPCs, a \in Answers :
         End(p, k, a) => at' \in [Commands -> AgentPCs] /\ answer' \in [Commands -> Answers]
  BY <1>b DEF End, Advance
<1>1. ASSUME NEW p \in Commands, BeginCommand(p) PROVE AgentTypeOK'
  <2>1. Skill \in SkillTrees \cup {NoTree}
    BY NamesApart
  <2>2. at' \in [Commands -> AgentPCs] /\ answer' \in [Commands -> Answers]
    BY <1>b, <1>g, <1>e, <1>1 DEF BeginCommand
  <2>3. /\ expected' \in [Commands -> SkillTrees \cup {NoTree}]
        /\ found' \in [Commands -> SkillTrees \cup {NoTree}]
    BY <1>1, <2>1 DEF BeginCommand
  <2> QED BY <1>1, <2>2, <2>3 DEF BeginCommand
<1>w. \A p \in Commands : Witnessed(p) => alone' \in [Commands -> BOOLEAN]
  BY DEF Witnessed, Disturbed
<1>2. ASSUME NEW p \in Installers, InstallAgent(p) PROVE Safe
  <2>0. p \in Commands /\ {Place, Stage(p), Aside(p), Failed(p)} \subseteq Names
    BY <1>0, NamesApart
  <2>1. CASE Delegate(p) \/ NothingToMove(p) \/ MoveConflict(p) \/ Verify(p) \/ SyncMoved(p)
             \/ InstallConflict(p) \/ Sync(p) \/ SyncDropped(p)
    BY <2>0, <2>1, <1>b, <1>g, <1>e DEF Delegate, NothingToMove, MoveConflict, Verify,
       SyncMoved, InstallConflict, Sync, SyncDropped
  <2>2. CASE DelegateFailed(p) \/ StepFailed(p)
    BY <2>0, <2>2, <1>b, <1>g, <1>e, <1>f DEF DelegateFailed, StepFailed
  <2>3. CASE MakeStage(p) \/ UndoStaged(p) \/ UndoDrop(p) \/ ClearBackup(p)
    BY <2>0, <2>3, <1>b, <1>g, <1>e, <1>t, TreesTyped DEF MakeStage, UndoStaged,
       UndoDrop, ClearBackup
  <2>4. CASE StageFailed(p)
    <3>1. TornTree(Shipped(p)) \in SkillTrees
      BY TreesTyped
    <3> QED BY <2>0, <2>4, <1>b, <1>g, <1>e, <1>f, <1>t, <3>1 DEF StageFailed
  <2>5. CASE MoveAside(p) \/ Install(p) \/ UndoInstall(p) \/ UndoRestore(p)
    BY <2>0, <2>5, <1>b, <1>g, <1>e, <1>r, <1>w DEF MoveAside, Install, UndoInstall,
       UndoRestore
  <2>6. CASE DropFailed(p)
    <3>1. tree[Aside(p)] \in SkillTrees /\ TornTree(tree[Aside(p)]) \in SkillTrees
      BY <2>0, <2>6, TreesTyped DEF DropFailed, Advance, Backed, OwnedTree
    <3> QED BY <2>0, <2>6, <1>b, <1>g, <1>e, <1>f, <1>t, <3>1 DEF DropFailed
  <2>7. CASE UndoFailed(p)
    <3>1. PICK s \in {NoTree, tree[Stage(p)]}, f \in SkillTrees \cup {NoTree} :
                 tree' = [tree EXCEPT ![Stage(p)] = s, ![Failed(p)] = f]
      BY <2>0, <2>7, TreesTyped DEF UndoFailed
    <3> QED BY <2>0, <2>7, <1>b, <1>g, <1>e, <1>f, <3>1 DEF UndoFailed
  <2> QED BY <1>2, <2>1, <2>2, <2>3, <2>4, <2>5, <2>6, <2>7 DEF InstallAgent, Replace,
         Rollback
<1>3. ASSUME NEW p \in Uninstallers, Uninstall(p) PROVE Safe
  <2>0. p \in Commands /\ {Place, Stage(p), Aside(p), Failed(p)} \subseteq Names
    BY <1>0, NamesApart
  <2>1. CASE VerifyBuried(p) \/ SyncBuried(p) \/ SyncUninstalled(p)
    BY <2>0, <2>1, <1>b, <1>g, <1>e DEF VerifyBuried, SyncBuried, SyncUninstalled
  <2>2. CASE UninstallFailed(p) \/ UnburyFailed(p)
    BY <2>0, <2>2, <1>b, <1>g, <1>e, <1>f DEF UninstallFailed, UnburyFailed
  <2>3. CASE DropBuried(p)
    BY <2>0, <2>3, <1>b, <1>g, <1>e, <1>t DEF DropBuried
  <2>4. CASE DropBuriedFailed(p)
    <3>1. tree[Aside(p)] \in SkillTrees /\ TornTree(tree[Aside(p)]) \in SkillTrees
      BY <2>0, <2>4, TreesTyped DEF DropBuriedFailed, Advance, Backed, OwnedTree
    <3> QED BY <2>0, <2>4, <1>b, <1>g, <1>e, <1>f, <1>t, <3>1 DEF DropBuriedFailed
  <2>5. CASE Bury(p) \/ Unbury(p)
    BY <2>0, <2>5, <1>b, <1>g, <1>e, <1>r, <1>w DEF Bury, Unbury
  <2> QED BY <1>3, <2>1, <2>2, <2>3, <2>4, <2>5 DEF Uninstall
<1>4. ASSUME UserSteps PROVE AgentTypeOK'
  <2>1. writings + 1 \in Writings /\ writings + 1 \in 0 .. MaxEdits
    BY AgentAssumption, <1>4, <1>0 DEF UserSteps, UserAlters, UserReplaces, UserMay
  <2>2. PICK t \in SkillTrees : UserLeaves(t) /\ t.holds \in Writings
    <3>1. CASE UserAlters
      BY <1>4, <3>1, <2>1, TreesTyped, NamesApart DEF UserAlters, SkillTrees
    <3>2. CASE UserReplaces
      BY <1>4, <3>2, <2>1, TreesTyped DEF UserReplaces, Foreign
    <3> QED BY <1>4, <3>1, <3>2 DEF UserSteps
  <2>3. tree' \in [Names -> SkillTrees \cup {NoTree}]
    BY <2>2, <1>t, NamesApart DEF UserLeaves
  <2> QED BY <2>1, <2>2, <2>3 DEF UserLeaves
<1>5. ASSUME UNCHANGED agentVars PROVE AgentTypeOK'
  BY <1>5 DEF agentVars
<1> QED BY <1>1, <1>d, <1>2, <1>3, <1>4, <1>5 DEF AgentNext, UserSteps

-----------------------------------------------------------------------------
(* A command knows of its siblings whatever the others do                  *)

\* What a command relies on outlives the steps of another.
LEMMA OthersKeep ==
  ASSUME AgentTypeOK, NEW p \in Commands, Step(p), NEW q \in Commands, q # p,
         Own(q), Backed(q), Quiet(q)
  PROVE Own(q)' /\ Backed(q)' /\ Quiet(q)'
<1>1. Alike(p, q) /\ struck \subseteq struck'
  BY Framing, Steady
<1>2. Own(q)'
  BY <1>1 DEF Own, Alike, Shipped
<1>3. Backed(q)'
  BY <1>1 DEF Backed, Alike, OwnedTree
<1>4. Quiet(q)'
  <2>1. CASE at[q] \in Active
    BY <1>1, <2>1 DEF Quiet, Undisturbed, Returning, Excused, Alike, Shipped
  <2>2. CASE at[q] \notin Active
    BY <1>1, <2>2, Kinds DEF Quiet, Undisturbed, Returning, Alike, Installing,
       RollingBack, Uninstalling
  <2> QED BY <2>1, <2>2
<1> QED BY <1>2, <1>3, <1>4

\* ... and what the user does in place.
LEMMA UserApart ==
  ASSUME AgentTypeOK, UserSteps, NEW q \in Commands, Own(q), Backed(q), Quiet(q)
  PROVE Own(q)' /\ Backed(q)' /\ Quiet(q)'
<1>1. /\ UNCHANGED <<at, expected, committed, moved, answer, found, struck>>
      /\ \A n \in {Stage(q), Aside(q), Failed(q)} : tree'[n] = tree[n]
      /\ alone'[q] => at[q] \notin Active
  BY NamesApart DEF UserSteps, UserAlters, UserReplaces, UserLeaves, Put, AgentTypeOK,
     local, calm
<1>2. Own(q)' /\ Backed(q)'
  BY <1>1 DEF Own, Backed, OwnedTree, Shipped
<1>3. Quiet(q)'
  BY <1>1, Kinds DEF Quiet, Undisturbed, Returning, Installing, RollingBack, Uninstalling
<1> QED BY <1>2, <1>3

-----------------------------------------------------------------------------
(* ... and by what it does itself                                          *)

\* The first step, and the last.
LEMMA OwnBegin == ASSUME AgentTypeOK, NEW p \in Commands, BeginCommand(p) \/ Die(p),
                         Own(p), Backed(p), Quiet(p)
                  PROVE Own(p)' /\ Backed(p)' /\ Quiet(p)'
<1>1. CASE BeginCommand(p)
  <2>1. /\ UNCHANGED <<tree, committed, moved, alone, struck>>
        /\ expected'[p] = Skill /\ found'[p] = Skill /\ at[p] = "idle"
        /\ at'[p] \in {"done", "delegate", "u_move"}
        /\ p \in Installers => at'[p] # "u_move"
        /\ p \notin Installers => at'[p] # "delegate"
    BY <1>1 DEF BeginCommand, End, Advance, AgentTypeOK, calm
  <2>2. p \in Uninstallers => p \notin Installers
    BY AgentAssumption
  <2>3. Own(p)'
    BY <2>1, <2>2 DEF Own, Shipped, Installing, Uninstalling, RollingBack, Late, Commands
  <2>4. Backed(p)'
    BY <2>1 DEF Own, Backed
  <2>5. Quiet(p)'
    BY <2>1 DEF Own, Quiet, Skill, Undisturbed, Returning
  <2> QED BY <2>3, <2>4, <2>5
<1>2. CASE Die(p)
  <2>1. /\ UNCHANGED <<tree, committed, moved, alone, struck, expected, found>>
        /\ at'[p] = "dead" /\ at[p] \in Active
    BY <1>2 DEF Die, AgentTypeOK, local, calm
  <2>2. Own(p)'
    BY <2>1 DEF Own, Shipped, Installing, Uninstalling, RollingBack, Late, Commands
  <2>3. Backed(p)'
    BY <2>1 DEF Backed
  <2>4. Quiet(p)'
    BY <2>1, Kinds DEF Quiet, Undisturbed, Returning
  <2> QED BY <2>2, <2>3, <2>4
<1> QED BY <1>1, <1>2

\* The steps of an installation and of its rollback.
LEMMA OwnInstall ==
  ASSUME AgentTypeOK, NEW p \in Installers, InstallAgent(p), Own(p), Backed(p), Quiet(p)
  PROVE Own(p)' /\ Backed(p)' /\ Quiet(p)'
<1> USE DEF agentEnv, local, calm, Skill, Own, Backed, Quiet, Undisturbed, Returning, Shipped, OwnedTree, Advance,
        End, Installing, RollingBack, Late
<1>0. /\ p \in Commands /\ p \notin Uninstallers
      /\ {Place, Stage(p), Aside(p), Failed(p)} \subseteq Names
      /\ Stage(p) # Aside(p) /\ Stage(p) # Failed(p) /\ Aside(p) # Failed(p)
      /\ Place \notin {Stage(p), Aside(p), Failed(p)}
  BY NamesApart, AgentAssumption DEF Commands
<1>1. CASE Delegate(p)
  <2>1. /\ at[p] = "delegate" /\ at'[p] \in {"stage", "done"}
        /\ UNCHANGED <<tree, expected, committed, moved, alone, found, struck>>
    BY <1>0, <1>1 DEF Delegate, AgentTypeOK
  <2>2. Own(p)'
    BY <1>0, <2>1
  <2>3. Backed(p)'
    BY <2>1
  <2>4. Quiet(p)'
    BY <2>1
  <2> QED BY <2>2, <2>3, <2>4
<1>2. CASE MoveConflict(p)
  <2>1. Own(p)'
    BY <1>0, <1>2 DEF MoveConflict, Excused, AgentTypeOK
  <2>2. Backed(p)'
    BY <1>0, <1>2 DEF MoveConflict, Excused, AgentTypeOK
  <2>3. Quiet(p)'
    BY <1>0, <1>2 DEF MoveConflict, Excused, AgentTypeOK
  <2> QED BY <2>1, <2>2, <2>3
<1>3. CASE NothingToMove(p) \/ InstallConflict(p)
  <2>1. Own(p)'
    BY <1>0, <1>3 DEF NothingToMove, InstallConflict, Excused, AgentTypeOK
  <2>2. Backed(p)'
    BY <1>0, <1>3 DEF NothingToMove, InstallConflict, Excused, AgentTypeOK
  <2>3. Quiet(p)'
    BY <1>0, <1>3 DEF NothingToMove, InstallConflict, Excused, AgentTypeOK
  <2> QED BY <2>1, <2>2, <2>3
<1>4. CASE Verify(p)
  <2>1. Own(p)'
    BY <1>0, <1>4 DEF Verify, Excused, AgentTypeOK
  <2>2. Backed(p)'
    BY <1>0, <1>4 DEF Verify, Excused, AgentTypeOK
  <2>3. Quiet(p)'
    BY <1>0, <1>4 DEF Verify, Excused, AgentTypeOK
  <2> QED BY <2>1, <2>2, <2>3
<1>5. CASE Sync(p) \/ SyncDropped(p)
  <2>1. Own(p)'
    BY <1>0, <1>5 DEF Sync, SyncDropped, AgentTypeOK
  <2>2. Backed(p)'
    BY <1>0, <1>5 DEF Sync, SyncDropped, AgentTypeOK
  <2>3. Quiet(p)'
    BY <1>0, <1>5 DEF Sync, SyncDropped, AgentTypeOK
  <2> QED BY <2>1, <2>2, <2>3
<1>6. CASE SyncMoved(p)
  <2>1. Own(p)'
    BY <1>0, <1>6 DEF SyncMoved, AgentTypeOK
  <2>2. Backed(p)'
    BY <1>0, <1>6 DEF SyncMoved, AgentTypeOK
  <2>3. Quiet(p)'
    BY <1>0, <1>6 DEF SyncMoved, AgentTypeOK
  <2> QED BY <2>1, <2>2, <2>3
<1>7. CASE DelegateFailed(p) \/ StepFailed(p)
  <2>1. Own(p)'
    BY <1>0, <1>7 DEF DelegateFailed, StepFailed, Fail, Excused, AgentTypeOK
  <2>2. Backed(p)'
    BY <1>0, <1>7 DEF DelegateFailed, StepFailed, Fail, Excused, AgentTypeOK
  <2>3. Quiet(p)'
    BY <1>0, <1>7 DEF DelegateFailed, StepFailed, Fail, Excused, AgentTypeOK
  <2> QED BY <2>1, <2>2, <2>3
<1>8. CASE MakeStage(p) \/ StageFailed(p)
  <2>1. Own(p)'
    BY NotWritten, <1>0, <1>8 DEF MakeStage, StageFailed, Put, Fail, AgentTypeOK
  <2>2. Backed(p)'
    BY NotWritten, <1>0, <1>8 DEF MakeStage, StageFailed, Put, Fail, AgentTypeOK
  <2>3. Quiet(p)'
    BY NotWritten, <1>0, <1>8 DEF MakeStage, StageFailed, Put, Fail, AgentTypeOK
  <2> QED BY <2>1, <2>2, <2>3
<1>9. CASE MoveAside(p) \/ Install(p)
  <2>1. Own(p)'
    BY <1>0, <1>9 DEF MoveAside, Install, Rename, Witnessed, AgentTypeOK
  <2>2. Backed(p)'
    BY <1>0, <1>9 DEF MoveAside, Install, Rename, Witnessed, AgentTypeOK
  <2>3. Quiet(p)'
    BY <1>0, <1>9 DEF MoveAside, Install, Rename, Witnessed, AgentTypeOK
  <2> QED BY <2>1, <2>2, <2>3
<1>10. CASE ClearBackup(p)
  <2>1. Own(p)'
    BY <1>0, <1>10 DEF ClearBackup, Put, Excused, AgentTypeOK
  <2>2. Backed(p)'
    BY <1>0, <1>10 DEF ClearBackup, Put, Excused, AgentTypeOK
  <2>3. Quiet(p)'
    BY <1>0, <1>10 DEF ClearBackup, Put, Excused, AgentTypeOK
  <2> QED BY <2>1, <2>2, <2>3
<1>11. CASE DropFailed(p)
  <2>1. Own(p)'
    BY <1>0, <1>11 DEF DropFailed, Put, Fail, Excused, AgentTypeOK
  <2>2. Backed(p)'
    BY <1>0, <1>11 DEF DropFailed, Put, Fail, Excused, AgentTypeOK
  <2>3. Quiet(p)'
    BY <1>0, <1>11 DEF DropFailed, Put, Fail, Excused, AgentTypeOK
  <2> QED BY <2>1, <2>2, <2>3
<1>12. CASE UndoInstall(p)
  <2>1. Own(p)'
    BY <1>0, <1>12 DEF UndoInstall, Rename, Witnessed, Excused, AgentTypeOK
  <2>2. Backed(p)'
    BY <1>0, <1>12 DEF UndoInstall, Rename, Witnessed, Excused, AgentTypeOK
  <2>3. Quiet(p)'
    BY <1>0, <1>12 DEF UndoInstall, Rename, Witnessed, Excused, AgentTypeOK
  <2> QED BY <2>1, <2>2, <2>3
<1>13. CASE UndoRestore(p)
  <2>1. Own(p)'
    BY <1>0, <1>13 DEF UndoRestore, CanRename, Rename, Witnessed, Excused, AgentTypeOK
  <2>2. Backed(p)'
    BY <1>0, <1>13 DEF UndoRestore, CanRename, Rename, Witnessed, Excused, AgentTypeOK
  <2>3. Quiet(p)'
    BY <1>0, <1>13 DEF UndoRestore, CanRename, Rename, Witnessed, Excused, AgentTypeOK
  <2> QED BY <2>1, <2>2, <2>3
<1>14. CASE UndoDrop(p) \/ UndoStaged(p)
  <2>1. Own(p)'
    BY <1>0, <1>14 DEF UndoDrop, UndoStaged, Put, Excused, AgentTypeOK
  <2>2. Backed(p)'
    BY <1>0, <1>14 DEF UndoDrop, UndoStaged, Put, Excused, AgentTypeOK
  <2>3. Quiet(p)'
    BY <1>0, <1>14 DEF UndoDrop, UndoStaged, Put, Excused, AgentTypeOK
  <2> QED BY <2>1, <2>2, <2>3
<1>15. CASE UndoFailed(p)
  <2>1. Own(p)'
    BY <1>0, <1>15 DEF UndoFailed, Fail, AgentTypeOK
  <2>2. Backed(p)'
    BY <1>0, <1>15 DEF UndoFailed, Fail, AgentTypeOK
  <2>3. Quiet(p)'
    BY <1>0, <1>15 DEF UndoFailed, Fail, AgentTypeOK
  <2> QED BY <2>1, <2>2, <2>3
<1> QED BY <1>1, <1>2, <1>3, <1>4, <1>5, <1>6, <1>7, <1>8, <1>9, <1>10, <1>11, <1>12,
       <1>13, <1>14, <1>15 DEF InstallAgent, Replace, Rollback

\* The steps of an uninstallation.
LEMMA OwnUninstall ==
  ASSUME AgentTypeOK, NEW p \in Uninstallers, Uninstall(p), Own(p), Backed(p), Quiet(p)
  PROVE Own(p)' /\ Backed(p)' /\ Quiet(p)'
<1> USE DEF agentEnv, local, calm, Skill, Own, Backed, Quiet, Undisturbed, Returning, Shipped, OwnedTree, Advance,
        End, Uninstalling, RollingBack, Late
<1>0. /\ p \in Commands /\ p \notin Installers
      /\ {Place, Stage(p), Aside(p), Failed(p)} \subseteq Names
      /\ Stage(p) # Aside(p) /\ Stage(p) # Failed(p) /\ Aside(p) # Failed(p)
      /\ Place \notin {Stage(p), Aside(p), Failed(p)}
  BY NamesApart, AgentAssumption DEF Commands
<1>1. CASE VerifyBuried(p) \/ SyncBuried(p) \/ SyncUninstalled(p)
  <2>1. Own(p)'
    BY <1>0, <1>1 DEF VerifyBuried, SyncBuried, SyncUninstalled, Excused, OwnedTree,
       AgentTypeOK
  <2>2. Backed(p)'
    BY <1>0, <1>1 DEF VerifyBuried, SyncBuried, SyncUninstalled, Excused, OwnedTree,
       AgentTypeOK
  <2>3. Quiet(p)'
    BY <1>0, <1>1 DEF VerifyBuried, SyncBuried, SyncUninstalled, Excused, OwnedTree,
       AgentTypeOK
  <2> QED BY <2>1, <2>2, <2>3
<1>2. CASE UninstallFailed(p) \/ UnburyFailed(p)
  <2>1. Own(p)'
    BY <1>0, <1>2 DEF UninstallFailed, UnburyFailed, Fail, Excused, AgentTypeOK
  <2>2. Backed(p)'
    BY <1>0, <1>2 DEF UninstallFailed, UnburyFailed, Fail, Excused, AgentTypeOK
  <2>3. Quiet(p)'
    BY <1>0, <1>2 DEF UninstallFailed, UnburyFailed, Fail, Excused, AgentTypeOK
  <2> QED BY <2>1, <2>2, <2>3
<1>3. CASE DropBuried(p) \/ DropBuriedFailed(p)
  <2>1. Own(p)'
    BY <1>0, <1>3 DEF DropBuried, DropBuriedFailed, Put, Fail, Excused, AgentTypeOK
  <2>2. Backed(p)'
    BY <1>0, <1>3 DEF DropBuried, DropBuriedFailed, Put, Fail, Excused, AgentTypeOK
  <2>3. Quiet(p)'
    BY <1>0, <1>3 DEF DropBuried, DropBuriedFailed, Put, Fail, Excused, AgentTypeOK
  <2> QED BY <2>1, <2>2, <2>3
<1>4. CASE Bury(p)
  <2>1. Own(p)'
    BY <1>0, <1>4 DEF Bury, Rename, Witnessed, Excused, AgentTypeOK
  <2>2. Backed(p)'
    BY <1>0, <1>4 DEF Bury, Rename, Witnessed, Excused, AgentTypeOK
  <2>3. Quiet(p)'
    BY <1>0, <1>4 DEF Bury, Rename, Witnessed, Excused, AgentTypeOK
  <2> QED BY <2>1, <2>2, <2>3
<1>5. CASE Unbury(p)
  <2>1. Own(p)'
    BY <1>0, <1>5 DEF Unbury, CanRename, Rename, Witnessed, Excused, AgentTypeOK
  <2>2. Backed(p)'
    BY <1>0, <1>5 DEF Unbury, CanRename, Rename, Witnessed, Excused, AgentTypeOK
  <2>3. Quiet(p)'
    BY <1>0, <1>5 DEF Unbury, CanRename, Rename, Witnessed, Excused, AgentTypeOK
  <2> QED BY <2>1, <2>2, <2>3
<1> QED BY <1>1, <1>2, <1>3, <1>4, <1>5 DEF Uninstall

\* The three together, for every command.
LEMMA CommandStep ==
  ASSUME AgentTypeOK, \A p \in Commands : Own(p) /\ Backed(p) /\ Quiet(p), [AgentNext]_agentVars
  PROVE \A p \in Commands : Own(p)' /\ Backed(p)' /\ Quiet(p)'
<1>1. ASSUME NEW p \in Commands, Step(p), NEW q \in Commands
      PROVE  Own(q)' /\ Backed(q)' /\ Quiet(q)'
  <2>1. CASE q = p
    BY <1>1, <2>1, OwnBegin, OwnInstall, OwnUninstall DEF Step
  <2>2. CASE q # p
    BY <1>1, <2>2, OthersKeep
  <2> QED BY <2>1, <2>2
<1>2. CASE UserSteps
  BY <1>2, UserApart
<1>3. CASE UNCHANGED agentVars
  BY <1>3 DEF agentVars, Own, Backed, Quiet, Undisturbed, Returning, Excused, Skill,
     Shipped, OwnedTree
<1> QED BY <1>1, <1>2, <1>3, NextCases

-----------------------------------------------------------------------------
(* What the user wrote                                                     *)

\* A name holds it.
Lies(w) == \E n \in Names : tree[n] # NoTree /\ tree[n].holds = w

\* Nothing is lost by writing over a name that holds nothing of the user's.
LEMMA PutKeeps ==
  ASSUME AgentTypeOK, NEW n \in Names, NEW t, Put(n, t), NEW w \in Writings, Lies(w),
         tree[n] = NoTree \/ tree[n].holds \notin Writings
  PROVE Lies(w)'
BY PutAt DEF Lies

\* ... nor by a rename onto a free name.
LEMMA RenameKeeps ==
  ASSUME AgentTypeOK, NEW a \in Names, NEW b \in Names, a # b, Rename(a, b), tree[b] = NoTree,
         NEW w, Lies(w)
  PROVE Lies(w)'
BY RenameAt DEF Lies

\* No command loses what the user wrote, until it rolls back a committed tree.
LEMMA CommandKeeps ==
  ASSUME AgentTypeOK, NEW p \in Commands, Step(p), Own(p), Backed(p), struck' \cap Late = {},
         NEW w \in Writings, Lies(w)
  PROVE Lies(w)'
<1> USE DEF Skill, Advance, End
<1>0. /\ {Place, Stage(p), Aside(p), Failed(p)} \subseteq Names
      /\ Stage(p) # Aside(p) /\ Stage(p) # Failed(p) /\ Aside(p) # Failed(p)
      /\ Place \notin {Stage(p), Aside(p), Failed(p)}
  BY NamesApart
<1>1. struck \cap Late = {}
  BY Steady
<1>s. \A t : Put(Stage(p), t) => Lies(w)'
  BY <1>0, PutKeeps DEF Own
<1>f. \A t : Put(Failed(p), t) => Lies(w)'
  BY <1>0, <1>1, PutKeeps DEF Own
<1>a. \A t : Put(Aside(p), t) /\ at[p] \in {"drop", "u_drop"} => Lies(w)'
  <2>1. tree[Aside(p)] \in SkillTrees \cup {NoTree}
    BY <1>0 DEF AgentTypeOK
  <2>2. at[p] \in {"drop", "u_drop"} => tree[Aside(p)].holds \notin Writings
    BY <2>1, NotWritten DEF Backed, OwnedTree
  <2> QED BY <1>0, <2>2, PutKeeps
<1>u. UNCHANGED tree => Lies(w)'
  BY DEF Lies
<1>2. CASE BeginCommand(p) \/ Die(p)
  BY <1>2, <1>u DEF BeginCommand, Die
<1>3. CASE p \in Installers /\ (Delegate(p) \/ DelegateFailed(p))
  BY <1>3, <1>u DEF Delegate, DelegateFailed
<1>4. CASE p \in Installers /\ Replace(p)
  <2>1. CASE MakeStage(p) \/ StageFailed(p)
    BY <2>1, <1>s DEF MakeStage, StageFailed
  <2>2. CASE NothingToMove(p) \/ MoveConflict(p) \/ Verify(p) \/ SyncMoved(p)
             \/ InstallConflict(p) \/ Sync(p) \/ SyncDropped(p) \/ StepFailed(p)
    BY <2>2, <1>u DEF NothingToMove, MoveConflict, Verify, SyncMoved, InstallConflict,
       Sync, SyncDropped, StepFailed
  <2>3. CASE MoveAside(p)
    BY <2>3, <1>0, RenameKeeps DEF MoveAside, Own
  <2>4. CASE Install(p)
    BY <2>4, <1>0, RenameKeeps DEF Install, CanRename
  <2>5. CASE ClearBackup(p) \/ DropFailed(p)
    BY <2>5, <1>a DEF ClearBackup, DropFailed
  <2> QED BY <1>4, <2>1, <2>2, <2>3, <2>4, <2>5 DEF Replace
<1>5. CASE p \in Installers /\ Rollback(p)
  <2>1. CASE UndoInstall(p)
    BY <2>1, <1>1, <1>u DEF UndoInstall, Own, RollingBack
  <2>2. CASE UndoRestore(p)
    BY <2>2, <1>0, <1>u, RenameKeeps DEF UndoRestore, CanRename
  <2>3. CASE UndoDrop(p) \/ UndoStaged(p)
    BY <2>3, <1>f, <1>s DEF UndoDrop, UndoStaged
  <2>4. CASE UndoFailed(p)
    <3>1. tree[Failed(p)] = NoTree
      BY <1>1 DEF Own
    <3>2. \A n \in Names : n # Stage(p) => tree'[n] = tree[n]
      BY <2>4, <1>0, <3>1 DEF UndoFailed, AgentTypeOK
    <3> QED BY <3>2 DEF Lies, Own
  <2> QED BY <1>5, <2>1, <2>2, <2>3, <2>4 DEF Rollback
<1>6. CASE p \in Uninstallers /\ Uninstall(p)
  <2>1. CASE VerifyBuried(p) \/ SyncBuried(p) \/ SyncUninstalled(p) \/ UninstallFailed(p)
             \/ UnburyFailed(p)
    BY <2>1, <1>u DEF VerifyBuried, SyncBuried, SyncUninstalled, UninstallFailed,
       UnburyFailed
  <2>2. CASE DropBuried(p) \/ DropBuriedFailed(p)
    BY <2>2, <1>a DEF DropBuried, DropBuriedFailed
  <2>3. CASE Bury(p)
    BY <2>3, <1>0, <1>u, RenameKeeps DEF Bury, Own
  <2>4. CASE Unbury(p)
    BY <2>4, <1>0, <1>u, RenameKeeps DEF Unbury, CanRename
  <2> QED BY <1>6, <2>1, <2>2, <2>3, <2>4 DEF Uninstall
<1> QED BY <1>2, <1>3, <1>4, <1>5, <1>6 DEF Step, InstallAgent

\* The user overwrites nothing but what lies in place.
LEMMA UserKeeps ==
  ASSUME AgentTypeOK, UserSteps, NEW w \in kept', \A v \in kept : Lies(v)
  PROVE Lies(w)'
<1>1. PICK t : UserLeaves(t) /\ t # NoTree
  <2>1. \A n \in Writings : Foreign(n) # NoTree
    BY AgentAssumption, TreesTyped
  <2>2. writings + 1 \in Writings
    BY AgentAssumption DEF UserSteps, UserAlters, UserReplaces, UserMay, AgentTypeOK,
       Writings
  <2>3. Skill # NoTree => [Skill EXCEPT !.holds = writings + 1] # NoTree
    BY <2>2, AgentAssumption, NamesApart, TreesTyped DEF AgentTypeOK, Skill
  <2> QED BY <2>1, <2>2, <2>3 DEF UserSteps, UserAlters, UserReplaces
<1>2. tree'[Place] = t /\ \A n \in Names : n # Place => tree'[n] = tree[n]
  BY <1>1, NamesApart, PutAt DEF UserLeaves
<1>3. CASE w = t.holds
  BY <1>1, <1>2, <1>3, NamesApart DEF Lies
<1>4. CASE w # t.holds
  <2>1. w \in kept /\ ~(Skill # NoTree /\ Skill.holds = w)
    BY <1>1, <1>4 DEF UserLeaves
  <2> QED BY <1>2, <2>1 DEF Lies, Skill
<1> QED BY <1>3, <1>4

\* So every step keeps what the user wrote.
LEMMA WritingsStep ==
  ASSUME AgentTypeOK, WritingsKept, \A p \in Commands : Own(p) /\ Backed(p), [AgentNext]_agentVars
  PROVE WritingsKept'
<1>1. WritingsKept <=> (struck \cap Late = {} => \A w \in kept : Lies(w))
  BY DEF WritingsKept, Late, Lies
<1>2. SUFFICES ASSUME struck' \cap Late = {}, NEW w \in kept' PROVE Lies(w)'
  BY DEF WritingsKept, Late, Lies
<1>3. ASSUME NEW p \in Commands, Step(p) PROVE Lies(w)'
  <2>1. w \in kept /\ w \in Writings /\ struck \cap Late = {}
    BY <1>2, <1>3, Steady DEF AgentTypeOK
  <2> QED BY <1>1, <1>2, <1>3, <2>1, CommandKeeps
<1>4. CASE UserSteps
  <2>1. struck' = struck
    BY <1>4 DEF UserSteps, UserAlters, UserReplaces, UserLeaves, calm
  <2> QED BY <1>1, <1>2, <1>4, <2>1, UserKeeps
<1>5. CASE UNCHANGED agentVars
  BY <1>1, <1>2, <1>5 DEF agentVars, Lies
<1> QED BY <1>3, <1>4, <1>5, NextCases

-----------------------------------------------------------------------------
(* A whole skill, somewhere                                                *)

\* Whoever is about to take away what lies in place has a whole backup, unless
\* it is exempt.
LEMMA AtUndo ==
  AgentTypeOK /\ ~Exempt /\ (\A p \in Commands : Backed(p))
  /\ (Whole(Skill) \/ \E p \in Installers : committed[p] /\ at[p] = "undo")
  => \E n \in Names : SafeCopy(n)
<1> SUFFICES ASSUME AgentTypeOK, ~Exempt, \A p \in Commands : Backed(p),
                    Whole(Skill) \/ \E p \in Installers : committed[p] /\ at[p] = "undo"
             PROVE \E n \in Names : SafeCopy(n)
  OBVIOUS
<1>1. CASE \E p \in Installers : committed[p] /\ at[p] = "undo"
  <2>1. PICK p \in Installers : committed[p] /\ at[p] = "undo"
    BY <1>1
  <2>2. p \in Commands /\ Aside(p) \in Names
    BY NamesApart DEF Commands
  <2>3. /\ "sync" \in struck /\ (moved[p] <=> expected[p] # NoTree)
        /\ moved[p] => OwnedTree(tree[Aside(p)], TRUE)
    BY <2>1, <2>2 DEF Exempt, Backed
  <2>4. expected[p] # NoTree
    BY <2>1, <2>3 DEF Exempt, RollsBackToBackup
  <2> QED BY <2>1, <2>2, <2>3, <2>4, OwnedWhole DEF SafeCopy, Spare
<1>2. CASE Whole(Skill) /\ ~\E p \in Installers : committed[p] /\ at[p] = "undo"
  BY <1>2, NamesApart DEF SafeCopy, Spare, Skill
<1> QED BY <1>1, <1>2

\* The same of the state a step leads to.
LEMMA AtUndoNext ==
  (AgentTypeOK /\ ~Exempt /\ (\A p \in Commands : Backed(p))
  /\ (Whole(Skill) \/ \E p \in Installers : committed[p] /\ at[p] = "undo")
  => \E n \in Names : SafeCopy(n))'
BY AtUndo, PTL

\* How a step changes the trees that may be the only copy.
Moves(p) ==
  \/ Skill' = Skill /\ tree'[Aside(p)] = tree[Aside(p)]
  \/ Skill' = NoTree /\ tree[Aside(p)] = NoTree /\ tree'[Aside(p)] = Skill
     /\ ~committed'[p]
  \/ p \in Installers /\ Skill' = Shipped(p) /\ tree'[Aside(p)] = tree[Aside(p)]
  \/ Skill = NoTree /\ Skill' = tree[Aside(p)] /\ tree'[Aside(p)] = NoTree
  \/ Skill' = Skill /\ tree'[Aside(p)] = NoTree /\ committed[p] /\ at[p] = "drop"
  \/ p \in Installers /\ committed[p] /\ at[p] = "undo"
     /\ Skill' = NoTree /\ tree'[Aside(p)] = tree[Aside(p)]

\* ... and what else KeepsACopy is about.
Onward(p) ==
  /\ committed[p] => committed'[p]
  /\ committed'[p] => committed[p] \/ (p \in Installers /\ Skill' = Shipped(p))
  /\ committed'[p] /\ at'[p] \in {"sync", "drop"} =>
       \/ committed[p] /\ at[p] \in {"sync", "drop"}
       \/ (p \in Installers /\ Skill' = Shipped(p))
  /\ \/ expected'[p] = expected[p]
     \/ at[p] = "idle" /\ Skill' = Skill /\ expected'[p] = Skill
  /\ p \in Uninstallers /\ at[p] \notin {"idle", "u_move", "u_verify", "u_sync", "u_drop"} =>
       at'[p] \notin {"idle", "u_move", "u_verify", "u_sync", "u_drop"}

\* Every step that exempts nothing is one of these.
LEMMA StepMoves ==
  ASSUME AgentTypeOK, NEW p \in Commands, Step(p), Own(p),
         struck' \cap {"drop", "sync_dropped"} = {},
         p \in Uninstallers => at'[p] \in {"idle", "u_move", "u_verify", "u_sync", "u_drop"}
  PROVE Moves(p)
<1> USE DEF Moves, local, calm, agentEnv, Skill, Advance, End
<1>0. /\ {Place, Stage(p), Aside(p), Failed(p)} \subseteq Names
      /\ Stage(p) # Aside(p) /\ Stage(p) # Failed(p) /\ Aside(p) # Failed(p)
      /\ Place \notin {Stage(p), Aside(p), Failed(p)}
  BY NamesApart
<1>1. CASE BeginCommand(p) \/ Die(p)
  BY <1>1 DEF BeginCommand, Die
<1>2. CASE p \in Installers /\ (Delegate(p) \/ DelegateFailed(p))
  BY <1>2 DEF Delegate, DelegateFailed
<1>3. CASE p \in Installers /\ Replace(p)
  <2>1. CASE MakeStage(p) \/ StageFailed(p)
    BY <2>1, <1>0 DEF MakeStage, StageFailed, Put, AgentTypeOK
  <2>2. CASE NothingToMove(p) \/ MoveConflict(p) \/ Verify(p) \/ SyncMoved(p)
             \/ InstallConflict(p) \/ Sync(p) \/ SyncDropped(p) \/ StepFailed(p)
    BY <2>2 DEF NothingToMove, MoveConflict, Verify, SyncMoved, InstallConflict, Sync,
       SyncDropped, StepFailed
  <2>3. CASE MoveAside(p)
    BY <2>3, <1>0 DEF MoveAside, Own, Rename, AgentTypeOK, Late, RollingBack
  <2>4. CASE Install(p)
    BY <1>3, <2>4, <1>0 DEF Install, Rename, Own, AgentTypeOK
  <2>5. CASE ClearBackup(p)
    BY <2>5, <1>0 DEF ClearBackup, Put, Own, Late, AgentTypeOK
  <2>6. CASE DropFailed(p)
    BY <2>6 DEF DropFailed, Fail
  <2> QED BY <1>3, <2>1, <2>2, <2>3, <2>4, <2>5, <2>6 DEF Replace
<1>4. CASE p \in Installers /\ Rollback(p)
  <2>1. CASE UndoInstall(p)
    BY <1>4, <2>1, <1>0 DEF UndoInstall, Rename, AgentTypeOK
  <2>2. CASE UndoRestore(p)
    BY <2>2, <1>0 DEF UndoRestore, CanRename, Rename, AgentTypeOK
  <2>3. CASE UndoDrop(p) \/ UndoStaged(p)
    BY <2>3, <1>0 DEF UndoDrop, UndoStaged, Put, AgentTypeOK
  <2>4. CASE UndoFailed(p)
    BY <2>4, <1>0 DEF UndoFailed, AgentTypeOK
  <2> QED BY <1>4, <2>1, <2>2, <2>3, <2>4 DEF Rollback
<1>5. CASE p \in Uninstallers /\ Uninstall(p)
  <2>1. CASE VerifyBuried(p) \/ SyncBuried(p) \/ SyncUninstalled(p) \/ UninstallFailed(p)
             \/ UnburyFailed(p)
    BY <2>1 DEF VerifyBuried, SyncBuried, SyncUninstalled, UninstallFailed, UnburyFailed
  <2>2. CASE DropBuried(p) \/ DropBuriedFailed(p) \/ Unbury(p)
    <3>1. at'[p] \in {"u_sync_dropped", "u_back", "done"}
      BY <2>2 DEF DropBuried, DropBuriedFailed, Unbury, AgentTypeOK
    <3> QED BY <1>5, <3>1
  <2>3. CASE Bury(p)
    BY <1>5, <2>3, <1>0 DEF Bury, Own, Rename, AgentTypeOK, Late, RollingBack
  <2> QED BY <1>5, <2>1, <2>2, <2>3 DEF Uninstall
<1> QED BY <1>1, <1>2, <1>3, <1>4, <1>5 DEF Step, InstallAgent

\* ... and goes on.
LEMMA StepOnward == ASSUME AgentTypeOK, NEW p \in Commands, Step(p), Own(p) PROVE Onward(p)
<1> USE DEF Onward, local, calm, agentEnv, Skill, Advance, End, AgentTypeOK
<1>0. /\ {Place, Stage(p), Aside(p), Failed(p)} \subseteq Names
      /\ Place # Stage(p) /\ (p \in Installers => p \notin Uninstallers)
  BY NamesApart, AgentAssumption
<1>1. CASE BeginCommand(p) \/ Die(p)
  BY <1>0, <1>1 DEF BeginCommand, Die, Own, Late, RollingBack, Active, Installing,
     Uninstalling
<1>2. CASE p \in Installers /\ (Delegate(p) \/ DelegateFailed(p))
  BY <1>0, <1>2 DEF Delegate, DelegateFailed
<1>3. CASE p \in Installers /\ Replace(p)
  <2>1. CASE Install(p)
    BY <1>0, <1>3, <2>1 DEF Install, Rename, Own
  <2>2. CASE ~Install(p)
    BY <1>0, <1>3, <2>2 DEF Replace, MakeStage, StageFailed, MoveAside, NothingToMove,
       MoveConflict, Verify, SyncMoved, InstallConflict, Sync, ClearBackup, DropFailed,
       SyncDropped, StepFailed
  <2> QED BY <2>1, <2>2
<1>4. CASE p \in Installers /\ Rollback(p)
  BY <1>0, <1>4 DEF Rollback, UndoInstall, UndoRestore, UndoDrop, UndoStaged,
     UndoFailed, RollingBack
<1>5. CASE p \in Uninstallers /\ Uninstall(p)
  BY <1>0, <1>5 DEF Uninstall, Bury, VerifyBuried, SyncBuried, DropBuried,
     DropBuriedFailed, SyncUninstalled, UninstallFailed, Unbury, UnburyFailed
<1> QED BY <1>1, <1>2, <1>3, <1>4, <1>5 DEF Step, InstallAgent

\* What is exempt stays so.
LEMMA ExemptStays ==
  ASSUME AgentTypeOK, NEW p \in Commands, Step(p), Own(p), Exempt  PROVE Exempt'
<1>1. writings' = writings /\ struck \subseteq struck'
  BY Steady
<1>2. Onward(p) /\ \A q \in Commands : q # p => Alike(p, q)
  BY StepOnward, Framing
<1>3. CASE \E q \in Uninstallers : at[q] \notin {"idle", "u_move", "u_verify", "u_sync", "u_drop"}
  BY <1>2, <1>3 DEF Exempt, Onward, Alike, Commands
<1>4. CASE ~RollsBackToBackup
  <2>1. PICK q \in Installers : "sync" \in struck /\ committed[q] /\ expected[q] = NoTree
    BY <1>4 DEF RollsBackToBackup
  <2>2. at[q] # "idle" \/ q # p
    BY <2>1 DEF Own, Late, RollingBack
  <2>3. committed'[q] /\ expected'[q] = NoTree
    BY <1>2, <2>1, <2>2 DEF Onward, Alike, Commands
  <2> QED BY <1>1, <2>1, <2>3 DEF Exempt, RollsBackToBackup
<1> QED BY <1>1, <1>3, <1>4 DEF Exempt

\* Until something exempts it, a whole skill is never less than one.
LEMMA CopiedStep ==
  ASSUME AgentTypeOK, AgentTypeOK', Copied, \A p \in Commands : Own(p) /\ Backed(p),
         \A p \in Commands : Backed(p)', [AgentNext]_agentVars
  PROVE Copied'
<1>1. ASSUME NEW p \in Commands, Step(p), ~Exempt'
      PROVE Pristine' /\ (Due' => \E n \in Names : SafeCopy(n)')
  <2>1. ~Exempt /\ Pristine /\ (Due => \E n \in Names : SafeCopy(n))
    BY <1>1, ExemptStays DEF Copied
  <2>2. Onward(p) /\ Moves(p) /\ \A q \in Commands : q # p => Alike(p, q)
    BY <1>1, StepOnward, StepMoves, Framing DEF Exempt
  <2>3. Pristine'
    <3>1. NoTree \in Sound /\ \A q \in Installers : Shipped(q) \in Sound
      BY DEF Sound
    <3>2. Skill' \in Sound /\ tree'[Aside(p)] \in Sound /\ expected'[p] \in Sound
      BY <2>1, <2>2, <3>1 DEF Pristine, Moves, Onward
    <3>3. Sound' = Sound
      BY DEF Sound, Shipped, Foreign, Earlier
    <3> QED BY <2>1, <2>2, <3>2, <3>3 DEF Pristine, Alike
  <2>4. CASE Whole(Skill') \/ \E q \in Installers : committed'[q] /\ at'[q] = "undo"
    BY <1>1, <2>3, <2>4, AtUndoNext DEF Whole
  <2>5. ASSUME ~Whole(Skill'), ~\E q \in Installers : committed'[q] /\ at'[q] = "undo", Due'
        PROVE \E n \in Names : SafeCopy(n)'
    <3>1. ~(p \in Installers /\ Skill' = Shipped(p))
      BY <2>5, ShippedWhole
    <3>2. Due
      <4>1. PICK q \in Installers : committed'[q] \/ Whole(expected'[q])
        BY <2>5 DEF Due, Whole
      <4>2. committed[q] \/ Whole(expected[q])
        BY <2>2, <2>5, <3>1, <4>1 DEF Onward, Alike, Commands
      <4> QED BY <4>2 DEF Due
    <3>3. PICK n \in Names : SafeCopy(n)
      BY <2>1, <3>2
    <3>a. /\ \A q \in Commands : Aside(q) \in Names /\ Aside(q) # Place
          /\ \A q, r \in Commands : Aside(q) = Aside(r) => q = r
      BY NamesApart
    <3>b. Whole(tree[n]) /\ Spare(n) /\ ~Whole(NoTree)
      BY <3>3 DEF SafeCopy, Whole
    <3>4. CASE n = Place
      <4>0. Whole(Skill) /\ \A q \in Installers : ~(committed[q] /\ at[q] = "undo")
        BY <3>4, <3>a, <3>b DEF Spare, Skill
      <4>1. Skill' = NoTree /\ tree'[Aside(p)] = Skill /\ ~committed'[p]
        BY <2>2, <2>5, <3>1, <3>b, <4>0 DEF Moves
      <4> QED BY <3>a, <4>0, <4>1 DEF SafeCopy, Spare, Whole
    <3>5. CASE \E q \in Commands : n = Aside(q)
      <4>1. PICK q \in Commands : n = Aside(q) /\ ~(committed[q] /\ at[q] \in {"sync", "drop"})
        BY <3>5, <3>a, <3>b DEF Spare
      <4>2. CASE q # p
        BY <2>2, <3>b, <4>1, <4>2 DEF Alike, SafeCopy, Spare, Whole
      <4>3. CASE q = p
        <5>1. tree'[n] = tree[n]
          BY <2>2, <2>5, <3>1, <3>b, <4>1, <4>3 DEF Moves
        <5>2. ~(committed'[q] /\ at'[q] \in {"sync", "drop"})
          BY <2>2, <3>1, <4>1, <4>3 DEF Onward
        <5> QED BY <3>b, <4>1, <5>1, <5>2 DEF SafeCopy, Spare, Whole
      <4> QED BY <4>2, <4>3
    <3> QED BY <3>b, <3>4, <3>5 DEF Spare
  <2> QED BY <2>3, <2>4, <2>5
<1>2. CASE UserSteps
  BY <1>2 DEF UserSteps, UserAlters, UserReplaces, UserLeaves, Copied, Exempt, AgentTypeOK
<1>3. CASE UNCHANGED agentVars
  BY <1>3 DEF agentVars, Copied, Exempt, Pristine, Sound, Due, SafeCopy, Spare, Whole,
     RollsBackToBackup, Skill, Shipped, Foreign, Earlier
<1> QED BY <1>1, <1>2, <1>3, NextCases DEF Copied

-----------------------------------------------------------------------------
(* What a command says when it ends                                        *)

\* What AnswersTrue asks of the step with which p ends.
True(p) ==
  CASE answer'[p] = "installed" -> tree'[Place] = Shipped(p)
    [] answer'[p] = "already_current" -> Current(p, tree'[Place])
    [] answer'[p] = "uninstalled" -> tree'[Place] = NoTree
    [] answer'[p] = "refused" -> tree'[Place] = found'[p]
    [] OTHER -> \/ tree'[Place] = found'[p]
                \/ struck' \cap ({"drop", "sync_dropped", "u_drop",
                                  "u_sync_dropped", "u_back"} \cup RollingBack) # {}

\* What an undisturbed command relies on makes its answer true.
LEMMA SkillAnswerStep ==
  ASSUME SkillInv, [AgentNext]_agentVars, NEW p \in Commands, answer'[p] # answer[p], alone'[p]
  PROVE True(p)
<1> USE DEF SkillInv, Skill, End, Advance, local, calm, agentEnv
<1>0. /\ {Place, Stage(p), Aside(p), Failed(p)} \subseteq Names
      /\ Place \notin {Stage(p), Aside(p), Failed(p)}
      /\ p \in Installers => p \notin Uninstallers
  BY NamesApart, AgentAssumption
<1>1. ASSUME NEW q \in Commands, Step(q) PROVE q = p
  BY <1>1, Framing DEF Alike
<1>2. CASE Step(p)
  <2> USE DEF AgentTypeOK, True
  <2>1. CASE BeginCommand(p)
    BY <2>1 DEF BeginCommand
  <2>2. CASE p \in Installers /\ (Delegate(p) \/ DelegateFailed(p))
    BY <2>2 DEF Delegate, DelegateFailed, Quiet, Undisturbed
  <2>3. CASE p \in Installers /\ (Sync(p) \/ SyncDropped(p))
    BY <2>3 DEF Sync, SyncDropped, Quiet, Undisturbed
  <2>4. CASE p \in Installers /\ UndoStaged(p)
    BY <1>0, <2>4 DEF UndoStaged, Put, Quiet, Returning, Excused
  <2>5. CASE p \in Installers /\ UndoFailed(p)
    BY <2>5 DEF UndoFailed, Fail
  <2>6. CASE p \in Uninstallers /\ SyncUninstalled(p)
    BY <2>6 DEF SyncUninstalled, Quiet, Undisturbed
  <2>7. CASE p \in Uninstallers /\ Unbury(p)
    BY <1>0, <2>7 DEF Unbury, CanRename, Rename, Witnessed, Quiet, Returning, Excused
  <2>8. CASE p \in Uninstallers /\ UnburyFailed(p)
    BY <2>8 DEF UnburyFailed, Fail
  <2> QED BY <1>2, <2>1, <2>2, <2>3, <2>4, <2>5, <2>6, <2>7, <2>8 DEF Step, Die,
         InstallAgent, Replace, MakeStage, StageFailed, MoveAside, NothingToMove,
         MoveConflict, Verify, SyncMoved, Install, InstallConflict, ClearBackup,
         DropFailed, StepFailed, Rollback, UndoInstall, UndoRestore, UndoDrop,
         Uninstall, Bury, VerifyBuried, SyncBuried, DropBuried, DropBuriedFailed,
         UninstallFailed
<1>3. CASE UserSteps \/ UNCHANGED agentVars
  BY <1>3 DEF UserSteps, UserAlters, UserReplaces, UserLeaves, agentVars
<1> QED BY <1>1, <1>2, <1>3, NextCases

-----------------------------------------------------------------------------
(* Theorems                                                                *)

\* It holds before anybody has begun.
LEMMA SkillInit == ASSUME AgentInit PROVE SkillInv
<1>1. AgentTypeOK
  BY InitTyped
<1>2. ASSUME NEW p \in Commands PROVE Own(p) /\ Backed(p) /\ Quiet(p)
  <2>1. tree[Aside(p)] = NoTree /\ tree[Stage(p)] = NoTree /\ tree[Failed(p)] = NoTree
    BY NamesApart DEF AgentInit
  <2> QED BY <2>1 DEF AgentInit, Own, Backed, Quiet, Undisturbed, Returning, Commands, Late
<1>3. WritingsKept
  <2>1. 0 \in Writings
    BY AgentAssumption DEF Writings
  <2>2. Foreign(0) # NoTree /\ Foreign(0).holds = 0
    BY <2>1, AgentAssumption, TreesTyped DEF Foreign
  <2> QED BY <2>2, NamesApart DEF AgentInit, WritingsKept
<1>4. Copied
  <2>1. Skill \in Sound /\ NoTree \in Sound /\ \A p \in Commands : tree[Aside(p)] = NoTree
    BY NamesApart DEF AgentInit, Skill, Sound
  <2>2. Pristine
    BY <2>1 DEF Pristine, AgentInit
  <2>3. ~Due
    BY DEF Due, AgentInit, Whole, Commands
  <2> QED BY <2>2, <2>3 DEF Copied
<1> QED BY <1>1, <1>2, <1>3, <1>4 DEF SkillInv

\* The inductive invariant: what each command knows of its siblings, what the
\* user wrote, the copies of the skill and what an undisturbed command finds,
\* for any commands, resources and bounds.
THEOREM SkillInvariant == AgentSpec => []SkillInv
<1>1. ASSUME SkillInv, [AgentNext]_agentVars PROVE SkillInv'
  <2>1. AgentTypeOK'
    BY <1>1, SkillTypeStep DEF SkillInv
  <2>2. \A p \in Commands : Own(p)' /\ Backed(p)' /\ Quiet(p)'
    BY <1>1, CommandStep DEF SkillInv
  <2>3. WritingsKept'
    BY <1>1, WritingsStep DEF SkillInv
  <2>4. Copied'
    BY <1>1, <2>1, <2>2, CopiedStep DEF SkillInv
  <2> QED BY <2>1, <2>2, <2>3, <2>4 DEF SkillInv
<1> QED BY <1>1, SkillInit, PTL DEF AgentSpec

\* A settled skill is never reduced to less than a whole one in place or in a
\* sibling, wherever commands die or fail.
THEOREM SkillSafe == AgentSpec => []AgentInv
<1>1. ASSUME SkillInv PROVE AgentInv
  <2>1. SUFFICES ASSUME ~Exempt, NEW p \in Installers, Settled(expected[p])
                 PROVE \E n \in Names : n[1] # "stage" /\ Whole(tree[n])
    BY <1>1 DEF SkillInv, AgentInv, KeepsACopy, Exempt
  <2>2. expected[p] \in Sound
    BY <1>1, <2>1 DEF SkillInv, Copied, Pristine, Commands
  <2>3. expected[p] # Foreign(0)
    <3>1. 0 \in Writings
      BY AgentAssumption DEF Writings
    <3>2. 0 \notin Commands /\ 0 # Original
      BY <3>1, AgentAssumption DEF Resources
    <3> QED BY <2>1, <3>2 DEF Settled, Foreign, Commands
  <2>4. Whole(expected[p])
    BY <2>1, <2>2, <2>3, ShippedWhole, TreesTyped, AgentAssumption DEF Sound, Settled,
       Whole, Earlier
  <2>5. PICK n \in Names : SafeCopy(n)
    BY <1>1, <2>1, <2>4 DEF SkillInv, Copied, Due
  <2> QED BY <2>5 DEF SafeCopy, Spare, Place, Aside
<1> QED BY <1>1, SkillInvariant, PTL

\* What a user wrote is still somewhere below the skills root, whatever the
\* commands do at once, until one rolls back what it has committed.
THEOREM WritingsSafe == AgentSpec => []WritingsKept
<1>1. SkillInv => WritingsKept
  BY DEF SkillInv
<1> QED BY <1>1, SkillInvariant, PTL

\* A command nobody has disturbed tells the truth when it ends.
THEOREM SkillAnswersTrue == AgentSpec => AnswersTrue
<1> DEFINE Told == \A p \in Commands : answer'[p] # answer[p] /\ alone'[p] => True(p)
<1>1. SkillInv /\ [AgentNext]_agentVars => [Told]_agentVars
  BY SkillAnswerStep
<1>2. AgentSpec => [][Told]_agentVars
  BY <1>1, SkillInvariant, PTL DEF AgentSpec
<1> QED BY <1>2 DEF AnswersTrue, True
=============================================================================
