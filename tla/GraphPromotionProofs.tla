----------------------- MODULE GraphPromotionProofs -----------------------
(***************************************************************************)
(* Machine-checked theorems about GraphPromotion, for any sets of          *)
(* generations and transactions and any bounds of the environment.         *)
(***************************************************************************)
EXTENDS GraphPromotion, FiniteSetTheorems, TLAPS

-----------------------------------------------------------------------------
(* Types                                                                   *)

\* Every statement of promotion, recovery and rollback keeps paths, program
\* counter and answer within their types.
LEMMA TypeStep == ASSUME TypeOK, [Next]_vars PROVE TypeOK'
<1> USE PromotionAssumption
    DEF PromotionAssumption, TypeOK, Trees, Phases, Journals, PCs,
        BeforeJournal, BeforeCommit, AfterCommit, Undo, Recovery,
        fsvars, env, Local, Goto, Return
<1>1. CASE Begin BY <1>1 DEF Begin, SurvivingGraph, Visible
<1>2. CASE ScanJournal BY <1>2 DEF ScanJournal, Journaled
<1>3. CASE ScanDone BY <1>3 DEF ScanDone
<1>4. CASE RecoverRename BY <1>4 DEF RecoverRename, RenameBackup
<1>5. CASE RecoverRemove BY <1>5 DEF RecoverRemove, RemoveTarget
<1>6. CASE RecoverFirst BY <1>6 DEF RecoverFirst, RemoveTarget
<1>7. CASE RecoverFirstRemoved BY <1>7 DEF RecoverFirstRemoved, RemoveTarget
<1>8. CASE RecoverSkip BY <1>8 DEF RecoverSkip
<1>9. CASE RecoverStage BY <1>9 DEF RecoverStage, ClearStage
<1>10. CASE RecoverJournal BY <1>10 DEF RecoverJournal, ClearJournal
<1>11. CASE AlreadyInstalled BY <1>11 DEF AlreadyInstalled
<1>12. CASE StartTransaction BY <1>12 DEF StartTransaction, Fresh
<1>13. CASE CopyStage BY <1>13 DEF CopyStage
<1>14. CASE WritePrepared BY <1>14 DEF WritePrepared, WriteJournal
<1>15. CASE JournalStarted BY <1>15 DEF JournalStarted
<1>16. CASE BackUpTarget BY <1>16 DEF BackUpTarget
<1>17. CASE WriteBackedUp BY <1>17 DEF WriteBackedUp, WriteJournal
<1>18. CASE RenameCandidate BY <1>18 DEF RenameCandidate, ClearStage
<1>19. CASE WritePromoted BY <1>19 DEF WritePromoted, WriteJournal
<1>20. CASE UnlinkJournal BY <1>20 DEF UnlinkJournal, ClearJournal
<1>21. CASE JournalGone BY <1>21 DEF JournalGone
<1>22. CASE RemoveBackup BY <1>22 DEF RemoveBackup
<1>23. CASE BackupGone BY <1>23 DEF BackupGone
<1>24. CASE Confirm BY <1>24 DEF Confirm
<1>25. CASE DiscardStage BY <1>25 DEF DiscardStage, ClearStage
<1>26. CASE UndoRemove BY <1>26 DEF UndoRemove, RemoveTarget
<1>27. CASE UndoRename BY <1>27 DEF UndoRename, RenameBackup
<1>28. CASE UndoSkip BY <1>28 DEF UndoSkip
<1>29. CASE UndoStage BY <1>29 DEF UndoStage, ClearStage
<1>30. CASE UndoJournal BY <1>30 DEF UndoJournal, ClearJournal
<1>31. CASE Fault BY <1>31 DEF Fault
<1>32. CASE Crash BY <1>32 DEF Crash
<1>33. CASE UNCHANGED vars BY <1>33 DEF vars
<1> QED
  BY <1>1, <1>2, <1>3, <1>4, <1>5, <1>6, <1>7, <1>8, <1>9, <1>10, <1>11, 
     <1>12, <1>13, <1>14, <1>15, <1>16, <1>17, <1>18, <1>19, <1>20, <1>21, 
     <1>22, <1>23, <1>24, <1>25, <1>26, <1>27, <1>28, <1>29, <1>30, <1>31, 
     <1>32, <1>33
  DEF Next, Recover, Promote, Rollback

\* The type invariant holds of every behaviour of promote_graph.
THEOREM TypeCorrect == Spec => []TypeOK
<1>1. ASSUME Init PROVE TypeOK
  BY <1>1, PromotionAssumption DEF PromotionAssumption, Init, TypeOK, Trees, PCs, Visible
<1>2. ASSUME TypeOK, [Next]_vars PROVE TypeOK'
  BY <1>2, TypeStep
<1> QED BY <1>1, <1>2, PTL DEF Spec

-----------------------------------------------------------------------------
(* One journal                                                             *)

\* What the invariant says of the files and of the statement being run,
\* without the history variable.
Core == /\ AtMostOneJournal
        /\ \A t \in Journaled : Unaliased(t)
        /\ Progress /\ Undoing

\* With one journal on disk, its recovery is the surviving graph.
LEMMA Survivor ==
  /\ AtMostOneJournal => \A t \in Journaled : SurvivingGraph = Visible(Recovered(t))
  /\ AtMostOneJournal' =>
       \A t \in Journaled' : SurvivingGraph' = Visible(Recovered(t))'
BY DEF AtMostOneJournal, SurvivingGraph

-----------------------------------------------------------------------------
(* Atomicity                                                               *)

\* Every step that does not lapse keeps what the disk and the call have to do with
\* each other.
LEMMA CoreStep ==
  ASSUME TypeOK, TypeOK', Core, [Next]_vars, ~Lapsed'
  PROVE  Core'
<1> USE PromotionAssumption
    DEF PromotionAssumption, TypeOK, Trees, Phases, Journals, BeforeJournal,
        BeforeCommit, AfterCommit, Undo, Recovery, fsvars, Local,
        Goto, Return, Core, AtMostOneJournal, Unaliased, Progress, Undoing,
        Wrote, WroteBackup, Settled, BackupOnly, BackupWins, FirstGraph, Owns,
        Journaled, HasBackup, NewTargetOnly
<1>1. CASE Begin BY <1>1 DEF Begin
<1>2. CASE ScanJournal BY <1>2 DEF ScanJournal, Journaled
<1>3. CASE ScanDone BY <1>3 DEF ScanDone
<1>4. CASE RecoverRename BY <1>4 DEF RecoverRename, RenameBackup
<1>5. CASE RecoverRemove BY <1>5 DEF RecoverRemove, RemoveTarget
<1>6. CASE RecoverFirst BY <1>6 DEF RecoverFirst, RemoveTarget
<1>7. CASE RecoverFirstRemoved BY <1>7 DEF RecoverFirstRemoved, RemoveTarget
<1>8. CASE RecoverSkip BY <1>8 DEF RecoverSkip
<1>9. CASE RecoverStage BY <1>9 DEF RecoverStage, ClearStage
<1>10. CASE RecoverJournal BY <1>10 DEF RecoverJournal, ClearJournal
<1>11. CASE AlreadyInstalled BY <1>11 DEF AlreadyInstalled
<1>12. CASE StartTransaction BY <1>12 DEF StartTransaction, Fresh
<1>13. CASE CopyStage BY <1>13 DEF CopyStage
<1>14. CASE WritePrepared BY <1>14 DEF WritePrepared, WriteJournal, Lapsed
<1>15. CASE JournalStarted BY <1>15 DEF JournalStarted
<1>16. CASE BackUpTarget BY <1>16 DEF BackUpTarget
<1>17. CASE WriteBackedUp BY <1>17 DEF WriteBackedUp, WriteJournal
<1>18. CASE RenameCandidate BY <1>18 DEF RenameCandidate, ClearStage
<1>19. CASE WritePromoted BY <1>19 DEF WritePromoted, WriteJournal
<1>20. CASE UnlinkJournal BY <1>20 DEF UnlinkJournal, ClearJournal
<1>21. CASE JournalGone BY <1>21 DEF JournalGone
<1>22. CASE RemoveBackup BY <1>22 DEF RemoveBackup
<1>23. CASE BackupGone BY <1>23 DEF BackupGone
<1>24. CASE Confirm BY <1>24 DEF Confirm
<1>25. CASE DiscardStage BY <1>25 DEF DiscardStage, ClearStage
<1>26. CASE UndoRemove BY <1>26 DEF UndoRemove, RemoveTarget
<1>27. CASE UndoRename BY <1>27 DEF UndoRename, RenameBackup
<1>28. CASE UndoSkip BY <1>28 DEF UndoSkip
<1>29. CASE UndoStage BY <1>29 DEF UndoStage, ClearStage
<1>30. CASE UndoJournal BY <1>30 DEF UndoJournal, ClearJournal
<1>31. CASE Fault BY <1>31 DEF Fault, Lapsed
<1>32. CASE Crash BY <1>32 DEF Crash
<1>33. CASE UNCHANGED vars BY <1>33 DEF vars
<1> QED
  BY <1>1, <1>2, <1>3, <1>4, <1>5, <1>6, <1>7, <1>8, <1>9, <1>10, <1>11, 
     <1>12, <1>13, <1>14, <1>15, <1>16, <1>17, <1>18, <1>19, <1>20, <1>21, 
     <1>22, <1>23, <1>24, <1>25, <1>26, <1>27, <1>28, <1>29, <1>30, <1>31, 
     <1>32, <1>33
  DEF Next, Recover, Promote, Rollback

\* Unlinking the journal of a complete promotion makes its candidate survive.
LEMMA CommitStep ==
  ASSUME TypeOK, Core, UnlinkJournal
  PROVE  SurvivingGraph' = candidate
<1>1. Journaled' = {}
  BY DEF TypeOK, Core, AtMostOneJournal, Progress, Wrote, Journaled, UnlinkJournal,
         ClearJournal, Goto
<1>2. target' = candidate
  BY DEF Core, Progress, UnlinkJournal, Goto
<1> QED BY <1>1, <1>2 DEF SurvivingGraph, Visible, TypeOK

\* No other step changes the surviving graph.
LEMMA SurvivorStep ==
  ASSUME TypeOK, TypeOK', Core, Core', [Next]_vars, ~UnlinkJournal
  PROVE  SurvivingGraph' = SurvivingGraph
<1>0. ASSUME UNCHANGED fsvars PROVE SurvivingGraph' = SurvivingGraph
  BY <1>0 DEF fsvars, SurvivingGraph, Journaled, Visible, Recovered, BackupOnly,
              BackupWins, FirstGraph, Owns
<1>s. /\ \A t \in Journaled : SurvivingGraph = Visible(Recovered(t))
      /\ \A t \in Journaled' : SurvivingGraph' = Visible(Recovered(t))'
      /\ Journaled = {} => SurvivingGraph = Visible(target)
      /\ Journaled' = {} => SurvivingGraph' = Visible(target)'
  BY Survivor DEF Core, SurvivingGraph
\* Steps that touch no file.
<1>1. CASE Begin BY <1>1, <1>0 DEF Begin, fsvars, Return
<1>2. CASE ScanJournal BY <1>2, <1>0 DEF ScanJournal, fsvars, Return
<1>3. CASE ScanDone BY <1>3, <1>0 DEF ScanDone, fsvars, Return
<1>4. CASE RecoverSkip BY <1>4, <1>0 DEF RecoverSkip, fsvars, Return
<1>5. CASE AlreadyInstalled BY <1>5, <1>0 DEF AlreadyInstalled, fsvars, Return
<1>6. CASE StartTransaction BY <1>6, <1>0 DEF StartTransaction, fsvars, Return
<1>7. CASE JournalStarted BY <1>7, <1>0 DEF JournalStarted, fsvars, Return
<1>8. CASE JournalGone BY <1>8, <1>0 DEF JournalGone, fsvars, Return
<1>9. CASE BackupGone BY <1>9, <1>0 DEF BackupGone, fsvars, Return
<1>10. CASE Confirm BY <1>10, <1>0 DEF Confirm, fsvars, Return
<1>11. CASE UndoSkip BY <1>11, <1>0 DEF UndoSkip, fsvars, Return
<1>12. CASE Fault BY <1>12, <1>0 DEF Fault, fsvars, Return
<1>13. CASE Crash BY <1>13, <1>0 DEF Crash, fsvars, Return
<1>14. CASE UNCHANGED vars BY <1>14, <1>0 DEF vars, fsvars
\* Steps inside a transaction: what its recovery would leave stays the same.
<1>t. ASSUME tx \in Journaled, tx \in Journaled', tx' = tx,
             Visible(Recovered(tx)') = Visible(Recovered(tx))
      PROVE  SurvivingGraph' = SurvivingGraph
  BY <1>t, <1>s DEF Visible
<1> USE PromotionAssumption
    DEF PromotionAssumption, TypeOK, Trees, Phases, Journals, Local, Goto, Core,
        Progress, Undoing, Wrote, WroteBackup, Settled, Unaliased, Recovered,
        BackupOnly, BackupWins, FirstGraph, Owns, Visible, HasBackup,
        NewTargetOnly, Journaled
<1>15. CASE RecoverRename
  BY <1>15, <1>t DEF RecoverRename, RenameBackup
<1>16. CASE RecoverRemove
  BY <1>16, <1>t DEF RecoverRemove, RemoveTarget
<1>17. CASE RecoverFirst
  BY <1>17, <1>t DEF RecoverFirst, RemoveTarget
<1>18. CASE RecoverFirstRemoved
  BY <1>18, <1>t DEF RecoverFirstRemoved, RemoveTarget
<1>19. CASE RecoverStage
  BY <1>19, <1>t DEF RecoverStage, ClearStage
<1>20. CASE BackUpTarget
  BY <1>20, <1>t DEF BackUpTarget
<1>21. CASE WriteBackedUp
  BY <1>21, <1>t DEF WriteBackedUp, WriteJournal
<1>22. CASE RenameCandidate
  BY <1>22, <1>t DEF RenameCandidate, ClearStage
<1>23. CASE WritePromoted
  BY <1>23, <1>t DEF WritePromoted, WriteJournal
<1>24. CASE UndoRemove
  BY <1>24, <1>t DEF UndoRemove, RemoveTarget
<1>25. CASE UndoRename
  BY <1>25, <1>t DEF UndoRename, RenameBackup
<1>26. CASE UndoStage
  BY <1>26, <1>t DEF UndoStage, ClearStage
\* Steps before the journal is written and after it is unlinked.
<1>27. CASE CopyStage
  BY <1>27, <1>s DEF CopyStage, AtMostOneJournal, AfterCommit, Return
<1>28. CASE RemoveBackup
  BY <1>28, <1>s DEF RemoveBackup, AtMostOneJournal, AfterCommit, Return
<1>29. CASE WritePrepared
  BY <1>29, <1>s DEF WritePrepared, WriteJournal, AtMostOneJournal, AfterCommit, Return
<1>30. CASE RecoverJournal
  BY <1>30, <1>s DEF RecoverJournal, ClearJournal, AtMostOneJournal, AfterCommit, Return
<1>31. CASE UndoJournal
  BY <1>31, <1>s DEF UndoJournal, ClearJournal, AtMostOneJournal, AfterCommit, Return
<1>32. CASE DiscardStage
  BY <1>32, <1>s DEF DiscardStage, ClearStage, AtMostOneJournal, AfterCommit, Return
<1> QED
  BY <1>1, <1>2, <1>3, <1>4, <1>5, <1>6, <1>7, <1>8, <1>9, <1>10, <1>11, 
     <1>12, <1>13, <1>14, <1>15, <1>16, <1>17, <1>18, <1>19, <1>20, <1>21, 
     <1>22, <1>23, <1>24, <1>25, <1>26, <1>27, <1>28, <1>29, <1>30, <1>31, 
     <1>32
  DEF Next, Recover, Promote, Rollback

\* The whole invariant is inductive.
LEMMA InvInit == Init => Inv
<1> SUFFICES ASSUME Init PROVE Inv OBVIOUS
<1>1. TypeOK
  BY PromotionAssumption DEF PromotionAssumption, Init, TypeOK, Trees, PCs, Visible
<1>2. Journaled = {}
  BY DEF Init, Journaled
<1> QED BY <1>1, <1>2 DEF Inv, Init, AtMostOneJournal, Progress, Undoing, Keeps, AfterCommit

\* So does every step that does not lapse keep the invariant of promotion, rollback
\* and recovery.
LEMMA InvStep ==
  ASSUME Inv, [Next]_vars, ~Lapsed' PROVE Inv'
<1>1. TypeOK' BY TypeStep DEF Inv
<1>2. Core' BY <1>1, CoreStep DEF Inv, Core
<1>3. Keeps'
  <2>1. CASE UnlinkJournal BY <2>1 DEF UnlinkJournal, Goto, Keeps, AfterCommit
  <2>2. CASE ~UnlinkJournal
    <3>1. SurvivingGraph' = SurvivingGraph
      BY <1>1, <1>2, <2>2, SurvivorStep DEF Inv, Core
    <3>2. CASE Begin BY <3>1, <3>2 DEF Begin, Keeps
    <3>3. CASE Recover
      BY <3>1, <3>3 DEF Recover, ScanJournal, ScanDone, RecoverRename, RecoverRemove,
         RecoverFirst, RecoverFirstRemoved, RecoverSkip, RecoverStage,
         RecoverJournal, Goto, Local, Inv, Keeps, AfterCommit
    <3>4. CASE Promote
      <4>1. CASE Confirm
        BY <4>1 DEF Confirm, Return, Inv, Progress, Keeps, AfterCommit
      <4> QED
        BY <2>2, <3>1, <3>4, <4>1 DEF Promote, AlreadyInstalled, StartTransaction,
           CopyStage, WritePrepared, JournalStarted, BackUpTarget, WriteBackedUp,
           RenameCandidate, WritePromoted, JournalGone, RemoveBackup, BackupGone,
           Goto, Local, Return, Inv, Keeps, AfterCommit
    <3>5. CASE Rollback
      BY <3>1, <3>5 DEF Rollback, DiscardStage, UndoRemove, UndoRename, UndoSkip,
         UndoStage, UndoJournal, Goto, Local, Return, Inv, Keeps, AfterCommit
    <3>6. CASE Fault
      BY <3>1, <3>6 DEF Fault, Inv, Keeps, BeforeJournal, BeforeCommit, AfterCommit,
         Recovery, Undo, Lapsed
    <3>7. CASE Crash BY <3>1, <3>7 DEF Crash, Keeps
    <3>8. CASE UNCHANGED vars BY <3>1, <3>8 DEF vars, Inv, Keeps
    <3> QED BY <3>2, <3>3, <3>4, <3>5, <3>6, <3>7, <3>8 DEF Next
  <2> QED BY <2>1, <2>2
<1> QED BY <1>1, <1>2, <1>3 DEF Inv, Core

\* A lapse lasts until a call finds no journal, and that call starts anew.
LEMMA LapseStep ==
  ASSUME TypeOK, TypeOK', Lapsed, [Next]_vars  PROVE Lapsed' \/ Inv'
<1>1. CASE Begin
  <2> SUFFICES ASSUME ~Lapsed'  PROVE Inv'
    OBVIOUS
  <2>1. Journaled = {} /\ Journaled' = {} /\ pc' = "scan"
    BY <1>1 DEF Begin, Journaled, fsvars, Lapsed
  <2>2. SurvivingGraph' = SurvivingGraph /\ prior' = SurvivingGraph
    BY <1>1, <2>1 DEF Begin, SurvivingGraph, Visible, fsvars
  <2> QED BY <2>1, <2>2 DEF Inv, AtMostOneJournal, Progress, Undoing, Keeps, AfterCommit
<1>2. CASE UNCHANGED lapse
  BY <1>2 DEF Lapsed
<1>3. CASE WritePrepared \/ Fault
  BY <1>3 DEF WritePrepared, Fault, Lapsed
<1> QED
  BY <1>1, <1>2, <1>3
  DEF Next, Recover, Promote, Rollback, Crash, vars, ScanJournal, ScanDone, RecoverRename,
      RecoverRemove, RecoverFirst, RecoverFirstRemoved, RecoverSkip, RecoverStage,
      RecoverJournal, AlreadyInstalled, StartTransaction, CopyStage, JournalStarted,
      BackUpTarget, WriteBackedUp, RenameCandidate, WritePromoted, UnlinkJournal,
      JournalGone, RemoveBackup, BackupGone, Confirm, DiscardStage, UndoRemove, UndoRename,
      UndoSkip, UndoStage, UndoJournal, Local, Return

\* The inductive invariant of atomicity, whatever dies or fails and wherever: files,
\* journal and program counter tell which graph a recovery must leave, but for a
\* transaction whose cleanup has failed after the commit, or whose candidate has the
\* graph.json of what it replaces.
THEOREM Invariance == Spec => [](Lapsed \/ Inv)
<1>1. ASSUME TypeOK, Lapsed \/ Inv, [Next]_vars  PROVE TypeOK' /\ (Lapsed' \/ Inv')
  <2>1. TypeOK'
    BY <1>1, TypeStep
  <2> QED BY <1>1, <2>1, LapseStep, InvStep
<1>2. Init => Lapsed \/ Inv
  BY InvInit
<1> QED BY <1>1, <1>2, TypeCorrect, PTL DEF Spec

\* With reliable cleanup and a graph.json of its own for every generation, no
\* transaction lapses.
LEMMA NoLapse ==
  DistinctGraphs /\ ReliableCleanup => (Spec => [](~Lapsed /\ Inv))
<1> SUFFICES ASSUME DistinctGraphs, ReliableCleanup PROVE Spec => [](~Lapsed /\ Inv)
  OBVIOUS
<1>1. ASSUME ~Lapsed, Inv, [Next]_vars  PROVE ~Lapsed' /\ Inv'
  <2>1. ~Lapsed'
    <3>1. CASE WritePrepared
      BY <1>1, <3>1, PromotionAssumption
      DEF WritePrepared, Owns, Goto, Inv, TypeOK, Progress, DistinctGraphs, Lapsed,
          PromotionAssumption
    <3>2. CASE Fault
      BY <1>1, <3>2 DEF Fault, ReliableCleanup, Lapsed
    <3>3. CASE Begin
      BY <1>1, <3>3 DEF Begin, Lapsed
    <3>4. CASE UNCHANGED lapse
      BY <1>1, <3>4 DEF Lapsed
    <3> QED
      BY <1>1, <3>1, <3>2, <3>3, <3>4
      DEF Next, Recover, Promote, Rollback, Crash, vars, ScanJournal, ScanDone, RecoverRename,
          RecoverRemove, RecoverFirst, RecoverFirstRemoved, RecoverSkip, RecoverStage,
          RecoverJournal, AlreadyInstalled, StartTransaction, CopyStage, JournalStarted,
          BackUpTarget, WriteBackedUp, RenameCandidate, WritePromoted, UnlinkJournal,
          JournalGone, RemoveBackup, BackupGone, Confirm, DiscardStage, UndoRemove, UndoRename,
          UndoSkip, UndoStage, UndoJournal, Local, Return
  <2> QED BY <1>1, <2>1, InvStep
<1>2. Init => ~Lapsed /\ Inv
  BY InvInit DEF Init, Lapsed
<1> QED BY <1>1, <1>2, PTL DEF Spec

\* A promotion that reports a failure leaves the graph it found, as the docstring of
\* promote_graph says, unless it lapsed: unless it failed in the cleanup after its
\* commit, or a journal named its candidate by the graph.json of what it replaces.
THEOREM FailureIsHarmless == Spec => [](Lapsed \/ FailureRestoresPrevious)
<1>1. Inv => FailureRestoresPrevious
  BY DEF Inv, Keeps, FailureRestoresPrevious, AfterCommit
<1> QED BY <1>1, Invariance, PTL

\* No crash, fault, rollback or recovery takes the repository's graph away, except
\* out of a transaction that has lapsed.
THEOREM GraphSurvives ==
  Spec => [][Lapsed \/ KeepsAGraph]_vars /\ ([]~Lapsed => GraphNeverLost)
<1>1. ASSUME Lapsed \/ Inv, Lapsed' \/ Inv', [Next]_vars  PROVE [Lapsed \/ KeepsAGraph]_vars
  <2> SUFFICES ASSUME ~Lapsed, Inv, SurvivingGraph \in Generations
               PROVE  SurvivingGraph' \in Generations
    BY <1>1 DEF KeepsAGraph
  <2>1. CASE UnlinkJournal BY <2>1, CommitStep DEF Inv, Core, TypeOK
  <2>2. CASE ~UnlinkJournal /\ Inv' BY <1>1, <2>2, SurvivorStep DEF Inv, Core
  <2>3. CASE WritePrepared
    <3>1. /\ Journaled = {} /\ Journaled' = {tx} /\ target' = target
          /\ stage'[tx] = candidate /\ backup'[tx] = Absent /\ journal'[tx].phase = "prepared"
      BY <2>3, PromotionAssumption
      DEF WritePrepared, WriteJournal, Goto, Inv, Progress, TypeOK, Journaled, Journals,
          Phases, PromotionAssumption
    <3>2. ASSUME NEW t \in Journaled'  PROVE Visible(Recovered(t))' = Visible(target)
      BY <3>1, PromotionAssumption
      DEF Recovered, BackupOnly, BackupWins, FirstGraph, Visible, PromotionAssumption, Inv, TypeOK
    <3>3. AtMostOneJournal' /\ tx \in Journaled'
      BY <3>1 DEF AtMostOneJournal
    <3>4. SurvivingGraph' = Visible(target)
      BY <3>2, <3>3, Survivor
    <3> QED BY <3>1, <3>4 DEF SurvivingGraph
  <2>4. CASE Fault
    BY <2>4 DEF Fault, fsvars, SurvivingGraph, Journaled, Visible, Recovered, BackupOnly,
                BackupWins, FirstGraph, Owns
  <2>5. CASE ~WritePrepared /\ ~Fault
    <3>1. CASE UNCHANGED lapse
      BY <1>1, <2>1, <2>2, <3>1 DEF Lapsed
    <3>2. CASE Begin
      BY <1>1, <2>1, <2>2, <3>2 DEF Begin, Lapsed
    <3> QED
      BY <1>1, <2>5, <3>1, <3>2
      DEF Next, Recover, Promote, Rollback, Crash, vars, ScanJournal, ScanDone, RecoverRename,
          RecoverRemove, RecoverFirst, RecoverFirstRemoved, RecoverSkip, RecoverStage,
          RecoverJournal, AlreadyInstalled, StartTransaction, CopyStage, JournalStarted,
          BackUpTarget, WriteBackedUp, RenameCandidate, WritePromoted, UnlinkJournal,
          JournalGone, RemoveBackup, BackupGone, Confirm, DiscardStage, UndoRemove, UndoRename,
          UndoSkip, UndoStage, UndoJournal, Local, Return
  <2> QED BY <2>3, <2>4, <2>5
<1>2. ASSUME [Lapsed \/ KeepsAGraph]_vars, ~Lapsed  PROVE [KeepsAGraph]_vars
  BY <1>2
<1> QED BY <1>1, <1>2, Invariance, PTL DEF Spec, GraphNeverLost

\* promote_graph, with its crashes, faults, rollbacks and recoveries,
\* implements the atomic graph store.
THEOREM Refinement ==
  DistinctGraphs /\ ReliableCleanup => (Spec => ImplementsStore)
<1> SUFFICES ASSUME DistinctGraphs, ReliableCleanup PROVE Spec => ImplementsStore
  OBVIOUS
<1>1. ASSUME Init PROVE Store!Init
  <2>1. Journaled = {} BY <1>1 DEF Init, Journaled
  <2>2. SurvivingGraph \in Generations \cup {Absent}
    BY <2>1 DEF SurvivingGraph, Visible
  <2> QED BY <1>1, <2>2 DEF Init, Store!Init, Status, AfterCommit
<1>2. ASSUME Inv, Inv', [Next]_vars PROVE [Store!Next]_Store!vars
  <2> USE DEF Status, AfterCommit, Store!vars
  <2>1. CASE UnlinkJournal
    BY <1>2, <2>1, CommitStep DEF Inv, Core, UnlinkJournal, Goto, Local, Store!Next, Store!Commit
  <2>2. CASE ~UnlinkJournal
    <3>1. SurvivingGraph' = SurvivingGraph
      BY <1>2, <2>2, SurvivorStep DEF Inv, Core
    <3>2. answer \in Store!Answers
      BY <1>2 DEF Inv, TypeOK, Store!Answers
    <3>3. CASE Begin
      BY <3>1, <3>2, <3>3 DEF Begin, Store!Next, Store!Begin
    <3>4. CASE Recover
      BY <3>1, <3>4 DEF Recover, ScanJournal, ScanDone, RecoverRename, RecoverRemove,
         RecoverFirst, RecoverFirstRemoved, RecoverSkip, RecoverStage,
         RecoverJournal, Goto, Local
    <3>5. CASE Promote
      <4>1. CASE Confirm
        BY <3>1, <4>1, <1>2 DEF Confirm, Return, Inv, Progress, Store!Next, Store!Acknowledge
      <4>2. CASE AlreadyInstalled
        <5>1. SurvivingGraph = candidate
          BY <1>2, <4>2 DEF AlreadyInstalled, Inv, TypeOK, Progress, SurvivingGraph, Visible
        <5> QED BY <3>1, <4>2, <5>1 DEF AlreadyInstalled, Return, Store!Next, Store!Keep
      <4> QED
        BY <2>2, <3>1, <3>5, <4>1, <4>2 DEF Promote, StartTransaction,
           CopyStage, WritePrepared, JournalStarted, BackUpTarget, WriteBackedUp,
           RenameCandidate, WritePromoted, JournalGone, RemoveBackup, BackupGone,
           Goto, Local
    <3>6. CASE Rollback
      BY <3>1, <3>6 DEF Rollback, DiscardStage, UndoRemove, UndoRename, UndoSkip,
         UndoStage, UndoJournal, Goto, Local, Return, Store!Next, Store!Fail
    <3>7. CASE Fault
      BY <3>1, <3>7 DEF Fault, ReliableCleanup, BeforeJournal, BeforeCommit,
         Recovery, Undo, Store!Next, Store!Fail
    <3>8. CASE Crash
      BY <3>1, <3>8 DEF Crash, Store!Next, Store!Crash
    <3>9. CASE UNCHANGED vars BY <3>1, <3>9 DEF vars
    <3> QED BY <1>2, <3>3, <3>4, <3>5, <3>6, <3>7, <3>8, <3>9 DEF Next
  <2> QED BY <2>1, <2>2
<1> QED BY <1>1, <1>2, NoLapse, PTL DEF Spec, ImplementsStore, Store!Spec

-----------------------------------------------------------------------------
(* The directory the other commands find                                   *)

\* A generation that stands where a backup was taken from is the candidate of
\* the journal, so it is not the graph that survives.
Displaced ==
  \A t \in Journaled : backup[t] # Absent /\ target \in Generations
                         => Owns(target, journal[t].digest)

\* Renames and removals never put the previous graph back beside its backup.
LEMMA DisplacedStep ==
  ASSUME Inv, Displaced, [Next]_vars  PROVE Displaced'
<1> USE PromotionAssumption
    DEF PromotionAssumption, Inv, TypeOK, Trees, Phases, Journals, BeforeJournal,
        AfterCommit, fsvars, Local, Goto, Return, AtMostOneJournal, Progress, Undoing,
        Displaced, Wrote, WroteBackup, Owns, Journaled
<1>1. CASE UNCHANGED fsvars
  BY <1>1
<1>2. CASE RecoverRename \/ UndoRename
  BY <1>2 DEF RecoverRename, UndoRename, RenameBackup
<1>3. CASE RecoverRemove \/ RecoverFirst \/ RecoverFirstRemoved \/ UndoRemove
  BY <1>3 DEF RecoverRemove, RecoverFirst, RecoverFirstRemoved, UndoRemove, RemoveTarget
<1>4. CASE RecoverStage \/ UndoStage \/ DiscardStage \/ CopyStage
  BY <1>4 DEF RecoverStage, UndoStage, DiscardStage, CopyStage, ClearStage
<1>5. CASE RecoverJournal \/ UndoJournal \/ UnlinkJournal
  BY <1>5 DEF RecoverJournal, UndoJournal, UnlinkJournal, ClearJournal
<1>6. CASE WritePrepared
  BY <1>6 DEF WritePrepared, WriteJournal
<1>7. CASE WriteBackedUp
  BY <1>7 DEF WriteBackedUp, WriteJournal
<1>8. CASE WritePromoted
  BY <1>8 DEF WritePromoted, WriteJournal
<1>9. CASE BackUpTarget
  BY <1>9 DEF BackUpTarget
<1>10. CASE RenameCandidate
  BY <1>10 DEF RenameCandidate, ClearStage
<1>11. CASE RemoveBackup
  BY <1>11 DEF RemoveBackup
<1> QED
  BY <1>1, <1>2, <1>3, <1>4, <1>5, <1>6, <1>7, <1>8, <1>9, <1>10, <1>11
  DEF Next, Begin, Recover, Promote, Rollback, ScanJournal, ScanDone, RecoverSkip,
      AlreadyInstalled, StartTransaction, JournalStarted, JournalGone, BackupGone, Confirm,
      UndoSkip, Fault, Crash, vars

\* What can be found at graphify-out changes as GraphDirectory says: it is set
\* aside, installed, torn, removed or put back, and committed by one step.
THEOREM DirectoryRefinement ==
  DistinctGraphs /\ ReliableCleanup => (Spec => ImplementsDirectory)
<1> SUFFICES ASSUME DistinctGraphs, ReliableCleanup PROVE Spec => ImplementsDirectory
  OBVIOUS
<1>1. ASSUME Init PROVE Directory!Init /\ Displaced
  <2>1. Journaled = {} BY <1>1 DEF Init, Journaled
  <2> QED BY <1>1, <2>1, PromotionAssumption
          DEF Init, Directory!Init, SurvivingGraph, Visible, Trees, Displaced,
              PromotionAssumption
<1>2. ASSUME Inv, Inv', Displaced, [Next]_vars PROVE [Directory!Next]_Directory!vars
  <2> USE <1>2, PromotionAssumption DEF PromotionAssumption, Directory!vars, Directory!Next
  <2>1. CASE UnlinkJournal
    BY <2>1, CommitStep
    DEF Inv, Core, TypeOK, Progress, UnlinkJournal, Goto, Local, Directory!Commit
  <2>2. CASE ~UnlinkJournal
    <3> SurvivingGraph' = SurvivingGraph
      BY <2>2, SurvivorStep DEF Inv, Core
    <3>1. CASE target' = target
      BY <3>1
    <3>s. tx \in Journaled => SurvivingGraph = Visible(Recovered(tx))
      BY Survivor DEF Inv
    <3> USE DEF Inv, TypeOK, Trees, Journals, Phases, Progress, Undoing, Goto, Local, Visible,
                Recovered, BackupOnly, BackupWins, FirstGraph, Owns, HasBackup, NewTargetOnly,
                Unaliased, Displaced, Journaled
    <3>2. CASE RecoverRename
      BY <3>2, <3>s DEF RecoverRename, RenameBackup, Directory!Restore
    <3>3. CASE UndoRename
      BY <3>3, <3>s DEF UndoRename, RenameBackup, Directory!Restore
    <3>4. CASE RecoverRemove
      BY <3>4, <3>s DEF RecoverRemove, RemoveTarget, Directory!Tear, Directory!Remove
    <3>5. CASE RecoverFirst
      BY <3>5, <3>s DEF RecoverFirst, RemoveTarget, Directory!Tear, Directory!Remove
    <3>6. CASE RecoverFirstRemoved
      BY <3>6, <3>s DEF RecoverFirstRemoved, RemoveTarget, Directory!Tear, Directory!Remove
    <3>7. CASE UndoRemove
      BY <3>7, <3>s DEF UndoRemove, RemoveTarget, Directory!Tear, Directory!Remove
    <3>8. CASE BackUpTarget
      BY <3>8 DEF BackUpTarget, Directory!SetAside
    <3>9. CASE RenameCandidate
      BY <3>9 DEF RenameCandidate, Directory!Install
    <3> QED
      BY <2>2, <3>1, <3>2, <3>3, <3>4, <3>5, <3>6, <3>7, <3>8, <3>9
      DEF Next, Begin, Recover, Promote, Rollback, ScanJournal, ScanDone, RecoverSkip,
          RecoverStage, RecoverJournal, AlreadyInstalled, StartTransaction, CopyStage,
          WritePrepared, JournalStarted, WriteBackedUp, WritePromoted, WriteJournal,
          JournalGone, RemoveBackup, BackupGone, Confirm, DiscardStage, UndoSkip, UndoStage,
          UndoJournal, Return, Fault, Crash, vars, fsvars
  <2> QED BY <2>1, <2>2
<1>3. Inv /\ Displaced /\ [Next]_vars => Displaced'
  BY DisplacedStep
<1> QED BY <1>1, <1>2, <1>3, NoLapse, PTL DEF Spec, ImplementsDirectory, Directory!Spec

-----------------------------------------------------------------------------
(* One journal, without any assumption on faults or digests                *)

JournalShape ==
  /\ AtMostOneJournal
  /\ pc \in {"decide", "copy", "write_prepared"} => Journaled = {}
  /\ pc \in {"sync_prepared", "rename_backup", "write_backed_up",
             "rename_candidate", "write_promoted"} => tx \in Journaled

\* Whatever dies or fails, and wherever, two interrupted promotions are never
\* on disk together: recovery need not put journals in an order.
THEOREM OneJournal == Spec => []AtMostOneJournal
<1>1. Init => JournalShape
  BY DEF Init, JournalShape, AtMostOneJournal, Journaled
<1>2. ASSUME TypeOK, JournalShape, [Next]_vars PROVE JournalShape'
  <2> USE <1>2, PromotionAssumption
      DEF PromotionAssumption, TypeOK, JournalShape, AtMostOneJournal, Journaled,
          Journals, Phases, fsvars, Local, Goto, Return
  <2>1. CASE Begin BY <2>1 DEF Begin
  <2>2. CASE Recover
    BY <2>2 DEF Recover, ScanJournal, ScanDone, RecoverRename, RecoverRemove,
       RecoverFirst, RecoverFirstRemoved, RecoverSkip, RecoverStage, RecoverJournal,
       RemoveTarget, ClearJournal
  <2>3. CASE Promote
    <3>1. CASE WritePrepared BY <3>1 DEF WritePrepared, WriteJournal
    <3>2. CASE WriteBackedUp BY <3>2 DEF WriteBackedUp, WriteJournal
    <3>3. CASE WritePromoted BY <3>3 DEF WritePromoted, WriteJournal
    <3>4. CASE UnlinkJournal BY <3>4 DEF UnlinkJournal, ClearJournal
    <3> QED
      BY <2>3, <3>1, <3>2, <3>3, <3>4 DEF Promote, AlreadyInstalled,
         StartTransaction, CopyStage, JournalStarted, BackUpTarget,
         RenameCandidate, JournalGone, RemoveBackup, BackupGone, Confirm
  <2>4. CASE Rollback
    BY <2>4 DEF Rollback, DiscardStage, UndoRemove, UndoRename, UndoSkip, UndoStage,
       UndoJournal, RemoveTarget, ClearJournal
  <2>5. CASE Fault BY <2>5 DEF Fault
  <2>6. CASE Crash BY <2>6 DEF Crash
  <2>7. CASE UNCHANGED vars BY <2>7 DEF vars
  <2> QED BY <2>1, <2>2, <2>3, <2>4, <2>5, <2>6, <2>7 DEF Next
<1>3. JournalShape => AtMostOneJournal BY DEF JournalShape
<1> QED BY <1>1, <1>2, <1>3, TypeCorrect, PTL DEF Spec

-----------------------------------------------------------------------------
(* Leftovers, without any assumption on faults or digests                  *)

Left == {t \in Transactions : stage[t] # Absent \/ backup[t] # Absent}

\* The statements that leave what they have made to the ones after them.
Busy == {"write_prepared", "sync_prepared"} \cup BeforeCommit \cup AfterCommit \cup Undo

\* Deaths and failures pay for every leftover but the running transaction's.
Paid ==
  /\ IsFiniteSet(Left)
  /\ Cardinality(Left \ {tx}) <= crashes + faults
  /\ pc \notin Busy => Cardinality(Left) <= crashes + faults

Tidy ==
  /\ pc \in BeforeJournal \cup {"discard_stage", "sync_rollback", "undo_stage", "undo_journal"}
       => backup[tx] = Absent
  /\ pc \in {"write_promoted", "unlink_journal", "undo_journal"} \cup AfterCommit
       => stage[tx] = Absent

\* Every statement keeps what it leaves to the next, or to the handler.
LEMMA TidyStep == ASSUME TypeOK, Tidy, [Next]_vars PROVE Tidy'
<1> USE DEF TypeOK, Tidy, PCs, BeforeJournal, BeforeCommit, AfterCommit, Undo, Recovery,
            fsvars, Local, Goto, Return
<1>1. CASE Begin BY <1>1 DEF Begin
<1>2. CASE Recover
  BY <1>2 DEF Recover, ScanJournal, ScanDone, RecoverRename, RecoverRemove, RecoverFirst,
     RecoverFirstRemoved, RecoverSkip, RecoverStage, RecoverJournal
<1>3. CASE Promote
  <2>1. CASE AlreadyInstalled BY <2>1 DEF AlreadyInstalled
  <2>2. CASE StartTransaction BY <2>2 DEF StartTransaction, Fresh
  <2>3. CASE CopyStage BY <2>3 DEF CopyStage
  <2>4. CASE WritePrepared \/ JournalStarted BY <2>4 DEF WritePrepared, WriteJournal, JournalStarted
  <2>5. CASE BackUpTarget \/ WriteBackedUp BY <2>5 DEF BackUpTarget, WriteBackedUp, WriteJournal
  <2>6. CASE RenameCandidate BY <2>6 DEF RenameCandidate, ClearStage
  <2>7. CASE WritePromoted \/ UnlinkJournal
    BY <2>7 DEF WritePromoted, WriteJournal, UnlinkJournal, ClearJournal
  <2>8. CASE JournalGone \/ BackupGone \/ Confirm BY <2>8 DEF JournalGone, BackupGone, Confirm
  <2>9. CASE RemoveBackup BY <2>9 DEF RemoveBackup
  <2> QED BY <1>3, <2>1, <2>2, <2>3, <2>4, <2>5, <2>6, <2>7, <2>8, <2>9 DEF Promote
<1>4. CASE Rollback
  <2>1. CASE UndoRename BY <2>1 DEF UndoRename, RenameBackup
  <2>2. CASE UndoStage BY <2>2 DEF UndoStage, ClearStage
  <2> QED BY <1>4, <2>1, <2>2 DEF Rollback, DiscardStage, UndoRemove, UndoSkip, UndoJournal,
                                  HasBackup, RemoveTarget
<1>5. CASE Fault BY <1>5 DEF Fault
<1>6. CASE Crash BY <1>6 DEF Crash
<1>7. CASE UNCHANGED vars BY <1>7 DEF vars
<1> QED BY <1>1, <1>2, <1>3, <1>4, <1>5, <1>6, <1>7 DEF Next

\* What a step must do for the leftovers to stay paid for: touch no other
\* transaction's, and end the call only with nothing left or at a price.
LEMMA StaysPaid ==
  ASSUME Paid, crashes \in Nat, faults \in Nat, crashes' \in Nat, faults' \in Nat,
         tx' = tx, Left' \subseteq Left \cup {tx},
         crashes + faults <= crashes' + faults',
         \/ pc' \in Busy
         \/ pc \notin Busy /\ Left' \subseteq Left
         \/ tx \notin Left'
         \/ crashes + faults + 1 <= crashes' + faults'
  PROVE  Paid'
<1> DEFINE others == Left \ {tx}
<1>1. IsFiniteSet(others) /\ IsFiniteSet(Left \cup {tx}) /\ Cardinality(Left) \in Nat
      /\ Cardinality(others) \in Nat
  BY FS_AddElement, FS_RemoveElement, FS_CardinalityType DEF Paid
<1>2. IsFiniteSet(Left')
  BY <1>1, FS_Subset
<1>3. IsFiniteSet(Left' \ {tx}) /\ Cardinality(Left' \ {tx}) <= Cardinality(others)
  BY <1>1, FS_Subset
<1>4. /\ Cardinality(Left') \in Nat /\ Cardinality(Left' \ {tx}) \in Nat
      /\ Cardinality(Left' \ {tx}) = IF tx \in Left' THEN Cardinality(Left') - 1
                                                     ELSE Cardinality(Left')
  BY <1>2, <1>3, FS_RemoveElement, FS_CardinalityType
<1>5. Left' \subseteq Left => Cardinality(Left') <= Cardinality(Left)
  BY FS_Subset DEF Paid
<1> HIDE DEF others
<1>6. Cardinality(others) <= crashes + faults
  BY DEF Paid, others
<1>s. \A k, m, n \in Nat : k <= m /\ m <= n => k <= n
  OBVIOUS
<1>p. crashes + faults \in Nat /\ crashes' + faults' \in Nat
  <2>1. \A m, n \in Nat : m + n \in Nat
    OBVIOUS
  <2> QED BY <2>1, Zenon
<1>7. Cardinality(Left' \ {tx}) <= crashes' + faults'
  <2>1. Cardinality(Left' \ {tx}) <= crashes + faults
    BY <1>1, <1>3, <1>4, <1>6, <1>p, <1>s
  <2> QED BY <1>4, <1>p, <1>s, <2>1
<1>8. pc' \notin Busy => Cardinality(Left') <= crashes' + faults'
  <2>1. CASE pc \notin Busy /\ Left' \subseteq Left
    <3>1. Cardinality(Left') <= crashes + faults
      BY <1>1, <1>4, <1>5, <1>p, <1>s, <2>1 DEF Paid
    <3> QED BY <1>4, <1>p, <1>s, <3>1
  <2>2. CASE tx \notin Left'
    BY <1>4, <1>7, <2>2
  <2>3. CASE crashes + faults + 1 <= crashes' + faults'
    <3>1. Cardinality(Left') <= Cardinality(Left' \ {tx}) + 1
      BY <1>4
    <3>2. Cardinality(Left' \ {tx}) <= crashes + faults
      BY <1>1, <1>3, <1>4, <1>6, <1>p, <1>s
    <3>3. \A j, k, m, n \in Nat : j <= k + 1 /\ k <= m /\ m + 1 <= n => j <= n
      OBVIOUS
    <3> QED BY <1>4, <1>p, <2>3, <3>1, <3>2, <3>3
  <2> QED BY <2>1, <2>2, <2>3
<1> QED BY <1>2, <1>7, <1>8 DEF Paid, Busy

\* The transaction that recovery takes up, or a new one, has nothing on disk
\* that is not paid for.
LEMMA TakesUp ==
  ASSUME Paid, crashes \in Nat, faults \in Nat, UNCHANGED <<fsvars, env>>,
         pc \notin Busy  PROVE Paid'
<1>1. Left' = Left /\ crashes' = crashes /\ faults' = faults
  BY DEF Left, fsvars, env
<1>2. IsFiniteSet(Left) /\ Cardinality(Left) <= crashes + faults
  BY DEF Paid
<1>3. Cardinality(Left \ {tx'}) <= Cardinality(Left)
  BY <1>2, FS_Subset
<1>4. Cardinality(Left) \in Nat /\ Cardinality(Left \ {tx'}) \in Nat
  BY <1>2, FS_RemoveElement, FS_CardinalityType
<1> QED BY <1>1, <1>2, <1>3, <1>4 DEF Paid

\* Every step pays for the leftovers it makes.
LEMMA PaidStep == ASSUME TypeOK, TypeOK', Tidy, Tidy', Paid, [Next]_vars PROVE Paid'
<1>0. crashes \in Nat /\ faults \in Nat /\ crashes' \in Nat /\ faults' \in Nat
  BY PromotionAssumption DEF TypeOK, PromotionAssumption
<1>b. Busy \cap ({"idle", "decide", "confirm", "copy"} \cup Recovery) = {}
  BY DEF Busy, BeforeCommit, AfterCommit, Undo, Recovery
<1>1. CASE Begin
  BY <1>0, <1>b, <1>1, TakesUp DEF Begin
<1>2. CASE ScanJournal \/ StartTransaction
  BY <1>0, <1>b, <1>2, TakesUp DEF ScanJournal, StartTransaction, Goto, Recovery
<1> USE DEF Goto, Local, env
<1>3. CASE Recover /\ ~ScanJournal
  <2>1. pc \in Recovery /\ pc' \in Recovery \cup {"decide"} /\ tx' = tx
        /\ crashes' = crashes /\ faults' = faults
    BY <1>3 DEF Recover, ScanDone, RecoverRename, RecoverRemove, RecoverFirst,
       RecoverFirstRemoved, RecoverSkip, RecoverStage, RecoverJournal, Recovery
  <2>2. Left' \subseteq Left
    BY <1>3 DEF Recover, ScanDone, RecoverRename, RecoverRemove, RecoverFirst, TypeOK,
       RecoverFirstRemoved, RecoverSkip, RecoverStage, RecoverJournal, RemoveTarget,
       RenameBackup, ClearStage, ClearJournal, Left, fsvars
  <2> QED BY <1>0, <1>b, <2>1, <2>2, StaysPaid
<1>4. CASE AlreadyInstalled
  <2>1. Left' = Left BY <1>4 DEF AlreadyInstalled, Left, fsvars
  <2> QED BY <1>0, <1>b, <1>4, <2>1, StaysPaid DEF AlreadyInstalled, Return
<1>5. CASE Promote /\ ~AlreadyInstalled /\ ~StartTransaction /\ ~Confirm
  <2>1. tx' = tx /\ crashes' = crashes /\ faults' = faults
    BY <1>5 DEF Promote, CopyStage, WritePrepared, JournalStarted, BackUpTarget,
       WriteBackedUp, RenameCandidate, WritePromoted, UnlinkJournal, JournalGone,
       RemoveBackup, BackupGone
  <2>2. Left' \subseteq Left \cup {tx}
    BY <1>5 DEF Promote, CopyStage, WritePrepared, JournalStarted, BackUpTarget,
       WriteBackedUp, RenameCandidate, WritePromoted, UnlinkJournal, JournalGone,
       RemoveBackup, BackupGone, WriteJournal, ClearStage, ClearJournal, Left, fsvars, TypeOK
  <2>3. CASE (JournalGone /\ backup[tx] = Absent) \/ BackupGone
    <3>1. tx \notin Left'
      BY <2>3 DEF JournalGone, BackupGone, Tidy, AfterCommit, Left, fsvars
    <3> QED BY <1>0, <2>1, <2>2, <3>1, StaysPaid
  <2>4. CASE ~((JournalGone /\ backup[tx] = Absent) \/ BackupGone)
    <3>1. pc' \in Busy
      BY <1>5, <2>4 DEF Promote, CopyStage, WritePrepared, JournalStarted, BackUpTarget,
         WriteBackedUp, RenameCandidate, WritePromoted, UnlinkJournal, JournalGone,
         RemoveBackup, Busy, BeforeCommit, AfterCommit
    <3> QED BY <1>0, <2>1, <2>2, <3>1, StaysPaid
  <2> QED BY <2>3, <2>4
<1>6. CASE Confirm
  <2>1. Left' = Left BY <1>6 DEF Confirm, Left, fsvars
  <2> QED BY <1>0, <1>b, <1>6, <2>1, StaysPaid DEF Confirm, Return
<1>7. CASE Rollback
  <2>1. tx' = tx /\ crashes' = crashes /\ faults' = faults
    BY <1>7 DEF Rollback, DiscardStage, UndoRemove, UndoRename, UndoSkip, UndoStage,
       UndoJournal, Return
  <2>2. Left' \subseteq Left \cup {tx}
    BY <1>7 DEF Rollback, DiscardStage, UndoRemove, UndoRename, UndoSkip, UndoStage,
       UndoJournal, RemoveTarget, RenameBackup, ClearStage, ClearJournal, Left, fsvars, TypeOK
  <2>3. CASE DiscardStage \/ UndoJournal
    <3>1. tx \notin Left'
      BY <2>3 DEF DiscardStage, UndoJournal, Tidy, ClearStage, Left, TypeOK
    <3> QED BY <1>0, <2>1, <2>2, <3>1, StaysPaid
  <2>4. CASE ~(DiscardStage \/ UndoJournal)
    <3>1. pc' \in Busy
      BY <1>7, <2>4 DEF Rollback, UndoRemove, UndoRename, UndoSkip, UndoStage, Busy, Undo
    <3> QED BY <1>0, <2>1, <2>2, <3>1, StaysPaid
  <2> QED BY <2>3, <2>4
<1>8. CASE Fault \/ Crash
  <2>1. UNCHANGED <<fsvars, tx>>
    BY <1>8 DEF Fault, Crash
  <2>2. tx' = tx /\ Left' = Left
    BY <2>1 DEF Left, fsvars
  <2>3. CASE Fault
    BY <1>0, <2>2, <2>3, StaysPaid DEF Fault
  <2>4. CASE Crash
    BY <1>0, <2>2, <2>4, StaysPaid DEF Crash
  <2> QED BY <1>8, <2>3, <2>4
<1>9. CASE UNCHANGED vars
  <2>1. Left' = Left /\ tx' = tx /\ pc' = pc /\ crashes' = crashes /\ faults' = faults
    BY <1>9 DEF vars, Left
  <2> QED BY <1>0, <2>1, StaysPaid
<1> QED BY <1>1, <1>2, <1>3, <1>4, <1>5, <1>6, <1>7, <1>8, <1>9 DEF Next

\* Staged copies and backups never pile up, whatever dies or fails and however
\* often: each one left behind was left by a death or a failure of its own.
THEOREM LeftoversArePaid == Spec => []LeftoversBounded
<1>1. ASSUME Init PROVE Paid /\ Tidy
  <2>1. Left = {} /\ crashes = 0 /\ faults = 0 /\ pc = "idle"
    BY <1>1 DEF Init, Left
  <2>2. Left \ {tx} = {} BY <2>1
  <2>3. IsFiniteSet({}) /\ Cardinality({}) = 0 BY FS_EmptySet
  <2> QED BY <2>1, <2>2, <2>3 DEF Paid, Tidy, BeforeJournal, AfterCommit
<1>2. ASSUME TypeOK, Paid, Tidy, [Next]_vars PROVE Paid' /\ Tidy'
  BY <1>2, TypeStep, TidyStep, PaidStep
<1>3. ASSUME TypeOK, Paid PROVE LeftoversBounded
  <2>1. crashes \in Nat /\ faults \in Nat
    BY <1>3, PromotionAssumption DEF TypeOK, PromotionAssumption
  <2>2. Cardinality(Left \ {tx}) = IF tx \in Left THEN Cardinality(Left) - 1 ELSE Cardinality(Left)
    BY <1>3, FS_RemoveElement DEF Paid
  <2>3. Cardinality(Left) \in Nat
    BY <1>3, FS_CardinalityType DEF Paid
  <2>4. "idle" \notin Busy
    BY DEF Busy, BeforeCommit, AfterCommit, Undo
  <2>5. Cardinality(Left) <= crashes + faults + (IF pc = "idle" THEN 0 ELSE 1)
    BY <1>3, <2>1, <2>2, <2>3, <2>4 DEF Paid
  <2> QED BY <2>5 DEF LeftoversBounded, Left
<1> QED BY <1>1, <1>2, <1>3, TypeCorrect, PTL DEF Spec
=============================================================================
