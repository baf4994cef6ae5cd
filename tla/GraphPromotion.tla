--------------------------- MODULE GraphPromotion ---------------------------
(***************************************************************************)
(* artifacts.promote_graph: how a validated candidate replaces             *)
(* graphify-out through a staged copy, a journal and a backup; how a       *)
(* caught failure is rolled back; how the journal of an interrupted        *)
(* promotion is recovered by the next one.                                 *)
(*                                                                         *)
(* One process at a time gets here (the lifecycle lock and promotion.lock, *)
(* see CheckoutLifecycle), so there is one program counter.  Every file    *)
(* system call that another process could find half done, or after which   *)
(* this one can die or fail, is a step of its own.  Crash kills the        *)
(* process: the file system keeps what it has.  Fault makes the operation  *)
(* at pc raise; FaultPoints says which operations may.                     *)
(***************************************************************************)
EXTENDS Naturals, FiniteSets

CONSTANTS Generations,   \* generation digests of validated candidates
          Digests,       \* SHA-256 values of graph.json
          GraphDigest,   \* the graph.json digest of a generation
          Transactions,  \* secrets.token_hex(16): never collides with one in use
          Absent,        \* no directory at this path
          Torn,          \* a directory that is no whole generation: files are gone
          NoJournal,     \* no journal file at this path
          FaultPoints,   \* program points whose operation may raise
          MaxCrashes, MaxFaults  \* bounds of the environment

Phases == {"prepared", "backed_up", "promoted"}

\* The statements inside promote's try block, before and after journal_started.
BeforeJournal == {"copy", "write_prepared", "sync_prepared"}
BeforeCommit == {"rename_backup", "write_backed_up", "rename_candidate",
                 "write_promoted", "unlink_journal"}
AfterCommit == {"sync_transactions", "remove_backup", "sync_rollback"}
Undo == {"discard_stage", "undo_target", "undo_stage", "undo_journal"}
Recovery == {"scan", "restore", "remove_first", "clear_stage", "clear_journal"}
PCs == {"idle", "decide", "confirm"} \cup BeforeJournal \cup BeforeCommit
       \cup AfterCommit \cup Undo \cup Recovery

Trees == Generations \cup {Absent, Torn}
Journals == [phase: Phases, digest: Digests]

ASSUME PromotionAssumption ==
         /\ GraphDigest \in [Generations -> Digests]
         /\ Absent \notin Generations /\ Torn \notin Generations
         /\ Absent # Torn
         /\ NoJournal \notin Journals
         /\ FaultPoints \subseteq PCs
         /\ MaxCrashes \in Nat /\ MaxFaults \in Nat

VARIABLES target,     \* graphify-out
          stage,      \* staging/<transaction>
          backup,     \* rollback/<transaction>
          journal,    \* transactions/<transaction>.json
          pc, tx, candidate,
          answer,     \* what the last promote_graph call told its caller
          prior,      \* history: the graph that survived when the call began
          lapse,      \* history: how the transaction lost what atomicity rests on
          crashes, faults

fsvars == <<target, stage, backup, journal>>
env == <<crashes, faults>>
vars == <<target, stage, backup, journal, pc, tx, candidate, answer, prior, lapse,
          crashes, faults>>

Journaled == {t \in Transactions : journal[t] # NoJournal}

\* _owned_target_digest(target) = digest: only a whole generation has one.
Owns(tree, digest) == tree \in Generations /\ GraphDigest[tree] = digest

\* What validate_owned_graph lets a reader see of a directory.
Visible(tree) == IF tree \in Generations THEN tree ELSE Absent

-----------------------------------------------------------------------------
(* The three branches of _recover_interrupted, decided on what is on disk. *)

BackupOnly(t) == /\ journal[t].phase = "prepared"
                 /\ backup[t] # Absent /\ target = Absent
\* Mutant: the last journal phase is forgotten.
BackupWinsUntilPromoted(t) == journal[t].phase = "backed_up" /\ backup[t] # Absent

BackupWins(t) == /\ journal[t].phase \in {"backed_up", "promoted"}
                 /\ backup[t] # Absent
\* Mutant: whoever owns the target, it is removed.
FirstGraphUnowned(t) == /\ journal[t].phase \in {"prepared", "promoted"}
                        /\ backup[t] = Absent /\ stage[t] = Absent
                        /\ target \in Generations

FirstGraph(t) == /\ journal[t].phase \in {"prepared", "promoted"}
                 /\ backup[t] = Absent /\ stage[t] = Absent
                 /\ Owns(target, journal[t].digest)

\* The directory at graphify-out once journal t has been recovered.
Recovered(t) == IF BackupOnly(t) \/ BackupWins(t) THEN backup[t]
                ELSE IF FirstGraph(t) THEN Absent ELSE target

\* The graph the repository holds if the process dies now and the next
\* promotion recovers.
SurvivingGraph == IF Journaled = {} THEN Visible(target)
                  ELSE Visible(Recovered(CHOOSE t \in Journaled : TRUE))

-----------------------------------------------------------------------------
Init == /\ target \in Trees
        /\ stage = [t \in Transactions |-> Absent]
        /\ backup = [t \in Transactions |-> Absent]
        /\ journal = [t \in Transactions |-> NoJournal]
        /\ pc = "idle"
        /\ tx \in Transactions
        /\ candidate \in Generations
        /\ answer = "never"
        /\ prior = Visible(target) /\ lapse = "none"
        /\ crashes = 0 /\ faults = 0

\* promote_graph is called and gets promotion.lock.  What went wrong before matters
\* only as far as a journal is left.
Begin == /\ pc = "idle" /\ pc' = "scan"
         /\ candidate' \in Generations
         /\ prior' = SurvivingGraph
         /\ lapse' = IF Journaled = {} THEN "none" ELSE lapse
         /\ UNCHANGED <<fsvars, tx, answer, env>>

Goto(from, to) == pc = from /\ pc' = to

\* Steps that touch the file system only; the call's own record stays.
Local == UNCHANGED <<tx, candidate, answer, prior, lapse, env>>

-----------------------------------------------------------------------------
(* _recover_all_transactions and _recover_interrupted                      *)

ScanJournal == /\ Goto("scan", "restore")
               /\ tx' \in Journaled
               /\ UNCHANGED <<fsvars, candidate, answer, prior, lapse, env>>

ScanDone == /\ Goto("scan", "decide")
            /\ Journaled = {}
            /\ UNCHANGED fsvars /\ Local

RenameBackup == /\ target' = backup[tx]
                /\ backup' = [backup EXCEPT ![tx] = Absent]

\* One step of remove_tree, which empties a directory file by file: the
\* directory is torn before it is gone.
RemoveTarget == /\ target # Absent
                /\ target' = IF target = Torn THEN Absent ELSE Torn
                /\ UNCHANGED <<stage, backup, journal>>

RecoverRename == /\ Goto("restore", "clear_stage")
                 /\ BackupOnly(tx) \/ (BackupWins(tx) /\ target = Absent)
                 /\ RenameBackup
                 /\ UNCHANGED <<stage, journal>> /\ Local

RecoverRemove == /\ Goto("restore", "restore")
                 /\ BackupWins(tx)
                 /\ RemoveTarget /\ Local

\* No backup: the target is the interrupted candidate of a first promotion.
RecoverFirst == /\ Goto("restore", "remove_first")
                /\ FirstGraph(tx)
                /\ RemoveTarget /\ Local

RecoverFirstRemoved == /\ Goto("remove_first", "clear_stage")
                       /\ RemoveTarget /\ Local

RecoverSkip == /\ Goto("restore", "clear_stage")
               /\ ~BackupOnly(tx) /\ ~BackupWins(tx) /\ ~FirstGraph(tx)
               /\ UNCHANGED fsvars /\ Local

ClearStage == stage' = [stage EXCEPT ![tx] = Absent]
ClearJournal == journal' = [journal EXCEPT ![tx] = NoJournal]

RecoverStage == /\ Goto("clear_stage", "clear_journal")
                /\ ClearStage
                /\ UNCHANGED <<target, backup, journal>> /\ Local

\* Mutant: a recovered journal stays.
RecoverKeepsJournal == Goto("clear_journal", "scan") /\ UNCHANGED fsvars /\ Local

RecoverJournal == /\ Goto("clear_journal", "scan")
                  /\ ClearJournal
                  /\ UNCHANGED <<target, stage, backup>> /\ Local

Recover == \/ ScanJournal \/ ScanDone
           \/ RecoverRename \/ RecoverRemove \/ RecoverFirst
           \/ RecoverFirstRemoved \/ RecoverSkip
           \/ RecoverStage \/ RecoverJournal

-----------------------------------------------------------------------------
(* _promote_graph_locked                                                   *)

Return(result) == /\ pc' = "idle" /\ answer' = result
                  /\ UNCHANGED <<tx, candidate, prior, lapse, env>>

AlreadyInstalled == /\ pc = "decide" /\ target = candidate
                    /\ UNCHANGED fsvars
                    /\ Return("unchanged")

\* Ids no file is named after: a random id is like any of them.
Fresh == {t \in Transactions : /\ stage[t] = Absent /\ backup[t] = Absent
                               /\ journal[t] = NoJournal}

\* Mutant: an installed candidate is promoted over itself.
StartRegardless == /\ Goto("decide", "copy")
                   /\ tx' \in Fresh
                   /\ UNCHANGED <<fsvars, candidate, answer, prior, lapse, env>>

StartTransaction == /\ Goto("decide", "copy")
                    /\ target # candidate
                    /\ tx' \in Fresh
                    /\ UNCHANGED <<fsvars, candidate, answer, prior, lapse, env>>

CopyStage == /\ Goto("copy", "write_prepared")
             /\ stage' = [stage EXCEPT ![tx] = candidate]
             /\ UNCHANGED <<target, backup, journal>> /\ Local

\* os.replace makes the journal visible; the fsync after it may still fail.
WriteJournal(phase) ==
    /\ journal' = [journal EXCEPT ![tx] =
                      [phase |-> phase, digest |-> GraphDigest[candidate]]]
    /\ UNCHANGED <<target, stage, backup>>

\* The candidate is named by the digest of its graph.json, which the graph that it
\* replaces may have as well.
WritePrepared == /\ Goto("write_prepared", "sync_prepared")
                 /\ WriteJournal("prepared")
                 /\ lapse' = IF Owns(target, GraphDigest[candidate]) THEN "alias" ELSE lapse
                 /\ UNCHANGED <<tx, candidate, answer, prior, env>>

\* _write_journal returned: journal_started is True from here on.
JournalStarted == /\ pc = "sync_prepared"
                  /\ pc' = IF target = Absent THEN "rename_candidate"
                                              ELSE "rename_backup"
                  /\ UNCHANGED fsvars /\ Local

BackUpTarget == /\ Goto("rename_backup", "write_backed_up")
                /\ backup' = [backup EXCEPT ![tx] = target]
                /\ target' = Absent
                /\ UNCHANGED <<stage, journal>> /\ Local

WriteBackedUp == Goto("write_backed_up", "rename_candidate")
                 /\ WriteJournal("backed_up") /\ Local

RenameCandidate == /\ Goto("rename_candidate", "write_promoted")
                   /\ target' = stage[tx]
                   /\ ClearStage
                   /\ UNCHANGED <<backup, journal>> /\ Local

WritePromoted == Goto("write_promoted", "unlink_journal")
                 /\ WriteJournal("promoted") /\ Local

UnlinkJournal == /\ Goto("unlink_journal", "sync_transactions")
                 /\ ClearJournal
                 /\ UNCHANGED <<target, stage, backup>> /\ Local

\* Mutant: the backup of a finished promotion is left behind.
JournalGoneBackupKept == Goto("sync_transactions", "confirm")
                         /\ UNCHANGED fsvars /\ Local

JournalGone == /\ pc = "sync_transactions"
               /\ pc' = IF backup[tx] = Absent THEN "confirm" ELSE "remove_backup"
               /\ UNCHANGED fsvars /\ Local

RemoveBackup == /\ pc = "remove_backup"
                /\ backup' = [backup EXCEPT ![tx] =
                                 IF backup[tx] = Torn THEN Absent ELSE Torn]
                /\ pc' = IF backup[tx] = Torn THEN "sync_rollback" ELSE pc
                /\ UNCHANGED <<target, stage, journal>> /\ Local

BackupGone == /\ Goto("sync_rollback", "confirm")
              /\ UNCHANGED fsvars /\ Local

Confirm == /\ pc = "confirm"
           /\ Return(IF target = candidate THEN "promoted" ELSE "failed")
           /\ UNCHANGED fsvars

Promote == \/ AlreadyInstalled \/ StartTransaction
           \/ CopyStage \/ WritePrepared \/ JournalStarted
           \/ BackUpTarget \/ WriteBackedUp
           \/ RenameCandidate \/ WritePromoted
           \/ UnlinkJournal \/ JournalGone \/ RemoveBackup \/ BackupGone
           \/ Confirm

-----------------------------------------------------------------------------
(* The except clause and _rollback_transaction                             *)

DiscardStage == /\ pc = "discard_stage"
                /\ ClearStage
                /\ UNCHANGED <<target, backup, journal>>
                /\ Return("failed")

\* Mutant: the backup is only restored over a missing target.
HasBackupToPlace == backup[tx] # Absent /\ target = Absent

HasBackup == backup[tx] # Absent
NewTargetOnly == backup[tx] = Absent /\ stage[tx] = Absent /\ target # Absent

UndoRemove == /\ Goto("undo_target", "undo_target")
              /\ HasBackup \/ NewTargetOnly
              /\ RemoveTarget /\ Local

UndoRename == /\ Goto("undo_target", "undo_stage")
              /\ HasBackup /\ target = Absent
              /\ RenameBackup
              /\ UNCHANGED <<stage, journal>> /\ Local

UndoSkip == /\ Goto("undo_target", "undo_stage")
            /\ ~HasBackup /\ ~NewTargetOnly
            /\ UNCHANGED fsvars /\ Local

UndoStage == /\ Goto("undo_stage", "undo_journal")
             /\ ClearStage
             /\ UNCHANGED <<target, backup, journal>> /\ Local

UndoJournal == /\ pc = "undo_journal"
               /\ ClearJournal
               /\ UNCHANGED <<target, stage, backup>>
               /\ Return("failed")

Rollback == \/ DiscardStage \/ UndoRemove \/ UndoRename \/ UndoSkip
            \/ UndoStage \/ UndoJournal

-----------------------------------------------------------------------------
(* The environment                                                         *)

\* The operation at pc raises.  Inside the try block the handler takes over;
\* outside it, and in the handler itself, the error ends the call.  After the
\* commit the handler would undo a promotion whose backup is already going.
Fault == /\ pc \in FaultPoints \ {"idle"}
         /\ faults < MaxFaults /\ faults' = faults + 1
         /\ \/ /\ pc \in BeforeJournal /\ pc' = "discard_stage"
               /\ UNCHANGED answer
            \/ /\ pc \in BeforeCommit \cup AfterCommit /\ pc' = "undo_target"
               /\ UNCHANGED answer
            \/ /\ pc \in Recovery \cup Undo
               /\ pc' = "idle" /\ answer' = "failed"
         /\ lapse' = IF pc \in AfterCommit THEN "cleanup" ELSE lapse
         /\ UNCHANGED <<fsvars, tx, candidate, prior, crashes>>

\* The process dies; its locks die with it.
Crash == /\ pc # "idle"
         /\ crashes < MaxCrashes /\ crashes' = crashes + 1
         /\ pc' = "idle" /\ answer' = "crashed"
         /\ UNCHANGED <<fsvars, tx, candidate, prior, lapse, faults>>

Next == Begin \/ Recover \/ Promote \/ Rollback \/ Fault \/ Crash

Spec == Init /\ [][Next]_vars

\* A process that is neither killed nor stopped runs to the end of the call.
Fairness == WF_vars(Recover \/ Promote \/ Rollback)
FairSpec == Spec /\ Fairness

\* ... and somebody goes on asking for promotions.
RetriedSpec == FairSpec /\ WF_vars(Begin)

-----------------------------------------------------------------------------
(* Properties                                                              *)

\* Type invariant: paths hold trees and journals, pc names a statement of
\* promote_graph or of its recovery or rollback.
TypeOK == /\ target \in Trees
          /\ stage \in [Transactions -> Trees]
          /\ backup \in [Transactions -> Trees]
          /\ journal \in [Transactions -> Journals \cup {NoJournal}]
          /\ pc \in PCs /\ tx \in Transactions /\ candidate \in Generations
          /\ answer \in {"never", "unchanged", "promoted", "failed", "crashed"}
          /\ prior \in Generations \cup {Absent} /\ lapse \in {"none", "alias", "cleanup"}
          /\ crashes \in 0..MaxCrashes /\ faults \in 0..MaxFaults

\* _recover_all_transactions loops over transactions/*.json, but recovering
\* them one by one is only meaningful because they never pile up: every
\* promotion recovers before it writes its own, whatever died before it.
AtMostOneJournal == \A s, t \in Journaled : s = t

\* The docstring of promote_graph: a caught failure restores what was there.
FailureRestoresPrevious ==
    pc = "idle" /\ answer = "failed" => SurvivingGraph = prior

\* The transaction has lapsed: its cleanup failed after the commit, or what it was to
\* replace has the candidate's graph.json.
Lapsed == lapse # "none"

\* Neither a death nor a failure anywhere in promotion, rollback or recovery
\* takes away the repository's graph: it is only ever replaced by another.
KeepsAGraph == SurvivingGraph \in Generations => SurvivingGraph' \in Generations
GraphNeverLost == [][KeepsAGraph]_vars

\* Staged copies and backups do not accumulate: beyond the running
\* transaction's, each one left in the state directory is owed to a death or
\* to a failed cleanup.
LeftoversBounded ==
    Cardinality({t \in Transactions : stage[t] # Absent \/ backup[t] # Absent})
        <= crashes + faults + (IF pc = "idle" THEN 0 ELSE 1)

\* Two things atomicity rests on, and lapse says when one is missing.  graph.json
\* tells the generations apart: a journal names its candidate by that digest only.
DistinctGraphs == \A g, h \in Generations : GraphDigest[g] = GraphDigest[h] => g = h

\* Nothing raises once the journal is unlinked: the except clause would undo
\* a promotion whose backup is already going.
ReliableCleanup == FaultPoints \cap AfterCommit = {}

\* What the caller sees of the program counter.
Status == CASE pc = "idle" -> answer
            [] pc \in AfterCommit \cup {"confirm"} -> "committed"
            [] OTHER -> "working"

Store == INSTANCE GraphStore WITH graph <- SurvivingGraph, status <- Status

\* promote_graph is atomic: unlinking the journal is the one step that changes
\* the graph, and the answer tells on which side of it the call ended.
ImplementsStore == Store!Spec

Directory == INSTANCE GraphDirectory WITH graph <- SurvivingGraph

\* What CheckoutLifecycle builds on: the directory goes through removals and
\* renames the surviving graph has no part in, until one step commits it.
ImplementsDirectory == Directory!Spec

\* No journal blocks the repository for good: while promotions are asked for
\* and deaths and faults do not go on for ever, an interrupted one is recovered.
JournalsDrain == Journaled # {} ~> Journaled = {}

-----------------------------------------------------------------------------
(* The inductive invariant behind atomicity                                *)

\* Recovering t would not touch graphify-out any more.
Settled(t) == ~BackupOnly(t) /\ ~BackupWins(t) /\ ~FirstGraph(t)

\* What a recovery of t spares is never mistaken for its candidate.
Unaliased(t) ==
    /\ backup[t] \in Generations => GraphDigest[backup[t]] # journal[t].digest
    /\ stage[t] # Absent => ~Owns(target, journal[t].digest)

\* The running transaction's journal.
Wrote(phase) == /\ tx \in Journaled
                /\ journal[tx] = [phase |-> phase, digest |-> GraphDigest[candidate]]

\* Whether there is a graph to restore shows in the journal before the
\* candidate is renamed, and in the backup.
WroteBackup == IF backup[tx] = Absent THEN Wrote("prepared") ELSE Wrote("backed_up")

\* What the running transaction has on disk.
Progress ==
    /\ pc \in {"decide", "copy", "write_prepared"} \cup AfterCommit \cup {"confirm"}
         => Journaled = {}
    /\ pc \in {"copy", "write_prepared", "sync_prepared", "rename_backup"}
         => target # candidate /\ backup[tx] = Absent
    /\ pc \in {"write_prepared", "sync_prepared", "rename_backup",
               "write_backed_up", "rename_candidate"} => stage[tx] = candidate
    /\ pc \in {"sync_prepared", "rename_backup", "write_backed_up"}
         => Wrote("prepared")
    /\ pc = "rename_backup" => target # Absent
    /\ pc = "write_backed_up" => backup[tx] # Absent
    /\ pc \in {"write_backed_up", "rename_candidate"} => target = Absent
    /\ pc \in {"rename_candidate", "write_promoted"} => WroteBackup
    /\ pc \in {"write_promoted", "unlink_journal"} => stage[tx] = Absent
    /\ pc \in {"write_promoted", "unlink_journal", "confirm"} \cup AfterCommit
         => target = candidate
    /\ pc = "unlink_journal" => Wrote("promoted")

\* What recovery and rollback rely on.
Undoing ==
    /\ pc \in {"restore", "remove_first", "clear_stage", "clear_journal",
               "undo_target", "undo_stage", "undo_journal"} => tx \in Journaled
    /\ pc = "remove_first" => target = Torn /\ backup[tx] = Absent
    /\ pc \in {"clear_stage", "clear_journal", "undo_stage", "undo_journal"}
         => Settled(tx)
    /\ pc = "undo_target" =>
         /\ HasBackup => BackupWins(tx) \/ target = Absent
         /\ NewTargetOnly /\ target # Torn => FirstGraph(tx)

\* The graph that survives is the one the call found until the journal is gone.
Keeps == \/ pc = "idle" /\ answer # "failed"
         \/ pc \in AfterCommit \cup {"confirm"}
         \/ SurvivingGraph = prior

Inv == /\ TypeOK /\ AtMostOneJournal
       /\ \A t \in Journaled : Unaliased(t)
       /\ Progress /\ Undoing /\ Keeps
=============================================================================
