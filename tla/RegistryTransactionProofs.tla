--------------------- MODULE RegistryTransactionProofs ---------------------
(***************************************************************************)
(* Machine-checked theorems about RegistryTransaction, for any projects,   *)
(* snapshots, syncs, readers and bounds of the environment.                *)
(***************************************************************************)
EXTENDS RegistryTransaction, TLAPS

\* What sync p does, with its environment.
SyncStep(p) == Call(p) \/ Work(p) \/ Fault(p) \/ Crash(p)

-----------------------------------------------------------------------------
(* The lock                                                                *)

\* Of the syncs only p moves, it enters the lock only when it is free, and it
\* touches the files only in the lock.
LEMMA Framing ==
    ASSUME TypeOK, NEW p \in Syncs, SyncStep(p)
    PROVE  /\ \A q \in Syncs \ {p} : /\ pc'[q] = pc[q] /\ want'[q] = want[q]
                                     /\ created'[q] = created[q]
                                     /\ old'[q] = old[q] /\ todo'[q] = todo[q]
           /\ UNCHANGED readers
           /\ Holding(p)' => \/ Holding(p)
                             \/ /\ \A q \in Syncs : ~Holding(q)
                                /\ \A r \in Readers : ~Reading(r)
           /\ ~Holding(p) => UNCHANGED disk
<1> USE DEF TypeOK, Holding, Critical, Recovery, Preparing, Staging, Committing,
            call, env, Goto, Leave, Refuse, Round
<1>1. CASE Call(p) BY <1>1 DEF Call, Admit
<1>2. CASE Fault(p) BY <1>2 DEF Fault, FaultBefore, FaultDropping, FaultAfter
<1>3. CASE Crash(p) BY <1>3 DEF Crash
<1>4. CASE GetLock(p) /\ UNCHANGED <<readers, env>> BY <1>4 DEF GetLock
<1>5. CASE Busy(p) /\ UNCHANGED <<readers, env>> BY <1>5 DEF Busy
<1>6. CASE Recover(p) /\ UNCHANGED <<readers, env>>
  BY <1>6
  DEF Recover, RecoverNothing, RecoverTorn, RecoverForward, RecoverBack, UndoKept,
      UndoUnlink, UndoRefused, UndoWrite, UndoReplace, DropSnapshot, DropDone, Clean, Clear
<1>7. CASE Transact(p) /\ UNCHANGED <<readers, env>>
  BY <1>7
  DEF Transact, Inspect, InspectRefused, InstallSnapshot, ReuseSnapshot, InstallRefused,
      Validate, UnchangedRemove, Unchanged, Stage, CreateJournal, FillJournal,
      JournalWritten, Backup, Replace, Cleanup, Unlink, Synced, VerifyFails, Return,
      DiscardSnapshot, Raise
<1> QED BY <1>1, <1>2, <1>3, <1>4, <1>5, <1>6, <1>7 DEF SyncStep, Work

\* One sync, or readers, hold registry.lock.
LEMMA ExclusionStep == ASSUME TypeOK, Exclusion, [Next]_vars PROVE Exclusion'
<1>1. CASE UNCHANGED <<pc, rpc>> BY <1>1 DEF Exclusion, Holding, Reading
<1>2. ASSUME NEW p \in Syncs, SyncStep(p) PROVE Exclusion'
  BY <1>2, Framing DEF Exclusion, Holding, Reading, readers
<1>3. ASSUME NEW r \in Readers, Read(r) PROVE Exclusion'
  <2>1. pc' = pc BY <1>3 DEF Read
  <2>2. /\ \A q \in Readers \ {r} : rpc'[q] = rpc[q]
        /\ Reading(r)' => Reading(r) \/ \A p \in Syncs : ~Holding(p)
    BY <1>3
    DEF Read, Capture, OpenCapture, ReadRegistry, CaptureEntries, Reread, GiveUp, Step,
        Reading, TypeOK
  <2> QED BY <2>1, <2>2 DEF Exclusion, Holding, Reading
<1> QED BY <1>1, <1>2, <1>3 DEF Next, SyncStep, GraphifyWrites, vars, readers

-----------------------------------------------------------------------------
(* Types                                                                   *)

Hand(p) == RecoveryOf(p) /\ PreparationOf(p) /\ TransactionOf(p)
Hands == \A p \in Syncs : Hand(p)

\* A loop goes on with one of the files it has left.
LEMMA TurnLeft ==
    ASSUME NEW p \in Syncs, todo[p] \subseteq Files, todo[p] # {}
    PROVE  Turn(p) \in todo[p] /\ Turn(p) \in Files
BY DEF Turn, First, FirstSorted, Files

\* A journal that is whole has the fields of one.
LEMMA JournalType ==
    ASSUME TypeOK, Journaled
    PROVE  /\ journal \in Journals
           /\ journal.old \in [Files -> Contents] /\ journal.new \in Documents
           /\ journal.snapshot \in Snapshots /\ journal.created \in BOOLEAN
BY DEF TypeOK, Journaled, Journals

\* Syncing a snapshot makes a document of a document.
LEMMA AddedType ==
    ASSUME NEW v \in Documents \cup {Absent}, NEW s \in Snapshots
    PROVE  /\ Added(v, s) \in Documents
           /\ Generation(Added(v, s)) = Generation(v) + 1
           /\ Added(v, s) # v
           /\ Entries(Added(v, s))[KeyOf[s]] = s
           /\ Listed(Added(v, s)) \subseteq Listed(v) \cup {s}
<1> USE RegistryAssumption DEF RegistryAssumption
<1>1. Entries(v) \in [Keys -> Snapshots \cup {NoEntry}] /\ Generation(v) \in Nat
  BY DEF Entries, Generation, Documents
<1>2. Added(v, s) \in Documents
  BY <1>1 DEF Added, Documents
<1>3. Added(v, s) # Absent
  BY <1>2
<1>4. /\ Entries(Added(v, s)) = [Entries(v) EXCEPT ![KeyOf[s]] = s]
      /\ Generation(Added(v, s)) = Generation(v) + 1
  BY <1>3 DEF Entries, Generation, Added
<1>5. KeyOf[s] \in Keys
  OBVIOUS
<1>6. Added(v, s) # v
  BY <1>1, <1>4
<1> QED BY <1>1, <1>2, <1>4, <1>5, <1>6 DEF Listed

\* What a sync at work has in hand is typed.
LEMMA HandTypes ==
    ASSUME TypeOK, NEW p \in Syncs, Hand(p), JournalState
    PROVE  /\ pc[p] # "idle" => want[p] \in Snapshots
           /\ pc[p] \in (Recovery \ {"recover"}) \cup {"sync"} \cup Committing => Journaled
           /\ pc[p] \in {"fill", "sync"} \cup Committing => New(p) \in Documents
           /\ pc[p] \in {"undo", "undo_replace", "clean", "backup", "replace", "cleanup"}
                => Turn(p) \in todo[p] /\ Turn(p) \in Files
           /\ Journaled => journal.old["registry"] \in Documents \cup {Absent}
<1> USE DEF Hand
<1>1. pc[p] # "idle" => want[p] \in Snapshots
  BY DEF TransactionOf
<1>2. pc[p] \in (Recovery \ {"recover"}) \cup {"sync"} \cup Committing => Journaled
  BY DEF RecoveryOf, TransactionOf
<1>3. pc[p] = "fill" => New(p) \in Documents
  <2> SUFFICES ASSUME pc[p] = "fill" PROVE New(p) \in Documents OBVIOUS
  <2>1. old[p]["registry"] = file["registry"] BY DEF PreparationOf
  <2>2. file["registry"] \in Documents \cup {Absent} BY DEF TypeOK, Contents, Files
  <2> QED BY <1>1, <2>1, <2>2, AddedType DEF New
<1>4. pc[p] \in {"sync"} \cup Committing => New(p) \in Documents
  <2> SUFFICES ASSUME pc[p] \in {"sync"} \cup Committing PROVE New(p) \in Documents
    OBVIOUS
  <2>1. journal.new = New(p) BY DEF TransactionOf
  <2> QED BY <1>2, <2>1, JournalType
<1>5. pc[p] \in {"undo", "undo_replace", "clean", "backup", "replace", "cleanup"}
        => Turn(p) \in todo[p] /\ Turn(p) \in Files
  BY TurnLeft DEF RecoveryOf, TypeOK
<1>6. Journaled => journal.old["registry"] \in Documents \cup {Absent}
  BY JournalType DEF JournalState, Recoverable, Contents, Files
<1> QED BY <1>1, <1>2, <1>3, <1>4, <1>5, <1>6

\* The four parts of the types.
DiskOK == /\ file \in [Files -> Contents] /\ file["registry"] # Foreign
          /\ backup \subseteq Files /\ restored \subseteq Files
          /\ journal \in Journals \cup {NoJournal, TornJournal}
          /\ snapshot \in [Snapshots -> SnapshotStates]
CallOK == /\ pc \in [Syncs -> PCs]
          /\ want \in [Syncs -> Snapshots \cup {NoEntry}]
          /\ created \in [Syncs -> BOOLEAN]
          /\ old \in [Syncs -> [Files -> Contents]]
          /\ \A p \in Syncs : old[p]["registry"] # Foreign
          /\ todo \in [Syncs -> SUBSET Files]
ReadersOK == /\ rpc \in [Readers -> {"idle", "read", "entries", "reread"}]
             /\ got \in [Readers -> Documents \cup {Absent}]
             /\ captured \in [Readers -> Documents \cup {Absent}]
EnvOK == /\ crashes \in 0..MaxCrashes /\ faults \in 0..MaxFaults
         /\ foreign \in 0..MaxForeign
         /\ lapse \in {"none", "late", "written"}

\* The type invariant is that of its parts.
LEMMA Parts == /\ TypeOK <=> DiskOK /\ CallOK /\ ReadersOK /\ EnvOK
               /\ TypeOK' <=> DiskOK' /\ CallOK' /\ ReadersOK' /\ EnvOK'
BY DEF TypeOK, DiskOK, CallOK, ReadersOK, EnvOK

\* A step of a sync keeps the types of the calls,
LEMMA CallStep ==
    ASSUME DiskOK, CallOK, NEW p \in Syncs, SyncStep(p)
    PROVE  CallOK'
<1> USE RegistryAssumption
    DEF CallOK, PCs, Critical, Recovery, Preparing, Staging, Committing, Goto
<1>1. CASE Leave(p)
  <2>1. Nowhere \in [Files -> Contents] /\ Nowhere["registry"] # Foreign
    BY DEF Nowhere, Contents, Files
  <2> QED BY <1>1, <2>1 DEF Leave
<1>2. CASE /\ UNCHANGED <<want, created, old, todo>>
           /\ \E c \in PCs : pc' = [pc EXCEPT ![p] = c]
  BY <1>2
<1>3. ASSUME NEW a \in PCs, NEW b \in PCs, Round(p, a, b) PROVE CallOK'
  BY <1>3 DEF Round
<1>4. CASE Call(p) BY <1>4 DEF Call, Admit, disk, RegistryAssumption
<1>5. CASE Fault(p)
  BY <1>1, <1>2, <1>5
  DEF Fault, FaultBefore, FaultDropping, FaultAfter, Refuse, call
<1>6. CASE GetLock(p) \/ Busy(p) BY <1>1, <1>2, <1>6 DEF GetLock, Busy, Refuse, call
<1>7. CASE Recover(p)
  <2>1. CASE RecoverForward(p) BY <2>1 DEF RecoverForward
  <2>2. CASE RecoverBack(p) BY <2>2 DEF RecoverBack
  <2>3. CASE DropSnapshot(p) BY <2>3 DEF DropSnapshot, call
  <2> QED
    BY <1>1, <1>2, <1>3, <1>7, <2>1, <2>2, <2>3
    DEF Recover, RecoverNothing, RecoverTorn, UndoKept, UndoUnlink, UndoRefused, UndoWrite,
        UndoReplace, DropDone, Clean, Clear, Refuse, call
<1>8. CASE Transact(p)
  <2>1. CASE Inspect(p) BY <2>1 DEF Inspect, DiskOK
  <2>2. CASE InstallSnapshot(p) BY <2>2 DEF InstallSnapshot
  <2>3. CASE UnchangedRemove(p) \/ DiscardSnapshot(p)
    BY <2>3 DEF UnchangedRemove, DiscardSnapshot, call
  <2>4. CASE Stage(p) BY <2>4 DEF Stage, DiskOK
  <2>5. CASE JournalWritten(p) BY <2>5 DEF JournalWritten
  <2>6. CASE Validate(p) BY <2>6 DEF Validate, call
  <2> QED
    BY <1>1, <1>2, <1>3, <1>8, <2>1, <2>2, <2>3, <2>4, <2>5, <2>6
    DEF Transact, InspectRefused, ReuseSnapshot, InstallRefused, Unchanged, CreateJournal,
        FillJournal, Backup, Replace, Cleanup, Unlink, Synced, VerifyFails, Return, Raise,
        Refuse, call
<1> QED BY <1>1, <1>4, <1>5, <1>6, <1>7, <1>8 DEF SyncStep, Work, Crash, Refuse

\* and those of what is on disk.
LEMMA DiskStep ==
    ASSUME TypeOK, NEW p \in Syncs, Hand(p), JournalState, SyncStep(p)
    PROVE  DiskOK'
<1>0. DiskOK BY Parts
<1> USE DEF Goto
<1>1. CASE UNCHANGED disk BY <1>0, <1>1 DEF DiskOK, disk
<1>2. CASE Refuse(p) \/ Call(p) \/ Fault(p) \/ Crash(p) \/ GetLock(p) \/ Busy(p)
  BY <1>1, <1>2
  DEF Refuse, Call, Admit, Fault, FaultBefore, FaultDropping, FaultAfter, Crash, GetLock,
      Busy
<1>3. ASSUME NEW s \in Snapshots, RemoveSnapshot(s) PROVE DiskOK'
  BY <1>0, <1>3 DEF RemoveSnapshot, DiskOK, SnapshotStates
<1>4. ASSUME NEW f \in Files, CleanFile(f) PROVE DiskOK'
  BY <1>0, <1>4 DEF CleanFile, DiskOK
<1>5. CASE UnlinkJournal BY <1>0, <1>5 DEF UnlinkJournal, DiskOK
<1>6. CASE Recover(p)
  <2>1. CASE UndoUnlink(p)
    <3>1. Turn(p) \in Files /\ Absent \in Contents /\ Absent # Foreign
      BY <2>1, HandTypes, RegistryAssumption DEF UndoUnlink, Contents, RegistryAssumption
    <3> QED BY <1>0, <2>1, <3>1 DEF UndoUnlink, DiskOK
  <2>2. CASE UndoWrite(p)
    BY <1>0, <2>2, HandTypes DEF UndoWrite, DiskOK
  <2>3. CASE UndoReplace(p)
    <3>1. /\ Turn(p) \in Files /\ journal.old \in [Files -> Contents]
          /\ journal.old["registry"] # Foreign
      BY <2>3, HandTypes, JournalType, RegistryAssumption
      DEF UndoReplace, Recovery, RegistryAssumption
    <3> QED BY <1>0, <2>3, <3>1 DEF UndoReplace, DiskOK
  <2>4. CASE DropSnapshot(p)
    BY <1>3, <2>4, HandTypes, JournalType DEF DropSnapshot, Recovery
  <2>5. CASE Clean(p) BY <1>4, <2>5, HandTypes DEF Clean
  <2>6. CASE Clear(p) BY <1>5, <2>6 DEF Clear
  <2> QED
    BY <1>1, <1>6, <2>1, <2>2, <2>3, <2>4, <2>5, <2>6
    DEF Recover, RecoverNothing, RecoverTorn, RecoverForward, RecoverBack, UndoKept,
        UndoRefused, DropDone, Refuse
<1>7. CASE Transact(p)
  <2>1. CASE InstallSnapshot(p)
    BY <1>0, <2>1 DEF InstallSnapshot, DiskOK, SnapshotStates
  <2>2. CASE UnchangedRemove(p) \/ DiscardSnapshot(p)
    BY <1>3, <2>2, HandTypes DEF UnchangedRemove, DiscardSnapshot
  <2>3. CASE Stage(p) BY <1>0, <2>3 DEF Stage, DiskOK
  <2>4. CASE CreateJournal(p) BY <1>0, <2>4 DEF CreateJournal, DiskOK
  <2>5. CASE FillJournal(p)
    <3>1. /\ New(p) \in Documents /\ want[p] \in Snapshots
          /\ old[p] \in [Files -> Contents] /\ created[p] \in BOOLEAN
      BY <2>5, HandTypes DEF FillJournal, TypeOK
    <3>2. [old |-> old[p], new |-> New(p), snapshot |-> want[p],
           created |-> created[p]] \in Journals
      BY <3>1 DEF Journals
    <3> QED BY <1>0, <2>5, <3>2 DEF FillJournal, DiskOK
  <2>6. CASE Backup(p) BY <1>0, <2>6, HandTypes DEF Backup, DiskOK
  <2>7. CASE Replace(p)
    <3>1. New(p) \in Contents /\ New(p) # Foreign /\ Turn(p) \in Files
      BY <2>7, HandTypes, RegistryAssumption
      DEF Replace, Contents, Committing, RegistryAssumption
    <3> QED BY <1>0, <2>7, <3>1 DEF Replace, DiskOK
  <2>8. CASE Cleanup(p) BY <1>4, <2>8, HandTypes DEF Cleanup
  <2>9. CASE Unlink(p) BY <1>5, <2>9 DEF Unlink
  <2> QED
    BY <1>1, <1>7, <2>1, <2>2, <2>3, <2>4, <2>5, <2>6, <2>7, <2>8, <2>9
    DEF Transact, Inspect, InspectRefused, ReuseSnapshot, InstallRefused, Validate,
        Unchanged, JournalWritten, Synced, VerifyFails, Return, Raise, Refuse
<1> QED BY <1>2, <1>6, <1>7 DEF SyncStep, Work

\* No step of a sync, of a reader or of Graphify leaves the types.
LEMMA TypeStep ==
    ASSUME TypeOK, Hands, JournalState, [Next]_vars
    PROVE  TypeOK'
<1>1. CASE UNCHANGED vars BY <1>1 DEF vars, disk, call, readers, env, TypeOK
<1>2. CASE GraphifyWrites
  <2>1. DiskOK'
    BY <1>2, Parts, RegistryAssumption
    DEF GraphifyWrites, Contents, Files, DiskOK, RegistryAssumption
  <2>2. CallOK' /\ ReadersOK'
    BY <1>2, Parts DEF GraphifyWrites, CallOK, ReadersOK, call, readers
  <2>3. EnvOK'
    BY <1>2, Parts, RegistryAssumption DEF GraphifyWrites, EnvOK, RegistryAssumption
  <2> QED BY <2>1, <2>2, <2>3, Parts
<1>3. ASSUME NEW r \in Readers, Read(r) PROVE TypeOK'
  <2>1. file["registry"] \in Documents \cup {Absent} BY DEF TypeOK, Contents, Files
  <2>2. ReadersOK'
    BY <1>3, <2>1
    DEF Read, Capture, OpenCapture, ReadRegistry, CaptureEntries, Reread, GiveUp, Step,
        TypeOK, ReadersOK
  <2> QED BY <1>3, <2>2, Parts DEF Read, disk, call, env, DiskOK, CallOK, EnvOK
<1>4. ASSUME NEW p \in Syncs, SyncStep(p) PROVE TypeOK'
  <2>1. DiskOK' /\ CallOK' BY <1>4, Parts, DiskStep, CallStep DEF Hands
  <2>2. ReadersOK' BY <1>4, Parts, Framing DEF ReadersOK, readers
  <2>3. EnvOK'
    <3>1. EnvOK BY Parts
    <3>2. CASE Fault(p)
      BY <3>1, <3>2, RegistryAssumption DEF Fault, EnvOK, RegistryAssumption
    <3>3. CASE Crash(p)
      BY <3>1, <3>3, RegistryAssumption DEF Crash, EnvOK, RegistryAssumption
    <3> QED BY <1>4, <3>1, <3>2, <3>3 DEF SyncStep, Call, Work, env, EnvOK
  <2> QED BY <2>1, <2>2, <2>3, Parts
<1> QED BY <1>1, <1>2, <1>3, <1>4 DEF Next, SyncStep

-----------------------------------------------------------------------------
(* The files                                                               *)

\* Where a journal is, the registry is as before it or as after it, and which
\* of the two shows.
LEMMA TwoRegistries ==
    ASSUME TypeOK, JournalState, Journaled
    PROVE  /\ journal.old["registry"] \in Documents \cup {Absent}
           /\ journal.new \in Documents
           /\ journal.new # journal.old["registry"]
           /\ Undone(Files) => file["registry"] = journal.old["registry"]
<1>1. journal.old["registry"] \in Documents \cup {Absent}
  BY JournalType DEF JournalState, Recoverable, Contents, Files
<1>2. journal.new # journal.old["registry"]
  BY <1>1, JournalType, AddedType DEF JournalState, Recoverable
<1>3. Undone(Files) => file["registry"] = journal.old["registry"]
  BY DEF TypeOK, Undone, Files
<1> QED BY <1>1, <1>2, <1>3, JournalType

\* Entries stay available when another snapshot is removed or one is added.
LEMMA OthersAvailable ==
    ASSUME NEW v, Available(v), snapshot \in [Snapshots -> SnapshotStates],
           Listed(v) \subseteq Snapshots, NEW s \in Snapshots,
           \/ snapshot' = [snapshot EXCEPT ![s] = "whole"]
           \/ s \notin Listed(v) /\ RemoveSnapshot(s)
    PROVE  \A t \in Listed(v) : snapshot'[t] = "whole"
BY DEF Available, RemoveSnapshot

\* A registry lists snapshots.
LEMMA ListedType ==
    ASSUME NEW v \in Documents \cup {Absent} PROVE Listed(v) \subseteq Snapshots
BY DEF Listed, Entries, Documents

\* What the journal says of the files goes on being so, whatever its holder does.
LEMMA JournalStateStep ==
    ASSUME TypeOK, JournalState, NEW p \in Syncs, Hand(p), SyncStep(p)
    PROVE  JournalState'
<1> USE DEF Goto
<1> DEFINE Reg == file["registry"]
<1>0. Reg \in Documents \cup {Absent} BY DEF TypeOK, Contents, Files
<1>1. CASE UNCHANGED <<file, journal, snapshot>>
  BY <1>1 DEF JournalState, Unjournaled, Recoverable, Journaled, FilesOf, Available
<1>2. ASSUME Journaled, UNCHANGED <<journal, snapshot>>, NEW f \in Files, NEW v,
             file' = [file EXCEPT ![f] = v],
             \/ v = journal.old[f]
             \/ v = journal.new /\ snapshot[journal.snapshot] = "whole"
      PROVE  JournalState'
  <2>1. \A g \in Files : file'[g] = IF g = f THEN v ELSE file[g]
    BY <1>2 DEF TypeOK
  <2>2. "registry" \in Files BY DEF Files
  <2> QED
    BY <1>2, <2>1, <2>2, TwoRegistries
    DEF JournalState, Recoverable, Journaled, Available
<1>3. ASSUME UNCHANGED <<file, journal>>, NEW s \in Snapshots,
             \/ snapshot' = [snapshot EXCEPT ![s] = "whole"] /\ ~Journaled
             \/ RemoveSnapshot(s) /\ ~Journaled /\ s \notin Listed(Reg)
             \/ RemoveSnapshot(s) /\ Journaled /\ s = journal.snapshot /\ journal.created
                /\ Undone(Files)
      PROVE  JournalState'
  <2>1. CASE ~Journaled
    <3>1. \A t \in Listed(Reg) : snapshot'[t] = "whole"
      BY <1>0, <1>3, <2>1, OthersAvailable, ListedType DEF JournalState, Unjournaled, TypeOK
    <3> QED
      BY <1>3, <2>1, <3>1
      DEF JournalState, Unjournaled, Journaled, FilesOf, Available
  <2>2. CASE Journaled
    <3>1. \A t \in Listed(journal.old["registry"]) : snapshot'[t] = "whole"
      BY <1>3, <2>2, TwoRegistries, OthersAvailable, ListedType
      DEF JournalState, Recoverable, TypeOK
    <3> QED
      BY <1>3, <2>2, <3>1, TwoRegistries
      DEF JournalState, Recoverable, Journaled, Available
  <2> QED BY <2>1, <2>2
<1>4. ASSUME UnlinkJournal, Journaled, Undone(Files) \/ FilesOf(journal.new)
      PROVE  JournalState'
  <2>1. UNCHANGED <<file, snapshot>> /\ ~Journaled' BY <1>4 DEF UnlinkJournal, Journaled
  <2>2. CASE Undone(Files)
    <3>1. FilesOf(Reg) /\ Available(Reg)
      BY <1>4, <2>2, TwoRegistries DEF Undone, FilesOf, JournalState, Recoverable
    <3> QED BY <2>1, <3>1 DEF JournalState, Unjournaled, FilesOf, Available
  <2>3. CASE FilesOf(journal.new)
    <3>1. Reg = journal.new BY <2>3 DEF FilesOf, TypeOK, Files
    <3>2. Listed(Reg) \subseteq Listed(journal.old["registry"]) \cup {journal.snapshot}
      BY <1>4, <3>1, TwoRegistries, JournalType, AddedType DEF JournalState, Recoverable
    <3>3. Available(Reg)
      BY <1>4, <3>1, <3>2 DEF JournalState, Recoverable, Available
    <3> QED BY <2>1, <2>3, <3>1, <3>3 DEF JournalState, Unjournaled, FilesOf, Available
  <2> QED BY <1>4, <2>2, <2>3
<1>5. CASE Refuse(p) \/ Call(p) \/ Fault(p) \/ Crash(p) \/ GetLock(p) \/ Busy(p)
  BY <1>1, <1>5
  DEF Refuse, Call, Admit, Fault, FaultBefore, FaultDropping, FaultAfter, Crash, GetLock,
      Busy, disk
<1>6. CASE Recover(p)
  <2>1. CASE UndoUnlink(p)
    BY <1>2, <2>1, HandTypes DEF UndoUnlink, Unlinkable, Recovery
  <2>2. CASE UndoReplace(p) BY <1>2, <2>2, HandTypes DEF UndoReplace, Recovery
  <2>3. CASE DropSnapshot(p)
    BY <1>3, <2>3, HandTypes, JournalType
    DEF DropSnapshot, Drops, RemoveSnapshot, Recovery, Hand, RecoveryOf
  <2>4. CASE Clear(p)
    BY <1>4, <2>4, HandTypes DEF Clear, Recovery, Hand, RecoveryOf
  <2> QED
    BY <1>1, <1>6, <2>1, <2>2, <2>3, <2>4
    DEF Recover, RecoverNothing, RecoverTorn, RecoverForward, RecoverBack, UndoKept,
        UndoWrite, UndoRefused, DropDone, Clean, CleanFile, Refuse, disk
<1>7. CASE Transact(p)
  <2>1. CASE InstallSnapshot(p)
    BY <1>3, <2>1, HandTypes
    DEF InstallSnapshot, Hand, PreparationOf, Preparing, Journaled
  <2>2. CASE UnchangedRemove(p) BY <2>2 DEF UnchangedRemove, Hand, PreparationOf
  <2>3. CASE DiscardSnapshot(p)
    BY <1>3, <2>3, HandTypes
    DEF DiscardSnapshot, Discards, RemoveSnapshot, Hand, PreparationOf, Journaled
  <2>4. CASE CreateJournal(p)
    BY <2>4
    DEF CreateJournal, Hand, PreparationOf, JournalState, Unjournaled, Journaled, FilesOf,
        Available
  <2>5. CASE FillJournal(p)
    <3>1. /\ journal = TornJournal /\ old[p]["registry"] = Reg
          /\ \A f \in Files : /\ old[p][f] \in {Reg, Foreign}
                              /\ file[f] \in {old[p][f], Foreign}
          /\ created[p] => want[p] \notin Listed(Reg)
          /\ snapshot[want[p]] = "whole"
          /\ want[p] \in Snapshots
      BY <2>5, HandTypes
      DEF FillJournal, Hand, PreparationOf, TransactionOf, Journaled, Staging
    <3>2. Available(Reg) BY <3>1 DEF JournalState, Unjournaled, Journaled
    <3>3. Reg # New(p) BY <1>0, <3>1, AddedType DEF New
    <3>4. Reg # Foreign BY DEF TypeOK
    <3>5. /\ journal'.old = old[p] /\ journal'.new = New(p)
          /\ journal'.snapshot = want[p] /\ journal'.created = created[p]
          /\ UNCHANGED <<file, snapshot>>
      BY <2>5 DEF FillJournal
    <3>6. Recoverable'
      <4>1. journal'.new = Added(journal'.old["registry"], journal'.snapshot)
        BY <3>5 DEF New
      <4> QED BY <4>1, <3>1, <3>2, <3>3, <3>4, <3>5 DEF Recoverable, Available
    <3>7. Unjournaled'
      BY <3>1, <3>2, <3>5 DEF JournalState, Unjournaled, Journaled, FilesOf, Available
    <3> QED BY <3>6, <3>7 DEF JournalState
  <2>6. CASE Replace(p)
    <3>1. /\ journal.new = New(p) /\ journal.snapshot = want[p]
          /\ snapshot[want[p]] = "whole"
      BY <2>6 DEF Replace, Hand, PreparationOf, TransactionOf, Committing
    <3>2. Turn(p) \in Files /\ Journaled
      BY <2>6, HandTypes DEF Replace, Committing
    <3> QED BY <1>2, <2>6, <3>1, <3>2 DEF Replace
  <2>7. CASE Unlink(p)
    BY <1>4, <2>7, HandTypes
    DEF Unlink, Hand, TransactionOf, Committing, FilesOf
  <2> QED
    BY <1>1, <1>7, <2>1, <2>2, <2>3, <2>4, <2>5, <2>6, <2>7
    DEF Transact, Inspect, InspectRefused, ReuseSnapshot, InstallRefused, Validate,
        Unchanged, Stage, JournalWritten, Backup, Cleanup, CleanFile, Synced, VerifyFails,
        Return, Raise, Refuse, disk
<1> QED BY <1>5, <1>6, <1>7 DEF SyncStep, Work

-----------------------------------------------------------------------------
(* What a sync knows                                                       *)

\* What q knows it goes on knowing while neither it nor the files change.
LEMMA HandFrame ==
    ASSUME NEW q \in Syncs, Hand(q), UNCHANGED disk, pc'[q] = pc[q], want'[q] = want[q],
           created'[q] = created[q], old'[q] = old[q], todo'[q] = todo[q]
    PROVE  Hand(q)'
BY DEF Hand, RecoveryOf, PreparationOf, TransactionOf, Journaled, Undone, FilesOf, Known,
       New, disk

\* Outside the lock it knows its snapshot only.
LEMMA HandOut ==
    ASSUME NEW q \in Syncs, pc'[q] \in {"idle", "waiting"},
           pc'[q] = "waiting" => want'[q] \in Snapshots, ~created'[q]
    PROVE  Hand(q)'
BY DEF Hand, RecoveryOf, PreparationOf, TransactionOf, Recovery, Preparing, Staging,
       Committing

\* A sync does not disturb another that waits or is done.
LEMMA OthersKeep ==
    ASSUME TypeOK, Exclusion, Hands, NEW p \in Syncs, SyncStep(p),
           NEW q \in Syncs, q # p
    PROVE  Hand(q)'
<1>1. /\ pc'[q] = pc[q] /\ want'[q] = want[q] /\ created'[q] = created[q]
      /\ old'[q] = old[q] /\ todo'[q] = todo[q]
  BY Framing
<1>2. Hand(q) BY DEF Hands
<1>3. CASE UNCHANGED disk BY <1>1, <1>2, <1>3, HandFrame
<1>4. CASE ~Holding(q)
  <2>1. pc[q] \in {"idle", "waiting"} BY <1>4 DEF Holding, PCs, TypeOK
  <2>2. (pc[q] = "waiting" => want[q] \in Snapshots) /\ ~created[q]
    BY <1>2, <2>1 DEF Hand, PreparationOf, TransactionOf
  <2> QED BY <1>1, <2>1, <2>2, HandOut
<1> QED BY <1>3, <1>4, Framing DEF Exclusion

\* Graphify writes: without a lapse no transaction is then between its first
\* replacement and its last check.
LEMMA GraphifyKeeps ==
    ASSUME lapse' = "none", TypeOK, Hands, JournalState, GraphifyWrites
    PROVE  Hands' /\ JournalState'
<1>1. PICK f \in Files \ {"registry"} : file' = [file EXCEPT ![f] = Foreign]
  BY DEF GraphifyWrites
<1>2. /\ \A g \in Files : file'[g] = IF g = f THEN Foreign ELSE file[g]
      /\ file'["registry"] = file["registry"]
      /\ UNCHANGED <<backup, restored, journal, snapshot, pc, want, created, old, todo>>
  BY <1>1 DEF GraphifyWrites, TypeOK, call, Files
<1>3. JournalState'
  BY <1>2
  DEF JournalState, Unjournaled, Recoverable, Journaled, FilesOf, Available
<1>4. ASSUME NEW q \in Syncs PROVE Hand(q)'
  <2>1. Hand(q) BY DEF Hands
  <2>2. pc[q] \notin {"replace", "cleanup", "unlink", "verify"}
    BY DEF Unguarded, GraphifyWrites
  <2>3. RecoveryOf(q)'
    BY <1>2, <2>1 DEF Hand, RecoveryOf, Journaled, Undone, FilesOf
  <2>4. PreparationOf(q)'
    BY <1>2, <2>1 DEF Hand, PreparationOf, Journaled, Known
  <2>5. TransactionOf(q)'
    BY <1>2, <2>1, <2>2 DEF Hand, TransactionOf, Journaled, Undone, New
  <2> QED BY <2>3, <2>4, <2>5 DEF Hand
<1> QED BY <1>3, <1>4 DEF Hands

\* What the invariant says of a sync in the recovery, and of the others.
LEMMA HandInRecovery ==
    ASSUME NEW p \in Syncs, pc'[p] \in Recovery \ {"recover"}, RecoveryOf(p)',
           want'[p] \in Snapshots, ~created'[p]
    PROVE  Hand(p)'
BY DEF Hand, PreparationOf, TransactionOf, Recovery, Preparing, Staging, Committing

\* The call goes on with the snapshot it came for.
SameCall(p) == want'[p] = want[p] /\ created'[p] = created[p]

\* One round of a loop.
LEMMA RoundStep ==
    ASSUME TypeOK, NEW p \in Syncs, todo[p] # {},
           NEW a \in PCs, NEW b \in PCs, Round(p, a, b)
    PROVE  LET rest == todo[p] \ {Turn(p)}
           IN  /\ rest = {} => pc'[p] = b /\ todo'[p] = Files
               /\ rest # {} => pc'[p] = a /\ todo'[p] = rest
               /\ todo'[p] # {}
               /\ want'[p] = want[p] /\ created'[p] = created[p] /\ old'[p] = old[p]
BY DEF Round, TypeOK, Files

\* A recovery knows what it has still to do.
LEMMA RecoverHand ==
    ASSUME TypeOK, JournalState, NEW p \in Syncs, Hand(p), Recover(p)
    PROVE  Hand(p)'
<1> USE DEF Goto, SameCall
<1>0. pc \in [Syncs -> PCs] /\ todo \in [Syncs -> SUBSET Files] BY DEF TypeOK
<1>1. pc[p] \in Recovery /\ want[p] \in Snapshots /\ ~created[p]
  BY HandTypes
  DEF Hand, PreparationOf, Recovery, Recover, RecoverNothing, RecoverTorn, RecoverForward,
      RecoverBack, UndoKept, UndoUnlink, UndoRefused, UndoWrite, UndoReplace, DropSnapshot,
      DropDone, Clean, Clear
<1>2. CASE Leave(p) BY <1>0, <1>2, HandOut DEF Leave, PCs, Critical, TypeOK
<1>3. CASE RecoverNothing(p)
  BY <1>0, <1>1, <1>3
  DEF RecoverNothing, Hand, RecoveryOf, PreparationOf, TransactionOf, Recovery, Preparing,
      Staging, Committing, disk, call
<1>4. CASE RecoverForward(p)
  <2>1. pc'[p] = "clean" /\ todo'[p] = Files /\ SameCall(p)
        /\ UNCHANGED <<file, journal>> /\ Journaled /\ FilesOf(journal.new)
    BY <1>0, <1>4 DEF RecoverForward, AllNew, FilesOf, disk
  <2>2. RecoveryOf(p)' BY <2>1 DEF RecoveryOf, Journaled, FilesOf, Files
  <2> QED BY <1>1, <2>1, <2>2, HandInRecovery DEF Recovery
<1>5. CASE RecoverBack(p)
  <2>1. pc'[p] = "undo" /\ todo'[p] = Files /\ SameCall(p)
        /\ UNCHANGED <<file, journal>> /\ Journaled
    BY <1>0, <1>5 DEF RecoverBack, disk
  <2>2. RecoveryOf(p)' BY <2>1 DEF RecoveryOf, Journaled, Undone, Files
  <2> QED BY <1>1, <2>1, <2>2, HandInRecovery DEF Recovery
<1>6. ASSUME pc[p] \in {"undo", "undo_replace"}, Round(p, "undo", "drop"),
             UNCHANGED journal,
             \/ file' = file /\ Kept(Turn(p))
             \/ file' = [file EXCEPT ![Turn(p)] = journal.old[Turn(p)]]
      PROVE  Hand(p)'
  <2>1. /\ Journaled /\ todo[p] # {} /\ Undone(Files \ todo[p])
        /\ Turn(p) \in todo[p] /\ Turn(p) \in Files
    BY <1>6, HandTypes DEF Hand, RecoveryOf, Recovery
  <2>2. \A f \in Files : \/ f = Turn(p) /\ file'[f] = journal.old[f]
                         \/ f # Turn(p) /\ file'[f] = file[f]
    BY <1>6, <2>1 DEF Kept, TypeOK
  <2>3. /\ pc'[p] = "drop" => todo[p] \ {Turn(p)} = {}
        /\ pc'[p] = "undo" => todo'[p] = todo[p] \ {Turn(p)}
        /\ pc'[p] \in {"undo", "drop"} /\ todo'[p] # {} /\ SameCall(p)
    BY <1>6, <2>1, RoundStep DEF PCs, Critical, Recovery
  <2>4. \A f \in Files : f \notin todo[p] \ {Turn(p)}
          => file'[f] \in {journal.old[f], Foreign}
    BY <2>1, <2>2 DEF Undone
  <2>5. RecoveryOf(p)'
    BY <1>6, <2>1, <2>3, <2>4 DEF RecoveryOf, Journaled, Undone
  <2> QED BY <1>1, <2>3, <2>5, HandInRecovery DEF Recovery
<1>7. CASE UndoKept(p) \/ UndoUnlink(p) \/ UndoReplace(p)
  BY <1>6, <1>7 DEF UndoKept, UndoUnlink, Unlinkable, UndoReplace, disk
<1>8. CASE UndoWrite(p) \/ DropSnapshot(p) \/ DropDone(p)
  <2>1. /\ UNCHANGED <<file, journal>> /\ SameCall(p) /\ todo'[p] = todo[p]
        /\ \/ pc[p] = "undo" /\ pc'[p] = "undo_replace"
           \/ pc[p] = "drop" /\ pc'[p] \in {"drop", "clean"}
    BY <1>0, <1>8 DEF UndoWrite, DropSnapshot, RemoveSnapshot, DropDone, disk, call
  <2>2. RecoveryOf(p)'
    BY <2>1 DEF Hand, RecoveryOf, Journaled, Undone, Recovery
  <2> QED BY <1>1, <2>1, <2>2, HandInRecovery DEF Recovery
<1>9. CASE Clean(p)
  <2>1. todo[p] # {} BY <1>9 DEF Clean, Hand, RecoveryOf
  <2>2. pc'[p] \in {"clean", "clear"} /\ todo'[p] # {} /\ SameCall(p)
        /\ UNCHANGED <<file, journal>> /\ pc[p] = "clean"
    BY <1>9, <2>1, RoundStep DEF Clean, CleanFile, PCs, Critical, Recovery
  <2>3. RecoveryOf(p)'
    BY <2>2 DEF Hand, RecoveryOf, Journaled, Undone, FilesOf, Recovery
  <2> QED BY <1>1, <2>2, <2>3, HandInRecovery DEF Recovery
<1>10. CASE Clear(p)
  <2>1. pc'[p] = "inspect" /\ journal' = NoJournal /\ SameCall(p)
    BY <1>0, <1>10 DEF Clear, UnlinkJournal, call
  <2> QED
    BY <1>1, <2>1
    DEF Hand, RecoveryOf, PreparationOf, TransactionOf, Recovery, Preparing, Staging,
        Committing
<1> QED
  BY <1>2, <1>3, <1>4, <1>5, <1>7, <1>8, <1>9, <1>10
  DEF Recover, RecoverTorn, UndoRefused, Refuse

\* What the invariant says of a sync in its transaction.
LEMMA HandInTransaction ==
    ASSUME NEW p \in Syncs, pc'[p] \notin Recovery, PreparationOf(p)', TransactionOf(p)',
           pc'[p] \in {"backup", "replace", "cleanup"} => todo'[p] # {}
    PROVE  Hand(p)'
BY DEF Hand, RecoveryOf, Recovery

\* So does a sync that prepares its snapshot,
LEMMA PrepareHand ==
    ASSUME TypeOK, JournalState, NEW p \in Syncs, Hand(p),
           \/ Inspect(p) \/ InstallSnapshot(p) \/ ReuseSnapshot(p) \/ Validate(p)
           \/ UnchangedRemove(p) \/ Unchanged(p) \/ Stage(p)
    PROVE  Hand(p)'
<1> USE DEF Goto
<1>0. /\ pc \in [Syncs -> PCs] /\ want \in [Syncs -> Snapshots \cup {NoEntry}]
      /\ created \in [Syncs -> BOOLEAN] /\ old \in [Syncs -> [Files -> Contents]]
      /\ file["registry"] \in Documents \cup {Absent}
  BY DEF TypeOK, Contents, Files
<1>1. /\ journal = NoJournal /\ ~Journaled /\ Unjournaled
      /\ want[p] \in Snapshots /\ pc[p] \in Preparing
  BY HandTypes
  DEF Inspect, InstallSnapshot, ReuseSnapshot, Validate, UnchangedRemove, Unchanged, Stage,
      Hand, PreparationOf, Journaled, JournalState, Preparing
<1>2. PreparationOf(p) BY DEF Hand
<1> USE DEF Preparing, Recovery, Staging, Committing
<1> USE DEF SameCall
<1>3. CASE Inspect(p)
  <2>1. /\ pc'[p] = "install" /\ old'[p] = file /\ SameCall(p) /\ UNCHANGED disk
        /\ pc[p] = "inspect"
    BY <1>0, <1>3 DEF Inspect
  <2>2. PreparationOf(p)'
    BY <1>1, <1>2, <2>1 DEF PreparationOf, Journaled, disk
  <2> QED BY <1>1, <2>1, <2>2, HandInTransaction DEF TransactionOf
<1>4. CASE InstallSnapshot(p) \/ ReuseSnapshot(p)
  <2>1. /\ pc[p] = "install" /\ pc'[p] = "validate" /\ want'[p] = want[p]
        /\ UNCHANGED <<file, journal>> /\ old'[p] = old[p] /\ snapshot'[want[p]] = "whole"
        /\ created'[p] => snapshot[want[p]] = "absent"
    BY <1>0, <1>1, <1>2, <1>4
    DEF InstallSnapshot, ReuseSnapshot, disk, call, TypeOK, PreparationOf
  <2>2. created'[p] => want[p] \notin Listed(file["registry"])
    BY <1>1, <2>1 DEF Unjournaled, Available
  <2>3. PreparationOf(p)'
    BY <1>1, <1>2, <2>1, <2>2 DEF PreparationOf, Journaled
  <2> QED BY <1>1, <2>1, <2>3, HandInTransaction DEF TransactionOf
<1>5. CASE Validate(p)
  <2>1. /\ pc[p] = "validate" /\ pc'[p] \in {"discard", "reuse", "project"} /\ SameCall(p)
        /\ UNCHANGED disk /\ old'[p] = old[p]
        /\ pc'[p] = "reuse" => Known(p)
    BY <1>0, <1>5 DEF Validate, call
  <2>2. Known(p) => want[p] \in Listed(file["registry"])
    BY <1>1, <1>2, <2>1, RegistryAssumption
    DEF PreparationOf, Known, Listed, RegistryAssumption
  <2>3. PreparationOf(p)'
    BY <1>1, <1>2, <2>1, <2>2 DEF PreparationOf, Journaled, Known, disk
  <2> QED BY <1>1, <2>1, <2>3, HandInTransaction DEF TransactionOf
<1>6. CASE UnchangedRemove(p) BY <1>2, <1>6 DEF UnchangedRemove, PreparationOf
<1>7. CASE Unchanged(p)
  <2>1. /\ pc[p] = "reuse" /\ pc'[p] = "answer" /\ SameCall(p) /\ UNCHANGED disk
        /\ old'[p] = old[p]
    BY <1>0, <1>7 DEF Unchanged, call
  <2>2. PreparationOf(p)'
    BY <1>1, <1>2, <2>1 DEF PreparationOf, Journaled, disk
  <2>3. Entries(file["registry"])[KeyOf[want[p]]] = want[p]
    BY <1>2, <2>1 DEF PreparationOf, Known
  <2> QED BY <1>1, <2>1, <2>2, <2>3, HandInTransaction DEF TransactionOf, disk
<1>8. CASE Stage(p)
  <2>1. /\ pc[p] = "project" /\ pc'[p] = "journal" /\ SameCall(p) /\ old'[p] = file
        /\ UNCHANGED <<file, journal, snapshot>>
    BY <1>0, <1>8 DEF Stage
  <2>2. PreparationOf(p)'
    BY <1>1, <1>2, <2>1 DEF PreparationOf, Journaled, Unjournaled, FilesOf
  <2> QED BY <1>1, <2>1, <2>2, HandInTransaction DEF TransactionOf
<1> QED BY <1>3, <1>4, <1>5, <1>6, <1>7, <1>8

\* one that replaces the files,
LEMMA CommitHand ==
    ASSUME TypeOK, JournalState, NEW p \in Syncs, Hand(p),
           \/ CreateJournal(p) \/ FillJournal(p) \/ JournalWritten(p) \/ Backup(p)
           \/ Replace(p) \/ Cleanup(p) \/ Unlink(p)
    PROVE  Hand(p)'
<1> USE DEF Goto, SameCall, Preparing, Recovery, Staging, Committing
<1>0. /\ pc \in [Syncs -> PCs] /\ old \in [Syncs -> [Files -> Contents]]
      /\ todo \in [Syncs -> SUBSET Files] /\ file["registry"] \in Documents \cup {Absent}
  BY DEF TypeOK, Contents, Files
<1>1. /\ want[p] \in Snapshots /\ snapshot[want[p]] = "whole"
      /\ pc[p] \in Staging \cup {"backup", "replace", "cleanup", "unlink"}
  BY HandTypes
  DEF CreateJournal, FillJournal, JournalWritten, Backup, Replace, Cleanup, Unlink,
      Hand, PreparationOf
<1>2. PreparationOf(p) /\ TransactionOf(p) BY DEF Hand
<1>3. CASE CreateJournal(p)
  <2>1. /\ pc[p] = "journal" /\ pc'[p] = "fill" /\ SameCall(p) /\ old'[p] = old[p]
        /\ UNCHANGED <<file, snapshot>> /\ journal' = TornJournal
    BY <1>0, <1>3 DEF CreateJournal, call
  <2>2. PreparationOf(p)'
    BY <1>1, <1>2, <2>1 DEF PreparationOf, Journaled
  <2> QED BY <1>1, <2>1, <2>2, HandInTransaction DEF TransactionOf
<1>4. CASE FillJournal(p)
  <2>1. /\ pc[p] = "fill" /\ pc'[p] = "sync" /\ SameCall(p) /\ old'[p] = old[p]
        /\ UNCHANGED <<file, snapshot>>
        /\ journal' = [old |-> old[p], new |-> New(p), snapshot |-> want[p],
                       created |-> created[p]]
    BY <1>0, <1>4 DEF FillJournal, call
  <2>2. Journaled'
    <3>1. New(p) \in Documents BY <2>1, HandTypes
    <3>2. journal' \in Journals BY <1>1, <2>1, <3>1 DEF Journals, TypeOK
    <3> QED BY <3>2, RegistryAssumption DEF Journaled, RegistryAssumption
  <2>3. PreparationOf(p)'
    BY <1>1, <2>1 DEF PreparationOf
  <2>4. New(p)' = New(p) BY <2>1 DEF New
  <2>5. Undone(Files)' BY <1>2, <2>1 DEF PreparationOf, Undone
  <2> QED BY <1>1, <2>1, <2>2, <2>3, <2>4, <2>5, HandInTransaction DEF TransactionOf
<1> DEFINE Same == /\ journal' = journal /\ SameCall(p) /\ old'[p] = old[p]
                   /\ snapshot' = snapshot
<1>5. Same => New(p)' = New(p) BY DEF New
<1>6. Same /\ pc[p] # "journal" /\ pc'[p] \in Committing => PreparationOf(p)'
  BY <1>1 DEF PreparationOf
<1>7. CASE JournalWritten(p)
  <2>1. /\ pc[p] = "sync" /\ pc'[p] = "backup" /\ Same /\ file' = file
        /\ todo'[p] = Files
    BY <1>0, <1>7 DEF JournalWritten, disk
  <2>2. TransactionOf(p)'
    BY <1>1, <1>2, <1>5, <2>1 DEF TransactionOf, Journaled, Undone
  <2> QED BY <1>6, <2>1, <2>2, HandInTransaction DEF Files
<1>8. CASE Backup(p)
  <2>1. todo[p] # {} BY <1>8 DEF Backup, Hand, RecoveryOf
  <2>2. /\ pc[p] = "backup" /\ Same /\ file' = file /\ todo'[p] # {}
        /\ pc'[p] = "backup" \/ (pc'[p] = "replace" /\ todo'[p] = Files)
    BY <1>8, <2>1, RoundStep DEF Backup, PCs, Critical
  <2>3. TransactionOf(p)'
    BY <1>1, <1>2, <1>5, <2>2 DEF TransactionOf, Journaled, Undone
  <2> QED BY <1>6, <2>2, <2>3, HandInTransaction
<1>9. CASE Replace(p)
  <2>1. todo[p] # {} /\ Turn(p) \in Files /\ Turn(p) \in todo[p]
    BY <1>9, HandTypes DEF Replace, Hand, RecoveryOf
  <2>2. /\ pc[p] = "replace" /\ Same /\ todo'[p] # {}
        /\ \/ pc'[p] = "replace" /\ todo'[p] = todo[p] \ {Turn(p)}
           \/ pc'[p] = "cleanup" /\ todo[p] \ {Turn(p)} = {}
    BY <1>9, <2>1, RoundStep DEF Replace, PCs, Critical
  <2>3. \A f \in Files : \/ f = Turn(p) /\ file'[f] = New(p)
                         \/ f # Turn(p) /\ file'[f] = file[f]
    BY <1>9, <2>1 DEF Replace, TypeOK
  <2>4. TransactionOf(p)'
    BY <1>0, <1>1, <1>2, <1>5, <2>1, <2>2, <2>3 DEF TransactionOf, Journaled, Undone
  <2> QED BY <1>6, <2>2, <2>4, HandInTransaction
<1>10. CASE Cleanup(p)
  <2>1. todo[p] # {} BY <1>10 DEF Cleanup, Hand, RecoveryOf
  <2>2. /\ pc[p] = "cleanup" /\ Same /\ file' = file /\ todo'[p] # {}
        /\ pc'[p] \in {"cleanup", "unlink"}
    BY <1>10, <2>1, RoundStep DEF Cleanup, CleanFile, PCs, Critical
  <2>3. TransactionOf(p)'
    BY <1>1, <1>2, <1>5, <2>2 DEF TransactionOf, Journaled
  <2> QED BY <1>6, <2>2, <2>3, HandInTransaction
<1>11. CASE Unlink(p)
  <2>1. /\ pc[p] = "unlink" /\ pc'[p] = "verify" /\ SameCall(p) /\ old'[p] = old[p]
        /\ UNCHANGED <<file, snapshot>> /\ journal' = NoJournal
    BY <1>0, <1>11 DEF Unlink, UnlinkJournal, call
  <2>2. PreparationOf(p)' BY <1>1, <2>1 DEF PreparationOf
  <2>3. TransactionOf(p)' BY <1>1, <1>2, <2>1 DEF TransactionOf, New
  <2> QED BY <2>1, <2>2, <2>3, HandInTransaction
<1> QED BY <1>3, <1>4, <1>7, <1>8, <1>9, <1>10, <1>11

\* and one in any step of the transaction.
LEMMA TransactHand ==
    ASSUME TypeOK, JournalState, NEW p \in Syncs, Hand(p), Transact(p)
    PROVE  Hand(p)'
<1> USE DEF Goto, SameCall
<1>0. pc \in [Syncs -> PCs] BY DEF TypeOK
<1>1. CASE Leave(p)
  BY <1>0, <1>1, HandOut DEF Leave, PCs, Critical, TypeOK
<1>2. CASE Synced(p)
  <2>1. /\ pc[p] = "verify" /\ pc'[p] = "answer" /\ SameCall(p) /\ UNCHANGED disk
        /\ old'[p] = old[p] /\ file["registry"] = New(p) /\ want[p] \in Snapshots
    BY <1>0, <1>2, HandTypes DEF Synced, call, Files
  <2>2. PreparationOf(p)'
    BY <2>1
    DEF Hand, PreparationOf, Preparing, Staging, Committing, disk, Recovery
  <2>3. Entries(file["registry"])[KeyOf[want[p]]] = want[p]
    <3>1. old[p] \in [Files -> Contents] /\ old[p]["registry"] # Foreign BY DEF TypeOK
    <3>2. old[p]["registry"] \in Documents \cup {Absent} BY <3>1 DEF Contents, Files
    <3> QED BY <2>1, <3>2, AddedType DEF New
  <2>4. TransactionOf(p)'
    BY <2>1, <2>3 DEF TransactionOf, disk, Committing
  <2> QED BY <2>1, <2>2, <2>4, HandInTransaction DEF Recovery
<1>3. CASE VerifyFails(p)
  BY <1>3 DEF VerifyFails, Hand, TransactionOf
<1>4. CASE DiscardSnapshot(p)
  <2>1. /\ pc[p] = "discard" /\ pc'[p] = "discard" /\ SameCall(p)
        /\ UNCHANGED <<file, journal>> /\ want[p] \in Snapshots
    BY <1>0, <1>4, HandTypes DEF DiscardSnapshot, RemoveSnapshot, call
  <2>2. PreparationOf(p)'
    BY <2>1
    DEF Hand, PreparationOf, Journaled, Preparing, Staging, Committing, Recovery
  <2> QED
    BY <2>1, <2>2, HandInTransaction DEF TransactionOf, Committing, Recovery
<1> QED
  BY <1>1, <1>2, <1>3, <1>4, PrepareHand, CommitHand
  DEF Transact, InspectRefused, InstallRefused, Return, Raise, Refuse

\* A failure: without a lapse it is caught with the journal on disk, or before
\* there is one.
LEMMA FaultHand ==
    ASSUME lapse' = "none", TypeOK, JournalState, NEW p \in Syncs, Hand(p), Fault(p)
    PROVE  Hand(p)'
<1>0. pc \in [Syncs -> PCs] BY DEF TypeOK
<1>1. CASE FaultBefore(p)
  BY <1>0, <1>1, HandOut DEF FaultBefore, Refuse, Leave, PCs, Critical, TypeOK
<1>2. CASE FaultDropping(p)
  <2>1. /\ pc[p] = "drop" /\ pc'[p] = "clean" /\ want'[p] = want[p]
        /\ created'[p] = created[p] /\ todo'[p] = todo[p] /\ UNCHANGED <<file, journal>>
    BY <1>0, <1>2 DEF FaultDropping, Goto, disk, call
  <2>2. want[p] \in Snapshots /\ ~created[p]
    BY <2>1, HandTypes DEF Hand, PreparationOf, Recovery
  <2>3. RecoveryOf(p)'
    BY <2>1 DEF Hand, RecoveryOf, Recovery, Journaled, Undone
  <2> QED BY <2>1, <2>2, <2>3, HandInRecovery DEF Recovery
<1>3. CASE FaultAfter(p)
  <2>1. /\ pc[p] \in {"validate", "reuse", "project"} \cup Staging \cup Committing
        /\ pc'[p] = "discard" /\ want'[p] = want[p] /\ created'[p] = created[p]
        /\ UNCHANGED disk /\ want[p] \in Snapshots
    BY <1>0, <1>3, HandTypes
    DEF Fault, FaultAfter, disk, call, Staging, Committing
  <2>2. PreparationOf(p)'
    BY <2>1, HandTypes
    DEF Hand, PreparationOf, Journaled, Preparing, Staging, Committing, Recovery, disk
  <2> QED BY <2>1, <2>2, HandInTransaction DEF TransactionOf, Committing, Recovery
<1> QED BY <1>1, <1>2, <1>3 DEF Fault

\* Whatever anybody does, every sync knows what it relies on.
LEMMA HandsStep ==
    ASSUME lapse' = "none", TypeOK, Exclusion, JournalState, Hands, [Next]_vars
    PROVE  Hands' /\ JournalState'
<1>1. CASE UNCHANGED <<disk, pc, call>>
  BY <1>1, HandFrame
  DEF Hands, disk, call, JournalState, Unjournaled, Recoverable, Journaled, FilesOf, Available
<1>2. ASSUME NEW p \in Syncs, SyncStep(p) PROVE Hands' /\ JournalState'
  <2>1. Hand(p) BY DEF Hands
  <2>2. JournalState' BY <1>2, <2>1, JournalStateStep
  <2>3. Hand(p)'
    <3>0. pc \in [Syncs -> PCs] /\ want \in [Syncs -> Snapshots \cup {NoEntry}]
          /\ created \in [Syncs -> BOOLEAN] BY DEF TypeOK
    <3>1. CASE Call(p)
      <4>1. pc'[p] = "waiting" /\ want'[p] \in Snapshots /\ ~created'[p]
        BY <2>1, <3>0, <3>1, RegistryAssumption
        DEF Call, Admit, Goto, Hand, PreparationOf, RegistryAssumption
      <4> QED BY <4>1, HandOut
    <3>2. CASE GetLock(p)
      <4>1. /\ pc[p] = "waiting" /\ pc'[p] = "recover" /\ want'[p] = want[p]
            /\ created'[p] = created[p] /\ want[p] \in Snapshots
        BY <2>1, <3>0, <3>2, HandTypes DEF GetLock, Goto, call
      <4> QED
        BY <2>1, <4>1
        DEF Hand, RecoveryOf, PreparationOf, TransactionOf, Recovery, Preparing, Staging,
            Committing
    <3>3. CASE Leave(p)
      BY <3>0, <3>3, HandOut DEF Leave, PCs, Critical
    <3> QED
      BY <1>2, <2>1, <3>1, <3>2, <3>3, FaultHand, RecoverHand, TransactHand
      DEF SyncStep, Work, Busy, Crash, Refuse
  <2> QED BY <1>2, <2>2, <2>3, OthersKeep DEF Hands
<1>3. CASE GraphifyWrites BY <1>3, GraphifyKeeps
<1> QED BY <1>1, <1>2, <1>3 DEF Next, SyncStep, Read, vars

-----------------------------------------------------------------------------
(* The committed registry                                                  *)

\* The committed registry is a document or missing.
LEMMA RegistryType ==
    ASSUME TypeOK, JournalState PROVE Registry \in Documents \cup {Absent}
BY TwoRegistries DEF Registry, TypeOK, Contents, Files

\* A sync changes the committed registry only by removing its journal, and then
\* by adding its snapshot.
LEMMA RegistryStep ==
    ASSUME TypeOK, JournalState, NEW p \in Syncs, Hand(p), SyncStep(p)
    PROVE  \/ Registry' = Registry
           \/ \E s \in Snapshots : Registry' = Added(Registry, s)
<1> USE DEF Goto
<1>1. CASE UNCHANGED <<file, journal>> BY <1>1 DEF Registry, Journaled
<1>2. CASE Journaled /\ UNCHANGED journal BY <1>2 DEF Registry, Journaled
<1>3. ASSUME UnlinkJournal, Journaled, Undone(Files) \/ FilesOf(journal.new)
      PROVE  \/ Registry' = Registry
             \/ \E s \in Snapshots : Registry' = Added(Registry, s)
  <2>1. Registry' = file["registry"] /\ Registry = journal.old["registry"]
    BY <1>3 DEF UnlinkJournal, Registry, Journaled
  <2>2. CASE Undone(Files) BY <1>3, <2>1, <2>2, TwoRegistries
  <2>3. CASE FilesOf(journal.new)
    <3>1. file["registry"] = journal.new BY <2>3 DEF FilesOf, TypeOK, Files
    <3> QED BY <1>3, <2>1, <3>1, JournalType DEF JournalState, Recoverable
  <2> QED BY <1>3, <2>2, <2>3
<1>4. CASE Refuse(p) \/ Call(p) \/ Fault(p) \/ Crash(p) \/ GetLock(p) \/ Busy(p)
  BY <1>1, <1>4
  DEF Refuse, Call, Admit, Fault, FaultBefore, FaultDropping, FaultAfter, Crash, GetLock,
      Busy, disk
<1>5. CASE Recover(p)
  <2>1. CASE UndoUnlink(p) \/ UndoReplace(p)
    BY <1>2, <2>1, HandTypes DEF UndoUnlink, UndoReplace, Recovery
  <2>2. CASE Clear(p)
    BY <1>3, <2>2, HandTypes DEF Clear, Recovery, Hand, RecoveryOf
  <2> QED
    BY <1>1, <1>5, <2>1, <2>2
    DEF Recover, RecoverNothing, RecoverTorn, RecoverForward, RecoverBack, UndoKept,
        UndoWrite, UndoRefused, DropSnapshot, RemoveSnapshot, DropDone, Clean, CleanFile,
        Refuse, disk
<1>6. CASE Transact(p)
  <2>1. CASE CreateJournal(p)
    BY <2>1 DEF CreateJournal, Hand, PreparationOf, Registry, Journaled
  <2>2. CASE FillJournal(p)
    <3>1. ~Journaled /\ old[p]["registry"] = file["registry"]
      BY <2>2 DEF FillJournal, Hand, PreparationOf, TransactionOf, Journaled
    <3>2. journal'.old["registry"] = file["registry"] /\ UNCHANGED file
      BY <2>2, <3>1 DEF FillJournal
    <3> QED BY <3>1, <3>2 DEF Registry
  <2>3. CASE Replace(p) BY <1>2, <2>3, HandTypes DEF Replace, Committing
  <2>4. CASE Unlink(p)
    BY <1>3, <2>4, HandTypes DEF Unlink, Hand, TransactionOf, Committing, FilesOf
  <2> QED
    BY <1>1, <1>6, <2>1, <2>2, <2>3, <2>4
    DEF Transact, Inspect, InspectRefused, InstallSnapshot, ReuseSnapshot, InstallRefused,
        Validate, UnchangedRemove, Unchanged, Stage, JournalWritten, Backup, Cleanup,
        CleanFile, Synced, VerifyFails, Return, DiscardSnapshot, RemoveSnapshot, Raise,
        Refuse, disk
<1> QED BY <1>4, <1>5, <1>6 DEF SyncStep, Work

\* The generation never falls.
LEMMA GenerationStep ==
    ASSUME TypeOK, JournalState, NEW p \in Syncs, Hand(p), SyncStep(p)
    PROVE  Registry' = Registry \/ Generation(Registry') = Generation(Registry) + 1
BY RegistryStep, RegistryType, AddedType

ReaderStates == \A r \in Readers : ReaderState(r)

\* A capture: one reader, and the files stay as they are.
LEMMA ReaderAlone ==
    ASSUME TypeOK, NEW r \in Readers, Read(r)
    PROVE  /\ \A q \in Readers \ {r} :
                rpc'[q] = rpc[q] /\ got'[q] = got[q] /\ captured'[q] = captured[q]
           /\ UNCHANGED disk /\ Registry' = Registry
           /\ \/ UNCHANGED captured
              \/ Reread(r) /\ captured' = [captured EXCEPT ![r] = got[r]]
BY DEF Read, Capture, OpenCapture, ReadRegistry, CaptureEntries, Reread, GiveUp, Step,
       TypeOK, disk, Registry, Journaled

\* A reader has in hand the registry that is current.
LEMMA ReadersStep ==
    ASSUME TypeOK, Exclusion, JournalState, Hands, ReaderStates, [Next]_vars
    PROVE  ReaderStates'
<1>1. ASSUME UNCHANGED <<readers, journal, Registry>>, file'["registry"] = file["registry"]
      PROVE  ReaderStates'
  BY <1>1 DEF ReaderStates, ReaderState, readers
<1>2. CASE UNCHANGED vars
  BY <1>1, <1>2 DEF vars, disk, Registry, Journaled
<1>3. CASE GraphifyWrites
  <2>1. file'["registry"] = file["registry"] /\ UNCHANGED <<readers, journal>>
    BY <1>3 DEF GraphifyWrites, TypeOK, Files
  <2> QED BY <1>1, <2>1 DEF Registry, Journaled
<1>4. ASSUME NEW p \in Syncs, SyncStep(p) PROVE ReaderStates'
  <2>1. UNCHANGED readers BY <1>4, Framing
  <2>2. CASE UNCHANGED disk BY <1>1, <2>1, <2>2 DEF disk, Registry, Journaled
  <2>3. CASE Holding(p)
    <3>1. \A r \in Readers : rpc[r] = "idle" BY <2>3 DEF Exclusion, Reading
    <3>2. Registry' = Registry \/ Generation(Registry') = Generation(Registry) + 1
      BY <1>4, GenerationStep DEF Hands
    <3>3. Registry' # Registry => Generation(Registry) < Generation(Registry')
      BY <3>2, RegistryType DEF Generation, Documents
    <3>4. /\ \A r \in Readers : Generation(captured[r]) \in Nat
          /\ Generation(Registry) \in Nat /\ Generation(Absent) = 0
          /\ Registry' # Registry => Generation(Registry') = Generation(Registry) + 1
      BY <3>2, RegistryType DEF Generation, Documents, TypeOK
    <3> QED
      BY <2>1, <3>1, <3>3, <3>4 DEF ReaderStates, ReaderState, readers
  <2> QED BY <1>4, <2>2, <2>3, Framing
<1>5. ASSUME NEW r \in Readers, Read(r) PROVE ReaderStates'
  <2>1. UNCHANGED disk /\ Registry' = Registry BY <1>5, ReaderAlone
  <2>2. ASSUME NEW q \in Readers, q # r PROVE ReaderState(q)'
    BY <1>5, <2>1, <2>2, ReaderAlone DEF ReaderStates, ReaderState, disk
  <2>3. ReaderState(r) BY DEF ReaderStates
  <2>4. ReaderState(r)'
    <3>1. CASE OpenCapture(r) \/ CaptureEntries(r) \/ GiveUp(r)
      BY <2>1, <2>3, <3>1
      DEF OpenCapture, CaptureEntries, GiveUp, Step, ReaderState, TypeOK, disk
    <3>2. CASE ReadRegistry(r)
      BY <2>1, <2>3, <3>2 DEF ReadRegistry, Step, ReaderState, TypeOK, disk
    <3>3. CASE Reread(r)
      <4>1. journal = NoJournal /\ got[r] = file["registry"]
        BY <2>3, <3>3 DEF Reread, Step, ReaderState
      <4>2. got[r] = Registry BY <4>1 DEF Registry, Journaled
      <4> QED
        BY <2>1, <3>3, <4>2 DEF Reread, Step, ReaderState, TypeOK
    <3> QED BY <1>5, <3>1, <3>2, <3>3 DEF Read, Capture
  <2> QED BY <2>2, <2>4 DEF ReaderStates
<1> QED BY <1>2, <1>3, <1>4, <1>5 DEF Next, SyncStep

-----------------------------------------------------------------------------
(* Theorems                                                                *)

\* The invariant is that of its parts.
LEMMA InvParts ==
    /\ Inv <=> TypeOK /\ Exclusion /\ JournalState /\ Hands /\ ReaderStates
    /\ Inv' <=> TypeOK' /\ Exclusion' /\ JournalState' /\ Hands' /\ ReaderStates'
BY DEF Inv, Hands, Hand, ReaderStates

\* Every step without a lapse keeps it,
LEMMA InvStep == ASSUME lapse' = "none", Inv, [Next]_vars PROVE Inv'
BY InvParts, TypeStep, ExclusionStep, HandsStep, ReadersStep

\* a lapse is for good,
LEMMA LapseStays == ASSUME Lapsed, [Next]_vars PROVE Lapsed'
BY DEF Lapsed, Next, Call, Work, Fault, Crash, Read, GraphifyWrites, vars, env

\* an environment that is quiet where QuietCommit says so causes none,
LEMMA QuietStep ==
    ASSUME QuietCommit, TypeOK, lapse = "none", [Next]_vars PROVE lapse' = "none"
BY DEF QuietCommit, Next, Call, Work, Fault, Crash, Read, GraphifyWrites, vars, env

\* and it holds at first.
LEMMA InvInit == Init => Inv
<1> SUFFICES ASSUME Init PROVE Inv OBVIOUS
<1> USE RegistryAssumption DEF RegistryAssumption
<1>1. PICK v \in FirstDocuments :
        /\ file = [f \in Files |-> v]
        /\ snapshot = [s \in Snapshots |-> IF s \in Listed(v) THEN "whole" ELSE "absent"]
  BY DEF Init
<1>2. v \in Documents \cup {Absent} BY DEF FirstDocuments, Documents
<1>3. "registry" \in Files BY DEF Files
<1>4. Available(v) BY <1>1, <1>2, ListedType DEF Available
<1>5. DiskOK
  BY <1>1, <1>2, <1>3 DEF Init, DiskOK, Contents, SnapshotStates
<1>6. CallOK
  BY <1>3 DEF Init, CallOK, Nowhere, Contents, PCs
<1>7. ReadersOK /\ EnvOK BY DEF Init, ReadersOK, EnvOK
<1>8. Exclusion
  BY DEF Init, Exclusion, Holding, Reading, Critical, Recovery, Preparing, Staging, Committing
<1>9. JournalState
  BY <1>1, <1>3, <1>4 DEF Init, JournalState, Journaled, Unjournaled, FilesOf
<1>10. Hands
  BY DEF Init, Hands, Hand, RecoveryOf, PreparationOf, TransactionOf, Recovery, Preparing,
         Staging, Committing
<1>11. ReaderStates BY DEF Init, ReaderStates, ReaderState
<1> QED BY <1>5, <1>6, <1>7, <1>8, <1>9, <1>10, <1>11, InvParts, Parts

\* The invariant of the transaction, its recovery and its readers
\* (registry.py:_commit_registry_transaction, _recover_registry_transaction):
\* it holds until a sync fails between its commit and its answer, or Graphify
\* writes into a transaction.
THEOREM InvCorrect == Spec => [](Lapsed \/ Inv)
<1>1. (Lapsed \/ Inv) /\ [Next]_vars => (Lapsed \/ Inv)'
  BY InvStep, LapseStays DEF Lapsed
<1> QED BY <1>1, InvInit, PTL DEF Spec

\* In a quiet environment it always does: what the runs instantiate.
THEOREM QuietCorrect == ASSUME QuietCommit PROVE Spec => [](~Lapsed /\ Inv)
<1>1. Init => ~Lapsed BY DEF Init, Lapsed
<1>2. ~Lapsed /\ Inv /\ [Next]_vars => (~Lapsed)'
  BY QuietStep, InvParts DEF Lapsed
<1> QED BY <1>1, <1>2, InvCorrect, PTL DEF Spec

\* Until such a lapse, whoever finds no journal finds files of one generation.
THEOREM OneGenerationCorrect == Spec => [](Lapsed \/ OneGeneration)
<1>1. Inv => OneGeneration
  BY InvParts DEF OneGeneration, JournalState, Journaled, Unjournaled, FilesOf
<1> QED BY <1>1, InvCorrect, PTL

\* Until such a lapse every entry of the committed registry has its snapshot,
\* whatever syncs died, were undone, or failed before their commit.
THEOREM EntriesAvailableCorrect == Spec => [](Lapsed \/ EntriesAvailable)
<1>1. Inv => EntriesAvailable
  BY InvParts DEF EntriesAvailable, Registry, JournalState, Recoverable, Unjournaled
<1> QED BY <1>1, InvCorrect, PTL

\* Until such a lapse a sync that answers has its entry in the registry and its
\* snapshot in the store.
THEOREM AnswersCorrect == Spec => [](Lapsed \/ AnswersHold)
<1>1. Inv => AnswersHold
  BY InvParts
  DEF AnswersHold, Hands, Hand, PreparationOf, TransactionOf, Registry, Journaled
<1> QED BY <1>1, InvCorrect, PTL

\* What capture_registry_snapshot returns to a reader only goes forward, in
\* every behaviour without such a lapse.
THEOREM CapturesCorrect == Spec /\ []~Lapsed => CapturesGoForward
<1> DEFINE Forward == \A r \in Readers : captured[r] # Absent =>
                        \/ captured'[r] = captured[r]
                        \/ Generation(captured'[r]) > Generation(captured[r])
<1>1. ASSUME Inv, [Next]_vars PROVE [Forward]_vars
  <2>0. TypeOK BY <1>1, InvParts
  <2>1. CASE UNCHANGED captured BY <2>1
  <2>2. ASSUME NEW r \in Readers, Read(r), Reread(r) PROVE Forward
    <3>1. ReaderState(r) BY <1>1, InvParts DEF ReaderStates
    <3>2. captured'[r] = Registry
      BY <2>0, <2>2, <3>1 DEF Reread, Step, ReaderState, Registry, Journaled, TypeOK
    <3>3. \A q \in Readers \ {r} : captured'[q] = captured[q]
      BY <2>0, <2>2, ReaderAlone
    <3>4. Generation(captured[r]) < Generation(Registry)
            => Generation(Registry) > Generation(captured[r])
      BY <1>1, <2>0, InvParts, RegistryType DEF Generation, Documents, TypeOK
    <3> QED BY <3>1, <3>2, <3>3, <3>4 DEF ReaderState
  <2>3. ASSUME NEW p \in Syncs, SyncStep(p) PROVE UNCHANGED captured
    BY <2>0, <2>3, Framing DEF readers
  <2>4. GraphifyWrites \/ UNCHANGED vars => UNCHANGED captured
    BY DEF GraphifyWrites, vars, readers
  <2> QED BY <1>1, <2>0, <2>1, <2>2, <2>3, <2>4, ReaderAlone DEF Next, SyncStep
<1> QED BY <1>1, InvCorrect, PTL DEF Spec, CapturesGoForward

\* The journalled transaction implements the store of whole generations, in
\* every behaviour without such a lapse.
THEOREM StoreImplemented == Spec /\ []~Lapsed => ImplementsStore
<1>1. Init => Store!Init
  <2> SUFFICES ASSUME Init PROVE Store!Init OBVIOUS
  <2>1. Registry \in Documents \cup {Absent} BY InvInit, InvParts, RegistryType
  <2> QED BY <2>1 DEF Init, Store!Init, Store!Documents, Documents
<1>2. ASSUME Inv, [Next]_vars PROVE [Store!Next]_(Store!vars)
  <2> USE DEF Store!vars
  <2>0. TypeOK /\ JournalState /\ Hands BY <1>2, InvParts
  <2>1. CASE UNCHANGED vars BY <2>1 DEF vars, disk, readers, Registry, Journaled
  <2>2. CASE GraphifyWrites
    BY <2>0, <2>2 DEF GraphifyWrites, Registry, Journaled, readers, TypeOK, Files
  <2>3. ASSUME NEW p \in Syncs, SyncStep(p) PROVE [Store!Next]_(Store!vars)
    <3>1. UNCHANGED captured BY <2>0, <2>3, Framing DEF readers
    <3>2. \A s : Store!Added(Registry, s) = Added(Registry, s)
      BY DEF Store!Added, Added, Store!Generation, Generation, Store!Entries, Entries
    <3>3. \/ Registry' = Registry
          \/ \E s \in Snapshots : Registry' = Added(Registry, s)
      BY <2>0, <2>3, RegistryStep DEF Hands
    <3> QED BY <3>1, <3>2, <3>3 DEF Store!Next, Store!Commit
  <2>4. ASSUME NEW r \in Readers, Read(r) PROVE [Store!Next]_(Store!vars)
    <3>1. Registry' = Registry BY <2>0, <2>4, ReaderAlone
    <3>2. CASE UNCHANGED captured BY <3>1, <3>2
    <3>3. CASE Reread(r) /\ captured' = [captured EXCEPT ![r] = got[r]]
      <4>1. ReaderState(r) BY <1>2, InvParts DEF ReaderStates
      <4>2. got[r] = Registry /\ Registry # Absent
        BY <3>3, <4>1 DEF Reread, Step, ReaderState, Registry, Journaled
      <4> QED BY <3>1, <3>3, <4>2 DEF Store!Next, Store!Capture
    <3> QED BY <2>0, <2>4, <3>2, <3>3, ReaderAlone
  <2> QED BY <1>2, <2>1, <2>2, <2>3, <2>4 DEF Next, SyncStep
<1> QED BY <1>1, <1>2, InvCorrect, PTL DEF Spec, ImplementsStore, Store!Spec
=============================================================================
