------------------------- MODULE RegistryTransaction -------------------------
(***************************************************************************)
(* registry.registry_sync and capture_registry_snapshot: how the syncs of  *)
(* many projects keep registry.json and Graphify's two global files of one *)
(* generation, with a journal, backups and a store of snapshots, while     *)
(* readers capture generations and Graphify itself may write its own files.*)
(*                                                                         *)
(* Syncs and readers are processes.  registry.lock lets one sync, or any   *)
(* number of readers, into its critical section.  Every system call that   *)
(* another process could find half done, or after which its process can    *)
(* die or fail, is a step of its own.  The .new files are not modelled:    *)
(* nobody looks for one but the transaction whose fresh id its name holds. *)
(*                                                                         *)
(* A document stands for the three files of its generation: the registry   *)
(* records the hashes of the other two, which every generation rebuilds    *)
(* with new time stamps.  Recovery compares those hashes and never reads   *)
(* the journal's phase, so the journal has none here.                      *)
(***************************************************************************)
EXTENDS RegistryDocument, FiniteSets

CONSTANTS Readers, Syncs,  \* capture and registry_sync processes
          Healthy,         \* the snapshots each sync may find its checkout in
          Foreign,         \* a file Graphify wrote on its own
          NoJournal,
          TornJournal,     \* a journal file with less than its document in it
          FaultPoints,     \* program points whose operation may raise
          CrashPoints,     \* program points at which the process may die
          ForeignPoints,   \* where all syncs are when Graphify writes
          MaxGeneration, MaxCrashes, MaxFaults, MaxForeign  \* bounds

\* The loops of a transaction and those of a recovery, which reads its journal
\* with the keys sorted, take the files in different orders.
Files == {"registry", "graph", "manifest"}
First(fs) == IF "registry" \in fs THEN "registry"
             ELSE IF "graph" \in fs THEN "graph" ELSE "manifest"
FirstSorted(fs) == IF "graph" \in fs THEN "graph"
                   ELSE IF "manifest" \in fs THEN "manifest" ELSE "registry"

Contents == Documents \cup {Absent, Foreign}
Journals == [old: [Files -> Contents], new: Documents,
             snapshot: Snapshots, created: BOOLEAN]
SnapshotStates == {"absent", "whole", "torn"}

Recovery == {"recover", "undo", "undo_replace", "drop", "clean", "clear"}
Preparing == {"inspect", "install", "validate", "reuse", "project"}
Staging == {"journal", "fill", "sync"}
Committing == {"backup", "replace", "cleanup", "unlink"}
Critical == Recovery \cup Preparing \cup Staging \cup Committing
            \cup {"verify", "answer", "discard"}
PCs == {"idle", "waiting"} \cup Critical

ASSUME RegistryAssumption ==
         /\ KeyOf \in [Snapshots -> Keys]
         /\ Healthy \in [Syncs -> SUBSET Snapshots]
         /\ NoEntry \notin Snapshots
         /\ Absent \notin Documents /\ Foreign \notin Documents /\ Absent # Foreign
         /\ NoJournal \notin Journals /\ TornJournal \notin Journals
         /\ NoJournal # TornJournal
         /\ FaultPoints \subseteq Critical /\ CrashPoints \subseteq PCs
         /\ ForeignPoints \subseteq PCs
         /\ MaxGeneration \in Nat \ {0}
         /\ MaxCrashes \in Nat /\ MaxFaults \in Nat /\ MaxForeign \in Nat

VARIABLES file,      \* registry.json, global-graph.json, global-manifest.json
          backup,    \* ... whose whole .backup is on disk
          restored,  \* ... whose .restore is on disk
          journal,   \* registry-transaction.json
          snapshot,  \* snapshots/<uid>/<digest>
          pc,
          want,      \* a sync's admitted snapshot
          created,   \* whether it installed that snapshot
          old,       \* the files it found
          todo,      \* what its loop has left
          rpc, got, captured,  \* a reader: the document read, the last returned
          crashes, faults, foreign,
          lapse      \* history: what happened outside the protocol's care

disk == <<file, backup, restored, journal, snapshot>>
call == <<want, created, old, todo>>
readers == <<rpc, got, captured>>
env == <<crashes, faults, foreign, lapse>>
vars == <<disk, pc, call, readers, env>>

Journaled == journal \notin {NoJournal, TornJournal}

\* The committed generation.  A journal makes readers wait and the next sync
\* decide: until it is gone the registry is what it was before.
Registry == IF Journaled THEN journal.old["registry"] ELSE file["registry"]

\* Mutant: the entries of other projects are left out.
NewAlone(p) == [generation |-> Generation(old[p]["registry"]) + 1,
                entries |-> [k \in Keys |->
                               IF k = KeyOf[want[p]] THEN want[p] ELSE NoEntry]]

\* What the sync is about to install.
New(p) == Added(old[p]["registry"], want[p])

Listed(v) == {Entries(v)[k] : k \in Keys} \ {NoEntry}
Available(v) == \A s \in Listed(v) : snapshot[s] = "whole"

-----------------------------------------------------------------------------
(* Control                                                                 *)

Nowhere == [f \in Files |-> Absent]

\* A user without a registry, or with one that some syncs have left.
FirstDocuments ==
    {Absent} \cup {v \in [generation: {1}, entries: [Keys -> Snapshots \cup {NoEntry}]] :
                     /\ Listed(v) # {}
                     /\ \A k \in Keys : v.entries[k] # NoEntry => KeyOf[v.entries[k]] = k}

Init == /\ \E v \in FirstDocuments :
             /\ file = [f \in Files |-> v]
             /\ snapshot = [s \in Snapshots |->
                              IF s \in Listed(v) THEN "whole" ELSE "absent"]
        /\ backup = {} /\ restored = {}
        /\ journal = NoJournal
        /\ pc = [p \in Syncs |-> "idle"]
        /\ want = [p \in Syncs |-> NoEntry]
        /\ created = [p \in Syncs |-> FALSE]
        /\ old = [p \in Syncs |-> Nowhere]
        /\ todo = [p \in Syncs |-> {}]
        /\ rpc = [r \in Readers |-> "idle"]
        /\ got = [r \in Readers |-> Absent]
        /\ captured = [r \in Readers |-> Absent]
        /\ crashes = 0 /\ faults = 0 /\ foreign = 0 /\ lapse = "none"

Holding(p) == pc[p] \in Critical
Reading(r) == rpc[r] # "idle"

Goto(p, from, to) == pc[p] = from /\ pc' = [pc EXCEPT ![p] = to]

\* The file whose turn it is in the loop p is in.
Turn(p) == IF pc[p] \in Recovery THEN FirstSorted(todo[p]) ELSE First(todo[p])

\* One round of a loop over the files: "here" until they are done.
Round(p, here, next) ==
    LET rest == todo[p] \ {Turn(p)}
    IN  /\ pc' = [pc EXCEPT ![p] = IF rest = {} THEN next ELSE here]
        /\ todo' = [todo EXCEPT ![p] = IF rest = {} THEN Files ELSE rest]
        /\ UNCHANGED <<want, created, old>>

\* The call ends, and with it the lock.
Leave(p) ==
    /\ pc' = [pc EXCEPT ![p] = "idle"]
    /\ created' = [created EXCEPT ![p] = FALSE]
    /\ old' = [old EXCEPT ![p] = Nowhere]
    /\ todo' = [todo EXCEPT ![p] = {}]
    /\ want' = [want EXCEPT ![p] = NoEntry]

\* The call raises before it changes anything more.
Refuse(p) == Leave(p) /\ UNCHANGED disk

\* _capture_live_generation under the checkout's lifecycle lock: an owned
\* graph of some project is healthy and current.
Admit(p) == /\ Goto(p, "idle", "waiting")
            /\ \E s \in Healthy[p] : want' = [want EXCEPT ![p] = s]
            /\ UNCHANGED <<disk, created, old, todo>>

\* Mutant: the lock is taken shared.
GetLockShared(p) == /\ Goto(p, "waiting", "recover")
                    /\ \A r \in Readers : ~Reading(r)
                    /\ UNCHANGED <<disk, call>>

GetLock(p) == /\ Goto(p, "waiting", "recover")
              /\ \A q \in Syncs : ~Holding(q)
              /\ \A r \in Readers : ~Reading(r)
              /\ UNCHANGED <<disk, call>>

\* registry_busy: the last try before the deadline finds the lock taken.
Busy(p) == /\ pc[p] = "waiting"
           /\ \/ \E q \in Syncs : Holding(q)
              \/ \E r \in Readers : Reading(r)
           /\ Refuse(p)

-----------------------------------------------------------------------------
(* _recover_registry_transaction                                           *)

\* Mutant: the registry alone decides the direction.
RegistryNew == file["registry"] = journal.new

AllNew == \A f \in Files : file[f] = journal.new

RecoverNothing(p) == /\ Goto(p, "recover", "inspect")
                     /\ journal = NoJournal
                     /\ UNCHANGED <<disk, call>>

RecoverTorn(p) == /\ pc[p] = "recover"
                  /\ journal = TornJournal
                  /\ Refuse(p)

RecoverForward(p) == /\ Goto(p, "recover", "clean")
                     /\ Journaled /\ AllNew
                     /\ todo' = [todo EXCEPT ![p] = Files]
                     /\ UNCHANGED <<disk, want, created, old>>

RecoverBack(p) == /\ Goto(p, "recover", "undo")
                  /\ Journaled /\ ~AllNew
                  /\ todo' = [todo EXCEPT ![p] = Files]
                  /\ UNCHANGED <<disk, want, created, old>>

\* What the rollback does about file f.
Kept(f) == file[f] = journal.old[f]
Unlinkable(f) == journal.old[f] = Absent /\ file[f] = journal.new
Restorable(f) == /\ ~Kept(f) /\ journal.old[f] # Absent
                 /\ f \in backup /\ f \notin restored

UndoKept(p) == /\ pc[p] = "undo"
               /\ Kept(Turn(p))
               /\ Round(p, "undo", "drop")
               /\ UNCHANGED disk

UndoUnlink(p) == /\ pc[p] = "undo"
                 /\ Unlinkable(Turn(p))
                 /\ file' = [file EXCEPT ![Turn(p)] = Absent]
                 /\ Round(p, "undo", "drop")
                 /\ UNCHANGED <<backup, restored, journal, snapshot>>

\* O_EXCL: a .restore that a dead recovery left behind refuses this one.
UndoRefused(p) == LET f == Turn(p)
                  IN  /\ pc[p] = "undo"
                      /\ ~Kept(f) /\ ~Unlinkable(f) /\ ~Restorable(f)
                      /\ Refuse(p)

UndoWrite(p) == /\ Goto(p, "undo", "undo_replace")
                /\ Restorable(Turn(p))
                /\ restored' = restored \cup {Turn(p)}
                /\ UNCHANGED <<file, backup, journal, snapshot, call>>

UndoReplace(p) == LET f == Turn(p)
                  IN  /\ pc[p] = "undo_replace"
                      /\ file' = [file EXCEPT ![f] = journal.old[f]]
                      /\ restored' = restored \ {f}
                      /\ Round(p, "undo", "drop")
                      /\ UNCHANGED <<backup, journal, snapshot>>

\* shutil.rmtree: a snapshot is torn before it is gone.
RemoveSnapshot(s) == /\ snapshot' = [snapshot EXCEPT ![s] =
                                       IF @ = "whole" THEN "torn" ELSE "absent"]
                     /\ UNCHANGED <<file, backup, restored, journal>>

Drops == journal.created /\ snapshot[journal.snapshot] # "absent"

DropSnapshot(p) == /\ pc[p] = "drop" /\ Drops
                   /\ RemoveSnapshot(journal.snapshot)
                   /\ UNCHANGED <<pc, call>>

DropDone(p) == /\ Goto(p, "drop", "clean") /\ ~Drops
               /\ UNCHANGED <<disk, call>>

\* _cleanup_transaction_files: the .backup (and the .new) of one file.
CleanFile(f) == /\ backup' = backup \ {f}
                /\ UNCHANGED <<file, restored, journal, snapshot>>

Clean(p) == /\ pc[p] = "clean"
            /\ CleanFile(Turn(p))
            /\ Round(p, "clean", "clear")

UnlinkJournal == /\ journal' = NoJournal
                 /\ UNCHANGED <<file, backup, restored, snapshot>>

\* Mutant: the journal of a finished recovery stays.
ClearNothing(p) == Goto(p, "clear", "inspect") /\ UNCHANGED <<disk, call>>

Clear(p) == /\ Goto(p, "clear", "inspect")
            /\ UnlinkJournal
            /\ UNCHANGED call

Recover(p) == \/ RecoverNothing(p) \/ RecoverTorn(p)
              \/ RecoverForward(p) \/ RecoverBack(p)
              \/ UndoKept(p) \/ UndoUnlink(p) \/ UndoRefused(p)
              \/ UndoWrite(p) \/ UndoReplace(p)
              \/ DropSnapshot(p) \/ DropDone(p) \/ Clean(p) \/ Clear(p)

-----------------------------------------------------------------------------
(* _registry_sync_locked up to the transaction                             *)

\* The registry's hashes match Graphify's files; without a registry there is
\* nothing of Graphify's that a first sync would take over.
Managed == \A f \in Files : file[f] = file["registry"]

InspectRefused(p) == /\ pc[p] = "inspect"
                     /\ ~Managed \/ Generation(file["registry"]) >= MaxGeneration
                     /\ Refuse(p)

Inspect(p) == /\ Goto(p, "inspect", "install")
              /\ Managed
              /\ Generation(file["registry"]) < MaxGeneration  \* bound
              /\ old' = [old EXCEPT ![p] = file]
              /\ UNCHANGED <<disk, want, created, todo>>

InstallSnapshot(p) == /\ Goto(p, "install", "validate")
                      /\ snapshot[want[p]] = "absent"
                      /\ snapshot' = [snapshot EXCEPT ![want[p]] = "whole"]
                      /\ created' = [created EXCEPT ![p] = TRUE]
                      /\ UNCHANGED <<file, backup, restored, journal,
                                     want, old, todo>>

ReuseSnapshot(p) == /\ Goto(p, "install", "validate")
                    /\ snapshot[want[p]] = "whole"
                    /\ UNCHANGED <<disk, call>>

\* "snapshot digest collision detected"
InstallRefused(p) == /\ pc[p] = "install"
                     /\ snapshot[want[p]] = "torn"
                     /\ Refuse(p)

\* Mutant: any entry of the project will do.
KnownKey(p) == Entries(old[p]["registry"])[KeyOf[want[p]]] # NoEntry

Known(p) == Entries(old[p]["registry"])[KeyOf[want[p]]] = want[p]

Validate(p) == /\ pc[p] = "validate"
               /\ pc' = [pc EXCEPT ![p] =
                    IF ~Available(old[p]["registry"]) THEN "discard"
                    ELSE IF Known(p) THEN "reuse" ELSE "project"]
               /\ UNCHANGED <<disk, call>>

\* The entry is there already; a snapshot this call had to install is removed.
UnchangedRemove(p) == /\ pc[p] = "reuse"
                      /\ created[p] /\ snapshot[want[p]] # "absent"
                      /\ RemoveSnapshot(want[p])
                      /\ UNCHANGED <<pc, call>>

Unchanged(p) == /\ Goto(p, "reuse", "answer")
                /\ created[p] => snapshot[want[p]] = "absent"
                /\ UNCHANGED <<disk, call>>

-----------------------------------------------------------------------------
(* _commit_registry_transaction                                            *)

\* The projection is built and the admission still current.  The files are
\* read again: these, not the inspected ones, are what a rollback restores.
Stage(p) == /\ Goto(p, "project", "journal")
            /\ old' = [old EXCEPT ![p] = file]
            /\ backup' = {} /\ restored' = {}
            /\ UNCHANGED <<file, journal, snapshot, want, created, todo>>

\* The journal is created under its own name and then written.
CreateJournal(p) == /\ Goto(p, "journal", "fill")
                    /\ journal' = TornJournal
                    /\ UNCHANGED <<file, backup, restored, snapshot, call>>

FillJournal(p) == /\ Goto(p, "fill", "sync")
                  /\ journal' = [old |-> old[p], new |-> New(p),
                                 snapshot |-> want[p], created |-> created[p]]
                  /\ UNCHANGED <<file, backup, restored, snapshot, call>>

JournalWritten(p) == /\ Goto(p, "sync", "backup")
                     /\ todo' = [todo EXCEPT ![p] = Files]
                     /\ UNCHANGED <<disk, want, created, old>>

Backup(p) == /\ pc[p] = "backup"
             /\ backup' = IF old[p][Turn(p)] = Absent THEN backup
                          ELSE backup \cup {Turn(p)}
             /\ Round(p, "backup", "replace")
             /\ UNCHANGED <<file, restored, journal, snapshot>>

Replace(p) == /\ pc[p] = "replace"
              /\ file' = [file EXCEPT ![Turn(p)] = New(p)]
              /\ Round(p, "replace", "cleanup")
              /\ UNCHANGED <<backup, restored, journal, snapshot>>

Cleanup(p) == /\ pc[p] = "cleanup"
              /\ CleanFile(Turn(p))
              /\ Round(p, "cleanup", "unlink")

Unlink(p) == /\ Goto(p, "unlink", "verify")
             /\ UnlinkJournal
             /\ UNCHANGED call

Synced(p) == /\ Goto(p, "verify", "answer")
             /\ \A f \in Files : file[f] = New(p)
             /\ UNCHANGED <<disk, call>>

\* "synced" or "unchanged" is returned and the lock released.
Return(p) == pc[p] = "answer" /\ Refuse(p)

VerifyFails(p) == /\ Goto(p, "verify", "discard")
                  /\ \E f \in Files : file[f] # New(p)
                  /\ UNCHANGED <<disk, call>>

\* Mutant: the snapshot is removed although a journal still names it.
DiscardsAnyway(p) == created[p] /\ snapshot[want[p]] # "absent"

\* The except clauses.
Discards(p) == /\ journal = NoJournal /\ created[p]
               /\ snapshot[want[p]] # "absent"

DiscardSnapshot(p) == /\ pc[p] = "discard" /\ Discards(p)
                      /\ RemoveSnapshot(want[p])
                      /\ UNCHANGED <<pc, call>>

Raise(p) == /\ pc[p] = "discard" /\ ~Discards(p)
            /\ Refuse(p)

Transact(p) == \/ Inspect(p) \/ InspectRefused(p)
               \/ InstallSnapshot(p) \/ ReuseSnapshot(p) \/ InstallRefused(p)
               \/ Validate(p) \/ UnchangedRemove(p) \/ Unchanged(p)
               \/ Stage(p) \/ CreateJournal(p) \/ FillJournal(p)
               \/ JournalWritten(p) \/ Backup(p) \/ Replace(p) \/ Cleanup(p)
               \/ Unlink(p) \/ Synced(p) \/ VerifyFails(p) \/ Return(p)
               \/ DiscardSnapshot(p) \/ Raise(p)

-----------------------------------------------------------------------------
(* The environment of a sync                                               *)

\* The operation at pc raises, or the check at pc finds the project changed.
FaultBefore(p) == /\ pc[p] \in (Recovery \ {"drop"}) \cup {"inspect", "install"}
                  /\ Refuse(p)

\* _remove_snapshot swallows what rmtree raises.
FaultDropping(p) == /\ Goto(p, "drop", "clean")
                    /\ UNCHANGED <<disk, call>>

FaultAfter(p) == /\ pc[p] \in {"validate", "reuse", "project", "verify"}
                             \cup Staging \cup Committing
                 /\ pc' = [pc EXCEPT ![p] = "discard"]
                 /\ UNCHANGED <<disk, call>>

Fault(p) == /\ pc[p] \in FaultPoints
            /\ faults < MaxFaults /\ faults' = faults + 1
            /\ FaultBefore(p) \/ FaultDropping(p) \/ FaultAfter(p)
            /\ lapse' = IF pc[p] = "verify" THEN "late" ELSE lapse
            /\ UNCHANGED <<crashes, foreign, readers>>

Crash(p) == /\ pc[p] \in CrashPoints \ {"idle"}
            /\ crashes < MaxCrashes /\ crashes' = crashes + 1
            /\ Refuse(p)
            /\ UNCHANGED <<faults, foreign, lapse, readers>>

\* From the first replaced file to the last check.
Unguarded == {"replace", "cleanup", "unlink", "verify"}

\* graphify global add, run by hand, knows nothing of registry.lock.
GraphifyWrites == /\ foreign < MaxForeign /\ foreign' = foreign + 1
                  /\ \A p \in Syncs : pc[p] \in ForeignPoints
                  /\ \E f \in Files \ {"registry"} :
                       file' = [file EXCEPT ![f] = Foreign]
                  /\ lapse' = IF \E p \in Syncs : pc[p] \in Unguarded
                              THEN "written" ELSE lapse
                  /\ UNCHANGED <<backup, restored, journal, snapshot, pc,
                                 call, readers, crashes, faults>>

-----------------------------------------------------------------------------
(* capture_registry_snapshot                                               *)

Step(r, from, to) == rpc[r] = from /\ rpc' = [rpc EXCEPT ![r] = to]

\* The capture raises, or its process dies.
GiveUp(r) == /\ rpc[r] # "idle" /\ rpc' = [rpc EXCEPT ![r] = "idle"]
             /\ got' = [got EXCEPT ![r] = Absent]
             /\ UNCHANGED captured

\* LOCK_SH with no timeout: a sync in its critical section makes it busy.
OpenCapture(r) == /\ Step(r, "idle", "read")
                  /\ \A p \in Syncs : ~Holding(p)
                  /\ UNCHANGED <<got, captured>>

\* Mutant: a journal is none of a reader's business.
ReadJournaled(r) == /\ Step(r, "read", "entries")
                    /\ file["registry"] # Absent /\ Managed
                    /\ got' = [got EXCEPT ![r] = file["registry"]]
                    /\ UNCHANGED captured

ReadRegistry(r) == /\ Step(r, "read", "entries")
                   /\ journal = NoJournal
                   /\ file["registry"] # Absent /\ Managed
                   /\ got' = [got EXCEPT ![r] = file["registry"]]
                   /\ UNCHANGED captured

\* The requested entries are copied from their snapshots and validated.
CaptureEntries(r) == /\ Step(r, "entries", "reread")
                     /\ \E s \in Listed(got[r]) : snapshot[s] = "whole"
                     /\ UNCHANGED <<got, captured>>

Reread(r) == /\ Step(r, "reread", "idle")
             /\ file["registry"] = got[r] /\ Managed
             /\ captured' = [captured EXCEPT ![r] = got[r]]
             /\ got' = [got EXCEPT ![r] = Absent]

Capture(r) == \/ OpenCapture(r) \/ ReadRegistry(r) \/ CaptureEntries(r)
              \/ Reread(r) \/ GiveUp(r)

-----------------------------------------------------------------------------
Work(p) == /\ GetLock(p) \/ Busy(p) \/ Recover(p) \/ Transact(p)
           /\ UNCHANGED <<readers, env>>

Call(p) == Admit(p) /\ UNCHANGED <<readers, env>>
TakeLock(p) == GetLock(p) /\ UNCHANGED <<readers, env>>
Read(r) == Capture(r) /\ UNCHANGED <<disk, pc, call, env>>

Next == \/ \E p \in Syncs : Call(p) \/ Work(p) \/ Fault(p) \/ Crash(p)
        \/ \E r \in Readers : Read(r)
        \/ GraphifyWrites

Spec == Init /\ [][Next]_vars

\* Processes run.  Somebody goes on syncing, now and then while nobody captures,
\* and the polls of a sync do not miss the lock whenever it is free.
Fairness == /\ \A p \in Syncs : WF_vars(Work(p))
            /\ \A r \in Readers : WF_vars(Reading(r) /\ Read(r))
            /\ SF_vars(\E p \in Syncs : Call(p) /\ \A r \in Readers : ~Reading(r))
            /\ SF_vars(\E p \in Syncs : TakeLock(p))
FairSpec == Spec /\ Fairness

-----------------------------------------------------------------------------
(* Properties                                                              *)

\* Type invariant.
TypeOK == /\ file \in [Files -> Contents] /\ file["registry"] # Foreign
          /\ backup \subseteq Files /\ restored \subseteq Files
          /\ journal \in Journals \cup {NoJournal, TornJournal}
          /\ snapshot \in [Snapshots -> SnapshotStates]
          /\ pc \in [Syncs -> PCs]
          /\ want \in [Syncs -> Snapshots \cup {NoEntry}]
          /\ created \in [Syncs -> BOOLEAN]
          /\ old \in [Syncs -> [Files -> Contents]]
          /\ \A p \in Syncs : old[p]["registry"] # Foreign
          /\ todo \in [Syncs -> SUBSET Files]
          /\ rpc \in [Readers -> {"idle", "read", "entries", "reread"}]
          /\ got \in [Readers -> Documents \cup {Absent}]
          /\ captured \in [Readers -> Documents \cup {Absent}]
          /\ crashes \in 0..MaxCrashes /\ faults \in 0..MaxFaults
          /\ foreign \in 0..MaxForeign
          /\ lapse \in {"none", "late", "written"}

\* The three files are replaced one by one, by processes that die and fail on
\* the way.  Whoever finds no journal finds files of one generation, except
\* for what Graphify overwrote itself.
OneGeneration ==
    journal = NoJournal => \A f \in Files : file[f] \in {file["registry"], Foreign}

\* Every entry of the committed registry can be captured: neither a rollback
\* nor the cleanup of a failed sync takes a snapshot the registry refers to.
EntriesAvailable == Available(Registry)

\* A sync that answers "synced" or "unchanged" leaves its snapshot in the
\* committed registry, and in the store.
AnswersHold == \A p \in Syncs : pc[p] = "answer" =>
                 /\ Entries(Registry)[KeyOf[want[p]]] = want[p]
                 /\ snapshot[want[p]] = "whole"

\* What a reader has captured is never undone: its later captures are of later
\* generations, or of the very same document.
CapturesGoForward ==
    [][\A r \in Readers : captured[r] # Absent =>
         \/ captured'[r] = captured[r]
         \/ Generation(captured'[r]) > Generation(captured[r])]_vars

Store == INSTANCE RegistryStore WITH registry <- Registry

\* The journalled transaction is atomic: removing the journal is the step that
\* commits, syncs of other projects lose no entry, captures see what is current.
ImplementsStore == Store!Spec

\* Three things no later sync can repair: a torn journal, a .restore that is in
\* the way of the next one, and a file of the transaction Graphify overwrote.
Blocked == \/ journal = TornJournal
           \/ restored # {} /\ \A p \in Syncs : pc[p] # "undo_replace"
           \/ foreign > 0

\* Anything else an interrupted sync leaves blocks nobody for good: the syncs
\* that follow finish it or undo it.
JournalsDrain == (journal # NoJournal) ~> (journal = NoJournal \/ Blocked)

\* The plan's promise: recovery "rolls forward when all new hashes exist or
\* restores all exact backups otherwise", whatever happened in between.
RecoveryCompletes == Journaled ~> (journal = NoJournal)

-----------------------------------------------------------------------------
(* The inductive invariant behind them                                     *)

\* A sync failed between its commit and its answer, when its except clauses
\* find no journal and take the committed snapshot for one of theirs; or
\* Graphify wrote while a transaction replaced its files.
Lapsed == lapse # "none"

\* Nothing of the kind is among the faults of the environment.
QuietCommit == "verify" \notin FaultPoints /\ ForeignPoints \cap Unguarded = {}

\* One sync, or readers, hold registry.lock.
Exclusion == /\ \A p, q \in Syncs : Holding(p) /\ Holding(q) => p = q
             /\ \A p \in Syncs, r \in Readers : ~(Holding(p) /\ Reading(r))

\* Every file is as some generation, or Graphify, left it.
FilesOf(v) == \A f \in Files : file[f] \in {v, Foreign}

Unjournaled == /\ FilesOf(file["registry"])
               /\ Available(file["registry"])

\* A journal's transaction can be finished and can be undone.
Recoverable ==
    /\ journal.new = Added(journal.old["registry"], journal.snapshot)
    /\ \A f \in Files : /\ journal.old[f] \in {journal.old["registry"], Foreign}
                        /\ file[f] \in {journal.old[f], journal.new, Foreign}
    /\ journal.old["registry"] # Foreign
    /\ Available(journal.old["registry"])
    /\ journal.created => journal.snapshot \notin Listed(journal.old["registry"])
    /\ file["registry"] = journal.new => snapshot[journal.snapshot] = "whole"

JournalState == IF Journaled THEN Recoverable ELSE Unjournaled

\* Files whose rollback is behind the sync.
Undone(fs) == \A f \in fs : file[f] \in {journal.old[f], Foreign}

RecoveryOf(p) ==
    /\ pc[p] \in Recovery \ {"recover"} => Journaled
    /\ pc[p] \in {"undo", "undo_replace", "drop", "clean",
                  "backup", "replace", "cleanup"}
         => todo[p] # {}
    /\ pc[p] \in {"undo", "undo_replace"} => Undone(Files \ todo[p])
    /\ pc[p] = "drop" => Undone(Files)
    /\ pc[p] \in {"clean", "clear"} => Undone(Files) \/ FilesOf(journal.new)

\* What a sync knows of the registry and of its snapshot.
PreparationOf(p) ==
    /\ pc[p] \in Preparing \cup {"journal", "verify", "answer"} => journal = NoJournal
    /\ pc[p] \in {"install", "validate", "reuse", "project", "journal", "fill"}
         => old[p]["registry"] = file["registry"]
    /\ pc[p] \in {"journal", "fill"} =>
         \A f \in Files : /\ old[p][f] \in {old[p]["registry"], Foreign}
                          /\ file[f] \in {old[p][f], Foreign}
    /\ pc[p] \in {"validate", "reuse", "project"} \cup Staging \cup Committing
                 \cup {"verify", "answer"}
         => snapshot[want[p]] = "whole"
    /\ pc[p] \in {"validate", "project", "journal", "fill", "discard"}
         /\ created[p] /\ ~Journaled => want[p] \notin Listed(file["registry"])
    /\ pc[p] \in {"idle", "waiting", "inspect", "install"} \cup Recovery => ~created[p]
    /\ pc[p] = "reuse" => Known(p) /\ ~created[p]

TransactionOf(p) ==
    /\ pc[p] = "fill" => journal = TornJournal
    /\ pc[p] \in {"sync"} \cup Committing =>
         /\ Journaled
         /\ journal = [old |-> old[p], new |-> New(p),
                       snapshot |-> want[p], created |-> created[p]]
    /\ pc[p] \in {"sync", "backup"} => Undone(Files)
    /\ pc[p] = "replace" => /\ Undone(todo[p])
                            /\ \A f \in Files \ todo[p] : file[f] = New(p)
    /\ pc[p] \in {"cleanup", "unlink", "verify"} => \A f \in Files : file[f] = New(p)
    /\ pc[p] = "answer" => Entries(file["registry"])[KeyOf[want[p]]] = want[p]
    /\ pc[p] # "idle" => want[p] \in Snapshots

ReaderState(r) ==
    /\ rpc[r] \in {"entries", "reread"}
         => journal = NoJournal /\ got[r] = file["registry"] /\ got[r] # Absent
    /\ \/ captured[r] \in {Absent, Registry}
       \/ Generation(captured[r]) < Generation(Registry)

Inv == /\ TypeOK /\ Exclusion /\ JournalState
       /\ \A p \in Syncs : RecoveryOf(p) /\ PreparationOf(p) /\ TransactionOf(p)
       /\ \A r \in Readers : ReaderState(r)
=============================================================================
