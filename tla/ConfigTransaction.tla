------------------------- MODULE ConfigTransaction -------------------------
(***************************************************************************)
(* manifest.apply_init and manifest.apply_manifest_migration: the two      *)
(* configuration files of a repository are created as a pair, or its       *)
(* schema-v1 manifest is replaced, through one journal, while the user may *)
(* edit, save over or create those files.                                  *)
(*                                                                         *)
(* What the code compares are digests and inode numbers, so names and      *)
(* inodes are kept apart: init installs a file by linking its temporary,   *)
(* and an edit of the one is then an edit of the other.  The lifecycle     *)
(* lock lets one process in, hence one program counter; previews are made  *)
(* before it is taken, and outlive whatever happens in between.            *)
(***************************************************************************)
EXTENDS Naturals

CONSTANTS Procs,
          Inodes,       \* numbers a file system hands out
          Nothing,
          Torn,         \* a journal its writer did not finish
          EditPoints,   \* program points at which the user may write
          FaultPoints,  \* ... and whose operation may raise
          MaxDeaths, MaxFaults, MaxWrites  \* bounds of the environment

Files == {"manifest", "ignore"}
Temporary == [f \in Files |-> IF f = "manifest" THEN "init.manifest" ELSE "init.ignore"]
Transient == {"init.manifest", "init.ignore", "migrate.new"}
Names == Files \cup Transient \cup {"migrate.backup"}

\* The version of a file's text counts what the user wrote into it.
Versions == 0 .. MaxWrites
Contents == [schema : 1 .. 2, text : Versions]
Rendered(v) == [schema |-> 2, text |-> v]
Legacy(v) == [schema |-> 1, text |-> v]

Phases == {"prepared", "backed_up", "replaced", "committed"}
\* old_inode, the version behind old_sha256 and the one behind new_sha256.
Journals == [kind : {"init"}, phase : {"prepared", "committed"},
             inode : {Nothing}, old : {0}, new : {0}]
            \cup [kind : {"migration"}, phase : Phases,
                  inode : Inodes, old : Versions, new : Versions]

Previews == [kind : {"init"}, text : {0}] \cup [kind : {"migration"}, text : Versions]
Answers == {"none", "initialized", "migrated", "already", "init_conflict",
            "init_recovery_required", "failed"}

\* What the process that holds the lock is at, and why it undoes its work.
Outside == {"rebind", "read_old", "m_check"}
Unjournaled == {"write_temps", "write_journal", "m_new", "m_journal"}
Installing == {"link_manifest", "check_manifest", "link_ignore", "check_ignore", "commit"}
Migrating == {"m_recheck", "m_backup", "m_backed_up", "m_install", "m_replaced",
              "m_verify", "m_commit", "m_drop_backup"}
Dropping == {"drop_manifest", "drop_ignore", "drop_journal"}
Undoing == {"undo_ignore", "unlink_ignore", "undo_manifest", "unlink_manifest", "undone"}
Restoring == {"r_look", "r_unlink", "r_rename", "r_temporary", "r_backup"}
Points == {"idle", "recover"} \cup Outside \cup Unjournaled \cup Installing \cup Migrating
          \cup Dropping \cup Undoing \cup Restoring
Modes == {"recovery", "apply", "conflict", "failed"}

ASSUME ConfigAssumption ==
         /\ Nothing \notin Procs \cup Inodes \cup Contents \cup Journals \cup Previews
         /\ Torn \notin Journals /\ Torn # Nothing
         /\ EditPoints \subseteq Points /\ FaultPoints \subseteq Points
         /\ Inodes \subseteq Nat
         /\ MaxDeaths \in Nat /\ MaxFaults \in Nat /\ MaxWrites \in Nat

VARIABLES dirent,   \* the inode behind every name
          data,     \* what an inode holds
          journal,  \* .project-knowledge/init-transaction.json
          holder, pc, mode,
          doc,      \* the document in memory
          safe,     \* the rollback has met nothing it does not own
          preview,  \* what every waiting command was shown
          answer,   \* what every command last said
          said,     \* history: the text a user last gave a file, 0 if none
          found,    \* history: the files there were to begin with
          spoiled,  \* history: see SpoiledBy
          deaths, faults

disk == <<dirent, data, journal>>
local == <<mode, doc, safe>>
calls == <<preview, answer>>
env == <<said, found, deaths, faults>>
configVars == <<disk, holder, pc, local, calls, env, spoiled>>

-----------------------------------------------------------------------------
(* Operators                                                               *)

\* _digest_entry_at: the content behind a name.
At(n) == IF dirent[n] = Nothing THEN Nothing ELSE data[dirent[n]]

Free == Inodes \ {dirent[n] : n \in Names}

\* A file system may reuse a number at once; the least free one does.
Fresh == {i \in Free : \A j \in Free : i <= j}

Untouched == \A f \in Files : said[f] = 0

\* The transaction linked this file, and nothing has changed since.
Linked(f) == /\ dirent[f] # Nothing /\ dirent[f] = dirent[Temporary[f]]
             /\ At(f) = Rendered(0)

\* The manifest the migration read is still in its place.
Unmoved(d) == dirent["manifest"] = d.inode /\ At("manifest") = Legacy(d.old)

\* The manifest is the one this migration rendered.
New == At("manifest") = Rendered(doc.new)

Goto(from, to) == pc = from /\ pc' = to

Named(n, i) == dirent' = [dirent EXCEPT ![n] = i]

Hold == UNCHANGED <<holder, calls>>

\* The lock is released and the command answers.
Return(a) == /\ pc' = "idle" /\ holder' = Nothing
             /\ answer' = [answer EXCEPT ![holder] = a]
             /\ preview' = [preview EXCEPT ![holder] = Nothing]
             /\ mode' = "apply" /\ doc' = Nothing /\ safe' = TRUE

\* How an undoing ends: the recovery has failed, or the apply is over.
GiveUp == Return(CASE mode = "recovery" -> "init_recovery_required"
                   [] mode = "conflict" -> "init_conflict"
                   [] OTHER -> "failed")

\* An apply that has written its journal fails, or meets a file of the user's.
Undo(why) == /\ mode' = why /\ safe' = TRUE /\ UNCHANGED doc
             /\ pc' = IF doc.kind = "init" THEN "undo_ignore" ELSE "r_look"

-----------------------------------------------------------------------------
ConfigInit == /\ found \in {{}, {"ignore"}, {"manifest"}, Files}
              /\ \E i, j \in Inodes :
                   /\ i < j /\ \A k \in Inodes : k \in {i, j} \/ j < k
                   /\ dirent = [n \in Names |-> IF n \notin found THEN Nothing
                                               ELSE IF n = "manifest" THEN i ELSE j]
              /\ data = [i \in Inodes |-> IF i = dirent["manifest"] THEN Legacy(0) ELSE Rendered(0)]
              /\ journal = Nothing /\ holder = Nothing /\ pc = "idle"
              /\ mode = "apply" /\ doc = Nothing /\ safe = TRUE
              /\ preview = [p \in Procs |-> Nothing] /\ answer = [p \in Procs |-> "none"]
              /\ said = [f \in Files |-> 0] /\ spoiled = FALSE
              /\ deaths = 0 /\ faults = 0

(* The commands, up to the lock                                            *)

\* Every command looks for a journal first, and ends there if it finds one.
Refused(p) == /\ preview[p] = Nothing /\ journal # Nothing
              /\ answer' = [answer EXCEPT ![p] = "init_recovery_required"]
              /\ UNCHANGED <<disk, holder, pc, local, preview>>

PreviewInit(p) == /\ preview[p] = Nothing /\ journal = Nothing
                  /\ \A f \in Files : dirent[f] = Nothing
                  /\ preview' = [preview EXCEPT ![p] = [kind |-> "init", text |-> 0]]
                  /\ answer' = [answer EXCEPT ![p] = "none"]
                  /\ UNCHANGED <<disk, holder, pc, local>>

PreviewMigration(p) ==
    /\ preview[p] = Nothing /\ journal = Nothing
    /\ dirent["manifest"] # Nothing /\ At("manifest").schema = 1
    /\ preview' = [preview EXCEPT ![p] = [kind |-> "migration", text |-> At("manifest").text]]
    /\ answer' = [answer EXCEPT ![p] = "none"]
    /\ UNCHANGED <<disk, holder, pc, local>>

\* already_configured: one file of the two is enough; or already_current.
NothingToDo(p) == /\ preview[p] = Nothing /\ journal = Nothing
                  /\ \E f \in Files : dirent[f] # Nothing
                  /\ answer' = [answer EXCEPT ![p] = "already"]
                  /\ UNCHANGED <<disk, holder, pc, local, preview>>

Acquire(p) == /\ holder = Nothing /\ preview[p] # Nothing
              /\ holder' = p /\ Goto("idle", "recover") /\ mode' = "recovery"
              /\ UNCHANGED <<disk, doc, safe, calls>>

-----------------------------------------------------------------------------
(* _recover_configuration_transaction                                      *)

RecoverNothing == /\ Goto("recover", "rebind") /\ journal = Nothing
                  /\ mode' = "apply"
                  /\ UNCHANGED <<disk, doc, safe>> /\ Hold

\* Mutant: a committed pair whose temporaries are partly gone is refused.
RecoverRefusedHalf == /\ pc = "recover"
                      /\ \/ journal = Torn
                         \/ /\ journal \in Journals
                            /\ journal.kind = "init" /\ journal.phase = "committed"
                            /\ \E f \in Files : At(f) # Rendered(0) \/ At(Temporary[f]) # Rendered(0)
                      /\ Return("init_recovery_required") /\ UNCHANGED disk

RecoverRefused == /\ pc = "recover"
                  /\ \/ journal = Torn
                     \/ /\ journal \in Journals
                        /\ journal.kind = "init" /\ journal.phase = "committed"
                        /\ \E f \in Files : At(f) # Rendered(0)
                  /\ Return("init_recovery_required") /\ UNCHANGED disk

RecoverInit == /\ pc = "recover" /\ journal \in Journals /\ journal.kind = "init"
               /\ \/ (journal.phase = "prepared" /\ pc' = "undo_ignore")
                  \/ /\ journal.phase = "committed" /\ pc' = "drop_manifest"
                     /\ \A f \in Files : At(f) = Rendered(0)
               /\ doc' = journal
               /\ UNCHANGED <<disk, mode, safe>> /\ Hold

RecoverMigration == /\ Goto("recover", "r_look")
                    /\ journal \in Journals /\ journal.kind = "migration"
                    /\ doc' = journal
                    /\ UNCHANGED <<disk, mode, safe>> /\ Hold

(* _rollback_init_document: of the apply that fails and of the next one    *)

\* Mutant: the rollback recognises its own file and leaves it.
UndoKeep(f, unlink) == /\ Goto(IF f = "ignore" THEN "undo_ignore" ELSE "undo_manifest",
                               IF f = "ignore" THEN "undo_manifest" ELSE "undone")
                       /\ Linked(f)
                       /\ UNCHANGED <<disk, local>> /\ Hold

\* Mutant: whatever stands at the destination is unlinked.
UndoAny(f, unlink) == /\ Goto(IF f = "ignore" THEN "undo_ignore" ELSE "undo_manifest", unlink)
                      /\ dirent[f] # Nothing
                      /\ UNCHANGED <<disk, local>> /\ Hold

UndoOwn(f, unlink) == /\ Goto(IF f = "ignore" THEN "undo_ignore" ELSE "undo_manifest", unlink)
                      /\ Linked(f)
                      /\ UNCHANGED <<disk, local>> /\ Hold

\* Nothing there, or nothing of this transaction's.
UndoSkip(f, next) == /\ Goto(IF f = "ignore" THEN "undo_ignore" ELSE "undo_manifest", next)
                     /\ ~Linked(f)
                     /\ safe' = (safe /\ dirent[f] = Nothing /\ dirent[Temporary[f]] # Nothing)
                     /\ UNCHANGED <<disk, mode, doc>> /\ Hold

UndoUnlink(f, unlink, next) == /\ Goto(unlink, next) /\ Named(f, Nothing)
                               /\ UNCHANGED <<data, journal, local>> /\ Hold

Undone == /\ Goto("undone", "drop_manifest") /\ mode = "recovery" /\ safe
          /\ UNCHANGED <<disk, local>> /\ Hold

\* The apply ignores what its rollback returns: the journal stays either way.
UndoneGiveUp == /\ pc = "undone" /\ (mode # "recovery" \/ ~safe)
                /\ GiveUp /\ UNCHANGED disk

(* _remove_init_temporaries and the journal's removal                      *)

Drop(f, next) == /\ Goto(IF f = "manifest" THEN "drop_manifest" ELSE "drop_ignore", next)
                 /\ At(Temporary[f]) \in {Nothing, Rendered(0)}
                 /\ Named(Temporary[f], Nothing)
                 /\ UNCHANGED <<data, journal, local>> /\ Hold

\* "configuration recovery is unsafe": the user edited what was just linked.
DropUnsafe(f) == /\ pc = IF f = "manifest" THEN "drop_manifest" ELSE "drop_ignore"
                 /\ At(Temporary[f]) \notin {Nothing, Rendered(0)}
                 /\ IF mode = "apply" THEN Undo("failed") /\ Hold ELSE GiveUp
                 /\ UNCHANGED disk

DropJournal == /\ pc = "drop_journal" /\ journal' = Nothing
               /\ IF mode = "apply"
                    THEN Return(IF doc.kind = "init" THEN "initialized" ELSE "migrated")
                    ELSE /\ pc' = "rebind" /\ mode' = "apply" /\ doc' = Nothing
                         /\ UNCHANGED safe /\ Hold
               /\ UNCHANGED <<dirent, data>>

-----------------------------------------------------------------------------
(* The preview is made again, and must be what the command was shown       *)

Current == IF preview[holder].kind = "init"
             THEN \A f \in Files : dirent[f] = Nothing
             ELSE At("manifest") = Legacy(preview[holder].text)

Rebind == /\ pc = "rebind" /\ Current
          /\ Goto("rebind", IF preview[holder].kind = "init" THEN "write_temps" ELSE "read_old")
          /\ UNCHANGED <<disk, local>> /\ Hold

RebindConflict == pc = "rebind" /\ ~Current /\ Return("init_conflict") /\ UNCHANGED disk

(* _apply_configuration_pair and _install_without_replacement              *)

WriteTemps == /\ Goto("write_temps", "write_journal")
              /\ \E i, j \in Free :
                   /\ i \in Fresh /\ j # i /\ \A k \in Free \ {i} : j <= k
                   /\ dirent' = [dirent EXCEPT !["init.manifest"] = i, !["init.ignore"] = j]
                   /\ data' = [data EXCEPT ![i] = Rendered(0), ![j] = Rendered(0)]
              /\ doc' = [kind |-> "init", phase |-> "prepared", inode |-> Nothing, old |-> 0, new |-> 0]
              /\ UNCHANGED <<journal, mode, safe>> /\ Hold

\* Created in place: a death in it leaves a torn journal.
WriteJournal == /\ \/ Goto("write_journal", "link_manifest")
                   \/ Goto("m_journal", "m_recheck")
                /\ journal' = doc
                /\ UNCHANGED <<dirent, data, local>> /\ Hold

Link(f, from, next) == /\ Goto(from, next) /\ dirent[f] = Nothing
                       /\ Named(f, dirent[Temporary[f]])
                       /\ UNCHANGED <<data, journal, local>> /\ Hold

LinkExists(f, from) == /\ pc = from /\ dirent[f] # Nothing
                       /\ Undo("conflict") /\ UNCHANGED disk /\ Hold

CheckLinked(f, from, next) == /\ Goto(from, next) /\ Linked(f)
                              /\ UNCHANGED <<disk, local>> /\ Hold

CheckFailed(f, from) == /\ pc = from /\ ~Linked(f)
                        /\ Undo("failed") /\ UNCHANGED disk /\ Hold

\* The handler of a later failure still holds the document as prepared.
Commit == /\ Goto("commit", "drop_manifest")
          /\ journal' = [doc EXCEPT !.phase = "committed"]
          /\ UNCHANGED <<dirent, data, local>> /\ Hold

ApplyPair == \/ WriteTemps \/ WriteJournal \/ Commit
             \/ Link("manifest", "link_manifest", "check_manifest")
             \/ LinkExists("manifest", "link_manifest")
             \/ CheckLinked("manifest", "check_manifest", "link_ignore")
             \/ CheckFailed("manifest", "check_manifest")
             \/ Link("ignore", "link_ignore", "check_ignore")
             \/ LinkExists("ignore", "link_ignore")
             \/ CheckLinked("ignore", "check_ignore", "commit")
             \/ CheckFailed("ignore", "check_ignore")

-----------------------------------------------------------------------------
(* _replace_v1_manifest                                                    *)

\* The text the preview was rendered from and this one are not compared.
ReadOld == /\ Goto("read_old", "m_check")
           /\ doc' = [kind |-> "migration", phase |-> "prepared",
                      inode |-> dirent["manifest"], old |-> At("manifest").text,
                      new |-> preview[holder].text]
           /\ UNCHANGED <<disk, mode, safe>> /\ Hold

MCheck == /\ Goto("m_check", "m_new") /\ Unmoved(doc)
          /\ UNCHANGED <<disk, local>> /\ Hold

MCheckConflict == /\ pc = "m_check" /\ ~Unmoved(doc)
                  /\ Return("init_conflict") /\ UNCHANGED disk

MNew == /\ Goto("m_new", "m_journal")
        /\ \E i \in Fresh : /\ Named("migrate.new", i)
                            /\ data' = [data EXCEPT ![i] = Rendered(doc.new)]
        /\ UNCHANGED <<journal, local>> /\ Hold

MRecheck == /\ Goto("m_recheck", "m_backup") /\ Unmoved(doc)
            /\ UNCHANGED <<disk, local>> /\ Hold

MRecheckConflict == /\ pc = "m_recheck" /\ ~Unmoved(doc)
                    /\ Undo("conflict") /\ UNCHANGED disk /\ Hold

MBackup == /\ Goto("m_backup", "m_backed_up")
           /\ dirent' = [dirent EXCEPT !["migrate.backup"] = dirent["manifest"], !["manifest"] = Nothing]
           /\ UNCHANGED <<data, journal, local>> /\ Hold

\* document["phase"] = phase; _replace_journal_at(document)
MJournal(from, phase, next) == /\ Goto(from, next)
                               /\ doc' = [doc EXCEPT !.phase = phase] /\ journal' = doc'
                               /\ UNCHANGED <<dirent, data, mode, safe>> /\ Hold

\* A rename: whatever has come to the destination since is replaced.
MInstall == /\ Goto("m_install", "m_replaced")
            /\ dirent' = [dirent EXCEPT !["manifest"] = dirent["migrate.new"], !["migrate.new"] = Nothing]
            /\ UNCHANGED <<data, journal, local>> /\ Hold

MVerify == /\ Goto("m_verify", "m_commit") /\ New
           /\ UNCHANGED <<disk, local>> /\ Hold

MVerifyFailed == /\ pc = "m_verify" /\ ~New
                 /\ Undo("failed") /\ UNCHANGED disk /\ Hold

MDropBackup == /\ Goto("m_drop_backup", "drop_journal") /\ Named("migrate.backup", Nothing)
               /\ UNCHANGED <<data, journal, local>> /\ Hold

Migrate == \/ ReadOld \/ MCheck \/ MCheckConflict \/ MNew
           \/ MRecheck \/ MRecheckConflict \/ MBackup
           \/ MJournal("m_backed_up", "backed_up", "m_install")
           \/ MInstall \/ MJournal("m_replaced", "replaced", "m_verify")
           \/ MVerify \/ MVerifyFailed
           \/ MJournal("m_commit", "committed", "m_drop_backup") \/ MDropBackup

-----------------------------------------------------------------------------
(* _recover_migration_document: of the apply that fails and the next one   *)

\* What it refuses to touch: a manifest or a backup that is not what it wrote.
Foreign == IF doc.phase = "committed" THEN ~New
           ELSE IF dirent["migrate.backup"] # Nothing
             THEN \/ dirent["migrate.backup"] # doc.inode
                  \/ At("migrate.backup") # Legacy(doc.old)
                  \/ (dirent["manifest"] # Nothing /\ ~New)
           ELSE ~Unmoved(doc)

RLook == /\ pc = "r_look" /\ ~Foreign
         /\ Goto("r_look", IF doc.phase = "committed" \/ dirent["migrate.backup"] = Nothing
                             THEN "r_temporary"
                             ELSE IF dirent["manifest"] # Nothing THEN "r_unlink" ELSE "r_rename")
         /\ UNCHANGED <<disk, local>> /\ Hold

RForeign == pc = "r_look" /\ Foreign /\ GiveUp /\ UNCHANGED disk

RUnlink == /\ Goto("r_unlink", "r_rename") /\ Named("manifest", Nothing)
           /\ UNCHANGED <<data, journal, local>> /\ Hold

RRename == /\ Goto("r_rename", "r_temporary")
           /\ dirent' = [dirent EXCEPT !["manifest"] = dirent["migrate.backup"],
                                       !["migrate.backup"] = Nothing]
           /\ UNCHANGED <<data, journal, local>> /\ Hold

RTemporary == /\ Goto("r_temporary", "r_backup") /\ Named("migrate.new", Nothing)
              /\ UNCHANGED <<data, journal, local>> /\ Hold

\* keep_journal: an apply that fails leaves the journal to the next one.
RBackup == /\ pc = "r_backup"
           /\ Named("migrate.backup", Nothing) /\ UNCHANGED <<data, journal>>
           /\ IF mode = "recovery" THEN pc' = "drop_journal" /\ UNCHANGED local /\ Hold
                                   ELSE GiveUp

Restore == RLook \/ RForeign \/ RUnlink \/ RRename \/ RTemporary \/ RBackup

Rollback == \/ UndoOwn("ignore", "unlink_ignore") \/ UndoSkip("ignore", "undo_manifest")
            \/ UndoUnlink("ignore", "unlink_ignore", "undo_manifest")
            \/ UndoOwn("manifest", "unlink_manifest") \/ UndoSkip("manifest", "undone")
            \/ UndoUnlink("manifest", "unlink_manifest", "undone")
            \/ Undone \/ UndoneGiveUp

Recover == RecoverNothing \/ RecoverRefused \/ RecoverInit \/ RecoverMigration

Clean == \/ Drop("manifest", "drop_ignore") \/ Drop("ignore", "drop_journal")
         \/ DropUnsafe("manifest") \/ DropUnsafe("ignore") \/ DropJournal

-----------------------------------------------------------------------------
(* Failures, deaths and the user                                           *)

\* Temporaries no journal names: the next transaction draws other names.
Forgotten == dirent' = [n \in Names |-> IF n \in Transient THEN Nothing ELSE dirent[n]]

\* The program point whose failure or death leaves a journal that no recovery
\* accepts: a recovered pair's temporaries are gone while its journal lives, or
\* a handler undoes what the journal says is committed, or cleans up after a
\* migration whose journal does not say so.
SpoiledBy(fault) ==
    \/ /\ mode = "recovery" /\ pc \in {"drop_ignore", "drop_journal"}
       /\ journal.kind = "init" /\ journal.phase = "prepared"
    \/ /\ fault /\ mode = "apply" /\ doc.kind = "init"
       /\ pc \in {"drop_manifest", "drop_ignore"}

\* A journal that was to be written over may have been before the error.
MayReplaceJournal(phase) ==
    \/ journal' = journal
    \/ /\ pc \in {"commit", "m_backed_up", "m_replaced", "m_commit"}
       /\ journal' = [doc EXCEPT !.phase = phase]

Fault ==
    /\ pc \in FaultPoints /\ faults < MaxFaults /\ faults' = faults + 1
    /\ UNCHANGED data
    /\ \/ /\ pc \in Outside /\ Return("failed")
          /\ UNCHANGED <<dirent, journal, spoiled>>
       \/ /\ pc \in Unjournaled /\ Return("failed") /\ Forgotten
          /\ UNCHANGED <<journal, spoiled>>
       \/ /\ mode = "apply" /\ pc \in Installing \cup Migrating \cup Dropping
          /\ LET phase == CASE pc = "m_backed_up" -> "backed_up"
                             [] pc = "m_replaced" -> "replaced"
                             [] OTHER -> "committed"
             IN  /\ MayReplaceJournal(phase)
                 /\ doc' = IF pc = "m_commit" THEN [doc EXCEPT !.phase = phase] ELSE doc
          /\ mode' = "failed" /\ safe' = TRUE
          /\ pc' = IF doc.kind = "init" THEN "undo_ignore" ELSE "r_look"
          /\ spoiled' = \/ spoiled \/ SpoiledBy(TRUE)
                         \/ (pc = "commit" /\ journal' # journal)
                         \/ (pc = "m_commit" /\ journal' = journal)
          /\ UNCHANGED dirent /\ Hold
       \/ /\ mode # "apply" /\ pc \in Undoing \cup Restoring \cup Dropping
          /\ GiveUp /\ UNCHANGED <<dirent, journal>>
          /\ spoiled' = (spoiled \/ SpoiledBy(TRUE))
    /\ UNCHANGED <<said, found, deaths>>

\* The process dies; the lock goes with it.
Crash ==
    /\ holder # Nothing /\ deaths < MaxDeaths /\ deaths' = deaths + 1
    /\ spoiled' = (spoiled \/ SpoiledBy(FALSE))
    /\ \/ UNCHANGED journal
       \/ (pc \in {"write_journal", "m_journal"} /\ journal' = Torn)
    /\ IF journal' \in Journals THEN UNCHANGED dirent ELSE Forgotten
    /\ pc' = "idle" /\ holder' = Nothing
    /\ preview' = [preview EXCEPT ![holder] = Nothing]
    /\ answer' = [answer EXCEPT ![holder] = "none"]
    /\ mode' = "apply" /\ doc' = Nothing /\ safe' = TRUE
    /\ UNCHANGED <<data, said, found, faults>>

\* A version nobody has written yet.
NextVersion == 1 + IF said["manifest"] > said["ignore"] THEN said["manifest"] ELSE said["ignore"]

\* The user writes into a file, saves over it, or creates it.
UserWrites(f) ==
    /\ pc \in EditPoints /\ NextVersion <= MaxWrites
    /\ said' = [said EXCEPT ![f] = NextVersion]
    /\ LET schema == IF dirent[f] = Nothing THEN 2 ELSE At(f).schema
           text == [schema |-> schema, text |-> NextVersion]
       IN  \/ /\ dirent[f] # Nothing
              /\ data' = [data EXCEPT ![dirent[f]] = text] /\ UNCHANGED dirent
           \/ \E i \in Fresh : Named(f, i) /\ data' = [data EXCEPT ![i] = text]
    /\ UNCHANGED <<journal, holder, pc, local, calls, found, deaths, faults, spoiled>>

-----------------------------------------------------------------------------
Process == /\ holder # Nothing
           /\ Recover \/ Rollback \/ Clean \/ Rebind \/ RebindConflict
              \/ ApplyPair \/ Migrate \/ Restore
           /\ UNCHANGED <<env, spoiled>>

Unlocked(p) == /\ Refused(p) \/ PreviewInit(p) \/ PreviewMigration(p) \/ NothingToDo(p)
               /\ UNCHANGED <<env, spoiled>>

Enter(p) == Acquire(p) /\ UNCHANGED <<env, spoiled>>

ConfigNext == \/ Process \/ \E p \in Procs : Unlocked(p) \/ Enter(p)
              \/ Fault \/ Crash \/ \E f \in Files : UserWrites(f)

ConfigSpec == ConfigInit /\ [][ConfigNext]_configVars

\* A command that holds the lock runs on; one that waits gets it in turn.
FairSpec == ConfigSpec /\ WF_configVars(Process) /\ \A p \in Procs : SF_configVars(Enter(p))

-----------------------------------------------------------------------------
(* Properties                                                              *)

\* Where the user may write without loss: neither between a comparison and the
\* step it guards, nor, while a migration is on, where the manifest it has moved
\* away was.
Compared == Points \ {"read_old", "m_backup", "m_backed_up", "m_install", "unlink_ignore",
                      "unlink_manifest", "r_unlink", "r_rename"}

ConfigTypeOK == /\ dirent \in [Names -> Inodes \cup {Nothing}] /\ data \in [Inodes -> Contents]
                /\ journal \in Journals \cup {Nothing, Torn} /\ doc \in Journals \cup {Nothing}
                /\ holder \in Procs \cup {Nothing} /\ pc \in Points /\ mode \in Modes
                /\ safe \in BOOLEAN /\ spoiled \in BOOLEAN
                /\ preview \in [Procs -> Previews \cup {Nothing}] /\ answer \in [Procs -> Answers]
                /\ said \in [Files -> Versions] /\ found \subseteq Files
                /\ deaths \in 0 .. MaxDeaths /\ faults \in 0 .. MaxFaults
                /\ holder = Nothing <=> pc = "idle"

\* What a user last wrote into a configuration file is in that file, or in the
\* backup a journal still names: no link, rename, rollback or recovery of
\* apply_init and apply_manifest_migration takes it away.
EditsKept ==
    \A f \in Files : said[f] # 0 =>
       \/ dirent[f] # Nothing /\ At(f).text = said[f]
       \/ /\ f = "manifest" /\ journal \in Journals /\ dirent["migrate.backup"] # Nothing
          /\ At("migrate.backup").text = said[f]

\* The pair init creates is there or is not; a manifest it found still is.
Whole == IF found = {} THEN dirent["manifest"] # Nothing <=> dirent["ignore"] # Nothing
                       ELSE \A f \in Files : dirent[f] # Nothing <=> f \in found

\* At rest and without a journal, files nobody has written by hand are a whole
\* configuration: init created both or none, a migration left one manifest.
WholeAtRest == journal = Nothing /\ holder = Nothing /\ Untouched => Whole

\* What the next _recover_configuration_transaction will make of the journal.
Recoverable ==
    /\ journal \in Journals
    /\ IF journal.kind = "init"
         THEN /\ \A f \in Files : At(Temporary[f]) \in {Nothing, Rendered(0)}
              /\ \A f \in Files : IF journal.phase = "committed" THEN At(f) = Rendered(0)
                                  ELSE /\ dirent[Temporary[f]] # Nothing
                                       /\ dirent[f] = Nothing \/ Linked(f)
         ELSE LET b == dirent["migrate.backup"]
                  new == At("manifest") = Rendered(journal.new)
              IN  IF journal.phase = "committed" THEN new
                  ELSE IF b # Nothing THEN /\ b = journal.inode /\ data[b] = Legacy(journal.old)
                                           /\ dirent["manifest"] = Nothing \/ new
                  ELSE Unmoved(journal)

\* A journal a death, a failure or a conflict has left is one the next apply
\* rolls back or completes, unless it is torn, the user has written one of the
\* files, or a second misfortune struck where SpoiledBy says.
LeftRecoverable ==
    holder = Nothing /\ journal \in Journals /\ Untouched /\ ~spoiled => Recoverable

ConfigInv == ConfigTypeOK /\ EditsKept /\ WholeAtRest /\ LeftRecoverable

\* A journal is finished or rolled back by the command that waits for the lock
\* behind it: it goes away, and no answer without that counts, unless another
\* death or failure comes, it is torn, the user writes one of the files, or a
\* misfortune struck where SpoiledBy says.
Waiting == \E p \in Procs \ {holder} : preview[p] # Nothing
JournalDrains ==
    \A d \in 0 .. MaxDeaths, f \in 0 .. MaxFaults :
       (journal # Nothing /\ Waiting /\ deaths = d /\ faults = f)
         ~> (journal \in {Nothing, Torn} \/ deaths > d \/ faults > f \/ ~Untouched \/ spoiled)

\* An answer is about the files: "initialized" and "migrated" are said when
\* they are in place and no journal is left; and a command that failed or met a
\* conflict has left a whole configuration behind, if its own handler was
\* neither killed nor failed in turn, although its journal stays.
AnswersTrue ==
    [][\A p \in Procs : holder = p /\ holder' = Nothing /\ deaths' = 0 /\ ~spoiled' =>
         /\ answer'[p] \in {"initialized", "migrated"} =>
              /\ journal' = Nothing /\ dirent'["manifest"] # Nothing
              /\ data'[dirent'["manifest"]].schema = 2
         /\ faults' <= 1 /\ Untouched => Whole']_configVars

\* "init --apply may finish or roll back a valid journal before proceeding":
\* a command is not turned away from a journal the next recovery would accept.
ApplyFinishesOrRollsBack == [][\A p \in Procs : Refused(p) => ~Recoverable]_configVars
=============================================================================
