--------------------------- MODULE CoverageApproval ---------------------------
(***************************************************************************)
(* coverage approve --apply (coverage.preview_coverage_approval,           *)
(* apply_coverage_approval, _write_control): an approver adds to the       *)
(* tracked .atlasweaver-coverage.yaml the approval of one file's omission, *)
(* bound to its bytes.  The preview is taken before the lifecycle lock and *)
(* derived again under it; the file is replaced by journal, new sibling,   *)
(* backup and rename.  Nothing reads the journal back.  The user edits the *)
(* sources, the ignores, the exceptions and the file itself meanwhile.     *)
(***************************************************************************)
EXTENDS InputPolicy

CONSTANTS Approvers,
          Schemas,         \* what the manifest's schema_version can be
          UserExceptions,  \* what the user may list as exceptions
          UserApprovals,   \* what the user may write into the control file
          UserIgnores,     \* what the user may have ignored
          UserContents,    \* what the user may turn a file into
          Checkouts,       \* what the sources and the policy are at first
          MaxEdits, MaxFailures  \* bounds: edits of the user; failing calls and deaths

ASSUME ApprovalAssumption ==
         /\ UserExceptions \subseteq SUBSET Exceptions
         /\ UserApprovals \subseteq SUBSET Approvals
         /\ UserIgnores \subseteq SUBSET Paths
         /\ UserContents \subseteq Contents
         /\ Checkouts \subseteq [content: [Paths -> Contents], ignored: SUBSET Paths,
                               exceptions: SUBSET Exceptions]
         /\ Schemas \subseteq {1, 2}
         /\ MaxEdits \in Nat /\ MaxFailures \in Nat
         /\ None \notin Approvers
         /\ \A entries \in SUBSET (Approvals \cup Torn) : entries # None

VARIABLES schema,    \* of the manifest
          content, ignored, exceptions,  \* of the checkout
          control,   \* .atlasweaver-coverage.yaml: its entries and its inode
          journal,   \* .atlasweaver-coverage.transaction.json is there
          backup,    \* the inode at .atlasweaver-coverage.backup, or None
          lock,      \* who holds the lifecycle lock
          app,       \* what each approver is at
          granted,   \* history: approvals installed since the user last edited control
          edits, failures

avars == <<journal, backup, lock, app, granted>>
sources == <<schema, content, ignored, exceptions>>

Idle == [pc |-> "idle", entry |-> None, prior |-> None, payload |-> None,
         new |-> None, answer |-> "none"]
InApply == {"journal", "new", "check", "link", "bound", "rename", "drop_backup",
            "drop_journal"}
Answers == {"none", "approved", "unchanged", "coverage_conflict",
            "coverage_recovery_required"}

\* A file that is written anew has an inode no file had before.
NewControl(entries) == [entries |-> entries, ino |-> control.ino + 1]
\* What _read_control tells apart: the bytes and, of a file, the inode.
SameControl(c, d) == c.entries = d.entries /\ (c.entries # None => c.ino = d.ino)

BaseFiles == Restrict(content, Projected(content, ignored))
Derivable == Accepts(exceptions, Findings(BaseFiles))
             /\ ValidApprovals(control.entries, BaseFiles)
Entries == IF control.entries = None THEN {} ELSE control.entries
\* Mutant: the entries of the same bytes go, not those of the same path.
ReplacingBytes(entry) == {e \in Entries : e[2] # entry[2]} \cup {entry}
\* by_path[requested] = approval
WithEntry(entry) == {e \in Entries : e[1] # entry[1]} \cup {entry}

To(a, pc) == app' = [app EXCEPT ![a].pc = pc]
Answer(a, answer) == app' = [app EXCEPT ![a] = [Idle EXCEPT !.pc = "done", !.answer = answer]]

\* preview_coverage_approval: names a file of the projection and its bytes.
Preview(a, p) ==
  /\ app[a].pc = "idle" /\ schema = 2
  /\ p \in DOMAIN BaseFiles /\ Derivable
  /\ LET entry == <<p, content[p]>>
     IN app' = [app EXCEPT ![a] = [@ EXCEPT !.pc = "lock", !.entry = entry,
                                            !.prior = control, !.payload = WithEntry(entry)]]
  /\ UNCHANGED <<sources, control, journal, backup, lock, granted, edits, failures>>

GetLock(a) ==
  /\ app[a].pc = "lock" /\ lock = None
  /\ lock' = a /\ To(a, "rederive")
  /\ UNCHANGED <<sources, control, journal, backup, granted, edits, failures>>

\* The same preview is derived from the checkout as it is now.
Rederived(a) ==
  LET entry == app[a].entry
  IN /\ Derivable
     /\ entry[1] \in DOMAIN BaseFiles /\ content[entry[1]] = entry[2]
     /\ SameControl(control, app[a].prior)

Rederive(a) ==
  LET new == control.entries # app[a].payload
      pending == journal \/ backup # None
  IN /\ app[a].pc = "rederive" /\ Rederived(a)
     /\ \/ /\ new /\ ~pending
           /\ To(a, "journal") /\ UNCHANGED <<lock, granted>>
        \/ /\ new /\ pending
           /\ Answer(a, "coverage_recovery_required") /\ lock' = None
           /\ UNCHANGED granted
        \/ /\ ~new
           /\ Answer(a, "unchanged") /\ lock' = None
           /\ granted' = granted \cup {app[a].entry}
     /\ UNCHANGED <<sources, control, journal, backup, edits, failures>>

\* A CoverageError is a conflict; the SecretShapeError of the projection is not.
Changed(a) ==
  /\ app[a].pc = "rederive" /\ ~Rederived(a)
  /\ Answer(a, IF Accepts(exceptions, Findings(BaseFiles))
               THEN "coverage_conflict" ELSE "coverage_recovery_required")
  /\ lock' = None
  /\ UNCHANGED <<sources, control, journal, backup, granted, edits, failures>>

\* The journal is created exclusively and synced.
WriteJournal(a) ==
  /\ app[a].pc = "journal" /\ ~journal
  /\ journal' = TRUE /\ To(a, "new")
  /\ UNCHANGED <<sources, control, backup, lock, granted, edits, failures>>

\* One os.write: how much of the payload it took is not looked at.
WriteNew(a) ==
  /\ app[a].pc = "new"
  /\ \/ /\ app' = [app EXCEPT ![a].pc = "check", ![a].new = app[a].payload]
        /\ UNCHANGED failures
     \/ /\ failures < MaxFailures /\ failures' = failures + 1
        /\ app' = [app EXCEPT ![a].pc = "check", ![a].new = Torn]
  /\ UNCHANGED <<sources, control, journal, backup, lock, granted, edits>>

\* A CoverageError inside _write_control: the new sibling goes, the rest stays.
Conflict(a) == Answer(a, "coverage_conflict") /\ lock' = None

Check(a) ==
  /\ app[a].pc = "check"
  /\ LET same == SameControl(control, app[a].prior)
     IN \/ /\ same /\ UNCHANGED lock
           /\ To(a, IF control.entries = None THEN "rename" ELSE "link")
        \/ ~same /\ Conflict(a)
  /\ UNCHANGED <<sources, control, journal, backup, granted, edits, failures>>

\* os.link of whatever is there by now.
Link(a) ==
  /\ app[a].pc = "link" /\ control.entries # None
  /\ backup' = control.ino /\ To(a, "bound")
  /\ UNCHANGED <<sources, control, journal, lock, granted, edits, failures>>

Bound(a) ==
  /\ app[a].pc = "bound" /\ control.entries # None
  /\ LET unchanged == backup = app[a].prior.ino /\ control.ino = app[a].prior.ino
     IN \/ (unchanged /\ To(a, "rename") /\ UNCHANGED lock)
        \/ ~unchanged /\ Conflict(a)
  /\ UNCHANGED <<sources, control, journal, backup, granted, edits, failures>>

\* os.rename takes the place of whatever is there by now.
Rename(a) ==
  /\ app[a].pc = "rename"
  /\ control' = NewControl(app[a].new)
  /\ app' = [app EXCEPT ![a].pc = IF backup = None THEN "drop_journal" ELSE "drop_backup",
                        ![a].new = None]
  /\ granted' = granted \cup {app[a].entry}
  /\ UNCHANGED <<sources, journal, backup, lock, edits, failures>>

DropBackup(a) ==
  /\ app[a].pc = "drop_backup"
  /\ backup' = None /\ To(a, "drop_journal")
  /\ UNCHANGED <<sources, control, journal, lock, granted, edits, failures>>

DropJournal(a) ==
  /\ app[a].pc = "drop_journal"
  /\ journal' = FALSE /\ lock' = None
  /\ Answer(a, "approved")
  /\ UNCHANGED <<sources, control, backup, granted, edits, failures>>

\* Any other exception: the call fails, or its sync after it took effect; the
\* handler removes the new sibling alone.  os.link, and the os.stat after it, also
\* fail when the user has removed the control file.
ApplyFails(a) ==
  /\ app[a].pc \in InApply
  /\ \/ failures < MaxFailures /\ failures' = failures + 1
     \/ (app[a].pc \in {"link", "bound"} /\ control.entries = None /\ UNCHANGED failures)
  /\ Answer(a, "coverage_recovery_required") /\ lock' = None
  /\ UNCHANGED <<sources, control, journal, backup, granted, edits>>

ApproverDies(a) ==
  /\ app[a].pc \in InApply \cup {"lock", "rederive"} /\ failures < MaxFailures
  /\ failures' = failures + 1
  /\ app' = [app EXCEPT ![a] = [Idle EXCEPT !.pc = "done"]]
  /\ lock' = IF lock = a THEN None ELSE lock
  /\ UNCHANGED <<sources, control, journal, backup, granted, edits>>

\* The user edits a source, a policy file or the control file; after a failure
\* he may remove what it left, which no command does.
Edit ==
  /\ edits < MaxEdits /\ edits' = edits + 1
  /\ \/ /\ \E p \in Paths : \E c \in UserContents \ {content[p]} :
             content' = [content EXCEPT ![p] = c]
        /\ UNCHANGED <<schema, ignored, exceptions, control, granted>>
     \/ /\ ignored' \in UserIgnores \ {ignored}
        /\ UNCHANGED <<schema, content, exceptions, control, granted>>
     \/ /\ exceptions' \in UserExceptions \ {exceptions}
        /\ UNCHANGED <<schema, content, ignored, control, granted>>
     \/ /\ \E entries \in UserApprovals \cup {None} :
             /\ entries # control.entries
             /\ \/ control' = NewControl(entries)
                \/ /\ control.entries # None /\ entries # None  \* in place
                   /\ control' = [control EXCEPT !.entries = entries]
        /\ granted' = {}
        /\ UNCHANGED sources
  /\ UNCHANGED <<journal, backup, lock, app, failures>>

ClearLeftovers ==
  /\ lock = None /\ (journal \/ backup # None)
  /\ journal' = FALSE /\ backup' = None
  /\ UNCHANGED <<sources, control, lock, app, granted, edits, failures>>

Approve(a) ==
  \/ \E p \in Paths : Preview(a, p)
  \/ GetLock(a) \/ Rederive(a) \/ Changed(a) \/ WriteJournal(a) \/ WriteNew(a) \/ Check(a)
  \/ Link(a) \/ Bound(a) \/ Rename(a) \/ DropBackup(a) \/ DropJournal(a)
  \/ ApplyFails(a) \/ ApproverDies(a)

ApprovalInit ==
  /\ schema \in Schemas
  /\ \E first \in Checkouts :
       content = first.content /\ ignored = first.ignored /\ exceptions = first.exceptions
  /\ control = [entries |-> None, ino |-> 0] /\ journal = FALSE /\ backup = None /\ lock = None
  /\ app = [a \in Approvers |-> Idle]
  /\ granted = {}
  /\ edits = 0 /\ failures = 0

ApprovalNext == Edit \/ ClearLeftovers \/ \E a \in Approvers : Approve(a)
ApprovalSpec == ApprovalInit /\ [][ApprovalNext]_<<sources, control, avars, edits, failures>>

-------------------------------------------------------------------------------
ApprovalTypeOK ==
  /\ schema \in Schemas /\ content \in [Paths -> Contents]
  /\ ignored \subseteq Paths /\ exceptions \subseteq Exceptions
  /\ control.ino \in Nat
  /\ control.entries # None => control.entries \subseteq Approvals \cup Torn
  /\ journal \in BOOLEAN /\ backup \in Nat \cup {None}
  /\ lock \in Approvers \cup {None}
  /\ \A a \in Approvers : app[a].answer \in Answers
  /\ edits \in 0 .. MaxEdits /\ failures \in 0 .. MaxFailures

\* The type invariant, and: an approval a command has installed, or answered
\* "unchanged" for, stays in the file until the user edits it: another approver
\* that previewed the same file answers coverage_conflict and does not write it
\* back without the first one.  (A write cut short leaves a file that says nothing.)
ApprovalsKept == control.entries # Torn => granted \subseteq Entries
ApprovalInv == ApprovalTypeOK /\ ApprovalsKept
=============================================================================
