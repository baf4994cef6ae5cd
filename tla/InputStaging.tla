----------------------------- MODULE InputStaging -----------------------------
(***************************************************************************)
(* The stage and adapt commands: staging.stage_input_with_receipt walks    *)
(* the checkout, decides path by path, reads and scans what it keeps, asks *)
(* the policy files, copies the same bytes into a private tree and leaves  *)
(* a receipt beside it; adapt believes the tree only with the receipt      *)
(* (receipt.verify_staged_input) and only while the checkout is still what *)
(* was staged (cli._require_current_input).  No lock is held: the user     *)
(* and coverage approve (CoverageApproval) go on meanwhile, each policy    *)
(* file is read when its turn comes, and two of them are read twice.       *)
(***************************************************************************)
EXTENDS CoverageApproval, FiniteSetsExt

CONSTANT MaxRuns  \* bound: how often stage is called

ASSUME StagingAssumption ==
         /\ MaxRuns \in Nat
         /\ \A S \in SUBSET Paths : \A files \in [S -> Contents] : files # None

VARIABLES job,      \* the stage command: what it has read, and where it is
          tree,     \* the staged directory: a function from its paths, or None
          receipt,  \* beside it; whole is false of one that was cut short
          taken,    \* the tree an adapt command has verified, or None
          runs,
          basis,    \* history: the ignores and exceptions the tree was made under
          quiet     \* history: nothing has got in the way of the stage under way

svars == <<job, tree, receipt, taken, runs, basis, quiet>>
vars == <<sources, control, avars, edits, failures, svars>>
theirs == <<sources, control, avars, edits>>

Empty == [p \in {} |-> "text"]
Extend(f, p, value) == [q \in DOMAIN f \cup {p} |-> IF q = p THEN value ELSE f[q]]

AtRest == [pc |-> "idle", todo |-> {}, seen |-> Empty, decisions |-> Empty,
           ignored |-> {}, exceptions |-> {}, named |-> {}, approvals |-> None,
           answer |-> "none"]
Copying == {"copy", "bind", "unreceipt", "cleanup"}
Steps == {"walk", "exceptions", "coverage", "approvals", "mkdir"} \cup Copying

Next_(pc) == job' = [job EXCEPT !.pc = pc]
Ends(answer) == job' = [AtRest EXCEPT !.answer = answer]
Path == Min(job.todo)

Start ==
  /\ job.pc = "idle" /\ runs < MaxRuns
  /\ runs' = runs + 1 /\ quiet' = TRUE
  /\ job' = [AtRest EXCEPT !.pc = "walk", !.todo = Paths, !.ignored = ignored]
  /\ UNCHANGED <<theirs, failures, tree, receipt, taken, basis>>

\* Mutant: schema 2 lists the files schema 1 lists.
VisibleOfSchema1(p) == p \in Listed(content, job.ignored)
Visible(p) ==
  IF schema = 2 THEN Decision(p, content[p], job.ignored) \in Safe
  ELSE p \in Listed(content, job.ignored)

\* _walk_projection, or of schema 1 iter_safe_files and the scan of its files.
Walk ==
  /\ job.pc = "walk" /\ job.todo # {}
  /\ job' = [job EXCEPT !.todo = @ \ {Path},
               !.decisions = Extend(@, Path, Decision(Path, content[Path], job.ignored)),
               !.seen = IF Visible(Path) THEN Extend(@, Path, content[Path]) ELSE @]
  /\ UNCHANGED <<theirs, failures, tree, receipt, taken, runs, basis, quiet>>

\* load_secret_exceptions: for the findings of the walk.
Accept ==
  /\ job.pc = "walk" /\ job.todo = {}
  /\ \/ /\ Accepts(exceptions, Findings(job.seen))
        /\ job' = [job EXCEPT !.exceptions = exceptions,
                              !.pc = IF schema = 2 THEN "exceptions" ELSE "mkdir"]
     \/ ~Accepts(exceptions, Findings(job.seen)) /\ Ends("refused")
  /\ UNCHANGED <<theirs, failures, tree, receipt, taken, runs, basis, quiet>>

\* _control_digest reads the file of exceptions again, for the digest ...
NameExceptions ==
  /\ job.pc = "exceptions"
  /\ job' = [job EXCEPT !.named = exceptions, !.pc = "coverage"]
  /\ UNCHANGED <<theirs, failures, tree, receipt, taken, runs, basis, quiet>>

\* ... and the file of approvals for the first time.
NameApprovals ==
  /\ job.pc = "coverage"
  /\ job' = [job EXCEPT !.approvals = control.entries, !.pc = "approvals"]
  /\ UNCHANGED <<theirs, failures, tree, receipt, taken, runs, basis, quiet>>

\* load_coverage_approvals reads that again, and insists on the same bytes.
LoadApprovals ==
  LET loads == control.entries = job.approvals /\ ValidApprovals(control.entries, job.seen)
  IN /\ job.pc = "approvals"
     /\ \/ loads /\ Next_("mkdir")
        \/ ~loads /\ Ends("refused")
     /\ UNCHANGED <<theirs, failures, tree, receipt, taken, runs, basis, quiet>>

\* The destination is made exclusively.  Schema 1 lists the files once more,
\* under the ignores of now.
MakeTree ==
  /\ job.pc = "mkdir" /\ tree = None
  /\ tree' = Empty
  /\ job' = [job EXCEPT !.pc = "copy",
               !.todo = IF schema = 2 THEN DOMAIN job.seen ELSE Listed(content, ignored),
               !.seen = IF schema = 2 THEN @ ELSE Empty]
  /\ basis' = [ignored |-> IF schema = 2 THEN job.ignored ELSE ignored,
               exceptions |-> job.exceptions]
  /\ UNCHANGED <<theirs, failures, receipt, taken, runs, quiet>>

TreeExists ==
  /\ job.pc = "mkdir" /\ tree # None
  /\ Ends("failed")
  /\ UNCHANGED <<theirs, failures, tree, receipt, taken, runs, basis, quiet>>

\* Mutant: what is copied is not compared with what was scanned.
AdmissibleUnread(p) == content[p] \in Texts \cup {"binary"}
\* What may be copied: the bytes of the walk; of schema 1 bytes with no finding
\* but those accepted.
Admissible(p) ==
  IF schema = 2 THEN content[p] = job.seen[p]
  ELSE /\ content[p] \in Texts \cup {"binary"}
       /\ content[p] \in Shapes => <<p, content[p]>> \in job.exceptions
Skipped(p) == schema = 1 /\ content[p] \in {"symlink", "fifo"}

Copy ==
  /\ job.pc = "copy" /\ job.todo # {}
  /\ \/ /\ Admissible(Path)
        /\ tree' = Extend(tree, Path, content[Path])
        /\ job' = [job EXCEPT !.todo = @ \ {Path}, !.seen = Extend(@, Path, content[Path])]
     \/ /\ Skipped(Path)
        /\ job' = [job EXCEPT !.todo = @ \ {Path}] /\ UNCHANGED tree
     \/ ~Admissible(Path) /\ ~Skipped(Path) /\ Next_("cleanup") /\ UNCHANGED tree
  /\ UNCHANGED <<theirs, failures, receipt, taken, runs, basis, quiet>>

JobDigest == IF schema = 2
             THEN ProjectionDigest(job.decisions, job.ignored, job.named, job.approvals,
                                   job.seen)
             ELSE None

\* _write_staging_receipt_at creates the receipt exclusively.
WriteReceipt ==
  /\ job.pc = "copy" /\ job.todo = {}
  /\ \/ /\ receipt = None /\ Next_("bind")
        /\ receipt' = [whole |-> TRUE, source |-> SourceDigest(job.seen),
                       projection |-> JobDigest]
     \/ receipt # None /\ Next_("cleanup") /\ UNCHANGED receipt
  /\ UNCHANGED <<theirs, failures, tree, taken, runs, basis, quiet>>

\* Creating, writing or syncing it fails: it is removed again, or that fails too.
ReceiptFails ==
  /\ job.pc = "copy" /\ job.todo = {} /\ receipt = None
  /\ failures < MaxFailures /\ failures' = failures + 1 /\ quiet' = FALSE
  /\ receipt' \in {None, [whole |-> FALSE, source |-> Empty, projection |-> None]}
  /\ Next_("cleanup")
  /\ UNCHANGED <<theirs, tree, taken, runs, basis>>

\* Both directories are still the ones that were opened.
Bind ==
  /\ job.pc = "bind" /\ Ends("staged")
  /\ UNCHANGED <<theirs, failures, tree, receipt, taken, runs, basis, quiet>>

\* Something fails before there is a tree, while it is filled, or after the
\* receipt: the walk finds a file replaced between two calls, the disk is full.
StageFails ==
  /\ job.pc \in Steps \ {"cleanup", "unreceipt"}
  /\ failures < MaxFailures /\ failures' = failures + 1 /\ quiet' = FALSE
  /\ \/ job.pc = "bind" /\ Next_("unreceipt")
     \/ job.pc = "copy" /\ Next_("cleanup")
     \/ job.pc \notin Copying /\ Ends("failed")
  /\ UNCHANGED <<theirs, tree, receipt, taken, runs, basis>>

\* The receipt is unlinked, or what was in the way is in the way of that, too.
Unreceipt ==
  /\ job.pc = "unreceipt" /\ Next_("cleanup")
  /\ receipt' \in {None, receipt}
  /\ UNCHANGED <<theirs, failures, tree, taken, runs, basis, quiet>>

\* rmtree: it removes the tree, or stops in the middle of it.
Cleanup ==
  /\ job.pc = "cleanup"
  /\ \/ /\ tree' = None /\ Ends("failed") /\ UNCHANGED <<failures, quiet>>
     \/ /\ failures < MaxFailures /\ failures' = failures + 1 /\ quiet' = FALSE
        /\ \E left \in SUBSET DOMAIN tree : tree' = Restrict(tree, left)
        /\ Ends("cleanup_failed")
  /\ UNCHANGED <<theirs, receipt, taken, runs, basis>>

StagerDies ==
  /\ job.pc \in Steps /\ failures < MaxFailures /\ failures' = failures + 1
  /\ quiet' = FALSE /\ Ends("none")
  /\ UNCHANGED <<theirs, tree, receipt, taken, runs, basis>>

\* The user removes what a run has left, in any order.
Tidy ==
  /\ job.pc = "idle"
  /\ \/ tree # None /\ tree' = None /\ UNCHANGED receipt
     \/ receipt # None /\ receipt' = None /\ UNCHANGED tree
  /\ UNCHANGED <<theirs, failures, job, taken, runs, basis, quiet>>

\* Mutant: the tree is not compared with the digest of the receipt.
VerifiesUnread == receipt # None /\ tree # None /\ receipt.whole
\* adapt: load_staging_receipt, verify_staged_input ...
Verifies ==
  /\ receipt # None /\ tree # None
  /\ receipt.whole /\ SourceDigest(tree) = receipt.source

Verify ==
  /\ taken = None /\ Verifies
  /\ taken' = [files |-> tree, projection |-> receipt.projection]
  /\ UNCHANGED <<theirs, failures, job, tree, receipt, runs, basis, quiet>>

\* ... and _require_current_input, of schema 1 by safe_input_snapshot.
CurrentInput ==
  LET files == Restrict(content, Listed(content, ignored))
  IN IF schema = 2
     THEN LET now == Projection(content, ignored, exceptions, control.entries)
          IN now # None /\ taken.projection = now
     ELSE /\ Accepts(exceptions, Findings(files))
          /\ SourceDigest(taken.files) = SourceDigest(files)

Adapt ==
  /\ taken # None /\ CurrentInput
  /\ taken' = None
  /\ UNCHANGED <<theirs, failures, job, tree, receipt, runs, basis, quiet>>

AdaptRefused ==
  /\ taken # None /\ ~CurrentInput
  /\ taken' = None
  /\ UNCHANGED <<theirs, failures, job, tree, receipt, runs, basis, quiet>>

Stage == \/ Start \/ Walk \/ Accept \/ NameExceptions \/ NameApprovals \/ LoadApprovals
         \/ MakeTree \/ TreeExists \/ Copy \/ WriteReceipt \/ ReceiptFails \/ Bind
         \/ StageFails \/ Unreceipt \/ Cleanup \/ StagerDies

Elsewhere ==
  /\ ApprovalNext
  /\ quiet' = (quiet /\ UNCHANGED <<sources, control>>)
  /\ UNCHANGED <<job, tree, receipt, taken, runs, basis>>

Init ==
  /\ ApprovalInit
  /\ job = AtRest /\ tree = None /\ receipt = None /\ taken = None
  /\ runs = 0 /\ quiet = FALSE
  /\ basis = [ignored |-> {}, exceptions |-> {}]

Next == Stage \/ Tidy \/ Verify \/ Adapt \/ AdaptRefused \/ Elsewhere
Spec == Init /\ [][Next]_vars

-------------------------------------------------------------------------------
TypeOK ==
  /\ ApprovalTypeOK
  /\ job.pc \in Steps \cup {"idle"} /\ job.todo \subseteq Paths
  /\ DOMAIN job.seen \subseteq Paths /\ DOMAIN job.decisions \subseteq Paths
  /\ job.answer \in {"none", "staged", "refused", "failed", "cleanup_failed"}
  /\ tree # None => DOMAIN tree \subseteq Paths
  /\ receipt # None => receipt.whole \in BOOLEAN
  /\ runs \in 0 .. MaxRuns /\ quiet \in BOOLEAN

\* The type invariant, and: no byte gets into the private tree (a whole one, or what a death, a failed
\* cleanup or the run of another day has left) that a policy in force during its
\* run kept out: no name or ignored path, no link, no key, and a flagged shape
\* only where a list of exceptions that was on disk then names it in that file.
OnlyAdmitted ==
  tree # None =>
    \A p \in DOMAIN tree :
      /\ p \notin Denied \cup Neutral \cup basis.ignored
      /\ tree[p] \in Texts \cup {"binary"} /\ tree[p] # "key"
      /\ tree[p] = "flagged" => <<p, "flagged">> \in basis.exceptions
Inv == TypeOK /\ OnlyAdmitted

\* adapt goes on only with a tree that holds what staging this checkout would
\* copy at that moment, every finding in it excepted by the list of now: whatever
\* was edited, staged again, removed or left over since, in whatever order.
AdaptedIsCurrent ==
  [][Adapt =>
       LET files == Restrict(content, IF schema = 2 THEN Projected(content, ignored)
                                      ELSE Listed(content, ignored))
       IN taken.files = files /\ Accepts(exceptions, Findings(files))]_vars

\* A stage nothing gets in the way of does what the rules say of the checkout as
\* a whole, though it reads it file by file: it copies that projection and names
\* it, and refuses only what has none, or finds its places taken.
Reference(files) ==
  /\ Accepts(exceptions, Findings(files))
  /\ schema = 2 => ValidApprovals(control.entries, files)
QuietRunsAgree ==
  [][(job.pc \in Steps /\ job'.pc = "idle" /\ quiet') =>
       LET files == Restrict(content, IF schema = 2 THEN Projected(content, ignored)
                                      ELSE Listed(content, ignored))
       IN \/ /\ job'.answer = "staged" /\ Reference(files) /\ tree = files
             /\ schema = 2 => receipt.projection =
                  Projection(content, ignored, exceptions, control.entries)
          \/ job'.answer = "refused" /\ ~Reference(files)
          \/ job'.answer = "failed" /\ (receipt # None \/ tree # None)]_vars
=============================================================================
