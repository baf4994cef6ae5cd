# A verification project for atlasweaver

TLA+ models of `src/project_knowledge` with TLC runs and TLAPS proofs. Paths
below are relative to `src/src/project_knowledge/` unless they say otherwise.

## 1. Inventory

atlasweaver keeps a code graph (`graphify-out/`) beside a repository, made by an
external program (Graphify), validates it, and installs it, its wiki pages
and its distribution bundles into places other processes read. There is no daemon:
every command is a process, processes share the file system and meet at
advisory locks, and any of them can be killed between two system calls. Most of
what is hard is there.

| component | state it keeps | operations | meets |
|---|---|---|---|
| graph promotion `artifacts.py` | `graphify-out`, `.artifacts/{staging,rollback,transactions}` | `promote_graph`, its rollback, `_recover_all_transactions`, `validate_owned_graph` | refresh and bundle install call it; queries and the registry read the target |
| lifecycle lock, leases `locking.py` | an flock and the leases that prove it is held | `ExclusiveDescriptorLock`, `RepositoryLifecycleLock`, `assert_*` | refresh, install, record, registry-sync |
| refresh `lifecycle.py` | stage, evidence, build epoch in the new generation | `refresh_project` | lock, Graphify, promotion, operation state; the user's edits |
| operation state `operation_state.py` | `state.json`: last success, last failure | `record_success`, `record_failure` | refresh, install, status and doctor |
| registry `registry.py` | `registry.json`, the global graph, Graphify's manifest, the snapshot store, a journal | `registry_sync`, recovery, `registry_status`, `capture_registry_snapshot`, `query_registry` | many projects' syncs, readers, Graphify itself writing its own two files |
| atlas `atlas.py` | the vault's `Generated` pages, stage, backup, journal | `promote_atlas`, rollback, recovery | a user editing pages by hand |
| configuration `manifest.py` | `.graphify-project.yaml`, ignore file, a journal | `project-init`, manifest migration and their recovery | a user editing the same files |
| bundle delivery `bundles.py`, `github_artifacts.py` | temporary roots, pull authorizations, an installed generation, its recorded outcome, a packed archive | `pull_bundle`, `install_local_bundle`, `pack_bundle` | lock, promotion, operation state, GitHub |
| release publishing `workflow_publish.py` | a GitHub release, its assets and tag | `publish_release_asset` | other runs of the workflow |
| fleet `fleet.py` | none of its own | `run_fleet_operation` | refresh, pull, registry-sync, query of many projects in threads |
| agent install `agent_install.py` | skill files below an agent's home | `install_agent`, `_replace_managed_resource` and rollback | the user's own files at the destination |
| staging, privacy, secrets `staging.py` ... | a private tree and its receipt | which paths a staged extraction sees; `stage`, `adapt` | refresh; the user's edits |
| coverage approvals `coverage.py` | the tracked control file, a journal, a backup | `coverage approve` | lifecycle lock, staging; the user's edits |
| evidence, impact, health, coverage reports | none | verdicts on a generation | readers |
| Graphify boundary `graphify.py`, `adapter.py`, `adapters/` | none | run the external program, check its output | refresh, registry |
| compatibility, receipts | a receipt file | fingerprint an installed Graphify | doctor, refresh |
| command line `cli.py` | none | parse, dispatch, render | everything |

What makes each of the stateful ones correct:

* **promotion**: a reader finds the old graph or the new one, whatever dies or fails and
  wherever; a failed promotion changed nothing; an interrupted one never blocks the next.
* **refresh**: what is promoted was extracted from the sources as they are at
  promotion; epochs only grow; the answer and the recorded outcome agree with what happened.
* **registry**: the three files are of one generation whenever no journal says
  otherwise; every entry's snapshot exists; no project's entry is lost by
  another's sync; readers see one committed generation.
* **atlas, configuration**: as promotion, and a user's concurrent edit is neither overwritten nor lost.
* **bundles**: an authorization installs at most once and only what it was granted for; the
  recorded outcome describes what is installed.
* **publishing**: the tag never names a commit whose bundle the release does not carry, retention never
  deletes what is among the newest, nobody who follows the release is sent backwards.
* **agent install**: what the user wrote survives; a settled skill is never reduced to nothing.
* **staging**: nothing the policy keeps out is ever copied; adapt believes only a stage of the checkout as it is.
* **approvals**: an approval that was answered stays in the file.
* **fleet**: a row says what was done, and where; no two runners meet; the command ends.

## 2. Plan

1. `GraphStore` (abstract), `GraphPromotion` (detailed, refines it),
   `GraphDirectory` (what other commands see of it), `GraphPromotionProofs`. *Done.*
2. `RegistryDocument`, `RegistryStore` (abstract), `RegistryTransaction`: syncs,
   readers, locks, deaths, failures, Graphify's own writes;
   `RegistryTransactionProofs`. *Done.*
3. `CheckoutLifecycle`: refresh, install and pull under the lifecycle lock, with
   epochs, edits and the recorded outcome, around promotion. *Done, proofs included.*
4. `AtlasStore` (abstract), `AtlasPromotion`: journalled replacement against a user's
   edits, with a recovery that refuses what it does not know; proofs in `UserFilesProofs`. *Done.*
5. `ConfigTransaction`: the same problem for a pair of files; proofs in `WorkspaceProofs`. *Done.*
6. `AgentInstall`: it again, without a lock or a journal; proofs in `UserFilesProofs`. *Done.*
7. `ReleasePublish`: the publish job, GitHub's release, consumers. *Done, proofs included.*
8. `BundleDelivery`: pull authorizations, staging, the recorded outcome. *Done, proofs included.*
9. `InputPolicy`, `CoverageApproval`, `InputStaging`: which files Graphify sees, against edits
   of files and policy. *Done, proofs included.*
10. `FleetOperation`: fan-out, per-project outcomes, aggregation; proofs in `WorkspaceProofs`. *Done.*

Every safety invariant, action property and refinement a passing run checks is also proved (section 6); what is left
to TLC is liveness.

## 3. Modules

| module | what it is | source |
|---|---|---|
| `GraphStore` | abstract: one graph, promotions that install it whole or leave it alone, answers that say which | docstring and results of `promote_graph` |
| `GraphPromotion` | `promote_graph`, rollback and recovery, one step per system call | `artifacts.py` 978–1170, 2050–2247 |
| `GraphDirectory` | in between: `graphify-out` and the graph that survives a death, for modules that build on promotion | the same |
| `RegistryDocument` | a generation number and one snapshot per project | `registry.py` |
| `RegistryStore` | abstract: the registry changes by whole generations; captures return a current one | `registry.py` |
| `RegistryTransaction` | `registry_sync`, its recovery, captures, Graphify's own writes | `registry.py` |
| `CheckoutLifecycle` | `refresh_project`, `install_local_bundle`, the install of `pull_bundle` on one checkout; uses `GraphDirectory`'s actions for promotion | `lifecycle.py`, `locking.py`, `bundles.py`, `github_artifacts.py`, `operation_state.py` |
| `AtlasStore` | abstract: a vault's pages are replaced whole and only if nobody changed them | docstring of `promote_atlas` |
| `AtlasPromotion` | `promote_atlas`, rollback and recovery, and the vault's user | `atlas.py` 392–609, 1428–1729 |
| `ConfigTransaction` | `apply_init`, `apply_manifest_migration`, their rollbacks and recoveries, and the user | `manifest.py`, `cli.py` |
| `AgentInstall` | `install_agent`, `uninstall_agent`, the rollback of a replacement, and the user | `agent_install.py` |
| `ReleasePublish` | the publish job against one rolling release, and consumers that select and download from it | `workflow_publish.py`, `github_artifacts.py` |
| `BundleDelivery` | `install_local_bundle`, `pull_bundle`, `pack_bundle` on one checkout | `bundles.py`, `github_artifacts.py`, `operation_state.py` |
| `InputPolicy` | operators: path rules, ignores, findings and exceptions, digests of a projection | `privacy.py`, `secrets_scan.py`, `staging.py` |
| `CoverageApproval` | `preview_coverage_approval`, `apply_coverage_approval`, `_write_control`; the user's edits of everything they depend on | `coverage.py` |
| `InputStaging` | `stage` and `adapt`, beside `CoverageApproval`'s approver and user, which it extends | `staging.py`, `receipt.py`, `cli.py` |
| `FleetOperation` | one fleet command over the projects of a workspace file | `fleet.py`, `cli_distribution.py` |
| `MC*` | instances for TLC | |
| `*Proofs` | theorems, checked by TLAPS | |

### The failure model

A process may die at any step; the file system keeps what it has (a crash of the
process, not of the power: writes are not reordered). A *fault* makes one operation
raise, after which the code's own except clauses run; the constants `FaultPoints` and
`CrashPoints` name the program points concerned and each bound (`MaxCrashes`,
`MaxFaults`, `MaxEdits`, `MaxForeign`, `MaxGeneration`, `MaxEpoch`, `MaxDeaths`, `MaxFailures`,
`MaxRuns`, `MaxWorks`) is a constant. An
`fsync` that raises is a fault after its operation took effect. What several system
calls change but only its own process can look at (a private temporary directory, a
file under a fresh random name) is one step or none.

### GraphPromotion

`target`, `stage[t]`, `backup[t]`, `journal[t]` are the four places in the checkout,
`t` a transaction id; `pc` the statement about to run, `candidate` the argument. A
directory is a generation, `Absent`, or `Torn` (`remove_tree` deletes file by file).
The journal holds what recovery reads: its phase and the digest of `graph.json`, a
function of the generation that need not be one-to-one (`GraphDigest`). `answer` is
what the last call told its caller; `prior` and `lapse` are history. `lapse` says that a transaction has begun in
which the digest of `graph.json` cannot tell the candidate from what it replaces (`alias`), or has failed after its
commit (`cleanup`): sections 6 and 7. The `.artifacts` directories
are taken to exist, and the atomic replacement of a journal's text is one step.

`SurvivingGraph` is the refinement mapping's centre: what a recovery would make of the
disk if the process died now. Under `graph <- SurvivingGraph` every statement but
`UnlinkJournal` is a stutter of `GraphStore`, and that one is its `Commit`.

### RegistryTransaction

A document stands for three files that carry one generation (`registry.json` holds the
hashes of Graphify's two); `file[f]`, `backup`, `restored`, `journal` and
`snapshot[s]` are the disk. The loops over the files take them in the order the code
does, which differs between a transaction and a recovery (sorted journal keys).
`Healthy[p]` is what a sync may find in its checkout; sampling it is `Admit`. The
committed generation, `Registry`, is the journal's old document while there is a
journal, for the next sync decides and readers wait: so unlinking the journal commits.
`Foreign` is a file Graphify wrote by hand-run command, which no lock of atlasweaver keeps out.
The journal's phase, never read by recovery, and the `.new` files, never looked for but by
their own transaction, are not modelled. `MaxGeneration` bounds the syncs. `lapse` is history: a sync failed at
`verify`, between its commit and its answer, or Graphify wrote while a transaction replaced its files.

### CheckoutLifecycle

`Refreshes`, `Installs` and `Pulls` are processes named by their command. A command holds
the lifecycle lock while `pc` is in `Critical`; a pull leaves it and takes it again to record
(`waiting_to_record`), and so does an install that raised after its commit (`FaultInstalled`): its exception leaves the
lock, and its handler records the outcome under a lock of its own (`rerecord`), when another command may have promoted;
`overtaken` is history, the commands this has happened to. `source` is everything that is re-read for currency (safe projection and
manifest), `Edit` changes it at any time. A generation has a source, a content and an epoch, and
`Same` compares `generation_digest`s, which leave the epoch out. Promotion enters by the
actions of `GraphDirectory`, which `GraphPromotion` is checked to implement
(`ImplementsDirectory`): the composition is sound step by step, and this module need not
carry journals. Two orders in the code matter and are kept: the epoch is taken from
`graphify-out` *before* `promote_graph` recovers what a dead promotion left there (`Existing`,
then `Recover`), and the outcome compares with both (`Summed`, `VerifyRefused`).
`last_failure`, written like `last_success`, and the private run roots are not modelled.

### AtlasPromotion

`target`, `stage[t]`, `backup[t]`, `journal[t]` as in `GraphPromotion`; `litter` says that
`transactions/` holds another file, which the atomic write of a journal leaves when the process dies
in it. `scanned` is `current_snapshot`, what the process has compared with since. A tree is one of
AtlasWeaver's (`Atlases`; two of them may have one semantic digest, which leaves
`generated_at` out), one a user has changed (`Edits`, which have no digest:
`_owned_digest_at` answers `None`), `Absent` or `Torn`. The user knows no lock: `UserEdits` changes the
pages where they are, `LateWrite` saves into the directory that has been renamed away.
`edits` is history, the changes nothing of the user's own has superseded. The refinement
mapping `Pages` reads the journal as recovery would: an uncommitted transaction's pages are
its backup's, and only `Commit` replaces them. Checks that no directory was swapped for a link
(`_assert_namespace_binding`) and journals of the legacy schema are left out.

### ConfigTransaction

`dirent` maps names to inodes and `data` inodes to contents: init installs a file by *linking* its
temporary, so an edit of one is an edit of the other, and what the code compares are inode numbers and
digests. The lifecycle lock (`holder`) admits one process, hence one `pc`; previews are
made before it and outlive what happens in between. `mode` tells why work is undone: a failure
of this command (`Undo*`) or a journal found (`Recover*`). The user (`UserWrites`) creates, edits in place
or saves over either file. `spoiled` is history: a second misfortune struck where no recovery is
possible (`SpoiledBy`). Texts are versions, schemas 1 and 2; parsing is left out. `Compared` are the points at which the user may
write without losing anything. The module shares no name with `FleetOperation` (`ConfigInit`, `Points` for `PCs`, `Nothing` for
`None`, ...), so that one module can hold the proofs of both.

### AgentInstall

There is no lock, so every command has a `pc` of its own. A tree is what validation reads: its inode, the
kind of its marker, the digest the marker names, what the files hold. The names are the place and
each command's private siblings (stage, backup or tombstone, failed). The module shares no name with `AtlasPromotion` (`at` for
`pc`, `writings` for `edits`, `NoTree` for `Absent`, ...), so that one module can hold the proofs of both.
`kept` is history, what a user wrote;
`alone[p]` that nobody else has moved the place during `p`'s command; `struck` the points at
which an operation failed. The skill Graphify installs for itself is elsewhere and left out.

### ReleasePublish

The workflow's concurrency group admits one publish job of a channel at a time, hence one `pc`;
`StartRun` picks any commit, again or for the first time, older or newer. A request takes effect or
not, whatever the job hears: a lost answer fails the job after its effect, an upload that breaks off
leaves an asset without a digest. `assets` are what a page of the listing can show; `attested`, `gone` and `uploads`
are history. A consumer resolves the newest whole bundle of its source projection and downloads it while runs go on;
`floor[r]` is the newest that was there when it set out. The gh attestation and building a bundle
are external; inspection and building come before the job's first request and are one step.

### BundleDelivery

A process is one command. `registered` is the process-wide table of pull authorizations; `graph` (what survives a
death), `place` (what is at `graphify-out`, perhaps a promotion's leftover that the next one recovers), `record`
(`last_success`) and `output` (a packed archive) are the checkout. `job[p].committed` says that an
exception may no longer be raised as a failure; `did` which commands changed the graph or the output, `unaware` the ones to which
`promote_graph` raised after its own commit (finding 1: the one case in which a command that raises has changed
something); `excused` that a
record differs from the graph for a reason its command has answered for: a late write of a pull or pack
over another command's, a record that failed or found the lock busy, a verification swallowed after the commit, a failed
cleanup after a local install's commit (which `bundles.py:1991-1993` does not record, where the plan's
`artifact-fleet.md:1462` says outcomes after a commit are), a promotion undone after its commit,
or a death. Promotion is one step (`GraphPromotion` has the detail), an archive a verdict.

### InputPolicy, CoverageApproval, InputStaging

A path is a number that stands for a kind of name (`Ordinary`, `Sensitive`, `Denied`, `Neutral`), a
content one of a few kinds: plain text, a secret shape a reviewer may accept (`flagged`), one that nobody may (`key`),
binary, a link. `InputPolicy` has what the rules say of a *whole* checkout; `InputStaging` reads it file by file
while the user edits, each policy file when its turn comes, the exceptions and approvals twice
(`Accept`, `NameExceptions`; `NameApprovals`, `LoadApprovals`), and copies from a second reading of each
file, compared with the first. `tree` and `receipt` outlive the command that made them; `adapt` is `Verify`, then
`Adapt` or `AdaptRefused`. `basis` and `quiet` are history: which policies were in force during the run, and
whether nothing has interfered with it. `CoverageApproval` has the previews before the lock, their re-derivation
under it (`Rederive`, `Changed`), and the journal, new file, comparison, backup link, rename and removals of
`_write_control`; `granted` is the approvals answered that the user has not edited away. One file's reading is one step (a torn in-place read is
not modelled); the ignore file is read once; nested ignore files and globs are abstracted to a set
of ignored paths.

### FleetOperation

`at[p]` is the directory a configured path leads to, `git[d]` the repository behind a directory, `manifest`, `pending`
(a journal of init), `graph` and `entry` (the registry) are what others change. The command opens each project
(`loaded`), admits them (`admitted`) and gives them to a pool of `MaxParallel` threads, each of which checks again that
the directory is the one it opened (`Bound`). Its runner has a step up to its commit (`Run`, whose detail is in
`CheckoutLifecycle`, `BundleDelivery` and `RegistryTransaction`; or `RunFails`) and one after it (`RunEnds`): a sync that has committed
looks at its manifest again (`registry.py:695`) and raises when it was written since (`rewritten`), so that its row is
`fleet_manifest_changed`; so does an inspection; a pull with nothing to install may not be able to record
(`Rechecked`). Refreshes and syncs end with their locks held (`Locked`, `Registering`). A sync is one project after the other, a
query asks the registry per project and captures all entries later. `worked` says where each runner was at work and
whether it changed a graph or an entry; `current`, which entries were current, is history.
An edit of a `.git` file is only noticed at loading (`regit` exempts it).

## 4. Runs

| run | instance | shows |
|---|---|---|
| `graph_promotion` | 2 generations, 4 transaction ids, 2 deaths anywhere, 2 failures up to the commit | `Inv` (inductive), `FailureRestoresPrevious`, `LeftoversBounded`, `GraphNeverLost`, refinement of `GraphStore` and `GraphDirectory`, `JournalsDrain` |
| `graph_promotion_cleanup` | a failure *after* the commit | violates the docstring of `promote_graph` (finding 1) |
| `registry` | 2 projects, one with two snapshots, 2 syncs, a reader, 2 generations, one death, failure and foreign write each | `Inv`, `OneGeneration`, `EntriesAvailable`, `AnswersHold`, `CapturesGoForward`, refinement of `RegistryStore`, `JournalsDrain` |
| `lifecycle` | a refresh, an install and a pull, 2 sources, 3 epochs, one edit, death and failure each | `Inv`, `FreshAnswers`, `EpochsGrowUninterrupted`, `RecordsFollowGraph`, `RefreshSucceeds` |
| `atlas` | 3 trees with 2 digests, 2 edits, 2 transaction ids, 2 deaths and 2 failures | `Inv`, `EditsKept`, refinement of `AtlasStore`, `JournalsDrain` |
| `config` | 2 commands, 5 inodes, 2 deaths, a failure, a user's write | `ConfigInv` (`EditsKept`, `WholeAtRest`, `LeftRecoverable`), `AnswersTrue`, `JournalDrains` |
| `agent` | installers of 2 package versions and an uninstaller, an edit, a failure, a death | `AgentInv` (`KeepsACopy`), `WritingsKept`, `AnswersTrue` |
| `publish` | 4 runs of 3 commits (two with one projection), 2 lost requests, a dead runner, a consumer; `Keep` 1, `Page` 3 | `Inv` (`NewestKept`, `NamesUnique`, `PullsGoForward`), `TagCarried`, `PublishedWhole` |
| `delivery` | an install, a pull and a pack, 2 sources, 2 manifests, an edit, 2 failures, a death | `Inv` (`AuthorizationsDrain`, `RecordFollowsGraph`), `AnswersTrue` |
| `staging` | an ordinary, a sensitive and a denied file, both schemas, 2 stages, an approver, 2 edits, a failure or death | `Inv` (`OnlyAdmitted`), `AdaptedIsCurrent`, `QuietRunsAgree` |
| `approval` | 2 approvers, 3 edits, 2 failures or deaths | `ApprovalInv` (`ApprovalsKept`) |
| `fleet` | 2 projects and a clone of one, 2 threads, an edit, 2 works of other commands, a failure | `Inv` (`AnswerTrue`, `Apart`, `RepliesCurrent`), `CommandEnds` |

Why the bounds are enough: in `graph_promotion` a death in a promotion and one in its recovery,
each from every statement, meet a replaced, a new and a torn directory; four ids
leave a fresh one after two deaths and a failed cleanup. In `registry` one sync can commit while
another prepares, and the two checkouts of one project let a sync find its own entry,
an older one, or none; two generations are what a transaction can relate. In `lifecycle` one command
of each kind covers the pairs that meet; each may run again and again. In `atlas` two
edits put the user into the pages and their backup at once; transaction ids are used again once
their journal is gone, and two show that none outlives it. In `config` a death can strike an apply and the recovery
of it, after a preview that was made before either. In `agent` each pair of commands
meets, and a third can undo what the second left. In `publish`, with `Keep` 1, four runs are an old commit published
again after two newer ones and a failed attempt in between. In `staging` two edits are one of a file and one of a policy,
or a change and its reversal, and two runs let a leftover of the first meet the second. In `approval` three edits can
spoil a preview, its derivation under the lock, and the file. In `fleet` the clone is a directory with the right
manifest at the wrong place, and two works are a refresh and the sync of it.

What the passing runs leave out is what refutes a property; section 7 describes each case and
how to see it. After the commit in `GraphPromotion` (`UntilCommit`)
`graph_promotion_cleanup` shows it; at `verify` in `RegistryTransaction` (`Failures`), where Graphify's writes are left out
from `replace` to `verify` too (`Moments`): there the transaction overwrites them or fails verification after its
commit. `atlas` leaves out edits between the candidate's rename and the
end of what may remove it again (`BeforeComparison`; the
few statements between a check of ownership and the removal it allows are the same
window), late writes after the last comparison of the backup (`BeforeLastLook`), and a failure
after the journal says "committed" but before the handler knows (`UntilCommit`), which undoes a
transaction that recovery would then call inconsistent if the process died at it. `lifecycle` leaves out failures of a rollback (`Anywhere`), whose
disk a death in the rollback leaves too. `Deaths` leave out points at which a death and a
failure come to the same. `UnchangedRemove` and `VerifyFails` of
`RegistryTransaction` can only happen after what is left out here.
`config` leaves out writes of the user between a comparison and the call it guards, and into the name a
migration has moved away (`Compared`): at `read_old` (the manifest is read again after the preview was compared),
`m_backup`, `m_backed_up`, `m_install`, `unlink_ignore`, `unlink_manifest`, `r_unlink` and `r_rename`;
in each of them the code replaces or removes what it compared a moment before. `agent` leaves nothing
out of its steps; `WritingsKept` and `AnswersTrue` name the failures they exempt, and `KeepsACopy` theirs.
`QuietRunsAgree` is of runs during which nothing is edited; `OnlyAdmitted` and `AdaptedIsCurrent` hold of any.

## 5. Fairness

Within a call a process that is not killed goes on: weak fairness of its next statement. Of
*when commands are called* the code says nothing, so each liveness property states what
it needs: that promotions, syncs or refreshes go on being asked for (they are: a scheduled job or a
user), sometimes while no other command holds the lock, and that the polling of a lock (every
50 ms with a deadline, `locking.py:282-336`) does not miss it every time it is free. The last two are
strong fairness and are the weakest that rules out a reader or a neighbour always being in the
way: `flock` has no queue. Nothing is assumed of edits, deaths and faults except that they are finite.

* `JournalsDrain` (promotion, registry): an interrupted transaction is finished or undone by the
  commands that follow, unless one of the named obstacles is in the way (`Blocked`).
  For the vault these are what the code means a person to look at (pages they changed), a torn
  directory, and the temporary file of a journal: of the last two nothing in the code ever gets rid.
* `JournalDrains` (configuration): weak fairness of the process in the lock, strong fairness of entering it. While a command
  that has its preview waits for the lock, a journal is gone in the end: recovered, or torn by a new death or failure, or
  refused because a user's edit or a second misfortune is in the way. Answering is no way out: the only commands that can come
  are those with a preview, since every later one is turned away (section 7).
* `CommandEnds` (fleet): weak fairness of the command alone. Threads run, and runners return: their
  subprocesses, requests and waits for a lock all have timeouts. Others may do anything.
* `RefreshSucceeds`: refreshing makes the graph current, unless `graphify-out` is torn (only
  an install or pull recovers it: a refresh validates it first) or the last epoch is used up.

## 6. What is proved

Assumptions are the named `ASSUME`s of the modules (sets are distinct, bounds are naturals) and, where a
theorem says so, one about the faults or a lapse that history records.

* **GraphPromotionProofs.** `TypeCorrect` and `OneJournal` hold of any faults and deaths.
  `Invariance` is the inductive `Inv`: one journal at most; `Unaliased` (a recovery never takes
  for its own candidate what it must spare); `Progress` and `Undoing` (what each statement
  relies on); `Keeps` (the surviving graph is the one the call found until the journal is
  gone). No condition is put on faults or generations: it is proved that `Inv` holds *until a lapse*,
  a candidate whose digest is also that of the generation it replaces, or a failure after the commit, and
  again once a promotion has begun with no journal left. Findings 1 and 2 (section 7) are what
  the code does after one. `FailureIsHarmless` and `GraphSurvives` say the same of `FailureRestoresPrevious` and of
  each step; `GraphSurvives` also that `GraphNeverLost` holds of every behaviour without a lapse. Only
  `Refinement` (the detailed promotion implements `GraphStore`) assumes `DistinctGraphs` and
  `ReliableCleanup`, the conditions on the constants that exclude lapses (`NoLapse`).

* **CheckoutLifecycleProofs.** `Safe` (types, one command in the lock, `InHand`: what
  a command staged, validated and installed is where it left it) is inductive without any assumption
  on faults. The argument is in two lemmas: `Framing` (a process moves only itself, and touches the
  checkout only in the lock) gives `OthersKeep`; `OwnHand` goes through the actions. From it
  `FreshAnswersCorrect` and `RecordsCorrect`. Until a command dies and if
  rollbacks do not fail (`ReliableRollback`), `Undisturbed` joins the invariant (`InvCorrect`), and
  with it `EpochsGrowCorrect`.

* **RegistryTransactionProofs.** `InvCorrect`: the inductive `Inv` for any number of projects,
  snapshots, syncs and readers. Its centre is `Recoverable`: a whole journal's transaction can be
  finished and can be undone, and neither direction needs a snapshot that is not there;
  `RecoveryOf`, `PreparationOf` and `TransactionOf` say what a sync relies on at each statement,
  and `Framing` with `Exclusion` that nobody else disturbs it. It holds of any faults *until a lapse*: a
  failure at `verify`, after the commit, or a write of Graphify between `replace` and `verify`
  (section 7, 3, is what the code does after the first); `QuietCorrect` shows that there is none under `QuietCommit`,
  which the run's constants satisfy. From it `OneGenerationCorrect`,
  `EntriesAvailableCorrect` and `AnswersCorrect`, until a lapse too, and of behaviours without one
  `CapturesCorrect` and `StoreImplemented`, the refinement of `RegistryStore`, by `RegistryStep`: only removing
  a journal changes the committed registry, and then by adding one snapshot.

* **UserFilesProofs**, two components that replace files their user may change at any moment, of which neither
  knows the other.
  - *Of `AtlasPromotion`:* `OneJournalCorrect` and `LeftoversCorrect` hold wherever edits, deaths and
    failures come: `Structure` (what is on disk at each statement) is inductive by itself. `InvCorrect`
    adds `Intact`: an uncommitted backup is whole, a torn `Generated` belongs to a journal whose
    recovery supersedes it, and no tree that is about to be removed is a user's. It assumes `Compared`, the
    three conditions on edits, late writes and failures that section 4 names. From it
    `EditsKeptCorrect` and `StoreImplemented`: with one journal, `PagesRead` says what its recovery
    makes of the pages, and `PagesStep` that only a commit or the user changes that.
  - *Of `AgentInstall`:* `SkillInvariant`, for any number of commands of any packages, and from it `SkillSafe`,
    `WritingsSafe` and `SkillAnswersTrue`, with no assumption on failures, deaths or edits. There is no lock, so
    the invariant is mostly about one command each: `Own` and `Backed` say what its private siblings hold, `Quiet` where what it
    found is, as long as nobody else has moved the place. `Framing` shows that a step of one command moves only its own
    siblings and the place, and that it ends the `alone` of every other. What a user wrote can then be lost only where a tree is removed,
    and a removed tree is one with the command's own marker and digest (`WritingsStep`). `Copied` is of all commands together: while one is about
    to take the skill away, some *other* whole copy is not about to be removed.

* **ReleasePublishProofs.** `Invariant`, and from it `PublishSafe`, `TagAlwaysCarried` and `PublishesWhole`, for any
  commits, consumers, `Keep` and `Page`. `JobInv` is what a run has done by each statement (`Released`, `Prepared`, `Moved`);
  `Retained` is retention's argument: an asset it is still to delete has `Keep` newer ones that it is not,
  which survives every deletion, counted by the lemmas on the newest of a finite set; `Followed`: the newest asset there was
  when a consumer set out is there, or retention has deleted it and left newer ones.

* **InputStagingProofs.** `ApprovalsSafe` is of `CoverageApproval`: an approver's list contains what the file said when it was
  read (`Carrying`), the lock excludes other approvers, and the comparison with what was read excludes an edit.
  Its invariant `AInv` is part of the one of staging, whose command leaves approvals alone. `Filled` says that what the
  tree holds was read twice and admitted under a policy in force during the run, from which `StagingSafe`; `Scanned`
  ties the lists of the command to the checkout's rules; `Receipted` the receipt to the tree, from which
  `AdaptsCurrent`. `QuietRun` says that until something interferes everything read is still so, from which `QuietRunsAgreeAlways`.

* **BundleDeliveryProofs.** `Invariant`, `DeliverySafe` and `AnswersAreTrue`, for any installs, pulls and packs. `Alone` (one command in
  the lock) lets `Held` say that from its promotion until it leaves the lock a command's bundle is the graph. `Owed` is the reason
  why the record follows the graph: whoever has made them differ is on its way to record, unless excused. `Kept` is the same for
  the output of packs. `Placed`, `Committed` and `Said` are what one command knows of itself, so that an authorization is registered
  only between its entry and its exit.

* **WorkspaceProofs**, two components that share nothing but that they work on a whole project.
  - *Of `FleetOperation`:* `Invariant` and `FleetSafe`, for any workspace and any number of threads. The passes
    are read in order: `ToldApart` and `Known` hold of what was loaded and admitted and is not written again,
    `RowsOf` says which projects have a row after each pass, `WorkedOn` that a runner whose row claims work was
    at work, in the directory that was opened, and that a change said after work was done is a sync's whose manifest was
    written since, `Asked` that an entry found current was so during the command.
  - *Of `ConfigTransaction`:* three invariants, each resting on the one before, for any commands, inodes,
    deaths, failures and writes. `Structure` is inductive by itself, wherever the user writes: `Control` says
    which documents, in memory and on disk, belong to each statement, `NamesApart` that two names have one inode
    only as a file and its temporary, `Leftovers` and `Present` which names are there at each statement and for
    which journal. `Undisturbed` is of texts nobody has written: `Pristine` (what they say), `Halfway` (how far
    the two files are at each statement, what no rollback or recovery of a recovery changes) and, unless a
    journal is spoiled, `Sane` (at *every* statement, not only at rest, the journal is one the next recovery
    accepts; `Half` is the recovery that has already removed a temporary). From it `RestsWhole` (`WholeAtRest`,
    `LeftRecoverable`) and `AnswersAreTrue`, with no condition on where the user writes, since both are of what
    nobody wrote; `RecoversOn` shows that a recovery before any death has no reason to give up. `Guarded` is
    what a comparison has found for the step after it (`Unmoved`, `New`, `Linked`), and that the two versions a
    journal names are the same text (`Level`), so that the manifest a commit leaves in place of the backup has
    the user's text. From it `EditsAreKept`, on the condition `EditPoints \subseteq Compared` that section 4
    names and without which it is false, and with `RestsWhole` `ConfigurationSafe`.

* Added to **GraphPromotionProofs**: `DirectoryRefinement`, that the composition of `CheckoutLifecycle` with
  `GraphDirectory` rests on (under the same two conditions; `Displaced` says what `graphify-out` lacks while a candidate goes in), and `LeftoversArePaid`, without any condition: `Paid`
  counts the staged copies and backups left behind against the deaths and failures so far.

TLC finds each of these inductive invariants true on the instance of its run; those of `ConfigTransaction` also with two deaths, two
failures and two writes at once, and all but `Guarded` with writes at every statement. Proving them changed the
models where TLC's runs saw nothing: an update of a command's record that could have added a field to it
(`Update` in place of `@@`), a `CASE` whose guards overlap (now an `IF`: the order is the code's), assumptions that were only true of the
constants chosen (`None` is no command, no tree, no set of approvals), and `KeepsACopy`, which was false of
three installers (section 7, 8).

Only model-checked: every liveness property (`JournalsDrain` of promotion, registry and vault, `JournalDrains`, `RefreshSucceeds`,
`CommandEnds`), since the prover has no rule for fairness and `ENABLED` that it could discharge here.

## 7. Findings and divergences

The first is a run of the project. Each of 2 to 9 is a counterexample of TLC under a small change of a
configuration, given in parentheses; the properties named are defined in the modules.

1. `artifacts.py:1146` — a failure while the old backup is removed undoes a committed promotion
   from a half-deleted backup. (`GraphPromotion_cleanup.cfg`)
2. `artifacts.py:2128` — a previous generation with the candidate's `graph.json` is deleted by
   the second recovery after two deaths: the first restored it, removed the stage and died before the journal
   went. (`GraphPromotion.cfg` with `GraphDigest <- SameGraph`, `MaxFaults = 0`: `GraphNeverLost`)
3. `registry.py:707` — the check after the commit, when it raises, removes the snapshot
   the committed registry refers to. (`RegistryTransaction.cfg` with `FaultPoints = {"verify"}`, no deaths, no
   foreign writes: `EntriesAvailable`)
4. `registry.py:1523` — a `.restore` left by a recovery that stopped before its rename blocks every later
   one. (`FaultPoints = {"replace", "undo_replace"}`, `MaxFaults = 2`, `FairSpec`: `RecoveryCompletes`)
5. `lifecycle.py:612` — the epoch is taken before an interrupted promotion is recovered, and starts at 1 again,
   where the plan (`docs/superpowers/plans/2026-08-26-atlasweaver-core-adoption.md:3513`) says one more
   than the previous epoch. (`CheckoutLifecycle.cfg` with one refresh, `CrashPoints = {"install"}`: `EpochsGrow`)
   The same order makes a refresh of unchanged sources fail once with
   `refresh_verification_failed` after such a death (`VerifyRefused`).
6. `atlas.py:1702` — a file a user adds to the pages between their installation and the comparison
   that follows is found by it, and deleted by the rollback. (`AtlasPromotion.cfg` with `EditPoints <- AfterInstall`, no
   deaths or failures: `EditsKept`)
7. `cli.py:599`, `635` — any journal turns init and manifest-migrate away, with or without `--apply`, before the apply
   that would recover it, where `docs/superpowers/specs/2026-08-26-atlasweaver-core-adoption-design.md:57` says
   "`init --apply` may finish or roll back a valid journal before proceeding". Only a command whose
   preview is older than the journal ever reaches the recovery. (`ConfigTransaction.cfg` with one death,
   no failure, no edit: `ApplyFinishesOrRollsBack`)
8. `agent_install.py:748` — a failure while the backup is deleted puts what is left of the backup back and deletes the new
   tree; one after it (715) removes the new tree with nothing to restore. The plan
   (`artifact-fleet.md:2996`) says the backup is restored "on every caught replace failure".
   (`AgentInstall.cfg` with one installer, one failure, no edits or deaths: `FailureRestores`)
   A rollback after a failure to sync the root also takes whatever lies at the destination for its own (742): an installer that found
   nothing there, and has no backup, so removes the tree a later installer put in its place. `KeepsACopy` names
   that failure (`RollsBackToBackup`); it takes three installers, which is more than the run has.
9. `registry.py:695` — a manifest written between a sync's commit and its last look makes the sync raise, and
   `fleet.py:871` gives its row `fleet_manifest_changed`, although the registry has the new entry: the row does not
   mean that nothing was done. The plan (`artifact-fleet.md:3663`) calls "a manifest race" so without saying when.
   `AnswerTrue` names this one case. (`FleetOperation.cfg`: `ChangedDidNothing`)

Met while modelling, read in the code rather than found by TLC:

* `manifest.py:551-567` — a lone configuration file is answered `already_configured`; the design (`:60`) calls it
  `init_conflict`.
* `secrets_scan.py:191-193` — "Scan exactly the source files eligible for staging": under schema 2 the scan skips the
  sensitive source names staging keeps, so an exception staging needs makes `scan-secrets` fail.
* `staging.py:304`, `325` — the exceptions are read once to decide and again for the digest: after an edit in between the receipt
  names a policy other than the one that admitted the files, which the design (`core-adoption:371-379`) wants bound.
* `coverage.py:388` — `os.write` of the new control file is taken to be complete; a short one is installed and answered
  `approved`. `:416` — the rename overwrites an edit made after the last comparison, where the design (`:271`) says
  "no-clobber". `:208` — a journal or backup left by a conflict or a death is never recovered: every later apply
  answers `coverage_recovery_required` until a person removes it (`ClearLeftovers`).
* `fleet.py` — an operation's status that is not among its own is accepted by `_run_one` if it is any text; the plan calls it
  `fleet_result_invalid`. A fleet pull that ends `promoted_but_stale` exits 0 (`cli_distribution.py:244` maps only
  refresh to 3).
* `github_artifacts.py:1467`, `bundles.py` — a query or a pull may answer about a graph that another command has replaced
  since; nothing in the repository promises otherwise.

## 8. Not modelled

* **Parts of modelled components:** `registry_status` and the walks of `query_registry` (reads of one capture), journals of the
  atlas's legacy schema, `last_failure`, choosing an agent's destination, reports of coverage, integrity and health,
  torn reads of a file edited in place, nested ignore files.
* **By choice:** Graphify itself (external; its outcome is a choice of content), validation of a
  candidate's files, the patterns of secrets, evidence parsing and the queries of `queries.py`, compatibility
  fingerprints, `doctor`, command-line parsing and rendering. They keep no state between calls, and what they
  decide enters as a choice between accepting and refusing.
* Power loss with reordered writes; hosts that share a file system without `flock`.
