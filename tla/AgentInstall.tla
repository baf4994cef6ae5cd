---------------------------- MODULE AgentInstall ----------------------------
(***************************************************************************)
(* agent_install.install_agent and uninstall_agent: the skill directory    *)
(* below a platform's root is replaced, or removed, through sibling trees, *)
(* without a lock: other runs of the command, of this version or another,  *)
(* and the user may touch the directory between any two steps.             *)
(*                                                                         *)
(* A tree is what the validation reads of it: its inode, the kind of its   *)
(* marker, the digest that marker names and what the files really hold.    *)
(* The skill Graphify installs for itself lies elsewhere and is left out.  *)
(* No name is one of AtlasPromotion's: UserFilesProofs extends both.       *)
(***************************************************************************)
EXTENDS Naturals

CONSTANTS Installers, Uninstallers, \* runs of the command, each made once
          Ships,        \* the resource each installer's package ships
          Original,     \* the resource of an earlier installation
          NoTree, None,
          TornResource, \* what a removal or a copy that failed half-way leaves
          FailPoints,   \* steps whose system call may fail
          MaxEdits, MaxFailures, MaxDeaths  \* bounds of the environment

Commands == Installers \cup Uninstallers
Resources == {Original} \cup {Ships[p] : p \in Installers}
Writings == 0 .. MaxEdits      \* what the user wrote, by the order he did

Inodes == Commands \cup {Original} \cup Writings
SkillTrees == [ino : Inodes, marker : {"current", "legacy", "none"},
               named : Resources \cup {None},
               holds : Resources \cup Writings \cup {TornResource}]

\* aside is the backup of an installer or the tombstone of an uninstaller.
Siblings == {"stage", "aside", "failed"} \X Commands
Place == <<"skill", None>>
Names == {Place} \cup Siblings

Installing == {"delegate", "stage", "move", "verify", "sync_moved", "install",
               "sync", "drop", "sync_dropped"}
RollingBack == {"undo", "undo_restore", "undo_drop", "undo_stage"}
Uninstalling == {"u_move", "u_verify", "u_sync", "u_drop", "u_sync_dropped", "u_back"}
Active == Installing \cup RollingBack \cup Uninstalling
AgentPCs == {"idle", "done", "dead"} \cup Active
Answers == {"none", "refused", "already_current", "installed", "uninstalled", "failed"}

ASSUME AgentAssumption ==
         /\ Installers \cap Uninstallers = {} /\ Original \notin Commands
         /\ NoTree \notin SkillTrees /\ None \notin Resources \cup Commands \cup Writings
         /\ TornResource \notin Resources \cup Writings
         /\ Writings \cap (Resources \cup Commands) = {}
         /\ FailPoints \subseteq Active
         /\ MaxEdits \in Nat /\ MaxFailures \in Nat /\ MaxDeaths \in Nat

VARIABLES tree,       \* what lies at every name
          at,
          expected,   \* the ownership each command found, NoTree if none
          committed,  \* its own tree is in place
          moved,      \* the local variable backup is not None
          answer,
          alone,      \* history: nothing else has touched the skill meanwhile
          found,      \* history: what lay there when the command began
          kept,       \* history: writings the user did not overwrite himself
          struck,     \* history: where a system call has failed
          failures, writings, deaths

agentVars == <<tree, at, expected, committed, moved, answer, alone, found, kept,
               struck, failures, writings, deaths>>
local == <<expected, committed, moved>>
agentEnv == <<kept, writings, deaths>>
calm == <<struck, failures>>

Skill == tree[Place]
Stage(p) == <<"stage", p>>
Aside(p) == <<"aside", p>>
Failed(p) == <<"failed", p>>

-----------------------------------------------------------------------------
(* Operators                                                               *)

\* _validate_existing_destination: the marker is one of ours, and names the
\* digest of what the tree holds.
OwnedTree(t, legacy) == /\ t # NoTree
                        /\ \/ t.marker = "current"
                           \/ t.marker = "legacy" /\ legacy
                        /\ t.named = t.holds

\* _validate_existing_destination raises unmanaged or modified.
Rejected(t, legacy) == t # NoTree /\ ~OwnedTree(t, legacy)

Current(p, t) == OwnedTree(t, FALSE) /\ t.holds = Ships[p]

Shipped(p) == [ino |-> p, marker |-> "current", named |-> Ships[p], holds |-> Ships[p]]

Whole(t) == t # NoTree /\ t.marker # "none" /\ t.named = t.holds

TornTree(t) == [t EXCEPT !.holds = TornResource]

-----------------------------------------------------------------------------
(* Control                                                                 *)

Earlier(m) == [ino |-> Original, marker |-> m, named |-> Original, holds |-> Original]
Foreign(i) == [ino |-> i, marker |-> "none", named |-> None, holds |-> i]

AgentInit == /\ \E t \in {NoTree, Earlier("current"), Earlier("legacy"), Foreign(0)} :
                  /\ tree = [n \in Names |-> IF n = Place THEN t ELSE NoTree]
                  /\ kept = IF t = Foreign(0) THEN {0} ELSE {}
             /\ at = [p \in Commands |-> "idle"]
             /\ expected = [p \in Commands |-> NoTree]
             /\ committed = [p \in Commands |-> FALSE]
             /\ moved = [p \in Commands |-> FALSE]
             /\ answer = [p \in Commands |-> "none"]
             /\ alone = [p \in Commands |-> TRUE]
             /\ found = [p \in Commands |-> NoTree]
             /\ struck = {} /\ failures = 0 /\ writings = 0 /\ deaths = 0

Advance(p, from, to) == at[p] = from /\ at' = [at EXCEPT ![p] = to]

End(p, from, a) == Advance(p, from, "done") /\ answer' = [answer EXCEPT ![p] = a]

Put(n, t) == tree' = [tree EXCEPT ![n] = t]

\* os.replace: onto a directory that holds files it fails.
CanRename(from, to) == tree[from] # NoTree /\ tree[to] = NoTree
Rename(from, to) == tree' = [tree EXCEPT ![to] = tree[from], ![from] = NoTree]

\* The failure of the system call at p's program counter.
Fail(p) == /\ failures < MaxFailures /\ failures' = failures + 1
           /\ at[p] \in FailPoints
           /\ struck' = struck \cup {at[p]}

\* Whoever changes the skill disturbs the commands that are on their way.
Disturbed(q) == at[q] \in Active /\ tree'[Place] # Skill
Witnessed(p) == alone' = [q \in Commands |->
                            alone[q] /\ (q = p \/ ~Disturbed(q))]

-----------------------------------------------------------------------------
(* install_agent                                                           *)

BeginCommand(p) == /\ at[p] = "idle"
                   /\ found' = [found EXCEPT ![p] = Skill]
                   /\ expected' = [expected EXCEPT ![p] = Skill]
                   /\ IF p \in Installers
                      THEN IF Rejected(Skill, TRUE) THEN End(p, "idle", "refused")
                           ELSE Advance(p, "idle", "delegate") /\ UNCHANGED answer
                      ELSE IF OwnedTree(Skill, FALSE)
                           THEN Advance(p, "idle", "u_move") /\ UNCHANGED answer
                           ELSE End(p, "idle", "refused")
                   /\ UNCHANGED <<tree, committed, moved, alone, calm, agentEnv>>

\* Graphify's own installation has run, and the skill is validated again.
Delegate(p) ==
  /\ IF Rejected(Skill, TRUE) \/ Skill # expected[p] THEN End(p, "delegate", "refused")
     ELSE IF Current(p, Skill) THEN End(p, "delegate", "already_current")
     ELSE Advance(p, "delegate", "stage") /\ UNCHANGED answer
  /\ UNCHANGED <<tree, local, alone, found, calm, agentEnv>>

\* ... or it has failed.
DelegateFailed(p) == /\ End(p, "delegate", "refused")
                     /\ Fail(p)
                     /\ UNCHANGED <<tree, local, alone, found, agentEnv>>

\* A sibling directory is made, filled, compared with the digest and marked.
MakeStage(p) == /\ Advance(p, "stage", "move")
                /\ Put(Stage(p), Shipped(p))
                /\ UNCHANGED <<local, answer, alone, found, calm, agentEnv>>

StageFailed(p) == /\ Advance(p, "stage", "undo")
                  /\ Put(Stage(p), TornTree(Shipped(p)))
                  /\ Fail(p)
                  /\ UNCHANGED <<local, answer, alone, found, agentEnv>>

\* What is at the destination is renamed away before it is looked at again.
MoveAside(p) == /\ Advance(p, "move", "verify")
                /\ Skill # NoTree /\ expected[p] # NoTree
                /\ Rename(Place, Aside(p))
                /\ moved' = [moved EXCEPT ![p] = TRUE]
                /\ Witnessed(p)
                /\ UNCHANGED <<expected, committed, answer, found, calm, agentEnv>>

NothingToMove(p) == /\ Advance(p, "move", "install")
                    /\ Skill = NoTree /\ expected[p] = NoTree
                    /\ UNCHANGED <<tree, local, answer, alone, found, calm, agentEnv>>

\* It came, or went, since it was validated.
MoveConflict(p) == /\ Advance(p, "move", "undo")
                   /\ (Skill = NoTree) # (expected[p] = NoTree)
                   /\ UNCHANGED <<tree, local, answer, alone, found, calm, agentEnv>>

\* Mutant: what was moved away is not validated.
VerifyTrusted(p) == /\ Advance(p, "verify", "sync_moved")
                    /\ UNCHANGED <<tree, local, answer, alone, found, calm, agentEnv>>

Verify(p) == /\ IF OwnedTree(tree[Aside(p)], TRUE) /\ tree[Aside(p)] = expected[p]
                THEN Advance(p, "verify", "sync_moved")
                ELSE Advance(p, "verify", "undo")
             /\ UNCHANGED <<tree, local, answer, alone, found, calm, agentEnv>>

\* Mutant: the backup goes as soon as it is validated.
SyncMovedDropping(p) == /\ Advance(p, "sync_moved", "install")
                        /\ Put(Aside(p), NoTree)
                        /\ UNCHANGED <<local, answer, alone, found, calm, agentEnv>>

SyncMoved(p) == /\ Advance(p, "sync_moved", "install")
                /\ UNCHANGED <<tree, local, answer, alone, found, calm, agentEnv>>

Install(p) == /\ Advance(p, "install", "sync")
              /\ CanRename(Stage(p), Place)
              /\ Rename(Stage(p), Place)
              /\ committed' = [committed EXCEPT ![p] = TRUE]
              /\ Witnessed(p)
              /\ UNCHANGED <<expected, moved, answer, found, calm, agentEnv>>

\* Something lies there by now.
InstallConflict(p) == /\ Advance(p, "install", "undo")
                      /\ ~CanRename(Stage(p), Place)
                      /\ UNCHANGED <<tree, local, answer, alone, found, calm, agentEnv>>

Sync(p) == /\ IF moved[p] THEN Advance(p, "sync", "drop") /\ UNCHANGED answer
              ELSE End(p, "sync", "installed")
           /\ UNCHANGED <<tree, local, alone, found, calm, agentEnv>>

ClearBackup(p) == /\ Advance(p, "drop", "sync_dropped")
                  /\ Put(Aside(p), NoTree)
                  /\ moved' = [moved EXCEPT ![p] = FALSE]
                  /\ UNCHANGED <<expected, committed, answer, alone, found, calm, agentEnv>>

\* rmtree raises before, or after, it has removed some of the backup.
DropFailed(p) == /\ Advance(p, "drop", "undo")
                 /\ \E t \in {tree[Aside(p)], TornTree(tree[Aside(p)])} : Put(Aside(p), t)
                 /\ Fail(p)
                 /\ UNCHANGED <<local, answer, alone, found, agentEnv>>

SyncDropped(p) == /\ End(p, "sync_dropped", "installed")
                  /\ UNCHANGED <<tree, local, alone, found, calm, agentEnv>>

\* mkdtemp apart, every other failure of _replace_managed_resource.
StepFailed(p) == /\ at[p] \in {"move", "sync_moved", "install", "sync", "sync_dropped"}
                 /\ at' = [at EXCEPT ![p] = "undo"]
                 /\ Fail(p)
                 /\ UNCHANGED <<tree, local, answer, alone, found, agentEnv>>

-----------------------------------------------------------------------------
(* _rollback_resource_replace, and the finally clause                      *)

\* Whatever lies at the destination after the commit is taken for our own.
UndoInstall(p) == /\ Advance(p, "undo", "undo_restore")
                  /\ IF committed[p] /\ Skill # NoTree THEN Rename(Place, Failed(p))
                     ELSE UNCHANGED tree
                  /\ Witnessed(p)
                  /\ UNCHANGED <<local, answer, found, calm, agentEnv>>

\* Mutant: the rollback leaves the backup where it is.
UndoForgotten(p) == /\ Advance(p, "undo_restore", "undo_drop")
                    /\ UNCHANGED <<tree, local, answer, alone, found, calm, agentEnv>>

UndoRestore(p) == /\ Advance(p, "undo_restore", "undo_drop")
                  /\ IF moved[p] /\ CanRename(Aside(p), Place)
                     THEN Rename(Aside(p), Place)
                     ELSE UNCHANGED tree
                  /\ Witnessed(p)
                  /\ UNCHANGED <<local, answer, found, calm, agentEnv>>

UndoDrop(p) == /\ Advance(p, "undo_drop", "undo_stage")
               /\ Put(Failed(p), NoTree)
               /\ UNCHANGED <<local, answer, alone, found, calm, agentEnv>>

UndoStaged(p) == /\ End(p, "undo_stage", "failed")
                 /\ Put(Stage(p), NoTree)
                 /\ UNCHANGED <<local, alone, found, calm, agentEnv>>

\* The rollback gives up where it stands; only the stage is tried once more.
UndoFailed(p) == /\ at[p] \in RollingBack
                 /\ at' = [at EXCEPT ![p] = "done"]
                 /\ answer' = [answer EXCEPT ![p] = "failed"]
                 /\ \E s \in {NoTree, tree[Stage(p)]}, f \in {tree[Failed(p)]}
                      \cup (IF at[p] = "undo_drop" /\ tree[Failed(p)] # NoTree
                            THEN {TornTree(tree[Failed(p)])} ELSE {}) :
                      tree' = [tree EXCEPT ![Stage(p)] = s, ![Failed(p)] = f]
                 /\ Fail(p)
                 /\ UNCHANGED <<local, alone, found, agentEnv>>

-----------------------------------------------------------------------------
(* uninstall_agent                                                         *)

Bury(p) == /\ IF Skill # NoTree
              THEN Advance(p, "u_move", "u_verify") /\ Rename(Place, Aside(p))
              ELSE Advance(p, "u_move", "u_back") /\ UNCHANGED tree
           /\ Witnessed(p)
           /\ UNCHANGED <<local, answer, found, calm, agentEnv>>

VerifyBuried(p) ==
  /\ IF OwnedTree(tree[Aside(p)], FALSE) /\ tree[Aside(p)] = expected[p]
     THEN Advance(p, "u_verify", "u_sync")
     ELSE Advance(p, "u_verify", "u_back")
  /\ UNCHANGED <<tree, local, answer, alone, found, calm, agentEnv>>

SyncBuried(p) == /\ Advance(p, "u_sync", "u_drop")
                 /\ UNCHANGED <<tree, local, answer, alone, found, calm, agentEnv>>

DropBuried(p) == /\ Advance(p, "u_drop", "u_sync_dropped")
                 /\ Put(Aside(p), NoTree)
                 /\ UNCHANGED <<local, answer, alone, found, calm, agentEnv>>

DropBuriedFailed(p) ==
  /\ Advance(p, "u_drop", "u_back")
  /\ \E t \in {tree[Aside(p)], TornTree(tree[Aside(p)])} : Put(Aside(p), t)
  /\ Fail(p)
  /\ UNCHANGED <<local, answer, alone, found, agentEnv>>

SyncUninstalled(p) == /\ End(p, "u_sync_dropped", "uninstalled")
                      /\ UNCHANGED <<tree, local, alone, found, calm, agentEnv>>

UninstallFailed(p) == /\ at[p] \in {"u_move", "u_sync", "u_sync_dropped"}
                      /\ at' = [at EXCEPT ![p] = "u_back"]
                      /\ Fail(p)
                      /\ UNCHANGED <<tree, local, answer, alone, found, agentEnv>>

\* The tombstone goes back if its place is still free.
Unbury(p) == /\ End(p, "u_back", "failed")
             /\ IF CanRename(Aside(p), Place) THEN Rename(Aside(p), Place)
                ELSE UNCHANGED tree
             /\ Witnessed(p)
             /\ UNCHANGED <<local, found, calm, agentEnv>>

UnburyFailed(p) == /\ End(p, "u_back", "failed")
                   /\ Fail(p)
                   /\ UNCHANGED <<tree, local, alone, found, agentEnv>>

-----------------------------------------------------------------------------
(* The environment                                                         *)

UserMay == writings < MaxEdits

UserLeaves(t) == /\ writings' = writings + 1
                 /\ Put(Place, t)
                 /\ kept' = (kept \ (IF Skill = NoTree THEN {} ELSE {Skill.holds}))
                            \cup {t.holds}
                 /\ alone' = [q \in Commands |-> alone[q] /\ at[q] \notin Active]
                 /\ UNCHANGED <<at, local, answer, found, calm, deaths>>

UserAlters == /\ UserMay /\ Skill # NoTree
              /\ UserLeaves([Skill EXCEPT !.holds = writings + 1])

\* He puts a directory of his own there.
UserReplaces == UserMay /\ UserLeaves(Foreign(writings + 1))

Die(p) == /\ deaths < MaxDeaths /\ deaths' = deaths + 1
          /\ at[p] \in Active
          /\ at' = [at EXCEPT ![p] = "dead"]
          /\ UNCHANGED <<tree, local, answer, alone, found, kept, calm, writings>>

-----------------------------------------------------------------------------
(* Specification                                                           *)

Replace(p) == \/ MakeStage(p) \/ StageFailed(p) \/ MoveAside(p) \/ NothingToMove(p)
              \/ MoveConflict(p) \/ Verify(p) \/ SyncMoved(p) \/ Install(p)
              \/ InstallConflict(p) \/ Sync(p) \/ ClearBackup(p) \/ DropFailed(p)
              \/ SyncDropped(p) \/ StepFailed(p)

Rollback(p) == \/ UndoInstall(p) \/ UndoRestore(p) \/ UndoDrop(p)
               \/ UndoStaged(p) \/ UndoFailed(p)

Uninstall(p) == \/ Bury(p) \/ VerifyBuried(p) \/ SyncBuried(p) \/ DropBuried(p)
                \/ DropBuriedFailed(p) \/ SyncUninstalled(p) \/ UninstallFailed(p)
                \/ Unbury(p) \/ UnburyFailed(p)

InstallAgent(p) == Delegate(p) \/ DelegateFailed(p) \/ Replace(p) \/ Rollback(p)

AgentNext == \/ \E p \in Commands : BeginCommand(p) \/ Die(p)
             \/ \E p \in Installers : InstallAgent(p)
             \/ \E p \in Uninstallers : Uninstall(p)
             \/ UserAlters \/ UserReplaces

AgentSpec == AgentInit /\ [][AgentNext]_agentVars

-----------------------------------------------------------------------------
(* Properties                                                              *)

\* Type invariant.
AgentTypeOK == /\ tree \in [Names -> SkillTrees \cup {NoTree}]
               /\ at \in [Commands -> AgentPCs]
               /\ expected \in [Commands -> SkillTrees \cup {NoTree}]
               /\ committed \in [Commands -> BOOLEAN] /\ moved \in [Commands -> BOOLEAN]
               /\ answer \in [Commands -> Answers] /\ alone \in [Commands -> BOOLEAN]
               /\ found \in [Commands -> SkillTrees \cup {NoTree}]
               /\ kept \subseteq Writings /\ struck \subseteq Active
               /\ failures \in 0 .. MaxFailures /\ writings \in 0 .. MaxEdits
               /\ deaths \in 0 .. MaxDeaths

\* What a user wrote into the skill directory, or put in its place, is still
\* somewhere below the skills root, however the commands, their failures and
\* their deaths interleave with him.  A failure after a commit is exempt:
\* the rollback removes whatever lies at the destination by then.
WritingsKept == struck \cap {"sync", "drop", "sync_dropped"} = {} =>
                  \A w \in kept :
                    \E n \in Names : tree[n] # NoTree /\ tree[n].holds = w

\* A command nobody disturbed tells the truth about the skill directory when
\* it ends.  A refusal and a failure leave what it found there; a failure in
\* the removal of the backup, in what follows it, or in the rollback is
\* exempt, see FailureRestores.
AnswersTrue ==
  [][\A p \in Commands : answer'[p] # answer[p] /\ alone'[p] =>
       CASE answer'[p] = "installed" -> tree'[Place] = Shipped(p)
         [] answer'[p] = "already_current" -> Current(p, tree'[Place])
         [] answer'[p] = "uninstalled" -> tree'[Place] = NoTree
         [] answer'[p] = "refused" -> tree'[Place] = found'[p]
         [] OTHER -> \/ tree'[Place] = found'[p]
                     \/ struck' \cap ({"drop", "sync_dropped", "u_drop",
                                       "u_sync_dropped", "u_back"} \cup RollingBack) # {}
    ]_agentVars

\* The plan's "Restore the backup on every caught replace failure": a failed
\* command that nobody disturbed, and whose rollback did not fail, leaves
\* what it found.
FailureRestores ==
  [][\A p \in Commands :
       /\ answer'[p] = "failed" /\ answer[p] # "failed" /\ alone'[p]
       /\ struck' \cap (RollingBack \cup {"u_back"}) = {}
       => tree'[Place] = found'[p]]_agentVars

\* The skill of a command that has ended.
Settled(t) == t # NoTree /\ (t.ino = Original \/ \E q \in Installers :
                                                   t.ino = q /\ answer[q] = "installed")

\* The rollback after a failure to sync the root takes what lies at the
\* destination by then for its own.  An installer that found nothing there has
\* no backup to bring back instead.
RollsBackToBackup == "sync" \in struck =>
                       \A p \in Installers : committed[p] => expected[p] # NoTree

\* An installer that found a settled skill never leaves less than one: whatever dies
\* or fails, a whole skill is in place or in a sibling it can be fetched
\* from, unless an uninstaller has removed one or the user has stepped in.
\* (After a failure to sync the root when the backup is gone, or there was none,
\* the rollback removes the new tree, or a later one; a torn backup counts for
\* nothing.)
KeepsACopy ==
  /\ writings = 0 /\ struck \cap {"drop", "sync_dropped"} = {} /\ RollsBackToBackup
  /\ \A u \in Uninstallers : at[u] \in {"idle", "u_move", "u_verify", "u_sync", "u_drop"}
  /\ \E p \in Installers : answer[p] # "refused" /\ Settled(expected[p])
  => \E n \in Names : n[1] # "stage" /\ Whole(tree[n])

AgentInv == AgentTypeOK /\ KeepsACopy
=============================================================================
