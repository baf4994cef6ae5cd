-------------------------- MODULE CheckoutLifecycle --------------------------
(***************************************************************************)
(* lifecycle.refresh_project, bundles.install_local_bundle and the install *)
(* of a pull (github_artifacts.pull_bundle) on one checkout: how commands  *)
(* that take seconds to minutes, each under the repository lifecycle lock, *)
(* keep the graph, its build epoch and the recorded outcome in step with   *)
(* sources that are edited all the while, and with one another's deaths.   *)
(*                                                                         *)
(* source stands for everything a command re-reads to find out whether it  *)
(* still works on what it staged: the safe projection and the manifest.    *)
(* promote_graph enters by the steps GraphDirectory allows it.             *)
(***************************************************************************)
EXTENDS Naturals

CONSTANTS Refreshes, Installs, Pulls,  \* processes, by the command they run
          Sources,      \* what a checkout's safe projection can hold
          Contents,     \* what Graphify can make of one and the same source
          MaxEpoch,     \* _MAX_BUILD_EPOCH, 2^63 - 1
          None,         \* no generation
          Absent, Torn, \* see GraphDirectory
          FaultPoints, CrashPoints,        \* where a command may fail, or die
          MaxEdits, MaxCrashes, MaxFaults  \* bounds of the environment

Commands == Refreshes \cup Installs \cup Pulls

\* The epoch is written into the ownership file, and generation_digest is
\* computed without it.
Generations == [source: Sources, content: Contents, epoch: 1..MaxEpoch]

Promoting == {"promote", "install", "commit"}
Critical == {"stage", "build", "existing", "validate", "check"} \cup Promoting
            \cup {"undo", "verify", "return", "record", "rerecord"}
PCs == {"idle", "waiting", "waiting_to_record"} \cup Critical

\* Out of the lock the command promoted under, to record under another.
Late == {"waiting_to_record", "rerecord"}

ASSUME LifecycleAssumption ==
         /\ Refreshes \cap Installs = {} /\ Refreshes \cap Pulls = {}
         /\ Installs \cap Pulls = {}
         /\ Sources # {} /\ MaxEpoch \in Nat \ {0}
         /\ None \notin Generations /\ Absent \notin Generations
         /\ Torn \notin Generations /\ Absent # Torn
         /\ FaultPoints \subseteq PCs /\ CrashPoints \subseteq PCs
         /\ MaxEdits \in Nat /\ MaxCrashes \in Nat /\ MaxFaults \in Nat

VARIABLES source,        \* what the checkout holds
          target, graph, \* graphify-out, and what survives of it
          record,        \* last_success of state.json
          pc,
          staged,        \* the source each command staged
          candidate,     \* the generation it is about to promote
          unchanged,     \* whether a refresh found it installed already
          committed,     \* whether promote_graph told it so
          answer,        \* what it is about to answer
          overtaken,     \* history: who found another's graph before it recorded
          edits, crashes, faults

vars == <<source, target, graph, record, pc, staged, candidate, unchanged,
          committed, answer, overtaken, edits, crashes, faults>>
call == <<staged, candidate, unchanged, committed, answer>>
env == <<source, edits, crashes, faults>>

Directory == INSTANCE GraphDirectory

\* Mutant: the provenance of a graph is not part of its digest.
SameContent(g, h) == /\ g \in Generations /\ h \in Generations
                     /\ g.content = h.content

\* One generation_digest.
Same(g, h) == /\ g \in Generations /\ h \in Generations
              /\ g.source = h.source /\ g.content = h.content

-----------------------------------------------------------------------------
(* Control                                                                 *)

Init == /\ source \in Sources
        /\ target \in {Absent} \cup {g \in Generations : g.epoch = 1}
        /\ graph = target
        /\ record = None
        /\ pc = [p \in Commands |-> "idle"]
        /\ staged = [p \in Commands |-> None]
        /\ candidate = [p \in Commands |-> None]
        /\ unchanged = [p \in Commands |-> FALSE]
        /\ committed = [p \in Commands |-> FALSE]
        /\ answer = [p \in Commands |-> "none"]
        /\ overtaken = {}
        /\ edits = 0 /\ crashes = 0 /\ faults = 0

Goto(p, from, to) == pc[p] = from /\ pc' = [pc EXCEPT ![p] = to]
Keep == UNCHANGED <<target, graph, record>>

Holding(p) == pc[p] \in Critical
LockFree == \A q \in Commands : ~Holding(q)

\* The command ends, and with it the lock.
Leave(p) == /\ pc' = [pc EXCEPT ![p] = "idle"]
            /\ staged' = [staged EXCEPT ![p] = None]
            /\ candidate' = [candidate EXCEPT ![p] = None]
            /\ unchanged' = [unchanged EXCEPT ![p] = FALSE]
            /\ committed' = [committed EXCEPT ![p] = FALSE]
            /\ answer' = [answer EXCEPT ![p] = "none"]

Refuse(p) == Leave(p) /\ Keep

Call(p) == /\ Goto(p, "idle", "waiting")
           /\ Keep /\ UNCHANGED <<call, env>>

\* Mutant: refresh.lock is taken shared.
GetLockShared(p) == /\ \/ Goto(p, "waiting", "stage")
                       \/ Goto(p, "waiting_to_record", "rerecord")
                    /\ Keep /\ UNCHANGED call

GetLock(p) == /\ LockFree
              /\ \/ Goto(p, "waiting", "stage")
                 \/ Goto(p, "waiting_to_record", "rerecord")
              /\ Keep /\ UNCHANGED call

\* The last poll before the deadline finds the lock taken.
Busy(p) == /\ pc[p] \in {"waiting", "waiting_to_record"}
           /\ ~LockFree
           /\ Refuse(p)

-----------------------------------------------------------------------------
(* Up to the promotion                                                     *)

Stage(p) == /\ Goto(p, "stage", IF p \in Refreshes THEN "build" ELSE "validate")
            /\ staged' = [staged EXCEPT ![p] = source]
            /\ Keep /\ UNCHANGED <<candidate, unchanged, committed, answer>>

\* Nothing was edited since the sources were staged.
Current(p) == source = staged[p]

Drifted(p) == /\ pc[p] \in {"build", "check"} /\ ~Current(p)
              /\ Refuse(p)

\* Extraction, clustering and adaptation, and the check after them.
Build(p) == /\ Goto(p, "build", "existing")
            /\ Current(p)
            /\ \E c \in Contents :
                 candidate' = [candidate EXCEPT ![p] =
                                 [source |-> staged[p], content |-> c, epoch |-> 1]]
            /\ Keep /\ UNCHANGED <<staged, unchanged, committed, answer>>

\* Mutant: the epoch of the installed generation is used again.
EpochReused(existing, new) == IF existing = Absent THEN 1 ELSE existing.epoch

Epoch(existing, new) == IF existing = Absent THEN 1
                        ELSE IF Same(existing, new) THEN existing.epoch
                        ELSE existing.epoch + 1

Numbered(g, e) == [source |-> g.source, content |-> g.content, epoch |-> e]

\* graphify-out is not validated as a generation, or its epoch is the last.
ExistingRefused(p) == /\ pc[p] = "existing"
                      /\ target # Torn => Epoch(target, candidate[p]) > MaxEpoch
                      /\ Refuse(p)

\* _current_owned_generation looks at graphify-out before promote_graph has
\* recovered what a dead promotion left there.
Existing(p) == /\ Goto(p, "existing", "check")
               /\ target # Torn
               /\ Epoch(target, candidate[p]) <= MaxEpoch
               /\ candidate' = [candidate EXCEPT ![p] =
                    Numbered(candidate[p], Epoch(target, candidate[p]))]
               /\ unchanged' = [unchanged EXCEPT ![p] = Same(target, candidate[p])]
               /\ Keep /\ UNCHANGED <<staged, committed, answer>>

\* A bundle of exactly the staged source; its epoch is whatever it carries.
Validate(p) == /\ Goto(p, "validate", "check")
               /\ \E g \in Generations :
                    /\ g.source = staged[p]
                    /\ candidate' = [candidate EXCEPT ![p] = g]
               /\ Keep /\ UNCHANGED <<staged, unchanged, committed, answer>>

\* A bundle of another source, or one that is invalid.
ValidateRefused(p) == pc[p] = "validate" /\ Refuse(p)

Check(p) == /\ Goto(p, "check", "promote")
            /\ Current(p)
            /\ Keep /\ UNCHANGED call

Prepare(p) == \/ Stage(p) \/ Drifted(p) \/ Build(p)
              \/ ExistingRefused(p) \/ Existing(p)
              \/ Validate(p) \/ ValidateRefused(p) \/ Check(p)

-----------------------------------------------------------------------------
(* promote_graph                                                           *)

\* A promotion left a journal and graphify-out is not what it should restore.
Interrupted == target # graph /\ ~(target = Torn /\ graph = Absent)

\* Steps of its recovery, or of the rollback of this one.
Repair == /\ Interrupted
          /\ Directory!Tear \/ Directory!Remove \/ (graph # Absent /\ Directory!Restore)
          /\ UNCHANGED record

Recover(p) == /\ pc[p] = "promote" /\ Repair
              /\ UNCHANGED <<pc, call>>

AlreadyInstalled(p) == /\ Goto(p, "promote", "verify")
                       /\ ~Interrupted /\ Same(target, candidate[p])
                       /\ Keep /\ UNCHANGED call

SetAside(p) == /\ Goto(p, "promote", "install")
               /\ ~Interrupted /\ ~Same(target, candidate[p])
               /\ IF target = Absent THEN UNCHANGED <<target, graph>>
                                     ELSE Directory!SetAside
               /\ UNCHANGED <<record, call>>

Install(p) == /\ Goto(p, "install", "commit")
              /\ Directory!Install(candidate[p])
              /\ UNCHANGED <<record, call>>

Commit(p) == /\ Goto(p, "commit", "verify")
             /\ Directory!Commit
             /\ committed' = [committed EXCEPT ![p] = TRUE]
             /\ UNCHANGED <<record, staged, candidate, unchanged, answer>>

Undo(p) == /\ pc[p] = "undo" /\ Repair
           /\ UNCHANGED <<pc, call>>

\* With no graph, a torn directory may have been what was set aside.
Undone(p) == /\ pc[p] = "undo" /\ ~Interrupted
             /\ IF graph = Absent THEN target' \in {target, Torn} ELSE target' = target
             /\ UNCHANGED <<graph, record>>
             /\ Leave(p)

Promote(p) == \/ Recover(p) \/ AlreadyInstalled(p)
              \/ SetAside(p) \/ Install(p) \/ Commit(p)
              \/ Undo(p) \/ Undone(p)

-----------------------------------------------------------------------------
(* After it                                                                *)

\* Mutant: nobody looks at the sources again.
OutcomeAssumed(p) == "fresh"

\* Anything but an unchanged source makes the answer "promoted_but_stale".
Outcome(p) == IF Current(p) THEN "fresh" ELSE "stale"

\* Mutant: an install records like a pull.
RecordLater(p) == IF p \in Refreshes THEN "return" ELSE "waiting_to_record"

\* An install records its outcome, a pull only once it has left the lock.
AfterVerify(p) == IF p \in Refreshes THEN "return"
                  ELSE IF p \in Installs THEN "record" ELSE "waiting_to_record"

VerifyAs(p, outcome) == /\ pc' = [pc EXCEPT ![p] = AfterVerify(p)]
                        /\ answer' = [answer EXCEPT ![p] = outcome]
                        /\ candidate' = [candidate EXCEPT ![p] = target]
                        /\ UNCHANGED <<staged, unchanged, committed>>

\* A refresh promotes if and only if it had not found its candidate installed.
Summed(p) == p \in Refreshes => committed[p] # unchanged[p]

Verify(p) == /\ pc[p] = "verify" /\ Summed(p)
             /\ VerifyAs(p, Outcome(p)) /\ Keep

\* The promotion recovered another graph than the refresh had found.
VerifyRefused(p) == /\ pc[p] = "verify" /\ ~Summed(p)
                    /\ IF committed[p] THEN VerifyAs(p, "stale") ELSE Leave(p)
                    /\ Keep

Return(p) == pc[p] = "return" /\ Refuse(p)

\* Without a generation to name only last_failure is written.
Recorded(p) == IF candidate[p] = None THEN record ELSE candidate[p]

Record(p) == /\ pc[p] \in {"record", "rerecord"}
             /\ record' = Recorded(p)
             /\ Leave(p)
             /\ UNCHANGED <<target, graph>>

Finish(p) == Verify(p) \/ VerifyRefused(p) \/ Return(p) \/ Record(p)

-----------------------------------------------------------------------------
(* The environment                                                         *)

Edit == /\ edits < MaxEdits /\ edits' = edits + 1
        /\ source' \in Sources \ {source}
        /\ UNCHANGED <<target, graph, record, pc, call, overtaken, crashes, faults>>

\* The operation at pc raises, and promote_graph rolls back.
FaultPromoting(p) == /\ pc[p] \in {"install", "commit"}
                     /\ pc' = [pc EXCEPT ![p] = "undo"]
                     /\ Keep /\ UNCHANGED call

\* A refresh that is committed answers "promoted_but_stale".
FaultRefreshed(p) == /\ pc[p] \in {"verify", "return"} /\ committed[p] /\ p \in Refreshes
                     /\ VerifyAs(p, "stale") /\ Keep

\* _revalidate_installed_generation finds nothing it can validate.
FaultUnread(p) == /\ pc[p] = "verify" /\ p \notin Refreshes
                  /\ pc' = [pc EXCEPT ![p] = AfterVerify(p)]
                  /\ answer' = [answer EXCEPT ![p] = "stale"]
                  /\ candidate' = [candidate EXCEPT ![p] = None]
                  /\ Keep /\ UNCHANGED <<staged, unchanged, committed>>

\* A committed install that raises, were it in recording, has left the lock by
\* the time its handler records; a committed pull always does.
FaultInstalled(p) ==
    /\ committed[p] /\ p \notin Refreshes
    /\ \/ /\ pc[p] = "verify" /\ UNCHANGED record
          /\ \E g \in {target, None} : candidate' = [candidate EXCEPT ![p] = g]
       \/ /\ pc[p] = "record" /\ record' \in {record, Recorded(p)}
          /\ UNCHANGED candidate
    /\ pc' = [pc EXCEPT ![p] = "waiting_to_record"]
    /\ answer' = [answer EXCEPT ![p] = "stale"]
    /\ UNCHANGED <<target, graph, staged, unchanged, committed>>

\* Anything else is an error, or, if an install cannot clean up, the answer
\* "promoted_but_stale" without a record.
FaultFails(p) == /\ pc[p] \in Critical \ {"install", "commit"}
                 /\ committed[p] /\ pc[p] \in {"verify", "return", "record"}
                      => p \in Installs /\ pc[p] = "verify"
                 /\ Refuse(p)

Fault(p) == /\ pc[p] \in FaultPoints
            /\ faults < MaxFaults /\ faults' = faults + 1
            /\ \/ FaultPromoting(p) \/ FaultRefreshed(p) \/ FaultUnread(p)
               \/ FaultInstalled(p) \/ FaultFails(p)
            /\ UNCHANGED <<source, edits, crashes>>

Crash(p) == /\ pc[p] \in CrashPoints \ {"idle"}
            /\ crashes < MaxCrashes /\ crashes' = crashes + 1
            /\ Refuse(p)
            /\ UNCHANGED <<source, edits, faults>>

-----------------------------------------------------------------------------
\* History: another graph was committed while these were out of the lock.
Remember == overtaken' = {q \in Commands : /\ pc'[q] \in Late
                                           /\ q \in overtaken \/ graph' # graph}

Work(p) == /\ GetLock(p) \/ Busy(p) \/ Prepare(p) \/ Promote(p) \/ Finish(p)
           /\ UNCHANGED env /\ Remember

TakeLock(p) == GetLock(p) /\ UNCHANGED env /\ Remember

Begin(p) == Call(p) /\ Remember
Mishap(p) == (Fault(p) \/ Crash(p)) /\ Remember

Next == Edit \/ \E p \in Commands : Begin(p) \/ Work(p) \/ Mishap(p)

Spec == Init /\ [][Next]_vars

\* Processes run.  Somebody goes on refreshing, now and then while no command
\* holds the lock, and its polls do not miss the lock whenever it is free.
Fairness == /\ \A p \in Commands : WF_vars(Work(p))
            /\ SF_vars(\E p \in Refreshes : Begin(p) /\ LockFree)
            /\ SF_vars(\E p \in Refreshes : TakeLock(p))
FairSpec == Spec /\ Fairness

-----------------------------------------------------------------------------
(* Properties                                                              *)

\* Type invariant.
TypeOK == /\ source \in Sources
          /\ target \in Generations \cup {Absent, Torn}
          /\ graph \in Generations \cup {Absent}
          /\ record \in Generations \cup {None}
          /\ pc \in [Commands -> PCs]
          /\ staged \in [Commands -> Sources \cup {None}]
          /\ candidate \in [Commands -> Generations \cup {None}]
          /\ unchanged \in [Commands -> BOOLEAN]
          /\ committed \in [Commands -> BOOLEAN]
          /\ answer \in [Commands -> {"none", "fresh", "stale"}]
          /\ overtaken \subseteq Commands
          /\ edits \in 0..MaxEdits /\ crashes \in 0..MaxCrashes
          /\ faults \in 0..MaxFaults

\* "refreshed", "unchanged", "installed" and "already_current" are only told
\* while graphify-out holds a committed graph of what the checkout holds.
FreshAnswers ==
    [][\A p \in Commands : answer[p] = "none" /\ answer'[p] = "fresh" =>
         target = graph /\ graph \in Generations /\ graph.source = source]_vars

\* The commit of a refresh.
Refreshed(p) == pc[p] = "commit" /\ pc'[p] = "verify"

\* Build epochs number the generations: a refresh that replaces one goes on
\* from its epoch.
EpochsGrow ==
    [][\A p \in Refreshes : Refreshed(p) /\ graph # Absent
         => graph'.epoch > graph.epoch]_vars

\* They do as long as no command has died.
EpochsGrowUninterrupted ==
    [][crashes = 0 => \A p \in Refreshes : Refreshed(p) /\ graph # Absent
         => graph'.epoch > graph.epoch]_vars

\* What an install or a pull records is the graph of the checkout, unless
\* another was committed since it left the lock it promoted under; and only a
\* pull, or an install that answers "promoted_but_stale", has left it before.
RecordsFollowGraph ==
    [][\A p \in Installs \cup Pulls :
         pc[p] \in {"record", "rerecord"} /\ record' # record
           => \/ record' = graph
              \/ p \in overtaken /\ (p \in Pulls \/ answer[p] = "stale")]_vars

\* A torn graphify-out is not validated; the last epoch has no successor, and
\* an uncommitted generation's is counted too.
Blocked == \/ target = Torn
           \/ \E g \in {target, graph} \ {Absent} : g.epoch = MaxEpoch

\* Once the sources are left alone, refreshing makes the graph current.
Fresh == graph # Absent /\ graph.source = source
RefreshSucceeds == ~Fresh ~> (Fresh \/ Blocked)

-----------------------------------------------------------------------------
(* The inductive invariant behind them                                     *)

\* One command at a time works on the checkout.
Exclusion == \A p, q \in Commands : Holding(p) /\ Holding(q) => p = q

Replacing == {"install", "commit", "undo"}

\* What a command has in hand.
InHand(p) ==
    /\ pc[p] \in Critical \ {"stage", "rerecord"} => staged[p] \in Sources
    /\ pc[p] \in {"existing", "check", "verify"} \cup Promoting
         => candidate[p] \in Generations /\ candidate[p].source = staged[p]
    /\ pc[p] = "validate" => p \notin Refreshes
    /\ pc[p] = "record" => p \in Installs
    /\ pc[p] \in Late => p \in Pulls \/ (p \in Installs /\ answer[p] = "stale")
    /\ pc[p] = "install" => target = Absent
    /\ pc[p] = "commit" => target = candidate[p]
    /\ pc[p] = "verify" => target = graph /\ Same(graph, candidate[p])
    /\ pc[p] = "return" => target = graph /\ graph = candidate[p] /\ graph \in Generations
    /\ pc[p] = "record" => target = graph /\ candidate[p] \in {graph, None}
    /\ pc[p] \in Late => candidate[p] \in {graph, None} \/ p \in overtaken

\* The epoch of a refresh goes on from the graph it replaces, if it could see it.
EpochFollows(p) == graph = Absent \/ Same(graph, candidate[p])
                   \/ candidate[p].epoch > graph.epoch

Undisturbed ==
    /\ Interrupted => \E p \in Commands : pc[p] \in Replacing
    /\ \A p \in Refreshes :
         /\ pc[p] \in {"check"} \cup Promoting => EpochFollows(p)
         /\ pc[p] \in {"install", "commit"} => ~Same(graph, candidate[p])

\* What EpochsGrowUninterrupted rests on besides: rollbacks do not fail.
ReliableRollback == "undo" \notin FaultPoints

Inv == /\ TypeOK /\ Exclusion
       /\ \A p \in Commands : InHand(p)
       /\ crashes = 0 => Undisturbed
=============================================================================
