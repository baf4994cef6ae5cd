---------------------------- MODULE BundleDelivery ----------------------------
(***************************************************************************)
(* The artifact commands of one checkout: artifact install of a bundle     *)
(* somebody hands over (bundles.install_local_bundle), artifact pull       *)
(* (github_artifacts.pull_bundle) and artifact pack (bundles.pack_bundle). *)
(*                                                                         *)
(* All of them work under the lifecycle lock for a while and, unlike an    *)
(* install, pull and pack leave it before they are done: they come back    *)
(* for it to record their outcome.  What a command answers when something  *)
(* fails depends on whether it has committed by then.  promote_graph       *)
(* enters as one step (GraphPromotion), a bundle as the generation in it.  *)
(***************************************************************************)
EXTENDS Naturals, FiniteSets

CONSTANTS Installs, Pulls, Packs,   \* processes, by their command
          Files,       \* what the safe projection can be
          Manifests,   \* what .graphify-project.yaml can say
          Builds,      \* generations of one projection
          None, Foreign, \* nothing, and a file of somebody else's
          MaxEdits, MaxFaults, MaxDeaths  \* bounds of the environment

Commands == Installs \cup Pulls \cup Packs
Generations == [files : Files, build : Builds]
Maybe(S) == S \cup {None}

ASSUME DeliveryAssumption ==
         /\ Installs \cap Pulls = {} /\ Installs \cap Packs = {}
         /\ Pulls \cap Packs = {}
         /\ {None, Foreign} \cap (Generations \cup Files \cup Manifests) = {}
         /\ None # Foreign
         /\ MaxEdits \in Nat /\ MaxFaults \in Nat /\ MaxDeaths \in Nat

\* What a command does under the lock.
Installing == {"stage", "parse", "admit", "compare", "promote", "verify", "after"}
Critical == Installing \cup {"exit", "record", "project", "capture", "recheck",
                             "late", "late_blame", "rerecord"}
Waiting == {"wait", "late_wait", "late_blame_wait", "rerecord_wait"}
Over == {"done", "dead"}
PCs == Critical \cup Waiting \cup Over
       \cup {"idle", "inspect", "download", "attest", "authorize",
             "handoff", "leave", "link", "sync", "hash"}
Statuses == {"none", "installed", "already_current", "promoted_but_stale",
             "packed", "output_recovery_required", "raised"}

VARIABLES files, manifest,  \* of the checkout
          graph,            \* the generation that survives a death
          place,            \* what is at graphify-out; None may be torn, too
          record,           \* last_success of state.json: its generation
          output,           \* the bundle at the path packs are told
          registered,       \* _AUTHORIZED_PULLS
          job,              \* what each command is at
          did,              \* history: who has changed the graph or the output
          unaware,          \* history: to whom promote_graph raised all the same
          excused,          \* history: record may differ from graph
          edits, faults, deaths

vars == <<files, manifest, graph, place, record, output, registered, job, did,
          unaware, excused, edits, faults, deaths>>
checkout == <<files, manifest, edits>>
env == <<faults, deaths>>

\* broken: an exception is under way.  committed: promotion_committed of an
\* install, output_committed or output_recovery_required of a pack.
Job == [pc : PCs, staged : Maybe(Files), man : Maybe(Manifests),
        bundle : Maybe(Generations), remote : BOOLEAN, committed : BOOLEAN,
        installed : Maybe(Generations), status : Statuses, broken : BOOLEAN]

Fresh == [pc |-> "idle", staged |-> None, man |-> None, bundle |-> None,
          remote |-> FALSE, committed |-> FALSE, installed |-> None,
          status |-> "none", broken |-> FALSE]

Init == /\ files \in Files /\ manifest \in Manifests
        /\ graph \in Maybe(Generations) /\ place = graph /\ record = graph
        /\ output = None /\ registered = {}
        /\ job = [p \in Commands |-> Fresh]
        /\ did = {} /\ unaware = {} /\ excused = FALSE
        /\ edits = 0 /\ faults = 0 /\ deaths = 0

-----------------------------------------------------------------------------
(* Control                                                                 *)

At(p, s) == job[p].pc = s
Update(r, changes) ==
  [field \in DOMAIN r |-> IF field \in DOMAIN changes THEN changes[field] ELSE r[field]]
Set(p, changes) == job' = [job EXCEPT ![p] = Update(@, changes)]
Goto(p, s) == Set(p, [pc |-> s])
End(p, s) == job' = [job EXCEPT ![p] = Update(Fresh, [pc |-> "done", status |-> s])]
Break(p, s) == Set(p, [pc |-> s, broken |-> TRUE])

Outside == UNCHANGED <<output, registered>>
KeepAll == UNCHANGED <<graph, place, record, output, registered, did, unaware, excused>>
NoFault == UNCHANGED <<checkout, env>>
Fault == faults < MaxFaults /\ faults' = faults + 1 /\ UNCHANGED <<checkout, deaths>>

LockFree == \A q \in Commands : job[q].pc \notin Critical

\* Mutant: refresh.lock is taken shared.
GetLockShared(p) == /\ job[p].pc \in Waiting
                    /\ Goto(p, CASE At(p, "wait") -> IF p \in Packs THEN "project" ELSE "stage"
                                 [] At(p, "late_wait") -> "late"
                                 [] At(p, "late_blame_wait") -> "late_blame"
                                 [] At(p, "rerecord_wait") -> "rerecord")
                    /\ KeepAll /\ NoFault

GetLock(p) == LockFree /\ GetLockShared(p)

\* The exception goes on when nothing is committed.
Refused(p) == IF p \in Installs THEN End(p, "raised") ELSE Break(p, "leave")

\* The lock is not had before the deadline: transaction_locked.
Busy(p) == /\ ~LockFree
           /\ \/ At(p, "wait") /\ IF p \in Installs THEN End(p, "raised") ELSE Break(p, "leave")
              \/ At(p, "late_wait") /\ End(p, IF p \in Packs THEN "output_recovery_required"
                                              ELSE IF job[p].committed THEN "promoted_but_stale"
                                              ELSE "raised")
              \/ At(p, "late_blame_wait") /\ End(p, IF job[p].committed THEN "promoted_but_stale"
                                                    ELSE "raised")
              \/ At(p, "rerecord_wait") /\ End(p, "promoted_but_stale")
           /\ excused' = (excused \/ job[p].pc \in {"late_wait", "rerecord_wait"})
           /\ UNCHANGED <<graph, place, record, output, registered, did, unaware>> /\ NoFault

-----------------------------------------------------------------------------
(* A pull before its install                                               *)

\* An install is of any bundle, were it one made for a release.
StartInstall(p) == /\ p \in Installs /\ At(p, "idle")
                   /\ \E g \in Generations, r \in BOOLEAN :
                        Set(p, [pc |-> "wait", bundle |-> g, remote |-> r])
                   /\ KeepAll /\ NoFault

StartPack(p) == /\ p \in Packs /\ At(p, "idle")
                /\ IF output = None THEN Goto(p, "wait") ELSE End(p, "raised")
                /\ KeepAll /\ NoFault

\* Without the lock: the manifest, and the projection to ask for.
StartPull(p) == /\ p \in Pulls /\ At(p, "idle")
                /\ Set(p, [pc |-> "inspect", man |-> manifest])
                /\ KeepAll /\ NoFault

Inspect(p) == /\ At(p, "inspect")
              /\ Set(p, [pc |-> "download", staged |-> files])
              /\ KeepAll /\ NoFault

\* assert_current_manifest_unchanged, before and after every request.
SameManifest(p) == manifest = job[p].man

Download(p) == /\ At(p, "download") /\ SameManifest(p)
               /\ \E g \in Generations :
                    /\ g.files = job[p].staged
                    /\ Set(p, [pc |-> "attest", bundle |-> g, remote |-> TRUE])
               /\ KeepAll /\ NoFault

Attest(p) == /\ At(p, "attest") /\ SameManifest(p)
             /\ Goto(p, "authorize")
             /\ KeepAll /\ NoFault

\* registered_pull_authorization
Authorize(p) == /\ At(p, "authorize") /\ SameManifest(p)
                /\ registered' = registered \cup {p}
                /\ Goto(p, "wait")
                /\ UNCHANGED <<graph, place, record, output, did, unaware, excused>> /\ NoFault

ManifestChanged(p) == /\ job[p].pc \in {"download", "attest", "authorize"}
                      /\ ~SameManifest(p)
                      /\ Break(p, "leave")
                      /\ KeepAll /\ NoFault

\* A request, gh or a file fails; no asset, no attestation.
PullFailed(p) == /\ job[p].pc \in {"inspect", "download", "attest", "authorize"}
                 /\ Break(p, "leave")
                 /\ KeepAll /\ Fault

-----------------------------------------------------------------------------
(* _install_bundle_scoped                                                  *)

Stage(p) == /\ At(p, "stage")
            /\ IF p \in Pulls => SameManifest(p)
               THEN Set(p, [pc |-> "parse", staged |-> files, man |-> manifest])
               ELSE Refused(p)
            /\ KeepAll /\ NoFault

\* Any bundle may be none, or be written to while it is read.
Parse(p) == /\ At(p, "parse")
            /\ Goto(p, "admit") \/ Break(p, "exit")
            /\ KeepAll /\ NoFault

\* The bundle of a release only with the authorization of a pull, any other
\* only without.
Authorized(p) == job[p].remote = (p \in registered)

\* Project, sources and payloads are those of the checkout: or bundle_stale.
OfCheckout(p) == job[p].bundle.files = job[p].staged

\* Mutant: the authorization is left for the end of the pull to discard.
AdmitUnconsumed(p) ==
  /\ At(p, "admit")
  /\ IF Authorized(p) /\ OfCheckout(p) THEN Goto(p, "compare") ELSE Break(p, "exit")
  /\ KeepAll /\ NoFault

\* The authorization is consumed as it is asked for.
Admit(p) == /\ At(p, "admit")
            /\ registered' = registered \ {p}
            /\ IF Authorized(p) /\ OfCheckout(p) THEN Goto(p, "compare") ELSE Break(p, "exit")
            /\ UNCHANGED <<graph, place, record, output, did, unaware, excused>> /\ NoFault

Current(p) == files = job[p].staged /\ SameManifest(p)

Compare(p) == /\ At(p, "compare")
              /\ IF Current(p) THEN Goto(p, "promote") ELSE Break(p, "exit")
              /\ KeepAll /\ NoFault

\* Mutant: promote_graph is not taken at its word until all is verified.
PromoteUnnoted(p) == /\ At(p, "promote")
                     /\ graph' = job[p].bundle /\ place' = graph'
                     /\ did' = IF graph = graph' THEN did ELSE did \cup {p}
                     /\ Goto(p, "verify")
                     /\ UNCHANGED <<record, unaware, excused>> /\ Outside /\ NoFault

\* An interrupted promotion is recovered first.
Promote(p) == /\ At(p, "promote")
              /\ graph' = job[p].bundle /\ place' = graph'
              /\ did' = IF graph = graph' THEN did ELSE did \cup {p}
              /\ Set(p, [pc |-> "verify", committed |-> graph # graph'])
              /\ UNCHANGED <<record, unaware, excused>> /\ Outside /\ NoFault

\* Where a promotion, its rollback or a recovery may stop.
Halfway(p) == {place, graph, None, job[p].bundle}

\* Rolled back, or left to the recovery of the next promotion; or promote_graph
\* raises when it has committed: its cleanup fails and is rolled back, or its
\* last look at what it installed does.
PromoteFailed(p) ==
  /\ At(p, "promote")
  /\ \/ /\ place' \in Halfway(p)
        /\ UNCHANGED <<graph, did, unaware, excused>>
     \/ /\ graph # job[p].bundle
        /\ graph' \in {None, job[p].bundle} /\ place' = graph'
        /\ did' = did \cup {p} /\ unaware' = unaware \cup {p}
        /\ excused' = TRUE
  /\ Break(p, "exit")
  /\ UNCHANGED record /\ Outside /\ Fault

\* _revalidate_installed_generation swallows whatever goes wrong.
Verify(p) == /\ At(p, "verify")
             /\ \/ Set(p, [pc |-> "after", installed |-> place]) /\ UNCHANGED excused /\ NoFault
                \/ /\ Goto(p, "after") /\ Fault
                   /\ excused' = TRUE
             /\ UNCHANGED <<graph, place, record, did, unaware>> /\ Outside

After(p) == /\ At(p, "after")
            /\ Set(p, [pc |-> "exit",
                       status |-> IF Current(p) /\ job[p].installed = job[p].bundle
                                  THEN IF job[p].committed THEN "installed" ELSE "already_current"
                                  ELSE "promoted_but_stale"])
            /\ KeepAll /\ NoFault

InstallFailed(p) == /\ job[p].pc \in Installing \ {"parse", "promote", "verify"}
                    /\ Break(p, "exit")
                    /\ KeepAll /\ Fault

\* The private directory is removed, the lock is left (but for recording).
Exit(p) ==
  /\ At(p, "exit")
  /\ CASE job[p].broken /\ ~job[p].committed -> Refused(p)
       [] job[p].broken /\ job[p].committed ->
            Set(p, [pc |-> IF p \in Installs THEN "rerecord_wait" ELSE "handoff",
                    broken |-> FALSE, status |-> "promoted_but_stale"])
       [] OTHER -> Goto(p, IF p \in Installs THEN "record" ELSE "handoff")
  /\ registered' = registered \ {p}
  /\ UNCHANGED <<graph, place, record, output, did, unaware, excused>> /\ NoFault

\* The private directory stays.  A committed install that had nothing else
\* to complain of returns as it is, and records nothing.
ExitUnclean(p) ==
  /\ At(p, "exit")
  /\ IF ~job[p].committed THEN Refused(p)
     ELSE Set(p, [pc |-> IF p \in Pulls THEN "handoff"
                         ELSE IF job[p].broken THEN "rerecord_wait" ELSE "done",
                  broken |-> FALSE, status |-> "promoted_but_stale"])
  /\ excused' = (excused \/ (job[p].committed /\ ~job[p].broken /\ p \in Installs))
  /\ registered' = registered \ {p}
  /\ UNCHANGED <<graph, place, record, output, did, unaware>> /\ Fault

-----------------------------------------------------------------------------
(* state.json                                                              *)

\* record_success of what the command has found installed, if anything.
\* record_failure writes last_failure in the same way, and is left out but for
\* what its own failure does to an answer.
Success(p) == record' = IF job[p].installed = None THEN record ELSE job[p].installed

RecordOutcome(p) == /\ At(p, "record")
                    /\ Success(p)
                    /\ End(p, job[p].status)
                    /\ UNCHANGED <<graph, place, did, unaware, excused>> /\ Outside /\ NoFault

\* state.json is not written, or written and not known to be.
RecordFailed(p) == /\ At(p, "record")
                   /\ Success(p) \/ UNCHANGED record
                   /\ IF job[p].committed
                      THEN Set(p, [pc |-> "rerecord_wait", status |-> "promoted_but_stale"])
                      ELSE Refused(p)
                   /\ UNCHANGED <<graph, place, did, unaware, excused>> /\ Outside /\ Fault

\* Whoever writes without having held the lock since its promotion may write
\* over the record of a newer graph.
Overtaken(p) == excused' = (excused \/ record' # graph)

\* _record_commit_state_outcome, quietly.
Rerecord(p) == /\ At(p, "rerecord")
               /\ Success(p) /\ Overtaken(p)
               /\ End(p, "promoted_but_stale")
               /\ UNCHANGED <<graph, place, did, unaware>> /\ Outside /\ NoFault

RerecordFailed(p) == /\ At(p, "rerecord")
                     /\ End(p, "promoted_but_stale")
                     /\ excused' = TRUE
                     /\ UNCHANGED <<graph, place, record, did, unaware>> /\ Outside /\ Fault

-----------------------------------------------------------------------------
(* A pull after its install                                                *)

Handoff(p) == /\ At(p, "handoff")
              /\ Set(p, [pc |-> "leave",
                         status |-> IF SameManifest(p) THEN job[p].status
                                    ELSE "promoted_but_stale"])
              /\ KeepAll /\ NoFault

\* The directory of the command is removed, and with it the bundle a pull has
\* downloaded or the generation a pack has captured; the authorization of a
\* pull that has not come to its install is discarded.
Leave(p) ==
  /\ At(p, "leave")
  /\ CASE ~job[p].broken -> Goto(p, "late_wait")
       [] job[p].broken /\ p \in Packs /\ job[p].committed -> End(p, "output_recovery_required")
       [] OTHER -> End(p, "raised")
  /\ registered' = registered \ {p}
  /\ UNCHANGED <<graph, place, record, output, did, unaware, excused>> /\ NoFault

LeaveUnclean(p) ==
  /\ At(p, "leave")
  /\ IF p \in Packs
     THEN End(p, IF job[p].committed THEN "output_recovery_required" ELSE "raised")
     ELSE IF job[p].committed
          THEN Set(p, [pc |-> "late_wait", status |-> "promoted_but_stale"])
          ELSE End(p, "raised")
  /\ registered' = registered \ {p}
  /\ UNCHANGED <<graph, place, record, output, did, unaware, excused>> /\ Fault

\* _record_pull_outcome, _record_pack_outcome
LateRecord(p) == /\ At(p, "late")
                 /\ Success(p) /\ Overtaken(p)
                 /\ IF job[p].status = "promoted_but_stale" THEN Goto(p, "late_blame_wait")
                    ELSE End(p, job[p].status)
                 /\ UNCHANGED <<graph, place, did, unaware>> /\ Outside /\ NoFault

LateBlame(p) == /\ At(p, "late_blame")
                /\ End(p, job[p].status)
                /\ UNCHANGED <<graph, place, record, did, unaware, excused>> /\ Outside /\ NoFault

LateFailed(p) == /\ job[p].pc \in {"late", "late_blame"}
                 /\ excused' = (excused \/ At(p, "late"))
                 /\ End(p, IF p \in Packs THEN "output_recovery_required"
                           ELSE IF job[p].committed THEN "promoted_but_stale" ELSE "raised")
                 /\ UNCHANGED <<graph, place, record, did, unaware>> /\ Outside /\ Fault

-----------------------------------------------------------------------------
(* pack_bundle                                                             *)

Project(p) == /\ At(p, "project")
              /\ Set(p, [pc |-> "capture", staged |-> files, man |-> manifest])
              /\ KeepAll /\ NoFault

\* A private copy of graphify-out, if it is one of these sources, were it the
\* candidate of a promotion yet to be recovered.
Capture(p) == /\ At(p, "capture")
              /\ IF place # None /\ place.files = job[p].staged
                 THEN Set(p, [pc |-> "recheck", bundle |-> place, installed |-> place])
                 ELSE Break(p, "leave")
              /\ KeepAll /\ NoFault

\* Here the lock is left.
Recheck(p) == /\ At(p, "recheck")
              /\ IF Current(p) THEN Goto(p, "link") ELSE Break(p, "leave")
              /\ KeepAll /\ NoFault

\* The archive is written beside the output and linked to its name.
Link(p) == /\ At(p, "link")
           /\ IF output = None
              THEN output' = job[p].bundle /\ did' = did \cup {p} /\ Goto(p, "sync")
              ELSE Break(p, "leave") /\ UNCHANGED <<output, did>>
           /\ UNCHANGED <<graph, place, record, registered, unaware, excused>> /\ NoFault

Sync(p) == /\ At(p, "sync")
           /\ Set(p, [pc |-> "hash", committed |-> TRUE])
           /\ KeepAll /\ NoFault

\* The link is taken back, or it is said that it could not be.
SyncFailed(p) == /\ At(p, "sync")
                 /\ \/ output' = None /\ did' = did \ {p} /\ Break(p, "leave")
                    \/ /\ output' \in {output, None} /\ UNCHANGED did
                       /\ Set(p, [pc |-> "leave", committed |-> TRUE, broken |-> TRUE])
                 /\ UNCHANGED <<graph, place, record, registered, unaware, excused>> /\ Fault

Hash(p) == /\ At(p, "hash")
           /\ Set(p, [pc |-> "leave", status |-> "packed"])
           /\ KeepAll /\ NoFault

PackFailed(p) == /\ job[p].pc \in {"project", "capture", "recheck", "link", "hash"}
                 /\ Break(p, "leave")
                 /\ KeepAll /\ Fault

-----------------------------------------------------------------------------
(* The environment                                                         *)

Edit == /\ edits < MaxEdits /\ edits' = edits + 1
        /\ \/ files' \in Files \ {files} /\ UNCHANGED manifest
           \/ manifest' \in Manifests \ {manifest} /\ UNCHANGED files
        /\ KeepAll /\ UNCHANGED <<job, env>>

\* Another program writes to the path of the output.
Occupy == /\ edits < MaxEdits /\ edits' = edits + 1
          /\ output = None /\ output' = Foreign
          /\ UNCHANGED <<files, manifest, graph, place, record, registered, job, did,
                         unaware, excused, env>>

Die(p) == /\ job[p].pc \notin Over \cup {"idle"}
          /\ deaths < MaxDeaths /\ deaths' = deaths + 1
          /\ Goto(p, "dead")
          /\ registered' = registered \ {p}
          /\ place' \in IF At(p, "promote") THEN Halfway(p) ELSE {place}
          /\ excused' = TRUE
          /\ UNCHANGED <<graph, record, output, did, unaware, checkout, faults>>

-----------------------------------------------------------------------------
(* Specification                                                           *)

Install(p) == \/ Stage(p) \/ Parse(p) \/ Admit(p) \/ Compare(p) \/ Promote(p) \/ PromoteFailed(p)
              \/ Verify(p) \/ After(p) \/ InstallFailed(p) \/ Exit(p) \/ ExitUnclean(p)
              \/ RecordOutcome(p) \/ RecordFailed(p) \/ Rerecord(p) \/ RerecordFailed(p)

Pull(p) == \/ StartPull(p) \/ Inspect(p) \/ Download(p) \/ Attest(p) \/ Authorize(p)
           \/ ManifestChanged(p) \/ PullFailed(p) \/ Handoff(p) \/ Leave(p)
           \/ LeaveUnclean(p) \/ LateRecord(p) \/ LateBlame(p) \/ LateFailed(p)

Pack(p) == \/ StartPack(p) \/ Project(p) \/ Capture(p) \/ Recheck(p) \/ Link(p)
           \/ Sync(p) \/ SyncFailed(p) \/ Hash(p) \/ PackFailed(p)

Next == \/ Edit \/ Occupy
        \/ \E p \in Commands : \/ StartInstall(p) \/ GetLock(p) \/ Busy(p) \/ Install(p)
                               \/ Pull(p) \/ Pack(p) \/ Die(p)

Spec == Init /\ [][Next]_vars

-----------------------------------------------------------------------------
(* Properties                                                              *)

TypeOK == /\ files \in Files /\ manifest \in Manifests
          /\ graph \in Maybe(Generations) /\ place \in Maybe(Generations)
          /\ record \in Maybe(Generations)
          /\ output \in Maybe(Generations) \cup {Foreign} /\ registered \subseteq Pulls
          /\ job \in [Commands -> Job]
          /\ did \subseteq Commands /\ unaware \subseteq did
          /\ excused \in BOOLEAN
          /\ edits \in 0 .. MaxEdits /\ faults \in 0 .. MaxFaults
          /\ deaths \in 0 .. MaxDeaths

\* An authorization is there from the verification of its bundle until its
\* install has looked at the transport, and no longer, whatever fails: none is
\* ever left for another install of the process to find.
AuthorizationsDrain ==
  \A p \in registered : job[p].pc \in {"wait", "stage", "parse", "admit", "exit", "leave"}

\* A command that raises has changed nothing: it leaves no output, and the
\* graph it found survives (at graphify-out, or where the recovery of the next
\* promotion finds it), unless promote_graph itself had raised after its own
\* commit.  installed and already_current are told apart by whether the command
\* changed the graph, and hold as an install answers; packed, when the output
\* is what the command captured.
AnswersTrue ==
  [][\A p \in Commands :
       /\ job'[p].status # job[p].status \/ job'[p].pc # job[p].pc
       /\ job'[p].pc = "done"
       => CASE job'[p].status = "raised" ->
                 (p \in did => p \in unaware) /\ ~job[p].committed
            [] job'[p].status = "installed" ->
                 p \in did /\ (p \in Installs => graph = job[p].bundle)
            [] job'[p].status = "already_current" ->
                 p \notin did /\ (p \in Installs => graph = job[p].bundle)
            [] job'[p].status = "packed" -> output = job[p].bundle
            [] OTHER -> TRUE]_vars

\* With nobody at work last_success is the generation that survives, unless
\* a pull, a pack or a second attempt at recording came late, or something of
\* that command failed that it has answered for.
RecordFollowsGraph ==
  (\A p \in Commands : job[p].pc \in Over \cup {"idle"}) /\ ~excused => record = graph

Inv == TypeOK /\ AuthorizationsDrain /\ RecordFollowsGraph
=============================================================================
