--------------------------- MODULE ReleasePublish ---------------------------
(***************************************************************************)
(* The publish job of a workflow run (workflow_publish) against the one    *)
(* rolling GitHub release of a project's channel, and the consumers that   *)
(* resolve and download a bundle from it (github_artifacts).               *)
(*                                                                         *)
(* The concurrency group of the workflow admits one publish job of a       *)
(* channel at a time, hence one program counter; a job may be of any       *)
(* commit, may be run again, and may die with a request under way.         *)
(* GitHub's side of a request happens or not, whatever the job hears.      *)
(***************************************************************************)
EXTENDS Naturals, FiniteSets

CONSTANTS Commits,
          SourceOf,    \* the safe projection of a commit
          Builds,      \* what building one commit twice may yield
          Consumers,
          Keep,        \* 20, the assets retention leaves
          Page,        \* 100, the assets one listing shows
          None,
          MaxRuns, MaxFaults, MaxDeaths  \* bounds of the environment

Sources == {SourceOf[c] : c \in Commits}
Bundles == [sha : Commits, source : Sources, build : Builds]
Ids == 1 .. MaxRuns

\* The name of an asset spells the project, the digests of its source and
\* projection, and the digest of the archive.  An upload that breaks off
\* leaves an asset of that name without a digest.
Assets == [id : Ids, name : Bundles, whole : BOOLEAN]

Requests == {"repository", "release", "create", "upload", "check", "tag", "target",
             "list", "prune"}
PCs == {"idle", "inspect", "build", "prepare", "handoff", "attest", "verify"} \cup Requests
Outcomes == {"none", "published", "failed"}
ReaderPCs == {"idle", "repository", "release", "download", "commit", "attestation"}

ASSUME ReleaseAssumption ==
         /\ SourceOf \in [Commits -> Sources]
         /\ Keep \in Nat \ {0} /\ Page \in Nat /\ Page > Keep
         /\ None \notin Commits \cup Sources \cup Bundles
         /\ MaxRuns \in Nat /\ MaxFaults \in Nat /\ MaxDeaths \in Nat

VARIABLES made,      \* there is a release
          target,    \* its target_commitish
          tag,       \* the commit its tag points to
          assets,
          attested,  \* bundles that carry an attestation of the workflow
          pc,
          commit,    \* of the run: WorkflowContext.sha
          bundle,    \* the release bundle the run has prepared
          created,   \* get_or_create_release has created it
          mine,      \* the asset the run has verified
          doomed,    \* the assets retention still has to delete
          outcome,   \* of the last run
          reader, wanted, picked, got,  \* what every consumer is at
          uploads,   \* history: assets ever made
          gone,      \* history: the ids of the assets deleted
          floor,     \* history: the newest asset there was for a consumer
          runs, faults, deaths

github == <<made, target, tag, assets, uploads, gone>>
job == <<pc, commit, bundle, created, mine, doomed, outcome>>
reading == <<reader, wanted, picked, got, floor>>
env == <<runs, faults, deaths>>
vars == <<github, attested, job, reading, env>>

-----------------------------------------------------------------------------
(* Operators                                                               *)

Named(b) == {a \in assets : a.name = b}

\* _verify_asset: the name, the size and the digest are the bundle's.
Verified(a) == a.name = bundle /\ a.whole

\* Mutant: the listing is sorted the other way.
OldestOf(S, n) == {a \in S : Cardinality({b \in S : b.id < a.id}) < n}

\* The first n by (created_at, id), descending.
NewestOf(S, n) == {a \in S : Cardinality({b \in S : b.id > a.id}) < n}

\* capture_descriptor_git_checkout: the run's checkout is at its commit, and
\* the bundle is built from it.
OfCheckout == bundle.sha = commit /\ bundle.source = SourceOf[commit]

\* _validate_handoff: the file is the bundle this run has prepared.
HandoffValid == bundle # None /\ bundle.sha = commit

\* gh finds an attestation whose signer, source and commit are the bundle's.
HasAttestation(b) == b \in attested

\* What one page of the listing may show: the whole of it, if it fits.
Pages == IF Cardinality(assets) <= Page THEN {assets}
         ELSE {S \in SUBSET assets : Cardinality(S) = Page}

Carries(c) == \E a \in assets : a.whole /\ a.name.sha = c

-----------------------------------------------------------------------------
(* Control                                                                 *)

Init == /\ made = FALSE /\ target = None /\ tag = None /\ assets = {}
        /\ attested = {} /\ uploads = 0 /\ gone = {}
        /\ pc = "idle" /\ commit = None /\ bundle = None /\ created = FALSE
        /\ mine = 0 /\ doomed = {} /\ outcome = "none"
        /\ reader = [r \in Consumers |-> "idle"]
        /\ wanted = [r \in Consumers |-> None]
        /\ picked = [r \in Consumers |-> 0]
        /\ got = [r \in Consumers |-> None]
        /\ floor = [r \in Consumers |-> 0]
        /\ runs = 0 /\ faults = 0 /\ deaths = 0

Goto(from, to) == pc = from /\ pc' = to

\* The job ends, and leaves the concurrency group.
End(o) == /\ pc' = "idle" /\ outcome' = o
          /\ commit' = None /\ bundle' = None /\ created' = FALSE
          /\ mine' = 0 /\ doomed' = {}

Local == <<commit, bundle, created, mine, doomed, outcome>>
Quiet == UNCHANGED <<github, attested, reading, env>>

\* A request of the job raises: workflow_github_failed.
Fault == faults < MaxFaults /\ faults' = faults + 1 /\ UNCHANGED <<runs, deaths>>

-----------------------------------------------------------------------------
(* Up to the release bundle                                                *)

\* A push, or somebody's re-run of a run of any age.  Inspection and build
\* run on machines of their own before the job enters the group, and touch
\* nothing of the release's: they lose nothing by standing here.
StartJob == /\ pc = "idle" /\ runs < MaxRuns
            /\ runs' = runs + 1
            /\ \E c \in Commits : commit' = c
            /\ pc' = "inspect" /\ outcome' = "none"
            /\ UNCHANGED <<bundle, created, mine, doomed, github, attested, reading,
                           faults, deaths>>

\* run_workflow_inspect: the manifest of the checkout names the release.
Inspect == Goto("inspect", "build") /\ UNCHANGED Local /\ Quiet

\* run_workflow_build: refresh, assess, pack.
Build == /\ Goto("build", "prepare")
         /\ \E b \in Builds :
              bundle' = [sha |-> commit, source |-> SourceOf[commit], build |-> b]
         /\ UNCHANGED <<commit, created, mine, doomed, outcome>> /\ Quiet

\* A manifest without a release, a checkout that moves, an unhealthy graph.
BuildFailed == pc \in {"inspect", "build"} /\ End("failed") /\ Quiet

\* The build's bundle is that of this checkout and of this context, and is
\* packed again with the commit.
Prepare == /\ Goto("prepare", "handoff")
           /\ OfCheckout
           /\ UNCHANGED Local /\ Quiet

WriteHandoff == Goto("handoff", "attest") /\ UNCHANGED Local /\ Quiet

\* Sources that drift, an identity that differs, a cleanup that fails.
PrepareFailed == pc \in {"prepare", "handoff"} /\ End("failed") /\ Quiet

Attest == /\ Goto("attest", "verify")
          /\ attested' = attested \cup {bundle}
          /\ UNCHANGED <<Local, github, reading, env>>

\* The handoff still describes the file, and gh finds the attestation.
VerifyAttestation == /\ Goto("verify", "repository")
                     /\ HandoffValid /\ HasAttestation(bundle)
                     /\ UNCHANGED Local /\ Quiet

VerifyFailed == pc = "verify" /\ End("failed") /\ Quiet

-----------------------------------------------------------------------------
(* publish_release_asset                                                   *)

GetRepository == /\ Goto("repository", "release")
                 /\ HandoffValid
                 /\ UNCHANGED Local /\ Quiet

GetRelease == /\ Goto("release", IF ~made THEN "create"
                                 ELSE IF Named(bundle) = {} THEN "upload" ELSE "check")
              /\ created' = FALSE
              /\ mine' = IF Named(bundle) = {} THEN 0
                         ELSE (CHOOSE a \in Named(bundle) : TRUE).id
              /\ \A a \in Named(bundle) : Verified(a)
              /\ UNCHANGED <<commit, bundle, doomed, outcome>> /\ Quiet

\* remote_asset_mismatch: an upload of this bundle broke off once.
Mismatch == /\ pc = "release"
            /\ \E a \in Named(bundle) : ~Verified(a)
            /\ End("failed") /\ Quiet

MakeRelease == /\ made' = TRUE /\ target' = commit /\ tag' = commit
               /\ UNCHANGED <<assets, uploads, gone>>

CreateRelease == /\ Goto("create", "upload")
                 /\ MakeRelease /\ created' = TRUE
                 /\ UNCHANGED <<commit, bundle, mine, doomed, outcome, attested,
                                reading, env>>

AddAsset(whole) ==
  /\ uploads' = uploads + 1
  /\ assets' = assets \cup {[id |-> uploads + 1, name |-> bundle, whole |-> whole]}
  /\ UNCHANGED <<made, target, tag, gone>>

Upload == /\ Goto("upload", "check")
          /\ AddAsset(TRUE)
          /\ mine' = uploads + 1
          /\ UNCHANGED <<commit, bundle, created, doomed, outcome, attested, reading, env>>

\* Mutant: a release that was found is not moved on to the new commit.
GetAssetUnmoved == /\ Goto("check", "list")
                   /\ UNCHANGED Local /\ Quiet

\* The asset is read back, and only then the release is moved on to it.
GetAsset == /\ Goto("check", IF created THEN "list" ELSE "tag")
            /\ \E a \in assets : a.id = mine /\ Verified(a)
            /\ UNCHANGED Local /\ Quiet

PointTag == tag' = commit /\ UNCHANGED <<made, target, assets, uploads, gone>>

MoveTag == /\ Goto("tag", "target") /\ PointTag
           /\ UNCHANGED <<Local, attested, reading, env>>

Retarget == target' = commit /\ UNCHANGED <<made, tag, assets, uploads, gone>>

UpdateRelease == /\ Goto("target", "list") /\ Retarget
                 /\ UNCHANGED <<Local, attested, reading, env>>

\* Mutant: the asset of a run is not spared.
ListAssetsAll == /\ Goto("list", "prune")
                 /\ \E S \in Pages : doomed' = {a.id : a \in S \ NewestOf(S, Keep)}
                 /\ UNCHANGED <<commit, bundle, created, mine, outcome>> /\ Quiet

ListAssets == /\ Goto("list", "prune")
              /\ \E S \in Pages : doomed' = {a.id : a \in S \ NewestOf(S, Keep)} \ {mine}
              /\ UNCHANGED <<commit, bundle, created, mine, outcome>> /\ Quiet

\* Newest first.
NextDoomed == CHOOSE i \in doomed : \A j \in doomed : j <= i

Delete(i) == /\ assets' = {a \in assets : a.id # i}
             /\ gone' = gone \cup {i}
             /\ UNCHANGED <<made, target, tag, uploads>>

DeleteAsset == /\ pc = "prune" /\ doomed # {}
               /\ Delete(NextDoomed)
               /\ doomed' = doomed \ {NextDoomed}
               /\ UNCHANGED <<pc, commit, bundle, created, mine, outcome, attested,
                              reading, env>>

Publish == /\ pc = "prune" /\ doomed = {}
           /\ End("published") /\ Quiet

-----------------------------------------------------------------------------
(* Failures of the job                                                     *)

\* What the request under way does at GitHub, although its answer is lost.
Effect == CASE pc = "create" -> MakeRelease
            [] pc = "upload" -> AddAsset(TRUE)
            [] pc = "tag" -> PointTag
            [] pc = "target" -> Retarget
            [] pc = "prune" /\ doomed # {} -> Delete(NextDoomed)
            [] OTHER -> UNCHANGED github

BrokenOff == IF pc = "upload" THEN AddAsset(FALSE) ELSE UNCHANGED github

RequestFailed == /\ pc \in Requests
                 /\ Effect \/ BrokenOff \/ UNCHANGED github
                 /\ End("failed") /\ Fault
                 /\ UNCHANGED <<attested, reading>>

\* The runner is lost, or the run is cancelled by hand.
Die == /\ pc # "idle" /\ deaths < MaxDeaths /\ deaths' = deaths + 1
       /\ Effect \/ BrokenOff \/ UNCHANGED github
       /\ End("failed")
       /\ UNCHANGED <<attested, reading, runs, faults>>

-----------------------------------------------------------------------------
(* resolve_and_download, and the attestation check of a pull               *)

Move(r, from, to) == reader[r] = from /\ reader' = [reader EXCEPT ![r] = to]
GiveUp(r) == /\ reader' = [reader EXCEPT ![r] = "idle"]
             /\ wanted' = [wanted EXCEPT ![r] = None]
             /\ picked' = [picked EXCEPT ![r] = 0]
             /\ got' = [got EXCEPT ![r] = None]
             /\ UNCHANGED floor
Still == UNCHANGED <<github, attested, job, env>>

Matching(s) == {a \in assets : a.name.source = s}

Latest(S) == CHOOSE i \in Ids : \E a \in S : a.id = i /\ \A b \in S : b.id <= i

\* A consumer looks for a bundle of the projection it has, once.
StartPull(r) == /\ Move(r, "idle", "repository") /\ got[r] = None
                /\ \E s \in Sources :
                     /\ wanted' = [wanted EXCEPT ![r] = s]
                     /\ floor' = [floor EXCEPT ![r] =
                                    IF \E a \in Matching(s) : a.whole
                                    THEN Latest({a \in Matching(s) : a.whole}) ELSE 0]
                /\ UNCHANGED <<picked, got>> /\ Still

ReadRepository(r) == /\ Move(r, "repository", "release")
                     /\ UNCHANGED <<wanted, picked, got, floor>> /\ Still

\* _select_asset: the newest of the projection, if all of them are sound.
Select(r) == /\ Move(r, "release", "download")
             /\ made /\ \A a \in Matching(wanted[r]) : a.whole
             /\ \E a \in NewestOf(Matching(wanted[r]), 1) :
                  picked' = [picked EXCEPT ![r] = a.id]
             /\ UNCHANGED <<wanted, got, floor>> /\ Still

\* github_asset_not_found, github_asset_digest_invalid.
SelectFailed(r) == /\ reader[r] = "release"
                   /\ \/ ~made \/ Matching(wanted[r]) = {}
                      \/ \E a \in Matching(wanted[r]) : ~a.whole
                   /\ GiveUp(r) /\ Still

\* The archive has the size and the digest the release promised.
Download(r) == /\ Move(r, "download", "commit")
               /\ \E a \in assets : /\ a.id = picked[r]
                                    /\ got' = [got EXCEPT ![r] = a.name]
               /\ UNCHANGED <<wanted, picked, floor>> /\ Still

\* Retention has been faster.
DownloadFailed(r) == /\ reader[r] = "download"
                     /\ \A a \in assets : a.id # picked[r]
                     /\ GiveUp(r) /\ Still

\* The manifest in the archive and the commit it names.
CheckCommit(r) == /\ Move(r, "commit", "attestation")
                  /\ got[r].source = wanted[r]
                  /\ UNCHANGED <<wanted, picked, got, floor>> /\ Still

\* Any request of the consumer's may fail, and so may gh.
PullFailed(r) == reader[r] # "idle" /\ GiveUp(r) /\ Still

VerifyPulled(r) == /\ Move(r, "attestation", "idle")
                   /\ HasAttestation(got[r])
                   /\ UNCHANGED <<wanted, picked, got, floor>> /\ Still

-----------------------------------------------------------------------------
(* Specification                                                           *)

PublishJob == \/ Inspect \/ Build \/ BuildFailed \/ Prepare \/ WriteHandoff
              \/ PrepareFailed \/ Attest \/ VerifyAttestation \/ VerifyFailed
              \/ GetRepository \/ GetRelease \/ Mismatch \/ CreateRelease \/ Upload
              \/ GetAsset \/ MoveTag \/ UpdateRelease \/ ListAssets \/ DeleteAsset
              \/ Publish \/ RequestFailed

Pull(r) == \/ StartPull(r) \/ ReadRepository(r) \/ Select(r) \/ SelectFailed(r)
           \/ Download(r) \/ DownloadFailed(r) \/ CheckCommit(r) \/ VerifyPulled(r)
           \/ PullFailed(r)

Next == StartJob \/ PublishJob \/ Die \/ \E r \in Consumers : Pull(r)

Spec == Init /\ [][Next]_vars

-----------------------------------------------------------------------------
(* Properties                                                              *)

TypeOK == /\ made \in BOOLEAN /\ target \in Commits \cup {None}
          /\ tag \in Commits \cup {None} /\ assets \subseteq Assets
          /\ attested \subseteq Bundles
          /\ pc \in PCs /\ commit \in Commits \cup {None}
          /\ bundle \in Bundles \cup {None} /\ created \in BOOLEAN
          /\ mine \in 0 .. MaxRuns /\ doomed \subseteq Ids /\ outcome \in Outcomes
          /\ reader \in [Consumers -> ReaderPCs]
          /\ wanted \in [Consumers -> Sources \cup {None}]
          /\ picked \in [Consumers -> 0 .. MaxRuns]
          /\ got \in [Consumers -> Bundles \cup {None}]
          /\ floor \in [Consumers -> 0 .. MaxRuns]
          /\ uploads \in 0 .. runs /\ gone \subseteq Ids
          /\ runs \in 0 .. MaxRuns /\ faults \in 0 .. MaxFaults
          /\ deaths \in 0 .. MaxDeaths

\* Retention never deletes one of the Keep newest assets, however old the
\* run's own asset is and whatever page it was shown: a deleted asset leaves
\* Keep newer ones behind, to this day.
NewestKept == \A i \in gone : Cardinality({a \in assets : a.id > i}) >= Keep

\* No two assets have one name, however often an upload is tried again.
NamesUnique == \A a, b \in assets : a.name = b.name => a = b

\* A consumer goes back behind the newest whole bundle of its projection that
\* was there when it set out only if retention has deleted that one since, a
\* bundle with Keep newer ones; and whatever it takes has an attestation.
PullsGoForward == \A r \in Consumers :
                    /\ picked[r] # 0 => picked[r] >= floor[r] \/ floor[r] \in gone
                    /\ got[r] # None => got[r] \in attested

Inv == TypeOK /\ NewestKept /\ NamesUnique /\ PullsGoForward

\* The tag moves only to a commit whose bundle is in the release, whole (the
\* creation of the release apart), and no deletion takes from the tag's
\* commit the bundle it has: whoever follows the tag finds a graph.
TagCarried == [][/\ tag' # tag => tag = None \/ Carries(tag')
                 /\ tag' = tag /\ tag # None /\ Carries(tag) => Carries(tag)']_vars

\* A run that answers success leaves a whole release: its asset is there, tag
\* and target are its commit, and, if one page always showed them all, no more
\* than Keep assets besides its own are left.
PublishedWhole ==
  [][outcome' = "published" /\ outcome # "published" =>
       /\ tag = commit /\ target = commit
       /\ \E a \in assets : a.id = mine /\ Verified(a)
       /\ uploads <= Page => Cardinality(assets) <= Keep + 1]_vars
=============================================================================
