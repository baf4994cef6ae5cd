------------------------ MODULE ReleasePublishProofs ------------------------
(***************************************************************************)
(* Machine-checked theorems about ReleasePublish, for any commits,         *)
(* builds, consumers, retention and page size, and any number of runs,     *)
(* lost requests and lost runners.                                         *)
(***************************************************************************)
EXTENDS ReleasePublish, FiniteSetTheorems, WellFoundedInduction, TLAPS

-----------------------------------------------------------------------------
(* Largest and smallest of a set of numbers                                *)

\* A set of naturals that is not empty has a least element.
LEMMA LeastOf == ASSUME NEW S \in SUBSET Nat, S # {}
                 PROVE  \E m \in S : \A x \in S : m <= x
<1> DEFINE Less == {p \in Nat \X Nat : p[1] < p[2]}
<1>1. IsWellFoundedOn(Less, Nat)
  BY NatLessThanWellFounded DEF OpToRel
<1>2. PICK m \in S : \A x \in S : ~(<<x, m>> \in Less)
  <2> HIDE DEF Less
  <2> QED BY <1>1, WFMin
<1>3. ASSUME NEW x \in S PROVE m <= x
  <2>1. x \in Nat /\ m \in Nat OBVIOUS
  <2>2. x < m => <<x, m>> \in Less BY <2>1
  <2> QED BY <1>2, <2>1, <2>2
<1> QED BY <1>3

\* One that is bounded has a greatest element too.
LEMMA GreatestOf == ASSUME NEW n \in Nat, NEW S \in SUBSET (0 .. n), S # {}
                    PROVE  \E m \in S : \A x \in S : x <= m
<1> DEFINE T == {n - x : x \in S}
<1>1. T \in SUBSET Nat /\ T # {}
  <2>1. \A x \in S : x \in Nat /\ n - x \in Nat OBVIOUS
  <2>2. \A t \in T : t \in Nat BY <2>1
  <2> QED BY <2>2
<1>2. PICK t \in T : \A y \in T : t <= y BY <1>1, LeastOf
<1>3. PICK m \in S : t = n - m BY <1>2
<1>4. ASSUME NEW x \in S PROVE x <= m
  <2>1. n - x \in T OBVIOUS
  <2>2. n - m <= n - x BY <1>2, <1>3, <2>1
  <2>3. n \in Nat /\ x \in 0 .. n /\ m \in 0 .. n OBVIOUS
  <2> HIDE DEF T
  <2> QED BY <2>2, <2>3
<1> QED BY <1>4

-----------------------------------------------------------------------------
(* What one step does to the release                                       *)

\* The changes of the release, each with the place of the job it belongs to.
Made == pc = "create" /\ MakeRelease
Added == pc = "upload" /\ \E w \in BOOLEAN : AddAsset(w)
TagMoved == pc = "tag" /\ PointTag
Retargeted == pc = "target" /\ Retarget
Deleted == pc = "prune" /\ doomed # {} /\ Delete(NextDoomed)

GithubChange == \/ UNCHANGED github
                \/ Made \/ Added \/ TagMoved \/ Retargeted \/ Deleted

\* A request that is lost, and a runner that is lost, change the release as
\* the request under way would have, or break an upload off.
LEMMA LostEffect == ASSUME Effect \/ BrokenOff \/ UNCHANGED github
                    PROVE  GithubChange
<1> USE DEF GithubChange, Made, Added, TagMoved, Retargeted, Deleted
<1>1. CASE Effect
  <2>1. CASE pc = "create" BY <1>1, <2>1 DEF Effect
  <2>2. CASE pc = "upload" BY <1>1, <2>2 DEF Effect
  <2>3. CASE pc = "tag" BY <1>1, <2>3 DEF Effect
  <2>4. CASE pc = "target" BY <1>1, <2>4 DEF Effect
  <2>5. CASE pc = "prune" /\ doomed # {} BY <1>1, <2>5 DEF Effect
  <2>6. CASE /\ pc \notin {"create", "upload", "tag", "target"}
             /\ ~(pc = "prune" /\ doomed # {})
    BY <1>1, <2>6 DEF Effect
  <2> QED BY <2>1, <2>2, <2>3, <2>4, <2>5, <2>6
<1>2. CASE BrokenOff BY <1>2 DEF BrokenOff
<1> QED BY <1>1, <1>2

\* Every step of the system changes the release in one of these ways.
LEMMA GithubStep == ASSUME [Next]_vars PROVE GithubChange
<1>1. CASE StartJob BY <1>1 DEF StartJob, GithubChange
<1>2. CASE PublishJob
  <2>1. CASE CreateRelease
    BY <2>1 DEF CreateRelease, Goto, GithubChange, Made
  <2>2. CASE Upload
    BY <2>2 DEF Upload, Goto, GithubChange, Added
  <2>3. CASE MoveTag
    BY <2>3 DEF MoveTag, Goto, GithubChange, TagMoved
  <2>4. CASE UpdateRelease
    BY <2>4 DEF UpdateRelease, Goto, GithubChange, Retargeted
  <2>5. CASE DeleteAsset
    BY <2>5 DEF DeleteAsset, GithubChange, Deleted
  <2>6. CASE RequestFailed
    BY <2>6, LostEffect DEF RequestFailed
  <2>7. CASE Attest BY <2>7 DEF Attest, GithubChange
  <2>8. CASE \/ Inspect \/ Build \/ BuildFailed \/ Prepare \/ WriteHandoff
             \/ PrepareFailed \/ VerifyAttestation \/ VerifyFailed
    BY <2>8 DEF Inspect, Build, BuildFailed, Prepare, WriteHandoff, PrepareFailed,
                VerifyAttestation, VerifyFailed, Quiet, GithubChange
  <2>9. CASE \/ GetRepository \/ GetRelease \/ Mismatch \/ GetAsset \/ ListAssets
             \/ Publish
    BY <2>9 DEF GetRepository, GetRelease, Mismatch, GetAsset, ListAssets, Publish,
                Quiet, GithubChange
  <2> QED BY <1>2, <2>1, <2>2, <2>3, <2>4, <2>5, <2>6, <2>7, <2>8, <2>9
          DEF PublishJob
<1>3. CASE Die BY <1>3, LostEffect DEF Die
<1>4. CASE \E r \in Consumers : Pull(r)
  BY <1>4 DEF Pull, StartPull, ReadRepository, Select, SelectFailed, Download,
              DownloadFailed, CheckCommit, VerifyPulled, PullFailed, Still,
              GithubChange
<1>5. CASE UNCHANGED vars BY <1>5 DEF vars, GithubChange
<1> QED BY <1>1, <1>2, <1>3, <1>4, <1>5 DEF Next

\* Retention deletes what it still has to delete.
LEMMA NextIsDoomed == ASSUME TypeOK, doomed # {} PROVE NextDoomed \in doomed
<1>1. MaxRuns \in Nat /\ doomed \in SUBSET (0 .. MaxRuns)
  BY ReleaseAssumption DEF TypeOK, Ids
<1>2. \E i \in doomed : \A j \in doomed : j <= i
  BY <1>1, GreatestOf
<1> QED BY <1>2 DEF NextDoomed

-----------------------------------------------------------------------------
(* The inductive invariant                                                 *)

BeforeUpload == {"inspect", "build", "prepare", "handoff", "attest", "verify",
                 "repository", "release", "create", "upload"}
Packed == {"prepare", "handoff", "attest", "verify"} \cup Requests
ReadBack == {"tag", "target", "list", "prune"}

\* Assets are told apart by their numbers, no run makes more than one of
\* them, and each has been attested.
Counted == /\ IsFiniteSet(assets) /\ Cardinality(assets) <= uploads
           /\ \A a \in assets : a.id <= uploads /\ a.name \in attested
           /\ \A a, b \in assets : a.id = b.id => a = b
           /\ pc \in BeforeUpload => uploads < runs

\* Without a release there is nothing; and what a run is about to upload has
\* no asset yet.
Released == /\ ~made => assets = {} /\ tag = None
            /\ pc = "create" => ~made
            /\ pc \in {"upload", "check"} \cup ReadBack => made
            /\ pc \in {"create", "upload"} => Named(bundle) = {}

\* What a run carries from step to step is its commit's, and attested before
\* the first request.
Prepared == /\ pc # "idle" => commit \in Commits
            /\ pc \in Packed => bundle \in Bundles /\ bundle.sha = commit
            /\ pc \in Requests => bundle \in attested

\* The release is moved on only once the run's asset has been read back, and
\* retention begins when tag and target have arrived.
Moved == /\ created => /\ pc \in {"upload", "check", "list", "prune"}
                       /\ tag = commit /\ target = commit
         /\ pc \in ReadBack => \E a \in assets : a.id = mine /\ Verified(a)
         /\ pc \in {"target", "list", "prune"} => tag = commit
         /\ pc \in {"list", "prune"} => target = commit

\* What is left when the assets of these numbers are gone.
Surplus(D) == {a \in assets : a.id \notin D}

\* The assets retention still has to delete have Keep newer ones that are to
\* stay, and besides the run's own no more than Keep are to stay.
Retained == /\ doomed # {} => pc = "prune"
            /\ mine \notin doomed
            /\ \A i \in doomed : Cardinality({a \in Surplus(doomed) : a.id > i}) >= Keep
            /\ pc = "prune" /\ uploads <= Page =>
                 Cardinality(Surplus(doomed \cup {mine})) <= Keep

\* The newest asset there was for a consumer is still there, or retention has
\* deleted it, until the consumer selects.
Followed ==
  \A r \in Consumers :
    /\ reader[r] \in {"idle", "repository", "release"} /\ got[r] = None =>
         picked[r] = 0
    /\ reader[r] \in {"repository", "release"} =>
         /\ got[r] = None
         /\ \/ floor[r] \in gone \cup {0}
            \/ \E a \in Matching(wanted[r]) : a.id = floor[r]

JobInv == Released /\ Prepared /\ Moved
IInv == /\ TypeOK /\ NewestKept /\ NamesUnique /\ PullsGoForward
        /\ Counted /\ JobInv /\ Retained /\ Followed

-----------------------------------------------------------------------------
(* Types                                                                   *)

\* The newest of some assets is one of them, and none is newer.
LEMMA LatestIs ==
  ASSUME NEW S \in SUBSET Assets, S # {}
  PROVE  /\ Latest(S) \in Ids
         /\ \E a \in S : a.id = Latest(S) /\ \A b \in S : b.id <= Latest(S)
<1> DEFINE I == {a.id : a \in S}
<1>1. MaxRuns \in Nat /\ I \in SUBSET (0 .. MaxRuns) /\ I # {}
  BY ReleaseAssumption DEF Assets, Ids
<1>2. \E i \in I : \A j \in I : j <= i
  <2> HIDE DEF I
  <2> QED BY <1>1, GreatestOf
<1>3. \E i \in Ids : \E a \in S : a.id = i /\ \A b \in S : b.id <= i
  BY <1>2 DEF Assets, Ids
<1> QED BY <1>3 DEF Latest

GithubTyped == /\ made \in BOOLEAN /\ target \in Commits \cup {None}
               /\ tag \in Commits \cup {None} /\ assets \subseteq Assets
               /\ uploads \in 0 .. runs /\ gone \subseteq Ids
JobTyped == /\ pc \in PCs /\ commit \in Commits \cup {None}
            /\ bundle \in Bundles \cup {None} /\ created \in BOOLEAN
            /\ mine \in 0 .. MaxRuns /\ doomed \subseteq Ids /\ outcome \in Outcomes
            /\ attested \subseteq Bundles
EnvTyped == /\ runs \in 0 .. MaxRuns /\ faults \in 0 .. MaxFaults
            /\ deaths \in 0 .. MaxDeaths
ReadersTyped == /\ reader \in [Consumers -> ReaderPCs]
                /\ wanted \in [Consumers -> Sources \cup {None}]
                /\ picked \in [Consumers -> 0 .. MaxRuns]
                /\ got \in [Consumers -> Bundles \cup {None}]
                /\ floor \in [Consumers -> 0 .. MaxRuns]

\* The four parts make up the type invariant.
LEMMA TypeParts == TypeOK <=> GithubTyped /\ JobTyped /\ EnvTyped /\ ReadersTyped
BY DEF TypeOK, GithubTyped, JobTyped, EnvTyped, ReadersTyped

\* The environment's counters keep within their bounds, and runs never fall.
LEMMA EnvStep == ASSUME TypeOK, [Next]_vars PROVE EnvTyped' /\ runs' >= runs
<1> USE ReleaseAssumption DEF TypeOK, EnvTyped, env
<1>0. CASE UNCHANGED env BY <1>0
<1>1. CASE StartJob BY <1>1 DEF StartJob
<1>2. CASE RequestFailed BY <1>2 DEF RequestFailed, Fault
<1>3. CASE Die BY <1>3 DEF Die
<1>4. CASE PublishJob /\ ~RequestFailed
  <2>1. UNCHANGED env
    BY <1>4 DEF PublishJob, Inspect, Build, BuildFailed, Prepare, WriteHandoff,
       PrepareFailed, Attest, VerifyAttestation, VerifyFailed, GetRepository,
       GetRelease, Mismatch, CreateRelease, Upload, GetAsset, MoveTag,
       UpdateRelease, ListAssets, DeleteAsset, Publish, Quiet
  <2> QED BY <2>1, <1>0
<1>5. CASE \E r \in Consumers : Pull(r)
  <2>1. UNCHANGED env
    BY <1>5 DEF Pull, StartPull, ReadRepository, Select, SelectFailed, Download,
       DownloadFailed, CheckCommit, VerifyPulled, PullFailed, Still
  <2> QED BY <2>1, <1>0
<1>6. CASE UNCHANGED vars BY <1>6, <1>0 DEF vars
<1> QED BY <1>1, <1>2, <1>3, <1>4, <1>5, <1>6 DEF Next, PublishJob

\* The release keeps its type: a run's upload is the first it makes, and what
\* it uploads and names are its bundle and its commit.
LEMMA GithubTypeStep ==
  ASSUME TypeOK, Counted, Prepared, [Next]_vars PROVE GithubTyped'
<1> USE ReleaseAssumption DEF TypeOK, GithubTyped
<1>1. GithubChange BY GithubStep
<1>2. runs \in Nat /\ runs' \in Nat /\ runs' >= runs /\ runs <= MaxRuns /\ MaxRuns \in Nat
  BY EnvStep DEF EnvTyped
<1>3. CASE UNCHANGED github BY <1>2, <1>3 DEF github
<1>4. CASE Made BY <1>2, <1>4 DEF Made, MakeRelease, Prepared
<1>5. CASE Added
  <2>1. PICK w \in BOOLEAN : AddAsset(w) BY <1>5 DEF Added
  <2>2. uploads < runs /\ bundle \in Bundles
    BY <1>5 DEF Added, Counted, Prepared, BeforeUpload, Packed, Requests
  <2>3. [id |-> uploads + 1, name |-> bundle, whole |-> w] \in Assets
    BY <1>2, <2>2 DEF Assets, Ids
  <2> QED BY <1>2, <2>1, <2>2, <2>3 DEF AddAsset
<1>6. CASE TagMoved BY <1>2, <1>6 DEF TagMoved, PointTag, Prepared
<1>7. CASE Retargeted BY <1>2, <1>7 DEF Retargeted, Retarget, Prepared
<1>8. CASE Deleted
  <2>1. NextDoomed \in doomed BY <1>8, NextIsDoomed DEF Deleted
  <2> QED BY <1>2, <1>8, <2>1 DEF Deleted, Delete
<1> QED BY <1>1, <1>3, <1>4, <1>5, <1>6, <1>7, <1>8 DEF GithubChange

\* A job that ends is of the type too.
LEMMA EndTyped == ASSUME TypeOK, NEW o \in Outcomes, End(o), UNCHANGED attested
                  PROVE  JobTyped'
<1>1. pc' = "idle" /\ outcome' \in Outcomes /\ commit' = None /\ bundle' = None
      /\ created' = FALSE /\ mine' = 0 /\ doomed' = {} /\ attested' \subseteq Bundles
  BY DEF End, TypeOK
<1>2. 0 \in 0 .. MaxRuns BY ReleaseAssumption
<1> QED BY <1>1, <1>2 DEF JobTyped, PCs

\* The job keeps its type.
LEMMA JobTypeStep ==
  ASSUME TypeOK, Counted, Prepared, [Next]_vars PROVE JobTyped'
<1> USE ReleaseAssumption
    DEF TypeOK, JobTyped, PCs, Requests, Outcomes, Goto, End, Local, Quiet, job
<1>1. CASE StartJob BY <1>1 DEF StartJob
<1>2. CASE Inspect \/ Prepare \/ WriteHandoff
  BY <1>2 DEF Inspect, Prepare, WriteHandoff
<1>3. CASE Build
  <2>1. commit \in Commits BY <1>3 DEF Build, Prepared
  <2>2. SourceOf[commit] \in Sources BY <2>1 DEF Sources
  <2> QED BY <1>3, <2>1, <2>2 DEF Build, Bundles
<1>4. CASE BuildFailed \/ PrepareFailed \/ VerifyFailed \/ Mismatch \/ Publish
  <2>1. (\E o \in Outcomes : End(o)) /\ UNCHANGED attested
    <3> HIDE DEF End
    <3> QED BY <1>4 DEF BuildFailed, PrepareFailed, VerifyFailed, Mismatch, Publish
  <2> QED BY <2>1, EndTyped
<1>5. CASE Attest BY <1>5 DEF Attest, Prepared, Packed
<1>6. CASE VerifyAttestation \/ GetRepository \/ GetAsset
  BY <1>6 DEF VerifyAttestation, GetRepository, GetAsset
<1>7. CASE GetRelease
  <2>1. mine' \in 0 .. MaxRuns
    <3>1. CASE Named(bundle) = {} BY <1>7, <3>1 DEF GetRelease
    <3>2. CASE Named(bundle) # {}
      <4>1. (CHOOSE a \in Named(bundle) : TRUE) \in Assets
        BY <3>2 DEF Named
      <4> QED BY <1>7, <3>2, <4>1 DEF GetRelease, Assets, Ids
    <3> QED BY <3>1, <3>2
  <2>2. pc' \in PCs /\ created' \in BOOLEAN BY <1>7 DEF GetRelease
  <2> QED BY <1>7, <2>1, <2>2 DEF GetRelease
<1>8. CASE CreateRelease BY <1>8 DEF CreateRelease
<1>9. CASE Upload
  <2>1. uploads < runs BY <1>9 DEF Upload, Counted, BeforeUpload
  <2>2. mine' \in 0 .. MaxRuns BY <1>9, <2>1 DEF Upload
  <2> QED BY <1>9, <2>2 DEF Upload
<1>10. CASE MoveTag \/ UpdateRelease BY <1>10 DEF MoveTag, UpdateRelease
<1>11. CASE ListAssets
  <2>1. PICK S \in Pages : doomed' = {a.id : a \in S \ NewestOf(S, Keep)} \ {mine}
    BY <1>11 DEF ListAssets
  <2>2. S \subseteq Assets BY <2>1 DEF Pages
  <2>3. doomed' \subseteq Ids BY <2>1, <2>2 DEF Assets
  <2> QED BY <1>11, <2>3 DEF ListAssets
<1>12. CASE DeleteAsset BY <1>12 DEF DeleteAsset
<1>13. CASE RequestFailed \/ Die
  <2>1. End("failed") /\ UNCHANGED attested
    <3> HIDE DEF End, TypeOK, JobTyped
    <3> QED BY <1>13 DEF RequestFailed, Die
  <2> QED BY <2>1, EndTyped
<1>14. CASE \E r \in Consumers : Pull(r)
  <2>1. UNCHANGED <<job, attested>>
    BY <1>14 DEF Pull, StartPull, ReadRepository, Select, SelectFailed, Download,
       DownloadFailed, CheckCommit, VerifyPulled, PullFailed, Still
  <2> QED BY <2>1
<1>15. CASE UNCHANGED vars BY <1>15 DEF vars
<1> QED
  BY <1>1, <1>2, <1>3, <1>4, <1>5, <1>6, <1>7, <1>8, <1>9, <1>10, <1>11, <1>12,
     <1>13, <1>14, <1>15 DEF Next, PublishJob

\* The consumers keep theirs: what a consumer picks and takes are assets.
LEMMA ReadersTypeStep == ASSUME TypeOK, [Next]_vars PROVE ReadersTyped'
<1> USE ReleaseAssumption
    DEF TypeOK, ReadersTyped, ReaderPCs, Move, GiveUp, Still
<1>1. CASE UNCHANGED reading BY <1>1 DEF reading
<1>2. CASE StartJob \/ PublishJob \/ Die
  <2>1. UNCHANGED reading
    BY <1>2 DEF StartJob, PublishJob, Die, Inspect, Build, BuildFailed, Prepare,
       WriteHandoff, PrepareFailed, Attest, VerifyAttestation, VerifyFailed,
       GetRepository, GetRelease, Mismatch, CreateRelease, Upload, GetAsset, MoveTag,
       UpdateRelease, ListAssets, DeleteAsset, Publish, RequestFailed, Quiet
  <2> QED BY <2>1, <1>1
<1>3. CASE \E r \in Consumers : Pull(r)
  <2> SUFFICES ASSUME NEW r \in Consumers, Pull(r) PROVE ReadersTyped'
    BY <1>3
  <2>1. CASE StartPull(r)
    <3>1. PICK s \in Sources :
            /\ wanted' = [wanted EXCEPT ![r] = s]
            /\ floor' = [floor EXCEPT ![r] =
                           IF \E a \in Matching(s) : a.whole
                           THEN Latest({a \in Matching(s) : a.whole}) ELSE 0]
      BY <2>1 DEF StartPull
    <3>2. floor'[r] \in 0 .. MaxRuns
      <4>1. CASE \E a \in Matching(s) : a.whole
        <5> DEFINE W == {a \in Matching(s) : a.whole}
        <5>1. W \in SUBSET Assets /\ W # {} BY <4>1 DEF Matching
        <5>2. Latest(W) \in Ids
          <6> HIDE DEF W
          <6> QED BY <5>1, LatestIs
        <5>3. floor'[r] = Latest(W) BY <3>1, <4>1
        <5> QED BY <5>2, <5>3 DEF Ids
      <4>2. CASE ~\E a \in Matching(s) : a.whole BY <3>1, <4>2
      <4> QED BY <4>1, <4>2
    <3> QED BY <2>1, <3>1, <3>2 DEF StartPull
  <2>2. CASE ReadRepository(r) \/ CheckCommit(r) \/ VerifyPulled(r)
    BY <2>2 DEF ReadRepository, CheckCommit, VerifyPulled
  <2>3. CASE Select(r) BY <2>3 DEF Select, NewestOf, Matching, Assets, Ids
  <2>4. CASE SelectFailed(r) \/ DownloadFailed(r) \/ PullFailed(r)
    BY <2>4 DEF SelectFailed, DownloadFailed, PullFailed
  <2>5. CASE Download(r) BY <2>5 DEF Download, Assets
  <2> QED BY <2>1, <2>2, <2>3, <2>4, <2>5 DEF Pull
<1>4. CASE UNCHANGED vars BY <1>4, <1>1 DEF vars
<1> QED BY <1>2, <1>3, <1>4 DEF Next

-----------------------------------------------------------------------------
(* The assets and the job                                                  *)

\* Attestations are never withdrawn, and only Attest adds one.
LEMMA AttestedStep ==
  ASSUME [Next]_vars PROVE attested \subseteq attested'
<1>1. CASE Attest BY <1>1 DEF Attest
<1>2. CASE StartJob \/ (PublishJob /\ ~Attest) \/ Die
  BY <1>2 DEF StartJob, PublishJob, Die, Inspect, Build, BuildFailed, Prepare,
     WriteHandoff, PrepareFailed, VerifyAttestation, VerifyFailed,
     GetRepository, GetRelease, Mismatch, CreateRelease, Upload, GetAsset, MoveTag,
     UpdateRelease, ListAssets, DeleteAsset, Publish, RequestFailed, Quiet
<1>3. CASE \E r \in Consumers : Pull(r)
  BY <1>3 DEF Pull, StartPull, ReadRepository, Select, SelectFailed, Download,
     DownloadFailed, CheckCommit, VerifyPulled, PullFailed, Still
<1>4. CASE UNCHANGED vars BY <1>4 DEF vars
<1> QED BY <1>1, <1>2, <1>3, <1>4 DEF Next, PublishJob

\* A step of a consumer leaves the job, the release and the environment alone.
LEMMA PullStill ==
  ASSUME NEW r \in Consumers, Pull(r)
  PROVE  UNCHANGED <<github, attested, job, env>>
BY DEF Pull, StartPull, ReadRepository, Select, SelectFailed, Download,
   DownloadFailed, CheckCommit, VerifyPulled, PullFailed, Still

\* A run that has not come to its upload has made no asset: uploads stay
\* behind runs.
LEMMA FreshStep ==
  ASSUME TypeOK, Counted, [Next]_vars
  PROVE  pc' \in BeforeUpload => uploads' < runs'
<1> USE DEF BeforeUpload, Goto, End, Local, Quiet, env, github
<1>0. runs \in Nat /\ uploads \in Nat /\ runs' \in Nat /\ uploads <= runs /\ runs' >= runs
  BY ReleaseAssumption, EnvStep DEF TypeOK, EnvTyped
<1>1. CASE StartJob BY <1>0, <1>1 DEF StartJob
<1>2. CASE \/ Inspect \/ Build \/ Prepare \/ WriteHandoff \/ Attest
           \/ VerifyAttestation \/ GetRepository
  BY <1>2 DEF Inspect, Build, Prepare, WriteHandoff, Attest, VerifyAttestation,
              GetRepository, Counted
<1>3. CASE GetRelease BY <1>3 DEF GetRelease, Counted
<1>4. CASE CreateRelease BY <1>4 DEF CreateRelease, MakeRelease, Counted
<1>5. CASE \/ Upload \/ GetAsset \/ MoveTag \/ UpdateRelease \/ ListAssets
           \/ DeleteAsset
  BY <1>5 DEF Upload, GetAsset, MoveTag, UpdateRelease, ListAssets, DeleteAsset
<1>6. CASE \/ BuildFailed \/ PrepareFailed \/ VerifyFailed \/ Mismatch \/ Publish
           \/ RequestFailed \/ Die
  <2>1. pc' = "idle"
    BY <1>6 DEF BuildFailed, PrepareFailed, VerifyFailed, Mismatch, Publish,
                RequestFailed, Die
  <2> QED BY <2>1
<1>7. CASE \E r \in Consumers : Pull(r)
  <2>1. UNCHANGED <<github, job, env>> BY <1>7, PullStill
  <2> QED BY <2>1 DEF job, Counted
<1>8. CASE UNCHANGED vars BY <1>8 DEF vars, job, Counted
<1> QED BY <1>1, <1>2, <1>3, <1>4, <1>5, <1>6, <1>7, <1>8 DEF Next, PublishJob

\* The assets stay as many as were made at most, told apart and attested.
LEMMA CountedStep ==
  ASSUME TypeOK, Counted, Prepared, [Next]_vars PROVE Counted'
<1>0. uploads \in Nat BY ReleaseAssumption DEF TypeOK
<1>1. GithubChange BY GithubStep
<1>2. attested \subseteq attested' BY AttestedStep
<1>3. pc' \in BeforeUpload => uploads' < runs' BY FreshStep
<1>4. CASE UNCHANGED <<assets, uploads>>
  BY <1>2, <1>3, <1>4 DEF Counted
<1>5. CASE Added
  <2>1. PICK w \in BOOLEAN : AddAsset(w) BY <1>5 DEF Added
  <2> DEFINE new == [id |-> uploads + 1, name |-> bundle, whole |-> w]
  <2>2. assets' = assets \cup {new} /\ uploads' = uploads + 1
    BY <2>1 DEF AddAsset
  <2>3. IsFiniteSet(assets') /\ Cardinality(assets') <= uploads'
    <3>1. Cardinality(assets) \in Nat BY FS_CardinalityType DEF Counted
    <3>2. /\ IsFiniteSet(assets')
          /\ Cardinality(assets') = IF new \in assets THEN Cardinality(assets)
                                                     ELSE Cardinality(assets) + 1
      BY <2>2, FS_AddElement DEF Counted
    <3> QED BY <1>0, <2>2, <3>1, <3>2 DEF Counted
  <2>4. bundle \in attested BY <1>5 DEF Added, Prepared, Requests
  <2>5. new.id = uploads + 1 /\ new.name = bundle OBVIOUS
  <2>6. \A a \in assets : a.id \in Nat /\ a.id <= uploads /\ a.name \in attested
    BY ReleaseAssumption DEF Counted, TypeOK, Assets, Ids
  <2>7. \A a \in assets' : a.id <= uploads' /\ a.name \in attested'
    <3> HIDE DEF new
    <3> QED BY <1>0, <1>2, <2>2, <2>4, <2>5, <2>6
  <2>8. \A a, b \in assets' : a.id = b.id => a = b
    <3> HIDE DEF new
    <3> QED BY <1>0, <2>2, <2>5, <2>6 DEF Counted
  <2> QED BY <1>3, <2>3, <2>7, <2>8 DEF Counted
<1>6. CASE Deleted
  <2>1. assets' \in SUBSET assets /\ uploads' = uploads
    BY <1>6 DEF Deleted, Delete
  <2>2. /\ IsFiniteSet(assets') /\ Cardinality(assets') <= Cardinality(assets)
    BY <2>1, FS_Subset DEF Counted
  <2>3. Cardinality(assets) \in Nat /\ Cardinality(assets') \in Nat
    BY <2>2, FS_CardinalityType DEF Counted
  <2> QED BY <1>0, <1>2, <1>3, <2>1, <2>2, <2>3 DEF Counted
<1> QED
  BY <1>1, <1>4, <1>5, <1>6 DEF GithubChange, github, Made, MakeRelease, TagMoved,
     PointTag, Retargeted, Retarget

\* A release is made once, and never without it an asset or a tag.
LEMMA NothingStep ==
  ASSUME TypeOK, Released, [Next]_vars
  PROVE  /\ ~made' => assets' = {} /\ tag' = None
         /\ made => made'
<1>1. GithubChange BY GithubStep
<1>2. CASE UNCHANGED github BY <1>2 DEF github, Released
<1>3. CASE Made BY <1>3 DEF Made, MakeRelease
<1>4. CASE Added BY <1>4 DEF Added, AddAsset, Released
<1>5. CASE TagMoved BY <1>5 DEF TagMoved, PointTag, Released, ReadBack
<1>6. CASE Retargeted BY <1>6 DEF Retargeted, Retarget, Released
<1>7. CASE Deleted BY <1>7 DEF Deleted, Delete, Released
<1> QED BY <1>1, <1>2, <1>3, <1>4, <1>5, <1>6, <1>7 DEF GithubChange

\* The job's steps keep what it relies on from one to the next.
LEMMA JobStep ==
  ASSUME TypeOK, Counted, JobInv, Retained, [Next]_vars PROVE JobInv'
<1> USE ReleaseAssumption DEF TypeOK, JobInv, Goto
<1>0. (~made' => assets' = {} /\ tag' = None) /\ (made => made')
  BY NothingStep
<1>1. CASE StartJob
  <2>1. pc' = "inspect" /\ commit' \in Commits /\ created' = created /\ pc = "idle"
    BY <1>1 DEF StartJob
  <2>2. ~created BY <2>1 DEF Moved
  <2> QED
    BY <1>0, <2>1, <2>2 DEF Released, Prepared, Moved, Packed, Requests, ReadBack
<1>2. CASE \/ BuildFailed \/ PrepareFailed \/ VerifyFailed \/ Mismatch \/ Publish
           \/ RequestFailed \/ Die
  <2>1. pc' = "idle" /\ ~created'
    BY <1>2 DEF BuildFailed, PrepareFailed, VerifyFailed, Mismatch, Publish,
                RequestFailed, Die, End
  <2> QED BY <1>0, <2>1 DEF Released, Prepared, Moved, Packed, Requests, ReadBack
<1> USE DEF Packed, Requests, ReadBack, Local, Quiet, github
<1>3. CASE Inspect \/ WriteHandoff
  BY <1>0, <1>3 DEF Inspect, WriteHandoff, Released, Prepared, Moved
<1>4. CASE Build
  <2>1. commit \in Commits /\ ~created BY <1>4 DEF Build, Prepared, Moved
  <2>2. SourceOf[commit] \in Sources BY <2>1 DEF Sources
  <2>3. bundle' \in Bundles /\ bundle'.sha = commit
    BY <1>4, <2>1, <2>2 DEF Build, Bundles
  <2> QED BY <1>0, <1>4, <2>1, <2>3 DEF Build, Released, Prepared, Moved
<1>5. CASE Prepare BY <1>0, <1>5 DEF Prepare, Released, Prepared, Moved
<1>6. CASE Attest
  <2>1. pc' = "verify" /\ ~created /\ UNCHANGED <<commit, bundle, created>>
    BY <1>6 DEF Attest, Moved
  <2> QED BY <1>0, <1>6, <2>1 DEF Attest, Released, Prepared, Moved
<1>7. CASE VerifyAttestation
  <2>1. pc' = "repository" /\ ~created
    BY <1>7 DEF VerifyAttestation, Moved
  <2> QED
    BY <1>0, <1>7, <2>1 DEF VerifyAttestation, HasAttestation, Released, Prepared, Moved
<1>8. CASE GetRepository
  BY <1>0, <1>8 DEF GetRepository, Released, Prepared, Moved
<1>9. CASE GetRelease
  <2>1. UNCHANGED <<github, attested, commit, bundle>> /\ ~created' /\ pc = "release"
    BY <1>9 DEF GetRelease
  <2>2. \/ pc' = "create" /\ ~made
        \/ pc' = "upload" /\ made /\ Named(bundle) = {}
        \/ pc' = "check" /\ made
    BY <1>9 DEF GetRelease
  <2>3. Released' BY <1>0, <2>1, <2>2 DEF Released, Named
  <2>4. Prepared' BY <2>1, <2>2 DEF Prepared
  <2> QED BY <2>1, <2>2, <2>3, <2>4 DEF Moved
<1>10. CASE CreateRelease
  <2>1. /\ pc = "create" /\ pc' = "upload" /\ made' /\ created'
        /\ tag' = commit /\ target' = commit
        /\ UNCHANGED <<assets, commit, bundle, attested>>
    BY <1>10 DEF CreateRelease, MakeRelease
  <2> QED BY <1>0, <2>1 DEF Released, Prepared, Moved, Named
<1>11. CASE Upload
  <2>1. /\ pc = "upload" /\ pc' = "check"
        /\ UNCHANGED <<made, tag, target, created, commit, bundle, attested>>
    BY <1>11 DEF Upload, AddAsset
  <2> QED BY <1>0, <2>1 DEF Released, Prepared, Moved
<1>12. CASE GetAsset
  <2>1. /\ pc = "check" /\ pc' = IF created THEN "list" ELSE "tag"
        /\ \E a \in assets : a.id = mine /\ Verified(a)
        /\ UNCHANGED <<github, attested, commit, bundle, created, mine>>
    BY <1>12 DEF GetAsset
  <2> QED BY <1>0, <2>1 DEF Released, Prepared, Moved, Verified
<1>13. CASE MoveTag
  <2>1. /\ pc = "tag" /\ pc' = "target" /\ tag' = commit
        /\ UNCHANGED <<made, assets, target, created, commit, bundle, attested, mine>>
    BY <1>13 DEF MoveTag, PointTag
  <2> QED BY <1>0, <2>1 DEF Released, Prepared, Moved, Verified
<1>14. CASE UpdateRelease
  <2>1. /\ pc = "target" /\ pc' = "list" /\ target' = commit
        /\ UNCHANGED <<made, assets, tag, created, commit, bundle, attested, mine>>
    BY <1>14 DEF UpdateRelease, Retarget
  <2> QED BY <1>0, <2>1 DEF Released, Prepared, Moved, Verified
<1>15. CASE ListAssets
  <2>1. /\ pc = "list" /\ pc' = "prune"
        /\ UNCHANGED <<github, created, commit, bundle, attested, mine>>
    BY <1>15 DEF ListAssets
  <2> QED BY <1>0, <2>1 DEF Released, Prepared, Moved, Verified
<1>16. CASE DeleteAsset
  <2>1. /\ pc = "prune" /\ pc' = "prune"
        /\ assets' = {a \in assets : a.id # NextDoomed}
        /\ UNCHANGED <<made, tag, target, created, commit, bundle, attested, mine>>
    BY <1>16 DEF DeleteAsset, Delete
  <2>2. NextDoomed # mine
    BY <1>16, NextIsDoomed DEF DeleteAsset, Retained
  <2> QED BY <1>0, <2>1, <2>2 DEF Released, Prepared, Moved, Verified
<1>17. CASE UNCHANGED <<github, attested, job>>
  BY <1>0, <1>17 DEF job, Released, Prepared, Moved, Named, Verified
<1>18. CASE \E r \in Consumers : Pull(r) BY <1>17, <1>18, PullStill
<1>19. CASE UNCHANGED vars BY <1>17, <1>19 DEF vars
<1> HIDE DEF JobInv, TypeOK
<1> QED
  BY <1>1, <1>2, <1>3, <1>4, <1>5, <1>6, <1>7, <1>8, <1>9, <1>10, <1>11, <1>12,
     <1>13, <1>14, <1>15, <1>16, <1>18, <1>19 DEF Next, PublishJob

-----------------------------------------------------------------------------
(* Retention                                                               *)

\* Part of a finite set is finite and has no more elements.
LEMMA PartOf ==
  ASSUME NEW T, IsFiniteSet(T), NEW S \in SUBSET T
  PROVE  /\ IsFiniteSet(S) /\ Cardinality(S) \in Nat /\ Cardinality(T) \in Nat
         /\ Cardinality(S) <= Cardinality(T)
BY FS_Subset, FS_CardinalityType

\* Of any assets at most n are among the newest n.
LEMMA NewestBounded ==
  ASSUME NEW S \in SUBSET Assets, IsFiniteSet(S), NEW n \in Nat,
         \A a, b \in S : a.id = b.id => a = b
  PROVE  Cardinality(NewestOf(S, n)) <= n
<1> DEFINE N == NewestOf(S, n)
           I == {a.id : a \in N}
<1>0. N \in SUBSET S BY DEF NewestOf
<1>1. CASE N = {} BY <1>1, FS_EmptySet
<1>2. CASE N # {}
  <2>1. I \in SUBSET Nat /\ I # {} BY <1>0, <1>2, ReleaseAssumption DEF Assets, Ids
  <2>2. PICK i \in I : \A j \in I : i <= j
    <3> HIDE DEF I
    <3> QED BY <2>1, LeastOf
  <2>3. PICK m \in N : m.id = i BY <2>2
  <2> DEFINE L == {b \in S : b.id > m.id}
  <2>4. m \in S /\ Cardinality(L) < n
    BY <1>0, <2>3 DEF NewestOf
  <2>5. N \in SUBSET (L \cup {m})
    <3>1. ASSUME NEW a \in N PROVE a \in L \cup {m}
      <4>1. a \in S /\ m.id <= a.id BY <1>0, <2>2, <2>3
      <4>2. a.id \in Nat /\ m.id \in Nat
        BY <2>4, <4>1, ReleaseAssumption DEF Assets, Ids
      <4>3. CASE a.id = m.id BY <2>4, <4>1, <4>3
      <4>4. CASE a.id > m.id BY <4>1, <4>4
      <4> HIDE DEF L, N
      <4> QED BY <4>1, <4>2, <4>3, <4>4
    <3> HIDE DEF L, N
    <3> QED BY <3>1
  <2>6. IsFiniteSet(L) /\ Cardinality(L) \in Nat BY PartOf
  <2>7. /\ IsFiniteSet(L \cup {m})
        /\ Cardinality(L \cup {m}) <= Cardinality(L) + 1
    <3> HIDE DEF L, N
    <3>1. IsFiniteSet(L \cup {m}) BY <2>6, FS_AddElement
    <3>2. Cardinality(L \cup {m}) = IF m \in L THEN Cardinality(L)
                                               ELSE Cardinality(L) + 1
      BY <2>6, FS_AddElement
    <3> QED BY <2>6, <3>1, <3>2
  <2>8. /\ Cardinality(N) \in Nat /\ Cardinality(L \cup {m}) \in Nat
        /\ Cardinality(N) <= Cardinality(L \cup {m})
    <3> HIDE DEF L, N
    <3> QED BY <2>5, <2>7, PartOf
  <2>9. Cardinality(N) <= n
    <3> HIDE DEF L, N
    <3> QED BY <2>4, <2>6, <2>7, <2>8
  <2> QED BY <2>9
<1> QED BY <1>1, <1>2

\* Each of the others has n newer ones among the newest n.
LEMMA NewestSuffice ==
  ASSUME NEW S \in SUBSET Assets, IsFiniteSet(S), NEW n \in Nat,
         NEW a \in S \ NewestOf(S, n)
  PROVE  Cardinality({b \in NewestOf(S, n) : b.id > a.id}) >= n
<1> DEFINE R == S \ NewestOf(S, n)
           I == {b.id : b \in R}
<1>1. I \in SUBSET (0 .. MaxRuns) /\ I # {} /\ MaxRuns \in Nat
  BY ReleaseAssumption DEF Assets, Ids
<1>2. PICK i \in I : \A j \in I : j <= i
  <2> HIDE DEF I
  <2> QED BY <1>1, GreatestOf
<1>3. PICK m \in R : m.id = i BY <1>2
<1> DEFINE A == {b \in S : b.id > m.id}
           B == {b \in NewestOf(S, n) : b.id > a.id}
<1>4. Cardinality(A) \in Nat /\ Cardinality(A) >= n
  <2>1. m \in S /\ ~(Cardinality(A) < n) BY DEF NewestOf
  <2>2. Cardinality(A) \in Nat BY PartOf
  <2> HIDE DEF A
  <2> QED BY <2>1, <2>2
<1>5. A \in SUBSET B
  <2>1. ASSUME NEW b \in A PROVE b \in B
    <3>1. b \in S /\ b.id \in Nat /\ m.id \in Nat /\ a.id \in Nat /\ b.id > m.id
      BY ReleaseAssumption DEF Assets, Ids
    <3>2. a.id <= m.id BY <1>2, <1>3
    <3>3. b \notin R
      <4>1. SUFFICES ASSUME b \in R PROVE FALSE OBVIOUS
      <4>2. b.id <= m.id BY <1>2, <1>3, <4>1
      <4> QED BY <3>1, <4>2
    <3> QED BY <3>1, <3>2, <3>3
  <2> HIDE DEF A, B
  <2> QED BY <2>1
<1>6. B \in SUBSET S BY DEF NewestOf
<1>7. IsFiniteSet(B) /\ Cardinality(B) \in Nat BY <1>6, PartOf
<1>8. Cardinality(A) <= Cardinality(B)
  <2> HIDE DEF A, B
  <2> QED BY <1>5, <1>7, PartOf
<1> QED
  <2> HIDE DEF A
  <2> QED BY <1>4, <1>7, <1>8

\* What retention is shown is some of the assets, and all of them when no more
\* were ever made than a page shows.
LEMMA PageOf ==
  ASSUME TypeOK, Counted, NEW S \in Pages
  PROVE  /\ S \in SUBSET assets /\ IsFiniteSet(S)
         /\ uploads <= Page => S = assets
<1>1. Cardinality(assets) \in Nat /\ uploads \in Nat /\ Page \in Nat
  BY ReleaseAssumption, FS_CardinalityType DEF TypeOK, Counted
<1>2. S \in SUBSET assets BY DEF Pages
<1>3. IsFiniteSet(S) BY <1>2, PartOf DEF Counted
<1>4. ASSUME uploads <= Page PROVE S = assets
  <2>1. Cardinality(assets) <= Page BY <1>1, <1>4 DEF Counted
  <2> QED BY <2>1 DEF Pages
<1> QED BY <1>2, <1>3, <1>4

\* Choosing what to delete spares Keep newer assets for each, the run's own,
\* and no more than Keep others.
LEMMA ListAssetsRetains ==
  ASSUME TypeOK, Counted, ListAssets PROVE Retained'
<1>1. PICK S \in Pages : doomed' = {a.id : a \in S \ NewestOf(S, Keep)} \ {mine}
  BY DEF ListAssets
<1>2. UNCHANGED <<assets, uploads, mine>> /\ pc' = "prune"
  BY DEF ListAssets, Quiet, github, Goto
<1>3. S \in SUBSET assets /\ IsFiniteSet(S) /\ (uploads <= Page => S = assets)
  BY PageOf
<1>4. S \in SUBSET Assets /\ \A a, b \in S : a.id = b.id => a = b
  BY <1>3 DEF TypeOK, Counted
<1>5. Keep \in Nat BY ReleaseAssumption
<1> DEFINE N == NewestOf(S, Keep)
<1>6. N \in SUBSET S BY DEF NewestOf
<1>7. \A b \in N : b.id \notin doomed' BY <1>1, <1>4, <1>6
<1>8. ASSUME NEW i \in doomed'
      PROVE  Cardinality({a \in Surplus(doomed)' : a.id > i}) >= Keep
  <2>1. PICK a \in S \ N : a.id = i BY <1>1
  <2> DEFINE A == {b \in N : b.id > a.id}
             B == {b \in Surplus(doomed)' : b.id > i}
  <2>2. Cardinality(A) >= Keep BY <1>3, <1>4, <1>5, NewestSuffice
  <2>3. A \in SUBSET B BY <1>2, <1>3, <1>6, <1>7, <2>1 DEF Surplus
  <2>4. B \in SUBSET assets BY <1>2 DEF Surplus
  <2>5. IsFiniteSet(B) BY <2>4, PartOf DEF Counted
  <2>6. Cardinality(A) \in Nat /\ Cardinality(B) \in Nat /\ Cardinality(A) <= Cardinality(B)
    <3> HIDE DEF A, B
    <3> QED BY <2>3, <2>5, PartOf
  <2>7. Cardinality(B) >= Keep
    <3> HIDE DEF A, B
    <3> QED BY <1>5, <2>2, <2>6
  <2> QED BY <2>7
<1>9. ASSUME uploads' <= Page
      PROVE  Cardinality(Surplus(doomed \cup {mine})') <= Keep
  <2> DEFINE R == Surplus(doomed \cup {mine})'
  <2>1. S = assets BY <1>2, <1>3, <1>9
  <2>2. R \in SUBSET N
    <3>1. ASSUME NEW a \in R PROVE a \in N
      <4>1. a \in S /\ a.id \notin doomed' /\ a.id # mine BY <1>2, <2>1 DEF Surplus
      <4> QED BY <1>1, <4>1
    <3> HIDE DEF R, N
    <3> QED BY <3>1
  <2>3. Cardinality(N) <= Keep BY <1>3, <1>4, <1>5, NewestBounded
  <2>4. IsFiniteSet(N)
    <3> HIDE DEF N
    <3> QED BY <1>3, <1>6, PartOf
  <2>5. /\ Cardinality(R) \in Nat /\ Cardinality(N) \in Nat
        /\ Cardinality(R) <= Cardinality(N)
    <3> HIDE DEF R, N
    <3> QED BY <2>2, <2>4, PartOf
  <2>6. Cardinality(R) <= Keep
    <3> HIDE DEF R, N
    <3> QED BY <1>5, <2>3, <2>5
  <2> QED BY <2>6
<1>10. mine' \notin doomed' BY <1>1, <1>2
<1> QED BY <1>2, <1>8, <1>9, <1>10 DEF Retained

\* A deletion takes its asset from those that were to go, and leaves those
\* that are to stay.
LEMMA DeleteRetains ==
  ASSUME TypeOK, Retained, DeleteAsset PROVE Retained'
<1>1. NextDoomed \in doomed BY NextIsDoomed DEF DeleteAsset
<1>2. /\ assets' = {a \in assets : a.id # NextDoomed} /\ doomed' = doomed \ {NextDoomed}
      /\ UNCHANGED <<mine, uploads>> /\ pc = "prune" /\ pc' = "prune"
  BY DEF DeleteAsset, Delete
<1>3. Surplus(doomed)' = Surplus(doomed) BY <1>1, <1>2 DEF Surplus
<1>4. Surplus(doomed \cup {mine})' = Surplus(doomed \cup {mine})
  BY <1>1, <1>2 DEF Surplus, Retained
<1> QED BY <1>2, <1>3, <1>4 DEF Retained

\* Whatever else happens, what was to stay stays until the job has ended.
LEMMA RetainedStep ==
  ASSUME TypeOK, Counted, JobInv, Retained, [Next]_vars PROVE Retained'
<1> USE DEF Goto
<1>1. CASE ListAssets BY <1>1, ListAssetsRetains
<1>2. CASE DeleteAsset BY <1>2, DeleteRetains
<1>3. CASE doomed' = {} /\ pc' # "prune" BY <1>3 DEF Retained
<1>4. CASE \/ BuildFailed \/ PrepareFailed \/ VerifyFailed \/ Mismatch \/ Publish
           \/ RequestFailed \/ Die
  <2>1. doomed' = {} /\ pc' # "prune"
    BY <1>4 DEF BuildFailed, PrepareFailed, VerifyFailed, Mismatch, Publish,
                RequestFailed, Die, End
  <2> QED BY <2>1, <1>3
<1>5. CASE \/ StartJob \/ Inspect \/ Build \/ Prepare \/ WriteHandoff \/ Attest
           \/ VerifyAttestation \/ GetRepository \/ GetRelease \/ CreateRelease
           \/ Upload \/ GetAsset \/ MoveTag \/ UpdateRelease
  <2>1. pc # "prune" /\ pc' # "prune" /\ doomed' = doomed
    BY <1>5 DEF StartJob, Inspect, Build, Prepare, WriteHandoff, Attest,
       VerifyAttestation, GetRepository, GetRelease, CreateRelease, Upload, GetAsset,
       MoveTag, UpdateRelease, Local
  <2> QED BY <2>1, <1>3 DEF Retained
<1>6. CASE UNCHANGED <<github, job>>
  BY <1>6 DEF github, job, Retained, Surplus
<1>7. CASE \E r \in Consumers : Pull(r) BY <1>6, <1>7, PullStill
<1>8. CASE UNCHANGED vars BY <1>6, <1>8 DEF vars
<1> QED BY <1>1, <1>2, <1>4, <1>5, <1>7, <1>8 DEF Next, PublishJob

\* Whatever is deleted, Keep newer ones are left, and stay.
LEMMA NewestKeptStep ==
  ASSUME TypeOK, Counted, Counted', Retained, NewestKept, [Next]_vars
  PROVE  NewestKept'
<1>0. Keep \in Nat BY ReleaseAssumption
<1>1. GithubChange BY GithubStep
<1>2. CASE UNCHANGED <<assets, gone>> BY <1>2 DEF NewestKept
<1>3. CASE Added
  <2>1. assets \subseteq assets' /\ gone' = gone BY <1>3 DEF Added, AddAsset
  <2>2. ASSUME NEW i \in gone' PROVE Cardinality({a \in assets' : a.id > i}) >= Keep
    <3> DEFINE A == {a \in assets : a.id > i}
               B == {a \in assets' : a.id > i}
    <3>1. Cardinality(A) >= Keep BY <2>1, <2>2 DEF NewestKept
    <3>2. A \in SUBSET B BY <2>1
    <3>3. IsFiniteSet(B) BY PartOf DEF Counted
    <3>4. Cardinality(A) \in Nat /\ Cardinality(B) \in Nat /\ Cardinality(A) <= Cardinality(B)
      <4> HIDE DEF A, B
      <4> QED BY <3>2, <3>3, PartOf
    <3> HIDE DEF A
    <3> QED BY <1>0, <3>1, <3>4
  <2> QED BY <2>2 DEF NewestKept
<1>4. CASE Deleted
  <2> DEFINE k == NextDoomed
  <2>1. k \in doomed BY <1>4, NextIsDoomed DEF Deleted
  <2>2. assets' = {a \in assets : a.id # k} /\ gone' = gone \cup {k}
    BY <1>4 DEF Deleted, Delete
  <2>3. k \in Nat /\ (\A i \in gone : i \in Nat) /\ (\A a \in assets : a.id \in Nat)
    BY <2>1, ReleaseAssumption DEF TypeOK, Assets, Ids
  <2> HIDE DEF k
  <2>4. ASSUME NEW i \in gone' PROVE Cardinality({a \in assets' : a.id > i}) >= Keep
    <3> DEFINE B == {a \in assets' : a.id > i}
    <3>1. CASE i <= k
      <4> DEFINE A == {a \in Surplus(doomed) : a.id > k}
      <4>1. Cardinality(A) >= Keep BY <2>1 DEF Retained
      <4>2. A \in SUBSET B BY <2>1, <2>2, <2>3, <3>1 DEF Surplus
      <4>3. IsFiniteSet(B) BY PartOf DEF Counted
      <4>4. /\ Cardinality(A) \in Nat /\ Cardinality(B) \in Nat
            /\ Cardinality(A) <= Cardinality(B)
        <5> HIDE DEF A, B
        <5> QED BY <4>2, <4>3, PartOf
      <4> HIDE DEF A
      <4> QED BY <1>0, <4>1, <4>4
    <3>2. CASE i > k
      <4>1. i \in gone BY <2>2, <2>3, <3>2
      <4>2. B = {a \in assets : a.id > i} BY <2>2, <2>3, <3>2, <4>1
      <4> QED BY <4>1, <4>2 DEF NewestKept
    <3>3. i \in Nat BY <2>2, <2>3
    <3> QED BY <2>3, <3>1, <3>2, <3>3
  <2> QED BY <2>4 DEF NewestKept
<1> QED
  BY <1>1, <1>2, <1>3, <1>4 DEF GithubChange, github, Made, MakeRelease, TagMoved,
     PointTag, Retargeted, Retarget

\* No asset is uploaded under a name there is an asset of.
LEMMA NamesUniqueStep ==
  ASSUME JobInv, NamesUnique, [Next]_vars PROVE NamesUnique'
<1>1. GithubChange BY GithubStep
<1>2. CASE UNCHANGED assets BY <1>2 DEF NamesUnique
<1>3. CASE Added
  <2>1. PICK w \in BOOLEAN : AddAsset(w) BY <1>3 DEF Added
  <2> DEFINE new == [id |-> uploads + 1, name |-> bundle, whole |-> w]
  <2>2. assets' = assets \cup {new} BY <2>1 DEF AddAsset
  <2>3. \A a \in assets : a.name # bundle
    BY <1>3 DEF Added, JobInv, Released, Named
  <2>4. new.name = bundle OBVIOUS
  <2> HIDE DEF new
  <2> QED BY <2>2, <2>3, <2>4 DEF NamesUnique
<1>4. CASE Deleted BY <1>4 DEF Deleted, Delete, NamesUnique
<1> QED
  BY <1>1, <1>2, <1>3, <1>4 DEF GithubChange, github, Made, MakeRelease, TagMoved,
     PointTag, Retargeted, Retarget

-----------------------------------------------------------------------------
(* Consumers                                                               *)

\* An asset stays until it is deleted, and the deleted are remembered.
LEMMA GoneStep ==
  ASSUME [Next]_vars
  PROVE  gone \subseteq gone' /\ \A a \in assets : a \in assets' \/ a.id \in gone'
<1>1. GithubChange BY GithubStep
<1>2. CASE UNCHANGED <<assets, gone>> BY <1>2
<1>3. CASE Added BY <1>3 DEF Added, AddAsset
<1>4. CASE Deleted BY <1>4 DEF Deleted, Delete
<1> QED
  BY <1>1, <1>2, <1>3, <1>4 DEF GithubChange, github, Made, MakeRelease, TagMoved,
     PointTag, Retargeted, Retarget

\* What a consumer selects is at least as new as any asset of its projection.
LEMMA SelectsNewest ==
  ASSUME TypeOK, Counted, NEW s, NEW a \in NewestOf(Matching(s), 1), NEW b \in Matching(s)
  PROVE  a.id \in Nat /\ b.id \in Nat /\ b.id <= a.id
<1> DEFINE L == {c \in Matching(s) : c.id > a.id}
<1>1. a \in assets /\ b \in assets /\ Cardinality(L) < 1
  BY DEF NewestOf, Matching
<1>2. L \in SUBSET assets BY DEF Matching
<1>3. IsFiniteSet(L) /\ Cardinality(L) \in Nat
  <2> HIDE DEF L
  <2> QED BY <1>2, PartOf DEF Counted
<1>4. L = {}
  <2> HIDE DEF L
  <2>1. Cardinality(L) = 0 BY <1>1, <1>3
  <2> QED BY <1>3, <2>1, FS_EmptySet
<1>5. a.id \in Nat /\ b.id \in Nat BY <1>1, ReleaseAssumption DEF TypeOK, Assets, Ids
<1> QED BY <1>4, <1>5

\* While the job goes on, a consumer's newest asset stays or is deleted.
LEMMA FollowedAside ==
  ASSUME TypeOK, Followed, PullsGoForward, [Next]_vars, UNCHANGED reading
  PROVE  Followed' /\ PullsGoForward'
<1>1. gone \subseteq gone' /\ \A a \in assets : a \in assets' \/ a.id \in gone'
  BY GoneStep
<1>2. attested \subseteq attested' BY AttestedStep
<1>3. Followed' BY <1>1 DEF reading, Followed, Matching
<1>4. PullsGoForward' BY <1>1, <1>2 DEF reading, PullsGoForward
<1> QED BY <1>3, <1>4

\* A consumer that sets out, selects and downloads goes forward.
LEMMA FollowedPull ==
  ASSUME TypeOK, TypeOK', Counted, Followed, PullsGoForward,
         NEW r \in Consumers, Pull(r)
  PROVE  Followed' /\ PullsGoForward'
<1> USE DEF TypeOK, ReaderPCs, Move
<1>0. UNCHANGED <<assets, gone, attested>> BY PullStill DEF github
<1>1. None \notin Bundles BY ReleaseAssumption
<1>2. CASE StartPull(r)
  <2>1. PICK s \in Sources :
          /\ wanted' = [wanted EXCEPT ![r] = s]
          /\ floor' = [floor EXCEPT ![r] =
                         IF \E a \in Matching(s) : a.whole
                         THEN Latest({a \in Matching(s) : a.whole}) ELSE 0]
    BY <1>2 DEF StartPull
  <2>2. /\ reader[r] = "idle" /\ got[r] = None /\ UNCHANGED <<picked, got>>
        /\ reader' = [reader EXCEPT ![r] = "repository"]
    BY <1>2 DEF StartPull
  <2>3. picked[r] = 0 BY <2>2 DEF Followed
  <2>4. wanted'[r] = s BY <2>1
  <2>5. floor'[r] = 0 \/ \E a \in Matching(s) : a.id = floor'[r]
    <3>1. CASE \E a \in Matching(s) : a.whole
      <4> DEFINE W == {a \in Matching(s) : a.whole}
      <4>1. W \in SUBSET Assets /\ W # {} BY <3>1 DEF Matching
      <4>2. \E a \in W : a.id = Latest(W)
        <5> HIDE DEF W
        <5> QED BY <4>1, LatestIs
      <4>3. floor'[r] = Latest(W) BY <2>1, <3>1
      <4> QED BY <4>2, <4>3
    <3>2. CASE ~\E a \in Matching(s) : a.whole BY <2>1, <3>2
    <3> QED BY <3>1, <3>2
  <2>6. Matching(s)' = Matching(s) BY <1>0 DEF Matching
  <2>7. \A q \in Consumers \ {r} : Matching(wanted[q])' = Matching(wanted[q])
    BY <1>0, <2>1 DEF Matching
  <2>8. \A q \in Consumers \ {r} : UNCHANGED <<reader[q], wanted[q], floor[q]>>
    BY <2>1, <2>2
  <2>9. PullsGoForward' BY <1>0, <2>2, <2>3, <2>8 DEF PullsGoForward
  <2>10. Followed'
    <3> SUFFICES ASSUME NEW q \in Consumers
                 PROVE
           /\ reader'[q] \in {"idle", "repository", "release"} /\ got'[q] = None =>
                picked'[q] = 0
           /\ reader'[q] \in {"repository", "release"} =>
                /\ got'[q] = None
                /\ \/ floor'[q] \in gone' \cup {0}
                   \/ \E a \in Matching(wanted[q])' : a.id = floor'[q]
      BY DEF Followed
    <3>1. CASE q = r
      BY <2>2, <2>3, <2>4, <2>5, <3>1, <1>0 DEF Matching
    <3>2. CASE q # r
      BY <1>0, <2>2, <2>7, <2>8, <3>2 DEF Followed
    <3> QED BY <3>1, <3>2
  <2> QED BY <2>9, <2>10
<1>3. CASE ReadRepository(r)
  BY <1>0, <1>3 DEF ReadRepository, Followed, PullsGoForward, Matching
<1>4. CASE Select(r)
  <2>1. PICK a \in NewestOf(Matching(wanted[r]), 1) : picked' = [picked EXCEPT ![r] = a.id]
    BY <1>4 DEF Select
  <2>2. /\ reader[r] = "release" /\ reader' = [reader EXCEPT ![r] = "download"]
        /\ UNCHANGED <<wanted, got, floor>>
    BY <1>4 DEF Select
  <2>3. floor[r] \in gone \/ floor[r] = 0 \/ \E b \in Matching(wanted[r]) : b.id = floor[r]
    BY <2>2 DEF Followed
  <2>4. a.id >= floor[r] \/ floor[r] \in gone
    <3>1. CASE floor[r] = 0
      BY <3>1, <2>1, ReleaseAssumption DEF NewestOf, Matching, Assets, Ids
    <3>2. CASE \E b \in Matching(wanted[r]) : b.id = floor[r]
      <4>1. PICK b \in Matching(wanted[r]) : b.id = floor[r] BY <3>2
      <4>2. a.id \in Nat /\ b.id \in Nat /\ b.id <= a.id BY SelectsNewest
      <4> QED BY <4>1, <4>2
    <3> QED BY <2>3, <3>1, <3>2
  <2>5. PullsGoForward' BY <1>0, <2>1, <2>2, <2>4 DEF PullsGoForward
  <2>6. Followed' BY <1>0, <2>1, <2>2 DEF Followed, Matching
  <2> QED BY <2>5, <2>6
<1>5. CASE SelectFailed(r) \/ DownloadFailed(r) \/ PullFailed(r)
  <2>1. GiveUp(r) BY <1>5 DEF SelectFailed, DownloadFailed, PullFailed
  <2>2. PullsGoForward' BY <1>0, <2>1 DEF GiveUp, PullsGoForward
  <2>3. Followed' BY <1>0, <2>1 DEF GiveUp, Followed, Matching
  <2> QED BY <2>2, <2>3
<1>6. CASE Download(r)
  <2>1. PICK a \in assets : got' = [got EXCEPT ![r] = a.name]
    BY <1>6 DEF Download
  <2>2. a.name \in attested BY DEF Counted
  <2>3. reader' = [reader EXCEPT ![r] = "commit"] /\ UNCHANGED <<wanted, picked, floor>>
    BY <1>6 DEF Download
  <2>4. PullsGoForward' BY <1>0, <2>1, <2>2, <2>3 DEF PullsGoForward
  <2>5. Followed' BY <1>0, <2>1, <2>3 DEF Followed, Matching
  <2> QED BY <2>4, <2>5
<1>7. CASE CheckCommit(r)
  BY <1>0, <1>7 DEF CheckCommit, Followed, PullsGoForward, Matching
<1>8. CASE VerifyPulled(r)
  <2>1. got[r] # None BY <1>1, <1>8 DEF VerifyPulled, HasAttestation
  <2>2. reader' = [reader EXCEPT ![r] = "idle"] /\ UNCHANGED <<wanted, picked, got, floor>>
    BY <1>8 DEF VerifyPulled
  <2>3. PullsGoForward' BY <1>0, <2>2 DEF PullsGoForward
  <2>4. Followed' BY <1>0, <2>1, <2>2 DEF Followed, Matching
  <2> QED BY <2>3, <2>4
<1> QED BY <1>2, <1>3, <1>4, <1>5, <1>6, <1>7, <1>8 DEF Pull

\* Readers keep what they rely on whoever takes the step.
LEMMA ReadersStep ==
  ASSUME TypeOK, TypeOK', Counted, Followed, PullsGoForward, [Next]_vars
  PROVE  Followed' /\ PullsGoForward'
<1>1. CASE \E r \in Consumers : Pull(r) BY <1>1, FollowedPull
<1>2. CASE StartJob \/ PublishJob \/ Die
  <2>1. UNCHANGED reading
    BY <1>2 DEF StartJob, PublishJob, Die, Inspect, Build, BuildFailed, Prepare,
       WriteHandoff, PrepareFailed, Attest, VerifyAttestation, VerifyFailed,
       GetRepository, GetRelease, Mismatch, CreateRelease, Upload, GetAsset, MoveTag,
       UpdateRelease, ListAssets, DeleteAsset, Publish, RequestFailed, Quiet
  <2> QED BY <2>1, FollowedAside
<1>3. CASE UNCHANGED vars BY <1>3, FollowedAside DEF vars
<1> QED BY <1>1, <1>2, <1>3 DEF Next

-----------------------------------------------------------------------------
(* Theorems                                                                *)

\* The inductive invariant holds of the empty repository.
LEMMA InitInvariant == ASSUME Init PROVE IInv
<1> USE ReleaseAssumption DEF Init
<1>1. TypeOK
  <2>1. GithubTyped
    <3>1. uploads \in 0 .. runs OBVIOUS
    <3>2. made \in BOOLEAN /\ target \in Commits \cup {None} /\ tag \in Commits \cup {None}
      OBVIOUS
    <3> QED BY <3>1, <3>2 DEF GithubTyped
  <2>2. 0 \in 0 .. MaxRuns /\ 0 \in 0 .. MaxFaults /\ 0 \in 0 .. MaxDeaths
    OBVIOUS
  <2>3. JobTyped BY <2>2 DEF JobTyped, PCs, Outcomes
  <2>4. EnvTyped BY <2>2 DEF EnvTyped
  <2>5. ReadersTyped BY <2>2 DEF ReadersTyped, ReaderPCs
  <2> QED BY <2>1, <2>3, <2>4, <2>5, TypeParts
<1>2. NewestKept /\ NamesUnique /\ PullsGoForward
  BY DEF NewestKept, NamesUnique, PullsGoForward
<1>3. Counted
  <2>1. IsFiniteSet({}) /\ Cardinality({}) = 0 BY FS_EmptySet
  <2> QED BY <2>1 DEF Counted, BeforeUpload
<1>4. JobInv
  BY DEF JobInv, Released, Prepared, Moved, Packed, Requests, ReadBack
<1>5. Retained BY DEF Retained
<1>6. Followed BY DEF Followed
<1> QED BY <1>1, <1>2, <1>3, <1>4, <1>5, <1>6 DEF IInv

\* Every step of jobs, failures and consumers preserves it.
LEMMA InvariantStep == ASSUME IInv, [Next]_vars PROVE IInv'
<1> USE DEF IInv
<1>1. TypeOK'
  BY GithubTypeStep, JobTypeStep, EnvStep, ReadersTypeStep
  DEF JobInv, TypeOK, GithubTyped, JobTyped, EnvTyped, ReadersTyped
<1>2. Counted' BY CountedStep DEF JobInv
<1>3. JobInv' BY JobStep
<1>4. Retained' BY RetainedStep
<1>5. NewestKept' BY <1>2, NewestKeptStep
<1>6. NamesUnique' BY NamesUniqueStep
<1>7. Followed' /\ PullsGoForward' BY <1>1, ReadersStep
<1> QED BY <1>1, <1>2, <1>3, <1>4, <1>5, <1>6, <1>7

\* Whatever runs, failures and deaths there are, the release, the job and its
\* consumers satisfy the inductive invariant in every state.
THEOREM Invariant == Spec => []IInv
BY InitInvariant, InvariantStep, PTL DEF Spec

\* What the run checks on a small instance holds of every one: types, the Keep
\* newest assets spared, one asset to a name, consumers that only go forward
\* and take nothing that has not been attested.
THEOREM PublishSafe == Spec => []Inv
<1>1. IInv => Inv BY DEF IInv, Inv
<1> QED BY <1>1, Invariant, PTL

\* The tag moves only to a commit that has a whole bundle in the release, and
\* retention leaves the tag's commit the bundle it has.
THEOREM TagAlwaysCarried == Spec => TagCarried
<1>1. ASSUME IInv, [Next]_vars
      PROVE  /\ tag' # tag => tag = None \/ Carries(tag')
             /\ tag' = tag /\ tag # None /\ Carries(tag) => Carries(tag)'
  <2> USE DEF IInv, JobInv
  <2>1. GithubChange BY <1>1, GithubStep
  <2>2. CASE UNCHANGED <<tag, assets>> BY <2>2 DEF Carries
  <2>3. CASE Made BY <1>1, <2>3 DEF Made, MakeRelease, Released, Carries
  <2>4. CASE Added BY <2>4 DEF Added, AddAsset, Carries
  <2>5. CASE TagMoved
    <3>1. PICK a \in assets : a.id = mine /\ Verified(a)
      BY <1>1, <2>5 DEF TagMoved, Moved, ReadBack
    <3>2. a.whole /\ a.name.sha = commit
      BY <1>1, <2>5, <3>1 DEF Verified, TagMoved, Prepared, Packed, Requests
    <3> QED BY <2>5, <3>2 DEF TagMoved, PointTag, Carries
  <2>6. CASE Deleted
    <3>1. PICK a \in assets : a.id = mine /\ Verified(a)
      BY <1>1, <2>6 DEF Deleted, Moved, ReadBack
    <3>2. a.whole /\ a.name.sha = tag
      BY <1>1, <2>6, <3>1 DEF Deleted, Verified, Moved, Prepared, Packed, Requests
    <3>3. a.id # NextDoomed BY <1>1, <2>6, <3>1, NextIsDoomed DEF Deleted, Retained
    <3> QED BY <2>6, <3>2, <3>3 DEF Deleted, Delete, Carries
  <2> QED
    BY <2>1, <2>2, <2>3, <2>4, <2>5, <2>6 DEF GithubChange, github, Retargeted, Retarget
<1> QED BY <1>1, Invariant, PTL DEF Spec, TagCarried

\* A run that answers success has its asset in the release, whole, tag and
\* target at its commit, and no more than Keep other assets left, provided one
\* page always showed them all.
THEOREM PublishesWhole == Spec => PublishedWhole
<1>1. ASSUME IInv, [Next]_vars, outcome' = "published", outcome # "published"
      PROVE  /\ tag = commit /\ target = commit
             /\ \E a \in assets : a.id = mine /\ Verified(a)
             /\ uploads <= Page => Cardinality(assets) <= Keep + 1
  <2>1. Publish
    <3> USE DEF End, Local
    <3>1. CASE StartJob \/ Die BY <1>1, <3>1 DEF StartJob, Die
    <3>2. CASE PublishJob
      BY <1>1, <3>2 DEF PublishJob, Inspect, Build, BuildFailed, Prepare,
         WriteHandoff, PrepareFailed, Attest, VerifyAttestation, VerifyFailed,
         GetRepository, GetRelease, Mismatch, CreateRelease, Upload, GetAsset,
         MoveTag, UpdateRelease, ListAssets, DeleteAsset, RequestFailed
    <3>3. CASE \E r \in Consumers : Pull(r) BY <1>1, <3>3, PullStill DEF job
    <3>4. CASE UNCHANGED vars BY <1>1, <3>4 DEF vars, job
    <3> QED BY <1>1, <3>1, <3>2, <3>3, <3>4 DEF Next
  <2>2. pc = "prune" /\ doomed = {} BY <2>1 DEF Publish
  <2>3. tag = commit /\ target = commit
    BY <1>1, <2>2 DEF IInv, JobInv, Moved
  <2>4. PICK a \in assets : a.id = mine /\ Verified(a)
    BY <1>1, <2>2 DEF IInv, JobInv, Moved, ReadBack
  <2>5. ASSUME uploads <= Page PROVE Cardinality(assets) <= Keep + 1
    <3> DEFINE R == Surplus(doomed \cup {mine})
    <3>1. Cardinality(R) <= Keep BY <1>1, <2>2, <2>5 DEF IInv, Retained
    <3>2. R \in SUBSET assets BY DEF Surplus
    <3>3. assets = R \cup {a} BY <1>1, <2>2, <2>4 DEF Surplus, IInv, Counted
    <3>4. IsFiniteSet(R) /\ Cardinality(R) \in Nat
      <4> HIDE DEF R
      <4> QED BY <1>1, <3>2, PartOf DEF IInv, Counted
    <3>5. Cardinality(R \cup {a}) = IF a \in R THEN Cardinality(R)
                                             ELSE Cardinality(R) + 1
      <4> HIDE DEF R
      <4> QED BY <3>4, FS_AddElement
    <3> HIDE DEF R
    <3> QED BY <3>1, <3>3, <3>4, <3>5, ReleaseAssumption
  <2> QED BY <2>3, <2>4, <2>5
<1> QED BY <1>1, Invariant, PTL DEF Spec, PublishedWhole
=============================================================================
