-------------------------- MODULE BundleDeliveryProofs --------------------------
(***************************************************************************)
(* Machine-checked theorems about BundleDelivery, for any installs, pulls  *)
(* and packs of a checkout, any projections, manifests and builds, and any *)
(* number of edits, failures and deaths.                                   *)
(***************************************************************************)
EXTENDS BundleDelivery, TLAPS

-------------------------------------------------------------------------------
(* What a step does to the record of its command                           *)

JobsOK == job \in [Commands -> Job]
Others(p) == \A q \in Commands \ {p} : job'[q] = job[q]

\* An update of the record of a command leaves the other commands theirs.
LEMMA SetIs ==
  ASSUME JobsOK, NEW p \in Commands, NEW changes, Set(p, changes)
  PROVE  /\ job'[p] = Update(job[p], changes) /\ Others(p)
         /\ job'[p] \in Job => job' \in [Commands -> Job]
<1> DEFINE new == Update(job[p], changes)
<1>1. job' = [job EXCEPT ![p] = new] BY DEF Set
<1> HIDE DEF new
<1>2. job'[p] = new /\ Others(p) BY <1>1 DEF JobsOK, Others
<1>3. ASSUME new \in Job PROVE job' \in [Commands -> Job] BY <1>1, <1>3 DEF JobsOK
<1> QED BY <1>2, <1>3 DEF new

\* It goes on at another place, and it or nothing else of it changes.
LEMMA Goes ==
  ASSUME JobsOK, NEW p \in Commands, NEW s \in PCs, Goto(p, s)
  PROVE  /\ JobsOK' /\ Others(p) /\ job'[p].pc = s
         /\ UNCHANGED <<job[p].staged, job[p].man, job[p].bundle, job[p].remote,
                        job[p].committed, job[p].installed, job[p].status, job[p].broken>>
<1>1. job'[p] = Update(job[p], [pc |-> s]) BY SetIs DEF Goto
<1>2. job[p] \in Job BY DEF JobsOK
<1>3. job'[p] \in Job /\ job'[p].pc = s
      /\ UNCHANGED <<job[p].staged, job[p].man, job[p].bundle, job[p].remote,
                     job[p].committed, job[p].installed, job[p].status, job[p].broken>>
  BY <1>1, <1>2 DEF Update, Job
<1> QED BY <1>3, SetIs DEF Goto, JobsOK

\* An exception is under way from now on.
LEMMA Breaks ==
  ASSUME JobsOK, NEW p \in Commands, NEW s \in PCs, Break(p, s)
  PROVE  /\ JobsOK' /\ Others(p) /\ job'[p].pc = s /\ job'[p].broken
         /\ UNCHANGED <<job[p].staged, job[p].man, job[p].bundle, job[p].remote,
                        job[p].committed, job[p].installed, job[p].status>>
<1>1. job'[p] = Update(job[p], [pc |-> s, broken |-> TRUE]) BY SetIs DEF Break
<1>2. job[p] \in Job BY DEF JobsOK
<1>3. job'[p] \in Job /\ job'[p].pc = s /\ job'[p].broken
      /\ UNCHANGED <<job[p].staged, job[p].man, job[p].bundle, job[p].remote,
                     job[p].committed, job[p].installed, job[p].status>>
  BY <1>1, <1>2 DEF Update, Job
<1> QED BY <1>3, SetIs DEF Break, JobsOK

\* It is over, with an answer.
LEMMA Ends ==
  ASSUME JobsOK, NEW p \in Commands, NEW s \in Statuses, End(p, s)
  PROVE  /\ JobsOK' /\ Others(p) /\ job'[p].pc = "done" /\ job'[p].status = s
         /\ ~job'[p].broken
<1> DEFINE new == Update(Fresh, [pc |-> "done", status |-> s])
<1>1. /\ new \in Job /\ new.pc = "done" /\ new.status = s /\ ~new.broken
  BY DEF Update, Fresh, Job, PCs, Over, Maybe
<1>2. job' = [job EXCEPT ![p] = new] BY DEF End
<1> HIDE DEF new
<1> QED BY <1>1, <1>2 DEF JobsOK, Others

\* The fields are set that the step is about.
LEMMA Opens ==
  ASSUME JobsOK, NEW p \in Commands, NEW s \in PCs, NEW g \in Maybe(Generations),
         NEW r \in BOOLEAN, Set(p, [pc |-> s, bundle |-> g, remote |-> r])
  PROVE  /\ JobsOK' /\ Others(p) /\ job'[p].pc = s /\ job'[p].bundle = g
         /\ UNCHANGED <<job[p].committed, job[p].installed, job[p].status, job[p].broken>>
<1>1. job'[p] = Update(job[p], [pc |-> s, bundle |-> g, remote |-> r]) BY SetIs
<1>2. job[p] \in Job BY DEF JobsOK
<1>3. job'[p] \in Job /\ job'[p].pc = s /\ job'[p].bundle = g
      /\ UNCHANGED <<job[p].committed, job[p].installed, job[p].status, job[p].broken>>
  BY <1>1, <1>2 DEF Update, Job
<1> QED BY <1>3, SetIs DEF JobsOK

\* It reads the checkout,
LEMMA Reads ==
  ASSUME JobsOK, NEW p \in Commands, NEW s \in PCs, files \in Files, manifest \in Manifests,
         \/ Set(p, [pc |-> s, man |-> manifest])
         \/ Set(p, [pc |-> s, staged |-> files])
         \/ Set(p, [pc |-> s, staged |-> files, man |-> manifest])
  PROVE  /\ JobsOK' /\ Others(p) /\ job'[p].pc = s
         /\ UNCHANGED <<job[p].bundle, job[p].committed, job[p].installed, job[p].status,
                        job[p].broken>>
<1> DEFINE c1 == [pc |-> s, man |-> manifest]
           c2 == [pc |-> s, staged |-> files]
           c3 == [pc |-> s, staged |-> files, man |-> manifest]
<1>1. PICK c \in {c1, c2, c3} : Set(p, c) OBVIOUS
<1>2. job'[p] = Update(job[p], c) /\ job[p] \in Job BY <1>1, SetIs DEF JobsOK
<1>3. job'[p] \in Job /\ job'[p].pc = s
      /\ UNCHANGED <<job[p].bundle, job[p].committed, job[p].installed, job[p].status,
                     job[p].broken>>
  BY <1>1, <1>2 DEF Update, Job, Maybe
<1> QED BY <1>1, <1>3, SetIs DEF JobsOK

\* learns whether it has committed,
LEMMA Commits ==
  ASSUME JobsOK, NEW p \in Commands, NEW s \in PCs, NEW b \in BOOLEAN,
         Set(p, [pc |-> s, committed |-> b])
  PROVE  /\ JobsOK' /\ Others(p) /\ job'[p].pc = s /\ job'[p].committed = b
         /\ UNCHANGED <<job[p].bundle, job[p].installed, job[p].status, job[p].broken>>
<1>1. job'[p] = Update(job[p], [pc |-> s, committed |-> b]) BY SetIs
<1>2. job[p] \in Job BY DEF JobsOK
<1>3. job'[p] \in Job /\ job'[p].pc = s /\ job'[p].committed = b
      /\ UNCHANGED <<job[p].bundle, job[p].installed, job[p].status, job[p].broken>>
  BY <1>1, <1>2 DEF Update, Job
<1> QED BY <1>3, SetIs DEF JobsOK

\* or cannot tell and fails,
LEMMA Doubts ==
  ASSUME JobsOK, NEW p \in Commands, NEW s \in PCs,
         Set(p, [pc |-> s, committed |-> TRUE, broken |-> TRUE])
  PROVE  /\ JobsOK' /\ Others(p) /\ job'[p].pc = s /\ job'[p].committed /\ job'[p].broken
         /\ UNCHANGED <<job[p].bundle, job[p].installed, job[p].status>>
<1>1. job'[p] = Update(job[p], [pc |-> s, committed |-> TRUE, broken |-> TRUE]) BY SetIs
<1>2. job[p] \in Job BY DEF JobsOK
<1>3. job'[p] \in Job /\ job'[p].pc = s /\ job'[p].committed /\ job'[p].broken
      /\ UNCHANGED <<job[p].bundle, job[p].installed, job[p].status>>
  BY <1>1, <1>2 DEF Update, Job
<1> QED BY <1>3, SetIs DEF JobsOK

\* finds what is installed,
LEMMA Finds ==
  ASSUME JobsOK, NEW p \in Commands, NEW s \in PCs, NEW g \in Maybe(Generations),
         Set(p, [pc |-> s, installed |-> g])
  PROVE  /\ JobsOK' /\ Others(p) /\ job'[p].pc = s /\ job'[p].installed = g
         /\ UNCHANGED <<job[p].bundle, job[p].committed, job[p].status, job[p].broken>>
<1>1. job'[p] = Update(job[p], [pc |-> s, installed |-> g]) BY SetIs
<1>2. job[p] \in Job BY DEF JobsOK
<1>3. job'[p] \in Job /\ job'[p].pc = s /\ job'[p].installed = g
      /\ UNCHANGED <<job[p].bundle, job[p].committed, job[p].status, job[p].broken>>
  BY <1>1, <1>2 DEF Update, Job
<1> QED BY <1>3, SetIs DEF JobsOK

\* captures the graph,
LEMMA Takes ==
  ASSUME JobsOK, NEW p \in Commands, NEW s \in PCs, NEW g \in Maybe(Generations),
         Set(p, [pc |-> s, bundle |-> g, installed |-> g])
  PROVE  /\ JobsOK' /\ Others(p) /\ job'[p].pc = s /\ job'[p].installed = g
         /\ job'[p].bundle = g
         /\ UNCHANGED <<job[p].committed, job[p].status, job[p].broken>>
<1>1. job'[p] = Update(job[p], [pc |-> s, bundle |-> g, installed |-> g]) BY SetIs
<1>2. job[p] \in Job BY DEF JobsOK
<1>3. job'[p] \in Job /\ job'[p].pc = s /\ job'[p].installed = g /\ job'[p].bundle = g
      /\ UNCHANGED <<job[p].committed, job[p].status, job[p].broken>>
  BY <1>1, <1>2 DEF Update, Job
<1> QED BY <1>3, SetIs DEF JobsOK

\* makes up its answer,
LEMMA Says ==
  ASSUME JobsOK, NEW p \in Commands, NEW s \in PCs, NEW t \in Statuses,
         Set(p, [pc |-> s, status |-> t])
  PROVE  /\ JobsOK' /\ Others(p) /\ job'[p].pc = s /\ job'[p].status = t
         /\ UNCHANGED <<job[p].bundle, job[p].committed, job[p].installed, job[p].broken>>
<1>1. job'[p] = Update(job[p], [pc |-> s, status |-> t]) BY SetIs
<1>2. job[p] \in Job BY DEF JobsOK
<1>3. job'[p] \in Job /\ job'[p].pc = s /\ job'[p].status = t
      /\ UNCHANGED <<job[p].bundle, job[p].committed, job[p].installed, job[p].broken>>
  BY <1>1, <1>2 DEF Update, Job
<1> QED BY <1>3, SetIs DEF JobsOK

\* or swallows an exception.
LEMMA Mends ==
  ASSUME JobsOK, NEW p \in Commands, NEW s \in PCs, NEW t \in Statuses,
         Set(p, [pc |-> s, broken |-> FALSE, status |-> t])
  PROVE  /\ JobsOK' /\ Others(p) /\ job'[p].pc = s /\ job'[p].status = t /\ ~job'[p].broken
         /\ UNCHANGED <<job[p].bundle, job[p].committed, job[p].installed>>
<1>1. job'[p] = Update(job[p], [pc |-> s, broken |-> FALSE, status |-> t]) BY SetIs
<1>2. job[p] \in Job BY DEF JobsOK
<1>3. job'[p] \in Job /\ job'[p].pc = s /\ job'[p].status = t /\ ~job'[p].broken
      /\ UNCHANGED <<job[p].bundle, job[p].committed, job[p].installed>>
  BY <1>1, <1>2 DEF Update, Job
<1> QED BY <1>3, SetIs DEF JobsOK

-------------------------------------------------------------------------------
(* The inductive invariant                                                 *)

\* Where an install, a pull and a pack can be.
Early == {"idle", "inspect", "download", "attest", "authorize", "wait", "stage", "parse",
          "admit", "compare", "promote"}
Packing == {"project", "capture", "recheck", "link", "sync"}
Late == {"leave", "late_wait", "late", "late_blame_wait", "late_blame"}
Placed(p) ==
  /\ p \in Installs => job[p].pc \in {"idle", "wait", "exit", "record", "rerecord_wait",
                                      "rerecord"} \cup Installing \cup Over
  /\ p \in Pulls => job[p].pc \in Early \cup Installing \cup {"exit", "handoff"}
                                  \cup Late \cup Over
  /\ p \in Packs => job[p].pc \in {"idle", "wait", "hash"} \cup Packing \cup Late \cup Over

\* A command knows whether it has changed the graph or the output, unless
\* promote_graph did not tell; and an exception that is under way ends it,
\* unless it has committed.
Committed(p) ==
  /\ p \notin Packs /\ job[p].pc \notin Over => (job[p].committed <=> p \in did \ unaware)
  /\ p \in unaware => p \notin Packs
  /\ p \in unaware /\ job[p].pc \notin Over => job[p].broken /\ ~job[p].committed
  /\ p \in Packs \cap did => job[p].committed \/ job[p].pc \in Over \cup {"sync"}
  /\ job[p].pc \in Early \cup Packing => ~job[p].committed
  /\ p \notin Packs /\ job[p].broken =>
       job[p].pc \in {"exit", "leave", "dead"} /\ (job[p].pc = "leave" => ~job[p].committed)
  /\ p \in Packs /\ job[p].broken => job[p].pc \in {"leave", "dead"}

\* What it is going to answer goes with that.
Said(p) ==
  /\ p \notin Packs /\ job[p].pc \notin Over =>
       /\ job[p].status \in {"none", "installed", "already_current", "promoted_but_stale"}
       /\ job[p].status = "installed" => job[p].committed
       /\ job[p].status = "already_current" => ~job[p].committed
  /\ p \in Packs /\ job[p].pc \notin Over => job[p].status \in {"none", "packed"}
  /\ job[p].pc \in Early \cup Packing => job[p].status = "none"
  /\ job[p].pc \in {"late_blame_wait", "late_blame"} => job[p].status = "promoted_but_stale"

\* From its promotion until it leaves the lock its bundle is the graph.
Installed(p) == \/ job[p].pc \in {"verify", "after", "record"}
                \/ job[p].pc = "exit" /\ ~job[p].broken
Held(p) ==
  /\ p \notin Packs /\ job[p].pc \in {"attest", "authorize", "wait"} \cup Installing =>
       job[p].bundle \in Generations
  /\ Installed(p) => /\ graph = job[p].bundle /\ graph \in Generations /\ place = graph
                     /\ ~excused /\ job[p].pc # "verify" => job[p].installed = graph

Proper(p) == Placed(p) /\ Committed(p) /\ Said(p) /\ Held(p)

\* The lock is held by one command.
Alone == \A p, q \in Commands : job[p].pc \in Critical /\ job[q].pc \in Critical => p = q

\* Somebody who has changed the graph is still to record it.
Owing(p) ==
  /\ p \notin Packs /\ job[p].committed
  /\ job[p].pc \in {"verify", "after", "exit", "record", "handoff", "leave", "late_wait",
                    "late", "rerecord_wait", "rerecord"}
Owed == ~excused /\ record # graph => \E p \in Commands : Owing(p)

\* One pack at a time has linked its bundle and not taken it back.
Holding(p) == /\ p \in Packs
              /\ job[p].pc \in {"sync", "hash"} \/ (job[p].pc \in Late /\ ~job[p].broken)
Bundled(p) ==
  /\ p \in Packs /\ job[p].pc \in {"recheck", "link"} => job[p].bundle \in Generations
  /\ Holding(p) => output = job[p].bundle /\ job[p].bundle \in Generations
Kept == /\ \A p \in Commands : Bundled(p)
        /\ \A p, q \in Commands : Holding(p) /\ Holding(q) => p = q

Rest == /\ files \in Files /\ manifest \in Manifests
        /\ graph \in Maybe(Generations) /\ place \in Maybe(Generations)
        /\ record \in Maybe(Generations)
        /\ output \in Maybe(Generations) \cup {Foreign} /\ registered \subseteq Pulls
        /\ did \subseteq Commands /\ unaware \subseteq did /\ excused \in BOOLEAN
        /\ edits \in 0 .. MaxEdits /\ faults \in 0 .. MaxFaults
        /\ deaths \in 0 .. MaxDeaths

IInv == /\ JobsOK /\ Rest /\ AuthorizationsDrain /\ Alone /\ Owed /\ Kept
        /\ \A p \in Commands : Proper(p)

-------------------------------------------------------------------------------
(* What a step of a command has to show for itself                         *)

Draining == {"wait", "stage", "parse", "admit", "exit", "leave"}

\* The lock is taken when it is free, and the authorization is its own.
Mannered(p) ==
  /\ job'[p].pc \in Critical => job[p].pc \in Critical \/ LockFree
  /\ registered' \subseteq registered \cup {p} /\ registered' \subseteq Pulls
  /\ p \in registered' => job'[p].pc \in Draining

\* Whoever changes the graph or leaves off recording it has a reason.
Settled(p) == \/ excused' \/ record' = graph' \/ Owing(p)'
              \/ UNCHANGED <<record, graph>> /\ ~Owing(p)

\* The files and the bounds are those of the checkout.
LEMMA Frames ==
  ASSUME Rest, DeliveryAssumption, NoFault \/ Fault,
         graph' \in Maybe(Generations), place' \in Maybe(Generations),
         record' \in Maybe(Generations),
         output' \in Maybe(Generations) \cup {Foreign}, registered' \subseteq Pulls,
         did' \subseteq Commands, unaware' \subseteq did', excused' \in BOOLEAN
  PROVE  Rest'
<1>1. faults' \in 0 .. MaxFaults BY DEF Rest, NoFault, Fault, env, DeliveryAssumption
<1>2. UNCHANGED <<files, manifest, edits, deaths>> BY DEF NoFault, Fault, checkout, env
<1> QED BY <1>1, <1>2 DEF Rest

\* The step of one command disturbs no other.
LEMMA StepKeeps ==
  ASSUME IInv, NEW p \in Commands, JobsOK', Others(p), Rest', Kept', Proper(p)',
         Mannered(p), Settled(p),
         UNCHANGED <<graph, place>> \/ job[p].pc \in Critical,
         excused => excused', did' \ {p} = did \ {p}, unaware' \ {p} = unaware \ {p}
  PROVE  IInv'
<1>1. AuthorizationsDrain' BY DEF IInv, AuthorizationsDrain, Mannered, Draining, Others, Rest,
                                Commands
<1>2. Alone' BY DEF IInv, Alone, Mannered, LockFree, Others
<1>3. \A q \in Commands \ {p} : Proper(q)'
  <2> SUFFICES ASSUME NEW q \in Commands \ {p} PROVE Proper(q)' OBVIOUS
  <2>1. job'[q] = job[q] /\ (q \in did' <=> q \in did)
        /\ (q \in unaware' <=> q \in unaware) /\ Proper(q)
    BY DEF Others, IInv
  <2>2. Placed(q)' /\ Committed(q)' /\ Said(q)' BY <2>1 DEF Proper, Placed, Committed, Said
  <2>3. Installed(q) => UNCHANGED <<graph, place>>
    BY DEF IInv, Alone, Installed, Critical, Installing
  <2>4. Held(q)' BY <2>1, <2>3 DEF Proper, Held, Installed
  <2> QED BY <2>2, <2>4 DEF Proper
<1>4. Owed'
  <2> SUFFICES ASSUME ~excused', record' # graph' PROVE \E q \in Commands : Owing(q)'
    BY DEF Owed
  <2>1. CASE Owing(p)' BY <2>1
  <2>2. CASE UNCHANGED <<record, graph>> /\ ~Owing(p)
    <3>1. PICK q \in Commands : Owing(q) BY <2>2 DEF IInv, Owed
    <3>2. q # p /\ job'[q] = job[q] BY <2>2, <3>1 DEF Others
    <3> QED BY <3>1, <3>2 DEF Owing
  <2> QED BY <2>1, <2>2 DEF Settled
<1> QED BY <1>1, <1>2, <1>3, <1>4 DEF IInv

\* Most commands leave the output alone, and come to hold none.
LEMMA KeptStays ==
  ASSUME Kept, NEW p \in Commands, Others(p), output' = output,
         Holding(p)' => Holding(p) /\ job'[p].bundle = job[p].bundle,
         p \in Packs /\ job'[p].pc \in {"recheck", "link"} => job'[p].bundle \in Generations
  PROVE  Kept'
<1>1. \A q \in Commands : Holding(q)' => Holding(q) BY DEF Others, Holding
<1>2. \A q \in Commands : Bundled(q)' BY DEF Kept, Bundled, Holding, Others
<1> QED BY <1>1, <1>2 DEF Kept

\* A step that leaves the graph, its record and the output as they are.
LEMMA QuietStep ==
  ASSUME IInv, DeliveryAssumption, NEW p \in Commands, JobsOK', Others(p),
         UNCHANGED <<graph, place, record, output, did, unaware>>, NoFault \/ Fault,
         excused => excused', excused' \in BOOLEAN, Mannered(p), Proper(p)',
         Owing(p) => excused' \/ Owing(p)',
         Holding(p)' => Holding(p) /\ job'[p].bundle = job[p].bundle,
         p \in Packs /\ job'[p].pc \in {"recheck", "link"} => job'[p].bundle \in Generations
  PROVE  IInv'
<1>1. Rest'
  <2>1. Rest BY DEF IInv
  <2>2. registered' \subseteq Pulls BY DEF Mannered
  <2> QED BY <2>1, <2>2, Frames DEF Rest
<1>2. Kept' BY KeptStays DEF IInv
<1>3. Settled(p) BY DEF Settled
<1> QED BY <1>1, <1>2, <1>3, StepKeeps

\* On the way to the promotion of an install, or to the link of a pack.
LEMMA Advances ==
  ASSUME IInv, DeliveryAssumption, NEW p \in Commands, JobsOK', Others(p),
         UNCHANGED <<graph, place, record, output, did, unaware, excused>>, NoFault \/ Fault, Mannered(p),
         job[p].pc \in (Early \cup Packing) \ {"sync"},
         job'[p].pc \in (Early \cup Packing) \ {"sync"},
         UNCHANGED <<job[p].committed, job[p].broken, job[p].status>>, Placed(p)',
         p \notin Packs /\ job'[p].pc \in {"attest", "authorize", "wait"} \cup Installing =>
           job'[p].bundle \in Generations,
         p \in Packs /\ job'[p].pc \in {"recheck", "link"} => job'[p].bundle \in Generations
  PROVE  IInv'
<1>1. Proper(p) /\ Rest BY DEF IInv
<1>2. ~job[p].committed /\ ~job[p].broken BY <1>1 DEF Proper, Committed, Early, Packing
<1>3. Committed(p)' BY <1>1, <1>2 DEF Proper, Committed, Early, Packing, Over
<1>4. Said(p)' BY <1>1 DEF Proper, Said, Early, Packing, Over
<1>5. Held(p)' BY DEF Held, Installed, Early, Packing
<1>6. ~Holding(p)' BY DEF Holding, Early, Packing, Late
<1>7. ~Owing(p) BY <1>2 DEF Owing
<1>8. excused' \in BOOLEAN BY <1>1 DEF Rest
<1>9. Proper(p)' BY <1>3, <1>4, <1>5 DEF Proper
<1> QED BY <1>6, <1>7, <1>8, <1>9, QuietStep

\* An exception takes a command that has not committed out of what it does.
LEMMA Breaking ==
  ASSUME IInv, DeliveryAssumption, NEW p \in Commands, NEW s \in {"exit", "leave"},
         Break(p, s), UNCHANGED <<graph, place, record, output, did, unaware>>, NoFault \/ Fault,
         excused => excused', excused' \in BOOLEAN, registered' \subseteq registered,
         s = "exit" => p \notin Packs /\ job[p].pc \in Critical,
         s = "leave" => p \notin Installs /\ (p \in Packs \/ ~job[p].committed),
         job[p].pc \notin Over \cup {"sync"}
  PROVE  IInv'
<1>1. Proper(p) /\ Rest /\ JobsOK BY DEF IInv
<1>2. s \in PCs BY DEF PCs, Critical
<1>3. /\ JobsOK' /\ Others(p) /\ job'[p].pc = s /\ job'[p].broken
      /\ UNCHANGED <<job[p].bundle, job[p].committed, job[p].status>>
  BY <1>1, <1>2, Breaks
<1>4. Placed(p)' BY <1>1, <1>3 DEF DeliveryAssumption, Placed, Late, Commands
<1>5. Committed(p)' BY <1>1, <1>3 DEF Proper, Committed, Early, Packing, Over
<1>6. Said(p)' BY <1>1, <1>3 DEF Proper, Said, Over, Early, Packing
<1>7. Held(p)' BY <1>3 DEF Held, Installed, Installing
<1>8. Proper(p)' BY <1>4, <1>5, <1>6, <1>7 DEF Proper
<1>9. ~Holding(p)' BY <1>3 DEF Holding, Late
<1>10. Mannered(p) BY <1>1, <1>3 DEF Mannered, Draining, Critical, Installing, Rest
<1>11. Owing(p) => Owing(p)' BY <1>3 DEF Owing, Critical, Installing
<1> QED BY <1>3, <1>8, <1>9, <1>10, <1>11, QuietStep

\* What a command answers is over with, and owes nothing.
LEMMA Ending ==
  ASSUME IInv, DeliveryAssumption, NEW p \in Commands, NEW s \in Statuses, End(p, s),
         UNCHANGED <<graph, place, output, did, unaware>>, Rest',
         excused => excused', registered' \subseteq registered \ {p}, Settled(p)
  PROVE  IInv'
<1>1. Proper(p) /\ Rest /\ JobsOK /\ Kept BY DEF IInv
<1>2. JobsOK' /\ Others(p) /\ job'[p].pc = "done" /\ ~job'[p].broken BY <1>1, Ends
<1>3. Proper(p)'
  <2>1. job'[p].pc \in Over /\ job'[p].pc \notin Early \cup Packing
    BY <1>2 DEF Over, Early, Packing
  <2>2. p \in unaware' => p \notin Packs BY <1>1 DEF Proper, Committed
  <2>3. Committed(p)' BY <1>2, <2>1, <2>2 DEF Committed
  <2>4. Placed(p)' /\ Said(p)' /\ Held(p)'
    BY <1>2 DEF Placed, Said, Held, Installed, Over, Early, Packing, Installing
  <2> QED BY <2>3, <2>4 DEF Proper
<1>4. Kept'
  <2>1. ~Holding(p)' BY <1>2 DEF Holding, Late
  <2> QED BY <1>1, <1>2, <2>1, KeptStays
<1>5. Mannered(p) BY <1>1, <1>2 DEF Mannered, Critical, Installing, Rest
<1> QED BY <1>2, <1>3, <1>4, <1>5, StepKeeps

\* A command that has not committed and ends with nothing written.
LEMMA EndsQuietly ==
  ASSUME IInv, DeliveryAssumption, NEW p \in Commands, NEW s \in Statuses, End(p, s),
         UNCHANGED <<graph, place, record, output, did, unaware>>, NoFault \/ Fault,
         excused => excused', excused' \in BOOLEAN,
         registered' \subseteq registered \ {p}, ~Owing(p) \/ excused'
  PROVE  IInv'
<1>1. Rest BY DEF IInv
<1>2. Rest' BY <1>1, Frames DEF Rest
<1>3. Settled(p) BY DEF Settled
<1> QED BY <1>2, <1>3, Ending

\* An install raises, a pull leaves its directory first.
LEMMA Refusing ==
  ASSUME IInv, DeliveryAssumption, NEW p \in Commands, Refused(p), p \notin Packs,
         ~job[p].committed, job[p].pc \notin Over \cup {"sync"},
         UNCHANGED <<graph, place, record, output, did, unaware>>, NoFault \/ Fault,
         excused => excused', excused' \in BOOLEAN, registered' \subseteq registered
  PROVE  IInv'
<1>1. ~Owing(p) BY DEF Owing
<1>2. CASE p \in Installs
  <2>1. End(p, "raised") BY <1>2 DEF Refused
  <2>2. p \notin registered BY <1>2 DEF IInv, Rest, DeliveryAssumption
  <2> QED BY <1>1, <2>1, <2>2, EndsQuietly DEF Statuses
<1>3. CASE p \notin Installs
  <2>1. Break(p, "leave") BY <1>3 DEF Refused
  <2> QED BY <1>3, <2>1, Breaking
<1> QED BY <1>2, <1>3

\* Those past their install have no authorization left.
LEMMA Unregistered ==
  ASSUME IInv, NEW p \in Commands, job[p].pc \notin Draining
  PROVE  p \notin registered
BY DEF IInv, AuthorizationsDrain, Draining

-------------------------------------------------------------------------------
(* The initial states, and the steps one by one                            *)

\* At first every command is idle.
LEMMA InitIInv == DeliveryAssumption /\ Init => IInv
<1> SUFFICES ASSUME DeliveryAssumption, Init PROVE IInv OBVIOUS
<1>1. Fresh \in Job BY DEF Fresh, Job, PCs, Maybe, Statuses
<1>2. \A p \in Commands : job[p] = Fresh BY DEF Init
<1>3. JobsOK BY <1>1 DEF Init, JobsOK
<1>4. Rest
  <2>1. 0 \in 0 .. MaxEdits /\ 0 \in 0 .. MaxFaults /\ 0 \in 0 .. MaxDeaths
    BY DEF DeliveryAssumption
  <2> QED BY <2>1 DEF Init, Rest, Maybe
<1>5. AuthorizationsDrain /\ Owed BY DEF Init, AuthorizationsDrain, Owed
<1>6. Alone BY <1>2 DEF Alone, Fresh, Critical, Installing
<1>7. Kept BY <1>2 DEF Kept, Bundled, Holding, Late, Fresh
<1>8. \A p \in Commands : Proper(p)
  BY <1>2 DEF Init, Proper, Placed, Committed, Said, Held, Installed, Fresh, Early, Packing,
              Over, Late, Installing
<1> QED BY <1>3, <1>4, <1>5, <1>6, <1>7, <1>8 DEF IInv

\* An install is of some bundle.
LEMMA StartInstallKeeps ==
  ASSUME IInv, DeliveryAssumption, NEW p \in Commands, StartInstall(p) PROVE IInv'
<1>1. PICK g \in Generations, r \in BOOLEAN : Set(p, [pc |-> "wait", bundle |-> g, remote |-> r])
  BY DEF StartInstall
<1>2. /\ JobsOK' /\ Others(p) /\ job'[p].pc = "wait" /\ job'[p].bundle \in Generations
      /\ UNCHANGED <<job[p].committed, job[p].status, job[p].broken>>
  BY <1>1, Opens DEF IInv, PCs, Waiting, Maybe
<1>3. p \in Installs /\ job[p].pc = "idle" /\ p \notin Packs /\ p \notin Pulls
  BY DEF StartInstall, At, DeliveryAssumption
<1>4. Placed(p)' BY <1>2, <1>3 DEF Placed
<1>5. Mannered(p)
  BY <1>2 DEF Mannered, StartInstall, KeepAll, Critical, Installing, Draining, IInv, Rest
<1>6. UNCHANGED <<graph, place, record, output, did, unaware, excused>> /\ NoFault BY DEF StartInstall, KeepAll
<1> QED BY <1>2, <1>3, <1>4, <1>5, <1>6, Advances DEF Early

\* A pack starts when its output is free.
LEMMA StartPackKeeps ==
  ASSUME IInv, DeliveryAssumption, NEW p \in Commands, StartPack(p) PROVE IInv'
<1>1. p \in Packs /\ job[p].pc = "idle" /\ p \notin Pulls /\ p \notin Installs
  BY DEF StartPack, At, DeliveryAssumption
<1>2. UNCHANGED <<graph, place, record, output, registered, did, unaware, excused>> /\ NoFault
      /\ excused' \in BOOLEAN
  BY DEF StartPack, KeepAll, IInv, Rest
<1>3. p \notin registered BY <1>1 DEF IInv, Rest
<1>4. CASE Goto(p, "wait")
  <2>1. /\ JobsOK' /\ Others(p) /\ job'[p].pc = "wait"
        /\ UNCHANGED <<job[p].committed, job[p].status, job[p].broken>>
    BY <1>4, Goes DEF IInv, PCs, Waiting
  <2>2. Placed(p)' BY <1>1, <2>1 DEF Placed
  <2>3. Mannered(p) BY <1>2, <2>1 DEF Mannered, Critical, Installing, Draining, IInv, Rest
  <2> QED BY <1>1, <1>2, <2>1, <2>2, <2>3, Advances DEF Early
<1>5. CASE End(p, "raised")
  <2>1. ~Owing(p) BY <1>1 DEF Owing
  <2> QED BY <1>2, <1>3, <1>5, <2>1, EndsQuietly DEF Statuses
<1> QED BY <1>4, <1>5 DEF StartPack

\* Whoever waits for the lock and has it goes on where it needs it.
LEMMA LockLeads ==
  ASSUME NEW p \in Commands, GetLock(p)
  PROVE  /\ job[p].pc = "wait" => Goto(p, IF p \in Packs THEN "project" ELSE "stage")
         /\ job[p].pc = "late_wait" => Goto(p, "late")
         /\ job[p].pc = "late_blame_wait" => Goto(p, "late_blame")
         /\ job[p].pc = "rerecord_wait" => Goto(p, "rerecord")
         /\ job[p].pc \in Waiting /\ KeepAll /\ NoFault /\ LockFree
<1> DEFINE to == CASE At(p, "wait") -> IF p \in Packs THEN "project" ELSE "stage"
                   [] At(p, "late_wait") -> "late"
                   [] At(p, "late_blame_wait") -> "late_blame"
                   [] At(p, "rerecord_wait") -> "rerecord"
<1>1. Goto(p, to) /\ job[p].pc \in Waiting /\ KeepAll /\ NoFault /\ LockFree
  BY DEF GetLock, GetLockShared
<1>2. At(p, "wait") => to = (IF p \in Packs THEN "project" ELSE "stage") BY DEF At
<1>3. At(p, "late_wait") => to = "late" BY DEF At
<1>4. At(p, "late_blame_wait") => to = "late_blame" BY DEF At
<1>5. At(p, "rerecord_wait") => to = "rerecord" BY DEF At
<1> HIDE DEF to
<1> QED BY <1>1, <1>2, <1>3, <1>4, <1>5 DEF At

\* Taking the lock makes its holder the only one.
LEMMA GetLockKeeps ==
  ASSUME IInv, DeliveryAssumption, NEW p \in Commands, GetLock(p) PROVE IInv'
<1>1. Proper(p) /\ JobsOK /\ Rest BY DEF IInv
<1>2. job[p].pc \in Waiting /\ KeepAll /\ NoFault /\ LockFree BY LockLeads
<1>3. UNCHANGED <<graph, place, record, output, registered, did, unaware, excused>> /\ excused' \in BOOLEAN
  BY <1>1, <1>2 DEF KeepAll, Rest
<1>4. CASE job[p].pc = "wait"
  <2> DEFINE s == IF p \in Packs THEN "project" ELSE "stage"
  <2>1. Goto(p, s) BY <1>4, LockLeads
  <2>2. s \in PCs BY DEF PCs, Critical, Installing
  <2>3. /\ JobsOK' /\ Others(p) /\ job'[p].pc = s
        /\ UNCHANGED <<job[p].bundle, job[p].committed, job[p].status, job[p].broken>>
    BY <1>1, <2>1, <2>2, Goes
  <2>4. Placed(p)' BY <1>1, <1>4, <2>3 DEF Proper, Placed, Installing, DeliveryAssumption, Early,
                                           Packing
  <2>5. Mannered(p)
    <3>1. p \in registered => p \notin Packs BY <1>1 DEF Rest, DeliveryAssumption
    <3> QED BY <1>1, <1>2, <1>3, <2>3, <3>1 DEF Mannered, Draining, Rest
  <2>6. p \notin Packs => job[p].bundle \in Generations BY <1>1, <1>4 DEF Proper, Held
  <2>7. job[p].pc \in (Early \cup Packing) \ {"sync"} /\ s \in (Early \cup Packing) \ {"sync"}
    BY <1>4 DEF Early, Packing
  <2>8. p \in Packs => s = "project" OBVIOUS
  <2> QED BY <1>2, <1>3, <2>3, <2>4, <2>5, <2>6, <2>7, <2>8, Advances
<1>5. ASSUME NEW s \in {"late", "late_blame", "rerecord"}, Goto(p, s),
             \/ job[p].pc = "late_wait" /\ s = "late"
             \/ job[p].pc = "late_blame_wait" /\ s = "late_blame"
             \/ job[p].pc = "rerecord_wait" /\ s = "rerecord"
      PROVE  IInv'
  <2>1. s \in PCs BY DEF PCs, Critical
  <2>2. /\ JobsOK' /\ Others(p) /\ job'[p].pc = s
        /\ UNCHANGED <<job[p].bundle, job[p].committed, job[p].status, job[p].broken>>
    BY <1>1, <1>5, <2>1, Goes
  <2>3. Placed(p)' BY <1>1, <1>5, <2>2 DEF Proper, Placed, Late, Early, Installing, Packing, Over
  <2>4. Committed(p)' BY <1>1, <1>3, <1>5, <2>2 DEF Proper, Committed, Early, Packing, Over
  <2>5. Said(p)' BY <1>1, <1>5, <2>2 DEF Proper, Said, Over, Early, Packing
  <2>6. Held(p)' BY <1>5, <2>2 DEF Held, Installed, Installing
  <2>7. Mannered(p)
    <3>1. p \notin registered BY <1>5, Unregistered DEF Draining
    <3> QED BY <1>1, <1>2, <1>3, <3>1 DEF Mannered, Rest
  <2>8. Owing(p) => Owing(p)' BY <1>5, <2>2 DEF Owing
  <2>9. Holding(p)' => Holding(p) BY <1>5, <2>2 DEF Holding, Late
  <2>10. s \notin {"recheck", "link"} BY <1>5
  <2>11. Proper(p)' BY <2>3, <2>4, <2>5, <2>6 DEF Proper
  <2> QED BY <1>2, <1>3, <2>2, <2>7, <2>8, <2>9, <2>10, <2>11, QuietStep
<1>6. job[p].pc \in {"wait", "late_wait", "late_blame_wait", "rerecord_wait"}
  BY <1>2 DEF Waiting
<1> QED BY <1>4, <1>5, <1>6, LockLeads

\* A command that does not get the lock owes nothing, or is excused.
LEMMA BusyKeeps ==
  ASSUME IInv, DeliveryAssumption, NEW p \in Commands, Busy(p) PROVE IInv'
<1>1. Proper(p) /\ JobsOK /\ Rest BY DEF IInv
<1>2. /\ UNCHANGED <<graph, place, record, output, registered, did, unaware>> /\ NoFault
      /\ excused' = (excused \/ job[p].pc \in {"late_wait", "rerecord_wait"})
  BY DEF Busy
<1>3. excused' \in BOOLEAN /\ (excused => excused') BY <1>1, <1>2 DEF Rest
<1>4. CASE job[p].pc = "wait"
  <2>1. ~job[p].committed BY <1>1, <1>4 DEF Proper, Committed, Early
  <2>2. IF p \in Installs THEN End(p, "raised") ELSE Break(p, "leave")
    BY <1>4 DEF Busy, At
  <2>3. CASE p \in Installs
    <3>1. p \notin registered BY <1>1, <2>3 DEF Rest, DeliveryAssumption
    <3>2. ~Owing(p) BY <2>1 DEF Owing
    <3> QED BY <1>2, <1>3, <2>2, <2>3, <3>1, <3>2, EndsQuietly DEF Statuses
  <2>4. CASE p \notin Installs
    <3>1. job[p].pc \notin Over \cup {"sync"} BY <1>4 DEF Over
    <3> QED BY <1>2, <1>3, <2>1, <2>2, <2>4, <3>1, Breaking
  <2> QED BY <2>3, <2>4
<1>5. CASE job[p].pc # "wait"
  <2>1. job[p].pc \in {"late_wait", "late_blame_wait", "rerecord_wait"}
    BY <1>5 DEF Busy, At
  <2>2. PICK s \in Statuses : End(p, s)
    <3>1. \/ End(p, IF p \in Packs THEN "output_recovery_required"
                    ELSE IF job[p].committed THEN "promoted_but_stale" ELSE "raised")
          \/ End(p, IF job[p].committed THEN "promoted_but_stale" ELSE "raised")
          \/ End(p, "promoted_but_stale")
      BY <1>5 DEF Busy, At
    <3> QED BY <3>1 DEF Statuses
  <2>3. p \notin registered BY <2>1, Unregistered DEF Draining
  <2>4. ~Owing(p) \/ excused' BY <1>2, <2>1 DEF Owing
  <2> QED BY <1>2, <1>3, <2>2, <2>3, <2>4, EndsQuietly
<1> QED BY <1>4, <1>5

\* A pull before its install.
LEMMA PullBegins ==
  ASSUME IInv, DeliveryAssumption, NEW p \in Commands,
         StartPull(p) \/ Inspect(p) \/ Download(p) \/ Attest(p) \/ Authorize(p)
  PROVE  IInv'
<1>1. Proper(p) /\ JobsOK /\ Rest BY DEF IInv
<1>2. /\ UNCHANGED <<graph, place, record, output, did, unaware, excused>> /\ NoFault
      /\ registered' = registered \/ (registered' = registered \cup {p} /\ Authorize(p))
  <2>1. CASE Authorize(p)
    <3>1. /\ UNCHANGED <<graph, place, record, output, did, unaware, excused>> /\ NoFault
          /\ registered' = registered \cup {p}
      BY <2>1 DEF Authorize
    <3> QED BY <2>1, <3>1
  <2>2. CASE StartPull(p) \/ Inspect(p) \/ Download(p) \/ Attest(p)
    <3>1. KeepAll /\ NoFault BY <2>2 DEF StartPull, Inspect, Download, Attest
    <3> QED BY <3>1 DEF KeepAll
  <2> QED BY <2>1, <2>2
<1>3. job[p].pc \in {"idle", "inspect", "download", "attest", "authorize"}
  BY DEF StartPull, Inspect, Download, Attest, Authorize, At
<1>4. p \in Pulls /\ p \notin Packs /\ p \notin Installs
  BY <1>1, <1>3 DEF StartPull, Inspect, Download, Attest, Authorize, At, Proper, Placed, Commands,
                    DeliveryAssumption, Packing, Late, Over, Installing
<1>5. PICK s \in {"inspect", "download", "attest", "authorize", "wait"} :
         /\ JobsOK' /\ Others(p) /\ job'[p].pc = s
         /\ UNCHANGED <<job[p].committed, job[p].status, job[p].broken>>
         /\ s \in {"attest", "authorize", "wait"} => job'[p].bundle \in Generations
         /\ Authorize(p) => s = "wait"
  <2>1. CASE StartPull(p)
    <3>1. "inspect" \in PCs /\ Set(p, [pc |-> "inspect", man |-> manifest])
      BY <2>1 DEF StartPull, PCs
    <3>2. ~Authorize(p) BY <2>1 DEF StartPull, Authorize, At
    <3>3. /\ JobsOK' /\ Others(p) /\ job'[p].pc = "inspect"
          /\ UNCHANGED <<job[p].committed, job[p].status, job[p].broken>>
      BY <1>1, <3>1, Reads DEF Rest
    <3> QED BY <3>2, <3>3
  <2>2. CASE Inspect(p)
    <3>1. "download" \in PCs /\ Set(p, [pc |-> "download", staged |-> files])
      BY <2>2 DEF Inspect, PCs
    <3>2. ~Authorize(p) BY <2>2 DEF Inspect, Authorize, At
    <3>3. /\ JobsOK' /\ Others(p) /\ job'[p].pc = "download"
          /\ UNCHANGED <<job[p].committed, job[p].status, job[p].broken>>
      BY <1>1, <3>1, Reads DEF Rest
    <3> QED BY <3>2, <3>3
  <2>3. CASE Download(p)
    <3>1. PICK g \in Generations : Set(p, [pc |-> "attest", bundle |-> g, remote |-> TRUE])
      BY <2>3 DEF Download
    <3>2. "attest" \in PCs /\ g \in Maybe(Generations) BY DEF PCs, Maybe
    <3>3. ~Authorize(p) BY <2>3 DEF Download, Authorize, At
    <3> QED BY <1>1, <3>1, <3>2, <3>3, Opens
  <2>4. CASE Attest(p)
    <3>1. "authorize" \in PCs /\ Goto(p, "authorize") BY <2>4 DEF Attest, PCs
    <3>2. job[p].bundle \in Generations BY <1>1, <1>4, <2>4 DEF Proper, Held, Attest, At
    <3>3. ~Authorize(p) BY <2>4 DEF Attest, Authorize, At
    <3> QED BY <1>1, <3>1, <3>2, <3>3, Goes
  <2>5. CASE Authorize(p)
    <3>1. "wait" \in PCs /\ Goto(p, "wait") BY <2>5 DEF Authorize, PCs, Waiting
    <3>2. job[p].bundle \in Generations BY <1>1, <1>4, <2>5 DEF Proper, Held, Authorize, At
    <3> QED BY <1>1, <3>1, <3>2, Goes
  <2> QED BY <2>1, <2>2, <2>3, <2>4, <2>5
<1>6. Placed(p)' BY <1>4, <1>5 DEF Placed, Early
<1>7. Mannered(p)
  <2>1. registered' = registered => p \notin registered \/ job'[p].pc \in Draining
    BY <1>3, Unregistered DEF Draining
  <2> QED BY <1>1, <1>2, <1>4, <1>5, <2>1 DEF Mannered, Critical, Installing, Draining, Rest
<1>8. job[p].pc \in Early \ Packing /\ job'[p].pc \in Early \ Packing BY <1>3, <1>5 DEF Early, Packing
<1>9. job'[p].pc \in {"attest", "authorize", "wait"} \cup Installing => job'[p].bundle \in Generations
  BY <1>5 DEF Installing
<1>10. job[p].pc # "sync" /\ job'[p].pc # "sync" BY <1>3, <1>5
<1> QED BY <1>2, <1>4, <1>5, <1>6, <1>7, <1>8, <1>9, <1>10, Advances

\* A pull that fails before its install.
LEMMA PullBreaks ==
  ASSUME IInv, DeliveryAssumption, NEW p \in Commands, ManifestChanged(p) \/ PullFailed(p)
  PROVE  IInv'
<1>1. Proper(p) /\ JobsOK /\ Rest BY DEF IInv
<1>2. /\ KeepAll /\ (NoFault \/ Fault) /\ Break(p, "leave")
      /\ job[p].pc \in {"inspect", "download", "attest", "authorize"}
  BY DEF ManifestChanged, PullFailed
<1>3. p \notin Installs BY <1>1, <1>2 DEF Proper, Placed, Installing, Over
<1>4. ~job[p].committed /\ job[p].pc \notin Over \cup {"sync"} BY <1>1, <1>2 DEF Proper, Committed, Early, Over
<1> QED BY <1>1, <1>2, <1>3, <1>4, Breaking DEF KeepAll, Rest

\* An install up to its promotion.
LEMMA InstallBegins ==
  ASSUME IInv, DeliveryAssumption, NEW p \in Commands,
         Stage(p) \/ Parse(p) \/ Admit(p) \/ Compare(p)
  PROVE  IInv'
<1>1. Proper(p) /\ JobsOK /\ Rest BY DEF IInv
<1>2. job[p].pc \in {"stage", "parse", "admit", "compare"} BY DEF Stage, Parse, Admit, Compare, At
<1>3. p \notin Packs /\ job[p].bundle \in Generations
  BY <1>1, <1>2 DEF Proper, Placed, Held, Packing, Late, Over, Installing
<1>4. ~job[p].committed /\ job[p].pc \notin Over \cup {"sync"} /\ job[p].pc \in Critical \cap Early
  BY <1>1, <1>2 DEF Proper, Committed, Early, Over, Critical, Installing
<1>5. /\ UNCHANGED <<graph, place, record, output, did, unaware, excused>> /\ NoFault /\ excused' \in BOOLEAN
      /\ registered' \subseteq registered /\ (Admit(p) => p \notin registered')
  <2>1. CASE Admit(p)
    <3>1. /\ UNCHANGED <<graph, place, record, output, did, unaware, excused>> /\ NoFault
          /\ registered' = registered \ {p}
      BY <2>1 DEF Admit
    <3> QED BY <1>1, <3>1 DEF Rest
  <2>2. CASE ~Admit(p) BY <1>1, <2>2 DEF Stage, Parse, Compare, KeepAll, Rest
  <2> QED BY <2>1, <2>2
<1>6. CASE Refused(p) BY <1>3, <1>4, <1>5, <1>6, Refusing
<1>7. CASE Break(p, "exit") BY <1>3, <1>4, <1>5, <1>7, Breaking
<1>8. ASSUME NEW s \in {"parse", "admit", "compare", "promote"},
             JobsOK', Others(p), job'[p].pc = s,
             UNCHANGED <<job[p].bundle, job[p].committed, job[p].status, job[p].broken>>,
             p \in registered' => s \in Draining
      PROVE  IInv'
  <2>1. s \in Installing \cap Early /\ s \in Critical /\ s \notin Packing
    BY DEF Installing, Early, Critical, Packing
  <2>2. Placed(p)'
    BY <1>1, <1>2, <1>3, <1>8, <2>1 DEF Proper, Placed
  <2>3. Mannered(p) BY <1>1, <1>4, <1>5, <1>8 DEF Mannered, Rest
  <2> QED BY <1>3, <1>4, <1>5, <1>8, <2>1, <2>2, <2>3, Advances
<1>9. CASE Stage(p) /\ ~Refused(p)
  <2>1. Set(p, [pc |-> "parse", staged |-> files, man |-> manifest]) BY <1>9 DEF Stage
  <2>2. "parse" \in PCs BY DEF PCs, Critical, Installing
  <2>3. /\ JobsOK' /\ Others(p) /\ job'[p].pc = "parse"
        /\ UNCHANGED <<job[p].bundle, job[p].committed, job[p].status, job[p].broken>>
    BY <1>1, <2>1, <2>2, Reads DEF Rest
  <2> QED BY <1>8, <2>3 DEF Draining
<1>10. ASSUME NEW s \in {"admit", "compare", "promote"}, Goto(p, s),
              p \in registered' => s = "admit"
       PROVE  IInv'
  <2>1. s \in PCs BY DEF PCs, Critical, Installing
  <2>2. /\ JobsOK' /\ Others(p) /\ job'[p].pc = s
        /\ UNCHANGED <<job[p].bundle, job[p].committed, job[p].status, job[p].broken>>
    BY <1>1, <1>10, <2>1, Goes
  <2> QED BY <1>8, <1>10, <2>2 DEF Draining
<1>11. CASE Parse(p) /\ ~Break(p, "exit")
  <2>1. Goto(p, "admit") BY <1>11 DEF Parse
  <2> QED BY <1>10, <2>1
<1>12. CASE Admit(p) /\ ~Break(p, "exit")
  <2>1. Goto(p, "compare") BY <1>12 DEF Admit
  <2> QED BY <1>5, <1>10, <1>12, <2>1
<1>13. CASE Compare(p) /\ ~Break(p, "exit")
  <2>1. Goto(p, "promote") /\ job[p].pc = "compare" BY <1>13 DEF Compare, At
  <2>2. p \notin registered' BY <1>5, <2>1, Unregistered DEF Draining
  <2> QED BY <1>10, <2>1, <2>2
<1> QED BY <1>6, <1>7, <1>9, <1>11, <1>12, <1>13

\* A promotion makes the graph the bundle, and its command the one that owes the record.
LEMMA PromoteKeeps ==
  ASSUME IInv, DeliveryAssumption, NEW p \in Commands, Promote(p) PROVE IInv'
<1>1. Proper(p) /\ JobsOK /\ Rest /\ Kept BY DEF IInv
<1>2. /\ job[p].pc = "promote" /\ graph' = job[p].bundle /\ place' = graph' /\ NoFault
      /\ did' = (IF graph = graph' THEN did ELSE did \cup {p})
      /\ UNCHANGED <<record, unaware, excused, output, registered>>
  BY DEF Promote, At, Outside
<1>3. /\ p \notin Packs /\ job[p].bundle \in Generations /\ ~job[p].committed /\ ~job[p].broken
      /\ p \notin did \ unaware /\ p \notin unaware
  BY <1>1, <1>2 DEF Proper, Placed, Held, Committed, Packing, Late, Over, Installing, Early
<1> DEFINE b == graph # graph'
<1>4. Set(p, [pc |-> "verify", committed |-> b]) /\ "verify" \in PCs /\ b \in BOOLEAN
  BY DEF Promote, PCs, Critical, Installing
<1>5. /\ JobsOK' /\ Others(p) /\ job'[p].pc = "verify" /\ job'[p].committed = b
      /\ UNCHANGED <<job[p].bundle, job[p].status, job[p].broken>>
  <2> HIDE DEF b
  <2> QED BY <1>1, <1>4, Commits
<1>6. Rest' BY <1>1, <1>2, <1>3, Frames DEF Rest, Maybe
<1>7. Kept'
  <2>1. ~Holding(p)' BY <1>3 DEF Holding
  <2> QED BY <1>1, <1>2, <1>3, <1>5, <2>1, KeptStays
<1>8. Placed(p)' BY <1>1, <1>2, <1>3, <1>5 DEF Proper, Placed, Installing, Early, Over
<1>9. Committed(p)' BY <1>2, <1>3, <1>5 DEF Committed, Early, Packing
<1>10. Said(p)' BY <1>1, <1>2, <1>3, <1>5 DEF Proper, Said, Early, Packing, Over
<1>11. Held(p)' BY <1>2, <1>3, <1>5 DEF Held, Installed
<1>12. Mannered(p)
  <2>1. p \notin registered BY <1>2, Unregistered DEF Draining
  <2> QED BY <1>1, <1>2, <2>1 DEF Mannered, Critical, Installing, Rest
<1>13. Settled(p) BY <1>2, <1>3, <1>5 DEF Settled, Owing
<1>14. Proper(p)' BY <1>8, <1>9, <1>10, <1>11 DEF Proper
<1>15. did' \ {p} = did \ {p} /\ job[p].pc \in Critical BY <1>2 DEF Critical, Installing
<1> QED BY <1>2, <1>5, <1>6, <1>7, <1>12, <1>13, <1>14, <1>15, StepKeeps

\* A promotion that fails leaves the graph, or has been undone after its commit.
LEMMA PromoteFailedKeeps ==
  ASSUME IInv, DeliveryAssumption, NEW p \in Commands, PromoteFailed(p) PROVE IInv'
<1>1. Proper(p) /\ JobsOK /\ Rest /\ Kept BY DEF IInv
<1>2. /\ job[p].pc = "promote" /\ Fault
      /\ place' \in Halfway(p)
      /\ \/ UNCHANGED <<graph, did, unaware, excused>>
         \/ /\ graph' \in {None, job[p].bundle} /\ excused' = TRUE
            /\ did' = did \cup {p} /\ unaware' = unaware \cup {p}
      /\ Break(p, "exit")
      /\ UNCHANGED <<record, output, registered>>
  BY DEF PromoteFailed, At, Outside, Halfway
<1>3. p \notin Packs /\ ~job[p].committed /\ job[p].bundle \in Generations
  BY <1>1, <1>2 DEF Proper, Placed, Committed, Held, Installing, Packing, Late, Over, Early
<1>4. "exit" \in PCs BY DEF PCs, Critical
<1>5. /\ JobsOK' /\ Others(p) /\ job'[p].pc = "exit" /\ job'[p].broken
      /\ UNCHANGED <<job[p].bundle, job[p].committed, job[p].status>>
  BY <1>1, <1>2, <1>4, Breaks
<1>6. Rest' BY <1>1, <1>2, <1>3, Frames DEF Rest, Maybe, Halfway
<1>7. Kept'
  <2>1. ~Holding(p)' BY <1>3 DEF Holding
  <2> QED BY <1>1, <1>2, <1>3, <1>5, <2>1, KeptStays
<1>8. Placed(p)' BY <1>1, <1>2, <1>3, <1>5 DEF Proper, Placed, Installing, Early, Over
<1>9. Committed(p)' BY <1>1, <1>2, <1>3, <1>5 DEF Proper, Committed, Early, Packing, Over
<1>10. Said(p)' BY <1>1, <1>2, <1>3, <1>5 DEF Proper, Said, Over, Early, Packing
<1>11. Held(p)' BY <1>5 DEF Held, Installed, Installing
<1>12. Mannered(p)
  <2>1. p \notin registered BY <1>2, Unregistered DEF Draining
  <2> QED BY <1>1, <1>2, <2>1 DEF Mannered, Critical, Installing, Rest
<1>13. Settled(p) BY <1>2, <1>3 DEF Settled, Owing
<1>14. Proper(p)' BY <1>8, <1>9, <1>10, <1>11 DEF Proper
<1>15. job[p].pc \in Critical BY <1>2 DEF Critical, Installing
<1> QED BY <1>2, <1>5, <1>6, <1>7, <1>12, <1>13, <1>14, <1>15, StepKeeps

\* What is verified is the graph, as long as the lock is held.
LEMMA VerifyKeeps ==
  ASSUME IInv, DeliveryAssumption, NEW p \in Commands, Verify(p) PROVE IInv'
<1>1. Proper(p) /\ JobsOK /\ Rest /\ Kept BY DEF IInv
<1>2. /\ job[p].pc = "verify" /\ UNCHANGED <<graph, place, record, did, unaware, output, registered>>
      /\ NoFault \/ Fault
  BY DEF Verify, At, Outside
<1>3. /\ JobsOK' /\ Others(p) /\ job'[p].pc = "after"
      /\ UNCHANGED <<job[p].bundle, job[p].committed, job[p].status, job[p].broken>>
      /\ \/ job'[p].installed = graph /\ excused' = excused
         \/ excused'
      /\ excused' \in BOOLEAN /\ (excused => excused')
  <2>1. "after" \in PCs /\ graph \in Maybe(Generations) /\ place = graph
    BY <1>1, <1>2 DEF PCs, Critical, Installing, Rest, Proper, Held, Installed
  <2>2. CASE Set(p, [pc |-> "after", installed |-> place]) /\ UNCHANGED excused
    BY <1>1, <2>1, <2>2, Finds DEF Rest
  <2>3. CASE Goto(p, "after") /\ excused' = TRUE BY <1>1, <2>1, <2>3, Goes
  <2> QED BY <2>2, <2>3 DEF Verify
<1>4. p \notin Packs BY <1>1, <1>2 DEF Proper, Placed, Packing, Late, Over
<1>5. Placed(p)' BY <1>1, <1>2, <1>3, <1>4 DEF Proper, Placed, Installing, Early, Over, Late
<1>6. Committed(p)' BY <1>1, <1>2, <1>3, <1>4 DEF Proper, Committed, Early, Packing, Over
<1>7. Said(p)' BY <1>1, <1>2, <1>3, <1>4 DEF Proper, Said, Over, Early, Packing
<1>8. Held(p)' BY <1>1, <1>2, <1>3, <1>4 DEF Proper, Held, Installed, Installing
<1>9. Mannered(p)
  <2>1. p \notin registered BY <1>2, Unregistered DEF Draining
  <2> QED BY <1>1, <1>2, <2>1 DEF Mannered, Critical, Installing, Rest
<1>10. Owing(p) => Owing(p)' BY <1>2, <1>3 DEF Owing
<1>11. Proper(p)' /\ ~Holding(p)' BY <1>4, <1>5, <1>6, <1>7, <1>8 DEF Proper, Holding
<1> QED BY <1>2, <1>3, <1>4, <1>9, <1>10, <1>11, QuietStep

\* The answer says whether the graph was changed.
LEMMA AfterKeeps ==
  ASSUME IInv, DeliveryAssumption, NEW p \in Commands, After(p) PROVE IInv'
<1>1. Proper(p) /\ JobsOK /\ Rest BY DEF IInv
<1>2. /\ job[p].pc = "after" /\ NoFault /\ excused' \in BOOLEAN
      /\ UNCHANGED <<graph, place, record, did, unaware, output, registered, excused>>
  BY <1>1 DEF After, At, KeepAll, Rest
<1>3. PICK t \in {"installed", "already_current", "promoted_but_stale"} :
         /\ Set(p, [pc |-> "exit", status |-> t])
         /\ t = "installed" => job[p].committed
         /\ t = "already_current" => ~job[p].committed
  BY DEF After
<1>4. /\ JobsOK' /\ Others(p) /\ job'[p].pc = "exit" /\ job'[p].status = t
      /\ UNCHANGED <<job[p].bundle, job[p].committed, job[p].installed, job[p].broken>>
  <2>1. "exit" \in PCs /\ t \in Statuses BY DEF PCs, Critical, Statuses
  <2> QED BY <1>1, <1>3, <2>1, Says
<1>5. p \notin Packs /\ ~job[p].broken
  BY <1>1, <1>2 DEF Proper, Placed, Committed, Packing, Late, Over
<1>6. Placed(p)' BY <1>1, <1>2, <1>4, <1>5 DEF Proper, Placed, Installing, Early, Over, Late
<1>7. Committed(p)' BY <1>1, <1>2, <1>4, <1>5 DEF Proper, Committed, Early, Packing, Over
<1>8. Said(p)' BY <1>3, <1>4, <1>5 DEF Said, Early, Packing
<1>9. Held(p)' BY <1>1, <1>2, <1>4, <1>5 DEF Proper, Held, Installed, Installing
<1>10. Mannered(p)
  <2>1. p \notin registered BY <1>2, Unregistered DEF Draining
  <2> QED BY <1>1, <1>2, <2>1 DEF Mannered, Critical, Installing, Rest
<1>11. Owing(p) => Owing(p)' BY <1>4 DEF Owing
<1>12. Proper(p)' /\ ~Holding(p)' BY <1>5, <1>6, <1>7, <1>8, <1>9 DEF Proper, Holding
<1> QED BY <1>2, <1>4, <1>5, <1>10, <1>11, <1>12, QuietStep

\* A failure before or after the promotion leaves through the exit.
LEMMA InstallFailedKeeps ==
  ASSUME IInv, DeliveryAssumption, NEW p \in Commands, InstallFailed(p) PROVE IInv'
<1>1. Proper(p) /\ Rest BY DEF IInv
<1>2. /\ job[p].pc \in Installing /\ Break(p, "exit") /\ Fault /\ excused' \in BOOLEAN
      /\ UNCHANGED <<graph, place, record, did, unaware, output, registered, excused>>
  BY <1>1 DEF InstallFailed, KeepAll, Rest
<1>3. p \notin Packs /\ job[p].pc \in Critical /\ job[p].pc \notin Over \cup {"sync"}
  BY <1>1, <1>2 DEF Proper, Placed, Packing, Late, Over, Installing, Critical
<1> QED BY <1>2, <1>3, Breaking

\* A command that has promoted leaves the lock, its authorization used up.
LEMMA ExitsTo ==
  ASSUME IInv, DeliveryAssumption, NEW p \in Commands, p \notin Packs, job[p].pc = "exit",
         NEW s \in {"record", "rerecord_wait", "handoff", "done"},
         JobsOK', Others(p), job'[p].pc = s, ~job'[p].broken,
         UNCHANGED <<job[p].bundle, job[p].committed>>,
         \/ job'[p].status = "promoted_but_stale"
         \/ job'[p].status = job[p].status,
         s \in {"rerecord_wait", "record"} => p \in Installs, s = "handoff" => p \in Pulls,
         s = "record" => ~job[p].broken /\ job'[p].installed = job[p].installed,
         s = "done" => ~Owing(p) \/ excused', job[p].committed \/ ~job[p].broken,
         UNCHANGED <<graph, place, record, output, did, unaware>>, NoFault \/ Fault,
         excused => excused', excused' \in BOOLEAN, registered' = registered \ {p}
  PROVE  IInv'
<1>1. Proper(p) /\ Rest BY DEF IInv
<1>2. Placed(p)' BY DEF Placed, Over, DeliveryAssumption
<1>3. Committed(p)' BY <1>1 DEF Proper, Committed, Early, Packing, Over
<1>4. Said(p)' BY <1>1 DEF Proper, Said, Early, Packing, Over
<1>5. Held(p)' BY <1>1 DEF Proper, Held, Installed, Installing
<1>6. Mannered(p) BY <1>1 DEF Mannered, Critical, Rest
<1>7. Owing(p) => excused' \/ Owing(p)' BY DEF Owing
<1>8. Proper(p)' /\ ~Holding(p)' BY <1>2, <1>3, <1>4, <1>5 DEF Proper, Holding
<1> QED BY <1>6, <1>7, <1>8, QuietStep

\* Whatever an install comes to, it leaves the lock with it.
LEMMA ExitKeeps ==
  ASSUME IInv, DeliveryAssumption, NEW p \in Commands, Exit(p) \/ ExitUnclean(p)
  PROVE  IInv'
<1>1. Proper(p) /\ JobsOK /\ Rest BY DEF IInv
<1>2. /\ job[p].pc = "exit" /\ UNCHANGED <<graph, place, record, output, did, unaware>>
      /\ registered' = registered \ {p} /\ (NoFault \/ Fault)
      /\ excused => excused'
  <2>1. CASE Exit(p)
    <3>1. /\ At(p, "exit") /\ registered' = registered \ {p} /\ NoFault
          /\ UNCHANGED <<graph, place, record, output, did, unaware, excused>>
      BY <2>1, Zenon DEF Exit
    <3> QED BY <3>1 DEF At
  <2>2. CASE ExitUnclean(p) BY <2>2 DEF ExitUnclean, At
  <2> QED BY <2>1, <2>2
<1>3. /\ p \notin Packs /\ job[p].pc \notin Over \cup {"sync"}
      /\ p \in Installs \/ p \in Pulls
  BY <1>1, <1>2 DEF Proper, Placed, Packing, Late, Over, Commands
<1>4. excused' \in BOOLEAN BY <1>1 DEF Exit, ExitUnclean, Rest
<1>5. job[p].committed \in BOOLEAN /\ job[p].broken \in BOOLEAN BY <1>1 DEF JobsOK, Job
<1>6. CASE Refused(p) /\ ~job[p].committed BY <1>2, <1>3, <1>4, <1>6, Refusing
<1>7. CASE Exit(p) /\ job[p].broken /\ job[p].committed
  <2> DEFINE s == IF p \in Installs THEN "rerecord_wait" ELSE "handoff"
  <2>1. Set(p, [pc |-> s, broken |-> FALSE, status |-> "promoted_but_stale"]) BY <1>7 DEF Exit
  <2>2. s \in PCs /\ "promoted_but_stale" \in Statuses BY DEF PCs, Waiting, Statuses
  <2>3. /\ JobsOK' /\ Others(p) /\ job'[p].pc = s /\ ~job'[p].broken
        /\ job'[p].status = "promoted_but_stale"
        /\ UNCHANGED <<job[p].bundle, job[p].committed>>
    <3> HIDE DEF s
    <3> QED BY <1>1, <2>1, <2>2, Mends
  <2> QED BY <1>2, <1>3, <1>4, <1>7, <2>3, ExitsTo
<1>8. CASE Exit(p) /\ ~job[p].broken
  <2> DEFINE s == IF p \in Installs THEN "record" ELSE "handoff"
  <2>1. Goto(p, s) BY <1>8 DEF Exit
  <2>2. s \in PCs BY DEF PCs, Critical
  <2>3. /\ JobsOK' /\ Others(p) /\ job'[p].pc = s
        /\ UNCHANGED <<job[p].bundle, job[p].committed, job[p].status, job[p].broken,
                       job[p].installed>>
    <3> HIDE DEF s
    <3> QED BY <1>1, <2>1, <2>2, Goes
  <2> QED BY <1>2, <1>3, <1>4, <1>8, <2>3, ExitsTo
<1>9. CASE ExitUnclean(p) /\ job[p].committed
  <2> DEFINE s == IF p \in Pulls THEN "handoff"
                  ELSE IF job[p].broken THEN "rerecord_wait" ELSE "done"
  <2>1. Set(p, [pc |-> s, broken |-> FALSE, status |-> "promoted_but_stale"])
    BY <1>9 DEF ExitUnclean
  <2>2. s \in PCs /\ "promoted_but_stale" \in Statuses BY DEF PCs, Waiting, Over, Statuses
  <2>3. /\ JobsOK' /\ Others(p) /\ job'[p].pc = s /\ ~job'[p].broken
        /\ job'[p].status = "promoted_but_stale"
        /\ UNCHANGED <<job[p].bundle, job[p].committed>>
    <3> HIDE DEF s
    <3> QED BY <1>1, <2>1, <2>2, Mends
  <2>4. s = "done" => excused' BY <1>3, <1>9 DEF ExitUnclean
  <2> QED BY <1>2, <1>3, <1>4, <1>9, <2>3, <2>4, ExitsTo
<1>10. CASE Exit(p) /\ job[p].broken /\ ~job[p].committed
  <2>1. Refused(p) BY <1>10 DEF Exit
  <2> QED BY <1>6, <1>10, <2>1
<1>11. CASE ExitUnclean(p) /\ ~job[p].committed
  <2>1. Refused(p) BY <1>11 DEF ExitUnclean
  <2> QED BY <1>6, <1>11, <2>1
<1> QED BY <1>7, <1>8, <1>9, <1>10, <1>11

\* What is recorded under the lock of the promotion is what was installed.
LEMMA Truthful ==
  ASSUME IInv, DeliveryAssumption, NEW p \in Commands, job[p].pc = "record",
         Success(p) \/ UNCHANGED record
  PROVE  record' = record \/ excused \/ record' = graph
<1>1. Proper(p) BY DEF IInv
<1>2. graph \in Generations /\ (~excused => job[p].installed = graph)
  BY <1>1 DEF Proper, Held, Installed
<1>3. None \notin Generations BY DEF DeliveryAssumption
<1> QED BY <1>2, <1>3 DEF Success

\* What is recorded is a generation or what was recorded.
LEMMA RecordTyped ==
  ASSUME JobsOK, Rest, NEW p \in Commands, Success(p) \/ UNCHANGED record
  PROVE  record' \in Maybe(Generations)
<1>1. job[p] \in Job BY DEF JobsOK
<1>2. job[p].installed \in Maybe(Generations) BY <1>1 DEF Job
<1> QED BY <1>2 DEF Success, Rest

\* An install records under the lock of its promotion, or will try again.
LEMMA RecordKeeps ==
  ASSUME IInv, DeliveryAssumption, NEW p \in Commands, RecordOutcome(p) \/ RecordFailed(p)
  PROVE  IInv'
<1>1. Proper(p) /\ JobsOK /\ Rest /\ Kept BY DEF IInv
<1>2. /\ job[p].pc = "record" /\ UNCHANGED <<graph, place, output, did, unaware, registered, excused>>
      /\ NoFault \/ Fault
      /\ Success(p) \/ UNCHANGED record
  BY DEF RecordOutcome, RecordFailed, At, Outside
<1>3. Rest'
  <2>1. record' \in Maybe(Generations) BY <1>1, <1>2, RecordTyped
  <2> QED BY <1>1, <1>2, <2>1, Frames DEF Rest
<1>4. p \in Installs /\ p \notin Packs
  BY <1>1, <1>2 DEF Proper, Placed, Installing, Early, Packing, Late, Over, Commands
<1>5. p \notin registered BY <1>1, <1>4 DEF Rest, DeliveryAssumption
<1>6. record' = record \/ excused' \/ record' = graph' BY <1>2, Truthful
<1>7. ASSUME NEW s \in Statuses, End(p, s), ~Owing(p) \/ record' = graph' \/ excused'
      PROVE  IInv'
  <2>1. Settled(p) BY <1>2, <1>6, <1>7 DEF Settled
  <2> QED BY <1>2, <1>3, <1>5, <1>7, <2>1, Ending
<1>8. CASE RecordOutcome(p)
  <2>1. End(p, job[p].status) /\ job[p].status \in Statuses
    <3>1. job[p] \in Job BY <1>1 DEF JobsOK
    <3> QED BY <1>8, <3>1 DEF RecordOutcome, Job
  <2>2. excused' \/ record' = graph'
    <3>1. graph \in Generations /\ (~excused => job[p].installed = graph)
      BY <1>1, <1>2 DEF Proper, Held, Installed
    <3>2. None \notin Generations BY DEF DeliveryAssumption
    <3> QED BY <1>2, <1>8, <3>1, <3>2 DEF RecordOutcome, Success
  <2> QED BY <1>7, <2>1, <2>2
<1>9. CASE RecordFailed(p) /\ ~job[p].committed
  <2>1. End(p, "raised") BY <1>4, <1>9 DEF RecordFailed, Refused
  <2>2. ~Owing(p) BY <1>9 DEF Owing
  <2> QED BY <1>7, <2>1, <2>2 DEF Statuses
<1>10. CASE RecordFailed(p) /\ job[p].committed
  <2>1. Set(p, [pc |-> "rerecord_wait", status |-> "promoted_but_stale"])
    BY <1>10 DEF RecordFailed
  <2>2. "rerecord_wait" \in PCs /\ "promoted_but_stale" \in Statuses
    BY DEF PCs, Waiting, Statuses
  <2>3. /\ JobsOK' /\ Others(p) /\ job'[p].pc = "rerecord_wait"
        /\ job'[p].status = "promoted_but_stale"
        /\ UNCHANGED <<job[p].bundle, job[p].committed, job[p].broken>>
    BY <1>1, <2>1, <2>2, Says
  <2>4. Placed(p)' BY <1>4, <2>3 DEF Placed, DeliveryAssumption
  <2>5. Committed(p)' BY <1>1, <1>2, <1>4, <2>3 DEF Proper, Committed, Early, Packing, Over
  <2>6. Said(p)' BY <1>4, <2>3 DEF Said, Early, Packing
  <2>7. Held(p)' BY <2>3 DEF Held, Installed, Installing
  <2>8. Kept'
    <3>1. ~Holding(p)' BY <1>4 DEF Holding
    <3> QED BY <1>1, <1>2, <1>4, <2>3, <3>1, KeptStays
  <2>9. Mannered(p) BY <1>1, <1>2, <1>5, <2>3 DEF Mannered, Critical, Installing, Rest
  <2>10. Settled(p) BY <1>4, <1>10, <2>3 DEF Settled, Owing
  <2>11. Proper(p)' BY <2>4, <2>5, <2>6, <2>7 DEF Proper
  <2> QED BY <1>2, <1>3, <2>3, <2>8, <2>9, <2>10, <2>11, StepKeeps
<1> QED BY <1>8, <1>9, <1>10

\* The second attempt records the graph, or is excused.
LEMMA RerecordKeeps ==
  ASSUME IInv, DeliveryAssumption, NEW p \in Commands, Rerecord(p) \/ RerecordFailed(p)
  PROVE  IInv'
<1>1. JobsOK /\ Rest BY DEF IInv
<1>2. /\ job[p].pc = "rerecord" /\ UNCHANGED <<graph, place, output, did, unaware, registered>>
      /\ NoFault \/ Fault
      /\ Success(p) \/ UNCHANGED record
      /\ End(p, "promoted_but_stale")
      /\ excused' = (excused \/ record' # graph) \/ excused' = TRUE
  BY DEF Rerecord, RerecordFailed, At, Outside, Overtaken
<1>3. excused' \in BOOLEAN /\ (excused => excused') BY <1>1, <1>2 DEF Rest
<1>4. Rest'
  <2>1. record' \in Maybe(Generations) BY <1>1, <1>2, RecordTyped
  <2> QED BY <1>1, <1>2, <1>3, <2>1, Frames DEF Rest
<1>5. p \notin registered BY <1>2, Unregistered DEF Draining
<1>6. Settled(p) BY <1>2 DEF Settled
<1> QED BY <1>2, <1>3, <1>4, <1>5, <1>6, Ending DEF Statuses

\* A pull takes the answer of its install.
LEMMA HandoffKeeps ==
  ASSUME IInv, DeliveryAssumption, NEW p \in Commands, Handoff(p) PROVE IInv'
<1>1. Proper(p) /\ JobsOK /\ Rest BY DEF IInv
<1>2. /\ job[p].pc = "handoff" /\ NoFault /\ excused' \in BOOLEAN
      /\ UNCHANGED <<graph, place, record, did, unaware, output, registered, excused>>
  BY <1>1 DEF Handoff, At, KeepAll, Rest
<1>3. PICK t \in Statuses :
         /\ Set(p, [pc |-> "leave", status |-> t])
         /\ t = job[p].status \/ t = "promoted_but_stale"
  <2>1. job[p] \in Job BY <1>1 DEF JobsOK
  <2>2. job[p].status \in Statuses BY <2>1 DEF Job
  <2> QED BY <2>2 DEF Handoff, Statuses
<1>4. /\ JobsOK' /\ Others(p) /\ job'[p].pc = "leave" /\ job'[p].status = t
      /\ UNCHANGED <<job[p].bundle, job[p].committed, job[p].installed, job[p].broken>>
  <2>1. "leave" \in PCs BY DEF PCs
  <2> QED BY <1>1, <1>3, <2>1, Says
<1>5. p \notin Packs /\ p \notin Installs
  BY <1>1, <1>2 DEF Proper, Placed, Packing, Late, Over, Installing
<1>6. Placed(p)' BY <1>4, <1>5 DEF Placed, Late
<1>7. Committed(p)' BY <1>1, <1>2, <1>4, <1>5 DEF Proper, Committed, Early, Packing, Over
<1>8. Said(p)' BY <1>1, <1>2, <1>3, <1>4, <1>5 DEF Proper, Said, Early, Packing, Over
<1>9. Held(p)' BY <1>4 DEF Held, Installed, Installing
<1>10. Mannered(p)
  <2>1. p \notin registered BY <1>2, Unregistered DEF Draining
  <2> QED BY <1>1, <1>2, <1>4, <2>1 DEF Mannered, Critical, Installing, Rest
<1>11. Owing(p) => Owing(p)' BY <1>4 DEF Owing
<1>12. Proper(p)' /\ ~Holding(p)' BY <1>5, <1>6, <1>7, <1>8, <1>9 DEF Proper, Holding
<1> QED BY <1>2, <1>4, <1>5, <1>10, <1>11, <1>12, QuietStep

\* With no exception under way it comes back for the lock to record.
LEMMA ComesBack ==
  ASSUME IInv, DeliveryAssumption, NEW p \in Commands, job[p].pc = "leave", ~job[p].broken,
         JobsOK', Others(p), job'[p].pc = "late_wait",
         UNCHANGED <<job[p].bundle, job[p].committed, job[p].broken>>,
         \/ job'[p].status = job[p].status
         \/ p \notin Packs /\ job'[p].status = "promoted_but_stale",
         UNCHANGED <<graph, place, record, output, did, unaware, excused>>, NoFault \/ Fault,
         registered' = registered \ {p}
  PROVE  IInv'
<1>1. Proper(p) /\ Rest BY DEF IInv
<1>2. Placed(p)' BY <1>1 DEF Proper, Placed, Late, Installing, Over
<1>3. Committed(p)' BY <1>1 DEF Proper, Committed, Early, Packing, Over
<1>4. Said(p)' BY <1>1 DEF Proper, Said, Early, Packing, Over
<1>5. Held(p)' BY DEF Held, Installed, Installing
<1>6. Mannered(p) BY <1>1 DEF Mannered, Critical, Installing, Rest
<1>7. Owing(p) => Owing(p)' BY DEF Owing
<1>8. Holding(p)' => Holding(p) BY DEF Holding, Late
<1>9. Proper(p)' /\ excused' \in BOOLEAN BY <1>1, <1>2, <1>3, <1>4, <1>5 DEF Proper, Rest
<1> QED BY <1>6, <1>7, <1>8, <1>9, QuietStep

\* A pull or pack leaves its directory and comes back to record, or is over.
LEMMA LeaveKeeps ==
  ASSUME IInv, DeliveryAssumption, NEW p \in Commands, Leave(p) \/ LeaveUnclean(p)
  PROVE  IInv'
<1>1. Proper(p) /\ JobsOK /\ Rest BY DEF IInv
<1>2. /\ job[p].pc = "leave" /\ UNCHANGED <<graph, place, record, output, did, unaware, excused>>
      /\ registered' = registered \ {p} /\ (NoFault \/ Fault)
  <2>1. CASE Leave(p)
    <3>1. /\ At(p, "leave") /\ registered' = registered \ {p} /\ NoFault
          /\ UNCHANGED <<graph, place, record, output, did, unaware, excused>>
      BY <2>1, Zenon DEF Leave
    <3> QED BY <3>1 DEF At
  <2>2. CASE LeaveUnclean(p) BY <2>2 DEF LeaveUnclean, At
  <2> QED BY <2>1, <2>2
<1>3. excused' \in BOOLEAN BY <1>1, <1>2 DEF Rest
<1>4. job[p].committed \in BOOLEAN /\ job[p].broken \in BOOLEAN BY <1>1 DEF JobsOK, Job
<1>5. p \notin Packs /\ job[p].broken => ~job[p].committed
  BY <1>1, <1>2 DEF Proper, Committed
<1>6. CASE /\ p \in Packs \/ ~job[p].committed
           /\ \E s \in Statuses : End(p, s)
  <2>1. ~Owing(p) BY <1>6 DEF Owing
  <2> QED BY <1>2, <1>3, <1>6, <2>1, EndsQuietly
<1>7. CASE Leave(p) /\ ~job[p].broken
  <2>1. Goto(p, "late_wait") BY <1>7 DEF Leave
  <2>2. "late_wait" \in PCs BY DEF PCs, Waiting
  <2>3. /\ JobsOK' /\ Others(p) /\ job'[p].pc = "late_wait"
        /\ UNCHANGED <<job[p].bundle, job[p].committed, job[p].status, job[p].broken>>
    BY <1>1, <2>1, <2>2, Goes
  <2> QED BY <1>2, <1>7, <2>3, ComesBack
<1>8. CASE Leave(p) /\ job[p].broken
  <2>1. CASE p \in Packs /\ job[p].committed
    <3>1. End(p, "output_recovery_required") BY <1>8, <2>1 DEF Leave
    <3> QED BY <1>6, <2>1, <3>1 DEF Statuses
  <2>2. CASE ~(p \in Packs /\ job[p].committed)
    <3>1. End(p, "raised") BY <1>8, <2>2 DEF Leave
    <3>2. ~job[p].committed BY <1>5, <1>8, <2>2
    <3> QED BY <1>6, <3>1, <3>2 DEF Statuses
  <2> QED BY <2>1, <2>2
<1>9. CASE LeaveUnclean(p)
  <2>1. CASE p \in Packs \/ ~job[p].committed
    <3>1. \E s \in Statuses : End(p, s) BY <1>9, <2>1 DEF LeaveUnclean, Statuses
    <3> QED BY <1>6, <2>1, <3>1
  <2>2. CASE p \notin Packs /\ job[p].committed
    <3>1. Set(p, [pc |-> "late_wait", status |-> "promoted_but_stale"])
      BY <1>9, <2>2 DEF LeaveUnclean
    <3>2. "late_wait" \in PCs /\ "promoted_but_stale" \in Statuses BY DEF PCs, Waiting, Statuses
    <3>3. /\ JobsOK' /\ Others(p) /\ job'[p].pc = "late_wait"
          /\ job'[p].status = "promoted_but_stale"
          /\ UNCHANGED <<job[p].bundle, job[p].committed, job[p].broken>>
      BY <1>1, <3>1, <3>2, Says
    <3>4. ~job[p].broken BY <1>4, <1>5, <2>2
    <3> QED BY <1>2, <2>2, <3>3, <3>4, ComesBack
  <2> QED BY <2>1, <2>2
<1> QED BY <1>4, <1>7, <1>8, <1>9

\* A late record is of the graph, or is excused.
LEMMA LateKeeps ==
  ASSUME IInv, DeliveryAssumption, NEW p \in Commands,
         LateRecord(p) \/ LateBlame(p) \/ LateFailed(p)
  PROVE  IInv'
<1>1. Proper(p) /\ JobsOK /\ Rest /\ Kept BY DEF IInv
<1>2. /\ job[p].pc \in {"late", "late_blame"} /\ UNCHANGED <<graph, place, output, did, unaware, registered>>
      /\ NoFault \/ Fault
  BY DEF LateRecord, LateBlame, LateFailed, At, Outside
<1>3. p \notin registered BY <1>2, Unregistered DEF Draining
<1>4. job[p].status \in Statuses
  <2>1. job[p] \in Job BY <1>1 DEF JobsOK
  <2> QED BY <2>1 DEF Job
<1>5. CASE LateBlame(p)
  <2>1. End(p, job[p].status) /\ UNCHANGED <<record, excused>> /\ job[p].pc = "late_blame"
    BY <1>5 DEF LateBlame, At
  <2>2. ~Owing(p) /\ excused' \in BOOLEAN BY <1>1, <2>1 DEF Owing, Rest
  <2> QED BY <1>2, <1>3, <1>4, <2>1, <2>2, EndsQuietly
<1>6. CASE LateFailed(p)
  <2>1. UNCHANGED record /\ excused' = (excused \/ job[p].pc = "late")
    BY <1>6 DEF LateFailed, At
  <2>2. \E s \in Statuses : End(p, s) BY <1>6 DEF LateFailed, Statuses
  <2>3. (~Owing(p) \/ excused') /\ excused' \in BOOLEAN BY <1>1, <1>2, <2>1 DEF Owing, Rest
  <2> QED BY <1>2, <1>3, <2>1, <2>2, <2>3, EndsQuietly
<1>7. CASE LateRecord(p)
  <2>1. /\ job[p].pc = "late" /\ Success(p) /\ excused' = (excused \/ record' # graph)
        /\ IF job[p].status = "promoted_but_stale" THEN Goto(p, "late_blame_wait")
           ELSE End(p, job[p].status)
    BY <1>7 DEF LateRecord, At, Overtaken
  <2>2. excused' \in BOOLEAN /\ (excused => excused') BY <1>1, <2>1 DEF Rest
  <2>3. Rest'
    <3>1. record' \in Maybe(Generations) BY <1>1, <2>1, RecordTyped
    <3> QED BY <1>1, <1>2, <2>2, <3>1, Frames DEF Rest
  <2>4. Settled(p) BY <1>2, <2>1 DEF Settled
  <2>5. CASE End(p, job[p].status)
    BY <1>2, <1>3, <1>4, <2>2, <2>3, <2>4, <2>5, Ending
  <2>6. CASE job[p].status = "promoted_but_stale" /\ Goto(p, "late_blame_wait")
    <3>1. "late_blame_wait" \in PCs BY DEF PCs, Waiting
    <3>2. /\ JobsOK' /\ Others(p) /\ job'[p].pc = "late_blame_wait"
          /\ UNCHANGED <<job[p].bundle, job[p].committed, job[p].status, job[p].broken>>
      BY <1>1, <2>6, <3>1, Goes
    <3>3. Placed(p)' BY <1>1, <2>1, <3>2 DEF Proper, Placed, Late, Installing, Over
    <3>4. Committed(p)' BY <1>1, <1>2, <2>1, <3>2 DEF Proper, Committed, Early, Packing, Over
    <3>5. Said(p)' BY <1>1, <2>1, <2>6, <3>2 DEF Proper, Said, Early, Packing, Over
    <3>6. Held(p)' BY <3>2 DEF Held, Installed, Installing
    <3>7. Mannered(p) BY <1>1, <1>2, <1>3, <3>2 DEF Mannered, Critical, Installing, Rest
    <3>8. Kept'
      <4>1. Holding(p)' => Holding(p) BY <2>1, <3>2 DEF Holding, Late
      <4> QED BY <1>1, <1>2, <3>2, <4>1, KeptStays
    <3>9. Proper(p)' BY <3>3, <3>4, <3>5, <3>6 DEF Proper
    <3> QED BY <1>2, <2>2, <2>3, <2>4, <3>2, <3>7, <3>8, <3>9, StepKeeps
  <2> QED BY <2>1, <2>5, <2>6
<1> QED BY <1>5, <1>6, <1>7

\* A pack with the lock, and a failure of it anywhere.
LEMMA PackBegins ==
  ASSUME IInv, DeliveryAssumption, NEW p \in Commands,
         Project(p) \/ Capture(p) \/ Recheck(p) \/ PackFailed(p)
  PROVE  IInv'
<1>1. Proper(p) /\ JobsOK /\ Rest /\ Kept BY DEF IInv
<1>2. /\ job[p].pc \in {"project", "capture", "recheck", "link", "hash"}
      /\ UNCHANGED <<graph, place, record, output, registered, did, unaware, excused>>
      /\ NoFault \/ Fault
  BY DEF Project, Capture, Recheck, PackFailed, At, KeepAll
<1>3. p \in Packs /\ p \notin Installs /\ p \notin Pulls /\ p \notin registered
  BY <1>1, <1>2 DEF Proper, Placed, Commands, Installing, Early, Late, Over, Rest,
                    DeliveryAssumption
<1>4. excused' \in BOOLEAN /\ job[p].pc \notin Over \cup {"sync"} BY <1>1, <1>2 DEF Rest, Over
<1>5. CASE Break(p, "leave") BY <1>2, <1>3, <1>4, <1>5, Breaking
<1>6. ASSUME NEW s \in {"capture", "recheck", "link"}, job[p].pc \in {"project", "capture", "recheck"},
             JobsOK', Others(p), job'[p].pc = s,
             UNCHANGED <<job[p].committed, job[p].status, job[p].broken>>,
             s # "capture" => job'[p].bundle \in Generations
      PROVE  IInv'
  <2>1. Placed(p)' BY <1>3, <1>6 DEF Placed, Packing
  <2>2. Mannered(p) BY <1>1, <1>2, <1>3, <1>6 DEF Mannered, Critical, Rest
  <2>3. job[p].pc \in Packing /\ job'[p].pc \in Packing \ {"sync"} BY <1>6 DEF Packing
  <2> QED BY <1>2, <1>3, <1>6, <2>1, <2>2, <2>3, Advances
<1>7. CASE Project(p)
  <2>1. Set(p, [pc |-> "capture", staged |-> files, man |-> manifest]) /\ job[p].pc = "project"
    BY <1>7 DEF Project, At
  <2>2. "capture" \in PCs BY DEF PCs, Critical
  <2>3. /\ JobsOK' /\ Others(p) /\ job'[p].pc = "capture"
        /\ UNCHANGED <<job[p].committed, job[p].status, job[p].broken>>
    BY <1>1, <2>1, <2>2, Reads DEF Rest
  <2> QED BY <1>6, <2>1, <2>3
<1>8. CASE Capture(p) /\ ~Break(p, "leave")
  <2>1. /\ Set(p, [pc |-> "recheck", bundle |-> place, installed |-> place])
        /\ place # None /\ job[p].pc = "capture"
    BY <1>8 DEF Capture, At
  <2>2. "recheck" \in PCs /\ place \in Generations /\ place \in Maybe(Generations)
    BY <1>1, <2>1 DEF PCs, Critical, Rest, Maybe
  <2>3. /\ JobsOK' /\ Others(p) /\ job'[p].pc = "recheck" /\ job'[p].bundle = place
        /\ UNCHANGED <<job[p].committed, job[p].status, job[p].broken>>
    BY <1>1, <2>1, <2>2, Takes
  <2> QED BY <1>6, <2>1, <2>2, <2>3
<1>9. CASE Recheck(p) /\ ~Break(p, "leave")
  <2>1. Goto(p, "link") /\ job[p].pc = "recheck" BY <1>9 DEF Recheck, At
  <2>2. "link" \in PCs /\ job[p].bundle \in Generations
    BY <1>1, <1>3, <2>1 DEF PCs, Kept, Bundled
  <2>3. /\ JobsOK' /\ Others(p) /\ job'[p].pc = "link"
        /\ UNCHANGED <<job[p].bundle, job[p].committed, job[p].status, job[p].broken>>
    BY <1>1, <2>1, <2>2, Goes
  <2> QED BY <1>6, <2>1, <2>2, <2>3
<1> QED BY <1>5, <1>7, <1>8, <1>9 DEF PackFailed

\* A pack at its output.
LEMMA OutputStep ==
  ASSUME IInv, DeliveryAssumption, NEW p \in Packs, job[p].pc \in {"link", "sync", "hash"},
         JobsOK', Others(p), job'[p].pc \in {"sync", "hash", "leave"},
         job'[p].pc = "sync" => job[p].pc = "link" /\ ~job'[p].committed,
         job'[p].broken => job'[p].pc = "leave",
         \/ job'[p].status = job[p].status
         \/ job'[p].pc = "leave" /\ job'[p].status = "packed",
         UNCHANGED <<graph, place, record, registered, unaware, excused>>, NoFault \/ Fault,
         did' \ {p} = did \ {p}, p \in did' => job'[p].committed \/ job'[p].pc = "sync",
         output' \in Maybe(Generations), Kept'
  PROVE  IInv'
<1>1. Proper(p) /\ Rest /\ p \in Commands BY DEF IInv, Commands
<1>2. p \notin Installs /\ p \notin Pulls BY DEF DeliveryAssumption
<1>3. Placed(p)' BY <1>2 DEF Placed, Packing, Late
<1>4. Committed(p)' BY <1>1 DEF Proper, Committed, Early, Packing, Over
<1>5. Said(p)' BY <1>1 DEF Proper, Said, Early, Packing, Over
<1>6. Held(p)' BY DEF Held, Installed
<1>7. Proper(p)' BY <1>3, <1>4, <1>5, <1>6 DEF Proper
<1>8. Mannered(p) BY <1>1, <1>2 DEF Mannered, Critical, Installing, Rest
<1>9. Settled(p) BY DEF Settled, Owing
<1>10. Rest'
  <2>1. p \notin unaware BY <1>1 DEF Proper, Committed
  <2>2. did' \subseteq Commands /\ unaware' \subseteq did' BY <1>1, <2>1 DEF Rest
  <2> QED BY <1>1, <2>2, Frames DEF Rest
<1> QED BY <1>1, <1>7, <1>8, <1>9, <1>10, StepKeeps

\* While a pack holds its output no other does.
LEMMA SoleHolder ==
  ASSUME Kept, NEW p \in Commands, Others(p),
         p \in Packs /\ job'[p].pc \in {"recheck", "link"} => job'[p].bundle \in Generations,
         Holding(p)' => output' = job'[p].bundle /\ job'[p].bundle \in Generations,
         \A q \in Commands \ {p} : ~Holding(q)
  PROVE  Kept'
<1>1. \A q \in Commands \ {p} : ~Holding(q)' /\ Bundled(q)'
  BY DEF Others, Holding, Kept, Bundled
<1>2. Bundled(p)' BY DEF Bundled
<1> QED BY <1>1, <1>2 DEF Kept

\* A pack holds its output from the link on, until it takes it back.
LEMMA OutputKeeps ==
  ASSUME IInv, DeliveryAssumption, NEW p \in Commands,
         Link(p) \/ Sync(p) \/ SyncFailed(p) \/ Hash(p)
  PROVE  IInv'
<1>1. Proper(p) /\ JobsOK /\ Rest /\ Kept BY DEF IInv
<1>2. /\ job[p].pc \in {"link", "sync", "hash"} /\ (NoFault \/ Fault)
      /\ UNCHANGED <<graph, place, record, registered, unaware, excused>>
  <2>1. CASE Sync(p) \/ Hash(p) BY <2>1 DEF Sync, Hash, KeepAll, At
  <2>2. CASE Link(p) BY <2>2 DEF Link, At
  <2>3. CASE SyncFailed(p) BY <2>3 DEF SyncFailed, At
  <2> QED BY <2>1, <2>2, <2>3
<1>3. p \in Packs /\ p \notin Installs
  BY <1>1, <1>2 DEF Proper, Placed, Commands, Installing, Early, Late, Over, DeliveryAssumption
<1>4. excused' \in BOOLEAN /\ job[p].pc \notin Over BY <1>1, <1>2 DEF Rest, Over
<1>5. job[p].pc \in {"link", "sync"} => ~job[p].committed /\ ~job[p].broken
  BY <1>1, <1>2 DEF Proper, Committed, Packing
<1>6. None \notin Generations BY DEF DeliveryAssumption
<1>7. job[p].pc \in {"sync", "hash"} =>
        /\ Holding(p) /\ output = job[p].bundle /\ job[p].bundle \in Generations
        /\ \A q \in Commands \ {p} : ~Holding(q)
  <2> SUFFICES ASSUME job[p].pc \in {"sync", "hash"} PROVE Holding(p)
    BY <1>1 DEF Kept, Bundled
  <2> QED BY <1>3 DEF Holding
<1>8. CASE Break(p, "leave") /\ UNCHANGED <<output, did>> /\ job[p].pc # "sync"
  BY <1>2, <1>3, <1>4, <1>8, Breaking
<1>9. CASE Link(p) /\ output = None
  <2>1. /\ Goto(p, "sync") /\ output' = job[p].bundle /\ job[p].pc = "link"
        /\ did' = did \cup {p}
    BY <1>9 DEF Link, At
  <2>2. "sync" \in PCs /\ job[p].bundle \in Generations
    BY <1>1, <1>3, <2>1 DEF PCs, Kept, Bundled
  <2>3. /\ JobsOK' /\ Others(p) /\ job'[p].pc = "sync"
        /\ UNCHANGED <<job[p].bundle, job[p].committed, job[p].status, job[p].broken>>
    BY <1>1, <2>1, <2>2, Goes
  <2>4. \A q \in Commands : ~Holding(q) BY <1>1, <1>6, <1>9 DEF Kept, Bundled
  <2>5. Kept' BY <1>1, <2>1, <2>2, <2>3, <2>4, SoleHolder
  <2> QED BY <1>2, <1>3, <1>5, <2>1, <2>2, <2>3, <2>5, OutputStep DEF Maybe
<1>10. CASE Sync(p)
  <2>1. /\ Set(p, [pc |-> "hash", committed |-> TRUE]) /\ UNCHANGED <<output, did>>
        /\ job[p].pc = "sync" /\ NoFault
    BY <1>10 DEF Sync, KeepAll, At
  <2>2. "hash" \in PCs BY DEF PCs
  <2>3. /\ JobsOK' /\ Others(p) /\ job'[p].pc = "hash"
        /\ UNCHANGED <<job[p].bundle, job[p].status, job[p].broken>> /\ job'[p].committed
    BY <1>1, <2>1, <2>2, Commits
  <2>4. Kept' BY <1>1, <1>7, <2>1, <2>3, SoleHolder
  <2> QED BY <1>2, <1>3, <1>5, <1>7, <2>1, <2>3, <2>4, OutputStep DEF Maybe
<1>11. CASE SyncFailed(p)
  <2>1. job[p].pc = "sync" /\ Fault /\ "leave" \in PCs BY <1>11 DEF SyncFailed, At, PCs
  <2>2. /\ JobsOK' /\ Others(p) /\ job'[p].pc = "leave" /\ job'[p].broken
        /\ job'[p].status = job[p].status
        /\ output' \in {output, None} /\ did' \ {p} = did \ {p}
        /\ p \in did' => job'[p].committed
    <3>1. CASE output' = None /\ did' = did \ {p} /\ Break(p, "leave")
      BY <1>1, <2>1, <3>1, Breaks
    <3>2. CASE /\ output' \in {output, None} /\ UNCHANGED did
               /\ Set(p, [pc |-> "leave", committed |-> TRUE, broken |-> TRUE])
      BY <1>1, <2>1, <3>2, Doubts
    <3> QED BY <1>11, <3>1, <3>2 DEF SyncFailed
  <2>3. Kept'
    <3>1. ~Holding(p)' BY <2>2 DEF Holding
    <3> QED BY <1>1, <1>7, <2>1, <2>2, <3>1, SoleHolder
  <2>4. output' \in Maybe(Generations) BY <1>7, <2>1, <2>2 DEF Maybe
  <2> QED BY <1>2, <1>3, <2>1, <2>2, <2>3, <2>4, OutputStep
<1>12. CASE Hash(p)
  <2>1. /\ Set(p, [pc |-> "leave", status |-> "packed"]) /\ UNCHANGED <<output, did>>
        /\ job[p].pc = "hash" /\ NoFault
    BY <1>12 DEF Hash, KeepAll, At
  <2>2. "leave" \in PCs /\ "packed" \in Statuses BY DEF PCs, Statuses
  <2>3. /\ JobsOK' /\ Others(p) /\ job'[p].pc = "leave" /\ job'[p].status = "packed"
        /\ UNCHANGED <<job[p].bundle, job[p].committed, job[p].broken>>
    BY <1>1, <2>1, <2>2, Says
  <2>4. Kept' BY <1>1, <1>7, <2>1, <2>3, SoleHolder
  <2>5. p \in did => job[p].committed BY <1>1, <1>3, <2>1 DEF Proper, Committed, Over
  <2> QED BY <1>2, <1>3, <1>7, <2>1, <2>3, <2>4, <2>5, OutputStep DEF Maybe
<1>13. CASE Link(p) /\ output # None
  <2>1. /\ Break(p, "leave") /\ UNCHANGED <<output, did>> /\ job[p].pc = "link"
    BY <1>13 DEF Link, At
  <2> QED BY <1>8, <2>1
<1> QED BY <1>9, <1>10, <1>11, <1>12, <1>13

\* Somebody else edits the checkout, or a command dies.
LEMMA EnvironmentKeeps ==
  ASSUME IInv, DeliveryAssumption, Edit \/ Occupy \/ \E p \in Commands : Die(p)
  PROVE  IInv'
<1>1. Rest /\ Kept /\ JobsOK /\ \A p \in Commands : Proper(p) BY DEF IInv
<1>2. CASE Edit \/ Occupy
  <2>1. UNCHANGED <<graph, place, record, registered, job, did, unaware, excused, faults, deaths>>
    BY <1>2 DEF Edit, Occupy, KeepAll, env
  <2>2. Rest'
    <3>1. edits' \in 0 .. MaxEdits BY <1>1, <1>2 DEF Edit, Occupy, Rest, DeliveryAssumption
    <3>2. CASE Edit BY <1>1, <2>1, <3>1, <3>2 DEF Edit, Rest, KeepAll
    <3>3. CASE Occupy BY <1>1, <2>1, <3>1, <3>3 DEF Occupy, Rest
    <3> QED BY <1>2, <3>2, <3>3
  <2>3. Kept'
    <3>1. CASE Edit BY <1>1, <2>1, <3>1 DEF Edit, KeepAll, Kept, Bundled, Holding
    <3>2. CASE Occupy
      <4>1. output = None /\ None \notin Generations BY <3>2 DEF Occupy, DeliveryAssumption
      <4> QED BY <1>1, <2>1, <4>1 DEF Kept, Bundled, Holding
    <3> QED BY <1>2, <3>1, <3>2
  <2>4. JobsOK' /\ Alone' /\ AuthorizationsDrain' /\ Owed'
    BY <2>1 DEF IInv, JobsOK, Alone, AuthorizationsDrain, Owed, Owing
  <2>5. \A p \in Commands : Proper(p)'
    BY <1>1, <2>1 DEF Proper, Placed, Committed, Said, Held, Installed
  <2> QED BY <2>2, <2>3, <2>4, <2>5 DEF IInv
<1>3. ASSUME NEW p \in Commands, Die(p) PROVE IInv'
  <2>1. /\ Goto(p, "dead") /\ registered' = registered \ {p} /\ excused' = TRUE
        /\ deaths < MaxDeaths /\ deaths' = deaths + 1
        /\ place' \in IF job[p].pc = "promote" THEN Halfway(p) ELSE {place}
        /\ UNCHANGED <<graph, record, output, did, unaware, files, manifest, edits, faults>>
    BY <1>3 DEF Die, checkout, At
  <2>2. "dead" \in PCs BY DEF PCs, Over
  <2>3. /\ JobsOK' /\ Others(p) /\ job'[p].pc = "dead"
        /\ UNCHANGED <<job[p].bundle, job[p].committed, job[p].status, job[p].broken>>
    BY <1>1, <2>1, <2>2, Goes
  <2>4. Rest'
    <3>1. deaths' \in 0 .. MaxDeaths BY <1>1, <2>1 DEF Rest, DeliveryAssumption
    <3>2. place' \in Maybe(Generations) /\ (job[p].pc # "promote" => place' = place)
      <4>1. job[p] \in Job BY <1>1 DEF JobsOK
      <4>2. job[p].bundle \in Maybe(Generations) BY <4>1 DEF Job
      <4> QED BY <1>1, <2>1, <4>2 DEF Rest, Halfway, Maybe
    <3> QED BY <1>1, <2>1, <3>1, <3>2 DEF Rest
  <2>5. Kept'
    <3>1. ~Holding(p)' BY <2>3 DEF Holding, Late
    <3> QED BY <1>1, <2>1, <2>3, <3>1, KeptStays
  <2>6. Placed(p)' BY <2>3 DEF Placed, Over
  <2>7. Committed(p)' BY <1>1, <2>1, <2>3 DEF Proper, Committed, Early, Packing, Over
  <2>8. Said(p)' /\ Held(p)' BY <2>3 DEF Said, Held, Installed, Installing, Early, Packing, Over
  <2>9. Mannered(p) BY <1>1, <2>1, <2>3 DEF Mannered, Critical, Installing, Rest
  <2>10. Proper(p)' BY <2>6, <2>7, <2>8 DEF Proper
  <2>11. UNCHANGED <<graph, place>> \/ job[p].pc \in Critical
    BY <2>1 DEF Critical, Installing
  <2> QED BY <2>1, <2>3, <2>4, <2>5, <2>9, <2>10, <2>11, StepKeeps DEF Settled
<1> QED BY <1>2, <1>3

\* A stutter changes nothing.
LEMMA StutterKeeps == ASSUME IInv, UNCHANGED vars PROVE IInv'
<1>1. UNCHANGED <<files, manifest, graph, place, record, output, registered, job, did, unaware, excused,
                  edits, faults, deaths>>
  BY DEF vars
<1>2. JobsOK' /\ Rest' BY <1>1 DEF IInv, JobsOK, Rest
<1>3. Alone' /\ AuthorizationsDrain' /\ Owed'
  BY <1>1 DEF IInv, Alone, AuthorizationsDrain, Owed, Owing
<1>4. Kept' BY <1>1 DEF IInv, Kept, Bundled, Holding
<1>5. \A p \in Commands : Proper(p)'
  BY <1>1 DEF IInv, Proper, Placed, Committed, Said, Held, Installed
<1> QED BY <1>2, <1>3, <1>4, <1>5 DEF IInv

\* Every step of the commands and of the others keeps the invariant.
LEMMA NextKeeps == ASSUME IInv, DeliveryAssumption, Next PROVE IInv'
<1>1. CASE Edit \/ Occupy BY <1>1, EnvironmentKeeps
<1>2. ASSUME NEW p \in Commands,
             StartInstall(p) \/ GetLock(p) \/ Busy(p) \/ Install(p) \/ Pull(p) \/ Pack(p) \/ Die(p)
      PROVE  IInv'
  <2>1. CASE StartInstall(p) \/ GetLock(p) \/ Busy(p) \/ Die(p)
    BY <2>1, StartInstallKeeps, GetLockKeeps, BusyKeeps, EnvironmentKeeps
  <2>2. CASE Install(p)
    BY <2>2, InstallBegins, PromoteKeeps, PromoteFailedKeeps, VerifyKeeps, AfterKeeps,
       InstallFailedKeeps, ExitKeeps, RecordKeeps, RerecordKeeps DEF Install
  <2>3. CASE Pull(p)
    BY <2>3, PullBegins, PullBreaks, HandoffKeeps, LeaveKeeps, LateKeeps DEF Pull
  <2>4. CASE Pack(p)
    BY <2>4, StartPackKeeps, PackBegins, OutputKeeps DEF Pack
  <2> QED BY <1>2, <2>1, <2>2, <2>3, <2>4
<1> QED BY <1>1, <1>2 DEF Next

\* The inductive invariant of the artifact commands: the lock has one holder
\* and between its promotion and its record the graph is the holder's bundle;
\* whoever has changed the graph and not recorded it is on the way to do so;
\* one pack at a time holds the output.
THEOREM Invariant == Spec => []IInv
<1>1. Init => IInv BY InitIInv, DeliveryAssumption
<1>2. IInv /\ [Next]_vars => IInv'
  <2> SUFFICES ASSUME IInv, [Next]_vars PROVE IInv' OBVIOUS
  <2>1. CASE Next BY <2>1, NextKeeps, DeliveryAssumption
  <2>2. CASE UNCHANGED vars BY <2>2, StutterKeeps
  <2> QED BY <2>1, <2>2
<1> QED BY <1>1, <1>2, PTL DEF Spec

\* The values of the variables, authorizations that drain, and last_success
\* following the graph, hold whatever commands meet on the checkout.
THEOREM DeliverySafe == Spec => []Inv
<1>1. IInv => Inv
  <2> SUFFICES ASSUME IInv PROVE Inv OBVIOUS
  <2>1. TypeOK BY DEF IInv, TypeOK, Rest, JobsOK
  <2>2. RecordFollowsGraph
    BY DEF IInv, RecordFollowsGraph, Owed, Owing, Over
  <2> QED BY <2>1, <2>2 DEF IInv, Inv
<1> QED BY <1>1, Invariant, PTL

-------------------------------------------------------------------------------
(* What a command answers                                                  *)

\* What is true of a command that is over, by its answer.
Answer(p) ==
  /\ job'[p].status = "raised" => (p \in did => p \in unaware) /\ ~job[p].committed
  /\ job'[p].status = "installed" => p \in did /\ (p \in Installs => graph = job[p].bundle)
  /\ job'[p].status = "already_current" =>
       p \notin did /\ (p \in Installs => graph = job[p].bundle)
  /\ job'[p].status = "packed" => output = job[p].bundle
Answering(p) == Others(p) /\ (job'[p].pc = "done" => Answer(p))

\* A command that goes on answers nothing.
LEMMA GoesOn ==
  ASSUME JobsOK, NEW p \in Commands, NEW changes, Set(p, changes), "pc" \in DOMAIN changes,
         changes.pc # "done"
  PROVE  Answering(p)
<1>1. job'[p] = Update(job[p], changes) /\ Others(p) BY SetIs
<1>2. "pc" \in DOMAIN job[p] BY DEF JobsOK, Job
<1>3. job'[p].pc = changes.pc BY <1>1, <1>2 DEF Update
<1> QED BY <1>1, <1>3 DEF Answering

\* Nor does one that an exception takes to its exit.
LEMMA BreaksOff ==
  ASSUME JobsOK, NEW p \in Commands, NEW s \in {"exit", "leave"}, Break(p, s)
  PROVE  Answering(p)
BY GoesOn DEF Break

\* One that raises has changed nothing, as far as it has been told.
LEMMA Raises ==
  ASSUME IInv, NEW p \in Commands, End(p, "raised"), job[p].pc \notin Over \cup {"sync"}, ~job[p].committed
  PROVE  Answering(p)
<1>1. JobsOK /\ Proper(p) BY DEF IInv
<1>2. Others(p) /\ job'[p].status = "raised" BY <1>1, Ends DEF Statuses
<1>3. p \in did => p \in unaware BY <1>1 DEF Proper, Committed, Over, Packing
<1> QED BY <1>2, <1>3 DEF Answering, Answer

\* Nor has one that is refused.
LEMMA RefusedAnswers ==
  ASSUME IInv, NEW p \in Commands, Refused(p), job[p].pc \notin Over \cup {"sync"}, ~job[p].committed
  PROVE  Answering(p)
<1>1. CASE End(p, "raised") BY <1>1, Raises
<1>2. CASE Break(p, "leave") BY <1>2, BreaksOff DEF IInv
<1> QED BY <1>1, <1>2 DEF Refused

\* What needs recovery or is stale is promised nothing.
LEMMA Hedges ==
  ASSUME JobsOK, NEW p \in Commands,
         NEW s \in {"promoted_but_stale", "output_recovery_required", "none"}, End(p, s)
  PROVE  Answering(p)
<1>1. Others(p) /\ job'[p].status = s BY Ends DEF Statuses
<1> QED BY <1>1 DEF Answering, Answer

\* What a command has found is what it answers.
LEMMA Reports ==
  ASSUME IInv, NEW p \in Commands, End(p, job[p].status),
         \/ job[p].pc = "record" /\ p \in Installs
         \/ job[p].pc \in {"late", "late_blame"} /\ p \notin Installs
  PROVE  Answering(p)
<1>1. JobsOK /\ Proper(p) /\ Kept BY DEF IInv
<1>2. job[p].status \in Statuses BY <1>1 DEF JobsOK, Job
<1>3. Others(p) /\ job'[p].status = job[p].status BY <1>1, <1>2, Ends
<1>4. job[p].pc \notin Over BY DEF Over
<1>5. job[p].status # "raised" BY <1>1, <1>4 DEF Proper, Said
<1>6. job[p].status = "installed" => p \in did
  BY <1>1, <1>4 DEF Proper, Said, Committed
<1>7. job[p].status = "already_current" => p \notin did
  BY <1>1, <1>4 DEF Proper, Said, Committed
<1>8. p \in Installs => graph = job[p].bundle BY <1>1 DEF Proper, Held, Installed
<1>9. job[p].status = "packed" => output = job[p].bundle
  <2> SUFFICES ASSUME job[p].status = "packed" PROVE Holding(p)
    BY <1>1 DEF Kept, Bundled
  <2>1. p \in Packs BY <1>1, <1>4 DEF Proper, Said
  <2>2. job[p].pc \in {"late", "late_blame"} /\ ~job[p].broken
    BY <1>1, <2>1 DEF Proper, Placed, Committed, Packing, Late, Over
  <2> QED BY <2>1, <2>2 DEF Holding, Late
<1> QED BY <1>3, <1>5, <1>6, <1>7, <1>8, <1>9 DEF Answering, Answer

\* The steps that are no answer.
LEMMA Unanswered ==
  ASSUME IInv, DeliveryAssumption, NEW p \in Commands,
         \/ StartInstall(p) \/ GetLock(p) \/ StartPull(p) \/ Inspect(p) \/ Download(p)
         \/ Attest(p) \/ Authorize(p) \/ ManifestChanged(p) \/ PullFailed(p)
         \/ Parse(p) \/ Admit(p) \/ Compare(p) \/ Promote(p) \/ PromoteFailed(p)
         \/ Verify(p) \/ After(p) \/ InstallFailed(p) \/ Handoff(p)
         \/ Project(p) \/ Capture(p) \/ Recheck(p) \/ Link(p) \/ Sync(p) \/ SyncFailed(p)
         \/ Hash(p) \/ PackFailed(p) \/ Die(p)
  PROVE  Answering(p)
<1>1. JobsOK BY DEF IInv
<1>2. ASSUME NEW s \in {"inspect", "authorize", "wait", "admit", "compare", "promote", "after",
                        "project", "stage", "late", "late_blame", "rerecord", "link", "sync",
                        "dead"},
             Goto(p, s)
      PROVE  Answering(p)
  BY <1>1, <1>2, GoesOn DEF Goto
<1>3. CASE StartInstall(p)
  <2>1. PICK g \in Generations, r \in BOOLEAN :
           Set(p, [pc |-> "wait", bundle |-> g, remote |-> r])
    BY <1>3 DEF StartInstall
  <2> QED BY <1>1, <2>1, GoesOn
<1>4. CASE GetLock(p)
  <2>1. \E s \in {"project", "stage", "late", "late_blame", "rerecord"} : Goto(p, s)
    BY <1>4, LockLeads DEF Waiting
  <2> QED BY <1>2, <2>1
<1>5. CASE StartPull(p) BY <1>1, <1>5, GoesOn DEF StartPull
<1>6. CASE Inspect(p) BY <1>1, <1>6, GoesOn DEF Inspect
<1>7. CASE Download(p)
  <2>1. PICK g \in Generations : Set(p, [pc |-> "attest", bundle |-> g, remote |-> TRUE])
    BY <1>7 DEF Download
  <2> QED BY <1>1, <2>1, GoesOn
<1>8. CASE Attest(p) \/ Authorize(p) BY <1>2, <1>8 DEF Attest, Authorize
<1>9. CASE \/ ManifestChanged(p) \/ PullFailed(p) \/ PackFailed(p) \/ InstallFailed(p)
           \/ PromoteFailed(p)
  BY <1>1, <1>9, BreaksOff DEF ManifestChanged, PullFailed, PackFailed, InstallFailed,
                               PromoteFailed
<1>10. CASE Parse(p) \/ Admit(p) \/ Compare(p)
  <2>1. Break(p, "exit") \/ \E s \in {"admit", "compare", "promote"} : Goto(p, s)
    <3>1. CASE Parse(p) BY <3>1 DEF Parse
    <3>2. CASE Admit(p) BY <3>2 DEF Admit
    <3>3. CASE Compare(p) BY <3>3 DEF Compare
    <3> QED BY <1>10, <3>1, <3>2, <3>3
  <2> QED BY <1>1, <1>2, <2>1, BreaksOff
<1>11. CASE Promote(p)
  <2>1. \E b : Set(p, [pc |-> "verify", committed |-> b]) BY <1>11 DEF Promote
  <2> QED BY <1>1, <2>1, GoesOn
<1>12. CASE Verify(p)
  <2>1. CASE Set(p, [pc |-> "after", installed |-> place]) BY <1>1, <2>1, GoesOn
  <2> QED BY <1>2, <1>12, <2>1 DEF Verify
<1>13. CASE After(p) \/ Handoff(p) \/ Hash(p)
  <2>1. \E t : \/ Set(p, [pc |-> "exit", status |-> t])
               \/ Set(p, [pc |-> "leave", status |-> t])
    <3>1. CASE After(p) BY <3>1 DEF After
    <3>2. CASE Handoff(p) BY <3>2 DEF Handoff
    <3>3. CASE Hash(p) BY <3>3 DEF Hash
    <3> QED BY <1>13, <3>1, <3>2, <3>3
  <2> QED BY <1>1, <2>1, GoesOn
<1>14. CASE Project(p) BY <1>1, <1>14, GoesOn DEF Project
<1>15. CASE Capture(p)
  <2>1. CASE Set(p, [pc |-> "recheck", bundle |-> place, installed |-> place])
    BY <1>1, <2>1, GoesOn
  <2>2. CASE Break(p, "leave") BY <1>1, <2>2, BreaksOff
  <2> QED BY <1>15, <2>1, <2>2 DEF Capture
<1>16. CASE Recheck(p) \/ Link(p)
  <2>1. Break(p, "leave") \/ \E s \in {"link", "sync"} : Goto(p, s)
    BY <1>16 DEF Recheck, Link
  <2> QED BY <1>1, <1>2, <2>1, BreaksOff
<1>17. CASE Sync(p) BY <1>1, <1>17, GoesOn DEF Sync
<1>18. CASE SyncFailed(p)
  <2>1. CASE Set(p, [pc |-> "leave", committed |-> TRUE, broken |-> TRUE])
    BY <1>1, <2>1, GoesOn
  <2>2. CASE Break(p, "leave") BY <1>1, <2>2, BreaksOff
  <2> QED BY <1>18, <2>1, <2>2 DEF SyncFailed
<1>19. CASE Die(p) BY <1>2, <1>19 DEF Die
<1> QED
  BY <1>3, <1>4, <1>5, <1>6, <1>7, <1>8, <1>9, <1>10, <1>11, <1>12, <1>13, <1>14, <1>15,
     <1>16, <1>17, <1>18, <1>19

\* The steps that can be one.
LEMMA Answered ==
  ASSUME IInv, DeliveryAssumption, NEW p \in Commands,
         \/ StartPack(p) \/ Busy(p) \/ Stage(p) \/ Exit(p) \/ ExitUnclean(p)
         \/ RecordOutcome(p) \/ RecordFailed(p) \/ Rerecord(p) \/ RerecordFailed(p)
         \/ Leave(p) \/ LeaveUnclean(p) \/ LateRecord(p) \/ LateBlame(p) \/ LateFailed(p)
  PROVE  Answering(p)
<1>1. JobsOK /\ Proper(p) BY DEF IInv
<1>2. job[p].committed \in BOOLEAN /\ job[p].broken \in BOOLEAN BY <1>1 DEF JobsOK, Job
<1>3. job[p].pc \in Early => ~job[p].committed /\ job[p].pc \notin Over \cup {"sync"}
  BY <1>1 DEF Proper, Committed, Early, Packing, Over
<1>4. CASE StartPack(p)
  <2>1. CASE Goto(p, "wait") BY <1>1, <2>1, GoesOn DEF Goto
  <2>2. CASE End(p, "raised")
    <3>1. job[p].pc \in Early BY <1>4 DEF StartPack, At, Early
    <3> QED BY <1>3, <2>2, <3>1, Raises
  <2> QED BY <1>4, <2>1, <2>2 DEF StartPack
<1>5. CASE Busy(p)
  <2>1. CASE job[p].pc = "wait"
    <3>1. End(p, "raised") \/ Break(p, "leave") BY <1>5, <2>1 DEF Busy, At
    <3>2. ~job[p].committed /\ job[p].pc \notin Over \cup {"sync"} BY <1>3, <2>1 DEF Early
    <3> QED BY <1>1, <3>1, <3>2, Raises, BreaksOff
  <2>2. CASE job[p].pc # "wait"
    <3>1. /\ job[p].pc \notin Over \cup {"sync"}
          /\ \/ End(p, "output_recovery_required") \/ End(p, "promoted_but_stale")
             \/ End(p, "raised") /\ ~job[p].committed
      BY <1>5, <2>2 DEF Busy, At, Over
    <3> QED BY <1>1, <3>1, Raises, Hedges
  <2> QED BY <2>1, <2>2
<1>6. CASE Stage(p)
  <2>1. CASE Refused(p)
    <3>1. job[p].pc \in Early BY <1>6 DEF Stage, At, Early
    <3> QED BY <1>3, <2>1, <3>1, RefusedAnswers
  <2>2. CASE Set(p, [pc |-> "parse", staged |-> files, man |-> manifest])
    BY <1>1, <2>2, GoesOn
  <2> QED BY <1>6, <2>1, <2>2 DEF Stage
<1>7. CASE Exit(p) \/ ExitUnclean(p)
  <2>1. job[p].pc = "exit"
    <3>1. CASE Exit(p)
      <4>1. At(p, "exit") BY <3>1, Zenon DEF Exit
      <4> QED BY <4>1 DEF At
    <3>2. CASE ExitUnclean(p) BY <3>2 DEF ExitUnclean, At
    <3> QED BY <1>7, <3>1, <3>2
  <2>2. CASE ~job[p].committed /\ Refused(p)
    <3>1. job[p].pc \notin Over \cup {"sync"} BY <2>1 DEF Over
    <3> QED BY <2>2, <3>1, RefusedAnswers
  <2>3. CASE ExitUnclean(p) /\ job[p].committed
    <3> DEFINE s == IF p \in Pulls THEN "handoff"
                    ELSE IF job[p].broken THEN "rerecord_wait" ELSE "done"
    <3>1. Set(p, [pc |-> s, broken |-> FALSE, status |-> "promoted_but_stale"])
      BY <2>3 DEF ExitUnclean
    <3>2. s \in PCs /\ "promoted_but_stale" \in Statuses BY DEF PCs, Waiting, Over, Statuses
    <3>3. Others(p) /\ job'[p].status = "promoted_but_stale"
      <4> HIDE DEF s
      <4> QED BY <1>1, <3>1, <3>2, Mends
    <3> QED BY <3>3 DEF Answering, Answer
  <2>4. CASE Exit(p) /\ job[p].broken /\ job[p].committed
    <3>1. Set(p, [pc |-> IF p \in Installs THEN "rerecord_wait" ELSE "handoff",
                  broken |-> FALSE, status |-> "promoted_but_stale"])
      BY <2>4 DEF Exit
    <3> QED BY <1>1, <3>1, GoesOn
  <2>5. CASE Exit(p) /\ ~job[p].broken
    <3>1. Goto(p, IF p \in Installs THEN "record" ELSE "handoff") BY <2>5 DEF Exit
    <3> QED BY <1>1, <3>1, GoesOn DEF Goto
  <2>6. CASE ExitUnclean(p) /\ ~job[p].committed
    <3>1. Refused(p) BY <2>6 DEF ExitUnclean
    <3> QED BY <2>2, <2>6, <3>1
  <2>7. CASE Exit(p) /\ job[p].broken /\ ~job[p].committed
    <3>1. Refused(p) BY <2>7 DEF Exit
    <3> QED BY <2>2, <2>7, <3>1
  <2> QED BY <1>2, <1>7, <2>3, <2>4, <2>5, <2>6, <2>7
<1>8. CASE RecordOutcome(p) \/ RecordFailed(p)
  <2>1. job[p].pc = "record" /\ job[p].pc \notin Over \cup {"sync"}
    BY <1>8 DEF RecordOutcome, RecordFailed, At, Over
  <2>2. p \in Installs
    BY <1>1, <2>1 DEF Proper, Placed, Installing, Early, Packing, Late, Over, Commands
  <2>3. CASE RecordOutcome(p)
    <3>1. End(p, job[p].status) BY <2>3 DEF RecordOutcome
    <3> QED BY <2>1, <2>2, <3>1, Reports
  <2>4. CASE RecordFailed(p) /\ job[p].committed
    <3>1. Set(p, [pc |-> "rerecord_wait", status |-> "promoted_but_stale"])
      BY <2>4 DEF RecordFailed
    <3> QED BY <1>1, <3>1, GoesOn
  <2>5. CASE RecordFailed(p) /\ ~job[p].committed
    <3>1. Refused(p) BY <2>5 DEF RecordFailed
    <3> QED BY <2>1, <2>5, <3>1, RefusedAnswers
  <2> QED BY <1>8, <2>3, <2>4, <2>5
<1>9. CASE Rerecord(p) \/ RerecordFailed(p)
  BY <1>1, <1>9, Hedges DEF Rerecord, RerecordFailed
<1>10. CASE Leave(p) \/ LeaveUnclean(p)
  <2>1. job[p].pc = "leave"
    <3>1. CASE Leave(p)
      <4>1. At(p, "leave") BY <3>1, Zenon DEF Leave
      <4> QED BY <4>1 DEF At
    <3>2. CASE LeaveUnclean(p) BY <3>2 DEF LeaveUnclean, At
    <3> QED BY <1>10, <3>1, <3>2
  <2>2. p \notin Packs /\ job[p].broken => ~job[p].committed
    BY <1>1, <2>1 DEF Proper, Committed
  <2>3. job[p].pc \notin Over \cup {"sync"} BY <2>1 DEF Over
  <2>4. CASE End(p, "raised") /\ ~job[p].committed BY <2>3, <2>4, Raises
  <2>5. CASE End(p, "output_recovery_required") BY <1>1, <2>5, Hedges
  <2>6. CASE Leave(p) /\ ~job[p].broken
    <3>1. Goto(p, "late_wait") BY <2>6 DEF Leave
    <3> QED BY <1>1, <3>1, GoesOn DEF Goto
  <2>7. CASE Leave(p) /\ job[p].broken
    <3>1. CASE p \in Packs /\ job[p].committed
      <4>1. End(p, "output_recovery_required") BY <2>7, <3>1 DEF Leave
      <4> QED BY <2>5, <4>1
    <3>2. CASE ~(p \in Packs /\ job[p].committed)
      <4>1. End(p, "raised") BY <2>7, <3>2 DEF Leave
      <4> QED BY <2>2, <2>4, <2>7, <3>2, <4>1
    <3> QED BY <3>1, <3>2
  <2>8. CASE LeaveUnclean(p)
    <3>1. \/ End(p, "output_recovery_required")
          \/ End(p, "raised") /\ ~job[p].committed
          \/ Set(p, [pc |-> "late_wait", status |-> "promoted_but_stale"])
      BY <2>8 DEF LeaveUnclean
    <3>2. CASE Set(p, [pc |-> "late_wait", status |-> "promoted_but_stale"])
      BY <1>1, <3>2, GoesOn
    <3> QED BY <2>4, <2>5, <3>1, <3>2
  <2> QED BY <1>2, <1>10, <2>6, <2>7, <2>8
<1>11. CASE LateRecord(p) \/ LateBlame(p)
  <2>1. job[p].pc \in {"late", "late_blame"} BY <1>11 DEF LateRecord, LateBlame, At
  <2>2. p \notin Installs BY <1>1, <2>1 DEF Proper, Placed, Installing, Over
  <2>3. CASE Goto(p, "late_blame_wait") BY <1>1, <2>3, GoesOn DEF Goto
  <2>4. CASE End(p, job[p].status) BY <2>1, <2>2, <2>4, Reports
  <2> QED BY <1>11, <2>3, <2>4 DEF LateRecord, LateBlame
<1>12. CASE LateFailed(p)
  <2>1. /\ job[p].pc \notin Over \cup {"sync"}
        /\ \/ End(p, "output_recovery_required") \/ End(p, "promoted_but_stale")
           \/ End(p, "raised") /\ ~job[p].committed
    BY <1>12 DEF LateFailed, Over
  <2> QED BY <1>1, <2>1, Raises, Hedges
<1> QED BY <1>4, <1>5, <1>6, <1>7, <1>8, <1>9, <1>10, <1>11, <1>12

\* A command that raises leaves no output, and the graph it found survives,
\* unless promote_graph itself raised to it after its own commit; installed and
\* already_current tell which of the two it did, and packed names what is at
\* the output.
THEOREM AnswersAreTrue == Spec => AnswersTrue
<1>1. ASSUME IInv, [Next]_vars, NEW p \in Commands,
             \/ job'[p].status # job[p].status
             \/ job'[p].pc # job[p].pc,
             job'[p].pc = "done"
      PROVE  Answer(p)
  <2>1. CASE Edit \/ Occupy \/ UNCHANGED vars
    <3>1. job' = job BY <2>1 DEF Edit, Occupy, vars
    <3> QED BY <1>1, <3>1
  <2>2. ASSUME NEW q \in Commands,
               \/ StartInstall(q) \/ GetLock(q) \/ Busy(q) \/ Install(q) \/ Pull(q)
               \/ Pack(q) \/ Die(q)
        PROVE  Answer(p)
    <3>1. Answering(q)
      BY <1>1, <2>2, Unanswered, Answered, DeliveryAssumption DEF Install, Pull, Pack
    <3>2. CASE q = p BY <1>1, <3>1, <3>2 DEF Answering
    <3>3. CASE q # p
      <4>1. job'[p] = job[p] BY <3>1, <3>3 DEF Answering, Others
      <4> QED BY <1>1, <4>1
    <3> QED BY <3>2, <3>3
  <2> QED BY <1>1, <2>1, <2>2 DEF Next
<1>2. ASSUME IInv, [Next]_vars
      PROVE  \A p \in Commands :
               /\ job'[p].status # job[p].status \/ job'[p].pc # job[p].pc
               /\ job'[p].pc = "done"
               => CASE job'[p].status = "raised" ->
                         (p \in did => p \in unaware) /\ ~job[p].committed
                    [] job'[p].status = "installed" ->
                         p \in did /\ (p \in Installs => graph = job[p].bundle)
                    [] job'[p].status = "already_current" ->
                         p \notin did /\ (p \in Installs => graph = job[p].bundle)
                    [] job'[p].status = "packed" -> output = job[p].bundle
                    [] OTHER -> TRUE
  <2> SUFFICES ASSUME NEW p \in Commands,
                      \/ job'[p].status # job[p].status
                      \/ job'[p].pc # job[p].pc,
                      job'[p].pc = "done"
               PROVE  CASE job'[p].status = "raised" ->
                         (p \in did => p \in unaware) /\ ~job[p].committed
                        [] job'[p].status = "installed" ->
                             p \in did /\ (p \in Installs => graph = job[p].bundle)
                        [] job'[p].status = "already_current" ->
                             p \notin did /\ (p \in Installs => graph = job[p].bundle)
                        [] job'[p].status = "packed" -> output = job[p].bundle
                        [] OTHER -> TRUE
    OBVIOUS
  <2>1. Answer(p) BY <1>1, <1>2
  <2> QED BY <2>1 DEF Answer
<1> QED BY <1>2, Invariant, PTL DEF Spec, AnswersTrue
===============================================================================
