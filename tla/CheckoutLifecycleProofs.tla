---------------------- MODULE CheckoutLifecycleProofs ----------------------
(***************************************************************************)
(* Machine-checked theorems about CheckoutLifecycle, for any processes,    *)
(* sources, epochs and bounds of the environment.                          *)
(***************************************************************************)
EXTENDS CheckoutLifecycle, TLAPS

-----------------------------------------------------------------------------
(* Types                                                                   *)

\* The generation Existing puts a number on is one, whatever was installed.
LEMMA EpochType ==
    ASSUME NEW g \in Generations \cup {Absent}, NEW h \in Generations,
           Epoch(g, h) <= MaxEpoch
    PROVE  Epoch(g, h) \in 1..MaxEpoch
BY LifecycleAssumption DEF Epoch, Same, Generations, LifecycleAssumption

\* Numbering a generation changes nothing but its epoch.
LEMMA NumberedType ==
    ASSUME NEW g \in Generations, NEW e \in 1..MaxEpoch
    PROVE  Numbered(g, e) \in Generations /\ Numbered(g, e).source = g.source
BY DEF Numbered, Generations

\* A repair of graphify-out leaves a directory there, or none.
LEMMA RepairType ==
    ASSUME TypeOK, Repair
    PROVE  /\ target' \in Generations \cup {Absent, Torn}
           /\ graph' = graph /\ record' = record
BY DEF TypeOK, Repair, Interrupted, Directory!Tear, Directory!Remove, Directory!Restore

Hands == \A p \in Commands : InHand(p)

\* What a command at work has in hand is typed.
LEMMA InHandTypes ==
    ASSUME TypeOK, Hands, NEW p \in Commands
    PROVE  /\ pc[p] \in {"existing", "install", "commit"} => candidate[p] \in Generations
           /\ pc[p] \in {"verify", "return"} => target \in Generations
<1>1. InHand(p) BY DEF Hands
<1>2. CASE pc[p] \in {"existing", "install", "commit"}
  BY <1>1, <1>2 DEF InHand, Promoting
<1>3. CASE pc[p] = "verify" BY <1>1, <1>3 DEF InHand, Same
<1>4. CASE pc[p] = "return" BY <1>1, <1>4 DEF InHand
<1> QED BY <1>2, <1>3, <1>4

\* No step of a command or of its environment leaves the types.
LEMMA TypeStep == ASSUME TypeOK, Hands, [Next]_vars PROVE TypeOK'
<1> USE LifecycleAssumption
    DEF LifecycleAssumption, TypeOK, PCs, Critical, Promoting,
        call, env, Keep, Goto, Leave, Refuse
<1>1. CASE Edit BY <1>1 DEF Edit
<1>2. ASSUME NEW p \in Commands, Begin(p) PROVE TypeOK'
  BY <1>2 DEF Begin, Call, Remember
<1>3. ASSUME NEW p \in Commands, Fault(p), Remember PROVE TypeOK'
  <2>1. CASE FaultPromoting(p) \/ FaultUnread(p)
    BY <1>3, <2>1 DEF Fault, FaultPromoting, FaultUnread, AfterVerify, Remember
  <2>2. CASE FaultRefreshed(p)
    BY <1>3, <2>2, InHandTypes DEF Fault, FaultRefreshed, VerifyAs, AfterVerify, Remember
  <2>3. CASE FaultInstalled(p)
    BY <1>3, <2>3, InHandTypes DEF Fault, FaultInstalled, Recorded, Remember
  <2>4. CASE FaultFails(p) BY <1>3, <2>4 DEF Fault, FaultFails, Remember
  <2> QED BY <1>3, <2>1, <2>2, <2>3, <2>4 DEF Fault
<1>4. ASSUME NEW p \in Commands, Crash(p), Remember PROVE TypeOK'
  BY <1>4 DEF Crash, Remember
<1>5. ASSUME NEW p \in Commands, Work(p) PROVE TypeOK'
  <2> USE DEF Remember
  <2>1. CASE GetLock(p) BY <2>1, <1>5 DEF Work, GetLock
  <2>2. CASE Busy(p) BY <2>2, <1>5 DEF Work, Busy
  <2>3. CASE Prepare(p)
    <3>1. CASE Existing(p)
      <4>1. Epoch(target, candidate[p]) \in 1..MaxEpoch
        BY <3>1, EpochType, InHandTypes DEF Existing
      <4>2. Numbered(candidate[p], Epoch(target, candidate[p])) \in Generations
        BY <3>1, <4>1, InHandTypes, NumberedType DEF Existing
      <4>3. Same(target, candidate[p]) \in BOOLEAN BY DEF Same
      <4> QED BY <1>5, <3>1, <4>2, <4>3 DEF Work, Existing
    <3>2. CASE Build(p) BY <1>5, <3>2 DEF Work, Build, Current, Generations
    <3>3. CASE Validate(p) BY <1>5, <3>3 DEF Work, Validate
    <3>4. CASE Stage(p) \/ Check(p) BY <1>5, <3>4 DEF Work, Stage, Check
    <3>5. CASE Refuse(p) BY <1>5, <3>5 DEF Work
    <3> QED
      BY <2>3, <3>1, <3>2, <3>3, <3>4, <3>5
      DEF Prepare, Drifted, ExistingRefused, ValidateRefused
  <2>4. CASE Promote(p)
    <3>1. CASE Recover(p) \/ Undo(p) BY <1>5, <3>1, RepairType DEF Work, Recover, Undo
    <3>2. CASE Install(p)
      BY <1>5, <3>2, InHandTypes DEF Work, Install, Directory!Install
    <3>3. CASE Commit(p) BY <1>5, <3>3 DEF Work, Commit, Directory!Commit
    <3> QED
      BY <2>4, <1>5, <3>1, <3>2, <3>3
      DEF Work, Promote, AlreadyInstalled, SetAside, Undone, Directory!SetAside
  <2>5. CASE Finish(p)
    <3>1. CASE Verify(p) \/ (VerifyRefused(p) /\ ~Leave(p))
      BY <1>5, <3>1, InHandTypes
      DEF Work, Verify, VerifyRefused, VerifyAs, AfterVerify, Outcome
    <3>2. CASE Record(p) BY <1>5, <3>2 DEF Work, Record, Recorded
    <3>3. CASE Refuse(p) BY <1>5, <3>3 DEF Work
    <3> QED BY <2>5, <3>1, <3>2, <3>3 DEF Finish, Return, VerifyRefused
  <2> QED BY <1>5, <2>1, <2>2, <2>3, <2>4, <2>5 DEF Work
<1>6. CASE UNCHANGED vars BY <1>6 DEF vars
<1> QED BY <1>1, <1>2, <1>3, <1>4, <1>5, <1>6 DEF Next, Mishap

-----------------------------------------------------------------------------
(* What a step of a command leaves alone                                   *)

Step(p) == Begin(p) \/ Work(p) \/ Mishap(p)

\* Of the processes only p moves, and it touches the checkout only in the lock.
LEMMA Framing ==
    ASSUME TypeOK, NEW p \in Commands, Step(p)
    PROVE  /\ \A q \in Commands \ {p} : /\ pc'[q] = pc[q] /\ staged'[q] = staged[q]
                                        /\ candidate'[q] = candidate[q]
                                        /\ answer'[q] = answer[q]
           /\ Remember
           /\ Holding(p)' => Holding(p) \/ LockFree
           /\ ~Holding(p) => UNCHANGED <<target, graph, record>>
<1> USE DEF TypeOK, Critical, Promoting, Holding, call, env, Keep, Goto, Leave, Refuse
<1>0. Remember BY DEF Step, Begin, Work, Mishap
<1>1. CASE Call(p) BY <1>0, <1>1 DEF Call
<1>2. CASE Fault(p)
  BY <1>0, <1>2
  DEF Fault, FaultPromoting, FaultRefreshed, FaultUnread, FaultInstalled, FaultFails,
      VerifyAs, AfterVerify
<1>3. CASE Crash(p) BY <1>0, <1>3 DEF Crash
<1>4. CASE Work(p)
  <2>1. CASE GetLock(p) BY <1>0, <1>4, <2>1 DEF Work, GetLock
  <2>2. CASE Busy(p) BY <1>0, <1>4, <2>2 DEF Work, Busy
  <2>3. CASE Prepare(p)
    <3>1. CASE Refuse(p) /\ Holding(p) BY <1>0, <1>4, <3>1 DEF Work
    <3>2. CASE Existing(p) BY <1>0, <1>4, <3>2 DEF Work, Existing
    <3>3. CASE Build(p) BY <1>0, <1>4, <3>3 DEF Work, Build
    <3>4. CASE Validate(p) BY <1>0, <1>4, <3>4 DEF Work, Validate
    <3>5. CASE Stage(p) \/ Check(p) BY <1>0, <1>4, <3>5 DEF Work, Stage, Check
    <3> QED
      BY <2>3, <3>1, <3>2, <3>3, <3>4, <3>5
      DEF Prepare, Drifted, ExistingRefused, ValidateRefused
  <2>4. CASE Promote(p)
    BY <1>0, <1>4, <2>4 DEF Work, Promote, Recover, AlreadyInstalled, SetAside, Install,
                      Commit, Undo, Undone
  <2>5. CASE Finish(p)
    BY <1>0, <1>4, <2>5 DEF Work, Finish, Verify, VerifyRefused, VerifyAs, AfterVerify, Return,
                      Record
  <2> QED BY <1>0, <1>4, <2>1, <2>2, <2>3, <2>4, <2>5 DEF Work
<1> QED BY <1>1, <1>2, <1>3, <1>4 DEF Step, Begin, Mishap

\* The lock is held by one command at a time.
LEMMA ExclusionStep == ASSUME TypeOK, Exclusion, [Next]_vars PROVE Exclusion'
<1>1. CASE pc' = pc BY <1>1 DEF Exclusion, Holding
<1>2. ASSUME NEW p \in Commands, Step(p) PROVE Exclusion'
  BY <1>2, Framing DEF Exclusion, Holding, LockFree
<1> QED BY <1>1, <1>2 DEF Next, Step, Edit, vars

-----------------------------------------------------------------------------
(* What commands have in hand                                              *)

\* Whatever p does, the others keep what they have in hand.
LEMMA OthersKeep ==
    ASSUME TypeOK, Exclusion, Hands, NEW p \in Commands, Step(p),
           NEW q \in Commands, q # p
    PROVE  InHand(q)'
<1>1. /\ pc'[q] = pc[q] /\ staged'[q] = staged[q]
      /\ candidate'[q] = candidate[q] /\ answer'[q] = answer[q]
      /\ pc[q] \in Late => (q \in overtaken' <=> q \in overtaken \/ graph' # graph)
  BY Framing DEF Remember
<1>2. InHand(q)
  BY DEF Hands
<1>3. CASE UNCHANGED <<target, graph>>
  BY <1>1, <1>2, <1>3 DEF InHand, Same
<1>4. CASE pc[q] \notin Critical
  BY <1>1, <1>2, <1>4 DEF InHand, Critical, Promoting, Late
<1> QED BY <1>3, <1>4, Framing DEF Exclusion, Holding

\* And p has in hand what it needs for its next operation.
LEMMA OwnHand ==
    ASSUME TypeOK, Hands, NEW p \in Commands, Step(p)
    PROVE  InHand(p)'
<1> USE DEF TypeOK, Critical, Promoting, call, env, Keep, Goto, Leave, Refuse
<1>1. InHand(p)
  BY DEF Hands
<1>2. CASE Leave(p) BY <1>2 DEF InHand, Late
<1>3. CASE Call(p) BY <1>3 DEF Call, InHand, Late
<1>4. CASE Fault(p)
  <2>1. CASE FaultPromoting(p) BY <1>1, <1>4, <2>1 DEF FaultPromoting, InHand, Late
  <2>2. CASE FaultRefreshed(p)
    BY <1>1, <1>4, <2>2
    DEF FaultRefreshed, VerifyAs, AfterVerify, InHand, Same, Commands, Late
  <2>3. CASE FaultUnread(p)
    BY <1>1, <2>3 DEF FaultUnread, AfterVerify, InHand, Commands, Late
  <2>4. CASE FaultInstalled(p)
    BY <1>1, <2>4 DEF FaultInstalled, InHand, Commands, Late
  <2>5. CASE FaultFails(p) BY <1>2, <2>5 DEF FaultFails
  <2> QED BY <1>4, <2>1, <2>2, <2>3, <2>4, <2>5 DEF Fault
<1>5. CASE GetLock(p)
  BY <1>1, <1>5, Framing DEF GetLock, InHand, Late, Remember
<1>6. CASE Prepare(p) /\ ~Refuse(p)
  <2>1. CASE Stage(p) BY <2>1 DEF Stage, InHand, Late
  <2>2. CASE Build(p)
    <3>1. \A c \in Contents : [source |-> staged[p], content |-> c, epoch |-> 1]
                                 \in Generations
      BY <1>1, <2>2, LifecycleAssumption
      DEF Build, InHand, Generations, LifecycleAssumption
    <3> QED BY <1>1, <2>2, <3>1 DEF Build, InHand, Late
  <2>3. CASE Existing(p)
    <3>1. /\ candidate[p] \in Generations /\ candidate[p].source = staged[p]
          /\ staged[p] \in Sources
      BY <1>1, <2>3 DEF Existing, InHand
    <3>2. Epoch(target, candidate[p]) \in 1..MaxEpoch
      BY <2>3, <3>1, EpochType DEF Existing
    <3> QED BY <2>3, <3>1, <3>2, NumberedType DEF Existing, InHand, Late
  <2>4. CASE Validate(p) BY <1>1, <2>4 DEF Validate, InHand, Late
  <2>5. CASE Check(p) BY <1>1, <2>5 DEF Check, InHand, Late
  <2> QED
    BY <1>6, <2>1, <2>2, <2>3, <2>4, <2>5
    DEF Prepare, Drifted, ExistingRefused, ValidateRefused
<1>7. CASE Promote(p)
  <2>1. CASE Recover(p) \/ Undo(p)
    BY <1>1, <2>1, RepairType DEF Recover, Undo, InHand, Late
  <2>2. CASE AlreadyInstalled(p)
    BY <1>1, <2>2, LifecycleAssumption
    DEF AlreadyInstalled, InHand, Interrupted, Same, LifecycleAssumption, Late
  <2>3. CASE SetAside(p) BY <1>1, <2>3 DEF SetAside, Directory!SetAside, InHand, Late
  <2>4. CASE Install(p) BY <1>1, <2>4 DEF Install, Directory!Install, InHand, Late
  <2>5. CASE Commit(p) BY <1>1, <2>5 DEF Commit, Directory!Commit, InHand, Same, Late
  <2>6. CASE Undone(p) BY <1>2, <2>6 DEF Undone
  <2> QED BY <1>7, <2>1, <2>2, <2>3, <2>4, <2>5, <2>6 DEF Promote
<1>8. CASE Finish(p) /\ ~Leave(p)
  BY <1>1, <1>8
  DEF Finish, Return, Record, Verify, VerifyRefused, VerifyAs, AfterVerify, InHand, Same,
      Commands, Late
<1> QED
  BY <1>2, <1>3, <1>4, <1>5, <1>6, <1>7, <1>8 DEF Step, Begin, Mishap, Work, Busy, Crash

\* A step keeps every command's hand.
LEMMA HandsStep == ASSUME TypeOK, Exclusion, Hands, [Next]_vars PROVE Hands'
<1>1. CASE UNCHANGED <<target, graph, pc, staged, candidate, answer, overtaken>>
  BY <1>1 DEF Hands, InHand, Same
<1>2. ASSUME NEW p \in Commands, Step(p) PROVE Hands'
  BY <1>2, OwnHand, OthersKeep DEF Hands
<1> QED BY <1>1, <1>2 DEF Next, Step, Edit, vars, call

-----------------------------------------------------------------------------
(* What holds until a command dies                                         *)

\* A command that holds the lock and is not replacing the graph finds the
\* directory as it should be.
LEMMA NotInterrupted ==
    ASSUME Exclusion, Undisturbed, NEW p \in Commands, Holding(p),
           pc[p] \notin Replacing
    PROVE  ~Interrupted
BY DEF Exclusion, Undisturbed, Holding, Critical, Promoting, Replacing

\* The number a refresh puts on its candidate goes on from the graph it sees.
LEMMA NumberFollows ==
    ASSUME TypeOK, ~Interrupted, target # Torn, NEW g \in Generations,
           Epoch(target, g) <= MaxEpoch
    PROVE  LET n == Numbered(g, Epoch(target, g))
           IN  graph = Absent \/ Same(graph, n) \/ n.epoch > graph.epoch
<1>1. Epoch(target, g) \in 1..MaxEpoch
  BY EpochType DEF TypeOK
<1>2. /\ Numbered(g, Epoch(target, g)) \in Generations
      /\ Numbered(g, Epoch(target, g)).source = g.source
      /\ Numbered(g, Epoch(target, g)).content = g.content
      /\ Numbered(g, Epoch(target, g)).epoch = Epoch(target, g)
  BY <1>1, NumberedType DEF Numbered
<1>3. target = graph
  BY DEF Interrupted
<1>4. graph # Absent => graph.epoch \in Nat
  BY DEF TypeOK, Generations
<1> QED BY <1>2, <1>3, <1>4 DEF Epoch, Same

\* The directory is only ever off while a command replaces the graph.
LEMMA InterruptedStep ==
    ASSUME ReliableRollback, TypeOK, Exclusion, Hands, Undisturbed,
           NEW p \in Commands, Step(p), ~Crash(p), Interrupted'
    PROVE  \E q \in Commands : pc'[q] \in Replacing
<1> USE DEF TypeOK, Critical, Promoting, Replacing, call, env, Keep, Goto, Holding
<1>1. CASE UNCHANGED <<target, graph>> /\ (pc[p] \in Replacing => pc'[p] \in Replacing)
  <2>1. Interrupted BY <1>1 DEF Interrupted
  <2>2. PICK q \in Commands : pc[q] \in Replacing BY <2>1 DEF Undisturbed
  <2> QED BY <1>1, <2>2, Framing
<1>2. CASE pc'[p] \in Replacing BY <1>2
<1>3. CASE Call(p) BY <1>1, <1>3 DEF Call
<1>4. CASE Fault(p)
  <2>1. CASE FaultPromoting(p) BY <1>2, <2>1 DEF FaultPromoting
  <2>2. CASE FaultRefreshed(p) \/ FaultUnread(p) \/ FaultInstalled(p) \/ FaultFails(p)
    BY <1>1, <1>4, <2>2
    DEF Fault, FaultRefreshed, FaultUnread, FaultInstalled, FaultFails, Refuse,
        ReliableRollback
  <2> QED BY <1>4, <2>1, <2>2 DEF Fault
<1>5. CASE GetLock(p) \/ Busy(p) BY <1>1, <1>5 DEF GetLock, Busy, Refuse
<1>6. CASE Prepare(p)
  BY <1>1, <1>6 DEF Prepare, Stage, Drifted, Build, ExistingRefused, Existing, Validate,
                    ValidateRefused, Check, Refuse
<1>7. CASE Promote(p)
  <2>1. CASE Recover(p) BY <2>1, NotInterrupted DEF Recover, Repair
  <2>2. CASE AlreadyInstalled(p) BY <1>1, <2>2 DEF AlreadyInstalled
  <2>3. CASE SetAside(p) \/ Install(p) \/ Undo(p)
    BY <1>2, <2>3 DEF SetAside, Install, Undo
  <2>4. CASE Commit(p) BY <2>4 DEF Commit, Directory!Commit, Interrupted
  <2>5. CASE Undone(p) BY <2>5 DEF Undone, Interrupted
  <2> QED BY <1>7, <2>1, <2>2, <2>3, <2>4, <2>5 DEF Promote
<1>8. CASE Finish(p)
  BY <1>1, <1>8 DEF Finish, Return, Record, Refuse, Verify, VerifyRefused
<1> QED BY <1>3, <1>4, <1>5, <1>6, <1>7, <1>8 DEF Step, Begin, Mishap, Work

\* A refresh promotes a graph whose epoch goes on from the one it replaces.
Follows(p) ==
    /\ pc[p] \in {"check"} \cup Promoting => EpochFollows(p)
    /\ pc[p] \in {"install", "commit"} => ~Same(graph, candidate[p])

\* What a refresh has staged and validated stays where it left it.
LEMMA FollowsStep ==
    ASSUME TypeOK, Exclusion, Hands, Undisturbed,
           NEW p \in Refreshes, Step(p)
    PROVE  Follows(p)'
<1> USE DEF TypeOK, Critical, Promoting, call, env, Keep, Goto, Holding
<1>1. p \in Commands /\ Follows(p)
  BY DEF Undisturbed, Follows, Commands
<1>2. CASE pc'[p] \notin {"check"} \cup Promoting BY <1>2 DEF Follows
<1>3. CASE Leave(p) BY <1>1, <1>2, <1>3 DEF Leave
<1>4. CASE Call(p) BY <1>1, <1>2, <1>4 DEF Call
<1>5. CASE Fault(p)
  BY <1>1, <1>2, <1>3, <1>5
  DEF Fault, FaultPromoting, FaultRefreshed, FaultUnread, FaultInstalled, FaultFails,
      Refuse, VerifyAs, AfterVerify
<1>6. CASE GetLock(p) BY <1>1, <1>2, <1>6 DEF GetLock
<1>7. CASE Prepare(p) /\ ~Leave(p)
  <2>1. CASE Existing(p)
    <3>1. candidate[p] \in Generations
      BY <1>1, <2>1, InHandTypes DEF Existing
    <3>2. ~Interrupted BY <1>1, <2>1, NotInterrupted DEF Existing, Replacing
    <3> QED
      BY <1>1, <2>1, <3>1, <3>2, NumberFollows DEF Existing, Follows, EpochFollows
  <2>2. CASE Stage(p) \/ Build(p) BY <1>1, <1>2, <2>2 DEF Stage, Build
  <2>3. CASE Validate(p)
    BY <1>1, <2>3 DEF Validate, Hands, InHand
  <2>4. CASE Check(p) BY <1>1, <2>4 DEF Check, Follows, EpochFollows, Same
  <2> QED
    BY <1>7, <2>1, <2>2, <2>3, <2>4
    DEF Prepare, Drifted, ExistingRefused, ValidateRefused, Refuse
<1>8. CASE Promote(p)
  <2>1. CASE Recover(p) BY <1>1, <2>1, NotInterrupted DEF Recover, Repair, Replacing
  <2>2. CASE SetAside(p)
    <3>1. ~Same(graph, candidate[p])
      BY <2>2, LifecycleAssumption
      DEF SetAside, Interrupted, Same, LifecycleAssumption
    <3> QED
      BY <1>1, <2>2, <3>1
      DEF SetAside, Directory!SetAside, Follows, EpochFollows, Same
  <2>3. CASE Install(p)
    BY <1>1, <2>3 DEF Install, Directory!Install, Follows, EpochFollows, Same
  <2>4. CASE AlreadyInstalled(p) \/ Commit(p) \/ Undo(p) \/ Undone(p)
    BY <1>1, <1>2, <1>3, <2>4 DEF AlreadyInstalled, Commit, Undo, Undone
  <2> QED BY <1>8, <2>1, <2>2, <2>3, <2>4 DEF Promote
<1>9. CASE Finish(p)
  BY <1>1, <1>2, <1>3, <1>9
  DEF Finish, Verify, VerifyRefused, VerifyAs, AfterVerify, Return, Record, Refuse
<1> QED
  BY <1>3, <1>4, <1>5, <1>6, <1>7, <1>8, <1>9
  DEF Step, Begin, Mishap, Work, Busy, Crash, Refuse

\* Until something dies the directory is off only while a command replaces it.
LEMMA UndisturbedStep ==
    ASSUME ReliableRollback, TypeOK, Exclusion, Hands, crashes = 0 => Undisturbed,
           [Next]_vars, crashes' = 0
    PROVE  Undisturbed'
<1>1. CASE UNCHANGED <<target, graph, pc, candidate, crashes>>
  BY <1>1 DEF Undisturbed, Interrupted, EpochFollows, Same
<1>2. ASSUME NEW p \in Commands, Step(p) PROVE Undisturbed'
  <2>1. ~Crash(p) BY DEF Crash, TypeOK
  <2>2. Undisturbed
    <3>1. crashes' = crashes
      BY <1>2, <2>1 DEF Step, Begin, Mishap, Call, Work, Fault, env
    <3> QED BY <3>1
  <2>3. Interrupted' => \E q \in Commands : pc'[q] \in Replacing
    BY <1>2, <2>1, <2>2, InterruptedStep
  <2>4. ASSUME NEW q \in Refreshes PROVE Follows(q)'
    <3>1. CASE q = p BY <1>2, <2>2, <3>1, FollowsStep
    <3>2. CASE q # p
      <4>1. q \in Commands /\ Follows(q)
        BY <2>2 DEF Undisturbed, Follows, Commands
      <4>2. pc'[q] = pc[q] /\ candidate'[q] = candidate[q]
        BY <1>2, <3>2, <4>1, Framing
      <4>3. CASE UNCHANGED graph BY <4>1, <4>2, <4>3 DEF Follows, EpochFollows, Same
      <4>4. CASE ~Holding(q)
        BY <4>2, <4>4 DEF Follows, Holding, Critical, Promoting
      <4> QED BY <1>2, <3>2, <4>1, <4>3, <4>4, Framing DEF Exclusion
    <3> QED BY <3>1, <3>2
  <2> QED BY <2>3, <2>4 DEF Undisturbed, Follows
<1> QED BY <1>1, <1>2 DEF Next, Step, Edit, vars, call

-----------------------------------------------------------------------------
(* Theorems                                                                *)

\* What holds however commands fail and die.
Safe == TypeOK /\ Exclusion /\ Hands

\* The parts of the invariant hold at first,
LEMMA InitSafe == Init => Safe
<1> SUFFICES ASSUME Init PROVE Safe OBVIOUS
<1>1. TypeOK
  BY LifecycleAssumption DEF Init, TypeOK, PCs, Generations, LifecycleAssumption
<1>2. Exclusion BY DEF Init, Exclusion, Holding, Critical, Promoting
<1>3. Hands BY DEF Init, Hands, InHand, Critical, Promoting, Late
<1> QED BY <1>1, <1>2, <1>3 DEF Safe

\* and every step keeps them.
LEMMA SafeStep == Safe /\ [Next]_vars => Safe'
BY TypeStep, ExclusionStep, HandsStep DEF Safe

\* The lifecycle lock lets one command at a time work on a checkout, and it
\* finds what it staged, validated and installed where it left it.
THEOREM SafeCorrect == Spec => []Safe
BY InitSafe, SafeStep, PTL DEF Spec

\* The types are those of the code's values.
THEOREM TypeCorrect == Spec => []TypeOK
BY SafeCorrect, PTL DEF Safe

\* Until a command dies and unless a rollback fails, the directory is only off
\* while a command replaces the graph, and every refresh has numbered its
\* candidate on from the graph it is about to replace.
THEOREM InvCorrect == ASSUME ReliableRollback PROVE Spec => []Inv
<1>1. Init => Inv
  <2> SUFFICES ASSUME Init PROVE Inv OBVIOUS
  <2>1. Undisturbed BY DEF Init, Undisturbed, Interrupted, Promoting, Commands
  <2> QED BY <2>1, InitSafe DEF Safe, Hands, Inv
<1>2. Inv /\ [Next]_vars => Inv'
  BY SafeStep, UndisturbedStep DEF Safe, Inv, Hands
<1> QED BY <1>1, <1>2, PTL DEF Spec

\* An answer that claims a current graph is true when it is given.
THEOREM FreshAnswersCorrect == Spec => FreshAnswers
<1>1. ASSUME Safe, Next, NEW p \in Commands, answer[p] = "none", answer'[p] = "fresh"
      PROVE  target = graph /\ graph \in Generations /\ graph.source = source
  <2> USE DEF Safe, TypeOK, call, env, Keep, Goto, Leave, Refuse
  <2>1. PICK q \in Commands : Step(q)
    BY <1>1 DEF Next, Step, Edit, call
  <2>2. Verify(q) /\ q = p /\ Current(p)
    <3>1. CASE UNCHANGED answer BY <1>1, <3>1
    <3>2. CASE Leave(q) BY <1>1, <3>2
    <3>3. CASE Call(q) BY <3>1, <3>3 DEF Call
    <3>4. CASE Fault(q)
      BY <1>1, <3>1, <3>2, <3>4
      DEF Fault, FaultPromoting, FaultRefreshed, FaultUnread, FaultInstalled, FaultFails,
          VerifyAs
    <3>5. CASE GetLock(q) BY <3>1, <3>5 DEF GetLock
    <3>6. CASE Prepare(q)
      BY <3>1, <3>2, <3>6
      DEF Prepare, Stage, Drifted, Build, ExistingRefused, Existing, Validate,
          ValidateRefused, Check
    <3>7. CASE Promote(q)
      BY <3>1, <3>2, <3>7
      DEF Promote, Recover, AlreadyInstalled, SetAside, Install, Commit, Undo, Undone
    <3>8. CASE Finish(q)
      BY <1>1, <3>2, <3>8
      DEF Finish, Verify, VerifyRefused, VerifyAs, Outcome, Return, Record
    <3> QED
      BY <2>1, <3>2, <3>3, <3>4, <3>5, <3>6, <3>7, <3>8
      DEF Step, Begin, Mishap, Work, Busy, Crash
  <2>3. target = graph /\ Same(graph, candidate[p]) /\ candidate[p].source = staged[p]
    BY <1>1, <2>2 DEF Verify, Hands, InHand
  <2> QED BY <2>2, <2>3 DEF Same, Current
<1>2. Safe /\ [Next]_vars =>
        [\A p \in Commands : answer[p] = "none" /\ answer'[p] = "fresh" =>
           target = graph /\ graph \in Generations /\ graph.source = source]_vars
  BY <1>1
<1> QED BY <1>2, SafeCorrect, PTL DEF Spec, FreshAnswers

\* Only the commit of p itself takes p from "commit" to "verify".
LEMMA RefreshedByCommit ==
    ASSUME TypeOK, NEW p \in Commands, Next, Refreshed(p) PROVE Commit(p)
<1> USE DEF TypeOK, call, env, Keep, Goto, Leave, Refuse, Refreshed
<1>1. PICK q \in Commands : Step(q)
  BY DEF Next, Step, Edit
<1>2. q = p
  BY <1>1, Framing
<1>3. pc[p] = "commit" /\ pc'[p] = "verify"
  OBVIOUS
<1>4. ~Leave(p) /\ ~Call(p) /\ ~Fault(p) /\ ~GetLock(p) /\ ~Busy(p) /\ ~Crash(p)
  BY <1>3
  DEF Call, Fault, FaultPromoting, FaultRefreshed, FaultUnread, FaultInstalled, FaultFails,
      VerifyAs, AfterVerify, GetLock, Busy, Crash
<1>5. ~Prepare(p) /\ ~Finish(p)
  BY <1>3
  DEF Prepare, Stage, Drifted, Build, ExistingRefused, Existing, Validate,
      ValidateRefused, Check, Finish, Verify, VerifyRefused, Return, Record
<1> QED
  BY <1>1, <1>2, <1>3, <1>4, <1>5
  DEF Step, Begin, Mishap, Work, Promote, Recover, AlreadyInstalled, SetAside, Install,
      Undo, Undone

\* Until a command dies, a refresh gives its graph a greater build epoch than
\* that of the graph it replaces.
THEOREM EpochsGrowCorrect ==
    ASSUME ReliableRollback PROVE Spec => EpochsGrowUninterrupted
<1>1. ASSUME Inv, Next, crashes = 0, NEW p \in Refreshes, Refreshed(p), graph # Absent
      PROVE  graph'.epoch > graph.epoch
  <2>1. p \in Commands BY DEF Commands
  <2>2. pc[p] = "commit" /\ graph' = target
    BY <1>1, <2>1, RefreshedByCommit DEF Commit, Goto, Directory!Commit, Inv
  <2>3. target = candidate[p] BY <1>1, <2>1, <2>2 DEF Inv, InHand
  <2>4. EpochFollows(p) /\ ~Same(graph, candidate[p])
    BY <1>1, <2>2 DEF Inv, Undisturbed, Promoting
  <2> QED BY <1>1, <2>2, <2>3, <2>4 DEF EpochFollows
<1>2. Inv /\ [Next]_vars =>
        [crashes = 0 => \A p \in Refreshes : Refreshed(p) /\ graph # Absent
           => graph'.epoch > graph.epoch]_vars
  BY <1>1
<1> QED BY <1>2, InvCorrect, PTL DEF Spec, EpochsGrowUninterrupted

\* A record of an install or a pull is of the graph in the checkout, unless its
\* command has been overtaken out of the lock, and of the installs only one that
\* answers "promoted_but_stale" has been there.
THEOREM RecordsCorrect == Spec => RecordsFollowGraph
<1> DEFINE Allowed(p) == \/ record' = graph
                         \/ p \in overtaken /\ (p \in Pulls \/ answer[p] = "stale")
<1>1. ASSUME Safe, Next, NEW p \in Installs \cup Pulls,
             pc[p] \in {"record", "rerecord"}, record' # record
      PROVE  Allowed(p)
  <2> USE DEF Safe, TypeOK, call, env, Keep, Goto, Leave, Refuse
  <2>1. p \in Commands /\ Holding(p)
    BY <1>1 DEF Commands, Holding, Critical
  <2>2. PICK q \in Commands : Step(q)
    BY <1>1 DEF Next, Step, Edit
  <2>3. q = p
    BY <1>1, <2>1, <2>2, Framing DEF Exclusion
  <2>4. record' = Recorded(p)
    <3>1. CASE Fault(p)
      BY <1>1, <3>1
      DEF Fault, FaultPromoting, FaultRefreshed, FaultUnread, FaultInstalled, FaultFails
    <3>2. CASE ~Fault(p)
      BY <1>1, <2>2, <2>3, <3>2, RepairType
      DEF Step, Begin, Mishap, Call, Work, Crash, GetLock, Busy, Prepare, Stage, Drifted,
          Build, ExistingRefused, Existing, Validate, ValidateRefused, Check, Promote,
          Recover, AlreadyInstalled, SetAside, Install, Commit, Undo, Undone, Finish,
          Verify, VerifyRefused, Return, Record
    <3> QED BY <3>1, <3>2
  <2>5. InHand(p) BY <1>1, <2>1 DEF Hands
  <2>6. candidate[p] # None /\ record' = candidate[p]
    BY <1>1, <2>4 DEF Recorded
  <2> QED BY <1>1, <2>5, <2>6 DEF InHand, Late
<1>2. Safe /\ [Next]_vars =>
        [\A p \in Installs \cup Pulls :
           pc[p] \in {"record", "rerecord"} /\ record' # record => Allowed(p)]_vars
  BY <1>1
<1> QED BY <1>2, SafeCorrect, PTL DEF Spec, RecordsFollowGraph
=============================================================================
