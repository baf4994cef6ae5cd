-------------------------- MODULE InputStagingProofs --------------------------
(***************************************************************************)
(* Machine-checked theorems about InputStaging and the coverage approvals  *)
(* (CoverageApproval) it extends, for any checkout, ignores, exceptions    *)
(* and approvals, any approvers, and any number of runs, edits, failures   *)
(* and deaths.                                                             *)
(***************************************************************************)
EXTENDS InputStaging, WellFoundedInduction, TLAPS

-------------------------------------------------------------------------------
(* What a projection takes                                                 *)

\* A path of the projection is a regular text file that no rule denies.
LEMMA ProjectedFiles ==
  ASSUME NEW c \in [Paths -> Contents], NEW ig, NEW p \in Projected(c, ig)
  PROVE  /\ p \in Paths /\ c[p] \in Texts
         /\ p \notin Denied \cup Neutral \cup ig
BY DEF Projected, Decision, Safe, Contents, Texts

\* The approvals of a checkout name files of its projection, and their bytes.
LEMMA ApprovedFiles ==
  ASSUME NEW c \in [Paths -> Contents], NEW ig,
         NEW S, S # None, ValidApprovals(S, Restrict(c, Projected(c, ig)))
  PROVE  S # Torn /\ \A e \in S : e[1] \in Paths /\ e[2] = c[e[1]]
<1> DEFINE F == Restrict(c, Projected(c, ig))
<1>1. DOMAIN F = Projected(c, ig) /\ \A p \in Projected(c, ig) : F[p] = c[p]
  BY DEF Restrict
<1>2. \A e \in S : e[1] \in Projected(c, ig) /\ c[e[1]] = e[2]
  BY <1>1 DEF ValidApprovals
<1>3. \A e \in S : e[1] \in Paths /\ e[2] = c[e[1]] /\ e[2] \in Texts
  BY <1>2, ProjectedFiles
<1>4. S # Torn
  <2>1. "torn" \notin Texts BY DEF Texts, Shapes
  <2> QED BY <1>3, <2>1 DEF Torn
<1> QED BY <1>3, <1>4

-------------------------------------------------------------------------------
(* The approvals: types                                                    *)

Entered == SUBSET (Approvals \cup Torn)
Controls == [entries : Entered \cup {None}, ino : Nat]
CallPCs == {"idle", "lock", "rederive", "done"} \cup InApply
Calls == [pc : CallPCs,
          entry : Approvals \cup {None}, prior : Controls \cup {None},
          payload : Entered \cup {None}, new : Entered \cup {None}, answer : Answers]

AppTyped == /\ control \in Controls /\ app \in [Approvers -> Calls]
            /\ granted \subseteq Approvals

\* From the preview to the rename a command knows what it would install: the
\* file it has seen, none of it torn, with its entry added and nothing lost.
Writing == {"check", "link", "bound", "rename"}
Comparing == {"lock", "rederive", "journal", "new"} \cup Writing
PreviewedBy(a) ==
  app[a].pc \in Comparing =>
    /\ app[a].entry \in Approvals /\ app[a].prior \in Controls
    /\ app[a].payload \in Entered /\ app[a].entry \in app[a].payload
    /\ app[a].prior.entries # Torn
    /\ app[a].prior.entries # None => app[a].prior.entries \subseteq app[a].payload
Previewed == \A a \in Approvers : PreviewedBy(a)

\* One command at a time is past the lock.
LockedBy(a) == lock = a <=> app[a].pc \in {"rederive"} \cup InApply
Locked == \A a \in Approvers : LockedBy(a)

\* Once it has compared, whatever was granted before is in what it installs.
CarriedBy(a) ==
  /\ app[a].pc \in Writing => app[a].new \in {app[a].payload, Torn}
  /\ app[a].pc \in Writing \ {"check"} => granted \subseteq app[a].payload
Carrying == \A a \in Approvers : CarriedBy(a)

AInv == ApprovalInv /\ AppTyped /\ Previewed /\ Locked /\ Carrying

\* The list a command would install holds its entry, and everything the file
\* has said of the checkout as it is.
LEMMA WithEntryKeeps ==
  ASSUME content \in [Paths -> Contents], control \in Controls, Derivable,
         NEW p \in DOMAIN BaseFiles
  PROVE  /\ <<p, content[p]>> \in Approvals
         /\ WithEntry(<<p, content[p]>>) \in Entered
         /\ <<p, content[p]>> \in WithEntry(<<p, content[p]>>)
         /\ control.entries # Torn
         /\ control.entries # None =>
              control.entries \subseteq WithEntry(<<p, content[p]>>)
<1> DEFINE entry == <<p, content[p]>>
<1>0. p \in Projected(content, ignored) BY DEF BaseFiles, Restrict
<1>1. entry \in Approvals BY <1>0, ProjectedFiles DEF Approvals
<1>2. Entries \in Entered BY ApprovalAssumption DEF Entries, Controls, Entered
<1>3. WithEntry(entry) \in Entered /\ entry \in WithEntry(entry)
  <2> HIDE DEF entry
  <2> QED BY <1>1, <1>2 DEF WithEntry, Entered
<1>4. control.entries # None =>
        /\ control.entries # Torn
        /\ \A e \in control.entries : e[1] \in Paths /\ e[2] = content[e[1]]
  BY ApprovedFiles DEF Derivable, BaseFiles
<1>5. None # Torn BY ApprovalAssumption DEF Torn
<1>6. ASSUME control.entries # None PROVE control.entries \subseteq WithEntry(entry)
  <2> SUFFICES ASSUME NEW e \in control.entries PROVE e \in WithEntry(entry)
    OBVIOUS
  <2>1. e \in Entries BY <1>6 DEF Entries
  <2>2. e = <<e[1], e[2]>>
    BY <1>6 DEF Controls, Entered, Approvals, Torn
  <2>3. e[1] = p => e = entry BY <1>4, <1>6, <2>2
  <2> QED BY <2>1, <2>3 DEF WithEntry
<1> QED BY <1>1, <1>3, <1>4, <1>5, <1>6

\* A command that goes on changes its place alone.
LEMMA ToIs ==
  ASSUME AppTyped, NEW a \in Approvers, NEW pc \in CallPCs, To(a, pc)
  PROVE  /\ app' \in [Approvers -> Calls]
         /\ app'[a].pc = pc
         /\ UNCHANGED <<app[a].entry, app[a].prior, app[a].payload, app[a].new>>
         /\ \A b \in Approvers \ {a} : app'[b] = app[b]
<1>1. app[a] \in Calls BY DEF AppTyped
<1>2. app'[a] = [app[a] EXCEPT !.pc = pc] BY DEF To, AppTyped
<1>3. app'[a] \in Calls BY <1>1, <1>2 DEF Calls
<1>4. /\ app'[a].pc = pc
      /\ UNCHANGED <<app[a].entry, app[a].prior, app[a].payload, app[a].new>>
  BY <1>1, <1>2 DEF Calls
<1>5. DOMAIN app' = Approvers /\ app' = [b \in Approvers |-> app'[b]]
  BY DEF To, AppTyped
<1>6. \A b \in Approvers \ {a} : app'[b] = app[b] BY DEF To, AppTyped
<1>7. \A b \in Approvers : app'[b] \in Calls BY <1>3, <1>6 DEF AppTyped
<1>8. app' \in [Approvers -> Calls]
  <2> HIDE DEF Calls
  <2> QED BY <1>5, <1>7
<1> QED BY <1>4, <1>6, <1>8

\* A command that answers has forgotten everything else.
LEMMA AnswerIs ==
  ASSUME AppTyped, NEW a \in Approvers, NEW answer \in Answers, Answer(a, answer)
  PROVE  /\ app' \in [Approvers -> Calls] /\ app'[a].pc = "done"
         /\ \A b \in Approvers \ {a} : app'[b] = app[b]
<1> DEFINE done == [Idle EXCEPT !.pc = "done"]
           told == [done EXCEPT !.answer = answer]
<1>1. Idle \in Calls BY DEF Idle, Calls, CallPCs, Answers
<1>2. done \in Calls /\ done.pc = "done"
  <2> HIDE DEF Idle
  <2> QED BY <1>1 DEF Calls, CallPCs
<1>3. told \in Calls /\ told.pc = "done"
  <2> HIDE DEF done
  <2> QED BY <1>2 DEF Calls
<1>4. app' = [app EXCEPT ![a] = told] BY DEF Answer
<1> HIDE DEF told
<1> QED BY <1>3, <1>4 DEF AppTyped

\* So it is with the write of the new sibling and its rename.
Put(a, pc, new) == app' = [app EXCEPT ![a].pc = pc, ![a].new = new]
\* An approver goes on with a new file, and no other moves.
LEMMA PutIs ==
  ASSUME AppTyped, NEW a \in Approvers, NEW pc \in CallPCs, NEW new \in Entered \cup {None},
         Put(a, pc, new)
  PROVE  /\ app' \in [Approvers -> Calls]
         /\ app'[a].pc = pc /\ app'[a].new = new
         /\ UNCHANGED <<app[a].entry, app[a].prior, app[a].payload>>
         /\ \A b \in Approvers \ {a} : app'[b] = app[b]
<1> DEFINE gone == [app[a] EXCEPT !.pc = pc]
           put == [gone EXCEPT !.new = new]
<1>1. app[a] \in Calls BY DEF AppTyped
<1>2. gone \in Calls /\ gone.pc = pc
      /\ gone.entry = app[a].entry /\ gone.prior = app[a].prior
      /\ gone.payload = app[a].payload
  BY <1>1 DEF Calls
<1>3. put \in Calls /\ put.pc = pc /\ put.new = new
      /\ put.entry = app[a].entry /\ put.prior = app[a].prior
      /\ put.payload = app[a].payload
  <2> HIDE DEF gone
  <2> QED BY <1>2 DEF Calls
<1>4. app' = [app EXCEPT ![a] = put] BY DEF Put, AppTyped
<1> HIDE DEF put
<1> QED BY <1>3, <1>4 DEF AppTyped

\* And with the preview.
LEMMA PreviewIs ==
  ASSUME AppTyped, Derivable, content \in [Paths -> Contents], NEW a \in Approvers,
         NEW p, Preview(a, p)
  PROVE  /\ app' \in [Approvers -> Calls] /\ app'[a].pc = "lock"
         /\ app'[a].entry = <<p, content[p]>> /\ app'[a].prior = control
         /\ app'[a].payload = WithEntry(<<p, content[p]>>)
         /\ \A b \in Approvers \ {a} : app'[b] = app[b]
<1> DEFINE x == <<p, content[p]>>
           y == WithEntry(x)
           c1 == [app[a] EXCEPT !.pc = "lock"]
           c2 == [c1 EXCEPT !.entry = x]
           c3 == [c2 EXCEPT !.prior = control]
           c4 == [c3 EXCEPT !.payload = y]
<1>1. app[a] \in Calls /\ control \in Controls BY DEF AppTyped
<1>2. x \in Approvals /\ y \in Entered BY <1>1, WithEntryKeeps DEF Preview
<1>3. app' = [app EXCEPT ![a] = c4] BY DEF Preview, AppTyped
<1> HIDE DEF x, y
<1>4. c1 \in Calls /\ c1.pc = "lock" BY <1>1 DEF Calls, CallPCs
<1> HIDE DEF c1
<1>5. c2 \in Calls /\ c2.pc = "lock" /\ c2.entry = x BY <1>2, <1>4 DEF Calls
<1> HIDE DEF c2
<1>6. c3 \in Calls /\ c3.pc = "lock" /\ c3.entry = x /\ c3.prior = control
  BY <1>1, <1>5 DEF Calls
<1> HIDE DEF c3
<1>7. /\ c4 \in Calls /\ c4.pc = "lock" /\ c4.entry = x /\ c4.prior = control
      /\ c4.payload = y
  BY <1>2, <1>6 DEF Calls
<1> HIDE DEF c4
<1>8. app' \in [Approvers -> Calls] /\ app'[a] = c4
      /\ \A b \in Approvers \ {a} : app'[b] = app[b]
  <2> HIDE DEF Calls
  <2> QED BY <1>3, <1>7 DEF AppTyped
<1> QED BY <1>7, <1>8 DEF x, y

\* A command that dies answers nothing.
LEMMA Forgotten ==
  ASSUME NEW a, ApproverDies(a) PROVE Answer(a, "none")
<1> DEFINE done == [Idle EXCEPT !.pc = "done"]
<1>1. done = [pc |-> "done", entry |-> None, prior |-> None, payload |-> None,
              new |-> None, answer |-> "none"]
  BY DEF Idle
<1>2. [done EXCEPT !.answer = "none"] = done
  <2> HIDE DEF done
  <2> QED BY <1>1
<1>3. app' = [app EXCEPT ![a] = done] BY DEF ApproverDies
<1> QED BY <1>2, <1>3 DEF Answer

\* A step of an approver is a step of its own command, and of its type.
LEMMA CommandStep ==
  ASSUME AppTyped, content \in [Paths -> Contents], Previewed, Carrying,
         NEW a \in Approvers, Approve(a)
  PROVE  /\ app' \in [Approvers -> Calls]
         /\ \A b \in Approvers \ {a} : app'[b] = app[b]
<1>1. ASSUME \E pc \in CallPCs : To(a, pc)
      PROVE  app' \in [Approvers -> Calls] /\ \A b \in Approvers \ {a} : app'[b] = app[b]
  <2> PICK pc \in CallPCs : To(a, pc) BY <1>1
  <2> QED BY ToIs
<1>2. ASSUME \E answer \in Answers : Answer(a, answer)
      PROVE  app' \in [Approvers -> Calls] /\ \A b \in Approvers \ {a} : app'[b] = app[b]
  <2> PICK answer \in Answers : Answer(a, answer) BY <1>2
  <2> QED BY AnswerIs
<1>3. ASSUME \E pc \in CallPCs : \E new \in Entered \cup {None} : Put(a, pc, new)
      PROVE  app' \in [Approvers -> Calls] /\ \A b \in Approvers \ {a} : app'[b] = app[b]
  <2> PICK pc \in CallPCs, new \in Entered \cup {None} : Put(a, pc, new) BY <1>3
  <2> QED BY PutIs
<1>4. ASSUME NEW p \in Paths, Preview(a, p)
      PROVE  app' \in [Approvers -> Calls] /\ \A b \in Approvers \ {a} : app'[b] = app[b]
  <2>1. Derivable BY <1>4 DEF Preview
  <2> QED BY <1>4, <2>1, PreviewIs
<1>5. {"rederive", "journal", "new", "check", "link", "bound", "rename",
       "drop_backup", "drop_journal"} \subseteq CallPCs
  BY DEF CallPCs, InApply
<1>6. {"none", "approved", "unchanged", "coverage_conflict",
       "coverage_recovery_required"} \subseteq Answers
  BY DEF Answers
<1>7. CASE GetLock(a)
  <2>1. To(a, "rederive") BY <1>7 DEF GetLock
  <2> QED BY <2>1, <1>1, <1>5
<1>8. CASE Rederive(a)
  <2>1. To(a, "journal") \/ Answer(a, "coverage_recovery_required") \/ Answer(a, "unchanged")
    BY <1>8 DEF Rederive
  <2> QED BY <2>1, <1>1, <1>2, <1>5, <1>6
<1>9. CASE Changed(a)
  <2>1. PICK answer \in {"coverage_conflict", "coverage_recovery_required"} : Answer(a, answer)
    BY <1>9 DEF Changed
  <2> QED BY <2>1, <1>2, <1>6
<1>10. CASE WriteJournal(a)
  <2>1. To(a, "new") BY <1>10 DEF WriteJournal
  <2> QED BY <2>1, <1>1, <1>5
<1>11. CASE WriteNew(a)
  <2>1. app[a].payload \in Entered /\ Torn \in Entered
    BY <1>11 DEF WriteNew, Previewed, PreviewedBy, Comparing, Writing, Entered
  <2>2. PICK new \in {app[a].payload, Torn} : Put(a, "check", new)
    BY <1>11 DEF WriteNew, Put
  <2>3. new \in Entered \cup {None} /\ "check" \in CallPCs BY <2>1, <1>5
  <2> QED BY <2>2, <2>3, <1>3
<1>12. CASE Check(a)
  <2>1. To(a, "rename") \/ To(a, "link") \/ Answer(a, "coverage_conflict")
    BY <1>12 DEF Check, Conflict
  <2> QED BY <2>1, <1>1, <1>2, <1>5, <1>6
<1>13. CASE Link(a)
  <2>1. To(a, "bound") BY <1>13 DEF Link
  <2> QED BY <2>1, <1>1, <1>5
<1>14. CASE Bound(a)
  <2>1. To(a, "rename") \/ Answer(a, "coverage_conflict")
    BY <1>14 DEF Bound, Conflict
  <2> QED BY <2>1, <1>1, <1>2, <1>5, <1>6
<1>15. CASE Rename(a)
  <2>1. PICK pc \in {"drop_journal", "drop_backup"} : Put(a, pc, None)
    BY <1>15 DEF Rename, Put
  <2>2. pc \in CallPCs /\ None \in Entered \cup {None} BY <2>1, <1>5
  <2> QED BY <2>1, <2>2, <1>3
<1>16. CASE DropBackup(a)
  <2>1. To(a, "drop_journal") BY <1>16 DEF DropBackup
  <2> QED BY <2>1, <1>1, <1>5
<1>17. CASE DropJournal(a)
  <2>1. Answer(a, "approved") BY <1>17 DEF DropJournal
  <2> QED BY <2>1, <1>2, <1>6
<1>18. CASE ApplyFails(a)
  <2>1. Answer(a, "coverage_recovery_required") BY <1>18 DEF ApplyFails
  <2> QED BY <2>1, <1>2, <1>6
<1>19. CASE ApproverDies(a)
  <2>1. Answer(a, "none") BY <1>19, Forgotten
  <2> QED BY <2>1, <1>2, <1>6
<1> QED
  BY <1>4, <1>7, <1>8, <1>9, <1>10, <1>11, <1>12, <1>13, <1>14, <1>15, <1>16, <1>17,
     <1>18, <1>19 DEF Approve

\* Types: every step of an approver, and whatever the user does, keeps them.
LEMMA ApprovalTypeStep ==
  ASSUME ApprovalTypeOK, AppTyped, Previewed, Carrying, ApprovalNext
  PROVE  ApprovalTypeOK' /\ AppTyped'
<1>0. SUFFICES /\ app' \in [Approvers -> Calls]
               /\ control' \in Controls /\ granted' \subseteq Approvals
               /\ schema' \in Schemas /\ content' \in [Paths -> Contents]
               /\ ignored' \subseteq Paths /\ exceptions' \subseteq Exceptions
               /\ journal' \in BOOLEAN /\ backup' \in Nat \cup {None}
               /\ lock' \in Approvers \cup {None}
               /\ edits' \in 0 .. MaxEdits /\ failures' \in 0 .. MaxFailures
  <2>1. ASSUME app' \in [Approvers -> Calls], control' \in Controls
        PROVE  /\ \A b \in Approvers : app'[b].answer \in Answers
               /\ control'.ino \in Nat
               /\ control'.entries # None => control'.entries \subseteq Approvals \cup Torn
    BY <2>1 DEF Calls, Controls, Entered
  <2> QED BY <2>1 DEF AppTyped, ApprovalTypeOK
<1> USE ApprovalAssumption DEF ApprovalTypeOK, AppTyped, sources
<1>1. CASE Edit
  <2>1. UNCHANGED <<schema, journal, backup, lock, app, failures>> /\ edits' \in 0 .. MaxEdits
    BY <1>1 DEF Edit
  <2>2. content' \in [Paths -> Contents] BY <1>1 DEF Edit
  <2>3. ignored' \subseteq Paths /\ exceptions' \subseteq Exceptions
    BY <1>1 DEF Edit
  <2>4. control' \in Controls
    <3>1. ASSUME NEW S \in UserApprovals \cup {None}
          PROVE  NewControl(S) \in Controls /\ [control EXCEPT !.entries = S] \in Controls
      <4>1. S \in Entered \cup {None} BY <3>1 DEF Entered
      <4>2. control \in Controls OBVIOUS
      <4>3. NewControl(S) \in Controls BY <4>1, <4>2 DEF NewControl, Controls
      <4> HIDE ApprovalAssumption DEF ApprovalTypeOK, AppTyped, sources
      <4>4. [control EXCEPT !.entries = S] \in Controls BY <4>1, <4>2 DEF Controls
      <4> QED BY <4>3, <4>4
    <3>2. \/ control' = control
          \/ \E S \in UserApprovals \cup {None} :
               control' = NewControl(S) \/ control' = [control EXCEPT !.entries = S]
      BY <1>1 DEF Edit
    <3> HIDE ApprovalAssumption DEF ApprovalTypeOK, sources
    <3> QED BY <3>1, <3>2 DEF AppTyped
  <2>5. granted' \subseteq Approvals BY <1>1 DEF Edit
  <2> QED BY <2>1, <2>2, <2>3, <2>4, <2>5
<1>2. CASE ClearLeftovers BY <1>2 DEF ClearLeftovers
<1>3. ASSUME NEW a \in Approvers, Approve(a)
      PROVE  /\ control' \in Controls /\ granted' \subseteq Approvals
             /\ UNCHANGED <<sources, edits>>
             /\ journal' \in BOOLEAN /\ backup' \in Nat \cup {None}
             /\ lock' \in Approvers \cup {None} /\ failures' \in 0 .. MaxFailures
  <2>1. ASSUME NEW p \in Paths, Preview(a, p)
        PROVE  UNCHANGED <<sources, control, journal, backup, lock, granted, edits, failures>>
    BY <2>1 DEF Preview
  <2>2. CASE GetLock(a) BY <1>3, <2>2 DEF GetLock
  <2>3. CASE Rederive(a)
    <3>1. app[a].entry \in Approvals BY <2>3 DEF Rederive, Previewed, PreviewedBy, Comparing
    <3> QED BY <1>3, <2>3, <3>1 DEF Rederive
  <2>4. CASE Changed(a) BY <2>4 DEF Changed
  <2>5. CASE WriteJournal(a) BY <2>5 DEF WriteJournal
  <2>6. CASE WriteNew(a) BY <2>6 DEF WriteNew
  <2>7. CASE Check(a) BY <2>7 DEF Check, Conflict
  <2>8. CASE Link(a) BY <2>8 DEF Link, Controls
  <2>9. CASE Bound(a) BY <2>9 DEF Bound, Conflict
  <2>10. CASE Rename(a)
    <3>1. /\ app[a].entry \in Approvals /\ app[a].payload \in Entered
          /\ app[a].new \in {app[a].payload, Torn}
      BY <2>10 DEF Rename, Previewed, PreviewedBy, Carrying, CarriedBy, Comparing, Writing
    <3>2. app[a].new \in Entered BY <3>1 DEF Entered
    <3>3. control' \in Controls
      BY <2>10, <3>2 DEF Rename, NewControl, Controls
    <3> QED BY <2>10, <3>1, <3>3 DEF Rename
  <2>11. CASE DropBackup(a) BY <2>11 DEF DropBackup
  <2>12. CASE DropJournal(a) BY <2>12 DEF DropJournal
  <2>13. CASE ApplyFails(a) BY <2>13 DEF ApplyFails
  <2>14. CASE ApproverDies(a) BY <2>14 DEF ApproverDies
  <2> HIDE ApprovalAssumption DEF ApprovalTypeOK
  <2> QED
    BY <1>3, <2>1, <2>2, <2>3, <2>4, <2>5, <2>6, <2>7, <2>8, <2>9, <2>10, <2>11, <2>12,
       <2>13, <2>14 DEF Approve, ApprovalTypeOK
<1>4. ASSUME NEW a \in Approvers, Approve(a) PROVE app' \in [Approvers -> Calls]
  <2> HIDE DEF AppTyped
  <2> QED BY <1>4, CommandStep
<1> QED BY <1>1, <1>2, <1>3, <1>4 DEF ApprovalNext

-------------------------------------------------------------------------------
(* The approvals: nobody's is lost                                         *)

\* A command disturbs the others only through the lock and what is granted.
LEMMA OthersStay ==
  ASSUME Previewed, Locked, Carrying, NEW a \in Approvers,
         \A b \in Approvers \ {a} : app'[b] = app[b],
         lock' = lock \/ {lock, lock'} = {None, a},
         granted' = granted \/ lock = a,
         PreviewedBy(a)', LockedBy(a)', CarriedBy(a)'
  PROVE  Previewed' /\ Locked' /\ Carrying'
<1>1. None \notin Approvers BY ApprovalAssumption
<1>2. \A b \in Approvers \ {a} : PreviewedBy(b)'
  BY DEF Previewed, PreviewedBy
<1>3. \A b \in Approvers \ {a} : LockedBy(b)'
  BY <1>1 DEF Locked, LockedBy
<1>4. \A b \in Approvers \ {a} : CarriedBy(b)'
  <2> SUFFICES ASSUME NEW b \in Approvers \ {a} PROVE CarriedBy(b)' OBVIOUS
  <2>1. app'[b] = app[b] OBVIOUS
  <2>2. CASE granted' = granted BY <2>1, <2>2 DEF Carrying, CarriedBy
  <2>3. CASE lock = a
    <3>1. app[b].pc \notin InApply BY <2>3 DEF Locked, LockedBy
    <3>2. Writing \subseteq InApply BY DEF Writing, InApply
    <3> QED BY <2>1, <3>1, <3>2 DEF CarriedBy
  <2> QED BY <2>2, <2>3
<1> QED BY <1>2, <1>3, <1>4 DEF Previewed, Locked, Carrying

\* A command that answers gives up the lock, if it had it.
LEMMA Answered ==
  ASSUME AppTyped, Previewed, Locked, Carrying, NEW a \in Approvers,
         NEW answer \in Answers, Answer(a, answer),
         lock' = IF lock = a THEN None ELSE lock,
         granted' = granted \/ lock = a
  PROVE  Previewed' /\ Locked' /\ Carrying'
<1>1. app'[a].pc = "done" /\ \A b \in Approvers \ {a} : app'[b] = app[b] BY AnswerIs
<1>2. None \notin Approvers BY ApprovalAssumption
<1>3. PreviewedBy(a)' BY <1>1 DEF PreviewedBy, Comparing, Writing
<1>4. CarriedBy(a)' BY <1>1 DEF CarriedBy, Writing
<1>5. LockedBy(a)' BY <1>1, <1>2 DEF LockedBy, InApply
<1>6. lock' = lock \/ {lock, lock'} = {None, a} OBVIOUS
<1> QED BY <1>1, <1>3, <1>4, <1>5, <1>6, OthersStay

\* So does one that goes on, if what it goes on to do may be done with the lock
\* it has, and what it has granted is in what it installs.
LEMMA GoesOn ==
  ASSUME AppTyped, Previewed, Locked, Carrying, NEW a \in Approvers,
         NEW pc \in CallPCs, To(a, pc),
         pc \in Comparing => app[a].pc \in Comparing,
         pc \in Writing => app[a].pc \in Writing,
         pc \in Writing \ {"check"} => granted \subseteq app[a].payload,
         lock' = lock \/ {lock, lock'} = {None, a},
         granted' = granted,
         lock' = a <=> pc \in {"rederive"} \cup InApply
  PROVE  Previewed' /\ Locked' /\ Carrying'
<1>1. /\ app'[a].pc = pc
      /\ UNCHANGED <<app[a].entry, app[a].prior, app[a].payload, app[a].new>>
      /\ \A b \in Approvers \ {a} : app'[b] = app[b]
  BY ToIs
<1>2. PreviewedBy(a)' BY <1>1 DEF Previewed, PreviewedBy
<1>3. CarriedBy(a)' BY <1>1 DEF Carrying, CarriedBy
<1>4. LockedBy(a)' BY <1>1 DEF LockedBy
<1> QED BY <1>1, <1>2, <1>3, <1>4, OthersStay

\* What the user has been told stays in the file, whatever an approver does.
LEMMA ApproverKeeps ==
  ASSUME ApprovalTypeOK, AppTyped, Previewed, Locked, Carrying, ApprovalsKept,
         NEW a \in Approvers, Approve(a)
  PROVE  Previewed' /\ Locked' /\ Carrying' /\ ApprovalsKept'
<1> DEFINE Others == Previewed' /\ Locked' /\ Carrying'
<1>0. None \notin Approvers BY ApprovalAssumption
<1>1. \A pc \in {"rederive", "journal", "new", "check", "link", "bound", "rename",
                 "drop_backup", "drop_journal"} : pc \in CallPCs
  BY DEF CallPCs, InApply
<1>2. \A answer \in {"none", "approved", "unchanged", "coverage_conflict",
                     "coverage_recovery_required"} : answer \in Answers
  BY DEF Answers
<1>3. app[a].pc \in {"rederive"} \cup InApply => lock = a BY DEF Locked, LockedBy
<1>4. ASSUME UNCHANGED <<control, granted>> PROVE ApprovalsKept'
  BY <1>4 DEF ApprovalsKept, Entries
<1>5. ASSUME NEW p \in Paths, Preview(a, p) PROVE Others
  <2>1. Derivable /\ p \in DOMAIN BaseFiles /\ UNCHANGED <<lock, granted>>
        /\ app[a].pc = "idle"
    BY <1>5 DEF Preview
  <2>2. content \in [Paths -> Contents] BY DEF ApprovalTypeOK
  <2>3. /\ app'[a].pc = "lock"
        /\ app'[a].entry = <<p, content[p]>> /\ app'[a].prior = control
        /\ app'[a].payload = WithEntry(<<p, content[p]>>)
        /\ \A b \in Approvers \ {a} : app'[b] = app[b]
    BY <1>5, <2>1, <2>2, PreviewIs
  <2>4. /\ <<p, content[p]>> \in Approvals
        /\ WithEntry(<<p, content[p]>>) \in Entered
        /\ <<p, content[p]>> \in WithEntry(<<p, content[p]>>)
        /\ control.entries # Torn
        /\ control.entries # None =>
             control.entries \subseteq WithEntry(<<p, content[p]>>)
        /\ control \in Controls
    BY <2>1, <2>2, WithEntryKeeps DEF AppTyped
  <2>5. PreviewedBy(a)' BY <2>3, <2>4 DEF PreviewedBy
  <2>6. LockedBy(a)' BY <2>1, <2>3 DEF Locked, LockedBy, InApply
  <2>7. CarriedBy(a)' BY <2>3 DEF CarriedBy, Writing
  <2> QED BY <2>1, <2>3, <2>5, <2>6, <2>7, OthersStay
<1>6. CASE GetLock(a)
  <2>1. To(a, "rederive") /\ lock = None /\ lock' = a /\ granted' = granted
        /\ app[a].pc = "lock" /\ UNCHANGED control
    BY <1>6 DEF GetLock
  <2>2. Others
    BY <1>0, <1>1, <2>1, GoesOn DEF Comparing, Writing, InApply
  <2> QED BY <1>4, <2>1, <2>2
<1>7. CASE Rederive(a)
  <2>0. lock = a BY <1>3, <1>7 DEF Rederive
  <2>1. CASE To(a, "journal") /\ UNCHANGED <<lock, granted, control>>
    <3>1. Others
      <4>1. app[a].pc = "rederive" BY <1>7 DEF Rederive
      <4> QED BY <1>0, <1>1, <2>0, <2>1, <4>1, GoesOn DEF Comparing, Writing, InApply
    <3> QED BY <1>4, <2>1, <3>1
  <2>2. CASE Answer(a, "coverage_recovery_required") /\ lock' = None
             /\ UNCHANGED <<granted, control>>
    <3>1. Others BY <1>2, <2>0, <2>2, Answered
    <3> QED BY <1>4, <2>2, <3>1
  <2>3. CASE /\ Answer(a, "unchanged") /\ lock' = None /\ UNCHANGED control
             /\ control.entries = app[a].payload
             /\ granted' = granted \cup {app[a].entry}
    <3>1. Others BY <1>2, <2>0, <2>3, Answered
    <3>2. app[a].payload \in Entered /\ app[a].entry \in app[a].payload
      BY <1>7 DEF Rederive, Previewed, PreviewedBy, Comparing
    <3>3. app[a].payload # None BY <3>2, ApprovalAssumption DEF Entered
    <3>4. ApprovalsKept' BY <2>3, <3>2, <3>3 DEF ApprovalsKept, Entries
    <3> QED BY <3>1, <3>4
  <2> QED BY <1>7, <2>1, <2>2, <2>3 DEF Rederive
<1>8. CASE Changed(a)
  <2>1. lock = a /\ lock' = None /\ UNCHANGED <<granted, control>>
    BY <1>3, <1>8 DEF Changed
  <2>2. PICK answer \in {"coverage_conflict", "coverage_recovery_required"} : Answer(a, answer)
    BY <1>8 DEF Changed
  <2>3. Others BY <1>2, <2>1, <2>2, Answered
  <2> QED BY <1>4, <2>1, <2>3
<1>9. CASE WriteJournal(a)
  <2>1. To(a, "new") /\ UNCHANGED <<lock, granted, control>> /\ app[a].pc = "journal"
    BY <1>9 DEF WriteJournal
  <2>2. Others
    <3>1. lock = a BY <1>3, <2>1 DEF InApply
    <3> QED BY <1>0, <1>1, <2>1, <3>1, GoesOn DEF Comparing, Writing, InApply
  <2> QED BY <1>4, <2>1, <2>2
<1>10. CASE WriteNew(a)
  <2>1. UNCHANGED <<lock, granted, control>> /\ app[a].pc = "new" BY <1>10 DEF WriteNew
  <2>2. PICK new \in {app[a].payload, Torn} : Put(a, "check", new)
    BY <1>10 DEF WriteNew, Put
  <2>3. app[a].payload \in Entered /\ Torn \in Entered
    BY <2>1 DEF Previewed, PreviewedBy, Comparing, Entered
  <2>4. /\ app'[a].pc = "check" /\ app'[a].new = new
        /\ UNCHANGED <<app[a].entry, app[a].prior, app[a].payload>>
        /\ \A b \in Approvers \ {a} : app'[b] = app[b]
    <3>1. new \in Entered \cup {None} BY <2>2, <2>3
    <3>2. "check" \in CallPCs BY <1>1
    <3> QED BY <2>2, <3>1, <3>2, PutIs
  <2>5. PreviewedBy(a)' BY <2>1, <2>4 DEF Previewed, PreviewedBy, Comparing
  <2>6. LockedBy(a)' BY <2>1, <2>2, <2>4 DEF Locked, LockedBy, InApply
  <2>7. CarriedBy(a)' BY <2>2, <2>4 DEF CarriedBy
  <2> QED BY <1>4, <2>1, <2>4, <2>5, <2>6, <2>7, OthersStay
<1>11. CASE Check(a)
  <2>0. app[a].pc = "check" /\ lock = a /\ UNCHANGED <<granted, control>>
    BY <1>3, <1>11 DEF Check, InApply
  <2>1. CASE SameControl(control, app[a].prior) /\ UNCHANGED lock
             /\ To(a, IF control.entries = None THEN "rename" ELSE "link")
    <3>1. PICK pc \in {"rename", "link"} : To(a, pc) BY <2>1
    <3>2. /\ app[a].prior.entries # Torn /\ app[a].payload \in Entered
          /\ app[a].prior.entries # None => app[a].prior.entries \subseteq app[a].payload
      BY <2>0 DEF Previewed, PreviewedBy, Comparing, Writing
    <3>3. control.entries = app[a].prior.entries BY <2>1 DEF SameControl
    <3>4. granted \subseteq app[a].payload
      BY <3>2, <3>3 DEF ApprovalsKept, Entries
    <3>5. Others
      BY <1>0, <1>1, <2>0, <2>1, <3>1, <3>4, GoesOn DEF Comparing, Writing, InApply
    <3> QED BY <1>4, <2>0, <3>5
  <2>2. CASE Answer(a, "coverage_conflict") /\ lock' = None
    <3>1. Others BY <1>2, <2>0, <2>2, Answered
    <3> QED BY <1>4, <2>0, <3>1
  <2> QED BY <1>11, <2>1, <2>2 DEF Check, Conflict
<1>12. CASE Link(a)
  <2>1. To(a, "bound") /\ UNCHANGED <<lock, granted, control>> /\ app[a].pc = "link"
    BY <1>12 DEF Link
  <2>2. Others
    <3>1. lock = a BY <1>3, <2>1 DEF InApply
    <3>2. granted \subseteq app[a].payload BY <2>1 DEF Carrying, CarriedBy, Writing
    <3> QED BY <1>0, <1>1, <2>1, <3>1, <3>2, GoesOn DEF Comparing, Writing, InApply
  <2> QED BY <1>4, <2>1, <2>2
<1>13. CASE Bound(a)
  <2>0. app[a].pc = "bound" /\ lock = a /\ UNCHANGED <<granted, control>>
    BY <1>3, <1>13 DEF Bound, InApply
  <2>1. CASE To(a, "rename") /\ UNCHANGED lock
    <3>1. granted \subseteq app[a].payload BY <2>0 DEF Carrying, CarriedBy, Writing
    <3>2. Others
      BY <1>0, <1>1, <2>0, <2>1, <3>1, GoesOn DEF Comparing, Writing, InApply
    <3> QED BY <1>4, <2>0, <3>2
  <2>2. CASE Answer(a, "coverage_conflict") /\ lock' = None
    <3>1. Others BY <1>2, <2>0, <2>2, Answered
    <3> QED BY <1>4, <2>0, <3>1
  <2> QED BY <1>13, <2>1, <2>2 DEF Bound, Conflict
<1>14. CASE Rename(a)
  <2>1. /\ app[a].pc = "rename" /\ lock = a /\ UNCHANGED lock
        /\ control'.entries = app[a].new
        /\ granted' = granted \cup {app[a].entry}
    BY <1>3, <1>14 DEF Rename, NewControl, InApply
  <2>2. PICK pc \in {"drop_journal", "drop_backup"} : Put(a, pc, None)
    BY <1>14 DEF Rename, Put
  <2>3. app'[a].pc = pc /\ \A b \in Approvers \ {a} : app'[b] = app[b]
    <3>1. pc \in CallPCs /\ None \in Entered \cup {None} BY <1>1, <2>2
    <3> QED BY <2>2, <3>1, PutIs
  <2>4. Others
    <3>1. PreviewedBy(a)' BY <2>2, <2>3 DEF PreviewedBy, Comparing, Writing
    <3>2. LockedBy(a)' BY <2>1, <2>2, <2>3 DEF LockedBy, InApply
    <3>3. CarriedBy(a)' BY <2>2, <2>3 DEF CarriedBy, Writing
    <3> QED BY <2>1, <2>3, <3>1, <3>2, <3>3, OthersStay
  <2>5. /\ app[a].payload \in Entered /\ app[a].entry \in app[a].payload
        /\ app[a].new \in {app[a].payload, Torn} /\ granted \subseteq app[a].payload
    BY <2>1 DEF Previewed, PreviewedBy, Carrying, CarriedBy, Comparing, Writing
  <2>6. app[a].payload # None BY <2>5, ApprovalAssumption DEF Entered
  <2>7. ApprovalsKept' BY <2>1, <2>5, <2>6 DEF ApprovalsKept, Entries
  <2> QED BY <2>4, <2>7
<1>15. CASE DropBackup(a)
  <2>1. To(a, "drop_journal") /\ UNCHANGED <<lock, granted, control>>
        /\ app[a].pc = "drop_backup"
    BY <1>15 DEF DropBackup
  <2>2. Others
    <3>1. lock = a BY <1>3, <2>1 DEF InApply
    <3> QED BY <1>0, <1>1, <2>1, <3>1, GoesOn DEF Comparing, Writing, InApply
  <2> QED BY <1>4, <2>1, <2>2
<1>16. CASE DropJournal(a)
  <2>1. Answer(a, "approved") /\ lock = a /\ lock' = None /\ UNCHANGED <<granted, control>>
    BY <1>3, <1>16 DEF DropJournal, InApply
  <2>2. Others BY <1>2, <2>1, Answered
  <2> QED BY <1>4, <2>1, <2>2
<1>17. CASE ApplyFails(a)
  <2>1. /\ Answer(a, "coverage_recovery_required") /\ lock = a /\ lock' = None
        /\ UNCHANGED <<granted, control>>
    BY <1>3, <1>17 DEF ApplyFails
  <2>2. Others BY <1>2, <2>1, Answered
  <2> QED BY <1>4, <2>1, <2>2
<1>18. CASE ApproverDies(a)
  <2>1. Answer(a, "none") BY <1>18, Forgotten
  <2>2. lock' = (IF lock = a THEN None ELSE lock) /\ UNCHANGED <<granted, control>>
    BY <1>18 DEF ApproverDies
  <2>3. Others BY <1>2, <2>1, <2>2, Answered
  <2> QED BY <1>4, <2>2, <2>3
<1>19. ASSUME NEW p \in Paths, Preview(a, p) PROVE ApprovalsKept'
  BY <1>4, <1>19 DEF Preview
<1> QED
  BY <1>5, <1>6, <1>7, <1>8, <1>9, <1>10, <1>11, <1>12, <1>13, <1>14, <1>15, <1>16,
     <1>17, <1>18, <1>19 DEF Approve

\* An edit of the control file takes back what was granted; nothing else the
\* user does touches the file or a command.
LEMMA UserKeeps ==
  ASSUME Previewed, Locked, Carrying, ApprovalsKept, Edit \/ ClearLeftovers
  PROVE  Previewed' /\ Locked' /\ Carrying' /\ ApprovalsKept'
<1>1. UNCHANGED <<lock, app>> BY DEF Edit, ClearLeftovers
<1>2. UNCHANGED <<control, granted>> \/ granted' = {}
  BY DEF Edit, ClearLeftovers
<1>3. Previewed' BY <1>1 DEF Previewed, PreviewedBy
<1>4. Locked' BY <1>1 DEF Locked, LockedBy
<1>5. Carrying' BY <1>1, <1>2 DEF Carrying, CarriedBy
<1>6. ApprovalsKept' BY <1>2 DEF ApprovalsKept, Entries
<1> QED BY <1>3, <1>4, <1>5, <1>6

\* The inductive invariant of the approvals holds at first ...
LEMMA ApprovalStarts == ASSUME ApprovalInit PROVE AInv
<1> USE ApprovalAssumption DEF ApprovalInit
<1>1. ApprovalTypeOK
  <2>1. content \in [Paths -> Contents] /\ ignored \subseteq Paths
        /\ exceptions \subseteq Exceptions
    OBVIOUS
  <2>2. \A a \in Approvers : app[a].answer = "none" BY DEF Idle
  <2>3. schema \in Schemas /\ control.entries = None /\ control.ino = 0 /\ journal = FALSE
        /\ backup = None /\ lock = None /\ edits = 0 /\ failures = 0
    OBVIOUS
  <2>4. MaxEdits \in Nat /\ MaxFailures \in Nat OBVIOUS
  <2> HIDE ApprovalAssumption DEF ApprovalInit
  <2>5. control.ino \in Nat /\ (control.entries # None => control.entries \subseteq Approvals \cup Torn)
    BY <2>3
  <2>6. journal \in BOOLEAN /\ backup \in Nat \cup {None} /\ lock \in Approvers \cup {None}
    BY <2>3
  <2>7. edits \in 0 .. MaxEdits /\ failures \in 0 .. MaxFailures
    BY <2>3, <2>4
  <2> QED BY <2>1, <2>2, <2>3, <2>5, <2>6, <2>7 DEF ApprovalTypeOK, Answers
<1>2. AppTyped
  <2>1. Idle \in Calls BY DEF Idle, Calls, CallPCs, Answers
  <2>2. control \in Controls BY DEF Controls
  <2> HIDE ApprovalAssumption
  <2> QED BY <2>1, <2>2 DEF AppTyped
<1>3. \A a \in Approvers : app[a].pc = "idle" BY DEF Idle
<1> HIDE DEF ApprovalInit
<1>4. Previewed BY <1>3 DEF Previewed, PreviewedBy, Comparing, Writing
<1>5. Locked
  <2>1. lock = None BY DEF ApprovalInit
  <2> QED BY <1>3, <2>1 DEF Locked, LockedBy, InApply
<1>6. Carrying BY <1>3 DEF Carrying, CarriedBy, Writing
<1>7. ApprovalsKept BY DEF ApprovalsKept, ApprovalInit
<1> QED BY <1>1, <1>2, <1>4, <1>5, <1>6, <1>7 DEF AInv, ApprovalInv

\* ... and every step of the approvals keeps it.
LEMMA ApprovalKeeps == ASSUME AInv, ApprovalNext PROVE AInv'
<1> USE DEF AInv, ApprovalInv
<1>1. ApprovalTypeOK' /\ AppTyped' BY ApprovalTypeStep
<1>2. Previewed' /\ Locked' /\ Carrying' /\ ApprovalsKept'
  BY ApproverKeeps, UserKeeps DEF ApprovalNext
<1> QED BY <1>1, <1>2

\* It says nothing of the count of failures but that it is in its range.
LEMMA ApprovalRests ==
  ASSUME AInv, UNCHANGED <<sources, control, avars, edits>>, failures' \in 0 .. MaxFailures
  PROVE  AInv'
<1> USE DEF AInv, ApprovalInv, sources, avars
<1>1. ApprovalTypeOK' BY DEF ApprovalTypeOK
<1>2. AppTyped' BY DEF AppTyped
<1>3. Previewed' BY DEF Previewed, PreviewedBy
<1>4. Locked' BY DEF Locked, LockedBy
<1>5. Carrying' BY DEF Carrying, CarriedBy
<1>6. ApprovalsKept' BY DEF ApprovalsKept, Entries
<1> QED BY <1>1, <1>2, <1>3, <1>4, <1>5, <1>6

\* Whatever the approvers and the user do, in whatever order, and whatever fails:
\* an approval that was installed, or answered "unchanged" for, stays in the
\* control file until the user edits it.
THEOREM ApprovalsSafe == ApprovalSpec => []ApprovalInv
<1>1. ApprovalInit => AInv BY ApprovalStarts
<1>2. AInv /\ [ApprovalNext]_<<sources, control, avars, edits, failures>> => AInv'
  <2> SUFFICES ASSUME AInv, [ApprovalNext]_<<sources, control, avars, edits, failures>>
               PROVE  AInv'
    OBVIOUS
  <2>1. CASE ApprovalNext BY <2>1, ApprovalKeeps
  <2>2. CASE UNCHANGED <<sources, control, avars, edits, failures>>
    <3>1. failures \in 0 .. MaxFailures BY DEF AInv, ApprovalInv, ApprovalTypeOK
    <3> QED BY <2>2, <3>1, ApprovalRests
  <2> QED BY <2>1, <2>2
<1>3. AInv => ApprovalInv BY DEF AInv
<1> QED BY <1>1, <1>2, <1>3, PTL DEF ApprovalSpec

-------------------------------------------------------------------------------
(* The stage command: types                                                *)

JobFields == {"pc", "todo", "seen", "decisions", "ignored", "exceptions", "named",
              "approvals", "answer"}
Trees == UNION {[S -> Contents] : S \in SUBSET Paths}
StageTyped == /\ DOMAIN job = JobFields
              /\ tree # None => tree \in Trees

\* A tree is none of None, and stays a tree when a file is put into it, or some
\* of its files are removed.
LEMMA TreesGrow ==
  ASSUME NEW t \in Trees, NEW p \in Paths, NEW c \in Contents
  PROVE  /\ Extend(t, p, c) \in Trees /\ Extend(t, p, c) # None
         /\ DOMAIN Extend(t, p, c) = DOMAIN t \cup {p}
<1>1. PICK S \in SUBSET Paths : t \in [S -> Contents] BY DEF Trees
<1>2. S \cup {p} \in SUBSET Paths OBVIOUS
<1>3. Extend(t, p, c) \in [S \cup {p} -> Contents] BY <1>1 DEF Extend
<1>4. Extend(t, p, c) # None BY <1>2, <1>3, StagingAssumption
<1> QED BY <1>1, <1>2, <1>3, <1>4 DEF Trees

\* What is left of a tree is a tree.
LEMMA TreesShrink ==
  ASSUME NEW t \in Trees, NEW left \in SUBSET DOMAIN t
  PROVE  Restrict(t, left) \in Trees
<1>1. PICK S \in SUBSET Paths : t \in [S -> Contents] BY DEF Trees
<1>2. left \in SUBSET Paths BY <1>1
<1>3. Restrict(t, left) \in [left -> Contents] BY <1>1 DEF Restrict
<1> QED BY <1>2, <1>3 DEF Trees

\* An empty tree is a tree, and not the absence of one.
LEMMA EmptyTree == Empty \in Trees /\ Empty # None /\ DOMAIN Empty = {}
<1>1. Empty \in [{} -> Contents] BY DEF Empty
<1>2. {} \in SUBSET Paths OBVIOUS
<1> QED BY <1>1, <1>2, StagingAssumption DEF Trees, Empty

\* The next path of a list is on the list.
LEMMA PathIs ==
  ASSUME job.todo \subseteq Paths, job.todo # {}
  PROVE  Path \in job.todo
<1> DEFINE Less == {p \in Nat \X Nat : p[1] < p[2]}
           T == job.todo
<1>1. IsWellFoundedOn(Less, Nat) BY NatLessThanWellFounded DEF OpToRel
<1>2. T \subseteq Nat /\ T # {} BY PolicyAssumption
<1>3. Path = CHOOSE x \in T : \A y \in T : x =< y BY DEF Path, Min
<1> HIDE DEF T
<1>4. PICK m \in T : \A x \in T : ~(<<x, m>> \in Less)
  <2> HIDE DEF Less
  <2> QED BY <1>1, <1>2, WFMin
<1>5. ASSUME NEW x \in T PROVE m =< x
  <2>1. x \in Nat /\ m \in Nat BY <1>2
  <2>2. x < m => <<x, m>> \in Less BY <2>1
  <2> QED BY <1>4, <2>1, <2>2
<1>6. Path \in T BY <1>3, <1>5
<1> QED BY <1>6 DEF T

\* The stage command and adapt change neither the checkout nor the approvals, and
\* nothing changes the schema.
LEMMA StageRests ==
  ASSUME AInv, Stage \/ Tidy \/ Verify \/ Adapt \/ AdaptRefused
  PROVE  AInv' /\ UNCHANGED <<sources, control>>
<1>1. UNCHANGED theirs
  BY DEF Stage, Start, Walk, Accept, NameExceptions, NameApprovals, LoadApprovals, MakeTree,
         TreeExists, Copy, WriteReceipt, ReceiptFails, Bind, StageFails, Unreceipt, Cleanup,
         StagerDies, Tidy, Verify, Adapt, AdaptRefused
<1>2. failures' = failures \/ (failures < MaxFailures /\ failures' = failures + 1)
  BY DEF Stage, Start, Walk, Accept, NameExceptions, NameApprovals, LoadApprovals, MakeTree,
         TreeExists, Copy, WriteReceipt, ReceiptFails, Bind, StageFails, Unreceipt, Cleanup,
         StagerDies, Tidy, Verify, Adapt, AdaptRefused
<1>3. failures' \in 0 .. MaxFailures
  <2>1. failures \in 0 .. MaxFailures /\ MaxFailures \in Nat
    BY ApprovalAssumption DEF AInv, ApprovalInv, ApprovalTypeOK
  <2> QED BY <1>2, <2>1
<1> QED BY <1>1, <1>3, ApprovalRests DEF theirs

\* Nobody changes the schema of the manifest.
LEMMA SchemaStays == ASSUME ApprovalNext PROVE schema' = schema
<1>1. CASE Edit BY <1>1 DEF Edit, sources
<1>2. CASE ClearLeftovers BY <1>2 DEF ClearLeftovers, sources
<1>3. ASSUME NEW a \in Approvers, Approve(a) PROVE schema' = schema
  BY <1>3 DEF Approve, sources, Preview, GetLock, Rederive, Changed, WriteJournal, WriteNew,
              Check, Link, Bound, Rename, DropBackup, DropJournal, ApplyFails, ApproverDies
<1> QED BY <1>1, <1>2, <1>3 DEF ApprovalNext

\* What the steps do to the record of the command, field by field.
LEMMA Ended ==
  ASSUME NEW answer, Ends(answer)
  PROVE  /\ DOMAIN job' = JobFields /\ job'.pc = "idle" /\ job'.answer = answer
         /\ job'.todo = {} /\ job'.seen = Empty /\ job'.decisions = Empty
BY DEF Ends, AtRest, JobFields

\* What each step of a stage makes of its record: it goes on,
LEMMA WentOn ==
  ASSUME DOMAIN job = JobFields, NEW pc, Next_(pc)
  PROVE  /\ DOMAIN job' = JobFields /\ job'.pc = pc
         /\ UNCHANGED <<job.todo, job.seen, job.decisions, job.ignored, job.exceptions,
                        job.named, job.approvals, job.answer>>
BY DEF Next_, JobFields

\* it starts,
LEMMA Started ==
  ASSUME DOMAIN job = JobFields, Start
  PROVE  /\ DOMAIN job' = JobFields /\ job'.pc = "walk" /\ job'.todo = Paths
         /\ job'.ignored = ignored /\ job'.seen = Empty /\ job'.decisions = Empty
         /\ job'.answer = "none"
BY DEF Start, AtRest, JobFields

\* it decides on a path,
LEMMA Walked ==
  ASSUME DOMAIN job = JobFields, Walk
  PROVE  /\ DOMAIN job' = JobFields /\ job'.pc = "walk"
         /\ job'.todo = job.todo \ {Path}
         /\ job'.decisions = Extend(job.decisions, Path,
                                    Decision(Path, content[Path], job.ignored))
         /\ job'.seen = IF Visible(Path) THEN Extend(job.seen, Path, content[Path])
                        ELSE job.seen
         /\ UNCHANGED <<job.ignored, job.exceptions, job.answer>>
<1> DEFINE d == Extend(job.decisions, Path, Decision(Path, content[Path], job.ignored))
           s == IF Visible(Path) THEN Extend(job.seen, Path, content[Path]) ELSE job.seen
           t == job.todo \ {Path}
<1>1. job.pc = "walk" /\ job' = [job EXCEPT !.todo = t, !.decisions = d, !.seen = s]
  BY DEF Walk
<1> HIDE DEF d, s, t
<1>2. /\ DOMAIN job' = JobFields /\ job'.pc = "walk"
      /\ job'.todo = t /\ job'.decisions = d /\ job'.seen = s
      /\ UNCHANGED <<job.ignored, job.exceptions, job.answer>>
  BY <1>1 DEF JobFields
<1> QED BY <1>2 DEF d, s, t

\* it accepts the findings of the walk,
LEMMA Accepted ==
  ASSUME DOMAIN job = JobFields, Accepts(exceptions, Findings(job.seen)), Accept
  PROVE  /\ DOMAIN job' = JobFields
         /\ job'.pc = IF schema = 2 THEN "exceptions" ELSE "mkdir"
         /\ job'.exceptions = exceptions
         /\ UNCHANGED <<job.todo, job.seen, job.decisions, job.ignored, job.answer>>
<1>1. job' = [job EXCEPT !.exceptions = exceptions,
                         !.pc = IF schema = 2 THEN "exceptions" ELSE "mkdir"]
  BY DEF Accept
<1> QED BY <1>1 DEF JobFields

\* it names the exceptions,
LEMMA Named ==
  ASSUME DOMAIN job = JobFields, NameExceptions
  PROVE  /\ DOMAIN job' = JobFields /\ job'.pc = "coverage" /\ job'.named = exceptions
         /\ UNCHANGED <<job.todo, job.seen, job.decisions, job.ignored, job.exceptions,
                        job.answer>>
BY DEF NameExceptions, JobFields

\* it names the approvals,
LEMMA NamedToo ==
  ASSUME DOMAIN job = JobFields, NameApprovals
  PROVE  /\ DOMAIN job' = JobFields /\ job'.pc = "approvals"
         /\ job'.approvals = control.entries
         /\ UNCHANGED <<job.todo, job.seen, job.decisions, job.ignored, job.exceptions,
                        job.named, job.answer>>
BY DEF NameApprovals, JobFields

\* and it makes its private tree.
LEMMA TreeMade ==
  ASSUME DOMAIN job = JobFields, MakeTree
  PROVE  /\ DOMAIN job' = JobFields /\ job'.pc = "copy" /\ tree' = Empty
         /\ job'.todo = IF schema = 2 THEN DOMAIN job.seen ELSE Listed(content, ignored)
         /\ job'.seen = IF schema = 2 THEN job.seen ELSE Empty
         /\ basis'.ignored = IF schema = 2 THEN job.ignored ELSE ignored
         /\ basis'.exceptions = job.exceptions
         /\ UNCHANGED <<job.decisions, job.ignored, job.exceptions, job.named, job.approvals,
                        job.answer>>
<1> DEFINE t == IF schema = 2 THEN DOMAIN job.seen ELSE Listed(content, ignored)
           s == IF schema = 2 THEN job.seen ELSE Empty
<1>1. /\ job' = [job EXCEPT !.pc = "copy", !.todo = t, !.seen = s] /\ tree' = Empty
      /\ basis' = [ignored |-> IF schema = 2 THEN job.ignored ELSE ignored,
                   exceptions |-> job.exceptions]
  BY DEF MakeTree
<1> HIDE DEF t, s
<1>2. /\ DOMAIN job' = JobFields /\ job'.pc = "copy" /\ job'.todo = t /\ job'.seen = s
      /\ UNCHANGED <<job.decisions, job.ignored, job.exceptions, job.named, job.approvals,
                     job.answer>>
  BY <1>1 DEF JobFields
<1> QED BY <1>1, <1>2 DEF t, s

\* A file is copied, or left out, or the copy is given up.
LEMMA Copied ==
  ASSUME DOMAIN job = JobFields, Copy
  PROVE  /\ DOMAIN job' = JobFields
         /\ UNCHANGED <<job.decisions, job.ignored, job.exceptions, job.named, job.approvals,
                        job.answer>>
         /\ \/ /\ Admissible(Path) /\ tree' = Extend(tree, Path, content[Path])
               /\ job'.pc = "copy" /\ job'.todo = job.todo \ {Path}
               /\ job'.seen = Extend(job.seen, Path, content[Path])
            \/ /\ Skipped(Path) /\ tree' = tree
               /\ job'.pc = "copy" /\ job'.todo = job.todo \ {Path} /\ job'.seen = job.seen
            \/ /\ ~Admissible(Path) /\ ~Skipped(Path) /\ tree' = tree
               /\ job'.pc = "cleanup" /\ job'.todo = job.todo /\ job'.seen = job.seen
<1> DEFINE s == Extend(job.seen, Path, content[Path])
           t == job.todo \ {Path}
<1>1. /\ job.pc = "copy"
      /\ \/ /\ Admissible(Path) /\ tree' = Extend(tree, Path, content[Path])
            /\ job' = [job EXCEPT !.todo = t, !.seen = s]
         \/ Skipped(Path) /\ tree' = tree /\ job' = [job EXCEPT !.todo = t]
         \/ /\ ~Admissible(Path) /\ ~Skipped(Path) /\ tree' = tree
            /\ job' = [job EXCEPT !.pc = "cleanup"]
  BY DEF Copy, Next_
<1> HIDE DEF s, t
<1>2. CASE Admissible(Path) /\ tree' = Extend(tree, Path, content[Path])
           /\ job' = [job EXCEPT !.todo = t, !.seen = s]
  <2>1. /\ DOMAIN job' = JobFields /\ job'.pc = job.pc /\ job'.todo = t /\ job'.seen = s
        /\ UNCHANGED <<job.decisions, job.ignored, job.exceptions, job.named, job.approvals,
                       job.answer>>
    BY <1>2 DEF JobFields
  <2> QED BY <1>1, <1>2, <2>1 DEF s, t
<1>3. CASE Skipped(Path) /\ tree' = tree /\ job' = [job EXCEPT !.todo = t]
  <2>1. /\ DOMAIN job' = JobFields /\ job'.pc = job.pc /\ job'.todo = t
        /\ UNCHANGED <<job.seen, job.decisions, job.ignored, job.exceptions, job.named,
                       job.approvals, job.answer>>
    BY <1>3 DEF JobFields
  <2> QED BY <1>1, <1>3, <2>1 DEF t
<1>4. CASE /\ ~Admissible(Path) /\ ~Skipped(Path) /\ tree' = tree
           /\ job' = [job EXCEPT !.pc = "cleanup"]
  <2>1. /\ DOMAIN job' = JobFields /\ job'.pc = "cleanup"
        /\ UNCHANGED <<job.todo, job.seen, job.decisions, job.ignored, job.exceptions,
                       job.named, job.approvals, job.answer>>
    BY <1>4 DEF JobFields
  <2> QED BY <1>4, <2>1
<1> QED BY <1>1, <1>2, <1>3, <1>4

\* A path is in the tree only as long as the tree is there; the lists and the
\* functions of the command are of the checkout's paths.
StageTypeOK ==
  /\ job.pc \in Steps \cup {"idle"} /\ job.todo \subseteq Paths
  /\ DOMAIN job.seen \subseteq Paths /\ DOMAIN job.decisions \subseteq Paths
  /\ job.answer \in {"none", "staged", "refused", "failed", "cleanup_failed"}
  /\ tree # None => tree \in Trees
  /\ receipt # None => receipt.whole \in BOOLEAN
  /\ runs \in 0 .. MaxRuns /\ quiet \in BOOLEAN
  /\ DOMAIN job = JobFields

\* What a run fills is there, under the policy it has read.
Filled ==
  job.pc \in Copying =>
    /\ tree # None /\ basis.exceptions = job.exceptions
    /\ schema = 2 => basis.ignored = job.ignored /\ job.todo \subseteq DOMAIN job.seen
    /\ schema # 2 => job.todo \subseteq Ordinary \ basis.ignored

\* Schema 1 lists ordinary paths only.
LEMMA ListedFiles ==
  ASSUME NEW c, NEW ig PROVE Listed(c, ig) \subseteq Ordinary \ ig /\ Listed(c, ig) \subseteq Paths
BY DEF Listed, Paths

\* Every step keeps these two.
LEMMA StageTypeStep ==
  ASSUME AInv, StageTypeOK, Filled, Stage \/ Tidy \/ Verify \/ Adapt \/ AdaptRefused
  PROVE  StageTypeOK' /\ Filled'
<1> DEFINE Answered_ == {"none", "staged", "refused", "failed", "cleanup_failed"}
<1>0. content \in [Paths -> Contents] /\ schema' = schema
  BY StageRests DEF AInv, ApprovalInv, ApprovalTypeOK, sources
<1>1. DOMAIN job = JobFields BY DEF StageTypeOK
<1>2. ASSUME NEW answer \in Answered_, Ends(answer),
             tree' # None => tree' \in Trees, receipt' # None => receipt'.whole \in BOOLEAN,
             runs' = runs, quiet' \in BOOLEAN
      PROVE  StageTypeOK' /\ Filled'
  <2>1. /\ DOMAIN job' = JobFields /\ job'.pc = "idle" /\ job'.answer = answer
        /\ job'.todo = {} /\ job'.seen = Empty /\ job'.decisions = Empty
    BY <1>2, Ended
  <2>2. DOMAIN Empty = {} BY EmptyTree
  <2>3. StageTypeOK' BY <1>2, <2>1, <2>2 DEF StageTypeOK
  <2>4. Filled' BY <2>1 DEF Filled, Copying
  <2> QED BY <2>3, <2>4
<1>3. ASSUME NEW pc \in Steps, Next_(pc), pc \in Copying => job.pc \in Copying,
             UNCHANGED <<tree, runs, basis>>, quiet' \in BOOLEAN,
             receipt' # None => receipt'.whole \in BOOLEAN
      PROVE  StageTypeOK' /\ Filled'
  <2>1. /\ DOMAIN job' = JobFields /\ job'.pc = pc
        /\ UNCHANGED <<job.todo, job.seen, job.exceptions, job.ignored, job.decisions, job.answer>>
    BY <1>1, <1>3, WentOn
  <2>2. StageTypeOK' BY <1>3, <2>1 DEF StageTypeOK
  <2>3. Filled' BY <1>0, <1>3, <2>1 DEF Filled
  <2> QED BY <2>2, <2>3
<1>4. CASE Start
  <2>1. /\ DOMAIN job' = JobFields /\ job'.pc = "walk" /\ job'.todo = Paths
        /\ job'.seen = Empty /\ job'.decisions = Empty /\ job'.answer = "none"
    BY <1>1, <1>4, Started
  <2>2. UNCHANGED <<tree, receipt>> /\ quiet' = TRUE /\ runs' \in 0 .. MaxRuns
    BY <1>4, StagingAssumption DEF Start, StageTypeOK
  <2>3. StageTypeOK' BY <2>1, <2>2, EmptyTree DEF StageTypeOK, Steps
  <2>4. Filled' BY <2>1 DEF Filled, Copying
  <2> QED BY <2>3, <2>4
<1>5. CASE Walk
  <2>1. /\ DOMAIN job' = JobFields /\ job'.pc = "walk"
        /\ job'.todo = job.todo \ {Path}
        /\ job'.decisions = Extend(job.decisions, Path,
                                   Decision(Path, content[Path], job.ignored))
        /\ job'.seen = IF Visible(Path) THEN Extend(job.seen, Path, content[Path])
                       ELSE job.seen
        /\ job'.answer = job.answer
    BY <1>1, <1>5, Walked
  <2>2. Path \in Paths BY <1>5, PathIs DEF Walk, StageTypeOK
  <2>3. DOMAIN job'.seen \subseteq Paths /\ DOMAIN job'.decisions \subseteq Paths
    BY <2>1, <2>2 DEF StageTypeOK, Extend
  <2>4. UNCHANGED <<tree, receipt, runs, quiet>> BY <1>5 DEF Walk
  <2>5. StageTypeOK' BY <2>1, <2>3, <2>4 DEF StageTypeOK, Steps
  <2>6. Filled' BY <2>1 DEF Filled, Copying
  <2> QED BY <2>5, <2>6
<1>6. CASE Accept
  <2>1. UNCHANGED <<tree, receipt, runs, quiet, basis>> BY <1>6 DEF Accept
  <2>2. CASE Accepts(exceptions, Findings(job.seen))
    <3>1. /\ DOMAIN job' = JobFields
          /\ job'.pc = IF schema = 2 THEN "exceptions" ELSE "mkdir"
          /\ UNCHANGED <<job.todo, job.seen, job.decisions, job.answer>>
      BY <1>1, <1>6, <2>2, Accepted
    <3>2. StageTypeOK' BY <2>1, <3>1 DEF StageTypeOK, Steps
    <3>3. Filled' BY <3>1 DEF Filled, Copying
    <3> QED BY <3>2, <3>3
  <2>3. CASE ~Accepts(exceptions, Findings(job.seen))
    <3>1. Ends("refused") BY <1>6, <2>3 DEF Accept
    <3> QED BY <1>2, <2>1, <3>1 DEF StageTypeOK
  <2> QED BY <2>2, <2>3
<1>7. CASE NameExceptions
  <2>1. /\ DOMAIN job' = JobFields /\ job'.pc = "coverage"
        /\ UNCHANGED <<job.todo, job.seen, job.decisions, job.answer>>
    BY <1>1, <1>7, Named
  <2>2. UNCHANGED <<tree, receipt, runs, quiet>> BY <1>7 DEF NameExceptions
  <2>3. StageTypeOK' BY <2>1, <2>2 DEF StageTypeOK, Steps
  <2>4. Filled' BY <2>1 DEF Filled, Copying
  <2> QED BY <2>3, <2>4
<1>8. CASE NameApprovals
  <2>1. /\ DOMAIN job' = JobFields /\ job'.pc = "approvals"
        /\ UNCHANGED <<job.todo, job.seen, job.decisions, job.answer>>
    BY <1>1, <1>8, NamedToo
  <2>2. UNCHANGED <<tree, receipt, runs, quiet>> BY <1>8 DEF NameApprovals
  <2>3. StageTypeOK' BY <2>1, <2>2 DEF StageTypeOK, Steps
  <2>4. Filled' BY <2>1 DEF Filled, Copying
  <2> QED BY <2>3, <2>4
<1>9. CASE LoadApprovals
  <2>1. UNCHANGED <<tree, receipt, runs, quiet, basis>> BY <1>9 DEF LoadApprovals
  <2>2. Next_("mkdir") \/ Ends("refused") BY <1>9 DEF LoadApprovals
  <2>3. "mkdir" \in Steps /\ "mkdir" \notin Copying BY DEF Steps, Copying
  <2> QED BY <1>2, <1>3, <2>1, <2>2, <2>3 DEF StageTypeOK
<1>10. CASE MakeTree
  <2>1. /\ DOMAIN job' = JobFields /\ job'.pc = "copy" /\ tree' = Empty
        /\ job'.todo = IF schema = 2 THEN DOMAIN job.seen ELSE Listed(content, ignored)
        /\ job'.seen = IF schema = 2 THEN job.seen ELSE Empty
        /\ basis'.ignored = IF schema = 2 THEN job.ignored ELSE ignored
        /\ basis'.exceptions = job.exceptions
        /\ UNCHANGED <<job.decisions, job.ignored, job.exceptions, job.answer>>
    BY <1>1, <1>10, TreeMade
  <2>2. UNCHANGED <<receipt, runs, quiet>> BY <1>10 DEF MakeTree
  <2>3. StageTypeOK' BY <2>1, <2>2, EmptyTree, ListedFiles DEF StageTypeOK, Steps, Copying
  <2>4. Filled' BY <1>0, <2>1, EmptyTree, ListedFiles DEF Filled
  <2> QED BY <2>3, <2>4
<1>11. CASE TreeExists
  <2>1. Ends("failed") /\ UNCHANGED <<tree, receipt, runs, quiet>> BY <1>11 DEF TreeExists
  <2> QED BY <1>2, <2>1 DEF StageTypeOK
<1>12. CASE Copy
  <2>1. Path \in job.todo /\ Path \in Paths /\ job.pc = "copy"
    BY <1>12, PathIs DEF Copy, StageTypeOK
  <2>2. tree \in Trees /\ tree # None BY <2>1 DEF Filled, StageTypeOK, Copying
  <2>3. /\ Extend(tree, Path, content[Path]) \in Trees
        /\ Extend(tree, Path, content[Path]) # None
    BY <1>0, <2>1, <2>2, TreesGrow
  <2>4. UNCHANGED <<receipt, runs, quiet, basis>> BY <1>12 DEF Copy
  <2>5. /\ DOMAIN job' = JobFields
        /\ UNCHANGED <<job.decisions, job.ignored, job.exceptions, job.answer>>
        /\ job'.pc \in {"copy", "cleanup"}
        /\ job'.todo \subseteq job.todo
        /\ job'.seen \in {job.seen, Extend(job.seen, Path, content[Path])}
        /\ tree' \in {tree, Extend(tree, Path, content[Path])}
    BY <1>1, <1>12, Copied
  <2>6. DOMAIN Extend(job.seen, Path, content[Path]) = DOMAIN job.seen \cup {Path}
    BY DEF Extend
  <2>7. StageTypeOK' BY <2>1, <2>2, <2>3, <2>4, <2>5, <2>6 DEF StageTypeOK, Steps, Copying
  <2>8. Filled' BY <1>0, <2>1, <2>2, <2>3, <2>4, <2>5, <2>6 DEF Filled, Copying
  <2> QED BY <2>7, <2>8
<1>13. CASE WriteReceipt
  <2>1. UNCHANGED <<tree, runs, quiet, basis>> /\ job.pc = "copy" BY <1>13 DEF WriteReceipt
  <2>2. receipt' # None => receipt'.whole \in BOOLEAN
    <3>1. \/ receipt' = receipt
          \/ receipt' = [whole |-> TRUE, source |-> SourceDigest(job.seen),
                         projection |-> JobDigest]
      BY <1>13 DEF WriteReceipt
    <3>2. receipt' = receipt \/ receipt'.whole = TRUE BY <3>1
    <3> QED BY <3>1, <3>2 DEF StageTypeOK
  <2>3. Next_("bind") \/ Next_("cleanup") BY <1>13 DEF WriteReceipt
  <2> QED BY <1>3, <2>1, <2>2, <2>3 DEF StageTypeOK, Steps, Copying
<1>14. CASE ReceiptFails
  <2>1. UNCHANGED <<tree, runs, basis>> /\ job.pc = "copy" /\ quiet' = FALSE
    BY <1>14 DEF ReceiptFails
  <2>2. receipt' # None => receipt'.whole \in BOOLEAN
    <3>1. \/ receipt' = None
          \/ receipt' = [whole |-> FALSE, source |-> Empty, projection |-> None]
      BY <1>14 DEF ReceiptFails
    <3>2. receipt' = None \/ receipt'.whole = FALSE BY <3>1
    <3> QED BY <3>2
  <2>3. Next_("cleanup") BY <1>14 DEF ReceiptFails
  <2> QED BY <1>3, <2>1, <2>2, <2>3 DEF Steps, Copying
<1>15. CASE Bind
  <2>1. Ends("staged") /\ UNCHANGED <<tree, receipt, runs, quiet>> BY <1>15 DEF Bind
  <2> QED BY <1>2, <2>1 DEF StageTypeOK
<1>16. CASE StageFails
  <2>1. UNCHANGED <<tree, receipt, runs, basis>> /\ quiet' = FALSE BY <1>16 DEF StageFails
  <2>2. \/ Next_("unreceipt") /\ job.pc \in Copying
        \/ Next_("cleanup") /\ job.pc \in Copying
        \/ Ends("failed")
    BY <1>16 DEF StageFails, Copying
  <2> QED BY <1>2, <1>3, <2>1, <2>2 DEF StageTypeOK, Steps, Copying
<1>17. CASE Unreceipt
  <2>1. /\ UNCHANGED <<tree, runs, basis, quiet>> /\ job.pc = "unreceipt"
        /\ receipt' \in {None, receipt} /\ Next_("cleanup")
    BY <1>17 DEF Unreceipt
  <2> QED BY <1>3, <2>1 DEF StageTypeOK, Steps, Copying
<1>18. CASE Cleanup
  <2>1. UNCHANGED <<receipt, runs>> /\ quiet' \in BOOLEAN BY <1>18 DEF Cleanup, StageTypeOK
  <2>2. tree \in Trees BY <1>18 DEF Cleanup, Filled, StageTypeOK, Copying
  <2>3. tree' # None => tree' \in Trees BY <1>18, <2>2, TreesShrink DEF Cleanup
  <2>4. Ends("failed") \/ Ends("cleanup_failed") BY <1>18 DEF Cleanup
  <2> QED BY <1>2, <2>1, <2>3, <2>4 DEF StageTypeOK
<1>19. CASE StagerDies
  <2>1. Ends("none") /\ UNCHANGED <<tree, receipt, runs>> /\ quiet' = FALSE
    BY <1>19 DEF StagerDies
  <2> QED BY <1>2, <2>1 DEF StageTypeOK
<1>20. CASE Tidy
  <2>1. UNCHANGED <<job, runs, quiet>> /\ job.pc = "idle" BY <1>20 DEF Tidy
  <2>2. tree' \in {None, tree} /\ receipt' \in {None, receipt} BY <1>20 DEF Tidy
  <2>3. StageTypeOK' BY <2>1, <2>2 DEF StageTypeOK
  <2>4. Filled' BY <2>1 DEF Filled, Copying
  <2> QED BY <2>3, <2>4
<1>21. CASE Verify \/ Adapt \/ AdaptRefused
  <2>1. UNCHANGED <<job, tree, receipt, runs, basis, quiet>>
    BY <1>21 DEF Verify, Adapt, AdaptRefused
  <2>2. StageTypeOK' BY <2>1 DEF StageTypeOK
  <2>3. Filled' BY <1>0, <2>1 DEF Filled
  <2> QED BY <2>2, <2>3
<1> QED
  BY <1>4, <1>5, <1>6, <1>7, <1>8, <1>9, <1>10, <1>11, <1>12, <1>13, <1>14, <1>15, <1>16,
     <1>17, <1>18, <1>19, <1>20, <1>21 DEF Stage

-------------------------------------------------------------------------------
(* What gets into the tree                                                 *)

Admits(f, ig) == \A p \in DOMAIN f : Decision(p, f[p], ig) \in Safe

\* What the command has read is what its ignores let through, and from the list of
\* exceptions on what that list accepts.
Scanned ==
  /\ job.pc \in Steps /\ schema = 2 => Admits(job.seen, job.ignored)
  /\ job.pc \in Steps \ {"walk"} =>
       /\ \A e \in job.exceptions : e[2] = "flagged"
       /\ schema = 2 => Accepts(job.exceptions, Findings(job.seen))

\* A whole receipt names what it is of, and so does what adapt has taken.
Receipted ==
  schema = 2 =>
    /\ receipt # None /\ receipt.whole => receipt.projection.source = receipt.source
    /\ taken # None => taken.projection.source = taken.files

\* A finding that is accepted is a flagged one, and on the list.
LEMMA AcceptedFindings ==
  ASSUME NEW E, NEW f, Accepts(E, Findings(f)), NEW p \in DOMAIN f, f[p] \in Shapes
  PROVE  f[p] = "flagged" /\ <<p, "flagged">> \in E
<1>1. <<p, f[p]>> \in Findings(f) BY DEF Findings
<1>2. <<p, f[p]>> \in E BY <1>1 DEF Accepts
<1>3. <<p, f[p]>>[2] = "flagged" BY <1>2 DEF Accepts, ValidExceptions
<1> QED BY <1>2, <1>3

\* A function that is extended by what it says already says the same as before.
LEMMA SaysTheSame ==
  ASSUME NEW f, NEW p \in DOMAIN f, NEW c, c = f[p], NEW E, NEW ig
  PROVE  /\ DOMAIN Extend(f, p, c) = DOMAIN f
         /\ \A q \in DOMAIN f : Extend(f, p, c)[q] = f[q]
         /\ Admits(f, ig) => Admits(Extend(f, p, c), ig)
         /\ Findings(Extend(f, p, c)) = Findings(f)
<1>1. DOMAIN Extend(f, p, c) = DOMAIN f /\ \A q \in DOMAIN f : Extend(f, p, c)[q] = f[q]
  BY DEF Extend
<1> DEFINE g == Extend(f, p, c)
<1> HIDE DEF g
<1>2. Admits(f, ig) => Admits(g, ig) BY <1>1 DEF Admits, g
<1>3. DOMAIN g = DOMAIN f /\ \A q \in DOMAIN f : g[q] = f[q] BY <1>1 DEF g
<1>4. {q \in DOMAIN g : g[q] \in Shapes} = {q \in DOMAIN f : f[q] \in Shapes} BY <1>3
<1>5. Findings(g) = Findings(f)
  <2> DEFINE S == {q \in DOMAIN f : f[q] \in Shapes}
  <2>1. \A q \in S : g[q] = f[q] BY <1>3
  <2>2. {<<q, g[q]>> : q \in S} = {<<q, f[q]>> : q \in S}
    <3> HIDE DEF S
    <3> QED BY <2>1
  <2> QED BY <1>4, <2>2 DEF Findings
<1> QED BY <1>1, <1>2, <1>5 DEF g

\* Every step keeps both.
LEMMA ScannedStep ==
  ASSUME AInv, StageTypeOK, Filled, Scanned, Stage \/ Tidy \/ Verify \/ Adapt \/ AdaptRefused
  PROVE  Scanned'
<1>0. content \in [Paths -> Contents] /\ schema' = schema
  BY StageRests DEF AInv, ApprovalInv, ApprovalTypeOK, sources
<1>1. DOMAIN job = JobFields BY DEF StageTypeOK
<1>2. ASSUME NEW answer, Ends(answer) PROVE Scanned'
  <2>1. job'.pc = "idle" BY <1>2, Ended
  <2> QED BY <2>1 DEF Scanned, Steps, Copying
<1>3. ASSUME NEW pc, Next_(pc), job.pc \in Steps \ {"walk"}, pc # "walk"
      PROVE  Scanned'
  <2>1. job'.pc = pc /\ UNCHANGED <<job.seen, job.exceptions, job.ignored>>
    BY <1>1, <1>3, WentOn
  <2> QED BY <1>0, <1>3, <2>1 DEF Scanned
<1>4. CASE Start
  <2>1. /\ job'.pc = "walk" /\ job'.seen = Empty
    BY <1>1, <1>4, Started
  <2>2. Admits(Empty, ignored') BY EmptyTree DEF Admits
  <2>3. Admits(Empty, job'.ignored) BY EmptyTree DEF Admits
  <2> QED BY <2>1, <2>3 DEF Scanned
<1>5. CASE Walk
  <2>1. /\ job'.pc = "walk"
        /\ job'.seen = IF Visible(Path) THEN Extend(job.seen, Path, content[Path])
                       ELSE job.seen
        /\ job'.ignored = job.ignored
    BY <1>1, <1>5, Walked
  <2>2. ASSUME schema = 2 PROVE Admits(job'.seen, job'.ignored)
    <3>1. Admits(job.seen, job.ignored) BY <1>5, <2>2 DEF Walk, Scanned, Steps
    <3>2. CASE Visible(Path)
      <4>1. Decision(Path, content[Path], job.ignored) \in Safe BY <2>2, <3>2 DEF Visible
      <4>2. Admits(Extend(job.seen, Path, content[Path]), job.ignored)
        BY <3>1, <4>1 DEF Admits, Extend
      <4> QED BY <2>1, <3>2, <4>2
    <3> QED BY <2>1, <3>1, <3>2
  <2> QED BY <1>0, <2>1, <2>2 DEF Scanned
<1>6. CASE Accept
  <2>1. CASE Accepts(exceptions, Findings(job.seen))
    <3>1. /\ job'.pc = IF schema = 2 THEN "exceptions" ELSE "mkdir"
          /\ job'.exceptions = exceptions /\ UNCHANGED <<job.seen, job.ignored>>
      BY <1>1, <1>6, <2>1, Accepted
    <3>2. schema = 2 => Admits(job.seen, job.ignored) BY <1>6 DEF Accept, Scanned, Steps
    <3>3. \A e \in exceptions : e[2] = "flagged" BY <2>1 DEF Accepts, ValidExceptions
    <3> QED BY <1>0, <2>1, <3>1, <3>2, <3>3 DEF Scanned
  <2>2. CASE ~Accepts(exceptions, Findings(job.seen))
    <3>1. Ends("refused") BY <1>6, <2>2 DEF Accept
    <3> QED BY <1>2, <3>1
  <2> QED BY <2>1, <2>2
<1>7. CASE NameExceptions
  <2>1. /\ job.pc = "exceptions" /\ job'.pc = "coverage"
        /\ UNCHANGED <<job.seen, job.exceptions, job.ignored>>
    BY <1>1, <1>7, Named DEF NameExceptions
  <2> QED BY <1>0, <2>1 DEF Scanned, Steps
<1>8. CASE NameApprovals
  <2>1. /\ job.pc = "coverage" /\ job'.pc = "approvals"
        /\ UNCHANGED <<job.seen, job.exceptions, job.ignored>>
    BY <1>1, <1>8, NamedToo DEF NameApprovals
  <2> QED BY <1>0, <2>1 DEF Scanned, Steps
<1>9. CASE LoadApprovals
  <2>1. job.pc = "approvals" /\ (Next_("mkdir") \/ Ends("refused")) BY <1>9 DEF LoadApprovals
  <2> QED BY <1>2, <1>3, <2>1 DEF Steps
<1>10. CASE MakeTree
  <2>1. /\ job.pc = "mkdir" /\ job'.pc = "copy"
        /\ job'.seen = IF schema = 2 THEN job.seen ELSE Empty
        /\ UNCHANGED <<job.exceptions, job.ignored>>
    BY <1>1, <1>10, TreeMade DEF MakeTree
  <2> QED BY <1>0, <2>1 DEF Scanned, Steps
<1>11. CASE TreeExists BY <1>2, <1>11 DEF TreeExists
<1>12. CASE Copy
  <2>1. job.pc = "copy" /\ Path \in job.todo BY <1>12, PathIs DEF Copy, StageTypeOK
  <2>2. /\ job'.pc \in {"copy", "cleanup"} /\ UNCHANGED <<job.exceptions, job.ignored>>
        /\ \/ job'.seen = job.seen
           \/ Admissible(Path) /\ job'.seen = Extend(job.seen, Path, content[Path])
    BY <1>1, <1>12, Copied
  <2>3. /\ \A e \in job.exceptions : e[2] = "flagged"
        /\ schema = 2 => /\ Admits(job.seen, job.ignored)
                         /\ Accepts(job.exceptions, Findings(job.seen))
    BY <2>1 DEF Scanned, Steps, Copying
  <2>4. ASSUME schema = 2
        PROVE  Admits(job'.seen, job.ignored) /\ Accepts(job.exceptions, Findings(job'.seen))
    <3>1. CASE job'.seen = job.seen BY <2>3, <2>4, <3>1
    <3>2. CASE Admissible(Path) /\ job'.seen = Extend(job.seen, Path, content[Path])
      <4>1. Path \in DOMAIN job.seen BY <2>1, <2>4 DEF Filled, Copying
      <4>2. content[Path] = job.seen[Path] BY <2>4, <3>2 DEF Admissible
      <4>3. /\ Admits(job.seen, job.ignored) => Admits(job'.seen, job.ignored)
            /\ Findings(job'.seen) = Findings(job.seen)
        BY <3>2, <4>1, <4>2, SaysTheSame
      <4> QED BY <2>3, <2>4, <4>3
    <3> QED BY <2>2, <3>1, <3>2
  <2> QED BY <1>0, <2>2, <2>3, <2>4 DEF Scanned
<1>13. CASE WriteReceipt
  <2>1. job.pc = "copy" /\ (Next_("bind") \/ Next_("cleanup")) BY <1>13 DEF WriteReceipt
  <2> QED BY <1>3, <2>1 DEF Steps, Copying
<1>14. CASE ReceiptFails BY <1>3, <1>14 DEF ReceiptFails, Steps, Copying
<1>15. CASE Bind BY <1>2, <1>15 DEF Bind
<1>16. CASE StageFails
  <2>1. \/ Next_("unreceipt") /\ job.pc \in Copying
        \/ Next_("cleanup") /\ job.pc \in Copying
        \/ Ends("failed")
    BY <1>16 DEF StageFails, Copying
  <2> QED BY <1>2, <1>3, <2>1 DEF Steps, Copying
<1>17. CASE Unreceipt BY <1>3, <1>17 DEF Unreceipt, Steps, Copying
<1>18. CASE Cleanup BY <1>2, <1>18 DEF Cleanup
<1>19. CASE StagerDies BY <1>2, <1>19 DEF StagerDies
<1>20. CASE Tidy \/ Verify \/ Adapt \/ AdaptRefused
  <2>1. job' = job BY <1>20 DEF Tidy, Verify, Adapt, AdaptRefused
  <2> QED BY <1>0, <2>1 DEF Scanned
<1> QED
  BY <1>4, <1>5, <1>6, <1>7, <1>8, <1>9, <1>10, <1>11, <1>12, <1>13, <1>14, <1>15, <1>16,
     <1>17, <1>18, <1>19, <1>20 DEF Stage

\* What a run copies, the policy it has read lets through.
LEMMA CopiesAdmitted ==
  ASSUME AInv, StageTypeOK, Filled, Scanned, job.pc = "copy", NEW p \in job.todo,
         Admissible(p)
  PROVE  /\ p \notin Denied \cup Neutral \cup basis.ignored
         /\ content[p] \in Texts \cup {"binary"} /\ content[p] # "key"
         /\ content[p] = "flagged" => <<p, "flagged">> \in basis.exceptions
<1>1. /\ basis.exceptions = job.exceptions
      /\ schema = 2 => basis.ignored = job.ignored /\ job.todo \subseteq DOMAIN job.seen
      /\ schema # 2 => job.todo \subseteq Ordinary \ basis.ignored
  BY DEF Filled, Copying
<1>2. /\ \A e \in job.exceptions : e[2] = "flagged"
      /\ schema = 2 => /\ Admits(job.seen, job.ignored)
                       /\ Accepts(job.exceptions, Findings(job.seen))
  BY DEF Scanned, Steps, Copying
<1>3. CASE schema = 2
  <2>1. p \in DOMAIN job.seen /\ content[p] = job.seen[p] BY <1>1, <1>3 DEF Admissible
  <2>2. Decision(p, content[p], job.ignored) \in Safe BY <1>2, <1>3, <2>1 DEF Admits
  <2>3. p \notin Denied \cup Neutral \cup job.ignored /\ content[p] \notin {"absent", "symlink", "fifo", "binary"}
    BY <2>2 DEF Decision, Safe
  <2>4. content[p] \in Contents
    BY DEF AInv, ApprovalInv, ApprovalTypeOK, StageTypeOK
  <2>5. content[p] \in Texts BY <2>3, <2>4 DEF Contents
  <2>6. content[p] \in Shapes =>
          content[p] = "flagged" /\ <<p, "flagged">> \in job.exceptions
    BY <1>2, <1>3, <2>1, AcceptedFindings
  <2> QED BY <1>1, <1>3, <2>3, <2>5, <2>6 DEF Shapes
<1>4. CASE schema # 2
  <2>1. p \in Ordinary \ basis.ignored BY <1>1, <1>4
  <2>2. p \notin Denied \cup Neutral BY <2>1, PolicyAssumption
  <2>3. content[p] \in Texts \cup {"binary"}
        /\ (content[p] \in Shapes => <<p, content[p]>> \in job.exceptions)
    BY <1>4 DEF Admissible
  <2>4. content[p] \in Shapes => content[p] = "flagged"
    <3>1. SUFFICES ASSUME content[p] \in Shapes PROVE content[p] = "flagged" OBVIOUS
    <3>2. <<p, content[p]>>[2] = "flagged" BY <1>2, <2>3, <3>1
    <3> QED BY <3>2
  <2> QED BY <1>1, <2>1, <2>2, <2>3, <2>4 DEF Shapes
<1> QED BY <1>3, <1>4

\* So the tree holds nothing else.
LEMMA AdmittedStep ==
  ASSUME AInv, StageTypeOK, Filled, Scanned, OnlyAdmitted,
         Stage \/ Tidy \/ Verify \/ Adapt \/ AdaptRefused
  PROVE  OnlyAdmitted'
<1>1. DOMAIN job = JobFields BY DEF StageTypeOK
<1>2. ASSUME UNCHANGED <<tree, basis>> PROVE OnlyAdmitted'
  BY <1>2 DEF OnlyAdmitted
<1>3. CASE MakeTree
  <2>1. tree' = Empty BY <1>3 DEF MakeTree
  <2> QED BY <2>1, EmptyTree DEF OnlyAdmitted
<1>4. CASE Copy
  <2>1. job.pc = "copy" /\ Path \in job.todo /\ basis' = basis /\ tree # None
    BY <1>4, PathIs DEF Copy, StageTypeOK, Filled, Copying
  <2>2. tree' = tree \/ (Admissible(Path) /\ tree' = Extend(tree, Path, content[Path]))
    BY <1>1, <1>4, Copied
  <2>3. CASE Admissible(Path) /\ tree' = Extend(tree, Path, content[Path])
    <3>1. /\ Path \notin Denied \cup Neutral \cup basis.ignored
          /\ content[Path] \in Texts \cup {"binary"} /\ content[Path] # "key"
          /\ content[Path] = "flagged" => <<Path, "flagged">> \in basis.exceptions
      BY <2>1, <2>3, CopiesAdmitted
    <3>2. ASSUME NEW q \in DOMAIN tree'
          PROVE  \/ q = Path /\ tree'[q] = content[Path]
                 \/ q \in DOMAIN tree /\ tree'[q] = tree[q]
      BY <2>3, <3>2 DEF Extend
    <3> QED BY <2>1, <3>1, <3>2 DEF OnlyAdmitted
  <2> QED BY <1>2, <2>1, <2>2, <2>3
<1>5. CASE Cleanup
  <2>1. basis' = basis /\ (tree' = None \/ \E left \in SUBSET DOMAIN tree : tree' = Restrict(tree, left))
    BY <1>5 DEF Cleanup
  <2>2. tree # None BY <1>5 DEF Cleanup, Filled, Copying
  <2>3. CASE \E left \in SUBSET DOMAIN tree : tree' = Restrict(tree, left)
    <3>1. DOMAIN tree' \subseteq DOMAIN tree /\ \A q \in DOMAIN tree' : tree'[q] = tree[q]
      BY <2>3 DEF Restrict
    <3> QED BY <2>1, <2>2, <3>1 DEF OnlyAdmitted
  <2> QED BY <2>1, <2>3 DEF OnlyAdmitted
<1>6. CASE Tidy
  <2>1. basis' = basis /\ (tree' = None \/ tree' = tree) BY <1>6 DEF Tidy
  <2> QED BY <2>1 DEF OnlyAdmitted
<1>7. CASE \/ Start \/ Walk \/ Accept \/ NameExceptions \/ NameApprovals \/ LoadApprovals
           \/ TreeExists \/ WriteReceipt \/ ReceiptFails \/ Bind \/ StageFails \/ Unreceipt
           \/ StagerDies \/ Verify \/ Adapt \/ AdaptRefused
  <2>1. UNCHANGED <<tree, basis>>
    BY <1>7 DEF Start, Walk, Accept, NameExceptions, NameApprovals, LoadApprovals, TreeExists,
                WriteReceipt, ReceiptFails, Bind, StageFails, Unreceipt, StagerDies, Verify,
                Adapt, AdaptRefused
  <2> QED BY <1>2, <2>1
<1> QED BY <1>3, <1>4, <1>5, <1>6, <1>7 DEF Stage

\* The receipt and what adapt has taken of it name the bytes they are of.
LEMMA ReceiptedStep ==
  ASSUME AInv, Receipted, Stage \/ Tidy \/ Verify \/ Adapt \/ AdaptRefused
  PROVE  Receipted'
<1>0. schema' = schema BY StageRests DEF sources
<1>1. CASE WriteReceipt
  <2>1. taken' = taken BY <1>1 DEF WriteReceipt
  <2>2. CASE receipt' = receipt BY <1>0, <2>1, <2>2 DEF Receipted
  <2>3. CASE receipt' = [whole |-> TRUE, source |-> SourceDigest(job.seen),
                         projection |-> JobDigest]
    <3>1. receipt'.source = SourceDigest(job.seen) /\ receipt'.projection = JobDigest
      BY <2>3
    <3>2. schema = 2 => JobDigest.source = SourceDigest(job.seen)
      BY DEF JobDigest, ProjectionDigest
    <3> QED BY <1>0, <2>1, <3>1, <3>2 DEF Receipted
  <2> QED BY <1>1, <2>2, <2>3 DEF WriteReceipt
<1>2. CASE ReceiptFails
  <2>1. taken' = taken BY <1>2 DEF ReceiptFails
  <2>2. CASE receipt' = None BY <1>0, <2>1, <2>2 DEF Receipted
  <2>3. CASE receipt' = [whole |-> FALSE, source |-> Empty, projection |-> None]
    <3>1. receipt'.whole = FALSE BY <2>3
    <3> QED BY <1>0, <2>1, <3>1 DEF Receipted
  <2> QED BY <1>2, <2>2, <2>3 DEF ReceiptFails
<1>3. CASE Verify
  <2>1. /\ receipt' = receipt /\ receipt # None /\ receipt.whole
        /\ tree = receipt.source
        /\ taken' = [files |-> tree, projection |-> receipt.projection]
    BY <1>3 DEF Verify, Verifies, SourceDigest
  <2>2. taken'.files = tree /\ taken'.projection = receipt.projection BY <2>1
  <2> QED BY <1>0, <2>1, <2>2 DEF Receipted
<1>4. CASE Unreceipt \/ Tidy \/ Adapt \/ AdaptRefused
  <2>1. receipt' \in {None, receipt} /\ taken' \in {None, taken}
    BY <1>4 DEF Unreceipt, Tidy, Adapt, AdaptRefused
  <2> QED BY <1>0, <2>1 DEF Receipted
<1>5. CASE \/ Start \/ Walk \/ Accept \/ NameExceptions \/ NameApprovals \/ LoadApprovals
           \/ MakeTree \/ TreeExists \/ Copy \/ Bind \/ StageFails \/ Cleanup \/ StagerDies
  <2>1. UNCHANGED <<receipt, taken>>
    BY <1>5 DEF Start, Walk, Accept, NameExceptions, NameApprovals, LoadApprovals, MakeTree,
                TreeExists, Copy, Bind, StageFails, Cleanup, StagerDies
  <2> QED BY <1>0, <2>1 DEF Receipted
<1> QED BY <1>1, <1>2, <1>3, <1>4, <1>5 DEF Stage

-------------------------------------------------------------------------------
(* A stage nothing gets in the way of                                      *)

Wanted == IF schema = 2 THEN Projected(content, ignored) ELSE Listed(content, ignored)
Current == Restrict(content, Wanted)
Deciding(S) == [p \in S |-> Decision(p, content[p], ignored)]
Naming == {"exceptions", "coverage", "approvals"}

\* What the command has read so far is what the checkout says of it, and so is
\* what it has copied.
UndisturbedWalk ==
  job.pc = "walk" => /\ job.ignored = ignored
                     /\ job.decisions = Deciding(Paths \ job.todo)
                     /\ job.seen = Restrict(content, Wanted \ job.todo)
UndisturbedScan ==
  job.pc # "walk" =>
    /\ job.exceptions = exceptions /\ Accepts(exceptions, Findings(Current))
    /\ job.pc \in Naming => schema = 2
    /\ job.pc \in Naming \cup {"mkdir"} => job.seen = Current
    /\ schema = 2 =>
         /\ job.ignored = ignored /\ job.decisions = Deciding(Paths) /\ job.seen = Current
         /\ job.pc # "exceptions" => job.named = exceptions
         /\ job.pc \notin {"exceptions", "coverage"} => job.approvals = control.entries
         /\ job.pc \notin Naming => ValidApprovals(control.entries, Current)
UndisturbedCopy ==
  /\ job.pc = "copy" => /\ job.todo \subseteq Wanted
                        /\ tree = Restrict(content, Wanted \ job.todo)
                        /\ schema # 2 => job.seen = tree
  /\ job.pc = "bind" => tree = Current /\ (schema = 2 => receipt.projection = JobDigest)
  /\ job.pc = "cleanup" => receipt # None
  /\ job.pc # "unreceipt"
Undisturbed == UndisturbedWalk /\ UndisturbedScan /\ UndisturbedCopy
QuietRun == quiet /\ job.pc \in Steps => Undisturbed

\* Reading one more path, and copying one more file, is reading all of them.
LEMMA RestrictMore ==
  ASSUME NEW c, NEW S, NEW p
  PROVE  Extend(Restrict(c, S), p, c[p]) = Restrict(c, S \cup {p})
BY DEF Extend, Restrict

\* Deciding one path more is deciding on the larger set.
LEMMA DecideMore ==
  ASSUME NEW S, NEW p
  PROVE  Extend(Deciding(S), p, Decision(p, content[p], ignored)) = Deciding(S \cup {p})
<1> DEFINE D(q) == Decision(q, content[q], ignored)
<1>1. Extend([q \in S |-> D(q)], p, D(p)) = [q \in S \cup {p} |-> D(q)]
  <2> HIDE DEF D
  <2> QED BY DEF Extend
<1> QED BY <1>1 DEF Deciding

\* The paths that are read are those that are wanted, under the ignores of now.
LEMMA VisibleIsWanted ==
  ASSUME NEW p \in Paths, job.ignored = ignored
  PROVE  Visible(p) <=> p \in Wanted
BY DEF Visible, Wanted, Projected

\* The file that is next is admitted, as long as the checkout is what was read.
LEMMA WantedAdmitted ==
  ASSUME NEW p \in Wanted, job.exceptions = exceptions,
         Accepts(exceptions, Findings(Current)), schema = 2 => job.seen = Current
  PROVE  Admissible(p)
<1>1. p \in DOMAIN Current /\ Current[p] = content[p] BY DEF Current, Restrict
<1>2. CASE schema = 2 BY <1>1, <1>2 DEF Admissible
<1>3. CASE schema # 2
  <2>1. content[p] \in Texts \cup {"binary"} BY <1>3 DEF Wanted, Listed
  <2>2. content[p] \in Shapes => content[p] = "flagged" /\ <<p, "flagged">> \in exceptions
    BY <1>1, AcceptedFindings
  <2> QED BY <1>3, <2>1, <2>2 DEF Admissible
<1> QED BY <1>2, <1>3

\* Nothing of this is about anything but the command, its tree and its receipt, the
\* checkout and the file of approvals.
LEMMA UndisturbedRests ==
  ASSUME Undisturbed, UNCHANGED <<job, tree, receipt, sources, control>>
  PROVE  Undisturbed'
<1>1. Wanted' = Wanted BY DEF Wanted, sources
<1>2. Current' = Current BY <1>1 DEF Current, sources
<1>4. JobDigest' = JobDigest BY DEF JobDigest, sources
<1>5. UndisturbedWalk'
  <2>1. Deciding(Paths \ job.todo)' = Deciding(Paths \ job.todo)
    BY DEF Deciding, sources
  <2> QED BY <1>1, <2>1 DEF Undisturbed, UndisturbedWalk, sources
<1>6. UndisturbedScan'
  <2>1. Deciding(Paths)' = Deciding(Paths) BY DEF Deciding, sources
  <2> QED BY <1>2, <2>1 DEF Undisturbed, UndisturbedScan, sources
<1>7. UndisturbedCopy' BY <1>1, <1>2, <1>4 DEF Undisturbed, UndisturbedCopy, sources
<1> QED BY <1>5, <1>6, <1>7 DEF Undisturbed

\* While nothing gets in the way, every step of the command keeps that.
LEMMA QuietStep ==
  ASSUME AInv, StageTypeOK, Filled, QuietRun, Stage \/ Tidy \/ Verify \/ Adapt \/ AdaptRefused
  PROVE  QuietRun'
<1>0. UNCHANGED <<sources, control>> /\ DOMAIN job = JobFields
  BY StageRests DEF StageTypeOK
<1>1. /\ Wanted' = Wanted /\ Current' = Current /\ Deciding(Paths)' = Deciding(Paths)
      /\ UNCHANGED <<schema, content, ignored, exceptions, control>>
  BY <1>0 DEF Wanted, Current, Deciding, sources
<1>2. ASSUME NEW answer, Ends(answer) PROVE QuietRun'
  <2>1. job'.pc = "idle" BY <1>2, Ended
  <2> QED BY <2>1 DEF QuietRun, Steps, Copying
<1>3. ASSUME quiet' = FALSE PROVE QuietRun' BY <1>3 DEF QuietRun
<1>4. ASSUME quiet' = quiet, job.pc \in Steps, Undisturbed => Undisturbed' PROVE QuietRun'
  BY <1>4 DEF QuietRun
<1>5. CASE Start
  <2>1. /\ job'.pc = "walk" /\ job'.todo = Paths /\ job'.ignored = ignored
        /\ job'.seen = Empty /\ job'.decisions = Empty
    BY <1>0, <1>5, Started
  <2>2. Wanted \ Paths = {} BY ListedFiles DEF Wanted, Projected
  <2>3. Restrict(content, {}) = Empty BY DEF Restrict, Empty
  <2>4. Deciding({}) = Empty BY DEF Deciding, Empty
  <2>5. Deciding(Paths \ job.todo)' = Deciding(Paths \ job'.todo) BY <1>1 DEF Deciding
  <2>6. Paths \ Paths = {} OBVIOUS
  <2>7. UndisturbedWalk' BY <1>1, <2>1, <2>2, <2>3, <2>4, <2>5, <2>6 DEF UndisturbedWalk
  <2>8. UndisturbedScan' /\ UndisturbedCopy' BY <2>1 DEF UndisturbedScan, UndisturbedCopy
  <2> QED BY <2>7, <2>8 DEF QuietRun, Undisturbed
<1>6. CASE Walk
  <2>1. /\ job'.pc = "walk" /\ job.pc = "walk" /\ quiet' = quiet
        /\ job'.todo = job.todo \ {Path}
        /\ job'.decisions = Extend(job.decisions, Path,
                                   Decision(Path, content[Path], job.ignored))
        /\ job'.seen = IF Visible(Path) THEN Extend(job.seen, Path, content[Path])
                       ELSE job.seen
        /\ job'.ignored = job.ignored
    BY <1>0, <1>6, Walked DEF Walk
  <2>2. Path \in job.todo /\ Path \in Paths BY <1>6, PathIs DEF Walk, StageTypeOK
  <2>3. ASSUME Undisturbed PROVE UndisturbedWalk'
    <3>1. /\ job.ignored = ignored /\ job.decisions = Deciding(Paths \ job.todo)
          /\ job.seen = Restrict(content, Wanted \ job.todo)
      BY <2>1, <2>3 DEF Undisturbed, UndisturbedWalk
    <3>2. job'.decisions = Deciding((Paths \ job.todo) \cup {Path})
      BY <2>1, <3>1, DecideMore
    <3>3. (Paths \ job.todo) \cup {Path} = Paths \ job'.todo BY <2>1, <2>2
    <3>4. job'.seen = Restrict(content, Wanted \ job'.todo)
      <4>1. CASE Path \in Wanted
        <5>1. (Wanted \ job.todo) \cup {Path} = Wanted \ job'.todo BY <2>1, <2>2, <4>1
        <5>2. job'.seen = Extend(Restrict(content, Wanted \ job.todo), Path, content[Path])
          BY <2>1, <2>2, <3>1, <4>1, VisibleIsWanted
        <5> QED BY <5>1, <5>2, RestrictMore
      <4>2. CASE Path \notin Wanted
        <5>1. Wanted \ job.todo = Wanted \ job'.todo BY <2>1, <4>2
        <5>2. job'.seen = job.seen BY <2>1, <2>2, <3>1, <4>2, VisibleIsWanted
        <5> QED BY <3>1, <5>1, <5>2
      <4> QED BY <4>1, <4>2
    <3>5. Deciding(Paths \ job.todo)' = Deciding(Paths \ job'.todo) BY <1>1 DEF Deciding
    <3> QED BY <1>1, <2>1, <3>1, <3>2, <3>3, <3>4, <3>5 DEF UndisturbedWalk
  <2>4. UndisturbedScan' /\ UndisturbedCopy' BY <2>1 DEF UndisturbedScan, UndisturbedCopy
  <2> QED BY <1>4, <2>1, <2>3, <2>4 DEF Undisturbed, Steps
<1>7. CASE Accept
  <2>1. CASE Accepts(exceptions, Findings(job.seen))
    <3>1. /\ job.pc = "walk" /\ quiet' = quiet /\ job.todo = {}
          /\ job'.pc = IF schema = 2 THEN "exceptions" ELSE "mkdir"
          /\ job'.exceptions = exceptions
          /\ UNCHANGED <<job.todo, job.seen, job.decisions, job.ignored>>
      BY <1>0, <1>7, <2>1, Accepted DEF Accept
    <3>2. ASSUME Undisturbed PROVE Undisturbed'
      <4>1. job.ignored = ignored /\ job.decisions = Deciding(Paths) /\ job.seen = Current
        <5>1. Paths \ {} = Paths /\ Wanted \ {} = Wanted OBVIOUS
        <5> QED BY <3>1, <3>2, <5>1 DEF Undisturbed, UndisturbedWalk, Current
      <4>2. UndisturbedWalk' BY <3>1 DEF UndisturbedWalk
      <4>3. UndisturbedScan'
        BY <1>1, <2>1, <3>1, <4>1 DEF UndisturbedScan, Naming
      <4>4. UndisturbedCopy' BY <3>1 DEF UndisturbedCopy
      <4> QED BY <4>2, <4>3, <4>4 DEF Undisturbed
    <3> QED BY <1>4, <3>1, <3>2 DEF Steps
  <2>2. CASE ~Accepts(exceptions, Findings(job.seen))
    <3>1. Ends("refused") BY <1>7, <2>2 DEF Accept
    <3> QED BY <1>2, <3>1
  <2> QED BY <2>1, <2>2
<1>8. CASE NameExceptions
  <2>1. /\ job.pc = "exceptions" /\ job'.pc = "coverage" /\ quiet' = quiet
        /\ job'.named = exceptions
        /\ UNCHANGED <<job.todo, job.seen, job.decisions, job.ignored, job.exceptions>>
    BY <1>0, <1>8, Named DEF NameExceptions
  <2>2. ASSUME Undisturbed PROVE Undisturbed'
    <3>1. UndisturbedWalk' /\ UndisturbedCopy' BY <2>1 DEF UndisturbedWalk, UndisturbedCopy
    <3>2. UndisturbedScan'
      BY <1>1, <2>1, <2>2 DEF Undisturbed, UndisturbedScan, Naming
    <3> QED BY <3>1, <3>2 DEF Undisturbed
  <2> QED BY <1>4, <2>1, <2>2 DEF Steps
<1>9. CASE NameApprovals
  <2>1. /\ job.pc = "coverage" /\ job'.pc = "approvals" /\ quiet' = quiet
        /\ job'.approvals = control.entries
        /\ UNCHANGED <<job.todo, job.seen, job.decisions, job.ignored, job.exceptions,
                       job.named>>
    BY <1>0, <1>9, NamedToo DEF NameApprovals
  <2>2. ASSUME Undisturbed PROVE Undisturbed'
    <3>1. UndisturbedWalk' /\ UndisturbedCopy' BY <2>1 DEF UndisturbedWalk, UndisturbedCopy
    <3>2. UndisturbedScan'
      BY <1>1, <2>1, <2>2 DEF Undisturbed, UndisturbedScan, Naming
    <3> QED BY <3>1, <3>2 DEF Undisturbed
  <2> QED BY <1>4, <2>1, <2>2 DEF Steps
<1>10. CASE LoadApprovals
  <2>1. CASE Next_("mkdir") /\ ValidApprovals(control.entries, job.seen)
    <3>1. /\ job.pc = "approvals" /\ job'.pc = "mkdir" /\ quiet' = quiet
          /\ UNCHANGED <<job.todo, job.seen, job.decisions, job.ignored, job.exceptions,
                         job.named, job.approvals>>
      BY <1>0, <1>10, <2>1, WentOn DEF LoadApprovals
    <3>2. ASSUME Undisturbed PROVE Undisturbed'
      <4>1. UndisturbedWalk' /\ UndisturbedCopy' BY <3>1 DEF UndisturbedWalk, UndisturbedCopy
      <4>2. UndisturbedScan'
        BY <1>1, <2>1, <3>1, <3>2 DEF Undisturbed, UndisturbedScan, Naming
      <4> QED BY <4>1, <4>2 DEF Undisturbed
    <3> QED BY <1>4, <3>1, <3>2 DEF Steps
  <2>2. CASE Ends("refused") BY <1>2, <2>2
  <2> QED BY <1>10, <2>1, <2>2 DEF LoadApprovals
<1>11. CASE MakeTree
  <2>1. /\ job.pc = "mkdir" /\ job'.pc = "copy" /\ tree' = Empty /\ quiet' = quiet
        /\ job'.todo = IF schema = 2 THEN DOMAIN job.seen ELSE Listed(content, ignored)
        /\ job'.seen = IF schema = 2 THEN job.seen ELSE Empty
        /\ UNCHANGED <<job.decisions, job.ignored, job.exceptions, job.named, job.approvals>>
    BY <1>0, <1>11, TreeMade DEF MakeTree
  <2>2. ASSUME Undisturbed PROVE Undisturbed'
    <3>1. job.seen = Current BY <2>1, <2>2 DEF Undisturbed, UndisturbedScan
    <3>2. job'.todo = Wanted BY <2>1, <3>1 DEF Wanted, Current, Restrict
    <3>3. Restrict(content, {}) = Empty BY DEF Restrict, Empty
    <3>4. UndisturbedWalk' BY <2>1 DEF UndisturbedWalk
    <3>5. UndisturbedScan'
      BY <1>1, <2>1, <2>2 DEF Undisturbed, UndisturbedScan, Naming
    <3>6. UndisturbedCopy'
      <4>1. Wanted \ Wanted = {} OBVIOUS
      <4> QED BY <1>1, <2>1, <3>2, <3>3, <4>1 DEF UndisturbedCopy
    <3> QED BY <3>4, <3>5, <3>6 DEF Undisturbed
  <2> QED BY <1>4, <2>1, <2>2 DEF Steps
<1>12. CASE TreeExists BY <1>2, <1>12 DEF TreeExists
<1>13. CASE Copy
  <2>1. job.pc = "copy" /\ quiet' = quiet /\ Path \in job.todo
    BY <1>13, PathIs DEF Copy, StageTypeOK
  <2>2. ASSUME Undisturbed PROVE Undisturbed'
    <3>1. /\ job.todo \subseteq Wanted /\ tree = Restrict(content, Wanted \ job.todo)
          /\ schema # 2 => job.seen = tree
      BY <2>1, <2>2 DEF Undisturbed, UndisturbedCopy
    <3>2. /\ job.exceptions = exceptions /\ Accepts(exceptions, Findings(Current))
          /\ schema = 2 => job.seen = Current
      BY <2>1, <2>2 DEF Undisturbed, UndisturbedScan
    <3>3. Path \in Wanted /\ Admissible(Path) BY <2>1, <3>1, <3>2, WantedAdmitted
    <3>4. ~Skipped(Path)
      <4>1. schema = 1 => content[Path] \in Texts \cup {"binary"}
        BY <3>3 DEF Wanted, Listed
      <4> QED BY <4>1 DEF Skipped, Texts, Shapes
    <3>5. /\ UNCHANGED <<job.decisions, job.ignored, job.exceptions, job.named, job.approvals>>
          /\ tree' = Extend(tree, Path, content[Path])
          /\ job'.pc = "copy" /\ job'.todo = job.todo \ {Path}
          /\ job'.seen = Extend(job.seen, Path, content[Path])
      BY <1>0, <1>13, <3>3, <3>4, Copied
    <3>6. (Wanted \ job.todo) \cup {Path} = Wanted \ job'.todo BY <2>1, <3>3, <3>5
    <3>7. tree' = Restrict(content, Wanted \ job'.todo)
      <4>1. tree = Restrict(content, Wanted \ job.todo) BY <3>1
      <4>2. Extend(tree, Path, content[Path])
              = Restrict(content, (Wanted \ job.todo) \cup {Path})
        BY <4>1, RestrictMore
      <4>3. tree' = Extend(tree, Path, content[Path]) BY <3>5
      <4> QED BY <3>6, <4>2, <4>3
    <3>8. schema = 2 => job'.seen = Current
      <4>1. Wanted \cup {Path} = Wanted BY <3>3
      <4>2. Extend(Current, Path, content[Path]) = Restrict(content, Wanted \cup {Path})
        BY RestrictMore DEF Current
      <4> QED BY <3>2, <3>5, <4>1, <4>2 DEF Current
    <3>9. UndisturbedWalk' BY <3>5 DEF UndisturbedWalk
    <3>10. UndisturbedScan'
      BY <1>1, <2>1, <2>2, <3>5, <3>8 DEF Undisturbed, UndisturbedScan, Naming
    <3>11. UndisturbedCopy' BY <1>1, <3>1, <3>5, <3>7 DEF UndisturbedCopy
    <3> QED BY <3>9, <3>10, <3>11 DEF Undisturbed
  <2> QED BY <1>4, <2>1, <2>2 DEF Steps, Copying
<1>14. CASE WriteReceipt
  <2>1. job.pc = "copy" /\ quiet' = quiet /\ job.todo = {} /\ tree' = tree
    BY <1>14 DEF WriteReceipt
  <2>2. PICK pc \in {"bind", "cleanup"} :
          /\ Next_(pc)
          /\ pc = "cleanup" => receipt # None /\ receipt' = receipt
          /\ pc = "bind" => receipt' = [whole |-> TRUE, source |-> SourceDigest(job.seen),
                                        projection |-> JobDigest]
    BY <1>14 DEF WriteReceipt
  <2>3. /\ job'.pc = pc
        /\ UNCHANGED <<job.todo, job.seen, job.decisions, job.ignored, job.exceptions,
                       job.named, job.approvals>>
    BY <1>0, <2>2, WentOn
  <2>4. JobDigest' = JobDigest BY <1>1, <2>3 DEF JobDigest
  <2>5. ASSUME Undisturbed PROVE Undisturbed'
    <3>1. UndisturbedWalk' BY <2>2, <2>3 DEF UndisturbedWalk
    <3>2. UndisturbedScan'
      BY <1>1, <2>1, <2>2, <2>3, <2>5 DEF Undisturbed, UndisturbedScan, Naming
    <3>3. tree = Current
      <4>1. Wanted \ {} = Wanted OBVIOUS
      <4> QED BY <2>1, <2>5, <4>1 DEF Undisturbed, UndisturbedCopy, Current
    <3>4. ASSUME pc = "bind" PROVE receipt'.projection = JobDigest
      <4>1. receipt' = [whole |-> TRUE, source |-> SourceDigest(job.seen),
                        projection |-> JobDigest]
        BY <2>2, <3>4
      <4> QED BY <4>1
    <3>5. UndisturbedCopy' BY <1>1, <2>1, <2>2, <2>3, <2>4, <3>3, <3>4 DEF UndisturbedCopy
    <3> QED BY <3>1, <3>2, <3>5 DEF Undisturbed
  <2> QED BY <1>4, <2>1, <2>5 DEF Steps, Copying
<1>15. CASE ReceiptFails \/ StageFails \/ StagerDies
  BY <1>3, <1>15 DEF ReceiptFails, StageFails, StagerDies
<1>16. CASE Bind BY <1>2, <1>16 DEF Bind
<1>17. CASE Unreceipt
  <2>1. job.pc = "unreceipt" /\ quiet' = quiet BY <1>17 DEF Unreceipt
  <2>2. ~Undisturbed BY <2>1 DEF Undisturbed, UndisturbedCopy
  <2> QED BY <1>4, <2>1, <2>2 DEF Steps, Copying
<1>18. CASE Cleanup BY <1>2, <1>18 DEF Cleanup
<1>19. CASE Tidy
  <2>1. job' = job /\ job.pc = "idle" BY <1>19 DEF Tidy
  <2> QED BY <2>1 DEF QuietRun, Steps, Copying
<1>20. CASE Verify \/ Adapt \/ AdaptRefused
  <2>1. UNCHANGED <<job, tree, receipt, quiet>> BY <1>20 DEF Verify, Adapt, AdaptRefused
  <2>2. Undisturbed => Undisturbed' BY <1>0, <2>1, UndisturbedRests
  <2> QED BY <2>1, <2>2 DEF QuietRun
<1> QED
  BY <1>5, <1>6, <1>7, <1>8, <1>9, <1>10, <1>11, <1>12, <1>13, <1>14, <1>15, <1>16,
     <1>17, <1>18, <1>19, <1>20 DEF Stage

-------------------------------------------------------------------------------
(* The theorems                                                            *)

IInv == /\ AInv /\ StageTypeOK /\ Filled /\ Scanned /\ OnlyAdmitted /\ Receipted
        /\ QuietRun

\* The inductive invariant holds at first ...
LEMMA StagingStarts == ASSUME Init PROVE IInv
<1>1. AInv BY ApprovalStarts DEF Init
<1>2. job = AtRest /\ tree = None /\ receipt = None /\ taken = None /\ runs = 0 /\ quiet = FALSE
  BY DEF Init
<1>3. /\ DOMAIN job = JobFields /\ job.pc = "idle" /\ job.answer = "none" /\ job.todo = {}
      /\ job.seen = Empty /\ job.decisions = Empty
  BY <1>2 DEF AtRest, JobFields
<1>4. StageTypeOK
  <2>1. DOMAIN job.seen \subseteq Paths /\ DOMAIN job.decisions \subseteq Paths
    BY <1>3, EmptyTree
  <2>2. runs \in 0 .. MaxRuns
    <3>1. runs = 0 /\ MaxRuns \in Nat BY <1>2, StagingAssumption
    <3> QED BY <3>1
  <2>4. quiet \in BOOLEAN BY <1>2
  <2>3. job.pc \in Steps \cup {"idle"} /\ job.todo \subseteq Paths BY <1>3
  <2> QED BY <1>2, <1>3, <2>1, <2>2, <2>3, <2>4 DEF StageTypeOK
<1>5. Filled /\ Scanned BY <1>3 DEF Filled, Scanned, Steps, Copying
<1>6. OnlyAdmitted /\ Receipted BY <1>2 DEF OnlyAdmitted, Receipted
<1>7. QuietRun BY <1>2 DEF QuietRun
<1> QED BY <1>1, <1>4, <1>5, <1>6, <1>7 DEF IInv

\* ... every step keeps it, those of the approvers and the user ...
LEMMA ElsewhereKeeps == ASSUME IInv, Elsewhere PROVE IInv'
<1>1. /\ UNCHANGED <<job, tree, receipt, taken, runs, basis>>
      /\ quiet' = (quiet /\ UNCHANGED <<sources, control>>)
      /\ ApprovalNext
  BY DEF Elsewhere
<1>2. AInv' BY <1>1, ApprovalKeeps DEF IInv
<1>3. schema' = schema BY <1>1, SchemaStays
<1>4. StageTypeOK' BY <1>1 DEF IInv, StageTypeOK
<1>5. Filled' /\ Scanned' BY <1>1, <1>3 DEF IInv, Filled, Scanned
<1>6. OnlyAdmitted' /\ Receipted' BY <1>1, <1>3 DEF IInv, OnlyAdmitted, Receipted
<1>7. QuietRun'
  <2>1. CASE quiet'
    <3>1. quiet /\ UNCHANGED <<job, tree, receipt, sources, control>> BY <1>1, <2>1
    <3>2. Undisturbed => Undisturbed' BY <3>1, UndisturbedRests
    <3> QED BY <3>1, <3>2 DEF IInv, QuietRun
  <2>2. CASE ~quiet' BY <2>2 DEF QuietRun
  <2> QED BY <2>1, <2>2
<1> QED BY <1>2, <1>4, <1>5, <1>6, <1>7 DEF IInv

\* ... and those of the stage and adapt commands.
LEMMA StagingKeeps == ASSUME IInv, [Next]_vars PROVE IInv'
<1>1. CASE Stage \/ Tidy \/ Verify \/ Adapt \/ AdaptRefused
  BY <1>1, StageRests, StageTypeStep, ScannedStep, AdmittedStep, ReceiptedStep, QuietStep
     DEF IInv
<1>2. CASE Elsewhere BY <1>2, ElsewhereKeeps
<1>3. CASE UNCHANGED vars
  <2>1. UNCHANGED <<job, tree, receipt, taken, runs, basis, quiet, sources, control, avars,
                    edits, failures>>
    BY <1>3 DEF vars, svars
  <2>2. failures' \in 0 .. MaxFailures
    BY <2>1 DEF IInv, AInv, ApprovalInv, ApprovalTypeOK
  <2>3. AInv' BY <2>1, <2>2, ApprovalRests DEF IInv
  <2>4. StageTypeOK' BY <2>1 DEF IInv, StageTypeOK
  <2>5. schema' = schema BY <2>1 DEF sources
  <2>6. Filled' /\ Scanned' BY <2>1, <2>5 DEF IInv, Filled, Scanned
  <2>7. OnlyAdmitted' /\ Receipted' BY <2>1, <2>5 DEF IInv, OnlyAdmitted, Receipted
  <2>8. Undisturbed => Undisturbed' BY <2>1, UndisturbedRests
  <2>9. QuietRun' BY <2>1, <2>8 DEF IInv, QuietRun
  <2> QED BY <2>3, <2>4, <2>6, <2>7, <2>9 DEF IInv
<1> QED BY <1>1, <1>2, <1>3 DEF Next

\* The inductive invariant holds in every behaviour of the stage and adapt
\* commands, the approvers and the user.
THEOREM Invariant == Spec => []IInv
<1>1. Init => IInv BY StagingStarts
<1>2. IInv /\ [Next]_vars => IInv' BY StagingKeeps
<1> QED BY <1>1, <1>2, PTL DEF Spec

\* No byte gets into the private tree that a policy in force during its run kept
\* out (staging.stage_input_with_receipt), and every variable has its type.
THEOREM StagingSafe == Spec => []Inv
<1>1. IInv => Inv
  <2>1. ASSUME tree \in Trees PROVE DOMAIN tree \subseteq Paths BY <2>1 DEF Trees
  <2> QED BY <2>1 DEF IInv, AInv, ApprovalInv, StageTypeOK, Inv, TypeOK
<1> QED BY <1>1, Invariant, PTL

\* adapt goes on only with a tree that holds what staging this checkout would copy
\* at that moment (cli._require_current_input).
THEOREM AdaptsCurrent == Spec => AdaptedIsCurrent
<1>1. ASSUME IInv, Adapt
      PROVE  taken.files = Current /\ Accepts(exceptions, Findings(Current))
  <2>1. taken # None /\ CurrentInput BY <1>1 DEF Adapt
  <2>2. CASE schema = 2
    <3> DEFINE files == Restrict(content, Projected(content, ignored))
               decisions == [p \in Paths |-> Decision(p, content[p], ignored)]
               now == Projection(content, ignored, exceptions, control.entries)
    <3>1. now # None /\ taken.projection = now BY <2>1, <2>2 DEF CurrentInput
    <3>2. /\ Accepts(exceptions, Findings(files))
          /\ now = ProjectionDigest(decisions, ignored, exceptions, control.entries, files)
      BY <3>1 DEF Projection
    <3>3. now.source = files
      <4> HIDE DEF now, files, decisions
      <4> QED BY <3>2 DEF ProjectionDigest, SourceDigest
    <3>4. taken.projection.source = taken.files BY <1>1, <2>1, <2>2 DEF IInv, Receipted
    <3>5. Current = files BY <2>2 DEF Current, Wanted
    <3> QED BY <3>1, <3>2, <3>3, <3>4, <3>5
  <2>3. CASE schema # 2
    <3>1. Current = Restrict(content, Listed(content, ignored))
      BY <2>3 DEF Current, Wanted
    <3> QED BY <2>1, <2>3, <3>1 DEF CurrentInput, SourceDigest
  <2> QED BY <2>2, <2>3
<1>2. IInv /\ [Next]_vars =>
        [Adapt => LET files == Restrict(content, IF schema = 2 THEN Projected(content, ignored)
                                                 ELSE Listed(content, ignored))
                  IN taken.files = files /\ Accepts(exceptions, Findings(files))]_vars
  BY <1>1 DEF Current, Wanted
<1> QED BY <1>2, Invariant, PTL DEF Spec, AdaptedIsCurrent

\* A stage nothing gets in the way of answers as the rules say of the checkout as a
\* whole: it stages that projection and names it, or refuses what has none.
THEOREM QuietRunsAgreeAlways == Spec => QuietRunsAgree
<1> DEFINE Agrees ==
      \/ /\ job'.answer = "staged" /\ Reference(Current) /\ tree = Current
         /\ schema = 2 => receipt.projection =
              Projection(content, ignored, exceptions, control.entries)
      \/ job'.answer = "refused" /\ ~Reference(Current)
      \/ job'.answer = "failed" /\ (receipt # None \/ tree # None)
<1>1. ASSUME IInv, Stage, job.pc \in Steps, job'.pc = "idle", quiet' PROVE Agrees
  <2>0. DOMAIN job = JobFields BY <1>1 DEF IInv, StageTypeOK
  <2>1. quiet => Undisturbed BY <1>1 DEF IInv, QuietRun
  <2>2. ASSUME NEW pc, Next_(pc), pc # "idle" PROVE FALSE
    <3>1. job'.pc = pc BY <2>0, <2>2, WentOn
    <3> QED BY <1>1, <2>2, <3>1
  <2>3. CASE Bind
    <3>1. job.pc = "bind" /\ Ends("staged") /\ Undisturbed
      BY <1>1, <2>1, <2>3 DEF Bind
    <3>2. job'.answer = "staged" BY <3>1, Ended
    <3>3. /\ tree = Current /\ Accepts(exceptions, Findings(Current))
          /\ schema = 2 =>
               /\ receipt.projection = JobDigest /\ job.ignored = ignored
               /\ job.decisions = Deciding(Paths) /\ job.seen = Current
               /\ job.named = exceptions /\ job.approvals = control.entries
               /\ ValidApprovals(control.entries, Current)
      BY <3>1 DEF Undisturbed, UndisturbedCopy, UndisturbedScan, Naming
    <3>4. ASSUME schema = 2
          PROVE  JobDigest = Projection(content, ignored, exceptions, control.entries)
      <4>1. Current = Restrict(content, Projected(content, ignored))
        BY <3>4 DEF Current, Wanted
      <4>2. JobDigest = ProjectionDigest(Deciding(Paths), ignored, exceptions,
                                         control.entries, Current)
        BY <3>3, <3>4 DEF JobDigest
      <4> QED BY <3>3, <3>4, <4>1, <4>2 DEF Projection, Deciding
    <3> QED BY <3>2, <3>3, <3>4 DEF Reference
  <2>4. CASE Accept
    <3>1. job.pc = "walk" /\ job.todo = {} /\ quiet /\ Undisturbed
      BY <1>1, <2>1, <2>4 DEF Accept
    <3>2. job.seen = Current
      <4>1. Wanted \ {} = Wanted OBVIOUS
      <4> QED BY <3>1, <4>1 DEF Undisturbed, UndisturbedWalk, Current
    <3>3. ~Accepts(exceptions, Findings(job.seen))
      <4>1. SUFFICES ASSUME Accepts(exceptions, Findings(job.seen)) PROVE FALSE OBVIOUS
      <4>2. job'.pc \in {"exceptions", "mkdir"} BY <2>0, <2>4, <4>1, Accepted
      <4> QED BY <1>1, <4>2
    <3>4. job'.answer = "refused" BY <2>4, <3>3, Ended DEF Accept
    <3> QED BY <3>2, <3>3, <3>4 DEF Reference
  <2>5. CASE LoadApprovals
    <3>1. job.pc = "approvals" /\ Undisturbed BY <1>1, <2>1, <2>5 DEF LoadApprovals
    <3>2. schema = 2 /\ job.seen = Current /\ job.approvals = control.entries
      BY <3>1 DEF Undisturbed, UndisturbedScan, Naming
    <3>3. Ends("refused") /\ ~(control.entries = job.approvals
                               /\ ValidApprovals(control.entries, job.seen))
      BY <2>2, <2>5 DEF LoadApprovals
    <3>4. job'.answer = "refused" BY <3>3, Ended
    <3> QED BY <3>2, <3>3, <3>4 DEF Reference
  <2>6. CASE TreeExists
    <3>1. Ends("failed") /\ tree # None BY <2>6 DEF TreeExists
    <3> QED BY <3>1, Ended
  <2>7. CASE Cleanup
    <3>1. job.pc = "cleanup" /\ quiet' = quiet /\ Ends("failed") BY <1>1, <2>7 DEF Cleanup
    <3>2. receipt # None BY <1>1, <2>1, <3>1 DEF Undisturbed, UndisturbedCopy
    <3> QED BY <3>1, <3>2, Ended
  <2>8. CASE StageFails \/ StagerDies \/ ReceiptFails
    BY <1>1, <2>8 DEF StageFails, StagerDies, ReceiptFails
  <2>9. CASE Start BY <1>1, <2>9 DEF Start, Steps, Copying
  <2>10. CASE Walk BY <1>1, <2>0, <2>10, Walked
  <2>11. CASE NameExceptions BY <1>1, <2>0, <2>11, Named
  <2>12. CASE NameApprovals BY <1>1, <2>0, <2>12, NamedToo
  <2>13. CASE MakeTree BY <1>1, <2>0, <2>13, TreeMade
  <2>14. CASE Copy
    <3>1. job'.pc \in {"copy", "cleanup"} BY <2>0, <2>14, Copied
    <3> QED BY <1>1, <3>1
  <2>15. CASE WriteReceipt
    <3>1. Next_("bind") \/ Next_("cleanup") BY <2>15 DEF WriteReceipt
    <3> QED BY <2>2, <3>1
  <2>16. CASE Unreceipt BY <2>2, <2>16 DEF Unreceipt
  <2> HIDE DEF Agrees
  <2> QED
    BY <1>1, <2>3, <2>4, <2>5, <2>6, <2>7, <2>8, <2>9, <2>10, <2>11, <2>12, <2>13, <2>14,
       <2>15, <2>16 DEF Stage
<1>2. ASSUME IInv, [Next]_vars, job.pc \in Steps, job'.pc = "idle" PROVE Stage
  <2>1. job' = job => FALSE BY <1>2 DEF Steps, Copying
  <2>2. Tidy \/ Verify \/ Adapt \/ AdaptRefused \/ Elsewhere \/ UNCHANGED vars => job' = job
    BY DEF Tidy, Verify, Adapt, AdaptRefused, Elsewhere, vars, svars
  <2> QED BY <1>2, <2>1, <2>2 DEF Next
<1>3. IInv /\ [Next]_vars => [(job.pc \in Steps /\ job'.pc = "idle" /\ quiet') => Agrees]_vars
  <2> HIDE DEF Agrees
  <2> QED BY <1>1, <1>2
<1>4. (Spec => []IInv) => (Spec => [][(job.pc \in Steps /\ job'.pc = "idle" /\ quiet') => Agrees]_vars)
  <2> HIDE DEF Agrees
  <2> QED BY <1>3, PTL DEF Spec
<1> QED BY <1>4, Invariant DEF QuietRunsAgree, Current, Wanted
===============================================================================
