-------------------------- MODULE WorkspaceProofs --------------------------
(***************************************************************************)
(* The two components that work on a whole project by its files: the fleet *)
(* command and the configuration transaction.  FleetOperation and          *)
(* ConfigTransaction share no name and no variable, so that what is said   *)
(* of one is proved without the other.                                     *)
(*                                                                         *)
(* Fleet.  For any workspace, any directories and any interleaving of the  *)
(* user, of other commands and of the pool: a fleet command answers with   *)
(* the truth about what its runners did (AnswerTrue), no two of them work  *)
(* in one directory (Apart), and a query answers with entries that were    *)
(* current (RepliesCurrent).  The inductive invariant follows the passes.  *)
(* ToldApart: the projects told apart by directory, uid and git directory  *)
(* stay so, because loaded is never written again.  Known: what was        *)
(* admitted has the uid that was opened.  RowsOf: the rows of each pass.   *)
(* WorkedOn: a project whose row claims work was worked on, where it was   *)
(* opened, and a change that is said after work was done is a sync's.      *)
(* Asked: an entry found current was so at a moment of the command.        *)
(*                                                                         *)
(* Configuration.  For any commands, inodes, deaths, failures and writes:  *)
(* Structure says which documents and which names every program point has, *)
(* whatever the user writes; Undisturbed, how far the transaction is while *)
(* nobody has written, from which WholeAtRest, LeftRecoverable and         *)
(* AnswersTrue follow; Guarded, what a comparison has established for the  *)
(* step after it, from which EditsKept follows.                            *)
(***************************************************************************)
EXTENDS FleetOperation, ConfigTransaction, TLAPS

Answered == cmd.pc = "done" /\ cmd.status # "refused"
Admitted == cmd.pc \in {"fresh", "run", "status", "capture"} \/ Answered

Commands == [op: Operations, pc: PCs, todo: SUBSET Projects, status: Statuses]

Shapes ==
  /\ cmd \in Commands
  /\ syncing = None \/ syncing \in [dir: Dirs, uid: Projects]
  /\ \A p \in DOMAIN loaded : p \in Projects /\ loaded[p] \in [dir: Dirs, uid: Projects, git: Dirs]

\* The projects opened are told apart, and are all of them once the pass is over.
ToldApart ==
  /\ cmd.pc = "load" => Projects \subseteq DOMAIN loaded \cup cmd.todo
  /\ cmd.pc \notin {"load", "done"} \/ Answered => Projects \subseteq DOMAIN loaded
  /\ \A p, q \in DOMAIN loaded : p # q =>
       /\ loaded[p].dir # loaded[q].dir
       /\ loaded[p].uid # loaded[q].uid
       /\ loaded[p].git # loaded[q].git
  /\ \A p \in DOMAIN loaded : regit \/ git[loaded[p].dir] = loaded[p].git

\* A manifest is admitted with the uid that was opened.
Known ==
  /\ \A p \in DOMAIN admitted : p \in DOMAIN loaded /\ admitted[p].uid = loaded[p].uid
  /\ cmd.pc \in {"load", "select"} => DOMAIN admitted = {}
  /\ cmd.pc = "admit" => Selected \subseteq DOMAIN admitted \cup cmd.todo
  /\ Admitted => Selected \subseteq DOMAIN admitted

\* The rows of each pass.
RowsOf ==
  /\ cmd.pc \in {"load", "select", "admit"} => \A p \in Selected : row[p] = "none"
  /\ cmd.pc \in {"admit", "fresh", "status"} => cmd.todo \subseteq Selected
  /\ cmd.pc \in {"admit"} \/ Admitted => Selected # {}
  /\ cmd.pc = "run" => cmd.op # "query" /\ \A p \in Selected : row[p] # "none"
  /\ cmd.pc \in {"status", "capture"} => cmd.op = "query"
  /\ cmd.pc = "fresh" => \A p \in Selected \ cmd.todo : row[p] = "queued"
  /\ cmd.pc = "status" => \A p \in Selected \ cmd.todo : row[p] \in {"ok", "not_current"}
  /\ cmd.pc = "capture" => \A p \in Selected : row[p] \in {"ok", "not_current"}
  /\ cmd.op = "query" /\ Answered => \A p \in Selected : row[p] \in {"ok", "not_current"}

\* Who was worked on, where, what its row says then, and why it says a change.
WorkedOn ==
  /\ cmd.pc \notin {"run", "done"} => worked = NoFile
  /\ cmd.op = "query" => worked = NoFile
  /\ cmd.pc = "done" /\ cmd.status = "refused" => worked = NoFile
  /\ \A p \in DOMAIN worked :
       /\ p \in Selected
       /\ row[p] \in {"working", "ok", "changed", "operation_failed", "result_invalid"}
       /\ worked[p].dir = loaded[p].dir
       /\ regit \/ worked[p].git = loaded[p].git
       /\ worked[p].did => cmd.op # "inspect"
       /\ row[p] = "changed" /\ worked[p].did =>
            cmd.op = "registry-sync" /\ p \in rewritten
  /\ cmd.pc = "run" => \A p \in Selected :
       row[p] \in {"ok", "result_invalid"} => p \in DOMAIN worked

\* What a query has found current is an entry that was current.
Asked ==
  /\ Live \subseteq current
  /\ cmd.pc \in {"status", "capture"} => \A p \in Selected : row[p] = "ok" =>
       /\ loaded[p].uid \in DOMAIN entry
       /\ <<loaded[p].uid, entry[loaded[p].uid]>> \in current
  /\ cmd.pc # "done" \/ cmd.status = "refused" => DOMAIN reply = {}

IInv == /\ TypeOK /\ Shapes /\ ToldApart /\ Known /\ RowsOf /\ WorkedOn /\ Asked
        /\ AnswerTrue /\ RepliesCurrent
-------------------------------------------------------------------------------
\* The passes begin with nothing opened, admitted or worked on.
LEMMA StartsRight == ASSUME Init PROVE IInv
<1>1. TypeOK /\ Shapes
  BY FleetAssumption DEF Init, TypeOK, Shapes, Commands, NoFile, Selected, Operations, PCs, Statuses
<1>2. ToldApart /\ Known /\ RowsOf
  BY DEF Init, ToldApart, Known, RowsOf, NoFile, Selected, Answered, Admitted
<1>3. WorkedOn /\ Asked
  BY DEF Init, WorkedOn, Asked, NoFile, Selected
<1>4. AnswerTrue /\ RepliesCurrent
  BY DEF Init, AnswerTrue, RepliesCurrent, NoFile
<1> QED BY <1>1, <1>2, <1>3, <1>4 DEF IInv

\* A pass is begun, or goes on, with the projects it is given.
LEMMA PassIs ==
  ASSUME cmd \in Commands, NEW pass \in PCs, NEW S \in SUBSET Projects, Pass(pass, S)
  PROVE  cmd' \in Commands /\ cmd'.op = cmd.op /\ cmd'.pc = pass /\ cmd'.todo = S
         /\ cmd'.status = cmd.status
BY DEF Pass, Commands

\* A command ends with its status and no project left to look at.
LEMMA FinishIs ==
  ASSUME cmd \in Commands, NEW status \in Statuses, Finish(status)
  PROVE  cmd' \in Commands /\ cmd'.op = cmd.op /\ cmd'.pc = "done" /\ cmd'.todo = {}
         /\ cmd'.status = status
BY DEF Finish, Commands, PCs

\* The pass goes on with the next project, or the next pass begins with them all.
LEMMA AfterIs ==
  ASSUME cmd \in Commands, NEW p, NEW pass \in {"fresh", "run", "status", "capture"}, After(p, pass),
         Selected \subseteq Projects
  PROVE  /\ cmd' \in Commands /\ cmd'.op = cmd.op /\ cmd'.status = cmd.status
         /\ \/ cmd.todo \ {p} = {} /\ cmd'.pc = pass /\ cmd'.todo = Selected
            \/ cmd.todo \ {p} # {} /\ cmd'.pc = cmd.pc /\ cmd'.todo = cmd.todo \ {p}
<1>1. CASE cmd.todo \ {p} = {}
  <2>1. Pass(pass, Selected) /\ pass \in PCs
    BY <1>1 DEF After, PCs
  <2> QED BY <1>1, <2>1, PassIs
<1>2. CASE cmd.todo \ {p} # {}
  <2>1. Pass(cmd.pc, cmd.todo \ {p}) /\ cmd.pc \in PCs /\ cmd.todo \ {p} \in SUBSET Projects
    BY <1>2 DEF After, Commands
  <2> QED BY <1>2, <2>1, PassIs
<1> QED BY <1>1, <1>2

-------------------------------------------------------------------------------
(* A pass that raises ends the command, and no runner has been at work.      *)
LEMMA Refusing ==
  ASSUME IInv, Finish("refused"), worked = NoFile, cmd.pc # "done",
         current' = current \cup Live',
         UNCHANGED <<world, registry, loaded, admitted, row, reply, history, bounds>>
  PROVE  IInv'
<1>1. /\ cmd' \in Commands /\ cmd'.op = cmd.op /\ cmd'.pc = "done" /\ cmd'.todo = {}
      /\ cmd'.status = "refused"
  <2>1. cmd \in Commands /\ "refused" \in Statuses
    BY DEF IInv, Shapes, Statuses
  <2> QED BY <2>1, FinishIs
<1>2. UNCHANGED <<at, manifest, pending, git, graph, entry, syncing, loaded, admitted, row,
                  reply, worked, rewritten, regit, edits, works, failures, Selected>>
  BY DEF world, registry, history, bounds, Selected
<1>3. TypeOK' /\ Shapes'
  BY <1>1, <1>2 DEF IInv, TypeOK, Shapes, Commands
<1>4. ToldApart' /\ Known' /\ RowsOf'
  BY <1>1, <1>2 DEF IInv, ToldApart, Known, RowsOf, Answered, Admitted
<1>5. WorkedOn' /\ Asked'
  BY <1>1, <1>2 DEF IInv, WorkedOn, Asked, NoFile
<1>6. AnswerTrue' /\ RepliesCurrent'
  BY <1>1, <1>2 DEF IInv, AnswerTrue, RepliesCurrent, Asked
<1> QED BY <1>3, <1>4, <1>5, <1>6 DEF IInv

\* load_fleet_workspace: what is opened differs from all that was, or is refused.
LEMMA LoadKeeps ==
  ASSUME IInv, NEW p \in Projects, Seen(Load(p))  PROVE IInv'
<1>0. /\ UNCHANGED <<world, registry, admitted, row, reply, history, bounds>>
      /\ cmd.pc = "load" /\ cmd \in Commands /\ cmd.todo \in SUBSET Projects
      /\ current' = current \cup Live'
      /\ worked = NoFile
  BY DEF Shapes, Seen, Load, Commands, IInv, WorkedOn
<1>a. UNCHANGED <<at, manifest, pending, git, graph, entry, syncing, admitted, row,
                  reply, worked, rewritten, regit, edits, works, failures, Selected>>
  BY <1>0 DEF world, registry, history, bounds, Selected
<1>1. CASE /\ Distinct(p)
           /\ loaded' = With(loaded, p, [dir |-> at[p], uid |-> manifest[at[p]].uid,
                                         git |-> Alias(at[p])])
           /\ IF cmd.todo = {p} THEN Pass("select", {}) ELSE Pass("load", cmd.todo \ {p})
  <2> DEFINE one == [dir |-> at[p], uid |-> manifest[at[p]].uid, git |-> Alias(at[p])]
  <2>0. loaded' = With(loaded, p, one)
    BY <1>1
  <2>1. /\ DOMAIN loaded' = DOMAIN loaded \cup {p} /\ loaded'[p] = one
        /\ \A q \in DOMAIN loaded : q # p => loaded'[q] = loaded[q]
    <3> HIDE DEF one
    <3> QED BY <2>0 DEF With
  <2>2. /\ cmd' \in Commands
        /\ cmd'.op = cmd.op /\ cmd'.status = cmd.status
        /\ \/ cmd.todo = {p} /\ cmd'.pc = "select" /\ cmd'.todo = {}
           \/ cmd'.pc = "load" /\ cmd'.todo = cmd.todo \ {p}
    <3>1. CASE cmd.todo = {p} /\ Pass("select", {})
      BY <1>0, <3>1, PassIs DEF PCs
    <3>2. CASE Pass("load", cmd.todo \ {p})
      <4>1. "load" \in PCs /\ cmd.todo \ {p} \in SUBSET Projects
        BY <1>0 DEF PCs
      <4> QED BY <1>0, <3>2, <4>1, PassIs
    <3> QED BY <1>1, <3>1, <3>2
  <2>t. one \in [dir: Dirs, uid: Projects, git: Dirs]
    BY DEF IInv, TypeOK, Alias
  <2>3. TypeOK' /\ Shapes'
    <3>1. TypeOK'
      BY <1>a, <2>2 DEF IInv, TypeOK, Commands
    <3>2. Shapes'
      <4> HIDE DEF one
      <4> QED BY <1>a, <2>1, <2>2, <2>t DEF IInv, Shapes
    <3> QED BY <3>1, <3>2
  <2>5. ToldApart'
    BY <1>0, <1>a, <1>1, <2>1, <2>2 DEF IInv, ToldApart, Distinct, Answered, Alias
  <2>6. Known' /\ RowsOf'
    BY <1>0, <1>a, <2>1, <2>2 DEF IInv, Known, RowsOf, Answered, Admitted
  <2>7. WorkedOn' /\ Asked'
    BY <1>0, <1>a, <2>1, <2>2 DEF IInv, WorkedOn, Asked, NoFile
  <2>8. AnswerTrue' /\ RepliesCurrent'
    BY <1>0, <1>a, <2>2 DEF IInv, AnswerTrue, RepliesCurrent, Asked
  <2> QED BY <2>3, <2>5, <2>6, <2>7, <2>8 DEF IInv
<1>2. CASE Finish("refused") /\ UNCHANGED loaded
  BY <1>0, <1>2, Refusing
<1> QED BY <1>1, <1>2 DEF Seen, Load

\* The selected projects get their rows before any of them is looked at.
LEMMA SelectKeeps ==
  ASSUME IInv, Seen(Select)  PROVE IInv'
<1>0. /\ cmd.pc = "select" /\ cmd \in Commands /\ current' = current \cup Live'
      /\ UNCHANGED <<at, manifest, pending, git, graph, entry, syncing, loaded, admitted,
                     reply, worked, rewritten, regit, edits, works, failures>>
  BY DEF IInv, Shapes, Seen, Select, world, registry, history, bounds
<1>1. PICK chosen \in (SUBSET Projects) \ {{}} :
        row' = [p \in chosen |-> "none"] /\ Pass("admit", chosen)
  BY DEF Seen, Select
<1>2. cmd' \in Commands /\ cmd'.op = cmd.op /\ cmd'.pc = "admit" /\ cmd'.todo = chosen
      /\ cmd'.status = cmd.status
  BY <1>0, <1>1, PassIs DEF PCs
<1>3. Selected' = chosen /\ \A p \in chosen : row'[p] = "none"
  BY <1>1 DEF Selected
<1>4. TypeOK' /\ Shapes'
  BY <1>0, <1>1, <1>2, <1>3 DEF IInv, TypeOK, Shapes, Commands, Rows
<1>5. ToldApart' /\ Known'
  BY <1>0, <1>2, <1>3 DEF IInv, ToldApart, Known, Answered, Admitted
<1>8. RowsOf'
  <2>1. chosen # {}
    OBVIOUS
  <2> QED BY <1>2, <1>3, <2>1 DEF RowsOf, Answered, Admitted
<1>6. WorkedOn' /\ Asked'
  BY <1>0, <1>2, <1>3 DEF IInv, WorkedOn, Asked, NoFile
<1>7. AnswerTrue' /\ RepliesCurrent'
  BY <1>0, <1>2 DEF IInv, AnswerTrue, RepliesCurrent, Asked
<1> QED BY <1>4, <1>5, <1>6, <1>7, <1>8 DEF IInv

\* require_fleet_projects_ready: the manifest that is admitted has the opened uid.
LEMMA AdmitKeeps ==
  ASSUME IInv, NEW p \in Projects, Seen(Admit(p))  PROVE IInv'
<1>0. /\ UNCHANGED <<world, registry, loaded, row, reply, history, bounds>>
      /\ cmd.pc = "admit" /\ cmd \in Commands /\ current' = current \cup Live'
      /\ worked = NoFile /\ Selected \subseteq Projects
  BY DEF Shapes, Seen, Admit, IInv, WorkedOn, TypeOK
<1>a. UNCHANGED <<at, manifest, pending, git, graph, entry, syncing, loaded, row,
                  reply, worked, rewritten, regit, edits, works, failures, Selected>>
  BY <1>0 DEF world, registry, history, bounds, Selected
<1>1. CASE Ready(p) /\ admitted' = With(admitted, p, manifest[at[p]]) /\ After(p, "fresh")
  <2>1. /\ DOMAIN admitted' = DOMAIN admitted \cup {p} /\ admitted'[p].uid = loaded[p].uid
        /\ \A q \in DOMAIN admitted : q # p => admitted'[q] = admitted[q]
    BY <1>1 DEF With, Ready, Identified
  <2>2. /\ cmd' \in Commands /\ cmd'.op = cmd.op /\ cmd'.status = cmd.status
        /\ \/ cmd.todo \ {p} = {} /\ cmd'.pc = "fresh" /\ cmd'.todo = Selected
           \/ cmd.todo \ {p} # {} /\ cmd'.pc = "admit" /\ cmd'.todo = cmd.todo \ {p}
    BY <1>0, <1>1, AfterIs
  <2>3. TypeOK' /\ Shapes'
    BY <1>a, <2>2 DEF IInv, TypeOK, Shapes, Commands
  <2>4. ToldApart'
    BY <1>0, <1>a, <2>2 DEF IInv, ToldApart, Answered
  <2>5. p \in DOMAIN loaded
    BY <1>0 DEF IInv, ToldApart
  <2>6. Known'
    BY <1>0, <1>a, <2>1, <2>2, <2>5 DEF IInv, Known, Answered, Admitted
  <2>7. RowsOf'
    BY <1>0, <1>a, <2>2 DEF IInv, RowsOf, Answered, Admitted
  <2>8. WorkedOn' /\ Asked'
    BY <1>0, <1>a, <2>2 DEF IInv, WorkedOn, Asked, NoFile
  <2>9. AnswerTrue' /\ RepliesCurrent'
    BY <1>0, <1>a, <2>2 DEF IInv, AnswerTrue, RepliesCurrent, Asked
  <2> QED BY <2>3, <2>4, <2>6, <2>7, <2>8, <2>9 DEF IInv
<1>2. CASE Finish("refused") /\ UNCHANGED admitted
  BY <1>0, <1>2, Refusing
<1> QED BY <1>1, <1>2 DEF Seen, Admit

\* run_fleet_operation compares once more, and queues.
LEMMA ReadmitKeeps ==
  ASSUME IInv, NEW p \in Projects, Seen(Readmit(p))  PROVE IInv'
<1>0. /\ UNCHANGED <<world, registry, loaded, admitted, reply, history, bounds>>
      /\ cmd.pc = "fresh" /\ cmd \in Commands /\ current' = current \cup Live'
      /\ worked = NoFile /\ Selected \subseteq Projects
  BY DEF Shapes, Seen, Readmit, IInv, WorkedOn, TypeOK
<1>a. UNCHANGED <<at, manifest, pending, git, graph, entry, syncing, loaded, admitted,
                  reply, worked, rewritten, regit, edits, works, failures>>
  BY <1>0 DEF world, registry, history, bounds
<1>1. CASE After(p, IF cmd.op = "query" THEN "status" ELSE "run")
           /\ row' = [row EXCEPT ![p] = "queued"]
  <2>1. /\ Selected' = Selected /\ \A q \in Selected : q # p => row'[q] = row[q]
        /\ p \in Selected => row'[p] = "queued"
    BY <1>1 DEF Selected
  <2>2. /\ cmd' \in Commands /\ cmd'.op = cmd.op /\ cmd'.status = cmd.status
        /\ \/ /\ cmd.todo \ {p} = {} /\ cmd'.todo = Selected
              /\ cmd'.pc = IF cmd.op = "query" THEN "status" ELSE "run"
           \/ cmd.todo \ {p} # {} /\ cmd'.pc = "fresh" /\ cmd'.todo = cmd.todo \ {p}
    BY <1>0, <1>1, AfterIs
  <2>3. TypeOK' /\ Shapes'
    BY <1>a, <2>1, <2>2 DEF IInv, TypeOK, Shapes, Commands, Rows
  <2>4. ToldApart' /\ Known'
    BY <1>0, <1>a, <2>1, <2>2 DEF IInv, ToldApart, Known, Answered, Admitted
  <2>5. RowsOf'
    BY <1>0, <2>1, <2>2 DEF IInv, RowsOf, Answered, Admitted
  <2>6. WorkedOn' /\ Asked'
    BY <1>0, <1>a, <2>1, <2>2 DEF IInv, WorkedOn, Asked, NoFile, RowsOf
  <2>7. AnswerTrue' /\ RepliesCurrent'
    BY <1>0, <1>a, <2>2 DEF IInv, AnswerTrue, RepliesCurrent, Asked
  <2> QED BY <2>3, <2>4, <2>5, <2>6, <2>7 DEF IInv
<1>2. CASE Finish("refused") /\ UNCHANGED row
  BY <1>0, <1>2, Refusing
<1> QED BY <1>1, <1>2 DEF Seen, Readmit

-------------------------------------------------------------------------------
(* The pool.  A step of it moves one row, from queued or from working.       *)
\* A thread takes a queued project, on which nobody has worked.
LEMMA TakeKeeps ==
  ASSUME IInv, NEW p \in Projects, Seen(Take(p))  PROVE IInv'
<1>0. /\ cmd.pc = "run" /\ current' = current \cup Live' /\ p \in Selected /\ row[p] = "queued"
      /\ UNCHANGED <<at, manifest, pending, git, graph, entry, syncing, cmd, loaded, admitted,
                     reply, worked, rewritten, regit, edits, works, failures>>
  BY DEF Seen, Take, Queued, world, registry, history, bounds
<1>1. /\ Selected' = Selected /\ \A q \in Selected : q # p => row'[q] = row[q]
      /\ row'[p] \in {"init_recovery_required", "working", "changed"}
  BY <1>0 DEF Selected, Seen, Take
<1>2. TypeOK' /\ Shapes'
  BY <1>0, <1>1 DEF IInv, TypeOK, Shapes, Rows
<1>3. ToldApart' /\ Known'
  BY <1>0, <1>1 DEF IInv, ToldApart, Known, Answered, Admitted
<1>4. RowsOf'
  BY <1>0, <1>1 DEF IInv, RowsOf, Answered, Admitted
<1>5. WorkedOn' /\ Asked'
  BY <1>0, <1>1 DEF IInv, WorkedOn, Asked, NoFile
<1>6. AnswerTrue' /\ RepliesCurrent'
  BY <1>0 DEF IInv, AnswerTrue, RepliesCurrent, Asked
<1> QED BY <1>2, <1>3, <1>4, <1>5, <1>6 DEF IInv

\* Whatever the operation does to the registry or to its own graph.
LEMMA DoesIs ==
  ASSUME IInv, NEW p \in Projects, p \in DOMAIN loaded, Does(p)
  PROVE  /\ graph' \in [Dirs -> Nat] /\ DOMAIN entry' \subseteq Projects /\ syncing' = syncing
         /\ cmd.op = "inspect" => registry' = registry
<1>1. /\ graph \in [Dirs -> Nat] /\ DOMAIN entry \subseteq Projects /\ loaded[p].uid \in Projects
      /\ at[p] \in Dirs
  BY DEF IInv, TypeOK, Shapes
<1>2. CASE graph' = [graph EXCEPT ![at[p]] = @ + 1] /\ UNCHANGED <<entry, syncing>>
           /\ cmd.op # "inspect"
  BY <1>1, <1>2
<1>3. CASE entry' = With(entry, loaded[p].uid, GraphOf(at[p])) /\ UNCHANGED <<graph, syncing>>
           /\ cmd.op # "inspect"
  BY <1>1, <1>3 DEF With
<1>4. CASE UNCHANGED registry
  BY <1>1, <1>4 DEF registry
<1>5. CASE cmd.op \in {"refresh", "pull"}
  <2>1. \/ graph' = [graph EXCEPT ![at[p]] = @ + 1] /\ UNCHANGED <<entry, syncing>>
        \/ UNCHANGED registry
    BY <1>5 DEF Does
  <2> QED BY <1>2, <1>4, <1>5, <2>1
<1>6. CASE cmd.op = "registry-sync"
  <2>1. entry' = With(entry, loaded[p].uid, GraphOf(at[p])) /\ UNCHANGED <<graph, syncing>>
    BY <1>6 DEF Does
  <2> QED BY <1>3, <1>6, <2>1
<1>7. CASE cmd.op \notin {"refresh", "pull", "registry-sync"}
  <2>1. UNCHANGED registry
    BY <1>7 DEF Does
  <2> QED BY <1>4, <2>1
<1> QED BY <1>5, <1>6, <1>7

\* A runner works where the project was opened.
LEMMA RunKeeps ==
  ASSUME IInv, NEW p \in Projects, Seen(Run(p))  PROVE IInv'
<1>0. /\ cmd.pc = "run" /\ current' = current \cup Live' /\ p \in Selected /\ row[p] = "working"
      /\ p \notin DOMAIN worked /\ Holds(p) /\ Does(p) /\ rewritten' = rewritten \ {p}
      /\ UNCHANGED <<at, manifest, pending, git, cmd, loaded, admitted, row, reply, regit,
                     edits, works, failures>>
  BY DEF Seen, Run, Reading, Working, world, bounds
<1>1. Selected' = Selected
  BY <1>0 DEF Selected
<1>2. p \in DOMAIN loaded
  BY <1>0 DEF IInv, ToldApart
<1>3. /\ DOMAIN worked' = DOMAIN worked \cup {p}
      /\ worked'[p].dir = loaded[p].dir /\ worked'[p].git = git[loaded[p].dir]
      /\ worked'[p].did <=> registry' # registry
      /\ \A q \in DOMAIN worked : q # p => worked'[q] = worked[q]
  <2> DEFINE at_work == [dir |-> at[p], git |-> git[at[p]], did |-> registry' # registry]
  <2>1. worked' = With(worked, p, at_work)
    BY DEF Seen, Run
  <2>2. /\ DOMAIN worked' = DOMAIN worked \cup {p} /\ worked'[p] = at_work
        /\ \A q \in DOMAIN worked : q # p => worked'[q] = worked[q]
    <3> HIDE DEF at_work
    <3> QED BY <2>1 DEF With
  <2>3. worked'[p].did = (registry' # registry)
    BY <2>2
  <2>4. worked'[p].dir = loaded[p].dir /\ worked'[p].git = git[loaded[p].dir]
    BY <1>0, <2>2 DEF Holds, Bound
  <2> HIDE DEF at_work
  <2> QED BY <1>0, <2>2, <2>3, <2>4
<1>4. /\ graph' \in [Dirs -> Nat] /\ DOMAIN entry' \subseteq Projects /\ syncing' = syncing
      /\ cmd.op = "inspect" => registry' = registry
  BY <1>0, <1>2, DoesIs
<1>5. TypeOK' /\ Shapes'
  BY <1>0, <1>1, <1>4 DEF IInv, TypeOK, Shapes, Rows
<1>6. ToldApart' /\ Known'
  BY <1>0, <1>1 DEF IInv, ToldApart, Known, Answered, Admitted
<1>7. RowsOf'
  BY <1>0, <1>1 DEF IInv, RowsOf, Answered, Admitted
<1>8. WorkedOn'
  <2>1. /\ cmd.op # "query" /\ (regit \/ worked'[p].git = loaded[p].git)
        /\ worked'[p].did => cmd.op # "inspect"
    BY <1>0, <1>2, <1>3, <1>4 DEF IInv, RowsOf, ToldApart
  <2>2. \A q \in DOMAIN worked : q # p /\ worked'[q] = worked[q]
    BY <1>0, <1>3
  <2>3. \A q \in DOMAIN worked' :
          /\ q \in Selected'
          /\ row'[q] \in {"working", "ok", "changed", "operation_failed", "result_invalid"}
          /\ worked'[q].dir = loaded'[q].dir
          /\ regit' \/ worked'[q].git = loaded'[q].git
          /\ worked'[q].did => cmd'.op # "inspect"
          /\ row'[q] = "changed" /\ worked'[q].did =>
               cmd'.op = "registry-sync" /\ q \in rewritten'
    <3> TAKE q \in DOMAIN worked'
    <3>1. CASE q = p
      BY <1>0, <1>1, <1>3, <2>1, <3>1
    <3>2. CASE q # p
      <4>1. q \in DOMAIN worked /\ worked'[q] = worked[q] /\ (q \in rewritten' <=> q \in rewritten)
        BY <1>0, <1>3, <2>2, <3>2
      <4> QED BY <1>0, <1>1, <4>1 DEF IInv, WorkedOn
    <3> QED BY <3>1, <3>2
  <2>4. \A q \in Selected' : row'[q] \in {"ok", "result_invalid"} => q \in DOMAIN worked'
    BY <1>0, <1>1, <1>3 DEF IInv, WorkedOn
  <2> QED BY <1>0, <2>1, <2>3, <2>4 DEF WorkedOn
<1>9. Asked'
  BY <1>0 DEF IInv, Asked
<1>10. AnswerTrue' /\ RepliesCurrent'
  BY <1>0 DEF IInv, AnswerTrue, RepliesCurrent, Asked
<1> QED BY <1>5, <1>6, <1>7, <1>8, <1>9, <1>10 DEF IInv

\* The row of a runner that raises or answers: it does not claim work that was not
\* done, and a change after work is a sync's, for its manifest was written since.
LEMMA RowKeeps ==
  ASSUME IInv, NEW p \in Projects, cmd.pc = "run", current' = current \cup Live',
         p \in Selected, row[p] = "working",
         NEW code \in {"ok", "changed", "operation_failed", "result_invalid"},
         row' = [row EXCEPT ![p] = code],
         code \in {"ok", "result_invalid"} => p \in DOMAIN worked,
         code = "changed" /\ p \in DOMAIN worked /\ worked[p].did =>
           cmd.op = "registry-sync" /\ p \in rewritten,
         failures' \in 0 .. MaxFailures,
         UNCHANGED <<world, registry, cmd, loaded, admitted, reply, history, edits, works>>
  PROVE  IInv'
<1>0. UNCHANGED <<at, manifest, pending, git, graph, entry, syncing, cmd, loaded, admitted,
                  reply, worked, rewritten, regit, edits, works>>
  BY DEF world, registry, history
<1>1. Selected' = Selected /\ row'[p] = code /\ \A q \in Selected : q # p => row'[q] = row[q]
  BY DEF Selected
<1>2. TypeOK' /\ Shapes'
  BY <1>0, <1>1 DEF IInv, TypeOK, Shapes, Rows
<1>3. ToldApart' /\ Known'
  BY <1>0, <1>1 DEF IInv, ToldApart, Known, Answered, Admitted
<1>4. RowsOf'
  BY <1>0, <1>1 DEF IInv, RowsOf, Answered, Admitted
<1>5. WorkedOn' /\ Asked'
  BY <1>0, <1>1 DEF IInv, WorkedOn, Asked, NoFile
<1>6. AnswerTrue' /\ RepliesCurrent'
  BY <1>0 DEF IInv, AnswerTrue, RepliesCurrent, Asked
<1> QED BY <1>2, <1>3, <1>4, <1>5, <1>6 DEF IInv

\* A runner that raises before it works leaves a row that does not claim work.
LEMMA RunFailsKeeps ==
  ASSUME IInv, NEW p \in Projects, Seen(RunFails(p))  PROVE IInv'
<1>1. /\ cmd.pc = "run" /\ current' = current \cup Live' /\ p \in Selected /\ row[p] = "working"
      /\ p \notin DOMAIN worked /\ failures' \in 0 .. MaxFailures
      /\ UNCHANGED <<world, registry, cmd, loaded, admitted, reply, history, edits, works>>
  BY FleetAssumption DEF IInv, TypeOK, Seen, RunFails, Reading, Working
<1>2. PICK code \in {"changed", "operation_failed"} : row' = [row EXCEPT ![p] = code]
  BY DEF Seen, RunFails
<1> QED BY <1>1, <1>2, RowKeeps

\* One that has worked answers or raises.
LEMMA RunEndsKeeps ==
  ASSUME IInv, NEW p \in Projects, Seen(RunEnds(p))  PROVE IInv'
<1>1. /\ cmd.pc = "run" /\ current' = current \cup Live' /\ p \in Selected /\ row[p] = "working"
      /\ p \in DOMAIN worked /\ failures' \in 0 .. MaxFailures
      /\ UNCHANGED <<world, registry, cmd, loaded, admitted, reply, history, edits, works>>
  BY FleetAssumption DEF IInv, TypeOK, Seen, RunEnds, Ending, Working
<1>2. CASE row' = [row EXCEPT ![p] = IF Rechecked(p) THEN "changed" ELSE "ok"]
  <2>1. Rechecked(p) /\ worked[p].did => cmd.op = "registry-sync" /\ p \in rewritten
    BY <1>1 DEF Rechecked, IInv, WorkedOn
  <2> QED BY <1>1, <1>2, <2>1, RowKeeps
<1>3. CASE \E code \in {"operation_failed", "result_invalid"} : row' = [row EXCEPT ![p] = code]
  BY <1>1, <1>3, RowKeeps
<1> QED BY <1>2, <1>3 DEF Seen, RunEnds

\* The aggregate is taken when every row is an answer, and is that of the rows.
LEMMA AggregateKeeps ==
  ASSUME IInv, Seen(Aggregate)  PROVE IInv'
<1> DEFINE status == IF Failed = {} THEN "ok"
                     ELSE IF Failed = Selected THEN "failed" ELSE "partial_failure"
<1>0. /\ cmd.pc = "run" /\ cmd \in Commands /\ current' = current \cup Live'
      /\ Queued \cup Working = {}
      /\ UNCHANGED <<at, manifest, pending, git, graph, entry, syncing, loaded, admitted,
                     row, reply, worked, rewritten, regit, edits, works, failures>>
      /\ Selected' = Selected /\ Failed' = Failed
  BY DEF IInv, Shapes, Seen, Aggregate, world, registry, history, bounds, Selected, Failed
<1>1. cmd' \in Commands /\ cmd'.op = cmd.op /\ cmd'.pc = "done" /\ cmd'.todo = {}
      /\ cmd'.status = status /\ status \in {"ok", "failed", "partial_failure"}
  <2>1. status \in {"ok", "failed", "partial_failure"} /\ status \in Statuses
    BY DEF Statuses
  <2>2. Finish(status)
    BY DEF Seen, Aggregate
  <2> QED BY <1>0, <2>1, <2>2, FinishIs
<1>2. \A p \in Selected : row[p] \in Errors \cup {"ok"}
  BY <1>0 DEF IInv, TypeOK, RowsOf, Queued, Working, Errors, Rows
<1>3. cmd.op # "query" /\ Selected # {} /\ Selected \subseteq DOMAIN admitted
      /\ Projects \subseteq DOMAIN loaded
  BY <1>0 DEF IInv, RowsOf, Admitted, Known, ToldApart
<1>4. TypeOK' /\ Shapes'
  BY <1>0, <1>1 DEF IInv, TypeOK, Shapes, Commands
<1>5. ToldApart' /\ Known'
  BY <1>0, <1>1, <1>3 DEF IInv, ToldApart, Known, Answered, Admitted
<1>6. RowsOf'
  BY <1>0, <1>1, <1>3 DEF IInv, RowsOf, Answered, Admitted
<1>7. WorkedOn' /\ Asked'
  <2> HIDE DEF status
  <2>1. WorkedOn'
    BY <1>0, <1>1, <1>3 DEF IInv, WorkedOn
  <2>2. Asked'
    BY <1>0, <1>1 DEF IInv, Asked
  <2> QED BY <2>1, <2>2
<1>8. AnswerTrue'
  <2>1. \A p \in Selected :
          /\ row[p] \in {"ok", "result_invalid"} => p \in DOMAIN worked
          /\ row[p] = "init_recovery_required" => p \notin DOMAIN worked
          /\ p \in DOMAIN worked =>
               /\ worked[p].dir = loaded[p].dir
               /\ row[p] = "changed" /\ worked[p].did =>
                    cmd.op = "registry-sync" /\ p \in rewritten
    BY <1>0 DEF IInv, WorkedOn
  <2>2. (status = "ok" <=> Failed = {}) /\ (status = "failed" <=> Failed = Selected)
    BY <1>3
  <2> HIDE DEF status
  <2> QED BY <1>0, <1>1, <1>2, <1>3, <2>1, <2>2 DEF AnswerTrue
<1>9. RepliesCurrent'
  BY <1>0 DEF IInv, RepliesCurrent, Asked
<1> QED BY <1>4, <1>5, <1>6, <1>7, <1>8, <1>9 DEF IInv

-------------------------------------------------------------------------------
(* A query.                                                                  *)
\* registry_status finds current only an entry that is the graph of its directory.
LEMMA StatusKeeps ==
  ASSUME IInv, NEW p \in Projects, Seen(Status(p))  PROVE IInv'
<1>0. /\ UNCHANGED <<world, registry, loaded, admitted, reply, history, bounds>>
      /\ cmd.pc = "status" /\ cmd \in Commands /\ current' = current \cup Live'
      /\ worked = NoFile /\ Selected \subseteq Projects /\ cmd.op = "query"
  BY DEF Shapes, Seen, Status, IInv, WorkedOn, TypeOK, RowsOf
<1>a. UNCHANGED <<at, manifest, pending, git, graph, entry, syncing, loaded, admitted,
                  reply, worked, rewritten, regit, edits, works, failures>>
  BY <1>0 DEF world, registry, history, bounds
<1>1. CASE /\ row' = [row EXCEPT ![p] = IF IsCurrent(p) THEN "ok" ELSE "not_current"]
           /\ After(p, "capture")
  <2>1. /\ Selected' = Selected /\ \A q \in Selected : q # p => row'[q] = row[q]
        /\ p \in Selected => row'[p] = IF IsCurrent(p) THEN "ok" ELSE "not_current"
    BY <1>1 DEF Selected
  <2>2. /\ cmd' \in Commands /\ cmd'.op = cmd.op /\ cmd'.status = cmd.status
        /\ \/ cmd.todo \ {p} = {} /\ cmd'.todo = Selected /\ cmd'.pc = "capture"
           \/ cmd.todo \ {p} # {} /\ cmd'.pc = "status" /\ cmd'.todo = cmd.todo \ {p}
    BY <1>0, <1>1, AfterIs
  <2>3. TypeOK' /\ Shapes'
    BY <1>a, <2>1, <2>2 DEF IInv, TypeOK, Shapes, Commands, Rows
  <2>4. ToldApart' /\ Known'
    BY <1>0, <1>a, <2>1, <2>2 DEF IInv, ToldApart, Known, Answered, Admitted
  <2>5. RowsOf'
    BY <1>0, <2>1, <2>2 DEF IInv, RowsOf, Answered, Admitted
  <2>6. WorkedOn'
    BY <1>0, <1>a, <2>1, <2>2 DEF IInv, WorkedOn, NoFile
  <2>7. Asked'
    <3>1. IsCurrent(p) => /\ loaded[p].uid \in DOMAIN entry
                          /\ <<loaded[p].uid, entry[loaded[p].uid]>> \in Live
      <4> DEFINE u == loaded[p].uid
      <4> SUFFICES ASSUME IsCurrent(p)
                   PROVE  u \in DOMAIN entry /\ <<u, entry[u]>> \in Live
        OBVIOUS
      <4>1. u \in DOMAIN entry /\ entry[u] = GraphOf(at[p])
        BY DEF IsCurrent
      <4>2. GraphOf(at[p])[1] = at[p]
        BY DEF GraphOf
      <4>3. entry[u] = GraphOf(entry[u][1])
        BY <4>1, <4>2
      <4> HIDE DEF u
      <4> QED BY <4>1, <4>3, Zenon DEF Live
    <3>2. Live \subseteq current /\ Live' \subseteq current' /\ current \subseteq current'
      BY <1>0 DEF IInv, Asked
    <3>3. \A q \in Selected : row'[q] = "ok" =>
            /\ loaded[q].uid \in DOMAIN entry
            /\ <<loaded[q].uid, entry[loaded[q].uid]>> \in current'
      <4> TAKE q \in Selected
      <4>1. CASE q = p
        BY <2>1, <3>1, <3>2, <4>1
      <4>2. CASE q # p
        BY <1>0, <2>1, <3>2, <4>2 DEF IInv, Asked
      <4> QED BY <4>1, <4>2
    <3> QED BY <1>0, <1>a, <2>1, <2>2, <3>2, <3>3 DEF IInv, Asked
  <2>8. AnswerTrue' /\ RepliesCurrent'
    BY <1>0, <1>a, <2>2 DEF IInv, AnswerTrue, RepliesCurrent, Asked
  <2> QED BY <2>3, <2>4, <2>5, <2>6, <2>7, <2>8 DEF IInv
<1>2. CASE Finish("refused") /\ UNCHANGED row
  BY <1>0, <1>2, Refusing
<1> QED BY <1>1, <1>2 DEF Seen, Status

\* The answer of a query: what NotCurrent and Capture have in common.
LEMMA AnswersQuery ==
  ASSUME IInv, cmd.pc = "capture", current' = current \cup Live',
         NEW status \in {"ok", "failed"}, Finish(status),
         status = "ok" <=> Failed = {},
         UNCHANGED <<at, manifest, pending, git, graph, entry, syncing, loaded, admitted,
                     row, worked, rewritten, regit, edits, works, failures>>,
         RepliesCurrent'
  PROVE  IInv'
<1>1. cmd' \in Commands /\ cmd'.op = cmd.op /\ cmd'.pc = "done" /\ cmd'.todo = {}
      /\ cmd'.status = status
  BY FinishIs DEF IInv, Shapes, Statuses
<1>2. /\ Selected' = Selected /\ Failed' = Failed /\ worked = NoFile /\ cmd.op = "query"
      /\ Selected # {} /\ \A p \in Selected : row[p] \in {"ok", "not_current"}
  BY DEF Selected, Failed, IInv, WorkedOn, RowsOf, Admitted
<1>4. TypeOK' /\ Shapes'
  BY <1>1, <1>2 DEF IInv, TypeOK, Shapes, Commands
<1>5. ToldApart' /\ Known'
  BY <1>1, <1>2 DEF IInv, ToldApart, Known, Answered, Admitted
<1>6. RowsOf'
  BY <1>1, <1>2 DEF IInv, RowsOf, Answered, Admitted
<1>7. WorkedOn' /\ Asked'
  BY <1>1, <1>2 DEF IInv, WorkedOn, Asked, NoFile
<1>8. AnswerTrue'
  BY <1>1, <1>2 DEF AnswerTrue, Errors, Rows, NoFile
<1> QED BY <1>4, <1>5, <1>6, <1>7, <1>8 DEF IInv

\* A query with a row that is not current fails, and replies nothing.
LEMMA NotCurrentKeeps ==
  ASSUME IInv, Seen(NotCurrent)  PROVE IInv'
<1>1. /\ cmd.pc = "capture" /\ current' = current \cup Live' /\ Failed # {} /\ Finish("failed")
      /\ UNCHANGED <<at, manifest, pending, git, graph, entry, syncing, loaded, admitted,
                     row, reply, worked, rewritten, regit, edits, works, failures>>
  BY DEF Seen, NotCurrent, world, registry, history, bounds
<1>2. RepliesCurrent'
  BY <1>1 DEF IInv, Asked, RepliesCurrent
<1> QED BY <1>1, <1>2, AnswersQuery

\* capture_registry_snapshot replies with entries that were found current, or that
\* a sync has replaced by what was current then.
LEMMA CaptureKeeps ==
  ASSUME IInv, Seen(Capture)  PROVE IInv'
<1>0. /\ cmd.pc = "capture" /\ current' = current \cup Live' /\ Failed = {} /\ worked = NoFile
      /\ UNCHANGED <<world, registry, loaded, admitted, row, history, bounds>>
  BY DEF Seen, Capture, IInv, WorkedOn
<1>1. CASE reply' = [p \in Selected |-> entry[loaded[p].uid]] /\ Finish("ok")
  <2>1. UNCHANGED <<at, manifest, pending, git, graph, entry, syncing, loaded, admitted,
                    row, worked, rewritten, regit, edits, works, failures>>
    BY <1>0 DEF world, registry, history, bounds
  <2>2. \A p \in Selected : row[p] = "ok"
    BY <1>0 DEF IInv, RowsOf, Failed, Errors, Rows
  <2>3. RepliesCurrent'
    BY <1>0, <1>1, <2>1, <2>2 DEF RepliesCurrent, IInv, Asked
  <2> QED BY <1>0, <1>1, <2>1, <2>3, AnswersQuery
<1>2. CASE Finish("refused") /\ UNCHANGED reply
  BY <1>0, <1>2, Refusing
<1> QED BY <1>1, <1>2 DEF Seen, Capture

-------------------------------------------------------------------------------
(* Meanwhile.                                                                *)
\* What the user moves or edits is not what the command remembers.
LEMMA EditKeeps ==
  ASSUME IInv, Seen(Edit)  PROVE IInv'
<1>0. /\ cmd.pc # "done" /\ current' = current \cup Live'
      /\ UNCHANGED <<graph, entry, syncing, cmd, loaded, admitted, row, reply, worked, works,
                     failures>>
      /\ Selected' = Selected
  BY DEF Seen, Edit, registry, Selected
<1>1. /\ at' \in [Projects -> Dirs] /\ pending' \subseteq Dirs /\ git' \in [Dirs -> Dirs]
      /\ manifest' \in [Dirs -> [id: Projects, uid: Projects, rev: Nat]]
      /\ regit' \/ (UNCHANGED <<git, regit>>)
      /\ rewritten \subseteq rewritten'
  <2> /\ at \in [Projects -> Dirs] /\ pending \subseteq Dirs /\ git \in [Dirs -> Dirs]
      /\ manifest \in [Dirs -> [id: Projects, uid: Projects, rev: Nat]]
      /\ UserManifests \subseteq [id: Projects, uid: Projects, rev: Nat]
    BY FleetAssumption DEF IInv, TypeOK
  <2>1. CASE /\ \E p \in Projects : \E d \in Dirs \ {at[p]} :
                  at' = [q \in Projects |-> IF q = p THEN d
                                            ELSE IF at[q] = d THEN at[p] ELSE at[q]]
             /\ UNCHANGED <<manifest, pending, git, rewritten, regit>>
    <3>1. PICK p \in Projects, d \in Dirs :
            at' = [q \in Projects |-> IF q = p THEN d ELSE IF at[q] = d THEN at[p] ELSE at[q]]
      BY <2>1
    <3>2. \A q \in Projects : at[q] \in Dirs
      OBVIOUS
    <3>3. at' \in [Projects -> Dirs]
      BY <3>1, <3>2
    <3> QED BY <2>1, <3>3
  <2>2. CASE /\ \E d \in Dirs : \E m \in UserManifests :
                  /\ manifest' = [manifest EXCEPT ![d] = m]
                  /\ rewritten' = rewritten \cup Open(d)
             /\ UNCHANGED <<at, pending, git, regit>>
    BY <2>2
  <2>3. CASE /\ \E d \in Dirs : pending' = IF d \in pending THEN pending \ {d}
                                           ELSE pending \cup {d}
             /\ UNCHANGED <<at, manifest, git, rewritten, regit>>
    BY <2>3
  <2>4. CASE /\ \E d, e \in Dirs : d # e /\ git[d] # git[e] /\ git' = [git EXCEPT ![d] = git[e]]
             /\ regit' = TRUE
             /\ UNCHANGED <<at, manifest, pending, rewritten>>
    BY <2>4
  <2> QED BY <2>1, <2>2, <2>3, <2>4 DEF Seen, Edit
<1>2. edits' \in 0 .. MaxEdits
  BY FleetAssumption DEF Seen, Edit, IInv, TypeOK
<1>3. TypeOK' /\ Shapes'
  BY <1>0, <1>1, <1>2 DEF IInv, TypeOK, Shapes
<1>4. ToldApart' /\ Known' /\ RowsOf'
  BY <1>0, <1>1 DEF IInv, ToldApart, Known, RowsOf, Answered, Admitted
<1>5. WorkedOn'
  BY <1>0, <1>1 DEF IInv, WorkedOn
<1>6. Asked' /\ AnswerTrue' /\ RepliesCurrent'
  BY <1>0 DEF IInv, Asked, AnswerTrue, RepliesCurrent
<1> QED BY <1>3, <1>4, <1>5, <1>6 DEF IInv

\* Other commands touch neither the world nor the command.
LEMMA ElsewhereKeeps ==
  ASSUME IInv, current' = current \cup Live',
         UNCHANGED <<world, cmd, loaded, admitted, row, reply, history>>,
         UNCHANGED <<edits, failures>>, works' \in 0 .. MaxWorks,
         graph' \in [Dirs -> Nat], DOMAIN entry \subseteq DOMAIN entry',
         DOMAIN entry' \subseteq Projects,
         syncing' = None \/ syncing' \in [dir: Dirs, uid: Projects],
         \A u \in DOMAIN entry : entry'[u] = entry[u] \/ <<u, entry'[u]>> \in Live'
  PROVE  IInv'
<1>0. UNCHANGED <<at, manifest, pending, git, worked, rewritten, regit, Selected, Failed>>
  BY DEF world, history, Selected, Failed
<1>1. TypeOK' /\ Shapes'
  BY <1>0 DEF IInv, TypeOK, Shapes
<1>2. ToldApart' /\ Known' /\ RowsOf'
  BY <1>0 DEF IInv, ToldApart, Known, RowsOf, Answered, Admitted
<1>3. WorkedOn' /\ AnswerTrue'
  BY <1>0 DEF IInv, WorkedOn, AnswerTrue
<1>4. Asked' /\ RepliesCurrent'
  BY <1>0 DEF IInv, Asked, RepliesCurrent
<1> QED BY <1>1, <1>2, <1>3, <1>4 DEF IInv

\* Another command enters only what is current when it does.
LEMMA OthersKeep ==
  ASSUME IInv, Seen(Others)  PROVE IInv'
<1>0. /\ graph \in [Dirs -> Nat] /\ DOMAIN entry \subseteq Projects /\ works \in 0 .. MaxWorks
      /\ manifest \in [Dirs -> [id: Projects, uid: Projects, rev: Nat]]
      /\ syncing = None \/ syncing \in [dir: Dirs, uid: Projects]
      /\ MaxWorks \in Nat /\ current' = current \cup Live'
  BY FleetAssumption DEF IInv, TypeOK, Shapes, Seen
<1>1. CASE Edit
  BY <1>1, EditKeeps DEF Seen
<1>2. CASE SyncEnds
  <2>1. PICK d \in Dirs, u \in Projects : syncing = [dir |-> d, uid |-> u]
    BY <1>0, <1>2 DEF SyncEnds
  <2>2. /\ syncing' = None
        /\ UNCHANGED <<world, graph, cmd, loaded, admitted, row, reply, history, bounds>>
        /\ entry' = With(entry, u, GraphOf(d)) \/ UNCHANGED entry
    BY <1>2, <2>1 DEF SyncEnds
  <2>3. GraphOf(d)' = GraphOf(d) /\ GraphOf(d)[1] = d
    BY <2>2 DEF GraphOf
  <2>4. /\ DOMAIN entry \subseteq DOMAIN entry' /\ DOMAIN entry' \subseteq Projects
        /\ \A v \in DOMAIN entry : \/ entry'[v] = entry[v]
                                   \/ v \in DOMAIN entry' /\ entry'[v] = GraphOf(d)
    <3>1. CASE entry' = entry
      BY <1>0, <3>1
    <3>2. CASE entry' = With(entry, u, GraphOf(d))
      BY <1>0, <3>2 DEF With
    <3> QED BY <2>2, <3>1, <3>2
  <2>5. \A v \in DOMAIN entry : entry'[v] = entry[v] \/ <<v, entry'[v]>> \in Live'
    <3> SUFFICES ASSUME NEW v \in DOMAIN entry, v \in DOMAIN entry', entry'[v] = GraphOf(d)
                 PROVE  <<v, entry'[v]>> \in Live'
      BY <2>4
    <3>1. (entry[v] = GraphOf(entry[v][1]))'
      BY <2>2 DEF GraphOf
    <3> QED BY <3>1, Zenon DEF Live
  <2> QED BY <1>0, <2>2, <2>4, <2>5, ElsewhereKeeps DEF bounds
<1>3. ASSUME NEW d \in Dirs, Refresh(d)  PROVE IInv'
  <2>1. /\ UNCHANGED <<world, entry, syncing, cmd, loaded, admitted, row, reply, history,
                       edits, failures>>
        /\ graph' \in [Dirs -> Nat] /\ works' \in 0 .. MaxWorks
    BY <1>0, <1>3 DEF Refresh
  <2> QED BY <1>0, <2>1, ElsewhereKeeps
<1>4. ASSUME NEW d \in Dirs, SyncBegins(d)  PROVE IInv'
  <2>1. /\ UNCHANGED <<world, graph, entry, cmd, loaded, admitted, row, reply, history,
                       edits, failures>>
        /\ works' \in 0 .. MaxWorks /\ syncing' \in [dir: Dirs, uid: Projects]
    BY <1>0, <1>4 DEF SyncBegins
  <2> QED BY <1>0, <2>1, ElsewhereKeeps
<1> QED BY <1>1, <1>2, <1>3, <1>4 DEF Seen, Others

-------------------------------------------------------------------------------
\* Every step keeps the invariant.
LEMMA NextKeeps ==
  ASSUME IInv, Next  PROVE IInv'
<1>1. CASE Seen(Others)
  BY <1>1, OthersKeep
<1>2. CASE Seen(Coordinator)
  BY <1>2, SelectKeeps, AggregateKeeps, NotCurrentKeeps, CaptureKeeps DEF Seen, Coordinator
<1>3. ASSUME NEW p \in Projects, Seen(Command(p))  PROVE IInv'
  BY <1>3, LoadKeeps, AdmitKeeps, ReadmitKeeps, TakeKeeps, StatusKeeps DEF Seen, Command
<1>4. ASSUME NEW p \in Projects, Seen(Runner(p))  PROVE IInv'
  BY <1>4, RunKeeps, RunFailsKeeps, RunEndsKeeps DEF Seen, Runner
<1> QED BY <1>1, <1>2, <1>3, <1>4 DEF Next, Fleet, Seen

\* So does a step that changes nothing.
LEMMA StutterKeeps ==
  ASSUME IInv, UNCHANGED vars  PROVE IInv'
<1>0. UNCHANGED <<at, manifest, pending, git, graph, entry, syncing, cmd, loaded, admitted, row,
                  reply, worked, rewritten, regit, current, edits, works, failures, Selected, Failed, Live>>
  BY DEF vars, world, registry, history, bounds, Selected, Failed, Live, GraphOf
<1>1. TypeOK' /\ Shapes'
  BY <1>0 DEF IInv, TypeOK, Shapes
<1>2. ToldApart' /\ Known' /\ RowsOf'
  BY <1>0 DEF IInv, ToldApart, Known, RowsOf, Answered, Admitted
<1>3. WorkedOn' /\ AnswerTrue'
  BY <1>0 DEF IInv, WorkedOn, AnswerTrue
<1>4. Asked' /\ RepliesCurrent'
  BY <1>0 DEF IInv, Asked, RepliesCurrent
<1> QED BY <1>1, <1>2, <1>3, <1>4 DEF IInv

\* Directories and uids were told apart when they were opened, and runners work
\* where they were opened: so they are apart.
LEMMA SetsApart ==
  ASSUME IInv  PROVE Apart
<1>1. DOMAIN worked # {} => Admitted
  BY DEF IInv, TypeOK, WorkedOn, Admitted, Answered, PCs, NoFile
<1>2. \A p \in DOMAIN worked : p \in DOMAIN admitted /\ p \in DOMAIN loaded
  BY <1>1 DEF IInv, WorkedOn, Known
<1> QED BY <1>2 DEF IInv, WorkedOn, ToldApart, Known, Apart

\* The invariant of the passes holds of every command, whatever is moved, edited
\* or synced between them.
THEOREM Invariant == Spec => []IInv
<1>1. Init => IInv
  BY StartsRight
<1>2. IInv /\ [Next]_vars => IInv'
  BY NextKeeps, StutterKeeps
<1> QED BY <1>1, <1>2, PTL DEF Spec

\* A fleet command tells the truth, no two runners of it meet in one directory
\* or under one uid, and a query answers with entries that were current.
THEOREM FleetSafe == Spec => []Inv
<1>1. IInv => Inv
  BY SetsApart DEF IInv, Inv
<1> QED BY Invariant, <1>1, PTL

-----------------------------------------------------------------------------
(* The configuration transaction.                                         *)

\* The document of a pair, and of a migration, in one of these phases.
IsInit(d, phases) == d \in Journals /\ d.kind = "init" /\ d.phase \in phases
IsMigration(d, phases) == d \in Journals /\ d.kind = "migration" /\ d.phase \in phases

\* Which documents, in memory and on disk, every program point works with.
Control ==
  /\ pc = "idle" => mode = "apply"
  /\ pc = "recover" => mode = "recovery"
  /\ pc \in {"idle", "recover"} => safe
  /\ pc \in {"idle", "recover", "rebind", "write_temps", "read_old"} => doc = Nothing
  /\ pc \in {"rebind", "write_temps", "read_old", "m_check"} \cup Unjournaled =>
       mode = "apply" /\ journal = Nothing
  /\ pc \in {"write_journal"} \cup Installing => IsInit(doc, {"prepared"})
  /\ pc \in {"m_check", "m_new", "m_journal", "m_recheck", "m_backup", "m_backed_up"} =>
       IsMigration(doc, {"prepared"})
  /\ pc \in {"m_install", "m_replaced"} => IsMigration(doc, {"backed_up"})
  /\ pc \in {"m_verify", "m_commit"} => IsMigration(doc, {"replaced"})
  /\ pc = "m_drop_backup" => IsMigration(doc, {"committed"})
  /\ pc \in Installing \cup Migrating => mode = "apply" /\ journal = doc
  /\ pc \in Undoing => /\ mode # "apply" /\ IsInit(doc, {"prepared"})
                       /\ IsInit(journal, {"prepared", "committed"})
  /\ pc \in Restoring => /\ mode # "apply" /\ IsMigration(doc, Phases)
                         /\ IsMigration(journal, Phases)
                         /\ doc.inode = journal.inode
                         /\ doc.old = journal.old /\ doc.new = journal.new
  /\ pc \in {"drop_manifest", "drop_ignore"} => IsInit(journal, {"prepared", "committed"})
  /\ pc \in Dropping => /\ mode \in {"apply", "recovery"}
                        /\ journal \in Journals /\ doc \in Journals
                        /\ mode = "apply" =>
                             /\ journal = [doc EXCEPT !.phase = "committed"]
                             /\ doc.kind = "init" => doc.phase = "prepared"
                             /\ doc.kind = "migration" => doc.phase = "committed"
  /\ mode = "recovery" /\ pc # "recover" => doc = journal
  /\ mode = "conflict" => doc = journal

\* The holder of the lock has a preview, of the kind of transaction it runs.
Shown ==
  /\ holder # Nothing => preview[holder] # Nothing
  /\ pc = "write_temps" => preview[holder].kind = "init"
  /\ pc = "read_old" => preview[holder].kind = "migration"

\* Two names have one file only as a file and the temporary it was linked from.
NamesApart == \A m, n \in Names :
  dirent[m] # Nothing /\ dirent[m] = dirent[n] =>
    \/ m = n
    \/ m \in Files /\ n = Temporary[m]
    \/ n \in Files /\ m = Temporary[n]

\* Names other than the two files are there only for the journal.
Leftovers ==
  /\ \/ IsMigration(journal, Phases)
     \/ dirent["migrate.backup"] = Nothing
  /\ \/ IsMigration(journal, Phases)
     \/ pc = "m_journal"
     \/ dirent["migrate.new"] = Nothing
  /\ \/ IsInit(journal, Phases)
     \/ pc = "write_journal"
     \/ \A f \in Files : dirent[Temporary[f]] = Nothing
  /\ pc \in {"m_recheck", "m_backup"} => dirent["migrate.backup"] = Nothing
  /\ pc \in {"drop_ignore", "drop_journal"} => dirent["init.manifest"] = Nothing
  /\ pc = "drop_journal" => \A n \in Names \ Files : dirent[n] = Nothing
  /\ pc \in {"m_replaced", "m_verify", "m_commit", "m_drop_backup", "r_backup"} =>
       dirent["migrate.new"] = Nothing
  /\ pc \in {"write_journal", "link_manifest", "check_manifest", "link_ignore",
             "check_ignore", "commit"} =>
       \A f \in Files : dirent[Temporary[f]] # Nothing

\* A program point behind which the manifest is in place.
Present ==
  /\ mode = "apply" /\ pc \in {"link_ignore", "check_ignore", "commit", "m_commit",
                               "m_drop_backup"} \cup Dropping =>
       dirent["manifest"] # Nothing /\ At("manifest").schema = 2
  /\ pc = "read_old" => dirent["manifest"] # Nothing
  /\ pc \in {"r_unlink", "r_rename"} => dirent["migrate.backup"] # Nothing
  /\ pc \in {"r_temporary", "r_backup"}
       \/ (pc = "drop_journal" /\ journal.kind = "migration") => dirent["manifest"] # Nothing
  /\ journal = Torn => deaths > 0

Structure == Control /\ Shown /\ NamesApart /\ Leftovers /\ Present

\* A document of a transaction whose texts nobody has written.
Plain(d) == d \in Journals => /\ d.old = 0 /\ d.new = 0
                              /\ d.kind = "init" => found = {}
                              /\ d.kind = "migration" => "manifest" \in found

\* The texts nobody has written, and the transactions there can be then.
Pristine ==
  /\ \A i \in Inodes : data[i].text = 0
  /\ "manifest" \notin found => \A i \in Inodes : data[i].schema = 2
  /\ \A p \in Procs : preview[p] # Nothing =>
       /\ preview[p].text = 0
       /\ preview[p].kind = "init" => found = {}
       /\ preview[p].kind = "migration" => "manifest" \in found
  /\ Plain(doc) /\ Plain(journal)

\* How far the transaction is when nobody has written.
Halfway ==
  /\ journal \notin Journals => Whole
  /\ found # {} => (dirent["ignore"] # Nothing <=> "ignore" \in found)
  /\ pc \in {"write_temps", "write_journal", "link_manifest"} =>
       \A f \in Files : dirent[f] = Nothing
  /\ pc \in {"check_manifest", "link_ignore"} => /\ dirent["ignore"] = Nothing
  /\ pc \in {"check_manifest", "link_ignore", "check_ignore", "commit"} =>
         /\ dirent["manifest"] = dirent["init.manifest"]
  /\ pc \in {"check_ignore", "commit"} =>
         /\ dirent["ignore"] = dirent["init.ignore"]
  /\ pc \in {"undo_manifest", "unlink_manifest", "undone"} /\ safe => dirent["ignore"] = Nothing
  /\ pc = "undone" /\ safe => dirent["manifest"] = Nothing
  /\ pc \in Dropping /\ journal.kind = "init" =>
       \A f \in Files : dirent[f] # Nothing <=> journal.phase = "committed"
  /\ pc = "read_old" => At("manifest") = Legacy(0)
  /\ pc \in {"m_check", "m_new", "m_journal", "m_recheck", "m_backup"} => Unmoved(doc)
  /\ pc \in {"m_journal", "m_recheck", "m_backup", "m_backed_up", "m_install"} =>
       At("migrate.new") = Rendered(0)
  /\ pc \in {"m_backed_up", "m_install"} => dirent["manifest"] = Nothing
  /\ pc \in {"m_backed_up", "m_install", "m_replaced", "m_verify", "m_commit"} =>
       dirent["migrate.backup"] = doc.inode /\ At("migrate.backup") = Legacy(0)
  /\ pc \in {"m_replaced", "m_verify", "m_commit", "m_drop_backup"} => New
  /\ mode # "conflict"
  /\ mode = "failed" => faults > 0
  /\ journal # Nothing /\ (pc = "idle" \/ mode = "recovery") => faults + deaths > 0

\* A recovery of a prepared pair has removed one of its temporaries.
Half == /\ mode = "recovery" /\ pc \in {"drop_ignore", "drop_journal"}
        /\ journal.kind = "init" /\ journal.phase = "prepared"

\* A journal is one the next recovery accepts at every moment.
Sane ==
  /\ journal \in Journals /\ ~Half => Recoverable
  /\ pc \in Undoing /\ journal.phase = "prepared" => safe
  /\ pc \in Undoing /\ journal.phase = "committed" =>
       /\ pc \in {"undo_ignore", "undo_manifest", "undone"}
       /\ \A f \in Files : dirent[Temporary[f]] = Nothing
  /\ pc \in Restoring => (doc.phase = "committed" <=> journal.phase = "committed")
  /\ pc = "r_unlink" => New
  /\ pc \in {"r_unlink", "r_rename"} => doc.phase # "committed"
  /\ pc = "r_rename" => dirent["manifest"] = Nothing
  /\ pc \in {"r_temporary", "r_backup"} =>
       doc.phase = "committed" \/ dirent["migrate.backup"] = Nothing

Undisturbed == Untouched => Pristine /\ Halfway /\ (~spoiled => Sane)

\* What keeps the user's text, when no write comes between a comparison and its step.
Level(d) == d \in Journals => d.old = d.new

Guarded ==
  /\ Level(doc) /\ Level(journal)
  /\ pc = "read_old" => At("manifest") = Legacy(preview[holder].text)
  /\ pc = "m_backup" => Unmoved(doc)
  /\ dirent["migrate.backup"] # Nothing =>
        dirent["migrate.backup"] = journal.inode /\ At("migrate.backup") = Legacy(journal.old)
  /\ pc \in {"m_backed_up", "m_install", "r_rename"} =>
       dirent["manifest"] = Nothing /\ dirent["migrate.backup"] # Nothing
  /\ pc = "r_unlink" => New
  /\ pc = "unlink_ignore" => Linked("ignore")
  /\ pc = "unlink_manifest" => Linked("manifest")
  /\ pc \in {"m_commit", "m_drop_backup", "r_temporary", "r_backup", "drop_journal"}
       /\ said["manifest"] # 0 =>
         dirent["manifest"] # Nothing /\ At("manifest").text = said["manifest"]

-----------------------------------------------------------------------------
\* What a journal that parses holds: five fields, a pair that names no inode and
\* has no text of the user, a migration that names the inode it moves.
LEMMA JournalFields ==
  ASSUME NEW d \in Journals
  PROVE  /\ d = [kind |-> d.kind, phase |-> d.phase, inode |-> d.inode,
                 old |-> d.old, new |-> d.new]
         /\ d.kind \in {"init", "migration"} /\ d.phase \in Phases
         /\ d.old \in Versions /\ d.new \in Versions
         /\ d.kind = "init" => /\ d.phase \in {"prepared", "committed"}
                               /\ d.inode = Nothing /\ d.old = 0 /\ d.new = 0
         /\ d.kind = "migration" => d.inode \in Inodes
BY ConfigAssumption DEF ConfigAssumption, Journals, Phases, Versions

\* A journal written again with another phase differs in nothing else.
LEMMA Phased ==
  ASSUME NEW d \in Journals, NEW ph \in Phases,
         d.kind = "init" => ph \in {"prepared", "committed"}
  PROVE  /\ [d EXCEPT !.phase = ph] \in Journals
         /\ [d EXCEPT !.phase = ph].kind = d.kind
         /\ [d EXCEPT !.phase = ph].phase = ph
         /\ [d EXCEPT !.phase = ph].inode = d.inode
         /\ [d EXCEPT !.phase = ph].old = d.old
         /\ [d EXCEPT !.phase = ph].new = d.new
BY DEF Journals

\* The names of the directory, and the temporary of each file.
LEMMA Temporaries ==
  /\ Temporary["manifest"] = "init.manifest" /\ Temporary["ignore"] = "init.ignore"
  /\ Files = {"manifest", "ignore"}
  /\ Names = {"manifest", "ignore", "init.manifest", "init.ignore",
              "migrate.new", "migrate.backup"}
BY DEF Temporary, Files, Names, Transient

\* Every program point, by name.
LEMMA PointNames ==
  Points = {"idle", "recover", "rebind", "read_old", "m_check", "write_temps", "write_journal",
            "m_new", "m_journal", "link_manifest", "check_manifest", "link_ignore",
            "check_ignore", "commit", "m_recheck", "m_backup", "m_backed_up", "m_install",
            "m_replaced", "m_verify", "m_commit", "m_drop_backup", "drop_manifest",
            "drop_ignore", "drop_journal", "undo_ignore", "unlink_ignore", "undo_manifest",
            "unlink_manifest", "undone", "r_look", "r_unlink", "r_rename", "r_temporary",
            "r_backup"}
BY DEF Points, Outside, Unjournaled, Installing, Migrating, Dropping, Undoing, Restoring

\* A step of the command that holds the lock.
Holding(A) == holder # Nothing /\ A /\ UNCHANGED <<env, spoiled>>

\* The four ways a failure can end.
FaultBounds == /\ pc \in FaultPoints /\ faults < MaxFaults /\ faults' = faults + 1
               /\ UNCHANGED <<data, said, found, deaths>>

FaultOutside == /\ pc \in Outside /\ Return("failed") /\ FaultBounds
                /\ UNCHANGED <<dirent, journal, spoiled>>

FaultUnjournaled == /\ pc \in Unjournaled /\ Return("failed") /\ Forgotten /\ FaultBounds
                    /\ UNCHANGED <<journal, spoiled>>

FaultApplying ==
  /\ mode = "apply" /\ pc \in Installing \cup Migrating \cup Dropping
  /\ \E phase \in Phases :
       /\ MayReplaceJournal(phase)
       /\ pc = "m_backed_up" => phase = "backed_up"
       /\ pc = "m_replaced" => phase = "replaced"
       /\ pc \in {"commit", "m_commit"} => phase = "committed"
       /\ doc' = IF pc = "m_commit" THEN [doc EXCEPT !.phase = phase] ELSE doc
  /\ mode' = "failed" /\ safe' = TRUE
  /\ pc' = IF doc.kind = "init" THEN "undo_ignore" ELSE "r_look"
  /\ spoiled' = \/ spoiled \/ SpoiledBy(TRUE)
                \/ (pc = "commit" /\ journal' # journal)
                \/ (pc = "m_commit" /\ journal' = journal)
  /\ UNCHANGED dirent /\ Hold /\ FaultBounds

FaultUndoing == /\ mode # "apply" /\ pc \in Undoing \cup Restoring \cup Dropping
                /\ GiveUp /\ UNCHANGED <<dirent, journal>>
                /\ spoiled' = (spoiled \/ SpoiledBy(TRUE))
                /\ FaultBounds

\* A failure is counted, and there are no more than the bound.
LEMMA FaultTyped ==
  ASSUME ConfigTypeOK, FaultBounds  PROVE faults' \in 0 .. MaxFaults /\ faults' > 0
BY ConfigAssumption DEF ConfigAssumption, ConfigTypeOK, FaultBounds

\* A failure meets the command before its journal, in the transaction, or in an undoing.
LEMMA FaultCases ==
  ASSUME Fault PROVE FaultOutside \/ FaultUnjournaled \/ FaultApplying \/ FaultUndoing
<1>1. CASE mode = "apply" /\ pc \in Installing \cup Migrating \cup Dropping
  <2>1. pc \notin Outside \cup Unjournaled
    BY <1>1 DEF Outside, Unjournaled, Installing, Migrating, Dropping
  <2>2. (CASE pc = "m_backed_up" -> "backed_up" [] pc = "m_replaced" -> "replaced"
           [] OTHER -> "committed") \in Phases
    BY DEF Phases
  <2> QED BY <1>1, <2>1, <2>2 DEF Fault, FaultApplying, FaultBounds
<1>2. CASE ~(mode = "apply" /\ pc \in Installing \cup Migrating \cup Dropping)
  BY <1>2 DEF Fault, FaultOutside, FaultUnjournaled, FaultUndoing, FaultBounds
<1> QED BY <1>1, <1>2

\* A failure in a transaction changes a document, in memory or on disk, in its
\* phase alone; the two disagree about the commit only when the journal is spoiled.
LEMMA FaultDocs ==
  ASSUME ConfigTypeOK, Control, FaultApplying
  PROVE  /\ doc \in Journals /\ journal \in Journals
         /\ doc' \in Journals /\ journal' \in Journals
         /\ doc'.kind = doc.kind /\ doc'.inode = doc.inode
         /\ doc'.old = doc.old /\ doc'.new = doc.new
         /\ journal'.kind = doc.kind /\ journal'.inode = doc.inode
         /\ journal'.old = doc.old /\ journal'.new = doc.new
         /\ journal.kind = doc.kind /\ journal.inode = doc.inode
         /\ journal.old = doc.old /\ journal.new = doc.new
         /\ doc'.phase = IF pc = "m_commit" THEN "committed" ELSE doc.phase
         /\ journal'.phase = journal.phase
            \/ (pc = "m_backed_up" /\ journal'.phase = "backed_up")
            \/ (pc = "m_replaced" /\ journal'.phase = "replaced")
            \/ (pc \in {"commit", "m_commit"} /\ journal'.phase = "committed")
         /\ pc = "commit" => journal' = journal \/ spoiled'
         /\ pc = "m_commit" => journal'.phase = "committed" \/ spoiled'
<1> USE DEF ConfigTypeOK, Control, IsInit, IsMigration
<1>1. doc \in Journals /\ journal \in Journals
  BY DEF FaultApplying, Installing, Migrating, Dropping
<1>2. pc \in {"m_backed_up", "m_replaced", "m_commit"} => doc.kind = "migration"
  OBVIOUS
<1>3. pc \in Dropping => pc \notin {"m_backed_up", "m_replaced", "m_commit", "commit"}
  BY DEF Dropping
<1>4. pc \notin Dropping => journal = doc
  BY DEF FaultApplying
<1>5. /\ doc.kind = journal.kind /\ doc.inode = journal.inode
      /\ doc.old = journal.old /\ doc.new = journal.new
  <2>1. /\ [doc EXCEPT !.phase = "committed"].kind = doc.kind
        /\ [doc EXCEPT !.phase = "committed"].inode = doc.inode
        /\ [doc EXCEPT !.phase = "committed"].old = doc.old
        /\ [doc EXCEPT !.phase = "committed"].new = doc.new
    BY <1>1, Phased DEF Phases
  <2>2. pc \in Dropping => journal = [doc EXCEPT !.phase = "committed"]
    BY DEF FaultApplying
  <2> QED BY <1>4, <2>1, <2>2
<1>6. PICK phase \in Phases :
        /\ MayReplaceJournal(phase)
        /\ pc = "m_backed_up" => phase = "backed_up"
        /\ pc = "m_replaced" => phase = "replaced"
        /\ pc \in {"commit", "m_commit"} => phase = "committed"
        /\ doc' = IF pc = "m_commit" THEN [doc EXCEPT !.phase = phase] ELSE doc
  BY DEF FaultApplying
<1>7. pc \in {"commit", "m_backed_up", "m_replaced", "m_commit"} =>
        /\ [doc EXCEPT !.phase = phase] \in Journals
        /\ [doc EXCEPT !.phase = phase].kind = doc.kind
        /\ [doc EXCEPT !.phase = phase].phase = phase
        /\ [doc EXCEPT !.phase = phase].inode = doc.inode
        /\ [doc EXCEPT !.phase = phase].old = doc.old
        /\ [doc EXCEPT !.phase = phase].new = doc.new
  BY <1>1, <1>2, <1>6, Phased
<1>8. /\ \/ journal' = journal
         \/ /\ journal' = [doc EXCEPT !.phase = phase]
            /\ pc \in {"commit", "m_backed_up", "m_replaced", "m_commit"}
      /\ doc' = IF pc = "m_commit" THEN [doc EXCEPT !.phase = phase] ELSE doc
  BY <1>6 DEF MayReplaceJournal
<1>9. /\ pc = "commit" => journal' = journal \/ spoiled'
      /\ pc = "m_commit" => journal' # journal \/ spoiled'
  BY DEF FaultApplying
<1>10. pc \in {"m_backed_up", "m_replaced", "m_commit", "commit"} => journal = doc
  BY <1>3, <1>4
<1> HIDE DEF ConfigTypeOK, Control, IsInit, IsMigration
<1> QED BY <1>1, <1>5, <1>6, <1>7, <1>8, <1>9

\* A migration prepares its document with the inode and the text it read again.
LEMMA ReadDoc ==
  ASSUME ConfigTypeOK, Structure, Holding(ReadOld)
  PROVE  /\ IsMigration(doc', {"prepared"})
         /\ doc'.inode = dirent["manifest"] /\ dirent["manifest"] \in Inodes
         /\ At("manifest") = data[dirent["manifest"]]
         /\ doc'.old = At("manifest").text /\ doc'.new = preview[holder].text
<1> USE DEF Holding, ReadOld, Goto
<1>1. At("manifest") \in Contents /\ dirent["manifest"] \in Inodes
      /\ At("manifest") = data[dirent["manifest"]]
  BY Temporaries DEF ConfigTypeOK, Structure, Present, At
<1>2. preview[holder] \in Previews /\ preview[holder].kind = "migration"
  BY DEF ConfigTypeOK, Structure, Shown
<1>3. preview[holder].text \in Versions /\ At("manifest").text \in Versions
  BY <1>1, <1>2 DEF Previews, Contents
<1>4. doc' \in Journals
  BY <1>1, <1>3 DEF Journals, Phases
<1> QED BY <1>1, <1>4 DEF IsMigration

\* The document of a pair is made with its temporaries, as prepared.
LEMMA FirstDoc == ASSUME WriteTemps PROVE IsInit(doc', {"prepared"})
BY DEF WriteTemps, IsInit, Journals

\* Every step keeps the type of the variables.
LEMMA TypeStep ==
  ASSUME ConfigTypeOK, Structure, [ConfigNext]_configVars
  PROVE  ConfigTypeOK'
<1> USE ConfigAssumption, Temporaries, PointNames, Phased
    DEF ConfigAssumption, ConfigTypeOK, Goto, Hold, Return, Named, GiveUp, Undo,
        disk, local, calls, env, Modes, Answers
<1>1. CASE \E p \in Procs : Unlocked(p)
  <2>1. CASE \E p \in Procs : Refused(p) /\ UNCHANGED <<env, spoiled>>
    BY <2>1 DEF Refused
  <2>2. CASE \E p \in Procs : PreviewInit(p) /\ UNCHANGED <<env, spoiled>>
    BY <2>2 DEF PreviewInit, Previews
  <2>3. CASE \E p \in Procs : PreviewMigration(p) /\ UNCHANGED <<env, spoiled>>
    BY <2>3 DEF PreviewMigration, Previews, Contents, Versions, At
  <2>4. CASE \E p \in Procs : NothingToDo(p) /\ UNCHANGED <<env, spoiled>>
    BY <2>4 DEF NothingToDo
  <2> QED BY <1>1, <2>1, <2>2, <2>3, <2>4 DEF Unlocked
<1>2. CASE \E p \in Procs : Enter(p) BY <1>2 DEF Enter, Acquire
<1>3. CASE Holding(Recover)
  <2>1. CASE Holding(RecoverNothing) BY <2>1 DEF RecoverNothing, Holding
  <2>2. CASE Holding(RecoverRefused) BY <2>2 DEF RecoverRefused, Holding
  <2>3. CASE Holding(RecoverInit) BY <2>3 DEF RecoverInit, Holding
  <2>4. CASE Holding(RecoverMigration) BY <2>4 DEF RecoverMigration, Holding
  <2> QED BY <1>3, <2>1, <2>2, <2>3, <2>4 DEF Holding, Recover
<1>4. CASE Holding(Rollback)
  <2>1. CASE Holding(UndoOwn("ignore", "unlink_ignore"))
    BY <2>1 DEF UndoOwn, Holding
  <2>2. CASE Holding(UndoSkip("ignore", "undo_manifest"))
    BY <2>2 DEF UndoSkip, Holding
  <2>3. CASE Holding(UndoUnlink("ignore", "unlink_ignore", "undo_manifest"))
    BY <2>3 DEF UndoUnlink, Holding
  <2>4. CASE Holding(UndoOwn("manifest", "unlink_manifest"))
    BY <2>4 DEF UndoOwn, Holding
  <2>5. CASE Holding(UndoSkip("manifest", "undone")) BY <2>5 DEF UndoSkip, Holding
  <2>6. CASE Holding(UndoUnlink("manifest", "unlink_manifest", "undone"))
    BY <2>6 DEF UndoUnlink, Holding
  <2>7. CASE Holding(Undone) BY <2>7 DEF Undone, Holding
  <2>8. CASE Holding(UndoneGiveUp) BY <2>8 DEF UndoneGiveUp, Holding
  <2> QED BY <1>4, <2>1, <2>2, <2>3, <2>4, <2>5, <2>6, <2>7, <2>8 DEF Holding, Rollback
<1>5. CASE Holding(Clean)
  <2>1. CASE Holding(Drop("manifest", "drop_ignore")) BY <2>1 DEF Drop, Holding
  <2>2. CASE Holding(Drop("ignore", "drop_journal")) BY <2>2 DEF Drop, Holding
  <2>3. CASE Holding(DropUnsafe("manifest"))
    <3>1. CASE mode = "apply" BY <2>3, <3>1 DEF DropUnsafe, Holding
    <3>2. CASE mode # "apply" BY <2>3, <3>2 DEF DropUnsafe, Holding
    <3> QED BY <3>1, <3>2
  <2>4. CASE Holding(DropUnsafe("ignore"))
    <3>1. CASE mode = "apply" BY <2>4, <3>1 DEF DropUnsafe, Holding
    <3>2. CASE mode # "apply" BY <2>4, <3>2 DEF DropUnsafe, Holding
    <3> QED BY <3>1, <3>2
  <2>5. CASE Holding(DropJournal)
    <3>1. CASE mode = "apply" BY <2>5, <3>1 DEF DropJournal, Holding
    <3>2. CASE mode # "apply" BY <2>5, <3>2 DEF DropJournal, Holding
    <3> QED BY <3>1, <3>2
  <2> QED BY <1>5, <2>1, <2>2, <2>3, <2>4, <2>5 DEF Holding, Clean
<1>6. CASE Holding(Rebind \/ RebindConflict)
  <2>1. CASE Holding(Rebind) BY <2>1 DEF Rebind, Holding
  <2>2. CASE Holding(RebindConflict) BY <2>2 DEF RebindConflict, Holding
  <2> QED BY <1>6, <2>1, <2>2 DEF Holding
<1>7. CASE Holding(ApplyPair)
  <2>1. CASE Holding(WriteTemps)
    BY <2>1 DEF WriteTemps, Holding, Journals, Free, Rendered, Contents, Versions
  <2>2. CASE Holding(WriteJournal)
    BY <2>2 DEF WriteJournal, Holding, Structure, Control, Unjournaled, IsInit,
       IsMigration
  <2>3. CASE Holding(Commit)
    BY <2>3 DEF Commit, Holding, Structure, Control, Installing, IsInit, Phases
  <2>4. CASE Holding(Link("manifest", "link_manifest", "check_manifest"))
    BY <2>4 DEF Link, Holding
  <2>5. CASE Holding(LinkExists("manifest", "link_manifest"))
    BY <2>5 DEF LinkExists, Holding
  <2>6. CASE Holding(CheckLinked("manifest", "check_manifest", "link_ignore"))
    BY <2>6 DEF CheckLinked, Holding
  <2>7. CASE Holding(CheckFailed("manifest", "check_manifest"))
    BY <2>7 DEF CheckFailed, Holding
  <2>8. CASE Holding(Link("ignore", "link_ignore", "check_ignore"))
    BY <2>8 DEF Link, Holding
  <2>9. CASE Holding(LinkExists("ignore", "link_ignore"))
    BY <2>9 DEF LinkExists, Holding
  <2>10. CASE Holding(CheckLinked("ignore", "check_ignore", "commit"))
    BY <2>10 DEF CheckLinked, Holding
  <2>11. CASE Holding(CheckFailed("ignore", "check_ignore"))
    BY <2>11 DEF CheckFailed, Holding
  <2> QED BY <1>7, <2>1, <2>2, <2>3, <2>4, <2>5, <2>6, <2>7, <2>8, <2>9, <2>10,
         <2>11 DEF Holding, ApplyPair
<1>8. CASE Holding(Migrate)
  <2>1. CASE Holding(ReadOld) BY <2>1, ReadDoc DEF ReadOld, Holding, IsMigration
  <2>2. CASE Holding(MCheck) BY <2>2 DEF MCheck, Holding
  <2>3. CASE Holding(MCheckConflict) BY <2>3 DEF MCheckConflict, Holding
  <2>4. CASE Holding(MNew)
    BY <2>4, JournalFields DEF MNew, Holding, Structure, Control, IsMigration, Rendered,
       Contents, Fresh, Free
  <2>5. CASE Holding(MRecheck) BY <2>5 DEF MRecheck, Holding
  <2>6. CASE Holding(MRecheckConflict) BY <2>6 DEF MRecheckConflict, Holding
  <2>7. CASE Holding(MBackup) BY <2>7 DEF MBackup, Holding
  <2>8. CASE Holding(MJournal("m_backed_up", "backed_up", "m_install"))
    BY <2>8 DEF MJournal, Holding, Structure, Control, IsMigration, Phases
  <2>9. CASE Holding(MInstall) BY <2>9 DEF MInstall, Holding
  <2>10. CASE Holding(MJournal("m_replaced", "replaced", "m_verify"))
    BY <2>10 DEF MJournal, Holding, Structure, Control, IsMigration, Phases
  <2>11. CASE Holding(MVerify) BY <2>11 DEF MVerify, Holding
  <2>12. CASE Holding(MVerifyFailed) BY <2>12 DEF MVerifyFailed, Holding
  <2>13. CASE Holding(MJournal("m_commit", "committed", "m_drop_backup"))
    BY <2>13 DEF MJournal, Holding, Structure, Control, IsMigration, Phases
  <2>14. CASE Holding(MDropBackup) BY <2>14 DEF MDropBackup, Holding
  <2> QED BY <1>8, <2>1, <2>2, <2>3, <2>4, <2>5, <2>6, <2>7, <2>8, <2>9, <2>10,
         <2>11, <2>12, <2>13, <2>14 DEF Holding, Migrate
<1>9. CASE Holding(Restore)
  <2>1. CASE Holding(RLook) BY <2>1 DEF RLook, Holding
  <2>2. CASE Holding(RForeign) BY <2>2 DEF RForeign, Holding
  <2>3. CASE Holding(RUnlink) BY <2>3 DEF RUnlink, Holding
  <2>4. CASE Holding(RRename) BY <2>4 DEF RRename, Holding
  <2>5. CASE Holding(RTemporary) BY <2>5 DEF RTemporary, Holding
  <2>6. CASE Holding(RBackup)
    <3>1. CASE mode = "recovery" BY <2>6, <3>1 DEF RBackup, Holding
    <3>2. CASE mode # "recovery" BY <2>6, <3>2 DEF RBackup, Holding
    <3> QED BY <3>1, <3>2
  <2> QED BY <1>9, <2>1, <2>2, <2>3, <2>4, <2>5, <2>6 DEF Holding, Restore
<1>10. CASE Fault
  <2>1. CASE FaultOutside BY <2>1, FaultTyped DEF FaultOutside, FaultBounds
  <2>2. CASE FaultUnjournaled
    BY <2>2, FaultTyped DEF FaultUnjournaled, FaultBounds, Forgotten
  <2>3. CASE FaultApplying
    <3>1. doc' \in Journals /\ journal' \in Journals
      BY <2>3, FaultDocs DEF Structure
    <3>2. spoiled' \in BOOLEAN
      BY <2>3 DEF FaultApplying
    <3>3. /\ pc' \in {"undo_ignore", "r_look"} /\ mode' = "failed" /\ safe' = TRUE
          /\ UNCHANGED <<dirent, data, said, found, deaths, holder, preview, answer>>
          /\ pc # "idle"
      BY <2>3 DEF FaultApplying, FaultBounds, Installing, Migrating, Dropping
    <3> QED BY <3>1, <3>2, <3>3, <2>3, FaultTyped DEF FaultApplying
  <2>4. CASE FaultUndoing BY <2>4, FaultTyped DEF FaultUndoing, FaultBounds, Undoing
  <2> QED BY FaultCases, <1>10, <2>1, <2>2, <2>3, <2>4
<1>11. CASE Crash BY <1>11 DEF Crash, Forgotten
<1>12. CASE \E f \in Files : UserWrites(f)
  BY <1>12 DEF UserWrites, Contents, Versions, NextVersion, Fresh, Free, At
<1>13. CASE UNCHANGED configVars BY <1>13 DEF configVars
<1> QED BY <1>1, <1>2, <1>3, <1>4, <1>5, <1>6, <1>7, <1>8, <1>9, <1>10, <1>11,
       <1>12, <1>13 DEF ConfigNext, Process, Holding

\* A command that returns leaves the lock, and no document in memory.
LEMMA Returned == ASSUME NEW a, Return(a) PROVE Control' /\ Shown'
BY DEF Return, Control, Shown, Installing, Migrating, Dropping, Undoing, Restoring,
   Unjournaled

\* A preview is of a pair or of a migration.
LEMMA PreviewKinds ==
  ASSUME ConfigTypeOK, NEW p \in Procs, preview[p] # Nothing
  PROVE  preview[p] \in Previews /\ preview[p].kind \in {"init", "migration"}
BY DEF ConfigTypeOK, Previews

\* An apply that gives up leaves the lock, and no document in memory.
LEMMA GivenUp == ASSUME GiveUp PROVE Control' /\ Shown'
<1>1. PICK a : Return(a) BY DEF GiveUp
<1> QED BY <1>1, Returned

\* Every step leads to a program point with the documents it works with.
LEMMA ControlStep ==
  ASSUME ConfigTypeOK, Structure, [ConfigNext]_configVars
  PROVE  (Control /\ Shown)'
<1> USE ConfigAssumption, JournalFields
    DEF ConfigTypeOK, Structure, Control, Shown, Goto, Hold, Named, Undo, disk,
        local, calls, env, IsInit, IsMigration, Installing, Migrating, Dropping,
        Undoing, Restoring, Unjournaled, Outside
<1>1. CASE \E p \in Procs : Unlocked(p)
  <2>1. CASE \E p \in Procs : Refused(p) /\ UNCHANGED <<env, spoiled>>
    BY <2>1 DEF Refused
  <2>2. CASE \E p \in Procs : PreviewInit(p) /\ UNCHANGED <<env, spoiled>>
    BY <2>2 DEF PreviewInit
  <2>3. CASE \E p \in Procs : PreviewMigration(p) /\ UNCHANGED <<env, spoiled>>
    BY <2>3 DEF PreviewMigration
  <2>4. CASE \E p \in Procs : NothingToDo(p) /\ UNCHANGED <<env, spoiled>>
    BY <2>4 DEF NothingToDo
  <2> QED BY <1>1, <2>1, <2>2, <2>3, <2>4 DEF Unlocked
<1>2. CASE \E p \in Procs : Enter(p) BY <1>2 DEF Enter, Acquire
<1>3. CASE Holding(Recover)
  <2>1. CASE Holding(RecoverNothing) BY <2>1 DEF RecoverNothing, Holding
  <2>2. CASE Holding(RecoverRefused) BY <2>2, Returned DEF RecoverRefused, Holding
  <2>3. CASE Holding(RecoverInit) BY <2>3 DEF RecoverInit, Holding
  <2>4. CASE Holding(RecoverMigration) BY <2>4 DEF RecoverMigration, Holding
  <2> QED BY <1>3, <2>1, <2>2, <2>3, <2>4 DEF Holding, Recover
<1>4. CASE Holding(Rollback)
  <2>1. CASE Holding(UndoOwn("ignore", "unlink_ignore"))
    BY <2>1 DEF UndoOwn, Holding
  <2>2. CASE Holding(UndoSkip("ignore", "undo_manifest"))
    BY <2>2 DEF UndoSkip, Holding
  <2>3. CASE Holding(UndoUnlink("ignore", "unlink_ignore", "undo_manifest"))
    BY <2>3 DEF UndoUnlink, Holding
  <2>4. CASE Holding(UndoOwn("manifest", "unlink_manifest"))
    BY <2>4 DEF UndoOwn, Holding
  <2>5. CASE Holding(UndoSkip("manifest", "undone")) BY <2>5 DEF UndoSkip, Holding
  <2>6. CASE Holding(UndoUnlink("manifest", "unlink_manifest", "undone"))
    BY <2>6 DEF UndoUnlink, Holding
  <2>7. CASE Holding(Undone) BY <2>7 DEF Undone, Holding
  <2>8. CASE Holding(UndoneGiveUp) BY <2>8, GivenUp DEF UndoneGiveUp, Holding
  <2> QED BY <1>4, <2>1, <2>2, <2>3, <2>4, <2>5, <2>6, <2>7, <2>8 DEF Holding, Rollback
<1>5. CASE Holding(Clean)
  <2>1. CASE Holding(Drop("manifest", "drop_ignore")) BY <2>1 DEF Drop, Holding
  <2>2. CASE Holding(Drop("ignore", "drop_journal")) BY <2>2 DEF Drop, Holding
  <2>3. CASE Holding(DropUnsafe("manifest"))
    <3>1. CASE mode = "apply" BY <2>3, <3>1, GivenUp DEF DropUnsafe, Holding
    <3>2. CASE ~(mode = "apply") BY <2>3, <3>2, GivenUp DEF DropUnsafe, Holding
    <3> QED BY <3>1, <3>2
  <2>4. CASE Holding(DropUnsafe("ignore"))
    <3>1. CASE mode = "apply" BY <2>4, <3>1, GivenUp DEF DropUnsafe, Holding
    <3>2. CASE ~(mode = "apply") BY <2>4, <3>2, GivenUp DEF DropUnsafe, Holding
    <3> QED BY <3>1, <3>2
  <2>5. CASE Holding(DropJournal)
    <3>1. CASE mode = "apply"
      <4>1. PICK a : Return(a) BY <2>5, <3>1 DEF DropJournal, Holding
      <4> QED BY <4>1, Returned
    <3>2. CASE mode # "apply" BY <2>5, <3>2 DEF DropJournal, Holding
    <3> QED BY <3>1, <3>2
  <2> QED BY <1>5, <2>1, <2>2, <2>3, <2>4, <2>5 DEF Holding, Clean
<1>6. CASE Holding(Rebind \/ RebindConflict)
  <2>1. CASE Holding(Rebind) BY <2>1, PreviewKinds DEF Rebind, Holding, Current
  <2>2. CASE Holding(RebindConflict) BY <2>2, Returned DEF RebindConflict, Holding
  <2> QED BY <1>6, <2>1, <2>2 DEF Holding
<1>7. CASE Holding(ApplyPair)
  <2>1. CASE Holding(WriteTemps) BY <2>1, FirstDoc DEF WriteTemps, Holding
  <2>2. CASE Holding(WriteJournal) BY <2>2 DEF WriteJournal, Holding
  <2>3. CASE Holding(Commit) BY <2>3, Phased DEF Commit, Holding, Phases
  <2>4. CASE Holding(Link("manifest", "link_manifest", "check_manifest"))
    BY <2>4 DEF Link, Holding
  <2>5. CASE Holding(LinkExists("manifest", "link_manifest"))
    BY <2>5 DEF LinkExists, Holding
  <2>6. CASE Holding(CheckLinked("manifest", "check_manifest", "link_ignore"))
    BY <2>6 DEF CheckLinked, Holding
  <2>7. CASE Holding(CheckFailed("manifest", "check_manifest"))
    BY <2>7 DEF CheckFailed, Holding
  <2>8. CASE Holding(Link("ignore", "link_ignore", "check_ignore"))
    BY <2>8 DEF Link, Holding
  <2>9. CASE Holding(LinkExists("ignore", "link_ignore"))
    BY <2>9 DEF LinkExists, Holding
  <2>10. CASE Holding(CheckLinked("ignore", "check_ignore", "commit"))
    BY <2>10 DEF CheckLinked, Holding
  <2>11. CASE Holding(CheckFailed("ignore", "check_ignore"))
    BY <2>11 DEF CheckFailed, Holding
  <2> QED BY <1>7, <2>1, <2>2, <2>3, <2>4, <2>5, <2>6, <2>7, <2>8, <2>9, <2>10,
         <2>11 DEF Holding, ApplyPair
<1>8. CASE Holding(Migrate)
  <2>1. CASE Holding(ReadOld) BY <2>1, ReadDoc DEF ReadOld, Holding
  <2>2. CASE Holding(MCheck) BY <2>2 DEF MCheck, Holding
  <2>3. CASE Holding(MCheckConflict) BY <2>3, Returned DEF MCheckConflict, Holding
  <2>4. CASE Holding(MNew) BY <2>4 DEF MNew, Holding
  <2>5. CASE Holding(MRecheck) BY <2>5 DEF MRecheck, Holding
  <2>6. CASE Holding(MRecheckConflict) BY <2>6 DEF MRecheckConflict, Holding
  <2>7. CASE Holding(MBackup) BY <2>7 DEF MBackup, Holding
  <2>8. CASE Holding(MJournal("m_backed_up", "backed_up", "m_install"))
    BY <2>8, Phased DEF MJournal, Holding, Phases
  <2>9. CASE Holding(MInstall) BY <2>9 DEF MInstall, Holding
  <2>10. CASE Holding(MJournal("m_replaced", "replaced", "m_verify"))
    BY <2>10, Phased DEF MJournal, Holding, Phases
  <2>11. CASE Holding(MVerify) BY <2>11 DEF MVerify, Holding
  <2>12. CASE Holding(MVerifyFailed) BY <2>12 DEF MVerifyFailed, Holding
  <2>13. CASE Holding(MJournal("m_commit", "committed", "m_drop_backup"))
    BY <2>13, Phased DEF MJournal, Holding, Phases
  <2>14. CASE Holding(MDropBackup) BY <2>14 DEF MDropBackup, Holding
  <2> QED BY <1>8, <2>1, <2>2, <2>3, <2>4, <2>5, <2>6, <2>7, <2>8, <2>9, <2>10,
         <2>11, <2>12, <2>13, <2>14 DEF Holding, Migrate
<1>9. CASE Holding(Restore)
  <2>1. CASE Holding(RLook) BY <2>1 DEF RLook, Holding
  <2>2. CASE Holding(RForeign) BY <2>2, GivenUp DEF RForeign, Holding
  <2>3. CASE Holding(RUnlink) BY <2>3 DEF RUnlink, Holding
  <2>4. CASE Holding(RRename) BY <2>4 DEF RRename, Holding
  <2>5. CASE Holding(RTemporary) BY <2>5 DEF RTemporary, Holding
  <2>6. CASE Holding(RBackup)
    <3>1. CASE mode = "recovery" BY <2>6, <3>1, GivenUp DEF RBackup, Holding
    <3>2. CASE ~(mode = "recovery") BY <2>6, <3>2, GivenUp DEF RBackup, Holding
    <3> QED BY <3>1, <3>2
  <2> QED BY <1>9, <2>1, <2>2, <2>3, <2>4, <2>5, <2>6 DEF Holding, Restore
<1>10. CASE Fault
  <2>1. CASE FaultOutside BY <2>1, Returned DEF FaultOutside, FaultBounds
  <2>2. CASE FaultUnjournaled
    BY <2>2, Returned DEF FaultUnjournaled, FaultBounds, Forgotten
  <2>3. CASE FaultApplying
    <3>1. /\ pc' = IF doc.kind = "init" THEN "undo_ignore" ELSE "r_look"
          /\ mode' = "failed" /\ UNCHANGED <<holder, preview>>
      BY <2>3 DEF FaultApplying
    <3>2. doc.kind = "init" => doc.phase = "prepared"
      BY <2>3, FaultDocs DEF FaultApplying
    <3> QED BY <3>1, <3>2, <2>3, FaultDocs, JournalFields
  <2>4. CASE FaultUndoing BY <2>4, GivenUp DEF FaultUndoing, FaultBounds
  <2> QED BY FaultCases, <1>10, <2>1, <2>2, <2>3, <2>4
<1>11. CASE Crash BY <1>11 DEF Crash, Forgotten
<1>12. CASE \E f \in Files : UserWrites(f) BY <1>12 DEF UserWrites
<1>13. CASE UNCHANGED configVars BY <1>13 DEF configVars
<1> QED BY <1>1, <1>2, <1>3, <1>4, <1>5, <1>6, <1>7, <1>8, <1>9, <1>10, <1>11,
       <1>12, <1>13 DEF ConfigNext, Process, Holding

-----------------------------------------------------------------------------
\* A step that gives no name an inode, and writes nothing.
Fewer == UNCHANGED data /\ \A n \in Names : dirent'[n] \in {dirent[n], Nothing}

\* A step gives a name a file only if it is one of eight; every other step
\* only takes names away.
LEMMA NamingSteps ==
  ASSUME ConfigTypeOK, Structure, [ConfigNext]_configVars
  PROVE  \/ Fewer
         \/ Holding(WriteTemps) \/ Holding(MNew) \/ Holding(MBackup)
         \/ Holding(MInstall) \/ Holding(RRename)
         \/ Holding(Link("manifest", "link_manifest", "check_manifest"))
         \/ Holding(Link("ignore", "link_ignore", "check_ignore"))
         \/ \E f \in Files : UserWrites(f)
<1> USE Temporaries DEF ConfigTypeOK, Fewer, Named, disk, Hold, local, calls, env
<1>1. CASE \E p \in Procs : Unlocked(p) \/ Enter(p)
  BY <1>1 DEF Unlocked, Enter, Refused, PreviewInit, PreviewMigration, NothingToDo, Acquire
<1>2. CASE Holding(Recover)
  BY <1>2 DEF Holding, Recover, RecoverNothing, RecoverRefused, RecoverInit,
     RecoverMigration
<1>3. CASE Holding(Rollback)
  BY <1>3 DEF Holding, Rollback, UndoOwn, UndoSkip, UndoUnlink, Undone, UndoneGiveUp
<1>4. CASE Holding(Clean)
  BY <1>4 DEF Holding, Clean, Drop, DropUnsafe, DropJournal
<1>5. CASE Holding(Rebind \/ RebindConflict)
  BY <1>5 DEF Holding, Rebind, RebindConflict
<1>6. CASE Holding(ApplyPair)
  BY <1>6 DEF Holding, ApplyPair, WriteJournal, Commit, LinkExists, CheckLinked, CheckFailed
<1>7. CASE Holding(Migrate)
  BY <1>7 DEF Holding, Migrate, ReadOld, MCheck, MCheckConflict, MRecheck,
     MRecheckConflict, MJournal, MVerify, MVerifyFailed, MDropBackup
<1>8. CASE Holding(Restore)
  BY <1>8 DEF Holding, Restore, RLook, RForeign, RUnlink, RTemporary, RBackup
<1>9. CASE Fault
  BY <1>9, FaultCases DEF FaultOutside, FaultUnjournaled, FaultApplying, FaultUndoing,
     FaultBounds, Forgotten
<1>10. CASE Crash
  BY <1>10 DEF Crash, Forgotten
<1>11. CASE UNCHANGED configVars BY <1>11 DEF configVars
<1> QED BY <1>1, <1>2, <1>3, <1>4, <1>5, <1>6, <1>7, <1>8, <1>9, <1>10, <1>11 DEF
       ConfigNext, Process, Holding

\* The least free inode belongs to no name.
LEMMA FreshFree ==
  ASSUME NEW i \in Free
  PROVE  i \in Inodes /\ i # Nothing /\ \A n \in Names : dirent[n] # i
BY ConfigAssumption DEF ConfigAssumption, Free

\* No step lets two names have one file, but a link from a temporary.
LEMMA NamesStep == ASSUME ConfigTypeOK, Structure, [ConfigNext]_configVars PROVE NamesApart'
<1> USE Temporaries DEF ConfigTypeOK, Goto, Named, disk, Hold, local, calls, env
<1> SUFFICES ASSUME NEW m \in Names, NEW n \in Names, m # n,
                    dirent'[m] # Nothing, dirent'[m] = dirent'[n]
             PROVE  (m \in Files /\ n = Temporary[m]) \/ (n \in Files /\ m = Temporary[n])
  BY DEF NamesApart
<1>0. \/ dirent[m] = Nothing \/ dirent[m] # dirent[n]
      \/ (m \in Files /\ n = Temporary[m]) \/ (n \in Files /\ m = Temporary[n])
  BY DEF Structure, NamesApart
<1>1. CASE Fewer
  BY <1>0, <1>1 DEF Fewer
<1>2. CASE Holding(WriteTemps)
  BY <1>0, <1>2, FreshFree DEF Holding, WriteTemps
<1>3. CASE Holding(MNew)
  BY <1>0, <1>3, FreshFree DEF Holding, MNew, Fresh
<1>4. CASE Holding(MBackup)
  <2>1. /\ dirent["init.manifest"] = Nothing /\ dirent["migrate.backup"] = Nothing
        /\ dirent["init.ignore"] = Nothing
    BY <1>4 DEF Holding, MBackup, Structure, Leftovers, Control, IsInit, IsMigration,
       Migrating
  <2>2. \A x \in Names : x # "manifest" => dirent[x] # dirent["manifest"] \/ dirent[x] = Nothing
    BY <2>1 DEF Structure, NamesApart
  <2> QED BY <1>0, <1>4, <2>1, <2>2 DEF Holding, MBackup
<1>5. CASE Holding(MInstall)
  <2>2. \A x \in Names : x # "migrate.new" =>
          dirent[x] # dirent["migrate.new"] \/ dirent[x] = Nothing
    BY DEF Structure, NamesApart
  <2> QED BY <1>0, <1>5, <2>2 DEF Holding, MInstall
<1>6. CASE Holding(RRename)
  <2>2. \A x \in Names : x # "migrate.backup" =>
          dirent[x] # dirent["migrate.backup"] \/ dirent[x] = Nothing
    BY DEF Structure, NamesApart
  <2> QED BY <1>0, <1>6, <2>2 DEF Holding, RRename
<1>7. CASE Holding(Link("manifest", "link_manifest", "check_manifest"))
  <2>2. \A x \in Names : x \notin {"init.manifest", "manifest"} =>
          dirent[x] # dirent["init.manifest"] \/ dirent[x] = Nothing
    BY DEF Structure, NamesApart
  <2> QED BY <1>0, <1>7, <2>2 DEF Holding, Link
<1>8. CASE Holding(Link("ignore", "link_ignore", "check_ignore"))
  <2>2. \A x \in Names : x \notin {"init.ignore", "ignore"} =>
          dirent[x] # dirent["init.ignore"] \/ dirent[x] = Nothing
    BY DEF Structure, NamesApart
  <2> QED BY <1>0, <1>8, <2>2 DEF Holding, Link
<1>9. CASE \E f \in Files : UserWrites(f)
  BY <1>0, <1>9, FreshFree DEF UserWrites, Fresh
<1> QED BY NamingSteps, <1>1, <1>2, <1>3, <1>4, <1>5, <1>6, <1>7, <1>8, <1>9

\* A name besides the two files is made after its journal and removed before it.
LEMMA LeftoversStep ==
  ASSUME ConfigTypeOK, Structure, [ConfigNext]_configVars
  PROVE  Leftovers'
<1> USE ConfigAssumption, JournalFields, Temporaries
    DEF ConfigTypeOK, Structure, Control, Leftovers, Goto, Hold, Named, Undo, disk,
        local, calls, env, IsInit, IsMigration, Installing, Migrating, Dropping,
        Undoing, Restoring, Unjournaled, Outside, Return, GiveUp, Transient
<1>1. CASE \E p \in Procs : Unlocked(p)
  <2>1. CASE \E p \in Procs : Refused(p) /\ UNCHANGED <<env, spoiled>>
    BY <2>1 DEF Refused
  <2>2. CASE \E p \in Procs : PreviewInit(p) /\ UNCHANGED <<env, spoiled>>
    BY <2>2 DEF PreviewInit
  <2>3. CASE \E p \in Procs : PreviewMigration(p) /\ UNCHANGED <<env, spoiled>>
    BY <2>3 DEF PreviewMigration
  <2>4. CASE \E p \in Procs : NothingToDo(p) /\ UNCHANGED <<env, spoiled>>
    BY <2>4 DEF NothingToDo
  <2> QED BY <1>1, <2>1, <2>2, <2>3, <2>4 DEF Unlocked
<1>2. CASE \E p \in Procs : Enter(p) BY <1>2 DEF Enter, Acquire
<1>3. CASE Holding(Recover)
  <2>1. CASE Holding(RecoverNothing) BY <2>1 DEF RecoverNothing, Holding
  <2>2. CASE Holding(RecoverRefused) BY <2>2 DEF RecoverRefused, Holding
  <2>3. CASE Holding(RecoverInit) BY <2>3 DEF RecoverInit, Holding
  <2>4. CASE Holding(RecoverMigration) BY <2>4 DEF RecoverMigration, Holding
  <2> QED BY <1>3, <2>1, <2>2, <2>3, <2>4 DEF Holding, Recover
<1>4. CASE Holding(Rollback)
  <2>1. CASE Holding(UndoOwn("ignore", "unlink_ignore"))
    BY <2>1 DEF UndoOwn, Holding
  <2>2. CASE Holding(UndoSkip("ignore", "undo_manifest"))
    BY <2>2 DEF UndoSkip, Holding
  <2>3. CASE Holding(UndoUnlink("ignore", "unlink_ignore", "undo_manifest"))
    BY <2>3 DEF UndoUnlink, Holding
  <2>4. CASE Holding(UndoOwn("manifest", "unlink_manifest"))
    BY <2>4 DEF UndoOwn, Holding
  <2>5. CASE Holding(UndoSkip("manifest", "undone")) BY <2>5 DEF UndoSkip, Holding
  <2>6. CASE Holding(UndoUnlink("manifest", "unlink_manifest", "undone"))
    BY <2>6 DEF UndoUnlink, Holding
  <2>7. CASE Holding(Undone) BY <2>7 DEF Undone, Holding
  <2>8. CASE Holding(UndoneGiveUp) BY <2>8 DEF UndoneGiveUp, Holding
  <2> QED BY <1>4, <2>1, <2>2, <2>3, <2>4, <2>5, <2>6, <2>7, <2>8 DEF Holding, Rollback
<1>5. CASE Holding(Clean)
  <2>1. CASE Holding(Drop("manifest", "drop_ignore")) BY <2>1 DEF Drop, Holding
  <2>2. CASE Holding(Drop("ignore", "drop_journal")) BY <2>2 DEF Drop, Holding
  <2>3. CASE Holding(DropUnsafe("manifest")) BY <2>3 DEF DropUnsafe, Holding
  <2>4. CASE Holding(DropUnsafe("ignore")) BY <2>4 DEF DropUnsafe, Holding
  <2>5. CASE Holding(DropJournal) BY <2>5 DEF DropJournal, Holding
  <2> QED BY <1>5, <2>1, <2>2, <2>3, <2>4, <2>5 DEF Holding, Clean
<1>6. CASE Holding(Rebind \/ RebindConflict)
  <2>1. CASE Holding(Rebind) BY <2>1 DEF Rebind, Holding
  <2>2. CASE Holding(RebindConflict) BY <2>2 DEF RebindConflict, Holding
  <2> QED BY <1>6, <2>1, <2>2 DEF Holding
<1>7. CASE Holding(ApplyPair)
  <2>1. CASE Holding(WriteTemps) BY <2>1, FreshFree DEF WriteTemps, Holding
  <2>2. CASE Holding(WriteJournal) BY <2>2 DEF WriteJournal, Holding
  <2>3. CASE Holding(Commit) BY <2>3, Phased DEF Commit, Holding, Phases
  <2>4. CASE Holding(Link("manifest", "link_manifest", "check_manifest"))
    BY <2>4 DEF Link, Holding
  <2>5. CASE Holding(LinkExists("manifest", "link_manifest"))
    BY <2>5 DEF LinkExists, Holding
  <2>6. CASE Holding(CheckLinked("manifest", "check_manifest", "link_ignore"))
    BY <2>6 DEF CheckLinked, Holding
  <2>7. CASE Holding(CheckFailed("manifest", "check_manifest"))
    BY <2>7 DEF CheckFailed, Holding
  <2>8. CASE Holding(Link("ignore", "link_ignore", "check_ignore"))
    BY <2>8 DEF Link, Holding
  <2>9. CASE Holding(LinkExists("ignore", "link_ignore"))
    BY <2>9 DEF LinkExists, Holding
  <2>10. CASE Holding(CheckLinked("ignore", "check_ignore", "commit"))
    BY <2>10 DEF CheckLinked, Holding
  <2>11. CASE Holding(CheckFailed("ignore", "check_ignore"))
    BY <2>11 DEF CheckFailed, Holding
  <2> QED BY <1>7, <2>1, <2>2, <2>3, <2>4, <2>5, <2>6, <2>7, <2>8, <2>9, <2>10,
         <2>11 DEF Holding, ApplyPair
<1>8. CASE Holding(Migrate)
  <2>1. CASE Holding(ReadOld) BY <2>1 DEF ReadOld, Holding
  <2>2. CASE Holding(MCheck) BY <2>2 DEF MCheck, Holding
  <2>3. CASE Holding(MCheckConflict) BY <2>3 DEF MCheckConflict, Holding
  <2>4. CASE Holding(MNew) BY <2>4 DEF MNew, Holding
  <2>5. CASE Holding(MRecheck) BY <2>5 DEF MRecheck, Holding
  <2>6. CASE Holding(MRecheckConflict) BY <2>6 DEF MRecheckConflict, Holding
  <2>7. CASE Holding(MBackup) BY <2>7 DEF MBackup, Holding
  <2>8. CASE Holding(MJournal("m_backed_up", "backed_up", "m_install"))
    BY <2>8, Phased DEF MJournal, Holding, Phases
  <2>9. CASE Holding(MInstall) BY <2>9 DEF MInstall, Holding
  <2>10. CASE Holding(MJournal("m_replaced", "replaced", "m_verify"))
    BY <2>10, Phased DEF MJournal, Holding, Phases
  <2>11. CASE Holding(MVerify) BY <2>11 DEF MVerify, Holding
  <2>12. CASE Holding(MVerifyFailed) BY <2>12 DEF MVerifyFailed, Holding
  <2>13. CASE Holding(MJournal("m_commit", "committed", "m_drop_backup"))
    BY <2>13, Phased DEF MJournal, Holding, Phases
  <2>14. CASE Holding(MDropBackup) BY <2>14 DEF MDropBackup, Holding
  <2> QED BY <1>8, <2>1, <2>2, <2>3, <2>4, <2>5, <2>6, <2>7, <2>8, <2>9, <2>10,
         <2>11, <2>12, <2>13, <2>14 DEF Holding, Migrate
<1>9. CASE Holding(Restore)
  <2>1. CASE Holding(RLook) BY <2>1 DEF RLook, Holding
  <2>2. CASE Holding(RForeign) BY <2>2 DEF RForeign, Holding
  <2>3. CASE Holding(RUnlink) BY <2>3 DEF RUnlink, Holding
  <2>4. CASE Holding(RRename) BY <2>4 DEF RRename, Holding
  <2>5. CASE Holding(RTemporary) BY <2>5 DEF RTemporary, Holding
  <2>6. CASE Holding(RBackup) BY <2>6 DEF RBackup, Holding
  <2> QED BY <1>9, <2>1, <2>2, <2>3, <2>4, <2>5, <2>6 DEF Holding, Restore
<1>10. CASE Fault
  <2>1. CASE FaultOutside BY <2>1 DEF FaultOutside, FaultBounds
  <2>2. CASE FaultUnjournaled BY <2>2 DEF FaultUnjournaled, FaultBounds, Forgotten
  <2>3. CASE FaultApplying
    BY <2>3, FaultDocs DEF FaultApplying, FaultBounds, MayReplaceJournal
  <2>4. CASE FaultUndoing BY <2>4 DEF FaultUndoing, FaultBounds
  <2> QED BY FaultCases, <1>10, <2>1, <2>2, <2>3, <2>4
<1>11. CASE Crash BY <1>11 DEF Crash, Forgotten
<1>12. CASE \E f \in Files : UserWrites(f) BY <1>12 DEF UserWrites
<1>13. CASE UNCHANGED configVars BY <1>13 DEF configVars
<1> QED BY <1>1, <1>2, <1>3, <1>4, <1>5, <1>6, <1>7, <1>8, <1>9, <1>10, <1>11,
       <1>12, <1>13 DEF ConfigNext, Process, Holding

\* The texts a command writes or looks for, and what is none of them.
LEMMA Texts ==
  /\ 0 \in Versions
  /\ \A v \in Versions :
       /\ Rendered(v) \in Contents /\ Rendered(v).schema = 2 /\ Rendered(v).text = v
       /\ Legacy(v) \in Contents /\ Legacy(v).schema = 1 /\ Legacy(v).text = v
  /\ Nothing \notin Contents /\ Nothing \notin Inodes /\ Nothing \notin Journals
  /\ Torn \notin Journals /\ Torn # Nothing
BY ConfigAssumption DEF ConfigAssumption, Versions, Rendered, Legacy, Contents

\* What is behind a name, and when there is nothing.
LEMMA Behind ==
  ASSUME ConfigTypeOK, NEW n \in Names
  PROVE  /\ At(n) \in Contents <=> dirent[n] # Nothing
         /\ dirent[n] # Nothing => dirent[n] \in Inodes /\ At(n) = data[dirent[n]]
         /\ dirent[n] = Nothing => At(n) = Nothing
BY Texts DEF ConfigTypeOK, At

\* What a write of the user changes, and what it leaves alone.
LEMMA Written ==
  ASSUME ConfigTypeOK, NamesApart, NEW f \in Files, UserWrites(f)
  PROVE  /\ UNCHANGED <<journal, holder, pc, mode, doc, safe, preview, answer, found,
                        deaths, faults, spoiled>>
         /\ pc \in EditPoints
         /\ dirent'[f] \in Inodes /\ dirent'[f] # Nothing
         /\ data'[dirent'[f]].text = said'[f] /\ said'[f] # 0
         /\ data'[dirent'[f]].schema = IF dirent[f] = Nothing THEN 2 ELSE At(f).schema
         /\ \A g \in Files \ {f} : said'[g] = said[g]
         /\ \A n \in Names \ {f} :
              /\ dirent'[n] = dirent[n]
              /\ dirent[n] # Nothing /\ n # Temporary[f] => data'[dirent[n]] = data[dirent[n]]
<1> USE Temporaries DEF ConfigTypeOK
<1>1. NextVersion # 0 /\ NextVersion \in Nat
  BY DEF NextVersion, Versions
<1>2. \A n \in Names \ {f} : dirent[n] # Nothing /\ n # Temporary[f] => dirent[n] # dirent[f]
  BY DEF NamesApart
<1>3. /\ UNCHANGED <<journal, holder, pc, mode, doc, safe, preview, answer, found,
                     deaths, faults, spoiled>>
      /\ pc \in EditPoints /\ said' = [said EXCEPT ![f] = NextVersion]
  BY DEF UserWrites, local, calls
<1> DEFINE text == [schema |-> IF dirent[f] = Nothing THEN 2 ELSE At(f).schema,
                    text |-> NextVersion]
<1>4. CASE dirent[f] # Nothing /\ data' = [data EXCEPT ![dirent[f]] = text] /\ UNCHANGED dirent
  BY <1>1, <1>2, <1>3, <1>4
<1>5. CASE \E i \in Fresh : Named(f, i) /\ data' = [data EXCEPT ![i] = text]
  <2>1. PICK i \in Free : Named(f, i) /\ data' = [data EXCEPT ![i] = text]
    BY <1>5 DEF Fresh
  <2> QED BY <1>1, <1>3, <2>1, FreshFree DEF Named
<1> QED BY <1>4, <1>5 DEF UserWrites

\* Where the manifest is in place it stays, for as long as the transaction needs it.
LEMMA PresentStep ==
  ASSUME ConfigTypeOK, Structure, ConfigTypeOK', Control', [ConfigNext]_configVars
  PROVE  Present'
<1> USE JournalFields, Temporaries, Texts
    DEF ConfigTypeOK, Structure, Control, Present, Goto, Hold, Named, Undo, disk,
        local, calls, env, At, Installing, Dropping, Return, GiveUp, IsInit,
        IsMigration
<1>1. CASE \E p \in Procs : Unlocked(p)
  <2>1. CASE \E p \in Procs : Refused(p) /\ UNCHANGED <<env, spoiled>>
    BY <2>1 DEF Refused
  <2>2. CASE \E p \in Procs : PreviewInit(p) /\ UNCHANGED <<env, spoiled>>
    BY <2>2 DEF PreviewInit
  <2>3. CASE \E p \in Procs : PreviewMigration(p) /\ UNCHANGED <<env, spoiled>>
    BY <2>3 DEF PreviewMigration
  <2>4. CASE \E p \in Procs : NothingToDo(p) /\ UNCHANGED <<env, spoiled>>
    BY <2>4 DEF NothingToDo
  <2> QED BY <1>1, <2>1, <2>2, <2>3, <2>4 DEF Unlocked
<1>2. CASE \E p \in Procs : Enter(p) BY <1>2 DEF Enter, Acquire
<1>3. CASE Holding(Recover)
  <2>1. CASE Holding(RecoverNothing) BY <2>1 DEF RecoverNothing, Holding
  <2>2. CASE Holding(RecoverRefused) BY <2>2 DEF RecoverRefused, Holding
  <2>3. CASE Holding(RecoverInit) BY <2>3 DEF RecoverInit, Holding
  <2>4. CASE Holding(RecoverMigration) BY <2>4 DEF RecoverMigration, Holding
  <2> QED BY <1>3, <2>1, <2>2, <2>3, <2>4 DEF Holding, Recover
<1>4. CASE Holding(Rollback)
  <2>1. CASE Holding(UndoOwn("ignore", "unlink_ignore"))
    BY <2>1 DEF UndoOwn, Holding
  <2>2. CASE Holding(UndoSkip("ignore", "undo_manifest"))
    BY <2>2 DEF UndoSkip, Holding
  <2>3. CASE Holding(UndoUnlink("ignore", "unlink_ignore", "undo_manifest"))
    BY <2>3 DEF UndoUnlink, Holding
  <2>4. CASE Holding(UndoOwn("manifest", "unlink_manifest"))
    BY <2>4 DEF UndoOwn, Holding
  <2>5. CASE Holding(UndoSkip("manifest", "undone")) BY <2>5 DEF UndoSkip, Holding
  <2>6. CASE Holding(UndoUnlink("manifest", "unlink_manifest", "undone"))
    BY <2>6 DEF UndoUnlink, Holding
  <2>7. CASE Holding(Undone) BY <2>7 DEF Undone, Holding
  <2>8. CASE Holding(UndoneGiveUp) BY <2>8 DEF UndoneGiveUp, Holding
  <2> QED BY <1>4, <2>1, <2>2, <2>3, <2>4, <2>5, <2>6, <2>7, <2>8 DEF Holding, Rollback
<1>5. CASE Holding(Clean)
  <2>1. CASE Holding(Drop("manifest", "drop_ignore")) BY <2>1 DEF Drop, Holding
  <2>2. CASE Holding(Drop("ignore", "drop_journal")) BY <2>2 DEF Drop, Holding
  <2>3. CASE Holding(DropUnsafe("manifest")) BY <2>3 DEF DropUnsafe, Holding
  <2>4. CASE Holding(DropUnsafe("ignore")) BY <2>4 DEF DropUnsafe, Holding
  <2>5. CASE Holding(DropJournal)
    <3>1. journal' = Nothing /\ pc' \in {"idle", "rebind"} BY <2>5 DEF Holding, DropJournal
    <3> QED BY <3>1
  <2> QED BY <1>5, <2>1, <2>2, <2>3, <2>4, <2>5 DEF Holding, Clean
<1>6. CASE Holding(Rebind \/ RebindConflict)
  <2>1. CASE Holding(Rebind)
    BY <2>1, Behind, PreviewKinds DEF Rebind, Holding, Current, Previews, Shown
  <2>2. CASE Holding(RebindConflict) BY <2>2 DEF RebindConflict, Holding
  <2> QED BY <1>6, <2>1, <2>2 DEF Holding
<1>7. CASE Holding(ApplyPair)
  <2>1. CASE Holding(WriteTemps) BY <2>1 DEF WriteTemps, Holding
  <2>2. CASE Holding(WriteJournal) BY <2>2 DEF WriteJournal, Holding
  <2>3. CASE Holding(Commit) BY <2>3 DEF Commit, Holding
  <2>4. CASE Holding(Link("manifest", "link_manifest", "check_manifest"))
    BY <2>4 DEF Link, Holding
  <2>5. CASE Holding(LinkExists("manifest", "link_manifest"))
    BY <2>5 DEF LinkExists, Holding
  <2>6. CASE Holding(CheckLinked("manifest", "check_manifest", "link_ignore"))
    BY <2>6 DEF CheckLinked, Holding, Linked
  <2>7. CASE Holding(CheckFailed("manifest", "check_manifest"))
    BY <2>7 DEF CheckFailed, Holding
  <2>8. CASE Holding(Link("ignore", "link_ignore", "check_ignore"))
    BY <2>8 DEF Link, Holding
  <2>9. CASE Holding(LinkExists("ignore", "link_ignore"))
    BY <2>9 DEF LinkExists, Holding
  <2>10. CASE Holding(CheckLinked("ignore", "check_ignore", "commit"))
    BY <2>10 DEF CheckLinked, Holding
  <2>11. CASE Holding(CheckFailed("ignore", "check_ignore"))
    BY <2>11 DEF CheckFailed, Holding
  <2> QED BY <1>7, <2>1, <2>2, <2>3, <2>4, <2>5, <2>6, <2>7, <2>8, <2>9, <2>10,
         <2>11 DEF Holding, ApplyPair
<1>8. CASE Holding(Migrate)
  <2>1. CASE Holding(ReadOld) BY <2>1 DEF ReadOld, Holding
  <2>2. CASE Holding(MCheck) BY <2>2 DEF MCheck, Holding
  <2>3. CASE Holding(MCheckConflict) BY <2>3 DEF MCheckConflict, Holding
  <2>4. CASE Holding(MNew) BY <2>4 DEF MNew, Holding
  <2>5. CASE Holding(MRecheck) BY <2>5 DEF MRecheck, Holding
  <2>6. CASE Holding(MRecheckConflict) BY <2>6 DEF MRecheckConflict, Holding
  <2>7. CASE Holding(MBackup) BY <2>7 DEF MBackup, Holding
  <2>8. CASE Holding(MJournal("m_backed_up", "backed_up", "m_install"))
    BY <2>8 DEF MJournal, Holding
  <2>9. CASE Holding(MInstall) BY <2>9 DEF MInstall, Holding
  <2>10. CASE Holding(MJournal("m_replaced", "replaced", "m_verify"))
    BY <2>10 DEF MJournal, Holding
  <2>11. CASE Holding(MVerify) BY <2>11 DEF MVerify, Holding, New
  <2>12. CASE Holding(MVerifyFailed) BY <2>12 DEF MVerifyFailed, Holding
  <2>13. CASE Holding(MJournal("m_commit", "committed", "m_drop_backup"))
    BY <2>13 DEF MJournal, Holding
  <2>14. CASE Holding(MDropBackup)
    <3>1. dirent'["manifest"] = dirent["manifest"] /\ UNCHANGED <<data, journal, mode>>
      BY <2>14 DEF Holding, MDropBackup
    <3> QED BY <2>14, <3>1 DEF Holding, MDropBackup, Migrating
  <2> QED BY <1>8, <2>1, <2>2, <2>3, <2>4, <2>5, <2>6, <2>7, <2>8, <2>9, <2>10,
         <2>11, <2>12, <2>13, <2>14 DEF Holding, Migrate
<1>9. CASE Holding(Restore)
  <2>1. CASE Holding(RLook)
    <3>1. mode' = mode /\ UNCHANGED <<dirent, data, journal, deaths>> /\ mode # "apply"
      BY <2>1 DEF Holding, RLook, Restoring
    <3>2. pc' = IF \/ doc.phase = "committed"
                   \/ dirent["migrate.backup"] = Nothing
                THEN "r_temporary"
                ELSE IF dirent["manifest"] # Nothing THEN "r_unlink" ELSE "r_rename"
      BY <2>1 DEF Holding, RLook, Restoring
    <3>3. pc' = "r_temporary" => dirent["manifest"] # Nothing
      BY <2>1, <3>2 DEF Holding, RLook, Restoring, Foreign, Unmoved, New
    <3> QED BY <3>1, <3>2, <3>3
  <2>2. CASE Holding(RForeign) BY <2>2 DEF RForeign, Holding
  <2>3. CASE Holding(RUnlink) BY <2>3 DEF RUnlink, Holding
  <2>4. CASE Holding(RRename) BY <2>4 DEF RRename, Holding
  <2>5. CASE Holding(RTemporary) BY <2>5 DEF RTemporary, Holding
  <2>6. CASE Holding(RBackup) BY <2>6 DEF RBackup, Holding
  <2> QED BY <1>9, <2>1, <2>2, <2>3, <2>4, <2>5, <2>6 DEF Holding, Restore
<1>10. CASE Fault
  <2>1. CASE FaultOutside BY <2>1 DEF FaultOutside, FaultBounds
  <2>2. CASE FaultUnjournaled BY <2>2 DEF FaultUnjournaled, FaultBounds, Forgotten
  <2>3. CASE FaultApplying
    BY <2>3, FaultDocs DEF FaultApplying, FaultBounds, MayReplaceJournal
  <2>4. CASE FaultUndoing BY <2>4 DEF FaultUndoing, FaultBounds
  <2> QED BY FaultCases, <1>10, <2>1, <2>2, <2>3, <2>4
<1>11. CASE Crash BY <1>11 DEF Crash, Forgotten
<1>12. CASE \E f \in Files : UserWrites(f)
  <2>1. PICK f \in Files : UserWrites(f) BY <1>12
  <2>2. pc' = pc /\ mode' = mode /\ journal' = journal /\ deaths' = deaths
        /\ dirent'[f] # Nothing /\ \A n \in Names \ {f} : dirent'[n] = dirent[n]
    BY <2>1, Written
  <2>3. dirent["manifest"] # Nothing /\ At("manifest").schema = 2 =>
          dirent'["manifest"] # Nothing /\ data'[dirent'["manifest"]].schema = 2
    BY <2>1, Written
  <2> QED BY <2>2, <2>3
<1>13. CASE UNCHANGED configVars BY <1>13 DEF configVars
<1> QED BY <1>1, <1>2, <1>3, <1>4, <1>5, <1>6, <1>7, <1>8, <1>9, <1>10, <1>11,
       <1>12, <1>13 DEF ConfigNext, Process, Holding

-----------------------------------------------------------------------------
\* The five parts of the structure hold together.
LEMMA StructureStep ==
  ASSUME ConfigTypeOK, Structure, [ConfigNext]_configVars PROVE ConfigTypeOK' /\ Structure'
<1>1. ConfigTypeOK' BY TypeStep
<1>2. (Control /\ Shown)' BY ControlStep
<1>3. NamesApart' BY NamesStep
<1>4. Leftovers' BY LeftoversStep
<1>5. Present' BY <1>1, <1>2, PresentStep
<1> QED BY <1>1, <1>2, <1>3, <1>4, <1>5 DEF Structure

\* The structure holds before the first command.
LEMMA StructureInit == ASSUME ConfigInit PROVE ConfigTypeOK /\ Structure
<1> USE ConfigAssumption, Temporaries, Texts DEF ConfigAssumption, ConfigInit
<1>1. ConfigTypeOK
  <2>1. dirent \in [Names -> Inodes \cup {Nothing}] /\ data \in [Inodes -> Contents] OBVIOUS
  <2>2. deaths \in 0 .. MaxDeaths /\ faults \in 0 .. MaxFaults OBVIOUS
  <2>3. said \in [Files -> Versions] OBVIOUS
  <2> QED BY <2>1, <2>2, <2>3, PointNames DEF ConfigTypeOK, Modes, Answers
<1>2. Control /\ Shown
  BY DEF Control, Shown, Installing, Migrating, Dropping, Undoing, Restoring, Unjournaled
<1>3. NamesApart BY DEF NamesApart
<1>4. Leftovers BY DEF Leftovers
<1>5. Present BY DEF Present, Dropping
<1> QED BY <1>1, <1>2, <1>3, <1>4, <1>5 DEF Structure

\* Whatever the user writes, whoever dies and whatever fails: at every program
\* point the documents in memory and on disk are those of one transaction, names
\* have files of their own, and nothing but the two files is there without a journal.
THEOREM StructureHolds == ConfigSpec => [](ConfigTypeOK /\ Structure)
<1>1. ConfigInit => ConfigTypeOK /\ Structure BY StructureInit
<1>2. ConfigTypeOK /\ Structure /\ [ConfigNext]_configVars => (ConfigTypeOK /\ Structure)'
  BY StructureStep
<1> QED BY <1>1, <1>2, PTL DEF ConfigSpec

-----------------------------------------------------------------------------
\* A migration that writes its journal again moves to its next phase and changes
\* nothing else.
LEMMA Rephased ==
  ASSUME ConfigTypeOK, Structure,
         \/ Holding(MJournal("m_backed_up", "backed_up", "m_install"))
         \/ Holding(MJournal("m_replaced", "replaced", "m_verify"))
         \/ Holding(MJournal("m_commit", "committed", "m_drop_backup"))
  PROVE  /\ doc \in Journals /\ doc.kind = "migration" /\ journal = doc
         /\ doc' \in Journals /\ journal' = doc'
         /\ doc'.kind = doc.kind /\ doc'.inode = doc.inode
         /\ doc'.old = doc.old /\ doc'.new = doc.new
         /\ (pc = "m_backed_up" /\ pc' = "m_install" /\ doc'.phase = "backed_up")
            \/ (pc = "m_replaced" /\ pc' = "m_verify" /\ doc'.phase = "replaced")
            \/ (pc = "m_commit" /\ pc' = "m_drop_backup" /\ doc'.phase = "committed")
         /\ UNCHANGED <<dirent, data, mode, safe, holder, preview, answer, env, spoiled>>
<1>1. doc \in Journals /\ doc.kind = "migration" /\ journal = doc
  BY DEF Holding, MJournal, Goto, Structure, Control, IsMigration, Migrating
<1>2. \A ph \in Phases : /\ [doc EXCEPT !.phase = ph] \in Journals
                         /\ [doc EXCEPT !.phase = ph].kind = doc.kind
                         /\ [doc EXCEPT !.phase = ph].phase = ph
                         /\ [doc EXCEPT !.phase = ph].inode = doc.inode
                         /\ [doc EXCEPT !.phase = ph].old = doc.old
                         /\ [doc EXCEPT !.phase = ph].new = doc.new
  BY <1>1, Phased
<1>3. PICK ph \in Phases :
        /\ doc' = [doc EXCEPT !.phase = ph]
        /\ (pc = "m_backed_up" /\ pc' = "m_install" /\ ph = "backed_up")
           \/ (pc = "m_replaced" /\ pc' = "m_verify" /\ ph = "replaced")
           \/ (pc = "m_commit" /\ pc' = "m_drop_backup" /\ ph = "committed")
  BY DEF Holding, MJournal, Goto, Phases
<1>4. /\ journal' = doc'
      /\ UNCHANGED <<dirent, data, mode, safe, holder, preview, answer, env, spoiled>>
  BY DEF Holding, MJournal, Hold, calls
<1>5. doc'.phase = ph /\ doc' \in Journals /\ doc'.kind = doc.kind /\ doc'.inode = doc.inode
      /\ doc'.old = doc.old /\ doc'.new = doc.new
  BY <1>2, <1>3
<1> QED BY <1>1, <1>3, <1>4, <1>5

\* A pair is committed by its journal, and nothing else changes.
LEMMA Committed ==
  ASSUME ConfigTypeOK, Structure, Holding(Commit)
  PROVE  /\ doc \in Journals /\ doc.kind = "init" /\ journal = doc
         /\ journal' \in Journals /\ journal'.kind = "init" /\ journal'.phase = "committed"
         /\ journal'.old = 0 /\ journal'.new = 0
         /\ pc = "commit" /\ pc' = "drop_manifest" /\ mode = "apply"
         /\ UNCHANGED <<dirent, data, mode, doc, safe, holder, preview, answer, env, spoiled>>
<1>1. doc \in Journals /\ doc.kind = "init" /\ journal = doc /\ mode = "apply"
  BY DEF Holding, Commit, Goto, Structure, Control, IsInit, Installing
<1>2. /\ [doc EXCEPT !.phase = "committed"] \in Journals
      /\ [doc EXCEPT !.phase = "committed"].kind = doc.kind
      /\ [doc EXCEPT !.phase = "committed"].phase = "committed"
  BY <1>1, Phased DEF Phases
<1> QED BY <1>1, <1>2, JournalFields DEF Holding, Commit, Goto, Hold, calls, local

\* As long as nobody has written, every text is the one that was rendered or found.
LEMMA PristineStep ==
  ASSUME ConfigTypeOK, Structure, Untouched, Pristine, Halfway, Untouched',
         ConfigTypeOK', Control', [ConfigNext]_configVars
  PROVE  Pristine'
<1> USE JournalFields, Temporaries, Texts
    DEF ConfigTypeOK, Structure, Control, Pristine, Plain, Goto, Hold, Named, Undo,
        disk, local, calls, env, Return, GiveUp, IsInit, IsMigration
<1>1. CASE \E p \in Procs : Unlocked(p)
  <2>1. CASE \E p \in Procs : Refused(p) /\ UNCHANGED <<env, spoiled>>
    BY <2>1 DEF Refused
  <2>2. CASE \E p \in Procs : PreviewInit(p) /\ UNCHANGED <<env, spoiled>>
    BY <2>2 DEF PreviewInit, Halfway, Whole
  <2>3. CASE \E p \in Procs : PreviewMigration(p) /\ UNCHANGED <<env, spoiled>>
    BY <2>3, Behind DEF PreviewMigration
  <2>4. CASE \E p \in Procs : NothingToDo(p) /\ UNCHANGED <<env, spoiled>>
    BY <2>4 DEF NothingToDo
  <2> QED BY <1>1, <2>1, <2>2, <2>3, <2>4 DEF Unlocked
<1>2. CASE \E p \in Procs : Enter(p) BY <1>2 DEF Enter, Acquire
<1>3. CASE Holding(Recover)
  <2>1. CASE Holding(RecoverNothing) BY <2>1 DEF RecoverNothing, Holding
  <2>2. CASE Holding(RecoverRefused) BY <2>2 DEF RecoverRefused, Holding
  <2>3. CASE Holding(RecoverInit) BY <2>3 DEF RecoverInit, Holding
  <2>4. CASE Holding(RecoverMigration) BY <2>4 DEF RecoverMigration, Holding
  <2> QED BY <1>3, <2>1, <2>2, <2>3, <2>4 DEF Holding, Recover
<1>4. CASE Holding(Rollback)
  <2>1. CASE Holding(UndoOwn("ignore", "unlink_ignore"))
    BY <2>1 DEF UndoOwn, Holding
  <2>2. CASE Holding(UndoSkip("ignore", "undo_manifest"))
    BY <2>2 DEF UndoSkip, Holding
  <2>3. CASE Holding(UndoUnlink("ignore", "unlink_ignore", "undo_manifest"))
    BY <2>3 DEF UndoUnlink, Holding
  <2>4. CASE Holding(UndoOwn("manifest", "unlink_manifest"))
    BY <2>4 DEF UndoOwn, Holding
  <2>5. CASE Holding(UndoSkip("manifest", "undone")) BY <2>5 DEF UndoSkip, Holding
  <2>6. CASE Holding(UndoUnlink("manifest", "unlink_manifest", "undone"))
    BY <2>6 DEF UndoUnlink, Holding
  <2>7. CASE Holding(Undone) BY <2>7 DEF Undone, Holding
  <2>8. CASE Holding(UndoneGiveUp) BY <2>8 DEF UndoneGiveUp, Holding
  <2> QED BY <1>4, <2>1, <2>2, <2>3, <2>4, <2>5, <2>6, <2>7, <2>8 DEF Holding, Rollback
<1>5. CASE Holding(Clean)
  <2>1. CASE Holding(Drop("manifest", "drop_ignore")) BY <2>1 DEF Drop, Holding
  <2>2. CASE Holding(Drop("ignore", "drop_journal")) BY <2>2 DEF Drop, Holding
  <2>3. CASE Holding(DropUnsafe("manifest")) BY <2>3 DEF DropUnsafe, Holding
  <2>4. CASE Holding(DropUnsafe("ignore")) BY <2>4 DEF DropUnsafe, Holding
  <2>5. CASE Holding(DropJournal) BY <2>5 DEF DropJournal, Holding
  <2> QED BY <1>5, <2>1, <2>2, <2>3, <2>4, <2>5 DEF Holding, Clean
<1>6. CASE Holding(Rebind \/ RebindConflict)
  <2>1. CASE Holding(Rebind) BY <2>1 DEF Rebind, Holding
  <2>2. CASE Holding(RebindConflict) BY <2>2 DEF RebindConflict, Holding
  <2> QED BY <1>6, <2>1, <2>2 DEF Holding
<1>7. CASE Holding(ApplyPair)
  <2>1. CASE Holding(WriteTemps)
    BY <2>1, PreviewKinds DEF WriteTemps, Holding, Shown, Free
  <2>2. CASE Holding(WriteJournal) BY <2>2 DEF WriteJournal, Holding, Installing
  <2>3. CASE Holding(Commit) BY <2>3, Committed
  <2>4. CASE Holding(Link("manifest", "link_manifest", "check_manifest"))
    BY <2>4 DEF Link, Holding
  <2>5. CASE Holding(LinkExists("manifest", "link_manifest"))
    BY <2>5 DEF LinkExists, Holding
  <2>6. CASE Holding(CheckLinked("manifest", "check_manifest", "link_ignore"))
    BY <2>6 DEF CheckLinked, Holding
  <2>7. CASE Holding(CheckFailed("manifest", "check_manifest"))
    BY <2>7 DEF CheckFailed, Holding
  <2>8. CASE Holding(Link("ignore", "link_ignore", "check_ignore"))
    BY <2>8 DEF Link, Holding
  <2>9. CASE Holding(LinkExists("ignore", "link_ignore"))
    BY <2>9 DEF LinkExists, Holding
  <2>10. CASE Holding(CheckLinked("ignore", "check_ignore", "commit"))
    BY <2>10 DEF CheckLinked, Holding
  <2>11. CASE Holding(CheckFailed("ignore", "check_ignore"))
    BY <2>11 DEF CheckFailed, Holding
  <2> QED BY <1>7, <2>1, <2>2, <2>3, <2>4, <2>5, <2>6, <2>7, <2>8, <2>9, <2>10,
         <2>11 DEF Holding, ApplyPair
<1>8. CASE Holding(Migrate)
  <2>1. CASE Holding(ReadOld)
    BY <2>1, ReadDoc, PreviewKinds DEF ReadOld, Holding, Shown
  <2>2. CASE Holding(MCheck) BY <2>2 DEF MCheck, Holding
  <2>3. CASE Holding(MCheckConflict) BY <2>3 DEF MCheckConflict, Holding
  <2>4. CASE Holding(MNew) BY <2>4 DEF MNew, Holding, Fresh, Free
  <2>5. CASE Holding(MRecheck) BY <2>5 DEF MRecheck, Holding
  <2>6. CASE Holding(MRecheckConflict) BY <2>6 DEF MRecheckConflict, Holding
  <2>7. CASE Holding(MBackup) BY <2>7 DEF MBackup, Holding
  <2>8. CASE Holding(MJournal("m_backed_up", "backed_up", "m_install"))
    BY <2>8, Rephased
  <2>9. CASE Holding(MInstall) BY <2>9 DEF MInstall, Holding
  <2>10. CASE Holding(MJournal("m_replaced", "replaced", "m_verify"))
    BY <2>10, Rephased
  <2>11. CASE Holding(MVerify) BY <2>11 DEF MVerify, Holding
  <2>12. CASE Holding(MVerifyFailed) BY <2>12 DEF MVerifyFailed, Holding
  <2>13. CASE Holding(MJournal("m_commit", "committed", "m_drop_backup"))
    BY <2>13, Rephased
  <2>14. CASE Holding(MDropBackup) BY <2>14 DEF MDropBackup, Holding
  <2> QED BY <1>8, <2>1, <2>2, <2>3, <2>4, <2>5, <2>6, <2>7, <2>8, <2>9, <2>10,
         <2>11, <2>12, <2>13, <2>14 DEF Holding, Migrate
<1>9. CASE Holding(Restore)
  <2>1. CASE Holding(RLook) BY <2>1 DEF RLook, Holding
  <2>2. CASE Holding(RForeign) BY <2>2 DEF RForeign, Holding
  <2>3. CASE Holding(RUnlink) BY <2>3 DEF RUnlink, Holding
  <2>4. CASE Holding(RRename) BY <2>4 DEF RRename, Holding
  <2>5. CASE Holding(RTemporary) BY <2>5 DEF RTemporary, Holding
  <2>6. CASE Holding(RBackup) BY <2>6 DEF RBackup, Holding
  <2> QED BY <1>9, <2>1, <2>2, <2>3, <2>4, <2>5, <2>6 DEF Holding, Restore
<1>10. CASE Fault
  <2>1. CASE FaultOutside BY <2>1 DEF FaultOutside, FaultBounds
  <2>2. CASE FaultUnjournaled BY <2>2 DEF FaultUnjournaled, FaultBounds, Forgotten
  <2>3. CASE FaultApplying
    <3>1. UNCHANGED <<data, found, holder, preview>>
      BY <2>3 DEF FaultApplying, FaultBounds
    <3> QED BY <3>1, <2>3, FaultDocs
  <2>4. CASE FaultUndoing BY <2>4 DEF FaultUndoing, FaultBounds
  <2> QED BY FaultCases, <1>10, <2>1, <2>2, <2>3, <2>4
<1>11. CASE Crash BY <1>11 DEF Crash, Forgotten
<1>12. CASE \E f \in Files : UserWrites(f)
  <2>1. PICK f \in Files : UserWrites(f) BY <1>12
  <2> QED BY <2>1, Written DEF Untouched
<1>13. CASE UNCHANGED configVars BY <1>13 DEF configVars
<1> QED BY <1>1, <1>2, <1>3, <1>4, <1>5, <1>6, <1>7, <1>8, <1>9, <1>10, <1>11,
       <1>12, <1>13 DEF ConfigNext, Process, Holding

\* When nobody has written, a pair is made of the rendered texts and no others.
LEMMA PlainText ==
  ASSUME ConfigTypeOK, Pristine, "manifest" \notin found, NEW n \in Names
  PROVE  At(n) = IF dirent[n] = Nothing THEN Nothing ELSE Rendered(0)
BY Behind DEF Pristine, Rendered, Contents, ConfigTypeOK

\* As long as nobody has written, the two files are as far as the program point says.
LEMMA HalfwayStep ==
  ASSUME ConfigTypeOK, Structure, Untouched, Pristine, Halfway, Untouched',
         ConfigTypeOK', Structure', Pristine', [ConfigNext]_configVars
  PROVE  Halfway'
<1> USE JournalFields, Temporaries, Texts
    DEF ConfigTypeOK, Structure, Control, Pristine, Plain, Halfway, Whole, New,
        Unmoved, At, Present, Leftovers, Goto, Hold, Named, Undo, disk, local,
        calls, env, Return, GiveUp, IsInit, IsMigration, Undoing, Restoring,
        Dropping, Installing, Migrating
<1>1. CASE \E p \in Procs : Unlocked(p)
  <2>1. CASE \E p \in Procs : Refused(p) /\ UNCHANGED <<env, spoiled>>
    BY <2>1 DEF Refused
  <2>2. CASE \E p \in Procs : PreviewInit(p) /\ UNCHANGED <<env, spoiled>>
    BY <2>2 DEF PreviewInit
  <2>3. CASE \E p \in Procs : PreviewMigration(p) /\ UNCHANGED <<env, spoiled>>
    BY <2>3 DEF PreviewMigration
  <2>4. CASE \E p \in Procs : NothingToDo(p) /\ UNCHANGED <<env, spoiled>>
    BY <2>4 DEF NothingToDo
  <2> QED BY <1>1, <2>1, <2>2, <2>3, <2>4 DEF Unlocked
<1>2. CASE \E p \in Procs : Enter(p) BY <1>2 DEF Enter, Acquire
<1>3. CASE Holding(Recover)
  <2>1. CASE Holding(RecoverNothing) BY <2>1 DEF RecoverNothing, Holding
  <2>2. CASE Holding(RecoverRefused) BY <2>2 DEF RecoverRefused, Holding
  <2>3. CASE Holding(RecoverInit)
    BY <2>3, PlainText DEF RecoverInit, Holding, Dropping
  <2>4. CASE Holding(RecoverMigration) BY <2>4 DEF RecoverMigration, Holding
  <2> QED BY <1>3, <2>1, <2>2, <2>3, <2>4 DEF Holding, Recover
<1>4. CASE Holding(Rollback)
  <2>1. CASE Holding(UndoOwn("ignore", "unlink_ignore"))
    BY <2>1 DEF UndoOwn, Holding
  <2>2. CASE Holding(UndoSkip("ignore", "undo_manifest"))
    BY <2>2 DEF UndoSkip, Holding
  <2>3. CASE Holding(UndoUnlink("ignore", "unlink_ignore", "undo_manifest"))
    BY <2>3 DEF UndoUnlink, Holding
  <2>4. CASE Holding(UndoOwn("manifest", "unlink_manifest"))
    BY <2>4 DEF UndoOwn, Holding
  <2>5. CASE Holding(UndoSkip("manifest", "undone")) BY <2>5 DEF UndoSkip, Holding
  <2>6. CASE Holding(UndoUnlink("manifest", "unlink_manifest", "undone"))
    BY <2>6 DEF UndoUnlink, Holding
  <2>7. CASE Holding(Undone) BY <2>7 DEF Undone, Holding, Dropping, Undoing
  <2>8. CASE Holding(UndoneGiveUp) BY <2>8 DEF UndoneGiveUp, Holding, Modes
  <2> QED BY <1>4, <2>1, <2>2, <2>3, <2>4, <2>5, <2>6, <2>7, <2>8 DEF Holding, Rollback
<1>5. CASE Holding(Clean)
  <2>1. CASE Holding(Drop("manifest", "drop_ignore")) BY <2>1 DEF Drop, Holding
  <2>2. CASE Holding(Drop("ignore", "drop_journal")) BY <2>2 DEF Drop, Holding
  <2>3. CASE Holding(DropUnsafe("manifest"))
    BY <2>3, PlainText DEF DropUnsafe, Holding, Dropping
  <2>4. CASE Holding(DropUnsafe("ignore"))
    BY <2>4, PlainText DEF DropUnsafe, Holding, Dropping
  <2>5. CASE Holding(DropJournal) BY <2>5 DEF DropJournal, Holding
  <2> QED BY <1>5, <2>1, <2>2, <2>3, <2>4, <2>5 DEF Holding, Clean
<1>6. CASE Holding(Rebind \/ RebindConflict)
  <2>1. CASE Holding(Rebind)
    <3>1. UNCHANGED <<dirent, data, journal, mode, doc, safe, found, faults, deaths>>
      BY <2>1 DEF Holding, Rebind
    <3>2. /\ preview[holder] \in Previews /\ preview[holder].text = 0
          /\ preview[holder].kind \in {"init", "migration"}
      BY <2>1, PreviewKinds DEF Holding, Structure, Shown
    <3>3. pc' = "write_temps" => \A f \in Files : dirent[f] = Nothing
      BY <2>1, <3>2 DEF Holding, Rebind, Current
    <3>4. pc' = "read_old" => At("manifest") = Legacy(0)
      BY <2>1, <3>2 DEF Holding, Rebind, Current
    <3>5. /\ pc = "rebind" /\ pc' \in {"write_temps", "read_old"}
          /\ journal = Nothing /\ mode = "apply"
      BY <2>1 DEF Holding, Rebind
    <3> QED BY <3>1, <3>3, <3>4, <3>5
  <2>2. CASE Holding(RebindConflict) BY <2>2 DEF RebindConflict, Holding
  <2> QED BY <1>6, <2>1, <2>2 DEF Holding
<1>7. CASE Holding(ApplyPair)
  <2>1. CASE Holding(WriteTemps) BY <2>1, FreshFree DEF WriteTemps, Holding
  <2>2. CASE Holding(WriteJournal) BY <2>2 DEF WriteJournal, Holding
  <2>3. CASE Holding(Commit) BY <2>3, Committed
  <2>4. CASE Holding(Link("manifest", "link_manifest", "check_manifest"))
    BY <2>4 DEF Link, Holding
  <2>5. CASE Holding(LinkExists("manifest", "link_manifest"))
    BY <2>5 DEF LinkExists, Holding
  <2>6. CASE Holding(CheckLinked("manifest", "check_manifest", "link_ignore"))
    BY <2>6 DEF CheckLinked, Holding, Linked
  <2>7. CASE Holding(CheckFailed("manifest", "check_manifest"))
    BY <2>7, PlainText DEF CheckFailed, Holding, Linked
  <2>8. CASE Holding(Link("ignore", "link_ignore", "check_ignore"))
    BY <2>8 DEF Link, Holding
  <2>9. CASE Holding(LinkExists("ignore", "link_ignore"))
    BY <2>9 DEF LinkExists, Holding
  <2>10. CASE Holding(CheckLinked("ignore", "check_ignore", "commit"))
    BY <2>10 DEF CheckLinked, Holding, Linked
  <2>11. CASE Holding(CheckFailed("ignore", "check_ignore"))
    BY <2>11, PlainText DEF CheckFailed, Holding, Linked
  <2> QED BY <1>7, <2>1, <2>2, <2>3, <2>4, <2>5, <2>6, <2>7, <2>8, <2>9, <2>10,
         <2>11 DEF Holding, ApplyPair
<1>8. CASE Holding(Migrate)
  <2>1. CASE Holding(ReadOld) BY <2>1, ReadDoc DEF ReadOld, Holding
  <2>2. CASE Holding(MCheck) BY <2>2 DEF MCheck, Holding
  <2>3. CASE Holding(MCheckConflict) BY <2>3 DEF MCheckConflict, Holding
  <2>4. CASE Holding(MNew) BY <2>4, FreshFree DEF MNew, Holding, Fresh
  <2>5. CASE Holding(MRecheck) BY <2>5 DEF MRecheck, Holding
  <2>6. CASE Holding(MRecheckConflict) BY <2>6 DEF MRecheckConflict, Holding
  <2>7. CASE Holding(MBackup) BY <2>7 DEF MBackup, Holding
  <2>8. CASE Holding(MJournal("m_backed_up", "backed_up", "m_install"))
    BY <2>8, Rephased
  <2>9. CASE Holding(MInstall) BY <2>9 DEF MInstall, Holding
  <2>10. CASE Holding(MJournal("m_replaced", "replaced", "m_verify"))
    BY <2>10, Rephased
  <2>11. CASE Holding(MVerify) BY <2>11 DEF MVerify, Holding
  <2>12. CASE Holding(MVerifyFailed) BY <2>12 DEF MVerifyFailed, Holding
  <2>13. CASE Holding(MJournal("m_commit", "committed", "m_drop_backup"))
    BY <2>13, Rephased
  <2>14. CASE Holding(MDropBackup) BY <2>14 DEF MDropBackup, Holding
  <2> QED BY <1>8, <2>1, <2>2, <2>3, <2>4, <2>5, <2>6, <2>7, <2>8, <2>9, <2>10,
         <2>11, <2>12, <2>13, <2>14 DEF Holding, Migrate
<1>9. CASE Holding(Restore)
  <2>1. CASE Holding(RLook) BY <2>1 DEF RLook, Holding
  <2>2. CASE Holding(RForeign) BY <2>2 DEF RForeign, Holding, Modes
  <2>3. CASE Holding(RUnlink) BY <2>3 DEF RUnlink, Holding
  <2>4. CASE Holding(RRename) BY <2>4 DEF RRename, Holding
  <2>5. CASE Holding(RTemporary) BY <2>5 DEF RTemporary, Holding
  <2>6. CASE Holding(RBackup)
    <3>1. CASE mode = "recovery" BY <2>6, <3>1 DEF RBackup, Holding
    <3>2. CASE mode # "recovery" BY <2>6, <3>2 DEF RBackup, Holding, Modes
    <3> QED BY <3>1, <3>2
  <2> QED BY <1>9, <2>1, <2>2, <2>3, <2>4, <2>5, <2>6 DEF Holding, Restore
<1>10. CASE Fault
  <2>1. CASE FaultOutside BY <2>1, FaultTyped DEF FaultOutside, FaultBounds
  <2>2. CASE FaultUnjournaled
    <3>1. journal' = Nothing /\ journal = Nothing /\ pc' = "idle" /\ mode' = "apply"
      BY <2>2 DEF FaultUnjournaled, Unjournaled
    <3>2. UNCHANGED <<found, data>> /\ \A f \in Files : dirent'[f] = dirent[f]
      BY <2>2 DEF FaultUnjournaled, FaultBounds, Forgotten, Transient
    <3> QED BY <3>1, <3>2
  <2>3. CASE FaultApplying
    <3>1. /\ UNCHANGED <<dirent, data, found, deaths>> /\ faults' > 0
          /\ mode' = "failed" /\ pc' \in {"undo_ignore", "r_look"}
      BY <2>3, FaultTyped DEF FaultApplying, FaultBounds
    <3> QED BY <3>1, <2>3, FaultDocs
  <2>4. CASE FaultUndoing BY <2>4, FaultTyped DEF FaultUndoing, FaultBounds
  <2> QED BY FaultCases, <1>10, <2>1, <2>2, <2>3, <2>4
<1>11. CASE Crash
  <2>1. deaths' > 0 /\ faults + deaths' > 0 /\ pc' = "idle" /\ mode' = "apply"
    BY <1>11 DEF Crash
  <2>2. journal' = journal \/ journal = Nothing
    BY <1>11 DEF Crash, Unjournaled
  <2>3. UNCHANGED <<found, faults, data>> /\ \A f \in Files : dirent'[f] = dirent[f]
    BY <1>11 DEF Crash, Forgotten, Transient
  <2>4. Whole' \/ journal' \in Journals BY <2>2, <2>3
  <2> QED BY <2>1, <2>3, <2>4
<1>12. CASE \E f \in Files : UserWrites(f)
  <2>1. PICK f \in Files : UserWrites(f) BY <1>12
  <2> QED BY <2>1, Written DEF Untouched
<1>13. CASE UNCHANGED configVars BY <1>13 DEF configVars
<1> QED BY <1>1, <1>2, <1>3, <1>4, <1>5, <1>6, <1>7, <1>8, <1>9, <1>10, <1>11,
       <1>12, <1>13 DEF ConfigNext, Process, Holding

\* What Recoverable asks for when nobody has written.
PlainRecoverable ==
  /\ journal \in Journals
  /\ journal.kind = "init" =>
       \A f \in Files : IF journal.phase = "committed" THEN dirent[f] # Nothing
                        ELSE /\ dirent[Temporary[f]] # Nothing
                             /\ dirent[f] = Nothing \/ dirent[f] = dirent[Temporary[f]]
  /\ journal.kind = "migration" =>
       IF journal.phase = "committed" THEN At("manifest") = Rendered(0)
       ELSE IF dirent["migrate.backup"] # Nothing
         THEN /\ dirent["migrate.backup"] = journal.inode /\ At("migrate.backup") = Legacy(0)
              /\ dirent["manifest"] = Nothing \/ At("manifest") = Rendered(0)
       ELSE dirent["manifest"] = journal.inode /\ At("manifest") = Legacy(0)

\* As long as nobody has written, a recovery accepts a journal for the reasons
\* PlainRecoverable gives.
LEMMA PlainRecovery == ConfigTypeOK /\ Pristine => (Recoverable <=> PlainRecoverable)
<1> SUFFICES ASSUME ConfigTypeOK, Pristine PROVE Recoverable <=> PlainRecoverable OBVIOUS
<1> USE Temporaries, Texts
<1>1. CASE journal \in Journals /\ journal.kind = "init"
  <2>1. "manifest" \notin found BY <1>1 DEF Pristine, Plain
  <2>2. \A n \in Names : At(n) = IF dirent[n] = Nothing THEN Nothing ELSE Rendered(0)
    BY <2>1, PlainText
  <2> QED BY <1>1, <2>2 DEF Recoverable, PlainRecoverable, Linked
<1>2. CASE journal \in Journals /\ journal.kind = "migration"
  <2>1. journal.old = 0 /\ journal.new = 0 BY <1>2 DEF Pristine, Plain
  <2>2. dirent["migrate.backup"] # Nothing =>
          At("migrate.backup") = data[dirent["migrate.backup"]]
    BY Behind
  <2> QED BY <1>2, <2>1, <2>2 DEF Recoverable, PlainRecoverable, Unmoved
<1> QED BY <1>1, <1>2, JournalFields DEF Recoverable, PlainRecoverable

\* As long as nobody has written and no journal is spoiled, every step leaves a
\* journal that the next recovery accepts.
LEMMA SaneStep ==
  ASSUME ConfigTypeOK, Structure, Untouched, Pristine, Halfway, Sane, ~spoiled,
         ~spoiled', Untouched', ConfigTypeOK', Structure', Pristine', Halfway',
         [ConfigNext]_configVars
  PROVE  Sane'
<1> USE JournalFields, Temporaries, Texts
    DEF ConfigTypeOK, Structure, Control, Pristine, Plain, Halfway, Sane,
        PlainRecoverable, Half, New, Unmoved, At, Present, Leftovers, Goto, Hold,
        Named, Undo, disk, local, calls, env, Return, GiveUp, IsInit, IsMigration,
        Undoing, Restoring, Dropping, Installing, Migrating
<1>a. Recoverable <=> PlainRecoverable
  BY PlainRecovery
<1>b. (Recoverable <=> PlainRecoverable)'
  BY PlainRecovery, PTL
<1> USE <1>a, <1>b
<1>1. CASE \E p \in Procs : Unlocked(p)
  <2>1. CASE \E p \in Procs : Refused(p) /\ UNCHANGED <<env, spoiled>>
    BY <2>1 DEF Refused
  <2>2. CASE \E p \in Procs : PreviewInit(p) /\ UNCHANGED <<env, spoiled>>
    BY <2>2 DEF PreviewInit
  <2>3. CASE \E p \in Procs : PreviewMigration(p) /\ UNCHANGED <<env, spoiled>>
    BY <2>3 DEF PreviewMigration
  <2>4. CASE \E p \in Procs : NothingToDo(p) /\ UNCHANGED <<env, spoiled>>
    BY <2>4 DEF NothingToDo
  <2> QED BY <1>1, <2>1, <2>2, <2>3, <2>4 DEF Unlocked
<1>2. CASE \E p \in Procs : Enter(p) BY <1>2 DEF Enter, Acquire
<1>3. CASE Holding(Recover)
  <2>1. CASE Holding(RecoverNothing) BY <2>1 DEF RecoverNothing, Holding
  <2>2. CASE Holding(RecoverRefused) BY <2>2 DEF RecoverRefused, Holding
  <2>3. CASE Holding(RecoverInit) BY <2>3 DEF RecoverInit, Holding
  <2>4. CASE Holding(RecoverMigration) BY <2>4 DEF RecoverMigration, Holding
  <2> QED BY <1>3, <2>1, <2>2, <2>3, <2>4 DEF Holding, Recover
<1>4. CASE Holding(Rollback)
  <2>1. CASE Holding(UndoOwn("ignore", "unlink_ignore"))
    BY <2>1, PlainText DEF UndoOwn, Holding, Linked
  <2>2. CASE Holding(UndoSkip("ignore", "undo_manifest"))
    BY <2>2, PlainText DEF UndoSkip, Holding, Linked
  <2>3. CASE Holding(UndoUnlink("ignore", "unlink_ignore", "undo_manifest"))
    BY <2>3 DEF UndoUnlink, Holding
  <2>4. CASE Holding(UndoOwn("manifest", "unlink_manifest"))
    BY <2>4, PlainText DEF UndoOwn, Holding, Linked
  <2>5. CASE Holding(UndoSkip("manifest", "undone"))
    BY <2>5, PlainText DEF UndoSkip, Holding, Linked
  <2>6. CASE Holding(UndoUnlink("manifest", "unlink_manifest", "undone"))
    BY <2>6 DEF UndoUnlink, Holding
  <2>7. CASE Holding(Undone) BY <2>7 DEF Undone, Holding
  <2>8. CASE Holding(UndoneGiveUp) BY <2>8 DEF UndoneGiveUp, Holding
  <2> QED BY <1>4, <2>1, <2>2, <2>3, <2>4, <2>5, <2>6, <2>7, <2>8 DEF Holding, Rollback
<1>5. CASE Holding(Clean)
  <2>1. CASE Holding(Drop("manifest", "drop_ignore")) BY <2>1 DEF Drop, Holding
  <2>2. CASE Holding(Drop("ignore", "drop_journal")) BY <2>2 DEF Drop, Holding
  <2>3. CASE Holding(DropUnsafe("manifest"))
    BY <2>3, PlainText DEF DropUnsafe, Holding
  <2>4. CASE Holding(DropUnsafe("ignore"))
    BY <2>4, PlainText DEF DropUnsafe, Holding
  <2>5. CASE Holding(DropJournal) BY <2>5 DEF DropJournal, Holding
  <2> QED BY <1>5, <2>1, <2>2, <2>3, <2>4, <2>5 DEF Holding, Clean
<1>6. CASE Holding(Rebind \/ RebindConflict)
  <2>1. CASE Holding(Rebind) BY <2>1 DEF Rebind, Holding
  <2>2. CASE Holding(RebindConflict) BY <2>2 DEF RebindConflict, Holding
  <2> QED BY <1>6, <2>1, <2>2 DEF Holding
<1>7. CASE Holding(ApplyPair)
  <2>1. CASE Holding(WriteTemps) BY <2>1 DEF WriteTemps, Holding
  <2>2. CASE Holding(WriteJournal) BY <2>2 DEF WriteJournal, Holding
  <2>3. CASE Holding(Commit) BY <2>3, Committed
  <2>4. CASE Holding(Link("manifest", "link_manifest", "check_manifest"))
    BY <2>4 DEF Link, Holding
  <2>5. CASE Holding(LinkExists("manifest", "link_manifest"))
    BY <2>5 DEF LinkExists, Holding
  <2>6. CASE Holding(CheckLinked("manifest", "check_manifest", "link_ignore"))
    BY <2>6 DEF CheckLinked, Holding
  <2>7. CASE Holding(CheckFailed("manifest", "check_manifest"))
    BY <2>7 DEF CheckFailed, Holding
  <2>8. CASE Holding(Link("ignore", "link_ignore", "check_ignore"))
    BY <2>8 DEF Link, Holding
  <2>9. CASE Holding(LinkExists("ignore", "link_ignore"))
    BY <2>9 DEF LinkExists, Holding
  <2>10. CASE Holding(CheckLinked("ignore", "check_ignore", "commit"))
    BY <2>10 DEF CheckLinked, Holding
  <2>11. CASE Holding(CheckFailed("ignore", "check_ignore"))
    BY <2>11 DEF CheckFailed, Holding
  <2> QED BY <1>7, <2>1, <2>2, <2>3, <2>4, <2>5, <2>6, <2>7, <2>8, <2>9, <2>10,
         <2>11 DEF Holding, ApplyPair
<1>8. CASE Holding(Migrate)
  <2>1. CASE Holding(ReadOld) BY <2>1 DEF ReadOld, Holding
  <2>2. CASE Holding(MCheck) BY <2>2 DEF MCheck, Holding
  <2>3. CASE Holding(MCheckConflict) BY <2>3 DEF MCheckConflict, Holding
  <2>4. CASE Holding(MNew) BY <2>4 DEF MNew, Holding
  <2>5. CASE Holding(MRecheck) BY <2>5 DEF MRecheck, Holding
  <2>6. CASE Holding(MRecheckConflict) BY <2>6 DEF MRecheckConflict, Holding
  <2>7. CASE Holding(MBackup) BY <2>7 DEF MBackup, Holding
  <2>8. CASE Holding(MJournal("m_backed_up", "backed_up", "m_install"))
    BY <2>8, Rephased
  <2>9. CASE Holding(MInstall) BY <2>9 DEF MInstall, Holding
  <2>10. CASE Holding(MJournal("m_replaced", "replaced", "m_verify"))
    BY <2>10, Rephased
  <2>11. CASE Holding(MVerify) BY <2>11 DEF MVerify, Holding
  <2>12. CASE Holding(MVerifyFailed) BY <2>12 DEF MVerifyFailed, Holding
  <2>13. CASE Holding(MJournal("m_commit", "committed", "m_drop_backup"))
    BY <2>13, Rephased
  <2>14. CASE Holding(MDropBackup) BY <2>14 DEF MDropBackup, Holding
  <2> QED BY <1>8, <2>1, <2>2, <2>3, <2>4, <2>5, <2>6, <2>7, <2>8, <2>9, <2>10,
         <2>11, <2>12, <2>13, <2>14 DEF Holding, Migrate
<1>9. CASE Holding(Restore)
  <2>1. CASE Holding(RLook) BY <2>1 DEF RLook, Holding
  <2>2. CASE Holding(RForeign) BY <2>2 DEF RForeign, Holding
  <2>3. CASE Holding(RUnlink) BY <2>3 DEF RUnlink, Holding
  <2>4. CASE Holding(RRename) BY <2>4 DEF RRename, Holding
  <2>5. CASE Holding(RTemporary) BY <2>5 DEF RTemporary, Holding
  <2>6. CASE Holding(RBackup) BY <2>6 DEF RBackup, Holding
  <2> QED BY <1>9, <2>1, <2>2, <2>3, <2>4, <2>5, <2>6 DEF Holding, Restore
<1>10. CASE Fault
  <2>1. CASE FaultOutside BY <2>1 DEF FaultOutside, FaultBounds, Outside
  <2>2. CASE FaultUnjournaled BY <2>2 DEF FaultUnjournaled, FaultBounds, Forgotten
  <2>3. CASE FaultApplying
    <3>1. UNCHANGED <<dirent, data, found, deaths>> /\ mode' = "failed" /\ safe'
          /\ pc' = (IF doc.kind = "init" THEN "undo_ignore" ELSE "r_look")
      BY <2>3 DEF FaultApplying, FaultBounds
    <3> QED BY <3>1, <2>3, FaultDocs DEF FaultApplying, SpoiledBy
  <2>4. CASE FaultUndoing
    <3>1. UNCHANGED <<data, found, dirent, journal>> /\ pc' = "idle" /\ mode' = "apply"
      BY <2>4 DEF FaultUndoing, FaultBounds
    <3>2. ~Half
      BY <2>4 DEF FaultUndoing, SpoiledBy
    <3> QED BY <3>1, <3>2
  <2> QED BY FaultCases, <1>10, <2>1, <2>2, <2>3, <2>4
<1>11. CASE Crash
  <2>1. UNCHANGED <<data, found>> /\ pc' = "idle" /\ mode' = "apply"
    BY <1>11 DEF Crash
  <2>2. journal' \in Journals => journal' = journal /\ UNCHANGED dirent
    BY <1>11 DEF Crash
  <2>3. ~Half
    BY <1>11 DEF Crash, SpoiledBy
  <2> QED BY <2>1, <2>2, <2>3
<1>12. CASE \E f \in Files : UserWrites(f)
  <2>1. PICK f \in Files : UserWrites(f) BY <1>12
  <2> QED BY <2>1, Written DEF Untouched
<1>13. CASE UNCHANGED configVars BY <1>13 DEF configVars
<1> QED BY <1>1, <1>2, <1>3, <1>4, <1>5, <1>6, <1>7, <1>8, <1>9, <1>10, <1>11,
       <1>12, <1>13 DEF ConfigNext, Process, Holding

-----------------------------------------------------------------------------
\* What is untouched, or unspoiled, after a step was so before it.
LEMMA UntouchedBefore ==
  ASSUME ConfigTypeOK, NamesApart, [ConfigNext]_configVars
  PROVE  (Untouched' => Untouched) /\ (~spoiled' => ~spoiled)
<1>1. CASE UNCHANGED said
  <2>1. ~spoiled' => ~spoiled
    BY DEF ConfigTypeOK, ConfigNext, Process, Unlocked, Enter, Fault, Crash, UserWrites,
       configVars
  <2> QED BY <1>1, <2>1 DEF Untouched
<1>2. CASE \E f \in Files : UserWrites(f)
  <2>1. PICK f \in Files : UserWrites(f) BY <1>2
  <2> QED BY <2>1, Written DEF Untouched
<1> QED BY <1>1, <1>2 DEF ConfigNext, Process, Unlocked, Enter, env, Fault, Crash,
       configVars

\* Every step keeps what holds of a configuration nobody has written.
LEMMA UndisturbedStep ==
  ASSUME ConfigTypeOK, Structure, Undisturbed, [ConfigNext]_configVars
  PROVE  Undisturbed'
<1>1. ConfigTypeOK' /\ Structure' BY StructureStep
<1>2. (Untouched' => Untouched) /\ (~spoiled' => ~spoiled)
  BY UntouchedBefore DEF Structure
<1> SUFFICES ASSUME Untouched, Untouched' PROVE (Pristine /\ Halfway /\ (~spoiled => Sane))'
  BY <1>2 DEF Undisturbed
<1>3. Pristine /\ Halfway /\ (~spoiled => Sane) BY DEF Undisturbed
<1>4. Pristine' BY <1>1, <1>3, PristineStep DEF Structure
<1>5. Halfway' BY <1>1, <1>3, <1>4, HalfwayStep
<1>6. ~spoiled' => Sane' BY <1>1, <1>2, <1>3, <1>4, <1>5, SaneStep
<1> QED BY <1>4, <1>5, <1>6

\* It holds before the first command.
LEMMA UndisturbedInit == ASSUME ConfigInit PROVE Undisturbed
<1>0. ConfigTypeOK /\ Structure BY StructureInit
<1> USE <1>0, ConfigAssumption, Temporaries, Texts DEF ConfigInit
<1>1. Pristine
  BY DEF Pristine, Plain, Rendered, Legacy
<1>2. Halfway
  BY DEF Halfway, Whole, Dropping
<1>3. Sane
  BY DEF Sane, Undoing, Restoring
<1> QED BY <1>1, <1>2, <1>3 DEF Undisturbed

\* As long as nobody has written, the transaction is never further, or less far,
\* than its journal and its program point say, through deaths, failures and
\* recoveries of recoveries.
THEOREM UndisturbedHolds == ConfigSpec => [](ConfigTypeOK /\ Structure /\ Undisturbed)
<1>1. ConfigInit => ConfigTypeOK /\ Structure /\ Undisturbed
  BY StructureInit, UndisturbedInit
<1>2. ConfigTypeOK /\ Structure /\ Undisturbed /\ [ConfigNext]_configVars
        => (ConfigTypeOK /\ Structure /\ Undisturbed)'
  BY StructureStep, UndisturbedStep
<1> QED BY <1>1, <1>2, PTL DEF ConfigSpec

\* A pair nobody has written is whole whenever no journal is there: nothing, or the
\* old manifest and what was found with it, or the new pair.  And the journal a death
\* leaves is one the next apply recovers, but for those LeftRecoverable names.
THEOREM RestsWhole == ConfigSpec => [](WholeAtRest /\ LeftRecoverable)
<1>1. ASSUME ConfigTypeOK, Structure, Undisturbed PROVE WholeAtRest
  BY <1>1, Texts DEF WholeAtRest, Undisturbed, Halfway
<1>2. ASSUME ConfigTypeOK, Structure, Undisturbed PROVE LeftRecoverable
  BY <1>2 DEF LeftRecoverable, Undisturbed, Sane, Half, ConfigTypeOK
<1> QED BY <1>1, <1>2, UndisturbedHolds, PTL


-----------------------------------------------------------------------------
\* The steps that release the lock.
LEMMA Returning ==
  ASSUME ConfigTypeOK, [ConfigNext]_configVars, holder # Nothing, holder' = Nothing
  PROVE  \/ Holding(RecoverRefused) \/ Holding(UndoneGiveUp) \/ Holding(DropUnsafe("manifest"))
         \/ Holding(DropUnsafe("ignore")) \/ Holding(DropJournal) \/ Holding(RebindConflict)
         \/ Holding(MCheckConflict) \/ Holding(RForeign) \/ Holding(RBackup)
         \/ FaultOutside \/ FaultUnjournaled \/ FaultUndoing \/ deaths' > 0
<1> USE DEF Hold, calls, Undo
<1>1. CASE \E p \in Procs : Unlocked(p) \/ Enter(p)
  BY <1>1 DEF Unlocked, Enter, Refused, PreviewInit, PreviewMigration, NothingToDo, Acquire
<1>2. CASE Holding(Recover)
  BY <1>2 DEF Holding, Recover, RecoverNothing, RecoverInit, RecoverMigration
<1>3. CASE Holding(Rollback)
  BY <1>3 DEF Holding, Rollback, UndoOwn, UndoSkip, UndoUnlink, Undone
<1>4. CASE Holding(Clean)
  BY <1>4 DEF Holding, Clean, Drop
<1>5. CASE Holding(Rebind \/ RebindConflict)
  BY <1>5 DEF Holding, Rebind
<1>6. CASE Holding(ApplyPair)
  BY <1>6 DEF Holding, ApplyPair, WriteTemps, WriteJournal, Commit, Link, LinkExists,
     CheckLinked, CheckFailed
<1>7. CASE Holding(Migrate)
  BY <1>7 DEF Holding, Migrate, ReadOld, MCheck, MNew, MRecheck, MRecheckConflict,
     MBackup, MJournal, MInstall, MVerify, MVerifyFailed, MDropBackup
<1>8. CASE Holding(Restore)
  BY <1>8 DEF Holding, Restore, RLook, RUnlink, RRename, RTemporary
<1>9. CASE Fault
  BY <1>9, FaultCases DEF FaultApplying
<1>10. CASE Crash
  BY <1>10 DEF Crash, ConfigTypeOK
<1>11. CASE \E f \in Files : UserWrites(f)
  BY <1>11 DEF UserWrites
<1>12. CASE UNCHANGED configVars BY <1>12 DEF configVars
<1> QED BY <1>1, <1>2, <1>3, <1>4, <1>5, <1>6, <1>7, <1>8, <1>9, <1>10, <1>11, <1>12 DEF
       ConfigNext, Process, Holding

\* A recovery that nobody disturbs, before any death, does not give up.
LEMMA RecoversOn ==
  ASSUME ConfigTypeOK, Structure, Undisturbed, Untouched, ~spoiled, deaths = 0
  PROVE  /\ ~Holding(RecoverRefused)
         /\ ~(Holding(UndoneGiveUp) /\ mode = "recovery")
         /\ ~(Holding(DropUnsafe("manifest")) \/ Holding(DropUnsafe("ignore")))
         /\ ~Holding(RForeign)
         /\ mode # "conflict"
<1>0. Pristine /\ Halfway /\ Sane BY DEF Undisturbed
<1>a. Recoverable <=> PlainRecoverable BY <1>0, PlainRecovery
<1> USE Temporaries, Texts DEF Goto, Structure, Control
<1>1. ~Holding(RecoverRefused)
  <2> SUFFICES ASSUME Holding(RecoverRefused) PROVE FALSE OBVIOUS
  <2>1. journal # Torn /\ pc = "recover"
    BY DEF Present, Holding, RecoverRefused
  <2>2. journal \in Journals /\ journal.kind = "init" /\ journal.phase = "committed"
    BY <2>1 DEF Holding, RecoverRefused
  <2>3. \A f \in Files : At(f) = Rendered(0)
    BY <1>0, <2>1, <2>2 DEF Sane, Half, Recoverable
  <2> QED BY <2>1, <2>3 DEF Holding, RecoverRefused
<1>2. ~(Holding(UndoneGiveUp) /\ mode = "recovery")
  BY <1>0 DEF Holding, UndoneGiveUp, Sane, Undoing, IsInit
<1>3. ~(Holding(DropUnsafe("manifest")) \/ Holding(DropUnsafe("ignore")))
  BY <1>0, PlainText DEF Holding, DropUnsafe, IsInit, Pristine, Plain
<1>4. ~Holding(RForeign)
  BY <1>0, <1>a, Behind DEF Holding, RForeign, Foreign, New, Unmoved, Sane, Half,
     PlainRecoverable, Restoring, IsMigration, Pristine, Plain
<1>5. mode # "conflict" BY <1>0 DEF Halfway
<1> QED BY <1>1, <1>2, <1>3, <1>4, <1>5

\* What a command answers is true of what it leaves, one command at a time.
LEMMA AnswerStep ==
  ASSUME ConfigTypeOK, Structure, Undisturbed, [ConfigNext]_configVars, NEW p \in Procs,
         holder = p, holder' = Nothing, deaths' = 0, ~spoiled'
  PROVE  /\ answer'[p] \in {"initialized", "migrated"} =>
              /\ journal' = Nothing /\ dirent'["manifest"] # Nothing
              /\ data'[dirent'["manifest"]].schema = 2
         /\ faults' <= 1 /\ Untouched => Whole'
<1> USE Temporaries, Texts DEF Return, GiveUp, Goto, disk, local, calls, env
<1>0. holder # Nothing BY ConfigAssumption DEF ConfigAssumption
<1>1. ~spoiled BY UntouchedBefore DEF Structure
<1>2. deaths = 0
  <2>1. deaths \in Nat /\ deaths' \in Nat BY StructureStep DEF ConfigTypeOK
  <2>2. CASE UNCHANGED deaths BY <2>2
  <2>3. CASE Crash BY <2>1, <2>3 DEF Crash
  <2> QED BY <2>2, <2>3 DEF ConfigNext, Process, Unlocked, Enter, Fault, UserWrites,
         configVars
<1>3. Untouched => /\ Pristine /\ Halfway /\ Sane /\ ~Holding(RecoverRefused)
                   /\ ~(Holding(UndoneGiveUp) /\ mode = "recovery")
                   /\ ~(Holding(DropUnsafe("manifest")) \/ Holding(DropUnsafe("ignore")))
                   /\ ~Holding(RForeign) /\ mode # "conflict"
  BY <1>1, <1>2, RecoversOn DEF Undisturbed
<1>4. CASE \/ Holding(RecoverRefused) \/ Holding(DropUnsafe("manifest"))
           \/ Holding(DropUnsafe("ignore")) \/ Holding(RForeign)
  <2>1. answer'[p] \notin {"initialized", "migrated"}
    BY <1>0, <1>4 DEF ConfigTypeOK, Holding, RecoverRefused, DropUnsafe, RForeign, Hold
  <2> QED BY <1>3, <1>4, <2>1
<1>5. CASE Holding(UndoneGiveUp)
  <2>1. answer'[p] \notin {"initialized", "migrated"} /\ UNCHANGED <<dirent, found>>
    BY <1>5 DEF ConfigTypeOK, Holding, UndoneGiveUp
  <2>2. Untouched => Whole
    <3> SUFFICES ASSUME Untouched PROVE Whole OBVIOUS
    <3>1. /\ pc = "undone" /\ journal \in Journals /\ journal.kind = "init"
          /\ journal.phase \in {"prepared", "committed"}
      BY <1>5 DEF Holding, UndoneGiveUp, Structure, Control, Undoing, IsInit
    <3>2. found = {} BY <1>3, <3>1 DEF Pristine, Plain
    <3>3. CASE journal.phase = "prepared"
      BY <1>3, <3>1, <3>2, <3>3 DEF Sane, Undoing, Halfway, Whole
    <3>4. CASE journal.phase = "committed"
      <4>1. Recoverable BY <1>3, <3>1 DEF Sane, Half
      <4> QED BY <3>1, <3>2, <3>4, <4>1, Behind DEF Recoverable, Whole
    <3> QED BY <3>1, <3>3, <3>4
  <2> QED BY <2>1, <2>2 DEF Whole
<1>6. CASE Holding(DropJournal)
  <2>1. /\ mode = "apply" /\ pc = "drop_journal" /\ journal' = Nothing
        /\ UNCHANGED <<dirent, data, found>>
    BY <1>0, <1>6 DEF Holding, DropJournal, Hold
  <2>2. dirent["manifest"] # Nothing /\ At("manifest").schema = 2
    BY <2>1 DEF Structure, Present, Dropping
  <2>3. Untouched => Whole'
    <3>1. ASSUME Untouched PROVE Untouched' BY <1>6, <3>1 DEF Holding, Untouched
    <3>2. Undisturbed' /\ ConfigTypeOK' BY StructureStep, UndisturbedStep
    <3> QED BY <2>1, <3>1, <3>2 DEF Undisturbed, Halfway
  <2> QED BY <2>1, <2>2, <2>3, Behind
<1>7. CASE \/ Holding(RebindConflict) \/ Holding(MCheckConflict)
           \/ FaultOutside \/ FaultUnjournaled
  <2>1. journal = Nothing
    BY <1>7 DEF Holding, RebindConflict, MCheckConflict, FaultOutside, FaultUnjournaled,
       Outside, Unjournaled, Structure, Control
  <2>2. /\ answer'[p] \notin {"initialized", "migrated"} /\ UNCHANGED found
        /\ \A f \in Files : dirent'[f] = dirent[f]
    BY <1>7 DEF ConfigTypeOK, Holding, RebindConflict, MCheckConflict, FaultOutside,
       FaultUnjournaled, FaultBounds, Forgotten, Transient
  <2> QED BY <1>3, <2>1, <2>2 DEF Halfway, Whole
<1>8. CASE Holding(RBackup)
  <2>1. /\ answer'[p] \notin {"initialized", "migrated"} /\ pc = "r_backup" /\ UNCHANGED found
        /\ \A f \in Files : dirent'[f] = dirent[f]
    BY <1>0, <1>8 DEF ConfigTypeOK, Holding, RBackup, Hold, Named
  <2>2. Untouched => Whole
    BY <1>3, <2>1 DEF Structure, Control, Restoring, IsMigration, Present, Pristine,
       Plain, Halfway, Whole
  <2> QED BY <2>1, <2>2 DEF Whole
<1>9. CASE FaultUndoing
  <2>1. /\ answer'[p] \notin {"initialized", "migrated"} /\ faults' = faults + 1
        /\ pc \in Undoing \cup Restoring \cup Dropping /\ mode # "apply"
    BY <1>9 DEF ConfigTypeOK, FaultUndoing, FaultBounds
  <2>2. Untouched => faults > 0
    BY <1>2, <1>3, <2>1 DEF Halfway, ConfigTypeOK, Modes, Structure, Control, Undoing,
       Restoring, Dropping, IsInit, IsMigration
  <2>3. faults \in Nat BY DEF ConfigTypeOK
  <2> QED BY <2>1, <2>2, <2>3
<1> QED BY <1>0, <1>4, <1>5, <1>6, <1>7, <1>8, <1>9, Returning

\* A command nobody died in says that it initialized or migrated only when its journal
\* is gone and the new manifest is there; and with one failure at most, in a pair
\* nobody has written, it leaves the pair whole.
THEOREM AnswersAreTrue == ConfigSpec => AnswersTrue
<1>1. ASSUME ConfigTypeOK, Structure, Undisturbed, [ConfigNext]_configVars
      PROVE  [\A p \in Procs : holder = p /\ holder' = Nothing /\ deaths' = 0 /\ ~spoiled' =>
                /\ answer'[p] \in {"initialized", "migrated"} =>
                     /\ journal' = Nothing /\ dirent'["manifest"] # Nothing
                     /\ data'[dirent'["manifest"]].schema = 2
                /\ faults' <= 1 /\ Untouched => Whole']_configVars
  BY <1>1, AnswerStep
<1> QED BY <1>1, UndisturbedHolds, PTL DEF ConfigSpec, AnswersTrue

-----------------------------------------------------------------------------
\* When no write comes between a comparison and its step, what was compared stays so
\* until the step that relies on it.
LEMMA GuardedStep ==
  ASSUME EditPoints \subseteq Compared, ConfigTypeOK, Structure, EditsKept, Guarded,
         ConfigTypeOK', Structure', [ConfigNext]_configVars
  PROVE  Guarded'
<1> USE JournalFields, Temporaries, Texts
    DEF ConfigTypeOK, Structure, Control, Shown, Leftovers, Present, EditsKept,
        Guarded, Level, NamesApart, New, Unmoved, Linked, At, Goto, Hold, Named,
        Undo, disk, local, calls, env, Return, GiveUp, IsInit, IsMigration, Undoing,
        Restoring, Dropping, Installing, Migrating, Unjournaled
<1>1. CASE \E p \in Procs : Unlocked(p)
  <2>1. CASE \E p \in Procs : Refused(p) /\ UNCHANGED <<env, spoiled>>
    BY <2>1 DEF Refused
  <2>2. CASE \E p \in Procs : PreviewInit(p) /\ UNCHANGED <<env, spoiled>>
    BY <2>2 DEF PreviewInit
  <2>3. CASE \E p \in Procs : PreviewMigration(p) /\ UNCHANGED <<env, spoiled>>
    BY <2>3 DEF PreviewMigration
  <2>4. CASE \E p \in Procs : NothingToDo(p) /\ UNCHANGED <<env, spoiled>>
    BY <2>4 DEF NothingToDo
  <2> QED BY <1>1, <2>1, <2>2, <2>3, <2>4 DEF Unlocked
<1>2. CASE \E p \in Procs : Enter(p) BY <1>2 DEF Enter, Acquire
<1>3. CASE Holding(Recover)
  <2>1. CASE Holding(RecoverNothing) BY <2>1 DEF RecoverNothing, Holding
  <2>2. CASE Holding(RecoverRefused) BY <2>2 DEF RecoverRefused, Holding
  <2>3. CASE Holding(RecoverInit) BY <2>3 DEF RecoverInit, Holding
  <2>4. CASE Holding(RecoverMigration) BY <2>4 DEF RecoverMigration, Holding
  <2> QED BY <1>3, <2>1, <2>2, <2>3, <2>4 DEF Holding, Recover
<1>4. CASE Holding(Rollback)
  <2>1. CASE Holding(UndoOwn("ignore", "unlink_ignore"))
    BY <2>1 DEF UndoOwn, Holding
  <2>2. CASE Holding(UndoSkip("ignore", "undo_manifest"))
    BY <2>2 DEF UndoSkip, Holding
  <2>3. CASE Holding(UndoUnlink("ignore", "unlink_ignore", "undo_manifest"))
    BY <2>3 DEF UndoUnlink, Holding
  <2>4. CASE Holding(UndoOwn("manifest", "unlink_manifest"))
    BY <2>4 DEF UndoOwn, Holding
  <2>5. CASE Holding(UndoSkip("manifest", "undone")) BY <2>5 DEF UndoSkip, Holding
  <2>6. CASE Holding(UndoUnlink("manifest", "unlink_manifest", "undone"))
    BY <2>6 DEF UndoUnlink, Holding
  <2>7. CASE Holding(Undone) BY <2>7 DEF Undone, Holding
  <2>8. CASE Holding(UndoneGiveUp) BY <2>8 DEF UndoneGiveUp, Holding
  <2> QED BY <1>4, <2>1, <2>2, <2>3, <2>4, <2>5, <2>6, <2>7, <2>8 DEF Holding, Rollback
<1>5. CASE Holding(Clean)
  <2>1. CASE Holding(Drop("manifest", "drop_ignore")) BY <2>1 DEF Drop, Holding
  <2>2. CASE Holding(Drop("ignore", "drop_journal")) BY <2>2 DEF Drop, Holding
  <2>3. CASE Holding(DropUnsafe("manifest")) BY <2>3 DEF DropUnsafe, Holding
  <2>4. CASE Holding(DropUnsafe("ignore")) BY <2>4 DEF DropUnsafe, Holding
  <2>5. CASE Holding(DropJournal) BY <2>5 DEF DropJournal, Holding
  <2> QED BY <1>5, <2>1, <2>2, <2>3, <2>4, <2>5 DEF Holding, Clean
<1>6. CASE Holding(Rebind \/ RebindConflict)
  <2>1. CASE Holding(Rebind) BY <2>1, PreviewKinds DEF Rebind, Holding, Current
  <2>2. CASE Holding(RebindConflict) BY <2>2 DEF RebindConflict, Holding
  <2> QED BY <1>6, <2>1, <2>2 DEF Holding
<1>7. CASE Holding(ApplyPair)
  <2>1. CASE Holding(WriteTemps) BY <2>1, FreshFree DEF WriteTemps, Holding
  <2>2. CASE Holding(WriteJournal) BY <2>2 DEF WriteJournal, Holding
  <2>3. CASE Holding(Commit) BY <2>3, Committed
  <2>4. CASE Holding(Link("manifest", "link_manifest", "check_manifest"))
    BY <2>4 DEF Link, Holding
  <2>5. CASE Holding(LinkExists("manifest", "link_manifest"))
    BY <2>5 DEF LinkExists, Holding
  <2>6. CASE Holding(CheckLinked("manifest", "check_manifest", "link_ignore"))
    BY <2>6 DEF CheckLinked, Holding
  <2>7. CASE Holding(CheckFailed("manifest", "check_manifest"))
    BY <2>7 DEF CheckFailed, Holding
  <2>8. CASE Holding(Link("ignore", "link_ignore", "check_ignore"))
    BY <2>8 DEF Link, Holding
  <2>9. CASE Holding(LinkExists("ignore", "link_ignore"))
    BY <2>9 DEF LinkExists, Holding
  <2>10. CASE Holding(CheckLinked("ignore", "check_ignore", "commit"))
    BY <2>10 DEF CheckLinked, Holding
  <2>11. CASE Holding(CheckFailed("ignore", "check_ignore"))
    BY <2>11 DEF CheckFailed, Holding
  <2> QED BY <1>7, <2>1, <2>2, <2>3, <2>4, <2>5, <2>6, <2>7, <2>8, <2>9, <2>10,
         <2>11 DEF Holding, ApplyPair
<1>8. CASE Holding(Migrate)
  <2>1. CASE Holding(ReadOld) BY <2>1, ReadDoc DEF ReadOld, Holding
  <2>2. CASE Holding(MCheck) BY <2>2 DEF MCheck, Holding
  <2>3. CASE Holding(MCheckConflict) BY <2>3 DEF MCheckConflict, Holding
  <2>4. CASE Holding(MNew) BY <2>4, FreshFree DEF MNew, Holding, Fresh
  <2>5. CASE Holding(MRecheck) BY <2>5 DEF MRecheck, Holding
  <2>6. CASE Holding(MRecheckConflict) BY <2>6 DEF MRecheckConflict, Holding
  <2>7. CASE Holding(MBackup) BY <2>7 DEF MBackup, Holding
  <2>8. CASE Holding(MJournal("m_backed_up", "backed_up", "m_install"))
    BY <2>8, Rephased
  <2>9. CASE Holding(MInstall) BY <2>9 DEF MInstall, Holding
  <2>10. CASE Holding(MJournal("m_replaced", "replaced", "m_verify"))
    BY <2>10, Rephased
  <2>11. CASE Holding(MVerify) BY <2>11 DEF MVerify, Holding
  <2>12. CASE Holding(MVerifyFailed) BY <2>12 DEF MVerifyFailed, Holding
  <2>13. CASE Holding(MJournal("m_commit", "committed", "m_drop_backup"))
    BY <2>13, Rephased
  <2>14. CASE Holding(MDropBackup) BY <2>14 DEF MDropBackup, Holding
  <2> QED BY <1>8, <2>1, <2>2, <2>3, <2>4, <2>5, <2>6, <2>7, <2>8, <2>9, <2>10,
         <2>11, <2>12, <2>13, <2>14 DEF Holding, Migrate
<1>9. CASE Holding(Restore)
  <2>1. CASE Holding(RLook) BY <2>1 DEF RLook, Holding, Foreign
  <2>2. CASE Holding(RForeign) BY <2>2 DEF RForeign, Holding
  <2>3. CASE Holding(RUnlink) BY <2>3 DEF RUnlink, Holding
  <2>4. CASE Holding(RRename) BY <2>4 DEF RRename, Holding
  <2>5. CASE Holding(RTemporary) BY <2>5 DEF RTemporary, Holding
  <2>6. CASE Holding(RBackup) BY <2>6 DEF RBackup, Holding
  <2> QED BY <1>9, <2>1, <2>2, <2>3, <2>4, <2>5, <2>6 DEF Holding, Restore
<1>10. CASE Fault
  <2>1. CASE FaultOutside BY <2>1 DEF FaultOutside, FaultBounds
  <2>2. CASE FaultUnjournaled BY <2>2 DEF FaultUnjournaled, FaultBounds, Forgotten
  <2>3. CASE FaultApplying
    <3>1. /\ UNCHANGED <<dirent, data, said, holder, preview>>
          /\ pc' \in {"undo_ignore", "r_look"}
      BY <2>3 DEF FaultApplying, FaultBounds
    <3> QED BY <3>1, <2>3, FaultDocs
  <2>4. CASE FaultUndoing BY <2>4 DEF FaultUndoing, FaultBounds
  <2> QED BY FaultCases, <1>10, <2>1, <2>2, <2>3, <2>4
<1>11. CASE Crash BY <1>11 DEF Crash, Forgotten
<1>12. CASE \E f \in Files : UserWrites(f)
  <2>1. PICK f \in Files : UserWrites(f) BY <1>12
  <2>2. pc \notin {"read_old", "m_backup", "m_backed_up", "m_install", "unlink_ignore",
                  "unlink_manifest", "r_unlink", "r_rename"}
    BY <2>1, Written DEF Compared
  <2>3. UNCHANGED <<pc, doc, journal, holder, preview>>
    BY <2>1, Written
  <2>4. dirent'["migrate.backup"] = dirent["migrate.backup"]
        /\ (dirent["migrate.backup"] # Nothing =>
              data'[dirent["migrate.backup"]] = data[dirent["migrate.backup"]])
    BY <2>1, Written
  <2>5. CASE f = "manifest"
    BY <2>1, <2>2, <2>3, <2>4, <2>5, Written
  <2>6. CASE f = "ignore"
    <3>1. said'["manifest"] = said["manifest"] /\ dirent'["manifest"] = dirent["manifest"]
          /\ (dirent["manifest"] # Nothing =>
                data'[dirent["manifest"]] = data[dirent["manifest"]])
      BY <2>1, <2>6, Written
    <3> QED BY <2>2, <2>3, <2>4, <3>1
  <2> QED BY <2>5, <2>6
<1>13. CASE UNCHANGED configVars BY <1>13 DEF configVars
<1> QED BY <1>1, <1>2, <1>3, <1>4, <1>5, <1>6, <1>7, <1>8, <1>9, <1>10, <1>11,
       <1>12, <1>13 DEF ConfigNext, Process, Holding

\* No step then takes away, or writes over, a text of the user.
LEMMA KeptStep ==
  ASSUME EditPoints \subseteq Compared, ConfigTypeOK, Structure, EditsKept, Guarded,
         ConfigTypeOK', Structure', [ConfigNext]_configVars
  PROVE  EditsKept'
<1> USE JournalFields, Temporaries, Texts
    DEF ConfigTypeOK, Structure, Control, Leftovers, EditsKept, Guarded, Level, New,
        Unmoved, Linked, At, Goto, Hold, Named, Undo, disk, local, calls, env,
        Return, GiveUp, IsInit, IsMigration, Undoing, Restoring, Dropping,
        Installing, Migrating, Unjournaled
<1>1. CASE \E p \in Procs : Unlocked(p)
  <2>1. CASE \E p \in Procs : Refused(p) /\ UNCHANGED <<env, spoiled>>
    BY <2>1 DEF Refused
  <2>2. CASE \E p \in Procs : PreviewInit(p) /\ UNCHANGED <<env, spoiled>>
    BY <2>2 DEF PreviewInit
  <2>3. CASE \E p \in Procs : PreviewMigration(p) /\ UNCHANGED <<env, spoiled>>
    BY <2>3 DEF PreviewMigration
  <2>4. CASE \E p \in Procs : NothingToDo(p) /\ UNCHANGED <<env, spoiled>>
    BY <2>4 DEF NothingToDo
  <2> QED BY <1>1, <2>1, <2>2, <2>3, <2>4 DEF Unlocked
<1>2. CASE \E p \in Procs : Enter(p) BY <1>2 DEF Enter, Acquire
<1>3. CASE Holding(Recover)
  <2>1. CASE Holding(RecoverNothing) BY <2>1 DEF RecoverNothing, Holding
  <2>2. CASE Holding(RecoverRefused) BY <2>2 DEF RecoverRefused, Holding
  <2>3. CASE Holding(RecoverInit) BY <2>3 DEF RecoverInit, Holding
  <2>4. CASE Holding(RecoverMigration) BY <2>4 DEF RecoverMigration, Holding
  <2> QED BY <1>3, <2>1, <2>2, <2>3, <2>4 DEF Holding, Recover
<1>4. CASE Holding(Rollback)
  <2>1. CASE Holding(UndoOwn("ignore", "unlink_ignore"))
    BY <2>1 DEF UndoOwn, Holding
  <2>2. CASE Holding(UndoSkip("ignore", "undo_manifest"))
    BY <2>2 DEF UndoSkip, Holding
  <2>3. CASE Holding(UndoUnlink("ignore", "unlink_ignore", "undo_manifest"))
    BY <2>3 DEF UndoUnlink, Holding
  <2>4. CASE Holding(UndoOwn("manifest", "unlink_manifest"))
    BY <2>4 DEF UndoOwn, Holding
  <2>5. CASE Holding(UndoSkip("manifest", "undone")) BY <2>5 DEF UndoSkip, Holding
  <2>6. CASE Holding(UndoUnlink("manifest", "unlink_manifest", "undone"))
    BY <2>6 DEF UndoUnlink, Holding
  <2>7. CASE Holding(Undone) BY <2>7 DEF Undone, Holding
  <2>8. CASE Holding(UndoneGiveUp) BY <2>8 DEF UndoneGiveUp, Holding
  <2> QED BY <1>4, <2>1, <2>2, <2>3, <2>4, <2>5, <2>6, <2>7, <2>8 DEF Holding, Rollback
<1>5. CASE Holding(Clean)
  <2>1. CASE Holding(Drop("manifest", "drop_ignore")) BY <2>1 DEF Drop, Holding
  <2>2. CASE Holding(Drop("ignore", "drop_journal")) BY <2>2 DEF Drop, Holding
  <2>3. CASE Holding(DropUnsafe("manifest")) BY <2>3 DEF DropUnsafe, Holding
  <2>4. CASE Holding(DropUnsafe("ignore")) BY <2>4 DEF DropUnsafe, Holding
  <2>5. CASE Holding(DropJournal) BY <2>5 DEF DropJournal, Holding
  <2> QED BY <1>5, <2>1, <2>2, <2>3, <2>4, <2>5 DEF Holding, Clean
<1>6. CASE Holding(Rebind \/ RebindConflict)
  <2>1. CASE Holding(Rebind) BY <2>1 DEF Rebind, Holding
  <2>2. CASE Holding(RebindConflict) BY <2>2 DEF RebindConflict, Holding
  <2> QED BY <1>6, <2>1, <2>2 DEF Holding
<1>7. CASE Holding(ApplyPair)
  <2>1. CASE Holding(WriteTemps) BY <2>1, FreshFree DEF WriteTemps, Holding
  <2>2. CASE Holding(WriteJournal) BY <2>2 DEF WriteJournal, Holding
  <2>3. CASE Holding(Commit) BY <2>3, Committed
  <2>4. CASE Holding(Link("manifest", "link_manifest", "check_manifest"))
    BY <2>4 DEF Link, Holding
  <2>5. CASE Holding(LinkExists("manifest", "link_manifest"))
    BY <2>5 DEF LinkExists, Holding
  <2>6. CASE Holding(CheckLinked("manifest", "check_manifest", "link_ignore"))
    BY <2>6 DEF CheckLinked, Holding
  <2>7. CASE Holding(CheckFailed("manifest", "check_manifest"))
    BY <2>7 DEF CheckFailed, Holding
  <2>8. CASE Holding(Link("ignore", "link_ignore", "check_ignore"))
    BY <2>8 DEF Link, Holding
  <2>9. CASE Holding(LinkExists("ignore", "link_ignore"))
    BY <2>9 DEF LinkExists, Holding
  <2>10. CASE Holding(CheckLinked("ignore", "check_ignore", "commit"))
    BY <2>10 DEF CheckLinked, Holding
  <2>11. CASE Holding(CheckFailed("ignore", "check_ignore"))
    BY <2>11 DEF CheckFailed, Holding
  <2> QED BY <1>7, <2>1, <2>2, <2>3, <2>4, <2>5, <2>6, <2>7, <2>8, <2>9, <2>10,
         <2>11 DEF Holding, ApplyPair
<1>8. CASE Holding(Migrate)
  <2>1. CASE Holding(ReadOld) BY <2>1 DEF ReadOld, Holding
  <2>2. CASE Holding(MCheck) BY <2>2 DEF MCheck, Holding
  <2>3. CASE Holding(MCheckConflict) BY <2>3 DEF MCheckConflict, Holding
  <2>4. CASE Holding(MNew) BY <2>4, FreshFree DEF MNew, Holding, Fresh
  <2>5. CASE Holding(MRecheck) BY <2>5 DEF MRecheck, Holding
  <2>6. CASE Holding(MRecheckConflict) BY <2>6 DEF MRecheckConflict, Holding
  <2>7. CASE Holding(MBackup) BY <2>7 DEF MBackup, Holding
  <2>8. CASE Holding(MJournal("m_backed_up", "backed_up", "m_install"))
    BY <2>8, Rephased
  <2>9. CASE Holding(MInstall) BY <2>9 DEF MInstall, Holding
  <2>10. CASE Holding(MJournal("m_replaced", "replaced", "m_verify"))
    BY <2>10, Rephased
  <2>11. CASE Holding(MVerify) BY <2>11 DEF MVerify, Holding
  <2>12. CASE Holding(MVerifyFailed) BY <2>12 DEF MVerifyFailed, Holding
  <2>13. CASE Holding(MJournal("m_commit", "committed", "m_drop_backup"))
    BY <2>13, Rephased
  <2>14. CASE Holding(MDropBackup) BY <2>14 DEF MDropBackup, Holding
  <2> QED BY <1>8, <2>1, <2>2, <2>3, <2>4, <2>5, <2>6, <2>7, <2>8, <2>9, <2>10,
         <2>11, <2>12, <2>13, <2>14 DEF Holding, Migrate
<1>9. CASE Holding(Restore)
  <2>1. CASE Holding(RLook) BY <2>1 DEF RLook, Holding
  <2>2. CASE Holding(RForeign) BY <2>2 DEF RForeign, Holding
  <2>3. CASE Holding(RUnlink)
    <3>1. /\ UNCHANGED <<data, said, journal>> /\ dirent'["manifest"] = Nothing
          /\ \A n \in Names \ {"manifest"} : dirent'[n] = dirent[n]
      BY <2>3 DEF Holding, RUnlink
    <3>2. /\ journal \in Journals /\ doc \in Journals /\ journal.old = doc.old
          /\ doc.old = doc.new /\ doc.new \in Versions
      BY <2>3 DEF Holding, RUnlink
    <3>3. At("manifest") = Rendered(doc.new) /\ dirent["migrate.backup"] # Nothing
      BY <2>3 DEF Holding, RUnlink, Present
    <3>4. At("migrate.backup").text = doc.old
      BY <3>2, <3>3
    <3>5. said["manifest"] # 0 => said["manifest"] = doc.old
      BY <3>2, <3>3, <3>4
    <3> QED BY <3>1, <3>2, <3>3, <3>4, <3>5
  <2>4. CASE Holding(RRename) BY <2>4 DEF RRename, Holding
  <2>5. CASE Holding(RTemporary) BY <2>5 DEF RTemporary, Holding
  <2>6. CASE Holding(RBackup) BY <2>6 DEF RBackup, Holding
  <2> QED BY <1>9, <2>1, <2>2, <2>3, <2>4, <2>5, <2>6 DEF Holding, Restore
<1>10. CASE Fault
  <2>1. CASE FaultOutside BY <2>1 DEF FaultOutside, FaultBounds
  <2>2. CASE FaultUnjournaled
    <3>1. /\ UNCHANGED <<data, said, journal>>
          /\ \A n \in Names \ Transient : dirent'[n] = dirent[n]
      BY <2>2 DEF FaultUnjournaled, FaultBounds, Forgotten, Transient
    <3> QED BY <3>1 DEF Transient
  <2>3. CASE FaultApplying
    <3>1. /\ UNCHANGED <<dirent, data, said, holder, preview>>
          /\ pc' \in {"undo_ignore", "r_look"}
      BY <2>3 DEF FaultApplying, FaultBounds
    <3> QED BY <3>1, <2>3, FaultDocs
  <2>4. CASE FaultUndoing BY <2>4 DEF FaultUndoing, FaultBounds
  <2> QED BY FaultCases, <1>10, <2>1, <2>2, <2>3, <2>4
<1>11. CASE Crash
  <2>1. UNCHANGED <<data, said>> /\ \A n \in Names \ Transient : dirent'[n] = dirent[n]
    BY <1>11 DEF Crash, Forgotten, Transient
  <2>2. journal \in Journals => journal' = journal
    BY <1>11 DEF Crash
  <2> QED BY <2>1, <2>2 DEF Transient
<1>12. CASE \E f \in Files : UserWrites(f)
  <2>1. PICK f \in Files : UserWrites(f) BY <1>12
  <2>2. UNCHANGED journal /\ dirent'["migrate.backup"] = dirent["migrate.backup"]
        /\ (dirent["migrate.backup"] # Nothing =>
              data'[dirent["migrate.backup"]] = data[dirent["migrate.backup"]])
    BY <2>1, Written
  <2>3. dirent'[f] # Nothing /\ data'[dirent'[f]].text = said'[f]
    BY <2>1, Written
  <2>4. \A g \in Files \ {f} : said'[g] = said[g] /\ dirent'[g] = dirent[g]
          /\ (dirent[g] # Nothing => data'[dirent[g]] = data[dirent[g]])
    BY <2>1, Written
  <2> QED BY <2>2, <2>3, <2>4
<1>13. CASE UNCHANGED configVars BY <1>13 DEF configVars
<1> QED BY <1>1, <1>2, <1>3, <1>4, <1>5, <1>6, <1>7, <1>8, <1>9, <1>10, <1>11,
       <1>12, <1>13 DEF ConfigNext, Process, Holding

\* No text of the user is there before the first command.
LEMMA EditsInit == ASSUME ConfigInit PROVE EditsKept /\ Guarded
BY Temporaries, Texts DEF ConfigInit, EditsKept, Guarded, Level

\* The last text the user wrote in a file is in that file, or in the name its
\* transaction keeps it under, through every commit, rollback and recovery:
\* provided the writes come at the points where the code compares before it acts.
THEOREM EditsAreKept ==
  ASSUME EditPoints \subseteq Compared PROVE ConfigSpec => []EditsKept
<1>1. ConfigInit => ConfigTypeOK /\ Structure /\ EditsKept /\ Guarded
  BY StructureInit, EditsInit
<1>2. ConfigTypeOK /\ Structure /\ EditsKept /\ Guarded /\ [ConfigNext]_configVars
        => (ConfigTypeOK /\ Structure /\ EditsKept /\ Guarded)'
  BY StructureStep, GuardedStep, KeptStep
<1> QED BY <1>1, <1>2, PTL DEF ConfigSpec

\* The invariant of the run, for any number of commands, inodes, deaths, failures
\* and writes.
THEOREM ConfigurationSafe ==
  ASSUME EditPoints \subseteq Compared PROVE ConfigSpec => []ConfigInv
<1>1. ConfigSpec => []EditsKept BY EditsAreKept
<1>2. ConfigTypeOK /\ EditsKept /\ WholeAtRest /\ LeftRecoverable => ConfigInv
  BY DEF ConfigInv
<1> QED BY <1>1, <1>2, StructureHolds, RestsWhole, PTL

=============================================================================
