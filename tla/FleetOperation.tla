---------------------------- MODULE FleetOperation ----------------------------
(***************************************************************************)
(* One fleet command (cli_distribution._dispatch_fleet, fleet.py): the     *)
(* projects of a workspace file are opened and told apart, the selected    *)
(* ones admitted, admitted again, and then worked on by a bounded pool of  *)
(* threads (refresh, pull, doctor, health), one by one (registry-sync), or *)
(* asked together through the registry (query).  Only the identity of each *)
(* directory and its manifest are remembered between these passes, and no  *)
(* lock is held across them: directories are moved, manifests edited, init *)
(* is run, and other commands refresh and sync meanwhile.                  *)
(***************************************************************************)
EXTENDS FiniteSets, Integers, FiniteSetsExt

CONSTANTS Projects,     \* the ids of the workspace file, numbered in its order
          Dirs,         \* directories, that is inodes; Own[p] is p's at first
          Own,
          UserManifests,  \* what the user may write into a manifest
          FirstManifest,  \* the manifest of each directory at first
          FirstEntries,   \* what the registry may hold at first
          MaxParallel,  \* of the workspace file: 1 .. 8
          MaxEdits, MaxWorks, MaxFailures,  \* bounds: edits and moves of the user,
                                            \* other commands, failing runners
          None

ASSUME FleetAssumption ==
         /\ Projects \subseteq Nat /\ IsFiniteSet(Projects) /\ Projects # {}
         /\ Own \in [Projects -> Dirs] /\ IsFiniteSet(Dirs)
         /\ \A p, q \in Projects : Own[p] = Own[q] => p = q
         /\ UserManifests \subseteq [id: Projects, uid: Projects, rev: Nat]
         /\ FirstManifest \in [Dirs -> UserManifests]
         /\ \A p \in Projects : FirstManifest[Own[p]].id = p /\ FirstManifest[Own[p]].uid = p
         /\ \A first \in FirstEntries : \A u \in DOMAIN first :
              u \in Projects /\ first[u] \in Dirs \X {0, 1}
         /\ MaxParallel \in 1 .. 8
         /\ MaxEdits \in Nat /\ MaxWorks \in Nat /\ MaxFailures \in Nat
         /\ None \notin Projects \cup Dirs

VARIABLES at,        \* the directory each configured path leads to
          manifest,  \* of each directory
          pending,   \* the directories with a journal of init
          git,       \* the common git directory of each directory
          graph,     \* how many graphs each directory has had
          entry,     \* of the registry: the graph each uid is entered with
          syncing,   \* the sync that holds registry.lock, or None
          cmd,       \* the command: its operation and the pass it is in
          loaded,    \* directory and uid of each project, as first opened
          admitted,  \* the manifest of each selected project
          row,       \* of each selected project
          reply,     \* of a query: the entry of each selected project
          worked,    \* where each project's runner was at work, and whether it changed
                     \* a graph or the registry
          rewritten, \* the projects whose manifest was written since their runner read it
          regit,     \* history: a .git was made to lead elsewhere
          current,   \* history: entries that were their directory's graph at a moment
          edits, works, failures

world == <<at, manifest, pending, git>>
registry == <<graph, entry, syncing>>
bounds == <<edits, works, failures>>
history == <<worked, rewritten, regit>>
vars == <<world, registry, cmd, loaded, admitted, row, reply, history, current, bounds>>

Operations == {"inspect", "refresh", "pull", "registry-sync", "query"}
PCs == {"load", "select", "admit", "fresh", "run", "status", "capture", "done"}
Statuses == {"none", "ok", "partial_failure", "failed", "refused"}
Rows == {"none", "queued", "working", "ok", "changed", "init_recovery_required",
         "operation_failed", "result_invalid", "not_current"}
Errors == Rows \ {"none", "queued", "working", "ok"}

NoFile == [p \in {} |-> None]
With(f, p, value) == [q \in DOMAIN f \cup {p} |-> IF q = p THEN value ELSE f[q]]
GraphOf(d) == <<d, graph[d]>>
Selected == DOMAIN row

\* A pass takes the projects in the order of the file.
Pass(pc, projects) == cmd' = [cmd EXCEPT !.pc = pc, !.todo = projects]
Turn(p) == cmd.todo # {} /\ p = Min(cmd.todo)
After(p, pc) == LET left == cmd.todo \ {p}
                IN IF left = {} THEN Pass(pc, IF pc = "admit" THEN {} ELSE Selected)
                   ELSE Pass(cmd.pc, left)
Finish(status) == cmd' = [cmd EXCEPT !.pc = "done", !.todo = {}, !.status = status]

\* The git directory that the worktrees of a repository share.
Alias(d) == git[d]

\* load_fleet_workspace: every project of the file, whatever is selected.
Distinct(p) ==
  LET d == at[p]
  IN /\ d \notin pending /\ manifest[d].id = p
     /\ \A q \in DOMAIN loaded :
          /\ loaded[q].dir # d /\ loaded[q].uid # manifest[d].uid
          /\ loaded[q].git # Alias(d)

Load(p) ==
  /\ cmd.pc = "load" /\ Turn(p)
  /\ \/ /\ Distinct(p)
        /\ loaded' = With(loaded, p, [dir |-> at[p], uid |-> manifest[at[p]].uid,
                                      git |-> Alias(at[p])])
        /\ IF cmd.todo = {p} THEN Pass("select", {}) ELSE Pass("load", cmd.todo \ {p})
     \/ ~Distinct(p) /\ Finish("refused") /\ UNCHANGED loaded
  /\ UNCHANGED <<world, registry, admitted, row, reply, history, bounds>>

Select ==
  /\ cmd.pc = "select"
  /\ \E chosen \in (SUBSET Projects) \ {{}} :
       row' = [p \in chosen |-> "none"] /\ Pass("admit", chosen)
  /\ UNCHANGED <<world, registry, loaded, admitted, reply, history, bounds>>

\* _load_fleet_project_manifest: the same directory, no journal of init, and a
\* manifest with the identity that was loaded.
\* Mutant: a directory is known by its manifest.
BoundByUid(p) == manifest[at[p]].uid = loaded[p].uid
Bound(p) == at[p] = loaded[p].dir
Identified(p) == LET m == manifest[at[p]] IN m.id = p /\ m.uid = loaded[p].uid
Ready(p) == Bound(p) /\ at[p] \notin pending /\ Identified(p)

\* require_fleet_projects_ready.
Admit(p) ==
  /\ cmd.pc = "admit" /\ Turn(p)
  /\ \/ /\ Ready(p)
        /\ admitted' = With(admitted, p, manifest[at[p]])
        /\ After(p, "fresh")
     \/ ~Ready(p) /\ Finish("refused") /\ UNCHANGED admitted
  /\ UNCHANGED <<world, registry, loaded, row, reply, history, bounds>>

Unedited(p) == manifest[at[p]] = admitted[p]

\* ... and once more in run_fleet_operation, which compares.
Readmit(p) ==
  /\ cmd.pc = "fresh" /\ Turn(p)
  /\ \/ /\ Ready(p) /\ Unedited(p)
        /\ After(p, IF cmd.op = "query" THEN "status" ELSE "run")
        /\ row' = [row EXCEPT ![p] = "queued"]
     \/ ~(Ready(p) /\ Unedited(p)) /\ Finish("refused") /\ UNCHANGED row
  /\ UNCHANGED <<world, registry, loaded, admitted, reply, history, bounds>>

-------------------------------------------------------------------------------
(* _run_one: a free thread takes the next project in the order of the file.  *)
Queued == {p \in Selected : row[p] = "queued"}
\* Mutant: the thread of a project that failed is not free again.
Unsuccessful == {p \in Selected : row[p] \notin {"none", "queued", "ok"}}
Working == {p \in Selected : row[p] = "working"}
Threads == IF cmd.op = "registry-sync" THEN 1 ELSE MaxParallel

Take(p) ==
  /\ cmd.pc = "run" /\ p \in Queued /\ p = Min(Queued)
  /\ Cardinality(Working) < Threads
  /\ row' = [row EXCEPT ![p] =
       IF Bound(p) /\ at[p] \in pending   THEN "init_recovery_required"
       ELSE IF Ready(p) /\ Unedited(p)    THEN "working"
       ELSE                                    "changed"]
  /\ UNCHANGED <<world, registry, cmd, loaded, admitted, reply, history, bounds>>

\* The runner is given the directory's identity and the manifest, and looks at
\* both again with its own locks held.
Holds(p) == Bound(p) /\ Unedited(p)
Reading == Working \ DOMAIN worked
Ending == Working \cap DOMAIN worked

\* A refresh and a sync end with the checkout's lifecycle lock held, a sync with
\* registry.lock as well; a pull lets go of the first when its install is over.
Locked(d) ==
  \/ syncing # None /\ syncing.dir = d
  \/ cmd.op \in {"refresh", "registry-sync"} /\ \E p \in Ending : worked[p].dir = d
Registering == syncing # None \/ (cmd.op = "registry-sync" /\ Ending # {})
Busy(p) == /\ cmd.op \in {"refresh", "pull", "registry-sync"}
           /\ Locked(at[p]) \/ (cmd.op = "registry-sync" /\ Registering)

\* A pull may find that the release is the graph it has, a sync that it is entered.
Does(p) ==
  LET d == at[p]
      Promoted == graph' = [graph EXCEPT ![d] = @ + 1] /\ UNCHANGED <<entry, syncing>>
  IN CASE cmd.op = "refresh"       -> Promoted
       [] cmd.op = "pull"          -> Promoted \/ UNCHANGED registry
       [] cmd.op = "registry-sync" -> entry' = With(entry, loaded[p].uid, GraphOf(d))
                                      /\ UNCHANGED <<graph, syncing>>
       [] OTHER                    -> UNCHANGED registry

Run(p) ==
  /\ cmd.pc = "run" /\ p \in Reading /\ Holds(p) /\ ~Busy(p)
  /\ Does(p)
  /\ worked' = With(worked, p, [dir |-> at[p], git |-> git[at[p]],
                                did |-> registry' # registry])
  /\ rewritten' = rewritten \ {p}
  /\ UNCHANGED <<world, cmd, loaded, admitted, row, reply, regit, bounds>>

\* Before that it raises: something was changed, another command is at work in the
\* checkout or on the registry, or anything else.
RunFails(p) ==
  /\ cmd.pc = "run" /\ p \in Reading
  /\ \/ /\ ~Holds(p) \/ p \in rewritten
        /\ row' = [row EXCEPT ![p] = "changed"] /\ UNCHANGED failures
     \/ Busy(p) /\ row' = [row EXCEPT ![p] = "operation_failed"] /\ UNCHANGED failures
     \/ /\ failures < MaxFailures /\ failures' = failures + 1
        /\ row' = [row EXCEPT ![p] = "operation_failed"]
  /\ UNCHANGED <<world, registry, cmd, loaded, admitted, reply, history, edits, works>>

\* After it, a sync that has committed and an inspection look at the open manifest
\* once more, and a pull that had nothing to install at its path.
Rechecked(p) ==
  CASE cmd.op = "registry-sync" -> worked[p].did /\ p \in rewritten
    [] cmd.op = "inspect"       -> p \in rewritten
    [] cmd.op = "pull"          -> ~worked[p].did /\ ~Bound(p)
    [] OTHER                    -> FALSE

\* A pull that has installed answers whatever fails then.
RunEnds(p) ==
  /\ cmd.pc = "run" /\ p \in Ending
  /\ \/ /\ row' = [row EXCEPT ![p] = IF Rechecked(p) THEN "changed" ELSE "ok"]
        /\ UNCHANGED failures
     \/ /\ failures < MaxFailures /\ failures' = failures + 1  \* it raises late, or
        /\ \E code \in {"operation_failed", "result_invalid"} :  \* its result is not taken
             /\ code = "operation_failed" => ~(cmd.op = "pull" /\ worked[p].did)
             /\ row' = [row EXCEPT ![p] = code]
  /\ UNCHANGED <<world, registry, cmd, loaded, admitted, reply, history, edits, works>>

Failed == {p \in Selected : row[p] \in Errors}

Aggregate ==
  /\ cmd.pc = "run" /\ Queued \cup Working = {}
  /\ Finish(IF Failed = {} THEN "ok"
            ELSE IF Failed = Selected THEN "failed" ELSE "partial_failure")
  /\ UNCHANGED <<world, registry, loaded, admitted, row, reply, history, bounds>>

-------------------------------------------------------------------------------
(* query: the registry is asked for each project, and then once for them all. *)
\* registry_status, with registry.lock shared; a manifest that changed is raised.
IsCurrent(p) ==
  /\ syncing = None
  /\ loaded[p].uid \in DOMAIN entry /\ entry[loaded[p].uid] = GraphOf(at[p])

Status(p) ==
  /\ cmd.pc = "status" /\ Turn(p)
  /\ \/ /\ Holds(p)
        /\ row' = [row EXCEPT ![p] = IF IsCurrent(p) THEN "ok" ELSE "not_current"]
        /\ After(p, "capture")
     \/ ~Holds(p) /\ Finish("refused") /\ UNCHANGED row
  /\ UNCHANGED <<world, registry, loaded, admitted, reply, history, bounds>>

NotCurrent ==
  /\ cmd.pc = "capture" /\ Failed # {} /\ Finish("failed")
  /\ UNCHANGED <<world, registry, loaded, admitted, row, reply, history, bounds>>

\* capture_registry_snapshot, with registry.lock shared and not waited for.
Capture ==
  /\ cmd.pc = "capture" /\ Failed = {}
  /\ \/ /\ syncing = None
        /\ reply' = [p \in Selected |-> entry[loaded[p].uid]]
        /\ Finish("ok")
     \/ syncing # None /\ Finish("refused") /\ UNCHANGED reply
  /\ UNCHANGED <<world, registry, loaded, admitted, row, history, bounds>>

-------------------------------------------------------------------------------
(* Meanwhile.                                                                *)
\* The runners that have this directory open.
Open(d) == {p \in Reading : loaded[p].dir = d} \cup {p \in Ending : worked[p].dir = d}

\* The user moves directories, writes a manifest (anew, or as it was) or a .git,
\* runs init.
Edit ==
  /\ cmd.pc # "done" /\ edits < MaxEdits /\ edits' = edits + 1
  /\ \/ /\ \E p \in Projects : \E d \in Dirs \ {at[p]} :
             at' = [q \in Projects |-> IF q = p THEN d
                                       ELSE IF at[q] = d THEN at[p] ELSE at[q]]
        /\ UNCHANGED <<manifest, pending, git, rewritten, regit>>
     \/ /\ \E d \in Dirs : \E m \in UserManifests :
             /\ manifest' = [manifest EXCEPT ![d] = m]
             /\ rewritten' = rewritten \cup Open(d)
        /\ UNCHANGED <<at, pending, git, regit>>
     \/ /\ \E d \in Dirs : pending' = IF d \in pending THEN pending \ {d}
                                      ELSE pending \cup {d}
        /\ UNCHANGED <<at, manifest, git, rewritten, regit>>
     \/ /\ \E d, e \in Dirs : d # e /\ git[d] # git[e] /\ git' = [git EXCEPT ![d] = git[e]]
        /\ regit' = TRUE
        /\ UNCHANGED <<at, manifest, pending, rewritten>>
  /\ UNCHANGED <<registry, cmd, loaded, admitted, row, reply, worked, works, failures>>

\* Another command refreshes a checkout, or syncs it: registry_sync keeps the
\* checkout's lifecycle lock while it waits for and holds registry.lock.
Refresh(d) ==
  /\ cmd.pc # "done" /\ works < MaxWorks /\ works' = works + 1
  /\ ~Locked(d) /\ graph' = [graph EXCEPT ![d] = @ + 1]
  /\ UNCHANGED <<world, entry, syncing, cmd, loaded, admitted, row, reply, history,
                 edits, failures>>

SyncBegins(d) ==
  /\ cmd.pc # "done" /\ works < MaxWorks /\ works' = works + 1
  /\ ~Registering /\ ~Locked(d) /\ syncing' = [dir |-> d, uid |-> manifest[d].uid]
  /\ UNCHANGED <<world, graph, entry, cmd, loaded, admitted, row, reply, history,
                 edits, failures>>

SyncEnds ==
  /\ syncing # None /\ syncing' = None
  /\ \/ entry' = With(entry, syncing.uid, GraphOf(syncing.dir))
     \/ UNCHANGED entry
  /\ UNCHANGED <<world, graph, cmd, loaded, admitted, row, reply, history, bounds>>

Command(p) == Load(p) \/ Admit(p) \/ Readmit(p) \/ Take(p) \/ Status(p)
Runner(p) == Run(p) \/ RunFails(p) \/ RunEnds(p)
Coordinator == Select \/ Aggregate \/ NotCurrent \/ Capture
Others == Edit \/ SyncEnds \/ \E d \in Dirs : Refresh(d) \/ SyncBegins(d)

\* The entries that are the graph of the directory they were taken from.
Live == {<<u, entry[u]>> : u \in {v \in DOMAIN entry : entry[v] = GraphOf(entry[v][1])}}

Init ==
  /\ at = Own /\ pending = {} /\ git = [d \in Dirs |-> d] /\ syncing = None
  /\ manifest = FirstManifest
  /\ graph = [d \in Dirs |-> 1]
  /\ entry \in FirstEntries
  /\ \E op \in Operations : cmd = [op |-> op, pc |-> "load", todo |-> Projects, status |-> "none"]
  /\ loaded = NoFile /\ admitted = NoFile /\ row = NoFile /\ reply = NoFile
  /\ worked = NoFile /\ rewritten = {} /\ regit = FALSE /\ current = Live
  /\ edits = 0 /\ works = 0 /\ failures = 0

Fleet == Coordinator \/ \E p \in Projects : Command(p) \/ Runner(p)
Seen(step) == step /\ current' = (current \cup Live')
Next == Seen(Fleet) \/ Seen(Others)

\* Threads run, and runners return: their subprocesses, requests and waits for a
\* lock have timeouts.
Spec == Init /\ [][Next]_vars /\ WF_vars(Seen(Fleet))

-------------------------------------------------------------------------------
TypeOK ==
  /\ at \in [Projects -> Dirs] /\ pending \subseteq Dirs /\ git \in [Dirs -> Dirs]
  /\ manifest \in [Dirs -> [id: Projects, uid: Projects, rev: Nat]]
  /\ graph \in [Dirs -> Nat] /\ DOMAIN entry \subseteq Projects
  /\ cmd.op \in Operations /\ cmd.pc \in PCs /\ cmd.status \in Statuses
  /\ cmd.todo \subseteq Projects
  /\ \A p \in Selected : p \in Projects /\ row[p] \in Rows
  /\ edits \in 0 .. MaxEdits /\ works \in 0 .. MaxWorks /\ failures \in 0 .. MaxFailures

\* A command that raises has worked on nothing.  One that answers has a row for
\* each selected project: ok only if its runner was at work, and in the directory
\* that was first opened as this project's; a journal of init only if it was not; a
\* change only if it has changed no graph and no entry, except by a sync whose
\* manifest was written between its commit and its last look; and the aggregate
\* says whether all, some or none are in order.
AnswerTrue ==
  cmd.pc = "done" =>
    IF cmd.status = "refused" THEN worked = NoFile
    ELSE /\ \A p \in Selected :
              /\ row[p] \in Errors \cup {"ok"}
              /\ row[p] \in {"ok", "result_invalid"} /\ cmd.op # "query" =>
                   p \in DOMAIN worked
              /\ row[p] = "init_recovery_required" => p \notin DOMAIN worked
              /\ p \in DOMAIN worked =>
                   /\ worked[p].dir = loaded[p].dir
                   /\ row[p] = "changed" /\ worked[p].did =>
                        cmd.op = "registry-sync" /\ p \in rewritten
         /\ cmd.status = "ok" <=> Failed = {}
         /\ cmd.status = "failed" <=> Failed = Selected \/ (cmd.op = "query" /\ Failed # {})

\* A row that says a change is one of a project in which nothing was changed.  False
\* of a sync whose manifest is written after its commit (README, section 7).
ChangedDidNothing ==
  cmd.pc = "done" => \A p \in DOMAIN worked : row[p] = "changed" => ~worked[p].did

\* No two runners of a command work in one directory, under one uid, or, while
\* no .git is edited, in worktrees of one repository, wherever things are moved.
Apart ==
  \A p, q \in DOMAIN worked : p # q =>
    /\ worked[p].dir # worked[q].dir /\ admitted[p].uid # admitted[q].uid
    /\ worked[p].git # worked[q].git \/ regit

\* A query answers about every selected project with an entry that, at a moment
\* of the command, was the graph of the checkout it was taken from (not always
\* the fleet's: another clone may sync after the status was looked at).
RepliesCurrent == \A p \in DOMAIN reply : <<loaded[p].uid, reply[p]>> \in current

Inv == TypeOK /\ AnswerTrue /\ Apart /\ RepliesCurrent

\* Whatever is moved, edited, busy or fails, the command ends, and every selected
\* project has its row: a failure neither stops nor starves the others.
CommandEnds == <>(cmd.pc = "done")
===============================================================================
