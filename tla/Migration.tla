------------------------------ MODULE Migration ------------------------------
(***************************************************************************)
(* The doctor's migration of an old layout into the state tree.            *)
(*                                                                         *)
(* An old project keeps its plan in one status file, or in three that      *)
(* `split-status` made of it, or (`bootstrap-state`) only in its story     *)
(* documents.  migrate-engine.py reads whatever is there once, makes a     *)
(* plan of it (parents first, the richest record of a key), writes each    *)
(* node with `import-node` and its goal with `set-field`, one process      *)
(* each, verifies the tree against the plan and renames the status files   *)
(* to `.legacy` one after the other.  It may be killed anywhere and is run *)
(* again; a second agent may run it at the same time; sessions work on     *)
(* the nodes that are already there.                                       *)
(***************************************************************************)
EXTENDS Naturals, FiniteSets

CONSTANTS
    Runs,           \* processes that run the engine
    Epics, Sprints, Stories,
    EpicOf,         \* EpicOf[k]: the epic of a node
    SprintOf,       \* SprintOf[t]: the sprint of a story
    Goals,          \* goals that nodes can have in a status file
    NoGoal,
    Starts,         \* what the status files may hold at first
    Written,        \* Written[t]: the status in story t's document, or "none"
    Busy,           \* TRUE: sessions work while an engine runs, too
    MaxDeaths,      \* bound: how many runs die
    MaxFailures,    \* bound: how many commands of theirs fail
    NoRun

Nodes == Epics \cup Sprints \cup Stories
Statuses == {"backlog", "in-progress", "done"}

\* A goal that a session writes, which is in no status file.
Revised == "revised"

Records == [status : Statuses, goal : Goals \cup {NoGoal, Revised}]
NoRecord == [status |-> "none", goal |-> NoGoal]
Listings == [Nodes -> Records \cup {NoRecord}]

\* SPLIT_FILES, in order: sprint-status.yaml and its two companions.
FileNames == {"active", "backlog", "archived"}
Position == [active |-> 1, backlog |-> 2, archived |-> 3]

\* A status file by what it lists; one that lists nothing is not written.
Missing == [k \in Nodes |-> NoRecord]

ASSUME MigrationAssumption ==
    /\ IsFiniteSet(Nodes) /\ Epics \cap (Sprints \cup Stories) = {}
    /\ Sprints \cap Stories = {}
    /\ EpicOf \in [Nodes -> Epics] /\ SprintOf \in [Stories -> Sprints]
    /\ \A e \in Epics : EpicOf[e] = e
    /\ \A t \in Stories : EpicOf[t] = EpicOf[SprintOf[t]]
    /\ Starts \subseteq [FileNames -> Listings]
    /\ Written \in [Stories -> Statuses \cup {"none"}]
    /\ Busy \in BOOLEAN /\ MaxDeaths \in Nat /\ MaxFailures \in Nat /\ NoRun \notin Runs

VARIABLES
    source,     \* source[f]: the status file f
    legacy,     \* legacy[f]: the file f.legacy
    dirs,       \* the epics and sprints that have a directory in the state tree
    tree,       \* tree[k]: the node of k in the state tree
    holder,     \* holder[e]: who holds epic_node_lock of e
    pc,         \* pc[r]: where run r is
    job,        \* job[r]: what it has read and planned
    died,       \* how many runs died
    lapsed,     \* how many commands failed
    first,      \* history: the status files at first
    worked      \* history: the nodes that a session has changed

vars == <<source, legacy, dirs, tree, holder, pc, job, died, lapsed, first, worked>>

NoJob == [layout |-> "none", plan |-> Missing, todo |-> {}, at |-> "none",
          node |-> NoRecord, failed |-> FALSE]

Init ==
  /\ source \in Starts /\ first = source
  /\ legacy = [f \in FileNames |-> Missing]
  /\ dirs = {} /\ tree = Missing
  /\ holder = [e \in Epics |-> NoRun]
  /\ pc = [r \in Runs |-> "idle"] /\ job = [r \in Runs |-> NoJob]
  /\ died = 0 /\ lapsed = 0 /\ worked = {}

Places == {"idle", "next", "save", "field", "fieldsave", "dispose"}

TypeOK ==
  /\ source \in [FileNames -> Listings] /\ legacy \in [FileNames -> Listings]
  /\ dirs \subseteq Epics \cup Sprints /\ tree \in Listings
  /\ holder \in [Epics -> Runs \cup {NoRun}] /\ pc \in [Runs -> Places]
  /\ \A r \in Runs :
       /\ job[r].layout \in {"none", "split", "flat", "artifacts"}
       /\ job[r].plan \in Listings /\ job[r].todo \subseteq Nodes
       /\ job[r].node \in Records \cup {NoRecord} /\ job[r].failed \in BOOLEAN
  /\ died \in 0..MaxDeaths /\ lapsed \in 0..MaxFailures /\ worked \subseteq Nodes

-----------------------------------------------------------------------------
(* Reading.                                                                 *)

Present(f) == source[f] # Missing
Lists(f, k) == source[f][k] # NoRecord

\* detect: the split files first, then the flat file by its schema.
Layout ==
  CASE Present("backlog") \/ Present("archived") -> "split"
    [] ~(Present("backlog") \/ Present("archived")) /\ Present("active") -> "flat"
    [] OTHER -> IF \E t \in Stories : Written[t] # "none" THEN "artifacts" ELSE "none"

\* The files that a layout reads at first and retires in the end.
FilesOf(layout) ==
  CASE layout = "split" -> FileNames
    [] layout = "flat" -> {"active"}
    [] OTHER -> {}

Stage(status) ==
  CASE status = "backlog" -> 0 [] status = "in-progress" -> 1 [] status = "done" -> 2

\* _richness: the later status, then the fields beyond the typed ones.
Richer(a, b) ==
  \/ Stage(a.status) > Stage(b.status)
  \/ a.status = b.status /\ a.goal # NoGoal /\ b.goal = NoGoal

\* Mutant of Chosen: the record that is read last is kept.
LastRead(files, k) ==
  LET having == {f \in files : Lists(f, k)}
  IN  CHOOSE f \in having : \A g \in having : Position[g] <= Position[f]

\* dedupe: of the records of one key the richest, and the first one of those.
Chosen(files, k) ==
  LET having == {f \in files : Lists(f, k)}
      best == {f \in having : \A g \in having : ~Richer(source[g][k], source[f][k])}
  IN  CHOOSE f \in best : \A g \in best : Position[f] <= Position[g]

FromFiles(files) ==
  [k \in Nodes |-> IF \E f \in files : Lists(f, k)
                   THEN source[Chosen(files, k)][k] ELSE NoRecord]

\* read-artifacts.py: the stories with a document and no node; the sprints and
\* epics of these that have no directory, with a status inferred upwards.
RollUp(statuses) ==
  CASE statuses = {"done"} -> "done"
    [] statuses \subseteq {"backlog"} -> "backlog"
    [] OTHER -> "in-progress"

FromDocuments ==
  LET fresh == {t \in Stories : Written[t] # "none" /\ tree[t] = NoRecord}
      sprints(e) == {SprintOf[t] : t \in {u \in fresh : EpicOf[u] = e}}
      ofSprint(s) == RollUp({Written[t] : t \in {u \in fresh : SprintOf[u] = s}})
      status == [k \in Nodes |->
                   CASE k \in fresh -> Written[k]
                     [] k \in {SprintOf[t] : t \in fresh} \ dirs -> ofSprint(k)
                     [] k \in {EpicOf[t] : t \in fresh} \ dirs ->
                          RollUp({ofSprint(s) : s \in sprints(k)})
                     [] OTHER -> "none"]
  IN  [k \in Nodes |-> [status |-> status[k], goal |-> NoGoal]]

Plan == IF Layout = "artifacts" THEN FromDocuments ELSE FromFiles(FilesOf(Layout))

Planned(plan) == {k \in Nodes : plan[k] # NoRecord}

\* gate: nothing was made of a source that holds something.
Refused == Planned(Plan) = {}

-----------------------------------------------------------------------------
(* The engine.                                                              *)

Goto(r, place) == pc' = [pc EXCEPT ![r] = place]

\* Steps 1 to 5, which write nothing.
Begin(r) ==
  /\ pc[r] = "idle" /\ Layout # "none" /\ ~Refused
  /\ job' = [job EXCEPT ![r] = [NoJob EXCEPT !.layout = Layout, !.plan = Plan,
                                             !.todo = Planned(Plan)]]
  /\ Goto(r, "next")
  /\ UNCHANGED <<source, legacy, dirs, tree, holder, died, lapsed, first, worked>>

\* Parents first.
Depth(k) == CASE k \in Epics -> 0 [] k \in Sprints -> 1 [] k \in Stories -> 2
Due(r) == {k \in job[r].todo : \A j \in job[r].todo : Depth(k) <= Depth(j)}

\* The directory that ensure_node_path makes for a node.
Home(k) == IF k \in Stories THEN SprintOf[k] ELSE k

\* What follows import-node of k: its extras, also when the node was there.
Onward(r, k) == IF job[r].plan[k].goal # NoGoal THEN "field" ELSE "next"

Took(r, k) == [job EXCEPT ![r] = [job[r] EXCEPT !.todo = @ \ {k}, !.at = k]]
Failing(r, k) == [job EXCEPT ![r] = [job[r] EXCEPT !.todo = @ \ {k}, !.failed = TRUE]]

\* Mutant of ImportSkips: a node that is there is an error.
ImportCollides(r) ==
  \E k \in Due(r) :
    /\ pc[r] = "next" /\ tree[k] # NoRecord
    /\ k \in Epics => holder[k] = NoRun
    /\ job' = Failing(r, k)
    /\ UNCHANGED <<source, legacy, dirs, tree, holder, pc, died, lapsed, first, worked>>

\* import-node of a node that is there: SKIP.  An epic's flock is taken, and
\* dropped at once.
ImportSkips(r) ==
  \E k \in Due(r) :
    /\ pc[r] = "next" /\ tree[k] # NoRecord
    /\ k \in Epics => holder[k] = NoRun
    /\ job' = Took(r, k) /\ Goto(r, Onward(r, k))
    /\ UNCHANGED <<source, legacy, dirs, tree, holder, died, lapsed, first, worked>>

\* import-node of a node that is not: ensure_node_path makes its directory.
\* Only an epic's flock is held until the node is saved.
ImportStarts(r) ==
  \E k \in Due(r) :
    /\ pc[r] = "next" /\ tree[k] = NoRecord
    /\ IF k \in Epics THEN holder[k] = NoRun /\ holder' = [holder EXCEPT ![k] = r]
                      ELSE EpicOf[k] \in dirs /\ UNCHANGED holder
    /\ dirs' = dirs \cup {Home(k)}
    /\ job' = Took(r, k) /\ Goto(r, "save")
    /\ UNCHANGED <<source, legacy, tree, died, lapsed, first, worked>>

\* import-node exits 3: the epic of the node has no directory.
ImportRefused(r) ==
  \E k \in Due(r) :
    /\ pc[r] = "next" /\ k \notin Epics /\ EpicOf[k] \notin dirs
    /\ job' = Failing(r, k)
    /\ UNCHANGED <<source, legacy, dirs, tree, holder, pc, died, lapsed, first, worked>>

Released(r) == [e \in Epics |-> IF holder[e] = r THEN NoRun ELSE holder[e]]

SaveNode(r) ==
  LET k == job[r].at
  IN  /\ pc[r] = "save"
      /\ tree' = [tree EXCEPT ![k] = [status |-> job[r].plan[k].status, goal |-> NoGoal]]
      /\ holder' = Released(r) /\ Goto(r, Onward(r, k))
      /\ UNCHANGED <<source, legacy, dirs, job, died, lapsed, first, worked>>

\* Mutant of FieldLoad: no flock, as for a sprint.
UnlockedLoad(r) ==
  LET k == job[r].at
  IN  /\ pc[r] = "field"
      /\ job' = [job EXCEPT ![r].node = tree[k]] /\ Goto(r, "fieldsave")
      /\ UNCHANGED <<source, legacy, dirs, tree, holder, died, lapsed, first, worked>>

\* set-field --field goal: a load and a save, under the flock if it is an epic.
FieldLoad(r) ==
  LET k == job[r].at
  IN  /\ pc[r] = "field"
      /\ IF k \in Epics THEN holder[k] = NoRun /\ holder' = [holder EXCEPT ![k] = r]
                        ELSE UNCHANGED holder
      /\ job' = [job EXCEPT ![r].node = tree[k]] /\ Goto(r, "fieldsave")
      /\ UNCHANGED <<source, legacy, dirs, tree, died, lapsed, first, worked>>

FieldSave(r) ==
  LET k == job[r].at
  IN  /\ pc[r] = "fieldsave"
      /\ tree' = [tree EXCEPT ![k] = [job[r].node EXCEPT !.goal = job[r].plan[k].goal]]
      /\ holder' = Released(r) /\ job' = [job EXCEPT ![r].node = NoRecord] /\ Goto(r, "next")
      /\ UNCHANGED <<source, legacy, dirs, died, lapsed, first, worked>>

\* A command of the engine's exits with an error before it writes: the run goes
\* on with the next node, and ends without a verification.
CommandFails(r) ==
  /\ lapsed < MaxFailures /\ lapsed' = lapsed + 1
  /\ \/ pc[r] = "next" /\ \E k \in Due(r) : job' = Failing(r, k)
     \/ pc[r] = "field" /\ job' = [job EXCEPT ![r].failed = TRUE]
  /\ Goto(r, "next")
  /\ UNCHANGED <<source, legacy, dirs, tree, holder, died, first, worked>>

\* verify_against_plan compares keys and statuses with the plan.
Verified(plan) == \A k \in Planned(plan) : tree[k].status = plan[k].status

Verify(r) ==
  /\ pc[r] = "next" /\ job[r].todo = {} /\ ~job[r].failed /\ Verified(job[r].plan)
  /\ Goto(r, "dispose")
  /\ UNCHANGED <<source, legacy, dirs, tree, holder, job, died, lapsed, first, worked>>

End(r) == Goto(r, "idle") /\ job' = [job EXCEPT ![r] = NoJob]

\* "FAILED during write", or "FAILED verification": the source is untouched.
RunFails(r) ==
  /\ pc[r] = "next" /\ job[r].todo = {} /\ (job[r].failed \/ ~Verified(job[r].plan))
  /\ End(r)
  /\ UNCHANGED <<source, legacy, dirs, tree, holder, died, lapsed, first, worked>>

\* dispose: one rename per file, in the order of SPLIT_FILES.
ToRetire(r) == {f \in FilesOf(job[r].layout) : Present(f)}

Dispose(r) ==
  /\ pc[r] = "dispose"
  /\ \E f \in ToRetire(r) :
       /\ \A g \in ToRetire(r) : Position[f] <= Position[g]
       /\ legacy' = [legacy EXCEPT ![f] = source[f]]
       /\ source' = [source EXCEPT ![f] = Missing]
  /\ UNCHANGED <<dirs, tree, holder, pc, job, died, lapsed, first, worked>>

Done(r) ==
  /\ pc[r] = "dispose" /\ ToRetire(r) = {} /\ End(r)
  /\ UNCHANGED <<source, legacy, dirs, tree, holder, died, lapsed, first, worked>>

\* A run is killed; the kernel drops its flocks.
Die(r) ==
  /\ pc[r] # "idle" /\ died < MaxDeaths /\ died' = died + 1
  /\ holder' = Released(r) /\ End(r)
  /\ UNCHANGED <<source, legacy, dirs, tree, lapsed, first, worked>>

-----------------------------------------------------------------------------
(* The others.                                                              *)

\* split-status: an epic in progress leaves a shell of its sprints that have
\* not started in the backlog file, which the reader takes for a backlog epic.
FileOf(doc, k) ==
  LET epic == doc[EpicOf[k]].status
      sprint == IF k \in Epics THEN epic ELSE doc[Home(k)].status
  IN  CASE epic = "done" -> "archived"
        [] epic = "backlog" \/ sprint = "backlog" -> "backlog"
        [] OTHER -> "active"

Listed(doc, f, k) == doc[k] # NoRecord /\ FileOf(doc, k) = f

HasShell(doc, k) ==
  /\ k \in Epics /\ Listed(doc, "active", k)
  /\ \E s \in Sprints : EpicOf[s] = k /\ Listed(doc, "backlog", s)

Part(doc, f) ==
  [k \in Nodes |-> CASE Listed(doc, f, k) -> doc[k]
                     [] f = "backlog" /\ HasShell(doc, k) -> [doc[k] EXCEPT !.status = "backlog"]
                     [] OTHER -> NoRecord]

SplitStatus ==
  /\ \A r \in Runs : pc[r] = "idle"
  /\ Present("active") /\ ~Present("backlog") /\ ~Present("archived")
  /\ legacy["active"] = Missing
  /\ source' = [f \in FileNames |-> Part(source["active"], f)]
  /\ legacy' = [legacy EXCEPT !["active"] = source["active"]]
  /\ UNCHANGED <<dirs, tree, holder, pc, job, died, lapsed, first, worked>>

\* A session finishes a node that is in the tree, or gives it another goal.
Work(k) ==
  /\ Busy \/ \A r \in Runs : pc[r] = "idle"
  /\ tree[k] # NoRecord /\ k \notin worked
  /\ k \in Epics => holder[k] = NoRun
  /\ \/ tree' = [tree EXCEPT ![k].status = "done"]
     \/ tree' = [tree EXCEPT ![k].goal = Revised]
  /\ worked' = worked \cup {k}
  /\ UNCHANGED <<source, legacy, dirs, holder, pc, job, died, lapsed, first>>

-----------------------------------------------------------------------------
Engine(r) ==
  \/ ImportSkips(r) \/ ImportStarts(r) \/ ImportRefused(r) \/ SaveNode(r)
  \/ FieldLoad(r) \/ FieldSave(r) \/ Verify(r) \/ RunFails(r) \/ Dispose(r) \/ Done(r)

Next ==
  \/ \E r \in Runs : Begin(r) \/ Engine(r) \/ CommandFails(r) \/ Die(r)
  \/ SplitStatus
  \/ \E k \in Nodes : Work(k)

Spec == Init /\ [][Next]_vars

\* A run that has begun goes on, and somebody runs the engine again while there
\* is something to migrate.
FairSpec ==
  /\ Spec
  /\ \A r \in Runs : WF_vars(Engine(r))
  /\ WF_vars(\E r \in Runs : Begin(r))

-----------------------------------------------------------------------------
(* Properties.                                                              *)

\* Once a node's record is in no status file any more, the node is in the tree
\* as the files had it at first, and not as a shell of it or half written,
\* whatever died and was run again; unless a session has worked on it since.
\* Two runs may race over a sprint's goal, so the goal is an epic's.
MigratedAsItWas ==
  \A f \in FileNames, k \in Nodes \ worked :
    LET record == first[f][k]
    IN  record # NoRecord /\ (\A g \in FileNames : source[g][k] # record) =>
          /\ tree[k].status = record.status
          /\ k \in Epics => tree[k].goal = record.goal

\* import-node holds the epic's flock over its look and its save, and set-field
\* over its load and save: what a session has set an epic's status to is not
\* undone by a run of the engine, also not by one that had planned before.
EpicProgressIsKept ==
  [][\A e \in Epics \cap worked : tree'[e].status = tree[e].status]_vars

\* What no rerun can settle: a node stands in the tree with another status than
\* the files that are left say, since a session has finished it or, of an epic,
\* since only the shell of it is left.
Unsettled ==
  \E k \in Planned(Plan) :
    /\ tree[k] # NoRecord /\ tree[k].status # Plan[k].status
    /\ k \in worked \/ (k \in Epics /\ ~Present("active"))

Imported == \A f \in FileNames, k \in Nodes : first[f][k] # NoRecord => tree[k] # NoRecord

Migrated ==
  /\ \A f \in FileNames : ~Present(f)
  /\ \A t \in Stories : Written[t] # "none" => tree[t] # NoRecord

\* "Re-running after a partial run is safe": run again often enough, whatever
\* died and failed before, the migration makes a node of everything the status
\* files listed at first; and it retires every one of the files and makes a node
\* for every story that has a document, unless what is left is unsettled.
MigrationEnds == <>[](Imported /\ (Unsettled \/ Migrated))
=============================================================================
