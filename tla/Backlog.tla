------------------------------ MODULE Backlog -------------------------------
(***************************************************************************)
(* The backlog together with the story nodes it schedules work on.         *)
(*                                                                         *)
(* A story node lists in `resolves` the backlog keys its completion fixes, *)
(* and a scheduled item names its story: two files that must agree, with   *)
(* no lock over both.  promote-issue and schedule-issue hold the epic lock *)
(* and then issues_lock; set-status and the other story writers hold no    *)
(* lock between reading a node and replacing it; the repairs hold only     *)
(* issues_lock.  A `done` runs a hook that resolves the story's keys.      *)
(*                                                                         *)
(* Files is module IssueStore: each step here is a step of its processes   *)
(* or leaves the two files alone.                                          *)
(***************************************************************************)
EXTENDS Naturals, FiniteSets, Sequences, SequencesExt

CONSTANTS
  Procs, Epics, LastSuffix, Contents, EpicOf, Severities, Kinds, Resolutions,
  Stories, ExplicitSuffixes, HandEdits, CanCrash,
  NoProc, NoStory, NoKey, NoContent, Commit,   \* as in IssueStore
  EpicOfStory,  \* the epic whose directory holds the story
  Statuses,     \* the story statuses in use
  Verbs         \* per process: the verbs it is used for

VARIABLES
  disk, holder, pc, mem, cur, birth, deleted,  \* as in IssueStore
  nodes,       \* per story: its status and the keys it resolves
  archived,    \* the epics whose directory is under archived/
  epicHolder,  \* per epic: the process in epic_node_lock
  step,        \* per process: where its verb stands
  job          \* per process: what its verb was given and has read

Files == INSTANCE IssueStore

fileVars == <<disk, holder, pc, mem, cur, birth, deleted>>
vars == <<fileVars, nodes, archived, epicHolder, step, job>>

StoryStatuses == {"backlog", "ready-for-dev", "in-progress", "review", "done", "blocked"}
EpicLockVerbs == {"promote-issue", "schedule-issue"}
FileVerbs == {"append-issue", "resolve-issue", "repair-issue"}
StoryVerbs == {"set-status", "set-field"}

Keys == Files!Keys
Absent == [status |-> "absent", resolves |-> {}]
Nodes == [status : Statuses \cup {"absent"}, resolves : SUBSET Keys]

Exists(s) == nodes[s].status # "absent"

NoJob == [verb |-> "none", story |-> NoStory, epic |-> NoStory, node |-> Absent,
          to |-> "absent", keys |-> {}, id |-> "none"]

ASSUME BacklogAssumption ==
  /\ Files!IssueStoreAssumption
  /\ EpicOfStory \in [Stories -> Epics]
  /\ Statuses \subseteq StoryStatuses
  /\ {"backlog", "done"} \subseteq Statuses
  /\ Verbs \in [Procs -> SUBSET (EpicLockVerbs \cup FileVerbs \cup StoryVerbs \cup {"move-epic"})]

\* VALID_STORY_TRANSITIONS
Transitions(from) ==
  CASE from = "backlog"       -> {"ready-for-dev", "in-progress", "review", "done"}
    [] from = "ready-for-dev" -> {"backlog", "in-progress", "review", "done"}
    [] from = "in-progress"   -> {"backlog", "ready-for-dev", "review", "done", "blocked"}
    [] from = "review"        -> {"backlog", "ready-for-dev", "in-progress", "done", "blocked"}
    [] from = "blocked"       -> {"in-progress", "done"}
    [] from = "done"          -> {"backlog", "ready-for-dev", "in-progress", "review", "done"}

-----------------------------------------------------------------------------
(* What audit-issues reads off the story nodes and the two files.           *)

\* A story under archived/ that is not done claims nothing any more.
DeadClaim(s) == EpicOfStory[s] \in archived /\ nodes[s].status # "done"

Claims(s, k) == Exists(s) /\ k \in nodes[s].resolves
LiveClaims(s, k) == Claims(s, k) /\ ~DeadClaim(s)

\* Items the findings speak of: open, and not resolved (resolved comes first).
Evaluated == {it \in disk.open : ~Files!IsResolved(disk, it.key)}

Finding1a(it) == Files!IsResolved(disk, it.key)
Finding1b(it) == it \in Evaluated /\ it.status = "scheduled" /\ ~Claims(it.story, it.key)
Finding1c(it, s) ==
  it \in Evaluated /\ LiveClaims(s, it.key) /\ nodes[s].status = "done"
\* Mutant of Finding1d: link believes the story it is given.
Finding1dUnclaimed(it, s) ==
  it \in Evaluated /\ it.status = "backlog" /\ nodes[s].status # "done"

Finding1d(it, s) ==
  /\ it \in Evaluated /\ it.status = "backlog"
  /\ LiveClaims(s, it.key) /\ nodes[s].status # "done"
Finding1g(it) ==
  /\ it \in Evaluated /\ it.status = "scheduled"
  /\ Claims(it.story, it.key) /\ DeadClaim(it.story)
Finding1h(k) == \E s, t \in Stories : s # t /\ LiveClaims(s, k) /\ LiveClaims(t, k)
Finding1j(k) ==
  \E i \in Files!ResolvedAt(disk, k) :
    /\ Files!IsReopenable(disk, k, i)
    /\ Claims(disk.resolved[i].ref, k)
    /\ nodes[disk.resolved[i].ref].status # "done"

\* What triage repairs with a verb, as audit-issues reports it; 1h is left to
\* a person.
Reports ==
  LET report(id, k, s) == [id |-> id, key |-> k, story |-> s]
  IN  {report("1a", it.key, NoStory) : it \in {it \in disk.open : Finding1a(it)}} \cup
      {report("1b", it.key, it.story) : it \in {it \in disk.open : Finding1b(it)}} \cup
      {report("1g", it.key, it.story) : it \in {it \in disk.open : Finding1g(it)}} \cup
      {report("1c", x[1].key, x[2]) : x \in {x \in disk.open \X Stories : Finding1c(x[1], x[2])}} \cup
      {report("1d", x[1].key, x[2]) : x \in {x \in disk.open \X Stories : Finding1d(x[1], x[2])}} \cup
      {report("1j", k, NoStory) : k \in {k \in Keys : Finding1j(k)}}

Repairable == Reports # {}

-----------------------------------------------------------------------------
Init ==
  /\ Files!Init
  /\ nodes \in [Stories -> {Absent, [Absent EXCEPT !.status = "backlog"]}]
  /\ archived = {}
  /\ epicHolder = [e \in Epics |-> NoProc]
  /\ step = [p \in Procs |-> "idle"]
  /\ job = [p \in Procs |-> NoJob]

Idle(p, verb) == step[p] = "idle" /\ verb \in Verbs[p]

Goto(p, to) == step' = [step EXCEPT ![p] = to]
SetJob(p, j) == job' = [job EXCEPT ![p] = j]
SaveNode(s, node) == nodes' = [nodes EXCEPT ![s] = node]

\* The verb ends, one way or another: its epic lock goes with it.
Done(p) ==
  /\ Goto(p, "idle")
  /\ SetJob(p, NoJob)
  /\ epicHolder' = [e \in Epics |-> IF epicHolder[e] = p THEN NoProc ELSE epicHolder[e]]

-----------------------------------------------------------------------------
(* Verbs on the issue files alone: one hold, one body.                      *)

FileCall(p, verb) ==
  /\ Idle(p, verb)
  /\ verb = "repair-issue" => Repairable      \* triage answers a finding
  /\ Files!Acquire(p)
  /\ Goto(p, "body")
  /\ SetJob(p, [NoJob EXCEPT !.verb = verb])
  /\ UNCHANGED <<nodes, archived, epicHolder>>

InBody(p, verb) ==
  /\ step[p] = "body" /\ job[p].verb = verb
  /\ UNCHANGED <<nodes, archived, epicHolder, job>>

AppendBody(p) ==
  /\ InBody(p, "append-issue")
  /\ Files!AppendStep(p)
  /\ Goto(p, "release")

ResolveBody(p) ==
  /\ InBody(p, "resolve-issue")
  /\ \E it \in mem[p].open :
       \/ /\ \E how \in Resolutions, ref \in Files!Refs \cup {NoKey} :
              Files!ResolveAppend(p, it, how, ref)
          /\ Goto(p, "second")
       \/ Files!ResolveRerun(p, it) /\ Goto(p, "release")

\* repair-issue reads every story node for its audit, without their locks,
\* and then makes the repair of one finding; the two findings that a
\* resolve-issue call repairs are made here too.
RepairAudit(p) ==
  /\ step[p] = "body" /\ job[p].verb = "repair-issue"
  /\ \E r \in Reports :
       SetJob(p, [job[p] EXCEPT !.id = r.id, !.keys = {r.key}, !.story = r.story])
  /\ Goto(p, "repair")
  /\ UNCHANGED <<fileVars, nodes, archived, epicHolder>>

RepairItem(p, it) ==
  CASE job[p].id = "1a" -> Files!ResolveRerun(p, it)
    [] job[p].id \in {"1b", "1g"} -> Files!Unschedule(p, it)
    [] job[p].id = "1d" -> Files!Link(p, it, job[p].story)
    [] OTHER -> FALSE

\* Resolving what a done story lists (1c) and reopening what a reopened story
\* does (1j) save both files.
RepairWrite(p) ==
  /\ step[p] = "repair"
  /\ \E k \in job[p].keys :
       \/ \E it \in Files!OpenItems(mem[p], k) : RepairItem(p, it) /\ Goto(p, "release")
       \/ \E it \in Files!OpenItems(mem[p], k) :
            /\ job[p].id = "1c"
            /\ Files!ResolveAppend(p, it, "fixed", job[p].story)
            /\ Goto(p, "second")
       \/ \E i \in Files!ResolvedAt(mem[p], k) :
            /\ job[p].id = "1j"
            /\ \/ Files!ReopenAdd(p, k, i) /\ Goto(p, "second")
               \/ Files!ReopenRerun(p, k, i) /\ Goto(p, "release")
  /\ UNCHANGED <<nodes, archived, epicHolder, job>>

\* The second save of a resolve or a reopen.
SecondSave(p) ==
  /\ step[p] = "second"
  /\ Files!ResolveDrop(p) \/ Files!ReopenDrop(p)
  /\ Goto(p, "release")
  /\ UNCHANGED <<nodes, archived, epicHolder, job>>

\* The body is done, or it refused or skipped; a repair refuses only when its
\* finding no longer holds under the lock.
EndFileCall(p) ==
  /\ \/ step[p] = "release"
     \/ step[p] = "body" /\ (job[p].verb = "repair-issue" => ~Repairable)
  /\ Files!Release(p)
  /\ Done(p)
  /\ UNCHANGED <<nodes, archived>>

-----------------------------------------------------------------------------
(* set-status and set-field: the node is read, checked and replaced whole,  *)
(* and no lock covers the two.                                              *)

StoryRead(p, verb, s, to) ==
  /\ Idle(p, verb)
  /\ Exists(s)
  /\ to \in CASE verb = "set-status" -> Transitions(nodes[s].status) \cap Statuses
               [] verb = "set-field"  -> {nodes[s].status}
  /\ Goto(p, "save")
  /\ SetJob(p, [NoJob EXCEPT !.verb = verb, !.story = s, !.node = nodes[s], !.to = to])
  /\ UNCHANGED <<fileVars, nodes, archived, epicHolder>>

\* Mutant of NeedsHook: the status before the move is looked at.
NeedsHookBefore(j) ==
  j.verb = "set-status" /\ j.node.status = "done" /\ j.node.resolves # {}

NeedsHook(j) == j.verb = "set-status" /\ j.to = "done" /\ j.node.resolves # {}

StorySave(p) ==
  /\ step[p] = "save"
  /\ SaveNode(job[p].story, [job[p].node EXCEPT !.status = job[p].to])
  /\ IF NeedsHook(job[p])
       THEN /\ Goto(p, "hook")
            /\ SetJob(p, [job[p] EXCEPT !.keys = job[p].node.resolves])
            /\ UNCHANGED epicHolder
       ELSE Done(p)
  /\ UNCHANGED <<fileVars, archived>>

\* _resolve_story_items: one issues_lock hold, one resolve per key the saved
\* node lists.  A key that cannot be resolved is a warning, never a failure.
HookAcquire(p) ==
  /\ step[p] = "hook"
  /\ Files!Acquire(p)
  /\ Goto(p, "hookKeys")
  /\ UNCHANGED <<nodes, archived, epicHolder, job>>

HookBegin(p, it) ==
  Files!ResolveAppend(p, it, "fixed", job[p].story) \/ Files!ResolveRerun(p, it)

HookKey(p, k) ==
  /\ step[p] = "hookKeys" /\ pc[p] = "loaded"
  /\ k \in job[p].keys
  /\ \/ \E it \in mem[p].open : it.key = k /\ HookBegin(p, it)
     \/ Files!OpenItems(mem[p], k) = {} /\ UNCHANGED fileVars
  /\ SetJob(p, [job[p] EXCEPT !.keys = @ \ {k}])
  /\ UNCHANGED <<nodes, archived, epicHolder, step>>

HookDrop(p) ==
  /\ step[p] = "hookKeys"
  /\ Files!ResolveDrop(p)
  /\ UNCHANGED <<nodes, archived, epicHolder, step, job>>

HookEnd(p) ==
  /\ step[p] = "hookKeys"
  /\ job[p].keys = {}
  /\ Files!Release(p)
  /\ Done(p)
  /\ UNCHANGED <<nodes, archived>>

-----------------------------------------------------------------------------
(* promote-issue: epic lock, issues_lock, story node, items, release.       *)

EnterEpic(p, e) ==
  /\ epicHolder[e] = NoProc
  /\ e \notin archived
  /\ epicHolder' = [epicHolder EXCEPT ![e] = p]
  /\ UNCHANGED <<fileVars, nodes, archived>>

PromoteEnter(p, e, keys) ==
  /\ Idle(p, "promote-issue")
  /\ EnterEpic(p, e)
  /\ Goto(p, "promote")
  /\ SetJob(p, [NoJob EXCEPT !.verb = "promote-issue", !.epic = e, !.keys = keys])

\* The nested issues_lock of promote-issue and schedule-issue.
NestedAcquire(p) ==
  /\ step[p] \in {"promote", "schedule"}
  /\ Files!Acquire(p)
  /\ Goto(p, IF step[p] = "promote" THEN "mint" ELSE "attach")
  /\ UNCHANGED <<nodes, archived, epicHolder, job>>

\* _promotable_items
Promotable(p) ==
  \A k \in job[p].keys : \E it \in mem[p].open : it.key = k /\ Files!IsSchedulable(mem[p], it)

Claimants(keys) == {s \in Stories : \E k \in keys : LiveClaims(s, k)}

\* _partial_promotion: a story of this epic that already lists exactly these
\* keys is an interrupted call to resume.
Resumable(p, s) ==
  /\ Claimants(job[p].keys) = {s}
  /\ nodes[s].resolves = job[p].keys
  /\ nodes[s].status # "done"
  /\ EpicOfStory[s] = job[p].epic

\* Mutant of Mintable: claimants are not looked for.
MintableAnyway(p, s) == ~Exists(s) /\ EpicOfStory[s] = job[p].epic

Mintable(p, s) ==
  /\ Claimants(job[p].keys) = {}
  /\ ~Exists(s) /\ EpicOfStory[s] = job[p].epic

PromoteMint(p, s) ==
  /\ step[p] = "mint"
  /\ Promotable(p)
  /\ \/ Resumable(p, s) /\ UNCHANGED nodes
     \/ Mintable(p, s) /\ SaveNode(s, [status |-> "backlog", resolves |-> job[p].keys])
  /\ Goto(p, "items")
  /\ SetJob(p, [job[p] EXCEPT !.story = s])
  /\ UNCHANGED <<fileVars, archived, epicHolder>>

PromoteRefuse(p) ==
  /\ step[p] = "mint"
  /\ ~Promotable(p) \/ \A s \in Stories : ~Resumable(p, s) /\ ~Mintable(p, s)
  /\ Files!Release(p)
  /\ Done(p)
  /\ UNCHANGED <<nodes, archived>>

-----------------------------------------------------------------------------
(* schedule-issue: the story node is read under the epic lock, before       *)
(* issues_lock, and the item check and both saves happen under both.        *)

ScheduleEnter(p, s, keys) ==
  /\ Idle(p, "schedule-issue")
  /\ Exists(s) /\ nodes[s].status # "done"
  /\ EnterEpic(p, EpicOfStory[s])
  /\ Goto(p, "schedule")
  /\ SetJob(p, [NoJob EXCEPT !.verb = "schedule-issue", !.story = s,
                             !.node = nodes[s], !.keys = keys])

\* _schedulable_items: those already scheduled here are skipped.
ToSchedule(p) ==
  {it \in mem[p].open : it.key \in job[p].keys /\ it.status = "backlog"}

Schedulable(p) ==
  \A k \in job[p].keys : \E it \in mem[p].open :
    /\ it.key = k
    /\ \/ Files!IsSchedulable(mem[p], it)
       \/ /\ Files!IsUnresolvedOpen(mem[p], it)
          /\ it.kind = "defect"
          /\ it.status = "scheduled" /\ it.story = job[p].story

ScheduleAttach(p) ==
  /\ step[p] = "attach"
  /\ Schedulable(p)
  /\ ToSchedule(p) # {}
  /\ SaveNode(job[p].story,
       [job[p].node EXCEPT !.resolves = @ \cup {it.key : it \in ToSchedule(p)}])
  /\ Goto(p, "items")
  /\ UNCHANGED <<fileVars, archived, epicHolder, job>>

ScheduleRefuse(p) ==
  /\ step[p] = "attach"
  /\ ~Schedulable(p) \/ ToSchedule(p) = {}
  /\ Files!Release(p)
  /\ Done(p)
  /\ UNCHANGED <<nodes, archived>>

\* The last save of both: the items name the story.
ScheduleItems(p) ==
  /\ step[p] = "items"
  /\ Files!Schedule(p, ToSchedule(p), job[p].story)
  /\ Goto(p, "unlock")
  /\ UNCHANGED <<nodes, archived, epicHolder, job>>

Unlock(p) ==
  /\ step[p] = "unlock"
  /\ Files!Release(p)
  /\ Done(p)
  /\ UNCHANGED <<nodes, archived>>

-----------------------------------------------------------------------------
(* move-epic, to archived/ and back, while nobody holds a node of it open   *)
(* (what a writer does to a moved epic is not this module's question).      *)

MoveEpic(p, e) ==
  /\ Idle(p, "move-epic")
  /\ epicHolder[e] = NoProc
  /\ \A q \in Procs : step[q] = "save" => EpicOfStory[job[q].story] # e
  /\ archived' = IF e \in archived THEN archived \ {e} ELSE archived \cup {e}
  /\ UNCHANGED <<fileVars, nodes, epicHolder, step, job>>

\* A process dies; the kernel drops its flocks.
Crash(p) ==
  /\ CanCrash
  /\ step[p] # "idle"
  /\ IF pc[p] = "idle" THEN UNCHANGED fileVars ELSE Files!Crash(p)
  /\ Done(p)
  /\ UNCHANGED <<nodes, archived>>

-----------------------------------------------------------------------------
\* The steps of a verb already under way.
Continue(p) ==
  \/ AppendBody(p) \/ ResolveBody(p) \/ RepairAudit(p) \/ RepairWrite(p)
  \/ SecondSave(p) \/ EndFileCall(p)
  \/ StorySave(p) \/ HookAcquire(p) \/ HookDrop(p) \/ HookEnd(p)
  \/ \E k \in Keys : HookKey(p, k)
  \/ NestedAcquire(p)
  \/ \E s \in Stories : PromoteMint(p, s)
  \/ PromoteRefuse(p) \/ ScheduleAttach(p) \/ ScheduleRefuse(p)
  \/ ScheduleItems(p) \/ Unlock(p)

Start(p) ==
  \/ \E verb \in FileVerbs : FileCall(p, verb)
  \/ \E verb \in StoryVerbs, s \in Stories, to \in Statuses : StoryRead(p, verb, s, to)
  \/ \E keys \in SUBSET Keys \ {{}} :
       \/ \E e \in Epics : PromoteEnter(p, e, keys)
       \/ \E s \in Stories : ScheduleEnter(p, s, keys)
  \/ \E e \in Epics : MoveEpic(p, e)

Next == \E p \in Procs : Start(p) \/ Continue(p) \/ Crash(p)

Spec == Init /\ [][Next]_vars

\* A command that has started runs on, one that waits in flock is woken when
\* the lock is freed often enough, and people keep triaging as long as
\* audit-issues reports a finding a command repairs.
Fairness ==
  \A p \in Procs :
    /\ WF_vars(Continue(p))
    /\ SF_vars(HookAcquire(p) \/ NestedAcquire(p))
    /\ WF_vars(FileCall(p, "repair-issue"))

FairSpec == Spec /\ Fairness

-----------------------------------------------------------------------------
(* Invariants and action properties.                                        *)

Steps ==
  {"idle", "body", "repair", "second", "release", "save", "hook", "hookKeys", "promote",
   "schedule", "mint", "attach", "items", "unlock"}

\* The shape of the variables this module adds, and which steps hold which lock.
TypeOK ==
  /\ Files!TypeOK
  /\ nodes \in [Stories -> Nodes]
  /\ archived \in SUBSET Epics
  /\ epicHolder \in [Epics -> Procs \cup {NoProc}]
  /\ step \in [Procs -> Steps]
  /\ \A p \in Procs : job[p].node \in Nodes /\ job[p].keys \subseteq Keys
  /\ \A p \in Procs :
       pc[p] = "idle" <=> step[p] \in {"idle", "save", "hook", "promote", "schedule"}
  /\ \A e \in Epics : epicHolder[e] # NoProc => job[epicHolder[e]].verb \in EpicLockVerbs

\* Finding 1b never arises: promote-issue and schedule-issue write the story
\* node first, so a crash leaves an unlinked claim (1d, which link repairs) and
\* never an item pointing at a story that does not list it.
ScheduledIsClaimed == \A it \in disk.open : ~Finding1b(it)

\* Finding 1c never arises unless a process died: once set-status done has
\* returned, no open item of that story is left behind by its hook.
Finishing(s) == \E p \in Procs : job[p].story = s /\ step[p] \in {"hook", "hookKeys"}

DoneLeavesNothingOpen ==
  \A it \in disk.open, s \in Stories : Finding1c(it, s) => Finishing(s)

\* Finding 1h never arises from promotions, interrupted and retried as they may
\* be: a retry resumes the story that claims the items or refuses.
NoDoubleClaim == \A k \in Keys : ~Finding1h(k)

-----------------------------------------------------------------------------
(* Liveness.                                                                *)

\* No command that has started waits for ever: whoever is in issues_lock leaves it.
CallsFinish == \A p \in Procs : step[p] # "idle" ~> step[p] = "idle"

\* Once nothing is started but triage's commands and nothing dies any more,
\* every finding that has a repair is repaired: a repair may open another
\* finding, but not in a circle.
OnlyTriage == \E p \in Procs : FileCall(p, "repair-issue") \/ Continue(p)

TriageConverges == <>[][OnlyTriage]_vars => <>[]~Repairable
=============================================================================
