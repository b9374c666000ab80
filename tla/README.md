# TLA+ models of bmad-l3io-extensions

bmad-l3io-extensions is a set of skills for coding agents with a Python core that
keeps a project's plan, backlog and metrics as YAML files under a *state root*.
Several agents, and several sessions of one agent, run its commands at the same
time on the same files. There is no server: every command is a process that
takes `flock`s (or none), reads files, decides, replaces files and exits, and
may be killed anywhere. What can go wrong here is what these modules are about:
two commands at once, a command that dies between two saves, a command that is
run again, and files that must agree with one another with no lock over both.

## The system

Paths below are under `src/skills/`; `pm_status` is `_shared/pm_status`.

| part | state | operations | how it interacts |
|---|---|---|---|
| issue store, `pm_status/issues/store.py` | `issues.yaml` (open items, `next` per epic) and `issues-resolved.yaml` | append, resolve, update, list | both files are read and written under `issues_lock`; two saves, one after the other |
| backlog audit and repair, `issues/audit.py` | none | audit-issues (read only), repair-issue | audits under `issues_lock` what it reads from the story nodes without their locks |
| promotion, `issues/promote.py` | none | promote-issue, schedule-issue | the epic's lock, then `issues_lock`; writes a story node, then the items |
| nodes, `nodes/__init__.py` | `epic.yaml`, `sprint.yaml` and story files in `planned/`, `active/`, `archived/` | resolve, load, save | every verb goes through it |
| status verbs, `verbs/__init__.py` | the nodes | set-status, set-field, add-test-run, set-lock, clear-lock, check-lock, import-node | epic writers take `epic_node_lock`; story and sprint writers take none; a `done` runs a hook on the backlog |
| core, `core/__init__.py` | lock files, `events.jsonl`, the installed package | locks, atomic replace, event log, self-install | called by all |
| plan, `plan/__init__.py` | the directories of the tree, the reorg journal | move-epic, retire-epic, reparent-story, record-reorg, undo-reorg | one epic lock at a time, the journal lock |
| ADR register, `issues/adr.py` | `adr-register.yaml` | reserve | its own lock |
| metrics, `pm_status/metrics/` | `calibration.yaml`, `actual` and `estimate` of nodes | sampling, roll-up, actuals, reports | `calibration_lock`, replay markers in the nodes |
| spec alignment, `_shared/spec-align.py` | the spec-sync lease, dispositions, git | lease, propose, commit, reject | calls pm-status and git as subprocesses |
| plan graph and reorg, `l3io-plan/scripts/`, `steps/reorg/` | none; the target file of a reorg | phases, cycle checks, reorg-validate, reorg-derive | reads `dump-plan`; a session applies what is derived with the verbs of plan |
| platform sync, `l3io-sync/scripts/`, `steps/sync/` | `sync-state.yaml` (story keys to issue numbers, and the hash last pushed); the issues on the platform | push, pull; drift-report, upsert, update-hash, remove | an agent runs the scripts one after the other; reads the tree with no lock, finishes stories with set-status |
| migration, `l3io-doctor/scripts/`, `steps/split-status.md` | the status files of the old layouts, retired ones as `.legacy` | split-status; detect, read, plan, gate, write, verify, dispose | drives import-node and set-field as subprocesses |

The hard behaviours, part by part, with the property that would catch each, are
listed at their lines in `PROJECT.json` under `hazards`. What makes the parts
correct:

* the store: a key names one finding for ever, no item is ever lost, the two
  files can disagree only in the way an interrupted verb leaves them, and a
  duplicate leads to an item that was judged;
* store and story nodes together: a scheduled item is claimed by the story it
  names, one story claims it, a done story leaves nothing open, and repairing
  what the audit finds comes to an end;
* the tree: one `epic.yaml` per epic wherever it moves, in the folder of its
  status, no writer undoing another's field, and an ownership claim that
  excludes other sessions;
* the spec sync: a commit changes only the section it is about, the records say
  what happened, no finding is forgotten, and a closure that died or does not get
  the lease still ends;
* story keys: a key names one story for ever, a story stands in one place beside
  its document, and whatever names it by its key follows when the key changes;
* the reorg: what is applied is the target that was accepted, no operation is
  refused half-way, and an undo either refuses or puts the plan back;
* metrics: every closed story is counted once, in the sense that counts today;
* migration: what a retired status file said is in the tree as it said it, what
  sessions have done since is not undone, and reruns repair what a run left half
  done and come to an end;
* platform sync: a story has one issue under whatever key it has, and what is not
  reported as drift is in step.

## The modules

### IssueStore, and BacklogLedger, its abstract specification

`IssueStore` models the two files and the verbs on them. `disk` is the pair of
files, `holder` the process in `issues_lock`, `mem[p]` the `IssueStore` object a
process has loaded, `pc[p]` whether it is outside, at work or between its two
saves, `cur[p]` the key it has half moved. A verb is Acquire (lock and load),
a body, Release. The bodies are one action per save: `AppendAllocated` and
`AppendExplicit`, `ResolveAppend` then `ResolveDrop` (or `ResolveRerun`, when
an earlier call died between), `Update`, `Schedule`, `Link`, `Unschedule`,
`ReopenAdd` then `ReopenDrop` (or `ReopenRerun`), and `Reseed`. A process may
`Crash` before any save; `HandDelete` and `HandSetNext` are people editing the
YAML. `birth` and `deleted` are history: what a key was first given to and which
items people removed.

An item keeps its key, its content (what `dedupe` compares), a severity, kind,
status and story; texts and dates are left out. The open file is a set, for
nothing depends on its order; the resolved file is a sequence, for reopen takes
the newest entry.

`BacklogLedger` says what a reader who looks a key up in the resolved file first
sees: each key is free, open or resolved, with its content. `ImplementsLedger`
maps the two files to that ledger and every save to one of its steps or to
nothing, so a verb with two saves is still one change. TLC checks it on the run that
has it, and `IssueStore_proofs` proves it.

### Backlog

The store together with the story nodes and the epic locks. `Files == INSTANCE
IssueStore`: every step either is a step of IssueStore's processes or leaves the
two files alone. It adds `nodes` (each story's status and `resolves` list),
`archived`, `epicHolder` (the epic's flock), `step[p]` and `job[p]` (where the
verb stands, what it was given and what it has read). `Finding1a` to `Finding1j`
are the audit's findings under the letters `audit-issues` prints.

* `StoryRead`, `StorySave`: set-status and set-field on a story read the node,
  check, and replace it whole later, with no lock in between. A `done` goes on to
  the hook: `HookAcquire`, a `HookKey` (and `HookDrop`) per key, `HookEnd`.
* `PromoteEnter`, `NestedAcquire`, `PromoteMint` or `PromoteRefuse`,
  `ScheduleItems`, `Unlock`: promote-issue under its two locks, with the resume
  of an interrupted call (`Resumable`).
* `ScheduleEnter`, `ScheduleAttach` or `ScheduleRefuse`: schedule-issue, which
  reads the story under the epic lock before it has `issues_lock`.
* `FileCall`, `AppendBody`, `ResolveBody`, `RepairAudit`, `RepairWrite`,
  `SecondSave`, `EndFileCall`: the verbs on the issue files. The audit of a
  repair and its write are two steps, because the story nodes the audit reads
  may change between them.
* `MoveEpic` between `archived/` and the rest, `Crash`.

### EpicTree

One epic's directory in the three status folders, its `epic.yaml` (status,
ownership lock, the estimate the roll-up writes) and the verbs of
`epic_node_lock`: set-lock, clear-lock, set-status, roll-up, promote-issue and
move-epic. `Enter` resolves the epic before the lock exists; `Take` waits for the
flock; `Resolve` (or `Refuse`) resolves again, loads and makes the checks on
what was loaded; `Save` replaces the file. `MoveDirectory`, `MoveLoad`, `Save`
are the two writes of move-epic. `StoryResolve`, `StoryDump` are the story verbs,
which hold no lock and whose dump creates the directory it was told. `clock`
advances by itself (`Tick`); `granted[s]` is the history of what set-lock told
each session.

### SpecSync

The spec sync of epic closures (`spec-align.py` lease, sync-plan, commit,
propose; the protocol is `_shared/steps/closure/epic-closure.md` §2a) and the
triage of what it did (reject). Several closures share one working tree: `head`
and `work` are the sections of the spec files as committed and as they lie
there, each the set of the edits in it, an edit named by the item it is for.
`lease` is `spec-sync.lock`, `disp` what the dispositions record, `commits` the
`docs(spec)` commits with what each took along, `issues` the spec items of the
backlog; `pc[e]`, `job[e]` are one closure.

* `SyncPlan`, then `LeaseAcquire` or, when the wait runs out, `LeaseGiveUp` with
  `DeferItem` per item; `LeaseRelease` at the end.
* `Edit` writes into some section, the right one or not. `CommitCheck` is all that
  `commit` asks (lease, item, diff); `GitCommit` comes later and takes the whole
  file as it then is; `RecordCommit`, `CommitIssue`, `RecordIssue` are its other
  three writes. `CommitRefuse` and `GitFail` send the agent back once, then the
  file is restored and the item proposed (`Propose`, `RecordIssue`).
* `Reject`, `RejectResolve`, `RejectFile` are the three steps of reject; `Confirm`
  resolves an item.
* `Crash` kills a closure between any two steps and has it run again from its
  plan, with its edits still in the working tree; `AppendFail` is a failing
  append-issue. `cut` is the history of the items these leave half done for good.
* `Tick` lets a lease expire, but not under a living agent. That is an assumption:
  nothing in the code keeps an agent from outlasting its 30 minutes, and then two
  agents write to the same files and no property about commits holds.

### StoryKeys

Who a story key belongs to. `nodes` and `docs` are the state files and the story
documents by the key in their path (each with the key inside it), `next` the
high-water mark of each sprint, `refs` the key each backlog item names. A *work*
is what keeps its identity when its key changes; `issued` is the history of which
works have had a key, `cut` the works whose move or promotion died half-way, and
`copies` the works that have a second file, left under `planned/` by a save into a
directory that was moved away.

* `Ask`, `Raise`, `Gate` (or `GateRefuses`), `Rename` (or `RenameFails`),
  `MoveDoc`, `Rekey`, `RekeyDoc`, then `WalkLoad` and `WalkSave` per dependent
  story, and `Repoint`: reparent-story, one step per file it writes. `Raise` holds
  the source epic's lock, `Gate` to `Repoint` the destination's; the dependents
  may lie in any epic, and their locks are not taken: if the dependent's epic was
  activated since it was loaded, `WalkSave` makes the old directory again with a copy.
* `PromoteTake`, `Mint`, `NewNode`, `NewDoc`, `SaveItem`: promote-issue under its
  two locks, with the resume of an interrupted call.
* `Activate` is move-epic to `active/`; `SprintLoad`, `SprintSave` a sprint's
  set-status, which holds no lock; `Crash` kills a verb between two writes.

### Reorg

A reorg from target to undo, one command a step: `Propose` (any target that
`Accepts` accepts, and what `Derived` makes of it), `Apply` per operation,
`RecordHash`, `RecordSave`, `UndoClaim`, `Undo` per operation, `UndoFinish`, with
`ApplyRefused`, `Interrupt`, `Rediff`, `UndoRefused` when it goes otherwise.
A row of a target need not have an `order` (`NoOrder`); the validator compares those
that are given, and the derivation takes 0 for the others (`OrderOf`).
`Accepts` is the structure stage of `reorg-validate.py`, `Derived` is
`reorg-derive.py` (`InOrder` is `sorted()`; epics are retired in the order of their
numbers, in the code in that of the target, and nothing depends on it), `PlanShape` the
digest. `Drift` is what
another session does to the plan in between: a re-parent, a promotion or an
activation, once, at any point (`drift` says at which stage).

### Calibration

The story samples of `pm-calibration.yaml`. `node[s]` is the set of what a story
node has (an actual, token counts in it, the marker of an earlier sample, hours in
the old sense), `file` the calibration file with its two migration markers and the
samples set aside, `log` the `actual` events, `lock` calibration_lock.

* `LoadStory`, `SaveActual`, `Lock`, `AppendSample`, `MarkSampled`,
  `AppendEvent`: set-actual on a story, four writes of which only the second is
  under the lock. import-actual is the same without the sample and token counts.
* `StartOperator`, `Lock`, `MigrateMetrics`: calibration migrate-metrics.
* `StartOperator`, `Gather`, `Rebuild`: calibration redrive, which reads the nodes
  under the lock and the log afterwards, and refuses without an event for each.
  `Rebuild` may write the samples in any order: the code sorts them by the second of
  the story's latest event and then by key (`calibration.py:1015`, 1101), and nothing
  stated here depends on it.
* `Die` kills a call at any of these points.

### Migration

An old project's status files and the tree the doctor makes of them. `source` and
`legacy` are the three status files and their retired copies, `dirs` the epics and
sprints that have a directory, `tree` the nodes (status and goal), `holder` the
epics' flocks, `pc[r]` and `job[r]` a run of migrate-engine with the plan it made.
`first` and `worked` are history: the files at first, the nodes sessions changed.

* `Begin` is everything a run does before it writes: `Layout` (detect), `Lists`
  and `Chosen` (the readers and dedupe), `FromDocuments` (read-artifacts),
  `Refused` (the gate). It reads the files once and never again.
* Per node, parents first: `ImportSkips`, or `ImportStarts` and `SaveNode`, or
  `ImportRefused`; then, if the record has a goal, `FieldLoad` and `FieldSave`. An
  epic's flock spans the two steps, a sprint has none. `CommandFails` is any of
  these commands exiting with an error.
* `Verify` or `RunFails`; `Dispose` once per file; `Done`. `Die` kills a run
  between any two of these.
* `SplitStatus` is the doctor's split of one status file into three; `Work` is a
  session that finishes a node or changes its goal.

### RemoteSync

Stories and their issues. A key is a story and a number that says how often it was
re-parented: `moves[w]` makes `Key(w)`, and the smaller ones are its previous keys
(StoryKeys shows that no key is given to two stories). `content[w]` is what the
drift hash is of, `entries` is `sync-state.yaml`, `issues` the platform, `gone` the
stories somebody deleted, `pc` and `job` the agent and what it has read; `lost` is
the history of issues whose creator died before it had recorded them.

* push: `BeginPush` takes the drift report (`Unmapped`, `Changed`, `MissingLocal`).
  If something is missing, `Look` per missing key, `Repoint` and `Forget` (the two
  writes of a re-key), then `Rereport`. `Create`, `Record` and `Stamp` are the three
  steps of a new issue, `Update` and `Stamp` the two of a changed one; `Skip` is a
  document that is not there any more. `EndPush`.
* pull: `BeginPull` lists the mappings, `Fetch` looks at an issue, `Close` is
  `set-status done`, `EndPull`.
* `Die` kills the run between any two steps. `Edit`, `Finish`, `Reparent`, `Delete`
  are sessions and people at work on the stories, `CloseIssue` people on the
  platform, which is external.

### The MC modules and the proofs

The MC modules give the constants their values for the runs. The proofs are in
modules named after the one they are about, with `_proofs`. A definition whose
comment starts with "Mutant" is a plausible slip in the definition after it;
`PROJECT.json` names the property each one breaks.

## The runs

| run | question | bounds |
|---|---|---|
| crash | do deaths between saves, reruns, repairs and hand deletions keep keys unique and items safe, and do the files stay a ledger? | 2 processes, 1 epic, 2 keys, 2 findings, 2 severities |
| duplicates | hand-set `next`, chosen keys, items closed as duplicates of one another | 2 processes, 3 keys, 1 finding, nobody dies |
| onewriter | do story nodes and items keep agreeing when one process writes stories? | 2 processes, 2 stories of 1 epic, 2 keys |
| retry | do promotions that die and are retried claim an item once? | 2 promoters, 2 stories |
| triage | do commands end, and does triage? | 2 processes, fairness below |
| locked | verbs under the epic lock and story writers without one, two sessions, deaths, moves | 2 processes, 2 sessions, TTL 1, clock to 2 |
| sync | two closures, one with two items, and a person in triage; deaths, take-overs, rejects | 2 epics, 3 items of the three types, 1 file of 2 sections, TTL 1, clock to 1, 1 mishap |
| keys | re-parents that overlap, die and are asked for again, with a promotion, an activation and a sprint's set-status | 2 processes, 3 sprints of 2 epics, 2 stories and 1 backlog item, numbers to `MaxNum` |
| reorg | every target the validator accepts, applied, recorded and undone, with one disturbance | 3 stories with 2 dependencies and 1 backlog item, 2 epics, 3 sprints of which 1 does not exist yet, orders 1, 2 or none |
| metrics | two agents close a story each while an operator imports a third, migrates and redrives | 4 stories of which 1 is old, 4 events, 1 death, files of every age |
| migrate | a status file, split before or not, or story documents alone, are migrated by two agents while sessions work; a run dies and a command fails | 2 runs, 1 epic, 2 sprints, 1 story with a document, 3 starts, 1 death, 1 failed command |
| remote | an agent pushes and pulls, and dies, while stories are edited, re-parented, finished and deleted and issues closed | 2 stories, 2 re-parents, 1 edit, 1 death or deletion |

Two processes are enough for every question here: all of them are about one
verb meeting one other, or about a verb meeting what a dead one left behind, and
a process that finished or died starts again as any other verb. Two keys allow a
clash, a third one a chosen key above the allocated ones. A TTL of one minute
and a clock to two let a claim be fresh, be exactly at its TTL, and be stale.
In `sync` a lease is either held by a living agent or, one minute after a
death, expired; one mishap makes every half-done state, and a second one would
only stop the repair of the first. In `keys` the stories go round three sprints
one way (B1 to A1 to A2), which is enough for a story to be moved twice, to be
asked for under a key it no longer has, and to leave a number behind that the
next promotion must not take. In `metrics` three callers hold the lock in every
order, and the fourth story is one that closed under an older version. Deadlock is
checked in every run but `reorg`, `metrics` and `migrate`, which end when the undo
is over, when the events are used up and when nothing is left to migrate. In
`migrate` the status files list an epic and two sprints: a story in them would go
where its sprint goes, and neither has a lock. In `remote` the two stories may be
taken for one another, and the two re-parents may be of one story (two hops) or of
both; the stories are interchangeable, so the run uses that symmetry.

The passing runs ask for what the code can hold. Where they leave a case out, the
case is one in which it does not:

* `keys`: re-parents are asked for in one direction (for both ways see below); the
  sprint whose status is set meanwhile is one that no story leaves, because
  set-status writes back a stale `next` (`verbs/__init__.py:228`) and the number of
  a departed story could be given out again; an epic is activated but never goes
  back to `planned/`.
* `reorg`: the validator as the code has it. A change between the last operation
  and the digest of `record-reorg` is taken for the reorg's own
  (`plan/__init__.py:707`), and an undo that is disturbed once it has begun may
  stop for good; the properties name both. retire-epic and the undo of a
  retirement move whatever folder the epic is in, also one that became active
  since (`step-reorg.md:15-17` says active work is never written).
* `metrics`: redrive is run on a migrated file (`MigrateFirst`). On another one the
  rebuilt samples are purged or set aside by the next write, although its docstring
  says that it recovers (`calibration.py:1025`). After the migration it would count
  the hours of stories closed under an older version, which had been set aside, so
  the old story of the run has no event in the log and redrive refuses while it is
  there. One agent closes each story. Two calls on a story at once, or one that
  dies between the append and the marker, count it twice
  (`calibration.py:553`, 615), although `metrics-contract.md:896` calls a retry safe;
  `SampledOnce` allows one more for each death. An import that is redriven and then
  measured is counted twice too, for redrive stamps no marker.
* `duplicates`: nobody dies. After a death between the two saves an item can be closed
  as a duplicate of one that is a duplicate of it, for the target is only looked for
  among open copies (`store.py:517`).
* `onewriter`: one process writes stories. With two, set-field or set-status writes
  back a node without the claim that schedule-issue added meanwhile
  (`verbs/__init__.py:884`; `status-files.md:533` says that story writes need no lock).
  In `triage` two processes do, and what a lost claim leaves (finding 1b) is repaired.
* `crash`: callers choose no keys (`ExplicitSuffixes = {}`). An item deleted by hand
  and then given again with `--key` makes an old key name another finding, and nothing
  in the code prevents that.
* `locked`: a move-epic that died after the rename and is run again returns at once
  (`plan/__init__.py:93`) and leaves the old status; clear-lock takes no session id
  (`verbs/__init__.py:692`). Nothing in the run depends on either.
* `migrate`: nobody writes to the status files but split-status and the engine.
  `MigratedAsItWas` speaks of an epic's goal and not of a sprint's: set-field takes
  no lock on a sprint (`verbs/__init__.py:839`), so two runs, or a run and a session,
  can write back each other's stale copy. A death between two of the renames of
  dispose can leave a shell that says `backlog` of an epic that is further; every
  rerun then takes the shell for the plan, fails its verification, and never retires
  the file. `MigrationEnds` names that case, and the one in which a session has
  changed a status that the plan had, by `Unsettled`: in both the node is there. A
  node that is not there is no excuse (`Imported`).
* `remote`: one agent syncs at a time, for nothing locks `sync-state.yaml`, and a save
  of it is one step, although `sync-state.py:46` opens the file for writing and dumps
  into it: a death in the middle of that loses mappings. An edit always makes a content
  that was not there before; one that puts an older content back between the report
  and the push can have its hash stamped on a body that is not it. And no story is
  re-parented while re-keys are reconciled (`Quiet`).

## Where the code and its documents disagree

Each of these is out of reach of the passing runs for a reason named above or
below. TLC shows it when the constants are as said.

* *A story in two places.* reparent-story replaces each story that depends on the
  moved one at the path it read it from, without that epic's lock
  (`plan/__init__.py:188`). If the dependent is re-parented in between, its old file
  comes back. `status-files.md:318-319`: "A node lives in exactly one place at any
  time". A story and one that depends on it, re-parented in opposite directions
  (`Moves` {<<B1, A1>>, <<A2, B1>>} in MCStoryKeys), violate `StoryStandsOnce`.
  If its epic is activated in between, the save makes the directory under `planned/`
  again (`core/__init__.py:195`) with a second copy of the story: a dependent in a third
  epic, which neither of the verb's locks keeps in place, violates it too.
* *A story before what it needs.* A row of a reorg's target need not have an `order`
  (`reorg-validate.py:155`), the validator compares only those that are numbers (297),
  and `reorg-derive.py:87-101` takes 0 for the others and breaks ties by key. So a story
  without one can be given a lower number than the story it needs, in an accepted
  target. `step-reorg.md:547-548` counts on "the same sprint at a lower `order`".
  `AppliedIsTheTarget` therefore compares numbers where both rows have an `order`.
* *An interrupted reorg cannot be derived again.* `reorg-derive.py:85` compares keys;
  a story that was moved has a new one, so its move is derived again and refused.
  `step-reorg.md:406-407`: "Re-running the derivation against the same target reports
  exactly the operations still outstanding". In Reorg, `Rediff` after `Interrupt`
  gives other operations than those left, and `ApplyRefused` follows.
* *The rollback of a split is overwritten.* dispose renames over a `.legacy` that is
  there (`migrate-engine.py:463`; line 441: "NEVER deletes"). In Migration,
  `SplitStatus`, a run and its `Dispose` replace `legacy["active"]`.
* *A goal is put back.* A retry writes extras also after import-node answered SKIP
  (`migrate-engine.py:265`), so the goal a session has set since is lost.
  `verbs/__init__.py:453-454`: "A migration retried after a partial run must not
  clobber a node a later step already edited". Hence `EpicProgressIsKept` is about
  the status only.
* *A shell loses its extras.* `state-record.py:141` compares the status first and drops
  the loser whole, against the comment at 136-139; `Richer` and `Chosen` do the same.
* *A sprint is never made.* read-artifacts takes a sprint or epic with a directory for
  tracked (`read-artifacts.py:115`). If its import failed and that of a story made the
  directory, no later run plans the node, against `bootstrap-state.md:75-76` ("re-running
  after a partial run is safe"). `MigrationEnds` therefore asks for the stories.
* *A status file that is not read is retired.* The gate asks for an empty plan of the
  whole source (`migrate-engine.py:190`), while dispose retires every file of the
  layout: BMad's own file beside split ones is renamed away unread. Lines 13-15 say a
  gate before the write "cannot do that". That file is not in the model.
* *A shell that is passed over.* `split-status.md:37` and `reconcile-status.md:15` give
  the shell of an epic an `id`; `read-l3io-flat.py:61` takes only entries with a `key`,
  so a shell written as told is skipped, and its backlog sprints with it. In the model
  a shell is always read (`HasShell`).
* *BMad's sprints have no node.* `nodes/__init__.py:253` makes the sprint's directory and
  not its node; `read-bmad-flat.py:18-19` says that the engine creates the node from
  the story's path. Not in the model either.
* *Re-pointing first does not always prevent a duplicate.* `step-03-operations.md:43-48`
  re-keys what the first drift report has found and takes a second report; a story that
  is re-parented between the two is unmapped and missing in the second, and what is
  missing then is left alone (`step-04-resolve.md:18-20`). With `Quiet = {}` TLC finds a
  second issue (`OneTrackedIssue`).

## Fairness

`sync` assumes that a closure goes on as long as it has a step to take (weak
fairness of `Closure`): it is run by an agent that is only done at its end. How
long it waits for the lease is left open, but the wait has an end.

`migrate` assumes that a run of the engine that has begun goes on (weak fairness of
`Engine`; it is one process that waits for nobody but a flock) and that somebody runs
the engine again while there is something to migrate (weak fairness of some `Begin`):
a run that fails says that the source is untouched and that running it again is safe,
and the doctor offers the migration as long as it detects an old layout
(`bootstrap-state.md:75-76`). `Die` and
`CommandFails` are bounded, so this is what holds after the last of them.

`triage` is the third run that assumes any. A process that is in the middle of a command keeps
running (weak fairness of `Continue`). One that waits in `flock` gets the lock if
it is freed again and again (strong fairness of the two waits): the kernel wakes
waiters when a lock is dropped. And people answer the findings: as long as the
audit reports one that a command repairs, that command is run in the end (weak
fairness of the repair call). Nothing makes anybody start another command, so
`TriageConverges` speaks of what follows when from some time on only triage runs.

## What is proved

`IssueStore_proofs` proves, for all values of the constants that satisfy
`IssueStoreAssumption`:

* `TypeCorrect`: `Spec => []TypeOK`;
* `NoLostUpdate`: a process inside the lock holds it, and what it loaded is what
  is on disk. This is the invariant `HoldInv`, with the types, and the base of
  the rest: every save can be taken for a change of the file itself. `NextHold`
  also classifies each step by its `Effect` on the files (adds a new item, adds
  one back, drops an open copy, and so on), so the later proofs go by effects
  and not by verbs;
* `KeysAreUnique`, `ItemsSurvive`, `InterruptedCopiesAgree`: the three together with
  `HoldInv` are inductive (`FilesInv`), none of them alone is: an item survives a
  second save only because the first one put it in the other file (`Owed`, a part
  of `HoldInv`), and copies agree only because keys are unique;
* `HighWaterMark`: no command lowers `next`;
* `KeysAreNeverReused`: with nobody editing `next`, and without both hand
  deletions and chosen keys, a key names one finding for ever. The
  strengthening, `KeysInv`, is that every key ever born lies below its epic's
  `next`. The two conditions are needed: TLC finds a key reused without them;
* `DuplicatesEnd`: `~CanCrash` and `Spec` give `[]DuplicatesLeadToASurvivor`. The
  property speaks of sets of keys and not of paths (no set of keys is closed as
  duplicates of its own members), so it needs no induction over the chain. A new
  entry closes no circle because the key it points to is no duplicate itself when
  it is written (`NoCircle`), and that one look suffices only if no key is open and
  resolved at once: `DupInv` adds that such a key is one whose second save is owed
  (`NoStrayCopies`). A death between the two saves breaks that, so the condition is needed;
* `FilesImplementTheLedger`: `KeysAreKept` and `Spec` give `ImplementsLedger`. What
  the ledger shows is a CHOOSE over the files; `HistoryIsTold` replaces it by a relation
  that `UniqueKeys` makes a function, and each effect is then a step of
  the ledger or a stutter. `LedgerInv` adds to `KeysInv` that what was deleted was
  born, so that a key struck out does not open again.

`Backlog_proofs` instantiates these proofs (`FP == INSTANCE IssueStore_proofs`): once
`BacklogImplementsFiles` says that every step of the backlog is a step of the
files, their invariants hold here and are used as they are. For all values of the
constants that satisfy the assumptions of `Backlog` and `HookResolves`:

* `TypeCorrect`: `Spec => []TypeOK`. `VerbsInv` has with the types what each place of
  a verb was started with and holds: who is in `issues_lock`, who has an epic's flock. The step lemmas say what each step does to the files,
  the nodes and the places;
* `BacklogImplementsFiles`: `Spec => Files!Spec`;
* `ScheduledItemsAreListed`: `SchedulersWriteAlone` and `Spec` give
  `[]ScheduledIsClaimed`. `ReadInv` says that the keys of the node a verb has read are
  still those of the node when it writes it back whole (`ReadIsCurrent`): a promotion
  may add keys meanwhile, but only to a node that was not there. `SchedInv` adds that a
  verb about to schedule an item has listed it first (`ListedFirst`), and that a repair
  still has its reason when it writes (`RepairIsDue`);
* `PromotionsClaimOnce`: `NobodySchedules`, `EpicsStay` and `Spec` give
  `[]NoDoubleClaim`. `ClaimInv` adds to `ReadInv` that nothing is archived and that an
  item has one claimant (`OneClaimant`): a mint looks at all nodes while it has
  `issues_lock`, and what it adds is on record before the lock is free;
* `DoneStoriesLeaveNothingOpen`: `HooksCount` and `Spec` give
  `[]DoneLeavesNothingOpen`. `HookInv` says of each open item a done story lists that a
  hook is on its way to it (`EvaluatedIsHooked`), and of each verb that could leave one
  behind why it does not: a stale status is not written back
  (`WritesNoStaleStatus`), a repair or a reopen of an item of a done story has its
  second half still to do (`RepairIsHooked`, `ReopenIsHooked`).

`HookResolves` says that "fixed" is one of the resolutions in use, which it is: the
hook and the repair of 1c resolve with it. (The run `retry` has no set-status and
leaves it out to stay small.) `SchedulersWriteAlone`: whoever may run schedule-issue
is alone in using the verbs that write story nodes back with no lock. Without it a
set-status that has read the node loses the key schedule-issue adds, which is the code's
lost update. `NobodySchedules` and `EpicsStay`: schedule-issue does not look for
other claimants, and an epic that is archived while an interrupted promotion is taken
over brings its claim back. `HooksCount` is `HookResolves`, `SchedulersWriteAlone`,
`EpicsStay`, `~CanCrash` (a death in the hook leaves the rest of its keys open, which
is what finding 1c is for) and `FieldsSetAlone` (set-field writes back the status it
has read, so a done may be undone and not done again). The run `onewriter` satisfies
`HooksCount`.

`SpecSync_proofs` proves, for all values of the constants that satisfy
`SpecSyncAssumption`:

* `TypeCorrect`: `Spec => []TypeOK`, with what a step has in hand (`ItemInHand`,
  `KeyInHand`) as the strengthening;
* `CommitsStayScoped`: `Spec => []CommitsAreScoped`. That is not inductive: the
  diff is checked one step and committed a later one. The invariant, `Guarded`,
  adds that an agent at work has an unexpired lease (`LeaseHeld`), so that
  nobody else is at work, and that a checked diff still stands (`CheckStands`);
  a revert in triage keeps it because git refuses to revert in a changed file;
* `RecordsStayReal`: `Spec => []RecordsAreReal`. `commit` makes its four writes with
  no lock, so the invariant `RecordInv` says for each place of a closure what it has
  in hand (`InHand`: its items are its epic's, the commit is one for the item in hand,
  the backlog item agrees with the record), and of every backlog item that it is a
  proposal's or about the commit recorded for its item (`IssueIsReal`). The last is
  what makes a twin that a rerun finds the right one;
* `RejectedEditsStayOut`: `Spec => []RejectedStaysOut`. `RejectInv` adds that the edit
  is out of the working tree from the revert on (`StaysOut`), and that an item whose
  spec change is in the backlog is in no closure's hands but for the last write
  (`DoneWith`), so that no agent writes it again;
* `NothingStaysUnfiled`: `Spec => []NothingUnfiled`. `FiledInv` follows a commit to
  its item (`CommitSeen`), an item through the list of its closure (`ItemSeen`) and a
  written link to its commit (`LinkSeen`: the lease is what keeps another closure
  from committing it), and `NotPending` says that whatever sync-plan passes over has
  its item, for each of the reasons it may have to pass it over.

`Plan_proofs` holds the proofs about the two models of the planned work, an epic's
directory and a reorg. Of EpicTree it proves, for all values of the constants that
satisfy `EpicTreeAssumption` (any processes, sessions, set of verbs and TTL):

* `TypeCorrect`: `Spec => []TypeOK`, with what each place of a verb has in hand;
* `EpicFileIsUnique`, `OneOwnerAtATime`, `OtherFieldsAreKept`,
  `PromotionsRespectClaims`: the four properties of the run `locked`. The
  invariant `IInv` adds to the types and to `OneEpicFile` that only the holder of
  the flock is between the lock and the save (`LockHeld`), that it writes over
  the node it loaded (`Loaded`), that a claim a session was told of and that is
  neither cleared nor expired is the one in `epic.yaml` (`ClaimsRecorded`), and
  that what was allowed when the node was loaded still is at the save
  (`StillAllowed`: time only makes a claim stale). None of the parts is inductive
  alone: the owner is unique because two told claims would both be the one record,
  and the record is the told one because nobody writes the node but the holder.

and of Reorg, for all values of the constants that satisfy `ReorgAssumption` (any finite
set of sprints, any stories and dependencies, any `order` values or none, hence targets of any
size, and any of the disturbances):

* `ReorgTypesHold`: `ReorgSpec => []ReorgTypeOK`;
* `DerivedOpsAreNeverRefused`, `ReorgReachesItsTarget`, `UndoRestoresThePlan`,
  `DigestGuardsTheUndo`: the four properties of the run `reorg`.

They speak of the end of a sequence of commands, and what makes each of them true was
settled when the target was accepted, so the invariant `ReorgInv` carries it along.
`ApplyInv` is about the operations that are still to come, as long as nobody interferes:
the target was accepted (`Agreed`); every story is where it was or where it should go,
every epic is planned or rightly retired (`OnTheWay`); each operation left finds what it
needs when those before it are done, its sprint among them (`MayRun`), they are in the
order of the derivation (`InTurn`), and whatever the target still wants is among them
(`NothingMissing`). `KeysInOrder` says that a story moved earlier in the order of the derivation has the
lower number in the sprint; a move keeps it because the allocator gives out a number
above all others. With no operation left this is the target. `JournalInv` is about the
way back: `done` has an entry for every story that is not in its first sprint, under the
key it has now, and no two under one key, one for each retired epic (`Tells`), and the
retirements come last (`RetiresLast`). Read backwards they come first
(`RetiresFirst`), which is why every re-parent of the undo finds its epics planned
again. `DigestInv` says that from the digest on, it differs from the plan's as soon as
somebody disturbed the plan (`DriftShows`). That the derivation lists all it should is a
fact about sorting: a finite set under a strict total order can be listed in that order
(`HasOrder`), and such a list has all of it (`OrderIsComplete`). Neither needs an
induction over sets: a member's place is the number of members below it plus one.

`ReorgAssumption` says that a dependency is on one of the stories there are at the start:
`depends_on` is a list of keys, and work that is no story yet has no key.

`StoryKeys_proofs` proves, for all values of the constants that satisfy
`StoryKeysAssumption` and `SprintsLeftAreNotTouched`:

* `KeysAreNotReused`: `Spec => []KeyNamesOneStory`. The invariant says that every
  key ever issued is on record (`KeysAreOnRecord`): a story still has it, or the
  sprint's `next` is above it and no set-status can lower that again. So what `_next_story_key` gives out
  is new. A key that was given out is not in a file yet, and what keeps it free
  until the new file stands is that its holder has the flock of the epic (`Reserved`);
* `ActiveStoriesKeepTheirKeys`: `Spec => ActiveStoriesStay`, from the same
  invariant: the re-parent under way knows whose key it changes (`Departing`,
  `Arriving`);
* `StoriesStandOnce`: `StoriesMoveApart`, `DirectoriesStay` and `Spec` give
  `[]StoryStandsOnce`. `Standing`
  says that every work that ever had a key is at one key, `Stands` what makes the writers
  keep it so: what a rename takes away is not what another re-parent has
  moved, what a promotion is about to create is nowhere, and the dependent
  that `WalkSave` writes anew is still where it was loaded. That a story just moved is not
  moved on meanwhile (`NoneMovedOn`) is due to `Raise`: the next re-parent of it needs
  the flock of the epic the story has come to, and the first one still holds it.
  `CopyInv` says that the directory a dependent was loaded from is there at the save, so
  that no second file is made: nothing is activated, or the directory is the epic's that
  receives, whose flock the walk holds and an activation needs;
* `DocsMoveWithNodes`: `StoriesMoveApart` and `Spec` give `[]DocBesideNode`. `DocInv` says
  where the document of a story under way lies after each of the four writes (`DocInHand`),
  and that what the gate saw of it still holds at the rename (`GateStands`). The hard part
  is a promotion that writes the document after the gate looked: the promotion holds the
  flock of the story's epic, which a re-parent needs before its gate (`NoneTaken`), and a
  story whose promotion is taken up again is one whose promotion died (`FindingsAreTold`);
* `ReferencesAreRewritten`: `OneEpicReceives` and `Spec` give `[]ReferencesFollow`.
  `DepsFollow` says of every planned story, at every moment, by which key it calls each
  story it depends on: the story's own, or the former one if a re-parent has still to come
  to it (`IsAhead`). So a walk that finds nothing left to rewrite has rewritten all, a
  dependent that is itself moved takes its list along, and a dependent activated between
  load and save is the only one missed. `RefsFollow` says the same of the backlog items.

`SprintsLeftAreNotTouched` says that no sprint whose status is set meanwhile is one that stories
leave. It is needed: `set-status` writes back the `next` it read before
`Raise` (`verbs/__init__.py:228`). `StoriesMoveApart` adds that the stories that depend on
others are in sprints that none leaves, or that all re-parents go to one epic, whose flock
then lets one at a time past the gate. That is needed too: else `WalkSave` may write anew
a file that was moved since it was loaded (the first of the disagreements above).
`DirectoriesStay` says that nothing is activated, or that the stories that depend on
others are in the epic that receives; without it the save leaves a second copy (the same
disagreement). The run `keys` satisfies all of these, and `OneEpicReceives`.

`OneEpicReceives` says that all re-parents go to sprints of one epic and that the story of
a promoted finding depends on none (`promote-issue` writes no `depends_on`). The first part
is needed: when two re-parents to different epics walk at the same time, each loads a
story that depends on both, and the later save takes the earlier one's rewrite back
(`_rewrite_references`, `plan/__init__.py:181`). TLC shows that with `Moves`
{<<B1, A2>>, <<A1, B2>>}, a story at A1, one at B1 and one at A2 that needs both.

`RemoteSync_proofs` proves, for all values of the constants that satisfy
`RemoteSyncAssumption` (any finite set of stories and any number of edits,
re-parents, dead runs and deletions):

* `TypeCorrect`: `Spec => []TypeOK`, with what the agent has in hand at each place
  of a run (`KeysInHand`, `CreatedInHand`, `StampInHand`);
* `DriftIsSeen`: `Spec => []NoDriftMeansInStep`. Stories only grow, so contents are
  ordered in time (`AtMost`), and the invariant `SyncInv` says that a stamped hash
  is at most what the issue holds (`EntriesLag`) and that at most what the story is
  (`IssuesLag`): a hash equal to the story leaves no room for the issue. It needs
  that the hash of the report is at most the story too (`ReportLags`), as that is
  the one that is stamped after a push of something newer;
* `OneIssuePerStory`: `RekeysAreQuiet` and `Spec` give `[]OneTrackedIssue`. The
  invariant `OneInv` adds that the re-key check knows of every mapping under a
  former key (`StaleIsMissing`), so that after it nothing is created that has a
  mapping under any key (`CreatesAreNew`), and that between the two writes of a
  re-key both entries name one issue (`ForgetKeeps`).

`RekeysAreQuiet` says that no story is re-parented while re-keys are reconciled. It
is needed: a story that moves after the first report is not among those the check
looks at, and the second report finds its new key unmapped, so the push creates a
second issue. The run `remote` sets `Quiet` so.

`Calibration_proofs` proves, for all values of the constants that satisfy
`CalibrationAssumption` and `CallersAreApart` (any finite set of stories, any
processes, any length of the log and any number of deaths):

* `TypeCorrect`: `Spec => []TypeOK`, with the lock;
* `StoriesAreCountedOnce`: `Spec => []SampledOnce`. The file alone does not say
  whether a story may still be sampled. `CountsAreBounded` therefore bounds its
  samples by the deaths so far, and one more once no call will sample it
  (`Counted`: the node has the marker, a call is between its append and its marker, or
  the story is imported). That is inductive because a call that is going to append
  knows the node as it is and found no marker on it (`InHand`, `Unmarked`), and
  because a rebuild, which counts every story it gathers, refuses one that is not in
  the log, and an event follows the marker (`LoggedAreSampled`);
* `SamplesStay`: `MigrateFirst` and `Spec` give `CountedStays`. `StayInv` says that
  a sample in today's sense is in a migrated file, that its story has the figures on
  its node, and that a rebuild under way has gathered it;
* `OnlyOldSamplesAreSetAside`: `MigrateFirst`, `OldStandStill` and `Spec` give
  `[]OnlyOldIsSetAside`. `AgeInv` adds that before the migration all hours are in the
  old sense and cover every node that is, and that no such node has an event, so that
  a rebuild refuses as long as there is one.

`CallersAreApart` says that a story's actuals are written by one process, by one of
the two verbs. It is needed (two calls that overlap both find no marker), and the run
`metrics` satisfies it. `OldStandStill` says that a story closed under an older version
is not measured again and has no event. Without it a rebuild that has gathered such a
node may find the event of a re-measurement that came in between, and put hours in the
old sense into the migrated file.

`Migration_proofs` proves, for all values of the constants that satisfy
`MigrationAssumption` (any finite set of nodes, any status files to start from, any
number of runs, deaths, failures and sessions):

* `TypeCorrect`: `Spec => []TypeOK`, with what a run has planned, has still to do and
  has in hand (`HasInHand`);
* `ProgressStays`: `Spec => EpicProgressIsKept`. `EpicInHand` says that between its look
  and its save a run holds the epic's flock and knows the node as it is, and
  `WorkedStand` that a node a session has worked on is there, so that no run
  adds it again;
* `MigratesAsItWas`: `OneStatusFile` and `Spec` give `[]MigratedAsItWas`. The files go
  one by one and runs die anywhere, so the invariant `IInv` follows three things at once:
  what the status files still say (`SourcesAreParts`: parts of the first file and shells
  of epics that have begun), what a run has planned (`PlanIsRight`: it has all that the
  files it will retire hold, a shell only of what is in the tree already) and what the
  tree has (`TreeIsRight`, and `FinishedStand`: all that an unfailed run is through
  with). A file is retired only by a run that has not failed and has nothing to do any
  more, and `GoneAreInTree` follows.

`OneStatusFile` says that the old project has its plan in one status file, of which
split-status makes the others. It is needed: of two files written by hand that
disagree about a node the richer record wins, and the other is retired with it. The
run `migrate` satisfies it.

Only model-checked: the liveness properties (`CallsFinish`, `TriageConverges`,
`ClosuresEnd`, `MigrationEnds`), which rest on fairness and are out of the prover's
reach. Every other property of a run is a theorem.

## What is not modelled

* In Backlog: sprints (a promotion needs its sprint in `backlog`), story
  documents, the roll-up (EpicTree has it), the findings about documents (1f, 1i,
  1k), re-keyed items (1l), and the ownership lock (EpicTree has it).
* In EpicTree: other epics, sprints, the stories themselves (one flag says that
  the directory holds some), `git mv` against a plain move, and import-node
  (`nodes/__init__.py:237-241`), which also writes an `epic.yaml`, in a migration or a
  reorg (Migration and Reorg have it).
* In SpecSync: renamed anchors with the rewriting of story pointers, the gate on
  dispositions, the spec index and the pointer checks, a reject of an item that
  somebody resolves meanwhile.
* In StoryKeys: documents with a slug, which change their name with the key; the
  git fallback; the two saves of `Repoint`, which are one step; the source epic's
  lock as one step, since nothing else happens in it; promote-issue's walk over the
  story files (`promote.py:195`), which is one step; what a reader makes of a second copy
  of a story or of a sprint left under `planned/` (`find_epic_dir` looks in `active/`
  first, and no verb of the model reads the copy).
* In Reorg: the balance stage, cycles (the dependencies of the instance have none),
  dependencies between epics, the journal as a list (there is one entry) and its
  text, several undos.
* In Calibration: closure and orchestration samples, which use the same lock and a
  marker of their own; the v1 schema, backups, `token_mix`; the five metrics are
  two, one that is purged and one that is set aside; the ratios themselves, which
  are real numbers; `Gather` reads all nodes in one step; the order of rebuilt
  samples; two agents that close one story; blocked hours.
* In Migration: BMad's own status file, the per-epic layout, records that fail the schema, titles and extras
  other than the goal, the status folders (import-node files an epic by its status;
  EpicTree has the moves), the check that `state_root` can be reached, the parsing of
  the old formats.
* In RemoteSync: epics, sprints and backlog items on the platform (pushed like stories,
  never pulled), deletions that a user confirms (`remove`), the status and setup modes
  and the re-key check after a pull, a second agent; the walk of the drift report is
  one step.
* The ADR register, estimates, rates,
  self-install, add-test-run and the phases of the plan graph: single writers or
  pure functions of one input, with nothing that several steps or actors could get
  wrong between them.
* Reports, rendering, configuration writers, installers, the prompts of the skill
  steps, and the repository's own tooling: text in, text out, with no state that
  two actors share.

How much of the code that is: about half of the implementation's lines are the
copies of `pm_status` and `spec-align.py` that each skill bundles, byte for byte
the ones under `_shared/` that are modelled, and a fifth is the repository's
tooling (`src/scripts/*.mjs`). Of what remains, most lines parse arguments, format
messages and YAML and do arithmetic on estimates. The map covers the lines that
decide and write; its share of all lines is small and would only grow by mapping
copies.

## Plan

What would come next, most important first:

1. `SpecSync` extended: renamed anchors, and an agent that outlasts its lease.
2. Closure and orchestration samples in `Calibration`.
3. Pure algorithms against reference definitions: phases and cycles of the plan
   graph, the last-run rule of add-test-run, the drift classes.
