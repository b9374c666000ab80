------------------------------ MODULE Plan_proofs ------------------------------
(***************************************************************************)
(* Proofs about the two models of the planned work: an epic's directory    *)
(* with its flock and its ownership lock (EpicTree), and a reorg with its  *)
(* journal and its undo (Reorg).  The two share no variable and no         *)
(* definition; the second part starts at "A reorg".                        *)
(***************************************************************************)
EXTENDS EpicTree, Reorg, SequenceTheorems, FiniteSetTheorems, WellFoundedInduction, TLAPS

-----------------------------------------------------------------------------
(* The inductive invariant.                                                 *)

\* What a process has in hand where each place of its verb.
Hand(j, where) ==
  /\ where \in {"wait", "resolve", "story", "save", "move", "moved"} =>
       /\ j.verb \in EpicVerbs /\ j.session \in Sessions
       /\ j.verb = "move-epic" => j.to \in Folders
  /\ where = "resolve" => j.verb # "move-epic"
  /\ where = "story" => j.verb = "promote-issue"
  /\ where \in {"move", "moved"} => j.verb = "move-epic"
  /\ where \in {"story", "save", "dump"} => j.folder \in Folders

InHand == \A p \in Procs : Hand(job[p], pc[p])

Typed == TypeOK /\ InHand

\* epic_node_lock: one process at a time is between the lock and the save.
Inside == {"resolve", "story", "save", "move", "moved"}

LockHeld == \A p \in Procs : pc[p] \in Inside => holder = p

\* What a holder is about to write over is there, and is what it loaded.
Loaded ==
  \A p \in Procs :
    /\ pc[p] = "save" => job[p].node \in EpicNodes /\ tree[job[p].folder].epic = job[p].node
    /\ pc[p] = "story" => tree[job[p].folder].epic # NoNode

\* A claim a session was told of, and that is neither cleared nor expired, is
\* the one in epic.yaml.
ClaimsRecorded ==
  \A f \in Folders, s \in Sessions :
    tree[f].epic # NoNode /\ Claims(s)
      => tree[f].epic.lock = [session |-> s, at |-> granted[s]]

\* What was allowed when the node was loaded is allowed until the save.
StillAllowed ==
  \A p \in Procs :
    \/ pc[p] = "story"
    \/ pc[p] = "save" /\ job[p].verb = "set-lock"
    => ~IsForeign(tree[job[p].folder].epic.lock, job[p].session)

IInv == Typed /\ LockHeld /\ OneEpicFile /\ Loaded /\ ClaimsRecorded /\ StillAllowed

-----------------------------------------------------------------------------
(* Records and directories that change in one place.                        *)

LEMMA NodeTypes ==
  /\ NoLock \in Locks /\ NoNode \notin EpicNodes
  /\ NoDir \in Dirs /\ NoDir.epic = NoNode /\ NoJob \in Jobs
  /\ \A f \in Folders : StatusFor(f) \in EpicStatuses
BY EpicTreeAssumption
   DEF NoLock, Locks, NoNode, EpicNodes, EpicStatuses, NoDir, Dirs, NoJob, Jobs, Folders, StatusFor

\* The jobs that the steps make of a job.
Given(v, s, t, f) == [NoJob EXCEPT !.verb = v, !.session = s, !.to = t, !.folder = f]
AtHome(j, f, n) == [j EXCEPT !.folder = f, !.node = n]
Reloaded(j, n) == [j EXCEPT !.node = n]

LEMMA GivenJob ==
  ASSUME NEW v \in EpicVerbs, NEW s \in Sessions, NEW t \in Folders \cup {"none"},
         NEW f \in Folders
  PROVE  /\ Given(v, s, t, f) \in Jobs
         /\ Given(v, s, t, f).verb = v /\ Given(v, s, t, f).session = s
         /\ Given(v, s, t, f).to = t /\ Given(v, s, t, f).folder = f
BY NodeTypes DEF Given, Jobs

LEMMA LoadedJob ==
  ASSUME NEW j \in Jobs, NEW f \in Folders, NEW n \in EpicNodes \cup {NoNode}
  PROVE  /\ AtHome(j, f, n) \in Jobs /\ Reloaded(j, n) \in Jobs
         /\ \A k \in {AtHome(j, f, n), Reloaded(j, n)} :
              k.verb = j.verb /\ k.session = j.session /\ k.to = j.to /\ k.node = n
         /\ AtHome(j, f, n).folder = f /\ Reloaded(j, n).folder = j.folder
BY DEF AtHome, Reloaded, Jobs

WithEpic(t, f, n) == [t EXCEPT ![f].epic = n]

LEMMA SetEpic ==
  ASSUME tree \in [Folders -> Dirs], NEW f \in Folders, NEW n \in EpicNodes,
         tree' = WithEpic(tree, f, n)
  PROVE  /\ tree' \in [Folders -> Dirs] /\ tree'[f].epic = n
         /\ \A g \in Folders : g # f => tree'[g].epic = tree[g].epic
BY DEF Dirs, WithEpic

LEMMA SetStory ==
  ASSUME tree \in [Folders -> Dirs], NEW f \in Folders,
         tree' = [tree EXCEPT ![f].story = TRUE]
  PROVE  /\ tree' \in [Folders -> Dirs]
         /\ \A g \in Folders : tree'[g].epic = tree[g].epic
BY DEF Dirs

\* What a verb writes differs from what it loaded in its own field only.
LEMMA WrittenNode ==
  ASSUME TypeOK, NEW p \in Procs, job[p].node \in EpicNodes, job[p].verb \in EpicVerbs,
         job[p].session \in Sessions,
         job[p].verb = "move-epic" => job[p].to \in Folders,
         NEW n \in Written(p)
  PROVE  /\ n \in EpicNodes
         /\ n.lock = CASE job[p].verb = "set-lock" -> [session |-> job[p].session, at |-> clock]
                       [] job[p].verb = "clear-lock" -> NoLock
                       [] OTHER -> job[p].node.lock
         /\ n.status # job[p].node.status => job[p].verb \in {"set-status", "move-epic"}
         /\ n.estimate # job[p].node.estimate => job[p].verb \in {"rollup", "promote-issue"}
<1> DEFINE old == job[p].node
<1>1. /\ old.status \in EpicStatuses /\ old.lock \in Locks /\ old.estimate \in {0, 1}
      /\ old = [status |-> old.status, lock |-> old.lock, estimate |-> old.estimate]
  BY DEF EpicNodes
<1>2. CASE job[p].verb = "set-lock"
  <2>1. n = [old EXCEPT !.lock = [session |-> job[p].session, at |-> clock]]
    BY <1>2 DEF Written
  <2>2. [session |-> job[p].session, at |-> clock] \in Locks
    BY DEF Locks, TypeOK
  <2> QED
    BY <1>1, <1>2, <2>1, <2>2 DEF EpicNodes
<1>3. CASE job[p].verb = "clear-lock"
  <2>1. n = [old EXCEPT !.lock = NoLock]
    BY <1>3 DEF Written
  <2> QED
    BY <1>1, <1>3, <2>1, NodeTypes DEF EpicNodes
<1>4. CASE job[p].verb = "set-status"
  <2>1. PICK status \in EpicStatuses : n = [old EXCEPT !.status = status]
    BY <1>4 DEF Written
  <2> QED
    BY <1>1, <1>4, <2>1 DEF EpicNodes
<1>5. CASE job[p].verb \in {"rollup", "promote-issue"}
  <2>1. n = [old EXCEPT !.estimate = 1 - @]
    BY <1>5 DEF Written
  <2> QED
    BY <1>1, <1>5, <2>1 DEF EpicNodes
<1>6. CASE job[p].verb = "move-epic"
  <2>1. n = [old EXCEPT !.status = StatusFor(job[p].to)]
    BY <1>6 DEF Written
  <2> QED
    BY <1>1, <1>6, <2>1, NodeTypes DEF EpicNodes
<1> QED
  BY <1>2, <1>3, <1>4, <1>5, <1>6 DEF EpicVerbs

-----------------------------------------------------------------------------
(* Types, and what each place of a verb has in hand.                        *)

\* One process moves on with another job.
LEMMA StepTyped ==
  ASSUME Typed, NEW p \in Procs, NEW j \in Jobs,
         NEW to \in {"idle", "wait", "resolve", "story", "save", "move", "moved", "dump"},
         Hand(j, to), job' = [job EXCEPT ![p] = j], pc' = [pc EXCEPT ![p] = to],
         tree' \in [Folders -> Dirs], holder' \in Procs \cup {NoProc},
         clock' = clock, granted' \in [Sessions -> -1..MaxClock]
  PROVE  /\ Typed'
         /\ job'[p] = j /\ pc'[p] = to
         /\ \A q \in Procs : q # p => job'[q] = job[q] /\ pc'[q] = pc[q]
<1>1. /\ job' \in [Procs -> Jobs]
      /\ pc' \in [Procs -> {"idle", "wait", "resolve", "story", "save", "move", "moved", "dump"}]
      /\ job'[p] = j /\ pc'[p] = to
      /\ \A q \in Procs : q # p => job'[q] = job[q] /\ pc'[q] = pc[q]
  BY DEF Typed, TypeOK
<1>2. TypeOK'
  BY <1>1 DEF Typed, TypeOK
<1>3. \A q \in Procs : Hand(job'[q], pc'[q])
  <2> TAKE q \in Procs
  <2>1. CASE q = p
    BY <1>1, <2>1
  <2>2. CASE q # p
    <3>1. Hand(job[q], pc[q])
      BY DEF Typed, InHand
    <3> QED
      BY <1>1, <2>2, <3>1
  <2> QED
    BY <2>1, <2>2
<1> QED
  BY <1>1, <1>2, <1>3 DEF Typed, InHand

\* Giving up: the lock is dropped, if held, and the process is idle.
LEMMA LeaveTyped ==
  ASSUME Typed, NEW p \in Procs, Leave(p), tree' \in [Folders -> Dirs]
  PROVE  Typed'
<1>1. NoJob \in Jobs /\ Hand(NoJob, "idle")
  BY NodeTypes DEF Hand
<1>2. job' = [job EXCEPT ![p] = NoJob] /\ pc' = [pc EXCEPT ![p] = "idle"]
      /\ holder' \in Procs \cup {NoProc} /\ UNCHANGED <<clock, granted>>
  BY DEF Leave, Goto, SetJob, Typed, TypeOK
<1>3. granted' \in [Sessions -> -1..MaxClock]
  BY <1>2 DEF Typed, TypeOK
<1> HIDE DEF Leave
<1> QED
  BY <1>1, <1>2, <1>3, StepTyped

LEMMA ProcTyped ==
  ASSUME Typed, Loaded, NEW p \in Procs, ProcStep(p)
  PROVE  Typed'
<1>0. /\ tree \in [Folders -> Dirs] /\ job \in [Procs -> Jobs] /\ job[p] \in Jobs
      /\ \A f \in Folders : tree[f].epic \in EpicNodes \cup {NoNode}
      /\ holder \in Procs \cup {NoProc} /\ granted \in [Sessions -> -1..MaxClock]
      /\ job = [job EXCEPT ![p] = job[p]]
  BY DEF Typed, TypeOK, Dirs
<1>00. Hand(job[p], pc[p])
  BY DEF Typed, InHand
<1>1. ASSUME NEW verb \in EpicVerbs, NEW s \in Sessions, NEW to \in Folders \cup {"none"},
             Enter(p, verb, s, to)
      PROVE  Typed'
  <2>1. PICK f \in Folders :
          job' = [job EXCEPT ![p] = Given(verb, s, to, f)]
    BY <1>1 DEF Enter, SetJob, Given
  <2> DEFINE j == Given(verb, s, to, f)
  <2>2. j \in Jobs /\ j.verb = verb /\ j.session = s /\ j.to = to /\ j.folder = f
    BY GivenJob
  <2>3. job' = [job EXCEPT ![p] = j] /\ pc' = [pc EXCEPT ![p] = "wait"]
    BY <1>1, <2>1 DEF Enter, Goto
  <2>4. UNCHANGED <<tree, holder, clock, granted>> /\ (verb = "move-epic" => to \in Folders)
    BY <1>1 DEF Enter
  <2> HIDE DEF j
  <2>5. Hand(j, "wait")
    BY <2>2, <2>4 DEF Hand
  <2> QED
    BY <1>0, <2>2, <2>3, <2>4, <2>5, StepTyped
<1>2. CASE Take(p)
  <2> DEFINE to == IF job[p].verb = "move-epic" THEN "move" ELSE "resolve"
  <2>1. /\ pc[p] = "wait" /\ pc' = [pc EXCEPT ![p] = to] /\ holder' = p
        /\ UNCHANGED <<tree, job, clock, granted>>
    BY <1>2 DEF Take, Goto
  <2>2. Hand(job[p], to)
    BY <1>00, <2>1 DEF Hand
  <2>3. job' = [job EXCEPT ![p] = job[p]] /\ tree' \in [Folders -> Dirs]
        /\ granted' \in [Sessions -> -1..MaxClock]
    BY <1>0, <2>1
  <2> QED
    BY <1>0, <2>1, <2>2, <2>3, StepTyped
<1>3. CASE Resolve(p)
  <2>1. PICK f \in Folders : job' = [job EXCEPT ![p] = AtHome(job[p], f, tree[f].epic)]
    BY <1>3 DEF Resolve, SetJob, AtHome
  <2> DEFINE j == AtHome(job[p], f, tree[f].epic)
             to == IF job[p].verb = "promote-issue" THEN "story" ELSE "save"
  <2>2. /\ j \in Jobs /\ j.verb = job[p].verb /\ j.session = job[p].session /\ j.to = job[p].to
        /\ j.folder = f
    BY <1>0, LoadedJob
  <2>3. job' = [job EXCEPT ![p] = j] /\ pc' = [pc EXCEPT ![p] = to] /\ pc[p] = "resolve"
        /\ UNCHANGED <<tree, holder, clock, granted>>
    BY <1>3, <2>1 DEF Resolve, Goto
  <2> HIDE DEF j
  <2>4. Hand(j, to)
    BY <1>00, <2>2, <2>3 DEF Hand
  <2> QED
    BY <1>0, <2>2, <2>3, <2>4, StepTyped
<1>4. CASE Refuse(p) \/ MoveNothing(p) \/ Crash(p)
  BY <1>0, <1>4, LeaveTyped DEF Refuse, MoveNothing, Crash
<1>5. CASE PromoteStory(p)
  <2> DEFINE n == tree[job[p].folder].epic
             j == Reloaded(job[p], n)
  <2>1. /\ pc[p] = "story" /\ tree' = [tree EXCEPT ![job[p].folder].story = TRUE]
        /\ job' = [job EXCEPT ![p] = j] /\ pc' = [pc EXCEPT ![p] = "save"]
        /\ UNCHANGED <<holder, clock, granted>>
    BY <1>5 DEF PromoteStory, SetJob, Goto, Reloaded
  <2>2. job[p].folder \in Folders /\ job[p].verb = "promote-issue" /\ job[p].session \in Sessions
    BY <1>00, <2>1 DEF Hand
  <2>3. tree' \in [Folders -> Dirs]
    BY <1>0, <2>1, <2>2, SetStory
  <2>4. n \in EpicNodes \cup {NoNode}
    BY <1>0, <2>2
  <2> HIDE DEF n
  <2>5. /\ j \in Jobs /\ j.verb = job[p].verb /\ j.session = job[p].session
        /\ j.folder = job[p].folder
    BY <1>0, <2>4, <2>2, LoadedJob
  <2> HIDE DEF j
  <2>6. Hand(j, "save")
    BY <2>2, <2>5 DEF Hand, EpicVerbs
  <2> QED
    BY <1>0, <2>1, <2>3, <2>5, <2>6, StepTyped
<1>6. CASE Save(p)
  <2>1. PICK n \in Written(p) : tree' = WithEpic(tree, job[p].folder, n)
    BY <1>6 DEF Save, WithEpic
  <2>2. /\ pc[p] = "save" /\ granted' = Told(p) /\ holder' = NoProc /\ UNCHANGED clock
        /\ job' = [job EXCEPT ![p] = NoJob] /\ pc' = [pc EXCEPT ![p] = "idle"]
    BY <1>6 DEF Save, SetJob, Goto
  <2>3. job[p].folder \in Folders /\ n \in EpicNodes
    <3>1. /\ TypeOK /\ job[p].node \in EpicNodes /\ job[p].verb \in EpicVerbs
          /\ job[p].session \in Sessions /\ job[p].folder \in Folders
          /\ job[p].verb = "move-epic" => job[p].to \in Folders
      BY <1>00, <2>2 DEF Typed, Hand, Loaded
    <3> QED
      BY <3>1, WrittenNode
  <2>4. tree' \in [Folders -> Dirs]
    BY <1>0, <2>1, <2>3, SetEpic
  <2>5. granted' \in [Sessions -> -1..MaxClock]
    <3>1. /\ granted \in [Sessions -> -1..MaxClock] /\ clock \in -1..MaxClock /\ -1 \in -1..MaxClock
      BY EpicTreeAssumption DEF Typed, TypeOK
    <3>2. granted' = Told(p)
      BY <2>2
    <3>3. CASE job[p].verb = "set-lock"
      BY <3>1, <3>2, <3>3 DEF Told
    <3>4. CASE job[p].verb # "set-lock"
      BY <3>1, <3>2, <3>4 DEF Told
    <3> QED
      BY <3>3, <3>4
  <2>6. NoJob \in Jobs /\ Hand(NoJob, "idle")
    BY NodeTypes DEF Hand
  <2> QED
    BY <1>0, <2>2, <2>4, <2>5, <2>6, StepTyped
<1>7. CASE MoveDirectory(p)
  <2>1. /\ pc[p] = "move" /\ pc' = [pc EXCEPT ![p] = "moved"]
        /\ UNCHANGED <<holder, job, clock, granted>>
        /\ \E f \in Folders : tree' = [tree EXCEPT ![f] = NoDir, ![job[p].to] = tree[f]]
    BY <1>7 DEF MoveDirectory, Goto
  <2>2. tree' \in [Folders -> Dirs]
    BY <2>1, <1>0, NodeTypes
  <2>3. Hand(job[p], "moved")
    BY <1>00, <2>1 DEF Hand
  <2> QED
    BY <1>0, <2>1, <2>2, <2>3, StepTyped
<1>8. CASE MoveLoad(p)
  <2>1. pc[p] = "moved" /\ job[p].to \in Folders /\ job[p].verb = "move-epic" /\ job[p].session \in Sessions
    BY <1>00, <1>8 DEF MoveLoad, Hand
  <2>2. CASE Leave(p) /\ UNCHANGED tree
    BY <1>0, <2>2, LeaveTyped
  <2>3. CASE /\ SetJob(p, [job[p] EXCEPT !.folder = job[p].to, !.node = tree[job[p].to].epic])
             /\ Goto(p, "save")
             /\ UNCHANGED <<tree, holder, clock, granted>>
    <3> DEFINE n == tree[job[p].to].epic
               j == AtHome(job[p], job[p].to, n)
    <3>1. job' = [job EXCEPT ![p] = j] /\ pc' = [pc EXCEPT ![p] = "save"]
      BY <2>3 DEF SetJob, Goto, AtHome
    <3>2. n \in EpicNodes \cup {NoNode}
      BY <1>0, <2>1
    <3> HIDE DEF n
    <3>3. /\ j \in Jobs /\ j.verb = job[p].verb /\ j.session = job[p].session /\ j.to = job[p].to
          /\ j.folder = job[p].to
      BY <1>0, <2>1, <3>2, LoadedJob
    <3> HIDE DEF j
    <3>4. Hand(j, "save")
      BY <2>1, <3>3 DEF Hand, EpicVerbs
    <3> QED
      BY <1>0, <2>3, <3>1, <3>3, <3>4, StepTyped
  <2> QED
    BY <1>8, <2>2, <2>3 DEF MoveLoad
<1>9. CASE StoryResolve(p)
  <2>1. PICK f \in Folders :
          job' = [job EXCEPT ![p] = [NoJob EXCEPT !.verb = "story-write", !.folder = f]]
    BY <1>9 DEF StoryResolve, SetJob
  <2> DEFINE j == [NoJob EXCEPT !.verb = "story-write", !.folder = f]
  <2>2. j \in Jobs /\ j.folder = f
    BY NodeTypes DEF Jobs
  <2>3. job' = [job EXCEPT ![p] = j] /\ pc' = [pc EXCEPT ![p] = "dump"]
        /\ UNCHANGED <<tree, holder, clock, granted>>
    BY <1>9, <2>1 DEF StoryResolve, Goto
  <2> HIDE DEF j
  <2>4. Hand(j, "dump")
    BY <2>2 DEF Hand
  <2> QED
    BY <1>0, <2>2, <2>3, <2>4, StepTyped
<1>10. CASE StoryDump(p)
  <2>1. tree' \in [Folders -> Dirs] /\ Leave(p)
    BY <1>0, <1>10, <1>00, SetStory DEF StoryDump, Hand
  <2> QED
    BY <2>1, LeaveTyped
<1> QED
  BY <1>1, <1>2, <1>3, <1>4, <1>5, <1>6, <1>7, <1>8, <1>9, <1>10 DEF ProcStep

-----------------------------------------------------------------------------
(* epic_node_lock.                                                          *)

\* A step is one process's own, and only time moves the clock.
LEMMA OwnStep ==
  ASSUME Typed, NEW p \in Procs, ProcStep(p)
  PROVE  /\ \A q \in Procs : q # p => job'[q] = job[q] /\ pc'[q] = pc[q]
         /\ clock' = clock
<1> USE DEF Typed, TypeOK, SetJob, Goto
<1>1. ASSUME NEW verb \in EpicVerbs, NEW s \in Sessions, NEW to \in Folders \cup {"none"},
             Enter(p, verb, s, to)
      PROVE  (\A q \in Procs : q # p => job'[q] = job[q] /\ pc'[q] = pc[q]) /\ clock' = clock
  BY <1>1 DEF Enter
<1>2. CASE Take(p) \/ Resolve(p) \/ PromoteStory(p)
  BY <1>2 DEF Take, Resolve, PromoteStory
<1>3. CASE Save(p) \/ MoveDirectory(p)
  BY <1>3 DEF Save, MoveDirectory
<1>4. CASE Refuse(p) \/ MoveNothing(p) \/ Crash(p) \/ StoryDump(p)
  BY <1>4 DEF Refuse, MoveNothing, Crash, StoryDump, Leave
<1>5. CASE MoveLoad(p)
  BY <1>5 DEF MoveLoad, Leave
<1>6. CASE StoryResolve(p)
  BY <1>6 DEF StoryResolve
<1> QED
  BY <1>1, <1>2, <1>3, <1>4, <1>5, <1>6 DEF ProcStep

LEMMA LockHeldStep ==
  ASSUME Typed, LockHeld, NEW p \in Procs, ProcStep(p)
  PROVE  LockHeld'
<1>1. /\ \A q \in Procs : q # p => pc'[q] = pc[q]
      /\ pc \in [Procs -> {"idle", "wait", "resolve", "story", "save", "move", "moved", "dump"}]
      /\ NoProc \notin Procs
  BY OwnStep, EpicTreeAssumption DEF Typed, TypeOK
<1>2. CASE pc[p] \notin Inside /\ pc'[p] \notin Inside /\ (holder' = holder \/ holder = p)
  BY <1>1, <1>2 DEF LockHeld, Inside
<1>3. CASE holder' = holder /\ pc[p] \in Inside
  BY <1>1, <1>3 DEF LockHeld
<1>4. CASE holder = NoProc /\ holder' = p
  BY <1>1, <1>4 DEF LockHeld
<1>5. CASE pc[p] \in Inside /\ pc'[p] = "idle"
  BY <1>1, <1>5 DEF LockHeld, Inside
<1> USE DEF Inside, Goto
<1>6. CASE \E verb \in EpicVerbs, s \in Sessions, to \in Folders \cup {"none"} : Enter(p, verb, s, to)
  BY <1>1, <1>2, <1>6 DEF Enter
<1>7. CASE Take(p)
  BY <1>4, <1>7 DEF Take, LockIsFree
<1>8. CASE Resolve(p) \/ PromoteStory(p) \/ MoveDirectory(p)
  BY <1>3, <1>8 DEF Resolve, PromoteStory, MoveDirectory
<1>9. CASE Save(p)
  BY <1>1, <1>5, <1>9 DEF Save
<1>10. CASE Leave(p)
  BY <1>1, <1>2, <1>5, <1>10 DEF Leave
<1>11. CASE MoveLoad(p)
  BY <1>3, <1>10, <1>11 DEF MoveLoad
<1>12. CASE StoryResolve(p)
  BY <1>1, <1>2, <1>12 DEF StoryResolve
<1> QED
  BY <1>6, <1>7, <1>8, <1>9, <1>10, <1>11, <1>12
     DEF ProcStep, Refuse, MoveNothing, Crash, StoryDump

-----------------------------------------------------------------------------
(* What a step does to the epic.yaml files: nothing, or they move with their *)
(* directory, or a holder writes over the one it loaded.                    *)

Untouched == (\A f \in Folders : tree'[f].epic = tree[f].epic) /\ granted' = granted

MovedBy(p) ==
  /\ pc[p] = "move" /\ pc'[p] = "moved" /\ granted' = granted
  /\ \E f, g \in Folders :
       /\ f # g /\ tree[g].epic = NoNode
       /\ tree'[f].epic = NoNode /\ tree'[g].epic = tree[f].epic
       /\ \A h \in Folders \ {f, g} : tree'[h].epic = tree[h].epic

SavedBy(p) ==
  /\ pc[p] = "save" /\ pc'[p] = "idle" /\ granted' = Told(p)
  /\ tree'[job[p].folder].epic \in Written(p)
  /\ \A h \in Folders : h # job[p].folder => tree'[h].epic = tree[h].epic

LEMMA FilesStep ==
  ASSUME Typed, Loaded, NEW p \in Procs, ProcStep(p)
  PROVE  Untouched \/ MovedBy(p) \/ SavedBy(p)
<1>0. /\ tree \in [Folders -> Dirs] /\ Hand(job[p], pc[p])
      /\ pc \in [Procs -> {"idle", "wait", "resolve", "story", "save", "move", "moved", "dump"}]
  BY DEF Typed, TypeOK, InHand
<1>1. CASE PromoteStory(p) \/ StoryDump(p)
  <2>1. job[p].folder \in Folders /\ tree' = [tree EXCEPT ![job[p].folder].story = TRUE]
    BY <1>0, <1>1 DEF PromoteStory, StoryDump, Hand
  <2>2. granted' = granted
    BY <1>1 DEF PromoteStory, StoryDump, Leave
  <2> QED
    BY <1>0, <2>1, <2>2, SetStory DEF Untouched
<1>2. CASE MoveDirectory(p)
  <2>1. PICK f \in Folders : IsEpicDir(f) /\ tree' = [tree EXCEPT ![f] = NoDir, ![job[p].to] = tree[f]]
    BY <1>2 DEF MoveDirectory
  <2>2. /\ pc[p] = "move" /\ pc'[p] = "moved" /\ granted' = granted
        /\ job[p].to \in Folders /\ tree[job[p].to] = NoDir /\ job[p].to # f
    BY <1>0, <1>2, <2>1 DEF MoveDirectory, Goto, Hand, IsEpicDir, Exists
  <2>3. /\ tree'[f] = NoDir /\ tree'[job[p].to] = tree[f]
        /\ \A h \in Folders \ {f, job[p].to} : tree'[h] = tree[h]
    BY <1>0, <2>1, <2>2
  <2> QED
    BY <2>2, <2>3, NodeTypes DEF MovedBy
<1>3. CASE Save(p)
  <2>1. PICK n \in Written(p) : tree' = WithEpic(tree, job[p].folder, n)
    BY <1>3 DEF Save, WithEpic
  <2>2. pc[p] = "save" /\ pc'[p] = "idle" /\ granted' = Told(p)
    BY <1>0, <1>3 DEF Save, Goto
  <2>3. /\ TypeOK /\ job[p].node \in EpicNodes /\ job[p].verb \in EpicVerbs
        /\ job[p].session \in Sessions /\ job[p].folder \in Folders
        /\ job[p].verb = "move-epic" => job[p].to \in Folders
    BY <1>0, <2>2 DEF Typed, Hand, Loaded
  <2>4. n \in EpicNodes
    BY <2>3, WrittenNode
  <2> QED
    BY <1>0, <2>1, <2>2, <2>3, <2>4, SetEpic DEF SavedBy
<1>4. CASE UNCHANGED <<tree, granted>>
  BY <1>4 DEF Untouched
<1> QED
  BY <1>1, <1>2, <1>3, <1>4
     DEF ProcStep, Enter, Take, Resolve, Refuse, MoveNothing, MoveLoad, StoryResolve, Crash, Leave

-----------------------------------------------------------------------------
(* One epic.yaml.                                                           *)

LEMMA OneEpicFileStep ==
  ASSUME Typed, Loaded, OneEpicFile, NEW p \in Procs, ProcStep(p)
  PROVE  OneEpicFile'
<1>1. PICK home \in Folders : \A g \in Folders : tree[g].epic # NoNode <=> g = home
  BY DEF OneEpicFile
<1>2. CASE Untouched
  BY <1>1, <1>2 DEF Untouched, OneEpicFile
<1>3. CASE MovedBy(p)
  <2>1. PICK f \in Folders, g \in Folders :
          /\ f # g /\ tree[g].epic = NoNode
          /\ tree'[f].epic = NoNode /\ tree'[g].epic = tree[f].epic
          /\ \A h \in Folders \ {f, g} : tree'[h].epic = tree[h].epic
    BY <1>3 DEF MovedBy
  <2>2. CASE f = home
    BY <1>1, <2>1, <2>2 DEF OneEpicFile
  <2>3. CASE f # home
    BY <1>1, <2>1, <2>3 DEF OneEpicFile
  <2> QED
    BY <2>2, <2>3
<1>4. CASE SavedBy(p)
  <2>1. /\ TypeOK /\ job[p].node \in EpicNodes /\ job[p].verb \in EpicVerbs
        /\ job[p].session \in Sessions /\ job[p].folder \in Folders
        /\ job[p].verb = "move-epic" => job[p].to \in Folders
        /\ tree[job[p].folder].epic = job[p].node
    BY <1>4 DEF SavedBy, Typed, InHand, Hand, Loaded
  <2>2. tree'[job[p].folder].epic # NoNode /\ job[p].folder = home
    BY <1>1, <1>4, <2>1, WrittenNode, NodeTypes DEF SavedBy
  <2> QED
    BY <1>1, <1>4, <2>2 DEF SavedBy, OneEpicFile
<1> QED
  BY <1>2, <1>3, <1>4, FilesStep

\* A process that loads a node loads the one epic.yaml there is, and nobody
\* else writes before it does.
LEMMA LoadedStep ==
  ASSUME Typed, LockHeld, Loaded, NEW p \in Procs, ProcStep(p)
  PROVE  Loaded'
<1>1. Untouched \/ (pc[p] \in Inside /\ (MovedBy(p) \/ SavedBy(p)))
  BY FilesStep DEF MovedBy, SavedBy, Inside
<1>2. ASSUME NEW q \in Procs, q # p
      PROVE  /\ pc'[q] = "save" => job'[q].node \in EpicNodes /\ tree'[job'[q].folder].epic = job'[q].node
             /\ pc'[q] = "story" => tree'[job'[q].folder].epic # NoNode
  <2>1. job'[q] = job[q] /\ pc'[q] = pc[q]
    BY <1>2, OwnStep
  <2>2. pc[q] \in {"story", "save"} => Untouched /\ job[q].folder \in Folders
    BY <1>1, <1>2 DEF LockHeld, Inside, Typed, InHand, Hand
  <2> QED
    BY <2>1, <2>2 DEF Untouched, Loaded
<1>3. /\ tree \in [Folders -> Dirs] /\ job \in [Procs -> Jobs] /\ job[p] \in Jobs
      /\ \A f \in Folders : tree[f].epic \in EpicNodes \cup {NoNode}
      /\ pc \in [Procs -> {"idle", "wait", "resolve", "story", "save", "move", "moved", "dump"}]
      /\ Hand(job[p], pc[p])
  BY DEF Typed, TypeOK, Dirs, InHand
<1> DEFINE Mine == /\ pc'[p] = "save" => /\ job'[p].node \in EpicNodes
                                         /\ tree'[job'[p].folder].epic = job'[p].node
                   /\ pc'[p] = "story" => tree'[job'[p].folder].epic # NoNode
<1>4. ASSUME Resolve(p) PROVE Mine
  <2>1. PICK f \in Folders : IsHome(p, f) /\ job' = [job EXCEPT ![p] = AtHome(job[p], f, tree[f].epic)]
    BY <1>4 DEF Resolve, SetJob, AtHome
  <2>2. job'[p].node = tree[f].epic /\ job'[p].folder = f /\ tree[f].epic \in EpicNodes
    BY <1>3, <2>1, LoadedJob DEF IsHome, IsEpicFile
  <2>3. tree' = tree
    BY <1>4 DEF Resolve
  <2> QED
    BY <2>2, <2>3, NodeTypes
<1>5. ASSUME PromoteStory(p) PROVE Mine
  <2> DEFINE f == job[p].folder
  <2>1. /\ f \in Folders /\ job' = [job EXCEPT ![p] = Reloaded(job[p], tree[f].epic)]
        /\ tree[f].epic # NoNode /\ pc'[p] = "save"
        /\ tree' = [tree EXCEPT ![f].story = TRUE]
    BY <1>3, <1>5 DEF PromoteStory, SetJob, Goto, Reloaded, Hand, Loaded
  <2>2. tree[f].epic \in EpicNodes
    BY <1>3, <2>1
  <2>3. job'[p].node = tree[f].epic /\ job'[p].folder = f
    BY <1>3, <2>1, <2>2, LoadedJob
  <2>4. tree'[f].epic = tree[f].epic
    BY <1>3, <2>1, SetStory
  <2> QED
    BY <2>1, <2>2, <2>3, <2>4
<1>6. ASSUME MoveLoad(p), pc'[p] = "save" PROVE Mine
  <2> DEFINE f == job[p].to
  <2>1. /\ f \in Folders /\ job' = [job EXCEPT ![p] = AtHome(job[p], f, tree[f].epic)]
        /\ tree[f].epic # NoNode /\ tree' = tree
    BY <1>3, <1>6 DEF MoveLoad, SetJob, Goto, AtHome, Hand, Leave
  <2>2. tree[f].epic \in EpicNodes
    BY <1>3, <2>1
  <2>3. job'[p].node = tree[f].epic /\ job'[p].folder = f
    BY <1>3, <2>1, <2>2, LoadedJob
  <2> QED
    BY <1>6, <2>1, <2>2, <2>3
<1>7. Mine
  <2>1. ~Resolve(p) /\ ~PromoteStory(p) /\ pc'[p] \in {"save", "story"} => MoveLoad(p) /\ pc'[p] = "save"
    BY <1>3 DEF ProcStep, Enter, Take, Refuse, Save, MoveNothing, MoveDirectory, MoveLoad,
                StoryResolve, StoryDump, Crash, Leave, Goto
  <2> QED
    BY <1>4, <1>5, <1>6, <2>1
<1> QED
  BY <1>2, <1>7 DEF Loaded

-----------------------------------------------------------------------------
(* The ownership lock.                                                      *)

LEMMA ClaimsRecordedStep ==
  ASSUME IInv, NEW p \in Procs, ProcStep(p)
  PROVE  ClaimsRecorded'
<1>1. clock' = clock /\ (Untouched \/ MovedBy(p) \/ SavedBy(p))
  BY OwnStep, FilesStep DEF IInv
<1>2. CASE Untouched
  BY <1>1, <1>2 DEF Untouched, IInv, ClaimsRecorded, Claims
<1>3. CASE MovedBy(p)
  <2>1. PICK f \in Folders, g \in Folders :
          /\ tree'[f].epic = NoNode /\ tree'[g].epic = tree[f].epic
          /\ \A h \in Folders \ {f, g} : tree'[h].epic = tree[h].epic
    BY <1>3 DEF MovedBy
  <2>2. granted' = granted
    BY <1>3 DEF MovedBy
  <2> QED
    BY <1>1, <2>1, <2>2 DEF IInv, ClaimsRecorded, Claims
<1>4. CASE SavedBy(p)
  <2> DEFINE home == job[p].folder
             lock == tree[home].epic.lock
             new == tree'[home].epic.lock
  <2>1. /\ TypeOK /\ job[p].node \in EpicNodes /\ job[p].verb \in EpicVerbs
        /\ job[p].session \in Sessions /\ home \in Folders
        /\ job[p].verb = "move-epic" => job[p].to \in Folders
        /\ tree[home].epic = job[p].node /\ pc[p] = "save"
    BY <1>4 DEF SavedBy, IInv, Typed, InHand, Hand, Loaded
  <2>2. \A g \in Folders : g # home => tree'[g].epic = NoNode
    BY <1>4, <2>1, NodeTypes DEF SavedBy, IInv, OneEpicFile
  <2>3. /\ granted' = Told(p)
        /\ new = CASE job[p].verb = "set-lock" -> [session |-> job[p].session, at |-> clock]
                   [] job[p].verb = "clear-lock" -> NoLock
                   [] OTHER -> lock
    BY <1>4, <2>1, WrittenNode DEF SavedBy
  <2>4. ASSUME NEW s \in Sessions, Claims(s)'
        PROVE  new = [session |-> s, at |-> granted'[s]]
    <3>1. granted \in [Sessions -> -1..MaxClock] /\ clock \in 0..MaxClock /\ s # NoSession
      BY EpicTreeAssumption DEF IInv, Typed, TypeOK
    <3>2. Claims(s) => lock = [session |-> s, at |-> granted[s]]
      BY <2>1, NodeTypes DEF IInv, ClaimsRecorded
    <3>3. CASE job[p].verb = "set-lock"
      <4>1. granted' = [granted EXCEPT ![job[p].session] = clock]
        BY <2>3, <3>3 DEF Told
      <4>2. CASE s = job[p].session
        BY <2>3, <3>1, <3>3, <4>1, <4>2
      <4>3. CASE s # job[p].session
        <5>1. granted'[s] = granted[s] /\ Claims(s)
          BY <1>1, <2>4, <3>1, <4>1, <4>3 DEF Claims
        <5>2. ~IsForeign(lock, job[p].session)
          BY <2>1, <3>3 DEF IInv, StillAllowed
        <5>3. lock.session = s /\ lock.at = granted[s]
          BY <3>2, <5>1
        <5> QED
          BY <3>1, <4>3, <5>1, <5>2, <5>3 DEF IsForeign, Claims
      <4> QED
        BY <4>2, <4>3
    <3>4. CASE job[p].verb = "clear-lock"
      <4>1. CASE lock = NoLock
        <5>1. granted' = granted
          BY <2>1, <2>3, <3>4, <4>1 DEF Told
        <5>2. Claims(s)
          BY <1>1, <2>4, <5>1 DEF Claims
        <5> QED
          BY <3>1, <3>2, <4>1, <5>2 DEF NoLock
      <4>2. CASE lock # NoLock
        <5>1. granted' = [granted EXCEPT ![lock.session] = -1]
          BY <2>1, <2>3, <3>4, <4>2 DEF Told
        <5>2. s # lock.session
          BY <2>4, <3>1, <5>1 DEF Claims
        <5>3. Claims(s)
          BY <1>1, <2>4, <3>1, <5>1, <5>2 DEF Claims
        <5> QED
          BY <3>2, <5>2, <5>3
      <4> QED
        BY <4>1, <4>2
    <3>5. CASE job[p].verb \notin {"set-lock", "clear-lock"}
      <4>1. granted' = granted /\ new = lock
        BY <2>3, <3>5 DEF Told
      <4>2. Claims(s)
        BY <1>1, <2>4, <4>1 DEF Claims
      <4> QED
        BY <3>2, <4>1, <4>2
    <3> QED
      BY <3>3, <3>4, <3>5
  <2> QED
    BY <2>2, <2>4 DEF ClaimsRecorded
<1> QED
  BY <1>1, <1>2, <1>3, <1>4

LEMMA StillAllowedStep ==
  ASSUME IInv, NEW p \in Procs, ProcStep(p)
  PROVE  StillAllowed'
<1> DEFINE Watched(q) == pc[q] = "story" \/ (pc[q] = "save" /\ job[q].verb = "set-lock")
           Fine(q) == Watched(q) => ~IsForeign(tree[job[q].folder].epic.lock, job[q].session)
<1>1. /\ clock' = clock
      /\ Untouched \/ (pc[p] \in Inside /\ (MovedBy(p) \/ SavedBy(p)))
  BY OwnStep, FilesStep DEF MovedBy, SavedBy, Inside, IInv
<1>2. ASSUME NEW q \in Procs, q # p
      PROVE  Fine(q)'
  <2>1. job'[q] = job[q] /\ pc'[q] = pc[q]
    BY <1>2, OwnStep DEF IInv
  <2>2. Watched(q) => Untouched /\ job[q].folder \in Folders
    BY <1>1, <1>2 DEF IInv, LockHeld, Inside, Typed, InHand, Hand
  <2>3. Fine(q)
    BY DEF IInv, StillAllowed
  <2> QED
    BY <1>1, <2>1, <2>2, <2>3 DEF Untouched, IsForeign
<1>3. /\ tree \in [Folders -> Dirs] /\ job \in [Procs -> Jobs] /\ job[p] \in Jobs
      /\ \A f \in Folders : tree[f].epic \in EpicNodes \cup {NoNode}
      /\ pc \in [Procs -> {"idle", "wait", "resolve", "story", "save", "move", "moved", "dump"}]
      /\ Hand(job[p], pc[p])
  BY DEF IInv, Typed, TypeOK, Dirs, InHand
<1>4. ASSUME Resolve(p) PROVE Fine(p)'
  <2>1. PICK f \in Folders : /\ ~Refuses(p, f)
                             /\ job' = [job EXCEPT ![p] = AtHome(job[p], f, tree[f].epic)]
    BY <1>4 DEF Resolve, SetJob, AtHome
  <2>2. job'[p].folder = f /\ job'[p].session = job[p].session /\ job'[p].verb = job[p].verb
    BY <1>3, <2>1, LoadedJob
  <2>3. /\ tree' = tree
        /\ pc'[p] = IF job[p].verb = "promote-issue" THEN "story" ELSE "save"
    BY <1>3, <1>4 DEF Resolve, Goto
  <2>4. Watched(p)' => job[p].verb \in {"set-lock", "promote-issue"}
    BY <2>2, <2>3
  <2> QED
    BY <1>1, <2>1, <2>2, <2>3, <2>4 DEF Refuses, IsForeign
<1>5. ASSUME ~Resolve(p) PROVE ~Watched(p)'
  <2>1. CASE PromoteStory(p)
    <3>1. /\ job[p].folder \in Folders /\ job[p].verb = "promote-issue" /\ pc'[p] = "save"
          /\ job' = [job EXCEPT ![p] = Reloaded(job[p], tree[job[p].folder].epic)]
      BY <1>3, <2>1 DEF PromoteStory, SetJob, Goto, Reloaded, Hand
    <3>2. job'[p].verb = job[p].verb
      BY <1>3, <3>1, LoadedJob
    <3> QED
      BY <3>1, <3>2
  <2>2. CASE MoveLoad(p)
    <3>1. job[p].to \in Folders /\ job[p].verb = "move-epic"
      BY <1>3, <2>2 DEF MoveLoad, Hand
    <3>2. CASE job' = [job EXCEPT ![p] = AtHome(job[p], job[p].to, tree[job[p].to].epic)] /\ pc'[p] = "save"
      <4>1. job'[p].verb = job[p].verb
        BY <1>3, <3>1, <3>2, LoadedJob
      <4> QED
        BY <3>1, <3>2, <4>1
    <3>3. CASE Leave(p)
      BY <1>3, <3>3 DEF Leave, Goto
    <3> QED
      BY <1>3, <2>2, <3>2, <3>3 DEF MoveLoad, SetJob, Goto, AtHome
  <2>3. CASE ~PromoteStory(p) /\ ~MoveLoad(p)
    BY <1>3, <1>5, <2>3 DEF ProcStep, Enter, Take, Refuse, Save, MoveNothing, MoveDirectory,
                            StoryResolve, StoryDump, Crash, Leave, Goto
  <2> QED
    BY <2>1, <2>2, <2>3
<1>6. Fine(p)'
  BY <1>4, <1>5
<1> QED
  BY <1>2, <1>6 DEF StillAllowed

-----------------------------------------------------------------------------
(* The invariant is inductive.                                              *)

LEMMA Initially == Init => IInv
<1> SUFFICES ASSUME Init PROVE IInv
  OBVIOUS
<1>1. tree \in [Folders -> Dirs] /\ tree["planned"].epic \in EpicNodes
      /\ \A f \in Folders : f # "planned" => tree[f].epic = NoNode
  BY NodeTypes DEF Init, Dirs, EpicNodes, EpicStatuses, Folders
<1>2. /\ clock \in 0..MaxClock /\ granted \in [Sessions -> -1..MaxClock]
      /\ \A s \in Sessions : granted[s] = -1
  BY EpicTreeAssumption DEF Init
<1>3. /\ pc \in [Procs -> {"idle", "wait", "resolve", "story", "save", "move", "moved", "dump"}]
      /\ \A p \in Procs : pc[p] = "idle"
      /\ job \in [Procs -> Jobs] /\ holder = NoProc
  BY NodeTypes DEF Init
<1>4. Typed
  BY <1>1, <1>2, <1>3 DEF Typed, TypeOK, InHand, Hand
<1>5. LockHeld /\ Loaded /\ StillAllowed
  BY <1>3 DEF LockHeld, Loaded, StillAllowed, Inside
<1>6. OneEpicFile /\ ClaimsRecorded
  BY <1>1, <1>2, NodeTypes DEF OneEpicFile, ClaimsRecorded, Claims, Folders
<1> QED
  BY <1>4, <1>5, <1>6 DEF IInv

\* Time only ends claims.
LEMMA TickStep ==
  ASSUME IInv, Tick
  PROVE  IInv'
<1>1. /\ clock \in 0..MaxClock /\ clock' = clock + 1 /\ clock' \in 0..MaxClock
      /\ UNCHANGED <<tree, holder, pc, job, granted>> /\ MaxClock \in Nat /\ Ttl \in Nat
  BY EpicTreeAssumption DEF Tick, IInv, Typed, TypeOK
<1>2. Typed' /\ LockHeld' /\ OneEpicFile' /\ Loaded'
  BY <1>1 DEF IInv, Typed, TypeOK, InHand, Hand, LockHeld, OneEpicFile, Loaded
<1>3. \A s \in Sessions : Claims(s)' => Claims(s)
  BY <1>1 DEF Claims, IInv, Typed, TypeOK
<1>4. ClaimsRecorded'
  BY <1>1, <1>3 DEF IInv, ClaimsRecorded
<1>5. ASSUME NEW p \in Procs, pc[p] \in {"story", "save"},
             ~IsForeign(tree[job[p].folder].epic.lock, job[p].session)
      PROVE  ~IsForeign(tree[job[p].folder].epic.lock, job[p].session)'
  <2> DEFINE lock == tree[job[p].folder].epic.lock
  <2>1. lock.at \in 0..MaxClock
    BY <1>5, NodeTypes DEF IInv, Typed, TypeOK, InHand, Hand, Dirs, EpicNodes, NoNode, Locks
  <2>2. lock' = lock /\ job'[p] = job[p]
    BY <1>1
  <2> HIDE DEF lock
  <2>3. clock' - lock.at <= Ttl => clock - lock.at <= Ttl
    BY <1>1, <2>1
  <2> QED
    BY <1>5, <2>2, <2>3 DEF IsForeign, lock
<1>6. StillAllowed'
  BY <1>1, <1>5 DEF IInv, StillAllowed
<1> QED
  BY <1>2, <1>4, <1>6 DEF IInv

LEMMA Inductive == IInv /\ [Next]_vars => IInv'
<1> SUFFICES ASSUME IInv, [Next]_vars PROVE IInv'
  OBVIOUS
<1>1. ASSUME NEW p \in Procs, ProcStep(p) PROVE IInv'
  <2>1. Typed' /\ LockHeld' /\ OneEpicFile' /\ Loaded'
    BY <1>1, ProcTyped, LockHeldStep, OneEpicFileStep, LoadedStep DEF IInv
  <2> QED
    BY <1>1, <2>1, ClaimsRecordedStep, StillAllowedStep DEF IInv
<1>2. CASE Tick
  BY <1>2, TickStep
<1>3. CASE UNCHANGED vars
  BY <1>3 DEF vars, IInv, Typed, TypeOK, InHand, Hand, LockHeld, OneEpicFile, Loaded,
              ClaimsRecorded, StillAllowed, Claims, IsForeign
<1> QED
  BY <1>1, <1>2, <1>3 DEF Next

LEMMA Invariant == Spec => []IInv
BY Initially, Inductive, PTL DEF Spec

\* The variables keep their types, for any processes, sessions, verbs and TTL.
THEOREM TypeCorrect == Spec => []TypeOK
<1>1. IInv => TypeOK
  BY DEF IInv, Typed
<1> QED
  BY <1>1, Invariant, PTL

\* Whatever verbs run and whoever dies, an epic has one epic.yaml, in one
\* status folder: a story writer that brings an old directory back brings no
\* epic.yaml, and move-epic moves the file or leaves it alone.
THEOREM EpicFileIsUnique == Spec => []OneEpicFile
<1>1. IInv => OneEpicFile
  BY DEF IInv
<1> QED
  BY <1>1, Invariant, PTL

\* set-lock never has two sessions inside a claim at the same time, take-overs
\* of stale claims and processes that wait for the flock included.
THEOREM OneOwnerAtATime == Spec => []OneOwner
<1>1. ASSUME IInv, NEW s \in Sessions, NEW t \in Sessions, Claims(s), Claims(t)
      PROVE  s = t
  <2>1. PICK home \in Folders : tree[home].epic # NoNode
    BY <1>1 DEF IInv, OneEpicFile
  <2>2. /\ tree[home].epic.lock = [session |-> s, at |-> granted[s]]
        /\ tree[home].epic.lock = [session |-> t, at |-> granted[t]]
    BY <1>1, <2>1 DEF IInv, ClaimsRecorded
  <2> QED
    BY <2>2
<1>2. IInv => OneOwner
  BY <1>1 DEF OneOwner
<1> QED
  BY <1>2, Invariant, PTL

-----------------------------------------------------------------------------
(* What a step may do to the one epic.yaml.                                 *)

LEMMA NodeAtHome ==
  ASSUME NEW t, NEW home \in Folders,
         \A g \in Folders : t[g].epic # NoNode <=> g = home
  PROVE  Node(t) = t[home].epic
BY DEF Node

\* Only a save changes the node, and in the field of its verb.
LEMMA NodeStep ==
  ASSUME IInv, NEW p \in Procs, ProcStep(p)
  PROVE  \/ Node(tree') = Node(tree)
         \/ /\ pc[p] = "save" /\ pc'[p] = "idle"
            /\ Node(tree').lock # Node(tree).lock => job[p].verb \in {"set-lock", "clear-lock"}
            /\ Node(tree').status # Node(tree).status => job[p].verb \in {"set-status", "move-epic"}
            /\ Node(tree').estimate # Node(tree).estimate
                 => job[p].verb \in {"rollup", "promote-issue"}
<1>1. PICK home \in Folders : \A g \in Folders : tree[g].epic # NoNode <=> g = home
  BY DEF IInv, OneEpicFile
<1>2. Node(tree) = tree[home].epic
  BY <1>1, NodeAtHome
<1>3. CASE Untouched
  BY <1>1, <1>2, <1>3, NodeAtHome DEF Untouched
<1>4. CASE MovedBy(p)
  <2>1. PICK f \in Folders, g \in Folders :
          /\ f # g /\ tree[g].epic = NoNode
          /\ tree'[f].epic = NoNode /\ tree'[g].epic = tree[f].epic
          /\ \A h \in Folders \ {f, g} : tree'[h].epic = tree[h].epic
    BY <1>4 DEF MovedBy
  <2>2. CASE f = home
    <3>1. \A h \in Folders : tree'[h].epic # NoNode <=> h = g
      BY <1>1, <2>1, <2>2
    <3> QED
      BY <1>2, <2>1, <2>2, <3>1, NodeAtHome
  <2>3. CASE f # home
    <3>1. tree'[home].epic = tree[home].epic /\ \A h \in Folders : tree'[h].epic # NoNode <=> h = home
      BY <1>1, <2>1, <2>3
    <3> QED
      BY <1>2, <3>1, NodeAtHome
  <2> QED
    BY <2>2, <2>3
<1>5. CASE SavedBy(p)
  <2>1. /\ TypeOK /\ job[p].node \in EpicNodes /\ job[p].verb \in EpicVerbs
        /\ job[p].session \in Sessions /\ job[p].folder \in Folders
        /\ job[p].verb = "move-epic" => job[p].to \in Folders
        /\ tree[job[p].folder].epic = job[p].node
    BY <1>5 DEF SavedBy, IInv, Typed, InHand, Hand, Loaded
  <2>2. job[p].folder = home /\ job[p].node = Node(tree)
    BY <1>1, <1>2, <2>1, NodeTypes
  <2>3. PICK n \in Written(p) : n = tree'[home].epic
    BY <1>5, <2>2 DEF SavedBy
  <2>4. n \in EpicNodes
    BY <2>1, WrittenNode
  <2>5. \A h \in Folders : tree'[h].epic # NoNode <=> h = home
    BY <1>1, <1>5, <2>2, <2>3, <2>4, NodeTypes DEF SavedBy
  <2>6. Node(tree') = n
    BY <2>3, <2>5, NodeAtHome
  <2>7. /\ n.lock # job[p].node.lock => job[p].verb \in {"set-lock", "clear-lock"}
        /\ n.status # job[p].node.status => job[p].verb \in {"set-status", "move-epic"}
        /\ n.estimate # job[p].node.estimate => job[p].verb \in {"rollup", "promote-issue"}
    BY <2>1, WrittenNode
  <2> QED
    BY <1>5, <2>2, <2>6, <2>7 DEF SavedBy
<1> QED
  BY <1>3, <1>4, <1>5, FilesStep DEF IInv

\* The save of a verb puts back no old value of a field that is not its own:
\* every verb works on the node as it is under epic_node_lock.
THEOREM OtherFieldsAreKept == Spec => WritersKeepOtherFields
<1> DEFINE Kept ==
      /\ Node(tree').lock # Node(tree).lock => Saves({"set-lock", "clear-lock"})
      /\ Node(tree').status # Node(tree).status => Saves({"set-status", "move-epic"})
      /\ Node(tree').estimate # Node(tree).estimate => Saves({"rollup", "promote-issue"})
<1>1. ASSUME IInv, NEW p \in Procs, ProcStep(p) PROVE Kept
  BY <1>1, NodeStep DEF Saves
<1>2. ASSUME Tick PROVE Kept
  BY <1>2 DEF Tick
<1>3. IInv /\ [Next]_vars => [Kept]_vars
  BY <1>1, <1>2 DEF Next
<1> QED
  BY <1>3, Invariant, PTL DEF Spec, WritersKeepOtherFields

\* promote-issue saves its story only while no other session's claim is in
\* force, claims made while it waited for the lock included.
THEOREM PromotionsRespectClaims == Spec => PromoteRespectsClaims
<1> DEFINE Allowed(p) ==
      pc[p] = "story" /\ pc'[p] = "save" => ~IsForeign(Node(tree).lock, job[p].session)
<1>1. ASSUME IInv, NEW p \in Procs, pc[p] = "story"
      PROVE  ~IsForeign(Node(tree).lock, job[p].session)
  <2>1. PICK home \in Folders : \A g \in Folders : tree[g].epic # NoNode <=> g = home
    BY <1>1 DEF IInv, OneEpicFile
  <2>2. job[p].folder = home
    BY <1>1, <2>1 DEF IInv, Typed, InHand, Hand, Loaded
  <2> QED
    BY <1>1, <2>1, <2>2, NodeAtHome DEF IInv, StillAllowed
<1>2. IInv => \A p \in Procs : Allowed(p)
  BY <1>1
<1> HIDE DEF Allowed
<1>3. IInv /\ [Next]_vars => [\A p \in Procs : Allowed(p)]_vars
  BY <1>2
<1> QED
  BY <1>3, Invariant, PTL DEF Spec, PromoteRespectsClaims, Allowed

-----------------------------------------------------------------------------
(* A reorg: sets put in order.                                              *)

\* A set of naturals has a least member.
LEMMA HasLeast ==
  ASSUME NEW S \in SUBSET Nat, S # {}
  PROVE  \E m \in S : \A k \in S : m <= k
<1> DEFINE R == {pair \in Nat \X Nat : pair[1] < pair[2]}
<1>1. PICK m \in S : \A k \in S : ~(<<k, m>> \in R)
  <2>1. IsWellFoundedOn(R, Nat)
    BY NatLessThanWellFounded DEF OpToRel
  <2> HIDE DEF R
  <2> QED
    BY <2>1, WFMin
<1>2. \A k \in S : m <= k
  <2> TAKE k \in S
  <2>1. m \in Nat /\ k \in Nat /\ ~(<<k, m>> \in R)
    BY <1>1
  <2>2. ~(k < m)
    BY <2>1
  <2> QED
    BY <2>1, <2>2
<1> QED
  BY <1>2

\* A set of naturals with a bound has a largest member.
LEMMA HasLargest ==
  ASSUME NEW n \in Nat, NEW S \in SUBSET (0..n), S # {}
  PROVE  \E m \in S : \A k \in S : k <= m
<1> DEFINE T == {n - k : k \in S}
<1>1. \A k \in S : n - k \in Nat /\ k \in Nat
  OBVIOUS
<1>2. T \in SUBSET Nat /\ T # {}
  BY <1>1
<1>3. PICK x \in T : \A y \in T : x <= y
  BY <1>2, HasLeast
<1>4. PICK m \in S : x = n - m
  BY <1>3
<1>5. \A k \in S : n - m <= n - k
  BY <1>3, <1>4
<1>6. \A k \in S : k <= m
  BY <1>1, <1>5
<1> QED
  BY <1>6

\* R orders S: it is irreflexive, transitive and total.
Orders2(S, R) ==
  /\ \A x \in S : <<x, x>> \notin R
  /\ \A x, y, z \in S : <<x, y>> \in R /\ <<y, z>> \in R => <<x, z>> \in R
  /\ \A x, y \in S : x = y \/ <<x, y>> \in R \/ <<y, x>> \in R

\* The members of an ordered finite set have a sequence in which they come in
\* order: each stands behind as many as there are before it.
LEMMA HasOrder ==
  ASSUME NEW S, IsFiniteSet(S), NEW R, Orders2(S, R)
  PROVE  \E seq \in [1..Cardinality(S) -> S] :
           \A i, j \in 1..Cardinality(S) : i < j => <<seq[i], seq[j]>> \in R
<1> DEFINE n == Cardinality(S)
           Below(x) == {y \in S : <<y, x>> \in R}
           rank == [x \in S |-> Cardinality(Below(x)) + 1]
<1>1. n \in Nat /\ IsFiniteSet(1..n) /\ Cardinality(1..n) = n
  BY FS_CardinalityType, FS_Interval
<1>2. ASSUME NEW x \in S
      PROVE  IsFiniteSet(Below(x)) /\ Cardinality(Below(x)) \in 0..(n - 1)
  <2>1. Below(x) \in SUBSET S /\ x \notin Below(x)
    BY <1>2 DEF Orders2
  <2> HIDE DEF Below
  <2>2. /\ IsFiniteSet(Below(x)) /\ Cardinality(Below(x)) <= n
        /\ n = Cardinality(Below(x)) => S = Below(x)
    BY <2>1, FS_Subset
  <2>3. Cardinality(Below(x)) \in Nat
    BY <2>2, FS_CardinalityType
  <2> QED
    BY <1>1, <1>2, <2>1, <2>2, <2>3
<1>3. ASSUME NEW x \in S, NEW y \in S, <<x, y>> \in R
      PROVE  rank[x] < rank[y]
  <2>1. Below(x) \in SUBSET Below(y) /\ x \in Below(y) /\ x \notin Below(x)
    BY <1>3 DEF Orders2
  <2> HIDE DEF Below
  <2>2. Cardinality(Below(x)) <= Cardinality(Below(y)) /\ Cardinality(Below(x)) # Cardinality(Below(y))
    BY <1>2, <2>1, FS_Subset
  <2> QED
    BY <1>2, <1>3, <2>2
<1>4. rank \in [S -> 1..n]
  <2> SUFFICES ASSUME NEW x \in S PROVE Cardinality(Below(x)) + 1 \in 1..n
    OBVIOUS
  <2>1. Cardinality(Below(x)) \in 0..(n - 1)
    BY <1>2
  <2> HIDE DEF Below
  <2> QED
    BY <1>1, <2>1
<1> HIDE DEF rank
<1>5. rank \in Surjection(S, 1..n)
  <2>1. rank \in Injection(S, 1..n)
    <3> SUFFICES ASSUME NEW x \in S, NEW y \in S, rank[x] = rank[y]
                 PROVE  x = y
      BY <1>4 DEF Injection, IsInjective
    <3>1. <<x, y>> \notin R /\ <<y, x>> \notin R
      BY <1>1, <1>3, <1>4
    <3> QED
      BY <3>1 DEF Orders2
  <2> QED
    BY <1>1, <2>1, FS_Injection
<1> DEFINE seq == [i \in 1..n |-> CHOOSE x \in S : rank[x] = i]
<1>6. \A i \in 1..n : seq[i] \in S /\ rank[seq[i]] = i
  BY <1>5 DEF Surjection
<1>7. seq \in [1..n -> S]
  BY <1>6
<1> HIDE DEF seq
<1>8. ASSUME NEW i \in 1..n, NEW j \in 1..n, i < j
      PROVE  <<seq[i], seq[j]>> \in R
  <2>1. <<seq[j], seq[i]>> \notin R /\ seq[i] # seq[j]
    BY <1>1, <1>3, <1>6, <1>8
  <2> QED
    BY <1>6, <2>1 DEF Orders2
<1> QED
  BY <1>7, <1>8

\* Such a sequence leaves no member out.
LEMMA OrderIsComplete ==
  ASSUME NEW S, IsFiniteSet(S), NEW R, Orders2(S, R),
         NEW seq \in [1..Cardinality(S) -> S],
         \A i, j \in 1..Cardinality(S) : i < j => <<seq[i], seq[j]>> \in R
  PROVE  \A x \in S : \E i \in 1..Cardinality(S) : seq[i] = x
<1> DEFINE n == Cardinality(S)
<1>1. n \in Nat /\ IsFiniteSet(1..n) /\ Cardinality(1..n) = n
  BY FS_CardinalityType, FS_Interval
<1>2. ASSUME NEW i \in 1..n, NEW j \in 1..n, i # j
      PROVE  seq[i] # seq[j]
  <2>1. i < j \/ j < i
    BY <1>1, <1>2
  <2>2. <<seq[i], seq[j]>> \in R \/ <<seq[j], seq[i]>> \in R
    BY <2>1
  <2>3. seq[i] \in S /\ <<seq[i], seq[i]>> \notin R
    BY DEF Orders2
  <2> QED
    BY <2>2, <2>3
<1>3. seq \in Injection(1..n, S)
  BY <1>2 DEF Injection, IsInjective
<1>4. seq \in Surjection(1..n, S)
  BY <1>1, <1>3, FS_Injection
<1> QED
  BY <1>4 DEF Surjection

\* TupleBefore orders the tuples of naturals of one length.
LEMMA TuplesAreOrdered ==
  ASSUME NEW n \in Nat, NEW S, S \subseteq {s \in Seq(Nat) : Len(s) = n}
  PROVE  Orders2(S, {pair \in S \X S : TupleBefore(pair[1], pair[2])})
<1>1. \A s \in S : s \in [1..n -> Nat] /\ Len(s) = n
  BY LenProperties
<1>2. ASSUME NEW x \in S PROVE ~TupleBefore(x, x)
  BY <1>1, <1>2 DEF TupleBefore
<1>3. ASSUME NEW x \in S, NEW y \in S, NEW z \in S, TupleBefore(x, y), TupleBefore(y, z)
      PROVE  TupleBefore(x, z)
  <2>1. PICK i \in 1..n : x[i] < y[i] /\ \A k \in 1..(i - 1) : x[k] = y[k]
    BY <1>1, <1>3 DEF TupleBefore
  <2>2. PICK j \in 1..n : y[j] < z[j] /\ \A k \in 1..(j - 1) : y[k] = z[k]
    BY <1>1, <1>3 DEF TupleBefore
  <2>3. \A k \in 1..n : x[k] \in Nat /\ y[k] \in Nat /\ z[k] \in Nat
    BY <1>1
  <2>4. CASE i <= j
    <3>1. x[i] < z[i]
      <4>1. CASE i = j
        BY <2>1, <2>2, <2>3, <4>1
      <4>2. CASE i < j
        <5>1. y[i] = z[i]
          BY <2>2, <4>2
        <5> QED
          BY <2>1, <5>1
      <4> QED
        BY <2>4, <4>1, <4>2
    <3>2. \A k \in 1..(i - 1) : x[k] = z[k]
      BY <2>1, <2>2, <2>4
    <3> QED
      BY <1>1, <3>1, <3>2 DEF TupleBefore
  <2>5. CASE j < i
    <3>1. x[j] < z[j]
      BY <2>1, <2>2, <2>3, <2>5
    <3>2. \A k \in 1..(j - 1) : x[k] = z[k]
      BY <2>1, <2>2, <2>5
    <3> QED
      BY <1>1, <3>1, <3>2 DEF TupleBefore
  <2> QED
    BY <2>4, <2>5
<1>4. ASSUME NEW x \in S, NEW y \in S, x # y
      PROVE  TupleBefore(x, y) \/ TupleBefore(y, x)
  <2> DEFINE D == {i \in 1..n : x[i] # y[i]}
  <2>1. D \in SUBSET Nat /\ D # {}
    <3>1. x \in Seq(Nat) /\ y \in Seq(Nat) /\ Len(x) = n /\ Len(y) = n
      OBVIOUS
    <3>2. (\A i \in 1..n : x[i] = y[i]) => x = y
      BY <3>1, SeqEqual
    <3>3. \E i \in 1..n : x[i] # y[i]
      BY <1>4, <3>2
    <3> QED
      BY <3>3
  <2>2. PICK i \in D : \A k \in D : i <= k
    BY <2>1, HasLeast
  <2>3. \A k \in 1..(i - 1) : x[k] = y[k]
    BY <2>2
  <2>4. x[i] < y[i] \/ y[i] < x[i]
    BY <1>1, <2>2
  <2> QED
    BY <1>1, <2>2, <2>3, <2>4 DEF TupleBefore
<1> QED
  BY <1>2, <1>3, <1>4 DEF Orders2

-----------------------------------------------------------------------------
(* Sprints, keys and the allocator.                                         *)

LEMMA SprintShape ==
  /\ \A s \in Sprints : /\ s[1] \in Nat /\ s[2] \in Nat /\ s[1] \in Epics
                        /\ s = <<s[1], s[2]>>
  /\ Epics \subseteq Nat
BY ReorgAssumption DEF Epics

LEMMA KeyShape ==
  /\ \A key \in Keys : /\ SprintOf(key) \in Sprints /\ key[1] \in Epics
                       /\ key[1] \in Nat /\ key[2] \in Nat
                       /\ key[3] \in 1..MaxNum /\ key[3] \in Nat
                       /\ key = <<key[1], key[2], key[3]>>
  /\ \A s \in Sprints, n \in 1..MaxNum :
       <<s[1], s[2], n>> \in Keys /\ SprintOf(<<s[1], s[2], n>>) = s
<1>1. ASSUME NEW s \in Sprints, NEW n \in 1..MaxNum
      PROVE  <<s[1], s[2], n>> \in Keys /\ SprintOf(<<s[1], s[2], n>>) = s
  BY SprintShape DEF Keys, SprintOf
<1>2. ASSUME NEW key \in Keys
      PROVE  /\ SprintOf(key) \in Sprints /\ key[1] \in Epics
             /\ key[1] \in Nat /\ key[2] \in Nat
             /\ key[3] \in 1..MaxNum /\ key[3] \in Nat
             /\ key = <<key[1], key[2], key[3]>>
  <2>1. PICK s \in Sprints, n \in 1..MaxNum : key = <<s[1], s[2], n>>
    BY DEF Keys
  <2>2. n \in Nat
    BY ReorgAssumption
  <2> QED
    BY <1>1, <2>1, <2>2, SprintShape
<1> QED
  BY <1>1, <1>2

LEMMA FinitelyMany == IsFiniteSet(Epics) /\ IsFiniteSet(Keys)
<1>1. IsFiniteSet(Sprints) /\ MaxNum \in Nat
  BY ReorgAssumption
<1>2. IsFiniteSet(Epics)
  <2> DEFINE f == [s \in Sprints |-> s[1]]
  <2>1. f \in Surjection(Sprints, Epics)
    BY DEF Surjection, Epics
  <2> QED
    BY <1>1, <2>1, FS_Surjection
<1>3. IsFiniteSet(Keys)
  <2> DEFINE P == Sprints \X (1..MaxNum)
             f == [p \in P |-> <<p[1][1], p[1][2], p[2]>>]
  <2>1. IsFiniteSet(P)
    <3>1. IsFiniteSet(1..MaxNum)
      BY <1>1, FS_Interval
    <3> QED
      BY <1>1, <3>1, FS_Product
  <2>2. ASSUME NEW key \in Keys PROVE \E p \in P : f[p] = key
    <3>1. PICK s \in Sprints, n \in 1..MaxNum : key = <<s[1], s[2], n>>
      BY DEF Keys
    <3>2. <<s, n>> \in P /\ f[<<s, n>>] = key
      BY <3>1
    <3> QED
      BY <3>2
  <2>3. ASSUME NEW p \in P PROVE f[p] \in Keys
    <3>1. p[1] \in Sprints /\ p[2] \in 1..MaxNum
      OBVIOUS
    <3> QED
      BY <3>1, KeyShape
  <2>4. f \in Surjection(P, Keys)
    BY <2>2, <2>3 DEF Surjection
  <2> QED
    BY <2>1, <2>4, FS_Surjection
<1> QED
  BY <1>2, <1>3

\* Every work has a key of its own.
Keyed ==
  /\ at \in [Works -> Keys \cup {Unborn}]
  /\ \A v, w \in Works : at[v] = at[w] /\ at[v] # Unborn => v = w

LEMMA WorkIsAt ==
  ASSUME Keyed, NEW w \in Works, at[w] # Unborn
  PROVE  WorkAt(at[w]) = w
BY DEF Keyed, WorkAt

LEMMA KeysAreBorn == \A key \in Keys : key # Unborn
BY ReorgAssumption

LEMMA HighestIsHighest ==
  ASSUME Keyed, NEW s
  PROVE  /\ Highest(s) \in 0..MaxNum
         /\ \A w \in Works : at[w] # Unborn /\ SprintOf(at[w]) = s => at[w][3] <= Highest(s)
<1> DEFINE used == {0} \cup {at[w][3] : w \in {v \in Works : at[v] # Unborn /\ SprintOf(at[v]) = s}}
<1>1. MaxNum \in Nat
  BY ReorgAssumption
<1>2. \A w \in Works : at[w] # Unborn => at[w][3] \in 0..MaxNum
  BY <1>1, KeyShape DEF Keyed
<1>3. used \in SUBSET (0..MaxNum) /\ used # {}
  BY <1>1, <1>2
<1>4. \E m \in used : \A n \in used : n <= m
  <2> HIDE DEF used
  <2> QED
    BY <1>1, <1>3, HasLargest
<1>5. Highest(s) = CHOOSE m \in used : \A n \in used : n <= m
  BY DEF Highest
<1>6. Highest(s) \in used /\ \A n \in used : n <= Highest(s)
  <2> HIDE DEF used
  <2> QED
    BY <1>4, <1>5
<1>7. \A w \in Works : at[w] # Unborn /\ SprintOf(at[w]) = s => at[w][3] \in used
  OBVIOUS
<1> HIDE DEF used
<1> QED
  BY <1>3, <1>6, <1>7

\* The key that is handed out lies behind every key of its sprint.
LEMMA AllocatedIsFree ==
  ASSUME Keyed, next \in [Sprints -> 0..(MaxNum + 1)], NEW s \in Sprints
  PROVE  /\ Allocated(s) \in Nat \ {0}
         /\ \A w \in Works : at[w] # Unborn /\ SprintOf(at[w]) = s => at[w][3] < Allocated(s)
<1>1. MaxNum \in Nat /\ next[s] \in Nat
  BY ReorgAssumption
<1>2. Highest(s) \in Nat
  BY <1>1, HighestIsHighest
<1>3. Allocated(s) \in Nat \ {0} /\ Allocated(s) > Highest(s)
  BY <1>1, <1>2 DEF Allocated, Larger
<1>4. \A w \in Works : at[w] # Unborn => at[w][3] \in Nat
  BY KeyShape DEF Keyed
<1> QED
  BY <1>2, <1>3, <1>4, HighestIsHighest

LEMMA HandedOut ==
  ASSUME Keyed, next \in [Sprints -> 0..(MaxNum + 1)], NEW s \in Sprints,
         Allocated(s) <= MaxNum
  PROVE  LET key == <<s[1], s[2], Allocated(s)>>
         IN  /\ key \in Keys /\ SprintOf(key) = s /\ key[3] = Allocated(s)
             /\ \A w \in Works : at[w] # key
<1> DEFINE key == <<s[1], s[2], Allocated(s)>>
<1>1. Allocated(s) \in 1..MaxNum /\ MaxNum \in Nat
  BY AllocatedIsFree, ReorgAssumption
<1>2. key \in Keys /\ SprintOf(key) = s /\ key[3] = Allocated(s)
  BY <1>1, KeyShape
<1>3. ASSUME NEW w \in Works, at[w] = key PROVE FALSE
  BY <1>1, <1>2, <1>3, AllocatedIsFree, KeysAreBorn
<1> QED
  BY <1>2, <1>3

\* What reparent-story does to the story keys.
LEMMA ReparentStep ==
  ASSUME ReorgTypeOK, NEW w \in Works, at[w] # Unborn, NEW to \in Sprints,
         DoReparent(at[w], to)
  PROVE  /\ at' = [at EXCEPT ![w] = NewKey(at[w], to)]
         /\ NewKey(at[w], to) \in Keys /\ SprintOf(NewKey(at[w], to)) = to
         /\ \A v \in Works \ {w} : at[v] # NewKey(at[w], to)
         /\ SprintOf(at[w]) # to =>
              /\ NewKey(at[w], to) # at[w]
              /\ \A v \in Works : at[v] # Unborn /\ SprintOf(at[v]) = to =>
                   at[v][3] < NewKey(at[w], to)[3]
         /\ next' \in [Sprints -> 0..(MaxNum + 1)]
         /\ Keyed'
         /\ UNCHANGED <<folder, reasons, sprints>>
<1>1. Keyed /\ next \in [Sprints -> 0..(MaxNum + 1)] /\ MaxNum \in Nat /\ at[w] \in Keys
  BY ReorgAssumption DEF ReorgTypeOK, Keyed
<1>2. at' = [at EXCEPT ![w] = NewKey(at[w], to)]
  BY <1>1, WorkIsAt DEF DoReparent
<1>3. CASE SprintOf(at[w]) = to
  <2>1. NewKey(at[w], to) = at[w] /\ next' = next /\ at' = at
    BY <1>1, <1>2, <1>3 DEF NewKey, DoReparent, Keyed
  <2> QED
    BY <1>1, <1>2, <1>3, <2>1 DEF DoReparent, Keyed
<1>4. CASE SprintOf(at[w]) # to
  <2> DEFINE key == NewKey(at[w], to)
  <2>1. key = <<to[1], to[2], Allocated(to)>> /\ Allocated(to) <= MaxNum
    BY <1>4 DEF NewKey, DoReparent
  <2>2. /\ key \in Keys /\ SprintOf(key) = to /\ key[3] = Allocated(to)
        /\ \A v \in Works : at[v] # key
    BY <1>1, <2>1, HandedOut
  <2>3. /\ Allocated(to) \in Nat \ {0}
        /\ \A v \in Works : at[v] # Unborn /\ SprintOf(at[v]) = to => at[v][3] < Allocated(to)
    BY <1>1, AllocatedIsFree
  <2>4. next' \in [Sprints -> 0..(MaxNum + 1)]
    <3>1. SprintOf(at[w]) \in Sprints /\ at[w][3] + 1 \in 0..(MaxNum + 1)
      BY <1>1, KeyShape
    <3>2. next' = [next EXCEPT ![SprintOf(at[w])] = Larger(@, at[w][3] + 1),
                               ![to] = Allocated(to) + 1]
      BY <1>4 DEF DoReparent
    <3>3. Larger(next[SprintOf(at[w])], at[w][3] + 1) \in 0..(MaxNum + 1)
      BY <1>1, <3>1 DEF Larger
    <3>4. Allocated(to) + 1 \in 0..(MaxNum + 1)
      BY <1>1, <2>1, <2>3
    <3> QED
      BY <1>1, <3>1, <3>2, <3>3, <3>4
  <2> HIDE DEF key
  <2>5. Keyed'
    BY <1>1, <1>2, <2>2 DEF Keyed, key
  <2> QED
    BY <1>1, <1>2, <1>4, <2>2, <2>3, <2>4, <2>5 DEF key, DoReparent
<1> QED
  BY <1>3, <1>4
-----------------------------------------------------------------------------
(* A reorg: the invariant.                                                  *)

Operations ==
  [op : {"create-sprint", "reparent-story", "retire-epic"},
   key : Keys \cup {Unborn}, to : Sprints \cup {NoSprint}, epic : Epics \cup {0}]

IsProper(o) ==
  /\ o.op = "create-sprint" => o.to \in Sprints /\ o.epic \in Epics
  /\ o.op = "retire-epic" => o.epic \in Epics

AreProper(seq) ==
  seq \in Seq(Operations) /\ \A i \in 1..Len(seq) : IsProper(seq[i])

ReorgTyped ==
  /\ ReorgTypeOK
  /\ was = Start
  /\ stage # "rediffed" => AreProper(ops)
  /\ AreProper(done)

Stories == {w \in Works : Start[w] # Unborn}

Dest(t, w) == t.rows[Start[w]].to
Moves(t, w) == w \in Stories /\ Start[w] \in DOMAIN t.rows /\ SprintOf(Start[w]) # Dest(t, w)

IsRanked(t, w) == t.rows[Start[w]].order # NoOrder

\* A target the validator accepted when the plan was at its start.
Agreed(t) ==
  /\ DOMAIN t.rows \subseteq {Start[w] : w \in Stories}
  /\ t.rows \in [DOMAIN t.rows -> [to : Sprints, order : Orders \cup {NoOrder}]]
  /\ t.retire \subseteq Epics
  /\ \A w \in Stories : Start[w] \in DOMAIN t.rows <=> Start[w][1] \notin t.retire
  /\ \A key \in DOMAIN t.rows : t.rows[key].to[1] \notin t.retire
  /\ \A w \in Stories : \A v \in Needs[w] :
       Start[w] \in DOMAIN t.rows =>
         /\ Start[v] \in DOMAIN t.rows
         /\ Dest(t, v)[1] = Dest(t, w)[1] =>
              /\ Dest(t, v)[2] <= Dest(t, w)[2]
              /\ Dest(t, v) = Dest(t, w) /\ IsRanked(t, v) /\ IsRanked(t, w) =>
                   OrderOf(t, Start[v]) < OrderOf(t, Start[w])

\* Where the plan may be while the operations are applied.
OnTheWay(t) ==
  /\ \A w \in Works : \/ at[w] = Start[w]
                      \/ Moves(t, w) /\ at[w] \in Keys /\ SprintOf(at[w]) = Dest(t, w)
  /\ \A e \in Epics : folder[e] = "planned" \/ (folder[e] = "archived" /\ e \in t.retire)

\* The allocator hands out the keys in the order of the target.
KeysInOrder(t) ==
  \A v, w \in Works :
    /\ Moves(t, v) /\ Moves(t, w) /\ at[w] # Start[w]
    /\ MoveBefore(t, Start[v], Start[w])
    => /\ at[v] # Start[v]
       /\ Dest(t, v) = Dest(t, w) => at[v][3] < at[w][3]

Rank(o) ==
  CASE o.op = "create-sprint" -> 1 [] o.op = "reparent-story" -> 2 [] o.op = "retire-epic" -> 3

InTurn(t, seq) ==
  \A i, j \in 1..Len(seq) : i < j =>
    /\ Rank(seq[i]) <= Rank(seq[j])
    /\ seq[i].op = "reparent-story" /\ seq[j].op = "reparent-story"
         => MoveBefore(t, seq[i].key, seq[j].key)

MayRun(t, seq) ==
  \A i \in 1..Len(seq) :
    /\ seq[i].op = "reparent-story" =>
         /\ \E w \in Works : Moves(t, w) /\ at[w] = Start[w] /\ seq[i].key = Start[w]
                             /\ seq[i].to = Dest(t, w)
         /\ \/ seq[i].to \in sprints
            \/ \E j \in 1..(i - 1) : seq[j].op = "create-sprint" /\ seq[j].to = seq[i].to
    /\ seq[i].op = "retire-epic" => seq[i].epic \in t.retire
    /\ seq[i].op # "retire-epic" => \A e \in Epics : folder[e] = "planned"

NothingMissing(t, seq) ==
  /\ \A w \in Works : Moves(t, w) /\ at[w] = Start[w] =>
       \E i \in 1..Len(seq) : seq[i].op = "reparent-story" /\ seq[i].key = Start[w]
  /\ \A e \in t.retire : folder[e] = "planned" =>
       \E i \in 1..Len(seq) : seq[i].op = "retire-epic" /\ seq[i].epic = e

Pending(t, seq) == InTurn(t, seq) /\ MayRun(t, seq) /\ NothingMissing(t, seq)

\* What the journal says of the plan: where a story has to go back to, and
\* which epics are to be brought back.
Tells(seq) ==
  /\ \A i \in 1..Len(seq) : seq[i].op = "reparent-story" =>
       \E w \in Stories : /\ seq[i].key = at[w] /\ seq[i].to = SprintOf(Start[w])
                          /\ SprintOf(at[w]) # SprintOf(Start[w])
  /\ \A i, j \in 1..Len(seq) :
       /\ seq[i].op = "reparent-story" /\ seq[j].op = "reparent-story"
       /\ seq[i].key = seq[j].key
       => i = j
  /\ \A w \in Stories : SprintOf(at[w]) # SprintOf(Start[w]) =>
       \E i \in 1..Len(seq) : seq[i].op = "reparent-story" /\ seq[i].key = at[w]
  /\ \A e \in Epics : folder[e] # "planned" \/ e \in reasons =>
       \E i \in 1..Len(seq) : seq[i].op = "retire-epic" /\ seq[i].epic = e

RetiresLast(seq) ==
  \A i, j \in 1..Len(seq) : i < j /\ seq[i].op = "retire-epic" => seq[j].op = "retire-epic"

RetiresFirst(seq) ==
  \A i, j \in 1..Len(seq) : i < j /\ seq[j].op = "retire-epic" => seq[i].op = "retire-epic"

\* The stories there were, in sprints that are still there.
StoriesKept ==
  /\ \A w \in Works : at[w] = Unborn <=> Start[w] = Unborn
  /\ \A w \in Stories : SprintOf(Start[w]) \in sprints

ApplyInv ==
  stage \in {"applying", "hashing"} /\ drift = "none" =>
    /\ Agreed(target) /\ OnTheWay(target) /\ KeysInOrder(target)
    /\ Pending(target, ops)
    /\ stage = "hashing" => ops = <<>>
    /\ \A i \in 1..Len(done) : done[i].op = "retire-epic" =>
         \A j \in 1..Len(ops) : ops[j].op = "retire-epic"

JournalInv ==
  drift = "none" =>
    /\ StoriesKept
    /\ stage \in {"applying", "hashing", "recording", "recorded"} =>
         Tells(done) /\ RetiresLast(done)
    /\ stage \in {"undoing", "undone"} => Tells(ops) /\ RetiresFirst(ops)
    /\ stage = "undone" => ops = <<>>
    /\ stage \notin {"refused", "stopped", "rediffed", "undorefused"}

\* The digest in the entry tells whether the plan was disturbed.
DigestInv ==
  /\ stage \in {"recording", "recorded"} =>
       (entry.hash = PlanShape <=> drift \notin {"recording", "recorded"})
  /\ drift \in {"recording", "recorded"} => stage \in {"recording", "recorded"}
  /\ drift \notin {"idle", "undone", "rediffed", "refused", "stopped", "undorefused"}

ReorgAtStart ==
  stage = "idle" =>
    /\ at = Start /\ folder = [e \in Epics |-> "planned"] /\ reasons = {}
    /\ sprints = {SprintOf(Start[w]) : w \in Stories}
    /\ ops = <<>> /\ done = <<>> /\ drift = "none"

ReorgInv == ReorgTyped /\ ReorgAtStart /\ ApplyInv /\ JournalInv /\ DigestInv

-----------------------------------------------------------------------------
(* What the derivation makes of an accepted target.                         *)

LEMMA FunctionLen ==
  ASSUME NEW S, NEW n \in Nat, NEW seq \in [1..n -> S]
  PROVE  seq \in Seq(S) /\ Len(seq) = n
BY LenProperties, SeqDef

LEMMA ConcatParts ==
  ASSUME NEW S, NEW s \in Seq(S), NEW u \in Seq(S)
  PROVE  /\ s \o u \in Seq(S) /\ Len(s \o u) = Len(s) + Len(u)
         /\ \A i \in 1..Len(s) : (s \o u)[i] = s[i]
         /\ \A i \in 1..Len(u) : (s \o u)[Len(s) + i] = u[i]
<1>1. Len(s) \in Nat /\ Len(u) \in Nat
  OBVIOUS
<1>2. /\ s \o u \in Seq(S) /\ Len(s \o u) = Len(s) + Len(u)
      /\ \A i \in 1..Len(s) + Len(u) :
           (s \o u)[i] = IF i <= Len(s) THEN s[i] ELSE u[i - Len(s)]
  BY ConcatProperties
<1>3. ASSUME NEW i \in 1..Len(s) PROVE (s \o u)[i] = s[i]
  <2>1. i \in 1..Len(s) + Len(u) /\ i <= Len(s)
    BY <1>1
  <2> QED
    BY <1>2, <2>1
<1>4. ASSUME NEW i \in 1..Len(u) PROVE (s \o u)[Len(s) + i] = u[i]
  <2>1. Len(s) + i \in 1..Len(s) + Len(u) /\ ~(Len(s) + i <= Len(s)) /\ Len(s) + i - Len(s) = i
    BY <1>1
  <2> QED
    BY <1>2, <2>1
<1> QED
  BY <1>2, <1>3, <1>4

LEMMA Joined ==
  ASSUME NEW s \in Seq(Nat), NEW o \in Seq(Nat), NEW u \in Seq(Nat)
  PROVE  Len(s) = 2 /\ Len(o) = 1 /\ Len(u) = 3 =>
           /\ s \o o \o u \in Seq(Nat) /\ Len(s \o o \o u) = 6
           /\ (s \o o \o u)[1] = s[1] /\ (s \o o \o u)[2] = s[2]
           /\ (s \o o \o u)[3] = o[1]
           /\ (s \o o \o u)[4] = u[1] /\ (s \o o \o u)[5] = u[2] /\ (s \o o \o u)[6] = u[3]
<1>1. /\ s \o o \in Seq(Nat) /\ Len(s \o o) = Len(s) + Len(o)
      /\ \A i \in 1..Len(s) : (s \o o)[i] = s[i]
      /\ \A i \in 1..Len(o) : (s \o o)[Len(s) + i] = o[i]
  BY ConcatParts
<1>2. PICK t \in Seq(Nat) : t = s \o o
  BY <1>1
<1>4. /\ t \o u \in Seq(Nat) /\ Len(t \o u) = Len(t) + Len(u)
      /\ \A i \in 1..Len(t) : (t \o u)[i] = t[i]
      /\ \A i \in 1..Len(u) : (t \o u)[Len(t) + i] = u[i]
  BY ConcatParts
<1> HAVE Len(s) = 2 /\ Len(o) = 1 /\ Len(u) = 3
<1>3. /\ Len(t) = 2 + 1
      /\ \A i \in 1..2 : t[i] = s[i]
      /\ \A i \in 1..1 : t[2 + i] = o[i]
  BY <1>1, <1>2
<1>5. PICK all \in Seq(Nat) : all = t \o u
  BY <1>4
<1>6. /\ Len(all) = 3 + 3
      /\ \A i \in 1..3 : all[i] = t[i]
      /\ \A i \in 1..3 : all[3 + i] = u[i]
  BY <1>3, <1>4, <1>5
<1>7. t[1] = s[1] /\ t[2] = s[2] /\ t[2 + 1] = o[1]
  BY <1>3
<1>8. /\ all[1] = t[1] /\ all[2] = t[2] /\ all[3] = t[3]
      /\ all[3 + 1] = u[1] /\ all[3 + 2] = u[2] /\ all[3 + 3] = u[3]
  BY <1>6
<1>9. /\ all \in Seq(Nat) /\ Len(all) = 6
      /\ all[1] = s[1] /\ all[2] = s[2] /\ all[3] = o[1]
      /\ all[4] = u[1] /\ all[5] = u[2] /\ all[6] = u[3]
  BY <1>6, <1>7, <1>8
<1> QED
  BY <1>2, <1>5, <1>9

LEMMA MoveTuple ==
  ASSUME NEW t, Agreed(t), NEW k \in DOMAIN t.rows
  PROVE  /\ t.rows[k].to \in Sprints /\ OrderOf(t, k) \in Nat /\ k \in Keys
         /\ LET m == t.rows[k].to \o <<OrderOf(t, k)>> \o k
            IN  /\ m \in Seq(Nat) /\ Len(m) = 6
                /\ m[1] = t.rows[k].to[1] /\ m[2] = t.rows[k].to[2] /\ m[3] = OrderOf(t, k)
                /\ m[4] = k[1] /\ m[5] = k[2] /\ m[6] = k[3]
<1> DEFINE to == t.rows[k].to
           order == OrderOf(t, k)
<1>1. to \in Sprints /\ order \in Nat /\ k \in Keys
  <2>1. t.rows \in [DOMAIN t.rows -> [to : Sprints, order : Orders \cup {NoOrder}]]
    BY DEF Agreed
  <2>2. \A w \in Stories : Start[w] \in Keys
    BY ReorgAssumption DEF Stories
  <2>3. \E w \in Stories : k = Start[w]
    BY DEF Agreed
  <2> QED
    BY <2>1, <2>2, <2>3, ReorgAssumption DEF OrderOf
<1>2. /\ to \in Seq(Nat) /\ Len(to) = 2
      /\ k \in Seq(Nat) /\ Len(k) = 3
  <2>1. to = <<to[1], to[2]>> /\ to[1] \in Nat /\ to[2] \in Nat
    BY <1>1, SprintShape
  <2>2. k = <<k[1], k[2], k[3]>> /\ k[1] \in Nat /\ k[2] \in Nat /\ k[3] \in Nat
    BY <1>1, KeyShape
  <2>3. \A a, b, c \in Nat : <<a, b>> \in Seq(Nat) /\ Len(<<a, b>>) = 2
                           /\ <<a, b, c>> \in Seq(Nat) /\ Len(<<a, b, c>>) = 3
    OBVIOUS
  <2> HIDE DEF to
  <2> QED
    BY <2>1, <2>2, <2>3
<1> HIDE DEF to, order
<1> DEFINE m == to \o <<order>> \o k
<1>4. /\ m \in Seq(Nat) /\ Len(m) = 6
      /\ m[1] = to[1] /\ m[2] = to[2] /\ m[3] = order
      /\ m[4] = k[1] /\ m[5] = k[2] /\ m[6] = k[3]
  <2>1. <<order>> \in Seq(Nat) /\ Len(<<order>>) = 1 /\ <<order>>[1] = order
    BY <1>1
  <2> QED
    BY <1>2, <2>1, Joined, ZenonT(60)
<1> QED
  BY <1>1, <1>4 DEF to, order

MoveOrder(t) ==
  {pair \in (DOMAIN t.rows) \X (DOMAIN t.rows) : MoveBefore(t, pair[1], pair[2])}

LEMMA MovesAreOrdered ==
  ASSUME NEW t, Agreed(t)
  PROVE  Orders2(DOMAIN t.rows, MoveOrder(t))
<1> DEFINE M(k) == t.rows[k].to \o <<OrderOf(t, k)>> \o k
           D == DOMAIN t.rows
           S == {M(k) : k \in D}
           R == {pair \in S \X S : TupleBefore(pair[1], pair[2])}
<1>1. Orders2(S, R)
  <2>1. S \subseteq {s \in Seq(Nat) : Len(s) = 6}
    <3>1. \A k \in D : M(k) \in Seq(Nat) /\ Len(M(k)) = 6
      BY MoveTuple
    <3> HIDE DEF M
    <3> QED
      BY <3>1
  <2> HIDE DEF S
  <2> QED
    BY <2>1, TuplesAreOrdered
<1>2. ASSUME NEW k \in D, NEW l \in D
      PROVE  <<k, l>> \in MoveOrder(t) <=> <<M(k), M(l)>> \in R
  BY DEF MoveOrder, MoveBefore
<1>3. ASSUME NEW k \in D, NEW l \in D, M(k) = M(l)
      PROVE  k = l
  <2>1. /\ M(k)[4] = k[1] /\ M(k)[5] = k[2] /\ M(k)[6] = k[3]
        /\ M(l)[4] = l[1] /\ M(l)[5] = l[2] /\ M(l)[6] = l[3]
        /\ k \in Keys /\ l \in Keys
    BY MoveTuple
  <2> HIDE DEF M
  <2>2. k[1] = l[1] /\ k[2] = l[2] /\ k[3] = l[3]
    BY <1>3, <2>1
  <2> QED
    BY <2>1, <2>2, KeyShape
<1>4. \A k \in D : M(k) \in S
  OBVIOUS
<1> HIDE DEF M, S, R
<1> QED
  BY <1>1, <1>2, <1>3, <1>4 DEF Orders2

LEMMA SubsetIsOrdered ==
  ASSUME NEW S, NEW R, Orders2(S, R), NEW T \in SUBSET S
  PROVE  Orders2(T, R)
BY DEF Orders2

\* The plan as it is when a target is proposed.
AtTheStart ==
  /\ at = Start /\ folder = [e \in Epics |-> "planned"]
  /\ sprints = {SprintOf(Start[w]) : w \in Stories}

LEMMA StartFacts ==
  ASSUME AtTheStart
  PROVE  /\ \A w \in Works : IsPlanned(w) <=> w \in Stories
         /\ PlannedKeys = {Start[w] : w \in Stories}
         /\ PlannedSprints = sprints
         /\ sprints \subseteq Sprints
         /\ \A w \in Stories : Start[w] \in Keys
         /\ Keyed
<1>1. \A w \in Stories : Start[w] \in Keys /\ w \in Works
  BY ReorgAssumption DEF Stories
<1>2. \A w \in Works : IsPlanned(w) <=> w \in Stories
  BY <1>1, KeyShape DEF AtTheStart, IsPlanned, Stories
<1>3. PlannedKeys = {Start[w] : w \in Stories}
  BY <1>1, <1>2 DEF PlannedKeys, AtTheStart
<1>4. sprints \subseteq Sprints /\ PlannedSprints = sprints
  BY <1>1, KeyShape, SprintShape DEF PlannedSprints, AtTheStart
<1>5. Keyed
  BY ReorgAssumption DEF Keyed, AtTheStart
<1> QED
  BY <1>1, <1>2, <1>3, <1>4, <1>5

LEMMA MovedKeys ==
  ASSUME AtTheStart, NEW t, Agreed(t)
  PROVE  /\ Moved(t) \subseteq DOMAIN t.rows /\ IsFiniteSet(Moved(t))
         /\ \A w \in Stories : Moves(t, w) <=> Start[w] \in Moved(t)
         /\ \A key \in Moved(t) : \E w \in Stories : Moves(t, w) /\ key = Start[w]
<1>1. Moved(t) \subseteq DOMAIN t.rows /\ DOMAIN t.rows \subseteq Keys
  BY MoveTuple DEF Moved
<1>2. IsFiniteSet(Moved(t))
  BY <1>1, FinitelyMany, FS_Subset
<1>3. \A w \in Stories : Moves(t, w) <=> Start[w] \in Moved(t)
  BY StartFacts DEF Moves, Moved, Dest
<1>4. \A key \in Moved(t) : \E w \in Stories : key = Start[w]
  BY <1>1 DEF Agreed
<1> QED
  BY <1>1, <1>2, <1>3, <1>4

\* The three parts of the list.
LEMMA CreatesList ==
  ASSUME AtTheStart, NEW t, Agreed(t)
  PROVE  /\ Creates(t) \in Seq(Operations)
         /\ \A i \in 1..Len(Creates(t)) :
              Creates(t)[i].op = "create-sprint" /\ IsProper(Creates(t)[i])
         /\ \A key \in Moved(t) : t.rows[key].to \in sprints
              \/ \E i \in 1..Len(Creates(t)) : Creates(t)[i].to = t.rows[key].to
<1> DEFINE S == {t.rows[key].to : key \in Moved(t)} \ PlannedSprints
           R == {pair \in S \X S : TupleBefore(pair[1], pair[2])}
           n == Cardinality(S)
<1>1. S \subseteq Sprints /\ IsFiniteSet(S)
  <2>1. S \subseteq Sprints
    <3>1. Moved(t) \subseteq DOMAIN t.rows
      BY MovedKeys
    <3>2. \A key \in DOMAIN t.rows : t.rows[key].to \in Sprints
      BY MoveTuple
    <3> QED
      BY <3>1, <3>2
  <2> HIDE DEF S
  <2> QED
    BY <2>1, ReorgAssumption, FS_Subset
<1>2. Orders2(S, R)
  <2>1. S \subseteq {s \in Seq(Nat) : Len(s) = 2}
    <3>1. \A s \in Sprints : s = <<s[1], s[2]>> /\ s[1] \in Nat /\ s[2] \in Nat
      BY SprintShape
    <3>2. \A a, b \in Nat : <<a, b>> \in {s \in Seq(Nat) : Len(s) = 2}
      OBVIOUS
    <3> HIDE DEF S
    <3>3. ASSUME NEW s \in S PROVE s \in {u \in Seq(Nat) : Len(u) = 2}
      <4>1. s = <<s[1], s[2]>> /\ s[1] \in Nat /\ s[2] \in Nat
        BY <1>1, <3>1
      <4>2. <<s[1], s[2]>> \in {u \in Seq(Nat) : Len(u) = 2}
        BY <3>2, <4>1
      <4> QED
        BY <4>1, <4>2
    <3> QED
      BY <3>3
  <2> HIDE DEF S
  <2> QED
    BY <2>1, TuplesAreOrdered
<1>3. n \in Nat
  BY <1>1, FS_CardinalityType
<1> DEFINE new == InOrder({t.rows[key].to : key \in Moved(t)} \ PlannedSprints, TupleBefore)
<1>4. new \in [1..n -> S] /\ \A i, j \in 1..n : i < j => TupleBefore(new[i], new[j])
  <2>1. \E seq \in [1..n -> S] : \A i, j \in 1..n : i < j => <<seq[i], seq[j]>> \in R
    <3> HIDE DEF S, R
    <3> QED
      BY <1>1, <1>2, HasOrder
  <2>2. \E seq \in [1..n -> S] : \A i, j \in 1..n : i < j => TupleBefore(seq[i], seq[j])
    <3> HIDE DEF S
    <3> QED
      BY <2>1
  <2> QED
    BY <2>2 DEF InOrder
<1>5. Creates(t) = [i \in 1..Len(new) |-> Op("create-sprint", Unborn, new[i], new[i][1])]
  BY DEF Creates
<1> HIDE DEF new
<1>6. \A x \in S : \E i \in 1..n : new[i] = x
  <2>1. \A i, j \in 1..n : i < j => <<new[i], new[j]>> \in R
    BY <1>4
  <2> HIDE DEF S, R
  <2> QED
    BY <1>1, <1>2, <1>4, <2>1, OrderIsComplete
<1>7. Len(new) = n
  BY <1>3, <1>4, FunctionLen
<1>8. \A i \in 1..n : new[i] \in Sprints /\ new[i][1] \in Epics
  BY <1>1, <1>4, SprintShape
<1>9. Creates(t) \in [1..n -> Operations]
  BY <1>5, <1>7, <1>8 DEF Op, Operations
<1>10. Creates(t) \in Seq(Operations) /\ Len(Creates(t)) = n
  BY <1>3, <1>9, FunctionLen
<1>11. \A i \in 1..n : /\ Creates(t)[i].op = "create-sprint" /\ IsProper(Creates(t)[i])
                       /\ Creates(t)[i].to = new[i]
  BY <1>5, <1>7, <1>8 DEF Op, IsProper
<1>12. ASSUME NEW key \in Moved(t)
       PROVE  t.rows[key].to \in sprints \/ \E i \in 1..n : Creates(t)[i].to = t.rows[key].to
  <2>1. t.rows[key].to \in S \/ t.rows[key].to \in sprints
    BY StartFacts
  <2> QED
    BY <1>6, <1>11, <2>1
<1> QED
  BY <1>10, <1>11, <1>12

LEMMA ReparentsList ==
  ASSUME AtTheStart, NEW t, Agreed(t)
  PROVE  /\ Reparents(t) \in Seq(Operations)
         /\ \A i \in 1..Len(Reparents(t)) :
              /\ Reparents(t)[i].op = "reparent-story" /\ Reparents(t)[i].key \in Moved(t)
              /\ Reparents(t)[i].to = t.rows[Reparents(t)[i].key].to
         /\ \A i, j \in 1..Len(Reparents(t)) :
              i < j => MoveBefore(t, Reparents(t)[i].key, Reparents(t)[j].key)
         /\ \A key \in Moved(t) : \E i \in 1..Len(Reparents(t)) : Reparents(t)[i].key = key
<1> DEFINE S == Moved(t)
           R == MoveOrder(t)
           n == Cardinality(S)
<1>1. IsFiniteSet(S) /\ S \subseteq DOMAIN t.rows
  BY MovedKeys
<1>2. Orders2(S, R)
  BY <1>1, MovesAreOrdered, SubsetIsOrdered
<1>3. n \in Nat
  BY <1>1, FS_CardinalityType
<1> DEFINE keys == InOrder(Moved(t), LAMBDA k, l : MoveBefore(t, k, l))
<1>4. keys \in [1..n -> S] /\ \A i, j \in 1..n : i < j => MoveBefore(t, keys[i], keys[j])
  <2>1. \E seq \in [1..n -> S] : \A i, j \in 1..n : i < j => <<seq[i], seq[j]>> \in R
    <3> HIDE DEF S
    <3> QED
      BY <1>1, <1>2, HasOrder
  <2>2. \E seq \in [1..n -> S] : \A i, j \in 1..n : i < j => MoveBefore(t, seq[i], seq[j])
    BY <2>1 DEF MoveOrder
  <2> QED
    BY <2>2 DEF InOrder
<1>5. Reparents(t) = [i \in 1..Len(keys) |-> Op("reparent-story", keys[i], t.rows[keys[i]].to, 0)]
  BY DEF Reparents
<1> HIDE DEF keys
<1>6. \A x \in S : \E i \in 1..n : keys[i] = x
  <2>1. \A i, j \in 1..n : i < j => <<keys[i], keys[j]>> \in R
    BY <1>1, <1>4 DEF MoveOrder
  <2> HIDE DEF S, R
  <2> QED
    BY <1>1, <1>2, <1>4, <2>1, OrderIsComplete
<1>7. Len(keys) = n
  BY <1>3, <1>4, FunctionLen
<1>8. \A i \in 1..n : keys[i] \in Keys /\ keys[i] \in S /\ t.rows[keys[i]].to \in Sprints
  BY <1>1, <1>4, MoveTuple
<1>9. Reparents(t) \in [1..n -> Operations]
  BY <1>5, <1>7, <1>8 DEF Op, Operations
<1>10. Reparents(t) \in Seq(Operations) /\ Len(Reparents(t)) = n
  BY <1>3, <1>9, FunctionLen
<1>11. \A i \in 1..n : /\ Reparents(t)[i].op = "reparent-story" /\ Reparents(t)[i].key = keys[i]
                       /\ Reparents(t)[i].to = t.rows[keys[i]].to
  BY <1>5, <1>7 DEF Op
<1> QED
  BY <1>4, <1>6, <1>8, <1>10, <1>11

LEMMA RetiresList ==
  ASSUME NEW t, Agreed(t)
  PROVE  /\ Retires(t) \in Seq(Operations)
         /\ \A i \in 1..Len(Retires(t)) :
              /\ Retires(t)[i].op = "retire-epic" /\ Retires(t)[i].epic \in t.retire
              /\ IsProper(Retires(t)[i])
         /\ \A e \in t.retire : \E i \in 1..Len(Retires(t)) : Retires(t)[i].epic = e
<1> DEFINE S == t.retire
           R == {pair \in S \X S : pair[1] < pair[2]}
           n == Cardinality(S)
<1>1. IsFiniteSet(S) /\ S \subseteq Epics
  BY FinitelyMany, FS_Subset DEF Agreed
<1>2. Orders2(S, R)
  <2>1. S \subseteq Nat
    BY <1>1, SprintShape
  <2> HIDE DEF S
  <2> QED
    BY <2>1 DEF Orders2
<1>3. n \in Nat
  BY <1>1, FS_CardinalityType
<1> DEFINE epics == InOrder(t.retire, <)
<1>4. epics \in [1..n -> S] /\ \A i, j \in 1..n : i < j => epics[i] < epics[j]
  <2>1. \E seq \in [1..n -> S] : \A i, j \in 1..n : i < j => <<seq[i], seq[j]>> \in R
    <3> HIDE DEF S, R
    <3> QED
      BY <1>1, <1>2, HasOrder
  <2>2. \E seq \in [1..n -> S] : \A i, j \in 1..n : i < j => seq[i] < seq[j]
    BY <2>1
  <2> QED
    BY <2>2 DEF InOrder
<1>5. Retires(t) = [i \in 1..Len(epics) |-> Op("retire-epic", Unborn, NoSprint, epics[i])]
  BY DEF Retires
<1> HIDE DEF epics
<1>6. \A x \in S : \E i \in 1..n : epics[i] = x
  <2>1. \A i, j \in 1..n : i < j => <<epics[i], epics[j]>> \in R
    BY <1>4
  <2> HIDE DEF S, R
  <2> QED
    BY <1>1, <1>2, <1>4, <2>1, OrderIsComplete
<1>7. Len(epics) = n
  BY <1>3, <1>4, FunctionLen
<1>8. \A i \in 1..n : epics[i] \in Epics /\ epics[i] \in S
  BY <1>1, <1>4
<1>9. Retires(t) \in [1..n -> Operations]
  BY <1>5, <1>7, <1>8 DEF Op, Operations
<1>10. Retires(t) \in Seq(Operations) /\ Len(Retires(t)) = n
  BY <1>3, <1>9, FunctionLen
<1>11. \A i \in 1..n : /\ Retires(t)[i].op = "retire-epic" /\ Retires(t)[i].epic = epics[i]
                       /\ IsProper(Retires(t)[i])
  BY <1>5, <1>7, <1>8 DEF Op, IsProper
<1> QED
  BY <1>6, <1>8, <1>10, <1>11

\* The list: c creations, then r moves, then x retirements.
ThreeParts(t, seq, c, r, x) ==
  /\ Len(seq) = c + r + x
  /\ \A i \in 1..c : seq[i].op = "create-sprint" /\ IsProper(seq[i])
  /\ \A i \in 1..r :
       /\ seq[c + i].op = "reparent-story" /\ seq[c + i].key \in Moved(t)
       /\ seq[c + i].to = t.rows[seq[c + i].key].to
  /\ \A i \in 1..x :
       /\ seq[c + r + i].op = "retire-epic" /\ seq[c + r + i].epic \in t.retire
       /\ IsProper(seq[c + r + i])
  /\ \A i, j \in 1..r : i < j => MoveBefore(t, seq[c + i].key, seq[c + j].key)
  /\ \A key \in Moved(t) : \E i \in 1..r : seq[c + i].key = key
  /\ \A e \in t.retire : \E i \in 1..x : seq[c + r + i].epic = e
  /\ \A key \in Moved(t) : t.rows[key].to \in sprints
       \/ \E i \in 1..c : seq[i].to = t.rows[key].to

LEMMA DerivedShape ==
  ASSUME AtTheStart, NEW t, Agreed(t)
  PROVE  /\ Derived(t) \in Seq(Operations)
         /\ \E c, r, x \in Nat : ThreeParts(t, Derived(t), c, r, x)
<1>1. PICK C \in Seq(Operations) : C = Creates(t)
  BY CreatesList
<1>2. PICK R \in Seq(Operations) : R = Reparents(t)
  BY ReparentsList
<1>3. PICK X \in Seq(Operations) : X = Retires(t)
  BY RetiresList
<1>4. PICK CR \in Seq(Operations) : CR = C \o R
  BY ConcatParts
<1>5. PICK D \in Seq(Operations) : D = CR \o X
  BY ConcatParts
<1>6. Derived(t) = D
  BY <1>1, <1>2, <1>3, <1>4, <1>5 DEF Derived
<1>7. PICK c, r, x \in Nat : c = Len(C) /\ r = Len(R) /\ x = Len(X)
  OBVIOUS
<1>8. Len(CR) = c + r /\ (\A i \in 1..c : CR[i] = C[i]) /\ \A i \in 1..r : CR[c + i] = R[i]
  <2>1. /\ Len(CR) = Len(C) + Len(R)
        /\ \A i \in 1..Len(C) : CR[i] = C[i]
        /\ \A i \in 1..Len(R) : CR[Len(C) + i] = R[i]
    BY <1>4, ConcatParts
  <2> QED
    BY <1>7, <2>1
<1>9. /\ Len(D) = c + r + x /\ \A i \in 1..(c + r) : D[i] = CR[i]
      /\ \A i \in 1..x : D[c + r + i] = X[i]
  <2>1. /\ Len(D) = Len(CR) + Len(X)
        /\ \A i \in 1..Len(CR) : D[i] = CR[i]
        /\ \A i \in 1..Len(X) : D[Len(CR) + i] = X[i]
    BY <1>5, ConcatParts
  <2> QED
    BY <1>7, <1>8, <2>1
<1>10. /\ \A i \in 1..c : D[i] = C[i]
       /\ \A i \in 1..r : D[c + i] = R[i]
  <2>1. \A i \in 1..c : i \in 1..(c + r)
    OBVIOUS
  <2>2. \A i \in 1..r : c + i \in 1..(c + r)
    OBVIOUS
  <2> QED
    BY <1>8, <1>9, <2>1, <2>2
<1>11. /\ \A i \in 1..c : C[i].op = "create-sprint" /\ IsProper(C[i])
       /\ \A key \in Moved(t) : t.rows[key].to \in sprints
            \/ \E i \in 1..c : C[i].to = t.rows[key].to
  BY <1>1, <1>7, CreatesList
<1>12. /\ \A i \in 1..r : /\ R[i].op = "reparent-story" /\ R[i].key \in Moved(t)
                          /\ R[i].to = t.rows[R[i].key].to
       /\ \A i, j \in 1..r : i < j => MoveBefore(t, R[i].key, R[j].key)
       /\ \A key \in Moved(t) : \E i \in 1..r : R[i].key = key
  BY <1>2, <1>7, ReparentsList
<1>13. /\ \A i \in 1..x : /\ X[i].op = "retire-epic" /\ X[i].epic \in t.retire
                          /\ IsProper(X[i])
       /\ \A e \in t.retire : \E i \in 1..x : X[i].epic = e
  BY <1>3, <1>7, RetiresList
<1>14. \A i \in 1..c : D[i].op = "create-sprint" /\ IsProper(D[i])
  BY <1>10, <1>11
<1>15. ASSUME NEW i \in 1..r
       PROVE  /\ D[c + i].op = "reparent-story" /\ D[c + i].key \in Moved(t)
              /\ D[c + i].to = t.rows[D[c + i].key].to
  <2>1. D[c + i] = R[i]
    BY <1>10
  <2> QED
    BY <1>12, <2>1
<1>16. ASSUME NEW i \in 1..x
       PROVE  /\ D[c + r + i].op = "retire-epic" /\ D[c + r + i].epic \in t.retire
              /\ IsProper(D[c + r + i])
  BY <1>9, <1>13
<1>17. ASSUME NEW i \in 1..r, NEW j \in 1..r, i < j
       PROVE  MoveBefore(t, D[c + i].key, D[c + j].key)
  <2>1. D[c + i] = R[i] /\ D[c + j] = R[j]
    BY <1>10
  <2> QED
    BY <1>12, <1>17, <2>1
<1>18. ASSUME NEW key \in Moved(t)
       PROVE  \E i \in 1..r : D[c + i].key = key
  <2>1. PICK i \in 1..r : R[i].key = key
    BY <1>12
  <2>2. D[c + i].key = key
    BY <1>10, <2>1
  <2> QED
    BY <2>2
<1>19. ASSUME NEW e \in t.retire
       PROVE  \E i \in 1..x : D[c + r + i].epic = e
  <2>1. PICK i \in 1..x : X[i].epic = e
    BY <1>13
  <2>2. D[c + r + i].epic = e
    BY <1>9, <2>1
  <2> QED
    BY <2>2
<1>20. \A key \in Moved(t) : t.rows[key].to \in sprints
         \/ \E i \in 1..c : D[i].to = t.rows[key].to
  BY <1>10, <1>11
<1>21. ThreeParts(t, D, c, r, x)
  BY <1>9, <1>14, <1>15, <1>16, <1>17, <1>18, <1>19, <1>20 DEF ThreeParts
<1> QED
  BY <1>6, <1>21

LEMMA DerivedIsPending ==
  ASSUME AtTheStart, NEW t, Agreed(t)
  PROVE  AreProper(Derived(t)) /\ Pending(t, Derived(t))
<1>1. PICK D \in Seq(Operations) : D = Derived(t)
  BY DerivedShape
<1>0. PICK c, r, x \in Nat : ThreeParts(t, D, c, r, x)
  BY <1>1, DerivedShape
<1>2. /\ Len(D) = c + r + x
      /\ \A i \in 1..c : D[i].op = "create-sprint" /\ IsProper(D[i])
      /\ \A i \in 1..r :
           /\ D[c + i].op = "reparent-story" /\ D[c + i].key \in Moved(t)
           /\ D[c + i].to = t.rows[D[c + i].key].to
      /\ \A i \in 1..x :
           /\ D[c + r + i].op = "retire-epic" /\ D[c + r + i].epic \in t.retire
           /\ IsProper(D[c + r + i])
      /\ \A i, j \in 1..r : i < j => MoveBefore(t, D[c + i].key, D[c + j].key)
      /\ \A key \in Moved(t) : \E i \in 1..r : D[c + i].key = key
      /\ \A e \in t.retire : \E i \in 1..x : D[c + r + i].epic = e
      /\ \A key \in Moved(t) : t.rows[key].to \in sprints
           \/ \E i \in 1..c : D[i].to = t.rows[key].to
  BY <1>0 DEF ThreeParts
<1>3. ASSUME NEW i \in 1..Len(D)
      PROVE  /\ i \in 1..c \/ i - c \in 1..r \/ i - c - r \in 1..x
             /\ i = c + (i - c) /\ i = c + r + (i - c - r) /\ i \in Nat
  BY <1>2, <1>3
<1>4. ASSUME NEW i \in 1..Len(D)
      PROVE  \/ i <= c /\ D[i].op = "create-sprint" /\ IsProper(D[i])
             \/ /\ c < i /\ i <= c + r
                /\ D[i].op = "reparent-story" /\ D[i].key \in Moved(t)
                /\ D[i].to = t.rows[D[i].key].to
             \/ /\ c + r < i
                /\ D[i].op = "retire-epic" /\ D[i].epic \in t.retire /\ IsProper(D[i])
  <2>1. CASE i \in 1..c
    BY <1>2, <2>1
  <2>2. CASE i - c \in 1..r
    <3>1. PICK k \in 1..r : k = i - c
      BY <2>2
    <3>2. i = c + k /\ c < i /\ i <= c + r
      BY <1>3, <3>1
    <3> QED
      BY <1>2, <3>2
  <2>3. CASE i - c - r \in 1..x
    <3>1. PICK k \in 1..x : k = i - c - r
      BY <2>3
    <3>2. i = c + r + k /\ c + r < i
      BY <1>3, <3>1
    <3> QED
      BY <1>2, <3>2
  <2> QED
    BY <1>3, <2>1, <2>2, <2>3
<1>5. AreProper(D)
  BY <1>4 DEF AreProper, IsProper
<1>6. InTurn(t, D)
  <2>1. ASSUME NEW i \in 1..Len(D), NEW j \in 1..Len(D), i < j
        PROVE  Rank(D[i]) <= Rank(D[j])
    <3>1. i \in Nat /\ j \in Nat
      BY <1>3
    <3> QED
      BY <1>4, <2>1, <3>1 DEF Rank
  <2>2. ASSUME NEW i \in 1..Len(D), NEW j \in 1..Len(D), i < j,
               D[i].op = "reparent-story", D[j].op = "reparent-story"
        PROVE  MoveBefore(t, D[i].key, D[j].key)
    <3>1. c < i /\ i <= c + r /\ c < j /\ j <= c + r /\ i \in Nat /\ j \in Nat
      BY <1>3, <1>4, <2>2
    <3>2. PICK k \in 1..r, l \in 1..r : i = c + k /\ j = c + l
      <4>1. i - c \in 1..r /\ j - c \in 1..r /\ i = c + (i - c) /\ j = c + (j - c)
        BY <3>1
      <4> QED
        BY <4>1
    <3>3. k < l
      BY <2>2, <3>2
    <3> QED
      BY <1>2, <3>2, <3>3
  <2> QED
    BY <2>1, <2>2 DEF InTurn
<1>7. ASSUME NEW key \in Moved(t)
      PROVE  \E i \in 1..Len(D) : D[i].op = "reparent-story" /\ D[i].key = key
  <2>1. PICK i \in 1..r : D[c + i].key = key
    BY <1>2
  <2>2. c + i \in 1..Len(D)
    <3>1. Len(D) = c + r + x
      BY <1>2
    <3> QED
      BY <3>1
  <2>3. D[c + i].op = "reparent-story"
    BY <1>2
  <2> QED
    BY <2>1, <2>2, <2>3
<1>8. ASSUME NEW e \in t.retire
      PROVE  \E i \in 1..Len(D) : D[i].op = "retire-epic" /\ D[i].epic = e
  <2>1. PICK i \in 1..x : D[c + r + i].epic = e
    BY <1>2
  <2>2. c + r + i \in 1..Len(D)
    <3>1. Len(D) = c + r + x
      BY <1>2
    <3> QED
      BY <3>1
  <2>3. D[c + r + i].op = "retire-epic"
    BY <1>2
  <2> QED
    BY <2>1, <2>2, <2>3
<1>9. NothingMissing(t, D)
  <2>1. \A w \in Works : Moves(t, w) => Start[w] \in Moved(t)
    BY MovedKeys DEF Moves
  <2> QED
    BY <1>7, <1>8, <2>1 DEF NothingMissing
<1>10. MayRun(t, D)
  <2>1. \A e \in Epics : folder[e] = "planned"
    BY DEF AtTheStart
  <2>2. ASSUME NEW i \in 1..Len(D), D[i].op = "reparent-story"
        PROVE  /\ \E w \in Works : Moves(t, w) /\ at[w] = Start[w] /\ D[i].key = Start[w]
                                   /\ D[i].to = Dest(t, w)
               /\ \/ D[i].to \in sprints
                  \/ \E j \in 1..(i - 1) : D[j].op = "create-sprint" /\ D[j].to = D[i].to
    <3>1. c < i /\ D[i].key \in Moved(t) /\ D[i].to = t.rows[D[i].key].to /\ i \in Nat
      BY <1>3, <1>4, <2>2
    <3>2. PICK w \in Stories : Moves(t, w) /\ D[i].key = Start[w]
      BY <3>1, MovedKeys
    <3>3. w \in Works /\ at[w] = Start[w] /\ D[i].to = Dest(t, w)
      BY <3>1, <3>2 DEF Stories, Dest, AtTheStart
    <3>4. ASSUME D[i].to \notin sprints
          PROVE  \E j \in 1..(i - 1) : D[j].op = "create-sprint" /\ D[j].to = D[i].to
      <4>1. PICK j \in 1..c : D[j].to = t.rows[D[i].key].to
        BY <1>2, <3>1, <3>4
      <4>2. j \in 1..(i - 1) /\ D[j].op = "create-sprint"
        BY <1>2, <3>1
      <4> QED
        BY <3>1, <4>1, <4>2
    <3> QED
      BY <3>2, <3>3, <3>4
  <2>3. \A i \in 1..Len(D) : D[i].op = "retire-epic" => D[i].epic \in t.retire
    BY <1>4
  <2> QED
    BY <2>1, <2>2, <2>3 DEF MayRun
<1> QED
  BY <1>1, <1>5, <1>6, <1>9, <1>10 DEF Pending

\* What the validator accepts at the start is an agreed target.
LEMMA AcceptedIsAgreed ==
  ASSUME AtTheStart, NEW dom \in SUBSET PlannedKeys, NEW retire \in SUBSET Epics,
         NEW rows \in [dom -> [to : Sprints, order : Orders \cup {NoOrder}]],
         NEW t, t = [rows |-> rows, retire |-> retire], Accepts(t)
  PROVE  Agreed(t)
<1>1. /\ t.rows = rows /\ t.retire = retire /\ DOMAIN t.rows = dom
      /\ DOMAIN t.rows \subseteq {Start[w] : w \in Stories}
      /\ t.rows \in [DOMAIN t.rows -> [to : Sprints, order : Orders \cup {NoOrder}]]
  BY StartFacts
<1>2. ASSUME NEW w \in Stories
      PROVE  Start[w] \in Gone(t) <=> Start[w][1] \in t.retire
  BY <1>2, StartFacts DEF Gone, AtTheStart, Stories
<1>3. \A w \in Stories : Start[w] \in DOMAIN t.rows <=> Start[w][1] \notin t.retire
  BY <1>2, StartFacts DEF Accepts, IsTotal
<1>4. \A key \in DOMAIN t.rows : t.rows[key].to[1] \notin t.retire
  BY DEF Accepts, DestinationsStand
<1>5. ASSUME NEW w \in Stories, NEW v \in Needs[w], Start[w] \in DOMAIN t.rows
      PROVE  /\ Start[v] \in DOMAIN t.rows
             /\ Dest(t, v)[1] = Dest(t, w)[1] =>
                  /\ Dest(t, v)[2] <= Dest(t, w)[2]
                  /\ Dest(t, v) = Dest(t, w) /\ IsRanked(t, v) /\ IsRanked(t, w) =>
                       OrderOf(t, Start[v]) < OrderOf(t, Start[w])
  <2>1. w \in Works /\ v \in Works /\ v \in Stories /\ at = Start /\ IsPlanned(w)
    BY <1>5, ReorgAssumption, StartFacts DEF Stories, AtTheStart
  <2>2. Start[v] \notin Gone(t)
    BY <1>2, <1>3, <1>5, <2>1 DEF Accepts, NothingLeftHanging
  <2>3. Start[v] \in DOMAIN t.rows
    BY <1>2, <1>3, <2>1, <2>2
  <2> QED
    BY <1>5, <2>1, <2>3 DEF Accepts, IsOrdered, Dest, IsRanked, OrderOf
<1> QED
  BY <1>1, <1>3, <1>4, <1>5 DEF Agreed

-----------------------------------------------------------------------------
(* Types.                                                                   *)

LEMMA ReorgAtFirst == ReorgInit => ReorgTyped /\ ReorgAtStart
<1> SUFFICES ASSUME ReorgInit PROVE ReorgTyped /\ ReorgAtStart
  OBVIOUS
<1>1. at = Start /\ at \in [Works -> Keys \cup {Unborn}]
      /\ \A v, w \in Works : at[v] = at[w] /\ at[v] # Unborn => v = w
  BY ReorgAssumption DEF ReorgInit
<1>2. sprints = {SprintOf(Start[w]) : w \in Stories} /\ sprints \subseteq Sprints
  BY ReorgAssumption, KeyShape DEF ReorgInit, Stories
<1>3. next \in [Sprints -> 0..(MaxNum + 1)]
  BY ReorgAssumption DEF ReorgInit
<1>4. AreProper(<<>>)
  BY DEF AreProper
<1> QED
  BY <1>1, <1>2, <1>3, <1>4 DEF ReorgInit, ReorgTyped, ReorgTypeOK, ReorgAtStart, EpicFolders,
                                Stages

\* The list without its head.
LEMMA TailOfProper ==
  ASSUME NEW seq, AreProper(seq), seq # <<>>
  PROVE  /\ Head(seq) = seq[1] /\ 1 \in 1..Len(seq) /\ Head(seq) \in Operations
         /\ IsProper(Head(seq)) /\ AreProper(Tail(seq))
         /\ Len(Tail(seq)) = Len(seq) - 1
         /\ \A i \in 1..Len(Tail(seq)) :
              i + 1 \in 1..Len(seq) /\ Tail(seq)[i] = seq[i + 1]
         /\ \A i \in 1..Len(seq) :
              i = 1 \/ (i - 1 \in 1..Len(Tail(seq)) /\ Tail(seq)[i - 1] = seq[i])
<1>1. seq \in Seq(Operations) /\ Len(seq) \in Nat \ {0}
  BY EmptySeq DEF AreProper
<1>2. /\ Tail(seq) \in Seq(Operations) /\ Len(Tail(seq)) = Len(seq) - 1
      /\ \A i \in 1..Len(Tail(seq)) : Tail(seq)[i] = seq[i + 1]
  BY <1>1, HeadTailProperties
<1>3. Head(seq) = seq[1] /\ 1 \in 1..Len(seq) /\ seq[1] \in Operations
  BY <1>1
<1>4. \A i \in 1..Len(Tail(seq)) : i + 1 \in 1..Len(seq)
  BY <1>1, <1>2
<1>5. ASSUME NEW i \in 1..Len(seq), i # 1
      PROVE  i - 1 \in 1..Len(Tail(seq)) /\ Tail(seq)[i - 1] = seq[i]
  <2>1. i - 1 \in 1..Len(Tail(seq)) /\ (i - 1) + 1 = i
    BY <1>1, <1>2, <1>5
  <2> QED
    BY <1>2, <2>1
<1> QED
  BY <1>2, <1>3, <1>4, <1>5 DEF AreProper

LEMMA AppendIsProper ==
  ASSUME NEW seq, AreProper(seq), NEW o \in Operations, IsProper(o)
  PROVE  /\ AreProper(Append(seq, o)) /\ Len(Append(seq, o)) = Len(seq) + 1
         /\ Len(seq) + 1 \in 1..(Len(seq) + 1) /\ Append(seq, o)[Len(seq) + 1] = o
         /\ \A i \in 1..Len(seq) : Append(seq, o)[i] = seq[i] /\ i \in 1..(Len(seq) + 1)
         /\ \A i \in 1..(Len(seq) + 1) : i \in 1..Len(seq) \/ i = Len(seq) + 1
<1>1. seq \in Seq(Operations) /\ Len(seq) \in Nat
  BY DEF AreProper
<1>2. /\ Append(seq, o) \in Seq(Operations) /\ Len(Append(seq, o)) = Len(seq) + 1
      /\ \A i \in 1..Len(seq) : Append(seq, o)[i] = seq[i]
      /\ Append(seq, o)[Len(seq) + 1] = o
  BY <1>1, AppendProperties
<1>3. \A i \in 1..(Len(seq) + 1) : i \in 1..Len(seq) \/ i = Len(seq) + 1
  BY <1>1
<1> QED
  BY <1>1, <1>2, <1>3 DEF AreProper

LEMMA ReverseIsProper ==
  ASSUME NEW seq, AreProper(seq)
  PROVE  /\ AreProper(Reverse(seq)) /\ Len(Reverse(seq)) = Len(seq)
         /\ \A i \in 1..Len(seq) : /\ Len(seq) - i + 1 \in 1..Len(seq)
                                   /\ Reverse(seq)[i] = seq[Len(seq) - i + 1]
                                   /\ Reverse(seq)[Len(seq) - i + 1] = seq[i]
<1>1. PICK n \in Nat : n = Len(seq)
  BY DEF AreProper
<1>2. \A i \in 1..n : n - i + 1 \in 1..n /\ n - (n - i + 1) + 1 = i
  OBVIOUS
<1>3. Reverse(seq) = [i \in 1..n |-> seq[n - i + 1]]
  BY <1>1 DEF Reverse
<1>4. \A i \in 1..n : seq[i] \in Operations /\ IsProper(seq[i])
  BY <1>1 DEF AreProper
<1>5. Reverse(seq) \in [1..n -> Operations]
  BY <1>2, <1>3, <1>4
<1>6. Reverse(seq) \in Seq(Operations) /\ Len(Reverse(seq)) = n
  BY <1>5, FunctionLen
<1>7. \A i \in 1..n : Reverse(seq)[i] = seq[n - i + 1] /\ Reverse(seq)[n - i + 1] = seq[i]
  BY <1>2, <1>3
<1> QED
  BY <1>1, <1>2, <1>4, <1>6, <1>7 DEF AreProper

\* A command that may run moves the story of some work to a sprint there is.
LEMMA ReparentOf ==
  ASSUME ReorgTypeOK, NEW key, NEW to, key \in PlannedKeys, to \in PlannedSprints
  PROVE  /\ to \in Sprints /\ key \in Keys
         /\ \E w \in Works : at[w] = key /\ at[w] # Unborn /\ IsPlanned(w)
<1>1. PICK w \in Works : at[w] = key /\ IsPlanned(w)
  BY DEF PlannedKeys
<1>2. at[w] # Unborn /\ at[w] \in Keys
  BY <1>1 DEF IsPlanned, ReorgTypeOK
<1> QED
  BY <1>1, <1>2 DEF PlannedSprints, ReorgTypeOK

\* What any command leaves of the types.
PlanTyped ==
  /\ Keyed
  /\ folder \in [Epics -> EpicFolders] /\ reasons \subseteq Epics
  /\ sprints \subseteq Sprints
  /\ next \in [Sprints -> 0..(MaxNum + 1)]

LEMMA CommandTyped ==
  ASSUME ReorgTypeOK, NEW key, NEW to,
         CanReparent(key, to) /\ DoReparent(key, to)
  PROVE  PlanTyped'
<1>1. PICK w \in Works : at[w] = key /\ at[w] # Unborn /\ to \in Sprints
  BY ReparentOf DEF CanReparent
<1> QED
  BY <1>1, ReparentStep DEF PlanTyped, ReorgTypeOK

LEMMA DriftTyped ==
  ASSUME ReorgTypeOK, DriftReparent \/ DriftPromote \/ DriftMove
  PROVE  PlanTyped'
<1>1. CASE DriftReparent
  BY <1>1, CommandTyped DEF DriftReparent, CanReparent
<1>2. CASE DriftPromote
  <2>1. PICK w \in Works, s \in PlannedSprints :
          /\ at[w] = Unborn /\ Allocated(s) <= MaxNum
          /\ at' = [at EXCEPT ![w] = <<s[1], s[2], Allocated(s)>>]
          /\ next' = [next EXCEPT ![s] = Allocated(s) + 1]
    BY <1>2 DEF DriftPromote
  <2>2. s \in Sprints /\ Keyed /\ next \in [Sprints -> 0..(MaxNum + 1)] /\ MaxNum \in Nat
    BY ReorgAssumption DEF PlannedSprints, ReorgTypeOK, Keyed
  <2> DEFINE key == <<s[1], s[2], Allocated(s)>>
  <2>3. key \in Keys /\ (\A v \in Works : at[v] # key) /\ Allocated(s) \in Nat
    BY <2>1, <2>2, HandedOut, AllocatedIsFree
  <2>4. at' = [at EXCEPT ![w] = key]
    BY <2>1
  <2> HIDE DEF key
  <2>5. Keyed'
    BY <2>2, <2>3, <2>4 DEF Keyed
  <2>6. Allocated(s) + 1 \in 0..(MaxNum + 1)
    BY <2>1, <2>2, <2>3
  <2>7. next' \in [Sprints -> 0..(MaxNum + 1)]
    BY <2>1, <2>2, <2>6
  <2> QED
    BY <1>2, <2>5, <2>7 DEF DriftPromote, PlanTyped, ReorgTypeOK
<1>3. CASE DriftMove
  BY <1>3 DEF DriftMove, PlanTyped, ReorgTypeOK, Keyed, EpicFolders
<1> QED
  BY <1>1, <1>2, <1>3

\* The journal's record of an operation is an operation.
LEMMA JournalledIsProper ==
  ASSUME ReorgTypeOK, NEW o \in Operations, IsProper(o),
         o.op = "reparent-story" => CanReparent(o.key, o.to) /\ DoReparent(o.key, o.to)
  PROVE  /\ Journalled(o) \in Operations /\ IsProper(Journalled(o))
         /\ Journalled(o).op = o.op
         /\ o.op # "reparent-story" => Journalled(o) = o
<1>1. CASE o.op = "reparent-story"
  <2>1. PICK w \in Works : /\ at[w] = o.key /\ at[w] # Unborn
                           /\ o.to \in Sprints /\ o.key \in Keys
    BY <1>1, ReparentOf DEF CanReparent
  <2>2. NewKey(o.key, o.to) \in Keys
    BY <1>1, <2>1, ReparentStep
  <2>3. SprintOf(o.key) \in Sprints
    BY <2>1, KeyShape
  <2> QED
    BY <1>1, <2>2, <2>3 DEF Journalled, Operations, IsProper
<1>2. CASE o.op # "reparent-story"
  BY <1>2 DEF Journalled
<1> QED
  BY <1>1, <1>2

LEMMA ApplyTyped ==
  ASSUME ReorgTyped, Apply
  PROVE  ReorgTyped'
<1>0. PICK o : o = Head(ops)
  OBVIOUS
<1>1. /\ ReorgTypeOK /\ AreProper(ops) /\ ops # <<>> /\ AreProper(done)
      /\ done' = Append(done, Journalled(o)) /\ ops' = Tail(ops)
  BY <1>0 DEF Apply, ReorgTyped
<1>2. o \in Operations /\ IsProper(o) /\ AreProper(ops')
  BY <1>0, <1>1, TailOfProper
<1>3. o.op = "reparent-story" => CanReparent(o.key, o.to) /\ DoReparent(o.key, o.to)
  BY <1>0 DEF Apply
<1>4. AreProper(done')
  <2>1. Journalled(o) \in Operations /\ IsProper(Journalled(o))
    BY <1>1, <1>2, <1>3, JournalledIsProper
  <2> QED
    BY <1>1, <2>1, AppendIsProper
<1>5. PlanTyped'
  <2>1. CASE o.op = "reparent-story"
    BY <1>1, <1>3, <2>1, CommandTyped
  <2>2. CASE o.op = "create-sprint"
    <3>1. o.to \in Sprints /\ sprints' = sprints \cup {o.to} /\ UNCHANGED <<at, folder, reasons, next>>
      BY <1>0, <1>2, <2>2 DEF Apply, IsProper
    <3> QED
      BY <1>1, <3>1 DEF PlanTyped, ReorgTypeOK, Keyed
  <2>3. CASE o.op = "retire-epic"
    <3>1. o.epic \in Epics /\ DoRetire(o.epic)
      BY <1>0, <1>2, <2>3 DEF Apply, IsProper
    <3> QED
      BY <1>1, <3>1 DEF DoRetire, PlanTyped, ReorgTypeOK, Keyed, EpicFolders
  <2> QED
    BY <1>0, <2>1, <2>2, <2>3 DEF Apply
<1>6. stage' \in Stages /\ stage' # "rediffed" /\ drift' = drift /\ was' = was
  BY DEF Apply, TurnTo, Stages
<1> QED
  BY <1>1, <1>2, <1>4, <1>5, <1>6 DEF ReorgTyped, ReorgTypeOK, PlanTyped, Keyed

LEMMA UndoTyped ==
  ASSUME ReorgTyped, Undo
  PROVE  ReorgTyped'
<1> DEFINE o == Head(ops)
<1>1. /\ ReorgTypeOK /\ AreProper(ops) /\ ops # <<>>
      /\ ops' = Tail(ops) /\ stage' = stage /\ stage' # "rediffed"
      /\ UNCHANGED <<done, drift, was>>
  BY DEF Undo, ReorgTyped
<1>2. o \in Operations /\ IsProper(o) /\ AreProper(ops')
  BY <1>1, TailOfProper
<1>3. PlanTyped'
  <2>1. CASE o.op = "reparent-story"
    BY <1>1, <2>1, CommandTyped DEF Undo
  <2>2. CASE o.op = "create-sprint"
    BY <1>1, <2>2 DEF Undo, plan, PlanTyped, ReorgTypeOK, Keyed
  <2>3. CASE o.op = "retire-epic"
    <3>1. o.epic \in Epics /\ DoUnretire(o.epic)
      BY <1>2, <2>3 DEF Undo, IsProper
    <3> QED
      BY <1>1, <3>1 DEF DoUnretire, PlanTyped, ReorgTypeOK, Keyed, EpicFolders
  <2> QED
    BY <2>1, <2>2, <2>3 DEF Undo
<1> QED
  BY <1>1, <1>2, <1>3 DEF ReorgTyped, ReorgTypeOK, PlanTyped, Keyed

LEMMA ReorgTypedStep ==
  ASSUME ReorgTyped, ReorgAtStart, [ReorgNext]_reorgVars
  PROVE  ReorgTyped' /\ ReorgAtStart'
<1>1. CASE Propose
  <2>1. stage = "idle" /\ AtTheStart /\ at = Start
    BY <1>1 DEF Propose, ReorgAtStart, AtTheStart
  <2>2. PICK dom \in SUBSET PlannedKeys, retire \in SUBSET Epics :
          \E rows \in [dom -> [to : Sprints, order : Orders \cup {NoOrder}]] :
            LET t == [rows |-> rows, retire |-> retire]
            IN  Accepts(t) /\ ops' = Derived(t)
    BY <1>1 DEF Propose
  <2>3. PICK rows \in [dom -> [to : Sprints, order : Orders \cup {NoOrder}]] :
          LET t == [rows |-> rows, retire |-> retire]
          IN  Accepts(t) /\ ops' = Derived(t)
    BY <2>2
  <2>4. AreProper(ops')
    BY <2>1, <2>3, AcceptedIsAgreed, DerivedIsPending
  <2>5. stage' = "applying" /\ was' = at /\ UNCHANGED <<plan, done, entry, drift>>
    BY <1>1 DEF Propose, TurnTo
  <2> QED
    BY <2>1, <2>4, <2>5 DEF ReorgTyped, ReorgTypeOK, ReorgAtStart, plan, Stages
<1>2. CASE Apply
  BY <1>2, ApplyTyped DEF ReorgAtStart, Apply, TurnTo
<1>3. CASE Undo
  BY <1>3, UndoTyped DEF ReorgAtStart, Undo
<1>4. CASE Drift
  <2>1. PlanTyped' /\ drift' = stage /\ UNCHANGED <<ops, done, stage, was>> /\ stage # "idle"
    BY <1>4, DriftTyped DEF Drift, ReorgTyped
  <2> QED
    BY <2>1 DEF ReorgTyped, ReorgTypeOK, PlanTyped, Keyed, ReorgAtStart
<1>5. CASE UndoClaim
  <2>1. AreProper(ops')
    BY <1>5, ReverseIsProper DEF UndoClaim, UndoOrder, ReorgTyped
  <2> QED
    BY <1>5, <2>1 DEF UndoClaim, TurnTo, plan, ReorgTyped, ReorgTypeOK, Stages, ReorgAtStart
<1>6. CASE Rediff
  BY <1>6 DEF Rediff, TurnTo, plan, ReorgTyped, ReorgTypeOK, Stages, ReorgAtStart
<1>7. CASE Interrupt
  BY <1>7 DEF Interrupt, TurnTo, plan, ReorgTyped, ReorgTypeOK, Stages, ReorgAtStart
<1>8. CASE \/ ApplyRefused \/ RecordHash \/ RecordSave \/ UndoRefused \/ UndoFinish
  BY <1>8 DEF ApplyRefused, RecordHash, RecordSave, UndoRefused, UndoFinish, TurnTo, plan,
              ReorgTyped, ReorgTypeOK, Stages, ReorgAtStart
<1>9. CASE UNCHANGED reorgVars
  BY <1>9 DEF reorgVars, ReorgTyped, ReorgTypeOK, ReorgAtStart
<1> QED
  BY <1>1, <1>2, <1>3, <1>4, <1>5, <1>6, <1>7, <1>8, <1>9 DEF ReorgNext

-----------------------------------------------------------------------------
(* Applying the operations.                                                 *)

\* Nothing interfered: the next operation finds what it needs.
LEMMA HeadMayRun ==
  ASSUME ReorgTyped, ApplyInv, stage = "applying", drift = "none", ops # <<>>
  PROVE  LET o == Head(ops)
         IN  /\ o.op = "reparent-story" =>
                  /\ CanReparent(o.key, o.to)
                  /\ \E w \in Works : /\ Moves(target, w) /\ at[w] = Start[w] /\ o.key = Start[w]
                                      /\ o.to = Dest(target, w)
             /\ o.op = "retire-epic" =>
                  /\ o.epic \in target.retire
                  /\ \A i \in 1..Len(ops) : ops[i].op = "retire-epic"
<1> DEFINE o == Head(ops)
<1>1. /\ Agreed(target) /\ OnTheWay(target) /\ InTurn(target, ops) /\ MayRun(target, ops)
      /\ ReorgTypeOK /\ AreProper(ops)
  BY DEF ApplyInv, Pending, ReorgTyped
<1>2. o = ops[1] /\ 1 \in 1..Len(ops) /\ IsProper(o)
      /\ \A i \in 1..Len(ops) : ops[i] \in Operations /\ i \in Nat /\ 1 <= i
  BY <1>1, TailOfProper DEF AreProper
<1> HIDE DEF o
<1>3. ASSUME o.op = "reparent-story"
      PROVE  /\ CanReparent(o.key, o.to)
             /\ \E w \in Works : /\ Moves(target, w) /\ at[w] = Start[w] /\ o.key = Start[w]
                                 /\ o.to = Dest(target, w)
  <2>1. PICK w \in Works : /\ Moves(target, w) /\ at[w] = Start[w] /\ o.key = Start[w]
                           /\ o.to = Dest(target, w)
    BY <1>1, <1>2, <1>3 DEF MayRun
  <2>2. o.to \in sprints
    BY <1>1, <1>2, <1>3 DEF MayRun
  <2>3. \A e \in Epics : folder[e] = "planned"
    BY <1>1, <1>2, <1>3 DEF MayRun
  <2>4. at[w] # Unborn /\ at[w] \in Keys
    BY <1>1, <2>1 DEF Moves, Stories, ReorgTypeOK
  <2>5. at[w][1] \in Epics /\ o.to[1] \in Epics
    BY <1>1, <2>2, <2>4, KeyShape, SprintShape DEF ReorgTypeOK
  <2>6. o.key \in PlannedKeys
    BY <2>1, <2>3, <2>4, <2>5 DEF PlannedKeys, IsPlanned
  <2>7. o.to \in PlannedSprints
    BY <2>2, <2>3, <2>5 DEF PlannedSprints
  <2> QED
    BY <2>1, <2>6, <2>7 DEF CanReparent
<1>4. ASSUME o.op = "retire-epic"
      PROVE  /\ o.epic \in target.retire
             /\ \A i \in 1..Len(ops) : ops[i].op = "retire-epic"
  <2>1. \A i \in 1..Len(ops) : i = 1 \/ Rank(ops[1]) <= Rank(ops[i])
    BY <1>1, <1>2 DEF InTurn
  <2>2. \A i \in 1..Len(ops) : ops[i].op = "retire-epic"
    BY <1>2, <1>4, <2>1 DEF Rank, Operations
  <2> QED
    BY <1>1, <1>2, <1>4, <2>2 DEF MayRun
<1> QED
  BY <1>3, <1>4 DEF o

LEMMA InTurnAfter ==
  ASSUME NEW t, NEW seq, AreProper(seq), seq # <<>>, InTurn(t, seq)
  PROVE  InTurn(t, Tail(seq))
<1>1. PICK T : T = Tail(seq)
  OBVIOUS
<1>2. \A i \in 1..Len(T) : i + 1 \in 1..Len(seq) /\ T[i] = seq[i + 1]
  BY <1>1, TailOfProper
<1>3. ASSUME NEW i \in 1..Len(T), NEW j \in 1..Len(T), i < j
      PROVE  /\ Rank(T[i]) <= Rank(T[j])
             /\ T[i].op = "reparent-story" /\ T[j].op = "reparent-story"
                  => MoveBefore(t, T[i].key, T[j].key)
  <2>1. i + 1 < j + 1 /\ i + 1 \in 1..Len(seq) /\ j + 1 \in 1..Len(seq)
    BY <1>2, <1>3
  <2> QED
    BY <1>2, <2>1 DEF InTurn
<1> QED
  BY <1>1, <1>3 DEF InTurn

\* One operation less, and the plan one step further.
LEMMA ApplyKeepsPending ==
  ASSUME ReorgTyped, ApplyInv, Apply, drift = "none"
  PROVE  OnTheWay(target)' /\ KeysInOrder(target)' /\ MayRun(target, ops)' /\ NothingMissing(target, ops)'
<1>0. PICK o : o = Head(ops)
  OBVIOUS
<1>1. /\ Agreed(target) /\ OnTheWay(target) /\ KeysInOrder(target)
      /\ InTurn(target, ops) /\ MayRun(target, ops) /\ NothingMissing(target, ops)
      /\ ReorgTypeOK /\ AreProper(ops) /\ stage = "applying" /\ ops # <<>>
      /\ target' = target /\ ops' = Tail(ops)
  BY DEF ApplyInv, Pending, ReorgTyped, Apply
<1>2. /\ o = ops[1] /\ 1 \in 1..Len(ops) /\ o \in Operations /\ IsProper(o)
      /\ \A i \in 1..Len(ops') : i + 1 \in 1..Len(ops) /\ ops'[i] = ops[i + 1]
      /\ \A i \in 1..Len(ops) :
           i = 1 \/ (i - 1 \in 1..Len(ops') /\ ops'[i - 1] = ops[i])
  BY <1>0, <1>1, TailOfProper
<1>3. /\ o.op = "create-sprint" => /\ sprints' = sprints \cup {o.to}
                                   /\ UNCHANGED <<at, folder>>
      /\ o.op = "retire-epic" => /\ folder' = [folder EXCEPT ![o.epic] = "archived"]
                                 /\ UNCHANGED <<at, sprints>>
      /\ o.op = "reparent-story" => DoReparent(o.key, o.to) /\ UNCHANGED <<folder, sprints>>
  BY <1>0 DEF Apply, DoRetire, DoReparent
<1>4. ASSUME o.op = "reparent-story"
      PROVE  \E w \in Works, new \in Keys :
               /\ Moves(target, w) /\ at[w] = Start[w] /\ o.key = Start[w]
               /\ at' = [at EXCEPT ![w] = new]
               /\ SprintOf(new) = Dest(target, w) /\ new # Start[w]
               /\ \A v \in Works : at[v] # Unborn /\ SprintOf(at[v]) = Dest(target, w) =>
                    at[v][3] < new[3]
  <2>1. PICK w \in Works : /\ Moves(target, w) /\ at[w] = Start[w] /\ o.key = Start[w]
                           /\ o.to = Dest(target, w)
    BY <1>0, <1>1, <1>4, HeadMayRun
  <2>2. at[w] # Unborn /\ o.to \in Sprints /\ SprintOf(at[w]) # o.to
    BY <1>1, <2>1, MoveTuple DEF Moves, Stories, Dest
  <2>3. DoReparent(at[w], o.to)
    BY <1>3, <1>4, <2>1
  <2>4. /\ at' = [at EXCEPT ![w] = NewKey(at[w], o.to)]
        /\ NewKey(at[w], o.to) \in Keys /\ SprintOf(NewKey(at[w], o.to)) = o.to
        /\ NewKey(at[w], o.to) # at[w]
        /\ \A v \in Works : at[v] # Unborn /\ SprintOf(at[v]) = o.to =>
             at[v][3] < NewKey(at[w], o.to)[3]
    BY <1>1, <2>2, <2>3, ReparentStep
  <2> QED
    BY <2>1, <2>4
<1>5. /\ \A w \in Works : Moves(target, w)' <=> Moves(target, w)
      /\ \A w \in Works : Dest(target, w)' = Dest(target, w)
      /\ at \in [Works -> Keys \cup {Unborn}] /\ folder \in [Epics -> EpicFolders]
  BY <1>1 DEF Moves, Dest, ReorgTypeOK
<1>6. o.op # "retire-epic" => folder' = folder
  BY <1>2, <1>3 DEF Operations
<1>7. sprints \subseteq sprints' /\ (o.op = "create-sprint" => o.to \in sprints')
  BY <1>2, <1>3 DEF Operations
<1>8. /\ o.op = "reparent-story" => o.key \in DOMAIN target.rows
      /\ o.op = "retire-epic" => /\ o.epic \in target.retire /\ o.epic \in Epics
                                 /\ \A i \in 1..Len(ops) : ops[i].op = "retire-epic"
  BY <1>0, <1>1, HeadMayRun DEF Moves, Agreed
<1>9. OnTheWay(target)'
  <2>1. ASSUME NEW e \in Epics
        PROVE  folder'[e] = "planned" \/ (folder'[e] = "archived" /\ e \in target.retire)
    BY <1>1, <1>3, <1>5, <1>6, <1>8 DEF OnTheWay
  <2>2. ASSUME NEW w \in Works
        PROVE  \/ at'[w] = Start[w]
               \/ Moves(target, w) /\ at'[w] \in Keys /\ SprintOf(at'[w]) = Dest(target, w)
    <3>1. CASE o.op = "reparent-story"
      BY <1>1, <1>4, <1>5, <3>1 DEF OnTheWay
    <3>2. CASE o.op # "reparent-story"
      BY <1>1, <1>2, <1>3, <3>2 DEF OnTheWay, Operations
    <3> QED
      BY <3>1, <3>2
  <2> QED
    BY <1>1, <1>5, <2>1, <2>2 DEF OnTheWay
<1>10. NothingMissing(target, ops)'
  <2>1. ASSUME NEW w \in Works, Moves(target, w), at'[w] = Start[w]
        PROVE  \E i \in 1..Len(ops') : ops'[i].op = "reparent-story" /\ ops'[i].key = Start[w]
    <3>1. at[w] = Start[w] /\ ~(o.op = "reparent-story" /\ o.key = Start[w])
      <4>1. CASE o.op = "reparent-story"
        <5>1. PICK x \in Works, new \in Keys : /\ o.key = Start[x] /\ at[x] = Start[x]
                                               /\ at' = [at EXCEPT ![x] = new] /\ new # Start[x]
          BY <1>4, <4>1
        <5>2. w # x
          BY <1>5, <2>1, <5>1
        <5>3. Start[w] # Start[x]
          BY <2>1, <5>2, ReorgAssumption DEF Moves, Stories
        <5> QED
          BY <1>5, <2>1, <5>1, <5>2, <5>3
      <4>2. CASE o.op # "reparent-story"
        BY <1>2, <1>3, <2>1, <4>2 DEF Operations
      <4> QED
        BY <4>1, <4>2
    <3>2. PICK i \in 1..Len(ops) : ops[i].op = "reparent-story" /\ ops[i].key = Start[w]
      BY <1>1, <2>1, <3>1 DEF NothingMissing
    <3>3. i - 1 \in 1..Len(ops') /\ ops'[i - 1] = ops[i]
      BY <1>2, <3>1, <3>2
    <3> QED
      BY <3>2, <3>3
  <2>2. ASSUME NEW e \in target.retire, folder'[e] = "planned"
        PROVE  \E i \in 1..Len(ops') : ops'[i].op = "retire-epic" /\ ops'[i].epic = e
    <3>1. folder[e] = "planned" /\ ~(o.op = "retire-epic" /\ o.epic = e)
      BY <1>1, <1>3, <1>5, <1>6, <1>8, <2>2 DEF Agreed
    <3>2. PICK i \in 1..Len(ops) : ops[i].op = "retire-epic" /\ ops[i].epic = e
      BY <1>1, <3>1 DEF NothingMissing
    <3>3. i - 1 \in 1..Len(ops') /\ ops'[i - 1] = ops[i]
      BY <1>2, <3>1, <3>2
    <3> QED
      BY <3>2, <3>3
  <2> QED
    BY <1>1, <1>5, <2>1, <2>2 DEF NothingMissing
<1>11. MayRun(target, ops)'
  <2>1. ASSUME NEW i \in 1..Len(ops'), ops'[i].op = "reparent-story"
        PROVE  /\ \E w \in Works : Moves(target, w) /\ at'[w] = Start[w] /\ ops'[i].key = Start[w]
                                   /\ ops'[i].to = Dest(target, w)
               /\ \/ ops'[i].to \in sprints'
                  \/ \E j \in 1..(i - 1) : ops'[j].op = "create-sprint" /\ ops'[j].to = ops'[i].to
    <3>1. PICK k \in 1..Len(ops) : k = i + 1 /\ ops'[i] = ops[k] /\ 1 < k
      BY <1>2
    <3>2. PICK w \in Works : /\ Moves(target, w) /\ at[w] = Start[w] /\ ops[k].key = Start[w]
                             /\ ops[k].to = Dest(target, w)
      BY <1>1, <2>1, <3>1 DEF MayRun
    <3>3. at'[w] = Start[w]
      <4>1. CASE o.op = "reparent-story"
        <5>1. PICK x \in Works, new \in Keys : /\ o.key = Start[x] /\ Moves(target, x)
                                               /\ at' = [at EXCEPT ![x] = new]
          BY <1>4, <4>1
        <5>2. MoveBefore(target, Start[x], Start[w])
          BY <1>1, <1>2, <2>1, <3>1, <3>2, <4>1, <5>1 DEF InTurn
        <5>3. Start[x] # Start[w]
          BY <1>1, <3>2, <5>1, <5>2, MovesAreOrdered DEF Orders2, MoveOrder, Moves
        <5> QED
          BY <1>5, <3>2, <5>1, <5>3
      <4>2. CASE o.op # "reparent-story"
        BY <1>2, <1>3, <3>2, <4>2 DEF Operations
      <4> QED
        BY <4>1, <4>2
    <3>4. CASE ops[k].to \in sprints
      BY <1>7, <3>1, <3>2, <3>3, <3>4
    <3>5. CASE ops[k].to \notin sprints
      <4>1. PICK j \in 1..(k - 1) : ops[j].op = "create-sprint" /\ ops[j].to = ops[k].to
        BY <1>1, <2>1, <3>1, <3>5 DEF MayRun
      <4>2. j \in 1..Len(ops)
        BY <3>1, <4>1
      <4>3. CASE j = 1
        BY <1>2, <1>7, <3>1, <3>2, <3>3, <4>1, <4>3
      <4>4. CASE j # 1
        <5>1. j - 1 \in 1..(i - 1) /\ ops'[j - 1] = ops[j]
          BY <1>2, <3>1, <4>1, <4>2, <4>4
        <5> QED
          BY <3>1, <3>2, <3>3, <4>1, <5>1
      <4> QED
        BY <4>3, <4>4
    <3> QED
      BY <3>4, <3>5
  <2>2. ASSUME NEW i \in 1..Len(ops')
        PROVE  /\ ops'[i].op = "retire-epic" => ops'[i].epic \in target.retire
               /\ ops'[i].op # "retire-epic" => \A e \in Epics : folder'[e] = "planned"
    BY <1>1, <1>2, <1>6, <1>8 DEF MayRun
  <2> QED
    BY <1>1, <1>5, <2>1, <2>2 DEF MayRun
<1>12. KeysInOrder(target)'
  <2>1. ASSUME NEW v \in Works, NEW w \in Works, Moves(target, v), Moves(target, w),
               at'[w] # Start[w], MoveBefore(target, Start[v], Start[w])
        PROVE  /\ at'[v] # Start[v]
               /\ Dest(target, v) = Dest(target, w) => at'[v][3] < at'[w][3]
    <3>1. CASE o.op # "reparent-story"
      BY <1>1, <1>2, <1>3, <2>1, <3>1 DEF KeysInOrder, Operations
    <3>2. CASE o.op = "reparent-story"
      <4>1. PICK x \in Works, new \in Keys :
              /\ Moves(target, x) /\ at[x] = Start[x] /\ o.key = Start[x]
              /\ at' = [at EXCEPT ![x] = new]
              /\ SprintOf(new) = Dest(target, x) /\ new # Start[x]
              /\ \A y \in Works : at[y] # Unborn /\ SprintOf(at[y]) = Dest(target, x) =>
                   at[y][3] < new[3]
        BY <1>4, <3>2
      <4>2. /\ ~MoveBefore(target, Start[v], Start[v])
            /\ ~MoveBefore(target, Start[w], Start[v])
        <5>1. /\ Orders2(DOMAIN target.rows, MoveOrder(target))
              /\ Start[v] \in DOMAIN target.rows /\ Start[w] \in DOMAIN target.rows
          BY <1>1, <2>1, MovesAreOrdered DEF Moves
        <5> QED
          BY <2>1, <5>1 DEF Orders2, MoveOrder
      <4>3. CASE w = x
        <5>1. v # x
          BY <2>1, <4>2, <4>3
        <5>2. at[v] # Start[v]
          <6>1. SUFFICES ASSUME at[v] = Start[v] PROVE FALSE
            OBVIOUS
          <6>2. PICK i \in 1..Len(ops) : ops[i].op = "reparent-story" /\ ops[i].key = Start[v]
            BY <1>1, <2>1, <6>1 DEF NothingMissing
          <6>3. Start[v] # Start[x]
            BY <2>1, <5>1, ReorgAssumption DEF Moves, Stories
          <6>4. i # 1 /\ i \in Nat /\ 1 <= i
            BY <1>2, <4>1, <6>2, <6>3
          <6>5. /\ ops[1].op = "reparent-story" /\ ops[1].key = Start[x]
                /\ 1 \in 1..Len(ops) /\ 1 < i
            BY <1>2, <3>2, <4>1, <6>4
          <6>6. MoveBefore(target, Start[x], Start[v])
            BY <1>1, <6>2, <6>5 DEF InTurn
          <6> QED
            BY <4>2, <4>3, <6>6
        <5>3. at[v] \in Keys /\ at[v] # Unborn /\ SprintOf(at[v]) = Dest(target, v)
          BY <1>1, <5>2, KeysAreBorn DEF OnTheWay
        <5>4. at'[v] = at[v] /\ at'[w] = new
          BY <1>5, <4>1, <4>3, <5>1
        <5> QED
          BY <4>1, <4>3, <5>2, <5>3, <5>4
      <4>4. CASE w # x
        <5>1. at'[w] = at[w] /\ at[w] # Start[w]
          BY <1>5, <2>1, <4>1, <4>4
        <5>2. /\ at[v] # Start[v]
              /\ Dest(target, v) = Dest(target, w) => at[v][3] < at[w][3]
          BY <1>1, <2>1, <5>1 DEF KeysInOrder
        <5>3. v # x /\ at'[v] = at[v]
          BY <1>5, <4>1, <5>2
        <5> QED
          BY <5>1, <5>2, <5>3
      <4> QED
        BY <4>3, <4>4
    <3> QED
      BY <3>1, <3>2
  <2> QED
    BY <1>1, <1>5, <2>1 DEF KeysInOrder
<1> QED
  BY <1>9, <1>10, <1>11, <1>12

LEMMA OpOfJournalled == \A o : Journalled(o).op = o.op /\ (o.op # "reparent-story" => Journalled(o) = o)
BY DEF Journalled

LEMMA ApplyKeepsItsInvariant ==
  ASSUME ReorgTyped, ApplyInv, Apply
  PROVE  ApplyInv'
<1> SUFFICES ASSUME drift = "none" PROVE ApplyInv'
  BY DEF ApplyInv, Apply
<1>0. PICK o : o = Head(ops)
  OBVIOUS
<1>1. /\ AreProper(ops) /\ AreProper(done) /\ stage = "applying" /\ ops # <<>>
      /\ target' = target /\ ops' = Tail(ops) /\ done' = Append(done, Journalled(o))
      /\ stage' = "hashing" => ops' = <<>>
      /\ Agreed(target) /\ InTurn(target, ops)
  BY <1>0 DEF ApplyInv, Pending, ReorgTyped, Apply, TurnTo
<1>2. /\ \A i \in 1..Len(ops') : i + 1 \in 1..Len(ops) /\ ops'[i] = ops[i + 1]
      /\ o \in Operations /\ IsProper(o)
  BY <1>0, <1>1, TailOfProper
<1>3. InTurn(target, ops)'
  BY <1>1, InTurnAfter
<1>4. Agreed(target)'
  BY <1>1
<1>5. o.op = "retire-epic" => \A i \in 1..Len(ops) : ops[i].op = "retire-epic"
  BY <1>0, <1>1, HeadMayRun
<1>6. ASSUME NEW i \in 1..Len(done'), done'[i].op = "retire-epic"
      PROVE  \A j \in 1..Len(ops') : ops'[j].op = "retire-epic"
  <2>1. done' \in Seq(Operations)
    BY ApplyTyped DEF ReorgTyped, AreProper
  <2>2. done \in Seq(Operations) /\ Len(done) \in Nat
    BY <1>1 DEF AreProper
  <2>3. i \in 1..(Len(done) + 1)
    BY <1>1, <2>1, <2>2
  <2>4. CASE i \in 1..Len(done)
    <3>1. done[i].op = "retire-epic"
      BY <1>1, <1>6, <2>2, <2>4
    <3>2. \A j \in 1..Len(ops) : ops[j].op = "retire-epic"
      BY <1>1, <2>4, <3>1 DEF ApplyInv
    <3> QED
      BY <1>2, <3>2
  <2>5. CASE i = Len(done) + 1
    <3>1. done'[i] = Journalled(o)
      BY <1>1, <2>2, <2>5
    <3>2. o.op = "retire-epic"
      BY <1>6, <3>1, OpOfJournalled
    <3> QED
      BY <1>2, <1>5, <3>2
  <2> QED
    BY <2>2, <2>3, <2>4, <2>5
<1> QED
  BY <1>1, <1>3, <1>4, <1>6, ApplyKeepsPending DEF ApplyInv, Pending

LEMMA ProposeStep ==
  ASSUME ReorgTyped, ReorgAtStart, Propose
  PROVE  ApplyInv' /\ JournalInv' /\ DigestInv'
<1>1. /\ stage = "idle" /\ AtTheStart /\ at = Start /\ done = <<>> /\ drift = "none"
      /\ reasons = {}
      /\ stage' = "applying" /\ UNCHANGED <<at, folder, reasons, sprints, done, drift>>
  BY DEF Propose, ReorgAtStart, AtTheStart, plan, TurnTo
<1>2. PICK dom \in SUBSET PlannedKeys, retire \in SUBSET Epics :
        \E rows \in [dom -> [to : Sprints, order : Orders \cup {NoOrder}]] :
          LET t == [rows |-> rows, retire |-> retire]
          IN  Accepts(t) /\ target' = t /\ ops' = Derived(t)
  BY DEF Propose
<1>3. PICK rows \in [dom -> [to : Sprints, order : Orders \cup {NoOrder}]] :
        LET t == [rows |-> rows, retire |-> retire]
        IN  Accepts(t) /\ target' = t /\ ops' = Derived(t)
  BY <1>2
<1>4. PICK t : t = [rows |-> rows, retire |-> retire]
  OBVIOUS
<1>5. Accepts(t) /\ target' = t
  BY <1>3, <1>4
<1>6. PICK seq : seq = Derived(t) /\ ops' = seq
  BY <1>3, <1>4
<1>7. Agreed(t)
  BY <1>1, <1>4, <1>5, AcceptedIsAgreed
<1>8. Pending(t, seq)
  BY <1>1, <1>6, <1>7, DerivedIsPending
<1>9. Agreed(target)'
  BY <1>5, <1>7
<1>10. OnTheWay(target)' /\ KeysInOrder(target)'
  <2>1. at' = Start /\ \A e \in Epics : folder'[e] = "planned"
    BY <1>1 DEF AtTheStart
  <2> QED
    BY <2>1 DEF OnTheWay, KeysInOrder
<1>11. Pending(target, ops)'
  <2>1. InTurn(target, ops)'
    BY <1>5, <1>6, <1>8 DEF Pending
  <2>2. MayRun(target, ops)'
    BY <1>1, <1>5, <1>6, <1>8 DEF Pending, MayRun
  <2>3. NothingMissing(target, ops)'
    BY <1>1, <1>5, <1>6, <1>8 DEF Pending, NothingMissing
  <2> QED
    BY <2>1, <2>2, <2>3 DEF Pending
<1>12. done' = <<>> /\ 1..Len(done') = {}
  BY <1>1
<1>13. ApplyInv'
  BY <1>1, <1>9, <1>10, <1>11, <1>12 DEF ApplyInv
<1>14. StoriesKept' /\ Tells(done)' /\ RetiresLast(done)'
  <2>1. /\ at' = Start /\ \A e \in Epics : folder'[e] = "planned"
        /\ reasons' = {} /\ sprints' = {SprintOf(Start[w]) : w \in Stories}
    BY <1>1 DEF AtTheStart
  <2>2. StoriesKept'
    BY <2>1 DEF StoriesKept
  <2>3. Tells(done)' /\ RetiresLast(done)'
    BY <1>12, <2>1 DEF Tells, RetiresLast
  <2> QED
    BY <2>2, <2>3
<1> QED
  BY <1>1, <1>13, <1>14 DEF JournalInv, DigestInv

-----------------------------------------------------------------------------
(* The journal.                                                             *)

\* A journal that has what one more operation did.
LEMMA ApplyIsTold ==
  ASSUME ReorgTyped, ApplyInv, JournalInv, Apply, drift = "none"
  PROVE  StoriesKept' /\ Tells(done)' /\ RetiresLast(done)'
<1>0. PICK o : o = Head(ops)
  OBVIOUS
<1>1. PICK J : J = Journalled(o)
  OBVIOUS
<1>2. /\ ReorgTypeOK /\ AreProper(ops) /\ AreProper(done) /\ stage = "applying" /\ ops # <<>>
      /\ done' = Append(done, J) /\ StoriesKept /\ Tells(done) /\ RetiresLast(done)
      /\ Agreed(target)
  BY <1>0, <1>1 DEF ReorgTyped, Apply, JournalInv, ApplyInv
<1>3. o \in Operations /\ IsProper(o) /\ o = ops[1] /\ 1 \in 1..Len(ops)
  BY <1>0, <1>2, TailOfProper
<1>4. J.op = o.op /\ (o.op # "reparent-story" => J = o)
  BY <1>1, OpOfJournalled
<1>5. PICK n \in Nat : n = Len(done)
  BY <1>2 DEF AreProper
<1>6. o.op = "reparent-story" => CanReparent(o.key, o.to) /\ DoReparent(o.key, o.to)
  BY <1>0 DEF Apply
<1>7. J \in Operations /\ IsProper(J)
  BY <1>1, <1>2, <1>3, <1>6, JournalledIsProper
<1>8. /\ Len(done') = n + 1 /\ n + 1 \in 1..(n + 1) /\ done'[n + 1] = J
      /\ \A i \in 1..n : done'[i] = done[i] /\ i \in 1..(n + 1)
      /\ \A i \in 1..(n + 1) : i \in 1..n \/ i = n + 1
  BY <1>2, <1>5, <1>7, AppendIsProper
<1>9. RetiresLast(done)'
  <2>1. ASSUME NEW i \in 1..(n + 1), NEW j \in 1..(n + 1), i < j, done'[i].op = "retire-epic"
        PROVE  done'[j].op = "retire-epic"
    <3>1. i \in 1..n /\ done[i].op = "retire-epic"
      BY <1>8, <2>1
    <3>2. CASE j \in 1..n
      BY <1>2, <1>5, <1>8, <2>1, <3>1, <3>2 DEF RetiresLast
    <3>3. CASE j = n + 1
      BY <1>2, <1>3, <1>4, <1>5, <1>8, <3>1, <3>3 DEF ApplyInv
    <3> QED
      BY <1>8, <3>2, <3>3
  <2> QED
    BY <1>8, <2>1 DEF RetiresLast
<1>10. CASE o.op = "reparent-story"
  <2>1. PICK w \in Works : /\ Moves(target, w) /\ at[w] = Start[w] /\ o.key = Start[w]
                           /\ o.to = Dest(target, w)
    BY <1>0, <1>2, <1>10, HeadMayRun
  <2>2. w \in Stories /\ at[w] # Unborn /\ o.to \in Sprints /\ SprintOf(Start[w]) # o.to
    BY <1>2, <2>1, MoveTuple DEF Moves, Stories, Dest
  <2>3. PICK new : new = NewKey(at[w], o.to)
    OBVIOUS
  <2>4. /\ at' = [at EXCEPT ![w] = new] /\ new \in Keys /\ SprintOf(new) = o.to
        /\ \A v \in Works \ {w} : at[v] # new
        /\ UNCHANGED <<folder, reasons, sprints>>
    BY <1>2, <1>6, <1>10, <2>1, <2>2, <2>3, ReparentStep
  <2>5. J.key = new /\ J.to = SprintOf(Start[w]) /\ J.op = "reparent-story"
    BY <1>1, <1>10, <2>1, <2>3 DEF Journalled
  <2>6. at'[w] = new /\ \A v \in Works : v # w => at'[v] = at[v]
    BY <1>2, <2>4 DEF ReorgTypeOK
  <2>7. StoriesKept'
    BY <1>2, <2>2, <2>4, <2>6, KeysAreBorn DEF StoriesKept, Stories
  <2>8. ASSUME NEW i \in 1..n, done[i].op = "reparent-story"
        PROVE  /\ \E v \in Stories : /\ done[i].key = at'[v] /\ done[i].to = SprintOf(Start[v])
                                     /\ SprintOf(at'[v]) # SprintOf(Start[v])
               /\ done[i].key # new
    <3>1. PICK v \in Stories : /\ done[i].key = at[v] /\ done[i].to = SprintOf(Start[v])
                               /\ SprintOf(at[v]) # SprintOf(Start[v])
      BY <1>2, <1>5, <2>8 DEF Tells
    <3>2. v # w /\ v \in Works
      BY <2>1, <3>1 DEF Stories
    <3> QED
      BY <2>4, <2>6, <3>1, <3>2
  <2>9. ASSUME NEW i \in 1..(n + 1), done'[i].op = "reparent-story"
        PROVE  \E v \in Stories : /\ done'[i].key = at'[v] /\ done'[i].to = SprintOf(Start[v])
                                  /\ SprintOf(at'[v]) # SprintOf(Start[v])
    <3>1. CASE i \in 1..n
      BY <1>8, <2>8, <2>9, <3>1
    <3>2. CASE i = n + 1
      BY <1>8, <2>2, <2>4, <2>5, <2>6, <3>2
    <3> QED
      BY <1>8, <3>1, <3>2
  <2>10. ASSUME NEW i \in 1..(n + 1), NEW j \in 1..(n + 1),
                done'[i].op = "reparent-story", done'[j].op = "reparent-story",
                done'[i].key = done'[j].key
         PROVE  i = j
    <3>1. CASE i \in 1..n /\ j \in 1..n
      BY <1>2, <1>5, <1>8, <2>10, <3>1 DEF Tells
    <3>2. CASE i \in 1..n /\ j = n + 1
      BY <1>8, <2>5, <2>8, <2>10, <3>2
    <3>3. CASE i = n + 1 /\ j \in 1..n
      BY <1>8, <2>5, <2>8, <2>10, <3>3
    <3> QED
      BY <1>8, <3>1, <3>2, <3>3
  <2>11. ASSUME NEW v \in Stories, SprintOf(at'[v]) # SprintOf(Start[v])
         PROVE  \E i \in 1..(n + 1) : done'[i].op = "reparent-story" /\ done'[i].key = at'[v]
    <3>1. CASE v = w
      BY <1>8, <2>5, <2>6, <3>1
    <3>2. CASE v # w
      <4>1. at'[v] = at[v]
        BY <2>6, <3>2 DEF Stories
      <4>2. PICK i \in 1..n : done[i].op = "reparent-story" /\ done[i].key = at[v]
        BY <1>2, <1>5, <2>11, <4>1 DEF Tells
      <4> QED
        BY <1>8, <4>1, <4>2
    <3> QED
      BY <3>1, <3>2
  <2>12. ASSUME NEW e \in Epics, folder'[e] # "planned" \/ e \in reasons'
         PROVE  \E i \in 1..(n + 1) : done'[i].op = "retire-epic" /\ done'[i].epic = e
    <3>1. PICK i \in 1..n : done[i].op = "retire-epic" /\ done[i].epic = e
      BY <1>2, <1>5, <2>4, <2>12 DEF Tells
    <3> QED
      BY <1>8, <3>1
  <2> QED
    BY <1>8, <1>9, <2>7, <2>9, <2>10, <2>11, <2>12 DEF Tells
<1>11. CASE o.op # "reparent-story"
  <2>1. /\ J = o /\ J.op # "reparent-story" /\ at' = at /\ sprints \subseteq sprints'
        /\ \/ UNCHANGED <<folder, reasons>>
           \/ /\ o.op = "retire-epic" /\ folder' = [folder EXCEPT ![o.epic] = "archived"]
              /\ reasons' = reasons \cup {o.epic}
    BY <1>0, <1>4, <1>11 DEF Apply, DoRetire
  <2>2. StoriesKept'
    BY <1>2, <2>1 DEF StoriesKept
  <2>3. \A i \in 1..(n + 1) : done'[i].op = "reparent-story" => i \in 1..n /\ done'[i] = done[i]
    BY <1>8, <2>1
  <2>4. ASSUME NEW i \in 1..(n + 1), done'[i].op = "reparent-story"
        PROVE  \E v \in Stories : /\ done'[i].key = at'[v] /\ done'[i].to = SprintOf(Start[v])
                                  /\ SprintOf(at'[v]) # SprintOf(Start[v])
    BY <1>2, <1>5, <2>1, <2>3, <2>4 DEF Tells
  <2>5. ASSUME NEW i \in 1..(n + 1), NEW j \in 1..(n + 1),
               done'[i].op = "reparent-story", done'[j].op = "reparent-story",
               done'[i].key = done'[j].key
        PROVE  i = j
    BY <1>2, <1>5, <2>3, <2>5 DEF Tells
  <2>6. ASSUME NEW v \in Stories, SprintOf(at'[v]) # SprintOf(Start[v])
        PROVE  \E i \in 1..(n + 1) : done'[i].op = "reparent-story" /\ done'[i].key = at'[v]
    <3>1. PICK i \in 1..n : done[i].op = "reparent-story" /\ done[i].key = at[v]
      BY <1>2, <1>5, <2>1, <2>6 DEF Tells
    <3> QED
      BY <1>8, <2>1, <3>1
  <2>7. ASSUME NEW e \in Epics, folder'[e] # "planned" \/ e \in reasons'
        PROVE  \E i \in 1..(n + 1) : done'[i].op = "retire-epic" /\ done'[i].epic = e
    <3>1. CASE o.op = "retire-epic" /\ o.epic = e
      BY <1>8, <2>1, <3>1
    <3>2. CASE ~(o.op = "retire-epic" /\ o.epic = e)
      <4>1. folder[e] # "planned" \/ e \in reasons
        BY <1>2, <2>1, <2>7, <3>2 DEF ReorgTypeOK
      <4>2. PICK i \in 1..n : done[i].op = "retire-epic" /\ done[i].epic = e
        BY <1>2, <1>5, <4>1 DEF Tells
      <4> QED
        BY <1>8, <4>2
    <3> QED
      BY <3>1, <3>2
  <2> QED
    BY <1>8, <1>9, <2>2, <2>4, <2>5, <2>6, <2>7 DEF Tells
<1> QED
  BY <1>10, <1>11

\* The journal read from its end.
LEMMA ReadBackwards ==
  ASSUME NEW seq, AreProper(seq), Tells(seq), RetiresLast(seq)
  PROVE  Tells(Reverse(seq)) /\ RetiresFirst(Reverse(seq))
<1>1. PICK n \in Nat : n = Len(seq)
  BY DEF AreProper
<1>2. PICK r : r = Reverse(seq)
  OBVIOUS
<1>3. /\ Len(r) = n
      /\ \A i \in 1..n : n - i + 1 \in 1..n /\ r[i] = seq[n - i + 1] /\ r[n - i + 1] = seq[i]
  BY <1>1, <1>2, ReverseIsProper
<1>4. RetiresFirst(r)
  <2>1. ASSUME NEW i \in 1..n, NEW j \in 1..n, i < j, r[j].op = "retire-epic"
        PROVE  r[i].op = "retire-epic"
    <3>1. PICK a \in 1..n, b \in 1..n : a = n - j + 1 /\ b = n - i + 1 /\ a < b
      BY <2>1
    <3>2. r[j] = seq[a] /\ r[i] = seq[b]
      BY <1>3, <3>1
    <3> QED
      BY <1>1, <2>1, <3>1, <3>2 DEF RetiresLast
  <2> QED
    BY <1>3, <2>1 DEF RetiresFirst
<1>5. ASSUME NEW i \in 1..n, r[i].op = "reparent-story"
      PROVE  \E w \in Stories : /\ r[i].key = at[w] /\ r[i].to = SprintOf(Start[w])
                                /\ SprintOf(at[w]) # SprintOf(Start[w])
  <2>1. PICK a \in 1..n : r[i] = seq[a]
    BY <1>3
  <2> QED
    BY <1>1, <1>5, <2>1 DEF Tells
<1>6. ASSUME NEW i \in 1..n, NEW j \in 1..n,
             r[i].op = "reparent-story", r[j].op = "reparent-story", r[i].key = r[j].key
      PROVE  i = j
  <2>1. PICK a \in 1..n, b \in 1..n : a = n - i + 1 /\ b = n - j + 1
    BY <1>3
  <2>2. r[i] = seq[a] /\ r[j] = seq[b]
    BY <1>3, <2>1
  <2>3. a = b
    BY <1>1, <1>6, <2>2 DEF Tells
  <2> QED
    BY <2>1, <2>3
<1>7. ASSUME NEW w \in Stories, SprintOf(at[w]) # SprintOf(Start[w])
      PROVE  \E i \in 1..n : r[i].op = "reparent-story" /\ r[i].key = at[w]
  <2>1. PICK i \in 1..n : seq[i].op = "reparent-story" /\ seq[i].key = at[w]
    BY <1>1, <1>7 DEF Tells
  <2> QED
    BY <1>3, <2>1
<1>8. ASSUME NEW e \in Epics, folder[e] # "planned" \/ e \in reasons
      PROVE  \E i \in 1..n : r[i].op = "retire-epic" /\ r[i].epic = e
  <2>1. PICK i \in 1..n : seq[i].op = "retire-epic" /\ seq[i].epic = e
    BY <1>1, <1>8 DEF Tells
  <2> QED
    BY <1>3, <2>1
<1>9. Tells(r)
  BY <1>3, <1>5, <1>6, <1>7, <1>8 DEF Tells
<1> QED
  BY <1>2, <1>4, <1>9

\* Nothing interfered: the undo finds what it needs.
LEMMA UndoMayRun ==
  ASSUME ReorgTyped, JournalInv, stage = "undoing", drift = "none", ops # <<>>,
         Head(ops).op = "reparent-story"
  PROVE  CanReparent(Head(ops).key, Head(ops).to)
<1>0. PICK o : o = Head(ops)
  OBVIOUS
<1>1. /\ ReorgTypeOK /\ AreProper(ops) /\ Tells(ops) /\ RetiresFirst(ops) /\ StoriesKept
  BY DEF ReorgTyped, JournalInv
<1>2. o = ops[1] /\ 1 \in 1..Len(ops) /\ o.op = "reparent-story"
  BY <1>0, <1>1, TailOfProper
<1>3. \A e \in Epics : folder[e] = "planned"
  <2>1. SUFFICES ASSUME NEW e \in Epics, folder[e] # "planned" PROVE FALSE
    OBVIOUS
  <2>2. PICK i \in 1..Len(ops) : ops[i].op = "retire-epic"
    BY <1>1, <2>1 DEF Tells
  <2>3. i # 1
    BY <1>2, <2>2
  <2>4. 1 < i
    BY <2>2, <2>3
  <2>5. ops[1].op = "retire-epic"
    BY <1>1, <1>2, <2>2, <2>4 DEF RetiresFirst
  <2> QED
    BY <1>2, <2>5
<1>4. PICK w \in Stories : o.key = at[w] /\ o.to = SprintOf(Start[w])
  BY <1>1, <1>2 DEF Tells
<1>5. w \in Works /\ at[w] # Unborn /\ at[w] \in Keys /\ o.to \in sprints
  BY <1>1, <1>4 DEF Stories, StoriesKept, ReorgTypeOK
<1>6. at[w][1] \in Epics /\ o.to[1] \in Epics
  BY <1>1, <1>5, KeyShape, SprintShape DEF ReorgTypeOK
<1> QED
  BY <1>0, <1>3, <1>4, <1>5, <1>6 DEF CanReparent, PlannedKeys, PlannedSprints, IsPlanned

\* An undo step takes back what its entry tells.
LEMMA UndoIsTold ==
  ASSUME ReorgTyped, JournalInv, Undo, drift = "none"
  PROVE  StoriesKept' /\ Tells(ops)' /\ RetiresFirst(ops)'
<1>0. PICK o : o = Head(ops)
  OBVIOUS
<1>1. /\ ReorgTypeOK /\ AreProper(ops) /\ Tells(ops) /\ RetiresFirst(ops) /\ StoriesKept
      /\ stage = "undoing" /\ ops # <<>> /\ ops' = Tail(ops)
  BY DEF ReorgTyped, JournalInv, Undo
<1>2. /\ o = ops[1] /\ 1 \in 1..Len(ops) /\ o \in Operations
      /\ \A i \in 1..Len(ops') : i + 1 \in 1..Len(ops) /\ ops'[i] = ops[i + 1]
      /\ \A i \in 1..Len(ops) :
           i = 1 \/ (i - 1 \in 1..Len(ops') /\ ops'[i - 1] = ops[i])
  BY <1>0, <1>1, TailOfProper
<1>3. RetiresFirst(ops)'
  <2>1. ASSUME NEW i \in 1..Len(ops'), NEW j \in 1..Len(ops'), i < j, ops'[j].op = "retire-epic"
        PROVE  ops'[i].op = "retire-epic"
    <3>1. i + 1 \in 1..Len(ops) /\ j + 1 \in 1..Len(ops) /\ i + 1 < j + 1
      BY <1>2, <2>1
    <3> QED
      BY <1>1, <1>2, <2>1, <3>1 DEF RetiresFirst
  <2> QED
    BY <2>1 DEF RetiresFirst
<1>4. ASSUME NEW i \in 1..Len(ops'), NEW j \in 1..Len(ops'),
             ops'[i].op = "reparent-story", ops'[j].op = "reparent-story",
             ops'[i].key = ops'[j].key
      PROVE  i = j
  <2>1. i + 1 \in 1..Len(ops) /\ j + 1 \in 1..Len(ops)
    BY <1>2
  <2>2. i + 1 = j + 1
    BY <1>1, <1>2, <1>4, <2>1 DEF Tells
  <2> QED
    BY <2>2
<1>5. CASE o.op = "reparent-story"
  <2>1. CanReparent(o.key, o.to) /\ DoReparent(o.key, o.to)
    BY <1>0, <1>5 DEF Undo
  <2>2. PICK w \in Stories : /\ o.key = at[w] /\ o.to = SprintOf(Start[w])
                             /\ SprintOf(at[w]) # SprintOf(Start[w])
    BY <1>1, <1>2, <1>5 DEF Tells
  <2>3. w \in Works /\ at[w] # Unborn /\ o.to \in Sprints
    BY <1>1, <2>2 DEF Stories, StoriesKept, ReorgTypeOK
  <2>4. PICK new : new = NewKey(at[w], o.to)
    OBVIOUS
  <2>5. /\ at' = [at EXCEPT ![w] = new] /\ new \in Keys /\ SprintOf(new) = o.to
        /\ UNCHANGED <<folder, reasons, sprints>>
    BY <1>1, <2>1, <2>2, <2>3, <2>4, ReparentStep
  <2>6. at'[w] = new /\ \A v \in Works : v # w => at'[v] = at[v]
    BY <1>1, <2>3, <2>5 DEF ReorgTypeOK
  <2>7. StoriesKept'
    BY <1>1, <2>2, <2>5, <2>6, KeysAreBorn DEF StoriesKept, Stories
  <2>8. ASSUME NEW i \in 1..Len(ops'), ops'[i].op = "reparent-story"
        PROVE  \E v \in Stories : /\ ops'[i].key = at'[v] /\ ops'[i].to = SprintOf(Start[v])
                                  /\ SprintOf(at'[v]) # SprintOf(Start[v])
    <3>1. i + 1 \in 1..Len(ops) /\ ops'[i] = ops[i + 1] /\ i + 1 # 1
      BY <1>2
    <3>2. PICK v \in Stories : /\ ops'[i].key = at[v] /\ ops'[i].to = SprintOf(Start[v])
                               /\ SprintOf(at[v]) # SprintOf(Start[v])
      BY <1>1, <2>8, <3>1 DEF Tells
    <3>3. v # w
      <4>1. ops[i + 1].key # ops[1].key
        BY <1>1, <1>2, <1>5, <2>8, <3>1 DEF Tells
      <4> QED
        BY <1>2, <2>2, <3>1, <3>2, <4>1
    <3> QED
      BY <2>6, <3>2, <3>3 DEF Stories
  <2>9. ASSUME NEW v \in Stories, SprintOf(at'[v]) # SprintOf(Start[v])
        PROVE  \E i \in 1..Len(ops') : ops'[i].op = "reparent-story" /\ ops'[i].key = at'[v]
    <3>1. v # w /\ v \in Works /\ at'[v] = at[v] /\ at[v] # Unborn
      BY <1>1, <2>2, <2>5, <2>6, <2>9 DEF Stories, StoriesKept
    <3>2. PICK i \in 1..Len(ops) : ops[i].op = "reparent-story" /\ ops[i].key = at[v]
      BY <1>1, <2>9, <3>1 DEF Tells
    <3>3. at[v] # at[w]
      BY <1>1, <2>3, <3>1 DEF ReorgTypeOK
    <3>4. i - 1 \in 1..Len(ops') /\ ops'[i - 1] = ops[i]
      BY <1>2, <2>2, <3>2, <3>3
    <3> QED
      BY <3>1, <3>2, <3>4
  <2>10. ASSUME NEW e \in Epics, folder'[e] # "planned" \/ e \in reasons'
         PROVE  \E i \in 1..Len(ops') : ops'[i].op = "retire-epic" /\ ops'[i].epic = e
    <3>1. PICK i \in 1..Len(ops) : ops[i].op = "retire-epic" /\ ops[i].epic = e
      BY <1>1, <2>5, <2>10 DEF Tells
    <3>2. i - 1 \in 1..Len(ops') /\ ops'[i - 1] = ops[i]
      BY <1>2, <1>5, <3>1
    <3> QED
      BY <3>1, <3>2
  <2>11. Tells(ops)'
    BY <1>4, <2>8, <2>9, <2>10 DEF Tells
  <2> QED
    BY <1>3, <2>7, <2>11
<1>6. CASE o.op # "reparent-story"
  <2>1. /\ at' = at /\ sprints' = sprints
        /\ \/ o.op = "create-sprint" /\ UNCHANGED <<folder, reasons>>
           \/ /\ o.op = "retire-epic" /\ folder' = [folder EXCEPT ![o.epic] = "planned"]
              /\ reasons' = reasons \ {o.epic}
    BY <1>0, <1>6 DEF Undo, DoUnretire, plan
  <2>2. StoriesKept'
    BY <1>1, <2>1 DEF StoriesKept
  <2>3. ASSUME NEW i \in 1..Len(ops'), ops'[i].op = "reparent-story"
        PROVE  \E v \in Stories : /\ ops'[i].key = at'[v] /\ ops'[i].to = SprintOf(Start[v])
                                  /\ SprintOf(at'[v]) # SprintOf(Start[v])
    <3>1. i + 1 \in 1..Len(ops) /\ ops'[i] = ops[i + 1]
      BY <1>2
    <3> QED
      BY <1>1, <2>1, <2>3, <3>1 DEF Tells
  <2>4. ASSUME NEW v \in Stories, SprintOf(at'[v]) # SprintOf(Start[v])
        PROVE  \E i \in 1..Len(ops') : ops'[i].op = "reparent-story" /\ ops'[i].key = at'[v]
    <3>1. PICK i \in 1..Len(ops) : ops[i].op = "reparent-story" /\ ops[i].key = at[v]
      BY <1>1, <2>1, <2>4 DEF Tells
    <3>2. i - 1 \in 1..Len(ops') /\ ops'[i - 1] = ops[i]
      BY <1>2, <1>6, <3>1
    <3> QED
      BY <2>1, <3>1, <3>2
  <2>5. ASSUME NEW e \in Epics, folder'[e] # "planned" \/ e \in reasons'
        PROVE  \E i \in 1..Len(ops') : ops'[i].op = "retire-epic" /\ ops'[i].epic = e
    <3>1. (folder[e] # "planned" \/ e \in reasons) /\ ~(o.op = "retire-epic" /\ o.epic = e)
      BY <1>1, <2>1, <2>5 DEF ReorgTypeOK
    <3>2. PICK i \in 1..Len(ops) : ops[i].op = "retire-epic" /\ ops[i].epic = e
      BY <1>1, <3>1 DEF Tells
    <3>3. i - 1 \in 1..Len(ops') /\ ops'[i - 1] = ops[i]
      BY <1>2, <3>1, <3>2
    <3> QED
      BY <3>2, <3>3
  <2>6. Tells(ops)'
    BY <1>4, <2>3, <2>4, <2>5 DEF Tells
  <2> QED
    BY <1>3, <2>2, <2>6
<1> QED
  BY <1>5, <1>6

-----------------------------------------------------------------------------
(* Other sessions.                                                          *)

\* Whatever another session does to the planned work shows in its digest.
LEMMA DriftShows ==
  ASSUME ReorgTypeOK, DriftReparent \/ DriftPromote \/ DriftMove
  PROVE  PlanShape' # PlanShape
<1>1. CASE DriftReparent
  <2>1. PICK key \in PlannedKeys, to \in PlannedSprints : to # SprintOf(key) /\ DoReparent(key, to)
    BY <1>1 DEF DriftReparent
  <2>2. PICK w \in Works : at[w] = key /\ at[w] # Unborn
    BY <2>1, ReparentOf
  <2>3. to \in Sprints
    BY <2>1, ReparentOf
  <2>4. PICK new : new = NewKey(at[w], to)
    OBVIOUS
  <2>5. at' = [at EXCEPT ![w] = new] /\ new # at[w]
    BY <2>1, <2>2, <2>3, <2>4, ReparentStep
  <2>6. \A v \in Works : at'[v] # key
    BY <2>2, <2>5 DEF ReorgTypeOK
  <2>7. key \notin PlannedKeys'
    BY <2>6 DEF PlannedKeys
  <2>8. PlannedKeys' # PlannedKeys
    BY <2>1, <2>7
  <2> QED
    BY <2>8 DEF PlanShape
<1>2. CASE DriftPromote
  <2>1. PICK w \in Works, s \in PlannedSprints :
          /\ at[w] = Unborn /\ Allocated(s) <= MaxNum
          /\ at' = [at EXCEPT ![w] = <<s[1], s[2], Allocated(s)>>]
    BY <1>2 DEF DriftPromote
  <2>2. s \in Sprints /\ folder[s[1]] = "planned" /\ folder' = folder /\ Keyed
        /\ next \in [Sprints -> 0..(MaxNum + 1)]
    BY <1>2 DEF DriftPromote, PlannedSprints, ReorgTypeOK, Keyed
  <2>3. PICK key : key = <<s[1], s[2], Allocated(s)>>
    OBVIOUS
  <2>4. key \in Keys /\ (\A v \in Works : at[v] # key)
    BY <2>1, <2>2, <2>3, HandedOut
  <2>5. at'[w] = key /\ key # Unborn /\ key[1] = s[1]
    BY <2>1, <2>2, <2>3, <2>4, KeysAreBorn DEF Keyed
  <2>6. key \in PlannedKeys'
    BY <2>2, <2>5 DEF PlannedKeys, IsPlanned
  <2>7. key \notin PlannedKeys
    BY <2>4 DEF PlannedKeys
  <2>8. PlannedKeys' # PlannedKeys
    BY <2>6, <2>7
  <2> QED
    BY <2>8 DEF PlanShape
<1>3. CASE DriftMove
  <2>1. PICK e \in Epics : folder[e] = "planned" /\ folder' = [folder EXCEPT ![e] = "active"]
    BY <1>3 DEF DriftMove
  <2>2. folder'[e] # "planned"
    BY <2>1 DEF ReorgTypeOK
  <2>3. {x \in Epics : folder[x] = "planned"} # {x \in Epics : folder'[x] = "planned"}
    BY <2>1, <2>2
  <2> QED
    BY <2>3 DEF PlanShape
<1> QED
  BY <1>1, <1>2, <1>3

-----------------------------------------------------------------------------
(* The invariant.                                                           *)

LEMMA ReorgInvAtFirst == ReorgInit => ReorgInv
<1> SUFFICES ASSUME ReorgInit PROVE ReorgInv
  OBVIOUS
<1>1. stage = "idle" /\ drift = "none" /\ StoriesKept
  <2>1. stage = "idle" /\ drift = "none" /\ at = Start
        /\ sprints = {SprintOf(Start[w]) : w \in Stories}
    BY DEF ReorgInit, Stories
  <2> QED
    BY <2>1 DEF StoriesKept
<1> QED
  BY <1>1, ReorgAtFirst DEF ReorgInv, ApplyInv, JournalInv, DigestInv

\* A disturbance is remembered.
LEMMA DriftIsKept ==
  ASSUME ReorgTyped, ReorgNext
  PROVE  drift' = drift \/ (drift = "none" /\ drift' = stage /\ drift' # "none")
BY DEF ReorgNext, Propose, Apply, ApplyRefused, Interrupt, Rediff, RecordHash, RecordSave,
       UndoClaim, Undo, UndoRefused, UndoFinish, Drift, ReorgTyped, ReorgTypeOK, Stages

\* Undisturbed, no command is refused.
LEMMA NoneIsRefused ==
  ASSUME ReorgTyped, ApplyInv, JournalInv, drift = "none"
  PROVE  ~ApplyRefused /\ ~UndoRefused
<1>1. ASSUME ApplyRefused PROVE FALSE
  BY <1>1, HeadMayRun DEF ApplyRefused
<1>2. ASSUME UndoRefused PROVE FALSE
  BY <1>2, UndoMayRun DEF UndoRefused
<1> QED
  BY <1>1, <1>2

LEMMA ApplyInvStep ==
  ASSUME ReorgInv, ReorgNext
  PROVE  ApplyInv'
<1> SUFFICES ASSUME drift' = "none" PROVE ApplyInv'
  BY DEF ApplyInv
<1>0. drift = "none"
  BY DriftIsKept DEF ReorgInv
<1>1. CASE Propose
  BY <1>1, ProposeStep DEF ReorgInv
<1>2. CASE Apply
  BY <1>2, ApplyKeepsItsInvariant DEF ReorgInv
<1>3. CASE Interrupt \/ Drift
  BY <1>3, <1>0, DriftIsKept DEF Interrupt, Drift, ReorgInv, ReorgTyped, ReorgTypeOK, Stages
<1>4. CASE Undo
  BY <1>4 DEF Undo, ApplyInv
<1>5. CASE \/ ApplyRefused \/ Rediff \/ RecordHash \/ RecordSave \/ UndoClaim
           \/ UndoRefused \/ UndoFinish
  BY <1>5 DEF ApplyRefused, Rediff, RecordHash, RecordSave, UndoClaim, UndoRefused, UndoFinish,
              TurnTo, ApplyInv
<1> QED
  BY <1>1, <1>2, <1>3, <1>4, <1>5 DEF ReorgNext

LEMMA JournalInvStep ==
  ASSUME ReorgInv, ReorgNext
  PROVE  JournalInv'
<1> SUFFICES ASSUME drift' = "none" PROVE JournalInv'
  BY DEF JournalInv
<1>0. drift = "none" /\ ReorgTyped /\ ApplyInv /\ JournalInv
  BY DriftIsKept DEF ReorgInv
<1>1. CASE Propose
  BY <1>1, ProposeStep DEF ReorgInv
<1>2. CASE Apply
  <2>1. StoriesKept' /\ Tells(done)' /\ RetiresLast(done)'
    BY <1>0, <1>2, ApplyIsTold
  <2>2. stage' \in {"applying", "hashing"}
    BY <1>2 DEF Apply, TurnTo
  <2> QED
    BY <2>1, <2>2 DEF JournalInv
<1>3. CASE Interrupt \/ Drift
  BY <1>3, <1>0, DriftIsKept DEF Interrupt, Drift, ReorgTyped, ReorgTypeOK, Stages
<1>4. CASE ApplyRefused \/ UndoRefused \/ Rediff
  BY <1>0, <1>4, NoneIsRefused DEF Rediff, JournalInv
<1>5. CASE Undo
  <2>1. StoriesKept' /\ Tells(ops)' /\ RetiresFirst(ops)'
    BY <1>0, <1>5, UndoIsTold
  <2>2. stage' = "undoing"
    BY <1>5 DEF Undo
  <2> QED
    BY <2>1, <2>2 DEF JournalInv
<1>6. CASE RecordHash \/ RecordSave
  <2>1. /\ UNCHANGED <<plan, done>> /\ StoriesKept /\ Tells(done) /\ RetiresLast(done)
        /\ stage' \in {"recording", "recorded"}
    BY <1>0, <1>6 DEF RecordHash, RecordSave, TurnTo, JournalInv
  <2>2. StoriesKept' /\ Tells(done)' /\ RetiresLast(done)'
    BY <2>1 DEF plan, StoriesKept, Tells, RetiresLast
  <2> QED
    BY <2>1, <2>2 DEF JournalInv
<1>7. CASE UndoClaim
  <2>1. /\ UNCHANGED <<plan, done>> /\ StoriesKept /\ Tells(done) /\ RetiresLast(done)
        /\ stage' = "undoing" /\ ops' = Reverse(done) /\ AreProper(done)
    BY <1>0, <1>7 DEF UndoClaim, UndoOrder, TurnTo, JournalInv, ReorgTyped
  <2>2. PICK seq : seq = Reverse(done)
    OBVIOUS
  <2>3. Tells(seq) /\ RetiresFirst(seq) /\ ops' = seq
    BY <2>1, <2>2, ReadBackwards
  <2>4. StoriesKept' /\ Tells(ops)' /\ RetiresFirst(ops)'
    BY <2>1, <2>3 DEF plan, StoriesKept, Tells, RetiresFirst
  <2> QED
    BY <2>1, <2>4 DEF JournalInv
<1>8. CASE UndoFinish
  <2>1. /\ UNCHANGED <<plan, ops>> /\ StoriesKept /\ Tells(ops) /\ RetiresFirst(ops)
        /\ stage' = "undone" /\ ops' = <<>>
    BY <1>0, <1>8 DEF UndoFinish, TurnTo, JournalInv
  <2>2. StoriesKept' /\ Tells(ops)' /\ RetiresFirst(ops)'
    BY <2>1 DEF plan, StoriesKept, Tells, RetiresFirst
  <2> QED
    BY <2>1, <2>2 DEF JournalInv
<1> QED
  BY <1>1, <1>2, <1>3, <1>4, <1>5, <1>6, <1>7, <1>8 DEF ReorgNext

LEMMA DigestInvStep ==
  ASSUME ReorgInv, ReorgNext
  PROVE  DigestInv'
<1>0. ReorgTyped /\ ReorgTypeOK /\ ReorgAtStart /\ JournalInv /\ DigestInv
  BY DEF ReorgInv, ReorgTyped
<1>1. CASE Propose
  BY <1>0, <1>1, ProposeStep
<1>2. CASE Apply \/ ApplyRefused \/ Rediff
  BY <1>0, <1>2 DEF Apply, ApplyRefused, Rediff, TurnTo, DigestInv
<1>3. CASE Interrupt
  BY <1>0, <1>3 DEF Interrupt, TurnTo, DigestInv
<1>4. CASE RecordHash
  <2>1. /\ stage = "hashing" /\ stage' = "recording" /\ drift' = drift
        /\ UNCHANGED <<at, folder, sprints>>
    BY <1>4 DEF RecordHash, TurnTo, plan
  <2>2. entry'.hash = PlanShape
    BY <1>4 DEF RecordHash
  <2>3. PlanShape' = PlanShape
    BY <2>1 DEF PlanShape, PlannedSprints, PlannedKeys, IsPlanned
  <2> QED
    BY <1>0, <2>1, <2>2, <2>3 DEF DigestInv
<1>5. CASE RecordSave
  <2>1. /\ stage = "recording" /\ stage' = "recorded" /\ drift' = drift /\ entry' = entry
        /\ UNCHANGED <<at, folder, sprints>>
    BY <1>5 DEF RecordSave, TurnTo, plan
  <2>2. PlanShape' = PlanShape
    BY <2>1 DEF PlanShape, PlannedSprints, PlannedKeys, IsPlanned
  <2> QED
    BY <1>0, <2>1, <2>2 DEF DigestInv
<1>6. CASE UndoClaim
  BY <1>0, <1>6 DEF UndoClaim, IsUndoable, TurnTo, DigestInv
<1>7. CASE Undo
  BY <1>0, <1>7 DEF Undo, DigestInv
<1>8. CASE UndoRefused \/ UndoFinish
  BY <1>0, <1>8 DEF UndoRefused, UndoFinish, TurnTo, DigestInv
<1>9. CASE Drift
  <2>1. /\ stage \notin {"idle", "undone", "rediffed"} /\ drift = "none" /\ drift' = stage
        /\ stage' = stage /\ entry' = entry
    BY <1>9 DEF Drift
  <2>2. stage \notin {"refused", "stopped", "undorefused"}
    BY <1>0, <2>1 DEF JournalInv
  <2>3. PlanShape' # PlanShape
    BY <1>0, <1>9, DriftShows DEF Drift
  <2> QED
    BY <1>0, <2>1, <2>2, <2>3 DEF DigestInv
<1> QED
  BY <1>1, <1>2, <1>3, <1>4, <1>5, <1>6, <1>7, <1>8, <1>9 DEF ReorgNext

LEMMA ReorgInvStep == ReorgInv /\ [ReorgNext]_reorgVars => ReorgInv'
<1> SUFFICES ASSUME ReorgInv, [ReorgNext]_reorgVars PROVE ReorgInv'
  OBVIOUS
<1>1. ReorgTyped' /\ ReorgAtStart'
  BY ReorgTypedStep DEF ReorgInv
<1>2. CASE ReorgNext
  BY <1>1, <1>2, ApplyInvStep, JournalInvStep, DigestInvStep DEF ReorgInv
<1>3. CASE UNCHANGED reorgVars
  <2>1. ApplyInv'
    BY <1>3 DEF reorgVars, ReorgInv, ApplyInv, Agreed, OnTheWay, KeysInOrder, Pending, InTurn,
                MayRun, NothingMissing, Moves, Dest, MoveBefore
  <2>2. JournalInv' /\ DigestInv'
    BY <1>3 DEF reorgVars, ReorgInv, JournalInv, StoriesKept, Tells, RetiresLast, RetiresFirst,
                DigestInv, PlanShape, PlannedSprints, PlannedKeys, IsPlanned
  <2> QED
    BY <1>1, <2>1, <2>2 DEF ReorgInv
<1> QED
  BY <1>2, <1>3

-----------------------------------------------------------------------------
(* What follows from it.                                                    *)

\* Equal destinations: `order` decides.
LEMMA OrderDecides ==
  ASSUME NEW t, Agreed(t), NEW k \in DOMAIN t.rows, NEW l \in DOMAIN t.rows,
         t.rows[k].to = t.rows[l].to, OrderOf(t, k) < OrderOf(t, l)
  PROVE  MoveBefore(t, k, l)
<1> DEFINE T(x) == t.rows[x].to \o <<OrderOf(t, x)>> \o x
<1>1. ASSUME NEW x \in DOMAIN t.rows
      PROVE  /\ Len(T(x)) = 6 /\ T(x)[1] = t.rows[x].to[1] /\ T(x)[2] = t.rows[x].to[2]
             /\ T(x)[3] = OrderOf(t, x)
  <2>1. PICK m : m = T(x)
    OBVIOUS
  <2>2. /\ Len(m) = 6 /\ m[1] = t.rows[x].to[1] /\ m[2] = t.rows[x].to[2]
        /\ m[3] = OrderOf(t, x)
    BY <2>1, MoveTuple, ZenonT(60)
  <2> QED
    BY <2>1, <2>2
<1>2. MoveBefore(t, k, l) <=> TupleBefore(T(k), T(l))
  BY DEF MoveBefore
<1> HIDE DEF T
<1>3. PICK a, b : a = T(k) /\ b = T(l)
  OBVIOUS
<1>4. /\ Len(a) = 6 /\ a[1] = b[1] /\ a[2] = b[2] /\ a[3] < b[3]
  BY <1>1, <1>3
<1>5. 3 \in 1..Len(a) /\ \A j \in 1..(3 - 1) : a[j] = b[j]
  BY <1>4
<1>6. TupleBefore(a, b)
  BY <1>4, <1>5 DEF TupleBefore
<1> QED
  BY <1>2, <1>3, <1>6

LEMMA AllIsApplied == ReorgInv => AppliedIsTheTarget
<1> SUFFICES ASSUME ReorgInv, stage = "hashing", drift = "none" PROVE AppliedIsTheTarget
  BY DEF AppliedIsTheTarget, Undisturbed
<1>0. PICK t : t = target
  OBVIOUS
<1>1. /\ Agreed(t) /\ OnTheWay(t) /\ KeysInOrder(t) /\ NothingMissing(t, ops) /\ ops = <<>>
      /\ ReorgTypeOK /\ was = Start /\ StoriesKept
  BY <1>0 DEF ReorgInv, ReorgTyped, ApplyInv, Pending, JournalInv
<1>2. \A i \in 1..Len(ops) : FALSE
  BY <1>1
<1>3. /\ \A w \in Works : Moves(t, w) => at[w] # Start[w]
      /\ \A e \in t.retire : folder[e] # "planned"
  BY <1>1, <1>2 DEF NothingMissing
<1>4. \A e \in Epics : /\ folder[e] = "archived" <=> e \in t.retire
                       /\ folder[e] # "archived" => folder[e] = "planned"
  BY <1>1, <1>3 DEF OnTheWay
<1>5. ASSUME NEW w \in Stories, Start[w] \in DOMAIN t.rows
      PROVE  IsPlanned(w) /\ SprintOf(at[w]) = Dest(t, w)
  <2>1. w \in Works /\ Start[w] \in Keys /\ at[w] # Unborn /\ at[w] \in Keys
    BY <1>1, ReorgAssumption DEF Stories, StoriesKept, ReorgTypeOK
  <2>2. SprintOf(at[w]) = Dest(t, w)
    BY <1>1, <1>3, <1>5, <2>1 DEF OnTheWay, Moves
  <2>3. at[w][1] \in Epics /\ at[w][1] \notin t.retire
    <3>1. at[w][1] = SprintOf(at[w])[1]
      BY DEF SprintOf
    <3> QED
      BY <1>1, <1>5, <2>1, <2>2, <3>1, KeyShape DEF Agreed, Dest
  <2> QED
    BY <1>4, <2>1, <2>2, <2>3 DEF IsPlanned
<1>6. ASSUME NEW w \in Works, IsPlanned(w)
      PROVE  w \in Stories /\ Start[w] \in DOMAIN t.rows
  <2>1. w \in Stories /\ Start[w] \in Keys
    BY <1>1, <1>6, ReorgAssumption DEF IsPlanned, StoriesKept, Stories
  <2>2. SUFFICES ASSUME Start[w] \notin DOMAIN t.rows PROVE FALSE
    BY <2>1
  <2>3. at[w] = Start[w] /\ Start[w][1] \in t.retire
    BY <1>1, <2>1, <2>2 DEF OnTheWay, Moves, Agreed
  <2> QED
    BY <1>3, <1>6, <2>3 DEF IsPlanned
<1>7. ASSUME NEW w \in Works, was[w] \in DOMAIN t.rows
      PROVE  IsPlanned(w) /\ Sprint(w) = t.rows[was[w]].to
  <2>1. w \in Stories
    BY <1>1, <1>7 DEF Agreed, Stories
  <2> QED
    BY <1>1, <1>5, <1>7, <2>1 DEF Sprint, Dest
<1>8. ASSUME NEW w \in Works, IsPlanned(w), NEW v \in Needs[w]
      PROVE  /\ folder[at[v][1]] # "archived"
             /\ IsPlanned(v) /\ at[v][1] = at[w][1] =>
                  /\ Sprint(v)[2] <= Sprint(w)[2]
                  /\ Sprint(v) = Sprint(w) /\ IsSequenced(v) /\ IsSequenced(w) => at[v][3] < at[w][3]
  <2>1. w \in Stories /\ Start[w] \in DOMAIN t.rows
    BY <1>6, <1>8
  <2>2. v \in Works /\ v \in Stories
    BY <1>8, ReorgAssumption DEF Stories
  <2>3. /\ Start[v] \in DOMAIN t.rows
        /\ Dest(t, v)[1] = Dest(t, w)[1] =>
             /\ Dest(t, v)[2] <= Dest(t, w)[2]
             /\ Dest(t, v) = Dest(t, w) /\ IsRanked(t, v) /\ IsRanked(t, w) =>
                  OrderOf(t, Start[v]) < OrderOf(t, Start[w])
    BY <1>1, <1>8, <2>1 DEF Agreed
  <2>4. IsPlanned(v) /\ Sprint(v) = Dest(t, v) /\ Sprint(w) = Dest(t, w)
    BY <1>5, <2>1, <2>2, <2>3 DEF Sprint
  <2>5. folder[at[v][1]] # "archived"
    BY <2>4 DEF IsPlanned
  <2>6. CASE at[v][1] # at[w][1]
    BY <2>5, <2>6
  <2>7. CASE at[v][1] = at[w][1]
    <3>1. Dest(t, v)[1] = Dest(t, w)[1]
      <4>1. Sprint(v)[1] = at[v][1] /\ Sprint(w)[1] = at[w][1]
        BY DEF Sprint, SprintOf
      <4> QED
        BY <2>4, <2>7, <4>1
    <3>2. ASSUME Sprint(v) = Sprint(w), IsSequenced(v), IsSequenced(w)
          PROVE  at[v][3] < at[w][3]
      <4>1. Dest(t, v) = Dest(t, w) /\ IsRanked(t, v) /\ IsRanked(t, w)
        BY <1>0, <1>1, <2>4, <3>2 DEF IsSequenced, IsRanked
      <4>2. MoveBefore(t, Start[v], Start[w])
        BY <1>1, <2>1, <2>3, <3>1, <4>1, OrderDecides DEF Dest
      <4>3. Moves(t, v) /\ Moves(t, w) /\ at[w] # Start[w]
        BY <1>1, <2>1, <2>2, <3>2 DEF OnTheWay, IsSequenced, IsMoved, Stories
      <4> QED
        BY <1>1, <2>2, <4>1, <4>2, <4>3 DEF KeysInOrder
    <3> QED
      BY <2>3, <2>4, <2>5, <3>1, <3>2
  <2> QED
    BY <2>6, <2>7
<1> QED
  BY <1>0, <1>4, <1>7, <1>8 DEF AppliedIsTheTarget

LEMMA AllIsPutBack == ReorgInv => UndoPutsBack
<1> SUFFICES ASSUME ReorgInv, stage = "undone", drift \in {"none", "recording", "recorded"}
             PROVE  UndoPutsBack
  BY DEF UndoPutsBack
<1>1. drift = "none"
  BY DEF ReorgInv, DigestInv
<1>2. Tells(ops) /\ ops = <<>> /\ was = Start /\ reasons \subseteq Epics
  BY <1>1 DEF ReorgInv, JournalInv, ReorgTyped, ReorgTypeOK
<1>3. \A i \in 1..Len(ops) : FALSE
  BY <1>2
<1>4. /\ \A w \in Stories : SprintOf(at[w]) = SprintOf(Start[w])
      /\ \A e \in Epics : folder[e] = "planned" /\ e \notin reasons
  BY <1>2, <1>3 DEF Tells
<1> QED
  BY <1>2, <1>4 DEF UndoPutsBack, Sprint, Stories

LEMMA ReorgAlways == ReorgSpec => []ReorgInv
BY ReorgInvAtFirst, ReorgInvStep, PTL DEF ReorgSpec

\* Types: whatever the session and the others do, keys, folders and high-water
\* marks stay what the commands may make of them, and no two stories share a key.
THEOREM ReorgTypesHold == ReorgSpec => []ReorgTypeOK
<1>1. ReorgInv => ReorgTypeOK
  BY DEF ReorgInv, ReorgTyped
<1> QED
  BY <1>1, ReorgAlways, PTL

\* What reorg-derive.py makes of a target that reorg-validate.py accepted can be
\* run to its end, one command after the other: each finds its epic planned, its
\* story planned and its sprint created, unless another session interfered.
THEOREM DerivedOpsAreNeverRefused == ReorgSpec => []OpsAreNeverRefused
<1>1. ReorgInv => OpsAreNeverRefused
  BY DEF ReorgInv, JournalInv, OpsAreNeverRefused, Undisturbed
<1> QED
  BY <1>1, ReorgAlways, PTL

\* Applied in their order, the operations put every story where the target says,
\* retire the epics it names and no others, and hand out keys in the order the
\* validator checked, so that a story still comes after what it needs.
THEOREM ReorgReachesItsTarget == ReorgSpec => []AppliedIsTheTarget
BY AllIsApplied, ReorgAlways, PTL

\* undo_reorg, read backwards from the journal, has every story back in the sprint
\* it came from and every retired epic back in planned/ without its reason.
THEOREM UndoRestoresThePlan == ReorgSpec => []UndoPutsBack
BY AllIsPutBack, ReorgAlways, PTL

\* The digest is the guard undo rests on: a disturbance after the digest was taken
\* and before the undo was claimed is seen, so an undo that was let start is
\* refused nothing on account of it.
THEOREM DigestGuardsTheUndo == ReorgSpec => []UndoRunsThrough
<1>1. ReorgInv => UndoRunsThrough
  BY DEF ReorgInv, ReorgTyped, ReorgTypeOK, JournalInv, DigestInv, UndoRunsThrough, Stages
<1> QED
  BY <1>1, ReorgAlways, PTL
=============================================================================
