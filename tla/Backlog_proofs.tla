---------------------------- MODULE Backlog_proofs ----------------------------
(***************************************************************************)
(* Proofs about the backlog together with the story nodes.                 *)
(*                                                                         *)
(* FP is the module of the two files with its theorems, over the variables *)
(* of this module.  Every step here is one of its steps, so its invariants *)
(* are had for nothing.                                                    *)
(***************************************************************************)
EXTENDS Backlog, TLAPS, SequenceTheorems

FP == INSTANCE IssueStore_proofs

-----------------------------------------------------------------------------
(* The two instances of the files say the same.                             *)

LEMMA FilesAssumption == FP!IssueStoreAssumption /\ Files!IssueStoreAssumption
  BY BacklogAssumption DEF FP!IssueStoreAssumption, Files!IssueStoreAssumption

LEMMA SameData ==
  /\ Files!Keys = FP!Keys /\ Files!Refs = FP!Refs
  /\ Files!Items = FP!Items /\ Files!Entries = FP!Entries
  /\ Files!Stores = FP!Stores /\ Files!EmptyStore = FP!EmptyStore
  BY DEF Files!Keys, FP!Keys, Files!Refs, FP!Refs, Files!Items, FP!Items,
     Files!Entries, FP!Entries, Files!Stores, FP!Stores, Files!EmptyStore, FP!EmptyStore

LEMMA SameLookups ==
  ASSUME NEW st, NEW k
  PROVE  /\ Files!OpenItems(st, k) = FP!OpenItems(st, k)
         /\ Files!ResolvedAt(st, k) = FP!ResolvedAt(st, k)
         /\ Files!IsResolved(st, k) <=> FP!IsResolved(st, k)
         /\ Files!KeysIn(st) = FP!KeysIn(st)
  BY DEF Files!OpenItems, FP!OpenItems, Files!ResolvedAt, FP!ResolvedAt,
     Files!IsResolved, FP!IsResolved, Files!KeysIn, FP!KeysIn

LEMMA SameInit == Files!Init <=> FP!Init
  BY SameData DEF Files!Init, FP!Init

LEMMA SameVars == Files!vars = FP!vars /\ Files!vars' = FP!vars'
  BY DEF Files!vars, FP!vars

LEMMA SameProcStep ==
  ASSUME NEW p
  PROVE  Files!ProcStep(p) <=> FP!ProcStep(p)
  BY Zenon
     DEF Files!ProcStep, FP!ProcStep, Files!AppendStep, FP!AppendStep, Files!ResolveStep,
         FP!ResolveStep, Files!RewriteStep, FP!RewriteStep,
         Files!ReopenStep, FP!ReopenStep, Files!Reseed, FP!Reseed,
         Files!Acquire, FP!Acquire, Files!Release,
         FP!Release, Files!Crash, FP!Crash, Files!Leave, FP!Leave,
         Files!LockIsFree, FP!LockIsFree, Files!SaveOpen, FP!SaveOpen,
         Files!SaveResolved, FP!SaveResolved, Files!OpenFileBody,
         FP!OpenFileBody, Files!NewItem, FP!NewItem, Files!AppendAs,
         FP!AppendAs, Files!AppendAllocated, FP!AppendAllocated,
         Files!AppendExplicit, FP!AppendExplicit, Files!IsNextSuffix,
         FP!IsNextSuffix, Files!RaiseNext, FP!RaiseNext,
         Files!IsSuppressed, FP!IsSuppressed, Files!RefAllowed,
         FP!RefAllowed, Files!KeysIn, FP!KeysIn, Files!ResolveAppend,
         FP!ResolveAppend, Files!WithoutOpen, FP!WithoutOpen,
         Files!ResolveDrop, FP!ResolveDrop, Files!ResolveRerun,
         FP!ResolveRerun, Files!Rewritten, FP!Rewritten, Files!Update,
         FP!Update, Files!ScheduledTo, FP!ScheduledTo,
         Files!IsSchedulable, FP!IsSchedulable, Files!Schedule,
         FP!Schedule, Files!Link, FP!Link, Files!Unschedule,
         FP!Unschedule, Files!IsNewestResolved, FP!IsNewestResolved,
         Files!WithoutResolved, FP!WithoutResolved, Files!RemoveAt,
         FP!RemoveAt, Files!IsReopenable, FP!IsReopenable,
         Files!ReopenAdd, FP!ReopenAdd, Files!DropResolved,
         FP!DropResolved, Files!ReopenDrop, FP!ReopenDrop,
         Files!ReopenRerun, FP!ReopenRerun, Files!OpenItems, FP!OpenItems,
         Files!ResolvedAt, FP!ResolvedAt, Files!IsResolved, FP!IsResolved,
         Files!IsSingleOpen, FP!IsSingleOpen, Files!IsUnresolvedOpen,
         FP!IsUnresolvedOpen, Files!Keys, FP!Keys, Files!Refs, FP!Refs,
         Files!Items, FP!Items, Files!Entries, FP!Entries, Files!Stores,
         FP!Stores, Files!EmptyStore, FP!EmptyStore

LEMMA SameNext == Files!Next <=> FP!Next
  BY SameProcStep, SameData
     DEF Files!Next, FP!Next, Files!HandEdit, FP!HandEdit, Files!HandDelete, FP!HandDelete,
         Files!HandSetNext, FP!HandSetNext, Files!OpenItems, FP!OpenItems, Files!IsResolved,
         FP!IsResolved, Files!ResolvedAt, FP!ResolvedAt, Files!WithoutOpen, FP!WithoutOpen

LEMMA SameType == (Files!TypeOK <=> FP!TypeOK) /\ (Files!TypeOK' <=> FP!TypeOK')
  BY SameData DEF Files!TypeOK, FP!TypeOK

-----------------------------------------------------------------------------
(* Types, and what a verb at a given step was started with.                 *)

Jobs ==
  [verb : EpicLockVerbs \cup FileVerbs \cup StoryVerbs \cup {"none"},
   story : Stories \cup {NoStory}, epic : Epics \cup {NoStory},
   node : Nodes, to : Statuses \cup {"absent"}, keys : SUBSET Keys,
   id : {"none", "1a", "1b", "1c", "1d", "1g", "1j"}]

\* The verb of each step is one its process is used for, and the steps that
\* use job.story have one.
Suits(p, at, j) ==
  /\ at = "idle" => j = NoJob
  /\ at # "idle" => j.verb \in Verbs[p]
  /\ at \in {"body", "repair", "second", "release"} => j.verb \in FileVerbs
  /\ at = "save" => j.verb \in StoryVerbs
  /\ at \in {"hook", "hookKeys"} => j.verb = "set-status"
  /\ at \in {"promote", "mint"} => j.verb = "promote-issue"
  /\ at \in {"schedule", "attach"} => j.verb = "schedule-issue"
  /\ at \in {"items", "unlock"} => j.verb \in EpicLockVerbs
  /\ at \in {"save", "hook", "hookKeys", "schedule", "attach", "items"} =>
       j.story \in Stories
  /\ at = "save" => j.to \in Statuses
  /\ j.id \in {"1c", "1d"} => j.story \in Stories

VerbsInv ==
  TypeOK /\ job \in [Procs -> Jobs] /\ \A p \in Procs : Suits(p, step[p], job[p])

LockFree == {"idle", "save", "hook", "promote", "schedule"}

\* Where a body of the files leaves its process.
LEMMA Bodies ==
  ASSUME Files!TypeOK, NEW p \in Procs
  PROVE  /\ Files!Acquire(p) => pc[p] = "idle" /\ pc' = [pc EXCEPT ![p] = "loaded"]
         /\ Files!AppendStep(p) => pc[p] = "loaded" /\ pc' = pc
         /\ \A it, how, ref : Files!ResolveAppend(p, it, how, ref) =>
              pc[p] = "loaded" /\ pc' = [pc EXCEPT ![p] = "dropOpen"]
         /\ \A it : Files!ResolveRerun(p, it) => pc[p] = "loaded" /\ pc' = pc
         /\ \A it : Files!Unschedule(p, it) => pc[p] = "loaded" /\ pc' = pc
         /\ \A it, s : Files!Link(p, it, s) => pc[p] = "loaded" /\ pc' = pc
         /\ \A its, s : Files!Schedule(p, its, s) => pc[p] = "loaded" /\ pc' = pc
         /\ \A k, i : Files!ReopenAdd(p, k, i) =>
              pc[p] = "loaded" /\ pc' = [pc EXCEPT ![p] = "dropResolved"]
         /\ \A k, i : Files!ReopenRerun(p, k, i) =>
              pc[p] = "loaded" /\ pc' = [pc EXCEPT ![p] = "loaded"]
         /\ Files!ResolveDrop(p) \/ Files!ReopenDrop(p) =>
              pc[p] # "idle" /\ pc' = [pc EXCEPT ![p] = "loaded"]
         /\ Files!Release(p) => pc[p] = "loaded" /\ pc' = [pc EXCEPT ![p] = "idle"]
         /\ Files!Crash(p) => pc' = [pc EXCEPT ![p] = "idle"]
<1>0. pc \in [Procs -> {"idle", "loaded", "dropOpen", "dropResolved"}]
  BY DEF Files!TypeOK
<1>1. Files!Acquire(p) => pc[p] = "idle" /\ pc' = [pc EXCEPT ![p] = "loaded"]
  BY DEF Files!Acquire, Files!LockIsFree
<1>2. Files!AppendStep(p) => pc[p] = "loaded" /\ pc' = pc
  <2>1. \A k, c, sev, kind : Files!AppendAs(p, k, c, sev, kind) => pc' = pc
    BY DEF Files!AppendAs, Files!OpenFileBody
  <2>2. \A c, sev, kind, dup : Files!AppendAllocated(p, c, sev, kind, dup) =>
          pc[p] = "loaded" /\ pc' = pc
    BY <2>1 DEF Files!AppendAllocated
  <2>3. \A c, sev, kind, dup, n : Files!AppendExplicit(p, c, sev, kind, dup, n) =>
          pc[p] = "loaded" /\ pc' = pc
    BY <2>1 DEF Files!AppendExplicit
  <2> QED
    BY <2>2, <2>3 DEF Files!AppendStep
<1>3. \A it, how, ref : Files!ResolveAppend(p, it, how, ref) =>
        pc[p] = "loaded" /\ pc' = [pc EXCEPT ![p] = "dropOpen"]
  BY DEF Files!ResolveAppend
<1>4. \A it : Files!ResolveRerun(p, it) => pc[p] = "loaded" /\ pc' = pc
  BY DEF Files!ResolveRerun, Files!OpenFileBody
<1>5. \A it : Files!Unschedule(p, it) => pc[p] = "loaded" /\ pc' = pc
  BY DEF Files!Unschedule, Files!OpenFileBody
<1>6. \A it, s : Files!Link(p, it, s) => pc[p] = "loaded" /\ pc' = pc
  BY DEF Files!Link, Files!OpenFileBody
<1>7. \A its, s : Files!Schedule(p, its, s) => pc[p] = "loaded" /\ pc' = pc
  BY DEF Files!Schedule, Files!OpenFileBody
<1>8. \A k, i : Files!ReopenAdd(p, k, i) =>
        pc[p] = "loaded" /\ pc' = [pc EXCEPT ![p] = "dropResolved"]
  BY DEF Files!ReopenAdd
<1>9. \A k, i : Files!ReopenRerun(p, k, i) =>
        pc[p] = "loaded" /\ pc' = [pc EXCEPT ![p] = "loaded"]
  BY DEF Files!ReopenRerun, Files!DropResolved
<1>10. Files!ResolveDrop(p) \/ Files!ReopenDrop(p) =>
         pc[p] # "idle" /\ pc' = [pc EXCEPT ![p] = "loaded"]
  BY DEF Files!ResolveDrop, Files!ReopenDrop, Files!DropResolved
<1>11. Files!Release(p) => pc[p] = "loaded" /\ pc' = [pc EXCEPT ![p] = "idle"]
  BY DEF Files!Release, Files!Leave
<1>12. Files!Crash(p) => pc' = [pc EXCEPT ![p] = "idle"]
  BY DEF Files!Crash, Files!Leave
<1> QED
  BY <1>1, <1>2, <1>3, <1>4, <1>5, <1>6, <1>7, <1>8, <1>9, <1>10, <1>11, <1>12

-----------------------------------------------------------------------------
(* Every step is a step of the files or leaves them alone.                  *)

\* What the done hook resolves with is one of the resolutions in use.
HookResolves == "fixed" \in Resolutions

LEMMA RepairWriteIsFileStep ==
  ASSUME HookResolves, VerbsInv, NEW p \in Procs, RepairWrite(p)
  PROVE  Files!ProcStep(p)
<1>1. PICK k \in job[p].keys :
        \/ \E it \in Files!OpenItems(mem[p], k) : RepairItem(p, it)
        \/ \E it \in Files!OpenItems(mem[p], k) :
             job[p].id = "1c" /\ Files!ResolveAppend(p, it, "fixed", job[p].story)
        \/ \E i \in Files!ResolvedAt(mem[p], k) :
             Files!ReopenAdd(p, k, i) \/ Files!ReopenRerun(p, k, i)
  BY DEF RepairWrite
<1>2. k \in Files!Keys
  BY DEF VerbsInv, TypeOK, Keys
<1>3. CASE \E it \in Files!OpenItems(mem[p], k) : RepairItem(p, it)
  <2>1. PICK it \in mem[p].open : RepairItem(p, it)
    BY <1>3 DEF Files!OpenItems
  <2>2. CASE Files!ResolveRerun(p, it)
    BY <2>2 DEF Files!ProcStep, Files!ResolveStep
  <2>3. CASE Files!Unschedule(p, it)
    BY <2>3 DEF Files!ProcStep, Files!RewriteStep
  <2>4. CASE job[p].id = "1d" /\ Files!Link(p, it, job[p].story)
    BY <2>4 DEF Files!ProcStep, Files!RewriteStep, VerbsInv, Suits
  <2> QED
    BY <2>1, <2>2, <2>3, <2>4 DEF RepairItem
<1>4. CASE \E it \in Files!OpenItems(mem[p], k) :
             job[p].id = "1c" /\ Files!ResolveAppend(p, it, "fixed", job[p].story)
  <2>1. job[p].story \in Files!Refs /\ "fixed" \in Resolutions
    BY <1>4 DEF HookResolves, VerbsInv, Suits, Files!Refs
  <2> QED
    BY <1>4, <2>1 DEF Files!ProcStep, Files!ResolveStep, Files!OpenItems
<1>5. CASE \E i \in Files!ResolvedAt(mem[p], k) :
             Files!ReopenAdd(p, k, i) \/ Files!ReopenRerun(p, k, i)
  BY <1>2, <1>5 DEF Files!ProcStep, Files!ReopenStep, Files!ResolvedAt
<1> QED
  BY <1>1, <1>3, <1>4, <1>5

LEMMA HookKeyIsFileStep ==
  ASSUME HookResolves, VerbsInv, NEW p \in Procs, NEW k, HookKey(p, k)
  PROVE  Files!ProcStep(p) \/ UNCHANGED fileVars
<1>1. CASE \E it \in mem[p].open : HookBegin(p, it)
  <2>1. PICK it \in mem[p].open : HookBegin(p, it)
    BY <1>1
  <2>2. job[p].story \in Files!Refs /\ "fixed" \in Resolutions
    BY DEF HookResolves, VerbsInv, Suits, HookKey, Files!Refs
  <2> QED
    BY <2>1, <2>2 DEF HookBegin, Files!ProcStep, Files!ResolveStep
<1> QED
  BY <1>1 DEF HookKey

LEMMA ContinueIsFileStep ==
  ASSUME HookResolves, VerbsInv, NEW p \in Procs, Continue(p)
  PROVE  Files!ProcStep(p) \/ UNCHANGED fileVars
<1>1. CASE AppendBody(p)
  BY <1>1 DEF AppendBody, Files!ProcStep
<1>2. CASE ResolveBody(p)
  BY <1>2 DEF ResolveBody, Files!ProcStep, Files!ResolveStep
<1>3. CASE RepairAudit(p)
  BY <1>3 DEF RepairAudit
<1>4. CASE RepairWrite(p)
  BY <1>4, RepairWriteIsFileStep
<1>5. CASE SecondSave(p)
  BY <1>5 DEF SecondSave, Files!ProcStep, Files!ResolveStep, Files!ReopenStep
<1>6. CASE EndFileCall(p) \/ HookEnd(p) \/ PromoteRefuse(p) \/ ScheduleRefuse(p) \/ Unlock(p)
  BY <1>6 DEF EndFileCall, HookEnd, PromoteRefuse, ScheduleRefuse, Unlock, Files!ProcStep
<1>7. CASE StorySave(p)
  BY <1>7 DEF StorySave
<1>8. CASE HookAcquire(p) \/ NestedAcquire(p)
  BY <1>8 DEF HookAcquire, NestedAcquire, Files!ProcStep
<1>9. CASE HookDrop(p)
  BY <1>9 DEF HookDrop, Files!ProcStep, Files!ResolveStep
<1>10. CASE \E k \in Keys : HookKey(p, k)
  BY <1>10, HookKeyIsFileStep
<1>11. CASE \E s \in Stories : PromoteMint(p, s)
  BY <1>11 DEF PromoteMint
<1>12. CASE ScheduleAttach(p)
  BY <1>12 DEF ScheduleAttach
<1>13. CASE ScheduleItems(p)
  <2>1. ToSchedule(p) \in SUBSET mem[p].open /\ job[p].story \in Stories
    BY <1>13 DEF ScheduleItems, ToSchedule, VerbsInv, Suits
  <2> QED
    BY <1>13, <2>1 DEF ScheduleItems, Files!ProcStep, Files!RewriteStep
<1> QED
  BY <1>1, <1>2, <1>3, <1>4, <1>5, <1>6, <1>7, <1>8, <1>9, <1>10, <1>11, <1>12, <1>13
     DEF Continue

LEMMA StepIsFileStep ==
  ASSUME HookResolves, VerbsInv, NEW p \in Procs, Start(p) \/ Continue(p) \/ Crash(p)
  PROVE  Files!ProcStep(p) \/ UNCHANGED fileVars
<1>1. CASE Start(p)
  BY <1>1 DEF Start, FileCall, StoryRead, PromoteEnter, ScheduleEnter, EnterEpic, MoveEpic,
     Files!ProcStep
<1>2. CASE Continue(p)
  BY <1>2, ContinueIsFileStep
<1>3. CASE Crash(p)
  BY <1>3 DEF Crash, Files!ProcStep
<1> QED
  BY <1>1, <1>2, <1>3

LEMMA NextIsFileStep ==
  ASSUME HookResolves, VerbsInv, [Next]_vars
  PROVE  [Files!Next]_(Files!vars)
<1>1. ASSUME NEW p \in Procs, Start(p) \/ Continue(p) \/ Crash(p)
      PROVE  Files!ProcStep(p) \/ UNCHANGED fileVars
  BY <1>1, StepIsFileStep
<1>2. UNCHANGED fileVars => Files!vars' = Files!vars
  BY DEF fileVars, Files!vars
<1>3. UNCHANGED vars => UNCHANGED fileVars
  BY DEF vars
<1> QED
  BY <1>1, <1>2, <1>3 DEF Next, Files!Next

-----------------------------------------------------------------------------
(* Types are kept.                                                          *)

LEMMA NoJobIsTyped == NoJob \in Jobs /\ Absent \in Nodes
  BY DEF NoJob, Jobs, Absent, Nodes

LEMMA ChangedNode ==
  ASSUME NEW n \in Nodes, NEW to \in Statuses \cup {"absent"}, NEW ks \in SUBSET Keys
  PROVE  /\ [n EXCEPT !.status = to] = [status |-> to, resolves |-> n.resolves]
         /\ [n EXCEPT !.status = to] \in Nodes
         /\ [n EXCEPT !.resolves = ks] = [status |-> n.status, resolves |-> ks]
         /\ [n EXCEPT !.resolves = ks] \in Nodes
  BY DEF Nodes

LEMMA ChangedKeys ==
  ASSUME NEW j \in Jobs, NEW ks \in SUBSET Keys
  PROVE  /\ [j EXCEPT !.keys = ks] \in Jobs
         /\ [j EXCEPT !.keys = ks].keys = ks
         /\ [j EXCEPT !.keys = ks].verb = j.verb
         /\ [j EXCEPT !.keys = ks].story = j.story
         /\ [j EXCEPT !.keys = ks].node = j.node
         /\ [j EXCEPT !.keys = ks].to = j.to
         /\ [j EXCEPT !.keys = ks].id = j.id
  BY DEF Jobs

LEMMA ChangedStory ==
  ASSUME NEW j \in Jobs, NEW s \in Stories
  PROVE  /\ [j EXCEPT !.story = s] \in Jobs
         /\ [j EXCEPT !.story = s].story = s
         /\ [j EXCEPT !.story = s].verb = j.verb
         /\ [j EXCEPT !.story = s].keys = j.keys
         /\ [j EXCEPT !.story = s].epic = j.epic
         /\ [j EXCEPT !.story = s].node = j.node
         /\ [j EXCEPT !.story = s].id = j.id
  BY DEF Jobs

\* One process takes one step to another place of its verb.
LEMMA MoveKeepsTypes ==
  ASSUME VerbsInv, Files!TypeOK', NEW p \in Procs, NEW at \in Steps, NEW j \in Jobs,
         Goto(p, at), SetJob(p, j), Suits(p, at, j),
         \A q \in Procs \ {p} : pc'[q] = pc[q],
         pc'[p] = "idle" <=> at \in LockFree,
         nodes' \in [Stories -> Nodes], archived' \in SUBSET Epics,
         epicHolder' \in [Epics -> Procs \cup {NoProc}],
         \A e \in Epics : epicHolder'[e] \in {epicHolder[e], p, NoProc},
         \A e \in Epics : epicHolder'[e] = p => j.verb \in EpicLockVerbs
  PROVE  VerbsInv'
<1>1. step' \in [Procs -> Steps] /\ step'[p] = at
      /\ \A q \in Procs \ {p} : step'[q] = step[q]
  BY DEF VerbsInv, TypeOK, Goto
<1>2. job' \in [Procs -> Jobs] /\ job'[p] = j
      /\ \A q \in Procs \ {p} : job'[q] = job[q]
  BY DEF VerbsInv, SetJob
<1>3. \A q \in Procs : Suits(q, step'[q], job'[q])
  BY <1>1, <1>2 DEF VerbsInv
<1>4. \A q \in Procs : job'[q].node \in Nodes /\ job'[q].keys \subseteq Keys
  BY <1>2 DEF Jobs
<1>5. \A q \in Procs : pc'[q] = "idle" <=> step'[q] \in LockFree
  BY <1>1 DEF VerbsInv, TypeOK, LockFree
<1>6. \A e \in Epics : epicHolder'[e] # NoProc => job'[epicHolder'[e]].verb \in EpicLockVerbs
  <2> SUFFICES ASSUME NEW e \in Epics, epicHolder'[e] # NoProc
               PROVE  job'[epicHolder'[e]].verb \in EpicLockVerbs
    OBVIOUS
  <2>1. CASE epicHolder'[e] = p
    BY <1>2, <2>1
  <2>2. CASE epicHolder'[e] # p
    <3>1. epicHolder'[e] = epicHolder[e] /\ epicHolder[e] \in Procs \ {p}
      BY <2>2
    <3> QED
      BY <1>2, <3>1 DEF VerbsInv, TypeOK
  <2> QED
    BY <2>1, <2>2
<1>7. TypeOK'
  BY <1>1, <1>4, <1>5, <1>6 DEF TypeOK, LockFree
<1>8. \A q \in Procs : Suits(q, step[q], job[q])'
  BY <1>3 DEF Suits
<1> QED
  BY <1>2, <1>7, <1>8 DEF VerbsInv

\* The verb ends.
LEMMA DoneKeepsTypes ==
  ASSUME VerbsInv, Files!TypeOK', NEW p \in Procs, Done(p),
         \A q \in Procs \ {p} : pc'[q] = pc[q], pc'[p] = "idle",
         nodes' \in [Stories -> Nodes], archived' \in SUBSET Epics
  PROVE  VerbsInv'
<1>1. "idle" \in Steps /\ "idle" \in LockFree
  BY DEF Steps, LockFree
<1>2. Suits(p, "idle", NoJob)
  BY DEF Suits, NoJob
<1>3. /\ epicHolder' \in [Epics -> Procs \cup {NoProc}]
      /\ \A e \in Epics : epicHolder'[e] \in {epicHolder[e], p, NoProc}
      /\ \A e \in Epics : epicHolder'[e] # p
  BY FilesAssumption DEF Done, VerbsInv, TypeOK, Files!IssueStoreAssumption
<1> QED
  BY <1>1, <1>2, <1>3, NoJobIsTyped, MoveKeepsTypes DEF Done

\* A step that keeps the job and the epic locks.
LEMMA GotoKeepsTypes ==
  ASSUME VerbsInv, Files!TypeOK', NEW p \in Procs, NEW at \in Steps,
         Goto(p, at), job' = job, Suits(p, at, job[p]),
         \A q \in Procs \ {p} : pc'[q] = pc[q],
         pc'[p] = "idle" <=> at \in LockFree,
         nodes' \in [Stories -> Nodes], archived' = archived, epicHolder' = epicHolder
  PROVE  VerbsInv'
<1>1. SetJob(p, job[p]) /\ job[p] \in Jobs
  BY DEF SetJob, VerbsInv
<1>2. \A e \in Epics : epicHolder[e] = p => job[p].verb \in EpicLockVerbs
  BY FilesAssumption DEF VerbsInv, TypeOK, Files!IssueStoreAssumption
<1> QED
  BY <1>1, <1>2, MoveKeepsTypes DEF VerbsInv, TypeOK

LEMMA IdleHoldsNone ==
  ASSUME VerbsInv, NEW p \in Procs, step[p] = "idle"
  PROVE  \A e \in Epics : epicHolder[e] # p
<1>1. job[p].verb = "none"
  BY DEF VerbsInv, Suits, NoJob
<1> QED
  BY <1>1, FilesAssumption DEF VerbsInv, TypeOK, EpicLockVerbs, Files!IssueStoreAssumption

LEMMA StoryVerbsKeepTypes ==
  ASSUME VerbsInv, Files!TypeOK', NEW p \in Procs,
         \/ \E verb \in StoryVerbs, s \in Stories, to \in Statuses : StoryRead(p, verb, s, to)
         \/ StorySave(p)
  PROVE  VerbsInv'
<1>0. /\ nodes \in [Stories -> Nodes] /\ job[p] \in Jobs /\ Suits(p, step[p], job[p])
      /\ pc[p] = "idle" <=> step[p] \in LockFree
  BY DEF VerbsInv, TypeOK, LockFree
<1>1. ASSUME NEW verb \in StoryVerbs, NEW s \in Stories, NEW to \in Statuses,
             StoryRead(p, verb, s, to)
      PROVE  VerbsInv'
  <2> DEFINE j == [NoJob EXCEPT !.verb = verb, !.story = s, !.node = nodes[s], !.to = to]
  <2>1. j \in Jobs /\ j.verb = verb /\ j.story = s /\ j.to = to /\ j.id = "none"
    BY <1>0, NoJobIsTyped DEF NoJob, Jobs
  <2>2. SetJob(p, j) /\ Goto(p, "save") /\ verb \in Verbs[p] /\ step[p] = "idle"
        /\ pc' = pc /\ UNCHANGED <<nodes, archived, epicHolder>>
    BY <1>1 DEF StoryRead, Idle, fileVars
  <2> HIDE DEF j
  <2>3. Suits(p, "save", j)
    BY <2>1, <2>2 DEF Suits
  <2> QED
    BY <1>0, <2>1, <2>2, <2>3, IdleHoldsNone, MoveKeepsTypes DEF VerbsInv, TypeOK, Steps, LockFree
<1>2. CASE StorySave(p)
  <2>0. step[p] = "save" /\ job[p].to \in Statuses /\ job[p].node \in Nodes
    BY <1>0, <1>2 DEF StorySave, Jobs, Suits
  <2>1. [job[p].node EXCEPT !.status = job[p].to] \in Nodes
    BY <2>0, ChangedNode
  <2>2. nodes' \in [Stories -> Nodes] /\ pc' = pc /\ archived' = archived /\ step[p] = "save"
    BY <1>0, <1>2, <2>1 DEF StorySave, SaveNode, fileVars
  <2>3. CASE NeedsHook(job[p])
    <3> DEFINE j == [job[p] EXCEPT !.keys = job[p].node.resolves]
    <3>1. /\ j \in Jobs /\ j.verb = job[p].verb /\ j.story = job[p].story
          /\ j.id = job[p].id
      BY <1>0, <2>0, ChangedKeys DEF Nodes
    <3>2. Goto(p, "hook") /\ SetJob(p, j) /\ epicHolder' = epicHolder
      BY <1>2, <2>3 DEF StorySave
    <3> HIDE DEF j
    <3>3. Suits(p, "hook", j)
      BY <1>0, <2>2, <2>3, <3>1 DEF Suits, NeedsHook
    <3>4. \A e \in Epics : epicHolder[e] # p
      BY <2>2, <2>3, FilesAssumption
         DEF VerbsInv, TypeOK, NeedsHook, EpicLockVerbs, Files!IssueStoreAssumption
    <3> QED
      BY <1>0, <2>2, <3>1, <3>2, <3>3, <3>4, MoveKeepsTypes
         DEF VerbsInv, TypeOK, Steps, LockFree
  <2>4. CASE ~NeedsHook(job[p])
    BY <1>0, <1>2, <2>2, <2>4, DoneKeepsTypes DEF StorySave, VerbsInv, TypeOK, LockFree
  <2> QED
    BY <2>3, <2>4
<1> QED
  BY <1>1, <1>2

\* A finding names a key of the backlog, and a story where it speaks of one.
LEMMA ReportsAreTyped ==
  ASSUME VerbsInv, NEW r \in Reports
  PROVE  /\ r.id \in {"1a", "1b", "1c", "1d", "1g", "1j"} /\ r.key \in Keys
         /\ r.story \in Stories \cup {NoStory}
         /\ r.id \in {"1c", "1d"} => r.story \in Stories
<1>1. \A it \in disk.open : it.key \in Keys /\ it.story \in Stories \cup {NoStory}
  BY DEF VerbsInv, TypeOK, Files!TypeOK, Files!Stores, Files!Items, Keys
<1> DEFINE report(id, k, s) == [id |-> id, key |-> k, story |-> s]
<1>2. CASE \E it \in disk.open : r = report("1a", it.key, NoStory)
  BY <1>1, <1>2
<1>3. CASE \E it \in disk.open : r = report("1b", it.key, it.story)
  BY <1>1, <1>3
<1>4. CASE \E it \in disk.open : r = report("1g", it.key, it.story)
  BY <1>1, <1>4
<1>5. CASE \E it \in disk.open, s \in Stories : r = report("1c", it.key, s)
  BY <1>1, <1>5
<1>6. CASE \E it \in disk.open, s \in Stories : r = report("1d", it.key, s)
  BY <1>1, <1>6
<1>7. CASE \E k \in Keys : r = report("1j", k, NoStory)
  BY <1>7
<1> QED
  BY <1>2, <1>3, <1>4, <1>5, <1>6, <1>7 DEF Reports

LEMMA FileVerbsKeepTypes ==
  ASSUME VerbsInv, Files!TypeOK', NEW p \in Procs,
         \/ \E verb \in FileVerbs : FileCall(p, verb)
         \/ AppendBody(p) \/ ResolveBody(p) \/ RepairAudit(p) \/ RepairWrite(p)
         \/ SecondSave(p) \/ EndFileCall(p)
  PROVE  VerbsInv'
<1>0. /\ nodes \in [Stories -> Nodes] /\ job[p] \in Jobs /\ Suits(p, step[p], job[p])
      /\ pc[p] = "idle" <=> step[p] \in LockFree
      /\ Files!TypeOK /\ pc \in [Procs -> {"idle", "loaded", "dropOpen", "dropResolved"}]
  BY DEF VerbsInv, TypeOK, LockFree, Files!TypeOK
<1>a. /\ {"body", "repair", "release", "second"} \subseteq Steps
      /\ \A x \in {"body", "repair", "release", "second"} : x \notin LockFree
  BY DEF Steps, LockFree
<1>1. ASSUME NEW verb \in FileVerbs, FileCall(p, verb)
      PROVE  VerbsInv'
  <2> DEFINE j == [NoJob EXCEPT !.verb = verb]
  <2>1. j \in Jobs /\ j.verb = verb /\ j.id = "none"
    BY NoJobIsTyped DEF NoJob, Jobs
  <2>2. SetJob(p, j) /\ Goto(p, "body") /\ verb \in Verbs[p] /\ step[p] = "idle"
        /\ pc' = [pc EXCEPT ![p] = "loaded"] /\ UNCHANGED <<nodes, archived, epicHolder>>
    BY <1>0, <1>1, Bodies DEF FileCall, Idle
  <2> HIDE DEF j
  <2>3. Suits(p, "body", j)
    BY <2>1, <2>2 DEF Suits
  <2> QED
    BY <1>0, <1>a, <2>1, <2>2, <2>3, IdleHoldsNone, MoveKeepsTypes DEF VerbsInv, TypeOK
<1>2. CASE AppendBody(p)
  <2>1. pc' = pc /\ pc[p] = "loaded" /\ step[p] = "body" /\ Goto(p, "release")
        /\ UNCHANGED <<nodes, archived, epicHolder, job>>
    BY <1>0, <1>2, Bodies DEF AppendBody, InBody
  <2> QED
    BY <1>0, <1>a, <2>1, GotoKeepsTypes DEF Suits
<1>3. CASE ResolveBody(p)
  <2>1. /\ \/ pc' = pc /\ pc[p] = "loaded" /\ Goto(p, "release")
           \/ pc' = [pc EXCEPT ![p] = "dropOpen"] /\ Goto(p, "second")
        /\ step[p] = "body" /\ UNCHANGED <<nodes, archived, epicHolder, job>>
    BY <1>0, <1>3, Bodies DEF ResolveBody, InBody
  <2> QED
    BY <1>0, <1>a, <2>1, GotoKeepsTypes DEF Suits
<1>4. CASE RepairAudit(p)
  <2>1. PICK r \in Reports : SetJob(p, [job[p] EXCEPT !.id = r.id, !.keys = {r.key}, !.story = r.story])
    BY <1>4 DEF RepairAudit
  <2>2. /\ r.id \in {"1a", "1b", "1c", "1d", "1g", "1j"} /\ r.key \in Keys
        /\ r.story \in Stories \cup {NoStory}
        /\ r.id \in {"1c", "1d"} => r.story \in Stories
    BY <1>0, ReportsAreTyped
  <2> DEFINE j == [job[p] EXCEPT !.id = r.id, !.keys = {r.key}, !.story = r.story]
  <2>3. /\ j \in Jobs /\ j.verb = job[p].verb /\ j.id = r.id /\ j.story = r.story
    BY <1>0, <2>2 DEF Jobs
  <2>4. SetJob(p, j) /\ Goto(p, "repair") /\ step[p] = "body" /\ job[p].verb = "repair-issue"
        /\ pc' = pc /\ UNCHANGED <<nodes, archived, epicHolder>>
    BY <1>4, <2>1 DEF RepairAudit, fileVars
  <2> HIDE DEF j
  <2>5. Suits(p, "repair", j)
    BY <1>0, <2>2, <2>3, <2>4 DEF Suits
  <2>6. \A e \in Epics : epicHolder[e] # p
    BY <2>4, FilesAssumption DEF VerbsInv, TypeOK, EpicLockVerbs, Files!IssueStoreAssumption
  <2> QED
    BY <1>0, <1>a, <2>3, <2>4, <2>5, <2>6, MoveKeepsTypes DEF VerbsInv, TypeOK
<1>5. CASE RepairWrite(p)
  <2>1. /\ \/ pc' = pc /\ pc[p] = "loaded" /\ Goto(p, "release")
           \/ pc' = [pc EXCEPT ![p] = "loaded"] /\ Goto(p, "release")
           \/ pc' = [pc EXCEPT ![p] = "dropOpen"] /\ Goto(p, "second")
           \/ pc' = [pc EXCEPT ![p] = "dropResolved"] /\ Goto(p, "second")
        /\ step[p] = "repair" /\ UNCHANGED <<nodes, archived, epicHolder, job>>
    BY <1>0, <1>5, Bodies DEF RepairWrite, RepairItem
  <2> QED
    BY <1>0, <1>a, <2>1, GotoKeepsTypes DEF Suits
<1>6. CASE SecondSave(p)
  <2>1. pc' = [pc EXCEPT ![p] = "loaded"] /\ step[p] = "second" /\ Goto(p, "release")
        /\ UNCHANGED <<nodes, archived, epicHolder, job>>
    BY <1>0, <1>6, Bodies DEF SecondSave
  <2> QED
    BY <1>0, <1>a, <2>1, GotoKeepsTypes DEF Suits
<1>7. CASE EndFileCall(p)
  <2>1. pc' = [pc EXCEPT ![p] = "idle"] /\ Done(p) /\ UNCHANGED <<nodes, archived>>
    BY <1>0, <1>7, Bodies DEF EndFileCall
  <2> QED
    BY <1>0, <2>1, DoneKeepsTypes DEF VerbsInv, TypeOK
<1> QED
  BY <1>1, <1>2, <1>3, <1>4, <1>5, <1>6, <1>7

LEMMA HookKeepsTypes ==
  ASSUME VerbsInv, Files!TypeOK', NEW p \in Procs,
         HookAcquire(p) \/ HookDrop(p) \/ HookEnd(p) \/ \E k \in Keys : HookKey(p, k)
  PROVE  VerbsInv'
<1>0. /\ nodes \in [Stories -> Nodes] /\ job[p] \in Jobs /\ Suits(p, step[p], job[p])
      /\ pc[p] = "idle" <=> step[p] \in LockFree
      /\ Files!TypeOK /\ pc \in [Procs -> {"idle", "loaded", "dropOpen", "dropResolved"}]
      /\ step \in [Procs -> Steps]
  BY DEF VerbsInv, TypeOK, LockFree, Files!TypeOK
<1>a. "hookKeys" \in Steps /\ "hookKeys" \notin LockFree
  BY DEF Steps, LockFree
<1>1. CASE HookAcquire(p)
  <2>1. /\ pc' = [pc EXCEPT ![p] = "loaded"] /\ step[p] = "hook" /\ Goto(p, "hookKeys")
        /\ UNCHANGED <<nodes, archived, epicHolder, job>>
    BY <1>0, <1>1, Bodies DEF HookAcquire
  <2> QED
    BY <1>0, <1>a, <2>1, GotoKeepsTypes DEF Suits
<1>2. CASE HookDrop(p)
  <2>1. /\ pc' = [pc EXCEPT ![p] = "loaded"] /\ step[p] = "hookKeys"
        /\ UNCHANGED <<nodes, archived, epicHolder, job, step>>
    BY <1>0, <1>2, Bodies DEF HookDrop
  <2>2. Goto(p, "hookKeys")
    BY <1>0, <2>1 DEF Goto
  <2> QED
    BY <1>0, <1>a, <2>1, <2>2, GotoKeepsTypes
<1>3. CASE HookEnd(p)
  <2>1. pc' = [pc EXCEPT ![p] = "idle"] /\ Done(p) /\ UNCHANGED <<nodes, archived>>
    BY <1>0, <1>3, Bodies DEF HookEnd
  <2> QED
    BY <1>0, <2>1, DoneKeepsTypes DEF VerbsInv, TypeOK
<1>4. ASSUME NEW k \in Keys, HookKey(p, k)
      PROVE  VerbsInv'
  <2> DEFINE j == [job[p] EXCEPT !.keys = job[p].keys \ {k}]
  <2>1. /\ SetJob(p, j) /\ step[p] = "hookKeys" /\ pc[p] = "loaded"
        /\ pc' = pc \/ pc' = [pc EXCEPT ![p] = "dropOpen"]
        /\ UNCHANGED <<nodes, archived, epicHolder, step>>
    BY <1>0, <1>4, Bodies DEF HookKey, HookBegin, fileVars, SetJob
  <2>2. job[p].keys \ {k} \in SUBSET Keys
    BY <1>0 DEF Jobs
  <2>3. j \in Jobs /\ j.verb = job[p].verb /\ j.story = job[p].story /\ j.id = job[p].id
    BY <1>0, <2>2, ChangedKeys
  <2>4. Goto(p, "hookKeys")
    BY <1>0, <2>1 DEF Goto
  <2> HIDE DEF j
  <2>5. Suits(p, "hookKeys", j)
    BY <1>0, <2>1, <2>3 DEF Suits
  <2>6. \A e \in Epics : epicHolder[e] = p => j.verb \in EpicLockVerbs
    BY <2>3, FilesAssumption DEF VerbsInv, TypeOK, Files!IssueStoreAssumption
  <2> QED
    BY <1>0, <1>a, <2>1, <2>3, <2>4, <2>5, <2>6, MoveKeepsTypes DEF VerbsInv, TypeOK
<1> QED
  BY <1>1, <1>2, <1>3, <1>4

LEMMA EpicVerbsKeepTypes ==
  ASSUME VerbsInv, Files!TypeOK', NEW p \in Procs,
         \/ \E keys \in SUBSET Keys \ {{}} :
              \/ \E e \in Epics : PromoteEnter(p, e, keys)
              \/ \E s \in Stories : ScheduleEnter(p, s, keys)
         \/ NestedAcquire(p)
         \/ \E s \in Stories : PromoteMint(p, s)
         \/ PromoteRefuse(p) \/ ScheduleAttach(p) \/ ScheduleRefuse(p)
         \/ ScheduleItems(p) \/ Unlock(p)
  PROVE  VerbsInv'
<1>0. /\ nodes \in [Stories -> Nodes] /\ job[p] \in Jobs /\ Suits(p, step[p], job[p])
      /\ job[p].keys \in SUBSET Keys /\ job[p].node \in Nodes
      /\ pc[p] = "idle" <=> step[p] \in LockFree
      /\ Files!TypeOK /\ pc \in [Procs -> {"idle", "loaded", "dropOpen", "dropResolved"}]
  BY DEF VerbsInv, TypeOK, LockFree, Files!TypeOK, Jobs
<1>a. /\ {"promote", "schedule", "mint", "attach", "items", "unlock"} \subseteq Steps
      /\ {"promote", "schedule"} \subseteq LockFree
      /\ \A x \in {"mint", "attach", "items", "unlock"} : x \notin LockFree
  BY DEF Steps, LockFree
<1>1. ASSUME NEW keys \in SUBSET Keys, NEW e \in Epics, PromoteEnter(p, e, keys)
      PROVE  VerbsInv'
  <2> DEFINE j == [NoJob EXCEPT !.verb = "promote-issue", !.epic = e, !.keys = keys]
  <2>1. j \in Jobs /\ j.verb = "promote-issue" /\ j.id = "none"
    BY <1>0, NoJobIsTyped DEF NoJob, Jobs, EpicLockVerbs
  <2>2. /\ SetJob(p, j) /\ Goto(p, "promote") /\ "promote-issue" \in Verbs[p]
        /\ step[p] = "idle" /\ pc' = pc /\ UNCHANGED <<nodes, archived>>
        /\ epicHolder' = [epicHolder EXCEPT ![e] = p]
    BY <1>1 DEF PromoteEnter, EnterEpic, Idle, fileVars
  <2> HIDE DEF j
  <2>3. Suits(p, "promote", j)
    BY <2>1, <2>2 DEF Suits
  <2>4. j.verb \in EpicLockVerbs
    BY <2>1 DEF EpicLockVerbs
  <2> QED
    BY <1>0, <1>a, <2>1, <2>2, <2>3, <2>4, MoveKeepsTypes DEF VerbsInv, TypeOK, LockFree
<1>2. ASSUME NEW keys \in SUBSET Keys, NEW s \in Stories, ScheduleEnter(p, s, keys)
      PROVE  VerbsInv'
  <2> DEFINE j == [NoJob EXCEPT !.verb = "schedule-issue", !.story = s,
                                !.node = nodes[s], !.keys = keys]
  <2>1. j \in Jobs /\ j.verb = "schedule-issue" /\ j.story = s /\ j.id = "none"
    BY <1>0, NoJobIsTyped DEF NoJob, Jobs, EpicLockVerbs
  <2>2. /\ SetJob(p, j) /\ Goto(p, "schedule") /\ "schedule-issue" \in Verbs[p]
        /\ step[p] = "idle" /\ pc' = pc /\ UNCHANGED <<nodes, archived>>
        /\ epicHolder' = [epicHolder EXCEPT ![EpicOfStory[s]] = p]
        /\ EpicOfStory[s] \in Epics
    BY <1>2, BacklogAssumption DEF ScheduleEnter, EnterEpic, Idle, fileVars
  <2> HIDE DEF j
  <2>3. Suits(p, "schedule", j)
    BY <2>1, <2>2 DEF Suits
  <2>4. j.verb \in EpicLockVerbs
    BY <2>1 DEF EpicLockVerbs
  <2> QED
    BY <1>0, <1>a, <2>1, <2>2, <2>3, <2>4, MoveKeepsTypes DEF VerbsInv, TypeOK, LockFree
<1>3. CASE NestedAcquire(p)
  <2>1. /\ pc' = [pc EXCEPT ![p] = "loaded"]
        /\ \/ step[p] = "promote" /\ Goto(p, "mint")
           \/ step[p] = "schedule" /\ Goto(p, "attach")
        /\ UNCHANGED <<nodes, archived, epicHolder, job>>
    BY <1>0, <1>3, Bodies DEF NestedAcquire
  <2> QED
    BY <1>0, <1>a, <2>1, GotoKeepsTypes DEF Suits
<1>4. ASSUME NEW s \in Stories, PromoteMint(p, s)
      PROVE  VerbsInv'
  <2> DEFINE j == [job[p] EXCEPT !.story = s]
             n == [status |-> "backlog", resolves |-> job[p].keys]
  <2>1. j \in Jobs /\ j.verb = job[p].verb /\ j.story = s /\ j.id = job[p].id
    BY <1>0, ChangedStory
  <2>2. /\ SetJob(p, j) /\ Goto(p, "items") /\ step[p] = "mint"
        /\ pc' = pc /\ UNCHANGED <<archived, epicHolder>>
        /\ nodes' = nodes \/ SaveNode(s, n)
    BY <1>4 DEF PromoteMint, fileVars
  <2>3. n \in Nodes
    BY <1>0, BacklogAssumption DEF Nodes
  <2> HIDE DEF j, n
  <2>4. nodes' \in [Stories -> Nodes]
    BY <1>0, <2>2, <2>3 DEF SaveNode
  <2>5. Suits(p, "items", j)
    BY <1>0, <2>1, <2>2 DEF Suits, EpicLockVerbs
  <2>6. \A e \in Epics : epicHolder[e] = p => j.verb \in EpicLockVerbs
    BY <2>1, FilesAssumption DEF VerbsInv, TypeOK, Files!IssueStoreAssumption
  <2> QED
    BY <1>0, <1>a, <2>1, <2>2, <2>4, <2>5, <2>6, MoveKeepsTypes DEF VerbsInv, TypeOK, LockFree
<1>5. CASE PromoteRefuse(p) \/ ScheduleRefuse(p) \/ Unlock(p)
  <2>1. pc' = [pc EXCEPT ![p] = "idle"] /\ Done(p) /\ UNCHANGED <<nodes, archived>>
    BY <1>0, <1>5, Bodies DEF PromoteRefuse, ScheduleRefuse, Unlock
  <2> QED
    BY <1>0, <2>1, DoneKeepsTypes DEF VerbsInv, TypeOK
<1>6. CASE ScheduleAttach(p)
  <2> DEFINE ks == job[p].node.resolves \cup {it.key : it \in ToSchedule(p)}
  <2>1. ks \in SUBSET Keys
    BY <1>0 DEF ToSchedule, Nodes
  <2>2. SaveNode(job[p].story, [job[p].node EXCEPT !.resolves = ks])
    BY <1>6 DEF ScheduleAttach
  <2> HIDE DEF ks
  <2>3. [job[p].node EXCEPT !.resolves = ks] \in Nodes
    BY <1>0, <2>1, ChangedNode
  <2>4. nodes' \in [Stories -> Nodes]
    BY <1>0, <2>2, <2>3 DEF SaveNode
  <2>5. step[p] = "attach" /\ Goto(p, "items") /\ pc' = pc
        /\ UNCHANGED <<archived, epicHolder, job>>
    BY <1>6 DEF ScheduleAttach, fileVars
  <2>6. Suits(p, "items", job[p])
    BY <1>0, <2>5 DEF Suits, EpicLockVerbs
  <2> QED
    BY <1>0, <1>a, <2>4, <2>5, <2>6, GotoKeepsTypes DEF LockFree
<1>7. CASE ScheduleItems(p)
  <2>1. /\ pc' = pc /\ step[p] = "items" /\ Goto(p, "unlock")
        /\ UNCHANGED <<nodes, archived, epicHolder, job>>
    BY <1>0, <1>7, Bodies DEF ScheduleItems
  <2> QED
    BY <1>0, <1>a, <2>1, GotoKeepsTypes DEF Suits, LockFree
<1> QED
  BY <1>1, <1>2, <1>3, <1>4, <1>5, <1>6, <1>7

LEMMA NextVerbs ==
  ASSUME HookResolves, VerbsInv, [Next]_vars
  PROVE  VerbsInv'
<1>1. Files!TypeOK'
  <2>1. FP!TypeOK
    BY SameType DEF VerbsInv, TypeOK
  <2>2. [FP!Next]_(FP!vars)
    BY NextIsFileStep, SameNext, SameVars
  <2>3. FP!TypeOK'
    BY <2>1, <2>2, FP!NextType, FilesAssumption
  <2> QED
    BY <2>3, SameType
<1>2. ASSUME NEW p \in Procs, Start(p)
      PROVE  VerbsInv'
  <2>1. CASE \E e \in Epics : MoveEpic(p, e)
    BY <1>1, <2>1 DEF MoveEpic, VerbsInv, TypeOK, Suits, fileVars
  <2> QED
    BY <1>1, <1>2, <2>1, FileVerbsKeepTypes, StoryVerbsKeepTypes, EpicVerbsKeepTypes DEF Start
<1>3. ASSUME NEW p \in Procs, Continue(p)
      PROVE  VerbsInv'
  BY <1>1, <1>3, FileVerbsKeepTypes, StoryVerbsKeepTypes, EpicVerbsKeepTypes, HookKeepsTypes
     DEF Continue
<1>4. ASSUME NEW p \in Procs, Crash(p)
      PROVE  VerbsInv'
  <2>1. /\ (pc' = pc /\ pc[p] = "idle") \/ pc' = [pc EXCEPT ![p] = "idle"]
        /\ Done(p) /\ UNCHANGED <<nodes, archived>>
    BY <1>4, Bodies DEF Crash, fileVars, VerbsInv, TypeOK
  <2> QED
    BY <1>1, <2>1, DoneKeepsTypes DEF VerbsInv, TypeOK, Files!TypeOK
<1>5. CASE UNCHANGED vars
  BY <1>1, <1>5 DEF vars, fileVars, VerbsInv, TypeOK, Suits
<1> QED
  BY <1>2, <1>3, <1>4, <1>5 DEF Next

LEMMA InitVerbs == Init => VerbsInv
<1> SUFFICES ASSUME Init
             PROVE  VerbsInv
  OBVIOUS
<1>1. Files!TypeOK
  BY FP!InitType, FilesAssumption, SameInit, SameType DEF Init
<1>2. /\ nodes \in [Stories -> Nodes]
      /\ archived = {}
      /\ \A e \in Epics : epicHolder[e] = NoProc
      /\ epicHolder \in [Epics -> Procs \cup {NoProc}]
      /\ step \in [Procs -> Steps]
      /\ \A p \in Procs : step[p] = "idle" /\ pc[p] = "idle" /\ job[p] = NoJob
      /\ job \in [Procs -> Jobs]
  BY BacklogAssumption, NoJobIsTyped DEF Init, Absent, Nodes, Steps, Files!Init
<1>3. NoJob.node \in Nodes /\ NoJob.keys \subseteq Keys
  BY NoJobIsTyped DEF NoJob
<1>4. TypeOK
  BY <1>1, <1>2, <1>3 DEF TypeOK
<1> QED
  BY <1>2, <1>4 DEF VerbsInv, Suits, NoJob

\* Whatever the verbs of the processes do, and whoever dies, the variables keep
\* their shape and a process is in issues_lock exactly at the steps that say so.
THEOREM TypeCorrect == HookResolves => (Spec => []TypeOK)
<1> SUFFICES ASSUME HookResolves
             PROVE  Spec => []TypeOK
  OBVIOUS
<1>1. VerbsInv => TypeOK
  BY DEF VerbsInv
<1>2. VerbsInv /\ [Next]_vars => VerbsInv'
  BY NextVerbs
<1> QED
  BY <1>1, <1>2, InitVerbs, PTL DEF Spec

\* The verbs on story nodes and backlog together change the two files only as
\* the verbs of the files alone do: what is proved of the files holds here.
THEOREM BacklogImplementsFiles == HookResolves => (Spec => Files!Spec)
<1> SUFFICES ASSUME HookResolves
             PROVE  Spec => Files!Spec
  OBVIOUS
<1>1. Init => VerbsInv /\ Files!Init
  BY InitVerbs DEF Init
<1>2. VerbsInv /\ [Next]_vars => VerbsInv' /\ [Files!Next]_(Files!vars)
  BY NextVerbs, NextIsFileStep
<1> QED
  BY <1>1, <1>2, PTL DEF Spec, Files!Spec

-----------------------------------------------------------------------------
(* What a verb has read of a story node.                                    *)

\* set-status and set-field write a node back whole, with no lock since they
\* read it: whoever may add a key to a node is the only one to use them.
SchedulersWriteAlone ==
  \A p, q \in Procs :
    p # q /\ "schedule-issue" \in Verbs[p] => Verbs[q] \cap StoryVerbs = {}

Attaching == {"schedule", "attach"}

\* The keys of the node a verb has read are still those of the node.
ReadIsCurrent(p) ==
  step[p] \in Attaching \cup {"save"} =>
    /\ Exists(job[p].story)
    /\ job[p].node.status # "absent"
    /\ job[p].node.resolves = nodes[job[p].story].resolves

HoldsItsEpic(p) ==
  step[p] \in Attaching => epicHolder[EpicOfStory[job[p].story]] = p

AbsentListsNothing == \A s \in Stories : Exists(s) \/ nodes[s].resolves = {}

ReadInv ==
  /\ VerbsInv
  /\ AbsentListsNothing
  /\ \A p \in Procs : ReadIsCurrent(p) /\ HoldsItsEpic(p)

\* A step of p is no step of the verbs of others, and takes no lock from them.
LEMMA OneMoves ==
  ASSUME VerbsInv, NEW p \in Procs, Start(p) \/ Continue(p) \/ Crash(p)
  PROVE  /\ \A q \in Procs \ {p} : step'[q] = step[q] /\ job'[q] = job[q]
         /\ \A e \in Epics : epicHolder[e] \notin {p, NoProc} => epicHolder'[e] = epicHolder[e]
<1>1. /\ step' = step \/ \E at : Goto(p, at)
      /\ job' = job \/ \E j : SetJob(p, j)
      /\ epicHolder' = epicHolder \/ Done(p) \/ \E e : EnterEpic(p, e)
  <2>1. CASE Start(p)
    BY <2>1 DEF Start, FileCall, StoryRead, PromoteEnter, ScheduleEnter, MoveEpic
  <2>2. CASE Crash(p)
    BY <2>2 DEF Crash, Done
  <2>3. CASE Continue(p)
    BY <2>3 DEF Continue, AppendBody, InBody, ResolveBody, RepairAudit, RepairWrite,
       SecondSave, EndFileCall, StorySave, HookAcquire, HookDrop, HookEnd, HookKey,
       NestedAcquire, PromoteMint, PromoteRefuse, ScheduleAttach, ScheduleRefuse,
       ScheduleItems, Unlock, Done
  <2> QED
    BY <2>1, <2>2, <2>3
<1>2. /\ step \in [Procs -> Steps] /\ job \in [Procs -> Jobs]
      /\ epicHolder \in [Epics -> Procs \cup {NoProc}]
  BY DEF VerbsInv, TypeOK
<1> QED
  BY <1>1, <1>2 DEF Goto, SetJob, Done, EnterEpic

\* What a step writes to the story nodes.
Mints(p, s) ==
  /\ step[p] = "mint" /\ Promotable(p) /\ Mintable(p, s)
  /\ Goto(p, "items") /\ SetJob(p, [job[p] EXCEPT !.story = s])
  /\ SaveNode(s, [status |-> "backlog", resolves |-> job[p].keys])

NodesKeepKeys ==
  \A s \in Stories : nodes'[s].resolves = nodes[s].resolves /\ (Exists(s) <=> Exists(s)')

Attaches(p) ==
  LET s == job[p].story
  IN  /\ step[p] = "attach"
      /\ nodes'[s] = [status |-> job[p].node.status,
                      resolves |-> nodes[s].resolves \cup {it.key : it \in ToSchedule(p)}]
      /\ \A t \in Stories \ {s} : nodes'[t] = nodes[t]

LEMMA WhoWrites ==
  ASSUME NEW p \in Procs, Start(p) \/ Continue(p) \/ Crash(p)
  PROVE  \/ nodes' = nodes
         \/ StorySave(p)
         \/ \E s \in Stories : Mints(p, s)
         \/ ScheduleAttach(p)
<1>1. CASE Start(p) \/ Crash(p)
  BY <1>1
     DEF Start, FileCall, StoryRead, PromoteEnter, ScheduleEnter, EnterEpic, MoveEpic, Crash
<1>2. CASE \E s \in Stories : PromoteMint(p, s)
  BY <1>2 DEF PromoteMint, Mints
<1>3. CASE Continue(p)
  BY <1>2, <1>3
     DEF Continue, AppendBody, InBody, ResolveBody, RepairAudit, RepairWrite,
         SecondSave, EndFileCall, HookAcquire, HookDrop, HookEnd, HookKey,
         NestedAcquire, PromoteRefuse, ScheduleRefuse, ScheduleItems, Unlock
<1> QED
  BY <1>1, <1>3

LEMMA NodesAfter ==
  ASSUME ReadInv, NEW p \in Procs, Start(p) \/ Continue(p) \/ Crash(p)
  PROVE  \/ NodesKeepKeys
         \/ \E s \in Stories : Mints(p, s)
         \/ Attaches(p)
<1>0. /\ nodes \in [Stories -> Nodes] /\ job[p] \in Jobs /\ Suits(p, step[p], job[p])
      /\ job[p].node \in Nodes
  BY DEF ReadInv, VerbsInv, TypeOK
<1>1. CASE nodes' = nodes
  BY <1>1 DEF NodesKeepKeys, Exists
<1>2. CASE StorySave(p)
  <2>1. step[p] = "save" /\ job[p].to \in Statuses /\ job[p].story \in Stories
    BY <1>0, <1>2 DEF StorySave, Suits
  <2>2. job[p].to # "absent"
    BY <2>1, BacklogAssumption DEF StoryStatuses
  <2>3. nodes' = [nodes EXCEPT ![job[p].story] =
                    [status |-> job[p].to, resolves |-> nodes[job[p].story].resolves]]
    <3>1. job[p].node.resolves = nodes[job[p].story].resolves
      BY <2>1 DEF ReadInv, ReadIsCurrent
    <3>2. [job[p].node EXCEPT !.status = job[p].to]
            = [status |-> job[p].to, resolves |-> job[p].node.resolves]
      BY <1>0, <2>1, ChangedNode
    <3> QED
      BY <1>2, <3>1, <3>2 DEF StorySave, SaveNode
  <2>4. Exists(job[p].story)
    BY <2>1 DEF ReadInv, ReadIsCurrent
  <2> QED
    BY <1>0, <2>1, <2>2, <2>3, <2>4 DEF NodesKeepKeys, Exists
<1>3. CASE \E s \in Stories : Mints(p, s)
  BY <1>3
<1>4. CASE ScheduleAttach(p)
  <2> DEFINE ks == {it.key : it \in ToSchedule(p)}
             s  == job[p].story
  <2>1. step[p] = "attach" /\ s \in Stories /\ job[p].node.resolves = nodes[s].resolves
    BY <1>0, <1>4 DEF ScheduleAttach, Suits, ReadInv, ReadIsCurrent, Attaching
  <2>2. SaveNode(s, [job[p].node EXCEPT !.resolves = job[p].node.resolves \cup ks])
    BY <1>4 DEF ScheduleAttach
  <2>a. job[p].node.resolves \cup ks \in SUBSET Keys
    BY <1>0 DEF ToSchedule, Jobs, Nodes
  <2> HIDE DEF ks
  <2>3. [job[p].node EXCEPT !.resolves = job[p].node.resolves \cup ks]
          = [status |-> job[p].node.status, resolves |-> nodes[s].resolves \cup ks]
    BY <1>0, <2>1, <2>a, ChangedNode
  <2>4. /\ nodes'[s] = [status |-> job[p].node.status, resolves |-> nodes[s].resolves \cup ks]
        /\ \A t \in Stories \ {s} : nodes'[t] = nodes[t]
    BY <1>0, <2>1, <2>2, <2>3 DEF SaveNode
  <2> QED
    BY <2>1, <2>4 DEF Attaches, ks
<1> QED
  BY <1>1, <1>2, <1>3, <1>4, WhoWrites

\* Nodes and their keys stay.
KeysAccrue ==
  \A s \in Stories :
    nodes[s].resolves \subseteq nodes'[s].resolves /\ (Exists(s) => Exists(s)')

LEMMA KeysDoAccrue ==
  ASSUME ReadInv, NEW p \in Procs, Start(p) \/ Continue(p) \/ Crash(p)
  PROVE  KeysAccrue
<1>0. nodes \in [Stories -> Nodes] /\ Suits(p, step[p], job[p])
  BY DEF ReadInv, VerbsInv, TypeOK
<1>1. CASE NodesKeepKeys
  BY <1>1 DEF NodesKeepKeys, KeysAccrue
<1>2. ASSUME NEW s \in Stories, Mints(p, s)
      PROVE  KeysAccrue
  BY <1>0, <1>2 DEF Mints, Mintable, SaveNode, KeysAccrue, ReadInv, AbsentListsNothing, Exists
<1>3. CASE Attaches(p)
  BY <1>0, <1>3 DEF Attaches, KeysAccrue, ReadInv, ReadIsCurrent, Attaching, Exists
<1> QED
  BY <1>1, <1>2, <1>3, NodesAfter

\* Nobody else's step makes what a verb has read stale.
LEMMA OthersRead ==
  ASSUME SchedulersWriteAlone, ReadInv, NEW p \in Procs, NEW q \in Procs \ {p},
         Start(p) \/ Continue(p) \/ Crash(p)
  PROVE  ReadIsCurrent(q)' /\ HoldsItsEpic(q)'
<1>0. /\ nodes \in [Stories -> Nodes] /\ q \in Procs
      /\ Suits(p, step[p], job[p]) /\ Suits(q, step[q], job[q])
      /\ step'[q] = step[q] /\ job'[q] = job[q]
      /\ EpicOfStory \in [Stories -> Epics]
  BY OneMoves, BacklogAssumption DEF ReadInv, VerbsInv, TypeOK
<1> DEFINE s == job[q].story
<1>1. step[q] \in Attaching \cup {"save"} => s \in Stories
  BY <1>0 DEF Suits, Attaching
<1>2. HoldsItsEpic(q)'
  <2> SUFFICES ASSUME step[q] \in Attaching
               PROVE  epicHolder'[EpicOfStory[s]] = q
    BY <1>0 DEF HoldsItsEpic
  <2>1. epicHolder[EpicOfStory[s]] = q /\ EpicOfStory[s] \in Epics
    BY <1>0, <1>1 DEF ReadInv, HoldsItsEpic
  <2> QED
    BY <2>1, OneMoves, FilesAssumption DEF ReadInv, Files!IssueStoreAssumption
<1>3. ASSUME step[q] \in Attaching \cup {"save"}
      PROVE  nodes'[s].resolves = nodes[s].resolves /\ Exists(s)'
  <2>0. s \in Stories /\ Exists(s)
    BY <1>0, <1>1, <1>3 DEF ReadInv, ReadIsCurrent
  <2>1. CASE NodesKeepKeys
    BY <1>0, <2>0, <2>1 DEF NodesKeepKeys, Exists
  <2>2. ASSUME NEW t \in Stories, Mints(p, t)
        PROVE  nodes'[s] = nodes[s]
    BY <1>0, <2>0, <2>2 DEF Mints, Mintable, SaveNode
  <2>3. CASE Attaches(p)
    <3>1. job[p].verb = "schedule-issue" /\ "schedule-issue" \in Verbs[p]
          /\ epicHolder[EpicOfStory[job[p].story]] = p
      BY <1>0, <2>3 DEF Attaches, Suits, ReadInv, HoldsItsEpic, Attaching
    <3>2. CASE step[q] = "save"
      BY <1>0, <3>1, <3>2 DEF Suits, SchedulersWriteAlone
    <3>3. CASE step[q] \in Attaching
      <4>1. s # job[p].story
        BY <1>0, <3>1, <3>3 DEF ReadInv, HoldsItsEpic
      <4> QED
        BY <1>0, <2>0, <2>3, <4>1 DEF Attaches, Exists
    <3> QED
      BY <1>3, <3>2, <3>3
  <2> QED
    BY <1>0, <2>0, <2>1, <2>2, <2>3, NodesAfter DEF Exists
<1>4. ReadIsCurrent(q)'
  BY <1>0, <1>3 DEF ReadInv, ReadIsCurrent, Exists
<1> QED
  BY <1>2, <1>4

\* What a verb reads is current when it has read it.
LEMMA OwnRead ==
  ASSUME ReadInv, NEW p \in Procs, Start(p) \/ Continue(p) \/ Crash(p)
  PROVE  ReadIsCurrent(p)' /\ HoldsItsEpic(p)'
<1>0. /\ nodes \in [Stories -> Nodes] /\ step \in [Procs -> Steps]
      /\ job \in [Procs -> Jobs] /\ epicHolder \in [Epics -> Procs \cup {NoProc}]
      /\ EpicOfStory \in [Stories -> Epics]
  BY BacklogAssumption DEF ReadInv, VerbsInv, TypeOK
<1>1. ASSUME NEW verb \in StoryVerbs, NEW s \in Stories, NEW to \in Statuses,
             StoryRead(p, verb, s, to)
      PROVE  ReadIsCurrent(p)' /\ HoldsItsEpic(p)'
  <2> DEFINE j == [NoJob EXCEPT !.verb = verb, !.story = s, !.node = nodes[s], !.to = to]
  <2>1. j.story = s /\ j.node = nodes[s]
    BY DEF NoJob
  <2>2. Exists(s) /\ step'[p] = "save" /\ job'[p] = j /\ nodes' = nodes
    BY <1>0, <1>1 DEF StoryRead, Goto, SetJob
  <2> QED
    BY <2>1, <2>2 DEF ReadIsCurrent, HoldsItsEpic, Attaching, Exists
<1>2. ASSUME NEW keys, NEW s \in Stories, ScheduleEnter(p, s, keys)
      PROVE  ReadIsCurrent(p)' /\ HoldsItsEpic(p)'
  <2> DEFINE j == [NoJob EXCEPT !.verb = "schedule-issue", !.story = s,
                                !.node = nodes[s], !.keys = keys]
  <2>1. j.story = s /\ j.node = nodes[s]
    BY DEF NoJob
  <2>2. /\ Exists(s) /\ step'[p] = "schedule" /\ job'[p] = j /\ nodes' = nodes
        /\ epicHolder'[EpicOfStory[s]] = p
    BY <1>0, <1>2 DEF ScheduleEnter, EnterEpic, Goto, SetJob
  <2> QED
    BY <2>1, <2>2 DEF ReadIsCurrent, HoldsItsEpic, Attaching, Exists
<1>3. CASE NestedAcquire(p)
  <2>1. /\ step'[p] = IF step[p] = "promote" THEN "mint" ELSE "attach"
        /\ step[p] \in {"promote", "schedule"}
        /\ job' = job /\ nodes' = nodes /\ epicHolder' = epicHolder
    BY <1>0, <1>3 DEF NestedAcquire, Goto
  <2> QED
    BY <2>1 DEF ReadInv, ReadIsCurrent, HoldsItsEpic, Attaching, Exists
<1>4. CASE step'[p] \notin Attaching \cup {"save"}
  BY <1>4 DEF ReadIsCurrent, HoldsItsEpic
<1>6. CASE \E e \in Epics : MoveEpic(p, e)
  BY <1>6 DEF MoveEpic, ReadInv, ReadIsCurrent, HoldsItsEpic, Exists
<1>7. CASE Start(p)
  BY <1>0, <1>1, <1>2, <1>4, <1>6, <1>7
     DEF Start, FileCall, PromoteEnter, Goto, Attaching
<1>8. CASE Crash(p)
  BY <1>0, <1>4, <1>8 DEF Crash, Done, Goto, Attaching
<1>9. CASE Continue(p)
  <2>1. CASE NestedAcquire(p)
    BY <1>3, <2>1
  <2>2. CASE ~NestedAcquire(p)
    <3>1. step'[p] \notin Attaching \cup {"save"}
      BY <1>0, <1>9, <2>2
         DEF Continue, AppendBody, InBody, ResolveBody, RepairAudit, RepairWrite,
             SecondSave, EndFileCall, StorySave, HookAcquire, HookDrop, HookEnd, HookKey,
             PromoteMint, PromoteRefuse, ScheduleAttach, ScheduleRefuse,
             ScheduleItems, Unlock, Done, Goto, Attaching
    <3> QED
      BY <1>4, <3>1
  <2> QED
    BY <2>1, <2>2
<1> QED
  BY <1>7, <1>8, <1>9

LEMMA NextRead ==
  ASSUME HookResolves, SchedulersWriteAlone, ReadInv, [Next]_vars
  PROVE  ReadInv' /\ KeysAccrue
<1>0. VerbsInv'
  BY NextVerbs DEF ReadInv
<1>1. ASSUME NEW p \in Procs, Start(p) \/ Continue(p) \/ Crash(p)
      PROVE  ReadInv' /\ KeysAccrue
  <2>1. KeysAccrue
    BY <1>1, KeysDoAccrue
  <2>2. AbsentListsNothing'
    <3>1. CASE NodesKeepKeys
      BY <3>1 DEF NodesKeepKeys, ReadInv, AbsentListsNothing
    <3>2. ASSUME NEW s \in Stories, Mints(p, s)
          PROVE  AbsentListsNothing'
      BY <3>2 DEF Mints, SaveNode, ReadInv, VerbsInv, TypeOK, AbsentListsNothing, Exists
    <3>3. CASE Attaches(p)
      BY <3>3 DEF Attaches, ReadInv, ReadIsCurrent, Attaching, AbsentListsNothing, Exists
    <3> QED
      BY <1>1, <3>1, <3>2, <3>3, NodesAfter
  <2>3. \A q \in Procs : ReadIsCurrent(q)' /\ HoldsItsEpic(q)'
    BY <1>1, OwnRead, OthersRead
  <2> QED
    BY <1>0, <2>1, <2>2, <2>3 DEF ReadInv
<1>2. CASE UNCHANGED vars
  BY <1>0, <1>2 DEF vars, ReadInv, ReadIsCurrent, HoldsItsEpic, AbsentListsNothing, Exists,
     KeysAccrue
<1> QED
  BY <1>1, <1>2 DEF Next

LEMMA InitRead == Init => ReadInv
<1> SUFFICES ASSUME Init
             PROVE  ReadInv
  OBVIOUS
<1>1. VerbsInv
  BY InitVerbs
<1>2. \A p \in Procs : step[p] = "idle"
  BY DEF Init
<1>3. \A s \in Stories : nodes[s].resolves = {}
  BY DEF Init, Absent
<1> QED
  BY <1>1, <1>2, <1>3
     DEF ReadInv, ReadIsCurrent, HoldsItsEpic, AbsentListsNothing, Attaching

-----------------------------------------------------------------------------
(* What a body does to the open items.                                      *)

\* The files' own invariants, over the variables of this module.
BacklogInv == ReadInv /\ FP!FilesInv

LEMMA CopyIsCurrent ==
  ASSUME BacklogInv, NEW p \in Procs, pc[p] # "idle" \/ step[p] \notin LockFree
  PROVE  /\ mem[p] = disk /\ holder = p
         /\ \A q \in Procs \ {p} : pc[q] = "idle"
  BY DEF BacklogInv, ReadInv, VerbsInv, TypeOK, LockFree,
     FP!FilesInv, FP!HoldInv, FP!LoadedIsCurrent

LEMMA OpenAfter ==
  ASSUME BacklogInv, NEW p \in Procs
  PROVE  /\ Files!Acquire(p) \/ Files!Release(p) \/ Files!Crash(p) => disk' = disk
         /\ Files!AppendStep(p) =>
              \A x \in disk'.open : x \in disk.open \/ x.status = "backlog"
         /\ \A it, how, ref : Files!ResolveAppend(p, it, how, ref) => disk'.open = disk.open
         /\ \A it : Files!ResolveRerun(p, it) => disk'.open \subseteq disk.open
         /\ Files!ResolveDrop(p) => disk'.open \subseteq disk.open
         /\ \A it : it \in disk.open /\ Files!Unschedule(p, it) =>
              \A x \in disk'.open : x \in disk.open \/ x.status = "backlog"
         /\ \A it, s : it \in disk.open /\ Files!Link(p, it, s) =>
              \A x \in disk'.open : x \in disk.open \/ (x.key = it.key /\ x.story = s)
         /\ \A its, s : its \subseteq disk.open /\ Files!Schedule(p, its, s) =>
              \A x \in disk'.open :
                x \in disk.open \/ (x.story = s /\ \E it \in its : x.key = it.key)
         /\ \A k, i : Files!ReopenAdd(p, k, i) =>
              \A x \in disk'.open :
                x \in disk.open \/ (x.key = k /\ x.story = disk.resolved[i].ref)
         /\ \A k, i : Files!ReopenRerun(p, k, i) => disk'.open = disk.open
         /\ Files!ReopenDrop(p) => disk'.open = disk.open
<1>0. /\ pc[p] # "idle" => mem[p] = disk
      /\ disk \in Files!Stores /\ mem \in [Procs -> Files!Stores]
      /\ disk.open \subseteq Files!Items
  BY CopyIsCurrent DEF BacklogInv, ReadInv, VerbsInv, TypeOK, Files!TypeOK, Files!Stores
<1>a. ASSUME NEW st, pc[p] # "idle", Files!SaveOpen(st)
      PROVE  disk'.open = st.open
  BY <1>0, <1>a DEF Files!SaveOpen, Files!Stores
<1>b. ASSUME NEW st, Files!SaveResolved(st)
      PROVE  disk'.open = disk.open
  BY <1>0, <1>b DEF Files!SaveResolved, Files!Stores
<1>1. Files!Acquire(p) \/ Files!Release(p) \/ Files!Crash(p) => disk' = disk
  BY DEF Files!Acquire, Files!Release, Files!Crash, Files!Leave
<1>2. ASSUME Files!AppendStep(p)
      PROVE  \A x \in disk'.open : x \in disk.open \/ x.status = "backlog"
  <2>1. PICK k, c, sev, kind : pc[p] # "idle" /\ Files!AppendAs(p, k, c, sev, kind)
    BY <1>2 DEF Files!AppendStep, Files!AppendAllocated, Files!AppendExplicit
  <2> DEFINE it == Files!NewItem(k, c, sev, kind)
             st == [mem[p] EXCEPT !.open = @ \cup {it},
                                  !.next = Files!RaiseNext(@, k[1], k[2] + 1)]
  <2>2. Files!SaveOpen(st)
    BY <2>1 DEF Files!AppendAs, Files!OpenFileBody
  <2>3. st.open = disk.open \cup {it}
    BY <1>0, <2>1 DEF Files!Stores
  <2>4. it.status = "backlog"
    BY DEF Files!NewItem
  <2> HIDE DEF st, it
  <2> QED
    BY <1>a, <2>1, <2>2, <2>3, <2>4
<1>3. ASSUME NEW it, NEW how, NEW ref, Files!ResolveAppend(p, it, how, ref)
      PROVE  disk'.open = disk.open
  BY <1>3, <1>b DEF Files!ResolveAppend
<1>4. ASSUME NEW it, Files!ResolveRerun(p, it)
      PROVE  disk'.open \subseteq disk.open
  <2>1. pc[p] # "idle" /\ Files!SaveOpen(Files!WithoutOpen(mem[p], it.key))
    BY <1>4 DEF Files!ResolveRerun, Files!OpenFileBody
  <2> QED
    BY <1>0, <1>a, <2>1 DEF Files!WithoutOpen, Files!Stores
<1>5. ASSUME Files!ResolveDrop(p)
      PROVE  disk'.open \subseteq disk.open
  <2>1. pc[p] # "idle" /\ Files!SaveOpen(Files!WithoutOpen(mem[p], cur[p]))
    BY <1>0, <1>5 DEF Files!ResolveDrop
  <2> QED
    BY <1>0, <1>a, <2>1 DEF Files!WithoutOpen, Files!Stores
<1>6. ASSUME NEW it \in disk.open, Files!Unschedule(p, it)
      PROVE  \A x \in disk'.open : x \in disk.open \/ x.status = "backlog"
  <2> DEFINE new == [it EXCEPT !.status = "backlog", !.story = NoStory]
  <2>1. pc[p] # "idle" /\ Files!SaveOpen(Files!Rewritten(mem[p], {it}, {new}))
    BY <1>6 DEF Files!Unschedule, Files!OpenFileBody
  <2>2. new.status = "backlog"
    BY <1>0 DEF Files!Items
  <2> HIDE DEF new
  <2>3. disk'.open = (disk.open \ {it}) \cup {new}
    BY <1>0, <1>a, <2>1 DEF Files!Rewritten, Files!Stores
  <2> QED
    BY <2>2, <2>3
<1>c. ASSUME NEW it \in Files!Items, NEW s
      PROVE  /\ Files!ScheduledTo(it, s).story = s
             /\ Files!ScheduledTo(it, s).key = it.key
  BY <1>c DEF Files!ScheduledTo, Files!Items
<1>7. ASSUME NEW it \in disk.open, NEW s, Files!Link(p, it, s)
      PROVE  \A x \in disk'.open : x \in disk.open \/ (x.key = it.key /\ x.story = s)
  <2>1. /\ pc[p] # "idle"
        /\ Files!SaveOpen(Files!Rewritten(mem[p], {it}, {Files!ScheduledTo(it, s)}))
    BY <1>7 DEF Files!Link, Files!OpenFileBody
  <2>2. disk'.open = (disk.open \ {it}) \cup {Files!ScheduledTo(it, s)}
    BY <1>0, <1>a, <2>1 DEF Files!Rewritten, Files!Stores
  <2> QED
    BY <1>0, <1>c, <2>2
<1>8. ASSUME NEW its \in SUBSET disk.open, NEW s, Files!Schedule(p, its, s)
      PROVE  \A x \in disk'.open :
               x \in disk.open \/ (x.story = s /\ \E it \in its : x.key = it.key)
  <2> DEFINE news == {Files!ScheduledTo(it, s) : it \in its}
  <2>1. pc[p] # "idle" /\ Files!SaveOpen(Files!Rewritten(mem[p], its, news))
    BY <1>8 DEF Files!Schedule, Files!OpenFileBody
  <2>2. \A x \in news : x.story = s /\ \E it \in its : x.key = it.key
    BY <1>0, <1>c
  <2> HIDE DEF news
  <2>3. disk'.open = (disk.open \ its) \cup news
    BY <1>0, <1>a, <2>1 DEF Files!Rewritten, Files!Stores
  <2> QED
    BY <2>2, <2>3
<1>9. ASSUME NEW k, NEW i, Files!ReopenAdd(p, k, i)
      PROVE  \A x \in disk'.open :
               x \in disk.open \/ (x.key = k /\ x.story = disk.resolved[i].ref)
  <2>1. /\ pc[p] # "idle" /\ mem[p] = disk
        /\ i \in DOMAIN disk.resolved /\ disk.resolved[i].item.key = k
    BY <1>0, <1>9
       DEF Files!ReopenAdd, Files!IsReopenable, Files!IsNewestResolved, Files!ResolvedAt
  <2>2. disk.resolved[i].item \in Files!Items
    <3>1. disk.resolved \in Seq(Files!Entries)
      BY <1>0 DEF Files!Stores
    <3>2. disk.resolved[i] \in Files!Entries
      BY <2>1, <3>1
    <3> QED
      BY <3>2 DEF Files!Entries
  <2> DEFINE it == Files!ScheduledTo(disk.resolved[i].item, disk.resolved[i].ref)
             st == [disk EXCEPT !.open = @ \cup {it}]
  <2>3. Files!SaveOpen(st)
    BY <1>9, <2>1 DEF Files!ReopenAdd
  <2>4. st.open = disk.open \cup {it}
    BY <1>0 DEF Files!Stores
  <2>5. it.key = k /\ it.story = disk.resolved[i].ref
    BY <1>c, <2>1, <2>2
  <2> HIDE DEF st, it
  <2> QED
    BY <1>a, <2>1, <2>3, <2>4, <2>5
<1>10. ASSUME NEW k, NEW i, Files!ReopenRerun(p, k, i)
       PROVE  disk'.open = disk.open
  BY <1>10, <1>b DEF Files!ReopenRerun, Files!DropResolved
<1>11. ASSUME Files!ReopenDrop(p)
       PROVE  disk'.open = disk.open
  BY <1>11, <1>b DEF Files!ReopenDrop, Files!DropResolved
<1> QED
  BY <1>1, <1>2, <1>3, <1>4, <1>5, <1>6, <1>7, <1>8, <1>9, <1>10, <1>11

\* Who is not in issues_lock can do no more to the files than load them.
LEMMA OutsideLoads ==
  ASSUME BacklogInv, NEW p \in Procs, step[p] \in LockFree,
         Start(p) \/ Continue(p) \/ Crash(p)
  PROVE  Files!Acquire(p) \/ UNCHANGED fileVars
<1>1. pc[p] = "idle" /\ Files!TypeOK
  BY DEF BacklogInv, ReadInv, VerbsInv, TypeOK, LockFree
<1>2. Files!Acquire(p) \/ UNCHANGED fileVars
  <2>1. CASE Start(p)
    BY <2>1 DEF Start, FileCall, StoryRead, PromoteEnter, ScheduleEnter, EnterEpic, MoveEpic
  <2>2. CASE Crash(p)
    BY <1>1, <2>2 DEF Crash
  <2>3. CASE Continue(p)
    BY <1>1, <2>3
       DEF Continue, AppendBody, InBody, ResolveBody, RepairAudit, RepairWrite,
           SecondSave, EndFileCall, StorySave, HookAcquire, HookDrop, HookEnd, HookKey,
           NestedAcquire, PromoteMint, PromoteRefuse, ScheduleAttach, ScheduleRefuse,
           ScheduleItems, Unlock, LockFree
  <2> QED
    BY <2>1, <2>2, <2>3
<1> QED
  BY <1>2

LEMMA OutsideLeavesFiles ==
  ASSUME BacklogInv, NEW p \in Procs, step[p] \in LockFree,
         Start(p) \/ Continue(p) \/ Crash(p)
  PROVE  disk' = disk
BY OutsideLoads, OpenAfter DEF fileVars

\* The files stay as they are while somebody else is in issues_lock.
LEMMA LockedOut ==
  ASSUME BacklogInv, NEW p \in Procs, NEW q \in Procs \ {p}, step[q] \notin LockFree,
         Start(p) \/ Continue(p) \/ Crash(p)
  PROVE  UNCHANGED fileVars /\ step[p] \in LockFree
<1>1. holder = q /\ pc[p] = "idle" /\ q # NoProc
  BY CopyIsCurrent, FilesAssumption DEF Files!IssueStoreAssumption
<1>2. step[p] \in LockFree
  BY <1>1 DEF BacklogInv, ReadInv, VerbsInv, TypeOK, LockFree
<1> QED
  BY <1>1, <1>2, OutsideLoads DEF Files!Acquire, Files!LockIsFree

LEMMA NextBacklog ==
  ASSUME HookResolves, SchedulersWriteAlone, BacklogInv, [Next]_vars
  PROVE  BacklogInv'
<1>1. ReadInv'
  BY NextRead DEF BacklogInv
<1>2. [FP!Next]_(FP!vars)
  BY NextIsFileStep, SameNext, SameVars DEF BacklogInv, ReadInv
<1>3. FP!FilesInv'
  BY <1>2, FP!NextFiles, FilesAssumption DEF BacklogInv
<1> QED
  BY <1>1, <1>3 DEF BacklogInv

LEMMA InitBacklog == Init => BacklogInv
  BY InitRead, FP!InitFiles, FilesAssumption, SameInit DEF Init, BacklogInv

-----------------------------------------------------------------------------
(* A scheduled item is listed by its story.                                 *)

ScheduledIsListed ==
  \A it \in disk.open :
    it.status = "scheduled" => it.story \in Stories /\ Claims(it.story, it.key)

\* Whoever is about to write that items are scheduled has the story list them.
ListedFirst(p) ==
  step[p] = "items" =>
    /\ Exists(job[p].story)
    /\ \A it \in disk.open :
         it.key \in job[p].keys /\ it.status = "backlog" =>
           it.key \in nodes[job[p].story].resolves

\* A finding about to be repaired still holds.
RepairIsDue(p) ==
  step[p] = "repair" =>
    \A k \in job[p].keys :
      /\ job[p].id = "1d" => Claims(job[p].story, k)
      /\ job[p].id = "1j" =>
           \A i \in Files!ResolvedAt(disk, k) : Files!IsReopenable(disk, k, i) =>
             Claims(disk.resolved[i].ref, k)

SchedInv ==
  /\ BacklogInv
  /\ ScheduledIsListed
  /\ \A p \in Procs : ListedFirst(p) /\ RepairIsDue(p)

\* What a step adds to the open items is not scheduled, or is listed by its story.
LEMMA AddedIsListed ==
  ASSUME SchedInv, NEW p \in Procs, Start(p) \/ Continue(p) \/ Crash(p),
         NEW x \in disk'.open, x \notin disk.open, x.status = "scheduled"
  PROVE  x.story \in Stories /\ Claims(x.story, x.key)
<1>0. /\ BacklogInv /\ ListedFirst(p) /\ RepairIsDue(p)
      /\ Suits(p, step[p], job[p]) /\ job[p] \in Jobs
  BY DEF SchedInv, BacklogInv, ReadInv, VerbsInv
<1>a. disk' # disk /\ ~(disk'.open \subseteq disk.open) /\ disk'.open # disk.open
  OBVIOUS
<1>1. mem[p] = disk
  BY <1>0, <1>a, OutsideLeavesFiles, CopyIsCurrent
<1>2. CASE AppendBody(p)
  BY <1>0, <1>2, OpenAfter DEF AppendBody
<1>3. CASE RepairWrite(p)
  <2>1. PICK k \in job[p].keys :
          \/ \E it \in Files!OpenItems(mem[p], k) : RepairItem(p, it)
          \/ \E it \in Files!OpenItems(mem[p], k) :
               Files!ResolveAppend(p, it, "fixed", job[p].story)
          \/ \E i \in Files!ResolvedAt(mem[p], k) :
               /\ job[p].id = "1j"
               /\ Files!ReopenAdd(p, k, i) \/ Files!ReopenRerun(p, k, i)
    BY <1>3 DEF RepairWrite
  <2>2. step[p] = "repair"
    BY <1>3 DEF RepairWrite
  <2>3. ASSUME NEW it \in Files!OpenItems(mem[p], k), RepairItem(p, it)
        PROVE  x.story \in Stories /\ Claims(x.story, x.key)
    <3>1. it \in disk.open /\ it.key = k
      BY <1>1, <2>3 DEF Files!OpenItems
    <3>2. job[p].id = "1d" /\ Files!Link(p, it, job[p].story)
      BY <1>0, <1>a, <2>3, <3>1, OpenAfter DEF RepairItem
    <3> QED
      BY <1>0, <2>2, <3>1, <3>2, OpenAfter DEF RepairIsDue, Suits
  <2>4. ASSUME NEW i \in Files!ResolvedAt(mem[p], k), Files!ReopenAdd(p, k, i),
               job[p].id = "1j"
        PROVE  x.story \in Stories /\ Claims(x.story, x.key)
    <3>1. x.key = k /\ x.story = disk.resolved[i].ref
      BY <1>0, <2>4, OpenAfter
    <3>2. Files!IsReopenable(disk, k, i)
      BY <1>1, <2>4 DEF Files!ReopenAdd
    <3> QED
      BY <1>0, <1>1, <2>2, <2>4, <3>1, <3>2 DEF RepairIsDue, Files!IsReopenable
  <2> QED
    BY <1>0, <1>a, <2>1, <2>3, <2>4, OpenAfter
<1>4. CASE ScheduleItems(p)
  <2>1. /\ ToSchedule(p) \subseteq disk.open
        /\ Files!Schedule(p, ToSchedule(p), job[p].story) /\ step[p] = "items"
        /\ \A it \in ToSchedule(p) : it.key \in job[p].keys /\ it.status = "backlog"
    BY <1>1, <1>4 DEF ScheduleItems, ToSchedule
  <2>2. x.story = job[p].story /\ \E it \in ToSchedule(p) : x.key = it.key
    BY <1>0, <2>1, OpenAfter
  <2> QED
    BY <1>0, <2>1, <2>2 DEF ListedFirst, Claims, Suits
<1>5. CASE ResolveBody(p)
  BY <1>0, <1>5, <1>a, OpenAfter DEF ResolveBody
<1>6. CASE \E k \in Keys : HookKey(p, k)
  BY <1>0, <1>6, <1>a, OpenAfter DEF HookKey, HookBegin, fileVars
<1>7. CASE Start(p) \/ Crash(p)
  BY <1>0, <1>7, <1>a, OpenAfter
     DEF Start, FileCall, StoryRead, PromoteEnter, ScheduleEnter, EnterEpic, MoveEpic, Crash,
         fileVars
<1>8. CASE Continue(p)
  BY <1>0, <1>2, <1>3, <1>4, <1>5, <1>6, <1>8, <1>a, OpenAfter
     DEF Continue, RepairAudit, SecondSave, EndFileCall, StorySave, HookAcquire, HookDrop,
         HookEnd, NestedAcquire, PromoteMint, PromoteRefuse, ScheduleAttach, ScheduleRefuse,
         Unlock, fileVars
<1> QED
  BY <1>7, <1>8

LEMMA ClaimsAccrue ==
  ASSUME KeysAccrue, NEW s \in Stories, NEW k, Claims(s, k)
  PROVE  Claims(s, k)'
  BY DEF KeysAccrue, Claims, Exists

\* Somebody else's step: the files stay, for q is in issues_lock.
LEMMA OthersFindings ==
  ASSUME HookResolves, SchedInv, KeysAccrue, NEW p \in Procs, NEW q \in Procs \ {p},
         Start(p) \/ Continue(p) \/ Crash(p)
  PROVE  ListedFirst(q)' /\ RepairIsDue(q)'
<1>0. /\ q \in Procs /\ ListedFirst(q) /\ RepairIsDue(q) /\ BacklogInv
      /\ step'[q] = step[q] /\ job'[q] = job[q] /\ Suits(q, step[q], job[q])
  BY OneMoves DEF SchedInv, BacklogInv, ReadInv, VerbsInv
<1> SUFFICES ASSUME step[q] \in {"items", "repair"}
             PROVE  ListedFirst(q)' /\ RepairIsDue(q)'
  BY <1>0 DEF ListedFirst, RepairIsDue
<1>1. step[q] \notin LockFree
  BY DEF LockFree
<1>2. pc[p] = "idle" /\ step[p] \in LockFree
  BY <1>0, <1>1, CopyIsCurrent DEF BacklogInv, ReadInv, VerbsInv, TypeOK, LockFree
<1>3. disk' = disk
  BY <1>0, <1>2, OutsideLeavesFiles
<1>4. ListedFirst(q)'
  BY <1>0, <1>3 DEF ListedFirst, KeysAccrue, Exists, Suits
<1>5. RepairIsDue(q)'
  <2>1. job[q].id = "1d" => job[q].story \in Stories
    BY <1>0 DEF Suits
  <2>2. \A k, i : Files!IsReopenable(disk, k, i) => disk.resolved[i].ref \in Stories
    BY DEF Files!IsReopenable
  <2> SUFFICES ASSUME step[q] = "repair", NEW k \in job[q].keys
               PROVE  /\ job[q].id = "1d" => Claims(job[q].story, k)'
                      /\ job[q].id = "1j" =>
                           \A i \in Files!ResolvedAt(disk, k) : Files!IsReopenable(disk, k, i) =>
                             Claims(disk.resolved[i].ref, k)'
    BY <1>0, <1>3 DEF RepairIsDue, Claims, Exists
  <2>3. \A s \in Stories : Claims(s, k) =>
          nodes'[s].status # "absent" /\ k \in nodes'[s].resolves
    BY DEF KeysAccrue, Claims, Exists
  <2> QED
    BY <1>0, <1>3, <2>1, <2>2, <2>3 DEF RepairIsDue, Claims, Exists
<1> QED
  BY <1>4, <1>5

\* The newest entry of a key is one.
LEMMA OneReopenable ==
  ASSUME NEW st \in Files!Stores, NEW k, NEW i, NEW j,
         Files!IsReopenable(st, k, i), Files!IsReopenable(st, k, j)
  PROVE  i = j
  BY DEF Files!IsReopenable, Files!IsNewestResolved, Files!ResolvedAt, Files!Stores

LEMMA OwnFindings ==
  ASSUME HookResolves, SchedInv, KeysAccrue, NEW p \in Procs,
         Start(p) \/ Continue(p) \/ Crash(p)
  PROVE  ListedFirst(p)' /\ RepairIsDue(p)'
<1>0. /\ BacklogInv /\ Suits(p, step[p], job[p]) /\ job[p] \in Jobs
      /\ step \in [Procs -> Steps] /\ job \in [Procs -> Jobs]
      /\ nodes \in [Stories -> Nodes] /\ disk \in Files!Stores
  BY DEF SchedInv, BacklogInv, ReadInv, VerbsInv, TypeOK, Files!TypeOK
<1>1. ASSUME NEW s \in Stories, PromoteMint(p, s)
      PROVE  ListedFirst(p)' /\ RepairIsDue(p)'
  <2>1. /\ step'[p] = "items" /\ job'[p] = [job[p] EXCEPT !.story = s] /\ disk' = disk
        /\ \/ Resumable(p, s) /\ UNCHANGED nodes
           \/ SaveNode(s, [status |-> "backlog", resolves |-> job[p].keys])
    BY <1>0, <1>1 DEF PromoteMint, Goto, SetJob, fileVars
  <2>2. job'[p].story = s /\ job'[p].keys = job[p].keys
    BY <1>0, <2>1, ChangedStory
  <2>3. nodes'[s].resolves = job[p].keys /\ nodes'[s].status # "absent"
    <3>1. CASE Resumable(p, s) /\ UNCHANGED nodes
      BY <3>1 DEF Resumable, Claimants, LiveClaims, Claims, Exists
    <3>2. CASE SaveNode(s, [status |-> "backlog", resolves |-> job[p].keys])
      BY <1>0, <3>2 DEF SaveNode
    <3> QED
      BY <2>1, <3>1, <3>2
  <2> QED
    BY <2>1, <2>2, <2>3 DEF ListedFirst, RepairIsDue, Exists
<1>2. CASE ScheduleAttach(p)
  <2>1. /\ step[p] = "attach" /\ step'[p] = "items" /\ job' = job /\ disk' = disk
        /\ job[p].story \in Stories
    BY <1>0, <1>2 DEF ScheduleAttach, Goto, fileVars, Suits
  <2>2. mem[p] = disk
    BY <1>0, <2>1, CopyIsCurrent DEF LockFree
  <2> DEFINE ks == job[p].node.resolves \cup {it.key : it \in ToSchedule(p)}
  <2>3. ks \in SUBSET Keys
    BY <1>0 DEF ToSchedule, Jobs, Nodes
  <2>4. /\ nodes' = [nodes EXCEPT ![job[p].story] = [job[p].node EXCEPT !.resolves = ks]]
    BY <1>2 DEF ScheduleAttach, SaveNode
  <2>5. \A it \in disk.open : it.key \in job[p].keys /\ it.status = "backlog" => it.key \in ks
    BY <2>2 DEF ToSchedule
  <2> HIDE DEF ks
  <2>6. nodes'[job[p].story] = [status |-> job[p].node.status, resolves |-> ks]
    BY <1>0, <2>1, <2>3, <2>4, ChangedNode DEF Jobs
  <2>7. job[p].node.status # "absent"
    BY <2>1 DEF SchedInv, BacklogInv, ReadInv, ReadIsCurrent, Attaching
  <2> QED
    BY <2>1, <2>5, <2>6, <2>7 DEF ListedFirst, RepairIsDue, Exists
<1>3. CASE RepairAudit(p)
  <2>1. PICK r \in Reports : SetJob(p, [job[p] EXCEPT !.id = r.id, !.keys = {r.key}, !.story = r.story])
    BY <1>3 DEF RepairAudit
  <2>2. /\ r.id \in {"1a", "1b", "1c", "1d", "1g", "1j"} /\ r.key \in Keys
        /\ r.story \in Stories \cup {NoStory}
    BY ReportsAreTyped DEF SchedInv, BacklogInv, ReadInv
  <2>3. /\ job'[p].id = r.id /\ job'[p].keys = {r.key} /\ job'[p].story = r.story
        /\ step'[p] = "repair" /\ disk' = disk /\ nodes' = nodes
    BY <1>0, <1>3, <2>1 DEF RepairAudit, SetJob, Goto, fileVars, Jobs
  <2>4. r.id = "1d" => Claims(r.story, r.key)
    BY DEF Reports, Finding1d, LiveClaims
  <2>5. r.id = "1j" => Finding1j(r.key)
    BY DEF Reports
  <2>6. r.id = "1j" =>
          \A i \in Files!ResolvedAt(disk, r.key) : Files!IsReopenable(disk, r.key, i) =>
             Claims(disk.resolved[i].ref, r.key)
    BY <1>0, <2>5, OneReopenable DEF Finding1j
  <2> QED
    BY <2>3, <2>4, <2>6 DEF ListedFirst, RepairIsDue, Claims, Exists
<1>4. CASE step'[p] \notin {"items", "repair"}
  BY <1>4 DEF ListedFirst, RepairIsDue
<1>5. CASE \E e \in Epics : MoveEpic(p, e)
  BY <1>0, <1>4, <1>5 DEF MoveEpic, Idle
<1>6. CASE Start(p) \/ Crash(p)
  BY <1>0, <1>4, <1>5, <1>6
     DEF Start, FileCall, StoryRead, PromoteEnter, ScheduleEnter, Crash, Done, Goto
<1>7. CASE Continue(p)
  <2>1. CASE (\E s \in Stories : PromoteMint(p, s)) \/ ScheduleAttach(p) \/ RepairAudit(p)
    BY <1>1, <1>2, <1>3, <2>1
  <2>2. CASE ~((\E s \in Stories : PromoteMint(p, s)) \/ ScheduleAttach(p) \/ RepairAudit(p))
    <3>1. step'[p] \notin {"items", "repair"}
      BY <1>0, <1>7, <2>2
         DEF Continue, AppendBody, InBody, ResolveBody, RepairWrite,
             SecondSave, EndFileCall, StorySave, HookAcquire, HookDrop, HookEnd, HookKey,
             NestedAcquire, PromoteRefuse, ScheduleRefuse, ScheduleItems, Unlock, Done, Goto
    <3> QED
      BY <1>4, <3>1
  <2> QED
    BY <2>1, <2>2
<1> QED
  BY <1>6, <1>7

LEMMA NextSched ==
  ASSUME HookResolves, SchedulersWriteAlone, SchedInv, [Next]_vars
  PROVE  SchedInv'
<1>0. BacklogInv' /\ KeysAccrue
  BY NextBacklog, NextRead DEF SchedInv, BacklogInv
<1>1. ASSUME NEW p \in Procs, Start(p) \/ Continue(p) \/ Crash(p)
      PROVE  SchedInv'
  <2>1. ScheduledIsListed'
    <3> SUFFICES ASSUME NEW x \in disk'.open, x.status = "scheduled"
                 PROVE  x.story \in Stories /\ Claims(x.story, x.key)'
      BY DEF ScheduledIsListed
    <3>1. x.story \in Stories /\ Claims(x.story, x.key)
      BY <1>1, AddedIsListed DEF SchedInv, ScheduledIsListed
    <3> QED
      BY <1>0, <3>1, ClaimsAccrue
  <2>2. \A q \in Procs : ListedFirst(q)' /\ RepairIsDue(q)'
    BY <1>0, <1>1, OwnFindings, OthersFindings
  <2> QED
    BY <1>0, <2>1, <2>2 DEF SchedInv
<1>2. CASE UNCHANGED vars
  <2>1. UNCHANGED <<disk, nodes, step, job>>
    BY <1>2 DEF vars, fileVars
  <2> QED
    BY <1>0, <2>1
       DEF SchedInv, ScheduledIsListed, ListedFirst, RepairIsDue, Claims, Exists
<1> QED
  BY <1>1, <1>2 DEF Next

LEMMA InitSched == Init => SchedInv
<1> SUFFICES ASSUME Init
             PROVE  SchedInv
  OBVIOUS
<1>1. BacklogInv
  BY InitBacklog
<1>2. disk.open = {} /\ \A p \in Procs : step[p] = "idle"
  BY DEF Init, Files!Init, Files!EmptyStore
<1> QED
  BY <1>1, <1>2 DEF SchedInv, ScheduledIsListed, ListedFirst, RepairIsDue

\* An open item that says it is scheduled is listed by the story it names,
\* also when promotions, schedulings and repairs were interrupted anywhere.
THEOREM ScheduledItemsAreListed ==
  HookResolves /\ SchedulersWriteAlone => (Spec => []ScheduledIsClaimed)
<1> SUFFICES ASSUME HookResolves, SchedulersWriteAlone
             PROVE  Spec => []ScheduledIsClaimed
  OBVIOUS
<1>1. SchedInv => ScheduledIsClaimed
  BY DEF SchedInv, ScheduledIsListed, ScheduledIsClaimed, Finding1b
<1>2. SchedInv /\ [Next]_vars => SchedInv'
  BY NextSched
<1> QED
  BY <1>1, <1>2, InitSched, PTL DEF Spec

-----------------------------------------------------------------------------
(* Two stories never list the same item.                                    *)

\* schedule-issue adds keys without looking for other claimants, and a claim
\* that an archived epic takes along may be taken over before it comes back.
NobodySchedules == \A p \in Procs : "schedule-issue" \notin Verbs[p]
EpicsStay == \A p \in Procs : "move-epic" \notin Verbs[p]

OneClaimant ==
  \A s, t \in Stories, k \in Keys : Claims(s, k) /\ Claims(t, k) => s = t

ClaimInv == ReadInv /\ archived = {} /\ OneClaimant

LEMMA NothingIsArchived ==
  ASSUME EpicsStay, archived = {}, [Next]_vars
  PROVE  archived' = {}
<1>1. ASSUME NEW p \in Procs, Start(p) \/ Continue(p) \/ Crash(p)
      PROVE  archived' = {}
  <2>1. ~(\E e \in Epics : MoveEpic(p, e))
    BY DEF MoveEpic, Idle, EpicsStay
  <2>2. CASE Start(p) \/ Crash(p)
    BY <2>1, <2>2 DEF Start, FileCall, StoryRead, PromoteEnter, ScheduleEnter, EnterEpic, Crash
  <2>3. CASE Continue(p)
    BY <2>3
       DEF Continue, AppendBody, InBody, ResolveBody, RepairAudit, RepairWrite,
           SecondSave, EndFileCall, StorySave, HookAcquire, HookDrop, HookEnd, HookKey,
           NestedAcquire, PromoteMint, PromoteRefuse, ScheduleAttach, ScheduleRefuse,
           ScheduleItems, Unlock
  <2> QED
    BY <1>1, <2>2, <2>3
<1>2. CASE UNCHANGED vars
  BY <1>2 DEF vars
<1> QED
  BY <1>1, <1>2 DEF Next

LEMMA NothingDies ==
  ASSUME archived = {}, NEW s \in Stories, NEW k
  PROVE  ~DeadClaim(s) /\ (LiveClaims(s, k) <=> Claims(s, k))
  BY DEF DeadClaim, LiveClaims

\* A story is minted over no other claim.
LEMMA MintsUnclaimed ==
  ASSUME VerbsInv, archived = {}, OneClaimant, NEW p \in Procs, NEW s \in Stories, Mints(p, s)
  PROVE  OneClaimant'
<1>1. nodes \in [Stories -> Nodes]
  BY DEF VerbsInv, TypeOK
<1>2. \A t \in Stories, k \in job[p].keys : ~Claims(t, k)
  BY NothingDies DEF Mints, Mintable, Claimants
<1>3. /\ nodes'[s].resolves = job[p].keys
      /\ \A t \in Stories \ {s} : nodes'[t] = nodes[t]
  BY <1>1 DEF Mints, SaveNode
<1> SUFFICES ASSUME NEW t \in Stories, NEW u \in Stories, NEW k \in Keys,
                    Claims(t, k)', Claims(u, k)', t # u
             PROVE  FALSE
  BY DEF OneClaimant
<1>4. \A v \in Stories \ {s} : Claims(v, k)' => Claims(v, k)
  BY <1>3 DEF Claims, Exists
<1>5. Claims(s, k)' => k \in job[p].keys
  BY <1>3 DEF Claims
<1> QED
  BY <1>2, <1>4, <1>5 DEF OneClaimant

LEMMA NextClaim ==
  ASSUME HookResolves, NobodySchedules, EpicsStay, ClaimInv, [Next]_vars
  PROVE  ClaimInv'
<1>0. ReadInv' /\ archived' = {}
  BY NextRead, NothingIsArchived DEF ClaimInv, NobodySchedules, SchedulersWriteAlone
<1>1. ASSUME NEW p \in Procs, Start(p) \/ Continue(p) \/ Crash(p)
      PROVE  OneClaimant'
  <2>1. CASE NodesKeepKeys
    BY <2>1 DEF NodesKeepKeys, ClaimInv, OneClaimant, Claims, Exists
  <2>2. ASSUME NEW s \in Stories, Mints(p, s)
        PROVE  OneClaimant'
    BY <2>2, MintsUnclaimed DEF ClaimInv, ReadInv
  <2>3. CASE Attaches(p)
    BY <2>3 DEF Attaches, ClaimInv, ReadInv, VerbsInv, Suits, NobodySchedules
  <2> QED
    BY <1>1, <2>1, <2>2, <2>3, NodesAfter DEF ClaimInv
<1>2. CASE UNCHANGED vars
  BY <1>0, <1>2 DEF vars, ClaimInv, OneClaimant, Claims, Exists
<1> QED
  BY <1>0, <1>1, <1>2 DEF Next, ClaimInv

LEMMA InitClaim == Init => ClaimInv
<1> SUFFICES ASSUME Init
             PROVE  ClaimInv
  OBVIOUS
<1>1. \A s \in Stories : nodes[s].resolves = {}
  BY DEF Init, Absent
<1> QED
  BY <1>1, InitRead DEF Init, ClaimInv, OneClaimant, Claims

\* Promotions that were interrupted anywhere and retried by anybody leave an
\* item with one story at most, whatever else goes on but schedule-issue and
\* the moving of epics.
THEOREM PromotionsClaimOnce ==
  HookResolves /\ NobodySchedules /\ EpicsStay => (Spec => []NoDoubleClaim)
<1> SUFFICES ASSUME HookResolves, NobodySchedules, EpicsStay
             PROVE  Spec => []NoDoubleClaim
  OBVIOUS
<1>1. ASSUME ClaimInv
      PROVE  NoDoubleClaim
  <2>1. \A s \in Stories, k \in Keys : LiveClaims(s, k) => Claims(s, k)
    BY DEF LiveClaims
  <2> QED
    BY <1>1, <2>1 DEF ClaimInv, OneClaimant, NoDoubleClaim, Finding1h
<1>2. ClaimInv /\ [Next]_vars => ClaimInv'
  BY NextClaim
<1> QED
  BY <1>1, <1>2, InitClaim, PTL DEF Spec

-----------------------------------------------------------------------------
(* What a body does to the items a finding speaks of.                       *)

LEMMA EvaluatedItems ==
  ASSUME NEW x
  PROVE  /\ x \in Evaluated <=> x \in disk.open /\ ~Files!IsResolved(disk, x.key)
         /\ x \in Evaluated' <=> x \in disk'.open /\ ~Files!IsResolved(disk', x.key)
  BY DEF Evaluated, Files!IsResolved, Files!ResolvedAt

\* An appended item has a key of its own.
LEMMA AppendedIsNew ==
  ASSUME BacklogInv, NEW p \in Procs, Files!AppendStep(p)
  PROVE  /\ disk'.resolved = disk.resolved
         /\ \A x \in disk'.open :
              x \in disk.open \/ (x.status = "backlog" /\ x.key \notin Files!KeysIn(disk))
<1>0. /\ pc[p] # "idle" => mem[p] = disk
      /\ disk \in Files!Stores /\ mem \in [Procs -> Files!Stores]
  BY CopyIsCurrent DEF BacklogInv, ReadInv, VerbsInv, TypeOK, Files!TypeOK
<1>1. PICK c \in Contents, sev \in Severities, kind \in Kinds, n \in 1..LastSuffix :
        /\ pc[p] # "idle"
        /\ Files!AppendAs(p, <<EpicOf[c], n>>, c, sev, kind)
        /\ \/ Files!IsNextSuffix(mem[p], EpicOf[c], n)
           \/ <<EpicOf[c], n>> \notin Files!KeysIn(mem[p])
  <2>1. PICK c \in Contents, sev \in Severities, kind \in Kinds, dup \in BOOLEAN :
          \/ Files!AppendAllocated(p, c, sev, kind, dup)
          \/ \E n \in ExplicitSuffixes : Files!AppendExplicit(p, c, sev, kind, dup, n)
    BY DEF Files!AppendStep
  <2>2. CASE Files!AppendAllocated(p, c, sev, kind, dup)
    BY <2>2 DEF Files!AppendAllocated
  <2>3. CASE \E n \in ExplicitSuffixes : Files!AppendExplicit(p, c, sev, kind, dup, n)
    BY <2>3, FilesAssumption DEF Files!AppendExplicit, Files!IssueStoreAssumption
  <2> QED
    BY <2>1, <2>2, <2>3
<1> DEFINE k == <<EpicOf[c], n>>
           it == Files!NewItem(k, c, sev, kind)
           st == [mem[p] EXCEPT !.open = @ \cup {it},
                                !.next = Files!RaiseNext(@, k[1], k[2] + 1)]
<1>2. k \notin Files!KeysIn(disk)
  <2>1. CASE Files!IsNextSuffix(disk, EpicOf[c], n)
    <3>1. k[1] = EpicOf[c] /\ k[2] = n /\ n \in Nat
      OBVIOUS
    <3>2. \A u \in Files!KeysIn(disk) : u[1] = EpicOf[c] => n > u[2]
      BY <2>1 DEF Files!IsNextSuffix
    <3> HIDE DEF k
    <3> QED
      BY <3>1, <3>2
  <2> QED
    BY <1>0, <1>1, <2>1
<1>3. Files!SaveOpen(st)
  BY <1>1 DEF Files!AppendAs, Files!OpenFileBody
<1>4. st.open = disk.open \cup {it}
  BY <1>0, <1>1 DEF Files!Stores
<1>5. it.status = "backlog" /\ it.key = k
  BY DEF Files!NewItem
<1> HIDE DEF st, it, k
<1>6. disk'.open = disk.open \cup {it} /\ disk'.resolved = disk.resolved
  BY <1>0, <1>3, <1>4 DEF Files!SaveOpen, Files!Stores
<1> QED
  BY <1>2, <1>5, <1>6

\* The bodies that save issues.yaml alone resolve nothing, and the others one key.
LEMMA ResolvedAfter ==
  ASSUME BacklogInv, NEW p \in Procs
  PROVE  /\ \A it : Files!ResolveRerun(p, it) =>
              /\ disk'.resolved = disk.resolved
              /\ Files!OpenItems(disk', it.key) = {}
         /\ Files!ResolveDrop(p) => disk'.resolved = disk.resolved
         /\ \A it, s : it \in disk.open /\ Files!Link(p, it, s) =>
              /\ disk'.resolved = disk.resolved
              /\ it \in Evaluated
              /\ \A x \in disk'.open : x \in disk.open \/ x.status = "scheduled"
         /\ \A its, s : its \subseteq disk.open /\ Files!Schedule(p, its, s) =>
              /\ disk'.resolved = disk.resolved
              /\ its \subseteq Evaluated
              /\ \A x \in disk'.open : x \in disk.open \ its \/ x.status = "scheduled"
         /\ \A k, i : Files!ReopenAdd(p, k, i) =>
              /\ disk'.resolved = disk.resolved /\ Files!IsResolved(disk, k)
              /\ \A x \in Files!OpenItems(disk', k) : x.status = "scheduled"
              /\ cur'[p] = k
         /\ \A it, how, ref : Files!ResolveAppend(p, it, how, ref) =>
              /\ Files!IsResolved(disk', it.key)
              /\ \A k : Files!IsResolved(disk, k) => Files!IsResolved(disk', k)
         /\ Files!ReopenDrop(p) =>
              \A k : k # cur[p] /\ Files!IsResolved(disk, k) => Files!IsResolved(disk', k)
<1>0. /\ pc[p] # "idle" => mem[p] = disk
      /\ disk \in Files!Stores /\ mem \in [Procs -> Files!Stores]
      /\ disk.open \subseteq Files!Items /\ disk.resolved \in Seq(Files!Entries)
      /\ cur \in [Procs -> Keys \cup {NoKey}]
  BY CopyIsCurrent DEF BacklogInv, ReadInv, VerbsInv, TypeOK, Files!TypeOK, Files!Stores, Keys
<1>a. ASSUME NEW st, Files!SaveOpen(st)
      PROVE  disk'.open = st.open /\ disk'.resolved = disk.resolved
  BY <1>0, <1>a DEF Files!SaveOpen, Files!Stores
<1>b. ASSUME NEW st, Files!SaveResolved(st)
      PROVE  disk'.resolved = st.resolved
  BY <1>0, <1>b DEF Files!SaveResolved, Files!Stores
<1>c. ASSUME NEW it \in Files!Items, NEW s
      PROVE  /\ Files!ScheduledTo(it, s).status = "scheduled"
             /\ Files!ScheduledTo(it, s).key = it.key
  BY <1>c DEF Files!ScheduledTo, Files!Items
<1>1. ASSUME NEW it, Files!ResolveRerun(p, it)
      PROVE  disk'.resolved = disk.resolved /\ Files!OpenItems(disk', it.key) = {}
  <2>1. pc[p] # "idle" /\ Files!SaveOpen(Files!WithoutOpen(mem[p], it.key))
    BY <1>1 DEF Files!ResolveRerun, Files!OpenFileBody
  <2>2. disk'.open = disk.open \ Files!OpenItems(disk, it.key)
    BY <1>0, <1>a, <2>1 DEF Files!WithoutOpen, Files!Stores
  <2> QED
    BY <1>a, <2>1, <2>2 DEF Files!OpenItems
<1>2. ASSUME Files!ResolveDrop(p)
      PROVE  disk'.resolved = disk.resolved
  BY <1>2, <1>a DEF Files!ResolveDrop
<1>3. ASSUME NEW it \in disk.open, NEW s, Files!Link(p, it, s)
      PROVE  /\ disk'.resolved = disk.resolved
             /\ it \in Evaluated
             /\ \A x \in disk'.open : x \in disk.open \/ x.status = "scheduled"
  <2>1. /\ pc[p] # "idle" /\ ~Files!IsResolved(mem[p], it.key)
        /\ Files!SaveOpen(Files!Rewritten(mem[p], {it}, {Files!ScheduledTo(it, s)}))
    BY <1>3 DEF Files!Link, Files!OpenFileBody, Files!IsUnresolvedOpen
  <2>2. disk'.open = (disk.open \ {it}) \cup {Files!ScheduledTo(it, s)}
    BY <1>0, <1>a, <2>1 DEF Files!Rewritten, Files!Stores
  <2> QED
    BY <1>0, <1>a, <1>c, <2>1, <2>2, EvaluatedItems
<1>4. ASSUME NEW its \in SUBSET disk.open, NEW s, Files!Schedule(p, its, s)
      PROVE  /\ disk'.resolved = disk.resolved
             /\ its \subseteq Evaluated
             /\ \A x \in disk'.open : x \in disk.open \ its \/ x.status = "scheduled"
  <2> DEFINE news == {Files!ScheduledTo(it, s) : it \in its}
  <2>1. /\ pc[p] # "idle" /\ \A it \in its : ~Files!IsResolved(mem[p], it.key)
        /\ Files!SaveOpen(Files!Rewritten(mem[p], its, news))
    BY <1>4 DEF Files!Schedule, Files!OpenFileBody, Files!IsSchedulable, Files!IsUnresolvedOpen
  <2>2. \A x \in news : x.status = "scheduled"
    BY <1>0, <1>c
  <2> HIDE DEF news
  <2>3. disk'.open = (disk.open \ its) \cup news
    BY <1>0, <1>a, <2>1 DEF Files!Rewritten, Files!Stores
  <2>4. its \subseteq Evaluated
    BY <1>0, <2>1, EvaluatedItems
  <2> QED
    BY <1>a, <2>1, <2>2, <2>3, <2>4
<1>5. ASSUME NEW k, NEW i, Files!ReopenAdd(p, k, i)
      PROVE  /\ disk'.resolved = disk.resolved /\ Files!IsResolved(disk, k)
             /\ \A x \in Files!OpenItems(disk', k) : x.status = "scheduled"
             /\ cur'[p] = k
  <2>1. /\ pc[p] # "idle" /\ mem[p] = disk /\ Files!OpenItems(disk, k) = {}
        /\ i \in Files!ResolvedAt(disk, k) /\ i \in DOMAIN disk.resolved
    BY <1>0, <1>5
       DEF Files!ReopenAdd, Files!IsReopenable, Files!IsNewestResolved, Files!ResolvedAt
  <2>2. disk.resolved[i].item \in Files!Items
    <3>1. disk.resolved[i] \in Files!Entries
      BY <1>0, <2>1
    <3> QED
      BY <3>1 DEF Files!Entries
  <2> DEFINE it == Files!ScheduledTo(disk.resolved[i].item, disk.resolved[i].ref)
             st == [disk EXCEPT !.open = @ \cup {it}]
  <2>3. Files!SaveOpen(st) /\ cur'[p] = k
    BY <1>0, <1>5, <2>1 DEF Files!ReopenAdd
  <2>4. st.open = disk.open \cup {it}
    BY <1>0 DEF Files!Stores
  <2>5. it.status = "scheduled"
    BY <1>c, <2>2
  <2> HIDE DEF st, it
  <2>6. disk'.open = disk.open \cup {it} /\ disk'.resolved = disk.resolved
    BY <1>a, <2>3, <2>4
  <2> QED
    BY <2>1, <2>3, <2>5, <2>6 DEF Files!OpenItems, Files!IsResolved
<1>6. ASSUME NEW it, NEW how, NEW ref, Files!ResolveAppend(p, it, how, ref)
      PROVE  /\ Files!IsResolved(disk', it.key)
             /\ \A k : Files!IsResolved(disk, k) => Files!IsResolved(disk', k)
  <2> DEFINE e == [item |-> it, how |-> how, ref |-> ref]
             st == [mem[p] EXCEPT !.resolved = Append(@, e)]
  <2>1. pc[p] # "idle" /\ Files!SaveResolved(st)
    BY <1>6 DEF Files!ResolveAppend
  <2>2. st.resolved = Append(disk.resolved, e)
    BY <1>0, <2>1 DEF Files!Stores
  <2>3. e.item = it
    OBVIOUS
  <2> HIDE DEF st, e
  <2>4. disk'.resolved = Append(disk.resolved, e)
    BY <1>b, <2>1, <2>2
  <2> DEFINE n == Len(disk.resolved)
  <2>5. disk.resolved \in Seq(Files!Entries \cup {e}) /\ e \in Files!Entries \cup {e}
    <3>1. \A m \in 1..Len(disk.resolved) : disk.resolved[m] \in Files!Entries
      BY <1>0, ElementOfSeq
    <3> QED
      BY <1>0, <3>1, SeqDef, LenProperties
  <2>6. /\ DOMAIN disk'.resolved = 1..(n + 1) /\ DOMAIN disk.resolved = 1..n /\ n \in Nat
        /\ disk'.resolved[n + 1] = e
        /\ \A m \in 1..n : disk'.resolved[m] = disk.resolved[m]
    BY <2>4, <2>5, AppendProperties, LenProperties
  <2>7. Files!IsResolved(disk', it.key)
    BY <2>3, <2>6 DEF Files!IsResolved, Files!ResolvedAt
  <2>8. ASSUME NEW k, Files!IsResolved(disk, k)
        PROVE  Files!IsResolved(disk', k)
    <3>1. PICK m \in 1..n : disk.resolved[m].item.key = k
      BY <2>6, <2>8 DEF Files!IsResolved, Files!ResolvedAt
    <3>2. m \in DOMAIN disk'.resolved /\ disk'.resolved[m].item.key = k
      BY <2>6, <3>1
    <3> QED
      BY <3>2 DEF Files!IsResolved, Files!ResolvedAt
  <2> QED
    BY <2>7, <2>8
<1>7. ASSUME Files!ReopenDrop(p), NEW k, k # cur[p], Files!IsResolved(disk, k)
      PROVE  Files!IsResolved(disk', k)
  <2>1. PICK i \in DOMAIN disk.resolved :
          /\ disk.resolved[i].item.key = cur[p]
          /\ mem' = [mem EXCEPT ![p] = Files!WithoutResolved(mem[p], i)]
          /\ Files!SaveResolved(mem'[p]) /\ mem[p] = disk
    BY <1>0, <1>7
       DEF Files!ReopenDrop, Files!DropResolved, Files!IsNewestResolved, Files!ResolvedAt
  <2>2. disk'.resolved = FP!RemoveAt(disk.resolved, i)
    <3>1. Files!SaveResolved(Files!WithoutResolved(disk, i))
      BY <1>0, <2>1
    <3>2. Files!WithoutResolved(disk, i).resolved = Files!RemoveAt(disk.resolved, i)
      BY <1>0 DEF Files!WithoutResolved, Files!Stores
    <3>3. Files!RemoveAt(disk.resolved, i) = FP!RemoveAt(disk.resolved, i)
      BY DEF Files!RemoveAt, FP!RemoveAt
    <3> QED
      BY <1>b, <3>1, <3>2, <3>3
  <2> DEFINE n == Len(disk.resolved)
  <2>3. DOMAIN disk.resolved = 1..n /\ n \in Nat /\ i \in 1..n
    BY <1>0, <2>1, LenProperties
  <2>4. /\ disk'.resolved \in Seq(Files!Entries) /\ Len(disk'.resolved) = n - 1
        /\ \A j \in 1..(n - 1) : disk'.resolved[j] =
             IF j < i THEN disk.resolved[j] ELSE disk.resolved[j + 1]
    <3>1. /\ FP!RemoveAt(disk.resolved, i) \in Seq(Files!Entries)
          /\ Len(FP!RemoveAt(disk.resolved, i)) = n - 1
          /\ \A j \in 1..(n - 1) : FP!RemoveAt(disk.resolved, i)[j] =
               IF j < i THEN disk.resolved[j] ELSE disk.resolved[j + 1]
      BY <1>0, <2>3, FP!RemoveAtProperties, FilesAssumption
    <3> QED
      BY <2>2, <3>1
  <2>5. DOMAIN disk'.resolved = 1..(n - 1)
    BY <2>4, LenProperties
  <2>6. PICK m \in 1..n : disk.resolved[m].item.key = k
    BY <1>7, <2>3 DEF Files!IsResolved, Files!ResolvedAt
  <2>7. m # i
    BY <1>7, <2>1, <2>6
  <2>8. \E j \in 1..(n - 1) : disk'.resolved[j] = disk.resolved[m]
    <3>1. CASE m < i
      <4>1. m \in 1..(n - 1)
        BY <2>3, <3>1
      <4> QED
        BY <2>4, <3>1, <4>1
    <3>2. CASE m > i
      <4>1. m - 1 \in 1..(n - 1) /\ ~(m - 1 < i) /\ (m - 1) + 1 = m
        BY <2>3, <3>2
      <4> QED
        BY <2>4, <4>1
    <3> QED
      BY <2>3, <2>7, <3>1, <3>2
  <2> QED
    BY <2>5, <2>6, <2>8 DEF Files!IsResolved, Files!ResolvedAt
<1> QED
  BY <1>1, <1>2, <1>3, <1>4, <1>5, <1>6, <1>7

-----------------------------------------------------------------------------
(* A story that is done leaves no item open behind.                         *)

\* set-field writes back the status it has read.
FieldsSetAlone ==
  \A p, q \in Procs : p # q /\ "set-field" \in Verbs[p] => "set-status" \notin Verbs[q]

HooksCount ==
  /\ HookResolves /\ SchedulersWriteAlone /\ FieldsSetAlone /\ EpicsStay
  /\ ~CanCrash

\* The done hook of s has still to come to k.
Covered(s, k) ==
  \E p \in Procs : /\ step[p] \in {"hook", "hookKeys"}
                   /\ job[p].story = s /\ k \in job[p].keys

IsHooked(k) ==
  \A s \in Stories : Claims(s, k) /\ nodes[s].status = "done" => Covered(s, k)

EvaluatedIsHooked == \A it \in Evaluated : IsHooked(it.key)

\* A listed item that is not scheduled yet is about to be.
ScheduledNext ==
  \A it \in Evaluated, s \in Stories :
    it.status = "backlog" /\ Claims(s, it.key) =>
      \E p \in Procs : step[p] = "items" /\ job[p].story = s /\ it.key \in job[p].keys

ListedIsKnown == \A s \in Stories, k \in Keys : Claims(s, k) => k \in Files!KeysIn(disk)

WritesNoStaleStatus(p) ==
  /\ step[p] = "save" /\ job[p].verb = "set-field" =>
       job[p].to = nodes[job[p].story].status
  /\ step[p] \in Attaching => job[p].node.status # "done"

\* A repair does not make a scheduled item backlog, and reopens no item of a
\* done story that no hook will come to.
RepairIsHooked(p) ==
  step[p] = "repair" =>
    /\ job[p].id \notin {"1b", "1g"}
    /\ job[p].id = "1j" => \A k \in job[p].keys : IsHooked(k)

ReopenIsHooked(p) ==
  pc[p] = "dropResolved" =>
    /\ IsHooked(cur[p])
    /\ \A it \in Files!OpenItems(disk, cur[p]) : it.status = "scheduled"

HookInv ==
  /\ SchedInv /\ FP!DupInv
  /\ archived = {} /\ OneClaimant /\ ListedIsKnown
  /\ EvaluatedIsHooked /\ ScheduledNext
  /\ \A p \in Procs : WritesNoStaleStatus(p) /\ RepairIsHooked(p) /\ ReopenIsHooked(p)

\* While a process is loaded nothing is open and resolved.
LEMMA LoadedOwesNone ==
  ASSUME HookInv, NEW p \in Procs, pc[p] = "loaded"
  PROVE  \A it \in disk.open : it \in Evaluated
<1>1. \A it \in disk.open : ~FP!IsResolved(disk, it.key)
  BY FP!NothingOwed, FilesAssumption DEF HookInv
<1> QED
  BY <1>1, SameLookups, EvaluatedItems

\* Where the items that a finding may speak of after a step come from.
Fresh(x) == x.status = "backlog" /\ x.key \notin Files!KeysIn(disk)

Reopened(p, x) == pc[p] = "dropResolved" /\ x \in Files!OpenItems(disk, cur[p])

Rescheduled(x) == x.status = "scheduled" /\ \E it \in Evaluated : it.key = x.key

LEMMA EvaluatedAfter ==
  ASSUME ~CanCrash, HookInv, NEW p \in Procs, Start(p) \/ Continue(p), NEW x \in Evaluated'
  PROVE  x \in Evaluated \/ Fresh(x) \/ Reopened(p, x) \/ Rescheduled(x)
<1>0. /\ BacklogInv /\ Suits(p, step[p], job[p]) /\ RepairIsHooked(p)
      /\ pc[p] # "idle" => mem[p] = disk
      /\ x \in disk'.open /\ ~Files!IsResolved(disk', x.key)
  BY EvaluatedItems, CopyIsCurrent DEF HookInv, SchedInv, BacklogInv, ReadInv, VerbsInv
<1>a. CASE disk'.open \subseteq disk.open /\ disk'.resolved = disk.resolved
  BY <1>0, <1>a, EvaluatedItems DEF Files!IsResolved, Files!ResolvedAt
<1>b. ASSUME NEW it, NEW how, NEW ref, Files!ResolveAppend(p, it, how, ref)
      PROVE  x \in Evaluated
  BY <1>0, <1>b, OpenAfter, ResolvedAfter, EvaluatedItems
<1>c. ASSUME NEW it, Files!ResolveRerun(p, it)
      PROVE  x \in Evaluated \/ Fresh(x) \/ Reopened(p, x) \/ Rescheduled(x)
  BY <1>0, <1>a, <1>c, OpenAfter, ResolvedAfter
<1>d. CASE Files!ResolveDrop(p)
  BY <1>0, <1>a, <1>d, OpenAfter, ResolvedAfter
<1>e. CASE disk' = disk
  BY <1>0, <1>e, EvaluatedItems
<1>1. CASE AppendBody(p)
  <2>1. x \in disk.open \/ Fresh(x)
    BY <1>0, <1>1, AppendedIsNew DEF AppendBody, Fresh
  <2>2. disk'.resolved = disk.resolved
    BY <1>0, <1>1, AppendedIsNew DEF AppendBody
  <2> QED
    BY <1>0, <2>1, <2>2, EvaluatedItems DEF Files!IsResolved, Files!ResolvedAt
<1>2. CASE RepairWrite(p)
  <2>0. step[p] = "repair"
    BY <1>2 DEF RepairWrite
  <2>1. PICK k \in job[p].keys :
          \/ \E it \in Files!OpenItems(mem[p], k) : RepairItem(p, it)
          \/ \E it \in Files!OpenItems(mem[p], k) :
               Files!ResolveAppend(p, it, "fixed", job[p].story)
          \/ \E i \in Files!ResolvedAt(mem[p], k) :
               Files!ReopenAdd(p, k, i) \/ Files!ReopenRerun(p, k, i)
    BY <1>2 DEF RepairWrite
  <2>2. ASSUME NEW it \in Files!OpenItems(mem[p], k), RepairItem(p, it)
        PROVE  x \in Evaluated \/ Fresh(x) \/ Reopened(p, x) \/ Rescheduled(x)
    <3>1. CASE Files!ResolveRerun(p, it)
      BY <1>c, <3>1
    <3>2. CASE Files!Link(p, it, job[p].story)
      <4>1. it \in disk.open
        BY <1>0, <2>2, <3>2 DEF Files!Link, Files!OpenItems
      <4>2. /\ disk'.resolved = disk.resolved /\ it \in Evaluated
            /\ x \in disk.open \/ x.status = "scheduled"
        BY <1>0, <3>2, <4>1, ResolvedAfter
      <4>3. x \in disk.open \/ x.key = it.key
        BY <1>0, <3>2, <4>1, OpenAfter
      <4>4. x \in disk.open => x \in Evaluated
        BY <1>0, <4>2, EvaluatedItems DEF Files!IsResolved, Files!ResolvedAt
      <4> QED
        BY <4>2, <4>3, <4>4 DEF Rescheduled
    <3> QED
      BY <1>0, <2>0, <2>2, <3>1, <3>2 DEF RepairItem, RepairIsHooked
  <2>3. ASSUME NEW i \in Files!ResolvedAt(mem[p], k), Files!ReopenAdd(p, k, i)
        PROVE  x \in Evaluated
    <3>1. disk'.resolved = disk.resolved /\ Files!IsResolved(disk, k)
      BY <1>0, <2>3, ResolvedAfter
    <3>2. x \in disk.open \/ x.key = k
      BY <1>0, <2>3, OpenAfter
    <3> QED
      BY <1>0, <3>1, <3>2, EvaluatedItems DEF Files!IsResolved, Files!ResolvedAt
  <2>4. ASSUME NEW i \in Files!ResolvedAt(mem[p], k), Files!ReopenRerun(p, k, i)
        PROVE  FALSE
    <3>1. /\ pc[p] = "loaded" /\ Files!OpenItems(disk, k) # {} /\ i \in Files!ResolvedAt(disk, k)
      BY <1>0, <2>4 DEF Files!ReopenRerun
    <3> QED
      BY <3>1, LoadedOwesNone, EvaluatedItems DEF Files!OpenItems, Files!IsResolved
  <2> QED
    BY <1>b, <2>1, <2>2, <2>3, <2>4
<1>3. CASE SecondSave(p)
  <2>1. CASE Files!ReopenDrop(p)
    <3>1. pc[p] = "dropResolved" /\ x \in disk.open
      BY <1>0, <2>1, OpenAfter DEF Files!ReopenDrop
    <3>2. x.key # cur[p] => ~Files!IsResolved(disk, x.key)
      BY <1>0, <2>1, ResolvedAfter
    <3> QED
      BY <3>1, <3>2, EvaluatedItems DEF Reopened, Files!OpenItems
  <2> QED
    BY <1>3, <1>d, <2>1 DEF SecondSave
<1>4. CASE ScheduleItems(p)
  <2>1. /\ ToSchedule(p) \subseteq disk.open
        /\ Files!Schedule(p, ToSchedule(p), job[p].story)
    BY <1>0, <1>4 DEF ScheduleItems, ToSchedule, Files!Schedule
  <2>2. /\ disk'.resolved = disk.resolved /\ ToSchedule(p) \subseteq Evaluated
        /\ x \in disk.open \/ x.status = "scheduled"
    BY <1>0, <2>1, ResolvedAfter
  <2>3. x \in disk.open \/ \E it \in ToSchedule(p) : x.key = it.key
    BY <1>0, <2>1, OpenAfter
  <2>4. x \in disk.open => x \in Evaluated
    BY <1>0, <2>2, EvaluatedItems DEF Files!IsResolved, Files!ResolvedAt
  <2> QED
    BY <2>2, <2>3, <2>4 DEF Rescheduled
<1>5. CASE ResolveBody(p)
  BY <1>5, <1>b, <1>c DEF ResolveBody
<1>6. CASE \E k \in Keys : HookKey(p, k)
  BY <1>6, <1>b, <1>c, <1>e DEF HookKey, HookBegin, fileVars
<1>7. CASE HookDrop(p)
  BY <1>7, <1>d DEF HookDrop
<1>8. CASE Start(p)
  BY <1>0, <1>8, <1>e, OpenAfter
     DEF Start, FileCall, StoryRead, PromoteEnter, ScheduleEnter, EnterEpic, MoveEpic, fileVars
<1>9. CASE Continue(p)
  BY <1>0, <1>1, <1>2, <1>3, <1>4, <1>5, <1>6, <1>7, <1>9, <1>e, OpenAfter
     DEF Continue, RepairAudit, EndFileCall, StorySave, HookAcquire,
         HookEnd, NestedAcquire, PromoteMint, PromoteRefuse, ScheduleAttach, ScheduleRefuse,
         Unlock, fileVars
<1> QED
  BY <1>8, <1>9

\* The hook comes to a key and leaves nothing of it open.
LEMMA HookedKeyIsSettled ==
  ASSUME BacklogInv, NEW p \in Procs, NEW k, HookKey(p, k), NEW x \in Evaluated'
  PROVE  x.key # k
<1>0. /\ mem[p] = disk /\ x \in disk'.open /\ ~Files!IsResolved(disk', x.key)
  BY EvaluatedItems, CopyIsCurrent DEF HookKey
<1>1. ASSUME NEW it, it.key = k, HookBegin(p, it)
      PROVE  x.key # k
  <2>1. CASE Files!ResolveAppend(p, it, "fixed", job[p].story)
    <3>1. Files!IsResolved(disk', k)
      BY <1>1, <2>1, ResolvedAfter
    <3> QED
      BY <1>0, <3>1
  <2>2. CASE Files!ResolveRerun(p, it)
    <3>1. Files!OpenItems(disk', k) = {}
      BY <1>1, <2>2, ResolvedAfter
    <3> QED
      BY <1>0, <3>1 DEF Files!OpenItems
  <2> QED
    BY <1>1, <2>1, <2>2 DEF HookBegin
<1>2. CASE Files!OpenItems(mem[p], k) = {} /\ UNCHANGED fileVars
  BY <1>0, <1>2 DEF Files!OpenItems, fileVars
<1> QED
  BY <1>1, <1>2 DEF HookKey

\* The items are scheduled, all of them.
LEMMA ItemsAreScheduled ==
  ASSUME BacklogInv, NEW p \in Procs, ScheduleItems(p), NEW x \in Evaluated',
         x.status = "backlog"
  PROVE  x.key \notin job[p].keys
<1>0. x \in disk'.open /\ mem[p] = disk
  BY EvaluatedItems, CopyIsCurrent DEF ScheduleItems, LockFree
<1>1. /\ ToSchedule(p) \subseteq disk.open
      /\ Files!Schedule(p, ToSchedule(p), job[p].story)
  BY <1>0 DEF ScheduleItems, ToSchedule
<1>2. x \in disk.open \ ToSchedule(p)
  BY <1>0, <1>1, ResolvedAfter
<1> QED
  BY <1>0, <1>2 DEF ToSchedule

\* A key comes to be listed while its item is open, by a verb that is about to
\* schedule it, and by a story that is not done.
LEMMA ClaimsAfter ==
  ASSUME HookInv, NEW p \in Procs, Start(p) \/ Continue(p),
         NEW s \in Stories, NEW k, Claims(s, k)'
  PROVE  \/ Claims(s, k)
         \/ /\ nodes'[s].status # "done"
            /\ \E it \in disk.open : it.key = k
            /\ step'[p] = "items" /\ job'[p].story = s /\ k \in job'[p].keys
            /\ Mints(p, s) \/ \E it \in ToSchedule(p) : step[p] = "attach" /\ it.key = k
<1>0. /\ ReadInv /\ BacklogInv /\ Suits(p, step[p], job[p]) /\ WritesNoStaleStatus(p)
      /\ step \in [Procs -> Steps] /\ job \in [Procs -> Jobs] /\ nodes \in [Stories -> Nodes]
  BY DEF HookInv, SchedInv, BacklogInv, ReadInv, VerbsInv, TypeOK
<1>1. CASE NodesKeepKeys
  BY <1>1 DEF NodesKeepKeys, Claims, Exists
<1>2. ASSUME NEW t \in Stories, Mints(p, t)
      PROVE  \/ Claims(s, k)
             \/ /\ nodes'[s].status # "done"
                /\ \E it \in disk.open : it.key = k
                /\ step'[p] = "items" /\ job'[p].story = s /\ k \in job'[p].keys
                /\ Mints(p, s)
  <2>1. CASE s # t
    BY <1>0, <1>2, <2>1 DEF Mints, SaveNode, Claims, Exists
  <2>2. CASE s = t
    <3>1. nodes'[s].status = "backlog" /\ nodes'[s].resolves = job[p].keys
      BY <1>0, <1>2, <2>2 DEF Mints, SaveNode
    <3>2. step'[p] = "items" /\ job'[p].story = s /\ job'[p].keys = job[p].keys
      BY <1>0, <1>2, <2>2, ChangedStory DEF Mints, Goto, SetJob
    <3>3. mem[p] = disk
      BY <1>0, <1>2, CopyIsCurrent DEF Mints, LockFree
    <3>4. k \in job[p].keys
      BY <3>1 DEF Claims
    <3>5. \E it \in disk.open : it.key = k
      BY <1>2, <3>3, <3>4 DEF Mints, Promotable
    <3> QED
      BY <1>2, <2>2, <3>1, <3>2, <3>4, <3>5
  <2> QED
    BY <2>1, <2>2
<1>3. CASE Attaches(p) /\ ScheduleAttach(p)
  <2>1. CASE s # job[p].story
    BY <1>3, <2>1 DEF Attaches, Claims, Exists
  <2>2. CASE s = job[p].story /\ ~Claims(s, k)
    <3>1. /\ nodes'[s].status = job[p].node.status
          /\ nodes'[s].resolves = nodes[s].resolves \cup {it.key : it \in ToSchedule(p)}
          /\ step[p] = "attach"
      BY <1>3, <2>2 DEF Attaches
    <3>2. Exists(s) /\ job[p].node.status # "done"
      BY <1>0, <2>2, <3>1 DEF ReadInv, ReadIsCurrent, WritesNoStaleStatus, Attaching
    <3>3. mem[p] = disk
      BY <1>0, <3>1, CopyIsCurrent DEF LockFree
    <3>4. PICK it \in ToSchedule(p) : it.key = k
      BY <2>2, <3>1, <3>2 DEF Claims
    <3>5. it \in disk.open /\ k \in job[p].keys
      BY <3>3, <3>4 DEF ToSchedule
    <3>6. step'[p] = "items" /\ job' = job
      BY <1>0, <1>3 DEF ScheduleAttach, Goto
    <3> QED
      BY <2>2, <3>1, <3>2, <3>4, <3>5, <3>6
  <2> QED
    BY <2>1, <2>2
<1>4. Attaches(p) => ScheduleAttach(p) \/ NodesKeepKeys
  <2>1. CASE nodes' = nodes
    BY <2>1 DEF NodesKeepKeys, Exists
  <2>2. CASE StorySave(p) \/ \E t \in Stories : Mints(p, t)
    BY <2>2 DEF StorySave, Mints, Attaches
  <2> QED
    BY <2>1, <2>2, WhoWrites
<1> QED
  BY <1>0, <1>1, <1>2, <1>3, <1>4, NodesAfter

\* Only set-status makes a story done, and then its hook is to come.
LEMMA DoneAfter ==
  ASSUME HookInv, NEW p \in Procs, Start(p) \/ Continue(p),
         NEW s \in Stories, NEW k, Claims(s, k), nodes'[s].status = "done"
  PROVE  \/ nodes[s].status = "done"
         \/ step'[p] = "hook" /\ job'[p].story = s /\ k \in job'[p].keys
<1>0. /\ ReadInv /\ Suits(p, step[p], job[p]) /\ WritesNoStaleStatus(p)
      /\ step \in [Procs -> Steps] /\ job \in [Procs -> Jobs] /\ nodes \in [Stories -> Nodes]
      /\ job[p] \in Jobs /\ job[p].node \in Nodes
  BY DEF HookInv, SchedInv, BacklogInv, ReadInv, VerbsInv, TypeOK
<1>1. CASE StorySave(p)
  <2>1. /\ step[p] = "save" /\ job[p].to \in Statuses /\ job[p].story \in Stories
        /\ job[p].verb \in StoryVerbs
    BY <1>0, <1>1 DEF StorySave, Suits
  <2>2. CASE s # job[p].story
    BY <1>0, <1>1, <2>2 DEF StorySave, SaveNode
  <2>3. CASE s = job[p].story /\ nodes[s].status # "done"
    <3>1. nodes'[s].status = job[p].to
      BY <1>0, <1>1, <2>1, <2>3, ChangedNode DEF StorySave, SaveNode
    <3>2. job[p].to = "done" /\ job[p].verb = "set-status"
      BY <1>0, <2>1, <2>3, <3>1 DEF WritesNoStaleStatus, StoryVerbs
    <3>3. k \in job[p].node.resolves
      BY <1>0, <2>1, <2>3 DEF ReadInv, ReadIsCurrent, Claims
    <3>4. NeedsHook(job[p])
      BY <3>2, <3>3 DEF NeedsHook
    <3>5. /\ step'[p] = "hook"
          /\ job'[p] = [job[p] EXCEPT !.keys = job[p].node.resolves]
      BY <1>0, <1>1, <3>4 DEF StorySave, Goto, SetJob
    <3>6. job[p].node.resolves \in SUBSET Keys
      BY <1>0 DEF Nodes
    <3> QED
      BY <1>0, <2>3, <3>3, <3>5, <3>6, ChangedKeys
  <2> QED
    BY <2>2, <2>3
<1>2. ASSUME NEW t \in Stories, Mints(p, t)
      PROVE  nodes[s].status = "done"
  BY <1>0, <1>2 DEF Mints, Mintable, SaveNode, Claims
<1>3. CASE ScheduleAttach(p)
  <2>1. nodes'[job[p].story].status = job[p].node.status /\ step[p] = "attach"
        /\ \A t \in Stories \ {job[p].story} : nodes'[t] = nodes[t]
    <3>1. step[p] = "attach" /\ job[p].story \in Stories
      BY <1>0, <1>3 DEF ScheduleAttach, Suits
    <3> DEFINE ks == job[p].node.resolves \cup {it.key : it \in ToSchedule(p)}
    <3>2. ks \in SUBSET Keys
      BY <1>0 DEF ToSchedule, Jobs, Nodes
    <3>3. nodes' = [nodes EXCEPT ![job[p].story] = [job[p].node EXCEPT !.resolves = ks]]
      BY <1>3 DEF ScheduleAttach, SaveNode
    <3> HIDE DEF ks
    <3> QED
      BY <1>0, <3>1, <3>2, <3>3, ChangedNode
  <2>2. job[p].node.status # "done"
    BY <1>0, <2>1 DEF WritesNoStaleStatus, Attaching
  <2> QED
    BY <2>1, <2>2
<1> QED
  BY <1>1, <1>2, <1>3, WhoWrites

\* A hook that is to come to a key does come to it.
LEMMA HookStays ==
  ASSUME HookInv, NEW p \in Procs, Start(p) \/ Continue(p), NEW k, IsHooked(k),
         ~HookKey(p, k)
  PROVE  IsHooked(k)'
<1> SUFFICES ASSUME NEW s \in Stories, Claims(s, k)', nodes'[s].status = "done"
             PROVE  Covered(s, k)'
  BY DEF IsHooked
<1>0. /\ VerbsInv /\ step \in [Procs -> Steps] /\ job \in [Procs -> Jobs]
  BY DEF HookInv, SchedInv, BacklogInv, ReadInv, VerbsInv, TypeOK
<1>1. Claims(s, k)
  BY ClaimsAfter
<1>2. CASE step'[p] = "hook" /\ job'[p].story = s /\ k \in job'[p].keys
  BY <1>2 DEF Covered
<1>3. CASE nodes[s].status = "done"
  <2>1. PICK q \in Procs : /\ step[q] \in {"hook", "hookKeys"}
                           /\ job[q].story = s /\ k \in job[q].keys
    BY <1>1, <1>3 DEF IsHooked, Covered
  <2>2. CASE q # p
    BY <1>0, <2>1, <2>2, OneMoves DEF Covered
  <2>3. CASE q = p
    <3>1. \/ HookAcquire(p) \/ HookDrop(p)
          \/ \E m \in Keys : HookKey(p, m) /\ m # k
      BY <2>1, <2>3
         DEF Start, FileCall, StoryRead, PromoteEnter, ScheduleEnter, MoveEpic, Idle,
             Continue, AppendBody, InBody, ResolveBody, RepairAudit, RepairWrite,
             SecondSave, EndFileCall, StorySave, HookEnd,
             NestedAcquire, PromoteMint, PromoteRefuse, ScheduleAttach, ScheduleRefuse,
             ScheduleItems, Unlock
    <3>2. CASE HookAcquire(p) \/ HookDrop(p)
      <4>1. step'[p] = "hookKeys" /\ job' = job
        BY <1>0, <3>2 DEF HookAcquire, HookDrop, Goto
      <4> QED
        BY <2>1, <2>3, <4>1 DEF Covered
    <3>3. ASSUME NEW m \in Keys, HookKey(p, m), m # k
          PROVE  Covered(s, k)'
      <4>1. job'[p] = [job[p] EXCEPT !.keys = job[p].keys \ {m}] /\ step' = step
        BY <1>0, <3>3 DEF HookKey, SetJob
      <4>2. job[p].keys \ {m} \in SUBSET Keys
        BY <1>0 DEF Jobs
      <4>3. job'[p].story = job[p].story /\ job'[p].keys = job[p].keys \ {m}
        BY <1>0, <4>1, <4>2, ChangedKeys
      <4> QED
        BY <2>1, <2>3, <3>3, <4>1, <4>3 DEF Covered
    <3> QED
      BY <3>1, <3>2, <3>3
  <2> QED
    BY <2>2, <2>3
<1> QED
  BY <1>1, <1>2, <1>3, DoneAfter

LEMMA NextScheduled ==
  ASSUME ~CanCrash, HookInv, NEW p \in Procs, Start(p) \/ Continue(p)
  PROVE  ScheduledNext'
<1>0. BacklogInv /\ VerbsInv /\ disk.open \subseteq Files!Items
  BY DEF HookInv, SchedInv, BacklogInv, ReadInv, VerbsInv, TypeOK, Files!TypeOK, Files!Stores
<1> SUFFICES ASSUME NEW x \in Evaluated', NEW s \in Stories,
                    x.status = "backlog", Claims(s, x.key)'
             PROVE  \E q \in Procs : step'[q] = "items" /\ job'[q].story = s
                                       /\ x.key \in job'[q].keys
  BY DEF ScheduledNext
<1> DEFINE k == x.key
<1>1. CASE ~Claims(s, k)
  BY <1>1, ClaimsAfter
<1>2. CASE Claims(s, k)
  <2>1. x \in Evaluated
    <3>1. ~Rescheduled(x)
      BY DEF Rescheduled
    <3>2. ~Reopened(p, x)
      BY DEF Reopened, HookInv, ReopenIsHooked
    <3>3. ~Fresh(x)
      <4>1. k \in Keys
        BY <1>0, <1>2 DEF HookInv, SchedInv, BacklogInv, ReadInv, VerbsInv, TypeOK, Nodes, Claims
      <4> QED
        BY <1>2, <4>1 DEF Fresh, HookInv, ListedIsKnown
    <3> QED
      BY <3>1, <3>2, <3>3, EvaluatedAfter
  <2>2. PICK q \in Procs : step[q] = "items" /\ job[q].story = s /\ k \in job[q].keys
    BY <1>2, <2>1 DEF HookInv, ScheduledNext
  <2>3. q # p
    <3>1. step[p] = "items" => ScheduleItems(p)
      BY DEF Start, FileCall, StoryRead, PromoteEnter, ScheduleEnter, MoveEpic, Idle,
             Continue, AppendBody, InBody, ResolveBody, RepairAudit, RepairWrite,
             SecondSave, EndFileCall, StorySave, HookAcquire, HookKey, HookDrop, HookEnd,
             NestedAcquire, PromoteMint, PromoteRefuse, ScheduleAttach, ScheduleRefuse,
             Unlock
    <3> QED
      BY <1>0, <2>2, <3>1, ItemsAreScheduled
  <2> QED
    BY <1>0, <2>2, <2>3, OneMoves
<1> QED
  BY <1>1, <1>2

LEMMA NextHooked ==
  ASSUME ~CanCrash, HookInv, NEW p \in Procs, Start(p) \/ Continue(p)
  PROVE  EvaluatedIsHooked'
<1> SUFFICES ASSUME NEW x \in Evaluated'
             PROVE  IsHooked(x.key)'
  BY DEF EvaluatedIsHooked
<1>0. BacklogInv /\ nodes \in [Stories -> Nodes]
  BY DEF HookInv, SchedInv, BacklogInv, ReadInv, VerbsInv, TypeOK
<1>4. IsHooked(x.key)
  <2>1. CASE x \in Evaluated \/ Rescheduled(x)
    BY <2>1 DEF HookInv, EvaluatedIsHooked, Rescheduled
  <2>2. CASE Fresh(x)
    <3>1. \A s \in Stories : ~Claims(s, x.key)
      BY <1>0, <2>2 DEF Fresh, HookInv, ListedIsKnown, Claims, Nodes
    <3> QED
      BY <3>1 DEF IsHooked
  <2>3. CASE Reopened(p, x)
    BY <2>3 DEF Reopened, HookInv, ReopenIsHooked, Files!OpenItems
  <2> QED
    BY <2>1, <2>2, <2>3, EvaluatedAfter
<1>5. ~HookKey(p, x.key)
  BY <1>0, HookedKeyIsSettled
<1> QED
  BY <1>4, <1>5, HookStays

\* A key that is newly listed was listed by nobody.
LEMMA NextOneClaimant ==
  ASSUME HookInv, NEW p \in Procs, Start(p) \/ Continue(p)
  PROVE  OneClaimant'
<1>0. BacklogInv /\ VerbsInv /\ OneClaimant /\ archived = {}
  BY DEF HookInv, SchedInv, BacklogInv, ReadInv
<1>1. ASSUME NEW s \in Stories, Mints(p, s)
      PROVE  OneClaimant'
  BY <1>0, <1>1, MintsUnclaimed
<1>2. ASSUME NEW s \in Stories, NEW t \in Stories, NEW k \in Keys,
             Claims(t, k), ~Claims(s, k), Claims(s, k)', ~Mints(p, s)
      PROVE  FALSE
  <2>1. PICK it \in ToSchedule(p) : step[p] = "attach" /\ it.key = k
    BY <1>2, ClaimsAfter
  <2>2. ScheduleAttach(p) /\ mem[p] = disk
    <3>1. mem[p] = disk
      BY <1>0, <2>1, CopyIsCurrent DEF LockFree
    <3>2. nodes' # nodes
      BY <1>2 DEF Claims, Exists
    <3>3. ~StorySave(p)
      BY <2>1 DEF StorySave
    <3>4. \A u \in Stories : ~Mints(p, u)
      BY <2>1 DEF Mints
    <3> QED
      BY <3>1, <3>2, <3>3, <3>4, WhoWrites
  <2>3. it \in disk.open /\ it.status = "backlog" /\ k \in job[p].keys
    BY <2>1, <2>2 DEF ToSchedule
  <2>4. ~Files!IsResolved(disk, k)
    <3>1. PICK x \in mem[p].open :
            /\ x.key = k
            /\ Files!IsSchedulable(mem[p], x) \/ Files!IsUnresolvedOpen(mem[p], x)
      BY <2>2, <2>3 DEF ScheduleAttach, Schedulable
    <3> QED
      BY <2>2, <3>1 DEF Files!IsSchedulable, Files!IsUnresolvedOpen
  <2>5. it \in Evaluated
    BY <2>1, <2>3, <2>4, EvaluatedItems
  <2>6. PICK q \in Procs : step[q] = "items"
    BY <1>2, <2>1, <2>3, <2>5 DEF HookInv, ScheduledNext
  <2>7. pc[q] = "idle"
    BY <1>0, <2>1, <2>6, CopyIsCurrent DEF LockFree
  <2> QED
    BY <1>0, <2>6, <2>7 DEF VerbsInv, TypeOK
<1>3. CASE \A s \in Stories : ~Mints(p, s)
  <2> SUFFICES ASSUME NEW s \in Stories, NEW t \in Stories, NEW k \in Keys,
                      Claims(s, k)', Claims(t, k)'
               PROVE  s = t
    BY DEF OneClaimant
  <2>1. ~Claims(s, k) => job'[p].story = s
    BY ClaimsAfter
  <2>2. ~Claims(t, k) => job'[p].story = t
    BY ClaimsAfter
  <2>3. Claims(s, k) <=> Claims(t, k)
    BY <1>2, <1>3
  <2> QED
    BY <1>0, <2>1, <2>2, <2>3 DEF OneClaimant
<1> QED
  BY <1>1, <1>3

LEMMA NextKnown ==
  ASSUME HookInv, HookResolves, NEW p \in Procs, Start(p) \/ Continue(p)
  PROVE  ListedIsKnown'
<1> SUFFICES ASSUME NEW s \in Stories, NEW k \in Keys, Claims(s, k)'
             PROVE  k \in Files!KeysIn(disk')
  BY DEF ListedIsKnown, Files!KeysIn
<1>0. BacklogInv /\ VerbsInv
  BY DEF HookInv, SchedInv, BacklogInv, ReadInv
<1>1. Files!KeysIn(disk) \subseteq Files!KeysIn(disk')
  <2>1. CASE UNCHANGED fileVars
    BY <2>1 DEF fileVars
  <2>2. CASE Files!ProcStep(p)
    <3>1. FP!KeysIn(disk) \subseteq FP!KeysIn(disk')
      BY <1>0, <2>2, SameProcStep, FilesAssumption, FP!VerbsKeepKeys DEF BacklogInv
    <3> QED
      BY <3>1, SameLookups
  <2> QED
    BY <1>0, <2>1, <2>2, StepIsFileStep
<1>2. Claims(s, k) \/ \E it \in disk.open : it.key = k
  BY ClaimsAfter
<1>3. k \in Files!KeysIn(disk)
  BY <1>2 DEF HookInv, ListedIsKnown, Files!KeysIn
<1> QED
  BY <1>1, <1>3

LEMMA OwnStatus ==
  ASSUME HookInv, NEW p \in Procs, Start(p) \/ Continue(p)
  PROVE  WritesNoStaleStatus(p)'
<1>0. /\ nodes \in [Stories -> Nodes] /\ step \in [Procs -> Steps]
      /\ job \in [Procs -> Jobs] /\ WritesNoStaleStatus(p)
  BY DEF HookInv, SchedInv, BacklogInv, ReadInv, VerbsInv, TypeOK
<1>1. ASSUME NEW verb \in StoryVerbs, NEW s \in Stories, NEW to \in Statuses,
             StoryRead(p, verb, s, to)
      PROVE  WritesNoStaleStatus(p)'
  <2> DEFINE j == [NoJob EXCEPT !.verb = verb, !.story = s, !.node = nodes[s], !.to = to]
  <2>1. j.verb = verb /\ j.story = s /\ j.to = to
    BY DEF NoJob
  <2>2. step'[p] = "save" /\ job'[p] = j /\ nodes' = nodes
    BY <1>0, <1>1 DEF StoryRead, Goto, SetJob
  <2>3. verb = "set-field" => to = nodes[s].status
    BY <1>1 DEF StoryRead
  <2> HIDE DEF j
  <2> QED
    BY <2>1, <2>2, <2>3 DEF WritesNoStaleStatus, Attaching
<1>2. ASSUME NEW keys, NEW s \in Stories, ScheduleEnter(p, s, keys)
      PROVE  WritesNoStaleStatus(p)'
  <2> DEFINE j == [NoJob EXCEPT !.verb = "schedule-issue", !.story = s,
                                !.node = nodes[s], !.keys = keys]
  <2>1. j.node = nodes[s]
    BY DEF NoJob
  <2>2. nodes[s].status # "done" /\ step'[p] = "schedule" /\ job'[p] = j
    BY <1>0, <1>2 DEF ScheduleEnter, Goto, SetJob
  <2> HIDE DEF j
  <2> QED
    BY <2>1, <2>2 DEF WritesNoStaleStatus, Attaching
<1>3. CASE NestedAcquire(p)
  <2>1. /\ step'[p] = IF step[p] = "promote" THEN "mint" ELSE "attach"
        /\ step[p] \in {"promote", "schedule"} /\ job' = job
    BY <1>0, <1>3 DEF NestedAcquire, Goto
  <2> QED
    BY <1>0, <2>1 DEF WritesNoStaleStatus, Attaching
<1>4. CASE step'[p] \notin Attaching \cup {"save"}
  BY <1>4 DEF WritesNoStaleStatus
<1>5. CASE \E e \in Epics : MoveEpic(p, e)
  BY <1>4, <1>5 DEF MoveEpic, Idle, Attaching
<1>6. CASE Start(p)
  BY <1>0, <1>1, <1>2, <1>4, <1>5, <1>6
     DEF Start, FileCall, PromoteEnter, Goto, Attaching
<1>7. CASE Continue(p) /\ ~NestedAcquire(p)
  <2>1. step'[p] \notin Attaching \cup {"save"}
    BY <1>0, <1>7
       DEF Continue, AppendBody, InBody, ResolveBody, RepairAudit, RepairWrite,
           SecondSave, EndFileCall, StorySave, HookAcquire, HookDrop, HookEnd, HookKey,
           PromoteMint, PromoteRefuse, ScheduleAttach, ScheduleRefuse,
           ScheduleItems, Unlock, Done, Goto, Attaching
  <2> QED
    BY <1>4, <2>1
<1> QED
  BY <1>3, <1>6, <1>7

LEMMA OthersStatus ==
  ASSUME HookInv, SchedulersWriteAlone, FieldsSetAlone,
         NEW p \in Procs, NEW q \in Procs \ {p}, Start(p) \/ Continue(p)
  PROVE  WritesNoStaleStatus(q)'
<1>0. /\ nodes \in [Stories -> Nodes] /\ job[p] \in Jobs /\ job[p].node \in Nodes
      /\ Suits(p, step[p], job[p]) /\ Suits(q, step[q], job[q])
      /\ WritesNoStaleStatus(p) /\ WritesNoStaleStatus(q) /\ ReadIsCurrent(q)
      /\ step'[q] = step[q] /\ job'[q] = job[q] /\ q \in Procs
  BY OneMoves DEF HookInv, SchedInv, BacklogInv, ReadInv, VerbsInv, TypeOK
<1> DEFINE s == job[q].story
<1>1. ASSUME step[q] = "save", job[q].verb = "set-field"
      PROVE  nodes'[s].status = nodes[s].status
  <2>0. /\ s \in Stories /\ Exists(s)
        /\ "set-status" \notin Verbs[p] /\ "schedule-issue" \notin Verbs[p]
    BY <1>0, <1>1 DEF Suits, ReadIsCurrent, FieldsSetAlone, SchedulersWriteAlone, StoryVerbs
  <2>1. CASE StorySave(p)
    <3>1. /\ step[p] = "save" /\ job[p].to \in Statuses /\ job[p].story \in Stories
          /\ job[p].verb = "set-field"
      BY <1>0, <2>0, <2>1 DEF StorySave, Suits, StoryVerbs
    <3>2. nodes' = [nodes EXCEPT ![job[p].story] = [job[p].node EXCEPT !.status = job[p].to]]
      BY <2>1 DEF StorySave, SaveNode
    <3>3. nodes'[job[p].story].status = nodes[job[p].story].status
      BY <1>0, <3>1, <3>2, ChangedNode DEF WritesNoStaleStatus
    <3> QED
      BY <1>0, <2>0, <3>1, <3>2, <3>3
  <2>2. ASSUME NEW t \in Stories, Mints(p, t)
        PROVE  nodes'[s] = nodes[s]
    BY <1>0, <2>0, <2>2 DEF Mints, Mintable, SaveNode
  <2>3. ~ScheduleAttach(p)
    BY <1>0, <2>0 DEF ScheduleAttach, Suits
  <2> QED
    BY <2>1, <2>2, <2>3, WhoWrites
<1> QED
  BY <1>0, <1>1 DEF WritesNoStaleStatus

\* The story a fixed item may be reopened for is not done, and no other lists it.
LEMMA ReopenableIsHooked ==
  ASSUME HookInv, NEW k \in Keys, Finding1j(k)
  PROVE  \A s \in Stories : Claims(s, k) => nodes[s].status # "done"
BY DEF Finding1j, Files!IsReopenable, HookInv, OneClaimant

LEMMA OwnRepair ==
  ASSUME HookInv, NEW p \in Procs, Start(p) \/ Continue(p)
  PROVE  RepairIsHooked(p)'
<1>0. /\ ReadInv /\ archived = {} /\ ScheduledIsListed
      /\ step \in [Procs -> Steps] /\ job \in [Procs -> Jobs]
  BY DEF HookInv, SchedInv, BacklogInv, ReadInv, VerbsInv, TypeOK
<1>1. CASE RepairAudit(p)
  <2>1. PICK r \in Reports :
          SetJob(p, [job[p] EXCEPT !.id = r.id, !.keys = {r.key}, !.story = r.story])
    BY <1>1 DEF RepairAudit
  <2>2. r.key \in Keys /\ r.id \in {"1a", "1b", "1c", "1d", "1g", "1j"}
    BY <1>0, ReportsAreTyped DEF ReadInv
  <2>3. /\ job'[p].id = r.id /\ job'[p].keys = {r.key} /\ nodes' = nodes
    BY <1>0, <1>1, <2>1 DEF RepairAudit, SetJob, Jobs
  <2>4. r.id # "1b"
    <3>1. \A it : ~Finding1b(it)
      BY <1>0 DEF Finding1b, ScheduledIsListed, Evaluated
    <3> QED
      BY <3>1 DEF Reports
  <2>5. r.id # "1g"
    <3>1. \A it : ~Finding1g(it)
      BY <1>0 DEF Finding1g, DeadClaim
    <3> QED
      BY <3>1 DEF Reports
  <2>6. r.id = "1j" => IsHooked(r.key)'
    <3>1. r.id = "1j" => Finding1j(r.key)
      BY DEF Reports
    <3> QED
      BY <2>2, <2>3, <3>1, ReopenableIsHooked DEF IsHooked, Claims, Exists
  <2> QED
    BY <2>2, <2>3, <2>4, <2>5, <2>6 DEF RepairIsHooked, IsHooked, Covered
<1>2. CASE step'[p] # "repair"
  BY <1>2 DEF RepairIsHooked
<1>3. CASE Start(p)
  BY <1>0, <1>2, <1>3
     DEF Start, FileCall, StoryRead, PromoteEnter, ScheduleEnter, MoveEpic, Idle, Goto
<1>4. CASE Continue(p) /\ ~RepairAudit(p)
  <2>1. step'[p] # "repair"
    BY <1>0, <1>4
       DEF Continue, AppendBody, InBody, ResolveBody, RepairWrite,
           SecondSave, EndFileCall, StorySave, HookAcquire, HookDrop, HookEnd, HookKey,
           NestedAcquire, PromoteMint, PromoteRefuse, ScheduleAttach, ScheduleRefuse,
           ScheduleItems, Unlock, Done, Goto
  <2> QED
    BY <1>2, <2>1
<1> QED
  BY <1>1, <1>3, <1>4

\* No hook is in issues_lock with anybody else.
LEMMA OthersRepair ==
  ASSUME HookResolves, HookInv, NEW p \in Procs, NEW q \in Procs \ {p}, Start(p) \/ Continue(p)
  PROVE  RepairIsHooked(q)' /\ ReopenIsHooked(q)'
<1>0. /\ BacklogInv /\ VerbsInv /\ q \in Procs /\ step'[q] = step[q] /\ job'[q] = job[q]
      /\ RepairIsHooked(q) /\ ReopenIsHooked(q)
      /\ step[q] \in Steps
  BY OneMoves DEF HookInv, SchedInv, BacklogInv, ReadInv, VerbsInv, TypeOK
<1>1. CASE step[q] \notin LockFree
  <2>1. UNCHANGED fileVars /\ step[p] \in LockFree
    BY <1>0, <1>1, LockedOut
  <2>2. \A k : IsHooked(k) => IsHooked(k)'
    <3>1. \A k : ~HookKey(p, k)
      BY <2>1 DEF HookKey, LockFree
    <3> QED
      BY <3>1, HookStays
  <2>3. pc' = pc /\ cur' = cur /\ disk' = disk
    BY <2>1 DEF fileVars
  <2>4. RepairIsHooked(q)'
    <3>1. ASSUME step[q] = "repair", job[q].id = "1j", NEW k \in job[q].keys
          PROVE  IsHooked(k)'
      BY <1>0, <2>2, <3>1 DEF RepairIsHooked
    <3> QED
      BY <1>0, <3>1 DEF RepairIsHooked, IsHooked, Covered
  <2>5. ReopenIsHooked(q)'
    <3>1. ASSUME NEW k, k = cur'[q], pc'[q] = "dropResolved"
          PROVE  IsHooked(k)'
      BY <1>0, <2>2, <2>3, <3>1 DEF ReopenIsHooked
    <3>2. pc'[q] = "dropResolved" =>
            \A it \in Files!OpenItems(disk', cur'[q]) : it.status = "scheduled"
      BY <1>0, <2>3 DEF ReopenIsHooked
    <3> QED
      BY <3>1, <3>2 DEF ReopenIsHooked, Files!OpenItems, IsHooked, Covered, Claims, Exists
  <2> QED
    BY <2>4, <2>5
<1>2. CASE step[q] \in LockFree
  <2>1. pc'[q] # "dropResolved"
    <3>1. VerbsInv'
      BY <1>0, NextVerbs DEF Next
    <3> QED
      BY <1>0, <1>2, <3>1 DEF VerbsInv, TypeOK, LockFree
  <2>2. step'[q] # "repair"
    BY <1>0, <1>2 DEF LockFree
  <2> QED
    BY <2>1, <2>2 DEF RepairIsHooked, ReopenIsHooked
<1> QED
  BY <1>1, <1>2

\* A reopen is the repair of finding 1j.
LEMMA OwnReopen ==
  ASSUME HookInv, NEW p \in Procs, Start(p) \/ Continue(p)
  PROVE  ReopenIsHooked(p)'
<1>0. /\ BacklogInv /\ Files!TypeOK /\ RepairIsHooked(p) /\ ReopenIsHooked(p)
      /\ pc \in [Procs -> {"idle", "loaded", "dropOpen", "dropResolved"}]
  BY DEF HookInv, SchedInv, BacklogInv, ReadInv, VerbsInv, TypeOK, Files!TypeOK
<1> SUFFICES ASSUME pc'[p] = "dropResolved"
             PROVE  ReopenIsHooked(p)'
  BY DEF ReopenIsHooked
<1>1. ASSUME NEW k \in job[p].keys, NEW i, step[p] = "repair", job[p].id = "1j",
             Files!ReopenAdd(p, k, i)
      PROVE  ReopenIsHooked(p)'
  <2>1. cur'[p] = k /\ \A x \in Files!OpenItems(disk', k) : x.status = "scheduled"
    BY <1>0, <1>1, ResolvedAfter
  <2>2. IsHooked(k)'
    <3>1. IsHooked(k)
      BY <1>0, <1>1 DEF RepairIsHooked
    <3>2. ~HookKey(p, k)
      BY <1>1 DEF HookKey
    <3> QED
      BY <3>1, <3>2, HookStays
  <2> QED
    BY <2>1, <2>2 DEF ReopenIsHooked, Files!OpenItems, IsHooked, Covered, Claims, Exists
<1>2. CASE UNCHANGED fileVars
  <2>0. pc' = pc /\ cur' = cur /\ disk' = disk
    BY <1>2 DEF fileVars
  <2>1. ASSUME NEW k, k = cur'[p]
        PROVE  IsHooked(k)'
    <3>1. IsHooked(k)
      BY <1>0, <2>0, <2>1 DEF ReopenIsHooked
    <3>2. ~HookKey(p, k)
      BY <2>0 DEF HookKey
    <3> QED
      BY <3>1, <3>2, HookStays
  <2>2. \A it \in Files!OpenItems(disk', cur'[p]) : it.status = "scheduled"
    BY <1>0, <2>0 DEF ReopenIsHooked
  <2> QED
    BY <2>1, <2>2 DEF ReopenIsHooked, Files!OpenItems, IsHooked, Covered, Claims, Exists
<1>3. ~Files!Acquire(p) /\ ~Files!Release(p) /\ ~Files!AppendStep(p)
      /\ (\A it, how, ref : ~Files!ResolveAppend(p, it, how, ref))
      /\ (\A it : ~Files!ResolveRerun(p, it) /\ ~Files!Unschedule(p, it))
      /\ (\A it, s : ~Files!Link(p, it, s) /\ ~Files!Schedule(p, it, s))
      /\ (\A k, i : ~Files!ReopenRerun(p, k, i))
      /\ ~Files!ResolveDrop(p) /\ ~Files!ReopenDrop(p)
  BY <1>0, Bodies
<1>4. CASE RepairWrite(p)
  <2>1. PICK k \in job[p].keys :
          \/ \E it \in Files!OpenItems(mem[p], k) : RepairItem(p, it)
          \/ \E i \in Files!ResolvedAt(mem[p], k) :
               job[p].id = "1j" /\ Files!ReopenAdd(p, k, i)
    BY <1>3, <1>4 DEF RepairWrite
  <2>2. \A it : ~RepairItem(p, it)
    BY <1>3 DEF RepairItem
  <2> QED
    BY <1>1, <1>4, <2>1, <2>2 DEF RepairWrite
<1>5. CASE \E k \in Keys : HookKey(p, k)
  BY <1>2, <1>3, <1>5 DEF HookKey, HookBegin
<1>6. CASE Start(p)
  BY <1>2, <1>3, <1>6
     DEF Start, FileCall, StoryRead, PromoteEnter, ScheduleEnter, EnterEpic, MoveEpic
<1>7. CASE Continue(p)
  BY <1>2, <1>3, <1>4, <1>5, <1>7
     DEF Continue, AppendBody, ResolveBody, RepairAudit, SecondSave, EndFileCall,
         StorySave, HookAcquire, HookDrop, HookEnd, NestedAcquire, PromoteMint,
         PromoteRefuse, ScheduleAttach, ScheduleRefuse, ScheduleItems, Unlock
<1> QED
  BY <1>6, <1>7

LEMMA NextHook ==
  ASSUME HooksCount, HookInv, [Next]_vars
  PROVE  HookInv'
<1>0. /\ HookResolves /\ SchedulersWriteAlone /\ FieldsSetAlone /\ EpicsStay /\ ~CanCrash
      /\ SchedInv
  BY DEF HooksCount, HookInv
<1>1. SchedInv'
  BY <1>0, NextSched
<1>2. FP!DupInv'
  <2>1. [FP!Next]_(FP!vars)
    BY <1>0, NextIsFileStep, SameNext, SameVars DEF SchedInv, BacklogInv, ReadInv
  <2> QED
    BY <1>0, <2>1, FP!NextDup, FilesAssumption DEF HookInv
<1>3. archived' = {}
  BY <1>0, NothingIsArchived DEF HookInv
<1>4. ASSUME NEW p \in Procs, Start(p) \/ Continue(p)
      PROVE  HookInv'
  <2>1. OneClaimant' /\ ListedIsKnown' /\ EvaluatedIsHooked' /\ ScheduledNext'
    BY <1>0, <1>4, NextOneClaimant, NextKnown, NextHooked, NextScheduled
  <2>2. \A q \in Procs : WritesNoStaleStatus(q)'
    BY <1>0, <1>4, OwnStatus, OthersStatus
  <2>3. \A q \in Procs : RepairIsHooked(q)' /\ ReopenIsHooked(q)'
    BY <1>0, <1>4, OwnRepair, OwnReopen, OthersRepair
  <2> QED
    BY <1>1, <1>2, <1>3, <2>1, <2>2, <2>3 DEF HookInv
<1>5. CASE UNCHANGED vars
  <2>1. /\ disk' = disk /\ nodes' = nodes /\ step' = step /\ job' = job
        /\ pc' = pc /\ cur' = cur
    BY <1>5 DEF vars, fileVars
  <2>2. OneClaimant' /\ ListedIsKnown'
    BY <2>1 DEF HookInv, OneClaimant, ListedIsKnown, Claims, Exists, Files!KeysIn
  <2>3. EvaluatedIsHooked' /\ ScheduledNext'
    BY <2>1 DEF HookInv, EvaluatedIsHooked, ScheduledNext, IsHooked, Covered, Claims, Exists,
       Evaluated, Files!IsResolved, Files!ResolvedAt
  <2>4. \A q \in Procs : WritesNoStaleStatus(q)' /\ RepairIsHooked(q)' /\ ReopenIsHooked(q)'
    BY <2>1 DEF HookInv, WritesNoStaleStatus, RepairIsHooked, ReopenIsHooked, IsHooked,
       Covered, Claims, Exists, Files!OpenItems
  <2> QED
    BY <1>1, <1>2, <1>3, <2>2, <2>3, <2>4 DEF HookInv
<1>6. \A p \in Procs : ~Crash(p)
  BY <1>0 DEF Crash
<1> QED
  BY <1>4, <1>5, <1>6 DEF Next

LEMMA InitHook == Init => HookInv
<1> SUFFICES ASSUME Init
             PROVE  HookInv
  OBVIOUS
<1>1. SchedInv /\ FP!DupInv
  BY InitSched, FP!InitDup, FilesAssumption, SameInit DEF Init
<1>2. /\ disk.open = {} /\ archived = {}
      /\ \A p \in Procs : step[p] = "idle" /\ pc[p] = "idle"
  BY DEF Init, Files!Init, Files!EmptyStore
<1>3. \A s \in Stories : nodes[s].resolves = {}
  BY DEF Init, Absent
<1> QED
  BY <1>1, <1>2, <1>3
     DEF HookInv, OneClaimant, ListedIsKnown, EvaluatedIsHooked, ScheduledNext, Evaluated,
         Claims, WritesNoStaleStatus, RepairIsHooked, ReopenIsHooked, Attaching

\* Once set-status done has returned, no open item that the story lists is
\* left behind: a hook that is under way comes to each of them, whatever else
\* is scheduled, resolved, reopened or repaired meanwhile, unless a process
\* died, an epic moved, or set-field wrote an old status back.
THEOREM DoneStoriesLeaveNothingOpen ==
  HooksCount => (Spec => []DoneLeavesNothingOpen)
<1> SUFFICES ASSUME HooksCount
             PROVE  Spec => []DoneLeavesNothingOpen
  OBVIOUS
<1>1. HookInv => DoneLeavesNothingOpen
  BY DEF HookInv, DoneLeavesNothingOpen, Finding1c, LiveClaims, EvaluatedIsHooked,
     IsHooked, Covered, Finishing
<1>2. HookInv /\ [Next]_vars => HookInv'
  BY NextHook
<1> QED
  BY <1>1, <1>2, InitHook, PTL DEF Spec

=============================================================================
