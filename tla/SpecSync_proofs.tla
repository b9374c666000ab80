--------------------------- MODULE SpecSync_proofs ---------------------------
(***************************************************************************)
(* Proofs about the spec sync.                                             *)
(***************************************************************************)
EXTENDS SpecSync, TLAPS, SequenceTheorems

-----------------------------------------------------------------------------
(* Types.                                                                   *)

\* A closure that is past the choice of an item has one in hand.
ItemInHand ==
  \A e \in Epics :
    pc[e] \in {"edited", "checked", "landed", "recorded", "propose", "filed", "deferred"}
      => job[e].item \in Items

\* A reject under way is about an item of the backlog.
KeyInHand == triage.at # "idle" => triage.key \in DOMAIN issues

Typed == TypeOK /\ ItemInHand /\ KeyInHand

\* A job keeps its type and its other fields when one field is set.
LEMMA JobExcept ==
  ASSUME NEW j \in Jobs
  PROVE  /\ \A x \in SUBSET Items : /\ [j EXCEPT !.todo = x] \in Jobs
                                   /\ [j EXCEPT !.todo = x].item = j.item
         /\ \A x \in Items : [j EXCEPT !.item = x] \in Jobs /\ [j EXCEPT !.item = x].item = x
         /\ [j EXCEPT !.tries = 1] \in Jobs /\ [j EXCEPT !.tries = 1].item = j.item
         /\ \A x \in Nat : [j EXCEPT !.commit = x] \in Jobs /\ [j EXCEPT !.commit = x].item = j.item
         /\ \A x \in Nat : [j EXCEPT !.issue = x] \in Jobs /\ [j EXCEPT !.issue = x].item = j.item
<1> DEFINE Job(todo, item, tries, commit, issue) ==
             [todo |-> todo, item |-> item, tries |-> tries, commit |-> commit, issue |-> issue]
<1>1. /\ j.todo \in SUBSET Items /\ j.item \in Items \cup {NoItem} /\ j.tries \in {0, 1}
      /\ j.commit \in Nat /\ j.issue \in Nat
      /\ j = Job(j.todo, j.item, j.tries, j.commit, j.issue)
  BY DEF Jobs
<1>2. \A x : [j EXCEPT !.todo = x] = Job(x, j.item, j.tries, j.commit, j.issue)
  BY <1>1
<1>3. \A x : [j EXCEPT !.item = x] = Job(j.todo, x, j.tries, j.commit, j.issue)
  BY <1>1
<1>4. [j EXCEPT !.tries = 1] = Job(j.todo, j.item, 1, j.commit, j.issue)
  BY <1>1
<1>5. \A x : [j EXCEPT !.commit = x] = Job(j.todo, j.item, j.tries, x, j.issue)
  BY <1>1
<1>6. \A x : [j EXCEPT !.issue = x] = Job(j.todo, j.item, j.tries, j.commit, x)
  BY <1>1
<1> QED
  BY <1>1, <1>2, <1>3, <1>4, <1>5, <1>6 DEF Jobs

LEMMA SetJob ==
  ASSUME job \in [Epics -> Jobs], NEW e \in Epics, NEW j \in Jobs,
         job' = [job EXCEPT ![e] = j]
  PROVE  /\ job' \in [Epics -> Jobs] /\ job'[e] = j
         /\ \A x \in Epics : x # e => job'[x] = job[x]
OBVIOUS

\* Both ways a refusal goes keep the types.
LEMMA RefusedTyped ==
  ASSUME Typed, NEW e \in Epics, job[e].item \in Items, Refused(e)
  PROVE  /\ work' \in Edits /\ \A s \in Sections : head[s] \subseteq work'[s]
         /\ job' \in [Epics -> Jobs]
         /\ pc' \in [Epics -> {"plan", "lease", "work", "edited", "checked", "landed",
                               "recorded", "propose", "filed", "defer", "deferred", "closed"}]
         /\ \A x \in Epics : x # e => pc'[x] = pc[x]
         /\ pc'[e] \in {"work", "propose"}
         /\ \A x \in Epics : job'[x].item = job[x].item
<1>1. CASE MayRetry(e)
  <2>1. /\ job' = [job EXCEPT ![e] = [job[e] EXCEPT !.tries = 1]]
        /\ pc' = [pc EXCEPT ![e] = "work"] /\ work' = work
    BY <1>1 DEF Refused, Goto
  <2>2. job \in [Epics -> Jobs] /\ job[e] \in Jobs
    BY DEF Typed, TypeOK
  <2>3. [job[e] EXCEPT !.tries = 1] \in Jobs /\ [job[e] EXCEPT !.tries = 1].item = job[e].item
    BY <2>2, JobExcept
  <2>4. job' \in [Epics -> Jobs] /\ \A x \in Epics : job'[x].item = job[x].item
    BY <2>1, <2>2, <2>3, SetJob
  <2> QED
    BY <2>1, <2>4 DEF Typed, TypeOK
<1>2. CASE ~MayRetry(e)
  <2>1. work' = Restored(job[e].item) /\ pc' = [pc EXCEPT ![e] = "propose"] /\ job' = job
    BY <1>2 DEF Refused, Goto
  <2> QED
    BY <2>1 DEF Typed, TypeOK, Restored, SameDoc, Edits, Jobs
<1> QED
  BY <1>1, <1>2

\* append_spec_issue names an item of the backlog, and only adds to it.
LEMMA AppendTyped ==
  ASSUME Typed, NEW e \in Epics, NEW i \in Items, NEW to,
         NEW kind \in {"spec-change", "spec-proposal"},
         to \in {"filed", "deferred"}, AppendSpecIssue(e, i, kind, to)
  PROVE  Typed'
<1>0. job \in [Epics -> Jobs] /\ job[e] \in Jobs
  BY DEF Typed, TypeOK
<1>1. /\ issues' \in Seq(Issues) /\ DOMAIN issues \subseteq DOMAIN issues'
      /\ job' \in [Epics -> Jobs]
      /\ job'[e].item = i /\ \A x \in Epics : x # e => job'[x] = job[x]
  <2>1. CASE \E k \in DOMAIN issues :
               /\ job' = [job EXCEPT ![e].item = i, ![e].issue = k]
               /\ UNCHANGED issues
    <3>1. PICK k \in DOMAIN issues : job' = [job EXCEPT ![e] = [[job[e] EXCEPT !.item = i] EXCEPT !.issue = k]]
      BY <2>1
    <3>2. k \in Nat /\ issues \in Seq(Issues)
      BY LenProperties DEF Typed, TypeOK
    <3>3. [job[e] EXCEPT !.item = i] \in Jobs /\ [job[e] EXCEPT !.item = i].item = i
      BY <1>0, JobExcept
    <3> DEFINE j == [[job[e] EXCEPT !.item = i] EXCEPT !.issue = k]
    <3>4. j \in Jobs /\ j.item = i
      BY <3>2, <3>3, JobExcept
    <3> QED
      BY <2>1, <3>1, <3>2, <3>4, <1>0, SetJob
  <2>2. CASE /\ issues' = Append(issues, [item |-> i, kind |-> kind, res |-> "open",
                                          ref |-> job[e].commit])
             /\ job' = [job EXCEPT ![e].item = i, ![e].issue = Len(issues) + 1]
    <3>1. [item |-> i, kind |-> kind, res |-> "open", ref |-> job[e].commit] \in Issues
      BY DEF Typed, TypeOK, Jobs, Issues
    <3>2. issues \in Seq(Issues)
      BY DEF Typed, TypeOK
    <3>3. issues' \in Seq(Issues) /\ Len(issues') = Len(issues) + 1 /\ Len(issues) \in Nat
      BY <2>2, <3>1, <3>2, AppendProperties, LenProperties
    <3>4. DOMAIN issues \subseteq DOMAIN issues'
      BY <3>2, <3>3, LenProperties
    <3>5. job' = [job EXCEPT ![e] = [[job[e] EXCEPT !.item = i] EXCEPT !.issue = Len(issues) + 1]]
      BY <2>2
    <3>6. [job[e] EXCEPT !.item = i] \in Jobs /\ [job[e] EXCEPT !.item = i].item = i
      BY <1>0, JobExcept
    <3> DEFINE n == Len(issues) + 1
               j == [[job[e] EXCEPT !.item = i] EXCEPT !.issue = n]
    <3>7. n \in Nat
      BY <3>3
    <3>8. job' = [job EXCEPT ![e] = j]
      BY <3>5
    <3> HIDE DEF n
    <3>9. j \in Jobs /\ j.item = i
      BY <3>6, <3>7, JobExcept
    <3> HIDE DEF j
    <3> QED
      BY <3>3, <3>4, <3>8, <3>9, <1>0, SetJob
  <2> QED
    BY <2>1, <2>2 DEF AppendSpecIssue
<1>2. pc' = [pc EXCEPT ![e] = to] /\ UNCHANGED <<lease, clock, tree, commits, disp, people, past>>
  BY DEF AppendSpecIssue, Goto
<1> QED
  BY <1>1, <1>2 DEF Typed, TypeOK, ItemInHand, KeyInHand, tree, people, past

LEMMA CloseTyped ==
  ASSUME Typed, NEW e \in Epics, Closure(e)
  PROVE  Typed'
<1> USE SpecSyncAssumption DEF Typed, TypeOK, ItemInHand, KeyInHand, Goto, tree, records, people, past
<1>0. job \in [Epics -> Jobs] /\ job[e] \in Jobs
  OBVIOUS
<1>1. CASE SyncPlan(e)
  BY <1>1 DEF SyncPlan, Pending, Jobs, NoJob
<1>2. CASE LeaseAcquire(e)
  BY <1>2 DEF LeaseAcquire
<1>3. CASE LeaseGiveUp(e)
  <2>1. job' = [job EXCEPT ![e] = [job[e] EXCEPT !.todo = Pending(e)]] /\ Pending(e) \in SUBSET Items
    BY <1>3 DEF LeaseGiveUp, Pending
  <2> DEFINE j == [job[e] EXCEPT !.todo = Pending(e)]
  <2>3. j \in Jobs /\ j.item = job[e].item
    BY <2>1, <1>0, JobExcept
  <2>2. job' \in [Epics -> Jobs] /\ \A x \in Epics : job'[x].item = job[x].item
    BY <2>1, <2>3, <1>0, SetJob
  <2> QED
    BY <1>3, <2>2 DEF LeaseGiveUp
<1>4. CASE LeaseRelease(e)
  BY <1>4 DEF LeaseRelease, NoLease
<1>5. CASE Edit(e)
  <2>1. PICK i \in (IF job[e].item = NoItem THEN job[e].todo ELSE {job[e].item}) :
          /\ \E s \in SameDoc(SectionOf[i]) :
               work' = [t \in Sections |->
                          IF t = s THEN work[t] \cup {i} ELSE work[t] \ ({i} \ head[t])]
          /\ job' = [job EXCEPT ![e].item = i]
    BY <1>5 DEF Edit
  <2>2. i \in Items
    BY <2>1 DEF Jobs
  <2>3. work' \in Edits /\ \A s \in Sections : head[s] \subseteq work'[s]
    BY <2>1, <2>2 DEF Edits
  <2>4. job' \in [Epics -> Jobs] /\ job'[e].item \in Items
        /\ \A x \in Epics : x # e => job'[x] = job[x]
    <3> DEFINE j == [job[e] EXCEPT !.item = i]
    <3>1. job' = [job EXCEPT ![e] = j]
      BY <2>1
    <3>2. j \in Jobs /\ j.item = i
      BY <2>2, <1>0, JobExcept
    <3> QED
      BY <3>1, <3>2, <2>2, <1>0, SetJob
  <2> QED
    BY <1>5, <2>3, <2>4 DEF Edit
<1>6. CASE WriteProposal(e)
  <2>1. PICK i \in job[e].todo : job' = [job EXCEPT ![e] = [job[e] EXCEPT !.item = i]]
    BY <1>6 DEF WriteProposal
  <2>2. i \in Items
    BY <2>1, <1>0 DEF Jobs
  <2>3. /\ job' \in [Epics -> Jobs] /\ job'[e].item \in Items
        /\ \A x \in Epics : x # e => job'[x] = job[x]
    <3> DEFINE j == [job[e] EXCEPT !.item = i]
    <3>1. j \in Jobs /\ j.item = i
      BY <2>2, <1>0, JobExcept
    <3> QED
      BY <2>1, <3>1, <2>2, <1>0, SetJob
  <2> QED
    BY <1>6, <2>3 DEF WriteProposal
<1>7. CASE CommitCheck(e)
  BY <1>7 DEF CommitCheck
<1>8. CASE CommitRefuse(e) \/ GitFail(e)
  <2>1. Refused(e) /\ job[e].item \in Items
        /\ UNCHANGED <<lease, clock, head, records, people, past>>
    BY <1>8 DEF CommitRefuse, GitFail
  <2> QED
    BY <2>1, RefusedTyped
<1>9. CASE GitCommit(e)
  <2> DEFINE i == job[e].item
             doc == SameDoc(SectionOf[i])
             c == [item |-> i, took |-> [s \in Sections |->
                     IF s \in doc THEN work[s] \ head[s] ELSE {}]]
  <2>1. i \in Items
    BY <1>9 DEF GitCommit
  <2>2. c \in Commits
    BY <2>1 DEF Commits, Edits
  <2>3. commits' = Append(commits, c) /\ job' = [job EXCEPT ![e].commit = Len(commits) + 1]
        /\ head' = [s \in Sections |-> IF s \in doc THEN work[s] ELSE head[s]]
    BY <1>9 DEF GitCommit
  <2>4. commits' \in Seq(Commits) /\ Len(commits) \in Nat
    BY <2>2, <2>3, AppendProperties, LenProperties
  <2>5. job' \in [Epics -> Jobs] /\ \A x \in Epics : job'[x].item = job[x].item
    <3> DEFINE n == Len(commits) + 1
               j == [job[e] EXCEPT !.commit = n]
    <3>0. n \in Nat
      BY <2>4
    <3>1. job' = [job EXCEPT ![e] = j]
      BY <2>3
    <3> HIDE DEF n
    <3>2. j \in Jobs /\ j.item = job[e].item
      BY <3>0, <1>0, JobExcept
    <3> HIDE DEF j
    <3> QED
      BY <3>1, <3>2, <1>0, SetJob
  <2>6. head' \in Edits /\ \A s \in Sections : head'[s] \subseteq work[s]
    BY <2>3 DEF Edits
  <2> QED
    BY <1>9, <2>1, <2>4, <2>5, <2>6 DEF GitCommit
<1>10. CASE RecordCommit(e)
  BY <1>10 DEF RecordCommit, Jobs
<1>11. CASE CommitIssue(e)
  BY <1>11, AppendTyped DEF CommitIssue
<1>12. CASE Propose(e)
  BY <1>12, AppendTyped DEF Propose
<1>13. CASE DeferItem(e)
  BY <1>13, AppendTyped DEF DeferItem, Jobs
<1>14. CASE ProposeRefuse(e)
  BY <1>14 DEF ProposeRefuse, NextItem, NoJob, Jobs
<1>15. CASE RecordIssue(e)
  BY <1>15 DEF RecordIssue, NextItem, NoJob, Jobs
<1>16. CASE DeferEnd(e)
  BY <1>16 DEF DeferEnd
<1> QED
  BY <1>1, <1>2, <1>3, <1>4, <1>5, <1>6, <1>7, <1>8, <1>9, <1>10, <1>11, <1>12, <1>13,
     <1>14, <1>15, <1>16 DEF Closure
LEMMA SetResolution ==
  ASSUME issues \in Seq(Issues), NEW k \in DOMAIN issues, NEW res \in {"fixed", "wontfix"},
         issues' = [issues EXCEPT ![k].res = res]
  PROVE  issues' \in Seq(Issues) /\ DOMAIN issues' = DOMAIN issues
<1> DEFINE it == [issues[k] EXCEPT !.res = res]
<1>1. issues[k] \in Issues /\ k \in 1..Len(issues)
  BY ElementOfSeq, LenProperties
<1>2. it = [item |-> issues[k].item, kind |-> issues[k].kind, res |-> res, ref |-> issues[k].ref]
  BY <1>1 DEF Issues
<1>3. it \in Issues
  BY <1>1, <1>2 DEF Issues
<1>4. issues' = [issues EXCEPT ![k] = it]
  OBVIOUS
<1> HIDE DEF it
<1> QED
  BY <1>1, <1>3, <1>4, ExceptSeq, LenProperties

\* Every step keeps the types.
LEMMA NextTyped ==
  ASSUME Typed, [Next]_vars
  PROVE  Typed'
<1> USE SpecSyncAssumption DEF Typed, TypeOK, ItemInHand, KeyInHand, tree, records, people, past
<1>0. job \in [Epics -> Jobs] /\ NoJob \in Jobs
  BY DEF Jobs, NoJob
<1>1. ASSUME NEW e \in Epics, Closure(e) PROVE Typed'
  BY <1>1, CloseTyped
<1>2. ASSUME NEW e \in Epics, Crash(e) PROVE Typed'
  BY <1>0, <1>2 DEF Crash, Strike, Lost, NoLease, Goto
<1>3. ASSUME NEW e \in Epics, AppendFail(e) PROVE Typed'
  <2>1. mishaps' \in 0..Mishaps /\ cut' \subseteq Items
        /\ UNCHANGED <<lease, clock, head, records, people>>
    <3>1. job[e].item \in Items
      BY <1>3 DEF AppendFail
    <3> QED
      BY <1>3, <3>1 DEF AppendFail, Strike
  <2>2. CASE pc[e] = "recorded" /\ Refused(e)
    BY <2>1, <2>2, RefusedTyped
  <2>3. CASE pc[e] = "propose" /\ NextItem(e) /\ Goto(e, "work") /\ UNCHANGED work
    BY <2>1, <2>3 DEF NextItem, NoJob, Goto, Jobs
  <2> QED
    BY <1>3, <2>2, <2>3 DEF AppendFail
<1>4. ASSUME NEW k \in DOMAIN issues, Confirm(k) PROVE Typed'
  <2>1. issues' \in Seq(Issues) /\ DOMAIN issues' = DOMAIN issues
    BY <1>4, SetResolution DEF Confirm
  <2> QED
    BY <1>4, <2>1 DEF Confirm
<1>5. ASSUME NEW k \in DOMAIN issues, Reject(k) PROVE Typed'
  <2>1. k \in Nat
    BY LenProperties
  <2>2. /\ head' \in Edits /\ work' \in Edits
        /\ \A s \in Sections : head'[s] \subseteq work'[s]
    <3>1. CASE UNCHANGED tree
      BY <3>1
    <3>2. CASE /\ head' = Reverted(head, issues[k].ref)
               /\ work' = Reverted(work, issues[k].ref)
      BY <3>2 DEF Reverted, Edits
    <3> QED
      BY <1>5, <3>1, <3>2 DEF Reject
  <2> QED
    BY <1>5, <2>1, <2>2 DEF Reject
<1>6. ASSUME RejectResolve PROVE Typed'
  <2>1. issues' \in Seq(Issues) /\ DOMAIN issues' = DOMAIN issues
    BY <1>6, SetResolution DEF RejectResolve
  <2> QED
    BY <1>6, <2>1 DEF RejectResolve
<1>7. ASSUME RejectFile PROVE Typed'
  BY <1>7 DEF RejectFile, NoTriage
<1>8. ASSUME RejectCrash PROVE Typed'
  BY <1>8 DEF RejectCrash, Strike, NoTriage
<1>9. ASSUME Tick PROVE Typed'
  BY <1>9 DEF Tick
<1>10. ASSUME UNCHANGED vars PROVE Typed'
  BY <1>10 DEF vars
<1> QED
  BY <1>1, <1>2, <1>3, <1>4, <1>5, <1>6, <1>7, <1>8, <1>9, <1>10 DEF Next, Finished

LEMMA InitTyped ==
  ASSUME Init
  PROVE  Typed
BY SpecSyncAssumption
DEF Init, NoLease, NoJob, NoTriage, Typed, TypeOK, ItemInHand, KeyInHand, Edits, Jobs

\* Every variable of the spec sync keeps its type, and what HEAD holds the
\* working tree holds too, for any closures, items and spec files.
THEOREM TypeCorrect == Spec => []TypeOK
<1>1. Spec => []Typed
  BY InitTyped, NextTyped, PTL DEF Spec
<1> QED
  BY <1>1, PTL DEF Typed

-----------------------------------------------------------------------------
(* The lease keeps a commit to its section.                                 *)

\* An agent at work has the lease, and it has not expired.
LeaseHeld == \A e \in AtWork : lease.owner = e /\ clock < lease.until

\* Between the check of a commit and git nothing else in the file changes.
CheckStands == \A e \in Epics : pc[e] = "checked" => InScope(job[e].item)

Guarded == LeaseHeld /\ CheckStands /\ CommitsAreScoped

\* The steps of a closure that has not got the lease touch no spec file and no
\* other closure.
LEMMA WithoutLease ==
  ASSUME Typed, NEW e \in Epics, Closure(e), e \notin AtWork
  PROVE  /\ UNCHANGED <<clock, head, work, commits>>
         /\ \A x \in Epics : x # e => pc'[x] = pc[x] /\ job'[x] = job[x]
         /\ \/ UNCHANGED lease /\ pc'[e] \in {"lease", "defer", "deferred", "closed"}
            \/ /\ pc[e] = "lease" /\ CanTake(e) /\ pc'[e] = "work"
               /\ lease' = [owner |-> e, until |-> clock + Ttl]
<1> USE DEF Goto, tree, records
<1>0. /\ pc[e] \in {"plan", "lease", "defer", "deferred", "closed"}
      /\ DOMAIN pc = Epics /\ DOMAIN job = Epics
  BY DEF AtWork, Typed, TypeOK
<1>1. CASE SyncPlan(e)
  BY <1>0, <1>1 DEF SyncPlan
<1>2. CASE LeaseAcquire(e)
  BY <1>0, <1>2 DEF LeaseAcquire
<1>3. CASE LeaseGiveUp(e)
  BY <1>0, <1>3 DEF LeaseGiveUp
<1>4. CASE DeferItem(e)
  <2>1. PICK i \in job[e].todo : AppendSpecIssue(e, i, "spec-proposal", "deferred")
    BY <1>4 DEF DeferItem
  <2> QED
    BY <1>0, <2>1 DEF AppendSpecIssue
<1>5. CASE RecordIssue(e)
  BY <1>0, <1>5 DEF RecordIssue, NextItem
<1>6. CASE DeferEnd(e)
  BY <1>0, <1>6 DEF DeferEnd
<1> QED
  BY <1>0, <1>1, <1>2, <1>3, <1>4, <1>5, <1>6
  DEF Closure, LeaseRelease, Edit, WriteProposal, CommitCheck, CommitRefuse, GitCommit,
      GitFail, RecordCommit, CommitIssue, Propose, ProposeRefuse

\* Nobody takes a lease from an agent at work.
LEMMA NobodyTakes ==
  ASSUME Typed, LeaseHeld, NEW e \in Epics, e \notin AtWork, CanTake(e)
  PROVE  AtWork = {}
<1>1. SUFFICES ASSUME NEW x \in AtWork PROVE FALSE
  OBVIOUS
<1>2. x \in Epics /\ x # e /\ lease.owner = x /\ clock < lease.until
  BY DEF AtWork, LeaseHeld
<1>3. x # NoEpic /\ lease.until \in Nat /\ clock \in Nat
  BY <1>2, SpecSyncAssumption DEF Typed, TypeOK
<1> QED
  BY <1>2, <1>3 DEF CanTake

\* The steps of an agent at work leave the clock and the other closures alone,
\* and the lease but for releasing it.
LEMMA WithLease ==
  ASSUME Typed, NEW e \in Epics, Closure(e), e \in AtWork
  PROVE  /\ UNCHANGED clock
         /\ \A x \in Epics : x # e => pc'[x] = pc[x]
         /\ UNCHANGED lease \/ pc'[e] = "closed"
<1>0. DOMAIN pc = Epics /\ pc[e] \notin {"plan", "lease", "defer", "deferred", "closed"}
  BY DEF AtWork, Typed, TypeOK
<1>1. CASE LeaseRelease(e)
  BY <1>0, <1>1 DEF LeaseRelease, Goto
<1>2. CASE CommitRefuse(e) \/ GitFail(e)
  BY <1>0, <1>2 DEF CommitRefuse, GitFail, Refused, Goto
<1>3. CASE CommitIssue(e) \/ Propose(e)
  BY <1>0, <1>3 DEF CommitIssue, Propose, AppendSpecIssue, Goto
<1>4. CASE Edit(e) \/ WriteProposal(e) \/ CommitCheck(e) \/ GitCommit(e) \/ RecordCommit(e)
  BY <1>0, <1>4 DEF Edit, WriteProposal, CommitCheck, GitCommit, RecordCommit, Goto
<1>5. CASE ProposeRefuse(e) \/ RecordIssue(e)
  BY <1>0, <1>5 DEF ProposeRefuse, RecordIssue, Goto
<1> QED
  BY <1>0, <1>1, <1>2, <1>3, <1>4, <1>5
  DEF Closure, SyncPlan, LeaseAcquire, LeaseGiveUp, DeferItem, DeferEnd

LEMMA LeaseStep ==
  ASSUME Typed, LeaseHeld, [Next]_vars
  PROVE  LeaseHeld'
<1> USE DEF LeaseHeld, AtWork
<1>0. DOMAIN pc = Epics /\ clock \in Nat /\ lease.until \in Nat
  BY DEF Typed, TypeOK
<1>1. ASSUME NEW e \in Epics, Closure(e) PROVE LeaseHeld'
  <2>1. CASE e \in AtWork
    <3>1. \A x \in AtWork : x # e => FALSE
      BY <2>1
    <3> QED
      BY <1>1, <2>1, <3>1, WithLease
  <2>2. CASE /\ e \notin AtWork /\ UNCHANGED lease
             /\ pc'[e] \in {"lease", "defer", "deferred", "closed"}
    BY <1>1, <2>2, WithoutLease
  <2>3. CASE e \notin AtWork /\ CanTake(e) /\ lease' = [owner |-> e, until |-> clock + Ttl]
             /\ UNCHANGED clock
    <3>1. AtWork = {}
      BY <2>3, NobodyTakes
    <3>2. clock < clock + Ttl
      BY <1>0, SpecSyncAssumption
    <3> QED
      BY <1>1, <2>3, <3>1, <3>2, WithoutLease
  <2> QED
    BY <1>1, <2>1, <2>2, <2>3, WithoutLease
<1>2. ASSUME NEW e \in Epics, Crash(e) PROVE LeaseHeld'
  <2>1. pc' = [pc EXCEPT ![e] = "plan"] /\ UNCHANGED clock
    BY <1>2 DEF Crash, Goto
  <2>2. CASE UNCHANGED lease
    BY <1>0, <2>1, <2>2
  <2>3. CASE pc[e] = "lease" /\ CanTake(e)
    <3>1. AtWork = {}
      BY <2>3, NobodyTakes
    <3> QED
      BY <1>0, <2>1, <3>1
  <2> QED
    BY <1>2, <2>2, <2>3 DEF Crash
<1>3. ASSUME NEW e \in Epics, AppendFail(e) PROVE LeaseHeld'
  <2>1. /\ UNCHANGED <<lease, clock>> /\ pc[e] \in {"recorded", "propose"}
        /\ pc' = [pc EXCEPT ![e] = "work"] \/ pc' = [pc EXCEPT ![e] = "propose"]
    BY <1>3 DEF AppendFail, Refused, Goto
  <2>2. \A x \in Epics : x # e => pc'[x] = pc[x]
    BY <1>0, <2>1
  <2> QED
    BY <2>1, <2>2
<1>4. ASSUME Tick PROVE LeaseHeld'
  BY <1>0, <1>4 DEF Tick
<1>5. CASE UNCHANGED <<lease, clock, pc>>
  BY <1>5
<1> QED
  BY <1>1, <1>2, <1>3, <1>4, <1>5
  DEF Next, Confirm, Reject, RejectResolve, RejectFile, RejectCrash, Finished, vars

\* A file with nothing uncommitted is reverted without leaving anything.
LEMMA RevertKeepsChanges ==
  ASSUME Typed, NEW k \in DOMAIN issues, Reject(k), NEW i
  PROVE  Changed(i)' = Changed(i)
<1>1. CASE UNCHANGED tree
  BY <1>1 DEF tree, Changed, SameDoc
<1>2. CASE /\ CanRevert(issues[k].ref)
           /\ head' = Reverted(head, issues[k].ref) /\ work' = Reverted(work, issues[k].ref)
  <2>1. \A s \in Sections : head'[s] # work'[s] <=> head[s] # work[s]
    BY <1>2 DEF CanRevert, Reverted
  <2> QED
    BY <2>1 DEF Changed, SameDoc
<1> QED
  BY <1>1, <1>2 DEF Reject

LEMMA CheckStep ==
  ASSUME Typed, LeaseHeld, CheckStands, [Next]_vars
  PROVE  CheckStands'
<1> SUFFICES ASSUME NEW x \in Epics, pc'[x] = "checked"
             PROVE  InScope(job[x].item)'
  BY DEF CheckStands
<1>0. DOMAIN pc = Epics /\ DOMAIN job = Epics
  BY DEF Typed, TypeOK
<1>1. ASSUME UNCHANGED <<head, work>>, pc[x] = "checked", job'[x] = job[x]
      PROVE  InScope(job[x].item)'
  BY <1>1 DEF CheckStands, InScope, Changed, SameDoc
<1>2. ASSUME NEW e \in Epics, Closure(e) PROVE InScope(job[x].item)'
  <2>1. CASE e = x /\ e \in AtWork
    <3>1. CommitCheck(x)
      BY <1>0, <1>2, <2>1
      DEF AtWork, Closure, SyncPlan, LeaseAcquire, LeaseGiveUp, LeaseRelease, Edit,
          WriteProposal, CommitRefuse, GitCommit, GitFail, Refused, RecordCommit, CommitIssue,
          Propose, ProposeRefuse, RecordIssue, DeferItem, DeferEnd, AppendSpecIssue, Goto
    <3> QED
      BY <3>1 DEF CommitCheck, Committable, InScope, Changed, SameDoc, tree
  <2>2. CASE e # x /\ e \in AtWork
    <3>1. pc[x] = "checked"
      BY <1>2, <2>2, WithLease
    <3> QED
      BY <2>2, <3>1 DEF LeaseHeld, AtWork
  <2>3. CASE e \notin AtWork
    <3>1. e # x /\ pc[x] = "checked" /\ job'[x] = job[x] /\ UNCHANGED <<head, work>>
      BY <1>2, <2>3, WithoutLease
    <3> QED
      BY <1>1, <3>1
  <2> QED
    BY <2>1, <2>2, <2>3
<1>3. ASSUME NEW e \in Epics, Crash(e) PROVE InScope(job[x].item)'
  <2>1. e # x
    BY <1>0, <1>3 DEF Crash, Goto
  <2> QED
    BY <1>0, <1>1, <1>3, <2>1 DEF Crash, Goto, tree
<1>4. ASSUME NEW e \in Epics, AppendFail(e) PROVE InScope(job[x].item)'
  <2>1. /\ pc[e] \in {"recorded", "propose"}
        /\ pc' = [pc EXCEPT ![e] = "work"] \/ pc' = [pc EXCEPT ![e] = "propose"]
    BY <1>4 DEF AppendFail, Refused, Goto
  <2>2. pc[x] = "checked" /\ e # x
    BY <1>0, <2>1
  <2> QED
    BY <2>1, <2>2 DEF LeaseHeld, AtWork
<1>5. ASSUME NEW k \in DOMAIN issues, Reject(k) PROVE InScope(job[x].item)'
  <2>1. pc[x] = "checked" /\ job' = job
    BY <1>5 DEF Reject
  <2>2. Changed(job[x].item)' = Changed(job[x].item)
    <3>1. \A i : Changed(i)' = Changed(i)
      BY <1>5, RevertKeepsChanges
    <3> QED
      BY <2>1, <3>1 DEF Changed, SameDoc
  <2> QED
    BY <2>1, <2>2 DEF CheckStands, InScope
<1>6. CASE UNCHANGED <<head, work, pc, job>>
  BY <1>1, <1>6
<1> QED
  BY <1>2, <1>3, <1>4, <1>5, <1>6
  DEF Next, Confirm, RejectResolve, RejectFile, RejectCrash, Tick, Finished, vars, tree

LEMMA ScopedStep ==
  ASSUME Typed, CheckStands, CommitsAreScoped, [Next]_vars
  PROVE  CommitsAreScoped'
<1>1. ASSUME NEW e \in Epics, GitCommit(e) PROVE CommitsAreScoped'
  <2> DEFINE i == job[e].item
             c == [item |-> i, took |-> [s \in Sections |->
                     IF s \in SameDoc(SectionOf[i]) THEN work[s] \ head[s] ELSE {}]]
  <2>1. InScope(i) /\ commits' = Append(commits, c) /\ commits \in Seq(Commits)
    BY <1>1 DEF GitCommit, CheckStands, Typed, TypeOK
  <2>2. \A s \in Sections : c.took[s] # {} => s = SectionOf[c.item]
    BY <2>1 DEF InScope, Changed
  <2> HIDE DEF c
  <2>3. /\ Len(commits) \in Nat
        /\ DOMAIN commits = 1..Len(commits) /\ DOMAIN commits' = 1..(Len(commits) + 1)
        /\ \A n \in 1..Len(commits) : commits'[n] = commits[n]
        /\ commits'[Len(commits) + 1] = c
    BY <2>1
  <2>4. SUFFICES ASSUME NEW n \in 1..(Len(commits) + 1), NEW s \in Sections,
                        commits'[n].took[s] # {}
                 PROVE  s = SectionOf[commits'[n].item]
    BY <2>3 DEF CommitsAreScoped
  <2>5. CASE n \in 1..Len(commits)
    BY <2>3, <2>4, <2>5 DEF CommitsAreScoped
  <2>6. CASE n = Len(commits) + 1
    BY <2>2, <2>3, <2>4, <2>6
  <2> QED
    BY <2>3, <2>5, <2>6
<1>2. CASE UNCHANGED commits
  BY <1>2 DEF CommitsAreScoped
<1> QED
  BY <1>1, <1>2
  DEF Next, Closure, SyncPlan, LeaseAcquire, LeaseGiveUp, LeaseRelease, Edit, WriteProposal,
      CommitCheck, CommitRefuse, GitFail, RecordCommit, CommitIssue, Propose, ProposeRefuse,
      RecordIssue, DeferItem, DeferEnd, AppendSpecIssue, Crash, AppendFail, Confirm, Reject,
      RejectResolve, RejectFile, RejectCrash, Tick, Finished, records, vars

\* A docs(spec) commit changes only the section its item names: git commits the
\* whole file, but from the check of the diff to that moment nobody else can
\* have written to it, for an agent at work holds the lease.
THEOREM CommitsStayScoped == Spec => []CommitsAreScoped
<1>1. Init => Guarded
  BY DEF Init, Guarded, LeaseHeld, AtWork, CheckStands, CommitsAreScoped
<1>2. Typed /\ Guarded /\ [Next]_vars => Guarded'
  BY LeaseStep, CheckStep, ScopedStep DEF Guarded
<1>3. Spec => [](Typed /\ Guarded)
  BY <1>1, <1>2, InitTyped, NextTyped, PTL DEF Spec
<1> QED
  BY <1>3, PTL DEF Guarded

-----------------------------------------------------------------------------
(* What a step does to the commits and to the backlog.                      *)

\* Commits are only added, and a backlog item stays about what it was filed for.
Grown ==
  /\ \A c \in DOMAIN commits : c \in DOMAIN commits' /\ commits'[c] = commits[c]
  /\ \A k \in DOMAIN issues :
       /\ k \in DOMAIN issues'
       /\ issues'[k].item = issues[k].item
       /\ issues'[k].kind = issues[k].kind
       /\ issues'[k].ref = issues[k].ref
       /\ issues'[k].res = "open" => issues[k].res = "open"

\* The closure of e opens an item about i where none was open.
Opens(e, i, kind) ==
  /\ issues' = Append(issues, [item |-> i, kind |-> kind, res |-> "open", ref |-> job[e].commit])
  /\ \A k \in DOMAIN issues : ~IsTwin(k, i, kind)

\* The items of the backlog are in 1..Len(issues), and a new one follows them.
LEMMA Opened ==
  ASSUME Typed, NEW e \in Epics, NEW i, NEW kind, Opens(e, i, kind)
  PROVE  /\ Len(issues) \in Nat /\ DOMAIN issues = 1..Len(issues)
         /\ DOMAIN issues' = 1..(Len(issues) + 1)
         /\ \A k \in DOMAIN issues : issues'[k] = issues[k]
         /\ issues'[Len(issues) + 1] =
              [item |-> i, kind |-> kind, res |-> "open", ref |-> job[e].commit]
<1> DEFINE it == [item |-> i, kind |-> kind, res |-> "open", ref |-> job[e].commit]
<1>1. issues' = Append(issues, it) /\ issues \in Seq(Issues)
  BY DEF Opens, Typed, TypeOK
<1> HIDE DEF it
<1> QED
  BY <1>1 DEF it

\* The closure of e opens this item while it is about i.
OpensHere(e, i, kind) ==
  /\ Opens(e, i, kind)
  /\ \/ /\ pc[e] = "recorded" /\ i = job[e].item /\ kind = "spec-change"
        /\ pc'[e] = "filed" /\ job'[e].item = i
     \/ pc[e] = "propose" /\ i = job[e].item /\ kind = "spec-proposal" /\ i \in Pending(e)
     \/ pc[e] = "defer" /\ i \in job[e].todo /\ kind = "spec-proposal"

\* A closure changes the backlog only by opening an item.
LEMMA ClosureIssues ==
  ASSUME Typed, NEW e \in Epics, Closure(e), issues' # issues
  PROVE  \E i \in Items, kind \in {"spec-change", "spec-proposal"} : OpensHere(e, i, kind)
<1>0. DOMAIN pc = Epics /\ DOMAIN job = Epics /\ job[e] \in Jobs
  BY DEF Typed, TypeOK
<1>1. CASE CommitIssue(e)
  <2>1. /\ pc[e] = "recorded" /\ job[e].item \in Items
        /\ AppendSpecIssue(e, job[e].item, "spec-change", "filed")
    BY <1>1 DEF CommitIssue, Typed, ItemInHand
  <2>2. pc'[e] = "filed" /\ job'[e].item = job[e].item
    BY <1>0, <2>1 DEF AppendSpecIssue, Goto, Jobs
  <2>3. OpensHere(e, job[e].item, "spec-change")
    BY <2>1, <2>2 DEF AppendSpecIssue, OpensHere, Opens
  <2> QED
    BY <2>1, <2>3
<1>2. CASE Propose(e)
  BY <1>0, <1>2 DEF Propose, AppendSpecIssue, OpensHere, Opens, Typed, ItemInHand
<1>3. CASE DeferItem(e)
  <2>1. PICK i \in job[e].todo : AppendSpecIssue(e, i, "spec-proposal", "deferred")
    BY <1>3 DEF DeferItem
  <2>2. i \in Items /\ pc[e] = "defer"
    BY <1>0, <1>3, <2>1 DEF Jobs, DeferItem
  <2>3. OpensHere(e, i, "spec-proposal")
    BY <2>1, <2>2 DEF AppendSpecIssue, OpensHere, Opens
  <2> QED
    BY <2>2, <2>3
<1> QED
  BY <1>1, <1>2, <1>3
  DEF Closure, SyncPlan, LeaseAcquire, LeaseGiveUp, LeaseRelease, Edit, WriteProposal,
      CommitCheck, CommitRefuse, GitFail, GitCommit, RecordCommit, ProposeRefuse, RecordIssue,
      DeferEnd, records

\* A closure changes the commits only by adding one.
LEMMA ClosureCommits ==
  ASSUME Typed, NEW e \in Epics, Closure(e)
  PROVE  UNCHANGED commits \/ GitCommit(e)
BY DEF Closure, SyncPlan, LeaseAcquire, LeaseGiveUp, LeaseRelease, Edit, WriteProposal,
      CommitCheck, CommitRefuse, GitFail, RecordCommit, CommitIssue, Propose, ProposeRefuse,
      RecordIssue, DeferItem, DeferEnd, AppendSpecIssue, records

\* git adds one commit, of the item in hand.
LEMMA Committed ==
  ASSUME Typed, NEW e \in Epics, GitCommit(e)
  PROVE  /\ Len(commits) \in Nat /\ DOMAIN commits = 1..Len(commits)
         /\ DOMAIN commits' = 1..(Len(commits) + 1)
         /\ \A c \in DOMAIN commits : commits'[c] = commits[c]
         /\ commits'[Len(commits) + 1].item = job[e].item
<1> DEFINE i == job[e].item
           c == [item |-> i, took |-> [s \in Sections |->
                   IF s \in SameDoc(SectionOf[i]) THEN work[s] \ head[s] ELSE {}]]
<1>1. commits' = Append(commits, c) /\ commits \in Seq(Commits)
  BY DEF GitCommit, Typed, TypeOK
<1>2. c.item = i
  OBVIOUS
<1> HIDE DEF c
<1> QED
  BY <1>1, <1>2

LEMMA ResolutionOnly ==
  ASSUME Typed, NEW k \in DOMAIN issues, NEW res \in {"fixed", "wontfix"},
         issues' = [issues EXCEPT ![k].res = res], UNCHANGED commits
  PROVE  Grown /\ DOMAIN issues' = DOMAIN issues
<1>1. issues \in Seq(Issues) /\ \A l \in DOMAIN issues : issues[l] \in Issues
  BY ElementOfSeq, LenProperties DEF Typed, TypeOK
<1>2. issues'[k] = [item |-> issues[k].item, kind |-> issues[k].kind, res |-> res,
                    ref |-> issues[k].ref]
  BY <1>1 DEF Issues
<1>3. DOMAIN issues' = DOMAIN issues /\ \A l \in DOMAIN issues : l # k => issues'[l] = issues[l]
  OBVIOUS
<1> QED
  BY <1>2, <1>3 DEF Grown

\* Every step only adds to them, and one item is opened at a time.
LEMMA NextGrows ==
  ASSUME Typed, [Next]_vars
  PROVE  /\ Grown
         /\ \/ DOMAIN issues' = DOMAIN issues
            \/ \E e \in Epics, i \in Items, kind \in {"spec-change", "spec-proposal"} :
                 Closure(e) /\ OpensHere(e, i, kind)
<1>1. CASE UNCHANGED <<commits, issues>>
  BY <1>1 DEF Grown
<1>2. ASSUME NEW e \in Epics, Closure(e)
      PROVE  /\ Grown
             /\ \/ DOMAIN issues' = DOMAIN issues
                \/ \E i \in Items, kind \in {"spec-change", "spec-proposal"} : OpensHere(e, i, kind)
  <2>1. \A c \in DOMAIN commits : c \in DOMAIN commits' /\ commits'[c] = commits[c]
    BY <1>2, ClosureCommits, Committed
  <2>2. CASE issues' = issues
    BY <2>1, <2>2 DEF Grown
  <2>3. CASE issues' # issues
    <3>1. PICK i \in Items, kind \in {"spec-change", "spec-proposal"} : OpensHere(e, i, kind)
      BY <1>2, <2>3, ClosureIssues
    <3>2. \A k \in DOMAIN issues : k \in DOMAIN issues' /\ issues'[k] = issues[k]
      <4>1. Opens(e, i, kind)
        BY <3>1 DEF OpensHere
      <4>2. /\ Len(issues) \in Nat /\ DOMAIN issues = 1..Len(issues)
            /\ DOMAIN issues' = 1..(Len(issues) + 1)
            /\ \A k \in DOMAIN issues : issues'[k] = issues[k]
        BY <4>1, Opened
      <4> QED
        BY <4>2
    <3> QED
      BY <2>1, <3>1, <3>2 DEF Grown
  <2> QED
    BY <2>2, <2>3
<1>3. ASSUME NEW k \in DOMAIN issues, Confirm(k) PROVE Grown /\ DOMAIN issues' = DOMAIN issues
  BY <1>3, ResolutionOnly DEF Confirm
<1>4. ASSUME RejectResolve PROVE Grown /\ DOMAIN issues' = DOMAIN issues
  BY <1>4, ResolutionOnly DEF RejectResolve, Typed, KeyInHand
<1> QED
  BY <1>1, <1>2, <1>3, <1>4
  DEF Next, Crash, AppendFail, Reject, RejectFile, RejectCrash, Tick, Finished, records, vars

-----------------------------------------------------------------------------
(* What is recorded.                                                        *)

\* A closure is about the items of its own epic.
OwnItems(e) ==
  /\ \A i \in job[e].todo : EpicOf[i] = e
  /\ job[e].item \in Items => EpicOf[job[e].item] = e
  /\ pc[e] \in {"lease", "defer"} => job[e].item = NoItem

\* The commit in hand is one for the item in hand; from its record on it is the
\* commit recorded.
OwnCommit(e) ==
  /\ pc[e] \in {"checked", "landed"} => Unrecorded(job[e].item)
  /\ pc[e] = "landed" =>
       job[e].commit \in DOMAIN commits /\ commits[job[e].commit].item = job[e].item
  /\ pc[e] = "recorded" => job[e].commit # 0
  /\ job[e].commit # 0 =>
       \/ pc[e] = "landed"
       \/ job[e].item \in Items /\ disp[job[e].item].commit = job[e].commit
  /\ pc[e] \in {"defer", "deferred"} => \A i \in job[e].todo : Unrecorded(i)

\* A backlog item about i that agrees with the commit recorded for i.
IsRecordOf(k, i) ==
  /\ k \in DOMAIN issues
  /\ issues[k].item = i /\ issues[k].ref = disp[i].commit
  /\ issues[k].kind = IF disp[i].commit = 0 THEN "spec-proposal" ELSE "spec-change"

OwnIssue(e) == pc[e] \in {"filed", "deferred"} => IsRecordOf(job[e].issue, job[e].item)

InHand(e) == OwnItems(e) /\ OwnCommit(e) /\ OwnIssue(e)

\* A backlog item is that of a proposal, or of the commit recorded for it.
IssueIsReal(k) ==
  IF issues[k].kind = "spec-proposal"
    THEN issues[k].ref = 0
    ELSE issues[k].ref # 0 /\ disp[issues[k].item].commit = issues[k].ref

\* What is recorded for one item, as RecordsAreReal says it.
RecordIsReal(i) ==
  /\ disp[i].commit # 0 => disp[i].commit \in DOMAIN commits /\ commits[disp[i].commit].item = i
  /\ disp[i].issue # 0 => IsRecordOf(disp[i].issue, i)

RecordInv ==
  /\ \A e \in Epics : InHand(e)
  /\ \A k \in DOMAIN issues : IssueIsReal(k)
  /\ \A i \in Items : RecordIsReal(i)

\* Nothing recorded changes, or the record of the item in hand does.
LEMMA ClosureRecords ==
  ASSUME Typed, NEW e \in Epics, Closure(e)
  PROVE  UNCHANGED disp \/ RecordCommit(e) \/ RecordIssue(e)
BY DEF Closure, SyncPlan, LeaseAcquire, LeaseGiveUp, LeaseRelease, Edit, WriteProposal,
      CommitCheck, CommitRefuse, GitFail, GitCommit, CommitIssue, Propose, ProposeRefuse,
      DeferItem, DeferEnd, AppendSpecIssue, records

\* A closure leaves the standing of the others alone.
LEMMA OtherJobs ==
  ASSUME Typed, NEW e \in Epics, Closure(e)
  PROVE  \A x \in Epics : x # e => pc'[x] = pc[x] /\ job'[x] = job[x]
<1>1. DOMAIN pc = Epics /\ DOMAIN job = Epics
  BY DEF Typed, TypeOK
<1>2. CASE e \notin AtWork
  BY <1>2, WithoutLease
<1>3. CASE e \in AtWork
  <2>1. \A x \in Epics : x # e => pc'[x] = pc[x]
    BY <1>3, WithLease
  <2>2. \A x \in Epics : x # e => job'[x] = job[x]
    BY <1>1
    DEF Closure, SyncPlan, LeaseAcquire, LeaseGiveUp, LeaseRelease, Edit, WriteProposal,
        CommitCheck, CommitRefuse, GitFail, GitCommit, Refused, RecordCommit, CommitIssue,
        Propose, ProposeRefuse, NextItem, RecordIssue, DeferItem, DeferEnd, AppendSpecIssue
  <2> QED
    BY <2>1, <2>2
<1> QED
  BY <1>2, <1>3

\* The record of an item that no step changes stays real.
LEMMA RecordStays ==
  ASSUME Grown, NEW i \in Items, RecordIsReal(i), disp'[i] = disp[i]
  PROVE  RecordIsReal(i)'
BY DEF Grown, RecordIsReal, IsRecordOf

\* What a closure has in hand stands as long as it does nothing itself.
LEMMA HandStays ==
  ASSUME Typed, Grown, NEW x \in Epics, InHand(x), pc'[x] = pc[x], job'[x] = job[x],
         \A i \in Items : EpicOf[i] = x => disp'[i] = disp[i]
  PROVE  InHand(x)'
<1>1. /\ job[x] \in Jobs
      /\ pc[x] \in {"checked", "landed", "recorded", "filed", "deferred"} => job[x].item \in Items
  BY DEF Typed, TypeOK, ItemInHand
<1>2. \A i \in job[x].todo : disp'[i] = disp[i]
  BY <1>1 DEF InHand, OwnItems, Jobs
<1>3. job[x].item \in Items => disp'[job[x].item] = disp[job[x].item]
  BY DEF InHand, OwnItems
<1>4. OwnItems(x)'
  BY DEF InHand, OwnItems
<1>5. OwnCommit(x)'
  BY <1>1, <1>2, <1>3 DEF InHand, OwnCommit, Grown, Unrecorded
<1>6. OwnIssue(x)'
  BY <1>1, <1>3 DEF InHand, OwnIssue, Grown, IsRecordOf
<1> QED
  BY <1>4, <1>5, <1>6 DEF InHand

\* Without an item there is nothing in hand; what is deferred has no record.
LEMMA NothingInHand ==
  ASSUME NEW e \in Epics, job'[e].item = NoItem, job'[e].commit = 0,
         \A i \in job'[e].todo : EpicOf[i] = e,
         pc'[e] \in {"plan", "lease", "work", "closed"}
  PROVE  InHand(e)'
BY SpecSyncAssumption DEF InHand, OwnItems, OwnCommit, OwnIssue

LEMMA NothingDeferred ==
  ASSUME NEW e \in Epics, job'[e].item = NoItem, job'[e].commit = 0,
         \A i \in job'[e].todo : EpicOf[i] = e /\ Unrecorded(i)',
         pc'[e] = "defer"
  PROVE  InHand(e)'
BY SpecSyncAssumption DEF InHand, OwnItems, OwnCommit, OwnIssue

\* The backlog item that append_spec_issue gives back is about the item in hand
\* and agrees with its record, whether it is new or was there.
LEMMA AppendHand ==
  ASSUME Typed, Typed', NEW e \in Epics, NEW i \in Items,
         NEW kind \in {"spec-change", "spec-proposal"},
         NEW to \in {"filed", "deferred"}, AppendSpecIssue(e, i, kind, to),
         \A k \in DOMAIN issues : IssueIsReal(k), EpicOf[i] = e,
         kind = IF disp[i].commit = 0 THEN "spec-proposal" ELSE "spec-change",
         job[e].commit = disp[i].commit,
         \A x \in job[e].todo : EpicOf[x] = e /\ (to = "deferred" => Unrecorded(x))
  PROVE  InHand(e)'
<1>1. job \in [Epics -> Jobs] /\ job[e] \in Jobs /\ DOMAIN pc = Epics
  BY DEF Typed, TypeOK
<1>2. PICK n : /\ job' = [job EXCEPT ![e].item = i, ![e].issue = n]
               /\ \/ n \in DOMAIN issues /\ IsTwin(n, i, kind) /\ UNCHANGED issues
                  \/ Opens(e, i, kind) /\ n = Len(issues) + 1
  BY DEF AppendSpecIssue, Opens
<1>3. /\ job'[e].todo = job[e].todo /\ job'[e].commit = job[e].commit
      /\ job'[e].item = i /\ job'[e].issue = n
  BY <1>1, <1>2 DEF Jobs
<1>4. pc'[e] = to /\ UNCHANGED <<commits, disp>>
  BY <1>1 DEF AppendSpecIssue, Goto
<1>5. IsRecordOf(n, i)'
  <2>1. CASE n \in DOMAIN issues /\ IsTwin(n, i, kind) /\ UNCHANGED issues
    BY <1>4, <2>1 DEF IsTwin, IsRecordOf, IssueIsReal
  <2>2. CASE Opens(e, i, kind) /\ n = Len(issues) + 1
    <3>1. /\ n \in DOMAIN issues'
          /\ issues'[n] = [item |-> i, kind |-> kind, res |-> "open", ref |-> job[e].commit]
      BY <2>2, Opened
    <3> QED
      BY <1>4, <3>1 DEF IsRecordOf
  <2> QED
    BY <1>2, <2>1, <2>2
<1> QED
  BY <1>3, <1>4, <1>5 DEF InHand, OwnItems, OwnCommit, OwnIssue, Unrecorded

\* What a closure does keeps what it has in hand in order.
LEMMA ClosureHand ==
  ASSUME Typed, Typed', RecordInv, NEW e \in Epics, Closure(e)
  PROVE  InHand(e)'
<1> DEFINE j == job[e]
<1>0. /\ j \in Jobs /\ DOMAIN pc = Epics /\ DOMAIN job = Epics /\ DOMAIN disp = Items
      /\ \A i \in Items : disp[i] \in [commit : Nat, issue : Nat]
      /\ DOMAIN commits = 1..Len(commits) /\ Len(commits) \in Nat
      /\ InHand(e) /\ NoItem \notin Items
      /\ pc[e] \in {"edited", "checked", "landed", "recorded", "propose", "filed", "deferred"}
           => j.item \in Items
  BY SpecSyncAssumption, LenProperties DEF Typed, TypeOK, ItemInHand, RecordInv
<1>1. CASE SyncPlan(e)
  <2>1. job'[e].item = NoItem /\ job'[e].commit = 0 /\ job'[e].todo = Pending(e)
    BY <1>0, <1>1 DEF SyncPlan, NoJob
  <2> QED
    BY <1>0, <1>1, <2>1, NothingInHand DEF SyncPlan, Goto, Pending
<1>2. CASE LeaseAcquire(e)
  BY <1>0, <1>2 DEF LeaseAcquire, Goto, InHand, OwnItems, OwnCommit, OwnIssue, records
<1>3. CASE LeaseGiveUp(e)
  <2>1. j.item = NoItem /\ j.commit = 0
    BY <1>0, <1>3 DEF LeaseGiveUp, InHand, OwnItems, OwnCommit
  <2>2. job'[e].item = NoItem /\ job'[e].commit = 0 /\ job'[e].todo = Pending(e)
    BY <1>0, <1>3, <2>1 DEF LeaseGiveUp, Jobs
  <2> QED
    BY <1>0, <1>3, <2>2, NothingDeferred DEF LeaseGiveUp, Goto, Pending, Unrecorded, records
<1>4. CASE LeaseRelease(e) \/ DeferEnd(e)
  <2>1. pc'[e] = "closed" /\ job' = job /\ j.item = NoItem /\ j.commit = 0
    BY <1>0, <1>4 DEF LeaseRelease, DeferEnd, Goto, InHand, OwnItems, OwnCommit
  <2> QED
    BY <1>0, <2>1, NothingInHand DEF InHand, OwnItems
<1>5. CASE Edit(e) \/ WriteProposal(e)
  <2>1. PICK i : /\ i \in j.todo \/ i = j.item
                 /\ j.item = NoItem \/ i = j.item
                 /\ job' = [job EXCEPT ![e].item = i]
    BY <1>5 DEF Edit, WriteProposal
  <2>2. job'[e].item = i /\ job'[e].commit = j.commit /\ job'[e].todo = j.todo
    BY <1>0, <2>1 DEF Jobs
  <2>3. pc[e] = "work" /\ pc'[e] \in {"edited", "propose"} /\ UNCHANGED <<commits, disp, issues>>
    BY <1>0, <1>5 DEF Edit, WriteProposal, Goto, records
  <2>4. job'[e].item \in Items
    BY <2>3 DEF Typed, ItemInHand
  <2> QED
    BY <1>0, <2>1, <2>2, <2>3, <2>4 DEF InHand, OwnItems, OwnCommit, OwnIssue
<1>6. CASE CommitCheck(e)
  BY <1>0, <1>6
  DEF CommitCheck, Committable, Goto, InHand, OwnItems, OwnCommit, OwnIssue, Unrecorded, records
<1>7. CASE CommitRefuse(e) \/ GitFail(e)
  <2>1. Refused(e) /\ pc[e] \in {"edited", "checked"} /\ UNCHANGED <<commits, disp, issues>>
    BY <1>7 DEF CommitRefuse, GitFail, records
  <2>2. /\ pc'[e] \in {"work", "propose"}
        /\ job'[e].item = j.item /\ job'[e].commit = j.commit /\ job'[e].todo = j.todo
    BY <1>0, <2>1 DEF Refused, Goto, Jobs
  <2> QED
    BY <1>0, <2>1, <2>2 DEF InHand, OwnItems, OwnCommit, OwnIssue
<1>8. CASE GitCommit(e)
  <2>1. /\ pc[e] = "checked" /\ pc'[e] = "landed" /\ UNCHANGED disp
        /\ job'[e].item = j.item /\ job'[e].commit = Len(commits) + 1 /\ job'[e].todo = j.todo
    BY <1>0, <1>8 DEF GitCommit, Goto, Jobs
  <2>2. job'[e].commit \in DOMAIN commits' /\ commits'[job'[e].commit].item = j.item
    BY <1>8, <2>1, Committed
  <2> QED
    BY <1>0, <2>1, <2>2 DEF InHand, OwnItems, OwnCommit, OwnIssue, Unrecorded
<1>9. CASE RecordCommit(e)
  <2>1. /\ pc[e] = "landed" /\ pc'[e] = "recorded" /\ job' = job
        /\ disp'[j.item].commit = j.commit
    BY <1>0, <1>9 DEF RecordCommit, Goto
  <2> QED
    BY <1>0, <2>1 DEF InHand, OwnItems, OwnCommit, OwnIssue
<1>10. CASE CommitIssue(e)
  <2>1. /\ pc[e] = "recorded" /\ AppendSpecIssue(e, j.item, "spec-change", "filed")
        /\ j.commit # 0 /\ disp[j.item].commit = j.commit
        /\ EpicOf[j.item] = e /\ \A x \in j.todo : EpicOf[x] = e
    BY <1>0, <1>10 DEF CommitIssue, InHand, OwnItems, OwnCommit
  <2> QED
    BY <1>0, <2>1, AppendHand DEF RecordInv
<1>11. CASE Propose(e)
  <2>1. /\ pc[e] = "propose" /\ AppendSpecIssue(e, j.item, "spec-proposal", "filed")
        /\ disp[j.item].commit = 0 /\ j.commit = 0
        /\ EpicOf[j.item] = e /\ \A x \in j.todo : EpicOf[x] = e
    BY <1>0, <1>11 DEF Propose, Pending, Unrecorded, InHand, OwnItems, OwnCommit
  <2> QED
    BY <1>0, <2>1, AppendHand DEF RecordInv
<1>12. CASE DeferItem(e)
  <2>1. PICK i \in j.todo : AppendSpecIssue(e, i, "spec-proposal", "deferred")
    BY <1>12 DEF DeferItem
  <2>2. /\ pc[e] = "defer" /\ i \in Items /\ disp[i].commit = 0 /\ j.commit = 0
        /\ EpicOf[i] = e /\ \A x \in j.todo : EpicOf[x] = e /\ Unrecorded(x)
    BY <1>0, <1>12, <2>1 DEF DeferItem, Jobs, InHand, OwnItems, OwnCommit, Unrecorded
  <2> QED
    BY <1>0, <2>1, <2>2, AppendHand DEF RecordInv
<1>13. CASE ProposeRefuse(e)
  <2>1. /\ job'[e].item = NoItem /\ job'[e].commit = 0 /\ job'[e].todo = j.todo \ {j.item}
        /\ pc'[e] = "work"
    BY <1>0, <1>13 DEF ProposeRefuse, NextItem, NoJob, Goto
  <2> QED
    BY <1>0, <2>1, NothingInHand DEF InHand, OwnItems
<1>14. CASE RecordIssue(e)
  <2>1. job'[e].item = NoItem /\ job'[e].commit = 0 /\ job'[e].todo = j.todo \ {j.item}
    BY <1>0, <1>14 DEF RecordIssue, NextItem, NoJob
  <2>2. CASE pc[e] = "filed"
    <3>1. pc'[e] = "work"
      BY <1>0, <1>14, <2>2 DEF RecordIssue, Goto
    <3> QED
      BY <1>0, <2>1, <3>1, NothingInHand DEF InHand, OwnItems
  <2>3. CASE pc[e] = "deferred"
    <3>1. pc'[e] = "defer"
      BY <1>0, <1>14, <2>3 DEF RecordIssue, Goto
    <3>2. \A i \in Items : i # j.item => disp'[i] = disp[i]
      BY <1>0, <1>14 DEF RecordIssue
    <3>3. \A i \in j.todo \ {j.item} : EpicOf[i] = e /\ Unrecorded(i)'
      BY <1>0, <2>3, <3>2 DEF InHand, OwnItems, OwnCommit, Unrecorded, Jobs
    <3> QED
      BY <2>1, <3>1, <3>3, NothingDeferred
  <2> QED
    BY <1>14, <2>2, <2>3 DEF RecordIssue
<1> QED
  BY <1>1, <1>2, <1>3, <1>4, <1>5, <1>6, <1>7, <1>8, <1>9, <1>10, <1>11, <1>12, <1>13, <1>14
  DEF Closure

\* A closure changes the record of nothing but the item in hand, and of that one
\* the commit, when nothing was recorded, or the backlog item.
LEMMA ClosureDisp ==
  ASSUME Typed, RecordInv, NEW e \in Epics, Closure(e)
  PROVE  /\ \A i \in Items : EpicOf[i] # e => disp'[i] = disp[i]
         /\ \A i \in Items : disp[i].commit # 0 => disp'[i].commit = disp[i].commit
         /\ \A i \in Items : Unrecorded(i)' => Unrecorded(i)
         /\ \A i \in Items : RecordIsReal(i)'
<1>0. /\ DOMAIN disp = Items /\ InHand(e) /\ Grown /\ \A i \in Items : RecordIsReal(i)
      /\ \A i \in Items : disp[i] \in [commit : Nat, issue : Nat]
      /\ pc[e] \in {"landed", "filed", "deferred"} => job[e].item \in Items
  BY NextGrows DEF Typed, TypeOK, ItemInHand, RecordInv, Next
<1>1. CASE UNCHANGED disp
  BY <1>0, <1>1, RecordStays DEF Unrecorded
<1>2. CASE RecordCommit(e)
  <2>1. /\ pc[e] = "landed" /\ UNCHANGED <<commits, issues>>
        /\ disp' = [disp EXCEPT ![job[e].item].commit = job[e].commit]
    BY <1>2 DEF RecordCommit
  <2>2. /\ EpicOf[job[e].item] = e /\ disp[job[e].item].commit = 0 /\ disp[job[e].item].issue = 0
        /\ job[e].commit \in DOMAIN commits /\ commits[job[e].commit].item = job[e].item
    BY <1>0, <2>1 DEF InHand, OwnItems, OwnCommit, Unrecorded
  <2>3. /\ \A i \in Items : i # job[e].item => disp'[i] = disp[i]
        /\ disp'[job[e].item].commit = job[e].commit /\ disp'[job[e].item].issue = 0
    BY <1>0, <2>1, <2>2
  <2>4. \A i \in Items : i = job[e].item => RecordIsReal(i)'
    BY <2>1, <2>2, <2>3 DEF RecordIsReal
  <2> QED
    BY <1>0, <2>2, <2>3, <2>4, RecordStays DEF Unrecorded
<1>3. CASE RecordIssue(e)
  <2>1. /\ pc[e] \in {"filed", "deferred"} /\ UNCHANGED <<commits, issues>>
        /\ disp' = [disp EXCEPT ![job[e].item].issue = job[e].issue]
    BY <1>3 DEF RecordIssue
  <2>2. EpicOf[job[e].item] = e /\ IsRecordOf(job[e].issue, job[e].item)
    BY <1>0, <2>1 DEF InHand, OwnItems, OwnIssue
  <2>3. /\ \A i \in Items : i # job[e].item => disp'[i] = disp[i]
        /\ disp'[job[e].item].commit = disp[job[e].item].commit
        /\ disp'[job[e].item].issue = job[e].issue
    BY <1>0, <2>1
  <2>4. \A i \in Items : i = job[e].item => RecordIsReal(i)'
    BY <1>0, <2>1, <2>2, <2>3 DEF RecordIsReal, IsRecordOf
  <2> QED
    <3>1. job[e].issue # 0
      BY <2>2, LenProperties DEF IsRecordOf, Typed, TypeOK
    <3> QED
      BY <1>0, <2>2, <2>3, <2>4, <3>1, RecordStays DEF Unrecorded
<1> QED
  BY <1>1, <1>2, <1>3, ClosureRecords

\* A new backlog item is that of a proposal, or of the commit just recorded.
LEMMA OpenedIsReal ==
  ASSUME Typed, RecordInv, NEW e \in Epics, NEW i \in Items,
         NEW kind \in {"spec-change", "spec-proposal"}, OpensHere(e, i, kind), Closure(e),
         NEW k \in DOMAIN issues', k \notin DOMAIN issues
  PROVE  IssueIsReal(k)'
<1>1. /\ k = Len(issues) + 1
      /\ issues'[k] = [item |-> i, kind |-> kind, res |-> "open", ref |-> job[e].commit]
  <2>1. Opens(e, i, kind)
    BY DEF OpensHere
  <2>2. /\ Len(issues) \in Nat /\ DOMAIN issues = 1..Len(issues)
        /\ DOMAIN issues' = 1..(Len(issues) + 1)
        /\ issues'[Len(issues) + 1] =
             [item |-> i, kind |-> kind, res |-> "open", ref |-> job[e].commit]
    BY <2>1, Opened
  <2> QED
    BY <2>2
<1>2. /\ InHand(e) /\ job[e] \in Jobs /\ NoItem \notin Items
      /\ \A x \in Items : disp[x].commit # 0 => disp'[x].commit = disp[x].commit
      /\ pc[e] \in {"recorded", "propose"} => job[e].item \in Items
  BY ClosureDisp, SpecSyncAssumption DEF RecordInv, Typed, TypeOK, ItemInHand
<1>3. CASE pc[e] = "recorded" /\ i = job[e].item /\ kind = "spec-change"
  BY <1>1, <1>2, <1>3 DEF IssueIsReal, InHand, OwnCommit
<1>4. CASE kind = "spec-proposal" /\ pc[e] = "propose" /\ i = job[e].item /\ i \in Pending(e)
  <2>1. job[e].commit = 0
    BY <1>2, <1>4 DEF InHand, OwnCommit, Pending, Unrecorded
  <2> QED
    BY <1>1, <1>4, <2>1 DEF IssueIsReal
<1>5. CASE kind = "spec-proposal" /\ pc[e] = "defer"
  <2>1. job[e].commit = 0
    BY <1>2, <1>5 DEF InHand, OwnItems, OwnCommit
  <2> QED
    BY <1>1, <1>5, <2>1 DEF IssueIsReal
<1> QED
  BY <1>3, <1>4, <1>5 DEF OpensHere

LEMMA InitRecords ==
  ASSUME Init
  PROVE  RecordInv
BY SpecSyncAssumption
DEF Init, NoJob, RecordInv, InHand, OwnItems, OwnCommit, OwnIssue, RecordIsReal

LEMMA RecordNext ==
  ASSUME Typed, Typed', RecordInv, [Next]_vars
  PROVE  RecordInv'
<1>0. /\ Grown /\ DOMAIN job = Epics /\ DOMAIN pc = Epics
      /\ \A e \in Epics : InHand(e) /\ job[e] \in Jobs
      /\ \A k \in DOMAIN issues : issues[k] \in Issues
  BY NextGrows, ElementOfSeq, LenProperties DEF Typed, TypeOK, RecordInv
<1>1. ASSUME NEW e \in Epics, Closure(e) PROVE RecordInv'
  <2>1. \A x \in Epics : InHand(x)'
    <3>1. SUFFICES ASSUME NEW x \in Epics, x # e PROVE InHand(x)'
      BY <1>1, ClosureHand
    <3>2. pc'[x] = pc[x] /\ job'[x] = job[x] /\ \A i \in Items : EpicOf[i] = x => disp'[i] = disp[i]
      BY <1>1, <3>1, OtherJobs, ClosureDisp
    <3> QED
      BY <1>0, <3>2, HandStays
  <2>2. \A k \in DOMAIN issues : IssueIsReal(k)'
    <3>1. \A k \in DOMAIN issues : IssueIsReal(k) /\ issues[k].item \in Items
      BY <1>0 DEF RecordInv, Issues
    <3>2. \A i \in Items : disp[i].commit # 0 => disp'[i].commit = disp[i].commit
      BY <1>1, ClosureDisp
    <3> QED
      BY <1>0, <3>1, <3>2 DEF Grown, IssueIsReal
  <2>3. ASSUME NEW k \in DOMAIN issues', k \notin DOMAIN issues PROVE IssueIsReal(k)'
    <3>1. issues' # issues
      BY <2>3
    <3>2. PICK i \in Items, kind \in {"spec-change", "spec-proposal"} : OpensHere(e, i, kind)
      BY <1>1, <3>1, ClosureIssues
    <3> QED
      BY <1>1, <2>3, <3>2, OpenedIsReal
  <2>4. \A i \in Items : RecordIsReal(i)'
    BY <1>1, ClosureDisp
  <2>5. \A k \in DOMAIN issues' : IssueIsReal(k)'
    BY <2>2, <2>3
  <2> QED
    BY <2>1, <2>4, <2>5 DEF RecordInv
<1>2. ASSUME UNCHANGED disp, DOMAIN issues' = DOMAIN issues, \A e \in Epics : InHand(e)'
      PROVE  RecordInv'
  <2>1. \A i \in Items : RecordIsReal(i)'
    BY <1>0, <1>2, RecordStays DEF RecordInv
  <2>2. \A k \in DOMAIN issues' : IssueIsReal(k)'
    BY <1>0, <1>2 DEF Grown, RecordInv, IssueIsReal
  <2> QED
    BY <1>2, <2>1, <2>2 DEF RecordInv
<1>3. ASSUME NEW e \in Epics, Crash(e) PROVE RecordInv'
  <2>1. /\ UNCHANGED <<commits, disp, issues>>
        /\ job' = [job EXCEPT ![e] = NoJob] /\ pc' = [pc EXCEPT ![e] = "plan"]
    BY <1>3 DEF Crash, Goto, records
  <2>2. InHand(e)'
    BY <1>0, <2>1, NothingInHand DEF NoJob
  <2>3. \A x \in Epics : x # e => InHand(x)'
    BY <1>0, <2>1, HandStays
  <2> QED
    BY <1>2, <2>1, <2>2, <2>3
<1>4. ASSUME NEW e \in Epics, AppendFail(e) PROVE RecordInv'
  <2>1. /\ UNCHANGED <<commits, disp, issues>>
        /\ \A x \in Epics : x # e => pc'[x] = pc[x] /\ job'[x] = job[x]
    BY <1>0, <1>4 DEF AppendFail, Refused, NextItem, Goto, records
  <2>2. \A x \in Epics : x # e => InHand(x)'
    BY <1>0, <2>1, HandStays
  <2>3. CASE pc[e] = "recorded" /\ Refused(e)
    <3>1. /\ pc'[e] \in {"work", "propose"} /\ job'[e].item = job[e].item
          /\ job'[e].commit = job[e].commit /\ job'[e].todo = job[e].todo
      BY <1>0, <2>3 DEF Refused, Goto, Jobs
    <3>2. InHand(e)'
      BY <1>0, <2>1, <2>3, <3>1 DEF InHand, OwnItems, OwnCommit, OwnIssue
    <3> QED
      BY <1>2, <2>1, <2>2, <3>2
  <2>4. CASE pc[e] = "propose" /\ NextItem(e) /\ Goto(e, "work")
    <3>1. /\ job'[e].item = NoItem /\ job'[e].commit = 0 /\ pc'[e] = "work"
          /\ job'[e].todo = job[e].todo \ {job[e].item}
      BY <1>0, <2>4 DEF NextItem, NoJob, Goto
    <3>2. \A i \in job'[e].todo : EpicOf[i] = e
      BY <1>0, <3>1 DEF InHand, OwnItems
    <3>3. InHand(e)'
      BY <3>1, <3>2, NothingInHand
    <3> QED
      BY <1>2, <2>1, <2>2, <3>3
  <2> QED
    BY <1>4, <2>3, <2>4 DEF AppendFail
<1>5. CASE UNCHANGED <<pc, job, disp>> /\ DOMAIN issues' = DOMAIN issues
  <2>1. \A x \in Epics : InHand(x)'
    BY <1>0, <1>5, HandStays
  <2> QED
    BY <1>2, <1>5, <2>1
<1>6. ASSUME NEW k \in DOMAIN issues, Confirm(k) \/ Reject(k)
      PROVE  UNCHANGED <<pc, job, disp>> /\ DOMAIN issues' = DOMAIN issues
  BY <1>6 DEF Confirm, Reject, records
<1>7. ASSUME RejectResolve \/ RejectFile \/ RejectCrash \/ Tick \/ Finished \/ UNCHANGED vars
      PROVE  UNCHANGED <<pc, job, disp>> /\ DOMAIN issues' = DOMAIN issues
  BY <1>7 DEF RejectResolve, RejectFile, RejectCrash, Tick, Finished, records, vars
<1> QED
  BY <1>1, <1>3, <1>4, <1>5, <1>6, <1>7 DEF Next

\* The dispositions speak the truth: the commit recorded was made for that item,
\* and the backlog item recorded is about it and, next to a commit, about that
\* commit, although the four writes of `commit` are made with no lock over them
\* and a death may come between any two.
THEOREM RecordsStayReal == Spec => []RecordsAreReal
<1>1. Spec => [](Typed /\ RecordInv)
  BY InitTyped, NextTyped, InitRecords, RecordNext, PTL DEF Spec
<1>2. RecordInv => RecordsAreReal
  BY DEF RecordInv, RecordIsReal, IsRecordOf, RecordsAreReal
<1> QED
  BY <1>1, <1>2, PTL

-----------------------------------------------------------------------------
(* What is rejected.                                                        *)

\* An item whose spec change is in the backlog is edited no more: its closure has
\* it in hand at most for the last of the writes of `commit`.
DoneWith(e) ==
  \A k \in DOMAIN issues :
    (issues[k].kind = "spec-change" /\ issues[k].item \in job[e].todo \cup {job[e].item})
      => job[e].item = issues[k].item /\ pc[e] = "filed"

\* Item k of the backlog was rejected, and its commit made the edit.
TakenBack(k) ==
  /\ issues[k].kind = "spec-change"
  /\ issues[k].res = "wontfix" \/ (triage.at = "reverted" /\ triage.key = k)
  /\ issues[k].item \in commits[issues[k].ref].took[SectionOf[issues[k].item]]

\* From the revert on the edit is not in the working tree either.
StaysOut(k) == TakenBack(k) => issues[k].item \notin work[SectionOf[issues[k].item]]

RejectInv == (\A e \in Epics : DoneWith(e)) /\ \A k \in DOMAIN issues : StaysOut(k)

\* What a closure is given is unrecorded, and what is filed it puts away.
JobMoves(e) ==
  \/ job'[e] = job[e] /\ pc'[e] = pc[e]
  \/ /\ pc[e] # "filed"
     /\ \A i \in Items : i \in job'[e].todo \cup {job'[e].item}
                           => Unrecorded(i) \/ i \in job[e].todo \cup {job[e].item}
  \/ job'[e].todo \subseteq job[e].todo \ {job[e].item} /\ job'[e].item = NoItem

LEMMA NextMoves ==
  ASSUME Typed, NEW e \in Epics, [Next]_vars
  PROVE  JobMoves(e)
<1>0. /\ job[e] \in Jobs /\ DOMAIN job = Epics /\ DOMAIN pc = Epics
      /\ \A x \in Epics : job[x] \in Jobs
  BY DEF Typed, TypeOK
<1>1. ASSUME NEW x \in Epics, x # e, Closure(x) \/ Crash(x) \/ AppendFail(x) PROVE JobMoves(e)
  <2>1. CASE Closure(x)
    BY <1>1, <2>1, OtherJobs DEF JobMoves
  <2>2. CASE Crash(x) \/ AppendFail(x)
    BY <1>0, <1>1, <2>2 DEF Crash, AppendFail, Refused, NextItem, Goto, JobMoves
  <2> QED
    BY <1>1, <2>1, <2>2
<1>2. CASE SyncPlan(e) \/ LeaseGiveUp(e)
  <2>1. job'[e].todo = Pending(e) /\ job'[e].item \in {NoItem, job[e].item} /\ pc[e] # "filed"
    BY <1>0, <1>2 DEF SyncPlan, LeaseGiveUp, NoJob, Jobs
  <2> QED
    BY <2>1, SpecSyncAssumption DEF JobMoves, Pending
<1>3. CASE LeaseAcquire(e) \/ LeaseRelease(e) \/ DeferEnd(e) \/ CommitCheck(e) \/ RecordCommit(e)
  <2>1. job'[e] = job[e] /\ pc[e] # "filed"
    BY <1>3 DEF LeaseAcquire, LeaseRelease, DeferEnd, CommitCheck, RecordCommit
  <2> QED
    BY <2>1 DEF JobMoves
<1>4. CASE Edit(e) \/ WriteProposal(e)
  <2>1. PICK i : (i \in job[e].todo \/ i = job[e].item) /\ job' = [job EXCEPT ![e].item = i]
    BY <1>4 DEF Edit, WriteProposal
  <2>2. job'[e].item = i /\ job'[e].todo = job[e].todo /\ pc[e] # "filed"
    BY <1>0, <1>4, <2>1 DEF Jobs, Edit, WriteProposal
  <2> QED
    BY <2>1, <2>2 DEF JobMoves
<1>5. CASE CommitRefuse(e) \/ GitFail(e) \/ (pc[e] = "recorded" /\ Refused(e))
  <2>1. Refused(e) /\ pc[e] # "filed"
    BY <1>5 DEF CommitRefuse, GitFail
  <2>2. job'[e].item = job[e].item /\ job'[e].todo = job[e].todo
    BY <1>0, <2>1 DEF Refused, Jobs
  <2> QED
    BY <2>1, <2>2 DEF JobMoves
<1>6. CASE GitCommit(e)
  <2>1. job'[e].item = job[e].item /\ job'[e].todo = job[e].todo /\ pc[e] # "filed"
    BY <1>0, <1>6 DEF GitCommit, Jobs
  <2> QED
    BY <2>1 DEF JobMoves
<1>7. CASE CommitIssue(e) \/ Propose(e) \/ DeferItem(e)
  <2>1. PICK i, kind, to : /\ AppendSpecIssue(e, i, kind, to)
                           /\ i \in job[e].todo \/ i = job[e].item
                           /\ pc[e] # "filed"
    BY <1>7 DEF CommitIssue, Propose, DeferItem
  <2>2. job'[e].item = i /\ job'[e].todo = job[e].todo
    BY <1>0, <2>1 DEF AppendSpecIssue, Jobs
  <2> QED
    BY <2>1, <2>2 DEF JobMoves
<1>8. CASE NextItem(e)
  <2>1. job'[e].todo = job[e].todo \ {job[e].item} /\ job'[e].item = NoItem
    BY <1>0, <1>8 DEF NextItem, NoJob
  <2> QED
    BY <2>1 DEF JobMoves
<1>9. CASE Crash(e)
  <2>1. job'[e].todo = {} /\ job'[e].item = NoItem
    BY <1>0, <1>9 DEF Crash, NoJob
  <2> QED
    BY <2>1 DEF JobMoves
<1>10. ASSUME NEW x \in Epics, Closure(x) \/ Crash(x) \/ AppendFail(x) PROVE JobMoves(e)
  <2>1. CASE x = e /\ Closure(x)
    BY <2>1, <1>2, <1>3, <1>4, <1>5, <1>6, <1>7, <1>8 DEF Closure, ProposeRefuse, RecordIssue
  <2>2. CASE x = e /\ AppendFail(x)
    BY <2>2, <1>5, <1>8 DEF AppendFail
  <2> QED
    BY <1>1, <1>9, <1>10, <2>1, <2>2
<1>11. CASE UNCHANGED <<pc, job>>
  BY <1>11 DEF JobMoves
<1> QED
  BY <1>10, <1>11
  DEF Next, Confirm, Reject, RejectResolve, RejectFile, RejectCrash, Tick, Finished, vars

LEMMA DoneNext ==
  ASSUME Typed, Typed', RecordInv, RecordInv', [Next]_vars, NEW e \in Epics, DoneWith(e)
  PROVE  DoneWith(e)'
<1>0. /\ Grown /\ JobMoves(e) /\ NoItem \notin Items
      /\ \A k \in DOMAIN issues : issues[k].item \in Items /\ IssueIsReal(k)
  <2>1. Grown /\ JobMoves(e)
    BY NextGrows, NextMoves
  <2>2. \A k \in DOMAIN issues : issues[k] \in Issues
    BY ElementOfSeq, LenProperties DEF Typed, TypeOK
  <2> QED
    BY <2>1, <2>2, SpecSyncAssumption DEF Issues, RecordInv
<1>1. SUFFICES ASSUME NEW k \in DOMAIN issues', issues'[k].kind = "spec-change",
                      issues'[k].item \in job'[e].todo \cup {job'[e].item}
               PROVE  job'[e].item = issues'[k].item /\ pc'[e] = "filed"
  BY DEF DoneWith
<1>2. CASE k \in DOMAIN issues
  <2>1. issues[k].kind = "spec-change" /\ issues'[k].item = issues[k].item
    BY <1>0, <1>1, <1>2 DEF Grown
  <2>2. ~Unrecorded(issues[k].item)
    BY <1>0, <1>2, <2>1 DEF IssueIsReal, Unrecorded
  <2> QED
    BY <1>0, <1>1, <1>2, <2>1, <2>2 DEF JobMoves, DoneWith
<1>3. CASE k \notin DOMAIN issues
  <2>1. PICK x \in Epics, i \in Items, kind \in {"spec-change", "spec-proposal"} :
               Closure(x) /\ OpensHere(x, i, kind)
    BY <1>1, <1>3, NextGrows
  <2>2. issues'[k].item = i /\ issues'[k].kind = kind
    <3>1. Opens(x, i, kind)
      BY <2>1 DEF OpensHere
    <3>2. /\ Len(issues) \in Nat /\ DOMAIN issues = 1..Len(issues)
          /\ DOMAIN issues' = 1..(Len(issues) + 1)
          /\ issues'[Len(issues) + 1] =
               [item |-> i, kind |-> kind, res |-> "open", ref |-> job[x].commit]
      BY <3>1, Opened
    <3>3. k = Len(issues) + 1
      BY <1>1, <1>3, <3>2
    <3> QED
      BY <3>2, <3>3
  <2>3. pc'[x] = "filed" /\ job'[x].item = i
    <3>1. kind = "spec-change"
      BY <1>1, <2>2
    <3> QED
      BY <2>1, <3>1 DEF OpensHere
  <2>4. EpicOf[i] = x /\ EpicOf[i] = e
    BY <1>1, <2>2, <2>3 DEF RecordInv, InHand, OwnItems
  <2> QED
    BY <2>2, <2>3, <2>4
<1> QED
  BY <1>2, <1>3

\* Only an agent that edits one of its items brings an edit into the tree.
LEMMA NewEdits ==
  ASSUME Typed, [Next]_vars, NEW s \in Sections, NEW i \in work'[s], i \notin work[s]
  PROVE  \E e \in Epics : /\ pc[e] = "work" /\ i \in job[e].todo \cup {job[e].item}
                         /\ pc'[e] = "edited" /\ job'[e].item = i
<1>0. work \in Edits /\ \A t \in Sections : head[t] \subseteq work[t]
  BY DEF Typed, TypeOK
<1>1. ASSUME NEW e \in Epics, Edit(e)
      PROVE  /\ pc[e] = "work" /\ i \in job[e].todo \cup {job[e].item}
             /\ pc'[e] = "edited" /\ job'[e].item = i
  <2>1. PICK x \in (IF job[e].item = NoItem THEN job[e].todo ELSE {job[e].item}) :
          /\ job' = [job EXCEPT ![e].item = x]
          /\ \E r \in SameDoc(SectionOf[x]) :
               work' = [t \in Sections |->
                          IF t = r THEN work[t] \cup {x} ELSE work[t] \ ({x} \ head[t])]
    BY <1>1 DEF Edit
  <2>2. x = i
    BY <2>1
  <2>3. job'[e].item = x /\ pc'[e] = "edited" /\ pc[e] = "work"
    BY <1>1, <2>1 DEF Edit, Goto, Typed, TypeOK, Jobs
  <2> QED
    BY <2>1, <2>2, <2>3
<1>2. ASSUME NEW e \in Epics PROVE ~Refused(e)
  BY <1>0, <1>2 DEF Refused, Restored
<1>3. ASSUME NEW k \in DOMAIN issues PROVE ~Reject(k)
  BY <1>0, <1>3 DEF Reject, Reverted, tree
<1>4. CASE UNCHANGED work
  BY <1>4
<1> QED
  BY <1>1, <1>2, <1>3, <1>4
  DEF Next, Closure, SyncPlan, LeaseAcquire, LeaseGiveUp, LeaseRelease, WriteProposal,
      CommitCheck, CommitRefuse, GitCommit, GitFail, RecordCommit, CommitIssue, Propose,
      ProposeRefuse, RecordIssue, DeferItem, DeferEnd, AppendSpecIssue, Crash, AppendFail,
      Confirm, RejectResolve, RejectFile, RejectCrash, Tick, Finished, tree, vars

\* Only the reject that is under way resolves an item wontfix, after its revert.
LEMMA ResolvedByReject ==
  ASSUME Typed, [Next]_vars, NEW k \in DOMAIN issues, issues'[k].res = "wontfix"
  PROVE  issues[k].res = "wontfix" \/ (triage.at = "reverted" /\ triage.key = k)
<1>1. ASSUME NEW e \in Epics, Closure(e), issues' # issues PROVE issues'[k] = issues[k]
  <2>1. PICK i \in Items, kind \in {"spec-change", "spec-proposal"} : Opens(e, i, kind)
    BY <1>1, ClosureIssues DEF OpensHere
  <2> QED
    BY <2>1, Opened
<1>2. ASSUME NEW l \in DOMAIN issues, Confirm(l) PROVE issues'[k] = issues[k]
  <2>1. issues[l] \in Issues /\ issues' = [issues EXCEPT ![l] = [issues[l] EXCEPT !.res = "fixed"]]
    BY <1>2, ElementOfSeq, LenProperties DEF Confirm, Typed, TypeOK
  <2>2. issues'[l].res = "fixed"
    BY <2>1 DEF Issues
  <2> QED
    BY <2>1, <2>2
<1>3. ASSUME RejectResolve
      PROVE  issues'[k] = issues[k] \/ (triage.at = "reverted" /\ triage.key = k)
  BY <1>3 DEF RejectResolve
<1>4. CASE UNCHANGED issues
  BY <1>4
<1> QED
  BY <1>1, <1>2, <1>3, <1>4
  DEF Next, Crash, AppendFail, Reject, RejectFile, RejectCrash, Tick, Finished, records, vars

\* Only a reject reverts.
LEMMA RevertedByReject ==
  ASSUME Typed, [Next]_vars, triage'.at = "reverted", triage' # triage
  PROVE  /\ triage'.key \in DOMAIN issues
         /\ Reject(triage'.key)
<1>1. CASE UNCHANGED triage
  BY <1>1
<1>2. ASSUME NEW k \in DOMAIN issues, Reject(k) PROVE triage'.key = k
  BY <1>2 DEF Reject
<1>3. ASSUME RejectResolve \/ RejectFile \/ RejectCrash PROVE FALSE
  BY <1>3 DEF RejectResolve, RejectFile, RejectCrash, NoTriage, Typed, TypeOK
<1> QED
  BY <1>1, <1>2, <1>3
  DEF Next, Closure, SyncPlan, LeaseAcquire, LeaseGiveUp, LeaseRelease, Edit, WriteProposal,
      CommitCheck, CommitRefuse, GitCommit, GitFail, RecordCommit, CommitIssue, Propose,
      ProposeRefuse, RecordIssue, DeferItem, DeferEnd, AppendSpecIssue, Crash, AppendFail,
      Confirm, Tick, Finished, people, vars

\* An item is taken back by the revert and by nothing later.
LEMMA TakenBackBefore ==
  ASSUME Typed, RecordInv, [Next]_vars, NEW k \in DOMAIN issues', TakenBack(k)'
  PROVE  /\ k \in DOMAIN issues /\ issues'[k].item = issues[k].item
         /\ issues[k].item \in Items
         /\ \/ TakenBack(k)
            \/ issues[k].item \notin work'[SectionOf[issues[k].item]]
<1>0. Grown
  BY NextGrows
<1>1. k \in DOMAIN issues
  <2>1. SUFFICES ASSUME k \notin DOMAIN issues PROVE FALSE
    OBVIOUS
  <2>2. PICK e \in Epics, i \in Items, kind \in {"spec-change", "spec-proposal"} :
               Closure(e) /\ Opens(e, i, kind)
    BY <2>1, NextGrows DEF OpensHere
  <2>3. /\ Len(issues) \in Nat /\ DOMAIN issues = 1..Len(issues)
        /\ DOMAIN issues' = 1..(Len(issues) + 1)
        /\ issues'[Len(issues) + 1] =
             [item |-> i, kind |-> kind, res |-> "open", ref |-> job[e].commit]
    BY <2>2, Opened
  <2>4. k = Len(issues) + 1
    BY <2>1, <2>3
  <2>5. issues'[k].res = "open"
    BY <2>3, <2>4
  <2>6. triage' = triage
    BY <2>2
    DEF Closure, SyncPlan, LeaseAcquire, LeaseGiveUp, LeaseRelease, Edit, WriteProposal,
        CommitCheck, CommitRefuse, GitCommit, GitFail, RecordCommit, CommitIssue, Propose,
        ProposeRefuse, RecordIssue, DeferItem, DeferEnd, AppendSpecIssue, people
  <2> QED
    BY <2>1, <2>5, <2>6 DEF TakenBack, Typed, KeyInHand
<1> DEFINE i == issues[k].item
           c == issues[k].ref
<1>2. issues[k] \in Issues
  BY <1>1, ElementOfSeq, LenProperties DEF Typed, TypeOK
<1>3. issues'[k].item = i /\ issues'[k].ref = c /\ issues[k].kind = "spec-change" /\ i \in Items
  BY <1>0, <1>1, <1>2 DEF Grown, TakenBack, Issues
<1>4. c \in DOMAIN commits /\ commits[c].item = i /\ commits'[c] = commits[c]
  BY <1>0, <1>1, <1>3 DEF RecordInv, IssueIsReal, RecordIsReal, Grown
<1>5. i \in commits[c].took[SectionOf[i]]
  BY <1>3, <1>4 DEF TakenBack
<1>6. CASE issues[k].res = "wontfix" \/ (triage.at = "reverted" /\ triage.key = k)
  BY <1>1, <1>3, <1>5, <1>6 DEF TakenBack
<1>7. CASE issues[k].res # "wontfix" /\ ~(triage.at = "reverted" /\ triage.key = k)
  <2>1. issues'[k].res # "wontfix"
    BY <1>1, <1>7, ResolvedByReject
  <2>2. Reject(k)
    BY <1>7, <2>1, RevertedByReject DEF TakenBack
  <2>3. work' = Reverted(work, c) /\ SectionOf[i] \in SameDoc(SectionOf[commits[c].item])
    BY <1>3, <1>4, <2>2, SpecSyncAssumption DEF Reject, SameDoc
  <2> QED
    BY <1>1, <1>3, <1>5, <2>3, SpecSyncAssumption DEF Reverted
<1> QED
  BY <1>1, <1>3, <1>6, <1>7

LEMMA StaysOutNext ==
  ASSUME Typed, RecordInv, RejectInv, [Next]_vars, NEW k \in DOMAIN issues'
  PROVE  StaysOut(k)'
<1>1. SUFFICES ASSUME TakenBack(k)', issues'[k].item \in work'[SectionOf[issues'[k].item]]
               PROVE  FALSE
  BY DEF StaysOut
<1> DEFINE i == issues[k].item
           s == SectionOf[i]
<1>2. /\ k \in DOMAIN issues /\ issues'[k].item = i /\ i \in Items
      /\ TakenBack(k) \/ i \notin work'[s]
  BY <1>1, TakenBackBefore
<1>3. TakenBack(k) /\ i \in work'[s] /\ s \in Sections
  BY <1>1, <1>2, SpecSyncAssumption
<1>4. i \notin work[s]
  BY <1>2, <1>3 DEF RejectInv, StaysOut
<1>5. PICK e \in Epics : pc[e] = "work" /\ i \in job[e].todo \cup {job[e].item}
  BY <1>3, <1>4, NewEdits
<1>6. pc[e] = "filed"
  BY <1>2, <1>3, <1>5 DEF RejectInv, DoneWith, TakenBack
<1> QED
  BY <1>5, <1>6

\* What a person rejects stays out: once the item of a spec change is resolved
\* wontfix, its edit is not at HEAD, and no closure that runs again brings it back,
\* for the record of the commit keeps the item from being given to one.
THEOREM RejectedEditsStayOut == Spec => []RejectedStaysOut
<1>1. Init => RejectInv
  BY DEF Init, RejectInv, DoneWith
<1>2. Typed /\ Typed' /\ RecordInv /\ RecordInv' /\ RejectInv /\ [Next]_vars => RejectInv'
  <2>1. SUFFICES ASSUME Typed, Typed', RecordInv, RecordInv', RejectInv, [Next]_vars
                 PROVE  RejectInv'
    OBVIOUS
  <2>2. \A e \in Epics : DoneWith(e)'
    BY <2>1, DoneNext DEF RejectInv
  <2>3. \A k \in DOMAIN issues' : StaysOut(k)'
    BY <2>1, StaysOutNext
  <2> QED
    BY <2>2, <2>3 DEF RejectInv
<1>3. Spec => [](Typed /\ RecordInv)
  BY InitTyped, NextTyped, InitRecords, RecordNext, PTL DEF Spec
<1>4. Spec => [](Typed /\ RecordInv /\ RejectInv)
  BY <1>1, <1>2, <1>3, PTL DEF Spec
<1>5. Typed /\ RejectInv => RejectedStaysOut
  <2>1. SUFFICES ASSUME Typed, RejectInv, NEW k \in DOMAIN issues, issues[k].kind = "spec-change",
                        issues[k].res = "wontfix",
                        issues[k].item \in commits[issues[k].ref].took[SectionOf[issues[k].item]]
                 PROVE  issues[k].item \notin head[SectionOf[issues[k].item]]
    BY DEF RejectedStaysOut
  <2>2. issues[k] \in Issues
    BY <2>1, ElementOfSeq, LenProperties DEF Typed, TypeOK
  <2>3. head[SectionOf[issues[k].item]] \subseteq work[SectionOf[issues[k].item]]
    BY <2>1, <2>2, SpecSyncAssumption DEF Issues, Typed, TypeOK
  <2> QED
    BY <2>1, <2>3 DEF RejectInv, StaysOut, TakenBack
<1> QED
  BY <1>4, <1>5, PTL

-----------------------------------------------------------------------------
(* Nothing is left unfiled.                                                 *)

HasIssue(i) == \E k \in DOMAIN issues : issues[k].item = i
Filed(c) == \E k \in DOMAIN issues : issues[k].kind = "spec-change" /\ issues[k].ref = c

\* A commit has its backlog item, or a mishap lost it, or it is in hand.
CommitSeen(c) ==
  LET i == commits[c].item IN
  \/ Filed(c)
  \/ i \in cut
  \/ job[EpicOf[i]].commit = c /\ pc[EpicOf[i]] \in {"landed", "recorded"}

\* A link that is written, and not recorded, is in the hands of its agent, and
\* once it is committed that agent is about to record it.
LinkSeen(i) ==
  (TypeOf[i] = "adr-link" /\ Unrecorded(i)) =>
    /\ i \in work[SectionOf[i]] => /\ job[EpicOf[i]].item = i
                                   /\ pc[EpicOf[i]] \in {"work", "edited", "checked", "landed"}
    /\ i \in head[SectionOf[i]] => pc[EpicOf[i]] = "landed"

\* Once a closure has its plan, an item is in the backlog or still to do.
ItemSeen(i) ==
  /\ pc[EpicOf[i]] # "plan" => HasIssue(i) \/ i \in job[EpicOf[i]].todo
  /\ pc[EpicOf[i]] = "closed" => job[EpicOf[i]].todo = {}

FiledInv ==
  /\ \A c \in DOMAIN commits : CommitSeen(c)
  /\ \A i \in Items \ cut : LinkSeen(i) /\ ItemSeen(i)

\* The commit in hand is one of the item in hand.
LEMMA CommitInHand ==
  ASSUME Typed, RecordInv, NEW e \in Epics, pc[e] \in {"landed", "recorded"}
  PROVE  /\ job[e].item \in Items /\ EpicOf[job[e].item] = e
         /\ job[e].commit \in DOMAIN commits /\ job[e].commit # 0
         /\ commits[job[e].commit].item = job[e].item
<1>1. InHand(e) /\ job[e].item \in Items /\ 0 \notin DOMAIN commits
  BY LenProperties DEF RecordInv, Typed, TypeOK, ItemInHand
<1> QED
  BY <1>1 DEF InHand, OwnItems, OwnCommit, RecordInv, RecordIsReal

\* What sync-plan does not list any more is in the backlog, but for mishaps.
LEMMA NotPending ==
  ASSUME Typed, RecordInv, FiledInv, NEW i \in Items \ cut, i \notin Pending(EpicOf[i]),
         pc[EpicOf[i]] \in {"plan", "lease", "propose"}
  PROVE  HasIssue(i)
<1>0. RecordIsReal(i) /\ LinkSeen(i)
  BY DEF RecordInv, FiledInv
<1>1. CASE disp[i].issue # 0
  BY <1>0, <1>1 DEF RecordIsReal, IsRecordOf, HasIssue
<1>2. CASE disp[i].commit # 0
  <2> DEFINE c == disp[i].commit
  <2>1. c \in DOMAIN commits /\ commits[c].item = i
    BY <1>0, <1>2 DEF RecordIsReal
  <2>2. Filed(c)
    BY <2>1 DEF FiledInv, CommitSeen
  <2>3. PICK k \in DOMAIN issues : issues[k].kind = "spec-change" /\ issues[k].ref = c
    BY <2>2 DEF Filed
  <2>4. issues[k].item \in Items /\ disp[issues[k].item].commit = c
    <3>1. issues[k] \in Issues
      BY ElementOfSeq, LenProperties DEF Typed, TypeOK
    <3> QED
      BY <2>3, <3>1 DEF RecordInv, IssueIsReal, Issues
  <2>5. commits[c].item = issues[k].item
    BY <1>2, <2>4 DEF RecordInv, RecordIsReal
  <2> QED
    BY <2>1, <2>5 DEF HasIssue
<1>3. CASE Unrecorded(i)
  <2>1. TypeOf[i] = "adr-link" /\ i \in work[SectionOf[i]]
    BY <1>3 DEF Pending
  <2> QED
    BY <1>0, <1>3, <2>1 DEF LinkSeen
<1> QED
  BY <1>1, <1>2, <1>3 DEF Unrecorded

LEMMA BacklogGrows ==
  ASSUME Grown
  PROVE  /\ \A i : HasIssue(i) => HasIssue(i)'
         /\ \A c : Filed(c) => Filed(c)'
BY DEF Grown, HasIssue, Filed

\* Mishaps are not forgotten.
LEMMA CutGrows ==
  ASSUME [Next]_vars
  PROVE  cut \subseteq cut'
BY DEF Next, Closure, SyncPlan, LeaseAcquire, LeaseGiveUp, LeaseRelease, Edit, WriteProposal,
      CommitCheck, CommitRefuse, GitCommit, GitFail, RecordCommit, CommitIssue, Propose,
      ProposeRefuse, RecordIssue, DeferItem, DeferEnd, AppendSpecIssue, Crash, AppendFail,
      Strike, Confirm, Reject, RejectResolve, RejectFile, RejectCrash, Tick, Finished, past, vars

\* Only its own closure, or its mishap, moves the job of an epic.
LEMMA WhoMoves ==
  ASSUME Typed, NEW e \in Epics, [Next]_vars
  PROVE  \/ job'[e] = job[e] /\ pc'[e] = pc[e]
         \/ Closure(e) \/ Crash(e) \/ AppendFail(e)
<1>1. ASSUME NEW x \in Epics, x # e, Closure(x) PROVE job'[e] = job[e] /\ pc'[e] = pc[e]
  BY <1>1, OtherJobs
<1>2. ASSUME NEW x \in Epics, x # e, Crash(x) \/ AppendFail(x)
      PROVE  job'[e] = job[e] /\ pc'[e] = pc[e]
  BY <1>2 DEF Crash, AppendFail, Refused, NextItem, Goto, Typed, TypeOK
<1> QED
  BY <1>1, <1>2
  DEF Next, Confirm, Reject, RejectResolve, RejectFile, RejectCrash, Tick, Finished, vars

LEMMA CommitNext ==
  ASSUME Typed, Typed', RecordInv, RecordInv', FiledInv, [Next]_vars, NEW c \in DOMAIN commits'
  PROVE  CommitSeen(c)'
<1>0. Grown /\ cut \subseteq cut' /\ \A d : Filed(d) => Filed(d)'
  BY NextGrows, CutGrows, BacklogGrows
<1>1. CASE c \in DOMAIN commits
  <2>0. PICK i \in Items, e \in Epics : i = commits[c].item /\ e = EpicOf[i]
    <3>1. commits[c] \in Commits
      BY <1>1, ElementOfSeq, LenProperties DEF Typed, TypeOK
    <3> QED
      BY <3>1, SpecSyncAssumption DEF Commits
  <2>1. commits'[c].item = i /\ CommitSeen(c)
    BY <1>0, <1>1, <2>0 DEF Grown, FiledInv
  <2>2. CASE Filed(c) \/ i \in cut
    BY <1>0, <2>0, <2>1, <2>2 DEF CommitSeen
  <2>3. ASSUME job[e].commit = c, pc[e] \in {"landed", "recorded"} PROVE CommitSeen(c)'
    <3>0. i = job[e].item /\ c # 0
      BY <2>0, <2>3, CommitInHand
    <3>1. CASE job'[e] = job[e] /\ pc'[e] = pc[e]
      BY <2>0, <2>1, <2>3, <3>1 DEF CommitSeen
    <3>2. CASE RecordCommit(e)
      <4>1. job' = job /\ pc'[e] = "recorded"
        BY <3>0, <3>2 DEF RecordCommit, Goto, Typed, TypeOK
      <4> QED
        BY <2>0, <2>1, <2>3, <4>1 DEF CommitSeen
    <3>3. CASE CommitIssue(e)
      <4>0. job[e] \in Jobs /\ DOMAIN job = Epics /\ DOMAIN pc = Epics
        BY DEF Typed, TypeOK
      <4>1. pc[e] = "recorded" /\ pc'[e] = "filed" /\ job'[e].item = i /\ UNCHANGED disp
        BY <3>0, <3>3, <4>0 DEF CommitIssue, AppendSpecIssue, Goto, Jobs
      <4>2. disp[i].commit = c
        BY <2>3, <3>0, <4>1 DEF RecordInv, InHand, OwnCommit
      <4>3. IsRecordOf(job[e].issue, job[e].item)'
        BY <4>1 DEF RecordInv, InHand, OwnIssue
      <4>4. Filed(c)'
        BY <3>0, <4>1, <4>2, <4>3 DEF IsRecordOf, Filed
      <4> QED
        BY <4>4 DEF CommitSeen
    <3>4. CASE Crash(e) \/ AppendFail(e)
      <4>1. i \in cut'
        BY <2>3, <3>0, <3>4 DEF Crash, AppendFail, Strike, Lost
      <4> QED
        BY <2>0, <2>1, <4>1 DEF CommitSeen
    <3>5. Closure(e) => RecordCommit(e) \/ CommitIssue(e)
      BY <2>3
      DEF Closure, SyncPlan, LeaseAcquire, LeaseGiveUp, LeaseRelease, Edit, WriteProposal,
          CommitCheck, CommitRefuse, GitCommit, GitFail, Propose, ProposeRefuse, RecordIssue,
          DeferItem, DeferEnd
    <3> QED
      BY <3>0, <3>1, <3>2, <3>3, <3>4, <3>5, WhoMoves
  <2> QED
    BY <2>0, <2>1, <2>2, <2>3 DEF CommitSeen
<1>2. CASE c \notin DOMAIN commits
  <2>1. PICK e \in Epics : GitCommit(e)
    BY <1>2, ClosureCommits
    DEF Next, Crash, AppendFail, Confirm, Reject, RejectResolve, RejectFile, RejectCrash, Tick,
        Finished, records, vars
  <2>2. c = Len(commits) + 1
    BY <1>2, <2>1, Committed
  <2>3. /\ job'[e].commit = c /\ pc'[e] = "landed"
    BY <2>1, <2>2 DEF GitCommit, Goto, Typed, TypeOK, Jobs
  <2>4. EpicOf[commits'[c].item] = e
    BY <2>3, CommitInHand DEF RecordInv, InHand, OwnItems, OwnCommit, Typed, ItemInHand
  <2> QED
    BY <2>3, <2>4 DEF CommitSeen
<1> QED
  BY <1>1, <1>2

LEMMA ItemNext ==
  ASSUME Typed, Typed', RecordInv, FiledInv, [Next]_vars, NEW i \in Items \ cut'
  PROVE  ItemSeen(i)'
<1>0. PICK e \in Epics : e = EpicOf[i]
  BY SpecSyncAssumption
<1>1. /\ i \in Items \ cut /\ ItemSeen(i) /\ (HasIssue(i) => HasIssue(i)')
      /\ DOMAIN pc = Epics /\ DOMAIN job = Epics /\ job[e] \in Jobs
  BY NextGrows, CutGrows, BacklogGrows DEF FiledInv, Typed, TypeOK
<1>2. CASE job'[e] = job[e] /\ pc'[e] = pc[e]
  BY <1>0, <1>1, <1>2 DEF ItemSeen
<1>3. CASE SyncPlan(e) \/ LeaseGiveUp(e)
  <2>1. /\ job'[e].todo = Pending(e) /\ pc[e] \in {"plan", "lease"}
        /\ pc'[e] = "closed" => Pending(e) = {}
    BY <1>1, <1>3 DEF SyncPlan, LeaseGiveUp, NoJob, Goto, Jobs
  <2>2. i \in Pending(e) \/ HasIssue(i)
    BY <1>0, <1>1, <2>1, NotPending
  <2> QED
    BY <1>0, <1>1, <2>1, <2>2 DEF ItemSeen
<1>4. ASSUME job'[e].todo = job[e].todo, pc[e] # "plan",
             pc'[e] # "closed" \/ job[e].todo = {}
      PROVE  ItemSeen(i)'
  BY <1>0, <1>1, <1>4 DEF ItemSeen
<1>5. CASE LeaseRelease(e) \/ DeferEnd(e) \/ LeaseAcquire(e) \/ CommitCheck(e) \/ RecordCommit(e)
  BY <1>1, <1>4, <1>5 DEF LeaseRelease, DeferEnd, LeaseAcquire, CommitCheck, RecordCommit, Goto
<1>6. CASE Edit(e) \/ WriteProposal(e)
  <2>1. PICK x : job' = [job EXCEPT ![e].item = x]
    BY <1>6 DEF Edit, WriteProposal
  <2>2. job'[e].todo = job[e].todo /\ pc[e] = "work" /\ pc'[e] \in {"edited", "propose"}
    BY <1>1, <1>6, <2>1 DEF Edit, WriteProposal, Goto, Jobs
  <2> QED
    BY <1>4, <2>2
<1>7. CASE CommitRefuse(e) \/ GitFail(e) \/ (pc[e] = "recorded" /\ Refused(e))
  <2>1. Refused(e) /\ pc[e] \in {"edited", "checked", "recorded"}
    BY <1>7 DEF CommitRefuse, GitFail
  <2>2. job'[e].todo = job[e].todo /\ pc'[e] \in {"work", "propose"}
    BY <1>1, <2>1 DEF Refused, Goto, Jobs
  <2> QED
    BY <1>4, <2>1, <2>2
<1>8. CASE GitCommit(e)
  <2>1. job'[e].todo = job[e].todo /\ pc[e] = "checked" /\ pc'[e] = "landed"
    BY <1>1, <1>8 DEF GitCommit, Goto, Jobs
  <2> QED
    BY <1>4, <2>1
<1>9. CASE CommitIssue(e) \/ Propose(e) \/ DeferItem(e)
  <2>1. PICK x, kind, to : /\ AppendSpecIssue(e, x, kind, to) /\ to # "closed"
                           /\ pc[e] \in {"recorded", "propose", "defer"}
    BY <1>9 DEF CommitIssue, Propose, DeferItem
  <2>2. job'[e].todo = job[e].todo /\ pc'[e] = to
    BY <1>1, <2>1 DEF AppendSpecIssue, Goto, Jobs
  <2> QED
    BY <1>4, <2>1, <2>2
<1>10. ASSUME NextItem(e), pc[e] # "plan", pc'[e] # "closed",
              i = job[e].item => HasIssue(i)
       PROVE  ItemSeen(i)'
  <2>1. job'[e].todo = job[e].todo \ {job[e].item}
    BY <1>1, <1>10 DEF NextItem, NoJob
  <2> QED
    BY <1>0, <1>1, <1>10, <2>1 DEF ItemSeen
<1>11. CASE ProposeRefuse(e)
  <2>1. i = job[e].item => HasIssue(i)
    BY <1>0, <1>1, <1>11, NotPending DEF ProposeRefuse
  <2> QED
    BY <1>1, <1>10, <1>11, <2>1 DEF ProposeRefuse, Goto
<1>12. CASE RecordIssue(e)
  <2>1. i = job[e].item => HasIssue(i)
    BY <1>12 DEF RecordIssue, RecordInv, InHand, OwnIssue, IsRecordOf, HasIssue
  <2> QED
    BY <1>1, <1>10, <1>12, <2>1 DEF RecordIssue, Goto
<1>13. CASE pc[e] = "propose" /\ AppendFail(e)
  <2>1. i # job[e].item
    BY <1>13 DEF AppendFail, Strike
  <2> QED
    BY <1>1, <1>10, <1>13, <2>1 DEF AppendFail, Goto
<1>14. CASE Crash(e)
  BY <1>0, <1>1, <1>14 DEF Crash, Goto, ItemSeen
<1>15. CASE Closure(e)
  BY <1>15, <1>3, <1>5, <1>6, <1>7, <1>8, <1>9, <1>11, <1>12 DEF Closure
<1> QED
  BY <1>2, <1>7, <1>13, <1>14, <1>15, WhoMoves DEF AppendFail

\* What is new at HEAD was in the working tree, and git has just committed it.
LEMMA NewAtHead ==
  ASSUME Typed, [Next]_vars, NEW s \in Sections, NEW i \in head'[s], i \notin head[s]
  PROVE  i \in work[s] /\ \E e \in Epics : GitCommit(e)
<1>1. ASSUME NEW e \in Epics, GitCommit(e) PROVE i \in work[s]
  BY <1>1 DEF GitCommit
<1>2. ASSUME NEW k \in DOMAIN issues PROVE ~Reject(k)
  BY <1>2 DEF Reject, Reverted, tree
<1>3. CASE UNCHANGED head
  BY <1>3
<1> QED
  BY <1>1, <1>2, <1>3
  DEF Next, Closure, SyncPlan, LeaseAcquire, LeaseGiveUp, LeaseRelease, Edit, WriteProposal,
      CommitCheck, CommitRefuse, GitFail, RecordCommit, CommitIssue, Propose, ProposeRefuse,
      RecordIssue, DeferItem, DeferEnd, AppendSpecIssue, Crash, AppendFail, Confirm,
      RejectResolve, RejectFile, RejectCrash, Tick, Finished, tree, vars

\* An item without a record had none before.
LEMMA UnrecordedBefore ==
  ASSUME Typed, RecordInv, [Next]_vars, NEW i \in Items, Unrecorded(i)'
  PROVE  Unrecorded(i)
<1>1. ASSUME NEW e \in Epics, Closure(e) PROVE Unrecorded(i)
  BY <1>1, ClosureDisp
<1>2. CASE UNCHANGED disp
  BY <1>2 DEF Unrecorded
<1> QED
  BY <1>1, <1>2
  DEF Next, Crash, AppendFail, Confirm, Reject, RejectResolve, RejectFile, RejectCrash, Tick,
      Finished, records, vars

\* An agent with a written link in hand keeps it in hand until it is recorded.
LEMMA LinkInHand ==
  ASSUME Typed, RecordInv, FiledInv, [Next]_vars,
         NEW e \in Epics, NEW i \in Items \ cut', EpicOf[i] = e,
         TypeOf[i] = "adr-link", Unrecorded(i), Unrecorded(i)',
         i \in work[SectionOf[i]], i \in work'[SectionOf[i]]
  PROVE  /\ job'[e].item = i /\ pc'[e] \in {"work", "edited", "checked", "landed"}
         /\ pc[e] = "landed" => pc'[e] = "landed"
<1>0. /\ job[e].item = i /\ pc[e] \in {"work", "edited", "checked", "landed"}
      /\ i \in head[SectionOf[i]] => pc[e] = "landed"
      /\ job[e] \in Jobs /\ DOMAIN job = Epics /\ DOMAIN pc = Epics /\ i # NoItem
      /\ SectionOf[i] \in Sections /\ DOMAIN disp = Items
      /\ disp[i] \in [commit : Nat, issue : Nat]
  <2>1. i \in Items \ cut
    BY CutGrows
  <2> QED
    BY <2>1, SpecSyncAssumption DEF FiledInv, LinkSeen, Typed, TypeOK
<1>1. CASE job'[e] = job[e] /\ pc'[e] = pc[e]
  BY <1>0, <1>1
<1>2. CASE Crash(e) \/ AppendFail(e)
  BY <1>0, <1>2 DEF Crash, AppendFail, Strike, Lost
<1>3. CASE Edit(e)
  BY <1>0, <1>3 DEF Edit, Goto, Jobs
<1>4. CASE CommitCheck(e)
  BY <1>0, <1>4 DEF CommitCheck, Goto
<1>5. CASE CommitRefuse(e) \/ GitFail(e)
  <2>1. Refused(e) /\ pc[e] \in {"edited", "checked"}
    BY <1>5 DEF CommitRefuse, GitFail
  <2>2. MayRetry(e)
    <3>1. SUFFICES ASSUME work' = Restored(i) PROVE FALSE
      BY <1>0, <2>1 DEF Refused
    <3>2. i \in head[SectionOf[i]]
      BY <1>0, <3>1 DEF Restored, SameDoc
    <3> QED
      BY <1>0, <2>1, <3>2
  <2> QED
    BY <1>0, <2>1, <2>2 DEF Refused, Goto, Jobs
<1>6. CASE GitCommit(e)
  BY <1>0, <1>6 DEF GitCommit, Goto, Jobs
<1>7. CASE RecordCommit(e)
  <2>1. disp'[i].commit = job[e].commit /\ job[e].commit # 0
    BY <1>0, <1>7, CommitInHand DEF RecordCommit
  <2> QED
    BY <2>1 DEF Unrecorded
<1>8. Closure(e) => Edit(e) \/ CommitCheck(e) \/ CommitRefuse(e) \/ GitFail(e) \/ GitCommit(e)
                      \/ RecordCommit(e)
  BY <1>0
  DEF Closure, SyncPlan, LeaseAcquire, LeaseGiveUp, LeaseRelease, WriteProposal, CommitIssue,
      Propose, ProposeRefuse, RecordIssue, DeferItem, DeferEnd
<1> QED
  BY <1>1, <1>2, <1>3, <1>4, <1>5, <1>6, <1>7, <1>8, WhoMoves

LEMMA LinkNext ==
  ASSUME Typed, Typed', LeaseHeld, RecordInv, RecordInv', FiledInv, [Next]_vars,
         NEW i \in Items \ cut'
  PROVE  LinkSeen(i)'
<1>0. PICK e \in Epics : e = EpicOf[i]
  BY SpecSyncAssumption
<1>1. SUFFICES ASSUME TypeOf[i] = "adr-link", Unrecorded(i)'
               PROVE  /\ i \in work'[SectionOf[i]] =>
                           job'[e].item = i /\ pc'[e] \in {"work", "edited", "checked", "landed"}
                      /\ i \in head'[SectionOf[i]] => pc'[e] = "landed"
  BY <1>0 DEF LinkSeen
<1>2. /\ Unrecorded(i) /\ i \in Items \ cut /\ SectionOf[i] \in Sections
      /\ head[SectionOf[i]] \subseteq work[SectionOf[i]]
      /\ head'[SectionOf[i]] \subseteq work'[SectionOf[i]]
  BY <1>1, UnrecordedBefore, CutGrows, SpecSyncAssumption DEF Typed, TypeOK
<1>3. /\ i \in work[SectionOf[i]] =>
           job[e].item = i /\ pc[e] \in {"work", "edited", "checked", "landed"}
      /\ i \in head[SectionOf[i]] => pc[e] = "landed"
  BY <1>0, <1>1, <1>2 DEF FiledInv, LinkSeen
<1>4. ASSUME i \in work'[SectionOf[i]], i \notin work[SectionOf[i]]
      PROVE  job'[e].item = i /\ pc'[e] = "edited" /\ pc[e] = "work"
  <2>1. PICK x \in Epics : pc[x] = "work" /\ pc'[x] = "edited" /\ job'[x].item = i
    BY <1>2, <1>4, NewEdits
  <2>2. EpicOf[i] = x
    BY <2>1 DEF RecordInv, InHand, OwnItems
  <2> QED
    BY <1>0, <2>1, <2>2
<1>5. ASSUME i \in work'[SectionOf[i]], i \in work[SectionOf[i]]
      PROVE  /\ job'[e].item = i /\ pc'[e] \in {"work", "edited", "checked", "landed"}
             /\ pc[e] = "landed" => pc'[e] = "landed"
  BY <1>0, <1>1, <1>2, <1>5, LinkInHand
<1>6. ASSUME i \in head'[SectionOf[i]] PROVE pc'[e] = "landed"
  <2>1. CASE i \in head[SectionOf[i]]
    BY <1>2, <1>3, <1>5, <1>6, <2>1
  <2>2. CASE i \notin head[SectionOf[i]]
    <3>1. i \in work[SectionOf[i]] /\ \E x \in Epics : GitCommit(x)
      BY <1>2, <1>6, <2>2, NewAtHead
    <3>2. PICK x \in Epics : GitCommit(x)
      BY <3>1
    <3>3. x = e
      BY <1>3, <3>1, <3>2 DEF LeaseHeld, AtWork, GitCommit
    <3> QED
      BY <3>2, <3>3 DEF GitCommit, Goto, Typed, TypeOK
  <2> QED
    BY <2>1, <2>2
<1> QED
  BY <1>4, <1>5, <1>6

\* Nothing is forgotten but by a mishap: a docs(spec) commit has its spec-change
\* item, and a closure that is over has a backlog item for everything it was to
\* do, unless a death or a failed append came between a commit and its item, or
\* took a closure with a link half written.
THEOREM NothingStaysUnfiled == Spec => []NothingUnfiled
<1>1. Init => FiledInv
  <2>1. SUFFICES ASSUME Init PROVE FiledInv
    OBVIOUS
  <2>2. \A i \in Items : EpicOf[i] \in Epics /\ SectionOf[i] \in Sections
    BY SpecSyncAssumption
  <2>3. \A i \in Items : LinkSeen(i) /\ ItemSeen(i)
    BY <2>1, <2>2 DEF Init, LinkSeen, ItemSeen
  <2>4. \A c \in DOMAIN commits : CommitSeen(c)
    BY <2>1 DEF Init
  <2> QED
    BY <2>3, <2>4 DEF FiledInv
<1>2. Typed /\ Typed' /\ LeaseHeld /\ RecordInv /\ RecordInv' /\ FiledInv /\ [Next]_vars => FiledInv'
  BY CommitNext, LinkNext, ItemNext DEF FiledInv
<1>3. Init => LeaseHeld
  BY DEF Init, LeaseHeld, AtWork
<1>4. Spec => [](Typed /\ LeaseHeld /\ RecordInv)
  BY <1>3, InitTyped, NextTyped, LeaseStep, InitRecords, RecordNext, PTL DEF Spec
<1>5. Spec => [](RecordInv /\ FiledInv)
  BY <1>1, <1>2, <1>4, PTL DEF Spec
<1>6. FiledInv => NothingUnfiled
  <2>1. SUFFICES ASSUME FiledInv PROVE NothingUnfiled
    OBVIOUS
  <2>2. \A c \in DOMAIN commits : CommitSeen(c)
    BY <2>1 DEF FiledInv
  <2>3. ASSUME NEW i \in Items \ cut, pc[EpicOf[i]] = "closed"
        PROVE  \E k \in DOMAIN issues : issues[k].item = i
    BY <2>1, <2>3 DEF FiledInv, ItemSeen, HasIssue
  <2> QED
    BY <2>2, <2>3 DEF NothingUnfiled, CommitSeen, Filed
<1> QED
  BY <1>5, <1>6, PTL
=============================================================================
