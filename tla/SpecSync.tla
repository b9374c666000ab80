------------------------------ MODULE SpecSync ------------------------------
(***************************************************************************)
(* The spec sync of epic closures, and the triage of what it did.          *)
(*                                                                         *)
(* Closures of several epics run at once in one working tree.  Each asks   *)
(* spec-align which of its findings and ADR links still need a spec edit   *)
(* (sync-plan), waits for a lease, and then for every item edits a section *)
(* and runs `commit`, or writes a proposal and runs `propose`.  A closure  *)
(* that does not get the lease turns its items into proposals (`--defer`). *)
(* `commit` checks the lease, the item and the diff, makes a git commit,   *)
(* records it in the dispositions, appends a backlog item and records that *)
(* one: four writes with no lock over them.  People confirm or reject the  *)
(* backlog items while closures run.                                       *)
(*                                                                         *)
(* An edit is the name of the item it was made for; a section is the set   *)
(* of the edits in it.                                                     *)
(***************************************************************************)
EXTENDS Naturals, Sequences, FiniteSets

CONSTANTS
  Epics,      \* the epics that close
  Items,      \* drift findings and ADRs that ask for a spec edit
  EpicOf,     \* per item: its epic
  TypeOf,     \* per item: spec-updated, spec-proposal or adr-link
  SectionOf,  \* per item: the section its pointer names
  Sections,
  DocOf,      \* per section: the spec file it is in
  Ttl,        \* minutes a lease lasts
  MaxClock,   \* bound on the clock, in minutes
  Mishaps,    \* bound on deaths and failing appends
  NoEpic, NoItem

Types == {"spec-updated", "spec-proposal", "adr-link"}

ASSUME SpecSyncAssumption ==
  /\ EpicOf \in [Items -> Epics] /\ NoEpic \notin Epics
  /\ TypeOf \in [Items -> Types] /\ NoItem \notin Items
  /\ SectionOf \in [Items -> Sections]
  /\ DOMAIN DocOf = Sections
  /\ Ttl \in Nat \ {0} /\ MaxClock \in Nat /\ Mishaps \in Nat

VARIABLES
  lease,    \* spec-sync.lock: its owner and when it expires
  clock,    \* minutes
  head,     \* per section: the edits committed
  work,     \* per section: the edits in the working tree
  commits,  \* the docs(spec) commits: the item named, what was committed
  disp,     \* per item: the commit and the backlog item recorded for it
  issues,   \* the spec items of the backlog: item, kind, commit, resolution
  pc,       \* per epic: where its closure stands
  job,      \* per epic: the items it was given and the one in hand
  triage,   \* the reject a person is running
  fixes,    \* the rejected items for which a code fix was filed
  mishaps,  \* how many deaths and failures there were
  cut       \* history: the items they left half done for good

tree == <<head, work>>
records == <<commits, disp, issues>>
people == <<triage, fixes>>
past == <<mishaps, cut>>
vars == <<lease, clock, tree, records, pc, job, people, past>>

NoLease == [owner |-> NoEpic, until |-> 0]
NoJob == [todo |-> {}, item |-> NoItem, tries |-> 0, commit |-> 0, issue |-> 0]
NoTriage == [at |-> "idle", key |-> 0]

Init ==
  /\ lease = NoLease /\ clock = 0
  /\ head = [s \in Sections |-> {}] /\ work = head
  /\ commits = <<>> /\ issues = <<>>
  /\ disp = [i \in Items |-> [commit |-> 0, issue |-> 0]]
  /\ pc = [e \in Epics |-> "plan"]
  /\ job = [e \in Epics |-> NoJob]
  /\ triage = NoTriage /\ fixes = {}
  /\ mishaps = 0 /\ cut = {}

Goto(e, to) == pc' = [pc EXCEPT ![e] = to]
SameDoc(s) == {t \in Sections : DocOf[t] = DocOf[s]}

\* Mutant of Unrecorded: an item is done when its backlog item is recorded.
UnrecordedIssue(i) == disp[i].issue = 0

\* Neither a commit nor a backlog item is recorded for it.
Unrecorded(i) == disp[i].commit = 0 /\ disp[i].issue = 0

\* pending_items: the unrecorded findings, and the ADRs without an entry under
\* adr_links whose section, in the working tree, does not link them.
Pending(e) ==
  {i \in Items :
     /\ EpicOf[i] = e /\ Unrecorded(i)
     /\ TypeOf[i] = "adr-link" => i \notin work[SectionOf[i]]}

-----------------------------------------------------------------------------
(* The plan and the lease.                                                  *)

\* sync-plan: with nothing pending the closure goes on without an agent.
SyncPlan(e) ==
  /\ pc[e] = "plan"
  /\ job' = [job EXCEPT ![e] = [NoJob EXCEPT !.todo = Pending(e)]]
  /\ Goto(e, IF Pending(e) = {} THEN "closed" ELSE "lease")
  /\ UNCHANGED <<lease, clock, tree, records, people, past>>

\* Mutant of CanTake: the lease counts as expired in its last minute.
CanTakeEarly(e) == lease.owner \in {NoEpic, e} \/ lease.until <= clock + 1

\* _lease_try: free, one's own (renewed), or expired (taken over).
CanTake(e) == lease.owner \in {NoEpic, e} \/ lease.until <= clock

LeaseAcquire(e) ==
  /\ pc[e] = "lease" /\ CanTake(e)
  /\ lease' = [owner |-> e, until |-> clock + Ttl]
  /\ Goto(e, "work")
  /\ UNCHANGED <<clock, tree, records, job, people, past>>

\* The wait ran out (exit 5): sync-plan --defer computes its own list.
LeaseGiveUp(e) ==
  /\ pc[e] = "lease" /\ ~CanTake(e)
  /\ job' = [job EXCEPT ![e].todo = Pending(e)]
  /\ Goto(e, "defer")
  /\ UNCHANGED <<lease, clock, tree, records, people, past>>

\* lease release: by the owner; a lease of somebody else is left (exit 2).
LeaseRelease(e) ==
  /\ pc[e] = "work" /\ job[e].todo = {} /\ job[e].item = NoItem
  /\ lease' = IF lease.owner = e THEN NoLease ELSE lease
  /\ Goto(e, "closed")
  /\ UNCHANGED <<clock, tree, records, job, people, past>>

-----------------------------------------------------------------------------
(* One item: edit, commit, and the refusals.                                *)

\* The agent writes the edit into some section of the file, the right one or
\* not; a second try takes back what it wrote elsewhere.
Edit(e) ==
  /\ pc[e] = "work"
  /\ \E i \in IF job[e].item = NoItem THEN job[e].todo ELSE {job[e].item} :
       /\ TypeOf[i] # "spec-proposal"
       /\ \E s \in SameDoc(SectionOf[i]) :
            work' = [t \in Sections |->
                       IF t = s THEN work[t] \cup {i} ELSE work[t] \ ({i} \ head[t])]
       /\ job' = [job EXCEPT ![e].item = i]
  /\ Goto(e, "edited")
  /\ UNCHANGED <<lease, clock, head, records, people, past>>

\* A proposal needs no edit.
WriteProposal(e) ==
  /\ pc[e] = "work" /\ job[e].item = NoItem
  /\ \E i \in job[e].todo : TypeOf[i] = "spec-proposal" /\ job' = [job EXCEPT ![e].item = i]
  /\ Goto(e, "propose")
  /\ UNCHANGED <<lease, clock, tree, records, people, past>>

\* changed_hunks: the sections of the item's file that differ from HEAD.
Changed(i) == {s \in SameDoc(SectionOf[i]) : work[s] # head[s]}

\* Mutant of InScope: any change that touches the section will do.
InScopeSomewhere(i) == SectionOf[i] \in Changed(i)

\* hunks_outside: there is a change, and it lies in the section pointed at.
InScope(i) == Changed(i) = {SectionOf[i]}

\* What `commit` asks before it calls git.
Committable(e, i) ==
  /\ lease.owner = e /\ lease.until > clock
  /\ Unrecorded(i) /\ InScope(i)
  /\ TypeOf[i] = "adr-link" => i \in work[SectionOf[i]]

CommitCheck(e) ==
  /\ pc[e] = "edited" /\ Committable(e, job[e].item)
  /\ Goto(e, "checked")
  /\ UNCHANGED <<lease, clock, tree, records, job, people, past>>

\* git restore of the item's file.
Restored(i) ==
  [s \in Sections |-> IF s \in SameDoc(SectionOf[i]) THEN head[s] ELSE work[s]]

\* Mutant of MayRetry: the agent tries until the commit is taken.
MayAlwaysRetry(e) == TRUE

\* "Fix and retry once."
MayRetry(e) == job[e].tries = 0

\* On the second refusal the whole file is restored and the item is proposed.
Refused(e) ==
  IF MayRetry(e)
    THEN /\ job' = [job EXCEPT ![e].tries = 1]
         /\ Goto(e, "work")
         /\ UNCHANGED work
    ELSE /\ work' = Restored(job[e].item)
         /\ Goto(e, "propose")
         /\ UNCHANGED job

CommitRefuse(e) ==
  /\ pc[e] = "edited" /\ ~Committable(e, job[e].item)
  /\ Refused(e)
  /\ UNCHANGED <<lease, clock, head, records, people, past>>

\* git_commit of exactly this file, as it is now.
GitCommit(e) ==
  /\ pc[e] = "checked"
  /\ LET i == job[e].item
         doc == SameDoc(SectionOf[i])
     IN /\ commits' = Append(commits,
             [item |-> i, took |-> [s \in Sections |-> IF s \in doc THEN work[s] \ head[s] ELSE {}]])
        /\ head' = [s \in Sections |-> IF s \in doc THEN work[s] ELSE head[s]]
  /\ job' = [job EXCEPT ![e].commit = Len(commits) + 1]
  /\ Goto(e, "landed")
  /\ UNCHANGED <<lease, clock, work, disp, issues, people, past>>

\* The index stayed locked, or git refused.
GitFail(e) ==
  /\ pc[e] = "checked"
  /\ Refused(e)
  /\ UNCHANGED <<lease, clock, head, records, people, past>>

\* record_item(commit = sha).
RecordCommit(e) ==
  /\ pc[e] = "landed"
  /\ disp' = [disp EXCEPT ![job[e].item].commit = job[e].commit]
  /\ Goto(e, "recorded")
  /\ UNCHANGED <<lease, clock, tree, commits, issues, job, people, past>>

-----------------------------------------------------------------------------
(* The backlog item: of a commit, of a proposal, of a deferral.             *)

\* Mutant of IsTwin: the kind is not compared.
IsTwinOfAnyKind(k, i, kind) == issues[k].item = i /\ issues[k].res = "open"

\* append-issue skips a content duplicate: the open item for the same finding,
\* whose title says the kind.  A resolved one is appended again.
IsTwin(k, i, kind) ==
  issues[k].item = i /\ issues[k].kind = kind /\ issues[k].res = "open"

\* append_spec_issue, then on to the recording.
AppendSpecIssue(e, i, kind, to) ==
  /\ \/ \E k \in DOMAIN issues :
          /\ IsTwin(k, i, kind)
          /\ job' = [job EXCEPT ![e].item = i, ![e].issue = k]
          /\ UNCHANGED issues
     \/ /\ \A k \in DOMAIN issues : ~IsTwin(k, i, kind)
        /\ issues' = Append(issues, [item |-> i, kind |-> kind, res |-> "open",
                                     ref |-> job[e].commit])
        /\ job' = [job EXCEPT ![e].item = i, ![e].issue = Len(issues) + 1]
  /\ Goto(e, to)
  /\ UNCHANGED <<lease, clock, tree, commits, disp, people, past>>

CommitIssue(e) ==
  pc[e] = "recorded" /\ AppendSpecIssue(e, job[e].item, "spec-change", "filed")

Propose(e) ==
  /\ pc[e] = "propose" /\ job[e].item \in Pending(e)
  /\ AppendSpecIssue(e, job[e].item, "spec-proposal", "filed")

DeferItem(e) ==
  /\ pc[e] = "defer"
  /\ \E i \in job[e].todo : AppendSpecIssue(e, i, "spec-proposal", "deferred")

\* Mutant of NextItem: the loop returns after its first item.
NextItemNone(e) == job' = [job EXCEPT ![e] = NoJob]

\* The item in hand is done with.
NextItem(e) ==
  job' = [job EXCEPT ![e] = [NoJob EXCEPT !.todo = job[e].todo \ {job[e].item}]]

\* find_item exits 2: the item is no longer pending.
ProposeRefuse(e) ==
  /\ pc[e] = "propose" /\ job[e].item \notin Pending(e)
  /\ NextItem(e) /\ Goto(e, "work")
  /\ UNCHANGED <<lease, clock, tree, records, people, past>>

\* record_item(issue = key).
RecordIssue(e) ==
  /\ pc[e] \in {"filed", "deferred"}
  /\ disp' = [disp EXCEPT ![job[e].item].issue = job[e].issue]
  /\ NextItem(e) /\ Goto(e, IF pc[e] = "filed" THEN "work" ELSE "defer")
  /\ UNCHANGED <<lease, clock, tree, commits, issues, people, past>>

DeferEnd(e) ==
  /\ pc[e] = "defer" /\ job[e].todo = {}
  /\ Goto(e, "closed")
  /\ UNCHANGED <<lease, clock, tree, records, job, people, past>>

-----------------------------------------------------------------------------
(* Deaths and failures.  A closure that died is run again from its plan.    *)

Strike(lost) ==
  /\ mishaps < Mishaps /\ mishaps' = mishaps + 1
  /\ cut' = cut \cup lost

\* What a rerun does not make good: a commit without its record or backlog item,
\* and a link that is written but not committed, which sync-plan takes for done.
Lost(e) ==
  {i \in Items : i = job[e].item
                  /\ (pc[e] \in {"landed", "recorded"} \/ TypeOf[i] = "adr-link")}

\* A death while the lease file is rewritten leaves it empty: a free lease.
Crash(e) ==
  /\ pc[e] \notin {"plan", "closed"}
  /\ Strike(Lost(e))
  /\ \/ UNCHANGED lease
     \/ pc[e] = "lease" /\ CanTake(e) /\ lease' = NoLease
  /\ job' = [job EXCEPT ![e] = NoJob]
  /\ Goto(e, "plan")
  /\ UNCHANGED <<clock, tree, records, people>>

\* append-issue fails.  After a commit that is one more refusal to the agent,
\* although the commit landed; a proposal is given up.
AppendFail(e) ==
  /\ Strike({job[e].item})
  /\ \/ pc[e] = "recorded" /\ Refused(e)
     \/ /\ pc[e] = "propose" /\ job[e].item \in Pending(e)
        /\ NextItem(e) /\ Goto(e, "work") /\ UNCHANGED work
  /\ UNCHANGED <<lease, clock, head, records, people>>

-----------------------------------------------------------------------------
(* Triage: a person confirms or rejects an open item.                       *)

IsOpen(k) == k \in DOMAIN issues /\ issues[k].res = "open"

Confirm(k) ==
  /\ triage.at = "idle" /\ IsOpen(k)
  /\ issues' = [issues EXCEPT ![k].res = "fixed"]
  /\ UNCHANGED <<lease, clock, tree, commits, disp, pc, job, people, past>>

\* git revert of a commit: its edits are still there and nobody has
\* uncommitted edits in the file.  (A conflict aborts and changes nothing.)
CanRevert(c) ==
  \A s \in SameDoc(SectionOf[commits[c].item]) :
    work[s] = head[s] /\ commits[c].took[s] \subseteq head[s]

Reverted(spec, c) ==
  [s \in Sections |-> IF s \in SameDoc(SectionOf[commits[c].item])
                        THEN spec[s] \ commits[c].took[s] ELSE spec[s]]

\* reject: revert a change, or nothing for a proposal ...
Reject(k) ==
  /\ triage.at = "idle" /\ IsOpen(k)
  /\ triage' = [at |-> "reverted", key |-> k]
  /\ \/ issues[k].kind = "spec-proposal" /\ UNCHANGED tree
     \/ /\ issues[k].kind = "spec-change" /\ CanRevert(issues[k].ref)
        /\ head' = Reverted(head, issues[k].ref)
        /\ work' = Reverted(work, issues[k].ref)
  /\ UNCHANGED <<lease, clock, records, pc, job, fixes, past>>

\* ... resolve the item wontfix ...
RejectResolve ==
  /\ triage.at = "reverted"
  /\ issues' = [issues EXCEPT ![triage.key].res = "wontfix"]
  /\ triage' = [triage EXCEPT !.at = "resolved"]
  /\ UNCHANGED <<lease, clock, tree, commits, disp, pc, job, fixes, past>>

\* ... and file the drift as a code fix.
RejectFile ==
  /\ triage.at = "resolved"
  /\ fixes' = fixes \cup {triage.key} /\ triage' = NoTriage
  /\ UNCHANGED <<lease, clock, tree, records, pc, job, past>>

RejectCrash ==
  /\ triage.at # "idle" /\ Strike({})
  /\ triage' = NoTriage
  /\ UNCHANGED <<lease, clock, tree, records, pc, job, fixes>>

-----------------------------------------------------------------------------

\* The epics whose agent is at work under the lease.
AtWork == {e \in Epics : pc[e] \notin {"plan", "lease", "defer", "deferred", "closed"}}

\* Time passes, but a living agent is done before its lease expires.
Tick ==
  /\ clock < MaxClock
  /\ \A e \in AtWork : lease.owner = e => clock + 1 < lease.until
  /\ clock' = clock + 1
  /\ UNCHANGED <<lease, tree, records, pc, job, people, past>>

\* Every closure is done and no reject is under way.
Finished ==
  /\ \A e \in Epics : pc[e] = "closed"
  /\ triage.at = "idle"
  /\ UNCHANGED vars

Closure(e) ==
  \/ SyncPlan(e) \/ LeaseAcquire(e) \/ LeaseGiveUp(e) \/ LeaseRelease(e)
  \/ Edit(e) \/ WriteProposal(e) \/ CommitCheck(e) \/ CommitRefuse(e)
  \/ GitCommit(e) \/ GitFail(e) \/ RecordCommit(e) \/ CommitIssue(e)
  \/ Propose(e) \/ ProposeRefuse(e) \/ RecordIssue(e) \/ DeferItem(e) \/ DeferEnd(e)

Next ==
  \/ \E e \in Epics : Closure(e) \/ Crash(e) \/ AppendFail(e)
  \/ \E k \in DOMAIN issues : Confirm(k) \/ Reject(k)
  \/ RejectResolve \/ RejectFile \/ RejectCrash
  \/ Tick \/ Finished

\* A closure that is under way goes on.
Fairness == \A e \in Epics : WF_vars(Closure(e))

Spec == Init /\ [][Next]_vars /\ Fairness

-----------------------------------------------------------------------------
(* Properties.                                                              *)

Edits == [Sections -> SUBSET Items]
Commits == [item : Items, took : Edits]
Issues == [item : Items, kind : {"spec-change", "spec-proposal"},
           res : {"open", "fixed", "wontfix"}, ref : Nat]
Jobs == [todo : SUBSET Items, item : Items \cup {NoItem}, tries : {0, 1},
         commit : Nat, issue : Nat]

\* Every variable has its type; what HEAD holds the working tree holds too,
\* and only an agent, living or dead, leaves the two different.
TypeOK ==
  /\ lease \in [owner : Epics \cup {NoEpic}, until : 0..(MaxClock + Ttl)]
  /\ clock \in 0..MaxClock
  /\ head \in Edits /\ work \in Edits /\ \A s \in Sections : head[s] \subseteq work[s]
  /\ commits \in Seq(Commits) /\ issues \in Seq(Issues)
  /\ disp \in [Items -> [commit : Nat, issue : Nat]]
  /\ pc \in [Epics -> {"plan", "lease", "work", "edited", "checked", "landed", "recorded",
                       "propose", "filed", "defer", "deferred", "closed"}]
  /\ job \in [Epics -> Jobs]
  /\ triage \in [at : {"idle", "reverted", "resolved"}, key : Nat]
  /\ fixes \subseteq DOMAIN issues
  /\ mishaps \in 0..Mishaps /\ cut \subseteq Items

\* A docs(spec) commit changes only the section of the item it names, although
\* git takes the whole file as it is some time after the check, and whatever
\* half-made edits dead agents left in it.
CommitsAreScoped ==
  \A c \in DOMAIN commits : \A s \in Sections :
    commits[c].took[s] # {} => s = SectionOf[commits[c].item]

\* What the dispositions record is so: the commit was made for that item, the
\* backlog item is about it, and next to a commit it is that commit's change.
RecordsAreReal ==
  \A i \in Items :
    /\ disp[i].commit # 0 => disp[i].commit \in DOMAIN commits /\ commits[disp[i].commit].item = i
    /\ disp[i].issue # 0 =>
         /\ disp[i].issue \in DOMAIN issues
         /\ LET it == issues[disp[i].issue]
            IN /\ it.item = i /\ it.ref = disp[i].commit
               /\ it.kind = IF disp[i].commit = 0 THEN "spec-proposal" ELSE "spec-change"

\* Once a spec change is resolved wontfix by reject, the edit it was about is
\* not at HEAD, and no later run of the closure brings it back.
RejectedStaysOut ==
  \A k \in DOMAIN issues :
    LET i == issues[k].item IN
    (issues[k].kind = "spec-change" /\ issues[k].res = "wontfix"
       /\ i \in commits[issues[k].ref].took[SectionOf[i]]) => i \notin head[SectionOf[i]]

\* A commit that is made opens its spec-change item, and a closure that is over
\* has a backlog item for everything it had to do: both but for the items that a
\* mishap left half done, between a commit and its backlog item or with a link
\* written.  A death anywhere else is made good by the rerun.
NothingUnfiled ==
  /\ \A c \in DOMAIN commits :
       LET i == commits[c].item IN
       \/ \E k \in DOMAIN issues : issues[k].kind = "spec-change" /\ issues[k].ref = c
       \/ i \in cut
       \/ job[EpicOf[i]].commit = c /\ pc[EpicOf[i]] \in {"landed", "recorded"}
  /\ \A i \in Items \ cut : pc[EpicOf[i]] = "closed" => \E k \in DOMAIN issues : issues[k].item = i

\* Every closure gets past its spec sync, whoever holds the lease and for how
\* long: the wait is bounded, and so are the refusals of an item.
ClosuresEnd == \A e \in Epics : <>(pc[e] = "closed")
=============================================================================
