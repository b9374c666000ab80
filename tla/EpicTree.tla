------------------------------- MODULE EpicTree -------------------------------
(***************************************************************************)
(* One epic's directory in the state tree: the status folder it is in, its *)
(* epic.yaml with the ownership lock, and the verbs that write them.       *)
(*                                                                         *)
(* Every writer of epic.yaml takes the epic's flock (epic_node_lock),      *)
(* resolves the epic again, loads the node, changes its own field and      *)
(* replaces the file; move-epic renames the directory under the same lock  *)
(* and then writes the status.  Story nodes are written by verbs that hold *)
(* no lock between resolving the path and replacing the file, and the dump *)
(* creates the directory the path names.                                   *)
(*                                                                         *)
(* The ownership lock `_lock` is data in epic.yaml, not a flock: it is     *)
(* claimed by a session for ttl_minutes and may be taken over after that.  *)
(***************************************************************************)
EXTENDS Integers

CONSTANTS
  Procs,     \* the command-line processes
  Sessions,  \* the sessions that pass --session-id
  Verbs,     \* the verbs in use
  Ttl,       \* ttl_minutes of a claim
  MaxClock,  \* bound on the clock, in minutes
  CanCrash,  \* whether a process may die in the middle of a verb
  NoProc, NoSession

EpicVerbs == {"set-lock", "clear-lock", "set-status", "rollup", "promote-issue", "move-epic"}

ASSUME EpicTreeAssumption ==
  /\ NoProc \notin Procs
  /\ NoSession \notin Sessions
  /\ Verbs \subseteq EpicVerbs \cup {"story-write"}
  /\ Ttl \in Nat /\ MaxClock \in Nat
  /\ CanCrash \in BOOLEAN

\* STATUS_DIRS
Folders == {"active", "planned", "archived"}

\* STATUS_FOR_DIR
StatusFor(f) ==
  CASE f = "planned" -> "backlog" [] f = "active" -> "in-progress" [] f = "archived" -> "done"

EpicStatuses == {"backlog", "in-progress", "done"}

NoLock == [session |-> NoSession, at |-> 0]
Locks == [session : Sessions \cup {NoSession}, at : 0..MaxClock]

\* epic.yaml: status, `_lock` and the estimate the roll-up writes.
EpicNodes == [status : EpicStatuses, lock : Locks, estimate : {0, 1}]
NoNode == [status |-> "absent", lock |-> NoLock, estimate |-> 0]

\* A directory that holds no epic.yaml and no story does not exist.
Dirs == [epic : EpicNodes \cup {NoNode}, story : BOOLEAN]
NoDir == [epic |-> NoNode, story |-> FALSE]

VARIABLES
  tree,     \* per status folder: this epic's directory there
  holder,   \* the process in this epic's epic_node_lock
  pc,       \* per process: where its verb stands
  job,      \* per process: what it was given, resolved and loaded
  clock,    \* minutes
  granted   \* history: per session, when set-lock last told it OK and nobody
            \* cleared the claim since; -1 if never

vars == <<tree, holder, pc, job, clock, granted>>

NoJob == [verb |-> "none", session |-> NoSession, to |-> "none",
          folder |-> "none", node |-> NoNode]

Jobs == [verb : EpicVerbs \cup {"story-write", "none"}, session : Sessions \cup {NoSession},
         to : Folders \cup {"none"}, folder : Folders \cup {"none"},
         node : EpicNodes \cup {NoNode}]

Exists(f) == tree[f] # NoDir

\* find_epic_dir: the first of active, planned, archived that has a directory.
IsEpicDir(f) ==
  /\ Exists(f)
  /\ f = "planned" => ~Exists("active")
  /\ f = "archived" => ~Exists("active") /\ ~Exists("planned")

\* epic_file: that directory's epic.yaml, if it has one.
IsEpicFile(f) == IsEpicDir(f) /\ tree[f].epic # NoNode

\* Mutant of IsForeign: a claim that is about to expire is taken over.
IsForeignUntilTtl(lock, s) ==
  lock.session \notin {NoSession, s} /\ clock - lock.at < Ttl

\* A claim by another session than s, inside its TTL.
IsForeign(lock, s) ==
  lock.session \notin {NoSession, s} /\ clock - lock.at <= Ttl

Init ==
  /\ tree = [f \in Folders |->
               IF f = "planned"
                 THEN [epic |-> [status |-> "backlog", lock |-> NoLock, estimate |-> 0],
                       story |-> TRUE]
                 ELSE NoDir]
  /\ holder = NoProc
  /\ pc = [p \in Procs |-> "idle"]
  /\ job = [p \in Procs |-> NoJob]
  /\ clock = 0
  /\ granted = [s \in Sessions |-> -1]

Goto(p, to) == pc' = [pc EXCEPT ![p] = to]
SetJob(p, j) == job' = [job EXCEPT ![p] = j]

-----------------------------------------------------------------------------
(* A verb that writes epic.yaml.                                            *)

\* The epic is resolved once before any lock file exists, to exit 3 if absent.
Enter(p, verb, s, to) ==
  /\ pc[p] = "idle" /\ verb \in EpicVerbs \cap Verbs
  /\ verb = "move-epic" <=> to \in Folders
  /\ \E f \in Folders :
       /\ IsEpicDir(f) /\ (verb = "move-epic" \/ IsEpicFile(f))
       /\ SetJob(p, [NoJob EXCEPT !.verb = verb, !.session = s, !.to = to, !.folder = f])
  /\ Goto(p, "wait")
  /\ UNCHANGED <<tree, holder, clock, granted>>

\* Mutant of LockIsFree: the node is read and replaced without the flock.
LockIsIgnored == TRUE

LockIsFree == holder = NoProc

Take(p) ==
  /\ pc[p] = "wait"
  /\ LockIsFree
  /\ holder' = p
  /\ Goto(p, IF job[p].verb = "move-epic" THEN "move" ELSE "resolve")
  /\ UNCHANGED <<tree, job, clock, granted>>

Leave(p) ==
  /\ holder' = IF holder = p THEN NoProc ELSE holder
  /\ Goto(p, "idle")
  /\ SetJob(p, NoJob)
  /\ UNCHANGED <<clock, granted>>

\* Mutant of IsHome: the folder found before the lock was taken.
IsHomeAsEntered(p, f) == f = job[p].folder

\* The folder a holder writes to: where the epic is now.
IsHome(p, f) == IsEpicFile(f)

\* Mutant of Refuses: promote-issue asks before it has the lock only.
RefusesSetLockOnly(p, f) ==
  job[p].verb = "set-lock" /\ IsForeign(tree[f].epic.lock, job[p].session)

\* set-lock and promote-issue refuse under a claim of another session.
Refuses(p, f) ==
  /\ job[p].verb \in {"set-lock", "promote-issue"}
  /\ IsForeign(tree[f].epic.lock, job[p].session)

\* The node is resolved and loaded under the lock, and the verb's last checks
\* made on what was loaded; promote-issue also refuses an archived epic.
Resolve(p) ==
  /\ pc[p] = "resolve"
  /\ \E f \in Folders :
       /\ IsHome(p, f) /\ ~Refuses(p, f)
       /\ job[p].verb = "promote-issue" => f # "archived"
       /\ SetJob(p, [job[p] EXCEPT !.folder = f, !.node = tree[f].epic])
  /\ Goto(p, IF job[p].verb = "promote-issue" THEN "story" ELSE "save")
  /\ UNCHANGED <<tree, holder, clock, granted>>

Refuse(p) ==
  /\ pc[p] = "resolve"
  /\ \A f \in Folders : IsHome(p, f) =>
       Refuses(p, f) \/ (job[p].verb = "promote-issue" /\ f = "archived")
  /\ Leave(p)
  /\ UNCHANGED tree

\* promote-issue saves the story node and then rolls the epic up, which
\* resolves and loads the epic again on the same hold.
PromoteStory(p) ==
  /\ pc[p] = "story"
  /\ tree' = [tree EXCEPT ![job[p].folder].story = TRUE]
  /\ SetJob(p, [job[p] EXCEPT !.node = tree[job[p].folder].epic])
  /\ Goto(p, "save")
  /\ UNCHANGED <<holder, clock, granted>>

\* What each verb may make of the node it loaded.
Written(p) ==
  LET old == job[p].node
  IN  CASE job[p].verb = "set-lock" ->
             {[old EXCEPT !.lock = [session |-> job[p].session, at |-> clock]]}
        [] job[p].verb = "clear-lock" -> {[old EXCEPT !.lock = NoLock]}
        [] job[p].verb = "set-status" ->
             {[old EXCEPT !.status = status] : status \in EpicStatuses}
        [] job[p].verb \in {"rollup", "promote-issue"} ->
             {[old EXCEPT !.estimate = 1 - @]}
        [] job[p].verb = "move-epic" ->
             {[old EXCEPT !.status = StatusFor(job[p].to)]}

\* set-lock tells its session OK; clear-lock ends the claim it removes, and
\* whoever runs it knows.
Told(p) ==
  CASE job[p].verb = "set-lock" -> [granted EXCEPT ![job[p].session] = clock]
    [] job[p].verb = "clear-lock" /\ job[p].node.lock # NoLock ->
         [granted EXCEPT ![job[p].node.lock.session] = -1]
    [] OTHER -> granted

Save(p) ==
  /\ pc[p] = "save"
  /\ \E node \in Written(p) : tree' = [tree EXCEPT ![job[p].folder].epic = node]
  /\ granted' = Told(p)
  /\ holder' = NoProc
  /\ Goto(p, "idle")
  /\ SetJob(p, NoJob)
  /\ UNCHANGED clock

-----------------------------------------------------------------------------
(* move-epic, archive-epic and the move of retire-epic.                     *)

\* Nothing is done when the directory is already there, and a directory in the
\* way is refused.
MoveNothing(p) ==
  /\ pc[p] = "move"
  /\ \A f \in Folders : ~IsEpicDir(f) \/ Exists(job[p].to)
  /\ Leave(p)
  /\ UNCHANGED tree

MoveDirectory(p) ==
  /\ pc[p] = "move"
  /\ ~Exists(job[p].to)
  /\ \E f \in Folders :
       /\ IsEpicDir(f)
       /\ tree' = [tree EXCEPT ![f] = NoDir, ![job[p].to] = tree[f]]
  /\ Goto(p, "moved")
  /\ UNCHANGED <<holder, job, clock, granted>>

\* The status is written where the directory went, if an epic.yaml is there.
MoveLoad(p) ==
  /\ pc[p] = "moved"
  /\ \/ /\ tree[job[p].to].epic # NoNode
        /\ SetJob(p, [job[p] EXCEPT !.folder = job[p].to, !.node = tree[job[p].to].epic])
        /\ Goto(p, "save")
        /\ UNCHANGED <<tree, holder, clock, granted>>
     \/ /\ tree[job[p].to].epic = NoNode
        /\ Leave(p)
        /\ UNCHANGED tree

-----------------------------------------------------------------------------
(* set-status, set-field and the other verbs on a story node.               *)

StoryResolve(p) ==
  /\ pc[p] = "idle" /\ "story-write" \in Verbs
  /\ \E f \in Folders :
       /\ IsEpicDir(f) /\ tree[f].story
       /\ SetJob(p, [NoJob EXCEPT !.verb = "story-write", !.folder = f])
  /\ Goto(p, "dump")
  /\ UNCHANGED <<tree, holder, clock, granted>>

\* _atomic_dump makes the directory if it is not there any more.
StoryDump(p) ==
  /\ pc[p] = "dump"
  /\ tree' = [tree EXCEPT ![job[p].folder].story = TRUE]
  /\ Leave(p)

-----------------------------------------------------------------------------
Crash(p) == CanCrash /\ pc[p] # "idle" /\ Leave(p) /\ UNCHANGED tree

Tick ==
  /\ clock < MaxClock
  /\ clock' = clock + 1
  /\ UNCHANGED <<tree, holder, pc, job, granted>>

ProcStep(p) ==
  \/ \E verb \in EpicVerbs, s \in Sessions, to \in Folders \cup {"none"} : Enter(p, verb, s, to)
  \/ Take(p) \/ Resolve(p) \/ Refuse(p) \/ PromoteStory(p) \/ Save(p)
  \/ MoveNothing(p) \/ MoveDirectory(p) \/ MoveLoad(p)
  \/ StoryResolve(p) \/ StoryDump(p)
  \/ Crash(p)

Next == (\E p \in Procs : ProcStep(p)) \/ Tick

Spec == Init /\ [][Next]_vars

-----------------------------------------------------------------------------
TypeOK ==
  /\ tree \in [Folders -> Dirs]
  /\ holder \in Procs \cup {NoProc}
  /\ pc \in [Procs -> {"idle", "wait", "resolve", "story", "save", "move", "moved", "dump"}]
  /\ job \in [Procs -> Jobs]
  /\ clock \in 0..MaxClock
  /\ granted \in [Sessions -> -1..MaxClock]

\* status-files.md 5, "a node lives in exactly one place at any time": whatever
\* moves and dies, there is one epic.yaml.
OneEpicFile ==
  \E f \in Folders : \A g \in Folders : tree[g].epic # NoNode <=> g = f

\* cmd_set_lock: two sessions are never both inside a claim that nobody
\* cleared, takeovers of stale claims and lost writes included.
Claims(s) == granted[s] # -1 /\ clock - granted[s] <= Ttl

OneOwner == \A s, t \in Sessions : Claims(s) /\ Claims(t) => s = t

\* epic_node_lock: a writer of one field puts back no old value of another,
\* wherever the epic was moved to in between.
Node(t) == t[CHOOSE f \in Folders : t[f].epic # NoNode].epic

Saves(verbs) == \E p \in Procs : pc[p] = "save" /\ pc'[p] = "idle" /\ job[p].verb \in verbs

WritersKeepOtherFields ==
  [][/\ Node(tree').lock # Node(tree).lock => Saves({"set-lock", "clear-lock"})
     /\ Node(tree').status # Node(tree).status => Saves({"set-status", "move-epic"})
     /\ Node(tree').estimate # Node(tree).estimate => Saves({"rollup", "promote-issue"})]_vars

\* promote-issue writes nothing into an epic another session has claimed, not
\* even when the claim was made while it waited for the lock.
PromoteRespectsClaims ==
  [][\A p \in Procs :
       pc[p] = "story" /\ pc'[p] = "save" => ~IsForeign(Node(tree).lock, job[p].session)]_vars
=============================================================================
