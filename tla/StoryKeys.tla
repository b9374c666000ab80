------------------------------- MODULE StoryKeys -------------------------------
(***************************************************************************)
(* Who a story key belongs to.  A key names a sprint and a number; a story *)
(* is a node file in the state tree, a document in the artifact tree, the  *)
(* depends_on entries of other stories and the backlog item it came from,  *)
(* all of which name it by its key.                                        *)
(*                                                                         *)
(* promote-issue mints keys and reparent-story gives a story the key of    *)
(* another sprint.  Both hold the flock of the epic they allocate in.  A   *)
(* re-parent takes the source epic's flock before that, to raise the       *)
(* sprint's `next` over the departing number, and never both at once.      *)
(***************************************************************************)
EXTENDS Integers, Sequences, FiniteSets

CONSTANTS
  Procs,     \* the command-line processes
  Verbs,     \* per process: the verbs it runs
  Works,     \* pieces of work: a story keeps its work when its key changes
  Findings,  \* the works that are backlog items waiting to be promoted
  Sprints,   \* the sprints of the planned epics
  EpicOf,    \* per sprint: its epic
  MaxNum,    \* bound on story numbers
  Placed,    \* per work that is a story at the start: its key
  Written,   \* the stories elaborated at the start: they have a document
  Needs,     \* per work: the works it depends on
  Moves,     \* <<source sprint, destination sprint>> of the re-parents asked for
  Touched,   \* the sprints whose own status is set meanwhile
  CanCrash,  \* whether a process may die in the middle of a verb
  NoProc, NoWork, NoKey

Epics == {EpicOf[s] : s \in Sprints}
Keys == Sprints \X (1..MaxNum)
StoryVerbs == {"reparent-story", "promote-issue", "move-epic", "set-status"}

ASSUME StoryKeysAssumption ==
  /\ NoProc \notin Procs /\ NoWork \notin Works /\ NoKey \notin Keys
  /\ Verbs \in [Procs -> SUBSET StoryVerbs]
  /\ Findings \subseteq Works
  /\ MaxNum \in Nat
  /\ Placed \in [Works \ Findings -> Keys]
  /\ \A v, w \in Works \ Findings : Placed[v] = Placed[w] => v = w
  /\ Written \subseteq Works \ Findings
  /\ Needs \in [Works -> SUBSET (Works \ Findings)]
  /\ Moves \subseteq Sprints \X Sprints
  /\ Touched \subseteq Sprints
  /\ CanCrash \in BOOLEAN
  /\ "issues" \notin Epics

\* A story node's file: whose work it is, its `key`, depends_on, previous_keys.
Nodes == [work : Works, name : Keys, deps : SUBSET Keys, prev : Seq(Keys)]
NoFile == [work |-> NoWork, name |-> NoKey, deps |-> {}, prev |-> <<>>]

\* A story document: whose work it describes and its front matter's `key`.
Docs == [work : Works, name : Keys]
NoDoc == [work |-> NoWork, name |-> NoKey]

VARIABLES
  nodes,    \* per key: the state file at its path
  docs,     \* per key: the document at its path
  next,     \* per sprint: `next` of sprint.yaml, 0 if absent
  refs,     \* per work: the key its backlog item names in `story` or `ref`
  planned,  \* the epics under planned/; the others are under active/
  copies,   \* the works a second file of which was left under planned/
  holder,   \* per flock, an epic's or the issue files': who has it
  pc,       \* per process: where its verb stands
  job,      \* per process: what it was given, allocated and loaded
  issued,   \* history: per key, the works that have ever had it
  cut       \* history: the works whose re-parent or promotion died half-way

vars == <<nodes, docs, next, refs, planned, copies, holder, pc, job, issued, cut>>
tree == <<nodes, docs, next, refs, planned, copies>>

NoJob == [old |-> NoKey, new |-> NoKey, to |-> "none", doc |-> FALSE,
          left |-> {}, at |-> NoKey, node |-> NoFile, bucket |-> "none", next |-> 0]

Flocks == Epics \cup {"issues"}
EpicAt(key) == EpicOf[key[1]]
IsStory(key) == nodes[key] # NoFile
Bucket(key) == IF EpicAt(key) \in planned THEN "planned" ELSE "active"
KeyOf(work) == CHOOSE key \in Keys : nodes[key].work = work

Init ==
  /\ nodes = [k \in Keys |->
       IF \E w \in Works \ Findings : Placed[w] = k
         THEN LET w == CHOOSE v \in Works \ Findings : Placed[v] = k
              IN  [work |-> w, name |-> k, deps |-> {Placed[v] : v \in Needs[w]}, prev |-> <<>>]
         ELSE NoFile]
  /\ docs = [k \in Keys |->
       IF \E w \in Written : Placed[w] = k
         THEN [work |-> CHOOSE w \in Written : Placed[w] = k, name |-> k] ELSE NoDoc]
  /\ next = [s \in Sprints |-> 0]
  /\ refs = [w \in Works |-> IF w \in Findings THEN NoKey ELSE Placed[w]]
  /\ planned = Epics
  /\ copies = {}
  /\ holder = [l \in Flocks |-> NoProc]
  /\ pc = [p \in Procs |-> "idle"]
  /\ job = [p \in Procs |-> NoJob]
  /\ issued = [k \in Keys |-> {w \in Works \ Findings : Placed[w] = k}]
  /\ cut = {}

Goto(p, to) == pc' = [pc EXCEPT ![p] = to]
SetJob(p, j) == job' = [job EXCEPT ![p] = j]
IsFree(lock) == holder[lock] = NoProc

Leave(p) ==
  /\ holder' = [l \in Flocks |-> IF holder[l] = p THEN NoProc ELSE holder[l]]
  /\ Goto(p, "idle")
  /\ SetJob(p, NoJob)

Larger(a, b) == IF a > b THEN a ELSE b

-----------------------------------------------------------------------------
(* The allocator.                                                           *)

\* _highest_story_on_disk: over both trees.
HighestOnDisk(s) ==
  CHOOSE n \in 0..MaxNum :
    /\ n = 0 \/ IsStory(<<s, n>>) \/ docs[<<s, n>>] # NoDoc
    /\ \A m \in (n + 1)..MaxNum : ~IsStory(<<s, m>>) /\ docs[<<s, m>>] = NoDoc

\* _next_story_key: the number it hands out; `next` becomes the one after it.
Allocated(s) == Larger(next[s], HighestOnDisk(s) + 1)

-----------------------------------------------------------------------------
(* reparent-story.                                                          *)

\* The caller names a key some story has or had.  The file is looked for before
\* any lock is taken.
Ask(p) ==
  /\ pc[p] = "idle" /\ "reparent-story" \in Verbs[p]
  /\ \E old \in Keys, move \in Moves :
       /\ issued[old] # {} /\ move[1] = old[1]
       /\ SetJob(p, [NoJob EXCEPT !.old = old, !.to = move[2]])
       /\ Goto(p, IF IsStory(old) /\ EpicAt(old) \in planned THEN "raise" ELSE "gate")
  /\ UNCHANGED <<tree, holder, issued, cut>>

\* Mutant of Raised: the departing number itself.
RaisedTooLow(p) == Larger(next[job[p].old[1]], job[p].old[2])

\* _raise_sprint_high_water: never lowers it.
Raised(p) == Larger(next[job[p].old[1]], job[p].old[2] + 1)

Raise(p) ==
  /\ pc[p] = "raise" /\ IsFree(EpicAt(job[p].old))
  /\ next' = [next EXCEPT ![job[p].old[1]] = Raised(p)]
  /\ Goto(p, "gate")
  /\ UNCHANGED <<nodes, docs, refs, planned, copies, holder, job, issued, cut>>

\* Both ends planned, and somewhere to go.
Movable(old, to) ==
  /\ IsStory(old)
  /\ {EpicAt(old), EpicOf[to]} \subseteq planned
  /\ old[1] # to

\* Mutant of GateLock: the rest runs under no flock.
NoGateLock(p) == "none"

GateLock(p) == EpicOf[job[p].to]

\* Everything that can refuse, and the allocation, which saves `next`.
Gate(p) ==
  /\ pc[p] = "gate"
  /\ GateLock(p) \in Flocks => IsFree(GateLock(p))
  /\ LET old == job[p].old
         to == job[p].to
         number == Allocated(to)
         new == <<to, number>>
     IN  /\ Movable(old, to) /\ number <= MaxNum
         /\ ~IsStory(new)
         /\ docs[old] # NoDoc => docs[new] = NoDoc
         /\ next' = [next EXCEPT ![to] = number + 1]
         /\ SetJob(p, [job[p] EXCEPT !.new = new, !.bucket = Bucket(old),
                                  !.doc = docs[old] # NoDoc])
  /\ holder' = [l \in Flocks |-> IF l = GateLock(p) THEN p ELSE holder[l]]
  /\ Goto(p, "rename")
  /\ UNCHANGED <<nodes, docs, refs, planned, copies, issued, cut>>

GateRefuses(p) ==
  /\ pc[p] = "gate"
  /\ GateLock(p) \in Flocks => IsFree(GateLock(p))
  /\ ~Movable(job[p].old, job[p].to)
  /\ Leave(p)
  /\ UNCHANGED <<tree, issued, cut>>

\* Mutant of IsWhereItWas: the file is looked for again.
IsAnywhere(p) == IsStory(job[p].old)

\* The path the gate found leads nowhere once the file was moved by another
\* re-parent, or the epic's directory by a move-epic.
IsWhereItWas(p) == IsStory(job[p].old) /\ job[p].bucket = Bucket(job[p].old)

\* One rename takes the node to its new path.
Rename(p) ==
  /\ pc[p] = "rename" /\ IsWhereItWas(p)
  /\ LET old == job[p].old
         new == job[p].new
     IN  /\ nodes' = [nodes EXCEPT ![old] = NoFile, ![new] = nodes[old]]
         /\ issued' = [issued EXCEPT ![new] = @ \cup {nodes[old].work}]
  /\ Goto(p, IF job[p].doc THEN "doc" ELSE "rekey")
  /\ UNCHANGED <<docs, next, refs, planned, copies, holder, job, cut>>

RenameFails(p) ==
  /\ pc[p] = "rename" /\ ~IsWhereItWas(p)
  /\ Leave(p)
  /\ UNCHANGED <<tree, issued, cut>>

\* Mutant of MoveDoc: the document stays where it was.
MoveNoDoc(p) ==
  /\ pc[p] = "doc" /\ Goto(p, "rekey")
  /\ UNCHANGED <<tree, holder, job, issued, cut>>

\* Then the document, if the gate saw one.
MoveDoc(p) ==
  /\ pc[p] = "doc"
  /\ docs' = [docs EXCEPT ![job[p].old] = NoDoc, ![job[p].new] = docs[job[p].old]]
  /\ Goto(p, "rekey")
  /\ UNCHANGED <<nodes, next, refs, planned, copies, holder, job, issued, cut>>

\* The node's own key, with the old one appended to previous_keys.
Rekeyed(p) ==
  [nodes[job[p].new] EXCEPT !.name = job[p].new, !.prev = Append(@, job[p].old)]

Rekey(p) ==
  /\ pc[p] = "rekey"
  /\ nodes' = [nodes EXCEPT ![job[p].new] = Rekeyed(p)]
  /\ SetJob(p, [job[p] EXCEPT !.left = Keys, !.bucket = "none"])
  /\ Goto(p, IF job[p].doc THEN "rekeydoc" ELSE "walk")
  /\ UNCHANGED <<docs, next, refs, planned, copies, holder, issued, cut>>

\* _rewrite_doc_key.
RekeyDoc(p) ==
  /\ pc[p] = "rekeydoc"
  /\ docs' = [docs EXCEPT ![job[p].new].name = job[p].new]
  /\ Goto(p, "walk")
  /\ UNCHANGED <<nodes, next, refs, planned, copies, holder, job, issued, cut>>

\* _rewrite_references: the stories that depend on the old key, one at a time,
\* in whatever epic they are.  The order of the walk is left open.
ToRewrite(p) == {key \in job[p].left : job[p].old \in nodes[key].deps}

WalkLoad(p) ==
  /\ pc[p] = "walk"
  /\ \E key \in ToRewrite(p) :
       SetJob(p, [job[p] EXCEPT !.left = @ \ {key}, !.at = key, !.node = nodes[key],
                                !.bucket = Bucket(key)])
  /\ Goto(p, "walksave")
  /\ UNCHANGED <<tree, holder, issued, cut>>

\* Mutant of Repointed: the new key is added.
RepointedBoth(p) == job[p].node.deps \cup {job[p].new}

Repointed(p) == {IF key = job[p].old THEN job[p].new ELSE key : key \in job[p].node.deps}

\* The story's file is replaced at the path it was loaded from, without its
\* epic's lock: a file moved meanwhile is written anew.  Where the epic's
\* directory was moved meanwhile, _atomic_dump makes the old one again, and the
\* file there is a second one; every verb here looks in active/ first.
WalkSave(p) ==
  /\ pc[p] = "walksave"
  /\ LET there == job[p].bucket = Bucket(job[p].at)
     IN  /\ nodes' = [nodes EXCEPT ![job[p].at] =
              IF there THEN [job[p].node EXCEPT !.deps = Repointed(p)] ELSE @]
         /\ copies' = IF there THEN copies ELSE copies \cup {job[p].node.work}
  /\ SetJob(p, [job[p] EXCEPT !.at = NoKey, !.node = NoFile, !.bucket = "none"])
  /\ Goto(p, "walk")
  /\ UNCHANGED <<docs, next, refs, planned, holder, issued, cut>>

\* `ref` and `story` of the items of both issue files, in one hold of their lock.
RepointRefs(p) == [w \in Works |-> IF refs[w] = job[p].old THEN job[p].new ELSE refs[w]]

Repoint(p) ==
  /\ pc[p] = "walk" /\ ToRewrite(p) = {} /\ IsFree("issues")
  /\ refs' = RepointRefs(p)
  /\ Leave(p)
  /\ UNCHANGED <<nodes, docs, next, planned, copies, issued, cut>>

-----------------------------------------------------------------------------
(* promote-issue.  Its epic's lock and the issue files' lock are held from  *)
(* the decisive checks to the save of the item.                             *)

\* A story that already claims the finding is resumed, in its own sprint only;
\* the walk over the story files is one step here.
PromoteTake(p) ==
  /\ pc[p] = "idle" /\ "promote-issue" \in Verbs[p]
  /\ \E f \in Findings, s \in Sprints :
       /\ refs[f] = NoKey
       /\ IsFree(EpicOf[s]) /\ IsFree("issues")
       /\ holder' = [holder EXCEPT ![EpicOf[s]] = p, !["issues"] = p]
       /\ \/ /\ \A key \in Keys : nodes[key].work # f
             /\ SetJob(p, [NoJob EXCEPT !.to = s, !.node.work = f])
             /\ Goto(p, "mint")
          \/ /\ \E key \in Keys :
                  /\ nodes[key].work = f /\ nodes[key].name[1] = s
                  /\ SetJob(p, [NoJob EXCEPT !.to = s, !.new = nodes[key].name, !.node.work = f])
             /\ Goto(p, "newdoc")
  /\ UNCHANGED <<tree, issued, cut>>

Mint(p) ==
  /\ pc[p] = "mint"
  /\ LET number == Allocated(job[p].to)
     IN  /\ number <= MaxNum
         /\ next' = [next EXCEPT ![job[p].to] = number + 1]
         /\ SetJob(p, [job[p] EXCEPT !.new = <<job[p].to, number>>])
  /\ Goto(p, "newnode")
  /\ UNCHANGED <<nodes, docs, refs, planned, copies, holder, issued, cut>>

NewNode(p) ==
  /\ pc[p] = "newnode"
  /\ nodes' = [nodes EXCEPT ![job[p].new] =
       [NoFile EXCEPT !.work = job[p].node.work, !.name = job[p].new]]
  /\ issued' = [issued EXCEPT ![job[p].new] = @ \cup {job[p].node.work}]
  /\ Goto(p, "newdoc")
  /\ UNCHANGED <<docs, next, refs, planned, copies, holder, job, cut>>

\* init_story_doc: an existing document is kept, and a story that is gone is
\* refused.
NewDoc(p) ==
  /\ pc[p] = "newdoc"
  /\ IF IsStory(job[p].new)
       THEN /\ docs' = [docs EXCEPT ![job[p].new] =
                 IF @ = NoDoc THEN [work |-> job[p].node.work, name |-> job[p].new] ELSE @]
            /\ Goto(p, "item")
            /\ UNCHANGED <<holder, job>>
       ELSE Leave(p) /\ UNCHANGED docs
  /\ UNCHANGED <<nodes, next, refs, planned, copies, issued, cut>>

\* The item is scheduled to the story and the open file saved.
SaveItem(p) ==
  /\ pc[p] = "item"
  /\ refs' = [refs EXCEPT ![job[p].node.work] = job[p].new]
  /\ Leave(p)
  /\ UNCHANGED <<nodes, docs, next, planned, copies, issued, cut>>

-----------------------------------------------------------------------------
(* The other writers.                                                       *)

\* move-epic to active/, in one hold of the epic's lock.
Activate(p) ==
  /\ pc[p] = "idle" /\ "move-epic" \in Verbs[p]
  /\ \E e \in planned : IsFree(e) /\ planned' = planned \ {e}
  /\ UNCHANGED <<nodes, docs, next, refs, copies, holder, pc, job, issued, cut>>

\* set-status on a sprint holds no lock between loading sprint.yaml and
\* replacing it; one that was made again under planned/ is not read.
SprintLoad(p) ==
  /\ pc[p] = "idle" /\ "set-status" \in Verbs[p]
  /\ \E s \in Touched :
       /\ EpicOf[s] \in planned
       /\ SetJob(p, [NoJob EXCEPT !.to = s, !.next = next[s]])
  /\ Goto(p, "sprint")
  /\ UNCHANGED <<tree, holder, issued, cut>>

SprintSave(p) ==
  /\ pc[p] = "sprint"
  /\ next' = [next EXCEPT ![job[p].to] = IF EpicOf[job[p].to] \in planned THEN job[p].next ELSE @]
  /\ Leave(p)
  /\ UNCHANGED <<nodes, docs, refs, planned, copies, issued, cut>>

\* A flock is gone with its process.
HalfDone(p) ==
  IF pc[p] \in {"doc", "rekey", "rekeydoc", "walk", "walksave"} THEN {nodes[job[p].new].work}
  ELSE IF pc[p] \in {"newdoc", "item"} THEN {job[p].node.work}
  ELSE {}

Crash(p) ==
  /\ CanCrash /\ pc[p] # "idle"
  /\ cut' = cut \cup HalfDone(p)
  /\ Leave(p)
  /\ UNCHANGED <<tree, issued>>

Reparent(p) ==
  \/ Ask(p) \/ Raise(p) \/ Gate(p) \/ GateRefuses(p) \/ Rename(p) \/ RenameFails(p)
  \/ MoveDoc(p) \/ Rekey(p) \/ RekeyDoc(p) \/ WalkLoad(p) \/ WalkSave(p) \/ Repoint(p)

Promote(p) == PromoteTake(p) \/ Mint(p) \/ NewNode(p) \/ NewDoc(p) \/ SaveItem(p)

Next ==
  \E p \in Procs :
    \/ Reparent(p) \/ Promote(p)
    \/ Activate(p) \/ SprintLoad(p) \/ SprintSave(p)
    \/ Crash(p)

Spec == Init /\ [][Next]_vars

-----------------------------------------------------------------------------
TypeOK ==
  /\ nodes \in [Keys -> Nodes \cup {NoFile}]
  /\ docs \in [Keys -> Docs \cup {NoDoc}]
  /\ next \in [Sprints -> 0..(MaxNum + 1)]
  /\ refs \in [Works -> Keys \cup {NoKey}]
  /\ planned \subseteq Epics
  /\ copies \subseteq Works
  /\ holder \in [Flocks -> Procs \cup {NoProc}]
  /\ pc \in [Procs -> {"idle", "raise", "gate", "rename", "doc", "rekey", "rekeydoc", "walk",
                       "walksave", "mint", "newnode", "newdoc", "item", "sprint"}]
  /\ issued \in [Keys -> SUBSET Works]
  /\ cut \subseteq Works

\* _next_story_key: a key that was ever a story's never becomes another
\* story's, whatever moves, dies or is promoted in between.
KeyNamesOneStory == \A key \in Keys : Cardinality(issued[key]) <= 1

\* reparent_story: a story never stands in two places, a copy under planned/
\* counted, and never in none.
StoryStandsOnce ==
  \A key \in Keys : \A w \in issued[key] :
    /\ w \notin copies
    /\ \E k \in Keys : \A l \in Keys : nodes[l].work = w <=> l = k

\* The works some verb is in the middle of.
InHand(w) == \E p \in Procs :
  \/ pc[p] \in {"doc", "rekey", "rekeydoc", "walk", "walksave"} /\ nodes[job[p].new].work = w
  \/ pc[p] \in {"newdoc", "item"} /\ job[p].node.work = w

IsSettled(w) == w \notin cut /\ ~InHand(w)

\* "Both trees move together": unless the verb that moved a story died, its
\* document lies beside its node, both carry the key they lie under, and
\* previous_keys records every other key the story has had.
DocBesideNode ==
  \A key \in Keys :
    /\ IsStory(key) /\ IsSettled(nodes[key].work) =>
         /\ nodes[key].name = key
         /\ {k \in Keys : nodes[key].work \in issued[k]} =
              {nodes[key].prev[i] : i \in 1..Len(nodes[key].prev)} \cup {key}
    /\ docs[key] # NoDoc /\ IsSettled(docs[key].work) =>
         docs[key].name = key /\ nodes[key].work = docs[key].work

\* _rewrite_references: once a re-parent is over, the planned stories that
\* depend on the story and the backlog item it came from name its new key.
ReferencesFollow ==
  \A key \in Keys : IsStory(key) =>
    LET w == nodes[key].work
    IN  /\ EpicAt(key) \in planned /\ (\A v \in Needs[w] : IsSettled(v)) =>
             nodes[key].deps = {KeyOf(v) : v \in Needs[w]}
        /\ IsSettled(w) /\ refs[w] # NoKey => refs[w] = key

\* "Planned work only": a story of an epic that is not planned keeps its key
\* and its place, even when the epic is activated under a running re-parent.
ActiveStoriesStay ==
  [][\A key \in Keys : IsStory(key) /\ EpicAt(key) \notin planned =>
       /\ nodes'[key].work = nodes[key].work
       /\ nodes'[key].name = nodes[key].name]_vars
=============================================================================
