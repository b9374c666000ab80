--------------------------- MODULE StoryKeys_proofs ---------------------------
(***************************************************************************)
(* Proofs about story keys.                                                *)
(***************************************************************************)
EXTENDS StoryKeys, TLAPS, SequenceTheorems, FiniteSetTheorems, WellFoundedInduction

-----------------------------------------------------------------------------
(* The allocator.                                                           *)

\* A bounded set of numbers has a largest element.
LEMMA LargestNumber ==
  ASSUME NEW n \in Nat, NEW S \in SUBSET (0..n), S # {}
  PROVE  \E m \in S : \A k \in S : k <= m
<1> DEFINE T == {n - k : k \in S}
           R == {pair \in Nat \X Nat : pair[1] < pair[2]}
<1>1. T \in SUBSET Nat /\ T # {}
  <2>1. \A k \in S : n - k \in Nat
    OBVIOUS
  <2>2. PICK k \in S : TRUE
    OBVIOUS
  <2>3. n - k \in T
    BY <2>2
  <2> QED
    BY <2>1, <2>3
<1>2. PICK x \in T : \A y \in T : ~(<<y, x>> \in R)
  <2>1. IsWellFoundedOn(R, Nat)
    BY NatLessThanWellFounded DEF OpToRel
  <2> HIDE DEF T, R
  <2> QED
    BY <1>1, <2>1, WFMin
<1>3. \A y \in T : x <= y
  <2> TAKE y \in T
  <2>1. x \in Nat /\ y \in Nat
    BY <1>1
  <2>2. ~(<<y, x>> \in R)
    BY <1>2
  <2> HIDE DEF T
  <2>3. ~(y < x)
    BY <2>1, <2>2
  <2> QED
    BY <2>1, <2>3
<1>4. PICK m \in S : x = n - m
  BY <1>2
<1>5. \A k \in S : k <= m
  BY <1>3, <1>4
<1> QED
  BY <1>4, <1>5

LEMMA HighestOnDiskIs ==
  ASSUME NEW s \in Sprints
  PROVE  /\ HighestOnDisk(s) \in 0..MaxNum
         /\ \A n \in 1..MaxNum : IsStory(<<s, n>>) => n <= HighestOnDisk(s)
<1> DEFINE Used(n) == n = 0 \/ IsStory(<<s, n>>) \/ docs[<<s, n>>] # NoDoc
           S == {n \in 0..MaxNum : Used(n)}
           Top(n) == /\ Used(n)
                     /\ \A m \in (n + 1)..MaxNum : ~IsStory(<<s, m>>) /\ docs[<<s, m>>] = NoDoc
<1>0. MaxNum \in Nat
  BY StoryKeysAssumption
<1>1. PICK m \in S : \A k \in S : k <= m
  <2>1. S \in SUBSET (0..MaxNum) /\ 0 \in S
    BY <1>0
  <2> HIDE DEF S
  <2> QED
    BY <1>0, <2>1, LargestNumber
<1>2. m \in 0..MaxNum /\ Top(m)
  <2>1. ASSUME NEW k \in (m + 1)..MaxNum
        PROVE  ~Used(k)
    BY <1>0, <1>1
  <2> QED
    BY <1>1, <2>1
<1>3. HighestOnDisk(s) = CHOOSE n \in 0..MaxNum : Top(n)
  BY DEF HighestOnDisk
<1>4. HighestOnDisk(s) \in 0..MaxNum /\ Top(HighestOnDisk(s))
  <2> HIDE DEF Top
  <2> QED
    BY <1>2, <1>3
<1> QED
  BY <1>0, <1>4

-----------------------------------------------------------------------------
(* The inductive invariant.                                                 *)

\* No sprint that stories leave has its sprint.yaml replaced from an old copy.
SprintsLeftAreNotTouched == \A move \in Moves : move[1] \notin Touched

\* A file at a story's path.
Files == [work : Works \cup {NoWork}, name : Keys \cup {NoKey},
          deps : SUBSET Keys, prev : Seq(Keys)]

Jobs == [old : Keys \cup {NoKey}, new : Keys \cup {NoKey}, to : Sprints \cup {"none"},
         doc : BOOLEAN, left : SUBSET Keys, at : Keys \cup {NoKey}, node : Files,
         bucket : {"none", "planned", "active"}, next : Nat]

Places == {"idle", "raise", "gate", "rename", "doc", "rekey", "rekeydoc", "walk",
           "walksave", "mint", "newnode", "newdoc", "item", "sprint"}

Typed ==
  /\ nodes \in [Keys -> Files]
  /\ next \in [Sprints -> Nat]
  /\ issued \in [Keys -> SUBSET (Works \cup {NoWork})]
  /\ planned \subseteq Epics
  /\ holder \in [Flocks -> Procs \cup {NoProc}]
  /\ pc \in [Procs -> Places]
  /\ job \in [Procs -> Jobs]

\* A key that has been a story's is below `next`, or a story stands there, from
\* where the allocator sees it; and it has been one story's only.
KeysAreOnRecord ==
  \A key \in Keys :
    /\ \A v, w \in issued[key] : v = w
    /\ nodes[key].work \in issued[key] \cup {NoWork}
    /\ IsStory(key) => issued[key] # {}
    /\ issued[key] # {} => IsStory(key) \/ (key[1] \notin Touched /\ key[2] < next[key[1]])

\* The story a re-parent departs from is below `next` before it is renamed.
Departing(p) ==
  /\ job[p].old \in Keys /\ job[p].to \in Sprints /\ job[p].old[1] \notin Touched
  /\ pc[p] \in {"gate", "rename"} /\ EpicAt(job[p].old) \in planned =>
       job[p].old[2] < next[job[p].old[1]]

\* From the allocation to the end the destination's flock is held, and its epic
\* stays where it is.
Arriving(p) ==
  /\ job[p].new \in Keys /\ job[p].new[1] = job[p].to
  /\ holder[EpicOf[job[p].to]] = p
  /\ EpicOf[job[p].to] \in planned

\* A key allocated and not yet used is nobody's.
Reserved(p) == issued[job[p].new] = {} /\ nodes[job[p].new] = NoFile

\* What _rewrite_references has loaded is what an active story still is.
InWalk(p) ==
  /\ job[p].at \in Keys /\ job[p].node.deps # {}
  /\ job[p].node.work \in issued[job[p].at] \cup {NoWork}
  /\ issued[job[p].at] # {}
  /\ job[p].bucket \in {"planned", "active"}
  /\ job[p].bucket = "active" =>
       /\ EpicAt(job[p].at) \notin planned /\ IsStory(job[p].at)
       /\ nodes[job[p].at].work = job[p].node.work
       /\ nodes[job[p].at].name = job[p].node.name

Hand(p) ==
  /\ pc[p] \in {"raise", "gate", "rename", "doc", "rekey", "rekeydoc", "walk", "walksave"} =>
       Departing(p)
  /\ pc[p] \in {"rename", "doc", "rekey", "rekeydoc", "walk", "walksave"} => Arriving(p)
  /\ pc[p] \in {"doc", "rekey", "rekeydoc", "walk", "walksave"} => issued[job[p].new] # {}
  /\ pc[p] = "rename" => job[p].bucket = "planned"
  /\ pc[p] \in {"rename", "newnode"} => Reserved(p)
  /\ pc[p] = "walksave" => InWalk(p)
  /\ pc[p] \in {"mint", "newnode"} =>
       /\ job[p].to \in Sprints /\ holder[EpicOf[job[p].to]] = p
       /\ job[p].node.work \in Works
  /\ pc[p] = "newnode" => job[p].new \in Keys /\ job[p].new[1] = job[p].to
  /\ pc[p] = "sprint" => job[p].to \in Touched

IInv == Typed /\ KeysAreOnRecord /\ \A p \in Procs : Hand(p)

-----------------------------------------------------------------------------
(* Jobs.                                                                    *)

\* The jobs that the steps make of a job.
Asked(old, to) == [NoJob EXCEPT !.old = old, !.to = to]
Gated(j, new, b, d) == [j EXCEPT !.new = new, !.bucket = b, !.doc = d]
Walking(j) == [j EXCEPT !.left = Keys, !.bucket = "none"]
Visiting(j, key, file, b) ==
  [j EXCEPT !.left = @ \ {key}, !.at = key, !.node = file, !.bucket = b]
Visited(j) == [j EXCEPT !.at = NoKey, !.node = NoFile, !.bucket = "none"]
Promoting(s, f) == [NoJob EXCEPT !.to = s, !.node.work = f]
Resuming(s, new, f) == [NoJob EXCEPT !.to = s, !.new = new, !.node.work = f]
Minting(j, new) == [j EXCEPT !.new = new]
Touching(s, n) == [NoJob EXCEPT !.to = s, !.next = n]

LEMMA NothingTyped ==
  /\ NoFile \in Files /\ NoJob \in Jobs
  /\ NoFile.work = NoWork /\ NoFile.deps = {} /\ NoFile.name = NoKey
BY DEF NoFile, Files, NoJob, Jobs

LEMMA NewJobs ==
  /\ \A old \in Keys, to \in Sprints :
       Asked(old, to) \in Jobs /\ Asked(old, to).old = old /\ Asked(old, to).to = to
  /\ \A s \in Sprints, f \in Works :
       /\ Promoting(s, f) \in Jobs /\ Promoting(s, f).to = s /\ Promoting(s, f).node.work = f
       /\ \A new \in Keys \cup {NoKey} : Resuming(s, new, f) \in Jobs
  /\ \A s \in Sprints, n \in Nat : Touching(s, n) \in Jobs /\ Touching(s, n).to = s
<1>1. NoJob \in Jobs /\ NoJob.node = NoFile /\ NoFile \in Files
  BY NothingTyped DEF NoJob
<1>2. \A old \in Keys, to \in Sprints :
        Asked(old, to) \in Jobs /\ Asked(old, to).old = old /\ Asked(old, to).to = to
  BY <1>1 DEF Asked, Jobs
<1>3. ASSUME NEW f \in Works
      PROVE  [NoFile EXCEPT !.work = f] \in Files /\ [NoFile EXCEPT !.work = f].work = f
  BY <1>1 DEF Files
<1>4. ASSUME NEW s \in Sprints, NEW f \in Works, NEW new \in Keys \cup {NoKey}
      PROVE  /\ Promoting(s, f) \in Jobs /\ Promoting(s, f).to = s /\ Promoting(s, f).node.work = f
             /\ Resuming(s, new, f) \in Jobs
  BY <1>1, <1>3 DEF Promoting, Resuming, Jobs
<1>5. \A s \in Sprints, n \in Nat : Touching(s, n) \in Jobs /\ Touching(s, n).to = s
  BY <1>1 DEF Touching, Jobs
<1> QED
  BY <1>2, <1>4, <1>5

LEMMA GatedJob ==
  ASSUME NEW j \in Jobs, NEW new \in Keys, NEW d \in BOOLEAN
  PROVE  LET k == Gated(j, new, "planned", d)
         IN  k \in Jobs /\ k.old = j.old /\ k.to = j.to /\ k.new = new /\ k.bucket = "planned"
BY DEF Gated, Jobs

LEMMA WalkingJob ==
  ASSUME NEW j \in Jobs
  PROVE  /\ Walking(j) \in Jobs /\ Walking(j).old = j.old /\ Walking(j).to = j.to
         /\ Walking(j).new = j.new
BY DEF Walking, Jobs

LEMMA VisitingJob ==
  ASSUME NEW j \in Jobs, NEW key \in Keys, NEW file \in Files, NEW b \in {"planned", "active"}
  PROVE  /\ Visiting(j, key, file, b) \in Jobs /\ Visiting(j, key, file, b).old = j.old
         /\ Visiting(j, key, file, b).to = j.to /\ Visiting(j, key, file, b).new = j.new
         /\ Visiting(j, key, file, b).at = key /\ Visiting(j, key, file, b).node = file
         /\ Visiting(j, key, file, b).bucket = b
BY DEF Visiting, Jobs

LEMMA VisitedJob ==
  ASSUME NEW j \in Jobs
  PROVE  /\ Visited(j) \in Jobs /\ Visited(j).old = j.old /\ Visited(j).to = j.to
         /\ Visited(j).new = j.new
BY NothingTyped DEF Visited, Jobs

LEMMA MintingJob ==
  ASSUME NEW j \in Jobs, NEW new \in Keys
  PROVE  /\ Minting(j, new) \in Jobs /\ Minting(j, new).to = j.to
         /\ Minting(j, new).new = new /\ Minting(j, new).node = j.node
BY DEF Minting, Jobs

\* One process moves on with another job.
LEMMA OwnStep ==
  ASSUME Typed, NEW p \in Procs, NEW j \in Jobs, NEW to \in Places,
         job' = [job EXCEPT ![p] = j], pc' = [pc EXCEPT ![p] = to]
  PROVE  /\ job' \in [Procs -> Jobs] /\ pc' \in [Procs -> Places]
         /\ job'[p] = j /\ pc'[p] = to
         /\ \A q \in Procs : q # p => job'[q] = job[q] /\ pc'[q] = pc[q]
BY DEF Typed

-----------------------------------------------------------------------------
(* What the other processes rely on.                                        *)

LocksStay(p) == \A q \in Procs, l \in Flocks : q # p /\ holder[l] = q => holder'[l] = q

MarksRise == \A s \in Sprints : s \notin Touched => next[s] <= next'[s]

ReservedStay(p) ==
  \A q \in Procs : q # p /\ pc[q] \in {"rename", "newnode"} =>
    /\ issued'[job[q].new] = issued[job[q].new]
    /\ nodes'[job[q].new] = nodes[job[q].new]

ActiveStay ==
  \A key \in Keys : IsStory(key) /\ EpicAt(key) \notin planned =>
    IsStory(key)' /\ nodes'[key].work = nodes[key].work /\ nodes'[key].name = nodes[key].name

Rely(p) ==
  /\ \A q \in Procs : q # p => job'[q] = job[q] /\ pc'[q] = pc[q]
  /\ LocksStay(p)
  /\ planned' \subseteq planned /\ \A e \in planned \ planned' : holder[e] = NoProc
  /\ \A key \in Keys : issued[key] \subseteq issued'[key]
  /\ ReservedStay(p) /\ MarksRise /\ ActiveStay

LEMMA OthersHand ==
  ASSUME Typed, Typed', NEW p \in Procs, Rely(p), NEW q \in Procs, q # p, Hand(q)
  PROVE  Hand(q)'
<1>1. job'[q] = job[q] /\ pc'[q] = pc[q] /\ q # NoProc
  BY StoryKeysAssumption DEF Rely
<1>2. ASSUME Departing(q) PROVE Departing(q)'
  <2>1. /\ job[q].old \in Keys /\ job[q].old[1] \in Sprints /\ job[q].old[1] \notin Touched
        /\ job[q].old[2] \in Nat
    BY <1>2, StoryKeysAssumption DEF Departing, Keys
  <2>2. /\ next[job[q].old[1]] <= next'[job[q].old[1]]
        /\ next[job[q].old[1]] \in Nat /\ next'[job[q].old[1]] \in Nat
    BY <2>1 DEF Rely, MarksRise, Typed
  <2>3. EpicAt(job[q].old)' = EpicAt(job[q].old) /\ planned' \subseteq planned
    BY <1>1 DEF EpicAt, Rely
  <2> QED
    BY <1>1, <1>2, <2>1, <2>2, <2>3 DEF Departing
<1>3. ASSUME NEW s \in Sprints, holder[EpicOf[s]] = q
      PROVE  /\ holder'[EpicOf[s]] = q
             /\ EpicOf[s] \in planned => EpicOf[s] \in planned'
  <2>1. EpicOf[s] \in Flocks
    BY DEF Flocks, Epics
  <2> QED
    BY <1>1, <1>3, <2>1 DEF Rely, LocksStay
<1>4. ASSUME Arriving(q), job[q].to \in Sprints PROVE Arriving(q)'
  BY <1>1, <1>3, <1>4 DEF Arriving
<1>5. pc[q] \in {"rename", "newnode"} /\ Reserved(q) => Reserved(q)'
  BY <1>1 DEF Reserved, Rely, ReservedStay
<1>6. ASSUME InWalk(q) PROVE InWalk(q)'
  <2>1. job[q].at \in Keys /\ issued[job[q].at] \subseteq issued'[job[q].at] /\ planned' \subseteq planned
    BY <1>6 DEF InWalk, Rely
  <2>2. job[q].bucket = "active" =>
          /\ EpicAt(job[q].at) \notin planned' /\ IsStory(job[q].at)'
          /\ nodes'[job[q].at].work = job[q].node.work
          /\ nodes'[job[q].at].name = job[q].node.name
    BY <1>1, <1>6, <2>1 DEF InWalk, Rely, ActiveStay, IsStory
  <2>3. EpicAt(job[q].at)' = EpicAt(job[q].at)
    BY <1>1 DEF EpicAt
  <2> QED
    BY <1>1, <1>6, <2>1, <2>2, <2>3 DEF InWalk, IsStory
<1>7. /\ pc[q] \in {"doc", "rekey", "rekeydoc", "walk", "walksave"}
      /\ issued[job[q].new] # {}
      => issued'[job'[q].new] # {}
  BY <1>1 DEF Hand, Arriving, Rely
<1> QED
  BY <1>1, <1>2, <1>3, <1>4, <1>5, <1>6, <1>7 DEF Hand, Departing

\* A step that writes no node, and nobody's key.
LEMMA QuietStep ==
  ASSUME IInv, Typed', NEW p \in Procs, Hand(p)',
         UNCHANGED <<nodes, issued>>,
         \A q \in Procs : q # p => job'[q] = job[q] /\ pc'[q] = pc[q],
         LocksStay(p), MarksRise,
         planned' \subseteq planned, \A e \in planned \ planned' : holder[e] = NoProc
  PROVE  IInv' /\ ActiveStay
<1>1. ActiveStay
  BY DEF ActiveStay, IsStory
<1>2. Rely(p)
  BY <1>1 DEF Rely, ReservedStay
<1>3. KeysAreOnRecord'
  <2>1. ASSUME NEW key \in Keys, key[1] \notin Touched, key[2] < next[key[1]]
        PROVE  key[2] < next'[key[1]]
    <3>1. key[1] \in Sprints /\ key[2] \in Nat
      BY StoryKeysAssumption DEF Keys
    <3> QED
      BY <2>1, <3>1 DEF MarksRise, IInv, Typed
  <2> QED
    BY <2>1 DEF IInv, KeysAreOnRecord, IsStory
<1>4. \A q \in Procs : Hand(q)'
  BY <1>2, OthersHand DEF IInv
<1> QED
  BY <1>1, <1>3, <1>4 DEF IInv

\* Whoever gives up or is done holds nothing any more.
LEMMA LeaveStep ==
  ASSUME Typed, NEW p \in Procs, Leave(p)
  PROVE  /\ holder' \in [Flocks -> Procs \cup {NoProc}]
         /\ job' \in [Procs -> Jobs] /\ pc' \in [Procs -> Places]
         /\ pc'[p] = "idle"
         /\ \A q \in Procs : q # p => job'[q] = job[q] /\ pc'[q] = pc[q]
         /\ LocksStay(p) /\ Hand(p)'
<1>1. /\ job' = [job EXCEPT ![p] = NoJob] /\ pc' = [pc EXCEPT ![p] = "idle"]
      /\ holder' = [l \in Flocks |-> IF holder[l] = p THEN NoProc ELSE holder[l]]
  BY DEF Leave, SetJob, Goto
<1>2. /\ job' \in [Procs -> Jobs] /\ pc' \in [Procs -> Places]
      /\ pc'[p] = "idle"
      /\ \A q \in Procs : q # p => job'[q] = job[q] /\ pc'[q] = pc[q]
  BY <1>1, NothingTyped, OwnStep DEF Places
<1>3. holder' \in [Flocks -> Procs \cup {NoProc}] /\ LocksStay(p)
  BY <1>1 DEF Typed, LocksStay
<1>4. Hand(p)'
  BY <1>2 DEF Hand
<1> QED
  BY <1>2, <1>3, <1>4

\* `next` in a sprint is raised, whatever else.
LEMMA Raising ==
  ASSUME Typed, NEW s \in Sprints, NEW n \in Nat, next[s] <= n,
         next' = [next EXCEPT ![s] = n]
  PROVE  next' \in [Sprints -> Nat] /\ MarksRise /\ next'[s] = n
BY DEF Typed, MarksRise

\* The number handed out is new, and `next` goes beyond it.
LEMMA AllocatedIsNew ==
  ASSUME IInv, NEW s \in Sprints, Allocated(s) <= MaxNum
  PROVE  /\ <<s, Allocated(s)>> \in Keys
         /\ Allocated(s) \in Nat /\ next[s] <= Allocated(s) + 1
         /\ ~IsStory(<<s, Allocated(s)>>) /\ issued[<<s, Allocated(s)>>] = {}
<1> DEFINE key == <<s, Allocated(s)>>
<1>1. /\ next[s] \in Nat /\ HighestOnDisk(s) \in 0..MaxNum /\ MaxNum \in Nat
      /\ \A n \in 1..MaxNum : IsStory(<<s, n>>) => n <= HighestOnDisk(s)
  BY HighestOnDiskIs, StoryKeysAssumption DEF IInv, Typed
<1> HIDE DEF HighestOnDisk
<1>2. /\ Allocated(s) \in 1..MaxNum /\ next[s] <= Allocated(s)
      /\ HighestOnDisk(s) < Allocated(s)
  BY <1>1 DEF Allocated, Larger
<1>3. key \in Keys /\ key[1] = s /\ key[2] = Allocated(s)
  BY <1>2 DEF Keys
<1>4. ~IsStory(key)
  BY <1>1, <1>2
<1>5. issued[key] = {}
  BY <1>1, <1>2, <1>3, <1>4 DEF IInv, KeysAreOnRecord
<1> QED
  BY <1>1, <1>2, <1>3, <1>4, <1>5

-----------------------------------------------------------------------------
(* The steps that write no node.                                            *)

LEMMA AskStep ==
  ASSUME IInv, SprintsLeftAreNotTouched, NEW p \in Procs, Ask(p)
  PROVE  IInv' /\ ActiveStay
<1>1. PICK old \in Keys, move \in Moves :
        /\ issued[old] # {} /\ move[1] = old[1]
        /\ job' = [job EXCEPT ![p] = Asked(old, move[2])]
        /\ pc' = [pc EXCEPT ![p] = IF IsStory(old) /\ EpicAt(old) \in planned THEN "raise" ELSE "gate"]
  BY DEF Ask, SetJob, Goto, Asked
<1>2. UNCHANGED <<nodes, issued, next, planned, holder>>
  BY DEF Ask, tree
<1> DEFINE j == Asked(old, move[2])
           to == IF IsStory(old) /\ EpicAt(old) \in planned THEN "raise" ELSE "gate"
<1>3. move[2] \in Sprints /\ old[1] \notin Touched
  BY <1>1, StoryKeysAssumption DEF SprintsLeftAreNotTouched
<1>4. j \in Jobs /\ j.old = old /\ j.to = move[2]
  BY <1>3, NewJobs
<1> HIDE DEF j
<1>5. /\ job' \in [Procs -> Jobs] /\ pc' \in [Procs -> Places]
      /\ job'[p] = j /\ pc'[p] = to
      /\ \A q \in Procs : q # p => job'[q] = job[q] /\ pc'[q] = pc[q]
  BY <1>1, <1>4, OwnStep DEF IInv, Places, j
<1>6. pc'[p] = "gate" /\ EpicAt(old) \in planned => old[2] < next[old[1]]
  BY <1>1, <1>5 DEF IInv, KeysAreOnRecord
<1>7. Hand(p)'
  BY <1>2, <1>3, <1>4, <1>5, <1>6 DEF Hand, Departing, EpicAt
<1>8. Typed' /\ LocksStay(p) /\ MarksRise
  BY <1>2, <1>5 DEF IInv, Typed, LocksStay, MarksRise
<1> QED
  BY <1>2, <1>5, <1>7, <1>8, QuietStep

LEMMA RaiseStep ==
  ASSUME IInv, NEW p \in Procs, Raise(p)
  PROVE  IInv' /\ ActiveStay
<1> DEFINE s == job[p].old[1]
           n == Larger(next[s], job[p].old[2] + 1)
<1>1. /\ pc[p] = "raise" /\ next' = [next EXCEPT ![s] = n]
      /\ pc' = [pc EXCEPT ![p] = "gate"]
      /\ UNCHANGED <<nodes, issued, planned, holder, job>>
  BY DEF Raise, Goto, Raised
<1>2. Departing(p) /\ s \in Sprints /\ job[p].old[2] \in Nat /\ next[s] \in Nat
  BY <1>1, StoryKeysAssumption DEF IInv, Hand, Departing, Keys, Typed
<1>3. n \in Nat /\ next[s] <= n /\ job[p].old[2] < n
  BY <1>2 DEF Larger
<1>4. next' \in [Sprints -> Nat] /\ MarksRise /\ next'[s] = n
  BY <1>1, <1>2, <1>3, Raising DEF IInv
<1> HIDE DEF n
<1>5. Typed' /\ LocksStay(p) /\ pc'[p] = "gate" /\ \A q \in Procs : q # p => pc'[q] = pc[q]
  BY <1>1, <1>4 DEF IInv, Typed, LocksStay, Places
<1>6. Hand(p)'
  BY <1>1, <1>2, <1>3, <1>4, <1>5 DEF Hand, Departing, EpicAt
<1> QED
  BY <1>1, <1>4, <1>5, <1>6, QuietStep

LEMMA GateStep ==
  ASSUME IInv, NEW p \in Procs, Gate(p)
  PROVE  IInv' /\ ActiveStay
<1> DEFINE old == job[p].old
           to == job[p].to
           new == <<to, Allocated(to)>>
           j == Gated(job[p], new, "planned", docs[old] # NoDoc)
           lock == EpicOf[to]
<1>1. /\ pc[p] = "gate" /\ Movable(old, to) /\ Allocated(to) <= MaxNum
      /\ lock \in Flocks => holder[lock] = NoProc
      /\ next' = [next EXCEPT ![to] = Allocated(to) + 1]
      /\ job' = [job EXCEPT ![p] = Gated(job[p], new, Bucket(old), docs[old] # NoDoc)]
      /\ holder' = [l \in Flocks |-> IF l = lock THEN p ELSE holder[l]]
      /\ pc' = [pc EXCEPT ![p] = "rename"]
      /\ UNCHANGED <<nodes, issued, planned>>
  BY DEF Gate, GateLock, IsFree, Goto, SetJob, Gated
<1>2. /\ Departing(p) /\ to \in Sprints /\ lock \in Flocks /\ job[p] \in Jobs
      /\ EpicAt(old) \in planned /\ lock \in planned /\ Bucket(old) = "planned"
  BY <1>1 DEF IInv, Typed, Hand, Departing, Movable, Flocks, Epics, Bucket
<1>3. /\ new \in Keys /\ new[1] = to /\ Allocated(to) \in Nat /\ next[to] <= Allocated(to) + 1
      /\ ~IsStory(new) /\ issued[new] = {}
  BY <1>1, <1>2, AllocatedIsNew
<1> HIDE DEF new
<1>4. next' \in [Sprints -> Nat] /\ MarksRise
  <2> DEFINE n == Allocated(to) + 1
  <2>1. next' = [next EXCEPT ![to] = n] /\ n \in Nat /\ next[to] <= n
    BY <1>1, <1>3
  <2> HIDE DEF n
  <2> QED
    BY <1>2, <2>1, Raising DEF IInv
<1>5. j \in Jobs /\ j.old = old /\ j.to = to /\ j.new = new /\ j.bucket = "planned"
  BY <1>2, <1>3, GatedJob
<1>6. job' = [job EXCEPT ![p] = j]
  BY <1>1, <1>2
<1> HIDE DEF j
<1>7. /\ job' \in [Procs -> Jobs] /\ pc' \in [Procs -> Places]
      /\ job'[p] = j /\ pc'[p] = "rename"
      /\ \A q \in Procs : q # p => job'[q] = job[q] /\ pc'[q] = pc[q]
  BY <1>1, <1>5, <1>6, OwnStep DEF IInv, Places
<1>8. /\ holder' \in [Flocks -> Procs \cup {NoProc}] /\ holder'[lock] = p /\ LocksStay(p)
  BY <1>1, <1>2, StoryKeysAssumption DEF IInv, Typed, LocksStay
<1>9. Departing(p)'
  <2>1. /\ old \in Keys /\ old[1] \in Sprints /\ old[1] \notin Touched /\ old[2] \in Nat
        /\ old[2] < next[old[1]]
    BY <1>1, <1>2, StoryKeysAssumption DEF Departing, Keys
  <2>2. old[2] < next'[old[1]]
    BY <1>4, <2>1 DEF MarksRise, IInv, Typed
  <2> QED
    BY <1>2, <1>5, <1>7, <2>1, <2>2 DEF Departing
<1>10. Arriving(p)' /\ Reserved(p)'
  <2>1. job'[p].new = new /\ job'[p].to = to
    BY <1>5, <1>7
  <2>2. holder'[EpicOf[to]] = p /\ EpicOf[to] \in planned'
    BY <1>1, <1>2, <1>8
  <2>3. Arriving(p)'
    BY <1>3, <2>1, <2>2 DEF Arriving
  <2>4. issued'[new] = {} /\ nodes'[new] = NoFile
    BY <1>1, <1>3 DEF IsStory
  <2> QED
    BY <2>1, <2>3, <2>4 DEF Reserved
<1>11. Hand(p)'
  BY <1>5, <1>7, <1>9, <1>10 DEF Hand
<1>12. Typed'
  BY <1>1, <1>4, <1>7, <1>8 DEF IInv, Typed
<1> QED
  BY <1>1, <1>4, <1>7, <1>8, <1>11, <1>12, QuietStep

\* Giving up, or ending: the flocks are free again.
LEMMA EndStep ==
  ASSUME IInv, NEW p \in Procs, Leave(p), UNCHANGED <<nodes, issued, next, planned>>
  PROVE  IInv' /\ ActiveStay
<1>1. /\ holder' \in [Flocks -> Procs \cup {NoProc}]
      /\ job' \in [Procs -> Jobs] /\ pc' \in [Procs -> Places]
      /\ \A q \in Procs : q # p => job'[q] = job[q] /\ pc'[q] = pc[q]
      /\ LocksStay(p) /\ Hand(p)'
  BY LeaveStep DEF IInv
<1>2. Typed' /\ MarksRise
  BY <1>1 DEF IInv, Typed, MarksRise
<1> QED
  BY <1>1, <1>2, QuietStep

\* A step inside a verb that only turns to the next write.
LEMMA TurnStep ==
  ASSUME IInv, NEW p \in Procs, NEW to \in Places,
         pc' = [pc EXCEPT ![p] = to], UNCHANGED <<nodes, issued, next, planned, holder, job>>,
         \/ pc[p] = "doc" /\ to = "rekey"
         \/ pc[p] = "rekeydoc" /\ to = "walk"
         \/ pc[p] = "newdoc" /\ to = "item"
  PROVE  IInv' /\ ActiveStay
<1>1. /\ pc'[p] = to /\ pc' \in [Procs -> Places]
      /\ \A q \in Procs : q # p => job'[q] = job[q] /\ pc'[q] = pc[q]
  BY DEF IInv, Typed
<1>2. Hand(p)
  BY DEF IInv
<1>3. Hand(p)'
  BY <1>1, <1>2 DEF Hand, Departing, Arriving
<1>4. Typed' /\ MarksRise /\ LocksStay(p)
  BY <1>1 DEF IInv, Typed, MarksRise, LocksStay
<1> QED
  BY <1>1, <1>3, <1>4, QuietStep

LEMMA WalkLoadStep ==
  ASSUME IInv, NEW p \in Procs, WalkLoad(p)
  PROVE  IInv' /\ ActiveStay
<1>1. PICK key \in ToRewrite(p) :
        job' = [job EXCEPT ![p] = Visiting(job[p], key, nodes[key], Bucket(key))]
  BY DEF WalkLoad, SetJob, Visiting
<1>2. /\ pc[p] = "walk" /\ pc' = [pc EXCEPT ![p] = "walksave"]
      /\ UNCHANGED <<nodes, issued, next, planned, holder>>
  BY DEF WalkLoad, Goto, tree
<1>3. job[p] \in Jobs /\ key \in Keys /\ nodes[key] \in Files /\ Hand(p)
      /\ nodes[key].deps # {} /\ Bucket(key) \in {"planned", "active"}
  BY <1>1 DEF IInv, Typed, Jobs, ToRewrite, Bucket
<1> DEFINE j == Visiting(job[p], key, nodes[key], Bucket(key))
<1>4. /\ j \in Jobs /\ j.old = job[p].old /\ j.to = job[p].to /\ j.new = job[p].new
      /\ j.at = key /\ j.node = nodes[key] /\ j.bucket = Bucket(key)
  BY <1>3, VisitingJob
<1> HIDE DEF j
<1>5. /\ job' \in [Procs -> Jobs] /\ pc' \in [Procs -> Places]
      /\ job'[p] = j /\ pc'[p] = "walksave"
      /\ \A q \in Procs : q # p => job'[q] = job[q] /\ pc'[q] = pc[q]
  BY <1>1, <1>2, <1>4, OwnStep DEF IInv, Places, j
<1>6. InWalk(p)'
  <2>1. IsStory(key)
    BY <1>3, NothingTyped DEF IsStory
  <2>2. issued[key] # {} /\ nodes[key].work \in issued[key] \cup {NoWork}
    BY <1>3, <2>1 DEF IInv, KeysAreOnRecord
  <2>3. Bucket(key) = "active" => EpicAt(key) \notin planned
    BY DEF Bucket
  <2> QED
    BY <1>2, <1>3, <1>4, <1>5, <2>1, <2>2, <2>3 DEF InWalk, IsStory, EpicAt
<1>7. Hand(p)'
  BY <1>2, <1>3, <1>4, <1>5, <1>6 DEF Hand, Departing, Arriving
<1>8. Typed' /\ MarksRise /\ LocksStay(p)
  BY <1>2, <1>5 DEF IInv, Typed, MarksRise, LocksStay
<1> QED
  BY <1>2, <1>5, <1>7, <1>8, QuietStep

LEMMA PromoteTakeStep ==
  ASSUME IInv, NEW p \in Procs, PromoteTake(p)
  PROVE  IInv' /\ ActiveStay
<1>1. PICK f \in Findings, s \in Sprints :
        /\ holder[EpicOf[s]] = NoProc /\ holder["issues"] = NoProc
        /\ holder' = [holder EXCEPT ![EpicOf[s]] = p, !["issues"] = p]
        /\ \/ /\ job' = [job EXCEPT ![p] = Promoting(s, f)]
              /\ pc' = [pc EXCEPT ![p] = "mint"]
           \/ \E key \in Keys :
                /\ job' = [job EXCEPT ![p] = Resuming(s, nodes[key].name, f)]
                /\ pc' = [pc EXCEPT ![p] = "newdoc"]
  <2>1. PICK f \in Findings, s \in Sprints :
          /\ IsFree(EpicOf[s]) /\ IsFree("issues")
          /\ holder' = [holder EXCEPT ![EpicOf[s]] = p, !["issues"] = p]
          /\ \/ SetJob(p, [NoJob EXCEPT !.to = s, !.node.work = f]) /\ Goto(p, "mint")
             \/ /\ \E key \in Keys :
                     SetJob(p, [NoJob EXCEPT !.to = s, !.new = nodes[key].name, !.node.work = f])
                /\ Goto(p, "newdoc")
    BY DEF PromoteTake
  <2>2. CASE SetJob(p, [NoJob EXCEPT !.to = s, !.node.work = f]) /\ Goto(p, "mint")
    BY <2>1, <2>2 DEF IsFree, SetJob, Goto, Promoting
  <2>3. CASE /\ \E key \in Keys :
                  SetJob(p, [NoJob EXCEPT !.to = s, !.new = nodes[key].name, !.node.work = f])
             /\ Goto(p, "newdoc")
    <3>1. PICK key \in Keys :
            SetJob(p, [NoJob EXCEPT !.to = s, !.new = nodes[key].name, !.node.work = f])
      BY <2>3
    <3>2. job' = [job EXCEPT ![p] = Resuming(s, nodes[key].name, f)]
      BY <3>1 DEF SetJob, Resuming
    <3>3. pc' = [pc EXCEPT ![p] = "newdoc"]
      BY <2>3 DEF Goto
    <3> QED
      BY <2>1, <3>2, <3>3 DEF IsFree
  <2> QED
    BY <2>1, <2>2, <2>3
<1>2. UNCHANGED <<nodes, issued, next, planned>>
  BY DEF PromoteTake, tree
<1>3. EpicOf[s] \in Flocks /\ "issues" \in Flocks /\ EpicOf[s] # "issues" /\ f \in Works
  BY StoryKeysAssumption DEF Flocks, Epics
<1>4. /\ holder' \in [Flocks -> Procs \cup {NoProc}] /\ LocksStay(p) /\ holder'[EpicOf[s]] = p
  BY <1>1, <1>3, StoryKeysAssumption DEF IInv, Typed, LocksStay
<1>5. CASE job' = [job EXCEPT ![p] = Promoting(s, f)] /\ pc' = [pc EXCEPT ![p] = "mint"]
  <2> DEFINE j == Promoting(s, f)
  <2>1. j \in Jobs /\ j.to = s /\ j.node.work = f
    BY <1>3, NewJobs
  <2> HIDE DEF j
  <2>2. /\ job' \in [Procs -> Jobs] /\ pc' \in [Procs -> Places]
        /\ job'[p] = j /\ pc'[p] = "mint"
        /\ \A q \in Procs : q # p => job'[q] = job[q] /\ pc'[q] = pc[q]
    BY <1>5, <2>1, OwnStep DEF IInv, Places, j
  <2>3. Hand(p)'
    BY <1>3, <1>4, <2>1, <2>2 DEF Hand
  <2>4. Typed' /\ MarksRise
    BY <1>2, <1>4, <2>2 DEF IInv, Typed, MarksRise
  <2> QED
    BY <1>2, <1>4, <2>2, <2>3, <2>4, QuietStep
<1>6. ASSUME NEW key \in Keys,
             job' = [job EXCEPT ![p] = Resuming(s, nodes[key].name, f)],
             pc' = [pc EXCEPT ![p] = "newdoc"]
      PROVE  IInv' /\ ActiveStay
  <2> DEFINE j == Resuming(s, nodes[key].name, f)
  <2>1. nodes[key].name \in Keys \cup {NoKey}
    BY DEF IInv, Typed, Files
  <2>2. j \in Jobs
    BY <1>3, <2>1, NewJobs
  <2> HIDE DEF j
  <2>3. /\ job' \in [Procs -> Jobs] /\ pc' \in [Procs -> Places]
        /\ job'[p] = j /\ pc'[p] = "newdoc"
        /\ \A q \in Procs : q # p => job'[q] = job[q] /\ pc'[q] = pc[q]
    BY <1>6, <2>2, OwnStep DEF IInv, Places, j
  <2>4. Hand(p)'
    BY <2>3 DEF Hand
  <2>5. Typed' /\ MarksRise
    BY <1>2, <1>4, <2>3 DEF IInv, Typed, MarksRise
  <2> QED
    BY <1>2, <1>4, <2>3, <2>4, <2>5, QuietStep
<1> QED
  BY <1>1, <1>5, <1>6

LEMMA MintStep ==
  ASSUME IInv, NEW p \in Procs, Mint(p)
  PROVE  IInv' /\ ActiveStay
<1> DEFINE to == job[p].to
           new == <<to, Allocated(to)>>
           j == Minting(job[p], new)
<1>1. /\ pc[p] = "mint" /\ Allocated(to) <= MaxNum
      /\ next' = [next EXCEPT ![to] = Allocated(to) + 1]
      /\ job' = [job EXCEPT ![p] = j] /\ pc' = [pc EXCEPT ![p] = "newnode"]
      /\ UNCHANGED <<nodes, issued, planned, holder>>
  BY DEF Mint, SetJob, Goto, Minting
<1>2. /\ to \in Sprints /\ holder[EpicOf[to]] = p /\ job[p] \in Jobs /\ job[p].node.work \in Works
  BY <1>1 DEF IInv, Typed, Hand
<1>3. /\ new \in Keys /\ new[1] = to /\ Allocated(to) \in Nat /\ next[to] <= Allocated(to) + 1
      /\ ~IsStory(new) /\ issued[new] = {}
  BY <1>1, <1>2, AllocatedIsNew
<1>4. next' \in [Sprints -> Nat] /\ MarksRise
  <2> DEFINE n == Allocated(to) + 1
  <2>1. next' = [next EXCEPT ![to] = n] /\ n \in Nat /\ next[to] <= n
    BY <1>1, <1>3
  <2> HIDE DEF n
  <2> QED
    BY <1>2, <2>1, Raising DEF IInv
<1> HIDE DEF new
<1>5. j \in Jobs /\ j.to = to /\ j.new = new /\ j.node = job[p].node
  BY <1>2, <1>3, MintingJob
<1> HIDE DEF j
<1>6. /\ job' \in [Procs -> Jobs] /\ pc' \in [Procs -> Places]
      /\ job'[p] = j /\ pc'[p] = "newnode"
      /\ \A q \in Procs : q # p => job'[q] = job[q] /\ pc'[q] = pc[q]
  BY <1>1, <1>5, OwnStep DEF IInv, Places
<1>7. Reserved(p)'
  <2>1. issued'[new] = {} /\ nodes'[new] = NoFile /\ job'[p].new = new
    BY <1>1, <1>3, <1>5, <1>6 DEF IsStory
  <2> QED
    BY <2>1 DEF Reserved
<1>8. Hand(p)'
  BY <1>1, <1>2, <1>3, <1>5, <1>6, <1>7 DEF Hand
<1>9. Typed' /\ LocksStay(p)
  BY <1>1, <1>4, <1>6 DEF IInv, Typed, LocksStay
<1> QED
  BY <1>1, <1>4, <1>6, <1>8, <1>9, QuietStep

LEMMA SprintLoadStep ==
  ASSUME IInv, NEW p \in Procs, SprintLoad(p)
  PROVE  IInv' /\ ActiveStay
<1>1. PICK s \in Touched :
        job' = [job EXCEPT ![p] = Touching(s, next[s])] /\ pc' = [pc EXCEPT ![p] = "sprint"]
  BY DEF SprintLoad, SetJob, Goto, Touching
<1>2. UNCHANGED <<nodes, issued, next, planned, holder>>
  BY DEF SprintLoad, tree
<1> DEFINE j == Touching(s, next[s])
<1>3. j \in Jobs /\ j.to = s
  BY NewJobs, StoryKeysAssumption DEF IInv, Typed
<1> HIDE DEF j
<1>4. /\ job' \in [Procs -> Jobs] /\ pc' \in [Procs -> Places]
      /\ job'[p] = j /\ pc'[p] = "sprint"
      /\ \A q \in Procs : q # p => job'[q] = job[q] /\ pc'[q] = pc[q]
  BY <1>1, <1>3, OwnStep DEF IInv, Places, j
<1>5. Hand(p)'
  BY <1>3, <1>4 DEF Hand
<1>6. Typed' /\ LocksStay(p) /\ MarksRise
  BY <1>2, <1>4 DEF IInv, Typed, LocksStay, MarksRise
<1> QED
  BY <1>2, <1>4, <1>5, <1>6, QuietStep

LEMMA SprintSaveStep ==
  ASSUME IInv, NEW p \in Procs, SprintSave(p)
  PROVE  IInv' /\ ActiveStay
<1>1. /\ pc[p] = "sprint" /\ Leave(p) /\ UNCHANGED <<nodes, issued, planned>>
      /\ next' = [next EXCEPT ![job[p].to] = IF EpicOf[job[p].to] \in planned THEN job[p].next ELSE @]
  BY DEF SprintSave
<1>2. job[p].to \in Touched /\ job[p].next \in Nat
  BY <1>1 DEF IInv, Typed, Jobs, Hand
<1>3. next' \in [Sprints -> Nat] /\ MarksRise
  <2>1. job[p].to \in Sprints /\ next \in [Sprints -> Nat] /\ next[job[p].to] \in Nat
    BY <1>2, StoryKeysAssumption DEF IInv, Typed
  <2>2. next' \in [Sprints -> Nat]
    BY <1>1, <1>2, <2>1
  <2>3. \A s \in Sprints : s \notin Touched => next'[s] = next[s]
    BY <1>1, <1>2, <2>1
  <2> QED
    BY <2>1, <2>2, <2>3 DEF MarksRise
<1>4. /\ holder' \in [Flocks -> Procs \cup {NoProc}]
      /\ job' \in [Procs -> Jobs] /\ pc' \in [Procs -> Places]
      /\ \A q \in Procs : q # p => job'[q] = job[q] /\ pc'[q] = pc[q]
      /\ LocksStay(p) /\ Hand(p)'
  BY <1>1, LeaveStep DEF IInv
<1>5. Typed'
  BY <1>1, <1>3, <1>4 DEF IInv, Typed
<1> QED
  BY <1>1, <1>3, <1>4, <1>5, QuietStep

LEMMA ActivateStep ==
  ASSUME IInv, NEW p \in Procs, Activate(p)
  PROVE  IInv' /\ ActiveStay
<1>1. PICK e \in planned : holder[e] = NoProc /\ planned' = planned \ {e}
  BY DEF Activate, IsFree
<1>2. UNCHANGED <<nodes, next, holder, pc, job, issued>>
  BY DEF Activate
<1>3. Typed' /\ LocksStay(p) /\ MarksRise
  BY <1>1, <1>2 DEF IInv, Typed, LocksStay, MarksRise
<1>4. Hand(p)'
  <2>1. Hand(p) /\ p # NoProc
    BY StoryKeysAssumption DEF IInv
  <2>2. Departing(p) => Departing(p)'
    BY <1>1, <1>2 DEF Departing, EpicAt
  <2>3. Arriving(p) => Arriving(p)'
    BY <1>1, <1>2, <2>1 DEF Arriving
  <2>4. InWalk(p) => InWalk(p)'
    BY <1>1, <1>2 DEF InWalk, EpicAt, IsStory
  <2> QED
    BY <1>2, <2>1, <2>2, <2>3, <2>4 DEF Hand, Reserved
<1> QED
  BY <1>1, <1>2, <1>3, <1>4, QuietStep

-----------------------------------------------------------------------------
(* The steps that write a node.                                             *)

\* A key that is reserved is not written by anybody else: it has not been
\* issued, and two keys reserved in one sprint are of one holder.
LEMMA ReservedIsOwn ==
  ASSUME IInv, NEW p \in Procs, NEW q \in Procs, q # p,
         pc[q] \in {"rename", "newnode"}, NEW key \in Keys,
         \/ issued[key] # {}
         \/ pc[p] \in {"rename", "newnode"} /\ key = job[p].new
  PROVE  job[q].new # key
<1>1. /\ Hand(p) /\ Hand(q) /\ issued[job[q].new] = {}
      /\ holder[EpicOf[job[q].to]] = q /\ job[q].new[1] = job[q].to
  BY DEF IInv, Hand, Arriving, Reserved
<1>2. pc[p] \in {"rename", "newnode"} =>
        holder[EpicOf[job[p].to]] = p /\ job[p].new[1] = job[p].to
  BY <1>1 DEF Hand, Arriving
<1> QED
  BY <1>1, <1>2

LEMMA WriteStep ==
  ASSUME IInv, Typed', NEW p \in Procs, Hand(p)', NEW key \in Keys,
         \A q \in Procs : q # p => job'[q] = job[q] /\ pc'[q] = pc[q],
         UNCHANGED <<next, planned, holder>>,
         \A k \in Keys : k # key => issued'[k] = issued[k],
         issued[key] \subseteq issued'[key],
         issued[key] # {} \/ (pc[p] \in {"rename", "newnode"} /\ key = job[p].new),
         ActiveStay, KeysAreOnRecord',
         \A q \in Procs : q # p /\ pc[q] \in {"rename", "newnode"} =>
           nodes'[job[q].new] = nodes[job[q].new]
  PROVE  IInv' /\ ActiveStay
<1>1. ReservedStay(p)
  <2> SUFFICES ASSUME NEW q \in Procs, q # p, pc[q] \in {"rename", "newnode"}
               PROVE  /\ issued'[job[q].new] = issued[job[q].new]
                      /\ nodes'[job[q].new] = nodes[job[q].new]
    BY DEF ReservedStay
  <2>1. job[q].new # key /\ job[q].new \in Keys
    BY ReservedIsOwn DEF IInv, Hand, Arriving
  <2> QED
    BY <2>1
<1>2. LocksStay(p) /\ MarksRise
  BY DEF LocksStay, MarksRise, IInv, Typed
<1>3. Rely(p)
  BY <1>1, <1>2 DEF Rely
<1> QED
  BY <1>3, OthersHand DEF IInv

Born(w, key) == [NoFile EXCEPT !.work = w, !.name = key]

LEMMA NewNodeStep ==
  ASSUME IInv, NEW p \in Procs, NewNode(p)
  PROVE  IInv' /\ ActiveStay
<1> DEFINE new == job[p].new
           w == job[p].node.work
<1>1. /\ pc[p] = "newnode" /\ nodes' = [nodes EXCEPT ![new] = Born(w, new)]
      /\ issued' = [issued EXCEPT ![new] = issued[new] \cup {w}]
      /\ pc' = [pc EXCEPT ![p] = "newdoc"]
      /\ UNCHANGED <<next, planned, holder, job>>
  BY DEF NewNode, Goto, Born
<1>2. /\ new \in Keys /\ w \in Works /\ issued[new] = {} /\ nodes[new] = NoFile
  BY <1>1 DEF IInv, Hand, Reserved
<1>3. Born(w, new) \in Files /\ Born(w, new).work = w
  BY <1>2, NothingTyped DEF Born, Files
<1>4. /\ nodes'[new] = Born(w, new) /\ issued'[new] = {w}
      /\ \A k \in Keys : k # new => nodes'[k] = nodes[k] /\ issued'[k] = issued[k]
  BY <1>1, <1>2 DEF IInv, Typed
<1>5. Typed' /\ pc'[p] = "newdoc" /\ \A q \in Procs : q # p => pc'[q] = pc[q]
  BY <1>1, <1>2, <1>3 DEF IInv, Typed, Places
<1>6. Hand(p)'
  BY <1>5 DEF Hand
<1>7. ActiveStay
  BY <1>2, <1>4 DEF ActiveStay, IsStory
<1>8. KeysAreOnRecord'
  <2>1. Born(w, new) # NoFile
    BY <1>2, <1>3, NothingTyped, StoryKeysAssumption
  <2>2. ASSUME NEW key \in Keys
        PROVE  /\ \A v, u \in issued'[key] : v = u
               /\ nodes'[key].work \in issued'[key] \cup {NoWork}
               /\ nodes'[key] # NoFile => issued'[key] # {}
               /\ issued'[key] # {} =>
                    nodes'[key] # NoFile \/ (key[1] \notin Touched /\ key[2] < next[key[1]])
    <3>1. CASE key = new
      <4>1. nodes'[key] = Born(w, new) /\ issued'[key] = {w}
        BY <1>4, <3>1
      <4> QED
        BY <1>3, <2>1, <4>1
    <3>2. CASE key # new
      BY <1>4, <3>2 DEF IInv, KeysAreOnRecord, IsStory
    <3> QED
      BY <3>1, <3>2
  <2> QED
    BY <1>1, <2>2 DEF KeysAreOnRecord, IsStory
<1>9. \A q \in Procs : q # p /\ pc[q] \in {"rename", "newnode"} => job[q].new # new /\ job[q].new \in Keys
  BY <1>1, <1>2, ReservedIsOwn DEF IInv, Hand, Arriving
<1> QED
  BY <1>1, <1>2, <1>4, <1>5, <1>6, <1>7, <1>8, <1>9, WriteStep

LEMMA RenameStep ==
  ASSUME IInv, NEW p \in Procs, Rename(p)
  PROVE  IInv' /\ ActiveStay
<1> DEFINE old == job[p].old
           new == job[p].new
<1>1. /\ pc[p] = "rename" /\ IsStory(old) /\ job[p].bucket = Bucket(old)
      /\ nodes' = [nodes EXCEPT ![old] = NoFile, ![new] = nodes[old]]
      /\ issued' = [issued EXCEPT ![new] = issued[new] \cup {nodes[old].work}]
      /\ pc' = [pc EXCEPT ![p] = IF job[p].doc THEN "doc" ELSE "rekey"]
      /\ UNCHANGED <<next, planned, holder, job>>
  BY DEF Rename, IsWhereItWas, Goto
<1>2. /\ old \in Keys /\ new \in Keys /\ issued[new] = {} /\ nodes[new] = NoFile /\ old # new
      /\ EpicAt(old) \in planned /\ old[1] \notin Touched /\ old[2] < next[old[1]]
      /\ Departing(p) /\ Arriving(p)
  BY <1>1 DEF IInv, Hand, Reserved, Departing, Arriving, IsStory, Bucket
<1>3. /\ nodes'[new] = nodes[old] /\ nodes'[old] = NoFile /\ issued'[new] = {nodes[old].work}
      /\ \A k \in Keys : k # new => issued'[k] = issued[k]
      /\ \A k \in Keys \ {old, new} : nodes'[k] = nodes[k]
  BY <1>1, <1>2 DEF IInv, Typed
<1>4. /\ Typed' /\ pc'[p] \in {"doc", "rekey"} /\ \A q \in Procs : q # p => pc'[q] = pc[q]
  <2>1. nodes[old] \in Files /\ nodes[old].work \in Works \cup {NoWork}
    BY <1>2 DEF IInv, Typed, Files
  <2>2. nodes' \in [Keys -> Files] /\ issued' \in [Keys -> SUBSET (Works \cup {NoWork})]
    BY <1>1, <1>2, <2>1, NothingTyped DEF IInv, Typed
  <2>3. pc' \in [Procs -> Places] /\ pc'[p] \in {"doc", "rekey"}
        /\ \A q \in Procs : q # p => pc'[q] = pc[q]
    BY <1>1 DEF IInv, Typed, Places
  <2> QED
    BY <1>1, <2>2, <2>3 DEF IInv, Typed
<1>5. Hand(p)'
  <2>1. issued'[job'[p].new] # {}
    BY <1>1, <1>3
  <2>2. Arriving(p)' /\ Departing(p)'
    BY <1>1, <1>2, <1>4 DEF Arriving, Departing
  <2> QED
    BY <1>4, <2>1, <2>2 DEF Hand
<1>6. ActiveStay
  BY <1>2, <1>3 DEF ActiveStay, IsStory
<1>7. KeysAreOnRecord'
  <2>1. ASSUME NEW key \in Keys
        PROVE  /\ \A v, w \in issued'[key] : v = w
               /\ nodes'[key].work \in issued'[key] \cup {NoWork}
               /\ nodes'[key] # NoFile => issued'[key] # {}
               /\ issued'[key] # {} => nodes'[key] # NoFile \/ (key[1] \notin Touched /\ key[2] < next[key[1]])
    <3>1. CASE key = new
      <4>1. nodes'[key] = nodes[old] /\ nodes[old] # NoFile /\ issued'[key] = {nodes[old].work}
        BY <1>1, <1>3, <3>1 DEF IsStory
      <4> QED
        BY <4>1
    <3>2. CASE key = old
      BY <1>2, <1>3, <3>2, NothingTyped DEF IInv, KeysAreOnRecord
    <3>3. CASE key \notin {old, new}
      BY <1>3, <3>3 DEF IInv, KeysAreOnRecord, IsStory
    <3> QED
      BY <3>1, <3>2, <3>3
  <2> QED
    BY <1>1, <2>1 DEF KeysAreOnRecord, IsStory
<1>8. \A q \in Procs : q # p /\ pc[q] \in {"rename", "newnode"} =>
        job[q].new # new /\ job[q].new # old /\ job[q].new \in Keys
  <2>1. issued[old] # {}
    BY <1>1, <1>2 DEF IInv, KeysAreOnRecord
  <2> QED
    BY <1>1, <1>2, <2>1, ReservedIsOwn DEF IInv, Hand, Arriving
<1>9. \A q \in Procs : q # p /\ pc[q] \in {"rename", "newnode"} =>
        nodes'[job[q].new] = nodes[job[q].new]
  BY <1>3, <1>8
<1>10. issued[new] \subseteq issued'[new] /\ \A q \in Procs : q # p => job'[q] = job[q]
  BY <1>1, <1>2
<1>11. /\ new \in Keys /\ UNCHANGED <<next, planned, holder>>
       /\ pc[p] \in {"rename", "newnode"} /\ new = job[p].new
       /\ \A k \in Keys : k # new => issued'[k] = issued[k]
       /\ \A q \in Procs : q # p => job'[q] = job[q] /\ pc'[q] = pc[q]
  BY <1>1, <1>2, <1>3, <1>4, <1>10
<1> HIDE DEF new
<1> QED
  BY <1>4, <1>5, <1>6, <1>7, <1>9, <1>10, <1>11, WriteStep

LEMMA RekeyStep ==
  ASSUME IInv, NEW p \in Procs, Rekey(p)
  PROVE  IInv' /\ ActiveStay
<1> DEFINE new == job[p].new
           to == IF job[p].doc THEN "rekeydoc" ELSE "walk"
<1>1. /\ pc[p] = "rekey" /\ nodes' = [nodes EXCEPT ![new] = Rekeyed(p)]
      /\ job' = [job EXCEPT ![p] = Walking(job[p])] /\ pc' = [pc EXCEPT ![p] = to]
      /\ UNCHANGED <<next, planned, holder, issued>>
  BY DEF Rekey, SetJob, Goto, Walking
<1>2. /\ Departing(p) /\ Arriving(p) /\ new \in Keys /\ job[p].old \in Keys
      /\ issued[new] # {} /\ job[p] \in Jobs /\ nodes[new] \in Files
  BY <1>1 DEF IInv, Typed, Hand, Departing, Arriving
<1>3. Rekeyed(p) \in Files /\ Rekeyed(p).work = nodes[new].work /\ Rekeyed(p).name = new
  <2>1. nodes[new].prev \in Seq(Keys)
    BY <1>2 DEF Files
  <2>2. Append(nodes[new].prev, job[p].old) \in Seq(Keys)
    BY <1>2, <2>1, AppendProperties
  <2> DEFINE prev == Append(nodes[new].prev, job[p].old)
  <2>3. Rekeyed(p) = [nodes[new] EXCEPT !.name = new, !.prev = prev]
    BY DEF Rekeyed
  <2>4. prev \in Seq(Keys)
    BY <2>2
  <2> HIDE DEF prev
  <2> QED
    BY <1>2, <2>3, <2>4 DEF Files
<1>4. Rekeyed(p) # NoFile
  BY <1>2, <1>3, NothingTyped, StoryKeysAssumption
<1> HIDE DEF Rekeyed
<1>5. nodes'[new] = Rekeyed(p) /\ \A k \in Keys : k # new => nodes'[k] = nodes[k]
  BY <1>1, <1>2 DEF IInv, Typed
<1>6. /\ Walking(job[p]) \in Jobs /\ Walking(job[p]).old = job[p].old
      /\ Walking(job[p]).to = job[p].to /\ Walking(job[p]).new = new
  BY <1>2, WalkingJob
<1>7. /\ job' \in [Procs -> Jobs] /\ pc' \in [Procs -> Places]
      /\ job'[p] = Walking(job[p]) /\ pc'[p] = to
      /\ \A q \in Procs : q # p => job'[q] = job[q] /\ pc'[q] = pc[q]
  BY <1>1, <1>6, OwnStep DEF IInv, Places
<1>8. Typed'
  BY <1>1, <1>2, <1>3, <1>7 DEF IInv, Typed
<1>9. Hand(p)'
  BY <1>1, <1>2, <1>6, <1>7 DEF Hand, Departing, Arriving
<1>10. ActiveStay
  <2>1. EpicAt(new) \in planned
    BY <1>2 DEF Arriving, EpicAt
  <2> QED
    BY <1>5, <2>1 DEF ActiveStay, IsStory
<1>11. KeysAreOnRecord'
  BY <1>1, <1>2, <1>3, <1>4, <1>5 DEF IInv, KeysAreOnRecord, IsStory
<1>12. \A q \in Procs : q # p /\ pc[q] \in {"rename", "newnode"} => job[q].new # new /\ job[q].new \in Keys
  BY <1>2, ReservedIsOwn DEF IInv, Hand, Arriving
<1> QED
  BY <1>1, <1>2, <1>5, <1>7, <1>8, <1>9, <1>10, <1>11, <1>12, WriteStep

Redirected(file, deps) == [file EXCEPT !.deps = deps]

LEMMA WalkSaveStep ==
  ASSUME IInv, NEW p \in Procs, WalkSave(p)
  PROVE  IInv' /\ ActiveStay
<1> DEFINE at == job[p].at
           file == Redirected(job[p].node, Repointed(p))
<1>1. /\ pc[p] = "walksave"
      /\ nodes' = [nodes EXCEPT ![at] = IF job[p].bucket = Bucket(at) THEN file ELSE nodes[at]]
      /\ job' = [job EXCEPT ![p] = Visited(job[p])] /\ pc' = [pc EXCEPT ![p] = "walk"]
      /\ UNCHANGED <<next, planned, holder, issued>>
  BY DEF WalkSave, SetJob, Goto, Visited, Redirected
<1>2. /\ Departing(p) /\ Arriving(p) /\ InWalk(p) /\ at \in Keys /\ job[p].new \in Keys
      /\ issued[at] # {} /\ issued[job[p].new] # {} /\ job[p] \in Jobs /\ job[p].node \in Files
  BY <1>1 DEF IInv, Typed, Jobs, Hand, Arriving, InWalk
<1>3. Repointed(p) \subseteq Keys /\ Repointed(p) # {}
  <2>1. job[p].node.deps \subseteq Keys /\ job[p].node.deps # {}
    BY <1>2 DEF Files, InWalk
  <2> QED
    BY <1>2, <2>1 DEF Repointed
<1> HIDE DEF Repointed
<1>4. /\ file \in Files /\ file.work = job[p].node.work /\ file.name = job[p].node.name
      /\ file # NoFile
  BY <1>2, <1>3, NothingTyped DEF Redirected, Files
<1> HIDE DEF file
<1>5. /\ nodes'[at] = IF job[p].bucket = Bucket(at) THEN file ELSE nodes[at]
      /\ \A k \in Keys : k # at => nodes'[k] = nodes[k]
      /\ nodes' \in [Keys -> Files]
  BY <1>1, <1>2, <1>4 DEF IInv, Typed
<1>6. /\ Visited(job[p]) \in Jobs /\ Visited(job[p]).old = job[p].old
      /\ Visited(job[p]).to = job[p].to /\ Visited(job[p]).new = job[p].new
  BY <1>2, VisitedJob
<1>7. /\ job' \in [Procs -> Jobs] /\ pc' \in [Procs -> Places]
      /\ job'[p] = Visited(job[p]) /\ pc'[p] = "walk"
      /\ \A q \in Procs : q # p => job'[q] = job[q] /\ pc'[q] = pc[q]
  BY <1>1, <1>6, OwnStep DEF IInv, Places
<1>8. Typed'
  BY <1>1, <1>5, <1>7 DEF IInv, Typed
<1>9. Hand(p)'
  BY <1>1, <1>2, <1>6, <1>7 DEF Hand, Departing, Arriving
<1>10. ActiveStay
  <2>1. EpicAt(at) \notin planned => Bucket(at) = "active"
    BY DEF Bucket
  <2> QED
    BY <1>2, <1>4, <1>5, <2>1 DEF ActiveStay, IsStory, InWalk
<1>11. KeysAreOnRecord'
  BY <1>1, <1>2, <1>4, <1>5 DEF IInv, KeysAreOnRecord, IsStory, InWalk
<1>12. \A q \in Procs : q # p /\ pc[q] \in {"rename", "newnode"} => job[q].new # at /\ job[q].new \in Keys
  BY <1>2, ReservedIsOwn DEF IInv, Hand, Arriving
<1> QED
  BY <1>1, <1>2, <1>5, <1>7, <1>8, <1>9, <1>10, <1>11, <1>12, WriteStep

-----------------------------------------------------------------------------
(* The invariant is inductive.                                              *)

LEMMA Initially == Init => IInv
<1> SUFFICES ASSUME Init PROVE IInv
  OBVIOUS
<1>1. /\ holder \in [Flocks -> Procs \cup {NoProc}] /\ pc \in [Procs -> Places]
      /\ job \in [Procs -> Jobs] /\ next \in [Sprints -> Nat] /\ planned \subseteq Epics
      /\ \A p \in Procs : pc[p] = "idle"
  BY NothingTyped DEF Init, Places
<1>2. /\ issued \in [Keys -> SUBSET (Works \cup {NoWork})]
      /\ \A key \in Keys : issued[key] = {w \in Works \ Findings : Placed[w] = key}
  BY DEF Init
<1>3. ASSUME NEW key \in Keys, NEW w \in Works \ Findings, Placed[w] = key
      PROVE  /\ issued[key] = {w} /\ nodes[key] \in Files /\ nodes[key] # NoFile
             /\ nodes[key].work = w
  <2> DEFINE v == CHOOSE v \in Works \ Findings : Placed[v] = key
  <2>1. v = w
    BY <1>3, StoryKeysAssumption
  <2>2. nodes[key] = [work |-> w, name |-> key, deps |-> {Placed[u] : u \in Needs[w]}, prev |-> <<>>]
    BY <1>3, <2>1 DEF Init
  <2>3. {Placed[u] : u \in Needs[w]} \subseteq Keys
    BY StoryKeysAssumption
  <2>4. issued[key] = {w}
    BY <1>2, <1>3, StoryKeysAssumption
  <2>5. nodes[key].work = w /\ w # NoWork
    BY <2>2, StoryKeysAssumption
  <2>6. nodes[key] \in Files
    <3> DEFINE deps == {Placed[u] : u \in Needs[w]}
    <3>1. nodes[key] = [work |-> w, name |-> key, deps |-> deps, prev |-> <<>>]
      BY <2>2
    <3>2. deps \in SUBSET Keys /\ <<>> \in Seq(Keys) /\ w \in Works
      BY <2>3
    <3> HIDE DEF deps
    <3> QED
      BY <3>1, <3>2 DEF Files
  <2> QED
    BY <2>4, <2>5, <2>6, NothingTyped
<1>4. ASSUME NEW key \in Keys, ~\E w \in Works \ Findings : Placed[w] = key
      PROVE  issued[key] = {} /\ nodes[key] = NoFile
  BY <1>2, <1>4 DEF Init
<1>5. nodes \in [Keys -> Files]
  <2>1. \A key \in Keys : nodes[key] \in Files
    BY <1>3, <1>4, NothingTyped
  <2>2. nodes = [key \in Keys |-> nodes[key]]
    BY DEF Init
  <2> QED
    BY <2>1, <2>2
<1>6. KeysAreOnRecord
  <2>1. ASSUME NEW key \in Keys
        PROVE  /\ \A v, w \in issued[key] : v = w
               /\ nodes[key].work \in issued[key] \cup {NoWork}
               /\ IsStory(key) <=> issued[key] # {}
    BY <1>3, <1>4, NothingTyped DEF IsStory
  <2> QED
    BY <2>1 DEF KeysAreOnRecord
<1> QED
  BY <1>1, <1>2, <1>5, <1>6 DEF IInv, Typed, Hand

LEMMA ProcStep ==
  ASSUME IInv, SprintsLeftAreNotTouched, NEW p \in Procs,
         Reparent(p) \/ Promote(p) \/ Activate(p) \/ SprintLoad(p) \/ SprintSave(p) \/ Crash(p)
  PROVE  IInv' /\ ActiveStay
<1>1. CASE Ask(p) \/ Raise(p) \/ Gate(p)
  BY <1>1, AskStep, RaiseStep, GateStep
<1>2. CASE Rename(p) \/ Rekey(p) \/ WalkLoad(p) \/ WalkSave(p)
  BY <1>2, RenameStep, RekeyStep, WalkLoadStep, WalkSaveStep
<1>3. CASE GateRefuses(p) \/ RenameFails(p) \/ Repoint(p) \/ SaveItem(p) \/ Crash(p)
  BY <1>3, EndStep DEF GateRefuses, RenameFails, Repoint, SaveItem, Crash, tree
<1>4. CASE MoveDoc(p) \/ RekeyDoc(p)
  BY <1>4, TurnStep DEF MoveDoc, RekeyDoc, Goto, Places
<1>5. CASE NewDoc(p)
  <2>1. CASE Leave(p)
    BY <1>5, <2>1, EndStep DEF NewDoc
  <2>2. CASE Goto(p, "item") /\ UNCHANGED <<holder, job>>
    BY <1>5, <2>2, TurnStep DEF NewDoc, Goto, Places
  <2> QED
    BY <1>5, <2>1, <2>2 DEF NewDoc
<1>6. CASE PromoteTake(p) \/ Mint(p) \/ NewNode(p)
  BY <1>6, PromoteTakeStep, MintStep, NewNodeStep
<1>7. CASE Activate(p) \/ SprintLoad(p) \/ SprintSave(p)
  BY <1>7, ActivateStep, SprintLoadStep, SprintSaveStep
<1> QED
  BY <1>1, <1>2, <1>3, <1>4, <1>5, <1>6, <1>7 DEF Reparent, Promote

LEMMA Inductive ==
  ASSUME SprintsLeftAreNotTouched
  PROVE  IInv /\ [Next]_vars => IInv'
<1>1. ASSUME IInv, Next PROVE IInv'
  BY <1>1, ProcStep DEF Next
<1>2. ASSUME IInv, UNCHANGED vars PROVE IInv'
  BY <1>2 DEF vars, IInv, Typed, KeysAreOnRecord, Hand, Departing, Arriving, Reserved, InWalk,
              IsStory, EpicAt
<1> QED
  BY <1>1, <1>2

LEMMA Invariant ==
  ASSUME SprintsLeftAreNotTouched
  PROVE  Spec => []IInv
<1>1. IInv /\ [Next]_vars => IInv'
  BY Inductive
<1> QED
  BY <1>1, Initially, PTL DEF Spec

\* _next_story_key: a key that was ever a story's is never another's, however
\* many re-parents and promotions run and die, if no `set-status` replaces the
\* sprint.yaml of a sprint that stories leave.
THEOREM KeysAreNotReused == SprintsLeftAreNotTouched => (Spec => []KeyNamesOneStory)
<1> SUFFICES ASSUME SprintsLeftAreNotTouched PROVE Spec => []KeyNamesOneStory
  OBVIOUS
<1>1. ASSUME IInv, NEW key \in Keys PROVE Cardinality(issued[key]) <= 1
  <2>1. \A v, w \in issued[key] : v = w
    BY <1>1 DEF IInv, KeysAreOnRecord
  <2>2. CASE issued[key] = {}
    BY <2>2, FS_EmptySet
  <2>3. CASE issued[key] # {}
    <3>1. PICK w \in issued[key] : issued[key] = {w}
      BY <2>1, <2>3
    <3>2. Cardinality({w}) = 1
      BY FS_Singleton
    <3> QED
      BY <3>1, <3>2
  <2> QED
    BY <2>2, <2>3
<1>2. IInv => KeyNamesOneStory
  BY <1>1 DEF KeyNamesOneStory
<1>3. Spec => []IInv
  BY Invariant
<1> QED
  BY <1>2, <1>3, PTL

\* "Planned work only": no re-parent changes the place or the key of a story
\* whose epic is not planned, nor does a rewritten reference, even when the
\* epic is activated under the running verb.
THEOREM ActiveStoriesKeepTheirKeys == SprintsLeftAreNotTouched => (Spec => ActiveStoriesStay)
<1> SUFFICES ASSUME SprintsLeftAreNotTouched PROVE Spec => ActiveStoriesStay
  OBVIOUS
<1> DEFINE Stay == \A key \in Keys : IsStory(key) /\ EpicAt(key) \notin planned =>
                     /\ nodes'[key].work = nodes[key].work
                     /\ nodes'[key].name = nodes[key].name
<1>1. ASSUME IInv, Next PROVE Stay
  <2>1. ActiveStay
    BY <1>1, ProcStep DEF Next
  <2> QED
    BY <2>1 DEF ActiveStay
<1>2. IInv /\ [Next]_vars => [Stay]_vars
  BY <1>1
<1>3. Spec => []IInv
  BY Invariant
<1> QED
  BY <1>2, <1>3, PTL DEF Spec, ActiveStoriesStay
-----------------------------------------------------------------------------
(* What the steps do to a process's job, and what they leave alone.         *)

OthersWait(p) == \A q \in Procs : q # p => job'[q] = job[q] /\ pc'[q] = pc[q]

LEMMA AskDoes ==
  ASSUME IInv, NEW p \in Procs, Ask(p)
  PROVE  /\ pc'[p] \in {"raise", "gate"} /\ job'[p].old \in Keys /\ issued[job'[p].old] # {}
         /\ \E move \in Moves : move[1] = job'[p].old[1] /\ move[2] = job'[p].to
         /\ pc'[p] = "gate" => ~IsStory(job'[p].old) \/ EpicAt(job'[p].old) \notin planned
         /\ UNCHANGED <<nodes, docs, refs, planned, holder, issued, cut>> /\ OthersWait(p)
<1>1. PICK old \in Keys, move \in Moves :
        /\ issued[old] # {} /\ move[1] = old[1]
        /\ job' = [job EXCEPT ![p] = Asked(old, move[2])]
        /\ pc' = [pc EXCEPT ![p] = IF IsStory(old) /\ EpicAt(old) \in planned THEN "raise" ELSE "gate"]
  BY DEF Ask, SetJob, Goto, Asked
<1> DEFINE j == Asked(old, move[2])
<1>2. j \in Jobs /\ j.old = old /\ j.to = move[2]
  BY <1>1, NewJobs, StoryKeysAssumption
<1> HIDE DEF j
<1>3. /\ job'[p] = j /\ OthersWait(p)
      /\ pc'[p] = IF IsStory(old) /\ EpicAt(old) \in planned THEN "raise" ELSE "gate"
  BY <1>1, <1>2, OwnStep DEF IInv, Places, j, OthersWait
<1>4. UNCHANGED <<nodes, docs, refs, planned, holder, issued, cut>>
  BY DEF Ask, tree
<1> QED
  BY <1>1, <1>2, <1>3, <1>4

LEMMA RaiseDoes ==
  ASSUME IInv, NEW p \in Procs, Raise(p)
  PROVE  /\ pc[p] = "raise" /\ pc'[p] = "gate" /\ holder[EpicAt(job[p].old)] = NoProc
         /\ UNCHANGED <<nodes, docs, refs, planned, holder, job, issued, cut>> /\ OthersWait(p)
BY DEF IInv, Typed, Raise, Goto, IsFree, OthersWait

LEMMA GateDoes ==
  ASSUME IInv, NEW p \in Procs, Gate(p)
  PROVE  /\ pc[p] = "gate" /\ pc'[p] = "rename" /\ holder[EpicOf[job[p].to]] = NoProc
         /\ job'[p].old = job[p].old /\ job'[p].to = job[p].to
         /\ job'[p].doc = (docs[job[p].old] # NoDoc)
         /\ IsStory(job[p].old) /\ EpicAt(job[p].old) \in planned
         /\ UNCHANGED <<nodes, docs, refs, planned, issued, cut>> /\ OthersWait(p) /\ LocksStay(p)
<1> DEFINE old == job[p].old
           to == job[p].to
           new == <<to, Allocated(to)>>
           d == docs[old] # NoDoc
           j == Gated(job[p], new, "planned", d)
           lock == EpicOf[to]
<1>1. /\ pc[p] = "gate" /\ Movable(old, to) /\ Allocated(to) <= MaxNum
      /\ lock \in Flocks => holder[lock] = NoProc
      /\ job' = [job EXCEPT ![p] = Gated(job[p], new, Bucket(old), d)]
      /\ holder' = [l \in Flocks |-> IF l = lock THEN p ELSE holder[l]]
      /\ pc' = [pc EXCEPT ![p] = "rename"]
      /\ UNCHANGED <<nodes, docs, refs, planned, issued, cut>>
  BY DEF Gate, GateLock, IsFree, Goto, SetJob, Gated
<1>2. /\ to \in Sprints /\ lock \in Flocks /\ job[p] \in Jobs
      /\ EpicAt(old) \in planned /\ Bucket(old) = "planned" /\ IsStory(old)
  BY <1>1 DEF IInv, Typed, Hand, Departing, Movable, Flocks, Epics, Bucket
<1>3. new \in Keys
  BY <1>1, <1>2, AllocatedIsNew
<1>4. d \in BOOLEAN
  OBVIOUS
<1> HIDE DEF new, d
<1>5. j \in Jobs /\ j.old = old /\ j.to = to
  BY <1>2, <1>3, <1>4, GatedJob
<1>6. j.doc = d
  BY <1>2 DEF Gated, Jobs
<1>7. job' = [job EXCEPT ![p] = j]
  BY <1>1, <1>2
<1> HIDE DEF j
<1>8. job'[p] = j /\ pc'[p] = "rename" /\ OthersWait(p)
  BY <1>1, <1>5, <1>7, OwnStep DEF IInv, Places, OthersWait
<1>9. LocksStay(p)
  BY <1>1, <1>2, StoryKeysAssumption DEF IInv, Typed, LocksStay
<1> QED
  BY <1>1, <1>2, <1>5, <1>6, <1>8, <1>9 DEF d

LEMMA RenameDoes ==
  ASSUME IInv, NEW p \in Procs, Rename(p)
  PROVE  LET old == job[p].old
             new == job[p].new
         IN  /\ pc[p] = "rename" /\ pc'[p] = IF job[p].doc THEN "doc" ELSE "rekey"
             /\ old \in Keys /\ new \in Keys /\ old # new
             /\ IsStory(old) /\ EpicAt(old) \in planned /\ nodes[new] = NoFile /\ issued[new] = {}
             /\ nodes'[new] = nodes[old] /\ nodes'[old] = NoFile
             /\ issued'[new] = {nodes[old].work}
             /\ \A k \in Keys : k # new => issued'[k] = issued[k]
             /\ \A k \in Keys : k \notin {old, new} => nodes'[k] = nodes[k]
             /\ UNCHANGED <<docs, refs, planned, holder, job, cut>> /\ OthersWait(p)
<1> DEFINE old == job[p].old
           new == job[p].new
<1>1. /\ pc[p] = "rename" /\ IsStory(old) /\ job[p].bucket = Bucket(old)
      /\ nodes' = [nodes EXCEPT ![old] = NoFile, ![new] = nodes[old]]
      /\ issued' = [issued EXCEPT ![new] = issued[new] \cup {nodes[old].work}]
      /\ pc' = [pc EXCEPT ![p] = IF job[p].doc THEN "doc" ELSE "rekey"]
      /\ UNCHANGED <<docs, refs, planned, holder, job, cut>>
  BY DEF Rename, IsWhereItWas, Goto
<1>2. /\ old \in Keys /\ new \in Keys /\ issued[new] = {} /\ nodes[new] = NoFile /\ old # new
      /\ EpicAt(old) \in planned
  BY <1>1 DEF IInv, Hand, Reserved, Departing, Arriving, IsStory, Bucket
<1>3. /\ nodes'[new] = nodes[old] /\ nodes'[old] = NoFile /\ issued'[new] = {nodes[old].work}
      /\ \A k \in Keys : k # new => issued'[k] = issued[k]
      /\ \A k \in Keys : k \notin {old, new} => nodes'[k] = nodes[k]
  BY <1>1, <1>2 DEF IInv, Typed
<1>4. pc'[p] = (IF job[p].doc THEN "doc" ELSE "rekey") /\ OthersWait(p)
  BY <1>1 DEF IInv, Typed, OthersWait
<1> QED
  BY <1>1, <1>2, <1>3, <1>4

LEMMA RekeyDoes ==
  ASSUME IInv, NEW p \in Procs, Rekey(p)
  PROVE  LET new == job[p].new
         IN  /\ pc[p] = "rekey" /\ pc'[p] = IF job[p].doc THEN "rekeydoc" ELSE "walk"
             /\ new \in Keys /\ job[p].old \in Keys
             /\ nodes'[new].work = nodes[new].work /\ nodes'[new].name = new
             /\ nodes'[new].deps = nodes[new].deps
             /\ nodes'[new].prev = Append(nodes[new].prev, job[p].old)
             /\ \A k \in Keys : k # new => nodes'[k] = nodes[k]
             /\ job'[p].old = job[p].old /\ job'[p].to = job[p].to /\ job'[p].new = new
             /\ job'[p].doc = job[p].doc /\ job'[p].left = Keys
             /\ UNCHANGED <<docs, refs, planned, holder, issued, cut>> /\ OthersWait(p)
<1> DEFINE new == job[p].new
           to == IF job[p].doc THEN "rekeydoc" ELSE "walk"
<1>1. /\ pc[p] = "rekey" /\ nodes' = [nodes EXCEPT ![new] = Rekeyed(p)]
      /\ job' = [job EXCEPT ![p] = Walking(job[p])] /\ pc' = [pc EXCEPT ![p] = to]
      /\ UNCHANGED <<docs, refs, planned, holder, issued, cut>>
  BY DEF Rekey, SetJob, Goto, Walking
<1>2. new \in Keys /\ job[p].old \in Keys /\ job[p] \in Jobs /\ nodes[new] \in Files
  BY <1>1 DEF IInv, Typed, Hand, Departing, Arriving
<1> DEFINE prev == Append(nodes[new].prev, job[p].old)
<1>3. Rekeyed(p) = [nodes[new] EXCEPT !.name = new, !.prev = prev]
  BY DEF Rekeyed
<1> HIDE DEF prev
<1>4. /\ Rekeyed(p).work = nodes[new].work /\ Rekeyed(p).name = new
      /\ Rekeyed(p).deps = nodes[new].deps /\ Rekeyed(p).prev = prev
  BY <1>2, <1>3 DEF Files
<1> HIDE DEF Rekeyed
<1>5. nodes'[new] = Rekeyed(p) /\ \A k \in Keys : k # new => nodes'[k] = nodes[k]
  BY <1>1, <1>2 DEF IInv, Typed
<1>6. /\ Walking(job[p]) \in Jobs /\ Walking(job[p]).old = job[p].old
      /\ Walking(job[p]).to = job[p].to /\ Walking(job[p]).new = new
  BY <1>2, WalkingJob
<1>7. Walking(job[p]).doc = job[p].doc /\ Walking(job[p]).left = Keys
  BY <1>2 DEF Walking, Jobs
<1>8. job'[p] = Walking(job[p]) /\ pc'[p] = to /\ OthersWait(p)
  BY <1>1, <1>6, OwnStep DEF IInv, Places, OthersWait
<1> QED
  BY <1>1, <1>2, <1>4, <1>5, <1>6, <1>7, <1>8 DEF prev

LEMMA WalkLoadDoes ==
  ASSUME IInv, NEW p \in Procs, WalkLoad(p)
  PROVE  LET key == job'[p].at
         IN  /\ pc[p] = "walk" /\ pc'[p] = "walksave"
             /\ key \in Keys /\ job[p].old \in nodes[key].deps /\ key \in job[p].left
             /\ job'[p].node = nodes[key] /\ job'[p].left = job[p].left \ {key}
             /\ job'[p].bucket = Bucket(key)
             /\ job'[p].old = job[p].old /\ job'[p].to = job[p].to /\ job'[p].new = job[p].new
             /\ UNCHANGED <<nodes, docs, refs, planned, holder, issued, cut>> /\ OthersWait(p)
<1>1. PICK key \in ToRewrite(p) :
        job' = [job EXCEPT ![p] = Visiting(job[p], key, nodes[key], Bucket(key))]
  BY DEF WalkLoad, SetJob, Visiting
<1>2. /\ pc[p] = "walk" /\ pc' = [pc EXCEPT ![p] = "walksave"]
      /\ UNCHANGED <<nodes, docs, refs, planned, holder, issued, cut>>
  BY DEF WalkLoad, Goto, tree
<1>3. job[p] \in Jobs /\ key \in Keys /\ nodes[key] \in Files /\ key \in job[p].left
      /\ job[p].old \in nodes[key].deps /\ Bucket(key) \in {"planned", "active"}
  BY <1>1 DEF IInv, Typed, Jobs, ToRewrite, Bucket
<1> DEFINE j == Visiting(job[p], key, nodes[key], Bucket(key))
<1>4. /\ j \in Jobs /\ j.old = job[p].old /\ j.to = job[p].to /\ j.new = job[p].new
      /\ j.at = key /\ j.node = nodes[key] /\ j.bucket = Bucket(key)
  BY <1>3, VisitingJob
<1>5. j.left = job[p].left \ {key}
  BY <1>3 DEF Visiting, Jobs
<1> HIDE DEF j
<1>6. job'[p] = j /\ pc'[p] = "walksave" /\ OthersWait(p)
  BY <1>1, <1>2, <1>4, OwnStep DEF IInv, Places, j, OthersWait
<1> QED
  BY <1>2, <1>3, <1>4, <1>5, <1>6

LEMMA WalkSaveDoes ==
  ASSUME IInv, NEW p \in Procs, WalkSave(p)
  PROVE  LET at == job[p].at
             file == [job[p].node EXCEPT !.deps = Repointed(p)]
         IN  /\ pc[p] = "walksave" /\ pc'[p] = "walk" /\ at \in Keys
             /\ nodes'[at] = IF job[p].bucket = Bucket(at) THEN file ELSE nodes[at]
             /\ file.work = job[p].node.work /\ file.name = job[p].node.name
             /\ file.prev = job[p].node.prev /\ file.deps = Repointed(p) /\ Repointed(p) # {}
             /\ file # NoFile
             /\ \A k \in Keys : k # at => nodes'[k] = nodes[k]
             /\ job'[p].old = job[p].old /\ job'[p].to = job[p].to /\ job'[p].new = job[p].new
             /\ job'[p].left = job[p].left
             /\ UNCHANGED <<docs, refs, planned, holder, issued, cut>> /\ OthersWait(p)
<1> DEFINE at == job[p].at
           file == [job[p].node EXCEPT !.deps = Repointed(p)]
<1>1. /\ pc[p] = "walksave"
      /\ nodes' = [nodes EXCEPT ![at] = IF job[p].bucket = Bucket(at) THEN file ELSE nodes[at]]
      /\ job' = [job EXCEPT ![p] = Visited(job[p])] /\ pc' = [pc EXCEPT ![p] = "walk"]
      /\ UNCHANGED <<docs, refs, planned, holder, issued, cut>>
  BY DEF WalkSave, SetJob, Goto, Visited
<1>2. InWalk(p) /\ at \in Keys /\ job[p].new \in Keys /\ job[p] \in Jobs /\ job[p].node \in Files
  BY <1>1 DEF IInv, Typed, Jobs, Hand, Arriving, InWalk
<1>3. Repointed(p) # {}
  BY <1>2 DEF Files, InWalk, Repointed
<1> HIDE DEF Repointed
<1>4. /\ file.work = job[p].node.work /\ file.name = job[p].node.name
      /\ file.prev = job[p].node.prev /\ file.deps = Repointed(p)
  BY <1>2 DEF Files
<1>5. file # NoFile
  BY <1>3, <1>4, NothingTyped
<1> HIDE DEF file
<1>6. /\ nodes'[at] = IF job[p].bucket = Bucket(at) THEN file ELSE nodes[at]
      /\ \A k \in Keys : k # at => nodes'[k] = nodes[k]
  BY <1>1, <1>2 DEF IInv, Typed
<1>7. /\ Visited(job[p]) \in Jobs /\ Visited(job[p]).old = job[p].old
      /\ Visited(job[p]).to = job[p].to /\ Visited(job[p]).new = job[p].new
  BY <1>2, VisitedJob
<1>8. Visited(job[p]).left = job[p].left
  BY <1>2 DEF Visited, Jobs
<1>9. job'[p] = Visited(job[p]) /\ pc'[p] = "walk" /\ OthersWait(p)
  BY <1>1, <1>7, OwnStep DEF IInv, Places, OthersWait
<1> QED
  BY <1>1, <1>2, <1>3, <1>4, <1>5, <1>6, <1>7, <1>8, <1>9 DEF file

LEMMA LeaveDoes ==
  ASSUME IInv, NEW p \in Procs, Leave(p)
  PROVE  pc'[p] = "idle" /\ OthersWait(p) /\ LocksStay(p)
BY LeaveStep DEF IInv, OthersWait

\* The first branch mints a story, the second resumes an interrupted promotion.
LEMMA PromoteTakeDoes ==
  ASSUME IInv, NEW p \in Procs, PromoteTake(p)
  PROVE  LET f == job'[p].node.work
             s == job'[p].to
         IN  /\ f \in Findings /\ f \in Works /\ refs[f] = NoKey /\ s \in Sprints
             /\ holder["issues"] = NoProc
             /\ holder'["issues"] = p /\ holder'[EpicOf[s]] = p
             /\ \/ pc'[p] = "mint" /\ \A k \in Keys : nodes[k].work # f
                \/ /\ pc'[p] = "newdoc"
                   /\ \E k \in Keys : /\ nodes[k].work = f /\ nodes[k].name[1] = s
                                      /\ job'[p].new = nodes[k].name
             /\ UNCHANGED <<nodes, docs, refs, planned, issued, cut>>
             /\ OthersWait(p) /\ LocksStay(p)
<1>1. PICK f \in Findings, s \in Sprints :
        /\ refs[f] = NoKey
        /\ holder[EpicOf[s]] = NoProc /\ holder["issues"] = NoProc
        /\ holder' = [holder EXCEPT ![EpicOf[s]] = p, !["issues"] = p]
        /\ \/ /\ \A k \in Keys : nodes[k].work # f
              /\ job' = [job EXCEPT ![p] = Promoting(s, f)]
              /\ pc' = [pc EXCEPT ![p] = "mint"]
           \/ \E k \in Keys :
                /\ nodes[k].work = f /\ nodes[k].name[1] = s
                /\ job' = [job EXCEPT ![p] = Resuming(s, nodes[k].name, f)]
                /\ pc' = [pc EXCEPT ![p] = "newdoc"]
  <2>1. PICK f \in Findings, s \in Sprints :
          /\ refs[f] = NoKey
          /\ IsFree(EpicOf[s]) /\ IsFree("issues")
          /\ holder' = [holder EXCEPT ![EpicOf[s]] = p, !["issues"] = p]
          /\ \/ /\ \A key \in Keys : nodes[key].work # f
                /\ SetJob(p, [NoJob EXCEPT !.to = s, !.node.work = f])
                /\ Goto(p, "mint")
             \/ /\ \E key \in Keys :
                     /\ nodes[key].work = f /\ nodes[key].name[1] = s
                     /\ SetJob(p, [NoJob EXCEPT !.to = s, !.new = nodes[key].name, !.node.work = f])
                /\ Goto(p, "newdoc")
    BY DEF PromoteTake
  <2>2. CASE /\ \A key \in Keys : nodes[key].work # f
             /\ SetJob(p, [NoJob EXCEPT !.to = s, !.node.work = f])
             /\ Goto(p, "mint")
    BY <2>1, <2>2 DEF IsFree, SetJob, Goto, Promoting
  <2>3. CASE /\ \E key \in Keys :
                  /\ nodes[key].work = f /\ nodes[key].name[1] = s
                  /\ SetJob(p, [NoJob EXCEPT !.to = s, !.new = nodes[key].name, !.node.work = f])
             /\ Goto(p, "newdoc")
    <3>1. PICK key \in Keys :
            /\ nodes[key].work = f /\ nodes[key].name[1] = s
            /\ SetJob(p, [NoJob EXCEPT !.to = s, !.new = nodes[key].name, !.node.work = f])
      BY <2>3
    <3>2. job' = [job EXCEPT ![p] = Resuming(s, nodes[key].name, f)]
      BY <3>1 DEF SetJob, Resuming
    <3>3. pc' = [pc EXCEPT ![p] = "newdoc"]
      BY <2>3 DEF Goto
    <3> QED
      BY <2>1, <3>1, <3>2, <3>3 DEF IsFree
  <2> QED
    BY <2>1, <2>2, <2>3
<1>2. UNCHANGED <<nodes, docs, refs, planned, issued, cut>>
  BY DEF PromoteTake, tree
<1>3. EpicOf[s] \in Flocks /\ "issues" \in Flocks /\ EpicOf[s] # "issues" /\ f \in Works
  BY StoryKeysAssumption DEF Flocks, Epics
<1>4. LocksStay(p) /\ holder'[EpicOf[s]] = p /\ holder'["issues"] = p
  BY <1>1, <1>3, StoryKeysAssumption DEF IInv, Typed, LocksStay
<1>5. CASE /\ \A k \in Keys : nodes[k].work # f
           /\ job' = [job EXCEPT ![p] = Promoting(s, f)]
           /\ pc' = [pc EXCEPT ![p] = "mint"]
  <2> DEFINE j == Promoting(s, f)
  <2>1. j \in Jobs /\ j.to = s /\ j.node.work = f
    BY <1>3, NewJobs
  <2> HIDE DEF j
  <2>2. job'[p] = j /\ pc'[p] = "mint" /\ OthersWait(p)
    BY <1>5, <2>1, OwnStep DEF IInv, Places, j, OthersWait
  <2> QED
    BY <1>1, <1>2, <1>3, <1>4, <1>5, <2>1, <2>2
<1>6. ASSUME NEW k \in Keys, nodes[k].work = f, nodes[k].name[1] = s,
             job' = [job EXCEPT ![p] = Resuming(s, nodes[k].name, f)],
             pc' = [pc EXCEPT ![p] = "newdoc"]
      PROVE  /\ job'[p].node.work = f /\ job'[p].to = s /\ job'[p].new = nodes[k].name
             /\ pc'[p] = "newdoc" /\ OthersWait(p)
  <2> DEFINE j == Resuming(s, nodes[k].name, f)
  <2>1. nodes[k].name \in Keys \cup {NoKey}
    BY DEF IInv, Typed, Files
  <2>2. j \in Jobs
    BY <1>3, <2>1, NewJobs
  <2>3. j.to = s /\ j.new = nodes[k].name /\ j.node.work = f
    <3> DEFINE file == [NoFile EXCEPT !.work = f]
    <3>1. j = [NoJob EXCEPT !.to = s, !.new = nodes[k].name, !.node = file]
      BY DEF Resuming, NoJob
    <3>2. file.work = f
      BY DEF NoFile
    <3> HIDE DEF file, j
    <3> QED
      BY <3>1, <3>2 DEF NoJob
  <2> HIDE DEF j
  <2>4. job'[p] = j /\ pc'[p] = "newdoc" /\ OthersWait(p)
    BY <1>6, <2>2, OwnStep DEF IInv, Places, j, OthersWait
  <2> QED
    BY <2>3, <2>4
<1>7. CASE \E k \in Keys :
             /\ nodes[k].work = f /\ nodes[k].name[1] = s
             /\ job' = [job EXCEPT ![p] = Resuming(s, nodes[k].name, f)]
             /\ pc' = [pc EXCEPT ![p] = "newdoc"]
  <2>1. PICK k \in Keys :
          /\ nodes[k].work = f /\ nodes[k].name[1] = s
          /\ job' = [job EXCEPT ![p] = Resuming(s, nodes[k].name, f)]
          /\ pc' = [pc EXCEPT ![p] = "newdoc"]
    BY <1>7
  <2>2. /\ job'[p].node.work = f /\ job'[p].to = s /\ job'[p].new = nodes[k].name
        /\ pc'[p] = "newdoc" /\ OthersWait(p)
    BY <1>6, <2>1
  <2> QED
    BY <1>1, <1>2, <1>3, <1>4, <2>1, <2>2
<1> QED
  BY <1>1, <1>5, <1>7

LEMMA MintDoes ==
  ASSUME IInv, NEW p \in Procs, Mint(p)
  PROVE  /\ pc[p] = "mint" /\ pc'[p] = "newnode"
         /\ job'[p].node = job[p].node /\ job'[p].to = job[p].to
         /\ UNCHANGED <<nodes, docs, refs, planned, holder, issued, cut>> /\ OthersWait(p)
<1> DEFINE to == job[p].to
           new == <<to, Allocated(to)>>
           j == Minting(job[p], new)
<1>1. /\ pc[p] = "mint" /\ Allocated(to) <= MaxNum
      /\ job' = [job EXCEPT ![p] = j] /\ pc' = [pc EXCEPT ![p] = "newnode"]
      /\ UNCHANGED <<nodes, docs, refs, planned, holder, issued, cut>>
  BY DEF Mint, SetJob, Goto, Minting
<1>2. to \in Sprints /\ job[p] \in Jobs
  BY <1>1 DEF IInv, Typed, Hand
<1>3. new \in Keys
  BY <1>1, <1>2, AllocatedIsNew
<1> HIDE DEF new
<1>4. j \in Jobs /\ j.to = to /\ j.node = job[p].node
  BY <1>2, <1>3, MintingJob
<1> HIDE DEF j
<1>5. job'[p] = j /\ pc'[p] = "newnode" /\ OthersWait(p)
  BY <1>1, <1>4, OwnStep DEF IInv, Places, OthersWait
<1> QED
  BY <1>1, <1>4, <1>5

LEMMA NewNodeDoes ==
  ASSUME IInv, NEW p \in Procs, NewNode(p)
  PROVE  LET new == job[p].new
             w == job[p].node.work
         IN  /\ pc[p] = "newnode" /\ pc'[p] = "newdoc"
             /\ new \in Keys /\ w \in Works /\ issued[new] = {} /\ nodes[new] = NoFile
             /\ new[1] = job[p].to /\ job[p].to \in Sprints /\ holder[EpicOf[job[p].to]] = p
             /\ nodes'[new] = Born(w, new) /\ issued'[new] = {w}
             /\ \A k \in Keys : k # new => nodes'[k] = nodes[k] /\ issued'[k] = issued[k]
             /\ UNCHANGED <<docs, refs, planned, holder, job, cut>> /\ OthersWait(p)
<1> DEFINE new == job[p].new
           w == job[p].node.work
<1>1. /\ pc[p] = "newnode" /\ nodes' = [nodes EXCEPT ![new] = Born(w, new)]
      /\ issued' = [issued EXCEPT ![new] = issued[new] \cup {w}]
      /\ pc' = [pc EXCEPT ![p] = "newdoc"]
      /\ UNCHANGED <<docs, refs, planned, holder, job, cut>>
  BY DEF NewNode, Goto, Born
<1>2. /\ new \in Keys /\ w \in Works /\ issued[new] = {} /\ nodes[new] = NoFile
      /\ new[1] = job[p].to /\ job[p].to \in Sprints /\ holder[EpicOf[job[p].to]] = p
  BY <1>1 DEF IInv, Hand, Reserved
<1>3. /\ nodes'[new] = Born(w, new) /\ issued'[new] = {w}
      /\ \A k \in Keys : k # new => nodes'[k] = nodes[k] /\ issued'[k] = issued[k]
  BY <1>1, <1>2 DEF IInv, Typed
<1>4. pc'[p] = "newdoc" /\ OthersWait(p)
  BY <1>1 DEF IInv, Typed, OthersWait
<1> QED
  BY <1>1, <1>2, <1>3, <1>4

LEMMA BornFile ==
  ASSUME NEW w \in Works, NEW key \in Keys
  PROVE  /\ Born(w, key).work = w /\ Born(w, key).name = key /\ Born(w, key).deps = {}
         /\ Born(w, key).prev = <<>> /\ Born(w, key) # NoFile
BY StoryKeysAssumption DEF Born, NoFile

LEMMA ActivateDoes ==
  ASSUME IInv, NEW p \in Procs, Activate(p)
  PROVE  /\ planned' \subseteq planned
         /\ UNCHANGED <<nodes, docs, refs, holder, pc, job, issued, cut>>
BY DEF Activate

LEMMA SprintLoadDoes ==
  ASSUME IInv, NEW p \in Procs, SprintLoad(p)
  PROVE  /\ pc'[p] = "sprint"
         /\ UNCHANGED <<nodes, docs, refs, planned, holder, issued, cut>> /\ OthersWait(p)
<1>1. pc' = [pc EXCEPT ![p] = "sprint"] /\ \E j : job' = [job EXCEPT ![p] = j]
  BY DEF SprintLoad, SetJob, Goto
<1>2. UNCHANGED <<nodes, docs, refs, planned, holder, issued, cut>>
  BY DEF SprintLoad, tree
<1> QED
  BY <1>1, <1>2 DEF IInv, Typed, OthersWait

LEMMA LocksOfOthers ==
  ASSUME NEW p \in Procs, UNCHANGED holder
  PROVE  LocksStay(p)
BY DEF LocksStay

-----------------------------------------------------------------------------
(* A story stands in one place.                                             *)

\* The stories that depend on others are in sprints that no story leaves.
DependentsStay ==
  \A w \in Works \ Findings : Needs[w] # {} => \A move \in Moves : move[1] # Placed[w][1]

\* All re-parents go to sprints of one epic, whose flock lets one through at a time.
MovesToOneEpic == \A m, n \in Moves : EpicOf[m[2]] = EpicOf[n[2]]

StoriesMoveApart == SprintsLeftAreNotTouched /\ (DependentsStay \/ MovesToOneEpic)

Reparenting == {"raise", "gate", "rename", "doc", "rekey", "rekeydoc", "walk", "walksave"}
Renamed == {"doc", "rekey", "rekeydoc", "walk", "walksave"}

IsLeft(key) == \E move \in Moves : move[1] = key[1]

Standing ==
  /\ \A k \in Keys : issued[k] \subseteq Works
  /\ \A k \in Keys : nodes[k].work = NoWork => ~IsStory(k)
  /\ \A k, l \in Keys : IsStory(k) /\ nodes[l].work = nodes[k].work => l = k
  /\ \A k \in Keys : \A w \in issued[k] : \E l \in Keys : nodes[l].work = w
  /\ DependentsStay => \A k \in Keys : nodes[k].deps # {} => ~IsLeft(k)

\* A re-parent's story has come from the old key to the new one; what a promotion
\* is about to create is nowhere; what _rewrite_references has loaded is what the
\* story still is, but for what it depends on.
Stands(p) ==
  /\ pc[p] \in Reparenting =>
       /\ issued[job[p].old] # {}
       /\ \E move \in Moves : move[1] = job[p].old[1] /\ move[2] = job[p].to
  /\ pc[p] \in Renamed =>
       /\ IsStory(job[p].new) /\ ~IsStory(job[p].old)
       /\ nodes[job[p].new].work \in issued[job[p].old]
       /\ DependentsStay => nodes[job[p].new].deps = {}
  /\ pc[p] \in {"mint", "newnode"} =>
       holder["issues"] = p /\ \A k \in Keys : nodes[k].work # job[p].node.work
  /\ pc[p] = "walksave" =>
       /\ nodes[job[p].at].deps # {}
       /\ nodes[job[p].at].work = job[p].node.work
       /\ nodes[job[p].at].name = job[p].node.name
       /\ nodes[job[p].at].prev = job[p].node.prev

StandInv == IInv /\ Standing /\ \A p \in Procs : Stands(p)

\* While a re-parent holds its flock, none that would move its story on is past the
\* same flock, which it needs to raise the story's sprint.
NoneMovedOn ==
  \A p, q \in Procs :
    pc[p] \in Renamed /\ pc[q] \in Reparenting \ {"raise"} => job[q].old # job[p].new

LEMMA FilesHaveWork ==
  ASSUME StandInv, NEW k \in Keys
  PROVE  /\ IsStory(k) <=> nodes[k].work # NoWork
         /\ IsStory(k) <=> nodes[k].work \in issued[k]
         /\ nodes[k] \in Files
BY NothingTyped, StoryKeysAssumption DEF StandInv, Standing, IInv, Typed, KeysAreOnRecord, IsStory

\* Where a re-parent has its keys.
LEMMA MoverKeys ==
  ASSUME StandInv, NEW p \in Procs, pc[p] \in {"rename"} \cup Renamed
  PROVE  /\ job[p].old \in Keys /\ job[p].new \in Keys /\ job[p].new[1] = job[p].to
         /\ job[p].to \in Sprints /\ holder[EpicOf[job[p].to]] = p
         /\ EpicOf[job[p].to] \in planned /\ IsLeft(job[p].old)
         /\ issued[job[p].old] # {}
<1>1. Hand(p) /\ Stands(p) /\ pc[p] \in Reparenting
  BY DEF StandInv, IInv, Renamed, Reparenting
<1> QED
  BY <1>1 DEF Hand, Departing, Arriving, Stands, IsLeft, Renamed

\* Two re-parents have not one new key, nor one story that they have moved.
LEMMA OneMover ==
  ASSUME StandInv, NEW p \in Procs, NEW q \in Procs,
         pc[p] \in {"rename"} \cup Renamed, pc[q] \in {"rename"} \cup Renamed
  PROVE  /\ job[p].new = job[q].new => p = q
         /\ pc[p] \in Renamed /\ pc[q] \in Renamed /\ job[p].old = job[q].old => p = q
<1>1. job[p].new = job[q].new => p = q
  BY MoverKeys
<1>2. ASSUME pc[p] \in Renamed, pc[q] \in Renamed, job[p].old = job[q].old
      PROVE  job[p].new = job[q].new
  <2>1. /\ job[p].old \in Keys /\ job[p].new \in Keys /\ job[q].new \in Keys
        /\ IsStory(job[p].new)
        /\ nodes[job[p].new].work \in issued[job[p].old]
        /\ nodes[job[q].new].work \in issued[job[p].old]
    BY <1>2, MoverKeys DEF StandInv, Stands
  <2>2. nodes[job[p].new].work = nodes[job[q].new].work
    BY <2>1 DEF StandInv, IInv, KeysAreOnRecord
  <2> QED
    BY <2>1, <2>2 DEF StandInv, Standing
<1> QED
  BY <1>1, <1>2

\* Where all re-parents allocate in one epic, one at a time is past the gate.
LEMMA OneFlock ==
  ASSUME MovesToOneEpic, StandInv, NEW p \in Procs, NEW q \in Procs,
         pc[p] \in {"rename"} \cup Renamed, pc[q] \in {"rename"} \cup Renamed
  PROVE  p = q
<1>1. PICK move \in Moves : move[2] = job[p].to
  BY DEF StandInv, Stands, Renamed, Reparenting
<1>2. PICK other \in Moves : other[2] = job[q].to
  BY DEF StandInv, Stands, Renamed, Reparenting
<1> QED
  BY <1>1, <1>2, MoverKeys DEF MovesToOneEpic

\* What the others rely on.
LEMMA StandStep ==
  ASSUME StandInv, IInv', NEW p \in Procs, Standing', Stands(p)', OthersWait(p), LocksStay(p),
         \A k \in Keys : issued[k] \subseteq issued'[k],
         \A q \in Procs : q # p /\ pc[q] \in Renamed =>
           /\ nodes'[job[q].new].work = nodes[job[q].new].work
           /\ DependentsStay => nodes'[job[q].new].deps = {}
           /\ nodes'[job[q].old] = NoFile,
         \A q \in Procs : q # p /\ pc[q] \in {"mint", "newnode"} =>
           \A k \in Keys : nodes'[k].work # job[q].node.work,
         \A q \in Procs : q # p /\ pc[q] = "walksave" =>
           LET at == job[q].at
           IN  /\ nodes'[at].work = nodes[at].work /\ nodes'[at].name = nodes[at].name
               /\ nodes'[at].prev = nodes[at].prev /\ nodes'[at].deps # {}
  PROVE  StandInv'
<1> SUFFICES ASSUME NEW q \in Procs, q # p  PROVE Stands(q)'
  BY DEF StandInv
<1>1. job'[q] = job[q] /\ pc'[q] = pc[q] /\ Stands(q)
  BY DEF OthersWait, StandInv
<1>2. pc[q] \in Reparenting => job[q].old \in Keys /\ issued'[job[q].old] # {}
  BY <1>1 DEF StandInv, IInv, Hand, Departing, Stands, Reparenting
<1>3. CASE pc[q] \in Renamed
  <2>1. /\ job[q].old \in Keys /\ job[q].new \in Keys /\ IsStory(job[q].new)
        /\ nodes[job[q].new].work \in issued[job[q].old]
    BY <1>1, <1>3, MoverKeys DEF Stands
  <2>2. nodes[job[q].new].work # NoWork
    BY <2>1, FilesHaveWork
  <2>3. IsStory(job[q].new)' /\ ~IsStory(job[q].old)'
    BY <1>1, <1>3, <2>2, NothingTyped DEF IsStory
  <2> QED
    BY <1>1, <1>2, <1>3, <2>1, <2>3 DEF Stands, Renamed
<1>4. CASE pc[q] \in {"mint", "newnode"}
  <2>1. holder'["issues"] = q
    BY <1>1, <1>4 DEF Stands, LocksStay, Flocks
  <2> QED
    BY <1>1, <1>4, <2>1 DEF Stands, Reparenting, Renamed
<1>5. CASE pc[q] \notin Renamed \cup {"mint", "newnode"}
  BY <1>1, <1>2, <1>5 DEF Stands, Renamed
<1> QED
  BY <1>3, <1>4, <1>5

\* A step that writes no node.
LEMMA QuietStand ==
  ASSUME StandInv, IInv', NEW p \in Procs, Stands(p)', OthersWait(p), LocksStay(p),
         UNCHANGED <<nodes, issued>>
  PROVE  StandInv'
<1>1. Standing'
  BY DEF StandInv, Standing, IsStory
<1>2. \A q \in Procs : pc[q] \in Renamed =>
        nodes'[job[q].old] = NoFile /\ (DependentsStay => nodes'[job[q].new].deps = {})
  BY DEF StandInv, Stands, IsStory
<1>3. \A q \in Procs : pc[q] \in {"mint", "newnode"} =>
        \A k \in Keys : nodes'[k].work # job[q].node.work
  BY DEF StandInv, Stands
<1>4. \A q \in Procs : pc[q] = "walksave" => nodes'[job[q].at].deps # {}
  BY DEF StandInv, Stands
<1> QED
  BY <1>1, <1>2, <1>3, <1>4, StandStep

\* A step that writes nodes but leaves every story where it is.
LEMMA InPlace ==
  ASSUME StandInv, UNCHANGED issued, \A k \in Keys : nodes'[k].work = nodes[k].work,
         \A k \in Keys : IsStory(k)' => IsStory(k),
         \A k \in Keys : nodes'[k].deps # {} => nodes[k].deps # {}
  PROVE  Standing' 
BY DEF StandInv, Standing, IsStory

LEMMA RenameStands ==
  ASSUME StoriesMoveApart, NoneMovedOn, StandInv, IInv', NEW p \in Procs, Rename(p)
  PROVE  StandInv'
<1> DEFINE old == job[p].old
           new == job[p].new
           w == nodes[old].work
<1>1. /\ pc[p] = "rename" /\ pc'[p] \in {"doc", "rekey"}
      /\ old \in Keys /\ new \in Keys /\ old # new
      /\ IsStory(old) /\ nodes[new] = NoFile /\ issued[new] = {}
      /\ nodes'[new] = nodes[old] /\ nodes'[old] = NoFile
      /\ issued'[new] = {w}
      /\ \A k \in Keys : k # new => issued'[k] = issued[k]
      /\ \A k \in Keys : k \notin {old, new} => nodes'[k] = nodes[k]
      /\ UNCHANGED <<holder, job>> /\ OthersWait(p)
  BY RenameDoes DEF StandInv
<1>2. /\ Stands(p) /\ IsLeft(old) /\ issued[old] # {}
      /\ w \in issued[old] /\ w \in Works /\ w # NoWork
      /\ DependentsStay => nodes[old].deps = {}
  BY <1>1, MoverKeys, FilesHaveWork, StoryKeysAssumption DEF StandInv, Standing
<1> HIDE DEF old, new, w
<1>3. Standing'
  <2>1. \A k \in Keys : issued'[k] \subseteq Works
    BY <1>1, <1>2 DEF StandInv, Standing
  <2>2. \A k \in Keys : nodes'[k].work = NoWork => nodes'[k] = NoFile
    BY <1>1, <1>2 DEF StandInv, Standing, IsStory, w
  <2>3. ASSUME NEW k \in Keys, NEW l \in Keys, nodes'[k] # NoFile, nodes'[l].work = nodes'[k].work
        PROVE  l = k
    <3> DEFINE before(x) == IF x = new THEN old ELSE x
    <3>1. k # old /\ nodes'[k] = nodes[before(k)] /\ before(k) \in Keys
      BY <1>1, <2>3
    <3>2. nodes'[k].work # NoWork
      BY <2>2, <2>3
    <3>3. l # old
      BY <1>1, <2>3, <3>2, NothingTyped
    <3>4. nodes'[l] = nodes[before(l)] /\ before(l) \in Keys
      BY <1>1, <3>3
    <3>5. before(l) = before(k)
      BY <2>3, <3>1, <3>4 DEF StandInv, Standing, IsStory
    <3> QED
      BY <1>1, <3>1, <3>3, <3>5
  <2>4. ASSUME NEW k \in Keys, NEW v \in issued'[k]
        PROVE  \E l \in Keys : nodes'[l].work = v
    <3>1. CASE v = w
      BY <1>1, <3>1 DEF w
    <3>2. CASE v # w
      <4>1. v \in issued[k]
        BY <1>1, <2>4, <3>2
      <4>2. PICK l \in Keys : nodes[l].work = v
        BY <4>1 DEF StandInv, Standing
      <4>3. l # old /\ l # new
        BY <1>1, <1>2, <3>2, <4>1, <4>2, NothingTyped, StoryKeysAssumption DEF StandInv, Standing, w
      <4> QED
        BY <1>1, <4>2, <4>3
    <3> QED
      BY <3>1, <3>2
  <2>5. DependentsStay => \A k \in Keys : nodes'[k].deps # {} => ~IsLeft(k)
    BY <1>1, <1>2, NothingTyped DEF StandInv, Standing
  <2> QED
    BY <2>1, <2>2, <2>3, <2>4, <2>5 DEF Standing, IsStory, IsLeft
<1>4. Stands(p)'
  <2>1. nodes'[new] # NoFile /\ nodes'[old] = NoFile /\ issued'[old] = issued[old]
    BY <1>1, <1>2 DEF IsStory
  <2> QED
    BY <1>1, <1>2, <2>1 DEF Stands, Renamed, Reparenting, IsStory, old, new, w
<1>5. ASSUME NEW q \in Procs, q # p, pc[q] \in Renamed
      PROVE  /\ nodes'[job[q].new].work = nodes[job[q].new].work
             /\ DependentsStay => nodes'[job[q].new].deps = {}
             /\ nodes'[job[q].old] = NoFile
  <2>1. /\ job[q].new \in Keys /\ job[q].old \in Keys /\ issued[job[q].old] # {}
        /\ nodes[job[q].old] = NoFile
        /\ DependentsStay => nodes[job[q].new].deps = {}
    BY <1>5, MoverKeys DEF StandInv, Stands, IsStory
  <2>2. job[q].new # new
    BY <1>1, <1>5, OneMover DEF new
  <2>3. job[q].new # old
    BY <1>1, <1>5 DEF NoneMovedOn, old, Reparenting
  <2>4. job[q].old # new
    BY <1>1, <2>1
  <2> QED
    BY <1>1, <2>1, <2>2, <2>3, <2>4
<1>6. ASSUME NEW q \in Procs, q # p, pc[q] \in {"mint", "newnode"}, NEW k \in Keys
      PROVE  nodes'[k].work # job[q].node.work
  <2>1. \A l \in Keys : nodes[l].work # job[q].node.work
    BY <1>6 DEF StandInv, Stands
  <2> QED
    BY <1>1, <2>1
<1>7. ASSUME NEW q \in Procs, q # p, pc[q] = "walksave"
      PROVE  nodes'[job[q].at] = nodes[job[q].at] /\ nodes'[job[q].at].deps # {}
  <2>1. job[q].at \in Keys /\ nodes[job[q].at].deps # {}
    BY <1>7 DEF StandInv, IInv, Hand, InWalk, Stands
  <2>2. job[q].at # new
    BY <1>1, <2>1, NothingTyped
  <2>3. job[q].at # old
    <3>1. CASE DependentsStay
      BY <1>2, <2>1, <3>1
    <3>2. CASE MovesToOneEpic
      BY <1>1, <1>7, <3>2, OneFlock DEF Renamed
    <3> QED
      BY <3>1, <3>2 DEF StoriesMoveApart
  <2> QED
    BY <1>1, <2>1, <2>2, <2>3
<1>8. \A k \in Keys : issued[k] \subseteq issued'[k]
  BY <1>1
<1>9. LocksStay(p) /\ OthersWait(p)
  BY <1>1 DEF LocksStay
<1> QED
  BY <1>3, <1>4, <1>5, <1>6, <1>7, <1>8, <1>9, StandStep

LEMMA RekeyStands ==
  ASSUME StoriesMoveApart, StandInv, IInv', NEW p \in Procs, Rekey(p)
  PROVE  StandInv'
<1> DEFINE old == job[p].old
           new == job[p].new
<1>1. /\ pc[p] = "rekey" /\ pc'[p] \in {"rekeydoc", "walk"}
      /\ nodes'[new].work = nodes[new].work /\ nodes'[new].deps = nodes[new].deps
      /\ \A k \in Keys : k # new => nodes'[k] = nodes[k]
      /\ job'[p].old = old /\ job'[p].to = job[p].to /\ job'[p].new = new
      /\ UNCHANGED <<holder, issued>> /\ OthersWait(p)
  BY RekeyDoes DEF StandInv
<1>2. /\ Stands(p) /\ old \in Keys /\ new \in Keys /\ IsStory(new) /\ ~IsStory(old)
      /\ nodes[new].work \in issued[old] /\ issued[old] # {}
      /\ DependentsStay => nodes[new].deps = {}
  BY <1>1, MoverKeys DEF StandInv, Stands, Renamed
<1>3. nodes'[new] # NoFile
  BY <1>1, <1>2, FilesHaveWork, NothingTyped
<1> HIDE DEF old, new
<1>4. Standing'
  BY <1>1, <1>2, InPlace DEF IsStory
<1>5. Stands(p)'
  <2>1. nodes'[old] = NoFile /\ old # new
    BY <1>1, <1>2 DEF IsStory
  <2> QED
    BY <1>1, <1>2, <1>3, <2>1 DEF Stands, Renamed, Reparenting, IsStory, old, new
<1>6. ASSUME NEW q \in Procs, q # p, pc[q] \in Renamed
      PROVE  /\ nodes'[job[q].new] = nodes[job[q].new] /\ nodes'[job[q].old] = NoFile
             /\ DependentsStay => nodes[job[q].new].deps = {}
  <2>1. /\ job[q].new \in Keys /\ job[q].old \in Keys /\ nodes[job[q].old] = NoFile
        /\ DependentsStay => nodes[job[q].new].deps = {}
    BY <1>6, MoverKeys DEF StandInv, Stands, IsStory
  <2>2. job[q].new # new
    BY <1>1, <1>6, OneMover DEF new, Renamed
  <2>3. job[q].old # new
    BY <1>2, <2>1 DEF IsStory
  <2> QED
    BY <1>1, <2>1, <2>2, <2>3
<1>7. ASSUME NEW q \in Procs, q # p, pc[q] \in {"mint", "newnode"}, NEW k \in Keys
      PROVE  nodes'[k].work # job[q].node.work
  BY <1>1, <1>7 DEF StandInv, Stands
<1>8. ASSUME NEW q \in Procs, q # p, pc[q] = "walksave"
      PROVE  LET at == job[q].at
             IN  /\ nodes'[at].work = nodes[at].work /\ nodes'[at].name = nodes[at].name
                 /\ nodes'[at].prev = nodes[at].prev /\ nodes'[at].deps # {}
  <2>1. job[q].at \in Keys /\ nodes[job[q].at].deps # {}
    BY <1>8 DEF StandInv, IInv, Hand, InWalk, Stands
  <2>2. job[q].at # new
    <3>1. CASE DependentsStay
      BY <1>2, <2>1, <3>1
    <3>2. CASE MovesToOneEpic
      BY <1>1, <1>8, <3>2, OneFlock DEF Renamed
    <3> QED
      BY <3>1, <3>2 DEF StoriesMoveApart
  <2> QED
    BY <1>1, <2>1, <2>2
<1>9. LocksStay(p) /\ OthersWait(p) /\ \A k \in Keys : issued[k] \subseteq issued'[k]
  BY <1>1 DEF LocksStay
<1> QED
  BY <1>4, <1>5, <1>6, <1>7, <1>8, <1>9, StandStep

LEMMA WalkSaveStands ==
  ASSUME StoriesMoveApart, StandInv, IInv', NEW p \in Procs, WalkSave(p)
  PROVE  StandInv'
<1> DEFINE at == job[p].at
           old == job[p].old
           new == job[p].new
           file == [job[p].node EXCEPT !.deps = Repointed(p)]
<1>1. /\ pc[p] = "walksave" /\ pc'[p] = "walk" /\ at \in Keys
      /\ nodes'[at] = IF job[p].bucket = Bucket(at) THEN file ELSE nodes[at]
      /\ file.work = job[p].node.work /\ file.name = job[p].node.name
      /\ file.prev = job[p].node.prev /\ file.deps # {} /\ file # NoFile
      /\ \A k \in Keys : k # at => nodes'[k] = nodes[k]
      /\ job'[p].old = old /\ job'[p].to = job[p].to /\ job'[p].new = new
      /\ UNCHANGED <<holder, issued>> /\ OthersWait(p)
  BY WalkSaveDoes DEF StandInv
<1> HIDE DEF file
<1>2. /\ old \in Keys /\ new \in Keys /\ IsStory(new) /\ ~IsStory(old)
      /\ nodes[new].work \in issued[old] /\ issued[old] # {} /\ nodes[at].deps # {}
      /\ DependentsStay => nodes[new].deps = {}
  BY <1>1, MoverKeys DEF StandInv, Stands, Renamed
<1>3. /\ nodes'[at].work = nodes[at].work /\ nodes'[at].name = nodes[at].name
      /\ nodes'[at].prev = nodes[at].prev /\ nodes'[at].deps # {}
  BY <1>1, <1>2 DEF StandInv, Stands
<1>4. IsStory(at)
  BY <1>2, NothingTyped DEF IsStory
<1> HIDE DEF at, old, new
<1>5. Standing'
  BY <1>1, <1>2, <1>3, <1>4, InPlace DEF IsStory
<1>6. ASSUME NEW k \in Keys
      PROVE  /\ nodes[k] = NoFile => nodes'[k] = NoFile
             /\ nodes[k].deps = {} => nodes'[k].deps = {}
             /\ nodes'[k].work = nodes[k].work
  BY <1>1, <1>2, <1>3, NothingTyped
<1>7. Stands(p)'
  <2>1. nodes'[old] = NoFile /\ nodes'[new].work = nodes[new].work /\ nodes'[new] # NoFile
    BY <1>2, <1>6, FilesHaveWork, NothingTyped DEF IsStory
  <2>2. \E move \in Moves : move[1] = old[1] /\ move[2] = job[p].to
    BY <1>1 DEF StandInv, Stands, Reparenting, old
  <2>3. DependentsStay => nodes'[new].deps = {}
    BY <1>2, <1>6
  <2> QED
    BY <1>1, <1>2, <2>1, <2>2, <2>3 DEF Stands, Renamed, Reparenting, IsStory, old, new
<1>8. ASSUME NEW q \in Procs, q # p, pc[q] \in Renamed
      PROVE  /\ nodes'[job[q].new].work = nodes[job[q].new].work /\ nodes'[job[q].old] = NoFile
             /\ DependentsStay => nodes'[job[q].new].deps = {}
  <2>1. /\ job[q].new \in Keys /\ job[q].old \in Keys /\ nodes[job[q].old] = NoFile
        /\ DependentsStay => nodes[job[q].new].deps = {}
    BY <1>8, MoverKeys DEF StandInv, Stands, IsStory
  <2> QED
    BY <1>6, <2>1
<1>9. ASSUME NEW q \in Procs, q # p, pc[q] \in {"mint", "newnode"}, NEW k \in Keys
      PROVE  nodes'[k].work # job[q].node.work
  BY <1>1, <1>3, <1>9 DEF StandInv, Stands
<1>10. ASSUME NEW q \in Procs, q # p, pc[q] = "walksave", NEW a, a = job[q].at
      PROVE  /\ nodes'[a].work = nodes[a].work /\ nodes'[a].name = nodes[a].name
             /\ nodes'[a].prev = nodes[a].prev /\ nodes'[a].deps # {}
  <2>1. a \in Keys /\ nodes[a].deps # {}
    BY <1>10 DEF StandInv, IInv, Hand, InWalk, Stands
  <2> QED
    BY <1>1, <1>3, <2>1
<1>11. LocksStay(p) /\ OthersWait(p) /\ \A k \in Keys : issued[k] \subseteq issued'[k]
  BY <1>1 DEF LocksStay
<1> QED
  BY <1>5, <1>7, <1>8, <1>9, <1>10, <1>11, StandStep

LEMMA NewNodeStands ==
  ASSUME StandInv, IInv', NEW p \in Procs, NewNode(p)
  PROVE  StandInv'
<1> DEFINE new == job[p].new
           w == job[p].node.work
<1>1. /\ pc[p] = "newnode" /\ pc'[p] = "newdoc"
      /\ new \in Keys /\ w \in Works /\ issued[new] = {} /\ nodes[new] = NoFile
      /\ nodes'[new] = Born(w, new) /\ issued'[new] = {w}
      /\ \A k \in Keys : k # new => nodes'[k] = nodes[k] /\ issued'[k] = issued[k]
      /\ UNCHANGED <<holder, job>> /\ OthersWait(p)
  BY NewNodeDoes DEF StandInv
<1>2. /\ nodes'[new].work = w /\ nodes'[new].deps = {} /\ nodes'[new] # NoFile
  BY <1>1, BornFile
<1>3. holder["issues"] = p /\ \A k \in Keys : nodes[k].work # w
  BY <1>1 DEF StandInv, Stands
<1> HIDE DEF new, w
<1>4. Standing'
  <2>1. \A k \in Keys : issued'[k] \subseteq Works
    BY <1>1 DEF StandInv, Standing
  <2>2. \A k \in Keys : nodes'[k].work = NoWork => nodes'[k] = NoFile
    BY <1>1, <1>2, StoryKeysAssumption DEF StandInv, Standing, IsStory
  <2>3. \A k, l \in Keys : nodes'[k] # NoFile /\ nodes'[l].work = nodes'[k].work => l = k
    BY <1>1, <1>2, <1>3 DEF StandInv, Standing, IsStory
  <2>4. \A k \in Keys : \A v \in issued'[k] : \E l \in Keys : nodes'[l].work = v
    <3> SUFFICES ASSUME NEW k \in Keys, NEW v \in issued'[k]
                 PROVE  \E l \in Keys : nodes'[l].work = v
      OBVIOUS
    <3>1. CASE k = new
      BY <1>1, <1>2, <3>1
    <3>2. CASE k # new
      <4>1. PICK l \in Keys : nodes[l].work = v
        BY <1>1, <3>2 DEF StandInv, Standing
      <4>2. v # NoWork
        BY <1>1, <3>2, StoryKeysAssumption DEF StandInv, Standing
      <4> QED
        BY <1>1, <4>1, <4>2, NothingTyped
    <3> QED
      BY <3>1, <3>2
  <2>5. DependentsStay => \A k \in Keys : nodes'[k].deps # {} => ~IsLeft(k)
    BY <1>1, <1>2 DEF StandInv, Standing
  <2> QED
    BY <2>1, <2>2, <2>3, <2>4, <2>5 DEF Standing, IsStory, IsLeft
<1>5. Stands(p)'
  BY <1>1 DEF Stands, Renamed, Reparenting
<1>6. ASSUME NEW q \in Procs, q # p, pc[q] \in Renamed
      PROVE  /\ nodes'[job[q].new] = nodes[job[q].new] /\ nodes'[job[q].old] = NoFile
             /\ DependentsStay => nodes[job[q].new].deps = {}
  <2>1. /\ job[q].new \in Keys /\ job[q].old \in Keys /\ nodes[job[q].old] = NoFile
        /\ IsStory(job[q].new) /\ issued[job[q].old] # {}
        /\ DependentsStay => nodes[job[q].new].deps = {}
    BY <1>6, MoverKeys DEF StandInv, Stands, IsStory
  <2> QED
    BY <1>1, <2>1 DEF IsStory
<1>7. ASSUME NEW q \in Procs, q # p PROVE pc[q] \notin {"mint", "newnode"}
  BY <1>3, <1>7 DEF StandInv, Stands
<1>8. ASSUME NEW q \in Procs, q # p, pc[q] = "walksave"
      PROVE  nodes'[job[q].at] = nodes[job[q].at] /\ nodes'[job[q].at].deps # {}
  <2>1. job[q].at \in Keys /\ nodes[job[q].at].deps # {}
    BY <1>8 DEF StandInv, IInv, Hand, InWalk, Stands
  <2> QED
    BY <1>1, <2>1, NothingTyped
<1>9. LocksStay(p) /\ OthersWait(p) /\ \A k \in Keys : issued[k] \subseteq issued'[k]
  BY <1>1 DEF LocksStay
<1> QED
  BY <1>4, <1>5, <1>6, <1>7, <1>8, <1>9, StandStep

\* Moving on inside a re-parent, with its keys as they were, and without writing a node.
LEMMA TurnStands ==
  ASSUME StandInv, NEW p \in Procs, UNCHANGED <<nodes, issued>>,
         job'[p].old = job[p].old, job'[p].to = job[p].to, job'[p].new = job[p].new,
         \/ pc[p] \in Reparenting /\ pc'[p] \in {"raise", "gate", "rename"}
         \/ pc[p] \in Renamed /\ pc'[p] \in Renamed \ {"walksave"}
  PROVE  Stands(p)'
BY DEF StandInv, Stands, Renamed, Reparenting, IsStory

LEMMA LeaveStands ==
  ASSUME StandInv, IInv', NEW p \in Procs, Leave(p), UNCHANGED <<nodes, issued>>
  PROVE  StandInv'
<1>1. pc'[p] = "idle" /\ OthersWait(p) /\ LocksStay(p)
  BY LeaveDoes DEF StandInv
<1>2. Stands(p)'
  BY <1>1 DEF Stands, Renamed, Reparenting
<1> QED
  BY <1>1, <1>2, QuietStand

LEMMA ReparentStands ==
  ASSUME StoriesMoveApart, NoneMovedOn, StandInv, IInv', NEW p \in Procs, Reparent(p)
  PROVE  StandInv'
<1>0. IInv
  BY DEF StandInv
<1>1. CASE Ask(p)
  <2>1. Stands(p)'
    BY <1>0, <1>1, AskDoes DEF Stands, Renamed, Reparenting
  <2> QED
    BY <1>0, <1>1, <2>1, AskDoes, LocksOfOthers, QuietStand
<1>2. CASE Raise(p)
  <2>1. Stands(p)'
    BY <1>0, <1>2, RaiseDoes, TurnStands DEF Reparenting
  <2> QED
    BY <1>0, <1>2, <2>1, RaiseDoes, LocksOfOthers, QuietStand
<1>3. CASE Gate(p)
  <2>1. Stands(p)'
    <3>1. Stands(p) /\ pc[p] \in Reparenting /\ pc'[p] = "rename" /\ issued' = issued
          /\ job'[p].old = job[p].old /\ job'[p].to = job[p].to
      BY <1>0, <1>3, GateDoes DEF StandInv, Reparenting
    <3> QED
      BY <3>1 DEF Stands, Renamed, Reparenting
  <2> QED
    BY <1>0, <1>3, <2>1, GateDoes, QuietStand
<1>4. CASE GateRefuses(p) \/ RenameFails(p) \/ Repoint(p)
  BY <1>4, LeaveStands DEF GateRefuses, RenameFails, Repoint, tree
<1>5. CASE Rename(p) \/ Rekey(p) \/ WalkSave(p)
  BY <1>5, RenameStands, RekeyStands, WalkSaveStands
<1>6. CASE MoveDoc(p) \/ RekeyDoc(p)
  <2>1. /\ pc[p] \in Renamed /\ pc'[p] \in Renamed \ {"walksave"} /\ OthersWait(p)
        /\ UNCHANGED <<nodes, issued, holder, job>>
    BY <1>0, <1>6 DEF MoveDoc, RekeyDoc, Goto, IInv, Typed, Renamed, OthersWait
  <2>2. Stands(p)'
    BY <2>1, TurnStands
  <2> QED
    BY <2>1, <2>2, LocksOfOthers, QuietStand
<1>7. CASE WalkLoad(p)
  <2>1. Stands(p)'
    <3>1. /\ Stands(p) /\ pc[p] = "walk" /\ pc'[p] = "walksave"
          /\ job'[p].at \in Keys /\ job[p].old \in nodes[job'[p].at].deps
          /\ job'[p].node = nodes[job'[p].at]
          /\ job'[p].old = job[p].old /\ job'[p].to = job[p].to /\ job'[p].new = job[p].new
          /\ nodes' = nodes /\ issued' = issued
      BY <1>0, <1>7, WalkLoadDoes DEF StandInv
    <3> QED
      BY <3>1 DEF Stands, Renamed, Reparenting, IsStory
  <2> QED
    BY <1>0, <1>7, <2>1, WalkLoadDoes, LocksOfOthers, QuietStand
<1> QED
  BY <1>1, <1>2, <1>3, <1>4, <1>5, <1>6, <1>7 DEF Reparent

LEMMA PromoteStands ==
  ASSUME StandInv, IInv', NEW p \in Procs, Promote(p)
  PROVE  StandInv'
<1>0. IInv
  BY DEF StandInv
<1>1. CASE PromoteTake(p)
  <2>1. Stands(p)'
    BY <1>0, <1>1, PromoteTakeDoes DEF Stands, Renamed, Reparenting
  <2> QED
    BY <1>0, <1>1, <2>1, PromoteTakeDoes, QuietStand
<1>2. CASE Mint(p)
  <2>1. Stands(p)'
    <3>1. Stands(p)
      BY DEF StandInv
    <3> QED
      BY <1>0, <1>2, <3>1, MintDoes DEF Stands, Renamed, Reparenting
  <2> QED
    BY <1>0, <1>2, <2>1, MintDoes, LocksOfOthers, QuietStand
<1>3. CASE NewNode(p)
  BY <1>3, NewNodeStands
<1>4. CASE NewDoc(p) /\ Goto(p, "item") /\ UNCHANGED <<holder, job>>
  <2>1. pc'[p] = "item" /\ OthersWait(p) /\ UNCHANGED <<nodes, issued, holder, job>>
    BY <1>0, <1>4 DEF NewDoc, Goto, IInv, Typed, OthersWait
  <2>2. Stands(p)'
    BY <2>1 DEF Stands, Renamed, Reparenting
  <2> QED
    BY <2>1, <2>2, LocksOfOthers, QuietStand
<1>5. CASE (NewDoc(p) \/ SaveItem(p)) /\ Leave(p)
  BY <1>5, LeaveStands DEF NewDoc, SaveItem
<1> QED
  BY <1>1, <1>2, <1>3, <1>4, <1>5 DEF Promote, NewDoc, SaveItem

LEMMA OtherStands ==
  ASSUME StandInv, IInv', NEW p \in Procs,
         Activate(p) \/ SprintLoad(p) \/ SprintSave(p) \/ Crash(p)
  PROVE  StandInv'
<1>0. IInv
  BY DEF StandInv
<1>1. CASE Activate(p)
  <2>1. UNCHANGED <<nodes, holder, pc, job, issued>>
    BY <1>1 DEF Activate
  <2>2. Stands(p)'
    BY <2>1 DEF StandInv, Stands, IsStory
  <2> QED
    BY <2>1, <2>2, LocksOfOthers, QuietStand DEF OthersWait
<1>2. CASE SprintLoad(p)
  <2>1. Stands(p)'
    BY <1>0, <1>2, SprintLoadDoes DEF Stands, Renamed, Reparenting
  <2> QED
    BY <1>0, <1>2, <2>1, SprintLoadDoes, LocksOfOthers, QuietStand
<1>3. CASE SprintSave(p) \/ Crash(p)
  BY <1>3, LeaveStands DEF SprintSave, Crash, tree
<1> QED
  BY <1>1, <1>2, <1>3

\* Where a step of p leaves its job.
LEMMA Turns ==
  ASSUME IInv, NEW p \in Procs,
         Reparent(p) \/ Promote(p) \/ Activate(p) \/ SprintLoad(p) \/ SprintSave(p) \/ Crash(p)
  PROVE  /\ OthersWait(p)
         /\ \/ Ask(p) \/ Raise(p) \/ Gate(p) \/ Rename(p)
            \/ /\ pc[p] \in Renamed /\ pc'[p] \in Renamed
               /\ job'[p].old = job[p].old /\ job'[p].new = job[p].new
            \/ pc'[p] \notin Reparenting
            \/ pc'[p] = pc[p] /\ job'[p] = job[p]
<1>1. CASE Ask(p) \/ Raise(p) \/ Gate(p) \/ Rename(p)
  BY <1>1, AskDoes, RaiseDoes, GateDoes, RenameDoes
<1>2. CASE Rekey(p) \/ WalkLoad(p) \/ WalkSave(p)
  BY <1>2, RekeyDoes, WalkLoadDoes, WalkSaveDoes DEF Renamed
<1>3. CASE MoveDoc(p) \/ RekeyDoc(p)
  BY <1>3 DEF MoveDoc, RekeyDoc, Goto, IInv, Typed, Renamed, OthersWait
<1>4. CASE GateRefuses(p) \/ RenameFails(p) \/ Repoint(p) \/ SaveItem(p) \/ SprintSave(p) \/ Crash(p)
  BY <1>4, LeaveDoes DEF GateRefuses, RenameFails, Repoint, SaveItem, SprintSave, Crash, Reparenting
<1>5. CASE NewDoc(p)
  <2>1. CASE Leave(p)
    BY <2>1, LeaveDoes DEF Reparenting
  <2>2. CASE Goto(p, "item") /\ UNCHANGED <<holder, job>>
    BY <2>2 DEF Goto, IInv, Typed, Reparenting, OthersWait
  <2> QED
    BY <1>5, <2>1, <2>2 DEF NewDoc
<1>6. CASE PromoteTake(p) \/ Mint(p) \/ NewNode(p)
  BY <1>6, PromoteTakeDoes, MintDoes, NewNodeDoes DEF Reparenting
<1>7. CASE Activate(p)
  BY <1>7, ActivateDoes DEF OthersWait
<1>8. CASE SprintLoad(p)
  BY <1>8, SprintLoadDoes DEF Reparenting
<1> QED
  BY <1>1, <1>2, <1>3, <1>4, <1>5, <1>6, <1>7, <1>8 DEF Reparent, Promote

LEMMA NextOnward ==
  ASSUME NoneMovedOn, StandInv, StandInv', Next
  PROVE  NoneMovedOn'
<1>0. IInv
  BY DEF StandInv
<1> SUFFICES ASSUME NEW a \in Procs, NEW b \in Procs,
                    pc'[a] \in Renamed, pc'[b] \in Reparenting \ {"raise"}, job'[b].old = job'[a].new
             PROVE  FALSE
  BY DEF NoneMovedOn
<1>1. a # b
  BY DEF StandInv, Stands
<1>2. /\ nodes'[job'[a].new] # NoFile /\ job'[a].new[1] = job'[a].to /\ job'[a].to \in Sprints
      /\ holder'[EpicOf[job'[a].to]] = a /\ EpicOf[job'[a].to] \in planned'
  BY DEF StandInv, Stands, IInv, Hand, Departing, Arriving, Renamed, IsStory
<1>3. PICK p \in Procs : Reparent(p) \/ Promote(p) \/ Activate(p) \/ SprintLoad(p)
                        \/ SprintSave(p) \/ Crash(p)
  BY DEF Next
<1>4. /\ OthersWait(p)
      /\ \/ Ask(p) \/ Raise(p) \/ Gate(p) \/ Rename(p)
         \/ /\ pc[p] \in Renamed /\ pc'[p] \in Renamed
            /\ job'[p].old = job[p].old /\ job'[p].new = job[p].new
         \/ pc'[p] \notin Reparenting
         \/ pc'[p] = pc[p] /\ job'[p] = job[p]
  BY <1>0, <1>3, Turns
<1>5. CASE p = a
  <2>1. job'[b] = job[b] /\ pc'[b] = pc[b] /\ issued[job[b].old] # {}
    BY <1>1, <1>4, <1>5 DEF OthersWait, StandInv, Stands
  <2>2. CASE pc[a] \in Renamed /\ job'[a].new = job[a].new
    BY <2>1, <2>2 DEF NoneMovedOn
  <2>3. CASE pc[a] = "rename" /\ Rename(a)
    <3>1. issued[job[a].new] = {} /\ job' = job
      BY <1>0, <2>3, RenameDoes
    <3> QED
      BY <2>1, <3>1
  <2> QED
    BY <1>0, <1>4, <1>5, <2>2, <2>3, AskDoes, RaiseDoes, GateDoes, RenameDoes
       DEF Renamed, Reparenting
<1>6. CASE p = b
  <2>1. job'[a] = job[a] /\ pc'[a] = pc[a]
    BY <1>1, <1>4, <1>6 DEF OthersWait
  <2>2. CASE pc[b] \in Reparenting \ {"raise"} /\ job'[b].old = job[b].old
    BY <2>1, <2>2 DEF NoneMovedOn
  <2>3. CASE Raise(b)
    <3>1. job' = job /\ holder' = holder /\ holder[EpicAt(job[b].old)] = NoProc
      BY <1>0, <2>3, RaiseDoes
    <3> QED
      BY <1>2, <3>1, StoryKeysAssumption DEF EpicAt
  <2>4. CASE Ask(b)
    <3>1. /\ pc'[b] \in {"raise", "gate"} /\ nodes' = nodes /\ planned' = planned
          /\ pc'[b] = "gate" => ~IsStory(job'[b].old) \/ EpicAt(job'[b].old) \notin planned
      BY <1>0, <2>4, AskDoes
    <3> QED
      BY <1>2, <3>1 DEF EpicAt, IsStory
  <2> QED
    BY <1>0, <1>4, <1>6, <2>2, <2>3, <2>4, GateDoes, RenameDoes DEF Renamed, Reparenting
<1>7. CASE p # a /\ p # b
  BY <1>4, <1>7 DEF OthersWait, NoneMovedOn
<1> QED
  BY <1>5, <1>6, <1>7

LEMMA NextStands ==
  ASSUME StoriesMoveApart, StandInv, NoneMovedOn, [Next]_vars
  PROVE  StandInv' /\ NoneMovedOn'
<1>1. CASE Next
  <2>1. IInv'
    BY <1>1, Inductive DEF StoriesMoveApart, StandInv
  <2>2. StandInv'
    BY <1>1, <2>1, ReparentStands, PromoteStands, OtherStands DEF Next
  <2> QED
    BY <1>1, <2>2, NextOnward
<1>2. CASE UNCHANGED vars
  <2>1. IInv'
    BY <1>2, Inductive DEF StoriesMoveApart, StandInv
  <2> QED
    BY <1>2, <2>1 DEF vars, StandInv, Standing, Stands, IsStory, NoneMovedOn
<1> QED
  BY <1>1, <1>2

\* The stories at the start.
LEMMA FirstStories ==
  ASSUME Init, NEW key \in Keys
  PROVE  /\ issued[key] = {w \in Works \ Findings : Placed[w] = key}
         /\ \/ /\ nodes[key] = NoFile /\ docs[key] = NoDoc
               /\ \A w \in Works \ Findings : Placed[w] # key
            \/ \E w \in Works \ Findings :
                 /\ Placed[w] = key
                 /\ nodes[key].work = w /\ nodes[key].name = key /\ nodes[key].prev = <<>>
                 /\ nodes[key].deps = {Placed[v] : v \in Needs[w]}
                 /\ docs[key] = NoDoc \/ docs[key] = [work |-> w, name |-> key]
<1>1. issued[key] = {w \in Works \ Findings : Placed[w] = key}
  BY DEF Init
<1>2. ASSUME NEW w \in Works \ Findings, Placed[w] = key
      PROVE  /\ nodes[key].work = w /\ nodes[key].name = key /\ nodes[key].prev = <<>>
             /\ nodes[key].deps = {Placed[v] : v \in Needs[w]}
             /\ docs[key] = NoDoc \/ docs[key] = [work |-> w, name |-> key]
  <2> DEFINE first == CHOOSE v \in Works \ Findings : Placed[v] = key
             told == CHOOSE v \in Written : Placed[v] = key
  <2>1. first = w
    BY <1>2, StoryKeysAssumption
  <2>2. nodes[key] = [work |-> w, name |-> key, deps |-> {Placed[u] : u \in Needs[w]}, prev |-> <<>>]
    BY <1>2, <2>1 DEF Init
  <2>3. ASSUME NEW x \in Written, Placed[x] = key
        PROVE  told = w
    <3>1. told \in Written /\ Placed[told] = key
      BY <2>3
    <3> QED
      BY <1>2, <3>1, StoryKeysAssumption
  <2>4. docs[key] = NoDoc \/ docs[key] = [work |-> w, name |-> key]
    <3>1. CASE \E x \in Written : Placed[x] = key
      <4>1. told = w
        BY <2>3, <3>1
      <4>2. docs[key] = [work |-> told, name |-> key]
        BY <3>1 DEF Init
      <4> QED
        BY <4>1, <4>2
    <3>2. CASE ~\E x \in Written : Placed[x] = key
      BY <3>2 DEF Init
    <3> QED
      BY <3>1, <3>2
  <2> QED
    BY <2>2, <2>4
<1>3. ASSUME \A w \in Works \ Findings : Placed[w] # key
      PROVE  nodes[key] = NoFile /\ docs[key] = NoDoc
  BY <1>3, StoryKeysAssumption DEF Init
<1> QED
  BY <1>1, <1>2, <1>3

LEMMA InitStands == Init => StandInv /\ NoneMovedOn
<1> SUFFICES ASSUME Init PROVE StandInv /\ NoneMovedOn
  OBVIOUS
<1>0. ASSUME NEW k \in Keys
      PROVE  /\ \A w : w \in issued[k] <=> w \in Works \ Findings /\ Placed[w] = k
             /\ nodes[k] = NoFile \/ \E w \in Works \ Findings : Placed[w] = k
             /\ \A w \in Works \ Findings : Placed[w] = k => nodes[k].work = w
  <2>1. issued[k] = {w \in Works \ Findings : Placed[w] = k}
    BY FirstStories
  <2>2. CASE nodes[k] = NoFile /\ \A w \in Works \ Findings : Placed[w] # k
    BY <2>1, <2>2
  <2>3. ASSUME NEW w \in Works \ Findings, Placed[w] = k, nodes[k].work = w
        PROVE  \A v \in Works \ Findings : Placed[v] = k => nodes[k].work = v
    BY <2>3, StoryKeysAssumption
  <2> QED
    BY <2>1, <2>2, <2>3, FirstStories
<1>1. \A k \in Keys : issued[k] \subseteq Works
  BY <1>0
<1>2. \A k \in Keys : nodes[k].work = NoWork => ~IsStory(k)
  BY <1>0, StoryKeysAssumption DEF IsStory
<1>3. ASSUME NEW k \in Keys, NEW l \in Keys, IsStory(k), nodes[l].work = nodes[k].work
      PROVE  l = k
  <2>1. PICK w \in Works \ Findings : Placed[w] = k /\ nodes[k].work = w
    BY <1>0, <1>3 DEF IsStory
  <2>2. w # NoWork /\ nodes[l].work = w
    BY <1>3, <2>1, StoryKeysAssumption
  <2>3. PICK v \in Works \ Findings : Placed[v] = l /\ nodes[l].work = v
    BY <1>0, <2>2, NothingTyped
  <2> QED
    BY <2>1, <2>2, <2>3
<1>4. ASSUME NEW k \in Keys, NEW w \in issued[k] PROVE \E l \in Keys : nodes[l].work = w
  BY <1>0
<1>5. ASSUME DependentsStay, NEW k \in Keys, nodes[k].deps # {} PROVE ~IsLeft(k)
  <2>1. PICK w \in Works \ Findings : Placed[w] = k /\ nodes[k].deps = {Placed[v] : v \in Needs[w]}
    BY <1>5, FirstStories, NothingTyped
  <2>2. Needs[w] # {}
    BY <1>5, <2>1
  <2> QED
    BY <1>5, <2>1, <2>2 DEF DependentsStay, IsLeft
<1>6. NoneMovedOn /\ \A p \in Procs : Stands(p)
  BY DEF Init, Stands, Renamed, Reparenting, NoneMovedOn
<1> QED
  BY <1>1, <1>2, <1>3, <1>4, <1>5, <1>6, Initially DEF StandInv, Standing

-----------------------------------------------------------------------------
(* No second file of a story is left behind.                                *)

ActivatesNothing == \A p \in Procs : "move-epic" \notin Verbs[p]

\* The stories that depend on others are in the epic that receives the moved ones,
\* whose flock keeps its directory where it is while references are rewritten.
DependentsReceive ==
  \A w \in Works \ Findings : \A move \in Moves :
    Needs[w] # {} => EpicAt(Placed[w]) = EpicOf[move[2]]

DirectoriesStay == ActivatesNothing \/ DependentsReceive

Receives(key) == \A move \in Moves : EpicAt(key) = EpicOf[move[2]]

CopyInv ==
  /\ copies = {}
  /\ \A p \in Procs : pc[p] = "walksave" =>
       /\ job[p].bucket = Bucket(job[p].at)
       /\ DependentsReceive => Receives(job[p].at)
  /\ DependentsReceive => \A key \in Keys : nodes[key].deps # {} => Receives(key)

LEMMA InitCopies == Init => CopyInv
<1> SUFFICES ASSUME Init PROVE CopyInv
  OBVIOUS
<1>1. ASSUME DependentsReceive, NEW key \in Keys, nodes[key].deps # {} PROVE Receives(key)
  <2>1. PICK w \in Works \ Findings : Placed[w] = key /\ nodes[key].deps = {Placed[v] : v \in Needs[w]}
    BY <1>1, FirstStories, NothingTyped
  <2>2. Needs[w] # {}
    BY <1>1, <2>1
  <2> QED
    BY <1>1, <2>1, <2>2 DEF DependentsReceive, Receives
<1> QED
  BY <1>1 DEF Init, CopyInv

\* Who loads a dependent to rewrite it holds the flock of the dependent's epic, or
\* nothing is activated.
LEMMA ActivateCopies ==
  ASSUME DirectoriesStay, StandInv, CopyInv, NEW p \in Procs, Activate(p)
  PROVE  CopyInv'
<1>1. PICK e \in planned : holder[e] = NoProc /\ planned' = planned \ {e}
  BY DEF Activate, IsFree
<1>2. UNCHANGED <<nodes, copies, holder, pc, job>> /\ DependentsReceive
  BY DEF Activate, DirectoriesStay, ActivatesNothing
<1>3. ASSUME NEW q \in Procs, pc[q] = "walksave"
      PROVE  Bucket(job[q].at)' = Bucket(job[q].at)
  <2>1. PICK move \in Moves : move[2] = job[q].to
    BY <1>3 DEF StandInv, Stands, Reparenting
  <2>2. EpicAt(job[q].at) = EpicOf[job[q].to]
    BY <1>2, <1>3, <2>1 DEF CopyInv, Receives
  <2>3. holder[EpicOf[job[q].to]] = q /\ q # NoProc
    BY <1>3, StoryKeysAssumption DEF StandInv, IInv, Hand, Arriving
  <2>4. EpicAt(job[q].at) # e
    BY <1>1, <2>2, <2>3
  <2> QED
    BY <1>1, <1>2, <2>4 DEF Bucket, EpicAt
<1> QED
  BY <1>2, <1>3 DEF CopyInv, Receives, EpicAt

LEMMA NextCopies ==
  ASSUME DirectoriesStay, StandInv, CopyInv, [Next]_vars
  PROVE  CopyInv'
<1>0. IInv
  BY DEF StandInv
\* A step that moves no directory, and has no reference loaded that it did not load now.
<1>1. ASSUME NEW p \in Procs, OthersWait(p), UNCHANGED <<planned, copies>>,
             pc'[p] # "walksave",
             DependentsReceive => \A key \in Keys : nodes'[key].deps # {} => Receives(key)
      PROVE  CopyInv'
  <2>1. ASSUME NEW q \in Procs, pc'[q] = "walksave"
        PROVE  pc[q] = "walksave" /\ job'[q] = job[q]
    BY <1>1, <2>1 DEF OthersWait
  <2>2. \A k : Bucket(k)' = Bucket(k) /\ (Receives(k)' <=> Receives(k))
    BY <1>1 DEF Bucket, EpicAt, Receives
  <2> QED
    BY <1>1, <2>1, <2>2 DEF CopyInv
<1>2. ASSUME NEW p \in Procs, Ask(p) \/ Raise(p) \/ Gate(p) PROVE CopyInv'
  <2>1. /\ OthersWait(p) /\ nodes' = nodes /\ planned' = planned
        /\ pc'[p] \in {"raise", "gate", "rename"}
    BY <1>0, <1>2, AskDoes, RaiseDoes, GateDoes
  <2>2. copies' = copies
    BY <1>2 DEF Ask, Raise, Gate, tree
  <2> QED
    BY <1>1, <2>1, <2>2 DEF CopyInv
<1>3. ASSUME NEW p \in Procs, Rename(p) PROVE CopyInv'
  <2>1. copies' = copies
    BY <1>3 DEF Rename
  <2>2. ASSUME DependentsReceive, NEW key \in Keys, nodes'[key].deps # {}
        PROVE  Receives(key)
    <3>1. CASE key \notin {job[p].old, job[p].new}
      BY <1>0, <1>3, <2>2, <3>1, RenameDoes DEF CopyInv
    <3>2. key # job[p].old
      BY <1>0, <1>3, <2>2, RenameDoes DEF NoFile
    <3>3. CASE key = job[p].new
      <4>1. nodes[job[p].old].deps # {} /\ job[p].old \in Keys
        BY <1>0, <1>3, <2>2, <3>3, RenameDoes
      <4>2. PICK move \in Moves : move[2] = job[p].to
        BY <1>0, <1>3, RenameDoes DEF StandInv, Stands, Reparenting
      <4>3. key[1] = move[2]
        BY <1>0, <1>3, <3>3, <4>2, RenameDoes DEF IInv, Hand, Arriving
      <4>4. Receives(job[p].old)
        BY <2>2, <4>1 DEF CopyInv
      <4> QED
        BY <4>2, <4>3, <4>4 DEF Receives, EpicAt
    <3> QED
      BY <3>1, <3>2, <3>3
  <2>3. OthersWait(p) /\ planned' = planned /\ pc'[p] # "walksave"
    BY <1>0, <1>3, RenameDoes
  <2> QED
    BY <1>1, <2>1, <2>2, <2>3
<1>4. ASSUME NEW p \in Procs, Rekey(p) PROVE CopyInv'
  <2>1. /\ \A k \in Keys : nodes'[k].deps = nodes[k].deps
        /\ OthersWait(p) /\ planned' = planned /\ pc'[p] # "walksave"
    BY <1>0, <1>4, RekeyDoes
  <2>2. copies' = copies
    BY <1>4 DEF Rekey
  <2> QED
    BY <1>1, <2>1, <2>2 DEF CopyInv
<1>5. ASSUME NEW p \in Procs, WalkLoad(p) PROVE CopyInv'
  <2>1. /\ job'[p].at \in Keys /\ nodes[job'[p].at].deps # {}
        /\ job'[p].bucket = Bucket(job'[p].at)
        /\ nodes' = nodes /\ planned' = planned /\ OthersWait(p)
    BY <1>0, <1>5, WalkLoadDoes
  <2>2. copies' = copies
    BY <1>5 DEF WalkLoad, tree
  <2>3. ASSUME NEW q \in Procs, q # p, pc'[q] = "walksave"
        PROVE  pc[q] = "walksave" /\ job'[q] = job[q]
    BY <2>1, <2>3 DEF OthersWait
  <2>4. \A k : Bucket(k)' = Bucket(k) /\ (Receives(k)' <=> Receives(k))
    BY <2>1 DEF Bucket, EpicAt, Receives
  <2> QED
    BY <2>1, <2>2, <2>3, <2>4 DEF CopyInv
<1>6. ASSUME NEW p \in Procs, WalkSave(p) PROVE CopyInv'
  <2>1. /\ pc[p] = "walksave" /\ pc'[p] = "walk" /\ job[p].at \in Keys
        /\ \A k \in Keys : k # job[p].at => nodes'[k] = nodes[k]
        /\ planned' = planned /\ OthersWait(p)
    BY <1>0, <1>6, WalkSaveDoes
  <2>2. job[p].bucket = Bucket(job[p].at) /\ (DependentsReceive => Receives(job[p].at))
    BY <2>1 DEF CopyInv
  <2>3. copies' = copies
    BY <1>6, <2>2 DEF WalkSave
  <2>4. DependentsReceive => \A key \in Keys : nodes'[key].deps # {} => Receives(key)
    BY <2>1, <2>2 DEF CopyInv
  <2> QED
    BY <1>1, <2>1, <2>3, <2>4
<1>7. ASSUME NEW p \in Procs, NewNode(p) PROVE CopyInv'
  <2>1. /\ \A k \in Keys : nodes'[k].deps # {} => nodes[k].deps # {}
        /\ OthersWait(p) /\ planned' = planned /\ pc'[p] # "walksave"
    BY <1>0, <1>7, NewNodeDoes, BornFile
  <2>2. copies' = copies
    BY <1>7 DEF NewNode
  <2> QED
    BY <1>1, <2>1, <2>2 DEF CopyInv
<1>8. ASSUME NEW p \in Procs,
             GateRefuses(p) \/ RenameFails(p) \/ Repoint(p) \/ SaveItem(p) \/ SprintSave(p)
               \/ Crash(p) \/ (NewDoc(p) /\ Leave(p))
      PROVE CopyInv'
  <2>1. Leave(p) /\ UNCHANGED <<nodes, planned, copies>>
    BY <1>8 DEF GateRefuses, RenameFails, Repoint, SaveItem, SprintSave, Crash, NewDoc, tree
  <2>2. OthersWait(p) /\ pc'[p] = "idle"
    BY <1>0, <2>1, LeaveDoes
  <2> QED
    BY <1>1, <2>1, <2>2 DEF CopyInv
<1>9. ASSUME NEW p \in Procs,
             MoveDoc(p) \/ RekeyDoc(p) \/ (NewDoc(p) /\ Goto(p, "item") /\ UNCHANGED <<holder, job>>)
      PROVE CopyInv'
  <2>1. \E to \in {"rekey", "walk", "item"} : pc' = [pc EXCEPT ![p] = to]
    BY <1>9 DEF MoveDoc, RekeyDoc, Goto
  <2>2. UNCHANGED <<nodes, planned, copies, job>>
    BY <1>9 DEF MoveDoc, RekeyDoc, NewDoc
  <2>3. OthersWait(p) /\ pc'[p] # "walksave"
    BY <1>0, <2>1, <2>2 DEF OthersWait, IInv, Typed
  <2> QED
    BY <1>1, <2>2, <2>3 DEF CopyInv
<1>10. ASSUME NEW p \in Procs, PromoteTake(p) \/ Mint(p) \/ SprintLoad(p) PROVE CopyInv'
  <2>1. OthersWait(p) /\ pc'[p] # "walksave"
    BY <1>0, <1>10, PromoteTakeDoes, MintDoes, SprintLoadDoes
  <2>2. UNCHANGED <<nodes, planned, copies>>
    BY <1>10 DEF PromoteTake, Mint, SprintLoad, tree
  <2> QED
    BY <1>1, <2>1, <2>2 DEF CopyInv
<1>11. CASE UNCHANGED vars
  BY <1>11 DEF vars, CopyInv, Bucket, EpicAt, Receives
<1>12. CASE Next
  <2>1. PICK p \in Procs : Reparent(p) \/ Promote(p) \/ Activate(p) \/ SprintLoad(p)
                          \/ SprintSave(p) \/ Crash(p)
    BY <1>12 DEF Next
  <2>2. CASE Reparent(p)
    BY <1>2, <1>3, <1>4, <1>5, <1>6, <1>8, <1>9, <2>2 DEF Reparent
  <2>3. CASE Promote(p)
    BY <1>7, <1>8, <1>9, <1>10, <2>3 DEF Promote, NewDoc
  <2> QED
    BY <1>8, <1>10, <2>1, <2>2, <2>3, ActivateCopies
<1> QED
  BY <1>11, <1>12

\* reparent_story: a story never stands in two places, and never in none, whatever
\* moves, is promoted or dies, as long as the directory of no story that depends on
\* another can be activated under the rewriting of its references.
THEOREM StoriesStandOnce == StoriesMoveApart /\ DirectoriesStay => (Spec => []StoryStandsOnce)
<1> SUFFICES ASSUME StoriesMoveApart, DirectoriesStay PROVE Spec => []StoryStandsOnce
  OBVIOUS
<1>1. StandInv /\ CopyInv => StoryStandsOnce
  <2> SUFFICES ASSUME StandInv, NEW key \in Keys, NEW w \in issued[key]
               PROVE  \E k \in Keys : \A l \in Keys : nodes[l].work = w <=> l = k
    BY DEF StoryStandsOnce, CopyInv
  <2>1. PICK k \in Keys : nodes[k].work = w
    BY DEF StandInv, Standing
  <2>2. IsStory(k)
    BY <2>1, FilesHaveWork, StoryKeysAssumption DEF StandInv, Standing
  <2> QED
    BY <2>1, <2>2 DEF StandInv, Standing
<1>2. StandInv /\ NoneMovedOn /\ CopyInv /\ [Next]_vars => (StandInv /\ NoneMovedOn /\ CopyInv)'
  BY NextStands, NextCopies
<1>3. Init => StandInv /\ NoneMovedOn /\ CopyInv
  BY InitStands, InitCopies
<1> QED
  BY <1>1, <1>2, <1>3, PTL DEF Spec

-----------------------------------------------------------------------------
(* Both trees move together.                                                *)

PlaceInv == StandInv /\ NoneMovedOn

KeysOf(w) == {k \in Keys : w \in issued[k]}
Past(prev) == {prev[i] : i \in 1..Len(prev)}

\* A story carries a key it has had; it is the one it lies under, and the others
\* are on record, unless a re-parent is about to write that.
NodesAreKeyed ==
  \A k \in Keys : IsStory(k) =>
    /\ nodes[k].name \in Keys /\ nodes[k].work \in issued[nodes[k].name]
    /\ nodes[k].work \notin cut /\ (\A p \in Procs : pc[p] \in {"doc", "rekey"} => job[p].new # k) =>
         nodes[k].name = k /\ KeysOf(nodes[k].work) = Past(nodes[k].prev) \cup {k}

DocMoving == {"doc", "rekey", "rekeydoc"}

\* A document lies at a key that its story has had; it lies beside the story and has
\* its key, unless a re-parent is about to bring it there.
DocsAreKeyed ==
  \A k \in Keys : docs[k] # NoDoc =>
    /\ docs[k].work \in issued[k]
    /\ docs[k].work \notin cut
         /\ (\A p \in Procs : pc[p] \in DocMoving => nodes[job[p].new].work # docs[k].work) =>
         docs[k].name = k /\ nodes[k].work = docs[k].work

\* What the gate saw of the document still holds when the story is renamed.
GateStands(p) ==
  pc[p] = "rename" /\ IsStory(job[p].old) =>
    /\ job[p].doc => docs[job[p].old] # NoDoc
    /\ ~job[p].doc /\ EpicAt(job[p].old) \in planned /\ nodes[job[p].old].work \notin cut =>
         docs[job[p].old] = NoDoc

\* On the way the document lies at the old key, and then at the new one.
DocInHand(p) ==
  pc[p] \in DocMoving =>
    /\ pc[p] = "doc" => job[p].doc /\ docs[job[p].old] # NoDoc
    /\ (pc[p] = "rekey" /\ job[p].doc) \/ pc[p] = "rekeydoc" => docs[job[p].new] # NoDoc
    /\ nodes[job[p].new].work \notin cut =>
         /\ pc[p] \in {"doc", "rekey"} =>
              KeysOf(nodes[job[p].new].work) = Past(nodes[job[p].new].prev) \cup {job[p].old, job[p].new}
         /\ \A k \in Keys : docs[k].work = nodes[job[p].new].work =>
              k = IF pc[p] = "doc" THEN job[p].old ELSE job[p].new
         /\ pc[p] = "rekey" /\ ~job[p].doc =>
              \A k \in Keys : docs[k].work # nodes[job[p].new].work

\* A promoted story is at the key in hand, unless it is the rest of a promotion that died.
Promotes(p) ==
  pc[p] \in {"newdoc", "item"} =>
    /\ job[p].new \in Keys /\ job[p].to \in Sprints /\ job[p].new[1] = job[p].to
    /\ holder["issues"] = p /\ holder[EpicOf[job[p].to]] = p
    /\ job[p].node.work \in issued[job[p].new]
    /\ job[p].node.work \notin cut => nodes[job[p].new].work = job[p].node.work

\* No re-parent that could take such a story is past its epic's flock.
NoneTaken ==
  \A p, q \in Procs :
    pc[p] \in {"newdoc", "item"} /\ job[p].node.work \notin cut
      /\ pc[q] \in {"gate", "rename"} /\ job[q].old = job[p].new =>
      EpicAt(job[q].old) \notin planned

\* A finding whose item does not name its story yet is being promoted, or its
\* promotion died.
FindingsAreTold ==
  \A g \in Findings \ cut : refs[g] = NoKey /\ (\E k \in Keys : nodes[k].work = g) =>
    \E p \in Procs : pc[p] \in {"newdoc", "item"} /\ job[p].node.work = g

DocTypes == docs \in [Keys -> Docs \cup {NoDoc}] /\ refs \in [Works -> Keys \cup {NoKey}]

DocInv ==
  /\ PlaceInv /\ DocTypes /\ NodesAreKeyed /\ DocsAreKeyed /\ FindingsAreTold /\ NoneTaken
  /\ \A p \in Procs : GateStands(p) /\ DocInHand(p) /\ Promotes(p)

LEMMA DocsHaveWork ==
  ASSUME DocTypes, NEW k \in Keys
  PROVE  /\ docs[k] # NoDoc <=> docs[k].work \in Works
         /\ docs[k] # NoDoc => docs[k] \in Docs
         /\ NoDoc.work = NoWork
BY StoryKeysAssumption DEF DocTypes, Docs, NoDoc

LEMMA PastAppends ==
  ASSUME NEW prev \in Seq(Keys), NEW key \in Keys
  PROVE  Past(Append(prev, key)) = Past(prev) \cup {key}
<1>1. /\ Len(Append(prev, key)) = Len(prev) + 1 /\ Len(prev) \in Nat
      /\ \A i \in 1..Len(prev) : Append(prev, key)[i] = prev[i]
      /\ Append(prev, key)[Len(prev) + 1] = key
  OBVIOUS
<1>2. ASSUME NEW x PROVE x \in Past(Append(prev, key)) <=> x \in Past(prev) \cup {key}
  <2>1. ASSUME NEW i \in 1..(Len(prev) + 1), x = Append(prev, key)[i]
        PROVE  x \in Past(prev) \cup {key}
    <3>1. i = Len(prev) + 1 \/ i \in 1..Len(prev)
      BY <1>1
    <3> QED
      BY <1>1, <2>1, <3>1 DEF Past
  <2>2. ASSUME NEW i \in 1..Len(prev), x = prev[i] PROVE x \in Past(Append(prev, key))
    <3>1. i \in 1..(Len(prev) + 1)
      BY <1>1
    <3> QED
      BY <1>1, <2>2, <3>1 DEF Past
  <2>3. key \in Past(Append(prev, key))
    <3>1. Len(prev) + 1 \in 1..(Len(prev) + 1)
      BY <1>1
    <3> QED
      BY <1>1, <3>1 DEF Past
  <2> QED
    BY <1>1, <2>1, <2>2, <2>3 DEF Past
<1> QED
  BY <1>2

(* What the steps do to the documents and the items.                        *)

LEMMA MoveDocDoes ==
  ASSUME DocInv, NEW p \in Procs, MoveDoc(p)
  PROVE  LET old == job[p].old
             new == job[p].new
         IN  /\ pc[p] = "doc" /\ pc'[p] = "rekey"
             /\ old \in Keys /\ new \in Keys /\ old # new
             /\ docs'[new] = docs[old] /\ docs'[old] = NoDoc
             /\ \A k \in Keys : k \notin {old, new} => docs'[k] = docs[k]
             /\ UNCHANGED <<nodes, refs, planned, holder, job, issued, cut>> /\ OthersWait(p)
             /\ DocTypes'
<1> DEFINE old == job[p].old
           new == job[p].new
<1>1. /\ pc[p] = "doc" /\ pc' = [pc EXCEPT ![p] = "rekey"]
      /\ docs' = [docs EXCEPT ![old] = NoDoc, ![new] = docs[old]]
      /\ UNCHANGED <<nodes, refs, planned, holder, job, issued, cut>>
  BY DEF MoveDoc, Goto
<1>2. old \in Keys /\ new \in Keys /\ old # new
  BY <1>1, MoverKeys DEF DocInv, PlaceInv, StandInv, Stands, Renamed
<1> QED
  BY <1>1, <1>2 DEF DocInv, PlaceInv, StandInv, IInv, Typed, DocTypes, OthersWait

LEMMA RekeyDocDoes ==
  ASSUME DocInv, NEW p \in Procs, RekeyDoc(p)
  PROVE  LET new == job[p].new
         IN  /\ pc[p] = "rekeydoc" /\ pc'[p] = "walk" /\ new \in Keys
             /\ docs'[new].work = docs[new].work /\ docs'[new].name = new /\ docs'[new] # NoDoc
             /\ \A k \in Keys : k # new => docs'[k] = docs[k]
             /\ UNCHANGED <<nodes, refs, planned, holder, job, issued, cut>> /\ OthersWait(p)
             /\ DocTypes'
<1> DEFINE new == job[p].new
           doc == [docs[new] EXCEPT !.name = new]
<1>1. /\ pc[p] = "rekeydoc" /\ pc' = [pc EXCEPT ![p] = "walk"]
      /\ docs' = [docs EXCEPT ![new] = doc]
      /\ UNCHANGED <<nodes, refs, planned, holder, job, issued, cut>>
  BY DEF RekeyDoc, Goto
<1>2. new \in Keys /\ docs[new] # NoDoc
  BY <1>1, MoverKeys DEF DocInv, PlaceInv, DocInHand, DocMoving, Renamed
<1>3. docs[new] \in Docs
  BY <1>2, DocsHaveWork DEF DocInv
<1>4. doc \in Docs /\ doc.work = docs[new].work /\ doc.name = new
  BY <1>2, <1>3 DEF Docs
<1>5. doc # NoDoc
  BY <1>4, StoryKeysAssumption DEF Docs, NoDoc
<1> HIDE DEF doc
<1> QED
  BY <1>1, <1>2, <1>4, <1>5 DEF DocInv, PlaceInv, StandInv, IInv, Typed, DocTypes, OthersWait

\* When the story is there.
LEMMA NewDocDoes ==
  ASSUME DocInv, NEW p \in Procs, NewDoc(p), Goto(p, "item"), UNCHANGED <<holder, job>>
  PROVE  LET new == job[p].new
             w == job[p].node.work
         IN  /\ pc[p] = "newdoc" /\ pc'[p] = "item" /\ new \in Keys /\ w \in issued[new]
             /\ docs[new] = NoDoc => docs'[new].work = w /\ docs'[new].name = new
             /\ docs'[new] # NoDoc
             /\ docs[new] # NoDoc => docs'[new] = docs[new]
             /\ \A k \in Keys : k # new => docs'[k] = docs[k]
             /\ UNCHANGED <<nodes, refs, planned, holder, job, issued, cut>> /\ OthersWait(p)
             /\ DocTypes'
<1> DEFINE new == job[p].new
           w == job[p].node.work
           doc == [work |-> w, name |-> new]
<1>1. /\ pc[p] = "newdoc" /\ pc' = [pc EXCEPT ![p] = "item"]
      /\ UNCHANGED <<nodes, refs, planned, holder, job, issued, cut>>
  BY DEF NewDoc, Goto
<1>2. Promotes(p) /\ new \in Keys /\ w \in issued[new] /\ w \in Works
  BY <1>1 DEF DocInv, Promotes, PlaceInv, StandInv, Standing
<1>3. doc \in Docs /\ doc # NoDoc
  BY <1>2, StoryKeysAssumption DEF Docs, NoDoc
<1>4. CASE IsStory(new) /\ docs' = [docs EXCEPT ![new] = IF docs[new] = NoDoc THEN doc ELSE docs[new]]
  BY <1>1, <1>2, <1>3, <1>4 DEF DocInv, PlaceInv, StandInv, IInv, Typed, DocTypes, OthersWait
<1>5. ASSUME Leave(p) PROVE FALSE
  BY <1>1, <1>5, LeaveDoes DEF DocInv, PlaceInv, StandInv
<1> QED
  BY <1>4, <1>5 DEF NewDoc

\* What a process that waits keeps, from what the step of another one leaves alone.
LEMMA DocRely ==
  ASSUME DocInv, StandInv', NEW q \in Procs, job'[q] = job[q], pc'[q] = pc[q],
         cut \subseteq cut', planned' \subseteq planned,
         \A l \in Flocks : holder[l] = q => holder'[l] = q,
         \A k \in Keys : issued[k] \subseteq issued'[k],
         pc[q] = "rename" /\ nodes'[job[q].old] # NoFile =>
           LET old == job[q].old
           IN  /\ nodes[old] # NoFile /\ nodes'[old].work = nodes[old].work
               /\ docs[old] # NoDoc => docs'[old] # NoDoc
               /\ docs'[old] # NoDoc => \/ docs[old] # NoDoc \/ nodes[old].work \in cut
                                        \/ EpicAt(old) \notin planned,
         pc[q] \in DocMoving =>
           LET old == job[q].old
               new == job[q].new
               w == nodes[new].work
           IN  /\ nodes'[new].work = w /\ nodes'[new].prev = nodes[new].prev
               /\ \A k \in Keys : w \in issued'[k] => w \in issued[k]
               /\ docs[new] # NoDoc => docs'[new] # NoDoc
               /\ pc[q] = "doc" /\ docs[old] # NoDoc => docs'[old] # NoDoc
               /\ w \notin cut => \A k \in Keys : docs'[k].work = w => docs[k].work = w,
         pc[q] \in {"newdoc", "item"} /\ job[q].node.work \notin cut =>
           nodes'[job[q].new].work = nodes[job[q].new].work
  PROVE  GateStands(q)' /\ DocInHand(q)' /\ Promotes(q)'
<1>0. GateStands(q) /\ DocInHand(q) /\ Promotes(q)
  BY DEF DocInv
<1>1. GateStands(q)'
  <2> DEFINE old == job[q].old
  <2> SUFFICES ASSUME pc[q] = "rename", nodes'[old] # NoFile
               PROVE  /\ job[q].doc => docs'[old] # NoDoc
                      /\ ~job[q].doc /\ EpicAt(old) \in planned' /\ nodes'[old].work \notin cut' =>
                           docs'[old] = NoDoc
    BY DEF GateStands, IsStory, EpicAt
  <2> QED
    BY <1>0 DEF GateStands, IsStory
<1>2. DocInHand(q)'
  <2> DEFINE old == job[q].old
             new == job[q].new
             w == nodes[new].work
  <2> SUFFICES ASSUME pc[q] \in DocMoving PROVE DocInHand(q)'
    BY DEF DocInHand
  <2>1. /\ nodes'[new].work = w /\ nodes'[new].prev = nodes[new].prev
        /\ \A k \in Keys : w \in issued'[k] <=> w \in issued[k]
        /\ docs[new] # NoDoc => docs'[new] # NoDoc
        /\ pc[q] = "doc" /\ docs[old] # NoDoc => docs'[old] # NoDoc
        /\ w \notin cut' => \A k \in Keys : docs'[k].work = w => docs[k].work = w
    OBVIOUS
  <2>2. {k \in Keys : nodes'[new].work \in issued'[k]} = {k \in Keys : w \in issued[k]}
    BY <2>1
  <2> QED
    BY <1>0, <2>1, <2>2 DEF DocInHand, KeysOf
<1>3. Promotes(q)'
  <2> SUFFICES ASSUME pc[q] \in {"newdoc", "item"} PROVE Promotes(q)'
    BY DEF Promotes
  <2>1. /\ job[q].new \in Keys /\ job[q].to \in Sprints /\ job[q].new[1] = job[q].to
        /\ holder["issues"] = q /\ holder[EpicOf[job[q].to]] = q
        /\ job[q].node.work \in issued[job[q].new]
        /\ job[q].node.work \notin cut => nodes[job[q].new].work = job[q].node.work
    BY <1>0 DEF Promotes
  <2>2. "issues" \in Flocks /\ EpicOf[job[q].to] \in Flocks
    BY <2>1 DEF Flocks, Epics
  <2> QED
    BY <2>1, <2>2 DEF Promotes
<1> QED
  BY <1>1, <1>2, <1>3

\* A step that writes no node, document or issued key, and is over with a document or
\* has left it to the cut works.
LEMMA QuietDocs ==
  ASSUME DocInv, StandInv', NoneMovedOn', FindingsAreTold', NoneTaken', DocTypes', NEW p \in Procs,
         OthersWait(p), LocksStay(p), UNCHANGED <<nodes, docs, issued>>,
         cut \subseteq cut', planned' \subseteq planned,
         \/ pc'[p] = pc[p] /\ job'[p] = job[p]
         \/ pc[p] \in DocMoving => nodes[job[p].new].work \in cut',
         GateStands(p)', DocInHand(p)', Promotes(p)'
  PROVE  DocInv'
<1>1. ASSUME NEW q \in Procs, q # p PROVE GateStands(q)' /\ DocInHand(q)' /\ Promotes(q)'
  BY <1>1, DocRely DEF OthersWait, LocksStay
<1>2. NodesAreKeyed'
  <2> SUFFICES ASSUME NEW k \in Keys, nodes[k] # NoFile
               PROVE  /\ nodes[k].name \in Keys /\ nodes[k].work \in issued[nodes[k].name]
                      /\ nodes[k].work \notin cut'
                           /\ (\A q \in Procs : pc'[q] \in {"doc", "rekey"} => job'[q].new # k) =>
                           nodes[k].name = k /\ KeysOf(nodes[k].work) = Past(nodes[k].prev) \cup {k}
    BY DEF NodesAreKeyed, IsStory, KeysOf
  <2> QED
    BY DEF DocInv, NodesAreKeyed, IsStory, OthersWait, DocMoving
<1>3. DocsAreKeyed'
  <2> SUFFICES ASSUME NEW k \in Keys, docs[k] # NoDoc
               PROVE  /\ docs[k].work \in issued[k]
                      /\ docs[k].work \notin cut'
                           /\ (\A q \in Procs : pc'[q] \in DocMoving =>
                                 nodes[job'[q].new].work # docs[k].work) =>
                           docs[k].name = k /\ nodes[k].work = docs[k].work
    BY DEF DocsAreKeyed
  <2> QED
    BY DEF DocInv, DocsAreKeyed, OthersWait
<1> QED
  BY <1>1, <1>2, <1>3 DEF DocInv, PlaceInv

\* What is known of the key of a re-parent's story.
LEMMA MoverDocs ==
  ASSUME DocInv, NEW p \in Procs, pc[p] \in Renamed
  PROVE  LET old == job[p].old
             new == job[p].new
             w == nodes[new].work
         IN  /\ old \in Keys /\ new \in Keys /\ old # new
             /\ nodes[new] # NoFile /\ nodes[old] = NoFile
             /\ w \in Works /\ w \in issued[old] /\ w \in issued[new]
             /\ \A k \in Keys : nodes[k].work = w => k = new
             /\ \A v \in issued[old] \cup issued[new] : v = w
             /\ nodes[new].prev \in Seq(Keys)
<1> DEFINE old == job[p].old
           new == job[p].new
<1>1. StandInv /\ Stands(p) /\ Standing
  BY DEF DocInv, PlaceInv, StandInv
<1>2. old \in Keys /\ new \in Keys /\ nodes[new] # NoFile /\ nodes[old] = NoFile
      /\ nodes[new].work \in issued[old]
  BY <1>1, MoverKeys DEF Stands, IsStory
<1>3. nodes[new].work \in issued[new] /\ nodes[new].prev \in Seq(Keys)
  BY <1>1, <1>2, FilesHaveWork DEF Files, IsStory
<1> QED
  BY <1>1, <1>2, <1>3 DEF StandInv, IInv, KeysAreOnRecord, Standing, IsStory

LEMMA RenameDocs ==
  ASSUME DocInv, StandInv', NoneMovedOn', FindingsAreTold', NoneTaken', NEW p \in Procs, Rename(p)
  PROVE  DocInv'
<1> DEFINE old == job[p].old
           new == job[p].new
           w == nodes[old].work
<1>1. /\ pc[p] = "rename" /\ pc'[p] = IF job[p].doc THEN "doc" ELSE "rekey"
      /\ old \in Keys /\ new \in Keys /\ old # new
      /\ IsStory(old) /\ EpicAt(old) \in planned /\ nodes[new] = NoFile /\ issued[new] = {}
      /\ nodes'[new] = nodes[old] /\ nodes'[old] = NoFile
      /\ issued'[new] = {w}
      /\ \A k \in Keys : k # new => issued'[k] = issued[k]
      /\ \A k \in Keys : k \notin {old, new} => nodes'[k] = nodes[k]
      /\ UNCHANGED <<docs, refs, planned, holder, job, cut>> /\ OthersWait(p)
  BY RenameDoes DEF DocInv, PlaceInv, StandInv
<1>2. /\ w \in Works /\ w \in issued[old] /\ nodes[old].name \in Keys /\ w \in issued[nodes[old].name]
      /\ nodes[old].prev \in Seq(Keys)
      /\ \A k \in Keys : nodes[k].work = w => k = old
  BY <1>1, FilesHaveWork DEF DocInv, PlaceInv, StandInv, Standing, NodesAreKeyed, IsStory, Files
<1>3. \A q \in Procs : pc[q] \in Renamed => job[q].new # old
  BY <1>1 DEF DocInv, PlaceInv, NoneMovedOn, Reparenting, old
<1>4. \A q \in Procs : pc[q] \in Renamed => job[q].new # new /\ job[q].new \in Keys
  BY <1>1, MoverDocs DEF DocInv
<1>5. GateStands(p)
  BY DEF DocInv
<1>6. job[p].doc \in BOOLEAN
  BY DEF DocInv, PlaceInv, StandInv, IInv, Typed, Jobs
<1>7. UNCHANGED <<docs, job, cut>>
  BY <1>1
<1> HIDE DEF old, new, w
<1>8. NodesAreKeyed'
  <2> SUFFICES ASSUME NEW k \in Keys, nodes'[k] # NoFile
               PROVE  /\ nodes'[k].name \in Keys /\ nodes'[k].work \in issued'[nodes'[k].name]
                      /\ nodes'[k].work \notin cut
                           /\ (\A q \in Procs : pc'[q] \in {"doc", "rekey"} => job[q].new # k) =>
                           nodes'[k].name = k
                           /\ {l \in Keys : nodes'[k].work \in issued'[l]} = Past(nodes'[k].prev) \cup {k}
    BY <1>7 DEF NodesAreKeyed, IsStory, KeysOf
  <2>1. CASE k = new
    BY <1>1, <1>2, <2>1 DEF w, new
  <2>2. CASE k # new
    <3>1. k # old /\ nodes'[k] = nodes[k]
      BY <1>1, <2>2
    <3>2. nodes[k].work # w
      BY <1>2, <3>1
    <3>3. {l \in Keys : nodes[k].work \in issued'[l]} = KeysOf(nodes[k].work)
      BY <1>1, <3>2 DEF KeysOf
    <3>4. /\ nodes[k].name \in Keys /\ nodes[k].work \in issued[nodes[k].name]
          /\ nodes[k].work \notin cut
               /\ (\A q \in Procs : pc[q] \in {"doc", "rekey"} => job[q].new # k) =>
               nodes[k].name = k /\ KeysOf(nodes[k].work) = Past(nodes[k].prev) \cup {k}
      BY <3>1 DEF DocInv, NodesAreKeyed, IsStory
    <3>5. nodes[k].work \in issued'[nodes[k].name]
      BY <1>1, <3>4
    <3>6. \A q \in Procs : pc[q] \in {"doc", "rekey"} => pc'[q] \in {"doc", "rekey"}
      BY <1>1 DEF OthersWait
    <3> QED
      BY <3>1, <3>3, <3>4, <3>5, <3>6
  <2> QED
    BY <2>1, <2>2
<1>9. DocsAreKeyed'
  <2> SUFFICES ASSUME NEW k \in Keys, docs[k] # NoDoc
               PROVE  /\ docs[k].work \in issued'[k]
                      /\ docs[k].work \notin cut
                           /\ (\A q \in Procs : pc'[q] \in DocMoving =>
                                 nodes'[job[q].new].work # docs[k].work) =>
                           docs[k].name = k /\ nodes'[k].work = docs[k].work
    BY <1>7 DEF DocsAreKeyed
  <2>1. /\ docs[k].work \in issued[k]
        /\ docs[k].work \notin cut
             /\ (\A q \in Procs : pc[q] \in DocMoving => nodes[job[q].new].work # docs[k].work) =>
             docs[k].name = k /\ nodes[k].work = docs[k].work
    BY DEF DocInv, DocsAreKeyed
  <2>2. docs[k].work \in issued'[k]
    BY <1>1, <2>1
  <2>3. CASE docs[k].work = w
    BY <1>1, <2>2, <2>3 DEF w, new, DocMoving
  <2>4. CASE docs[k].work # w
    <3>1. \A q \in Procs : pc[q] \in DocMoving =>
            pc'[q] \in DocMoving /\ nodes'[job[q].new].work = nodes[job[q].new].work
      BY <1>1, <1>3, <1>4 DEF OthersWait, DocMoving, Renamed
    <3>2. docs[k].work \in Works
      BY DocsHaveWork DEF DocInv
    <3>3. nodes[k].work = docs[k].work => nodes'[k].work = docs[k].work
      BY <1>1, <2>4, <3>2, NothingTyped, StoryKeysAssumption DEF w
    <3> QED
      BY <2>1, <2>2, <3>1, <3>3
  <2> QED
    BY <2>3, <2>4
<1>10. GateStands(p)' /\ DocInHand(p)' /\ Promotes(p)'
  <2>1. GateStands(p)' /\ Promotes(p)'
    BY <1>1 DEF GateStands, Promotes
  <2>2. job[p].doc => docs[old] # NoDoc
    BY <1>1, <1>5 DEF GateStands, old
  <2>3. w \notin cut => {l \in Keys : w \in issued'[l]} = Past(nodes[old].prev) \cup {old, new}
    <3> SUFFICES ASSUME w \notin cut
                 PROVE  {l \in Keys : w \in issued'[l]} = Past(nodes[old].prev) \cup {old, new}
      OBVIOUS
    <3>1. KeysOf(w) = Past(nodes[old].prev) \cup {old}
      BY <1>1, <1>3 DEF DocInv, NodesAreKeyed, w, Renamed
    <3>2. {l \in Keys : w \in issued'[l]} = KeysOf(w) \cup {new}
      BY <1>1 DEF KeysOf
    <3> QED
      BY <3>1, <3>2
  <2>4. w \notin cut => \A k \in Keys : docs[k].work = w => k = old
    <3> SUFFICES ASSUME w \notin cut, NEW k \in Keys, docs[k].work = w PROVE k = old
      OBVIOUS
    <3>1. docs[k] # NoDoc
      BY <1>2, DocsHaveWork DEF DocInv
    <3>2. \A q \in Procs : pc[q] \in DocMoving => nodes[job[q].new].work # w
      BY <1>2, <1>3, <1>4 DEF DocMoving, Renamed
    <3>3. nodes[k].work = w
      BY <3>1, <3>2 DEF DocInv, DocsAreKeyed
    <3> QED
      BY <1>2, <3>3
  <2>5. ~job[p].doc /\ w \notin cut => \A k \in Keys : docs[k].work # w
    <3>1. ~job[p].doc /\ w \notin cut => docs[old] = NoDoc
      BY <1>1, <1>5 DEF GateStands, w, old
    <3> QED
      BY <1>2, <2>4, <3>1, DocsHaveWork, StoryKeysAssumption DEF DocInv
  <2>6. nodes'[job[p].new].work = w /\ nodes'[job[p].new].prev = nodes[old].prev
    BY <1>1 DEF w, new
  <2>7. KeysOf(w)' = {l \in Keys : w' \in issued'[l]}
    BY DEF KeysOf
  <2>8. DocInHand(p)'
    <3>1. CASE job[p].doc
      BY <1>1, <2>2, <2>3, <2>4, <2>6, <3>1 DEF DocInHand, KeysOf, DocMoving, old, new
    <3>2. CASE ~job[p].doc
      BY <1>1, <2>2, <2>3, <2>4, <2>5, <2>6, <3>2 DEF DocInHand, KeysOf, DocMoving, old, new
    <3> QED
      BY <1>6, <3>1, <3>2
  <2> QED
    BY <2>1, <2>8
<1>11. ASSUME NEW q \in Procs, q # p PROVE GateStands(q)' /\ DocInHand(q)' /\ Promotes(q)'
  <2>1. job'[q] = job[q] /\ pc'[q] = pc[q]
    BY <1>1, <1>11 DEF OthersWait
  <2>2. ASSUME pc[q] = "rename", nodes'[job[q].old] # NoFile
        PROVE  nodes[job[q].old] # NoFile /\ nodes'[job[q].old].work = nodes[job[q].old].work
    <3>1. issued[job[q].old] # {} /\ job[q].old \in Keys
      BY <2>2, MoverKeys DEF DocInv, PlaceInv
    <3> QED
      BY <1>1, <2>2, <3>1
  <2>3. ASSUME pc[q] \in DocMoving
        PROVE  /\ nodes'[job[q].new] = nodes[job[q].new]
               /\ \A k \in Keys : nodes[job[q].new].work \in issued'[k] =>
                    nodes[job[q].new].work \in issued[k]
    <3>1. job[q].new \in Keys \ {old, new}
      BY <1>3, <1>4, <2>3 DEF DocMoving, Renamed
    <3> QED
      BY <1>1, <1>2, <3>1
  <2>4. ASSUME pc[q] \in {"newdoc", "item"}, job[q].node.work \notin cut
        PROVE  nodes'[job[q].new].work = nodes[job[q].new].work
    <3>1. job[q].new \in Keys /\ job[q].node.work \in issued[job[q].new]
      BY <2>4 DEF DocInv, Promotes
    <3>2. job[q].new # old
      BY <1>1, <2>4 DEF DocInv, NoneTaken, old
    <3> QED
      BY <1>1, <3>1, <3>2
  <2>5. \A k \in Keys : issued[k] \subseteq issued'[k]
    BY <1>1
  <2> QED
    BY <1>1, <2>1, <2>2, <2>3, <2>4, <2>5, DocRely
<1> QED
  BY <1>1, <1>8, <1>9, <1>10, <1>11 DEF DocInv, PlaceInv, DocTypes

\* The others, when a step writes a node in place.
LEMMA InPlaceRely ==
  ASSUME DocInv, StandInv', NEW p \in Procs, OthersWait(p), UNCHANGED <<docs, cut, planned, holder, issued>>,
         \A k \in Keys : nodes'[k].work = nodes[k].work,
         \A q \in Procs : q # p /\ pc[q] \in DocMoving => nodes'[job[q].new].prev = nodes[job[q].new].prev,
         NEW q \in Procs, q # p
  PROVE  GateStands(q)' /\ DocInHand(q)' /\ Promotes(q)'
<1>1. job'[q] = job[q] /\ pc'[q] = pc[q]
  BY DEF OthersWait
<1>2. \A k \in Keys : nodes'[k] # NoFile => nodes[k] # NoFile
  <2> SUFFICES ASSUME NEW k \in Keys, nodes'[k] # NoFile PROVE nodes[k] # NoFile
    OBVIOUS
  <2>1. nodes'[k].work # NoWork
    BY DEF StandInv, Standing, IsStory
  <2> QED
    BY <2>1, NothingTyped
<1>3. ASSUME pc[q] \in {"rename"} \cup DocMoving PROVE job[q].old \in Keys /\ job[q].new \in Keys
  BY <1>3, MoverKeys DEF DocInv, PlaceInv, DocMoving, Renamed
<1>4. ASSUME pc[q] \in {"newdoc", "item"} PROVE job[q].new \in Keys
  BY <1>4 DEF DocInv, Promotes
<1> QED
  BY <1>1, <1>2, <1>3, <1>4, DocRely

LEMMA RekeyDocs ==
  ASSUME DocInv, StandInv', NoneMovedOn', FindingsAreTold', NoneTaken', NEW p \in Procs, Rekey(p)
  PROVE  DocInv'
<1> DEFINE old == job[p].old
           new == job[p].new
           w == nodes[new].work
<1>1. /\ pc[p] = "rekey" /\ pc'[p] = IF job[p].doc THEN "rekeydoc" ELSE "walk"
      /\ nodes'[new].work = w /\ nodes'[new].name = new
      /\ nodes'[new].prev = Append(nodes[new].prev, old)
      /\ \A k \in Keys : k # new => nodes'[k] = nodes[k]
      /\ job'[p].old = old /\ job'[p].new = new /\ job'[p].doc = job[p].doc
      /\ UNCHANGED <<docs, refs, planned, holder, issued, cut>> /\ OthersWait(p)
  BY RekeyDoes DEF DocInv, PlaceInv, StandInv
<1>2. /\ old \in Keys /\ new \in Keys /\ nodes[new] # NoFile /\ w \in Works /\ w \in issued[new]
      /\ nodes[new].prev \in Seq(Keys)
  BY <1>1, MoverDocs DEF Renamed
<1>3. Past(nodes'[new].prev) = Past(nodes[new].prev) \cup {old}
  BY <1>1, <1>2, PastAppends
<1>4. ASSUME NEW q \in Procs, q # p, pc[q] \in Renamed PROVE job[q].new # new
  BY <1>1, <1>4, OneMover DEF DocInv, PlaceInv, Renamed
<1>5. DocInHand(p)
  BY DEF DocInv
<1>6. \A k \in Keys : nodes'[k].work = nodes[k].work
  BY <1>1
<1>7. UNCHANGED <<docs, issued, cut>> /\ job[p].doc \in BOOLEAN
  BY <1>1 DEF DocInv, PlaceInv, StandInv, IInv, Typed, Jobs
<1> HIDE DEF old, new, w
<1>8. NodesAreKeyed'
  <2> SUFFICES ASSUME NEW k \in Keys, nodes'[k] # NoFile
               PROVE  /\ nodes'[k].name \in Keys /\ nodes'[k].work \in issued[nodes'[k].name]
                      /\ nodes'[k].work \notin cut
                           /\ (\A q \in Procs : pc'[q] \in {"doc", "rekey"} => job'[q].new # k) =>
                           nodes'[k].name = k
                           /\ {l \in Keys : nodes'[k].work \in issued[l]} = Past(nodes'[k].prev) \cup {k}
    BY <1>7 DEF NodesAreKeyed, IsStory, KeysOf
  <2>1. CASE k = new
    <3>1. w \notin cut => {l \in Keys : w \in issued[l]} = Past(nodes[new].prev) \cup {old, new}
      BY <1>1, <1>5 DEF DocInHand, DocMoving, KeysOf, old, new, w
    <3> QED
      BY <1>1, <1>2, <1>3, <2>1, <3>1
  <2>2. CASE k # new
    <3>1. nodes'[k] = nodes[k]
      BY <1>1, <2>2
    <3>2. \A q \in Procs : pc[q] \in {"doc", "rekey"} /\ job[q].new = k =>
            pc'[q] \in {"doc", "rekey"} /\ job'[q].new = k
      BY <1>1, <2>2 DEF OthersWait, new
    <3> QED
      BY <3>1, <3>2 DEF DocInv, NodesAreKeyed, IsStory, KeysOf
  <2> QED
    BY <2>1, <2>2
<1>9. DocsAreKeyed'
  <2> SUFFICES ASSUME NEW k \in Keys, docs[k] # NoDoc
               PROVE  /\ docs[k].work \in issued[k]
                      /\ docs[k].work \notin cut
                           /\ (\A q \in Procs : pc'[q] \in DocMoving =>
                                 nodes'[job'[q].new].work # docs[k].work) =>
                           docs[k].name = k /\ nodes'[k].work = docs[k].work
    BY <1>7 DEF DocsAreKeyed
  <2>1. /\ docs[k].work \in issued[k]
        /\ docs[k].work \notin cut
             /\ (\A q \in Procs : pc[q] \in DocMoving => nodes[job[q].new].work # docs[k].work) =>
             docs[k].name = k /\ nodes[k].work = docs[k].work
    BY DEF DocInv, DocsAreKeyed
  <2>2. \A q \in Procs : q # p /\ pc[q] \in DocMoving =>
          /\ pc'[q] \in DocMoving /\ job'[q].new = job[q].new
          /\ nodes'[job[q].new].work = nodes[job[q].new].work
    <3> SUFFICES ASSUME NEW q \in Procs, q # p, pc[q] \in DocMoving
                 PROVE  nodes'[job[q].new].work = nodes[job[q].new].work
      BY <1>1 DEF OthersWait
    <3>1. job[q].new \in Keys
      BY MoverDocs DEF DocMoving, Renamed
    <3> QED
      BY <1>6, <3>1
  <2>3. CASE docs[k].work # w
    BY <1>6, <2>1, <2>2, <2>3 DEF w, new
  <2>4. CASE docs[k].work = w /\ job[p].doc
    BY <1>1, <2>1, <2>4 DEF new, DocMoving
  <2>5. CASE docs[k].work = w /\ ~job[p].doc
    BY <1>1, <1>5, <2>1, <2>5 DEF DocInHand, DocMoving, w, new
  <2> QED
    BY <1>7, <2>3, <2>4, <2>5
<1>10. GateStands(p)' /\ DocInHand(p)' /\ Promotes(p)'
  <2>1. GateStands(p)' /\ Promotes(p)'
    BY <1>1 DEF GateStands, Promotes
  <2>2. DocInHand(p)'
    <3>1. CASE job[p].doc
      BY <1>1, <1>5, <3>1 DEF DocInHand, DocMoving, old, new, w
    <3>2. CASE ~job[p].doc
      BY <1>1, <3>2 DEF DocInHand, DocMoving
    <3> QED
      BY <1>7, <3>1, <3>2
  <2> QED
    BY <2>1, <2>2
<1>11. ASSUME NEW q \in Procs, q # p PROVE GateStands(q)' /\ DocInHand(q)' /\ Promotes(q)'
  <2>1. \A r \in Procs : r # p /\ pc[r] \in DocMoving => nodes'[job[r].new].prev = nodes[job[r].new].prev
    BY <1>1, <1>4, MoverDocs DEF DocMoving, Renamed
  <2> QED
    BY <1>1, <1>6, <1>11, <2>1, InPlaceRely
<1> QED
  BY <1>1, <1>8, <1>9, <1>10, <1>11 DEF DocInv, PlaceInv, DocTypes

LEMMA WalkSaveDocs ==
  ASSUME DocInv, StandInv', NoneMovedOn', FindingsAreTold', NoneTaken', NEW p \in Procs, WalkSave(p)
  PROVE  DocInv'
<1> DEFINE at == job[p].at
           file == [job[p].node EXCEPT !.deps = Repointed(p)]
<1>1. /\ pc[p] = "walksave" /\ pc'[p] = "walk" /\ at \in Keys
      /\ nodes'[at] = IF job[p].bucket = Bucket(at) THEN file ELSE nodes[at]
      /\ file.work = job[p].node.work /\ file.name = job[p].node.name
      /\ file.prev = job[p].node.prev
      /\ \A k \in Keys : k # at => nodes'[k] = nodes[k]
      /\ UNCHANGED <<docs, refs, planned, holder, issued, cut>> /\ OthersWait(p)
  BY WalkSaveDoes DEF DocInv, PlaceInv, StandInv
<1> HIDE DEF file
<1>2. /\ nodes[at].deps # {} /\ nodes[at].work = job[p].node.work
      /\ nodes[at].name = job[p].node.name /\ nodes[at].prev = job[p].node.prev
  BY <1>1 DEF DocInv, PlaceInv, StandInv, Stands
<1> HIDE DEF at
<1>3. ASSUME NEW k \in Keys
      PROVE  /\ nodes'[k].work = nodes[k].work /\ nodes'[k].name = nodes[k].name
             /\ nodes'[k].prev = nodes[k].prev
             /\ nodes'[k] # NoFile => nodes[k] # NoFile
  BY <1>1, <1>2, NothingTyped
<1>4. ASSUME NEW q \in Procs, pc[q] \in DocMoving
      PROVE  /\ pc'[q] = pc[q] /\ job'[q] = job[q] /\ job[q].new \in Keys
  BY <1>1, <1>4, MoverDocs DEF OthersWait, DocMoving, Renamed
<1>5. UNCHANGED <<docs, issued, cut>>
  BY <1>1
<1>6. NodesAreKeyed'
  <2> SUFFICES ASSUME NEW k \in Keys, nodes'[k] # NoFile
               PROVE  /\ nodes'[k].name \in Keys /\ nodes'[k].work \in issued[nodes'[k].name]
                      /\ nodes'[k].work \notin cut
                           /\ (\A q \in Procs : pc'[q] \in {"doc", "rekey"} => job'[q].new # k) =>
                           nodes'[k].name = k
                           /\ {l \in Keys : nodes'[k].work \in issued[l]} = Past(nodes'[k].prev) \cup {k}
    BY <1>5 DEF NodesAreKeyed, IsStory, KeysOf
  <2> QED
    BY <1>3, <1>4 DEF DocInv, NodesAreKeyed, IsStory, KeysOf, DocMoving
<1>7. DocsAreKeyed'
  <2> SUFFICES ASSUME NEW k \in Keys, docs[k] # NoDoc
               PROVE  /\ docs[k].work \in issued[k]
                      /\ docs[k].work \notin cut
                           /\ (\A q \in Procs : pc'[q] \in DocMoving =>
                                 nodes'[job'[q].new].work # docs[k].work) =>
                           docs[k].name = k /\ nodes'[k].work = docs[k].work
    BY <1>5 DEF DocsAreKeyed
  <2> QED
    BY <1>3, <1>4 DEF DocInv, DocsAreKeyed
<1>8. GateStands(p)' /\ DocInHand(p)' /\ Promotes(p)'
  BY <1>1 DEF GateStands, DocInHand, Promotes, DocMoving
<1>9. ASSUME NEW q \in Procs, q # p PROVE GateStands(q)' /\ DocInHand(q)' /\ Promotes(q)'
  BY <1>1, <1>3, <1>4, <1>9, InPlaceRely
<1> QED
  BY <1>1, <1>6, <1>7, <1>8, <1>9 DEF DocInv, PlaceInv, DocTypes

LEMMA NewNodeDocs ==
  ASSUME DocInv, StandInv', NoneMovedOn', FindingsAreTold', NoneTaken', NEW p \in Procs, NewNode(p)
  PROVE  DocInv'
<1> DEFINE new == job[p].new
           w == job[p].node.work
<1>1. /\ pc[p] = "newnode" /\ pc'[p] = "newdoc"
      /\ new \in Keys /\ w \in Works /\ issued[new] = {} /\ nodes[new] = NoFile
      /\ new[1] = job[p].to /\ job[p].to \in Sprints /\ holder[EpicOf[job[p].to]] = p
      /\ nodes'[new] = Born(w, new) /\ issued'[new] = {w}
      /\ \A k \in Keys : k # new => nodes'[k] = nodes[k] /\ issued'[k] = issued[k]
      /\ UNCHANGED <<docs, refs, planned, holder, job, cut>> /\ OthersWait(p)
  BY NewNodeDoes DEF DocInv, PlaceInv, StandInv
<1>2. nodes'[new].work = w /\ nodes'[new].name = new /\ nodes'[new].prev = <<>>
  BY <1>1, BornFile
<1>3. holder["issues"] = p /\ \A k \in Keys : nodes[k].work # w
  BY <1>1 DEF DocInv, PlaceInv, StandInv, Stands
<1>4. \A k \in Keys : w \notin issued[k]
  BY <1>3 DEF DocInv, PlaceInv, StandInv, Standing
<1>5. UNCHANGED <<docs, job, cut>>
  BY <1>1
<1>6. ASSUME NEW q \in Procs, pc[q] \in Renamed
      PROVE  /\ pc'[q] = pc[q] /\ job[q].new \in Keys /\ job[q].new # new
             /\ nodes[job[q].new].work # w
  <2>1. q # p
    BY <1>1, <1>6 DEF Renamed
  <2> QED
    BY <1>1, <1>3, <1>6, <2>1, MoverDocs DEF OthersWait
<1> HIDE DEF new, w
<1>7. NodesAreKeyed'
  <2> SUFFICES ASSUME NEW k \in Keys, nodes'[k] # NoFile
               PROVE  /\ nodes'[k].name \in Keys /\ nodes'[k].work \in issued'[nodes'[k].name]
                      /\ nodes'[k].work \notin cut
                           /\ (\A q \in Procs : pc'[q] \in {"doc", "rekey"} => job[q].new # k) =>
                           nodes'[k].name = k
                           /\ {l \in Keys : nodes'[k].work \in issued'[l]} = Past(nodes'[k].prev) \cup {k}
    BY <1>5 DEF NodesAreKeyed, IsStory, KeysOf
  <2>1. CASE k = new
    <3>1. {l \in Keys : w \in issued'[l]} = {new}
      BY <1>1, <1>4
    <3>2. Past(<<>>) = {}
      BY DEF Past
    <3> QED
      BY <1>1, <1>2, <2>1, <3>1, <3>2
  <2>2. CASE k # new
    <3>1. nodes'[k] = nodes[k] /\ nodes[k].work # w
      BY <1>1, <1>3, <2>2
    <3>2. {l \in Keys : nodes[k].work \in issued'[l]} = KeysOf(nodes[k].work)
      BY <1>1, <3>1 DEF KeysOf
    <3>3. \A q \in Procs : pc[q] \in {"doc", "rekey"} => pc'[q] \in {"doc", "rekey"}
      BY <1>6 DEF Renamed
    <3>4. /\ nodes[k].name \in Keys /\ nodes[k].work \in issued[nodes[k].name]
          /\ nodes[k].work \notin cut
               /\ (\A q \in Procs : pc[q] \in {"doc", "rekey"} => job[q].new # k) =>
               nodes[k].name = k /\ KeysOf(nodes[k].work) = Past(nodes[k].prev) \cup {k}
      BY <3>1 DEF DocInv, NodesAreKeyed, IsStory
    <3>5. nodes[k].work \in issued'[nodes[k].name]
      BY <1>1, <3>4
    <3> QED
      BY <3>1, <3>2, <3>3, <3>4, <3>5
  <2> QED
    BY <2>1, <2>2
<1>8. DocsAreKeyed'
  <2> SUFFICES ASSUME NEW k \in Keys, docs[k] # NoDoc
               PROVE  /\ docs[k].work \in issued'[k]
                      /\ docs[k].work \notin cut
                           /\ (\A q \in Procs : pc'[q] \in DocMoving =>
                                 nodes'[job[q].new].work # docs[k].work) =>
                           docs[k].name = k /\ nodes'[k].work = docs[k].work
    BY <1>5 DEF DocsAreKeyed
  <2>1. /\ docs[k].work \in issued[k]
        /\ docs[k].work \notin cut
             /\ (\A q \in Procs : pc[q] \in DocMoving => nodes[job[q].new].work # docs[k].work) =>
             docs[k].name = k /\ nodes[k].work = docs[k].work
    BY DEF DocInv, DocsAreKeyed
  <2>2. k # new
    BY <1>1, <2>1
  <2>3. \A q \in Procs : pc[q] \in DocMoving =>
          pc'[q] \in DocMoving /\ nodes'[job[q].new].work = nodes[job[q].new].work
    BY <1>1, <1>6 DEF DocMoving, Renamed
  <2> QED
    BY <1>1, <2>1, <2>2, <2>3
<1>9. GateStands(p)' /\ DocInHand(p)' /\ Promotes(p)'
  BY <1>1, <1>2, <1>3 DEF GateStands, DocInHand, DocMoving, Promotes, new, w
<1>10. ASSUME NEW q \in Procs, q # p PROVE GateStands(q)' /\ DocInHand(q)' /\ Promotes(q)'
  <2>1. job'[q] = job[q] /\ pc'[q] = pc[q] /\ \A k \in Keys : issued[k] \subseteq issued'[k]
    BY <1>1, <1>10 DEF OthersWait
  <2>2. pc[q] = "rename" => issued[job[q].old] # {} /\ job[q].old \in Keys
    BY MoverKeys DEF DocInv, PlaceInv
  <2>3. pc[q] = "rename" => nodes'[job[q].old] = nodes[job[q].old]
    BY <1>1, <2>2
  <2>4. pc[q] \in DocMoving => /\ nodes'[job[q].new] = nodes[job[q].new]
                               /\ \A k \in Keys : nodes[job[q].new].work \in issued'[k] =>
                                    nodes[job[q].new].work \in issued[k]
    BY <1>1, <1>6 DEF DocMoving, Renamed
  <2>5. pc[q] \notin {"newdoc", "item"}
    BY <1>3, <1>10 DEF DocInv, Promotes
  <2> QED
    BY <1>1, <2>1, <2>3, <2>4, <2>5, DocRely
<1> QED
  BY <1>1, <1>7, <1>8, <1>9, <1>10 DEF DocInv, PlaceInv, DocTypes

\* The steps that write a document leave the nodes as they are.
LEMMA DocsWritten ==
  ASSUME DocInv, StandInv', NoneMovedOn', FindingsAreTold', NoneTaken', DocTypes', NEW p \in Procs,
         OthersWait(p), UNCHANGED <<nodes, refs, planned, holder, job, issued, cut>>,
         pc'[p] \in {"doc", "rekey"} <=> pc[p] \in {"doc", "rekey"},
         DocsAreKeyed', GateStands(p)', DocInHand(p)', Promotes(p)',
         \A q \in Procs : q # p =>
           /\ pc[q] = "rename" /\ IsStory(job[q].old) =>
                LET old == job[q].old
                IN  /\ docs[old] # NoDoc => docs'[old] # NoDoc
                    /\ docs'[old] # NoDoc => \/ docs[old] # NoDoc \/ nodes[old].work \in cut
                                             \/ EpicAt(old) \notin planned
           /\ pc[q] \in DocMoving =>
                LET old == job[q].old
                    new == job[q].new
                    w == nodes[new].work
                IN  /\ docs[new] # NoDoc => docs'[new] # NoDoc
                    /\ pc[q] = "doc" /\ docs[old] # NoDoc => docs'[old] # NoDoc
                    /\ w \notin cut => \A k \in Keys : docs'[k].work = w => docs[k].work = w
  PROVE  DocInv'
<1>1. NodesAreKeyed'
  <2> SUFFICES ASSUME NEW k \in Keys, nodes[k] # NoFile
               PROVE  /\ nodes[k].name \in Keys /\ nodes[k].work \in issued[nodes[k].name]
                      /\ nodes[k].work \notin cut
                           /\ (\A q \in Procs : pc'[q] \in {"doc", "rekey"} => job[q].new # k) =>
                           nodes[k].name = k /\ KeysOf(nodes[k].work) = Past(nodes[k].prev) \cup {k}
    BY DEF NodesAreKeyed, IsStory, KeysOf
  <2>1. \A q \in Procs : pc[q] \in {"doc", "rekey"} => pc'[q] \in {"doc", "rekey"}
    BY DEF OthersWait
  <2> QED
    BY <2>1 DEF DocInv, NodesAreKeyed, IsStory
<1>2. ASSUME NEW q \in Procs, q # p PROVE GateStands(q)' /\ DocInHand(q)' /\ Promotes(q)'
  <2>1. job'[q] = job[q] /\ pc'[q] = pc[q]
    BY <1>2 DEF OthersWait
  <2> QED
    BY <1>2, <2>1, DocRely DEF IsStory
<1> QED
  BY <1>1, <1>2 DEF DocInv, PlaceInv

LEMMA MoveDocDocs ==
  ASSUME DocInv, StandInv', NoneMovedOn', FindingsAreTold', NoneTaken', NEW p \in Procs, MoveDoc(p)
  PROVE  DocInv'
<1> DEFINE old == job[p].old
           new == job[p].new
           w == nodes[new].work
<1>1. /\ pc[p] = "doc" /\ pc'[p] = "rekey"
      /\ docs'[new] = docs[old] /\ docs'[old] = NoDoc
      /\ \A k \in Keys : k \notin {old, new} => docs'[k] = docs[k]
      /\ UNCHANGED <<nodes, refs, planned, holder, job, issued, cut>> /\ OthersWait(p)
      /\ DocTypes'
  BY MoveDocDoes
<1>2. /\ old \in Keys /\ new \in Keys /\ old # new
      /\ nodes[new] # NoFile /\ nodes[old] = NoFile
      /\ w \in Works /\ w \in issued[new]
      /\ \A k \in Keys : nodes[k].work = w => k = new
      /\ \A v \in issued[old] \cup issued[new] : v = w
  BY <1>1, MoverDocs DEF Renamed
<1>3. DocInHand(p) /\ docs[old] # NoDoc /\ job[p].doc
  BY <1>1 DEF DocInv, DocInHand, DocMoving
<1>4. docs[old].work = w
  BY <1>2, <1>3 DEF DocInv, DocsAreKeyed
<1>5. \A q \in Procs : q # p /\ pc[q] \in Renamed => job[q].new # new /\ job[q].old # old
  BY <1>1, OneMover DEF DocInv, PlaceInv, Renamed
<1>6. \A q \in Procs : pc[q] \in Reparenting \ {"raise"} => job[q].old # new
  BY <1>1 DEF DocInv, PlaceInv, NoneMovedOn, Renamed
<1>7. UNCHANGED <<nodes, job, issued, cut>>
  BY <1>1
<1> HIDE DEF old, new, w
<1>8. DocsAreKeyed'
  <2> SUFFICES ASSUME NEW k \in Keys, docs'[k] # NoDoc
               PROVE  /\ docs'[k].work \in issued[k]
                      /\ docs'[k].work \notin cut
                           /\ (\A q \in Procs : pc'[q] \in DocMoving =>
                                 nodes[job[q].new].work # docs'[k].work) =>
                           docs'[k].name = k /\ nodes[k].work = docs'[k].work
    BY <1>7 DEF DocsAreKeyed
  <2>1. CASE k = new
    BY <1>1, <1>2, <1>4, <2>1 DEF DocMoving, w, new
  <2>2. CASE k # new
    <3>1. docs'[k] = docs[k] /\ k # old
      BY <1>1, <2>2
    <3>2. \A q \in Procs : pc[q] \in DocMoving => pc'[q] \in DocMoving
      BY <1>1 DEF OthersWait, DocMoving
    <3> QED
      BY <3>1, <3>2 DEF DocInv, DocsAreKeyed
  <2> QED
    BY <2>1, <2>2
<1>9. GateStands(p)' /\ DocInHand(p)' /\ Promotes(p)'
  <2>1. GateStands(p)' /\ Promotes(p)'
    BY <1>1 DEF GateStands, Promotes
  <2>2. w \notin cut => \A k \in Keys : docs'[k].work = w => k = new
    <3>1. w \notin cut => \A k \in Keys : docs[k].work = w => k = old
      BY <1>1, <1>3 DEF DocInHand, DocMoving, w, old, new
    <3> QED
      BY <1>1, <1>2, <3>1, StoryKeysAssumption DEF NoDoc
  <2>3. w \notin cut => {k \in Keys : w \in issued[k]} = Past(nodes[new].prev) \cup {old, new}
    BY <1>1, <1>3 DEF DocInHand, DocMoving, KeysOf, w, old, new
  <2>4. DocInHand(p)'
    BY <1>1, <1>3, <2>2, <2>3 DEF DocInHand, DocMoving, KeysOf, w, old, new
  <2> QED
    BY <2>1, <2>4
<1>10. ASSUME NEW q \in Procs, q # p, pc[q] = "rename", nodes[job[q].old] # NoFile
       PROVE  docs'[job[q].old] = docs[job[q].old]
  <2>1. job[q].old \in Keys \ {old, new}
    BY <1>2, <1>6, <1>10, MoverKeys DEF DocInv, PlaceInv, Reparenting
  <2> QED
    BY <1>1, <2>1
<1>11. ASSUME NEW q \in Procs, q # p, pc[q] \in DocMoving, NEW x, x = nodes[job[q].new].work
       PROVE  /\ docs'[job[q].new] = docs[job[q].new]
              /\ docs'[job[q].old] = docs[job[q].old]
              /\ \A k \in Keys : docs'[k].work = x => docs[k].work = x
  <2>1. job[q].new \in Keys /\ job[q].old \in Keys /\ nodes[job[q].new] # NoFile /\ x \in Works
    BY <1>11, MoverDocs DEF DocMoving, Renamed
  <2>2. job[q].new # new /\ job[q].new # old /\ job[q].old # new /\ job[q].old # old
    BY <1>2, <1>5, <1>6, <1>11, <2>1 DEF DocMoving, Renamed, Reparenting
  <2>3. x # w
    BY <1>2, <1>11, <2>1, <2>2
  <2> QED
    BY <1>1, <1>4, <2>1, <2>2, <2>3, StoryKeysAssumption DEF NoDoc
<1>12. \A q \in Procs : q # p /\ pc[q] \in DocMoving =>
         /\ docs'[job[q].new] = docs[job[q].new] /\ docs'[job[q].old] = docs[job[q].old]
         /\ \A k \in Keys : docs'[k].work = nodes[job[q].new].work => docs[k].work = nodes[job[q].new].work
  BY <1>11
<1> QED
  BY <1>1, <1>8, <1>9, <1>10, <1>12, DocsWritten DEF IsStory

LEMMA RekeyDocDocs ==
  ASSUME DocInv, StandInv', NoneMovedOn', FindingsAreTold', NoneTaken', NEW p \in Procs, RekeyDoc(p)
  PROVE  DocInv'
<1> DEFINE new == job[p].new
           w == nodes[new].work
<1>1. /\ pc[p] = "rekeydoc" /\ pc'[p] = "walk" /\ new \in Keys
      /\ docs'[new].work = docs[new].work /\ docs'[new].name = new /\ docs'[new] # NoDoc
      /\ \A k \in Keys : k # new => docs'[k] = docs[k]
      /\ UNCHANGED <<nodes, refs, planned, holder, job, issued, cut>> /\ OthersWait(p)
      /\ DocTypes'
  BY RekeyDocDoes
<1>2. DocInHand(p) /\ docs[new] # NoDoc
  BY <1>1 DEF DocInv, DocInHand, DocMoving
<1>3. UNCHANGED <<nodes, job, issued, cut>> /\ \A k \in Keys : docs'[k].work = docs[k].work
  BY <1>1
<1>4. docs[new].work = w
  <2>1. \A v \in issued[new] : v = w
    BY <1>1, MoverDocs DEF Renamed
  <2> QED
    BY <1>1, <1>2, <2>1 DEF DocInv, DocsAreKeyed
<1> HIDE DEF new, w
<1>5. \A k \in Keys : docs'[k] # NoDoc <=> docs[k] # NoDoc
  BY <1>1, <1>2
<1>6. DocsAreKeyed'
  <2> SUFFICES ASSUME NEW k \in Keys, docs[k] # NoDoc
               PROVE  /\ docs[k].work \in issued[k]
                      /\ docs[k].work \notin cut
                           /\ (\A q \in Procs : pc'[q] \in DocMoving =>
                                 nodes[job[q].new].work # docs[k].work) =>
                           docs'[k].name = k /\ nodes[k].work = docs[k].work
    BY <1>3, <1>5 DEF DocsAreKeyed
  <2>1. docs[k].work \in issued[k]
    BY DEF DocInv, DocsAreKeyed
  <2>2. CASE docs[k].work = w
    <3>1. docs[k].work \notin cut => k = new
      BY <1>1, <1>2, <2>2 DEF DocInHand, DocMoving, w, new
    <3> QED
      BY <1>1, <1>4, <2>1, <3>1 DEF w
  <2>3. CASE docs[k].work # w
    <3>1. k # new
      BY <1>4, <2>3
    <3>2. \A q \in Procs : pc[q] \in DocMoving /\ nodes[job[q].new].work = docs[k].work =>
            pc'[q] \in DocMoving
      BY <1>1, <2>3 DEF OthersWait, w, new
    <3>3. docs'[k] = docs[k]
      BY <1>1, <3>1
    <3> QED
      BY <3>2, <3>3 DEF DocInv, DocsAreKeyed
  <2> QED
    BY <2>2, <2>3
<1>7. GateStands(p)' /\ DocInHand(p)' /\ Promotes(p)'
  BY <1>1 DEF GateStands, DocInHand, DocMoving, Promotes
<1>8. \A q \in Procs : pc[q] \in {"rename"} \cup DocMoving => job[q].old \in Keys /\ job[q].new \in Keys
  BY MoverKeys DEF DocInv, PlaceInv, DocMoving, Renamed
<1> QED
  BY <1>1, <1>3, <1>5, <1>6, <1>7, <1>8, DocsWritten

LEMMA NewDocDocs ==
  ASSUME DocInv, StandInv', NoneMovedOn', FindingsAreTold', NoneTaken', NEW p \in Procs,
         NewDoc(p), Goto(p, "item"), UNCHANGED <<holder, job>>
  PROVE  DocInv'
<1> DEFINE new == job[p].new
           w == job[p].node.work
<1>1. /\ pc[p] = "newdoc" /\ pc'[p] = "item" /\ new \in Keys /\ w \in issued[new]
      /\ docs[new] = NoDoc => docs'[new].work = w /\ docs'[new].name = new
      /\ docs'[new] # NoDoc
      /\ docs[new] # NoDoc => docs'[new] = docs[new]
      /\ \A k \in Keys : k # new => docs'[k] = docs[k]
      /\ UNCHANGED <<nodes, refs, planned, holder, job, issued, cut>> /\ OthersWait(p)
      /\ DocTypes'
  BY NewDocDoes
<1>2. /\ Promotes(p) /\ w \in Works
      /\ w \notin cut => nodes[new].work = w
      /\ holder[EpicOf[job[p].to]] = p /\ new[1] = job[p].to
  BY <1>1 DEF DocInv, Promotes, PlaceInv, StandInv, Standing
<1>3. UNCHANGED <<nodes, job, issued, cut>>
  BY <1>1
<1> HIDE DEF new, w
<1>4. \A k \in Keys : docs[k] # NoDoc => docs'[k] = docs[k]
  BY <1>1
<1>5. \A k \in Keys : docs'[k] # docs[k] => k = new /\ docs'[k].work = w /\ docs'[k].name = k
  BY <1>1
<1>6. DocsAreKeyed'
  <2> SUFFICES ASSUME NEW k \in Keys, docs'[k] # NoDoc
               PROVE  /\ docs'[k].work \in issued[k]
                      /\ docs'[k].work \notin cut
                           /\ (\A q \in Procs : pc'[q] \in DocMoving =>
                                 nodes[job[q].new].work # docs'[k].work) =>
                           docs'[k].name = k /\ nodes[k].work = docs'[k].work
    BY <1>3 DEF DocsAreKeyed
  <2>1. CASE docs'[k] # docs[k]
    BY <1>1, <1>2, <1>5, <2>1
  <2>2. CASE docs'[k] = docs[k]
    <3>1. \A q \in Procs : pc[q] \in DocMoving => pc'[q] \in DocMoving
      BY <1>1 DEF OthersWait, DocMoving
    <3> QED
      BY <2>2, <3>1 DEF DocInv, DocsAreKeyed
  <2> QED
    BY <2>1, <2>2
<1>7. GateStands(p)' /\ DocInHand(p)' /\ Promotes(p)'
  BY <1>1, <1>2 DEF GateStands, DocInHand, DocMoving, Promotes
<1>8. ASSUME NEW q \in Procs, pc[q] = "rename", IsStory(job[q].old), docs'[job[q].old] # NoDoc
      PROVE  \/ docs[job[q].old] # NoDoc \/ nodes[job[q].old].work \in cut
             \/ EpicAt(job[q].old) \notin planned
  <2> SUFFICES ASSUME docs[job[q].old] = NoDoc, EpicAt(job[q].old) \in planned
               PROVE  nodes[job[q].old].work \in cut
    OBVIOUS
  <2>1. job[q].old \in Keys
    BY <1>8, MoverKeys DEF DocInv, PlaceInv
  <2>2. job[q].old = new
    BY <1>5, <1>8, <2>1
  <2>3. w \in cut
    BY <1>1, <1>8, <2>2 DEF DocInv, NoneTaken, w, new
  <2>4. nodes[new].work \in issued[new]
    BY <1>1, <1>8, <2>2, FilesHaveWork DEF DocInv, PlaceInv
  <2> QED
    BY <1>1, <2>2, <2>3, <2>4 DEF DocInv, PlaceInv, StandInv, IInv, KeysAreOnRecord
<1>9. ASSUME NEW q \in Procs, pc[q] \in DocMoving, NEW x, x = nodes[job[q].new].work, x \notin cut,
             NEW k \in Keys, docs'[k].work = x
      PROVE  docs[k].work = x
  <2> SUFFICES ASSUME docs'[k] # docs[k] PROVE FALSE
    BY <1>9
  <2>1. k = new /\ x = w
    BY <1>5, <1>9
  <2>2. nodes[new].work = w
    BY <1>2, <1>9, <2>1
  <2>3. job[q].new = new
    <3>1. \A l \in Keys : nodes[l].work = nodes[job[q].new].work => l = job[q].new
      BY <1>9, MoverDocs DEF DocMoving, Renamed
    <3> QED
      BY <1>1, <1>9, <2>1, <2>2, <3>1
  <2>4. holder[EpicOf[job[q].to]] = q /\ job[q].new[1] = job[q].to
    BY <1>9, MoverKeys DEF DocInv, PlaceInv, DocMoving, Renamed
  <2> QED
    BY <1>1, <1>2, <1>9, <2>3, <2>4 DEF DocMoving
<1>10. \A q \in Procs : pc[q] \in {"rename"} \cup DocMoving => job[q].old \in Keys /\ job[q].new \in Keys
  BY MoverKeys DEF DocInv, PlaceInv, DocMoving, Renamed
<1>11. \A q \in Procs : pc[q] \in DocMoving /\ nodes[job[q].new].work \notin cut =>
         \A k \in Keys : docs'[k].work = nodes[job[q].new].work => docs[k].work = nodes[job[q].new].work
  BY <1>9
<1> QED
  BY <1>1, <1>4, <1>6, <1>7, <1>8, <1>10, <1>11, DocsWritten

\* What the steps do to what is being promoted, and to the items.
LEMMA PromotionTurns ==
  ASSUME DocInv, NEW p \in Procs,
         Reparent(p) \/ Promote(p) \/ Activate(p) \/ SprintLoad(p) \/ SprintSave(p) \/ Crash(p)
  PROVE  /\ OthersWait(p) /\ cut \subseteq cut' /\ planned' \subseteq planned
         /\ pc'[p] \in {"newdoc", "item"} =>
              \/ PromoteTake(p) \/ NewNode(p)
              \/ pc[p] \in {"newdoc", "item"} /\ job'[p] = job[p]
         /\ pc[p] \in {"newdoc", "item"} =>
              \/ pc'[p] \in {"newdoc", "item"} /\ job'[p] = job[p]
              \/ job[p].node.work \in cut' \/ refs'[job[p].node.work] # NoKey
         /\ \A w \in Works : refs'[w] = NoKey => refs[w] = NoKey
         /\ \/ NewNode(p)
            \/ \A k \in Keys : nodes'[k].work \in Works =>
                 \E l \in Keys : nodes[l].work = nodes'[k].work
<1>0. IInv /\ StandInv /\ DocTypes /\ NoKey \notin Keys
  BY StoryKeysAssumption DEF DocInv, PlaceInv, StandInv
<1>1. CASE Ask(p) \/ Raise(p) \/ Gate(p)
  <2>1. pc[p] \in {"idle", "raise", "gate"}
    BY <1>1 DEF Ask, Raise, Gate
  <2> QED
    BY <1>0, <1>1, <2>1, AskDoes, RaiseDoes, GateDoes
<1>2. CASE Rename(p)
  <2>1. \A k \in Keys : \E l \in Keys : nodes'[k].work = NoWork \/ nodes[l].work = nodes'[k].work
    BY <1>0, <1>2, RenameDoes, NothingTyped
  <2> QED
    BY <1>0, <1>2, <2>1, RenameDoes, StoryKeysAssumption
<1>3. CASE Rekey(p)
  <2>1. \A k \in Keys : nodes'[k].work = nodes[k].work
    BY <1>0, <1>3, RekeyDoes
  <2> QED
    BY <1>0, <1>3, <2>1, RekeyDoes
<1>4. CASE MoveDoc(p) \/ RekeyDoc(p)
  BY <1>4, MoveDocDoes, RekeyDocDoes
<1>5. CASE WalkLoad(p)
  BY <1>0, <1>5, WalkLoadDoes
<1>6. CASE WalkSave(p)
  <2> DEFINE at == job[p].at
             file == [job[p].node EXCEPT !.deps = Repointed(p)]
  <2>1. /\ pc[p] = "walksave" /\ pc'[p] = "walk" /\ at \in Keys
        /\ nodes'[at] = IF job[p].bucket = Bucket(at) THEN file ELSE nodes[at]
        /\ file.work = job[p].node.work
        /\ \A k \in Keys : k # at => nodes'[k] = nodes[k]
        /\ UNCHANGED <<docs, refs, planned, holder, issued, cut>> /\ OthersWait(p)
    BY <1>0, <1>6, WalkSaveDoes
  <2> HIDE DEF file
  <2>2. nodes[at].work = job[p].node.work
    BY <1>0, <2>1 DEF StandInv, Stands
  <2>3. \A k \in Keys : nodes'[k].work = nodes[k].work
    BY <2>1, <2>2
  <2> QED
    BY <2>1, <2>3
<1>7. CASE Repoint(p)
  <2>1. /\ pc[p] = "walk" /\ refs' = RepointRefs(p) /\ Leave(p)
        /\ UNCHANGED <<nodes, planned, cut>>
    BY <1>7 DEF Repoint
  <2>2. job[p].new \in Keys
    BY <1>0, <2>1, MoverKeys DEF Renamed
  <2>3. \A w \in Works : refs'[w] = NoKey => refs[w] = NoKey
    BY <1>0, <2>1, <2>2 DEF RepointRefs
  <2> QED
    BY <1>0, <2>1, <2>3, LeaveDoes
<1>8. CASE GateRefuses(p) \/ RenameFails(p) \/ SprintSave(p)
  <2>1. /\ pc[p] \notin {"newdoc", "item"} /\ Leave(p)
        /\ UNCHANGED <<nodes, refs, planned, cut>>
    BY <1>8 DEF GateRefuses, RenameFails, SprintSave, tree
  <2> QED
    BY <1>0, <2>1, LeaveDoes
<1>9. CASE NewDoc(p)
  <2>1. CASE Goto(p, "item") /\ UNCHANGED <<holder, job>>
    BY <1>9, <2>1, NewDocDoes
  <2>2. CASE Leave(p) /\ ~IsStory(job[p].new)
    <3>1. pc[p] = "newdoc" /\ UNCHANGED <<nodes, refs, planned, cut>>
      BY <1>9 DEF NewDoc
    <3>2. job[p].node.work \in cut
      <4>1. job[p].new \in Keys /\ job[p].node.work \in Works
        BY <3>1 DEF DocInv, Promotes, PlaceInv, StandInv, Standing
      <4>2. job[p].node.work \notin cut => nodes[job[p].new].work = job[p].node.work
        BY <3>1 DEF DocInv, Promotes
      <4> QED
        BY <1>0, <2>2, <4>1, <4>2, FilesHaveWork, StoryKeysAssumption
    <3> QED
      BY <1>0, <2>2, <3>1, <3>2, LeaveDoes
  <2> QED
    BY <1>9, <2>1, <2>2 DEF NewDoc
<1>10. CASE SaveItem(p)
  <2> DEFINE g == job[p].node.work
  <2>1. /\ pc[p] = "item" /\ refs' = [refs EXCEPT ![g] = job[p].new] /\ Leave(p)
        /\ UNCHANGED <<nodes, planned, cut>>
    BY <1>10 DEF SaveItem
  <2>2. job[p].new \in Keys /\ g \in Works
    BY <2>1 DEF DocInv, Promotes, PlaceInv, StandInv, Standing
  <2>3. refs'[g] # NoKey /\ \A w \in Works : refs'[w] = NoKey => refs[w] = NoKey
    BY <1>0, <2>1, <2>2 DEF DocTypes
  <2> QED
    BY <1>0, <2>1, <2>3, LeaveDoes
<1>11. CASE PromoteTake(p)
  <2>1. pc[p] = "idle"
    BY <1>11 DEF PromoteTake
  <2> QED
    BY <1>0, <1>11, <2>1, PromoteTakeDoes
<1>12. CASE Mint(p)
  BY <1>0, <1>12, MintDoes
<1>13. CASE NewNode(p)
  BY <1>0, <1>13, NewNodeDoes
<1>14. CASE Activate(p)
  BY <1>0, <1>14, ActivateDoes DEF OthersWait
<1>15. CASE SprintLoad(p)
  <2>1. pc[p] = "idle"
    BY <1>15 DEF SprintLoad
  <2> QED
    BY <1>0, <1>15, <2>1, SprintLoadDoes
<1>16. CASE Crash(p)
  <2>1. cut' = cut \cup HalfDone(p) /\ Leave(p) /\ UNCHANGED <<nodes, refs, planned>>
    BY <1>16 DEF Crash, tree
  <2>2. pc[p] \in {"newdoc", "item"} => HalfDone(p) = {job[p].node.work}
    BY DEF HalfDone
  <2> QED
    BY <1>0, <2>1, <2>2, LeaveDoes
<1> QED
  BY <1>1, <1>2, <1>3, <1>4, <1>5, <1>6, <1>7, <1>8, <1>9, <1>10, <1>11, <1>12, <1>13, <1>14,
     <1>15, <1>16 DEF Reparent, Promote

LEMMA NextTold ==
  ASSUME DocInv, NEW p \in Procs,
         Reparent(p) \/ Promote(p) \/ Activate(p) \/ SprintLoad(p) \/ SprintSave(p) \/ Crash(p)
  PROVE  FindingsAreTold'
<1> SUFFICES ASSUME NEW g \in Findings, g \notin cut', refs'[g] = NoKey,
                    NEW k \in Keys, nodes'[k].work = g
             PROVE  \E q \in Procs : pc'[q] \in {"newdoc", "item"} /\ job'[q].node.work = g
  BY DEF FindingsAreTold
<1>0. g \in Works /\ g \notin cut /\ refs[g] = NoKey
  BY PromotionTurns, StoryKeysAssumption
<1>1. ASSUME NEW l \in Keys, nodes[l].work = g
      PROVE  \E q \in Procs : pc'[q] \in {"newdoc", "item"} /\ job'[q].node.work = g
  <2>1. PICK q \in Procs : pc[q] \in {"newdoc", "item"} /\ job[q].node.work = g
    BY <1>0, <1>1 DEF DocInv, FindingsAreTold
  <2>2. CASE q = p
    BY <2>1, <2>2, PromotionTurns
  <2>3. CASE q # p
    BY <2>1, <2>3, PromotionTurns DEF OthersWait
  <2> QED
    BY <2>2, <2>3
<1>2. CASE NewNode(p)
  <2>1. /\ pc'[p] = "newdoc" /\ job' = job /\ job[p].new \in Keys /\ job[p].node.work \in Works
        /\ nodes'[job[p].new] = Born(job[p].node.work, job[p].new)
        /\ \A l \in Keys : l # job[p].new => nodes'[l] = nodes[l]
    BY <1>2, NewNodeDoes DEF DocInv, PlaceInv, StandInv
  <2>2. nodes'[job[p].new].work = job[p].node.work
    BY <2>1, BornFile
  <2>3. CASE k = job[p].new
    BY <2>1, <2>2, <2>3
  <2>4. CASE k # job[p].new
    BY <1>1, <2>1, <2>4
  <2> QED
    BY <2>3, <2>4
<1>3. CASE ~NewNode(p)
  <2>1. \E l \in Keys : nodes[l].work = g
    BY <1>0, <1>3, PromotionTurns
  <2> QED
    BY <1>1, <2>1
<1> QED
  BY <1>2, <1>3

LEMMA NextNoneTaken ==
  ASSUME DocInv, StandInv', NEW p \in Procs,
         Reparent(p) \/ Promote(p) \/ Activate(p) \/ SprintLoad(p) \/ SprintSave(p) \/ Crash(p)
  PROVE  NoneTaken'
<1>0. IInv
  BY DEF DocInv, PlaceInv, StandInv
<1> SUFFICES ASSUME NEW a \in Procs, NEW b \in Procs,
                    pc'[a] \in {"newdoc", "item"}, job'[a].node.work \notin cut',
                    pc'[b] \in {"gate", "rename"}, job'[b].old = job'[a].new,
                    EpicAt(job'[b].old) \in planned'
             PROVE  FALSE
  BY DEF NoneTaken, EpicAt
<1>1. a # b
  OBVIOUS
<1>2. OthersWait(p) /\ cut \subseteq cut' /\ planned' \subseteq planned
  BY PromotionTurns
<1>3. CASE p = a
  <2>1. job'[b] = job[b] /\ pc'[b] = pc[b] /\ issued[job[b].old] # {}
    BY <1>1, <1>2, <1>3 DEF OthersWait, DocInv, PlaceInv, StandInv, Stands, Reparenting
  <2>2. CASE pc[a] \in {"newdoc", "item"} /\ job'[a] = job[a]
    BY <1>2, <2>1, <2>2 DEF DocInv, NoneTaken
  <2>3. CASE NewNode(a)
    BY <1>0, <2>1, <2>3, NewNodeDoes
  <2>4. CASE PromoteTake(a)
    <3> DEFINE g == job'[a].node.work
    <3>1. /\ g \in Findings /\ refs[g] = NoKey /\ holder["issues"] = NoProc
          /\ \E k \in Keys : nodes[k].work = g
      BY <1>0, <2>4, PromoteTakeDoes
    <3>2. PICK q \in Procs : pc[q] \in {"newdoc", "item"}
      BY <1>2, <3>1 DEF DocInv, FindingsAreTold
    <3> QED
      BY <3>1, <3>2, StoryKeysAssumption DEF DocInv, Promotes
  <2> QED
    BY <1>3, <2>2, <2>3, <2>4, PromotionTurns
<1>4. CASE p = b
  <2>1. job'[a] = job[a] /\ pc'[a] = pc[a]
    BY <1>1, <1>2, <1>4 DEF OthersWait
  <2>2. /\ job[a].new \in Keys /\ job[a].to \in Sprints /\ job[a].new[1] = job[a].to
        /\ holder[EpicOf[job[a].to]] = a /\ job[a].node.work \in Works
        /\ nodes[job[a].new].work = job[a].node.work
    BY <1>2, <2>1 DEF DocInv, Promotes, PlaceInv, StandInv, Standing
  <2>3. IsStory(job[a].new)
    BY <2>2, FilesHaveWork, StoryKeysAssumption DEF DocInv, PlaceInv
  <2>4. CASE pc[b] \in {"gate", "rename"} /\ job'[b].old = job[b].old
    BY <1>2, <2>1, <2>4 DEF DocInv, NoneTaken, EpicAt
  <2>5. CASE Raise(b)
    <3>1. job' = job /\ holder[EpicAt(job[b].old)] = NoProc
      BY <1>0, <2>5, RaiseDoes
    <3> QED
      BY <2>2, <3>1, StoryKeysAssumption DEF EpicAt
  <2>6. CASE Ask(b)
    <3>1. /\ pc'[b] \in {"raise", "gate"} /\ planned' = planned
          /\ pc'[b] = "gate" => ~IsStory(job'[b].old) \/ EpicAt(job'[b].old) \notin planned
      BY <1>0, <2>6, AskDoes
    <3> QED
      BY <2>1, <2>3, <3>1 DEF EpicAt
  <2>7. \/ Ask(b) \/ Raise(b) \/ Gate(b) \/ Rename(b) \/ pc'[b] \in Renamed
        \/ pc'[b] \notin Reparenting \/ (pc'[b] = pc[b] /\ job'[b] = job[b])
    BY <1>0, <1>4, Turns
  <2> QED
    BY <1>0, <2>4, <2>5, <2>6, <2>7, GateDoes, RenameDoes DEF Renamed, Reparenting
<1>5. CASE p # a /\ p # b
  BY <1>2, <1>5 DEF OthersWait, DocInv, NoneTaken, EpicAt
<1> QED
  BY <1>3, <1>4, <1>5

\* A verb that ends or dies.
LEMMA LeaveDocs ==
  ASSUME DocInv, StandInv', NoneMovedOn', FindingsAreTold', NoneTaken', DocTypes', NEW p \in Procs,
         Leave(p), UNCHANGED <<nodes, docs, issued, planned>>, cut \subseteq cut',
         pc[p] \in DocMoving => nodes[job[p].new].work \in cut'
  PROVE  DocInv'
<1>1. pc'[p] = "idle" /\ OthersWait(p) /\ LocksStay(p)
  BY LeaveDoes DEF DocInv, PlaceInv, StandInv
<1>2. GateStands(p)' /\ DocInHand(p)' /\ Promotes(p)'
  BY <1>1 DEF GateStands, DocInHand, DocMoving, Promotes
<1> QED
  BY <1>1, <1>2, QuietDocs

LEMMA ReparentDocs ==
  ASSUME DocInv, StandInv', NoneMovedOn', FindingsAreTold', NoneTaken', NEW p \in Procs, Reparent(p)
  PROVE  DocInv'
<1>0. IInv /\ DocTypes
  BY DEF DocInv, PlaceInv, StandInv
<1>1. CASE Ask(p) \/ Raise(p)
  <2>1. pc[p] \notin DocMoving
    BY <1>1 DEF Ask, Raise, DocMoving
  <2>2. /\ pc'[p] \in {"raise", "gate"} /\ OthersWait(p)
        /\ UNCHANGED <<nodes, docs, refs, planned, holder, issued, cut>>
    BY <1>0, <1>1, AskDoes, RaiseDoes
  <2>3. GateStands(p)' /\ DocInHand(p)' /\ Promotes(p)'
    BY <2>2 DEF GateStands, DocInHand, DocMoving, Promotes
  <2>4. DocTypes'
    BY <1>0, <2>2 DEF DocTypes
  <2> QED
    BY <2>1, <2>2, <2>3, <2>4, LocksOfOthers, QuietDocs
<1>2. CASE Gate(p)
  <2>1. /\ pc[p] = "gate" /\ pc'[p] = "rename" /\ OthersWait(p) /\ LocksStay(p)
        /\ job'[p].old = job[p].old /\ job'[p].doc = (docs[job[p].old] # NoDoc)
        /\ UNCHANGED <<nodes, docs, refs, planned, issued, cut>>
    BY <1>0, <1>2, GateDoes
  <2>2. GateStands(p)' /\ DocInHand(p)' /\ Promotes(p)'
    BY <2>1 DEF GateStands, DocInHand, DocMoving, Promotes
  <2>3. DocTypes'
    BY <1>0, <2>1 DEF DocTypes
  <2> QED
    BY <2>1, <2>2, <2>3, QuietDocs DEF DocMoving
<1>3. CASE GateRefuses(p) \/ RenameFails(p)
  <2>1. pc[p] \notin DocMoving /\ Leave(p) /\ UNCHANGED <<nodes, docs, refs, issued, planned, cut>>
    BY <1>3 DEF GateRefuses, RenameFails, tree, DocMoving
  <2>2. DocTypes'
    BY <1>0, <2>1 DEF DocTypes
  <2> QED
    BY <2>1, <2>2, LeaveDocs
<1>4. CASE Repoint(p)
  <2>1. /\ pc[p] = "walk" /\ Leave(p) /\ UNCHANGED <<nodes, docs, issued, planned, cut>>
        /\ refs' = RepointRefs(p)
    BY <1>4 DEF Repoint
  <2>2. job[p].new \in Keys
    BY <2>1, MoverDocs DEF Renamed
  <2>3. DocTypes'
    BY <1>0, <2>1, <2>2 DEF DocTypes, RepointRefs
  <2> QED
    BY <2>1, <2>3, LeaveDocs DEF DocMoving
<1>5. CASE WalkLoad(p)
  <2>1. /\ pc[p] = "walk" /\ pc'[p] = "walksave" /\ OthersWait(p)
        /\ UNCHANGED <<nodes, docs, refs, planned, holder, issued, cut>>
    BY <1>0, <1>5, WalkLoadDoes
  <2>2. GateStands(p)' /\ DocInHand(p)' /\ Promotes(p)'
    BY <2>1 DEF GateStands, DocInHand, DocMoving, Promotes
  <2>3. DocTypes'
    BY <1>0, <2>1 DEF DocTypes
  <2> QED
    BY <2>1, <2>2, <2>3, LocksOfOthers, QuietDocs DEF DocMoving
<1>6. CASE Rename(p) \/ Rekey(p) \/ WalkSave(p) \/ MoveDoc(p) \/ RekeyDoc(p)
  BY <1>6, RenameDocs, RekeyDocs, WalkSaveDocs, MoveDocDocs, RekeyDocDocs
<1> QED
  BY <1>1, <1>2, <1>3, <1>4, <1>5, <1>6 DEF Reparent

LEMMA PromoteDocs ==
  ASSUME DocInv, StandInv', NoneMovedOn', FindingsAreTold', NoneTaken', NEW p \in Procs, Promote(p)
  PROVE  DocInv'
<1>0. IInv /\ DocTypes
  BY DEF DocInv, PlaceInv, StandInv
<1>1. CASE PromoteTake(p)
  <2> DEFINE g == job'[p].node.work
             s == job'[p].to
  <2>1. /\ g \in Findings /\ refs[g] = NoKey /\ s \in Sprints /\ holder["issues"] = NoProc
        /\ holder'["issues"] = p /\ holder'[EpicOf[s]] = p
        /\ \/ pc'[p] = "mint"
           \/ /\ pc'[p] = "newdoc"
              /\ \E k \in Keys : /\ nodes[k].work = g /\ nodes[k].name[1] = s
                                 /\ job'[p].new = nodes[k].name
        /\ UNCHANGED <<nodes, docs, refs, planned, issued, cut>>
        /\ OthersWait(p) /\ LocksStay(p)
    BY <1>0, <1>1, PromoteTakeDoes
  <2>2. pc[p] = "idle"
    BY <1>1 DEF PromoteTake
  <2>3. ASSUME NEW k \in Keys, nodes[k].work = g, pc'[p] = "newdoc", job'[p].new = nodes[k].name,
               nodes[k].name[1] = s
        PROVE  Promotes(p)'
    <3>1. g \in cut
      <4> SUFFICES ASSUME g \notin cut PROVE FALSE
        OBVIOUS
      <4>1. PICK q \in Procs : pc[q] \in {"newdoc", "item"}
        BY <2>1, <2>3 DEF DocInv, FindingsAreTold
      <4> QED
        BY <2>1, <4>1, StoryKeysAssumption DEF DocInv, Promotes
    <3>2. nodes[k] # NoFile
      BY <2>1, <2>3, NothingTyped, StoryKeysAssumption
    <3>3. nodes[k].name \in Keys /\ g \in issued[nodes[k].name]
      BY <2>3, <3>2 DEF DocInv, NodesAreKeyed, IsStory
    <3> QED
      BY <2>1, <2>3, <3>1, <3>3 DEF Promotes
  <2>4. Promotes(p)'
    <3>1. CASE pc'[p] = "mint"
      BY <3>1 DEF Promotes
    <3> QED
      BY <2>1, <2>3, <3>1
  <2>5. GateStands(p)' /\ DocInHand(p)'
    BY <2>1 DEF GateStands, DocInHand, DocMoving
  <2>6. DocTypes'
    BY <1>0, <2>1 DEF DocTypes
  <2> QED
    BY <2>1, <2>2, <2>4, <2>5, <2>6, QuietDocs DEF DocMoving
<1>2. CASE Mint(p)
  <2>1. /\ pc[p] = "mint" /\ pc'[p] = "newnode" /\ OthersWait(p)
        /\ UNCHANGED <<nodes, docs, refs, planned, holder, issued, cut>>
    BY <1>0, <1>2, MintDoes
  <2>2. GateStands(p)' /\ DocInHand(p)' /\ Promotes(p)'
    BY <2>1 DEF GateStands, DocInHand, DocMoving, Promotes
  <2>3. DocTypes'
    BY <1>0, <2>1 DEF DocTypes
  <2> QED
    BY <2>1, <2>2, <2>3, LocksOfOthers, QuietDocs DEF DocMoving
<1>3. CASE NewNode(p)
  BY <1>3, NewNodeDocs
<1>4. CASE NewDoc(p) /\ Goto(p, "item") /\ UNCHANGED <<holder, job>>
  BY <1>4, NewDocDocs
<1>5. CASE NewDoc(p) /\ Leave(p) /\ UNCHANGED docs
  <2>1. pc[p] = "newdoc" /\ UNCHANGED <<nodes, refs, planned, issued, cut>>
    BY <1>5 DEF NewDoc
  <2>2. DocTypes'
    BY <1>0, <1>5, <2>1 DEF DocTypes
  <2> QED
    BY <1>5, <2>1, <2>2, LeaveDocs DEF DocMoving
<1>6. CASE SaveItem(p)
  <2>1. /\ pc[p] = "item" /\ Leave(p) /\ UNCHANGED <<nodes, docs, planned, issued, cut>>
        /\ refs' = [refs EXCEPT ![job[p].node.work] = job[p].new]
    BY <1>6 DEF SaveItem
  <2>2. job[p].new \in Keys
    BY <2>1 DEF DocInv, Promotes
  <2>3. DocTypes'
    BY <1>0, <2>1, <2>2 DEF DocTypes
  <2> QED
    BY <2>1, <2>3, LeaveDocs DEF DocMoving
<1> QED
  BY <1>1, <1>2, <1>3, <1>4, <1>5, <1>6 DEF Promote, NewDoc

LEMMA OtherDocs ==
  ASSUME DocInv, StandInv', NoneMovedOn', FindingsAreTold', NoneTaken', NEW p \in Procs,
         Activate(p) \/ SprintLoad(p) \/ SprintSave(p) \/ Crash(p)
  PROVE  DocInv'
<1>0. IInv /\ DocTypes
  BY DEF DocInv, PlaceInv, StandInv
<1>1. CASE Activate(p)
  <2>1. planned' \subseteq planned /\ UNCHANGED <<nodes, docs, refs, holder, pc, job, issued, cut>>
    BY <1>0, <1>1, ActivateDoes
  <2>2. GateStands(p)' /\ DocInHand(p)' /\ Promotes(p)'
    BY <2>1 DEF DocInv, GateStands, DocInHand, DocMoving, Promotes, KeysOf, IsStory, EpicAt
  <2>3. DocTypes'
    BY <1>0, <2>1 DEF DocTypes
  <2> QED
    BY <2>1, <2>2, <2>3, LocksOfOthers, QuietDocs DEF OthersWait
<1>2. CASE SprintLoad(p)
  <2>1. pc[p] = "idle"
    BY <1>2 DEF SprintLoad
  <2>2. /\ pc'[p] = "sprint" /\ OthersWait(p)
        /\ UNCHANGED <<nodes, docs, refs, planned, holder, issued, cut>>
    BY <1>0, <1>2, SprintLoadDoes
  <2>3. GateStands(p)' /\ DocInHand(p)' /\ Promotes(p)'
    BY <2>2 DEF GateStands, DocInHand, DocMoving, Promotes
  <2>4. DocTypes'
    BY <1>0, <2>2 DEF DocTypes
  <2> QED
    BY <2>1, <2>2, <2>3, <2>4, LocksOfOthers, QuietDocs DEF DocMoving
<1>3. CASE SprintSave(p)
  <2>1. pc[p] = "sprint" /\ Leave(p) /\ UNCHANGED <<nodes, docs, refs, planned, issued, cut>>
    BY <1>3 DEF SprintSave
  <2>2. DocTypes'
    BY <1>0, <2>1 DEF DocTypes
  <2> QED
    BY <2>1, <2>2, LeaveDocs DEF DocMoving
<1>4. CASE Crash(p)
  <2>1. /\ Leave(p) /\ UNCHANGED <<nodes, docs, refs, planned, issued>>
        /\ cut' = cut \cup HalfDone(p)
    BY <1>4 DEF Crash, tree
  <2>2. pc[p] \in DocMoving => nodes[job[p].new].work \in cut'
    BY <2>1 DEF HalfDone, DocMoving
  <2>3. DocTypes'
    BY <1>0, <2>1 DEF DocTypes
  <2> QED
    BY <2>1, <2>2, <2>3, LeaveDocs
<1> QED
  BY <1>1, <1>2, <1>3, <1>4

LEMMA NextDocs ==
  ASSUME StoriesMoveApart, DocInv, [Next]_vars
  PROVE  DocInv'
<1>1. StandInv' /\ NoneMovedOn'
  BY NextStands DEF DocInv, PlaceInv
<1>2. CASE Next
  <2>1. PICK p \in Procs : Reparent(p) \/ Promote(p) \/ Activate(p) \/ SprintLoad(p)
                           \/ SprintSave(p) \/ Crash(p)
    BY <1>2 DEF Next
  <2>2. FindingsAreTold' /\ NoneTaken'
    BY <1>1, <2>1, NextTold, NextNoneTaken
  <2> QED
    BY <1>1, <2>1, <2>2, ReparentDocs, PromoteDocs, OtherDocs
<1>3. CASE UNCHANGED vars
  BY <1>1, <1>3 DEF vars, DocInv, PlaceInv, DocTypes, NodesAreKeyed, DocsAreKeyed, FindingsAreTold,
     NoneTaken, GateStands, DocInHand, Promotes, KeysOf, IsStory
<1> QED
  BY <1>2, <1>3

LEMMA InitDocs == Init => DocInv
<1> SUFFICES ASSUME Init PROVE DocInv
  OBVIOUS
<1>1. PlaceInv
  BY InitStands DEF PlaceInv
<1>2. DocTypes
  <2>1. ASSUME NEW k \in Keys PROVE docs[k] \in Docs \cup {NoDoc}
    <3> SUFFICES ASSUME docs[k] # NoDoc PROVE docs[k] \in Docs
      OBVIOUS
    <3>1. PICK w \in Works \ Findings : Placed[w] = k /\ docs[k] = [work |-> w, name |-> k]
      BY FirstStories
    <3> QED
      BY <3>1 DEF Docs
  <2>2. docs = [k \in Keys |-> docs[k]]
    BY DEF Init
  <2>3. refs \in [Works -> Keys \cup {NoKey}]
    BY StoryKeysAssumption DEF Init
  <2> HIDE DEF Init
  <2> QED
    BY <2>1, <2>2, <2>3 DEF DocTypes
<1>3. ASSUME NEW k \in Keys, NEW w \in Works \ Findings, Placed[w] = k
      PROVE  w \in issued[k] /\ KeysOf(w) = {k}
  <2>1. \A l \in Keys : issued[l] = {v \in Works \ Findings : Placed[v] = l}
    BY FirstStories
  <2> QED
    BY <1>3, <2>1 DEF KeysOf
<1>4. NodesAreKeyed
  <2> SUFFICES ASSUME NEW k \in Keys, nodes[k] # NoFile
               PROVE  /\ nodes[k].name = k /\ nodes[k].work \in issued[k]
                      /\ KeysOf(nodes[k].work) = Past(nodes[k].prev) \cup {k}
    BY DEF NodesAreKeyed, IsStory
  <2>1. PICK w \in Works \ Findings :
          Placed[w] = k /\ nodes[k].work = w /\ nodes[k].name = k /\ nodes[k].prev = <<>>
    BY FirstStories
  <2>2. Past(<<>>) = {}
    BY DEF Past
  <2> QED
    BY <1>3, <2>1, <2>2
<1>5. DocsAreKeyed
  <2> SUFFICES ASSUME NEW k \in Keys, docs[k] # NoDoc
               PROVE  docs[k].work \in issued[k] /\ docs[k].name = k /\ nodes[k].work = docs[k].work
    BY DEF DocsAreKeyed
  <2>1. PICK w \in Works \ Findings :
          Placed[w] = k /\ nodes[k].work = w /\ docs[k] = [work |-> w, name |-> k]
    BY FirstStories
  <2> QED
    BY <1>3, <2>1
<1>6. FindingsAreTold
  <2> SUFFICES ASSUME NEW g \in Findings, NEW k \in Keys, nodes[k].work = g PROVE FALSE
    BY DEF FindingsAreTold
  <2>1. g # NoWork
    BY StoryKeysAssumption
  <2>2. nodes[k] # NoFile
    BY <2>1, NothingTyped
  <2>3. PICK w \in Works \ Findings : Placed[w] = k /\ nodes[k].work = w
    BY <2>2, FirstStories
  <2> QED
    BY <2>3
<1>7. NoneTaken /\ \A p \in Procs : GateStands(p) /\ DocInHand(p) /\ Promotes(p)
  BY DEF Init, NoneTaken, GateStands, DocInHand, DocMoving, Promotes
<1> QED
  BY <1>1, <1>2, <1>4, <1>5, <1>6, <1>7 DEF DocInv

\* "Both trees move together": unless the verb that moved a story died, its document
\* lies beside its node, both carry their key, and previous_keys has all the others.
THEOREM DocsMoveWithNodes == StoriesMoveApart => (Spec => []DocBesideNode)
<1> SUFFICES ASSUME StoriesMoveApart PROVE Spec => []DocBesideNode
  OBVIOUS
<1>1. DocInv => DocBesideNode
  <2> SUFFICES ASSUME DocInv, NEW key \in Keys
               PROVE  /\ IsStory(key) /\ IsSettled(nodes[key].work) =>
                           /\ nodes[key].name = key
                           /\ KeysOf(nodes[key].work) = Past(nodes[key].prev) \cup {key}
                      /\ docs[key] # NoDoc /\ IsSettled(docs[key].work) =>
                           docs[key].name = key /\ nodes[key].work = docs[key].work
    BY DEF DocBesideNode, KeysOf, Past
  <2>1. ASSUME IsSettled(nodes[key].work)
        PROVE  /\ nodes[key].work \notin cut
               /\ \A p \in Procs : pc[p] \in {"doc", "rekey"} => job[p].new # key
    BY <2>1 DEF IsSettled, InHand
  <2>2. ASSUME IsSettled(docs[key].work)
        PROVE  /\ docs[key].work \notin cut
               /\ \A p \in Procs : pc[p] \in DocMoving => nodes[job[p].new].work # docs[key].work
    BY <2>2 DEF IsSettled, InHand, DocMoving
  <2> QED
    BY <2>1, <2>2 DEF DocInv, NodesAreKeyed, DocsAreKeyed
<1>2. DocInv /\ [Next]_vars => DocInv'
  BY NextDocs
<1>3. Init => DocInv
  BY InitDocs
<1> QED
  BY <1>1, <1>2, <1>3, PTL DEF Spec

-----------------------------------------------------------------------------
(* What names a story follows it.                                           *)

\* A new story depends on none.
FindingsNeedNothing == \A g \in Findings : Needs[g] = {}

OneEpicReceives == SprintsLeftAreNotTouched /\ MovesToOneEpic /\ FindingsNeedNothing

\* The item names the key the story has, and the old one until the re-parent is over.
RefsFollow ==
  \A k \in Keys : IsStory(k) /\ nodes[k].work \notin cut /\ refs[nodes[k].work] # NoKey =>
    /\ (\A p \in Procs : pc[p] \in Renamed => job[p].new # k) => refs[nodes[k].work] = k
    /\ \A p \in Procs : pc[p] \in Renamed /\ job[p].new = k => refs[nodes[k].work] = job[p].old

ItemIsOpen(p) ==
  pc[p] \in {"mint", "newnode", "newdoc", "item"} =>
    job[p].node.work \in Findings /\ refs[job[p].node.work] = NoKey

\* Whether the story at key d has still to be rewritten by p.
IsAhead(p, d) ==
  \/ pc[p] \in DocMoving
  \/ pc[p] \in {"walk", "walksave"} /\ d \in job[p].left
  \/ pc[p] = "walksave" /\ d = job[p].at

\* The story at key d calls v by the key x: v's own, or the one v had before the
\* re-parent that has not come to d yet.
IsCalled(d, v, x) ==
  \/ nodes[x].work = v /\ \A p \in Procs : pc[p] \in Renamed /\ job[p].new = x => ~IsAhead(p, d)
  \/ \E p \in Procs : /\ pc[p] \in Renamed /\ nodes[job[p].new].work = v
                      /\ IsAhead(p, d) /\ x = job[p].old

DepsFollow ==
  \A d \in Keys : IsStory(d) /\ EpicAt(d) \in planned /\ Needs[nodes[d].work] \cap cut = {} =>
    \A x \in Keys : x \in nodes[d].deps <=> \E v \in Needs[nodes[d].work] : IsCalled(d, v, x)

StoriesAreIssued == \A w \in Works \ Findings : w \in issued[Placed[w]]

\* The walk visits each story once, with what the story depends on as it was loaded.
WalkKnown(p) ==
  /\ pc[p] = "rekeydoc" => job[p].left = Keys
  /\ pc[p] = "walksave" => job[p].at \notin job[p].left /\ job[p].node.deps = nodes[job[p].at].deps

RefInv ==
  /\ DocInv /\ RefsFollow /\ DepsFollow /\ StoriesAreIssued
  /\ \A p \in Procs : ItemIsOpen(p) /\ WalkKnown(p)

\* The steps that take no story from one key to another, and end no re-parent that did.
Calm(p) ==
  \/ Ask(p) \/ Raise(p) \/ Gate(p) \/ GateRefuses(p) \/ RenameFails(p)
  \/ MoveDoc(p) \/ Rekey(p) \/ RekeyDoc(p) \/ WalkLoad(p)
  \/ PromoteTake(p) \/ Mint(p) \/ NewDoc(p) \/ SaveItem(p)
  \/ Activate(p) \/ SprintLoad(p) \/ SprintSave(p)
  \/ Crash(p) /\ pc[p] \notin Renamed

LEMMA CalmSteps ==
  ASSUME RefInv, NEW p \in Procs, Calm(p)
  PROVE  /\ \A k \in Keys : nodes'[k].work = nodes[k].work /\ nodes'[k].deps = nodes[k].deps
         /\ UNCHANGED issued /\ OthersWait(p)
         /\ \A q \in Procs : pc'[q] \in Renamed <=> pc[q] \in Renamed
         /\ \A q \in Procs : pc[q] \in Renamed =>
              /\ job'[q].new = job[q].new /\ job'[q].old = job[q].old
              /\ \A d \in Keys : IsAhead(q, d)' <=> IsAhead(q, d)
         /\ WalkKnown(p)'
<1>0. IInv /\ DocInv /\ WalkKnown(p)
  BY DEF RefInv, DocInv, PlaceInv, StandInv
<1>1. ASSUME \A k \in Keys : nodes'[k].work = nodes[k].work /\ nodes'[k].deps = nodes[k].deps,
             UNCHANGED issued, OthersWait(p),
             \/ pc[p] \notin Renamed /\ pc'[p] \notin Renamed
             \/ /\ pc[p] \in Renamed /\ pc'[p] \in Renamed
                /\ job'[p].new = job[p].new /\ job'[p].old = job[p].old
                /\ \A d \in Keys : IsAhead(p, d)' <=> IsAhead(p, d),
             WalkKnown(p)'
      PROVE  /\ \A q \in Procs : pc'[q] \in Renamed <=> pc[q] \in Renamed
             /\ \A q \in Procs : pc[q] \in Renamed =>
                  /\ job'[q].new = job[q].new /\ job'[q].old = job[q].old
                  /\ \A d \in Keys : IsAhead(q, d)' <=> IsAhead(q, d)
  <2> SUFFICES ASSUME NEW q \in Procs, q # p
               PROVE  /\ pc'[q] = pc[q] /\ job'[q] = job[q]
                      /\ \A d \in Keys : IsAhead(q, d)' <=> IsAhead(q, d)
    BY <1>1
  <2>1. pc'[q] = pc[q] /\ job'[q] = job[q]
    BY <1>1 DEF OthersWait
  <2> QED
    BY <2>1 DEF IsAhead
<1>2. CASE Ask(p) \/ Raise(p) \/ Gate(p)
  <2>1. /\ pc[p] \notin Renamed /\ pc'[p] \notin Renamed /\ pc'[p] \notin {"rekeydoc", "walksave"}
        /\ UNCHANGED <<nodes, issued>> /\ OthersWait(p)
    <3>1. pc[p] \notin Renamed
      BY <1>2 DEF Ask, Raise, Gate, Renamed
    <3> QED
      BY <1>0, <1>2, <3>1, AskDoes, RaiseDoes, GateDoes DEF Renamed
  <2> QED
    BY <1>1, <2>1 DEF WalkKnown
<1>3. CASE GateRefuses(p) \/ RenameFails(p) \/ SaveItem(p) \/ SprintSave(p)
           \/ (NewDoc(p) /\ Leave(p)) \/ (Crash(p) /\ pc[p] \notin Renamed)
  <2>1. pc[p] \notin Renamed /\ Leave(p) /\ UNCHANGED <<nodes, issued>>
    BY <1>3 DEF GateRefuses, RenameFails, SaveItem, SprintSave, NewDoc, Crash, tree, Renamed
  <2>2. pc'[p] = "idle" /\ OthersWait(p)
    BY <1>0, <2>1, LeaveDoes
  <2> QED
    BY <1>1, <2>1, <2>2 DEF WalkKnown, Renamed
<1>4. CASE MoveDoc(p) \/ RekeyDoc(p)
  <2>1. /\ UNCHANGED <<nodes, issued, job>> /\ OthersWait(p)
        /\ \/ pc[p] = "doc" /\ pc'[p] = "rekey"
           \/ pc[p] = "rekeydoc" /\ pc'[p] = "walk"
    BY <1>0, <1>4, MoveDocDoes, RekeyDocDoes
  <2>2. \A d \in Keys : IsAhead(p, d)' <=> IsAhead(p, d)
    BY <1>0, <2>1 DEF IsAhead, DocMoving, WalkKnown
  <2> QED
    BY <1>1, <2>1, <2>2 DEF WalkKnown, Renamed
<1>5. CASE Rekey(p)
  <2>1. /\ pc[p] = "rekey" /\ pc'[p] \in {"rekeydoc", "walk"}
        /\ \A k \in Keys : nodes'[k].work = nodes[k].work /\ nodes'[k].deps = nodes[k].deps
        /\ job'[p].old = job[p].old /\ job'[p].new = job[p].new /\ job'[p].left = Keys
        /\ UNCHANGED issued /\ OthersWait(p)
    BY <1>0, <1>5, RekeyDoes
  <2>2. \A d \in Keys : IsAhead(p, d)' <=> IsAhead(p, d)
    BY <2>1 DEF IsAhead, DocMoving
  <2>3. WalkKnown(p)'
    BY <2>1 DEF WalkKnown
  <2>4. pc[p] \in Renamed /\ pc'[p] \in Renamed
    BY <2>1 DEF Renamed
  <2> QED
    BY <1>1, <2>1, <2>2, <2>3, <2>4
<1>6. CASE WalkLoad(p)
  <2>1. /\ pc[p] = "walk" /\ pc'[p] = "walksave"
        /\ job'[p].at \in job[p].left /\ job'[p].left = job[p].left \ {job'[p].at}
        /\ job'[p].node = nodes[job'[p].at]
        /\ job'[p].old = job[p].old /\ job'[p].new = job[p].new
        /\ UNCHANGED <<nodes, issued>> /\ OthersWait(p)
    BY <1>0, <1>6, WalkLoadDoes
  <2>2. \A d \in Keys : IsAhead(p, d)' <=> IsAhead(p, d)
    BY <2>1 DEF IsAhead, DocMoving
  <2>3. WalkKnown(p)'
    BY <2>1 DEF WalkKnown
  <2>4. pc[p] \in Renamed /\ pc'[p] \in Renamed
    BY <2>1 DEF Renamed
  <2> QED
    BY <1>1, <2>1, <2>2, <2>3, <2>4
<1>7. CASE PromoteTake(p) \/ Mint(p) \/ SprintLoad(p)
  <2>1. pc[p] \notin Renamed /\ pc'[p] \in {"mint", "newdoc", "newnode", "sprint"}
        /\ UNCHANGED <<nodes, issued>> /\ OthersWait(p)
    <3>1. pc[p] \notin Renamed
      BY <1>7 DEF PromoteTake, Mint, SprintLoad, Renamed
    <3> QED
      BY <1>0, <1>7, <3>1, PromoteTakeDoes, MintDoes, SprintLoadDoes
  <2> QED
    BY <1>1, <2>1 DEF WalkKnown, Renamed
<1>8. CASE NewDoc(p) /\ Goto(p, "item") /\ UNCHANGED <<holder, job>>
  <2>1. pc[p] = "newdoc" /\ pc'[p] = "item" /\ UNCHANGED <<nodes, issued>> /\ OthersWait(p)
    BY <1>0, <1>8, NewDocDoes
  <2> QED
    BY <1>1, <2>1 DEF WalkKnown, Renamed
<1>9. CASE Activate(p)
  <2>1. UNCHANGED <<nodes, issued, pc, job>>
    BY <1>0, <1>9, ActivateDoes
  <2>2. WalkKnown(p)' /\ \A d \in Keys : IsAhead(p, d)' <=> IsAhead(p, d)
    BY <1>0, <2>1 DEF WalkKnown, IsAhead
  <2> QED
    BY <1>1, <2>1, <2>2 DEF OthersWait
<1> QED
  BY <1>2, <1>3, <1>4, <1>5, <1>6, <1>7, <1>8, <1>9 DEF Calm, NewDoc

\* The works the stories depend on are works, and none of them a finding.
LEMMA NeedsAreStories ==
  ASSUME NEW w \in Works, NEW v \in Needs[w]
  PROVE  v \in Works /\ v \notin Findings /\ v # NoWork
BY StoryKeysAssumption

\* An item that is being promoted stays open until its own promotion schedules it.
LEMMA ItemsStayOpen ==
  ASSUME RefInv, NEW p \in Procs,
         Reparent(p) \/ Promote(p) \/ Activate(p) \/ SprintLoad(p) \/ SprintSave(p) \/ Crash(p)
  PROVE  \A q \in Procs : ItemIsOpen(q)'
<1>0. IInv /\ StandInv /\ DocInv /\ OthersWait(p)
  BY PromotionTurns DEF RefInv, DocInv, PlaceInv, StandInv
<1>1. \A w \in Works : refs[w] = NoKey => refs'[w] = NoKey \/ SaveItem(p)
  <2>1. CASE Repoint(p)
    <3>1. job[p].old \in Keys /\ refs' = RepointRefs(p)
      BY <1>0, <2>1, MoverKeys DEF Repoint, Renamed
    <3> QED
      BY <3>1, StoryKeysAssumption DEF RepointRefs
  <2>2. CASE ~Repoint(p) /\ ~SaveItem(p)
    <3>1. UNCHANGED refs
      BY <2>2 DEF Reparent, Promote, Ask, Raise, Gate, GateRefuses, Rename, RenameFails, MoveDoc,
                  Rekey, RekeyDoc, WalkLoad, WalkSave, PromoteTake, Mint, NewNode, NewDoc, Activate,
                  SprintLoad, SprintSave, Crash, tree
    <3> QED
      BY <3>1
  <2> QED
    BY <2>1, <2>2
<1>2. ASSUME NEW q \in Procs, q # p PROVE ItemIsOpen(q)'
  <2> SUFFICES ASSUME pc[q] \in {"mint", "newnode", "newdoc", "item"}
               PROVE  job[q].node.work \in Findings /\ refs'[job[q].node.work] = NoKey
    BY <1>0, <1>2 DEF ItemIsOpen, OthersWait
  <2>1. holder["issues"] = q
    BY <1>0 DEF StandInv, Stands, DocInv, Promotes
  <2>2. ~SaveItem(p)
    BY <1>0, <1>2, <2>1 DEF SaveItem, DocInv, Promotes
  <2>3. job[q].node.work \in Findings /\ refs[job[q].node.work] = NoKey
    BY DEF RefInv, ItemIsOpen
  <2> QED
    BY <1>1, <2>2, <2>3, StoryKeysAssumption
<1>3. ItemIsOpen(p)'
  <2>0. ItemIsOpen(p)
    BY DEF RefInv
  <2>1. CASE PromoteTake(p)
    BY <1>0, <2>1, PromoteTakeDoes DEF ItemIsOpen
  <2>2. CASE Mint(p)
    BY <1>0, <2>0, <2>2, MintDoes DEF ItemIsOpen
  <2>3. CASE NewNode(p)
    BY <1>0, <2>0, <2>3, NewNodeDoes DEF ItemIsOpen
  <2>4. CASE NewDoc(p) /\ Goto(p, "item") /\ UNCHANGED <<holder, job>>
    BY <1>0, <2>0, <2>4, NewDocDoes DEF ItemIsOpen
  <2>5. CASE Activate(p)
    BY <1>0, <2>0, <2>5, ActivateDoes DEF ItemIsOpen
  <2>6. CASE GateRefuses(p) \/ RenameFails(p) \/ Repoint(p) \/ SaveItem(p) \/ SprintSave(p)
             \/ Crash(p) \/ (NewDoc(p) /\ Leave(p))
    <3>1. Leave(p)
      BY <2>6 DEF GateRefuses, RenameFails, Repoint, SaveItem, SprintSave, Crash
    <3>2. pc'[p] = "idle"
      BY <1>0, <3>1, LeaveDoes
    <3> QED
      BY <3>2 DEF ItemIsOpen
  <2>7. CASE Ask(p) \/ Raise(p) \/ Gate(p) \/ Rename(p) \/ MoveDoc(p) \/ Rekey(p) \/ RekeyDoc(p)
             \/ WalkLoad(p) \/ WalkSave(p) \/ SprintLoad(p)
    <3>1. pc'[p] \notin {"mint", "newnode", "newdoc", "item"}
      BY <1>0, <2>7, AskDoes, RaiseDoes, GateDoes, RenameDoes, MoveDocDoes, RekeyDoes, RekeyDocDoes,
         WalkLoadDoes, WalkSaveDoes, SprintLoadDoes
    <3> QED
      BY <3>1 DEF ItemIsOpen
  <2> QED
    BY <2>1, <2>2, <2>3, <2>4, <2>5, <2>6, <2>7 DEF Reparent, Promote, NewDoc
<1> QED
  BY <1>2, <1>3

\* What a calm step leaves as it is.
LEMMA CalmRefs ==
  ASSUME RefInv, StandInv', NEW p \in Procs, Calm(p), cut \subseteq cut', planned' \subseteq planned
  PROVE  RefsFollow' /\ DepsFollow' /\ StoriesAreIssued' /\ \A q \in Procs : WalkKnown(q)'
<1>0. IInv /\ StandInv /\ DocInv /\ RefsFollow /\ DepsFollow
  BY DEF RefInv, DocInv, PlaceInv, StandInv
<1>1. /\ \A k \in Keys : nodes'[k].work = nodes[k].work /\ nodes'[k].deps = nodes[k].deps
      /\ UNCHANGED issued /\ OthersWait(p)
      /\ \A q \in Procs : pc'[q] \in Renamed <=> pc[q] \in Renamed
      /\ \A q \in Procs : pc[q] \in Renamed =>
           /\ job'[q].new = job[q].new /\ job'[q].old = job[q].old
           /\ \A d \in Keys : IsAhead(q, d)' <=> IsAhead(q, d)
      /\ WalkKnown(p)'
  BY CalmSteps
<1>2. \A k \in Keys : nodes'[k] # NoFile <=> IsStory(k)
  <2>1. \A k \in Keys : IsStory(k) <=> nodes[k].work # NoWork
    BY <1>0, FilesHaveWork
  <2>2. \A k \in Keys : nodes'[k] # NoFile <=> nodes'[k].work # NoWork
    <3>1. Standing'
      BY DEF StandInv
    <3>2. \A k \in Keys : nodes'[k].work = NoWork => nodes'[k] = NoFile
      BY <3>1 DEF Standing, IsStory
    <3>3. NoFile.work = NoWork
      BY DEF NoFile
    <3> QED
      BY <3>2, <3>3
  <2> QED
    BY <1>1, <2>1, <2>2 DEF IsStory
<1>3. \A q \in Procs : pc[q] \in Renamed => job[q].new \in Keys
  BY <1>0, MoverKeys
<1>4. RefsFollow'
  <2> SUFFICES ASSUME NEW k \in Keys, IsStory(k), nodes[k].work \notin cut',
                      refs'[nodes[k].work] # NoKey
               PROVE  /\ (\A q \in Procs : pc[q] \in Renamed => job[q].new # k) =>
                           refs'[nodes[k].work] = k
                      /\ \A q \in Procs : pc[q] \in Renamed /\ job[q].new = k =>
                           refs'[nodes[k].work] = job[q].old
    BY <1>1, <1>2 DEF RefsFollow, IsStory
  <2>1. nodes[k].work \notin cut
    OBVIOUS
  <2>2. CASE SaveItem(p) /\ nodes[k].work = job[p].node.work
    <3>0. pc[p] = "item" /\ Promotes(p)
      BY <1>0, <2>2 DEF SaveItem, DocInv
    <3>1. /\ nodes[job[p].new].work = nodes[k].work /\ job[p].new \in Keys
          /\ job[p].new[1] = job[p].to /\ holder[EpicOf[job[p].to]] = p
      BY <2>1, <2>2, <3>0 DEF Promotes
    <3>2. job[p].new = k
      BY <1>0, <3>1 DEF StandInv, Standing
    <3>3. \A q \in Procs : pc[q] \in Renamed => job[q].new # k
      <4> SUFFICES ASSUME NEW q \in Procs, pc[q] \in Renamed, job[q].new = k
                   PROVE  FALSE
        OBVIOUS
      <4>1. holder[EpicOf[job[q].to]] = q /\ job[q].new[1] = job[q].to
        BY <1>0, MoverKeys
      <4> QED
        BY <3>0, <3>1, <3>2, <4>1 DEF Renamed
    <3>4. refs'[nodes[k].work] = k
      <4>1. job[p].node.work \in Works
        BY <3>0, StoryKeysAssumption DEF RefInv, ItemIsOpen
      <4> QED
        BY <1>0, <2>2, <3>2, <4>1 DEF SaveItem, DocInv, DocTypes
    <3> QED
      BY <3>3, <3>4
  <2>3. CASE ~(SaveItem(p) /\ nodes[k].work = job[p].node.work)
    <3>1. refs'[nodes[k].work] = refs[nodes[k].work]
      <4>1. CASE SaveItem(p)
        BY <2>3, <4>1 DEF SaveItem
      <4>2. CASE ~SaveItem(p)
        <5>1. UNCHANGED refs
          BY <4>2 DEF Calm, Ask, Raise, Gate, GateRefuses, RenameFails, MoveDoc, Rekey, RekeyDoc,
                      WalkLoad, PromoteTake, Mint, NewDoc, Activate, SprintLoad, SprintSave, Crash, tree
        <5> QED
          BY <5>1
      <4> QED
        BY <4>1, <4>2
    <3> QED
      BY <1>0, <2>1, <3>1 DEF RefsFollow
  <2> QED
    BY <2>2, <2>3
<1>5. DepsFollow'
  <2> SUFFICES ASSUME NEW d \in Keys, IsStory(d), EpicAt(d) \in planned',
                      Needs[nodes[d].work] \cap cut' = {}, NEW x \in Keys
               PROVE  x \in nodes[d].deps <=> \E v \in Needs[nodes[d].work] : IsCalled(d, v, x)'
    BY <1>1, <1>2 DEF DepsFollow, IsStory, EpicAt
  <2>1. x \in nodes[d].deps <=> \E v \in Needs[nodes[d].work] : IsCalled(d, v, x)
    BY <1>0 DEF DepsFollow
  <2>2. ASSUME NEW v PROVE IsCalled(d, v, x)' <=> IsCalled(d, v, x)
    <3>1. \A q \in Procs : (pc'[q] \in Renamed /\ job'[q].new = x => ~IsAhead(q, d)')
            <=> (pc[q] \in Renamed /\ job[q].new = x => ~IsAhead(q, d))
      BY <1>1
    <3>2. \A q \in Procs : (pc'[q] \in Renamed /\ nodes'[job'[q].new].work = v
                             /\ IsAhead(q, d)' /\ x = job'[q].old)
            <=> (pc[q] \in Renamed /\ nodes[job[q].new].work = v /\ IsAhead(q, d) /\ x = job[q].old)
      BY <1>1, <1>3
    <3> QED
      BY <1>1, <3>1, <3>2 DEF IsCalled
  <2> QED
    BY <2>1, <2>2
<1>6. ASSUME NEW q \in Procs, q # p PROVE WalkKnown(q)'
  <2>1. pc'[q] = pc[q] /\ job'[q] = job[q] /\ WalkKnown(q)
    BY <1>1, <1>6 DEF OthersWait, RefInv
  <2>2. pc[q] = "walksave" => job[q].at \in Keys
    BY <1>0 DEF IInv, Hand, InWalk
  <2> QED
    BY <1>1, <2>1, <2>2 DEF WalkKnown
<1> QED
  BY <1>1, <1>4, <1>5, <1>6 DEF StoriesAreIssued, RefInv

\* Past the gate a re-parent is the only one.
LEMMA Alone ==
  ASSUME MovesToOneEpic, RefInv, NEW p \in Procs, pc[p] \in {"rename"} \cup Renamed
  PROVE  \A q \in Procs : q # p => pc[q] \notin Renamed
BY OneFlock DEF RefInv, DocInv, PlaceInv

\* A story is a work's, and where there is none there is no work.
LEMMA NoStoryNoWork ==
  ASSUME RefInv, NEW k \in Keys
  PROVE  /\ nodes[k] = NoFile => nodes[k].work \notin Works
         /\ IsStory(k) <=> nodes[k].work # NoWork
         /\ IsStory(k) => nodes[k].work \in Works
         /\ nodes[k].deps \subseteq Keys
<1>1. StandInv
  BY DEF RefInv, DocInv, PlaceInv
<1>2. nodes[k].deps \subseteq Keys
  BY <1>1, FilesHaveWork DEF Files
<1>3. issued[k] \subseteq Works
  BY <1>1 DEF StandInv, Standing
<1> QED
  BY <1>1, <1>2, <1>3, FilesHaveWork, NothingTyped, StoryKeysAssumption

LEMMA RenameRefs ==
  ASSUME MovesToOneEpic, RefInv, NEW p \in Procs, Rename(p), planned' = planned
  PROVE  RefsFollow' /\ DepsFollow' /\ \A q \in Procs : WalkKnown(q)'
<1> DEFINE old == job[p].old
           new == job[p].new
<1>0. IInv /\ StandInv /\ DocInv /\ RefsFollow /\ DepsFollow
  BY DEF RefInv, DocInv, PlaceInv, StandInv
<1>1. /\ pc[p] = "rename" /\ pc'[p] \in {"doc", "rekey"}
      /\ old \in Keys /\ new \in Keys /\ old # new
      /\ IsStory(old) /\ EpicAt(old) \in planned /\ nodes[new] = NoFile
      /\ nodes'[new] = nodes[old] /\ nodes'[old] = NoFile
      /\ \A k \in Keys : k \notin {old, new} => nodes'[k] = nodes[k]
      /\ UNCHANGED <<refs, job, cut>>
      /\ \A q \in Procs : q # p => pc'[q] = pc[q]
  BY <1>0, RenameDoes DEF OthersWait
<1>2. \A q \in Procs : q # p => pc[q] \notin Renamed /\ pc'[q] \notin Renamed
  BY <1>1, Alone
<1>3. pc[p] \notin Renamed /\ pc'[p] \in Renamed /\ pc'[p] \in DocMoving
  BY <1>1 DEF Renamed, DocMoving
<1>4. RefsFollow'
  <2> SUFFICES ASSUME NEW k \in Keys, nodes'[k] # NoFile, nodes'[k].work \notin cut,
                      refs[nodes'[k].work] # NoKey
               PROVE  /\ k # new => refs[nodes'[k].work] = k
                      /\ k = new => refs[nodes'[k].work] = old
    BY <1>1, <1>2, <1>3 DEF RefsFollow, IsStory
  <2>1. \A l \in Keys : IsStory(l) /\ nodes[l].work \notin cut /\ refs[nodes[l].work] # NoKey =>
          refs[nodes[l].work] = l
    BY <1>0, <1>2, <1>3 DEF RefsFollow
  <2>2. CASE k = new
    BY <1>1, <2>1, <2>2
  <2>3. CASE k # new
    BY <1>1, <2>1, <2>3 DEF IsStory
  <2> QED
    BY <2>2, <2>3
<1>5. ASSUME NEW d \in Keys, NEW v \in Works, NEW x \in Keys
      PROVE  IsCalled(d, v, x)' <=> nodes[x].work = v
  <2>0. IsAhead(p, d)'
    BY <1>3 DEF IsAhead
  <2>1. IsCalled(d, v, x)' <=> (nodes'[x].work = v /\ x # new) \/ (nodes'[new].work = v /\ x = old)
    BY <1>1, <1>2, <1>3, <2>0 DEF IsCalled
  <2>2. nodes'[old].work # v /\ nodes[new].work # v
    BY <1>1, NothingTyped, StoryKeysAssumption
  <2> QED
    BY <1>1, <2>1, <2>2
<1>6. DepsFollow'
  <2> SUFFICES ASSUME NEW d \in Keys, nodes'[d] # NoFile, EpicAt(d) \in planned,
                      Needs[nodes'[d].work] \cap cut = {}, NEW x \in Keys
               PROVE  x \in nodes'[d].deps <=> \E v \in Needs[nodes'[d].work] : IsCalled(d, v, x)'
    BY <1>1 DEF DepsFollow, IsStory, EpicAt
  <2>1. PICK c \in Keys : nodes'[d] = nodes[c] /\ IsStory(c) /\ EpicAt(c) \in planned
    BY <1>1 DEF IsStory
  <2>2. x \in nodes[c].deps <=> \E v \in Needs[nodes[c].work] : IsCalled(c, v, x)
    BY <1>0, <2>1 DEF DepsFollow
  <2>3. \A v : IsCalled(c, v, x) <=> nodes[x].work = v
    BY <1>2, <1>3 DEF IsCalled
  <2>4. \A v \in Needs[nodes[c].work] : v \in Works
    BY <2>1, NoStoryNoWork, NeedsAreStories
  <2> QED
    BY <1>5, <2>1, <2>2, <2>3, <2>4
<1>7. ASSUME NEW q \in Procs PROVE WalkKnown(q)'
  BY <1>1, <1>2 DEF WalkKnown, Renamed
<1> QED
  BY <1>4, <1>6, <1>7

LEMMA WalkSaveRefs ==
  ASSUME MovesToOneEpic, RefInv, NEW p \in Procs, WalkSave(p)
  PROVE  RefsFollow' /\ DepsFollow' /\ \A q \in Procs : WalkKnown(q)'
<1> DEFINE old == job[p].old
           new == job[p].new
           at == job[p].at
<1>0. IInv /\ StandInv /\ DocInv /\ RefsFollow /\ DepsFollow
  BY DEF RefInv, DocInv, PlaceInv, StandInv
<1>1. /\ pc[p] = "walksave" /\ pc'[p] = "walk" /\ at \in Keys
      /\ job[p].bucket = Bucket(at) =>
           /\ nodes'[at].deps = Repointed(p) /\ nodes'[at].work = job[p].node.work
           /\ nodes'[at] # NoFile
      /\ job[p].bucket # Bucket(at) => nodes'[at] = nodes[at]
      /\ \A k \in Keys : k # at => nodes'[k] = nodes[k]
      /\ job'[p].old = old /\ job'[p].new = new /\ job'[p].left = job[p].left
      /\ UNCHANGED <<refs, planned, cut>>
      /\ \A q \in Procs : q # p => pc'[q] = pc[q]
  BY <1>0, WalkSaveDoes DEF OthersWait
<1>2. \A q \in Procs : q # p => pc[q] \notin Renamed /\ pc'[q] \notin Renamed
  BY <1>1, Alone DEF Renamed
<1>3. pc[p] \in Renamed /\ pc'[p] \in Renamed /\ pc[p] \notin DocMoving /\ pc'[p] \notin DocMoving
  BY <1>1 DEF Renamed, DocMoving
<1>4. /\ old \in Keys /\ new \in Keys /\ old # new /\ nodes[old] = NoFile
      /\ nodes[at].work = job[p].node.work /\ nodes[at].deps # {}
      /\ at \notin job[p].left /\ job[p].node.deps = nodes[at].deps
  BY <1>0, <1>1, <1>3, MoverDocs DEF StandInv, Stands, RefInv, WalkKnown
<1>5. IsStory(at)
  BY <1>4, NothingTyped DEF IsStory
<1>6. \A k \in Keys : nodes'[k].work = nodes[k].work /\ (nodes'[k] # NoFile <=> IsStory(k))
  BY <1>1, <1>4, <1>5 DEF IsStory
<1>7. RefsFollow'
  BY <1>0, <1>1, <1>2, <1>3, <1>6 DEF RefsFollow, IsStory
<1>8. ASSUME NEW d \in Keys
      PROVE  /\ IsAhead(p, d) <=> d \in job[p].left \cup {at}
             /\ IsAhead(p, d)' <=> d \in job[p].left
  BY <1>1, <1>3 DEF IsAhead
<1>9. ASSUME NEW d \in Keys, NEW v, NEW x \in Keys
      PROVE  /\ IsCalled(d, v, x) <=>
                  \/ nodes[x].work = v /\ (x = new => d \notin job[p].left \cup {at})
                  \/ d \in job[p].left \cup {at} /\ nodes[new].work = v /\ x = old
             /\ IsCalled(d, v, x)' <=>
                  \/ nodes[x].work = v /\ (x = new => d \notin job[p].left)
                  \/ d \in job[p].left /\ nodes[new].work = v /\ x = old
  BY <1>1, <1>2, <1>3, <1>4, <1>6, <1>8 DEF IsCalled
<1>10. DepsFollow'
  <2> SUFFICES ASSUME NEW d \in Keys, IsStory(d), EpicAt(d) \in planned,
                      Needs[nodes[d].work] \cap cut = {}, NEW x \in Keys
               PROVE  x \in nodes'[d].deps <=> \E v \in Needs[nodes[d].work] : IsCalled(d, v, x)'
    BY <1>1, <1>6 DEF DepsFollow, IsStory, EpicAt
  <2>1. \A y \in Keys : y \in nodes[d].deps <=> \E v \in Needs[nodes[d].work] : IsCalled(d, v, y)
    BY <1>0 DEF DepsFollow
  <2>2. \A v \in Needs[nodes[d].work] : v \in Works /\ nodes[old].work # v
    <3>1. nodes[d].work \in Works /\ nodes[old].work \notin Works
      BY <1>4, NoStoryNoWork
    <3> QED
      BY <3>1, NeedsAreStories
  <2>3. CASE d # at
    BY <1>1, <1>9, <2>1, <2>3
  <2>4. CASE d = at
    <3>1. job[p].bucket = Bucket(at)
      <4>1. InWalk(p)
        BY <1>0, <1>1 DEF IInv, Hand
      <4> QED
        BY <2>4, <4>1 DEF InWalk, Bucket
    <3>2. nodes'[at].deps = {IF key = old THEN new ELSE key : key \in nodes[at].deps}
      BY <1>1, <1>4, <3>1 DEF Repointed
    <3>3. \A v : IsCalled(d, v, x)' <=> nodes[x].work = v
      BY <1>4, <1>9, <2>4
    <3>4. \A y \in Keys : y \in nodes[at].deps <=>
            \E v \in Needs[nodes[at].work] :
              (nodes[y].work = v /\ y # new) \/ (nodes[new].work = v /\ y = old)
      BY <1>4, <1>9, <2>1, <2>4
    <3>5. x \in nodes'[at].deps <=>
            (x = new /\ old \in nodes[at].deps) \/ (x # old /\ x \in nodes[at].deps)
      <4>1. new \notin nodes[at].deps
        BY <1>4, <3>4
      <4> QED
        BY <1>4, <3>2, <4>1
    <3>6. x \in nodes'[at].deps <=> \E v \in Needs[nodes[at].work] : nodes[x].work = v
      <4>1. CASE x = new
        BY <1>4, <2>2, <2>4, <3>4, <3>5, <4>1
      <4>2. CASE x = old
        BY <1>4, <2>2, <2>4, <3>5, <4>2
      <4>3. CASE x # new /\ x # old
        BY <3>4, <3>5, <4>3
      <4> QED
        BY <4>1, <4>2, <4>3
    <3> QED
      BY <2>4, <3>3, <3>6
  <2> QED
    BY <2>3, <2>4
<1>11. ASSUME NEW q \in Procs PROVE WalkKnown(q)'
  BY <1>1, <1>2 DEF WalkKnown, Renamed
<1> QED
  BY <1>7, <1>10, <1>11

LEMMA RepointedRefs ==
  ASSUME MovesToOneEpic, RefInv, NEW p \in Procs, Repoint(p)
  PROVE  RefsFollow' /\ DepsFollow' /\ \A q \in Procs : WalkKnown(q)'
<1> DEFINE old == job[p].old
           new == job[p].new
<1>0. IInv /\ StandInv /\ DocInv /\ RefsFollow /\ DepsFollow
  BY DEF RefInv, DocInv, PlaceInv, StandInv
<1>1. /\ pc[p] = "walk" /\ pc'[p] = "idle" /\ refs' = RepointRefs(p) /\ ToRewrite(p) = {}
      /\ UNCHANGED <<nodes, planned, cut>> /\ OthersWait(p)
  BY <1>0, LeaveDoes DEF Repoint
<1>2. \A q \in Procs : (q # p => pc[q] \notin Renamed) /\ pc'[q] \notin Renamed
  BY <1>1, Alone DEF OthersWait, Renamed
<1>3. pc[p] \in Renamed /\ pc[p] \notin DocMoving
  BY <1>1 DEF Renamed, DocMoving
<1>4. old \in Keys /\ new \in Keys /\ old # new /\ nodes[old] = NoFile
  BY <1>0, <1>3, MoverDocs
<1>5. RefsFollow'
  <2> SUFFICES ASSUME NEW k \in Keys, IsStory(k), nodes[k].work \notin cut,
                      refs'[nodes[k].work] # NoKey
               PROVE  refs'[nodes[k].work] = k
    BY <1>1, <1>2 DEF RefsFollow, IsStory
  <2>1. nodes[k].work \in Works
    BY NoStoryNoWork
  <2>2. refs'[nodes[k].work] = IF refs[nodes[k].work] = old THEN new ELSE refs[nodes[k].work]
    BY <1>1, <2>1 DEF RepointRefs
  <2>3. refs[nodes[k].work] # NoKey
    BY <1>4, <2>2, StoryKeysAssumption
  <2>4. CASE k = new
    BY <1>0, <1>3, <2>2, <2>3, <2>4 DEF RefsFollow
  <2>5. CASE k # new
    <3>1. refs[nodes[k].work] = k
      BY <1>0, <1>2, <2>3, <2>5 DEF RefsFollow
    <3> QED
      BY <1>4, <2>2, <3>1 DEF IsStory
  <2> QED
    BY <2>4, <2>5
<1>6. DepsFollow'
  <2> SUFFICES ASSUME NEW d \in Keys, IsStory(d), EpicAt(d) \in planned,
                      Needs[nodes[d].work] \cap cut = {}, NEW x \in Keys
               PROVE  x \in nodes[d].deps <=> \E v \in Needs[nodes[d].work] : IsCalled(d, v, x)'
    BY <1>1 DEF DepsFollow, IsStory, EpicAt
  <2>1. \A y \in Keys : y \in nodes[d].deps <=> \E v \in Needs[nodes[d].work] : IsCalled(d, v, y)
    BY <1>0 DEF DepsFollow
  <2>2. \A v \in Needs[nodes[d].work] : v \in Works /\ nodes[old].work # v
    <3>1. nodes[d].work \in Works /\ nodes[old].work \notin Works
      BY <1>4, NoStoryNoWork
    <3> QED
      BY <3>1, NeedsAreStories
  <2>3. IsAhead(p, d) <=> d \in job[p].left
    BY <1>1, <1>3 DEF IsAhead
  <2>4. ASSUME NEW v, NEW y \in Keys
        PROVE  /\ IsCalled(d, v, y) <=>
                    \/ nodes[y].work = v /\ (y = new => d \notin job[p].left)
                    \/ d \in job[p].left /\ nodes[new].work = v /\ y = old
               /\ IsCalled(d, v, y)' <=> nodes[y].work = v
    BY <1>1, <1>2, <1>3, <2>3 DEF IsCalled
  <2>5. CASE d \notin job[p].left
    BY <2>1, <2>4, <2>5
  <2>6. CASE d \in job[p].left
    <3>1. old \notin nodes[d].deps
      BY <1>1, <2>6 DEF ToRewrite
    <3>2. \A v \in Needs[nodes[d].work] : nodes[new].work # v
      BY <1>4, <2>1, <2>4, <2>6, <3>1
    <3> QED
      BY <2>1, <2>4, <3>2
  <2> QED
    BY <2>5, <2>6
<1>7. ASSUME NEW q \in Procs PROVE WalkKnown(q)'
  BY <1>1, <1>2 DEF WalkKnown, Renamed
<1> QED
  BY <1>5, <1>6, <1>7

\* What a re-parent leaves behind is told apart by `cut`.
LEMMA CrashRefs ==
  ASSUME MovesToOneEpic, RefInv, NEW p \in Procs, Crash(p), pc[p] \in Renamed
  PROVE  RefsFollow' /\ DepsFollow' /\ \A q \in Procs : WalkKnown(q)'
<1> DEFINE old == job[p].old
           new == job[p].new
<1>0. IInv /\ StandInv /\ DocInv /\ RefsFollow /\ DepsFollow
  BY DEF RefInv, DocInv, PlaceInv, StandInv
<1>1. /\ pc'[p] = "idle" /\ OthersWait(p) /\ UNCHANGED <<nodes, refs, planned>>
      /\ cut' = cut \cup {nodes[new].work}
  BY <1>0, LeaveDoes DEF Crash, HalfDone, Renamed, tree
<1>2. \A q \in Procs : (q # p => pc[q] \notin Renamed) /\ pc'[q] \notin Renamed
  BY <1>1, Alone DEF OthersWait, Renamed
<1>3. RefsFollow'
  BY <1>0, <1>1, <1>2 DEF RefsFollow, IsStory
<1>4. DepsFollow'
  <2> SUFFICES ASSUME NEW d \in Keys, IsStory(d), EpicAt(d) \in planned,
                      Needs[nodes[d].work] \cap cut' = {}, NEW x \in Keys
               PROVE  x \in nodes[d].deps <=> \E v \in Needs[nodes[d].work] : IsCalled(d, v, x)'
    BY <1>1 DEF DepsFollow, IsStory, EpicAt
  <2>1. x \in nodes[d].deps <=> \E v \in Needs[nodes[d].work] : IsCalled(d, v, x)
    BY <1>0, <1>1 DEF DepsFollow
  <2>2. \A v \in Needs[nodes[d].work] : nodes[new].work # v
    BY <1>1
  <2>3. ASSUME NEW v, nodes[new].work # v
        PROVE  (IsCalled(d, v, x) <=> nodes[x].work = v) /\ (IsCalled(d, v, x)' <=> nodes[x].work = v)
    BY <1>1, <1>2, <2>3 DEF IsCalled
  <2> QED
    BY <2>1, <2>2, <2>3
<1>5. ASSUME NEW q \in Procs PROVE WalkKnown(q)'
  BY <1>1, <1>2 DEF WalkKnown, Renamed
<1> QED
  BY <1>3, <1>4, <1>5

LEMMA NewNodeRefs ==
  ASSUME FindingsNeedNothing, RefInv, NEW p \in Procs, NewNode(p)
  PROVE  RefsFollow' /\ DepsFollow' /\ \A q \in Procs : WalkKnown(q)'
<1> DEFINE new == job[p].new
           g == job[p].node.work
<1>0. IInv /\ StandInv /\ DocInv /\ RefsFollow /\ DepsFollow
  BY DEF RefInv, DocInv, PlaceInv, StandInv
<1>1. /\ pc[p] = "newnode" /\ pc'[p] = "newdoc" /\ new \in Keys /\ g \in Works
      /\ nodes[new] = NoFile /\ nodes'[new] = Born(g, new)
      /\ \A k \in Keys : k # new => nodes'[k] = nodes[k]
      /\ UNCHANGED <<refs, planned, job, cut>> /\ OthersWait(p)
  BY <1>0, NewNodeDoes
<1>2. g \in Findings /\ refs[g] = NoKey
  BY <1>1 DEF RefInv, ItemIsOpen
<1>3. \A q \in Procs : (pc'[q] \in Renamed <=> pc[q] \in Renamed) /\ (pc[q] \in Renamed => pc'[q] = pc[q])
  BY <1>1 DEF OthersWait, Renamed
<1>4. nodes'[new].work = g /\ nodes'[new].deps = {} /\ nodes'[new] # NoFile
  BY <1>1, BornFile
<1>5. \A q \in Procs : pc[q] \in Renamed => job[q].new \in Keys /\ job[q].new # new
  BY <1>0, <1>1, MoverDocs
<1>6. RefsFollow'
  <2> SUFFICES ASSUME NEW k \in Keys, nodes'[k] # NoFile, nodes'[k].work \notin cut,
                      refs[nodes'[k].work] # NoKey
               PROVE  /\ (\A q \in Procs : pc[q] \in Renamed => job[q].new # k) =>
                           refs[nodes'[k].work] = k
                      /\ \A q \in Procs : pc[q] \in Renamed /\ job[q].new = k =>
                           refs[nodes'[k].work] = job[q].old
    BY <1>1, <1>3 DEF RefsFollow, IsStory
  <2>1. k # new /\ nodes'[k] = nodes[k]
    BY <1>1, <1>2, <1>4
  <2> QED
    BY <1>0, <2>1 DEF RefsFollow, IsStory
<1>7. DepsFollow'
  <2> SUFFICES ASSUME NEW d \in Keys, nodes'[d] # NoFile, EpicAt(d) \in planned,
                      Needs[nodes'[d].work] \cap cut = {}, NEW x \in Keys
               PROVE  x \in nodes'[d].deps <=> \E v \in Needs[nodes'[d].work] : IsCalled(d, v, x)'
    BY <1>1 DEF DepsFollow, IsStory, EpicAt
  <2>1. CASE d = new
    BY <1>2, <1>4, <2>1 DEF FindingsNeedNothing
  <2>2. CASE d # new
    <3>1. nodes'[d] = nodes[d] /\ IsStory(d)
      BY <1>1, <2>2 DEF IsStory
    <3>2. x \in nodes[d].deps <=> \E v \in Needs[nodes[d].work] : IsCalled(d, v, x)
      BY <1>0, <3>1 DEF DepsFollow
    <3>3. \A v \in Needs[nodes[d].work] : v # g /\ v # NoWork
      <4>1. nodes[d].work \in Works
        BY <3>1, NoStoryNoWork
      <4> QED
        BY <1>2, <4>1, NeedsAreStories
    <3>4. ASSUME NEW v \in Needs[nodes[d].work] PROVE IsCalled(d, v, x)' <=> IsCalled(d, v, x)
      <4>1. nodes'[x].work = v <=> nodes[x].work = v
        BY <1>1, <1>4, <3>3, NothingTyped
      <4>2. \A q \in Procs : pc[q] \in Renamed => (IsAhead(q, d)' <=> IsAhead(q, d))
        BY <1>1, <1>3 DEF IsAhead
      <4>3. \A q \in Procs : pc[q] \in Renamed => nodes'[job[q].new] = nodes[job[q].new]
        BY <1>1, <1>5
      <4> QED
        BY <1>1, <1>3, <4>1, <4>2, <4>3 DEF IsCalled
    <3> QED
      BY <3>1, <3>2, <3>4
  <2> QED
    BY <2>1, <2>2
<1>8. ASSUME NEW q \in Procs PROVE WalkKnown(q)'
  <2>1. CASE q = p
    BY <1>1, <2>1 DEF WalkKnown
  <2>2. CASE q # p
    <3>1. pc[q] = "walksave" => job[q].at \in Keys /\ nodes[job[q].at].deps # {}
      BY <1>0 DEF IInv, Hand, InWalk, StandInv, Stands
    <3>2. pc[q] = "walksave" => nodes'[job[q].at] = nodes[job[q].at]
      BY <1>1, <3>1, NothingTyped
    <3>3. pc'[q] = pc[q] /\ WalkKnown(q)
      BY <1>1, <2>2 DEF OthersWait, RefInv
    <3> QED
      BY <1>1, <3>2, <3>3 DEF WalkKnown
  <2> QED
    BY <2>1, <2>2
<1> QED
  BY <1>6, <1>7, <1>8

LEMMA NextRefs ==
  ASSUME OneEpicReceives, RefInv, [Next]_vars
  PROVE  RefInv'
<1>0. IInv /\ StandInv /\ DocInv /\ RefsFollow /\ DepsFollow
  BY DEF RefInv, DocInv, PlaceInv, StandInv
<1>1. StoriesMoveApart /\ MovesToOneEpic /\ FindingsNeedNothing
  BY DEF OneEpicReceives, StoriesMoveApart
<1>2. DocInv' /\ StandInv'
  <2>1. DocInv'
    BY <1>0, <1>1, NextDocs
  <2> QED
    BY <2>1 DEF DocInv, PlaceInv
<1>3. CASE Next
  <2>1. PICK p \in Procs : Reparent(p) \/ Promote(p) \/ Activate(p) \/ SprintLoad(p)
                           \/ SprintSave(p) \/ Crash(p)
    BY <1>3 DEF Next
  <2>2. /\ \A q \in Procs : ItemIsOpen(q)'
        /\ cut \subseteq cut' /\ planned' \subseteq planned
    BY <1>0, <2>1, ItemsStayOpen, PromotionTurns
  <2>3. CASE Calm(p)
    BY <1>2, <2>2, <2>3, CalmRefs DEF RefInv
  <2>4. CASE Rename(p) \/ WalkSave(p) \/ Repoint(p) \/ NewNode(p) \/ (Crash(p) /\ pc[p] \in Renamed)
    <3>1. RefsFollow' /\ DepsFollow' /\ \A q \in Procs : WalkKnown(q)'
      <4>1. Rename(p) => planned' = planned
        BY <1>0, RenameDoes
      <4> QED
        BY <1>1, <2>4, <4>1, RenameRefs, WalkSaveRefs, RepointedRefs, CrashRefs, NewNodeRefs
    <3>2. ASSUME NEW k \in Keys PROVE issued[k] \subseteq issued'[k]
      <4>1. CASE Rename(p)
        <5>1. job[p].new \in Keys /\ issued[job[p].new] = {}
              /\ \A l \in Keys : l # job[p].new => issued'[l] = issued[l]
          BY <1>0, <4>1, RenameDoes
        <5> QED
          BY <5>1
      <4>2. CASE NewNode(p)
        <5>1. issued[job[p].new] = {} /\ \A l \in Keys : l # job[p].new => issued'[l] = issued[l]
          BY <1>0, <4>2, NewNodeDoes
        <5> QED
          BY <5>1
      <4>3. CASE WalkSave(p) \/ Repoint(p) \/ Crash(p)
        BY <4>3 DEF WalkSave, Repoint, Crash
      <4> QED
        BY <2>4, <4>1, <4>2, <4>3
    <3>3. StoriesAreIssued'
      BY <3>2, StoryKeysAssumption DEF RefInv, StoriesAreIssued
    <3> QED
      BY <1>2, <2>2, <3>1, <3>3 DEF RefInv
  <2> QED
    BY <2>1, <2>3, <2>4 DEF Calm, Reparent, Promote
<1>4. CASE UNCHANGED vars
  <2>1. UNCHANGED <<nodes, refs, planned, pc, job, issued, cut>>
    BY <1>4 DEF vars
  <2>2. RefsFollow' /\ StoriesAreIssued' /\ \A q \in Procs : ItemIsOpen(q)' /\ WalkKnown(q)'
    BY <2>1 DEF RefInv, RefsFollow, StoriesAreIssued, ItemIsOpen, WalkKnown, IsStory
  <2>3. DepsFollow'
    BY <1>0, <2>1 DEF DepsFollow, IsStory, EpicAt, IsCalled, IsAhead
  <2> QED
    BY <1>2, <2>2, <2>3 DEF RefInv
<1> QED
  BY <1>3, <1>4

LEMMA InitRefs == Init => RefInv
<1> SUFFICES ASSUME Init PROVE RefInv
  OBVIOUS
<1>1. DocInv
  BY InitDocs
<1>2. /\ refs = [w \in Works |-> IF w \in Findings THEN NoKey ELSE Placed[w]]
      /\ \A p \in Procs : pc[p] = "idle"
  BY DEF Init
<1>3. ASSUME NEW k \in Keys, nodes[k] # NoFile
      PROVE  /\ nodes[k].work \in Works \ Findings /\ Placed[nodes[k].work] = k
             /\ nodes[k].deps = {Placed[v] : v \in Needs[nodes[k].work]}
  <2>1. PICK w \in Works \ Findings :
          Placed[w] = k /\ nodes[k].work = w /\ nodes[k].deps = {Placed[v] : v \in Needs[w]}
    BY <1>3, FirstStories
  <2> QED
    BY <2>1
<1>4. ASSUME NEW v \in Works \ Findings, NEW x \in Keys
      PROVE  nodes[x].work = v <=> x = Placed[v]
  <2>1. CASE nodes[x] = NoFile
    BY <2>1, FirstStories, NothingTyped, StoryKeysAssumption
  <2>2. CASE nodes[x] # NoFile
    <3>1. nodes[x].work \in Works \ Findings /\ Placed[nodes[x].work] = x
      BY <1>3, <2>2
    <3> QED
      BY <3>1, StoryKeysAssumption
  <2> QED
    BY <2>1, <2>2
<1>5. StoriesAreIssued
  <2>1. \A k \in Keys : issued[k] = {w \in Works \ Findings : Placed[w] = k}
    BY FirstStories
  <2> QED
    BY <2>1, StoryKeysAssumption DEF StoriesAreIssued
<1>6. \A p \in Procs : ItemIsOpen(p) /\ WalkKnown(p)
  BY <1>2 DEF ItemIsOpen, WalkKnown
<1>7. RefsFollow
  BY <1>2, <1>3 DEF RefsFollow, IsStory, Renamed
<1>8. DepsFollow
  <2> SUFFICES ASSUME NEW d \in Keys, nodes[d] # NoFile, NEW x \in Keys
               PROVE  x \in nodes[d].deps <=> \E v \in Needs[nodes[d].work] : IsCalled(d, v, x)
    BY DEF DepsFollow, IsStory
  <2>1. \A v : IsCalled(d, v, x) <=> nodes[x].work = v
    BY <1>2 DEF IsCalled, Renamed
  <2>2. \A v \in Needs[nodes[d].work] : v \in Works \ Findings
    BY <1>3, NeedsAreStories
  <2>3. nodes[d].deps = {Placed[v] : v \in Needs[nodes[d].work]}
    BY <1>3
  <2> HIDE DEF Init
  <2> QED
    BY <1>4, <2>1, <2>2, <2>3
<1> QED
  BY <1>1, <1>5, <1>6, <1>7, <1>8 DEF RefInv

\* A settled story is called by the key it stands at.
LEMMA SettledCalled ==
  ASSUME RefInv, NEW d \in Keys, NEW v \in Works \ Findings, IsSettled(v)
  PROVE  /\ KeyOf(v) \in Keys
         /\ \A x \in Keys : IsCalled(d, v, x) <=> x = KeyOf(v)
<1>0. Standing
  BY DEF RefInv, DocInv, PlaceInv, StandInv
<1>1. \E l \in Keys : nodes[l].work = v
  BY <1>0, StoryKeysAssumption DEF RefInv, StoriesAreIssued, Standing
<1>2. KeyOf(v) \in Keys /\ nodes[KeyOf(v)].work = v
  BY <1>1 DEF KeyOf
<1>3. \A x \in Keys : nodes[x].work = v => x = KeyOf(v)
  <2>1. IsStory(KeyOf(v))
    BY <1>2, NothingTyped, StoryKeysAssumption DEF IsStory
  <2> QED
    BY <1>0, <1>2, <2>1 DEF Standing
<1>4. \A p \in Procs : pc[p] \in Renamed => nodes[job[p].new].work # v
  BY DEF IsSettled, InHand, Renamed
<1>5. \A x \in Keys : IsCalled(d, v, x) <=> nodes[x].work = v
  BY <1>4 DEF IsCalled
<1> QED
  BY <1>2, <1>3, <1>5

\* ReferencesFollow: once a re-parent is over, the planned stories that depend on the
\* story, and the backlog item it came from, name its new key, for any number of
\* processes, whatever is activated, promoted or dies in between, as long as all moves
\* go to sprints of one epic and a promoted finding depends on no story.
THEOREM ReferencesAreRewritten == OneEpicReceives => (Spec => []ReferencesFollow)
<1> SUFFICES ASSUME OneEpicReceives PROVE Spec => []ReferencesFollow
  OBVIOUS
<1>1. RefInv => ReferencesFollow
  <2> SUFFICES ASSUME RefInv, NEW key \in Keys, IsStory(key)
               PROVE  /\ EpicAt(key) \in planned /\ (\A v \in Needs[nodes[key].work] : IsSettled(v)) =>
                           nodes[key].deps = {KeyOf(v) : v \in Needs[nodes[key].work]}
                      /\ IsSettled(nodes[key].work) /\ refs[nodes[key].work] # NoKey =>
                           refs[nodes[key].work] = key
    BY DEF ReferencesFollow
  <2>1. ASSUME EpicAt(key) \in planned, \A v \in Needs[nodes[key].work] : IsSettled(v)
        PROVE  nodes[key].deps = {KeyOf(v) : v \in Needs[nodes[key].work]}
    <3>1. nodes[key].work \in Works /\ nodes[key].deps \subseteq Keys
      BY NoStoryNoWork
    <3>2. \A v \in Needs[nodes[key].work] : v \in Works \ Findings
      BY <3>1, NeedsAreStories
    <3>3. Needs[nodes[key].work] \cap cut = {}
      BY <2>1 DEF IsSettled
    <3>4. \A x \in Keys : x \in nodes[key].deps <=>
            \E v \in Needs[nodes[key].work] : IsCalled(key, v, x)
      BY <2>1, <3>3 DEF RefInv, DepsFollow
    <3>5. \A v \in Needs[nodes[key].work] :
            KeyOf(v) \in Keys /\ \A x \in Keys : IsCalled(key, v, x) <=> x = KeyOf(v)
      BY <2>1, <3>2, SettledCalled
    <3> QED
      BY <3>1, <3>4, <3>5
  <2>2. ASSUME IsSettled(nodes[key].work), refs[nodes[key].work] # NoKey
        PROVE  refs[nodes[key].work] = key
    <3>1. nodes[key].work \notin cut /\ \A p \in Procs : pc[p] \in Renamed => job[p].new # key
      BY <2>2 DEF IsSettled, InHand, Renamed
    <3> QED
      BY <2>2, <3>1 DEF RefInv, RefsFollow
  <2> QED
    BY <2>1, <2>2
<1>2. RefInv /\ [Next]_vars => RefInv'
  BY NextRefs
<1>3. Init => RefInv
  BY InitRefs
<1> QED
  BY <1>1, <1>2, <1>3, PTL DEF Spec

=============================================================================
