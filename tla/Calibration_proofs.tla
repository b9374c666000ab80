-------------------------- MODULE Calibration_proofs --------------------------
(***************************************************************************)
(* Proofs about the story samples.                                         *)
(***************************************************************************)
EXTENDS Calibration, TLAPS, SequenceTheorems, FiniteSetTheorems

-----------------------------------------------------------------------------
(* The invariants.                                                          *)

\* A story has one process that writes its actuals, by one of the two verbs.
CallersAreApart ==
    /\ \A p, q \in Callers : Own[p] \cap Own[q] # {} => p = q
    /\ \A p \in Callers : ~ ("set-actual" \in Verbs[p] /\ "import-actual" \in Verbs[p])

IsStoryCall(p) == job[p].verb \in {"set-actual", "import-actual"}

\* What was read under the lock is what is there, and a call has the node as it is
\* until it has marked it.
HasInHand(p) ==
    /\ job[p].step = "write" => job[p].file = file
    /\ job[p].verb # "none" => job[p].verb \in Verbs[p]
    /\ IsStoryCall(p) => job[p].story \in Own[p]
    /\ IsStoryCall(p) /\ job[p].step \in {"save", "wait", "write", "mark"} =>
         job[p].node = node[job[p].story]

InHand == \A p \in Callers : HasInHand(p)

\* A call samples a story that carries no marker and has its figures.
FindsUnmarked(p) ==
    job[p].verb = "set-actual" =>
      /\ job[p].step \in {"wait", "write", "mark"} =>
           {"actual", "tokens"} \subseteq job[p].node /\ "sampled" \notin job[p].node
      /\ job[p].step = "event" => "sampled" \in node[job[p].story]

Unmarked == \A p \in Callers : FindsUnmarked(p)

Imported(s) == \E p \in Callers : "import-actual" \in Verbs[p] /\ s \in Own[p]

\* What is logged was sampled, or never is by a call.
LoggedAreSampled == \A s \in Range(log) : "sampled" \in node[s] \/ Imported(s)

\* The stories that no call will sample any more.
Counted(s) ==
    \/ "sampled" \in node[s] \/ Imported(s)
    \/ \E p \in Callers : job[p].verb = "set-actual" /\ job[p].step = "mark" /\ job[p].story = s

CountsAreBounded ==
    \A s \in Stories :
        /\ Times(s, file.tokens) <= died + (IF Counted(s) THEN 1 ELSE 0)
        /\ Times(s, file.hours) <= died + (IF Counted(s) THEN 1 ELSE 0)

CallInv == TypeOK /\ InHand /\ Unmarked /\ LoggedAreSampled

New(s) == [story |-> s, old |-> FALSE]

\* What was measured in today's sense is in a file that has been migrated, as far
\* as redrive runs on such a file only.
NewAreMigrated ==
    /\ \A s \in Stories : New(s) \in Range(file.hours) => "reshaped" \in file.markers
    /\ \A s \in Stories : New(s) \in Range(file.tokens) => "rebased" \in file.markers
    /\ \A p \in Callers : job[p].verb = "redrive" => file.markers = {"reshaped", "rebased"}

\* It has its figures on the node.
NewHaveFigures ==
    \A s \in Stories :
        /\ "tokens" \in node[s] => "actual" \in node[s]
        /\ New(s) \in Range(file.hours) => "actual" \in node[s]
        /\ New(s) \in Range(file.tokens) => "tokens" \in node[s] \/ Imported(s)

\* A rebuild has gathered it, and nothing that is not there.
HasGathered(p) ==
    job[p].step = "rebuild" =>
      LET g == job[p].gathered
      IN  \A s \in Stories :
            /\ New(s) \in Range(file.hours) => s \in DOMAIN g
            /\ New(s) \in Range(file.tokens) /\ "tokens" \in node[s] =>
                 s \in DOMAIN g /\ "tokens" \in g[s]
            /\ s \in DOMAIN g => "actual" \in node[s]
            /\ s \in DOMAIN g /\ "tokens" \in g[s] => "tokens" \in node[s] \/ Imported(s)

StayInv == NewAreMigrated /\ NewHaveFigures /\ \A p \in Callers : HasGathered(p)

\* The stories closed under an older version stay as they are, without an event.
OldStandStill ==
    /\ Logged = {}
    /\ \A p \in Callers : Own[p] \cap Old = {}

\* A node that measures in the old sense is one of them, also where it was gathered.
DatedAreOld ==
    /\ \A s \in Stories : "dated" \in node[s] => s \in Old
    /\ Range(log) \cap Old = {}
    /\ \A p \in Callers : job[p].step = "rebuild" =>
         \A s \in DOMAIN job[p].gathered : "dated" \in job[p].gathered[s] => s \in Old

\* Before the migration all hours are in the old sense, and are all that there is.
NothingSetAsideYet ==
    "reshaped" \notin file.markers =>
      /\ file.legacy = <<>>
      /\ \A x \in Range(file.hours) : x.old
      /\ \A s \in Stories : "dated" \in node[s] => s \in StoriesOf(file.hours)

\* Samples in the old sense, and their stories.
OldApart ==
    /\ "reshaped" \in file.markers => \A x \in Range(file.hours) : ~x.old
    /\ "rebased" \in file.markers => \A x \in Range(file.tokens) : ~x.old
    /\ \A x \in Range(file.legacy) : x.old
    /\ "reshaped" \in file.markers =>
         \A s \in Stories : "dated" \in node[s] => s \in StoriesOf(file.legacy)

AgeInv == DatedAreOld /\ NothingSetAsideYet /\ OldApart

-----------------------------------------------------------------------------
(* Samples.                                                                 *)

LEMMA TimesType ==
    ASSUME NEW s, NEW q \in Seq(Sample)
    PROVE  /\ Times(s, q) \in Nat /\ DOMAIN q = 1..Len(q) /\ Len(q) \in Nat
           /\ IsFiniteSet({i \in DOMAIN q : q[i].story = s})
<1>1. DOMAIN q = 1..Len(q) /\ Len(q) \in Nat
    BY LenProperties
<1>2. IsFiniteSet(DOMAIN q)
    BY <1>1, FS_Interval
<1>3. IsFiniteSet({i \in DOMAIN q : q[i].story = s})
    BY <1>2, FS_Subset
<1> QED
    BY <1>1, <1>3, FS_CardinalityType DEF Times

LEMMA TimesOfNone == \A s : Times(s, <<>>) = 0
<1>1. \A s : {i \in DOMAIN << >> : << >>[i].story = s} = {}
    OBVIOUS
<1> QED
    BY <1>1, FS_EmptySet DEF Times

\* An append counts its story, and no other.
LEMMA TimesOfAppend ==
    ASSUME NEW s, NEW q \in Seq(Sample), NEW x \in Sample
    PROVE  /\ Append(q, x) \in Seq(Sample)
           /\ Times(s, Append(q, x)) = Times(s, q) + (IF x.story = s THEN 1 ELSE 0)
<1> DEFINE r == Append(q, x)
           was == {i \in DOMAIN q : q[i].story = s}
           is == {i \in DOMAIN r : r[i].story = s}
<1>1. /\ r \in Seq(Sample) /\ Len(r) = Len(q) + 1 /\ Len(q) \in Nat
      /\ r[Len(q) + 1] = x /\ \A i \in 1..Len(q) : r[i] = q[i]
      /\ DOMAIN r = 1..Len(r) /\ DOMAIN q = 1..Len(q)
    BY AppendProperties, LenProperties
<1>2. IsFiniteSet(was) /\ Cardinality(was) \in Nat /\ Len(q) + 1 \notin was
    <2>1. IsFiniteSet(was)
        BY TimesType
    <2>2. Cardinality(was) \in Nat
        BY <2>1, FS_CardinalityType
    <2>3. Len(q) + 1 \notin DOMAIN q
        BY <1>1
    <2> QED
        BY <2>1, <2>2, <2>3
<1>3. Times(s, q) = Cardinality(was) /\ Times(s, r) = Cardinality(is)
    BY DEF Times
<1> HIDE DEF r
<1>4. CASE x.story = s
    <2>1. is = was \cup {Len(q) + 1}
        BY <1>1, <1>4
    <2> HIDE DEF is, was
    <2>2. Cardinality(is) = Cardinality(was) + 1
        BY <1>2, <2>1, FS_AddElement
    <2> QED
        BY <1>1, <1>3, <1>4, <2>2 DEF r
<1>5. CASE x.story # s
    <2>1. is = was
        BY <1>1, <1>5
    <2> HIDE DEF is, was
    <2> QED
        BY <1>1, <1>2, <1>3, <1>5, <2>1 DEF r
<1> QED
    BY <1>4, <1>5

\* A sequence in an order of some stories counts each of them once.
LEMMA TimesOfOrder ==
    ASSUME NEW set \in SUBSET Stories, NEW o \in Orderings(set), NEW f,
           DOMAIN f = DOMAIN o, \A i \in DOMAIN o : f[i] \in Sample /\ f[i].story = o[i],
           f = [i \in DOMAIN o |-> f[i]]
    PROVE  /\ f \in Seq(Sample) /\ StoriesOf(f) = set
           /\ \A s : Times(s, f) <= 1 /\ (s \notin set => Times(s, f) = 0)
<1> DEFINE n == Cardinality(set)
<1>1. IsFiniteSet(set) /\ n \in Nat
    BY FS_Subset, FS_CardinalityType, CalibrationAssumption
<1>2. o \in [1..n -> set] /\ Range(o) = set /\ DOMAIN o = 1..n
    BY DEF Orderings
<1>3. f \in Seq(Sample)
    BY <1>1, <1>2
<1>4. StoriesOf(f) = set
    BY <1>2 DEF StoriesOf, Range
<1>5. \A i, j \in 1..n : o[i] = o[j] => i = j
    <2>1. o \in Surjection(1..n, set)
        BY <1>2 DEF Surjection, Range
    <2>2. IsFiniteSet(1..n) /\ Cardinality(1..n) = n
        BY <1>1, FS_Interval
    <2>3. o \in Injection(1..n, set)
        BY <2>1, <2>2, FS_Surjection
    <2> QED
        BY <1>2, <2>3 DEF Injection, IsInjective
<1>6. ASSUME NEW s
      PROVE  Times(s, f) <= 1 /\ (s \notin set => Times(s, f) = 0)
    <2> DEFINE at == {i \in DOMAIN f : f[i].story = s}
    <2>1. at = {} \/ \E i \in at : at = {i}
        BY <1>2, <1>5
    <2>2. s \notin set => at = {}
        BY <1>2
    <2>3. Cardinality({}) = 0 /\ \A i : Cardinality({i}) = 1
        BY FS_EmptySet, FS_Singleton
    <2> HIDE DEF at
    <2>4. Cardinality(at) = 0 \/ Cardinality(at) = 1
        BY <2>1, <2>3
    <2>5. s \notin set => Cardinality(at) = 0
        BY <2>2, <2>3
    <2>6. Times(s, f) = Cardinality(at)
        BY DEF Times, at
    <2> QED
        BY <2>4, <2>5, <2>6
<1> QED
    BY <1>3, <1>4, <1>6
-----------------------------------------------------------------------------
(* Types.                                                                   *)

LEMMA FileParts ==
    ASSUME NEW f \in File
    PROVE  /\ f.tokens \in Seq(Sample) /\ f.hours \in Seq(Sample) /\ f.legacy \in Seq(Sample)
           /\ f.markers \subseteq {"reshaped", "rebased"}
<1> HIDE DEF Sample
<1> QED
    BY DEF File

LEMMA MigratedIs ==
    ASSUME NEW f \in File
    PROVE  /\ Migrated(f) \in File /\ Migrated(f).markers = {"reshaped", "rebased"}
           /\ Migrated(f).hours = IF "reshaped" \in f.markers THEN f.hours ELSE <<>>
           /\ Migrated(f).tokens = IF "rebased" \in f.markers THEN f.tokens ELSE <<>>
           /\ Migrated(f).legacy = IF "reshaped" \in f.markers \/ f.hours = <<>>
                                   THEN f.legacy ELSE f.hours
<1>1. <<>> \in Seq(Sample)
    OBVIOUS
<1> HIDE DEF Sample
<1>2. /\ Reshaped(f) \in File /\ Reshaped(f).markers = f.markers \cup {"reshaped"}
      /\ Reshaped(f).tokens = f.tokens
      /\ Reshaped(f).hours = IF "reshaped" \in f.markers THEN f.hours ELSE <<>>
      /\ Reshaped(f).legacy = IF "reshaped" \in f.markers \/ f.hours = <<>>
                              THEN f.legacy ELSE f.hours
    <2>1. CASE "reshaped" \in f.markers
        BY <2>1, FileParts DEF Reshaped
    <2>2. CASE "reshaped" \notin f.markers
        <3> DEFINE l == IF f.hours = <<>> THEN f.legacy ELSE f.hours
                   m == f.markers \cup {"reshaped"}
                   g == [f EXCEPT !.legacy = l, !.hours = <<>>, !.markers = m]
        <3>1. l \in Seq(Sample) /\ m \in SUBSET {"reshaped", "rebased"}
            BY FileParts
        <3>2. Reshaped(f) = g
            BY <2>2 DEF Reshaped
        <3> HIDE DEF l, m
        <3>3. /\ g \in File /\ g.markers = m /\ g.tokens = f.tokens /\ g.hours = <<>>
              /\ g.legacy = l
            BY <1>1, <3>1 DEF File
        <3> HIDE DEF g
        <3> QED
            BY <2>2, <3>2, <3>3 DEF m, l
    <2> QED
        BY <2>1, <2>2
<1>3. ASSUME NEW g \in File
      PROVE  /\ Rebased(g) \in File /\ Rebased(g).markers = g.markers \cup {"rebased"}
             /\ Rebased(g).hours = g.hours /\ Rebased(g).legacy = g.legacy
             /\ Rebased(g).tokens = IF "rebased" \in g.markers THEN g.tokens ELSE <<>>
    <2>1. CASE "rebased" \in g.markers
        BY <2>1, FileParts DEF Rebased
    <2>2. CASE "rebased" \notin g.markers
        <3> DEFINE m == g.markers \cup {"rebased"}
        <3>1. m \in SUBSET {"reshaped", "rebased"}
            BY FileParts
        <3>2. Rebased(g) = [g EXCEPT !.tokens = <<>>, !.markers = m]
            BY <2>2 DEF Rebased
        <3> HIDE DEF m
        <3>3. /\ Rebased(g) \in File /\ Rebased(g).markers = m
              /\ Rebased(g).tokens = <<>> /\ Rebased(g).hours = g.hours
              /\ Rebased(g).legacy = g.legacy
            BY <1>1, <3>1, <3>2 DEF File
        <3> QED
            BY <2>2, <3>3 DEF m
    <2> QED
        BY <2>1, <2>2
<1> QED
    BY <1>2, <1>3, FileParts DEF Migrated

LEMMA AppendedIs ==
    ASSUME NEW f \in File, NEW s \in Stories, NEW n \in Node
    PROVE  /\ Appended(f, s, n) \in File
           /\ Appended(f, s, n).markers = {"reshaped", "rebased"}
           /\ Appended(f, s, n).legacy = Migrated(f).legacy
           /\ Appended(f, s, n).tokens = Append(Migrated(f).tokens, TokensOf(s, n))
           /\ Appended(f, s, n).hours = Append(Migrated(f).hours, HoursOf(s, n))
           /\ TokensOf(s, n) \in Sample /\ HoursOf(s, n) \in Sample
<1>1. TokensOf(s, n) \in Sample /\ HoursOf(s, n) \in Sample
    BY DEF TokensOf, HoursOf, Sample, Node
<1>2. Migrated(f) \in File /\ Migrated(f).markers = {"reshaped", "rebased"}
    BY MigratedIs
<1>3. /\ Append(Migrated(f).tokens, TokensOf(s, n)) \in Seq(Sample)
      /\ Append(Migrated(f).hours, HoursOf(s, n)) \in Seq(Sample)
    BY <1>1, <1>2, TimesOfAppend DEF File
<1> HIDE DEF Sample
<1> QED
    BY <1>1, <1>2, <1>3 DEF Appended, File

LEMMA JobTypes ==
    ASSUME TypeOK, NEW p \in Callers
    PROVE  /\ job[p] \in Jobs /\ job[p].step \in Steps
           /\ job[p].story \in Stories \cup {None} /\ job[p].node \in Node
           /\ job[p].file \in File \cup {None} /\ job[p].gathered \in Gatherings
BY DEF TypeOK, Jobs

LEMMA JobPut ==
    ASSUME TypeOK, NEW p \in Callers, NEW j \in Jobs, job' = [job EXCEPT ![p] = j]
    PROVE  /\ job' \in [Callers -> Jobs] /\ job'[p] = j
           /\ \A q \in Callers : q # p => job'[q] = job[q]
BY DEF TypeOK

\* lock' and the step of p' go together.
LEMMA LockPut ==
    ASSUME TypeOK, NEW p \in Callers, job' \in [Callers -> Jobs],
           \A q \in Callers : q # p => job'[q] = job[q],
           \/ /\ lock' = p /\ lock \in {p, None}
              /\ job'[p].step \in {"write", "rebuild"}
           \/ /\ lock' = lock /\ lock # p
              /\ job'[p].step \notin {"write", "rebuild"}
           \/ /\ lock' = None /\ lock = p
              /\ job'[p].step \notin {"write", "rebuild"}
    PROVE  /\ lock' \in Callers \cup {None}
           /\ \A q \in Callers : lock' = q <=> job'[q].step \in {"write", "rebuild"}
BY CalibrationAssumption DEF TypeOK

LEMMA NoNodes == [t \in {} |-> None] \in Gatherings
<1>1. [t \in {} |-> None] \in [{} -> Node]
    OBVIOUS
<1> QED
    BY <1>1 DEF Gatherings

LEMMA CallIs ==
    ASSUME NEW verb \in {"none", "set-actual", "import-actual", "migrate-metrics", "redrive"},
           NEW step \in Steps, NEW s \in Stories \cup {None}, NEW n \in Node
    PROVE  /\ Call(verb, step, s, n) \in Jobs
           /\ Call(verb, step, s, n).verb = verb /\ Call(verb, step, s, n).step = step
           /\ Call(verb, step, s, n).story = s /\ Call(verb, step, s, n).node = n
<1> HIDE DEF Node, File, Gatherings, Steps
<1> QED
    BY NoNodes DEF Call, Jobs

LEMMA IdleIs ==
    Idle \in Jobs /\ Idle.verb = "none" /\ Idle.step = "none"
BY CallIs DEF Idle, Steps, Node

\* A call goes on, with what it has read.
Going(p, step, n, f, g) ==
    [job[p] EXCEPT !.step = step, !.node = n, !.file = f, !.gathered = g]

LEMMA StepIs ==
    ASSUME TypeOK, NEW p \in Callers, NEW step \in Steps, NEW n \in Node,
           NEW f \in File \cup {None}, NEW g \in Gatherings
    PROVE  /\ Going(p, step, n, f, g) \in Jobs
           /\ Going(p, step, n, f, g).verb = job[p].verb
           /\ Going(p, step, n, f, g).story = job[p].story
           /\ Going(p, step, n, f, g).step = step /\ Going(p, step, n, f, g).node = n
           /\ Going(p, step, n, f, g).file = f /\ Going(p, step, n, f, g).gathered = g
<1> HIDE DEF Node, File, Gatherings, Steps
<1> QED
    BY JobTypes DEF Jobs, Going


-----------------------------------------------------------------------------
(* What each step does.                                                     *)

\* p' goes on alone: the jobs of the others are as they were.
OthersWait(p) == \A q \in Callers : q # p => job'[q] = job[q]

LEMMA LoadStoryIs ==
    ASSUME TypeOK, NEW p \in Callers, NEW verb \in {"set-actual", "import-actual"},
           NEW s \in Stories, LoadStory(p, verb, s)
    PROVE  /\ TypeOK' /\ OthersWait(p) /\ UNCHANGED <<node, file, log, lock, died>>
           /\ job[p] = Idle /\ verb \in Verbs[p] /\ s \in Own[p]
           /\ job'[p].verb = verb /\ job'[p].step = "save"
           /\ job'[p].story = s /\ job'[p].node = node[s]
<1> DEFINE j == Call(verb, "save", s, node[s])
<1>1. /\ j \in Jobs /\ j.verb = verb /\ j.step = "save" /\ j.story = s /\ j.node = node[s]
    BY CallIs DEF TypeOK, Steps
<1>2. /\ UNCHANGED <<node, file, log, lock, died>> /\ job' = [job EXCEPT ![p] = j]
      /\ job[p] = Idle /\ verb \in Verbs[p] /\ s \in Own[p]
    BY DEF LoadStory
<1> HIDE DEF j
<1>3. job' \in [Callers -> Jobs] /\ job'[p] = j /\ OthersWait(p)
    BY <1>1, <1>2, JobPut DEF OthersWait
<1>4. TypeOK'
    <2>1. lock # p
        BY <1>2, IdleIs DEF TypeOK
    <2> QED
        BY <1>1, <1>2, <1>3, <2>1, LockPut DEF TypeOK, OthersWait
<1> QED
    BY <1>1, <1>2, <1>3, <1>4

LEMMA StartOperatorIs ==
    ASSUME TypeOK, NEW p \in Callers, NEW verb \in {"migrate-metrics", "redrive"},
           StartOperator(p, verb)
    PROVE  /\ TypeOK' /\ OthersWait(p) /\ UNCHANGED <<node, file, log, lock, died>>
           /\ job[p] = Idle /\ verb \in Verbs[p]
           /\ verb = "redrive" /\ MigrateFirst => file.markers = {"reshaped", "rebased"}
           /\ job'[p].verb = verb /\ job'[p].step = "wait"
<1> DEFINE j == Call(verb, "wait", None, {})
<1>1. j \in Jobs /\ j.verb = verb /\ j.step = "wait"
    BY CallIs DEF Node, Steps
<1>2. /\ UNCHANGED <<node, file, log, lock, died>> /\ job' = [job EXCEPT ![p] = j]
      /\ job[p] = Idle /\ verb \in Verbs[p]
      /\ verb = "redrive" /\ MigrateFirst => file.markers = {"reshaped", "rebased"}
    BY DEF StartOperator
<1> HIDE DEF j
<1>3. job' \in [Callers -> Jobs] /\ job'[p] = j /\ OthersWait(p)
    BY <1>1, <1>2, JobPut DEF OthersWait
<1>4. TypeOK'
    <2>1. lock # p
        BY <1>2, IdleIs DEF TypeOK
    <2> QED
        BY <1>1, <1>2, <1>3, <2>1, LockPut DEF TypeOK, OthersWait
<1> QED
    BY <1>1, <1>2, <1>3, <1>4

LEMMA SaveActualIs ==
    ASSUME TypeOK, InHand, NEW p \in Callers, SaveActual(p)
    PROVE  LET s == job[p].story
           IN  /\ TypeOK' /\ OthersWait(p) /\ UNCHANGED <<file, log, lock, died>>
               /\ IsStoryCall(p) /\ job[p].step = "save" /\ s \in Stories /\ s \in Own[p]
               /\ job[p].verb \in Verbs[p]
               /\ \A t \in Stories : t # s => node'[t] = node[t]
               /\ "actual" \in node'[s] /\ ("tokens" \in node'[s] <=> job[p].verb = "set-actual")
               /\ "sampled" \in node'[s] <=> "sampled" \in node[s]
               /\ "dated" \notin node'[s]
               /\ job'[p].verb = job[p].verb /\ job'[p].story = s /\ job'[p].node = node'[s]
               /\ job'[p].step = IF job[p].verb = "import-actual" \/ "sampled" \in node[s]
                                 THEN "event" ELSE "wait"
<1> DEFINE s == job[p].story
           n == (node[s] \cap {"sampled"}) \cup
                  (IF job[p].verb = "set-actual" THEN {"actual", "tokens"} ELSE {"actual"})
           step == IF job[p].verb = "import-actual" \/ "sampled" \in node[s]
                   THEN "event" ELSE "wait"
           j == Going(p, step, n, job[p].file, job[p].gathered)
<1>1. /\ job[p].step = "save" /\ IsStoryCall(p) /\ s \in Own[p] /\ job[p].node = node[s]
      /\ UNCHANGED <<file, log, lock, died>> /\ job[p].verb \in Verbs[p]
    BY DEF SaveActual, At, IsStoryCall, InHand, HasInHand
<1>2. s \in Stories /\ node[s] \in Node
    BY <1>1, CalibrationAssumption DEF TypeOK
<1>3. n \in Node /\ ("sampled" \in n <=> "sampled" \in node[s]) /\ "actual" \in n /\ "dated" \notin n
      /\ ("tokens" \in n <=> job[p].verb = "set-actual")
    BY <1>2 DEF Node
<1>4. node' = [node EXCEPT ![s] = n]
    BY <1>1 DEF SaveActual
<1>5. job' = [job EXCEPT ![p] = [job[p] EXCEPT !.node = n, !.step = step]]
    BY <1>1, <1>3 DEF SaveActual, AlreadySampled
<1> HIDE DEF n
<1>6. step \in Steps
    BY DEF Steps
<1> HIDE DEF step
<1>7. [job[p] EXCEPT !.node = n, !.step = step] = j
    BY JobTypes DEF Jobs, Going
<1>8. /\ j \in Jobs /\ j.verb = job[p].verb /\ j.story = s /\ j.step = step /\ j.node = n
    <2>1. job[p].file \in File \cup {None} /\ job[p].gathered \in Gatherings
        BY JobTypes
    <2> QED
        BY <1>3, <1>6, <2>1, StepIs
<1> HIDE DEF j
<1>9. job' \in [Callers -> Jobs] /\ job'[p] = j /\ OthersWait(p)
    BY <1>5, <1>7, <1>8, JobPut DEF OthersWait
<1>10. TypeOK'
    <2>1. lock # p /\ step \notin {"write", "rebuild"}
        BY <1>1 DEF TypeOK, step
    <2>2. node' \in [Stories -> Node]
        BY <1>2, <1>3, <1>4 DEF TypeOK
    <2> QED
        BY <1>1, <1>8, <1>9, <2>1, <2>2, LockPut DEF TypeOK, OthersWait
<1>11. node'[s] = n /\ \A t \in Stories : t # s => node'[t] = node[t]
    BY <1>2, <1>4 DEF TypeOK
<1> QED
    BY <1>1, <1>2, <1>3, <1>8, <1>9, <1>10, <1>11 DEF step

LEMMA LockIs ==
    ASSUME TypeOK, NEW p \in Callers, Lock(p)
    PROVE  /\ TypeOK' /\ OthersWait(p) /\ UNCHANGED <<node, file, log, died>>
           /\ job[p].verb \in {"set-actual", "migrate-metrics"} /\ job[p].step = "wait"
           /\ job'[p].verb = job[p].verb /\ job'[p].story = job[p].story
           /\ job'[p].node = job[p].node /\ job'[p].step = "write" /\ job'[p].file = file
<1> DEFINE j == Going(p, "write", job[p].node, file, job[p].gathered)
<1>1. /\ job[p].verb \in {"set-actual", "migrate-metrics"} /\ job[p].step = "wait"
      /\ lock = None /\ lock' = p /\ UNCHANGED <<node, file, log, died>>
      /\ job' = [job EXCEPT ![p] = [job[p] EXCEPT !.file = file, !.step = "write"]]
    BY DEF Lock, At, LockFree
<1>2. [job[p] EXCEPT !.file = file, !.step = "write"] = j
    BY JobTypes DEF Jobs, Going
<1>3. /\ j \in Jobs /\ j.verb = job[p].verb /\ j.story = job[p].story /\ j.step = "write"
      /\ j.node = job[p].node /\ j.file = file
    BY JobTypes, StepIs DEF TypeOK, Steps
<1> HIDE DEF j
<1>4. job' \in [Callers -> Jobs] /\ job'[p] = j /\ OthersWait(p)
    BY <1>1, <1>2, <1>3, JobPut DEF OthersWait
<1>5. TypeOK'
    BY <1>1, <1>3, <1>4, LockPut DEF TypeOK, OthersWait
<1> QED
    BY <1>1, <1>3, <1>4, <1>5
LEMMA AppendSampleIs ==
    ASSUME TypeOK, InHand, NEW p \in Callers, AppendSample(p)
    PROVE  LET s == job[p].story
               n == job[p].node
           IN  /\ TypeOK' /\ OthersWait(p) /\ UNCHANGED <<node, log, died>>
               /\ job[p].verb = "set-actual" /\ job[p].step = "write" /\ lock = p
               /\ s \in Stories /\ s \in Own[p] /\ "set-actual" \in Verbs[p] /\ n = node[s]
               /\ file'.markers = {"reshaped", "rebased"} /\ file'.legacy = Migrated(file).legacy
               /\ file'.tokens = Append(Migrated(file).tokens, TokensOf(s, n))
               /\ file'.hours = Append(Migrated(file).hours, HoursOf(s, n))
               /\ job'[p].verb = "set-actual" /\ job'[p].story = s /\ job'[p].node = n
               /\ job'[p].step = "mark"
<1> DEFINE s == job[p].story
           n == job[p].node
           j == Going(p, "mark", n, None, job[p].gathered)
<1>1. /\ job[p].verb = "set-actual" /\ job[p].step = "write" /\ job[p].file = file
      /\ s \in Own[p] /\ "set-actual" \in Verbs[p] /\ n = node[s]
      /\ file' = Appended(file, s, n) /\ lock' = None /\ UNCHANGED <<node, log, died>>
      /\ job' = [job EXCEPT ![p] = [job[p] EXCEPT !.file = None, !.step = "mark"]]
    BY DEF AppendSample, At, InHand, HasInHand, IsStoryCall
<1>2. s \in Stories /\ n \in Node /\ file \in File
    BY <1>1, JobTypes, CalibrationAssumption DEF TypeOK
<1>3. [job[p] EXCEPT !.file = None, !.step = "mark"] = j
    BY JobTypes DEF Jobs, Going
<1>4. /\ j \in Jobs /\ j.verb = "set-actual" /\ j.story = s /\ j.step = "mark" /\ j.node = n
    BY <1>1, <1>2, JobTypes, StepIs DEF Steps
<1> HIDE DEF j
<1>5. job' \in [Callers -> Jobs] /\ job'[p] = j /\ OthersWait(p)
    BY <1>1, <1>3, <1>4, JobPut DEF OthersWait
<1>6. lock = p
    BY <1>1 DEF TypeOK
<1>7. TypeOK'
    <2>1. file' \in File
        BY <1>1, <1>2, AppendedIs
    <2> QED
        BY <1>1, <1>4, <1>5, <1>6, <2>1, LockPut DEF TypeOK, OthersWait
<1> HIDE DEF s, n
<1>8. /\ file'.markers = {"reshaped", "rebased"} /\ file'.legacy = Migrated(file).legacy
      /\ file'.tokens = Append(Migrated(file).tokens, TokensOf(s, n))
      /\ file'.hours = Append(Migrated(file).hours, HoursOf(s, n))
    BY <1>1, <1>2, AppendedIs
<1> QED
    BY <1>1, <1>2, <1>4, <1>5, <1>6, <1>7, <1>8 DEF s, n

LEMMA MarkSampledIs ==
    ASSUME TypeOK, InHand, NEW p \in Callers, MarkSampled(p)
    PROVE  LET s == job[p].story
           IN  /\ TypeOK' /\ OthersWait(p) /\ UNCHANGED <<file, log, lock, died>>
               /\ job[p].verb = "set-actual" /\ job[p].step = "mark"
               /\ s \in Stories /\ s \in Own[p]
               /\ \A t \in Stories : t # s => node'[t] = node[t]
               /\ node'[s] = node[s] \cup {"sampled"}
               /\ job'[p].verb = "set-actual" /\ job'[p].story = s /\ job'[p].step = "event"
<1> DEFINE s == job[p].story
           j == Going(p, "event", job[p].node, job[p].file, job[p].gathered)
<1>1. /\ job[p].verb = "set-actual" /\ job[p].step = "mark" /\ s \in Own[p]
      /\ job[p].node = node[s] /\ UNCHANGED <<file, log, lock, died>>
      /\ node' = [node EXCEPT ![s] = node[s] \cup {"sampled"}]
      /\ job' = [job EXCEPT ![p] = [job[p] EXCEPT !.step = "event"]]
    BY DEF MarkSampled, At, InHand, HasInHand, IsStoryCall, Goto
<1>2. s \in Stories /\ node[s] \cup {"sampled"} \in Node
    BY <1>1, CalibrationAssumption DEF TypeOK, Node
<1>3. [job[p] EXCEPT !.step = "event"] = j
    BY JobTypes DEF Jobs, Going
<1>4. /\ j \in Jobs /\ j.verb = "set-actual" /\ j.story = s /\ j.step = "event"
    <2>1. "event" \in Steps
        BY DEF Steps
    <2>2. /\ job[p].node \in Node /\ job[p].file \in File \cup {None}
          /\ job[p].gathered \in Gatherings
        BY JobTypes
    <2>3. /\ j \in Jobs /\ j.verb = job[p].verb /\ j.story = job[p].story
          /\ j.step = "event" /\ j.gathered = job[p].gathered
        BY <2>1, <2>2, StepIs
    <2> QED
        BY <1>1, <2>3
<1> HIDE DEF j
<1>5. job' \in [Callers -> Jobs] /\ job'[p] = j /\ OthersWait(p)
    BY <1>1, <1>3, <1>4, JobPut DEF OthersWait
<1>6. node' \in [Stories -> Node]
    BY <1>1, <1>2 DEF TypeOK
<1>7. TypeOK'
    <2>1. lock # p
        BY <1>1 DEF TypeOK
    <2> QED
        BY <1>1, <1>4, <1>5, <1>6, <2>1, LockPut DEF TypeOK, OthersWait
<1>8. node'[s] = node[s] \cup {"sampled"} /\ \A t \in Stories : t # s => node'[t] = node[t]
    BY <1>1, <1>2 DEF TypeOK
<1> QED
    BY <1>1, <1>2, <1>4, <1>5, <1>7, <1>8

\* A call ends.
LEMMA DoneIs ==
    ASSUME TypeOK, NEW p \in Callers, Done(p)
    PROVE  /\ job' \in [Callers -> Jobs] /\ job'[p] = Idle /\ OthersWait(p)
           /\ job'[p].verb = "none" /\ job'[p].step = "none"
BY IdleIs, JobPut DEF Done, OthersWait

LEMMA AppendEventIs ==
    ASSUME TypeOK, InHand, NEW p \in Callers, AppendEvent(p)
    PROVE  LET s == job[p].story
           IN  /\ TypeOK' /\ OthersWait(p) /\ UNCHANGED <<node, file, lock, died>>
               /\ IsStoryCall(p) /\ job[p].step = "event" /\ s \in Stories
               /\ s \in Own[p] /\ job[p].verb \in Verbs[p]
               /\ Range(log') = Range(log) \cup {s}
               /\ job'[p].verb = "none" /\ job'[p].step = "none"
<1> DEFINE s == job[p].story
<1>1. /\ IsStoryCall(p) /\ job[p].step = "event" /\ s \in Own[p] /\ job[p].verb \in Verbs[p]
      /\ log' = Append(log, s) /\ UNCHANGED <<node, file, lock, died>> /\ Done(p)
    BY DEF AppendEvent, At, InHand, HasInHand, IsStoryCall
<1>2. s \in Stories
    BY <1>1, CalibrationAssumption
<1>3. /\ log' \in Seq(Stories) /\ Range(log') = Range(log) \cup {s}
    <2>1. /\ log' \in Seq(Stories) /\ Len(log') = Len(log) + 1 /\ log'[Len(log) + 1] = s
          /\ \A i \in 1..Len(log) : log'[i] = log[i]
          /\ DOMAIN log = 1..Len(log) /\ DOMAIN log' = 1..Len(log') /\ Len(log) \in Nat
        BY <1>1, <1>2, AppendProperties, LenProperties DEF TypeOK
    <2> QED
        BY <2>1 DEF Range
<1>4. TypeOK'
    <2>1. lock # p
        BY <1>1 DEF TypeOK
    <2> QED
        BY <1>1, <1>3, <2>1, DoneIs, LockPut DEF TypeOK, OthersWait
<1> QED
    BY <1>1, <1>2, <1>3, <1>4, DoneIs

LEMMA MigrateMetricsIs ==
    ASSUME TypeOK, InHand, NEW p \in Callers, MigrateMetrics(p)
    PROVE  /\ TypeOK' /\ OthersWait(p) /\ UNCHANGED <<node, log, died>>
           /\ lock = p /\ job[p].step = "write" /\ job[p].verb = "migrate-metrics"
           /\ file' = Migrated(file)
           /\ job'[p].verb = "none" /\ job'[p].step = "none"
<1>1. /\ job[p].verb = "migrate-metrics" /\ job[p].step = "write" /\ job[p].file = file
      /\ file' = Migrated(file) /\ lock' = None /\ UNCHANGED <<node, log, died>> /\ Done(p)
    BY DEF MigrateMetrics, At, InHand, HasInHand
<1>2. lock = p
    BY <1>1 DEF TypeOK
<1>3. file' \in File
    BY <1>1, MigratedIs DEF TypeOK
<1>4. TypeOK'
    BY <1>1, <1>2, <1>3, DoneIs, LockPut DEF TypeOK, OthersWait
<1> QED
    BY <1>1, <1>2, <1>4, DoneIs

LEMMA DieIs ==
    ASSUME TypeOK, NEW p \in Callers, Die(p)
    PROVE  /\ TypeOK' /\ OthersWait(p) /\ UNCHANGED <<node, file, log>> /\ died' = died + 1
           /\ job'[p].verb = "none" /\ job'[p].step = "none"
<1>1. /\ UNCHANGED <<node, file, log>> /\ died' = died + 1 /\ Done(p)
      /\ lock' = IF lock = p THEN None ELSE lock
    BY DEF Die
<1>2. TypeOK'
    BY <1>1, DoneIs, LockPut DEF TypeOK, OthersWait
<1> QED
    BY <1>1, <1>2, DoneIs
LEMMA GatherIs ==
    ASSUME TypeOK, NEW p \in Callers, Gather(p)
    PROVE  LET g == job'[p].gathered
           IN  /\ TypeOK' /\ OthersWait(p) /\ UNCHANGED <<node, file, log, died>>
               /\ job[p].verb = "redrive" /\ job[p].step = "wait"
               /\ job'[p].verb = "redrive" /\ job'[p].step = "rebuild"
               /\ DOMAIN g = {s \in Stories : "actual" \in node[s]}
               /\ \A s \in DOMAIN g : g[s] = node[s]
<1> DEFINE g == [s \in {t \in Stories : "actual" \in node[t]} |-> node[s]]
           j == Going(p, "rebuild", job[p].node, job[p].file, g)
<1>1. /\ job[p].verb = "redrive" /\ job[p].step = "wait" /\ lock = None /\ lock' = p
      /\ UNCHANGED <<node, file, log, died>>
      /\ job' = [job EXCEPT ![p] = [job[p] EXCEPT !.gathered = g, !.step = "rebuild"]]
    BY DEF Gather, At, LockFree
<1>2. g \in Gatherings
    <2>1. g \in [{t \in Stories : "actual" \in node[t]} -> Node]
        BY DEF TypeOK
    <2> QED
        BY <2>1 DEF Gatherings
<1>3. DOMAIN g = {s \in Stories : "actual" \in node[s]} /\ \A s \in DOMAIN g : g[s] = node[s]
    OBVIOUS
<1> HIDE DEF g
<1>4. [job[p] EXCEPT !.gathered = g, !.step = "rebuild"] = j
    BY JobTypes DEF Jobs, Going
<1>5. /\ j \in Jobs /\ j.verb = "redrive" /\ j.step = "rebuild" /\ j.gathered = g
    <2>1. "rebuild" \in Steps
        BY DEF Steps
    <2>2. /\ job[p].node \in Node /\ job[p].file \in File \cup {None}
          /\ g \in Gatherings
        BY <1>2, JobTypes
    <2>3. /\ j \in Jobs /\ j.verb = job[p].verb /\ j.story = job[p].story
          /\ j.step = "rebuild" /\ j.gathered = g
        BY <2>1, <2>2, StepIs
    <2> QED
        BY <1>1, <2>3
<1> HIDE DEF j
<1>6. job' \in [Callers -> Jobs] /\ job'[p] = j /\ OthersWait(p)
    BY <1>1, <1>4, <1>5, JobPut DEF OthersWait
<1>7. TypeOK'
    BY <1>1, <1>5, <1>6, LockPut DEF TypeOK, OthersWait
<1> QED
    BY <1>1, <1>3, <1>5, <1>6, <1>7

LEMMA GatheringIs ==
    ASSUME NEW g \in Gatherings
    PROVE  DOMAIN g \subseteq Stories
BY DEF Gatherings

\* Either nothing is written, or the samples of what was gathered.
LEMMA RebuildIs ==
    ASSUME TypeOK, NEW p \in Callers, Rebuild(p)
    PROVE  LET g == job[p].gathered
               counted == {s \in DOMAIN g : "tokens" \in g[s]}
           IN  /\ TypeOK' /\ OthersWait(p) /\ UNCHANGED <<node, log, died>>
               /\ job[p].verb = "redrive" /\ job[p].step = "rebuild" /\ lock = p
               /\ job'[p].verb = "none" /\ job'[p].step = "none"
               /\ \/ file' = file
                  \/ /\ DOMAIN g \subseteq Range(log) /\ file'.markers = file.markers
                     /\ file'.legacy = file.legacy
                     /\ StoriesOf(file'.hours) = DOMAIN g /\ StoriesOf(file'.tokens) = counted
                     /\ \A x \in Range(file'.tokens) : ~x.old
                     /\ \A x \in Range(file'.hours) : x.old = ("dated" \in g[x.story])
                     /\ \A s : /\ Times(s, file'.hours) <= 1 /\ Times(s, file'.tokens) <= 1
                               /\ s \notin DOMAIN g => /\ Times(s, file'.hours) = 0
                                                       /\ Times(s, file'.tokens) = 0
<1> DEFINE g == job[p].gathered
           inCounts == {s \in DOMAIN g : "tokens" \in g[s]}
<1>1. /\ job[p].verb = "redrive" /\ job[p].step = "rebuild"
      /\ lock' = None /\ UNCHANGED <<node, log, died>> /\ Done(p)
    BY DEF Rebuild, At
<1>2. lock = p
    BY <1>1 DEF TypeOK
<1>3. \/ file' = file
      \/ /\ OrderKnown(g)
         /\ \E all \in Orderings(DOMAIN g), counted \in Orderings(inCounts) :
               file' = Rebuilt(file, g, counted, all)
    BY DEF Rebuild
<1>4. DOMAIN g \subseteq Stories /\ inCounts \subseteq DOMAIN g
    BY JobTypes, GatheringIs
<1> HIDE DEF g, inCounts
<1>5. ASSUME OrderKnown(g), NEW all \in Orderings(DOMAIN g), NEW counted \in Orderings(inCounts),
             file' = Rebuilt(file, g, counted, all)
      PROVE  /\ DOMAIN g \subseteq Range(log) /\ file'.markers = file.markers /\ file' \in File
             /\ file'.legacy = file.legacy
             /\ StoriesOf(file'.hours) = DOMAIN g /\ StoriesOf(file'.tokens) = inCounts
             /\ \A x \in Range(file'.tokens) : ~x.old
             /\ \A x \in Range(file'.hours) : x.old = ("dated" \in g[x.story])
             /\ \A s : /\ Times(s, file'.hours) <= 1 /\ Times(s, file'.tokens) <= 1
                       /\ s \notin DOMAIN g => /\ Times(s, file'.hours) = 0
                                               /\ Times(s, file'.tokens) = 0
    <2> DEFINE h == [i \in DOMAIN all |-> HoursOf(all[i], g[all[i]])]
               t == [i \in DOMAIN counted |-> TokensOf(counted[i], g[counted[i]])]
    <2>1. /\ file' = [file EXCEPT !.tokens = t, !.hours = h]
        BY <1>5 DEF Rebuilt
    <2>2. /\ \A i \in DOMAIN all : all[i] \in Stories
          /\ \A i \in DOMAIN counted : counted[i] \in Stories
        BY <1>4 DEF Orderings
    <2>3. /\ DOMAIN h = DOMAIN all /\ \A i \in DOMAIN all : h[i] \in Sample /\ h[i].story = all[i]
          /\ \A i \in DOMAIN all : h[i].old = ("dated" \in g[h[i].story])
          /\ h = [i \in DOMAIN all |-> h[i]]
        BY <2>2 DEF HoursOf, Sample
    <2>4. /\ DOMAIN t = DOMAIN counted
          /\ \A i \in DOMAIN counted : t[i] \in Sample /\ t[i].story = counted[i]
          /\ \A i \in DOMAIN counted : t[i].old = FALSE
          /\ t = [i \in DOMAIN counted |-> t[i]]
        BY <2>2 DEF TokensOf, Sample
    <2> HIDE DEF h, t
    <2>5. /\ h \in Seq(Sample) /\ StoriesOf(h) = DOMAIN g
          /\ \A s : Times(s, h) <= 1 /\ (s \notin DOMAIN g => Times(s, h) = 0)
        BY <1>4, <2>3, TimesOfOrder
    <2>6. /\ t \in Seq(Sample) /\ StoriesOf(t) = inCounts
          /\ \A s : Times(s, t) <= 1 /\ (s \notin inCounts => Times(s, t) = 0)
        BY <1>4, <2>4, TimesOfOrder
    <2>7. file' \in File /\ file'.markers = file.markers /\ file'.hours = h /\ file'.tokens = t
          /\ file'.legacy = file.legacy
        <3> HIDE DEF Sample
        <3> QED
            BY <2>1, <2>5, <2>6 DEF TypeOK, File
    <2>8. DOMAIN g \subseteq Range(log)
        BY <1>5 DEF OrderKnown
    <2>9. /\ \A x \in Range(file'.tokens) : ~x.old
          /\ \A x \in Range(file'.hours) : x.old = ("dated" \in g[x.story])
        BY <2>3, <2>4, <2>7 DEF Range
    <2> QED
        BY <1>4, <2>3, <2>5, <2>6, <2>7, <2>8, <2>9
<1>6. TypeOK'
    <2>1. file' \in File
        BY <1>3, <1>5 DEF TypeOK
    <2> QED
        BY <1>1, <1>2, <2>1, DoneIs, LockPut DEF TypeOK, OthersWait
<1>7. CASE file' = file
    BY <1>1, <1>2, <1>6, <1>7, DoneIs
<1>8. CASE file' # file
    <2>1. PICK all \in Orderings(DOMAIN g), counted \in Orderings(inCounts) :
            OrderKnown(g) /\ file' = Rebuilt(file, g, counted, all)
        BY <1>3, <1>8
    <2> QED
        BY <1>1, <1>2, <1>5, <1>6, <2>1, DoneIs DEF g, inCounts
<1> QED
    BY <1>7, <1>8
-----------------------------------------------------------------------------
(* What is in hand, in each step.                                           *)

LEMMA OthersStand ==
    ASSUME CallersAreApart, TypeOK, InHand, Unmarked, NEW p \in Callers, OthersWait(p),
           file' = file \/ lock = p,
           \/ node' = node
           \/ /\ job[p].story \in Own[p]
              /\ \A t \in Stories : t # job[p].story => node'[t] = node[t]
    PROVE  \A q \in Callers : q # p => HasInHand(q)' /\ FindsUnmarked(q)'
<1> SUFFICES ASSUME NEW q \in Callers, q # p
             PROVE  HasInHand(q)' /\ FindsUnmarked(q)'
    OBVIOUS
<1>1. job'[q] = job[q] /\ HasInHand(q) /\ FindsUnmarked(q)
    BY DEF OthersWait, InHand, Unmarked
<1>2. job[q].step = "write" => file' = file
    BY DEF TypeOK
<1>3. IsStoryCall(q) => node'[job[q].story] = node[job[q].story]
    <2>1. IsStoryCall(q) => job[q].story \in Own[q] /\ job[q].story \in Stories
        BY <1>1, CalibrationAssumption DEF HasInHand
    <2> QED
        BY <2>1 DEF CallersAreApart
<1> QED
    BY <1>1, <1>2, <1>3 DEF HasInHand, FindsUnmarked, IsStoryCall

LEMMA LogStands ==
    ASSUME LoggedAreSampled, Range(log') = Range(log),
           \A s \in Stories : "sampled" \in node[s] => "sampled" \in node'[s],
           TypeOK
    PROVE  LoggedAreSampled'
<1>1. Range(log) \subseteq Stories
    <2>1. log \in Seq(Stories)
        BY DEF TypeOK
    <2> QED
        BY <2>1, ElementOfSeq, LenProperties DEF Range
<1> QED
    BY <1>1 DEF LoggedAreSampled, Imported

LEMMA CallNext ==
    ASSUME CallersAreApart, CallInv, [Next]_vars
    PROVE  CallInv'
<1> USE DEF CallInv
<1>0. CASE UNCHANGED vars
    BY <1>0 DEF vars, TypeOK, InHand, HasInHand, Unmarked, FindsUnmarked, IsStoryCall,
                LoggedAreSampled, Imported
<1> SUFFICES ASSUME NEW p \in Callers,
               \/ \E verb \in {"set-actual", "import-actual"}, s \in Stories : LoadStory(p, verb, s)
               \/ SaveActual(p)
               \/ Lock(p)
               \/ AppendSample(p)
               \/ MarkSampled(p)
               \/ AppendEvent(p)
               \/ \E verb \in {"migrate-metrics", "redrive"} : StartOperator(p, verb)
               \/ MigrateMetrics(p)
               \/ Gather(p)
               \/ Rebuild(p)
               \/ Die(p)
             PROVE  CallInv'
    BY <1>0 DEF Next
<1>1. HasInHand(p) /\ FindsUnmarked(p)
    BY DEF InHand, Unmarked
<1>2. ASSUME TypeOK', LoggedAreSampled', HasInHand(p)', FindsUnmarked(p)',
             OthersWait(p), file' = file \/ lock = p,
             \/ node' = node
             \/ /\ job[p].story \in Own[p]
                /\ \A t \in Stories : t # job[p].story => node'[t] = node[t]
      PROVE  CallInv'
    BY <1>2, OthersStand DEF InHand, Unmarked
<1>3. ASSUME NEW verb \in {"set-actual", "import-actual"}, NEW s \in Stories,
             LoadStory(p, verb, s)
      PROVE  CallInv'
    <2>1. HasInHand(p)' /\ FindsUnmarked(p)'
        BY <1>3, LoadStoryIs DEF HasInHand, FindsUnmarked, IsStoryCall
    <2> QED
        BY <1>2, <1>3, <2>1, LoadStoryIs, LogStands
<1>4. ASSUME SaveActual(p) PROVE CallInv'
    <2>1. HasInHand(p)' /\ FindsUnmarked(p)'
        BY <1>1, <1>4, SaveActualIs DEF HasInHand, FindsUnmarked, IsStoryCall
    <2>2. \A t \in Stories : "sampled" \in node[t] => "sampled" \in node'[t]
        BY <1>4, SaveActualIs
    <2>3. LoggedAreSampled'
        BY <1>4, <2>2, SaveActualIs, LogStands
    <2> QED
        BY <1>2, <1>4, <2>1, <2>3, SaveActualIs
<1>5. ASSUME Lock(p) PROVE CallInv'
    <2>1. HasInHand(p)' /\ FindsUnmarked(p)'
        BY <1>1, <1>5, LockIs DEF HasInHand, FindsUnmarked, IsStoryCall
    <2> QED
        BY <1>2, <1>5, <2>1, LockIs, LogStands
<1>6. ASSUME AppendSample(p) PROVE CallInv'
    <2>1. HasInHand(p)' /\ FindsUnmarked(p)'
        BY <1>1, <1>6, AppendSampleIs DEF HasInHand, FindsUnmarked, IsStoryCall
    <2> QED
        BY <1>2, <1>6, <2>1, AppendSampleIs, LogStands
<1>7. ASSUME MarkSampled(p) PROVE CallInv'
    <2>1. HasInHand(p)' /\ FindsUnmarked(p)'
        BY <1>1, <1>7, MarkSampledIs DEF HasInHand, FindsUnmarked, IsStoryCall
    <2>2. \A t \in Stories : "sampled" \in node[t] => "sampled" \in node'[t]
        BY <1>7, MarkSampledIs
    <2>3. LoggedAreSampled'
        BY <1>7, <2>2, MarkSampledIs, LogStands
    <2> QED
        BY <1>2, <1>7, <2>1, <2>3, MarkSampledIs
<1>8. ASSUME AppendEvent(p) PROVE CallInv'
    <2>1. HasInHand(p)' /\ FindsUnmarked(p)'
        BY <1>8, AppendEventIs DEF HasInHand, FindsUnmarked, IsStoryCall
    <2>2. LoggedAreSampled'
        <3>1. "sampled" \in node[job[p].story] \/ Imported(job[p].story)
            BY <1>1, <1>8, AppendEventIs DEF FindsUnmarked, IsStoryCall, Imported
        <3> QED
            BY <1>8, <3>1, AppendEventIs DEF LoggedAreSampled, Imported
    <2> QED
        BY <1>2, <1>8, <2>1, <2>2, AppendEventIs
<1>9. ASSUME NEW verb \in {"migrate-metrics", "redrive"}, StartOperator(p, verb)
      PROVE  CallInv'
    <2>1. HasInHand(p)' /\ FindsUnmarked(p)'
        BY <1>9, StartOperatorIs DEF HasInHand, FindsUnmarked, IsStoryCall
    <2> QED
        BY <1>2, <1>9, <2>1, StartOperatorIs, LogStands
<1>10. ASSUME MigrateMetrics(p) \/ Rebuild(p) \/ Die(p) PROVE CallInv'
    <2>1. /\ TypeOK' /\ OthersWait(p) /\ UNCHANGED <<node, log>> /\ (file' = file \/ lock = p)
          /\ job'[p].verb = "none" /\ job'[p].step = "none"
        BY <1>10, MigrateMetricsIs, RebuildIs, DieIs
    <2>2. HasInHand(p)' /\ FindsUnmarked(p)'
        BY <2>1 DEF HasInHand, FindsUnmarked, IsStoryCall
    <2> QED
        BY <1>2, <2>1, <2>2, LogStands
<1>11. ASSUME Gather(p) PROVE CallInv'
    <2>1. HasInHand(p)' /\ FindsUnmarked(p)'
        BY <1>1, <1>11, GatherIs DEF HasInHand, FindsUnmarked, IsStoryCall
    <2> QED
        BY <1>2, <1>11, <2>1, GatherIs, LogStands
<1> QED
    BY <1>3, <1>4, <1>5, <1>6, <1>7, <1>8, <1>9, <1>10, <1>11
-----------------------------------------------------------------------------
(* What is counted.                                                         *)

LEMMA CountsStand ==
    ASSUME TypeOK, TypeOK', CountsAreBounded,
           \A s \in Stories : /\ Times(s, file'.tokens) <= Times(s, file.tokens)
                              /\ Times(s, file'.hours) <= Times(s, file.hours),
           \A s \in Stories : \/ died' = died /\ (Counted(s) => Counted(s)')
                              \/ died' = died + 1
    PROVE  CountsAreBounded'
<1> SUFFICES ASSUME NEW s \in Stories
             PROVE  /\ Times(s, file'.tokens) <= died' + (IF Counted(s)' THEN 1 ELSE 0)
                    /\ Times(s, file'.hours) <= died' + (IF Counted(s)' THEN 1 ELSE 0)
    BY DEF CountsAreBounded
<1>1. /\ Times(s, file.tokens) \in Nat /\ Times(s, file'.tokens) \in Nat
      /\ Times(s, file.hours) \in Nat /\ Times(s, file'.hours) \in Nat
      /\ died \in Nat /\ died' \in Nat
    BY FileParts, TimesType DEF TypeOK
<1>2. /\ Times(s, file.tokens) <= died + (IF Counted(s) THEN 1 ELSE 0)
      /\ Times(s, file.hours) <= died + (IF Counted(s) THEN 1 ELSE 0)
    BY DEF CountsAreBounded
<1> QED
    BY <1>1, <1>2

LEMMA FileTimes ==
    ASSUME NEW f \in File, NEW s
    PROVE  Times(s, f.tokens) \in Nat /\ Times(s, f.hours) \in Nat
BY FileParts, TimesType

LEMMA MigratedCounts ==
    ASSUME NEW f \in File, NEW s
    PROVE  /\ Times(s, Migrated(f).tokens) <= Times(s, f.tokens)
           /\ Times(s, Migrated(f).hours) <= Times(s, f.hours)
<1>1. /\ Migrated(f).tokens \in {f.tokens, <<>>} /\ Migrated(f).hours \in {f.hours, <<>>}
    BY MigratedIs
<1>2. Times(s, <<>>) = 0
    BY TimesOfNone
<1> QED
    BY <1>1, <1>2, FileTimes

LEMMA CountNext ==
    ASSUME CallersAreApart, CallInv, TypeOK', CountsAreBounded, [Next]_vars
    PROVE  CountsAreBounded'
<1> USE DEF CallInv
<1>0. CASE UNCHANGED vars
    BY <1>0 DEF vars, CountsAreBounded, Counted, Imported
<1>1. \A s \in Stories : Times(s, file.tokens) <= Times(s, file.tokens)
                         /\ Times(s, file.hours) <= Times(s, file.hours)
    <2>1. file \in File
        BY DEF TypeOK
    <2> QED
        BY <2>1, FileTimes
<1> SUFFICES ASSUME NEW p \in Callers,
               \/ \E verb \in {"set-actual", "import-actual"}, s \in Stories : LoadStory(p, verb, s)
               \/ SaveActual(p)
               \/ Lock(p)
               \/ AppendSample(p)
               \/ MarkSampled(p)
               \/ AppendEvent(p)
               \/ \E verb \in {"migrate-metrics", "redrive"} : StartOperator(p, verb)
               \/ MigrateMetrics(p)
               \/ Gather(p)
               \/ Rebuild(p)
               \/ Die(p)
             PROVE  CountsAreBounded'
    BY <1>0 DEF Next
<1>2. ASSUME OthersWait(p), job[p].step # "mark",
             \A s \in Stories : "sampled" \in node[s] => "sampled" \in node'[s]
      PROVE  \A s \in Stories : Counted(s) => Counted(s)'
    BY <1>2 DEF OthersWait, Counted, Imported
<1>3. CASE \/ \E verb \in {"set-actual", "import-actual"}, s \in Stories : LoadStory(p, verb, s)
           \/ \E verb \in {"migrate-metrics", "redrive"} : StartOperator(p, verb)
    <2>1. /\ OthersWait(p) /\ UNCHANGED <<node, file, died>> /\ job[p].step # "mark"
        BY <1>3, LoadStoryIs, StartOperatorIs, IdleIs
    <2> QED
        BY <1>1, <1>2, <2>1, CountsStand
<1>4. CASE SaveActual(p)
    <2>1. /\ OthersWait(p) /\ UNCHANGED <<file, died>> /\ job[p].step # "mark"
          /\ \A s \in Stories : "sampled" \in node[s] => "sampled" \in node'[s]
        BY <1>4, SaveActualIs
    <2> QED
        BY <1>1, <1>2, <2>1, CountsStand
<1>5. CASE Lock(p) \/ Gather(p) \/ AppendEvent(p)
    <2>1. /\ OthersWait(p) /\ UNCHANGED <<node, file, died>> /\ job[p].step # "mark"
        BY <1>5, LockIs, GatherIs, AppendEventIs
    <2> QED
        BY <1>1, <1>2, <2>1, CountsStand
<1>6. CASE AppendSample(p)
    <2>0. PICK s \in Stories : s = job[p].story
        BY <1>6, AppendSampleIs
    <2>1. /\ OthersWait(p) /\ UNCHANGED <<node, died>> /\ job[p].step = "write"
          /\ s = job[p].story /\ s \in Own[p] /\ "set-actual" \in Verbs[p]
          /\ job[p].node = node[s] /\ job[p].verb = "set-actual" /\ node[s] \in Node
          /\ file'.tokens = Append(Migrated(file).tokens, TokensOf(s, node[s]))
          /\ file'.hours = Append(Migrated(file).hours, HoursOf(s, node[s]))
          /\ job'[p].verb = "set-actual" /\ job'[p].story = s /\ job'[p].step = "mark"
        BY <1>6, <2>0, AppendSampleIs DEF TypeOK
    <2>2. ~Counted(s) /\ Counted(s)'
        <3>1. "sampled" \notin node[s]
            BY <2>1 DEF Unmarked, FindsUnmarked
        <3>2. ~Imported(s)
            BY <2>1 DEF Imported, CallersAreApart
        <3>3. \A q \in Callers : ~(job[q].verb = "set-actual" /\ job[q].step = "mark" /\ job[q].story = s)
            BY <2>1 DEF InHand, HasInHand, IsStoryCall, CallersAreApart
        <3> QED
            BY <2>1, <3>1, <3>2, <3>3 DEF Counted
    <2>3. \A t \in Stories : Counted(t) => Counted(t)'
        BY <1>2, <2>1
    <2> SUFFICES ASSUME NEW t \in Stories
                 PROVE  /\ Times(t, file'.tokens) <= died' + (IF Counted(t)' THEN 1 ELSE 0)
                        /\ Times(t, file'.hours) <= died' + (IF Counted(t)' THEN 1 ELSE 0)
        BY DEF CountsAreBounded
    <2>4. /\ Migrated(file) \in File
          /\ TokensOf(s, node[s]) \in Sample /\ TokensOf(s, node[s]).story = s
          /\ HoursOf(s, node[s]) \in Sample /\ HoursOf(s, node[s]).story = s
        BY <2>1, MigratedIs, AppendedIs DEF TypeOK, TokensOf, HoursOf
    <2>5. /\ Times(t, file'.tokens) = Times(t, Migrated(file).tokens) + (IF s = t THEN 1 ELSE 0)
          /\ Times(t, file'.hours) = Times(t, Migrated(file).hours) + (IF s = t THEN 1 ELSE 0)
        BY <2>1, <2>4, FileParts, TimesOfAppend
    <2>6. /\ Times(t, Migrated(file).tokens) <= Times(t, file.tokens)
          /\ Times(t, Migrated(file).hours) <= Times(t, file.hours)
        BY MigratedCounts DEF TypeOK
    <2>7. /\ Times(t, Migrated(file).tokens) \in Nat /\ Times(t, Migrated(file).hours) \in Nat
          /\ Times(t, file.tokens) \in Nat /\ Times(t, file.hours) \in Nat
        BY <2>4, FileParts, TimesType DEF TypeOK
    <2>8. /\ Times(t, file.tokens) <= died + (IF Counted(t) THEN 1 ELSE 0)
          /\ Times(t, file.hours) <= died + (IF Counted(t) THEN 1 ELSE 0)
        BY DEF CountsAreBounded
    <2>9. CASE s = t
        <3>1. ~Counted(t) /\ Counted(t)'
            BY <2>2, <2>9
        <3> QED
            BY <2>1, <2>5, <2>6, <2>7, <2>8, <2>9, <3>1 DEF TypeOK
    <2>10. CASE s # t
        BY <2>1, <2>3, <2>5, <2>6, <2>7, <2>8, <2>10 DEF TypeOK
    <2> QED
        BY <2>9, <2>10
<1>7. CASE MarkSampled(p)
    <2>1. /\ OthersWait(p) /\ UNCHANGED <<file, died>> /\ job[p].story \in Stories
          /\ \A s \in Stories : "sampled" \in node[s] => "sampled" \in node'[s]
          /\ "sampled" \in node'[job[p].story]
        BY <1>7, MarkSampledIs
    <2>2. \A s \in Stories : Counted(s) => Counted(s)'
        BY <2>1 DEF OthersWait, Counted, Imported
    <2> QED
        BY <1>1, <2>1, <2>2, CountsStand
<1>8. CASE MigrateMetrics(p)
    <2>1. /\ OthersWait(p) /\ UNCHANGED <<node, died>> /\ job[p].step # "mark"
          /\ file' = Migrated(file) /\ file \in File
        BY <1>8, MigrateMetricsIs DEF TypeOK
    <2> QED
        BY <1>2, <2>1, MigratedCounts, CountsStand
<1>9. CASE Rebuild(p)
    <2> DEFINE g == job[p].gathered
    <2>1. /\ OthersWait(p) /\ UNCHANGED <<node, died>> /\ job[p].step # "mark"
        BY <1>9, RebuildIs
    <2>2. CASE file' = file
        BY <1>1, <1>2, <2>1, <2>2, CountsStand
    <2>3. CASE /\ DOMAIN g \subseteq Range(log)
               /\ \A s : /\ Times(s, file'.hours) <= 1 /\ Times(s, file'.tokens) <= 1
                         /\ s \notin DOMAIN g => /\ Times(s, file'.hours) = 0
                                                 /\ Times(s, file'.tokens) = 0
        <3> SUFFICES ASSUME NEW t \in Stories
                     PROVE  /\ Times(t, file'.tokens) <= died' + (IF Counted(t)' THEN 1 ELSE 0)
                            /\ Times(t, file'.hours) <= died' + (IF Counted(t)' THEN 1 ELSE 0)
            BY DEF CountsAreBounded
        <3>1. t \in DOMAIN g => Counted(t)'
            BY <2>1, <2>3 DEF LoggedAreSampled, Counted, Imported
        <3>2. /\ Times(t, file'.tokens) \in Nat /\ Times(t, file'.hours) \in Nat /\ died' \in Nat
            BY FileParts, TimesType DEF TypeOK
        <3> QED
            BY <2>3, <3>1, <3>2
    <2> QED
        BY <1>9, <2>2, <2>3, RebuildIs
<1>10. CASE Die(p)
    BY <1>1, <1>10, DieIs, CountsStand
<1> QED
    BY <1>3, <1>4, <1>5, <1>6, <1>7, <1>8, <1>9, <1>10
-----------------------------------------------------------------------------
(* The first state.                                                         *)

\* A calibration file starts with the samples of the stories closed before.
LEMMA InitFile ==
    ASSUME NEW past \in SUBSET Stories, NEW order \in Orderings(past), NEW old \in BOOLEAN
    PROVE  LET q == [i \in DOMAIN order |-> [story |-> order[i], old |-> old]]
           IN  /\ q \in Seq(Sample) /\ \A x \in Range(q) : x.old = old /\ x.story \in past
               /\ StoriesOf(q) = past
               /\ \A s : Times(s, q) <= 1 /\ (s \notin past => Times(s, q) = 0)
<1> DEFINE q == [i \in DOMAIN order |-> [story |-> order[i], old |-> old]]
<1>1. /\ DOMAIN q = DOMAIN order /\ \A i \in DOMAIN order : order[i] \in past
      /\ \A i \in DOMAIN order : q[i] \in Sample /\ q[i].story = order[i] /\ q[i].old = old
      /\ q = [i \in DOMAIN order |-> q[i]]
    BY DEF Orderings, Sample
<1> HIDE DEF q
<1>2. /\ q \in Seq(Sample) /\ StoriesOf(q) = past
      /\ \A s : Times(s, q) <= 1 /\ (s \notin past => Times(s, q) = 0)
    BY <1>1, TimesOfOrder
<1>3. \A x \in Range(q) : x.old = old /\ x.story \in past
    BY <1>1 DEF Range
<1> QED
    BY <1>2, <1>3 DEF q

LEMMA InitIs ==
    ASSUME Init
    PROVE  \E past \in SUBSET Stories :
             /\ node \in [Stories -> Node]
             /\ \A s \in past : {"actual", "tokens", "sampled"} \subseteq node[s]
             /\ \A s \in Stories \ past : node[s] = {}
             /\ \A s \in Stories : "dated" \in node[s] => s \in Old /\ "reshaped" \notin file.markers
             /\ file \in File /\ file.legacy = <<>> /\ StoriesOf(file.hours) = past
             /\ \A x \in Range(file.tokens) : x.story \in past /\ x.old = ("rebased" \notin file.markers)
             /\ \A x \in Range(file.hours) : x.story \in past /\ x.old = ("reshaped" \notin file.markers)
             /\ \A s : /\ Times(s, file.tokens) <= 1 /\ (s \notin past => Times(s, file.tokens) = 0)
                       /\ Times(s, file.hours) <= 1 /\ (s \notin past => Times(s, file.hours) = 0)
             /\ log \in Seq(Stories) /\ Range(log) \subseteq past \cap Logged
             /\ lock = None /\ job = [p \in Callers |-> Idle] /\ died = 0
<1>1. PICK markers \in {{}, {"reshaped"}, {"reshaped", "rebased"}}, past \in {{}, Old} :
        /\ node = [s \in Stories |->
                     {m \in {"actual", "tokens", "sampled", "dated"} :
                        s \in past /\ (m = "dated" => "reshaped" \notin markers)}]
        /\ \E order \in Orderings(past) :
              file = [tokens |-> [i \in DOMAIN order |->
                                    [story |-> order[i], old |-> "rebased" \notin markers]],
                      hours |-> [i \in DOMAIN order |->
                                    [story |-> order[i], old |-> "reshaped" \notin markers]],
                      legacy |-> <<>>, markers |-> markers]
        /\ log \in Orderings(past \cap Logged)
    BY DEF Init
<1>2. past \in SUBSET Stories /\ IsFiniteSet(past)
    BY FS_Subset, CalibrationAssumption
<1>3. /\ node \in [Stories -> Node]
      /\ \A s \in past : {"actual", "tokens", "sampled"} \subseteq node[s]
      /\ \A s \in Stories \ past : node[s] = {}
      /\ \A s \in Stories : "dated" \in node[s] => s \in Old /\ "reshaped" \notin markers
    BY <1>1, <1>2 DEF Node
<1>4. PICK order \in Orderings(past) :
        file = [tokens |-> [i \in DOMAIN order |->
                              [story |-> order[i], old |-> "rebased" \notin markers]],
                hours |-> [i \in DOMAIN order |->
                              [story |-> order[i], old |-> "reshaped" \notin markers]],
                legacy |-> <<>>, markers |-> markers]
    BY <1>1
<1>5. /\ file.tokens \in Seq(Sample) /\ file.hours \in Seq(Sample)
      /\ StoriesOf(file.hours) = past
      /\ \A x \in Range(file.tokens) : x.story \in past /\ x.old = ("rebased" \notin file.markers)
      /\ \A x \in Range(file.hours) : x.story \in past /\ x.old = ("reshaped" \notin file.markers)
      /\ \A s : /\ Times(s, file.tokens) <= 1 /\ (s \notin past => Times(s, file.tokens) = 0)
                /\ Times(s, file.hours) <= 1 /\ (s \notin past => Times(s, file.hours) = 0)
    <2> DEFINE based == "rebased" \notin file.markers
               shaped == "reshaped" \notin file.markers
    <2>1. based \in BOOLEAN /\ shaped \in BOOLEAN
        OBVIOUS
    <2>2. /\ file.tokens = [i \in DOMAIN order |-> [story |-> order[i], old |-> based]]
          /\ file.hours = [i \in DOMAIN order |-> [story |-> order[i], old |-> shaped]]
        BY <1>4
    <2> HIDE DEF based, shaped
    <2>3. /\ file.tokens \in Seq(Sample)
          /\ \A x \in Range(file.tokens) : x.story \in past /\ x.old = based
          /\ \A s : Times(s, file.tokens) <= 1 /\ (s \notin past => Times(s, file.tokens) = 0)
        BY <1>2, <2>1, <2>2, InitFile
    <2>4. /\ file.hours \in Seq(Sample) /\ StoriesOf(file.hours) = past
          /\ \A x \in Range(file.hours) : x.story \in past /\ x.old = shaped
          /\ \A s : Times(s, file.hours) <= 1 /\ (s \notin past => Times(s, file.hours) = 0)
        BY <1>2, <2>1, <2>2, InitFile
    <2> QED
        BY <2>3, <2>4 DEF based, shaped
<1>6. file \in File /\ file.legacy = <<>> /\ file.markers = markers
    <2>1. <<>> \in Seq(Sample) /\ markers \in SUBSET {"reshaped", "rebased"}
        OBVIOUS
    <2> HIDE DEF Sample
    <2> QED
        BY <1>4, <1>5, <2>1 DEF File
<1>7. log \in Seq(Stories) /\ Range(log) \subseteq past \cap Logged
    <2> DEFINE n == Cardinality(past \cap Logged)
    <2>1. n \in Nat
        BY <1>2, FS_Subset, FS_CardinalityType
    <2>2. log \in [1..n -> past \cap Logged] /\ Range(log) = past \cap Logged
        BY <1>1 DEF Orderings
    <2> HIDE DEF n
    <2>3. log \in Seq(past \cap Logged)
        BY <2>1, <2>2
    <2> QED
        BY <1>2, <2>2, <2>3
<1>8. lock = None /\ job = [p \in Callers |-> Idle] /\ died = 0
    BY DEF Init
<1> QED
    BY <1>2, <1>3, <1>5, <1>6, <1>7, <1>8

LEMMA InitInv ==
    ASSUME Init
    PROVE  CallInv /\ CountsAreBounded
<1>1. PICK past \in SUBSET Stories :
        /\ node \in [Stories -> Node] /\ \A s \in past : "sampled" \in node[s]
        /\ file \in File
        /\ \A s : /\ Times(s, file.tokens) <= 1 /\ (s \notin past => Times(s, file.tokens) = 0)
                  /\ Times(s, file.hours) <= 1 /\ (s \notin past => Times(s, file.hours) = 0)
        /\ log \in Seq(Stories) /\ Range(log) \subseteq past
        /\ lock = None /\ job = [p \in Callers |-> Idle] /\ died = 0
    BY InitIs
<1>2. \A p \in Callers : job[p] \in Jobs /\ job[p].verb = "none" /\ job[p].step = "none"
    BY <1>1, IdleIs
<1>3. TypeOK
    <2>1. job \in [Callers -> Jobs]
        BY <1>1, IdleIs
    <2>2. \A p \in Callers : lock = p <=> job[p].step \in {"write", "rebuild"}
        BY <1>1, <1>2, CalibrationAssumption
    <2> QED
        BY <1>1, <2>1, <2>2 DEF TypeOK
<1>4. InHand /\ Unmarked
    BY <1>2 DEF InHand, HasInHand, Unmarked, FindsUnmarked, IsStoryCall
<1>5. LoggedAreSampled
    BY <1>1 DEF LoggedAreSampled
<1>6. CountsAreBounded
    <2> SUFFICES ASSUME NEW s \in Stories
                 PROVE  /\ Times(s, file.tokens) <= died + (IF Counted(s) THEN 1 ELSE 0)
                        /\ Times(s, file.hours) <= died + (IF Counted(s) THEN 1 ELSE 0)
        BY DEF CountsAreBounded
    <2>1. s \in past => Counted(s)
        BY <1>1 DEF Counted
    <2>2. Times(s, file.tokens) \in Nat /\ Times(s, file.hours) \in Nat
        BY <1>1, FileTimes
    <2> QED
        BY <1>1, <2>1, <2>2
<1> QED
    BY <1>3, <1>4, <1>5, <1>6 DEF CallInv

-----------------------------------------------------------------------------
(* What stays.                                                              *)

LEMMA SamplesOfAppend ==
    ASSUME NEW q \in Seq(Sample), NEW x \in Sample
    PROVE  /\ Range(Append(q, x)) = Range(q) \cup {x}
           /\ \A y \in Range(q) : y.story \in StoriesOf(q) /\ y.story \in StoriesOf(Append(q, x))
<1> DEFINE r == Append(q, x)
<1>1. /\ Len(r) = Len(q) + 1 /\ Len(q) \in Nat
      /\ r[Len(q) + 1] = x /\ \A i \in 1..Len(q) : r[i] = q[i]
      /\ DOMAIN r = 1..Len(r) /\ DOMAIN q = 1..Len(q)
    BY AppendProperties, LenProperties
<1> HIDE DEF r
<1>2. Range(r) = Range(q) \cup {x}
    BY <1>1 DEF Range
<1>3. \A y \in Range(q) : y.story \in StoriesOf(q) /\ y.story \in StoriesOf(r)
    BY <1>1 DEF Range, StoriesOf
<1> QED
    BY <1>2, <1>3 DEF r

LEMMA NewHasStory ==
    ASSUME NEW s, NEW q, New(s) \in Range(q)
    PROVE  s \in StoriesOf(q)
BY DEF New, Range, StoriesOf

LEMMA MigratedSamples ==
    ASSUME NEW f \in File
    PROVE  /\ Range(Migrated(f).hours) \subseteq Range(f.hours)
           /\ Range(Migrated(f).tokens) \subseteq Range(f.tokens)
<1>1. Range(<<>>) = {}
    BY DEF Range
<1> QED
    BY <1>1, MigratedIs

\* A node keeps its figures, and only import-actual drops the token counts.
NodesKeep ==
    \A s \in Stories :
        /\ "actual" \in node[s] => "actual" \in node'[s]
        /\ "tokens" \in node'[s] => "actual" \in node'[s]
        /\ "tokens" \in node[s] => "tokens" \in node'[s] \/ Imported(s)
        /\ "tokens" \in node'[s] => "tokens" \in node[s] \/ ~Imported(s)

LEMMA StoryOf ==
    ASSUME CallersAreApart, NEW p \in Callers, NEW s \in Own[p]
    PROVE  /\ "import-actual" \in Verbs[p] => Imported(s)
           /\ "set-actual" \in Verbs[p] => ~Imported(s)
BY DEF CallersAreApart, Imported

LEMMA KeptNodes ==
    ASSUME CallersAreApart, CallInv, StayInv, NEW p \in Callers,
           node' = node \/ SaveActual(p) \/ MarkSampled(p)
    PROVE  NodesKeep
<1> USE DEF CallInv
<1>1. \A s \in Stories : "tokens" \in node[s] => "actual" \in node[s]
    BY DEF StayInv, NewHaveFigures
<1>2. CASE node' = node
    BY <1>1, <1>2 DEF NodesKeep
<1>3. CASE SaveActual(p)
    <2> DEFINE s == job[p].story
    <2>1. /\ s \in Own[p] /\ job[p].verb \in Verbs[p] /\ IsStoryCall(p)
          /\ \A t \in Stories : t # s => node'[t] = node[t]
          /\ "actual" \in node'[s] /\ ("tokens" \in node'[s] <=> job[p].verb = "set-actual")
        BY <1>3, SaveActualIs
    <2>2. /\ job[p].verb = "import-actual" => Imported(s)
          /\ job[p].verb = "set-actual" => ~Imported(s)
        BY <2>1, StoryOf
    <2> QED
        BY <1>1, <2>1, <2>2 DEF NodesKeep, IsStoryCall
<1>4. CASE MarkSampled(p)
    <2> DEFINE s == job[p].story
    <2>1. /\ \A t \in Stories : t # s => node'[t] = node[t]
          /\ node'[s] = node[s] \cup {"sampled"}
        BY <1>4, MarkSampledIs
    <2> QED
        BY <1>1, <2>1 DEF NodesKeep
<1> QED
    BY <1>2, <1>3, <1>4

\* A step that does not write the file.
LEMMA StayRead ==
    ASSUME CallInv, StayInv, NEW p \in Callers, OthersWait(p), NodesKeep, file' = file,
           HasGathered(p)',
           job'[p].verb = "redrive" => file.markers = {"reshaped", "rebased"}
    PROVE  StayInv'
<1>1. NewAreMigrated'
    BY DEF StayInv, NewAreMigrated, OthersWait, New
<1>2. NewHaveFigures'
    BY DEF StayInv, NewHaveFigures, NodesKeep, New, Imported
<1>3. ASSUME NEW q \in Callers, q # p
      PROVE  HasGathered(q)'
    <2>1. job'[q] = job[q] /\ HasGathered(q)
        BY <1>3 DEF OthersWait, StayInv
    <2>2. \A s \in Stories : New(s) \in Range(file.tokens) => "tokens" \in node[s] \/ Imported(s)
        BY DEF StayInv, NewHaveFigures
    <2>3. ASSUME job[q].step = "rebuild", NEW s \in Stories
          PROVE  LET g == job[q].gathered
                 IN  /\ New(s) \in Range(file'.hours) => s \in DOMAIN g
                     /\ New(s) \in Range(file'.tokens) /\ "tokens" \in node'[s] =>
                          s \in DOMAIN g /\ "tokens" \in g[s]
                     /\ s \in DOMAIN g => "actual" \in node'[s]
                     /\ s \in DOMAIN g /\ "tokens" \in g[s] => "tokens" \in node'[s] \/ Imported(s)
        BY <2>1, <2>2, <2>3 DEF HasGathered, NodesKeep
    <2> QED
        BY <2>1, <2>3 DEF HasGathered, New, Imported
<1> QED
    BY <1>1, <1>2, <1>3 DEF StayInv

\* A step that writes it, under the lock, and leaves it migrated.
LEMMA StayWrite ==
    ASSUME CallInv, TypeOK', StayInv, NEW p \in Callers, OthersWait(p), node' = node, lock = p,
           job'[p].verb # "redrive", job'[p].step # "rebuild",
           file'.markers = {"reshaped", "rebased"},
           \A s \in Stories :
               /\ New(s) \in Range(file'.hours) => "actual" \in node[s]
               /\ New(s) \in Range(file'.tokens) => "tokens" \in node[s] \/ Imported(s)
    PROVE  StayInv'
<1>1. NewAreMigrated'
    BY DEF NewAreMigrated, StayInv, OthersWait
<1>2. NewHaveFigures'
    BY DEF StayInv, NewHaveFigures, New, Imported
<1>3. \A q \in Callers : job'[q].step # "rebuild"
    BY DEF OthersWait, CallInv, TypeOK
<1> QED
    BY <1>1, <1>2, <1>3 DEF StayInv, HasGathered

LEMMA AgeIs ==
    ASSUME OldApart
    PROVE  OnlyOldIsSetAside
BY DEF OldApart, OnlyOldIsSetAside, Range

LEMMA InitAge ==
    ASSUME OldStandStill, Init
    PROVE  AgeInv
<1>1. PICK past \in SUBSET Stories :
        /\ \A s \in Stories \ past : node[s] = {}
        /\ \A s \in Stories : "dated" \in node[s] => s \in Old /\ "reshaped" \notin file.markers
        /\ file \in File /\ file.legacy = <<>> /\ StoriesOf(file.hours) = past
        /\ \A x \in Range(file.tokens) : x.old = ("rebased" \notin file.markers)
        /\ \A x \in Range(file.hours) : x.old = ("reshaped" \notin file.markers)
        /\ Range(log) \subseteq Logged /\ job = [p \in Callers |-> Idle]
    BY InitIs
<1>2. \A p \in Callers : job[p].step = "none"
    BY <1>1, IdleIs
<1>3. DatedAreOld
    BY <1>1, <1>2 DEF DatedAreOld, OldStandStill
<1>4. NothingSetAsideYet
    BY <1>1 DEF NothingSetAsideYet
<1>5. OldApart
    <2>1. Range(<<>>) = {}
        BY DEF Range
    <2> QED
        BY <1>1, <2>1 DEF OldApart
<1> QED
    BY <1>3, <1>4, <1>5 DEF AgeInv

LEMMA InitStay ==
    ASSUME Init
    PROVE  StayInv
<1>1. PICK past \in SUBSET Stories :
        /\ \A s \in past : {"actual", "tokens", "sampled"} \subseteq node[s]
        /\ \A s \in Stories \ past : node[s] = {}
        /\ \A x \in Range(file.tokens) : x.story \in past /\ x.old = ("rebased" \notin file.markers)
        /\ \A x \in Range(file.hours) : x.story \in past /\ x.old = ("reshaped" \notin file.markers)
        /\ job = [p \in Callers |-> Idle]
    BY InitIs
<1>2. \A p \in Callers : job[p].verb = "none" /\ job[p].step = "none"
    BY <1>1, IdleIs
<1>3. \A s \in Stories : New(s).story = s /\ New(s).old = FALSE
    BY DEF New
<1>4. NewAreMigrated
    <2>1. \A s \in Stories : New(s) \in Range(file.hours) => "reshaped" \in file.markers
        BY <1>1, <1>3
    <2>2. \A s \in Stories : New(s) \in Range(file.tokens) => "rebased" \in file.markers
        BY <1>1, <1>3
    <2> QED
        BY <1>2, <2>1, <2>2 DEF NewAreMigrated
<1>5. NewHaveFigures
    BY <1>1, <1>3 DEF NewHaveFigures
<1> QED
    BY <1>2, <1>4, <1>5 DEF StayInv, HasGathered

\* What a step does to the samples measured in today's sense.
KeepsNew ==
    \A s \in Stories :
        /\ "tokens" \in node[s] /\ New(s) \in Range(file.tokens) => s \in StoriesOf(file'.tokens)
        /\ New(s) \in Range(file.hours) => s \in StoriesOf(file'.hours)

LEMMA SameFile ==
    ASSUME file' = file
    PROVE  KeepsNew
BY NewHasStory DEF KeepsNew


LEMMA StayNext ==
    ASSUME CallersAreApart, MigrateFirst, CallInv, TypeOK', StayInv, [Next]_vars
    PROVE  StayInv' /\ KeepsNew
<1> USE DEF CallInv
<1>0. CASE UNCHANGED vars
    BY <1>0, SameFile DEF vars, StayInv, NewAreMigrated, NewHaveFigures, HasGathered, New, Imported
<1> SUFFICES ASSUME NEW p \in Callers,
               \/ \E verb \in {"set-actual", "import-actual"}, s \in Stories : LoadStory(p, verb, s)
               \/ SaveActual(p)
               \/ Lock(p)
               \/ AppendSample(p)
               \/ MarkSampled(p)
               \/ AppendEvent(p)
               \/ \E verb \in {"migrate-metrics", "redrive"} : StartOperator(p, verb)
               \/ MigrateMetrics(p)
               \/ Gather(p)
               \/ Rebuild(p)
               \/ Die(p)
             PROVE  StayInv' /\ KeepsNew
    BY <1>0 DEF Next
<1>1. ASSUME \/ \E verb \in {"set-actual", "import-actual"}, s \in Stories : LoadStory(p, verb, s)
             \/ SaveActual(p) \/ Lock(p) \/ MarkSampled(p) \/ AppendEvent(p) \/ Die(p)
      PROVE  StayInv' /\ KeepsNew
    <2>1. /\ OthersWait(p) /\ file' = file /\ (node' = node \/ SaveActual(p) \/ MarkSampled(p))
          /\ job'[p].verb # "redrive" /\ job'[p].step # "rebuild"
        BY <1>1, LoadStoryIs, SaveActualIs, LockIs, MarkSampledIs, AppendEventIs, DieIs
           DEF IsStoryCall
    <2>2. HasGathered(p)'
        BY <2>1 DEF HasGathered
    <2> QED
        BY <2>1, <2>2, KeptNodes, StayRead, SameFile
<1>2. ASSUME NEW verb \in {"migrate-metrics", "redrive"}, StartOperator(p, verb)
      PROVE  StayInv' /\ KeepsNew
    <2>1. /\ OthersWait(p) /\ file' = file /\ node' = node
          /\ job'[p].verb = verb /\ job'[p].step = "wait"
          /\ verb = "redrive" => file.markers = {"reshaped", "rebased"}
        BY <1>2, StartOperatorIs
    <2>2. HasGathered(p)'
        BY <2>1 DEF HasGathered
    <2> QED
        BY <2>1, <2>2, KeptNodes, StayRead, SameFile
<1>3. ASSUME Gather(p)
      PROVE  StayInv' /\ KeepsNew
    <2> DEFINE g == job'[p].gathered
    <2>1. /\ OthersWait(p) /\ file' = file /\ node' = node
          /\ job[p].verb = "redrive" /\ job'[p].verb = "redrive"
          /\ DOMAIN g = {s \in Stories : "actual" \in node[s]}
          /\ \A s \in DOMAIN g : g[s] = node[s]
        BY <1>3, GatherIs
    <2>2. HasGathered(p)'
        BY <2>1 DEF HasGathered, StayInv, NewHaveFigures, New, Imported
    <2>3. file.markers = {"reshaped", "rebased"}
        BY <2>1 DEF StayInv, NewAreMigrated
    <2> QED
        BY <2>1, <2>2, <2>3, KeptNodes, StayRead, SameFile
<1>4. ASSUME AppendSample(p)
      PROVE  StayInv' /\ KeepsNew
    <2> DEFINE s == job[p].story
               m == Migrated(file)
               t == TokensOf(s, node[s])
               h == HoursOf(s, node[s])
    <2>1. /\ OthersWait(p) /\ node' = node /\ lock = p
          /\ job[p].verb = "set-actual" /\ job[p].step = "write" /\ s \in Stories
          /\ job[p].node = node[s] /\ file'.markers = {"reshaped", "rebased"}
          /\ file'.tokens = Append(m.tokens, t) /\ file'.hours = Append(m.hours, h)
          /\ job'[p].verb # "redrive" /\ job'[p].step # "rebuild"
        BY <1>4, AppendSampleIs
    <2>2. {"actual", "tokens"} \subseteq node[s]
        BY <2>1 DEF Unmarked, FindsUnmarked
    <2>3. /\ t \in Sample /\ t.story = s /\ h \in Sample /\ h.story = s
        BY <2>1, AppendedIs DEF TypeOK, TokensOf, HoursOf
    <2>4. file \in File /\ m.tokens \in Seq(Sample) /\ m.hours \in Seq(Sample)
        BY MigratedIs, FileParts DEF TypeOK
    <2> HIDE DEF t, h, m
    <2>5. /\ Range(file'.tokens) = Range(m.tokens) \cup {t}
          /\ Range(file'.hours) = Range(m.hours) \cup {h}
          /\ \A x \in Range(m.tokens) : x.story \in StoriesOf(file'.tokens)
          /\ \A x \in Range(m.hours) : x.story \in StoriesOf(file'.hours)
        BY <2>1, <2>3, <2>4, SamplesOfAppend
    <2>6. /\ Range(m.hours) \subseteq Range(file.hours)
          /\ Range(m.tokens) \subseteq Range(file.tokens)
        BY <2>4, MigratedSamples DEF m
    <2>7. \A r \in Stories : New(r).story = r
        BY DEF New
    <2>8. StayInv'
        <3>1. \A r \in Stories :
                /\ New(r) \in Range(file'.hours) => "actual" \in node[r]
                /\ New(r) \in Range(file'.tokens) => "tokens" \in node[r] \/ Imported(r)
            BY <2>2, <2>3, <2>5, <2>6, <2>7 DEF StayInv, NewHaveFigures
        <3> QED
            BY <2>1, <3>1, StayWrite
    <2>9. KeepsNew
        <3>1. /\ "reshaped" \in file.markers => m.hours = file.hours
              /\ "rebased" \in file.markers => m.tokens = file.tokens
            BY <2>4, MigratedIs DEF m
        <3> QED
            BY <2>5, <2>7, <3>1 DEF KeepsNew, StayInv, NewAreMigrated
    <2> QED
        BY <2>8, <2>9
<1>5. ASSUME MigrateMetrics(p)
      PROVE  StayInv' /\ KeepsNew
    <2>1. /\ OthersWait(p) /\ node' = node /\ lock = p /\ file' = Migrated(file) /\ file \in File
          /\ job'[p].verb # "redrive" /\ job'[p].step # "rebuild"
        BY <1>5, MigrateMetricsIs DEF TypeOK
    <2>2. /\ file'.markers = {"reshaped", "rebased"}
          /\ Range(file'.hours) \subseteq Range(file.hours)
          /\ Range(file'.tokens) \subseteq Range(file.tokens)
          /\ "reshaped" \in file.markers => file'.hours = file.hours
          /\ "rebased" \in file.markers => file'.tokens = file.tokens
        BY <2>1, MigratedIs, MigratedSamples
    <2>3. \A s \in Stories :
            /\ New(s) \in Range(file'.hours) => "actual" \in node[s]
            /\ New(s) \in Range(file'.tokens) => "tokens" \in node[s] \/ Imported(s)
        BY <2>2 DEF StayInv, NewHaveFigures
    <2>4. KeepsNew
        BY <2>2, NewHasStory DEF KeepsNew, StayInv, NewAreMigrated
    <2> QED
        BY <2>1, <2>2, <2>3, <2>4, StayWrite
<1>6. ASSUME Rebuild(p)
      PROVE  StayInv' /\ KeepsNew
    <2> DEFINE g == job[p].gathered
               counted == {s \in DOMAIN g : "tokens" \in g[s]}
    <2>1. /\ OthersWait(p) /\ node' = node /\ lock = p
          /\ job[p].verb = "redrive" /\ job[p].step = "rebuild"
          /\ job'[p].verb = "none" /\ job'[p].step = "none"
        BY <1>6, RebuildIs
    <2>2. CASE file' = file
        <3>1. HasGathered(p)'
            BY <2>1 DEF HasGathered
        <3> QED
            BY <2>1, <2>2, <3>1, KeptNodes, StayRead, SameFile
    <2>3. CASE /\ file'.markers = file.markers
               /\ StoriesOf(file'.hours) = DOMAIN g /\ StoriesOf(file'.tokens) = counted
        <3>1. file'.markers = {"reshaped", "rebased"}
            BY <2>1, <2>3 DEF StayInv, NewAreMigrated
        <3>2. \A s \in Stories :
                /\ New(s) \in Range(file.hours) => s \in DOMAIN g
                /\ New(s) \in Range(file.tokens) /\ "tokens" \in node[s] => s \in counted
                /\ s \in DOMAIN g => "actual" \in node[s]
                /\ s \in counted => "tokens" \in node[s] \/ Imported(s)
            BY <2>1 DEF StayInv, HasGathered
        <3> HIDE DEF g, counted
        <3>3. \A s \in Stories :
                /\ New(s) \in Range(file'.hours) => "actual" \in node[s]
                /\ New(s) \in Range(file'.tokens) => "tokens" \in node[s] \/ Imported(s)
            BY <2>3, <3>2, NewHasStory
        <3>4. KeepsNew
            BY <2>3, <3>2 DEF KeepsNew
        <3> QED
            BY <2>1, <3>1, <3>3, <3>4, StayWrite
    <2> QED
        BY <1>6, <2>2, <2>3, RebuildIs
<1> QED
    BY <1>1, <1>2, <1>3, <1>4, <1>5, <1>6

\* What the migrations make of the file that is there.
LEMMA MigratedAges ==
    ASSUME TypeOK, AgeInv
    PROVE  LET m == Migrated(file)
           IN  /\ m \in File /\ m.markers = {"reshaped", "rebased"}
               /\ \A x \in Range(m.hours) : ~x.old
               /\ \A x \in Range(m.tokens) : ~x.old
               /\ \A x \in Range(m.legacy) : x.old
               /\ \A s \in Stories : "dated" \in node[s] => s \in StoriesOf(m.legacy)
<1> DEFINE m == Migrated(file)
<1>1. Range(<<>>) = {} /\ StoriesOf(<<>>) = {}
    BY DEF Range, StoriesOf
<1>2. /\ m \in File /\ m.markers = {"reshaped", "rebased"}
      /\ m.hours = IF "reshaped" \in file.markers THEN file.hours ELSE <<>>
      /\ m.tokens = IF "rebased" \in file.markers THEN file.tokens ELSE <<>>
      /\ m.legacy = IF "reshaped" \in file.markers \/ file.hours = <<>>
                    THEN file.legacy ELSE file.hours
    BY MigratedIs DEF TypeOK
<1> HIDE DEF m
<1>3. \A x \in Range(m.hours) : ~x.old
    BY <1>1, <1>2 DEF AgeInv, OldApart
<1>4. \A x \in Range(m.tokens) : ~x.old
    BY <1>1, <1>2 DEF AgeInv, OldApart
<1>5. \A x \in Range(m.legacy) : x.old
    BY <1>2 DEF AgeInv, OldApart, NothingSetAsideYet
<1>6. \A s \in Stories : "dated" \in node[s] => s \in StoriesOf(m.legacy)
    BY <1>1, <1>2 DEF AgeInv, OldApart, NothingSetAsideYet
<1> QED
    BY <1>2, <1>3, <1>4, <1>5, <1>6 DEF m

\* A step that leaves the file alone.
LEMMA AgeRead ==
    ASSUME AgeInv, file' = file, DatedAreOld',
           \A s \in Stories : "dated" \in node'[s] => "dated" \in node[s]
    PROVE  AgeInv'
BY DEF AgeInv, NothingSetAsideYet, OldApart

LEMMA AgeNext ==
    ASSUME OldStandStill, MigrateFirst, CallInv, StayInv, AgeInv, [Next]_vars
    PROVE  AgeInv'
<1> USE DEF CallInv
<1>0. CASE UNCHANGED vars
    BY <1>0 DEF vars, AgeInv, DatedAreOld, NothingSetAsideYet, OldApart
<1> SUFFICES ASSUME NEW p \in Callers,
               \/ \E verb \in {"set-actual", "import-actual"}, s \in Stories : LoadStory(p, verb, s)
               \/ SaveActual(p)
               \/ Lock(p)
               \/ AppendSample(p)
               \/ MarkSampled(p)
               \/ AppendEvent(p)
               \/ \E verb \in {"migrate-metrics", "redrive"} : StartOperator(p, verb)
               \/ MigrateMetrics(p)
               \/ Gather(p)
               \/ Rebuild(p)
               \/ Die(p)
             PROVE  AgeInv'
    BY <1>0 DEF Next
<1>1. ASSUME OthersWait(p), job'[p].step # "rebuild",
             \A s \in Stories : "dated" \in node'[s] => "dated" \in node[s],
             Range(log') \cap Old = {}
      PROVE  DatedAreOld'
    BY <1>1 DEF AgeInv, DatedAreOld, OthersWait
<1>2. ASSUME \/ \E verb \in {"set-actual", "import-actual"}, s \in Stories : LoadStory(p, verb, s)
             \/ \E verb \in {"migrate-metrics", "redrive"} : StartOperator(p, verb)
             \/ SaveActual(p) \/ Lock(p) \/ MarkSampled(p) \/ AppendEvent(p) \/ Die(p)
      PROVE  AgeInv'
    <2>1. /\ OthersWait(p) /\ file' = file /\ job'[p].step # "rebuild"
          /\ \A s \in Stories : "dated" \in node'[s] => "dated" \in node[s]
        BY <1>2, LoadStoryIs, StartOperatorIs, SaveActualIs, LockIs, MarkSampledIs,
           AppendEventIs, DieIs
    <2>2. log' = log \/ AppendEvent(p)
        BY <1>2, LoadStoryIs, StartOperatorIs, SaveActualIs, LockIs, MarkSampledIs, DieIs
    <2>3. Range(log') \cap Old = {}
        BY <2>2, AppendEventIs DEF AgeInv, DatedAreOld, OldStandStill
    <2> QED
        BY <1>1, <2>1, <2>3, AgeRead
<1>3. ASSUME Gather(p) PROVE AgeInv'
    <2>1. /\ OthersWait(p) /\ file' = file /\ node' = node /\ log' = log
          /\ DOMAIN job'[p].gathered \subseteq Stories
          /\ \A s \in DOMAIN job'[p].gathered : job'[p].gathered[s] = node[s]
        BY <1>3, GatherIs
    <2>2. DatedAreOld'
        BY <2>1 DEF AgeInv, DatedAreOld, OthersWait
    <2> QED
        BY <2>1, <2>2, AgeRead
<1>4. ASSUME AppendSample(p) PROVE AgeInv'
    <2> DEFINE s == job[p].story
               m == Migrated(file)
               t == TokensOf(s, node[s])
               h == HoursOf(s, node[s])
    <2>1. /\ OthersWait(p) /\ node' = node /\ log' = log /\ job'[p].step # "rebuild"
          /\ s \in Stories /\ s \in Own[p] /\ node[s] \in Node
          /\ file'.markers = {"reshaped", "rebased"} /\ file'.legacy = m.legacy
          /\ file'.tokens = Append(m.tokens, t) /\ file'.hours = Append(m.hours, h)
        BY <1>4, AppendSampleIs DEF TypeOK
    <2>2. t \in Sample /\ h \in Sample /\ ~t.old /\ ~h.old
        BY <2>1, AppendedIs DEF TypeOK, TokensOf, HoursOf, AgeInv, DatedAreOld, OldStandStill
    <2>3. /\ m \in File
          /\ \A x \in Range(m.hours) : ~x.old
          /\ \A x \in Range(m.tokens) : ~x.old
          /\ \A x \in Range(m.legacy) : x.old
          /\ \A r \in Stories : "dated" \in node[r] => r \in StoriesOf(m.legacy)
        BY MigratedAges
    <2> HIDE DEF t, h, m
    <2>4. /\ Range(file'.tokens) = Range(m.tokens) \cup {t}
          /\ Range(file'.hours) = Range(m.hours) \cup {h}
        BY <2>1, <2>2, <2>3, FileParts, SamplesOfAppend
    <2>5. DatedAreOld'
        BY <1>1, <2>1 DEF AgeInv, DatedAreOld
    <2> QED
        BY <2>1, <2>2, <2>3, <2>4, <2>5 DEF AgeInv, NothingSetAsideYet, OldApart
<1>5. ASSUME MigrateMetrics(p) PROVE AgeInv'
    <2>1. /\ OthersWait(p) /\ node' = node /\ log' = log /\ job'[p].step # "rebuild"
          /\ file' = Migrated(file)
        BY <1>5, MigrateMetricsIs
    <2>2. DatedAreOld'
        BY <1>1, <2>1 DEF AgeInv, DatedAreOld
    <2> QED
        BY <2>1, <2>2, MigratedAges DEF AgeInv, NothingSetAsideYet, OldApart
<1>6. ASSUME Rebuild(p) PROVE AgeInv'
    <2> DEFINE g == job[p].gathered
    <2>1. /\ OthersWait(p) /\ node' = node /\ log' = log /\ job'[p].step # "rebuild"
          /\ job[p].verb = "redrive" /\ job[p].step = "rebuild"
        BY <1>6, RebuildIs
    <2>2. DatedAreOld'
        BY <1>1, <2>1 DEF AgeInv, DatedAreOld
    <2>3. CASE file' = file
        BY <2>1, <2>2, <2>3, AgeRead
    <2>4. CASE /\ DOMAIN g \subseteq Range(log) /\ file'.markers = file.markers
               /\ file'.legacy = file.legacy /\ StoriesOf(file'.hours) = DOMAIN g
               /\ \A x \in Range(file'.tokens) : ~x.old
               /\ \A x \in Range(file'.hours) : x.old = ("dated" \in g[x.story])
        <3>1. file'.markers = {"reshaped", "rebased"}
            BY <2>1, <2>4 DEF StayInv, NewAreMigrated
        <3>2. \A x \in Range(file'.hours) : x.story \in StoriesOf(file'.hours)
            BY DEF Range, StoriesOf
        <3>3. \A x \in Range(file'.hours) : ~x.old
            BY <2>1, <2>4, <3>2 DEF AgeInv, DatedAreOld
        <3> QED
            BY <2>1, <2>2, <2>4, <3>1, <3>3 DEF AgeInv, NothingSetAsideYet, OldApart
    <2> QED
        BY <1>6, <2>3, <2>4, RebuildIs
<1> QED
    BY <1>2, <1>3, <1>4, <1>5, <1>6
-----------------------------------------------------------------------------
(* The theorems.                                                            *)

\* Calls, the lock and what was read under it stay consistent, and no story is counted
\* more often than its markers and the calls that died allow.
THEOREM CallsAreConsistent ==
    ASSUME CallersAreApart
    PROVE  Spec => [](CallInv /\ CountsAreBounded)
<1>1. Init => CallInv /\ CountsAreBounded
    BY InitInv
<1>2. CallInv /\ CountsAreBounded /\ [Next]_vars => (CallInv /\ CountsAreBounded)'
    <2> SUFFICES ASSUME CallInv, CountsAreBounded, [Next]_vars
                 PROVE  CallInv' /\ CountsAreBounded'
        OBVIOUS
    <2>1. CallInv'
        BY CallNext
    <2>2. CountsAreBounded'
        BY <2>1, CountNext DEF CallInv
    <2> QED
        BY <2>1, <2>2
<1> QED
    BY <1>1, <1>2, PTL DEF Spec

\* The state stays within its types, and calibration_lock is held exactly where a call
\* has read the file and not written it yet.
THEOREM TypeCorrect ==
    ASSUME CallersAreApart
    PROVE  Spec => []TypeOK
<1>1. CallInv /\ CountsAreBounded => TypeOK
    BY DEF CallInv
<1> QED
    BY <1>1, CallsAreConsistent, PTL

\* However many agents close, re-run and rebuild, a story has one sample, and one more
\* at most for each call that died between its append and its marker.
THEOREM StoriesAreCountedOnce ==
    ASSUME CallersAreApart
    PROVE  Spec => []SampledOnce
<1>1. CallInv /\ CountsAreBounded => SampledOnce
    <2> SUFFICES ASSUME CallInv, CountsAreBounded, NEW s \in Stories
                 PROVE  Times(s, file.tokens) <= 1 + died /\ Times(s, file.hours) <= 1 + died
        BY DEF SampledOnce
    <2>1. Times(s, file.tokens) \in Nat /\ Times(s, file.hours) \in Nat /\ died \in Nat
        BY FileTimes DEF CallInv, TypeOK
    <2> QED
        BY <2>1 DEF CountsAreBounded
<1> QED
    BY <1>1, CallsAreConsistent, PTL

\* A sample measured in today's sense stays in the file: no other agent's append, no
\* migration and no rebuild from the nodes loses it, as far as the file is migrated before
\* it is rebuilt (MigrateFirst).
THEOREM SamplesStay ==
    ASSUME CallersAreApart, MigrateFirst
    PROVE  Spec => CountedStays
<1> DEFINE Inv == CallInv /\ StayInv
           Keeps == \A s \in Stories :
             /\ "tokens" \in node[s] /\ TokensOf(s, node[s]) \in Range(file.tokens) =>
                  s \in StoriesOf(file'.tokens)
             /\ [story |-> s, old |-> FALSE] \in Range(file.hours) => s \in StoriesOf(file'.hours)
<1>1. Init => Inv
    BY InitInv, InitStay
<1>2. Inv /\ [Next]_vars => Inv' /\ Keeps
    <2> SUFFICES ASSUME CallInv, StayInv, [Next]_vars
                 PROVE  CallInv' /\ StayInv' /\ Keeps
        OBVIOUS
    <2>1. CallInv'
        BY CallNext
    <2>2. StayInv' /\ KeepsNew
        BY <2>1, StayNext DEF CallInv
    <2>3. Keeps
        BY <2>2 DEF KeepsNew, New, TokensOf
    <2> QED
        BY <2>1, <2>2, <2>3
<1> HIDE DEF Inv
<1> QED
    BY <1>1, <1>2, PTL DEF Spec, CountedStays

\* What the migrations set aside is what was measured in the old sense, all of it and
\* nothing else, as far as the stories closed under an older version stay as they are.
THEOREM OnlyOldSamplesAreSetAside ==
    ASSUME CallersAreApart, MigrateFirst, OldStandStill
    PROVE  Spec => []OnlyOldIsSetAside
<1> DEFINE Inv == CallInv /\ StayInv /\ AgeInv
<1>1. Init => Inv
    BY InitInv, InitStay, InitAge
<1>2. Inv /\ [Next]_vars => Inv'
    <2> SUFFICES ASSUME CallInv, StayInv, AgeInv, [Next]_vars
                 PROVE  CallInv' /\ StayInv' /\ AgeInv'
        OBVIOUS
    <2>1. CallInv'
        BY CallNext
    <2>2. StayInv'
        BY <2>1, StayNext DEF CallInv
    <2>3. AgeInv'
        BY AgeNext
    <2> QED
        BY <2>1, <2>2, <2>3
<1>3. Inv => OnlyOldIsSetAside
    BY AgeIs DEF AgeInv
<1> HIDE DEF Inv
<1> QED
    BY <1>1, <1>2, <1>3, PTL DEF Spec
=============================================================================
