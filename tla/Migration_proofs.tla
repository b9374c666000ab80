--------------------------- MODULE Migration_proofs ---------------------------
(***************************************************************************)
(* Proofs about the migration.                                             *)
(***************************************************************************)
EXTENDS Migration, TLAPS

-----------------------------------------------------------------------------
(* The invariants.                                                          *)

\* The old project keeps its plan in one status file; split-status makes the
\* other two of it, or has not been run.
OneStatusFile ==
    \A doc \in Starts : \A f \in FileNames \ {"active"} : doc[f] = Missing

Layouts == {"none", "split", "flat", "artifacts"}

Jobs == [layout : Layouts, plan : Listings, todo : SUBSET Nodes, at : Nodes \cup {"none"},
         node : Records \cup {NoRecord}, failed : BOOLEAN]

\* A run works through what it has planned, and has the node in hand that it adds
\* a goal to.
HasInHand(r) ==
    /\ job[r].todo \subseteq Planned(job[r].plan)
    /\ pc[r] \in {"save", "field", "fieldsave"} =>
         job[r].at \in Nodes /\ job[r].at \in Planned(job[r].plan) /\ job[r].at \notin job[r].todo
    /\ pc[r] \in {"field", "fieldsave"} => tree[job[r].at] # NoRecord
    /\ pc[r] = "fieldsave" => job[r].node \in Records

Typed == TypeOK /\ job \in [Runs -> Jobs] /\ \A r \in Runs : HasInHand(r)

\* The holder of an epic's flock knows its node as it is: not there, or as loaded.
EpicInHand(r) ==
    /\ pc[r] \in {"save", "fieldsave"} /\ job[r].at \in Epics => holder[job[r].at] = r
    /\ pc[r] = "save" /\ job[r].at \in Epics => tree[job[r].at] = NoRecord
    /\ pc[r] = "fieldsave" /\ job[r].at \in Epics => job[r].node = tree[job[r].at]

WorkedStand == \A k \in worked : tree[k] # NoRecord

EpicInv == Typed /\ WorkedStand /\ \A r \in Runs : EpicInHand(r)

\* What the one status file said of the nodes.
Doc == first["active"]

\* No status file says of k any more what the first one did.
Gone(k) == Doc[k] # NoRecord /\ \A f \in FileNames : source[f][k] # Doc[k]

Shell(k) == [Doc[k] EXCEPT !.status = "backlog"]
IsShellOf(record, k) ==
    k \in Epics /\ Doc[k] # NoRecord /\ Doc[k].status = "in-progress" /\ record = Shell(k)

\* The status files hold parts of the first one, and shells of epics that have begun.
SourcesAreParts ==
    /\ first \in [FileNames -> Listings]
    /\ \A f \in FileNames, k \in Nodes :
         source[f][k] = NoRecord \/ source[f][k] = Doc[k] \/ IsShellOf(source[f][k], k)
    /\ legacy["active"] = Missing /\ Present("active") => source["active"] = Doc
    /\ \A f \in FileNames \ {"active"} : first[f] = Missing

DirsStand ==
    /\ \A k \in Nodes : tree[k] # NoRecord => Home(k) \in dirs
    /\ \A r \in Runs : pc[r] = "save" => Home(job[r].at) \in dirs

\* The plan of a run has the first file's record of a node, or a shell of one that
\* has been migrated; and it covers the files that the run will retire.
PlanIsRight(r) ==
    pc[r] # "idle" =>
      /\ \A k \in Planned(job[r].plan) :
           Doc[k] # NoRecord =>
             job[r].plan[k] = Doc[k] \/ (Gone(k) /\ IsShellOf(job[r].plan[k], k))
      /\ \A f \in FilesOf(job[r].layout), k \in Nodes :
           source[f][k] # NoRecord => k \in Planned(job[r].plan)
      /\ pc[r] = "dispose" => job[r].todo = {} /\ ~job[r].failed

InTree(k) == tree[k].status = Doc[k].status /\ (k \in Epics => tree[k].goal = Doc[k].goal)

\* What is in the tree is what the file said, with its goal or still without it.
TreeIsRight ==
    \A k \in Nodes \ worked :
        Doc[k] # NoRecord /\ tree[k] # NoRecord =>
          /\ tree[k].status = Doc[k].status
          /\ k \in Epics => tree[k].goal \in {NoGoal, Doc[k].goal}

NodeIsRight(r) ==
    pc[r] = "fieldsave" /\ job[r].at \notin worked /\ Doc[job[r].at] # NoRecord =>
      job[r].node.status = Doc[job[r].at].status

InProgressOn(r, k) == job[r].at = k /\ pc[r] \in {"save", "field", "fieldsave"}

\* What a run that has not failed is through with is in the tree.
FinishedStand(r) ==
    pc[r] # "idle" /\ ~job[r].failed =>
      \A k \in Planned(job[r].plan) \ (job[r].todo \cup worked) :
        Doc[k] # NoRecord /\ ~InProgressOn(r, k) => InTree(k)

GoneAreInTree == \A k \in Nodes \ worked : Gone(k) => InTree(k)

IInv ==
    /\ EpicInv /\ SourcesAreParts /\ DirsStand /\ TreeIsRight /\ GoneAreInTree
    /\ \A r \in Runs : PlanIsRight(r) /\ NodeIsRight(r) /\ FinishedStand(r)

-----------------------------------------------------------------------------
(* Reading.                                                                 *)

LEMMA NoRecordIsNone ==
    /\ NoRecord \notin Records
    /\ NoRecord.goal = NoGoal /\ NoRecord.status = "none"
    /\ \A x \in Records : x # NoRecord /\ x.status \in Statuses
  BY DEF NoRecord, Records, Statuses

LEMMA MissingIsAListing == Missing \in Listings
  BY DEF Missing, Listings

\* Of records with a status, one is as rich as any: there always is a best one.
LEMMA SomeIsBest ==
    ASSUME NEW files \in SUBSET FileNames, NEW k \in Nodes, source \in [FileNames -> Listings],
           NEW some \in files, Lists(some, k)
    PROVE  \E f \in files : Lists(f, k) /\
             \A h \in files : Lists(h, k) => ~Richer(source[h][k], source[f][k])
  <1> DEFINE having == {f \in files : Lists(f, k)}
             rank(f) == 2 * Stage(source[f][k].status)
                          + (IF source[f][k].goal # NoGoal THEN 1 ELSE 0)
  <1>1. \A f \in having : rank(f) \in 0..5 /\ Stage(source[f][k].status) \in 0..2
    <2> SUFFICES ASSUME NEW f \in having  PROVE  rank(f) \in 0..5 /\ Stage(source[f][k].status) \in 0..2
      OBVIOUS
    <2>1. source[f][k] \in Records \cup {NoRecord}
      BY DEF Listings
    <2>2. source[f][k].status \in {"backlog", "in-progress", "done"}
      BY <2>1 DEF Lists, Records, Statuses
    <2> QED  BY <2>2 DEF Stage
  <1>2. \A f, h \in having : Richer(source[h][k], source[f][k]) => rank(h) > rank(f)
    BY <1>1 DEF Richer
  <1>3. \E f \in having : \A h \in having : ~(rank(h) > rank(f))
    <2>1. some \in having
      OBVIOUS
    <2>2. having \subseteq {"active", "backlog", "archived"}
      BY DEF FileNames
    <2>3. \A f \in having : rank(f) \in Nat
      BY <1>1
    <2> HIDE DEF rank, having
    <2> QED  BY <2>1, <2>2, <2>3
  <1> HIDE DEF rank
  <1> QED  BY <1>2, <1>3

\* dedupe gives one of the records that it is given, for which there is none richer.
LEMMA ChosenIsBest ==
    ASSUME NEW files \in SUBSET FileNames, NEW k \in Nodes, source \in [FileNames -> Listings],
           \E f \in files : Lists(f, k)
    PROVE  /\ Chosen(files, k) \in files /\ Lists(Chosen(files, k), k)
           /\ \A h \in files : Lists(h, k) =>
                ~Richer(source[h][k], source[Chosen(files, k)][k])
  <1> DEFINE having == {f \in files : Lists(f, k)}
             best == {f \in having : \A h \in having : ~Richer(source[h][k], source[f][k])}
  <1>1. best # {}
    BY SomeIsBest
  <1>2. \E f \in best : \A g \in best : Position[f] <= Position[g]
    <2>1. best \subseteq {"active", "backlog", "archived"}
      BY DEF FileNames
    <2>2. Position["active"] = 1 /\ Position["backlog"] = 2 /\ Position["archived"] = 3
      BY DEF Position
    <2> HIDE DEF best
    <2>3. CASE "active" \in best
      BY <2>1, <2>2, <2>3
    <2>4. CASE "active" \notin best /\ "backlog" \in best
      BY <2>1, <2>2, <2>4
    <2>5. CASE "active" \notin best /\ "backlog" \notin best
      <3>1. "archived" \in best
        BY <1>1, <2>1, <2>5
      <3> QED  BY <2>1, <2>2, <2>5, <3>1
    <2> QED  BY <2>3, <2>4, <2>5
  <1>3. Chosen(files, k) = CHOOSE f \in best : \A g \in best : Position[f] <= Position[g]
    BY DEF Chosen
  <1>4. Chosen(files, k) \in best
    <2> HIDE DEF best
    <2> QED  BY <1>2, <1>3
  <1> QED  BY <1>4

LEMMA LayoutIsOne == Layout \in Layouts
  BY DEF Layout, Layouts

LEMMA PlanIsAListing ==
    ASSUME source \in [FileNames -> Listings], MigrationAssumption
    PROVE  Plan \in Listings
  <1>1. FromDocuments \in Listings
    <2>1. \A x : RollUp(x) \in Statuses
      BY DEF RollUp, Statuses
    <2> DEFINE fresh == {t \in Stories : Written[t] # "none" /\ tree[t] = NoRecord}
               ofSprint(s) == RollUp({Written[t] : t \in {u \in fresh : SprintOf[u] = s}})
               sprints(e) == {SprintOf[t] : t \in {u \in fresh : EpicOf[u] = e}}
               status == [k \in Nodes |->
                   CASE k \in fresh -> Written[k]
                     [] k \in {SprintOf[t] : t \in fresh} \ dirs -> ofSprint(k)
                     [] k \in {EpicOf[t] : t \in fresh} \ dirs ->
                          RollUp({ofSprint(s) : s \in sprints(k)})
                     [] OTHER -> "none"]
    <2>2. FromDocuments = [k \in Nodes |-> [status |-> status[k], goal |-> NoGoal]]
      BY Zenon DEF FromDocuments
    <2>3. ASSUME NEW k \in Nodes  PROVE  status[k] \in Statuses \cup {"none"}
      <3> DEFINE ofEpic == RollUp({ofSprint(s) : s \in sprints(k)})
                 sprinted == k \in {SprintOf[t] : t \in fresh} \ dirs
                 epiced == k \in {EpicOf[t] : t \in fresh} \ dirs
                 written == Written[k]
                 one == ofSprint(k)
      <3>1. k \in fresh => written \in Statuses \cup {"none"}
        BY DEF MigrationAssumption
      <3>2. one \in Statuses /\ ofEpic \in Statuses
        BY <2>1
      <3>3. status[k] = CASE k \in fresh -> written [] sprinted -> one [] epiced -> ofEpic
                          [] OTHER -> "none"
        BY Zenon
      <3> HIDE DEF status, ofEpic, sprinted, epiced, written, one, fresh
      <3> QED  BY <3>1, <3>2, <3>3
    <2> HIDE DEF status
    <2>4. ASSUME NEW k \in Nodes
          PROVE  [status |-> status[k], goal |-> NoGoal] \in Records \cup {NoRecord}
      BY <2>3 DEF Records, NoRecord
    <2> QED  BY <2>2, <2>4 DEF Listings
  <1>2. ASSUME NEW files \in SUBSET FileNames  PROVE  FromFiles(files) \in Listings
    <2> SUFFICES ASSUME NEW k \in Nodes, \E f \in files : Lists(f, k)
                 PROVE  source[Chosen(files, k)][k] \in Records \cup {NoRecord}
      BY DEF FromFiles, Listings
    <2>1. Chosen(files, k) \in files
      BY ChosenIsBest
    <2> QED  BY <2>1 DEF Listings
  <1>3. FilesOf(Layout) \in SUBSET FileNames
    BY DEF FilesOf, FileNames
  <1> QED  BY <1>1, <1>2, <1>3 DEF Plan

-----------------------------------------------------------------------------
(* Types, and what a run has in hand.                                       *)

\* A step of a run leaves the other runs where they are, and no node goes away.
OthersStay(r) == \A q \in Runs \ {r} : pc'[q] = pc[q] /\ job'[q] = job[q]
NodesStay == \A k \in Nodes : tree[k] # NoRecord => tree'[k] # NoRecord

FilesTyped ==
    /\ source \in [FileNames -> Listings] /\ legacy \in [FileNames -> Listings]
    /\ dirs \subseteq Epics \cup Sprints /\ tree \in Listings
    /\ holder \in [Epics -> Runs \cup {NoRun}] /\ pc \in [Runs -> Places]
    /\ died \in 0..MaxDeaths /\ lapsed \in 0..MaxFailures /\ worked \subseteq Nodes

LEMMA TypedParts ==
    Typed <=> FilesTyped /\ job \in [Runs -> Jobs] /\ \A r \in Runs : HasInHand(r)
  <1>1. job \in [Runs -> Jobs] =>
          \A r \in Runs :
            /\ job[r].layout \in {"none", "split", "flat", "artifacts"}
            /\ job[r].plan \in Listings /\ job[r].todo \subseteq Nodes
            /\ job[r].node \in Records \cup {NoRecord} /\ job[r].failed \in BOOLEAN
    <2> SUFFICES ASSUME job \in [Runs -> Jobs], NEW r \in Runs
                 PROVE  /\ job[r].layout \in {"none", "split", "flat", "artifacts"}
                        /\ job[r].plan \in Listings /\ job[r].todo \subseteq Nodes
                        /\ job[r].node \in Records \cup {NoRecord} /\ job[r].failed \in BOOLEAN
      OBVIOUS
    <2>1. job[r] \in Jobs
      OBVIOUS
    <2> QED  BY <2>1 DEF Jobs, Layouts
  <1> QED  BY <1>1, Zenon DEF Typed, TypeOK, FilesTyped

LEMMA TypedPartsNext ==
    (Typed <=> FilesTyped /\ job \in [Runs -> Jobs] /\ \A r \in Runs : HasInHand(r))'
  BY TypedParts, PTL

\* What the step of one run establishes, when the others stay where they are.
LEMMA OneRunTyped ==
    ASSUME Typed, NEW r \in Runs, FilesTyped', job' \in [Runs -> Jobs], HasInHand(r)',
           OthersStay(r), NodesStay
    PROVE  Typed'
  <1>0. (Typed <=> FilesTyped /\ job \in [Runs -> Jobs] /\ \A q \in Runs : HasInHand(q))'
    BY TypedPartsNext
  <1>1. ASSUME NEW q \in Runs  PROVE  HasInHand(q)'
    <2>1. CASE q = r
      BY <2>1
    <2>2. CASE q # r
      <3>1. HasInHand(q) /\ pc'[q] = pc[q] /\ job'[q] = job[q]
        BY <2>2, TypedParts DEF OthersStay
      <3> QED  BY <3>1 DEF HasInHand, NodesStay
    <2> QED  BY <2>1, <2>2
  <1> QED  BY <1>0, <1>1

LEMMA JobForms ==
    ASSUME job \in [Runs -> Jobs], NEW r \in Runs, NEW k \in Nodes
    PROVE  /\ NoJob \in Jobs
           /\ job[r] \in Jobs
           /\ [job[r] EXCEPT !.todo = @ \ {k}, !.at = k] \in Jobs
           /\ [job[r] EXCEPT !.todo = @ \ {k}, !.failed = TRUE] \in Jobs
           /\ [job[r] EXCEPT !.failed = TRUE] \in Jobs
           /\ \A n \in Records \cup {NoRecord} : [job[r] EXCEPT !.node = n] \in Jobs
  BY MissingIsAListing DEF Jobs, NoJob, Layouts

LEMMA DueIsPlanned ==
    ASSUME Typed, NEW r \in Runs
    PROVE  Due(r) \subseteq job[r].todo /\ Due(r) \subseteq Nodes
           /\ job[r].todo \subseteq Planned(job[r].plan)
  BY DEF Due, Typed, HasInHand, Planned

LEMMA BeginTyped ==
    ASSUME MigrationAssumption, Typed, NEW r \in Runs, Begin(r)
    PROVE  Typed' /\ NodesStay /\ OthersStay(r)
  <1> DEFINE new == [NoJob EXCEPT !.layout = Layout, !.plan = Plan, !.todo = Planned(Plan)]
  <1>1. new \in Jobs /\ new.todo = Planned(new.plan)
    <2>1. Plan \in Listings /\ Layout \in Layouts /\ Planned(Plan) \in SUBSET Nodes
      BY PlanIsAListing, LayoutIsOne DEF Typed, TypeOK, Planned
    <2> HIDE DEF Layouts
    <2> QED  BY <2>1 DEF Jobs, NoJob
  <1>2. job' = [job EXCEPT ![r] = new] /\ pc' = [pc EXCEPT ![r] = "next"]
    BY DEF Begin, Goto
  <1> HIDE DEF new
  <1>3. job' \in [Runs -> Jobs] /\ job'[r] = new /\ pc'[r] = "next" /\ OthersStay(r)
    BY <1>1, <1>2 DEF Typed, TypeOK, OthersStay
  <1>4. FilesTyped' /\ NodesStay
    BY <1>2, TypedParts DEF FilesTyped, Begin, NodesStay, Places
  <1>5. HasInHand(r)'
    BY <1>1, <1>3 DEF HasInHand, Planned
  <1> QED  BY <1>3, <1>4, <1>5, OneRunTyped

LEMMA ImportTyped ==
    ASSUME MigrationAssumption, Typed, NEW r \in Runs,
           ImportSkips(r) \/ ImportStarts(r) \/ ImportRefused(r)
    PROVE  Typed' /\ NodesStay /\ OthersStay(r)
  <1>0. /\ FilesTyped /\ job \in [Runs -> Jobs] /\ HasInHand(r) /\ job[r] \in Jobs
        /\ Due(r) \subseteq job[r].todo /\ Due(r) \subseteq Nodes
        /\ job[r].todo \subseteq Planned(job[r].plan)
    BY TypedParts, DueIsPlanned
  <1>1. CASE ImportSkips(r)
    <2>1. PICK k \in Due(r) :
            /\ tree[k] # NoRecord /\ job' = Took(r, k) /\ Goto(r, Onward(r, k))
            /\ UNCHANGED <<source, legacy, dirs, tree, holder, died, lapsed, first, worked>>
      BY <1>1 DEF ImportSkips
    <2>2. /\ job' \in [Runs -> Jobs] /\ OthersStay(r)
          /\ job'[r] = [job[r] EXCEPT !.todo = @ \ {k}, !.at = k]
          /\ pc' \in [Runs -> Places] /\ pc'[r] \in {"field", "next"}
      BY <1>0, <2>1, JobForms DEF FilesTyped, Took, Goto, Onward, Places, OthersStay
    <2>3. FilesTyped' /\ NodesStay
      BY <1>0, <2>1, <2>2 DEF FilesTyped, NodesStay
    <2>4. HasInHand(r)'
      <3>1. job'[r].at = k /\ job'[r].todo = job[r].todo \ {k} /\ job'[r].plan = job[r].plan
        BY <1>0, <2>2 DEF Jobs
      <3> QED  BY <1>0, <2>1, <2>2, <3>1 DEF HasInHand
    <2> QED  BY <2>2, <2>3, <2>4, OneRunTyped
  <1>2. CASE ImportStarts(r)
    <2>1. PICK k \in Due(r) :
            /\ job' = Took(r, k) /\ Goto(r, "save") /\ dirs' = dirs \cup {Home(k)}
            /\ holder' = holder \/ (k \in Epics /\ holder' = [holder EXCEPT ![k] = r])
            /\ UNCHANGED <<source, legacy, tree, died, lapsed, first, worked>>
      BY <1>2 DEF ImportStarts
    <2>2. /\ job' \in [Runs -> Jobs] /\ OthersStay(r)
          /\ job'[r] = [job[r] EXCEPT !.todo = @ \ {k}, !.at = k]
          /\ pc' \in [Runs -> Places] /\ pc'[r] = "save"
      BY <1>0, <2>1, JobForms DEF FilesTyped, Took, Goto, Places, OthersStay
    <2>3. FilesTyped' /\ NodesStay
      BY <1>0, <2>1, <2>2 DEF FilesTyped, NodesStay, Home, Nodes, MigrationAssumption
    <2>4. HasInHand(r)'
      <3>1. job'[r].at = k /\ job'[r].todo = job[r].todo \ {k} /\ job'[r].plan = job[r].plan
        BY <1>0, <2>2 DEF Jobs
      <3> QED  BY <1>0, <2>1, <2>2, <3>1 DEF HasInHand
    <2> QED  BY <2>2, <2>3, <2>4, OneRunTyped
  <1>3. CASE ImportRefused(r)
    <2>1. PICK k \in Due(r) :
            /\ pc[r] = "next" /\ job' = Failing(r, k)
            /\ UNCHANGED <<source, legacy, dirs, tree, holder, pc, died, lapsed, first, worked>>
      BY <1>3 DEF ImportRefused
    <2>2. /\ job' \in [Runs -> Jobs] /\ OthersStay(r)
          /\ job'[r] = [job[r] EXCEPT !.todo = @ \ {k}, !.failed = TRUE]
      BY <1>0, <2>1, JobForms DEF FilesTyped, Failing, OthersStay
    <2>3. FilesTyped' /\ NodesStay
      BY <1>0, <2>1, <2>2 DEF FilesTyped, NodesStay
    <2>4. HasInHand(r)'
      <3>1. job'[r].todo = job[r].todo \ {k} /\ job'[r].plan = job[r].plan
        BY <1>0, <2>2 DEF Jobs
      <3> QED  BY <1>0, <2>1, <2>2, <3>1 DEF HasInHand
    <2> QED  BY <2>2, <2>3, <2>4, OneRunTyped
  <1> QED  BY <1>1, <1>2, <1>3

LEMMA InHandIsTyped ==
    ASSUME Typed, NEW r \in Runs
    PROVE  /\ FilesTyped /\ job \in [Runs -> Jobs] /\ HasInHand(r) /\ job[r] \in Jobs
           /\ job[r].plan \in Listings
           /\ pc[r] \in {"save", "field", "fieldsave"} =>
                /\ job[r].at \in Nodes /\ job[r].plan[job[r].at] \in Records
                /\ tree[job[r].at] \in Records \cup {NoRecord}
           /\ pc[r] \in {"field", "fieldsave"} => tree[job[r].at] \in Records
  <1>1. FilesTyped /\ job \in [Runs -> Jobs] /\ HasInHand(r)
    BY TypedParts
  <1>2. job[r] \in Jobs
    BY <1>1
  <1>3. job[r].plan \in Listings
    BY <1>2 DEF Jobs
  <1>4. tree \in Listings
    BY <1>1 DEF FilesTyped
  <1> QED  BY <1>1, <1>2, <1>3, <1>4 DEF HasInHand, Planned, Listings

LEMMA WriteTyped ==
    ASSUME MigrationAssumption, Typed, NEW r \in Runs,
           SaveNode(r) \/ FieldLoad(r) \/ FieldSave(r)
    PROVE  Typed' /\ NodesStay /\ OthersStay(r)
  <1> DEFINE k == job[r].at
  <1>0. /\ FilesTyped /\ job \in [Runs -> Jobs] /\ HasInHand(r) /\ job[r] \in Jobs
        /\ pc[r] \in {"save", "field", "fieldsave"} => k \in Nodes /\ job[r].plan[k] \in Records
        /\ pc[r] \in {"field", "fieldsave"} => tree[k] \in Records
    BY InHandIsTyped
  <1>1. CASE SaveNode(r)
    <2> DEFINE new == [status |-> job[r].plan[k].status, goal |-> NoGoal]
    <2>1. /\ pc[r] = "save" /\ pc' = [pc EXCEPT ![r] = Onward(r, k)] /\ job' = job
          /\ tree' = [tree EXCEPT ![k] = new] /\ holder' = Released(r)
          /\ UNCHANGED <<source, legacy, dirs, died, lapsed, worked>>
      BY <1>1 DEF SaveNode, Goto
    <2>2. new \in Records /\ new # NoRecord
      BY <1>0, <2>1, NoRecordIsNone DEF Records
    <2> HIDE DEF new, k
    <2>3. tree' \in Listings /\ NodesStay /\ tree'[k] # NoRecord
      BY <1>0, <2>1, <2>2 DEF FilesTyped, Listings, NodesStay
    <2>4. holder' \in [Epics -> Runs \cup {NoRun}]
      BY <1>0, <2>1 DEF Released, FilesTyped
    <2>5. /\ pc' \in [Runs -> Places] /\ pc'[r] \in {"field", "next"} /\ OthersStay(r)
      BY <1>0, <2>1 DEF FilesTyped, Onward, Places, OthersStay
    <2>6. FilesTyped'
      BY <1>0, <2>1, <2>3, <2>4, <2>5 DEF FilesTyped
    <2>7. HasInHand(r)'
      BY <1>0, <2>1, <2>3, <2>5 DEF HasInHand, k
    <2> QED  BY <1>0, <2>1, <2>3, <2>5, <2>6, <2>7, OneRunTyped
  <1>2. CASE FieldLoad(r)
    <2>1. /\ pc[r] = "field" /\ pc' = [pc EXCEPT ![r] = "fieldsave"]
          /\ job' = [job EXCEPT ![r] = [job[r] EXCEPT !.node = tree[k]]]
          /\ holder' = holder \/ holder' = [holder EXCEPT ![k] = r]
          /\ UNCHANGED <<source, legacy, dirs, tree, died, lapsed, worked>>
      BY <1>2 DEF FieldLoad, Goto
    <2>2. tree[k] \in Records
      BY <1>0, <2>1
    <2> HIDE DEF k
    <2>3. /\ job' \in [Runs -> Jobs] /\ job'[r] = [job[r] EXCEPT !.node = tree[k]]
          /\ pc' \in [Runs -> Places] /\ pc'[r] = "fieldsave" /\ OthersStay(r)
      BY <1>0, <2>1, <2>2, JobForms DEF FilesTyped, Places, OthersStay
    <2>4. FilesTyped' /\ NodesStay
      BY <1>0, <2>1, <2>3 DEF FilesTyped, NodesStay
    <2>5. /\ job'[r].at = job[r].at /\ job'[r].plan = job[r].plan
          /\ job'[r].todo = job[r].todo /\ job'[r].node = tree[k]
      BY <1>0, <2>3 DEF Jobs
    <2>6. HasInHand(r)'
      BY <1>0, <2>1, <2>2, <2>3, <2>5 DEF HasInHand, k
    <2> QED  BY <2>3, <2>4, <2>6, OneRunTyped
  <1>3. CASE FieldSave(r)
    <2> DEFINE new == [job[r].node EXCEPT !.goal = job[r].plan[k].goal]
    <2>1. /\ pc[r] = "fieldsave" /\ pc' = [pc EXCEPT ![r] = "next"]
          /\ job' = [job EXCEPT ![r] = [job[r] EXCEPT !.node = NoRecord]]
          /\ tree' = [tree EXCEPT ![k] = new] /\ holder' = Released(r)
          /\ UNCHANGED <<source, legacy, dirs, died, lapsed, worked>>
      BY <1>3 DEF FieldSave, Goto
    <2>2. new \in Records /\ new # NoRecord
      <3>1. job[r].node \in Records /\ job[r].plan[k] \in Records
        BY <1>0, <2>1 DEF HasInHand
      <3> HIDE DEF k
      <3> QED  BY <3>1, NoRecordIsNone DEF Records
    <2> HIDE DEF new, k
    <2>3. tree' \in Listings /\ NodesStay
      BY <1>0, <2>1, <2>2 DEF FilesTyped, Listings, NodesStay
    <2>4. holder' \in [Epics -> Runs \cup {NoRun}]
      BY <1>0, <2>1 DEF Released, FilesTyped
    <2>5. /\ job' \in [Runs -> Jobs] /\ job'[r] = [job[r] EXCEPT !.node = NoRecord]
          /\ pc' \in [Runs -> Places] /\ pc'[r] = "next" /\ OthersStay(r)
      BY <1>0, <2>1, JobForms DEF FilesTyped, Places, OthersStay
    <2>6. FilesTyped'
      BY <1>0, <2>1, <2>3, <2>4, <2>5 DEF FilesTyped
    <2>7. job'[r].plan = job[r].plan /\ job'[r].todo = job[r].todo
      BY <1>0, <2>5 DEF Jobs
    <2>8. HasInHand(r)'
      BY <1>0, <2>5, <2>7 DEF HasInHand
    <2> QED  BY <2>3, <2>5, <2>6, <2>8, OneRunTyped
  <1> QED  BY <1>1, <1>2, <1>3

LEMMA EndTyped ==
    ASSUME MigrationAssumption, Typed, NEW r \in Runs,
           \/ CommandFails(r) \/ Verify(r) \/ RunFails(r) \/ Dispose(r) \/ Done(r) \/ Die(r)
    PROVE  Typed' /\ NodesStay /\ OthersStay(r)
  <1>0. FilesTyped /\ job \in [Runs -> Jobs] /\ HasInHand(r) /\ job[r] \in Jobs
    BY InHandIsTyped
  <1>1. CASE CommandFails(r)
    <2>1. PICK k \in Nodes :
            /\ lapsed < MaxFailures /\ lapsed' = lapsed + 1
            /\ \/ job' = Failing(r, k)
               \/ job' = [job EXCEPT ![r] = [job[r] EXCEPT !.failed = TRUE]]
            /\ pc' = [pc EXCEPT ![r] = "next"]
            /\ UNCHANGED <<source, legacy, dirs, tree, holder, died, first, worked>>
      <3>1. CASE pc[r] = "next"
        BY <1>1, <3>1, DueIsPlanned DEF CommandFails, Goto
      <3>2. CASE pc[r] = "field"
        BY <1>0, <1>1, <3>2 DEF CommandFails, Goto, HasInHand
      <3> QED  BY <1>1, <3>1, <3>2 DEF CommandFails
    <2>2. OthersStay(r) /\ pc'[r] = "next" /\ pc' \in [Runs -> Places]
      BY <1>0, <2>1 DEF FilesTyped, Failing, OthersStay, Places
    <2>4. /\ job' \in [Runs -> Jobs]
          /\ job'[r].plan = job[r].plan /\ job'[r].todo \subseteq job[r].todo
      <3>1. CASE job' = Failing(r, k)
        <4>1. job' \in [Runs -> Jobs] /\ job'[r] = [job[r] EXCEPT !.todo = @ \ {k}, !.failed = TRUE]
          BY <1>0, <3>1, JobForms DEF Failing
        <4> QED  BY <1>0, <4>1 DEF Jobs
      <3>2. CASE job' = [job EXCEPT ![r] = [job[r] EXCEPT !.failed = TRUE]]
        <4>1. job' \in [Runs -> Jobs] /\ job'[r] = [job[r] EXCEPT !.failed = TRUE]
          BY <1>0, <3>2, JobForms
        <4> QED  BY <1>0, <4>1 DEF Jobs
      <3> QED  BY <2>1, <3>1, <3>2
    <2>3. FilesTyped' /\ NodesStay
      <3>1. lapsed' \in 0..MaxFailures
        BY <1>0, <2>1 DEF FilesTyped, MigrationAssumption
      <3> QED  BY <1>0, <2>1, <2>2, <3>1 DEF FilesTyped, NodesStay
    <2>5. HasInHand(r)'
      BY <1>0, <2>2, <2>4 DEF HasInHand
    <2> QED  BY <2>2, <2>3, <2>4, <2>5, OneRunTyped
  <1>2. CASE Verify(r) \/ Dispose(r)
    <2>1. /\ pc[r] \in {"next", "dispose"} /\ pc' = [pc EXCEPT ![r] = "dispose"] /\ job' = job
          /\ \A f \in FileNames : source'[f] = source[f] \/ source'[f] = Missing
          /\ \A f \in FileNames : legacy'[f] = legacy[f] \/ legacy'[f] = source[f]
          /\ source' \in [FileNames -> Listings] /\ legacy' \in [FileNames -> Listings]
          /\ UNCHANGED <<dirs, tree, holder, died, lapsed, first, worked>>
      <3>1. CASE Verify(r)
        BY <1>0, <3>1 DEF Verify, Goto, FilesTyped
      <3>2. CASE Dispose(r)
        <4>1. PICK f \in ToRetire(r) :
                /\ pc[r] = "dispose" /\ legacy' = [legacy EXCEPT ![f] = source[f]]
                /\ source' = [source EXCEPT ![f] = Missing]
                /\ UNCHANGED <<dirs, tree, holder, pc, job, died, lapsed, first, worked>>
          BY <3>2 DEF Dispose
        <4>2. f \in FileNames
          BY <4>1 DEF ToRetire, FilesOf, FileNames
        <4>3. pc' = [pc EXCEPT ![r] = "dispose"]
          BY <1>0, <4>1 DEF FilesTyped
        <4> QED  BY <1>0, <4>1, <4>2, <4>3, MissingIsAListing DEF FilesTyped
      <3> QED  BY <1>2, <3>1, <3>2
    <2>2. pc' \in [Runs -> Places] /\ OthersStay(r) /\ pc'[r] = "dispose"
      BY <1>0, <2>1 DEF FilesTyped, Places, OthersStay
    <2>3. FilesTyped' /\ NodesStay
      BY <1>0, <2>1, <2>2 DEF FilesTyped, NodesStay
    <2>4. HasInHand(r)'
      BY <1>0, <2>1, <2>2 DEF HasInHand
    <2> QED  BY <1>0, <2>1, <2>2, <2>3, <2>4, OneRunTyped
  <1>3. CASE RunFails(r) \/ Done(r) \/ Die(r)
    <2>1. /\ pc' = [pc EXCEPT ![r] = "idle"] /\ job' = [job EXCEPT ![r] = NoJob]
          /\ holder' = holder \/ holder' = Released(r)
          /\ died' = died \/ (died < MaxDeaths /\ died' = died + 1)
          /\ UNCHANGED <<source, legacy, dirs, tree, lapsed, first, worked>>
      BY <1>3 DEF RunFails, Done, Die, End, Goto
    <2>2. /\ pc' \in [Runs -> Places] /\ OthersStay(r) /\ pc'[r] = "idle"
          /\ job' \in [Runs -> Jobs] /\ job'[r] = NoJob
      <3>1. NoJob \in Jobs
        BY MissingIsAListing DEF NoJob, Jobs, Layouts
      <3> QED  BY <1>0, <2>1, <3>1 DEF FilesTyped, Places, OthersStay
    <2>3. FilesTyped' /\ NodesStay
      <3>1. died' \in 0..MaxDeaths
        BY <1>0, <2>1 DEF FilesTyped, MigrationAssumption
      <3>2. holder' \in [Epics -> Runs \cup {NoRun}]
        BY <1>0, <2>1 DEF Released, FilesTyped
      <3> QED  BY <1>0, <2>1, <2>2, <3>1, <3>2 DEF FilesTyped, NodesStay
    <2>4. HasInHand(r)'
      BY <2>2 DEF HasInHand, NoJob
    <2> QED  BY <2>2, <2>3, <2>4, OneRunTyped
  <1> QED  BY <1>1, <1>2, <1>3

\* split-status makes files that list records.
LEMMA PartIsAListing ==
    ASSUME NEW doc \in Listings, NEW f \in FileNames
    PROVE  Part(doc, f) \in Listings
  <1> SUFFICES ASSUME NEW k \in Nodes  PROVE  Part(doc, f)[k] \in Records \cup {NoRecord}
    BY DEF Part, Listings
  <1>1. doc[k] \in Records \cup {NoRecord}
    BY DEF Listings
  <1>2. HasShell(doc, k) => [doc[k] EXCEPT !.status = "backlog"] \in Records
    <2> SUFFICES ASSUME HasShell(doc, k)
                 PROVE  [doc[k] EXCEPT !.status = "backlog"] \in Records
      OBVIOUS
    <2>1. doc[k] \in Records
      BY <1>1 DEF HasShell, Listed
    <2> QED  BY <2>1 DEF Records, Statuses
  <1> QED  BY <1>1, <1>2 DEF Part

LEMMA OthersTyped ==
    ASSUME MigrationAssumption, Typed, SplitStatus \/ \E k \in Nodes : Work(k)
    PROVE  Typed' /\ NodesStay
  <1>0. FilesTyped /\ job \in [Runs -> Jobs] /\ \A r \in Runs : HasInHand(r)
    BY TypedParts
  <1>1. UNCHANGED <<pc, job>>
    BY DEF SplitStatus, Work
  <1>2. FilesTyped' /\ NodesStay
    <2>1. CASE SplitStatus
      <3>1. source["active"] \in Listings
        BY <1>0 DEF FilesTyped, FileNames
      <3>2. source' \in [FileNames -> Listings]
        BY <2>1, <3>1, PartIsAListing DEF SplitStatus
      <3>3. legacy' \in [FileNames -> Listings]
        BY <1>0, <2>1, <3>1 DEF SplitStatus, FilesTyped
      <3> QED  BY <1>0, <2>1, <3>2, <3>3 DEF SplitStatus, FilesTyped, NodesStay
    <2>2. CASE \E k \in Nodes : Work(k)
      <3>1. PICK k \in Nodes : Work(k)
        BY <2>2
      <3> DEFINE done == [tree[k] EXCEPT !.status = "done"]
                 changed == [tree[k] EXCEPT !.goal = Revised]
      <3>2. tree[k] \in Records
        BY <1>0, <3>1 DEF Work, FilesTyped, Listings
      <3>3. done \in Records /\ changed \in Records /\ done # NoRecord /\ changed # NoRecord
        <4>1. done \in Records /\ changed \in Records
          BY <3>2 DEF Records, Statuses
        <4> QED  BY <4>1, NoRecordIsNone
      <3>4. tree' = [tree EXCEPT ![k] = done] \/ tree' = [tree EXCEPT ![k] = changed]
        BY <3>1 DEF Work
      <3> HIDE DEF done, changed
      <3>5. tree' \in Listings /\ NodesStay
        BY <1>0, <3>3, <3>4 DEF FilesTyped, Listings, NodesStay
      <3> QED  BY <1>0, <3>1, <3>5 DEF Work, FilesTyped
    <2> QED  BY <2>1, <2>2
  <1>3. \A r \in Runs : HasInHand(r)'
    BY <1>0, <1>1, <1>2 DEF HasInHand, NodesStay
  <1> QED  BY <1>0, <1>1, <1>2, <1>3, TypedPartsNext

LEMMA NextTyped ==
    ASSUME MigrationAssumption, Typed, Next
    PROVE  Typed' /\ NodesStay
  <1>1. ASSUME NEW r \in Runs, Begin(r) \/ Engine(r) \/ CommandFails(r) \/ Die(r)
        PROVE  Typed' /\ NodesStay
    BY <1>1, BeginTyped, ImportTyped, WriteTyped, EndTyped DEF Engine
  <1> QED  BY <1>1, OthersTyped DEF Next

LEMMA InitTyped ==
    ASSUME MigrationAssumption, Init
    PROVE  Typed
  <1>1. FilesTyped
    <2>1. source \in [FileNames -> Listings]
      BY DEF Init, MigrationAssumption
    <2> QED  BY <2>1, MissingIsAListing DEF Init, FilesTyped, Places, MigrationAssumption
  <1>2. job \in [Runs -> Jobs]
    <2>1. NoJob \in Jobs
      BY MissingIsAListing DEF NoJob, Jobs, Layouts
    <2> QED  BY <2>1 DEF Init
  <1>3. \A r \in Runs : HasInHand(r)
    BY DEF Init, HasInHand, NoJob
  <1> QED  BY <1>1, <1>2, <1>3, TypedParts

\* Every variable has its type, with what a run has in hand: only nodes of its plan,
\* and a node that is in the tree where it adds a goal.
THEOREM TypeCorrect == Spec => []TypeOK
  <1> USE MigrationAssumption
  <1>1. Typed /\ [Next]_vars => Typed'
    <2> SUFFICES ASSUME Typed, [Next]_vars  PROVE  Typed'
      OBVIOUS
    <2>1. CASE UNCHANGED vars
      BY <2>1 DEF vars, Typed, TypeOK, HasInHand
    <2> QED  BY <2>1, NextTyped
  <1>2. Typed => TypeOK
    BY DEF Typed
  <1> QED  BY <1>1, <1>2, InitTyped, PTL DEF Spec

-----------------------------------------------------------------------------
(* An epic's node belongs to the holder of its flock.                       *)

\* A run neither takes an epic from its holder nor writes its node.
LeavesHeldEpics(r) ==
    \A e \in Epics : holder[e] \notin {NoRun, r} => holder'[e] = holder[e] /\ tree'[e] = tree[e]

LEMMA OneRunInHand ==
    ASSUME MigrationAssumption, EpicInv, NEW r \in Runs, LeavesHeldEpics(r), OthersStay(r),
           EpicInHand(r)'
    PROVE  \A q \in Runs : EpicInHand(q)'
  <1> SUFFICES ASSUME NEW q \in Runs, q # r  PROVE  EpicInHand(q)'
    OBVIOUS
  <1>1. EpicInHand(q) /\ pc'[q] = pc[q] /\ job'[q] = job[q]
    BY DEF EpicInv, OthersStay
  <1>2. q # NoRun
    BY DEF MigrationAssumption
  <1> QED  BY <1>1, <1>2 DEF EpicInHand, LeavesHeldEpics

LEMMA EpicsAreNodes ==
    MigrationAssumption => Epics \subseteq Nodes /\ Stories \subseteq Nodes /\ Sprints \subseteq Nodes
  BY DEF Nodes

\* A run that is killed, or is through with a node, drops what it holds.
LEMMA ReleaseLeaves ==
    ASSUME Typed, NEW r \in Runs, holder' = Released(r),
           \A e \in Epics : holder[e] \notin {NoRun, r} => tree'[e] = tree[e]
    PROVE  LeavesHeldEpics(r)
  BY TypedParts DEF LeavesHeldEpics, Released, FilesTyped

LEMMA NextInHand ==
    ASSUME MigrationAssumption, EpicInv, NEW r \in Runs,
           Begin(r) \/ Engine(r) \/ CommandFails(r) \/ Die(r)
    PROVE  \A q \in Runs : EpicInHand(q)'
  <1>0. /\ FilesTyped /\ job \in [Runs -> Jobs] /\ HasInHand(r) /\ job[r] \in Jobs
        /\ EpicInHand(r) /\ Typed
    BY InHandIsTyped DEF EpicInv
  <1>1. OthersStay(r)
    BY <1>0, BeginTyped, ImportTyped, WriteTyped, EndTyped DEF Engine
  <1>2. CASE UNCHANGED <<tree, holder>> /\ pc'[r] \notin {"save", "fieldsave"}
    <2>1. LeavesHeldEpics(r) /\ EpicInHand(r)'
      BY <1>2 DEF LeavesHeldEpics, EpicInHand
    <2> QED  BY <1>0, <1>1, <2>1, OneRunInHand
  <1>3. CASE Begin(r) \/ ImportSkips(r) \/ ImportRefused(r) \/ CommandFails(r) \/ Verify(r)
               \/ RunFails(r) \/ Dispose(r) \/ Done(r)
    <2>1. UNCHANGED <<tree, holder>>
      BY <1>3 DEF Begin, ImportSkips, ImportRefused, CommandFails, Verify, RunFails, Dispose, Done
    <2>2. pc'[r] \notin {"save", "fieldsave"}
      BY <1>0, <1>3 DEF Begin, ImportSkips, ImportRefused, CommandFails, Verify, RunFails, Dispose,
                       Done, Goto, Onward, End, FilesTyped
    <2> QED  BY <1>2, <2>1, <2>2
  <1>4. CASE ImportStarts(r)
    <2>1. PICK k \in Due(r) :
            /\ pc[r] = "next" /\ tree[k] = NoRecord
            /\ IF k \in Epics THEN holder[k] = NoRun /\ holder' = [holder EXCEPT ![k] = r]
                              ELSE EpicOf[k] \in dirs /\ UNCHANGED holder
            /\ job' = Took(r, k) /\ pc' = [pc EXCEPT ![r] = "save"]
            /\ UNCHANGED tree
      BY <1>4 DEF ImportStarts, Goto
    <2>2. LeavesHeldEpics(r)
      BY <1>0, <2>1 DEF LeavesHeldEpics, FilesTyped
    <2>3. job'[r].at = k /\ pc'[r] = "save"
      BY <1>0, <2>1 DEF Took, Jobs, FilesTyped
    <2>4. EpicInHand(r)'
      BY <1>0, <2>1, <2>3 DEF EpicInHand, FilesTyped
    <2> QED  BY <1>0, <1>1, <2>2, <2>4, OneRunInHand
  <1>5. CASE SaveNode(r) \/ FieldSave(r)
    <2>1. /\ pc[r] \in {"save", "fieldsave"} /\ holder' = Released(r)
          /\ \E n : tree' = [tree EXCEPT ![job[r].at] = n]
          /\ \E p : p \notin {"save", "fieldsave"} /\ pc' = [pc EXCEPT ![r] = p]
      BY <1>5 DEF SaveNode, FieldSave, Goto, Onward
    <2>2. \A e \in Epics : holder[e] \notin {NoRun, r} => tree'[e] = tree[e]
      <3>1. tree \in [Nodes -> Records \cup {NoRecord}]
        BY <1>0 DEF FilesTyped, Listings
      <3> QED  BY <1>0, <2>1, <3>1, EpicsAreNodes DEF EpicInHand
    <2>3. pc'[r] \notin {"save", "fieldsave"}
      BY <1>0, <2>1 DEF FilesTyped
    <2>4. EpicInHand(r)'
      BY <2>3 DEF EpicInHand
    <2> QED  BY <1>0, <1>1, <2>1, <2>2, <2>4, ReleaseLeaves, OneRunInHand
  <1>6. CASE FieldLoad(r)
    <2> DEFINE k == job[r].at
    <2>1. /\ pc[r] = "field" /\ pc' = [pc EXCEPT ![r] = "fieldsave"]
          /\ job' = [job EXCEPT ![r] = [job[r] EXCEPT !.node = tree[k]]]
          /\ IF k \in Epics THEN holder[k] = NoRun /\ holder' = [holder EXCEPT ![k] = r]
                            ELSE UNCHANGED holder
          /\ UNCHANGED tree
      BY <1>6 DEF FieldLoad, Goto
    <2>2. LeavesHeldEpics(r)
      BY <1>0, <2>1 DEF LeavesHeldEpics, FilesTyped
    <2>3. job'[r].at = k /\ pc'[r] = "fieldsave" /\ job'[r].node = tree[k]
      BY <1>0, <2>1 DEF Jobs, FilesTyped
    <2>4. EpicInHand(r)'
      BY <1>0, <2>1, <2>3 DEF EpicInHand, FilesTyped
    <2> QED  BY <1>0, <1>1, <2>2, <2>4, OneRunInHand
  <1>7. CASE Die(r)
    <2>1. holder' = Released(r) /\ pc' = [pc EXCEPT ![r] = "idle"] /\ UNCHANGED tree
      BY <1>7 DEF Die, End, Goto
    <2>2. EpicInHand(r)'
      BY <1>0, <2>1 DEF EpicInHand, FilesTyped
    <2> QED  BY <1>0, <1>1, <2>1, <2>2, ReleaseLeaves, OneRunInHand
  <1> QED  BY <1>3, <1>4, <1>5, <1>6, <1>7 DEF Engine

LEMMA NextEpics ==
    ASSUME MigrationAssumption, EpicInv, Next
    PROVE  EpicInv'
  <1>0. Typed /\ FilesTyped /\ Typed' /\ NodesStay
    BY NextTyped, TypedParts DEF EpicInv
  <1>1. WorkedStand'
    <2>1. \A k \in worked' : k \in worked \/ tree[k] # NoRecord
      <3>1. CASE \E k \in Nodes : Work(k)
        BY <3>1 DEF Work
      <3>2. CASE \E r \in Runs : Begin(r) \/ Engine(r) \/ CommandFails(r) \/ Die(r)
        BY <3>2 DEF Begin, Engine, CommandFails, Die, ImportSkips, ImportStarts, ImportRefused,
                   SaveNode, FieldLoad, FieldSave, Verify, RunFails, Dispose, Done
      <3>3. CASE SplitStatus
        BY <3>3 DEF SplitStatus
      <3> QED  BY <3>1, <3>2, <3>3 DEF Next
    <2>2. worked' \subseteq Nodes
      BY <1>0 DEF Typed, TypeOK
    <2> QED  BY <1>0, <2>1, <2>2 DEF EpicInv, WorkedStand, NodesStay
  <1>2. \A r \in Runs : EpicInHand(r)'
    <2>1. CASE \E r \in Runs : Begin(r) \/ Engine(r) \/ CommandFails(r) \/ Die(r)
      BY <2>1, NextInHand
    <2>2. CASE SplitStatus
      BY <2>2 DEF SplitStatus, EpicInv, EpicInHand
    <2>3. CASE \E k \in Nodes : Work(k)
      <3>1. PICK k \in Nodes : Work(k)
        BY <2>3
      <3>2. \A e \in Epics : holder[e] # NoRun => tree'[e] = tree[e]
        BY <1>0, <3>1, EpicsAreNodes DEF Work, FilesTyped, Listings
      <3>3. UNCHANGED <<pc, job, holder>>
        BY <3>1 DEF Work
      <3> QED  BY <3>2, <3>3 DEF EpicInv, EpicInHand, MigrationAssumption
    <2> QED  BY <2>1, <2>2, <2>3 DEF Next
  <1> QED  BY <1>0, <1>1, <1>2 DEF EpicInv

LEMMA EpicsInvariant == Spec => []EpicInv
  <1> USE MigrationAssumption
  <1>1. Init => EpicInv
    BY InitTyped DEF EpicInv, Init, WorkedStand, EpicInHand
  <1>2. EpicInv /\ [Next]_vars => EpicInv'
    <2> SUFFICES ASSUME EpicInv, [Next]_vars  PROVE  EpicInv'
      OBVIOUS
    <2>1. CASE UNCHANGED vars
      BY <2>1 DEF vars, EpicInv, Typed, TypeOK, HasInHand, WorkedStand, EpicInHand
    <2> QED  BY <2>1, NextEpics
  <1> QED  BY <1>1, <1>2, PTL DEF Spec

\* What a session has set an epic's status to is not undone by a run of the engine:
\* import-node looks and saves under the epic's flock, and set-field writes back the
\* status that it loaded under it.
THEOREM ProgressStays == Spec => EpicProgressIsKept
  <1> USE MigrationAssumption
  <1>1. EpicInv /\ [Next]_vars => [\A e \in Epics \cap worked : tree'[e].status = tree[e].status]_vars
    <2> SUFFICES ASSUME EpicInv, Next, NEW e \in Epics \cap worked
                 PROVE  tree'[e].status = tree[e].status
      OBVIOUS
    <2>0. Typed /\ FilesTyped /\ tree \in [Nodes -> Records \cup {NoRecord}] /\ e \in Nodes
      BY TypedParts, EpicsAreNodes DEF EpicInv, FilesTyped, Listings
    <2>1. CASE \E r \in Runs : Begin(r) \/ CommandFails(r) \/ Die(r) \/ ImportSkips(r)
                 \/ ImportStarts(r) \/ ImportRefused(r) \/ FieldLoad(r) \/ Verify(r)
                 \/ RunFails(r) \/ Dispose(r) \/ Done(r)
      BY <2>1 DEF Begin, CommandFails, Die, ImportSkips, ImportStarts, ImportRefused, FieldLoad,
                 Verify, RunFails, Dispose, Done
    <2>2. CASE \E r \in Runs : SaveNode(r)
      <3>1. PICK r \in Runs : SaveNode(r)
        BY <2>2
      <3>2. job[r].at # e
        BY <3>1 DEF SaveNode, EpicInv, EpicInHand, WorkedStand
      <3> QED  BY <2>0, <3>1, <3>2 DEF SaveNode
    <2>3. CASE \E r \in Runs : FieldSave(r)
      <3>1. PICK r \in Runs : FieldSave(r)
        BY <2>3
      <3>2. CASE job[r].at = e
        <4>1. job[r].node = tree[e] /\ tree[e] \in Records
          BY <2>0, <3>1, <3>2, InHandIsTyped DEF FieldSave, EpicInv, EpicInHand, HasInHand
        <4>2. tree'[e] = [tree[e] EXCEPT !.goal = job[r].plan[e].goal]
          BY <2>0, <3>1, <3>2, <4>1 DEF FieldSave
        <4> QED  BY <4>1, <4>2 DEF Records
      <3>3. CASE job[r].at # e
        BY <2>0, <3>1, <3>3 DEF FieldSave
      <3> QED  BY <3>2, <3>3
    <2>4. CASE SplitStatus
      BY <2>4 DEF SplitStatus
    <2>5. CASE \E k \in Nodes : Work(k)
      BY <2>0, <2>5 DEF Work
    <2> QED  BY <2>1, <2>2, <2>3, <2>4, <2>5 DEF Next, Engine
  <1> QED  BY <1>1, EpicsInvariant, PTL DEF Spec, EpicProgressIsKept

-----------------------------------------------------------------------------
(* The plan.                                                                *)

LEMMA DocIsTyped ==
    ASSUME SourcesAreParts, NEW k \in Nodes
    PROVE  /\ Doc[k] \in Records \cup {NoRecord}
           /\ Doc[k] # NoRecord => Doc[k] \in Records /\ Doc[k].status \in Statuses
           /\ \A x : IsShellOf(x, k) => x.goal = Doc[k].goal /\ x.status = "backlog"
  <1>1. Doc[k] \in Records \cup {NoRecord}
    BY DEF SourcesAreParts, Doc, Listings, FileNames
  <1>2. \A x : IsShellOf(x, k) => x.goal = Doc[k].goal /\ x.status = "backlog"
    <2> SUFFICES ASSUME NEW x, IsShellOf(x, k)  PROVE  x.goal = Doc[k].goal /\ x.status = "backlog"
      OBVIOUS
    <2>1. Doc[k] \in Records /\ x = [Doc[k] EXCEPT !.status = "backlog"]
      BY <1>1 DEF IsShellOf, Shell
    <2> QED  BY <2>1 DEF Records
  <1> QED  BY <1>1, <1>2, NoRecordIsNone

\* The files of the layout are all there are.
LEMMA LayoutHasTheFiles ==
    ASSUME NEW f \in FileNames, NEW k \in Nodes, source[f][k] # NoRecord
    PROVE  f \in FilesOf(Layout) /\ Layout \in {"split", "flat"}
  <1>1. Present(f)
    BY DEF Present, Missing
  <1> QED  BY <1>1 DEF Layout, FilesOf, FileNames

\* What is planned from the status files is the first file's record, as long as a
\* file has it: a shell of it is poorer.
LEMMA FilesPlanRight ==
    ASSUME SourcesAreParts, Typed, Layout \in {"split", "flat"},
           NEW k \in Planned(Plan)
    PROVE  Plan[k] = Doc[k] \/ (Gone(k) /\ IsShellOf(Plan[k], k))
  <1> DEFINE files == FilesOf(Layout)
             c == Chosen(files, k)
  <1>0. source \in [FileNames -> Listings] /\ k \in Nodes /\ files \in SUBSET FileNames
    BY DEF Typed, TypeOK, Planned, FilesOf, FileNames
  <1>1. Plan = FromFiles(files)
    BY DEF Plan
  <1>2. Plan[k] = source[c][k] /\ \E f \in files : Lists(f, k)
    <2> HIDE DEF files
    <2> QED  BY <1>0, <1>1 DEF FromFiles, Planned
  <1>3. /\ c \in files /\ Lists(c, k)
        /\ \A h \in files : Lists(h, k) => ~Richer(source[h][k], source[c][k])
    <2> HIDE DEF files
    <2> QED  BY <1>0, <1>2, ChosenIsBest
  <1>4. source[c][k] # NoRecord /\ c \in FileNames
    BY <1>0, <1>3 DEF Lists
  <1>5. CASE source[c][k] = Doc[k]
    BY <1>2, <1>5
  <1>6. CASE IsShellOf(source[c][k], k)
    <2> SUFFICES ASSUME ~Gone(k)  PROVE FALSE
      BY <1>2, <1>6
    <2>1. PICK g \in FileNames : source[g][k] = Doc[k] /\ Doc[k] # NoRecord
      BY <1>6 DEF Gone, IsShellOf
    <2>2. g \in files /\ Lists(g, k)
      BY <1>0, <2>1, LayoutHasTheFiles DEF Lists
    <2>3. Richer(Doc[k], source[c][k])
      <3>1. Doc[k].status = "in-progress" /\ source[c][k].status = "backlog"
        BY <1>0, <1>6, DocIsTyped DEF IsShellOf
      <3> QED  BY <3>1 DEF Richer, Stage
    <2> QED  BY <1>3, <2>1, <2>2, <2>3
  <1> QED  BY <1>0, <1>4, <1>5, <1>6 DEF SourcesAreParts

\* From story documents nothing is planned that a status file has listed.
LEMMA DocumentsPlanTheRest ==
    ASSUME MigrationAssumption, SourcesAreParts, EpicInv, DirsStand, GoneAreInTree,
           Layout \notin {"split", "flat"}, NEW k \in Planned(FromDocuments)
    PROVE  Doc[k] = NoRecord
  <1> SUFFICES ASSUME Doc[k] # NoRecord  PROVE  FALSE
    OBVIOUS
  <1>0. k \in Nodes
    BY DEF Planned
  <1>1. Gone(k)
    BY <1>0, LayoutHasTheFiles DEF Gone
  <1>2. tree[k] # NoRecord
    BY <1>0, <1>1, DocIsTyped, NoRecordIsNone DEF GoneAreInTree, InTree, EpicInv, WorkedStand, Statuses
  <1>3. Home(k) \in dirs
    BY <1>0, <1>2 DEF DirsStand
  <1> DEFINE fresh == {t \in Stories : Written[t] # "none" /\ tree[t] = NoRecord}
             ofSprint(s) == RollUp({Written[t] : t \in {u \in fresh : SprintOf[u] = s}})
             sprints(e) == {SprintOf[t] : t \in {u \in fresh : EpicOf[u] = e}}
             ofEpic == RollUp({ofSprint(s) : s \in sprints(k)})
             sprinted == k \in {SprintOf[t] : t \in fresh} \ dirs
             epiced == k \in {EpicOf[t] : t \in fresh} \ dirs
             written == Written[k]
             one == ofSprint(k)
             status == [j \in Nodes |->
                 CASE j \in fresh -> Written[j]
                   [] j \in {SprintOf[t] : t \in fresh} \ dirs -> ofSprint(j)
                   [] j \in {EpicOf[t] : t \in fresh} \ dirs ->
                        RollUp({ofSprint(s) : s \in sprints(j)})
                   [] OTHER -> "none"]
  <1>4. FromDocuments = [j \in Nodes |-> [status |-> status[j], goal |-> NoGoal]]
    BY Zenon DEF FromDocuments
  <1>5. status[k] = CASE k \in fresh -> written [] sprinted -> one [] epiced -> ofEpic
                      [] OTHER -> "none"
    BY <1>0, Zenon
  <1>6. k \notin fresh
    BY <1>2
  <1>7. ~sprinted
    BY <1>3 DEF Home, MigrationAssumption
  <1>8. ~epiced
    <2>1. \A t \in Stories : EpicOf[t] \in Epics
      BY EpicsAreNodes DEF MigrationAssumption
    <2>2. k \in Epics => k \notin Stories
      BY DEF MigrationAssumption
    <2> QED  BY <1>3, <2>1, <2>2 DEF Home
  <1>9. status[k] = "none"
    <2> HIDE DEF status, sprinted, epiced, fresh, ofEpic, one, written
    <2> QED  BY <1>5, <1>6, <1>7, <1>8
  <1> HIDE DEF status
  <1> QED  BY <1>0, <1>4, <1>9 DEF Planned, NoRecord

-----------------------------------------------------------------------------
(* A step of a run.                                                         *)

RunStep(r) == Begin(r) \/ Engine(r) \/ CommandFails(r) \/ Die(r)

\* A run only takes status files away.
LEMMA FilesGo ==
    ASSUME Typed, NEW r \in Runs, RunStep(r)
    PROVE  /\ \A f \in FileNames : source'[f] = source[f] \/ source'[f] = Missing
           /\ first' = first /\ worked' = worked
           /\ legacy'["active"] = legacy["active"] \/ source'["active"] = Missing
           /\ dirs \subseteq dirs'
  <1>1. CASE Dispose(r)
    <2>1. PICK f \in ToRetire(r) :
            /\ legacy' = [legacy EXCEPT ![f] = source[f]]
            /\ source' = [source EXCEPT ![f] = Missing]
            /\ UNCHANGED <<dirs, first, worked>>
      BY <1>1 DEF Dispose
    <2>2. f \in FileNames
      BY DEF ToRetire, FilesOf, FileNames
    <2> QED  BY <2>1, <2>2 DEF Typed, TypeOK, FileNames
  <1>2. CASE ~Dispose(r)
    <2>1. UNCHANGED <<source, legacy, first, worked>> /\ (dirs' = dirs \/ ImportStarts(r))
      BY <1>2 DEF RunStep, Engine, Begin, CommandFails, Die, ImportSkips, ImportStarts,
                 ImportRefused, SaveNode, FieldLoad, FieldSave, Verify, RunFails, Done
    <2>2. dirs \subseteq dirs'
      BY <2>1 DEF ImportStarts
    <2> QED  BY <2>1, <2>2
  <1> QED  BY <1>1, <1>2

LEMMA RunSources ==
    ASSUME Typed, SourcesAreParts, NEW r \in Runs, RunStep(r)
    PROVE  /\ SourcesAreParts' /\ Doc' = Doc
           /\ \A k \in Nodes : Gone(k) => Gone(k)'
           /\ \A f \in FileNames, k \in Nodes : source'[f][k] # NoRecord => source'[f][k] = source[f][k]
  <1>1. /\ \A f \in FileNames : source'[f] = source[f] \/ source'[f] = Missing
        /\ first' = first
        /\ legacy'["active"] = legacy["active"] \/ source'["active"] = Missing
    BY FilesGo
  <1>2. Doc' = Doc
    BY <1>1 DEF Doc
  <1>3. \A f \in FileNames, k \in Nodes :
          source'[f][k] = source[f][k] \/ source'[f][k] = NoRecord
    BY <1>1 DEF Missing
  <1>4. \A k \in Nodes : Gone(k) => Gone(k)'
    <2> SUFFICES ASSUME NEW k \in Nodes, Gone(k)  PROVE Gone(k)'
      OBVIOUS
    <2>1. Doc'[k] # NoRecord /\ \A f \in FileNames : source'[f][k] # Doc'[k]
      BY <1>2, <1>3 DEF Gone
    <2> QED  BY <2>1 DEF Gone
  <1>5. SourcesAreParts'
    <2>1. \A f \in FileNames, k \in Nodes :
            \/ source'[f][k] = NoRecord \/ source'[f][k] = Doc'[k]
            \/ IsShellOf(source[f][k], k) /\ source'[f][k] = source[f][k]
      BY <1>2, <1>3 DEF SourcesAreParts
    <2>3. "active" \in FileNames
      BY DEF FileNames
    <2>4. Present("active")' => source'["active"] = source["active"] /\ Present("active")
                                /\ legacy'["active"] = legacy["active"]
      BY <1>1, <2>3 DEF Present
    <2>5. \A f \in FileNames, k \in Nodes :
            (source[f][k] = NoRecord \/ source[f][k] = Doc[k] \/ IsShellOf(source[f][k], k))'
      BY <1>2, <2>1 DEF IsShellOf, Shell
    <2> QED  BY <1>1, <1>2, <2>4, <2>5 DEF SourcesAreParts
  <1> QED  BY <1>2, <1>3, <1>4, <1>5

LEMMA RunDirs ==
    ASSUME MigrationAssumption, EpicInv, DirsStand, NEW r \in Runs, RunStep(r)
    PROVE  DirsStand'
  <1>0. /\ FilesTyped /\ job \in [Runs -> Jobs] /\ HasInHand(r) /\ job[r] \in Jobs
        /\ Typed /\ tree \in [Nodes -> Records \cup {NoRecord}]
    BY InHandIsTyped DEF EpicInv, FilesTyped, Listings
  <1>1. OthersStay(r) /\ dirs \subseteq dirs'
    BY <1>0, FilesGo, BeginTyped, ImportTyped, WriteTyped, EndTyped DEF RunStep, Engine
  <1>2. ASSUME NEW k \in Nodes, tree'[k] # NoRecord  PROVE Home(k) \in dirs
    <2>1. CASE SaveNode(r) \/ FieldSave(r)
      <3>1. \A j \in Nodes : tree'[j] = tree[j] \/ j = job[r].at
        BY <1>0, <2>1 DEF SaveNode, FieldSave
      <3>2. pc[r] = "save" \/ tree[job[r].at] # NoRecord
        BY <1>0, <2>1 DEF SaveNode, FieldSave, HasInHand
      <3> QED  BY <1>2, <3>1, <3>2 DEF DirsStand
    <2>2. CASE ~(SaveNode(r) \/ FieldSave(r))
      <3>1. UNCHANGED tree
        BY <2>2 DEF RunStep, Engine, Begin, CommandFails, Die, ImportSkips, ImportStarts,
                 ImportRefused, FieldLoad, Verify, RunFails, Done, Dispose
      <3> QED  BY <1>2, <3>1 DEF DirsStand
    <2> QED  BY <2>1, <2>2
  <1>3. pc'[r] = "save" => Home(job'[r].at) \in dirs'
    <2>1. CASE ImportStarts(r)
      <3>1. PICK k \in Due(r) : dirs' = dirs \cup {Home(k)} /\ job' = Took(r, k)
        BY <2>1 DEF ImportStarts
      <3>2. job'[r].at = k
        BY <1>0, <3>1 DEF Took, Jobs
      <3> QED  BY <3>1, <3>2
    <2>2. CASE ~ImportStarts(r)
      <3>1. pc'[r] # "save"
        BY <1>0, <2>2 DEF RunStep, Engine, Begin, CommandFails, Die, ImportSkips, FilesTyped,
             ImportRefused, FieldLoad, Verify, RunFails, Done, Dispose, SaveNode, FieldSave,
             Goto, Onward, End
      <3> QED  BY <3>1
    <2> QED  BY <2>1, <2>2
  <1>4. \A q \in Runs : pc'[q] = "save" => Home(job'[q].at) \in dirs'
    BY <1>1, <1>3 DEF OthersStay, DirsStand
  <1>5. \A k \in Nodes : tree'[k] # NoRecord => Home(k) \in dirs'
    BY <1>1, <1>2
  <1> QED  BY <1>4, <1>5 DEF DirsStand

\* What a run writes to a node is what the first file said of it.
LEMMA RunTree ==
    ASSUME MigrationAssumption, IInv, NEW r \in Runs, RunStep(r)
    PROVE  /\ TreeIsRight'
           /\ \A k \in Nodes \ worked : Doc[k] # NoRecord /\ InTree(k) => InTree(k)'
           /\ \A k \in Nodes \ worked :
                FieldSave(r) /\ k = job[r].at /\ Doc[k] # NoRecord => InTree(k)'
  <1> DEFINE k == job[r].at
  <1>0. /\ Typed /\ FilesTyped /\ HasInHand(r) /\ EpicInHand(r)
        /\ tree \in [Nodes -> Records \cup {NoRecord}] /\ PlanIsRight(r) /\ NodeIsRight(r)
        /\ SourcesAreParts
    BY InHandIsTyped DEF IInv, EpicInv, FilesTyped, Listings
  <1>1. Doc' = Doc /\ worked' = worked
    BY <1>0, RunSources, FilesGo
  <1>2. CASE SaveNode(r)
    <2> DEFINE new == [status |-> job[r].plan[k].status, goal |-> NoGoal]
    <2>1. /\ pc[r] = "save" /\ k \in Nodes /\ k \in Planned(job[r].plan)
          /\ tree' = [tree EXCEPT ![k] = new]
      BY <1>0, <1>2 DEF SaveNode, HasInHand
    <2>2. new.status = job[r].plan[k].status /\ new.goal = NoGoal
      OBVIOUS
    <2>3. Doc[k] # NoRecord /\ k \notin worked => new.status = Doc[k].status
      <3> SUFFICES ASSUME Doc[k] # NoRecord, k \notin worked  PROVE new.status = Doc[k].status
        OBVIOUS
      <3>1. CASE job[r].plan[k] = Doc[k]
        BY <2>2, <3>1
      <3>2. CASE Gone(k) /\ k \in Epics
        <4>1. tree[k].status = Doc[k].status /\ tree[k] = NoRecord
          BY <1>0, <2>1, <3>2 DEF IInv, GoneAreInTree, InTree, EpicInHand
        <4>2. Doc[k].status # "none"
          BY <1>0, <2>1, DocIsTyped DEF Statuses
        <4> QED  BY <4>1, <4>2, NoRecordIsNone
      <3> QED  BY <1>0, <2>1, <3>1, <3>2 DEF PlanIsRight, IsShellOf
    <2>4. k \in Epics => tree[k].status = "none"
      BY <1>0, <2>1, NoRecordIsNone DEF EpicInHand
    <2>5. Doc[k] # NoRecord => Doc[k].status # "none"
      BY <1>0, <2>1, DocIsTyped DEF Statuses
    <2> HIDE DEF new, k
    <2>6. ASSUME NEW j \in Nodes
          PROVE  tree'[j] = IF j = k THEN new ELSE tree[j]
      BY <1>0, <2>1
    <2>7. TreeIsRight'
      <3> SUFFICES ASSUME NEW j \in Nodes \ worked, Doc[j] # NoRecord, tree'[j] # NoRecord
                   PROVE  /\ tree'[j].status = Doc[j].status
                          /\ j \in Epics => tree'[j].goal \in {NoGoal, Doc[j].goal}
        BY <1>1 DEF TreeIsRight
      <3>1. CASE j = k
        BY <2>2, <2>3, <2>6, <3>1
      <3>2. CASE j # k
        BY <2>6, <3>2 DEF IInv, TreeIsRight
      <3> QED  BY <3>1, <3>2
    <2>8. ASSUME NEW j \in Nodes \ worked, Doc[j] # NoRecord, InTree(j)  PROVE InTree(j)'
      <3>1. CASE j = k
        <4>1. j \notin Epics
          BY <2>4, <2>5, <2>8, <3>1 DEF InTree
        <4> QED  BY <1>1, <2>3, <2>6, <2>8, <3>1, <4>1 DEF InTree
      <3>2. CASE j # k
        BY <1>1, <2>6, <2>8, <3>2 DEF InTree
      <3> QED  BY <3>1, <3>2
    <2>9. ~FieldSave(r)
      BY <2>1 DEF FieldSave
    <2> QED  BY <2>7, <2>8, <2>9
  <1>3. CASE FieldSave(r)
    <2> DEFINE new == [job[r].node EXCEPT !.goal = job[r].plan[k].goal]
    <2>1. /\ pc[r] = "fieldsave" /\ k \in Nodes /\ k \in Planned(job[r].plan)
          /\ tree' = [tree EXCEPT ![k] = new] /\ job[r].node \in Records
      BY <1>0, <1>3 DEF FieldSave, HasInHand
    <2>2. new.status = job[r].node.status /\ new.goal = job[r].plan[k].goal
      BY <2>1 DEF Records
    <2>3. Doc[k] # NoRecord /\ k \notin worked =>
            new.status = Doc[k].status /\ new.goal = Doc[k].goal
      <3> SUFFICES ASSUME Doc[k] # NoRecord, k \notin worked
                   PROVE  new.status = Doc[k].status /\ new.goal = Doc[k].goal
        OBVIOUS
      <3>1. job[r].plan[k].goal = Doc[k].goal
        BY <1>0, <2>1, DocIsTyped DEF PlanIsRight
      <3>2. job[r].node.status = Doc[k].status
        BY <1>0, <2>1 DEF NodeIsRight
      <3> QED  BY <2>2, <3>1, <3>2
    <2> HIDE DEF new, k
    <2>6. ASSUME NEW j \in Nodes
          PROVE  tree'[j] = IF j = k THEN new ELSE tree[j]
      BY <1>0, <2>1
    <2>7. TreeIsRight'
      <3> SUFFICES ASSUME NEW j \in Nodes \ worked, Doc[j] # NoRecord, tree'[j] # NoRecord
                   PROVE  /\ tree'[j].status = Doc[j].status
                          /\ j \in Epics => tree'[j].goal \in {NoGoal, Doc[j].goal}
        BY <1>1 DEF TreeIsRight
      <3>1. CASE j = k
        BY <2>3, <2>6, <3>1
      <3>2. CASE j # k
        BY <2>6, <3>2 DEF IInv, TreeIsRight
      <3> QED  BY <3>1, <3>2
    <2>8. ASSUME NEW j \in Nodes \ worked, Doc[j] # NoRecord, InTree(j) \/ j = k
          PROVE  InTree(j)'
      <3>1. CASE j = k
        BY <1>1, <2>3, <2>6, <2>8, <3>1 DEF InTree
      <3>2. CASE j # k
        BY <1>1, <2>6, <2>8, <3>2 DEF InTree
      <3> QED  BY <3>1, <3>2
    <2> QED  BY <2>7, <2>8 DEF k
  <1>4. CASE ~(SaveNode(r) \/ FieldSave(r))
    <2>1. UNCHANGED tree
      BY <1>4 DEF RunStep, Engine, Begin, CommandFails, Die, ImportSkips, ImportStarts,
                 ImportRefused, FieldLoad, Verify, RunFails, Done, Dispose
    <2> QED  BY <1>1, <1>4, <2>1 DEF IInv, TreeIsRight, InTree
  <1> QED  BY <1>2, <1>3, <1>4

LEMMA RunGone ==
    ASSUME MigrationAssumption, IInv, NEW r \in Runs, RunStep(r)
    PROVE  GoneAreInTree'
  <1>0. /\ Typed /\ SourcesAreParts /\ PlanIsRight(r) /\ FinishedStand(r)
    BY DEF IInv, EpicInv
  <1>1. Doc' = Doc /\ worked' = worked
    BY <1>0, RunSources, FilesGo
  <1> SUFFICES ASSUME NEW k \in Nodes \ worked, Gone(k)'  PROVE InTree(k)'
    BY <1>1 DEF GoneAreInTree
  <1>2. Doc[k] # NoRecord
    BY <1>1 DEF Gone
  <1>3. CASE Gone(k)
    BY <1>2, <1>3, RunTree DEF IInv, GoneAreInTree
  <1>4. CASE ~Gone(k)
    <2>1. Dispose(r)
      <3> SUFFICES ASSUME ~Dispose(r)  PROVE  Gone(k)
        BY <1>4
      <3>1. UNCHANGED source
        BY DEF RunStep, Engine, Begin, CommandFails, Die, ImportSkips, ImportStarts,
                 ImportRefused, SaveNode, FieldLoad, FieldSave, Verify, RunFails, Done
      <3> QED  BY <1>1, <3>1 DEF Gone
    <2>2. PICK f \in ToRetire(r) : source' = [source EXCEPT ![f] = Missing] /\ pc[r] = "dispose"
      BY <2>1 DEF Dispose
    <2>3. f \in FileNames /\ f \in FilesOf(job[r].layout)
      BY DEF ToRetire, FilesOf, FileNames
    <2>4. source[f][k] = Doc[k]
      <3>1. PICK g \in FileNames : source[g][k] = Doc[k]
        BY <1>2, <1>4 DEF Gone
      <3>2. source'[g][k] # Doc[k]
        BY <1>1 DEF Gone
      <3> QED  BY <1>0, <2>2, <2>3, <3>1, <3>2 DEF Typed, TypeOK
    <2>5. k \in Planned(job[r].plan) /\ job[r].todo = {} /\ ~job[r].failed
      BY <1>0, <1>2, <2>2, <2>3, <2>4 DEF PlanIsRight
    <2>6. InTree(k)
      BY <1>0, <1>2, <2>2, <2>5 DEF FinishedStand, InProgressOn
    <2> QED  BY <1>2, <2>6, RunTree
  <1> QED  BY <1>3, <1>4

\* The other runs' plans stay right, and what they are through with stays in the tree.
LEMMA OtherRuns ==
    ASSUME MigrationAssumption, IInv, NEW r \in Runs, RunStep(r), NEW q \in Runs \ {r}
    PROVE  PlanIsRight(q)' /\ NodeIsRight(q)' /\ FinishedStand(q)'
  <1>0. Typed /\ SourcesAreParts /\ PlanIsRight(q) /\ NodeIsRight(q) /\ FinishedStand(q)
    BY DEF IInv, EpicInv
  <1>1. pc'[q] = pc[q] /\ job'[q] = job[q]
    BY <1>0, BeginTyped, ImportTyped, WriteTyped, EndTyped DEF RunStep, Engine, OthersStay
  <1>2. /\ Doc' = Doc /\ worked' = worked
        /\ \A k \in Nodes : Gone(k) => Gone(k)'
        /\ \A f \in FileNames, k \in Nodes : source'[f][k] # NoRecord => source[f][k] # NoRecord
    BY <1>0, RunSources, FilesGo
  <1>3. Planned(job[q].plan) \subseteq Nodes /\ FilesOf(job[q].layout) \subseteq FileNames
    BY DEF Planned, FilesOf, FileNames
  <1>4. PlanIsRight(q)'
    <2>1. \A k \in Nodes : IsShellOf(job[q].plan[k], k) => IsShellOf(job[q].plan[k], k)'
      BY <1>1, <1>2 DEF IsShellOf, Shell
    <2> QED  BY <1>0, <1>1, <1>2, <1>3, <2>1 DEF PlanIsRight, Planned
  <1>5. NodeIsRight(q)'
    BY <1>0, <1>1, <1>2 DEF NodeIsRight
  <1>6. FinishedStand(q)'
    <2>1. \A k \in Nodes \ worked : Doc[k] # NoRecord /\ InTree(k) => InTree(k)'
      BY RunTree
    <2>2. \A k : InProgressOn(q, k)' <=> InProgressOn(q, k)
      BY <1>1 DEF InProgressOn
    <2> QED  BY <1>0, <1>1, <1>2, <1>3, <2>1, <2>2 DEF FinishedStand, Planned
  <1> QED  BY <1>4, <1>5, <1>6

\* A plan that has just been made.
LEMMA BeginRight ==
    ASSUME MigrationAssumption, IInv, NEW r \in Runs, Begin(r)
    PROVE  PlanIsRight(r)' /\ NodeIsRight(r)' /\ FinishedStand(r)'
  <1>0. Typed /\ SourcesAreParts /\ EpicInv /\ DirsStand /\ GoneAreInTree
    BY DEF IInv, EpicInv
  <1> DEFINE new == [NoJob EXCEPT !.layout = Layout, !.plan = Plan, !.todo = Planned(Plan)]
  <1>1. job' = [job EXCEPT ![r] = new] /\ pc' = [pc EXCEPT ![r] = "next"]
        /\ UNCHANGED <<source, first, tree, worked>>
    BY DEF Begin, Goto
  <1>2. new.plan = Plan /\ new.todo = Planned(Plan) /\ new.layout = Layout
    BY DEF NoJob
  <1> HIDE DEF new
  <1>3. /\ job'[r].plan = Plan /\ job'[r].todo = Planned(Plan) /\ job'[r].layout = Layout
        /\ pc'[r] = "next"
    BY <1>0, <1>1, <1>2 DEF Typed, TypeOK
  <1>4. \A k \in Planned(Plan) :
          Doc[k] # NoRecord => Plan[k] = Doc[k] \/ (Gone(k) /\ IsShellOf(Plan[k], k))
    <2>1. CASE Layout \in {"split", "flat"}
      BY <1>0, <2>1, FilesPlanRight
    <2>2. CASE Layout = "artifacts"
      BY <1>0, <2>2, DocumentsPlanTheRest DEF Plan
    <2>3. Layout # "none"
      BY DEF Begin
    <2> QED  BY <2>1, <2>2, <2>3, LayoutIsOne DEF Layouts
  <1>5. \A f \in FilesOf(Layout), k \in Nodes : source[f][k] # NoRecord => k \in Planned(Plan)
    <2> SUFFICES ASSUME NEW f \in FilesOf(Layout), NEW k \in Nodes, source[f][k] # NoRecord
                 PROVE  Plan[k] # NoRecord
      BY DEF Planned
    <2>1. Plan = FromFiles(FilesOf(Layout))
      BY DEF Plan, FilesOf
    <2>2. FilesOf(Layout) \in SUBSET FileNames
      BY DEF FilesOf, FileNames
    <2>3. Lists(f, k)
      BY DEF Lists
    <2>4. Lists(Chosen(FilesOf(Layout), k), k)
      <3>1. source \in [FileNames -> Listings]
        BY <1>0 DEF Typed, TypeOK
      <3> QED  BY <2>2, <2>3, <3>1, ChosenIsBest
    <2> QED  BY <2>1, <2>3, <2>4 DEF FromFiles, Lists
  <1>6. Doc' = Doc
    BY <1>1 DEF Doc
  <1>7. PlanIsRight(r)'
    <2>1. \A k \in Nodes : Gone(k)' <=> Gone(k)
      BY <1>1, <1>6 DEF Gone
    <2>2. \A k \in Nodes : IsShellOf(Plan[k], k) => IsShellOf(job[r].plan[k], k)'
      BY <1>3, <1>6 DEF IsShellOf, Shell
    <2>3. Planned(job[r].plan)' = Planned(Plan) /\ Planned(Plan) \subseteq Nodes
      BY <1>3 DEF Planned
    <2> QED  BY <1>1, <1>3, <1>4, <1>5, <1>6, <2>1, <2>2, <2>3 DEF PlanIsRight
  <1>8. NodeIsRight(r)'
    BY <1>3 DEF NodeIsRight
  <1>9. FinishedStand(r)'
    BY <1>3 DEF FinishedStand, Planned
  <1> QED  BY <1>7, <1>8, <1>9

\* How a run goes through its plan: a node leaves the ones to do when the run takes
\* it in hand, or fails; and leaves its hand when it is as planned.
LEMMA WorkRight ==
    ASSUME MigrationAssumption, IInv, NEW r \in Runs, RunStep(r), ~Begin(r)
    PROVE  PlanIsRight(r)' /\ NodeIsRight(r)' /\ FinishedStand(r)'
  <1>0. /\ Typed /\ FilesTyped /\ HasInHand(r) /\ job[r] \in Jobs /\ job \in [Runs -> Jobs]
        /\ SourcesAreParts /\ PlanIsRight(r) /\ NodeIsRight(r) /\ FinishedStand(r) /\ Typed'
    BY InHandIsTyped, BeginTyped, ImportTyped, WriteTyped, EndTyped DEF IInv, EpicInv, RunStep, Engine
  <1>1. /\ Doc' = Doc /\ worked' = worked
        /\ \A k \in Nodes : Gone(k) => Gone(k)'
        /\ \A f \in FileNames, k \in Nodes : source'[f][k] # NoRecord => source[f][k] # NoRecord
    BY <1>0, RunSources, FilesGo
  <1>2. CASE pc'[r] = "idle"
    BY <1>2 DEF PlanIsRight, NodeIsRight, FinishedStand
  <1>3. CASE pc'[r] # "idle"
    <2>1. /\ pc[r] # "idle" /\ job'[r].plan = job[r].plan /\ job'[r].layout = job[r].layout
          /\ pc'[r] = "dispose" => job'[r].todo = {} /\ ~job'[r].failed
      <3>1. CASE ImportSkips(r) \/ ImportStarts(r)
        <4>1. PICK k \in Due(r) : pc[r] = "next" /\ job' = Took(r, k)
                /\ \E p \in {"save", "field", "next"} : pc' = [pc EXCEPT ![r] = p]
          BY <3>1 DEF ImportSkips, ImportStarts, Goto, Onward
        <4> QED  BY <1>0, <4>1 DEF Took, Jobs, FilesTyped
      <3>2. CASE ImportRefused(r)
        BY <1>0, <3>2 DEF ImportRefused, Failing, Jobs, FilesTyped
      <3>3. CASE CommandFails(r)
        <4>1. PICK k : /\ pc[r] \in {"next", "field"} /\ pc' = [pc EXCEPT ![r] = "next"]
                       /\ \/ job' = Failing(r, k)
                          \/ job' = [job EXCEPT ![r] = [job[r] EXCEPT !.failed = TRUE]]
          BY <3>3 DEF CommandFails, Goto
        <4>2. CASE job' = Failing(r, k)
          BY <1>0, <4>1, <4>2 DEF Failing, Jobs, FilesTyped
        <4>3. CASE job' = [job EXCEPT ![r] = [job[r] EXCEPT !.failed = TRUE]]
          BY <1>0, <4>1, <4>3 DEF Jobs, FilesTyped
        <4> QED  BY <4>1, <4>2, <4>3
      <3>4. CASE SaveNode(r)
        BY <1>0, <3>4 DEF SaveNode, Goto, Onward, FilesTyped
      <3>5. CASE FieldLoad(r)
        BY <1>0, <3>5 DEF FieldLoad, Goto, FilesTyped, Jobs
      <3>6. CASE FieldSave(r)
        BY <1>0, <3>6 DEF FieldSave, Goto, FilesTyped, Jobs
      <3>7. CASE Verify(r)
        BY <1>0, <3>7 DEF Verify, Goto, FilesTyped
      <3>8. CASE Dispose(r)
        BY <1>0, <3>8 DEF Dispose, PlanIsRight
      <3>9. CASE RunFails(r) \/ Done(r) \/ Die(r)
        BY <1>0, <1>3, <3>9 DEF RunFails, Done, Die, End, Goto, FilesTyped
      <3> QED  BY <3>1, <3>2, <3>3, <3>4, <3>5, <3>6, <3>7, <3>8, <3>9 DEF RunStep, Engine
    <2>2. PlanIsRight(r)'
      <3>1. \A k \in Nodes : IsShellOf(job[r].plan[k], k) => IsShellOf(job[r].plan[k], k)'
        BY <1>1, <2>1 DEF IsShellOf, Shell
      <3>2. Planned(job[r].plan)' = Planned(job[r].plan) /\ Planned(job[r].plan) \subseteq Nodes
        BY <2>1 DEF Planned
      <3>3. FilesOf(job[r].layout)' = FilesOf(job[r].layout) /\ FilesOf(job[r].layout) \subseteq FileNames
        BY <2>1 DEF FilesOf, FileNames
      <3> QED  BY <1>0, <1>1, <2>1, <3>1, <3>2, <3>3 DEF PlanIsRight
    <2>3. NodeIsRight(r)'
      <3>1. CASE FieldLoad(r)
        <4>1. job'[r].node = tree[job[r].at] /\ job'[r].at = job[r].at
          BY <1>0, <3>1 DEF FieldLoad, Jobs
        <4>2. pc[r] = "field" /\ tree[job[r].at] # NoRecord /\ job[r].at \in Nodes
          BY <1>0, <3>1 DEF FieldLoad, HasInHand
        <4> QED  BY <1>1, <4>1, <4>2 DEF NodeIsRight, IInv, TreeIsRight
      <3>2. CASE ~FieldLoad(r)
        <4>1. pc'[r] # "fieldsave"
          BY <1>0, <3>2 DEF RunStep, Engine, CommandFails, Die, ImportSkips, FilesTyped,
               ImportStarts, ImportRefused, Verify, RunFails, Done, Dispose, SaveNode, FieldSave,
               Goto, Onward, End
        <4> QED  BY <4>1 DEF NodeIsRight
      <3> QED  BY <3>1, <3>2
    <2>4. FinishedStand(r)'
      <3> SUFFICES ASSUME ~job'[r].failed,
                          NEW k \in Planned(job[r].plan) \ (job'[r].todo \cup worked),
                          Doc[k] # NoRecord, ~InProgressOn(r, k)'
                   PROVE  InTree(k)'
        BY <1>1, <2>1 DEF FinishedStand, Planned
      <3>0. k \in Nodes
        BY DEF Planned
      <3>1. TreeIsRight' /\ (InTree(k) => InTree(k)')
        BY <3>0, RunTree
      \* Of a node that is there and has no goal to be added.
      <3>2. ASSUME tree'[k] # NoRecord, job[r].plan[k].goal = NoGoal  PROVE InTree(k)'
        <4>1. Doc[k].goal = NoGoal
          BY <1>0, <2>1, <3>0, <3>2, DocIsTyped DEF PlanIsRight
        <4>2. /\ tree'[k].status = Doc[k].status
              /\ k \in Epics => tree'[k].goal \in {NoGoal, Doc[k].goal}
          BY <1>1, <3>0, <3>1, <3>2 DEF TreeIsRight
        <4> QED  BY <1>1, <4>1, <4>2 DEF InTree
      <3>3. ASSUME k \notin job[r].todo, ~InProgressOn(r, k), ~job[r].failed  PROVE InTree(k)'
        BY <1>0, <2>1, <3>1, <3>3 DEF FinishedStand
      <3>4. CASE ImportSkips(r) \/ ImportStarts(r)
        <4>1. PICK j \in Due(r) :
                /\ pc[r] = "next" /\ job' = Took(r, j)
                /\ \/ pc' = [pc EXCEPT ![r] = "save"]
                   \/ tree[j] # NoRecord /\ UNCHANGED tree /\ pc' = [pc EXCEPT ![r] = Onward(r, j)]
          BY <3>4 DEF ImportSkips, ImportStarts, Goto
        <4>2. job'[r].at = j /\ job'[r].todo = job[r].todo \ {j} /\ job'[r].failed = job[r].failed
          BY <1>0, <4>1 DEF Took, Jobs
        <4>3. CASE k = j
          <5>1. pc'[r] \notin {"save", "field"}
            BY <4>2, <4>3 DEF InProgressOn
          <5>2. tree'[k] # NoRecord /\ job[r].plan[k].goal = NoGoal
            BY <1>0, <4>1, <4>3, <5>1 DEF FilesTyped, Onward
          <5> QED  BY <3>2, <5>2
        <4>4. CASE k # j
          BY <3>3, <4>1, <4>2, <4>4 DEF InProgressOn
        <4> QED  BY <4>3, <4>4
      <3>5. CASE ImportRefused(r) \/ CommandFails(r)
        <4>1. \/ \E j : job' = Failing(r, j)
              \/ job' = [job EXCEPT ![r] = [job[r] EXCEPT !.failed = TRUE]]
          BY <3>5 DEF ImportRefused, CommandFails
        <4>2. job'[r].failed
          <5>1. CASE \E j : job' = Failing(r, j)
            BY <1>0, <5>1 DEF Failing, Jobs
          <5>2. CASE job' = [job EXCEPT ![r] = [job[r] EXCEPT !.failed = TRUE]]
            BY <1>0, <5>2 DEF Jobs
          <5> QED  BY <4>1, <5>1, <5>2
        <4> QED  BY <4>2
      <3>6. CASE SaveNode(r)
        <4>1. pc[r] = "save" /\ job' = job /\ pc' = [pc EXCEPT ![r] = Onward(r, job[r].at)]
          BY <3>6 DEF SaveNode, Goto
        <4>2. CASE k = job[r].at
          <5>1. job[r].plan[k].goal = NoGoal
            BY <1>0, <4>1, <4>2 DEF InProgressOn, FilesTyped, Onward
          <5>2. tree'[k] # NoRecord
            <6>1. job[r].plan[k] \in Records
              BY <1>0, <4>1, <4>2, InHandIsTyped
            <6>2. tree' = [tree EXCEPT ![k] = [status |-> job[r].plan[k].status, goal |-> NoGoal]]
              BY <3>6, <4>2 DEF SaveNode
            <6>3. tree'[k].status # "none"
              BY <1>0, <3>0, <6>1, <6>2 DEF FilesTyped, Listings, Records, Statuses
            <6> QED  BY <6>3 DEF NoRecord
          <5> QED  BY <3>2, <5>1, <5>2
        <4>3. CASE k # job[r].at
          BY <3>3, <4>1, <4>3 DEF InProgressOn
        <4> QED  BY <4>2, <4>3
      <3>7. CASE FieldLoad(r)
        <4>1. /\ job'[r].at = job[r].at /\ job'[r].todo = job[r].todo
              /\ job'[r].failed = job[r].failed /\ pc'[r] = "fieldsave"
          BY <1>0, <3>7 DEF FieldLoad, Jobs, Goto, FilesTyped
        <4> QED  BY <3>3, <4>1 DEF InProgressOn
      <3>8. CASE FieldSave(r)
        <4>1. job'[r].todo = job[r].todo /\ job'[r].failed = job[r].failed
          BY <1>0, <3>8 DEF FieldSave, Jobs
        <4>2. CASE k = job[r].at
          BY <3>0, <3>8, <4>2, RunTree
        <4>3. CASE k # job[r].at
          BY <3>3, <4>1, <4>3 DEF InProgressOn
        <4> QED  BY <4>2, <4>3
      <3>9. CASE Verify(r) \/ Dispose(r)
        BY <3>3, <3>9 DEF Verify, Dispose, InProgressOn
      <3>10. CASE RunFails(r) \/ Done(r) \/ Die(r)
        BY <1>0, <1>3, <3>10 DEF RunFails, Done, Die, End, Goto, FilesTyped
      <3> QED  BY <3>4, <3>5, <3>6, <3>7, <3>8, <3>9, <3>10 DEF RunStep, Engine
    <2> QED  BY <2>2, <2>3, <2>4
  <1> QED  BY <1>2, <1>3

-----------------------------------------------------------------------------
(* The others' steps.                                                       *)

\* The three files that split-status makes have each record of the one, and shells.
LEMMA SplitRight ==
    ASSUME MigrationAssumption, IInv, SplitStatus
    PROVE  IInv'
  <1>0. Typed /\ FilesTyped /\ SourcesAreParts /\ EpicInv
    BY TypedParts DEF IInv, EpicInv
  <1>1. /\ source["active"] = Doc /\ Doc # Missing
        /\ source' = [f \in FileNames |-> Part(Doc, f)]
        /\ legacy' = [legacy EXCEPT !["active"] = Doc]
        /\ \A r \in Runs : pc[r] = "idle" /\ pc'[r] = "idle"
        /\ UNCHANGED <<dirs, tree, pc, job, first, worked>>
    BY <1>0 DEF SplitStatus, SourcesAreParts, Present
  <1>2. Doc' = Doc
    BY <1>1 DEF Doc
  <1>3. ASSUME NEW k \in Nodes, Doc[k] # NoRecord  PROVE  ~Gone(k)'
    <2>1. FileOf(Doc, k) \in FileNames
      BY DEF FileOf, FileNames
    <2>2. source'[FileOf(Doc, k)][k] = Doc[k]
      BY <1>1, <1>3, <2>1 DEF Part, Listed, HasShell
    <2> QED  BY <1>2, <2>1, <2>2 DEF Gone
  <1>4. ASSUME NEW f \in FileNames, NEW k \in Nodes
        PROVE  source'[f][k] = NoRecord \/ source'[f][k] = Doc[k]
                 \/ (HasShell(Doc, k) /\ source'[f][k] = Shell(k))
    BY <1>1 DEF Part, Listed, Shell
  <1>5. ASSUME NEW k \in Nodes, HasShell(Doc, k)
        PROVE  k \in Epics /\ Doc[k] # NoRecord /\ Doc[k].status = "in-progress"
    <2>1. k \in Epics /\ Doc[k] # NoRecord /\ FileOf(Doc, k) = "active"
      BY <1>5 DEF HasShell, Listed
    <2>2. Doc[EpicOf[k]].status = Doc[k].status
      BY <2>1 DEF MigrationAssumption
    <2>3. Doc[k].status # "done" /\ Doc[k].status # "backlog"
      BY <2>1, <2>2 DEF FileOf
    <2>4. Doc[k].status \in {"backlog", "in-progress", "done"}
      BY <1>0, <2>1, DocIsTyped DEF Statuses
    <2> QED  BY <2>1, <2>3, <2>4
  <1>6. SourcesAreParts'
    <2>1. \A f \in FileNames, k \in Nodes :
            (source[f][k] = NoRecord \/ source[f][k] = Doc[k] \/ IsShellOf(source[f][k], k))'
      BY <1>2, <1>4, <1>5 DEF IsShellOf, Shell
    <2>2. legacy'["active"] # Missing
      BY <1>0, <1>1 DEF FilesTyped, FileNames
    <2>3. first' = first
      BY <1>1
    <2> QED  BY <1>0, <2>1, <2>2, <2>3 DEF SourcesAreParts
  <1>7. EpicInv'
    BY <1>0, NextEpics DEF Next
  <1>8. DirsStand' /\ TreeIsRight' /\ GoneAreInTree'
    <2>1. DirsStand'
      BY <1>1 DEF IInv, DirsStand
    <2>2. TreeIsRight'
      BY <1>1, <1>2 DEF IInv, TreeIsRight
    <2>3. GoneAreInTree'
      BY <1>2, <1>3 DEF GoneAreInTree, Gone
    <2> QED  BY <2>1, <2>2, <2>3
  <1>9. \A r \in Runs : PlanIsRight(r)' /\ NodeIsRight(r)' /\ FinishedStand(r)'
    BY <1>1 DEF PlanIsRight, NodeIsRight, FinishedStand
  <1> QED  BY <1>6, <1>7, <1>8, <1>9 DEF IInv

LEMMA WorkLeaves ==
    ASSUME MigrationAssumption, IInv, NEW w \in Nodes, Work(w)
    PROVE  IInv'
  <1>0. Typed /\ FilesTyped /\ SourcesAreParts /\ EpicInv
    BY TypedParts DEF IInv, EpicInv
  <1>1. /\ worked' = worked \cup {w} /\ tree[w] # NoRecord
        /\ UNCHANGED <<source, legacy, dirs, pc, job, first>>
        /\ \A k \in Nodes : k # w => tree'[k] = tree[k]
    BY <1>0 DEF Work, FilesTyped, Listings
  <1>2. Doc' = Doc /\ \A k \in Nodes : Gone(k)' <=> Gone(k)
    <2>1. Doc' = Doc
      BY <1>1 DEF Doc
    <2> QED  BY <1>1, <2>1 DEF Gone
  <1>3. \A k \in Nodes \ worked' : InTree(k)' <=> InTree(k)
    BY <1>1, <1>2 DEF InTree
  <1>4. EpicInv'
    BY <1>0, NextEpics DEF Next
  <1>5. SourcesAreParts'
    <2>1. \A f \in FileNames, k \in Nodes :
            IsShellOf(source[f][k], k) => IsShellOf(source[f][k], k)'
      BY <1>1, <1>2 DEF IsShellOf, Shell
    <2> QED  BY <1>0, <1>1, <1>2, <2>1 DEF SourcesAreParts, Present
  <1>6. DirsStand'
    BY <1>1 DEF IInv, DirsStand
  <1>7. TreeIsRight'
    BY <1>1, <1>2 DEF IInv, TreeIsRight
  <1>8. GoneAreInTree'
    BY <1>1, <1>2, <1>3 DEF IInv, GoneAreInTree
  <1>9. ASSUME NEW r \in Runs  PROVE  PlanIsRight(r)' /\ NodeIsRight(r)' /\ FinishedStand(r)'
    <2>0. PlanIsRight(r) /\ NodeIsRight(r) /\ FinishedStand(r)
      BY DEF IInv
    <2>1. PlanIsRight(r)'
      <3>1. \A k \in Nodes : IsShellOf(job[r].plan[k], k) => IsShellOf(job[r].plan[k], k)'
        BY <1>1, <1>2 DEF IsShellOf, Shell
      <3>2. Planned(job[r].plan) \subseteq Nodes /\ Planned(job[r].plan)' = Planned(job[r].plan)
        BY <1>1 DEF Planned
      <3> QED  BY <1>1, <1>2, <2>0, <3>1, <3>2 DEF PlanIsRight
    <2>2. NodeIsRight(r)'
      BY <1>1, <1>2, <2>0 DEF NodeIsRight
    <2>3. FinishedStand(r)'
      BY <1>1, <1>2, <1>3, <2>0 DEF FinishedStand, InProgressOn, Planned
    <2> QED  BY <2>1, <2>2, <2>3
  <1> QED  BY <1>4, <1>5, <1>6, <1>7, <1>8, <1>9 DEF IInv

LEMMA NextKeepsAll ==
    ASSUME MigrationAssumption, IInv, Next
    PROVE  IInv'
  <1>1. ASSUME NEW r \in Runs, RunStep(r)  PROVE IInv'
    <2>0. EpicInv /\ SourcesAreParts /\ DirsStand /\ Typed
      BY DEF IInv, EpicInv
    <2>1. EpicInv'
      BY <1>1, <2>0, NextEpics
    <2>2. SourcesAreParts' /\ DirsStand' /\ TreeIsRight' /\ GoneAreInTree'
      BY <1>1, <2>0, RunSources, RunDirs, RunTree, RunGone
    <2>3. PlanIsRight(r)' /\ NodeIsRight(r)' /\ FinishedStand(r)'
      BY <1>1, BeginRight, WorkRight
    <2>4. \A q \in Runs : PlanIsRight(q)' /\ NodeIsRight(q)' /\ FinishedStand(q)'
      <3> SUFFICES ASSUME NEW q \in Runs  PROVE PlanIsRight(q)' /\ NodeIsRight(q)' /\ FinishedStand(q)'
        OBVIOUS
      <3>1. CASE q = r
        BY <2>3, <3>1
      <3>2. CASE q # r
        BY <1>1, <3>2, OtherRuns
      <3> QED  BY <3>1, <3>2
    <2> QED  BY <2>1, <2>2, <2>4 DEF IInv
  <1>2. ASSUME \E k \in Nodes : Work(k)  PROVE IInv'
    BY <1>2, WorkLeaves
  <1> QED  BY <1>1, <1>2, SplitRight DEF Next, RunStep

LEMMA Unchanged ==
    ASSUME IInv, UNCHANGED vars
    PROVE  IInv'
  <1>0. /\ UNCHANGED <<source, legacy, dirs, tree, holder, pc, job, first, worked>>
        /\ died' = died /\ lapsed' = lapsed
    BY DEF vars
  <1>1. EpicInv'
    BY <1>0 DEF IInv, EpicInv, Typed, TypeOK, HasInHand, WorkedStand, EpicInHand
  <1>2. SourcesAreParts' /\ DirsStand'
    BY <1>0 DEF IInv, SourcesAreParts, DirsStand, IsShellOf, Shell, Doc, Present
  <1>3. TreeIsRight' /\ GoneAreInTree'
    BY <1>0 DEF IInv, TreeIsRight, GoneAreInTree, Gone, InTree, Doc
  <1>4. ASSUME NEW r \in Runs  PROVE  PlanIsRight(r)' /\ NodeIsRight(r)' /\ FinishedStand(r)'
    <2>0. PlanIsRight(r) /\ NodeIsRight(r) /\ FinishedStand(r)
      BY DEF IInv
    <2>1. PlanIsRight(r)'
      BY <1>0, <2>0 DEF PlanIsRight, Gone, IsShellOf, Shell, Doc
    <2>2. NodeIsRight(r)' /\ FinishedStand(r)'
      BY <1>0, <2>0 DEF NodeIsRight, FinishedStand, InTree, InProgressOn, Doc
    <2> QED  BY <2>1, <2>2
  <1> QED  BY <1>1, <1>2, <1>3, <1>4 DEF IInv

\* An old project's nodes are in the tree as its status file had them once they are
\* in no file any more: whatever died, failed or ran at the same time, and whether
\* the file was split before.
THEOREM MigratesAsItWas ==
    ASSUME OneStatusFile
    PROVE  Spec => []MigratedAsItWas
  <1> USE MigrationAssumption
  <1>1. Init => IInv
    <2> SUFFICES ASSUME Init  PROVE IInv
      OBVIOUS
    <2>1. EpicInv
      BY InitTyped DEF EpicInv, Init, WorkedStand, EpicInHand
    <2>2. SourcesAreParts
      <3>1. first \in [FileNames -> Listings] /\ source = first
        BY DEF Init, MigrationAssumption
      <3>2. \A f \in FileNames \ {"active"} : first[f] = Missing
        BY DEF Init, OneStatusFile
      <3>3. \A f \in FileNames, k \in Nodes : source[f][k] = NoRecord \/ source[f][k] = Doc[k]
        BY <3>1, <3>2 DEF Missing, Doc
      <3> QED  BY <3>1, <3>2, <3>3 DEF SourcesAreParts, Doc
    <2>3. \A k \in Nodes : ~Gone(k)
      BY DEF Init, Gone, Doc, FileNames
    <2>4. tree = Missing /\ \A r \in Runs : pc[r] = "idle"
      BY DEF Init
    <2>5. DirsStand /\ TreeIsRight
      BY <2>4 DEF DirsStand, TreeIsRight, Missing
    <2> QED  BY <2>1, <2>2, <2>3, <2>4, <2>5
             DEF IInv, GoneAreInTree, PlanIsRight, NodeIsRight, FinishedStand
  <1>2. IInv /\ [Next]_vars => IInv'
    <2> SUFFICES ASSUME IInv, [Next]_vars  PROVE  IInv'
      OBVIOUS
    <2>1. CASE UNCHANGED vars
      BY <2>1, Unchanged
    <2> QED  BY <2>1, NextKeepsAll
  <1>3. IInv => MigratedAsItWas
    <2> SUFFICES ASSUME IInv, NEW f \in FileNames, NEW k \in Nodes \ worked,
                        first[f][k] # NoRecord,
                        \A g \in FileNames : source[g][k] # first[f][k]
                 PROVE  /\ tree[k].status = first[f][k].status
                        /\ k \in Epics => tree[k].goal = first[f][k].goal
      BY DEF MigratedAsItWas
    <2>1. first[f] = Doc
      BY DEF IInv, SourcesAreParts, Doc, Missing
    <2>2. InTree(k)
      BY <2>1 DEF IInv, GoneAreInTree, Gone
    <2> QED  BY <2>1, <2>2 DEF InTree
  <1> QED  BY <1>1, <1>2, <1>3, PTL DEF Spec

=============================================================================
