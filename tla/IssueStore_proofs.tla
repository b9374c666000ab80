-------------------------- MODULE IssueStore_proofs --------------------------
(***************************************************************************)
(* Proofs about the two backlog files.                                     *)
(***************************************************************************)
EXTENDS IssueStore, TLAPS, SequenceTheorems

-----------------------------------------------------------------------------
(* Lists of resolved entries.                                               *)

\* What dropping one element does to a sequence.
LEMMA RemoveAtProperties ==
  ASSUME NEW S, NEW s \in Seq(S), NEW i \in 1..Len(s)
  PROVE  /\ RemoveAt(s, i) \in Seq(S)
         /\ Len(RemoveAt(s, i)) = Len(s) - 1
         /\ \A j \in 1..(Len(s) - 1) : RemoveAt(s, i)[j] = IF j < i THEN s[j] ELSE s[j + 1]
<1> DEFINE n == Len(s)
           a == SubSeq(s, 1, i - 1)
           b == SubSeq(s, i + 1, n)
<1>1. n \in Nat /\ \A j \in 1..n : s[j] \in S
  BY LenProperties, ElementOfSeq
<1>2. /\ a \in Seq(S)
      /\ Len(a) = i - 1
      /\ \A j \in 1..(i - 1) : a[j] = s[j]
  BY <1>1, SMT
<1>3. /\ b \in Seq(S)
      /\ Len(b) = n - i
      /\ \A j \in 1..(n - i) : b[j] = s[i + j]
  BY <1>1, SMT
<1> HIDE DEF a, b
<1>4. /\ a \o b \in Seq(S)
      /\ Len(a \o b) = Len(a) + Len(b)
      /\ \A j \in 1..(Len(a) + Len(b)) :
           (a \o b)[j] = IF j <= Len(a) THEN a[j] ELSE b[j - Len(a)]
  BY <1>2, <1>3, ConcatProperties, Zenon
<1>5. Len(a) + Len(b) = n - 1
  BY <1>1, <1>2, <1>3
<1>6. \A j \in 1..(n - 1) : (a \o b)[j] = IF j < i THEN s[j] ELSE s[j + 1]
  <2> TAKE j \in 1..(n - 1)
  <2>1. (a \o b)[j] = IF j <= i - 1 THEN a[j] ELSE b[j - (i - 1)]
    BY <1>2, <1>4, <1>5
  <2>2. CASE j < i
    BY <2>1, <2>2, <1>1, <1>2
  <2>3. CASE ~(j < i)
    <3>1. j - (i - 1) \in 1..(n - i) /\ i + (j - (i - 1)) = j + 1
      BY <1>1, <2>3
    <3>2. b[j - (i - 1)] = s[j + 1]
      BY <1>3, <3>1
    <3> QED
      BY <1>1, <2>1, <2>3, <3>2
  <2> QED
    BY <2>2, <2>3
<1> QED
  BY <1>4, <1>5, <1>6 DEF RemoveAt, a, b

-----------------------------------------------------------------------------
(* Types.                                                                   *)

LEMMA RewrittenType ==
  ASSUME NEW st \in Stores, NEW olds, NEW news \in SUBSET Items
  PROVE  Rewritten(st, olds, news) \in Stores
BY DEF Rewritten, Stores

LEMMA WithoutOpenType ==
  ASSUME NEW st \in Stores, NEW k
  PROVE  WithoutOpen(st, k) \in Stores
BY DEF WithoutOpen, Stores

LEMMA WithoutResolvedType ==
  ASSUME NEW st \in Stores, NEW i \in DOMAIN st.resolved
  PROVE  WithoutResolved(st, i) \in Stores
<1>1. st.resolved \in Seq(Entries) /\ i \in 1..Len(st.resolved)
  BY LenProperties DEF Stores
<1>2. RemoveAt(st.resolved, i) \in Seq(Entries)
  BY <1>1, RemoveAtProperties
<1> QED
  BY <1>2 DEF WithoutResolved, Stores

\* A body that saves one file whole keeps the type if what it saves has it.
LEMMA OpenFileBodyType ==
  ASSUME TypeOK, NEW p \in Procs, NEW st \in Stores, OpenFileBody(p, st),
         birth' \in [Keys -> Contents \cup {NoContent}]
  PROVE  TypeOK'
<1>1. disk' \in Stores
  BY DEF OpenFileBody, SaveOpen, TypeOK, Stores
<1>2. mem' \in [Procs -> Stores]
  BY DEF OpenFileBody, TypeOK
<1> QED
  BY <1>1, <1>2 DEF OpenFileBody, TypeOK

LEMMA AppendAsType ==
  ASSUME TypeOK, NEW p \in Procs, NEW k \in Keys, NEW c \in Contents,
         NEW sev \in Severities, NEW kind \in Kinds, AppendAs(p, k, c, sev, kind)
  PROVE  TypeOK'
<1> DEFINE st == [mem[p] EXCEPT !.open = @ \cup {NewItem(k, c, sev, kind)},
                                !.next = RaiseNext(@, k[1], k[2] + 1)]
<1>1. k[1] \in Epics /\ k[2] \in Nat
  BY IssueStoreAssumption DEF Keys
<1>2. mem[p] \in Stores
  BY DEF TypeOK
<1>3. NewItem(k, c, sev, kind) \in Items
  BY DEF NewItem, Items
<1>4. RaiseNext(mem[p].next, k[1], k[2] + 1) \in [Epics -> Nat]
  BY <1>1, <1>2 DEF RaiseNext, Stores
<1>5. st \in Stores
  BY <1>2, <1>3, <1>4 DEF Stores
<1>6. birth' \in [Keys -> Contents \cup {NoContent}]
  BY DEF AppendAs, TypeOK
<1>7. OpenFileBody(p, st)
  BY DEF AppendAs
<1> HIDE DEF st
<1> QED
  BY <1>5, <1>6, <1>7, OpenFileBodyType

LEMMA LeaveType ==
  ASSUME TypeOK, NEW p \in Procs, Leave(p)
  PROVE  TypeOK'
<1>1. EmptyStore \in Stores
  BY EmptySeq DEF EmptyStore, Stores
<1> QED
  BY <1>1 DEF Leave, TypeOK

LEMMA AppendStepType ==
  ASSUME TypeOK, NEW p \in Procs, AppendStep(p)
  PROVE  TypeOK'
<1> PICK c \in Contents, sev \in Severities, kind \in Kinds, dup \in BOOLEAN :
      \/ AppendAllocated(p, c, sev, kind, dup)
      \/ \E n \in ExplicitSuffixes : AppendExplicit(p, c, sev, kind, dup, n)
  BY DEF AppendStep
<1>1. PICK n \in 1..LastSuffix : AppendAs(p, <<EpicOf[c], n>>, c, sev, kind)
  BY IssueStoreAssumption DEF AppendAllocated, AppendExplicit
<1>2. <<EpicOf[c], n>> \in Keys
  BY <1>1, IssueStoreAssumption DEF Keys
<1> QED
  BY <1>1, <1>2, AppendAsType

LEMMA ResolveStepType ==
  ASSUME TypeOK, NEW p \in Procs, ResolveStep(p)
  PROVE  TypeOK'
<1>0. mem[p] \in Stores /\ mem[p].open \subseteq Items
  BY DEF TypeOK, Stores
<1>1. ASSUME NEW it \in mem[p].open, NEW how \in Resolutions,
             NEW ref \in Refs \cup {NoKey}, ResolveAppend(p, it, how, ref)
      PROVE  TypeOK'
  <2> DEFINE e == [item |-> it, how |-> how, ref |-> ref]
             st == [mem[p] EXCEPT !.resolved = Append(@, e)]
  <2>1. e \in Entries /\ it.key \in Keys
    BY <1>0 DEF Entries, Items
  <2>2. Append(mem[p].resolved, e) \in Seq(Entries)
    BY <1>0, <2>1, AppendProperties DEF Stores
  <2>3. st \in Stores
    BY <1>0, <2>2 DEF Stores
  <2>4. /\ mem' = [mem EXCEPT ![p] = st]
        /\ disk' = [disk EXCEPT !.resolved = st.resolved]
        /\ pc' = [pc EXCEPT ![p] = "dropOpen"]
        /\ cur' = [cur EXCEPT ![p] = it.key]
        /\ UNCHANGED <<holder, birth, deleted>>
    BY <1>1 DEF ResolveAppend, SaveResolved
  <2> HIDE DEF st
  <2>5. disk' \in Stores /\ mem' \in [Procs -> Stores]
    BY <2>3, <2>4 DEF TypeOK, Stores
  <2> QED
    BY <2>1, <2>4, <2>5 DEF TypeOK
<1>2. ASSUME NEW it \in mem[p].open, ResolveRerun(p, it)
      PROVE  TypeOK'
  BY <1>0, <1>2, WithoutOpenType, OpenFileBodyType DEF ResolveRerun, TypeOK
<1>3. CASE ResolveDrop(p)
  <2>1. mem'[p] = WithoutOpen(mem[p], cur[p]) /\ mem'[p] \in Stores
    BY <1>0, <1>3, WithoutOpenType DEF ResolveDrop, TypeOK
  <2>2. mem' \in [Procs -> Stores]
    BY <1>0, <1>3, WithoutOpenType DEF ResolveDrop, TypeOK
  <2>3. disk' \in Stores
    BY <1>3, <2>1 DEF ResolveDrop, SaveOpen, TypeOK, Stores
  <2> QED
    BY <1>3, <2>2, <2>3 DEF ResolveDrop, TypeOK
<1> QED
  BY <1>1, <1>2, <1>3 DEF ResolveStep

LEMMA RewriteStepType ==
  ASSUME TypeOK, NEW p \in Procs, RewriteStep(p)
  PROVE  TypeOK'
<1>0. /\ mem[p] \in Stores /\ mem[p].open \subseteq Items
      /\ birth \in [Keys -> Contents \cup {NoContent}]
  BY DEF TypeOK, Stores
<1>1. ASSUME NEW it \in mem[p].open, NEW sev \in Severities, Update(p, it, sev)
      PROVE  TypeOK'
  <2>1. [it EXCEPT !.sev = sev] \in Items
    BY <1>0 DEF Items
  <2> QED
    BY <1>0, <1>1, <2>1, RewrittenType, OpenFileBodyType DEF Update
<1>2. ASSUME NEW it \in Items, NEW s \in Stories
      PROVE  ScheduledTo(it, s) \in Items
  BY DEF ScheduledTo, Items
<1>3. ASSUME NEW it \in mem[p].open, NEW s \in Stories, Link(p, it, s)
      PROVE  TypeOK'
  BY <1>0, <1>2, <1>3, RewrittenType, OpenFileBodyType DEF Link
<1>4. ASSUME NEW it \in mem[p].open, Unschedule(p, it)
      PROVE  TypeOK'
  <2>1. [it EXCEPT !.status = "backlog", !.story = NoStory] \in Items
    BY <1>0 DEF Items
  <2> QED
    BY <1>0, <1>4, <2>1, RewrittenType, OpenFileBodyType DEF Unschedule
<1>5. ASSUME NEW items \in SUBSET mem[p].open, NEW s \in Stories, Schedule(p, items, s)
      PROVE  TypeOK'
  <2>1. {ScheduledTo(it, s) : it \in items} \in SUBSET Items
    BY <1>0, <1>2
  <2> QED
    BY <1>0, <1>5, <2>1, RewrittenType, OpenFileBodyType DEF Schedule
<1> QED
  BY <1>1, <1>3, <1>4, <1>5 DEF RewriteStep

LEMMA DropResolvedType ==
  ASSUME TypeOK, NEW p \in Procs, NEW k, DropResolved(p, k)
  PROVE  TypeOK'
<1>1. PICK i \in DOMAIN mem[p].resolved : mem' = [mem EXCEPT ![p] = WithoutResolved(mem[p], i)]
  BY DEF DropResolved
<1>2. mem[p] \in Stores
  BY DEF TypeOK
<1>3. WithoutResolved(mem[p], i) \in Stores
  BY <1>1, <1>2, WithoutResolvedType
<1>4. mem'[p] \in Stores /\ mem' \in [Procs -> Stores]
  BY <1>1, <1>3 DEF TypeOK
<1>5. disk' \in Stores
  BY <1>4 DEF DropResolved, SaveResolved, TypeOK, Stores
<1> QED
  BY <1>4, <1>5 DEF DropResolved, TypeOK

LEMMA ReopenStepType ==
  ASSUME TypeOK, NEW p \in Procs, ReopenStep(p)
  PROVE  TypeOK'
<1>0. mem[p] \in Stores
  BY DEF TypeOK
<1>1. ASSUME NEW k \in Keys, NEW i \in DOMAIN mem[p].resolved, ReopenAdd(p, k, i)
      PROVE  TypeOK'
  <2> DEFINE e == mem[p].resolved[i]
             st == [mem[p] EXCEPT !.open = @ \cup {ScheduledTo(e.item, e.ref)}]
  <2>1. e \in Entries
    BY <1>0, <1>1, ElementOfSeq, LenProperties DEF Stores
  <2>2. e.ref \in Stories
    BY <1>1 DEF ReopenAdd, IsReopenable
  <2>3. ScheduledTo(e.item, e.ref) \in Items
    BY <2>1, <2>2 DEF ScheduledTo, Items, Entries
  <2>4. st \in Stores
    BY <1>0, <2>3 DEF Stores
  <2>5. /\ mem' = [mem EXCEPT ![p] = st]
        /\ disk' = [disk EXCEPT !.open = st.open, !.next = st.next]
        /\ pc' = [pc EXCEPT ![p] = "dropResolved"]
        /\ cur' = [cur EXCEPT ![p] = k]
        /\ UNCHANGED <<holder, birth, deleted>>
    BY <1>1 DEF ReopenAdd, SaveOpen
  <2> HIDE DEF st
  <2>6. disk' \in Stores /\ mem' \in [Procs -> Stores]
    BY <2>4, <2>5 DEF TypeOK, Stores
  <2> QED
    BY <2>5, <2>6 DEF TypeOK
<1> QED
  BY <1>1, DropResolvedType DEF ReopenStep, ReopenRerun, ReopenDrop

LEMMA ReseedType ==
  ASSUME TypeOK, NEW p \in Procs, NEW e \in Epics, Reseed(p, e)
  PROVE  TypeOK'
<1>1. mem[p] \in Stores
  BY DEF TypeOK
<1>2. KeysIn(mem[p]) \subseteq Keys
  <2>1. \A i \in DOMAIN mem[p].resolved : mem[p].resolved[i] \in Entries
    BY <1>1, ElementOfSeq, LenProperties DEF Stores
  <2> QED
    BY <1>1, <2>1 DEF KeysIn, Stores, Entries, Items
<1>3. PICK n \in Nat : OpenFileBody(p, [mem[p] EXCEPT !.next[e] = n + 1])
  <2>1. \A k \in KeysIn(mem[p]) : k[2] \in Nat
    BY <1>2, IssueStoreAssumption DEF Keys
  <2> QED
    BY <2>1 DEF Reseed
<1>4. [mem[p] EXCEPT !.next[e] = n + 1] \in Stores
  <2>1. [mem[p].next EXCEPT ![e] = n + 1] \in [Epics -> Nat]
    BY <1>1 DEF Stores
  <2> QED
    BY <1>1, <2>1 DEF Stores
<1>5. birth' \in [Keys -> Contents \cup {NoContent}]
  BY DEF Reseed, TypeOK
<1> QED
  BY <1>3, <1>4, <1>5, OpenFileBodyType

LEMMA HandEditType ==
  ASSUME TypeOK, HandEdit
  PROVE  TypeOK'
<1>1. ASSUME NEW k \in Keys, HandDelete(k)
      PROVE  TypeOK'
  <2>1. disk' \in Stores
    BY <1>1, WithoutOpenType DEF HandDelete, TypeOK
  <2> QED
    BY <1>1, <2>1 DEF HandDelete, TypeOK
<1>2. ASSUME NEW e \in Epics, NEW n \in 0..(LastSuffix + 2), HandSetNext(e, n)
      PROVE  TypeOK'
  <2>1. n \in Nat
    BY IssueStoreAssumption
  <2>2. disk' \in Stores
    BY <1>2, <2>1 DEF HandSetNext, TypeOK, Stores
  <2> QED
    BY <1>2, <2>2 DEF HandSetNext, TypeOK
<1> QED
  BY <1>1, <1>2 DEF HandEdit

LEMMA AcquireType ==
  ASSUME TypeOK, NEW p \in Procs, Acquire(p)
  PROVE  TypeOK'
BY DEF Acquire, TypeOK

LEMMA InitType == Init => TypeOK
<1>1. EmptyStore \in Stores
  BY EmptySeq DEF EmptyStore, Stores
<1> QED
  BY <1>1 DEF Init, TypeOK

LEMMA NextType == TypeOK /\ [Next]_vars => TypeOK'
<1> SUFFICES ASSUME TypeOK, [Next]_vars
             PROVE  TypeOK'
  OBVIOUS
<1>1. ASSUME NEW p \in Procs, ProcStep(p)
      PROVE  TypeOK'
  <2>1. CASE Acquire(p)
    BY <2>1, AcquireType
  <2>2. CASE Release(p) \/ Crash(p)
    BY <2>2, LeaveType DEF Release, Crash
  <2>3. CASE AppendStep(p)
    BY <2>3, AppendStepType
  <2>4. CASE ResolveStep(p)
    BY <2>4, ResolveStepType
  <2>5. CASE RewriteStep(p)
    BY <2>5, RewriteStepType
  <2>6. CASE ReopenStep(p)
    BY <2>6, ReopenStepType
  <2>7. CASE \E e \in Epics : Reseed(p, e)
    BY <2>7, ReseedType
  <2> QED
    BY <1>1, <2>1, <2>2, <2>3, <2>4, <2>5, <2>6, <2>7 DEF ProcStep
<1>2. CASE HandEdit
  BY <1>2, HandEditType
<1>3. CASE UNCHANGED vars
  BY <1>3 DEF TypeOK, vars
<1> QED
  BY <1>1, <1>2, <1>3 DEF Next

\* Type correctness: whatever verbs, crashes and hand edits happen, the files
\* and the loaded copies stay well formed.
THEOREM TypeCorrect == Spec => []TypeOK
BY InitType, NextType, PTL DEF Spec

-----------------------------------------------------------------------------
(* The loaded copy.                                                         *)

LEMMA SameFields ==
  ASSUME NEW a \in Stores, NEW b \in Stores,
         a.open = b.open, a.resolved = b.resolved, a.next = b.next
  PROVE  a = b
BY DEF Stores

\* Saving the file whose part of the loaded copy changed makes the files equal
\* to the copy again, and only the process in the lock has a copy.
LEMMA SavedIsCurrent ==
  ASSUME TypeOK, TypeOK', LoadedIsCurrent, NEW p \in Procs, NEW st, NEW to,
         pc[p] # "idle",
         holder' = holder, pc' = [pc EXCEPT ![p] = to],
         mem' = [mem EXCEPT ![p] = st],
         \/ SaveOpen(st) /\ st.resolved = mem[p].resolved
         \/ SaveResolved(st) /\ st.open = mem[p].open /\ st.next = mem[p].next
  PROVE  LoadedIsCurrent' /\ disk' = st
<1>1. holder = p /\ mem[p] = disk
  BY DEF LoadedIsCurrent
<1>2. st \in Stores /\ disk \in Stores /\ mem'[p] = st
  BY DEF TypeOK
<1>3. disk' = st
  <2>1. disk' \in Stores
    BY DEF TypeOK
  <2>2. /\ disk'.open = st.open
        /\ disk'.resolved = st.resolved
        /\ disk'.next = st.next
    <3>1. CASE SaveOpen(st) /\ st.resolved = mem[p].resolved
      BY <1>1, <1>2, <3>1 DEF SaveOpen, Stores
    <3>2. CASE SaveResolved(st) /\ st.open = mem[p].open /\ st.next = mem[p].next
      BY <1>1, <1>2, <3>2 DEF SaveResolved, Stores
    <3> QED
      BY <3>1, <3>2
  <2> QED
    BY <1>2, <2>1, <2>2, SameFields
<1>4. \A q \in Procs \ {p} : pc'[q] = "idle"
  BY <1>1 DEF LoadedIsCurrent, TypeOK
<1> QED
  BY <1>1, <1>2, <1>3, <1>4 DEF LoadedIsCurrent

LEMMA BodyIsCurrent ==
  ASSUME TypeOK, TypeOK', LoadedIsCurrent, NEW p \in Procs, NEW st,
         pc[p] = "loaded", OpenFileBody(p, st), st.resolved = mem[p].resolved
  PROVE  LoadedIsCurrent' /\ disk' = st
<1>1. pc' = [pc EXCEPT ![p] = pc[p]]
  BY DEF OpenFileBody, TypeOK
<1> QED
  BY <1>1, SavedIsCurrent DEF OpenFileBody

\* A process between its two saves has saved the first.
Owed ==
  \A p \in Procs :
    /\ pc[p] = "dropOpen" => IsResolved(disk, cur[p])
    /\ pc[p] = "dropResolved" =>
         /\ OpenItems(disk, cur[p]) # {}
         /\ \E i \in DOMAIN disk.resolved : IsReopenable(disk, cur[p], i)

HoldInv == TypeOK /\ LoadedIsCurrent /\ Owed

(* What one step does to the two files, whichever process takes it.         *)

NextAndHistorySame == disk'.next = disk.next /\ UNCHANGED <<birth, deleted>>

AddsNew ==
  \E it \in Items :
    /\ it.key \notin KeysIn(disk)
    /\ disk'.open = disk.open \cup {it}
    /\ disk'.resolved = disk.resolved
    /\ disk'.next = RaiseNext(disk.next, it.key[1], it.key[2] + 1)
    /\ birth' = [birth EXCEPT ![it.key] = IF @ = NoContent THEN it.content ELSE @]
    /\ \/ it.key[2] \in ExplicitSuffixes
       \/ IsNextSuffix(disk, it.key[1], it.key[2])
    /\ deleted' = deleted

AddsBack ==
  \E i \in DOMAIN disk.resolved, it \in Items :
    /\ OpenItems(disk, it.key) = {}
    /\ it.key = disk.resolved[i].item.key
    /\ it.content = disk.resolved[i].item.content
    /\ it.sev = disk.resolved[i].item.sev
    /\ disk'.open = disk.open \cup {it}
    /\ disk'.resolved = disk.resolved
    /\ NextAndHistorySame

DropsOpen ==
  \E k \in Keys :
    /\ IsResolved(disk, k)
    /\ disk'.open = disk.open \ OpenItems(disk, k)
    /\ disk'.resolved = disk.resolved
    /\ NextAndHistorySame

\* news are the items olds under the same keys, all of them open and unresolved.
IsRewrite(st, olds, news) ==
  /\ olds \subseteq st.open /\ news \subseteq Items
  /\ \A o \in olds : IsUnresolvedOpen(st, o) /\ \E n \in news : n.key = o.key
  /\ \A n \in news : \E o \in olds : n.key = o.key /\ n.content = o.content
  /\ \A m, n \in news : m.key = n.key => m = n

SevsKept(olds, news) ==
  \A n \in news, o \in olds : n.key = o.key => n.sev = o.sev

RewritesOpen ==
  \E olds, news :
    /\ IsRewrite(disk, olds, news)
    /\ SevsKept(olds, news) \/ \E o : olds = {o}
    /\ disk'.open = (disk.open \ olds) \cup news
    /\ disk'.resolved = disk.resolved
    /\ NextAndHistorySame

AppendsResolved ==
  \E e \in Entries :
    /\ e.item \in disk.open
    /\ IsUnresolvedOpen(disk, e.item)
    /\ RefAllowed(disk, e.item.key, e.how, e.ref)
    /\ \E p \in Procs : pc[p] = "loaded"
    /\ disk'.open = disk.open
    /\ disk'.resolved = Append(disk.resolved, e)
    /\ NextAndHistorySame

DropsResolved ==
  \E i \in DOMAIN disk.resolved :
    /\ OpenItems(disk, disk.resolved[i].item.key) # {}
    /\ disk.resolved[i].how = "fixed"
    /\ disk'.open = disk.open
    /\ disk'.resolved = RemoveAt(disk.resolved, i)
    /\ NextAndHistorySame

RaisesNext ==
  /\ disk'.open = disk.open
  /\ disk'.resolved = disk.resolved
  /\ \A e \in Epics : disk'.next[e] >= disk.next[e]
  /\ UNCHANGED <<birth, deleted>>

LeavesFiles == UNCHANGED <<disk, birth, deleted>>

VerbEffect ==
  \/ AddsNew \/ AddsBack \/ DropsOpen \/ RewritesOpen
  \/ AppendsResolved \/ DropsResolved \/ RaisesNext \/ LeavesFiles

Effect == VerbEffect \/ HandEdit

-----------------------------------------------------------------------------
(* Every step keeps HoldInv and has one of those effects.                   *)

\* Only the process in the lock can owe a save.
LEMMA LoadedOwesNothing ==
  ASSUME LoadedIsCurrent', NEW p \in Procs, holder' = p, pc'[p] = "loaded"
  PROVE  Owed'
BY DEF LoadedIsCurrent, Owed

LEMMA BodyHold ==
  ASSUME HoldInv, TypeOK', NEW p \in Procs, NEW st,
         pc[p] = "loaded", OpenFileBody(p, st), st.resolved = mem[p].resolved
  PROVE  HoldInv' /\ disk' = st /\ mem[p] = disk
<1>1. LoadedIsCurrent' /\ disk' = st
  BY BodyIsCurrent DEF HoldInv
<1>2. holder' = p /\ pc'[p] = "loaded" /\ mem[p] = disk
  BY DEF HoldInv, LoadedIsCurrent, OpenFileBody
<1> QED
  BY <1>1, <1>2, LoadedOwesNothing DEF HoldInv

LEMMA AppendStepEffect ==
  ASSUME HoldInv, NEW p \in Procs, AppendStep(p)
  PROVE  HoldInv' /\ AddsNew
<1> PICK c \in Contents, sev \in Severities, kind \in Kinds, dup \in BOOLEAN :
      \/ AppendAllocated(p, c, sev, kind, dup)
      \/ \E n \in ExplicitSuffixes : AppendExplicit(p, c, sev, kind, dup, n)
  BY DEF AppendStep
<1>0. TypeOK' /\ mem[p] \in Stores
  BY AppendStepType DEF HoldInv, TypeOK
<1>1. PICK n \in 1..LastSuffix :
        /\ pc[p] = "loaded"
        /\ AppendAs(p, <<EpicOf[c], n>>, c, sev, kind)
        /\ \/ n \in ExplicitSuffixes /\ <<EpicOf[c], n>> \notin KeysIn(mem[p])
           \/ IsNextSuffix(mem[p], EpicOf[c], n)
  BY IssueStoreAssumption DEF AppendAllocated, AppendExplicit
<1> DEFINE k == <<EpicOf[c], n>>
           it == NewItem(k, c, sev, kind)
           st == [mem[p] EXCEPT !.open = @ \cup {it},
                                !.next = RaiseNext(@, k[1], k[2] + 1)]
<1>2. it \in Items /\ it.key = k /\ it.content = c /\ k \in Keys
  BY <1>1, IssueStoreAssumption DEF NewItem, Items, Keys
<1>3. OpenFileBody(p, st) /\ st.resolved = mem[p].resolved
  BY <1>0, <1>1 DEF AppendAs, Stores
<1>4. HoldInv' /\ disk' = st /\ mem[p] = disk
  BY <1>0, <1>1, <1>3, BodyHold
<1>5. /\ disk'.open = disk.open \cup {it}
      /\ disk'.resolved = disk.resolved
      /\ disk'.next = RaiseNext(disk.next, k[1], k[2] + 1)
  BY <1>0, <1>4 DEF Stores
<1>6. k \notin KeysIn(disk)
  <2>1. SUFFICES ASSUME IsNextSuffix(disk, EpicOf[c], n), k \in KeysIn(disk)
                 PROVE  FALSE
    BY <1>1, <1>4
  <2>2. n > k[2]
    BY <2>1 DEF IsNextSuffix
  <2> QED
    BY <2>2
<1>7. /\ birth' = [birth EXCEPT ![k] = IF @ = NoContent THEN c ELSE @]
      /\ deleted' = deleted
  BY <1>1 DEF AppendAs, OpenFileBody
<1>8. n \in ExplicitSuffixes \/ IsNextSuffix(disk, EpicOf[c], n)
  BY <1>1, <1>4
<1>9. k[1] = EpicOf[c] /\ k[2] = n
  OBVIOUS
<1> HIDE DEF st, it, k
<1>10. /\ it.key \notin KeysIn(disk)
       /\ disk'.next = RaiseNext(disk.next, it.key[1], it.key[2] + 1)
       /\ birth' = [birth EXCEPT ![it.key] = IF @ = NoContent THEN it.content ELSE @]
       /\ it.key[2] \in ExplicitSuffixes \/ IsNextSuffix(disk, it.key[1], it.key[2])
  BY <1>2, <1>5, <1>6, <1>7, <1>8, <1>9
<1> QED
  BY <1>2, <1>4, <1>5, <1>7, <1>10 DEF AddsNew

LEMMA EntriesAreTyped ==
  ASSUME NEW st \in Stores
  PROVE  /\ DOMAIN st.resolved = 1..Len(st.resolved) /\ Len(st.resolved) \in Nat
         /\ \A i \in DOMAIN st.resolved :
              /\ st.resolved[i] \in Entries
              /\ st.resolved[i].item \in Items
              /\ st.resolved[i].item.key \in Keys
         /\ \A it \in st.open : it \in Items /\ it.key \in Keys
<1>1. st.resolved \in Seq(Entries) /\ st.open \subseteq Items
  BY DEF Stores
<1>2. /\ DOMAIN st.resolved = 1..Len(st.resolved) /\ Len(st.resolved) \in Nat
      /\ \A i \in 1..Len(st.resolved) : st.resolved[i] \in Entries
  BY <1>1, ElementOfSeq, LenProperties
<1> QED
  BY <1>1, <1>2 DEF Entries, Items

\* Adding an entry for an item adds its key to the resolved ones.
LEMMA AppendedIsResolved ==
  ASSUME NEW st \in Stores, NEW st2 \in Stores, NEW e \in Entries,
         st2.resolved = Append(st.resolved, e)
  PROVE  IsResolved(st2, e.item.key)
<1>1. st.resolved \in Seq(Entries)
  BY DEF Stores
<1>2. /\ Len(st2.resolved) = Len(st.resolved) + 1
      /\ st2.resolved[Len(st.resolved) + 1] = e
      /\ Len(st.resolved) \in Nat
  BY <1>1, AppendProperties, LenProperties
<1>3. Len(st.resolved) + 1 \in DOMAIN st2.resolved
  BY <1>2, EntriesAreTyped
<1> QED
  BY <1>2, <1>3 DEF IsResolved, ResolvedAt

LEMMA ResolveStepEffect ==
  ASSUME HoldInv, NEW p \in Procs, ResolveStep(p)
  PROVE  HoldInv' /\ (AppendsResolved \/ DropsOpen)
<1>0. /\ TypeOK' /\ mem[p] \in Stores /\ disk \in Stores /\ disk' \in Stores
      /\ mem[p].open \subseteq Items
  BY ResolveStepType DEF HoldInv, TypeOK, Stores
<1>1. ASSUME NEW it \in mem[p].open, NEW how \in Resolutions,
             NEW ref \in Refs \cup {NoKey}, ResolveAppend(p, it, how, ref)
      PROVE  HoldInv' /\ AppendsResolved
  <2> DEFINE e == [item |-> it, how |-> how, ref |-> ref]
             st == [mem[p] EXCEPT !.resolved = Append(@, e)]
  <2>1. e \in Entries /\ e.item = it /\ e.how = how /\ e.ref = ref
    BY <1>0 DEF Entries
  <2>2. /\ mem' = [mem EXCEPT ![p] = st]
        /\ SaveResolved(st)
        /\ pc[p] # "idle"
        /\ pc' = [pc EXCEPT ![p] = "dropOpen"]
        /\ cur'[p] = it.key
        /\ UNCHANGED <<holder, birth, deleted>>
        /\ IsUnresolvedOpen(mem[p], it)
        /\ RefAllowed(mem[p], it.key, how, ref)
        /\ pc[p] = "loaded"
    BY <1>1 DEF ResolveAppend, IsUnresolvedOpen, HoldInv, TypeOK
  <2>3. st.open = mem[p].open /\ st.next = mem[p].next /\ st.resolved = Append(mem[p].resolved, e)
    BY <1>0 DEF Stores
  <2> HIDE DEF st, e
  <2>4. LoadedIsCurrent' /\ disk' = st
    BY <1>0, <2>2, <2>3, SavedIsCurrent DEF HoldInv
  <2>5. holder = p /\ mem[p] = disk
    BY <2>2 DEF HoldInv, LoadedIsCurrent
  <2>6. IsResolved(disk', it.key)
    BY <1>0, <2>1, <2>3, <2>4, AppendedIsResolved
  <2>7. pc'[p] = "dropOpen" /\ holder' = p
    BY <2>2, <2>5 DEF HoldInv, TypeOK
  <2>8. Owed'
    BY <2>2, <2>4, <2>6, <2>7 DEF LoadedIsCurrent, Owed
  <2>9. AppendsResolved
    BY <2>1, <2>2, <2>3, <2>4, <2>5 DEF AppendsResolved, NextAndHistorySame
  <2> QED
    BY <1>0, <2>4, <2>8, <2>9 DEF HoldInv
<1>2. ASSUME NEW it \in mem[p].open, ResolveRerun(p, it)
      PROVE  HoldInv' /\ DropsOpen
  <2> DEFINE st == WithoutOpen(mem[p], it.key)
  <2>1. /\ st.resolved = mem[p].resolved /\ st.next = mem[p].next
        /\ st.open = mem[p].open \ OpenItems(mem[p], it.key)
    BY <1>0 DEF WithoutOpen, Stores
  <2>2. pc[p] = "loaded" /\ OpenFileBody(p, st) /\ IsResolved(mem[p], it.key)
    BY <1>2 DEF ResolveRerun
  <2> HIDE DEF st
  <2>3. HoldInv' /\ disk' = st /\ mem[p] = disk
    BY <1>0, <2>1, <2>2, BodyHold
  <2>4. it.key \in Keys
    BY <1>0, EntriesAreTyped
  <2>5. UNCHANGED <<birth, deleted>>
    BY <1>2 DEF ResolveRerun, OpenFileBody
  <2> QED
    BY <2>1, <2>2, <2>3, <2>4, <2>5 DEF DropsOpen, NextAndHistorySame
<1>3. CASE ResolveDrop(p)
  <2> DEFINE st == WithoutOpen(mem[p], cur[p])
  <2>1. /\ st.resolved = mem[p].resolved /\ st.next = mem[p].next
        /\ st.open = mem[p].open \ OpenItems(mem[p], cur[p])
    BY <1>0 DEF WithoutOpen, Stores
  <2>2. /\ mem' = [mem EXCEPT ![p] = st]
        /\ pc[p] = "dropOpen"
        /\ pc' = [pc EXCEPT ![p] = "loaded"]
        /\ UNCHANGED <<holder, birth, deleted>>
    BY <1>3 DEF ResolveDrop
  <2>3. SaveOpen(st)
    BY <1>3, <2>2 DEF ResolveDrop, HoldInv, TypeOK
  <2> HIDE DEF st
  <2>4. LoadedIsCurrent' /\ disk' = st
    BY <1>0, <2>1, <2>2, <2>3, SavedIsCurrent DEF HoldInv
  <2>5. holder = p /\ mem[p] = disk /\ IsResolved(disk, cur[p])
    BY <2>2 DEF HoldInv, LoadedIsCurrent, Owed
  <2>6. cur[p] \in Keys
    BY <1>0, <2>5, EntriesAreTyped DEF IsResolved, ResolvedAt
  <2>7. HoldInv'
    BY <1>0, <2>2, <2>4, <2>5, LoadedOwesNothing DEF HoldInv, TypeOK
  <2> QED
    BY <2>1, <2>2, <2>4, <2>5, <2>6, <2>7 DEF DropsOpen, NextAndHistorySame
<1> QED
  BY <1>1, <1>2, <1>3 DEF ResolveStep

\* A body that rewrites open items in place.
LEMMA RewriteEffect ==
  ASSUME HoldInv, TypeOK', NEW p \in Procs,
         NEW olds, NEW news, IsRewrite(mem[p], olds, news),
         SevsKept(olds, news) \/ \E o : olds = {o},
         pc[p] = "loaded",
         OpenFileBody(p, Rewritten(mem[p], olds, news)), birth' = birth
  PROVE  HoldInv' /\ RewritesOpen
<1> DEFINE st == Rewritten(mem[p], olds, news)
<1>1. mem[p] \in Stores
  BY DEF HoldInv, TypeOK
<1>2. /\ st.open = (mem[p].open \ olds) \cup news
      /\ st.resolved = mem[p].resolved /\ st.next = mem[p].next
  BY <1>1 DEF Rewritten, Stores
<1> HIDE DEF st
<1>3. OpenFileBody(p, st)
  BY DEF st
<1>4. HoldInv' /\ disk' = st /\ mem[p] = disk
  BY <1>2, <1>3, BodyHold
<1>5. deleted' = deleted
  BY <1>3 DEF OpenFileBody
<1> QED
  <2>1. /\ IsRewrite(disk, olds, news)
        /\ SevsKept(olds, news) \/ \E o : olds = {o}
        /\ disk'.open = (disk.open \ olds) \cup news
        /\ disk'.resolved = disk.resolved
        /\ NextAndHistorySame
    BY <1>2, <1>4, <1>5 DEF NextAndHistorySame
  <2> QED
    BY <1>4, <2>1 DEF RewritesOpen

LEMMA RewriteStepEffect ==
  ASSUME HoldInv, NEW p \in Procs, RewriteStep(p)
  PROVE  HoldInv' /\ RewritesOpen
<1>0. /\ TypeOK' /\ mem[p] \in Stores /\ mem[p].open \subseteq Items
  BY RewriteStepType DEF HoldInv, TypeOK, Stores
<1>1. ASSUME NEW it \in mem[p].open, NEW new \in Items,
             new.key = it.key, new.content = it.content,
             pc[p] = "loaded", IsUnresolvedOpen(mem[p], it), birth' = birth,
             OpenFileBody(p, Rewritten(mem[p], {it}, {new}))
      PROVE  HoldInv' /\ RewritesOpen
  <2>1. IsRewrite(mem[p], {it}, {new}) /\ \E o : {it} = {o}
    BY <1>0, <1>1 DEF IsRewrite
  <2> QED
    BY <1>0, <1>1, <2>1, RewriteEffect
<1>2. ASSUME NEW it \in Items, NEW s \in Stories
      PROVE  /\ ScheduledTo(it, s) \in Items
             /\ ScheduledTo(it, s).key = it.key
             /\ ScheduledTo(it, s).content = it.content
             /\ ScheduledTo(it, s).sev = it.sev
  BY DEF ScheduledTo, Items
<1>3. ASSUME NEW it \in mem[p].open, NEW sev \in Severities, Update(p, it, sev)
      PROVE  HoldInv' /\ RewritesOpen
  <2>1. /\ [it EXCEPT !.sev = sev] \in Items
        /\ [it EXCEPT !.sev = sev].key = it.key
        /\ [it EXCEPT !.sev = sev].content = it.content
    BY <1>0 DEF Items
  <2> QED
    BY <1>1, <1>3, <2>1 DEF Update
<1>4. ASSUME NEW it \in mem[p].open, NEW s \in Stories, Link(p, it, s)
      PROVE  HoldInv' /\ RewritesOpen
  BY <1>0, <1>1, <1>2, <1>4 DEF Link
<1>5. ASSUME NEW it \in mem[p].open, Unschedule(p, it)
      PROVE  HoldInv' /\ RewritesOpen
  <2> DEFINE new == [it EXCEPT !.status = "backlog", !.story = NoStory]
  <2>1. new \in Items /\ new.key = it.key /\ new.content = it.content
    BY <1>0 DEF Items
  <2> QED
    BY <1>1, <1>5, <2>1 DEF Unschedule
<1>6. ASSUME NEW items \in SUBSET mem[p].open, NEW s \in Stories, Schedule(p, items, s)
      PROVE  HoldInv' /\ RewritesOpen
  <2> DEFINE news == {ScheduledTo(it, s) : it \in items}
  <2>1. \A it \in items : IsUnresolvedOpen(mem[p], it)
    BY <1>6 DEF Schedule, IsSchedulable
  <2>2. news \in SUBSET Items
    BY <1>0, <1>2
  <2>3. \A o \in items : \E n \in news : n.key = o.key
    BY <1>0, <1>2
  <2>4. \A n \in news : \E o \in items : n.key = o.key /\ n.content = o.content
    BY <1>0, <1>2
  <2>5. ASSUME NEW a \in items, NEW b \in items,
               ScheduledTo(a, s).key = ScheduledTo(b, s).key
        PROVE  a = b
    <3>1. a.key = b.key
      BY <1>0, <1>2, <2>5
    <3>2. OpenItems(mem[p], a.key) = {a} /\ OpenItems(mem[p], b.key) = {b}
      BY <2>1 DEF IsUnresolvedOpen, IsSingleOpen
    <3> QED
      BY <3>1, <3>2
  <2>6. \A m, n \in news : m.key = n.key => m = n
    BY <2>5
  <2>7. /\ pc[p] = "loaded" /\ birth' = birth
        /\ OpenFileBody(p, Rewritten(mem[p], items, news))
    BY <1>6 DEF Schedule
  <2>8. SevsKept(items, news)
    <3> SUFFICES ASSUME NEW a \in items, NEW o \in items, ScheduledTo(a, s).key = o.key
                 PROVE  ScheduledTo(a, s).sev = o.sev
      BY DEF SevsKept
    <3>1. ScheduledTo(o, s).key = o.key /\ ScheduledTo(o, s).sev = o.sev
      BY <1>0, <1>2
    <3> QED
      BY <2>5, <3>1
  <2> HIDE DEF news
  <2>9. IsRewrite(mem[p], items, news)
    BY <2>1, <2>2, <2>3, <2>4, <2>6 DEF IsRewrite
  <2> QED
    BY <1>0, <2>7, <2>8, <2>9, RewriteEffect
<1> QED
  BY <1>3, <1>4, <1>5, <1>6 DEF RewriteStep

LEMMA DropResolvedEffect ==
  ASSUME HoldInv, NEW p \in Procs, NEW k, pc[p] # "idle", DropResolved(p, k),
         OpenItems(mem[p], k) # {},
         NEW m \in DOMAIN mem[p].resolved, IsReopenable(mem[p], k, m)
  PROVE  HoldInv' /\ DropsResolved
<1>0. TypeOK' /\ mem[p] \in Stores
  BY DropResolvedType DEF HoldInv, TypeOK
<1>1. PICK i \in DOMAIN mem[p].resolved :
        /\ IsNewestResolved(mem[p], k, i)
        /\ mem' = [mem EXCEPT ![p] = WithoutResolved(mem[p], i)]
  BY DEF DropResolved
<1> DEFINE st == WithoutResolved(mem[p], i)
<1>2. /\ st.resolved = RemoveAt(mem[p].resolved, i)
      /\ st.open = mem[p].open /\ st.next = mem[p].next
  BY <1>0 DEF WithoutResolved, Stores
<1>3. /\ mem' = [mem EXCEPT ![p] = st]
      /\ pc' = [pc EXCEPT ![p] = "loaded"]
      /\ UNCHANGED <<holder, birth, deleted>>
  BY <1>1 DEF DropResolved
<1>4. SaveResolved(st)
  BY <1>3 DEF DropResolved, HoldInv, TypeOK
<1> HIDE DEF st
<1>5. LoadedIsCurrent' /\ disk' = st
  BY <1>0, <1>2, <1>3, <1>4, SavedIsCurrent DEF HoldInv
<1>6. holder = p /\ mem[p] = disk
  BY DEF HoldInv, LoadedIsCurrent
<1>7. HoldInv'
  BY <1>0, <1>3, <1>5, <1>6, LoadedOwesNothing DEF HoldInv, TypeOK
<1>8. mem[p].resolved[i].item.key = k
  BY <1>1 DEF IsNewestResolved, ResolvedAt
<1>9. mem[p].resolved[i].how = "fixed"
  <2>1. i <= m /\ m <= i /\ i \in Nat /\ m \in Nat
    BY <1>0, <1>1, EntriesAreTyped DEF IsReopenable, IsNewestResolved, ResolvedAt
  <2> QED
    BY <2>1 DEF IsReopenable
<1> QED
  BY <1>1, <1>2, <1>3, <1>5, <1>6, <1>7, <1>8, <1>9 DEF DropsResolved, NextAndHistorySame

LEMMA ReopenStepEffect ==
  ASSUME HoldInv, NEW p \in Procs, ReopenStep(p)
  PROVE  HoldInv' /\ (AddsBack \/ DropsResolved)
<1>0. /\ TypeOK' /\ mem[p] \in Stores
  BY ReopenStepType DEF HoldInv, TypeOK
<1>1. ASSUME NEW k \in Keys, NEW i \in DOMAIN mem[p].resolved, ReopenAdd(p, k, i)
      PROVE  HoldInv' /\ AddsBack
  <2> DEFINE e == mem[p].resolved[i]
             it == ScheduledTo(e.item, e.ref)
             st == [mem[p] EXCEPT !.open = @ \cup {it}]
  <2>1. /\ e.item \in Items /\ e.ref \in Stories /\ e.item.key = k
    BY <1>0, <1>1, EntriesAreTyped DEF ReopenAdd, IsReopenable, IsNewestResolved, ResolvedAt
  <2>2. /\ it \in Items /\ it.key = k
        /\ it.content = e.item.content /\ it.sev = e.item.sev
    BY <2>1 DEF ScheduledTo, Items
  <2>3. /\ mem' = [mem EXCEPT ![p] = st]
        /\ SaveOpen(st)
        /\ pc[p] # "idle"
        /\ pc' = [pc EXCEPT ![p] = "dropResolved"]
        /\ cur' = [cur EXCEPT ![p] = k]
        /\ UNCHANGED <<holder, birth, deleted>>
        /\ OpenItems(mem[p], k) = {}
        /\ IsReopenable(mem[p], k, i)
    BY <1>1 DEF ReopenAdd
  <2>4. /\ st.open = mem[p].open \cup {it} /\ st.next = mem[p].next
        /\ st.resolved = mem[p].resolved
    BY <1>0 DEF Stores
  <2> HIDE DEF st, it
  <2>5. LoadedIsCurrent' /\ disk' = st
    BY <1>0, <2>3, <2>4, SavedIsCurrent DEF HoldInv
  <2>6. holder = p /\ mem[p] = disk
    BY <2>3 DEF HoldInv, LoadedIsCurrent
  <2>7. OpenItems(disk', k) # {} /\ IsReopenable(disk', k, i) /\ i \in DOMAIN disk'.resolved
    BY <2>2, <2>3, <2>4, <2>5 DEF OpenItems, IsReopenable, IsNewestResolved, ResolvedAt
  <2>8. pc'[p] = "dropResolved" /\ cur'[p] = k /\ holder' = p
    BY <2>3, <2>6 DEF HoldInv, TypeOK
  <2>9. Owed'
    BY <2>5, <2>7, <2>8 DEF LoadedIsCurrent, Owed
  <2>10. AddsBack
    <3>1. i \in DOMAIN disk.resolved /\ e = disk.resolved[i]
      BY <2>6
    <3>2. /\ OpenItems(disk, it.key) = {}
          /\ disk'.open = disk.open \cup {it}
          /\ disk'.resolved = disk.resolved
          /\ NextAndHistorySame
      BY <2>2, <2>3, <2>4, <2>5, <2>6 DEF NextAndHistorySame
    <3> HIDE DEF e
    <3>3. /\ it.key = disk.resolved[i].item.key
          /\ it.content = disk.resolved[i].item.content
          /\ it.sev = disk.resolved[i].item.sev
      BY <2>1, <2>2, <3>1
    <3> QED
      BY <2>2, <3>1, <3>2, <3>3 DEF AddsBack
  <2> QED
    BY <1>0, <2>5, <2>9, <2>10 DEF HoldInv
<1>2. ASSUME NEW k \in Keys, NEW i \in DOMAIN mem[p].resolved, ReopenRerun(p, k, i)
      PROVE  HoldInv' /\ DropsResolved
  BY <1>2, DropResolvedEffect DEF ReopenRerun
<1>3. CASE ReopenDrop(p)
  <2>1. /\ OpenItems(mem[p], cur[p]) # {} /\ pc[p] # "idle"
        /\ \E m \in DOMAIN mem[p].resolved : IsReopenable(mem[p], cur[p], m)
    BY <1>3 DEF ReopenDrop, HoldInv, Owed, LoadedIsCurrent
  <2> QED
    BY <1>3, <2>1, DropResolvedEffect DEF ReopenDrop
<1> QED
  BY <1>1, <1>2, <1>3 DEF ReopenStep

LEMMA ReseedEffect ==
  ASSUME HoldInv, NEW p \in Procs, NEW e \in Epics, Reseed(p, e)
  PROVE  HoldInv' /\ RaisesNext
<1>0. TypeOK' /\ mem[p] \in Stores
  BY ReseedType DEF HoldInv, TypeOK
<1>1. PICK k \in KeysIn(mem[p]) :
        /\ mem[p].next[e] <= k[2]
        /\ OpenFileBody(p, [mem[p] EXCEPT !.next[e] = k[2] + 1])
  BY DEF Reseed
<1>2. k[2] \in Nat
  <2>1. k \in Keys
    BY <1>0, EntriesAreTyped DEF KeysIn
  <2> QED
    BY <2>1, IssueStoreAssumption DEF Keys
<1> DEFINE st == [mem[p] EXCEPT !.next[e] = k[2] + 1]
<1>3. /\ st.open = mem[p].open /\ st.resolved = mem[p].resolved
      /\ st.next = [mem[p].next EXCEPT ![e] = k[2] + 1]
  BY <1>0 DEF Stores
<1>4. OpenFileBody(p, st) /\ pc[p] = "loaded" /\ UNCHANGED <<birth, deleted>>
  BY <1>1 DEF Reseed, OpenFileBody
<1> HIDE DEF st
<1>5. HoldInv' /\ disk' = st /\ mem[p] = disk
  BY <1>0, <1>3, <1>4, BodyHold
<1>6. \A f \in Epics : st.next[f] >= mem[p].next[f]
  <2>1. mem[p].next \in [Epics -> Nat]
    BY <1>0 DEF Stores
  <2> QED
    BY <1>1, <1>2, <1>3, <2>1
<1> QED
  BY <1>3, <1>4, <1>5, <1>6 DEF RaisesNext

LEMMA LeaveEffect ==
  ASSUME HoldInv, NEW p \in Procs, pc[p] # "idle", Leave(p)
  PROVE  HoldInv' /\ LeavesFiles
<1>1. TypeOK' /\ LeavesFiles
  BY LeaveType DEF HoldInv, Leave, LeavesFiles
<1>2. \A q \in Procs : pc'[q] = "idle"
  BY DEF HoldInv, LoadedIsCurrent, Leave, TypeOK
<1> QED
  BY <1>1, <1>2 DEF HoldInv, LoadedIsCurrent, Owed

LEMMA AcquireEffect ==
  ASSUME HoldInv, NEW p \in Procs, Acquire(p)
  PROVE  HoldInv' /\ LeavesFiles
<1>1. TypeOK' /\ LeavesFiles
  BY AcquireType DEF HoldInv, Acquire, LeavesFiles
<1>2. \A q \in Procs : pc[q] = "idle"
  BY IssueStoreAssumption DEF HoldInv, LoadedIsCurrent, Acquire, LockIsFree
<1>3. LoadedIsCurrent'
  BY <1>2 DEF HoldInv, LoadedIsCurrent, Acquire, TypeOK
<1>4. Owed'
  BY <1>2 DEF HoldInv, Owed, Acquire, TypeOK
<1> QED
  BY <1>1, <1>3, <1>4 DEF HoldInv

LEMMA HandEditHold ==
  ASSUME HoldInv, HandEdit
  PROVE  HoldInv'
<1>1. TypeOK' /\ UNCHANGED <<holder, pc, mem, cur>> /\ holder = NoProc
  BY HandEditType DEF HoldInv, HandEdit, HandDelete, HandSetNext
<1>2. \A q \in Procs : pc'[q] = "idle"
  BY <1>1, IssueStoreAssumption DEF HoldInv, LoadedIsCurrent
<1> QED
  BY <1>1, <1>2 DEF HoldInv, LoadedIsCurrent, Owed

LEMMA InitHold == Init => HoldInv
BY InitType DEF Init, HoldInv, LoadedIsCurrent, Owed

LEMMA ProcStepHold ==
  ASSUME HoldInv, NEW p \in Procs, ProcStep(p)
  PROVE  HoldInv' /\ VerbEffect
<1>1. CASE Acquire(p)
  BY <1>1, AcquireEffect DEF VerbEffect
<1>2. CASE Release(p) \/ Crash(p)
  BY <1>2, LeaveEffect DEF Release, Crash, VerbEffect
<1>3. CASE AppendStep(p)
  BY <1>3, AppendStepEffect DEF VerbEffect
<1>4. CASE ResolveStep(p)
  BY <1>4, ResolveStepEffect DEF VerbEffect
<1>5. CASE RewriteStep(p)
  BY <1>5, RewriteStepEffect DEF VerbEffect
<1>6. CASE ReopenStep(p)
  BY <1>6, ReopenStepEffect DEF VerbEffect
<1>7. CASE \E e \in Epics : Reseed(p, e)
  BY <1>7, ReseedEffect DEF VerbEffect
<1> QED
  BY <1>1, <1>2, <1>3, <1>4, <1>5, <1>6, <1>7 DEF ProcStep

LEMMA NextHold == HoldInv /\ [Next]_vars => HoldInv' /\ Effect
<1> SUFFICES ASSUME HoldInv, [Next]_vars
             PROVE  HoldInv' /\ Effect
  OBVIOUS
<1>1. ASSUME NEW p \in Procs, ProcStep(p)
      PROVE  HoldInv' /\ Effect
  BY <1>1, ProcStepHold DEF Effect
<1>2. CASE HandEdit
  BY <1>2, HandEditHold DEF Effect
<1>3. CASE UNCHANGED vars
  BY <1>3 DEF HoldInv, LoadedIsCurrent, Owed, OpenItems, IsResolved, ResolvedAt,
              TypeOK, vars, Effect, VerbEffect, LeavesFiles
<1> QED
  BY <1>1, <1>2, <1>3 DEF Next

\* No verb ever saves a copy that has missed another verb's save.
THEOREM NoLostUpdate == Spec => []LoadedIsCurrent
<1>1. HoldInv => LoadedIsCurrent
  BY DEF HoldInv
<1> QED
  BY <1>1, InitHold, NextHold, PTL DEF Spec

-----------------------------------------------------------------------------
(* What survives a crash between two saves.                                 *)

FilesInv == HoldInv /\ UniqueKeys /\ NothingLost /\ CopiesAgree

\* The three facts speak of the two lists only.
LEMMA ListsSame ==
  ASSUME disk'.open = disk.open, disk'.resolved = disk.resolved,
         UNCHANGED <<birth, deleted>>
  PROVE  /\ UniqueKeys <=> UniqueKeys'
         /\ NothingLost <=> NothingLost'
         /\ CopiesAgree <=> CopiesAgree'
BY DEF UniqueKeys, NothingLost, CopiesAgree, KeysIn, ResolvedAt

LEMMA AddsNewKeeps ==
  ASSUME FilesInv, AddsNew
  PROVE  UniqueKeys' /\ NothingLost' /\ CopiesAgree'
<1> PICK it \in Items :
      /\ it.key \notin KeysIn(disk)
      /\ disk'.open = disk.open \cup {it}
      /\ disk'.resolved = disk.resolved
      /\ birth' = [birth EXCEPT ![it.key] = IF @ = NoContent THEN it.content ELSE @]
      /\ deleted' = deleted
  BY DEF AddsNew
<1>1. /\ \A o \in disk.open : o.key # it.key
      /\ \A i \in DOMAIN disk.resolved : disk.resolved[i].item.key # it.key
  BY DEF KeysIn
<1>2. UniqueKeys'
  BY <1>1 DEF FilesInv, UniqueKeys
<1>3. CopiesAgree'
  BY <1>1 DEF FilesInv, CopiesAgree, ResolvedAt
<1>4. NothingLost'
  <2> SUFFICES ASSUME NEW k \in Keys, birth'[k] # NoContent, k \notin deleted'
               PROVE  k \in KeysIn(disk')
    BY DEF NothingLost
  <2>1. CASE k = it.key
    BY <2>1 DEF KeysIn
  <2>2. CASE k # it.key
    <3>1. birth'[k] = birth[k]
      BY <2>2 DEF FilesInv, HoldInv, TypeOK
    <3>2. k \in KeysIn(disk)
      BY <3>1 DEF FilesInv, NothingLost
    <3> QED
      BY <3>2 DEF KeysIn
  <2> QED
    BY <2>1, <2>2
<1> QED
  BY <1>2, <1>3, <1>4

LEMMA AddsBackKeeps ==
  ASSUME FilesInv, AddsBack
  PROVE  UniqueKeys' /\ NothingLost' /\ CopiesAgree'
<1> PICK i \in DOMAIN disk.resolved, it \in Items :
      /\ OpenItems(disk, it.key) = {}
      /\ it.key = disk.resolved[i].item.key
      /\ it.content = disk.resolved[i].item.content
      /\ it.sev = disk.resolved[i].item.sev
      /\ disk'.open = disk.open \cup {it}
      /\ disk'.resolved = disk.resolved
      /\ UNCHANGED <<birth, deleted>>
  BY DEF AddsBack, NextAndHistorySame
<1>1. \A o \in disk.open : o.key # it.key
  BY DEF OpenItems
<1>2. UniqueKeys'
  BY <1>1 DEF FilesInv, UniqueKeys
<1>3. CopiesAgree'
  BY <1>1 DEF FilesInv, UniqueKeys, CopiesAgree, ResolvedAt
<1>4. NothingLost'
  BY DEF FilesInv, NothingLost, KeysIn
<1> QED
  BY <1>2, <1>3, <1>4

LEMMA DropsOpenKeeps ==
  ASSUME FilesInv, DropsOpen
  PROVE  UniqueKeys' /\ NothingLost' /\ CopiesAgree'
<1> PICK k \in Keys :
      /\ IsResolved(disk, k)
      /\ disk'.open = disk.open \ OpenItems(disk, k)
      /\ disk'.resolved = disk.resolved
      /\ UNCHANGED <<birth, deleted>>
  BY DEF DropsOpen, NextAndHistorySame
<1>1. UniqueKeys' /\ CopiesAgree'
  BY DEF FilesInv, UniqueKeys, CopiesAgree, ResolvedAt
<1>2. KeysIn(disk) \subseteq KeysIn(disk')
  BY DEF KeysIn, OpenItems, IsResolved, ResolvedAt
<1>3. NothingLost'
  BY <1>2 DEF FilesInv, NothingLost
<1> QED
  BY <1>1, <1>3

LEMMA RewritesOpenKeeps ==
  ASSUME FilesInv, RewritesOpen
  PROVE  UniqueKeys' /\ NothingLost' /\ CopiesAgree'
<1> PICK olds, news :
      /\ IsRewrite(disk, olds, news)
      /\ disk'.open = (disk.open \ olds) \cup news
      /\ disk'.resolved = disk.resolved
      /\ UNCHANGED <<birth, deleted>>
  BY DEF RewritesOpen, NextAndHistorySame
<1>1. /\ \A n \in news : \E o \in olds : n.key = o.key
      /\ \A o \in olds : o \in disk.open /\ \E n \in news : n.key = o.key
      /\ \A m, n \in news : m.key = n.key => m = n
      /\ \A o \in olds : OpenItems(disk, o.key) = {o} /\ ResolvedAt(disk, o.key) = {}
  BY DEF IsRewrite, IsUnresolvedOpen, IsSingleOpen, IsResolved
<1>2. \A n \in news, o \in disk.open \ olds : n.key # o.key
  BY <1>1 DEF OpenItems
<1>3. UniqueKeys'
  BY <1>1, <1>2 DEF FilesInv, UniqueKeys
<1>4. \A n \in news : ResolvedAt(disk', n.key) = {}
  <2> TAKE n \in news
  <2>1. PICK o \in olds : n.key = o.key
    BY <1>1
  <2>2. ResolvedAt(disk', n.key) = ResolvedAt(disk, o.key)
    BY <2>1 DEF ResolvedAt
  <2> QED
    BY <1>1, <2>2
<1>5. CopiesAgree'
  <2> SUFFICES ASSUME NEW it \in disk'.open, NEW i \in ResolvedAt(disk', it.key)
               PROVE  /\ it.content = disk'.resolved[i].item.content
                      /\ it.sev = disk'.resolved[i].item.sev
    BY DEF CopiesAgree
  <2>1. it \in disk.open
    BY <1>4
  <2>2. i \in ResolvedAt(disk, it.key)
    BY DEF ResolvedAt
  <2> QED
    BY <2>1, <2>2 DEF FilesInv, CopiesAgree
<1>6. KeysIn(disk) \subseteq KeysIn(disk')
  BY <1>1 DEF KeysIn
<1>7. NothingLost'
  BY <1>6 DEF FilesInv, NothingLost
<1> QED
  BY <1>3, <1>5, <1>7

LEMMA AppendsResolvedKeeps ==
  ASSUME FilesInv, AppendsResolved
  PROVE  UniqueKeys' /\ NothingLost' /\ CopiesAgree'
<1> PICK e \in Entries :
      /\ e.item \in disk.open
      /\ IsUnresolvedOpen(disk, e.item)
      /\ disk'.open = disk.open
      /\ disk'.resolved = Append(disk.resolved, e)
      /\ UNCHANGED <<birth, deleted>>
  BY DEF AppendsResolved, NextAndHistorySame
<1> DEFINE n == Len(disk.resolved)
<1>1. /\ disk.resolved \in Seq(Entries) /\ n \in Nat /\ DOMAIN disk.resolved = 1..n
      /\ disk'.resolved \in Seq(Entries) /\ DOMAIN disk'.resolved = 1..Len(disk'.resolved)
  BY LenProperties, AppendProperties DEF FilesInv, HoldInv, TypeOK, Stores
<1>2. /\ DOMAIN disk'.resolved = 1..(n + 1)
      /\ \A i \in 1..n : disk'.resolved[i] = disk.resolved[i]
      /\ disk'.resolved[n + 1] = e
  BY <1>1, AppendProperties
<1>3. /\ \A i \in 1..n : disk.resolved[i].item.key # e.item.key
      /\ \A o \in disk.open : o.key = e.item.key => o = e.item
  BY <1>1 DEF IsUnresolvedOpen, IsResolved, ResolvedAt, IsSingleOpen, OpenItems
<1> HIDE DEF n
<1>4. UniqueKeys'
  <2>1. \A i, j \in 1..n :
          disk'.resolved[i].item.key = disk'.resolved[j].item.key => i = j
    BY <1>1, <1>2 DEF FilesInv, UniqueKeys
  <2>2. \A i \in 1..n : disk'.resolved[i].item.key # disk'.resolved[n + 1].item.key
    BY <1>2, <1>3
  <2>3. \A i \in DOMAIN disk'.resolved : i \in 1..n \/ i = n + 1
    BY <1>1, <1>2
  <2>4. \A i, j \in DOMAIN disk'.resolved :
          disk'.resolved[i].item.key = disk'.resolved[j].item.key => i = j
    BY <2>1, <2>2, <2>3, Zenon
  <2> QED
    BY <2>4 DEF FilesInv, UniqueKeys
<1>5. CopiesAgree'
  <2> SUFFICES ASSUME NEW it \in disk.open, NEW i \in ResolvedAt(disk', it.key)
               PROVE  /\ it.content = disk'.resolved[i].item.content
                      /\ it.sev = disk'.resolved[i].item.sev
    BY DEF CopiesAgree
  <2>1. CASE i = n + 1
    BY <1>2, <1>3, <2>1 DEF ResolvedAt
  <2>2. CASE i \in 1..n
    <3>1. i \in ResolvedAt(disk, it.key)
      BY <1>1, <1>2, <2>2 DEF ResolvedAt
    <3> QED
      BY <1>2, <2>2, <3>1 DEF FilesInv, CopiesAgree
  <2> QED
    BY <1>1, <1>2, <2>1, <2>2 DEF ResolvedAt
<1>6. KeysIn(disk) \subseteq KeysIn(disk')
  <2>1. \A i \in DOMAIN disk.resolved :
          i \in DOMAIN disk'.resolved /\ disk'.resolved[i] = disk.resolved[i]
    BY <1>1, <1>2
  <2> QED
    BY <2>1 DEF KeysIn
<1>7. NothingLost'
  BY <1>6 DEF FilesInv, NothingLost
<1> QED
  BY <1>4, <1>5, <1>7

LEMMA DropsResolvedKeeps ==
  ASSUME FilesInv, DropsResolved
  PROVE  UniqueKeys' /\ NothingLost' /\ CopiesAgree' /\ KeysIn(disk) \subseteq KeysIn(disk')
<1> PICK i \in DOMAIN disk.resolved :
      /\ OpenItems(disk, disk.resolved[i].item.key) # {}
      /\ disk'.open = disk.open
      /\ disk'.resolved = RemoveAt(disk.resolved, i)
      /\ UNCHANGED <<birth, deleted>>
  BY DEF DropsResolved, NextAndHistorySame
<1> DEFINE n == Len(disk.resolved)
           old(j) == IF j < i THEN j ELSE j + 1
<1>1. /\ disk.resolved \in Seq(Entries) /\ n \in Nat /\ DOMAIN disk.resolved = 1..n
      /\ i \in 1..n
  BY LenProperties DEF FilesInv, HoldInv, TypeOK, Stores
<1>2. /\ disk'.resolved \in Seq(Entries)
      /\ Len(disk'.resolved) = n - 1
      /\ \A j \in 1..(n - 1) :
           disk'.resolved[j] = IF j < i THEN disk.resolved[j] ELSE disk.resolved[j + 1]
  BY <1>1, RemoveAtProperties
<1>3. DOMAIN disk'.resolved = 1..(n - 1)
  BY <1>2, LenProperties
<1>4. \A j \in 1..(n - 1) :
        /\ old(j) \in DOMAIN disk.resolved
        /\ disk'.resolved[j] = disk.resolved[old(j)]
  BY <1>1, <1>2
<1>5. \A j, k \in 1..(n - 1) : old(j) = old(k) => j = k
  BY <1>1
<1>6. \A m \in 1..n : m = i \/ \E j \in 1..(n - 1) : m = old(j)
  <2> TAKE m \in 1..n
  <2>1. CASE m < i
    BY <1>1, <2>1
  <2>2. CASE m > i
    <3>1. m - 1 \in 1..(n - 1) /\ m = old(m - 1)
      BY <1>1, <2>2
    <3> QED
      BY <3>1
  <2> QED
    BY <1>1, <2>1, <2>2
<1> HIDE DEF n, old
<1>7. UniqueKeys'
  <2>1. \A j, k \in DOMAIN disk'.resolved :
          disk'.resolved[j].item.key = disk'.resolved[k].item.key => j = k
    BY <1>3, <1>4, <1>5 DEF FilesInv, UniqueKeys
  <2> QED
    BY <2>1 DEF FilesInv, UniqueKeys
<1>8. CopiesAgree'
  <2> SUFFICES ASSUME NEW it \in disk.open, NEW j \in ResolvedAt(disk', it.key)
               PROVE  /\ it.content = disk'.resolved[j].item.content
                      /\ it.sev = disk'.resolved[j].item.sev
    BY DEF CopiesAgree
  <2>1. old(j) \in ResolvedAt(disk, it.key) /\ disk'.resolved[j] = disk.resolved[old(j)]
    BY <1>3, <1>4 DEF ResolvedAt
  <2> QED
    BY <2>1 DEF FilesInv, CopiesAgree
<1>9. KeysIn(disk) \subseteq KeysIn(disk')
  <2> SUFFICES ASSUME NEW k \in KeysIn(disk)
               PROVE  k \in KeysIn(disk')
    OBVIOUS
  <2>1. CASE \E it \in disk.open : it.key = k
    BY <2>1 DEF KeysIn
  <2>2. CASE \E m \in DOMAIN disk.resolved : disk.resolved[m].item.key = k
    <3>1. PICK m \in DOMAIN disk.resolved : disk.resolved[m].item.key = k
      BY <2>2
    <3>2. CASE m = i
      BY <3>1, <3>2, <2>1 DEF OpenItems
    <3>3. CASE m # i
      <4>1. PICK j \in 1..(n - 1) : m = old(j)
        BY <1>1, <1>6, <3>3
      <4>2. disk'.resolved[j].item.key = k /\ j \in DOMAIN disk'.resolved
        BY <1>3, <1>4, <3>1, <4>1
      <4> QED
        BY <4>2 DEF KeysIn
    <3> QED
      BY <3>2, <3>3
  <2> QED
    BY <2>1, <2>2 DEF KeysIn
<1>10. NothingLost'
  BY <1>9 DEF FilesInv, NothingLost
<1> QED
  BY <1>7, <1>8, <1>9, <1>10

LEMMA HandEditKeeps ==
  ASSUME FilesInv, HandEdit
  PROVE  UniqueKeys' /\ NothingLost' /\ CopiesAgree'
<1>1. ASSUME NEW k \in Keys, HandDelete(k)
      PROVE  UniqueKeys' /\ NothingLost' /\ CopiesAgree'
  <2>1. /\ disk'.open = disk.open \ OpenItems(disk, k)
        /\ disk'.resolved = disk.resolved
        /\ birth' = birth
        /\ deleted' = deleted \cup {k}
    BY <1>1 DEF HandDelete, WithoutOpen, FilesInv, HoldInv, TypeOK, Stores
  <2>2. UniqueKeys' /\ CopiesAgree'
    BY <2>1 DEF FilesInv, UniqueKeys, CopiesAgree, ResolvedAt
  <2>3. KeysIn(disk) \subseteq KeysIn(disk') \cup {k}
    BY <2>1 DEF KeysIn, OpenItems
  <2>4. NothingLost'
    BY <2>1, <2>3 DEF FilesInv, NothingLost
  <2> QED
    BY <2>2, <2>4
<1>2. ASSUME NEW e \in Epics, NEW n \in 0..(LastSuffix + 2), HandSetNext(e, n)
      PROVE  UniqueKeys' /\ NothingLost' /\ CopiesAgree'
  <2>1. /\ disk'.open = disk.open /\ disk'.resolved = disk.resolved
        /\ UNCHANGED <<birth, deleted>>
    BY <1>2 DEF HandSetNext, FilesInv, HoldInv, TypeOK, Stores
  <2> QED
    BY <2>1, ListsSame DEF FilesInv
<1> QED
  BY <1>1, <1>2 DEF HandEdit

LEMMA InitFiles == Init => FilesInv
<1> SUFFICES ASSUME Init
             PROVE  UniqueKeys /\ NothingLost /\ CopiesAgree
  BY InitHold DEF FilesInv
<1>1. disk.open = {} /\ DOMAIN disk.resolved = {} /\ \A k \in Keys : birth[k] = NoContent
  BY DEF Init, EmptyStore
<1> QED
  BY <1>1 DEF UniqueKeys, NothingLost, CopiesAgree

LEMMA NextFiles == FilesInv /\ [Next]_vars => FilesInv'
<1> SUFFICES ASSUME FilesInv, [Next]_vars
             PROVE  FilesInv'
  OBVIOUS
<1>1. HoldInv' /\ Effect
  BY NextHold DEF FilesInv
<1>2. CASE AddsNew
  BY <1>1, <1>2, AddsNewKeeps DEF FilesInv
<1>3. CASE AddsBack
  BY <1>1, <1>3, AddsBackKeeps DEF FilesInv
<1>4. CASE DropsOpen
  BY <1>1, <1>4, DropsOpenKeeps DEF FilesInv
<1>5. CASE RewritesOpen
  BY <1>1, <1>5, RewritesOpenKeeps DEF FilesInv
<1>6. CASE AppendsResolved
  BY <1>1, <1>6, AppendsResolvedKeeps DEF FilesInv
<1>7. CASE DropsResolved
  BY <1>1, <1>7, DropsResolvedKeeps DEF FilesInv
<1>8. CASE RaisesNext \/ LeavesFiles
  BY <1>1, <1>8, ListsSame DEF FilesInv, RaisesNext, LeavesFiles
<1>9. CASE HandEdit
  BY <1>1, <1>9, HandEditKeeps DEF FilesInv
<1> QED
  BY <1>1, <1>2, <1>3, <1>4, <1>5, <1>6, <1>7, <1>8, <1>9 DEF Effect, VerbEffect

\* A verb takes no key out of both files.
LEMMA VerbsKeepKeys ==
  ASSUME FilesInv, NEW p \in Procs, ProcStep(p)
  PROVE  KeysIn(disk) \subseteq KeysIn(disk')
<1>1. HoldInv' /\ VerbEffect
  BY ProcStepHold DEF FilesInv
<1>2. CASE AddsNew \/ AddsBack
  BY <1>2 DEF AddsNew, AddsBack, KeysIn
<1>3. CASE DropsOpen
  BY <1>3 DEF DropsOpen, KeysIn, OpenItems, IsResolved, ResolvedAt
<1>4. CASE RewritesOpen
  BY <1>4 DEF RewritesOpen, IsRewrite, KeysIn
<1>5. ASSUME NEW e \in Entries, disk'.open = disk.open,
             disk'.resolved = Append(disk.resolved, e)
      PROVE  KeysIn(disk) \subseteq KeysIn(disk')
  <2>1. disk.resolved \in Seq(Entries)
    BY DEF FilesInv, HoldInv, TypeOK, Stores
  <2>2. \A i \in DOMAIN disk.resolved :
          i \in DOMAIN disk'.resolved /\ disk'.resolved[i] = disk.resolved[i]
    BY <1>5, <2>1, AppendProperties, LenProperties
  <2> QED
    BY <1>5, <2>2 DEF KeysIn
<1>6. CASE DropsResolved
  BY <1>1, <1>6, DropsResolvedKeeps
<1>7. CASE RaisesNext \/ LeavesFiles
  BY <1>7 DEF RaisesNext, LeavesFiles, KeysIn
<1> QED
  BY <1>1, <1>2, <1>3, <1>4, <1>5, <1>6, <1>7 DEF VerbEffect, AppendsResolved

\* A key names at most one item in each file, whatever crashed where.
THEOREM KeysAreUnique == Spec => []UniqueKeys
<1>1. FilesInv => UniqueKeys
  BY DEF FilesInv
<1> QED
  BY <1>1, InitFiles, NextFiles, PTL DEF Spec

\* An item that was ever recorded and not struck out by hand is in a file,
\* also when a process died between the two saves of a resolve or a reopen.
THEOREM ItemsSurvive == Spec => []NothingLost
<1>1. FilesInv => NothingLost
  BY DEF FilesInv
<1> QED
  BY <1>1, InitFiles, NextFiles, PTL DEF Spec

\* The two copies that a crash can leave hold the same finding and severity.
THEOREM InterruptedCopiesAgree == Spec => []CopiesAgree
<1>1. FilesInv => CopiesAgree
  BY DEF FilesInv
<1> QED
  BY <1>1, InitFiles, NextFiles, PTL DEF Spec

-----------------------------------------------------------------------------
(* Keys are never handed out twice, as long as people leave `next` alone    *)
(* and do not both delete items and choose their own keys.                  *)

NextIsKept == "next" \notin HandEdits
KeysAreKept == NextIsKept /\ (ExplicitSuffixes = {} \/ "delete" \notin HandEdits)

LEMMA NextGrows ==
  ASSUME NextIsKept \/ holder # NoProc, HoldInv, [Next]_vars
  PROVE  \A e \in Epics : disk'.next[e] >= disk.next[e]
<1>1. HoldInv' /\ Effect
  BY NextHold
<1>2. /\ disk.next \in [Epics -> Nat] /\ disk'.next \in [Epics -> Nat]
      /\ disk \in Stores
  BY <1>1 DEF HoldInv, TypeOK, Stores
<1>3. ASSUME disk'.next = disk.next
      PROVE  \A e \in Epics : disk'.next[e] >= disk.next[e]
  BY <1>2, <1>3
<1>4. CASE AddsNew
  <2>1. PICK it \in Items : disk'.next = RaiseNext(disk.next, it.key[1], it.key[2] + 1)
    BY <1>4 DEF AddsNew
  <2>2. it.key[1] \in Epics /\ it.key[2] + 1 \in Nat
    BY IssueStoreAssumption DEF Items, Keys
  <2>3. \A m \in Nat, f \in [Epics -> Nat], e \in Epics, x \in Epics :
          RaiseNext(f, x, m)[e] >= f[e]
    BY DEF RaiseNext
  <2> QED
    BY <1>2, <2>1, <2>2, <2>3
<1>5. CASE AddsBack \/ DropsOpen \/ RewritesOpen \/ AppendsResolved \/ DropsResolved
  BY <1>3, <1>5 DEF AddsBack, DropsOpen, RewritesOpen, AppendsResolved, DropsResolved,
                    NextAndHistorySame
<1>6. CASE RaisesNext
  BY <1>6 DEF RaisesNext
<1>7. CASE LeavesFiles
  BY <1>3, <1>7 DEF LeavesFiles
<1>8. CASE HandEdit
  <2>1. PICK k \in Keys : HandDelete(k)
    BY <1>8 DEF HandEdit, HandDelete, HandSetNext, NextIsKept
  <2> QED
    BY <1>2, <1>3, <2>1 DEF HandDelete, WithoutOpen, Stores
<1> QED
  BY <1>1, <1>4, <1>5, <1>6, <1>7, <1>8 DEF Effect, VerbEffect

\* status-files.md 4: no command lowers the high-water mark of an epic, through
\* crashes and repairs too; only a person can.
THEOREM HighWaterMark == Spec => NextNeverDecreases
<1>1. HoldInv /\ [Next]_vars =>
        [holder # NoProc => \A e \in Epics : disk'.next[e] >= disk.next[e]]_vars
  BY NextGrows
<1> QED
  BY <1>1, InitHold, NextHold, PTL DEF Spec, NextNeverDecreases

\* Every key that was ever given lies below the next one of its epic.
BornBelowNext ==
  \A k \in Keys : birth[k] # NoContent => disk.next[k[1]] > k[2]

KeysInv ==
  /\ FilesInv
  /\ BornBelowNext
  /\ "delete" \notin HandEdits => deleted = {}
  /\ KeyNamesOneFinding

\* The key of a new item was never given to a finding, deleted ones included.
LEMMA NewKeyIsUnborn ==
  ASSUME KeysAreKept, KeysInv, NEW it \in Items, it.key \notin KeysIn(disk),
         \/ it.key[2] \in ExplicitSuffixes
         \/ IsNextSuffix(disk, it.key[1], it.key[2])
  PROVE  birth[it.key] = NoContent
<1>1. it.key \in Keys /\ it.key[1] \in Epics /\ it.key[2] \in 1..LastSuffix
  BY DEF Items, Keys
<1>2. disk.next \in [Epics -> Nat] /\ LastSuffix \in Nat
  BY IssueStoreAssumption DEF KeysInv, FilesInv, HoldInv, TypeOK, Stores
<1>3. CASE IsNextSuffix(disk, it.key[1], it.key[2])
  <2>1. it.key[2] >= disk.next[it.key[1]]
    BY <1>1, <1>2, <1>3 DEF IsNextSuffix
  <2> QED
    BY <1>1, <1>2, <2>1 DEF KeysInv, BornBelowNext
<1>4. CASE it.key[2] \in ExplicitSuffixes
  <2>1. deleted = {}
    BY <1>4 DEF KeysAreKept, KeysInv
  <2> QED
    BY <1>1, <2>1 DEF KeysInv, FilesInv, NothingLost
<1> QED
  BY <1>3, <1>4

LEMMA AddsNewKeepsKeys ==
  ASSUME KeysAreKept, KeysInv, FilesInv', AddsNew
  PROVE  KeysInv'
<1> PICK it \in Items :
      /\ it.key \notin KeysIn(disk)
      /\ disk'.open = disk.open \cup {it}
      /\ disk'.resolved = disk.resolved
      /\ disk'.next = RaiseNext(disk.next, it.key[1], it.key[2] + 1)
      /\ birth' = [birth EXCEPT ![it.key] = IF @ = NoContent THEN it.content ELSE @]
      /\ \/ it.key[2] \in ExplicitSuffixes
         \/ IsNextSuffix(disk, it.key[1], it.key[2])
      /\ deleted' = deleted
  BY DEF AddsNew
<1>1. /\ it.key \in Keys /\ it.key[1] \in Epics /\ it.key[2] \in 1..LastSuffix
      /\ it.content \in Contents
  BY DEF Items, Keys
<1>2. /\ disk.next \in [Epics -> Nat]
      /\ birth \in [Keys -> Contents \cup {NoContent}]
      /\ LastSuffix \in Nat
  BY IssueStoreAssumption DEF KeysInv, FilesInv, HoldInv, TypeOK, Stores
<1>3. birth[it.key] = NoContent
  BY NewKeyIsUnborn
<1>4. /\ birth'[it.key] = it.content
      /\ \A k \in Keys : k # it.key => birth'[k] = birth[k]
  BY <1>1, <1>2, <1>3
<1>5. /\ disk'.next[it.key[1]] > it.key[2]
      /\ \A e \in Epics : disk'.next[e] >= disk.next[e]
  BY <1>1, <1>2 DEF RaiseNext
<1>6. BornBelowNext'
  <2> SUFFICES ASSUME NEW k \in Keys, birth'[k] # NoContent
               PROVE  disk'.next[k[1]] > k[2]
    BY DEF BornBelowNext
  <2>1. CASE k = it.key
    BY <1>5, <2>1
  <2>2. CASE k # it.key
    <3>1. disk.next[k[1]] > k[2]
      BY <1>4, <2>2 DEF KeysInv, BornBelowNext
    <3>2. k[1] \in Epics /\ k[2] \in Nat
      BY <1>2 DEF Keys
    <3>3. disk'.next[k[1]] >= disk.next[k[1]] /\ disk'.next \in [Epics -> Nat]
      BY <1>5, <3>2 DEF FilesInv, HoldInv, TypeOK, Stores
    <3> QED
      BY <1>2, <3>1, <3>2, <3>3
  <2> QED
    BY <2>1, <2>2
<1>7. KeyNamesOneFinding'
  <2>1. \A o \in disk.open : o.key \in Keys /\ o.key # it.key /\ o.content = birth[o.key]
    BY EntriesAreTyped DEF KeysInv, KeyNamesOneFinding, FilesInv, HoldInv, TypeOK, KeysIn
  <2>2. \A i \in DOMAIN disk.resolved :
          /\ disk.resolved[i].item.key \in Keys
          /\ disk.resolved[i].item.key # it.key
          /\ disk.resolved[i].item.content = birth[disk.resolved[i].item.key]
    BY EntriesAreTyped DEF KeysInv, KeyNamesOneFinding, FilesInv, HoldInv, TypeOK, KeysIn
  <2> QED
    BY <1>4, <2>1, <2>2 DEF KeyNamesOneFinding
<1> QED
  BY <1>6, <1>7 DEF KeysInv

\* The other steps give no key away: what is in the files after them carries
\* the content it had before under the same key.
LEMMA OthersKeepContents ==
  ASSUME KeysInv,
         AddsBack \/ DropsOpen \/ RewritesOpen \/ AppendsResolved \/ DropsResolved
  PROVE  KeyNamesOneFinding' /\ NextAndHistorySame
<1>0. disk \in Stores /\ disk.resolved \in Seq(Entries)
  BY DEF KeysInv, FilesInv, HoldInv, TypeOK, Stores
<1>1. CASE AddsBack
  BY <1>1 DEF AddsBack, NextAndHistorySame, KeysInv, KeyNamesOneFinding
<1>2. CASE DropsOpen
  BY <1>2 DEF DropsOpen, NextAndHistorySame, KeysInv, KeyNamesOneFinding
<1>3. CASE RewritesOpen
  <2> PICK olds, news :
        /\ IsRewrite(disk, olds, news)
        /\ disk'.open = (disk.open \ olds) \cup news
        /\ disk'.resolved = disk.resolved
        /\ NextAndHistorySame
    BY <1>3 DEF RewritesOpen
  <2>1. \A n \in news : \E o \in disk.open : n.key = o.key /\ n.content = o.content
    BY DEF IsRewrite
  <2> QED
    BY <2>1 DEF NextAndHistorySame, KeysInv, KeyNamesOneFinding
<1>4. CASE AppendsResolved
  <2> PICK e \in Entries :
        /\ e.item \in disk.open
        /\ disk'.open = disk.open
        /\ disk'.resolved = Append(disk.resolved, e)
        /\ NextAndHistorySame
    BY <1>4 DEF AppendsResolved
  <2>1. \A i \in DOMAIN disk'.resolved :
          \/ i \in DOMAIN disk.resolved /\ disk'.resolved[i] = disk.resolved[i]
          \/ disk'.resolved[i] = e
    BY <1>0, AppendProperties, LenProperties
  <2> QED
    BY <2>1 DEF NextAndHistorySame, KeysInv, KeyNamesOneFinding
<1>5. CASE DropsResolved
  <2> PICK i \in DOMAIN disk.resolved :
        /\ disk'.open = disk.open
        /\ disk'.resolved = RemoveAt(disk.resolved, i)
        /\ NextAndHistorySame
    BY <1>5 DEF DropsResolved
  <2>1. \A j \in DOMAIN disk'.resolved : \E m \in DOMAIN disk.resolved :
          disk'.resolved[j] = disk.resolved[m]
    <3>1. DOMAIN disk.resolved = 1..Len(disk.resolved) /\ Len(disk.resolved) \in Nat
      BY <1>0, LenProperties
    <3>2. /\ disk'.resolved \in Seq(Entries)
          /\ Len(disk'.resolved) = Len(disk.resolved) - 1
          /\ \A j \in 1..(Len(disk.resolved) - 1) :
               disk'.resolved[j] = IF j < i THEN disk.resolved[j] ELSE disk.resolved[j + 1]
      BY <1>0, <3>1, RemoveAtProperties
    <3>3. DOMAIN disk'.resolved = 1..(Len(disk.resolved) - 1)
      BY <3>2, LenProperties
    <3>4. \A j \in DOMAIN disk'.resolved :
            j \in DOMAIN disk.resolved /\ j + 1 \in DOMAIN disk.resolved
      BY <3>1, <3>3
    <3> QED
      BY <3>2, <3>3, <3>4
  <2> QED
    BY <2>1 DEF NextAndHistorySame, KeysInv, KeyNamesOneFinding
<1> QED
  BY <1>1, <1>2, <1>3, <1>4, <1>5

LEMMA NextKeys == KeysAreKept /\ KeysInv /\ [Next]_vars => KeysInv'
<1> SUFFICES ASSUME KeysAreKept, KeysInv, [Next]_vars
             PROVE  KeysInv'
  OBVIOUS
<1>1. FilesInv' /\ HoldInv' /\ Effect
  BY NextFiles, NextHold DEF KeysInv, FilesInv
<1>2. CASE AddsNew
  BY <1>1, <1>2, AddsNewKeepsKeys
<1>3. \A e \in Epics : disk'.next[e] >= disk.next[e]
  BY NextGrows DEF KeysAreKept, KeysInv, FilesInv
<1>4. ASSUME birth' = birth
      PROVE  BornBelowNext'
  <2> SUFFICES ASSUME NEW k \in Keys, birth[k] # NoContent
               PROVE  disk'.next[k[1]] > k[2]
    BY <1>4 DEF BornBelowNext
  <2>1. k[1] \in Epics /\ k[2] \in Nat
    BY IssueStoreAssumption DEF Keys
  <2>2. disk'.next[k[1]] >= disk.next[k[1]] /\ disk.next[k[1]] > k[2]
    BY <1>3, <2>1 DEF KeysInv, BornBelowNext
  <2>3. disk.next[k[1]] \in Nat /\ disk'.next[k[1]] \in Nat
    BY <1>1, <2>1 DEF HoldInv, KeysInv, FilesInv, TypeOK, Stores
  <2> QED
    BY <2>1, <2>2, <2>3
<1>5. CASE AddsBack \/ DropsOpen \/ RewritesOpen \/ AppendsResolved \/ DropsResolved
  BY <1>1, <1>4, <1>5, OthersKeepContents DEF KeysInv, NextAndHistorySame
<1>6. CASE RaisesNext
  BY <1>1, <1>4, <1>6 DEF RaisesNext, KeysInv, KeyNamesOneFinding
<1>7. CASE LeavesFiles
  BY <1>1, <1>4, <1>7 DEF LeavesFiles, KeysInv, KeyNamesOneFinding
<1>8. CASE HandEdit
  <2>1. PICK k \in Keys : HandDelete(k)
    BY <1>8 DEF HandEdit, HandSetNext, KeysAreKept, NextIsKept
  <2>2. /\ "delete" \in HandEdits /\ birth' = birth
        /\ disk'.open \subseteq disk.open /\ disk'.resolved = disk.resolved
    BY <2>1 DEF HandDelete, WithoutOpen, KeysInv, FilesInv, HoldInv, TypeOK, Stores
  <2>3. KeyNamesOneFinding'
    BY <2>2 DEF KeysInv, KeyNamesOneFinding
  <2> QED
    BY <1>1, <1>4, <2>2, <2>3 DEF KeysInv
<1> QED
  BY <1>1, <1>2, <1>5, <1>6, <1>7, <1>8 DEF Effect, VerbEffect

LEMMA InitKeys == Init => KeysInv
<1> SUFFICES ASSUME Init
             PROVE  BornBelowNext /\ deleted = {} /\ KeyNamesOneFinding
  BY InitFiles DEF KeysInv
<1>1. disk.open = {} /\ DOMAIN disk.resolved = {} /\ \A k \in Keys : birth[k] = NoContent
  BY DEF Init, EmptyStore
<1> QED
  BY <1>1 DEF Init, BornBelowNext, KeyNamesOneFinding

\* A key never names two findings, whatever was resolved, reopened, deleted by
\* hand or interrupted in between.
THEOREM KeysAreNeverReused == KeysAreKept => (Spec => []KeyNamesOneFinding)
<1> SUFFICES ASSUME KeysAreKept
             PROVE  Spec => []KeyNamesOneFinding
  OBVIOUS
<1>1. KeysInv => KeyNamesOneFinding
  BY DEF KeysInv
<1>2. KeysInv /\ [Next]_vars => KeysInv'
  BY NextKeys
<1> QED
  BY <1>1, <1>2, InitKeys, PTL DEF Spec

-----------------------------------------------------------------------------
(* Items closed as duplicates, as long as no process dies.                  *)

\* A key in both files is one whose second save somebody still owes.
NoStrayCopies ==
  \A it \in disk.open : IsResolved(disk, it.key) =>
    \E p \in Procs : pc[p] \in {"dropOpen", "dropResolved"} /\ cur[p] = it.key

DupInv == FilesInv /\ NoStrayCopies /\ DuplicatesLeadToASurvivor

\* Nobody owes a save while a process is loaded or the lock is free.
LEMMA NothingOwed ==
  ASSUME DupInv, holder = NoProc \/ \E p \in Procs : pc[p] = "loaded"
  PROVE  \A it \in disk.open : ~IsResolved(disk, it.key)
<1>1. \A p \in Procs : pc[p] \notin {"dropOpen", "dropResolved"}
  BY IssueStoreAssumption DEF DupInv, FilesInv, HoldInv, LoadedIsCurrent
<1> QED
  BY <1>1 DEF DupInv, NoStrayCopies

LEMMA AppendLeavesNoStray ==
  ASSUME DupInv, NEW p \in Procs, AppendStep(p)
  PROVE  NoStrayCopies'
<1>1. AddsNew /\ pc[p] = "loaded"
  BY AppendStepEffect DEF DupInv, FilesInv, AppendStep, AppendAllocated, AppendExplicit
<1>2. \A it \in disk.open : ~IsResolved(disk, it.key)
  BY <1>1, NothingOwed
<1> QED
  BY <1>1, <1>2 DEF AddsNew, NoStrayCopies, KeysIn, IsResolved, ResolvedAt

LEMMA ResolveLeavesNoStray ==
  ASSUME DupInv, NEW p \in Procs, ResolveStep(p)
  PROVE  NoStrayCopies'
<1>0. /\ HoldInv /\ HoldInv' /\ mem[p] \in Stores /\ disk \in Stores
      /\ pc[p] # "idle" => mem[p] = disk
      /\ \A q \in Procs \ {p} : pc[p] # "idle" => pc[q] = "idle"
  BY ResolveStepEffect DEF DupInv, FilesInv, HoldInv, TypeOK, LoadedIsCurrent
<1>1. ASSUME NEW it \in mem[p].open, NEW how \in Resolutions,
             NEW ref \in Refs \cup {NoKey}, ResolveAppend(p, it, how, ref)
      PROVE  NoStrayCopies'
  <2> DEFINE e == [item |-> it, how |-> how, ref |-> ref]
  <2>1. mem[p] = disk /\ pc[p] = "loaded"
    BY <1>0, <1>1 DEF ResolveAppend
  <2>2. /\ disk' = [disk EXCEPT !.resolved = Append(disk.resolved, e)]
        /\ pc'[p] = "dropOpen" /\ cur'[p] = it.key
    BY <1>0, <1>1, <2>1 DEF ResolveAppend, SaveResolved, HoldInv, TypeOK, Stores
  <2>3. e \in Entries /\ e.item = it
    BY <1>0 DEF Stores, Entries
  <2> HIDE DEF e
  <2>4. disk'.open = disk.open /\ disk'.resolved = Append(disk.resolved, e)
    BY <1>0, <2>2 DEF Stores
  <2>5. \A i \in DOMAIN disk'.resolved :
          \/ i \in DOMAIN disk.resolved /\ disk'.resolved[i] = disk.resolved[i]
          \/ disk'.resolved[i] = e
    BY <1>0, <2>3, <2>4, AppendProperties, LenProperties DEF Stores
  <2>6. \A o \in disk.open : ~IsResolved(disk, o.key)
    BY <2>1, NothingOwed
  <2>7. \A o \in disk'.open : IsResolved(disk', o.key) => o.key = it.key
    BY <2>3, <2>4, <2>5, <2>6 DEF IsResolved, ResolvedAt
  <2> QED
    BY <2>2, <2>7 DEF NoStrayCopies
<1>2. ASSUME NEW it \in mem[p].open, ResolveRerun(p, it)
      PROVE  NoStrayCopies'
  <2>1. mem[p] = disk /\ pc[p] = "loaded" /\ IsResolved(disk, it.key)
    BY <1>0, <1>2 DEF ResolveRerun
  <2> QED
    BY <2>1, NothingOwed
<1>3. CASE ResolveDrop(p)
  <2>1. mem[p] = disk /\ pc[p] = "dropOpen"
    BY <1>0, <1>3 DEF ResolveDrop
  <2>2. mem'[p] = WithoutOpen(disk, cur[p])
    BY <1>0, <1>3, <2>1 DEF ResolveDrop, HoldInv, TypeOK
  <2>3. disk'.open = disk.open \ OpenItems(disk, cur[p]) /\ disk'.resolved = disk.resolved
    BY <1>0, <1>3, <2>2 DEF ResolveDrop, SaveOpen, WithoutOpen, Stores
  <2>4. \A it \in disk.open : IsResolved(disk, it.key) => it.key = cur[p]
    BY <1>0, <2>1 DEF DupInv, NoStrayCopies
  <2> QED
    BY <2>3, <2>4 DEF NoStrayCopies, OpenItems, IsResolved, ResolvedAt
<1> QED
  BY <1>1, <1>2, <1>3 DEF ResolveStep

LEMMA RewriteLeavesNoStray ==
  ASSUME DupInv, NEW p \in Procs, RewriteStep(p)
  PROVE  NoStrayCopies'
<1>1. RewritesOpen
  BY RewriteStepEffect DEF DupInv, FilesInv
<1>2. pc[p] = "loaded"
  BY DEF RewriteStep, Update, Link, Unschedule, Schedule
<1>3. \A it \in disk.open : ~IsResolved(disk, it.key)
  BY <1>2, NothingOwed
<1> QED
  BY <1>1, <1>3 DEF RewritesOpen, IsRewrite, NoStrayCopies, IsResolved, ResolvedAt

\* The reopened key has no entry left when its only one was dropped.
LEMMA DropLeavesNone ==
  ASSUME UniqueKeys, disk \in Stores, NEW i \in DOMAIN disk.resolved,
         disk'.resolved = RemoveAt(disk.resolved, i)
  PROVE  /\ ~IsResolved(disk', disk.resolved[i].item.key)
         /\ \A j \in DOMAIN disk'.resolved : \E m \in DOMAIN disk.resolved :
              m # i /\ disk'.resolved[j] = disk.resolved[m]
<1>1. /\ disk.resolved \in Seq(Entries) /\ Len(disk.resolved) \in Nat
      /\ DOMAIN disk.resolved = 1..Len(disk.resolved)
  BY LenProperties DEF Stores
<1>2. /\ disk'.resolved \in Seq(Entries)
      /\ Len(disk'.resolved) = Len(disk.resolved) - 1
      /\ \A j \in 1..(Len(disk.resolved) - 1) :
           disk'.resolved[j] = IF j < i THEN disk.resolved[j] ELSE disk.resolved[j + 1]
  BY <1>1, RemoveAtProperties
<1>3. DOMAIN disk'.resolved = 1..(Len(disk.resolved) - 1)
  BY <1>2, LenProperties
<1>4. ASSUME NEW j \in DOMAIN disk'.resolved
      PROVE  \E m \in DOMAIN disk.resolved : m # i /\ disk'.resolved[j] = disk.resolved[m]
  <2>1. CASE j < i
    BY <1>1, <1>2, <1>3, <2>1
  <2>2. CASE ~(j < i)
    <3>1. j + 1 \in DOMAIN disk.resolved /\ j + 1 # i
      BY <1>1, <1>3, <2>2
    <3> QED
      BY <1>2, <1>3, <2>2, <3>1
  <2> QED
    BY <2>1, <2>2
<1> QED
  BY <1>4 DEF UniqueKeys, IsResolved, ResolvedAt

LEMMA ReopenLeavesNoStray ==
  ASSUME DupInv, NEW p \in Procs, ReopenStep(p)
  PROVE  NoStrayCopies'
<1>0. /\ HoldInv /\ HoldInv' /\ mem[p] \in Stores /\ disk \in Stores
      /\ pc[p] # "idle" => mem[p] = disk
      /\ \A q \in Procs \ {p} : pc[p] # "idle" => pc[q] = "idle"
  BY ReopenStepEffect DEF DupInv, FilesInv, HoldInv, TypeOK, LoadedIsCurrent
<1>1. ASSUME NEW k \in Keys, NEW i \in DOMAIN mem[p].resolved, ReopenAdd(p, k, i)
      PROVE  NoStrayCopies'
  <2> DEFINE it == ScheduledTo(disk.resolved[i].item, disk.resolved[i].ref)
  <2>1. mem[p] = disk /\ pc[p] = "loaded"
    BY <1>0, <1>1 DEF ReopenAdd
  <2>2. i \in DOMAIN disk.resolved /\ disk.resolved[i].item.key = k
    BY <1>1, <2>1 DEF ReopenAdd, IsReopenable, IsNewestResolved, ResolvedAt
  <2>3. it.key = k
    BY <1>0, <2>2, EntriesAreTyped DEF ScheduledTo, Items
  <2>4. disk'.open = disk.open \cup {it} /\ disk'.resolved = disk.resolved
    BY <1>0, <1>1, <2>1 DEF ReopenAdd, SaveOpen, Stores
  <2> HIDE DEF it
  <2>5. pc'[p] = "dropResolved" /\ cur'[p] = k
    BY <1>0, <1>1 DEF ReopenAdd, HoldInv, TypeOK
  <2>6. \A o \in disk.open : ~IsResolved(disk, o.key)
    BY <2>1, NothingOwed
  <2> QED
    BY <2>3, <2>4, <2>5, <2>6 DEF NoStrayCopies, IsResolved, ResolvedAt
<1>2. ASSUME NEW k \in Keys, NEW i \in DOMAIN mem[p].resolved, ReopenRerun(p, k, i)
      PROVE  NoStrayCopies'
  <2>1. mem[p] = disk /\ pc[p] = "loaded"
    BY <1>0, <1>2 DEF ReopenRerun
  <2>2. IsResolved(disk, k) /\ OpenItems(disk, k) # {}
    BY <1>2, <2>1 DEF ReopenRerun, IsReopenable, IsNewestResolved, IsResolved
  <2> QED
    BY <2>1, <2>2, NothingOwed DEF OpenItems
<1>3. CASE ReopenDrop(p)
  <2>1. mem[p] = disk /\ pc[p] = "dropResolved" /\ DropResolved(p, cur[p])
    BY <1>0, <1>3 DEF ReopenDrop
  <2>2. PICK i \in DOMAIN disk.resolved :
          IsNewestResolved(disk, cur[p], i) /\ mem' = [mem EXCEPT ![p] = WithoutResolved(disk, i)]
    BY <2>1 DEF DropResolved
  <2>3. mem'[p] = WithoutResolved(disk, i)
    BY <1>0, <2>2 DEF HoldInv, TypeOK
  <2>4. disk'.open = disk.open /\ disk'.resolved = RemoveAt(disk.resolved, i)
    BY <1>0, <2>1, <2>3 DEF DropResolved, SaveResolved, WithoutResolved, Stores
  <2>5. disk.resolved[i].item.key = cur[p]
    BY <2>2 DEF IsNewestResolved, ResolvedAt
  <2>6. /\ ~IsResolved(disk', cur[p])
        /\ \A j \in DOMAIN disk'.resolved : \E m \in DOMAIN disk.resolved :
             disk'.resolved[j] = disk.resolved[m]
    BY <1>0, <2>4, <2>5, DropLeavesNone DEF DupInv, FilesInv
  <2>7. \A it \in disk.open : IsResolved(disk, it.key) => it.key = cur[p]
    BY <1>0, <2>1 DEF DupInv, NoStrayCopies
  <2> QED
    BY <2>4, <2>6, <2>7 DEF NoStrayCopies, IsResolved, ResolvedAt
<1> QED
  BY <1>1, <1>2, <1>3 DEF ReopenStep

LEMMA NextLeavesNoStray ==
  ASSUME ~CanCrash, DupInv, [Next]_vars
  PROVE  NoStrayCopies'
<1>0. disk \in Stores
  BY DEF DupInv, FilesInv, HoldInv, TypeOK
<1>1. ASSUME disk'.open \subseteq disk.open, disk'.resolved = disk.resolved,
             \A it \in disk.open : ~IsResolved(disk, it.key)
      PROVE  NoStrayCopies'
  BY <1>1 DEF NoStrayCopies, IsResolved, ResolvedAt
<1>2. ASSUME NEW p \in Procs, ProcStep(p)
      PROVE  NoStrayCopies'
  <2>1. CASE Acquire(p)
    BY <1>1, <2>1, NothingOwed DEF Acquire, LockIsFree
  <2>2. CASE Release(p)
    BY <1>1, <2>2, NothingOwed DEF Release, Leave
  <2>3. CASE \E e \in Epics : Reseed(p, e)
    <3>1. PICK e \in Epics : Reseed(p, e)
      BY <2>3
    <3>2. RaisesNext /\ pc[p] = "loaded"
      BY <3>1, ReseedEffect DEF DupInv, FilesInv, Reseed
    <3> QED
      BY <1>1, <3>2, NothingOwed DEF RaisesNext
  <2> QED
    BY <1>2, <2>1, <2>2, <2>3, AppendLeavesNoStray, ResolveLeavesNoStray,
       RewriteLeavesNoStray, ReopenLeavesNoStray DEF ProcStep, Crash
<1>3. CASE HandEdit
  <2>1. holder = NoProc /\ disk'.open \subseteq disk.open /\ disk'.resolved = disk.resolved
    BY <1>0, <1>3 DEF HandEdit, HandDelete, HandSetNext, WithoutOpen, Stores
  <2> QED
    BY <1>1, <2>1, NothingOwed
<1>4. CASE UNCHANGED vars
  BY <1>4 DEF vars, DupInv, NoStrayCopies, IsResolved, ResolvedAt
<1> QED
  BY <1>2, <1>3, <1>4 DEF Next

\* An entry that leads to a key which is not closed as a duplicate itself
\* closes no circle.
LEMMA NoCircle ==
  ASSUME DupInv, AppendsResolved
  PROVE  DuplicatesLeadToASurvivor'
<1> PICK e \in Entries :
      /\ e.item \in disk.open
      /\ IsUnresolvedOpen(disk, e.item)
      /\ RefAllowed(disk, e.item.key, e.how, e.ref)
      /\ \E p \in Procs : pc[p] = "loaded"
      /\ disk'.open = disk.open
      /\ disk'.resolved = Append(disk.resolved, e)
  BY DEF AppendsResolved
<1> DEFINE k == e.item.key
           n == Len(disk.resolved)
<1>1. /\ disk.resolved \in Seq(Entries) /\ n \in Nat /\ DOMAIN disk.resolved = 1..n
      /\ disk'.resolved \in Seq(Entries) /\ DOMAIN disk'.resolved = 1..Len(disk'.resolved)
  BY LenProperties, AppendProperties DEF DupInv, FilesInv, HoldInv, TypeOK, Stores
<1>2. /\ DOMAIN disk'.resolved = 1..(n + 1)
      /\ \A i \in 1..n : disk'.resolved[i] = disk.resolved[i]
      /\ disk'.resolved[n + 1] = e
  BY <1>1, AppendProperties
<1>3. k \in Keys
  BY DEF Entries, Items
<1> HIDE DEF n, k
<1>4. ASSUME NEW D \in SUBSET Keys, NEW l \in Keys, l # k, ClosedAsDuplicateOf(l, D)'
      PROVE  ClosedAsDuplicateOf(l, D)
  <2>1. PICK i \in DOMAIN disk'.resolved :
          /\ disk'.resolved[i].item.key = l
          /\ disk'.resolved[i].how = "duplicate" /\ disk'.resolved[i].ref \in D
    BY <1>4 DEF ClosedAsDuplicateOf, ResolvedAt
  <2>2. i \in 1..n
    BY <1>1, <1>2, <1>4, <2>1 DEF k
  <2> QED
    BY <1>1, <1>2, <2>1, <2>2 DEF ClosedAsDuplicateOf, ResolvedAt
<1>5. ASSUME NEW D \in SUBSET Keys, ClosedAsDuplicateOf(k, D)'
      PROVE  e.how = "duplicate" /\ e.ref \in D
  <2>1. PICK i \in DOMAIN disk'.resolved :
          /\ disk'.resolved[i].item.key = k
          /\ disk'.resolved[i].how = "duplicate" /\ disk'.resolved[i].ref \in D
    BY <1>5 DEF ClosedAsDuplicateOf, ResolvedAt
  <2>2. i \notin 1..n
    BY <1>1, <1>2, <2>1 DEF IsUnresolvedOpen, IsResolved, ResolvedAt, k
  <2>3. i = n + 1
    BY <1>1, <1>2, <2>2
  <2> QED
    BY <1>2, <2>1, <2>3
<1>6. ASSUME e.how = "duplicate", NEW D \in SUBSET Keys, ClosedAsDuplicateOf(e.ref, D)
      PROVE  FALSE
  <2>1. \/ OpenItems(disk, e.ref) # {}
        \/ \E i \in ResolvedAt(disk, e.ref) : disk.resolved[i].how # "duplicate"
    BY <1>6 DEF RefAllowed
  <2>2. PICK j \in ResolvedAt(disk, e.ref) : disk.resolved[j].how = "duplicate"
    BY <1>6 DEF ClosedAsDuplicateOf
  <2>3. OpenItems(disk, e.ref) = {}
    BY <2>2, NothingOwed DEF OpenItems, IsResolved
  <2> QED
    BY <2>1, <2>2, <2>3 DEF DupInv, FilesInv, UniqueKeys, ResolvedAt
<1>7. e.how = "duplicate" => e.ref \in Keys /\ e.ref # k
  BY DEF RefAllowed, k
<1> SUFFICES ASSUME NEW D \in SUBSET Keys, D # {}, \A l \in D : ClosedAsDuplicateOf(l, D)'
             PROVE  FALSE
  BY DEF DuplicatesLeadToASurvivor
<1>8. CASE k \in D
  <2>1. e.how = "duplicate" /\ e.ref \in D
    BY <1>5, <1>8
  <2>2. ClosedAsDuplicateOf(e.ref, D)
    BY <1>4, <1>7, <2>1
  <2> QED
    BY <1>6, <2>1, <2>2
<1>9. CASE k \notin D
  BY <1>4, <1>9 DEF DupInv, DuplicatesLeadToASurvivor
<1> QED
  BY <1>8, <1>9

LEMMA NextDup == ~CanCrash /\ DupInv /\ [Next]_vars => DupInv'
<1> SUFFICES ASSUME ~CanCrash, DupInv, [Next]_vars
             PROVE  DupInv'
  OBVIOUS
<1>0. /\ FilesInv' /\ Effect /\ NoStrayCopies' /\ disk \in Stores /\ UniqueKeys
      /\ DuplicatesLeadToASurvivor
  BY NextFiles, NextHold, NextLeavesNoStray DEF DupInv, FilesInv, HoldInv, TypeOK
<1> SUFFICES DuplicatesLeadToASurvivor'
  BY <1>0 DEF DupInv
<1>1. ASSUME \A j \in DOMAIN disk'.resolved : \E m \in DOMAIN disk.resolved :
               disk'.resolved[j] = disk.resolved[m]
      PROVE  DuplicatesLeadToASurvivor'
  <2>1. \A D \in SUBSET Keys, k \in Keys :
          ClosedAsDuplicateOf(k, D)' => ClosedAsDuplicateOf(k, D)
    BY <1>1 DEF ClosedAsDuplicateOf, ResolvedAt
  <2> QED
    BY <1>0, <2>1 DEF DuplicatesLeadToASurvivor
<1>2. CASE disk'.resolved = disk.resolved
  BY <1>1, <1>2
<1>3. CASE AppendsResolved
  BY <1>3, NoCircle
<1>4. CASE DropsResolved
  BY <1>0, <1>1, <1>4, DropLeavesNone DEF DropsResolved
<1>5. CASE HandEdit
  BY <1>0, <1>2, <1>5 DEF HandEdit, HandDelete, HandSetNext, WithoutOpen, Stores
<1> QED
  BY <1>0, <1>2, <1>3, <1>4, <1>5
     DEF Effect, VerbEffect, AddsNew, AddsBack, DropsOpen, RewritesOpen, RaisesNext, LeavesFiles

LEMMA InitDup == Init => DupInv
<1> SUFFICES ASSUME Init
             PROVE  NoStrayCopies /\ DuplicatesLeadToASurvivor
  BY InitFiles DEF DupInv
<1>1. disk.open = {} /\ DOMAIN disk.resolved = {}
  BY DEF Init, EmptyStore
<1> QED
  BY <1>1 DEF NoStrayCopies, DuplicatesLeadToASurvivor, ClosedAsDuplicateOf, ResolvedAt

\* resolve-issue --resolution duplicate: following the keys that survived never
\* runs in a circle, if no process dies between the two saves of a resolve.
THEOREM DuplicatesEnd == ~CanCrash => (Spec => []DuplicatesLeadToASurvivor)
<1> SUFFICES ASSUME ~CanCrash
             PROVE  Spec => []DuplicatesLeadToASurvivor
  OBVIOUS
<1>1. DupInv => DuplicatesLeadToASurvivor
  BY DEF DupInv
<1>2. DupInv /\ [Next]_vars => DupInv'
  BY NextDup
<1> QED
  BY <1>1, <1>2, InitDup, PTL DEF Spec

-----------------------------------------------------------------------------
(* The files implement the ledger, as long as keys are kept.                *)

UniqueIn(st) ==
  /\ \A a, b \in st.open : a.key = b.key => a = b
  /\ \A i, j \in DOMAIN st.resolved :
       st.resolved[i].item.key = st.resolved[j].item.key => i = j

\* h is what the files st tell of k: its entry if it has one, else its open
\* item, else that it is gone.
TellsResolved(st, k, h) ==
  \E i \in DOMAIN st.resolved :
    /\ st.resolved[i].item.key = k
    /\ h = [phase |-> st.resolved[i].how, content |-> st.resolved[i].item.content,
            sev |-> st.resolved[i].item.sev]

TellsOpen(st, k, h) ==
  /\ ~IsResolved(st, k)
  /\ \E it \in st.open :
       it.key = k /\ h = [phase |-> "open", content |-> it.content, sev |-> it.sev]

TellsGone(st, struck, k, h) ==
  /\ ~IsResolved(st, k) /\ OpenItems(st, k) = {}
  /\ h = [phase |-> IF k \in struck THEN "deleted" ELSE "unused",
          content |-> NoContent, sev |-> 0]

Tells(st, struck, k, h) ==
  TellsResolved(st, k, h) \/ TellsOpen(st, k, h) \/ TellsGone(st, struck, k, h)

\* HistoryIn is the one thing that the files tell of a key.
LEMMA HistoryIsTold ==
  ASSUME NEW st \in Stores, UniqueIn(st), NEW struck, NEW k, NEW h,
         Tells(st, struck, k, h)
  PROVE  HistoryIn(st, struck, k) = h
<1>0. DOMAIN st.resolved = 1..Len(st.resolved) /\ Len(st.resolved) \in Nat
  BY EntriesAreTyped
<1>1. CASE TellsResolved(st, k, h)
  <2>1. PICK i \in DOMAIN st.resolved :
          /\ st.resolved[i].item.key = k
          /\ h = [phase |-> st.resolved[i].how, content |-> st.resolved[i].item.content,
                  sev |-> st.resolved[i].item.sev]
    BY <1>1 DEF TellsResolved
  <2>2. IsResolved(st, k)
    BY <2>1 DEF IsResolved, ResolvedAt
  <2>3. \A j \in DOMAIN st.resolved : IsNewestResolved(st, k, j) <=> j = i
    BY <1>0, <2>1 DEF IsNewestResolved, ResolvedAt, UniqueIn
  <2>4. (CHOOSE j \in DOMAIN st.resolved : IsNewestResolved(st, k, j)) = i
    BY <2>3
  <2> QED
    BY <2>1, <2>2, <2>4 DEF HistoryIn
<1>2. CASE TellsOpen(st, k, h)
  <2>1. PICK it \in st.open :
          it.key = k /\ h = [phase |-> "open", content |-> it.content, sev |-> it.sev]
    BY <1>2 DEF TellsOpen
  <2>2. OpenItems(st, k) = {it}
    BY <2>1 DEF OpenItems, UniqueIn
  <2>3. (CHOOSE o \in OpenItems(st, k) : TRUE) = it
    BY <2>2
  <2>4. ~IsResolved(st, k) /\ OpenItems(st, k) # {}
    BY <1>2, <2>2 DEF TellsOpen
  <2> QED
    BY <2>1, <2>3, <2>4 DEF HistoryIn
<1>3. CASE TellsGone(st, struck, k, h)
  BY <1>3 DEF TellsGone, HistoryIn
<1> QED
  BY <1>1, <1>2, <1>3 DEF Tells

\* The files tell something of every key.
LEMMA SomethingIsTold ==
  ASSUME NEW st \in Stores, NEW struck, NEW k
  PROVE  \E h : Tells(st, struck, k, h)
<1>1. CASE IsResolved(st, k)
  <2>1. PICK i \in DOMAIN st.resolved : st.resolved[i].item.key = k
    BY <1>1 DEF IsResolved, ResolvedAt
  <2> QED
    BY <2>1 DEF Tells, TellsResolved
<1>2. CASE ~IsResolved(st, k) /\ OpenItems(st, k) # {}
  <2>1. PICK it \in st.open : it.key = k
    BY <1>2 DEF OpenItems
  <2> QED
    BY <1>2, <2>1 DEF Tells, TellsOpen
<1>3. CASE ~IsResolved(st, k) /\ OpenItems(st, k) = {}
  BY <1>3 DEF Tells, TellsGone
<1> QED
  BY <1>1, <1>2, <1>3

LedgerInv == KeysInv /\ \A k \in deleted : birth[k] # NoContent

Told == [k \in Keys |-> ItemHistory(k)]

\* Files that tell the same of a key give it the same history.
LEMMA SameHistory ==
  ASSUME FilesInv, FilesInv', NEW k,
         \A h : Tells(disk, deleted, k, h) => Tells(disk, deleted, k, h)'
  PROVE  ItemHistory(k)' = ItemHistory(k)
<1>0. /\ disk \in Stores /\ disk' \in Stores /\ UniqueIn(disk) /\ UniqueIn(disk)'
  BY DEF FilesInv, HoldInv, TypeOK, UniqueKeys, UniqueIn
<1>1. PICK h : Tells(disk, deleted, k, h)
  BY <1>0, SomethingIsTold
<1>2. HistoryIn(disk, deleted, k) = h
  BY <1>0, <1>1, HistoryIsTold
<1>3. UniqueIn(disk') /\ Tells(disk', deleted', k, h)
  BY <1>0, <1>1 DEF UniqueIn, Tells, TellsResolved, TellsOpen, TellsGone,
     IsResolved, ResolvedAt, OpenItems
<1>4. HistoryIn(disk', deleted', k) = h
  BY <1>0, <1>3, HistoryIsTold
<1> QED
  BY <1>2, <1>4 DEF ItemHistory, HistoryIn

\* What the files hold of one key.
EntriesOf(st, k) == {st.resolved[i] : i \in ResolvedAt(st, k)}

LEMMA UntouchedKey ==
  ASSUME FilesInv, FilesInv', NEW k,
         EntriesOf(disk', k) = EntriesOf(disk, k),
         OpenItems(disk', k) = OpenItems(disk, k),
         k \in deleted' <=> k \in deleted
  PROVE  ItemHistory(k)' = ItemHistory(k)
<1>1. IsResolved(disk', k) <=> IsResolved(disk, k)
  BY DEF EntriesOf, IsResolved
<1>2. ASSUME NEW h, Tells(disk, deleted, k, h)
      PROVE  Tells(disk, deleted, k, h)'
  <2>1. CASE TellsResolved(disk, k, h)
    <3>1. PICK i \in DOMAIN disk.resolved :
            /\ disk.resolved[i].item.key = k
            /\ h = [phase |-> disk.resolved[i].how, content |-> disk.resolved[i].item.content,
                    sev |-> disk.resolved[i].item.sev]
      BY <2>1 DEF TellsResolved
    <3>2. disk.resolved[i] \in EntriesOf(disk', k)
      BY <3>1 DEF EntriesOf, ResolvedAt
    <3>3. PICK j \in DOMAIN disk'.resolved :
            disk'.resolved[j].item.key = k /\ disk'.resolved[j] = disk.resolved[i]
      BY <3>2 DEF EntriesOf, ResolvedAt
    <3> QED
      BY <3>1, <3>3 DEF Tells, TellsResolved
  <2>2. CASE TellsOpen(disk, k, h)
    BY <1>1, <2>2 DEF Tells, TellsOpen, OpenItems, IsResolved, ResolvedAt
  <2>3. CASE TellsGone(disk, deleted, k, h)
    BY <1>1, <2>3 DEF Tells, TellsGone, OpenItems, IsResolved, ResolvedAt
  <2> QED
    BY <1>2, <2>1, <2>2, <2>3 DEF Tells
<1> QED
  BY <1>2, SameHistory

LEMMA OneKeyChanges ==
  ASSUME FilesInv, FilesInv', NEW k0 \in Keys, NEW h, Tells(disk, deleted, k0, h)',
         \A k \in Keys \ {k0} : ItemHistory(k)' = ItemHistory(k)
  PROVE  Told' = [Told EXCEPT ![k0] = h]
<1>1. UniqueIn(disk') /\ disk' \in Stores /\ Tells(disk', deleted', k0, h)
  BY DEF FilesInv, HoldInv, TypeOK, UniqueKeys, UniqueIn, Tells, TellsResolved,
     TellsOpen, TellsGone, IsResolved, ResolvedAt, OpenItems
<1>2. HistoryIn(disk', deleted', k0) = h
  BY <1>1, HistoryIsTold
<1>3. ItemHistory(k0)' = h
  BY <1>2 DEF ItemHistory, HistoryIn
<1> QED
  BY <1>3 DEF Told

\* The history of a key in the state before, from what the files tell.
LEMMA HistoryNow ==
  ASSUME FilesInv, NEW k \in Keys, NEW h, Tells(disk, deleted, k, h)
  PROVE  Told[k] = h
<1>1. UniqueIn(disk) /\ disk \in Stores
  BY DEF FilesInv, HoldInv, TypeOK, UniqueKeys, UniqueIn
<1> QED
  BY <1>1, HistoryIsTold DEF Told, ItemHistory

LEMMA AddsNewOpens ==
  ASSUME KeysAreKept, LedgerInv, FilesInv', AddsNew
  PROVE  \E k \in Keys, c \in Contents, sev \in Severities : Ledger!Open(k, c, sev)
<1> PICK it \in Items :
      /\ it.key \notin KeysIn(disk)
      /\ disk'.open = disk.open \cup {it}
      /\ disk'.resolved = disk.resolved
      /\ \/ it.key[2] \in ExplicitSuffixes
         \/ IsNextSuffix(disk, it.key[1], it.key[2])
      /\ deleted' = deleted
  BY DEF AddsNew
<1> DEFINE h == [phase |-> "open", content |-> it.content, sev |-> it.sev]
<1>1. it.key \in Keys /\ it.content \in Contents /\ it.sev \in Severities
  BY DEF Items
<1>2. /\ ~IsResolved(disk, it.key) /\ OpenItems(disk, it.key) = {}
      /\ it.key \notin deleted
  BY NewKeyIsUnborn DEF LedgerInv, KeysIn, IsResolved, ResolvedAt, OpenItems
<1>3. Told[it.key] = [phase |-> "unused", content |-> NoContent, sev |-> 0]
  BY <1>1, <1>2, HistoryNow DEF Tells, TellsGone, LedgerInv, KeysInv
<1>4. Tells(disk, deleted, it.key, h)'
  BY <1>2 DEF Tells, TellsOpen, IsResolved, ResolvedAt
<1>5. \A k \in Keys \ {it.key} : ItemHistory(k)' = ItemHistory(k)
  BY UntouchedKey DEF LedgerInv, KeysInv, EntriesOf, ResolvedAt, OpenItems
<1>6. Told' = [Told EXCEPT ![it.key] = h]
  BY <1>1, <1>4, <1>5, OneKeyChanges DEF LedgerInv, KeysInv
<1>7. Ledger!Open(it.key, it.content, it.sev)
  BY <1>3, <1>6 DEF Ledger!Open, Ledger!Unused, Told
<1> QED
  BY <1>1, <1>7

\* An open copy of a resolved item comes or goes without a reader noticing.
LEMMA CopiesAreUnseen ==
  ASSUME FilesInv, FilesInv', AddsBack \/ DropsOpen
  PROVE  Told' = Told
<1>1. PICK k0 \in Keys :
        /\ IsResolved(disk, k0)
        /\ disk'.resolved = disk.resolved
        /\ \A k \in Keys \ {k0} : OpenItems(disk', k) = OpenItems(disk, k)
        /\ deleted' = deleted
  <2>1. CASE AddsBack
    <3>1. PICK i \in DOMAIN disk.resolved, it \in Items :
            /\ it.key = disk.resolved[i].item.key
            /\ disk'.open = disk.open \cup {it}
            /\ disk'.resolved = disk.resolved
            /\ deleted' = deleted
      BY <2>1 DEF AddsBack, NextAndHistorySame
    <3>2. it.key \in Keys /\ IsResolved(disk, it.key)
      BY <3>1 DEF Items, IsResolved, ResolvedAt
    <3>3. \A k \in Keys \ {it.key} : OpenItems(disk', k) = OpenItems(disk, k)
      BY <3>1 DEF OpenItems
    <3> QED
      BY <3>1, <3>2, <3>3
  <2>2. CASE DropsOpen
    BY <2>2 DEF DropsOpen, NextAndHistorySame, OpenItems
  <2> QED
    BY <2>1, <2>2
<1>2. ASSUME NEW k \in Keys
      PROVE  ItemHistory(k)' = ItemHistory(k)
  <2>1. CASE k = k0
    <3>1. \A h : Tells(disk, deleted, k, h) => Tells(disk, deleted, k, h)'
      BY <1>1, <2>1 DEF Tells, TellsResolved, TellsOpen, TellsGone, IsResolved, ResolvedAt
    <3> QED
      BY <3>1, SameHistory
  <2>2. CASE k # k0
    BY <1>1, <2>2, UntouchedKey DEF EntriesOf, ResolvedAt
  <2> QED
    BY <2>1, <2>2
<1> QED
  BY <1>2 DEF Told

\* A rewrite changes the severity of one open item, or no severity at all.
LEMMA RewriteIsUnseenOrResevers ==
  ASSUME FilesInv, FilesInv', RewritesOpen
  PROVE  Told' = Told \/ \E k \in Keys, sev \in Severities : Ledger!Resever(k, sev)
<1> PICK olds, news :
      /\ IsRewrite(disk, olds, news)
      /\ SevsKept(olds, news) \/ \E o : olds = {o}
      /\ disk'.open = (disk.open \ olds) \cup news
      /\ disk'.resolved = disk.resolved
      /\ deleted' = deleted
  BY DEF RewritesOpen, NextAndHistorySame
<1>0. UniqueKeys /\ disk \in Stores
  BY DEF FilesInv, HoldInv, TypeOK
<1>1. ASSUME NEW k \in Keys, \A o \in olds : o.key # k
      PROVE  ItemHistory(k)' = ItemHistory(k)
  <2>1. OpenItems(disk', k) = OpenItems(disk, k)
    BY <1>1 DEF IsRewrite, OpenItems
  <2> QED
    BY <2>1, UntouchedKey DEF EntriesOf, ResolvedAt
\* The rewritten item of a key is open, unresolved and has the old content.
<1>2. ASSUME NEW o \in olds
      PROVE  /\ o \in disk.open /\ o \in Items /\ o.key \in Keys
             /\ ~IsResolved(disk, o.key) /\ ~IsResolved(disk', o.key)
             /\ \E n \in news : n.key = o.key /\ n.content = o.content /\ n \in disk'.open
  <2>1. o \in disk.open /\ IsUnresolvedOpen(disk, o) /\ \E n \in news : n.key = o.key
    BY DEF IsRewrite
  <2>2. PICK n \in news : n.key = o.key
    BY <2>1
  <2>3. PICK u \in olds : n.key = u.key /\ n.content = u.content
    BY DEF IsRewrite
  <2>4. u = o
    BY <1>0, <2>1, <2>2, <2>3 DEF UniqueKeys, IsRewrite
  <2> QED
    BY <1>0, <2>1, <2>2, <2>3, <2>4
       DEF IsUnresolvedOpen, IsResolved, ResolvedAt, Stores, Items
<1>3. CASE SevsKept(olds, news)
  <2>1. ASSUME NEW k \in Keys
        PROVE  ItemHistory(k)' = ItemHistory(k)
    <3>1. CASE \E o \in olds : o.key = k
      <4>1. PICK o \in olds : o.key = k
        BY <3>1
      <4>2. PICK n \in news : n.key = o.key /\ n.content = o.content /\ n \in disk'.open
        BY <1>2
      <4>3. n.sev = o.sev
        BY <1>3, <4>2 DEF SevsKept
      <4>4. ASSUME NEW h, Tells(disk, deleted, k, h)
            PROVE  Tells(disk, deleted, k, h)'
        <5>1. PICK it \in disk.open :
                it.key = k /\ h = [phase |-> "open", content |-> it.content, sev |-> it.sev]
          BY <1>2, <4>1, <4>4
             DEF Tells, TellsResolved, TellsOpen, TellsGone, IsResolved, ResolvedAt, OpenItems
        <5>2. it = o
          BY <1>0, <1>2, <4>1, <5>1 DEF UniqueKeys
        <5> QED
          BY <1>2, <4>1, <4>2, <4>3, <5>1, <5>2
             DEF Tells, TellsOpen, IsResolved, ResolvedAt
      <4> QED
        BY <4>4, SameHistory
    <3> QED
      BY <1>1, <3>1
  <2> QED
    BY <2>1 DEF Told
<1>4. ASSUME NEW o, olds = {o}
      PROVE  \E k \in Keys, sev \in Severities : Ledger!Resever(k, sev)
  <2>1. PICK n \in news : n.key = o.key /\ n.content = o.content /\ n \in disk'.open
    BY <1>2, <1>4
  <2>2. n.sev \in Severities
    BY DEF IsRewrite, Items
  <2>3. /\ o.key \in Keys
        /\ Told[o.key] = [phase |-> "open", content |-> o.content, sev |-> o.sev]
    BY <1>2, <1>4, HistoryNow DEF Tells, TellsOpen
  <2>4. Tells(disk, deleted, o.key,
              [phase |-> "open", content |-> o.content, sev |-> n.sev])'
    BY <1>2, <1>4, <2>1 DEF Tells, TellsOpen, IsResolved, ResolvedAt
  <2>5. Told' = [Told EXCEPT ![o.key] =
                   [phase |-> "open", content |-> o.content, sev |-> n.sev]]
    BY <1>1, <1>4, <2>3, <2>4, OneKeyChanges
  <2>6. Told[o.key].phase = "open" /\ Told' = [Told EXCEPT ![o.key].sev = n.sev]
    <3>1. [Told[o.key] EXCEPT !.sev = n.sev] =
            [phase |-> "open", content |-> o.content, sev |-> n.sev]
      BY <2>3
    <3>2. [Told EXCEPT ![o.key].sev = n.sev] =
            [Told EXCEPT ![o.key] = [Told[o.key] EXCEPT !.sev = n.sev]]
      OBVIOUS
    <3>3. Told[o.key].phase = "open"
      BY <2>3
    <3> QED
      BY <2>5, <3>1, <3>2, <3>3, Zenon
  <2>7. Ledger!Resever(o.key, n.sev)
    BY <2>6 DEF Ledger!Resever, Told
  <2> QED
    BY <2>2, <2>3, <2>7
<1> QED
  BY <1>3, <1>4

LEMMA AppendsResolvedSettles ==
  ASSUME FilesInv, FilesInv', AppendsResolved
  PROVE  \E k \in Keys, how \in Resolutions : Ledger!Settle(k, how)
<1> PICK e \in Entries :
      /\ e.item \in disk.open
      /\ IsUnresolvedOpen(disk, e.item)
      /\ disk'.open = disk.open
      /\ disk'.resolved = Append(disk.resolved, e)
      /\ deleted' = deleted
  BY DEF AppendsResolved, NextAndHistorySame
<1> DEFINE k0 == e.item.key
           n  == Len(disk.resolved)
           h  == [phase |-> e.how, content |-> e.item.content, sev |-> e.item.sev]
<1>1. /\ disk.resolved \in Seq(Entries) /\ n \in Nat /\ DOMAIN disk.resolved = 1..n
      /\ disk'.resolved \in Seq(Entries) /\ DOMAIN disk'.resolved = 1..Len(disk'.resolved)
  BY LenProperties, AppendProperties DEF FilesInv, HoldInv, TypeOK, Stores
<1>2. /\ DOMAIN disk'.resolved = 1..(n + 1)
      /\ \A i \in 1..n : disk'.resolved[i] = disk.resolved[i]
      /\ disk'.resolved[n + 1] = e
  BY <1>1, AppendProperties
<1>3. k0 \in Keys /\ e.how \in Resolutions
  BY DEF Entries, Items
<1>4. Told[k0] = [phase |-> "open", content |-> e.item.content, sev |-> e.item.sev]
  BY <1>3, HistoryNow DEF Tells, TellsOpen, IsUnresolvedOpen
<1> HIDE DEF n, k0
<1>5. Tells(disk, deleted, k0, h)'
  <2>1. n + 1 \in DOMAIN disk'.resolved
    BY <1>1, <1>2
  <2> QED
    BY <1>2, <2>1 DEF Tells, TellsResolved, k0
<1>6. \A k \in Keys \ {k0} : ItemHistory(k)' = ItemHistory(k)
  <2> SUFFICES ASSUME NEW k \in Keys \ {k0}
               PROVE  ItemHistory(k)' = ItemHistory(k)
    OBVIOUS
  <2>1. ResolvedAt(disk', k) = ResolvedAt(disk, k)
    <3>1. \A i \in DOMAIN disk'.resolved : i \in 1..n \/ i = n + 1
      BY <1>1, <1>2
    <3>2. 1..n \subseteq DOMAIN disk'.resolved
      BY <1>1, <1>2
    <3> QED
      BY <1>1, <1>2, <3>1, <3>2 DEF ResolvedAt, k0
  <2>2. EntriesOf(disk', k) = EntriesOf(disk, k)
    BY <1>1, <1>2, <2>1 DEF EntriesOf, ResolvedAt
  <2> QED
    BY <2>2, UntouchedKey DEF OpenItems
<1>7. Told' = [Told EXCEPT ![k0] = h]
  BY <1>3, <1>5, <1>6, OneKeyChanges
<1>8. Told[k0].phase = "open" /\ Told' = [Told EXCEPT ![k0].phase = e.how]
  <2>1. [Told[k0] EXCEPT !.phase = e.how] = h
    BY <1>4
  <2>2. [Told EXCEPT ![k0].phase = e.how] =
          [Told EXCEPT ![k0] = [Told[k0] EXCEPT !.phase = e.how]]
    OBVIOUS
  <2>3. Told[k0].phase = "open"
    BY <1>4
  <2> QED
    BY <1>7, <2>1, <2>2, <2>3, Zenon
<1>9. Ledger!Settle(k0, e.how)
  BY <1>8 DEF Ledger!Settle, Told
<1> QED
  BY <1>3, <1>9

\* Every other entry is still there.
LEMMA RemovedIsTheOnlyOne ==
  ASSUME disk \in Stores, NEW i \in DOMAIN disk.resolved,
         disk'.resolved = RemoveAt(disk.resolved, i)
  PROVE  \A m \in DOMAIN disk.resolved : m # i => \E j \in DOMAIN disk'.resolved :
           disk'.resolved[j] = disk.resolved[m]
<1> DEFINE n == Len(disk.resolved)
<1>1. disk.resolved \in Seq(Entries) /\ n \in Nat /\ DOMAIN disk.resolved = 1..n
  BY LenProperties DEF Stores
<1>2. /\ disk'.resolved \in Seq(Entries)
      /\ Len(disk'.resolved) = n - 1
      /\ \A j \in 1..(n - 1) :
           disk'.resolved[j] = IF j < i THEN disk.resolved[j] ELSE disk.resolved[j + 1]
  BY <1>1, RemoveAtProperties
<1>3. DOMAIN disk'.resolved = 1..(n - 1)
  BY <1>2, LenProperties
<1> HIDE DEF n
<1> SUFFICES ASSUME NEW m \in 1..n, m # i
             PROVE  \E j \in 1..(n - 1) : disk'.resolved[j] = disk.resolved[m]
  BY <1>1, <1>3
<1>4. CASE m < i
  BY <1>1, <1>2, <1>4
<1>5. CASE m > i
  <2>1. m - 1 \in 1..(n - 1) /\ ~(m - 1 < i) /\ (m - 1) + 1 = m
    BY <1>1, <1>5
  <2> QED
    BY <1>2, <2>1
<1> QED
  BY <1>1, <1>4, <1>5

LEMMA DropsResolvedReopens ==
  ASSUME FilesInv, FilesInv', DropsResolved
  PROVE  \E k \in Keys : Ledger!Reopen(k)
<1> PICK i \in DOMAIN disk.resolved :
      /\ OpenItems(disk, disk.resolved[i].item.key) # {}
      /\ disk.resolved[i].how = "fixed"
      /\ disk'.open = disk.open
      /\ disk'.resolved = RemoveAt(disk.resolved, i)
      /\ deleted' = deleted
  BY DEF DropsResolved, NextAndHistorySame
<1>0. disk \in Stores /\ UniqueKeys
  BY DEF FilesInv, HoldInv, TypeOK
<1>1. PICK k0 \in Keys : k0 = disk.resolved[i].item.key
  BY <1>0, EntriesAreTyped
<1>2. PICK it \in disk.open : it.key = k0
  BY <1>1 DEF OpenItems
<1>3. it.content = disk.resolved[i].item.content /\ it.sev = disk.resolved[i].item.sev
  BY <1>1, <1>2 DEF FilesInv, CopiesAgree, ResolvedAt
<1>4. Told[k0] = [phase |-> "fixed", content |-> it.content, sev |-> it.sev]
  BY <1>1, <1>3, HistoryNow DEF Tells, TellsResolved
<1>5. /\ ~IsResolved(disk', k0)
      /\ \A j \in DOMAIN disk'.resolved : \E m \in DOMAIN disk.resolved :
           m # i /\ disk'.resolved[j] = disk.resolved[m]
  BY <1>0, <1>1, DropLeavesNone
<1>6. Tells(disk, deleted, k0, [phase |-> "open", content |-> it.content, sev |-> it.sev])'
  BY <1>2, <1>5 DEF Tells, TellsOpen, IsResolved, ResolvedAt
<1>7. \A k \in Keys \ {k0} : ItemHistory(k)' = ItemHistory(k)
  <2> SUFFICES ASSUME NEW k \in Keys, k # k0
               PROVE  EntriesOf(disk', k) = EntriesOf(disk, k)
    BY UntouchedKey DEF OpenItems
  <2>1. \A m \in DOMAIN disk.resolved : m # i => \E j \in DOMAIN disk'.resolved :
          disk'.resolved[j] = disk.resolved[m]
    BY <1>0, RemovedIsTheOnlyOne
  <2>2. EntriesOf(disk', k) \subseteq EntriesOf(disk, k)
    BY <1>5 DEF EntriesOf, ResolvedAt
  <2>3. EntriesOf(disk, k) \subseteq EntriesOf(disk', k)
    <3> SUFFICES ASSUME NEW m \in DOMAIN disk.resolved, disk.resolved[m].item.key = k
                 PROVE  disk.resolved[m] \in EntriesOf(disk', k)
      BY DEF EntriesOf, ResolvedAt
    <3>1. m # i
      BY <1>1
    <3> QED
      BY <2>1, <3>1 DEF EntriesOf, ResolvedAt
  <2> QED
    BY <2>2, <2>3
<1>8. Told' = [Told EXCEPT ![k0] = [phase |-> "open", content |-> it.content, sev |-> it.sev]]
  BY <1>1, <1>6, <1>7, OneKeyChanges
<1>9. Told[k0].phase = "fixed" /\ Told' = [Told EXCEPT ![k0].phase = "open"]
  <2>1. [Told[k0] EXCEPT !.phase = "open"] =
          [phase |-> "open", content |-> it.content, sev |-> it.sev]
    BY <1>4
  <2>2. [Told EXCEPT ![k0].phase = "open"] =
          [Told EXCEPT ![k0] = [Told[k0] EXCEPT !.phase = "open"]]
    OBVIOUS
  <2>3. Told[k0].phase = "fixed"
    BY <1>4
  <2> QED
    BY <1>8, <2>1, <2>2, <2>3, Zenon
<1>10. Ledger!Reopen(k0)
  BY <1>9 DEF Ledger!Reopen, Told
<1> QED
  BY <1>1, <1>10

LEMMA HandDeleteStrikes ==
  ASSUME KeysInv, FilesInv', NEW k0 \in Keys, HandDelete(k0)
  PROVE  Ledger!Strike(k0) /\ birth[k0] # NoContent
<1>0. disk \in Stores /\ UniqueKeys /\ FilesInv
      /\ birth \in [Keys -> Contents \cup {NoContent}]
  BY DEF KeysInv, FilesInv, HoldInv, TypeOK
<1>1. /\ disk'.open = disk.open \ OpenItems(disk, k0)
      /\ disk'.resolved = disk.resolved
      /\ deleted' = deleted \cup {k0}
      /\ ~IsResolved(disk, k0)
  BY <1>0 DEF HandDelete, WithoutOpen, Stores
<1>2. PICK it \in disk.open : it.key = k0
  BY DEF HandDelete, OpenItems
<1>3. birth[k0] # NoContent
  BY <1>0, <1>2, IssueStoreAssumption DEF KeysInv, KeyNamesOneFinding, Stores, Items
<1>4. Told[k0] = [phase |-> "open", content |-> it.content, sev |-> it.sev]
  BY <1>0, <1>1, <1>2, HistoryNow DEF Tells, TellsOpen
<1>5. Tells(disk, deleted, k0, [phase |-> "deleted", content |-> NoContent, sev |-> 0])'
  BY <1>1 DEF Tells, TellsGone, IsResolved, ResolvedAt, OpenItems
<1>6. \A k \in Keys \ {k0} : ItemHistory(k)' = ItemHistory(k)
  BY <1>0, <1>1, UntouchedKey DEF EntriesOf, ResolvedAt, OpenItems
<1>7. Told' = [Told EXCEPT ![k0] = [phase |-> "deleted", content |-> NoContent, sev |-> 0]]
  BY <1>0, <1>5, <1>6, OneKeyChanges
<1>8. [Ledger!Unused EXCEPT !.phase = "deleted"] =
        [phase |-> "deleted", content |-> NoContent, sev |-> 0]
  BY DEF Ledger!Unused
<1>9. Told' = [Told EXCEPT ![k0] = [Ledger!Unused EXCEPT !.phase = "deleted"]]
  BY <1>7, <1>8, Zenon
<1>10. Told[k0].phase = "open"
  BY <1>4
<1> QED
  BY <1>3, <1>9, <1>10 DEF Ledger!Strike, Told

LEMMA NextTold ==
  ASSUME KeysAreKept, LedgerInv, [Next]_vars
  PROVE  LedgerInv' /\ [Ledger!Next]_Told
<1>1. /\ KeysInv /\ FilesInv /\ FilesInv' /\ KeysInv' /\ Effect
  BY NextFiles, NextHold, NextKeys DEF LedgerInv, KeysInv, FilesInv
<1>2. ASSUME disk'.open = disk.open, disk'.resolved = disk.resolved, deleted' = deleted
      PROVE  Told' = Told
  BY <1>1, <1>2, UntouchedKey DEF Told, EntriesOf, ResolvedAt, OpenItems
<1>3. CASE AddsNew
  <2>1. \E k \in Keys, c \in Contents, sev \in Severities : Ledger!Open(k, c, sev)
    BY <1>1, <1>3, AddsNewOpens
  <2>2. \A k \in deleted' : birth'[k] # NoContent
    BY <1>1, <1>3 DEF AddsNew, LedgerInv, FilesInv, HoldInv, TypeOK
  <2> QED
    BY <1>1, <2>1, <2>2 DEF LedgerInv, Ledger!Next
<1>4. CASE AddsBack \/ DropsOpen
  <2>1. Told' = Told
    BY <1>1, <1>4, CopiesAreUnseen
  <2> QED
    BY <1>1, <1>4, <2>1 DEF LedgerInv, AddsBack, DropsOpen, NextAndHistorySame
<1>5. CASE RewritesOpen
  <2>1. Told' = Told \/ \E k \in Keys, sev \in Severities : Ledger!Resever(k, sev)
    BY <1>1, <1>5, RewriteIsUnseenOrResevers
  <2>2. LedgerInv'
    BY <1>1, <1>5 DEF LedgerInv, RewritesOpen, NextAndHistorySame
  <2> QED
    BY <2>1, <2>2 DEF Ledger!Next
<1>6. CASE AppendsResolved
  <2>1. \E k \in Keys, how \in Resolutions : Ledger!Settle(k, how)
    BY <1>1, <1>6, AppendsResolvedSettles
  <2>2. LedgerInv'
    BY <1>1, <1>6 DEF LedgerInv, AppendsResolved, NextAndHistorySame
  <2> QED
    BY <2>1, <2>2 DEF Ledger!Next
<1>7. CASE DropsResolved
  <2>1. \E k \in Keys : Ledger!Reopen(k)
    BY <1>1, <1>7, DropsResolvedReopens
  <2>2. LedgerInv'
    BY <1>1, <1>7 DEF LedgerInv, DropsResolved, NextAndHistorySame
  <2> QED
    BY <2>1, <2>2 DEF Ledger!Next
<1>8. CASE RaisesNext \/ LeavesFiles
  <2>1. Told' = Told
    BY <1>2, <1>8 DEF RaisesNext, LeavesFiles
  <2> QED
    BY <1>1, <1>8, <2>1 DEF LedgerInv, RaisesNext, LeavesFiles
<1>9. CASE HandEdit
  <2>1. PICK k \in Keys : HandDelete(k)
    BY <1>9 DEF HandEdit, HandSetNext, KeysAreKept, NextIsKept
  <2>2. Ledger!Strike(k) /\ birth[k] # NoContent
    BY <1>1, <2>1, HandDeleteStrikes
  <2>3. LedgerInv'
    BY <1>1, <2>1, <2>2 DEF LedgerInv, HandDelete
  <2> QED
    BY <2>2, <2>3 DEF Ledger!Next
<1> QED
  BY <1>1, <1>3, <1>4, <1>5, <1>6, <1>7, <1>8, <1>9 DEF Effect, VerbEffect

LEMMA InitTold == Init => LedgerInv /\ Ledger!Init
<1> SUFFICES ASSUME Init
             PROVE  LedgerInv /\ Ledger!Init
  OBVIOUS
<1>1. LedgerInv
  BY InitKeys DEF LedgerInv, Init
<1>2. disk.open = {} /\ DOMAIN disk.resolved = {} /\ deleted = {}
  BY DEF Init, EmptyStore
<1>3. \A k \in Keys : Told[k] = [phase |-> "unused", content |-> NoContent, sev |-> 0]
  BY <1>1, <1>2, HistoryNow
     DEF LedgerInv, KeysInv, Tells, TellsGone, IsResolved, ResolvedAt, OpenItems
<1> QED
  BY <1>1, <1>3 DEF Ledger!Init, Ledger!Unused, Told

\* What a reader sees who looks a key up, resolved file first, is a step of the
\* ledger for every step of the verbs: crashes, second saves, interrupted
\* copies and hand deletions included.
THEOREM FilesImplementTheLedger == KeysAreKept => (Spec => ImplementsLedger)
<1> SUFFICES ASSUME KeysAreKept
             PROVE  Spec => ImplementsLedger
  OBVIOUS
<1>1. Init => LedgerInv /\ Ledger!Init
  BY InitTold
<1>2. LedgerInv /\ [Next]_vars => LedgerInv' /\ [Ledger!Next]_Told
  BY NextTold
<1> QED
  BY <1>1, <1>2, PTL DEF Spec, ImplementsLedger, Ledger!Spec, Told
=============================================================================
