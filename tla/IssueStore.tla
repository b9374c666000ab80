----------------------------- MODULE IssueStore -----------------------------
(***************************************************************************)
(* The two backlog files of pm_status/issues/store.py and the verbs that   *)
(* write them: issues.yaml (the open items and the per-epic high-water     *)
(* `next`) and issues-resolved.yaml.                                       *)
(*                                                                         *)
(* A verb takes issues_lock, loads both files into an IssueStore, changes  *)
(* that copy and saves each file whole.  Resolving and reopening write     *)
(* both files, one after the other, and the process may die in between.    *)
(* One hold of the lock may carry several of these bodies (the done hook   *)
(* resolves every key of a story in one hold), so a body leaves the        *)
(* process "loaded" and Release is a step of its own.                      *)
(*                                                                         *)
(* The story nodes are not part of this module: they are written without   *)
(* this lock, so a gate that reads them (audit findings 1b, 1d, 1g, 1j) is *)
(* left open here.  Module Backlog adds the nodes and those gates, and     *)
(* every step it takes on the files is a step of this module.              *)
(***************************************************************************)
EXTENDS Naturals, FiniteSets, Sequences, SequencesExt

CONSTANTS
  Procs,            \* the command-line processes that run issue verbs
  Epics,            \* epic ids a key can carry
  LastSuffix,       \* the highest suffix a key can name (999 in the code)
  Contents,         \* normalised title + epic + sprint + source
  EpicOf,           \* the epic of a content
  Severities,       \* ranks (0..3 in the code)
  Kinds,            \* "defect" and the spec kinds
  Resolutions,      \* the resolutions callers use
  Stories,          \* story keys
  ExplicitSuffixes, \* suffixes callers pass to append-issue --key
  HandEdits,        \* what people edit by hand: subset of {"delete", "next"}
  CanCrash          \* whether a process may die in the middle of a verb

CONSTANTS NoProc, NoStory, NoKey, NoContent, Commit

ASSUME IssueStoreAssumption ==
  /\ NoProc \notin Procs
  /\ NoStory \notin Stories
  /\ LastSuffix \in Nat
  /\ EpicOf \in [Contents -> Epics]
  /\ NoContent \notin Contents
  /\ Severities \subseteq Nat
  /\ Kinds \subseteq {"defect", "spec"}
  /\ Resolutions \subseteq {"fixed", "wontfix", "duplicate", "obsolete", "deferred"}
  /\ ExplicitSuffixes \subseteq 1..LastSuffix
  /\ HandEdits \subseteq {"delete", "next"}
  /\ CanCrash \in BOOLEAN
  /\ Commit \notin Stories
  /\ NoKey \notin Epics \X (1..LastSuffix)

Keys == Epics \X (1..LastSuffix)

\* What a resolution may point at: the story or commit that fixed the item,
\* or the backlog key that survives a duplicate.
Refs == Stories \cup {Commit} \cup Keys

Items ==
  [key : Keys, content : Contents, sev : Severities, kind : Kinds,
   status : {"backlog", "scheduled"}, story : Stories \cup {NoStory}]

\* A resolved entry keeps every field of the item it was.
Entries == [item : Items, how : Resolutions, ref : Refs \cup {NoKey}]

Stores ==
  [open : SUBSET Items, resolved : Seq(Entries), next : [Epics -> Nat]]

EmptyStore == [open |-> {}, resolved |-> << >>, next |-> [e \in Epics |-> 0]]

VARIABLES
  disk,     \* the two files: open and next are issues.yaml, resolved the other
  holder,   \* the process in issues_lock
  pc,       \* per process: "idle", "loaded", or the save it still owes
  mem,      \* per process: its loaded IssueStore
  cur,      \* per process: the key whose second save is owed
  birth,    \* history: the content each key was first given to
  deleted   \* history: the keys of items a person deleted

vars == <<disk, holder, pc, mem, cur, birth, deleted>>

-----------------------------------------------------------------------------
(* Lookups, all by key or by content.                                       *)

OpenItems(st, k) == {it \in st.open : it.key = k}
ResolvedAt(st, k) == {i \in DOMAIN st.resolved : st.resolved[i].item.key = k}
IsResolved(st, k) == ResolvedAt(st, k) # {}

\* single_open: the one open item with this key; a key that appears twice
\* refuses, so no verb acts on it.
IsSingleOpen(st, k, it) == OpenItems(st, k) = {it}

\* Mutant of IsUnresolvedOpen: the resolved file is not looked at first.
IsOpen(st, it) == IsSingleOpen(st, it.key, it)

\* Ruling 8: resolved is checked first, so a stale open copy is never acted on.
IsUnresolvedOpen(st, it) ==
  ~IsResolved(st, it.key) /\ IsSingleOpen(st, it.key, it)

KeysIn(st) ==
  {it.key : it \in st.open} \cup
  {st.resolved[i].item.key : i \in DOMAIN st.resolved}

\* allocate: n = max(stored next or 1, highest suffix in either file + 1).
IsNextSuffix(st, e, n) ==
  LET stored == IF st.next[e] = 0 THEN 1 ELSE st.next[e]
      used   == {k \in KeysIn(st) : k[1] = e}
  IN  /\ n >= stored
      /\ \A k \in used : n > k[2]
      /\ n = stored \/ \E k \in used : n = k[2] + 1

\* Mutant of RaiseNext: nothing is stored.
RaiseNextNever(next, e, atLeast) == next

\* raise_next: store max(what is stored, at_least).
RaiseNext(next, e, atLeast) ==
  [next EXCEPT ![e] = IF @ < atLeast THEN atLeast ELSE @]

\* append-issue without --allow-duplicate writes nothing when an open item has
\* the same content, or when the newest resolved one was closed on purpose and
\* the finding is no more severe now.
IsSuppressed(st, c, sev) ==
  \/ \E it \in st.open : it.content = c
  \/ \E i \in DOMAIN st.resolved :
       /\ st.resolved[i].item.content = c
       /\ \A j \in DOMAIN st.resolved : st.resolved[j].item.content = c => j <= i
       /\ st.resolved[i].how # "fixed"
       /\ sev <= st.resolved[i].item.sev

\* Mutant of RefAllowed: a key closed as a duplicate is pointed at too.
RefAllowedAnyKey(st, k, how, ref) ==
  CASE how = "fixed"     -> ref \in Stories \cup {Commit}
    [] how = "duplicate" -> ref \in KeysIn(st) \ {k}
    [] OTHER             -> ref = NoKey

\* What a resolution needs: `fixed` a story or a commit, `duplicate` another
\* key that exists and is not itself closed as a duplicate, the rest a note; a
\* ref given with the rest is read by nothing, so NoKey stands for it.
RefAllowed(st, k, how, ref) ==
  CASE how = "fixed"     -> ref \in Stories \cup {Commit}
    [] how = "duplicate" ->
         /\ ref \in Keys \ {k}
         /\ \/ OpenItems(st, ref) # {}
            \/ \E i \in ResolvedAt(st, ref) : st.resolved[i].how # "duplicate"
    [] OTHER             -> ref = NoKey
-----------------------------------------------------------------------------
(* The lock and the loaded copy.                                            *)

Init ==
  /\ disk = EmptyStore
  /\ holder = NoProc
  /\ pc = [p \in Procs |-> "idle"]
  /\ mem = [p \in Procs |-> EmptyStore]
  /\ cur = [p \in Procs |-> NoKey]
  /\ birth = [k \in Keys |-> NoContent]
  /\ deleted = {}

LockIsFree == holder = NoProc

\* issues_lock is taken and both files are loaded under it.
Acquire(p) ==
  /\ pc[p] = "idle"
  /\ LockIsFree
  /\ holder' = p
  /\ pc' = [pc EXCEPT ![p] = "loaded"]
  /\ mem' = [mem EXCEPT ![p] = disk]
  /\ UNCHANGED <<disk, cur, birth, deleted>>

\* Mutant of Leave: the lock is not given back.
LeaveInTheLock(p) ==
  /\ pc' = [pc EXCEPT ![p] = "idle"]
  /\ mem' = [mem EXCEPT ![p] = EmptyStore]
  /\ cur' = [cur EXCEPT ![p] = NoKey]
  /\ UNCHANGED <<disk, holder, birth, deleted>>

Leave(p) ==
  /\ holder' = NoProc
  /\ pc' = [pc EXCEPT ![p] = "idle"]
  /\ mem' = [mem EXCEPT ![p] = EmptyStore]
  /\ cur' = [cur EXCEPT ![p] = NoKey]
  /\ UNCHANGED <<disk, birth, deleted>>

Release(p) == pc[p] = "loaded" /\ Leave(p)

\* The process dies, or a save raises: the kernel drops the flock and what was
\* not saved is gone.
Crash(p) == CanCrash /\ pc[p] # "idle" /\ Leave(p)

\* save_open replaces issues.yaml with the loaded backlog and next,
\* save_resolved the other file with the loaded list.
SaveOpen(st) == disk' = [disk EXCEPT !.open = st.open, !.next = st.next]
SaveResolved(st) == disk' = [disk EXCEPT !.resolved = st.resolved]

\* A body that saves issues.yaml once and leaves p loaded.
OpenFileBody(p, st) ==
  /\ mem' = [mem EXCEPT ![p] = st]
  /\ SaveOpen(st)
  /\ UNCHANGED <<holder, pc, cur, deleted>>

-----------------------------------------------------------------------------
(* append-issue                                                             *)

NewItem(k, c, sev, kind) ==
  [key |-> k, content |-> c, sev |-> sev, kind |-> kind,
   status |-> "backlog", story |-> NoStory]

AppendAs(p, k, c, sev, kind) ==
  /\ OpenFileBody(p, [mem[p] EXCEPT !.open = @ \cup {NewItem(k, c, sev, kind)},
                                    !.next = RaiseNext(@, k[1], k[2] + 1)])
  /\ birth' = [birth EXCEPT ![k] = IF @ = NoContent THEN c ELSE @]

AppendAllocated(p, c, sev, kind, allowDuplicate) ==
  /\ pc[p] = "loaded"
  /\ allowDuplicate \/ ~IsSuppressed(mem[p], c, sev)
  /\ \E n \in 1..LastSuffix :
       /\ IsNextSuffix(mem[p], EpicOf[c], n)
       /\ AppendAs(p, <<EpicOf[c], n>>, c, sev, kind)

AppendExplicit(p, c, sev, kind, allowDuplicate, n) ==
  /\ pc[p] = "loaded"
  /\ <<EpicOf[c], n>> \notin KeysIn(mem[p])
  /\ allowDuplicate \/ ~IsSuppressed(mem[p], c, sev)
  /\ AppendAs(p, <<EpicOf[c], n>>, c, sev, kind)

-----------------------------------------------------------------------------
(* resolve-issue: the entry is saved first and the open item dropped second. *)

ResolveAppend(p, it, how, ref) ==
  /\ pc[p] = "loaded"
  /\ IsUnresolvedOpen(mem[p], it)
  /\ RefAllowed(mem[p], it.key, how, ref)
  /\ LET st == [mem[p] EXCEPT !.resolved =
                  Append(@, [item |-> it, how |-> how, ref |-> ref])]
     IN  /\ mem' = [mem EXCEPT ![p] = st]
         /\ SaveResolved(st)
  /\ pc' = [pc EXCEPT ![p] = "dropOpen"]
  /\ cur' = [cur EXCEPT ![p] = it.key]
  /\ UNCHANGED <<holder, birth, deleted>>

WithoutOpen(st, k) == [st EXCEPT !.open = @ \ OpenItems(st, k)]

ResolveDrop(p) ==
  /\ pc[p] = "dropOpen"
  /\ mem' = [mem EXCEPT ![p] = WithoutOpen(@, cur[p])]
  /\ SaveOpen(mem'[p])
  /\ pc' = [pc EXCEPT ![p] = "loaded"]
  /\ cur' = [cur EXCEPT ![p] = NoKey]
  /\ UNCHANGED <<holder, birth, deleted>>

\* A rerun on a key that is already resolved keeps the entry and clears the
\* open copy an interrupted call left behind.
ResolveRerun(p, it) ==
  /\ pc[p] = "loaded"
  /\ IsResolved(mem[p], it.key)
  /\ IsSingleOpen(mem[p], it.key, it)
  /\ OpenFileBody(p, WithoutOpen(mem[p], it.key))
  /\ UNCHANGED birth

-----------------------------------------------------------------------------
(* The verbs that rewrite an open item in place.                            *)

Rewritten(st, olds, news) == [st EXCEPT !.open = (@ \ olds) \cup news]

Update(p, it, sev) ==
  /\ pc[p] = "loaded"
  /\ IsUnresolvedOpen(mem[p], it)
  /\ it.sev # sev
  /\ OpenFileBody(p, Rewritten(mem[p], {it}, {[it EXCEPT !.sev = sev]}))
  /\ UNCHANGED birth

ScheduledTo(it, s) == [it EXCEPT !.status = "scheduled", !.story = s]

IsSchedulable(st, it) ==
  /\ IsUnresolvedOpen(st, it)
  /\ it.kind = "defect"
  /\ it.status = "backlog"

\* The last save of promote-issue and of schedule-issue.
Schedule(p, items, s) ==
  /\ pc[p] = "loaded"
  /\ items # {}
  /\ \A it \in items : IsSchedulable(mem[p], it)
  /\ OpenFileBody(p, Rewritten(mem[p], items, {ScheduledTo(it, s) : it \in items}))
  /\ UNCHANGED birth

\* repair-issue --action link (1d) and --action unschedule (1b, 1g).
Link(p, it, s) ==
  /\ pc[p] = "loaded"
  /\ IsUnresolvedOpen(mem[p], it)
  /\ it.status = "backlog"
  /\ OpenFileBody(p, Rewritten(mem[p], {it}, {ScheduledTo(it, s)}))
  /\ UNCHANGED birth

Unschedule(p, it) ==
  /\ pc[p] = "loaded"
  /\ IsUnresolvedOpen(mem[p], it)
  /\ it.status = "scheduled"
  /\ OpenFileBody(p, Rewritten(mem[p], {it},
       {[it EXCEPT !.status = "backlog", !.story = NoStory]}))
  /\ UNCHANGED birth

-----------------------------------------------------------------------------
(* repair-issue --action reopen (1j): the item is added back first and its  *)
(* resolved entry dropped second.                                           *)

IsNewestResolved(st, k, i) ==
  /\ i \in ResolvedAt(st, k)
  /\ \A j \in ResolvedAt(st, k) : j <= i

\* Mutant of WithoutResolved: the last entry is dropped, whoever's it is.
WithoutLastResolved(st, i) == [st EXCEPT !.resolved = Front(@)]

WithoutResolved(st, i) == [st EXCEPT !.resolved = RemoveAt(@, i)]

IsReopenable(st, k, i) ==
  /\ IsNewestResolved(st, k, i)
  /\ st.resolved[i].how = "fixed"
  /\ st.resolved[i].ref \in Stories

ReopenAdd(p, k, i) ==
  /\ pc[p] = "loaded"
  /\ IsReopenable(mem[p], k, i)
  /\ OpenItems(mem[p], k) = {}
  /\ LET e == mem[p].resolved[i]
         st == [mem[p] EXCEPT !.open = @ \cup {ScheduledTo(e.item, e.ref)}]
     IN  mem' = [mem EXCEPT ![p] = st] /\ SaveOpen(st)
  /\ pc' = [pc EXCEPT ![p] = "dropResolved"]
  /\ cur' = [cur EXCEPT ![p] = k]
  /\ UNCHANGED <<holder, birth, deleted>>

DropResolved(p, k) ==
  /\ \E i \in DOMAIN mem[p].resolved :
       /\ IsNewestResolved(mem[p], k, i)
       /\ mem' = [mem EXCEPT ![p] = WithoutResolved(@, i)]
  /\ SaveResolved(mem'[p])
  /\ pc' = [pc EXCEPT ![p] = "loaded"]
  /\ cur' = [cur EXCEPT ![p] = NoKey]
  /\ UNCHANGED <<holder, birth, deleted>>

ReopenDrop(p) == pc[p] = "dropResolved" /\ DropResolved(p, cur[p])

\* An open copy is already there (an interrupted reopen or resolve left it):
\* only the entry is dropped.
ReopenRerun(p, k, i) ==
  /\ pc[p] = "loaded"
  /\ IsReopenable(mem[p], k, i)
  /\ OpenItems(mem[p], k) # {}
  /\ DropResolved(p, k)

\* repair-issue --action reseed (1e): a stored next at or below a used suffix
\* is raised to the highest suffix + 1.
Reseed(p, e) ==
  /\ pc[p] = "loaded"
  /\ LET used == {k[2] : k \in {k \in KeysIn(mem[p]) : k[1] = e}}
         stored == mem[p].next[e]
     IN  /\ stored # 0
         /\ \E n \in used :
              /\ stored <= n
              /\ \A m \in used : m <= n
              /\ OpenFileBody(p, [mem[p] EXCEPT !.next[e] = n + 1])
  /\ UNCHANGED birth

-----------------------------------------------------------------------------
(* People edit the files too, while no command runs.                        *)

HandDelete(k) ==
  /\ "delete" \in HandEdits
  /\ holder = NoProc
  /\ OpenItems(disk, k) # {} /\ ~IsResolved(disk, k)
  /\ disk' = WithoutOpen(disk, k)
  /\ deleted' = deleted \cup {k}
  /\ UNCHANGED <<holder, pc, mem, cur, birth>>

HandSetNext(e, n) ==
  /\ "next" \in HandEdits
  /\ holder = NoProc
  /\ disk' = [disk EXCEPT !.next[e] = n]
  /\ UNCHANGED <<holder, pc, mem, cur, birth, deleted>>

-----------------------------------------------------------------------------
AppendStep(p) ==
  \E c \in Contents, sev \in Severities, kind \in Kinds, dup \in BOOLEAN :
    \/ AppendAllocated(p, c, sev, kind, dup)
    \/ \E n \in ExplicitSuffixes : AppendExplicit(p, c, sev, kind, dup, n)

ResolveStep(p) ==
  \/ \E it \in mem[p].open :
       \/ \E how \in Resolutions, ref \in Refs \cup {NoKey} :
            ResolveAppend(p, it, how, ref)
       \/ ResolveRerun(p, it)
  \/ ResolveDrop(p)

RewriteStep(p) ==
  \/ \E it \in mem[p].open :
       \/ \E sev \in Severities : Update(p, it, sev)
       \/ \E s \in Stories : Link(p, it, s)
       \/ Unschedule(p, it)
  \/ \E items \in SUBSET mem[p].open, s \in Stories : Schedule(p, items, s)

ReopenStep(p) ==
  \/ \E k \in Keys, i \in DOMAIN mem[p].resolved :
       ReopenAdd(p, k, i) \/ ReopenRerun(p, k, i)
  \/ ReopenDrop(p)

ProcStep(p) ==
  \/ Acquire(p) \/ Release(p) \/ Crash(p)
  \/ AppendStep(p) \/ ResolveStep(p) \/ RewriteStep(p) \/ ReopenStep(p)
  \/ \E e \in Epics : Reseed(p, e)

HandEdit ==
  \/ \E k \in Keys : HandDelete(k)
  \/ \E e \in Epics, n \in 0..(LastSuffix + 2) : HandSetNext(e, n)

Next == (\E p \in Procs : ProcStep(p)) \/ HandEdit

Spec == Init /\ [][Next]_vars

-----------------------------------------------------------------------------
(* Invariants.                                                              *)

\* The shape of every variable.
TypeOK ==
  /\ disk \in Stores
  /\ holder \in Procs \cup {NoProc}
  /\ pc \in [Procs -> {"idle", "loaded", "dropOpen", "dropResolved"}]
  /\ mem \in [Procs -> Stores]
  /\ cur \in [Procs -> Keys \cup {NoKey}]
  /\ birth \in [Keys -> Contents \cup {NoContent}]
  /\ deleted \in SUBSET Keys

\* No lost update: a process past its load is the one in issues_lock and its
\* IssueStore is what the files hold, so a whole-file save drops nobody's
\* change (status-files.md 9, "locking only the save is not sufficient").
LoadedIsCurrent ==
  \A p \in Procs : pc[p] # "idle" => holder = p /\ mem[p] = disk

\* Audit finding 1i never arises from the verbs: a key names at most one item
\* in each file, whatever crashed in between, so single_open never refuses.
UniqueKeys ==
  /\ \A a, b \in disk.open : a.key = b.key => a = b
  /\ \A i, j \in DOMAIN disk.resolved :
       disk.resolved[i].item.key = disk.resolved[j].item.key => i = j

\* resolve_issue_core and repair-issue reopen: a crash between their two saves
\* can duplicate an item but never lose it.
NothingLost ==
  \A k \in Keys : birth[k] # NoContent /\ k \notin deleted => k \in KeysIn(disk)

\* allocate: a key is never handed to a second finding, also after the item it
\* named was resolved or deleted by hand.
KeyNamesOneFinding ==
  /\ \A it \in disk.open : it.content = birth[it.key]
  /\ \A i \in DOMAIN disk.resolved :
       disk.resolved[i].item.content = birth[disk.resolved[i].item.key]

\* The two copies a crash can leave tell the same story: nothing re-severities
\* the stale open copy, so it does not matter which one a rerun keeps.
CopiesAgree ==
  \A it \in disk.open : \A i \in ResolvedAt(disk, it.key) :
    /\ it.content = disk.resolved[i].item.content
    /\ it.sev = disk.resolved[i].item.sev

\* resolve-issue --resolution duplicate: following the surviving keys never
\* runs in a circle, so a duplicate always leads to an item that was judged.
ClosedAsDuplicateOf(k, D) ==
  \E i \in ResolvedAt(disk, k) :
    disk.resolved[i].how = "duplicate" /\ disk.resolved[i].ref \in D

DuplicatesLeadToASurvivor ==
  \A D \in SUBSET Keys : D # {} => \E k \in D : ~ClosedAsDuplicateOf(k, D)

\* status-files.md 4: next is a high-water mark that never decreases; what is
\* left out is a person who edits it while no command is in issues_lock.
NextNeverDecreases ==
  [][holder # NoProc => \A e \in Epics : disk'.next[e] >= disk.next[e]]_vars

-----------------------------------------------------------------------------
(* What a reader sees who looks a key up in the resolved file first.        *)

HistoryIn(st, struck, k) ==
  CASE IsResolved(st, k) ->
         LET e == st.resolved[CHOOSE i \in DOMAIN st.resolved : IsNewestResolved(st, k, i)]
         IN  [phase |-> e.how, content |-> e.item.content, sev |-> e.item.sev]
    [] ~IsResolved(st, k) /\ OpenItems(st, k) # {} ->
         LET it == CHOOSE it \in OpenItems(st, k) : TRUE
         IN  [phase |-> "open", content |-> it.content, sev |-> it.sev]
    [] OTHER ->
         [phase |-> IF k \in struck THEN "deleted" ELSE "unused",
          content |-> NoContent, sev |-> 0]

ItemHistory(k) == HistoryIn(disk, deleted, k)

\* The files implement the ledger: each key opens once, is settled, may be
\* reopened with the same finding and severity, and never opens again after a
\* deletion.
Ledger == INSTANCE BacklogLedger WITH ledger <- [k \in Keys |-> ItemHistory(k)]

ImplementsLedger == Ledger!Spec
=============================================================================
