--------------------------------- MODULE Reorg ---------------------------------
(***************************************************************************)
(* A reorg of the planned work: a target says where every planned story    *)
(* belongs and which epics are retired; the validator accepts or refuses   *)
(* it, the derivation turns it into operations, a session applies them one *)
(* command at a time, the journal records them with a digest of the plan   *)
(* and an undo runs them backwards if the digest still matches.            *)
(*                                                                         *)
(* Each command is one step here: StoryKeys has the steps of a re-parent   *)
(* and EpicTree those of a move-epic.  Other sessions work on the plan     *)
(* between the steps.                                                      *)
(***************************************************************************)
EXTENDS Integers, Sequences, SequencesExt, FiniteSets

CONSTANTS
  Works,     \* pieces of work: a story keeps its work when its key changes
  Needs,     \* per work: the works it depends on, without a cycle
  Sprints,   \* <<epic, number>> of the sprints there are or may be
  MaxNum,    \* bound on story numbers
  Orders,    \* the `order` values a target uses
  NoOrder,   \* of a row without `order`
  Start,     \* per work: its key at the start, or Unborn
  Drifts,    \* what other sessions do to the plan meanwhile
  Unborn     \* of a work that is no story yet

Epics == {s[1] : s \in Sprints}
Keys == {<<s[1], s[2], n>> : s \in Sprints, n \in 1..MaxNum}
SprintOf(key) == <<key[1], key[2]>>

ASSUME ReorgAssumption ==
  /\ Sprints \subseteq Nat \X Nat /\ IsFiniteSet(Sprints) /\ MaxNum \in Nat
  /\ Orders \subseteq Nat /\ NoOrder \notin Orders
  /\ Unborn \notin Keys
  /\ Start \in [Works -> Keys \cup {Unborn}]
  /\ \A v, w \in Works : Start[v] = Start[w] /\ Start[v] # Unborn => v = w
  /\ Needs \in [Works -> SUBSET {w \in Works : Start[w] # Unborn}]
  /\ Drifts \subseteq {"reparent-story", "promote-issue", "activate"}

EpicFolders == {"active", "planned", "archived"}

VARIABLES
  at,       \* per work: its story's key
  folder,   \* per epic: the status folder of its directory
  reasons,  \* the epics that carry a retired_reason
  sprints,  \* the sprints that exist
  next,     \* per sprint: the high-water mark of its story numbers
  target,   \* the target file: rows by story key, and the epics to retire
  ops,      \* the derived operations that have not been applied
  done,     \* the applied ones, with what the journal needs of them
  stage,    \* where the session stands
  entry,    \* the journal entry: post_hash and whether an undo was started
  drift,    \* history: the stage in which the reorg was disturbed, once at most
  was       \* history: the story keys when the target was accepted

plan == <<at, folder, reasons, sprints, next>>
reorgVars == <<at, folder, reasons, sprints, next, target, ops, done, stage, entry, drift, was>>

NoTarget == [rows |-> <<>>, retire |-> {}]
NoEntry == [hash |-> <<>>, started |-> FALSE]

Stages == {"idle", "applying", "refused", "stopped", "hashing", "recording", "recorded",
           "undoing", "undone", "undorefused", "rediffed"}

IsPlanned(w) == at[w] # Unborn /\ folder[at[w][1]] = "planned"
PlannedKeys == {at[w] : w \in {v \in Works : IsPlanned(v)}}
WorkAt(key) == CHOOSE w \in Works : at[w] = key
PlannedSprints == {s \in sprints : folder[s[1]] = "planned"}

ReorgInit ==
  /\ at = Start
  /\ folder = [e \in Epics |-> "planned"]
  /\ reasons = {}
  /\ sprints = {SprintOf(Start[w]) : w \in {v \in Works : Start[v] # Unborn}}
  /\ next = [s \in Sprints |-> 0]
  /\ target = NoTarget /\ ops = <<>> /\ done = <<>>
  /\ stage = "idle" /\ entry = NoEntry
  /\ drift = "none" /\ was = Start

Larger(a, b) == IF a > b THEN a ELSE b

-----------------------------------------------------------------------------
(* The commands.                                                            *)

\* _next_story_key.
Highest(s) ==
  LET used == {0} \cup {at[w][3] : w \in {v \in Works : at[v] # Unborn /\ SprintOf(at[v]) = s}}
  IN  CHOOSE m \in used : \A n \in used : n <= m

Allocated(s) == Larger(next[s], Highest(s) + 1)

CanReparent(key, to) ==
  /\ key \in PlannedKeys
  /\ to \in PlannedSprints

\* What reparent-story makes of the plan; the story keeps its key when it is
\* where it should go.
NewKey(key, to) ==
  IF SprintOf(key) = to THEN key ELSE <<to[1], to[2], Allocated(to)>>

DoReparent(key, to) ==
  /\ SprintOf(key) # to => Allocated(to) <= MaxNum
  /\ at' = [at EXCEPT ![WorkAt(key)] = NewKey(key, to)]
  /\ next' = IF SprintOf(key) = to THEN next
             ELSE [next EXCEPT ![SprintOf(key)] = Larger(@, key[3] + 1),
                               ![to] = Allocated(to) + 1]
  /\ UNCHANGED <<folder, reasons, sprints>>

\* retire-epic: move-epic to archived/, and then the reason.
DoRetire(e) ==
  /\ folder' = [folder EXCEPT ![e] = "archived"]
  /\ reasons' = reasons \cup {e}
  /\ UNCHANGED <<at, sprints, next>>

\* Mutant of DoUnretire: the reason stays behind.
DoUnretireOnly(e) ==
  /\ folder' = [folder EXCEPT ![e] = "planned"]
  /\ UNCHANGED <<at, reasons, sprints, next>>

\* The way back: move-epic to the folder it came from, and the reason goes.
DoUnretire(e) ==
  /\ folder' = [folder EXCEPT ![e] = "planned"]
  /\ reasons' = reasons \ {e}
  /\ UNCHANGED <<at, sprints, next>>

-----------------------------------------------------------------------------
(* reorg-validate.py.                                                       *)

Gone(t) == {at[w] : w \in {v \in Works : IsPlanned(v) /\ at[v][1] \in t.retire}}

\* Every planned story is placed once, or goes with its epic.
IsTotal(t) ==
  /\ DOMAIN t.rows \subseteq PlannedKeys
  /\ \A e \in t.retire : folder[e] = "planned"
  /\ \A key \in PlannedKeys : key \in DOMAIN t.rows <=> key \notin Gone(t)

\* Mutant of DestinationsStand: a story may be placed in an epic that goes.
DestinationsStandNow(t) == \A key \in DOMAIN t.rows : folder[t.rows[key].to[1]] = "planned"

DestinationsStand(t) ==
  \A key \in DOMAIN t.rows :
    folder[t.rows[key].to[1]] = "planned" /\ t.rows[key].to[1] \notin t.retire

NothingLeftHanging(t) ==
  \A w \in Works : IsPlanned(w) /\ at[w] \notin Gone(t) =>
    \A v \in Needs[w] : at[v] \notin Gone(t)

\* Sprints of an epic run one after the other; in a sprint `order` counts, if both
\* rows have one.
IsOrdered(t) ==
  \A w \in Works : \A v \in Needs[w] :
    (at[w] \in DOMAIN t.rows /\ at[v] \in DOMAIN t.rows) =>
      LET r == t.rows[at[w]]
          d == t.rows[at[v]]
      IN  r.to[1] = d.to[1] =>
            /\ d.to[2] <= r.to[2]
            /\ d.to = r.to /\ NoOrder \notin {d.order, r.order} => d.order < r.order

Accepts(t) == IsTotal(t) /\ DestinationsStand(t) /\ NothingLeftHanging(t) /\ IsOrdered(t)

-----------------------------------------------------------------------------
(* reorg-derive.py.                                                         *)

Op(kind, key, to, e) == [op |-> kind, key |-> key, to |-> to, epic |-> e]
NoSprint == <<0, 0>>

TupleBefore(s, t) ==
  \E i \in 1..Len(s) : s[i] < t[i] /\ \A j \in 1..(i - 1) : s[j] = t[j]

\* sorted(): the members of a set, each before those that come after it.
InOrder(S, Before(_, _)) ==
  CHOOSE seq \in [1..Cardinality(S) -> S] :
    \A i, j \in 1..Cardinality(S) : i < j => Before(seq[i], seq[j])

\* By destination, then `order`, where none counts as 0, then key.
OrderOf(t, key) == IF t.rows[key].order = NoOrder THEN 0 ELSE t.rows[key].order

MoveBefore(t, k, l) ==
  TupleBefore(t.rows[k].to \o <<OrderOf(t, k)>> \o k, t.rows[l].to \o <<OrderOf(t, l)>> \o l)

Moved(t) == {key \in DOMAIN t.rows : ~(key \in PlannedKeys /\ SprintOf(key) = t.rows[key].to)}

Creates(t) ==
  LET new == InOrder({t.rows[key].to : key \in Moved(t)} \ PlannedSprints, TupleBefore)
  IN  [i \in 1..Len(new) |-> Op("create-sprint", Unborn, new[i], new[i][1])]

Reparents(t) ==
  LET keys == InOrder(Moved(t), LAMBDA k, l : MoveBefore(t, k, l))
  IN  [i \in 1..Len(keys) |-> Op("reparent-story", keys[i], t.rows[keys[i]].to, 0)]

Retires(t) ==
  LET epics == InOrder(t.retire, <)
  IN  [i \in 1..Len(epics) |-> Op("retire-epic", Unborn, NoSprint, epics[i])]

\* Mutant of Derived: sprints are created when the stories have moved.
DerivedCreatingLate(t) == Reparents(t) \o Creates(t) \o Retires(t)

Derived(t) == Creates(t) \o Reparents(t) \o Retires(t)

-----------------------------------------------------------------------------
(* The session that reorganises.                                            *)

TurnTo(to) == stage' = to

\* The user accepts a target; it is validated and derived against one dump.
Propose ==
  /\ stage = "idle"
  /\ \E dom \in SUBSET PlannedKeys, retire \in SUBSET Epics :
       \E rows \in [dom -> [to : Sprints, order : Orders \cup {NoOrder}]] :
         LET t == [rows |-> rows, retire |-> retire]
         IN  /\ Accepts(t) /\ Derived(t) # <<>>
             /\ target' = t
             /\ ops' = Derived(t)
  /\ was' = at
  /\ TurnTo("applying")
  /\ UNCHANGED <<plan, done, entry, drift>>

\* What the journal is told of an operation that was applied.
Journalled(o) ==
  IF o.op = "reparent-story"
    THEN [op |-> o.op, key |-> NewKey(o.key, o.to), to |-> SprintOf(o.key), epic |-> 0]
    ELSE o

Apply ==
  /\ stage = "applying" /\ ops # <<>>
  /\ LET o == Head(ops)
     IN  /\ \/ /\ o.op = "create-sprint" /\ sprints' = sprints \cup {o.to}
               /\ UNCHANGED <<at, folder, reasons, next>>
            \/ o.op = "reparent-story" /\ CanReparent(o.key, o.to) /\ DoReparent(o.key, o.to)
            \/ o.op = "retire-epic" /\ DoRetire(o.epic)
         /\ done' = Append(done, Journalled(o))
  /\ ops' = Tail(ops)
  /\ TurnTo(IF Tail(ops) = <<>> THEN "hashing" ELSE "applying")
  /\ UNCHANGED <<target, entry, drift, was>>

\* "If an operation fails, stop at that operation."
ApplyRefused ==
  /\ stage = "applying" /\ ops # <<>>
  /\ Head(ops).op = "reparent-story" /\ ~CanReparent(Head(ops).key, Head(ops).to)
  /\ TurnTo("refused")
  /\ UNCHANGED <<plan, target, ops, done, entry, drift, was>>

\* The session ends before the last operation.
Interrupt ==
  /\ stage = "applying" /\ done # <<>> /\ drift = "none"
  /\ drift' = stage
  /\ TurnTo("stopped")
  /\ UNCHANGED <<plan, target, ops, done, entry, was>>

\* The derivation is run again, against the same target and a new dump.  What
\* the user makes of the answer is not followed.
Rediff ==
  /\ stage \in {"stopped", "refused"}
  /\ ops' = Derived(target)
  /\ TurnTo("rediffed")
  /\ UNCHANGED <<plan, target, done, entry, drift, was>>

-----------------------------------------------------------------------------
(* The journal.                                                             *)

\* Mutant of PlanShape: the stories are left out.
PlanShapeOfSprints == <<{e \in Epics : folder[e] = "planned"}, PlannedSprints, {}>>

\* plan_shape_hash: where the planned work sits.
PlanShape == <<{e \in Epics : folder[e] = "planned"}, PlannedSprints, PlannedKeys>>

\* record_reorg takes the digest before it has the journal's lock.
RecordHash ==
  /\ stage = "hashing"
  /\ entry' = [entry EXCEPT !.hash = PlanShape]
  /\ TurnTo("recording")
  /\ UNCHANGED <<plan, target, ops, done, drift, was>>

RecordSave ==
  /\ stage = "recording"
  /\ TurnTo("recorded")
  /\ UNCHANGED <<plan, target, ops, done, entry, drift, was>>

\* "A story that left a retiring epic has to come back after that epic is
\* un-archived."
UndoOrder == Reverse(done)

IsUndoable == entry.hash = PlanShape

\* undo_reorg claims the entry under the journal's lock and moves without it.
UndoClaim ==
  /\ stage = "recorded" /\ ~entry.started /\ IsUndoable
  /\ entry' = [entry EXCEPT !.started = TRUE]
  /\ ops' = UndoOrder
  /\ TurnTo("undoing")
  /\ UNCHANGED <<plan, target, done, drift, was>>

Undo ==
  /\ stage = "undoing" /\ ops # <<>>
  /\ LET o == Head(ops)
     IN  \/ o.op = "retire-epic" /\ DoUnretire(o.epic)
         \/ o.op = "reparent-story" /\ CanReparent(o.key, o.to) /\ DoReparent(o.key, o.to)
         \/ o.op = "create-sprint" /\ UNCHANGED plan
  /\ ops' = Tail(ops)
  /\ UNCHANGED <<target, done, stage, entry, drift, was>>

UndoRefused ==
  /\ stage = "undoing" /\ ops # <<>>
  /\ Head(ops).op = "reparent-story" /\ ~CanReparent(Head(ops).key, Head(ops).to)
  /\ TurnTo("undorefused")
  /\ UNCHANGED <<plan, target, ops, done, entry, drift, was>>

\* undone_at and undo_restored.
UndoFinish ==
  /\ stage = "undoing" /\ ops = <<>>
  /\ TurnTo("undone")
  /\ UNCHANGED <<plan, target, ops, done, entry, drift, was>>

-----------------------------------------------------------------------------
(* Other sessions.                                                          *)

DriftReparent ==
  /\ "reparent-story" \in Drifts
  /\ \E key \in PlannedKeys, to \in PlannedSprints :
       to # SprintOf(key) /\ DoReparent(key, to)

DriftPromote ==
  /\ "promote-issue" \in Drifts
  /\ \E w \in Works, s \in PlannedSprints :
       /\ at[w] = Unborn /\ Allocated(s) <= MaxNum
       /\ at' = [at EXCEPT ![w] = <<s[1], s[2], Allocated(s)>>]
       /\ next' = [next EXCEPT ![s] = Allocated(s) + 1]
  /\ UNCHANGED <<folder, reasons, sprints>>

\* move-epic of a planned epic to active/.
DriftMove ==
  /\ "activate" \in Drifts
  /\ \E e \in Epics : folder[e] = "planned" /\ folder' = [folder EXCEPT ![e] = "active"]
  /\ UNCHANGED <<at, reasons, sprints, next>>

\* One change, between any two steps of the reorg.
Drift ==
  /\ stage \notin {"idle", "undone", "rediffed"} /\ drift = "none"
  /\ DriftReparent \/ DriftPromote \/ DriftMove
  /\ drift' = stage
  /\ UNCHANGED <<target, ops, done, stage, entry, was>>

ReorgNext ==
  \/ Propose \/ Apply \/ ApplyRefused \/ Interrupt \/ Rediff
  \/ RecordHash \/ RecordSave \/ UndoClaim \/ Undo \/ UndoRefused \/ UndoFinish
  \/ Drift

ReorgSpec == ReorgInit /\ [][ReorgNext]_reorgVars

-----------------------------------------------------------------------------
ReorgTypeOK ==
  /\ at \in [Works -> Keys \cup {Unborn}]
  /\ \A v, w \in Works : at[v] = at[w] /\ at[v] # Unborn => v = w
  /\ folder \in [Epics -> EpicFolders]
  /\ reasons \subseteq Epics
  /\ sprints \subseteq Sprints
  /\ next \in [Sprints -> 0..(MaxNum + 1)]
  /\ stage \in Stages /\ drift \in Stages \cup {"none"}

Sprint(w) == SprintOf(at[w])
IsMoved(w) == at[w] # was[w]
Undisturbed == drift = "none"

\* The reorg moved it under a row with an `order`.
IsSequenced(w) == IsMoved(w) /\ target.rows[was[w]].order # NoOrder

\* step-reorg.md 9: the derived operations, applied in their order, leave
\* every story where the target puts it and retire the epics it names.  The
\* order the validator accepted is the one the keys end up in: in its epic no
\* story is in an earlier sprint than what it needs, nor, if the reorg moved
\* both and both rows say an `order`, under a lower number in the same sprint.
\* No live story needs a retired one.
AppliedIsTheTarget ==
  stage = "hashing" /\ Undisturbed =>
    /\ \A w \in Works : was[w] \in DOMAIN target.rows =>
         IsPlanned(w) /\ Sprint(w) = target.rows[was[w]].to
    /\ \A e \in Epics : folder[e] = "archived" <=> e \in target.retire
    /\ \A w \in Works : IsPlanned(w) => \A v \in Needs[w] :
         /\ folder[at[v][1]] # "archived"
         /\ IsPlanned(v) /\ at[v][1] = at[w][1] =>
              /\ Sprint(v)[2] <= Sprint(w)[2]
              /\ Sprint(v) = Sprint(w) /\ IsSequenced(v) /\ IsSequenced(w) => at[v][3] < at[w][3]

\* No operation of an accepted target is refused unless someone interfered.
OpsAreNeverRefused == stage = "refused" => ~Undisturbed

\* undo_reorg: a finished undo has every story back in its sprint and every
\* retired epic back in planned/ without its reason.
UndoPutsBack ==
  stage = "undone" /\ drift \in {"none", "recording", "recorded"} =>
    /\ \A w \in Works : was[w] # Unborn => Sprint(w) = SprintOf(was[w])
    /\ \A e \in Epics : folder[e] = "planned"
    /\ reasons = {}

\* "The guard undo rests on": an undo that was let start runs through, whatever
\* others did to the plan after the reorg was recorded.
UndoRunsThrough == stage = "undorefused" => drift \in {"applying", "hashing", "undoing"}
=============================================================================
