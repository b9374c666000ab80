----------------------------- MODULE Calibration -----------------------------
(***************************************************************************)
(* The story samples of pm-calibration.yaml (pm_status/metrics).           *)
(*                                                                         *)
(* `set-actual` on a story saves the measured figures on the node, appends *)
(* the story's sample to the one calibration file that every agent shares, *)
(* stamps the node so that a later call does not count it again, and logs  *)
(* an `actual` event: four writes, of which only the second is under       *)
(* calibration_lock.  The first write to a file from an older version      *)
(* migrates it: samples measured in an old sense are set aside or purged,  *)
(* once.  `calibration redrive` rebuilds the samples from the nodes, or    *)
(* refuses when the event of one is missing.                               *)
(*                                                                         *)
(* A sample is the story it was derived from and whether the figure was    *)
(* measured in the old sense.  Two metrics stand for the five: `tokens`    *)
(* (tokens_k, purged once) and `hours` (man_hours, with the fix cohorts    *)
(* that are counted in it, set aside once).  The stories here are those    *)
(* with an estimate; the others never yield a sample.                      *)
(***************************************************************************)
EXTENDS Integers, Sequences, FiniteSets, Functions

CONSTANTS
    Stories,        \* the stories that can be sampled
    Old,            \* the ones closed under an older version
    Logged,         \* the old ones that have their `actual` event in the log
    Callers,        \* processes that run pm-status
    Own,            \* Own[p]: the stories process p closes
    Verbs,          \* Verbs[p]: the verbs process p runs
    MigrateFirst,   \* TRUE: redrive is run on a migrated file only
    MaxEvents,      \* bound: length of the event log
    MaxDeaths,      \* bound: calls that die half way
    None            \* no process, no story

ASSUME CalibrationAssumption ==
    /\ Old \subseteq Stories /\ IsFiniteSet(Stories) /\ Logged \subseteq Old
    /\ Own \in [Callers -> SUBSET Stories]
    /\ Verbs \in [Callers -> SUBSET {"set-actual", "import-actual", "migrate-metrics", "redrive"}]
    /\ MigrateFirst \in BOOLEAN /\ MaxEvents \in Nat /\ MaxDeaths \in Nat
    /\ None \notin Stories \cup Callers

VARIABLES
    node,       \* node[s]: what there is of `actual`, token counts in it,
                \* calibration_sampled_at, and hours in the old sense
    file,       \* pm-calibration.yaml
    log,        \* the `actual` events, oldest first
    lock,       \* the holder of calibration_lock
    job,        \* job[p]: the call process p is in
    died        \* how many calls died half way

vars == <<node, file, log, lock, job, died>>

Sample == [story : Stories, old : BOOLEAN]
Node == SUBSET {"actual", "tokens", "sampled", "dated"}
File == [tokens : Seq(Sample), hours : Seq(Sample), legacy : Seq(Sample),
         markers : SUBSET {"reshaped", "rebased"}]
Call(verb, step, s, n) ==
    [verb |-> verb, step |-> step, story |-> s, node |-> n, file |-> None,
     gathered |-> [t \in {} |-> None]]
Idle == Call("none", "none", None, {})

-----------------------------------------------------------------------------
(* Reading the file and the log. *)

Orderings(set) == {o \in [1..Cardinality(set) -> set] : Range(o) = set}
StoriesOf(samples) == {samples[i].story : i \in DOMAIN samples}
Times(s, samples) == Cardinality({i \in DOMAIN samples : samples[i].story = s})

\* Mutant: the marker is not looked at.
NeverSampled(n) == FALSE

\* _already_sampled: the replay guard, on the node as the call loaded it.
AlreadySampled(n) == "sampled" \in n

\* derive_story_sample: fresh tokens are measured the same way whenever the
\* story was closed, its hours are what the node says they were.
TokensOf(s, n) == [story |-> s, old |-> FALSE]
HoursOf(s, n) == [story |-> s, old |-> "dated" \in n]

\* Mutant: the file is never stamped, so every write migrates it again.
ReshapedAgain(f) == [f EXCEPT !.legacy = IF f.hours = <<>> THEN @ ELSE f.hours, !.hours = <<>>]

\* migrate_calibration_metrics: hours and fix cohorts go to `legacy`, once.
Reshaped(f) ==
    IF "reshaped" \in f.markers THEN f
    ELSE [f EXCEPT !.legacy = IF f.hours = <<>> THEN @ ELSE f.hours,
                   !.hours = <<>>, !.markers = @ \cup {"reshaped"}]

\* migrate_calibration_token_basis: the tokens samples are dropped, once.
Rebased(f) ==
    IF "rebased" \in f.markers THEN f
    ELSE [f EXCEPT !.tokens = <<>>, !.markers = @ \cup {"rebased"}]

Migrated(f) == Rebased(Reshaped(f))

Appended(f, s, n) == [Migrated(f) EXCEPT !.tokens = Append(@, TokensOf(s, n)),
                                         !.hours = Append(@, HoursOf(s, n))]

\* actual_event_times and the refusal: every gathered story needs an event.
OrderKnown(gathered) == DOMAIN gathered \subseteq Range(log)

\* Passes 2 and 3 of redrive: scope and fix are replaced, nothing else is.  A
\* story with no token counts has no sample for them.
Rebuilt(f, gathered, counted, all) ==
    [f EXCEPT !.tokens = [i \in DOMAIN counted |-> TokensOf(counted[i], gathered[counted[i]])],
              !.hours = [i \in DOMAIN all |-> HoursOf(all[i], gathered[all[i]])]]

-----------------------------------------------------------------------------
Init ==
    \E markers \in {{}, {"reshaped"}, {"reshaped", "rebased"}}, past \in {{}, Old} :
        /\ node = [s \in Stories |->
                     {m \in {"actual", "tokens", "sampled", "dated"} :
                        s \in past /\ (m = "dated" => "reshaped" \notin markers)}]
        /\ \E order \in Orderings(past) :
              file = [tokens |-> [i \in DOMAIN order |->
                                    [story |-> order[i], old |-> "rebased" \notin markers]],
                      hours |-> [i \in DOMAIN order |->
                                    [story |-> order[i], old |-> "reshaped" \notin markers]],
                      legacy |-> <<>>, markers |-> markers]
        /\ log \in Orderings(past \cap Logged)
        /\ lock = None
        /\ job = [p \in Callers |-> Idle]
        /\ died = 0

At(p, verb, step) == job[p].verb \in verb /\ job[p].step = step
Goto(p, step) == job' = [job EXCEPT ![p].step = step]
Done(p) == job' = [job EXCEPT ![p] = Idle]

-----------------------------------------------------------------------------
(* set-actual, import-actual. *)

\* cmd_set_actual loads the node; import-actual is the same with no_calibrate and
\* no token counts.
LoadStory(p, verb, s) ==
    /\ job[p] = Idle /\ verb \in Verbs[p] /\ s \in Own[p]
    /\ Len(log) + Cardinality({q \in Callers : job[q] # Idle}) < MaxEvents
    /\ job' = [job EXCEPT ![p] = Call(verb, "save", s, node[s])]
    /\ UNCHANGED <<node, file, log, lock, died>>

\* The figures are saved first; a node that carries the marker is not sampled.
SaveActual(p) ==
    LET j == job[p]
        n == (j.node \cap {"sampled"}) \cup
               (IF j.verb = "set-actual" THEN {"actual", "tokens"} ELSE {"actual"})
    IN  /\ At(p, {"set-actual", "import-actual"}, "save")
        /\ node' = [node EXCEPT ![j.story] = n]
        /\ job' = [job EXCEPT ![p].node = n,
                              ![p].step = IF j.verb = "import-actual" \/ AlreadySampled(n)
                                          THEN "event" ELSE "wait"]
        /\ UNCHANGED <<file, log, lock, died>>

\* Mutant: no lock around load, append and save.
NoLock == TRUE

\* calibration_lock is taken and the file read under it.
LockFree == lock = None

Lock(p) ==
    /\ At(p, {"set-actual", "migrate-metrics"}, "wait")
    /\ LockFree
    /\ lock' = p
    /\ job' = [job EXCEPT ![p].file = file, ![p].step = "write"]
    /\ UNCHANGED <<node, file, log, died>>

\* The sample is appended to the file as migrated, and the lock released.
AppendSample(p) ==
    /\ At(p, {"set-actual"}, "write")
    /\ file' = Appended(job[p].file, job[p].story, job[p].node)
    /\ lock' = None
    /\ job' = [job EXCEPT ![p].file = None, ![p].step = "mark"]
    /\ UNCHANGED <<node, log, died>>

\* _mark_sampled re-saves the node this call holds.
MarkSampled(p) ==
    LET j == job[p]
    IN  /\ At(p, {"set-actual"}, "mark")
        /\ node' = [node EXCEPT ![j.story] = j.node \cup {"sampled"}]
        /\ Goto(p, "event")
        /\ UNCHANGED <<file, log, lock, died>>

AppendEvent(p) ==
    /\ At(p, {"set-actual", "import-actual"}, "event")
    /\ log' = Append(log, job[p].story)
    /\ Done(p)
    /\ UNCHANGED <<node, file, lock, died>>

-----------------------------------------------------------------------------
(* calibration migrate-metrics and redrive. *)

StartOperator(p, verb) ==
    /\ job[p] = Idle /\ verb \in Verbs[p]
    /\ verb = "redrive" /\ MigrateFirst => file.markers = {"reshaped", "rebased"}
    /\ job' = [job EXCEPT ![p] = Call(verb, "wait", None, {})]
    /\ UNCHANGED <<node, file, log, lock, died>>

MigrateMetrics(p) ==
    /\ At(p, {"migrate-metrics"}, "write")
    /\ file' = Migrated(job[p].file)
    /\ lock' = None
    /\ Done(p)
    /\ UNCHANGED <<node, log, died>>

\* Pass 1, under calibration_lock: the nodes are read as they are now.
Gather(p) ==
    /\ At(p, {"redrive"}, "wait")
    /\ LockFree
    /\ lock' = p
    /\ job' = [job EXCEPT ![p].gathered = [s \in {t \in Stories : "actual" \in node[t]} |-> node[s]],
                          ![p].step = "rebuild"]
    /\ UNCHANGED <<node, file, log, died>>

\* Passes 2 and 3: without an event for every gathered story nothing is written.
\* The code sorts by the second of the latest event, then by key; here the order
\* is left open.
Rebuild(p) ==
    /\ At(p, {"redrive"}, "rebuild")
    /\ \/ /\ OrderKnown(job[p].gathered)
          /\ \E all \in Orderings(DOMAIN job[p].gathered),
                counted \in Orderings({s \in DOMAIN job[p].gathered : "tokens" \in job[p].gathered[s]}) :
                file' = Rebuilt(file, job[p].gathered, counted, all)
       \/ ~OrderKnown(job[p].gathered) /\ UNCHANGED file
    /\ lock' = None
    /\ Done(p)
    /\ UNCHANGED <<node, log, died>>

-----------------------------------------------------------------------------
\* A call dies; the kernel drops its flock.
Die(p) ==
    /\ job[p] # Idle /\ died < MaxDeaths
    /\ died' = died + 1
    /\ lock' = IF lock = p THEN None ELSE lock
    /\ Done(p)
    /\ UNCHANGED <<node, file, log>>

Next ==
    \E p \in Callers :
        \/ \E verb \in {"set-actual", "import-actual"}, s \in Stories : LoadStory(p, verb, s)
        \/ SaveActual(p)
        \/ Lock(p)
        \/ AppendSample(p)
        \/ MarkSampled(p)
        \/ AppendEvent(p)
        \/ \E verb \in {"migrate-metrics", "redrive"} : StartOperator(p, verb)
        \/ MigrateMetrics(p)
        \/ Gather(p)
        \/ Rebuild(p)
        \/ Die(p)

Spec == Init /\ [][Next]_vars

-----------------------------------------------------------------------------
(* Properties. *)

Gatherings == UNION {[set -> Node] : set \in SUBSET Stories}
Steps == {"none", "save", "wait", "write", "mark", "event", "rebuild"}
Jobs == [verb : {"none", "set-actual", "import-actual", "migrate-metrics", "redrive"},
         step : Steps, story : Stories \cup {None}, node : Node,
         file : File \cup {None}, gathered : Gatherings]

\* The state stays within its types, and calibration_lock is held where a call
\* has read the file and not written it yet.
TypeOK ==
    /\ node \in [Stories -> Node]
    /\ file \in File
    /\ log \in Seq(Stories)
    /\ lock \in Callers \cup {None}
    /\ job \in [Callers -> Jobs]
    /\ died \in Nat
    /\ \A p \in Callers : lock = p <=> job[p].step \in {"write", "rebuild"}

\* A story is counted once however often its actual is written (the marker of
\* _mark_sampled), and a rebuild counts it once too.  Each call that died may
\* have died between its append and its marker, and adds one at most.
SampledOnce ==
    \A s \in Stories : Times(s, file.tokens) <= 1 + died /\ Times(s, file.hours) <= 1 + died

\* What the one-time migrations set aside is what was measured in the old sense,
\* all of it and nothing else: no such figure weighs on an estimate afterwards,
\* none of the hours are lost, and no later sample is ever taken for an old one.
OnlyOldIsSetAside ==
    /\ "reshaped" \in file.markers => \A i \in DOMAIN file.hours : ~file.hours[i].old
    /\ "rebased" \in file.markers => \A i \in DOMAIN file.tokens : ~file.tokens[i].old
    /\ \A i \in DOMAIN file.legacy : file.legacy[i].old
    /\ "reshaped" \in file.markers =>
         {s \in Stories : "dated" \in node[s]} \subseteq StoriesOf(file.legacy)

\* A sample measured in today's sense is never lost again, neither to another
\* agent's append, nor to a migration, nor to a rebuild from the nodes
\* (redrive_story_samples: "recovers rather than discards").
CountedStays ==
    [][\A s \in Stories :
        /\ "tokens" \in node[s] /\ TokensOf(s, node[s]) \in Range(file.tokens) =>
             s \in StoriesOf(file'.tokens)
        /\ [story |-> s, old |-> FALSE] \in Range(file.hours) => s \in StoriesOf(file'.hours)]_vars
=============================================================================
