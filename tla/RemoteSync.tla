----------------------------- MODULE RemoteSync -----------------------------
(***************************************************************************)
(* l3io-sync: stories and the issues that mirror them on a platform.       *)
(*                                                                         *)
(* sync-state.yaml maps story keys to issue numbers and remembers the hash *)
(* of what was last pushed.  A push takes a drift report, re-points the    *)
(* mappings of stories whose key has changed, creates the issues that are  *)
(* missing, updates those that lag behind and records each in a write of   *)
(* its own; a pull closes the stories whose issue was completed.  One      *)
(* agent does this, and may die between any two steps.  Sessions edit,     *)
(* finish and re-parent stories in between, people close issues.           *)
(***************************************************************************)
EXTENDS Naturals, Sequences, FiniteSets, Functions

CONSTANTS
    Works,      \* stories, whatever their keys
    Quiet,      \* the places of a run at which no story is re-parented
    MaxMoves,   \* bound: how many re-parents there are
    MaxEdits,   \* bound: how many edits
    MaxLosses   \* bound: how many runs die and stories are deleted

\* No key is given to two stories (StoryKeys), so it may carry its story.
Keys == Works \X Nat

\* What a push sends and the hash of a drift report is of.  No text is 0.
Contents == [text : Nat, done : BOOLEAN]
NoHash == [text |-> 0, done |-> FALSE]
NoIssue == 0

Entries == [issue : Nat, hash : Contents]

Places == {"idle", "rekey", "repoint", "forget", "push", "created", "stamp", "pull", "close"}

ASSUME RemoteSyncAssumption ==
    /\ IsFiniteSet(Works) /\ Quiet \subseteq Places
    /\ MaxMoves \in Nat /\ MaxEdits \in Nat /\ MaxLosses \in Nat

VARIABLES
    moves,      \* moves[w]: how often w was re-parented
    content,    \* content[w]: its document and its status
    gone,       \* the stories that somebody has deleted
    entries,    \* sync-state.yaml: the entry of each mapped key
    issues,     \* the platform: issue i is issues[i]
    pc,         \* where the run is
    job,        \* what it has read
    died,       \* how many runs died
    lost        \* history: issues whose creator died before it recorded them

plan == <<moves, content, gone>>
vars == <<moves, content, gone, entries, issues, pc, job, died, lost>>

NoKey == <<>>
NoJob == [missing |-> {}, create |-> {}, update |-> {}, seen |-> [w \in Works |-> NoHash],
          key |-> NoKey, to |-> NoKey, issue |-> NoIssue]

Init ==
  /\ moves = [w \in Works |-> 0]
  /\ content = [w \in Works |-> [text |-> 1, done |-> FALSE]]
  /\ gone = {}
  /\ entries = [k \in {} |-> NoHash]
  /\ issues = <<>>
  /\ pc = "idle" /\ job = NoJob /\ died = 0 /\ lost = {}

Key(w) == <<w, moves[w]>>
Stands(k) == k = Key(k[1]) /\ k[1] \notin gone
Mapped == DOMAIN entries
With(k, entry) == [j \in Mapped \cup {k} |-> IF j = k THEN entry ELSE entries[j]]

\* previous_keys of a story, oldest first.
PreviousKeys(w) == [n \in 1..moves[w] |-> <<w, n - 1>>]

-----------------------------------------------------------------------------
(* The drift report, and what it puts where.                                *)

Unmapped == {Key(w) : w \in Works \ gone} \ Mapped
Changed == {k \in Mapped : Stands(k) /\ entries[k].hash # content[k[1]]}
MissingLocal == {k \in Mapped : ~Stands(k)}

Reconciling == [NoJob EXCEPT !.missing = MissingLocal]
Pushing ==
  [NoJob EXCEPT !.create = Unmapped, !.update = Changed,
                !.seen = [w \in Works |-> IF Key(w) \in Unmapped \cup Changed THEN content[w]
                                                                          ELSE NoHash]]

\* Mutant of ReconcilesFirst: issues are created before anything is re-pointed.
ReconcilesLast == FALSE

\* Re-keys are reconciled before anything is created.
ReconcilesFirst == MissingLocal # {}

BeginPush ==
  /\ pc = "idle"
  /\ IF ReconcilesFirst THEN pc' = "rekey" /\ job' = Reconciling
                        ELSE pc' = "push" /\ job' = Pushing
  /\ UNCHANGED <<plan, entries, issues, died, lost>>

-----------------------------------------------------------------------------
(* Re-keyed, not deleted.                                                   *)

\* "Match any element, not only the last."
Matches(k) == {w \in Works \ gone : \E n \in 1..moves[w] : PreviousKeys(w)[n] = k}

Look(k) ==
  /\ pc = "rekey" /\ k \in job.missing
  /\ \/ \E w \in Works :
          /\ Matches(k) = {w}
          /\ pc' = "repoint"
          /\ job' = [job EXCEPT !.missing = @ \ {k}, !.key = k, !.to = Key(w)]
     \/ /\ Cardinality(Matches(k)) # 1
        /\ job' = [job EXCEPT !.missing = @ \ {k}]
        /\ UNCHANGED pc
  /\ UNCHANGED <<plan, entries, issues, died, lost>>

\* get and upsert: the whole entry, with its hash, under the new key.
Repoint ==
  /\ pc = "repoint"
  /\ entries' = With(job.to, entries[job.key])
  /\ pc' = "forget"
  /\ UNCHANGED <<plan, issues, job, died, lost>>

\* remove of the old key.
Forget ==
  /\ pc = "forget"
  /\ entries' = Restrict(entries, Mapped \ {job.key})
  /\ pc' = "rekey" /\ job' = [job EXCEPT !.key = NoKey, !.to = NoKey]
  /\ UNCHANGED <<plan, issues, died, lost>>

\* The drift report again.  What is still missing is left alone this time.
Rereport ==
  /\ pc = "rekey" /\ job.missing = {}
  /\ job' = Pushing
  /\ pc' = "push"
  /\ UNCHANGED <<plan, entries, issues, died, lost>>

-----------------------------------------------------------------------------
(* Push.                                                                    *)

\* The agent writes what the document holds when it gets to it.
Create(k) ==
  /\ pc = "push" /\ k \in job.create
  /\ Stands(k)
  /\ issues' = Append(issues, [work |-> k[1], body |-> content[k[1]], state |-> "open"])
  /\ job' = [job EXCEPT !.create = @ \ {k}, !.key = k, !.issue = Len(issues) + 1]
  /\ pc' = "created"
  /\ UNCHANGED <<plan, entries, died, lost>>

\* upsert replaces the whole entry: no hash yet.
Record ==
  /\ pc = "created"
  /\ entries' = With(job.key, [issue |-> job.issue, hash |-> NoHash])
  /\ pc' = "stamp"
  /\ UNCHANGED <<plan, issues, job, died, lost>>

Update(k) ==
  /\ pc = "push" /\ k \in job.update
  /\ Stands(k)
  /\ issues' = [issues EXCEPT ![entries[k].issue].body = content[k[1]]]
  /\ job' = [job EXCEPT !.update = @ \ {k}, !.key = k]
  /\ pc' = "stamp"
  /\ UNCHANGED <<plan, entries, died, lost>>

\* The document is not where the report found it.
Skip(k) ==
  /\ pc = "push" /\ k \in job.create \cup job.update
  /\ ~Stands(k)
  /\ job' = [job EXCEPT !.create = @ \ {k}, !.update = @ \ {k}]
  /\ UNCHANGED <<plan, entries, issues, pc, died, lost>>

\* Mutant of HashToStamp: the hash of what is there now.
HashNow == content[job.key[1]]

\* "The field the drift report gave this entry."
HashToStamp == job.seen[job.key[1]]

Stamp ==
  /\ pc = "stamp"
  /\ entries' = [entries EXCEPT ![job.key].hash = HashToStamp]
  /\ pc' = "push" /\ job' = [job EXCEPT !.key = NoKey, !.issue = NoIssue]
  /\ UNCHANGED <<plan, issues, died, lost>>

EndPush ==
  /\ pc = "push" /\ job.create = {} /\ job.update = {}
  /\ pc' = "idle" /\ job' = NoJob
  /\ UNCHANGED <<plan, entries, issues, died, lost>>

-----------------------------------------------------------------------------
(* Pull.                                                                    *)

BeginPull ==
  /\ pc = "idle"
  /\ job' = [NoJob EXCEPT !.update = Mapped]
  /\ pc' = "pull"
  /\ UNCHANGED <<plan, entries, issues, died, lost>>

IsCompleted(issue) == issue.state = "completed"

Fetch(k) ==
  /\ pc = "pull" /\ k \in job.update
  /\ IF IsCompleted(issues[entries[k].issue])
       THEN pc' = "close" /\ job' = [job EXCEPT !.update = @ \ {k}, !.key = k]
       ELSE UNCHANGED pc /\ job' = [job EXCEPT !.update = @ \ {k}]
  /\ UNCHANGED <<plan, entries, issues, died, lost>>

\* set-status --story k --status done, which fails if there is no story k.
Close ==
  LET w == job.key[1]
  IN  /\ pc = "close"
      /\ content' = IF Stands(job.key) THEN [content EXCEPT ![w].done = TRUE] ELSE content
      /\ pc' = "pull" /\ job' = [job EXCEPT !.key = NoKey]
      /\ UNCHANGED <<moves, gone, entries, issues, died, lost>>

EndPull ==
  /\ pc = "pull" /\ job.update = {}
  /\ pc' = "idle" /\ job' = NoJob
  /\ UNCHANGED <<plan, entries, issues, died, lost>>

\* A run dies, or the answer to its create is lost.
Die ==
  /\ pc # "idle" /\ died + Cardinality(gone) < MaxLosses /\ died' = died + 1
  /\ lost' = IF pc = "created" THEN lost \cup {job.issue} ELSE lost
  /\ pc' = "idle" /\ job' = NoJob
  /\ UNCHANGED <<plan, entries, issues>>

-----------------------------------------------------------------------------
(* The others.                                                              *)

Edit(w) ==
  /\ w \notin gone /\ SumFunction([v \in Works |-> content[v].text]) < Cardinality(Works) + MaxEdits
  /\ content' = [content EXCEPT ![w].text = @ + 1]
  /\ UNCHANGED <<moves, gone, entries, issues, pc, job, died, lost>>

Finish(w) ==
  /\ w \notin gone /\ ~content[w].done
  /\ content' = [content EXCEPT ![w].done = TRUE]
  /\ UNCHANGED <<moves, gone, entries, issues, pc, job, died, lost>>

\* reparent-story, of planned work only.
Reparent(w) ==
  /\ pc \notin Quiet
  /\ w \notin gone /\ ~content[w].done /\ SumFunction(moves) < MaxMoves
  /\ moves' = [moves EXCEPT ![w] = @ + 1]
  /\ UNCHANGED <<content, gone, entries, issues, pc, job, died, lost>>

\* Somebody takes a story out of the tree by hand.
Delete(w) ==
  /\ w \notin gone /\ died + Cardinality(gone) < MaxLosses
  /\ gone' = gone \cup {w}
  /\ UNCHANGED <<moves, content, entries, issues, pc, job, died, lost>>

CloseIssue(i) ==
  /\ issues[i].state = "open"
  /\ \E reason \in {"completed", "not-planned"} : issues' = [issues EXCEPT ![i].state = reason]
  /\ UNCHANGED <<plan, entries, pc, job, died, lost>>

-----------------------------------------------------------------------------
Next ==
  \/ BeginPush \/ Repoint \/ Forget \/ Rereport \/ Record \/ Stamp \/ EndPush
  \/ BeginPull \/ Close \/ EndPull \/ Die
  \/ \E k \in job.missing : Look(k)
  \/ \E k \in job.create \cup job.update : Create(k) \/ Update(k) \/ Skip(k) \/ Fetch(k)
  \/ \E w \in Works : Edit(w) \/ Finish(w) \/ Reparent(w) \/ Delete(w)
  \/ \E i \in 1..Len(issues) : CloseIssue(i)

Spec == Init /\ [][Next]_vars

-----------------------------------------------------------------------------
(* Properties.                                                              *)

Jobs == [missing : SUBSET Keys, create : SUBSET Keys, update : SUBSET Keys,
         seen : [Works -> Contents], key : Keys \cup {NoKey}, to : Keys \cup {NoKey},
         issue : Nat]
Issues == [work : Works, body : Contents, state : {"open", "completed", "not-planned"}]

TypeOK ==
  /\ moves \in [Works -> Nat] /\ content \in [Works -> Contents] /\ gone \subseteq Works
  /\ Mapped \subseteq Keys /\ entries \in [Mapped -> Entries]
  /\ issues \in Seq(Issues)
  /\ pc \in Places /\ job \in Jobs /\ died \in Nat /\ lost \subseteq 1..Len(issues)

\* "Re-pointing first is the only ordering that prevents" a duplicate: but for
\* issues that were created by a run that died before it recorded them, a story
\* has one issue, and the mapping has it under a key that the story has or had,
\* whenever stories are re-parented and runs die.
InHand(i) == pc = "created" /\ job.issue = i

OneTrackedIssue ==
  \A w \in Works :
    LET own == {i \in 1..Len(issues) : issues[i].work = w /\ i \notin lost /\ ~InHand(i)}
    IN  /\ Cardinality(own) <= 1
        /\ \A i \in own : \E k \in Mapped : k[1] = w /\ entries[k].issue = i

\* A story that drift-report finds unchanged is on the platform as it is here,
\* also when it was edited between the report, the push and the stamp.
NoDriftMeansInStep ==
  \A w \in Works \ gone :
    Key(w) \in Mapped /\ entries[Key(w)].hash = content[w] =>
      issues[entries[Key(w)].issue].body = content[w]
=============================================================================
