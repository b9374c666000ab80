-------------------------- MODULE RemoteSync_proofs --------------------------
(***************************************************************************)
(* Proofs about the platform sync.                                         *)
(***************************************************************************)
EXTENDS RemoteSync, TLAPS, SequenceTheorems, FiniteSetTheorems

-----------------------------------------------------------------------------
(* The invariants.                                                          *)

\* Stories only grow: b is what a became, or a itself.
AtMost(a, b) == a.text <= b.text /\ (a.done => b.done)

\* What an entry says was pushed is no newer than what its issue holds, and the
\* issue is of the entry's story and was not lost.
EntriesLag ==
  \A k \in Mapped :
    /\ entries[k].issue \in (1..Len(issues)) \ lost
    /\ issues[entries[k].issue].work = k[1]
    /\ AtMost(entries[k].hash, issues[entries[k].issue].body)

\* What an issue holds is no newer than the story.
IssuesLag == \A i \in 1..Len(issues) : AtMost(issues[i].body, content[issues[i].work])

\* And so is what the report has seen.
ReportLags == \A w \in Works : AtMost(job.seen[w], content[w])

\* What the agent has in hand where it is.
KeysInHand ==
  /\ pc = "rekey" => job.missing \subseteq Mapped
  /\ pc \in {"repoint", "forget"} =>
       /\ job.key \in Mapped /\ job.missing \subseteq Mapped \ {job.key}
       /\ job.to \in Keys /\ job.to # job.key /\ job.to[1] = job.key[1]
  /\ pc \in {"push", "created", "stamp", "pull", "close"} => job.update \subseteq Mapped
  /\ pc = "stamp" => job.key \in Mapped
  /\ pc \in {"created", "close"} => job.key \in Keys

CreatedInHand ==
  pc = "created" =>
    /\ job.issue \in (1..Len(issues)) \ lost
    /\ issues[job.issue].work = job.key[1]
    /\ AtMost(job.seen[job.key[1]], issues[job.issue].body)
    /\ \A k \in Mapped : entries[k].issue # job.issue

StampInHand ==
  pc = "stamp" => AtMost(job.seen[job.key[1]], issues[entries[job.key].issue].body)

SyncInv ==
  /\ TypeOK /\ EntriesLag /\ IssuesLag /\ ReportLags
  /\ KeysInHand /\ CreatedInHand /\ StampInHand

\* No story is re-parented while re-keys are reconciled.
RekeysAreQuiet == {"rekey", "repoint", "forget"} \subseteq Quiet

\* Keys are numbered in the order in which a story gets them.
KeysAreFormer ==
  /\ \A k \in Mapped : k[2] <= moves[k[1]]
  /\ pc = "created" => job.key[2] <= moves[job.key[1]]

\* The mappings that only the re-key check can bring up to date.
Stale == {k \in Mapped : k[1] \notin gone /\ k # Key(k[1])}

\* The check knows of all of them.
StaleIsMissing ==
  /\ pc = "rekey" => Stale \subseteq job.missing
  /\ pc \in {"repoint", "forget"} =>
       Stale \subseteq job.missing \cup {job.key} /\ job.to = Key(job.key[1])

\* What is to be created has no mapping under any key.
CreatesAreNew ==
  /\ \A k \in job.create : \A j \in Mapped : j[1] # k[1]
  /\ \A k, j \in job.create : k[1] = j[1] => k = j
  /\ pc = "created" =>
       /\ \A j \in Mapped : j[1] # job.key[1]
       /\ \A k \in job.create : k[1] # job.key[1]

ForgetKeeps ==
  pc = "forget" => job.to \in Mapped /\ entries[job.to].issue = entries[job.key].issue

Own(i) == i \in 1..Len(issues) /\ i \notin lost /\ ~InHand(i)

OwnAreTracked ==
  \A i \in 1..Len(issues) : Own(i) =>
    \E k \in Mapped : k[1] = issues[i].work /\ entries[k].issue = i

OwnAreUnique ==
  \A i, j \in 1..Len(issues) : Own(i) /\ Own(j) /\ issues[i].work = issues[j].work => i = j

OneInv ==
  /\ SyncInv /\ KeysAreFormer /\ StaleIsMissing /\ CreatesAreNew /\ ForgetKeeps
  /\ OwnAreTracked /\ OwnAreUnique

-----------------------------------------------------------------------------
(* Lemmas.                                                                  *)

LEMMA AtMostOrder ==
  /\ \A a \in Contents : AtMost(a, a) /\ AtMost(NoHash, a)
  /\ \A a, b, c \in Contents : AtMost(a, b) /\ AtMost(b, c) => AtMost(a, c)
  /\ \A a, b \in Contents : AtMost(a, b) /\ AtMost(b, a) => a = b
<1>1. ASSUME NEW a \in Contents, NEW b \in Contents, AtMost(a, b), AtMost(b, a)
      PROVE  a = b
  <2>1. a.text = b.text
    BY <1>1, SMT DEF Contents, AtMost
  <2>2. a.done = b.done
    BY <1>1, SMT DEF Contents, AtMost
  <2>3. a = [text |-> a.text, done |-> a.done] /\ b = [text |-> b.text, done |-> b.done]
    BY SMT DEF Contents
  <2> QED
    BY <2>1, <2>2, <2>3
<1> QED
  BY <1>1, SMT DEF Contents, AtMost, NoHash

LEMMA NoHashIsContent == NoHash \in Contents
BY DEF NoHash, Contents

LEMMA IssueTypes ==
  ASSUME TypeOK, NEW i \in 1..Len(issues)
  PROVE  /\ issues[i] \in Issues /\ issues[i].work \in Works
         /\ issues[i].body \in Contents /\ Len(issues) \in Nat
<1>1. issues \in Seq(Issues)
  BY DEF TypeOK
<1>2. issues[i] \in Issues /\ Len(issues) \in Nat
  <2> HIDE DEF Issues
  <2> QED
    BY <1>1, ElementOfSeq, LenProperties
<1> QED
  BY <1>2 DEF Issues

\* One issue is changed.
LEMMA IssueChanged ==
  ASSUME TypeOK, NEW i \in 1..Len(issues), NEW x \in Issues
  PROVE  LET t == [issues EXCEPT ![i] = x]
         IN  /\ t \in Seq(Issues) /\ Len(t) = Len(issues)
             /\ \A j \in 1..Len(issues) : t[j] = IF j = i THEN x ELSE issues[j]
BY ExceptSeq DEF TypeOK

\* One is added.
LEMMA IssueAdded ==
  ASSUME TypeOK, NEW x \in Issues
  PROVE  LET t == Append(issues, x)
         IN  /\ t \in Seq(Issues) /\ Len(t) = Len(issues) + 1 /\ t[Len(issues) + 1] = x
             /\ \A j \in 1..Len(issues) : t[j] = issues[j]
BY AppendProperties DEF TypeOK

LEMMA KeyTypes ==
  ASSUME TypeOK
  PROVE  /\ \A w \in Works : Key(w) \in Keys /\ Key(w)[1] = w /\ Key(w)[2] = moves[w]
         /\ \A k \in Keys : k[1] \in Works /\ k[2] \in Nat /\ k = <<k[1], k[2]>>
BY DEF TypeOK, Key, Keys

LEMMA MatchIsOwn ==
  ASSUME TypeOK, NEW k \in Keys, NEW w \in Matches(k)
  PROVE  w = k[1] /\ w \in Works \ gone /\ k[2] < moves[w]
<1>1. w \in Works \ gone
  BY DEF Matches
<1>2. PICK n \in 1..moves[w] : PreviousKeys(w)[n] = k
  BY DEF Matches
<1>3. moves[w] \in Nat
  BY <1>1 DEF TypeOK
<1>4. k = <<w, n - 1>>
  BY <1>2, <1>3 DEF PreviousKeys
<1> QED
  BY <1>1, <1>3, <1>4

LEMMA EntryTypes ==
  ASSUME TypeOK, NEW k \in Mapped
  PROVE  /\ k \in Keys /\ entries[k] \in Entries
         /\ entries[k].issue \in Nat /\ entries[k].hash \in Contents
<1>1. k \in Keys /\ entries[k] \in Entries
  BY DEF TypeOK
<1> QED
  BY <1>1 DEF Entries

\* An entry is written.
LEMMA EntryPut ==
  ASSUME TypeOK, NEW k \in Keys, NEW entry \in Entries, entries' = With(k, entry)
  PROVE  /\ Mapped' = Mapped \cup {k} /\ Mapped' \subseteq Keys
         /\ entries' \in [Mapped' -> Entries] /\ entries'[k] = entry
         /\ \A j \in Mapped : j # k => entries'[j] = entries[j]
BY DEF TypeOK, With, Mapped

\* An entry is removed.
LEMMA EntryDropped ==
  ASSUME TypeOK, NEW k, entries' = Restrict(entries, Mapped \ {k})
  PROVE  /\ Mapped' = Mapped \ {k} /\ Mapped' \subseteq Keys
         /\ entries' \in [Mapped' -> Entries]
         /\ \A j \in Mapped' : entries'[j] = entries[j]
BY DEF TypeOK, Restrict, Mapped

LEMMA JobTypes ==
  ASSUME TypeOK
  PROVE  /\ job.missing \subseteq Keys /\ job.create \subseteq Keys /\ job.update \subseteq Keys
         /\ job.seen \in [Works -> Contents] /\ job.key \in Keys \cup {NoKey}
         /\ job.to \in Keys \cup {NoKey} /\ job.issue \in Nat
BY DEF TypeOK, Jobs

LEMMA ReportTypes ==
  ASSUME TypeOK
  PROVE  NoJob \in Jobs /\ Reconciling \in Jobs /\ Pushing \in Jobs
<1>1. NoJob \in Jobs
  BY NoHashIsContent DEF NoJob, Jobs, NoIssue
<1>2. MissingLocal \subseteq Keys /\ Changed \subseteq Keys
  BY DEF TypeOK, MissingLocal, Changed
<1>3. Unmapped \subseteq Keys
  BY KeyTypes DEF Unmapped
<1>4. [w \in Works |-> IF Key(w) \in Unmapped \cup Changed THEN content[w] ELSE NoHash]
        \in [Works -> Contents]
  BY NoHashIsContent DEF TypeOK
<1> QED
  BY <1>1, <1>2, <1>3, <1>4 DEF Reconciling, Pushing, Jobs, NoJob

LEMMA InitSync == Init => SyncInv
<1> SUFFICES ASSUME Init PROVE SyncInv
  OBVIOUS
<1>1. Mapped = {} /\ Len(issues) = 0
  BY DEF Init, Mapped
<1>2. [text |-> 1, done |-> FALSE] \in Contents
  BY DEF Contents
<1>3. TypeOK
  <2>1. moves \in [Works -> Nat] /\ content \in [Works -> Contents] /\ gone \subseteq Works
    BY <1>2 DEF Init
  <2>2. Mapped \subseteq Keys /\ entries \in [Mapped -> Entries]
    BY <1>1 DEF Init, Mapped
  <2>3. issues \in Seq(Issues)
    BY DEF Init
  <2>4. job \in Jobs
    BY NoHashIsContent DEF Init, NoJob, Jobs, NoIssue
  <2> QED
    BY <2>1, <2>2, <2>3, <2>4 DEF Init, TypeOK, Places
<1>4. ReportLags
  BY AtMostOrder, <1>3 DEF Init, ReportLags, NoJob, TypeOK
<1> QED
  BY <1>1, <1>3, <1>4
     DEF Init, SyncInv, EntriesLag, IssuesLag, KeysInHand, CreatedInHand, StampInHand

-----------------------------------------------------------------------------
(* The agent's steps that write nothing but what it has in hand.            *)

LEMMA StoresStand ==
  ASSUME SyncInv, UNCHANGED <<content, entries, issues, lost>>
  PROVE  EntriesLag' /\ IssuesLag' /\ Mapped' = Mapped
BY DEF SyncInv, EntriesLag, IssuesLag, Mapped

LEMMA ReportIsOfNow ==
  ASSUME TypeOK
  PROVE  \A w \in Works : /\ AtMost(Pushing.seen[w], content[w])
                          /\ AtMost(Reconciling.seen[w], content[w])
                          /\ AtMost(NoJob.seen[w], content[w])
<1> TAKE w \in Works
<1>1. content[w] \in Contents
  BY DEF TypeOK
<1>2. Pushing.seen[w] \in {content[w], NoHash}
  BY DEF Pushing, NoJob
<1>3. Reconciling.seen[w] = NoHash /\ NoJob.seen[w] = NoHash
  BY DEF Reconciling, NoJob
<1> QED
  BY <1>1, <1>2, <1>3, AtMostOrder

\* A report is taken, or thrown away.
LEMMA ReportsSync ==
  ASSUME SyncInv, BeginPush \/ Rereport \/ EndPush \/ BeginPull \/ EndPull \/ Die
  PROVE  SyncInv'
<1> USE DEF SyncInv
<1>1. /\ moves' = moves /\ content' = content /\ gone' = gone
      /\ entries' = entries /\ issues' = issues /\ Mapped' = Mapped
  BY DEF BeginPush, Rereport, EndPush, BeginPull, EndPull, Die, plan, Mapped
<1>2. /\ \/ pc' = "rekey" /\ job' = Reconciling
         \/ pc' = "push" /\ job' = Pushing
         \/ pc' = "pull" /\ job' = [NoJob EXCEPT !.update = Mapped]
         \/ pc' = "idle" /\ job' = NoJob
      /\ lost' = lost \/ (pc = "created" /\ lost' = lost \cup {job.issue})
  BY DEF BeginPush, Rereport, EndPush, BeginPull, EndPull, Die
<1>3. job' \in Jobs
  <2>1. [NoJob EXCEPT !.update = Mapped] \in Jobs
    BY NoHashIsContent DEF NoJob, Jobs, NoIssue, TypeOK
  <2> QED
    BY <1>2, <2>1, ReportTypes
<1>4. TypeOK'
  <2>1. lost' \subseteq 1..Len(issues)
    BY <1>2 DEF TypeOK, CreatedInHand
  <2>2. died' \in Nat
    BY DEF TypeOK, BeginPush, Rereport, EndPush, BeginPull, EndPull, Die
  <2>3. pc' \in Places
    BY <1>2 DEF Places
  <2> QED
    BY <1>1, <1>3, <2>1, <2>2, <2>3 DEF TypeOK
<1>5. EntriesLag' /\ IssuesLag'
  BY <1>1, <1>2 DEF EntriesLag, IssuesLag, CreatedInHand
<1>6. ReportLags'
  <2>1. job'.seen \in {Reconciling.seen, Pushing.seen, NoJob.seen}
    BY <1>2 DEF NoJob
  <2> QED
    BY <1>1, <2>1, ReportIsOfNow DEF ReportLags
<1>7. KeysInHand' /\ CreatedInHand' /\ StampInHand'
  BY <1>1, <1>2
     DEF KeysInHand, CreatedInHand, StampInHand, Reconciling, Pushing, NoJob,
         MissingLocal, Changed
<1> QED
  BY <1>4, <1>5, <1>6, <1>7

LEMMA LookSync ==
  ASSUME SyncInv, NEW k \in job.missing, Look(k)
  PROVE  SyncInv'
<1> USE DEF SyncInv
<1>1. /\ pc = "rekey" /\ k \in Mapped /\ k \in Keys
      /\ UNCHANGED <<moves, content, gone, entries, issues, died, lost>>
  BY EntryTypes DEF Look, plan, KeysInHand
<1>2. CASE pc' = pc /\ job' = [job EXCEPT !.missing = @ \ {k}]
  <2>1. TypeOK'
    BY <1>1, <1>2 DEF TypeOK, Jobs, Mapped
  <2>2. KeysInHand'
    BY <1>1, <1>2, JobTypes DEF KeysInHand, Mapped
  <2> QED
    BY <1>1, <1>2, <2>1, <2>2, StoresStand, JobTypes
       DEF ReportLags, CreatedInHand, StampInHand
<1>3. ASSUME NEW w \in Works, Matches(k) = {w}, pc' = "repoint",
             job' = [job EXCEPT !.missing = @ \ {k}, !.key = k, !.to = Key(w)]
      PROVE  SyncInv'
  <2>1. w = k[1] /\ k[2] < moves[w]
    BY <1>1, <1>3, MatchIsOwn
  <2>2. Key(w) \in Keys /\ Key(w)[1] = w /\ Key(w)[2] = moves[w] /\ moves[w] \in Nat
    BY <1>3, KeyTypes DEF TypeOK
  <2>3. Key(w) # k
    BY <1>1, <2>1, <2>2, KeyTypes
  <2>4. TypeOK'
    <3>1. job' \in Jobs
      BY <1>1, <1>3, <2>2 DEF TypeOK, Jobs
    <3> QED
      BY <1>1, <1>3, <3>1 DEF TypeOK, Places, Mapped
  <2>5. job'.seen = job.seen /\ job'.key = k /\ job'.to = Key(w) /\ job'.missing = job.missing \ {k}
    BY <1>3, JobTypes DEF TypeOK, Jobs
  <2>6. KeysInHand'
    BY <1>1, <1>3, <2>1, <2>2, <2>3, <2>5 DEF KeysInHand, Mapped
  <2> QED
    BY <1>1, <1>3, <2>4, <2>5, <2>6, StoresStand
       DEF ReportLags, CreatedInHand, StampInHand
<1> QED
  BY <1>2, <1>3 DEF Look

LEMMA SkipSync ==
  ASSUME SyncInv, NEW k \in job.create \cup job.update, Skip(k)
  PROVE  SyncInv'
<1> USE DEF SyncInv
<1>1. /\ UNCHANGED <<moves, content, gone, entries, issues, pc, died, lost>>
      /\ pc = "push" /\ job' = [job EXCEPT !.create = @ \ {k}, !.update = @ \ {k}]
  BY DEF Skip, plan
<1>2. TypeOK'
  BY <1>1 DEF TypeOK, Jobs, Mapped
<1>3. job'.seen = job.seen /\ job'.update \subseteq job.update
  BY <1>1 DEF TypeOK, Jobs
<1> QED
  BY <1>1, <1>2, <1>3, StoresStand
     DEF ReportLags, KeysInHand, CreatedInHand, StampInHand, Mapped

LEMMA FetchSync ==
  ASSUME SyncInv, NEW k \in job.create \cup job.update, Fetch(k)
  PROVE  SyncInv'
<1> USE DEF SyncInv
<1>1. /\ UNCHANGED <<moves, content, gone, entries, issues, died, lost>>
      /\ pc = "pull" /\ k \in job.update
  BY DEF Fetch, plan
<1>2. k \in Mapped /\ k \in Keys /\ entries[k].issue \in 1..Len(issues)
      /\ issues[entries[k].issue].work = k[1]
  BY <1>1, EntryTypes DEF KeysInHand, EntriesLag
<1>3. \/ /\ IsCompleted(issues[entries[k].issue])
         /\ pc' = "close" /\ job' = [job EXCEPT !.update = @ \ {k}, !.key = k]
      \/ pc' = pc /\ job' = [job EXCEPT !.update = @ \ {k}]
  BY DEF Fetch
<1>4. /\ job' \in Jobs /\ job'.seen = job.seen /\ job'.update \subseteq job.update
      /\ pc' = "close" => job'.key = k
  BY <1>1, <1>2, <1>3 DEF TypeOK, Jobs
<1>5. TypeOK'
  BY <1>1, <1>3, <1>4 DEF TypeOK, Places, Mapped
<1>6. KeysInHand'
  BY <1>1, <1>2, <1>3, <1>4 DEF KeysInHand, Mapped
<1> QED
  BY <1>1, <1>3, <1>4, <1>5, <1>6, StoresStand DEF ReportLags, CreatedInHand, StampInHand

-----------------------------------------------------------------------------
(* The steps that write.                                                    *)

LEMMA RepointSync ==
  ASSUME SyncInv, Repoint
  PROVE  SyncInv'
<1> USE DEF SyncInv
<1>1. /\ UNCHANGED <<moves, content, gone, issues, job, died, lost>>
      /\ pc = "repoint" /\ pc' = "forget" /\ entries' = With(job.to, entries[job.key])
  BY DEF Repoint, plan
<1>2. /\ job.key \in Mapped /\ job.to \in Keys /\ job.to # job.key /\ job.to[1] = job.key[1]
      /\ job.missing \subseteq Mapped \ {job.key}
  BY <1>1 DEF KeysInHand
<1>3. /\ Mapped' = Mapped \cup {job.to} /\ Mapped' \subseteq Keys
      /\ entries' \in [Mapped' -> Entries] /\ entries'[job.to] = entries[job.key]
      /\ \A j \in Mapped : j # job.to => entries'[j] = entries[j]
  BY <1>1, <1>2, EntryTypes, EntryPut
<1>4. TypeOK'
  BY <1>1, <1>3 DEF TypeOK, Places
<1>5. EntriesLag'
  BY <1>1, <1>2, <1>3 DEF EntriesLag
<1>6. KeysInHand'
  BY <1>1, <1>2, <1>3 DEF KeysInHand
<1> QED
  BY <1>1, <1>4, <1>5, <1>6 DEF IssuesLag, ReportLags, CreatedInHand, StampInHand

LEMMA ForgetSync ==
  ASSUME SyncInv, Forget
  PROVE  SyncInv'
<1> USE DEF SyncInv
<1>1. /\ UNCHANGED <<moves, content, gone, issues, died, lost>>
      /\ pc = "forget" /\ pc' = "rekey" /\ entries' = Restrict(entries, Mapped \ {job.key})
      /\ job' = [job EXCEPT !.key = NoKey, !.to = NoKey]
  BY DEF Forget, plan
<1>2. /\ Mapped' = Mapped \ {job.key} /\ Mapped' \subseteq Keys
      /\ entries' \in [Mapped' -> Entries] /\ \A j \in Mapped' : entries'[j] = entries[j]
  BY <1>1, EntryDropped
<1>3. job' \in Jobs /\ job'.seen = job.seen /\ job'.missing = job.missing
  BY <1>1 DEF TypeOK, Jobs
<1>4. TypeOK'
  BY <1>1, <1>2, <1>3 DEF TypeOK, Places
<1>5. EntriesLag'
  BY <1>1, <1>2 DEF EntriesLag
<1>6. KeysInHand'
  BY <1>1, <1>2, <1>3 DEF KeysInHand
<1> QED
  BY <1>1, <1>3, <1>4, <1>5, <1>6
     DEF IssuesLag, ReportLags, CreatedInHand, StampInHand

LEMMA CreateSync ==
  ASSUME SyncInv, NEW k \in job.create \cup job.update, Create(k)
  PROVE  SyncInv'
<1> USE DEF SyncInv
<1> DEFINE new == [work |-> k[1], body |-> content[k[1]], state |-> "open"]
           n == Len(issues) + 1
<1>1. /\ UNCHANGED <<moves, content, gone, entries, died, lost>>
      /\ pc = "push" /\ k \in job.create /\ issues' = Append(issues, new) /\ pc' = "created"
      /\ job' = [job EXCEPT !.create = @ \ {k}, !.key = k, !.issue = Len(issues) + 1]
  BY DEF Create, plan
<1>2. k \in Keys /\ k[1] \in Works /\ content[k[1]] \in Contents
  BY <1>1, JobTypes, KeyTypes DEF TypeOK
<1>3. new \in Issues
  BY <1>2 DEF Issues
<1>4. /\ issues' \in Seq(Issues) /\ Len(issues') = n /\ issues'[n] = new /\ Len(issues) \in Nat
      /\ \A j \in 1..Len(issues) : issues'[j] = issues[j]
  <2>1. issues \in Seq(Issues)
    BY DEF TypeOK
  <2> HIDE DEF new
  <2> QED
    BY <1>1, <1>3, <2>1, IssueAdded, LenProperties
<1>5. /\ job' \in Jobs /\ job'.seen = job.seen /\ job'.update = job.update
      /\ job'.key = k /\ job'.issue = n
  <2>1. n \in Nat /\ job \in Jobs /\ job' = [job EXCEPT !.create = @ \ {k}, !.key = k, !.issue = n]
    BY <1>1, <1>4 DEF TypeOK
  <2> HIDE DEF n, new
  <2> QED
    BY <1>2, <2>1 DEF Jobs
<1>6. TypeOK'
  BY <1>1, <1>4, <1>5 DEF TypeOK, Places, Mapped
<1>7. EntriesLag'
  BY <1>1, <1>4 DEF EntriesLag, Mapped
<1>8. IssuesLag'
  <2> SUFFICES ASSUME NEW i \in 1..Len(issues')
               PROVE  AtMost(issues'[i].body, content[issues'[i].work])
    BY <1>1 DEF IssuesLag
  <2>1. CASE i \in 1..Len(issues)
    BY <1>1, <1>4, <2>1 DEF IssuesLag
  <2>2. CASE i = n
    BY <1>1, <1>2, <1>4, <2>2, AtMostOrder
  <2> QED
    BY <1>4, <2>1, <2>2
<1>9. KeysInHand'
  BY <1>1, <1>2, <1>5 DEF KeysInHand, Mapped
<1>10. CreatedInHand'
  <2>1. n \notin lost /\ \A j \in Mapped : entries[j].issue # n
    BY <1>4 DEF TypeOK, EntriesLag
  <2>2. AtMost(job.seen[k[1]], content[k[1]])
    BY <1>2 DEF ReportLags
  <2> QED
    BY <1>1, <1>4, <1>5, <2>1, <2>2 DEF CreatedInHand, Mapped
<1> QED
  BY <1>1, <1>5, <1>6, <1>7, <1>8, <1>9, <1>10 DEF ReportLags, StampInHand

LEMMA UpdateSync ==
  ASSUME SyncInv, NEW k \in job.create \cup job.update, Update(k)
  PROVE  SyncInv'
<1> USE DEF SyncInv
<1> DEFINE n == entries[k].issue
           new == [issues[n] EXCEPT !.body = content[k[1]]]
<1>1. /\ UNCHANGED <<moves, content, gone, entries, died, lost>>
      /\ pc = "push" /\ k \in job.update /\ issues' = [issues EXCEPT ![n].body = content[k[1]]]
      /\ job' = [job EXCEPT !.update = @ \ {k}, !.key = k] /\ pc' = "stamp"
  BY DEF Update, plan
<1>2. /\ k \in Mapped /\ k \in Keys /\ k[1] \in Works /\ content[k[1]] \in Contents
      /\ n \in (1..Len(issues)) \ lost /\ issues[n].work = k[1]
  BY <1>1, JobTypes, KeyTypes DEF TypeOK, KeysInHand, EntriesLag
<1>3. issues[n] \in Issues /\ issues[n].body \in Contents
  BY <1>2, IssueTypes
<1>4. new \in Issues /\ new.work = k[1] /\ new.body = content[k[1]]
  BY <1>2, <1>3 DEF Issues
<1>5. /\ issues' \in Seq(Issues) /\ Len(issues') = Len(issues)
      /\ \A j \in 1..Len(issues) : issues'[j] = IF j = n THEN new ELSE issues[j]
  <2>1. issues' = [issues EXCEPT ![n] = new]
    BY <1>1
  <2> HIDE DEF new, n
  <2> QED
    BY <1>2, <1>4, <2>1, IssueChanged
<1>6. /\ job' \in Jobs /\ job'.seen = job.seen /\ job'.update \subseteq job.update /\ job'.key = k
  BY <1>1, <1>2 DEF TypeOK, Jobs
<1> HIDE DEF new
<1>7. TypeOK'
  BY <1>1, <1>5, <1>6 DEF TypeOK, Places, Mapped
<1>8. AtMost(issues[n].body, content[k[1]])
  BY <1>2 DEF IssuesLag
<1>9. EntriesLag'
  <2> SUFFICES ASSUME NEW j \in Mapped
               PROVE  /\ entries[j].issue \in (1..Len(issues)) \ lost
                      /\ issues'[entries[j].issue].work = j[1]
                      /\ AtMost(entries[j].hash, issues'[entries[j].issue].body)
    BY <1>1, <1>5 DEF EntriesLag, Mapped
  <2>1. /\ entries[j].issue \in (1..Len(issues)) \ lost
        /\ issues[entries[j].issue].work = j[1]
        /\ AtMost(entries[j].hash, issues[entries[j].issue].body)
        /\ entries[j].hash \in Contents
    BY EntryTypes DEF EntriesLag
  <2>2. CASE entries[j].issue = n
    BY <1>2, <1>3, <1>4, <1>5, <1>8, <2>1, <2>2, AtMostOrder
  <2>3. CASE entries[j].issue # n
    BY <1>5, <2>1, <2>3
  <2> QED
    BY <2>2, <2>3
<1>10. IssuesLag'
  BY <1>1, <1>2, <1>4, <1>5, AtMostOrder DEF IssuesLag
<1>11. KeysInHand'
  BY <1>1, <1>2, <1>6 DEF KeysInHand, Mapped
<1>12. StampInHand'
  BY <1>1, <1>2, <1>4, <1>5, <1>6 DEF StampInHand, ReportLags
<1> QED
  BY <1>1, <1>6, <1>7, <1>9, <1>10, <1>11, <1>12 DEF ReportLags, CreatedInHand

LEMMA RecordSync ==
  ASSUME SyncInv, Record
  PROVE  SyncInv'
<1> USE DEF SyncInv
<1> DEFINE entry == [issue |-> job.issue, hash |-> NoHash]
<1>1. /\ UNCHANGED <<moves, content, gone, issues, job, died, lost>>
      /\ pc = "created" /\ pc' = "stamp" /\ entries' = With(job.key, entry)
  BY DEF Record, plan
<1>2. /\ job.key \in Keys /\ job.issue \in (1..Len(issues)) \ lost
      /\ issues[job.issue].work = job.key[1]
      /\ AtMost(job.seen[job.key[1]], issues[job.issue].body)
      /\ job.update \subseteq Mapped /\ issues[job.issue].body \in Contents
  BY <1>1, IssueTypes DEF KeysInHand, CreatedInHand
<1>3. entry \in Entries /\ entry.issue = job.issue /\ entry.hash = NoHash
  BY JobTypes, NoHashIsContent DEF Entries
<1> HIDE DEF entry
<1>4. /\ Mapped' = Mapped \cup {job.key} /\ Mapped' \subseteq Keys
      /\ entries' \in [Mapped' -> Entries] /\ entries'[job.key] = entry
      /\ \A j \in Mapped : j # job.key => entries'[j] = entries[j]
  BY <1>1, <1>2, <1>3, EntryPut
<1>5. TypeOK'
  BY <1>1, <1>4 DEF TypeOK, Places
<1>6. EntriesLag'
  <2>1. AtMost(NoHash, issues[job.issue].body)
    BY <1>2, AtMostOrder
  <2> QED
    BY <1>1, <1>2, <1>3, <1>4, <2>1 DEF EntriesLag
<1>7. KeysInHand' /\ StampInHand'
  BY <1>1, <1>2, <1>3, <1>4 DEF KeysInHand, StampInHand
<1> QED
  BY <1>1, <1>5, <1>6, <1>7 DEF IssuesLag, ReportLags, CreatedInHand

LEMMA StampSync ==
  ASSUME SyncInv, Stamp
  PROVE  SyncInv'
<1> USE DEF SyncInv
<1> DEFINE k == job.key
<1>1. /\ UNCHANGED <<moves, content, gone, issues, died, lost>>
      /\ pc = "stamp" /\ pc' = "push"
      /\ entries' = [entries EXCEPT ![k].hash = job.seen[k[1]]]
      /\ job' = [job EXCEPT !.key = NoKey, !.issue = NoIssue]
  BY DEF Stamp, plan, HashToStamp
<1>2. /\ k \in Mapped /\ k \in Keys /\ entries[k] \in Entries /\ job.update \subseteq Mapped
      /\ AtMost(job.seen[k[1]], issues[entries[k].issue].body) /\ job.seen[k[1]] \in Contents
  BY <1>1, EntryTypes, JobTypes, KeyTypes DEF KeysInHand, StampInHand
<1> HIDE DEF k
<1>3. /\ Mapped' = Mapped /\ entries' \in [Mapped -> Entries]
      /\ entries'[k].issue = entries[k].issue /\ entries'[k].hash = job.seen[k[1]]
      /\ \A j \in Mapped : j # k => entries'[j] = entries[j]
  BY <1>1, <1>2 DEF TypeOK, Mapped, Entries
<1>4. job' \in Jobs /\ job'.seen = job.seen /\ job'.update = job.update
  BY <1>1 DEF TypeOK, Jobs, NoIssue
<1>5. TypeOK'
  BY <1>1, <1>3, <1>4 DEF TypeOK, Places
<1>6. EntriesLag'
  BY <1>1, <1>2, <1>3 DEF EntriesLag
<1>7. KeysInHand'
  BY <1>1, <1>2, <1>3, <1>4 DEF KeysInHand
<1> QED
  BY <1>1, <1>4, <1>5, <1>6, <1>7 DEF IssuesLag, ReportLags, CreatedInHand, StampInHand

\* A story grows: the agent's Close, or somebody's Edit or Finish.
LEMMA GrowthSync ==
  ASSUME SyncInv, content' \in [Works -> Contents],
         \A w \in Works : AtMost(content[w], content'[w]),
         UNCHANGED <<moves, gone, entries, issues, died, lost>>,
         \/ UNCHANGED <<pc, job>>
         \/ pc = "close" /\ pc' = "pull" /\ job' = [job EXCEPT !.key = NoKey]
  PROVE  SyncInv'
<1> USE DEF SyncInv
<1>1. job' \in Jobs /\ job'.seen = job.seen /\ job'.update = job.update
  BY DEF TypeOK, Jobs
<1>2. TypeOK'
  BY <1>1 DEF TypeOK, Places, Mapped
<1>3. EntriesLag' /\ Mapped' = Mapped
  BY DEF EntriesLag, Mapped
<1>4. IssuesLag'
  <2> SUFFICES ASSUME NEW i \in 1..Len(issues)
               PROVE  AtMost(issues[i].body, content'[issues[i].work])
    BY DEF IssuesLag
  <2>1. issues[i].work \in Works /\ issues[i].body \in Contents
    BY IssueTypes
  <2>2. AtMost(issues[i].body, content[issues[i].work])
    BY DEF IssuesLag
  <2>3. content[issues[i].work] \in Contents /\ content'[issues[i].work] \in Contents
    BY <2>1 DEF TypeOK
  <2> QED
    BY <2>1, <2>2, <2>3, AtMostOrder
<1>5. ReportLags'
  <2> SUFFICES ASSUME NEW w \in Works
               PROVE  AtMost(job.seen[w], content'[w])
    BY <1>1 DEF ReportLags
  <2>1. job.seen[w] \in Contents /\ content[w] \in Contents /\ content'[w] \in Contents
    BY JobTypes DEF TypeOK
  <2> QED
    BY <2>1, AtMostOrder DEF ReportLags
<1>6. KeysInHand'
  BY <1>1, <1>3 DEF KeysInHand
<1> QED
  BY <1>1, <1>2, <1>3, <1>4, <1>5, <1>6 DEF CreatedInHand, StampInHand

LEMMA OneGrows ==
  ASSUME TypeOK, NEW w \in Works, NEW c, c.text \in Nat, c.done \in BOOLEAN,
         c = [text |-> c.text, done |-> c.done],
         content[w].text <= c.text, content[w].done => c.done,
         content' = [content EXCEPT ![w] = c]
  PROVE  content' \in [Works -> Contents] /\ \A v \in Works : AtMost(content[v], content'[v])
<1>1. content \in [Works -> Contents]
  BY DEF TypeOK
<1>2. c \in Contents
  BY DEF Contents
<1>3. content' \in [Works -> Contents]
  BY <1>1, <1>2
<1>4. AtMost(content[w], c)
  BY DEF AtMost
<1>5. \A v \in Works : AtMost(content[v], content'[v])
  BY <1>1, <1>4, AtMostOrder
<1> QED
  BY <1>3, <1>5

LEMMA TextGrows ==
  ASSUME TypeOK, NEW w \in Works, content' = [content EXCEPT ![w].text = content[w].text + 1]
  PROVE  content' \in [Works -> Contents] /\ \A v \in Works : AtMost(content[v], content'[v])
<1> DEFINE c == [content[w] EXCEPT !.text = content[w].text + 1]
<1>1. content[w] \in Contents /\ content' = [content EXCEPT ![w] = c]
  BY DEF TypeOK
<1>2. /\ c.text = content[w].text + 1 /\ c.text \in Nat /\ content[w].text <= c.text
      /\ c = [text |-> c.text, done |-> c.done]
  BY <1>1 DEF Contents
<1>3. c.done = content[w].done /\ c.done \in BOOLEAN
  BY <1>1 DEF Contents
<1> HIDE DEF c
<1> QED
  BY <1>1, <1>2, <1>3, OneGrows

LEMMA StatusGrows ==
  ASSUME TypeOK, NEW w \in Works, content' = [content EXCEPT ![w].done = TRUE]
  PROVE  content' \in [Works -> Contents] /\ \A v \in Works : AtMost(content[v], content'[v])
<1> DEFINE c == [content[w] EXCEPT !.done = TRUE]
<1>1. content[w] \in Contents /\ content' = [content EXCEPT ![w] = c]
  BY DEF TypeOK
<1>2. c.text = content[w].text /\ c.text \in Nat /\ content[w].text <= c.text
  BY <1>1 DEF Contents
<1>3. c.done = TRUE
  <2>1. content[w] = [text |-> content[w].text, done |-> content[w].done]
    BY <1>1 DEF Contents
  <2> QED
    BY <2>1, Zenon
<1>4. c = [text |-> c.text, done |-> c.done]
  <2>1. ASSUME NEW t, NEW d PROVE [[text |-> t, done |-> d] EXCEPT !.done = TRUE] = [text |-> t, done |-> TRUE]
    <3>1. \A x : [[text |-> t, done |-> d] EXCEPT !.done = x] = [text |-> t, done |-> x]
      OBVIOUS
    <3> QED
      BY <3>1, Zenon
  <2>2. PICK t \in Nat, d \in BOOLEAN : content[w] = [text |-> t, done |-> d]
    BY <1>1 DEF Contents
  <2>3. c = [text |-> t, done |-> TRUE]
    <3>1. c = [[text |-> t, done |-> d] EXCEPT !.done = TRUE]
      BY <2>2, Zenon
    <3> HIDE DEF c
    <3> QED
      BY <2>1, <3>1, Zenon
  <2> QED
    BY <2>3, Zenon
<1> HIDE DEF c
<1> QED
  BY <1>1, <1>2, <1>3, <1>4, OneGrows

LEMMA CloseGrows ==
  ASSUME TypeOK, KeysInHand, Close
  PROVE  content' \in [Works -> Contents] /\ \A w \in Works : AtMost(content[w], content'[w])
<1>1. job.key[1] \in Works
  BY KeyTypes DEF Close, KeysInHand
<1>2. CASE content' = content
  BY <1>2, AtMostOrder DEF TypeOK
<1>3. CASE content' = [content EXCEPT ![job.key[1]].done = TRUE]
  BY <1>1, <1>3, StatusGrows
<1> QED
  BY <1>2, <1>3 DEF Close

LEMMA CloseSync ==
  ASSUME SyncInv, Close
  PROVE  SyncInv'
BY CloseGrows, GrowthSync DEF SyncInv, Close

LEMMA EditSync ==
  ASSUME SyncInv, NEW w \in Works, Edit(w) \/ Finish(w)
  PROVE  SyncInv'
<1>1. content' \in [Works -> Contents] /\ \A v \in Works : AtMost(content[v], content'[v])
  BY TextGrows, StatusGrows DEF SyncInv, Edit, Finish
<1> QED
  BY <1>1, GrowthSync DEF Edit, Finish

LEMMA MovesSync ==
  ASSUME SyncInv, NEW w \in Works, Reparent(w) \/ Delete(w)
  PROVE  SyncInv'
<1> USE DEF SyncInv
<1>1. /\ UNCHANGED <<content, entries, issues, pc, job, died, lost>>
      /\ moves' \in [Works -> Nat] /\ gone' \subseteq Works
  BY DEF Reparent, Delete, TypeOK
<1>2. TypeOK'
  BY <1>1 DEF TypeOK, Mapped
<1> QED
  BY <1>1, <1>2, StoresStand
     DEF ReportLags, KeysInHand, CreatedInHand, StampInHand, Mapped

LEMMA CloseIssueIs ==
  ASSUME TypeOK, NEW i \in 1..Len(issues), CloseIssue(i)
  PROVE  /\ issues' \in Seq(Issues) /\ Len(issues') = Len(issues)
         /\ \A j \in 1..Len(issues) :
              /\ issues'[j].work = issues[j].work /\ issues'[j].body = issues[j].body
              /\ issues[j].state = "completed" => issues'[j].state = "completed"
<1>1. PICK reason \in {"completed", "not-planned"} :
        issues' = [issues EXCEPT ![i] = [issues[i] EXCEPT !.state = reason]]
  BY DEF CloseIssue
<1> DEFINE new == [issues[i] EXCEPT !.state = reason]
<1>2. issues[i] \in Issues /\ issues[i].state # "completed"
  BY IssueTypes DEF CloseIssue
<1>3. new \in Issues /\ new.work = issues[i].work /\ new.body = issues[i].body
  BY <1>2 DEF Issues
<1> HIDE DEF new
<1>4. /\ issues' \in Seq(Issues) /\ Len(issues') = Len(issues)
      /\ \A j \in 1..Len(issues) : issues'[j] = IF j = i THEN new ELSE issues[j]
  <2>1. issues' = [issues EXCEPT ![i] = new]
    BY <1>1 DEF new
  <2> QED
    BY <1>3, <2>1, IssueChanged
<1> QED
  BY <1>2, <1>3, <1>4

LEMMA CloseIssueSync ==
  ASSUME SyncInv, NEW i \in 1..Len(issues), CloseIssue(i)
  PROVE  SyncInv'
<1> USE DEF SyncInv
<1>1. /\ UNCHANGED <<moves, content, gone, entries, pc, job, died, lost>>
  BY DEF CloseIssue, plan
<1>2. /\ issues' \in Seq(Issues) /\ Len(issues') = Len(issues)
      /\ \A j \in 1..Len(issues) :
           /\ issues'[j].work = issues[j].work /\ issues'[j].body = issues[j].body
           /\ issues[j].state = "completed" => issues'[j].state = "completed"
  BY CloseIssueIs
<1>3. TypeOK'
  BY <1>1, <1>2 DEF TypeOK, Mapped
<1>4. EntriesLag' /\ IssuesLag'
  BY <1>1, <1>2 DEF EntriesLag, IssuesLag, Mapped
<1>5. KeysInHand' /\ ReportLags'
  BY <1>1 DEF KeysInHand, ReportLags, Mapped
<1>6. CreatedInHand'
  BY <1>1, <1>2 DEF CreatedInHand, Mapped
<1>7. StampInHand'
  BY <1>1, <1>2 DEF StampInHand, KeysInHand, EntriesLag
<1> QED
  BY <1>3, <1>4, <1>5, <1>6, <1>7

LEMMA NextSync ==
  ASSUME SyncInv, [Next]_vars
  PROVE  SyncInv'
<1>1. CASE UNCHANGED vars
  BY <1>1 DEF vars, SyncInv, TypeOK, EntriesLag, IssuesLag, ReportLags, KeysInHand,
              CreatedInHand, StampInHand, Mapped
<1>2. CASE BeginPush \/ Rereport \/ EndPush \/ BeginPull \/ EndPull \/ Die
  BY <1>2, ReportsSync
<1>3. CASE Repoint \/ Forget \/ Record \/ Stamp \/ Close
  BY <1>3, RepointSync, ForgetSync, RecordSync, StampSync, CloseSync
<1>4. CASE \E k \in job.missing : Look(k)
  BY <1>4, LookSync
<1>5. CASE \E k \in job.create \cup job.update : Create(k) \/ Update(k) \/ Skip(k) \/ Fetch(k)
  BY <1>5, CreateSync, UpdateSync, SkipSync, FetchSync
<1>6. CASE \E w \in Works : Edit(w) \/ Finish(w) \/ Reparent(w) \/ Delete(w)
  BY <1>6, EditSync, MovesSync
<1>7. CASE \E i \in 1..Len(issues) : CloseIssue(i)
  BY <1>7, CloseIssueSync
<1> QED
  BY <1>1, <1>2, <1>3, <1>4, <1>5, <1>6, <1>7 DEF Next

\* The types, and with them what the agent has in hand, stand in every state.
THEOREM TypeCorrect == Spec => []TypeOK
<1>1. SyncInv => TypeOK
  BY DEF SyncInv
<1> QED
  BY InitSync, NextSync, <1>1, PTL DEF Spec

LEMMA SyncInvariant == Spec => []SyncInv
BY InitSync, NextSync, PTL DEF Spec

\* Whoever edits and whatever dies, an entry without drift stands for an issue
\* with the story's content: a hash is never newer than what was pushed.
THEOREM DriftIsSeen == Spec => []NoDriftMeansInStep
<1>1. ASSUME SyncInv PROVE NoDriftMeansInStep
  <2> SUFFICES ASSUME NEW w \in Works \ gone, Key(w) \in Mapped,
                      entries[Key(w)].hash = content[w]
               PROVE  issues[entries[Key(w)].issue].body = content[w]
    BY DEF NoDriftMeansInStep
  <2> DEFINE i == entries[Key(w)].issue
  <2>1. /\ i \in 1..Len(issues) /\ issues[i].work = Key(w)[1]
        /\ AtMost(content[w], issues[i].body)
    BY <1>1 DEF SyncInv, EntriesLag
  <2>2. Key(w)[1] = w /\ content[w] \in Contents /\ issues[i].body \in Contents
    BY <1>1, <2>1, IssueTypes, KeyTypes DEF SyncInv, TypeOK
  <2>3. AtMost(issues[i].body, content[w])
    BY <1>1, <2>1, <2>2 DEF SyncInv, IssuesLag
  <2> QED
    BY <2>1, <2>2, <2>3, AtMostOrder
<1> QED
  BY SyncInvariant, <1>1, PTL

-----------------------------------------------------------------------------
(* One issue per story.                                                     *)

LEMMA OwnStand ==
  ASSUME OwnAreTracked, OwnAreUnique, Len(issues') = Len(issues),
         \A i \in 1..Len(issues) : issues'[i].work = issues[i].work,
         \A i \in 1..Len(issues) : Own(i)' => Own(i),
         \A k \in Mapped : k \in Mapped' /\ entries'[k].issue = entries[k].issue
  PROVE  OwnAreTracked' /\ OwnAreUnique'
<1>1. \A i \in 1..Len(issues) : Own(i)' => Own(i) /\ issues'[i].work = issues[i].work
  OBVIOUS
<1>2. OwnAreTracked'
  BY <1>1 DEF OwnAreTracked
<1>3. OwnAreUnique'
  BY <1>1 DEF OwnAreUnique, Own
<1> QED
  BY <1>2, <1>3

LEMMA InitOne == Init => OneInv
<1> SUFFICES ASSUME Init PROVE OneInv
  OBVIOUS
<1>1. Mapped = {} /\ Len(issues) = 0 /\ job.create = {}
  BY DEF Init, Mapped, NoJob
<1> QED
  BY <1>1, InitSync
     DEF Init, OneInv, KeysAreFormer, StaleIsMissing, Stale, CreatesAreNew, ForgetKeeps,
         OwnAreTracked, OwnAreUnique, Own

\* A mapping under a former key is matched by its story.
LEMMA StaleIsMatched ==
  ASSUME TypeOK, KeysAreFormer, NEW k \in Stale
  PROVE  Matches(k) = {k[1]} /\ Cardinality(Matches(k)) = 1
<1>1. k \in Mapped /\ k \in Keys /\ k[1] \in Works \ gone /\ k # Key(k[1])
  BY KeyTypes, EntryTypes DEF Stale
<1>2. k = <<k[1], k[2]>> /\ k[2] \in Nat /\ moves[k[1]] \in Nat /\ k[2] < moves[k[1]]
  BY <1>1, KeyTypes DEF TypeOK, KeysAreFormer, Key
<1>3. k[2] + 1 \in 1..moves[k[1]] /\ PreviousKeys(k[1])[k[2] + 1] = k
  BY <1>2 DEF PreviousKeys
<1>4. Matches(k) = {k[1]}
  BY <1>1, <1>3, MatchIsOwn DEF Matches
<1> QED
  BY <1>4, FS_Singleton

\* With nothing stale, what the report finds unmapped is new.
LEMMA UnmappedIsNew ==
  ASSUME TypeOK, Stale = {}
  PROVE  /\ \A k \in Unmapped : \A j \in Mapped : j[1] # k[1]
         /\ \A k, j \in Unmapped : k[1] = j[1] => k = j
<1>1. \A k \in Unmapped : k[1] \in Works \ gone /\ k = Key(k[1]) /\ k \notin Mapped
  BY KeyTypes DEF Unmapped
<1> QED
  BY <1>1 DEF Stale

LEMMA ReportsOne ==
  ASSUME OneInv, BeginPush \/ Rereport \/ EndPush \/ BeginPull \/ EndPull \/ Die, SyncInv'
  PROVE  OneInv'
<1> USE DEF OneInv
<1>1. UNCHANGED <<moves, content, gone, entries, issues>>
  BY DEF BeginPush, Rereport, EndPush, BeginPull, EndPull, Die, plan
<1>2. Mapped' = Mapped /\ Stale' = Stale
  BY <1>1 DEF Mapped, Stale, Key
<1>3. pc' \in {"idle", "rekey", "push", "pull"}
  BY DEF BeginPush, Rereport, EndPush, BeginPull, EndPull, Die
<1>4. KeysAreFormer' /\ ForgetKeeps'
  BY <1>1, <1>2, <1>3 DEF KeysAreFormer, ForgetKeeps
<1>5. StaleIsMissing'
  <2>1. Stale \subseteq MissingLocal
    BY DEF Stale, MissingLocal, Stands
  <2>2. pc' = "rekey" => job'.missing = MissingLocal
    BY DEF BeginPush, Rereport, EndPush, BeginPull, EndPull, Die, Reconciling, NoJob
  <2> QED
    BY <1>2, <1>3, <2>1, <2>2 DEF StaleIsMissing
<1>6. CreatesAreNew'
  <2>1. CASE job'.create = {}
    BY <1>3, <2>1 DEF CreatesAreNew
  <2>2. CASE job'.create = Unmapped /\ Stale = {}
    BY <1>2, <1>3, <2>2, UnmappedIsNew DEF CreatesAreNew, SyncInv
  <2>3. job'.create = {} \/ (job'.create = Unmapped /\ (MissingLocal = {} \/ Rereport))
    <3>1. NoJob.create = {} /\ Reconciling.create = {} /\ Pushing.create = Unmapped
      BY DEF Reconciling, Pushing, NoJob
    <3>2. NoJob.update = {} /\ [NoJob EXCEPT !.update = Mapped].create = {}
      BY DEF NoJob
    <3>3. CASE BeginPush
      BY <3>1, <3>3 DEF BeginPush, ReconcilesFirst
    <3>4. CASE Rereport
      BY <3>1, <3>4 DEF Rereport
    <3>5. CASE EndPush \/ BeginPull \/ EndPull \/ Die
      BY <3>1, <3>2, <3>5 DEF EndPush, BeginPull, EndPull, Die
    <3> QED
      BY <3>3, <3>4, <3>5
  <2>4. MissingLocal = {} => Stale = {}
    BY DEF Stale, MissingLocal, Stands
  <2>5. Rereport => Stale = {}
    BY DEF Rereport, StaleIsMissing
  <2> QED
    BY <2>1, <2>2, <2>3, <2>4, <2>5
<1>7. \A i \in 1..Len(issues) : Own(i)' => Own(i)
  <2>1. CASE Die
    BY <1>1, <2>1 DEF Die, Own, InHand
  <2>2. CASE ~Die
    BY <1>1, <2>2 DEF BeginPush, Rereport, EndPush, BeginPull, EndPull, Own, InHand
  <2> QED
    BY <2>1, <2>2
<1> QED
  BY <1>1, <1>2, <1>4, <1>5, <1>6, <1>7, OwnStand

LEMMA LookOne ==
  ASSUME OneInv, NEW k \in job.missing, Look(k), SyncInv'
  PROVE  OneInv'
<1> USE DEF OneInv
<1>1. /\ pc = "rekey" /\ pc' \in {"rekey", "repoint"} /\ k \in Mapped /\ k \in Keys
      /\ UNCHANGED <<moves, content, gone, entries, issues, died, lost>>
  BY EntryTypes DEF Look, plan, KeysInHand, SyncInv
<1>2. Mapped' = Mapped /\ Stale' = Stale
  BY <1>1 DEF Mapped, Stale, Key
<1>3. job'.create = job.create /\ job'.missing = job.missing \ {k}
  BY DEF Look, SyncInv, TypeOK, Jobs
<1>4. KeysAreFormer' /\ ForgetKeeps' /\ CreatesAreNew'
  BY <1>1, <1>2, <1>3 DEF KeysAreFormer, ForgetKeeps, CreatesAreNew
<1>5. StaleIsMissing'
  <2>1. CASE pc' = pc /\ Cardinality(Matches(k)) # 1
    <3>1. k \notin Stale
      BY <2>1, StaleIsMatched DEF SyncInv
    <3> QED
      BY <1>1, <1>2, <1>3, <2>1, <3>1 DEF StaleIsMissing
  <2>2. ASSUME NEW w \in Works, Matches(k) = {w}, pc' = "repoint",
               job' = [job EXCEPT !.missing = @ \ {k}, !.key = k, !.to = Key(w)]
        PROVE  StaleIsMissing'
    <3>1. w = k[1]
      BY <1>1, <2>2, MatchIsOwn DEF SyncInv
    <3>2. job'.key = k /\ job'.to = Key(k[1])
      BY <2>2, <3>1 DEF SyncInv, TypeOK, Jobs
    <3> QED
      BY <1>1, <1>2, <1>3, <2>2, <3>2 DEF StaleIsMissing, Key
  <2> QED
    BY <2>1, <2>2 DEF Look
<1>6. \A i \in 1..Len(issues) : Own(i)' => Own(i)
  BY <1>1 DEF Own, InHand
<1> QED
  BY <1>1, <1>2, <1>4, <1>5, <1>6, OwnStand

LEMMA RepointOne ==
  ASSUME OneInv, Repoint, SyncInv'
  PROVE  OneInv'
<1> USE DEF OneInv
<1>1. /\ UNCHANGED <<moves, content, gone, issues, job, died, lost>>
      /\ pc = "repoint" /\ pc' = "forget" /\ entries' = With(job.to, entries[job.key])
  BY DEF Repoint, plan
<1>2. /\ job.key \in Mapped /\ job.to \in Keys /\ job.to # job.key /\ job.to[1] = job.key[1]
      /\ job.to = Key(job.key[1]) /\ job.key[1] \in Works /\ entries[job.key] \in Entries
  BY <1>1, EntryTypes, KeyTypes DEF KeysInHand, StaleIsMissing, SyncInv
<1>3. /\ Mapped' = Mapped \cup {job.to} /\ entries'[job.to] = entries[job.key]
      /\ \A j \in Mapped : j # job.to => entries'[j] = entries[j]
  BY <1>1, <1>2, EntryPut DEF SyncInv
<1>4. KeysAreFormer' /\ ForgetKeeps'
  <2>1. job.to[2] <= moves[job.to[1]]
    BY <1>2, KeyTypes DEF SyncInv, TypeOK
  <2> QED
    BY <1>1, <1>2, <1>3, <2>1 DEF KeysAreFormer, ForgetKeeps
<1>5. StaleIsMissing'
  BY <1>1, <1>2, <1>3 DEF StaleIsMissing, Stale, Key
<1>6. CreatesAreNew'
  BY <1>1, <1>2, <1>3 DEF CreatesAreNew
<1>7. \A i \in 1..Len(issues) : Own(i)' <=> Own(i)
  BY <1>1 DEF Own, InHand
<1>8. OwnAreTracked'
  <2> SUFFICES ASSUME NEW i \in 1..Len(issues), Own(i)
               PROVE  \E k \in Mapped' : k[1] = issues[i].work /\ entries'[k].issue = i
    BY <1>1, <1>7 DEF OwnAreTracked
  <2>1. PICK k \in Mapped : k[1] = issues[i].work /\ entries[k].issue = i
    BY DEF OwnAreTracked
  <2>2. CASE k # job.to
    BY <1>3, <2>1, <2>2
  <2>3. CASE k = job.to
    <3> DEFINE n == entries[job.key].issue
    <3>1. n \in (1..Len(issues)) \ lost /\ issues[n].work = job.key[1]
      BY <1>2 DEF SyncInv, EntriesLag
    <3>2. Own(n)
      BY <1>1, <3>1 DEF Own, InHand
    <3>3. n = i
      BY <1>2, <2>1, <2>3, <3>1, <3>2 DEF OwnAreUnique
    <3> QED
      BY <1>3, <2>1, <2>3, <3>3
  <2> QED
    BY <2>2, <2>3
<1>9. OwnAreUnique'
  BY <1>1, <1>7 DEF OwnAreUnique, Own
<1> QED
  BY <1>4, <1>5, <1>6, <1>8, <1>9

LEMMA ForgetOne ==
  ASSUME OneInv, Forget, SyncInv'
  PROVE  OneInv'
<1> USE DEF OneInv
<1>1. /\ UNCHANGED <<moves, content, gone, issues, died, lost>>
      /\ pc = "forget" /\ pc' = "rekey" /\ entries' = Restrict(entries, Mapped \ {job.key})
      /\ job' = [job EXCEPT !.key = NoKey, !.to = NoKey]
  BY DEF Forget, plan
<1>2. /\ job.key \in Mapped /\ job.to # job.key /\ job.to[1] = job.key[1]
      /\ job.to \in Mapped /\ entries[job.to].issue = entries[job.key].issue
  BY <1>1 DEF KeysInHand, ForgetKeeps, SyncInv
<1>3. /\ Mapped' = Mapped \ {job.key} /\ \A j \in Mapped' : entries'[j] = entries[j]
  BY <1>1, EntryDropped DEF SyncInv
<1>4. job'.missing = job.missing /\ job'.create = job.create
  BY <1>1 DEF SyncInv, TypeOK, Jobs
<1>5. KeysAreFormer' /\ ForgetKeeps' /\ CreatesAreNew'
  BY <1>1, <1>3, <1>4 DEF KeysAreFormer, ForgetKeeps, CreatesAreNew
<1>6. StaleIsMissing'
  BY <1>1, <1>3, <1>4 DEF StaleIsMissing, Stale, Key
<1>7. \A i \in 1..Len(issues) : Own(i)' <=> Own(i)
  BY <1>1 DEF Own, InHand
<1>8. OwnAreTracked'
  <2> SUFFICES ASSUME NEW i \in 1..Len(issues), Own(i)
               PROVE  \E k \in Mapped' : k[1] = issues[i].work /\ entries'[k].issue = i
    BY <1>1, <1>7 DEF OwnAreTracked
  <2>1. PICK k \in Mapped : k[1] = issues[i].work /\ entries[k].issue = i
    BY DEF OwnAreTracked
  <2>2. CASE k = job.key
    <3>1. job.to \in Mapped'
      BY <1>2, <1>3
    <3> QED
      BY <1>2, <1>3, <2>1, <2>2, <3>1
  <2>3. CASE k # job.key
    BY <1>3, <2>1, <2>3
  <2> QED
    BY <2>2, <2>3
<1>9. OwnAreUnique'
  BY <1>1, <1>7 DEF OwnAreUnique, Own
<1> QED
  BY <1>5, <1>6, <1>8, <1>9

LEMMA CreateOne ==
  ASSUME OneInv, NEW k \in job.create \cup job.update, Create(k), SyncInv'
  PROVE  OneInv'
<1> USE DEF OneInv
<1> DEFINE new == [work |-> k[1], body |-> content[k[1]], state |-> "open"]
           n == Len(issues) + 1
<1>1. /\ UNCHANGED <<moves, content, gone, entries, died, lost>>
      /\ pc = "push" /\ k \in job.create /\ issues' = Append(issues, new) /\ pc' = "created"
      /\ job' = [job EXCEPT !.create = @ \ {k}, !.key = k, !.issue = Len(issues) + 1]
      /\ Stands(k)
  BY DEF Create, plan
<1>2. k \in Keys /\ k[1] \in Works /\ content[k[1]] \in Contents
  BY <1>1, JobTypes, KeyTypes DEF TypeOK, SyncInv
<1>3. new \in Issues
  BY <1>2 DEF Issues
<1>4. /\ Len(issues') = n /\ Len(issues) \in Nat
      /\ \A j \in 1..Len(issues) : issues'[j] = issues[j]
  <2>1. issues \in Seq(Issues)
    BY DEF TypeOK, SyncInv
  <2> HIDE DEF new
  <2> QED
    BY <1>1, <1>3, <2>1, IssueAdded, LenProperties DEF SyncInv
<1>5. job'.create = job.create \ {k} /\ job'.key = k /\ job'.issue = n
  BY <1>1 DEF TypeOK, Jobs, SyncInv
<1> HIDE DEF n, new
<1>6. Mapped' = Mapped
  BY <1>1 DEF Mapped
<1>7. KeysAreFormer' /\ StaleIsMissing' /\ ForgetKeeps'
  <2>1. k[2] <= moves[k[1]]
    BY <1>1, <1>2, KeyTypes DEF Stands, TypeOK, SyncInv
  <2> QED
    BY <1>1, <1>5, <1>6, <2>1 DEF KeysAreFormer, StaleIsMissing, ForgetKeeps
<1>8. CreatesAreNew'
  BY <1>1, <1>5, <1>6 DEF CreatesAreNew
<1>9. \A i \in 1..Len(issues') : Own(i)' => i \in 1..Len(issues) /\ Own(i)
  BY <1>1, <1>4, <1>5 DEF Own, InHand, n
<1>10. OwnAreTracked'
  <2> SUFFICES ASSUME NEW i \in 1..Len(issues'), Own(i)'
               PROVE  \E j \in Mapped' : j[1] = issues'[i].work /\ entries'[j].issue = i
    BY DEF OwnAreTracked
  <2>1. i \in 1..Len(issues) /\ Own(i)
    BY <1>9
  <2> QED
    BY <1>1, <1>4, <1>6, <2>1 DEF OwnAreTracked
<1>11. OwnAreUnique'
  <2> SUFFICES ASSUME NEW i \in 1..Len(issues'), NEW j \in 1..Len(issues'), Own(i)', Own(j)',
                      issues'[i].work = issues'[j].work
               PROVE  i = j
    BY DEF OwnAreUnique
  <2>1. i \in 1..Len(issues) /\ Own(i) /\ j \in 1..Len(issues) /\ Own(j)
    BY <1>9
  <2> QED
    BY <1>4, <2>1 DEF OwnAreUnique
<1> QED
  BY <1>7, <1>8, <1>10, <1>11

LEMMA UpdateOne ==
  ASSUME OneInv, NEW k \in job.create \cup job.update, Update(k), SyncInv'
  PROVE  OneInv'
<1> USE DEF OneInv
<1> DEFINE n == entries[k].issue
           new == [issues[n] EXCEPT !.body = content[k[1]]]
<1>1. /\ UNCHANGED <<moves, content, gone, entries, died, lost>>
      /\ pc = "push" /\ k \in job.update /\ issues' = [issues EXCEPT ![n].body = content[k[1]]]
      /\ job' = [job EXCEPT !.update = @ \ {k}, !.key = k] /\ pc' = "stamp"
  BY DEF Update, plan
<1>2. k \in Mapped /\ content[k[1]] \in Contents /\ n \in 1..Len(issues)
  BY <1>1, JobTypes, KeyTypes DEF TypeOK, KeysInHand, EntriesLag, SyncInv
<1>3. new \in Issues /\ new.work = issues[n].work
  BY <1>2, IssueTypes DEF Issues, SyncInv
<1>4. /\ Len(issues') = Len(issues)
      /\ \A j \in 1..Len(issues) : issues'[j] = IF j = n THEN new ELSE issues[j]
  <2>1. issues' = [issues EXCEPT ![n] = new]
    BY <1>1
  <2> HIDE DEF new, n
  <2> QED
    BY <1>2, <1>3, <2>1, IssueChanged DEF SyncInv
<1>5. job'.create = job.create
  BY <1>1 DEF TypeOK, Jobs, SyncInv
<1> HIDE DEF n, new
<1>6. Mapped' = Mapped
  BY <1>1 DEF Mapped
<1>7. KeysAreFormer' /\ StaleIsMissing' /\ ForgetKeeps' /\ CreatesAreNew'
  BY <1>1, <1>5, <1>6 DEF KeysAreFormer, StaleIsMissing, ForgetKeeps, CreatesAreNew
<1>8. \A i \in 1..Len(issues) : Own(i)' => Own(i)
  BY <1>1, <1>4 DEF Own, InHand
<1>9. \A i \in 1..Len(issues) : issues'[i].work = issues[i].work
  BY <1>3, <1>4
<1> QED
  BY <1>1, <1>4, <1>6, <1>7, <1>8, <1>9, OwnStand

LEMMA RecordOne ==
  ASSUME OneInv, Record, SyncInv'
  PROVE  OneInv'
<1> USE DEF OneInv
<1> DEFINE entry == [issue |-> job.issue, hash |-> NoHash]
<1>1. /\ UNCHANGED <<moves, content, gone, issues, job, died, lost>>
      /\ pc = "created" /\ pc' = "stamp" /\ entries' = With(job.key, entry)
  BY DEF Record, plan
<1>2. /\ job.key \in Keys /\ job.issue \in 1..Len(issues)
      /\ issues[job.issue].work = job.key[1]
      /\ \A j \in Mapped : j[1] # job.key[1]
  BY <1>1 DEF KeysInHand, CreatedInHand, CreatesAreNew, SyncInv
<1>3. entry \in Entries /\ entry.issue = job.issue
  BY JobTypes, NoHashIsContent DEF Entries, SyncInv
<1> HIDE DEF entry
<1>4. /\ Mapped' = Mapped \cup {job.key} /\ entries'[job.key] = entry
      /\ \A j \in Mapped : j # job.key /\ entries'[j] = entries[j]
  BY <1>1, <1>2, <1>3, EntryPut DEF SyncInv
<1>5. KeysAreFormer' /\ StaleIsMissing' /\ ForgetKeeps' /\ CreatesAreNew'
  BY <1>1, <1>2, <1>4 DEF KeysAreFormer, StaleIsMissing, ForgetKeeps, CreatesAreNew
<1>6. \A i \in 1..Len(issues) : Own(i)' => i = job.issue \/ Own(i)
  BY <1>1 DEF Own, InHand
<1>7. OwnAreTracked'
  <2> SUFFICES ASSUME NEW i \in 1..Len(issues), Own(i)'
               PROVE  \E j \in Mapped' : j[1] = issues[i].work /\ entries'[j].issue = i
    BY <1>1 DEF OwnAreTracked
  <2>1. CASE i = job.issue
    BY <1>2, <1>3, <1>4, <2>1
  <2>2. CASE Own(i)
    BY <1>4, <2>2 DEF OwnAreTracked
  <2> QED
    BY <1>6, <2>1, <2>2
<1>8. OwnAreUnique'
  <2> SUFFICES ASSUME NEW i \in 1..Len(issues), NEW j \in 1..Len(issues), Own(i)', Own(j)',
                      issues[i].work = issues[j].work
               PROVE  i = j
    BY <1>1 DEF OwnAreUnique, Own
  <2>1. \A m \in 1..Len(issues) : Own(m) => issues[m].work # job.key[1]
    BY <1>2 DEF OwnAreTracked
  <2> QED
    BY <1>2, <1>6, <2>1 DEF OwnAreUnique
<1> QED
  BY <1>5, <1>7, <1>8

LEMMA StampOne ==
  ASSUME OneInv, Stamp, SyncInv'
  PROVE  OneInv'
<1> USE DEF OneInv
<1> DEFINE k == job.key
<1>1. /\ UNCHANGED <<moves, content, gone, issues, died, lost>>
      /\ pc = "stamp" /\ pc' = "push"
      /\ entries' = [entries EXCEPT ![k].hash = job.seen[k[1]]]
      /\ job' = [job EXCEPT !.key = NoKey, !.issue = NoIssue]
  BY DEF Stamp, plan, HashToStamp
<1>2. k \in Mapped /\ entries[k] \in Entries
  BY <1>1, EntryTypes DEF KeysInHand, SyncInv
<1> HIDE DEF k
<1>3. Mapped' = Mapped /\ \A j \in Mapped : entries'[j].issue = entries[j].issue
  BY <1>1, <1>2 DEF TypeOK, Mapped, Entries, SyncInv
<1>4. job'.create = job.create
  BY <1>1 DEF TypeOK, Jobs, SyncInv
<1>5. KeysAreFormer' /\ StaleIsMissing' /\ ForgetKeeps' /\ CreatesAreNew'
  BY <1>1, <1>3, <1>4 DEF KeysAreFormer, StaleIsMissing, ForgetKeeps, CreatesAreNew
<1>6. \A i \in 1..Len(issues) : Own(i)' => Own(i)
  BY <1>1 DEF Own, InHand
<1> QED
  BY <1>1, <1>3, <1>5, <1>6, OwnStand

\* The agent's other steps, and people's.
LEMMA OthersOne ==
  ASSUME RekeysAreQuiet, OneInv, SyncInv',
         \/ \E k \in job.create \cup job.update : Skip(k) \/ Fetch(k)
         \/ Close
         \/ \E w \in Works : Edit(w) \/ Finish(w) \/ Reparent(w) \/ Delete(w)
         \/ \E i \in 1..Len(issues) : CloseIssue(i)
  PROVE  OneInv'
<1> USE DEF OneInv
<1>1. entries' = entries /\ Mapped' = Mapped /\ lost' = lost
  BY DEF Skip, Fetch, Close, Edit, Finish, Reparent, Delete, CloseIssue, plan, Mapped
<1>2. Len(issues') = Len(issues) /\ \A i \in 1..Len(issues) : issues'[i].work = issues[i].work
  <2>1. CASE \E i \in 1..Len(issues) : CloseIssue(i)
    BY <2>1, CloseIssueIs DEF SyncInv
  <2>2. CASE issues' = issues
    BY <2>2
  <2> QED
    BY <2>1, <2>2 DEF Skip, Fetch, Close, Edit, Finish, Reparent, Delete
<1>3. /\ pc \in {"idle", "rekey", "repoint", "forget", "created", "stamp"} => UNCHANGED <<pc, job>>
      /\ pc \in {"push", "pull", "close"} =>
           pc' \in {"push", "pull", "close"} /\ job'.create \subseteq job.create
  <2>1. CASE UNCHANGED <<pc, job>>
    BY <2>1
  <2>2. CASE \E k \in job.create \cup job.update : Skip(k) \/ Fetch(k)
    BY <2>2 DEF Skip, Fetch, SyncInv, TypeOK, Jobs
  <2>3. CASE Close
    BY <2>3 DEF Close, SyncInv, TypeOK, Jobs
  <2> QED
    BY <2>1, <2>2, <2>3 DEF Edit, Finish, Reparent, Delete, CloseIssue
<1>4. /\ gone \subseteq gone' /\ gone' \subseteq Works
      /\ pc \in Quiet => moves' = moves
      /\ moves' \in [Works -> Nat] /\ \A w \in Works : moves[w] <= moves'[w]
  <2>1. CASE UNCHANGED <<moves, gone>>
    BY <2>1 DEF SyncInv, TypeOK
  <2>2. CASE \E w \in Works : Reparent(w) \/ Delete(w)
    BY <2>2 DEF Reparent, Delete, SyncInv, TypeOK
  <2> QED
    BY <2>1, <2>2 DEF Skip, Fetch, Close, Edit, Finish, CloseIssue, plan
<1>5. KeysAreFormer'
  <2>1. \A k \in Mapped : k[1] \in Works /\ k[2] \in Nat
    BY KeyTypes, EntryTypes DEF SyncInv
  <2>2. pc = "created" => job.key[1] \in Works /\ job.key[2] \in Nat
    BY KeyTypes DEF SyncInv, KeysInHand
  <2> QED
    BY <1>1, <1>3, <1>4, <2>1, <2>2 DEF KeysAreFormer, SyncInv, TypeOK, Places
<1>6. StaleIsMissing'
  <2>1. moves' = moves => Stale' \subseteq Stale
    BY <1>1, <1>4 DEF Stale, Key
  <2>2. pc' \in {"rekey", "repoint", "forget"} => UNCHANGED <<pc, job, moves>>
    BY <1>3, <1>4 DEF RekeysAreQuiet, SyncInv, TypeOK, Places
  <2> QED
    BY <2>1, <2>2 DEF StaleIsMissing, Key
<1>7. ForgetKeeps' /\ CreatesAreNew'
  BY <1>1, <1>3 DEF ForgetKeeps, CreatesAreNew, SyncInv, TypeOK, Places
<1>8. \A i \in 1..Len(issues) : Own(i)' => Own(i)
  BY <1>1, <1>2, <1>3 DEF Own, InHand, SyncInv, TypeOK, Places
<1> QED
  BY <1>1, <1>2, <1>5, <1>6, <1>7, <1>8, OwnStand

LEMMA NextOne ==
  ASSUME RekeysAreQuiet, OneInv, [Next]_vars
  PROVE  OneInv'
<1>1. SyncInv'
  BY NextSync DEF OneInv
<1>2. CASE UNCHANGED vars
  BY <1>1, <1>2
     DEF vars, OneInv, KeysAreFormer, StaleIsMissing, Stale, Key, CreatesAreNew, ForgetKeeps,
         OwnAreTracked, OwnAreUnique, Own, InHand, Mapped
<1>3. CASE BeginPush \/ Rereport \/ EndPush \/ BeginPull \/ EndPull \/ Die
  BY <1>1, <1>3, ReportsOne
<1>4. CASE Repoint \/ Forget \/ Record \/ Stamp
  BY <1>1, <1>4, RepointOne, ForgetOne, RecordOne, StampOne
<1>5. CASE \E k \in job.missing : Look(k)
  BY <1>1, <1>5, LookOne
<1>6. CASE \E k \in job.create \cup job.update : Create(k) \/ Update(k)
  BY <1>1, <1>6, CreateOne, UpdateOne
<1>7. CASE \/ \E k \in job.create \cup job.update : Skip(k) \/ Fetch(k)
           \/ Close
           \/ \E w \in Works : Edit(w) \/ Finish(w) \/ Reparent(w) \/ Delete(w)
           \/ \E i \in 1..Len(issues) : CloseIssue(i)
  BY <1>1, <1>7, OthersOne
<1> QED
  BY <1>2, <1>3, <1>4, <1>5, <1>6, <1>7 DEF Next

\* If no story is re-parented while re-keys are reconciled, a story has one issue
\* and the mapping has it, but for those whose creator died before it recorded them.
THEOREM OneIssuePerStory ==
  ASSUME RekeysAreQuiet
  PROVE  Spec => []OneTrackedIssue
<1>1. ASSUME OneInv PROVE OneTrackedIssue
  <2> SUFFICES ASSUME NEW w \in Works
               PROVE  LET own == {i \in 1..Len(issues) :
                                    issues[i].work = w /\ i \notin lost /\ ~InHand(i)}
                      IN  /\ Cardinality(own) <= 1
                          /\ \A i \in own : \E k \in Mapped : k[1] = w /\ entries[k].issue = i
    BY DEF OneTrackedIssue
  <2> DEFINE own == {i \in 1..Len(issues) : issues[i].work = w /\ i \notin lost /\ ~InHand(i)}
  <2>1. \A i \in own : i \in 1..Len(issues) /\ Own(i) /\ issues[i].work = w
    BY DEF Own
  <2>2. \A i, j \in own : i = j
    BY <1>1, <2>1 DEF OneInv, OwnAreUnique
  <2>3. \A i \in own : \E k \in Mapped : k[1] = w /\ entries[k].issue = i
    BY <1>1, <2>1 DEF OneInv, OwnAreTracked
  <2> HIDE DEF own
  <2>4. own = {} \/ \E i \in own : own = {i}
    BY <2>2
  <2>5. Cardinality(own) = 0 \/ Cardinality(own) = 1
    <3>1. CASE own = {}
      BY <3>1, FS_EmptySet
    <3>2. ASSUME NEW i \in own, own = {i} PROVE Cardinality(own) = 1
      BY <3>2, FS_Singleton
    <3> QED
      BY <2>4, <3>1, <3>2
  <2> QED
    BY <2>3, <2>5 DEF own
<1>2. ASSUME OneInv, [Next]_vars PROVE OneInv'
  BY <1>2, NextOne
<1> QED
  BY InitOne, <1>1, <1>2, PTL DEF Spec
=============================================================================
