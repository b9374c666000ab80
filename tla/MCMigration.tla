----------------------------- MODULE MCMigration -----------------------------
(* Small instances of Migration: one epic with its sprints, and a story. *)
EXTENDS Migration

CONSTANTS e1, s1, s2, t1, g, r1, r2

MCEpicOf == [k \in Nodes |-> e1]
MCSprintOf == [t \in Stories |-> s1]
AllWritten == [t \in Stories |-> "in-progress"]

OnlyFlat(epic, one, two) ==
  [f \in FileNames |->
     IF f # "active" THEN Missing
     ELSE [k \in Nodes |->
             CASE k = e1 -> [status |-> epic, goal |-> g]
               [] k = s1 -> [status |-> one, goal |-> NoGoal]
               [] k = s2 -> [status |-> two, goal |-> NoGoal]
               [] OTHER -> NoRecord]]

\* One status file, of an epic that has begun or is done, which does not list the
\* story; or none, and only the story's document.
MCStarts ==
  {OnlyFlat("in-progress", "done", "backlog"), OnlyFlat("done", "done", "done"),
   [f \in FileNames |-> Missing]}
=============================================================================
