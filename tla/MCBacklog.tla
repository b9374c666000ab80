----------------------------- MODULE MCBacklog ------------------------------
(* Small instances of Backlog: one or two epics, two stories, two keys.      *)
EXTENDS Backlog, TLC

CONSTANTS p1, p2, e1, e2, c1, s1, s2

OneFinding == [c \in {c1} |-> e1]
BothInE1 == [s \in {s1, s2} |-> e1]
OneEach == (s1 :> e1) @@ (s2 :> e2)

StoryAndRepair ==
  (p1 :> {"set-status", "set-field", "promote-issue", "schedule-issue"})
  @@ (p2 :> {"append-issue", "resolve-issue", "repair-issue"})

Promoters ==
  (p1 :> {"promote-issue", "append-issue"})
  @@ (p2 :> {"promote-issue", "repair-issue", "resolve-issue"})

Everybody ==
  (p1 :> {"set-status", "schedule-issue", "move-epic"})
  @@ (p2 :> {"append-issue", "set-field", "repair-issue"})

=============================================================================
