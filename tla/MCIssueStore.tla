---------------------------- MODULE MCIssueStore ----------------------------
(* Small instances of IssueStore: one epic, contents that all belong to it. *)
EXTENDS IssueStore, TLC

CONSTANTS p1, p2, e1, c1, c2, s1

OneEpic == [c \in {c1, c2} |-> e1]
OneEpicOneFinding == [c \in {c1} |-> e1]
=============================================================================
