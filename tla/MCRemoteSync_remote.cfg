\* Two stories that are edited, re-parented and finished while an agent pushes and
\* pulls, and dies.
SPECIFICATION Spec
CONSTANTS
  w1 = w1
  w2 = w2
  Works = {w1, w2}
  Quiet = {"rekey", "repoint", "forget"}
  MaxMoves = 2
  MaxEdits = 1
  MaxLosses = 1
SYMMETRY Symmetry
INVARIANTS OneTrackedIssue NoDriftMeansInStep
