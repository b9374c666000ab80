\* Every acceptable target, one disturbance, an undo.
SPECIFICATION ReorgSpec
CONSTANTS
  w1 = w1
  w2 = w2
  w3 = w3
  f = f
  Works = {w1, w2, w3, f}
  Needs <- MCNeeds
  Sprints <- MCSprints
  MaxNum = 4
  Orders = {1, 2}
  NoOrder = NoOrder
  Start <- MCStart
  Drifts = {"reparent-story", "promote-issue", "activate"}
  Unborn = Unborn
CHECK_DEADLOCK FALSE
INVARIANTS AppliedIsTheTarget OpsAreNeverRefused UndoPutsBack UndoRunsThrough
