\* The verbs on epic.yaml (promote-issue rolls the estimate up), two sessions,
\* crashes, and writers of story nodes that hold no lock.
SPECIFICATION Spec
CONSTANTS
  p1 = p1
  p2 = p2
  a = a
  b = b
  Procs = {p1, p2}
  Sessions = {a, b}
  Verbs = {"set-lock", "clear-lock", "set-status", "promote-issue", "move-epic", "story-write"}
  Ttl = 1
  MaxClock = 2
  CanCrash = TRUE
  NoProc = NoProc
  NoSession = NoSession
INVARIANTS OneEpicFile OneOwner
PROPERTIES WritersKeepOtherFields PromoteRespectsClaims
