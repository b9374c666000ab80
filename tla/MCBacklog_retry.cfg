\* Interrupted promotions, retried by either of two processes, in two epics.
SPECIFICATION Spec
CONSTANTS
  p1 = p1
  p2 = p2
  e1 = e1
  e2 = e2
  c1 = c1
  s1 = s1
  s2 = s2
  Procs = {p1, p2}
  Epics = {e1, e2}
  LastSuffix = 2
  Contents = {c1}
  EpicOf <- OneFinding
  Severities = {0}
  Kinds = {"defect"}
  Resolutions = {"wontfix"}
  Stories = {s1, s2}
  EpicOfStory <- OneEach
  Statuses = {"backlog", "done"}
  Verbs <- Promoters
  ExplicitSuffixes = {}
  HandEdits = {}
  CanCrash = TRUE
  NoProc = NoProc
  NoStory = NoStory
  NoKey = NoKey
  NoContent = NoContent
  Commit = Commit
INVARIANT NoDoubleClaim
