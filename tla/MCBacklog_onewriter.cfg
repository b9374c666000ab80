\* One process writes the story nodes, another works on the issue files.
SPECIFICATION Spec
CONSTANTS
  p1 = p1
  p2 = p2
  e1 = e1
  e2 = e2
  c1 = c1
  s1 = s1
  s2 = s2
  Procs = {p1, p2}
  Epics = {e1}
  LastSuffix = 2
  Contents = {c1}
  EpicOf <- OneFinding
  Severities = {0}
  Kinds = {"defect"}
  Resolutions = {"fixed", "wontfix"}
  Stories = {s1, s2}
  EpicOfStory <- BothInE1
  Statuses = {"backlog", "in-progress", "blocked", "done"}
  Verbs <- StoryAndRepair
  ExplicitSuffixes = {}
  HandEdits = {}
  CanCrash = FALSE
  NoProc = NoProc
  NoStory = NoStory
  NoKey = NoKey
  NoContent = NoContent
  Commit = Commit
INVARIANTS ScheduledIsClaimed DoneLeavesNothingOpen
