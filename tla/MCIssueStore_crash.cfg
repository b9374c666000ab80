\* Two processes, crashes between saves, people deleting items.
SPECIFICATION Spec
CONSTANTS
  p1 = p1
  p2 = p2
  e1 = e1
  c1 = c1
  c2 = c2
  Procs = {p1, p2}
  Epics = {e1}
  LastSuffix = 2
  Contents = {c1, c2}
  EpicOf <- OneEpic
  Severities = {0, 1}
  Kinds = {"defect"}
  Resolutions = {"fixed", "wontfix"}
  Stories = {s1}
  ExplicitSuffixes = {}
  HandEdits = {"delete"}
  CanCrash = TRUE
  NoProc = NoProc
  NoStory = NoStory
  NoKey = NoKey
  NoContent = NoContent
  Commit = Commit
  s1 = s1
INVARIANTS UniqueKeys NothingLost KeyNamesOneFinding
PROPERTY ImplementsLedger
