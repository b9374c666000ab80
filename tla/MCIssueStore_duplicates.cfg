\* Two processes choose keys of their own and close items as duplicates, people
\* set next by hand; nobody dies.
SPECIFICATION Spec
CONSTANTS
  p1 = p1
  p2 = p2
  e1 = e1
  c1 = c1
  c2 = c2
  Procs = {p1, p2}
  Epics = {e1}
  LastSuffix = 3
  Contents = {c1}
  EpicOf <- OneEpicOneFinding
  Severities = {0}
  Kinds = {"defect"}
  Resolutions = {"fixed", "duplicate"}
  Stories = {s1}
  ExplicitSuffixes = {1, 3}
  HandEdits = {"next"}
  CanCrash = FALSE
  NoProc = NoProc
  NoStory = NoStory
  NoKey = NoKey
  NoContent = NoContent
  Commit = Commit
  s1 = s1
INVARIANT DuplicatesLeadToASurvivor
