\* Re-parents, a promotion, a sprint's set-status and an activation, with crashes.
SPECIFICATION Spec
CONSTANTS
  p1 = p1
  p2 = p2
  w1 = w1
  w2 = w2
  f = f
  A1 = A1
  A2 = A2
  B1 = B1
  Procs = {p1, p2}
  Verbs <- MCVerbs
  Works = {w1, w2, f}
  Findings = {f}
  Sprints = {A1, A2, B1}
  EpicOf <- MCEpicOf
  MaxNum = 2
  Placed <- MCPlaced
  Written = {w1}
  Needs <- MCNeeds
  Moves <- OneWay
  Touched = {A2}
  CanCrash = TRUE
  NoProc = NoProc
  NoWork = NoWork
  NoKey = NoKey
INVARIANTS KeyNamesOneStory StoryStandsOnce DocBesideNode ReferencesFollow
PROPERTY ActiveStoriesStay
