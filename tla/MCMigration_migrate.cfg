\* Two agents migrate a status file, split before or not, or a document; one run dies
\* and a command fails, and sessions work on what is there.
SPECIFICATION FairSpec
CONSTANTS
  e1 = e1
  s1 = s1
  s2 = s2
  t1 = t1
  g = g
  r1 = r1
  r2 = r2
  Runs = {r1, r2}
  Epics = {e1}
  Sprints = {s1, s2}
  Stories = {t1}
  EpicOf <- MCEpicOf
  SprintOf <- MCSprintOf
  Goals = {g}
  NoGoal = NoGoal
  Starts <- MCStarts
  Written <- AllWritten
  Busy = TRUE
  MaxDeaths = 1
  MaxFailures = 1
  NoRun = NoRun
INVARIANT MigratedAsItWas
PROPERTIES EpicProgressIsKept MigrationEnds
CHECK_DEADLOCK FALSE
