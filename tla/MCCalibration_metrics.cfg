\* Two agents close a story each, an operator imports, migrates and redrives;
\* one call dies.  The file is new, migrated, half migrated or from before.
SPECIFICATION Spec
CONSTANTS
  s1 = s1
  s2 = s2
  s3 = s3
  o1 = o1
  dev = dev
  qa = qa
  op = op
  Stories = {s1, s2, s3, o1}
  Old = {o1}
  Logged = {}
  Callers = {dev, qa, op}
  Own <- MCOwn
  Verbs <- MCVerbs
  MigrateFirst = TRUE
  MaxEvents = 4
  MaxDeaths = 1
  None = None
INVARIANTS SampledOnce OnlyOldIsSetAside
PROPERTY CountedStays
CHECK_DEADLOCK FALSE
