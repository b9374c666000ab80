\* Two closures, one of them with two items, and a person in triage.
SPECIFICATION Spec
CONSTANTS
  e1 = e1
  e2 = e2
  finding = finding
  other = other
  link = link
  s1 = s1
  s2 = s2
  architecture = architecture
  Epics = {e1, e2}
  Items = {finding, other, link}
  EpicOf <- ItemEpics
  TypeOf <- ItemTypes
  SectionOf <- ItemSections
  Sections = {s1, s2}
  DocOf <- OneFile
  Ttl = 1
  MaxClock = 1
  Mishaps = 1
  NoEpic = NoEpic
  NoItem = NoItem
INVARIANTS CommitsAreScoped RecordsAreReal RejectedStaysOut NothingUnfiled
PROPERTY ClosuresEnd
