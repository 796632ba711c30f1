CONSTANTS
  None = None
  d1 = d1
  d2 = d2
  s1 = s1
  s2 = s2
  t1 = t1
  t2 = t2
  a1 = a1
  a2 = a2
  open = open
  shut = shut
  adder = adder
  reader = reader
  tab1 = tab1
  tab2 = tab2
  DefId = {d1}
  StatusId = {s1, s2}
  StepId = {t1, t2}
  ActionId = {a1}
  Names = {open, shut}
  Routes <- Loop
  Trees <- TwoSteps
  Adders = {}
  MaxEdits = 3
  Readers = {tab1, tab2}
SPECIFICATION ConsoleSpec
PROPERTIES
  RenameKeepsEntryStep
CONSTRAINT NotRefused
CHECK_DEADLOCK FALSE
