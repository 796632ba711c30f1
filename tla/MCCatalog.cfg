CONSTANTS
  None = None
  d1 = d1
  d2 = d2
  s1 = s1
  s2 = s2
  t1 = t1
  t2 = t2
  a1 = a1
  a2 = a2
  open = open
  shut = shut
  adder = adder
  reader = reader
  DefId = {d1, d2}
  StatusId = {s1, s2}
  StepId = {t1, t2}
  ActionId = {a1, a2}
  Names = {open, shut}
  Routes <- MCRoutes
  Trees <- MCTrees
  Adders = {adder}
  MaxEdits = 3
  Readers = {reader}
SPECIFICATION Spec
INVARIANTS
  TypeOK
  DefinitionsAreWhole
  GetIsWhole
  SnapshotIsClosed
PROPERTIES
  ErrorsAreTrue
CONSTRAINT NotRefused
CHECK_DEADLOCK TRUE
