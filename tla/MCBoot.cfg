CONSTANTS
  None = None
  i1 = i1
  i2 = i2
  i3 = i3
  Instances = {i1, i2, i3}
  Migrations = 5
  Repeatable = {5}
  Cast = 5
  MaxFaults = 2
SPECIFICATION FairSpec
INVARIANTS
  TypeOK
  LibraryStartsTogether
  HistoryIsExact
  ServesComplete
PROPERTIES
  EveryInstanceServes
CHECK_DEADLOCK FALSE
