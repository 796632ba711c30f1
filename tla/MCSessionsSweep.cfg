CONSTANTS
  None = None
  mine = mine
  spare = spare
  tab1 = tab1
  tab2 = tab2
  Sid = {mine}
  Req = {tab1}
  MaxDefs = 4
  MaxVisits = 2
  MayFail = FALSE
SPECIFICATION Spec
PROPERTIES
  SweepsAreExact
CHECK_DEADLOCK FALSE
