CONSTANTS
  None = None
  mine = mine
  spare = spare
  tab1 = tab1
  tab2 = tab2
  Sid = {mine, spare}
  Req = {tab1, tab2}
  MaxDefs = 4
  MaxVisits = 3
  MayFail = TRUE
SPECIFICATION Spec
INVARIANTS
  TypeOK
  SeedersDoNotCollide
PROPERTIES
  EditsStayInSession
CHECK_DEADLOCK FALSE
