CONSTANTS
  None = None
  mine = mine
  spare = spare
  tab1 = tab1
  tab2 = tab2
  Sid = {mine}
  Req = {tab1, tab2}
  MaxDefs = 2
  MaxVisits = 2
  MayFail = FALSE
SPECIFICATION Spec
INVARIANTS
  SessionsAreSeeded
CHECK_DEADLOCK FALSE
