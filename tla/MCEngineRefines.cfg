CONSTANTS
  None = None
  review = review
  pay = pay
  approve = approve
  reject = reject
  back = back
  loop = loop
  short = short
  blank = blank
  sReview = sReview
  sPay = sPay
  sPaid = sPaid
  sRejected = sRejected
  alice = alice
  bot = bot
  Graphs = {loop, short, blank}
  Steps <- MCSteps
  Actions <- MCActions
  Statuses <- MCStatuses
  Assignees <- MCAssignees
  Entry <- MCEntry
  StatusOf <- MCStatusOf
  DefaultAssignee <- MCDefaultAssignee
  ActionsOf <- MCActionsOf
  Target <- MCTarget
  Callers = {c1, c2}
  Starters = {c1}
  Deciders = {c1, c2}
  Reassigners = {c2}
  Readers = {c2}
  Subjects = {sub}
  Definitions = {def}
  RunId = {r1, r2}
  VisitId = {v1, v2, v3}
  MaxClock = 3
SPECIFICATION Spec
SYMMETRY Ids
INVARIANTS
  OfferedActionsAreAccepted
PROPERTIES
  Linearizable
CHECK_DEADLOCK FALSE
