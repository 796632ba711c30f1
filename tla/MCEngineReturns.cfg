CONSTANTS
  None = None
  review = review
  pay = pay
  approve = approve
  reject = reject
  back = back
  loop = loop
  short = short
  blank = blank
  sReview = sReview
  sPay = sPay
  sPaid = sPaid
  sRejected = sRejected
  alice = alice
  bot = bot
  Graphs = {loop}
  Steps <- MCSteps
  Actions <- MCActions
  Statuses <- MCStatuses
  Assignees <- MCAssignees
  Entry <- MCEntry
  StatusOf <- MCStatusOf
  DefaultAssignee <- MCDefaultAssignee
  ActionsOf <- MCActionsOf
  Target <- MCTarget
  Callers = {c1, c2}
  Starters = {c1, c2}
  Deciders = {c1, c2}
  Reassigners = {}
  Readers = {}
  Subjects = {sub}
  Definitions = {def}
  RunId = {r1, r2}
  VisitId = {v1, v2, v3}
  MaxClock = 3
SPECIFICATION FairSpec
PROPERTIES
  EveryCallReturns
CHECK_DEADLOCK FALSE
