CONSTANTS
  None = None
  screen = screen
  rate = rate
  pass = pass
  accept = accept
  flow = flow
  quick = quick
  assess = assess
  sOpen = sOpen
  sAccepted = sAccepted
  screener = screener
  rater = rater
  dana = dana
  Graphs = {quick, assess}
  Steps <- MCSteps
  Actions <- MCActions
  Statuses <- MCStatuses
  Assignees = {screener, rater, dana}
  Entry <- MCEntry
  StatusOf <- MCStatusOf
  DefaultAssignee <- MCDefaultAssignee
  ActionsOf <- MCActionsOf
  Target <- MCTarget
  RunId = {1, 2}
  VisitId = {1, 2}
  Pairs = {claim1, claim2}
  People = {screener, rater, dana}
  Requests = {web}
  Worker = worker
  Sweeper = sweeper
  Agents = {screener, rater}
  AgentReferences = {screener, rater}
  Checkable = {rater}
  QueueCapacity = 1
  MaxUpsets = 0
SPECIFICATION StarvedSpec
PROPERTIES
  AgentWorkIsAttended
CHECK_DEADLOCK TRUE
