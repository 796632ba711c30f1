CONSTANTS
  None = None
  screen = screen
  rate = rate
  pass = pass
  accept = accept
  flow = flow
  quick = quick
  assess = assess
  sOpen = sOpen
  sAccepted = sAccepted
  screener = screener
  rater = rater
  dana = dana
  Graphs = {flow}
  Steps <- MCSteps
  Actions <- MCActions
  Statuses <- MCStatuses
  Assignees = {screener, rater, dana}
  Entry <- MCEntry
  StatusOf <- MCStatusOf
  DefaultAssignee <- MCDefaultAssignee
  ActionsOf <- MCActionsOf
  Target <- MCTarget
  RunId = {1}
  VisitId = {1, 2}
  Pairs = {claim}
  People = {screener, rater, dana}
  Requests = {web}
  Worker = worker
  Sweeper = sweeper
  Agents = {screener, rater}
  AgentReferences = {screener, rater}
  Checkable = {screener, rater}
  QueueCapacity = 1
  MaxUpsets = 3
SPECIFICATION FairSpec
INVARIANTS
  TypeOK
  OneTicketPerVisit
PROPERTIES
  MachineSignsAsAgent
  AgentWorkIsAttended
CHECK_DEADLOCK TRUE
