SPECIFICATION FairSpec
CONSTANTS
  a1 = a1
  j1 = j1
  Apps = {a1}
  Jobs = {j1}
  JobOf <- MCOneApp
  Workers = {w1}
  NoWorker = NoWorker
  NoApp = NoApp
  CallsCovered = 2
  HooksFail = FALSE
  MaxRuns = 2
  HrBudget = 3
  FaultBudget = 0
PROPERTY WaitingForPlanWakes
CHECK_DEADLOCK FALSE
