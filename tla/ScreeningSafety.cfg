SPECIFICATION Spec
CONSTANTS
  a1 = a1
  j1 = j1
  Apps = {a1}
  Jobs = {j1}
  JobOf <- MCOneApp
  Workers = {w1, w2}
  NoWorker = NoWorker
  NoApp = NoApp
  CallsCovered = 2
  HooksFail = TRUE
  MaxRuns = 2
  HrBudget = 2
  FaultBudget = 1
SYMMETRY MCWorkerSymmetry
INVARIANTS RowConstraints HandoffDone
PROPERTIES FitsWhenStored HrDecisionKept KeepsContract
CHECK_DEADLOCK FALSE
