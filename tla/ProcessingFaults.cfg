\* One submission, two workers, a fault, HR closing, reopening, switching and retrying.
CONSTANTS
  Submissions = {s1}
  Jobs = {j1}
  JobOf <- OneJob
  Unplanned = {}
  Entered = {s1}
  Workers = {w1, w2}
  NoWorker = none
  NoSubmission = nosub
  MaxAttempts = 2
  Retries = 1
  LeaseTerm = 0
  MaxRuns = 2
  HrBudget = 2
  FaultBudget = 1
SPECIFICATION Spec
SYMMETRY WorkersAlike
INVARIANTS TypeOK RowConstraints StructureAccounted OneActiveRun SuccessHasReport
PROPERTIES LiveLeaseRespected HistoryKept
