\* The first submission's job has no confirmed plan, the second one's has.
CONSTANTS
  Submissions = {s1, s2}
  Jobs = {s1, s2}
  JobOf <- OwnJob
  Unplanned = {s1}
  Entered = {s1}
  Workers = {w1}
  NoWorker = none
  NoSubmission = nosub
  MaxAttempts = 2
  Retries = 0
  LeaseTerm = 0
  MaxRuns = 2
  HrBudget = 0
  FaultBudget = 0
SPECIFICATION FairSpec
PROPERTIES ScreeningResultArrives
