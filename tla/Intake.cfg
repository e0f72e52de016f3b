CONSTANTS
  Requests <- MCRequests
  Jobs <- MCJobs
  HrResumes <- MCResumes
  Sessions = {s1, s2}
  Entered <- MCEntered
  None = none
  CallBudget = 3
  EventBudget = 2
SPECIFICATION FairFromFour
INVARIANTS OverlapFlagged WritesFit ReferencesKept
PROPERTIES NoReentry RequestsEnd
CHECK_DEADLOCK FALSE
