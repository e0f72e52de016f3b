SPECIFICATION FairFromFirst
CONSTANTS
  Texts = {t1, t2}
  Sessions = {s1, s2}
  MaxPlans = 3
  MaxCriteria = 1
  HrBudget = 5
  FaultBudget = 1
CHECK_DEADLOCK FALSE
INVARIANTS RowConstraints StableIds DraftFitsJob
PROPERTIES GenerationEnds ConfirmedStays
