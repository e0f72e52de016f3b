SPECIFICATION Spec
CONSTANTS
  Texts = {t1, t2}
  Sessions = {s1, s2}
  MaxPlans = 3
  MaxCriteria = 2
  HrBudget = 4
  FaultBudget = 1
SYMMETRY Symmetric
CHECK_DEADLOCK FALSE
INVARIANT EditInvalidates
