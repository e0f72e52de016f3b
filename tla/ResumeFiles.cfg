SPECIFICATION FairSpec
CONSTANTS
  s1 = s1
  s2 = s2
  sweeper = sweeper
  Resumes <- MCResumes
  Parsed <- MCParsed
  Sessions <- MCSessions
  Sweeper = sweeper
  MaxAttempts = 2
  CallBudget = 3
  FaultBudget = 1
  BatchSize = 1
INVARIANTS FilesFitRows SweepsOnlyExpired
PROPERTIES AppliedKept DraftIsLatest SweepFinishes
