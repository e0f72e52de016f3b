SPECIFICATION ViewSpec
CONSTANTS
  MaxRounds = 2
  MaxRecords = 3
  MaxVersion = 3
  Reasons = {r1}
  Tracked <- MCRecordCalls
INVARIANTS RowConstraints RecordsBacked ViewsAgree RecordCallsOnce
PROPERTIES DecisionsStay FunnelKeeps
CHECK_DEADLOCK FALSE
