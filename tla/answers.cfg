CONSTANTS
  Documents <- MCDocuments
  SampleSeqs <- MCSampleSeqs
  Logs <- MCLogs
  IntervalMin = 300
  IntervalMax = 900
  ETAChecks = 6
  KeepRecent = 2
SPECIFICATION Spec
INVARIANTS TypeOK NeverTooEarly NeverMissed ResetWaits InTime PruneKeepsReads
CHECK_DEADLOCK FALSE
