SPECIFICATION Spec
CONSTANTS
  r1 = r1
  r2 = r2
  g1 = g1
  g2 = g2
  None = None
  SelfUpgrade = SelfUpgrade
  Runners = {r1}
  Generations = {g1, g2}
  MaxFaults = 3
  Events = {"work", "exit", "crash", "sigterm", "sigkill", "forget", "quiet",
           "overdue", "upgrade", "exec_fails", "exec_dies", "gate", "disk", "lost",
           "cancel", "replace", "manual", "expiring", "write_fails",
           "daemon_crash", "resume", "adopt"}
INVARIANT CommitMeansWritten
PROPERTIES ReleaseDecisionStands RecordKept
