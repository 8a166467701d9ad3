SPECIFICATION FairSpec
CONSTANTS
  r1 = r1
  r2 = r2
  g1 = g1
  g2 = g2
  None = None
  SelfUpgrade = SelfUpgrade
  Runners = {r1, r2}
  Generations = {g1}
  MaxFaults = 1
  Events = {"work", "exit", "crash", "cancel", "quiet", "overdue", "write_fails"}
PROPERTIES DrainEnds SessionsReturn LetGo
