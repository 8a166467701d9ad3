SPECIFICATION Spec
CONSTANTS
  r1 = r1
  r2 = r2
  g1 = g1
  g2 = g2
  None = None
  SelfUpgrade = SelfUpgrade
  Runners = {r1, r2}
  Generations = {g1}
  MaxFaults = 0
  Events = {}
INVARIANT NeverCancelled
