SPECIFICATION Spec
CONSTANTS
  a1 = a1
  a2 = a2
  None = None
  Accounts = {a1, a2}
  MaxIssued = 1
  Worlds = {{"kimi", "half"}}
  MaxFaults = 1
PROPERTY NeverBackToSpent
