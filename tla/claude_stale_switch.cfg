SPECIFICATION Spec
CONSTANTS
  a1 = a1
  a2 = a2
  None = None
  Accounts = {a1, a2}
  MaxTokens = 2
  Events = {"fails", "stale_switch"}
  MaxFaults = 2
INVARIANT OldPairsFenced
