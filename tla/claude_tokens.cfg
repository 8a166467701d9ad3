SPECIFICATION Spec
CONSTANTS
  a1 = a1
  a2 = a2
  None = None
  Accounts = {a1, a2}
  MaxTokens = 3
  Events = {"fails", "cli", "rotate", "login", "logout", "enroll"}
  MaxFaults = 2
SYMMETRY Interchangeable
INVARIANTS TypeOK SpentOnce OldPairsFenced
PROPERTIES KeepsLast ForeignLoginKept
