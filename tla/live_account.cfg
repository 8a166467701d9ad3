SPECIFICATION FairSpec
CONSTANTS
  a1 = a1
  a2 = a2
  None = None
  Accounts = {a1, a2}
  MaxIssued = 2
  Worlds = {
    {"grok", "client"},
    {"kimi", "client", "login"},
    {"codex", "old"},
    {"codex", "old", "again"},
    {"codex", "dies", "login", "forget"},
    {"kimi", "dies", "login", "logout"},
    {"grok", "half"} }
  MaxFaults = 1
INVARIANT TypeOK
PROPERTIES NoDoubleSpend NewestKept LiveNewest PointerFollows
