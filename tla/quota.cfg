SPECIFICATION FairSpec
CONSTANTS
  Worlds = {
    {"claude", "fails", "busy"},
    {"claude", "switch"},
    {"claude", "expiring"},
    {"claude", "refused"},
    {"claude", "again"},
    {"claude", "probe", "throttled", "renews", "unused"},
    {"codex", "refresh"},
    {"codex", "probe", "throttled", "renews", "unused"},
    {"codex", "log", "fails"},
    {"codex", "early", "renews"},
    {"codex", "off", "throttled"},
    {"codex", "three", "broken"} }
  MaxFailures = 1
  IntervalMin = 2
  Interval = 3
  CodexRecover = 3
  IdleQuotaInterval = 3
  RetryMin = 1
  RetryMax = 2
  ServerDelay = 2
  Backoff = 3
  ResetGrace = 1
  ManualSpacing = 1
  ExpiringSettle = 1
  Window = 2
  DefaultCooling = 3
  Cap = 4
INVARIANT TypeOK
PROPERTIES Evidence FailureIsNoEvidence NoStarvation Rotates DeadlineKept
