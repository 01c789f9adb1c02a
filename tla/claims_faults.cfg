SPECIFICATION GuardFairSpec
CONSTANTS
  c1 = c1
  c2 = c2
  Unknown = Unknown
  NoClaim = NoClaim
  Malformed = Malformed
  Callers = {c1, c2}
  Run <- OwnRuns
  Lane <- OwnRuns
  Session <- OwnRuns
  HeartbeatStale = 0
  ClaimStale = 1
  MaxAttempts = 4
  Leftover = {NoClaim, Malformed}
  LateCalls = {"release", "heartbeat", "cleanup"}
  LateUntil = 2
  SleepMidCall = FALSE
  MaxTime = 2
  MaxFaults = 1
  MaxCrashes = 1
  Unnamed = {}
INVARIANTS
  RefusalJustified
PROPERTIES
  AcquireAnswers
