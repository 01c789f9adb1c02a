SPECIFICATION Spec
CONSTANTS
  c1 = c1
  c2 = c2
  c3 = c3
  Unknown = Unknown
  NoClaim = NoClaim
  Malformed = Malformed
  Callers = {c1, c2, c3}
  Run <- OwnRuns
  Lane <- OwnRuns
  Session <- OwnRuns
  HeartbeatStale = 0
  ClaimStale = 1
  MaxAttempts = 4
  Leftover = {NoClaim}
  LateCalls = {}
  LateUntil = 2
  SleepMidCall = FALSE
  MaxTime = 2
  MaxFaults = 0
  MaxCrashes = 0
INVARIANTS
  RacingClaimPreserved
