SPECIFICATION GuardSpec
CONSTANTS
  c1 = c1
  c2 = c2
  Unknown = Unknown
  NoClaim = NoClaim
  Malformed = Malformed
  Callers = {c1, c2}
  Run <- OneRun
  Lane <- TwoLanes
  Session <- OneRun
  HeartbeatStale = 0
  ClaimStale = 1
  MaxAttempts = 4
  Leftover = {NoClaim, Malformed}
  LateCalls = {"release"}
  LateUntil = 1
  SleepMidCall = FALSE
  MaxTime = 3
  MaxFaults = 0
  MaxCrashes = 0
  Unnamed = {}
INVARIANTS
  GuardTypeOK
  MutualExclusion
  RacingClaimPreserved
  OwnerMutatesAlone
