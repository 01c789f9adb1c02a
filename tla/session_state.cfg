SPECIFICATION FairSpec
CONSTANTS
  s1 = s1
  s2 = s2
  p1 = p1
  p2 = p2
  r1 = r1
  r2 = r2
  r3 = r3
  Runs <- ThreeRuns
  NoRun = NoRun
  MaxRecent = 1
  Sessions = {s1}
  Hooks <- TwoHooks
  NoSession = NoSession
  NoHook = NoHook
  NoDoc = NoDoc
  PidGuard = FALSE
  Starters <- TwoHooks
  Enders = {p1}
  MaxFaults = 1
INVARIANTS
  TypeOK
  LockedIndex
  IndexNamesRuns
PROPERTIES
  ImplementsIndex
  ActiveKept
  EventuallyCollected
CHECK_DEADLOCK FALSE
