SPECIFICATION Spec
CONSTANTS
  s1 = s1
  s2 = s2
  p1 = p1
  p2 = p2
  r1 = r1
  r2 = r2
  r3 = r3
  Runs <- ThreeRuns
  NoRun = NoRun
  MaxRecent = 2
  Sessions <- TwoSessions
  Hooks <- TwoHooks
  NoSession = NoSession
  NoHook = NoHook
  NoDoc = NoDoc
  PidGuard = TRUE
  Starters <- TwoHooks
  Enders <- TwoHooks
  MaxFaults = 1
PROPERTY
  EndsOwnRun
