SPECIFICATION FairSpec
CONSTANTS
  s1 = s1
  s2 = s2
  r1 = r1
  main = main
  dev = dev
  bad = bad
  fix = fix
  Nobody = Nobody
  Absent = Absent
  Syncs = {s1, s2}
  Refreshers = {r1}
  Branches <- TwoBranches
  Changes = {bad, fix}
  LaneChanges = {fix}
  BadChange = bad
  FixChange = fix
  Refreshed = {main}
  Cloned <- AnyClone
  SharedTrees = {TRUE, FALSE}
  FaultKinds = {"slow", "fetch", "set-head", "crash", "plain-fetch"}
  MaxTroubles = 1
INVARIANTS
  CloneInv
  ServesWhatParses
  FreshIsFresh
PROPERTIES
  SyncsDropNothing
  EventuallyCurrent
