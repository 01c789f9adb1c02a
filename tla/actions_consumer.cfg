SPECIFICATION FairSpec
CONSTANTS
  c1 = c1
  c2 = c2
  Nobody = Nobody
  Consumers <- TwoConsumers
  LastOffset = 3
  Poison <- SecondIsPoison
  BatchSize = 2
  MaxRetries = 1
  MaxFaults = 1
  MaxMoves = 2
INVARIANTS
  TypeOK
  StoredOnceWhileStable
PROPERTIES
  ImplementsLogReader
  EveryMessageDealtWith
