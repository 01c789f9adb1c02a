SPECIFICATION Spec
CONSTANTS
  c1 = c1
  c2 = c2
  Nobody = Nobody
  Consumers <- OneConsumer
  LastOffset = 3
  Poison <- NoPoison
  BatchSize = 2
  MaxRetries = 1
  MaxFaults = 1
  MaxMoves = 0
INVARIANT PassedMeansKept
