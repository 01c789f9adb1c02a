SPECIFICATION FairSpec
CONSTANTS
  NumRecords = 2
  EventTypes <- MCEventTypes
  LedgerTypes <- MCLedger
  WriterTypes = {ledger, broken, legacy, orphan}
  JournalBound = 1
  NoType = NoType
  LegacyTypes <- MCLegacy
  Semantic <- MCSemantic
  MalformedTypes <- MCMalformed
  Granted = {tool, ledger}
  Provisionable = {}
  Registries <- Upgrades
  Modes <- TwoModes
  BatchLimit = 3
  QuarantineAfter = 2
  ProbeClasses = 3
  NoRecord = NoRecord
  MaxFaults = 1
  MaxOutages = 0
  MaxInstalls = 1
  tool = tool
  denied = denied
  prompt = prompt
  ledger = ledger
  legacy = legacy
  broken = broken
  orphan = orphan
INVARIANT DeliveryInv
INVARIANT SetAsideAfterAnswer
PROPERTY ImplementsOutbox
PROPERTY DeferredReleased
PROPERTY OnlyRefusedSetAside
