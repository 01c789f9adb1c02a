SPECIFICATION Spec
CONSTANTS
  NumRecords = 3
  EventTypes <- MCEventTypes
  LedgerTypes <- MCLedger
  WriterTypes = {tool, denied, ledger}
  JournalBound = 2
  NoType = NoType
  LegacyTypes <- MCLegacy
  Semantic <- MCSemantic
  MalformedTypes <- MCMalformed
  Granted = {tool, ledger}
  Provisionable = {denied}
  Registries <- FullOnly
  Modes <- ResidentOnly
  BatchLimit = 3
  QuarantineAfter = 2
  ProbeClasses = 3
  NoRecord = NoRecord
  MaxFaults = 1
  MaxOutages = 1
  MaxInstalls = 0
  tool = tool
  denied = denied
  prompt = prompt
  ledger = ledger
  legacy = legacy
  broken = broken
  orphan = orphan
INVARIANT TypeOK
INVARIANT Accounted
INVARIANT LedgerRowKept
INVARIANT DeadLetterExplained
PROPERTY EvictionOnlyOverBound
PROPERTY ImplementsOutbox
