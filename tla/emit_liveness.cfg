SPECIFICATION FairOrderSpec
CONSTANTS
  NumRecords = 3
  EventTypes <- MCEventTypes
  LedgerTypes <- MCLedger
  WriterTypes = {tool, denied, prompt}
  JournalBound = 3
  NoType = NoType
  LegacyTypes <- MCLegacy
  Semantic <- MCSemantic
  MalformedTypes <- MCMalformed
  Granted = {tool, ledger}
  Provisionable = {}
  Registries <- FullOnly
  Modes <- ResidentOnly
  BatchLimit = 3
  QuarantineAfter = 2
  ProbeClasses = 3
  NoRecord = NoRecord
  MaxFaults = 1
  MaxOutages = 1
  MaxInstalls = 0
  tool = tool
  denied = denied
  prompt = prompt
  ledger = ledger
  legacy = legacy
  broken = broken
  orphan = orphan
PROPERTY AuthorisedLeavesJournal
PROPERTY OrderKept
