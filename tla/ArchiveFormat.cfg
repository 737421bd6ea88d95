SPECIFICATION FormatSpec
CONSTANTS
  Ledgers <- MCLedgers
  Elsewhere <- MCElsewhere
  Currencies <- MCCurrencies
  Edits <- MCEdits
  Files <- MCFiles
CHECK_DEADLOCK FALSE
INVARIANTS LoadsAreSound
PROPERTIES ExportsComeBack RefusedLeavesTheLedger
