SPECIFICATION Spec
SYMMETRY Interchangeable
CHECK_DEADLOCK FALSE
CONSTANTS
  Payouts = {p1, p2}
  NoPayout = NoPayout
  Sent = {"recordCompany", "recordTrader", "recordAccount", "editAccount", "retypeAccount", "recordPayout", "deletePayout", "recordTransaction", "deleteTransaction", "attachDocument", "linkDocument", "deleteDocument", "importLedger"}
  MaxEntries = 1
  MaxSession = 2
  MaxSettle = 1
INVARIANTS CacheIsCoherent OnlyARollbackSurvives
