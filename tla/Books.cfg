SPECIFICATION Spec
CONSTANTS
  Currencies = {"INR", "USD", "USDT"}
  Unit <- Units
  RateUnit = 10
  BasisPoints = 10000
  ToleranceBps = 200
  Accounts = {"firm", "rise", "exchange", "bank"}
  Dates = {1, 2}
  Settlement = "INR"
  MaxLeg = 2
  Entries <- Typing
  TypedCharges <- SomeCharges
  TdsAmounts <- Tds
  SchedulePlans <- Plans
INVARIANTS SettlementIsHeld
PROPERTIES FreshSaleIsClean AnswerIsOnFile FilledChargeReconciles
