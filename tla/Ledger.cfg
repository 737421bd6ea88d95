SPECIFICATION Spec
CONSTANTS
  MaxPayout = 2
  MaxLeg = 2
  MaxAccount = 2
  Currencies = {"INR", "USDT"}
  AllowLists <- NarrowLists
  ChargeLists <- NoFees
  SchedulePlans <- TwoStepPlans
  TdsLists <- NoFees
  MayCrash = TRUE
INVARIANTS RowsHoldTogether CountIsWhatGoes
PROPERTIES ReusedIdIsClean LegsFollowTheTree OnlyNarrowingContradicts
