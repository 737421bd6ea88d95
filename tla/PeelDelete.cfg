SPECIFICATION ScopeSpec
CONSTANTS
  PayoutIds = {1, 2}
  LegIds = {1, 2, 3, 4}
  Traders = {"Asha", "Ravi"}
  Companies = {"Tradeify", "Topstep"}
  Drafts <- Awards
  Years = {2023, 2024, 2025}
  Months = {1, 2, 3, 4, 12}
  ThisYear = 2025
  Todays <- Openings
  Everybody = Everybody
INVARIANTS EveryPassLeavesAForest ReadsAgree YearsAreCovered
PROPERTIES DeletesAreAtomic DeletesEnd
