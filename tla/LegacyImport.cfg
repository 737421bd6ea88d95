SPECIFICATION ImportSpec
CHECK_DEADLOCK FALSE
CONSTANTS
  Sheets <- Parts
  Whole <- WholeSheet
  SwappedPair <- Pair
  NoParent = NoParent
  MaxRuns = 3
  MaxTouches = 2
INVARIANTS ImportIsWhole
PROPERTIES SecondRunChangesNothing LegsAreLeftAlone
