SPECIFICATION MCSpec
CONSTANTS
  fields <- MCFields
  Texts <- MCTexts
  Hits <- MCHits
  Values = {"", "bad"}
  Invalid = {"bad"}
  MaxFilters = 2
  MaxEdits = 3
  MaxTimers = 1
INVARIANT HighlightNamesAField
PROPERTY EditsKeepTheRules
CHECK_DEADLOCK FALSE
