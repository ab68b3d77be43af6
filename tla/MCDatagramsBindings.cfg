CONSTANTS
  Builds <- BothBindings
  Addresses = {1, 2, 3}
  Bursty = {58}
  MaxOthers = 1
  MaxLosses = 0
  MaxDuplicates = 0
SPECIFICATION Spec
CHECK_DEADLOCK FALSE
INVARIANTS AnswersAreOwed
