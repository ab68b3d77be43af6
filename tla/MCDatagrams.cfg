CONSTANTS
  Builds <- SeparateBuilds
  Addresses = {1, 2, 3}
  Bursty = {58}
  MaxOthers = 1
  MaxLosses = 1
  MaxDuplicates = 1
SPECIFICATION Spec
CHECK_DEADLOCK FALSE
INVARIANTS AnswersAreOwed BoundIsLeased
PROPERTIES EveryQuestionAnswered EventuallyBound
