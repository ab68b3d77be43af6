CONSTANTS
  Periods = {1, 3}
  Width = 8
  ClockMod = 16
  HeapTimers = 3
  MaxGap = 2
SPECIFICATION Spec
INVARIANT CallsMatchTime
PROPERTY TimersReturn
