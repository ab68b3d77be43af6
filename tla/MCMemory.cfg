CONSTANTS
  N = 4
  Sizes = {0, 3, 8}
  UserWords <- MCUserWords
SPECIFICATION FairSpec
INVARIANTS IInv Defragmented MonitorExact
PROPERTIES AbsSpec CallsReturn
