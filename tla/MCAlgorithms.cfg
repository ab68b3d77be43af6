CONSTANTS
  Packets <- MCPackets
  CHUNCKS_NBITS = 1
  ADDRESS_SIZE = 8
  Pairs <- MCPairs
  Searches <- MCSearches
  Garbage <- MCGarbage
SPECIFICATION Spec
CHECK_DEADLOCK FALSE
INVARIANTS ChecksumsValid DamageDetected SameAddress FindsWords
