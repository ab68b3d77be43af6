CONSTANTS
  Drivers <- Masking
  Hosts <- AllHosts
  Traffic <- BothWays
  INBUF_SIZE = 4
  DEV_MTU = 9
SPECIFICATION Spec
INVARIANTS BytesInOrder
PROPERTIES QuietHandled PacketsReachTun
