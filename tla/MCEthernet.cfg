CONSTANTS
  Ips = {1, 2, 3}
  NullIp = 0
  Links = {"a", "b", "c", "d"}
  NoLink = "none"
  LINK_LAYER_CACHE_MAX_ENTRY = 2
  Counter = FALSE
  MaxTime = 1
  Traffic <- Frames
  RX_DESCRIPTORS = 4
  TX_DESCRIPTORS = 3
  TX_BUFFER_COUNT = 1
  DEV_MTU = 3
  Spared <- Windows
  Prompt = TRUE
SPECIFICATION Spec
CHECK_DEADLOCK FALSE
INVARIANTS CacheSound FrameKept AnswersReachHosts
 
