CONSTANTS
  p1 = p1
  p2 = p2
  p3 = p3
  f1 = f1
  f2 = f2
  Peers = {p1, p2, p3}
  Files = {f1, f2}
  NotFound = f2
  Length <- MCLength
  Chunk = 2
  BASIC_SEQNO = 10
  InMod = 64
  MAX_MSS = 4
  MssMod = 8
  HeapConns = {1, 2}
  TickMod = 6
  Rto = 1
  None = None
  Iss <- MCIss
  Requests <- MCRequests
  Cuts <- MCCuts
  Windows = {4}
  Mss = 2
  Lossy = {"SYN", "request", "ACK", "data"}
  MaxLosses = 1
  LossTicks <- MCLossTicks
SPECIFICATION LiveSpec
INVARIANT ListIsConnections
PROPERTIES AllSettled AllFreed TakeTurns
