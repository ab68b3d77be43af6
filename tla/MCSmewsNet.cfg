CONSTANTS
  p1 = p1
  f1 = f1
  f2 = f2
  Peers = {p1}
  Files = {f1, f2}
  NotFound = f2
  Length <- MCLength
  Chunk = 2
  BASIC_SEQNO = 10
  InMod = 64
  MAX_MSS = 4
  MssMod = 8
  HeapConns = {1}
  TickMod = 2
  Rto = 0
  None = None
  Iss <- MCIss
  Requests <- MCRequests
  Cuts <- MCCuts
  Windows = {4}
  Mss = 2
  Capacity = 2
SPECIFICATION Spec
INVARIANTS StreamIsAnswers WindowRespected
