CONSTANTS
  c1 = c1
  c2 = c2
  volatile = volatile
  persistent = persistent
  alert = alert
  stream = stream
  Conns = {c1, c2}
  Handlers = {volatile, persistent, alert, stream}
  Size <- MCSize
  Persistent = {persistent}
  Comet = {alert, stream}
  Stream = {stream}
  WithArgs = {volatile}
  Scenarios <- MCScenarios
  MaxTrouble = 2
  MaxAsked = 2
  MaxPushes = 2
  MaxWire = 3
  HeaderSize <- MCHeaderSize
  OUTPUT_BUFFER_SIZE = 2
  Mss = 5
  Cwnd = 10
  None = None
SPECIFICATION FairSpec
CHECK_DEADLOCK FALSE
INVARIANTS StreamIsContent HeapExact NoFault
PROPERTY AllAnswered
