SPECIFICATION MCSpec
CONSTANTS
  n1 = n1
  n2 = n2
  File <- MCFile
  Factor = {2}
  Precision = 16
  MaxScalings = 1
  Device = {d1, d2}
  Application = {a1}
  Handler = {h1}
  Protocol = {1}
  Listener = {l1}
  NoDevice = NoDevice
  MaxHandlers = 2
  NetDevice = {d1}
  NoNetDevice = NoDevice
  Tos <- MCTos
  Ttl = {1}
  Ip = {n1, n2}
  BROADCAST = BROADCAST
  Length = {1, 3}
  HelloLength = 1
  HEADER = 1
  Bandwidth = 40
  SECOND = 2
  HELLO_TIME = 4
  Start <- MCStart
  None = None
  MaxTime = 4
  MaxSent = 3
INVARIANTS ListenersTold OncePerPacket BandwidthKept
PROPERTIES SightIsClear TosSettles
CHECK_DEADLOCK FALSE
