SPECIFICATION MCSpec
CONSTANTS
  Header <- MCHeader
  Mac = {m1, m2}
  Ip = {i1}
  CollectAll = FALSE
  None = None
  Elem = {x, y, z}
  Nothing = Nothing
  MaxSize = 4
  Key = {k1, k2, k3}
  Value = {v1, v2}
  NotFound = NotFound
  k1 = k1
  k2 = k2
  k3 = k3
  hashSize = 2
  hashFn <- MCHashFn
  Address = {a1, a2, a3, a4}
  nullptr = nullptr
  p1 = p1
  p2 = p2
  p3 = p3
  Port = {p1, p2, p3}
  PortId <- MCPortId
  ROUTING_PORT = 0
  UDP_QUEUE_SIZE = 1
  MaxSockets = 3
INVARIANTS FieldsTile FieldsNamed Watched PortsListen
PROPERTIES FifoSpec MapSpec
CHECK_DEADLOCK FALSE
