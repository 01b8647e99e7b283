SPECIFICATION Spec
CONSTANTS
  a = a
  b = b
  c = c
  far = far
  p = p
  q = q
  r = r
  NoAddr = NoAddr
  Node = {a, b, c}
  HopModulus = 2
  Link <- Line
  InitNbr <- NoNbr
  Packet = {p, q}
  Src <- RowSrc
  Dst <- RowDst
  JunkChoice <- HighJunk
  OldRreqCount = 1
  PacketBufferSize = 1
  Lossy = FALSE
  MaxRreq = 2
INVARIANTS
  TypeOK
  NextHopKnows
  ReceiverKnows
  SenderKnows
  NoHang
  SeqGenuine
  RequestsDistinct
  SingleCopy
  RequestsRemembered
CHECK_DEADLOCK FALSE
