SPECIFICATION FairStaticSpec
CONSTANTS
  a = a
  b = b
  c = c
  far = far
  p = p
  q = q
  r = r
  NoAddr = NoAddr
  Node = {a, b, c, far}
  HopModulus = 5
  Link <- OneWay
  InitNbr <- LinkNbr
  Packet = {p, q}
  Src <- RowSrc
  Dst <- FarDst
  JunkChoice <- ZeroJunk
  OldRreqCount = 3
  PacketBufferSize = 1
  Lossy = TRUE
  MaxRreq = 2
PROPERTY FloodEnds
CHECK_DEADLOCK FALSE
