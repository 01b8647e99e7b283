SPECIFICATION FairStaticSpec
CONSTANTS
  a = a
  b = b
  c = c
  far = far
  p = p
  q = q
  r = r
  NoAddr = NoAddr
  Node = {a, b, c}
  HopModulus = 8
  Link <- Line
  InitNbr <- LinkNbr
  Packet = {p, q, r}
  Src <- TrioSrc
  Dst <- TrioDst
  JunkChoice <- ZeroJunk
  OldRreqCount = 3
  PacketBufferSize = 2
  Lossy = FALSE
  MaxRreq = 3
PROPERTY Delivery
CHECK_DEADLOCK FALSE
