SPECIFICATION Spec
CONSTANTS
  a = a
  b = b
  c = c
  far = far
  p = p
  q = q
  r = r
  NoAddr = NoAddr
  Node = {a, b, c}
  HopModulus = 8
  Link <- Line
  InitNbr <- NoNbr
  Packet = {p, q}
  Src <- CrossedSrc
  Dst <- CrossedDst
  JunkChoice <- ZeroJunk
  OldRreqCount = 3
  PacketBufferSize = 1
  Lossy = FALSE
  MaxRreq = 1
INVARIANT ErrorHasReceiver
CHECK_DEADLOCK FALSE
