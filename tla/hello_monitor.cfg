SPECIFICATION FairSpec
CONSTANTS
  Node = {a, b}
  HalfInterval = 1
  TTL = 4
  Duration = 2
  IntModulus = 16
  QueueSize = 1
  Late = 1
INVARIANTS
  FreshLinked
  StaleBound
PROPERTIES
  NoFalseDenial
  LinksSpec
  Forgotten
  NoneStuck
