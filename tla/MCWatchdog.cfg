SPECIFICATION Spec
CONSTANTS
  W = 14
  LoopStall = 3
  UplinkStall = 4
  Poll = 2
  Lateness = 2
  Horizon = 12
INVARIANTS
  TypeOK
  StallIsBounded
  OutageIsBounded
PROPERTIES
  RebootJustified
