CONSTANTS
  Clients = {c1}
  NoClient = none
  W = 6
  RadioPoll = 1
  ApQueueLen = 2
  LeaseGrace = 2
  LoopStall = 1
SPECIFICATION FairSpec
INVARIANTS
  TypeOK
  FlagFollowsDriver
  BlackholeEnds
  WindowRespected
PROPERTY
  NeverStuckOff
