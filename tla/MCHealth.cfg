SPECIFICATION FairSpec
CONSTANTS
  c1 = c1
  c2 = c2
  Gateway = Gateway
  NoClient = NoClient
  Clients <- OneClient
  Mute <- NoHost
  W = 1
  RadioPoll = 0
  ApQueueLen = 1
  RoundInterval = 1
  UplinkFailStreak = 2
  ClientFailStreak = 2
  MaxStreak = 2
INVARIANT
  TypeOK
PROPERTIES
  RecoveryNeedsSilence
  WedgesEnd
