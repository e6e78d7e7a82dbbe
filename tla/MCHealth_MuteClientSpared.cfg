SPECIFICATION Spec
CONSTANTS
  c1 = c1
  c2 = c2
  Gateway = Gateway
  NoClient = NoClient
  Clients <- TwoClients
  Mute <- Second
  W = 1
  RadioPoll = 0
  ApQueueLen = 1
  RoundInterval = 1
  UplinkFailStreak = 1
  ClientFailStreak = 1
  MaxStreak = 1
PROPERTY
  MuteClientSpared
