SPECIFICATION FairSpec
CONSTANTS
  b1 = b1
  b2 = b2
  Browsers <- TwoBrowsers
  Nobody = Nobody
  W = 14
  SessionTtl = 2
  RebootDelay = 2
  SpeedMax = 2
  StepTime = 1
INVARIANT
  SpeedTestEnds
PROPERTIES
  SessionLastsAsUsed
  RestartComes
