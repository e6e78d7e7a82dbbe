SPECIFICATION RouterFairSpec
CONSTANTS
  MaxBssids = 1
  QueueLen = 2
  BackoffInitial = 1
  BackoffMax = 2
  AttemptTimeout = 3
  AttemptQuiet = 1
PROPERTIES
  SupervisorKept
  LostUplinkEndsNapt
  HeldUplinkServes
