SPECIFICATION FairSpec
CONSTANTS
  MaxBssids = 2
  QueueLen = 3
  BackoffInitial = 1
  BackoffMax = 3
  AttemptTimeout = 4
  AttemptQuiet = 1
INVARIANTS
  TypeOK
  NoLimbo
  BeliefTracksDriver
  AssociationNotInvented
PROPERTIES
  AssociationForgotten
  RetryClashOnlyAtStart
  NeverStranded
