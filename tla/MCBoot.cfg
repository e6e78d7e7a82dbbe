SPECIFICATION FairSpec
CONSTANTS
  Brightnesses <- AllBrightnesses
  LastOctets <- SomeOctets
INVARIANTS
  TypeOK
  ResolverOffered
  StatesTellApart
PROPERTY
  LedTells
