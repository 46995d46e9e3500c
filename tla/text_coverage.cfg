SPECIFICATION FairSpec
CONSTANTS
  Looks <- MCLooks
  MaxTroubles = 1
INVARIANTS
  CacheHonest
  TextHonest
PROPERTIES
  EventuallySearched
