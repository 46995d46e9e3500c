SPECIFICATION FairSpec
CONSTANTS
  Flows <- MCFlows
  Names <- MCNames
  MaxCrashes = 1
  MaxResumes = 3
INVARIANTS
  Coherent
  CompleteIsEarned
PROPERTIES
  AsOne
  EveryRunEnds
CHECK_DEADLOCK FALSE
