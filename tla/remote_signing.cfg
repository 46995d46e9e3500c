SPECIFICATION FairSpec
CONSTANTS
  a = a
  b = b
  NPdf = 2
  MaxSubs = 2
  DocNames = {a, b}
  Bundle <- MCBundle
  Pollers = {1}
  MaxCrashes = 1
INVARIANTS
  SettledIsTrue
PROPERTIES
  NeverOverwrites
  EventuallyReturned
