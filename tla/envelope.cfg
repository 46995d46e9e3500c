SPECIFICATION Spec
CONSTANTS
  Envelopes = {"E1", "E2"}
  Entries <- MCEntries
  Holds <- MCHolds
  Kind <- MCKind
  Files <- MCFiles
  Own <- MCOwn
  Uses <- MCUses
  Workers = 2
  Tool = "tool"
  Defaults = "defaults"
  Asked <- MCAsked
  MaxEdits = 1
  MaxRuns = 2
  MaxTroubles = 1
INVARIANTS
  OnlyWindows
  Settles
PROPERTIES
  SentStays
CHECK_DEADLOCK FALSE
