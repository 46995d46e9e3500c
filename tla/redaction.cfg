SPECIFICATION RedactSpec
CONSTANTS
  Words <- MCWords
  Labels <- MCLabels
  Says <- MCSays
  Breaks <- MCBreaks
  Fold <- MCFold
  Bracketed = {"[NAME SEALED]"}
  Long <- MCLong
  Gone = "gone"
  Documents <- MCDocuments
  Configs <- MCConfigs
  TermLists <- MCTerms
  Schedules <- MCSchedules
INVARIANTS
  NamedIsGone
  VerdictIsExact
  OffPageGone
CHECK_DEADLOCK FALSE
