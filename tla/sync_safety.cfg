SPECIFICATION Spec
CONSTANTS
  job = job
  term = term
  gmail = gmail
  portal = portal
  docket = docket
  mail = mail
  notice = notice
  entry = entry
  file = file
  Procs <- MCProcs
  ModesOf <- MCJobAndTerm
  Configured <- MCConnectors
  Installed = {gmail, portal}
  Quiet = {gmail}
  Rank <- MCRank
  Gmail = gmail
  Items <- MCItems
  SourceOf <- MCSourceOf
  Files = {}
  MaxItems = 1
  MaxVersion = 1
  StaleAfter = 0
  MinInterval = 1
  MaxCrashes = 1
  StreakCap = 1
INVARIANTS
  MutexUntilBroken
PROPERTIES
  GuardCoversArrivals
  Intakes
