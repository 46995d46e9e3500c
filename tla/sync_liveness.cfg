SPECIFICATION FairSpec
CONSTANTS
  job = job
  term = term
  gmail = gmail
  portal = portal
  docket = docket
  mail = mail
  notice = notice
  entry = entry
  file = file
  Procs = {job}
  ModesOf <- MCJobAlone
  Configured = {gmail}
  Installed = {gmail}
  Quiet = {gmail}
  Rank <- MCRank
  Gmail = gmail
  Items <- MCMail
  SourceOf <- MCMailOf
  Files = {file}
  MaxItems = 1
  MaxVersion = 1
  StaleAfter = 0
  MinInterval = 1
  MaxCrashes = 1
  StreakCap = 1
PROPERTIES
  EventuallyPulled
