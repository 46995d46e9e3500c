SPECIFICATION FairSpec
CONSTANTS
  t = t
  m1 = m1
  m2 = m2
  Threads = {t}
  Msgs <- MCMsgs
  ThreadOf <- MCThread
  NoThread = NoThread
  Legacy = {}
  Old = {}
  Modes = {"pull"}
  FullEvery = 2
  MinWindow = 1
  Slack = 1
  MaxChanges = 2
  MaxCrashes = 1
  MaxTorn = 0
PROPERTIES
  NothingEscapes
  EventuallyStored
