SPECIFICATION Spec
CONSTANTS
  t = t
  m1 = m1
  m2 = m2
  Threads = {t}
  Msgs <- MCMsgs
  ThreadOf <- MCThread
  NoThread = NoThread
  Legacy = {t}
  Old = {m1}
  Modes = {"pull", "full", "force", "backfill"}
  FullEvery = 1
  MinWindow = 1
  Slack = 0
  MaxChanges = 3
  MaxCrashes = 1
  MaxTorn = 1
INVARIANTS
  DraftsStayOut
  SkippedIsDone
  RecordedIsStored
