SPECIFICATION StoreSpec
CONSTANTS
  r1 = r1
  r2 = r2
  b1 = b1
  b2 = b2
  b3 = b3
  Records = {r1, r2}
  Tags = {"sms", "mms"}
  MaxDay = 4
  Backups = {b1, b2, b3}
  Taken <- MCTaken
  Small = {}
  Shuffled = {b2}
  Margin = 1
  Sinces = {1, 2}
SYMMETRY Symmetry
INVARIANTS
  CoverageHonest
  NewestComplete
  SoleWitness
