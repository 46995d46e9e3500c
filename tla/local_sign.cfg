SPECIFICATION Spec
CONSTANTS
  roe = roe
  doe = doe
  judge = judge
  paper = paper
  Names = {roe, doe}
  Titles = {judge}
  Nobody = Nobody
  Docs = {paper}
  Documents <- MCDocuments
  MaxRuns = 2
  MaxKills = 1
INVARIANTS
  OnlyTheirOwn
  FilledWhole
  AttestedWhole
  NoOrphan
CHECK_DEADLOCK FALSE
