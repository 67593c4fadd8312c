SPECIFICATION FairSpec
CONSTANTS
  d = d
  t = t
  w1 = w1
  w2 = w2
  r1 = r1
  r2 = r2
  r3 = r3
  Contents = {t}
  Datasets = {t}
  Requests = {r1, r2, r3}
  Ops <- Operations
  Workers = {w1}
  MaxAssets = 2
  MaxJobs = 2
  Errors = TRUE
  Mortal = {r1}
  MaxFaults = 1
CHECK_DEADLOCK FALSE
PROPERTY JobsSettle
PROPERTY UploadsArrive
