SPECIFICATION FairSpec
CONSTANTS
  d = d
  t = t
  w1 = w1
  w2 = w2
  r1 = r1
  r2 = r2
  r3 = r3
  Contents = {d}
  Datasets = {}
  Requests = {r1, r2}
  Ops <- Uploads
  Workers = {w1}
  MaxAssets = 1
  MaxJobs = 2
  Errors = FALSE
  Mortal = {w1}
  MaxFaults = 1
CHECK_DEADLOCK FALSE
PROPERTY NoUploadLost
