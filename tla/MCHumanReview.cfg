\* Three concurrent requests, a chain of two tiers, database errors and restarts.
SPECIFICATION FairSpec
CONSTANTS
  h1 = h1
  h2 = h2
  r1 = r1
  r2 = r2
  r3 = r3
  r4 = r4
  p1 = p1
  p2 = p2
  p3 = p3
  Hosts = {h1, h2}
  Requests = {r1, r2, r3}
  Reviewers = {p1, p2}
  NTiers = 2
  HostOf <- TwoHosts
  Steps <- OneStep
  Unregistered = {"legacy"}
  Types <- ActionTypes
  TypeOf <- OwnType
  NoKey = NoKey
  MaxAttempts = 1
  FailureThreshold = 1
  LostReplies = FALSE
  MaxFaults = 1
  DatabaseErrors = TRUE
INVARIANTS TypeOK DistinctApprovers EveryTierSigned ExecutedIsTrue
PROPERTIES NeverReopened LastSignOffSettles
\* Every request may have been answered.
CHECK_DEADLOCK FALSE
