\* One request at a time, three steps (one of them unknown), Redis faults and record expiry.
SPECIFICATION SerialSpec
CONSTANTS
  h1 = h1
  h2 = h2
  r1 = r1
  r2 = r2
  r3 = r3
  r4 = r4
  p1 = p1
  p2 = p2
  p3 = p3
  Hosts = {h1}
  Requests = {r1, r2, r3}
  Reviewers = {p1, p2}
  NTiers = 2
  HostOf <- OneHost
  Steps <- TwoSteps
  Unregistered = {"legacy"}
  Types <- ActionTypes
  TypeOf <- OwnType
  NoKey = NoKey
  MaxAttempts = 2
  FailureThreshold = 1
  LostReplies = FALSE
  MaxFaults = 1
  DatabaseErrors = FALSE
PROPERTY KeepsThePromise
\* Every request may have been answered.
CHECK_DEADLOCK FALSE
