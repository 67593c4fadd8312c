\* One approves and one rejects at the same time; no faults.
SPECIFICATION Spec
CONSTANTS
  h1 = h1
  h2 = h2
  r1 = r1
  r2 = r2
  r3 = r3
  r4 = r4
  p1 = p1
  p2 = p2
  p3 = p3
  Hosts = {h1}
  Requests = {r1, r2}
  Reviewers = {p1, p2}
  NTiers = 1
  HostOf <- OneHost
  Steps <- OneStep
  Unregistered = {"legacy"}
  Types <- ActionTypes
  TypeOf <- OwnType
  NoKey = NoKey
  MaxAttempts = 1
  FailureThreshold = 2
  LostReplies = FALSE
  MaxFaults = 0
  DatabaseErrors = FALSE
PROPERTY RejectionIsFinal
\* Every request may have been answered.
CHECK_DEADLOCK FALSE
