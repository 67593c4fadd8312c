\* Three threads of one host and one of another, one action, every fault.
SPECIFICATION AgentSpec
CONSTANTS
  h1 = h1
  h2 = h2
  c1 = c1
  c2 = c2
  c3 = c3
  c4 = c4
  k1 = k1
  Hosts = {h1, h2}
  Callers = {c1, c2, c3, c4}
  HostOf <- TwoHosts
  Types <- SlackOnly
  Keys = {k1}
  NoKey = NoKey
  TypeOf <- AllSlack
  MaxAttempts = 2
  FailureThreshold = 2
  LostReplies = TRUE
  MaxCalls = 1
  MaxFaults = 1
SYMMETRY Threads
INVARIANTS AgentTypeOK RepeatHasCause ClosedBelowThreshold
\* The callers may all have used up MaxCalls.
CHECK_DEADLOCK FALSE
