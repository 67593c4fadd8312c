\* One thread asks twice for an action whose attempts all fail.
SPECIFICATION AgentSpec
CONSTANTS
  h1 = h1
  h2 = h2
  c1 = c1
  c2 = c2
  c3 = c3
  c4 = c4
  k1 = k1
  Hosts = {h1, h2}
  Callers = {c1}
  HostOf <- TwoHosts
  Types <- SlackOnly
  Keys = {k1}
  NoKey = NoKey
  TypeOf <- AllSlack
  MaxAttempts = 2
  FailureThreshold = 2
  LostReplies = FALSE
  MaxCalls = 2
  MaxFaults = 0
INVARIANT AlreadyExecutedIsTrue
\* The callers may all have used up MaxCalls.
CHECK_DEADLOCK FALSE
