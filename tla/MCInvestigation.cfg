SPECIFICATION FairSpec
CONSTANTS
  Monitors = {m1, m2}
  Triggers = {w}
  MetricHours = {"sales 9h"}
  Stages = {"memory"}
  Plan <- Runbook
  RagOutcomes <- RagFinds
  KpiOutcomes <- KpiFinds
  MaxDepth = 3
  LLMEnabled = TRUE
  Enforced = TRUE
  Outages = {"redis", "llm", "database", "planner"}
  MaxEvents = 2
  MaxDeaths = 1
INVARIANTS TypeOK OneInvestigationPerWindow WithheldUntilApproved EveryStepAccounted
INVARIANTS EveryStageSpokeOnce OnlyDecideRaises
PROPERTIES CauseOnlyImproves InvestigationEnds
CHECK_DEADLOCK FALSE
