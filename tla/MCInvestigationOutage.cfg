SPECIFICATION FairSpec
CONSTANTS
  Monitors = {m1, m2}
  Triggers = {}
  MetricHours = {"sales 9h"}
  Stages = {"memory"}
  Plan <- Report
  RagOutcomes <- Nothing
  KpiOutcomes <- Nothing
  MaxDepth = 3
  LLMEnabled = TRUE
  Enforced = TRUE
  Outages = {"llm"}
  MaxEvents = 2
  MaxDeaths = 0
PROPERTY OutageRecorded

CHECK_DEADLOCK FALSE
