SPECIFICATION FairSpec
CONSTANTS
  Artifacts = {"page", "file"}
  Callers = {c1, c2}
  Signed = {"page"}
  Settings <- Kinds
  MaxTime = 2
  MaxFaults = 1
INVARIANTS TypeOK RecordedIsIngested PassedOverForAReason
PROPERTY EventuallyCurrent
CHECK_DEADLOCK FALSE
