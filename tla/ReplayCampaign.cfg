SPECIFICATION FairSpec
CONSTANTS
  Traces = {t1, t2}
  Captures <- MCCaptures
  Configs = {off, on}
  Tables = {pairs, aggregate}
  MaxRuns = 2
  MaxFaults = 1
INVARIANTS PublishedIsOfOneCapture
PROPERTIES ImplementsStore UndisturbedPublishes
CHECK_DEADLOCK FALSE
