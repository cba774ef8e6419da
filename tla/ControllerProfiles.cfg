\* Every period is scaled down and divides the next, as 8, 16, 256 and 512 do.
SPECIFICATION ProfilesSpec
CONSTANTS
  ADAPTIVE = TRUE
  EPOCH_DEMANDS = 4
  OFF_DEMANDS = 8
  PROBE_BUDGET = 2
  PROBE_REFILL = 4
  ON_REFILL = 2
  Margin = 2
  IssueShare = 2
  CostMax = 6
  DemandModulus = 16
  RefillModulus = 8
  ProbeModulus = 4
  CountModulus = 16
  IncrementModulus = 8
  Pulses <- MCSinglePulses
  Penalty = {2}
INVARIANTS
  TypeOK
  PaidFor
  WithinBudget
  CostIsExact
  RateLimited
  RefillWithinPeriod
PROPERTIES
  BudgetIsCumulative
  SteadyPhasesEnd
  SteadyTokensComeBack
