\* The periods of the directed unit test: 20 demands are no multiple of 16.
SPECIFICATION Spec
CONSTANTS
  ADAPTIVE = TRUE
  EPOCH_DEMANDS = 20
  OFF_DEMANDS = 5
  PROBE_BUDGET = 8
  PROBE_REFILL = 16
  ON_REFILL = 8
  Margin = 8
  IssueShare = 10
  CostMax = 65535
  DemandModulus = 1024
  RefillModulus = 32
  ProbeModulus = 16
  CountModulus = 256
  IncrementModulus = 512
  Pulses <- MCHelpfulPulses
  Penalty = {8}
INVARIANT
  RefillWithinPeriod
