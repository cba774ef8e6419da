SPECIFICATION Spec
CONSTANTS
  Limit = 4
  Half = 1
  Percentiles <- MCPercentiles
  Procs = {p, q}
  Kinds = {"plain", "cross"}
  MaxEvents = 5
  MaxViolations = 1
SYMMETRY ProcSymmetry
INVARIANTS TypeOK SplitIsFaithful RefusedForCause
CHECK_DEADLOCK FALSE
