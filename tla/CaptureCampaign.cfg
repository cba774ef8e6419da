SPECIFICATION FairSpec
CONSTANTS
  b1 = b1
  b2 = b2
  Benches <- MCBenches
  NumCommands <- MCNumCommands
  Outputs <- MCOutputs
  Produced <- MCProduced
  Requests <- AllRequests
  Windows = {1}
  MaxRuns = 5
  MaxFaults = 2
INVARIANTS FromItsOwnVm RejectedMeansNoTrace
PROPERTIES ImplementsStore EventuallyAccepted
CHECK_DEADLOCK FALSE
