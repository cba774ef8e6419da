\* The parameters of the RTL; the cache takes no candidate meanwhile.
SPECIFICATION Spec
CONSTANTS
  STREAM_ENTRIES = 4
  CANDIDATE_ENTRIES = 2
  CANDIDATE_TTL = 16
  MODE_STREAM = TRUE
  Page = {p1, p2, p3, p4, p5}
  LINES = 256
  GENERATIONS = 4
  Demands <- MCFewDemands
  Feedbacks <- MCNoFeedback
SYMMETRY OtherPages
INVARIANT AttributionHolds
