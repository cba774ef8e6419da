\* Two slots whose generation wraps after two, and the longest lifetime that is
\* safe: the generation of a slot cannot come round in it, (GENERATIONS - 1) *
\* STREAM_ENTRIES + 1, nor can a replaced page come back and refresh, 3.
SPECIFICATION ModesSpec
CONSTANTS
  STREAM_ENTRIES = 2
  CANDIDATE_ENTRIES = 2
  CANDIDATE_TTL = 3
  MODE_STREAM = TRUE
  Page = {p1, p2, p3}
  LINES = 4
  GENERATIONS = 2
  Demands <- MCDemands
  Feedbacks <- MCFeedbacks
SYMMETRY Pages
INVARIANTS
  AttributionHolds
  OneExpiryPerEdge
