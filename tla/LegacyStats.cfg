\* Two ways and two victim entries contested by five lines of one set, so that
\* a miss finds everything full; the data plays no part in the counters, so a
\* unit holds one value.
SPECIFICATION MCStatsSpec
CONSTANTS
  NumTags = 5
  NumSets = 2
  NumWays = 2
  VictimEntries = 2
  Word = {w0}
  FirstWord = w0
  Value = {0}
  Zero = 0
  ENABLE_PREFETCH = TRUE
  CpuLine <- MCContested
  ExtLine <- MCOuterLines
  NextLineEnable = {FALSE}
  StatModulus = 1000000
VIEW StatView
INVARIANTS
  LedgerBalances
  DrainedRunIsAccepted
