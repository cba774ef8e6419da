\* Two ways, one victim entry; the prefetchers name two lines, one of which the
\* CPU uses.  The data plays no part: a unit holds one value.
SPECIFICATION PairFairSpec
CONSTANTS
  NumTags = 4
  NumSets = 2
  NumWays = 2
  VictimEntries = 1
  Word = {w0}
  FirstWord = w0
  Value = {0}
  Zero = 0
  PF_USE_MSHR = TRUE
  PF_IDLE_GUARD = 0
  EXT_LIFE = 1
  CpuLine <- MCContested
  PrefetchLine <- MCLastTwo
VIEW PairView
INVARIANTS
  OneUnusedPrefetch
  LedgerBalances
  DrainedRunIsAccepted
PROPERTIES
  AlwaysIdleAgain
