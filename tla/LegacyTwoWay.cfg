\* Two ways, one victim entry; four lines compete for set 0.
SPECIFICATION MCSpec
CONSTANTS
  NumTags = 4
  NumSets = 2
  NumWays = 2
  VictimEntries = 1
  Word = {w0}
  FirstWord = w0
  Value = {0, 1}
  Zero = 0
  ENABLE_PREFETCH = TRUE
  CpuLine <- MCContested
  ExtLine <- MCOuterLines
  NextLineEnable = {FALSE}
VIEW LiveView
INVARIANTS
  OneCopy
  CleanMatchesMemory
  SwapFindsFullSet
PROPERTY
  ImplementsCpuMemory
