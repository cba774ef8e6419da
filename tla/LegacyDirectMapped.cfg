\* Direct-mapped, two sets, one victim entry; two lines of two words
\* compete for set 0, and next-line prefetch brings their successors into set 1.
SPECIFICATION MCFairSpec
CONSTANTS
  NumTags = 2
  NumSets = 2
  NumWays = 1
  VictimEntries = 1
  Word = {w0, w1}
  FirstWord = w0
  Value = {0, 1}
  Zero = 0
  ENABLE_PREFETCH = TRUE
  CpuLine <- MCSetZero
  ExtLine <- MCOneLine
  NextLineEnable = {TRUE, FALSE}
VIEW LiveView
INVARIANTS
  TypeOK
  NoRedundantFetch
PROPERTIES
  AlwaysIdleAgain
  ImplementsCpuMemory
