\* One way, one victim entry, three lines of which the prefetchers name one.
SPECIFICATION MCSpec
CONSTANTS
  NumTags = 3
  NumSets = 2
  NumWays = 1
  VictimEntries = 1
  Word = {w0}
  FirstWord = w0
  Value = {0, 1}
  Zero = 0
  PF_USE_MSHR = TRUE
  PF_IDLE_GUARD = 1
  EXT_LIFE = 2
  CpuLine <- MCSetZero
  PrefetchLine <- MCLast
VIEW LiveView
INVARIANTS
  TypeOK
  OneCopy
  OnePortOwner
PROPERTIES
  KeepsDemandedLines
  ImplementsCpuMemory
