\* One task that also frees pointers twice and asks for the statistics, after
\* which it hangs: the system does stop there.
CONSTANTS
  Tasks = {t1}
  MaxBlocks = 4
  BlockSize = 4
  HeaderSize = 1
  WordSize = 1024
  PoolSizes = {18}
  Sizes = {3, 4, 8}
  Alignments = {1, 8}
  DoubleFrees = TRUE
  Dumps = TRUE
SPECIFICATION SearchSpec
CHECK_DEADLOCK FALSE
INVARIANTS OnlyHeldIsFreed FoundIsFirstFit FailureIsGenuine MaxIsLongestRun
PROPERTY ImplementsPool
