\* Two tasks on a pool of three blocks, with boundary request sizes; a task
\* that asks for the statistics hangs, and the system does stop there.
CONSTANTS
  Tasks = {t1, t2}
  MaxBlocks = 3
  BlockSize = 4
  HeaderSize = 1
  WordSize = 1024
  PoolSizes = {3, 14, 20}
  Sizes = {0, 3, 4}
  Alignments = {8}
  DoubleFrees = FALSE
  Dumps = TRUE
SPECIFICATION FairSpec
CHECK_DEADLOCK FALSE
INVARIANTS TypeOK HeadersTileBitmap UsedCountsBits HeldIsLive PayloadIntact
PROPERTIES OnlyFreeEndsPointer ImplementsBlockPool OnlyDumpBlocks
