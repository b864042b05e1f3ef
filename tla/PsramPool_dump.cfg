\* Two tasks on a pool of two blocks, which may ask for the statistics.
CONSTANTS
  Tasks = {t1, t2}
  MaxBlocks = 2
  BlockSize = 4
  HeaderSize = 1
  WordSize = 1024
  PoolSizes = {8}
  Sizes = {3}
  Alignments = {8}
  DoubleFrees = FALSE
  Dumps = TRUE
SPECIFICATION FairSpec
CHECK_DEADLOCK FALSE
PROPERTY CallsReturn
