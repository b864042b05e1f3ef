\* Any of the small apps after any other.
CONSTANTS
  Apps <- MCApps
  BlockWords = 4
  ChunkWords = 2
SPECIFICATION Spec
INVARIANTS NothingHeldBetweenApps CodeOutlivesTask ImageIfTableFits
PROPERTY EndedIsUnloaded
