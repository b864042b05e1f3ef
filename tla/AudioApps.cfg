\* Two files or tracks, one of them unplayable in one of the players, a ring
\* of two chunks, and two threads at most at a time.
CONSTANTS
  RingChunks = 2
  Threads = {t1, t2}
  NULL = NULL
  Files = {song, broken}
  Broken = {broken}
  FileChunks = 4
  MaxFiles = 2
  None = None
  Tracks = {wave, ragged, unreadable}
  Mp3 = {ragged}
  Unreadable = {unreadable}
  TrackChunks = 2
  MaxTracks = 2
SPECIFICATION Spec
INVARIANTS StreamInOrder ThreadIsJoinable DeinitLeavesNoThread
PROPERTY UiReturns
