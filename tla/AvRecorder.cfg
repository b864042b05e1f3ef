\* One client; queues of one frame and two chunks; a camera that may take two
\* ticks for a frame, a card that takes one for a chunk or a flush, and a sleep
\* that is just long enough for that.
CONSTANTS
  Clients = {ui}
  VideoQueue = 1
  AudioQueue = 2
  LoopTicks = 1
  MicTicks = 1
  CameraTicks = 2
  WriteTicks = 1
  FlushTicks = 1
  StopTicks = 12
SPECIFICATION Spec
INVARIANTS TypeOK QueueInUseExists OneRecording FileFinalized EarlyIsWritten
