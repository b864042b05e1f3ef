\* Back and a volume button, a queue of two, three clients for two slots.
CONSTANTS
  Buttons = {back, up}
  Back = back
  Volume = {up}
  PollGap = 10
  QueueLen = 2
  MaxSubs = 2
  Clients = {c1, c2, c3}
  Mask = {"press", "long"}
  NULL = NULL
SPECIFICATION Spec
SYMMETRY ClientSymmetry
INVARIANTS CalledIsSubscribed EventsTellState
