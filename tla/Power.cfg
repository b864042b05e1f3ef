\* Three apps for two slots, so that the third lock at a time is dropped.
CONSTANTS
  Apps = {a1, a2, a3}
  MaxLocks = 2
  Kinds = {"DISPLAY_ON", "CPU_AWAKE", "FULL_AWAKE"}
SYMMETRY Symmetry
SPECIFICATION Spec
INVARIANTS LocksBacked TargetRespectsLocks
\* Deep sleep ends with a reset only.
CHECK_DEADLOCK FALSE
