\* One provisioned card that is taken out while the app runs.
CONSTANTS
  Provisioners = {}
  MaxInserts = 0
  Inserted = {"provisioned"}
  Contexts = {c1}
  NULL = NULL
SPECIFICATION Spec
INVARIANT RunningIsLoaded
