\* A card of any kind, exchanged twice for any other, one provisioning task;
\* behaviours are followed until two handlers race.
CONSTANTS
  Provisioners = {p1}
  MaxInserts = 2
  Inserted = {"blank", "fresh", "provisioned"}
  Contexts = {c1, c2}
  NULL = NULL
SPECIFICATION Spec
CONSTRAINT Unraced
INVARIANTS ContextsCounted LastHeardIsState
