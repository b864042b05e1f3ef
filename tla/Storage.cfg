\* A card of any kind, exchanged once for any other, one provisioning task.
CONSTANTS
  Provisioners = {p1}
  MaxInserts = 1
  Inserted = {"blank", "fresh", "provisioned"}
SPECIFICATION StorageSpec
INVARIANT FlagIsMounted
PROPERTIES GoneIsUnmounted ProvisioningEnds
