\* Three apps and room for one in the lists; power may fail at every step.
CONSTANTS
  Apps = {launcher, settings, clock}
  Launcher = launcher
  Settings = settings
  MaxBuild = 2
  Manifest <- MCManifest
  MaxApps = 1
SPECIFICATION Spec
INVARIANT OnlyVerifiedInstalled
PROPERTIES CopyUntilReplaced UpdateEnds
