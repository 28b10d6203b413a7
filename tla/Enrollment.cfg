CONSTANTS
  Databases = {1, 2}
  Pods = {1, 2}
  MaxReleases = 2
  MaxNamespaces = 3
  Settings <- AllSettings
SPECIFICATION FairSpec
CHECK_DEADLOCK FALSE
INVARIANTS OneSourcePerNamespace OneCollector
PROPERTIES InstallsConverge
