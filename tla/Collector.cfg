CONSTANTS
  LastSource = 3
  Procs = {1, 2}
  MaxItems <- TwoOfTheSecond
  BatchSize = 1
  MaxBackoff = 2
  MaxFailures = 1
  Interval = 1
  Denied = {1}
  Poison = {3}
  Settings <- AloneOrOverlapping
SPECIFICATION FairSpec
CHECK_DEADLOCK FALSE
INVARIANTS RevisionCoversFacts
PROPERTIES CollectionIsSerial HealthySourcesGoOn
