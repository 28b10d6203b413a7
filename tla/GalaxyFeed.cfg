CONSTANTS
  MaxJob = 2
  MaxTime = 3
  MaxOpen = 2
  Settings <- AllPages
  Recent = 1
  Lateness = 1
SPECIFICATION FairFeedSpec
INVARIANTS
  ReplayCatchesLateCommits
PROPERTIES
  UncrowdedJobsAreCollected
