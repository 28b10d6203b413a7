CONSTANTS
  PodCount = 2
  MaxVersion = 4
  PageLimits <- OneOrTwo
  KnownJobs <- LastPod
SPECIFICATION FairSpec
INVARIANTS
  EveryLossHasAGap
  CursorMeansRecorded
PROPERTIES
  KnownEndsAreRecorded
