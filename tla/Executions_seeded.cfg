CONSTANTS
  batchJob = batchJob
  Jobs = {batchJob}
  MaxTime = 2
  Profiles <- MCProfiles
  Settings <- MCSettings
  VMs = {1, 2}
SPECIFICATION Spec
CHECK_DEADLOCK FALSE
INVARIANT FirstDeclaredPeriodApplies
