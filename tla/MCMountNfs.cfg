CONSTANTS
  None = None
  Servers = {"lh", "s1", "s2", "s3", "s4"}
  Locations <- MCLocations
  Support <- MCSupport
  Scenario <- MCScenario
  MTAB_LOCK_RETRIES = 3
  MaxTime = 2
  MaxChange = 1
SPECIFICATION Spec
CHECK_DEADLOCK FALSE
INVARIANT ClosestFirst  Available MountTruth
PROPERTY Ends
