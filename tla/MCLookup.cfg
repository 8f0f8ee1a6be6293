SPECIFICATION Spec
CONSTANTS
  k1 = k1
  k2 = k2
  v1 = v1
  v2 = v2
  star = star
  null = null
  none = none
  Wild <- star
  Null <- null
  None <- none
  Hash <- Buckets
  Key = {k1, k2}
  Value = {v1, v2}
  Configs <- AllConfigs
  FirstMaps <- MCFirstMaps
  NegTimeout = 1
  PosTimeout = 1
  RunFreq = 1
INVARIANTS LookupFinds  SourceOrder
CHECK_DEADLOCK FALSE
