SPECIFICATION Spec
CONSTANTS
  sl = sl
  a = a
  ab = ab
  az = az
  key = key
  reader = reader
  Offset = {sl, a, ab, az}
  Slash <- sl
  Root <- key
  Reader <- reader
  Above <- MCAbove
  ByLength <- MCByLength
  ByName <- MCByName
  Lists <- MCLists
  MaxClock = 3
INVARIANTS NoOrphan Nested Complete
CHECK_DEADLOCK FALSE
