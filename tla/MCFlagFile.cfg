CONSTANTS
  p1 = p1
  p2 = p2
  p3 = p3
  i1 = i1
  i2 = i2
  i3 = i3
  i4 = i4
  Pid = {p1, p2, p3}
  Ino = {i1, i2, i3, i4}
  None = None
  Serial = TRUE
  Failures = {"crash", "io"}
SPECIFICATION FlagFairSpec
  
PROPERTY StartEnds
CHECK_DEADLOCK FALSE
