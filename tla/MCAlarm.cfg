CONSTANTS
  a = a
  b = b
  c = c
  AP = {a, b, c}
  Seconds = {1, 2}
  MaxTime = 4
SPECIFICATION FairSpec
INVARIANTS Ordered NoOversleep
PROPERTIES ImplementsAbs AlarmFires
CHECK_DEADLOCK FALSE
