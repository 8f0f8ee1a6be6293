CONSTANTS
  k = k
  d = d
  e = e
  f1 = f1
  f2 = f2
  t1 = t1
  t2 = t2
  Key = {k}
  Trigger = {d, e}
  Fd = {f1, f2}
  NoFd = NoFd
  NoPath = NoPath
  Tid = {t1, t2}
  Failures = {"resource", "stat", "open", "gone"}
  MaxWalks = 3
SPECIFICATION FairSpec
INVARIANTS TokenInHand FdOwned 
PROPERTY TokenAnswered
CHECK_DEADLOCK FALSE
