CONSTANTS
  a = a
  b = b
  t1 = t1
  t2 = t2
  AP = {a, b}
  Submount = {b}
  Parent <- ParentA
  Direct = {}
  Tid = {t1, t2}
  NoTid = NoTid
  ForcedShutdown = TRUE
  IgnoreBusy = FALSE
  SkipUnmount = FALSE
  Failures = {}
  Allowed = {"TERM", "USR2", "MOUNT", "SUBMOUNT"}
  MaxRequests = 2
SPECIFICATION FairSpec
PROPERTY NotifyEnds
CHECK_DEADLOCK FALSE
