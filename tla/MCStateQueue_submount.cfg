CONSTANTS
  a = a
  b = b
  t1 = t1
  t2 = t2
  AP = {a, b}
  Submount = {b}
  Parent <- ParentA
  Direct = {a}
  Tid = {t1, t2}
  NoTid = NoTid
  ForcedShutdown = FALSE
  IgnoreBusy = FALSE
  SkipUnmount = FALSE
  Failures = {}
  Allowed = {"TERM", "USR1", "UPDATE", "MOUNT", "SUBMOUNT"}
  MaxRequests = 3
SPECIFICATION Spec
INVARIANTS TransientHasWorker ShutdownIsSignaled
PROPERTY UsesAlarms
CHECK_DEADLOCK FALSE
