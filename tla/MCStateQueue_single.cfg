CONSTANTS
  a = a
  b = b
  t1 = t1
  t2 = t2
  AP = {a}
  Submount = {}
  Parent <- NoParent
  Direct = {}
  Tid = {t1}
  NoTid = NoTid
  ForcedShutdown = FALSE
  IgnoreBusy = FALSE
  SkipUnmount = FALSE
  Failures = {"alloc", "start", "ioctl"}
  Allowed = {"TERM", "USR1", "HUP", "UPDATE", "MOUNT", "PKTFAIL"}
  MaxRequests = 4
SPECIFICATION FairSpec
INVARIANTS TypeOK WorkerOwnsTask BusyHasWorker NoLostWakeup ShutDownIsQuiet
PROPERTY ExitEnds
CHECK_DEADLOCK FALSE
