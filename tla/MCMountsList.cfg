CONSTANTS
  p1 = p1
  p2 = p2
  Path = {p1, p2}
  NoPath = NoPath
  MaxSpare = 0
  MaxThreads = 2
SYMMETRY Paths
SPECIFICATION Spec
INVARIANTS RefCovers SubmountListed MountedListed
CHECK_DEADLOCK FALSE
