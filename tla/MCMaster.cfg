SPECIFICATION Spec
CONSTANTS
  home = home
  direct = direct
  amdpath = amdpath
  m1 = m1
  m2 = m2
  a1 = a1
  a2 = a2
  null = null
  Path = {home, direct, amdpath}
  Direct = {direct}
  Source = {m1, m2, a1, a2}
  AmdPath = amdpath
  AmdSource = {a1, a2}
  NullMap = null
  Configuration <- MCConfiguration
  Entry = {1, 2, 3, 4, 5}
  None = None
  MaxAge = 3
  MaxSignal = 2
  MaxUsers = 1
PROPERTY Joined
INVARIANT Signalled NotTakenForTerm MatchesMap InUse
CHECK_DEADLOCK FALSE
