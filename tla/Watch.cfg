CONSTANTS
  snort = snort
  sub = sub
  f = f
  g = g
  Root = snort
  Subs <- MCSubs
  Files <- MCFiles
  DirOf <- MCDirOf
  PathCap = 1
  QueueCap = 3
SPECIFICATION Spec
INVARIANT AlertsOnTheWay
PROPERTY AlertsTold
