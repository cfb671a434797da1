CONSTANTS
  f1 = f1
  f2 = f2
  usr1 = usr1
  usr2 = usr2
  term = term
  None = None
  Files <- TwoFiles
  Counted <- MCCounted
  Ending <- MCEnding
  PathCap = 1
  MaxMsgs = 2
  MaxSignals = 1
SPECIFICATION Spec
INVARIANTS TypeOK ContextOwned NoWriteMissed SignalOnce OnlyFinalPolls
PROPERTY ImplementsEventLoop
SYMMETRY FileSymmetry
