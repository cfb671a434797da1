CONSTANTS
  NLevels = 4
  v = v
  Soft <- MCSoft
  Vars <- MCVars
  InitLevel <- MCInitLevel
  Actions <- MCActions
  Ints <- MCInts
SPECIFICATION Spec
INVARIANTS TypeOK Agreement VerdictIsTruth OutsideView
PROPERTIES HardFloor ImplementsLevelMachine
