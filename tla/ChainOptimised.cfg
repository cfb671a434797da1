CONSTANTS
  Vars <- MCVars
  Vals <- MCVals
  Calls <- MCCalls
  Can <- MCCan
  Chains <- IdiomChains
  InitVal <- IdiomInitVal
SPECIFICATION Spec
INVARIANT FlagIdiom
CHECK_DEADLOCK FALSE
