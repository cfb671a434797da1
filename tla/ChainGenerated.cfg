CONSTANTS
  Vars <- MCVars
  Vals <- MCVals
  Calls <- MCCalls
  Can <- MCCan
  Chains <- CallChains
  InitVal <- MCInitVal
SPECIFICATION Spec
INVARIANT SameOutput
CHECK_DEADLOCK FALSE
