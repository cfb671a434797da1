CONSTANTS
  Vars <- MCVars
  Vals <- MCVals
  Calls <- MCCalls
  Can <- MCCan
  Chains <- MCChains
  InitVal <- MCInitVal
SPECIFICATION LiveSpec
INVARIANTS TypeOK DeletedForAReason FollowsConnectors CommaChains
PROPERTY OptimiserStops
CHECK_DEADLOCK FALSE
