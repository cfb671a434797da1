CONSTANTS
  MaxInt = 3
  MaxStr = 2
  MaxSigs = 1
  VarType <- MCVarType
  BitAnd <- MCBitAnd
  BitOr <- MCBitOr
  BitXor <- MCBitXor
  Parsed <- Parse
  Literals <- MCLiterals
  Funcs <- MCFuncs
  Grammar <- CGrammar
  Exprs <- CExprs
  Texts <- NoTexts
  Envs <- MCEnvs
SPECIFICATION Spec
INVARIANT ReadAsInC
CHECK_DEADLOCK FALSE
