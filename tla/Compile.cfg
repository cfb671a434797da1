CONSTANTS
  MaxInt = 3
  MaxStr = 2
  MaxSigs = 1
  VarType <- MCVarType
  BitAnd <- MCBitAnd
  BitOr <- MCBitOr
  BitXor <- MCBitXor
  Parsed <- Parse
  Literals <- MCLiterals
  Funcs <- MCFuncs
  Grammar <- CodeGrammar
  Exprs <- MCExprs
  Texts <- MCTexts
  Envs <- MCEnvs
SPECIFICATION Spec
INVARIANTS ReadAsMeant AcceptedWhole TypeSound NothingConstantLeft
PROPERTY FoldKeepsMeaning
CHECK_DEADLOCK FALSE
