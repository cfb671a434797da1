SPECIFICATION LiveSpec
CONSTANT maxErrors = 4
INVARIANTS EnvsBalanced ErrorsHaveAReason GrammarIsRead LostIsKnown
PROPERTY Progress
