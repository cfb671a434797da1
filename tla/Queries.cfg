SPECIFICATION Spec
CONSTANTS
    Calls <- MCCalls
    Msgs <- MCMsgs
    Nil = Nil
INVARIANTS PanicsAreKnown AnswersAsMeant
CHECK_DEADLOCK FALSE
