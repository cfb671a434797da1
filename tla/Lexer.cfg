SPECIFICATION Spec
INVARIANTS TokensOfText ErrorsHaveAReason TakenOnce TakesSome
