------------------------------ MODULE MCChain ------------------------------
(***************************************************************************)
(* Every chain of up to four actions, over the actions that interact: sets  *)
(* of two variables, to constants, to themselves and to each other; and a   *)
(* call that reads a variable, and one that does not.                       *)
(***************************************************************************)
EXTENDS ChainRun, FiniteSets

SetTo(x, arg) == [op |-> "set", var |-> x, arg |-> arg]
Call(c, arg) == [op |-> "call", id |-> c, arg |-> arg]

MCVars == {"x", "y"}
MCVals == {"false", "true"}
MCCalls == {"alert", "exec"}
MCInitVal == "init"

\* Alert returns true whatever happens; Exec tells whether the program went well.
MCCan == [c \in MCCalls |-> IF c = "alert" THEN {TRUE} ELSE BOOLEAN]

MCWhats == {SetTo("x", "false"), SetTo("x", "true"), SetTo("x", "x"), SetTo("y", "x"),
            Call("alert", "x"), Call("exec", "true")}
First == [con : {"comma"}, what : MCWhats]
Later == [con : {"comma", "then", "nthen"}, what : MCWhats]

MCChains ==
    {<<a>> : a \in First}
    \cup (First \X Later)
    \cup (First \X Later \X Later)
    \cup (First \X Later \X Later \X Later)

\* set(x, false) => exec => set(x, true), as in the comment of the optimiser,
\* in a rule that was activated before, when exec went well.
IdiomInitVal == "true"
IdiomChains ==
    {<<[con |-> "comma", what |-> SetTo("x", "false")],
       [con |-> "then",  what |-> Call("exec", "true")],
       [con |-> "then",  what |-> SetTo("x", "true")]>>}

\* Chains with no set in them: the optimiser leaves them alone.
CallChains ==
    LET calls == {Call("alert", "true"), Call("exec", "true")} IN
    [con : {"comma"}, what : calls] \X [con : {"comma", "then", "nthen"}, what : calls]
=============================================================================
