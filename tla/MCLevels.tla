------------------------------ MODULE MCLevels ------------------------------
(***************************************************************************)
(* Four levels, the second and the fourth soft, and one level variable.     *)
(***************************************************************************)
EXTENDS Levels

CONSTANT v

MCSoft == {1, 3}
MCVars == {v}
MCInitLevel == [x \in MCVars |-> 2]
MCInts == {7}

LevelArgs == [kind : {"level"}, level : 0..3]
VarArg(x) == [kind |-> "var", var |-> x]
TriggerAct(arg) == [op |-> "trigger", arg |-> arg]
SetAct(x, arg) == [op |-> "set", var |-> x, arg |-> arg]

\* A program that triggers every level, by name, by variable and by CurrLevel.
MCActions == {TriggerAct(a) : a \in LevelArgs \cup {VarArg(v), VarArg(CurrLevel)}}
             \cup {SetAct(v, a) : a \in LevelArgs \cup {VarArg(CurrLevel),
                                                        [kind |-> "expr"]}}
=============================================================================
