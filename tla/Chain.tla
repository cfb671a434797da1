------------------------------- MODULE Chain -------------------------------
(***************************************************************************)
(* The chain of actions of a rule, and what the optimiser of the compiler   *)
(* does to it (Prog.Fold in tree/const.go): it deletes the calls to set that *)
(* a later one overwrites, and those that assign a variable to itself,      *)
(* again and again until a pass deletes nothing.                            *)
(*                                                                          *)
(* The code keeps pointers to the actions it may yet delete; here an action *)
(* is its position in the source.  Only a call to a builtin action is an    *)
(* action (Prog.TypeCheck), so that the only constant an action may become  *)
(* is true, and the deletion after a constant false never happens.          *)
(***************************************************************************)
EXTENDS Naturals, Sequences

CONSTANTS Vars,     \* the variables of the rules
          Vals,     \* constants that are assigned to them
          Calls,    \* the other actions: alert, exec, trigger...
          Chains    \* the chains to optimise

Con == {"comma", "then", "nthen"}     \* "," "=>" "!>"
Arg == Vars \cup Vals
What == [op : {"set"}, var : Vars, arg : Arg] \cup [op : {"call"}, id : Calls, arg : Arg]
Action == [con : Con, what : What]

\* ActionDecls gives the first action of a rule a comma.
ASSUME ChainAssumption ==
    /\ Vars \cap Vals = {}
    /\ \A c \in Chains : c \in Seq(Action) /\ c # <<>> /\ c[1].con = "comma"

VARIABLES source,   \* the chain as it was parsed
          const,    \* the actions replaced by the constant true
          acts,     \* the chain this pass goes through
          i,        \* the action it has come to
          kept,     \* those it has kept so far (r.Actions)
          where,    \* for each variable, the set in its whereset, if any
          nd        \* it has deleted something: there will be another pass

vars == <<source, const, acts, i, kept, where, nd>>

None == 0
Position == DOMAIN source
Connector(a) == source[a].con
IsSet(a) == source[a].what.op = "set"
Var(a) == source[a].what.var
SelfSet(a) == IsSet(a) /\ source[a].what.arg = Var(a)

\* Names of variables an action reads.
Reads(a) == {source[a].what.arg} \cap Vars

-----------------------------------------------------------------------------
Init ==
    /\ source \in Chains
    /\ const = {}
    /\ acts = [k \in DOMAIN source |-> k]
    /\ i = 1 /\ kept = <<>>
    /\ where = [v \in Vars |-> None]
    /\ nd = FALSE

\* a.What is a call to set as long as it has not been replaced by true.
Sets(a) == IsSet(a) /\ a \notin const

\* The earlier set that the one at a makes dead.  The uses in between should
\* save it, but setused returns at a variable, which has no Expr, before it
\* marks it as used.
VictimsBoth(a) ==   \* mutant: the set at a is deleted, and not the one before
    IF Sets(a) /\ where[Var(a)] \notin const \cup {None, a} THEN {a} ELSE {}
Victims(a) ==
    IF Sets(a) /\ where[Var(a)] \notin const \cup {None, a} THEN {where[Var(a)]} ELSE {}

Where(a) ==
    IF Sets(a) /\ (where[Var(a)] = None \/ Victims(a) # {})
    THEN [where EXCEPT ![Var(a)] = a] ELSE where

\* Sym.Fold of the action: a variable assigned to itself.
Folded(a) == IF SelfSet(a) THEN {a} ELSE {}

Const(a) == const \cup Victims(a) \cup Folded(a)

Keep ==
    /\ i <= Len(acts) /\ acts[i] \notin Const(acts[i])
    /\ const' = Const(acts[i])
    /\ where' = Where(acts[i])
    /\ nd' = (nd \/ Victims(acts[i]) # {})
    /\ kept' = Append(kept, acts[i])
    /\ i' = i + 1
    /\ UNCHANGED <<source, acts>>

DropKeeps ==   \* mutant: the constant stays in the chain
    /\ i <= Len(acts) /\ acts[i] \in Const(acts[i]) /\ Connector(acts[i]) # "nthen"
    /\ const' = Const(acts[i])
    /\ where' = Where(acts[i])
    /\ nd' = TRUE
    /\ kept' = Append(kept, acts[i])
    /\ i' = i + 1
    /\ UNCHANGED <<source, acts>>

Drop ==
    /\ i <= Len(acts) /\ acts[i] \in Const(acts[i]) /\ Connector(acts[i]) # "nthen"
    /\ const' = Const(acts[i])
    /\ where' = Where(acts[i])
    /\ nd' = TRUE
    /\ i' = i + 1
    /\ UNCHANGED <<source, acts, kept>>

\* The connector is the one before the action, taken for the one after it.
Truncate ==
    /\ i <= Len(acts) /\ acts[i] \in Const(acts[i]) /\ Connector(acts[i]) = "nthen"
    /\ const' = Const(acts[i])
    /\ where' = Where(acts[i])
    /\ nd' = TRUE
    /\ i' = Len(acts) + 1
    /\ UNCHANGED <<source, acts, kept>>

AgainNoRewind ==   \* mutant: the next pass goes on at the same index
    /\ i > Len(acts) /\ nd
    /\ acts' = kept /\ kept' = <<>>
    /\ where' = [v \in Vars |-> None]
    /\ nd' = FALSE
    /\ UNCHANGED <<source, const, i>>

Again ==
    /\ i > Len(acts) /\ nd
    /\ acts' = kept
    /\ i' = 1 /\ kept' = <<>>
    /\ where' = [v \in Vars |-> None]
    /\ nd' = FALSE
    /\ UNCHANGED <<source, const>>

Next == Keep \/ Drop \/ Truncate \/ Again

Spec == Init /\ [][Next]_vars
LiveSpec == Spec /\ WF_vars(Next)

Done == i > Len(acts) /\ ~nd
-----------------------------------------------------------------------------
(* Properties.                                                              *)

TypeOK ==
    /\ source \in Chains
    /\ const \subseteq Position
    /\ acts \in Seq(Position) /\ kept \in Seq(Position)
    /\ i \in 1..(Len(acts) + 1)
    /\ where \in [Vars -> Position \cup {None}]
    /\ nd \in BOOLEAN

\* The optimiser comes to an end, in spite of the passes it starts over.
OptimiserStops == <>Done

\* The actions that are still in the chain.
InKept(a) == \E k \in DOMAIN kept : kept[k] = a
InActs(a) == \E k \in i..Len(acts) : acts[k] = a
Live == {a \in Position \ const : InKept(a) \/ InActs(a)}

Overwritten(a) == IsSet(a) /\ \E b \in Position : b > a /\ IsSet(b) /\ Var(b) = Var(a)

\* An action is deleted for a reason, however many passes it took: it assigns
\* a variable to itself, a later action overwrites what it assigns, or it
\* comes after one of these that a !> precedes.
Deletable(a) == SelfSet(a) \/ Overwritten(a)
DeletedForAReason ==
    \A a \in Position \ Live :
        Deletable(a) \/ \E b \in const : b < a /\ Connector(b) = "nthen" /\ Deletable(b)
=============================================================================
