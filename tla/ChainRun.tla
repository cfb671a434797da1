------------------------------ MODULE ChainRun ------------------------------
(***************************************************************************)
(* The execution of a chain: by the interpreter (Rule.Interp), and by the   *)
(* Go code that rips -c generates for it (Rule.Gen and Action.Gen); and     *)
(* what the three ways of running a rule owe to each other: as parsed,      *)
(* optimised, and optimised and generated.                                  *)
(*                                                                          *)
(* A run is given what each action that is not set answers, the same        *)
(* whenever it is asked, and out of what that action can answer: alert never *)
(* answers false.  Its outcome is what can be seen of it: which      *)
(* actions ran, with which arguments, and the final values of variables.    *)
(***************************************************************************)
EXTENDS Chain, Integers

CONSTANTS InitVal,   \* the value of the variables before
          Can        \* for each other action, what it can answer

ASSUME CanAssumption == Can \in [Calls -> SUBSET BOOLEAN]

Answers == {answer \in [Calls -> BOOLEAN] : \A c \in Calls : answer[c] \in Can[c]}

Value(env, arg) == IF arg \in Vars THEN env[arg] ELSE arg

\* EvalExpr of an action: set answers true.
Do(answer, s, what) ==
    IF what.op = "set"
    THEN [s EXCEPT !.env[what.var] = Value(s.env, what.arg), !.issuccess = TRUE]
    ELSE [s EXCEPT !.out = Append(@, <<what.id, Value(s.env, what.arg)>>),
                   !.issuccess = answer[what.id]]

Started == [env |-> [v \in Vars |-> InitVal], out |-> <<>>, ran |-> {},
            issuccess |-> TRUE, stopped |-> FALSE]
Outcome(s) == [env |-> s.env, out |-> s.out]

-----------------------------------------------------------------------------
(* The interpreter looks at the connector before the action.                *)

DoNext(issuccess, con) ==
    con = "comma" \/ (issuccess /\ con = "then") \/ (~issuccess /\ con = "nthen")

InterpStepSkips(answer, s, a) ==   \* mutant: the break leaves the switch only
    IF ~DoNext(s.issuccess, Connector(a)) THEN s
    ELSE Do(answer, [s EXCEPT !.ran = @ \cup {a}], source[a].what)
InterpStep(answer, s, a) ==
    IF s.stopped \/ ~DoNext(s.issuccess, Connector(a)) THEN [s EXCEPT !.stopped = TRUE]
    ELSE Do(answer, [s EXCEPT !.ran = @ \cup {a}], source[a].what)

Interp(answer, seq) ==
    LET run[k \in 0..Len(seq)] ==
            IF k = 0 THEN Started ELSE InterpStep(answer, run[k - 1], seq[k])
    IN  run[Len(seq)]

-----------------------------------------------------------------------------
(* The generated code does the action, and then tests flags that only grow. *)

GenStartNoComma ==   \* mutant: iscomma is false at first
    [env |-> Started.env, out |-> <<>>, ran |-> {}, issuccess |-> TRUE, stopped |-> FALSE,
     isfst |-> TRUE, iscomma |-> FALSE, tokthen |-> FALSE]
GenStart ==
    [env |-> Started.env, out |-> <<>>, ran |-> {}, issuccess |-> TRUE, stopped |-> FALSE,
     isfst |-> TRUE, iscomma |-> TRUE, tokthen |-> FALSE]

GenFlags(s, con) ==
    IF s.isfst THEN [s EXCEPT !.isfst = FALSE]
    ELSE [s EXCEPT !.tokthen = @ \/ con = "then", !.iscomma = @ \/ con = "comma"]

GenCond(s) ==
    (s.issuccess /\ s.tokthen) \/ s.iscomma \/ (~s.issuccess /\ ~s.tokthen)

GenStep(answer, s, a) ==
    IF s.stopped THEN s
    ELSE LET t == Do(answer, GenFlags([s EXCEPT !.ran = @ \cup {a}], Connector(a)),
                     source[a].what)
         IN  [t EXCEPT !.stopped = ~GenCond(t)]

Generated(answer, seq) ==
    LET run[k \in 0..Len(seq)] ==
            IF k = 0 THEN GenStart ELSE GenStep(answer, run[k - 1], seq[k])
    IN  run[Len(seq)]

Parsed == [k \in DOMAIN source |-> k]

-----------------------------------------------------------------------------
(* Properties.                                                              *)

\* The meaning the documentation gives to connectors (doc/tech/tech.tex:924): an
\* action runs if the chain has arrived to the previous one and the connector
\* between them agrees with what that one answered.
Answer(answer, a) == IF IsSet(a) THEN TRUE ELSE answer[source[a].what.id]
FollowsConnectors ==
    \A answer \in Answers :
        LET ran == Interp(answer, Parsed).ran
        IN  \A a \in Position :
                a \in ran <=> \/ a = 1
                              \/ /\ a - 1 \in ran
                                 /\ DoNext(Answer(answer, a - 1), Connector(a))

\* The intent of the optimiser: between two sets of a variable nobody reads it.
DeadSetsAreDead ==
    \A a, c \in Position :
        a < c /\ IsSet(a) /\ IsSet(c) /\ Var(a) = Var(c) =>
            \A b \in a+1..c : Var(a) \notin Reads(b)

\* A chain with commas only, where the sets that are overwritten are dead, does
\* the same as it is parsed, optimised and generated.
AllCommas == \A a \in Position : Connector(a) = "comma"
CommaChains ==
    Done /\ AllCommas /\ DeadSetsAreDead =>
        \A answer \in Answers :
            /\ Outcome(Interp(answer, kept)) = Outcome(Interp(answer, Parsed))
            /\ Outcome(Generated(answer, kept)) = Outcome(Interp(answer, kept))

\* What a comment says of the optimiser (tree/const.go:123-125): set(wasgood,
\* false) => exec("xx") => set(wasgood, true) is equivalent to the forbidden
\* set(wasgood, exec("xx")), so that wasgood tells whether exec went well.
IsFlagIdiom ==
    /\ Len(source) = 3
    /\ IsSet(1) /\ ~IsSet(2) /\ IsSet(3) /\ Var(1) = Var(3)
    /\ Connector(2) = "then" /\ Connector(3) = "then"
FlagIdiom ==
    Done /\ IsFlagIdiom =>
        \A answer \in Answers :
            Interp(answer, kept).env[Var(1)] =
                Value(Started.env,
                      source[IF answer[source[2].what.id] THEN 3 ELSE 1].what.arg)

\* What the documentation says of abtesting (doc/tech/tech.tex:1248-1253): the
\* generated program and the interpreter have the same output for a rule file.
SameOutput ==
    Done => \A answer \in Answers :
                Outcome(Generated(answer, kept)) = Outcome(Interp(answer, kept))
=============================================================================
