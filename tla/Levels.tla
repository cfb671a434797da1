------------------------------- MODULE Levels -------------------------------
(***************************************************************************)
(* The alert level as the engine keeps it.  It lives in three places that   *)
(* must agree: context.CurrLevel (extern), the symbol CurrLevel.Val points  *)
(* to (tree), and the monitor at the other end of the socket.  The rules    *)
(* move it with the action trigger, which runs the exit program of the old  *)
(* level and the entry program of the new one, and either may fail.         *)
(*                                                                          *)
(* One step is one iteration's refresh of the predefined variables, one     *)
(* action of a rule, or the end of one external program: the outside world  *)
(* sees the states in between, and the process may be killed in any of them.*)
(* Which actions of the program run, and in which order, is left open (it   *)
(* is the business of the rules): any of Actions may come next.             *)
(***************************************************************************)
EXTENDS Integers

CONSTANTS NLevels,    \* len(prog.Levels)
          Soft,       \* levels with IsSoft
          Vars,       \* the variables of the rules initialised with a level
          InitLevel,  \* the level each of them is initialised with
          Actions,    \* the set and trigger actions in the rules
          Ints        \* the values of integer expressions with no level in them

Level == 0..(NLevels - 1)
CurrLevel == "CurrLevel"
Syms == Vars \cup {CurrLevel}

(***************************************************************************)
(* A symbol's value.  name is the declared level the value is (a copy of),  *)
(* or Lit for the anonymous symbols every other expression evaluates to;    *)
(* shared means that it is the very symbol of the syntax tree, whose IntVal *)
(* is levelInt[name]; otherwise int is its own IntVal.                      *)
(***************************************************************************)
Lit == -1
Value == [name : Level \cup {Lit}, int : Int, shared : BOOLEAN]

Ref(l)  == [name |-> l, int |-> 0, shared |-> TRUE]
Anon(n) == [name |-> Lit, int |-> n, shared |-> FALSE]

\* The SLevel field: an anonymous symbol never had it assigned.
SLevel(v) == IF v.name = Lit THEN 0 ELSE v.name
IsSoft(v) == v.name \in Soft

\* Arguments of actions: a level, a variable, any other integer expression.
Arg == [kind : {"level"}, level : Level]
       \cup [kind : {"var"}, var : Syms] \cup [kind : {"expr"}]
Action == [op : {"trigger"}, arg : Arg]
          \cup [op : {"set"}, var : Syms, arg : Arg]

ASSUME LevelsAssumption ==
    /\ NLevels \in Nat \ {0}
    /\ Soft \subseteq Level
    /\ CurrLevel \notin Vars
    /\ InitLevel \in [Vars -> Level]
    /\ Actions \subseteq Action
    /\ Ints \subseteq Int

Untold == -1
NoLevel == -1

VARIABLES levelInt,   \* IntVal of each level's symbol in the syntax tree
          val,        \* Val of CurrLevel and of the variables
          ctxLevel,   \* context.CurrLevel
          ctxInit,    \* context.Init
          pc,         \* where the engine is
          call,       \* the call of extern.Trigger in progress, or the last one
          verdict,    \* what the last call returned
          peer,       \* whether the monitor still has the socket open
          told,       \* ghost: the last level written to the monitor
          left,       \* ghost: the level whose .from last ran since a change
          entered     \* ghost: the level whose .to last succeeded

vars == <<levelInt, val, ctxLevel, ctxInit, pc, call, verdict,
          peer, told, left, entered>>
ghosts == <<told, left, entered>>

\* "first" and "idle" are between iterations, "rules" is inside one, "from"
\* and "to" wait for an external program.
PC == {"start", "first", "idle", "rules", "from", "to"}

IntVal(v) == IF v.shared THEN levelInt[v.name] ELSE v.int

\* tree.LevelName, with the level's number for its name and Lit for "".
LevelName(v) == IF IntVal(v) \in Level THEN IntVal(v) ELSE Lit

\* EvalExpr: a level is its own symbol, a variable is copied.
Copy(v) == [name |-> v.name, int |-> IntVal(v), shared |-> FALSE]
EvalExprInPlace(arg) ==   \* mutant: the tree's symbol, not a fresh one
    CASE arg.kind = "level" -> {Ref(arg.level)}
      [] arg.kind = "var"   -> {Copy(val[arg.var])}
      [] arg.kind = "expr"  -> {[Anon(n) EXCEPT !.shared = TRUE] : n \in Ints}
EvalExpr(arg) ==
    CASE arg.kind = "level" -> {Ref(arg.level)}
      [] arg.kind = "var"   -> {Copy(val[arg.var])}
      [] arg.kind = "expr"  -> {Anon(n) : n \in Ints}

-----------------------------------------------------------------------------
(* Initial state: NewContext, PredefVars, and PushSyms, which copies the    *)
(* number of the level a variable is declared with and not the level.       *)

NewContext == ctxLevel = -1 /\ ctxInit = FALSE

PushSyms == [v \in Vars |-> Anon(InitLevel[v])]

Init ==
    /\ levelInt = [l \in Level |-> l]
    /\ val = [s \in Syms |-> IF s = CurrLevel THEN Anon(-1) ELSE PushSyms[s]]
    /\ NewContext
    /\ pc = "start"
    /\ call = [arg |-> Anon(-1), first |-> FALSE]
    /\ verdict = FALSE
    /\ peer = TRUE
    /\ told = Untold /\ left = NoLevel /\ entered = NoLevel

-----------------------------------------------------------------------------
(* SetPredefVars, at the start of every iteration and once before the first.*)

SetPredefVars ==
    LET cur == val[CurrLevel] IN
    \/ /\ ctxLevel < 0
       /\ val' = [val EXCEPT ![CurrLevel] = Ref(0)]
       /\ ctxLevel' = levelInt[0]
       /\ UNCHANGED levelInt
    \/ /\ ctxLevel >= 0 /\ cur.shared
       /\ levelInt' = [levelInt EXCEPT ![cur.name] = ctxLevel]
       /\ UNCHANGED <<val, ctxLevel>>
    \/ /\ ctxLevel >= 0 /\ ~cur.shared
       /\ val' = [val EXCEPT ![CurrLevel] = [@ EXCEPT !.int = ctxLevel]]
       /\ UNCHANGED <<levelInt, ctxLevel>>

\* main, once the monitor has connected.
Start ==
    /\ pc = "start"
    /\ pc' = "first"
    /\ SetPredefVars
    /\ UNCHANGED <<ctxInit, call, verdict, peer, ghosts>>

\* Prog.Interp: the dispatcher starts an iteration.
Interp ==
    /\ pc = "idle"
    /\ pc' = "rules"
    /\ SetPredefVars
    /\ UNCHANGED <<ctxInit, call, verdict, peer, ghosts>>

Done ==
    /\ pc = "rules"
    /\ pc' = "idle"
    /\ UNCHANGED <<levelInt, val, ctxLevel, ctxInit, call, verdict, peer, ghosts>>

\* The action set; it accepts CurrLevel as well as the rules' own variables.
Set(a) ==
    /\ pc = "rules" /\ a.op = "set"
    /\ \E v \in EvalExpr(a.arg) : val' = [val EXCEPT ![a.var] = v]
    /\ UNCHANGED <<levelInt, ctxLevel, ctxInit, pc, call, verdict, peer, ghosts>>

-----------------------------------------------------------------------------
(* extern.Trigger.  isfirst is !context.Init.                               *)

ToHigher(from, to, isfirst) == SLevel(to) > SLevel(from) \/ isfirst
ToLowerFar(from, to) ==   \* mutant: a soft level may fall to any lower one
    IsSoft(from) /\ SLevel(to) < SLevel(from)
ToLower(from, to) == IsSoft(from) /\ SLevel(from) - 1 = SLevel(to)
BadLevel(to) == SLevel(to) > NLevels \/ SLevel(to) < 0

\* Where a call returns to: main's call to the event loop, a rule's to its rule.
After(isfirst) == IF isfirst THEN "idle" ELSE "rules"

\* currlevel.Val.Name = levelto, and the first level has been entered: nop.
Same(to) == to.name = val[CurrLevel].name /\ ctxInit

Legal(to) == LET from == val[CurrLevel]
             IN  ToHigher(from, to, ~ctxInit) \/ ToLower(from, to)

TriggerSame(to) ==
    /\ Same(to)
    /\ verdict' = TRUE
    /\ call' = [arg |-> to, first |-> FALSE]
    /\ val' = [val EXCEPT ![CurrLevel] = to]
    /\ UNCHANGED <<levelInt, ctxLevel, ctxInit, pc, peer, ghosts>>

Refuse(to) ==
    /\ verdict' = FALSE
    /\ call' = [arg |-> to, first |-> ~ctxInit]
    /\ pc' = After(~ctxInit)
    /\ UNCHANGED <<levelInt, val, ctxLevel, peer, ghosts>>

\* Not an edge of the state machine of levels.
TriggerIllegal(to) ==
    /\ ~Same(to)
    /\ BadLevel(to) \/ ~Legal(to)
    /\ ctxInit' = (ctxInit \/ ~BadLevel(to))
    /\ Refuse(to)

\* A program is not executable: those of the declared levels were when the
\* engine started, but may have gone; an anonymous symbol's never was.
TriggerMissing(to) ==
    /\ ~Same(to)
    /\ ~BadLevel(to) /\ Legal(to)
    /\ ctxInit' = TRUE
    /\ Refuse(to)

TriggerSkipsExit(to) ==   \* mutant: only the entry program is run
    /\ ~Same(to)
    /\ ~BadLevel(to) /\ Legal(to)
    /\ Lit \notin {val[CurrLevel].name, to.name}
    /\ ctxInit' = TRUE
    /\ call' = [arg |-> to, first |-> ~ctxInit]
    /\ pc' = "to"
    /\ UNCHANGED <<levelInt, val, ctxLevel, verdict, peer, ghosts>>

TriggerStarts(to) ==
    /\ ~Same(to)
    /\ ~BadLevel(to) /\ Legal(to)
    /\ Lit \notin {val[CurrLevel].name, to.name}
    /\ ctxInit' = TRUE
    /\ call' = [arg |-> to, first |-> ~ctxInit]
    /\ pc' = IF ctxInit THEN "from" ELSE "to"
    /\ UNCHANGED <<levelInt, val, ctxLevel, verdict, peer, ghosts>>

CallTrigger(to) ==
    TriggerSame(to) \/ TriggerIllegal(to) \/ TriggerMissing(to) \/ TriggerStarts(to)

\* main's call, for the initial level.
FirstTrigger == pc = "first" /\ CallTrigger(val[CurrLevel])

\* The action trigger of a rule.
Trigger(a) ==
    /\ pc = "rules" /\ a.op = "trigger"
    /\ \E to \in EvalExpr(a.arg) : CallTrigger(to)

RunFrom ==
    /\ pc = "from"
    /\ pc' = "to"
    /\ left' = val[CurrLevel].name
    /\ UNCHANGED <<levelInt, val, ctxLevel, ctxInit, call, verdict, peer,
                   told, entered>>

ScriptIgnored ==   \* mutant: the status of a program is not looked at
    /\ pc \in {"from", "to"}
    /\ verdict' = TRUE
    /\ pc' = After(call.first)
    /\ UNCHANGED <<levelInt, val, ctxLevel, ctxInit, call, peer, ghosts>>

ScriptFailsLate ==   \* mutant: the level is changed before its entry program runs
    /\ pc \in {"from", "to"}
    /\ verdict' = FALSE
    /\ ctxLevel' = IF pc = "to" THEN SLevel(call.arg) ELSE ctxLevel
    /\ pc' = After(call.first)
    /\ UNCHANGED <<levelInt, val, ctxInit, call, peer, ghosts>>

\* Either program fails: the level stays, whatever has run already.
ScriptFails ==
    /\ pc \in {"from", "to"}
    /\ verdict' = FALSE
    /\ pc' = After(call.first)
    /\ UNCHANGED <<levelInt, val, ctxLevel, ctxInit, call, peer, ghosts>>

RunToKeepsSymbol ==   \* mutant: CurrLevel is left at the old level's symbol
    /\ pc = "to"
    /\ ctxLevel' = SLevel(call.arg)
    /\ told' = IF peer THEN SLevel(call.arg) ELSE told
    /\ verdict' = TRUE
    /\ pc' = After(call.first)
    /\ entered' = call.arg.name
    /\ left' = NoLevel
    /\ UNCHANGED <<levelInt, val, ctxInit, call, peer>>

\* The entry program succeeds: the level changes, and the monitor is told with
\* a write whose result is ignored.
RunTo ==
    /\ pc = "to"
    /\ ctxLevel' = SLevel(call.arg)
    /\ val' = IF call.first THEN val ELSE [val EXCEPT ![CurrLevel] = call.arg]
    /\ told' = IF peer THEN SLevel(call.arg) ELSE told
    /\ verdict' = TRUE
    /\ pc' = After(call.first)
    /\ entered' = call.arg.name
    /\ left' = NoLevel
    /\ UNCHANGED <<levelInt, ctxInit, call, peer>>

-----------------------------------------------------------------------------
\* External: the monitor closes its end of the socket.
PeerGone ==
    /\ peer /\ pc # "start"
    /\ peer' = FALSE
    /\ UNCHANGED <<levelInt, val, ctxLevel, ctxInit, pc, call, verdict, ghosts>>

Next ==
    \/ Start \/ FirstTrigger \/ Interp \/ Done
    \/ \E a \in Actions : Set(a) \/ Trigger(a)
    \/ RunFrom \/ ScriptFails \/ RunTo
    \/ PeerGone

Spec == Init /\ [][Next]_vars
-----------------------------------------------------------------------------
(* Properties.                                                              *)

TypeOK ==
    /\ levelInt \in [Level -> Int]
    /\ val \in [Syms -> Value]
    /\ \A s \in Syms : val[s].shared => val[s].name \in Level
    /\ ctxLevel \in Level \cup {-1}
    /\ ctxInit \in BOOLEAN /\ verdict \in BOOLEAN /\ peer \in BOOLEAN
    /\ pc \in PC
    /\ call \in [arg : Value, first : BOOLEAN]
    /\ call.arg.shared => call.arg.name \in Level
    /\ {told, left, entered} \subseteq Level \cup {-1}

\* A step in which a rule sets CurrLevel.  The documentation says that the
\* predefined variables are immutable (doc/tech/tech.tex:1217), but the compiler
\* lets it through (tree/type.go:202).  No rule of the run levels has one, and the
\* theorems are about the behaviours without such a step.
SetsPredef == \E a \in Actions : a.op = "set" /\ a.var = CurrLevel /\ Set(a)

\* The copies of the level agree whenever a rule may look at them: the number
\* the engine keeps, the symbol CurrLevel holds, its value in comparisons and
\* the name levelname gives it; and every level still has its own number,
\* though the refresh of CurrLevel writes into the level's symbol.
Agreement ==
    pc # "start" =>
      /\ val[CurrLevel].name = ctxLevel
      /\ IntVal(val[CurrLevel]) = ctxLevel
      /\ LevelName(val[CurrLevel]) = ctxLevel
      /\ \A l \in Level : levelInt[l] = l

\* What a rule's next connector sees is what happened: trigger answered true
\* exactly if the level asked for is now the current one, whichever program
\* failed or was missing.
VerdictIsTruth ==
    pc = "rules" /\ call # [arg |-> Anon(-1), first |-> FALSE] /\ ~call.first =>
      (verdict <=> call.arg.name = ctxLevel)

\* The world outside agrees too: the last entry program to succeed and the last
\* notice the monitor got are those of the current level, or none was yet and
\* the level is the initial one (its programs failed, or have not ended); and
\* an exit program that ran without a change of level is the current level's.
OutsideView ==
    /\ entered = ctxLevel \/ (entered = NoLevel /\ ctxLevel <= 0)
    /\ peer => told = entered
    /\ left \in {NoLevel, ctxLevel}

\* A level that is not soft is a floor: once at or above it, always so ("the
\* alert level can only rise except for soft levels", doc/tech/tech.tex:1058).
\* It takes a chain of legal falls to go wrong, not one, if the rules leave
\* CurrLevel alone.  A rule that sets it to a low level breaks the floor with its
\* next trigger, which compares with the symbol: at a hard level 2, set(CurrLevel,
\* l0) and trigger(l1) bring it down to 1.
HardFloor ==
    [][\A l \in Level \ Soft : ctxLevel >= l => ctxLevel' >= l]_vars

\* The engine implements the state machine of levels: it takes its edges only,
\* and only after the exit program.
LM == INSTANCE LevelMachine WITH level   <- IF ctxLevel < 0 THEN 0 ELSE ctxLevel,
                                 leaving <- left # NoLevel
ImplementsLevelMachine == LM!Spec
=============================================================================
