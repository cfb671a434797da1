--------------------------- MODULE Levels_proofs ---------------------------
(***************************************************************************)
(* Theorems about Levels, for any number of levels, any choice of the soft  *)
(* ones, any variables and any program, for the behaviours in which no rule *)
(* sets CurrLevel: what [][~SetsPredef]_vars says in each of them.  The      *)
(* compiler does not forbid such a rule, and with it Agreement, HardFloor   *)
(* and ImplementsLevelMachine are false.                                    *)
(***************************************************************************)
EXTENDS Levels, TLAPS

\* A value that is, or was copied from, a level carries that level's number.
Numbered(v) == v.name \in Level => IntVal(v) = v.name

Values == /\ \A l \in Level : levelInt[l] = l
          /\ \A s \in Syms : Numbered(val[s])

\* Until the first call of Trigger returns, nothing has been told or run.
Boot ==
    /\ pc = "start" => ctxLevel = -1 /\ val[CurrLevel] = Anon(-1)
    /\ pc # "start" => ctxLevel \in Level
    /\ ctxInit <=> pc \notin {"start", "first"}
    /\ ~ctxInit => ctxLevel <= 0 /\ told = Untold /\ left = NoLevel
                   /\ entered = NoLevel /\ ~call.first

\* What the call in progress still relies on when its programs end: the state
\* it was checked in is the state it will change.
Call ==
    pc \in {"from", "to"} =>
      /\ call.arg.name \in Level /\ Numbered(call.arg)
      /\ call.first => /\ pc = "to" /\ call.arg.name = 0 /\ ctxLevel = 0
                       /\ told = Untold /\ left = NoLevel /\ entered = NoLevel
      /\ ~call.first => /\ call.arg.name # ctxLevel
                        /\ \/ call.arg.name > ctxLevel
                           \/ ctxLevel \in Soft /\ call.arg.name = ctxLevel - 1
      /\ ~call.first /\ pc = "to" => left = ctxLevel

\* VerdictIsTruth holds between iterations too.
Verdict ==
    pc \in {"idle", "rules"} /\ ~call.first
    /\ call # [arg |-> Anon(-1), first |-> FALSE] =>
      (verdict <=> call.arg.name = ctxLevel)

\* The inductive invariant.
IInv == TypeOK /\ Agreement /\ Values /\ Boot /\ Call /\ Verdict /\ OutsideView
-----------------------------------------------------------------------------
\* What EvalExpr returns is a value of the program, numbered if it is a level's.
LEMMA EvalExprOK ==
    ASSUME TypeOK, Values, NEW a \in Actions, NEW v \in EvalExpr(a.arg)
    PROVE  v \in Value /\ (v.shared => v.name \in Level) /\ Numbered(v)
<1> DEFINE arg == a.arg
<1>1. arg \in Arg
  BY LevelsAssumption DEF Action
<1>2. CASE arg.kind = "level"
  <2>1. arg.level \in Level /\ v = Ref(arg.level)
    BY <1>1, <1>2 DEF Arg, EvalExpr
  <2> QED
    BY <2>1, LevelsAssumption DEF Values, Value, Ref, Numbered, IntVal, Level
<1>3. CASE arg.kind = "var"
  <2>1. arg.var \in Syms /\ v = Copy(val[arg.var])
    BY <1>1, <1>3 DEF Arg, EvalExpr
  <2>2. val[arg.var] \in Value /\ IntVal(val[arg.var]) \in Int
    BY <2>1 DEF TypeOK, IntVal, Value
  <2> QED
    BY <2>1, <2>2 DEF Values, Value, Copy, Numbered, IntVal
<1>4. CASE arg.kind = "expr"
  <2>1. PICK n \in Ints : v = Anon(n)
    BY <1>4 DEF EvalExpr
  <2> QED
    BY <2>1, LevelsAssumption DEF Value, Anon, Numbered, Level, Lit
<1> QED
  BY <1>1, <1>2, <1>3, <1>4 DEF Arg

\* The refresh of the predefined variables: it starts CurrLevel at the first
\* level, and from then on writes into CurrLevel what is already there.
LEMMA SetPredefVarsOK ==
    ASSUME IInv, SetPredefVars
    PROVE  /\ pc = "start" => /\ ctxLevel' = 0 /\ levelInt' = levelInt
                              /\ val' = [val EXCEPT ![CurrLevel] = Ref(0)]
           /\ pc # "start" => ctxLevel' = ctxLevel /\ levelInt' = levelInt
                              /\ val' = val
<1>1. 0 \in Level
  BY LevelsAssumption DEF Level
<1>2. CASE pc = "start"
  BY <1>1, <1>2 DEF IInv, Boot, Values, SetPredefVars
<1>3. CASE pc # "start"
  <2>1. ctxLevel \in Level /\ IntVal(val[CurrLevel]) = ctxLevel
        /\ val[CurrLevel].name = ctxLevel /\ val[CurrLevel] \in Value
        /\ \A l \in Level : levelInt[l] = l
    BY <1>3 DEF IInv, Boot, Agreement, TypeOK, Syms, Values
  <2>2. ctxLevel >= 0
    BY <2>1 DEF Level
  <2>3. CASE val[CurrLevel].shared
    BY <1>3, <2>1, <2>2, <2>3 DEF IInv, TypeOK, SetPredefVars
  <2>4. CASE ~val[CurrLevel].shared
    <3>1. val[CurrLevel].int = ctxLevel
      BY <2>1, <2>4 DEF IntVal
    <3>2. [val[CurrLevel] EXCEPT !.int = ctxLevel] = val[CurrLevel]
      BY <2>1, <3>1 DEF Value
    <3> QED
      BY <1>3, <2>1, <2>2, <2>4, <3>2 DEF IInv, TypeOK, SetPredefVars
  <2> QED
    BY <2>3, <2>4
<1> QED
  BY <1>2, <1>3

\* The part of the invariant that is about values survives a step that keeps the
\* level's symbols and gives CurrLevel and the variables numbered values.
LEMMA ValuesStep ==
    ASSUME IInv, levelInt' = levelInt,
           NEW s \in Syms, NEW v \in Value, v.shared => v.name \in Level,
           Numbered(v), val' = [val EXCEPT ![s] = v]
    PROVE  /\ Values'
           /\ val' \in [Syms -> Value]
           /\ \A t \in Syms : val'[t].shared => val'[t].name \in Level
BY DEF IInv, TypeOK, Values, Numbered, IntVal

\* A call of extern.Trigger, up to the answer or the first program it runs.
LEMMA CallTriggerOK ==
    ASSUME IInv, NEW to \in Value, to.shared => to.name \in Level, Numbered(to),
           \/ pc = "first" /\ to = val[CurrLevel]
           \/ pc = "rules",
           CallTrigger(to)
    PROVE  IInv'
<1> USE DEF After, ghosts, vars
<1>1. /\ ctxLevel \in Level /\ val[CurrLevel].name = ctxLevel
      /\ CurrLevel \in Syms /\ val[CurrLevel] \in Value
      /\ ctxLevel # Lit /\ SLevel(val[CurrLevel]) = ctxLevel
  BY LevelsAssumption DEF IInv, Boot, Agreement, TypeOK, Syms, Level, Lit, SLevel
<1>2. CASE TriggerSame(to)
  <2>1. to.name = ctxLevel /\ IntVal(to) = ctxLevel /\ pc = "rules" /\ ctxInit
    BY <1>1, <1>2 DEF TriggerSame, Same, IInv, Boot, Numbered
  <2>2. Values' /\ TypeOK'
    BY <1>1, <1>2, ValuesStep DEF TriggerSame, IInv, TypeOK, PC, ghosts
  <2>3. Agreement'
    BY <1>1, <1>2, <2>1, <2>2 DEF TriggerSame, IInv, TypeOK, Agreement, IntVal,
                                   LevelName, Values
  <2>4. Boot' /\ Call' /\ Verdict' /\ OutsideView'
    BY <1>1, <1>2, <2>1 DEF TriggerSame, IInv, Boot, Call, Verdict, OutsideView
  <2> QED
    BY <2>2, <2>3, <2>4 DEF IInv
<1>3. CASE Refuse(to) /\ ctxInit' = TRUE /\ ~Same(to)
  <2>1. TypeOK' /\ Values' /\ Agreement'
    BY <1>1, <1>3 DEF Refuse, IInv, TypeOK, PC, Values, Numbered, IntVal,
                      Agreement, LevelName
  <2>2. Boot' /\ OutsideView' /\ Call'
    BY <1>1, <1>3 DEF Refuse, IInv, Boot, OutsideView, Call
  <2>3. Verdict'
    BY <1>1, <1>3 DEF Refuse, Same, IInv, Boot, Verdict
  <2> QED
    BY <2>1, <2>2, <2>3 DEF IInv
<1>4. CASE TriggerStarts(to)
  <2>1. to.name \in Level /\ SLevel(to) = to.name
    BY <1>4 DEF TriggerStarts, Value, SLevel, Lit
  <2>2. TypeOK' /\ Values' /\ Agreement'
    BY <1>1, <1>4 DEF TriggerStarts, IInv, TypeOK, PC, Values, Numbered, IntVal,
                      Agreement, LevelName
  <2>3. Boot' /\ OutsideView' /\ Verdict'
    BY <1>1, <1>4 DEF TriggerStarts, IInv, Boot, OutsideView, Verdict
  <2>4. Call'
    <3>1. CASE ctxInit
      BY <1>1, <1>4, <2>1, <3>1 DEF TriggerStarts, Same, Legal, ToHigher, ToLower,
           IsSoft, IInv, Boot, Call, Numbered, IntVal, Level
    <3>2. CASE ~ctxInit
      <4>1. pc = "first" /\ ctxLevel = 0 /\ to.name = 0
        BY <1>1, <3>2, LevelsAssumption DEF IInv, Boot, Level
      <4> QED
        BY <1>4, <2>1, <3>2, <4>1 DEF TriggerStarts, IInv, Boot, Call, Numbered,
             IntVal
    <3> QED
      BY <3>1, <3>2
  <2> QED
    BY <2>2, <2>3, <2>4 DEF IInv
<1>5. ~BadLevel(to)
  BY LevelsAssumption DEF BadLevel, SLevel, Value, Level, Lit
<1> QED
  BY <1>2, <1>3, <1>4, <1>5 DEF CallTrigger, TriggerIllegal, TriggerMissing

-----------------------------------------------------------------------------

LEMMA InitOK == Init => IInv
<1> SUFFICES ASSUME Init PROVE IInv
  OBVIOUS
<1>1. 0 \in Level /\ Level \subseteq Int /\ Lit \notin Level
  BY LevelsAssumption DEF Level, Lit
<1>2. val \in [Syms -> Value] /\ \A s \in Syms : ~val[s].shared /\ val[s].name = Lit
  <2>1. \A n \in Int : Anon(n) \in Value /\ ~Anon(n).shared /\ Anon(n).name = Lit
    BY DEF Anon, Value
  <2>2. \A s \in Syms : val[s] = Anon(-1) \/ (s \in Vars /\ val[s] = Anon(InitLevel[s]))
    <3> SUFFICES ASSUME NEW s \in Syms
                 PROVE  val[s] = Anon(-1) \/ (s \in Vars /\ val[s] = Anon(InitLevel[s]))
      OBVIOUS
    <3>1. val[s] = IF s = CurrLevel THEN Anon(-1) ELSE PushSyms[s]
      BY DEF Init
    <3>2. s # CurrLevel => s \in Vars /\ PushSyms[s] = Anon(InitLevel[s])
      BY DEF Syms, PushSyms
    <3> QED
      BY <3>1, <3>2
  <2>3. \A s \in Vars : InitLevel[s] \in Int
    BY <1>1, LevelsAssumption
  <2>4. \A s \in Syms : val[s] \in Value /\ ~val[s].shared /\ val[s].name = Lit
    BY <2>1, <2>2, <2>3
  <2> QED
    BY <2>4 DEF Init
<1>3. levelInt \in [Level -> Int] /\ call \in [arg : Value, first : BOOLEAN]
      /\ ~call.arg.shared
  BY <1>1 DEF Init, Value, Anon
<1>4. TypeOK
  BY <1>2, <1>3 DEF Init, NewContext, TypeOK, PC, Untold, NoLevel
<1> QED
  BY <1>1, <1>2, <1>4 DEF Init, NewContext, IInv, Agreement, Values, Numbered, Boot,
     Call, Verdict, OutsideView, Syms, Untold, NoLevel

\* Every step but a rule's that sets CurrLevel keeps the invariant: one step of
\* the proof for each action.
LEMMA StepOK ==
    ASSUME IInv, [Next]_vars, [~SetsPredef]_vars
    PROVE  IInv'
<1> USE DEF ghosts
<1>1. CurrLevel \in Syms /\ val[CurrLevel] \in Value
      /\ (val[CurrLevel].shared => val[CurrLevel].name \in Level)
      /\ Numbered(val[CurrLevel])
  BY DEF IInv, TypeOK, Syms, Values
<1>2. 0 \in Level /\ Level \subseteq Int /\ Lit \notin Level
  BY LevelsAssumption DEF Level, Lit
<1>3. CASE Start
  <2>1. /\ ctxLevel' = 0 /\ levelInt' = levelInt
        /\ val' = [val EXCEPT ![CurrLevel] = Ref(0)]
    BY <1>3, SetPredefVarsOK DEF Start
  <2>2. Ref(0) \in Value /\ Numbered(Ref(0))
    BY <1>2 DEF Ref, Value, Numbered, IntVal, IInv, Values
  <2>3. TypeOK' /\ Values'
    BY <1>1, <1>2, <1>3, <2>1, <2>2, ValuesStep DEF Start, IInv, TypeOK, PC, Ref
  <2>4. Agreement'
    BY <1>1, <1>2, <2>1, <2>3 DEF IInv, TypeOK, Agreement, Ref, IntVal, LevelName, Values
  <2>5. Boot' /\ Call' /\ Verdict' /\ OutsideView'
    BY <1>1, <1>2, <1>3, <2>1 DEF Start, IInv, Boot, Call, Verdict, OutsideView,
       NoLevel, Untold
  <2> QED
    BY <2>3, <2>4, <2>5 DEF IInv
<1>4. CASE FirstTrigger
  BY <1>1, <1>4, CallTriggerOK DEF FirstTrigger
<1>5. CASE Interp
  <2>1. UNCHANGED <<ctxLevel, levelInt, val>>
    BY <1>5, SetPredefVarsOK DEF Interp
  <2> QED
    BY <1>5, <2>1 DEF Interp, IInv, TypeOK, PC, Agreement, Values, Numbered, IntVal,
       LevelName, Boot, Call, Verdict, OutsideView
<1>6. CASE Done
  BY <1>6 DEF Done, IInv, TypeOK, PC, Agreement, Values, Numbered, IntVal, LevelName,
     Boot, Call, Verdict, OutsideView
<1>7. ASSUME NEW a \in Actions, Set(a), ~UNCHANGED vars
      PROVE  IInv'
  <2>1. a.var \in Syms /\ a.var # CurrLevel
    BY <1>7, LevelsAssumption DEF Set, Action, SetsPredef
  <2>2. PICK v \in EvalExpr(a.arg) : val' = [val EXCEPT ![a.var] = v]
    BY <1>7 DEF Set
  <2>3. v \in Value /\ (v.shared => v.name \in Level) /\ Numbered(v)
    BY <1>7, EvalExprOK DEF IInv
  <2>4. TypeOK' /\ Values'
    BY <1>7, <2>1, <2>2, <2>3, ValuesStep DEF Set, IInv, TypeOK
  <2>5. val'[CurrLevel] = val[CurrLevel] /\ levelInt' = levelInt
    BY <1>1, <1>7, <2>1, <2>2 DEF Set, IInv, TypeOK
  <2> QED
    BY <1>7, <2>4, <2>5 DEF Set, IInv, Agreement, IntVal, LevelName, Boot, Call,
       Verdict, OutsideView
<1>8. ASSUME NEW a \in Actions, Trigger(a)
      PROVE  IInv'
  BY <1>8, EvalExprOK, CallTriggerOK DEF Trigger, IInv
<1>9. CASE RunFrom
  BY <1>1, <1>9 DEF RunFrom, IInv, TypeOK, PC, Agreement, Values, Numbered, IntVal,
     LevelName, Boot, Call, Verdict, OutsideView
<1>10. CASE ScriptFails
  BY <1>1, <1>2, <1>10 DEF ScriptFails, After, IInv, TypeOK, PC, Agreement, Values,
     Numbered, IntVal, LevelName, Boot, Call, Verdict, OutsideView
<1>11. CASE RunTo
  <2>1. /\ call.arg \in Value /\ call.arg.name \in Level
        /\ SLevel(call.arg) = call.arg.name /\ Numbered(call.arg)
        /\ ctxInit /\ ctxLevel \in Level
    BY <1>2, <1>11 DEF RunTo, IInv, TypeOK, Call, Boot, SLevel
  <2>2. val' = [val EXCEPT ![CurrLevel] = val'[CurrLevel]]
        /\ val'[CurrLevel] = IF call.first THEN val[CurrLevel] ELSE call.arg
    BY <1>1, <1>11 DEF RunTo, IInv, TypeOK
  <2>3. TypeOK' /\ Values'
    BY <1>1, <1>2, <1>11, <2>1, <2>2, ValuesStep DEF RunTo, After, IInv, TypeOK, PC, NoLevel
  <2>4. val'[CurrLevel].name = ctxLevel' /\ val'[CurrLevel] \in Value
    BY <1>1, <1>11, <2>1, <2>2 DEF RunTo, IInv, Call, Agreement
  <2>5. Agreement'
    BY <1>1, <1>11, <2>1, <2>3, <2>4 DEF RunTo, Agreement, Values, Numbered,
       IntVal, LevelName
  <2>6. Boot' /\ Call' /\ Verdict' /\ OutsideView'
    BY <1>1, <1>2, <1>11, <2>1 DEF RunTo, After, IInv, TypeOK, Boot, Call, Verdict,
       OutsideView, NoLevel
  <2> QED
    BY <2>3, <2>5, <2>6 DEF IInv
<1>12. CASE PeerGone
  BY <1>12 DEF PeerGone, IInv, TypeOK, PC, Agreement, Values, Numbered, IntVal,
     LevelName, Boot, Call, Verdict, OutsideView
<1>13. CASE UNCHANGED vars
  BY <1>13 DEF vars, IInv, TypeOK, PC, Agreement, Values, Numbered, IntVal,
     LevelName, Boot, Call, Verdict, OutsideView
<1> QED
  BY <1>3, <1>4, <1>5, <1>6, <1>7, <1>8, <1>9, <1>10, <1>11, <1>12, <1>13 DEF Next

\* What a step may do to the level, the exit program and the monitor, in the
\* terms of LevelMachine.
LEMMA LevelStep ==
    ASSUME IInv, [Next]_vars
    PROVE  /\ \A l \in Level \ Soft : ctxLevel >= l => ctxLevel' >= l
           /\ [LM!Next]_(LM!vars)
<1> USE DEF ghosts, LM!vars, LM!Next, NoLevel, Untold, LM!Untold
<1>1. /\ 0 \in Level /\ Level \subseteq Int /\ Lit \notin Level
      /\ \A l \in Level : l >= 0
  BY LevelsAssumption DEF Level, Lit
<1>2. CASE UNCHANGED <<ctxLevel, left, told>>
  BY <1>1, <1>2, LevelsAssumption DEF IInv, TypeOK
<1>3. CASE Start
  BY <1>1, <1>3, SetPredefVarsOK DEF Start, IInv, Boot
<1>4. CASE Interp
  BY <1>2, <1>4, SetPredefVarsOK DEF Interp
<1>5. CASE RunFrom
  <2>1. ctxLevel \in Level /\ val[CurrLevel].name = ctxLevel
    BY <1>5 DEF RunFrom, IInv, Boot, Agreement
  <2>2. LM!Leave
    BY <1>1, <1>5, <2>1 DEF RunFrom, LM!Leave
  <2> QED
    BY <1>1, <1>5, <2>1, <2>2 DEF RunFrom
<1>6. CASE RunTo
  <2>1. /\ call.arg.name \in Level /\ ctxLevel' = call.arg.name
        /\ ctxLevel \in Level /\ left' = -1
        /\ told' \in {told, call.arg.name}
    BY <1>1, <1>6 DEF RunTo, IInv, Call, Boot, SLevel
  <2>2. CASE call.first
    <3>1. call.arg.name = 0 /\ ctxLevel = 0 /\ told = -1 /\ left = -1
      BY <1>6, <2>2 DEF RunTo, IInv, Call
    <3>2. told' = 0 => LM!EnterFirst
      BY <2>1, <3>1 DEF LM!EnterFirst
    <3> QED
      BY <2>1, <3>1, <3>2
  <2>3. CASE ~call.first
    <3>1. /\ left = ctxLevel
          /\ \/ call.arg.name > ctxLevel
             \/ ctxLevel \in Soft /\ call.arg.name = ctxLevel - 1
      BY <1>6, <2>3 DEF RunTo, IInv, Call
    <3> DEFINE to == call.arg.name
    <3>a. to \in Int /\ ctxLevel \in Int /\ to >= 0 /\ ctxLevel >= 0
      BY <1>1, <2>1
    <3> HIDE DEF to
    <3>b. ctxLevel' = to /\ (to > ctxLevel \/ (ctxLevel \in Soft /\ to = ctxLevel - 1))
      BY <2>1, <3>1 DEF to
    <3>2. ASSUME NEW l \in Level \ Soft, ctxLevel >= l PROVE ctxLevel' >= l
      <4>1. l \in Int /\ (ctxLevel \in Soft => ctxLevel # l)
        BY <1>1
      <4> QED
        BY <3>a, <3>b, <3>2, <4>1
    <3>3. LM!Enter(call.arg.name)
      <4>1. LM!LegalMove(ctxLevel, to)
        BY <3>b DEF LM!LegalMove
      <4>2. ~(ctxLevel < 0) /\ ~(ctxLevel' < 0) /\ left # -1 /\ left' = -1
        BY <2>1, <3>1, <3>a, <3>b
      <4> QED
        BY <2>1, <3>b, <4>1, <4>2 DEF LM!Enter, to
    <3> QED
      BY <2>1, <3>2, <3>3 DEF LM!Level, Level
  <2> QED
    BY <2>2, <2>3
<1>7. CASE FirstTrigger \/ \E a \in Actions : Trigger(a)
  BY <1>2, <1>7 DEF FirstTrigger, Trigger, CallTrigger, TriggerSame, TriggerIllegal,
     TriggerMissing, TriggerStarts, Refuse
<1>8. CASE Done \/ ScriptFails \/ PeerGone \/ \E a \in Actions : Set(a)
  BY <1>2, <1>8 DEF Done, ScriptFails, PeerGone, Set
<1> QED
  BY <1>2, <1>3, <1>4, <1>5, <1>6, <1>7, <1>8 DEF Next, vars

\* The copies of the current level agree, what trigger answers is what happened,
\* and the monitor and the external programs have seen the same level, in every
\* state the engine reaches, half way through a change of level included,
\* as long as no rule sets CurrLevel.
THEOREM LevelsSafe ==
    Spec /\ [][~SetsPredef]_vars
      => [](TypeOK /\ Agreement /\ VerdictIsTruth /\ OutsideView)
<1>1. IInv /\ [Next]_vars /\ [~SetsPredef]_vars => IInv'
  BY StepOK
<1>2. IInv => TypeOK /\ Agreement /\ VerdictIsTruth /\ OutsideView
  BY DEF IInv, Verdict, VerdictIsTruth
<1> QED
  BY InitOK, <1>1, <1>2, PTL DEF Spec

\* A level that is not soft is never left for a lower one, by any chain of falls,
\* as long as no rule sets CurrLevel.
THEOREM LevelsFloor == Spec /\ [][~SetsPredef]_vars => HardFloor
<1>1. IInv /\ [Next]_vars /\ [~SetsPredef]_vars => IInv'
  BY StepOK
<1>2. IInv /\ [Next]_vars => [\A l \in Level \ Soft : ctxLevel >= l => ctxLevel' >= l]_vars
  BY LevelStep
<1> QED
  BY InitOK, <1>1, <1>2, PTL DEF Spec, HardFloor

\* The engine implements the state machine of levels, as long as no rule sets
\* CurrLevel.
THEOREM LevelsRefines == Spec /\ [][~SetsPredef]_vars => ImplementsLevelMachine
<1>1. IInv /\ [Next]_vars /\ [~SetsPredef]_vars => IInv'
  BY StepOK
<1>2. Init => LM!Init
  BY DEF Init, NewContext, LM!Init, NoLevel, Untold, LM!Untold
<1>3. IInv /\ [Next]_vars => [LM!Next]_(LM!vars)
  BY LevelStep
<1> QED
  BY InitOK, <1>1, <1>2, <1>3, PTL DEF Spec, LM!Spec, ImplementsLevelMachine
=============================================================================
