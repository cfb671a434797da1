----------------------------- MODULE Desc_proofs -----------------------------
(***************************************************************************)
(* The parser of programs, whatever the text, its errors and their limit:    *)
(* first the environments, then what is read and what is refused.            *)
(***************************************************************************)
EXTENDS Desc, TLAPS

\* The labels of the functions that have pushed the environment of a rule, and
\* where the search for a token goes on after an error, tell the environments.
Inv ==
    /\ nErr \in 0..maxErrors /\ depth \in Nat
    /\ pc = "sync" => after \in Callers \ {"none"}
    /\ EnvsBalanced

LEMMA InvInit == Init => Inv
BY DescAssumption DEF Init, Inv, EnvsBalanced, InRule, AtEntry

LEMMA InvNext == Inv /\ [Next]_vars => Inv'
<1> SUFFICES ASSUME Inv, [Next]_vars PROVE Inv'
  OBVIOUS
<1> USE DescAssumption DEF Inv, EnvsBalanced, InRule, AtEntry
<1>1. CASE result # "run" \/ UNCHANGED vars
  BY <1>1 DEF Next, vars, Callers
<1>2. ASSUME Prog, result = "run" PROVE Inv'
  <2>1. CASE ProgStarts
    BY <1>2, <2>1 DEF ProgStarts, Silent
  <2>2. CASE ProgEnds
    BY <1>2, <2>2 DEF ProgEnds, Goto, Return
  <2>3. CASE ProgOther
    BY <1>2, <2>3 DEF ProgOther, Report, Sync, Errorf, Callers
  <2>4. CASE RuleId
    BY <1>2, <2>4 DEF RuleId, Silent, Goto, Accept
  <2>5. CASE NoRuleId
    BY <1>2, <2>5 DEF NoRuleId, Lose, Sync, Callers
  <2>6. CASE Colon
    BY <1>2, <2>6 DEF Colon, Report, Silent, Goto, Sync, Accept, Errorf, matchErr,
       Callers
  <2>7. CASE RuleSect
    BY <1>2, <2>7 DEF RuleSect, Clash, Silent, Goto, Sync, Errorf, Callers
  <2>8. CASE SectionEnds
    BY <1>2, <2>8 DEF SectionEnds, Clash, Silent, Goto, Errorf
  <2>9. CASE SectionFails
    BY <1>2, <2>9 DEF SectionFails, Report, Sync, Errorf, Callers
  <2> QED
    BY <1>2, <2>1, <2>2, <2>3, <2>4, <2>5, <2>6, <2>7, <2>8, <2>9 DEF Prog
<1>3. ASSUME LevelDecls, result = "run" PROVE Inv'
  <2>1. CASE LevelId
    BY <1>3, <2>1 DEF LevelId, Silent
  <2>2. CASE LevelTaken
    BY <1>3, <2>2 DEF LevelTaken, Clash, Sync, Errorf, Callers
  <2>3. CASE LevelsEnd
    BY <1>3, <2>3 DEF LevelsEnd, Report, Silent, Goto, Sync, Errorf, Callers
  <2>4. CASE LevelSoft
    BY <1>3, <2>4 DEF LevelSoft, Silent, Lose, Goto
  <2>5. CASE LevelSemi
    BY <1>3, <2>5 DEF LevelSemi, Report, Silent, Goto, Sync, Accept, Errorf, matchErr,
       Callers
  <2> QED
    BY <1>3, <2>1, <2>2, <2>3, <2>4, <2>5 DEF LevelDecls
<1>4. ASSUME Decls, result = "run" PROVE Inv'
  <2>1. CASE DeclName
    BY <1>4, <2>1 DEF DeclName, Silent, Goto, Accept
  <2>2. CASE DeclsEnd
    BY <1>4, <2>2 DEF DeclsEnd, Silent, Lose, Goto
  <2>3. CASE DeclsOther
    BY <1>4, <2>3 DEF DeclsOther, Lose, Sync, Callers
  <2>4. CASE DeclsBad
    BY <1>4, <2>4 DEF DeclsBad, Silent, Goto, Accept
  <2>5. CASE DeclsAfterBad
    BY <1>4, <2>5 DEF DeclsAfterBad, Silent, Goto, Sync, Callers
  <2>6. CASE DeclType
    BY <1>4, <2>6 DEF DeclType, Report, Clash, Silent, Goto, Sync, Accept, Errorf,
       matchErr, Callers
  <2>7. CASE DeclAsig
    BY <1>4, <2>7 DEF DeclAsig, Report, Silent, Goto, Sync, Accept, Errorf, matchErr,
       Callers
  <2>8. CASE DeclSemi
    BY <1>4, <2>8 DEF DeclSemi, Report, Silent, Goto, Sync, Accept, Errorf, matchErr,
       Callers
  <2> QED
    BY <1>4, <2>1, <2>2, <2>3, <2>4, <2>5, <2>6, <2>7, <2>8 DEF Decls
<1>5. ASSUME ActionDecls, result = "run" PROVE Inv'
  <2>1. CASE RuleStarts
    BY <1>5, <2>1 DEF RuleStarts, Goto, Errorf, NewCurrRule
  <2>2. CASE RulesEnd
    BY <1>5, <2>2 DEF RulesEnd, Goto, Errorf, NewCurrRule
  <2>3. CASE RulesBad
    BY <1>5, <2>3 DEF RulesBad, Sync, Errorf, NewCurrRule, Callers
  <2>4. CASE Quest
    BY <1>5, <2>4 DEF Quest, ReportAndPop, Silent, Goto, Sync, Accept, Errorf, Callers
  <2>5. CASE Ruler
    BY <1>5, <2>5 DEF Ruler, Silent, Goto
  <2>6. CASE NoAction
    BY <1>5, <2>6 DEF NoAction, ReportAndPop, Sync, Errorf, Callers
  <2>7. CASE Connector
    BY <1>5, <2>7 DEF Connector, Silent, Goto, Accept
  <2>8. CASE NoConnector
    BY <1>5, <2>8 DEF NoConnector, Silent, Lose, Sync, Callers
  <2>9. CASE RulerBad
    BY <1>5, <2>9 DEF RulerBad, ReportAndPop, Sync, Errorf, Callers
  <2>10. CASE RuleSemi
    BY <1>5, <2>10 DEF RuleSemi, ReportAndPop, Goto, Sync, Errorf, Callers
  <2> QED
    BY <1>5, <2>1, <2>2, <2>3, <2>4, <2>5, <2>6, <2>7, <2>8, <2>9, <2>10 DEF ActionDecls
<1>6. ASSUME Expr, result = "run" PROVE Inv'
  <2>1. CASE Operand
    BY <1>6, <2>1 DEF Operand, Clash, Silent, Goto, Errorf, OperatorOf, Operands
  <2>2. CASE Operator
    BY <1>6, <2>2 DEF Operator, Silent, Goto, Accept, OperatorOf, Operands
  <2>3. CASE ExprEnds
    BY <1>6, <2>3 DEF ExprEnds, Silent, Goto
  <2>4. CASE ExprFails
    BY <1>6, <2>4 DEF ExprFails, Report, Sync, Errorf, Operands, NotAnExpr, Callers
  <2> QED
    BY <1>6, <2>1, <2>2, <2>3, <2>4 DEF Expr
<1>7. ASSUME NextSync, result = "run" PROVE Inv'
  <2>1. CASE Skip
    BY <1>7, <2>1 DEF Skip, Silent
  <2>2. CASE SyncReturns
    BY <1>7, <2>2 DEF SyncReturns, Goto, Return, Stopped
  <2>3. CASE SyncAgain
    BY <1>7, <2>3 DEF SyncAgain, Silent, Sync, Stopped, Callers
  <2>4. CASE SyncConnector
    BY <1>7, <2>4 DEF SyncConnector, Silent, Goto, Accept, Stopped
  <2>5. CASE SyncStops
    <3>1. /\ pc = "sync" /\ after \in Callers \ {"none", "parse", "parsed", "again"}
          /\ pc' = Resume /\ UNCHANGED <<after, nErr, depth, result>>
      BY <2>5 DEF SyncStops, Stopped, Goto, Silent
    <3>2. CASE after \in {"connector", "ruler"}
      <4>1. Resume = "rulesemi"
        BY <3>2 DEF Resume
      <4> QED
        BY <1>7, <3>1, <3>2, <4>1
    <3>3. CASE after \notin {"connector", "ruler"}
      <4>1. Resume \in {"secerr", "secok", "levels", "decls", "rules", "prog"}
        BY <3>1, <3>3 DEF Resume, Callers
      <4> QED
        BY <1>7, <3>1, <3>3, <4>1
    <3> QED
      BY <3>2, <3>3
  <2> QED
    BY <1>7, <2>1, <2>2, <2>3, <2>4, <2>5 DEF NextSync
<1> QED
  BY <1>1, <1>2, <1>3, <1>4, <1>5, <1>6, <1>7 DEF Next, Parsing

\* Whatever the text, its errors and their limit, the environments are pushed
\* and popped in pairs, so that no rule sees what another declared.
THEOREM DescEnvs == Spec => []EnvsBalanced
<1>1. Inv => EnvsBalanced
  BY DEF Inv
<1> QED
  BY <1>1, InvInit, InvNext, PTL DEF Spec
-----------------------------------------------------------------------------
(* What is read and what is refused.  The parser and the grammar go in step  *)
(* until the text cannot be continued to a program; from there on, whatever   *)
(* the parser makes of it, it cannot, and there is an error, or something was *)
(* lost, or one of the two is about to be.                                   *)

Doomed == gram = "no" \/ (Derive(gram, tok) = "no" /\ ~Grammatical)

Pending == pc \in {"declsbad", "secerr"} \/ (pc = "sync" /\ after = "declsbad")
Noted == nErr > 0 \/ lost \/ result = "error" \/ (result = "run" /\ Pending)

\* Where the grammar is when the parser is at pc.  A label whose function has
\* looked at the token and gone on knows something of it.
InStep ==
    \/ /\ pc \in {"prog", "secok"} /\ gram \in Boundary
       /\ tok \in EndSect \/ Derive(gram, tok) = "no"
    \/ /\ pc = "colon" /\ sect \in Sections
       /\ gram = IF sect \in {"vars", "consts"} THEN "decls:"
                 ELSE IF sect = "rules" THEN "rules:" ELSE "levels:"
    \/ pc = "ruleid" /\ gram = "ruleid" /\ sect = "rules"
    \/ pc \in {"levels", "level", "decls", "type", "asig", "init", "init.",
               "rules", "cond.", "act", "act."} /\ gram = pc
    \/ pc = "rulesect" /\ gram = "rules"
    \/ pc = "levelsemi" /\ (gram = "softlevel" \/ (gram = "level" /\ tok # "soft"))
    \/ pc = "declsemi" /\ gram = "init." /\ tok # "op"
    \/ pc = "cond" /\ (gram = "cond" \/ (gram = "rules" /\ tok \in ExprToks))
    \/ pc = "quest" /\ gram = "cond." /\ tok # "op"
    \/ pc = "ruler" /\ gram = "act"
    \/ pc = "connector" /\ gram = "act." /\ tok # "op"
    \/ pc = "sync" /\ after = "connector" /\ gram = "act." /\ tok \in EndSect \cup {"semi"}
    \/ pc = "rulesemi" /\ gram = "act." /\ tok \notin Connectors \cup {"op"}

Incomplete == {"level", "levelsemi", "declsemi", "quest", "connector", "sync", "rulesemi"}
Follows ==
    /\ nErr = 0 /\ ~lost
    /\ ahead = IF pc \in Incomplete THEN 1 ELSE 0
    /\ \/ result = "run" /\ InStep
       \/ result = "ok" /\ pc = "done" /\ Grammatical

ReadInv == ~clash => Follows \/ (Doomed /\ Noted)

\* A step takes the token or leaves it.
Moves == gram' = Derive(gram, tok) \/ UNCHANGED <<tok, gram>>

LEMMA Peeks == Peeked => Moves
BY DEF Peeked, Take, Look, Moves

LEMMA StepMoves == ASSUME Parsing PROVE Moves
<1>1. CASE Prog
  BY <1>1, Peeks DEF Prog, Moves, ProgStarts, ProgEnds, ProgOther, RuleId,
       NoRuleId, Colon, RuleSect, SectionEnds, SectionFails, Take, Look, Accept,
       matchErr
<1>2. CASE LevelDecls
  BY <1>2, Peeks DEF LevelDecls, Moves, LevelId, LevelTaken, LevelsEnd, LevelSoft,
       LevelSemi, Take, Look, matchErr, Accept
<1>3. CASE Decls
  BY <1>3, Peeks DEF Decls, Moves, DeclName, DeclsEnd, DeclsOther, DeclsBad,
       DeclsAfterBad, DeclType, DeclAsig, DeclSemi, Accept, Take, Look, matchErr
<1>4. CASE ActionDecls
  BY <1>4, Peeks DEF ActionDecls, Moves, RuleStarts, RulesEnd, RulesBad, Quest,
       Ruler, NoAction, Connector, NoConnector, RulerBad, RuleSemi, Look, Take,
       Accept
<1>5. CASE Expr
  BY <1>5 DEF Expr, Moves, Operand, Operator, ExprEnds, ExprFails, Take, Accept,
       Look
<1>6. CASE NextSync
  BY <1>6, Peeks DEF NextSync, Moves, Skip, SyncReturns, SyncAgain, SyncConnector,
       SyncStops, Take, TakeSemi, Accept
<1> QED
  BY <1>1, <1>2, <1>3, <1>4, <1>5, <1>6 DEF Parsing

\* Once no program begins so, none does.
LEMMA DoomStays == ASSUME Doomed, Moves PROVE Doomed'
<1>1. Derive("no", tok) = "no"
  BY DEF Derive, Opens, Boundary
<1>2. CASE gram' = Derive(gram, tok)
  BY <1>1, <1>2 DEF Doomed
<1>3. CASE UNCHANGED <<tok, gram>>
  BY <1>3 DEF Doomed, Grammatical
<1> QED
  BY <1>2, <1>3 DEF Moves

\* What there was to tell is told: an error stays counted, and where one is about
\* to be reported nothing else can happen.
LEMMA StepTells == ASSUME Inv, result = "run", Parsing
                   PROVE  (Noted => Noted') /\ (clash => clash')
<1> USE DescAssumption DEF Inv, Noted, Pending
<1>1. ASSUME Prog PROVE (Noted => Noted') /\ (clash => clash')
  <2>1. CASE ProgStarts
    BY <2>1 DEF ProgStarts, Silent
  <2>2. CASE ProgEnds
    BY <2>2 DEF ProgEnds, Return, Goto
  <2>3. CASE ProgOther
    BY <2>3 DEF ProgOther, Report, Errorf, Sync
  <2>4. CASE RuleId
    BY <2>4 DEF RuleId, Accept, Silent, Goto
  <2>5. CASE NoRuleId
    BY <2>5 DEF NoRuleId, Lose, Sync
  <2>6. CASE Colon
    BY <2>6 DEF Colon, matchErr, Accept, Silent, Goto, Report, Errorf, Sync
  <2>7. CASE RuleSect
    BY <2>7 DEF RuleSect, Silent, Goto, Clash, Errorf, Sync
  <2>8. CASE SectionEnds
    BY <2>8 DEF SectionEnds, Clash, Errorf, Silent, Goto
  <2>9. CASE SectionFails
    BY <2>9 DEF SectionFails, Report, Errorf, Sync
  <2> QED
    BY <1>1, <2>1, <2>2, <2>3, <2>4, <2>5, <2>6, <2>7, <2>8, <2>9 DEF Prog
<1>2. ASSUME LevelDecls PROVE (Noted => Noted') /\ (clash => clash')
  <2>1. CASE LevelId
    BY <2>1 DEF LevelId, Silent
  <2>2. CASE LevelTaken
    BY <2>2 DEF LevelTaken, Clash, Errorf, Sync
  <2>3. CASE LevelsEnd
    BY <2>3 DEF LevelsEnd, Report, Errorf, Silent, Goto, Sync
  <2>4. CASE LevelSoft
    BY <2>4 DEF LevelSoft, Silent, Lose, Goto
  <2>5. CASE LevelSemi
    BY <2>5 DEF LevelSemi, matchErr, Accept, Silent, Goto, Report, Errorf, Sync
  <2> QED
    BY <1>2, <2>1, <2>2, <2>3, <2>4, <2>5 DEF LevelDecls
<1>3. ASSUME Decls PROVE (Noted => Noted') /\ (clash => clash')
  <2>1. CASE DeclName
    BY <2>1 DEF DeclName, Accept, Silent, Goto
  <2>2. CASE DeclsEnd
    BY <2>2 DEF DeclsEnd, Silent, Lose, Goto
  <2>3. CASE DeclsOther
    BY <2>3 DEF DeclsOther, Lose, Sync
  <2>4. CASE DeclsBad
    BY <2>4 DEF DeclsBad, Accept, Silent, Goto
  <2>5. CASE DeclsAfterBad
    BY <2>5 DEF DeclsAfterBad, Silent, Goto, Sync
  <2>6. CASE DeclType
    BY <2>6 DEF DeclType, matchErr, Accept, Silent, Goto, Report, Clash, Errorf,
       Sync
  <2>7. CASE DeclAsig
    BY <2>7 DEF DeclAsig, matchErr, Accept, Silent, Goto, Report, Errorf, Sync
  <2>8. CASE DeclSemi
    BY <2>8 DEF DeclSemi, matchErr, Accept, Silent, Goto, Report, Errorf, Sync
  <2> QED
    BY <1>3, <2>1, <2>2, <2>3, <2>4, <2>5, <2>6, <2>7, <2>8 DEF Decls
<1>4. ASSUME ActionDecls PROVE (Noted => Noted') /\ (clash => clash')
  <2>1. CASE RuleStarts
    BY <2>1 DEF RuleStarts, NewCurrRule, Errorf, Goto
  <2>2. CASE RulesEnd
    BY <2>2 DEF RulesEnd, NewCurrRule, Errorf, Goto
  <2>3. CASE RulesBad
    BY <2>3 DEF RulesBad, NewCurrRule, Errorf, Sync
  <2>4. CASE Quest
    BY <2>4 DEF Quest, Accept, Silent, Goto, ReportAndPop, Errorf, Sync
  <2>5. CASE Ruler
    BY <2>5 DEF Ruler, Silent, Goto
  <2>6. CASE NoAction
    BY <2>6 DEF NoAction, ReportAndPop, Errorf, Sync
  <2>7. CASE Connector
    BY <2>7 DEF Connector, Accept, Silent, Goto
  <2>8. CASE NoConnector
    BY <2>8 DEF NoConnector, Silent, Lose, Sync
  <2>9. CASE RulerBad
    BY <2>9 DEF RulerBad, ReportAndPop, Errorf, Sync
  <2>10. CASE RuleSemi
    BY <2>10 DEF RuleSemi, Goto, ReportAndPop, Errorf, Sync
  <2> QED
    BY <1>4, <2>1, <2>2, <2>3, <2>4, <2>5, <2>6, <2>7, <2>8, <2>9, <2>10 DEF ActionDecls
<1>5. ASSUME Expr PROVE (Noted => Noted') /\ (clash => clash')
  <2>1. CASE Operand
    BY <2>1 DEF Operand, Silent, Clash, Errorf, Goto, Operands, OperatorOf
  <2>2. CASE Operator
    BY <2>2 DEF Operator, Accept, Silent, Goto, Operands, OperatorOf
  <2>3. CASE ExprEnds
    BY <2>3 DEF ExprEnds, Silent, Goto
  <2>4. CASE ExprFails
    BY <2>4 DEF ExprFails, Report, Errorf, Sync
  <2> QED
    BY <1>5, <2>1, <2>2, <2>3, <2>4 DEF Expr
<1>6. ASSUME NextSync PROVE (Noted => Noted') /\ (clash => clash')
  <2>1. CASE Skip
    BY <2>1 DEF Skip, Silent
  <2>2. CASE SyncReturns
    BY <2>2 DEF SyncReturns, Return, Goto, Stopped
  <2>3. CASE SyncAgain
    BY <2>3 DEF SyncAgain, Silent, Sync, Stopped
  <2>4. CASE SyncConnector
    BY <2>4 DEF SyncConnector, Accept, Silent, Goto, Stopped
  <2>5. CASE SyncStops
    <3>1. pc = "sync" /\ pc' = Resume /\ UNCHANGED <<nErr, lost, clash, result>>
      BY <2>5 DEF SyncStops, Silent, Goto, Stopped
    <3>2. after = "declsbad" => Resume = "secerr"
      BY DEF Resume
    <3> QED
      BY <3>1, <3>2
  <2> QED
    BY <1>6, <2>1, <2>2, <2>3, <2>4, <2>5 DEF NextSync
<1> QED
  BY <1>1, <1>2, <1>3, <1>4, <1>5, <1>6 DEF Parsing

\* The grammar at the token, by its states.
On(t, g) == IF tok = t THEN g ELSE "no"
Opening == IF tok \in {"vars", "consts"} THEN "decls:"
           ELSE IF tok = "rules" THEN "ruleid" ELSE On("levels", "levels:")

LEMMA GrammarAt ==
    /\ Derive("prog", tok) = Opening
    /\ Derive("ruleid", tok) = On("id", "rules:")
    /\ Derive("levels:", tok) = On(":", "levels")
    /\ Derive("decls:", tok) = On(":", "decls")
    /\ Derive("rules:", tok) = On(":", "rules")
    /\ Derive("levels", tok) = IF tok = "id" THEN "level" ELSE Opening
    /\ Derive("level", tok) = IF tok = "soft" THEN "softlevel" ELSE On("semi", "levels")
    /\ Derive("softlevel", tok) = On("semi", "levels")
    /\ Derive("decls", tok) = IF tok = "id" THEN "type" ELSE Opening
    /\ Derive("type", tok) = On("id", "asig")
    /\ Derive("asig", tok) = On("=", "init")
    /\ Derive("init", tok) = IF tok \in Primary THEN "init." ELSE "no"
    /\ Derive("init.", tok) = IF tok = "op" THEN "init" ELSE On("semi", "decls")
    /\ Derive("rules", tok) = IF tok \in Primary THEN "cond." ELSE Opening
    /\ Derive("cond", tok) = IF tok \in Primary THEN "cond." ELSE "no"
    /\ Derive("cond.", tok) = IF tok = "op" THEN "cond" ELSE On("?", "act")
    /\ Derive("act", tok) = IF tok \in Primary THEN "act." ELSE "no"
    /\ Derive("act.", tok) = IF tok \in {"op"} \cup Connectors THEN "act"
                             ELSE On("semi", "rules")
BY DEF Derive, Opens, Boundary, Sections, Primary, Connectors, Opening, On


\* What the steps are built from, while the parser and the grammar go in step.
LEMMA Reads == ASSUME NEW n \in {0, 1}, Take(n), ~clash', ahead \in Int, Derive(gram, tok) # "no"
               PROVE  /\ gram' = Derive(gram, tok)
                      /\ ahead' = IF Completes(gram, tok) THEN ahead + n - 1 ELSE ahead + n
BY DEF Take, Ahead

LEMMA Looks == ASSUME NEW n \in {0, 1}, Look(n), ~clash', ahead \in Int, gram # "no"
               PROVE  UNCHANGED <<tok, gram>> /\ ahead' = ahead + n
BY DEF Look, Ahead

LEMMA Peeks0 == ASSUME Peeked, tok # "bad" PROVE Look(0)
BY DEF Peeked

LEMMA Accepts == ASSUME NEW label, Accept(label), ~clash', ahead \in Int, Derive(gram, tok) # "no"
                 PROVE  /\ pc' = label /\ Silent /\ UNCHANGED <<sect, after>>
                        /\ gram' = Derive(gram, tok)
                        /\ ahead' = IF Completes(gram, tok) THEN ahead - 1 ELSE ahead
<1>1. Take(0) /\ pc' = label /\ Silent /\ UNCHANGED <<sect, after>>
  BY DEF Accept, Goto
<1> QED
  BY <1>1, Reads

LEMMA Matches == ASSUME NEW tt, NEW label, NEW next, matchErr(tt, label, next), nErr = 0
                 PROVE  (tok = tt /\ Accept(label)) \/ (tok # tt /\ nErr' > 0)
BY DescAssumption DEF matchErr, Report, Errorf

\* As long as they go in step, the parser accepts what the grammar has next, or
\* the text is no program and it says so.
LEMMA ProgFollows == ASSUME Inv, result = "run", Follows, Prog, ~clash'
                     PROVE  Follows' \/ (Doomed /\ Noted')
<1> USE DEF Boundary, Incomplete, Sections, EndSect
<1>0. nErr = 0 /\ ~lost /\ ahead \in Int /\ InStep
  BY DEF Follows
<1>1. CASE ProgStarts
  <2>1. gram \in Boundary /\ ahead = 0 /\ tok \in Sections
    BY <1>0, <1>1 DEF ProgStarts, Follows, InStep
  <2>2. Derive(gram, tok) = Opening /\ Opening # "no" /\ ~Completes(gram, tok)
    BY <2>1, GrammarAt DEF Opening, On, Completes, Primary, Connectors
  <2>3. gram' = Opening /\ ahead' = 0
    BY <1>0, <1>1, <2>1, <2>2, Reads DEF ProgStarts
  <2>4. pc' = (IF tok = "rules" THEN "ruleid" ELSE "colon") /\ sect' = tok /\ Silent
    BY <1>1 DEF ProgStarts
  <2> QED
    BY <1>0, <2>1, <2>3, <2>4 DEF Follows, InStep, Opening, On, Silent
<1>2. CASE ProgEnds
  <2>1. gram \in Boundary /\ ahead = 0 /\ tok \in {"eof", "bad"} /\ Peeked
    BY <1>0, <1>2 DEF ProgEnds, Follows, InStep
  <2>2. CASE tok = "eof"
    <3>1. UNCHANGED <<tok, gram>> /\ ahead' = 0
      BY <1>0, <2>1, <2>2, Peeks0, Looks
    <3>2. pc' = "done" /\ result' = "ok" /\ UNCHANGED <<nErr, lost>>
      BY <1>2, <2>2 DEF ProgEnds, Return, Goto
    <3> QED
      BY <1>0, <2>1, <2>2, <3>1, <3>2 DEF Follows, Grammatical
  <2>3. CASE tok = "bad"
    <3>1. Doomed
      BY <2>1, <2>3, GrammarAt DEF Doomed, Grammatical, Opening, On, Primary
    <3> QED
      BY <1>2, <2>3, <3>1 DEF ProgEnds, Return, Noted
  <2> QED
    BY <2>1, <2>2, <2>3
<1>3. CASE ProgOther
  <2>1. Doomed
    BY <1>0, <1>3 DEF ProgOther, InStep, Doomed, Grammatical
  <2> QED
    BY <1>0, <1>3, <2>1, DescAssumption DEF ProgOther, Report, Errorf, Noted
<1>4. CASE RuleId
  <2>1. gram = "ruleid" /\ ahead = 0 /\ sect = "rules" /\ tok = "id"
    BY <1>0, <1>4 DEF RuleId, Follows, InStep
  <2>2. Derive(gram, tok) = "rules:" /\ ~Completes(gram, tok)
    BY <2>1, GrammarAt DEF On, Completes
  <2>3. pc' = "colon" /\ sect' = "rules" /\ Silent /\ gram' = "rules:" /\ ahead' = 0
    BY <1>0, <1>4, <2>1, <2>2, Accepts DEF RuleId
  <2> QED
    BY <1>0, <2>3 DEF Follows, InStep, Silent
<1>5. CASE NoRuleId
  <2>1. gram = "ruleid" /\ tok # "id"
    BY <1>0, <1>5 DEF NoRuleId, InStep
  <2> QED
    BY <1>5, <2>1, GrammarAt DEF NoRuleId, Lose, Noted, Doomed, Grammatical, On
<1>6. CASE Colon
  <2> DEFINE label == IF sect = "levels" THEN "levels"
                      ELSE IF sect = "rules" THEN "rulesect" ELSE "decls"
             next == IF sect = "rules" THEN "rules" ELSE label
  <2>1. /\ ahead = 0 /\ sect \in Sections
        /\ gram = IF sect \in {"vars", "consts"} THEN "decls:"
                  ELSE IF sect = "rules" THEN "rules:" ELSE "levels:"
    BY <1>0, <1>6 DEF Colon, Follows, InStep
  <2>2. matchErr(":", label, "parsed")
    BY <1>6, <2>1 DEF Colon
  <2>3. Derive(gram, tok) = (IF tok = ":" THEN next ELSE "no") /\ ~Completes(gram, tok)
    BY <2>1, GrammarAt DEF On, Completes
  <2>4. CASE tok = ":"
    <3>1. Accept(label) /\ Derive(gram, tok) = next /\ next # "no"
      BY <1>0, <2>2, <2>3, <2>4, Matches
    <3>2. pc' = label /\ gram' = next /\ Silent /\ ahead' = 0
      BY <1>0, <2>1, <2>3, <3>1, Accepts
    <3> QED
      BY <1>0, <2>1, <3>2 DEF Follows, InStep, Silent
  <2>5. CASE tok # ":"
    <3>1. Doomed
      BY <2>1, <2>3, <2>5 DEF Doomed, Grammatical
    <3> QED
      BY <1>0, <2>2, <2>5, <3>1, Matches DEF Noted
  <2> QED
    BY <2>4, <2>5
<1>7. CASE RuleSect
  <2>1. gram = "rules" /\ ahead = 0 /\ Look(0)
    BY <1>0, <1>7 DEF RuleSect, Follows, InStep
  <2>2. pc' = "rules" /\ Silent
    BY <1>7 DEF RuleSect, Clash, Goto
  <2>3. gram' = "rules" /\ ahead' = 0
    BY <2>1, Looks
  <2> QED
    BY <1>0, <2>2, <2>3 DEF Follows, InStep, Silent
<1>8. CASE SectionEnds
  <2>1. gram \in Boundary /\ ahead = 0 /\ Look(0) /\ (tok \in EndSect \/ Derive(gram, tok) = "no")
    BY <1>0, <1>8 DEF SectionEnds, Follows, InStep
  <2>2. pc' = "prog" /\ Silent
    BY <1>8 DEF SectionEnds, Clash, Goto
  <2>3. UNCHANGED <<tok, gram>> /\ ahead' = 0
    BY <2>1, Looks
  <2> QED
    BY <1>0, <2>1, <2>2, <2>3 DEF Follows, InStep, Silent
<1>9. ~SectionFails
  BY <1>0 DEF SectionFails, InStep
<1> QED
  BY <1>1, <1>2, <1>3, <1>4, <1>5, <1>6, <1>7, <1>8, <1>9 DEF Prog

LEMMA LevelsFollow == ASSUME Inv, result = "run", Follows, LevelDecls, ~clash'
                      PROVE  Follows' \/ (Doomed /\ Noted')
<1> USE DEF Boundary, Incomplete
<1>0. nErr = 0 /\ ~lost /\ ahead \in Int /\ InStep
  BY DEF Follows
<1>1. CASE LevelId
  <2>1. gram = "levels" /\ ahead = 0 /\ tok = "id"
    BY <1>0, <1>1 DEF LevelId, Follows, InStep
  <2>2. Derive(gram, tok) = "level" /\ ~Completes(gram, tok)
    BY <2>1, GrammarAt DEF Completes
  <2>3. gram' = "level" /\ ahead' = 1
    BY <1>1, <2>1, <2>2, Reads DEF LevelId
  <2>4. pc' = "level" /\ Silent
    BY <1>1 DEF LevelId
  <2> QED
    BY <1>0, <2>3, <2>4 DEF Follows, InStep, Silent
<1>2. ~LevelTaken
  BY DEF LevelTaken, Clash
<1>3. CASE LevelsEnd
  <2>1. gram = "levels" /\ ahead = 0 /\ tok # "id" /\ Peeked
    BY <1>0, <1>3 DEF LevelsEnd, Follows, InStep
  <2>2. Derive(gram, tok) = Opening
    BY <2>1, GrammarAt
  <2>3. CASE tok = "bad"
    <3>1. Doomed
      BY <2>2, <2>3 DEF Doomed, Grammatical, Opening, On
    <3> QED
      BY <1>0, <1>3, <2>3, <3>1, DescAssumption DEF LevelsEnd, Report, Errorf, Noted
  <2>4. CASE tok # "bad"
    <3>1. UNCHANGED <<tok, gram>> /\ ahead' = 0
      BY <2>1, <2>4, Peeks0, Looks
    <3>2. pc' = "secok" /\ Silent
      BY <1>3, <2>4 DEF LevelsEnd, Goto
    <3>3. tok \in EndSect \/ Derive(gram, tok) = "no"
      BY <2>2 DEF Opening, On, EndSect, Sections
    <3> QED
      BY <1>0, <2>1, <3>1, <3>2, <3>3 DEF Follows, InStep, Silent
  <2> QED
    BY <2>3, <2>4
<1>4. CASE LevelSoft
  <2>1. gram = "level" /\ ahead = 1
    BY <1>0, <1>4 DEF LevelSoft, Follows, InStep
  <2>2. CASE tok = "bad"
    BY <1>4, <2>1, <2>2, GrammarAt DEF LevelSoft, Lose, Noted, Doomed, Grammatical, On
  <2>3. CASE tok = "soft"
    <3>1. Derive(gram, tok) = "softlevel" /\ ~Completes(gram, tok)
      BY <2>1, <2>3, GrammarAt DEF Completes
    <3>2. pc' = "levelsemi" /\ Silent /\ Take(0)
      BY <1>4, <2>3 DEF LevelSoft, Goto
    <3>3. gram' = "softlevel" /\ ahead' = 1
      BY <2>1, <3>1, <3>2, Reads
    <3> QED
      BY <1>0, <3>2, <3>3 DEF Follows, InStep, Silent
  <2>4. CASE tok \notin {"bad", "soft"}
    <3>1. pc' = "levelsemi" /\ Silent /\ Look(0)
      BY <1>4, <2>4 DEF LevelSoft, Goto
    <3>2. UNCHANGED <<tok, gram>> /\ ahead' = 1
      BY <2>1, <3>1, Looks
    <3> QED
      BY <1>0, <2>1, <2>4, <3>1, <3>2 DEF Follows, InStep, Silent
  <2> QED
    BY <2>2, <2>3, <2>4
<1>5. CASE LevelSemi
  <2>1. ahead = 1 /\ (gram = "softlevel" \/ (gram = "level" /\ tok # "soft"))
    BY <1>0, <1>5 DEF LevelSemi, Follows, InStep
  <2>2. CASE tok = "semi"
    <3>1. Derive(gram, tok) = "levels" /\ Completes(gram, tok)
      BY <2>1, <2>2, GrammarAt DEF On, Completes
    <3>2. pc' = "levels" /\ Silent /\ gram' = "levels" /\ ahead' = 0
      BY <1>0, <1>5, <2>1, <2>2, <3>1, Matches, Accepts DEF LevelSemi
    <3> QED
      BY <1>0, <3>2 DEF Follows, InStep, Silent
  <2>3. CASE tok # "semi"
    <3>1. Doomed
      BY <2>1, <2>3, GrammarAt DEF Doomed, Grammatical, On
    <3> QED
      BY <1>0, <1>5, <2>3, <3>1, Matches DEF LevelSemi, Noted
  <2> QED
    BY <2>2, <2>3
<1> QED
  BY <1>1, <1>2, <1>3, <1>4, <1>5 DEF LevelDecls

LEMMA DeclsFollow == ASSUME Inv, result = "run", Follows, Decls, ~clash'
                     PROVE  Follows' \/ (Doomed /\ Noted')
<1> USE DEF Boundary, Incomplete
<1>0. nErr = 0 /\ ~lost /\ ahead \in Int /\ InStep
  BY DEF Follows
<1>1. CASE DeclName
  <2>1. gram = "decls" /\ ahead = 0 /\ tok = "id"
    BY <1>0, <1>1 DEF DeclName, Follows, InStep
  <2>2. Derive(gram, tok) = "type" /\ ~Completes(gram, tok)
    BY <2>1, GrammarAt DEF Completes
  <2>3. pc' = "type" /\ Silent /\ gram' = "type" /\ ahead' = 0
    BY <1>1, <2>1, <2>2, Accepts DEF DeclName
  <2> QED
    BY <1>0, <2>3 DEF Follows, InStep, Silent
<1>2. CASE DeclsEnd
  <2>1. gram = "decls" /\ ahead = 0 /\ tok \in EndSect /\ pc = "decls"
    BY <1>0, <1>2 DEF DeclsEnd, Follows, InStep
  <2>2. pc' = "secok" /\ Silent /\ Look(0)
    BY <1>2, <2>1 DEF DeclsEnd, Goto
  <2>3. UNCHANGED <<tok, gram>> /\ ahead' = 0
    BY <2>1, <2>2, Looks
  <2> QED
    BY <1>0, <2>1, <2>2, <2>3 DEF Follows, InStep, Silent
<1>3. ASSUME DeclsOther \/ DeclsBad PROVE Doomed /\ Noted'
  <2>1. gram = "decls" /\ tok \notin EndSect \cup {"id"}
    BY <1>0, <1>3 DEF DeclsOther, DeclsBad, InStep, EndSect, Sections
  <2>2. Doomed
    BY <2>1, GrammarAt DEF Doomed, Grammatical, Opening, On, EndSect, Sections
  <2> QED
    BY <1>3, <2>2 DEF DeclsOther, DeclsBad, Lose, Accept, Goto, Silent, Noted, Pending
<1>4. ~DeclsAfterBad
  BY <1>0 DEF DeclsAfterBad, InStep
<1>5. CASE DeclType
  <2>1. gram = "type" /\ ahead = 0 /\ matchErr("id", "asig", "again")
    BY <1>0, <1>5 DEF DeclType, Follows, InStep, Clash
  <2>2. Derive(gram, tok) = On("id", "asig") /\ ~Completes(gram, tok)
    BY <2>1, GrammarAt DEF Completes
  <2>3. CASE tok = "id"
    <3>1. pc' = "asig" /\ Silent /\ gram' = "asig" /\ ahead' = 0
      BY <1>0, <2>1, <2>2, <2>3, Matches, Accepts DEF On
    <3> QED
      BY <1>0, <3>1 DEF Follows, InStep, Silent
  <2>4. CASE tok # "id"
    BY <1>0, <2>1, <2>2, <2>4, Matches DEF On, Doomed, Grammatical, Noted
  <2> QED
    BY <2>3, <2>4
<1>6. CASE DeclAsig
  <2>1. gram = "asig" /\ ahead = 0
    BY <1>0, <1>6 DEF DeclAsig, Follows, InStep
  <2>2. Derive(gram, tok) = On("=", "init") /\ ~Completes(gram, tok)
    BY <2>1, GrammarAt DEF Completes
  <2>3. CASE tok = "="
    <3>1. pc' = "init" /\ Silent /\ gram' = "init" /\ ahead' = 0
      BY <1>0, <1>6, <2>1, <2>2, <2>3, Matches, Accepts DEF DeclAsig, On
    <3> QED
      BY <1>0, <3>1 DEF Follows, InStep, Silent
  <2>4. CASE tok # "="
    BY <1>0, <1>6, <2>1, <2>2, <2>4, Matches DEF DeclAsig, On, Doomed, Grammatical, Noted
  <2> QED
    BY <2>3, <2>4
<1>7. CASE DeclSemi
  <2>1. gram = "init." /\ ahead = 1 /\ tok # "op"
    BY <1>0, <1>7 DEF DeclSemi, Follows, InStep
  <2>2. Derive(gram, tok) = On("semi", "decls")
    BY <2>1, GrammarAt
  <2>3. CASE tok = "semi"
    <3>1. Completes(gram, tok)
      BY <2>1, <2>3 DEF Completes
    <3>2. pc' = "decls" /\ Silent /\ gram' = "decls" /\ ahead' = 0
      BY <1>0, <1>7, <2>1, <2>2, <2>3, <3>1, Matches, Accepts DEF DeclSemi, On
    <3> QED
      BY <1>0, <3>2 DEF Follows, InStep, Silent
  <2>4. CASE tok # "semi"
    BY <1>0, <1>7, <2>1, <2>2, <2>4, Matches DEF DeclSemi, On, Doomed, Grammatical, Noted
  <2> QED
    BY <2>3, <2>4
<1> QED
  BY <1>1, <1>2, <1>3, <1>4, <1>5, <1>6, <1>7 DEF Decls

LEMMA ActionsFollow == ASSUME Inv, result = "run", Follows, ActionDecls, ~clash'
                       PROVE  Follows' \/ (Doomed /\ Noted')
<1> USE DescAssumption DEF Boundary, Incomplete
<1>0. nErr = 0 /\ ~lost /\ ahead \in Int /\ InStep
  BY DEF Follows
<1>a. ASSUME pc = "rules", NEW e, NewCurrRule(e), result = "run"
      PROVE  nErr' = 0 /\ result' = "run"
  <2>1. depth = AtEntry
    BY <1>a DEF Inv, EnvsBalanced, InRule, AtEntry
  <2> QED
    BY <1>0, <1>a, <2>1 DEF NewCurrRule, Errorf, AtEntry
<1>1. CASE RuleStarts
  <2>1. gram = "rules" /\ ahead = 0 /\ tok \in ExprToks /\ pc = "rules"
    BY <1>0, <1>1 DEF RuleStarts, Follows, InStep
  <2>2. pc' = "cond" /\ Look(0) /\ UNCHANGED lost /\ nErr' = 0 /\ result' = "run"
    BY <1>1, <2>1, <1>a DEF RuleStarts, Goto
  <2>3. UNCHANGED <<tok, gram>> /\ ahead' = 0
    BY <2>1, <2>2, Looks
  <2> QED
    BY <1>0, <2>1, <2>2, <2>3 DEF Follows, InStep
<1>2. CASE RulesEnd
  <2>1. gram = "rules" /\ ahead = 0 /\ tok \notin ExprToks \cup {"bad"} /\ pc = "rules"
    BY <1>0, <1>2 DEF RulesEnd, Follows, InStep
  <2>2. pc' = "secok" /\ Look(0) /\ UNCHANGED lost /\ nErr' = 0 /\ result' = "run"
    BY <1>2, <2>1, <1>a DEF RulesEnd, Goto
  <2>3. UNCHANGED <<tok, gram>> /\ ahead' = 0
    BY <2>1, <2>2, Looks
  <2>4. tok \in EndSect \/ Derive(gram, tok) = "no"
    BY <2>1, GrammarAt DEF EndSect, Sections, Opening, On, ExprToks
  <2> QED
    BY <1>0, <2>1, <2>2, <2>3, <2>4 DEF Follows, InStep
<1>3. CASE RulesBad
  <2>1. gram = "rules" /\ tok = "bad"
    BY <1>0, <1>3 DEF RulesBad, InStep
  <2>2. Doomed
    BY <2>1, GrammarAt DEF Doomed, Grammatical, Opening, On, Primary
  <2> QED
    BY <1>3, <2>2 DEF RulesBad, Noted
<1>4. CASE Quest
  <2>1. gram = "cond." /\ ahead = 1 /\ tok # "op"
    BY <1>0, <1>4 DEF Quest, Follows, InStep
  <2>2. Derive(gram, tok) = On("?", "act")
    BY <2>1, GrammarAt
  <2>3. CASE tok = "?"
    <3>1. Completes(gram, tok)
      BY <2>1, <2>3 DEF Completes
    <3>2. pc' = "ruler" /\ Silent /\ gram' = "act" /\ ahead' = 0
      BY <1>4, <2>1, <2>2, <2>3, <3>1, Accepts DEF Quest, On
    <3> QED
      BY <1>0, <3>2 DEF Follows, InStep, Silent
  <2>4. CASE tok # "?"
    BY <1>0, <1>4, <2>1, <2>2, <2>4 DEF Quest, ReportAndPop, Errorf, On, Doomed,
       Grammatical, Noted
  <2> QED
    BY <2>3, <2>4
<1>5. CASE Ruler
  <2>1. gram = "act" /\ ahead = 0 /\ Look(0) /\ pc' = "act" /\ Silent
    BY <1>0, <1>5 DEF Ruler, Goto, Follows, InStep
  <2>2. UNCHANGED <<tok, gram>> /\ ahead' = 0
    BY <2>1, Looks
  <2> QED
    BY <1>0, <2>1, <2>2 DEF Follows, InStep, Silent
<1>6. CASE NoAction
  <2>1. gram = "act" /\ tok \notin Primary
    BY <1>0, <1>6 DEF NoAction, InStep, ExprToks
  <2> QED
    BY <1>0, <1>6, <2>1, GrammarAt DEF NoAction, ReportAndPop, Errorf, Doomed,
       Grammatical, Noted
<1>7. CASE Connector
  <2>1. gram = "act." /\ ahead = 1 /\ tok \in Connectors
    BY <1>0, <1>7 DEF Connector, Follows, InStep
  <2>2. Derive(gram, tok) = "act" /\ Completes(gram, tok)
    BY <2>1, GrammarAt DEF Completes
  <2>3. pc' = "ruler" /\ Silent /\ gram' = "act" /\ ahead' = 0
    BY <1>7, <2>1, <2>2, Accepts DEF Connector
  <2> QED
    BY <1>0, <2>3 DEF Follows, InStep, Silent
<1>8. CASE NoConnector
  <2>1. gram = "act." /\ ahead = 1 /\ tok \notin Connectors \cup {"op", "bad"} /\ Look(0)
    BY <1>0, <1>8 DEF NoConnector, Follows, InStep
  <2>2. CASE tok \in EndSect \cup {"semi"}
    <3>1. pc' = "sync" /\ after' = "connector" /\ Silent
      BY <1>8, <2>2 DEF NoConnector, Sync
    <3>2. UNCHANGED <<tok, gram>> /\ ahead' = 1
      BY <2>1, Looks
    <3> QED
      BY <1>0, <2>1, <2>2, <3>1, <3>2 DEF Follows, InStep, Silent
  <2>3. CASE tok \notin EndSect \cup {"semi"}
    <3>1. Doomed
      BY <2>1, <2>3, GrammarAt DEF Doomed, Grammatical, On
    <3> QED
      BY <1>8, <2>3, <3>1 DEF NoConnector, Lose, Noted
  <2> QED
    BY <2>2, <2>3
<1>9. CASE RulerBad
  <2>1. gram = "act." /\ tok = "bad"
    BY <1>0, <1>9 DEF RulerBad, InStep, EndSect, Sections
  <2>2. Doomed
    BY <2>1, GrammarAt DEF Doomed, Grammatical, On, Connectors
  <2> QED
    BY <1>0, <1>9, <2>2 DEF RulerBad, ReportAndPop, Errorf, Noted
<1>10. CASE RuleSemi
  <2>1. gram = "act." /\ ahead = 1 /\ tok \notin Connectors \cup {"op"}
    BY <1>0, <1>10 DEF RuleSemi, Follows, InStep
  <2>2. Derive(gram, tok) = On("semi", "rules")
    BY <2>1, GrammarAt
  <2>3. CASE tok = "semi"
    <3>1. Completes(gram, tok) /\ Take(0)
      BY <1>10, <2>1, <2>3 DEF RuleSemi, Completes
    <3>2. gram' = "rules" /\ ahead' = 0
      BY <2>1, <2>2, <2>3, <3>1, Reads DEF On
    <3>3. pc' = "rules" /\ UNCHANGED <<nErr, result, lost>>
      BY <1>10, <2>3 DEF RuleSemi, Goto
    <3> QED
      BY <1>0, <3>2, <3>3 DEF Follows, InStep
  <2>4. CASE tok # "semi"
    BY <1>0, <1>10, <2>1, <2>2, <2>4 DEF RuleSemi, ReportAndPop, Errorf, On, Doomed,
       Grammatical, Noted
  <2> QED
    BY <2>3, <2>4
<1> QED
  BY <1>1, <1>2, <1>3, <1>4, <1>5, <1>6, <1>7, <1>8, <1>9, <1>10 DEF ActionDecls

LEMMA ExprFollows == ASSUME Inv, result = "run", Follows, Expr, ~clash'
                     PROVE  Follows' \/ (Doomed /\ Noted')
<1> USE DescAssumption DEF Boundary, Incomplete
<1>0. nErr = 0 /\ ~lost /\ ahead \in Int /\ InStep
  BY DEF Follows
<1>1. CASE Operand
  <2>1. pc \in Operands /\ tok \in Primary /\ Silent /\ pc' = OperatorOf(pc) /\ Take(0)
    BY <1>1 DEF Operand, Clash, Goto, Primary
  <2>2. ahead = 0 /\ (gram = pc \/ (pc = "cond" /\ gram = "rules"))
    BY <1>0, <2>1 DEF Follows, InStep, Operands
  <2>3. Derive(gram, tok) = OperatorOf(pc) /\ ~Completes(gram, tok)
    BY <2>1, <2>2, GrammarAt DEF Operands, OperatorOf, Completes
  <2>4. OperatorOf(pc) = (IF pc = "init" THEN "init." ELSE IF pc = "cond" THEN "cond." ELSE "act.")
    BY <2>1 DEF Operands, OperatorOf
  <2>5. gram' = OperatorOf(pc) /\ ahead' = 0
    BY <2>1, <2>2, <2>3, <2>4, Reads
  <2> QED
    BY <1>0, <2>1, <2>4, <2>5 DEF Follows, InStep, Silent
<1>2. CASE Operator
  <2>1. PICK label \in Operands : pc = OperatorOf(label) /\ Accept(label)
    BY <1>2 DEF Operator
  <2>2. OperatorOf(label) = (IF label = "init" THEN "init."
                             ELSE IF label = "cond" THEN "cond." ELSE "act.")
    BY DEF Operands, OperatorOf
  <2>3. gram = pc /\ ahead = 0
    BY <1>0, <2>1, <2>2 DEF Follows, InStep
  <2>4. Derive(gram, tok) = label /\ ~Completes(gram, tok)
    BY <1>2, <2>1, <2>2, <2>3, GrammarAt DEF Operator, Operands, Completes, Connectors
  <2>5. pc' = label /\ Silent /\ gram' = label /\ ahead' = 0
    BY <2>1, <2>3, <2>4, Accepts DEF Operands
  <2> QED
    BY <1>0, <2>5 DEF Follows, InStep, Silent, Operands
<1>3. CASE ExprEnds
  <2>1. gram = pc /\ pc \in {"init.", "cond.", "act."} /\ ahead = 0 /\ tok # "op"
    BY <1>0, <1>3 DEF ExprEnds, Follows, InStep, ExprToks
  <2>2. /\ pc' = IF pc = "init." THEN "declsemi" ELSE IF pc = "cond." THEN "quest" ELSE "connector"
        /\ Silent /\ Look(1)
    BY <1>3 DEF ExprEnds, Goto
  <2>3. UNCHANGED <<tok, gram>> /\ ahead' = 1
    BY <2>1, <2>2, Looks
  <2> QED
    BY <1>0, <2>1, <2>2, <2>3 DEF Follows, InStep, Silent
<1>4. CASE ExprFails
  <2>1. \/ /\ gram \in {"init", "cond", "act"} \/ (gram = "rules" /\ tok \in ExprToks)
           /\ tok \notin Primary
        \/ gram \in {"init.", "cond.", "act."} /\ tok \in Primary \cup {"=", "bad"}
    BY <1>0, <1>4 DEF ExprFails, NotAnExpr, Operands, InStep
  <2>2. Doomed
    BY <2>1, GrammarAt DEF Doomed, Grammatical, Opening, On, ExprToks, Primary, Connectors
  <2> QED
    BY <1>0, <1>4, <2>2 DEF ExprFails, Report, Errorf, Noted
<1> QED
  BY <1>1, <1>2, <1>3, <1>4 DEF Expr

LEMMA SyncFollows == ASSUME Inv, result = "run", Follows, NextSync, ~clash'
                     PROVE  Follows' \/ (Doomed /\ Noted')
<1>1. /\ pc = "sync" /\ after = "connector" /\ gram = "act." /\ ahead = 1 /\ nErr = 0 /\ ~lost
      /\ tok \in EndSect \cup {"semi"}
  BY DEF NextSync, Skip, SyncReturns, SyncAgain, SyncConnector, SyncStops, Stopped,
     Follows, InStep, Incomplete
<1>2. tok \in Stops /\ tok \notin Connectors \cup {"bad", "op"}
  BY <1>1 DEF Stops, EndSect, Sections, Connectors
<1>3. SyncStops
  BY <1>1, <1>2 DEF NextSync, Skip, SyncReturns, SyncAgain, SyncConnector
<1>4. Resume = "rulesemi"
  BY <1>1 DEF Resume
<1>5. pc' = "rulesemi" /\ Silent /\ Look(0)
  BY <1>1, <1>2, <1>3, <1>4 DEF SyncStops, Goto, TakeSemi, Peeked
<1>6. UNCHANGED <<tok, gram>> /\ ahead' = 1
  BY <1>1, <1>5, Looks
<1> QED
  BY <1>1, <1>2, <1>5, <1>6 DEF Follows, InStep, Incomplete, Silent

LEMMA StepFollows == ASSUME Inv, result = "run", Follows, Parsing, ~clash'
                     PROVE  Follows' \/ (Doomed /\ Noted')
BY ProgFollows, LevelsFollow, DeclsFollow, ActionsFollow, ExprFollows, SyncFollows DEF Parsing

LEMMA ReadInit == Init => ReadInv
BY GrammarAt DEF Init, ReadInv, Follows, InStep, Incomplete, Boundary, Tok, EndSect, Sections,
   Opening, On, Primary

LEMMA ReadNext == Inv /\ ReadInv /\ [Next]_vars => ReadInv'
<1> SUFFICES ASSUME Inv, ReadInv, [Next]_vars, ~clash' PROVE Follows' \/ (Doomed' /\ Noted')
  BY DEF ReadInv
<1>1. CASE UNCHANGED vars
  BY <1>1 DEF ReadInv, vars, ghosts, Follows, InStep, Doomed, Noted, Pending, Grammatical
<1>2. CASE result = "run" /\ Parsing
  <2>1. Moves
    BY <1>2, StepMoves
  <2>2. CASE clash \/ (Doomed /\ Noted)
    <3>1. ~clash
      BY <1>2, StepTells
    <3> QED
      BY <1>2, <2>1, <2>2, <3>1, StepTells, DoomStays
  <2>3. CASE Follows
    BY <1>2, <2>1, <2>3, StepFollows, DoomStays
  <2> QED
    BY <2>2, <2>3 DEF ReadInv
<1> QED
  BY <1>1, <1>2 DEF Next

LEMMA ReadSays == Inv /\ ReadInv => ErrorsHaveAReason /\ GrammarIsRead /\ LostIsKnown
<1> SUFFICES ASSUME Inv, ReadInv PROVE ErrorsHaveAReason /\ GrammarIsRead /\ LostIsKnown
  OBVIOUS
<1>1. CASE clash
  BY <1>1 DEF ErrorsHaveAReason, GrammarIsRead, LostIsKnown, Accepted
<1>2. CASE ~clash /\ Follows
  BY <1>2 DEF Follows, Incomplete, ErrorsHaveAReason, GrammarIsRead, LostIsKnown, Accepted
<1>3. CASE ~clash /\ Doomed /\ Noted
  BY <1>3, DescAssumption DEF Inv, Doomed, Noted, ErrorsHaveAReason, GrammarIsRead,
     LostIsKnown, Accepted
<1> QED
  BY <1>1, <1>2, <1>3 DEF ReadInv

\* Whatever the text and the limit of errors: the parser refuses only what the
\* grammar refuses, reads a program of the grammar to its end with each of its
\* parts in the tree once, and what it accepts and is not of the grammar has
\* been passed over at one of the known places.
THEOREM DescReads == Spec => [](ErrorsHaveAReason /\ GrammarIsRead /\ LostIsKnown)
<1>1. Inv /\ ReadInv /\ [Next]_vars => (Inv /\ ReadInv)'
  BY InvNext, ReadNext
<1> QED
  BY <1>1, InvInit, ReadInit, ReadSays, PTL DEF Spec
=============================================================================
