-------------------------------- MODULE Desc --------------------------------
(***************************************************************************)
(* The parser of programs and how it goes on after an error                 *)
(* (parser/desc.go, with the loops of pratt.go and lex.go it rests on).     *)
(*                                                                          *)
(* The text is not given in advance: the lexer finds the next token when    *)
(* the last one is taken, and it may be any.  The functions of the parser   *)
(* call themselves last, so that it needs no stack: pc is where it is, and  *)
(* after is what NextSync returns to.  A "val" is a literal, a call or an   *)
(* expression in parentheses; "op" a binary operator; "bad" is where Peek   *)
(* fails, having taken the rune.                                            *)
(*                                                                          *)
(* gram follows, token by token, the grammar that the comments of desc.go   *)
(* give; it has no part in what the parser does.                            *)
(***************************************************************************)
EXTENDS Integers

CONSTANT maxErrors     \* 10 in the code

ASSUME DescAssumption == maxErrors \in Nat \ {0}

Sections == {"levels", "vars", "consts", "rules"}
EndSect == Sections \cup {"eof"}
Connectors == {"then", ","}          \* => and !> are one here
Primary == {"id", "val"}
ExprToks == Primary \cup {"op", "=", ")"}
Tok == EndSect \cup Connectors \cup ExprToks \cup {":", "semi", "?", "soft", "bad"}

VARIABLES tok,      \* the next token of the text
          pc,       \* the function the parser is in
          sect,     \* the kind of section
          after,    \* while it looks for a token to go on from: what comes then
          nErr,     \* errors reported
          depth,    \* environments on the stack p.Envs
          leveled,  \* a level has been declared
          result,   \* "run"; "ok", "error", "toomany" when Parse has returned
          gram,     \* ghost: the state of the grammar
          ahead,    \* ghost: what was added to the tree and is not complete in the text
          clash,    \* ghost: an error that is not of syntax, or an operand of no type
          lost,     \* ghost: something was passed over without a word
          even      \* ghost: changes with each token taken

ghosts == <<gram, ahead, clash, lost, even>>
vars == <<tok, pc, sect, after, nErr, depth, leveled, result, ghosts>>

AtEntry == 3      \* the environments of protection, of builtins, of the user
-----------------------------------------------------------------------------
(* The grammar.                                                             *)

Boundary == {"prog", "levels", "decls", "rules"}   \* where a program may end

Opens(g, t) == g \in Boundary /\ t \in Sections

Derive(g, t) ==
    CASE Opens(g, t) /\ t = "rules"                 -> "ruleid"
      [] Opens(g, t) /\ t = "levels"                -> "levels:"
      [] Opens(g, t) /\ t \in {"vars", "consts"}    -> "decls:"
      [] g = "ruleid" /\ t = "id"                   -> "rules:"
      [] g = "levels:" /\ t = ":"                   -> "levels"
      [] g = "decls:" /\ t = ":"                    -> "decls"
      [] g = "rules:" /\ t = ":"                    -> "rules"
      [] g = "levels" /\ t = "id"                   -> "level"
      [] g = "level" /\ t = "soft"                  -> "softlevel"
      [] g \in {"level", "softlevel"} /\ t = "semi" -> "levels"
      [] g = "decls" /\ t = "id"                    -> "type"
      [] g = "type" /\ t = "id"                     -> "asig"
      [] g = "asig" /\ t = "="                      -> "init"
      [] g = "init" /\ t \in Primary                -> "init."
      [] g = "init." /\ t = "op"                    -> "init"
      [] g = "init." /\ t = "semi"                  -> "decls"
      [] g \in {"rules", "cond"} /\ t \in Primary   -> "cond."
      [] g = "cond." /\ t = "op"                    -> "cond"
      [] g = "cond." /\ t = "?"                     -> "act"
      [] g = "act" /\ t \in Primary                 -> "act."
      [] g = "act." /\ t \in {"op"} \cup Connectors -> "act"
      [] g = "act." /\ t = "semi"                   -> "rules"
      [] OTHER                                      -> "no"

\* A level, a declaration, a condition or an action is complete.
Completes(g, t) ==
    \/ g \in {"level", "softlevel", "init.", "act."} /\ t = "semi"
    \/ g = "cond." /\ t = "?"
    \/ g = "act." /\ t \in Connectors

Grammatical == gram \in Boundary /\ tok = "eof"
-----------------------------------------------------------------------------
(* Steps.                                                                   *)

Init ==
    /\ tok \in Tok
    /\ pc = "prog" /\ sect = "none" /\ after = "none"
    /\ nErr = 0 /\ depth = AtEntry
    /\ leveled = FALSE
    /\ result = "run"
    /\ gram = "prog" /\ ahead = 0
    /\ clash = FALSE /\ lost = FALSE /\ even = TRUE

\* added is 1 when the step adds to the tree what it has just read.
Ahead(added, done) ==
    ahead' = IF gram' = "no" \/ clash' THEN 0 ELSE ahead + added - (IF done THEN 1 ELSE 0)

Take(added) ==
    /\ tok' \in Tok
    /\ gram' = Derive(gram, tok)
    /\ Ahead(added, Completes(gram, tok))
    /\ even' = ~even

Look(added) ==
    /\ UNCHANGED <<tok, gram, even>>
    /\ Ahead(added, FALSE)

\* A Peek that fails takes what it could not read.
Peeked == IF tok = "bad" THEN Take(0) ELSE Look(0)

\* Errorf, n times, with d environments on the stack, and then e.  With too
\* many it panics, and Parse pops the environments of the program.
Errorf(n, d, e) ==
    IF nErr + n >= maxErrors
    THEN nErr' = maxErrors /\ result' = "toomany" /\ depth' = d - 2
    ELSE nErr' = nErr + n /\ result' = "run" /\ depth' = e

Report(n) == Errorf(n, depth, depth) /\ UNCHANGED <<clash, lost>>
ReportAndPop(n) == Errorf(n, depth, depth - 1) /\ UNCHANGED <<clash, lost>>
Clash(n) == Errorf(n, depth, depth) /\ clash' = TRUE /\ UNCHANGED lost
Silent == UNCHANGED <<nErr, depth, result, clash, lost>>
Lose == lost' = TRUE /\ UNCHANGED <<nErr, depth, result, clash>>

Goto(label) == pc' = label /\ UNCHANGED <<after, sect, leveled>>
Sync(next) == pc' = "sync" /\ after' = next /\ UNCHANGED <<sect, leveled>>
Accept(label) == Goto(label) /\ Silent /\ Take(0)
Return(res) == /\ result' = res /\ depth' = depth - 2
               /\ Goto("done")
               /\ UNCHANGED <<nErr, clash, lost>>

\* match, an error if there is none, and where the callers go on then.
matchErr(tt, label, next) ==
    \/ tok = tt /\ Accept(label)
    \/ tok # tt /\ Report(1) /\ Sync(next) /\ Peeked
-----------------------------------------------------------------------------
(* Prog and RuleSect.                                                       *)

ProgStarts ==
    /\ pc = "prog" /\ tok \in Sections
    /\ pc' = IF tok = "rules" THEN "ruleid" ELSE "colon"
    /\ sect' = tok
    /\ Silent /\ Take(0)
    /\ UNCHANGED <<after, leveled>>

ProgEnds ==
    /\ pc = "prog" /\ tok \in {"eof", "bad"}
    /\ Return(IF tok = "eof" THEN "ok" ELSE "error")
    /\ Peeked

ProgOther ==
    /\ pc = "prog" /\ tok \notin EndSect \cup {"bad"}
    /\ Report(1) /\ Sync("parse") /\ Look(0)

RuleId == pc = "ruleid" /\ tok = "id" /\ Accept("colon")

\* The whole section is left out, and nobody is told.
NoRuleId ==
    /\ pc = "ruleid" /\ tok # "id"
    /\ Lose /\ Sync("prog") /\ Peeked

Colon ==
    /\ pc = "colon"
    /\ matchErr(":", CASE sect = "levels" -> "levels"
                       [] sect = "rules" -> "rulesect"
                       [] OTHER -> "decls", "parsed")

\* A section of that name may have been there.
RuleSect ==
    /\ pc = "rulesect"
    /\ \/ Silent /\ Goto("rules")
       \/ Clash(2) /\ Sync("rulesect")
    /\ Look(0)

\* The section has returned, with no error or with one.
NoLevels == sect = "levels" /\ ~leveled

SectionEndsProg ==   \* mutant: Prog does not call itself
    /\ pc = "secok"
    /\ Return("ok") /\ Look(0)

SectionEnds ==
    /\ pc = "secok"
    /\ IF NoLevels THEN Clash(1) ELSE Silent
    /\ Goto("prog") /\ Look(0)

SectionFails ==
    /\ pc = "secerr"
    /\ Report(IF NoLevels THEN 2 ELSE 1)
    /\ Sync("parse") /\ Look(0)

Prog == \/ ProgStarts \/ ProgEnds \/ ProgOther \/ RuleId \/ NoRuleId
        \/ Colon \/ RuleSect \/ SectionEnds \/ SectionFails
-----------------------------------------------------------------------------
(* LevelDecls.                                                              *)

LevelId ==
    /\ pc = "levels" /\ tok = "id"
    /\ pc' = "level" /\ leveled' = TRUE
    /\ Silent /\ Take(1)
    /\ UNCHANGED <<after, sect>>

LevelTaken ==
    /\ pc = "levels" /\ tok = "id"
    /\ Clash(1) /\ Sync("levelnew") /\ Take(0)

LevelsEnd ==
    /\ pc = "levels" /\ tok # "id"
    /\ IF tok = "bad" THEN Report(1) /\ Sync("levels") ELSE Silent /\ Goto("secok")
    /\ Peeked

\* The error of this Peek is not looked at.
LevelSoft ==
    /\ pc = "level"
    /\ IF tok = "bad" THEN Lose ELSE Silent
    /\ Goto("levelsemi")
    /\ IF tok \in {"soft", "bad"} THEN Take(0) ELSE Look(0)

LevelSemi == pc = "levelsemi" /\ matchErr("semi", "levels", "levels")

LevelDecls == LevelId \/ LevelTaken \/ LevelsEnd \/ LevelSoft \/ LevelSemi
-----------------------------------------------------------------------------
(* ConstDecls and VarDecls, which go the same way.                          *)

DeclName == pc = "decls" /\ tok = "id" /\ Accept("type")

DeclsEnd ==
    /\ pc \in {"decls", "declsbad"} /\ tok \in EndSect
    /\ IF pc = "declsbad" THEN Lose ELSE Silent
    /\ Goto("secok") /\ Look(0)

DeclsOtherStays ==   \* mutant: it is not passed over
    /\ pc = "decls" /\ tok \notin EndSect \cup {"id", "bad"}
    /\ Lose /\ Goto("decls") /\ Look(0)

\* What does not start with a name is left out up to the next semicolon.
DeclsOther ==
    /\ pc = "decls" /\ tok \notin EndSect \cup {"id", "bad"}
    /\ Lose /\ Sync("declsother") /\ Look(0)

DeclsBad == pc = "decls" /\ tok = "bad" /\ Accept("declsbad")

DeclsAfterBad ==
    /\ pc = "declsbad" /\ tok \notin EndSect
    /\ IF tok = "bad" THEN Goto("secerr") ELSE Sync("declsbad")
    /\ Silent /\ Peeked

\* The type may not be one, and the name may be taken: it goes on.
DeclType ==
    /\ pc = "type"
    /\ \/ matchErr("id", "asig", "again")
       \/ tok = "id" /\ (\E n \in 1..2 : Clash(n)) /\ Goto("asig") /\ Take(0)

DeclAsig == pc = "asig" /\ matchErr("=", "init", "decls")

DeclSemiOptional ==   \* mutant: the semicolon is optional
    /\ pc = "declsemi"
    /\ Silent /\ Goto("decls")
    /\ IF tok = "semi" THEN Take(0) ELSE Look(0)

DeclSemi == pc = "declsemi" /\ matchErr("semi", "decls", "decls")

Decls == \/ DeclName \/ DeclsEnd \/ DeclsOther \/ DeclsBad \/ DeclsAfterBad
         \/ DeclType \/ DeclAsig \/ DeclSemi
-----------------------------------------------------------------------------
(* ActionDecls and Ruler.  Each rule has an environment of its own, in which *)
(* the constant CurrRule is declared: there must not be another one.         *)

NewCurrRule(e) ==
    /\ Errorf(IF depth > AtEntry THEN 1 ELSE 0, depth + 1, e)
    /\ UNCHANGED clash

RuleStarts ==
    /\ pc = "rules" /\ tok \in ExprToks
    /\ NewCurrRule(depth + 1) /\ UNCHANGED lost
    /\ Goto("cond") /\ Look(0)

RulesEnd ==
    /\ pc = "rules" /\ tok \notin ExprToks \cup {"bad"}
    /\ NewCurrRule(depth) /\ UNCHANGED lost
    /\ Goto("secok") /\ Look(0)

\* The rule is left out up to its semicolon, and the section may end well.
RulesBad ==
    /\ pc = "rules" /\ tok = "bad"
    /\ NewCurrRule(depth) /\ lost' = TRUE
    /\ Sync("rulesend") /\ Take(0)

QuestKeepsEnv ==   \* mutant: the environment of the rule is not popped
    /\ pc = "quest"
    /\ matchErr("?", "ruler", "rules")

Quest ==
    /\ pc = "quest"
    /\ \/ tok = "?" /\ Accept("ruler")
       \/ tok # "?" /\ ReportAndPop(1) /\ Sync("rules") /\ Peeked

Ruler == pc = "ruler" /\ tok \in ExprToks /\ Silent /\ Goto("act") /\ Look(0)

\* The error of Ruler is reported once more by ActionDecls.
NoAction ==
    /\ pc = "ruler" /\ tok \notin ExprToks
    /\ ReportAndPop(IF tok = "bad" THEN 1 ELSE 2)
    /\ Sync("rulererr") /\ Peeked

Connector == pc = "connector" /\ tok \in Connectors /\ Accept("ruler")

\* What comes after an action and is not a connector is passed over, up to a
\* connector or to the end of the rule.
NoConnector ==
    /\ pc = "connector" /\ tok \notin Connectors \cup {"bad"}
    /\ IF tok \in EndSect \cup {"semi"} THEN Silent ELSE Lose
    /\ Sync("connector") /\ Look(0)

\* An error of the lexer there, or on the way to a connector.
RulerBad ==
    /\ pc = "connector" \/ (pc = "sync" /\ after \in {"connector", "ruler"})
    /\ tok = "bad"
    /\ ReportAndPop(1) /\ Sync("rulererr") /\ Take(0)

RuleSemiKeepsEnv ==   \* mutant: the environment of the rule is not popped
    /\ pc = "rulesemi"
    /\ matchErr("semi", "rules", "rules")

RuleSemi ==
    /\ pc = "rulesemi"
    /\ \/ /\ tok = "semi" /\ depth' = depth - 1
          /\ UNCHANGED <<nErr, result, clash, lost>>
          /\ Goto("rules") /\ Take(0)
       \/ tok # "semi" /\ ReportAndPop(1) /\ Sync("rules") /\ Peeked

ActionDecls == \/ RuleStarts \/ RulesEnd \/ RulesBad \/ Quest
               \/ Ruler \/ NoAction \/ Connector \/ NoConnector \/ RulerBad
               \/ RuleSemi
-----------------------------------------------------------------------------
(* Expr, in a declaration, for the condition of a rule and for an action.    *)

Operands == {"init", "cond", "act"}
OperatorOf(label) == CASE label = "init" -> "init."
                       [] label = "cond" -> "cond."
                       [] label = "act" -> "act."

\* A name may not be declared; an = is taken for an operand of no type.
Operand ==
    /\ pc \in Operands /\ tok \in Primary \cup {"="}
    /\ \/ tok # "=" /\ Silent
       \/ tok = "=" /\ Clash(0)
       \/ tok = "id" /\ Clash(1)
    /\ Goto(OperatorOf(pc)) /\ Take(0)

Operator ==
    /\ tok = "op"
    /\ \E label \in Operands : pc = OperatorOf(label) /\ Accept(label)

\* What ends an expression, and is not looked at: the declaration, the rule or
\* the action is added to the tree.
ExprEnds ==
    /\ tok \notin (ExprToks \ {")"}) \cup {"bad"}
    /\ \/ pc = "init." /\ Goto("declsemi")
       \/ pc = "cond." /\ Goto("quest")
       \/ pc = "act." /\ Goto("connector")
    /\ Silent /\ Look(1)

NotAnExpr == \/ pc \in Operands /\ tok \notin Primary \cup {"="}
             \/ pc \in {"init.", "cond.", "act."} /\ tok \in Primary \cup {"=", "bad"}

ExprFails ==
    /\ NotAnExpr
    /\ \/ pc \in {"init", "init."} /\ Report(1) /\ Sync("declexpr")
       \/ /\ pc \in {"cond", "cond."}
          /\ Errorf(1, depth - 1, depth - 1) /\ UNCHANGED <<clash, lost>>
          /\ Sync("rulecond")
       \/ pc \in {"act", "act."} /\ Report(1) /\ Sync("ruler")
    /\ IF tok \in {"op", ")", "bad"} THEN Take(0) ELSE Look(0)

Expr == Operand \/ Operator \/ ExprEnds \/ ExprFails
-----------------------------------------------------------------------------
(* NextSync, NextSyncNoSemi and NextSection: LexWhileNot, and what its       *)
(* callers do with what it found.                                           *)

Stops ==
    EndSect \cup
    CASE after \in {"prog", "parse", "rulesect"} -> {}
      [] after = "connector"                     -> {"semi"} \cup Connectors
      [] after = "ruler"                         -> {"semi", "then"}
      [] after \in {"rulecond", "rulererr"}      -> {"semi", "?"}
      [] OTHER                                   -> {"semi"}

Skip == pc = "sync" /\ tok \notin Stops \cup {"bad"} /\ Silent /\ Take(0)
        /\ UNCHANGED <<pc, after, sect, leveled>>

Stopped == pc = "sync" /\ tok \in Stops \cup {"bad"}
TakeSemi == IF tok = "semi" /\ after \notin {"connector", "ruler"} THEN Take(0) ELSE Peeked

SyncReturns ==
    /\ Stopped /\ after \in {"parse", "parsed"}
    /\ Return(IF after = "parse" /\ tok = "bad" THEN "error" ELSE "ok")
    /\ TakeSemi

\* After a missing type it looks for a semicolon twice.
SyncAgain == Stopped /\ after = "again" /\ Silent /\ Sync("decls") /\ TakeSemi

SyncConnector == Stopped /\ after = "connector" /\ tok \in Connectors /\ Accept("ruler")

\* The label to go on at.
Resume ==
    CASE after \in {"rulesect", "rulesend", "rulererr"} ->
            IF tok = "bad" THEN "secerr" ELSE "secok"
      [] after = "levelnew"   -> IF tok = "bad" THEN "secerr" ELSE "levels"
      [] after = "declsother" -> IF tok = "eof" THEN "secerr" ELSE "decls"
      [] after = "declsbad"   -> "secerr"
      [] after = "declexpr"   -> CASE tok = "semi" -> "decls"
                                   [] tok = "bad" -> "secerr"
                                   [] OTHER -> "secok"
      [] after \in {"levels", "decls", "rules", "prog"} -> after
      [] after = "rulecond"   -> "rules"
      [] OTHER                -> "rulesemi"

SyncStops ==
    /\ Stopped /\ after \notin {"parse", "parsed", "again"}
    /\ after \in {"connector", "ruler"} => tok \notin {"bad"}
    /\ after = "connector" => tok \notin Connectors
    /\ Silent /\ Goto(Resume) /\ TakeSemi

NextSync == Skip \/ SyncReturns \/ SyncAgain \/ SyncConnector \/ SyncStops
-----------------------------------------------------------------------------
Parsing == Prog \/ LevelDecls \/ Decls \/ ActionDecls \/ Expr \/ NextSync

Next == \/ (result = "run" /\ Parsing)
        \/ (result # "run" /\ UNCHANGED vars)

Spec == Init /\ [][Next]_vars
LiveSpec == Spec /\ WF_vars(result = "run" /\ Parsing)
-----------------------------------------------------------------------------
(* Properties.                                                              *)

Callers == {"none", "prog", "parse", "parsed", "rulesect", "levels", "levelnew",
            "again", "decls", "declsother", "declsbad", "declexpr",
            "rules", "rulecond", "rulesend", "rulererr", "connector", "ruler"}

\* Whatever the errors, the declarations of the program go to its own
\* environment and those of a rule to one on top of it, which are popped once
\* each; a return other than by the panic leaves the protection alone.
InRule == \/ pc \in {"cond", "cond.", "quest", "ruler", "act", "act.",
                    "connector", "rulesemi"}
          \/ pc = "sync" /\ after \in {"connector", "ruler"}
EnvsBalanced ==
    /\ result = "run" => depth = AtEntry + (IF InRule THEN 1 ELSE 0)
    /\ result \in {"ok", "error"} => depth = AtEntry - 2

\* The parser reports an error of syntax only if there is one: at the token it
\* looks at, or before it.
ErrorsHaveAReason ==
    nErr > 0 /\ ~clash => gram = "no" \/ (Derive(gram, tok) = "no" /\ ~Grammatical)

\* BuildAst goes on with the program, and its types may be right.
Accepted == result = "ok" /\ nErr = 0 /\ ~clash

\* A program of the grammar is read to its end, is not refused, and all of its
\* levels, declarations, rules and actions are in the tree, once each.
GrammarIsRead ==
    result # "run" /\ gram # "no" /\ ~clash =>
        \/ (Accepted /\ Grammatical /\ ahead = 0 /\ ~lost)
        \/ (Derive(gram, tok) = "no" /\ ~Grammatical)

\* A program that is not of the grammar is refused, but for what is passed over
\* without a word: a section of rules with no name, what does not begin with a
\* name where a declaration should, what follows an action with no connector,
\* and a rune of no token where a rule or a section ends or begins, or where
\* soft may be.
LostIsKnown == Accepted /\ ~Grammatical => lost

\* The parser never goes on for ever without reading ("in case of recover, no
\* endless recurring", desc.go:137, 205), nor at the end of the text.
Progress ==
    /\ []<>(result # "run" \/ even)
    /\ []<>(result # "run" \/ ~even)
=============================================================================
