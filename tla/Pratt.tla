------------------------------- MODULE Pratt -------------------------------
(***************************************************************************)
(* The parser of expressions (parser/pratt.go), over sequences of tokens.   *)
(* The powers are those of the tables, divided by MaxNTerms: no operator is  *)
(* in rightTab, so that none is ever less by one.  An identifier stands for  *)
(* its declaration; all are declared.                                       *)
(***************************************************************************)
EXTENDS Exprs, SequencesExt

CONSTANT Funcs    \* the names of functions

precTab == [t \in {"||"} |-> 4] @@ [t \in {"&&"} |-> 5] @@ [t \in {"&"} |-> 6] @@
           [t \in {"^"} |-> 7] @@ [t \in {"|"} |-> 8] @@ [t \in {"==", "!="} |-> 9] @@
           [t \in {"<", "<=", ">", ">="} |-> 10] @@ [t \in {"+", "-"} |-> 13] @@
           [t \in {"*", "/", "%"} |-> 14] @@ [t \in {")"} |-> 1] @@ [t \in {"("} |-> 18]

precTabUnary == [t \in {"+", "-"} |-> 16] @@ [t \in {"~", "!"} |-> 17] @@ [t \in {"("} |-> 18]

Ids == DOMAIN VarType \cup Funcs
isExprTok(tok) ==
    tok \in DOMAIN precTab \cup DOMAIN precTabUnary \cup DOMAIN Literals \cup Ids \cup {"="}

defRbp == 0

\* ! and ~ have a power between two operands as well.
bindPow(tok, isunary) ==
    CASE isunary /\ tok \in DOMAIN precTabUnary -> precTabUnary[tok]
      [] tok \in DOMAIN precTab -> precTab[tok]
      [] tok \in DOMAIN precTabUnary -> precTabUnary[tok]
      [] OTHER -> defRbp

Fail == [ok |-> FALSE]
Read(x, rest) == [ok |-> TRUE, x |-> x, rest |-> rest]

\* Not enough binding for the operator to take what has been read.
LooseTight(newrbp, rbp) == newrbp < rbp   \* mutant: to the right
Loose(newrbp, rbp) == newrbp <= rbp

Call(f, args) == FoldLeft(AddArg, FCall(f), args)

\* What is not an operation: an identifier, or a literal; or =, which has no
\* power and is taken for a constant without a type.
Term(tok) ==
    CASE tok \in Funcs -> FCall(tok)
      [] tok \in DOMAIN VarType -> Var(tok)
      [] tok \in DOMAIN Literals -> Lit(Literals[tok])
      [] tok = "=" -> Lit(Val("undef", 0))

RECURSIVE Expr(_, _), Nud(_), Primary(_, _), Led(_, _, _), funcArgs(_)

Expr(rbp, toks) ==
    IF ~isExprTok(Head(toks)) THEN Fail
    ELSE LET left == Nud(toks) IN
         IF left.ok THEN Led(rbp, left.x, left.rest) ELSE Fail

Nud(toks) ==
    LET tok == Head(toks) rest == Tail(toks) IN
    CASE tok = "(" ->
            LET e == Expr(0, rest) IN
            IF e.ok /\ Head(e.rest) = ")" THEN Read(e.x, Tail(e.rest)) ELSE Fail
      [] tok # "(" /\ bindPow(tok, FALSE) # defRbp ->
            IF tok \notin DOMAIN precTabUnary THEN Fail
            ELSE LET right == Expr(bindPow(tok, TRUE), rest) IN
                 IF right.ok /\ Head(right.rest) # "(" THEN Read(Un(tok, right.x), right.rest) ELSE Fail
      [] OTHER -> Primary(tok, rest)

\* Whatever is called is turned into a call, functions or not; without its
\* parentheses, a function is a call with no arguments.
Primary(tok, rest) ==
    CASE Head(rest) # "(" -> Read(Term(tok), rest)
      [] Head(rest) = "(" /\ tok \notin Ids -> Fail
      [] OTHER -> LET args == funcArgs(Tail(rest)) IN
                  IF args.ok /\ Head(args.rest) = ")"
                  THEN Read(Call(tok, args.x), Tail(args.rest)) ELSE Fail

funcArgs(toks) ==
    IF Head(toks) = ")" \/ ~isExprTok(Head(toks)) THEN Read(<<>>, toks)
    ELSE LET param == Expr(defRbp - 1, toks) IN
         CASE ~param.ok -> Fail
           [] param.ok /\ Head(param.rest) # "," -> Read(<<param.x>>, param.rest)
           [] OTHER -> LET more == funcArgs(Tail(param.rest)) IN
                       IF more.ok THEN Read(<<param.x>> \o more.x, more.rest) ELSE Fail

\* The loop of Expr, with the calls it makes to Led.
Led(rbp, left, toks) ==
    LET tok == Head(toks) newrbp == bindPow(tok, FALSE) IN
    CASE ~isExprTok(tok) \/ tok = ")" -> Read(left, toks)
      [] isExprTok(tok) /\ newrbp = defRbp -> Fail
      [] OTHER ->
            IF Loose(newrbp, rbp) THEN Read(left, toks)
            ELSE LET right == Expr(newrbp, Tail(toks)) IN
                 IF right.ok THEN Led(rbp, Bin(tok, left, right.x), right.rest) ELSE Fail

ParseAnywhere(toks) ==   \* mutant: what comes after the expression does not matter
    Expr(-1, toks \o <<"?", ".">>)

\* The expression of a rule, up to its question mark.
Parse(toks) ==
    LET e == Expr(-1, toks \o <<"?", ".">>) IN
    IF e.ok /\ Head(e.rest) = "?" THEN e ELSE Fail
=============================================================================
