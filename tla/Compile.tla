------------------------------ MODULE Compile ------------------------------
(***************************************************************************)
(* An expression through the compiler (BuildAst in xrips/xrips.go): it is    *)
(* parsed, checked and folded.  It is the trigger of a rule, which must be   *)
(* boolean, and with which the rule is deleted if it can never be true; or   *)
(* an argument of an action, which may have any type and stays: which of     *)
(* them is left open, and decided by the checks.  The parser is in Pratt.   *)
(***************************************************************************)
EXTENDS Exprs, FiniteSets

CONSTANTS Parsed(_), \* what the parser makes of a text: ok, and if so the expression x
          Grammar,   \* binary operators, from those that bind least
          Exprs,     \* families of expressions to compile, as printed
          Texts,     \* other sequences of tokens
          Envs,      \* values of the variables
          MaxSigs    \* signals that may be waiting

VARIABLES
    meant,    \* ghost: the expression that was printed, if it was
    text,     \* the tokens
    tree,     \* what they have been read as
    stage     \* "text", "parsed", "typed", "folded"; or "dropped" or "error"

vars == <<meant, text, tree, stage>>
-----------------------------------------------------------------------------
(* How one writes an expression, with no more parentheses than the grammar   *)
(* asks for, all operators being left associative.                          *)

Power(op) == CHOOSE k \in DOMAIN Grammar : op \in Grammar[k]
Token(v) == CHOOSE tok \in DOMAIN Literals : Literals[tok] = v

\* Where an operator must bind at least as much as power.
WriteAt(s, power, wrote) ==
    CASE s.node = "const" -> <<Token(s.val)>>
      [] s.node = "var"   -> <<s.name>>
      [] s.node = "call"  -> <<s.name, "(">> \o wrote[s.args[1]][0] \o <<")">>
      [] s.node = "un"    -> <<s.op>> \o wrote[s.right][Len(Grammar) + 1]
      [] s.node = "bin"   ->
            LET p == Power(s.op)
                inner == wrote[s.left][p] \o <<s.op>> \o wrote[s.right][p + 1]
            IN  IF p < power THEN <<"(">> \o inner \o <<")">> ELSE inner

Write(e) ==
    LET wrote[k \in DOMAIN e] == [power \in Nat |-> WriteAt(e[k], power, wrote)]
    IN  wrote[Len(e)][0]

\* What the parser returns is an expression: it makes a symbol after those of
\* its operands.
ParsesTo(t) == LET e == Parsed(t) IN e.ok => IsExpr(e.x)

ASSUME CompileAssumption ==
    /\ \A t \in Texts : ParsesTo(t)
    /\ \A family \in Exprs : \A e \in family : ParsesTo(Write(e))
    /\ \A env \in Envs, x \in DOMAIN VarType :
           /\ env[x] = Val(VarType[x], env[x].n)
           /\ InRange(env[x])
    /\ MaxSigs \in Nat
-----------------------------------------------------------------------------
Init ==
    /\ tree = NoExpr
    /\ stage = "text"
    /\ \/ \E family \in Exprs : meant \in family /\ text = Write(meant)
       \/ meant = NoExpr /\ text \in Texts

ParseExpr ==
    /\ stage = "text"
    /\ LET e == Parsed(text) IN e.ok /\ tree' = e.x
    /\ stage' = "parsed"
    /\ UNCHANGED <<meant, text>>

ParseFails ==
    /\ stage = "text" /\ ~Parsed(text).ok
    /\ stage' = "error"
    /\ UNCHANGED <<meant, text, tree>>

\* A boolean is good for a trigger, any type for the argument of some action.
TypeCheck ==
    /\ stage = "parsed" /\ TypeOf(tree) # "undef"
    /\ stage' = "typed"
    /\ UNCHANGED <<meant, text, tree>>

\* Without a type it is good for nothing; a trigger has to be boolean.
TypeFails ==
    /\ stage = "parsed" /\ TypeOf(tree) # "bool"
    /\ stage' = "error"
    /\ UNCHANGED <<meant, text, tree>>

\* A constant that is not true is false, whatever its type.
IsTrue(e) == IsConstant(Root(e)) => BoolVal(Root(e).val)

\* An argument, or a trigger that may be true.
FoldExpr ==
    /\ stage = "typed" /\ ~iszerodiv(tree)
    /\ tree' = Fold(tree)
    /\ stage' = "folded"
    /\ UNCHANGED <<meant, text>>

\* A trigger that is never true goes, with its rule.
DropRule ==
    /\ stage = "typed" /\ ~iszerodiv(tree)
    /\ TypeOf(tree) = "bool"
    /\ tree' = Fold(tree)
    /\ ~IsTrue(tree')
    /\ stage' = "dropped"
    /\ UNCHANGED <<meant, text>>

FoldFails ==
    /\ stage = "typed" /\ iszerodiv(tree)
    /\ stage' = "error"
    /\ UNCHANGED <<meant, text, tree>>

Next == ParseExpr \/ ParseFails \/ TypeCheck \/ TypeFails \/ FoldExpr \/ DropRule \/ FoldFails

Spec == Init /\ [][Next]_vars
-----------------------------------------------------------------------------
(* Properties.                                                              *)

\* An expression that is written by the rules of the grammar, with all the
\* parentheses it needs and no other, is parsed as what was meant.  It is about
\* the parser, given the precedence of its tables (parser/pratt.go:22-62): in the
\* run compile Grammar is theirs.
ReadAsMeant ==
    meant # NoExpr /\ stage # "text" =>
        /\ tree # NoExpr
        /\ stage = "parsed" => tree = meant

\* What the documentation says of that precedence (doc/tech/tech.tex:995-997): the
\* operators are "roughly the same as in C with the same precedence".
CGrammar == <<{"||"}, {"&&"}, {"|"}, {"^"}, {"&"}, {"==", "!="}, {"<", "<=", ">", ">="},
              {"+", "-"}, {"*", "/", "%"}>>
ReadAsInC == Grammar = CGrammar => ReadAsMeant

\* The tokens an expression was made of, parentheses and commas aside: in the
\* order of its symbols, but for binary operators, which come between their
\* operands.
YieldAt(s, yielded) ==
    CASE s.node = "const" -> <<Token(s.val)>>
      [] s.node = "var"   -> <<s.name>>
      [] s.node = "call"  -> <<s.name>> \o (IF s.args = <<>> THEN <<>> ELSE yielded[s.args[1]])
      [] s.node = "un"    -> <<s.op>> \o yielded[s.right]
      [] s.node = "bin"   -> yielded[s.left] \o <<s.op>> \o yielded[s.right]
Yield(e) == LET yielded[k \in DOMAIN e] == YieldAt(e[k], yielded) IN yielded[Len(e)]

Count(tok, toks) == Cardinality({k \in DOMAIN toks : toks[k] = tok})
Balanced(toks) ==
    /\ Count("(", toks) = Count(")", toks)
    /\ \A k \in {k \in DOMAIN toks : toks[k] = ")"} :
           Count(")", SubSeq(toks, 1, k)) <= Count("(", SubSeq(toks, 1, k))

\* Whatever is typed in, a text that gets past the checks has its parentheses
\* balanced, and all its tokens are in the expression, in order: the parser
\* that stops, and the ( it may take for an operator, lose nothing.
AcceptedWhole ==
    stage = "typed" =>
        /\ Balanced(text)
        /\ Yield(tree) = SelectSeq(text, LAMBDA tok : tok \notin {"(", ")", ","})

\* An expression that was checked has, whatever the variables hold, a value of
\* its type, and nothing but a division ends the process: folded or not.
TypeSound ==
    stage \in {"typed", "folded", "dropped"} =>
        \A env \in Envs, sigs \in 0..MaxSigs :
            LET r == EvalExpr(tree, env, sigs) IN
            /\ r.err # "types"
            /\ r.err = "no" => r.val.type = TypeOf(tree) /\ InRange(r.val)

\* Folding changes neither the value of an expression nor the signals that it
\* consumes, where its evaluation has no error; so that a rule that is deleted
\* would never have been activated.  Not so with a variable that has the name
\* of the anonymous symbols, or of the function.
SameMeaning(e, f) ==
    \A env \in Envs, sigs \in 0..MaxSigs :
        LET r == EvalExpr(e, env, sigs) IN
        r.err = "no" => EvalExpr(f, env, sigs) = r

PlainNames == {"lit", "signal"} \cap DOMAIN VarType = {}

FoldKeepsMeaning == [][stage = "typed" /\ PlainNames => SameMeaning(tree, tree')]_vars

\* No operation is left whose operands are all constants: in particular, an
\* expression with no variables and no calls becomes a literal.
NothingConstantLeft ==
    stage \in {"folded", "dropped"} =>
        \A k \in DOMAIN tree :
            /\ tree[k].node = "un" => ~IsConstant(tree[tree[k].right])
            /\ tree[k].node = "bin" =>
                   ~(IsConstant(tree[tree[k].left]) /\ IsConstant(tree[tree[k].right]))
=============================================================================
