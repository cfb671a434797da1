----------------------------- MODULE MCCompile -----------------------------
(***************************************************************************)
(* Ints of three bits, strings of up to two letters, and one or two          *)
(* variables of each type.  Every expression with one operator; every one    *)
(* with two over fewer leaves; and every text of up to five tokens.          *)
(***************************************************************************)
EXTENDS Compile, Pratt, Bitwise

Bits(n) == n % (2 * MaxInt + 2)
MCBitAnd(m, n) == Wrap(Bits(m) & Bits(n))
MCBitOr(m, n) == Wrap(Bits(m) | Bits(n))
MCBitXor(m, n) == Wrap(Bits(m) ^^ Bits(n))

MCVarType == [v \in {"x", "y", "b", "s"} |-> CASE v \in {"x", "y"} -> "int" [] v = "b" -> "bool" [] v = "s" -> "string"]
MCFuncs == {"signal"}
MCLiterals ==
    [t \in {"0", "1", "true", "SIGUSR1"} |->
        CASE t = "0" -> Val("int", 0) [] t = "1" -> Val("int", 1)
          [] t = "true" -> NewBool(TRUE) [] t = "SIGUSR1" -> Val("string", 1)]

\* The precedence of the tables of the parser.
CodeGrammar == <<{"||"}, {"&&"}, {"&"}, {"^"}, {"|"}, {"==", "!="}, {"<", "<=", ">", ">="},
                 {"+", "-"}, {"*", "/", "%"}>>

MCEnvs ==
    {[v \in DOMAIN MCVarType |->
        CASE v = "x" -> Val("int", p[1]) [] v = "y" -> Val("int", p[2])
          [] v = "b" -> NewBool(b) [] v = "s" -> Val("string", 2)] :
        p \in {<<0, 0>>, <<1, 3>>, <<-4, -1>>, <<3, 0>>}, b \in BOOLEAN}

BinOps == UNION {CodeGrammar[k] : k \in DOMAIN CodeGrammar}
UnOps == {"+", "-", "~", "!"}

Lits == {Lit(MCLiterals[t]) : t \in {"0", "1", "true"}}
Numbers == {Var("x"), Var("y"), Lit(Val("int", 0)), Lit(Val("int", 1))}
Strings == {Var("s"), Lit(Val("string", 1))}
Signal == Call("signal", <<Lit(Val("string", 1))>>)
Leaves == Lits \cup Numbers \cup Strings \cup {Var("b"), Signal}
FewLeaves == Lits \cup {Var("x"), Var("y"), Var("b"), Signal}

\* Families of expressions, which TLC sorts faster than one set.
BinsL(ops, ls, rs) == {{Bin(op, l, r) : l \in ls} : op \in ops, r \in rs}
BinsR(ops, ls, rs) == {{Bin(op, l, r) : r \in rs} : op \in ops, l \in ls}
Uns(es) == {{Un(op, e) : e \in es} : op \in UnOps}

One == Uns(Leaves) \cup BinsL(BinOps, Leaves, Leaves)
OneFew == UNION (Uns(FewLeaves) \cup BinsL(BinOps, FewLeaves, FewLeaves))
Two == Uns(OneFew) \cup BinsL(BinOps, OneFew, FewLeaves) \cup BinsR(BinOps, FewLeaves, OneFew)

Bins(ops, ls, rs) == {Bin(op, l, r) : op \in ops, l \in ls, r \in rs}
Twins == Bins({"==", "!="}, {Var("x")}, {Var("x")})
Three == {Bins({"&&", "||"}, Twins \cup {Var("b")}, Bins({"&&", "=="}, {Var("b"), Signal}, {Signal})),
          {Call("signal", <<e>>) : e \in Bins({"+"}, Strings, Strings)},
          Bins({"-", "*", "&", "=="}, {Bin("-", Var("x"), Var("y")), Bin("&", Var("x"), Var("y"))},
               Bins({"-", "*", "|"}, {Var("x")}, Bins({"*", "^"}, {Var("y")}, {Var("x")})))}

MCExprs == {Leaves} \cup One \cup Two \cup Three

Toks == {"x", "-", "~", "==", "=", "(", ")", ",", "signal", "SIGUSR1"}
MCTexts == UNION {[1..n -> Toks] : n \in 1..5}

\* Every pair of binary operators, for the precedence of C.
CExprs == BinsL(BinOps, Bins(BinOps, {Var("x")}, {Var("y")}), {Var("x")})
          \cup BinsR(BinOps, {Var("x")}, Bins(BinOps, {Var("y")}, {Var("x")}))
NoTexts == {}
=============================================================================
