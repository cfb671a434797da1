------------------------------- MODULE Exprs -------------------------------
(***************************************************************************)
(* The expressions of the rules: their types (types/type.go and Annotate in  *)
(* tree/type.go), their evaluation (tree/eval.go), and how the compiler      *)
(* folds them (tree/const.go).                                              *)
(*                                                                          *)
(* An expression is the symbols that the parser made for it, in order: the   *)
(* operands of a symbol are pointers to earlier ones, and the last symbol is *)
(* the root.  A value is a type and a number; false is 0, true is 1.  All    *)
(* letters being the same here, a string is its length: concatenation adds,  *)
(* the order is that of lengths.  The type of the section of a rule, the     *)
(* universal type, floats and levels are left out.  The call is             *)
(* signal("SIGUSR1"), which has an effect: it consumes a signal, if any.     *)
(* Only expressions that were checked are evaluated and folded.             *)
(***************************************************************************)
EXTENDS Integers, Sequences

CONSTANTS MaxInt,    \* of an int
          MaxStr,    \* the length strings are truncated to
          VarType,   \* the type of each variable
          Literals,  \* the value of each literal token
          BitAnd(_, _), BitOr(_, _), BitXor(_, _)   \* & | ^ of ints, bit by bit

Ints == -(MaxInt + 1) .. MaxInt

Val(t, n) == [type |-> t, n |-> n]
NewBool(b) == Val("bool", IF b THEN 1 ELSE 0)
BoolVal(v) == v.type = "bool" /\ v.n = 1

InRange(v) ==
    CASE v.type = "int"    -> v.n \in Ints
      [] v.type = "bool"   -> v.n \in {0, 1}
      [] v.type = "string" -> v.n \in 0..MaxStr
      [] OTHER -> FALSE

\* The bits of -1 are all set.
ASSUME ExprsAssumption ==
    /\ MaxInt \in Nat /\ MaxStr \in Nat
    /\ \A x \in DOMAIN VarType : VarType[x] \in {"int", "bool", "string"}
    /\ \A m, n \in Ints : {BitAnd(m, n), BitOr(m, n), BitXor(m, n)} \subseteq Ints
    /\ \A m \in Ints : {BitAnd(m, -1), BitAnd(-1, m), BitOr(m, 0), BitOr(0, m)} = {m}
-----------------------------------------------------------------------------
(* Symbols, and the expressions that are made of them.                      *)

Const(v) == [node |-> "const", val |-> v]
VarSym(x) == [node |-> "var", name |-> x]
CallSym(f, args) == [node |-> "call", name |-> f, args |-> args]
UnSym(op, right) == [node |-> "un", op |-> op, right |-> right]
BinSym(op, left, right) == [node |-> "bin", op |-> op, left |-> left, right |-> right]

\* An expression with others before it.
Shifted(s, d) ==
    CASE s.node = "call" -> [s EXCEPT !.args = [k \in DOMAIN @ |-> @[k] + d]]
      [] s.node = "un"   -> [s EXCEPT !.right = @ + d]
      [] s.node = "bin"  -> [s EXCEPT !.left = @ + d, !.right = @ + d]
      [] OTHER -> s
Shift(e, d) == [k \in DOMAIN e |-> Shifted(e[k], d)]

NoExpr == <<>>
Lit(v) == <<Const(v)>>
Var(x) == <<VarSym(x)>>
FCall(f) == <<CallSym(f, <<>>)>>
Un(op, e) == Append(e, UnSym(op, Len(e)))
Bin(op, l, r) == l \o Shift(r, Len(l)) \o <<BinSym(op, Len(l), Len(l) + Len(r))>>

Root(e) == e[Len(e)]
AddArg(call, arg) ==
    LET others == SubSeq(call, 1, Len(call) - 1)
        all == others \o Shift(arg, Len(others))
    IN  Append(all, [Root(call) EXCEPT !.args = Append(@, Len(all))])

\* What the k-th symbol of an expression may be.
IsSym(s, k) ==
    \/ /\ s.node = "const" /\ s = Const(s.val)
       /\ s.val = Val(s.val.type, s.val.n) /\ s.val.n \in Int
       /\ s.val.type = "undef" \/ InRange(s.val)
    \/ s.node = "var" /\ s = VarSym(s.name) /\ s.name \in DOMAIN VarType
    \/ s.node = "call" /\ s = CallSym(s.name, s.args) /\ s.args \in Seq(1..(k - 1))
    \/ /\ s.node = "un" /\ s = UnSym(s.op, s.right)
       /\ s.op \in {"+", "-", "~", "!"} /\ s.right \in 1..(k - 1)
    \/ /\ s.node = "bin" /\ s = BinSym(s.op, s.left, s.right)
       /\ s.left \in 1..(k - 1) /\ s.right \in 1..(k - 1)

IsExpr(e) ==
    /\ Len(e) \in Nat \ {0} /\ DOMAIN e = 1..Len(e)
    /\ e = [k \in DOMAIN e |-> e[k]]
    /\ \A k \in DOMAIN e : IsSym(e[k], k)

IsConstant(s) == s.node = "const"

\* All anonymous symbols have the same name.
NameOf(s) == IF s.node \in {"var", "call"} THEN s.name ELSE "lit"
-----------------------------------------------------------------------------
(* Types.                                                                   *)

isCompOp == {"==", "!=", "<", "<=", ">", ">="}

OpsOf == [int    |-> {"+", "-", "*", "/", "%", "&", "|", "~", "^"} \cup isCompOp,
          bool   |-> {"&&", "||", "!"} \cup isCompOp,
          string |-> {"+"} \cup isCompOp]

IsCompatOp(t, op) == t = "undef" \/ op \in OpsOf[t]

\* With left and right of the same type, if the operator suits it.
BinTypeLeft(op, l, r) ==   \* mutant: a comparison has the type of its operands
    IF "undef" \notin {l, r} /\ l = r /\ IsCompatOp(l, op) THEN l ELSE "undef"
BinType(op, l, r) ==
    IF "undef" \notin {l, r} /\ l = r /\ IsCompatOp(l, op)
    THEN IF op \in isCompOp THEN "bool" ELSE l
    ELSE "undef"

UnType(op, t) ==
    IF t \notin {"string", "undef"} /\ IsCompatOp(t, op) THEN t ELSE "undef"

\* With the types of the symbols before s.
TypeAt(s, types) ==
    CASE s.node = "const" -> s.val.type
      [] s.node = "var"   -> VarType[s.name]
      [] s.node = "call"  -> IF s.name = "signal" /\ Len(s.args) = 1 /\ types[s.args[1]] = "string"
                             THEN "bool" ELSE "undef"
      [] s.node = "un"    -> UnType(s.op, types[s.right])
      [] s.node = "bin"   -> BinType(s.op, types[s.left], types[s.right])

TypesOf(e) == LET types[k \in DOMAIN e] == TypeAt(e[k], types) IN types
TypeOf(e) == TypesOf(e)[Len(e)]
-----------------------------------------------------------------------------
(* Evaluation.                                                              *)

Wrap(n) == ((n + MaxInt + 1) % (2 * MaxInt + 2)) - (MaxInt + 1)

\* Go divides towards zero.
Abs(n) == IF n < 0 THEN -n ELSE n
Quo(m, n) == (IF (m < 0) = (n < 0) THEN 1 ELSE -1) * (Abs(m) \div Abs(n))

IntOp(op, m, n) ==
    CASE op = "+" -> Wrap(m + n)
      [] op = "-" -> Wrap(m - n)
      [] op = "*" -> Wrap(m * n)
      [] op = "/" -> Wrap(Quo(m, n))
      [] op = "%" -> Wrap(m - n * Quo(m, n))
      [] op = "&" -> BitAnd(m, n)
      [] op = "|" -> BitOr(m, n)
      [] op = "^" -> BitXor(m, n)
      [] op = "~" -> -n - 1
      [] OTHER -> m

BoolOp(op, m, n) ==
    CASE op = "&&" -> IF m = 1 THEN n ELSE 0
      [] op = "||" -> IF m = 1 THEN 1 ELSE n
      [] op = "!"  -> 1 - m
      [] OTHER -> m

StrOp(op, m, n) ==
    CASE op = "+" -> IF m + n > MaxStr THEN MaxStr ELSE m + n
      [] OTHER -> m

CompOp(op, m, n) ==
    CASE op = "==" -> m = n
      [] op = "!=" -> m # n
      [] op = "<"  -> m < n
      [] op = "<=" -> m <= n
      [] op = ">"  -> m > n
      [] op = ">=" -> m >= n

\* The panic of a division by zero is recovered: it is an error, and the
\* value is still that of the left.
ZeroDivides(op, l, r) == l.type = "int" /\ op \in {"/", "%"} /\ r.n = 0
Compatible(op, l, r) ==
    /\ l.type = r.type \/ "undef" \in {l.type, r.type}
    /\ IsCompatOp(l.type, op)
BinErr(op, l, r) ==
    CASE ~Compatible(op, l, r) -> "types"
      [] Compatible(op, l, r) /\ ZeroDivides(op, l, r) -> "zero"
      [] OTHER -> "no"

OpVal(op, l, r) ==
    CASE op \in isCompOp -> NewBool(CompOp(op, l.n, r.n))
      [] op \notin isCompOp /\ "undef" \in {l.type, r.type} -> Val("undef", 0)
      [] OTHER -> Val(l.type, CASE l.type = "int" -> IntOp(op, l.n, r.n)
                                [] l.type = "bool" -> BoolOp(op, l.n, r.n)
                                [] l.type = "string" -> StrOp(op, l.n, r.n))

BinExpr(op, l, r) ==
    CASE BinErr(op, l, r) = "types" -> Val("undef", 0)
      [] BinErr(op, l, r) = "zero" -> l
      [] BinErr(op, l, r) = "no" -> OpVal(op, l, r)

\* An int operator is applied to 0 and the operand; the error is ignored.
UnaryExpr(op, v) ==
    IF ~IsCompatOp(v.type, op) THEN Val("undef", 0)
    ELSE Val(v.type, IF v.type = "int" THEN IntOp(op, 0, v.n) ELSE BoolOp(op, v.n, v.n))

IsShort(op, left) == (op = "||" /\ BoolVal(left)) \/ (op = "&&" /\ ~BoolVal(left))

\* A value, how many signals are left, and whether an error ended the process.
Outcome(v, sigs, err) == [val |-> v, sigs |-> sigs, err |-> err]
Took(sigs) ==
    Outcome(NewBool(sigs > 0), IF sigs > 0 THEN sigs - 1 ELSE 0, "no")

\* With sigs signals waiting, and the outcomes of the symbols before s.
EvalAt(s, env, done, sigs) ==
    CASE s.node = "const" -> Outcome(s.val, sigs, "no")
      [] s.node = "var"   -> Outcome(env[s.name], sigs, "no")
      [] s.node = "call" /\ Len(s.args) = 1 ->
            LET arg == done[s.args[1]][sigs] IN
            IF arg.err # "no" THEN arg ELSE Took(arg.sigs)
      [] s.node = "un"    ->
            LET right == done[s.right][sigs] IN
            IF right.err # "no" THEN right
            ELSE Outcome(UnaryExpr(s.op, right.val), right.sigs, "no")
      [] s.node = "bin"   ->
            LET left == done[s.left][sigs]
                right == done[s.right][left.sigs]
            IN  CASE left.err # "no" \/ IsShort(s.op, left.val) -> left
                  [] ~(left.err # "no" \/ IsShort(s.op, left.val)) /\ right.err # "no" -> right
                  [] OTHER -> Outcome(BinExpr(s.op, left.val, right.val), right.sigs,
                                      BinErr(s.op, left.val, right.val))

Eval(e, env) ==
    LET done[k \in DOMAIN e] == [sigs \in Nat |-> EvalAt(e[k], env, done, sigs)] IN done
EvalExpr(e, env, sigs) == Eval(e, env)[Len(e)][sigs]
-----------------------------------------------------------------------------
(* Folding.  The type of an expression is the one it was annotated with,    *)
(* before it was folded.  In the place of each symbol comes the one that it  *)
(* is folded to; those that nothing points to any more stay.                *)

Is(s, n) == IsConstant(s) /\ s.val.n = n

FoldInt(s, left, right, n) ==
    CASE Is(right, n) -> left
      [] ~Is(right, n) /\ Is(left, n) -> right
      [] OTHER -> s

NeutralZero(op) == 0   \* mutant: 0 is taken for neutral for & too
Neutral(op) == IF op = "&" THEN -1 ELSE 0

\* At compile time there is no context, and errors are ignored.
ConstVal(op, left, right) == Const(IF IsShort(op, left) THEN left ELSE BinExpr(op, left, right))

\* The first that applies.
Folding(s, type, left, right) ==
    CASE IsConstant(left) /\ IsConstant(right) -> "const"
      [] s.op \in {"||", "&&"} /\ IsConstant(left) /\ ~IsConstant(right) ->
            IF IsShort(s.op, left.val) THEN "short" ELSE "right"
      [] OTHER ->
            CASE (s.op = "+" /\ type = "int") \/ s.op \in {"|", "&"} -> "neutral"
              [] s.op = "-" /\ type = "int" /\ Is(right, 0) -> "left"
              [] s.op \in {"==", "!="} /\ right.node = "var" /\ NameOf(left) = NameOf(right) -> "same"
              [] OTHER -> "none"

FoldBinary(s, type, left, right) ==
    LET how == Folding(s, type, left, right) IN
    CASE how = "const" -> ConstVal(s.op, left.val, right.val)
      [] how = "short" -> Const(NewBool(s.op = "||"))
      [] how = "right" -> right
      [] how = "left"  -> left
      [] how = "neutral" -> FoldInt(s, left, right, Neutral(s.op))
      [] how = "same"  -> Const(NewBool(s.op = "=="))
      [] how = "none"  -> s

FoldUnaryNot(s, right) == s   \* mutant: unary operators are not folded
FoldUnary(s, right) == IF IsConstant(right) THEN Const(UnaryExpr(s.op, right.val)) ELSE s

FoldAt(s, type, folded) ==
    CASE s.node \in {"const", "var", "call"} -> s
      [] s.node = "un"  -> FoldUnary(s, folded[s.right])
      [] s.node = "bin" -> FoldBinary(s, type, folded[s.left], folded[s.right])

Fold(e) ==
    LET types == TypesOf(e)
        folded[k \in DOMAIN e] == FoldAt(e[k], types[k], folded)
    IN  folded

\* Nothing but / is looked at.
iszerodiv(e) ==
    \E k \in DOMAIN e :
        e[k].node = "bin" /\ e[k].op = "/" /\ TypesOf(e)[k] = "int" /\ Is(Fold(e)[e[k].right], 0)
=============================================================================
